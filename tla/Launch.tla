------------------------------- MODULE Launch -------------------------------
(***************************************************************************)
(* How the analyses of a build are launched.  The compiler of the build is *)
(* replaced by ccc-analyzer or c++-analyzer, or cmake_analysis.sh goes     *)
(* through compile_commands.json: each writes a shell script, piece by     *)
(* piece, in the directory it runs in, sources it, and ends with a status  *)
(* that stops the build or does not.  The scripts of ccc-analyzer and      *)
(* c++-analyzer are named after the base name of the file they compile.    *)
(* The script runs the compiler and callers, whose main function goes      *)
(* through its arguments.                                                  *)
(*                                                                         *)
(* A build is the sequence of the jobs that make runs at the same time in  *)
(* one directory.  A word of a command line is an option or the name of a  *)
(* file.  Jobs are numbered, and <<j, i>> is the i-th command of job j.    *)
(***************************************************************************)
EXTENDS Naturals, Sequences, SequencesExt, FiniteSets

CONSTANTS
  Builds,     \* the builds to launch
  CFiles,     \* words that end with .c
  CppFiles,   \* words that end with .cpp
  Objects,    \* words that end with .o
  BaseName,   \* the base name of each source file
  OWords,     \* options that begin with -o; "-o" is one of them
  LongWords,  \* options that begin with --, but for --version
  NoFile      \* get_file has found nothing

VARIABLES
  build,      \* the build that is under way; it does not change
  pc,         \* where each job is
  script,     \* the launch scripts of the directory
  unwritten,  \* the pieces of its script that each job has still to write
  offset,     \* how many it has written: where its next echo goes
  running,    \* what each job has still to run of the script it has sourced
  status,     \* $? of each job; its exit status at the end
  parsing,    \* the arguments of the callers process of each job
  done,       \* which tool has gone through which command, for which job
  outputs,    \* the output files of the tools, by the command they come from
  mixed,      \* jobs that were at their script at the same time (history)
  unbegun     \* units callers ended with zero for without reading them (history)

vars == <<build, pc, script, unwritten, offset, running, status, parsing, done, outputs, mixed,
          unbegun>>

JobIds == UNION {DOMAIN b : b \in Builds}
Drivers == {"ccc", "c++", "cmake", "callers"}
Types == {"callers", "frama-c", "frama-clang", "framaCIRGen", "all", "unset"}
Tools == {"clang", "callers", "framaCIRGen", "frama"}
Commands == Seq(Seq(STRING))

ASSUME LaunchAssumption ==
  /\ Builds \subseteq Seq([driver : Drivers, type : Types, commands : Commands])
  /\ \A b \in Builds : \A j \in DOMAIN b :
       b[j].driver = "cmake" \/ Len(b[j].commands) = 1
  /\ "-o" \in OWords
  /\ OWords \cap LongWords = {} /\ "--version" \notin OWords \cup LongWords
  /\ NoFile \notin CFiles \cup CppFiles \cup Objects

-----------------------------------------------------------------------------
(* Command lines and the scripts made from them.                           *)

\* The words of s that are not in words.
Without(s, words) == FoldLeft(LAMBDA t, w : IF w \in words THEN t ELSE Append(t, w), << >>, s)

\* The first word that names a file of this kind.
get_file(files, args) ==
  LET is(w) == w \in files IN
  IF \E i \in DOMAIN args : is(args[i]) THEN args[SelectInSeq(args, is)] ELSE NoFile

\* The source file of a command, when it can be told: not of a command with a
\* .c and a .cpp file, nor of one that names no object file.
SourceOf(args) ==
  LET c == get_file(CFiles, args)
      cpp == get_file(CppFiles, args) IN
  IF get_file(Objects, args) = NoFile THEN NoFile
  ELSE IF cpp = NoFile THEN c ELSE IF c = NoFile THEN cpp ELSE NoFile

\* What the script runs for a command: clang always, the rest if it compiles.
ToolsOf(type, args) ==
  LET compiles == "-c" \in ToSet(args)
      If(c, tool) == IF c THEN <<tool>> ELSE << >> IN
  <<"clang">>
    \o If(compiles /\ type \in {"callers", "all"}, "callers")
    \o If(compiles /\ type = "framaCIRGen", "framaCIRGen")
    \o If(compiles /\ type \in {"frama-c", "frama-clang", "all"}, "frama")

\* Mutant of ToolPieces: no status is seen, as for frama in C++.
ToolPiecesUnseen(unit, tool, isC) ==
  LET piece(s) == [unit |-> unit, tool |-> tool, step |-> s] IN
  <<piece("run"), piece("ignore")>> \o (IF tool = "frama" THEN << >> ELSE <<piece("gzip")>>)

\* The pieces of a script for a tool.  The status of framaCIRGen, and of frama
\* in C++, is expanded when the script is written, and so is never seen.
ToolPieces(unit, tool, isC) ==
  LET piece(s) == [unit |-> unit, tool |-> tool, step |-> s] IN
  <<piece("run"),
    piece(IF tool \in {"clang", "callers"} \/ (tool = "frama" /\ isC)
          THEN "check" ELSE "ignore")>>
    \o (IF tool = "frama" THEN << >> ELSE <<piece("gzip")>>)

\* What the script has for the i-th command of a job, and the whole script.
CommandPieces(j, i) ==
  LET args == build[j].commands[i]
      src == SourceOf(args)
      tools == ToolsOf(build[j].type, args) IN
  IF src = NoFile THEN << >>
  ELSE FlattenSeq([t \in DOMAIN tools |-> ToolPieces(<<j, i>>, tools[t], src \in CFiles)])

ScriptOf(j) == FlattenSeq([i \in DOMAIN build[j].commands |-> CommandPieces(j, i)])

\* The file a driver analyses; cmake_analysis.sh takes all commands of its list.
FileOf(j) ==
  LET args == build[j].commands[1] IN
  CASE build[j].driver = "ccc" -> get_file(CFiles, args)
    [] build[j].driver = "c++" -> get_file(CppFiles, args)
    [] OTHER -> NoFile

\* Mutant of ScriptName: one name for all scripts of a driver.
ScriptNameOfDriver(j) == <<build[j].driver>>

ScriptName(j) ==
  IF FileOf(j) = NoFile THEN <<build[j].driver>>
  ELSE <<build[j].driver, BaseName[FileOf(j)]>>

\* The arguments the script gives to callers.
CallersArguments(unit) ==
  LET args == build[unit[1]].commands[unit[2]]
      dropped == {"-c", "-o", "-nostdinc", SourceOf(args), get_file(Objects, args)}
  IN Without(args, dropped) \o <<"-o", "stdout", SourceOf(args)>>

Hole == [unit |-> <<0, 0>>, tool |-> "clang", step |-> "hole"]
Broken == [unit |-> <<0, 0>>, tool |-> "clang", step |-> "broken"]
CommandsOf(j) == {j} \X (DOMAIN build[j].commands)
AllCommands == UNION {CommandsOf(j) : j \in DOMAIN build}
Pieces == {Hole, Broken} \cup
          [unit : AllCommands, tool : Tools, step : {"run", "check", "ignore", "gzip"}]
NotParsing == [args |-> << >>, left |-> 0, output |-> FALSE, version |-> FALSE]

-----------------------------------------------------------------------------
Init ==
  /\ build \in Builds
  /\ pc = [j \in DOMAIN build |-> "start"]
  /\ script = [s \in {ScriptName(j) : j \in {k \in DOMAIN build : build[k].driver # "callers"}}
                 |-> << >>]
  /\ unwritten = [j \in DOMAIN build |-> << >>]
  /\ offset = [j \in DOMAIN build |-> 0]
  /\ running = [j \in DOMAIN build |-> << >>]
  /\ status = [j \in DOMAIN build |-> 0]
  /\ parsing = [j \in DOMAIN build |-> NotParsing]
  /\ done = {}
  /\ outputs = {}
  /\ mixed = {}
  /\ unbegun = {}

End(j, s) ==
  /\ pc' = [pc EXCEPT ![j] = "ended"]
  /\ status' = [status EXCEPT ![j] = s]

\* ccc-analyzer without a .c file: the command is clang's.
Forward(j) ==
  /\ pc[j] = "start" /\ build[j].driver = "ccc" /\ FileOf(j) = NoFile
  /\ \E s \in {0, 1} :
       /\ End(j, s)
       /\ done' = IF s = 0 THEN done \cup {<<j, "clang", <<j, 1>>>>} ELSE done
  /\ UNCHANGED <<build, script, unwritten, offset, running, parsing,
                 outputs, mixed, unbegun>>

\* c++-analyzer without a .cpp file does nothing.
Bypass(j) ==
  /\ pc[j] = "start" /\ build[j].driver = "c++" /\ FileOf(j) = NoFile
  /\ End(j, 0)
  /\ UNCHANGED <<build, script, unwritten, offset, running, parsing, done,
                 outputs, mixed, unbegun>>

\* ccc-analyzer wants CALLERS_ANALYSIS_TYPE; c++-analyzer only says so.
Untyped(j) ==
  /\ pc[j] = "start" /\ build[j].driver = "ccc"
  /\ FileOf(j) # NoFile /\ build[j].type = "unset"
  /\ End(j, 1)
  /\ UNCHANGED <<build, script, unwritten, offset, running, parsing, done,
                 outputs, mixed, unbegun>>

\* Jobs whose script may be the same file, told from the commands alone.
Rivals(j) ==
  {k \in DOMAIN build \ {j} :
     /\ build[k].driver = build[j].driver
     /\ \/ build[j].driver = "cmake"
        \/ /\ FileOf(j) # NoFile /\ FileOf(k) # NoFile
           /\ BaseName[FileOf(k)] = BaseName[FileOf(j)]}

\* "> script": the shell truncates it, and then runs the function that fills it.
Truncate(j) ==
  LET others == {k \in Rivals(j) : pc[k] \in {"write", "source"}} IN
  /\ pc[j] = "start"
  /\ \/ build[j].driver = "cmake"
     \/ build[j].driver = "ccc" /\ FileOf(j) # NoFile /\ build[j].type # "unset"
     \/ build[j].driver = "c++" /\ FileOf(j) # NoFile
  /\ pc' = [pc EXCEPT ![j] = "write"]
  /\ unwritten' = [unwritten EXCEPT ![j] = ScriptOf(j)]
  /\ script' = [script EXCEPT ![ScriptName(j)] = << >>]
  /\ mixed' = IF others = {} THEN mixed ELSE mixed \cup others \cup {j}
  /\ UNCHANGED <<build, offset, running, status, parsing, done, outputs, unbegun>>

\* An echo writes at the offset of its own process, whatever others have done to
\* the file: pieces of two jobs fall on one another, and what was never written
\* reads as zeroes.
PutPiece(text, n, piece) ==
  [i \in 1 .. (IF Len(text) > n THEN Len(text) ELSE n) |->
     IF i = n THEN piece ELSE IF i \in DOMAIN text THEN text[i] ELSE Hole]

Write(j) ==
  /\ pc[j] = "write" /\ unwritten[j] # << >>
  /\ script' = [script EXCEPT ![ScriptName(j)] = PutPiece(@, offset[j] + 1, unwritten[j][1])]
  /\ unwritten' = [unwritten EXCEPT ![j] = Tail(@)]
  /\ offset' = [offset EXCEPT ![j] = @ + 1]
  /\ UNCHANGED <<build, pc, running, status, parsing, done, outputs, mixed, unbegun>>

Written(j) ==
  /\ pc[j] = "write" /\ unwritten[j] = << >>
  /\ pc' = [pc EXCEPT ![j] = "source"]
  /\ UNCHANGED <<build, script, unwritten, offset, running, status, parsing, done,
                 outputs, mixed, unbegun>>

\* What the shell may make of a script: it drops the zeroes or refuses the file,
\* and stops at the end if the last piece is still being written by another job.
Readings(j, text) ==
  LET kept == Without(text, {Hole}) IN
  {kept} \cup (IF kept # text THEN {<<Broken>>} ELSE {})
         \cup (IF \E k \in Rivals(j) : pc[k] = "write" THEN {Append(kept, Broken)} ELSE {})

\* source reads the file at once and then runs what it has read; nothing in it
\* is a status of zero.
Source(j) ==
  /\ pc[j] = "source"
  /\ \E r \in Readings(j, script[ScriptName(j)]) : running' = [running EXCEPT ![j] = r]
  /\ pc' = [pc EXCEPT ![j] = "run"]
  /\ status' = [status EXCEPT ![j] = 0]
  /\ UNCHANGED <<build, script, unwritten, offset, parsing, done,
                 outputs, mixed, unbegun>>

-----------------------------------------------------------------------------
(* The pieces of a script.                                                 *)

At(j, steps, tools) ==
  /\ pc[j] = "run" /\ running[j] # << >>
  /\ running[j][1].step \in steps /\ running[j][1].tool \in tools

\* A compiler, or a frama tool, may succeed or fail.
RunTool(j) ==
  LET p == running[j][1] IN
  /\ At(j, {"run"}, Tools \ {"callers"})
  /\ running' = [running EXCEPT ![j] = Tail(@)]
  /\ \E s \in {0, 1} :
       /\ status' = [status EXCEPT ![j] = s]
       /\ done' = IF s = 0 THEN done \cup {<<j, p.tool, p.unit>>} ELSE done
       /\ outputs' = IF s = 0 \/ p.tool = "clang"
                     THEN outputs \cup {<<p.tool, p.unit>>} ELSE outputs
  /\ UNCHANGED <<build, pc, script, unwritten, offset, parsing, mixed, unbegun>>

\* "if [ $? -ne 0 ]; then ... return n; fi"
Check(j) ==
  /\ At(j, {"check"}, Tools)
  /\ running' = [running EXCEPT ![j] = IF status[j] = 0 THEN Tail(@) ELSE << >>]
  /\ UNCHANGED <<build, pc, script, unwritten, offset, status, parsing, done,
                 outputs, mixed, unbegun>>

\* "if [ 0 -ne 0 ]; ..." and a piece that is not a whole command.
Ignore(j) ==
  /\ At(j, {"ignore", "broken"}, Tools)
  /\ status' = [status EXCEPT ![j] = IF running[j][1].step = "ignore" THEN 0 ELSE 1]
  /\ running' = [running EXCEPT ![j] = Tail(@)]
  /\ UNCHANGED <<build, pc, script, unwritten, offset, parsing, done,
                 outputs, mixed, unbegun>>

\* gzip -f fails if there is no file, and removes the one it has compressed.
Gzip(j) ==
  LET out == <<running[j][1].tool, running[j][1].unit>> IN
  /\ At(j, {"gzip"}, Tools)
  /\ status' = [status EXCEPT ![j] = IF out \in outputs THEN 0 ELSE 1]
  /\ outputs' = outputs \ {out}
  /\ running' = [running EXCEPT ![j] = Tail(@)]
  /\ UNCHANGED <<build, pc, script, unwritten, offset, parsing, done, mixed, unbegun>>

\* The end of the script: c++-analyzer does not pass its status on.
Return(j) ==
  /\ pc[j] = "run" /\ running[j] = << >>
  /\ End(j, IF build[j].driver = "c++" THEN 0 ELSE status[j])
  /\ UNCHANGED <<build, script, unwritten, offset, running, parsing, done,
                 outputs, mixed, unbegun>>

-----------------------------------------------------------------------------
(* The main function of callers and callers++.                             *)

\* The arguments are counted down from the first to the last: argc - 2 to 0.
StartParsing(j, args) ==
  parsing' = [parsing EXCEPT ![j] = [args |-> args, left |-> Len(args),
                                     output |-> FALSE, version |-> FALSE]]

RunCallers(j) ==
  /\ At(j, {"run"}, {"callers"})
  /\ pc' = [pc EXCEPT ![j] = "parse"]
  /\ StartParsing(j, CallersArguments(running[j][1].unit))
  /\ UNCHANGED <<build, script, unwritten, offset, running, status, done,
                 outputs, mixed, unbegun>>

\* callers launched by hand.
RunByHand(j) ==
  /\ pc[j] = "start" /\ build[j].driver = "callers"
  /\ pc' = [pc EXCEPT ![j] = "parse"]
  /\ StartParsing(j, build[j].commands[1])
  /\ UNCHANGED <<build, script, unwritten, offset, running, status, done,
                 outputs, mixed, unbegun>>

\* Process ends with status s, in a script or by hand.
CallersEnds(j, s) ==
  /\ parsing' = [parsing EXCEPT ![j] = NotParsing]
  /\ IF build[j].driver = "callers"
     THEN End(j, s) /\ UNCHANGED running
     ELSE /\ pc' = [pc EXCEPT ![j] = "run"]
          /\ status' = [status EXCEPT ![j] = s]
          /\ running' = [running EXCEPT ![j] = Tail(@)]

Word(j) == parsing[j].args[Len(parsing[j].args) - parsing[j].left + 1]

\* Mutant of ProcessOutput: the number of arguments left is not looked at.
ProcessOutputLast(j) ==
  /\ pc[j] = "parse" /\ parsing[j].left > 0 /\ Word(j) \in OWords
  /\ IF parsing[j].output
     THEN CallersEnds(j, 0)
     ELSE /\ parsing' = [parsing EXCEPT ![j].left = @ - 2, ![j].output = TRUE]
          /\ UNCHANGED <<pc, running, status>>
  /\ UNCHANGED <<build, script, unwritten, offset, done, outputs, mixed, unbegun>>

\* Mutant of ProcessOutput: a second -o replaces the first.
ProcessOutputAgain(j) ==
  /\ pc[j] = "parse" /\ parsing[j].left > 0 /\ Word(j) \in OWords
  /\ IF parsing[j].left = 1
     THEN CallersEnds(j, 0)
     ELSE /\ parsing' = [parsing EXCEPT ![j].left = @ - 2, ![j].output = TRUE]
          /\ UNCHANGED <<pc, running, status>>
  /\ UNCHANGED <<build, script, unwritten, offset, done, outputs, mixed, unbegun>>

\* "-o": a second one, or one without an argument, is a usage error, which ends
\* with a status of zero.
ProcessOutput(j) ==
  /\ pc[j] = "parse" /\ parsing[j].left > 0 /\ Word(j) \in OWords
  /\ IF parsing[j].left = 1 \/ parsing[j].output
     THEN CallersEnds(j, 0)
     ELSE /\ parsing' = [parsing EXCEPT ![j].left = @ - 2, ![j].output = TRUE]
          /\ UNCHANGED <<pc, running, status>>
  /\ UNCHANGED <<build, script, unwritten, offset, done, outputs, mixed, unbegun>>

\* Mutant of ProcessLong: --version is not counted either.
ProcessLongUncounted(j) ==
  /\ pc[j] = "parse" /\ parsing[j].left > 0 /\ Word(j) \in LongWords \cup {"--version"}
  /\ parsing' = IF Word(j) = "--version"
                THEN [parsing EXCEPT ![j].version = TRUE] ELSE parsing
  /\ UNCHANGED <<build, pc, script, unwritten, offset, running, status, done,
                 outputs, mixed, unbegun>>

\* "--": only --version counts the argument; any other is looked at for ever.
ProcessLong(j) ==
  /\ pc[j] = "parse" /\ parsing[j].left > 0 /\ Word(j) \in LongWords \cup {"--version"}
  /\ parsing' = IF Word(j) = "--version"
                THEN [parsing EXCEPT ![j].left = @ - 1, ![j].version = TRUE] ELSE parsing
  /\ UNCHANGED <<build, pc, script, unwritten, offset, running, status, done,
                 outputs, mixed, unbegun>>

ProcessOther(j) ==
  /\ pc[j] = "parse" /\ parsing[j].left > 0
  /\ Word(j) \notin OWords \cup LongWords \cup {"--version"}
  /\ parsing' = [parsing EXCEPT ![j].left = @ - 1]
  /\ UNCHANGED <<build, pc, script, unwritten, offset, running, status, done,
                 outputs, mixed, unbegun>>

\* All arguments are read.  Nothing to do without any, nor after --version.
\* Otherwise the output file is opened, unless no invocation can be made of the
\* arguments, and the unit analysed; compilation errors, a malformed json file or
\* an assertion end the analysis.  Or clang cannot begin with the unit, such as for
\* a precompiled header made for other language options than those main sets: what
\* ExecuteAction returns is not looked at, and callers ends with zero all the same.
Analyse(j) ==
  LET unit == IF build[j].driver = "callers" THEN <<j, 1>> ELSE running[j][1].unit IN
  /\ pc[j] = "parse" /\ parsing[j].left = 0
  /\ \/ /\ parsing[j].version \/ parsing[j].args = << >>
        /\ CallersEnds(j, 0)
        /\ UNCHANGED <<done, outputs, unbegun>>
     \/ /\ ~parsing[j].version /\ parsing[j].args # << >>
        /\ CallersEnds(j, 0)
        /\ outputs' = outputs \cup {<<"callers", unit>>}
        /\ \/ done' = done \cup {<<j, "callers", unit>>} /\ UNCHANGED unbegun
           \/ unbegun' = unbegun \cup {<<j, unit>>} /\ UNCHANGED done
     \/ /\ ~parsing[j].version /\ parsing[j].args # << >>
        /\ CallersEnds(j, 1)
        /\ outputs' \in {outputs, outputs \cup {<<"callers", unit>>}}
        /\ UNCHANGED <<done, unbegun>>
  /\ UNCHANGED <<build, script, unwritten, offset, mixed>>

-----------------------------------------------------------------------------
Step(j) ==
  \/ Forward(j) \/ Bypass(j) \/ Untyped(j) \/ Truncate(j) \/ Write(j) \/ Written(j)
  \/ Source(j) \/ RunTool(j) \/ Check(j) \/ Ignore(j) \/ Gzip(j) \/ Return(j)
  \/ RunCallers(j) \/ RunByHand(j)
  \/ ProcessOutput(j) \/ ProcessLong(j) \/ ProcessOther(j) \/ Analyse(j)

Next == \E j \in DOMAIN build : Step(j)

\* The operating system runs every process; the compiler and the frama tools are
\* taken to end.
Fairness == \A j \in JobIds : WF_vars(j \in DOMAIN build /\ Step(j))

Spec == Init /\ [][Next]_vars /\ Fairness

-----------------------------------------------------------------------------
(* Properties.                                                             *)

\* Types: what is parsed and run belongs to commands of the build.
TypeOK ==
  /\ build \in Builds
  /\ pc \in [DOMAIN build -> {"start", "write", "source", "run", "parse", "ended"}]
  /\ \A s \in DOMAIN script : script[s] \in Seq(Pieces)
  /\ \A j \in DOMAIN build :
       /\ unwritten[j] \in Seq(Pieces) /\ offset[j] \in Nat
       /\ running[j] \in Seq(Pieces)
       /\ parsing[j].left \in 0 .. Len(parsing[j].args)
  /\ status \in [DOMAIN build -> {0, 1}]
  /\ done \subseteq (DOMAIN build) \X Tools \X AllCommands
  /\ mixed \subseteq DOMAIN build
  /\ unbegun \subseteq (DOMAIN build) \X AllCommands

\* What the loop over the arguments comes to, without the loop: the argument of
\* the first -o is passed over; a second -o, or one at the end, is refused; and a
\* long option before that is never passed.
FirstOutput(args) ==
  CHOOSE i \in 1 .. Len(args) + 1 :
    /\ i <= Len(args) => args[i] \in OWords
    /\ \A k \in 1 .. i - 1 : args[k] \notin OWords
RefusedAt(args, i) ==
  /\ i \in DOMAIN args /\ args[i] \in OWords
  /\ \/ i = Len(args) /\ i # FirstOutput(args) + 1
     \/ i > FirstOutput(args) + 1
EndlessAt(args, i) ==
  /\ i \in DOMAIN args /\ args[i] \in LongWords
  /\ i # FirstOutput(args) + 1
  /\ \A k \in 1 .. i - 1 : ~RefusedAt(args, k)
Refused(args) == \E i \in DOMAIN args : RefusedAt(args, i)
Endless(args) == \E i \in DOMAIN args : EndlessAt(args, i)
Versioned(args) == \E i \in DOMAIN args : args[i] = "--version" /\ i # FirstOutput(args) + 1

\* The commands of a job that are to be analysed.
Analysed(j) ==
  {u \in CommandsOf(j) :
     LET args == build[j].commands[u[2]] IN
     /\ SourceOf(args) # NoFile /\ (build[j].driver = "ccc" => FileOf(j) # NoFile)
     /\ "callers" \in ToSet(ToolsOf(build[j].type, args))}

\* The command lines of callers that job j may run.
CallersLines(j) ==
  IF build[j].driver = "callers" THEN {build[j].commands[1]}
  ELSE {CallersArguments(u) : u \in UNION {Analysed(k) : k \in {j} \cup Rivals(j)}}

\* An analysis is launched and comes to an end, whatever the arguments of the
\* build: but for an unknown option that begins with two dashes, which main
\* looks at for ever.
EveryJobEnds ==
  \A j \in JobIds :
    <>(\/ j \notin DOMAIN build
       \/ pc[j] = "ended"
       \/ \E args \in CallersLines(j) : Endless(args))

\* And the loop over the arguments does what they say: it is not left if there is
\* such an option, and a usage error leaves it without any output.
ArgumentsRead ==
  [][\A j \in DOMAIN build :
       pc[j] = "parse" /\ pc'[j] # "parse" =>
         /\ ~Endless(parsing[j].args)
         /\ Refused(parsing[j].args) => UNCHANGED <<done, outputs>>]_vars

\* A build that goes on has analysed what it compiled, or could not begin to.
\* ccc-analyzer and cmake_analysis.sh end with a status of zero only if callers went
\* through every unit: but for one that clang could not begin to read, for which
\* callers ends with zero after it has opened its output file; and for one whose
\* arguments callers refuses, or that asks for its version: callers then ends with
\* zero too, and it is gzip that fails for want of an output file, which is seen
\* only when it is the last thing the script does, in a directory where no earlier
\* build has left such a file.  A failed analysis is not passed over.
ToldOrDone ==
  \A j \in DOMAIN build \ mixed :
    pc[j] = "ended" /\ status[j] = 0 /\ build[j].driver \in {"ccc", "cmake"} =>
      \A u \in Analysed(j) :
        \/ <<j, "callers", u>> \in done
        \/ <<j, u>> \in unbegun
        \/ /\ Refused(CallersArguments(u)) \/ Versioned(CallersArguments(u))
           /\ ScriptOf(j)[Len(ScriptOf(j))] # [unit |-> u, tool |-> "callers", step |-> "gzip"]

\* A job does its own work, each piece of it once, as long as no job with a
\* script of the same name is at it at the same time.
OwnWork ==
  \A d \in done : d[1] \in mixed \/ d[3][1] = d[1]
=============================================================================

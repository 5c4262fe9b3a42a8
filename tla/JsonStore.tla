------------------------------ MODULE JsonStore ------------------------------
(***************************************************************************)
(* The shared store of analysis results: one JSON file per analysed source *)
(* or header file, below /tmp/callers, read and rewritten by every         *)
(* callers process.  A process analyses one translation unit:              *)
(*   - the constructor of Visitor opens the json file of the unit;         *)
(*   - the traversal registers facts (declarations, definitions, calls,    *)
(*     records...) in File objects kept in memory, each of them created    *)
(*     and filled from its json file the first time it is needed;          *)
(*   - the destructor of Visitor rewrites the json file of every File it   *)
(*     opened, in the order of their paths.                                *)
(* Nothing locks the store, and a process that exits early runs no         *)
(* destructor.  Here a fact is opaque; what matters is which file holds it *)
(* and what writing it and reading it back does to it.                     *)
(***************************************************************************)
EXTENDS Naturals

CONSTANTS
  Procs,       \* the callers processes, one per analysis of a unit
  Files,       \* logical paths: the File objects of CallersData::Dir
  Disk,        \* physical json files
  Facts,       \* what a json file records
  Main,        \* Main[p]: the file given on p's command line
  Work,        \* Work[p][f]: the facts p's traversal registers in f
  Derives,     \* Derives[x][g]: facts that registering x registers in g
  Phys,        \* Phys[f]: the physical json file of f
  Linked,      \* files whose logical json path is a symbolic link
  Order,       \* Order[f]: rank of f in the order of file paths
  Persistent,  \* facts that reading gives back once they are written
  Breaking,    \* facts whose text is not well-formed json
  Parallel,    \* TRUE: make -j; FALSE: one process after the other
  MaxFds       \* json files a process can hold open

FactMap == [Files -> SUBSET Facts]

ASSUME StoreAssumption ==
  /\ Main \in [Procs -> Files]
  /\ Work \in [Procs -> FactMap]
  /\ Derives \in [Facts -> FactMap]
  /\ Phys \in [Files -> Disk]
  /\ Linked \subseteq Files
  /\ Order \in [Files -> Nat]
  /\ \A f, g \in Files : Order[f] = Order[g] => f = g
  /\ Persistent \subseteq Facts
  /\ Breaking \subseteq Facts
  /\ Parallel \in BOOLEAN
  /\ MaxFds \in Nat

\* What a traversal registers includes what its own facts derive.
ASSUME WorkClosed ==
  \A p \in Procs : \A f, g \in Files :
    \A x \in Work[p][f] : Derives[x][g] \subseteq Work[p][g]

VARIABLES
  status,     \* status[d]: is d absent, broken (empty, cut, malformed), readable
  json,       \* json[d]: the facts d holds when it is readable
  links,      \* logical paths where the symbolic link exists
  pc,         \* where each process is, or how it ended
  mem,        \* mem[p][f]: facts of the File object f of p
  opened,     \* opened[p]: the File objects of p's Dir
  todo,       \* todo[p][f]: facts the traversal has still to register
  nested,     \* nested[p][f]: derived facts to register before going on
  fds,        \* fds[p]: json files opened for reading, none is ever closed
  written,    \* written[p]: files whose json text p has written out
  contended   \* another writer had the file p is writing open meanwhile

disk == <<status, json, links>>
vars == <<status, json, links, pc, mem, opened, todo, nested, fds, written,
          contended>>

Analysing == {"init", "visit"}
Running   == Analysing \cup {"output", "writing", "closing", "linking"}
Failed    == {"exit3", "exit2", "exit255", "abort", "killed"}
Ended     == Failed \cup {"done"}

Live(p) == pc[p] \in Running

TypeOK ==
  /\ status \in [Disk -> {"absent", "broken", "readable"}]
  /\ json \in [Disk -> SUBSET Facts]
  /\ links \subseteq Files
  /\ pc \in [Procs -> {"idle"} \cup Running \cup Ended]
  /\ mem \in [Procs -> FactMap]
  /\ opened \in [Procs -> SUBSET Files]
  /\ todo \in [Procs -> FactMap]
  /\ nested \in [Procs -> FactMap]
  /\ fds \in [Procs -> 0..MaxFds]
  /\ written \in [Procs -> SUBSET Files]
  /\ contended \in [Procs -> BOOLEAN]

NoFacts == [f \in Files |-> {}]

Init ==
  /\ status = [d \in Disk |-> "absent"]
  /\ json = [d \in Disk |-> {}]
  /\ links = {}
  /\ pc = [p \in Procs |-> "idle"]
  /\ mem = [p \in Procs |-> NoFacts]
  /\ opened = [p \in Procs |-> {}]
  /\ todo = [p \in Procs |-> NoFacts]
  /\ nested = [p \in Procs |-> NoFacts]
  /\ fds = [p \in Procs |-> 0]
  /\ written = [p \in Procs |-> {}]
  /\ contended = [p \in Procs |-> FALSE]

-----------------------------------------------------------------------------
(* The process and its traversal. *)

\* The driver starts an analysis: a script runs them in turn, make -j at once.
Start(p) ==
  /\ pc[p] = "idle"
  /\ Parallel \/ \A q \in Procs : ~Live(q)
  /\ pc' = [pc EXCEPT ![p] = "init"]
  /\ todo' = [todo EXCEPT ![p] = Work[p]]
  /\ UNCHANGED <<disk, mem, opened, nested, fds, written, contended>>

Exit(p, how) ==
  /\ pc' = [pc EXCEPT ![p] = how]
  /\ UNCHANGED <<disk, mem, opened, todo, nested, fds, written, contended>>

NestedDone(p) == \A g \in Files : nested[p][g] = {}

\* f is looked up in the Dir for the first time: the unit's own file, then
\* the files that derived facts go to, then those the traversal comes to.
NeedsFile(p, f) ==
  /\ f \notin opened[p]
  /\ \/ pc[p] = "init" /\ opened[p] = {} /\ f = Main[p]
     \/ pc[p] \in Analysing /\ nested[p][f] # {}
     \/ pc[p] = "visit" /\ NestedDone(p) /\ todo[p][f] # {}

\* Mutant of NestedAfter: a derived fact is registered again even when it is
\* there already.
NestedAfterAlways(p, new, m) ==
  [g \in Files |-> nested[p][g] \cup UNION {Derives[y][g] : y \in new}]

\* The derived facts left once p has newly registered the facts new, when
\* its memory has become m.  A fact already registered derives nothing.
NestedAfter(p, new, m) ==
  [g \in Files |-> (nested[p][g] \cup UNION {Derives[y][g] : y \in new}) \ m[g]]

\* Mutant of OpenAbsent: a malformed json file is taken for an absent one.
OpenAbsentOrBroken(p, f) ==
  /\ NeedsFile(p, f)
  /\ status[Phys[f]] # "readable" \/ fds[p] = MaxFds
  /\ opened' = [opened EXCEPT ![p] = @ \cup {f}]
  /\ UNCHANGED <<disk, pc, mem, todo, nested, fds, written, contended>>

\* Mutant of OpenAbsent: a failed fopen takes a descriptor too.
OpenAbsentTakingFd(p, f) ==
  /\ NeedsFile(p, f)
  /\ status[Phys[f]] = "absent" \/ fds[p] = MaxFds
  /\ opened' = [opened EXCEPT ![p] = @ \cup {f}]
  /\ fds' = [fds EXCEPT ![p] = @ + 1]
  /\ UNCHANGED <<disk, pc, mem, todo, nested, written, contended>>

\* fopen fails: there is no json file, or no descriptor is left.  Either way
\* the file is taken for one that does not exist yet.
OpenAbsent(p, f) ==
  /\ NeedsFile(p, f)
  /\ status[Phys[f]] = "absent" \/ fds[p] = MaxFds
  /\ opened' = [opened EXCEPT ![p] = @ \cup {f}]
  /\ UNCHANGED <<disk, pc, mem, todo, nested, fds, written, contended>>

\* Mutant of OpenParsed: what is parsed does not reach the File registered in
\* the Dir, only a copy of it.
OpenParsedInCopy(p, f) ==
  /\ NeedsFile(p, f)
  /\ status[Phys[f]] = "readable" /\ fds[p] < MaxFds
  /\ opened' = [opened EXCEPT ![p] = @ \cup {f}]
  /\ fds' = [fds EXCEPT ![p] = @ + 1]
  /\ UNCHANGED <<disk, pc, mem, todo, nested, written, contended>>

\* The File is registered before it is parsed, its facts enter the memory,
\* and the FILE handle is not closed.
OpenParsed(p, f) ==
  LET facts == json[Phys[f]] \cap Persistent
      m     == [mem[p] EXCEPT ![f] = @ \cup facts]
  IN /\ NeedsFile(p, f)
     /\ status[Phys[f]] = "readable" /\ fds[p] < MaxFds
     /\ opened' = [opened EXCEPT ![p] = @ \cup {f}]
     /\ fds' = [fds EXCEPT ![p] = @ + 1]
     /\ mem' = [mem EXCEPT ![p] = m]
     /\ nested' = [nested EXCEPT ![p] = NestedAfter(p, facts, m)]
     /\ UNCHANGED <<disk, pc, todo, written, contended>>

\* "Empty or Malformed file": exit(3).
OpenMalformed(p, f) ==
  /\ NeedsFile(p, f)
  /\ status[Phys[f]] = "broken" /\ fds[p] < MaxFds
  /\ Exit(p, "exit3")

\* HandleTranslationUnit: no compilation error, the traversal begins.
BeginVisit(p) ==
  /\ pc[p] = "init" /\ opened[p] # {} /\ NestedDone(p)
  /\ pc' = [pc EXCEPT ![p] = "visit"]
  /\ UNCHANGED <<disk, mem, opened, todo, nested, fds, written, contended>>

\* HandleTranslationUnit: compilation errors, exit(2).
CompileError(p) ==
  /\ pc[p] = "init" /\ opened[p] # {} /\ NestedDone(p)
  /\ Exit(p, "exit2")

\* A fact is inserted in the sets of the File f.
Register(p, f, x) ==
  LET m == [mem[p] EXCEPT ![f] = @ \cup {x}]
  IN /\ f \in opened[p]
     /\ \/ pc[p] \in Analysing /\ x \in nested[p][f]
        \/ pc[p] = "visit" /\ NestedDone(p) /\ x \in todo[p][f]
     /\ mem' = [mem EXCEPT ![p] = m]
     /\ nested' = [nested EXCEPT ![p] = NestedAfter(p, {x} \ mem[p][f], m)]
     /\ todo' = [todo EXCEPT ![p][f] = @ \ {x}]
     /\ UNCHANGED <<disk, pc, opened, fds, written, contended>>

\* The traversal is over: ~Visitor.
EndVisit(p) ==
  /\ pc[p] = "visit" /\ NestedDone(p)
  /\ \A g \in Files : todo[p][g] = {}
  /\ pc' = [pc EXCEPT ![p] = "output"]
  /\ UNCHANGED <<disk, mem, opened, todo, nested, fds, written, contended>>

-----------------------------------------------------------------------------
(* Dir::output_json_files: one JsonFileWriter after the other. *)

IsNext(p, f) ==
  /\ f \in opened[p] \ written[p]
  /\ \A g \in opened[p] \ written[p] : Order[f] <= Order[g]

\* p has truncated the physical file d and not yet written its text.
Writes(p, d) ==
  pc[p] = "writing" /\ \E f \in Files : IsNext(p, f) /\ Phys[f] = d

\* Mutant of OpenForWrite: the handles of the files read were given back.
OpenForWriteAnyway(p, f) ==
  /\ pc[p] = "output" /\ IsNext(p, f)
  /\ status' = [status EXCEPT ![Phys[f]] = "broken"]
  /\ contended' = [contended EXCEPT ![p] = FALSE]
  /\ pc' = [pc EXCEPT ![p] = "writing"]
  /\ UNCHANGED <<json, links, mem, opened, todo, nested, fds, written>>

\* Mutant of OpenForWrite: all the files are truncated before the first is
\* written.
OpenAllForWrite(p, f) ==
  /\ pc[p] = "output" /\ IsNext(p, f) /\ fds[p] < MaxFds
  /\ status' = [d \in Disk |->
                  IF \E g \in opened[p] \ written[p] : Phys[g] = d THEN "broken"
                  ELSE status[d]]
  /\ contended' = [contended EXCEPT ![p] = FALSE]
  /\ pc' = [pc EXCEPT ![p] = "writing"]
  /\ UNCHANGED <<json, links, mem, opened, todo, nested, fds, written>>

\* The constructor of JsonFileWriter truncates the file.
OpenForWrite(p, f) ==
  /\ pc[p] = "output" /\ IsNext(p, f) /\ fds[p] < MaxFds
  /\ status' = [status EXCEPT ![Phys[f]] = "broken"]
  /\ contended' = [q \in Procs |->
                     IF q = p THEN \E r \in Procs \ {p} : Writes(r, Phys[f])
                     ELSE contended[q] \/ Writes(q, Phys[f])]
  /\ pc' = [pc EXCEPT ![p] = "writing"]
  /\ UNCHANGED <<json, links, mem, opened, todo, nested, fds, written>>

\* No descriptor is left for it: exit(-1).
OpenForWriteFails(p) ==
  /\ pc[p] = "output" /\ fds[p] = MaxFds
  /\ Exit(p, "exit255")

\* Is what p writes to f well formed?
WellFormed(p, f) == mem[p][f] \cap Breaking = {}

\* The text is written, up to the std::endl that ends and flushes it.  When
\* another writer had the same file open, the two texts may be mixed.
Write(p, f) ==
  /\ pc[p] = "writing" /\ IsNext(p, f)
  /\ \E s \in {IF WellFormed(p, f) THEN "readable" ELSE "broken"}
                \cup (IF contended[p] THEN {"broken"} ELSE {}) :
       status' = [status EXCEPT ![Phys[f]] = s]
  /\ json' = [json EXCEPT ![Phys[f]] = mem[p][f]]
  /\ written' = [written EXCEPT ![p] = @ \cup {f}]
  /\ pc' = [pc EXCEPT ![p] = "closing"]
  /\ UNCHANGED <<links, mem, opened, todo, nested, fds, contended>>

\* The disk is full: the file stays cut, and closing it ends in exit(2).
WriteFails(p, f) ==
  /\ pc[p] = "writing" /\ IsNext(p, f)
  /\ links' = links \cup (Linked \cap {f})
  /\ pc' = [pc EXCEPT ![p] = "exit2"]
  /\ UNCHANGED <<status, json, mem, opened, todo, nested, fds, written,
                 contended>>

\* The file whose JsonFileWriter p is destroying.
IsLast(p, f) ==
  /\ f \in written[p]
  /\ \A g \in written[p] : Order[g] <= Order[f]

\* The file is closed, and the next one is output.
Closed(p) ==
  pc' = [pc EXCEPT ![p] = IF opened[p] \subseteq written[p] THEN "done" ELSE "output"]

\* The destructor of JsonFileWriter has no link to create.
Close(p, f) ==
  /\ pc[p] = "closing" /\ IsLast(p, f) /\ f \notin Linked \ links
  /\ Closed(p)
  /\ UNCHANGED <<disk, mem, opened, todo, nested, fds, written, contended>>

\* It sees that the logical path does not exist...
MissLink(p, f) ==
  /\ pc[p] = "closing" /\ IsLast(p, f) /\ f \in Linked \ links
  /\ pc' = [pc EXCEPT ![p] = "linking"]
  /\ UNCHANGED <<disk, mem, opened, todo, nested, fds, written, contended>>

\* ... and then creates the link.
CreateLink(p, f) ==
  /\ pc[p] = "linking" /\ IsLast(p, f) /\ f \notin links
  /\ links' = links \cup {f}
  /\ Closed(p)
  /\ UNCHANGED <<status, json, mem, opened, todo, nested, fds, written,
                 contended>>

\* Somebody else created it meanwhile: create_symlink throws out of a
\* destructor and the program is aborted.
CreateLinkFails(p, f) ==
  /\ pc[p] = "linking" /\ IsLast(p, f) /\ f \in links
  /\ Exit(p, "abort")

\* Mutant of Kill: a failed ASSERT unwinds the stack and ~Visitor runs.
KillUnwinding(p) ==
  /\ pc[p] = "visit"
  /\ Exit(p, "output")

\* A signal, or one of the ASSERTs of the analysis.
Kill(p) ==
  /\ Live(p)
  /\ Exit(p, "killed")

-----------------------------------------------------------------------------
\* What a process does of itself, as opposed to what befalls it.
Step(p) ==
  \/ BeginVisit(p) \/ EndVisit(p) \/ OpenForWriteFails(p)
  \/ \E f \in Files :
       \/ OpenAbsent(p, f) \/ OpenParsed(p, f) \/ OpenMalformed(p, f)
       \/ \E x \in Facts : Register(p, f, x)
       \/ OpenForWrite(p, f) \/ Write(p, f) \/ Close(p, f)
       \/ MissLink(p, f) \/ CreateLink(p, f) \/ CreateLinkFails(p, f)

Fault(p) ==
  \/ CompileError(p) \/ Kill(p)
  \/ \E f \in Files : WriteFails(p, f)

\* Every analysis has ended.
AllEnded ==
  /\ \A p \in Procs : pc[p] \in Ended
  /\ UNCHANGED vars

Next ==
  \/ \E p \in Procs : Start(p) \/ Step(p) \/ Fault(p)
  \/ AllEnded

Spec == Init /\ [][Next]_vars

\* Nobody interferes with a process: no compilation error, signal, full disk.
FaultFreeNext ==
  \/ \E p \in Procs : Start(p) \/ Step(p)
  \/ AllEnded

FaultFreeSpec == Init /\ [][FaultFreeNext]_vars

\* A process that runs keeps running: it waits for nothing but the disk.
FairSpec == Spec /\ \A p \in Procs : WF_vars(Step(p))

-----------------------------------------------------------------------------
(* Properties. *)

\* Analyses run one after the other, and no two files share a json file.
Exclusive ==
  /\ ~Parallel
  /\ \A f, g \in Files : Phys[f] = Phys[g] => f = g

\* All or nothing: whatever a json file holds, and whatever a process has in
\* memory without registering it itself, is the work of a process that went
\* to the end of its traversal and wrote it out.  A process that stops on a
\* compilation error, an ASSERT, a malformed file or a signal before its
\* destructor runs leaves no trace in the store (exit() runs no ~Visitor).
Published(p) == written[p] # {} /\ todo[p] = NoFacts

WorkOn(p, d) == UNION {Work[p][f] : f \in {g \in Files : Phys[g] = d}}

PublishedOn(d) == UNION {WorkOn(q, d) : q \in {p \in Procs : Published(p)}}

OnlyPublishedFacts ==
  /\ \A d \in Disk : json[d] \subseteq PublishedOn(d)
  /\ \A p \in Procs : \A f \in Files :
       mem[p][f] \subseteq Work[p][f] \cup PublishedOn(Phys[f])

\* Incremental storage: once a process has written a file, the facts it
\* registered there are kept by every later rewrite of that file, whoever
\* makes it, unless the file has become unreadable.  This is what the code
\* keeps when analyses run one after the other and no two files share a json
\* file; descriptors running out, crashes and failures included.
FactsKept ==
  \A p \in Procs : \A f \in written[p] : \A x \in Work[p][f] \cap Persistent :
    \/ status[Phys[f]] = "broken"
    \/ status[Phys[f]] = "readable" /\ x \in json[Phys[f]]

\* A file is only ever unreadable for a reason: the process that is writing it
\* is still at it, or was stopped in the middle, or a fact that has no
\* well-formed text was registered in it.
BrokenForAReason ==
  \A d \in Disk : status[d] = "broken" =>
    \/ \E p \in Procs : \E f \in Files :
         /\ pc[p] \in {"writing", "exit2", "killed"}
         /\ IsNext(p, f) /\ Phys[f] = d
    \/ \E p \in Procs : Published(p) /\ WorkOn(p, d) \cap Breaking # {}

\* A broken file is never repaired.  Once no process that runs can rewrite it
\* any more, none ever will: whoever needs it exits, or takes it for absent for
\* lack of descriptors, and then cannot write either.
Abandoned(d) ==
  /\ status[d] = "broken"
  /\ \A p \in Procs : \A f \in opened[p] :
       Live(p) /\ Phys[f] = d => fds[p] = MaxFds

BrokenForever == [][\A d \in Disk : Abandoned(d) => Abandoned(d)']_vars

\* Every analysis that starts comes to an end, whatever the files refer to:
\* files that need one another are each opened once.
EveryAnalysisEnds ==
  \A p \in Procs : (pc[p] = "init") ~> (pc[p] \in Ended)

-----------------------------------------------------------------------------
(* The store implements the database, when analyses run one after the other *)
(* and no two files share a json file.                                      *)

Rewrites(p, f, d) == pc[p] = "writing" /\ IsNext(p, f) /\ Phys[f] = d

\* A file being rewritten counts for what its text is going to be.
LostFiles ==
  {d \in Disk :
     /\ status[d] = "broken"
     /\ ~\E p \in Procs, f \in Files : Rewrites(p, f, d) /\ WellFormed(p, f)}

Gathered ==
  [d \in Disk |->
     IF d \in LostFiles THEN {}
     ELSE IF status[d] = "broken"
     THEN {x \in Persistent :
             \E p \in Procs, f \in Files : Rewrites(p, f, d) /\ x \in mem[p][f]}
     ELSE json[d] \cap Persistent]

Database == INSTANCE AnalysisDatabase
              WITH base <- Gathered, lost <- LostFiles, Facts <- Persistent

DatabaseSpec == Database!DbSpec

=============================================================================

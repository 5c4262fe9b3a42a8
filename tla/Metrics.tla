------------------------------- MODULE Metrics ------------------------------
(***************************************************************************)
(* The numbers an analysis keeps beside what it registers.  A file has     *)
(* sets of namespaces, records, declared and defined functions; beside     *)
(* each set it has a counter, and one counter of lines for all of them.    *)
(* An entry is counted when it is inserted, by a visit or by the reading   *)
(* of the json file, and the program asserts that each counter is the size *)
(* of its set.  The json file has the counters, which are never read, and  *)
(* the entries, which are counted again by the analysis that reads them.   *)
(* At its end an analysis adds the counters of the files it has opened,    *)
(* rewrites the files one by one, and prints the totals.                   *)
(***************************************************************************)
EXTENDS Naturals, Sequences, FiniteSets, FiniteSetsExt, Folds, Functions

CONSTANTS
  Files,      \* paths of source and header files
  Headers,    \* the files that are headers, by their names
  Names,      \* names and signatures of entries
  Sizes,      \* numbers of lines of entries
  Units,      \* what is given to an analysis: a source file and its options
  Main,       \* Main[u]: the source file of unit u
  Traversal,  \* Traversal[u]: what the visits of u register, one after the other
  Order,      \* Order[f]: rank of f in the order of file paths
  NoLines,    \* the lines of a record registered by its name only: from -1 to -1
  NoUnit      \* no analysis runs

Kinds == {"namespace", "record", "declared", "defined"}

\* decl is the file of the declaration, for a definition.
Entry == [kind : Kinds, name : Names, file : Files, lines : Sizes \cup {NoLines}, decl : Files]

ASSUME MetricsAssumption ==
  /\ IsFiniteSet(Files) /\ Headers \subseteq Files
  /\ Sizes \subseteq Nat /\ NoLines \notin Nat
  /\ Main \in [Units -> Files]
  /\ Traversal \in [Units -> Seq(Entry)]
  /\ \A u \in Units : \A i \in 1 .. Len(Traversal[u]) :
       Traversal[u][i].lines = NoLines => Traversal[u][i].kind = "record"
  /\ Order \in [Files -> Nat]
  /\ \A f, g \in Files : Order[f] = Order[g] => f = g
  /\ NoUnit \notin Units

VARIABLES
  disk,     \* the json files
  mem,      \* the files as the running process has them
  opened,   \* those it has opened
  unit,     \* the unit being analysed
  next,     \* the next entry of its traversal
  totals,   \* the totals of the directory, once they are added
  written,  \* the files it has rewritten
  created,  \* the records without lines it has registered itself (for the properties)
  last      \* the last analysis: its unit, its totals and such records, if it ended

vars == <<disk, mem, opened, unit, next, totals, written, created, last>>

-----------------------------------------------------------------------------
(* One file. *)

File == [entries : SUBSET Entry, nb : [Kinds -> Nat], lines : Nat]
EmptyFile == [entries |-> {}, nb |-> [k \in Kinds |-> 0], lines |-> 0]

\* The entries of a set are compared by their names, or signatures.
SameEntry(x, y) == x.kind = y.kind /\ x.name = y.name

\* Mutant of Add: the lines of the record stored, a copy, which has lost them.
AddAfterCopy(F, e, n) ==
  IF \E x \in F.entries : SameEntry(x, e) THEN F
  ELSE [entries |-> F.entries \cup {e}, nb |-> [F.nb EXCEPT ![e.kind] = @ + 1],
        lines |-> IF e.kind = "record" THEN F.lines ELSE F.lines + n]

\* add_namespace, add_record, add_declared_function, add_defined_function: an
\* entry of n lines is counted if the set has grown.
Add(F, e, n) ==
  IF \E x \in F.entries : SameEntry(x, e) THEN F
  ELSE [entries |-> F.entries \cup {e}, nb |-> [F.nb EXCEPT ![e.kind] = @ + 1],
        lines |-> F.lines + n]

\* The constructor that takes a name only does not compute the lines; reading
\* the json file calls the one that does: end + 1 - begin.
LinesVisited(e) == IF e.lines = NoLines THEN 0 ELSE e.lines
LinesRead(e)    == IF e.lines = NoLines THEN 1 ELSE e.lines

\* Mutant of Parsed: a record without lines is not worth reading.
ParsedPlaced(F) ==
  FoldSet(LAMBDA e, G : Add(G, e, LinesRead(e)), EmptyFile, {x \in F.entries : x.lines # NoLines})

\* parse_json_file
Parsed(F) == FoldSet(LAMBDA e, G : Add(G, e, LinesRead(e)), EmptyFile, F.entries)

\* Opening a file opens the files where the functions it defines are declared.
OpenWith(M, F) ==
  {f \in Files : \A S \in SUBSET Files :
     (/\ F \subseteq S
      /\ \A g \in S : \A e \in M[g].entries : e.kind = "defined" => e.decl \in S)
     => f \in S}

-----------------------------------------------------------------------------
(* The totals of the directory. *)

\* Mutant of Total: the files of the unit's directory only, without headers.
TotalOfSources(M, F) ==
  LET S == F \ Headers
  IN [files   |-> Cardinality(F), headers |-> Cardinality(F \cap Headers),
      sources |-> Cardinality(S),
      nb      |-> [k \in Kinds |-> SumFunction([f \in S |-> M[f].nb[k]])],
      lines   |-> SumFunction([f \in S |-> M[f].lines])]

\* update_metrics and complete_metrics: the sums over the files of F.
Total(M, F) ==
  [files   |-> Cardinality(F),
   headers |-> Cardinality(F \cap Headers),
   sources |-> Cardinality(F \ Headers),
   nb      |-> [k \in Kinds |-> SumFunction([f \in F |-> M[f].nb[k]])],
   lines   |-> SumFunction([f \in F |-> M[f].lines])]

Totals == [files : Nat, headers : Nat, sources : Nat, nb : [Kinds -> Nat], lines : Nat]
NoTotals == <<>>

-----------------------------------------------------------------------------
TypeOK ==
  /\ disk \in [Files -> File] /\ mem \in [Files -> File]
  /\ opened \subseteq Files /\ written \subseteq opened
  /\ unit \in Units \cup {NoUnit}
  /\ next \in Nat \ {0}
  /\ totals \in Totals \cup {NoTotals}
  /\ created \subseteq Entry
  /\ last.unit \in Units \cup {NoUnit} /\ last.totals \in Totals \cup {NoTotals}
  /\ last.created \subseteq Entry
  /\ \A f \in Files \ opened : mem[f] = EmptyFile
  /\ \A f \in written : disk[f] = mem[f]

NoLast == [unit |-> NoUnit, totals |-> NoTotals, created |-> {}]

Init ==
  /\ disk = [f \in Files |-> EmptyFile] /\ mem = [f \in Files |-> EmptyFile]
  /\ opened = {} /\ written = {}
  /\ unit = NoUnit /\ next = 1
  /\ totals = NoTotals /\ created = {} /\ last = NoLast

\* The memory M once the files of F are opened too.
Reading(M, F) == [f \in Files |-> IF f \in F THEN Parsed(disk[f]) ELSE M[f]]

\* The files that opening F opens: those already opened are not read again.
ToOpen(F) == OpenWith([f \in Files |-> IF f \in opened THEN mem[f] ELSE disk[f]], F) \ opened

\* The process starts, and opens the json file of its main file.
Start(u) ==
  LET new == ToOpen({Main[u]})
  IN /\ unit = NoUnit
     /\ unit' = u /\ next' = 1
     /\ opened' = new /\ mem' = Reading(mem, new)
     /\ UNCHANGED <<disk, totals, written, created, last>>

Traversing == unit # NoUnit /\ next <= Len(Traversal[unit])

\* An entry is registered in its file.
Register ==
  LET e   == Traversal[unit][next]
      new == ToOpen({e.file, e.decl})
      M   == Reading(mem, new)
  IN /\ Traversing
     /\ opened' = opened \cup new
     /\ mem' = [M EXCEPT ![e.file] = Add(@, e, LinesVisited(e))]
     /\ created' = IF e.lines = NoLines /\ mem'[e.file] # M[e.file]
                   THEN created \cup {e} ELSE created
     /\ next' = next + 1
     /\ UNCHANGED <<disk, unit, totals, written, last>>

\* ~Visitor adds the counters of the files.
UpdateMetrics ==
  /\ unit # NoUnit /\ ~Traversing /\ totals = NoTotals
  /\ totals' = Total(mem, opened)
  /\ UNCHANGED <<disk, mem, opened, unit, next, written, created, last>>

\* Mutant of Rewrite: only the files of the unit that have got entries.
RewriteChanged(f) ==
  /\ totals # NoTotals
  /\ f \in opened \ written
  /\ \A g \in opened \ written : Order[f] <= Order[g]
  /\ disk' = IF disk[f].entries = mem[f].entries THEN disk ELSE [disk EXCEPT ![f] = mem[f]]
  /\ written' = written \cup {f}
  /\ UNCHANGED <<mem, opened, unit, next, totals, created, last>>

\* Then it rewrites them, in the order of their paths.
Rewrite(f) ==
  /\ totals # NoTotals
  /\ f \in opened \ written
  /\ \A g \in opened \ written : Order[f] <= Order[g]
  /\ disk' = [disk EXCEPT ![f] = mem[f]]
  /\ written' = written \cup {f}
  /\ UNCHANGED <<mem, opened, unit, next, totals, created, last>>

End ==
  /\ mem' = [f \in Files |-> EmptyFile]
  /\ opened' = {} /\ written' = {}
  /\ unit' = NoUnit /\ next' = 1
  /\ totals' = NoTotals /\ created' = {}

\* It prints the totals, and the analysis ends.
OutputMetrics ==
  /\ totals # NoTotals /\ written = opened
  /\ last' = [unit |-> unit, totals |-> totals, created |-> created]
  /\ End /\ UNCHANGED disk

\* Mutant of Stop: the next analysis finds the files as this one had them.
StopKeepingMemory ==
  /\ unit # NoUnit
  /\ last' = NoLast
  /\ opened' = {} /\ written' = {} /\ unit' = NoUnit /\ next' = 1
  /\ totals' = NoTotals /\ created' = {}
  /\ UNCHANGED <<disk, mem>>

\* The process is stopped, and what it had in memory is lost.
Stop ==
  /\ unit # NoUnit
  /\ last' = NoLast
  /\ End /\ UNCHANGED disk

Next ==
  \/ \E u \in Units : Start(u)
  \/ Register \/ UpdateMetrics \/ OutputMetrics \/ Stop
  \/ \E f \in Files : Rewrite(f)

Spec == Init /\ [][Next]_vars

-----------------------------------------------------------------------------
(* Properties. *)

\* The counters of the file F are the sizes of its sets, as the program asserts
\* before each insertion, and its lines are those of its entries; a record
\* without lines counts for one, but for the process that has created it.
Exact(F, own) ==
  /\ \A k \in Kinds : F.nb[k] = Cardinality({e \in F.entries : e.kind = k})
  /\ F.lines + Cardinality(own \cap F.entries) =
     SumFunction([e \in F.entries |-> LinesRead(e)])

\* "ASSERT(this->metrics->nb_records == nb_records)" (CallersData.cpp) and the
\* like never fail, whatever was read, visited twice, or left by an analysis
\* that was stopped: the counters agree with the sets, and so do the lines.
CountersExact == \A f \in Files : Exact(mem[f], created)

\* What an analysis prints for a directory is what its json files say: the sums
\* of the counters of the files it has rewritten, read afterwards.
TotalsWritten ==
  (totals # NoTotals /\ written = opened) => totals = Total(disk, opened)

\* What a json file counts is never less than what it has counted before.
NeverLess ==
  [][\A f \in Files : /\ disk[f].lines <= disk'[f].lines
                      /\ \A k \in Kinds : disk[f].nb[k] <= disk'[f].nb[k]]_vars

\* A unit that is analysed again, nothing else being analysed in between, gives
\* the totals it gave, except for one line more for each record without lines
\* that the first analysis has created.
SameTotals ==
  [][(unit # NoUnit /\ unit' = NoUnit /\ last.unit = unit /\ last'.unit = unit) =>
       last'.totals = [last.totals EXCEPT !.lines = @ + Cardinality(last.created)]]_vars

=============================================================================

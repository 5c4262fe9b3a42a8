------------------------------- MODULE Records ------------------------------
(***************************************************************************)
(* What the json files hold of the records (classes and structures), as    *)
(* the C++ frontend builds it.  A record is listed in the file that        *)
(* defines it, with its base classes, its child classes, its methods, and  *)
(* the records whose methods its methods call or are called by.  A method  *)
(* is listed in the same file, with the virtual methods of base classes it *)
(* redeclares, and those of child classes that redeclare it.  So each of   *)
(* these three relations is recorded at both of its ends.                  *)
(* Units are analysed as in CallGraph: one process at a time, which adds   *)
(* to the facts as it traverses the unit, then rewrites the files it has   *)
(* opened one by one, and may stop anywhere.                               *)
(***************************************************************************)
EXTENDS Naturals, Sequences

CONSTANTS
  Files,      \* paths of source and header files
  Names,      \* qualified names of records
  Methods,    \* signatures of methods, without the names of their records
  Units,      \* what is given to an analysis: a source file and its options
  Main,       \* Main[u]: the source file of unit u
  Traversal,  \* Traversal[u]: what the visitor meets in u, in the order of the source
  Order,      \* Order[f]: rank of f in the order of file paths
  Rank,       \* Rank[r]: rank of r in the order of names
  Endings,    \* Endings[f]: for a header f, the files whose names end with its name
  Builtin,    \* the record builtin functions are given
  NoRecord,   \* the record of a function that is not a method
  NoPlace,    \* a place that is not known
  NoUnit      \* no analysis runs

Fct == [rec : Names \cup {NoRecord}, name : Methods, file : Files]

\* A base class, with the methods it declares virtual.
Base == [name : Names, file : Files, virtual : SUBSET Methods]

\* The visitor meets the definition of a record, the declaration of a function
\* or a method, or a call; place is the file of the declaration of the caller,
\* as the visit of the call says it.
RecordVisit == [kind : {"record"}, name : Names, file : Files,
                bases : SUBSET Base, methods : SUBSET Methods]
FctVisit  == [kind : {"function"}, fct : Fct]
CallVisit == [kind : {"call"}, caller : Fct, place : Files, callee : Fct]

ASSUME RecordsAssumption ==
  /\ Main \in [Units -> Files]
  /\ Traversal \in [Units -> Seq(RecordVisit \cup FctVisit \cup CallVisit)]
  /\ Order \in [Files -> Nat]
  /\ \A f, g \in Files : Order[f] = Order[g] => f = g
  /\ Rank \in [Names -> Nat]
  /\ \A r, s \in Names : Rank[r] = Rank[s] => r = s
  /\ Endings \in [Files -> SUBSET Files]
  /\ \A f \in Files : f \notin Endings[f]
  /\ Builtin \in Names /\ NoRecord \notin Names
  /\ NoPlace \notin Files /\ NoUnit \notin Units

VARIABLES
  graph,    \* the facts as the running process sees them
  disk,     \* the facts in the json files
  unit,     \* the unit being analysed
  next,     \* the next event of its traversal
  opened,   \* the files it has opened
  written,  \* those it has rewritten
  done,     \* units whose analysis has ended well (for the properties)
  dirty     \* units stopped in the middle of the rewriting, and not redone since

vars == <<graph, disk, unit, next, opened, written, done, dirty>>

-----------------------------------------------------------------------------
(* Facts. *)

\* The relations with two ends.
Other == [inherits |-> "inherited", inherited |-> "inherits",
          redeclared |-> "redeclaration", redeclaration |-> "redeclared",
          calls |-> "called", called |-> "calls"]
Rels == {"record", "method", "candidate", "declared"} \cup DOMAIN Other

Sign == [rec : Names \cup {NoRecord}, name : Methods]
SignOf(r, m) == [rec |-> r, name |-> m]

\* The file "in" says of the record or function "of" that it has "to", whose
\* place is "at", as its "rel".  A declared function has its record for "to".
Fact == [in : Files, rel : Rels, of : Names \cup Sign,
         to : Names \cup Sign \cup {NoRecord}, at : Files \cup {NoPlace}]
FactOf(f, r, x, y, g) == [in |-> f, rel |-> r, of |-> x, to |-> y, at |-> g]

\* Mutant of SameEntry: the places of entries are compared too.
SamePlacedEntry(x, y) ==
  /\ x.in = y.in /\ x.rel = y.rel /\ x.of = y.of
  /\ x.to = y.to /\ x.at = y.at

\* std::set::insert: an entry equal to one already there is not inserted,
\* equal meaning the same name or signature.
SameEntry(x, y) ==
  /\ x.in = y.in /\ x.rel = y.rel /\ x.of = y.of
  /\ x.rel = "declared" \/ x.to = y.to

Insert(G, X) == G \cup {x \in X : \A y \in G : ~SameEntry(x, y)}

\* A record that is registered from its visit has its place; one that is
\* registered from its name only has no lines.
RecordAt(f, r, g) == FactOf(f, "record", r, r, g)

\* What VisitInheritanceList registers of the base class b of e: the virtual
\* methods of b are candidates for being redeclared by a method of e.
Inheritance(e, b) ==
  {RecordAt(b.file, b.name, b.file),
   FactOf(e.file, "inherits", e.name, b.name, b.file),
   FactOf(b.file, "inherited", b.name, e.name, e.file)}
    \cup {FactOf(e.file, "candidate", e.name, SignOf(b.name, m), b.file) : m \in b.virtual}

\* Mutant of VisitRecord: nothing to do for a record already registered.
VisitRecordOnce(G, e) ==
  IF \E x \in G : SameEntry(x, RecordAt(e.file, e.name, e.file)) THEN G
  ELSE Insert(G, {RecordAt(e.file, e.name, e.file)}
                   \cup {FactOf(e.file, "method", e.name, SignOf(e.name, m), e.file) : m \in e.methods}
                   \cup UNION {Inheritance(e, b) : b \in e.bases})

\* VisitRecordDecl
VisitRecord(G, e) ==
  Insert(G, {RecordAt(e.file, e.name, e.file)}
              \cup {FactOf(e.file, "method", e.name, SignOf(e.name, m), e.file) : m \in e.methods}
              \cup UNION {Inheritance(e, b) : b \in e.bases})

\* is_same_file, asked by f about g: a header takes a file for itself if its name
\* ends with that of the header, and looks there for what is in the other.
Home(f, g) == IF g \in Endings[f] THEN f ELSE g

\* The declaration of s in f is that of a method.
IsMethod(G, f, s) ==
  \E x \in G : /\ x.in = f /\ x.rel = "declared" /\ x.of = s
               /\ x.to \notin {NoRecord, Builtin}

\* get_redeclared_method: the first candidate, by the names of base classes,
\* that the method m of its record may redeclare.
FirstCandidates(G, m) ==
  LET C == {x \in G : x.rel = "candidate" /\ x.to.name = m}
  IN {x \in C : \A y \in C : (y.in = x.in /\ y.of = x.of) => Rank[x.to.rec] <= Rank[y.to.rec]}

\* The candidates s redeclares, the methods these redeclare, and so on.
Redeclared(G, f, s) ==
  LET C == FirstCandidates(G, s.name)
      Of(g, t) == {x \in C : x.in = g /\ x.of = t.rec /\ IsMethod(G, g, t)}
  IN {x \in C : \A S \in SUBSET C :
        (Of(f, s) \subseteq S /\ \A y \in S : Of(Home(y.in, y.at), y.to) \subseteq S) => x \in S}

\* A method redeclares the candidate x.  The virtual method is given a
\* declaration, without a record, if it has none.
Redeclaration(G, x) ==
  LET s == SignOf(x.of, x.to.name)
      h == Home(x.in, x.at)
  IN {FactOf(h, "declared", x.to, NoRecord, x.at),
      FactOf(x.in, "redeclared", s, x.to, x.at)}
     \cup {FactOf(h, "redeclaration", x.to, s, d.at) :
             d \in {y \in G : y.in = x.in /\ y.rel = "declared" /\ y.of = s}}

\* Mutant of Declare: only a new declaration may be a redeclaration.
DeclareOnce(G, c) ==
  LET s  == SignOf(c.rec, c.name)
      G1 == Insert(G, {FactOf(c.file, "declared", s, c.rec, c.file)})
  IN IF G1 = G \/ ~IsMethod(G1, c.file, s) THEN G1
     ELSE Insert(G1, {RecordAt(c.file, c.rec, NoPlace)}
                       \cup UNION {Redeclaration(G1, x) : x \in Redeclared(G1, c.file, s)})

\* get_or_create_declared_function
Declare(G, c) ==
  LET s  == SignOf(c.rec, c.name)
      G1 == Insert(G, {FactOf(c.file, "declared", s, c.rec, c.file)})
  IN IF ~IsMethod(G1, c.file, s) THEN G1
     ELSE Insert(G1, {RecordAt(c.file, c.rec, NoPlace)}
                       \cup UNION {Redeclaration(G1, x) : x \in Redeclared(G1, c.file, s)})

BetweenRecords(e) ==
  e.caller.rec \notin {NoRecord, e.callee.rec} /\ e.callee.rec # NoRecord

\* add_function_call, as far as records are concerned.
VisitCall(G, e) ==
  Insert(Declare(G, e.callee),
         (IF e.caller.rec \in {NoRecord, e.callee.rec} THEN {}
          ELSE {RecordAt(e.place, e.caller.rec, NoPlace)})
         \cup
         (IF ~BetweenRecords(e) THEN {}
          ELSE {FactOf(e.place, "calls", e.caller.rec, e.callee.rec, NoPlace),
                RecordAt(e.callee.file, e.callee.rec, NoPlace),
                FactOf(e.callee.file, "called", e.callee.rec, e.caller.rec, NoPlace)}))

Effect(G, e) ==
  CASE e.kind = "record"   -> VisitRecord(G, e)
    [] e.kind = "function" -> Declare(G, e.fct)
    [] e.kind = "call"     -> VisitCall(G, e)

\* The file of a candidate is already open when it is redeclared.
FilesOf(e) ==
  CASE e.kind = "record"   -> {e.file} \cup {b.file : b \in e.bases}
    [] e.kind = "function" -> {e.fct.file}
    [] e.kind = "call"     -> {e.caller.file, e.place, e.callee.file}

\* Mutant of Output: nor are the lines of a record.
OutputWithoutLines(x) ==
  IF x.rel \in {"declared", "record"} THEN [x EXCEPT !.at = NoPlace] ELSE x

\* What is output of a fact: the path of a declaration is not, and a process
\* that reads it takes the name of the file, without its directory.
Output(x) == IF x.rel = "declared" THEN [x EXCEPT !.at = NoPlace] ELSE x

OutputOf(G, f) == {Output(x) : x \in {y \in G : y.in = f /\ y.rel # "candidate"}}

-----------------------------------------------------------------------------
TypeOK ==
  /\ graph \subseteq Fact /\ disk \subseteq Fact
  /\ \A x \in disk : x.rel # "candidate" /\ (x.rel = "declared" => x.at = NoPlace)
  /\ unit \in Units \cup {NoUnit}
  /\ next \in Nat \ {0}
  /\ opened \subseteq Files /\ written \subseteq opened
  /\ done \subseteq Units /\ dirty \subseteq Units
  /\ unit = NoUnit => graph = disk /\ opened = {}

Init ==
  /\ graph = {} /\ disk = {}
  /\ unit = NoUnit /\ next = 1
  /\ opened = {} /\ written = {}
  /\ done = {} /\ dirty = {}

\* The process starts, and opens the json file of its main file.
Start(u) ==
  /\ unit = NoUnit
  /\ unit' = u /\ next' = 1 /\ opened' = {Main[u]}
  /\ UNCHANGED <<graph, disk, written, done, dirty>>

Traversing == unit # NoUnit /\ next <= Len(Traversal[unit])

\* The visitor handles the next event.
Visit ==
  /\ Traversing
  /\ graph' = Effect(graph, Traversal[unit][next])
  /\ opened' = opened \cup FilesOf(Traversal[unit][next])
  /\ next' = next + 1
  /\ UNCHANGED <<disk, unit, written, done, dirty>>

\* Mutant of Rewrite: everything a record has in memory is output.
RewriteAll(f) ==
  /\ unit # NoUnit /\ ~Traversing
  /\ f \in opened \ written
  /\ disk' = {x \in disk : x.in # f} \cup {Output(x) : x \in {y \in graph : y.in = f}}
  /\ written' = written \cup {f}
  /\ UNCHANGED <<graph, unit, next, opened, done, dirty>>

\* ~Visitor rewrites the files, in the order of their paths.
Rewrite(f) ==
  /\ unit # NoUnit /\ ~Traversing
  /\ f \in opened \ written
  /\ \A g \in opened \ written : Order[f] <= Order[g]
  /\ disk' = {x \in disk : x.in # f} \cup OutputOf(graph, f)
  /\ written' = written \cup {f}
  /\ UNCHANGED <<graph, unit, next, opened, done, dirty>>

\* The analysis ends.
Finish ==
  /\ unit # NoUnit /\ ~Traversing /\ opened = written
  /\ graph' = disk
  /\ done' = done \cup {unit} /\ dirty' = dirty \ {unit}
  /\ unit' = NoUnit /\ next' = 1 /\ opened' = {} /\ written' = {}
  /\ UNCHANGED disk

\* The process is stopped, and what it had in memory is lost.
Stop ==
  /\ unit # NoUnit
  /\ graph' = disk
  /\ dirty' = IF written = {} THEN dirty ELSE dirty \cup {unit}
  /\ unit' = NoUnit /\ next' = 1 /\ opened' = {} /\ written' = {}
  /\ UNCHANGED <<disk, done>>

Next ==
  \/ \E u \in Units : Start(u)
  \/ Visit \/ Finish \/ Stop
  \/ \E f \in Files : Rewrite(f)

Spec == Init /\ [][Next]_vars

-----------------------------------------------------------------------------
(* Properties. *)

Events(u) == {Traversal[u][i] : i \in 1..Len(Traversal[u])}

HasOtherEnd(G, x) ==
  \E y \in G : /\ y.rel = Other[x.rel] /\ y.of = x.to /\ y.to = x.of
               /\ x.at = NoPlace \/ y.in = (IF x.rel = "redeclared" THEN Home(x.in, x.at) ELSE x.at)

\* The unit u has the records r and s in one of the relations.
Relates(u, r, s) ==
  \E e \in Events(u) :
    \/ e.kind = "record" /\ \E b \in e.bases : {r, s} = {e.name, b.name}
    \/ e.kind = "call" /\ {r, s} = {e.caller.rec, e.callee.rec}

\* The record of what the entry x is about, itself or its method y.
RecordOf(x, y) == IF x.rel \in {"redeclared", "redeclaration"} THEN y.rec ELSE y

\* Whoever looks for the child classes of a record, the methods that redeclare
\* a virtual method, or the callers of a record, finds what is found from the
\* other end, unless an analysis that relates the two records was stopped
\* between the rewriting of two files and has not been done again since.
BothEnds ==
  \A x \in graph : x.rel \in DOMAIN Other =>
    \/ HasOtherEnd(graph, x)
    \/ \E u \in dirty : Relates(u, RecordOf(x, x.of), RecordOf(x, x.to))

\* The entry x is in G, wherever it says its function is.
Has(G, x) == \E y \in G : SameEntry(x, y)

\* The base classes in u of the record of c that declare virtual what it
\* redeclares: the code keeps the first of them.
VirtualBases(u, c) ==
  LET E == {e \in Events(u) : e.kind = "record" /\ e.name = c.rec /\ e.file = c.file}
  IN {b \in UNION {e.bases : e \in E} : c.name \in b.virtual}
FirstBases(u, c) ==
  {b \in VirtualBases(u, c) : \A d \in VirtualBases(u, c) : Rank[b.name] <= Rank[d.name]}

\* What a unit that C++ accepts, and whose declarations are filtered by their
\* names, is like when it has a method that redeclares a virtual one: the record
\* of the method has been defined before, once; and whoever derives from this
\* record has its definition, and the declaration of the method, above.
ASSUME SourceAssumption ==
  \A u \in Units : \A i \in 1 .. Len(Traversal[u]) : Traversal[u][i].kind = "function" =>
    LET c == Traversal[u][i].fct IN
    VirtualBases(u, c) # {} =>
      /\ c.rec # Builtin
      /\ \A b, d \in FirstBases(u, c) : b.file = d.file
      /\ \A k \in 1 .. Len(Traversal[u]) :
           LET e == Traversal[u][k] IN
           e.kind = "record" /\ e.name = c.rec /\ e.file = c.file => k < i
      /\ \A v \in Units : \A k \in 1 .. Len(Traversal[v]) :
           LET e == Traversal[v][k] IN
           (/\ e.kind = "record"
            /\ \E b \in e.bases : /\ b.name = c.rec /\ c.name \in b.virtual
                                  /\ Home(e.file, b.file) = c.file)
           => \E j \in 1 .. k - 1 :
                Traversal[v][j].kind = "function" /\ Traversal[v][j].fct = c

\* When such a method is called, the unit also declares it, before or after: a
\* record that is visited is visited with its methods.
ASSUME CalleesAssumption ==
  \A u \in Units : \A i \in 1 .. Len(Traversal[u]) :
    (Traversal[u][i].kind = "call" /\ VirtualBases(u, Traversal[u][i].callee) # {}) =>
      \E j \in 1 .. Len(Traversal[u]) :
        Traversal[u][j].kind = "function" /\ Traversal[u][j].fct = Traversal[u][i].callee

Recorded(G, u, e) ==
  CASE e.kind = "record" ->
         /\ Has(G, RecordAt(e.file, e.name, e.file))
         /\ \A b \in e.bases :
              /\ Has(G, FactOf(e.file, "inherits", e.name, b.name, b.file))
              /\ Has(G, FactOf(b.file, "inherited", b.name, e.name, e.file))
    [] e.kind = "function" ->
         LET c == e.fct
             s == SignOf(c.rec, c.name)
         IN /\ Has(G, FactOf(c.file, "declared", s, c.rec, c.file))
            /\ \A b \in FirstBases(u, c) :
                 LET t == SignOf(b.name, c.name)
                 IN /\ Has(G, FactOf(c.file, "redeclared", s, t, b.file))
                    /\ Has(G, FactOf(Home(c.file, b.file), "redeclaration", t, s, c.file))
    [] e.kind = "call" ->
         BetweenRecords(e) =>
           Has(G, FactOf(e.callee.file, "called", e.callee.rec, e.caller.rec, NoPlace))

\* Once a unit has been analysed to the end, its records with their base
\* classes, its functions, the virtual methods they redeclare and the calls
\* between its records are in the json files, and stay there, whatever analysis
\* runs or is stopped afterwards, and whatever was known before of the same
\* record in another configuration.
AnalysedIsRecorded ==
  \A u \in done : \A e \in Events(u) : Recorded(disk, u, e)

\* Analysing again a unit that has been analysed adds nothing to the json
\* files, and changes nothing in them.
AnalysedAgain ==
  [][(unit \in done) => disk' = disk]_vars

\* "get the fct caller's record declaration" (CallersData.cpp): a record is
\* said to call another in the file that defines it.
CallersAtHome ==
  \A u \in done : \A e \in Events(u) :
    (e.kind = "call" /\ BetweenRecords(e)) =>
      Has(disk, FactOf(e.caller.file, "calls", e.caller.rec, e.callee.rec, NoPlace))

\* The event e registers the record r of the file f without its lines, or with.
Mentions(e, r, f) ==
  CASE e.kind = "record"   -> FALSE
    [] e.kind = "function" -> e.fct.rec = r /\ e.fct.file = f
    [] e.kind = "call"     -> \/ e.callee.rec = r /\ e.callee.file = f
                              \/ e.caller.rec = r /\ e.place = f
Places(e, r, f) ==
  /\ e.kind = "record"
  /\ \/ e.name = r /\ e.file = f
     \/ \E b \in e.bases : b.name = r /\ b.file = f

\* A record that was visited has the lines of its definition, or else a unit
\* whose results are in the json files registers it, by a declaration or a call
\* of one of its methods, before the unit comes to its definition or to that of
\* a child.  Nothing else, and no order of analyses, makes it lose its lines.
PlacelessForAReason ==
  \A u \in done : \A e \in Events(u) :
    e.kind = "record" /\ RecordAt(e.file, e.name, e.file) \notin disk =>
      \E v \in done \cup dirty : \E i \in 1 .. Len(Traversal[v]) :
        /\ Mentions(Traversal[v][i], e.name, e.file)
        /\ \A k \in 1 .. i - 1 : ~Places(Traversal[v][k], e.name, e.file)

=============================================================================

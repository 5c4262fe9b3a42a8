------------------------------ MODULE CallGraph ------------------------------
(***************************************************************************)
(* The call graph the json files hold, as the C frontend builds it: free   *)
(* functions, no record and no namespace.  Every function is known by its  *)
(* signature.  Its declaration is listed in the file that declares it,     *)
(* with its definitions and its callers; its definition is listed in the   *)
(* file that defines it, with its callees.  So a call is recorded twice,   *)
(* at both ends, and most often in two json files.                         *)
(* A unit is analysed by one process: its traversal adds to the graph, in  *)
(* the order of the source, and then the files it opened are rewritten one *)
(* by one.  The process may stop anywhere (a signal, an ASSERT, an error   *)
(* of compilation), and an analysis may be run again.                      *)
(***************************************************************************)
EXTENDS Naturals, Sequences

CONSTANTS
  Files,      \* paths of source and header files
  Signs,      \* signatures; the mangled name of a function is its signature here
  Units,      \* what is given to an analysis: a source file and its options
  Main,       \* Main[u]: the source file of unit u
  Traversal,  \* Traversal[u]: what the visitor meets in u, in the order of the source
  Order,      \* Order[f]: rank of f in the order of file paths
  NoUnit      \* no analysis runs

\* A function, where it is defined and where it is first declared.
Fct == [sign : Signs, file : Files, decl : Files, mangled : Signs]

\* What the visitor meets: a prototype, a definition (fct), or a call from fct.
Event == [kind : {"declaration", "definition", "call"}, fct : Fct, callee : Fct]

ASSUME CallGraphAssumption ==
  /\ Main \in [Units -> Files]
  /\ Traversal \in [Units -> Seq(Event)]
  /\ Order \in [Files -> Nat]
  /\ \A f, g \in Files : Order[f] = Order[g] => f = g
  /\ NoUnit \notin Units

\* The mangled name of a C function is its signature.  But the caller of a
\* builtin function, which no main file defines, is given the builtin's name.
ASSUME NamesAssumption ==
  \A u \in Units : \A i \in 1..Len(Traversal[u]) :
    LET e == Traversal[u][i]
    IN IF e.kind # "call" THEN e.fct.mangled = e.fct.sign
       ELSE /\ e.callee.mangled = e.callee.sign
            /\ e.callee.file = Main[u] => e.fct.mangled = e.fct.sign

VARIABLES
  graph,    \* the facts as the running process sees them
  disk,     \* the facts in the json files
  unit,     \* the unit being analysed
  next,     \* the next event of its traversal
  opened,   \* the files it has opened
  written,  \* those it has rewritten
  done,     \* units whose analysis has ended well (for the properties)
  dirty     \* units stopped in the middle of the rewriting, and not redone since

vars == <<graph, disk, unit, next, opened, written, done, dirty>>

-----------------------------------------------------------------------------
(* Facts. *)

Rels == {"declared", "defined", "definition", "localler", "extcaller",
         "locallee", "extcallee"}
CallRels == {"localler", "extcaller", "locallee", "extcallee"}

\* The file "in" says of the function "of" that it has "to" as its "rel".
Fact == [in : Files, rel : Rels, of : Signs,
         to : [sign : Signs, mangled : Signs, file : Files]]

FactOf(f, r, s, t, m, g) ==
  [in |-> f, rel |-> r, of |-> s, to |-> [sign |-> t, mangled |-> m, file |-> g]]

\* std::set::insert: the entries of a set are compared by their signatures,
\* and one that is equal to an entry already there is not inserted.
SameEntry(x, y) ==
  /\ x.in = y.in /\ x.rel = y.rel /\ x.of = y.of
  /\ x.to.sign = y.to.sign
Insert(G, x) == IF \E y \in G : SameEntry(x, y) THEN G ELSE G \cup {x}

Declared(G, f, s) == \E x \in G : x.in = f /\ x.rel = "declared" /\ x.of = s
Defined(G, f, s)  == \E x \in G : x.in = f /\ x.rel = "defined" /\ x.of = s

\* get_or_create_declared_function
Declare(G, f, s, m) == Insert(G, FactOf(f, "declared", s, s, m, f))

\* add_definition_to_declaration: nothing happens, and nobody is told, when
\* the function is not declared yet.  A definition is listed by its position.
AddDefinition(G, c) == G \cup {FactOf(c.decl, "definition", c.sign, c.sign, c.sign, c.file)}
AddDefinitionIfDeclared(G, c) ==
  IF Declared(G, c.decl, c.sign) THEN AddDefinition(G, c) ELSE G

\* add_defined_function
AddDefined(G, c) ==
  AddDefinitionIfDeclared(
    Insert(G, FactOf(c.file, "defined", c.sign, c.sign, c.mangled, c.decl)), c)

\* get_or_create_defined_function
Define(G, c) == IF Defined(G, c.file, c.sign) THEN G ELSE AddDefined(G, c)

\* Mutant of VisitDefinition: the definition is left to add_defined_function.
VisitDefinitionUnlinked(G, c) == Declare(Define(G, c), c.decl, c.sign, c.mangled)

\* VisitFunctionDefinition
VisitDefinition(G, c) ==
  AddDefinition(Declare(Define(G, c), c.decl, c.sign, c.mangled), c)

Collocated(c, t) == c.file = t.file
Recursive(c, t)  == Collocated(c, t) /\ c.sign = t.sign

\* The two facts that stand for a call from c to t, in a unit of main file m.
CallerFact(c, t) ==
  FactOf(t.file, IF Collocated(c, t) THEN "localler" ELSE "extcaller",
         t.sign, c.sign, IF Collocated(c, t) THEN c.sign ELSE c.mangled, c.file)

\* Mutant of CalleeFact: the name of the caller in another of the four cases.
CalleeFactOfMain(m, c, t) ==
  FactOf(c.file, IF Collocated(c, t) THEN "locallee" ELSE "extcallee",
         c.sign, t.sign,
         IF Collocated(c, t) THEN t.sign
         ELSE IF c.file = m /\ t.file # m THEN c.mangled ELSE t.mangled,
         t.file)

\* The callee of a function of a header, when it is declared in the main
\* file, is registered with the mangled name of its caller.
CalleeFact(m, c, t) ==
  FactOf(c.file, IF Collocated(c, t) THEN "locallee" ELSE "extcallee",
         c.sign, t.sign,
         IF Collocated(c, t) THEN t.sign
         ELSE IF c.file # m /\ t.file = m THEN c.mangled ELSE t.mangled,
         t.file)

\* Mutant of AddFunctionCall: nothing to do for a call the caller knows.
AddFunctionCallOnce(G, m, c, t) ==
  LET G1 == IF c.file = m THEN Define(G, c) ELSE AddDefined(G, c)
      G2 == Declare(G1, t.file, t.sign, t.mangled)
  IN IF Recursive(c, t) \/ \E x \in G : SameEntry(x, CalleeFact(m, c, t)) THEN G2
     ELSE G2 \cup {CallerFact(c, t), CalleeFact(m, c, t)}

\* add_function_call: the caller, the callee, and the link between them
\* except for a function that calls itself.
AddFunctionCall(G, m, c, t) ==
  LET G1 == IF c.file = m THEN Define(G, c) ELSE AddDefined(G, c)
      G2 == Declare(G1, t.file, t.sign, t.mangled)
  IN IF Recursive(c, t) THEN G2
     ELSE Insert(Insert(G2, CallerFact(c, t)), CalleeFact(m, c, t))

Effect(G, m, e) ==
  CASE e.kind = "declaration" -> Declare(G, e.fct.decl, e.fct.sign, e.fct.mangled)
    [] e.kind = "definition"  -> VisitDefinition(G, e.fct)
    [] e.kind = "call"        -> AddFunctionCall(G, m, e.fct, e.callee)

FilesOf(e) ==
  CASE e.kind = "declaration" -> {e.fct.decl}
    [] e.kind = "definition"  -> {e.fct.file, e.fct.decl}
    [] e.kind = "call"        -> {e.fct.file, e.fct.decl, e.callee.file}

\* Opening a file opens the files where the functions it defines are declared.
OpenWith(G, F) ==
  {f \in Files : \A S \in SUBSET Files :
     (/\ F \subseteq S
      /\ \A x \in G : x.rel = "defined" /\ x.in \in S => x.to.file \in S)
     => f \in S}

\* Reading a definition looks for its declaration again.
Relink(G, new) ==
  G \cup {FactOf(x.to.file, "definition", x.of, x.of, x.of, x.in) :
            x \in {y \in G : /\ y.rel = "defined" /\ y.in \in new
                             /\ Declared(G, y.to.file, y.of)}}

-----------------------------------------------------------------------------
TypeOK ==
  /\ graph \subseteq Fact /\ disk \subseteq Fact
  /\ unit \in Units \cup {NoUnit}
  /\ next \in Nat \ {0}
  /\ opened \subseteq Files /\ written \subseteq opened
  /\ done \subseteq Units /\ dirty \subseteq Units
  /\ unit = NoUnit => graph = disk /\ opened = {}

Init ==
  /\ graph = {} /\ disk = {}
  /\ unit = NoUnit /\ next = 1
  /\ opened = {} /\ written = {}
  /\ done = {} /\ dirty = {}

\* The process starts, and opens the json file of its main file.
Start(u) ==
  LET new == OpenWith(disk, {Main[u]})
  IN /\ unit = NoUnit
     /\ unit' = u /\ next' = 1
     /\ opened' = new
     /\ graph' = Relink(graph, new)
     /\ UNCHANGED <<disk, written, done, dirty>>

Traversing == unit # NoUnit /\ next <= Len(Traversal[unit])

\* The visitor handles the next event, opening the files it has to do with.
Visit ==
  LET e   == Traversal[unit][next]
      new == OpenWith(graph, FilesOf(e)) \ opened
  IN /\ Traversing
     /\ graph' = Effect(Relink(graph, new), Main[unit], e)
     /\ opened' = opened \cup new
     /\ next' = next + 1
     /\ UNCHANGED <<disk, unit, written, done, dirty>>

\* Mutant of Rewrite: the external callers are not output.
RewriteWithoutCallers(f) ==
  /\ unit # NoUnit /\ ~Traversing
  /\ f \in opened \ written
  /\ disk' = {x \in disk : x.in # f}
               \cup {x \in graph : x.in = f /\ x.rel # "extcaller"}
  /\ written' = written \cup {f}
  /\ UNCHANGED <<graph, unit, next, opened, done, dirty>>

\* ~Visitor rewrites the files, in the order of their paths.
Rewrite(f) ==
  /\ unit # NoUnit /\ ~Traversing
  /\ f \in opened \ written
  /\ \A g \in opened \ written : Order[f] <= Order[g]
  /\ disk' = {x \in disk : x.in # f} \cup {x \in graph : x.in = f}
  /\ written' = written \cup {f}
  /\ UNCHANGED <<graph, unit, next, opened, done, dirty>>

\* The analysis ends.
Finish ==
  /\ unit # NoUnit /\ ~Traversing /\ opened = written
  /\ graph' = disk
  /\ done' = done \cup {unit} /\ dirty' = dirty \ {unit}
  /\ unit' = NoUnit /\ next' = 1 /\ opened' = {} /\ written' = {}
  /\ UNCHANGED disk

\* Mutant of Stop: the next analysis takes the files for opened.
StopKeepingFiles ==
  /\ unit # NoUnit
  /\ graph' = disk
  /\ dirty' = IF written = {} THEN dirty ELSE dirty \cup {unit}
  /\ unit' = NoUnit /\ next' = 1 /\ written' = {}
  /\ UNCHANGED <<disk, opened, done>>

\* The process is stopped, and what it had in memory is lost.
Stop ==
  /\ unit # NoUnit
  /\ graph' = disk
  /\ dirty' = IF written = {} THEN dirty ELSE dirty \cup {unit}
  /\ unit' = NoUnit /\ next' = 1 /\ opened' = {} /\ written' = {}
  /\ UNCHANGED <<disk, done>>

Next ==
  \/ \E u \in Units : Start(u)
  \/ Visit \/ Finish \/ Stop
  \/ \E f \in Files : Rewrite(f)

Spec == Init /\ [][Next]_vars

-----------------------------------------------------------------------------
(* Properties. *)

Other == [r \in CallRels |->
            CASE r = "localler" -> "locallee" [] r = "locallee" -> "localler"
              [] r = "extcaller" -> "extcallee" [] r = "extcallee" -> "extcaller"]

\* The function at the other end of the call x lists it too.
HasOtherEnd(G, x) ==
  \E y \in G :
    /\ y.in = x.to.file /\ y.rel = Other[x.rel]
    /\ y.of = x.to.sign /\ y.to.sign = x.of

CallOf(u, x) ==
  \E i \in 1..Len(Traversal[u]) :
    LET e == Traversal[u][i]
    IN /\ e.kind = "call" /\ ~Recursive(e.fct, e.callee)
       /\ x \in {CallerFact(e.fct, e.callee), CalleeFact(Main[u], e.fct, e.callee)}

\* Whoever asks whether a function is ever called reads its callers, whoever
\* follows a call path reads the callees: both see the same calls.  A call is
\* known at one end only if the analysis that met it was stopped between the
\* rewriting of two files, and it stays so no longer than until that unit is
\* analysed again.
CallsAtBothEnds ==
  \A x \in graph : x.rel \in CallRels =>
    HasOtherEnd(graph, x) \/ \E u \in dirty : CallOf(u, x)

\* What the event e has to leave in the graph.
Recorded(G, m, e) ==
  CASE e.kind = "declaration" -> Declared(G, e.fct.decl, e.fct.sign)
    [] e.kind = "definition" ->
         /\ Defined(G, e.fct.file, e.fct.sign)
         /\ \E x \in G : /\ x.in = e.fct.decl /\ x.rel = "definition"
                         /\ x.of = e.fct.sign /\ x.to.file = e.fct.file
    [] e.kind = "call" ->
         /\ Defined(G, e.fct.file, e.fct.sign)
         /\ Declared(G, e.callee.file, e.callee.sign)
         /\ Recursive(e.fct, e.callee)
              \/ /\ \E x \in G : SameEntry(x, CallerFact(e.fct, e.callee))
                 /\ \E x \in G : SameEntry(x, CalleeFact(m, e.fct, e.callee))

\* Once a unit has been analysed to the end, every declaration, definition and
\* call it contains is in the json files, and stays there, whatever analysis
\* runs or is stopped afterwards.
AnalysedIsRecorded ==
  \A u \in done : \A i \in 1..Len(Traversal[u]) : Recorded(disk, Main[u], Traversal[u][i])

\* Analysing again a unit that has been analysed adds no call.
CallFacts(G) == {x \in G : x.rel \in CallRels}

AnalysedAgain ==
  [][(unit \in done) => CallFacts(graph') = CallFacts(graph)]_vars

\* Whoever follows a call to another file looks the callee up there by its
\* mangled name, and finds the declaration: the files of the caller and of the
\* callee give it the same name, whatever unit wrote each of them, but for a
\* unit stopped between the two.  The one exception is a function of a header
\* that calls one of the main file: it lists the callee under its own name.
NamedAfterCaller(x) ==
  x.to.mangled = x.of /\ \E u \in Units : x.to.file = Main[u] /\ x.in # Main[u]

CalleesNamed ==
  \A x \in graph : x.rel = "extcallee" =>
    \/ NamedAfterCaller(x)
    \/ \E y \in graph : /\ y.in = x.to.file /\ y.rel = "declared" /\ y.of = x.to.sign
                        /\ y.to.mangled = x.to.mangled
    \/ \E u \in dirty : CallOf(u, x)

=============================================================================

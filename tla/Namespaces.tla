----------------------------- MODULE Namespaces -----------------------------
(***************************************************************************)
(* The namespace a declaration is given, and what the json files hold of   *)
(* namespaces.  A file lists its namespaces; a namespace lists records,    *)
(* the namespaces it calls and those that call it; a record of the file    *)
(* has its namespace.                                                      *)
(* The namespace is computed in two ways, which the code asserts to agree: *)
(* from the scopes clang gives (printRootNamespace), and by cutting a      *)
(* qualified name at each "::" (get_namespaces).  A string is modelled by  *)
(* this cutting: the sequence of its parts.  So concatenation with "::" in *)
(* between is \o, the empty string has one part, which is empty, and "::"  *)
(* has two of them.                                                        *)
(***************************************************************************)
EXTENDS Naturals, SequencesExt

CONSTANTS
  Files,         \* paths of source and header files
  Parts,         \* what is between two "::"
  Identifiers,   \* the parts that are names of a declaration
  Empty,         \* the part without any character
  Builtin, Env,  \* the record of builtin functions, and its namespace
  C_code,        \* the record of a function that is not a method
  noRecordName,  \* the record asked for when none is known
  Filtered,      \* names of namespaces that are not of interest
  Programs,      \* programs to analyse: sets of units
  Order,         \* Order[f]: rank of f in the order of file paths
  NoUnit         \* no analysis runs

String == Seq(Parts) \ {<<>>}
NoName == <<Empty>>
Root   == <<Empty, Empty>>

\* No string: an assertion has failed.
Failed == <<>>

\* The parts that have a meaning for the analysis.
Reserved == {Empty, Builtin, C_code, noRecordName}

\* What has a name in the program.  T<::::Key> has an empty part inside: Key is
\* in a namespace without name.
Written == {x \in Seq(Parts \ {Builtin, C_code, noRecordName}) : x # <<>> /\ x[1] # Empty}

\* A scope has a name, and a text that adds its template arguments: in
\* Hash<ns::Key> the "::" cuts one of them, and the last part ends with ">".
Scope ==
  {s \in [kind : {"namespace", "record"}, name : {NoName} \cup {<<x>> : x \in Identifiers},
          text : {NoName} \cup Written] :
     /\ s.name = NoName <=> s.text = NoName
     /\ s.kind = "namespace" => s.text = s.name
     /\ Len(s.text) > 1 => s.text[Len(s.text)] \notin Identifiers}

\* No namespace is inside a record.
Scopes == {S \in Seq(Scope) : \A i, j \in DOMAIN S :
                                i < j /\ S[j].kind = "namespace" => S[i].kind = "namespace"}

IsMethod(f) == f.scopes # <<>> /\ Last(f.scopes).kind = "record"

\* A record is given by the scopes around it and its own.
Record == {r \in [scopes : Scopes, file : Files] : IsMethod(r)}

\* The constructor of a class without name has none, and the name of a method
\* may have several parts, as operator const ns::key&(): the first is then no
\* identifier.  (clang writes it, with "(anonymous namespace)" for an empty name.)
Fct ==
  {f \in [scopes : Scopes, name : {NoName} \cup Written, file : Files, builtin : BOOLEAN] :
     /\ f.name = NoName => IsMethod(f) /\ Last(f.scopes).name = NoName
     /\ Len(f.name) > 1 => /\ IsMethod(f) /\ f.name[1] \notin Identifiers
                           /\ \A i \in 1..Len(f.name) : f.name[i] # Empty
     /\ f.builtin => f.scopes = <<>>}

\* place is the file of the declaration of the caller, as the visit says it.
RecordVisit == [kind : {"record"}, rec : Record, bases : Seq(Record)]
FctVisit    == [kind : {"function"}, fct : Fct]
CallVisit   == [kind : {"call"}, caller : Fct, place : Files, callee : Fct]
Unit        == [main : Files, visits : Seq(RecordVisit \cup FctVisit \cup CallVisit)]

ASSUME NamespacesAssumption ==
  /\ Reserved \cup {Env} \cup Identifiers \subseteq Parts
  /\ Empty \notin {Builtin, C_code, noRecordName} /\ C_code \notin {Builtin, noRecordName}
  /\ Identifiers \cap Reserved = {}
  /\ Filtered \subseteq String /\ Root \notin Filtered
  /\ \A P \in Programs : P \subseteq Unit
  /\ \A P \in Programs : NoUnit \notin P
  /\ Order \in [Files -> Nat]
  /\ \A f, g \in Files : Order[f] = Order[g] => f = g

VARIABLES
  program,  \* the program being analysed
  graph,    \* the facts as the running process sees them
  disk,     \* the facts in the json files
  unit,     \* the unit being analysed
  next,     \* the next visit
  opened,   \* the files the process has opened
  written,  \* those it has rewritten
  done,     \* units whose analysis has ended well (for the properties)
  aborted   \* visits that have ended an analysis (for the properties)

vars == <<program, graph, disk, unit, next, opened, written, done, aborted>>

-----------------------------------------------------------------------------
(* Names and namespaces. *)

\* Each scope after the one around it.
printQualification(S) ==
  LET q[i \in 0..Len(S)] ==
        IF i = 0 THEN NoName
        ELSE IF S[i].kind = "namespace" \/ q[i - 1] # NoName THEN q[i - 1] \o S[i].text
        ELSE S[i].text
  IN q[Len(S)]

printQualifiedName(S, name) ==
  LET q == printQualification(S)
  IN IF q = NoName THEN name ELSE IF name = NoName THEN q ELSE q \o name

\* The template arguments of the record itself are not in its name, but
\* VisitRecordDecl adds them.
printRecordName(S) == printQualifiedName(Front(S), Last(S).name)
FullName(S) == printQualifiedName(Front(S), Last(S).text)

printRootQualification(S) ==
  LET i == SelectInSeq(S, LAMBDA s : s.text # NoName)
  IN IF i = 0 THEN NoName ELSE S[i].text

get_namespaces(id, recordName) ==
  IF id = <<Builtin>> THEN <<Env>>
  ELSE IF \/ Len(id) = 1
          \/ recordName # <<C_code>> /\ Len(id) = 2
          \/ recordName # <<C_code>> /\ Len(id) = 3 /\ id[1] = Empty
          \/ id[1] = Empty /\ id[2] = Empty
          \/ id[1] = Empty /\ Len(id) = 2
  THEN Root
  ELSE IF recordName \notin {<<C_code>>, <<id[Len(id) - 1]>>} THEN Failed
  ELSE IF id[1] # Empty THEN <<id[1]>> ELSE <<id[2]>>

\* Mutant of printRootNamespace: a class around the declaration counts too, as
\* in the part of the code that is commented out.
printRootNamespaceOrRecord(S, id, recordName) ==
  IF printRootQualification(S) # NoName THEN printRootQualification(S)
  ELSE get_namespaces(id, recordName)

\* The declaration has qualified name id and is in the scopes S.
printRootNamespace(S, id, recordName) ==
  LET outer == IF S = <<>> THEN NoName ELSE printRootQualification(Front(S))
      inner == IF S = <<>> \/ Last(S).kind = "record" THEN NoName ELSE Last(S).text
  IN IF outer # NoName THEN outer
     ELSE IF inner # NoName THEN inner
     ELSE get_namespaces(id, recordName)

RecordOf(f) ==
  IF f.builtin THEN <<Builtin>> ELSE IF IsMethod(f) THEN printRecordName(f.scopes) ELSE <<C_code>>

NamespaceOf(f) ==
  IF f.builtin THEN <<Env>>
  ELSE printRootNamespace(f.scopes, printQualifiedName(f.scopes, f.name), RecordOf(f))

RecordNamespace(S, recordName) == printRootNamespace(Front(S), printRecordName(S), recordName)

\* isDeclarationOfInterest compares this namespace with those that are filtered.
NamespaceOfInterest(e) ==
  LET f == IF e.kind = "function" THEN e.fct ELSE e.callee
      r == IF IsMethod(f) THEN printRecordName(f.scopes) ELSE <<noRecordName>>
  IN IF e.kind = "record" THEN RecordNamespace(e.rec.scopes, <<noRecordName>>)
     ELSE printRootNamespace(f.scopes, printQualifiedName(f.scopes, f.name), r)

-----------------------------------------------------------------------------
(* What a visit registers. *)

\* The file "in" has the namespace "of", or lists "to" in it.
Rels == {"namespace", "records", "calls", "called", "record"}
Fact == [in : Files, rel : Rels, of : String, to : String]
FactOf(f, r, n, x) == [in |-> f, rel |-> r, of |-> n, to |-> x]

\* The file "by" asks for the record "name" of namespace "nspc" in "file".
Request(by, name, nspc, file) == [by |-> by, name |-> name, nspc |-> nspc, file |-> file]

\* A method asks for its record.
RequestOf(by, f, file) == Request(by, RecordOf(f), NamespaceOf(f), file)

BetweenRecords(e) == RecordOf(e.caller) \notin {<<C_code>>, RecordOf(e.callee)}

Requests(u, e) ==
  CASE e.kind = "record" ->
         LET RequestBase(b) ==
               Request(u.main, printRecordName(b.scopes),
                       RecordNamespace(b.scopes, printRecordName(b.scopes)), b.file)
         IN {Request(u.main, FullName(e.rec.scopes),
                     RecordNamespace(e.rec.scopes, <<C_code>>), e.rec.file)}
            \cup {RequestBase(e.bases[i]) : i \in DOMAIN e.bases}
    [] e.kind = "function" ->
         IF IsMethod(e.fct) THEN {RequestOf(e.fct.file, e.fct, e.fct.file)} ELSE {}
    [] e.kind = "call" ->
         (IF IsMethod(e.callee) THEN {RequestOf(e.callee.file, e.callee, e.callee.file)} ELSE {})
         \cup (IF BetweenRecords(e) THEN {RequestOf(u.main, e.caller, e.place)} ELSE {})
         \cup (IF BetweenRecords(e) /\ RecordOf(e.callee) # <<C_code>>
               THEN {RequestOf(u.main, e.callee, e.callee.file)} ELSE {})

\* The constructor of Record asserts that the namespace is that of the name.
Inconsistent(name, nspc) == nspc = Failed \/ get_namespaces(name, <<C_code>>) # nspc

Fails(u, e) ==
  LET n == NamespaceOfInterest(e)
  IN \/ n = Failed
     \/ /\ n \notin Filtered
        /\ \/ e.kind = "call" /\ NamespaceOf(e.caller) = Failed
           \/ \E r \in Requests(u, e) : Inconsistent(r.name, r.nspc)

\* Namespace::add_record
Listed(f, r) == {FactOf(f, "namespace", r.nspc, NoName), FactOf(f, "records", r.nspc, r.name)}

\* Mutant of Registered: the namespace is registered where it is asked for.
RegisteredOnce(G, r) == Listed(r.by, r) \cup {FactOf(r.file, "record", r.nspc, r.name)}

\* get_or_create_record: a record that is found is left as it is.
Registered(G, r) ==
  Listed(r.by, r) \cup
  (IF \E x \in G : x.in = r.file /\ x.rel = "record" /\ x.to = r.name THEN {}
   ELSE Listed(r.file, r) \cup {FactOf(r.file, "record", r.nspc, r.name)})

\* Mutant of NamespaceCalls: functions of no namespace call namespaces too.
NamespaceCallsOfRoot(f, n, m) ==
  IF n = m THEN {}
  ELSE {FactOf(f, "namespace", n, NoName), FactOf(f, "calls", n, m),
        FactOf(f, "namespace", m, NoName), FactOf(f, "called", m, n)}

\* Mutant of NamespaceCalls: a namespace may call itself.
NamespaceCallsWithin(f, n, m) ==
  IF n = Root THEN {}
  ELSE {FactOf(f, "namespace", n, NoName), FactOf(f, "calls", n, m),
        FactOf(f, "namespace", m, NoName), FactOf(f, "called", m, n)}

\* The end of add_function_call: both ends are in the main file.
NamespaceCalls(f, n, m) ==
  IF n \in {m, Root} THEN {}
  ELSE {FactOf(f, "namespace", n, NoName), FactOf(f, "calls", n, m),
        FactOf(f, "namespace", m, NoName), FactOf(f, "called", m, n)}

Effect(G, u, e) ==
  IF NamespaceOfInterest(e) \in Filtered THEN G
  ELSE G \cup (UNION {Registered(G, r) : r \in Requests(u, e)})
         \cup (IF e.kind # "call" THEN {}
               ELSE NamespaceCalls(u.main, NamespaceOf(e.caller), NamespaceOf(e.callee)))

FilesOf(u, e) ==
  IF NamespaceOfInterest(e) \in Filtered THEN {}
  ELSE {r.file : r \in Requests(u, e)}
       \cup (IF e.kind = "function" THEN {e.fct.file} ELSE {})
       \cup (IF e.kind = "call" THEN {e.caller.file, e.callee.file} ELSE {})

-----------------------------------------------------------------------------
TypeOK ==
  /\ program \in Programs
  /\ graph \subseteq Fact /\ disk \subseteq Fact
  /\ unit \in program \cup {NoUnit}
  /\ next \in Nat \ {0}
  /\ opened \subseteq Files /\ written \subseteq opened
  /\ done \subseteq program
  /\ unit = NoUnit => graph = disk /\ opened = {}

Init ==
  /\ program \in Programs
  /\ graph = {} /\ disk = {}
  /\ unit = NoUnit /\ next = 1
  /\ opened = {} /\ written = {}
  /\ done = {} /\ aborted = {}

\* The process starts, and opens the json file of its main file.
Start(u) ==
  /\ unit = NoUnit
  /\ unit' = u /\ next' = 1 /\ opened' = {u.main}
  /\ UNCHANGED <<program, graph, disk, written, done, aborted>>

Traversing == unit # NoUnit /\ next <= Len(unit.visits)

\* The process ends and what it had in memory is lost.
Lose ==
  /\ graph' = disk
  /\ unit' = NoUnit /\ next' = 1 /\ opened' = {} /\ written' = {}
  /\ UNCHANGED <<program, disk, done>>

Visit ==
  /\ Traversing
  /\ ~Fails(unit, unit.visits[next])
  /\ graph' = Effect(graph, unit, unit.visits[next])
  /\ opened' = opened \cup FilesOf(unit, unit.visits[next])
  /\ next' = next + 1
  /\ UNCHANGED <<program, disk, unit, written, done, aborted>>

\* An assertion fails.
VisitAborts ==
  /\ Traversing
  /\ Fails(unit, unit.visits[next])
  /\ aborted' = aborted \cup {unit.visits[next]}
  /\ Lose

\* ~Visitor rewrites the files, in the order of their paths.
Rewrite(f) ==
  /\ unit # NoUnit /\ ~Traversing
  /\ f \in opened \ written
  /\ \A g \in opened \ written : Order[f] <= Order[g]
  /\ disk' = {x \in disk : x.in # f} \cup {x \in graph : x.in = f}
  /\ written' = written \cup {f}
  /\ UNCHANGED <<program, graph, unit, next, opened, done, aborted>>

\* The analysis ends.
Finish ==
  /\ unit # NoUnit /\ ~Traversing /\ opened = written
  /\ done' = done \cup {unit}
  /\ graph' = disk
  /\ unit' = NoUnit /\ next' = 1 /\ opened' = {} /\ written' = {}
  /\ UNCHANGED <<program, disk, aborted>>

\* Mutant of Stop: the memory is kept.
StopKeeping ==
  /\ unit # NoUnit
  /\ unit' = NoUnit /\ next' = 1 /\ opened' = {} /\ written' = {}
  /\ UNCHANGED <<program, graph, disk, done, aborted>>

\* The process is stopped.
Stop == unit # NoUnit /\ Lose /\ UNCHANGED aborted

Next ==
  \/ \E u \in program : Start(u)
  \/ \E f \in Files : Rewrite(f)
  \/ Visit \/ VisitAborts \/ Finish \/ Stop

Spec == Init /\ [][Next]_vars

-----------------------------------------------------------------------------
(* Properties.  The namespaces are defined again from the scopes alone.     *)

Nameless(S) == \A i \in DOMAIN S : S[i].text = NoName

\* The first scope that has a name.
Outermost(S) ==
  IF Nameless(S) THEN Root
  ELSE LET i == CHOOSE i \in DOMAIN S : S[i].text # NoName /\ \A j \in 1..(i - 1) : S[j].text = NoName
       IN S[i].text

Anonymous(S) == S # <<>> /\ S[1].kind = "namespace" /\ S[1].text = NoName

\* A class directly around a declaration does not count.
Outside(S) == Outermost(IF S # <<>> /\ Last(S).kind = "record" THEN Front(S) ELSE S)

\* A method of the class C, which is in no namespace, that converts to ns::C::T
\* is taken for one of the class C of a namespace called C.
Misread(f) ==
  LET S == f.scopes
  IN /\ IsMethod(f) /\ Nameless(Front(S)) /\ ~Anonymous(S) /\ Last(S).text # NoName
     /\ Len(f.name) > 2 /\ <<f.name[Len(f.name) - 1]>> = Last(S).name

\* The namespace of a function.
Around(f) ==
  IF f.builtin THEN <<Env>>
  ELSE IF Misread(f) THEN <<Last(f.scopes).text[1]>>
  ELSE Outside(f.scopes)

\* The namespace that decides whether the visit does anything.
IsFiltered(e) ==
  IF e.kind = "record" THEN Outside(Front(e.rec.scopes)) \in Filtered
  ELSE LET f == IF e.kind = "function" THEN e.fct ELSE e.callee
       IN ~f.builtin /\ Around(f) \in Filtered

\* Something that has a name is around S, in a namespace that has none.
Hidden(S) == Anonymous(S) /\ ~Nameless(Front(S))

\* The same, but for a class directly around a class.
HiddenRecord(S) ==
  /\ Hidden(S)
  /\ \/ ~Nameless(Front(Front(S)))
     \/ Last(Front(S)).kind = "namespace"

\* The text of the first scope has several parts, as in Hash<ns::Key>.
Specialized(S) == ~Anonymous(S) /\ Len(Outermost(S)) > 1 /\ ~Nameless(S)

\* The record S has no name and is directly in a namespace that has one.
Unnamed(S) ==
  Len(S) = 2 /\ S[1].kind = "namespace" /\ S[1].text # NoName /\ S[2].text = NoName

\* The record S is directly in a class that has a name, and nothing around this
\* class has one.
InClass(S) ==
  /\ Len(S) > 1 /\ ~Anonymous(S)
  /\ Last(Front(S)).kind = "record" /\ Last(Front(S)).text # NoName
  /\ Nameless(Front(Front(S)))

\* No scope around the record S has a name.
Global(S) == Nameless(Front(S)) /\ ~Anonymous(S)

\* The declarations on which the two ways to find a namespace disagree.
\* (A class without name in Hash<ns::Key> is found in "Hash<ns" both ways.)
StopsRecord(S) ==
  \/ HiddenRecord(S) \/ Unnamed(S)
  \/ Specialized(S) /\ ~(InClass(S) /\ Last(S).text = NoName /\ Len(Outermost(S)) = 2)

StopsBase(S) ==
  \/ HiddenRecord(S) \/ Unnamed(S)
  \/ Specialized(Front(S))
  \/ InClass(S) /\ Last(S).text # NoName

\* A method of a global class that is a template or has a long name has none.
StopsAlone(f) ==
  LET S == f.scopes
  IN /\ IsMethod(f) /\ Global(S) /\ ~Misread(f)
     /\ IF Last(S).text = NoName THEN Len(f.name) > 2 ELSE Len(Last(S).text) + Len(f.name) > 2

StopsFct(f) ==
  LET S == f.scopes
  IN /\ IsMethod(f)
     /\ \/ Hidden(S) \/ Specialized(S) \/ Unnamed(S)
        \/ InClass(S) /\ Last(S).text = NoName
        \/ StopsAlone(f) \/ Misread(f)

\* A call between methods of the same record does not look for that of the caller.
Stops(e) ==
  /\ ~IsFiltered(e)
  /\ CASE e.kind = "record" -> \/ StopsRecord(e.rec.scopes)
                               \/ \E i \in DOMAIN e.bases : StopsBase(e.bases[i].scopes)
       [] e.kind = "function" -> StopsFct(e.fct)
       [] e.kind = "call" -> \/ StopsFct(e.callee) \/ StopsAlone(e.caller)
                             \/ StopsFct(e.caller) /\ BetweenRecords(e)

Visits(u) == {u.visits[i] : i \in DOMAIN u.visits}

\* The assertions on namespaces stop an analysis at the declarations above, and
\* only there; a unit that has one is never analysed to its end.
StopsForAReason ==
  /\ \A e \in aborted : Stops(e)
  /\ \A u \in done : \A e \in Visits(u) : ~Stops(e)

\* What is in the json files satisfies the assertions of the operations with
\* which parse_json_file reads it: no analysis can make the next ones fail.
ReadsBack ==
  \A x \in disk :
    /\ x.rel \in {"records", "record"} => ~Inconsistent(x.to, x.of)
    /\ x.rel \in {"calls", "called"} => x.to # x.of

\* A record of a unit that has been analysed is in the file that defines it,
\* and in the namespace of its outermost scope, both in this file and in the
\* main file of the unit, whoever has registered it first.  (A record that has
\* no name takes the one of the record around it.)
RecordsListed ==
  \A u \in done : \A e \in Visits(u) :
    (e.kind = "record" /\ ~IsFiltered(e) /\ Last(e.rec.scopes).text # NoName) =>
      LET S == e.rec.scopes
          n == IF Anonymous(S) THEN Root ELSE Outermost(Front(S))
      IN {FactOf(e.rec.file, "record", n, FullName(S)),
          FactOf(e.rec.file, "records", n, FullName(S)),
          FactOf(u.main, "records", n, FullName(S))} \subseteq disk

\* The call e is one from a namespace to another.
Crosses(e) ==
  /\ e.kind = "call" /\ ~IsFiltered(e)
  /\ Around(e.caller) \notin {Root, Around(e.callee)}

\* The calls between namespaces in the json file of a source file are those of
\* its functions, each at both of its ends: none is lost when a unit has been
\* analysed, and none is there that is in no unit.
CallsExact ==
  /\ \A u \in done : \A e \in Visits(u) :
       Crosses(e) =>
         {FactOf(u.main, "calls", Around(e.caller), Around(e.callee)),
          FactOf(u.main, "called", Around(e.callee), Around(e.caller))} \subseteq disk
  /\ \A x \in disk : x.rel \in {"calls", "called"} =>
       \E u \in program : \E e \in Visits(u) :
         /\ Crosses(e) /\ x.in = u.main
         /\ {x.of, x.to} = {Around(e.caller), Around(e.callee)}
         /\ x.of = Around(IF x.rel = "calls" THEN e.caller ELSE e.callee)

\* "check consistency between record's namespace and record's fullname"
\* (CallersData.cpp): it is asserted to hold.
NamespacesAgree == aborted = {}

=============

--------------------------- MODULE CallGraphProofs ---------------------------
(***************************************************************************)
(* Proofs about CallGraph, for every set of files, functions and units.    *)
(***************************************************************************)
EXTENDS CallGraph, TLAPS

-----------------------------------------------------------------------------
(* What the operators that register facts do. *)

\* A fact is well formed, and says what it is made of.
LEMMA FactOfType ==
  ASSUME NEW f \in Files, NEW r \in Rels, NEW s \in Signs, NEW t \in Signs,
         NEW m \in Signs, NEW g \in Files
  PROVE  /\ FactOf(f, r, s, t, m, g) \in Fact
         /\ FactOf(f, r, s, t, m, g).in = f
         /\ FactOf(f, r, s, t, m, g).rel = r
         /\ FactOf(f, r, s, t, m, g).of = s
         /\ FactOf(f, r, s, t, m, g).to.sign = t
         /\ FactOf(f, r, s, t, m, g).to.file = g
BY DEF FactOf, Fact

\* Inserting an entry loses nothing, adds nothing else, and leaves an entry
\* equal to it.
LEMMA InsertFacts ==
  ASSUME NEW G \in SUBSET Fact, NEW x \in Fact
  PROVE  /\ Insert(G, x) \in SUBSET Fact
         /\ G \subseteq Insert(G, x)
         /\ Insert(G, x) \subseteq G \cup {x}
         /\ \E y \in Insert(G, x) : SameEntry(x, y)
         /\ (\E y \in G : SameEntry(x, y)) => Insert(G, x) = G
<1>1. SameEntry(x, x)
  BY DEF SameEntry
<1> QED BY <1>1 DEF Insert

\* The relations between calls and the others.
LEMMA RelsApart ==
  /\ CallRels \subseteq Rels
  /\ "declared" \notin CallRels /\ "defined" \notin CallRels
  /\ "definition" \notin CallRels
  /\ {"declared", "defined", "definition"} \subseteq Rels
BY DEF CallRels, Rels

\* H extends G with facts of the files F that are no calls.
Extends(G, H, F) ==
  /\ G \subseteq H /\ H \in SUBSET Fact
  /\ \A x \in H \ G : x.in \in F /\ x.rel \notin CallRels

LEMMA ExtendsTwice ==
  ASSUME NEW G, NEW H, NEW K, NEW F, NEW F2,
         Extends(G, H, F), Extends(H, K, F2)
  PROVE  Extends(G, K, F \cup F2)
BY DEF Extends

\* A prototype is declared in its file.
LEMMA DeclareFacts ==
  ASSUME NEW G \in SUBSET Fact, NEW f \in Files, NEW s \in Signs, NEW m \in Signs
  PROVE  /\ Extends(G, Declare(G, f, s, m), {f})
         /\ Declared(Declare(G, f, s, m), f, s)
<1> DEFINE x == FactOf(f, "declared", s, s, m, f)
<1>1. x \in Fact /\ x.in = f /\ x.rel = "declared" /\ x.of = s
  BY FactOfType, RelsApart
<1> HIDE DEF x
<1>2. /\ Insert(G, x) \in SUBSET Fact /\ G \subseteq Insert(G, x)
      /\ Insert(G, x) \subseteq G \cup {x}
      /\ \E y \in Insert(G, x) : SameEntry(x, y)
  BY <1>1, InsertFacts
<1>3. Declare(G, f, s, m) = Insert(G, x)
  BY DEF Declare, x
<1>4. Extends(G, Insert(G, x), {f})
  BY <1>1, <1>2, RelsApart DEF Extends
<1>5. Declared(Insert(G, x), f, s)
  BY <1>1, <1>2 DEF Declared, SameEntry
<1> QED BY <1>3, <1>4, <1>5

\* A definition is listed by its declaration.
LEMMA AddDefinitionFacts ==
  ASSUME NEW G \in SUBSET Fact, NEW c \in Fct
  PROVE  /\ Extends(G, AddDefinition(G, c), {c.decl})
         /\ Extends(G, AddDefinitionIfDeclared(G, c), {c.decl})
         /\ \E x \in AddDefinition(G, c) :
              /\ x.in = c.decl /\ x.rel = "definition"
              /\ x.of = c.sign /\ x.to.file = c.file
<1> DEFINE x == FactOf(c.decl, "definition", c.sign, c.sign, c.sign, c.file)
<1>0. c.decl \in Files /\ c.file \in Files /\ c.sign \in Signs
  BY DEF Fct
<1>1. /\ x \in Fact /\ x.in = c.decl /\ x.rel = "definition" /\ x.of = c.sign
      /\ x.to.file = c.file
  BY <1>0, FactOfType, RelsApart
<1>2. AddDefinition(G, c) = G \cup {x}
  BY DEF AddDefinition
<1> HIDE DEF x
<1>3. Extends(G, G \cup {x}, {c.decl}) /\ Extends(G, G, {c.decl})
  BY <1>1, RelsApart DEF Extends
<1>4. AddDefinitionIfDeclared(G, c) \in {G, G \cup {x}}
  BY <1>2 DEF AddDefinitionIfDeclared
<1> QED BY <1>1, <1>2, <1>3, <1>4

\* The caller, or the function visited, is defined in its file.
LEMMA DefineFacts ==
  ASSUME NEW G \in SUBSET Fact, NEW c \in Fct
  PROVE  /\ Extends(G, AddDefined(G, c), {c.file, c.decl})
         /\ Extends(G, Define(G, c), {c.file, c.decl})
         /\ Defined(AddDefined(G, c), c.file, c.sign)
         /\ Defined(Define(G, c), c.file, c.sign)
<1> DEFINE x == FactOf(c.file, "defined", c.sign, c.sign, c.mangled, c.decl)
           H == Insert(G, x)
<1>0. c.decl \in Files /\ c.file \in Files /\ c.sign \in Signs /\ c.mangled \in Signs
  BY DEF Fct
<1>1. x \in Fact /\ x.in = c.file /\ x.rel = "defined" /\ x.of = c.sign
  BY <1>0, FactOfType, RelsApart
<1>2. AddDefined(G, c) = AddDefinitionIfDeclared(H, c)
  BY DEF AddDefined
<1> HIDE DEF x
<1>3. /\ H \in SUBSET Fact /\ G \subseteq H /\ H \subseteq G \cup {x}
      /\ \E y \in H : SameEntry(x, y)
  BY <1>1, InsertFacts
<1> HIDE DEF H
<1>4. Extends(G, H, {c.file})
  BY <1>1, <1>3, RelsApart DEF Extends
<1>5. Extends(H, AddDefinitionIfDeclared(H, c), {c.decl})
  BY <1>3, AddDefinitionFacts
<1>6. Extends(G, AddDefined(G, c), {c.file} \cup {c.decl})
  BY <1>2, <1>4, <1>5, ExtendsTwice
<1>7. {c.file} \cup {c.decl} = {c.file, c.decl}
  OBVIOUS
<1>8. Extends(G, AddDefined(G, c), {c.file, c.decl})
  BY <1>6, <1>7
<1>9. Defined(AddDefined(G, c), c.file, c.sign)
  <2>1. \E y \in H : y.in = c.file /\ y.rel = "defined" /\ y.of = c.sign
    BY <1>1, <1>3 DEF SameEntry
  <2> QED BY <1>2, <1>5, <2>1 DEF Defined, Extends
<1>10. Extends(G, G, {c.file, c.decl})
  BY DEF Extends
<1> QED BY <1>8, <1>9, <1>10 DEF Define

\* The facts that stand for a call are facts of its two ends, and each is
\* what the other end is looked for.
LEMMA CallFactsOfCall ==
  ASSUME NEW m \in Files, NEW c \in Fct, NEW t \in Fct
  PROVE  /\ CallerFact(c, t) \in Fact /\ CalleeFact(m, c, t) \in Fact
         /\ CallerFact(c, t).in = t.file /\ CalleeFact(m, c, t).in = c.file
         /\ CallerFact(c, t).of = t.sign /\ CalleeFact(m, c, t).of = c.sign
         /\ CallerFact(c, t).to.sign = c.sign /\ CalleeFact(m, c, t).to.sign = t.sign
         /\ CallerFact(c, t).to.file = c.file /\ CalleeFact(m, c, t).to.file = t.file
         /\ CallerFact(c, t).rel \in CallRels /\ CalleeFact(m, c, t).rel \in CallRels
         /\ Other[CallerFact(c, t).rel] = CalleeFact(m, c, t).rel
         /\ Other[CalleeFact(m, c, t).rel] = CallerFact(c, t).rel
<1>0. /\ c.file \in Files /\ c.sign \in Signs /\ c.mangled \in Signs
      /\ t.file \in Files /\ t.sign \in Signs /\ t.mangled \in Signs
  BY DEF Fct
<1>1. /\ {"localler", "extcaller", "locallee", "extcallee"} \subseteq Rels
      /\ {"localler", "extcaller", "locallee", "extcallee"} = CallRels
  BY DEF Rels, CallRels
<1>2. /\ Other["localler"] = "locallee" /\ Other["locallee"] = "localler"
      /\ Other["extcaller"] = "extcallee" /\ Other["extcallee"] = "extcaller"
  BY DEF Other, CallRels
<1>3. CASE Collocated(c, t)
  <2> DEFINE x == FactOf(t.file, "localler", t.sign, c.sign, c.sign, c.file)
             y == FactOf(c.file, "locallee", c.sign, t.sign, t.sign, t.file)
  <2>1. CallerFact(c, t) = x /\ CalleeFact(m, c, t) = y
    BY <1>3 DEF CallerFact, CalleeFact
  <2>2. /\ x \in Fact /\ x.in = t.file /\ x.rel = "localler" /\ x.of = t.sign
        /\ x.to.sign = c.sign /\ x.to.file = c.file
    BY <1>0, <1>1 DEF FactOf, Fact
  <2>3. /\ y \in Fact /\ y.in = c.file /\ y.rel = "locallee" /\ y.of = c.sign
        /\ y.to.sign = t.sign /\ y.to.file = t.file
    BY <1>0, <1>1 DEF FactOf, Fact
  <2> HIDE DEF x, y
  <2> QED BY <1>1, <1>2, <2>1, <2>2, <2>3
<1>4. CASE ~Collocated(c, t)
  <2> DEFINE n == IF c.file # m /\ t.file = m THEN c.mangled ELSE t.mangled
             x == FactOf(t.file, "extcaller", t.sign, c.sign, c.mangled, c.file)
             y == FactOf(c.file, "extcallee", c.sign, t.sign, n, t.file)
  <2>1. CallerFact(c, t) = x /\ CalleeFact(m, c, t) = y
    BY <1>4 DEF CallerFact, CalleeFact
  <2>2. n \in Signs
    BY <1>0
  <2> HIDE DEF n
  <2>3. /\ x \in Fact /\ x.in = t.file /\ x.rel = "extcaller" /\ x.of = t.sign
        /\ x.to.sign = c.sign /\ x.to.file = c.file
    BY <1>0, <1>1 DEF FactOf, Fact
  <2>4. /\ y \in Fact /\ y.in = c.file /\ y.rel = "extcallee" /\ y.of = c.sign
        /\ y.to.sign = t.sign /\ y.to.file = t.file
    BY <1>0, <1>1, <2>2 DEF FactOf, Fact
  <2> HIDE DEF x, y
  <2> QED BY <1>1, <1>2, <2>1, <2>3, <2>4
<1> QED BY <1>3, <1>4

\* What an event records in a graph is recorded in a larger one.
LEMMA RecordedGrows ==
  ASSUME NEW G, NEW H, G \subseteq H, NEW m, NEW e \in Event, Recorded(G, m, e)
  PROVE  Recorded(H, m, e)
<1>1. CASE e.kind = "declaration"
  BY <1>1 DEF Recorded, Declared
<1>2. CASE e.kind = "definition"
  BY <1>2 DEF Recorded, Defined
<1>3. CASE e.kind = "call"
  BY <1>3 DEF Recorded, Declared, Defined
<1> QED BY <1>1, <1>2, <1>3 DEF Event

Both(G, x, y) == Insert(Insert(G, x), y)

\* A graph with one end of a call keeps it when it gets the other.
LEMMA AddCallFacts ==
  ASSUME NEW G \in SUBSET Fact, NEW x \in Fact, NEW y \in Fact
  PROVE  /\ Both(G, x, y) \in SUBSET Fact /\ G \subseteq Both(G, x, y)
         /\ Both(G, x, y) \subseteq G \cup {x, y}
         /\ \E z \in Both(G, x, y) : SameEntry(z, x)
         /\ \E z \in Both(G, x, y) : SameEntry(z, y)
         /\ (\E z \in G : SameEntry(z, x)) /\ (\E z \in G : SameEntry(z, y))
              => Both(G, x, y) = G
<1> DEFINE H == Insert(G, x)
<1>2. /\ H \in SUBSET Fact /\ G \subseteq H /\ H \subseteq G \cup {x}
      /\ \E z \in H : SameEntry(x, z)
      /\ (\E z \in G : SameEntry(x, z)) => H = G
  BY InsertFacts
<1>0. Both(G, x, y) = Insert(H, y)
  BY DEF Both
<1> DEFINE K == Both(G, x, y)
<1> HIDE DEF H
<1>3. /\ K \in SUBSET Fact /\ H \subseteq K /\ K \subseteq H \cup {y}
      /\ \E z \in K : SameEntry(y, z)
      /\ (\E z \in H : SameEntry(y, z)) => K = H
  BY <1>0, <1>2, InsertFacts
<1>4. \A u, v : SameEntry(u, v) <=> SameEntry(v, u)
  BY DEF SameEntry
<1> QED BY <1>2, <1>3, <1>4

\* The facts of the call e, in a unit of main file m.
OfCall(m, e, x) ==
  /\ e.kind = "call" /\ ~Recursive(e.fct, e.callee)
  /\ x \in {CallerFact(e.fct, e.callee), CalleeFact(m, e.fct, e.callee)}

\* A call registers its caller, its callee and the link between them.
LEMMA AddFunctionCallFacts ==
  ASSUME NEW G \in SUBSET Fact, NEW m \in Files, NEW e \in Event, e.kind = "call",
         NEW K, K = AddFunctionCall(G, m, e.fct, e.callee)
  PROVE  /\ K \in SUBSET Fact /\ G \subseteq K /\ Recorded(K, m, e)
         /\ \A x \in K \ G : /\ x.in \in FilesOf(e)
                             /\ x.rel \in CallRels => OfCall(m, e, x)
         /\ Recorded(G, m, e) => CallFacts(K) = CallFacts(G)
<1> DEFINE c == e.fct
           t == e.callee
           G1 == IF c.file = m THEN Define(G, c) ELSE AddDefined(G, c)
           G2 == Declare(G1, t.file, t.sign, t.mangled)
<1>0. c \in Fct /\ t \in Fct
  BY DEF Event
<1>1. /\ FilesOf(e) = {c.file, c.decl, t.file}
      /\ t.file \in Files /\ t.sign \in Signs /\ t.mangled \in Signs
      /\ c.file \in Files /\ c.sign \in Signs
  BY <1>0 DEF FilesOf, Fct
<1>2. Extends(G, G1, {c.file, c.decl}) /\ Defined(G1, c.file, c.sign)
  BY <1>0, DefineFacts
<1> HIDE DEF G1
<1>17. G1 \in SUBSET Fact
  BY <1>2 DEF Extends
<1>3. Extends(G1, G2, {t.file}) /\ Declared(G2, t.file, t.sign)
  BY <1>1, <1>17, DeclareFacts
<1>4. Defined(G2, c.file, c.sign)
  BY <1>2, <1>3 DEF Defined, Extends
<1>5. Extends(G, G2, FilesOf(e))
  BY <1>1, <1>2, <1>3 DEF Extends
<1> DEFINE x == CallerFact(c, t)
           y == CalleeFact(m, c, t)
           K2 == Both(G2, x, y)
<1>6. K = IF Recursive(c, t) THEN G2 ELSE K2
  BY DEF AddFunctionCall, Both, G1, G2
<1> HIDE DEF G2
<1>10. G2 \in SUBSET Fact /\ G \subseteq G2
  BY <1>5 DEF Extends
<1>16. x \in Fact /\ y \in Fact
  BY <1>0, CallFactsOfCall
<1>8. x.in = t.file /\ y.in = c.file
  BY <1>0, CallFactsOfCall
<1>9. (OfCall(m, e, x) /\ OfCall(m, e, y)) \/ Recursive(c, t)
  BY DEF OfCall
<1> HIDE DEF x, y
<1>7. /\ K2 \in SUBSET Fact /\ G2 \subseteq K2 /\ K2 \subseteq G2 \cup {x, y}
      /\ \E z \in K2 : SameEntry(z, x)
      /\ \E z \in K2 : SameEntry(z, y)
      /\ (\E z \in G2 : SameEntry(z, x)) /\ (\E z \in G2 : SameEntry(z, y)) => K2 = G2
  BY <1>10, <1>16, AddCallFacts
<1> HIDE DEF K2
<1>11. CallFacts(G2) = CallFacts(G)
  BY <1>5 DEF CallFacts, Extends
<1>12. K \in SUBSET Fact /\ G2 \subseteq K
  BY <1>6, <1>7, <1>10
<1>13. Recorded(K, m, e)
  <2>1. Declared(K, t.file, t.sign) /\ Defined(K, c.file, c.sign)
    BY <1>3, <1>4, <1>12 DEF Declared, Defined
  <2>2. Recursive(c, t) \/ /\ \E z \in K : SameEntry(z, x)
                           /\ \E z \in K : SameEntry(z, y)
    BY <1>6, <1>7
  <2> QED BY <2>1, <2>2 DEF Recorded, x, y
<1>14. ASSUME NEW z \in K \ G
       PROVE  z.in \in FilesOf(e) /\ (z.rel \in CallRels => OfCall(m, e, z))
  <2>1. CASE z \in G2
    BY <1>5, <2>1 DEF Extends
  <2>2. CASE z \notin G2
    <3>1. ~Recursive(c, t) /\ z \in {x, y}
      BY <1>6, <1>7, <2>2
    <3> QED BY <1>1, <1>8, <1>9, <3>1
  <2> QED BY <2>1, <2>2
<1>15. ASSUME Recorded(G, m, e) PROVE CallFacts(K) = CallFacts(G)
  <2>1. Recursive(c, t) \/ /\ \E z \in G : SameEntry(z, x)
                           /\ \E z \in G : SameEntry(z, y)
    BY <1>15 DEF Recorded, x, y
  <2>2. K = G2
    BY <1>6, <1>7, <1>10, <2>1
  <2> QED BY <1>11, <2>2
<1> QED BY <1>10, <1>12, <1>13, <1>14, <1>15

\* What handling an event does to the graph.
LEMMA EffectFacts ==
  ASSUME NEW G \in SUBSET Fact, NEW m \in Files, NEW e \in Event
  PROVE  /\ Effect(G, m, e) \in SUBSET Fact
         /\ G \subseteq Effect(G, m, e)
         /\ Recorded(Effect(G, m, e), m, e)
         /\ \A x \in Effect(G, m, e) \ G : /\ x.in \in FilesOf(e)
                                           /\ x.rel \in CallRels => OfCall(m, e, x)
         /\ Recorded(G, m, e) => CallFacts(Effect(G, m, e)) = CallFacts(G)
<1> DEFINE c == e.fct
<1>0. /\ c \in Fct /\ c.file \in Files /\ c.decl \in Files
      /\ c.sign \in Signs /\ c.mangled \in Signs
  BY DEF Event, Fct
<1>1. CASE e.kind = "declaration"
  <2> DEFINE K == Declare(G, c.decl, c.sign, c.mangled)
  <2>1. Extends(G, K, {c.decl}) /\ Declared(K, c.decl, c.sign)
    BY <1>0, DeclareFacts
  <2>2. Effect(G, m, e) = K /\ FilesOf(e) = {c.decl}
    BY <1>1 DEF Effect, FilesOf
  <2> HIDE DEF K
  <2>3. Recorded(K, m, e)
    BY <1>1, <2>1 DEF Recorded
  <2> QED BY <2>1, <2>2, <2>3 DEF Extends, CallFacts
<1>2. CASE e.kind = "definition"
  <2> DEFINE G1 == Define(G, c)
             G2 == Declare(G1, c.decl, c.sign, c.mangled)
             K == AddDefinition(G2, c)
  <2>1. Effect(G, m, e) = K /\ FilesOf(e) = {c.file, c.decl}
    BY <1>2 DEF Effect, FilesOf, VisitDefinition
  <2>2. Extends(G, G1, {c.file, c.decl}) /\ Defined(G1, c.file, c.sign)
    BY <1>0, DefineFacts
  <2>3. Extends(G1, G2, {c.decl})
    BY <1>0, <2>2, DeclareFacts DEF Extends
  <2>4. /\ Extends(G2, K, {c.decl})
        /\ \E x \in K : /\ x.in = c.decl /\ x.rel = "definition"
                        /\ x.of = c.sign /\ x.to.file = c.file
    BY <1>0, <2>3, AddDefinitionFacts DEF Extends
  <2> HIDE DEF G1, G2, K
  <2>5. Extends(G, K, {c.file, c.decl})
    BY <2>2, <2>3, <2>4 DEF Extends
  <2>6. Defined(K, c.file, c.sign)
    BY <2>2, <2>3, <2>4 DEF Defined, Extends
  <2>7. Recorded(K, m, e)
    BY <1>2, <2>4, <2>6 DEF Recorded
  <2> QED BY <2>1, <2>5, <2>7 DEF Extends, CallFacts
<1>3. CASE e.kind = "call"
  <2>1. Effect(G, m, e) = AddFunctionCall(G, m, e.fct, e.callee)
    BY <1>3 DEF Effect
  <2> QED BY <1>3, <2>1, AddFunctionCallFacts
<1> QED BY <1>1, <1>2, <1>3 DEF Event

\* Opening files opens at least those, and the files their definitions are
\* declared in.
LEMMA OpenWithFacts ==
  ASSUME NEW G \in SUBSET Fact, NEW F \in SUBSET Files
  PROVE  /\ OpenWith(G, F) \in SUBSET Files
         /\ F \subseteq OpenWith(G, F)
         /\ \A x \in G : x.rel = "defined" /\ x.in \in OpenWith(G, F)
                           => x.to.file \in OpenWith(G, F)
<1>1. \A x \in G : x.to.file \in Files
  BY DEF Fact
<1> QED BY <1>1 DEF OpenWith

\* Looking for declarations again adds definitions, to files that are open.
LEMMA RelinkFacts ==
  ASSUME NEW G \in SUBSET Fact, NEW F \in SUBSET Files, NEW new \in SUBSET Files,
         new \subseteq OpenWith(G, F)
  PROVE  Extends(G, Relink(G, new), OpenWith(G, F))
<1> DEFINE R == {y \in G : /\ y.rel = "defined" /\ y.in \in new
                           /\ Declared(G, y.to.file, y.of)}
           link(x) == FactOf(x.to.file, "definition", x.of, x.of, x.of, x.in)
<1>1. ASSUME NEW x \in R
      PROVE  link(x) \in Fact /\ link(x).in \in OpenWith(G, F)
             /\ link(x).rel = "definition"
  <2>1. x.to.file \in Files /\ x.of \in Signs /\ x.in \in Files
    BY DEF Fact
  <2>2. /\ link(x) \in Fact /\ link(x).in = x.to.file
        /\ link(x).rel = "definition"
    BY <2>1, FactOfType, RelsApart
  <2>3. x.to.file \in OpenWith(G, F)
    BY OpenWithFacts
  <2> QED BY <2>2, <2>3
<1>2. Relink(G, new) = G \cup {link(x) : x \in R}
  BY DEF Relink
<1> HIDE DEF link, R
<1> QED BY <1>1, <1>2, RelsApart DEF Extends

\* A recorded call is seen from both its ends.
LEMMA OtherEnd ==
  ASSUME NEW G, NEW m \in Files, NEW e \in Event, NEW x,
         OfCall(m, e, x), Recorded(G, m, e)
  PROVE  HasOtherEnd(G, x)
<1> DEFINE c == e.fct
           t == e.callee
<1>1. c \in Fct /\ t \in Fct
  BY DEF Event
<1>2. /\ e.kind = "call" /\ ~Recursive(c, t)
      /\ x = CallerFact(c, t) \/ x = CalleeFact(m, c, t)
  BY DEF OfCall
<1>3. PICK y \in G : SameEntry(y, CallerFact(c, t))
  BY <1>2 DEF Recorded
<1>4. PICK z \in G : SameEntry(z, CalleeFact(m, c, t))
  BY <1>2 DEF Recorded
<1>5. CASE x = CallerFact(c, t)
  <2>1. /\ z.in = x.to.file /\ z.rel = Other[x.rel]
        /\ z.of = x.to.sign /\ z.to.sign = x.of
    BY <1>1, <1>4, <1>5, CallFactsOfCall DEF SameEntry
  <2> QED BY <2>1 DEF HasOtherEnd
<1>6. CASE x = CalleeFact(m, c, t)
  <2>1. /\ y.in = x.to.file /\ y.rel = Other[x.rel]
        /\ y.of = x.to.sign /\ y.to.sign = x.of
    BY <1>1, <1>3, <1>6, CallFactsOfCall DEF SameEntry
  <2> QED BY <2>1 DEF HasOtherEnd
<1> QED BY <1>2, <1>5, <1>6

-----------------------------------------------------------------------------
(* The invariant the theorems rest on. *)

\* What the process has not opened is as it is on the disk, and so is what it
\* has rewritten; it rewrites files once its traversal is over.
FilesInv ==
  /\ disk \subseteq graph
  /\ \A x \in graph : x.in \notin opened \/ x.in \in written => x \in disk
  /\ written # {} => ~Traversing

\* What is not yet on the disk comes from the unit, and what the traversal
\* has been through is in the graph.
UnitInv ==
  /\ \A x \in graph \ disk : x.rel \in CallRels => unit # NoUnit /\ CallOf(unit, x)
  /\ unit # NoUnit =>
       \A i \in 1..Len(Traversal[unit]) :
         i < next => Recorded(graph, Main[unit], Traversal[unit][i])

Inv == TypeOK /\ FilesInv /\ UnitInv

\* The next event is an event, and a unit has a main file.
LEMMA EventType ==
  ASSUME NEW u \in Units
  PROVE  /\ Main[u] \in Files /\ Len(Traversal[u]) \in Nat
         /\ \A i \in 1..Len(Traversal[u]) : Traversal[u][i] \in Event
<1>1. Traversal[u] \in Seq(Event)
  BY CallGraphAssumption
<1> QED BY <1>1, CallGraphAssumption

\* What the start of an analysis does to the graph.
LEMMA StartFacts ==
  ASSUME Inv, NEW u \in Units, Start(u)
  PROVE  /\ Extends(graph, graph', opened') /\ opened' \in SUBSET Files
         /\ graph = disk /\ written = {}
<1> DEFINE new == OpenWith(disk, {Main[u]})
<1>1. unit = NoUnit /\ opened' = new /\ graph' = Relink(graph, new)
  BY DEF Start
<1>2. graph = disk /\ opened = {} /\ graph \in SUBSET Fact /\ written = {}
  BY <1>1 DEF Inv, TypeOK
<1>3. {Main[u]} \in SUBSET Files
  BY EventType
<1>4. new \in SUBSET Files /\ new = OpenWith(graph, {Main[u]})
  BY <1>2, <1>3, OpenWithFacts
<1> HIDE DEF new
<1>5. Extends(graph, Relink(graph, new), OpenWith(graph, {Main[u]}))
  BY <1>2, <1>3, <1>4, RelinkFacts
<1> QED BY <1>1, <1>2, <1>4, <1>5

\* What handling the next event does.
LEMMA VisitFacts ==
  ASSUME Inv, Visit
  PROVE  LET e == Traversal[unit][next]
             m == Main[unit]
         IN /\ unit \in Units /\ m \in Files /\ next \in 1..Len(Traversal[unit])
            /\ e \in Event
            /\ graph' \in SUBSET Fact /\ graph \subseteq graph'
            /\ opened' \in SUBSET Files /\ opened \subseteq opened'
            /\ \A x \in graph' \ graph : /\ x.in \in opened'
                                         /\ x.rel \in CallRels => OfCall(m, e, x)
            /\ Recorded(graph', m, e)
            /\ Recorded(graph, m, e) => CallFacts(graph') = CallFacts(graph)
<1> DEFINE e == Traversal[unit][next]
           m == Main[unit]
           F == OpenWith(graph, FilesOf(e))
           new == F \ opened
           G == Relink(graph, new)
<1>1. unit \in Units /\ next \in 1..Len(Traversal[unit])
  BY EventType DEF Inv, TypeOK, Visit, Traversing
<1>2. m \in Files /\ e \in Event
  BY <1>1, EventType
<1>3. graph \in SUBSET Fact /\ opened \in SUBSET Files
  BY DEF Inv, TypeOK
<1>4. opened' = opened \cup new /\ graph' = Effect(G, m, e)
  BY DEF Visit
<1> HIDE DEF e, m
<1>5. FilesOf(e) \in SUBSET Files
  BY <1>2 DEF Event, FilesOf, Fct
<1>6. F \in SUBSET Files /\ FilesOf(e) \subseteq F
  BY <1>3, <1>5, OpenWithFacts
<1>7. Extends(graph, G, F)
  BY <1>3, <1>5, <1>6, RelinkFacts
<1> HIDE DEF F, G
<1>8. G \in SUBSET Fact
  BY <1>7 DEF Extends
<1>9. /\ graph' \in SUBSET Fact /\ G \subseteq graph'
      /\ Recorded(graph', m, e)
      /\ \A x \in graph' \ G : /\ x.in \in FilesOf(e)
                               /\ x.rel \in CallRels => OfCall(m, e, x)
      /\ Recorded(G, m, e) => CallFacts(graph') = CallFacts(G)
  BY <1>2, <1>4, <1>8, EffectFacts
<1>10. F \subseteq opened' /\ opened \subseteq opened' /\ opened' \in SUBSET Files
  BY <1>3, <1>4, <1>6
<1>11. graph \subseteq G /\ \A x \in G \ graph : x.in \in F /\ x.rel \notin CallRels
  BY <1>7 DEF Extends
<1>12. Recorded(graph, m, e) => CallFacts(graph') = CallFacts(graph)
  <2>1. CallFacts(G) = CallFacts(graph)
    BY <1>11 DEF CallFacts
  <2> QED BY <1>2, <1>9, <1>11, <2>1, RecordedGrows
<1>13. \A x \in graph' \ graph : /\ x.in \in opened'
                                 /\ x.rel \in CallRels => OfCall(m, e, x)
  BY <1>6, <1>9, <1>10, <1>11
<1> QED BY <1>1, <1>2, <1>9, <1>10, <1>11, <1>12, <1>13 DEF e, m

\* When everything opened is rewritten, nothing is left in memory.
LEMMA FinishFacts == Inv /\ Finish => graph = disk /\ unit \in Units
BY DEF Inv, TypeOK, FilesInv, Finish

\* Rewriting a file adds to the disk, and nothing that is not in the graph.
LEMMA RewriteFacts ==
  ASSUME Inv, NEW f \in Files, Rewrite(f)
  PROVE  /\ disk \subseteq disk' /\ disk' \subseteq graph
         /\ \A x \in graph : x.in = f => x \in disk'
         /\ unit \in Units /\ ~Traversing
BY DEF Inv, TypeOK, FilesInv, Rewrite

\* The types.
LEMMA TypeStep == Inv /\ [Next]_vars => TypeOK'
<1> SUFFICES ASSUME Inv, [Next]_vars PROVE TypeOK'
  OBVIOUS
<1>1. CASE UNCHANGED vars
  BY <1>1 DEF Inv, TypeOK, vars
<1>2. ASSUME NEW u \in Units, Start(u) PROVE TypeOK'
  <2>1. /\ graph' \in SUBSET Fact /\ opened' \in SUBSET Files
        /\ written = {}
    BY <1>2, StartFacts DEF Extends
  <2>2. /\ unit' = u /\ next' = 1 /\ u # NoUnit
        /\ disk' = disk /\ written' = written /\ done' = done /\ dirty' = dirty
    BY <1>2, CallGraphAssumption DEF Start
  <2> QED BY <2>1, <2>2 DEF Inv, TypeOK
<1>3. CASE Visit
  <2>1. next' \in Nat \ {0} /\ unit # NoUnit
    BY <1>3 DEF Inv, TypeOK, Visit, Traversing
  <2> QED BY <1>3, <2>1, VisitFacts DEF Inv, TypeOK, Visit
<1>4. CASE Finish
  BY <1>4, FinishFacts DEF Inv, TypeOK, Finish
<1>5. CASE Stop
  BY <1>5 DEF Inv, TypeOK, Stop
<1>6. ASSUME NEW f \in Files, Rewrite(f) PROVE TypeOK'
  <2>1. disk' \subseteq Fact /\ unit # NoUnit
    BY <1>6 DEF Inv, TypeOK, Rewrite
  <2> QED BY <1>6, <2>1 DEF Inv, TypeOK, Rewrite
<1> QED BY <1>1, <1>2, <1>3, <1>4, <1>5, <1>6 DEF Next

\* What is in memory and what is on the disk.
LEMMA FilesStep == Inv /\ [Next]_vars => FilesInv'
<1> SUFFICES ASSUME Inv, [Next]_vars PROVE FilesInv'
  OBVIOUS
<1>1. CASE UNCHANGED vars
  BY <1>1 DEF Inv, FilesInv, vars, Traversing
<1>2. ASSUME NEW u \in Units, Start(u) PROVE FilesInv'
  BY <1>2, StartFacts DEF FilesInv, Start, Extends
<1>3. CASE Visit
  <2>1. written = {} /\ written' = {} /\ disk' = disk
    BY <1>3 DEF Inv, FilesInv, Visit
  <2> QED BY <1>3, <2>1, VisitFacts DEF Inv, FilesInv
<1>4. CASE Finish
  BY <1>4 DEF FilesInv, Finish
<1>5. CASE Stop
  BY <1>5 DEF FilesInv, Stop
<1>6. ASSUME NEW f \in Files, Rewrite(f) PROVE FilesInv'
  <2>1. ~Traversing'
    BY <1>6 DEF Rewrite, Traversing
  <2>2. graph' = graph /\ opened' = opened /\ written' = written \cup {f}
    BY <1>6 DEF Rewrite
  <2> QED BY <1>6, <2>1, <2>2, RewriteFacts DEF Inv, FilesInv
<1> QED BY <1>1, <1>2, <1>3, <1>4, <1>5, <1>6 DEF Next

\* What the unit under analysis has brought.
LEMMA UnitStep == Inv /\ [Next]_vars => UnitInv'
<1> SUFFICES ASSUME Inv, [Next]_vars PROVE UnitInv'
  OBVIOUS
<1>1. CASE UNCHANGED vars
  BY <1>1 DEF Inv, UnitInv, vars
<1>2. ASSUME NEW u \in Units, Start(u) PROVE UnitInv'
  <2>1. next' = 1 /\ unit' = u /\ disk' = disk
    BY <1>2 DEF Start
  <2>2. \A x \in graph' \ disk' : x.rel \notin CallRels
    BY <1>2, <2>1, StartFacts DEF Extends
  <2>3. \A i \in 1..Len(Traversal[unit']) : ~(i < next')
    BY <2>1, EventType
  <2> QED BY <2>2, <2>3 DEF UnitInv
<1>3. CASE Visit
  <2> DEFINE e == Traversal[unit][next]
             m == Main[unit]
  <2>1. unit' = unit /\ next' = next + 1 /\ disk' = disk
    BY <1>3 DEF Visit
  <2>2. /\ unit \in Units /\ m \in Files /\ next \in 1..Len(Traversal[unit])
        /\ e \in Event /\ graph \subseteq graph' /\ Recorded(graph', m, e)
        /\ \A x \in graph' \ graph : x.rel \in CallRels => OfCall(m, e, x)
    BY <1>3, VisitFacts
  <2>3. unit # NoUnit
    BY <1>3 DEF Visit, Traversing
  <2>4. ASSUME NEW x \in graph' \ disk', x.rel \in CallRels
        PROVE  CallOf(unit', x)
    <3>1. CASE x \in graph
      BY <2>1, <2>4, <3>1 DEF Inv, UnitInv
    <3>2. CASE x \notin graph
      <4>1. OfCall(m, e, x)
        BY <2>2, <2>4, <3>2
      <4> QED BY <2>1, <2>2, <4>1 DEF OfCall, CallOf
    <3> QED BY <3>1, <3>2
  <2>5. ASSUME NEW i \in 1..Len(Traversal[unit]), i < next'
        PROVE  Recorded(graph', m, Traversal[unit][i])
    <3>1. Traversal[unit][i] \in Event /\ i \in Nat /\ next \in Nat
      BY <2>2, EventType DEF Inv, TypeOK
    <3>2. CASE i = next
      BY <2>2, <3>2
    <3>3. CASE i < next
      <4>1. Recorded(graph, m, Traversal[unit][i])
        BY <2>3, <3>3 DEF Inv, UnitInv
      <4> QED BY <2>2, <3>1, <4>1, RecordedGrows
    <3> QED BY <2>1, <2>5, <3>1, <3>2, <3>3
  <2> QED BY <2>1, <2>3, <2>4, <2>5 DEF UnitInv
<1>4. CASE Finish
  BY <1>4 DEF UnitInv, Finish
<1>5. CASE Stop
  BY <1>5 DEF UnitInv, Stop
<1>6. ASSUME NEW f \in Files, Rewrite(f) PROVE UnitInv'
  <2>1. graph' = graph /\ unit' = unit /\ next' = next
    BY <1>6 DEF Rewrite
  <2> QED BY <1>6, <2>1, RewriteFacts DEF Inv, UnitInv
<1> QED BY <1>1, <1>2, <1>3, <1>4, <1>5, <1>6 DEF Next

\* Nothing is recorded at first.
LEMMA InvInit == Init => Inv
BY DEF Init, Inv, TypeOK, FilesInv, UnitInv

LEMMA InvStep == Inv /\ [Next]_vars => Inv'
BY TypeStep, FilesStep, UnitStep DEF Inv

\* The types are right for every set of files, functions and units.
THEOREM TypeCorrect == Spec => []TypeOK
<1>1. Inv => TypeOK
  BY DEF Inv
<1> QED BY InvInit, InvStep, <1>1, PTL DEF Spec

-----------------------------------------------------------------------------
(* What has been analysed is recorded, and analysing it again adds no call. *)

\* Nothing a unit that has been analysed calls is new.
SameInv == unit \in done => CallFacts(graph) = CallFacts(disk)

DoneInv == Inv /\ AnalysedIsRecorded /\ SameInv

\* Events that are recorded on the disk stay so when the disk grows.
LEMMA RecordedKept ==
  ASSUME Inv, AnalysedIsRecorded, disk \subseteq disk', done' = done
  PROVE  AnalysedIsRecorded'
<1> SUFFICES ASSUME NEW u \in done, NEW i \in 1..Len(Traversal[u])
             PROVE  Recorded(disk', Main[u], Traversal[u][i])
  BY DEF AnalysedIsRecorded
<1>1. u \in Units
  BY DEF Inv, TypeOK
<1>2. Main[u] \in Files /\ Traversal[u][i] \in Event
  BY <1>1, EventType
<1>3. Recorded(disk, Main[u], Traversal[u][i])
  BY DEF AnalysedIsRecorded
<1> QED BY <1>2, <1>3, RecordedGrows

LEMMA RecordedStep ==
  Inv /\ AnalysedIsRecorded /\ [Next]_vars => AnalysedIsRecorded'
<1> SUFFICES ASSUME Inv, AnalysedIsRecorded, [Next]_vars
             PROVE  AnalysedIsRecorded'
  OBVIOUS
<1>1. CASE UNCHANGED vars
  BY <1>1, RecordedKept DEF vars
<1>2. ASSUME NEW u \in Units, Start(u) PROVE AnalysedIsRecorded'
  BY <1>2, RecordedKept DEF Start
<1>3. CASE Visit
  BY <1>3, RecordedKept DEF Visit
<1>4. CASE Finish
  <2>1. /\ graph = disk /\ unit \in Units /\ disk' = disk
        /\ done' = done \cup {unit} /\ unit # NoUnit /\ ~Traversing
    BY <1>4, FinishFacts DEF Finish
  <2>2. ASSUME NEW i \in 1..Len(Traversal[unit])
        PROVE  Recorded(disk, Main[unit], Traversal[unit][i])
    <3>1. i < next
      BY <2>1, EventType DEF Traversing, Inv, TypeOK
    <3> QED BY <2>1, <3>1 DEF Inv, UnitInv
  <2> QED BY <2>1, <2>2 DEF AnalysedIsRecorded
<1>5. CASE Stop
  BY <1>5, RecordedKept DEF Stop
<1>6. ASSUME NEW f \in Files, Rewrite(f) PROVE AnalysedIsRecorded'
  BY <1>6, RecordedKept, RewriteFacts DEF Rewrite
<1> QED BY <1>1, <1>2, <1>3, <1>4, <1>5, <1>6 DEF Next

\* The next event of a unit that has been analysed brings no call.
LEMMA VisitAgain ==
  ASSUME Inv, AnalysedIsRecorded, Visit, unit \in done
  PROVE  CallFacts(graph') = CallFacts(graph)
<1> DEFINE e == Traversal[unit][next]
           m == Main[unit]
<1>1. /\ unit \in Units /\ m \in Files /\ next \in 1..Len(Traversal[unit])
      /\ e \in Event
      /\ Recorded(graph, m, e) => CallFacts(graph') = CallFacts(graph)
  BY VisitFacts
<1>2. Recorded(disk, m, e)
  BY <1>1 DEF AnalysedIsRecorded
<1>3. disk \subseteq graph
  BY DEF Inv, FilesInv
<1> HIDE DEF e, m
<1> QED BY <1>1, <1>2, <1>3, RecordedGrows

LEMMA SameStep == DoneInv /\ [Next]_vars => SameInv'
<1> SUFFICES ASSUME DoneInv, [Next]_vars, unit' \in done'
             PROVE  CallFacts(graph') = CallFacts(disk')
  BY DEF SameInv
<1>0. NoUnit \notin done /\ NoUnit \notin Units
  BY CallGraphAssumption DEF DoneInv, Inv, TypeOK
<1>1. CASE UNCHANGED vars
  BY <1>1 DEF DoneInv, SameInv, vars
<1>2. ASSUME NEW u \in Units, Start(u) PROVE CallFacts(graph') = CallFacts(disk')
  <2>1. disk' = disk
    BY <1>2 DEF Start
  <2> QED BY <1>2, <2>1, StartFacts DEF DoneInv, Extends, CallFacts
<1>3. CASE Visit
  <2>1. unit' = unit /\ done' = done /\ disk' = disk
    BY <1>3 DEF Visit
  <2> QED BY <1>3, <2>1, VisitAgain DEF DoneInv, SameInv
<1>4. CASE Finish
  BY <1>0, <1>4, FinishFacts DEF Finish, DoneInv
<1>5. CASE Stop
  BY <1>0, <1>5 DEF Stop
<1>6. ASSUME NEW f \in Files, Rewrite(f) PROVE CallFacts(graph') = CallFacts(disk')
  <2>1. graph' = graph /\ unit' = unit /\ done' = done
    BY <1>6 DEF Rewrite
  <2>2. CallFacts(graph) = CallFacts(disk)
    BY <2>1 DEF DoneInv, SameInv
  <2> QED BY <1>6, <2>1, <2>2, RewriteFacts DEF DoneInv, CallFacts
<1> QED BY <1>1, <1>2, <1>3, <1>4, <1>5, <1>6 DEF Next

LEMMA DoneInit == Init => DoneInv
BY InvInit DEF Init, DoneInv, AnalysedIsRecorded, SameInv

LEMMA DoneStep == DoneInv /\ [Next]_vars => DoneInv'
BY InvStep, RecordedStep, SameStep DEF DoneInv

\* A unit analysed to the end is in the json files for ever, whatever
\* analyses follow it and wherever they are stopped.
THEOREM Recording == Spec => []AnalysedIsRecorded
<1>1. DoneInv => AnalysedIsRecorded
  BY DEF DoneInv
<1> QED BY DoneInit, DoneStep, <1>1, PTL DEF Spec

\* Analysing a unit once more leaves the calls as they are.
THEOREM Repeatable == Spec => AnalysedAgain
<1> DEFINE A == (unit \in done) => CallFacts(graph') = CallFacts(graph)
<1>1. DoneInv /\ [Next]_vars => [A]_vars
  <2> SUFFICES ASSUME DoneInv, Next, unit \in done
               PROVE  CallFacts(graph') = CallFacts(graph)
    OBVIOUS
  <2>0. unit # NoUnit
    BY CallGraphAssumption DEF DoneInv, Inv, TypeOK
  <2>1. CASE Visit
    BY <2>1, VisitAgain DEF DoneInv
  <2>2. CASE Finish
    BY <2>2, FinishFacts DEF DoneInv, Finish
  <2>3. CASE Stop
    BY <2>3 DEF DoneInv, SameInv, Stop
  <2>4. ASSUME NEW f \in Files, Rewrite(f)
        PROVE  CallFacts(graph') = CallFacts(graph)
    BY <2>4 DEF Rewrite
  <2>5. ASSUME NEW u \in Units, Start(u)
        PROVE  CallFacts(graph') = CallFacts(graph)
    BY <2>0, <2>5 DEF Start
  <2> QED BY <2>1, <2>2, <2>3, <2>4, <2>5 DEF Next
<1> QED BY DoneInit, DoneStep, <1>1, PTL DEF Spec, AnalysedAgain

-----------------------------------------------------------------------------
(* A call is recorded at both its ends. *)

\* On the disk the other end of a call may be missing, for the rewriting of
\* the analysis that met it is under way or has been stopped.
DiskEnds ==
  \A x \in disk : x.rel \in CallRels =>
    \/ HasOtherEnd(disk, x)
    \/ \E u \in dirty : CallOf(u, x)
    \/ written # {} /\ CallOf(unit, x)

EndsInv == Inv /\ DiskEnds /\ CallsAtBothEnds

\* A call of a unit that has been traversed has its two ends.
LEMMA TraversedEnds ==
  ASSUME Inv, unit # NoUnit, ~Traversing, NEW x, CallOf(unit, x)
  PROVE  HasOtherEnd(graph, x)
<1>1. unit \in Units
  BY DEF Inv, TypeOK
<1>2. PICK i \in 1..Len(Traversal[unit]) : OfCall(Main[unit], Traversal[unit][i], x)
  BY DEF CallOf, OfCall
<1>3. i < next
  BY <1>1, EventType DEF Traversing, Inv, TypeOK
<1>4. Recorded(graph, Main[unit], Traversal[unit][i])
  BY <1>3 DEF Inv, UnitInv
<1>5. Main[unit] \in Files /\ Traversal[unit][i] \in Event
  BY <1>1, EventType
<1> QED BY <1>2, <1>4, <1>5, OtherEnd

\* A graph that grows keeps the ends it has.
LEMMA EndsGrow ==
  ASSUME NEW G, NEW H, G \subseteq H, NEW x, HasOtherEnd(G, x)
  PROVE  HasOtherEnd(H, x)
BY DEF HasOtherEnd

LEMMA DiskEndsStep == EndsInv /\ [Next]_vars /\ CallsAtBothEnds' => DiskEnds'
<1> SUFFICES ASSUME EndsInv, [Next]_vars, CallsAtBothEnds' PROVE DiskEnds'
  OBVIOUS
<1>1. CASE UNCHANGED vars
  BY <1>1 DEF EndsInv, DiskEnds, vars, HasOtherEnd, CallOf
<1>2. ASSUME NEW u \in Units, Start(u) PROVE DiskEnds'
  <2>1. written = {} /\ disk' = disk /\ dirty' = dirty
    BY <1>2, StartFacts DEF EndsInv, Start
  <2> QED BY <2>1 DEF EndsInv, DiskEnds
<1>3. CASE Visit
  <2>1. disk' = disk /\ dirty' = dirty /\ written' = written /\ unit' = unit
    BY <1>3 DEF Visit
  <2> QED BY <2>1 DEF EndsInv, DiskEnds
<1>4. CASE Finish
  <2>1. graph' = disk'
    BY <1>4 DEF Finish
  <2> QED BY <2>1 DEF DiskEnds, CallsAtBothEnds
<1>5. CASE Stop
  <2>1. graph' = disk'
    BY <1>5 DEF Stop
  <2> QED BY <2>1 DEF DiskEnds, CallsAtBothEnds
<1>6. ASSUME NEW f \in Files, Rewrite(f) PROVE DiskEnds'
  <2>1. /\ unit' = unit /\ dirty' = dirty /\ written' # {}
    BY <1>6 DEF Rewrite
  <2>2. disk \subseteq disk' /\ disk' \subseteq graph
    BY <1>6, RewriteFacts DEF EndsInv
  <2>3. ASSUME NEW x \in disk', x.rel \in CallRels
        PROVE  \/ HasOtherEnd(disk', x)
               \/ \E u \in dirty : CallOf(u, x)
               \/ CallOf(unit, x)
    <3>1. CASE x \in disk
      BY <2>2, <2>3, <3>1, EndsGrow DEF EndsInv, DiskEnds
    <3>2. CASE x \notin disk
      BY <2>2, <2>3, <3>2 DEF EndsInv, Inv, UnitInv
    <3> QED BY <3>1, <3>2
  <2> QED BY <2>1, <2>3 DEF DiskEnds
<1> QED BY <1>1, <1>2, <1>3, <1>4, <1>5, <1>6 DEF Next

LEMMA GraphEndsStep == EndsInv /\ [Next]_vars => CallsAtBothEnds'
<1> SUFFICES ASSUME EndsInv, [Next]_vars,
                    NEW x \in graph', x.rel \in CallRels
             PROVE  HasOtherEnd(graph', x) \/ \E u \in dirty' : CallOf(u, x)
  BY DEF CallsAtBothEnds
<1>a. Inv
  BY DEF EndsInv
<1>b. x \in graph => HasOtherEnd(graph, x) \/ \E u \in dirty : CallOf(u, x)
  BY DEF EndsInv, CallsAtBothEnds
<1> DEFINE Goal == HasOtherEnd(graph', x) \/ \E u \in dirty' : CallOf(u, x)
<1>1. CASE UNCHANGED vars
  BY <1>1, <1>b DEF vars
<1>2. ASSUME NEW u \in Units, Start(u) PROVE Goal
  <2>1. dirty' = dirty /\ graph \subseteq graph' /\ x \in graph
    BY <1>2, <1>a, StartFacts DEF Start, Extends
  <2> QED BY <2>1, <1>b, EndsGrow
<1>3. CASE Visit
  <2> DEFINE e == Traversal[unit][next]
             m == Main[unit]
  <2>1. /\ m \in Files /\ e \in Event /\ graph \subseteq graph'
        /\ Recorded(graph', m, e)
        /\ \A y \in graph' \ graph : y.rel \in CallRels => OfCall(m, e, y)
    BY <1>3, <1>a, VisitFacts
  <2>2. dirty' = dirty
    BY <1>3 DEF Visit
  <2> HIDE DEF e, m
  <2>3. CASE x \in graph
    BY <2>1, <2>2, <2>3, <1>b, EndsGrow
  <2>4. CASE x \notin graph
    <3>1. OfCall(m, e, x)
      BY <2>1, <2>4
    <3> QED BY <2>1, <3>1, OtherEnd
  <2> QED BY <2>3, <2>4
<1>4. CASE Finish
  <2>1. /\ graph = disk /\ graph' = disk /\ dirty' = dirty \ {unit}
        /\ unit # NoUnit /\ ~Traversing
    BY <1>4, <1>a, FinishFacts DEF Finish
  <2>2. CallOf(unit, x) => HasOtherEnd(graph, x)
    BY <1>a, <2>1, TraversedEnds
  <2> QED BY <1>b, <2>1, <2>2
<1>5. CASE Stop
  <2>1. /\ graph' = disk /\ dirty \subseteq dirty'
        /\ written # {} => unit \in dirty'
    BY <1>5 DEF Stop
  <2> QED BY <2>1 DEF EndsInv, DiskEnds
<1>6. ASSUME NEW f \in Files, Rewrite(f) PROVE Goal
  <2>1. graph' = graph /\ dirty' = dirty
    BY <1>6 DEF Rewrite
  <2> QED BY <2>1, <1>b
<1> QED BY <1>1, <1>2, <1>3, <1>4, <1>5, <1>6 DEF Next

LEMMA EndsInit == Init => EndsInv
BY InvInit DEF Init, EndsInv, DiskEnds, CallsAtBothEnds

LEMMA EndsStep == EndsInv /\ [Next]_vars => EndsInv'
BY InvStep, GraphEndsStep, DiskEndsStep DEF EndsInv

\* Caller and callee agree on every call, but for the units whose rewriting
\* has been stopped and that have not been analysed again.
THEOREM BothEnds == Spec => []CallsAtBothEnds
<1>1. EndsInv => CallsAtBothEnds
  BY DEF EndsInv
<1> QED BY EndsInit, EndsStep, <1>1, PTL DEF Spec

-----------------------------------------------------------------------------
(* The callee of a call to another file has a declaration there, of the     *)
(* same mangled name.  That it is declared goes with the call, as the other *)
(* end does; that it has that name is because functions are declared under  *)
(* their signatures.                                                        *)

\* What H has more than G declares functions under their signatures.
Plain(G, H) == \A x \in H \ G : x.rel = "declared" => x.to.mangled = x.of

LEMMA PlainTwice ==
  ASSUME NEW G, NEW H, NEW K, Plain(G, H), Plain(H, K)
  PROVE  Plain(G, K)
BY DEF Plain

\* Inserting the declaration of a function under its signature, or another
\* fact, is plain.
LEMMA InsertPlain ==
  ASSUME NEW G, NEW x, x.rel = "declared" => x.to.mangled = x.of
  PROVE  Plain(G, Insert(G, x)) /\ Plain(G, G \cup {x}) /\ Plain(G, G)
BY DEF Plain, Insert

LEMMA DeclarePlain ==
  ASSUME NEW G, NEW f, NEW s
  PROVE  Plain(G, Declare(G, f, s, s))
<1> DEFINE x == FactOf(f, "declared", s, s, s, f)
<1>1. x.to.mangled = x.of
  BY DEF FactOf
<1>2. Declare(G, f, s, s) = Insert(G, x)
  BY DEF Declare
<1> HIDE DEF x
<1> QED BY <1>1, <1>2, InsertPlain

\* Definitions declare nothing.
LEMMA DefinePlain ==
  ASSUME NEW G, NEW c
  PROVE  /\ Plain(G, AddDefinition(G, c))
         /\ Plain(G, AddDefined(G, c))
         /\ Plain(G, Define(G, c))
<1>1. ASSUME NEW H PROVE Plain(H, AddDefinition(H, c))
  <2> DEFINE x == FactOf(c.decl, "definition", c.sign, c.sign, c.sign, c.file)
  <2>1. x.rel # "declared"
    BY DEF FactOf
  <2>2. AddDefinition(H, c) = H \cup {x}
    BY DEF AddDefinition
  <2> HIDE DEF x
  <2> QED BY <2>1, <2>2, InsertPlain
<1>2. Plain(G, AddDefined(G, c))
  <2> DEFINE x == FactOf(c.file, "defined", c.sign, c.sign, c.mangled, c.decl)
             H == Insert(G, x)
  <2>1. x.rel # "declared"
    BY DEF FactOf
  <2>2. AddDefined(G, c) = AddDefinitionIfDeclared(H, c)
    BY DEF AddDefined
  <2>3. AddDefinitionIfDeclared(H, c) \in {H, AddDefinition(H, c)}
    BY DEF AddDefinitionIfDeclared
  <2> HIDE DEF x
  <2>4. Plain(G, H)
    BY <2>1, InsertPlain
  <2> HIDE DEF H
  <2>5. Plain(H, AddDefinition(H, c))
    BY <1>1
  <2> QED BY <2>2, <2>3, <2>4, <2>5, PlainTwice
<1>3. Plain(G, G)
  BY DEF Plain
<1> QED BY <1>1, <1>2, <1>3 DEF Define

\* The event i of the unit u declares functions under their signatures.
LEMMA EffectPlain ==
  ASSUME NEW u \in Units, NEW i \in 1..Len(Traversal[u]), NEW G
  PROVE  Plain(G, Effect(G, Main[u], Traversal[u][i]))
<1> DEFINE e == Traversal[u][i]
           m == Main[u]
           c == e.fct
           t == e.callee
<1>0. e \in Event /\ c \in Fct /\ t \in Fct /\ m \in Files
  BY EventType DEF Event
<1>names. IF e.kind # "call" THEN c.mangled = c.sign ELSE t.mangled = t.sign
  BY NamesAssumption
<1> HIDE DEF e, m
<1>1. CASE e.kind = "declaration"
  <2>1. Effect(G, m, e) = Declare(G, c.decl, c.sign, c.sign)
    BY <1>1, <1>names DEF Effect
  <2> QED BY <2>1, DeclarePlain DEF e, m
<1>2. CASE e.kind = "definition"
  <2> DEFINE G1 == Define(G, c)
             G2 == Declare(G1, c.decl, c.sign, c.sign)
  <2>1. Effect(G, m, e) = AddDefinition(G2, c)
    BY <1>2, <1>names DEF Effect, VisitDefinition
  <2>2. Plain(G, G1)
    BY DefinePlain
  <2> HIDE DEF G1
  <2>3. Plain(G1, G2)
    BY DeclarePlain
  <2> HIDE DEF G2
  <2>4. Plain(G2, AddDefinition(G2, c))
    BY DefinePlain
  <2> QED BY <2>1, <2>2, <2>3, <2>4, PlainTwice DEF e, m
<1>3. CASE e.kind = "call"
  <2> DEFINE G1 == IF c.file = m THEN Define(G, c) ELSE AddDefined(G, c)
             G2 == Declare(G1, t.file, t.sign, t.sign)
             x == CallerFact(c, t)
             y == CalleeFact(m, c, t)
             H == Insert(G2, x)
  <2>1. Effect(G, m, e) = IF Recursive(c, t) THEN G2 ELSE Insert(H, y)
    BY <1>3, <1>names DEF Effect, AddFunctionCall
  <2>2. x.rel # "declared" /\ y.rel # "declared"
    BY <1>0, CallFactsOfCall, RelsApart
  <2>3. Plain(G, G1)
    BY DefinePlain
  <2> HIDE DEF G1, x, y
  <2>4. Plain(G1, G2)
    BY DeclarePlain
  <2> HIDE DEF G2
  <2>5. Plain(G2, H)
    BY <2>2, InsertPlain
  <2> HIDE DEF H
  <2>6. Plain(H, Insert(H, y))
    BY <2>2, InsertPlain
  <2>7. Plain(G, G2) /\ Plain(G, Insert(H, y))
    BY <2>3, <2>4, <2>5, <2>6, PlainTwice
  <2> QED BY <2>1, <2>7 DEF e, m
<1> QED BY <1>0, <1>1, <1>2, <1>3 DEF Event

\* Nor does looking for declarations again.
LEMMA RelinkPlain ==
  ASSUME NEW G, NEW new
  PROVE  Plain(G, Relink(G, new))
<1>1. ASSUME NEW x \in Relink(G, new) \ G PROVE x.rel # "declared"
  <2>1. PICK y \in G : x = FactOf(y.to.file, "definition", y.of, y.of, y.of, y.in)
    BY DEF Relink
  <2> QED BY <2>1 DEF FactOf
<1> QED BY <1>1 DEF Plain

-----------------------------------------------------------------------------
\* Functions are declared under their signatures, and the callee of another
\* file is listed under that name, or is a case of NamedAfterCaller.
NamesInv ==
  /\ \A x \in graph \cup disk : x.rel = "declared" => x.to.mangled = x.of
  /\ \A x \in graph \cup disk : x.rel = "extcallee" =>
       x.to.mangled = x.to.sign \/ NamedAfterCaller(x)

\* The names of a callee.
LEMMA CalleeNames ==
  ASSUME NEW u \in Units, NEW i \in 1..Len(Traversal[u]), NEW x,
         OfCall(Main[u], Traversal[u][i], x), x.rel = "extcallee"
  PROVE  x.to.mangled = x.to.sign \/ NamedAfterCaller(x)
<1> DEFINE e == Traversal[u][i]
           m == Main[u]
           c == e.fct
           t == e.callee
<1>0. e \in Event /\ e.kind = "call" /\ ~Recursive(c, t)
  BY EventType DEF OfCall
<1>1. t.mangled = t.sign /\ (t.file = m => c.mangled = c.sign)
  BY <1>0, NamesAssumption
<1>2. x = CallerFact(c, t) \/ x = CalleeFact(m, c, t)
  BY DEF OfCall
<1> HIDE DEF e, m
<1>3. x = CalleeFact(m, c, t) /\ ~Collocated(c, t)
  BY <1>2 DEF CallerFact, CalleeFact, FactOf
<1>4. /\ x.in = c.file /\ x.of = c.sign /\ x.to.sign = t.sign /\ x.to.file = t.file
      /\ x.to.mangled = IF c.file # m /\ t.file = m THEN c.mangled ELSE t.mangled
  BY <1>3 DEF CalleeFact, FactOf
<1> QED BY <1>1, <1>4 DEF NamedAfterCaller, m

LEMMA NamesStep == Inv /\ NamesInv /\ [Next]_vars => NamesInv'
<1> SUFFICES ASSUME Inv, NamesInv, [Next]_vars PROVE NamesInv'
  OBVIOUS
<1> DEFINE Ok(x) == /\ x.rel = "declared" => x.to.mangled = x.of
                    /\ x.rel = "extcallee" =>
                         x.to.mangled = x.to.sign \/ NamedAfterCaller(x)
<1>0. ASSUME \A x \in graph' \cup disk' : Ok(x) PROVE NamesInv'
  BY <1>0 DEF NamesInv, NamedAfterCaller
<1>a. \A x \in graph \cup disk : Ok(x)
  BY DEF NamesInv
<1>b. "extcallee" \in CallRels
  BY DEF CallRels
<1>1. CASE UNCHANGED vars
  BY <1>0, <1>1, <1>a DEF vars
<1>2. ASSUME NEW u \in Units, Start(u) PROVE NamesInv'
  <2>1. Plain(graph, graph') /\ Extends(graph, graph', opened') /\ disk' = disk
    <3>1. graph' = Relink(graph, OpenWith(disk, {Main[u]}))
      BY <1>2 DEF Start, Inv, TypeOK
    <3> QED BY <1>2, <3>1, RelinkPlain, StartFacts DEF Start
  <2>2. \A x \in graph' : Ok(x)
    BY <1>a, <1>b, <2>1 DEF Plain, Extends
  <2> QED BY <1>0, <1>a, <2>1, <2>2
<1>3. CASE Visit
  <2> DEFINE e == Traversal[unit][next]
             m == Main[unit]
             new == OpenWith(graph, FilesOf(e)) \ opened
             G == Relink(graph, new)
  <2>1. /\ unit \in Units /\ next \in 1..Len(Traversal[unit])
        /\ \A x \in graph' \ graph : x.rel \in CallRels => OfCall(m, e, x)
    BY <1>3, VisitFacts
  <2>2. graph' = Effect(G, m, e) /\ disk' = disk
    BY <1>3 DEF Visit
  <2>3. Plain(graph, G)
    BY RelinkPlain
  <2> HIDE DEF G
  <2>4. Plain(graph, graph')
    BY <2>1, <2>2, <2>3, EffectPlain, PlainTwice
  <2>5. ASSUME NEW x \in graph' \ graph PROVE Ok(x)
    <3>1. x.rel = "declared" => x.to.mangled = x.of
      BY <2>4, <2>5 DEF Plain
    <3>2. x.rel = "extcallee" => x.to.mangled = x.to.sign \/ NamedAfterCaller(x)
      BY <1>b, <2>1, <2>5, CalleeNames
    <3> QED BY <3>1, <3>2
  <2> QED BY <1>0, <1>a, <2>2, <2>5
<1>4. CASE Finish \/ Stop
  <2>1. graph' = disk /\ disk' = disk
    BY <1>4 DEF Finish, Stop
  <2> QED BY <1>0, <1>a, <2>1
<1>5. ASSUME NEW f \in Files, Rewrite(f) PROVE NamesInv'
  <2>1. graph' = graph /\ disk' \subseteq graph
    BY <1>5, RewriteFacts DEF Rewrite
  <2> QED BY <1>0, <1>a, <2>1
<1> QED BY <1>1, <1>2, <1>3, <1>4, <1>5 DEF Next

-----------------------------------------------------------------------------
\* The callee x of another file is declared there, or else the analysis that
\* met the call is rewriting the files, or was stopped then.
HasDeclaration(G, x) == Declared(G, x.to.file, x.to.sign)

GraphDeclared ==
  \A x \in graph : x.rel = "extcallee" =>
    HasDeclaration(graph, x) \/ \E u \in dirty : CallOf(u, x)

DiskDeclared ==
  \A x \in disk : x.rel = "extcallee" =>
    \/ HasDeclaration(disk, x)
    \/ \E u \in dirty : CallOf(u, x)
    \/ written # {} /\ CallOf(unit, x)

CalleesInv == Inv /\ NamesInv /\ GraphDeclared /\ DiskDeclared

LEMMA DeclarationsGrow ==
  ASSUME NEW G, NEW H, G \subseteq H, NEW x, HasDeclaration(G, x)
  PROVE  HasDeclaration(H, x)
BY DEF HasDeclaration, Declared

\* A recorded call has declared its callee.
LEMMA CalleeDeclared ==
  ASSUME NEW G, NEW m \in Files, NEW e \in Event, NEW x, x.rel = "extcallee",
         OfCall(m, e, x), Recorded(G, m, e)
  PROVE  HasDeclaration(G, x)
<1> DEFINE c == e.fct
           t == e.callee
<1>1. c \in Fct /\ t \in Fct
  BY DEF Event
<1>2. x = CallerFact(c, t) \/ x = CalleeFact(m, c, t)
  BY DEF OfCall
<1>3. x = CalleeFact(m, c, t)
  BY <1>2 DEF CallerFact, FactOf
<1>4. x.to.file = t.file /\ x.to.sign = t.sign
  BY <1>1, <1>3, CallFactsOfCall
<1> QED BY <1>4 DEF HasDeclaration, Recorded, OfCall

LEMMA TraversedDeclared ==
  ASSUME Inv, unit # NoUnit, ~Traversing, NEW x, x.rel = "extcallee", CallOf(unit, x)
  PROVE  HasDeclaration(graph, x)
<1>1. unit \in Units
  BY DEF Inv, TypeOK
<1>2. PICK i \in 1..Len(Traversal[unit]) : OfCall(Main[unit], Traversal[unit][i], x)
  BY DEF CallOf, OfCall
<1>3. i < next
  BY <1>1, EventType DEF Traversing, Inv, TypeOK
<1>4. Recorded(graph, Main[unit], Traversal[unit][i])
  BY <1>3 DEF Inv, UnitInv
<1>5. Main[unit] \in Files /\ Traversal[unit][i] \in Event
  BY <1>1, EventType
<1> QED BY <1>2, <1>4, <1>5, CalleeDeclared

LEMMA DeclaredStep == CalleesInv /\ [Next]_vars => GraphDeclared' /\ DiskDeclared'
<1> SUFFICES ASSUME CalleesInv, [Next]_vars PROVE GraphDeclared' /\ DiskDeclared'
  OBVIOUS
<1>0. Inv /\ GraphDeclared /\ DiskDeclared /\ "extcallee" \in CallRels
  BY DEF CalleesInv, CallRels
<1>1. CASE UNCHANGED vars
  BY <1>0, <1>1 DEF GraphDeclared, DiskDeclared, vars, HasDeclaration, Declared, CallOf
<1>2. ASSUME NEW u \in Units, Start(u) PROVE GraphDeclared' /\ DiskDeclared'
  <2>1. /\ disk' = disk /\ dirty' = dirty /\ written = {} /\ graph \subseteq graph'
        /\ \A x \in graph' \ graph : x.rel # "extcallee"
    BY <1>0, <1>2, StartFacts DEF Start, Extends
  <2>2. GraphDeclared'
    BY <1>0, <2>1, DeclarationsGrow DEF GraphDeclared
  <2> QED BY <1>0, <2>1, <2>2 DEF DiskDeclared
<1>3. CASE Visit
  <2> DEFINE e == Traversal[unit][next]
             m == Main[unit]
  <2>1. /\ m \in Files /\ e \in Event /\ graph \subseteq graph'
        /\ Recorded(graph', m, e)
        /\ \A y \in graph' \ graph : y.rel \in CallRels => OfCall(m, e, y)
    BY <1>0, <1>3, VisitFacts
  <2>2. disk' = disk /\ dirty' = dirty /\ written' = written /\ unit' = unit
    BY <1>3 DEF Visit
  <2> HIDE DEF e, m
  <2>3. ASSUME NEW x \in graph', x.rel = "extcallee"
        PROVE  HasDeclaration(graph', x) \/ \E u \in dirty : CallOf(u, x)
    <3>1. CASE x \in graph
      BY <1>0, <2>1, <2>3, <3>1, DeclarationsGrow DEF GraphDeclared
    <3>2. CASE x \notin graph
      BY <1>0, <2>1, <2>3, <3>2, CalleeDeclared
    <3> QED BY <3>1, <3>2
  <2> QED BY <1>0, <2>2, <2>3 DEF GraphDeclared, DiskDeclared
<1>4. CASE Finish
  <2>1. /\ graph = disk /\ graph' = disk /\ disk' = disk /\ dirty' = dirty \ {unit}
        /\ unit # NoUnit /\ ~Traversing
    BY <1>0, <1>4, FinishFacts DEF Finish
  <2>2. \A x \in graph : x.rel = "extcallee" /\ CallOf(unit, x) => HasDeclaration(graph, x)
    BY <1>0, <2>1, TraversedDeclared
  <2>3. GraphDeclared'
    BY <1>0, <2>1, <2>2 DEF GraphDeclared
  <2> QED BY <2>1, <2>3 DEF GraphDeclared, DiskDeclared
<1>5. CASE Stop
  <2>1. /\ graph' = disk /\ disk' = disk /\ dirty \subseteq dirty'
        /\ written # {} => unit \in dirty'
    BY <1>5 DEF Stop
  <2>2. GraphDeclared'
    BY <1>0, <2>1 DEF GraphDeclared, DiskDeclared
  <2> QED BY <2>1, <2>2 DEF GraphDeclared, DiskDeclared
<1>6. ASSUME NEW f \in Files, Rewrite(f) PROVE GraphDeclared' /\ DiskDeclared'
  <2>1. graph' = graph /\ unit' = unit /\ dirty' = dirty /\ written' # {}
    BY <1>6 DEF Rewrite
  <2>2. disk \subseteq disk' /\ disk' \subseteq graph
    BY <1>0, <1>6, RewriteFacts
  <2>3. ASSUME NEW x \in disk', x.rel = "extcallee"
        PROVE  \/ HasDeclaration(disk', x)
               \/ \E u \in dirty : CallOf(u, x)
               \/ CallOf(unit, x)
    <3>1. CASE x \in disk
      BY <1>0, <2>2, <2>3, <3>1, DeclarationsGrow DEF DiskDeclared
    <3>2. CASE x \notin disk
      BY <1>0, <2>2, <2>3, <3>2 DEF Inv, UnitInv
    <3> QED BY <3>1, <3>2
  <2> QED BY <1>0, <2>1, <2>3 DEF GraphDeclared, DiskDeclared
<1> QED BY <1>1, <1>2, <1>3, <1>4, <1>5, <1>6 DEF Next

\* Every callee of another file is found there under the name the caller's
\* file gives it, but for NamedAfterCaller and for the units whose rewriting
\* has been stopped and that have not been analysed again (CalleesNamed).
THEOREM CalleesFound == Spec => []CalleesNamed
<1>1. Init => CalleesInv
  BY InvInit DEF Init, CalleesInv, NamesInv, GraphDeclared, DiskDeclared
<1>2. CalleesInv /\ [Next]_vars => CalleesInv'
  BY InvStep, NamesStep, DeclaredStep DEF CalleesInv
<1>3. CalleesInv => CalleesNamed
  BY DEF CalleesInv, NamesInv, GraphDeclared, HasDeclaration, Declared, CalleesNamed
<1> QED BY <1>1, <1>2, <1>3, PTL DEF Spec
=============================================================================

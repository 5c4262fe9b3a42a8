---------------------------- MODULE RecordsProofs ----------------------------
(***************************************************************************)
(* Proofs about Records, for every set of files, records, methods and      *)
(* units.                                                                  *)
(***************************************************************************)
EXTENDS Records, TLAPS

-----------------------------------------------------------------------------
(* The facts that are registered, and what inserting them does.            *)

\* What the facts of each relation look like.
Shaped ==
  {x \in Fact :
     /\ x.rel = "record" => x.of \in Names /\ x.to = x.of /\ x.at \in {x.in, NoPlace}
     /\ x.rel = "candidate" =>
          x.of \in Names /\ x.to \in Sign /\ x.to.rec \in Names /\ x.at \in Files
     /\ x.rel = "declared" =>
          /\ x.of \in Sign /\ x.to \in {x.of.rec, NoRecord}
          /\ x.to # NoRecord => x.at \in {x.in, NoPlace}
     /\ x.rel \in {"inherits", "inherited", "calls", "called"} =>
          x.of \in Names /\ x.to \in Names
     /\ x.rel \in {"redeclared", "redeclaration"} => x.of \in Sign /\ x.to \in Sign}

\* A fact says what it is made of.
LEMMA FactOfFields ==
  ASSUME NEW f, NEW r, NEW x, NEW y, NEW g
  PROVE  /\ FactOf(f, r, x, y, g).in = f /\ FactOf(f, r, x, y, g).rel = r
         /\ FactOf(f, r, x, y, g).of = x /\ FactOf(f, r, x, y, g).to = y
         /\ FactOf(f, r, x, y, g).at = g
BY DEF FactOf

LEMMA FactOfType ==
  ASSUME NEW f \in Files, NEW r \in Rels, NEW x \in Names \cup Sign,
         NEW y \in Names \cup Sign \cup {NoRecord}, NEW g \in Files \cup {NoPlace}
  PROVE  FactOf(f, r, x, y, g) \in Fact
BY DEF FactOf, Fact

LEMMA RelsType ==
  /\ Rels = {"record", "method", "candidate", "declared", "inherits", "inherited",
             "redeclared", "redeclaration", "calls", "called"}
  /\ DOMAIN Other = {"inherits", "inherited", "redeclared", "redeclaration", "calls", "called"}
BY DEF Rels, Other

LEMMA SignOfType ==
  ASSUME NEW r \in Names \cup {NoRecord}, NEW m \in Methods
  PROVE  SignOf(r, m) \in Sign /\ SignOf(r, m).rec = r /\ SignOf(r, m).name = m
BY DEF SignOf, Sign

LEMMA SignFields ==
  ASSUME NEW s \in Sign
  PROVE  /\ s.rec \in Names \cup {NoRecord} /\ s.name \in Methods
         /\ s = SignOf(s.rec, s.name)
BY DEF SignOf, Sign

\* Entries are equal or not whichever comes first.
LEMMA SameEntryFacts ==
  /\ \A x : SameEntry(x, x)
  /\ \A x, y : SameEntry(x, y) <=> SameEntry(y, x)
  /\ \A x, y, z : SameEntry(x, y) /\ SameEntry(y, z) => SameEntry(x, z)
BY DEF SameEntry

\* Inserting entries loses nothing, adds nothing else, leaves an entry equal
\* to each of them, and adds none to an entry equal to it.
LEMMA InsertFacts ==
  ASSUME NEW G, NEW X
  PROVE  /\ G \subseteq Insert(G, X) /\ Insert(G, X) \subseteq G \cup X
         /\ \A x \in X : Has(Insert(G, X), x)
         /\ \A x \in Insert(G, X) \ G : \A y \in G : ~SameEntry(x, y)
         /\ (\A x \in X : Has(G, x)) => Insert(G, X) = G
BY SameEntryFacts DEF Insert, Has

LEMMA HasGrows ==
  ASSUME NEW G, NEW H, G \subseteq H, NEW x, Has(G, x)
  PROVE  Has(H, x)
BY DEF Has

\* H extends G with well formed facts of the files F.
Extends(G, H, F) ==
  /\ G \subseteq H /\ H \subseteq Shaped
  /\ \A x \in H \ G : x.in \in F /\ \A y \in G : ~SameEntry(x, y)

LEMMA ExtendsIs ==
  ASSUME NEW G, NEW H, NEW F, Extends(G, H, F)
  PROVE  G \subseteq H /\ H \in SUBSET Shaped
BY DEF Extends

LEMMA ExtendsInsert ==
  ASSUME NEW G \in SUBSET Shaped, NEW X \in SUBSET Shaped, NEW F,
         \A x \in X : x.in \in F
  PROVE  Extends(G, Insert(G, X), F)
BY InsertFacts DEF Extends

LEMMA ExtendsTwice ==
  ASSUME NEW G, NEW H, NEW K, NEW F, Extends(G, H, F), Extends(H, K, F)
  PROVE  Extends(G, K, F)
BY DEF Extends

-----------------------------------------------------------------------------
(* The visits.                                                             *)

LEMMA EventType ==
  ASSUME NEW u \in Units, NEW i \in 1 .. Len(Traversal[u])
  PROVE  /\ Traversal[u][i] \in RecordVisit \cup FctVisit \cup CallVisit
         /\ Traversal[u][i] \in Events(u)
BY RecordsAssumption DEF Events

LEMMA KindType ==
  /\ \A e \in RecordVisit :
       /\ e.kind = "record" /\ e.name \in Names /\ e.file \in Files
       /\ e.bases \subseteq Base /\ e.methods \subseteq Methods
  /\ \A e \in FctVisit : e.kind = "function" /\ e.fct \in Fct
  /\ \A e \in CallVisit :
       e.kind = "call" /\ e.caller \in Fct /\ e.place \in Files /\ e.callee \in Fct
  /\ \A c \in Fct : c.rec \in Names \cup {NoRecord} /\ c.name \in Methods /\ c.file \in Files
  /\ \A b \in Base : b.name \in Names /\ b.file \in Files /\ b.virtual \subseteq Methods
BY DEF RecordVisit, FctVisit, CallVisit, Fct, Base

LEMMA HomeType == \A f, g : Home(f, g) \in {f, g}
BY DEF Home

\* What the visit of a record registers.
RecordFacts(e) ==
  {RecordAt(e.file, e.name, e.file)}
    \cup {FactOf(e.file, "method", e.name, SignOf(e.name, m), e.file) : m \in e.methods}
    \cup UNION {Inheritance(e, b) : b \in e.bases}

LEMMA InheritanceType ==
  ASSUME NEW e \in RecordVisit, NEW b \in e.bases
  PROVE  Inheritance(e, b) \subseteq Shaped /\ \A x \in Inheritance(e, b) : x.in \in FilesOf(e)
<1>1. /\ e.kind = "record" /\ e.name \in Names /\ e.file \in Files
      /\ b.name \in Names /\ b.file \in Files /\ b.virtual \subseteq Methods
  BY KindType
<1>2. e.file \in FilesOf(e) /\ b.file \in FilesOf(e)
  BY <1>1 DEF FilesOf
<1> DEFINE r == RecordAt(b.file, b.name, b.file)
           x == FactOf(e.file, "inherits", e.name, b.name, b.file)
           y == FactOf(b.file, "inherited", b.name, e.name, e.file)
           c(m) == FactOf(e.file, "candidate", e.name, SignOf(b.name, m), b.file)
<1>3. r \in Shaped /\ r.in = b.file
  BY <1>1, FactOfType, FactOfFields, RelsType DEF Shaped, RecordAt
<1>4. x \in Shaped /\ x.in = e.file
  BY <1>1, FactOfType, FactOfFields, RelsType DEF Shaped
<1>5. y \in Shaped /\ y.in = b.file
  <2>1. y \in Fact
    BY <1>1, FactOfType, RelsType
  <2>2. /\ y.in = b.file /\ y.rel = "inherited" /\ y.of = b.name /\ y.to = e.name
    BY FactOfFields
  <2> HIDE DEF y
  <2> QED BY <1>1, <2>1, <2>2 DEF Shaped
<1>6. ASSUME NEW m \in b.virtual PROVE c(m) \in Shaped /\ c(m).in = e.file
  <2>1. SignOf(b.name, m) \in Sign /\ SignOf(b.name, m).rec = b.name
    BY <1>1, SignOfType
  <2> HIDE DEF c
  <2>2. c(m) \in Fact
    BY <1>1, <2>1, FactOfType, RelsType DEF c
  <2> QED BY <1>1, <2>1, <2>2, FactOfFields DEF Shaped, c
<1>7. Inheritance(e, b) = {r, x, y} \cup {c(m) : m \in b.virtual}
  BY DEF Inheritance
<1> HIDE DEF r, x, y, c
<1> QED BY <1>2, <1>3, <1>4, <1>5, <1>6, <1>7

LEMMA RecordFactsType ==
  ASSUME NEW e \in RecordVisit
  PROVE  RecordFacts(e) \subseteq Shaped /\ \A x \in RecordFacts(e) : x.in \in FilesOf(e)
<1>1. e.kind = "record" /\ e.name \in Names /\ e.file \in Files /\ e.methods \subseteq Methods
  BY KindType
<1>2. e.file \in FilesOf(e)
  BY <1>1 DEF FilesOf
<1> DEFINE r == RecordAt(e.file, e.name, e.file)
           d(m) == FactOf(e.file, "method", e.name, SignOf(e.name, m), e.file)
<1>3. r \in Shaped /\ r.in = e.file
  BY <1>1, FactOfType, FactOfFields, RelsType DEF Shaped, RecordAt
<1>4. ASSUME NEW m \in e.methods PROVE d(m) \in Shaped /\ d(m).in = e.file
  <2>1. SignOf(e.name, m) \in Sign
    BY <1>1, SignOfType
  <2> HIDE DEF d
  <2>2. d(m) \in Fact
    BY <1>1, <2>1, FactOfType, RelsType DEF d
  <2> QED BY <1>1, <2>1, <2>2, FactOfFields DEF Shaped, d
<1>5. RecordFacts(e) = {r} \cup {d(m) : m \in e.methods} \cup UNION {Inheritance(e, b) : b \in e.bases}
  BY DEF RecordFacts
<1> HIDE DEF r, d
<1> QED BY <1>2, <1>3, <1>4, <1>5, InheritanceType

LEMMA VisitRecordFacts ==
  ASSUME NEW G \in SUBSET Shaped, NEW e \in RecordVisit
  PROVE  /\ Extends(G, VisitRecord(G, e), FilesOf(e))
         /\ VisitRecord(G, e) = Insert(G, RecordFacts(e))
<1>1. VisitRecord(G, e) = Insert(G, RecordFacts(e))
  BY DEF VisitRecord, RecordFacts
<1> QED BY <1>1, RecordFactsType, ExtendsInsert

\* What the declaration of c registers of c itself.
DeclarationOf(c) == FactOf(c.file, "declared", SignOf(c.rec, c.name), c.rec, c.file)

LEMMA DeclarationType ==
  ASSUME NEW c \in Fct
  PROVE  /\ DeclarationOf(c) \in Shaped /\ DeclarationOf(c).in = c.file
         /\ DeclarationOf(c).rel = "declared" /\ DeclarationOf(c).of = SignOf(c.rec, c.name)
         /\ DeclarationOf(c).to = c.rec
<1>1. /\ c.rec \in Names \cup {NoRecord} /\ c.name \in Methods /\ c.file \in Files
      /\ SignOf(c.rec, c.name) \in Sign /\ SignOf(c.rec, c.name).rec = c.rec
  BY KindType, SignOfType
<1>2. DeclarationOf(c) \in Fact
  BY <1>1, FactOfType, RelsType DEF DeclarationOf
<1>3. /\ DeclarationOf(c).in = c.file /\ DeclarationOf(c).rel = "declared"
      /\ DeclarationOf(c).of = SignOf(c.rec, c.name) /\ DeclarationOf(c).to = c.rec
      /\ DeclarationOf(c).at = c.file
  BY FactOfFields DEF DeclarationOf
<1> QED BY <1>1, <1>2, <1>3 DEF Shaped

\* A method has a record.
LEMMA MethodOfRecord ==
  ASSUME NEW G \in SUBSET Shaped, NEW f, NEW s, IsMethod(G, f, s)
  PROVE  s \in Sign /\ s.rec \in Names
<1>1. PICK x \in G : /\ x.in = f /\ x.rel = "declared" /\ x.of = s
                     /\ x.to \notin {NoRecord, Builtin}
  BY DEF IsMethod
<1>2. s \in Sign /\ x.to = s.rec
  BY <1>1 DEF Shaped
<1> QED BY <1>1, <1>2, SignFields

\* The candidates that a method redeclares are candidates of methods.
LEMMA RedeclaredFacts ==
  ASSUME NEW G \in SUBSET Shaped, NEW f \in Files, NEW s \in Sign
  PROVE  \A x \in Redeclared(G, f, s) :
           /\ x \in G /\ x.rel = "candidate" /\ x.to.name = s.name
           /\ x \in FirstCandidates(G, s.name)
           /\ IsMethod(G, x.in, SignOf(x.of, s.name))
<1> DEFINE C == FirstCandidates(G, s.name)
           Of(g, t) == {x \in C : x.in = g /\ x.of = t.rec /\ IsMethod(G, g, t)}
           S == {x \in C : IsMethod(G, x.in, SignOf(x.of, s.name))}
<1>1. \A x \in C : x \in G /\ x.rel = "candidate" /\ x.to.name = s.name /\ x.to \in Sign
  BY DEF FirstCandidates, Shaped
<1>2. Of(f, s) \subseteq S
  BY SignFields
<1>3. ASSUME NEW y \in S PROVE Of(Home(y.in, y.at), y.to) \subseteq S
  BY <1>1, SignFields
<1>4. Redeclared(G, f, s) =
        {x \in C : \A T \in SUBSET C :
           (Of(f, s) \subseteq T /\ \A y \in T : Of(Home(y.in, y.at), y.to) \subseteq T) => x \in T}
  BY DEF Redeclared
<1>5. S \in SUBSET C
  OBVIOUS
<1> HIDE DEF C, S, Of
<1>6. Redeclared(G, f, s) \subseteq S
  BY <1>2, <1>3, <1>4, <1>5
<1> QED BY <1>1, <1>5, <1>6 DEF S, C

\* What is registered when the candidate x is redeclared: the virtual method,
\* and the two ends of the relation.
VirtualOf(x) == FactOf(Home(x.in, x.at), "declared", x.to, NoRecord, x.at)
RedeclaredBy(x) == FactOf(x.in, "redeclared", SignOf(x.of, x.to.name), x.to, x.at)
RedeclarationAt(x, g) ==
  FactOf(Home(x.in, x.at), "redeclaration", x.to, SignOf(x.of, x.to.name), g)

LEMMA RedeclarationFacts ==
  ASSUME NEW G \in SUBSET Shaped, NEW x \in G, x.rel = "candidate"
  PROVE  /\ Redeclaration(G, x) =
              {VirtualOf(x), RedeclaredBy(x)} \cup
                {RedeclarationAt(x, d.at) :
                   d \in {y \in G : /\ y.in = x.in /\ y.rel = "declared"
                                    /\ y.of = SignOf(x.of, x.to.name)}}
         /\ Redeclaration(G, x) \subseteq Shaped
         /\ \A y \in Redeclaration(G, x) : y.in \in {x.in, x.at}
<1> DEFINE s == SignOf(x.of, x.to.name)
           D == {y \in G : y.in = x.in /\ y.rel = "declared" /\ y.of = s}
<1>1. /\ x.in \in Files /\ x.of \in Names /\ x.to \in Sign /\ x.at \in Files
      /\ x.to.name \in Methods /\ Home(x.in, x.at) \in {x.in, x.at}
  BY SignFields, HomeType DEF Shaped, Fact
<1>2. s \in Sign
  BY <1>1, SignOfType
<1>3. Redeclaration(G, x) = {VirtualOf(x), RedeclaredBy(x)} \cup {RedeclarationAt(x, d.at) : d \in D}
  BY DEF Redeclaration, VirtualOf, RedeclaredBy, RedeclarationAt
<1>4. VirtualOf(x) \in Shaped /\ VirtualOf(x).in = Home(x.in, x.at)
  <2>1. VirtualOf(x) \in Fact
    BY <1>1, FactOfType, RelsType DEF VirtualOf
  <2> QED BY <1>1, <2>1, FactOfFields DEF Shaped, VirtualOf
<1> HIDE DEF s
<1>5. RedeclaredBy(x) \in Shaped /\ RedeclaredBy(x).in = x.in
  <2>1. RedeclaredBy(x) \in Fact
    BY <1>1, <1>2, FactOfType, RelsType DEF RedeclaredBy, s
  <2> QED BY <1>1, <1>2, <2>1, FactOfFields DEF Shaped, RedeclaredBy, s
<1>6. ASSUME NEW d \in D
      PROVE  RedeclarationAt(x, d.at) \in Shaped /\ RedeclarationAt(x, d.at).in = Home(x.in, x.at)
  <2>1. d.at \in Files \cup {NoPlace}
    BY DEF Shaped, Fact
  <2>2. RedeclarationAt(x, d.at) \in Fact
    BY <1>1, <1>2, <2>1, FactOfType, RelsType DEF RedeclarationAt, s
  <2> QED BY <1>1, <1>2, <2>2, FactOfFields DEF Shaped, RedeclarationAt, s
<1>7. \A y \in Redeclaration(G, x) : y \in Shaped /\ y.in \in {x.in, x.at}
  <2>1. SUFFICES ASSUME NEW y \in Redeclaration(G, x)
                 PROVE  y \in Shaped /\ y.in \in {x.in, x.at}
    OBVIOUS
  <2>2. CASE y \in {VirtualOf(x), RedeclaredBy(x)}
    BY <1>1, <1>4, <1>5, <2>2
  <2>3. CASE y \in {RedeclarationAt(x, d.at) : d \in D}
    <3>1. PICK d \in D : y = RedeclarationAt(x, d.at)
      BY <2>3
    <3> QED BY <1>1, <1>6, <3>1
  <2> QED BY <1>3, <2>1, <2>2, <2>3
<1> QED BY <1>3, <1>7 DEF s

\* The files of candidates are among F.
CandidatesIn(G, F) == \A x \in G : x.rel = "candidate" => x.in \in F /\ x.at \in F

\* The graph once c is declared, and what is registered then if it is a method.
WithDeclaration(G, c) == Insert(G, {DeclarationOf(c)})
RedeclarationsOf(G, c) ==
  UNION {Redeclaration(G, x) : x \in Redeclared(G, c.file, SignOf(c.rec, c.name))}
MethodFacts(G, c) == {RecordAt(c.file, c.rec, NoPlace)} \cup RedeclarationsOf(G, c)
IsAMethod(G, c) == IsMethod(G, c.file, SignOf(c.rec, c.name))

LEMMA DeclareIs ==
  ASSUME NEW G, NEW c
  PROVE  Declare(G, c) = IF ~IsAMethod(WithDeclaration(G, c), c) THEN WithDeclaration(G, c)
                         ELSE Insert(WithDeclaration(G, c), MethodFacts(WithDeclaration(G, c), c))
BY DEF Declare, IsAMethod, WithDeclaration, MethodFacts, RedeclarationsOf, DeclarationOf

LEMMA WithDeclarationFacts ==
  ASSUME NEW G \in SUBSET Shaped, NEW c \in Fct, NEW F, c.file \in F
  PROVE  /\ Extends(G, WithDeclaration(G, c), F)
         /\ Has(WithDeclaration(G, c), DeclarationOf(c))
         /\ WithDeclaration(G, c) \subseteq G \cup {DeclarationOf(c)}
<1> DEFINE d == DeclarationOf(c)
<1>1. d \in Shaped /\ d.in = c.file
  BY DeclarationType
<1> HIDE DEF d
<1>2. Extends(G, Insert(G, {d}), F)
  BY <1>1, ExtendsInsert
<1>3. Has(Insert(G, {d}), d) /\ Insert(G, {d}) \subseteq G \cup {d}
  BY InsertFacts
<1> QED BY <1>2, <1>3 DEF WithDeclaration, d

LEMMA MethodFactsType ==
  ASSUME NEW G \in SUBSET Shaped, NEW c \in Fct, NEW F, c.file \in F, CandidatesIn(G, F),
         IsAMethod(G, c)
  PROVE  /\ MethodFacts(G, c) \subseteq Shaped
         /\ \A x \in MethodFacts(G, c) : x.in \in F
<1>1. /\ c.file \in Files /\ c.rec \in Names /\ SignOf(c.rec, c.name) \in Sign
      /\ c.rec \in Names \cup {NoRecord} /\ c.name \in Methods
  <2>1. /\ c.file \in Files /\ c.rec \in Names \cup {NoRecord} /\ c.name \in Methods
        /\ SignOf(c.rec, c.name) \in Sign /\ SignOf(c.rec, c.name).rec = c.rec
    BY KindType, SignOfType
  <2> QED BY <2>1, MethodOfRecord DEF IsAMethod
<1> DEFINE r == RecordAt(c.file, c.rec, NoPlace)
<1>2. r \in Shaped /\ r.in = c.file
  <2>1. r \in Fact
    BY <1>1, FactOfType, RelsType DEF RecordAt
  <2> QED BY <1>1, <2>1, FactOfFields DEF Shaped, RecordAt
<1> HIDE DEF r
<1>3. ASSUME NEW x \in Redeclared(G, c.file, SignOf(c.rec, c.name))
      PROVE  Redeclaration(G, x) \subseteq Shaped /\ \A y \in Redeclaration(G, x) : y.in \in F
  <2>1. x \in G /\ x.rel = "candidate"
    BY <1>1, RedeclaredFacts
  <2> QED BY <2>1, RedeclarationFacts DEF CandidatesIn
<1>4. \A y \in RedeclarationsOf(G, c) : y \in Shaped /\ y.in \in F
  BY <1>3 DEF RedeclarationsOf
<1> QED BY <1>2, <1>4 DEF MethodFacts, r

\* Declaring a function or a method adds facts of its file and of those of the
\* candidates.
LEMMA DeclareFacts ==
  ASSUME NEW G \in SUBSET Shaped, NEW c \in Fct, NEW F, c.file \in F, CandidatesIn(G, F)
  PROVE  /\ Extends(G, Declare(G, c), F)
         /\ Has(Declare(G, c), DeclarationOf(c))
         /\ CandidatesIn(Declare(G, c), F)
         /\ \A x \in Declare(G, c) \ G : x.rel # "candidate"
<1> DEFINE G1 == WithDeclaration(G, c)
<1>1. /\ Extends(G, G1, F) /\ Has(G1, DeclarationOf(c))
      /\ G1 \subseteq G \cup {DeclarationOf(c)} /\ G1 \in SUBSET Shaped
  BY WithDeclarationFacts DEF Extends
<1> HIDE DEF G1
<1>2. \A x \in G1 \ G : x.rel # "candidate"
  BY <1>1, DeclarationType
<1>3. CandidatesIn(G1, F)
  BY <1>2 DEF CandidatesIn
<1>4. CASE ~IsAMethod(G1, c)
  BY <1>1, <1>2, <1>3, <1>4, DeclareIs DEF G1
<1>5. CASE IsAMethod(G1, c)
  <2> DEFINE X == MethodFacts(G1, c)
  <2>1. X \in SUBSET Shaped /\ \A x \in X : x.in \in F
    BY <1>1, <1>3, <1>5, MethodFactsType
  <2>2. \A x \in X : x.rel # "candidate"
    <3>0. SignOf(c.rec, c.name) \in Sign /\ c.file \in Files
      BY KindType, SignOfType
    <3>1. ASSUME NEW y \in Redeclared(G1, c.file, SignOf(c.rec, c.name)),
                 NEW x \in Redeclaration(G1, y)
          PROVE  x.rel # "candidate"
      <4>1. y \in G1 /\ y.rel = "candidate"
        BY <1>1, <3>0, RedeclaredFacts
      <4>2. \/ x \in {VirtualOf(y), RedeclaredBy(y)} \/ \E g : x = RedeclarationAt(y, g)
        BY <1>1, <4>1, RedeclarationFacts
      <4> QED BY <4>2, FactOfFields DEF VirtualOf, RedeclaredBy, RedeclarationAt
    <3>2. RecordAt(c.file, c.rec, NoPlace).rel = "record"
      BY FactOfFields DEF RecordAt
    <3> QED BY <3>1, <3>2 DEF MethodFacts, RedeclarationsOf
  <2> HIDE DEF X
  <2>3. Extends(G1, Insert(G1, X), F) /\ Insert(G1, X) \subseteq G1 \cup X /\ G1 \subseteq Insert(G1, X)
    BY <1>1, <2>1, ExtendsInsert, InsertFacts
  <2>4. Declare(G, c) = Insert(G1, X)
    BY <1>5, DeclareIs DEF G1, X
  <2>5. Extends(G, Declare(G, c), F)
    BY <1>1, <2>3, <2>4, ExtendsTwice
  <2>6. Has(Declare(G, c), DeclarationOf(c))
    BY <1>1, <2>3, <2>4, HasGrows
  <2>7. \A x \in Declare(G, c) \ G : x.rel # "candidate"
    BY <1>2, <2>2, <2>3, <2>4
  <2>8. CandidatesIn(Declare(G, c), F)
    BY <1>3, <2>2, <2>3, <2>4 DEF CandidatesIn
  <2> QED BY <2>5, <2>6, <2>7, <2>8
<1> QED BY <1>4, <1>5

-----------------------------------------------------------------------------
(* A call.                                                                 *)

\* What a call registers of the two records.
CallFacts(e) ==
  (IF e.caller.rec \in {NoRecord, e.callee.rec} THEN {}
   ELSE {RecordAt(e.place, e.caller.rec, NoPlace)})
  \cup (IF ~BetweenRecords(e) THEN {}
        ELSE {FactOf(e.place, "calls", e.caller.rec, e.callee.rec, NoPlace),
              RecordAt(e.callee.file, e.callee.rec, NoPlace),
              FactOf(e.callee.file, "called", e.callee.rec, e.caller.rec, NoPlace)})

LEMMA CallFactsType ==
  ASSUME NEW e \in CallVisit
  PROVE  /\ CallFacts(e) \subseteq Shaped
         /\ \A x \in CallFacts(e) : x.in \in FilesOf(e) /\ x.rel # "candidate"
<1>1. /\ e.kind = "call" /\ e.place \in Files /\ e.callee.file \in Files
      /\ e.caller.rec \in Names \cup {NoRecord} /\ e.callee.rec \in Names \cup {NoRecord}
  BY KindType
<1>2. e.place \in FilesOf(e) /\ e.callee.file \in FilesOf(e)
  BY <1>1 DEF FilesOf
<1> DEFINE r(f, x) == RecordAt(f, x, NoPlace)
           y == FactOf(e.place, "calls", e.caller.rec, e.callee.rec, NoPlace)
           z == FactOf(e.callee.file, "called", e.callee.rec, e.caller.rec, NoPlace)
<1>3. ASSUME NEW f \in Files, NEW x \in Names
      PROVE  r(f, x) \in Shaped /\ r(f, x).in = f /\ r(f, x).rel = "record"
  <2>1. r(f, x) \in Fact
    BY FactOfType, RelsType DEF RecordAt
  <2> QED BY <2>1, FactOfFields DEF Shaped, RecordAt
<1>4. ASSUME BetweenRecords(e)
      PROVE  /\ y \in Shaped /\ y.in = e.place /\ y.rel = "calls"
             /\ z \in Shaped /\ z.in = e.callee.file /\ z.rel = "called"
  <2>1. e.caller.rec \in Names /\ e.callee.rec \in Names
    BY <1>1, <1>4 DEF BetweenRecords
  <2>2. y \in Fact
    BY <1>1, <2>1, FactOfType, RelsType
  <2>3. z \in Fact
    BY <1>1, <2>1, FactOfType, RelsType
  <2>4. y \in Shaped /\ y.in = e.place /\ y.rel = "calls"
    BY <2>1, <2>2, FactOfFields DEF Shaped
  <2>5. z \in Shaped /\ z.in = e.callee.file /\ z.rel = "called"
    <3>1. z.in = e.callee.file /\ z.rel = "called" /\ z.of = e.callee.rec /\ z.to = e.caller.rec
      BY FactOfFields
    <3> HIDE DEF z
    <3> QED BY <2>1, <2>3, <3>1 DEF Shaped
  <2> QED BY <2>4, <2>5
<1>5. CallFacts(e) = (IF e.caller.rec \in {NoRecord, e.callee.rec} THEN {} ELSE {r(e.place, e.caller.rec)})
                     \cup (IF ~BetweenRecords(e) THEN {} ELSE {y, r(e.callee.file, e.callee.rec), z})
  BY DEF CallFacts
<1> HIDE DEF r, y, z
<1>6. ASSUME NEW x \in CallFacts(e)
      PROVE  x \in Shaped /\ x.in \in FilesOf(e) /\ x.rel # "candidate"
  <2>1. CASE e.caller.rec \notin {NoRecord, e.callee.rec} /\ x = r(e.place, e.caller.rec)
    BY <1>1, <1>2, <1>3, <2>1
  <2>2. CASE BetweenRecords(e) /\ x \in {y, r(e.callee.file, e.callee.rec), z}
    <3>1. e.callee.rec \in Names
      BY <1>1, <2>2 DEF BetweenRecords
    <3> QED BY <1>1, <1>2, <1>3, <1>4, <2>2, <3>1
  <2> QED BY <1>5, <1>6, <2>1, <2>2
<1> QED BY <1>6

LEMMA VisitCallIs ==
  ASSUME NEW G, NEW e
  PROVE  VisitCall(G, e) = Insert(Declare(G, e.callee), CallFacts(e))
BY DEF VisitCall, CallFacts

-----------------------------------------------------------------------------
(* What a visit does to the graph.                                         *)

LEMMA EffectIs ==
  ASSUME NEW G, NEW e
  PROVE  /\ e \in RecordVisit => Effect(G, e) = VisitRecord(G, e)
         /\ e \in FctVisit => Effect(G, e) = Declare(G, e.fct)
         /\ e \in CallVisit => Effect(G, e) = Insert(Declare(G, e.callee), CallFacts(e))
BY KindType, VisitCallIs DEF Effect

LEMMA CandidateFiles ==
  ASSUME NEW e \in RecordVisit, NEW x \in RecordFacts(e), x.rel = "candidate"
  PROVE  /\ x.in \in FilesOf(e) /\ x.at \in FilesOf(e)
         /\ \E b \in e.bases : \E m \in b.virtual :
              x = FactOf(e.file, "candidate", e.name, SignOf(b.name, m), b.file)
<1>1. e.kind = "record"
  BY KindType
<1>2. PICK b \in e.bases : x \in Inheritance(e, b)
  BY FactOfFields DEF RecordFacts, RecordAt
<1>3. PICK m \in b.virtual : x = FactOf(e.file, "candidate", e.name, SignOf(b.name, m), b.file)
  BY <1>2, FactOfFields DEF Inheritance, RecordAt
<1>4. x.in = e.file /\ x.at = b.file
  BY <1>3, FactOfFields
<1> QED BY <1>1, <1>3, <1>4 DEF FilesOf

LEMMA EffectFacts ==
  ASSUME NEW G \in SUBSET Shaped, NEW e \in RecordVisit \cup FctVisit \cup CallVisit, NEW F,
         FilesOf(e) \subseteq F, CandidatesIn(G, F)
  PROVE  Extends(G, Effect(G, e), F) /\ CandidatesIn(Effect(G, e), F)
<1>1. CASE e \in RecordVisit
  <2>1. /\ Effect(G, e) = Insert(G, RecordFacts(e))
        /\ RecordFacts(e) \in SUBSET Shaped /\ \A x \in RecordFacts(e) : x.in \in F
    BY <1>1, EffectIs, VisitRecordFacts, RecordFactsType
  <2>2. Extends(G, Insert(G, RecordFacts(e)), F)
    BY <2>1, ExtendsInsert
  <2>3. CandidatesIn(Insert(G, RecordFacts(e)), F)
    BY <1>1, CandidateFiles, InsertFacts DEF CandidatesIn
  <2> QED BY <2>1, <2>2, <2>3
<1>2. CASE e \in FctVisit
  <2>1. e.fct \in Fct /\ e.fct.file \in F
    BY <1>2, KindType DEF FilesOf
  <2> QED BY <1>2, <2>1, EffectIs, DeclareFacts
<1>3. CASE e \in CallVisit
  <2>1. e.callee \in Fct /\ e.callee.file \in F
    BY <1>3, KindType DEF FilesOf
  <2> DEFINE H == Declare(G, e.callee)
  <2>2. Extends(G, H, F) /\ CandidatesIn(H, F)
    BY <2>1, DeclareFacts
  <2> HIDE DEF H
  <2>3. H \in SUBSET Shaped
    BY <2>2 DEF Extends
  <2>4. CallFacts(e) \in SUBSET Shaped /\ \A x \in CallFacts(e) : x.in \in F /\ x.rel # "candidate"
    BY <1>3, CallFactsType
  <2>5. Extends(H, Insert(H, CallFacts(e)), F)
    BY <2>3, <2>4, ExtendsInsert
  <2>6. CandidatesIn(Insert(H, CallFacts(e)), F)
    BY <2>2, <2>4, InsertFacts DEF CandidatesIn
  <2>7. Effect(G, e) = Insert(H, CallFacts(e))
    BY <1>3, EffectIs DEF H
  <2> QED BY <2>2, <2>5, <2>6, <2>7, ExtendsTwice
<1> QED BY <1>1, <1>2, <1>3

-----------------------------------------------------------------------------
(* The invariant of the files: what the process knows of a file that it has *)
(* not opened, or not rewritten, is at least what the file says, and a file *)
(* that it has rewritten says what it knows.                                *)

OutputShape(x) == x.rel # "candidate" /\ (x.rel = "declared" => x.at = NoPlace)

FilesInv ==
  /\ graph \subseteq Shaped /\ disk \subseteq Shaped
  /\ CandidatesIn(graph, opened)
  /\ \A x \in graph : x.in \in opened \/ x \in disk
  /\ \A x \in disk : OutputShape(x)
  /\ \A x \in disk : x.in \notin written => x \in graph
  /\ \A f \in written : {x \in disk : x.in = f} = OutputOf(graph, f)
  /\ Traversing => written = {}

Inv == TypeOK /\ FilesInv

\* The output of an entry is an equal entry.
LEMMA OutputFacts ==
  ASSUME NEW x \in Shaped
  PROVE  /\ Output(x) \in Shaped /\ SameEntry(Output(x), x)
         /\ Output(x).in = x.in /\ Output(x).rel = x.rel /\ Output(x).of = x.of
         /\ Output(x).to = x.to
         /\ x.rel # "candidate" => OutputShape(Output(x))
         /\ OutputShape(x) => Output(x) = x
<1>1. x \in Fact
  BY DEF Shaped
<1>2. CASE x.rel # "declared"
  BY <1>2, SameEntryFacts DEF Output, OutputShape
<1>3. CASE x.rel = "declared"
  <2> DEFINE y == [x EXCEPT !.at = NoPlace]
  <2>1. Output(x) = y
    BY <1>3 DEF Output
  <2>2. /\ y \in Fact /\ y.in = x.in /\ y.rel = x.rel /\ y.of = x.of /\ y.to = x.to
        /\ y.at = NoPlace /\ (x.at = NoPlace => y = x)
    BY <1>1 DEF Fact
  <2> HIDE DEF y
  <2>3. y \in Shaped
    BY <1>3, <2>2 DEF Shaped
  <2> QED BY <1>3, <2>1, <2>2, <2>3 DEF SameEntry, OutputShape
<1> QED BY <1>2, <1>3

\* The files do not lose anything when one is rewritten.
LEMMA RewriteFacts ==
  ASSUME Inv, NEW f \in Files, Rewrite(f)
  PROVE  /\ disk \subseteq disk' /\ disk' \subseteq Shaped
         /\ {x \in disk' : x.in = f} = OutputOf(graph, f)
         /\ \A x \in disk' : x.in # f => x \in disk
         /\ f \notin written /\ f \in opened /\ unit # NoUnit /\ ~Traversing
         /\ \A x \in OutputOf(graph, f) : OutputShape(x)
<1>1. \A x \in OutputOf(graph, f) : x \in Shaped /\ x.in = f /\ OutputShape(x)
  BY OutputFacts DEF OutputOf, Inv, FilesInv
<1>2. ASSUME NEW x \in disk, x.in = f PROVE x \in OutputOf(graph, f)
  <2>1. x \in graph /\ OutputShape(x) /\ x \in Shaped
    BY <1>2 DEF Rewrite, Inv, FilesInv
  <2>2. Output(x) = x /\ x.rel # "candidate"
    BY <2>1, OutputFacts DEF OutputShape
  <2> QED BY <1>2, <2>1, <2>2 DEF OutputOf
<1>3. disk' = {x \in disk : x.in # f} \cup OutputOf(graph, f)
  BY DEF Rewrite
<1> QED BY <1>1, <1>2, <1>3 DEF Rewrite, Inv, FilesInv

LEMMA DiskGrows == Inv /\ [Next]_vars => disk \subseteq disk'
<1> SUFFICES ASSUME Inv, [Next]_vars PROVE disk \subseteq disk'
  OBVIOUS
<1>1. CASE UNCHANGED vars
  BY <1>1 DEF vars
<1>2. ASSUME NEW u \in Units, Start(u) PROVE disk \subseteq disk'
  BY <1>2 DEF Start
<1>3. CASE Visit
  BY <1>3 DEF Visit
<1>4. CASE Finish
  BY <1>4 DEF Finish
<1>5. CASE Stop
  BY <1>5 DEF Stop
<1>6. ASSUME NEW f \in Files, Rewrite(f) PROVE disk \subseteq disk'
  BY <1>6, RewriteFacts
<1> QED BY <1>1, <1>2, <1>3, <1>4, <1>5, <1>6 DEF Next

LEMMA VisitFacts ==
  ASSUME Inv, Visit
  PROVE  /\ unit \in Units /\ next \in 1 .. Len(Traversal[unit])
         /\ Traversal[unit][next] \in RecordVisit \cup FctVisit \cup CallVisit
         /\ Extends(graph, graph', opened') /\ CandidatesIn(graph', opened')
         /\ FilesOf(Traversal[unit][next]) \subseteq opened'
<1> DEFINE e == Traversal[unit][next]
<1>1. unit \in Units /\ next \in Nat \ {0} /\ next <= Len(Traversal[unit])
  BY DEF Inv, TypeOK, Visit, Traversing
<1>2. Len(Traversal[unit]) \in Nat
  BY <1>1, RecordsAssumption
<1>3. next \in 1 .. Len(Traversal[unit])
  BY <1>1, <1>2
<1>4. e \in RecordVisit \cup FctVisit \cup CallVisit
  BY <1>1, <1>3, EventType
<1>5. graph' = Effect(graph, e) /\ opened' = opened \cup FilesOf(e)
  BY DEF Visit
<1> HIDE DEF e
<1>6. CandidatesIn(graph, opened') /\ graph \in SUBSET Shaped
  BY <1>5 DEF Inv, FilesInv, CandidatesIn
<1>7. Extends(graph, Effect(graph, e), opened') /\ CandidatesIn(Effect(graph, e), opened')
  BY <1>4, <1>5, <1>6, EffectFacts
<1> QED BY <1>1, <1>3, <1>4, <1>5, <1>7 DEF e

LEMMA FilesOfType ==
  ASSUME NEW e \in RecordVisit \cup FctVisit \cup CallVisit
  PROVE  FilesOf(e) \subseteq Files
<1>1. CASE e \in RecordVisit
  BY <1>1, KindType DEF FilesOf
<1>2. CASE e \in FctVisit
  BY <1>2, KindType DEF FilesOf
<1>3. CASE e \in CallVisit
  BY <1>3, KindType DEF FilesOf
<1> QED BY <1>1, <1>2, <1>3

LEMMA TypeStep == Inv /\ [Next]_vars => TypeOK'
<1> SUFFICES ASSUME Inv, [Next]_vars PROVE TypeOK'
  OBVIOUS
<1>1. CASE UNCHANGED vars
  BY <1>1 DEF Inv, TypeOK, vars
<1>2. ASSUME NEW u \in Units, Start(u) PROVE TypeOK'
  <2>1. unit' # NoUnit /\ Main[u] \in Files
    BY <1>2, RecordsAssumption DEF Start
  <2>2. next' = 1 /\ opened' = {Main[u]} /\ written' = {}
    BY <1>2 DEF Start, Inv, TypeOK
  <2> QED BY <1>2, <2>1, <2>2 DEF Start, Inv, TypeOK
<1>3. CASE Visit
  <2>1. FilesOf(Traversal[unit][next]) \subseteq Files
    BY <1>3, VisitFacts, FilesOfType
  <2>2. graph' \subseteq Fact
    BY <1>3, VisitFacts DEF Extends, Shaped
  <2>3. next' \in Nat \ {0}
    BY <1>3 DEF Visit, Inv, TypeOK
  <2>4. unit # NoUnit
    BY <1>3 DEF Visit, Traversing
  <2> QED BY <1>3, <2>1, <2>2, <2>3, <2>4 DEF Visit, Inv, TypeOK
<1>4. CASE Finish
  BY <1>4 DEF Finish, Inv, TypeOK
<1>5. CASE Stop
  BY <1>5 DEF Stop, Inv, TypeOK
<1>6. ASSUME NEW f \in Files, Rewrite(f) PROVE TypeOK'
  <2>1. disk' \subseteq Fact /\ \A x \in disk' : OutputShape(x)
    BY <1>6, RewriteFacts DEF Inv, FilesInv, Shaped
  <2> QED BY <1>6, <2>1, RewriteFacts DEF Rewrite, Inv, TypeOK, OutputShape
<1> QED BY <1>1, <1>2, <1>3, <1>4, <1>5, <1>6 DEF Next

LEMMA FilesStep == Inv /\ [Next]_vars => FilesInv'
<1> SUFFICES ASSUME Inv, [Next]_vars PROVE FilesInv'
  OBVIOUS
<1>1. CASE UNCHANGED vars
  BY <1>1 DEF Inv, FilesInv, CandidatesIn, Traversing, vars
<1>0. graph = disk /\ written' = {} =>
        ((/\ disk' = disk /\ graph' = disk) => FilesInv')
  BY DEF FilesInv, Inv, CandidatesIn, OutputShape
<1>2. ASSUME NEW u \in Units, Start(u) PROVE FilesInv'
  BY <1>0, <1>2 DEF Start, Inv, TypeOK
<1>3. CASE Visit
  <2>1. /\ graph \subseteq graph' /\ graph' \subseteq Shaped /\ CandidatesIn(graph', opened')
        /\ \A x \in graph' \ graph : x.in \in opened'
    BY <1>3, VisitFacts DEF Extends
  <2>2. written = {} /\ written' = {} /\ disk' = disk /\ opened \subseteq opened'
    BY <1>3 DEF Visit, Inv, FilesInv
  <2> QED BY <2>1, <2>2 DEF Inv, FilesInv
<1>4. CASE Finish \/ Stop
  <2>1. graph' = disk /\ disk' = disk /\ written' = {} /\ opened' = {}
    BY <1>4 DEF Finish, Stop
  <2> QED BY <2>1 DEF Inv, FilesInv, CandidatesIn, OutputShape
<1>5. ASSUME NEW f \in Files, Rewrite(f) PROVE FilesInv'
  <2>1. /\ disk' \subseteq Shaped /\ {x \in disk' : x.in = f} = OutputOf(graph, f)
        /\ \A x \in disk' : x.in # f => x \in disk
        /\ disk \subseteq disk' /\ \A x \in OutputOf(graph, f) : OutputShape(x)
    BY <1>5, RewriteFacts
  <2>2. graph' = graph /\ opened' = opened /\ written' = written \cup {f}
    BY <1>5 DEF Rewrite
  <2>3. \A x \in disk' : OutputShape(x) /\ (x.in \notin written' => x \in graph)
    BY <2>1, <2>2 DEF Inv, FilesInv
  <2>4. ASSUME NEW g \in written' PROVE {x \in disk' : x.in = g} = OutputOf(graph, g)
    <3>1. CASE g = f
      BY <2>1, <3>1
    <3>2. CASE g # f
      <4>1. g \in written /\ {x \in disk' : x.in = g} = {x \in disk : x.in = g}
        BY <2>1, <2>2, <3>2
      <4> QED BY <4>1 DEF Inv, FilesInv
    <3> QED BY <3>1, <3>2
  <2>5. ~Traversing'
    BY <1>5 DEF Rewrite, Traversing
  <2> QED BY <2>1, <2>2, <2>3, <2>4, <2>5 DEF Inv, FilesInv, CandidatesIn
<1> QED BY <1>1, <1>2, <1>3, <1>4, <1>5 DEF Next

LEMMA InvInit == Init => Inv
BY DEF Init, Inv, TypeOK, FilesInv, CandidatesIn, Traversing

LEMMA InvStep == Inv /\ [Next]_vars => Inv'
BY TypeStep, FilesStep DEF Inv

\* Types: what is known of a record, in memory or in the json files, says where
\* it comes from, whatever is read, visited, rewritten or stopped.
THEOREM TypeCorrect == Spec => []TypeOK
<1>1. Inv => TypeOK
  BY DEF Inv
<1> QED BY <1>1, InvInit, InvStep, PTL DEF Spec

-----------------------------------------------------------------------------
(* What a unit registers stays: the facts that do not depend on what was    *)
(* known before.                                                           *)

Basic(e) ==
  CASE e.kind = "record"   -> RecordFacts(e)
    [] e.kind = "function" -> {DeclarationOf(e.fct)}
    [] e.kind = "call"     -> {DeclarationOf(e.callee)} \cup CallFacts(e)

LEMMA BasicIs ==
  /\ \A e \in RecordVisit : Basic(e) = RecordFacts(e)
  /\ \A e \in FctVisit : Basic(e) = {DeclarationOf(e.fct)}
  /\ \A e \in CallVisit : Basic(e) = {DeclarationOf(e.callee)} \cup CallFacts(e)
BY KindType DEF Basic

LEMMA BasicType ==
  ASSUME NEW e \in RecordVisit \cup FctVisit \cup CallVisit, NEW x \in Basic(e)
  PROVE  x \in Shaped /\ x.in \in FilesOf(e)
<1>1. CASE e \in RecordVisit
  BY <1>1, BasicIs, RecordFactsType
<1>2. CASE e \in FctVisit
  BY <1>2, BasicIs, DeclarationType, KindType DEF FilesOf
<1>3. CASE e \in CallVisit
  <2>1. CASE x \in CallFacts(e)
    BY <1>3, <2>1, CallFactsType
  <2>2. CASE x = DeclarationOf(e.callee)
    BY <1>3, <2>2, DeclarationType, KindType DEF FilesOf
  <2> QED BY <1>3, <2>1, <2>2, BasicIs
<1> QED BY <1>1, <1>2, <1>3

LEMMA EffectBasic ==
  ASSUME NEW G \in SUBSET Shaped, NEW e \in RecordVisit \cup FctVisit \cup CallVisit, NEW F,
         FilesOf(e) \subseteq F, CandidatesIn(G, F), NEW x \in Basic(e)
  PROVE  Has(Effect(G, e), x)
<1>1. CASE e \in RecordVisit
  <2>1. Effect(G, e) = Insert(G, RecordFacts(e)) /\ x \in RecordFacts(e)
    BY <1>1, EffectIs, VisitRecordFacts, BasicIs
  <2> QED BY <2>1, InsertFacts
<1>2. CASE e \in FctVisit
  <2>1. e.fct \in Fct /\ e.fct.file \in F /\ x = DeclarationOf(e.fct)
    BY <1>2, KindType, BasicIs DEF FilesOf
  <2> QED BY <1>2, <2>1, EffectIs, DeclareFacts
<1>3. CASE e \in CallVisit
  <2>1. /\ e.callee \in Fct /\ e.callee.file \in F
        /\ x \in {DeclarationOf(e.callee)} \cup CallFacts(e)
    BY <1>3, KindType, BasicIs DEF FilesOf
  <2> DEFINE H == Declare(G, e.callee)
  <2>2. Has(H, DeclarationOf(e.callee))
    BY <2>1, DeclareFacts
  <2>3. Effect(G, e) = Insert(H, CallFacts(e))
    BY <1>3, EffectIs
  <2> HIDE DEF H
  <2>4. H \subseteq Insert(H, CallFacts(e)) /\ \A y \in CallFacts(e) : Has(Insert(H, CallFacts(e)), y)
    BY InsertFacts
  <2> QED BY <2>1, <2>2, <2>3, <2>4, HasGrows
<1> QED BY <1>1, <1>2, <1>3

TraversedInv ==
  unit # NoUnit =>
    \A k \in 1 .. Len(Traversal[unit]) : k < next =>
      /\ FilesOf(Traversal[unit][k]) \subseteq opened
      /\ \A x \in Basic(Traversal[unit][k]) : Has(graph, x)

DoneInv ==
  \A u \in done : \A e \in Events(u) : \A x \in Basic(e) :
    x.rel # "candidate" => Has(disk, x)

LEMMA TraversedStep == Inv /\ TraversedInv /\ [Next]_vars => TraversedInv'
<1> SUFFICES ASSUME Inv, TraversedInv, [Next]_vars PROVE TraversedInv'
  OBVIOUS
<1>1. CASE UNCHANGED vars
  BY <1>1 DEF TraversedInv, vars
<1>2. ASSUME NEW u \in Units, Start(u) PROVE TraversedInv'
  BY <1>2 DEF Start, TraversedInv
<1>3. CASE Visit
  <2>0. unit' = unit /\ next' = next + 1 /\ next \in Nat /\ opened \subseteq opened'
    BY <1>3 DEF Visit, Inv, TypeOK
  <2>1. SUFFICES ASSUME NEW k \in 1 .. Len(Traversal[unit]), k < next'
                 PROVE  /\ FilesOf(Traversal[unit][k]) \subseteq opened'
                        /\ \A x \in Basic(Traversal[unit][k]) : Has(graph', x)
    BY <2>0 DEF TraversedInv
  <2>2. CASE k < next
    <3>1. graph \subseteq graph'
      BY <1>3, VisitFacts DEF Extends
    <3>2. unit # NoUnit
      BY <1>3 DEF Visit, Traversing
    <3> QED BY <2>0, <2>2, <3>1, <3>2, HasGrows DEF TraversedInv
  <2>3. CASE k = next
    <3> DEFINE e == Traversal[unit][next]
    <3>1. /\ e \in RecordVisit \cup FctVisit \cup CallVisit /\ FilesOf(e) \subseteq opened'
          /\ graph' = Effect(graph, e)
      BY <1>3, VisitFacts DEF Visit
    <3>2. graph \in SUBSET Shaped /\ CandidatesIn(graph, opened')
      BY <2>0 DEF Inv, FilesInv, CandidatesIn
    <3> HIDE DEF e
    <3>3. \A x \in Basic(e) : Has(graph', x)
      BY <3>1, <3>2, EffectBasic
    <3> QED BY <2>3, <3>1, <3>3 DEF e
  <2> QED BY <2>0, <2>1, <2>2, <2>3
<1>4. CASE Finish \/ Stop
  BY <1>4 DEF Finish, Stop, TraversedInv
<1>5. ASSUME NEW f \in Files, Rewrite(f) PROVE TraversedInv'
  BY <1>5 DEF Rewrite, TraversedInv
<1> QED BY <1>1, <1>2, <1>3, <1>4, <1>5 DEF Next

\* A file that has been rewritten has what the process knows of it.
LEMMA RewrittenHas ==
  ASSUME Inv, NEW x, x.in \in written, x.rel # "candidate", Has(graph, x)
  PROVE  Has(disk, x)
<1>1. PICK y \in graph : SameEntry(x, y)
  BY DEF Has
<1>2. y.in = x.in /\ y.rel # "candidate" /\ y \in Shaped
  BY <1>1 DEF SameEntry, Inv, FilesInv
<1>3. Output(y) \in OutputOf(graph, x.in)
  BY <1>2 DEF OutputOf
<1>4. Output(y) \in disk
  BY <1>3 DEF Inv, FilesInv
<1>5. SameEntry(x, Output(y))
  BY <1>1, <1>2, OutputFacts, SameEntryFacts
<1> QED BY <1>4, <1>5 DEF Has

\* At the end of an analysis all files that it has opened are rewritten.
LEMMA FinishFacts ==
  ASSUME Inv, TraversedInv, Finish
  PROVE  /\ unit \in Units
         /\ \A e \in Events(unit) :
              /\ e \in RecordVisit \cup FctVisit \cup CallVisit
              /\ FilesOf(e) \subseteq written
              /\ \A x \in Basic(e) : Has(graph, x)
<1>1. unit \in Units /\ next \in Nat /\ ~Traversing /\ opened = written /\ unit # NoUnit
  BY DEF Inv, TypeOK, Finish
<1>2. ASSUME NEW k \in 1 .. Len(Traversal[unit])
      PROVE  k < next
  BY <1>1, RecordsAssumption DEF Traversing
<1> QED BY <1>1, <1>2, EventType DEF TraversedInv, Events

LEMMA DoneStep == Inv /\ TraversedInv /\ DoneInv /\ [Next]_vars => DoneInv'
<1> SUFFICES ASSUME Inv, TraversedInv, DoneInv, [Next]_vars,
                    NEW u \in done', NEW e \in Events(u), NEW x \in Basic(e), x.rel # "candidate"
             PROVE  Has(disk', x)
  BY DEF DoneInv
<1>1. disk \subseteq disk'
  BY DiskGrows
<1>2. CASE u \in done
  BY <1>1, <1>2, HasGrows DEF DoneInv
<1>3. CASE u \notin done
  <2>1. Finish /\ u = unit
    BY <1>3 DEF Next, Start, Visit, Rewrite, Finish, Stop, vars
  <2>2. x.in \in written /\ Has(graph, x)
    BY <2>1, FinishFacts, BasicType
  <2> QED BY <1>1, <2>2, RewrittenHas, HasGrows
<1> QED BY <1>2, <1>3

-----------------------------------------------------------------------------
(* Records without lines.                                                  *)

Placeless(x) == x.rel = "record" /\ x.at = NoPlace

\* A visit registers a record without its lines only when it mentions it.
LEMMA CallMentions ==
  ASSUME NEW e \in CallVisit, NEW x \in CallFacts(e), Placeless(x)
  PROVE  Mentions(e, x.of, x.in)
<1>1. e.kind = "call"
  BY KindType
<1> DEFINE y == FactOf(e.place, "calls", e.caller.rec, e.callee.rec, NoPlace)
           z == FactOf(e.callee.file, "called", e.callee.rec, e.caller.rec, NoPlace)
<1>2. y.rel # "record" /\ z.rel # "record"
  BY FactOfFields
<1>3. \/ x = RecordAt(e.place, e.caller.rec, NoPlace)
      \/ x = RecordAt(e.callee.file, e.callee.rec, NoPlace)
  BY <1>2 DEF CallFacts, Placeless
<1> QED BY <1>1, <1>3, FactOfFields DEF Mentions, RecordAt

LEMMA DeclareMentions ==
  ASSUME NEW G \in SUBSET Shaped, NEW c \in Fct, NEW x \in Declare(G, c) \ G, Placeless(x)
  PROVE  x.of = c.rec /\ x.in = c.file
<1> DEFINE G1 == WithDeclaration(G, c)
<1>1. G1 \in SUBSET Shaped /\ G1 \subseteq G \cup {DeclarationOf(c)}
  BY WithDeclarationFacts DEF Extends
<1> HIDE DEF G1
<1>2. x \notin G1
  BY <1>1, DeclarationType DEF Placeless
<1>3. IsAMethod(G1, c) /\ x \in MethodFacts(G1, c)
  <2>1. Declare(G, c) = IF ~IsAMethod(G1, c) THEN G1 ELSE Insert(G1, MethodFacts(G1, c))
    BY DeclareIs DEF G1
  <2> QED BY <1>2, <2>1, InsertFacts
<1>4. SignOf(c.rec, c.name) \in Sign /\ c.file \in Files
  BY KindType, SignOfType
<1>5. ASSUME NEW y \in Redeclared(G1, c.file, SignOf(c.rec, c.name)), x \in Redeclaration(G1, y)
      PROVE  FALSE
  <2>1. y \in G1 /\ y.rel = "candidate"
    BY <1>1, <1>4, RedeclaredFacts
  <2>2. x \in {VirtualOf(y), RedeclaredBy(y)} \/ \E g : x = RedeclarationAt(y, g)
    BY <1>1, <1>5, <2>1, RedeclarationFacts
  <2> QED BY <2>2, FactOfFields DEF VirtualOf, RedeclaredBy, RedeclarationAt, Placeless
<1>6. x = RecordAt(c.file, c.rec, NoPlace)
  BY <1>3, <1>5 DEF MethodFacts, RedeclarationsOf
<1> QED BY <1>6, FactOfFields DEF RecordAt

LEMMA EffectMentions ==
  ASSUME NEW G \in SUBSET Shaped, NEW e \in RecordVisit \cup FctVisit \cup CallVisit,
         NEW x \in Effect(G, e) \ G, Placeless(x)
  PROVE  Mentions(e, x.of, x.in)
<1>1. CASE e \in RecordVisit
  <2>1. x \in RecordFacts(e) /\ x \in Shaped
    BY <1>1, EffectIs, VisitRecordFacts, RecordFactsType, InsertFacts
  <2>2. x.at \in Files
    <3>1. e.file \in Files /\ \A b \in e.bases : b.file \in Files
      BY <1>1, KindType
    <3>2. CASE x = RecordAt(e.file, e.name, e.file)
      BY <3>1, <3>2, FactOfFields DEF RecordAt
    <3>3. CASE x \in {FactOf(e.file, "method", e.name, SignOf(e.name, m), e.file) : m \in e.methods}
      BY <3>3, FactOfFields DEF Placeless
    <3>4. ASSUME NEW b \in e.bases, x \in Inheritance(e, b) PROVE x.at \in Files
      <4>1. x = RecordAt(b.file, b.name, b.file)
        BY <3>4, FactOfFields DEF Inheritance, Placeless
      <4> QED BY <3>1, <4>1, FactOfFields DEF RecordAt
    <3> QED BY <2>1, <3>2, <3>3, <3>4 DEF RecordFacts
  <2> QED BY <2>2, RecordsAssumption DEF Placeless
<1>2. CASE e \in FctVisit
  <2>1. x \in Declare(G, e.fct) \ G /\ e.fct \in Fct /\ e.kind = "function"
    BY <1>2, EffectIs, KindType
  <2>2. x.of = e.fct.rec /\ x.in = e.fct.file
    BY <2>1, DeclareMentions
  <2> QED BY <2>1, <2>2 DEF Mentions
<1>3. CASE e \in CallVisit
  <2> DEFINE H == Declare(G, e.callee)
  <2>1. Effect(G, e) = Insert(H, CallFacts(e)) /\ e.callee \in Fct /\ e.kind = "call"
    BY <1>3, EffectIs, KindType
  <2>2. CASE x \in H
    <3>1. x.of = e.callee.rec /\ x.in = e.callee.file
      BY <2>1, <2>2, DeclareMentions
    <3> QED BY <2>1, <3>1 DEF Mentions
  <2>3. CASE x \notin H
    <3>1. x \in CallFacts(e)
      BY <2>1, <2>3, InsertFacts
    <3> QED BY <1>3, <3>1, CallMentions
  <2> QED BY <2>2, <2>3
<1> QED BY <1>1, <1>2, <1>3

\* A visit that has the lines of a record registers it.
LEMMA PlacesBasic ==
  ASSUME NEW e \in RecordVisit \cup FctVisit \cup CallVisit, NEW r, NEW f, Places(e, r, f)
  PROVE  \E g \in Files : RecordAt(f, r, g) \in Basic(e)
<1>1. e \in RecordVisit /\ e.file \in Files /\ \A b \in e.bases : b.file \in Files
  BY KindType DEF Places
<1>2. CASE e.name = r /\ e.file = f
  BY <1>1, <1>2, BasicIs DEF RecordFacts
<1>3. ASSUME NEW b \in e.bases, b.name = r, b.file = f
      PROVE  RecordAt(f, r, f) \in Basic(e) /\ f \in Files
  <2>1. RecordAt(f, r, f) \in Inheritance(e, b)
    BY <1>3 DEF Inheritance
  <2> QED BY <1>1, <1>3, <2>1, BasicIs DEF RecordFacts
<1> QED BY <1>2, <1>3 DEF Places

\* The unit v mentions the record r of f before it comes to its lines.
Forgets(v, r, f) ==
  \E i \in 1 .. Len(Traversal[v]) :
    /\ Mentions(Traversal[v][i], r, f)
    /\ \A k \in 1 .. i - 1 : ~Places(Traversal[v][k], r, f)

ReasonsInv ==
  /\ \A x \in graph : Placeless(x) =>
       \/ \E v \in done \cup dirty : Forgets(v, x.of, x.in)
       \/ unit # NoUnit /\ Forgets(unit, x.of, x.in)
  /\ \A x \in disk : Placeless(x) =>
       \/ \E v \in done \cup dirty : Forgets(v, x.of, x.in)
       \/ written # {} /\ Forgets(unit, x.of, x.in)

PlacelessInv == Inv /\ TraversedInv /\ DoneInv /\ ReasonsInv

LEMMA HistoryGrows ==
  [Next]_vars => /\ done \cup dirty \subseteq (done \cup dirty)'
                 /\ Stop /\ written # {} => unit \in dirty'
                 /\ Finish => unit \in done'
BY DEF Next, Start, Visit, Rewrite, Finish, Stop, vars

LEMMA ReasonsStep == PlacelessInv /\ [Next]_vars => ReasonsInv'
<1> SUFFICES ASSUME PlacelessInv, [Next]_vars PROVE ReasonsInv'
  OBVIOUS
<1>0. done \cup dirty \subseteq (done \cup dirty)'
  BY HistoryGrows
<1>1. CASE UNCHANGED vars
  BY <1>1 DEF PlacelessInv, ReasonsInv, vars
<1>2. ASSUME NEW u \in Units, Start(u) PROVE ReasonsInv'
  <2>1. written = {} /\ graph' = disk /\ disk' = disk /\ written' = {}
    BY <1>2 DEF Start, PlacelessInv, Inv, TypeOK
  <2> QED BY <1>0, <2>1 DEF PlacelessInv, ReasonsInv
<1>3. CASE Visit
  <2>1. /\ graph \subseteq graph' /\ disk' = disk /\ written' = written /\ unit' = unit
        /\ unit # NoUnit
    BY <1>3, VisitFacts DEF PlacelessInv, Extends, Visit, Traversing
  <2>2. ASSUME NEW x \in graph' \ graph, Placeless(x) PROVE Forgets(unit, x.of, x.in)
    <3> DEFINE e == Traversal[unit][next]
    <3>1. /\ next \in 1 .. Len(Traversal[unit]) /\ unit \in Units
          /\ e \in RecordVisit \cup FctVisit \cup CallVisit
          /\ graph' = Effect(graph, e) /\ graph \in SUBSET Shaped
          /\ x \in Shaped /\ \A y \in graph : ~SameEntry(x, y)
      BY <1>3, VisitFacts DEF PlacelessInv, Inv, FilesInv, Extends, Visit
    <3> HIDE DEF e
    <3>2. Mentions(e, x.of, x.in)
      BY <2>2, <3>1, EffectMentions
    <3>3. ASSUME NEW k \in 1 .. next - 1, Places(Traversal[unit][k], x.of, x.in) PROVE FALSE
      <4>1. k \in 1 .. Len(Traversal[unit]) /\ k < next
        BY <3>1, RecordsAssumption
      <4>2. PICK g \in Files : RecordAt(x.in, x.of, g) \in Basic(Traversal[unit][k])
        BY <3>1, <3>3, <4>1, EventType, PlacesBasic
      <4>3. Has(graph, RecordAt(x.in, x.of, g))
        BY <2>1, <4>1, <4>2 DEF PlacelessInv, TraversedInv
      <4>4. SameEntry(x, RecordAt(x.in, x.of, g))
        BY <2>2, <3>1, FactOfFields DEF SameEntry, RecordAt, Placeless, Shaped
      <4> QED BY <3>1, <4>3, <4>4, SameEntryFacts DEF Has
    <3> QED BY <3>1, <3>2, <3>3 DEF Forgets, e
  <2> QED BY <1>0, <2>1, <2>2 DEF PlacelessInv, ReasonsInv
<1>4. CASE Finish
  <2>1. graph' = disk /\ disk' = disk /\ unit \in done'
    BY <1>4 DEF Finish
  <2> QED BY <1>0, <2>1 DEF PlacelessInv, ReasonsInv
<1>5. CASE Stop
  <2>1. graph' = disk /\ disk' = disk /\ (written # {} => unit \in dirty')
    BY <1>5 DEF Stop
  <2> QED BY <1>0, <2>1 DEF PlacelessInv, ReasonsInv
<1>6. ASSUME NEW f \in Files, Rewrite(f) PROVE ReasonsInv'
  <2>1. /\ graph' = graph /\ unit' = unit /\ written' # {} /\ unit # NoUnit
        /\ {x \in disk' : x.in = f} = OutputOf(graph, f)
        /\ \A x \in disk' : x.in # f => x \in disk
    BY <1>6, RewriteFacts DEF Rewrite, PlacelessInv
  <2>2. ASSUME NEW x \in disk', Placeless(x) PROVE x \in disk \/ x \in graph
    <3>1. CASE x.in # f
      BY <2>1, <3>1
    <3>2. CASE x.in = f
      <4>1. PICK y \in graph : x = Output(y)
        BY <2>1, <3>2 DEF OutputOf
      <4>2. x.rel = y.rel
        BY <4>1, OutputFacts DEF PlacelessInv, Inv, FilesInv
      <4> QED BY <2>2, <4>1, <4>2 DEF Output, Placeless
    <3> QED BY <3>1, <3>2
  <2> QED BY <1>0, <2>1, <2>2 DEF PlacelessInv, ReasonsInv
<1> QED BY <1>1, <1>2, <1>3, <1>4, <1>5, <1>6 DEF Next

LEMMA PlacelessStep == PlacelessInv /\ PlacelessForAReason /\ [Next]_vars => PlacelessForAReason'
<1> SUFFICES ASSUME PlacelessInv, PlacelessForAReason, [Next]_vars,
                    NEW u \in done', NEW e \in Events(u), e.kind = "record",
                    RecordAt(e.file, e.name, e.file) \notin disk'
             PROVE  \E v \in (done \cup dirty)' : Forgets(v, e.name, e.file)
  BY DEF PlacelessForAReason, Forgets
<1>1. disk \subseteq disk' /\ done \cup dirty \subseteq (done \cup dirty)'
  BY DiskGrows, HistoryGrows DEF PlacelessInv
<1>2. CASE u \in done
  BY <1>1, <1>2 DEF PlacelessForAReason, Forgets
<1>3. CASE u \notin done
  <2>1. Finish /\ u = unit /\ disk' = disk /\ unit \in done'
    BY <1>3 DEF Next, Start, Visit, Rewrite, Finish, Stop, vars
  <2>2. e \in RecordVisit /\ unit \in Units
    BY <2>1, FinishFacts, KindType DEF PlacelessInv
  <2> DEFINE r == RecordAt(e.file, e.name, e.file)
  <2>3. r \in Basic(e) /\ r.rel = "record" /\ r.in = e.file /\ r.of = e.name /\ r.to = e.name
    BY <2>2, BasicIs, FactOfFields DEF RecordFacts, RecordAt
  <2>4. Has(graph, r) /\ r.in \in written
    BY <2>1, <2>2, <2>3, FinishFacts, BasicType DEF PlacelessInv
  <2>5. Has(disk, r)
    BY <2>3, <2>4, RewrittenHas DEF PlacelessInv
  <2>6. PICK y \in disk : SameEntry(r, y)
    BY <2>5 DEF Has
  <2>7. /\ y.rel = "record" /\ y.in = e.file /\ y.of = e.name /\ y.to = e.name
        /\ y \in Fact /\ y.at \in {e.file, NoPlace}
    BY <2>3, <2>6 DEF SameEntry, PlacelessInv, Inv, FilesInv, Shaped
  <2>8. y.at # e.file
    <3>1. ASSUME y.at = e.file PROVE y = r
      BY <2>7, <3>1 DEF r, RecordAt, FactOf, Fact
    <3> QED BY <2>1, <3>1
  <2>9. Placeless(y)
    BY <2>7, <2>8 DEF Placeless
  <2> QED BY <1>1, <2>1, <2>7, <2>9 DEF PlacelessInv, ReasonsInv
<1> QED BY <1>2, <1>3

LEMMA PlacelessInit == Init => PlacelessInv /\ PlacelessForAReason
<1> SUFFICES ASSUME Init PROVE PlacelessInv /\ PlacelessForAReason
  OBVIOUS
<1>1. graph = {} /\ disk = {} /\ done = {} /\ unit = NoUnit
  BY DEF Init
<1> QED BY <1>1, InvInit DEF PlacelessInv, TraversedInv, DoneInv, ReasonsInv, PlacelessForAReason

\* A record that was visited has the lines of its definition in the json files,
\* or else a unit whose results are there mentions it before it comes to its
\* lines: no order of analyses, no stop between the rewriting of two files, and
\* no record known from another unit makes it lose them.
THEOREM PlacelessExplained == Spec => []PlacelessForAReason
<1>1. PlacelessInv /\ PlacelessForAReason /\ [Next]_vars => (PlacelessInv /\ PlacelessForAReason)'
  BY PlacelessStep, ReasonsStep, DoneStep, TraversedStep, InvStep DEF PlacelessInv
<1> QED BY <1>1, PlacelessInit, PTL DEF Spec

-----------------------------------------------------------------------------
(* The methods that redeclare virtual ones.                                *)

\* Methods that a unit visits, and that redeclare a method in it.
VisitedIn(u, i, c) ==
  /\ i \in 1 .. Len(Traversal[u]) /\ Traversal[u][i].kind = "function"
  /\ Traversal[u][i].fct = c
Overriding == {c \in Fct : \E u \in Units : (\E i \in Nat : VisitedIn(u, i, c)) /\ VirtualBases(u, c) # {}}

\* The base classes with the virtual method, as FirstBases finds them.
DerivesIn(u, k, c, b) ==
  /\ k \in 1 .. Len(Traversal[u]) /\ Traversal[u][k] \in RecordVisit
  /\ Traversal[u][k].name = c.rec /\ Traversal[u][k].file = c.file
  /\ b \in Traversal[u][k].bases /\ c.name \in b.virtual
LEMMA VirtualBasesFacts ==
  ASSUME NEW u \in Units, NEW c
  PROVE  \A b : b \in VirtualBases(u, c) <=> \E k \in Nat : DerivesIn(u, k, c, b)
<1> SUFFICES ASSUME NEW b PROVE b \in VirtualBases(u, c) <=> \E k \in Nat : DerivesIn(u, k, c, b)
  OBVIOUS
<1>1. ASSUME b \in VirtualBases(u, c) PROVE \E k \in Nat : DerivesIn(u, k, c, b)
  <2>1. PICK d \in Events(u) : /\ d.kind = "record" /\ d.name = c.rec /\ d.file = c.file
                               /\ b \in d.bases /\ c.name \in b.virtual
    BY <1>1 DEF VirtualBases
  <2>2. PICK k \in 1 .. Len(Traversal[u]) : d = Traversal[u][k]
    BY DEF Events
  <2>3. d \in RecordVisit /\ k \in Nat
    BY <2>1, <2>2, EventType, KindType, RecordsAssumption
  <2> QED BY <2>1, <2>2, <2>3 DEF DerivesIn
<1>2. ASSUME NEW k \in Nat, DerivesIn(u, k, c, b) PROVE b \in VirtualBases(u, c)
  <2>1. Traversal[u][k] \in Events(u) /\ Traversal[u][k].kind = "record"
    BY <1>2, EventType, KindType DEF DerivesIn
  <2> QED BY <1>2, <2>1 DEF DerivesIn, VirtualBases
<1> QED BY <1>1, <1>2

LEMMA FirstBasesFacts ==
  ASSUME NEW u \in Units, NEW c
  PROVE  /\ \A b \in FirstBases(u, c) :
              /\ \E k \in Nat : DerivesIn(u, k, c, b)
              /\ \A d : (\E k \in Nat : DerivesIn(u, k, c, d)) => Rank[b.name] <= Rank[d.name]
         /\ \A b \in FirstBases(u, c) : \A d :
              (\E k \in Nat : DerivesIn(u, k, c, d)) /\ d.name = b.name => d \in FirstBases(u, c)
BY VirtualBasesFacts DEF FirstBases

\* The assumption on a unit, for a method that it visits.
LEMMA SourceOf ==
  ASSUME NEW u \in Units, NEW i, NEW c, VisitedIn(u, i, c), VirtualBases(u, c) # {}
  PROVE  /\ c.rec # Builtin
         /\ \A b, d \in FirstBases(u, c) : b.file = d.file
         /\ \A k \in 1 .. Len(Traversal[u]) :
              (/\ Traversal[u][k].kind = "record"
               /\ Traversal[u][k].name = c.rec
               /\ Traversal[u][k].file = c.file) => k < i
         /\ \A v \in Units : \A k \in 1 .. Len(Traversal[v]) :
              (/\ Traversal[v][k].kind = "record"
               /\ \E b \in Traversal[v][k].bases :
                    /\ b.name = c.rec /\ c.name \in b.virtual
                    /\ Home(Traversal[v][k].file, b.file) = c.file)
              => \E j \in 1 .. k - 1 :
                   Traversal[v][j].kind = "function" /\ Traversal[v][j].fct = c
<1>1. /\ i \in 1 .. Len(Traversal[u]) /\ Traversal[u][i].kind = "function"
      /\ Traversal[u][i].fct = c
  BY DEF VisitedIn
<1> DEFINE m == Traversal[u][i].fct
           Defines(k) == LET e == Traversal[u][k] IN
                           e.kind = "record" /\ e.name = m.rec /\ e.file = m.file
           Derives(v, k) == LET e == Traversal[v][k] IN
                /\ e.kind = "record"
                /\ \E b \in e.bases : /\ b.name = m.rec /\ m.name \in b.virtual
                                      /\ Home(e.file, b.file) = m.file
<1>2. VirtualBases(u, m) # {}
  BY <1>1
<1>3. /\ m.rec # Builtin
      /\ \A b, d \in FirstBases(u, m) : b.file = d.file
      /\ \A k \in 1 .. Len(Traversal[u]) : Defines(k) => k < i
      /\ \A v \in Units : \A k \in 1 .. Len(Traversal[v]) : Derives(v, k) =>
           \E j \in 1 .. k - 1 : Traversal[v][j].kind = "function" /\ Traversal[v][j].fct = m
  BY <1>1, <1>2, SourceAssumption, Zenon
<1> QED BY <1>1, <1>3

LEMMA SourceFacts ==
  ASSUME NEW u \in Units, NEW i \in Nat, NEW c, VisitedIn(u, i, c), VirtualBases(u, c) # {}
  PROVE  /\ c \in Fct /\ c.rec \in Names /\ c.rec # Builtin /\ c \in Overriding
         /\ \A b, d \in FirstBases(u, c) : b.file = d.file
         /\ \A k \in Nat : \A b : DerivesIn(u, k, c, b) => k < i
<1>1. /\ Traversal[u][i].kind = "function" /\ Traversal[u][i].fct = c
      /\ i \in 1 .. Len(Traversal[u]) /\ c \in Fct
  BY EventType, KindType DEF VisitedIn
<1>2. PICK b0 \in VirtualBases(u, c), k0 \in Nat : DerivesIn(u, k0, c, b0)
  BY VirtualBasesFacts
<1>3. c.rec \in Names
  BY <1>2, KindType DEF DerivesIn
<1>4. /\ c.rec # Builtin
      /\ \A b, d \in FirstBases(u, c) : b.file = d.file
      /\ \A k \in 1 .. Len(Traversal[u]) :
           Traversal[u][k].kind = "record" /\ Traversal[u][k].name = c.rec
             /\ Traversal[u][k].file = c.file => k < i
  BY SourceOf
<1>5. ASSUME NEW k \in Nat, NEW b, DerivesIn(u, k, c, b) PROVE k < i
  BY <1>4, <1>5, KindType DEF DerivesIn
<1> QED BY <1>1, <1>3, <1>4, <1>5 DEF Overriding

\* Who derives from the record of an overriding method has its declaration above.
LEMMA DeclaredAbove ==
  ASSUME NEW c \in Overriding, NEW v \in Units, NEW k \in 1 .. Len(Traversal[v]),
         Traversal[v][k] \in RecordVisit, NEW b \in Traversal[v][k].bases,
         b.name = c.rec, c.name \in b.virtual, Home(Traversal[v][k].file, b.file) = c.file
  PROVE  \E j \in 1 .. k - 1 : Traversal[v][j] \in FctVisit /\ Traversal[v][j].fct = c
<1>1. PICK u \in Units, i \in Nat : VisitedIn(u, i, c) /\ VirtualBases(u, c) # {}
  BY DEF Overriding
<1>2. /\ i \in 1 .. Len(Traversal[u]) /\ Traversal[u][i].kind = "function"
      /\ Traversal[u][i].fct = c
  BY <1>1 DEF VisitedIn
<1>3. Traversal[v][k].kind = "record"
  BY KindType
<1>4. \E j \in 1 .. k - 1 : Traversal[v][j].kind = "function" /\ Traversal[v][j].fct = c
  BY <1>1, <1>3, SourceOf
<1>5. PICK j \in 1 .. k - 1 : Traversal[v][j].kind = "function" /\ Traversal[v][j].fct = c
  BY <1>4
<1>6. j \in 1 .. Len(Traversal[v])
  BY RecordsAssumption
<1> QED BY <1>5, <1>6, EventType, KindType

-----------------------------------------------------------------------------
(* Where candidates and declarations come from.                            *)

\* The candidates that are known come from the unit, and are not output.
CandidatesInv ==
  \A x \in graph : x.rel = "candidate" =>
    /\ unit # NoUnit
    /\ \E k \in 1 .. Len(Traversal[unit]) :
         k < next /\ Traversal[unit][k] \in RecordVisit /\ x \in RecordFacts(Traversal[unit][k])

\* No method that redeclares another is known without its record.
Masks(x, c) ==
  x.rel = "declared" /\ x.to = NoRecord /\ x.in = c.file /\ x.of = SignOf(c.rec, c.name)
UnmaskedInv ==
  \A c \in Overriding : (\A x \in graph : ~Masks(x, c)) /\ (\A x \in disk : ~Masks(x, c))

DeclaredBy(e) ==
  IF e \in FctVisit THEN {e.fct} ELSE IF e \in CallVisit THEN {e.callee} ELSE {}

LEMMA DeclareOrigin ==
  ASSUME NEW G \in SUBSET Shaped, NEW c \in Fct, NEW x \in Declare(G, c) \ G
  PROVE  /\ x.rel # "candidate"
         /\ x.rel = "declared" => \/ x = DeclarationOf(c)
                                  \/ \E y \in G : y.rel = "candidate" /\ x = VirtualOf(y)
<1> DEFINE G1 == WithDeclaration(G, c)
<1>1. G1 \in SUBSET Shaped /\ G1 \subseteq G \cup {DeclarationOf(c)}
  BY WithDeclarationFacts DEF Extends
<1>2. SignOf(c.rec, c.name) \in Sign /\ c.file \in Files
  BY KindType, SignOfType
<1>3. Declare(G, c) = IF ~IsAMethod(G1, c) THEN G1 ELSE Insert(G1, MethodFacts(G1, c))
  BY DeclareIs
<1> HIDE DEF G1
<1>4. CASE x \in G1
  BY <1>1, <1>4, DeclarationType
<1>5. CASE x \notin G1
  <2>1. x \in MethodFacts(G1, c)
    BY <1>3, <1>5, InsertFacts
  <2>2. CASE x = RecordAt(c.file, c.rec, NoPlace)
    BY <2>2, FactOfFields DEF RecordAt
  <2>3. CASE x \in RedeclarationsOf(G1, c)
    <3>1. PICK y \in Redeclared(G1, c.file, SignOf(c.rec, c.name)) : x \in Redeclaration(G1, y)
      BY <2>3 DEF RedeclarationsOf
    <3>2. y \in G1 /\ y.rel = "candidate"
      BY <1>1, <1>2, RedeclaredFacts
    <3>3. y \in G
      BY <1>1, <3>2, DeclarationType
    <3>4. x \in {VirtualOf(y), RedeclaredBy(y)} \/ \E g : x = RedeclarationAt(y, g)
      BY <1>1, <3>1, <3>2, RedeclarationFacts
    <3>5. RedeclaredBy(y).rel = "redeclared" /\ \A g : RedeclarationAt(y, g).rel = "redeclaration"
      BY FactOfFields DEF RedeclaredBy, RedeclarationAt
    <3>6. VirtualOf(y).rel = "declared"
      BY FactOfFields DEF VirtualOf
    <3> QED BY <3>2, <3>3, <3>4, <3>5, <3>6
  <2> QED BY <2>1, <2>2, <2>3 DEF MethodFacts
<1> QED BY <1>4, <1>5

LEMMA RecordFactsRels ==
  ASSUME NEW e, NEW x \in RecordFacts(e)
  PROVE  x.rel \in {"record", "method", "candidate", "inherits", "inherited"}
BY FactOfFields DEF RecordFacts, Inheritance, RecordAt

LEMMA CallFactsRels ==
  ASSUME NEW e, NEW x \in CallFacts(e)
  PROVE  x.rel \in {"record", "calls", "called"}
BY FactOfFields DEF CallFacts, RecordAt

LEMMA EffectOrigin ==
  ASSUME NEW G \in SUBSET Shaped, NEW e \in RecordVisit \cup FctVisit \cup CallVisit,
         NEW x \in Effect(G, e) \ G
  PROVE  /\ x.rel = "candidate" => e \in RecordVisit /\ x \in RecordFacts(e)
         /\ x.rel = "declared" => \/ \E c \in DeclaredBy(e) : c \in Fct /\ x = DeclarationOf(c)
                                  \/ \E y \in G : y.rel = "candidate" /\ x = VirtualOf(y)
<1>1. CASE e \in RecordVisit
  <2>1. x \in RecordFacts(e)
    BY <1>1, EffectIs, VisitRecordFacts, InsertFacts
  <2> QED BY <1>1, <2>1, RecordFactsRels
<1>2. CASE e \in FctVisit
  <2>1. x \in Declare(G, e.fct) \ G /\ e.fct \in Fct /\ e.fct \in DeclaredBy(e)
    BY <1>2, EffectIs, KindType DEF DeclaredBy
  <2> QED BY <2>1, DeclareOrigin
<1>3. CASE e \in CallVisit
  <2> DEFINE H == Declare(G, e.callee)
  <2>1. /\ Effect(G, e) = Insert(H, CallFacts(e)) /\ e.callee \in Fct /\ e.callee \in DeclaredBy(e)
    BY <1>3, EffectIs, KindType DEF DeclaredBy
  <2>2. CASE x \in H
    BY <2>1, <2>2, DeclareOrigin
  <2>3. CASE x \notin H
    <3>1. x \in CallFacts(e)
      BY <2>1, <2>3, InsertFacts
    <3> QED BY <3>1, CallFactsRels
  <2> QED BY <2>2, <2>3
<1> QED BY <1>1, <1>2, <1>3

\* A candidate says which base class declares it virtual.
LEMMA CandidateIs ==
  ASSUME NEW e \in RecordVisit, NEW x \in RecordFacts(e), x.rel = "candidate"
  PROVE  /\ x.in = e.file /\ x.of = e.name
         /\ \E b \in e.bases : /\ x.to.rec = b.name /\ x.to.name \in b.virtual /\ x.at = b.file
                               /\ x.to = SignOf(b.name, x.to.name)
<1>0. PICK b \in e.bases : \E m \in b.virtual :
        x = FactOf(e.file, "candidate", e.name, SignOf(b.name, m), b.file)
  BY CandidateFiles
<1>1. PICK m \in b.virtual : x = FactOf(e.file, "candidate", e.name, SignOf(b.name, m), b.file)
  BY <1>0
<1>2. SignOf(b.name, m).rec = b.name /\ SignOf(b.name, m).name = m
  BY DEF SignOf
<1> QED BY <1>1, <1>2, FactOfFields

LEMMA CandidatesStep == Inv /\ CandidatesInv /\ [Next]_vars => CandidatesInv'
<1> SUFFICES ASSUME Inv, CandidatesInv, [Next]_vars PROVE CandidatesInv'
  OBVIOUS
<1>1. CASE UNCHANGED vars
  BY <1>1 DEF CandidatesInv, vars
<1>2. ASSUME NEW u \in Units, Start(u) PROVE CandidatesInv'
  <2>1. graph' = disk
    BY <1>2 DEF Start, Inv, TypeOK
  <2> QED BY <2>1 DEF CandidatesInv, Inv, FilesInv, OutputShape
<1>3. CASE Visit
  <2>1. /\ unit' = unit /\ unit # NoUnit /\ next' = next + 1 /\ next \in Nat
        /\ next \in 1 .. Len(Traversal[unit])
        /\ Traversal[unit][next] \in RecordVisit \cup FctVisit \cup CallVisit
        /\ graph' = Effect(graph, Traversal[unit][next]) /\ graph \in SUBSET Shaped
    BY <1>3, VisitFacts DEF Visit, Traversing, Inv, TypeOK, FilesInv
  <2>2. ASSUME NEW x \in graph', x \notin graph, x.rel = "candidate"
        PROVE  Traversal[unit][next] \in RecordVisit /\ x \in RecordFacts(Traversal[unit][next])
    BY <2>1, <2>2, EffectOrigin
  <2>3. next < next' /\ \A k \in Nat : k < next => k < next'
    BY <2>1
  <2> QED BY <2>1, <2>2, <2>3, RecordsAssumption DEF CandidatesInv
<1>4. CASE Finish \/ Stop
  <2>1. graph' = disk
    BY <1>4 DEF Finish, Stop
  <2> QED BY <2>1 DEF CandidatesInv, Inv, FilesInv, OutputShape
<1>5. ASSUME NEW f \in Files, Rewrite(f) PROVE CandidatesInv'
  BY <1>5 DEF Rewrite, CandidatesInv
<1> QED BY <1>1, <1>2, <1>3, <1>4, <1>5 DEF Next

OverridingInv == Inv /\ TraversedInv /\ CandidatesInv /\ UnmaskedInv

LEMMA OverridingType ==
  ASSUME NEW c \in Overriding PROVE c \in Fct /\ c.rec \in Names /\ c.rec # Builtin
BY SourceFacts DEF Overriding

\* A candidate that is known has not the place of an overriding method, unless
\* this method is declared.
LEMMA VirtualDeclared ==
  ASSUME Inv, TraversedInv, CandidatesInv, NEW c \in Overriding,
         NEW y \in graph, y.rel = "candidate", Home(y.in, y.at) = c.file,
         y.to = SignOf(c.rec, c.name)
  PROVE  Has(graph, DeclarationOf(c))
<1>1. PICK k \in 1 .. Len(Traversal[unit]) :
        k < next /\ Traversal[unit][k] \in RecordVisit /\ y \in RecordFacts(Traversal[unit][k])
  BY DEF CandidatesInv
<1>2. unit \in Units /\ unit # NoUnit /\ next \in Nat
  BY DEF CandidatesInv, Inv, TypeOK
<1> DEFINE e == Traversal[unit][k]
<1>3. PICK b \in e.bases : y.to.rec = b.name /\ y.to.name \in b.virtual /\ y.at = b.file
  BY <1>1, CandidateIs
<1>4. y.in = e.file
  BY <1>1, CandidateIs
<1>5. y.to.rec = c.rec /\ y.to.name = c.name
  BY DEF SignOf
<1>6. PICK j \in 1 .. k - 1 : Traversal[unit][j] \in FctVisit /\ Traversal[unit][j].fct = c
  BY <1>1, <1>2, <1>3, <1>4, <1>5, DeclaredAbove
<1>7. j \in 1 .. Len(Traversal[unit]) /\ j < next
  BY <1>1, <1>2, RecordsAssumption
<1>8. DeclarationOf(c) \in Basic(Traversal[unit][j])
  BY <1>6, BasicIs
<1> QED BY <1>2, <1>7, <1>8 DEF TraversedInv

LEMMA UnmaskedStep == OverridingInv /\ [Next]_vars => UnmaskedInv'
<1> SUFFICES ASSUME OverridingInv, [Next]_vars PROVE UnmaskedInv'
  OBVIOUS
<1>1. CASE UNCHANGED vars
  BY <1>1 DEF OverridingInv, UnmaskedInv, vars
<1>2. ASSUME NEW u \in Units, Start(u) PROVE UnmaskedInv'
  BY <1>2 DEF Start, OverridingInv, UnmaskedInv
<1>3. CASE Visit
  <2> DEFINE e == Traversal[unit][next]
  <2>1. /\ e \in RecordVisit \cup FctVisit \cup CallVisit
        /\ graph' = Effect(graph, e) /\ graph \in SUBSET Shaped /\ disk' = disk
        /\ \A x \in graph' \ graph : \A y \in graph : ~SameEntry(x, y)
    BY <1>3, VisitFacts DEF Visit, OverridingInv, Inv, FilesInv, Extends
  <2> HIDE DEF e
  <2>2. ASSUME NEW c \in Overriding, NEW x \in graph', x \notin graph, Masks(x, c)
        PROVE  FALSE
    <3>1. c \in Fct /\ c.rec \in Names /\ c.rec # NoRecord
      BY OverridingType, RecordsAssumption
    <3>2. x.rel = "declared" /\ x.to = NoRecord /\ x.in = c.file /\ x.of = SignOf(c.rec, c.name)
      BY <2>2 DEF Masks
    <3>3. ASSUME NEW d \in Fct, x = DeclarationOf(d) PROVE FALSE
      <4>1. d.rec = NoRecord /\ SignOf(d.rec, d.name) = SignOf(c.rec, c.name)
        BY <3>2, <3>3, DeclarationType
      <4>2. SignOf(d.rec, d.name).rec = d.rec /\ SignOf(c.rec, c.name).rec = c.rec
        BY DEF SignOf
      <4> QED BY <3>1, <4>1, <4>2
    <3>4. PICK y \in graph : y.rel = "candidate" /\ x = VirtualOf(y)
      BY <2>1, <2>2, <3>2, <3>3, EffectOrigin
    <3>5. Home(y.in, y.at) = c.file /\ y.to = SignOf(c.rec, c.name)
      BY <3>2, <3>4, FactOfFields DEF VirtualOf
    <3>6. Has(graph, DeclarationOf(c))
      BY <3>4, <3>5, VirtualDeclared DEF OverridingInv
    <3>7. SameEntry(x, DeclarationOf(c))
      BY <3>1, <3>2, DeclarationType DEF SameEntry
    <3> QED BY <2>1, <2>2, <3>6, <3>7, SameEntryFacts DEF Has
  <2> QED BY <2>1, <2>2 DEF OverridingInv, UnmaskedInv
<1>4. CASE Finish \/ Stop
  BY <1>4 DEF Finish, Stop, OverridingInv, UnmaskedInv
<1>5. ASSUME NEW f \in Files, Rewrite(f) PROVE UnmaskedInv'
  <2>1. /\ {x \in disk' : x.in = f} = OutputOf(graph, f) /\ graph' = graph
        /\ \A x \in disk' : x.in # f => x \in disk
    BY <1>5, RewriteFacts DEF OverridingInv, Rewrite
  <2>2. ASSUME NEW c \in Overriding, NEW x \in disk', Masks(x, c) PROVE FALSE
    <3>1. CASE x.in # f
      BY <2>1, <2>2, <3>1 DEF OverridingInv, UnmaskedInv
    <3>2. CASE x.in = f
      <4>1. PICK y \in graph : x = Output(y)
        BY <2>1, <3>2 DEF OutputOf
      <4>2. x.rel = y.rel /\ x.in = y.in /\ x.of = y.of /\ x.to = y.to
        BY <4>1, OutputFacts DEF OverridingInv, Inv, FilesInv
      <4> QED BY <2>2, <4>2 DEF OverridingInv, UnmaskedInv, Masks
    <3> QED BY <3>1, <3>2
  <2> QED BY <2>1, <2>2 DEF OverridingInv, UnmaskedInv
<1> QED BY <1>1, <1>2, <1>3, <1>4, <1>5 DEF Next

-----------------------------------------------------------------------------
(* What the visit of a method that redeclares a virtual one registers.      *)

\* A declaration that is not masked is that of a method.
LEMMA OverridingMethod ==
  ASSUME OverridingInv, NEW c \in Overriding, NEW G \in SUBSET Shaped,
         Has(G, DeclarationOf(c)), \A x \in G : ~Masks(x, c)
  PROVE  IsAMethod(G, c)
<1>1. c \in Fct /\ c.rec \in Names /\ c.rec # Builtin
  BY OverridingType
<1>2. PICK x \in G : SameEntry(DeclarationOf(c), x)
  BY DEF Has
<1>3. x.in = c.file /\ x.rel = "declared" /\ x.of = SignOf(c.rec, c.name)
  BY <1>1, <1>2, DeclarationType DEF SameEntry
<1>4. x.to \in {c.rec, NoRecord} /\ x.to # NoRecord
  BY <1>3 DEF Masks, Shaped, SignOf
<1> QED BY <1>1, <1>3, <1>4 DEF IsAMethod, IsMethod

\* What is known of a method once it is declared, when the class b of u declares
\* it virtual first.
LEMMA OverridingRecorded ==
  ASSUME OverridingInv, Visit, NEW e \in FctVisit, e = Traversal[unit][next],
         NEW b \in FirstBases(unit, e.fct)
  PROVE  LET c == e.fct
             s == SignOf(c.rec, c.name)
             t == SignOf(b.name, c.name)
         IN /\ Has(graph', FactOf(c.file, "redeclared", s, t, b.file))
            /\ Has(graph', FactOf(Home(c.file, b.file), "redeclaration", t, s, c.file))
<1> DEFINE c == e.fct
           s == SignOf(c.rec, c.name)
           t == SignOf(b.name, c.name)
           G == WithDeclaration(graph, c)
<1>1. /\ unit \in Units /\ unit # NoUnit /\ next \in Nat /\ next \in 1 .. Len(Traversal[unit])
      /\ VisitedIn(unit, next, c) /\ c \in Fct /\ graph' = Declare(graph, c)
      /\ graph \in SUBSET Shaped
  BY VisitFacts, KindType, EffectIs DEF Visit, Traversing, VisitedIn, OverridingInv, Inv, FilesInv
<1>2. /\ c \in Overriding /\ c.rec \in Names
      /\ \A d \in FirstBases(unit, c) : d.file = b.file
      /\ \A k \in Nat : \A d : DerivesIn(unit, k, c, d) => k < next
  <2>1. VirtualBases(unit, c) # {}
    BY DEF FirstBases
  <2> QED BY <1>1, <2>1, SourceFacts
<1>3. /\ G \in SUBSET Shaped /\ graph \subseteq G /\ G \subseteq graph \cup {DeclarationOf(c)}
      /\ Has(G, DeclarationOf(c))
  <2> DEFINE F == {c.file}
  <2>0. c.file \in F
    OBVIOUS
  <2> HIDE DEF F
  <2>1. /\ Extends(graph, G, F) /\ Has(G, DeclarationOf(c))
        /\ G \subseteq graph \cup {DeclarationOf(c)}
    BY <1>1, <2>0, WithDeclarationFacts
  <2> HIDE DEF G, c
  <2> QED BY <2>1, ExtendsIs
<1>4. /\ s \in Sign /\ c.file \in Files /\ c.name \in Methods /\ s.rec = c.rec /\ s.name = c.name
      /\ t.rec = b.name /\ t.name = c.name
  BY <1>1, KindType, SignOfType DEF SignOf
<1>5. DeclarationOf(c).to # NoRecord /\ DeclarationOf(c).rel = "declared"
  BY <1>1, <1>2, DeclarationType, RecordsAssumption
<1> HIDE DEF c, G, s, t
<1>6. IsAMethod(G, c)
  <2>1. \A x \in G : ~Masks(x, c)
    BY <1>2, <1>3, <1>5 DEF OverridingInv, UnmaskedInv, Masks
  <2> QED BY <1>2, <1>3, <2>1, OverridingMethod
\* The candidate.
<1>7. PICK k0 \in Nat : DerivesIn(unit, k0, c, b)
  BY <1>1, FirstBasesFacts DEF c
<1>8. PICK x \in graph : x.rel = "candidate" /\ x.in = c.file /\ x.of = c.rec /\ x.to = t
  <2> DEFINE y == FactOf(c.file, "candidate", c.rec, SignOf(b.name, c.name), b.file)
             d == Traversal[unit][k0]
  <2>1. /\ k0 < next /\ k0 \in 1 .. Len(Traversal[unit]) /\ d \in RecordVisit
        /\ d.name = c.rec /\ d.file = c.file /\ b \in d.bases /\ c.name \in b.virtual
    BY <1>2, <1>7 DEF DerivesIn
  <2>2. y \in Inheritance(d, b)
    BY <2>1 DEF Inheritance
  <2>3. y \in Basic(d)
    BY <2>1, <2>2, BasicIs DEF RecordFacts
  <2>4. Has(graph, y)
    BY <1>1, <2>1, <2>3 DEF OverridingInv, TraversedInv
  <2> QED BY <2>4, FactOfFields DEF Has, SameEntry, t
\* It is the first one, and its place is that of b.
<1>9. ASSUME NEW y \in graph, y.rel = "candidate", y.to.name = c.name, y.in = c.file, y.of = c.rec
      PROVE  \E d : /\ \E k \in Nat : DerivesIn(unit, k, c, d)
                    /\ y.to.rec = d.name /\ y.at = d.file
  <2>1. PICK k \in 1 .. Len(Traversal[unit]) :
          Traversal[unit][k] \in RecordVisit /\ y \in RecordFacts(Traversal[unit][k])
    BY <1>9 DEF OverridingInv, CandidatesInv
  <2>2. /\ y.in = Traversal[unit][k].file /\ y.of = Traversal[unit][k].name
        /\ \E d \in Traversal[unit][k].bases :
             y.to.rec = d.name /\ y.to.name \in d.virtual /\ y.at = d.file
    BY <1>9, <2>1, CandidateIs
  <2>3. k \in Nat
    BY <1>1, RecordsAssumption
  <2> QED BY <1>9, <2>1, <2>2, <2>3 DEF DerivesIn
<1>10. x.at = b.file
  <2>1. PICK d : (\E k \in Nat : DerivesIn(unit, k, c, d)) /\ x.to.rec = d.name /\ x.at = d.file
    BY <1>4, <1>8, <1>9
  <2>2. d \in FirstBases(unit, c)
    BY <1>1, <1>4, <1>8, <2>1, FirstBasesFacts DEF c
  <2> QED BY <1>2, <2>1, <2>2
<1>11. x \in FirstCandidates(G, c.name)
  <2>1. x \in G /\ x.rel = "candidate" /\ x.to.name = c.name
    BY <1>3, <1>4, <1>8
  <2>2. ASSUME NEW y \in G, y.rel = "candidate", y.to.name = c.name, y.in = x.in, y.of = x.of
        PROVE  Rank[x.to.rec] <= Rank[y.to.rec]
    <3>1. y \in graph
      BY <1>3, <1>5, <2>2
    <3>2. PICK d : (\E k \in Nat : DerivesIn(unit, k, c, d)) /\ y.to.rec = d.name
      BY <1>8, <1>9, <2>2, <3>1
    <3> QED BY <1>1, <1>4, <1>8, <3>2, FirstBasesFacts DEF c
  <2> QED BY <2>1, <2>2 DEF FirstCandidates
<1>12. x \in Redeclared(G, c.file, s)
  <2> DEFINE C == FirstCandidates(G, s.name)
             Of(g, r) == {y \in C : y.in = g /\ y.of = r.rec /\ IsMethod(G, g, r)}
  <2>1. x \in Of(c.file, s)
    BY <1>4, <1>6, <1>8, <1>11 DEF IsAMethod, s
  <2>2. x \in C
    BY <1>4, <1>11
  <2>3. Redeclared(G, c.file, s) =
          {y \in C : \A S \in SUBSET C :
             (Of(c.file, s) \subseteq S /\ \A z \in S : Of(Home(z.in, z.at), z.to) \subseteq S) => y \in S}
    BY DEF Redeclared
  <2> HIDE DEF C, Of
  <2> QED BY <2>1, <2>2, <2>3
\* What it registers.
<1>13. PICK d \in G : d.in = c.file /\ d.rel = "declared" /\ d.of = s
  BY <1>6 DEF IsAMethod, IsMethod, s
<1>14. \A y \in Redeclaration(G, x) : Has(graph', y)
  <2>1. graph' = Insert(G, MethodFacts(G, c))
    BY <1>1, <1>6, DeclareIs DEF G
  <2>2. Redeclaration(G, x) \subseteq MethodFacts(G, c)
    BY <1>12 DEF MethodFacts, RedeclarationsOf, s
  <2> QED BY <2>1, <2>2, InsertFacts
<1>15. SignOf(x.of, x.to.name) = s
  BY <1>4, <1>8 DEF s
<1>16. RedeclaredBy(x) \in Redeclaration(G, x) /\ RedeclarationAt(x, d.at) \in Redeclaration(G, x)
  BY <1>3, <1>8, <1>13, <1>15, RedeclarationFacts
<1>17. Has(graph', RedeclaredBy(x)) /\ Has(graph', RedeclarationAt(x, d.at))
  BY <1>14, <1>16
<1>18. RedeclaredBy(x) = FactOf(c.file, "redeclared", s, t, b.file)
  BY <1>8, <1>10, <1>15 DEF RedeclaredBy
<1>19. SameEntry(RedeclarationAt(x, d.at), FactOf(Home(c.file, b.file), "redeclaration", t, s, c.file))
  BY <1>8, <1>10, <1>15, FactOfFields DEF RedeclarationAt, SameEntry
<1>20. Has(graph', FactOf(Home(c.file, b.file), "redeclaration", t, s, c.file))
  BY <1>17, <1>19, SameEntryFacts DEF Has
<1> QED BY <1>17, <1>18, <1>20 DEF c, s, t

-----------------------------------------------------------------------------
(* What an analysis records.                                               *)

RecordedInv ==
  unit # NoUnit =>
    \A k \in 1 .. Len(Traversal[unit]) : k < next => Recorded(graph, unit, Traversal[unit][k])

\* For records and calls, it is what they always register.
LEMMA BasicRecorded ==
  ASSUME NEW G, NEW u, NEW e \in RecordVisit \cup CallVisit, \A x \in Basic(e) : Has(G, x)
  PROVE  Recorded(G, u, e)
<1>1. CASE e \in RecordVisit
  <2>1. RecordAt(e.file, e.name, e.file) \in Basic(e)
    BY <1>1, BasicIs DEF RecordFacts
  <2>2. ASSUME NEW b \in e.bases
        PROVE  /\ FactOf(e.file, "inherits", e.name, b.name, b.file) \in Basic(e)
               /\ FactOf(b.file, "inherited", b.name, e.name, e.file) \in Basic(e)
    <3>1. /\ FactOf(e.file, "inherits", e.name, b.name, b.file) \in Inheritance(e, b)
          /\ FactOf(b.file, "inherited", b.name, e.name, e.file) \in Inheritance(e, b)
      BY DEF Inheritance
    <3> QED BY <1>1, <3>1, BasicIs DEF RecordFacts
  <2> QED BY <1>1, <2>1, <2>2, KindType DEF Recorded
<1>2. CASE e \in CallVisit
  <2>1. BetweenRecords(e) =>
          FactOf(e.callee.file, "called", e.callee.rec, e.caller.rec, NoPlace) \in Basic(e)
    BY <1>2, BasicIs DEF CallFacts
  <2> QED BY <1>2, <2>1, KindType DEF Recorded
<1> QED BY <1>1, <1>2

LEMMA RecordedGrows ==
  ASSUME NEW G, NEW H, NEW u, NEW e \in RecordVisit \cup FctVisit \cup CallVisit,
         Recorded(G, u, e),
         \A x : x.rel # "candidate" /\ Has(G, x) => Has(H, x)
  PROVE  Recorded(H, u, e)
<1>0. ASSUME NEW f, NEW r, NEW x, NEW y, NEW g, r # "candidate", Has(G, FactOf(f, r, x, y, g))
      PROVE  Has(H, FactOf(f, r, x, y, g))
  BY <1>0, FactOfFields
<1>1. CASE e \in RecordVisit
  BY <1>0, <1>1, KindType DEF Recorded, RecordAt
<1>2. CASE e \in FctVisit
  BY <1>0, <1>2, KindType DEF Recorded
<1>3. CASE e \in CallVisit
  BY <1>0, <1>3, KindType DEF Recorded
<1> QED BY <1>1, <1>2, <1>3

LEMMA RecordedStep == OverridingInv /\ RecordedInv /\ [Next]_vars => RecordedInv'
<1> SUFFICES ASSUME OverridingInv, RecordedInv, [Next]_vars PROVE RecordedInv'
  OBVIOUS
<1>1. CASE UNCHANGED vars
  BY <1>1 DEF RecordedInv, vars
<1>2. ASSUME NEW u \in Units, Start(u) PROVE RecordedInv'
  BY <1>2 DEF Start, RecordedInv
<1>3. CASE Visit
  <2>1. /\ unit' = unit /\ unit # NoUnit /\ unit \in Units /\ next' = next + 1
        /\ next \in Nat /\ next \in 1 .. Len(Traversal[unit])
    BY <1>3, VisitFacts DEF Visit, Traversing, OverridingInv, Inv, TypeOK
  <2>2. SUFFICES ASSUME NEW k \in 1 .. Len(Traversal[unit]), k < next'
                 PROVE  Recorded(graph', unit, Traversal[unit][k])
    BY <2>1 DEF RecordedInv
  <2> DEFINE e == Traversal[unit][k]
  <2> SUFFICES Recorded(graph', unit, e)
    OBVIOUS
  <2>3. e \in RecordVisit \cup FctVisit \cup CallVisit
    BY <2>1, EventType
  <2>4. CASE k < next
    <3>1. graph \subseteq graph'
      BY <1>3, VisitFacts DEF OverridingInv, Extends
    <3>2. Recorded(graph, unit, e)
      BY <2>1, <2>4 DEF RecordedInv
    <3>3. \A x : x.rel # "candidate" /\ Has(graph, x) => Has(graph', x)
      BY <3>1, HasGrows
    <3> HIDE DEF e
    <3> QED BY <2>3, <3>2, <3>3, RecordedGrows
  <2>5. CASE k = next
    <3>1. graph \in SUBSET Shaped /\ CandidatesIn(graph, opened') /\ FilesOf(e) \subseteq opened'
          /\ graph' = Effect(graph, e)
      BY <1>3, <2>5, VisitFacts DEF Visit, OverridingInv, Inv, FilesInv, CandidatesIn
    <3>2. \A x \in Basic(e) : Has(graph', x)
      <4> HIDE DEF e
      <4> QED BY <2>3, <3>1, EffectBasic
    <3>3. CASE e \in RecordVisit \cup CallVisit
      <4> HIDE DEF e
      <4> QED BY <3>2, <3>3, BasicRecorded
    <3>4. CASE e \in FctVisit
      <4>1. Has(graph', DeclarationOf(e.fct))
        BY <3>2, <3>4, BasicIs
      <4>2. e = Traversal[unit][next]
        BY <2>5
      <4> HIDE DEF e
      <4>3. ASSUME NEW b \in FirstBases(unit, e.fct)
            PROVE  LET c == e.fct
                       s == SignOf(c.rec, c.name)
                       t == SignOf(b.name, c.name)
                   IN /\ Has(graph', FactOf(c.file, "redeclared", s, t, b.file))
                      /\ Has(graph', FactOf(Home(c.file, b.file), "redeclaration", t, s, c.file))
        BY <1>3, <3>4, <4>2, OverridingRecorded
      <4> QED BY <3>4, <4>1, <4>3, KindType DEF Recorded, DeclarationOf
    <3> QED BY <2>3, <3>3, <3>4
  <2> QED BY <2>1, <2>2, <2>4, <2>5
<1>4. CASE Finish \/ Stop
  BY <1>4 DEF Finish, Stop, RecordedInv
<1>5. ASSUME NEW f \in Files, Rewrite(f) PROVE RecordedInv'
  BY <1>5 DEF Rewrite, RecordedInv
<1> QED BY <1>1, <1>2, <1>3, <1>4, <1>5 DEF Next

\* When all opened files are rewritten, what is known is in the json files.
LEMMA FinishedHas ==
  ASSUME Inv, opened = written, NEW x, x.rel # "candidate", Has(graph, x)
  PROVE  Has(disk, x)
<1>1. PICK y \in graph : SameEntry(x, y)
  BY DEF Has
<1>2. CASE y.in \in opened
  <2>1. x.in = y.in
    BY <1>1 DEF SameEntry
  <2> QED BY <1>2, <2>1, RewrittenHas
<1>3. CASE y.in \notin opened
  <2>1. y \in disk
    BY <1>3 DEF Inv, FilesInv
  <2> QED BY <1>1, <2>1 DEF Has
<1> QED BY <1>2, <1>3

LEMMA RecordedDone ==
  OverridingInv /\ RecordedInv /\ AnalysedIsRecorded /\ [Next]_vars => AnalysedIsRecorded'
<1> SUFFICES ASSUME OverridingInv, RecordedInv, AnalysedIsRecorded, [Next]_vars,
                    NEW u \in done', NEW e \in Events(u)
             PROVE  Recorded(disk', u, e)
  BY DEF AnalysedIsRecorded
<1>1. disk \subseteq disk'
  BY DiskGrows DEF OverridingInv
<1>2. u \in Units
  <2>1. TypeOK'
    BY InvStep DEF OverridingInv, Inv
  <2> QED BY <2>1 DEF TypeOK
<1>3. e \in RecordVisit \cup FctVisit \cup CallVisit
  BY <1>2, EventType DEF Events
<1>4. CASE u \in done
  <2>1. Recorded(disk, u, e)
    BY <1>4 DEF AnalysedIsRecorded
  <2>2. \A x : x.rel # "candidate" /\ Has(disk, x) => Has(disk', x)
    BY <1>1, HasGrows
  <2> QED BY <1>3, <2>1, <2>2, RecordedGrows
<1>5. CASE u \notin done
  <2>1. Finish /\ u = unit
    BY <1>5 DEF Next, Start, Visit, Rewrite, Finish, Stop, vars
  <2>2. unit # NoUnit /\ ~Traversing /\ opened = written /\ next \in Nat
    BY <2>1 DEF Finish, OverridingInv, Inv, TypeOK
  <2>3. PICK k \in 1 .. Len(Traversal[u]) : e = Traversal[u][k]
    BY DEF Events
  <2>4. k < next
    BY <1>2, <2>1, <2>2, <2>3, RecordsAssumption DEF Traversing
  <2>5. Recorded(graph, u, e)
    BY <2>1, <2>2, <2>3, <2>4 DEF RecordedInv
  <2>6. \A x : x.rel # "candidate" /\ Has(graph, x) => Has(disk', x)
    BY <1>1, <2>2, FinishedHas, HasGrows DEF OverridingInv
  <2> QED BY <1>3, <2>5, <2>6, RecordedGrows
<1> QED BY <1>4, <1>5

LEMMA OverridingInit == Init => OverridingInv /\ RecordedInv /\ AnalysedIsRecorded
<1> SUFFICES ASSUME Init PROVE OverridingInv /\ RecordedInv /\ AnalysedIsRecorded
  OBVIOUS
<1>1. graph = {} /\ disk = {} /\ done = {} /\ unit = NoUnit
  BY DEF Init
<1> QED BY <1>1, InvInit
        DEF OverridingInv, TraversedInv, CandidatesInv, UnmaskedInv, RecordedInv, AnalysedIsRecorded

\* Once a unit has been analysed to the end, its records with their base
\* classes, its functions, the virtual methods they redeclare and the calls
\* between its records are in the json files, and stay there, whatever analyses
\* run, or are stopped between the rewriting of two files, afterwards.
THEOREM AnalysesRecord == Spec => []AnalysedIsRecorded
<1>1. OverridingInv /\ [Next]_vars => OverridingInv'
  BY InvStep, TraversedStep, CandidatesStep, UnmaskedStep DEF OverridingInv
<1>2. OverridingInv /\ RecordedInv /\ AnalysedIsRecorded /\ [Next]_vars
        => (OverridingInv /\ RecordedInv /\ AnalysedIsRecorded)'
  BY <1>1, RecordedStep, RecordedDone
<1> QED BY <1>2, OverridingInit, PTL DEF Spec

-----------------------------------------------------------------------------
(* A unit that is analysed again.  The candidates that are known when an    *)
(* event is visited are the same each time, and what the declaration of a   *)
(* method registers then depends on nothing that has changed since.         *)

\* The candidates of the events before k: the first of each entry.
CandidatesOf(u, k) ==
  {x \in Shaped :
     /\ x.rel = "candidate"
     /\ \E i \in 1 .. Len(Traversal[u]) :
          /\ i < k /\ Traversal[u][i] \in RecordVisit /\ x \in RecordFacts(Traversal[u][i])
          /\ \A j \in 1 .. Len(Traversal[u]) :
               j < i /\ Traversal[u][j] \in RecordVisit =>
                 \A y \in RecordFacts(Traversal[u][j]) : ~SameEntry(x, y)}

KnownInv ==
  unit # NoUnit => {x \in graph : x.rel = "candidate"} = CandidatesOf(unit, next)

\* Declarations of the same function agree on its record.
Agree(G) ==
  \A x, y \in G : x.rel = "declared" /\ SameEntry(x, y) => x.to = y.to

\* What Redeclared looks for, among the candidates C.
Direct(G, C, g, t) == {x \in C : x.in = g /\ x.of = t.rec /\ IsMethod(G, g, t)}
VirtualFile(y) == Home(y.in, y.at)
Closed(G, C, f, s, S) ==
  /\ Direct(G, C, f, s) \subseteq S
  /\ \A y \in S : Direct(G, C, VirtualFile(y), y.to) \subseteq S

Known(G, f, s) == \E d \in G : d.rel = "declared" /\ d.in = f /\ d.of = s

\* G has all that the redeclarations of the candidates S register.
Complete(G, S) ==
  \A y \in S : /\ Known(G, VirtualFile(y), y.to)
               /\ Has(G, RedeclaredBy(y)) /\ Has(G, RedeclarationAt(y, NoPlace))

\* G has all that the declaration of c registers when the candidates are C.
Settles(G, C, c) ==
  LET s == SignOf(c.rec, c.name)
  IN /\ Has(G, DeclarationOf(c))
     /\ IsAMethod(G, c) =>
          /\ Has(G, RecordAt(c.file, c.rec, NoPlace))
          /\ \E S \in SUBSET FirstCandidates(C, c.name) :
               Closed(G, FirstCandidates(C, c.name), c.file, s, S) /\ Complete(G, S)

Settled(G, u, k) ==
  \A c \in DeclaredBy(Traversal[u][k]) : Settles(G, CandidatesOf(u, k), c)

SettledInv ==
  /\ unit # NoUnit =>
       \A k \in 1 .. Len(Traversal[unit]) : k < next => Settled(graph, unit, k)
  /\ \A u \in done : \A k \in 1 .. Len(Traversal[u]) : Settled(disk, u, k)

\* An analysis that is done again has nothing new but the candidates.
NothingNew == unit \in done => \A x \in graph : x.rel # "candidate" => x \in disk

AgainInv ==
  Inv /\ TraversedInv /\ DoneInv /\ KnownInv /\ Agree(graph) /\ SettledInv /\ NothingNew

LEMMA KnownStep == Inv /\ TraversedInv /\ KnownInv /\ [Next]_vars => KnownInv'
<1> SUFFICES ASSUME Inv, TraversedInv, KnownInv, [Next]_vars PROVE KnownInv'
  OBVIOUS
<1>1. CASE UNCHANGED vars
  BY <1>1 DEF KnownInv, vars
<1>2. ASSUME NEW u \in Units, Start(u) PROVE KnownInv'
  <2>1. graph' = disk /\ unit' = u /\ next' = 1
    BY <1>2 DEF Start, Inv, TypeOK
  <2>2. {x \in disk : x.rel = "candidate"} = {}
    BY DEF Inv, FilesInv, OutputShape
  <2>3. CandidatesOf(u, 1) = {}
    BY RecordsAssumption DEF CandidatesOf
  <2> QED BY <2>1, <2>2, <2>3 DEF KnownInv
<1>3. CASE Visit
  <2> DEFINE e == Traversal[unit][next]
  <2>1. /\ e \in RecordVisit \cup FctVisit \cup CallVisit /\ unit \in Units
        /\ graph' = Effect(graph, e) /\ graph \in SUBSET Shaped /\ graph' \in SUBSET Shaped
        /\ graph \subseteq graph' /\ \A x \in graph' \ graph : \A y \in graph : ~SameEntry(x, y)
    BY <1>3, VisitFacts DEF Visit, Inv, FilesInv, Extends
  <2>2. /\ unit' = unit /\ unit # NoUnit /\ next' = next + 1
        /\ next \in Nat /\ next \in 1 .. Len(Traversal[unit])
    BY <1>3, VisitFacts DEF Visit, Traversing, Inv, TypeOK
  <2>3. \A i \in 1 .. Len(Traversal[unit]) : i < next + 1 <=> (i < next \/ i = next)
    BY <2>2, RecordsAssumption
  <2>4. {x \in graph : x.rel = "candidate"} = CandidatesOf(unit, next)
    BY <2>2 DEF KnownInv
\* The entries of the events visited before are known.
  <2>5. ASSUME NEW j \in 1 .. Len(Traversal[unit]), j < next, Traversal[unit][j] \in RecordVisit,
               NEW y \in RecordFacts(Traversal[unit][j])
        PROVE  Has(graph, y)
    BY <2>2, <2>5, BasicIs DEF TraversedInv
  <2>6. ASSUME NEW x \in CandidatesOf(unit, next + 1) PROVE x \in graph' /\ x.rel = "candidate"
    <3>1. PICK i \in 1 .. Len(Traversal[unit]) :
            /\ i < next + 1 /\ Traversal[unit][i] \in RecordVisit /\ x \in RecordFacts(Traversal[unit][i])
            /\ \A j \in 1 .. Len(Traversal[unit]) :
                 j < i /\ Traversal[unit][j] \in RecordVisit =>
                   \A y \in RecordFacts(Traversal[unit][j]) : ~SameEntry(x, y)
      BY <2>6 DEF CandidatesOf
    <3>2. x \in Shaped /\ x.rel = "candidate"
      BY <2>6 DEF CandidatesOf
    <3>3. CASE i < next
      <4>1. x \in CandidatesOf(unit, next)
        BY <3>1, <3>2, <3>3 DEF CandidatesOf
      <4> QED BY <2>1, <2>4, <3>2, <4>1
    <3>4. CASE i = next
      <4>1. ASSUME NEW y \in graph, SameEntry(x, y) PROVE FALSE
        <5>1. y.rel = "candidate"
          BY <3>2, <4>1 DEF SameEntry
        <5>2. y \in CandidatesOf(unit, next)
          BY <2>4, <5>1
        <5>3. PICK j \in 1 .. Len(Traversal[unit]) :
                j < next /\ Traversal[unit][j] \in RecordVisit /\ y \in RecordFacts(Traversal[unit][j])
          BY <5>2 DEF CandidatesOf
        <5> QED BY <3>1, <3>4, <4>1, <5>3
      <4>2. graph' = Insert(graph, RecordFacts(e)) /\ x \in RecordFacts(e)
        BY <2>1, <3>1, <3>4, EffectIs, VisitRecordFacts
      <4> QED BY <3>2, <4>1, <4>2 DEF Insert
    <3> QED BY <2>3, <3>1, <3>3, <3>4
  <2>7. ASSUME NEW x \in graph', x.rel = "candidate" PROVE x \in CandidatesOf(unit, next + 1)
    <3>1. CASE x \in graph
      <4>1. x \in CandidatesOf(unit, next)
        BY <2>4, <2>7, <3>1
      <4> QED BY <2>3, <4>1 DEF CandidatesOf
    <3>2. CASE x \notin graph
      <4>1. e \in RecordVisit /\ x \in RecordFacts(e) /\ x \in Shaped
        BY <2>1, <2>7, <3>2, EffectOrigin
      <4>2. \A j \in 1 .. Len(Traversal[unit]) :
              j < next /\ Traversal[unit][j] \in RecordVisit =>
                \A y \in RecordFacts(Traversal[unit][j]) : ~SameEntry(x, y)
        BY <2>1, <2>5, <3>2, SameEntryFacts DEF Has
      <4> QED BY <2>2, <2>3, <2>7, <4>1, <4>2 DEF CandidatesOf
    <3> QED BY <3>1, <3>2
  <2>8. {x \in graph' : x.rel = "candidate"} = CandidatesOf(unit, next + 1)
    BY <2>6, <2>7
  <2> QED BY <2>2, <2>8 DEF KnownInv
<1>4. CASE Finish \/ Stop
  BY <1>4 DEF Finish, Stop, KnownInv
<1>5. ASSUME NEW f \in Files, Rewrite(f) PROVE KnownInv'
  BY <1>5 DEF Rewrite, KnownInv
<1> QED BY <1>1, <1>2, <1>3, <1>4, <1>5 DEF Next

\* Entries inserted together agree if they are all those of one declaration, or
\* all those of virtual methods.
LEMMA AgreeInsert ==
  ASSUME NEW G, NEW X, Agree(G),
         \A x, y \in X : x.rel = "declared" /\ SameEntry(x, y) => x.to = y.to
  PROVE  Agree(Insert(G, X))
<1> SUFFICES ASSUME NEW x \in Insert(G, X), NEW y \in Insert(G, X),
                    x.rel = "declared", SameEntry(x, y)
             PROVE  x.to = y.to
  BY DEF Agree
<1>1. CASE x \in G /\ y \in G
  BY <1>1 DEF Agree
<1>2. CASE x \in G /\ y \notin G
  BY <1>2, InsertFacts, SameEntryFacts
<1>3. CASE x \notin G /\ y \in G
  BY <1>3, InsertFacts
<1>4. CASE x \notin G /\ y \notin G
  BY <1>4, InsertFacts
<1> QED BY <1>1, <1>2, <1>3, <1>4

LEMMA MethodFactsDeclared ==
  ASSUME NEW G \in SUBSET Shaped, NEW c \in Fct, NEW x \in MethodFacts(G, c), x.rel = "declared"
  PROVE  x.to = NoRecord
<1>1. SignOf(c.rec, c.name) \in Sign /\ c.file \in Files
  BY KindType, SignOfType
<1>2. x # RecordAt(c.file, c.rec, NoPlace)
  BY FactOfFields DEF RecordAt
<1>3. PICK y \in Redeclared(G, c.file, SignOf(c.rec, c.name)) : x \in Redeclaration(G, y)
  BY <1>2 DEF MethodFacts, RedeclarationsOf
<1>4. y \in G /\ y.rel = "candidate"
  BY <1>1, RedeclaredFacts
<1>5. x \in {VirtualOf(y), RedeclaredBy(y)} \/ \E g : x = RedeclarationAt(y, g)
  BY <1>3, <1>4, RedeclarationFacts
<1> QED BY <1>5, FactOfFields DEF VirtualOf, RedeclaredBy, RedeclarationAt

LEMMA AgreeDeclare ==
  ASSUME NEW G \in SUBSET Shaped, NEW c \in Fct, Agree(G)
  PROVE  Agree(WithDeclaration(G, c)) /\ Agree(Declare(G, c))
<1>1. Agree(WithDeclaration(G, c))
  BY AgreeInsert DEF WithDeclaration
<1> DEFINE G1 == WithDeclaration(G, c)
<1>2. G1 \in SUBSET Shaped
  BY WithDeclarationFacts DEF Extends
<1>3. Declare(G, c) = IF ~IsAMethod(G1, c) THEN G1 ELSE Insert(G1, MethodFacts(G1, c))
  BY DeclareIs
<1> HIDE DEF G1
<1>4. Agree(G1)
  BY <1>1 DEF G1
<1>5. ASSUME NEW x \in MethodFacts(G1, c), NEW y \in MethodFacts(G1, c),
             x.rel = "declared", SameEntry(x, y)
      PROVE  x.to = y.to
  <2>1. y.rel = "declared"
    BY <1>5 DEF SameEntry
  <2> QED BY <1>2, <1>5, <2>1, MethodFactsDeclared
<1>6. Agree(Insert(G1, MethodFacts(G1, c)))
  BY <1>4, <1>5, AgreeInsert
<1> QED BY <1>3, <1>4, <1>6 DEF G1

LEMMA AgreeEffect ==
  ASSUME NEW G \in SUBSET Shaped, NEW e \in RecordVisit \cup FctVisit \cup CallVisit, Agree(G)
  PROVE  Agree(Effect(G, e))
<1>1. CASE e \in RecordVisit
  <2>1. Effect(G, e) = Insert(G, RecordFacts(e))
    BY <1>1, EffectIs, VisitRecordFacts
  <2>2. \A x \in RecordFacts(e) : x.rel # "declared"
    BY RecordFactsRels
  <2> QED BY <2>1, <2>2, AgreeInsert
<1>2. CASE e \in FctVisit
  BY <1>2, EffectIs, KindType, AgreeDeclare
<1>3. CASE e \in CallVisit
  <2>1. Effect(G, e) = Insert(Declare(G, e.callee), CallFacts(e)) /\ e.callee \in Fct
    BY <1>3, EffectIs, KindType
  <2>2. \A x \in CallFacts(e) : x.rel # "declared"
    BY CallFactsRels
  <2>3. Agree(Declare(G, e.callee))
    BY <2>1, AgreeDeclare
  <2> QED BY <2>1, <2>2, <2>3, AgreeInsert
<1> QED BY <1>1, <1>2, <1>3

\* The files agree as much as what the process knows.
LEMMA AgreeDisk ==
  ASSUME Inv, Agree(graph)
  PROVE  Agree(disk)
<1>1. ASSUME NEW x \in disk, x.in \in written
      PROVE  \E y \in graph : SameEntry(x, y) /\ x.to = y.to /\ x.rel = y.rel
  <2>1. x \in OutputOf(graph, x.in)
    BY <1>1 DEF Inv, FilesInv
  <2>2. PICK y \in graph : x = Output(y)
    BY <2>1 DEF OutputOf
  <2> QED BY <2>2, OutputFacts DEF Inv, FilesInv
<1>2. ASSUME NEW x \in disk, x.in \notin written PROVE x \in graph
  BY <1>2 DEF Inv, FilesInv
<1>3. ASSUME NEW x \in disk
      PROVE  \E y \in graph : SameEntry(x, y) /\ x.to = y.to /\ x.rel = y.rel
  BY <1>1, <1>2, SameEntryFacts
<1> SUFFICES ASSUME NEW x \in disk, NEW y \in disk, x.rel = "declared", SameEntry(x, y)
             PROVE  x.to = y.to
  BY DEF Agree
<1>4. PICK v \in graph : SameEntry(x, v) /\ x.to = v.to /\ x.rel = v.rel
  BY <1>3
<1>5. PICK w \in graph : SameEntry(y, w) /\ y.to = w.to /\ y.rel = w.rel
  BY <1>3
<1>6. SameEntry(v, w)
  BY <1>4, <1>5, SameEntryFacts
<1> QED BY <1>4, <1>5, <1>6 DEF Agree

LEMMA AgreeStep == Inv /\ Agree(graph) /\ [Next]_vars => Agree(graph')
<1> SUFFICES ASSUME Inv, Agree(graph), [Next]_vars PROVE Agree(graph')
  OBVIOUS
<1>1. CASE graph' = graph
  BY <1>1
<1>2. CASE graph' = disk
  BY <1>2, AgreeDisk
<1>3. CASE Visit
  <2>1. /\ graph' = Effect(graph, Traversal[unit][next]) /\ graph \in SUBSET Shaped
        /\ Traversal[unit][next] \in RecordVisit \cup FctVisit \cup CallVisit
    BY <1>3, VisitFacts DEF Visit, Inv, FilesInv
  <2> QED BY <2>1, AgreeEffect
<1> QED BY <1>1, <1>2, <1>3 DEF Next, Start, Finish, Stop, Rewrite, vars

\* H has all that is output of G.
Covers(G, H) ==
  \A x \in G : x.rel # "candidate" =>
    \E y \in H : SameEntry(x, y) /\ (x.rel = "declared" => x.to = y.to)

LEMMA CoversHas ==
  ASSUME NEW G, NEW H, Covers(G, H), NEW x, x.rel # "candidate", Has(G, x)
  PROVE  Has(H, x)
<1>1. PICK y \in G : SameEntry(x, y)
  BY DEF Has
<1>2. y.rel # "candidate"
  BY <1>1 DEF SameEntry
<1>3. PICK z \in H : SameEntry(y, z)
  BY <1>1, <1>2 DEF Covers
<1> QED BY <1>1, <1>3, SameEntryFacts DEF Has

LEMMA CoversMore ==
  ASSUME NEW G, NEW H, G \subseteq H
  PROVE  Covers(G, H)
BY SameEntryFacts DEF Covers

\* Of two graphs that agree, the larger has the same methods among the functions
\* that the smaller knows.
LEMMA SameMethods ==
  ASSUME NEW G \in SUBSET Shaped, NEW H, Agree(H), NEW f, NEW s, Known(G, f, s), Covers(G, H)
  PROVE  Known(H, f, s) /\ (IsMethod(G, f, s) <=> IsMethod(H, f, s))
<1>1. PICK d \in G : d.rel = "declared" /\ d.in = f /\ d.of = s
  BY DEF Known
<1>2. PICK e \in H : SameEntry(d, e) /\ d.to = e.to
  BY <1>1 DEF Covers
<1>3. e.rel = "declared" /\ e.in = f /\ e.of = s
  BY <1>1, <1>2 DEF SameEntry
<1>4. ASSUME IsMethod(H, f, s) PROVE IsMethod(G, f, s)
  <2>1. PICK y \in H : y.in = f /\ y.rel = "declared" /\ y.of = s /\ y.to \notin {NoRecord, Builtin}
    BY <1>4 DEF IsMethod
  <2>2. SameEntry(y, e)
    BY <1>3, <2>1 DEF SameEntry
  <2>3. y.to = d.to
    BY <1>2, <2>1, <2>2 DEF Agree
  <2> QED BY <1>1, <2>1, <2>3 DEF IsMethod
<1>5. ASSUME IsMethod(G, f, s) PROVE IsMethod(H, f, s)
  <2>1. PICK x \in G : x.in = f /\ x.rel = "declared" /\ x.of = s /\ x.to \notin {NoRecord, Builtin}
    BY <1>5 DEF IsMethod
  <2>2. PICK y \in H : SameEntry(x, y) /\ x.to = y.to
    BY <2>1 DEF Covers
  <2> QED BY <2>1, <2>2 DEF IsMethod, SameEntry
<1> QED BY <1>3, <1>4, <1>5 DEF Known

LEMMA HasDeclaration ==
  ASSUME NEW G, NEW c \in Fct, Has(G, DeclarationOf(c))
  PROVE  Known(G, c.file, SignOf(c.rec, c.name))
<1>1. PICK y \in G : SameEntry(DeclarationOf(c), y)
  BY DEF Has
<1> QED BY <1>1, DeclarationType DEF SameEntry, Known

\* What is settled stays settled.
LEMMA SettlesGrows ==
  ASSUME NEW G \in SUBSET Shaped, NEW H, Agree(H), Covers(G, H), NEW C, NEW c \in Fct,
         Settles(G, C, c)
  PROVE  Settles(H, C, c)
<1> DEFINE s == SignOf(c.rec, c.name)
           F == FirstCandidates(C, c.name)
<1>1. Has(G, DeclarationOf(c))
  BY DEF Settles
<1>2. Has(H, DeclarationOf(c))
  BY <1>1, CoversHas, DeclarationType
<1>3. IsAMethod(G, c) <=> IsAMethod(H, c)
  BY <1>1, HasDeclaration, SameMethods DEF IsAMethod
<1>4. CASE ~IsAMethod(G, c)
  BY <1>2, <1>3, <1>4 DEF Settles
<1>5. CASE IsAMethod(G, c)
  <2>1. PICK S \in SUBSET F : Closed(G, F, c.file, s, S) /\ Complete(G, S)
    BY <1>5 DEF Settles
  <2>2. Has(G, RecordAt(c.file, c.rec, NoPlace))
    BY <1>5 DEF Settles
  <2>3. Has(H, RecordAt(c.file, c.rec, NoPlace))
    BY <2>2, CoversHas, FactOfFields DEF RecordAt
  <2> HIDE DEF s, F
  <2>4. ASSUME NEW g, NEW r, Known(G, g, r), Direct(G, F, g, r) \subseteq S
        PROVE  Direct(H, F, g, r) \subseteq S
    BY <2>4, SameMethods DEF Direct
  <2>5. Known(G, c.file, s)
    BY <1>1, HasDeclaration DEF s
  <2>6. ASSUME NEW y \in S
        PROVE  /\ Known(G, VirtualFile(y), y.to) /\ Known(H, VirtualFile(y), y.to)
               /\ Has(H, RedeclaredBy(y)) /\ Has(H, RedeclarationAt(y, NoPlace))
    <3>1. /\ Known(G, VirtualFile(y), y.to)
          /\ Has(G, RedeclaredBy(y)) /\ Has(G, RedeclarationAt(y, NoPlace))
      BY <2>1 DEF Complete
    <3>2. RedeclaredBy(y).rel # "candidate" /\ RedeclarationAt(y, NoPlace).rel # "candidate"
      BY FactOfFields DEF RedeclaredBy, RedeclarationAt
    <3> QED BY <3>1, <3>2, CoversHas, SameMethods
  <2>7. Closed(H, F, c.file, s, S)
    BY <2>1, <2>4, <2>5, <2>6 DEF Closed
  <2>8. Complete(H, S)
    BY <2>6 DEF Complete
  <2> QED BY <1>2, <2>1, <2>3, <2>7, <2>8 DEF Settles, s, F
<1> QED BY <1>4, <1>5

\* The methods that are redeclared are closed.
LEMMA RedeclaredClosed ==
  ASSUME NEW G, NEW f, NEW s
  PROVE  /\ Redeclared(G, f, s) \subseteq FirstCandidates(G, s.name)
         /\ Closed(G, FirstCandidates(G, s.name), f, s, Redeclared(G, f, s))
         /\ \A S \in SUBSET FirstCandidates(G, s.name) :
              Closed(G, FirstCandidates(G, s.name), f, s, S) => Redeclared(G, f, s) \subseteq S
<1> DEFINE C == FirstCandidates(G, s.name)
           R == Redeclared(G, f, s)
           Of(g, t) == {x \in C : x.in = g /\ x.of = t.rec /\ IsMethod(G, g, t)}
           Closes(S) == Of(f, s) \subseteq S /\ \A y \in S : Of(Home(y.in, y.at), y.to) \subseteq S
<1>1. R = {x \in C : \A S \in SUBSET C : Closes(S) => x \in S}
  BY DEF Redeclared
<1>2. \A S : Closes(S) <=> Closed(G, C, f, s, S)
  BY DEF Closed, Direct, VirtualFile
<1>3. Of(f, s) \subseteq C /\ \A y : Of(Home(y.in, y.at), y.to) \subseteq C
  OBVIOUS
<1>4. \A S : Closes(S) => Of(f, s) \subseteq S /\ \A y \in S : Of(Home(y.in, y.at), y.to) \subseteq S
  OBVIOUS
<1>5. \A S : (Of(f, s) \subseteq S /\ \A y \in S : Of(Home(y.in, y.at), y.to) \subseteq S) => Closes(S)
  OBVIOUS
<1> HIDE DEF C, R, Of, Closes
<1>6. R \subseteq C /\ \A S \in SUBSET C : Closes(S) => R \subseteq S
  BY <1>1
<1>7. Of(f, s) \subseteq R
  BY <1>1, <1>3, <1>4
<1>8. ASSUME NEW y \in R, NEW x \in Of(Home(y.in, y.at), y.to) PROVE x \in R
  <2>1. x \in C
    BY <1>3
  <2>2. ASSUME NEW S \in SUBSET C, Closes(S) PROVE x \in S
    BY <1>4, <1>6, <2>2
  <2> QED BY <1>1, <2>1, <2>2
<1>9. Closes(R)
  BY <1>5, <1>7, <1>8
<1> QED BY <1>2, <1>6, <1>9 DEF C, R

\* C are the candidates of G.
CandidatesAre(G, C) == C = {x \in G : x.rel = "candidate"}

LEMMA SameCandidates ==
  ASSUME NEW G, NEW C, CandidatesAre(G, C), NEW m
  PROVE  FirstCandidates(G, m) = FirstCandidates(C, m)
<1> DEFINE A(D) == {x \in D : x.rel = "candidate" /\ x.to.name = m}
<1>1. A(G) = A(C)
  BY DEF CandidatesAre
<1>2. \A D : FirstCandidates(D, m) =
        {x \in A(D) : \A y \in A(D) : (y.in = x.in /\ y.of = x.of) => Rank[x.to.rec] <= Rank[y.to.rec]}
  BY DEF FirstCandidates
<1> HIDE DEF A
<1> QED BY <1>1, <1>2

\* The facts of a redeclaration are those that Complete asks for.
LEMMA CompleteFacts ==
  ASSUME NEW G \in SUBSET Shaped, NEW K, NEW S, Complete(K, S), NEW x \in S, x \in G,
         x.rel = "candidate", NEW y \in Redeclaration(G, x)
  PROVE  Has(K, y)
<1>1. /\ Known(K, VirtualFile(x), x.to)
      /\ Has(K, RedeclaredBy(x)) /\ Has(K, RedeclarationAt(x, NoPlace))
  BY DEF Complete
<1>2. y \in {VirtualOf(x), RedeclaredBy(x)} \/ \E g : y = RedeclarationAt(x, g)
  BY RedeclarationFacts
<1>3. CASE y = VirtualOf(x)
  <2>1. PICK d \in K : d.rel = "declared" /\ d.in = VirtualFile(x) /\ d.of = x.to
    BY <1>1 DEF Known
  <2>2. SameEntry(VirtualOf(x), d)
    BY <2>1, FactOfFields DEF SameEntry, VirtualOf, VirtualFile
  <2> QED BY <1>3, <2>2 DEF Has
<1>4. CASE \E g : y = RedeclarationAt(x, g)
  <2>1. SameEntry(y, RedeclarationAt(x, NoPlace))
    BY <1>4, FactOfFields DEF SameEntry, RedeclarationAt
  <2> QED BY <1>1, <2>1, SameEntryFacts DEF Has
<1> QED BY <1>1, <1>2, <1>3, <1>4

\* A declaration that is settled adds nothing.
LEMMA DeclareAgain ==
  ASSUME NEW G \in SUBSET Shaped, NEW c \in Fct, NEW C, CandidatesAre(G, C), Settles(G, C, c)
  PROVE  Declare(G, c) = G
<1> DEFINE s == SignOf(c.rec, c.name)
<1>1. Has(G, DeclarationOf(c))
  BY DEF Settles
<1>2. WithDeclaration(G, c) = G
  <2> DEFINE X == {DeclarationOf(c)}
  <2>1. \A x \in X : Has(G, x)
    BY <1>1
  <2> HIDE DEF X
  <2>2. Insert(G, X) = G
    BY <2>1, InsertFacts
  <2> QED BY <2>2 DEF WithDeclaration, X
<1>3. Declare(G, c) = IF ~IsAMethod(G, c) THEN G ELSE Insert(G, MethodFacts(G, c))
  BY <1>2, DeclareIs
<1>4. ASSUME IsAMethod(G, c) PROVE \A x \in MethodFacts(G, c) : Has(G, x)
  <2>1. s \in Sign /\ c.file \in Files /\ s.name = c.name
    BY KindType, SignOfType
  <2>2. FirstCandidates(G, c.name) = FirstCandidates(C, c.name)
    BY SameCandidates
  <2>3. PICK S \in SUBSET FirstCandidates(G, c.name) :
          Closed(G, FirstCandidates(G, c.name), c.file, s, S) /\ Complete(G, S)
    BY <1>4, <2>2 DEF Settles
  <2>4. Redeclared(G, c.file, s) \subseteq S
    BY <2>1, <2>3, RedeclaredClosed
  <2>5. ASSUME NEW x \in Redeclared(G, c.file, s), NEW y \in Redeclaration(G, x)
        PROVE  Has(G, y)
    <3>1. x \in S /\ x \in G /\ x.rel = "candidate"
      BY <2>1, <2>4, RedeclaredFacts
    <3> QED BY <2>3, <3>1, CompleteFacts
  <2>6. Has(G, RecordAt(c.file, c.rec, NoPlace))
    BY <1>4 DEF Settles
  <2> QED BY <2>5, <2>6 DEF MethodFacts, RedeclarationsOf
<1>5. ASSUME IsAMethod(G, c) PROVE Insert(G, MethodFacts(G, c)) = G
  <2> DEFINE X == MethodFacts(G, c)
  <2>1. \A x \in X : Has(G, x)
    BY <1>4, <1>5
  <2> HIDE DEF X
  <2>2. Insert(G, X) = G
    BY <2>1, InsertFacts
  <2> QED BY <2>2 DEF X
<1> QED BY <1>3, <1>5

\* A declaration settles itself.
LEMMA DeclareSettles ==
  ASSUME NEW G \in SUBSET Shaped, NEW c \in Fct, NEW C, CandidatesAre(G, C), Agree(G)
  PROVE  Settles(Declare(G, c), C, c)
<1> DEFINE s == SignOf(c.rec, c.name)
           G1 == WithDeclaration(G, c)
           H == Declare(G, c)
           F == FirstCandidates(C, c.name)
<1>1. /\ G1 \in SUBSET Shaped /\ G1 \subseteq G \cup {DeclarationOf(c)} /\ G \subseteq G1
      /\ Has(G1, DeclarationOf(c))
  BY WithDeclarationFacts DEF Extends
<1>2. H = IF ~IsAMethod(G1, c) THEN G1 ELSE Insert(G1, MethodFacts(G1, c))
  BY DeclareIs
<1>3. Agree(G1) /\ Agree(H)
  BY AgreeDeclare
<1>4. s \in Sign /\ c.file \in Files /\ s.name = c.name
  BY KindType, SignOfType
<1>5. CandidatesAre(G1, C)
  <2>1. DeclarationOf(c).rel # "candidate"
    BY DeclarationType
  <2> HIDE DEF G1
  <2> QED BY <1>1, <2>1 DEF CandidatesAre
<1> HIDE DEF s, G1, H
<1>6. CASE ~IsAMethod(G1, c)
  BY <1>1, <1>2, <1>6 DEF Settles, H
<1>7. CASE IsAMethod(G1, c)
  <2> DEFINE R == Redeclared(G1, c.file, s)
  <2>1. G1 \subseteq H /\ \A x \in MethodFacts(G1, c) : Has(H, x)
    BY <1>2, <1>7, InsertFacts
  <2>2. Covers(G1, H)
    BY <2>1, CoversMore
  <2>3. Has(H, DeclarationOf(c)) /\ Known(G1, c.file, s)
    BY <1>1, <2>1, HasGrows, HasDeclaration DEF s
  <2>4. FirstCandidates(G1, c.name) = F
    BY <1>5, SameCandidates
  <2>5. R \subseteq F /\ Closed(G1, F, c.file, s, R)
    BY <1>4, <2>4, RedeclaredClosed
  <2>6. ASSUME NEW y \in R
        PROVE  /\ y \in G1 /\ y.rel = "candidate" /\ y.to.name = c.name
               /\ IsMethod(G1, y.in, SignOf(y.of, c.name))
    BY <1>1, <1>4, RedeclaredFacts
  <2>7. \A y \in R : \A x \in Redeclaration(G1, y) : Has(H, x)
    BY <2>1 DEF MethodFacts, RedeclarationsOf, s
  <2> HIDE DEF F, R
  <2>8. ASSUME NEW y \in R
        PROVE  /\ Known(H, VirtualFile(y), y.to) /\ Has(H, RedeclaredBy(y))
               /\ Has(H, RedeclarationAt(y, NoPlace))
    <3>1. PICK d \in G1 : d.in = y.in /\ d.rel = "declared" /\ d.of = SignOf(y.of, y.to.name)
      BY <2>6 DEF IsMethod
    <3>2. /\ VirtualOf(y) \in Redeclaration(G1, y) /\ RedeclaredBy(y) \in Redeclaration(G1, y)
          /\ RedeclarationAt(y, d.at) \in Redeclaration(G1, y)
      BY <1>1, <2>6, <3>1, RedeclarationFacts
    <3>3. Has(H, VirtualOf(y)) /\ Has(H, RedeclaredBy(y)) /\ Has(H, RedeclarationAt(y, d.at))
      BY <2>7, <3>2
    <3>4. SameEntry(RedeclarationAt(y, d.at), RedeclarationAt(y, NoPlace))
      BY FactOfFields DEF SameEntry, RedeclarationAt
    <3>5. Has(H, RedeclarationAt(y, NoPlace))
      BY <3>3, <3>4, SameEntryFacts DEF Has
    <3>6. PICK v \in H : SameEntry(VirtualOf(y), v)
      BY <3>3 DEF Has
    <3>7. v.rel = "declared" /\ v.in = VirtualFile(y) /\ v.of = y.to
      BY <3>6, FactOfFields DEF SameEntry, VirtualOf, VirtualFile
    <3> QED BY <3>3, <3>5, <3>7 DEF Known
\* The functions that G1 does not know are not methods afterwards.
  <2>9. ASSUME NEW g, NEW r, Direct(G1, F, g, r) \subseteq R, Known(G1, g, r) \/ ~IsMethod(H, g, r)
        PROVE  Direct(H, F, g, r) \subseteq R
    BY <1>1, <1>3, <2>2, <2>9, SameMethods DEF Direct
  <2>10. ASSUME NEW y \in R, ~Known(G1, VirtualFile(y), y.to), IsMethod(H, VirtualFile(y), y.to)
         PROVE  FALSE
    <3>1. PICK x \in H : /\ x.in = VirtualFile(y) /\ x.rel = "declared" /\ x.of = y.to
                         /\ x.to \notin {NoRecord, Builtin}
      BY <2>10 DEF IsMethod
    <3>2. x \notin G1
      BY <2>10, <3>1 DEF Known
    <3>3. x \in MethodFacts(G1, c)
      BY <1>2, <1>7, <3>2, InsertFacts
    <3> QED BY <1>1, <3>1, <3>3, MethodFactsDeclared
  <2>11. Closed(H, F, c.file, s, R)
    BY <2>3, <2>5, <2>9, <2>10 DEF Closed
  <2>12. Complete(H, R)
    BY <2>8 DEF Complete
  <2>13. Has(H, RecordAt(c.file, c.rec, NoPlace))
    BY <2>1 DEF MethodFacts
  <2> QED BY <2>3, <2>5, <2>11, <2>12, <2>13 DEF Settles, s, F, H
<1> QED BY <1>6, <1>7

GraphAgrees == Agree(graph)
DiskAgrees == Agree(disk)

LEMMA AgreeAfter == Inv' /\ Agree(graph') => Agree(disk')
<1>1. Inv /\ GraphAgrees => DiskAgrees
  BY AgreeDisk DEF GraphAgrees, DiskAgrees
<1>2. Inv' /\ GraphAgrees' => DiskAgrees'
  BY <1>1, PTL
<1> QED BY <1>2 DEF GraphAgrees, DiskAgrees

LEMMA FinishCovers ==
  ASSUME Inv, opened = written
  PROVE  Covers(graph, disk)
<1> SUFFICES ASSUME NEW x \in graph, x.rel # "candidate"
             PROVE  \E y \in disk : SameEntry(x, y) /\ (x.rel = "declared" => x.to = y.to)
  BY DEF Covers
<1>1. CASE x.in \in written
  <2>1. Output(x) \in OutputOf(graph, x.in)
    BY DEF OutputOf
  <2>2. Output(x) \in disk
    BY <1>1, <2>1 DEF Inv, FilesInv
  <2>3. SameEntry(x, Output(x)) /\ x.to = Output(x).to
    BY OutputFacts, SameEntryFacts DEF Inv, FilesInv
  <2> QED BY <2>2, <2>3
<1>2. CASE x.in \notin written
  <2>1. x \in disk
    BY <1>2 DEF Inv, FilesInv
  <2> QED BY <2>1, SameEntryFacts
<1> QED BY <1>1, <1>2

LEMMA DeclaredByType ==
  ASSUME NEW e \in RecordVisit \cup FctVisit \cup CallVisit, NEW c \in DeclaredBy(e)
  PROVE  c \in Fct
BY KindType DEF DeclaredBy

\* What is settled stays settled in a graph that has more.
LEMMA SettledGrows ==
  ASSUME NEW G \in SUBSET Shaped, NEW H, Agree(H), Covers(G, H), NEW u \in Units,
         NEW k \in 1 .. Len(Traversal[u]), Settled(G, u, k)
  PROVE  Settled(H, u, k)
<1>1. ASSUME NEW c \in DeclaredBy(Traversal[u][k]) PROVE Settles(H, CandidatesOf(u, k), c)
  <2>1. c \in Fct /\ Settles(G, CandidatesOf(u, k), c)
    BY EventType, DeclaredByType DEF Settled
  <2> QED BY <2>1, SettlesGrows
<1> QED BY <1>1 DEF Settled

\* The declaration of a visit is settled by it.
LEMMA EffectSettles ==
  ASSUME NEW G \in SUBSET Shaped, NEW e \in RecordVisit \cup FctVisit \cup CallVisit,
         NEW C, CandidatesAre(G, C), Agree(G), NEW c \in DeclaredBy(e)
  PROVE  Settles(Effect(G, e), C, c)
<1>1. c \in Fct
  BY DeclaredByType
<1>2. CASE e \in FctVisit
  BY <1>1, <1>2, EffectIs, DeclareSettles DEF DeclaredBy
<1>3. CASE e \notin FctVisit
  <2> DEFINE H == Declare(G, c)
  <2>1. e \in CallVisit /\ c = e.callee
    BY <1>3 DEF DeclaredBy
  <2>2. Effect(G, e) = Insert(H, CallFacts(e))
    BY <2>1, EffectIs
  <2>3. Settles(H, C, c)
    BY <1>1, DeclareSettles
  <2>4. H \in SUBSET Shaped
    <3> DEFINE F == {c.file} \cup {x.in : x \in G} \cup {x.at : x \in G}
    <3>1. c.file \in F /\ CandidatesIn(G, F)
      BY DEF CandidatesIn
    <3> HIDE DEF F, H
    <3>2. Extends(G, H, F)
      BY <1>1, <3>1, DeclareFacts DEF H
    <3> QED BY <3>2, ExtendsIs
  <2> HIDE DEF H
  <2>5. H \subseteq Insert(H, CallFacts(e))
    BY InsertFacts
  <2>6. Agree(Effect(G, e))
    BY AgreeEffect
  <2>7. Covers(H, Effect(G, e))
    BY <2>2, <2>5, CoversMore
  <2> QED BY <1>1, <2>3, <2>4, <2>6, <2>7, SettlesGrows
<1> QED BY <1>2, <1>3

LEMMA SettledStep == AgainInv /\ [Next]_vars => SettledInv'
<1> SUFFICES ASSUME AgainInv, [Next]_vars PROVE SettledInv'
  OBVIOUS
<1>0. /\ graph \in SUBSET Shaped /\ disk \in SUBSET Shaped /\ done \in SUBSET Units
      /\ Agree(graph') /\ Agree(disk') /\ Agree(disk)
      /\ disk \subseteq disk'
  <2>1. Inv' /\ Agree(graph')
    BY InvStep, AgreeStep DEF AgainInv
  <2> QED BY <2>1, AgreeAfter, AgreeDisk, DiskGrows DEF AgainInv, Inv, FilesInv, TypeOK
<1>6. ASSUME NEW u \in done, NEW k \in 1 .. Len(Traversal[u]) PROVE Settled(disk', u, k)
  <2>1. Settled(disk, u, k) /\ Covers(disk, disk')
    BY <1>0, CoversMore DEF AgainInv, SettledInv
  <2> QED BY <1>0, <2>1, SettledGrows
<1>1. CASE UNCHANGED vars
  BY <1>1 DEF AgainInv, SettledInv, vars
<1>2. ASSUME NEW u \in Units, Start(u) PROVE SettledInv'
  BY <1>2 DEF Start, AgainInv, SettledInv
<1>3. CASE Visit
  <2>1. /\ Traversal[unit][next] \in RecordVisit \cup FctVisit \cup CallVisit
        /\ graph' = Effect(graph, Traversal[unit][next]) /\ graph \subseteq graph'
        /\ unit \in Units /\ done' = done
    BY <1>3, VisitFacts DEF Visit, AgainInv, Extends
  <2>2. /\ unit' = unit /\ unit # NoUnit /\ next' = next + 1
        /\ next \in Nat /\ next \in 1 .. Len(Traversal[unit])
    BY <1>3, VisitFacts DEF Visit, Traversing, AgainInv, Inv, TypeOK
  <2>3. CandidatesAre(graph, CandidatesOf(unit, next))
    BY <2>2 DEF AgainInv, KnownInv, CandidatesAre
  <2>4. ASSUME NEW k \in 1 .. Len(Traversal[unit]), k < next' PROVE Settled(graph', unit, k)
    <3>1. CASE k < next
      <4>1. Settled(graph, unit, k) /\ Covers(graph, graph')
        BY <2>1, <2>2, <3>1, CoversMore DEF AgainInv, SettledInv
      <4> QED BY <1>0, <2>1, <4>1, SettledGrows
    <3>2. CASE k = next
      <4> DEFINE e == Traversal[unit][next]
      <4>1. \A c \in DeclaredBy(e) : Settles(graph', CandidatesOf(unit, next), c)
        <5> HIDE DEF e
        <5> QED BY <1>0, <2>1, <2>3, EffectSettles DEF AgainInv, e
      <4> QED BY <3>2, <4>1 DEF Settled
    <3> QED BY <2>2, <2>4, <3>1, <3>2
  <2> QED BY <1>6, <2>1, <2>2, <2>4 DEF SettledInv
<1>4. CASE Finish
  <2>1. /\ opened = written /\ unit \in Units /\ unit # NoUnit /\ ~Traversing /\ next \in Nat
        /\ unit' = NoUnit /\ disk' = disk /\ done' = done \cup {unit}
    BY <1>4 DEF Finish, AgainInv, Inv, TypeOK
  <2>2. Covers(graph, disk)
    BY <2>1, FinishCovers DEF AgainInv
  <2>3. ASSUME NEW k \in 1 .. Len(Traversal[unit]) PROVE Settled(disk', unit, k)
    <3>1. k < next
      BY <2>1, RecordsAssumption DEF Traversing
    <3>2. Settled(graph, unit, k)
      BY <2>1, <3>1 DEF AgainInv, SettledInv
    <3> QED BY <1>0, <2>1, <2>2, <3>2, SettledGrows
  <2> QED BY <1>6, <2>1, <2>3 DEF SettledInv
<1>5. CASE Stop
  <2>1. unit' = NoUnit /\ done' = done
    BY <1>5 DEF Stop
  <2> QED BY <1>6, <2>1 DEF SettledInv
<1>7. ASSUME NEW f \in Files, Rewrite(f) PROVE SettledInv'
  <2>1. unit' = unit /\ done' = done /\ graph' = graph /\ next' = next
    BY <1>7 DEF Rewrite
  <2> QED BY <1>6, <2>1 DEF AgainInv, SettledInv
<1> QED BY <1>1, <1>2, <1>3, <1>4, <1>5, <1>7 DEF Next

\* The visit of an event of a unit that is done adds nothing but candidates.
LEMMA VisitAgain ==
  ASSUME AgainInv, Visit, unit \in done, NEW x \in graph', x \notin graph
  PROVE  x.rel = "candidate"
<1> DEFINE e == Traversal[unit][next]
           C == CandidatesOf(unit, next)
<1>1. /\ unit \in Units /\ next \in 1 .. Len(Traversal[unit]) /\ unit # NoUnit
      /\ e \in RecordVisit \cup FctVisit \cup CallVisit /\ e \in Events(unit)
      /\ graph' = Effect(graph, e) /\ graph \in SUBSET Shaped /\ disk \subseteq graph
  BY VisitFacts, EventType DEF Visit, Traversing, AgainInv, Inv, FilesInv
<1>2. CandidatesAre(graph, C) /\ Agree(graph)
  BY <1>1 DEF AgainInv, KnownInv, CandidatesAre
<1>3. \A y \in Basic(e) : y.rel # "candidate" => Has(graph, y)
  BY <1>1, HasGrows DEF AgainInv, DoneInv
<1>4. ASSUME NEW c \in DeclaredBy(e) PROVE Declare(graph, c) = graph
  <2>1. Settles(disk, C, c) /\ c \in Fct
    BY <1>1, DeclaredByType DEF AgainInv, SettledInv, Settled
  <2>2. disk \in SUBSET Shaped /\ Covers(disk, graph)
    BY <1>1, CoversMore DEF AgainInv, Inv, FilesInv
  <2> HIDE DEF C, e
  <2>3. Settles(graph, C, c)
    BY <1>2, <2>1, <2>2, SettlesGrows
  <2> QED BY <1>1, <1>2, <2>1, <2>3, DeclareAgain
<1> HIDE DEF e, C
<1>5. CASE e \in RecordVisit
  <2>1. graph' = Insert(graph, RecordFacts(e))
    BY <1>1, <1>5, EffectIs, VisitRecordFacts
  <2>2. x \in RecordFacts(e) /\ ~Has(graph, x)
    BY <2>1 DEF Insert, Has
  <2> QED BY <1>3, <1>5, <2>2, BasicIs
<1>6. CASE e \in FctVisit
  BY <1>1, <1>4, <1>6, EffectIs DEF DeclaredBy
<1>7. CASE e \notin RecordVisit /\ e \notin FctVisit
  <2>1. e \in CallVisit /\ Declare(graph, e.callee) = graph
    BY <1>1, <1>4, <1>7 DEF DeclaredBy
  <2>2. graph' = Insert(graph, CallFacts(e))
    BY <1>1, <2>1, EffectIs
  <2>3. x \in CallFacts(e) /\ ~Has(graph, x)
    BY <2>2 DEF Insert, Has
  <2> QED BY <1>3, <2>1, <2>3, BasicIs
<1> QED BY <1>5, <1>6, <1>7

LEMMA AgainStep ==
  AgainInv /\ [Next]_vars => NothingNew' /\ (unit \in done => disk' = disk)
<1> SUFFICES ASSUME AgainInv, [Next]_vars PROVE NothingNew' /\ (unit \in done => disk' = disk)
  OBVIOUS
<1>1. CASE UNCHANGED vars
  BY <1>1 DEF AgainInv, NothingNew, vars
<1>2. ASSUME NEW u \in Units, Start(u) PROVE NothingNew' /\ disk' = disk
  BY <1>2 DEF Start, AgainInv, Inv, TypeOK, NothingNew
<1>3. CASE Visit
  BY <1>3, VisitAgain DEF Visit, AgainInv, NothingNew
<1>4. CASE Finish \/ Stop
  <2>1. unit' \notin done'
    BY <1>4, RecordsAssumption DEF Finish, Stop, AgainInv, Inv, TypeOK
  <2> QED BY <1>4, <2>1 DEF Finish, Stop, NothingNew
<1>5. ASSUME NEW f \in Files, Rewrite(f) PROVE NothingNew' /\ (unit \in done => disk' = disk)
  <2>1. /\ graph' = graph /\ unit' = unit /\ done' = done /\ disk \subseteq disk'
        /\ {x \in disk' : x.in = f} = OutputOf(graph, f)
        /\ \A x \in disk' : x.in # f => x \in disk
    BY <1>5, RewriteFacts DEF Rewrite, AgainInv
  <2>2. ASSUME unit \in done, NEW x \in OutputOf(graph, f) PROVE x \in disk
    <3>1. PICK y \in graph : x = Output(y) /\ y.rel # "candidate"
      BY <2>2 DEF OutputOf
    <3>2. y \in disk /\ OutputShape(y) /\ y \in Shaped
      BY <2>2, <3>1 DEF AgainInv, NothingNew, Inv, FilesInv
    <3> QED BY <3>1, <3>2, OutputFacts
  <2>3. unit \in done => disk' = disk
    BY <2>1, <2>2
  <2> QED BY <2>1, <2>3 DEF AgainInv, NothingNew
<1> QED BY <1>1, <1>2, <1>3, <1>4, <1>5 DEF Next

LEMMA AgainInit == Init => AgainInv
<1> SUFFICES ASSUME Init PROVE AgainInv
  OBVIOUS
<1>1. graph = {} /\ disk = {} /\ done = {} /\ unit = NoUnit
  BY DEF Init
<1> QED BY <1>1, InvInit
        DEF AgainInv, TraversedInv, DoneInv, KnownInv, Agree, SettledInv, NothingNew

\* Analysing again a unit that has been analysed to the end changes no json
\* file, whatever other analyses have added, or have left half written, since.
THEOREM AnalysingAgain == Spec => AnalysedAgain
<1>1. AgainInv /\ [Next]_vars => AgainInv'
  BY InvStep, TraversedStep, DoneStep, KnownStep, AgreeStep, SettledStep, AgainStep DEF AgainInv
<1>2. AgainInv /\ [Next]_vars => [(unit \in done) => disk' = disk]_vars
  BY AgainStep
<1> QED BY <1>1, <1>2, AgainInit, PTL DEF Spec, AnalysedAgain

-----------------------------------------------------------------------------
(* Both ends of a relation.  A process that stops between the rewriting of  *)
(* two files may leave one end without the other; the unit, when it is     *)
(* analysed again, registers both: it knows as methods at least those that  *)
(* it declares itself, and those that the json files had.                  *)

\* What the unit u declares itself until its event k.
Own(u, k, f, s) ==
  \E j \in 1 .. Len(Traversal[u]) :
    j <= k /\ \E c \in DeclaredBy(Traversal[u][j]) :
                c \in Overriding /\ c.file = f /\ s = SignOf(c.rec, c.name)

\* What c redeclares in any analysis of u that knows of the facts D at least.
OwnDirect(D, u, k, C, g, t) ==
  {x \in C : x.in = g /\ x.of = t.rec /\ (IsMethod(D, g, t) \/ Own(u, k, g, t))}
OwnClosed(D, u, k, C, f, s, S) ==
  /\ OwnDirect(D, u, k, C, f, s) \subseteq S
  /\ \A y \in S : OwnDirect(D, u, k, C, VirtualFile(y), y.to) \subseteq S
Must(D, u, k, c) ==
  LET C == FirstCandidates(CandidatesOf(u, k), c.name)
  IN {x \in C : \A S \in SUBSET C :
        OwnClosed(D, u, k, C, c.file, SignOf(c.rec, c.name), S) => x \in S}

LEMMA MustFacts ==
  ASSUME NEW D, NEW u, NEW k, NEW c, NEW C, C = FirstCandidates(CandidatesOf(u, k), c.name),
         NEW s, s = SignOf(c.rec, c.name)
  PROVE  /\ Must(D, u, k, c) \subseteq C
         /\ \A S \in SUBSET C : OwnClosed(D, u, k, C, c.file, s, S) => Must(D, u, k, c) \subseteq S
         /\ \A x \in C : (\A S \in SUBSET C : OwnClosed(D, u, k, C, c.file, s, S) => x \in S)
                         => x \in Must(D, u, k, c)
BY DEF Must

LEMMA MustGrows ==
  ASSUME NEW D, NEW E, D \subseteq E, NEW u, NEW k, NEW c
  PROVE  Must(D, u, k, c) \subseteq Must(E, u, k, c)
<1> DEFINE C == FirstCandidates(CandidatesOf(u, k), c.name)
           s == SignOf(c.rec, c.name)
<1>1. \A g, t : IsMethod(D, g, t) => IsMethod(E, g, t)
  BY DEF IsMethod
<1> HIDE DEF C, s
<1>2. \A g, t : OwnDirect(D, u, k, C, g, t) \subseteq OwnDirect(E, u, k, C, g, t)
  BY <1>1 DEF OwnDirect
<1>3. \A S : OwnClosed(E, u, k, C, c.file, s, S) => OwnClosed(D, u, k, C, c.file, s, S)
  BY <1>2 DEF OwnClosed
<1>4. /\ Must(D, u, k, c) \subseteq C
      /\ \A S \in SUBSET C : OwnClosed(D, u, k, C, c.file, s, S) => Must(D, u, k, c) \subseteq S
  BY MustFacts DEF C, s
<1>5. \A x \in C : (\A S \in SUBSET C : OwnClosed(E, u, k, C, c.file, s, S) => x \in S)
                   => x \in Must(E, u, k, c)
  BY MustFacts DEF C, s
<1> QED BY <1>3, <1>4, <1>5

\* The records that a process knows come from the json files, or from the unit.
OriginInv ==
  \A d \in graph : d.rel = "declared" /\ d.to # NoRecord =>
    \/ d \in disk
    \/ /\ unit # NoUnit
       /\ \E j \in 1 .. Len(Traversal[unit]) :
            j < next /\ \E c \in DeclaredBy(Traversal[unit][j]) : c \in Fct /\ d = DeclarationOf(c)

LEMMA OriginStep == Inv /\ OriginInv /\ [Next]_vars => OriginInv'
<1> SUFFICES ASSUME Inv, OriginInv, [Next]_vars PROVE OriginInv'
  OBVIOUS
<1>1. CASE UNCHANGED vars
  BY <1>1 DEF OriginInv, vars
<1>2. ASSUME NEW u \in Units, Start(u) PROVE OriginInv'
  BY <1>2 DEF Start, Inv, TypeOK, OriginInv
<1>3. CASE Visit
  <2> DEFINE e == Traversal[unit][next]
  <2>1. /\ e \in RecordVisit \cup FctVisit \cup CallVisit
        /\ graph' = Effect(graph, e) /\ graph \in SUBSET Shaped
    BY <1>3, VisitFacts DEF Visit, Inv, FilesInv
  <2>2. /\ unit' = unit /\ unit # NoUnit /\ next' = next + 1 /\ disk' = disk
        /\ next \in Nat /\ next \in 1 .. Len(Traversal[unit]) /\ next < next'
        /\ \A j \in 1 .. Len(Traversal[unit]) : j < next => j < next'
    BY <1>3, VisitFacts DEF Visit, Traversing, Inv, TypeOK
  <2> HIDE DEF e
  <2>3. ASSUME NEW d \in graph', d \notin graph, d.rel = "declared", d.to # NoRecord
        PROVE  \E c \in DeclaredBy(e) : c \in Fct /\ d = DeclarationOf(c)
    <3>1. ASSUME NEW y, d = VirtualOf(y) PROVE FALSE
      BY <2>3, <3>1, FactOfFields DEF VirtualOf
    <3> QED BY <2>1, <2>3, <3>1, EffectOrigin
  <2> QED BY <2>2, <2>3 DEF OriginInv, e
<1>4. CASE Finish \/ Stop
  BY <1>4 DEF Finish, Stop, OriginInv
<1>5. ASSUME NEW f \in Files, Rewrite(f) PROVE OriginInv'
  BY <1>5, RewriteFacts DEF Rewrite, OriginInv
<1> QED BY <1>1, <1>2, <1>3, <1>4, <1>5 DEF Next

\* A method that a unit declares, and that may redeclare a virtual one of its
\* record, is an overriding method.
LEMMA DeclaredOverrides ==
  ASSUME NEW u \in Units, NEW j \in 1 .. Len(Traversal[u]), NEW c \in DeclaredBy(Traversal[u][j]),
         VirtualBases(u, c) # {}
  PROVE  c \in Overriding
<1>1. /\ Traversal[u][j] \in RecordVisit \cup FctVisit \cup CallVisit
      /\ c \in Fct /\ Len(Traversal[u]) \in Nat
  BY EventType, DeclaredByType, RecordsAssumption
<1>2. PICK i \in 1 .. Len(Traversal[u]) : Traversal[u][i].kind = "function" /\ Traversal[u][i].fct = c
  <2>1. CASE Traversal[u][j] \in FctVisit
    BY <2>1, KindType DEF DeclaredBy
  <2>2. CASE Traversal[u][j] \notin FctVisit
    <3>1. Traversal[u][j] \in CallVisit /\ c = Traversal[u][j].callee
      BY <2>2 DEF DeclaredBy
    <3> QED BY <3>1, CalleesAssumption, KindType
  <2> QED BY <2>1, <2>2
<1>3. VisitedIn(u, i, c) /\ i \in Nat
  BY <1>1, <1>2 DEF VisitedIn
<1> QED BY <1>1, <1>3 DEF Overriding

\* A candidate of a method is that of a base class of its record.
LEMMA CandidateBases ==
  ASSUME NEW u \in Units, NEW k, NEW x \in CandidatesOf(u, k), NEW c, x.in = c.file, x.of = c.rec,
         x.to.name = c.name
  PROVE  VirtualBases(u, c) # {}
<1>1. PICK i \in 1 .. Len(Traversal[u]) : Traversal[u][i] \in RecordVisit /\ x \in RecordFacts(Traversal[u][i])
  BY DEF CandidatesOf
<1>2. x.rel = "candidate" /\ i \in Nat
  BY RecordsAssumption DEF CandidatesOf
<1>3. /\ x.in = Traversal[u][i].file /\ x.of = Traversal[u][i].name
      /\ \E b \in Traversal[u][i].bases : x.to.name \in b.virtual
  BY <1>1, <1>2, CandidateIs
<1>4. PICK b \in Traversal[u][i].bases : c.name \in b.virtual
  BY <1>3
<1>5. DerivesIn(u, i, c, b)
  BY <1>1, <1>3, <1>4 DEF DerivesIn
<1> QED BY <1>2, <1>5, VirtualBasesFacts

FullInv == OverridingInv /\ KnownInv /\ Agree(graph) /\ OriginInv

\* The functions that matter are methods for an analysis if they are for the
\* json files, or for the unit itself.
LEMMA OwnMethods ==
  ASSUME FullInv, Visit, NEW c \in DeclaredBy(Traversal[unit][next]),
         NEW g, NEW r \in Sign, NEW x \in CandidatesOf(unit, next),
         x.in = g, x.of = r.rec, x.to.name = r.name
  PROVE  IsMethod(WithDeclaration(graph, c), g, r)
           <=> (IsMethod(disk, g, r) \/ Own(unit, next, g, r))
<1> DEFINE G == WithDeclaration(graph, c)
<1>1. /\ unit \in Units /\ next \in Nat /\ next \in 1 .. Len(Traversal[unit]) /\ c \in Fct
      /\ Traversal[unit][next] \in RecordVisit \cup FctVisit \cup CallVisit
      /\ graph \in SUBSET Shaped /\ disk \subseteq graph /\ unit # NoUnit
  BY VisitFacts, DeclaredByType DEF Visit, Traversing, FullInv, OverridingInv, Inv, TypeOK, FilesInv
<1>2. /\ G \in SUBSET Shaped /\ graph \subseteq G /\ G \subseteq graph \cup {DeclarationOf(c)}
      /\ Has(G, DeclarationOf(c))
  BY <1>1, WithDeclarationFacts DEF Extends
<1> HIDE DEF G
<1>3. ASSUME IsMethod(disk, g, r) PROVE IsMethod(G, g, r)
  BY <1>1, <1>2, <1>3 DEF IsMethod
<1>4. ASSUME Own(unit, next, g, r) PROVE IsMethod(G, g, r)
  <2>1. PICK j \in 1 .. Len(Traversal[unit]) :
          j <= next /\ \E d \in DeclaredBy(Traversal[unit][j]) :
                         d \in Overriding /\ d.file = g /\ r = SignOf(d.rec, d.name)
    BY <1>4 DEF Own
  <2>2. PICK d \in DeclaredBy(Traversal[unit][j]) :
          d \in Overriding /\ d.file = g /\ r = SignOf(d.rec, d.name)
    BY <2>1
  <2>3. Has(G, DeclarationOf(d))
    <3>1. CASE j = next
      <4>1. d = c
        BY <2>2, <3>1 DEF DeclaredBy
      <4> QED BY <1>2, <4>1
    <3>2. CASE j # next
      <4>1. j < next
        BY <1>1, <2>1, <3>2, RecordsAssumption
      <4>2. Traversal[unit][j] \in RecordVisit \cup FctVisit \cup CallVisit
        BY <1>1, EventType
      <4>3. DeclarationOf(d) \in Basic(Traversal[unit][j])
        BY <2>2, <4>2, BasicIs DEF DeclaredBy
      <4>4. Has(graph, DeclarationOf(d))
        BY <1>1, <4>1, <4>3 DEF FullInv, OverridingInv, TraversedInv
      <4> QED BY <1>2, <4>4, HasGrows
    <3> QED BY <3>1, <3>2
  <2>4. ASSUME NEW z \in G, Masks(z, d) PROVE FALSE
    <3>1. z \notin graph
      BY <2>2, <2>4 DEF FullInv, OverridingInv, UnmaskedInv
    <3>2. z = DeclarationOf(c)
      BY <1>2, <3>1
    <3>3. c.rec = NoRecord /\ SignOf(c.rec, c.name) = SignOf(d.rec, d.name)
      BY <1>1, <2>4, <3>2, DeclarationType DEF Masks
    <3>4. SignOf(c.rec, c.name).rec = c.rec /\ SignOf(d.rec, d.name).rec = d.rec
      BY DEF SignOf
    <3>5. d.rec \in Names
      BY <2>2, OverridingType
    <3> QED BY <3>3, <3>4, <3>5, RecordsAssumption
  <2>5. IsAMethod(G, d)
    BY <1>2, <2>2, <2>3, <2>4, OverridingMethod DEF FullInv
  <2> QED BY <2>2, <2>5 DEF IsAMethod
<1>5. ASSUME IsMethod(G, g, r) PROVE IsMethod(disk, g, r) \/ Own(unit, next, g, r)
  <2>1. PICK d \in G : d.in = g /\ d.rel = "declared" /\ d.of = r /\ d.to \notin {NoRecord, Builtin}
    BY <1>5 DEF IsMethod
  <2>2. CASE d \in disk
    BY <2>1, <2>2 DEF IsMethod
  <2>3. CASE d \notin disk
    <3>1. PICK j \in 1 .. Len(Traversal[unit]) :
            j <= next /\ \E m \in DeclaredBy(Traversal[unit][j]) : m \in Fct /\ d = DeclarationOf(m)
      <4>1. CASE d \in graph
        <5>1. \E j \in 1 .. Len(Traversal[unit]) :
                j < next /\ \E m \in DeclaredBy(Traversal[unit][j]) : m \in Fct /\ d = DeclarationOf(m)
          BY <2>1, <2>3, <4>1 DEF FullInv, OriginInv
        <5>2. \A j \in 1 .. Len(Traversal[unit]) : j < next => j <= next
          BY <1>1
        <5> QED BY <5>1, <5>2
      <4>2. CASE d \notin graph
        <5>1. d = DeclarationOf(c)
          BY <1>2, <4>2
        <5> QED BY <1>1, <5>1
      <4> QED BY <4>1, <4>2
    <3>2. PICK m \in DeclaredBy(Traversal[unit][j]) : m \in Fct /\ d = DeclarationOf(m)
      BY <3>1
    <3>3. m.file = g /\ r = SignOf(m.rec, m.name)
      BY <2>1, <3>2, DeclarationType
    <3>4. r.rec = m.rec /\ r.name = m.name
      BY <3>3 DEF SignOf
    <3>5. VirtualBases(unit, m) # {}
      BY <1>1, <3>3, <3>4, CandidateBases
    <3>6. m \in Overriding
      BY <1>1, <3>5, DeclaredOverrides
    <3> QED BY <3>1, <3>2, <3>3, <3>6 DEF Own
  <2> QED BY <2>2, <2>3
<1> QED BY <1>3, <1>4, <1>5 DEF G

\* What a declaration redeclares depends on the unit and the json files alone.
LEMMA RedeclaredIsMust ==
  ASSUME FullInv, Visit, NEW c \in DeclaredBy(Traversal[unit][next])
  PROVE  Redeclared(WithDeclaration(graph, c), c.file, SignOf(c.rec, c.name))
           = Must(disk, unit, next, c)
<1> DEFINE G == WithDeclaration(graph, c)
           s == SignOf(c.rec, c.name)
           C == FirstCandidates(CandidatesOf(unit, next), c.name)
<1>1. /\ unit # NoUnit /\ c \in Fct /\ graph \in SUBSET Shaped
      /\ Traversal[unit][next] \in RecordVisit \cup FctVisit \cup CallVisit
  BY VisitFacts, DeclaredByType DEF Visit, Traversing, FullInv, OverridingInv, Inv, FilesInv
<1>2. s \in Sign /\ s.name = c.name
  BY <1>1, KindType, SignOfType
<1>3. CandidatesAre(G, CandidatesOf(unit, next))
  <2>1. graph \subseteq G /\ G \subseteq graph \cup {DeclarationOf(c)}
    BY <1>1, WithDeclarationFacts DEF Extends
  <2>2. DeclarationOf(c).rel # "candidate"
    BY <1>1, DeclarationType
  <2>3. CandidatesOf(unit, next) = {x \in graph : x.rel = "candidate"}
    BY <1>1 DEF FullInv, KnownInv
  <2> HIDE DEF G
  <2> QED BY <2>1, <2>2, <2>3 DEF CandidatesAre
<1>4. C = FirstCandidates(G, c.name)
  BY <1>3, SameCandidates
<1>5. \A x \in C : x \in CandidatesOf(unit, next) /\ x.to.name = c.name /\ x.to \in Sign
  BY DEF FirstCandidates, CandidatesOf, Shaped
<1>6. ASSUME NEW g, NEW r \in Sign, r.name = c.name
      PROVE  Direct(G, C, g, r) = OwnDirect(disk, unit, next, C, g, r)
  <2>1. ASSUME NEW x \in C, x.in = g, x.of = r.rec
        PROVE  IsMethod(G, g, r) <=> (IsMethod(disk, g, r) \/ Own(unit, next, g, r))
    <3> HIDE DEF C
    <3> QED BY <1>5, <1>6, <2>1, OwnMethods
  <2> HIDE DEF C, G
  <2> QED BY <2>1 DEF Direct, OwnDirect
<1> HIDE DEF C, G, s
<1>7. ASSUME NEW S \in SUBSET C
      PROVE  Closed(G, C, c.file, s, S) <=> OwnClosed(disk, unit, next, C, c.file, s, S)
  BY <1>2, <1>5, <1>6 DEF Closed, OwnClosed
\* Both are the least set that is closed.
<1>8. /\ Redeclared(G, c.file, s) \subseteq C
      /\ Closed(G, C, c.file, s, Redeclared(G, c.file, s))
      /\ \A S \in SUBSET C : Closed(G, C, c.file, s, S) => Redeclared(G, c.file, s) \subseteq S
  <2> DEFINE F == FirstCandidates(G, s.name)
  <2>1. /\ Redeclared(G, c.file, s) \subseteq F
        /\ Closed(G, F, c.file, s, Redeclared(G, c.file, s))
        /\ \A S \in SUBSET F : Closed(G, F, c.file, s, S) => Redeclared(G, c.file, s) \subseteq S
    BY RedeclaredClosed
  <2>2. F = C
    BY <1>2, <1>4
  <2> HIDE DEF F
  <2> QED BY <2>1, <2>2
<1>9. /\ Must(disk, unit, next, c) \subseteq C
      /\ \A S \in SUBSET C : OwnClosed(disk, unit, next, C, c.file, s, S)
                             => Must(disk, unit, next, c) \subseteq S
      /\ \A x \in C : (\A S \in SUBSET C : OwnClosed(disk, unit, next, C, c.file, s, S) => x \in S)
                      => x \in Must(disk, unit, next, c)
  BY DEF Must, C, s
<1> DEFINE R == Redeclared(G, c.file, s)
           M == Must(disk, unit, next, c)
<1>10. R = M
  <2> HIDE DEF R, M
  <2>1. M \subseteq R
    BY <1>7, <1>8, <1>9 DEF R, M
  <2>2. ASSUME NEW x \in R PROVE x \in M
    <3>1. x \in C
      BY <1>8 DEF R
    <3>2. \A S \in SUBSET C : OwnClosed(disk, unit, next, C, c.file, s, S) => x \in S
      BY <1>7, <1>8 DEF R
    <3> QED BY <1>9, <3>1, <3>2 DEF M
  <2> QED BY <2>1, <2>2
<1> QED BY <1>10 DEF G, s

\* What the event k of u registers in the relations with two ends, whatever the
\* json files hold beyond D.
TwoEnded(x) == x.rel \in DOMAIN Other
RegistersRedeclared(D, u, k, x) ==
  \E c \in DeclaredBy(Traversal[u][k]) : \E y \in Must(D, u, k, c) :
    x = RedeclaredBy(y) \/ \E g \in {y.in, NoPlace} : x = RedeclarationAt(y, g)
Registers(D, u, k, x) ==
  TwoEnded(x) /\ (x \in Basic(Traversal[u][k]) \/ RegistersRedeclared(D, u, k, x))

LEMMA RegistersGrows ==
  ASSUME NEW D, NEW E, D \subseteq E, NEW u, NEW k, NEW x, Registers(D, u, k, x)
  PROVE  Registers(E, u, k, x)
<1>1. CASE x \in Basic(Traversal[u][k])
  BY <1>1 DEF Registers
<1>2. CASE RegistersRedeclared(D, u, k, x)
  <2>1. PICK c \in DeclaredBy(Traversal[u][k]) : \E y \in Must(D, u, k, c) :
          x = RedeclaredBy(y) \/ \E g \in {y.in, NoPlace} : x = RedeclarationAt(y, g)
    BY <1>2 DEF RegistersRedeclared
  <2>2. Must(D, u, k, c) \subseteq Must(E, u, k, c)
    BY MustGrows
  <2> QED BY <2>1, <2>2 DEF RegistersRedeclared, Registers
<1> QED BY <1>1, <1>2 DEF Registers

LEMMA EndGrows ==
  ASSUME NEW G, NEW H, Covers(G, H), NEW x, TwoEnded(x), HasOtherEnd(G, x)
  PROVE  HasOtherEnd(H, x)
<1>1. PICK y \in G : /\ y.rel = Other[x.rel] /\ y.of = x.to /\ y.to = x.of
                     /\ x.at = NoPlace \/ y.in = (IF x.rel = "redeclared" THEN Home(x.in, x.at) ELSE x.at)
  BY DEF HasOtherEnd
<1>2. y.rel # "candidate" /\ y.rel # "declared"
  BY <1>1, RelsType DEF TwoEnded, Other
<1>3. PICK z \in H : SameEntry(y, z)
  BY <1>1, <1>2 DEF Covers
<1>4. z.rel = y.rel /\ z.of = y.of /\ z.to = y.to /\ z.in = y.in
  BY <1>2, <1>3 DEF SameEntry
<1> QED BY <1>1, <1>4 DEF HasOtherEnd

\* An entry equal to the other end is the other end.
LEMMA OtherEnd ==
  ASSUME NEW H, NEW x, NEW y, Has(H, y), y.rel # "declared",
         y.rel = Other[x.rel], y.of = x.to, y.to = x.of,
         x.at = NoPlace \/ y.in = (IF x.rel = "redeclared" THEN Home(x.in, x.at) ELSE x.at)
  PROVE  HasOtherEnd(H, x)
<1>1. PICK z \in H : SameEntry(y, z)
  BY DEF Has
<1>2. z.rel = y.rel /\ z.of = y.of /\ z.to = y.to /\ z.in = y.in
  BY <1>1 DEF SameEntry
<1> QED BY <1>2 DEF HasOtherEnd

LEMMA InheritanceEnds ==
  ASSUME NEW H, NEW e, NEW b, \A y \in Inheritance(e, b) : Has(H, y), NEW x \in Inheritance(e, b),
         TwoEnded(x)
  PROVE  HasOtherEnd(H, x)
<1> DEFINE y == FactOf(e.file, "inherits", e.name, b.name, b.file)
           z == FactOf(b.file, "inherited", b.name, e.name, e.file)
<1>1. y \in Inheritance(e, b) /\ z \in Inheritance(e, b)
  BY DEF Inheritance
<1>2. /\ y.in = e.file /\ y.rel = "inherits" /\ y.of = e.name /\ y.to = b.name /\ y.at = b.file
      /\ z.in = b.file /\ z.rel = "inherited" /\ z.of = b.name /\ z.to = e.name /\ z.at = e.file
  BY FactOfFields
<1>3. x = y \/ x = z
  BY FactOfFields, RelsType DEF Inheritance, RecordAt, TwoEnded
<1>4. Other["inherits"] = "inherited" /\ Other["inherited"] = "inherits"
  BY DEF Other
<1> HIDE DEF y, z
<1>5. CASE x = y
  BY <1>1, <1>2, <1>4, <1>5, OtherEnd
<1>6. CASE x = z
  BY <1>1, <1>2, <1>4, <1>6, OtherEnd
<1> QED BY <1>3, <1>5, <1>6

LEMMA CallEnds ==
  ASSUME NEW H, NEW e, \A y \in CallFacts(e) : Has(H, y), NEW x \in CallFacts(e), TwoEnded(x)
  PROVE  HasOtherEnd(H, x)
<1> DEFINE y == FactOf(e.place, "calls", e.caller.rec, e.callee.rec, NoPlace)
           z == FactOf(e.callee.file, "called", e.callee.rec, e.caller.rec, NoPlace)
<1>1. (x = y \/ x = z) /\ BetweenRecords(e)
  BY FactOfFields, RelsType DEF CallFacts, RecordAt, TwoEnded
<1>2. y \in CallFacts(e) /\ z \in CallFacts(e)
  BY <1>1 DEF CallFacts
<1>3. /\ y.rel = "calls" /\ y.of = e.caller.rec /\ y.to = e.callee.rec /\ y.at = NoPlace
      /\ z.rel = "called" /\ z.of = e.callee.rec /\ z.to = e.caller.rec /\ z.at = NoPlace
  BY FactOfFields
<1>4. Other["calls"] = "called" /\ Other["called"] = "calls"
  BY DEF Other
<1> HIDE DEF y, z
<1>5. CASE x = y
  BY <1>2, <1>3, <1>4, <1>5, OtherEnd
<1>6. CASE x = z
  BY <1>2, <1>3, <1>4, <1>6, OtherEnd
<1> QED BY <1>1, <1>5, <1>6

LEMMA BasicEnds ==
  ASSUME NEW H, NEW e \in RecordVisit \cup FctVisit \cup CallVisit,
         \A y \in Basic(e) : Has(H, y), NEW x \in Basic(e), TwoEnded(x)
  PROVE  HasOtherEnd(H, x)
<1>1. CASE e \in RecordVisit
  <2>1. x \in RecordFacts(e) /\ \A y \in RecordFacts(e) : Has(H, y)
    BY <1>1, BasicIs
  <2>2. PICK b \in e.bases : x \in Inheritance(e, b)
    BY <2>1, FactOfFields, RelsType DEF RecordFacts, RecordAt, TwoEnded
  <2>3. \A y \in Inheritance(e, b) : Has(H, y)
    BY <2>1 DEF RecordFacts
  <2> QED BY <2>2, <2>3, InheritanceEnds
<1>2. CASE e \in FctVisit
  BY <1>2, BasicIs, DeclarationType, KindType, RelsType DEF TwoEnded
<1>3. CASE e \in CallVisit
  <2>1. x \in CallFacts(e)
    BY <1>3, BasicIs, DeclarationType, KindType, RelsType DEF TwoEnded
  <2>2. \A y \in CallFacts(e) : Has(H, y)
    BY <1>3, BasicIs
  <2> QED BY <2>1, <2>2, CallEnds
<1> QED BY <1>1, <1>2, <1>3

LEMMA RedeclarationEnds ==
  ASSUME NEW H, NEW y, NEW h, Has(H, RedeclaredBy(y)), Has(H, RedeclarationAt(y, h)),
         NEW x, x = RedeclaredBy(y) \/ \E g \in {y.in, NoPlace} : x = RedeclarationAt(y, g)
  PROVE  HasOtherEnd(H, x)
<1> DEFINE s == SignOf(y.of, y.to.name)
<1>1. /\ RedeclaredBy(y).in = y.in /\ RedeclaredBy(y).rel = "redeclared"
      /\ RedeclaredBy(y).of = s /\ RedeclaredBy(y).to = y.to /\ RedeclaredBy(y).at = y.at
  BY FactOfFields DEF RedeclaredBy
<1>2. \A g : /\ RedeclarationAt(y, g).in = Home(y.in, y.at)
             /\ RedeclarationAt(y, g).rel = "redeclaration"
             /\ RedeclarationAt(y, g).of = y.to /\ RedeclarationAt(y, g).to = s
             /\ RedeclarationAt(y, g).at = g
  BY FactOfFields DEF RedeclarationAt
<1>3. Other["redeclared"] = "redeclaration" /\ Other["redeclaration"] = "redeclared"
  BY DEF Other
<1> HIDE DEF s
<1>4. CASE x = RedeclaredBy(y)
  BY <1>1, <1>2, <1>3, <1>4, OtherEnd
<1>5. ASSUME NEW g \in {y.in, NoPlace}, x = RedeclarationAt(y, g) PROVE HasOtherEnd(H, x)
  BY <1>1, <1>2, <1>3, <1>5, OtherEnd
<1> QED BY <1>4, <1>5

\* A declaration registers both ends of what it redeclares.
LEMMA DeclareEnds ==
  ASSUME NEW G \in SUBSET Shaped, NEW c \in Fct,
         NEW y \in Redeclared(WithDeclaration(G, c), c.file, SignOf(c.rec, c.name))
  PROVE  Has(Declare(G, c), RedeclaredBy(y)) /\ \E h : Has(Declare(G, c), RedeclarationAt(y, h))
<1> DEFINE G1 == WithDeclaration(G, c)
           s == SignOf(c.rec, c.name)
           C == FirstCandidates(G1, s.name)
<1>1. G1 \in SUBSET Shaped
  BY WithDeclarationFacts DEF Extends
<1>2. s \in Sign /\ c.file \in Files
  BY KindType, SignOfType
<1>3. y \in G1 /\ y.rel = "candidate" /\ y.to.name = s.name /\ IsMethod(G1, y.in, SignOf(y.of, s.name))
  BY <1>1, <1>2, RedeclaredFacts
<1>4. IsAMethod(G1, c)
  <2>1. SUFFICES ASSUME ~IsMethod(G1, c.file, s) PROVE FALSE
    BY DEF IsAMethod
  <2>2. Direct(G1, C, c.file, s) \subseteq {}
    BY <2>1 DEF Direct
  <2>3. Closed(G1, C, c.file, s, {})
    BY <2>2 DEF Closed
  <2>4. {} \in SUBSET C
    OBVIOUS
  <2>5. Redeclared(G1, c.file, s) \subseteq {}
    BY <2>3, <2>4, RedeclaredClosed
  <2> QED BY <2>5
<1>5. PICK d \in G1 : d.in = y.in /\ d.rel = "declared" /\ d.of = SignOf(y.of, y.to.name)
  BY <1>3 DEF IsMethod
<1>6. RedeclaredBy(y) \in Redeclaration(G1, y) /\ RedeclarationAt(y, d.at) \in Redeclaration(G1, y)
  BY <1>1, <1>3, <1>5, RedeclarationFacts
<1>7. Declare(G, c) = Insert(G1, MethodFacts(G1, c))
  BY <1>4, DeclareIs
<1>8. Redeclaration(G1, y) \subseteq MethodFacts(G1, c)
  BY DEF MethodFacts, RedeclarationsOf
<1> HIDE DEF G1
<1>9. \A x \in Redeclaration(G1, y) : Has(Declare(G, c), x)
  BY <1>7, <1>8, InsertFacts
<1> QED BY <1>6, <1>9

LEMMA DeclareNew ==
  ASSUME NEW G \in SUBSET Shaped, Agree(G), NEW c \in Fct, NEW x \in Declare(G, c) \ G, TwoEnded(x)
  PROVE  \E y \in Redeclared(WithDeclaration(G, c), c.file, SignOf(c.rec, c.name)) :
           x = RedeclaredBy(y) \/ \E g \in {y.in, NoPlace} : x = RedeclarationAt(y, g)
<1> DEFINE G1 == WithDeclaration(G, c)
           s == SignOf(c.rec, c.name)
<1>1. G1 \in SUBSET Shaped /\ G1 \subseteq G \cup {DeclarationOf(c)} /\ Agree(G1)
  BY WithDeclarationFacts, AgreeDeclare DEF Extends
<1>2. s \in Sign /\ c.file \in Files
  BY KindType, SignOfType
<1>3. Declare(G, c) = IF ~IsAMethod(G1, c) THEN G1 ELSE Insert(G1, MethodFacts(G1, c))
  BY DeclareIs
<1> HIDE DEF G1
<1>4. x # DeclarationOf(c)
  BY DeclarationType, RelsType DEF TwoEnded
<1>5. x \in MethodFacts(G1, c)
  BY <1>1, <1>3, <1>4, InsertFacts
<1>6. x # RecordAt(c.file, c.rec, NoPlace)
  BY FactOfFields, RelsType DEF RecordAt, TwoEnded
<1>7. PICK y \in Redeclared(G1, c.file, s) : x \in Redeclaration(G1, y)
  BY <1>5, <1>6 DEF MethodFacts, RedeclarationsOf
<1>8. y \in G1 /\ y.rel = "candidate" /\ y.to.name = s.name /\ IsMethod(G1, y.in, SignOf(y.of, s.name))
  BY <1>1, <1>2, RedeclaredFacts
<1>9. x # VirtualOf(y)
  BY FactOfFields, RelsType DEF VirtualOf, TwoEnded
<1>10. ASSUME x # RedeclaredBy(y)
       PROVE  \E g \in {y.in, NoPlace} : x = RedeclarationAt(y, g)
  <2>1. PICK d \in G1 : /\ d.in = y.in /\ d.rel = "declared" /\ d.of = SignOf(y.of, y.to.name)
                        /\ x = RedeclarationAt(y, d.at)
    BY <1>1, <1>7, <1>8, <1>9, <1>10, RedeclarationFacts
  <2>2. PICK m \in G1 : /\ m.in = y.in /\ m.rel = "declared" /\ m.of = SignOf(y.of, y.to.name)
                        /\ m.to \notin {NoRecord, Builtin}
    BY <1>8 DEF IsMethod
  <2>3. d.to = m.to
    <3>1. SameEntry(d, m)
      BY <2>1, <2>2 DEF SameEntry
    <3> QED BY <1>1, <2>1, <3>1 DEF Agree
  <2>4. d.at \in {y.in, NoPlace}
    BY <1>1, <2>1, <2>2, <2>3 DEF Shaped
  <2> QED BY <2>1, <2>4
<1> QED BY <1>7, <1>10 DEF G1

LEMMA VisitEnds ==
  ASSUME FullInv, Visit, NEW x, Registers(disk, unit, next, x)
  PROVE  HasOtherEnd(graph', x)
<1> DEFINE e == Traversal[unit][next]
<1>1. /\ e \in RecordVisit \cup FctVisit \cup CallVisit /\ graph' = Effect(graph, e)
      /\ graph \in SUBSET Shaped
  BY VisitFacts DEF Visit, FullInv, OverridingInv, Inv, FilesInv
<1>2. CASE x \in Basic(e)
  <2>1. CandidatesIn(graph, opened') /\ FilesOf(e) \subseteq opened'
    BY VisitFacts DEF Visit, FullInv, OverridingInv, Inv, FilesInv, CandidatesIn
  <2> HIDE DEF e
  <2>2. \A y \in Basic(e) : Has(graph', y)
    BY <1>1, <2>1, EffectBasic
  <2> QED BY <1>1, <1>2, <2>2, BasicEnds DEF Registers
<1>3. CASE RegistersRedeclared(disk, unit, next, x)
  <2>1. PICK c \in DeclaredBy(e) : \E y \in Must(disk, unit, next, c) :
          x = RedeclaredBy(y) \/ \E g \in {y.in, NoPlace} : x = RedeclarationAt(y, g)
    BY <1>3 DEF RegistersRedeclared
  <2>2. PICK y \in Must(disk, unit, next, c) :
          x = RedeclaredBy(y) \/ \E g \in {y.in, NoPlace} : x = RedeclarationAt(y, g)
    BY <2>1
  <2>3. y \in Redeclared(WithDeclaration(graph, c), c.file, SignOf(c.rec, c.name)) /\ c \in Fct
    BY <1>1, RedeclaredIsMust, DeclaredByType
  <2>4. Has(Declare(graph, c), RedeclaredBy(y)) /\ \E h : Has(Declare(graph, c), RedeclarationAt(y, h))
    BY <1>1, <2>3, DeclareEnds
  <2>5. Declare(graph, c) \subseteq graph'
    <3>1. CASE e \in FctVisit
      BY <1>1, <3>1, EffectIs DEF DeclaredBy
    <3>2. CASE e \notin FctVisit
      <4>1. e \in CallVisit /\ c = e.callee
        BY <3>2 DEF DeclaredBy
      <4>2. graph' = Insert(Declare(graph, c), CallFacts(e))
        BY <1>1, <4>1, EffectIs
      <4> QED BY <4>2, InsertFacts
    <3> QED BY <3>1, <3>2
  <2>6. Has(graph', RedeclaredBy(y)) /\ \E h : Has(graph', RedeclarationAt(y, h))
    BY <2>4, <2>5, HasGrows
  <2> QED BY <2>2, <2>6, RedeclarationEnds
<1> QED BY <1>2, <1>3 DEF Registers

LEMMA VisitRegisters ==
  ASSUME FullInv, Visit, NEW x \in graph', x \notin graph, TwoEnded(x)
  PROVE  Registers(disk, unit, next, x)
<1> DEFINE e == Traversal[unit][next]
<1>1. /\ e \in RecordVisit \cup FctVisit \cup CallVisit /\ graph' = Effect(graph, e)
      /\ graph \in SUBSET Shaped /\ Agree(graph)
  BY VisitFacts DEF Visit, FullInv, OverridingInv, Inv, FilesInv
<1>2. ASSUME NEW c \in DeclaredBy(e), x \in Declare(graph, c)
      PROVE  RegistersRedeclared(disk, unit, next, x)
  <2>1. c \in Fct
    BY <1>1, DeclaredByType
  <2>2. \E y \in Redeclared(WithDeclaration(graph, c), c.file, SignOf(c.rec, c.name)) :
          x = RedeclaredBy(y) \/ \E g \in {y.in, NoPlace} : x = RedeclarationAt(y, g)
    BY <1>1, <1>2, <2>1, DeclareNew
  <2>3. Redeclared(WithDeclaration(graph, c), c.file, SignOf(c.rec, c.name)) = Must(disk, unit, next, c)
    BY RedeclaredIsMust
  <2> QED BY <2>2, <2>3 DEF RegistersRedeclared
<1>3. CASE e \in RecordVisit
  <2>1. x \in Basic(e)
    BY <1>1, <1>3, EffectIs, VisitRecordFacts, InsertFacts, BasicIs
  <2> QED BY <2>1 DEF Registers
<1>4. CASE e \in FctVisit
  <2>1. x \in Declare(graph, e.fct) /\ e.fct \in DeclaredBy(e)
    BY <1>1, <1>4, EffectIs DEF DeclaredBy
  <2> QED BY <1>2, <2>1 DEF Registers
<1>5. CASE e \notin RecordVisit /\ e \notin FctVisit
  <2>1. e \in CallVisit /\ e.callee \in DeclaredBy(e)
    BY <1>1, <1>5 DEF DeclaredBy
  <2>2. graph' = Insert(Declare(graph, e.callee), CallFacts(e))
    BY <1>1, <2>1, EffectIs
  <2>3. CASE x \in Declare(graph, e.callee)
    BY <1>2, <2>1, <2>3 DEF Registers
  <2>4. CASE x \notin Declare(graph, e.callee)
    <3>1. x \in CallFacts(e)
      BY <2>2, <2>4, InsertFacts
    <3>2. x \in Basic(e)
      BY <2>1, <3>1, BasicIs
    <3> QED BY <3>2 DEF Registers
  <2> QED BY <2>3, <2>4
<1> QED BY <1>3, <1>4, <1>5

\* Every fact has its other end, or is registered by a unit that was stopped and
\* not redone; a running analysis has both ends of what it has visited, and may
\* leave one in the json files, until all are rewritten.
GraphEnds ==
  \A x \in graph : TwoEnded(x) =>
    \/ HasOtherEnd(graph, x)
    \/ \E u \in dirty : \E k \in 1 .. Len(Traversal[u]) :
         Registers(disk, u, k, x) /\ (u = unit => next <= k)
DiskEnds ==
  \A x \in disk : TwoEnded(x) =>
    \/ HasOtherEnd(disk, x)
    \/ \E u \in dirty : \E k \in 1 .. Len(Traversal[u]) : Registers(disk, u, k, x)
    \/ written # {} /\ \E k \in 1 .. Len(Traversal[unit]) : Registers(disk, unit, k, x)
NewEnds ==
  \A x \in graph : TwoEnded(x) =>
    \/ x \in disk
    \/ unit # NoUnit /\ \E k \in 1 .. Len(Traversal[unit]) : Registers(disk, unit, k, x)

EndsInv == FullInv /\ GraphEnds /\ DiskEnds /\ NewEnds

\* The facts with two ends are the same in memory and in the json files.
LEMMA TwoEndedOutput ==
  ASSUME NEW x, NEW y, x = Output(y), TwoEnded(x), y \in Shaped
  PROVE  x = y
<1>1. x.rel = y.rel
  BY OutputFacts
<1> QED BY <1>1, RelsType DEF Output, TwoEnded

LEMMA DiskIsKnown ==
  ASSUME Inv, NEW x \in disk, TwoEnded(x)
  PROVE  x \in graph
<1>1. CASE x.in \in written
  <2>1. PICK y \in graph : x = Output(y)
    BY <1>1 DEF Inv, FilesInv, OutputOf
  <2> QED BY <2>1, TwoEndedOutput DEF Inv, FilesInv
<1>2. CASE x.in \notin written
  BY <1>2 DEF Inv, FilesInv
<1> QED BY <1>1, <1>2

LEMMA StartEnds ==
  ASSUME EndsInv, NEW u \in Units, Start(u)
  PROVE  GraphEnds' /\ DiskEnds' /\ NewEnds'
<1>1. /\ graph' = disk /\ disk' = disk /\ dirty' = dirty /\ written = {} /\ written' = {}
      /\ next' = 1 /\ dirty \subseteq Units
  BY DEF Start, EndsInv, FullInv, OverridingInv, Inv, TypeOK
<1>2. \A v \in dirty : \A k \in 1 .. Len(Traversal[v]) : 1 <= k
  BY <1>1, RecordsAssumption
<1> QED BY <1>1, <1>2 DEF EndsInv, GraphEnds, DiskEnds, NewEnds

LEMMA VisitKeepsEnds ==
  ASSUME EndsInv, Visit
  PROVE  GraphEnds' /\ DiskEnds' /\ NewEnds'
<1>1. /\ unit' = unit /\ unit # NoUnit /\ unit \in Units /\ next' = next + 1 /\ disk' = disk
      /\ dirty' = dirty /\ dirty \subseteq Units /\ written' = written
      /\ next \in Nat /\ next \in 1 .. Len(Traversal[unit]) /\ graph \subseteq graph'
  BY VisitFacts DEF Visit, Traversing, EndsInv, FullInv, OverridingInv, Inv, TypeOK, Extends
<1>2. Covers(graph, graph')
  BY <1>1, CoversMore
<1>3. ASSUME NEW x \in graph', x \notin graph, TwoEnded(x)
      PROVE  Registers(disk, unit, next, x) /\ HasOtherEnd(graph', x)
  BY <1>3, VisitRegisters, VisitEnds DEF EndsInv
<1>4. ASSUME NEW x \in graph', TwoEnded(x)
      PROVE  \/ HasOtherEnd(graph', x)
             \/ \E u \in dirty : \E k \in 1 .. Len(Traversal[u]) :
                  Registers(disk, u, k, x) /\ (u = unit => next' <= k)
  <2>1. CASE x \notin graph
    BY <1>3, <1>4, <2>1
  <2>2. CASE x \in graph
    <3>1. CASE HasOtherEnd(graph, x)
      BY <1>2, <1>4, <3>1, EndGrows
    <3>2. CASE ~HasOtherEnd(graph, x)
      <4>1. PICK u \in dirty : \E k \in 1 .. Len(Traversal[u]) :
              Registers(disk, u, k, x) /\ (u = unit => next <= k)
        BY <1>4, <2>2, <3>2 DEF EndsInv, GraphEnds
      <4>2. PICK k \in 1 .. Len(Traversal[u]) : Registers(disk, u, k, x) /\ (u = unit => next <= k)
        BY <4>1
      <4>3. CASE u = unit /\ k = next
        BY <4>2, <4>3, VisitEnds DEF EndsInv
      <4>4. CASE ~(u = unit /\ k = next)
        <5>1. k \in Nat
          BY <1>1, RecordsAssumption
        <5>2. u = unit => next' <= k
          BY <1>1, <4>2, <4>4, <5>1
        <5> QED BY <4>2, <5>2
      <4> QED BY <4>3, <4>4
    <3> QED BY <3>1, <3>2
  <2> QED BY <2>1, <2>2
<1>5. GraphEnds'
  BY <1>1, <1>4 DEF GraphEnds
<1>6. DiskEnds'
  BY <1>1 DEF EndsInv, DiskEnds
<1>7. NewEnds'
  BY <1>1, <1>3 DEF EndsInv, NewEnds
<1> QED BY <1>5, <1>6, <1>7

LEMMA RewriteKeepsEnds ==
  ASSUME EndsInv, NEW f \in Files, Rewrite(f)
  PROVE  GraphEnds' /\ DiskEnds' /\ NewEnds'
<1>1. /\ unit' = unit /\ next' = next /\ graph' = graph /\ dirty' = dirty
      /\ written' = written \cup {f} /\ unit # NoUnit /\ disk \subseteq disk'
      /\ {x \in disk' : x.in = f} = OutputOf(graph, f)
      /\ \A x \in disk' : x.in # f => x \in disk
  BY RewriteFacts DEF Rewrite, EndsInv, FullInv, OverridingInv
<1>2. \A u, k, x : Registers(disk, u, k, x) => Registers(disk', u, k, x)
  BY <1>1, RegistersGrows
<1>3. GraphEnds'
  BY <1>1, <1>2 DEF EndsInv, GraphEnds
<1>4. NewEnds'
  BY <1>1, <1>2 DEF EndsInv, NewEnds
<1>5. ASSUME NEW x \in disk', TwoEnded(x)
      PROVE  \/ HasOtherEnd(disk', x)
             \/ \E u \in dirty : \E k \in 1 .. Len(Traversal[u]) : Registers(disk', u, k, x)
             \/ \E k \in 1 .. Len(Traversal[unit]) : Registers(disk', unit, k, x)
  <2>1. CASE x \in disk
    <3>1. Covers(disk, disk')
      BY <1>1, CoversMore
    <3>2. HasOtherEnd(disk, x) => HasOtherEnd(disk', x)
      BY <1>5, <3>1, EndGrows
    <3> QED BY <1>2, <1>5, <2>1, <3>2 DEF EndsInv, DiskEnds
  <2>2. CASE x \notin disk
    <3>1. x \in OutputOf(graph, f)
      BY <1>1, <2>2
    <3>2. PICK y \in graph : x = Output(y)
      BY <3>1 DEF OutputOf
    <3>3. x = y
      BY <1>5, <3>2, TwoEndedOutput DEF EndsInv, FullInv, OverridingInv, Inv, FilesInv
    <3> QED BY <1>2, <1>5, <2>2, <3>3 DEF EndsInv, NewEnds
  <2> QED BY <2>1, <2>2
<1>6. DiskEnds'
  BY <1>1, <1>5 DEF DiskEnds
<1> QED BY <1>3, <1>4, <1>6

LEMMA FinishKeepsEnds ==
  ASSUME EndsInv, Finish
  PROVE  GraphEnds' /\ DiskEnds' /\ NewEnds'
<1>1. /\ graph' = disk /\ disk' = disk /\ unit' = NoUnit /\ next' = 1 /\ written' = {}
      /\ dirty' = dirty \ {unit} /\ dirty \subseteq Units /\ opened = written /\ unit # NoUnit
      /\ unit \in Units /\ next \in Nat /\ ~Traversing
  BY DEF Finish, EndsInv, FullInv, OverridingInv, Inv, TypeOK
<1>2. Covers(graph, disk)
  BY <1>1, FinishCovers DEF EndsInv, FullInv, OverridingInv
<1>3. \A k \in 1 .. Len(Traversal[unit]) : ~(next <= k)
  BY <1>1, RecordsAssumption DEF Traversing
<1>4. ASSUME NEW x \in disk, TwoEnded(x)
      PROVE  \/ HasOtherEnd(disk, x)
             \/ \E u \in dirty' : \E k \in 1 .. Len(Traversal[u]) : Registers(disk, u, k, x)
  <2>1. x \in graph
    BY <1>4, DiskIsKnown DEF EndsInv, FullInv, OverridingInv
  <2>2. CASE HasOtherEnd(graph, x)
    BY <1>2, <1>4, <2>2, EndGrows
  <2>3. CASE ~HasOtherEnd(graph, x)
    <3>1. PICK u \in dirty : \E k \in 1 .. Len(Traversal[u]) :
            Registers(disk, u, k, x) /\ (u = unit => next <= k)
      BY <1>4, <2>1, <2>3 DEF EndsInv, GraphEnds
    <3>2. u # unit
      BY <1>3, <3>1
    <3> QED BY <1>1, <3>1, <3>2
  <2> QED BY <2>2, <2>3
<1>5. \A v \in dirty' : \A k \in 1 .. Len(Traversal[v]) : 1 <= k
  BY <1>1, RecordsAssumption
<1> QED BY <1>1, <1>4, <1>5 DEF GraphEnds, DiskEnds, NewEnds

LEMMA StopKeepsEnds ==
  ASSUME EndsInv, Stop
  PROVE  GraphEnds' /\ DiskEnds' /\ NewEnds'
<1>1. /\ graph' = disk /\ disk' = disk /\ unit' = NoUnit /\ next' = 1 /\ written' = {}
      /\ dirty \subseteq dirty' /\ dirty' \subseteq Units /\ (written # {} => unit \in dirty')
  BY DEF Stop, EndsInv, FullInv, OverridingInv, Inv, TypeOK
<1>2. \A x \in disk : TwoEnded(x) =>
        \/ HasOtherEnd(disk, x)
        \/ \E u \in dirty' : \E k \in 1 .. Len(Traversal[u]) : Registers(disk, u, k, x)
  BY <1>1 DEF EndsInv, DiskEnds
<1>3. \A v \in dirty' : \A k \in 1 .. Len(Traversal[v]) : 1 <= k
  BY <1>1, RecordsAssumption
<1> QED BY <1>1, <1>2, <1>3 DEF GraphEnds, DiskEnds, NewEnds

LEMMA EndsStep == EndsInv /\ [Next]_vars => EndsInv'
<1> SUFFICES ASSUME EndsInv, [Next]_vars PROVE EndsInv'
  OBVIOUS
<1>1. FullInv'
  BY InvStep, TraversedStep, CandidatesStep, UnmaskedStep, KnownStep, AgreeStep, OriginStep
     DEF EndsInv, FullInv, OverridingInv
<1>2. GraphEnds' /\ DiskEnds' /\ NewEnds'
  <2>1. CASE UNCHANGED vars
    BY <2>1 DEF EndsInv, GraphEnds, DiskEnds, NewEnds, vars
  <2> QED BY <2>1, StartEnds, VisitKeepsEnds, RewriteKeepsEnds, FinishKeepsEnds, StopKeepsEnds DEF Next
<1> QED BY <1>1, <1>2 DEF EndsInv

LEMMA EndsInit == Init => EndsInv
<1> SUFFICES ASSUME Init PROVE EndsInv
  OBVIOUS
<1>1. graph = {} /\ disk = {} /\ unit = NoUnit
  BY DEF Init
<1> QED BY <1>1, InvInit
        DEF EndsInv, FullInv, OverridingInv, TraversedInv, CandidatesInv, UnmaskedInv, KnownInv,
            Agree, OriginInv, GraphEnds, DiskEnds, NewEnds

\* What a unit registers in these relations is about records that it relates.
LEMMA RegistersRelates ==
  ASSUME NEW D, NEW u \in Units, NEW k \in 1 .. Len(Traversal[u]), NEW x, Registers(D, u, k, x)
  PROVE  Relates(u, RecordOf(x, x.of), RecordOf(x, x.to))
<1> DEFINE e == Traversal[u][k]
<1>1. e \in RecordVisit \cup FctVisit \cup CallVisit /\ e \in Events(u) /\ TwoEnded(x)
  BY EventType DEF Registers
<1> HIDE DEF e
<1>2. CASE x \in Basic(e) /\ e \in RecordVisit
  <2>1. PICK b \in e.bases : x \in Inheritance(e, b)
    BY <1>1, <1>2, BasicIs, FactOfFields, RelsType DEF RecordFacts, RecordAt, TwoEnded
  <2>2. /\ x.rel \in {"inherits", "inherited"}
        /\ (x.of = e.name /\ x.to = b.name) \/ (x.of = b.name /\ x.to = e.name)
    BY <1>1, <2>1, FactOfFields, RelsType DEF Inheritance, RecordAt, TwoEnded
  <2>3. RecordOf(x, x.of) = x.of /\ RecordOf(x, x.to) = x.to
    BY <2>2 DEF RecordOf
  <2>4. {x.of, x.to} = {e.name, b.name}
    BY <2>2
  <2> QED BY <1>1, <1>2, <2>3, <2>4, KindType DEF Relates
<1>3. CASE x \in Basic(e) /\ e \notin RecordVisit
  <2>1. e \in CallVisit /\ x \in CallFacts(e)
    BY <1>1, <1>3, BasicIs, DeclarationType, KindType, RelsType DEF TwoEnded
  <2>2. /\ x.rel \in {"calls", "called"}
        /\ \/ x.of = e.caller.rec /\ x.to = e.callee.rec
           \/ x.of = e.callee.rec /\ x.to = e.caller.rec
    BY <1>1, <2>1, FactOfFields, RelsType DEF CallFacts, RecordAt, TwoEnded
  <2>3. RecordOf(x, x.of) = x.of /\ RecordOf(x, x.to) = x.to
    BY <2>2 DEF RecordOf
  <2>4. {x.of, x.to} = {e.caller.rec, e.callee.rec}
    BY <2>2
  <2> QED BY <1>1, <2>1, <2>3, <2>4, KindType DEF Relates
<1>4. CASE RegistersRedeclared(D, u, k, x)
  <2>1. PICK c \in DeclaredBy(e) : \E y \in Must(D, u, k, c) :
          x = RedeclaredBy(y) \/ \E g \in {y.in, NoPlace} : x = RedeclarationAt(y, g)
    BY <1>4 DEF RegistersRedeclared, e
  <2>2. PICK y \in Must(D, u, k, c) :
          x = RedeclaredBy(y) \/ \E g \in {y.in, NoPlace} : x = RedeclarationAt(y, g)
    BY <2>1
  <2>3. y \in CandidatesOf(u, k)
    BY <2>2 DEF Must, FirstCandidates
  <2>4. PICK i \in 1 .. Len(Traversal[u]) : Traversal[u][i] \in RecordVisit /\ y \in RecordFacts(Traversal[u][i])
    BY <2>3 DEF CandidatesOf
  <2>5. y.rel = "candidate"
    BY <2>3 DEF CandidatesOf
  <2>6. y.of = Traversal[u][i].name /\ \E b \in Traversal[u][i].bases : y.to.rec = b.name
    BY <2>4, <2>5, CandidateIs
  <2>7. /\ x.rel \in {"redeclared", "redeclaration"}
        /\ \/ x.of = SignOf(y.of, y.to.name) /\ x.to = y.to
           \/ x.of = y.to /\ x.to = SignOf(y.of, y.to.name)
    BY <2>2, FactOfFields DEF RedeclaredBy, RedeclarationAt
  <2>8. SignOf(y.of, y.to.name).rec = y.of
    BY DEF SignOf
  <2>9. {RecordOf(x, x.of), RecordOf(x, x.to)} = {y.of, y.to.rec}
    BY <2>7, <2>8 DEF RecordOf
  <2>10. Traversal[u][i] \in Events(u) /\ Traversal[u][i].kind = "record"
    BY <2>4, EventType, KindType
  <2> QED BY <2>6, <2>9, <2>10 DEF Relates
<1> QED BY <1>2, <1>3, <1>4 DEF Registers, e

\* Whoever looks for the child classes of a record, the methods that redeclare a
\* virtual one, or the callers of a record, finds what is found from the other
\* end, unless an analysis that relates the two records was stopped between the
\* rewriting of two files and has not been done again since.
THEOREM EndsFound == Spec => []BothEnds
<1>1. ASSUME EndsInv PROVE BothEnds
  <2>1. dirty \subseteq Units
    BY <1>1 DEF EndsInv, FullInv, OverridingInv, Inv, TypeOK
  <2>2. ASSUME NEW x \in graph, TwoEnded(x)
        PROVE  HasOtherEnd(graph, x) \/ \E u \in dirty : Relates(u, RecordOf(x, x.of), RecordOf(x, x.to))
    <3>1. \/ HasOtherEnd(graph, x)
          \/ \E u \in dirty : \E k \in 1 .. Len(Traversal[u]) : Registers(disk, u, k, x)
      BY <1>1, <2>2 DEF EndsInv, GraphEnds
    <3>2. \A u \in dirty : \A k \in 1 .. Len(Traversal[u]) :
            Registers(disk, u, k, x) => Relates(u, RecordOf(x, x.of), RecordOf(x, x.to))
      BY <2>1, RegistersRelates
    <3> QED BY <3>1, <3>2
  <2> QED BY <2>2 DEF BothEnds, TwoEnded
<1>2. EndsInv => BothEnds
  BY <1>1
<1> QED BY <1>2, EndsInit, EndsStep, PTL DEF Spec
=============================================================================

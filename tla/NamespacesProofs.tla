--------------------------- MODULE NamespacesProofs ---------------------------
(***************************************************************************)
(* Theorems of Namespaces.  The two ways to find a namespace are compared  *)
(* for every chain of scopes; the rest is about what the operations keep   *)
(* in memory and in the json files.                                        *)
(***************************************************************************)
EXTENDS Namespaces, FiniteSetTheorems, SequenceTheorems, WellFoundedInduction, TLAPS

-----------------------------------------------------------------------------
(* Induction up to a bound.                                                *)

\* What holds of 0, and of k + 1 if of k, holds of all numbers up to n.
Inductive(n, X) == 0 \in X /\ \A k \in 1 .. n : k - 1 \in X => k \in X

LEMMA UpTo ==
  ASSUME NEW n \in Nat, NEW X, Inductive(n, X)
  PROVE  0 .. n \subseteq X
<1> DEFINE U == {1 .. k : k \in (0 .. n) \ X}
           R == StrictSubsetOrdering(1 .. n)
<1> SUFFICES ASSUME NEW m \in 0 .. n, m \notin X PROVE FALSE
  OBVIOUS
<1>1. IsFiniteSet(1 .. n)
  BY FS_Interval
<1>2. U \subseteq FiniteSubsetsOf(1 .. n) /\ U # {}
  <2>1. ASSUME NEW k \in 0 .. n PROVE 1 .. k \in SUBSET (1 .. n)
    OBVIOUS
  <2> QED BY <1>1, <2>1, FS_Subset DEF FiniteSubsetsOf
<1>3. IsWellFoundedOn(R, FiniteSubsetsOf(1 .. n))
  BY FS_StrictSubsetOrderingWellFounded
<1>4. \E T \in U : \A V \in U : <<V, T>> \notin R
  <2> HIDE DEF U, R
  <2> QED BY <1>2, <1>3, WFMin
<1>5. PICK k \in (0 .. n) \ X : \A V \in U : <<V, 1 .. k>> \notin R
  BY <1>4
<1>6. k # 0 /\ k \in 1 .. n
  BY <1>5 DEF Inductive
<1>7. k - 1 \in (0 .. n) \ X
  BY <1>5, <1>6 DEF Inductive
<1>8. <<1 .. (k - 1), 1 .. k>> \in R
  <2>1. 1 .. (k - 1) \in SUBSET (1 .. n) /\ 1 .. k \in SUBSET (1 .. n)
    BY <1>6
  <2>2. 1 .. (k - 1) \subseteq 1 .. k /\ k \in 1 .. k /\ k \notin 1 .. (k - 1)
    BY <1>6
  <2> QED BY <2>1, <2>2 DEF R, StrictSubsetOrdering
<1> QED BY <1>5, <1>7, <1>8

LEMMA MinIn ==
  ASSUME NEW n \in Nat, NEW t \in SUBSET (1 .. n), t # {}
  PROVE  Min(t) \in t /\ \A y \in t : Min(t) <= y
<1> DEFINE Y == {k \in Nat : t \cap (1 .. k) # {} => \E x \in t : \A y \in t : x <= y}
<1>1. 0 \in Y
  OBVIOUS
<1>2. ASSUME NEW k \in 1 .. n, k - 1 \in Y PROVE k \in Y
  <2>1. CASE t \cap (1 .. (k - 1)) # {}
    BY <1>2, <2>1
  <2>2. CASE t \cap (1 .. (k - 1)) = {}
    <3>1. k \in t => \A y \in t : k <= y
      BY <2>2
    <3>2. t \cap (1 .. k) # {} => k \in t
      BY <2>2
    <3> QED BY <3>1, <3>2
  <2> QED BY <2>1, <2>2
<1>3. n \in Y
  <2>1. Inductive(n, Y)
    <3> HIDE DEF Y
    <3> QED BY <1>1, <1>2 DEF Inductive
  <2> HIDE DEF Y
  <2> QED BY <2>1, UpTo
<1>4. t \cap (1 .. n) = t
  OBVIOUS
<1>5. \E x \in t : \A y \in t : x <= y
  BY <1>3, <1>4
<1> QED BY <1>5 DEF Min

-----------------------------------------------------------------------------
(* Scopes.                                                                 *)

LEMMA FrontOf ==
  ASSUME NEW X, NEW S \in Seq(X), S # <<>>
  PROVE  /\ Front(S) \in Seq(X)
         /\ Len(Front(S)) = Len(S) - 1
         /\ \A i \in 1..(Len(S) - 1) : Front(S)[i] = S[i]
         /\ Last(S) = S[Len(S)] /\ Last(S) \in X
         /\ Len(S) \in Nat \ {0}
<1>1. Len(S) \in Nat \ {0} /\ \A i \in 1..Len(S) : S[i] \in X BY EmptySeq
<1>2. Front(S) = SubSeq(S, 1, Len(S) - 1) /\ Last(S) = S[Len(S)] BY DEF Front, Last
<1> DEFINE m == Len(S) - 1
<1>3. m \in Nat /\ 1 \in Int /\ m \in Int /\ \A i \in 1..m : S[i] \in X BY <1>1
<1>4. /\ SubSeq(S, 1, m) \in Seq(X)
      /\ Len(SubSeq(S, 1, m)) = m
      /\ \A i \in 1..m : SubSeq(S, 1, m)[i] = S[i]
  <2> HIDE DEF m
  <2>1. /\ SubSeq(S, 1, m) \in Seq(X)
        /\ Len(SubSeq(S, 1, m)) = IF 1 <= m THEN m - 1 + 1 ELSE 0
        /\ \A i \in 1..(m - 1 + 1) : SubSeq(S, 1, m)[i] = S[1 + i - 1]
    BY <1>3, SubSeqProperties
  <2> QED BY <1>3, <2>1
<1> QED BY <1>1, <1>2, <1>4

LEMMA ScopesAre ==
  ASSUME NEW S \in Scopes
  PROVE  /\ S \in Seq(Scope) /\ Len(S) \in Nat /\ DOMAIN S = 1..Len(S)
         /\ \A i \in 1..Len(S) : S[i] \in Scope
         /\ \A i, j \in 1..Len(S) : i < j /\ S[j].kind = "namespace" => S[i].kind = "namespace"
         /\ S # <<>> <=> Len(S) # 0
<1>1. S \in Seq(Scope) BY DEF Scopes
<1>2. DOMAIN S = 1..Len(S) BY <1>1
<1> QED BY <1>1, <1>2 DEF Scopes

LEMMA FrontScopes ==
  ASSUME NEW S \in Scopes, S # <<>>
  PROVE  /\ Front(S) \in Scopes
         /\ Len(Front(S)) = Len(S) - 1
         /\ \A i \in 1..(Len(S) - 1) : Front(S)[i] = S[i]
         /\ Last(S) = S[Len(S)] /\ Last(S) \in Scope
         /\ Len(S) \in Nat \ {0}
<1>1. S \in Seq(Scope) BY DEF Scopes
<1>2. /\ Front(S) \in Seq(Scope) /\ Len(Front(S)) = Len(S) - 1 /\ Len(S) \in Nat \ {0}
      /\ \A i \in 1..(Len(S) - 1) : Front(S)[i] = S[i]
      /\ Last(S) = S[Len(S)] /\ Last(S) \in Scope
  BY <1>1, FrontOf
<1>3. \A i, j \in DOMAIN S : i < j /\ S[j].kind = "namespace" => S[i].kind = "namespace"
  BY DEF Scopes
<1>4. DOMAIN Front(S) = 1..(Len(S) - 1) /\ DOMAIN S = 1..Len(S) BY <1>1, <1>2
<1>5. \A i, j \in DOMAIN Front(S) : i < j /\ Front(S)[j].kind = "namespace" => Front(S)[i].kind = "namespace"
  BY <1>2, <1>3, <1>4
<1> QED BY <1>2, <1>5 DEF Scopes

\* What is written in a program starts with no part that is reserved.
LEMMA WrittenFacts ==
  ASSUME NEW x \in Written
  PROVE  /\ x \in Seq(Parts) /\ Len(x) \in Nat \ {0} /\ x \in String /\ x # NoName
         /\ x[1] \in Parts \ Reserved
         /\ \A i \in 1..Len(x) : x[i] \in Parts \ {Builtin, C_code, noRecordName}
<1>1. x \in Seq(Parts \ {Builtin, C_code, noRecordName}) /\ x # <<>> /\ x[1] # Empty BY DEF Written
<1>2. Len(x) \in Nat \ {0} /\ \A i \in 1..Len(x) : x[i] \in Parts \ {Builtin, C_code, noRecordName}
  BY <1>1, EmptySeq
<1>3. x \in Seq(Parts) BY <1>1, <1>2, SeqDef
<1>4. x[1] \in Parts \ Reserved
  <2>1. 1 \in 1..Len(x) BY <1>2
  <2> QED BY <1>1, <1>2, <2>1 DEF Reserved
<1>5. x # NoName BY <1>1 DEF NoName
<1> QED BY <1>1, <1>2, <1>3, <1>4, <1>5 DEF String

LEMMA ScopeFacts ==
  ASSUME NEW s \in Scope
  PROVE  /\ s.kind \in {"namespace", "record"}
         /\ s.text \in {NoName} \cup Written /\ s.text \in String
         /\ s.name = NoName <=> s.text = NoName
         /\ s.name = NoName \/ \E x \in Identifiers : s.name = <<x>>
         /\ s.name \in String
         /\ s.kind = "namespace" => s.text = s.name
         /\ Len(s.text) > 1 => s.text[Len(s.text)] \notin Identifiers
<1>1. s \in [kind : {"namespace", "record"}, name : {NoName} \cup {<<x>> : x \in Identifiers},
             text : {NoName} \cup Written]
  BY DEF Scope
<1>2. NoName \in String BY NamespacesAssumption DEF NoName, String, Reserved
<1>3. s.text \in String BY <1>1, <1>2, WrittenFacts
<1>4. \A x \in Identifiers : <<x>> \in String BY NamespacesAssumption DEF String
<1>5. s.name \in String BY <1>1, <1>2, <1>4
<1>6. /\ s.name = NoName <=> s.text = NoName
      /\ s.kind = "namespace" => s.text = s.name
      /\ Len(s.text) > 1 => s.text[Len(s.text)] \notin Identifiers
  BY DEF Scope
<1> QED BY <1>1, <1>3, <1>5, <1>6

-----------------------------------------------------------------------------
(* The first scope with a name, and the names of all of them.              *)

IsFirst(S, k) == k \in 1..Len(S) /\ S[k].text # NoName /\ \A j \in 1..(k - 1) : S[j].text = NoName

LEMMA FirstNamed ==
  ASSUME NEW S \in Scopes, ~Nameless(S)
  PROVE  \E k : IsFirst(S, k) /\ Outermost(S) = S[k].text /\ printRootQualification(S) = S[k].text
<1> DEFINE t == {i \in 1..Len(S) : S[i].text # NoName}
<1>1. Len(S) \in Nat /\ DOMAIN S = 1..Len(S) BY ScopesAre
<1>2. t \in SUBSET (1..Len(S)) /\ t # {} BY <1>1 DEF Nameless
<1>3. Min(t) \in t /\ \A y \in t : Min(t) <= y
  <2> HIDE DEF t
  <2> QED BY <1>1, <1>2, MinIn
<1>4. IsFirst(S, Min(t))
  <2>1. \A j \in 1..(Min(t) - 1) : j \in 1..Len(S) /\ j \notin t
    <3> HIDE DEF t
    <3> DEFINE m == Min(t)
    <3>1. m \in 1..Len(S) /\ \A y \in t : m <= y BY <1>2, <1>3
    <3> HIDE DEF m
    <3>2. \A j \in 1..(m - 1) : j \in 1..Len(S) /\ j \notin t BY <1>1, <3>1
    <3> QED BY <3>2 DEF m
  <2> QED BY <1>3, <2>1 DEF IsFirst
<1>5. SelectInSeq(S, LAMBDA s : s.text # NoName) = Min(t)
  BY <1>2, Zenon DEF SelectInSeq
<1>6. printRootQualification(S) = S[Min(t)].text
  <2>1. Min(t) # 0 BY <1>1, <1>3
  <2> QED BY <1>5, <2>1, Zenon DEF printRootQualification
<1>7. Outermost(S) = S[Min(t)].text
  <2> DEFINE Q(i) == i \in DOMAIN S /\ S[i].text # NoName /\ \A j \in 1..(i - 1) : S[j].text = NoName
             c == CHOOSE i : Q(i)
  <2>1. Q(Min(t)) BY <1>1, <1>4 DEF IsFirst
  <2>2. Q(c) BY <2>1, Zenon
  <2>3. c = Min(t)
    <3> HIDE DEF c, t
    <3>1. c \in 1..Len(S) /\ Min(t) \in 1..Len(S) BY <1>1, <2>1, <2>2
    <3>2. ~(c < Min(t)) BY <2>1, <2>2, <3>1
    <3>3. ~(Min(t) < c) BY <2>1, <2>2, <3>1
    <3> QED BY <3>1, <3>2, <3>3
  <2>4. Outermost(S) = S[CHOOSE i \in DOMAIN S : S[i].text # NoName /\ \A j \in 1..(i - 1) : S[j].text = NoName].text
    BY Zenon DEF Outermost
  <2>5. Outermost(S) = S[c].text
    BY <2>4, Zenon
  <2> QED BY <2>3, <2>5
<1> QED BY <1>4, <1>6, <1>7

LEMMA NoneNamed ==
  ASSUME NEW S \in Scopes, Nameless(S)
  PROVE  printRootQualification(S) = NoName /\ Outermost(S) = Root
<1>1. {i \in 1..Len(S) : S[i].text # NoName} = {} BY ScopesAre DEF Nameless
<1>2. SelectInSeq(S, LAMBDA s : s.text # NoName) = 0 BY <1>1, Zenon DEF SelectInSeq
<1> QED BY <1>2, Zenon DEF printRootQualification, Outermost

LEMMA OutermostFacts ==
  ASSUME NEW S \in Scopes, ~Nameless(S)
  PROVE  /\ Outermost(S) \in Written /\ Outermost(S) # NoName /\ Outermost(S) # Root
         /\ Outermost(S) \in String /\ Len(Outermost(S)) \in Nat \ {0}
         /\ Outermost(S)[1] \in Parts \ Reserved
<1>1. PICK k : IsFirst(S, k) /\ Outermost(S) = S[k].text BY FirstNamed
<1>2. S[k] \in Scope /\ S[k].text # NoName BY <1>1, ScopesAre DEF IsFirst
<1>3. Outermost(S) \in Written BY <1>1, <1>2, ScopeFacts
<1>4. Outermost(S)[1] \in Parts \ Reserved /\ Len(Outermost(S)) \in Nat \ {0} BY <1>3, WrittenFacts
<1>5. Outermost(S) # Root BY <1>4 DEF Root, Reserved
<1> QED BY <1>3, <1>4, <1>5, WrittenFacts

\* q[i] is the qualification made by the first i scopes.
Extended(q, s) == IF s.kind = "namespace" \/ q # NoName THEN q \o s.text ELSE s.text
Unwinds(S, q) == q[0] = NoName /\ \A i \in 1..Len(S) : q[i] = Extended(q[i - 1], S[i])

\* z is x followed by y.
Joins(x, y, z) ==
  /\ z \in String /\ Len(z) = Len(x) + Len(y)
  /\ \A i \in 1..Len(x) : z[i] = x[i]
  /\ \A i \in 1..Len(y) : z[Len(x) + i] = y[i]
  /\ Len(x) \in Nat \ {0} /\ Len(y) \in Nat \ {0}

LEMMA StringsJoin ==
  ASSUME NEW x \in String, NEW y \in String, NEW z, z = x \o y PROVE Joins(x, y, z)
<1>1. x \in Seq(Parts) /\ y \in Seq(Parts) /\ x # <<>> /\ y # <<>> BY DEF String
<1>2. Len(x) \in Nat \ {0} /\ Len(y) \in Nat \ {0} BY <1>1, EmptySeq
<1>3. z \in Seq(Parts) /\ Len(z) = Len(x) + Len(y) BY <1>1
<1>4. z # <<>> BY <1>2, <1>3
<1>5. /\ \A i \in 1..Len(x) : z[i] = x[i]
      /\ \A i \in 1..Len(y) : z[Len(x) + i] = y[i]
  BY <1>1, <1>2
<1> QED BY <1>1, <1>2, <1>3, <1>4, <1>5 DEF String, Joins

LEMMA QualificationIs ==
  ASSUME NEW S \in Scopes
  PROVE  \E q \in [0..Len(S) -> String] : Unwinds(S, q) /\ printQualification(S) = q[Len(S)]
<1> DEFINE n == Len(S)
           D == 0..n
           Rhs(h, i) == IF i = 0 THEN NoName
                        ELSE IF S[i].kind = "namespace" \/ h[i - 1] # NoName THEN h[i - 1] \o S[i].text
                        ELSE S[i].text
           Y == {m \in Nat : \E h \in [D -> String] : \A i \in D : i <= m => h[i] = Rhs(h, i)}
<1>1. n \in Nat /\ \A i \in 1..n : S[i] \in Scope BY ScopesAre
<1>2. NoName \in String BY NamespacesAssumption DEF NoName, String, Reserved
<1>3. \A i \in 1..n : S[i].text \in String BY <1>1, ScopeFacts
<1>4. 0 \in Y
  <2>1. [i \in D |-> NoName] \in [D -> String] BY <1>2
  <2>2. \A i \in D : i <= 0 => i = 0 BY <1>1
  <2> QED BY <2>1, <2>2
<1>5. ASSUME NEW k \in 1..n, k - 1 \in Y PROVE k \in Y
  <2>1. PICK h \in [D -> String] : \A i \in D : i <= k - 1 => h[i] = Rhs(h, i)
    BY <1>5
  <2> DEFINE g == [i \in D |-> Rhs(h, i)]
  <2>2. ASSUME NEW i \in D PROVE Rhs(h, i) \in String
    <3>1. CASE i = 0 BY <1>2, <3>1
    <3>2. CASE i # 0
      <4>1. i - 1 \in D /\ i \in 1..n BY <1>1, <3>2
      <4>2. h[i - 1] \in String /\ S[i].text \in String BY <1>3, <4>1
      <4>3. h[i - 1] \o S[i].text \in String BY <4>2, StringsJoin DEF Joins
      <4> QED BY <3>2, <4>2, <4>3
    <3> QED BY <3>1, <3>2
  <2>3. g \in [D -> String] BY <2>2
  <2>4. ASSUME NEW i \in D, i <= k PROVE g[i] = Rhs(g, i)
    <3>1. CASE i = 0 BY <3>1
    <3>2. CASE i # 0
      <4>1. i - 1 \in D /\ i - 1 <= k - 1 BY <1>1, <1>5, <2>4, <3>2
      <4>2. g[i - 1] = h[i - 1] BY <2>1, <4>1
      <4> QED BY <3>2, <4>2
    <3> QED BY <3>1, <3>2
  <2>5. \A i \in D : i <= k => g[i] = Rhs(g, i) BY <2>4
  <2>6. k \in Nat BY <1>1
  <2> HIDE DEF g
  <2> QED BY <2>3, <2>5, <2>6
<1>6. n \in Y
  <2>1. Inductive(n, Y)
    <3> HIDE DEF Y
    <3> QED BY <1>4, <1>5 DEF Inductive
  <2> HIDE DEF Y
  <2> QED BY <1>1, <2>1, UpTo
<1>7. PICK g \in [D -> String] : \A i \in D : g[i] = Rhs(g, i) BY <1>1, <1>6
<1> DEFINE Is(h) == h = [i \in D |-> Rhs(h, i)]
           q == CHOOSE h : Is(h)
<1>8. Is(q)
  <2>1. Is(g) BY <1>7
  <2> HIDE DEF Is
  <2> QED BY <2>1
<1>9. printQualification(S) = q[n] BY Zenon DEF printQualification
<1>10. \A i \in D : q[i] = Rhs(q, i)
  <2> HIDE DEF q
  <2> QED BY <1>8
<1>11. q \in [D -> String]
  <2> HIDE DEF q
  <2> DEFINE Z == {m \in Nat : m \in D => q[m] \in String}
  <2>1. 0 \in Z BY <1>2, <1>10
  <2>2. ASSUME NEW k \in 1..n, k - 1 \in Z PROVE k \in Z
    <3>1. k \in D /\ k - 1 \in D /\ k # 0 /\ k \in Nat BY <1>1
    <3>2. q[k - 1] \in String /\ S[k].text \in String BY <1>3, <2>2, <3>1
    <3>3. q[k - 1] \o S[k].text \in String BY <3>2, StringsJoin DEF Joins
    <3>4. q[k] \in String BY <1>10, <3>1, <3>2, <3>3
    <3> QED BY <3>1, <3>4
  <2>3. D \subseteq Z
    <3>1. Inductive(n, Z)
      <4> HIDE DEF Z
      <4> QED BY <2>1, <2>2 DEF Inductive
    <3> HIDE DEF Z
    <3> QED BY <1>1, <3>1, UpTo
  <2>4. q = [i \in D |-> q[i]] BY <1>8
  <2> QED BY <2>3, <2>4
<1>12. Unwinds(S, q)
  <2> HIDE DEF q
  <2>1. 0 \in D /\ \A i \in 1..n : i \in D /\ i # 0 BY <1>1
  <2> QED BY <1>10, <2>1 DEF Unwinds, Extended
<1> HIDE DEF q
<1> QED BY <1>9, <1>11, <1>12

InNamespace(S) == S # <<>> /\ S[1].kind = "namespace"

\* Around a declaration that is in no namespace there are only records.
LEMMA OnlyRecords ==
  ASSUME NEW S \in Scopes, ~InNamespace(S)
  PROVE  \A i \in 1..Len(S) : S[i].kind # "namespace"
<1>1. Len(S) \in Nat /\ (S # <<>> <=> Len(S) # 0) BY ScopesAre
<1> SUFFICES ASSUME NEW i \in 1..Len(S), S[i].kind = "namespace" PROVE FALSE OBVIOUS
<1>2. S # <<>> /\ 1 \in 1..Len(S) BY <1>1
<1>3. i = 1 \/ 1 < i BY <1>1
<1> QED BY <1>2, <1>3, ScopesAre DEF InNamespace

\* The qualification that a namespace starts.
LEMMA FromNamespace ==
  ASSUME NEW S \in Scopes, InNamespace(S)
  PROVE  LET q == printQualification(S)
         IN /\ q \in String /\ q[1] = Empty /\ q[2] = S[1].text[1]
            /\ Len(q) >= Len(S) + 1 /\ (Len(S) = 1 => Len(q) = 2)
            /\ Len(S) \in Nat \ {0}
<1>1. /\ Len(S) \in Nat \ {0} /\ 1 \in 1..Len(S) /\ \A i \in 1..Len(S) : S[i] \in Scope
      /\ S[1].kind = "namespace"
  BY ScopesAre DEF InNamespace
<1>2. PICK q \in [0..Len(S) -> String] : Unwinds(S, q) /\ printQualification(S) = q[Len(S)]
  BY QualificationIs
<1> DEFINE P(i) == /\ q[i] \in String /\ q[i][1] = Empty /\ q[i][2] = S[1].text[1]
                   /\ Len(q[i]) >= i + 1 /\ Len(q[i]) \in Nat
           Y == {i \in Nat : i \in 1..Len(S) => P(i)}
<1>3. NoName \in String /\ Len(NoName) = 1 /\ NoName[1] = Empty
  BY NamespacesAssumption DEF NoName, String, Reserved
<1>4. S[1].text \in String /\ Len(S[1].text) = 1
  <2>1. S[1].text \in String /\ S[1].text = S[1].name BY <1>1, ScopeFacts
  <2>2. S[1].name = NoName \/ \E x \in Identifiers : S[1].name = <<x>> BY <1>1, ScopeFacts
  <2>3. \A x : Len(<<x>>) = 1 OBVIOUS
  <2> QED BY <2>1, <2>2, <2>3, <1>3
<1>5. q[1] = NoName \o S[1].text
  <2>1. q[1] = Extended(q[0], S[1]) /\ q[0] = NoName BY <1>1, <1>2 DEF Unwinds
  <2> QED BY <2>1, <1>1 DEF Extended
<1>6. P(1) /\ Len(q[1]) = 2
  <2>1. /\ q[1] \in String /\ Len(q[1]) = Len(NoName) + Len(S[1].text)
        /\ \A i \in 1..Len(NoName) : q[1][i] = NoName[i]
        /\ \A i \in 1..Len(S[1].text) : q[1][Len(NoName) + i] = S[1].text[i]
    <3>1. Joins(NoName, S[1].text, q[1]) BY <1>3, <1>4, <1>5, StringsJoin
    <3> QED BY <3>1 DEF Joins
  <2>2. Len(q[1]) = 2 BY <2>1, <1>3, <1>4
  <2>3. q[1][1] = Empty BY <2>1, <1>3
  <2>4. q[1][1 + 1] = S[1].text[1] BY <2>1, <1>3, <1>4
  <2>5. q[1][2] = S[1].text[1] BY <2>4
  <2>6. Len(q[1]) >= 1 + 1 /\ Len(q[1]) \in Nat BY <2>2
  <2> QED BY <2>1, <2>2, <2>3, <2>5, <2>6
<1>7. ASSUME NEW k \in 1..Len(S), k - 1 \in Y PROVE k \in Y
  <2>1. CASE k = 1 BY <2>1, <1>6
  <2>2. CASE k # 1
    <3>1. k - 1 \in 1..Len(S) /\ k - 1 \in Nat /\ k \in Nat BY <1>1, <2>2
    <3>2. P(k - 1) BY <1>7, <3>1
    <3>3. S[k].text \in String BY <1>1, ScopeFacts
    <3>4. q[k] = Extended(q[k - 1], S[k]) BY <1>2 DEF Unwinds
    <3>5. q[k - 1] # NoName
      <4> DEFINE z == q[k - 1]
      <4>1. Len(z) >= (k - 1) + 1 BY <3>2
      <4> HIDE DEF z
      <4>2. Len(z) # 1
        <5> DEFINE a == Len(z)
        <5>1. a >= (k - 1) + 1 BY <4>1
        <5> HIDE DEF a
        <5>2. a # 1 BY <5>1, <3>1, <1>1, <2>2
        <5> QED BY <5>2 DEF a
      <4> QED BY <4>2, <1>3 DEF z
    <3>6. q[k] = q[k - 1] \o S[k].text BY <3>4, <3>5 DEF Extended
    <3>7. /\ q[k] \in String /\ Len(q[k]) = Len(q[k - 1]) + Len(S[k].text)
          /\ \A i \in 1..Len(q[k - 1]) : q[k][i] = q[k - 1][i]
          /\ Len(S[k].text) \in Nat \ {0}
      <4>1. Joins(q[k - 1], S[k].text, q[k]) BY <3>2, <3>3, <3>6, StringsJoin
      <4> QED BY <4>1 DEF Joins
    <3>8. 1 \in 1..Len(q[k - 1]) /\ 2 \in 1..Len(q[k - 1]) /\ Len(q[k]) >= k + 1 /\ Len(q[k]) \in Nat
      <4> DEFINE a == Len(q[k - 1])
                 b == Len(S[k].text)
                 c == Len(q[k])
      <4>1. a >= (k - 1) + 1 /\ a \in Nat /\ b \in Nat \ {0} /\ c = a + b BY <3>2, <3>7
      <4> HIDE DEF a, b, c
      <4>2. 1 \in 1..a /\ 2 \in 1..a /\ c >= k + 1 /\ c \in Nat BY <4>1, <3>1, <2>2
      <4> QED BY <4>2 DEF a, c
    <3>9. P(k) BY <3>2, <3>7, <3>8
    <3> QED BY <3>1, <3>9
  <2> QED BY <2>1, <2>2
<1>8. Len(S) \in Y
  <2>1. Inductive(Len(S), Y)
    <3>1. 0 \in Y BY <1>1
    <3> HIDE DEF Y
    <3> QED BY <3>1, <1>7 DEF Inductive
  <2> HIDE DEF Y
  <2> QED BY <1>1, <2>1, UpTo
<1>9. P(Len(S)) BY <1>1, <1>8
<1> QED BY <1>1, <1>2, <1>6, <1>9

\* The one that a record starts: nothing before the first scope with a name.
LEMMA FromRecord ==
  ASSUME NEW S \in Scopes, ~InNamespace(S)
  PROVE  LET q == printQualification(S)
         IN /\ q \in String
            /\ Nameless(S) => q = NoName
            /\ \A k : IsFirst(S, k) =>
                 /\ q[1] = S[k].text[1]
                 /\ k = Len(S) => q = S[k].text
                 /\ k # Len(S) => Len(q) > Len(S[k].text)
<1>1. Len(S) \in Nat /\ (\A i \in 1..Len(S) : S[i] \in Scope) /\ DOMAIN S = 1..Len(S) BY ScopesAre
<1>2. PICK q \in [0..Len(S) -> String] : Unwinds(S, q) /\ printQualification(S) = q[Len(S)]
  BY QualificationIs
<1>3. \A i \in 1..Len(S) : q[i] = IF q[i - 1] # NoName THEN q[i - 1] \o S[i].text ELSE S[i].text
  BY <1>2, OnlyRecords DEF Unwinds, Extended
<1>4. ASSUME NEW m \in 0..Len(S), \A j \in 1..m : S[j].text = NoName PROVE q[m] = NoName
  <2> DEFINE Y == {i \in Nat : i <= m => q[i] = NoName}
  <2>1. 0 \in Y BY <1>2 DEF Unwinds
  <2>2. ASSUME NEW i \in 1..m, i - 1 \in Y PROVE i \in Y
    <3>1. i \in 1..Len(S) /\ i - 1 <= m /\ i \in Nat BY <1>1
    <3>2. q[i - 1] = NoName /\ S[i].text = NoName BY <1>4, <2>2, <3>1
    <3> QED BY <1>3, <3>1, <3>2
  <2>3. m \in Y
    <3>1. Inductive(m, Y)
      <4> HIDE DEF Y
      <4> QED BY <2>1, <2>2 DEF Inductive
    <3> HIDE DEF Y
    <3> QED BY <1>1, <3>1, UpTo
  <2> QED BY <2>3
<1>5. Nameless(S) => q[Len(S)] = NoName BY <1>1, <1>4 DEF Nameless
<1>6. ASSUME NEW k, IsFirst(S, k)
      PROVE  /\ q[Len(S)][1] = S[k].text[1]
             /\ k = Len(S) => q[Len(S)] = S[k].text
             /\ k # Len(S) => Len(q[Len(S)]) > Len(S[k].text)
  <2> DEFINE x == S[k].text
  <2>1. k \in 1..Len(S) /\ x # NoName /\ \A j \in 1..(k - 1) : S[j].text = NoName BY <1>6 DEF IsFirst
  <2>2. x \in String /\ x \in Written BY <1>1, <2>1, ScopeFacts
  <2>3. Len(x) \in Nat \ {0} /\ x[1] \notin Reserved BY <2>2, WrittenFacts
  <2>4. q[k] = x
    <3>1. k - 1 \in 0..Len(S) BY <1>1, <2>1
    <3>2. q[k - 1] = NoName BY <1>4, <2>1, <3>1
    <3> QED BY <1>3, <2>1, <3>2
  <2> DEFINE P(i) == /\ q[i] \in String /\ q[i][1] = x[1] /\ Len(q[i]) \in Nat \ {0}
                     /\ i # k => Len(q[i]) > Len(x)
             Y == {i \in Nat : i \in k..Len(S) => P(i)}
  <2> HIDE DEF x
  <2>5. P(k) BY <2>2, <2>3, <2>4
  <2>6. ASSUME NEW i \in 1..Len(S), i - 1 \in Y PROVE i \in Y
    <3>1. CASE i <= k BY <3>1, <2>5, <2>1, <1>1
    <3>2. CASE i > k
      <4>1. i - 1 \in k..Len(S) /\ i \in Nat BY <1>1, <2>1, <3>2
      <4>2. P(i - 1) BY <2>6, <4>1
      <4>3. q[i - 1] # NoName BY <4>2, <2>3 DEF NoName, Reserved
      <4>4. S[i].text \in String BY <1>1, ScopeFacts
      <4>5. q[i] = q[i - 1] \o S[i].text BY <1>3, <4>3
      <4>6. /\ q[i] \in String /\ Len(q[i]) = Len(q[i - 1]) + Len(S[i].text)
            /\ \A j \in 1..Len(q[i - 1]) : q[i][j] = q[i - 1][j]
            /\ Len(S[i].text) \in Nat \ {0}
        <5>1. Joins(q[i - 1], S[i].text, q[i]) BY <4>2, <4>4, <4>5, StringsJoin
        <5> QED BY <5>1 DEF Joins
      <4>7. Len(q[i - 1]) >= Len(x)
        <5>1. CASE i - 1 = k BY <5>1, <2>4, <2>3
        <5>2. CASE i - 1 # k BY <5>2, <4>2, <2>3
        <5> QED BY <5>1, <5>2
      <4>8. 1 \in 1..Len(q[i - 1]) /\ Len(q[i]) > Len(x) /\ Len(q[i]) \in Nat \ {0}
        <5> DEFINE a == Len(q[i - 1])
                   b == Len(S[i].text)
                   c == Len(q[i])
                   d == Len(x)
        <5>1. a \in Nat \ {0} /\ b \in Nat \ {0} /\ d \in Nat /\ c = a + b /\ a >= d
          BY <2>3, <4>2, <4>6, <4>7
        <5> HIDE DEF a, b, c, d
        <5>2. 1 \in 1..a /\ c > d /\ c \in Nat \ {0} BY <5>1
        <5> QED BY <5>2 DEF a, c, d
      <4>9. P(i) BY <4>2, <4>6, <4>8
      <4> QED BY <4>1, <4>9
    <3> QED BY <3>1, <3>2, <1>1, <2>1
  <2>7. Len(S) \in Y
    <3>1. Inductive(Len(S), Y)
      <4>1. 0 \in Y BY <2>1
      <4> HIDE DEF Y
      <4> QED BY <4>1, <2>6 DEF Inductive
    <3> HIDE DEF Y
    <3> QED BY <1>1, <3>1, UpTo
  <2>8. P(Len(S))
    <3>1. Len(S) \in k..Len(S) BY <1>1, <2>1
    <3> HIDE DEF P
    <3> QED BY <2>7, <3>1
  <2> QED BY <2>4, <2>8 DEF x
<1>7. q[Len(S)] \in String BY <1>1, <1>2
<1> QED BY <1>2, <1>5, <1>6, <1>7

-----------------------------------------------------------------------------
(* Names.                                                                  *)

Written0 == {NoName} \cup Written

LEMMA Written0Facts ==
  /\ Written0 \subseteq String
  /\ \A x \in Written0 : Len(x) \in Nat \ {0} /\ (Len(x) = 1 \/ x # NoName)
  /\ NoName \in String /\ Len(NoName) = 1 /\ NoName[1] = Empty
  /\ Root \in String /\ Len(Root) = 2
<1>1. NoName \in String /\ Len(NoName) = 1 /\ NoName[1] = Empty
  BY NamespacesAssumption DEF NoName, String, Reserved
<1>2. Root \in String /\ Len(Root) = 2 BY NamespacesAssumption DEF Root, String, Reserved
<1> QED BY <1>1, <1>2, WrittenFacts DEF Written0

\* A name in a namespace.
LEMMA NameInNamespace ==
  ASSUME NEW S \in Scopes, InNamespace(S), NEW N \in Written0
  PROVE  LET x == printQualifiedName(S, N)
         IN /\ x \in String /\ x[1] = Empty /\ x[2] = S[1].text[1] /\ Len(x) >= 2
            /\ Len(x) = 2 <=> Len(S) = 1 /\ N = NoName
<1> DEFINE q == printQualification(S)
<1>1. /\ q \in String /\ q[1] = Empty /\ q[2] = S[1].text[1]
      /\ Len(q) >= Len(S) + 1 /\ (Len(S) = 1 => Len(q) = 2)
      /\ Len(S) \in Nat \ {0}
  BY FromNamespace
<1>2. printQualifiedName(S, N) = IF q = NoName THEN N ELSE IF N = NoName THEN q ELSE q \o N
  BY DEF printQualifiedName
<1> HIDE DEF q
<1>3. Len(q) \in Nat \ {0} /\ N \in String /\ Len(N) \in Nat \ {0}
  <2>1. q \in Seq(Parts) /\ q # <<>> BY <1>1 DEF String
  <2> QED BY <2>1, EmptySeq, Written0Facts
<1>4. q # NoName
  <2>1. Len(q) # 1 BY <1>1, <1>3
  <2> QED BY <2>1, Written0Facts
<1>5. CASE N = NoName
  <2>1. printQualifiedName(S, N) = q BY <1>2, <1>4, <1>5
  <2>2. Len(q) >= 2 /\ (Len(q) = 2 <=> Len(S) = 1)
    <3> DEFINE a == Len(q)
               b == Len(S)
    <3>1. a \in Nat /\ a >= b + 1 /\ (b = 1 => a = 2) /\ b \in Nat \ {0} BY <1>1, <1>3
    <3> HIDE DEF a, b
    <3>2. a >= 2 /\ (a = 2 <=> b = 1) BY <3>1
    <3> QED BY <3>2 DEF a, b
  <2> QED BY <1>1, <1>5, <2>1, <2>2
<1>6. CASE N # NoName
  <2> DEFINE x == printQualifiedName(S, N)
  <2>1. x = q \o N BY <1>2, <1>4, <1>6
  <2> HIDE DEF x
  <2>2. Joins(q, N, x) BY <1>1, <1>3, <2>1, StringsJoin
  <2>3. x \in String /\ Len(x) = Len(q) + Len(N) /\ \A i \in 1..Len(q) : x[i] = q[i] BY <2>2 DEF Joins
  <2>4. 1 \in 1..Len(q) /\ 2 \in 1..Len(q) /\ Len(x) > 2 /\ Len(x) \in Nat
    <3> DEFINE a == Len(q)
               b == Len(N)
               c == Len(x)
    <3>1. a \in Nat \ {0} /\ b \in Nat \ {0} /\ c = a + b /\ a >= Len(S) + 1 /\ Len(S) \in Nat \ {0}
      BY <1>1, <1>3, <2>3
    <3> HIDE DEF a, b, c
    <3>2. 1 \in 1..a /\ 2 \in 1..a /\ c > 2 /\ c \in Nat BY <3>1
    <3> QED BY <3>2 DEF a, c
  <2>5. x[1] = Empty /\ x[2] = S[1].text[1] BY <1>1, <2>3, <2>4
  <2>6. Len(x) >= 2 /\ Len(x) # 2
    <3> DEFINE c == Len(x)
    <3>1. c > 2 /\ c \in Nat BY <2>4
    <3> HIDE DEF c
    <3>2. c >= 2 /\ c # 2 BY <3>1
    <3> QED BY <3>2 DEF c
  <2> QED BY <1>6, <2>3, <2>5, <2>6 DEF x
<1> QED BY <1>5, <1>6

\* A name outside any namespace.
LEMMA NameInRecord ==
  ASSUME NEW S \in Scopes, ~InNamespace(S), NEW N \in Written0
  PROVE  LET x == printQualifiedName(S, N)
         IN /\ x \in String
            /\ Nameless(S) => x = N
            /\ \A k : IsFirst(S, k) =>
                 /\ x[1] = S[k].text[1]
                 /\ k = Len(S) => x = IF N = NoName THEN S[k].text ELSE S[k].text \o N
                 /\ k # Len(S) => Len(x) > Len(S[k].text)
<1> DEFINE q == printQualification(S)
           x == printQualifiedName(S, N)
<1>1. /\ q \in String
      /\ Nameless(S) => q = NoName
      /\ \A k : IsFirst(S, k) =>
           /\ q[1] = S[k].text[1]
           /\ k = Len(S) => q = S[k].text
           /\ k # Len(S) => Len(q) > Len(S[k].text)
  BY FromRecord
<1>2. x = IF q = NoName THEN N ELSE IF N = NoName THEN q ELSE q \o N
  BY DEF printQualifiedName
<1> HIDE DEF q, x
<1>3. N \in String /\ Len(N) \in Nat \ {0} BY Written0Facts
<1>4. Len(q) \in Nat \ {0}
  <2>1. q \in Seq(Parts) /\ q # <<>> BY <1>1 DEF String
  <2> QED BY <2>1, EmptySeq
<1>5. N # NoName => Joins(q, N, q \o N) BY <1>1, <1>3, StringsJoin
<1>6. x \in String BY <1>1, <1>2, <1>3, <1>5 DEF Joins
<1>7. ASSUME NEW k, IsFirst(S, k)
      PROVE  /\ x[1] = S[k].text[1]
             /\ k = Len(S) => x = IF N = NoName THEN S[k].text ELSE S[k].text \o N
             /\ k # Len(S) => Len(x) > Len(S[k].text)
  <2>1. S[k] \in Scope /\ S[k].text # NoName /\ k \in 1..Len(S) BY <1>7, ScopesAre DEF IsFirst
  <2>2. S[k].text \in Written BY <2>1, ScopeFacts
  <2>3. S[k].text[1] # Empty /\ Len(S[k].text) \in Nat BY <2>2, WrittenFacts DEF Reserved
  <2>4. q # NoName BY <1>1, <1>7, <2>3, Written0Facts
  <2>5. CASE N = NoName BY <1>1, <1>2, <1>7, <2>4, <2>5
  <2>6. CASE N # NoName
    <3>1. x = q \o N /\ Joins(q, N, x) BY <1>2, <1>5, <2>4, <2>6
    <3>2. Len(x) = Len(q) + Len(N) /\ x[1] = q[1]
      <4>1. 1 \in 1..Len(q) BY <1>4
      <4> QED BY <3>1, <4>1 DEF Joins
    <3>3. x[1] = S[k].text[1] BY <1>1, <1>7, <3>2
    <3>4. k = Len(S) => x = S[k].text \o N BY <1>1, <1>7, <3>1
    <3>5. k # Len(S) => Len(x) > Len(S[k].text)
      <4> DEFINE a == Len(q)
                 b == Len(N)
                 c == Len(x)
                 d == Len(S[k].text)
      <4>1. a \in Nat \ {0} /\ b \in Nat \ {0} /\ c = a + b /\ d \in Nat /\ (k # Len(S) => a > d)
        BY <1>1, <1>3, <1>4, <1>7, <2>3, <3>2
      <4> HIDE DEF a, b, c, d
      <4>2. k # Len(S) => c > d BY <4>1
      <4> QED BY <4>2 DEF c, d
    <3> QED BY <2>6, <3>3, <3>4, <3>5
  <2> QED BY <2>5, <2>6
<1>8. Nameless(S) => x = N BY <1>1, <1>2
<1> QED BY <1>6, <1>7, <1>8 DEF x

LEMMA SameFirst ==
  ASSUME NEW S \in Scopes, NEW k, NEW l, IsFirst(S, k), IsFirst(S, l)
  PROVE  k = l
<1>1. Len(S) \in Nat BY ScopesAre
<1>2. k \in 1..Len(S) /\ l \in 1..Len(S) BY DEF IsFirst
<1>3. ~(k < l)
  <2> SUFFICES ASSUME k < l PROVE FALSE OBVIOUS
  <2>1. k \in 1..(l - 1) BY <1>1, <1>2
  <2> QED BY <2>1 DEF IsFirst
<1>4. ~(l < k)
  <2> SUFFICES ASSUME l < k PROVE FALSE OBVIOUS
  <2>1. l \in 1..(k - 1) BY <1>1, <1>2
  <2> QED BY <2>1 DEF IsFirst
<1> QED BY <1>1, <1>2, <1>3, <1>4

\* The first scope of S that has a name is that of Front(S), or else the last one.
LEMMA OutermostFront ==
  ASSUME NEW S \in Scopes, S # <<>>
  PROVE  /\ Nameless(S) <=> Nameless(Front(S)) /\ Last(S).text = NoName
         /\ ~Nameless(Front(S)) =>
              /\ Outermost(S) = Outermost(Front(S))
              /\ \A k : IsFirst(S, k) => IsFirst(Front(S), k) /\ k < Len(S)
         /\ Nameless(Front(S)) /\ Last(S).text # NoName =>
              Outermost(S) = Last(S).text /\ IsFirst(S, Len(S))
<1> DEFINE F == Front(S)
           n == Len(S)
<1>1. /\ F \in Scopes /\ Len(F) = n - 1 /\ n \in Nat \ {0} /\ Last(S) = S[n]
      /\ \A i \in 1..(n - 1) : F[i] = S[i]
      /\ DOMAIN S = 1..n /\ DOMAIN F = 1..(n - 1)
  <2>1. /\ F \in Scopes /\ Len(F) = n - 1 /\ n \in Nat \ {0} /\ Last(S) = S[n]
        /\ \A i \in 1..(n - 1) : F[i] = S[i]
    BY FrontScopes
  <2> HIDE DEF F
  <2>2. DOMAIN S = 1..n /\ DOMAIN F = 1..Len(F) BY <2>1, ScopesAre
  <2> QED BY <2>1, <2>2
<1> HIDE DEF F
<1>2. \A i \in 1..n : i \in 1..(n - 1) \/ i = n BY <1>1
<1>3. \A i \in 1..(n - 1) : i \in 1..n /\ i # n BY <1>1
<1>4. Nameless(S) <=> Nameless(F) /\ Last(S).text = NoName
  BY <1>1, <1>2, <1>3 DEF Nameless
<1>5. ASSUME ~Nameless(F)
      PROVE  /\ Outermost(S) = Outermost(F)
             /\ \A k : IsFirst(S, k) => IsFirst(F, k) /\ k < n
  <2>1. PICK k : IsFirst(F, k) /\ Outermost(F) = F[k].text BY <1>1, <1>5, FirstNamed
  <2>2. k \in 1..(n - 1) /\ \A j \in 1..(k - 1) : j \in 1..(n - 1) BY <1>1, <2>1 DEF IsFirst
  <2>3. IsFirst(S, k) BY <1>1, <1>3, <2>1, <2>2 DEF IsFirst
  <2>4. PICK l : IsFirst(S, l) /\ Outermost(S) = S[l].text BY <1>4, <1>5, FirstNamed
  <2>5. l = k BY <2>3, <2>4, SameFirst
  <2>6. \A m : IsFirst(S, m) => m = k BY <2>3, SameFirst
  <2> QED BY <1>1, <2>1, <2>2, <2>4, <2>5, <2>6
<1>6. ASSUME Nameless(F), Last(S).text # NoName
      PROVE  Outermost(S) = Last(S).text /\ IsFirst(S, n)
  <2>1. IsFirst(S, n) BY <1>1, <1>6 DEF IsFirst, Nameless
  <2>2. PICK l : IsFirst(S, l) /\ Outermost(S) = S[l].text BY <1>4, <1>6, FirstNamed
  <2>3. l = n BY <2>1, <2>2, SameFirst
  <2> QED BY <1>1, <2>1, <2>2, <2>3
<1> QED BY <1>1, <1>4, <1>5, <1>6 DEF F

Trim(S) == IF S # <<>> /\ Last(S).kind = "record" THEN Front(S) ELSE S

LEMMA TrimIs ==
  ASSUME NEW S \in Scopes
  PROVE  Trim(S) \in Scopes /\ Outside(S) = Outermost(Trim(S))
BY FrontScopes DEF Trim, Outside

\* The namespace of the scopes, or else that of the name.
LEMMA RootNamespace ==
  ASSUME NEW S \in Scopes, NEW id, NEW r
  PROVE  printRootNamespace(S, id, r) =
           IF Nameless(Trim(S)) THEN get_namespaces(id, r) ELSE Outermost(Trim(S))
<1>1. \A X \in Scopes : printRootQualification(X) = IF Nameless(X) THEN NoName ELSE Outermost(X)
  BY FirstNamed, NoneNamed
<1>2. \A X \in Scopes : ~Nameless(X) => Outermost(X) # NoName BY OutermostFacts
<1>3. CASE S = <<>>
  <2>1. Nameless(S) BY <1>3 DEF Nameless
  <2>2. Trim(S) = S BY <1>3 DEF Trim
  <2> QED BY <1>3, <2>1, <2>2 DEF printRootNamespace
<1>4. CASE S # <<>> /\ Last(S).kind = "record"
  <2>1. Front(S) \in Scopes /\ Trim(S) = Front(S) BY <1>4, FrontScopes DEF Trim
  <2> QED BY <1>1, <1>2, <1>4, <2>1 DEF printRootNamespace
<1>5. CASE S # <<>> /\ Last(S).kind # "record"
  <2>1. Front(S) \in Scopes /\ Trim(S) = S BY <1>5, FrontScopes DEF Trim
  <2>2. CASE ~Nameless(Front(S))
    <3>1. ~Nameless(S) /\ Outermost(S) = Outermost(Front(S)) BY <1>5, <2>2, OutermostFront
    <3> QED BY <1>1, <1>2, <1>5, <2>1, <2>2, <3>1 DEF printRootNamespace
  <2>3. CASE Nameless(Front(S))
    <3>1. /\ Nameless(S) <=> Last(S).text = NoName
          /\ Last(S).text # NoName => Outermost(S) = Last(S).text
      BY <1>5, <2>3, OutermostFront
    <3> QED BY <1>1, <1>5, <2>1, <2>3, <3>1 DEF printRootNamespace
  <2> QED BY <2>2, <2>3
<1> QED BY <1>3, <1>4, <1>5

-----------------------------------------------------------------------------
(* The scopes of a record: in a namespace or not, and then where the first *)
(* name is.                                                                 *)

RecordScopes == {S \in Scopes : S # <<>> /\ Last(S).kind = "record"}

LEMMA RecordFront ==
  ASSUME NEW S \in RecordScopes
  PROVE  /\ S \in Scopes /\ S # <<>> /\ Front(S) \in Scopes /\ Trim(Front(S)) \in Scopes
         /\ Len(Front(S)) = Len(S) - 1 /\ Len(S) \in Nat \ {0}
         /\ \A i \in 1..(Len(S) - 1) : Front(S)[i] = S[i]
         /\ Last(S) = S[Len(S)] /\ Last(S) \in Scope
         /\ Last(S).name \in Written0 /\ Len(Last(S).name) = 1
         /\ Last(S).text \in Written0
         /\ Last(S).name = NoName <=> Last(S).text = NoName
         /\ Len(Last(S).text) > 1 => Last(S).text[Len(Last(S).text)] \notin Identifiers
         /\ Last(S).name # NoName => \E x \in Identifiers : Last(S).name = <<x>>
         /\ InNamespace(S) <=> InNamespace(Front(S))
         /\ Front(S) # <<>> <=> Len(S) > 1
         /\ Front(S) = <<>> <=> Len(S) = 1
<1>1. S \in Scopes /\ S # <<>> /\ Last(S).kind = "record" BY DEF RecordScopes
<1>2. /\ Front(S) \in Scopes /\ Len(Front(S)) = Len(S) - 1 /\ Len(S) \in Nat \ {0}
      /\ \A i \in 1..(Len(S) - 1) : Front(S)[i] = S[i]
      /\ Last(S) = S[Len(S)] /\ Last(S) \in Scope
  BY <1>1, FrontScopes
<1>3. /\ Last(S).text \in Written0
      /\ Last(S).name = NoName <=> Last(S).text = NoName
      /\ Len(Last(S).text) > 1 => Last(S).text[Len(Last(S).text)] \notin Identifiers
      /\ Last(S).name # NoName => \E x \in Identifiers : Last(S).name = <<x>>
  BY <1>2, ScopeFacts DEF Written0
<1>4. Last(S).name \in Written0 /\ Len(Last(S).name) = 1
  <2>1. ASSUME NEW x \in Identifiers PROVE <<x>> \in Written /\ Len(<<x>>) = 1
    <3>1. x \in Parts \ Reserved BY NamespacesAssumption
    <3> QED BY <3>1 DEF Written, Reserved
  <2> QED BY <1>3, <2>1, Written0Facts DEF Written0
<1>5. Trim(Front(S)) \in Scopes BY <1>2, TrimIs
<1>6. /\ Front(S) # <<>> <=> Len(S) > 1
      /\ Front(S) = <<>> <=> Len(S) = 1
  <2>1. Front(S) # <<>> <=> Len(Front(S)) # 0 BY <1>2, ScopesAre
  <2> QED BY <1>2, <2>1
<1>7. InNamespace(S) <=> InNamespace(Front(S))
  <2>1. CASE Len(S) = 1
    <3>1. S[1].kind = "record" BY <1>1, <1>2, <2>1
    <3> QED BY <1>6, <2>1, <3>1 DEF InNamespace
  <2>2. CASE Len(S) > 1
    <3>1. Front(S)[1] = S[1] BY <1>2, <2>2
    <3> QED BY <1>1, <1>6, <2>2, <3>1 DEF InNamespace
  <2> QED BY <1>2, <2>1, <2>2
<1> QED BY <1>1, <1>2, <1>3, <1>4, <1>5, <1>6, <1>7

LEMMA TextIs ==
  ASSUME NEW S \in Scopes, S # <<>>, S[1].text # NoName
  PROVE  ~Nameless(S) /\ Outermost(S) = S[1].text
<1>1. Len(S) \in Nat \ {0} /\ DOMAIN S = 1..Len(S) BY ScopesAre
<1>2. IsFirst(S, 1) BY <1>1 DEF IsFirst
<1>3. ~Nameless(S) BY <1>1 DEF Nameless
<1>4. PICK k : IsFirst(S, k) /\ Outermost(S) = S[k].text BY <1>3, FirstNamed
<1>5. k = 1 BY <1>2, <1>4, SameFirst
<1> QED BY <1>3, <1>4, <1>5

\* In a namespace without name.
InAnonymous(S) ==
  /\ ~Specialized(S) /\ ~Specialized(Front(S)) /\ ~Unnamed(S) /\ ~InClass(S) /\ ~Global(S)
  /\ Hidden(S) <=> ~Nameless(Front(S))
  /\ HiddenRecord(S) <=> ~Nameless(Trim(Front(S)))
  /\ \A N \in Written0 :
       LET x == printQualifiedName(Front(S), N)
           y == printQualifiedName(S, N)
       IN /\ x \in String /\ Len(x) >= 2 /\ x[1] = Empty /\ x[2] = Empty
          /\ y \in String /\ Len(y) >= 2 /\ y[1] = Empty /\ y[2] = Empty

LEMMA ThoseInAnonymous ==
  ASSUME NEW S \in RecordScopes, Anonymous(S)
  PROVE  InAnonymous(S)
<1>1. /\ S \in Scopes /\ S # <<>> /\ Front(S) \in Scopes /\ Trim(Front(S)) \in Scopes
      /\ Len(Front(S)) = Len(S) - 1 /\ Len(S) \in Nat \ {0}
      /\ \A i \in 1..(Len(S) - 1) : Front(S)[i] = S[i]
      /\ InNamespace(S) <=> InNamespace(Front(S))
      /\ Front(S) # <<>> <=> Len(S) > 1
  BY RecordFront
<1>2. InNamespace(S) /\ S[1].text = NoName BY DEF Anonymous, InNamespace
<1>3. InNamespace(Front(S)) /\ Front(S)[1] = S[1] BY <1>1, <1>2 DEF InNamespace
<1>4. Anonymous(Front(S)) BY <1>2, <1>3 DEF Anonymous, InNamespace
<1>5. ~Specialized(S) /\ ~Specialized(Front(S)) /\ ~Unnamed(S) /\ ~InClass(S) /\ ~Global(S)
  BY <1>2, <1>4 DEF Specialized, Unnamed, InClass, Global
<1>6. Hidden(S) <=> ~Nameless(Front(S)) BY DEF Hidden
<1>7. HiddenRecord(S) <=> ~Nameless(Trim(Front(S)))
  <2>1. Front(S) # <<>> BY <1>3 DEF InNamespace
  <2>2. Last(Front(S)).kind \in {"namespace", "record"}
    BY <1>1, <2>1, FrontScopes, ScopeFacts
  <2>3. Nameless(Front(S)) => Nameless(Front(Front(S))) BY <1>1, <2>1, OutermostFront
  <2> QED BY <1>6, <2>1, <2>2, <2>3 DEF HiddenRecord, Trim
<1>8. ASSUME NEW X \in Scopes, InNamespace(X), X[1].text = NoName, NEW N \in Written0
      PROVE  LET x == printQualifiedName(X, N)
             IN x \in String /\ Len(x) >= 2 /\ x[1] = Empty /\ x[2] = Empty
  BY <1>8, NameInNamespace, Written0Facts
<1> QED BY <1>1, <1>2, <1>3, <1>5, <1>6, <1>7, <1>8 DEF InAnonymous

\* In a namespace with a name.
InNamed(S) ==
  /\ ~Specialized(S) /\ ~Specialized(Front(S)) /\ ~InClass(S) /\ ~Global(S)
  /\ ~Hidden(S) /\ ~HiddenRecord(S)
  /\ ~Nameless(Front(S)) /\ ~Nameless(Trim(Front(S)))
  /\ Outermost(Front(S)) = S[1].text /\ Outermost(Trim(Front(S))) = S[1].text
  /\ \E p \in Parts \ Reserved : S[1].text = <<p>>
  /\ ~Anonymous(S)
  /\ \A N \in {Last(S).name, Last(S).text} :
       LET x == printQualifiedName(Front(S), N)
       IN /\ x \in String /\ Len(x) >= 2 /\ x[1] = Empty /\ x[2] = S[1].text[1]
          /\ Len(x) = 2 <=> Unnamed(S)

LEMMA ThoseInNamed ==
  ASSUME NEW S \in RecordScopes, InNamespace(S), ~Anonymous(S)
  PROVE  InNamed(S)
<1> DEFINE F == Front(S)
<1>1. /\ S \in Scopes /\ S # <<>> /\ F \in Scopes /\ Trim(F) \in Scopes
      /\ Len(F) = Len(S) - 1 /\ Len(S) \in Nat \ {0}
      /\ \A i \in 1..(Len(S) - 1) : F[i] = S[i]
      /\ InNamespace(F)
      /\ Len(S) > 1 /\ F # <<>>
      /\ Last(S) = S[Len(S)]
      /\ Last(S).name \in Written0 /\ Last(S).text \in Written0
      /\ Last(S).name = NoName <=> Last(S).text = NoName
  BY RecordFront DEF InNamespace
<1> HIDE DEF F
<1>2. F[1] = S[1] /\ S[1].kind = "namespace" /\ S[1].text # NoName
  BY <1>1 DEF InNamespace, Anonymous
<1>3. \E p \in Parts \ Reserved : S[1].text = <<p>>
  <2>1. S[1] \in Scope BY <1>1, ScopesAre
  <2>2. S[1].text = S[1].name /\ \E x \in Identifiers : S[1].name = <<x>> BY <1>2, <2>1, ScopeFacts
  <2> QED BY <2>2, NamespacesAssumption
<1>4. Len(S[1].text) = 1 BY <1>3
<1>5. ~Nameless(F) /\ Outermost(F) = S[1].text BY <1>1, <1>2, TextIs
<1>6. ~Nameless(S) /\ Outermost(S) = S[1].text BY <1>1, <1>2, TextIs
<1>7. ~Nameless(Trim(F)) /\ Outermost(Trim(F)) = S[1].text
  <2>1. CASE Last(F).kind = "record"
    <3>1. F \in RecordScopes BY <1>1, <2>1 DEF RecordScopes
    <3>2. /\ Front(F) \in Scopes /\ InNamespace(Front(F)) /\ Len(F) \in Nat
          /\ \A i \in 1..(Len(F) - 1) : Front(F)[i] = F[i]
          /\ Front(F) # <<>> /\ Len(F) > 1
      BY <1>1, <3>1, RecordFront DEF InNamespace
    <3>3. Front(F)[1] = F[1] BY <3>2
    <3>4. Trim(F) = Front(F) BY <1>1, <2>1 DEF Trim
    <3> QED BY <1>2, <3>2, <3>3, <3>4, TextIs
  <2>2. CASE Last(F).kind # "record"
    <3>1. Trim(F) = F BY <2>2 DEF Trim
    <3> QED BY <1>5, <3>1
  <2> QED BY <2>1, <2>2
<1>8. ~Specialized(S) /\ ~Specialized(F)
  <2>1. Len(Outermost(S)) = 1 /\ Len(Outermost(F)) = 1 BY <1>4, <1>5, <1>6
  <2>2. ~(Len(Outermost(S)) > 1) /\ ~(Len(Outermost(F)) > 1) BY <2>1
  <2> QED BY <2>2 DEF Specialized
<1>9. ~InClass(S)
  <2> SUFFICES ASSUME InClass(S) PROVE FALSE OBVIOUS
  <2>1. Last(F).kind = "record" /\ Nameless(Front(F)) BY DEF InClass, F
  <2>2. Trim(F) = Front(F) BY <1>1, <2>1 DEF Trim
  <2> QED BY <1>7, <2>1, <2>2
<1>10. ASSUME NEW N \in {Last(S).name, Last(S).text}
       PROVE  LET x == printQualifiedName(F, N)
              IN /\ x \in String /\ Len(x) >= 2 /\ x[1] = Empty /\ x[2] = S[1].text[1]
                 /\ Len(x) = 2 <=> Unnamed(S)
  <2>1. N \in Written0 /\ (N = NoName <=> Last(S).text = NoName) BY <1>1
  <2>2. Unnamed(S) <=> Len(F) = 1 /\ N = NoName
    <3>1. Len(F) = 1 <=> Len(S) = 2 BY <1>1
    <3>2. Len(S) = 2 => Last(S) = S[2] BY <1>1
    <3> QED BY <1>2, <2>1, <3>1, <3>2 DEF Unnamed
  <2> QED BY <1>1, <1>2, <2>1, <2>2, NameInNamespace
<1>11. ~Global(S) BY <1>5 DEF Global, F
<1>12. ~Hidden(S) /\ ~HiddenRecord(S) BY DEF Hidden, HiddenRecord
<1> QED BY <1>3, <1>5, <1>7, <1>8, <1>9, <1>10, <1>11, <1>12 DEF InNamed, F

\* Nothing around has a name.
Outer(S) ==
  /\ ~Specialized(Front(S)) /\ ~InClass(S) /\ ~Hidden(S) /\ ~HiddenRecord(S) /\ ~Unnamed(S)
  /\ Global(S) /\ ~Anonymous(S)
  /\ Nameless(Front(S)) /\ Nameless(Trim(Front(S)))
  /\ Specialized(S) <=> Len(Last(S).text) > 1
  /\ \A N \in Written0 :
       /\ printQualifiedName(Front(S), N) = N
       /\ printQualifiedName(S, N) = IF Last(S).text = NoName THEN N
                                     ELSE IF N = NoName THEN Last(S).text ELSE Last(S).text \o N

LEMMA ThoseOuter ==
  ASSUME NEW S \in RecordScopes, ~InNamespace(S), Nameless(Front(S))
  PROVE  Outer(S)
<1> DEFINE F == Front(S)
<1>1. /\ S \in Scopes /\ S # <<>> /\ F \in Scopes /\ Trim(F) \in Scopes
      /\ ~InNamespace(F) /\ Last(S).text \in Written0 /\ Last(S) = S[Len(S)]
      /\ F # <<>> <=> Len(S) > 1
  BY RecordFront
<1>2. ~Anonymous(S) /\ ~Unnamed(S)
  BY <1>1 DEF Anonymous, Unnamed, InNamespace
<1>3. ~Specialized(F) /\ ~Hidden(S) /\ ~HiddenRecord(S) /\ Global(S)
  BY <1>2 DEF Specialized, Hidden, HiddenRecord, Global
<1>4. Nameless(Trim(F))
  <2>1. F # <<>> => Nameless(Front(F)) BY <1>1, OutermostFront
  <2> HIDE DEF F
  <2> QED BY <2>1 DEF Trim, F
<1>5. ~InClass(S)
  <2>1. F # <<>> => Last(F).text = NoName BY <1>1, OutermostFront
  <2> QED BY <1>1, <2>1 DEF InClass
<1>6. /\ Nameless(S) <=> Last(S).text = NoName
      /\ Last(S).text # NoName => Outermost(S) = Last(S).text /\ IsFirst(S, Len(S))
  BY <1>1, OutermostFront
<1>7. Specialized(S) <=> Len(Last(S).text) > 1
  <2>1. Len(Last(S).text) > 1 => Last(S).text # NoName
    <3> SUFFICES ASSUME Last(S).text = NoName PROVE ~(Len(Last(S).text) > 1) OBVIOUS
    <3>1. Len(Last(S).text) = 1 BY Written0Facts
    <3> QED BY <3>1
  <2> QED BY <1>2, <1>6, <2>1 DEF Specialized
<1>8. ASSUME NEW N \in Written0
      PROVE  /\ printQualifiedName(F, N) = N
             /\ printQualifiedName(S, N) = IF Last(S).text = NoName THEN N
                                           ELSE IF N = NoName THEN Last(S).text ELSE Last(S).text \o N
  <2>1. printQualifiedName(F, N) = N BY <1>1, NameInRecord
  <2>2. Last(S).text = NoName => printQualifiedName(S, N) = N BY <1>1, <1>6, NameInRecord
  <2>3. Last(S).text # NoName =>
          printQualifiedName(S, N) = IF N = NoName THEN S[Len(S)].text ELSE S[Len(S)].text \o N
    BY <1>1, <1>6, NameInRecord
  <2> QED BY <1>1, <2>1, <2>2, <2>3
<1> QED BY <1>2, <1>3, <1>4, <1>5, <1>7, <1>8 DEF Outer

\* Directly in a class that has a name, around which nothing has one.
InOuterClass(S) ==
  /\ Last(Front(S)).text \in Written
  /\ ~Hidden(S) /\ ~HiddenRecord(S) /\ ~Unnamed(S) /\ ~Anonymous(S)
  /\ InClass(S) /\ ~Global(S)
  /\ ~Nameless(Front(S)) /\ Nameless(Trim(Front(S)))
  /\ Outermost(Front(S)) = Last(Front(S)).text /\ Outermost(S) = Last(Front(S)).text
  /\ Specialized(S) <=> Len(Last(Front(S)).text) > 1
  /\ Specialized(Front(S)) <=> Len(Last(Front(S)).text) > 1
  /\ \A N \in Written0 :
       printQualifiedName(Front(S), N) =
         IF N = NoName THEN Last(Front(S)).text ELSE Last(Front(S)).text \o N

LEMMA ThoseInOuterClass ==
  ASSUME NEW S \in RecordScopes, ~InNamespace(S), ~Nameless(Front(S)), Nameless(Trim(Front(S)))
  PROVE  InOuterClass(S)
<1> DEFINE F == Front(S)
           t == Last(F).text
<1>1. /\ S \in Scopes /\ S # <<>> /\ F \in Scopes /\ Trim(F) \in Scopes
      /\ ~InNamespace(F) /\ Last(S) = S[Len(S)]
      /\ Len(F) = Len(S) - 1
      /\ F # <<>> <=> Len(S) > 1
      /\ Len(S) \in Nat \ {0}
  BY RecordFront
<1>2. F # <<>> /\ Len(S) > 1
  <2>1. F # <<>>
    <3> SUFFICES ASSUME F = <<>> PROVE FALSE OBVIOUS
    <3> HIDE DEF F
    <3>1. Nameless(F) BY DEF Nameless
    <3> QED BY <3>1 DEF F
  <2> QED BY <1>1, <2>1
<1>3. /\ Len(F) \in Nat \ {0} /\ Front(F) \in Scopes /\ Last(F) = F[Len(F)] /\ Last(F) \in Scope
  BY <1>1, <1>2, FrontScopes
<1>4. Last(F).kind = "record"
  <2>1. Len(F) \in 1..Len(F) BY <1>3
  <2>2. Last(F).kind # "namespace" BY <1>1, <1>3, <2>1, OnlyRecords
  <2> QED BY <1>3, <2>2, ScopeFacts
<1>5. Nameless(Front(F))
  <2>1. Trim(F) = Front(F) BY <1>2, <1>4 DEF Trim
  <2> QED BY <2>1
<1>6. t # NoName /\ t \in Written
  <2>1. t # NoName BY <1>1, <1>2, <1>5, OutermostFront
  <2> QED BY <1>3, <2>1, ScopeFacts
<1>7. Outermost(F) = t /\ IsFirst(F, Len(F)) /\ F[Len(F)].text = t
  BY <1>1, <1>2, <1>3, <1>5, <1>6, OutermostFront
<1>8. Outermost(S) = t /\ ~Nameless(S)
  BY <1>1, <1>7, OutermostFront
<1>9. ~Anonymous(S) /\ ~Unnamed(S) /\ ~Anonymous(F)
  BY <1>1 DEF Anonymous, Unnamed, InNamespace
<1>10. ~Hidden(S) /\ ~HiddenRecord(S) /\ ~Global(S)
  BY <1>9 DEF Hidden, HiddenRecord, Global
<1>11. InClass(S) BY <1>2, <1>4, <1>5, <1>6, <1>9 DEF InClass
<1>12. Specialized(S) <=> Len(t) > 1 BY <1>8, <1>9 DEF Specialized
<1>13. Specialized(F) <=> Len(t) > 1 BY <1>7, <1>9 DEF Specialized
<1>14. ASSUME NEW N \in Written0
       PROVE  printQualifiedName(F, N) = IF N = NoName THEN t ELSE t \o N
  <2> HIDE DEF F
  <2>1. printQualifiedName(F, N) = IF N = NoName THEN F[Len(F)].text ELSE F[Len(F)].text \o N
    BY <1>1, <1>7, NameInRecord
  <2> QED BY <1>7, <2>1
<1> QED BY <1>6, <1>7, <1>8, <1>9, <1>10, <1>11, <1>12, <1>13, <1>14 DEF InOuterClass

\* In scopes of which one, but the last, has a name.
InInnerClass(S) ==
  /\ Outermost(Front(S)) \in Written
  /\ ~Hidden(S) /\ ~HiddenRecord(S) /\ ~Unnamed(S) /\ ~Anonymous(S)
  /\ ~InClass(S) /\ ~Global(S)
  /\ ~Nameless(Front(S)) /\ ~Nameless(Trim(Front(S)))
  /\ Outermost(Trim(Front(S))) = Outermost(Front(S))
  /\ Specialized(S) <=> Len(Outermost(Front(S))) > 1
  /\ Specialized(Front(S)) <=> Len(Outermost(Front(S))) > 1
  /\ \A N \in Written0 :
       LET x == printQualifiedName(Front(S), N)
       IN x \in String /\ x[1] = Outermost(Front(S))[1] /\ Len(x) > Len(Outermost(Front(S)))

LEMMA ThoseInInnerClass ==
  ASSUME NEW S \in RecordScopes, ~InNamespace(S), ~Nameless(Trim(Front(S)))
  PROVE  InInnerClass(S)
<1> DEFINE F == Front(S)
           t == Outermost(F)
<1>1. /\ S \in Scopes /\ S # <<>> /\ F \in Scopes /\ Trim(F) \in Scopes
      /\ ~InNamespace(F) /\ Last(S) = S[Len(S)]
      /\ Len(F) = Len(S) - 1
      /\ F # <<>> <=> Len(S) > 1
      /\ Len(S) \in Nat \ {0}
  BY RecordFront
<1>2. F # <<>>
  <2> SUFFICES ASSUME F = <<>> PROVE FALSE OBVIOUS
  <2> HIDE DEF F
  <2>1. Nameless(F) /\ Trim(F) = F BY DEF Nameless, Trim
  <2> QED BY <2>1 DEF F
<1>3. /\ Len(F) \in Nat \ {0} /\ Front(F) \in Scopes /\ Last(F) = F[Len(F)] /\ Last(F) \in Scope
  BY <1>1, <1>2, FrontScopes
<1>4. Last(F).kind = "record"
  <2>1. Len(F) \in 1..Len(F) BY <1>3
  <2>2. Last(F).kind # "namespace" BY <1>1, <1>3, <2>1, OnlyRecords
  <2> QED BY <1>3, <2>2, ScopeFacts
<1>5. Trim(F) = Front(F) /\ ~Nameless(Front(F))
  <2>1. Trim(F) = Front(F) BY <1>2, <1>4 DEF Trim
  <2> QED BY <2>1
<1>6. ~Nameless(F) /\ t = Outermost(Front(F)) /\ \A k : IsFirst(F, k) => k < Len(F)
  BY <1>1, <1>2, <1>5, OutermostFront
<1>7. Outermost(S) = t /\ ~Nameless(S)
  BY <1>1, <1>6, OutermostFront
<1>8. t \in Written /\ t[1] \in Parts \ Reserved BY <1>1, <1>6, OutermostFacts
<1>9. ~Anonymous(S) /\ ~Unnamed(S) /\ ~Anonymous(F)
  BY <1>1 DEF Anonymous, Unnamed, InNamespace
<1>10. ~Hidden(S) /\ ~HiddenRecord(S) /\ ~Global(S) /\ ~InClass(S)
  BY <1>5, <1>6, <1>9 DEF Hidden, HiddenRecord, Global, InClass
<1>11. Specialized(S) <=> Len(t) > 1 BY <1>7, <1>9 DEF Specialized
<1>12. Specialized(F) <=> Len(t) > 1 BY <1>6, <1>9 DEF Specialized
<1>13. ASSUME NEW N \in Written0
       PROVE  LET x == printQualifiedName(F, N)
              IN x \in String /\ x[1] = t[1] /\ Len(x) > Len(t)
  <2> HIDE DEF F
  <2>1. PICK k : IsFirst(F, k) /\ Outermost(F) = F[k].text BY <1>1, <1>6, FirstNamed
  <2>2. k # Len(F)
    <3>1. k < Len(F) /\ k \in 1..Len(F) BY <1>6, <2>1 DEF IsFirst
    <3> QED BY <1>3, <3>1
  <2> QED BY <1>1, <2>1, <2>2, NameInRecord
<1> QED BY <1>5, <1>6, <1>8, <1>9, <1>10, <1>11, <1>12, <1>13 DEF InInnerClass

\* There are no other cases.
LEMMA RecordCases ==
  ASSUME NEW S \in RecordScopes
  PROVE  \/ Anonymous(S) /\ InAnonymous(S)
         \/ InNamed(S) \/ Outer(S) \/ InOuterClass(S) \/ InInnerClass(S)
<1>1. CASE Anonymous(S) BY <1>1, ThoseInAnonymous
<1>2. CASE ~Anonymous(S) /\ InNamespace(S) BY <1>2, ThoseInNamed
<1>3. CASE ~InNamespace(S) BY <1>3, ThoseOuter, ThoseInOuterClass, ThoseInInnerClass
<1> QED BY <1>1, <1>2, <1>3

-----------------------------------------------------------------------------
(* get_namespaces, by what the name starts with.                            *)

LEMMA GetOfEmpty ==
  ASSUME NEW x \in String, NEW r, Len(x) >= 2, x[1] = Empty, x[2] = Empty
  PROVE  get_namespaces(x, r) = Root
<1>1. Len(x) # 1
  <2> DEFINE n == Len(x)
  <2>1. n >= 2 /\ n \in Nat
    <3>1. x \in Seq(Parts) BY DEF String
    <3> QED BY <3>1
  <2> HIDE DEF n
  <2>2. n # 1 BY <2>1
  <2> QED BY <2>2 DEF n
<1>2. x # <<Builtin>> BY <1>1
<1> QED BY <1>2 DEF get_namespaces

LEMMA GetOfGlobal ==
  ASSUME NEW x \in String, Len(x) >= 2, x[1] = Empty, x[2] # Empty
  PROVE  get_namespaces(x, <<C_code>>) = IF Len(x) = 2 THEN Root ELSE <<x[2]>>
<1>1. Len(x) # 1
  <2> DEFINE n == Len(x)
  <2>1. n >= 2 /\ n \in Nat
    <3>1. x \in Seq(Parts) BY DEF String
    <3> QED BY <3>1
  <2> HIDE DEF n
  <2>2. n # 1 BY <2>1
  <2> QED BY <2>2 DEF n
<1>2. x # <<Builtin>> BY <1>1
<1> QED BY <1>1, <1>2 DEF get_namespaces

\* The name of a function that is not a method, or of a record.
LEMMA GetOfName ==
  ASSUME NEW x \in String, x # <<Builtin>>, x[1] # Empty \/ Len(x) = 1
  PROVE  get_namespaces(x, <<C_code>>) = IF Len(x) = 1 THEN Root ELSE <<x[1]>>
BY DEF get_namespaces

LEMMA GetOfMember ==
  ASSUME NEW x \in String, x # <<Builtin>>, x[1] # Empty \/ Len(x) = 1, NEW r, r # <<C_code>>
  PROVE  get_namespaces(x, r) =
           IF Len(x) \in {1, 2} THEN Root
           ELSE IF r # <<x[Len(x) - 1]>> THEN Failed ELSE <<x[1]>>
BY DEF get_namespaces

LEMMA StringFacts ==
  /\ \A x \in String : x \in Seq(Parts) /\ Len(x) \in Nat \ {0} /\ x # Failed
  /\ \A p : <<p>> # Root /\ <<p>> # Failed /\ Len(<<p>>) = 1 /\ <<p>>[1] = p
  /\ \A x \in String : Len(x) = 1 <=> x = <<x[1]>>
<1>1. ASSUME NEW x \in String
      PROVE  x \in Seq(Parts) /\ Len(x) \in Nat \ {0} /\ x # Failed /\ (Len(x) = 1 <=> x = <<x[1]>>)
  <2>1. x \in Seq(Parts) /\ x # <<>> BY DEF String
  <2>2. Len(x) \in Nat \ {0} BY <2>1, EmptySeq
  <2>3. Len(x) = 1 => x = <<x[1]>> BY <2>1
  <2>4. Len(<<x[1]>>) = 1 OBVIOUS
  <2> QED BY <2>1, <2>2, <2>3, <2>4 DEF Failed
<1>2. ASSUME NEW p PROVE <<p>> # Root /\ <<p>> # Failed /\ Len(<<p>>) = 1 /\ <<p>>[1] = p
  <2>1. Len(<<p>>) = 1 /\ <<p>>[1] = p OBVIOUS
  <2>2. Len(<<p>>) # Len(Root) BY <2>1, Written0Facts
  <2> QED BY <2>1, <2>2 DEF Failed
<1> QED BY <1>1, <1>2

\* A part that no declaration may have is in none of its names.
LEMMA NotReserved ==
  /\ \A x \in Written : x # <<Builtin>> /\ x # <<C_code>> /\ x # NoName /\ x[1] # Empty
  /\ \A x \in Written0 : x # <<Builtin>> /\ x # <<C_code>>
  /\ \A x \in Written : \A i \in 1..Len(x) : <<x[i]>> # <<noRecordName>>
  /\ Empty # Builtin /\ Empty # C_code
<1>1. ASSUME NEW x \in Written PROVE x # <<Builtin>> /\ x # <<C_code>> /\ x # NoName /\ x[1] # Empty
  <2>1. x[1] \notin Reserved BY WrittenFacts
  <2> QED BY <2>1 DEF Reserved, NoName
<1>2. Empty # Builtin /\ Empty # C_code BY NamespacesAssumption
<1>3. NoName # <<Builtin>> /\ NoName # <<C_code>> BY <1>2 DEF NoName
<1>4. ASSUME NEW x \in Written, NEW i \in 1..Len(x) PROVE <<x[i]>> # <<noRecordName>>
  <2>1. x[i] # noRecordName BY WrittenFacts
  <2> QED BY <2>1
<1> QED BY <1>1, <1>2, <1>3, <1>4 DEF Written0

\* What is written, followed by what is written or by nothing.
LEMMA WrittenJoin ==
  ASSUME NEW x \in Written, NEW y \in Written
  PROVE  /\ x \o y \in Written /\ Len(x \o y) = Len(x) + Len(y) /\ (x \o y)[1] = x[1]
         /\ \A i \in 1..Len(x) : (x \o y)[i] = x[i]
<1> DEFINE P == Parts \ {Builtin, C_code, noRecordName}
<1>1. x \in Seq(P) /\ y \in Seq(P) /\ x # <<>> /\ x[1] # Empty BY DEF Written
<1> HIDE DEF P
<1>2. Len(x) \in Nat \ {0} /\ Len(y) \in Nat BY <1>1, EmptySeq
<1>3. /\ x \o y \in Seq(P) /\ Len(x \o y) = Len(x) + Len(y)
      /\ \A i \in 1..Len(x) : (x \o y)[i] = x[i]
  BY <1>1, <1>2
<1>4. Len(x \o y) # 0 /\ (x \o y)[1] = x[1]
  <2>1. 1 \in 1..Len(x) BY <1>2
  <2> QED BY <1>2, <1>3, <2>1
<1>5. x \o y # <<>> /\ (x \o y)[1] # Empty BY <1>1, <1>4
<1> HIDE DEF P
<1> QED BY <1>3, <1>4, <1>5 DEF Written, P

-----------------------------------------------------------------------------
(* Records.                                                                *)

LEMMA RecordNamespaceIs ==
  ASSUME NEW S \in RecordScopes, NEW r
  PROVE  /\ RecordNamespace(S, r) = IF Nameless(Trim(Front(S))) THEN get_namespaces(printRecordName(S), r)
                                    ELSE Outermost(Trim(Front(S)))
         /\ Nameless(Trim(Front(S))) => Outside(Front(S)) = Root
         /\ ~Nameless(Trim(Front(S))) => Outside(Front(S)) = Outermost(Trim(Front(S)))
         /\ printRecordName(S) = printQualifiedName(Front(S), Last(S).name)
         /\ FullName(S) = printQualifiedName(Front(S), Last(S).text)
         /\ Last(S).name \in Written0 /\ Last(S).text \in Written0
<1>1. Front(S) \in Scopes /\ Trim(Front(S)) \in Scopes /\ Last(S).name \in Written0 /\ Last(S).text \in Written0
  BY RecordFront
<1>2. RecordNamespace(S, r) = printRootNamespace(Front(S), printRecordName(S), r) BY DEF RecordNamespace
<1> QED BY <1>1, <1>2, RootNamespace, TrimIs, NoneNamed DEF printRecordName, FullName

StopsFor(S) ==
  RecordNamespace(S, <<noRecordName>>) = Failed \/ Inconsistent(FullName(S), RecordNamespace(S, <<C_code>>))
StopsForBase(S) == Inconsistent(printRecordName(S), RecordNamespace(S, printRecordName(S)))

\* What the visit of the record S does, as its scopes say it.
RecordIs(S) ==
  /\ StopsFor(S) <=> StopsRecord(S)
  /\ StopsForBase(S) <=> StopsBase(S)
  /\ RecordNamespace(S, <<noRecordName>>) # Failed =>
       RecordNamespace(S, <<noRecordName>>) = Outside(Front(S))
  /\ ~StopsRecord(S) /\ Last(S).text # NoName =>
       RecordNamespace(S, <<C_code>>) = IF Anonymous(S) THEN Root ELSE Outermost(Front(S))

LEMMA RecordAnonymous == ASSUME NEW S \in RecordScopes, Anonymous(S), InAnonymous(S) PROVE RecordIs(S)
<1> DEFINE n == printRecordName(S)
           f == FullName(S)
           T == Trim(Front(S))
<1>1. \A r : get_namespaces(n, r) = Root /\ get_namespaces(f, r) = Root
  BY RecordNamespaceIs, GetOfEmpty DEF InAnonymous
<1>2. StopsRecord(S) <=> ~Nameless(T) BY DEF StopsRecord, InAnonymous
<1>3. StopsBase(S) <=> ~Nameless(T) BY DEF StopsBase, InAnonymous
<1>4. \A r : RecordNamespace(S, r) = IF Nameless(T) THEN Root ELSE Outermost(T)
  BY <1>1, RecordNamespaceIs
<1>5. ~Nameless(T) => Outermost(T) # Root /\ Outermost(T) \in String BY RecordFront, OutermostFacts
<1>6. Root # Failed /\ Outside(Front(S)) = IF Nameless(T) THEN Root ELSE Outermost(T)
  BY RecordNamespaceIs, StringFacts, Written0Facts
<1> HIDE DEF T, n, f
<1>7. StopsFor(S) <=> StopsRecord(S) BY <1>1, <1>2, <1>4, <1>5, <1>6, StringFacts DEF StopsFor, Inconsistent, f
<1>8. StopsForBase(S) <=> StopsBase(S)
  BY <1>1, <1>3, <1>4, <1>5, <1>6, StringFacts DEF StopsForBase, Inconsistent, n
<1> QED BY <1>2, <1>4, <1>6, <1>7, <1>8 DEF RecordIs

LEMMA RecordNamed == ASSUME NEW S \in RecordScopes, InNamed(S) PROVE RecordIs(S)
<1> DEFINE n == printRecordName(S)
           f == FullName(S)
           O == S[1].text
<1>1. PICK p \in Parts \ Reserved : O = <<p>> BY DEF InNamed
<1>2. \A r : RecordNamespace(S, r) = O
  BY RecordNamespaceIs DEF InNamed
<1>3. \A x \in {n, f} : get_namespaces(x, <<C_code>>) = IF Unnamed(S) THEN Root ELSE <<p>>
  <2>1. \A x \in {n, f} : x \in String /\ Len(x) >= 2 /\ x[1] = Empty /\ x[2] = p /\ (Len(x) = 2 <=> Unnamed(S))
    BY <1>1, RecordNamespaceIs DEF InNamed
  <2>2. p # Empty BY DEF Reserved
  <2> HIDE DEF n, f
  <2> QED BY <2>1, <2>2, GetOfGlobal
<1>4. StopsRecord(S) <=> Unnamed(S) BY DEF StopsRecord, InNamed
<1>5. StopsBase(S) <=> Unnamed(S) BY DEF StopsBase, InNamed
<1>6. Outside(Front(S)) = O /\ O = Outermost(Front(S)) /\ ~Anonymous(S) BY RecordNamespaceIs DEF InNamed
<1> HIDE DEF n, f
<1>7. O # Root /\ O # Failed BY <1>1, StringFacts
<1>8. StopsFor(S) <=> StopsRecord(S) BY <1>1, <1>2, <1>3, <1>4, <1>7 DEF StopsFor, Inconsistent, f
<1>9. StopsForBase(S) <=> StopsBase(S) BY <1>1, <1>2, <1>3, <1>5, <1>7 DEF StopsForBase, Inconsistent, n
<1> QED BY <1>2, <1>6, <1>8, <1>9 DEF RecordIs

LEMMA RecordOuter == ASSUME NEW S \in RecordScopes, Outer(S) PROVE RecordIs(S)
<1> DEFINE n == Last(S).name
           f == Last(S).text
<1>1. printRecordName(S) = n /\ FullName(S) = f /\ n \in Written0 /\ f \in Written0 /\ Len(n) = 1
  BY RecordNamespaceIs, RecordFront DEF Outer
<1>2. \A r : get_namespaces(n, r) = Root /\ RecordNamespace(S, r) = Root
  <2>1. n # <<Builtin>> BY <1>1, NotReserved
  <2>2. \A r : get_namespaces(n, r) = Root BY <1>1, <2>1 DEF get_namespaces
  <2> QED BY <1>1, <2>2, RecordNamespaceIs DEF Outer
<1>3. get_namespaces(f, <<C_code>>) = Root <=> Len(f) = 1
  <2>1. f \in String /\ f # <<Builtin>> BY <1>1, Written0Facts, NotReserved
  <2>2. f[1] # Empty \/ Len(f) = 1 BY <1>1, NotReserved, Written0Facts DEF Written0
  <2> HIDE DEF f
  <2>3. get_namespaces(f, <<C_code>>) = IF Len(f) = 1 THEN Root ELSE <<f[1]>>
    BY <2>1, <2>2, GetOfName
  <2> QED BY <2>3, StringFacts
<1>4. StopsRecord(S) <=> Len(f) # 1
  <2>1. StopsRecord(S) <=> Len(f) > 1 BY DEF StopsRecord, Outer
  <2>2. Len(f) > 1 <=> Len(f) # 1
    <3> DEFINE a == Len(f)
    <3>1. a \in Nat \ {0} BY <1>1, Written0Facts
    <3> HIDE DEF a
    <3>2. a > 1 <=> a # 1 BY <3>1
    <3> QED BY <3>2 DEF a
  <2> QED BY <2>1, <2>2
<1>5. ~StopsBase(S) BY DEF StopsBase, Outer
<1>6. Outermost(Front(S)) = Root /\ Outside(Front(S)) = Root
  BY RecordFront, NoneNamed, RecordNamespaceIs DEF Outer
<1>7. Root # Failed BY StringFacts, Written0Facts
<1> HIDE DEF n, f
<1>8. StopsFor(S) <=> StopsRecord(S) BY <1>1, <1>2, <1>3, <1>4, <1>7 DEF StopsFor, Inconsistent
<1>9. StopsForBase(S) <=> StopsBase(S) BY <1>1, <1>2, <1>5, <1>7 DEF StopsForBase, Inconsistent
<1> QED BY <1>2, <1>6, <1>8, <1>9 DEF RecordIs

LEMMA RecordInnerClass == ASSUME NEW S \in RecordScopes, InInnerClass(S) PROVE RecordIs(S)
<1> DEFINE n == printRecordName(S)
           f == FullName(S)
           t == Outermost(Front(S))
<1>1. t \in Written /\ t \in String /\ Len(t) \in Nat \ {0} /\ t[1] # Empty
  BY NotReserved, WrittenFacts DEF InInnerClass
<1>2. \A r : RecordNamespace(S, r) = t BY RecordNamespaceIs DEF InInnerClass
<1>3. \A x \in {n, f} : get_namespaces(x, <<C_code>>) = <<t[1]>>
  <2>1. \A x \in {n, f} : x \in String /\ Len(x) > Len(t) /\ x[1] = t[1]
    BY RecordNamespaceIs DEF InInnerClass
  <2> HIDE DEF n, f, t
  <2>2. ASSUME NEW x \in {n, f} PROVE Len(x) # 1 /\ x # <<Builtin>> /\ x[1] # Empty
    <3> DEFINE a == Len(x)
               b == Len(t)
    <3>1. b \in Nat \ {0} /\ a > b /\ a \in Nat BY <1>1, <2>1, StringFacts
    <3> HIDE DEF a, b
    <3>2. a # 1 BY <3>1
    <3>3. Len(x) # 1 BY <3>2 DEF a
    <3> QED BY <1>1, <2>1, <3>3, StringFacts
  <2> QED BY <2>1, <2>2, GetOfName
<1>4. StopsRecord(S) <=> Len(t) > 1 BY DEF StopsRecord, InInnerClass
<1>5. StopsBase(S) <=> Len(t) > 1 BY DEF StopsBase, InInnerClass
<1>6. Outside(Front(S)) = t /\ ~Anonymous(S) BY RecordNamespaceIs DEF InInnerClass
<1>7. Len(t) > 1 <=> t # <<t[1]>>
  <2> HIDE DEF t
  <2> DEFINE a == Len(t)
  <2>1. a \in Nat \ {0} /\ (a = 1 <=> t = <<t[1]>>) BY <1>1, StringFacts
  <2> HIDE DEF a
  <2>2. a > 1 <=> a # 1 BY <2>1
  <2> QED BY <2>1, <2>2 DEF a
<1> HIDE DEF n, f, t
<1>8. t # Failed BY <1>1, StringFacts
<1>9. StopsFor(S) <=> StopsRecord(S) BY <1>2, <1>3, <1>4, <1>7, <1>8 DEF StopsFor, Inconsistent, f
<1>10. StopsForBase(S) <=> StopsBase(S) BY <1>2, <1>3, <1>5, <1>7, <1>8 DEF StopsForBase, Inconsistent, n
<1> QED BY <1>2, <1>6, <1>9, <1>10 DEF RecordIs, t

\* get_namespaces of the name of a member of classes only.
LEMMA GetOfWritten ==
  ASSUME NEW x \in Written
  PROVE  /\ get_namespaces(x, <<C_code>>) = IF Len(x) = 1 THEN Root ELSE <<x[1]>>
         /\ \A r : r # <<C_code>> =>
              get_namespaces(x, r) = IF Len(x) \in {1, 2} THEN Root
                                     ELSE IF r # <<x[Len(x) - 1]>> THEN Failed ELSE <<x[1]>>
<1>1. x \in String /\ x # <<Builtin>> /\ x[1] # Empty BY NotReserved, WrittenFacts
<1> QED BY <1>1, GetOfName, GetOfMember

LEMMA RecordOuterClass == ASSUME NEW S \in RecordScopes, InOuterClass(S) PROVE RecordIs(S)
<1> DEFINE n == printRecordName(S)
           f == FullName(S)
           t == Last(Front(S)).text
           N == Last(S).name
           M == Last(S).text
           l == Len(t)
<1>1. t \in Written /\ l \in Nat \ {0}
  BY WrittenFacts DEF InOuterClass
<1>2. /\ N \in Written0 /\ M \in Written0 /\ (N = NoName <=> M = NoName) /\ Len(N) = 1
      /\ Len(M) \in Nat \ {0}
  BY RecordFront, Written0Facts
<1>3. /\ n = IF N = NoName THEN t ELSE t \o N
      /\ f = IF M = NoName THEN t ELSE t \o M
  BY <1>2, RecordNamespaceIs DEF InOuterClass
<1>4. /\ StopsRecord(S) <=> l > 1 /\ ~(M = NoName /\ l = 2)
      /\ StopsBase(S) <=> l > 1 \/ M # NoName
      /\ Outermost(Front(S)) = t /\ ~Anonymous(S) /\ Outside(Front(S)) = Root
      /\ \A r : RecordNamespace(S, r) = get_namespaces(n, r)
  BY RecordNamespaceIs DEF StopsRecord, StopsBase, InOuterClass
<1> HIDE DEF n, f, t, N, M
<1>5. /\ n \in Written /\ n[1] = t[1] /\ Len(n) = IF M = NoName THEN l ELSE l + 1
      /\ f \in Written /\ f[1] = t[1] /\ (Len(f) = 1 <=> M = NoName /\ l = 1)
  <2>1. CASE M = NoName
    <3>1. n = t /\ f = t BY <1>2, <1>3, <2>1
    <3> QED BY <1>1, <2>1, <3>1
  <2>2. CASE M # NoName
    <3>1. N \in Written /\ M \in Written /\ n = t \o N /\ f = t \o M
      BY <1>2, <1>3, <2>2 DEF Written0
    <3>2. n \in Written /\ Len(n) = l + Len(N) /\ n[1] = t[1] BY <1>1, <3>1, WrittenJoin
    <3>3. f \in Written /\ Len(f) = l + Len(M) /\ f[1] = t[1] BY <1>1, <3>1, WrittenJoin
    <3>4. Len(f) # 1
      <4> DEFINE b == Len(M)
                 c == Len(f)
      <4>1. b \in Nat \ {0} /\ c = l + b BY <1>2, <3>3
      <4> HIDE DEF b, c, l
      <4>2. c # 1 BY <1>1, <4>1
      <4> QED BY <4>2 DEF c
    <3> QED BY <1>2, <2>2, <3>2, <3>3, <3>4
  <2> QED BY <2>1, <2>2
<1> HIDE DEF l
<1>6. get_namespaces(n, <<C_code>>) = IF Len(n) = 1 THEN Root ELSE <<n[1]>>
  BY <1>5, GetOfWritten
<1>7. get_namespaces(f, <<C_code>>) = IF M = NoName /\ l = 1 THEN Root ELSE <<n[1]>>
  <2>1. get_namespaces(f, <<C_code>>) = IF Len(f) = 1 THEN Root ELSE <<f[1]>> BY <1>5, GetOfWritten
  <2> QED BY <1>5, <2>1
<1>8. ASSUME NEW r \in {<<noRecordName>>, n}
      PROVE  get_namespaces(n, r) = IF Len(n) \in {1, 2} THEN Root ELSE Failed
  <2>1. <<noRecordName>> # <<C_code>>
    <3>1. noRecordName # C_code BY NamespacesAssumption
    <3> QED BY <3>1
  <2>2. r # <<C_code>> BY <1>5, <2>1, NotReserved
  <2>3. Len(n) \notin {1, 2} => r # <<n[Len(n) - 1]>>
    <3> SUFFICES ASSUME Len(n) \notin {1, 2} PROVE r # <<n[Len(n) - 1]>> OBVIOUS
    <3>1. Len(n) \in Nat \ {0} BY <1>5, WrittenFacts
    <3>2. Len(n) - 1 \in 1..Len(n)
      <4> DEFINE a == Len(n)
      <4>1. a \in Nat \ {0} /\ a # 1 BY <3>1
      <4> HIDE DEF a
      <4>2. a - 1 \in 1..a BY <4>1
      <4> QED BY <4>2 DEF a
    <3>3. <<n[Len(n) - 1]>> # <<noRecordName>> BY <1>5, <3>2, NotReserved
    <3>4. n # <<n[Len(n) - 1]>>
      <4>1. Len(<<n[Len(n) - 1]>>) = 1 BY StringFacts
      <4> QED BY <4>1
    <3> QED BY <3>3, <3>4
  <2>4. get_namespaces(n, r) = IF Len(n) \in {1, 2} THEN Root
                               ELSE IF r # <<n[Len(n) - 1]>> THEN Failed ELSE <<n[1]>>
    BY <1>5, <2>2, GetOfWritten
  <2> QED BY <2>3, <2>4
<1>9. Root # Failed /\ <<n[1]>> # Root /\ <<n[1]>> # Failed BY StringFacts, Written0Facts
<1>10. StopsFor(S) <=> StopsRecord(S)
  <2>1. RecordNamespace(S, <<noRecordName>>) = Failed <=> Len(n) \notin {1, 2}
    BY <1>4, <1>8, <1>9
  <2>2. Len(n) = 1 <=> M = NoName /\ l = 1 BY <1>1, <1>5
  <2>3. ~Inconsistent(f, RecordNamespace(S, <<C_code>>))
    BY <1>4, <1>6, <1>7, <1>9, <2>2 DEF Inconsistent
  <2>4. Len(n) \notin {1, 2} <=> l > 1 /\ ~(M = NoName /\ l = 2) BY <1>1, <1>5
  <2> QED BY <1>4, <2>1, <2>3, <2>4 DEF StopsFor, f
<1>11. StopsForBase(S) <=> StopsBase(S)
  <2>1. RecordNamespace(S, n) = IF Len(n) \in {1, 2} THEN Root ELSE Failed BY <1>4, <1>8
  <2>2. Inconsistent(n, RecordNamespace(S, n)) <=> Len(n) # 1
    BY <1>6, <1>9, <2>1 DEF Inconsistent
  <2>3. Len(n) # 1 <=> l > 1 \/ M # NoName BY <1>1, <1>5
  <2> QED BY <1>4, <2>2, <2>3 DEF StopsForBase, n
<1>12. RecordNamespace(S, <<noRecordName>>) # Failed => RecordNamespace(S, <<noRecordName>>) = Outside(Front(S))
  BY <1>4, <1>8
<1>13. ~StopsRecord(S) /\ M # NoName => RecordNamespace(S, <<C_code>>) = t
  <2> SUFFICES ASSUME ~StopsRecord(S), M # NoName PROVE RecordNamespace(S, <<C_code>>) = t OBVIOUS
  <2>1. l = 1 /\ Len(n) # 1 BY <1>1, <1>4, <1>5
  <2>2. t \in String /\ Len(t) = 1 BY <1>1, <2>1, WrittenFacts DEF l
  <2>3. t = <<t[1]>> BY <2>2, StringFacts
  <2> QED BY <1>4, <1>5, <1>6, <2>1, <2>3
<1> QED BY <1>4, <1>10, <1>11, <1>12, <1>13 DEF RecordIs, M

LEMMA EveryRecord == \A S \in RecordScopes : RecordIs(S)
BY RecordCases, RecordAnonymous, RecordNamed, RecordOuter, RecordOuterClass, RecordInnerClass

-----------------------------------------------------------------------------
(* Functions.                                                              *)

LEMMA FctFacts ==
  ASSUME NEW f \in Fct
  PROVE  /\ f.scopes \in Scopes /\ f.name \in Written0 /\ f.file \in Files /\ f.builtin \in BOOLEAN
         /\ IsMethod(f) <=> f.scopes \in RecordScopes
         /\ IsMethod(f) => ~f.builtin
         /\ f.builtin => f.scopes = <<>>
         /\ f.name = NoName => IsMethod(f) /\ Last(f.scopes).name = NoName
         /\ Len(f.name) > 1 => /\ IsMethod(f) /\ f.name[1] \notin Identifiers
                               /\ \A i \in 1..Len(f.name) : f.name[i] # Empty
BY DEF Fct, IsMethod, RecordScopes, Written0

\* A function that is not a method: its namespace is that of its scopes.
LEMMA FreeFct ==
  ASSUME NEW f \in Fct, ~IsMethod(f), NEW r
  PROVE  printRootNamespace(f.scopes, printQualifiedName(f.scopes, f.name), r) = Outside(f.scopes)
<1> DEFINE S == f.scopes
           N == f.name
           id == printQualifiedName(S, N)
<1>1. S \in Scopes /\ N \in Written /\ Len(N) = 1
  <2>1. N \in Written0 /\ N # NoName /\ ~(Len(N) > 1) /\ S \in Scopes BY FctFacts
  <2>2. Len(N) = 1
    <3> DEFINE a == Len(N)
    <3>1. a \in Nat \ {0} /\ ~(a > 1) BY <2>1, Written0Facts
    <3> HIDE DEF a
    <3>2. a = 1 BY <3>1
    <3> QED BY <3>2 DEF a
  <2> QED BY <2>1, <2>2 DEF Written0
<1>2. Trim(S) = S /\ Outside(S) = Outermost(S)
  <2>1. Trim(S) = S BY DEF IsMethod, Trim
  <2> QED BY <1>1, <2>1, TrimIs
<1>3. printRootNamespace(S, id, r) = IF Nameless(S) THEN get_namespaces(id, r) ELSE Outermost(S)
  BY <1>1, <1>2, RootNamespace
<1>4. ASSUME Nameless(S) PROVE Outermost(S) = Root /\ get_namespaces(id, r) = Root
  <2>1. Outermost(S) = Root BY <1>1, <1>4, NoneNamed
  <2>2. CASE S = <<>>
    <3>1. ~InNamespace(S) BY <2>2 DEF InNamespace
    <3>2. id = N BY <1>1, <1>4, <3>1, NameInRecord DEF Written0
    <3>3. N # <<Builtin>> BY <1>1, NotReserved
    <3> HIDE DEF id, N
    <3>4. get_namespaces(id, r) = Root BY <1>1, <3>2, <3>3 DEF get_namespaces
    <3> QED BY <2>1, <3>4
  <2>3. CASE S # <<>>
    <3>1. Len(S) \in Nat \ {0} /\ Last(S) = S[Len(S)] /\ Last(S) \in Scope BY <1>1, <2>3, FrontScopes
    <3>2. Last(S).kind = "namespace" BY <2>3, <3>1, ScopeFacts DEF IsMethod
    <3>3. InNamespace(S)
      <4> SUFFICES ASSUME ~InNamespace(S) PROVE FALSE OBVIOUS
      <4>1. Len(S) \in 1..Len(S) BY <3>1
      <4> QED BY <1>1, <3>1, <3>2, <4>1, OnlyRecords
    <3>4. S[1].text = NoName
      <4>1. 1 \in DOMAIN S BY <1>1, <3>1, ScopesAre
      <4> QED BY <1>4, <4>1 DEF Nameless
    <3>5. id \in String /\ Len(id) >= 2 /\ id[1] = Empty /\ id[2] = Empty
      BY <1>1, <3>3, <3>4, NameInNamespace, Written0Facts DEF Written0
    <3> HIDE DEF id
    <3>6. get_namespaces(id, r) = Root BY <3>5, GetOfEmpty
    <3> QED BY <2>1, <3>6
  <2> QED BY <2>2, <2>3
<1> QED BY <1>2, <1>3, <1>4

\* What is asked of the namespaces of f, as its scopes say it.
MethodIs(f) ==
  /\ NamespaceOf(f) = IF StopsAlone(f) THEN Failed ELSE Around(f)
  /\ Inconsistent(RecordOf(f), NamespaceOf(f)) <=> StopsFct(f)
  /\ RecordOf(f) \in String /\ RecordOf(f) # <<C_code>>

LEMMA MethodNamespace ==
  ASSUME NEW f \in Fct, f.scopes \in RecordScopes
  PROVE  LET S == f.scopes
             id == printQualifiedName(S, f.name)
         IN /\ S \in RecordScopes /\ IsMethod(f) /\ ~f.builtin
            /\ RecordOf(f) = printRecordName(S)
            /\ NamespaceOf(f) = IF Nameless(Front(S)) THEN get_namespaces(id, printRecordName(S))
                                ELSE Outermost(Front(S))
            /\ Outside(S) = Outermost(Front(S))
            /\ Nameless(Front(S)) => Outermost(Front(S)) = Root
            /\ Around(f) = IF Misread(f) THEN <<Last(S).text[1]>> ELSE Outside(S)
            /\ Misread(f) => Nameless(Front(S)) /\ ~Anonymous(S) /\ Last(S).text # NoName
            /\ StopsAlone(f) => Global(S)
<1> DEFINE S == f.scopes
<1>1. IsMethod(f) /\ ~f.builtin /\ S \in Scopes BY FctFacts
<1>2. Trim(S) = Front(S) BY <1>1 DEF IsMethod, Trim
<1>3. Outside(S) = Outermost(Front(S)) BY <1>1, <1>2, TrimIs
<1>4. RecordOf(f) = printRecordName(S) BY <1>1 DEF RecordOf
<1>5. NamespaceOf(f) = IF Nameless(Front(S)) THEN get_namespaces(printQualifiedName(S, f.name), printRecordName(S))
                       ELSE Outermost(Front(S))
  BY <1>1, <1>2, <1>4, RootNamespace DEF NamespaceOf
<1>6. Nameless(Front(S)) => Outermost(Front(S)) = Root BY RecordFront, NoneNamed
<1> QED BY <1>1, <1>3, <1>4, <1>5, <1>6 DEF Around, Misread, StopsAlone

LEMMA MethodAnonymous ==
  ASSUME NEW f \in Fct, f.scopes \in RecordScopes, Anonymous(f.scopes), InAnonymous(f.scopes)
  PROVE  MethodIs(f)
<1> DEFINE S == f.scopes
           F == Front(S)
           n == printRecordName(S)
<1>1. f.name \in Written0 BY FctFacts
<1>2. \A r : get_namespaces(printQualifiedName(S, f.name), r) = Root
  BY <1>1, GetOfEmpty DEF InAnonymous
<1>3. /\ n \in String /\ n[1] = Empty
      /\ get_namespaces(n, <<C_code>>) = Root
  BY RecordNamespaceIs, GetOfEmpty DEF InAnonymous
<1>4. /\ ~StopsAlone(f) /\ ~Misread(f) /\ RecordOf(f) = n
      /\ Around(f) = Outermost(F) /\ NamespaceOf(f) = Outermost(F)
  BY <1>2, MethodNamespace DEF InAnonymous
<1>5. StopsFct(f) <=> ~Nameless(F) BY <1>4, MethodNamespace DEF StopsFct, InAnonymous
<1>6. /\ Nameless(F) => Outermost(F) = Root
      /\ ~Nameless(F) => Outermost(F) # Root
      /\ Outermost(F) # Failed
  BY RecordFront, NoneNamed, OutermostFacts, StringFacts, Written0Facts
<1>7. n # <<C_code>>
  <2> HIDE DEF n
  <2> QED BY <1>3, NotReserved
<1> HIDE DEF n, F
<1>8. Inconsistent(n, Outermost(F)) <=> ~Nameless(F) BY <1>3, <1>6 DEF Inconsistent
<1> QED BY <1>3, <1>4, <1>5, <1>7, <1>8 DEF MethodIs

LEMMA MethodNamed ==
  ASSUME NEW f \in Fct, f.scopes \in RecordScopes, InNamed(f.scopes)
  PROVE  MethodIs(f)
<1> DEFINE S == f.scopes
           n == printRecordName(S)
<1>1. PICK p \in Parts \ Reserved : S[1].text = <<p>> BY DEF InNamed
<1>2. n \in String /\ Len(n) >= 2 /\ n[1] = Empty /\ n[2] = p /\ (Len(n) = 2 <=> Unnamed(S))
  BY <1>1, RecordNamespaceIs DEF InNamed
<1>3. /\ ~StopsAlone(f) /\ ~Misread(f) /\ RecordOf(f) = n
      /\ Around(f) = <<p>> /\ NamespaceOf(f) = <<p>>
  BY <1>1, MethodNamespace DEF InNamed
<1>4. StopsFct(f) <=> Unnamed(S) BY <1>3, MethodNamespace DEF StopsFct, InNamed
<1> HIDE DEF n
<1>5. get_namespaces(n, <<C_code>>) = IF Unnamed(S) THEN Root ELSE <<p>>
  <2>1. p # Empty BY DEF Reserved
  <2> QED BY <1>2, <2>1, GetOfGlobal
<1>6. n # <<C_code>>
  <2>1. Len(<<C_code>>) = 1 BY StringFacts
  <2> QED BY <1>2, <2>1
<1>7. Inconsistent(n, <<p>>) <=> Unnamed(S) BY <1>5, StringFacts DEF Inconsistent
<1> QED BY <1>2, <1>3, <1>4, <1>6, <1>7 DEF MethodIs

LEMMA MethodInnerClass ==
  ASSUME NEW f \in Fct, f.scopes \in RecordScopes, InInnerClass(f.scopes)
  PROVE  MethodIs(f)
<1> DEFINE S == f.scopes
           n == printRecordName(S)
           t == Outermost(Front(S))
<1>1. t \in Written /\ t \in String /\ Len(t) \in Nat \ {0} /\ t[1] # Empty
  BY NotReserved, WrittenFacts DEF InInnerClass
<1>2. n \in String /\ Len(n) > Len(t) /\ n[1] = t[1]
  BY RecordNamespaceIs DEF InInnerClass
<1>3. /\ ~StopsAlone(f) /\ ~Misread(f) /\ RecordOf(f) = n /\ Around(f) = t /\ NamespaceOf(f) = t
  BY MethodNamespace DEF InInnerClass
<1>4. StopsFct(f) <=> Len(t) > 1 BY <1>3, MethodNamespace DEF StopsFct, InInnerClass
<1> HIDE DEF n, t
<1>5. Len(n) # 1 /\ n # <<Builtin>> /\ n # <<C_code>> /\ n[1] # Empty
  <2> DEFINE a == Len(n)
             b == Len(t)
  <2>1. b \in Nat \ {0} /\ a > b /\ a \in Nat BY <1>1, <1>2, StringFacts
  <2> HIDE DEF a, b
  <2>2. a # 1 BY <2>1
  <2>3. Len(n) # 1 BY <2>2 DEF a
  <2> QED BY <1>1, <1>2, <2>3, StringFacts
<1>6. get_namespaces(n, <<C_code>>) = <<t[1]>> BY <1>2, <1>5, GetOfName
<1>7. Len(t) > 1 <=> t # <<t[1]>>
  <2> DEFINE a == Len(t)
  <2>1. a \in Nat \ {0} /\ (a = 1 <=> t = <<t[1]>>) BY <1>1, StringFacts
  <2> HIDE DEF a
  <2>2. a > 1 <=> a # 1 BY <2>1
  <2> QED BY <2>1, <2>2 DEF a
<1>8. t # Failed BY <1>1, StringFacts
<1>9. Inconsistent(n, t) <=> StopsFct(f) BY <1>4, <1>6, <1>7, <1>8 DEF Inconsistent
<1> QED BY <1>2, <1>3, <1>5, <1>9 DEF MethodIs

LEMMA MethodOuterClass ==
  ASSUME NEW f \in Fct, f.scopes \in RecordScopes, InOuterClass(f.scopes)
  PROVE  MethodIs(f)
<1> DEFINE S == f.scopes
           n == printRecordName(S)
           t == Last(Front(S)).text
           N == Last(S).name
           M == Last(S).text
<1>1. t \in Written /\ t \in String /\ Len(t) \in Nat \ {0} /\ t # Root
  <2>1. t \in Written /\ t = Outermost(Front(S)) /\ ~Nameless(Front(S)) BY DEF InOuterClass
  <2> HIDE DEF t
  <2> QED BY <2>1, WrittenFacts, RecordFront, OutermostFacts
<1>2. /\ N \in Written0 /\ (N = NoName <=> M = NoName) /\ Len(N) = 1
  BY RecordFront
<1>3. n = IF N = NoName THEN t ELSE t \o N
  BY <1>2, RecordNamespaceIs DEF InOuterClass
<1>4. /\ ~StopsAlone(f) /\ ~Misread(f) /\ RecordOf(f) = n /\ Around(f) = t /\ NamespaceOf(f) = t
  BY MethodNamespace DEF InOuterClass
<1>5. StopsFct(f) <=> Len(t) > 1 \/ M = NoName
  BY <1>4, MethodNamespace DEF StopsFct, InOuterClass
<1> HIDE DEF n, t, N, M
<1>6. /\ n \in Written /\ n[1] = t[1] /\ n \in String /\ n # <<C_code>>
      /\ Len(n) = IF M = NoName THEN Len(t) ELSE Len(t) + 1
  <2>1. CASE M = NoName
    <3>1. n = t BY <1>2, <1>3, <2>1
    <3> QED BY <1>1, <2>1, <3>1, NotReserved
  <2>2. CASE M # NoName
    <3>1. N \in Written /\ n = t \o N BY <1>2, <1>3, <2>2 DEF Written0
    <3>2. n \in Written /\ Len(n) = Len(t) + Len(N) /\ n[1] = t[1] BY <1>1, <3>1, WrittenJoin
    <3> QED BY <1>2, <2>2, <3>2, NotReserved, WrittenFacts
  <2> QED BY <2>1, <2>2
<1>7. get_namespaces(n, <<C_code>>) = IF M = NoName /\ Len(t) = 1 THEN Root ELSE <<t[1]>>
  <2>1. get_namespaces(n, <<C_code>>) = IF Len(n) = 1 THEN Root ELSE <<n[1]>> BY <1>6, GetOfWritten
  <2>2. Len(n) = 1 <=> M = NoName /\ Len(t) = 1
    <3> DEFINE a == Len(t)
               b == Len(n)
    <3>1. a \in Nat \ {0} /\ b = IF M = NoName THEN a ELSE a + 1 BY <1>1, <1>6
    <3> HIDE DEF a, b
    <3>2. b = 1 <=> M = NoName /\ a = 1 BY <3>1
    <3> QED BY <3>2 DEF a, b
  <2> QED BY <1>6, <2>1, <2>2
<1>8. (Len(t) > 1 <=> Len(t) # 1) /\ (Len(t) = 1 <=> t = <<t[1]>>)
  <2> DEFINE a == Len(t)
  <2>1. a \in Nat \ {0} /\ (a = 1 <=> t = <<t[1]>>) BY <1>1, StringFacts
  <2> HIDE DEF a
  <2>2. a > 1 <=> a # 1 BY <2>1
  <2> QED BY <2>1, <2>2 DEF a
<1>9. t # Failed BY <1>1, StringFacts
<1>10. Inconsistent(n, t) <=> StopsFct(f) BY <1>1, <1>5, <1>7, <1>8, <1>9 DEF Inconsistent
<1> QED BY <1>4, <1>6, <1>10 DEF MethodIs

\* The method of a class around which nothing has a name.
LEMMA MethodOuter ==
  ASSUME NEW f \in Fct, f.scopes \in RecordScopes, Outer(f.scopes)
  PROVE  MethodIs(f)
<1> DEFINE S == f.scopes
           L == Last(S).name
           M == Last(S).text
           N == f.name
           id == printQualifiedName(S, N)
           a == Len(M)
           b == Len(N)
           c == IF M = NoName THEN b ELSE a + b
           k == c - 1
<1>1. /\ N \in Written0 /\ (N = NoName => L = NoName)
      /\ b > 1 => N[1] \notin Identifiers /\ \A i \in 1..b : N[i] # Empty
      /\ b \in Nat \ {0}
  BY FctFacts, Written0Facts
<1>2. /\ L \in Written0 /\ M \in Written0 /\ (L = NoName <=> M = NoName) /\ Len(L) = 1
      /\ a > 1 => M[a] \notin Identifiers
      /\ L # NoName => \E x \in Identifiers : L = <<x>>
      /\ a \in Nat \ {0}
  BY RecordFront, Written0Facts
<1>3. /\ printRecordName(S) = L /\ RecordOf(f) = L /\ NamespaceOf(f) = get_namespaces(id, L)
      /\ Outside(S) = Root /\ Around(f) = IF Misread(f) THEN <<M[1]>> ELSE Root
  BY <1>2, RecordNamespaceIs, MethodNamespace DEF Outer
<1>4. id = IF M = NoName THEN N ELSE M \o N
  BY <1>1, <1>2 DEF Outer
<1>5. Misread(f) <=> M # NoName /\ b > 2 /\ <<N[b - 1]>> = L
  BY MethodNamespace DEF Misread, Outer
<1>6. /\ StopsAlone(f) <=> ~Misread(f) /\ c > 2
      /\ StopsFct(f) <=> a > 1 \/ StopsAlone(f) \/ Misread(f)
  BY MethodNamespace DEF StopsAlone, StopsFct, Outer
<1> HIDE DEF L, M, N, id
<1>7. L # <<C_code>> /\ L # <<Builtin>> /\ L \in String BY <1>2, NotReserved, Written0Facts
<1>8. id \in Written0 /\ id # <<Builtin>> /\ (id[1] # Empty \/ Len(id) = 1) /\ Len(id) = c
      /\ (M # NoName => id[1] = M[1])
  <2>1. CASE M = NoName
    <3>1. id = N BY <1>4, <2>1
    <3> QED BY <1>1, <2>1, <3>1, NotReserved, Written0Facts DEF Written0
  <2>2. CASE M # NoName
    <3>1. N \in Written /\ M \in Written /\ id = M \o N BY <1>1, <1>2, <1>4, <2>2 DEF Written0
    <3>2. id \in Written /\ Len(id) = a + b /\ id[1] = M[1] BY <3>1, WrittenJoin
    <3> QED BY <2>2, <3>2, NotReserved DEF Written0
  <2> QED BY <2>1, <2>2
<1>9. c > 2 => (L = <<id[k]>> <=> Misread(f))
  <2> SUFFICES ASSUME c > 2 PROVE L = <<id[k]>> <=> Misread(f) OBVIOUS
  <2>1. CASE M = NoName
    <3>1. id = N /\ c = b /\ L = NoName BY <1>2, <1>4, <2>1
    <3>2. N \in Written
      <4>1. N = NoName => b = 1 BY Written0Facts
      <4>2. b > 2 BY <3>1
      <4> HIDE DEF b
      <4> QED BY <1>1, <4>1, <4>2 DEF Written0
    <3>3. N[k] # Empty
      <4>1. k \in 1..b BY <1>1, <3>1
      <4>2. b > 1 BY <1>1, <3>1
      <4> QED BY <1>1, <4>1, <4>2
    <3> QED BY <1>5, <2>1, <3>1, <3>3 DEF NoName
  <2>2. CASE M # NoName
    <3>1. N \in Written /\ M \in Written /\ id = M \o N BY <1>1, <1>2, <1>4, <2>2 DEF Written0
    <3>2. PICK i \in Identifiers : L = <<i>> BY <1>2, <2>2
    <3>3. M \in Seq(Parts) /\ N \in Seq(Parts) BY <3>1, WrittenFacts
    <3>4. /\ \A j \in 1..a : id[j] = M[j]
          /\ \A j \in 1..b : id[a + j] = N[j]
      BY <1>1, <1>2, <3>1, <3>3
    <3>5. c = a + b /\ k = a + b - 1 BY <2>2
    <3> HIDE DEF a, b, c, k
    <3>6. CASE b = 1
      <4>1. k = a /\ a > 1 /\ a \in 1..a BY <1>1, <1>2, <3>5, <3>6
      <4>2. id[k] \notin Identifiers BY <1>2, <3>4, <4>1
      <4> QED BY <1>5, <3>2, <3>6, <4>2
    <3>7. CASE b # 1
      <4>1. k = a + (b - 1) /\ b - 1 \in 1..b BY <1>1, <1>2, <3>5, <3>7
      <4>2. id[k] = N[b - 1] BY <3>4, <4>1
      <4>3. CASE b = 2
        <5>1. b - 1 = 1 /\ b > 1 BY <4>3
        <5>2. id[k] \notin Identifiers BY <1>1, <4>2, <5>1
        <5> QED BY <1>5, <3>2, <4>3, <5>2
      <4>4. CASE b # 2
        <5>1. b > 2 BY <1>1, <3>7, <4>4
        <5> QED BY <1>5, <2>2, <4>2, <5>1
      <4> QED BY <4>3, <4>4
    <3> QED BY <3>6, <3>7
  <2> QED BY <2>1, <2>2
<1>10. get_namespaces(id, L) = IF c \in {1, 2} THEN Root ELSE IF L # <<id[k]>> THEN Failed ELSE <<id[1]>>
  <2>1. id \in String BY <1>8, Written0Facts
  <2> QED BY <1>7, <1>8, <2>1, GetOfMember
<1>11. c \in Nat \ {0} /\ (c > 2 <=> c \notin {1, 2}) /\ (b > 2 => c > 2) /\ (M # NoName /\ a > 1 => c > 2)
  <2> HIDE DEF a, b
  <2> QED BY <1>1, <1>2
<1>12. ~(a > 1 /\ M = NoName)
  <2> SUFFICES ASSUME M = NoName PROVE ~(a > 1) OBVIOUS
  <2>1. a = 1 BY Written0Facts
  <2> QED BY <2>1
<1> HIDE DEF a, b, c, k
<1>13. NamespaceOf(f) = IF StopsAlone(f) THEN Failed ELSE Around(f)
  <2>1. CASE c > 2 BY <1>3, <1>5, <1>6, <1>8, <1>9, <1>10, <1>11, <2>1
  <2>2. CASE ~(c > 2) BY <1>3, <1>5, <1>6, <1>10, <1>11, <2>2
  <2> QED BY <2>1, <2>2
<1>14. Inconsistent(L, NamespaceOf(f)) <=> StopsFct(f)
  <2>1. get_namespaces(L, <<C_code>>) = Root
    <3>1. L[1] # Empty \/ Len(L) = 1 BY <1>2
    <3> QED BY <1>2, <1>7, <3>1, GetOfName
  <2>2. Inconsistent(L, NamespaceOf(f)) <=> NamespaceOf(f) # Root
    BY <2>1, StringFacts, Written0Facts DEF Inconsistent
  <2>3. NamespaceOf(f) # Root <=> StopsAlone(f) \/ Misread(f)
    BY <1>3, <1>6, <1>13, StringFacts, Written0Facts
  <2> QED BY <1>6, <1>11, <1>12, <2>2, <2>3
<1> QED BY <1>3, <1>7, <1>13, <1>14 DEF MethodIs

LEMMA EveryMethod == \A f \in Fct : IsMethod(f) => MethodIs(f)
BY FctFacts, RecordCases, MethodAnonymous, MethodNamed, MethodOuter, MethodOuterClass, MethodInnerClass

\* What is asked of a function, method or not, as its scopes say it.
FctIs(f) ==
  /\ NamespaceOf(f) = IF StopsAlone(f) THEN Failed ELSE Around(f)
  /\ Around(f) \in String /\ Around(f) # Failed
  /\ StopsAlone(f) => Around(f) = Root /\ IsMethod(f)
  /\ RecordOf(f) \in String
  /\ IsMethod(f) => RecordOf(f) # <<C_code>>
  /\ RecordOf(f) # <<C_code>> => (Inconsistent(RecordOf(f), NamespaceOf(f)) <=> StopsFct(f))
  /\ StopsFct(f) => IsMethod(f)

LEMMA EveryFct == \A f \in Fct : FctIs(f)
<1> SUFFICES ASSUME NEW f \in Fct PROVE FctIs(f) OBVIOUS
<1> DEFINE S == f.scopes
<1>1. /\ Builtin \in Parts /\ Env \in Parts /\ C_code \in Parts /\ Builtin # C_code
  BY NamespacesAssumption DEF Reserved
<1>2. <<Builtin>> \in String /\ <<Env>> \in String /\ <<C_code>> \in String BY <1>1 DEF String
<1>3. Outside(S) \in String
  <2>1. Trim(S) \in Scopes /\ Outside(S) = Outermost(Trim(S)) BY FctFacts, TrimIs
  <2> HIDE DEF S
  <2> QED BY <2>1, NoneNamed, OutermostFacts, Written0Facts
<1>4. StopsFct(f) => IsMethod(f) BY DEF StopsFct
<1>5. StopsAlone(f) => IsMethod(f) BY DEF StopsAlone
<1>6. CASE IsMethod(f)
  <2>1. MethodIs(f) /\ S \in RecordScopes BY <1>6, EveryMethod, FctFacts
  <2>2. /\ Around(f) = IF Misread(f) THEN <<Last(S).text[1]>> ELSE Outside(S)
        /\ Nameless(Front(S)) => Outside(S) = Root
        /\ Misread(f) => Last(S).text # NoName
        /\ StopsAlone(f) => Nameless(Front(S)) /\ ~Misread(f)
    BY <2>1, MethodNamespace DEF StopsAlone, Global
  <2>3. Misread(f) => <<Last(S).text[1]>> \in String
    <3> SUFFICES ASSUME Misread(f) PROVE <<Last(S).text[1]>> \in String OBVIOUS
    <3>1. Last(S).text \in Written BY <2>1, <2>2, RecordFront DEF Written0
    <3>2. Last(S).text[1] \in Parts BY <3>1, WrittenFacts
    <3> QED BY <3>2 DEF String
  <2>4. Around(f) \in String BY <1>3, <2>2, <2>3
  <2>5. Around(f) # Failed BY <2>4, StringFacts
  <2>6. StopsAlone(f) => Around(f) = Root BY <2>2
  <2> QED BY <1>4, <1>6, <2>1, <2>4, <2>5, <2>6 DEF MethodIs, FctIs
<1>7. CASE ~IsMethod(f)
  <2>1. ~StopsAlone(f) /\ ~StopsFct(f) /\ ~Misread(f) BY <1>7 DEF StopsAlone, StopsFct, Misread
  <2>2. CASE f.builtin
    <3>1. NamespaceOf(f) = <<Env>> /\ Around(f) = <<Env>> /\ RecordOf(f) = <<Builtin>>
      BY <2>2 DEF NamespaceOf, Around, RecordOf
    <3>2. ~Inconsistent(<<Builtin>>, <<Env>>) /\ <<Env>> # Failed
      BY <1>2, StringFacts DEF Inconsistent, get_namespaces
    <3> QED BY <1>2, <1>7, <2>1, <3>1, <3>2 DEF FctIs
  <2>3. CASE ~f.builtin
    <3>1. NamespaceOf(f) = Outside(S) /\ Around(f) = Outside(S) /\ RecordOf(f) = <<C_code>>
      BY <1>7, <2>1, <2>3, FreeFct DEF NamespaceOf, Around, RecordOf
    <3>2. Outside(S) # Failed BY <1>3, StringFacts
    <3> QED BY <1>2, <1>3, <1>7, <2>1, <3>1, <3>2 DEF FctIs
  <2> QED BY <2>2, <2>3
<1> QED BY <1>6, <1>7

-----------------------------------------------------------------------------
(* Visits.                                                                 *)

FctOf(e) == IF e.kind = "function" THEN e.fct ELSE e.callee

LEMMA OfInterest ==
  ASSUME NEW e \in FctVisit \cup CallVisit
  PROVE  /\ FctOf(e) \in Fct /\ e.kind # "record"
         /\ NamespaceOfInterest(e) = IF FctOf(e).builtin THEN Root ELSE NamespaceOf(FctOf(e))
         /\ IsFiltered(e) <=> ~FctOf(e).builtin /\ Around(FctOf(e)) \in Filtered
<1> DEFINE f == FctOf(e)
           id == printQualifiedName(f.scopes, f.name)
<1>1. f \in Fct /\ e.kind # "record" BY DEF FctVisit, CallVisit, FctOf
<1>2. NamespaceOfInterest(e) =
        printRootNamespace(f.scopes, id, IF IsMethod(f) THEN printRecordName(f.scopes) ELSE <<noRecordName>>)
  BY <1>1 DEF NamespaceOfInterest, FctOf
<1>3. IsFiltered(e) <=> ~f.builtin /\ Around(f) \in Filtered BY <1>1 DEF IsFiltered, FctOf
<1> HIDE DEF f
<1>4. NamespaceOfInterest(e) = IF f.builtin THEN Root ELSE NamespaceOf(f)
  <2>1. CASE IsMethod(f)
    <3>1. ~f.builtin /\ RecordOf(f) = printRecordName(f.scopes) BY <1>1, <2>1, FctFacts DEF RecordOf
    <3> QED BY <1>2, <2>1, <3>1 DEF NamespaceOf
  <2>2. CASE ~IsMethod(f)
    <3>1. NamespaceOfInterest(e) = Outside(f.scopes) BY <1>1, <1>2, <2>2, FreeFct
    <3>2. f.builtin => Outside(f.scopes) = Root
      <4>1. f.builtin => f.scopes = <<>> BY <1>1, FctFacts
      <4>2. Nameless(<<>>) BY DEF Nameless
      <4> QED BY <4>1, <4>2 DEF Outside, Outermost
    <3>3. ~f.builtin => NamespaceOf(f) = Outside(f.scopes) BY <1>1, <2>2, FreeFct DEF NamespaceOf
    <3> QED BY <3>1, <3>2, <3>3
  <2> QED BY <2>1, <2>2
<1> QED BY <1>1, <1>3, <1>4 DEF f

\* A visit that does something does it when the scopes say so.
AsExpected(u, e) ==
  /\ Fails(u, e) <=> Stops(e)
  /\ ~Fails(u, e) => (NamespaceOfInterest(e) \in Filtered <=> IsFiltered(e))

LEMMA FilteredFacts == Root \notin Filtered /\ Failed \notin Filtered
<1>1. Filtered \subseteq String /\ Root \notin Filtered BY NamespacesAssumption
<1> QED BY <1>1, StringFacts

LEMMA RecordVisits ==
  ASSUME NEW u, NEW e \in RecordVisit
  PROVE  AsExpected(u, e)
<1> DEFINE S == e.rec.scopes
           n == NamespaceOfInterest(e)
           B(i) == e.bases[i].scopes
           Bad == \E r \in Requests(u, e) : Inconsistent(r.name, r.nspc)
<1>1. e.kind = "record" /\ S \in RecordScopes /\ \A i \in DOMAIN e.bases : B(i) \in RecordScopes
  BY DEF RecordVisit, Record, RecordScopes, IsMethod
<1>2. n = RecordNamespace(S, <<noRecordName>>) BY <1>1 DEF NamespaceOfInterest
<1>3. IsFiltered(e) <=> Outside(Front(S)) \in Filtered BY <1>1 DEF IsFiltered
<1>4. Bad <=> \/ Inconsistent(FullName(S), RecordNamespace(S, <<C_code>>))
              \/ \E i \in DOMAIN e.bases : StopsForBase(B(i))
  <2>1. Requests(u, e) =
          {Request(u.main, FullName(S), RecordNamespace(S, <<C_code>>), e.rec.file)}
          \cup {Request(u.main, printRecordName(B(i)), RecordNamespace(B(i), printRecordName(B(i))), e.bases[i].file) :
                i \in DOMAIN e.bases}
    BY <1>1 DEF Requests
  <2>2. \A x, y, z, w : Request(x, y, z, w).name = y /\ Request(x, y, z, w).nspc = z BY DEF Request
  <2> QED BY <2>1, <2>2 DEF StopsForBase
<1> HIDE DEF Bad
<1>5. Fails(u, e) <=> (n = Failed \/ (n \notin Filtered /\ Bad))
  BY <1>1 DEF Fails, Bad
<1>6. Stops(e) <=> ~IsFiltered(e) /\ (StopsRecord(S) \/ \E i \in DOMAIN e.bases : StopsBase(B(i)))
  BY <1>1 DEF Stops
<1>7. RecordIs(S) /\ \A i \in DOMAIN e.bases : StopsForBase(B(i)) <=> StopsBase(B(i))
  BY <1>1, EveryRecord DEF RecordIs
<1>8. n = Failed => Outside(Front(S)) = Root
  <2>1. ~Nameless(Trim(Front(S))) => RecordNamespace(S, <<noRecordName>>) # Failed
    BY <1>1, RecordFront, RecordNamespaceIs, OutermostFacts, StringFacts
  <2> QED BY <1>1, <1>2, <2>1, RecordNamespaceIs
<1>9. n # Failed => n = Outside(Front(S)) BY <1>2, <1>7 DEF RecordIs
<1>10. Fails(u, e) <=> Stops(e)
  <2>1. CASE n = Failed
    <3>1. Fails(u, e) BY <1>5, <2>1
    <3>2. ~IsFiltered(e) BY <1>3, <1>8, <2>1, FilteredFacts
    <3>3. StopsRecord(S) BY <1>2, <1>7, <2>1 DEF RecordIs, StopsFor
    <3> QED BY <1>6, <3>1, <3>2, <3>3
  <2>2. CASE n # Failed
    <3>1. IsFiltered(e) <=> n \in Filtered BY <1>3, <1>9, <2>2
    <3>2. StopsRecord(S) <=> Inconsistent(FullName(S), RecordNamespace(S, <<C_code>>))
      BY <1>2, <1>7, <2>2 DEF RecordIs, StopsFor
    <3> QED BY <1>4, <1>5, <1>6, <1>7, <2>2, <3>1, <3>2
  <2> QED BY <2>1, <2>2
<1>11. ~Fails(u, e) => (n \in Filtered <=> IsFiltered(e)) BY <1>3, <1>5, <1>9
<1> QED BY <1>10, <1>11 DEF AsExpected

LEMMA FctVisits ==
  ASSUME NEW u, NEW e \in FctVisit
  PROVE  AsExpected(u, e)
<1> DEFINE f == e.fct
           n == NamespaceOfInterest(e)
           Bad == \E r \in Requests(u, e) : Inconsistent(r.name, r.nspc)
<1>1. e.kind = "function" /\ f \in Fct /\ FctOf(e) = f BY DEF FctVisit, FctOf
<1>2. /\ n = IF f.builtin THEN Root ELSE NamespaceOf(f)
      /\ IsFiltered(e) <=> ~f.builtin /\ Around(f) \in Filtered
  BY <1>1, OfInterest
<1>3. FctIs(f) /\ (IsMethod(f) => ~f.builtin) BY <1>1, EveryFct, FctFacts
<1>4. Bad <=> IsMethod(f) /\ Inconsistent(RecordOf(f), NamespaceOf(f))
  <2>1. Requests(u, e) = IF IsMethod(f) THEN {RequestOf(f.file, f, f.file)} ELSE {}
    BY <1>1 DEF Requests
  <2>2. \A b, g, x : RequestOf(b, g, x).name = RecordOf(g) /\ RequestOf(b, g, x).nspc = NamespaceOf(g)
    BY DEF RequestOf, Request
  <2> QED BY <2>1, <2>2
<1> HIDE DEF Bad
<1>5. Fails(u, e) <=> (n = Failed \/ (n \notin Filtered /\ Bad))
  BY <1>1 DEF Fails, Bad
<1>6. Stops(e) <=> ~IsFiltered(e) /\ StopsFct(f) BY <1>1 DEF Stops
<1>7. Bad <=> StopsFct(f)
  BY <1>3, <1>4 DEF FctIs
<1>8. Root # Failed BY StringFacts, Written0Facts
<1>9. n = Failed => StopsFct(f) /\ ~IsFiltered(e)
  <2> SUFFICES ASSUME n = Failed PROVE StopsFct(f) /\ ~IsFiltered(e) OBVIOUS
  <2>1. ~f.builtin /\ NamespaceOf(f) = Failed BY <1>2, <1>8
  <2>2. StopsAlone(f) /\ Around(f) = Root BY <1>3, <2>1 DEF FctIs
  <2> QED BY <1>2, <2>2, FilteredFacts DEF StopsFct, StopsAlone
<1>10. n # Failed => (n \in Filtered <=> IsFiltered(e))
  BY <1>2, <1>3, FilteredFacts DEF FctIs
<1> HIDE DEF n, f
<1> QED BY <1>5, <1>6, <1>7, <1>9, <1>10 DEF AsExpected, n

LEMMA CallVisits ==
  ASSUME NEW u, NEW e \in CallVisit
  PROVE  AsExpected(u, e)
<1> DEFINE f == e.callee
           g == e.caller
           n == NamespaceOfInterest(e)
           Bad == \E r \in Requests(u, e) : Inconsistent(r.name, r.nspc)
<1>1. e.kind = "call" /\ f \in Fct /\ g \in Fct /\ FctOf(e) = f BY DEF CallVisit, FctOf
<1>2. /\ n = IF f.builtin THEN Root ELSE NamespaceOf(f)
      /\ IsFiltered(e) <=> ~f.builtin /\ Around(f) \in Filtered
  BY <1>1, OfInterest
<1>3. FctIs(f) /\ (IsMethod(f) => ~f.builtin) /\ FctIs(g) BY <1>1, EveryFct, FctFacts
<1>4. Bad <=>
        \/ IsMethod(f) /\ Inconsistent(RecordOf(f), NamespaceOf(f))
        \/ BetweenRecords(e) /\ Inconsistent(RecordOf(g), NamespaceOf(g))
        \/ BetweenRecords(e) /\ RecordOf(f) # <<C_code>> /\ Inconsistent(RecordOf(f), NamespaceOf(f))
  <2>1. Requests(u, e) =
          (IF IsMethod(f) THEN {RequestOf(f.file, f, f.file)} ELSE {})
          \cup (IF BetweenRecords(e) THEN {RequestOf(u.main, g, e.place)} ELSE {})
          \cup (IF BetweenRecords(e) /\ RecordOf(f) # <<C_code>> THEN {RequestOf(u.main, f, f.file)} ELSE {})
    BY <1>1 DEF Requests
  <2>2. \A b, h, x : RequestOf(b, h, x).name = RecordOf(h) /\ RequestOf(b, h, x).nspc = NamespaceOf(h)
    BY DEF RequestOf, Request
  <2> QED BY <2>1, <2>2
<1>5. Fails(u, e) <=> (n = Failed \/ (n \notin Filtered /\ (NamespaceOf(g) = Failed \/ Bad)))
  BY <1>1 DEF Fails
<1>6. Stops(e) <=> ~IsFiltered(e) /\ (StopsFct(f) \/ StopsAlone(g) \/ (StopsFct(g) /\ BetweenRecords(e)))
  BY <1>1 DEF Stops
<1>7. BetweenRecords(e) => RecordOf(g) # <<C_code>> BY DEF BetweenRecords
<1> HIDE DEF Bad
<1>8. Bad <=> (StopsFct(f) \/ (StopsFct(g) /\ BetweenRecords(e)))
  BY <1>3, <1>4, <1>7 DEF FctIs
<1>9. NamespaceOf(g) = Failed <=> StopsAlone(g) BY <1>3 DEF FctIs
<1>10. Root # Failed BY StringFacts, Written0Facts
<1>11. n = Failed => StopsFct(f) /\ ~IsFiltered(e)
  <2> SUFFICES ASSUME n = Failed PROVE StopsFct(f) /\ ~IsFiltered(e) OBVIOUS
  <2>1. ~f.builtin /\ NamespaceOf(f) = Failed BY <1>2, <1>10
  <2>2. StopsAlone(f) /\ Around(f) = Root BY <1>3, <2>1 DEF FctIs
  <2> QED BY <1>2, <2>2, FilteredFacts DEF StopsFct, StopsAlone
<1>12. n # Failed => (n \in Filtered <=> IsFiltered(e))
  BY <1>2, <1>3, FilteredFacts DEF FctIs
<1> HIDE DEF n, f, g
<1> QED BY <1>5, <1>6, <1>8, <1>9, <1>11, <1>12 DEF AsExpected, n

LEMMA FailsIffStops == \A u : \A e \in RecordVisit \cup FctVisit \cup CallVisit : AsExpected(u, e)
BY RecordVisits, FctVisits, CallVisits

-----------------------------------------------------------------------------
(* What a visit registers.                                                 *)

LEMMA GetIsString ==
  ASSUME NEW x \in String
  PROVE  get_namespaces(x, <<C_code>>) \in String
<1>1. Env \in Parts /\ \A p \in Parts : <<p>> \in String BY NamespacesAssumption DEF String
<1>2. x \in Seq(Parts) /\ Len(x) \in Nat \ {0} /\ Root \in String BY StringFacts, Written0Facts
<1>3. x[1] \in Parts /\ (Len(x) # 1 => x[2] \in Parts)
  <2>1. 1 \in 1..Len(x) /\ (Len(x) # 1 => 2 \in 1..Len(x))
    <3> DEFINE a == Len(x)
    <3>1. a \in Nat \ {0} BY <1>2
    <3> HIDE DEF a
    <3>2. 1 \in 1..a /\ (a # 1 => 2 \in 1..a) BY <3>1
    <3> QED BY <3>2 DEF a
  <2> QED BY <1>2, <2>1
<1> QED BY <1>1, <1>2, <1>3 DEF get_namespaces

LEMMA NameIsString ==
  ASSUME NEW S \in Scopes, NEW N \in Written0
  PROVE  printQualifiedName(S, N) \in String
BY NameInNamespace, NameInRecord

LEMMA UnitFacts ==
  ASSUME NEW u \in Unit
  PROVE  /\ u.main \in Files /\ DOMAIN u.visits = 1..Len(u.visits) /\ Len(u.visits) \in Nat
         /\ \A i \in 1..Len(u.visits) : u.visits[i] \in Visits(u)
         /\ Visits(u) \subseteq RecordVisit \cup FctVisit \cup CallVisit
<1>1. u.main \in Files /\ u.visits \in Seq(RecordVisit \cup FctVisit \cup CallVisit) BY DEF Unit
<1> QED BY <1>1 DEF Visits

\* Requests and the files they are about.
GoodRequest(r, files) ==
  /\ r.by \in Files /\ r.file \in Files /\ r.name \in String
  /\ {r.by, r.file} \subseteq files

LEMMA RequestsAre ==
  ASSUME NEW u \in Unit, NEW e \in Visits(u), NamespaceOfInterest(e) \notin Filtered
  PROVE  /\ \A r \in Requests(u, e) : GoodRequest(r, FilesOf(u, e) \cup {u.main})
         /\ FilesOf(u, e) \subseteq Files /\ u.main \in Files
<1> DEFINE Q == {r.file : r \in Requests(u, e)}
<1>1. u.main \in Files /\ e \in RecordVisit \cup FctVisit \cup CallVisit BY UnitFacts
<1>2. FilesOf(u, e) = Q \cup (IF e.kind = "function" THEN {e.fct.file} ELSE {})
                        \cup (IF e.kind = "call" THEN {e.caller.file, e.callee.file} ELSE {})
  BY DEF FilesOf
<1>3. \A x, y, z, w : /\ Request(x, y, z, w).by = x /\ Request(x, y, z, w).name = y
                      /\ Request(x, y, z, w).file = w
  BY DEF Request
<1>4. \A x, f, y : /\ RequestOf(x, f, y).by = x /\ RequestOf(x, f, y).name = RecordOf(f)
                   /\ RequestOf(x, f, y).file = y
  BY DEF RequestOf, Request
<1>5. \A f \in Fct : f.file \in Files /\ RecordOf(f) \in String BY FctFacts, EveryFct DEF FctIs
<1>6. CASE e \in RecordVisit
  <2> DEFINE S == e.rec.scopes
             B(i) == e.bases[i].scopes
  <2>1. /\ e.kind = "record" /\ S \in RecordScopes /\ e.rec.file \in Files
        /\ \A i \in DOMAIN e.bases : B(i) \in RecordScopes /\ e.bases[i].file \in Files
    BY <1>6 DEF RecordVisit, Record, RecordScopes, IsMethod
  <2>2. Requests(u, e) =
          {Request(u.main, FullName(S), RecordNamespace(S, <<C_code>>), e.rec.file)}
          \cup {Request(u.main, printRecordName(B(i)), RecordNamespace(B(i), printRecordName(B(i))), e.bases[i].file) :
                i \in DOMAIN e.bases}
    BY <2>1 DEF Requests
  <2>3. \A X \in RecordScopes : FullName(X) \in String /\ printRecordName(X) \in String
    BY RecordFront, NameIsString DEF FullName, printRecordName
  <2>4. \A r \in Requests(u, e) : r.by = u.main /\ r.file \in Files /\ r.name \in String
    BY <1>3, <2>1, <2>2, <2>3
  <2> QED BY <1>1, <1>2, <2>1, <2>4 DEF GoodRequest
<1>7. CASE e \in FctVisit
  <2>1. e.kind = "function" /\ e.fct \in Fct BY <1>7 DEF FctVisit
  <2>2. Requests(u, e) = IF IsMethod(e.fct) THEN {RequestOf(e.fct.file, e.fct, e.fct.file)} ELSE {}
    BY <2>1 DEF Requests
  <2>3. \A r \in Requests(u, e) : r.by = e.fct.file /\ r.file = e.fct.file /\ r.name \in String
    BY <1>4, <1>5, <2>1, <2>2
  <2> QED BY <1>1, <1>2, <1>5, <2>1, <2>3 DEF GoodRequest
<1>8. CASE e \in CallVisit
  <2>1. e.kind = "call" /\ e.caller \in Fct /\ e.callee \in Fct /\ e.place \in Files BY <1>8 DEF CallVisit
  <2>2. Requests(u, e) =
          (IF IsMethod(e.callee) THEN {RequestOf(e.callee.file, e.callee, e.callee.file)} ELSE {})
          \cup (IF BetweenRecords(e) THEN {RequestOf(u.main, e.caller, e.place)} ELSE {})
          \cup (IF BetweenRecords(e) /\ RecordOf(e.callee) # <<C_code>>
                THEN {RequestOf(u.main, e.callee, e.callee.file)} ELSE {})
    BY <2>1 DEF Requests
  <2>3. \A r \in Requests(u, e) : r.by \in {u.main, e.callee.file} /\ r.file \in Files /\ r.name \in String
    BY <1>4, <1>5, <2>1, <2>2
  <2> QED BY <1>1, <1>2, <1>5, <2>1, <2>3 DEF GoodRequest
<1> QED BY <1>1, <1>6, <1>7, <1>8

\* The facts that a request may add.
FactOfRequest(x, r) ==
  /\ x \in Fact /\ x.in \in {r.by, r.file} /\ x.rel \in {"namespace", "records", "record"}
  /\ x.rel \in {"records", "record"} => x.of = r.nspc /\ x.to = r.name

LEMMA RegisteredFacts ==
  ASSUME NEW r, NEW G, r.by \in Files, r.file \in Files, r.name \in String, r.nspc \in String
  PROVE  /\ \A x \in Registered(G, r) : FactOfRequest(x, r)
         /\ \A x \in Registered(G, r) : x.rel = "record" =>
              FactOf(x.in, "records", x.of, x.to) \in Registered(G, r)
         /\ FactOf(r.by, "records", r.nspc, r.name) \in Registered(G, r)
         /\ \/ \E x \in G : x.in = r.file /\ x.rel = "record" /\ x.to = r.name
            \/ {FactOf(r.file, "record", r.nspc, r.name), FactOf(r.file, "records", r.nspc, r.name)}
                 \subseteq Registered(G, r)
<1> DEFINE n == r.nspc
           x == r.name
           A(f) == {FactOf(f, "namespace", n, NoName), FactOf(f, "records", n, x)}
           R == FactOf(r.file, "record", n, x)
           Known == \E y \in G : y.in = r.file /\ y.rel = "record" /\ y.to = x
<1>1. Registered(G, r) = A(r.by) \cup (IF Known THEN {} ELSE A(r.file) \cup {R})
  BY DEF Registered, Listed
<1>2. NoName \in String BY Written0Facts
<1>3. \A f \in {r.by, r.file} : \A y \in A(f) : FactOfRequest(y, r) /\ y.rel # "record"
  BY <1>2 DEF FactOfRequest, FactOf, Fact, Rels
<1>4. FactOfRequest(R, r) /\ R.in = r.file /\ R.of = n /\ R.to = x BY DEF FactOfRequest, FactOf, Fact, Rels
<1> HIDE DEF n, x, R, Known
<1>5. \A y \in Registered(G, r) : y \in A(r.by) \/ y \in A(r.file) \/ y = R BY <1>1
<1>6. R \in Registered(G, r) => FactOf(r.file, "records", n, x) \in Registered(G, r)
  <2>1. R \notin A(r.by)
    <3>1. R.rel = "record" BY DEF R, FactOf
    <3> QED BY <1>3, <3>1
  <2> QED BY <1>1, <2>1
<1>7. \A y \in Registered(G, r) : y.rel = "record" => y = R BY <1>3, <1>5
<1>8. ~Known => {R, FactOf(r.file, "records", n, x)} \subseteq Registered(G, r) BY <1>1
<1>9. FactOf(r.by, "records", n, x) \in Registered(G, r) BY <1>1
<1>10. \A y \in Registered(G, r) : FactOfRequest(y, r) BY <1>3, <1>4, <1>5
<1>11. \A y \in Registered(G, r) : y.rel = "record" => FactOf(y.in, "records", y.of, y.to) \in Registered(G, r)
  BY <1>4, <1>6, <1>7
<1> QED BY <1>8, <1>9, <1>10, <1>11 DEF n, x, R, Known

\* The facts that a call adds.
CallBetween(u, e, x) ==
  /\ Crosses(e) /\ x.in = u.main
  /\ {x.of, x.to} = {Around(e.caller), Around(e.callee)}
  /\ x.of = Around(IF x.rel = "calls" THEN e.caller ELSE e.callee)

LEMMA CallFacts ==
  ASSUME NEW f \in Files, NEW n \in String, NEW m \in String
  PROVE  LET Y == NamespaceCalls(f, n, m)
         IN /\ \A x \in Y : /\ x \in Fact /\ x.in = f /\ x.rel \in {"namespace", "calls", "called"}
                            /\ n \notin {m, Root}
                            /\ x.rel = "calls" => x.of = n /\ x.to = m
                            /\ x.rel = "called" => x.of = m /\ x.to = n
            /\ n \notin {m, Root} => {FactOf(f, "calls", n, m), FactOf(f, "called", m, n)} \subseteq Y
<1>1. NoName \in String BY Written0Facts
<1>2. CASE n \in {m, Root} BY <1>2 DEF NamespaceCalls
<1>3. CASE n \notin {m, Root}
  <2>1. NamespaceCalls(f, n, m) =
          {FactOf(f, "namespace", n, NoName), FactOf(f, "calls", n, m),
           FactOf(f, "namespace", m, NoName), FactOf(f, "called", m, n)}
    BY <1>3 DEF NamespaceCalls
  <2> QED BY <1>1, <1>3, <2>1 DEF FactOf, Fact, Rels
<1> QED BY <1>2, <1>3

\* What parse_json_file asserts of a fact.
ReadBack(x) ==
  /\ x.rel \in {"records", "record"} => ~Inconsistent(x.to, x.of)
  /\ x.rel \in {"calls", "called"} => x.to # x.of

\* A record of the file is in the list of its namespace.
Paired(G) == \A x \in G : x.rel = "record" => FactOf(x.in, "records", x.of, x.to) \in G

\* What a visit that has not aborted leaves.
RecordSeen(u, e, G) ==
  (e.kind = "record" /\ ~IsFiltered(e) /\ Last(e.rec.scopes).text # NoName) =>
    LET S == e.rec.scopes
        n == IF Anonymous(S) THEN Root ELSE Outermost(Front(S))
    IN {FactOf(e.rec.file, "record", n, FullName(S)),
        FactOf(e.rec.file, "records", n, FullName(S)),
        FactOf(u.main, "records", n, FullName(S))} \subseteq G

CallSeen(u, e, G) ==
  Crosses(e) =>
    {FactOf(u.main, "calls", Around(e.caller), Around(e.callee)),
     FactOf(u.main, "called", Around(e.callee), Around(e.caller))} \subseteq G

Seen(u, e, G) == ~Stops(e) /\ RecordSeen(u, e, G) /\ CallSeen(u, e, G)

NewOf(G, u, e) ==
  (UNION {Registered(G, r) : r \in Requests(u, e)})
  \cup (IF e.kind # "call" THEN {}
        ELSE NamespaceCalls(u.main, NamespaceOf(e.caller), NamespaceOf(e.callee)))

\* The ends of a call whose visit does not abort.
LEMMA EndsOfCall ==
  ASSUME NEW u \in Unit, NEW e \in Visits(u), ~Fails(u, e), NamespaceOfInterest(e) \notin Filtered,
         e.kind = "call"
  PROVE  /\ NamespaceOf(e.caller) = Around(e.caller) /\ NamespaceOf(e.callee) = Around(e.callee)
         /\ Around(e.caller) \in String /\ Around(e.callee) \in String
         /\ Crosses(e) <=> Around(e.caller) \notin {Around(e.callee), Root}
<1>1. e \in RecordVisit \cup FctVisit \cup CallVisit BY UnitFacts
<1>2. e \in CallVisit BY <1>1 DEF RecordVisit, FctVisit
<1>3. e.caller \in Fct /\ e.callee \in Fct BY <1>2 DEF CallVisit
<1>4. FctIs(e.caller) /\ FctIs(e.callee) BY <1>3, EveryFct
<1>5. ~IsFiltered(e) /\ ~Stops(e) BY <1>1, FailsIffStops DEF AsExpected
<1>6. NamespaceOf(e.caller) # Failed BY DEF Fails
<1>7. ~StopsFct(e.callee) BY <1>5 DEF Stops
<1>8. ~StopsAlone(e.callee)
  <2> SUFFICES ASSUME StopsAlone(e.callee) PROVE FALSE OBVIOUS
  <2>1. IsMethod(e.callee) BY <1>4 DEF FctIs
  <2> QED BY <1>7, <2>1 DEF StopsFct
<1>9. ~StopsAlone(e.caller) BY <1>4, <1>6 DEF FctIs
<1> QED BY <1>4, <1>5, <1>8, <1>9 DEF FctIs, Crosses

\* The facts a visit adds.
NewFact(u, e, x) ==
  /\ x \in Fact /\ x.in \in FilesOf(u, e) \cup {u.main}
  /\ ReadBack(x)
  /\ x.rel \in {"calls", "called"} => CallBetween(u, e, x)

LEMMA NewFacts ==
  ASSUME NEW u \in Unit, NEW e \in Visits(u), ~Fails(u, e), NamespaceOfInterest(e) \notin Filtered,
         NEW G
  PROVE  /\ \A x \in NewOf(G, u, e) : NewFact(u, e, x)
         /\ \A x \in NewOf(G, u, e) : x.rel = "record" => FactOf(x.in, "records", x.of, x.to) \in NewOf(G, u, e)
<1> DEFINE R == UNION {Registered(G, r) : r \in Requests(u, e)}
           Y == NamespaceCalls(u.main, NamespaceOf(e.caller), NamespaceOf(e.callee))
<1>1. ASSUME NEW r \in Requests(u, e)
      PROVE  /\ r.by \in Files /\ r.file \in Files /\ r.name \in String /\ r.nspc \in String
             /\ {r.by, r.file} \subseteq FilesOf(u, e) \cup {u.main}
             /\ ~Inconsistent(r.name, r.nspc)
  <2>1. ~Inconsistent(r.name, r.nspc) BY DEF Fails
  <2>2. GoodRequest(r, FilesOf(u, e) \cup {u.main}) BY RequestsAre
  <2>3. r.nspc \in String BY <2>1, <2>2, GetIsString DEF Inconsistent, GoodRequest
  <2> QED BY <2>1, <2>2, <2>3 DEF GoodRequest
<1>2. \A x \in R : \E r \in Requests(u, e) : x \in Registered(G, r) /\ FactOfRequest(x, r)
  BY <1>1, RegisteredFacts
<1>3. \A x \in R : NewFact(u, e, x)
  <2> SUFFICES ASSUME NEW x \in R PROVE NewFact(u, e, x) OBVIOUS
  <2>1. PICK r \in Requests(u, e) : FactOfRequest(x, r) BY <1>2
  <2> QED BY <1>1, <2>1 DEF FactOfRequest, NewFact, ReadBack
<1>4. \A x \in R : x.rel = "record" => FactOf(x.in, "records", x.of, x.to) \in R
  <2> SUFFICES ASSUME NEW x \in R, x.rel = "record" PROVE FactOf(x.in, "records", x.of, x.to) \in R OBVIOUS
  <2>1. PICK r \in Requests(u, e) : x \in Registered(G, r) BY <1>2
  <2>2. FactOf(x.in, "records", x.of, x.to) \in Registered(G, r) BY <1>1, <2>1, RegisteredFacts
  <2> QED BY <2>2
<1>5. ASSUME e.kind = "call" PROVE \A x \in Y : NewFact(u, e, x) /\ x.rel # "record"
  <2> DEFINE n == NamespaceOf(e.caller)
             m == NamespaceOf(e.callee)
  <2>1. /\ n = Around(e.caller) /\ m = Around(e.callee) /\ n \in String /\ m \in String
        /\ Crosses(e) <=> n \notin {m, Root}
    BY <1>5, EndsOfCall
  <2>2. u.main \in Files BY UnitFacts
  <2> HIDE DEF n, m
  <2>3. \A x \in NamespaceCalls(u.main, n, m) :
          /\ x \in Fact /\ x.in = u.main /\ x.rel \in {"namespace", "calls", "called"}
          /\ n \notin {m, Root}
          /\ x.rel = "calls" => x.of = n /\ x.to = m
          /\ x.rel = "called" => x.of = m /\ x.to = n
    BY <2>1, <2>2, CallFacts
  <2>4. ASSUME NEW x \in NamespaceCalls(u.main, n, m) PROVE NewFact(u, e, x) /\ x.rel # "record"
    <3>1. /\ x \in Fact /\ x.in = u.main /\ x.rel \in {"namespace", "calls", "called"}
          /\ n # m /\ Crosses(e)
          /\ x.rel = "calls" => x.of = n /\ x.to = m
          /\ x.rel = "called" => x.of = m /\ x.to = n
      BY <2>1, <2>3
    <3>2. x.rel \in {"calls", "called"} => CallBetween(u, e, x)
      BY <2>1, <3>1 DEF CallBetween
    <3>3. ReadBack(x) BY <3>1 DEF ReadBack
    <3> QED BY <3>1, <3>2, <3>3 DEF NewFact
  <2> QED BY <2>4 DEF n, m
<1>6. NewOf(G, u, e) = R \cup (IF e.kind # "call" THEN {} ELSE Y) BY DEF NewOf
<1> HIDE DEF R, Y
<1> QED BY <1>3, <1>4, <1>5, <1>6

\* A record found in its file is there with the same namespace.
LEMMA SeenAfter ==
  ASSUME NEW u \in Unit, NEW e \in Visits(u), ~Fails(u, e), NamespaceOfInterest(e) \notin Filtered,
         NEW G \in SUBSET Fact, \A x \in G : ReadBack(x), Paired(G)
  PROVE  Seen(u, e, G \cup NewOf(G, u, e))
<1> DEFINE H == G \cup NewOf(G, u, e)
<1>1. e \in RecordVisit \cup FctVisit \cup CallVisit /\ u.main \in Files BY UnitFacts
<1>2. ~Stops(e) /\ ~IsFiltered(e) BY <1>1, FailsIffStops DEF AsExpected
<1>3. ASSUME e.kind = "record", Last(e.rec.scopes).text # NoName
      PROVE  LET S == e.rec.scopes
                 n == IF Anonymous(S) THEN Root ELSE Outermost(Front(S))
             IN {FactOf(e.rec.file, "record", n, FullName(S)),
                 FactOf(e.rec.file, "records", n, FullName(S)),
                 FactOf(u.main, "records", n, FullName(S))} \subseteq H
  <2> DEFINE S == e.rec.scopes
             n == IF Anonymous(S) THEN Root ELSE Outermost(Front(S))
             x == FullName(S)
             r == Request(u.main, x, RecordNamespace(S, <<C_code>>), e.rec.file)
  <2>1. e \in RecordVisit BY <1>1, <1>3 DEF FctVisit, CallVisit
  <2>2. S \in RecordScopes /\ e.rec.file \in Files
    BY <2>1 DEF RecordVisit, Record, RecordScopes, IsMethod
  <2>3. ~StopsRecord(S) BY <1>2, <1>3 DEF Stops
  <2>4. RecordNamespace(S, <<C_code>>) = n BY <1>3, <2>2, <2>3, EveryRecord DEF RecordIs
  <2>5. r \in Requests(u, e) BY <1>3 DEF Requests
  <2>6. r.by = u.main /\ r.file = e.rec.file /\ r.name = x /\ r.nspc = n BY <2>4 DEF Request
  <2>7. ~Inconsistent(x, n) /\ x \in String /\ n \in String
    <3>1. ~Inconsistent(r.name, r.nspc) BY <2>5 DEF Fails
    <3>2. r.name \in String BY <2>5, RequestsAre DEF GoodRequest
    <3>3. r.nspc \in String BY <3>1, <3>2, GetIsString DEF Inconsistent
    <3> QED BY <2>6, <3>1, <3>2, <3>3
  <2> HIDE DEF r, n, x
  <2>8. Registered(G, r) \subseteq H BY <2>5 DEF NewOf
  <2>9. /\ FactOf(u.main, "records", n, x) \in Registered(G, r)
        /\ \/ \E y \in G : y.in = e.rec.file /\ y.rel = "record" /\ y.to = x
           \/ {FactOf(e.rec.file, "record", n, x), FactOf(e.rec.file, "records", n, x)} \subseteq Registered(G, r)
    BY <1>1, <2>2, <2>6, <2>7, RegisteredFacts
  <2>10. ASSUME NEW y \in G, y.in = e.rec.file, y.rel = "record", y.to = x
         PROVE  {FactOf(e.rec.file, "record", n, x), FactOf(e.rec.file, "records", n, x)} \subseteq H
    <3>1. ~Inconsistent(x, y.of) BY <2>10 DEF ReadBack
    <3>2. y.of = n BY <2>7, <3>1 DEF Inconsistent
    <3>3. y = FactOf(e.rec.file, "record", n, x) BY <2>10, <3>2 DEF Fact, FactOf
    <3>4. FactOf(e.rec.file, "records", n, x) \in G BY <2>10, <3>2 DEF Paired
    <3> QED BY <2>10, <3>3, <3>4
  <2>11. {FactOf(e.rec.file, "record", n, x), FactOf(e.rec.file, "records", n, x)} \subseteq H
    BY <2>8, <2>9, <2>10
  <2> HIDE DEF H
  <2>12. FactOf(u.main, "records", n, x) \in H BY <2>8, <2>9
  <2> QED BY <2>11, <2>12 DEF n, x
<1>4. ASSUME Crosses(e)
      PROVE  {FactOf(u.main, "calls", Around(e.caller), Around(e.callee)),
              FactOf(u.main, "called", Around(e.callee), Around(e.caller))} \subseteq H
  <2>1. e.kind = "call" BY <1>4 DEF Crosses
  <2>2. /\ NamespaceOf(e.caller) = Around(e.caller) /\ NamespaceOf(e.callee) = Around(e.callee)
        /\ Around(e.caller) \in String /\ Around(e.callee) \in String
        /\ Around(e.caller) \notin {Around(e.callee), Root}
    BY <1>4, <2>1, EndsOfCall
  <2>3. NamespaceCalls(u.main, Around(e.caller), Around(e.callee)) \subseteq H BY <2>1, <2>2 DEF NewOf
  <2>4. {FactOf(u.main, "calls", Around(e.caller), Around(e.callee)),
         FactOf(u.main, "called", Around(e.callee), Around(e.caller))}
          \subseteq NamespaceCalls(u.main, Around(e.caller), Around(e.callee))
    BY <1>1, <2>2, CallFacts
  <2> HIDE DEF H
  <2> QED BY <2>3, <2>4
<1> HIDE DEF H
<1>5. RecordSeen(u, e, H) BY <1>3 DEF RecordSeen
<1>6. CallSeen(u, e, H) BY <1>4 DEF CallSeen
<1> QED BY <1>2, <1>5, <1>6 DEF Seen, H

\* What a visit that does not abort makes of the facts.
LEMMA EffectFacts ==
  ASSUME NEW u \in Unit, NEW e \in Visits(u), ~Fails(u, e),
         NEW G \in SUBSET Fact, \A x \in G : ReadBack(x), Paired(G)
  PROVE  /\ G \subseteq Effect(G, u, e) /\ Paired(Effect(G, u, e))
         /\ \A x \in Effect(G, u, e) : x \in G \/ NewFact(u, e, x)
         /\ FilesOf(u, e) \subseteq Files
         /\ Seen(u, e, Effect(G, u, e))
<1>1. CASE NamespaceOfInterest(e) \in Filtered
  <2>1. Effect(G, u, e) = G /\ FilesOf(u, e) = {} BY <1>1 DEF Effect, FilesOf
  <2>2. e \in RecordVisit \cup FctVisit \cup CallVisit BY UnitFacts
  <2>3. IsFiltered(e) /\ ~Stops(e) BY <1>1, <2>2, FailsIffStops DEF AsExpected
  <2> QED BY <2>1, <2>3 DEF Seen, RecordSeen, CallSeen, Crosses
<1>2. CASE NamespaceOfInterest(e) \notin Filtered
  <2>1. Effect(G, u, e) = G \cup NewOf(G, u, e) BY <1>2, Zenon DEF Effect, NewOf
  <2>2. Seen(u, e, G \cup NewOf(G, u, e)) BY <1>2, SeenAfter
  <2>3. FilesOf(u, e) \subseteq Files BY <1>2, RequestsAre
  <2>4. /\ \A x \in NewOf(G, u, e) : NewFact(u, e, x)
        /\ \A x \in NewOf(G, u, e) : x.rel = "record" => FactOf(x.in, "records", x.of, x.to) \in NewOf(G, u, e)
    BY <1>2, NewFacts
  <2>5. Paired(G \cup NewOf(G, u, e)) BY <2>4 DEF Paired
  <2> QED BY <2>1, <2>2, <2>3, <2>4, <2>5
<1> QED BY <1>1, <1>2

-----------------------------------------------------------------------------
(* The invariant.                                                          *)

\* Each fact satisfies what is asserted of it, and the calls come from visits.
StoreOK(G) ==
  /\ Paired(G)
  /\ \A x \in G : /\ ReadBack(x)
                  /\ x.rel \in {"calls", "called"} =>
                       \E u \in program : \E e \in Visits(u) : CallBetween(u, e, x)

\* What is in memory and not yet in a file is in one that is to be rewritten.
ProcessOK ==
  /\ disk \subseteq graph
  /\ \A x \in graph \ disk : x.in \in opened \ written
  /\ written # {} => ~Traversing
  /\ unit # NoUnit => unit.main \in opened

\* What has been visited has left its facts.
VisitedOK ==
  unit # NoUnit => \A i \in 1..Len(unit.visits) : i < next => Seen(unit, unit.visits[i], graph)

DoneOK    == \A u \in done : \A e \in Visits(u) : Seen(u, e, disk)
AbortedOK == \A e \in aborted : Stops(e)

IInv == TypeOK /\ StoreOK(graph) /\ StoreOK(disk) /\ ProcessOK /\ VisitedOK /\ DoneOK /\ AbortedOK

LEMMA ProgramFacts ==
  ASSUME TypeOK
  PROVE  program \subseteq Unit /\ NoUnit \notin program /\ (unit # NoUnit => unit \in program /\ unit \in Unit)
BY NamespacesAssumption DEF TypeOK

LEMMA SeenGrows ==
  ASSUME NEW u, NEW e, NEW G, NEW H, G \subseteq H, Seen(u, e, G)
  PROVE  Seen(u, e, H)
BY DEF Seen, RecordSeen, CallSeen

LEMMA InitOK == ASSUME Init PROVE IInv
<1>1. TypeOK BY DEF Init, TypeOK
<1> QED BY <1>1 DEF Init, IInv, StoreOK, Paired, ProcessOK, VisitedOK, DoneOK, AbortedOK

LEMMA StartOK ==
  ASSUME IInv, NEW u \in program, Start(u)
  PROVE  IInv'
<1>1. TypeOK /\ u \in Unit /\ u # NoUnit /\ u.main \in Files
  BY ProgramFacts, UnitFacts DEF IInv
<1>2. TypeOK' BY <1>1 DEF Start, TypeOK
<1>3. graph = disk /\ written = {} BY <1>1 DEF Start, TypeOK
<1>4. ProcessOK' BY <1>1, <1>3 DEF Start, ProcessOK
<1>5. VisitedOK'
  <2>1. next' = 1 /\ unit' = u BY DEF Start
  <2>2. \A i \in 1..Len(u.visits) : ~(i < 1)
    <3>1. Len(u.visits) \in Nat BY <1>1, UnitFacts
    <3> QED BY <3>1
  <2> QED BY <2>1, <2>2 DEF VisitedOK
<1>6. StoreOK(graph)' /\ StoreOK(disk)' BY DEF IInv, Start, StoreOK
<1> QED BY <1>2, <1>4, <1>5, <1>6 DEF IInv, Start, DoneOK, AbortedOK

LEMMA VisitOK ==
  ASSUME IInv, Visit
  PROVE  IInv'
<1> DEFINE e == unit.visits[next]
           H == Effect(graph, unit, e)
<1>1. /\ TypeOK /\ unit \in program /\ unit \in Unit /\ unit # NoUnit
      /\ next \in 1..Len(unit.visits) /\ written = {} /\ e \in Visits(unit)
      /\ Len(unit.visits) \in Nat
  <2>1. TypeOK /\ Traversing /\ unit \in Unit /\ unit \in program /\ unit # NoUnit
    BY ProgramFacts DEF IInv, Visit, Traversing
  <2>2. Len(unit.visits) \in Nat BY <2>1, UnitFacts
  <2>3. next \in 1..Len(unit.visits) BY <2>1, <2>2 DEF TypeOK, Traversing
  <2> QED BY <2>1, <2>2, <2>3, UnitFacts DEF IInv, ProcessOK
<1>2. /\ ~Fails(unit, e) /\ graph' = H /\ opened' = opened \cup FilesOf(unit, e) /\ next' = next + 1
      /\ UNCHANGED <<program, disk, unit, written, done, aborted>>
  BY DEF Visit
<1>3. graph \in SUBSET Fact /\ (\A x \in graph : ReadBack(x)) /\ Paired(graph)
  BY <1>1 DEF IInv, TypeOK, StoreOK
<1> HIDE DEF e, H
<1>4. /\ graph \subseteq H /\ Paired(H) /\ FilesOf(unit, e) \subseteq Files
      /\ \A x \in H : x \in graph \/ NewFact(unit, e, x)
      /\ Seen(unit, e, H)
  BY <1>1, <1>2, <1>3, EffectFacts DEF H
<1>5. TypeOK' BY <1>1, <1>2, <1>4 DEF TypeOK, NewFact
<1>6. StoreOK(graph)'
  <2>1. \A x \in H : ReadBack(x) BY <1>3, <1>4 DEF NewFact
  <2>2. ASSUME NEW x \in H, x.rel \in {"calls", "called"}
        PROVE  \E u \in program : \E d \in Visits(u) : CallBetween(u, d, x)
    <3>1. CASE x \in graph BY <2>2, <3>1 DEF IInv, StoreOK
    <3>2. CASE NewFact(unit, e, x)
      <4>1. CallBetween(unit, e, x) BY <2>2, <3>2 DEF NewFact
      <4> QED BY <1>1, <4>1
    <3> QED BY <1>4, <3>1, <3>2
  <2> QED BY <1>2, <1>4, <2>1, <2>2 DEF StoreOK
<1>7. StoreOK(disk)' BY <1>2 DEF IInv, StoreOK
<1>8. ProcessOK'
  <2>1. \A x \in H \ disk : x.in \in opened' BY <1>1, <1>2, <1>4 DEF IInv, ProcessOK, NewFact
  <2>2. disk \subseteq H BY <1>4 DEF IInv, ProcessOK
  <2> QED BY <1>1, <1>2, <2>1, <2>2 DEF IInv, ProcessOK
<1>9. VisitedOK'
  <2>1. ASSUME NEW i \in 1..Len(unit.visits), i < next + 1
        PROVE  Seen(unit, unit.visits[i], H)
    <3>1. CASE i = next BY <1>4, <3>1 DEF e
    <3>2. CASE i < next
      <4>1. Seen(unit, unit.visits[i], graph) BY <1>1, <3>2 DEF IInv, VisitedOK
      <4> QED BY <1>4, <4>1, SeenGrows
    <3> QED BY <1>1, <2>1, <3>1, <3>2
  <2> QED BY <1>2, <2>1 DEF VisitedOK
<1>10. DoneOK' /\ AbortedOK' BY <1>2 DEF IInv, DoneOK, AbortedOK
<1> QED BY <1>5, <1>6, <1>7, <1>8, <1>9, <1>10 DEF IInv

\* The memory is read again from the files.
LEMMA LoseOK ==
  ASSUME IInv, Lose, AbortedOK'
  PROVE  IInv'
<1>1. TypeOK' BY DEF IInv, TypeOK, Lose
<1>2. StoreOK(graph)' /\ StoreOK(disk)' BY DEF IInv, StoreOK, Lose
<1>3. ProcessOK' BY DEF ProcessOK, Lose
<1>4. VisitedOK' /\ DoneOK' BY DEF IInv, VisitedOK, DoneOK, Lose
<1> QED BY <1>1, <1>2, <1>3, <1>4 DEF IInv

LEMMA VisitAbortsOK ==
  ASSUME IInv, VisitAborts
  PROVE  IInv'
<1> DEFINE e == unit.visits[next]
<1>1. unit \in Unit /\ next \in Nat \ {0} /\ Traversing /\ Fails(unit, e)
  BY ProgramFacts DEF IInv, TypeOK, VisitAborts, Traversing
<1>2. e \in Visits(unit) /\ e \in RecordVisit \cup FctVisit \cup CallVisit
  <2>1. Len(unit.visits) \in Nat BY <1>1, UnitFacts
  <2>2. next \in 1..Len(unit.visits) BY <1>1, <2>1 DEF Traversing
  <2> QED BY <1>1, <2>2, UnitFacts
<1>3. Stops(e) BY <1>1, <1>2, FailsIffStops DEF AsExpected
<1>4. AbortedOK' BY <1>3 DEF IInv, AbortedOK, VisitAborts
<1> QED BY <1>4, LoseOK DEF VisitAborts

LEMMA RewriteOK ==
  ASSUME IInv, NEW f \in Files, Rewrite(f)
  PROVE  IInv'
<1>1. /\ unit # NoUnit /\ ~Traversing /\ f \in opened \ written
      /\ disk' = {x \in disk : x.in # f} \cup {x \in graph : x.in = f}
      /\ written' = written \cup {f}
      /\ UNCHANGED <<program, graph, unit, next, opened, done, aborted>>
  BY DEF Rewrite
<1>2. disk \subseteq graph BY DEF IInv, ProcessOK
<1>3. disk \subseteq disk' /\ disk' \subseteq graph BY <1>1, <1>2
<1>4. TypeOK' BY <1>1, <1>3 DEF IInv, TypeOK
<1>5. StoreOK(graph)' BY <1>1 DEF IInv, StoreOK
<1>6. StoreOK(disk)'
  <2>1. Paired(disk')
    <3> SUFFICES ASSUME NEW x \in disk', x.rel = "record"
                 PROVE  FactOf(x.in, "records", x.of, x.to) \in disk'
      BY DEF Paired
    <3> DEFINE y == FactOf(x.in, "records", x.of, x.to)
    <3>1. y.in = x.in BY DEF FactOf
    <3>2. x \in graph /\ y \in graph BY <1>3 DEF IInv, StoreOK, Paired
    <3> HIDE DEF y
    <3>3. CASE x.in = f BY <1>1, <3>1, <3>2, <3>3 DEF y
    <3>4. CASE x.in # f
      <4>1. x \in disk BY <1>1, <3>4
      <4>2. y \in disk BY <4>1 DEF IInv, StoreOK, Paired, y
      <4> QED BY <1>3, <4>2 DEF y
    <3> QED BY <3>3, <3>4
  <2> QED BY <1>1, <1>3, <2>1 DEF IInv, StoreOK
<1>7. ProcessOK'
  <2>1. \A x \in graph \ disk' : x.in \in opened \ written /\ x.in # f BY <1>1, <1>3 DEF IInv, ProcessOK
  <2>2. ~Traversing' BY <1>1 DEF Traversing
  <2> QED BY <1>1, <1>3, <2>1, <2>2 DEF IInv, ProcessOK
<1>8. VisitedOK' BY <1>1 DEF IInv, VisitedOK
<1>9. DoneOK' BY <1>1, <1>3, SeenGrows DEF IInv, DoneOK
<1>10. AbortedOK' BY <1>1 DEF IInv, AbortedOK
<1> QED BY <1>4, <1>5, <1>6, <1>7, <1>8, <1>9, <1>10 DEF IInv

LEMMA FinishOK ==
  ASSUME IInv, Finish
  PROVE  IInv'
<1>1. unit \in program /\ unit \in Unit /\ unit # NoUnit /\ ~Traversing /\ opened = written /\ next \in Nat
  BY ProgramFacts DEF IInv, TypeOK, Finish
<1>2. graph = disk BY <1>1 DEF IInv, ProcessOK
<1>3. \A e \in Visits(unit) : Seen(unit, e, disk)
  <2> SUFFICES ASSUME NEW i \in DOMAIN unit.visits PROVE Seen(unit, unit.visits[i], disk)
    BY DEF Visits
  <2>1. i \in 1..Len(unit.visits) /\ Len(unit.visits) \in Nat BY <1>1, UnitFacts
  <2>2. i < next BY <1>1, <2>1 DEF Traversing
  <2> QED BY <1>1, <1>2, <2>1, <2>2 DEF IInv, VisitedOK
<1>4. DoneOK' BY <1>3 DEF IInv, DoneOK, Finish
<1>5. TypeOK' BY <1>1 DEF IInv, TypeOK, Finish
<1>6. StoreOK(graph)' /\ StoreOK(disk)' BY DEF IInv, StoreOK, Finish
<1>7. ProcessOK' /\ VisitedOK' /\ AbortedOK' BY DEF IInv, ProcessOK, VisitedOK, AbortedOK, Finish
<1> QED BY <1>4, <1>5, <1>6, <1>7 DEF IInv

LEMMA StepOK ==
  ASSUME IInv, [Next]_vars
  PROVE  IInv'
<1>1. ASSUME NEW u \in program, Start(u) PROVE IInv' BY <1>1, StartOK
<1>2. ASSUME NEW f \in Files, Rewrite(f) PROVE IInv' BY <1>2, RewriteOK
<1>3. CASE Visit BY <1>3, VisitOK
<1>4. CASE VisitAborts BY <1>4, VisitAbortsOK
<1>5. CASE Finish BY <1>5, FinishOK
<1>6. CASE Stop
  <2>1. Lose /\ AbortedOK' BY <1>6 DEF Stop, IInv, AbortedOK
  <2> QED BY <2>1, LoseOK
<1>7. CASE UNCHANGED vars
  BY <1>7 DEF vars, IInv, TypeOK, StoreOK, Paired, ProcessOK, Traversing, VisitedOK, DoneOK, AbortedOK
<1> QED BY <1>1, <1>2, <1>3, <1>4, <1>5, <1>6, <1>7 DEF Next

\* The invariant of the analysis: facts that can be read back, none of them in
\* memory only when the files have been rewritten.
THEOREM Invariant == Spec => []IInv
BY InitOK, StepOK, PTL DEF Spec

-----------------------------------------------------------------------------

\* The state of an analysis has its types.
THEOREM TypeCorrect == Spec => []TypeOK
<1>1. IInv => TypeOK BY DEF IInv
<1> QED BY <1>1, Invariant, PTL

\* The assertions on namespaces stop an analysis at the declarations that
\* Stops describes, whatever their scopes and names, and a unit that has one is
\* never analysed to its end.
THEOREM AssertionsExplained == Spec => []StopsForAReason
<1>1. IInv => StopsForAReason BY DEF IInv, AbortedOK, DoneOK, Seen, StopsForAReason
<1> QED BY <1>1, Invariant, PTL

\* No analysis, ended, aborted or stopped, leaves in the json files a fact that
\* makes the next one fail when parse_json_file reads it.
THEOREM FilesReadBack == Spec => []ReadsBack
<1>1. IInv => ReadsBack BY DEF IInv, StoreOK, ReadBack, ReadsBack
<1> QED BY <1>1, Invariant, PTL

\* A record of a unit that has been analysed is in its file and in the main
\* file, in the namespace of its scopes.
THEOREM RecordsInTheirNamespace == Spec => []RecordsListed
<1>1. IInv => RecordsListed
  <2> SUFFICES ASSUME IInv, NEW u \in done, NEW e \in Visits(u) PROVE RecordSeen(u, e, disk)
    BY DEF RecordsListed, RecordSeen
  <2> QED BY DEF IInv, DoneOK, Seen
<1> QED BY <1>1, Invariant, PTL

\* The json file of a source file has the calls between namespaces of its
\* functions, and no others.
THEOREM NamespaceCallsExact == Spec => []CallsExact
<1>1. IInv => CallsExact
  <2> SUFFICES ASSUME IInv PROVE CallsExact OBVIOUS
  <2>1. \A u \in done : \A e \in Visits(u) : CallSeen(u, e, disk) BY DEF IInv, DoneOK, Seen
  <2>2. \A x \in disk : x.rel \in {"calls", "called"} =>
          \E u \in program : \E e \in Visits(u) : CallBetween(u, e, x)
    BY DEF IInv, StoreOK
  <2> QED BY <2>1, <2>2 DEF CallsExact, CallSeen, CallBetween
<1> QED BY <1>1, Invariant, PTL

=============================================================================

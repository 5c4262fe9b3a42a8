---------------------------- MODULE MetricsProofs ----------------------------
(***************************************************************************)
(* Proofs about Metrics, for every set of files, entries and units.        *)
(***************************************************************************)
EXTENDS Metrics, FiniteSetTheorems, WellFoundedInduction, TLAPS

-----------------------------------------------------------------------------
(* Induction over finite sets, and the folds over them.                     *)

\* What holds of a set whenever it holds of those with one element less holds of
\* every subset of a finite set.
Hereditary(D, X) == \A T \in SUBSET D : (\A x \in T : T \ {x} \in X) => T \in X

LEMMA SubsetInduction ==
  ASSUME NEW D, IsFiniteSet(D), NEW X, Hereditary(D, X)
  PROVE  SUBSET D \subseteq X
<1> DEFINE B == (SUBSET D) \ X
           R == StrictSubsetOrdering(D)
<1> SUFFICES ASSUME B # {} PROVE FALSE
  OBVIOUS
<1>1. B \subseteq FiniteSubsetsOf(D)
  BY FS_Subset DEF FiniteSubsetsOf
<1>2. IsWellFoundedOn(R, FiniteSubsetsOf(D))
  BY FS_StrictSubsetOrderingWellFounded
<1> HIDE DEF B, R
<1>3. PICK T \in B : \A U \in B : <<U, T>> \notin R
  BY <1>1, <1>2, WFMin
<1>4. T \in SUBSET D /\ T \notin X
  BY DEF B
<1>5. PICK x \in T : T \ {x} \notin X
  BY <1>4 DEF Hereditary
<1>6. T \ {x} \in B
  BY <1>4, <1>5 DEF B
<1>7. <<T \ {x}, T>> \in R
  BY <1>4, <1>5 DEF R, StrictSubsetOrdering
<1> QED BY <1>3, <1>6, <1>7

\* The element a fold takes first.
First(s) == CHOOSE x \in s : TRUE

LEMMA FirstIn == ASSUME NEW s, s # {} PROVE First(s) \in s
BY DEF First

\* h gives each subset of D the fold of step over it.
IsFold(h, D, base, step) ==
  \A s \in SUBSET D :
    h[s] = IF s = {} THEN base ELSE step[<<First(s), h[s \ {First(s)}]>>]

LEMMA FoldExists ==
  ASSUME NEW D, IsFiniteSet(D), NEW R, NEW base \in R, NEW step \in [D \X R -> R]
  PROVE  \E h \in [SUBSET D -> R] : IsFold(h, D, base, step)
<1> DEFINE Rhs(h, s) == IF s = {} THEN base ELSE step[<<First(s), h[s \ {First(s)}]>>]
           Good(h, T) ==
             \A s \in SUBSET D : Cardinality(s) <= Cardinality(T) => h[s] = Rhs(h, s)
           X == {T \in SUBSET D : \E h \in [SUBSET D -> R] : Good(h, T)}
<1>1. \A s \in SUBSET D : \A h \in [SUBSET D -> R] : Rhs(h, s) \in R
  BY FirstIn
<1>2. \A s \in SUBSET D : IsFiniteSet(s) /\ Cardinality(s) \in Nat
  BY FS_Subset, FS_CardinalityType
<1>3. ASSUME NEW T \in SUBSET D, \A x \in T : T \ {x} \in X
      PROVE  T \in X
  <2>1. CASE T = {}
    <3> DEFINE h == [s \in SUBSET D |-> base]
    <3>1. \A s \in SUBSET D : Cardinality(s) <= Cardinality(T) => s = {}
      BY <1>2, <2>1, FS_EmptySet
    <3>2. h \in [SUBSET D -> R] /\ Good(h, T)
      BY <3>1
    <3> QED BY <3>2
  <2>2. CASE T # {}
    <3>1. PICK x \in T : T \ {x} \in X
      BY <1>3, <2>2
    <3>2. PICK h \in [SUBSET D -> R] : Good(h, T \ {x})
      BY <3>1
    <3> DEFINE g == [s \in SUBSET D |-> Rhs(h, s)]
    <3>3. g \in [SUBSET D -> R]
      BY <1>1
    <3>4. ASSUME NEW s \in SUBSET D, Cardinality(s) <= Cardinality(T)
          PROVE  g[s] = Rhs(g, s)
      <4>1. CASE s = {}
        BY <4>1
      <4>2. CASE s # {}
        <5>1. First(s) \in s /\ s \ {First(s)} \in SUBSET D
          BY <4>2, FirstIn
        <5>2. /\ Cardinality(s \ {First(s)}) = Cardinality(s) - 1
              /\ Cardinality(T \ {x}) = Cardinality(T) - 1
          BY <1>2, <5>1, FS_RemoveElement
        <5>3. Cardinality(s \ {First(s)}) <= Cardinality(T \ {x})
          BY <1>2, <3>4, <5>2
        <5>4. h[s \ {First(s)}] = Rhs(h, s \ {First(s)})
          BY <3>2, <5>1, <5>3
        <5>5. g[s \ {First(s)}] = h[s \ {First(s)}]
          BY <5>1, <5>4
        <5> QED BY <4>2, <5>5
      <4> QED BY <4>1, <4>2
    <3> QED BY <3>3, <3>4
  <2> QED BY <2>1, <2>2
<1>4. D \in X
  <2> HIDE DEF X
  <2> QED BY <1>3, SubsetInduction DEF Hereditary
<1>5. PICK h \in [SUBSET D -> R] : Good(h, D)
  BY <1>4
<1>6. \A s \in SUBSET D : Cardinality(s) <= Cardinality(D)
  BY FS_Subset
<1> QED BY <1>5, <1>6 DEF IsFold

\* The values of a fold whose steps are typed are typed.
LEMMA FoldType ==
  ASSUME NEW D, IsFiniteSet(D), NEW R, NEW k,
         \A s \in SUBSET D : (s # {} => k[s \ {First(s)}] \in R) => k[s] \in R
  PROVE  \A s \in SUBSET D : k[s] \in R
<1> DEFINE X == {s \in SUBSET D : k[s] \in R}
<1>1. ASSUME NEW T \in SUBSET D, \A x \in T : T \ {x} \in X
      PROVE  T \in X
  BY <1>1, FirstIn
<1>2. SUBSET D \subseteq X
  <2> HIDE DEF X
  <2> QED BY <1>1, SubsetInduction DEF Hereditary
<1> QED BY <1>2

-----------------------------------------------------------------------------
(* Sums.                                                                    *)

\* k gives the sum of g over each subset of its domain.
Sums(k, g) ==
  /\ IsFiniteSet(DOMAIN g) /\ g \in [DOMAIN g -> Nat]
  /\ k \in [SUBSET DOMAIN g -> Nat]
  /\ k[{}] = 0
  /\ \A s \in SUBSET DOMAIN g : s # {} => k[s] = g[First(s)] + k[s \ {First(s)}]

LEMMA SumFunctionIs ==
  ASSUME NEW D, IsFiniteSet(D), NEW g \in [D -> Nat]
  PROVE  \E k : Sums(k, g) /\ SumFunction(g) = k[D]
<1> DEFINE IsSum(k) ==
             k = [s \in SUBSET D |-> IF s = {} THEN 0 ELSE g[First(s)] + k[s \ {First(s)}]]
           step == [p \in D \X Nat |-> g[p[1]] + p[2]]
           k == CHOOSE h : IsSum(h)
<1>1. step \in [D \X Nat -> Nat]
  OBVIOUS
<1>2. \A x \in D : \A n \in Nat : step[<<x, n>>] = g[x] + n
  OBVIOUS
<1>3. PICK h \in [SUBSET D -> Nat] : IsFold(h, D, 0, step)
  <2> DEFINE N == Nat
  <2>1. step \in [D \X N -> N] /\ 0 \in N
    BY <1>1
  <2> HIDE DEF step, N
  <2>2. \E h \in [SUBSET D -> N] : IsFold(h, D, 0, step)
    BY <2>1, FoldExists, Zenon
  <2> QED BY <2>2 DEF N
<1>4. \A s \in SUBSET D : h[s] = IF s = {} THEN 0 ELSE g[First(s)] + h[s \ {First(s)}]
  <2> HIDE DEF step
  <2> QED BY <1>2, <1>3, FirstIn DEF IsFold
<1>5. IsSum(h)
  BY <1>4
<1>6. IsSum(k)
  <2> HIDE DEF IsSum
  <2> QED BY <1>5
<1>7. \A s \in SUBSET D : k[s] = IF s = {} THEN 0 ELSE g[First(s)] + k[s \ {First(s)}]
  <2> HIDE DEF k
  <2> QED BY <1>6
<1>8. \A s \in SUBSET D : k[s] \in Nat
  <2> DEFINE N == Nat
  <2> HIDE DEF k
  <2>1. \A s \in SUBSET D : (s # {} => k[s \ {First(s)}] \in N) => k[s] \in N
    <3>1. ASSUME NEW s \in SUBSET D, s # {} => k[s \ {First(s)}] \in Nat
          PROVE  k[s] \in Nat
      <4>1. CASE s = {}
        <5>1. k[s] = 0
          BY <1>7, <4>1
        <5> QED BY <5>1
      <4>2. CASE s # {}
        <5>1. First(s) \in D
          BY <4>2, FirstIn
        <5>2. g[First(s)] \in Nat /\ k[s] = g[First(s)] + k[s \ {First(s)}]
          BY <1>7, <4>2, <5>1
        <5> QED BY <3>1, <4>2, <5>2
      <4> QED BY <4>1, <4>2
    <3> QED BY <3>1
  <2> HIDE DEF N
  <2>2. \A s \in SUBSET D : k[s] \in N
    BY <2>1, FoldType, Zenon
  <2> QED BY <2>2 DEF N
<1>9. SumFunction(g) = k[D]
  BY DEF SumFunction, SumFunctionOnSet, FoldFunctionOnSet, MapThenFoldSet, First
<1>10. Sums(k, g)
  <2> HIDE DEF k
  <2> QED BY <1>6, <1>7, <1>8 DEF Sums
<1> QED BY <1>9, <1>10

\* The order does not matter.
Splits(k, g) == \A s \in SUBSET DOMAIN g : \A x \in s : k[s] = g[x] + k[s \ {x}]

LEMMA SumsSplit == ASSUME NEW k, NEW g, Sums(k, g) PROVE Splits(k, g)
<1> DEFINE D == DOMAIN g
           X == {s \in SUBSET D : \A x \in s : k[s] = g[x] + k[s \ {x}]}
<1>0. IsFiniteSet(D) /\ g \in [D -> Nat]
  BY DEF Sums
<1>1. ASSUME NEW T \in SUBSET D, \A x \in T : T \ {x} \in X
      PROVE  T \in X
  <2> SUFFICES ASSUME NEW x \in T PROVE k[T] = g[x] + k[T \ {x}]
    OBVIOUS
  <2> DEFINE y == First(T)
  <2>1. y \in T /\ k[T] = g[y] + k[T \ {y}]
    BY FirstIn DEF Sums
  <2>2. CASE x = y
    BY <2>1, <2>2
  <2>3. CASE x # y
    <3> HIDE DEF y
    <3>1. x \in T \ {y} /\ y \in T \ {x}
      BY <2>1, <2>3
    <3>2. k[T \ {y}] = g[x] + k[(T \ {y}) \ {x}]
      BY <1>1, <2>1, <3>1
    <3>3. k[T \ {x}] = g[y] + k[(T \ {x}) \ {y}]
      BY <1>1, <3>1
    <3>4. (T \ {y}) \ {x} = (T \ {x}) \ {y}
      OBVIOUS
    <3>5. g[x] \in Nat /\ g[y] \in Nat /\ k[(T \ {x}) \ {y}] \in Nat
      BY <1>0, <2>1 DEF Sums
    <3> DEFINE r == k[(T \ {x}) \ {y}]
    <3>6. k[T \ {y}] = g[x] + r
      BY <3>2, <3>4
    <3>7. r \in Nat /\ k[T \ {x}] = g[y] + r
      BY <3>3, <3>5
    <3> HIDE DEF r
    <3> QED BY <2>1, <3>5, <3>6, <3>7
  <2> QED BY <2>2, <2>3
<1>2. SUBSET D \subseteq X
  <2> HIDE DEF X, D
  <2> QED BY <1>0, <1>1, SubsetInduction DEF Hereditary
<1> QED BY <1>2 DEF Splits

\* A sum depends on what is added only.
LEMMA SumsAgree ==
  ASSUME NEW D, IsFiniteSet(D), NEW g, NEW f, D \subseteq DOMAIN g, D \subseteq DOMAIN f,
         \A x \in D : g[x] = f[x],
         NEW k, Sums(k, g), NEW h, Sums(h, f)
  PROVE  k[D] = h[D]
<1> DEFINE X == {s \in SUBSET D : k[s] = h[s]}
<1>1. ASSUME NEW T \in SUBSET D, \A x \in T : T \ {x} \in X
      PROVE  T \in X
  <2>1. CASE T = {}
    BY <2>1 DEF Sums
  <2>2. CASE T # {}
    <3> DEFINE x == First(T)
    <3>1. x \in T
      BY <2>2, FirstIn
    <3>2. k[T] = g[x] + k[T \ {x}] /\ h[T] = f[x] + h[T \ {x}]
      BY <2>2 DEF Sums
    <3>3. k[T \ {x}] = h[T \ {x}]
      BY <1>1, <3>1
    <3> HIDE DEF x
    <3> QED BY <3>1, <3>2, <3>3
  <2> QED BY <2>1, <2>2
<1>2. SUBSET D \subseteq X
  <2> HIDE DEF X
  <2> QED BY <1>1, SubsetInduction DEF Hereditary
<1> QED BY <1>2

LEMMA SumFunctionType ==
  ASSUME NEW D, IsFiniteSet(D), NEW g \in [D -> Nat]
  PROVE  SumFunction(g) \in Nat
<1>1. PICK k : Sums(k, g) /\ SumFunction(g) = k[D]
  BY SumFunctionIs
<1> QED BY <1>1 DEF Sums

LEMMA SumFunctionEmpty == ASSUME NEW g \in [{} -> Nat] PROVE SumFunction(g) = 0
BY SumFunctionIs, FS_EmptySet DEF Sums

LEMMA SumFunctionAdd ==
  ASSUME NEW D, IsFiniteSet(D), NEW x, x \notin D, NEW g \in [D \cup {x} -> Nat],
         NEW f \in [D -> Nat], \A y \in D : f[y] = g[y]
  PROVE  SumFunction(g) = g[x] + SumFunction(f)
<1>1. IsFiniteSet(D \cup {x})
  BY FS_AddElement
<1>2. PICK k : Sums(k, g) /\ SumFunction(g) = k[D \cup {x}]
  BY <1>1, SumFunctionIs
<1>3. PICK h : Sums(h, f) /\ SumFunction(f) = h[D]
  BY SumFunctionIs
<1>4. k[D \cup {x}] = g[x] + k[(D \cup {x}) \ {x}]
  <2>1. Splits(k, g)
    BY <1>2, SumsSplit
  <2> QED BY <2>1 DEF Splits
<1>5. (D \cup {x}) \ {x} = D
  OBVIOUS
<1>6. k[D] = h[D]
  BY <1>2, <1>3, SumsAgree
<1> QED BY <1>2, <1>3, <1>4, <1>5, <1>6

-----------------------------------------------------------------------------
(* Counting the entries of a file.                                          *)

Distinct(S) == \A x, y \in S : SameEntry(x, y) => x = y

\* The entries of a set, all of them read, have these lines.
LinesOf(S) == SumFunction([e \in S |-> LinesRead(e)])

OfKind(S, k) == {e \in S : e.kind = k}

\* The counters of F are those of its entries, all of them read.
Counted(F) ==
  /\ F \in File /\ IsFiniteSet(F.entries)
  /\ \A k \in Kinds : F.nb[k] = Cardinality(OfKind(F.entries, k))
  /\ F.lines = LinesOf(F.entries)

LEMMA LinesType ==
  ASSUME NEW e \in Entry
  PROVE  /\ LinesRead(e) \in Nat /\ LinesVisited(e) \in Nat
         /\ LinesRead(e) = IF e.lines = NoLines THEN LinesVisited(e) + 1 ELSE LinesVisited(e)
<1>1. e.lines \in Sizes \cup {NoLines} /\ Sizes \subseteq Nat
  BY MetricsAssumption DEF Entry
<1>2. CASE e.lines = NoLines
  BY <1>2 DEF LinesRead, LinesVisited
<1>3. CASE e.lines # NoLines
  BY <1>1, <1>3 DEF LinesRead, LinesVisited
<1> QED BY <1>2, <1>3

LEMMA LinesOfType ==
  ASSUME NEW S \in SUBSET Entry, IsFiniteSet(S)
  PROVE  LinesOf(S) \in Nat
<1> DEFINE g == [e \in S |-> LinesRead(e)]
<1>1. g \in [S -> Nat]
  BY LinesType
<1> HIDE DEF g
<1>2. SumFunction(g) \in Nat
  BY <1>1, SumFunctionType
<1> QED BY <1>2 DEF LinesOf, g

LEMMA LinesOfNone == LinesOf({}) = 0
<1> DEFINE g == [e \in {} |-> LinesRead(e)]
<1>1. g \in [{} -> Nat]
  OBVIOUS
<1> HIDE DEF g
<1>2. SumFunction(g) = 0
  BY <1>1, SumFunctionEmpty
<1> QED BY <1>2 DEF LinesOf, g

LEMMA LinesOfMore ==
  ASSUME NEW S \in SUBSET Entry, IsFiniteSet(S), NEW e \in Entry, e \notin S
  PROVE  LinesOf(S \cup {e}) = LinesOf(S) + LinesRead(e)
<1> DEFINE g == [x \in S \cup {e} |-> LinesRead(x)]
           f == [x \in S |-> LinesRead(x)]
<1>1. g \in [S \cup {e} -> Nat] /\ f \in [S -> Nat] /\ \A y \in S : f[y] = g[y]
  BY LinesType
<1>2. g[e] = LinesRead(e)
  OBVIOUS
<1> HIDE DEF g, f
<1>3. SumFunction(g) = g[e] + SumFunction(f)
  BY <1>1, SumFunctionAdd
<1>4. SumFunction(f) \in Nat
  BY <1>1, SumFunctionType
<1>5. LinesOf(S \cup {e}) = SumFunction(g) /\ LinesOf(S) = SumFunction(f)
  BY DEF LinesOf, g, f
<1> QED BY <1>2, <1>3, <1>4, <1>5, LinesType

\* An entry more of its kind, and as many as before of the others.
LEMMA OfKindMore ==
  ASSUME NEW S \in SUBSET Entry, IsFiniteSet(S), NEW e \in Entry, e \notin S, NEW k \in Kinds
  PROVE  /\ Cardinality(OfKind(S, k)) \in Nat
         /\ Cardinality(OfKind(S \cup {e}, k)) =
              Cardinality(OfKind(S, k)) + IF k = e.kind THEN 1 ELSE 0
<1>1. OfKind(S, k) \in SUBSET S
  BY DEF OfKind
<1>2. IsFiniteSet(OfKind(S, k)) /\ Cardinality(OfKind(S, k)) \in Nat
  BY <1>1, FS_Subset, FS_CardinalityType
<1>3. OfKind(S \cup {e}, k) = IF k = e.kind THEN OfKind(S, k) \cup {e} ELSE OfKind(S, k)
  BY DEF OfKind
<1>4. e \notin OfKind(S, k)
  BY DEF OfKind
<1>5. Cardinality(OfKind(S, k) \cup {e}) = Cardinality(OfKind(S, k)) + 1
  BY <1>2, <1>4, FS_AddElement
<1> QED BY <1>2, <1>3, <1>5

\* What the insertion of an entry of n lines does.
LEMMA AddIs ==
  ASSUME NEW F \in File, NEW e \in Entry, NEW n \in Nat
  PROVE  LET G == Add(F, e, n)
         IN \/ G = F /\ \E x \in F.entries : SameEntry(x, e)
            \/ /\ G \in File /\ e \notin F.entries /\ \A x \in F.entries : ~SameEntry(x, e)
               /\ G.entries = F.entries \cup {e} /\ G.lines = F.lines + n
               /\ \A k \in Kinds : G.nb[k] = F.nb[k] + IF k = e.kind THEN 1 ELSE 0
<1> DEFINE G == Add(F, e, n)
<1>1. CASE \E x \in F.entries : SameEntry(x, e)
  BY <1>1 DEF Add
<1>2. CASE \A x \in F.entries : ~SameEntry(x, e)
  <2>1. G = [entries |-> F.entries \cup {e}, nb |-> [F.nb EXCEPT ![e.kind] = @ + 1],
             lines |-> F.lines + n]
    BY <1>2 DEF Add
  <2>2. F.nb \in [Kinds -> Nat] /\ e.kind \in Kinds /\ F.lines \in Nat /\ F.entries \subseteq Entry
    BY DEF File, Entry
  <2>3. [F.nb EXCEPT ![e.kind] = @ + 1] \in [Kinds -> Nat]
    BY <2>2
  <2>4. G \in File
    BY <2>1, <2>2, <2>3 DEF File
  <2>5. e \notin F.entries
    BY <1>2 DEF SameEntry
  <2>6. \A k \in Kinds : G.nb[k] = F.nb[k] + IF k = e.kind THEN 1 ELSE 0
    BY <2>1, <2>2
  <2> QED BY <1>2, <2>1, <2>4, <2>5, <2>6
<1> QED BY <1>1, <1>2

LEMMA AddCounted ==
  ASSUME NEW F, Counted(F), NEW e \in Entry
  PROVE  Counted(Add(F, e, LinesRead(e)))
<1> DEFINE G == Add(F, e, LinesRead(e))
<1>1. F \in File /\ IsFiniteSet(F.entries) /\ F.entries \in SUBSET Entry /\ LinesRead(e) \in Nat
  BY LinesType DEF Counted, File
<1>2. \/ G = F
      \/ /\ G \in File /\ e \notin F.entries
         /\ G.entries = F.entries \cup {e} /\ G.lines = F.lines + LinesRead(e)
         /\ \A k \in Kinds : G.nb[k] = F.nb[k] + IF k = e.kind THEN 1 ELSE 0
  BY <1>1, AddIs
<1> HIDE DEF G
<1>3. CASE G = F
  BY <1>3 DEF G
<1>4. CASE G # F
  <2>1. IsFiniteSet(G.entries)
    BY <1>1, <1>2, <1>4, FS_AddElement
  <2>2. G.lines = LinesOf(G.entries)
    BY <1>1, <1>2, <1>4, LinesOfMore DEF Counted
  <2>3. \A k \in Kinds : G.nb[k] = Cardinality(OfKind(G.entries, k))
    BY <1>1, <1>2, <1>4, OfKindMore DEF Counted
  <2> QED BY <1>2, <1>4, <2>1, <2>2, <2>3 DEF Counted, G
<1> QED BY <1>3, <1>4

LEMMA EmptyCounted == Counted(EmptyFile)
<1>1. \A k \in Kinds : OfKind({}, k) = {}
  BY DEF OfKind
<1> QED BY <1>1, LinesOfNone, FS_EmptySet DEF Counted, EmptyFile, File

\* A file that is read has its entries, each counted.
LEMMA ParsedIs ==
  ASSUME NEW F \in File, IsFiniteSet(F.entries), Distinct(F.entries)
  PROVE  Counted(Parsed(F)) /\ Parsed(F).entries = F.entries
<1> DEFINE D == F.entries
           IsRead(k) ==
             k = [s \in SUBSET D |->
                    IF s = {} THEN EmptyFile
                    ELSE Add(k[s \ {First(s)}], First(s), LinesRead(First(s)))]
           step == [p \in D \X File |-> Add(p[2], p[1], LinesRead(p[1]))]
           k == CHOOSE h : IsRead(h)
<1>0. D \in SUBSET Entry /\ IsFiniteSet(D)
  BY DEF File
<1>1. step \in [D \X File -> File] /\ EmptyFile \in File
  BY <1>0, AddIs, LinesType, EmptyCounted DEF Counted
<1>2. \A x \in D : \A G \in File : step[<<x, G>>] = Add(G, x, LinesRead(x))
  OBVIOUS
<1>3. PICK h \in [SUBSET D -> File] : IsFold(h, D, EmptyFile, step)
  <2> HIDE DEF step, D
  <2> QED BY <1>0, <1>1, FoldExists
<1>4. \A s \in SUBSET D :
        h[s] = IF s = {} THEN EmptyFile
               ELSE Add(h[s \ {First(s)}], First(s), LinesRead(First(s)))
  <2> HIDE DEF step
  <2> QED BY <1>2, <1>3, FirstIn DEF IsFold
<1>5. IsRead(h)
  BY <1>4
<1>6. IsRead(k)
  <2> HIDE DEF IsRead
  <2> QED BY <1>5
<1>7. \A s \in SUBSET D :
        k[s] = IF s = {} THEN EmptyFile
               ELSE Add(k[s \ {First(s)}], First(s), LinesRead(First(s)))
  <2> HIDE DEF k
  <2> QED BY <1>6
<1>8. Parsed(F) = k[D]
  BY DEF Parsed, FoldSet, MapThenFoldSet, First
<1> HIDE DEF k
<1> DEFINE X == {s \in SUBSET D : Counted(k[s]) /\ k[s].entries = s}
<1>9. ASSUME NEW T \in SUBSET D, \A x \in T : T \ {x} \in X
      PROVE  T \in X
  <2>1. CASE T = {}
    <3>1. k[T] = EmptyFile
      BY <1>7, <2>1
    <3> QED BY <2>1, <3>1, EmptyCounted DEF EmptyFile
  <2>2. CASE T # {}
    <3> DEFINE x == First(T)
               G == k[T \ {x}]
    <3>1. x \in T /\ x \in Entry
      BY <1>0, <2>2, FirstIn
    <3>2. Counted(G) /\ G.entries = T \ {x}
      BY <1>9, <3>1
    <3>3. k[T] = Add(G, x, LinesRead(x))
      BY <1>7, <2>2
    <3> HIDE DEF x, G
    <3>4. Counted(k[T])
      BY <3>1, <3>2, <3>3, AddCounted
    <3>5. \A y \in G.entries : ~SameEntry(y, x)
      BY <3>1, <3>2 DEF Distinct
    <3>6. k[T].entries = G.entries \cup {x}
      BY <3>1, <3>2, <3>3, <3>5, AddIs, LinesType DEF Counted
    <3> QED BY <3>1, <3>2, <3>4, <3>6
  <2> QED BY <2>1, <2>2
<1>10. D \in X
  <2> HIDE DEF X, D
  <2>1. Hereditary(D, X)
    BY <1>9 DEF Hereditary
  <2>2. SUBSET D \subseteq X
    BY <1>0, <2>1, SubsetInduction
  <2> QED BY <2>2
<1> QED BY <1>8, <1>10

-----------------------------------------------------------------------------
(* Types.                                                                   *)

LEMMA EntryVisited ==
  ASSUME TypeOK, Traversing
  PROVE  unit \in Units /\ next \in 1 .. Len(Traversal[unit]) /\ Traversal[unit][next] \in Entry
BY MetricsAssumption DEF TypeOK, Traversing

LEMMA OpenWithType ==
  ASSUME NEW M, NEW F \in SUBSET Files
  PROVE  F \subseteq OpenWith(M, F) /\ OpenWith(M, F) \subseteq Files
BY DEF OpenWith

LEMMA ToOpenType ==
  ASSUME NEW F \in SUBSET Files
  PROVE  /\ ToOpen(F) \subseteq Files \ opened
         /\ F \subseteq opened \cup ToOpen(F)
BY OpenWithType DEF ToOpen

\* The sums of an analysis are numbers.
LEMMA TotalType ==
  ASSUME NEW M \in [Files -> File], NEW F \in SUBSET Files
  PROVE  Total(M, F) \in Totals
<1>1. IsFiniteSet(F) /\ IsFiniteSet(F \cap Headers) /\ IsFiniteSet(F \ Headers)
  BY MetricsAssumption, FS_Subset
<1>2. Cardinality(F) \in Nat /\ Cardinality(F \cap Headers) \in Nat /\ Cardinality(F \ Headers) \in Nat
  BY <1>1, FS_CardinalityType
<1>3. \A f \in F : M[f] \in File
  OBVIOUS
<1>4. \A k \in Kinds : SumFunction([f \in F |-> M[f].nb[k]]) \in Nat
  <2> TAKE k \in Kinds
  <2> DEFINE g == [f \in F |-> M[f].nb[k]]
  <2>1. g \in [F -> Nat]
    BY <1>3 DEF File
  <2> HIDE DEF g
  <2>2. SumFunction(g) \in Nat
    BY <1>1, <2>1, SumFunctionType
  <2> QED BY <2>2 DEF g
<1>5. SumFunction([f \in F |-> M[f].lines]) \in Nat
  <2> DEFINE g == [f \in F |-> M[f].lines]
  <2>1. g \in [F -> Nat]
    BY <1>3 DEF File
  <2> HIDE DEF g
  <2>2. SumFunction(g) \in Nat
    BY <1>1, <2>1, SumFunctionType
  <2> QED BY <2>2 DEF g
<1> QED BY <1>2, <1>4, <1>5 DEF Total, Totals

\* What is known of the entries of a file: there are finitely many, which belong
\* to the file, and no two of them are equal.
FileOK(f, F) ==
  /\ F \in File /\ IsFiniteSet(F.entries)
  /\ \A e \in F.entries : e.file = f
  /\ Distinct(F.entries)

FilesOK == \A f \in Files : FileOK(f, disk[f]) /\ FileOK(f, mem[f])

\* Entries registered by a process are in files it has opened.
CreatedOK == \A e \in created : e.file \in opened /\ e.lines = NoLines

\* Where the process is.
PhaseOK ==
  /\ unit = NoUnit => opened = {} /\ totals = NoTotals /\ created = {}
  /\ totals # NoTotals => unit # NoUnit /\ ~Traversing
  /\ written # {} => totals # NoTotals

TypeInv == TypeOK /\ FilesOK /\ CreatedOK /\ PhaseOK

LEMMA EmptyOK == ASSUME NEW f PROVE FileOK(f, EmptyFile)
BY EmptyCounted DEF Counted, FileOK, Distinct, EmptyFile

LEMMA ParsedOK ==
  ASSUME NEW f, NEW F, FileOK(f, F)
  PROVE  FileOK(f, Parsed(F)) /\ Counted(Parsed(F)) /\ Parsed(F).entries = F.entries
BY ParsedIs DEF FileOK, Counted

LEMMA AddOK ==
  ASSUME NEW e \in Entry, NEW F, FileOK(e.file, F), NEW n \in Nat
  PROVE  FileOK(e.file, Add(F, e, n))
<1> DEFINE G == Add(F, e, n)
<1>1. \/ G = F
      \/ /\ G \in File /\ e \notin F.entries /\ \A x \in F.entries : ~SameEntry(x, e)
         /\ G.entries = F.entries \cup {e}
  BY AddIs DEF FileOK
<1> HIDE DEF G
<1>2. CASE G = F
  BY <1>2 DEF G
<1>3. CASE G # F
  <2>1. IsFiniteSet(G.entries)
    BY <1>1, <1>3, FS_AddElement DEF FileOK
  <2>2. Distinct(G.entries)
    BY <1>1, <1>3 DEF FileOK, Distinct, SameEntry
  <2> QED BY <1>1, <1>3, <2>1, <2>2 DEF FileOK, G
<1> QED BY <1>2, <1>3

\* The memory once some files more are read.
LEMMA ReadingIs ==
  ASSUME TypeInv, NEW new \in SUBSET (Files \ opened)
  PROVE  LET M == Reading(mem, new)
         IN /\ M \in [Files -> File]
            /\ \A f \in Files : FileOK(f, M[f])
            /\ \A f \in new : Counted(M[f]) /\ M[f].entries = disk[f].entries
            /\ \A f \in Files \ new : M[f] = mem[f]
<1>1. \A f \in new : FileOK(f, Parsed(disk[f])) /\ Counted(Parsed(disk[f]))
                     /\ Parsed(disk[f]).entries = disk[f].entries
  BY ParsedOK DEF TypeInv, FilesOK
<1>2. \A f \in Files : FileOK(f, mem[f])
  BY DEF TypeInv, FilesOK
<1> QED BY <1>1, <1>2 DEF Reading, FileOK

LEMMA TypeStep == TypeInv /\ [Next]_vars => TypeInv'
<1> SUFFICES ASSUME TypeInv, [Next]_vars PROVE TypeInv'
  OBVIOUS
<1> USE DEF TypeInv
<1>1. CASE UNCHANGED vars
  BY <1>1 DEF vars, TypeOK, FilesOK, CreatedOK, PhaseOK, Traversing
<1>2. ASSUME NEW u \in Units, Start(u) PROVE TypeInv'
  <2> DEFINE new == ToOpen({Main[u]})
             M == Reading(mem, new)
  <2>1. Main[u] \in Files /\ u # NoUnit
    BY MetricsAssumption
  <2>2. new \in SUBSET (Files \ opened)
    BY <2>1, ToOpenType
  <2>3. /\ M \in [Files -> File]
        /\ \A f \in Files : FileOK(f, M[f])
        /\ \A f \in Files \ new : M[f] = mem[f]
    BY <2>2, ReadingIs
  <2>4. /\ opened' = new /\ mem' = M /\ unit' = u /\ next' = 1 /\ opened = {} /\ unit = NoUnit
        /\ UNCHANGED <<disk, totals, written, created, last>>
    BY <1>2 DEF Start, PhaseOK
  <2> HIDE DEF new, M
  <2>5. TypeOK'
    BY <2>2, <2>3, <2>4 DEF TypeOK
  <2>6. FilesOK' /\ CreatedOK' /\ PhaseOK'
    BY <2>1, <2>3, <2>4 DEF FilesOK, CreatedOK, PhaseOK
  <2> QED BY <2>5, <2>6
<1>3. CASE Register
  <2> DEFINE e == Traversal[unit][next]
             new == ToOpen({e.file, e.decl})
             M == Reading(mem, new)
             G == Add(M[e.file], e, LinesVisited(e))
  <2>1. e \in Entry /\ e.file \in Files /\ e.decl \in Files /\ Traversing
    BY <1>3, EntryVisited DEF Register, Entry
  <2>2. new \in SUBSET (Files \ opened) /\ e.file \in opened \cup new
    BY <2>1, ToOpenType
  <2>3. /\ M \in [Files -> File]
        /\ \A f \in Files : FileOK(f, M[f])
        /\ \A f \in Files \ new : M[f] = mem[f]
    BY <2>2, ReadingIs
  <2>4. /\ opened' = opened \cup new /\ mem' = [M EXCEPT ![e.file] = G]
        /\ created' \in {created, created \cup {e}}
        /\ created' = created \/ e.lines = NoLines
        /\ next' = next + 1
        /\ UNCHANGED <<disk, unit, totals, written, last>>
    BY <1>3 DEF Register
  <2>5. FileOK(e.file, G)
    BY <2>1, <2>3, AddOK, LinesType
  <2>6. written = {} /\ totals = NoTotals /\ unit # NoUnit
    BY <2>1 DEF PhaseOK, Traversing
  <2> HIDE DEF new, M, e, G
  <2>7. mem' \in [Files -> File]
    BY <2>1, <2>3, <2>4, <2>5 DEF FileOK
  <2>8. TypeOK'
    BY <2>1, <2>2, <2>3, <2>4, <2>6, <2>7 DEF TypeOK
  <2>9. FilesOK'
    BY <2>1, <2>3, <2>4, <2>5 DEF FilesOK
  <2>10. CreatedOK'
    BY <2>2, <2>4 DEF CreatedOK
  <2>11. PhaseOK'
    BY <2>4, <2>6 DEF PhaseOK
  <2> QED BY <2>8, <2>9, <2>10, <2>11
<1>4. CASE UpdateMetrics
  <2>1. Total(mem, opened) \in Totals
    BY TotalType DEF TypeOK
  <2>2. TypeOK'
    BY <1>4, <2>1 DEF UpdateMetrics, TypeOK
  <2>3. PhaseOK'
    BY <1>4 DEF UpdateMetrics, PhaseOK, Traversing
  <2> QED BY <1>4, <2>2, <2>3 DEF UpdateMetrics, FilesOK, CreatedOK
<1>5. ASSUME NEW f \in Files, Rewrite(f) PROVE TypeInv'
  <2>1. mem[f] \in File
    BY DEF TypeOK
  <2>2. TypeOK'
    BY <1>5, <2>1 DEF Rewrite, TypeOK
  <2>3. FilesOK'
    BY <1>5 DEF Rewrite, FilesOK, TypeOK
  <2> QED BY <1>5, <2>2, <2>3 DEF Rewrite, CreatedOK, PhaseOK, Traversing
<1>6. ASSUME End, UNCHANGED disk, last' \in {NoLast, [unit |-> unit, totals |-> totals, created |-> created]}
      PROVE  TypeInv'
  <2>1. EmptyFile \in File
    BY EmptyCounted DEF Counted
  <2>2. TypeOK'
    BY <1>6, <2>1 DEF End, TypeOK, NoLast
  <2>3. FilesOK'
    BY <1>6, EmptyOK DEF End, FilesOK
  <2> QED BY <1>6, <2>2, <2>3 DEF End, CreatedOK, PhaseOK
<1> QED BY <1>1, <1>2, <1>3, <1>4, <1>5, <1>6 DEF Next, OutputMetrics, Stop

LEMMA TypeInit == Init => TypeInv
<1> SUFFICES ASSUME Init PROVE TypeInv
  OBVIOUS
<1>1. EmptyFile \in File
  BY EmptyCounted DEF Counted
<1> QED BY <1>1, EmptyOK DEF Init, TypeInv, TypeOK, FilesOK, CreatedOK, PhaseOK, NoLast

\* The files keep their types, an analysis has in memory only the files it has
\* opened, and what it rewrites is what it has in memory (TypeOK).
THEOREM TypeCorrect == Spec => []TypeOK
<1>1. TypeInv => TypeOK
  BY DEF TypeInv
<1> QED BY TypeInit, TypeStep, <1>1, PTL DEF Spec

-----------------------------------------------------------------------------
(* Counters.                                                                *)

LEMMA ExactIs ==
  ASSUME NEW F, NEW own
  PROVE  Exact(F, own) <=>
           /\ \A k \in Kinds : F.nb[k] = Cardinality(OfKind(F.entries, k))
           /\ F.lines + Cardinality(own \cap F.entries) = LinesOf(F.entries)
BY DEF Exact, OfKind, LinesOf

\* A file none of whose entries is the process's own is exact if each is counted.
LEMMA CountedExact ==
  ASSUME NEW F, NEW own, Counted(F), own \cap F.entries = {}
  PROVE  Exact(F, own)
<1>1. Cardinality(own \cap F.entries) = 0 /\ F.lines \in Nat
  BY FS_EmptySet DEF Counted, File
<1>2. F.lines + Cardinality(own \cap F.entries) = LinesOf(F.entries)
  BY <1>1 DEF Counted
<1>3. \A k \in Kinds : F.nb[k] = Cardinality(OfKind(F.entries, k))
  BY DEF Counted
<1> QED BY <1>2, <1>3, ExactIs

\* What a file counts depends on the process's own entries of this file only.
LEMMA ExactOwn ==
  ASSUME NEW F, NEW own, NEW other, Exact(F, own), own \cap F.entries = other \cap F.entries
  PROVE  Exact(F, other)
BY ExactIs

\* A visit counts its entry if it is not there, and no line for a record that has
\* none, which is then the process's own.
LEMMA VisitExact ==
  ASSUME NEW F, NEW e \in Entry, FileOK(e.file, F), NEW own, Exact(F, own),
         \A x \in own : x.lines = NoLines,
         NEW G, G = Add(F, e, LinesVisited(e))
  PROVE  Exact(G, IF e.lines = NoLines /\ G # F THEN own \cup {e} ELSE own)
<1> DEFINE new == IF e.lines = NoLines /\ G # F THEN own \cup {e} ELSE own
           n == LinesVisited(e)
<1>1. /\ F \in File /\ IsFiniteSet(F.entries) /\ F.entries \in SUBSET Entry /\ F.lines \in Nat
      /\ n \in Nat
  BY LinesType DEF FileOK, File
<1>2. \/ G = F
      \/ /\ e \notin F.entries
         /\ G.entries = F.entries \cup {e} /\ G.lines = F.lines + n
         /\ \A k \in Kinds : G.nb[k] = F.nb[k] + IF k = e.kind THEN 1 ELSE 0
  BY <1>1, AddIs
<1>3. CASE G = F
  BY <1>3
<1>4. CASE G # F
  <2>0. \A k \in Kinds : F.nb[k] = Cardinality(OfKind(F.entries, k))
    BY ExactIs
  <2>1. \A k \in Kinds : G.nb[k] = Cardinality(OfKind(G.entries, k))
    BY <1>1, <1>2, <1>4, <2>0, OfKindMore
  <2>2. LinesOf(G.entries) = LinesOf(F.entries) + LinesRead(e)
    BY <1>1, <1>2, <1>4, LinesOfMore
  <2>3. IsFiniteSet(own \cap F.entries) /\ Cardinality(own \cap F.entries) \in Nat
    BY <1>1, FS_Intersection, FS_CardinalityType
  <2>4. F.lines + Cardinality(own \cap F.entries) = LinesOf(F.entries)
    BY ExactIs
  <2>5. CASE e.lines = NoLines
    <3>1. new \cap G.entries = (own \cap F.entries) \cup {e}
      BY <1>2, <1>4, <2>5
    <3>2. Cardinality((own \cap F.entries) \cup {e}) = Cardinality(own \cap F.entries) + 1
      BY <1>2, <1>4, <2>3, FS_AddElement
    <3>3. G.lines + Cardinality(new \cap G.entries) = LinesOf(G.entries)
      <4>1. LinesRead(e) = n + 1
        BY <2>5, LinesType
      <4>2. LinesOf(G.entries) = F.lines + Cardinality(own \cap F.entries) + (n + 1)
        BY <2>2, <2>4, <4>1
      <4>3. Cardinality(new \cap G.entries) = Cardinality(own \cap F.entries) + 1
        BY <3>1, <3>2
      <4> HIDE DEF new, n
      <4> QED BY <1>1, <1>2, <1>4, <2>3, <4>2, <4>3
    <3> QED BY <2>1, <3>3, ExactIs
  <2>6. CASE e.lines # NoLines
    <3>1. new \cap G.entries = own \cap F.entries
      BY <1>2, <1>4, <2>6
    <3>2. LinesRead(e) = n
      BY <2>6, LinesType
    <3>3. G.lines + Cardinality(new \cap G.entries) = LinesOf(G.entries)
      <4>1. LinesOf(G.entries) = F.lines + Cardinality(own \cap F.entries) + n
        BY <2>2, <2>4, <3>2
      <4>2. Cardinality(new \cap G.entries) = Cardinality(own \cap F.entries)
        BY <3>1
      <4> HIDE DEF new, n
      <4> QED BY <1>1, <1>2, <1>4, <2>3, <4>1, <4>2
    <3> QED BY <2>1, <3>3, ExactIs
  <2> QED BY <2>5, <2>6
<1> QED BY <1>3, <1>4

LEMMA EmptyExact == ASSUME NEW own PROVE Exact(EmptyFile, own)
BY EmptyCounted, CountedExact DEF EmptyFile

CountersInv == TypeInv /\ CountersExact

\* The files that are read count each of their entries.
LEMMA ReadingExact ==
  ASSUME CountersInv, NEW new \in SUBSET (Files \ opened)
  PROVE  \A f \in Files : Exact(Reading(mem, new)[f], created)
<1> DEFINE M == Reading(mem, new)
<1>1. \A f \in new : Counted(M[f]) /\ M[f].entries = disk[f].entries
  BY ReadingIs DEF CountersInv
<1>2. \A f \in Files \ new : M[f] = mem[f]
  BY ReadingIs DEF CountersInv
<1> HIDE DEF M
<1>3. ASSUME NEW f \in new PROVE Exact(M[f], created)
  <2>1. \A x \in disk[f].entries : x.file = f
    BY DEF CountersInv, TypeInv, FilesOK, FileOK
  <2>2. created \cap M[f].entries = {}
    BY <1>1, <2>1 DEF CountersInv, TypeInv, CreatedOK
  <2> QED BY <1>1, <2>2, CountedExact
<1>4. ASSUME NEW f \in Files \ new PROVE Exact(M[f], created)
  BY <1>2 DEF CountersInv, CountersExact
<1> QED BY <1>3, <1>4 DEF M

LEMMA CountersStep == CountersInv /\ [Next]_vars => CountersInv'
<1> SUFFICES ASSUME CountersInv, [Next]_vars PROVE CountersInv'
  OBVIOUS
<1>0. TypeInv'
  BY TypeStep DEF CountersInv
<1>1. CASE UNCHANGED <<mem, created>>
  BY <1>0, <1>1 DEF CountersInv, CountersExact
<1>2. ASSUME NEW u \in Units, Start(u) PROVE CountersExact'
  <2> DEFINE new == ToOpen({Main[u]})
  <2>1. new \in SUBSET (Files \ opened)
    BY MetricsAssumption, ToOpenType
  <2>2. mem' = Reading(mem, new) /\ created' = created
    BY <1>2 DEF Start
  <2> HIDE DEF new
  <2> QED BY <2>1, <2>2, ReadingExact DEF CountersExact
<1>3. CASE Register
  <2> DEFINE e == Traversal[unit][next]
             new == ToOpen({e.file, e.decl})
             M == Reading(mem, new)
             G == Add(M[e.file], e, LinesVisited(e))
  <2>1. e \in Entry /\ e.file \in Files /\ e.decl \in Files
    BY <1>3, EntryVisited DEF Register, Entry, CountersInv, TypeInv
  <2>2. new \in SUBSET (Files \ opened)
    BY <2>1, ToOpenType
  <2>3. \A f \in Files : Exact(M[f], created)
    BY <2>2, ReadingExact
  <2>4. M \in [Files -> File] /\ \A f \in Files : FileOK(f, M[f])
    BY <2>2, ReadingIs DEF CountersInv
  <2>5. mem' = [M EXCEPT ![e.file] = G]
    BY <1>3 DEF Register
  <2>6. created' = IF e.lines = NoLines /\ mem'[e.file] # M[e.file]
                   THEN created \cup {e} ELSE created
    BY <1>3 DEF Register
  <2>7. Exact(G, IF e.lines = NoLines /\ G # M[e.file] THEN created \cup {e} ELSE created)
    <3>1. \A x \in created : x.lines = NoLines
      BY DEF CountersInv, TypeInv, CreatedOK
    <3>2. FileOK(e.file, M[e.file]) /\ Exact(M[e.file], created)
      BY <2>1, <2>3, <2>4
    <3> HIDE DEF e, M
    <3> QED BY <2>1, <3>1, <3>2, VisitExact
  <2> HIDE DEF e, new, M, G
  <2>8. mem'[e.file] = G /\ \A f \in Files : f # e.file => mem'[f] = M[f]
    BY <2>1, <2>4, <2>5
  <2>9. Exact(mem'[e.file], created')
    BY <2>6, <2>7, <2>8
  <2>10. ASSUME NEW f \in Files, f # e.file PROVE Exact(mem'[f], created')
    <3>1. mem'[f] = M[f] /\ \A x \in M[f].entries : x.file = f
      BY <2>4, <2>8, <2>10 DEF FileOK
    <3>2. created \cap M[f].entries = created' \cap M[f].entries
      BY <2>6, <2>10, <3>1
    <3> QED BY <2>3, <3>1, <3>2, ExactOwn
  <2> QED BY <1>0, <2>9, <2>10 DEF CountersExact, CountersInv
<1>4. ASSUME End PROVE CountersExact'
  BY <1>4, EmptyExact DEF End, CountersExact
<1>5. CASE UNCHANGED vars \/ UpdateMetrics \/ \E f \in Files : Rewrite(f)
  BY <1>1, <1>5 DEF vars, UpdateMetrics, Rewrite
<1> QED BY <1>0, <1>2, <1>3, <1>4, <1>5 DEF Next, OutputMetrics, Stop, CountersInv

\* The program's assertions on its counters never fail: they are the sizes of the
\* sets, and the lines those of the entries, for every number of analyses, in
\* any order, stopped anywhere (CountersExact).
THEOREM Counting == Spec => []CountersExact
<1>1. Init => CountersInv
  BY TypeInit, EmptyExact DEF Init, CountersInv, CountersExact
<1>2. CountersInv => CountersExact
  BY DEF CountersInv
<1> QED BY <1>1, <1>2, CountersStep, PTL DEF Spec

-----------------------------------------------------------------------------
(* Totals.                                                                  *)

TotalsInv == TypeInv /\ (totals # NoTotals => totals = Total(mem, opened))

LEMMA TotalsStep == TotalsInv /\ [Next]_vars => TotalsInv'
<1> SUFFICES ASSUME TotalsInv, [Next]_vars PROVE TotalsInv'
  OBVIOUS
<1>0. TypeInv /\ TypeInv'
  BY TypeStep DEF TotalsInv
<1>1. CASE UNCHANGED <<mem, opened, totals>>
  BY <1>0, <1>1 DEF TotalsInv
<1>2. ASSUME NEW u \in Units, Start(u) PROVE totals' = NoTotals
  BY <1>0, <1>2 DEF Start, TypeInv, PhaseOK
<1>3. CASE Register
  BY <1>0, <1>3 DEF Register, TypeInv, PhaseOK, TotalsInv
<1>4. CASE UpdateMetrics
  BY <1>0, <1>4 DEF UpdateMetrics, TotalsInv
<1>5. CASE UNCHANGED vars \/ \E f \in Files : Rewrite(f)
  BY <1>1, <1>5 DEF vars, Rewrite
<1>6. ASSUME End PROVE totals' = NoTotals
  BY <1>6 DEF End
<1> QED BY <1>0, <1>2, <1>3, <1>4, <1>5, <1>6 DEF Next, OutputMetrics, Stop, TotalsInv

\* Files that are the same give the same totals.
LEMMA SameTotal ==
  ASSUME NEW F, NEW M, NEW N, \A f \in F : M[f] = N[f]
  PROVE  Total(M, F) = Total(N, F)
<1>1. \A k \in Kinds : [f \in F |-> M[f].nb[k]] = [f \in F |-> N[f].nb[k]]
  OBVIOUS
<1>2. [f \in F |-> M[f].lines] = [f \in F |-> N[f].lines]
  OBVIOUS
<1>3. [k \in Kinds |-> SumFunction([f \in F |-> M[f].nb[k]])]
        = [k \in Kinds |-> SumFunction([f \in F |-> N[f].nb[k]])]
  BY <1>1
<1> QED BY <1>2, <1>3 DEF Total

\* What an analysis prints is what its json files say once it has rewritten them
\* all (TotalsWritten).
THEOREM TotalsAgree == Spec => []TotalsWritten
<1>1. Init => TotalsInv
  BY TypeInit DEF Init, TotalsInv
<1>2. TotalsInv => TotalsWritten
  <2> SUFFICES ASSUME TotalsInv, totals # NoTotals, written = opened
               PROVE  totals = Total(disk, opened)
    BY DEF TotalsWritten
  <2>1. totals = Total(mem, opened) /\ \A f \in opened : disk[f] = mem[f]
    BY DEF TotalsInv, TypeInv, TypeOK
  <2> QED BY <2>1, SameTotal
<1> QED BY <1>1, <1>2, TotalsStep, PTL DEF Spec

-----------------------------------------------------------------------------
(* Counters never decrease.  The lines of a json file may be less than those *)
(* of its entries, and those in memory less than what is read next.          *)

NoLess(F, G) == F.lines <= G.lines /\ \A k \in Kinds : F.nb[k] <= G.nb[k]

DiskCounted ==
  \A f \in Files : /\ \A k \in Kinds : disk[f].nb[k] = Cardinality(OfKind(disk[f].entries, k))
                   /\ disk[f].lines <= LinesOf(disk[f].entries)

Grown == \A f \in opened : NoLess(disk[f], mem[f])

GrowInv == CountersInv /\ DiskCounted /\ Grown

LEMMA AddNoLess ==
  ASSUME NEW F \in File, NEW G \in File, NEW e \in Entry, NEW n \in Nat, NoLess(F, G)
  PROVE  NoLess(F, Add(G, e, n))
<1> DEFINE H == Add(G, e, n)
<1>1. \/ H = G
      \/ H.lines = G.lines + n /\ \A k \in Kinds : H.nb[k] = G.nb[k] + IF k = e.kind THEN 1 ELSE 0
  BY AddIs
<1>2. F.lines \in Nat /\ G.lines \in Nat /\ \A k \in Kinds : F.nb[k] \in Nat /\ G.nb[k] \in Nat
  BY DEF File
<1> HIDE DEF H
<1>3. NoLess(F, H)
  BY <1>1, <1>2 DEF NoLess
<1> QED BY <1>3 DEF H

LEMMA ReadingNoLess ==
  ASSUME GrowInv, NEW new \in SUBSET (Files \ opened)
  PROVE  \A f \in opened \cup new : NoLess(disk[f], Reading(mem, new)[f])
<1> DEFINE M == Reading(mem, new)
<1>1. /\ \A f \in new : Counted(M[f]) /\ M[f].entries = disk[f].entries
      /\ \A f \in Files \ new : M[f] = mem[f]
  BY ReadingIs DEF GrowInv, CountersInv
<1>2. opened \subseteq Files /\ \A f \in Files : disk[f] \in File
  BY DEF GrowInv, CountersInv, TypeInv, TypeOK
<1> HIDE DEF M
<1>3. ASSUME NEW f \in new PROVE NoLess(disk[f], M[f])
  <2>1. \A k \in Kinds : disk[f].nb[k] = M[f].nb[k] /\ disk[f].nb[k] \in Nat
    BY <1>1, <1>2 DEF GrowInv, DiskCounted, Counted, File
  <2>2. disk[f].lines <= M[f].lines
    BY <1>1 DEF GrowInv, DiskCounted, Counted
  <2> QED BY <2>1, <2>2 DEF NoLess
<1>4. ASSUME NEW f \in opened PROVE NoLess(disk[f], M[f])
  BY <1>1, <1>2 DEF GrowInv, Grown
<1> QED BY <1>3, <1>4 DEF M

LEMMA GrowStep == GrowInv /\ [Next]_vars => GrowInv'
<1> SUFFICES ASSUME GrowInv, [Next]_vars PROVE DiskCounted' /\ Grown'
  BY CountersStep DEF GrowInv
<1>0. TypeOK /\ FilesOK
  BY DEF GrowInv, CountersInv, TypeInv
<1>1. CASE UNCHANGED <<disk, mem, opened>>
  BY <1>1 DEF GrowInv, DiskCounted, Grown
<1>2. ASSUME NEW u \in Units, Start(u) PROVE DiskCounted' /\ Grown'
  <2> DEFINE new == ToOpen({Main[u]})
  <2>1. new \in SUBSET (Files \ opened)
    BY MetricsAssumption, ToOpenType
  <2>2. mem' = Reading(mem, new) /\ opened' = new /\ disk' = disk
    BY <1>2 DEF Start
  <2> HIDE DEF new
  <2>3. Grown'
    BY <2>1, <2>2, ReadingNoLess DEF Grown
  <2> QED BY <2>2, <2>3 DEF GrowInv, DiskCounted
<1>3. CASE Register
  <2> DEFINE e == Traversal[unit][next]
             new == ToOpen({e.file, e.decl})
             M == Reading(mem, new)
             G == Add(M[e.file], e, LinesVisited(e))
  <2>1. e \in Entry /\ e.file \in Files /\ e.decl \in Files
    BY <1>0, <1>3, EntryVisited DEF Register, Entry
  <2>2. new \in SUBSET (Files \ opened)
    BY <2>1, ToOpenType
  <2>3. \A f \in opened \cup new : NoLess(disk[f], M[f])
    BY <2>2, ReadingNoLess
  <2>4. M \in [Files -> File]
    BY <2>2, ReadingIs DEF GrowInv, CountersInv
  <2>5. mem' = [M EXCEPT ![e.file] = G] /\ opened' = opened \cup new /\ disk' = disk
    BY <1>3 DEF Register
  <2>6. opened \cup new \subseteq Files /\ \A f \in Files : disk[f] \in File
    BY <1>0, <2>2 DEF TypeOK
  <2>7. ASSUME NEW f \in opened \cup new PROVE NoLess(disk[f], mem'[f])
    <3>1. CASE f = e.file
      <4>1. mem'[f] = G /\ NoLess(disk[f], M[e.file]) /\ M[e.file] \in File /\ disk[f] \in File
        BY <2>1, <2>3, <2>4, <2>5, <2>6, <3>1
      <4>2. LinesVisited(e) \in Nat
        BY <2>1, LinesType
      <4> HIDE DEF M, e
      <4> QED BY <2>1, <4>1, <4>2, AddNoLess
    <3>2. CASE f # e.file
      BY <2>3, <2>4, <2>5, <2>6, <3>2
    <3> QED BY <3>1, <3>2
  <2> HIDE DEF e, new, M, G
  <2> QED BY <2>5, <2>7 DEF GrowInv, DiskCounted, Grown
<1>4. ASSUME NEW f \in Files, Rewrite(f) PROVE DiskCounted' /\ Grown'
  <2>1. /\ mem[f] \in File /\ IsFiniteSet(mem[f].entries) /\ f \in opened
        /\ disk' = [disk EXCEPT ![f] = mem[f]] /\ UNCHANGED <<mem, opened>>
    BY <1>0, <1>4 DEF Rewrite, FilesOK, FileOK
  <2>2. /\ \A k \in Kinds : mem[f].nb[k] = Cardinality(OfKind(mem[f].entries, k))
        /\ mem[f].lines + Cardinality(created \cap mem[f].entries) = LinesOf(mem[f].entries)
    BY ExactIs DEF GrowInv, CountersInv, CountersExact
  <2>3. Cardinality(created \cap mem[f].entries) \in Nat /\ mem[f].lines \in Nat
    BY <2>1, FS_Intersection, FS_CardinalityType DEF File
  <2>4. mem[f].lines <= LinesOf(mem[f].entries)
    BY <2>2, <2>3
  <2>5. DiskCounted'
    BY <1>0, <2>1, <2>2, <2>4 DEF GrowInv, DiskCounted, TypeOK
  <2>6. NoLess(mem[f], mem[f])
    BY <2>1 DEF NoLess, File
  <2>7. Grown'
    BY <1>0, <2>1, <2>6 DEF GrowInv, Grown, TypeOK
  <2> QED BY <2>5, <2>7
<1>5. ASSUME End, UNCHANGED disk PROVE DiskCounted' /\ Grown'
  BY <1>5 DEF End, GrowInv, DiskCounted, Grown
<1>6. CASE UNCHANGED vars \/ UpdateMetrics
  BY <1>1, <1>6 DEF vars, UpdateMetrics
<1> QED BY <1>2, <1>3, <1>4, <1>5, <1>6 DEF Next, OutputMetrics, Stop

\* A step that changes a json file rewrites it with what is in memory.
LEMMA NeverLessStep ==
  GrowInv /\ [Next]_vars =>
    [\A f \in Files : /\ disk[f].lines <= disk'[f].lines
                      /\ \A k \in Kinds : disk[f].nb[k] <= disk'[f].nb[k]]_vars
<1> SUFFICES ASSUME GrowInv, Next, NEW f \in Files PROVE NoLess(disk[f], disk'[f])
  BY DEF NoLess
<1>1. TypeOK /\ disk[f] \in File
  BY DEF GrowInv, CountersInv, TypeInv, TypeOK
<1>2. NoLess(disk[f], disk[f])
  BY <1>1 DEF NoLess, File
<1>3. CASE UNCHANGED disk
  BY <1>2, <1>3
<1>4. ASSUME NEW g \in Files, Rewrite(g) PROVE NoLess(disk[f], disk'[f])
  BY <1>1, <1>2, <1>4 DEF Rewrite, GrowInv, Grown, TypeOK
<1> QED BY <1>3, <1>4 DEF Next, Start, Register, UpdateMetrics, OutputMetrics, Stop

\* What a json file counts is never less than before, whatever is analysed again
\* or stopped (NeverLess).
THEOREM Growing == Spec => NeverLess
<1>1. Init => GrowInv
  <2> SUFFICES ASSUME Init PROVE GrowInv
    OBVIOUS
  <2>1. CountersInv
    BY TypeInit, EmptyExact DEF Init, CountersInv, CountersExact
  <2>2. \A f \in Files : disk[f] = EmptyFile
    BY DEF Init
  <2>3. DiskCounted
    BY <2>2, EmptyCounted DEF DiskCounted, Counted, File
  <2> QED BY <2>1, <2>3 DEF Init, GrowInv, Grown
<1> QED BY <1>1, GrowStep, NeverLessStep, PTL DEF Spec, NeverLess

-----------------------------------------------------------------------------
(* The files an analysis opens.                                             *)

\* Whatever is defined in the files of S is declared in them.
Closed(M, S) == \A g \in S : \A e \in M[g].entries : e.kind = "defined" => e.decl \in S

LEMMA OpenWithLeast ==
  ASSUME NEW M, NEW F, NEW S \in SUBSET Files, F \subseteq S, Closed(M, S)
  PROVE  OpenWith(M, F) \subseteq S
BY DEF OpenWith, Closed

LEMMA OpenWithClosed ==
  ASSUME NEW M, NEW F \in SUBSET Files, \A f \in Files : M[f].entries \subseteq Entry
  PROVE  Closed(M, OpenWith(M, F))
<1> SUFFICES ASSUME NEW g \in OpenWith(M, F), NEW e \in M[g].entries, e.kind = "defined",
                    NEW S \in SUBSET Files, F \subseteq S, Closed(M, S)
             PROVE  e.decl \in S
  <2>1. \A g \in OpenWith(M, F) : \A e \in M[g].entries : e.decl \in Files
    BY DEF OpenWith, Entry
  <2> QED BY <2>1 DEF Closed, OpenWith
<1>1. g \in S
  BY OpenWithLeast
<1> QED BY <1>1 DEF Closed

\* Files opened one after the other, or together.
LEMMA OpenWithUnion ==
  ASSUME NEW M, \A f \in Files : M[f].entries \subseteq Entry,
         NEW F \in SUBSET Files, NEW G \in SUBSET Files
  PROVE  OpenWith(M, F \cup G) = OpenWith(M, F) \cup OpenWith(M, G)
<1> DEFINE A == OpenWith(M, F)
           B == OpenWith(M, G)
           C == OpenWith(M, F \cup G)
<1>1. /\ F \subseteq A /\ A \subseteq Files /\ G \subseteq B /\ B \subseteq Files
      /\ F \cup G \subseteq C /\ C \subseteq Files
  BY OpenWithType
<1>2. Closed(M, A) /\ Closed(M, B) /\ Closed(M, C)
  BY OpenWithClosed
<1>3. A \subseteq C /\ B \subseteq C
  BY <1>1, <1>2, OpenWithLeast
<1> HIDE DEF A, B
<1>4. Closed(M, A \cup B)
  BY <1>2 DEF Closed
<1>5. C \subseteq A \cup B
  BY <1>1, <1>4, OpenWithLeast
<1> QED BY <1>3, <1>5 DEF A, B

\* Entries more, declared in what is open, open nothing more.
LEMMA OpenWithMore ==
  ASSUME NEW M, NEW N, NEW F \in SUBSET Files,
         \A f \in Files : M[f].entries \subseteq N[f].entries /\ N[f].entries \subseteq Entry,
         Closed(N, OpenWith(M, F))
  PROVE  OpenWith(N, F) = OpenWith(M, F)
<1>1. /\ F \subseteq OpenWith(M, F) /\ OpenWith(M, F) \subseteq Files
      /\ F \subseteq OpenWith(N, F) /\ OpenWith(N, F) \subseteq Files
  BY OpenWithType
<1>2. OpenWith(N, F) \subseteq OpenWith(M, F)
  BY <1>1, OpenWithLeast
<1>3. Closed(N, OpenWith(N, F))
  BY OpenWithClosed
<1>4. Closed(M, OpenWith(N, F))
  BY <1>1, <1>3 DEF Closed
<1>5. OpenWith(M, F) \subseteq OpenWith(N, F)
  BY <1>1, <1>4, OpenWithLeast
<1> QED BY <1>2, <1>5

LEMMA OpenWithSame ==
  ASSUME NEW M, NEW N, NEW F \in SUBSET Files,
         \A f \in Files : M[f].entries = N[f].entries /\ N[f].entries \subseteq Entry
  PROVE  OpenWith(N, F) = OpenWith(M, F)
<1>1. Closed(M, OpenWith(M, F)) /\ OpenWith(M, F) \subseteq Files
  BY OpenWithClosed, OpenWithType
<1>2. Closed(N, OpenWith(M, F))
  BY <1>1 DEF Closed
<1> QED BY <1>2, OpenWithMore

-----------------------------------------------------------------------------
(* Analysing a unit again.                                                  *)

\* What u has visited before its visit n, and all that it visits.
VisitedBy(u, n) == {Traversal[u][i] : i \in {j \in 1 .. Len(Traversal[u]) : j < n}}
AllOf(u) == VisitedBy(u, Len(Traversal[u]) + 1)

\* The files these visits ask for.
Needs(u, V) == {Main[u]} \cup {e.file : e \in V} \cup {e.decl : e \in V}

HasAll(M, V) == \A e \in V : \E x \in M[e.file].entries : SameEntry(x, e)

\* The files as the process would find them now.
Current == [f \in Files |-> IF f \in opened THEN mem[f] ELSE disk[f]]

RunInv ==
  unit # NoUnit =>
    /\ opened = OpenWith(Current, Needs(unit, VisitedBy(unit, next)))
    /\ HasAll(mem, VisitedBy(unit, next))
    /\ \A e \in created : e \in mem[e.file].entries

\* What an analysis of u that ended with the totals T, and that opened the files
\* of O and created the records of C, has left in the json files.
Ended(u, T, C, O) ==
  /\ O = OpenWith(disk, Needs(u, AllOf(u)))
  /\ T = Total(disk, O)
  /\ HasAll(disk, AllOf(u))
  /\ \A e \in C : e.file \in O /\ e \in disk[e.file].entries
  /\ \A f \in O : Exact(disk[f], C)

LastInv ==
  last.unit # NoUnit /\ written = {} =>
    \E O \in SUBSET Files : Ended(last.unit, last.totals, last.created, O)

Longer == [last.totals EXCEPT !.lines = @ + Cardinality(last.created)]

\* The second of two analyses of a unit creates nothing.
AgainInv ==
  unit # NoUnit /\ unit = last.unit =>
    /\ written = {} => created = {} /\ \A f \in opened : mem[f] = Parsed(disk[f])
    /\ totals # NoTotals => totals = Longer

SameInv == CountersInv /\ TotalsInv /\ RunInv /\ LastInv /\ AgainInv

LEMMA VisitsType ==
  ASSUME NEW u \in Units, NEW n
  PROVE  /\ VisitedBy(u, n) \subseteq Entry
         /\ Needs(u, VisitedBy(u, n)) \in SUBSET Files
<1>1. Main[u] \in Files /\ \A i \in 1 .. Len(Traversal[u]) : Traversal[u][i] \in Entry
  BY MetricsAssumption
<1>2. VisitedBy(u, n) \subseteq Entry
  BY <1>1 DEF VisitedBy
<1>3. \A e \in Entry : e.file \in Files /\ e.decl \in Files
  BY DEF Entry
<1> QED BY <1>1, <1>2, <1>3 DEF Needs

LEMMA NothingVisited == ASSUME NEW u \in Units PROVE VisitedBy(u, 1) = {}
BY MetricsAssumption DEF VisitedBy

LEMMA VisitedMore ==
  ASSUME NEW u \in Units, NEW n \in 1 .. Len(Traversal[u])
  PROVE  VisitedBy(u, n + 1) = VisitedBy(u, n) \cup {Traversal[u][n]}
<1> DEFINE J(m) == {j \in 1 .. Len(Traversal[u]) : j < m}
<1>0. Len(Traversal[u]) \in Nat
  BY MetricsAssumption
<1>1. J(n + 1) = J(n) \cup {n}
  BY <1>0
<1>2. \A m : VisitedBy(u, m) = {Traversal[u][i] : i \in J(m)}
  BY DEF VisitedBy
<1> HIDE DEF J
<1> QED BY <1>1, <1>2

LEMMA AllVisited ==
  ASSUME NEW u \in Units, NEW n \in Nat, n > Len(Traversal[u])
  PROVE  VisitedBy(u, n) = AllOf(u)
<1> DEFINE J(m) == {j \in 1 .. Len(Traversal[u]) : j < m}
<1>0. Len(Traversal[u]) \in Nat
  BY MetricsAssumption
<1>1. J(n) = J(Len(Traversal[u]) + 1)
  BY <1>0
<1> QED BY <1>1 DEF VisitedBy, AllOf

\* The sum over a set, one of its elements taken first.
LEMMA SumOver ==
  ASSUME NEW O, IsFiniteSet(O), NEW k \in [O -> Nat], NEW T \in SUBSET O, NEW x \in T
  PROVE  /\ SumFunction([f \in T |-> k[f]]) = k[x] + SumFunction([f \in T \ {x} |-> k[f]])
         /\ SumFunction([f \in T \ {x} |-> k[f]]) \in Nat
<1> DEFINE D == T \ {x}
           all == [f \in T |-> k[f]]
           most == [f \in D |-> k[f]]
<1>1. IsFiniteSet(D) /\ x \notin D /\ D \cup {x} = T
  BY FS_Subset
<1>2. /\ all \in [T -> Nat] /\ most \in [D -> Nat] /\ all[x] = k[x]
      /\ \A y \in D : most[y] = all[y]
  OBVIOUS
<1> HIDE DEF D, all, most
<1>3. SumFunction(all) = all[x] + SumFunction(most) /\ SumFunction(most) \in Nat
  <2>1. all \in [D \cup {x} -> Nat]
    BY <1>1, <1>2
  <2> QED BY <1>1, <1>2, <2>1, SumFunctionAdd, SumFunctionType
<1> QED BY <1>2, <1>3 DEF D, all, most

OfFile(C, f) == {e \in C : e.file = f}

\* The lines that a second analysis counts, summed over the files.
LEMMA SumMore ==
  ASSUME NEW O, IsFiniteSet(O), NEW g \in [O -> Nat], NEW h \in [O -> Nat],
         NEW C, \A e \in C : e.file \in O,
         \A f \in O : IsFiniteSet(OfFile(C, f)) /\ g[f] = h[f] + Cardinality(OfFile(C, f))
  PROVE  SumFunction(g) = SumFunction(h) + Cardinality(C)
<1> DEFINE Of(T) == {e \in C : e.file \in T}
           On(k, T) == [f \in T |-> k[f]]
           X == {T \in SUBSET O : /\ IsFiniteSet(Of(T))
                                  /\ SumFunction(On(g, T)) = SumFunction(On(h, T)) + Cardinality(Of(T))}
<1>0. \A T \in SUBSET O : IsFiniteSet(T) /\ On(g, T) \in [T -> Nat] /\ On(h, T) \in [T -> Nat]
  BY FS_Subset
<1>1. ASSUME NEW T \in SUBSET O, \A x \in T : T \ {x} \in X
      PROVE  T \in X
  <2>1. CASE T = {}
    <3>1. Of(T) = {}
      BY <2>1
    <3>2. On(g, T) \in [{} -> Nat] /\ On(h, T) \in [{} -> Nat]
      BY <2>1
    <3> HIDE DEF On
    <3>3. SumFunction(On(g, T)) = 0 /\ SumFunction(On(h, T)) = 0
      BY <3>2, SumFunctionEmpty
    <3>4. IsFiniteSet(Of(T)) /\ Cardinality(Of(T)) = 0
      BY <3>1, FS_EmptySet
    <3> HIDE DEF Of
    <3>5. SumFunction(On(g, T)) = SumFunction(On(h, T)) + Cardinality(Of(T))
      BY <3>3, <3>4
    <3> QED BY <3>4, <3>5
  <2>2. CASE T # {}
    <3>1. PICK x \in T : T \ {x} \in X
      BY <1>1, <2>2
    <3> DEFINE U == T \ {x}
               c == OfFile(C, x)
    <3>2. U \in SUBSET O /\ x \in O /\ x \notin U /\ T = U \cup {x}
      BY <3>1
    <3>3. /\ IsFiniteSet(Of(U)) /\ SumFunction(On(g, U)) = SumFunction(On(h, U)) + Cardinality(Of(U))
          /\ IsFiniteSet(U)
      BY <1>0, <3>1, <3>2
    <3>4. Of(T) = Of(U) \cup c /\ Of(U) \cap c = {}
      BY <3>2 DEF OfFile
    <3>5. IsFiniteSet(c) /\ g[x] = h[x] + Cardinality(c) /\ g[x] \in Nat /\ h[x] \in Nat
      BY <3>2
    <3>6. On(g, U) = [f \in T \ {x} |-> g[f]] /\ On(h, U) = [f \in T \ {x} |-> h[f]]
      OBVIOUS
    <3>7. /\ SumFunction(On(g, T)) = g[x] + SumFunction([f \in T \ {x} |-> g[f]])
          /\ SumFunction(On(h, T)) = h[x] + SumFunction([f \in T \ {x} |-> h[f]])
          /\ SumFunction([f \in T \ {x} |-> g[f]]) \in Nat
          /\ SumFunction([f \in T \ {x} |-> h[f]]) \in Nat
      <4>1. \A k \in [O -> Nat] :
              /\ SumFunction([f \in T |-> k[f]]) = k[x] + SumFunction([f \in T \ {x} |-> k[f]])
              /\ SumFunction([f \in T \ {x} |-> k[f]]) \in Nat
        BY SumOver, Zenon
      <4> QED BY <4>1, Zenon
    <3> HIDE DEF On, Of, U, c
    <3>8. /\ SumFunction(On(g, T)) = g[x] + SumFunction(On(g, U)) /\ SumFunction(On(g, U)) \in Nat
          /\ SumFunction(On(h, T)) = h[x] + SumFunction(On(h, U)) /\ SumFunction(On(h, U)) \in Nat
      BY <3>6, <3>7
    <3>9. IsFiniteSet(Of(T)) /\ Cardinality(Of(T)) = Cardinality(Of(U)) + Cardinality(c)
      <4>1. Cardinality(Of(U)) \in Nat /\ Cardinality(c) \in Nat
        BY <3>3, <3>5, FS_CardinalityType
      <4>2. /\ IsFiniteSet(Of(U) \cup c)
            /\ Cardinality(Of(U) \cup c) = Cardinality(Of(U)) + Cardinality(c) - Cardinality(Of(U) \cap c)
        BY <3>3, <3>5, FS_Union
      <4>3. Cardinality(Of(U) \cap c) = 0
        BY <3>4, FS_EmptySet
      <4> QED BY <3>4, <4>1, <4>2, <4>3
    <3>10. Cardinality(Of(U)) \in Nat /\ Cardinality(c) \in Nat
      BY <3>3, <3>5, FS_CardinalityType
    <3>11. SumFunction(On(g, T)) = SumFunction(On(h, T)) + Cardinality(Of(T))
      BY <3>3, <3>5, <3>8, <3>9, <3>10
    <3> QED BY <3>9, <3>11
  <2> QED BY <2>1, <2>2
<1>2. O \in X
  <2> HIDE DEF X
  <2> QED BY <1>1, SubsetInduction DEF Hereditary
<1>3. On(g, O) = g /\ On(h, O) = h /\ Of(O) = C
  OBVIOUS
<1> HIDE DEF On, Of
<1> QED BY <1>2, <1>3

\* What is read again has the counters it had, and the lines that were missing.
LEMMA TotalAgain ==
  ASSUME TypeInv, NEW O \in SUBSET Files, NEW C,
         \A e \in C : e.file \in O /\ e \in disk[e.file].entries,
         \A f \in O : Exact(disk[f], C),
         \A f \in O : mem[f] = Parsed(disk[f])
  PROVE  Total(mem, O) = [Total(disk, O) EXCEPT !.lines = @ + Cardinality(C)]
<1>1. IsFiniteSet(O)
  BY MetricsAssumption, FS_Subset
<1>2. ASSUME NEW f \in O
      PROVE  /\ mem[f].lines \in Nat /\ disk[f].lines \in Nat /\ IsFiniteSet(OfFile(C, f))
             /\ mem[f].lines = disk[f].lines + Cardinality(OfFile(C, f))
             /\ \A k \in Kinds : mem[f].nb[k] = disk[f].nb[k]
  <2>1. FileOK(f, disk[f]) /\ disk[f] \in File /\ mem[f] \in File
    BY DEF TypeInv, FilesOK, TypeOK
  <2>2. Counted(mem[f]) /\ mem[f].entries = disk[f].entries
    BY <2>1, ParsedOK
  <2>3. /\ \A k \in Kinds : disk[f].nb[k] = Cardinality(OfKind(disk[f].entries, k))
        /\ disk[f].lines + Cardinality(C \cap disk[f].entries) = LinesOf(disk[f].entries)
    BY ExactIs
  <2>4. C \cap disk[f].entries = OfFile(C, f)
    BY <2>1 DEF FileOK, OfFile
  <2>5. IsFiniteSet(C \cap disk[f].entries)
    BY <2>1, FS_Intersection DEF FileOK
  <2> QED BY <2>1, <2>2, <2>3, <2>4, <2>5 DEF Counted, File
<1> DEFINE g == [f \in O |-> mem[f].lines]
           h == [f \in O |-> disk[f].lines]
<1>3. SumFunction(g) = SumFunction(h) + Cardinality(C)
  <2>1. g \in [O -> Nat] /\ h \in [O -> Nat]
    BY <1>2
  <2>2. \A f \in O : IsFiniteSet(OfFile(C, f)) /\ g[f] = h[f] + Cardinality(OfFile(C, f))
    BY <1>2
  <2> HIDE DEF g, h
  <2> QED BY <1>1, <2>1, <2>2, SumMore
<1>4. \A k \in Kinds : [f \in O |-> mem[f].nb[k]] = [f \in O |-> disk[f].nb[k]]
  BY <1>2
<1>5. [k \in Kinds |-> SumFunction([f \in O |-> mem[f].nb[k]])]
        = [k \in Kinds |-> SumFunction([f \in O |-> disk[f].nb[k]])]
  BY <1>4
<1> DEFINE x == SumFunction(g)
           y == SumFunction(h)
           nm == [k \in Kinds |-> SumFunction([f \in O |-> mem[f].nb[k]])]
           nd == [k \in Kinds |-> SumFunction([f \in O |-> disk[f].nb[k]])]
           Sum(n, l) == [files |-> Cardinality(O), headers |-> Cardinality(O \cap Headers),
                         sources |-> Cardinality(O \ Headers), nb |-> n, lines |-> l]
<1>6. Total(mem, O) = Sum(nm, x) /\ Total(disk, O) = Sum(nd, y)
  BY DEF Total
<1>7. x = y + Cardinality(C) /\ nm = nd
  BY <1>3, <1>5
<1> HIDE DEF x, y, nm, nd
<1>8. [Sum(nd, y) EXCEPT !.lines = @ + Cardinality(C)] = Sum(nd, y + Cardinality(C))
  OBVIOUS
<1> HIDE DEF Sum
<1> QED BY <1>6, <1>7, <1>8

\* What the process has read and what it would read have entries.
LEMMA CurrentType ==
  ASSUME TypeInv
  PROVE  \A f \in Files : /\ Current[f].entries \subseteq Entry
                          /\ Current[f] = IF f \in opened THEN mem[f] ELSE disk[f]
BY DEF TypeInv, TypeOK, File, Current

\* Opening files adds those they need, and no entry.
LEMMA OpeningIs ==
  ASSUME TypeInv, NEW F \in SUBSET Files
  PROVE  LET new == ToOpen(F)
             M == Reading(mem, new)
         IN /\ new \in SUBSET (Files \ opened)
            /\ F \subseteq opened \cup new
            /\ opened \cup new = opened \cup OpenWith(Current, F)
            /\ \A f \in opened \cup new : M[f].entries = Current[f].entries
            /\ \A f \in opened : M[f] = mem[f]
            /\ \A f \in new : M[f] = Parsed(disk[f])
<1> DEFINE new == ToOpen(F)
           M == Reading(mem, new)
<1>1. new \in SUBSET (Files \ opened) /\ F \subseteq opened \cup new
  BY ToOpenType
<1>2. new = OpenWith(Current, F) \ opened
  BY DEF ToOpen, Current
<1>3. /\ \A f \in new : M[f].entries = disk[f].entries
      /\ \A f \in Files \ new : M[f] = mem[f]
  BY <1>1, ReadingIs
<1>4. opened \subseteq Files
  BY DEF TypeInv, TypeOK
<1>5. \A f \in new : M[f] = Parsed(disk[f])
  BY <1>1 DEF Reading
<1> HIDE DEF new, M
<1>6. \A f \in opened \cup new : M[f].entries = Current[f].entries
  BY <1>1, <1>3, <1>4, CurrentType
<1> QED BY <1>1, <1>2, <1>3, <1>4, <1>5, <1>6 DEF new, M

LEMMA RunStep == TypeInv /\ RunInv /\ [Next]_vars => RunInv'
<1> SUFFICES ASSUME TypeInv, RunInv, [Next]_vars PROVE RunInv'
  OBVIOUS
<1>0. TypeInv'
  BY TypeStep
<1>1. CASE UNCHANGED <<disk, mem, opened, unit, next, created>>
  BY <1>1 DEF RunInv, Current
<1>2. ASSUME NEW u \in Units, Start(u) PROVE RunInv'
  <2> DEFINE F == {Main[u]}
             new == ToOpen(F)
             M == Reading(mem, new)
  <2>1. F \in SUBSET Files
    BY MetricsAssumption
  <2>2. /\ opened' = new /\ mem' = M /\ unit' = u /\ next' = 1 /\ opened = {} /\ created = {}
        /\ UNCHANGED <<disk, created>>
    BY <1>2 DEF Start, TypeInv, PhaseOK
  <2>3. /\ new \in SUBSET Files /\ new = OpenWith(Current, F)
        /\ \A f \in new : M[f].entries = Current[f].entries
    BY <2>1, <2>2, OpeningIs
  <2>4. VisitedBy(u, 1) = {} /\ Needs(u, VisitedBy(u, 1)) = F
    BY NothingVisited DEF Needs
  <2> HIDE DEF new, M, F
  <2>5. \A f \in Files : /\ Current[f].entries = Current'[f].entries
                         /\ Current'[f].entries \subseteq Entry
    <3>1. \A f \in Files : /\ Current'[f].entries \subseteq Entry
                           /\ Current'[f] = IF f \in opened' THEN mem'[f] ELSE disk'[f]
      <4>1. \A f \in Files : mem'[f].entries \subseteq Entry /\ disk'[f].entries \subseteq Entry
        BY <1>0 DEF TypeInv, TypeOK, File
      <4> QED BY <4>1 DEF Current
    <3> QED BY <2>2, <2>3, <3>1, CurrentType
  <2>6. OpenWith(Current', F) = OpenWith(Current, F)
    BY <2>1, <2>5, OpenWithSame
  <2>7. HasAll(mem', VisitedBy(u, 1))
    BY <2>4 DEF HasAll
  <2> QED BY <2>2, <2>3, <2>4, <2>6, <2>7 DEF RunInv
<1>3. CASE Register
  <2> DEFINE e == Traversal[unit][next]
             F == {e.file, e.decl}
             V == VisitedBy(unit, next)
             new == ToOpen(F)
             M == Reading(mem, new)
             G == Add(M[e.file], e, LinesVisited(e))
             O == opened \cup new
  <2>1. /\ e \in Entry /\ F \in SUBSET Files /\ e.file \in Files
        /\ unit \in Units /\ next \in 1 .. Len(Traversal[unit]) /\ unit # NoUnit
    BY <1>3, EntryVisited DEF Register, Entry, TypeInv, Traversing
  <2>2. /\ opened' = O /\ mem' = [M EXCEPT ![e.file] = G] /\ next' = next + 1 /\ unit' = unit
        /\ created' = (IF e.lines = NoLines /\ mem'[e.file] # M[e.file] THEN created \cup {e} ELSE created)
        /\ disk' = disk
    BY <1>3 DEF Register
  <2>3. /\ new \in SUBSET (Files \ opened) /\ F \subseteq O
        /\ O = opened \cup OpenWith(Current, F)
        /\ \A f \in O : M[f].entries = Current[f].entries
        /\ \A f \in opened : M[f] = mem[f]
    BY <2>1, OpeningIs
  <2>4. M \in [Files -> File]
    BY <2>3, ReadingIs
  <2>5. \/ G = M[e.file] /\ \E x \in G.entries : SameEntry(x, e)
        \/ G.entries = M[e.file].entries \cup {e} /\ G # M[e.file]
    <3>1. M[e.file] \in File /\ LinesVisited(e) \in Nat
      BY <2>1, <2>4, LinesType
    <3> HIDE DEF e, M
    <3>2. \/ G = M[e.file] /\ \E x \in M[e.file].entries : SameEntry(x, e)
          \/ G.entries = M[e.file].entries \cup {e} /\ e \notin M[e.file].entries
      BY <2>1, <3>1, AddIs
    <3> HIDE DEF G
    <3> QED BY <3>2
  <2>6. VisitedBy(unit, next + 1) = V \cup {e} /\ V \subseteq Entry
    BY <2>1, VisitedMore, VisitsType
  <2>7. Needs(unit, V) \in SUBSET Files /\ Needs(unit, V \cup {e}) = Needs(unit, V) \cup F
    BY <2>1, VisitsType DEF Needs
  <2>8. /\ opened = OpenWith(Current, Needs(unit, V))
        /\ HasAll(mem, V)
        /\ \A x \in created : x \in mem[x.file].entries
    BY <2>1 DEF RunInv
  <2>9. opened \subseteq Files /\ O \subseteq Files
    BY <2>3 DEF TypeInv, TypeOK
  <2>10. \A x \in V : x.file \in opened
    <3>1. \A x \in V : x.file \in Needs(unit, V)
      BY DEF Needs
    <3> QED BY <2>7, <2>8, <3>1, OpenWithType
  <2> HIDE DEF e, F, V, new, M, G, O
  <2>11. /\ mem'[e.file] = G
         /\ \A f \in Files : f # e.file => mem'[f] = M[f]
         /\ e.file \in O /\ e.decl \in O
    BY <2>1, <2>2, <2>3, <2>4 DEF F
  <2>12. O = OpenWith(Current, Needs(unit, V \cup {e}))
    <3>1. Needs(unit, V) \in SUBSET Files /\ F \in SUBSET Files
      BY <2>1, <2>7
    <3>2. \A f \in Files : Current[f].entries \subseteq Entry
      BY CurrentType
    <3>3. OpenWith(Current, Needs(unit, V) \cup F) = OpenWith(Current, Needs(unit, V)) \cup OpenWith(Current, F)
      BY <3>1, <3>2, OpenWithUnion
    <3> QED BY <2>3, <2>7, <2>8, <3>3
  <2>13. \A f \in Files : /\ Current[f].entries \subseteq Current'[f].entries
                          /\ Current'[f].entries \subseteq Current[f].entries \cup {e}
                          /\ Current'[f].entries \subseteq Entry
    <3>1. \A f \in Files : Current'[f] = IF f \in O THEN mem'[f] ELSE disk[f]
      BY <2>2 DEF Current
    <3>2. \A f \in O : /\ M[f].entries \subseteq mem'[f].entries
                       /\ mem'[f].entries \subseteq M[f].entries \cup {e}
      BY <2>5, <2>9, <2>11
    <3>3. \A f \in Files \ O : Current[f] = disk[f]
      BY <2>3, CurrentType DEF O
    <3> QED BY <2>1, <2>3, <3>1, <3>2, <3>3, CurrentType
  <2>14. Closed(Current', O)
    <3>1. Closed(Current, O)
      <4>1. Needs(unit, V \cup {e}) \in SUBSET Files
        BY <2>1, <2>7
      <4> QED BY <2>12, <4>1, CurrentType, OpenWithClosed
    <3> QED BY <2>9, <2>11, <2>13, <3>1 DEF Closed
  <2>15. O = OpenWith(Current', Needs(unit, V \cup {e}))
    <3>1. Needs(unit, V \cup {e}) \in SUBSET Files
      BY <2>1, <2>7
    <3> QED BY <2>12, <2>13, <2>14, <3>1, OpenWithMore
  <2>16. \A f \in opened : mem[f].entries \subseteq mem'[f].entries
    BY <2>3, <2>5, <2>9, <2>11
  <2>17. HasAll(mem', V \cup {e})
    <3>1. \E x \in mem'[e.file].entries : SameEntry(x, e)
      BY <2>5, <2>11 DEF SameEntry
    <3> QED BY <2>8, <2>10, <2>16, <3>1 DEF HasAll
  <2>18. \A x \in created' : x \in mem'[x.file].entries
    <3>1. \A x \in created : x.file \in opened
      BY DEF TypeInv, CreatedOK
    <3>2. mem'[e.file] # M[e.file] => e \in mem'[e.file].entries
      BY <2>5, <2>11
    <3> QED BY <2>2, <2>8, <2>16, <3>1, <3>2
  <2> QED BY <2>2, <2>6, <2>15, <2>17, <2>18 DEF RunInv
<1>4. ASSUME NEW f \in Files, Rewrite(f) PROVE RunInv'
  <2>1. /\ disk' = [disk EXCEPT ![f] = mem[f]] /\ f \in opened
        /\ UNCHANGED <<mem, opened, unit, next, created>>
    BY <1>4 DEF Rewrite
  <2>2. Current' = Current
    BY <2>1 DEF Current, TypeInv, TypeOK
  <2> QED BY <2>1, <2>2 DEF RunInv
<1>5. ASSUME End PROVE RunInv'
  BY <1>5 DEF End, RunInv
<1>6. CASE UNCHANGED vars \/ UpdateMetrics
  BY <1>1, <1>6 DEF vars, UpdateMetrics
<1> QED BY <1>2, <1>3, <1>4, <1>5, <1>6 DEF Next, OutputMetrics, Stop

LEMMA LastStep == SameInv /\ [Next]_vars => LastInv'
<1> SUFFICES ASSUME SameInv, [Next]_vars PROVE LastInv'
  OBVIOUS
<1>0. TypeInv /\ TypeOK /\ FilesOK
  BY DEF SameInv, CountersInv, TypeInv
<1>1. CASE UNCHANGED <<disk, written, last>>
  BY <1>1 DEF SameInv, LastInv, Ended
<1>2. ASSUME NEW f \in Files, Rewrite(f) PROVE LastInv'
  BY <1>2 DEF Rewrite, LastInv
<1>3. CASE OutputMetrics
  <2> DEFINE V == AllOf(unit)
  <2>1. /\ last' = [unit |-> unit, totals |-> totals, created |-> created]
        /\ disk' = disk /\ written = opened /\ totals # NoTotals
    BY <1>3 DEF OutputMetrics
  <2>2. unit \in Units /\ unit # NoUnit /\ ~Traversing /\ next \in Nat /\ opened \in SUBSET Files
    BY <1>0, <2>1 DEF TypeInv, PhaseOK, TypeOK
  <2>3. VisitedBy(unit, next) = V
    <3>1. next > Len(Traversal[unit])
      BY <2>2, MetricsAssumption DEF Traversing
    <3> QED BY <2>2, <3>1, AllVisited
  <2>4. \A f \in opened : disk[f] = mem[f]
    BY <1>0, <2>1 DEF TypeOK
  <2>5. /\ opened = OpenWith(Current, Needs(unit, V))
        /\ HasAll(mem, V)
        /\ \A e \in created : e \in mem[e.file].entries
    BY <2>2, <2>3 DEF SameInv, RunInv
  <2>6. Needs(unit, V) \in SUBSET Files
    BY <2>2, VisitsType DEF AllOf
  <2> HIDE DEF V
  <2>7. opened = OpenWith(disk, Needs(unit, V))
    <3>1. \A f \in Files : Current[f].entries = disk[f].entries /\ disk[f].entries \subseteq Entry
      BY <1>0, <2>4 DEF Current, TypeOK, File
    <3> QED BY <2>5, <2>6, <3>1, OpenWithSame
  <2>8. totals = Total(disk, opened)
    <3>1. totals = Total(mem, opened)
      BY <2>1 DEF SameInv, TotalsInv
    <3> QED BY <2>4, <3>1, SameTotal
  <2>9. HasAll(disk, V)
    <3>1. \A e \in V : e.file \in opened
      BY <2>5, <2>6, OpenWithType DEF Needs
    <3> QED BY <2>4, <2>5, <3>1 DEF HasAll
  <2>10. \A e \in created : e.file \in opened /\ e \in disk[e.file].entries
    BY <1>0, <2>4, <2>5 DEF TypeInv, CreatedOK
  <2>11. \A f \in opened : Exact(disk[f], created)
    BY <2>2, <2>4 DEF SameInv, CountersInv, CountersExact
  <2>12. Ended(unit, totals, created, opened)
    BY <2>7, <2>8, <2>9, <2>10, <2>11 DEF Ended, V
  <2>13. /\ last'.unit = unit /\ last'.totals = totals /\ last'.created = created
    BY <2>1
  <2>14. \E O \in SUBSET Files : Ended(last.unit, last.totals, last.created, O)'
    BY <2>1, <2>2, <2>12, <2>13 DEF Ended
  <2> QED BY <2>14 DEF LastInv
<1>4. CASE Stop
  BY <1>4 DEF Stop, LastInv, NoLast
<1> QED BY <1>1, <1>2, <1>3, <1>4 DEF Next, vars, Start, Register, UpdateMetrics

\* The unit is analysed again, and nothing is rewritten yet.
LEMMA Before ==
  ASSUME SameInv, unit # NoUnit, unit = last.unit, written = {}
  PROVE  /\ created = {} /\ \A f \in opened : mem[f] = Parsed(disk[f])
         /\ \E O \in SUBSET Files : Ended(unit, last.totals, last.created, O)
BY DEF SameInv, AgainInv, LastInv

LEMMA AgainStep == SameInv /\ [Next]_vars => AgainInv'
<1> SUFFICES ASSUME SameInv, [Next]_vars PROVE AgainInv'
  OBVIOUS
<1>0. TypeInv /\ TypeOK /\ FilesOK
  BY DEF SameInv, CountersInv, TypeInv
<1>1. CASE UNCHANGED vars
  BY <1>1 DEF vars, SameInv, AgainInv, Longer
<1>2. ASSUME NEW u \in Units, Start(u) PROVE AgainInv'
  <2> DEFINE F == {Main[u]}
  <2>1. F \in SUBSET Files
    BY MetricsAssumption
  <2>2. /\ opened' = ToOpen(F) /\ mem' = Reading(mem, ToOpen(F)) /\ created' = {} /\ totals' = NoTotals
        /\ disk' = disk
    BY <1>0, <1>2 DEF Start, TypeInv, PhaseOK
  <2> HIDE DEF F
  <2>3. \A f \in ToOpen(F) : Reading(mem, ToOpen(F))[f] = Parsed(disk[f])
    BY <1>0, <2>1, OpeningIs
  <2> QED BY <2>2, <2>3 DEF AgainInv
<1>3. CASE Register
  <2> DEFINE e == Traversal[unit][next]
             F == {e.file, e.decl}
             new == ToOpen(F)
             M == Reading(mem, new)
             G == Add(M[e.file], e, LinesVisited(e))
             O == opened \cup new
  <2>1. /\ e \in Entry /\ F \in SUBSET Files /\ e.file \in Files
        /\ unit \in Units /\ next \in 1 .. Len(Traversal[unit]) /\ unit # NoUnit /\ Traversing
    BY <1>0, <1>3, EntryVisited DEF Register, Entry, Traversing
  <2>2. /\ opened' = O /\ mem' = [M EXCEPT ![e.file] = G] /\ unit' = unit
        /\ created' = (IF e.lines = NoLines /\ mem'[e.file] # M[e.file] THEN created \cup {e} ELSE created)
        /\ UNCHANGED <<disk, totals, written, last>>
    BY <1>3 DEF Register
  <2>3. /\ new \in SUBSET (Files \ opened) /\ F \subseteq O
        /\ \A f \in opened : M[f] = mem[f]
        /\ \A f \in new : M[f] = Parsed(disk[f])
    BY <1>0, <2>1, OpeningIs
  <2>4. written = {} /\ totals = NoTotals
    BY <1>0, <2>1 DEF TypeInv, PhaseOK
  <2> SUFFICES ASSUME unit = last.unit
               PROVE  created' = {} /\ \A f \in opened' : mem'[f] = Parsed(disk'[f])
    BY <2>2, <2>4 DEF AgainInv
  <2>5. /\ created = {} /\ \A f \in opened : mem[f] = Parsed(disk[f])
        /\ HasAll(disk, AllOf(unit))
    BY <2>1, <2>4, Before DEF Ended
  <2>6. \A f \in O : M[f] = Parsed(disk[f])
    BY <2>3, <2>5
  <2>7. \E x \in M[e.file].entries : SameEntry(x, e)
    <3>1. e \in AllOf(unit)
      <4>1. Len(Traversal[unit]) \in Nat
        BY <2>1, MetricsAssumption
      <4>2. next \in {j \in 1 .. Len(Traversal[unit]) : j < Len(Traversal[unit]) + 1}
        BY <2>1, <4>1
      <4> QED BY <4>2 DEF AllOf, VisitedBy
    <3>2. Parsed(disk[e.file]).entries = disk[e.file].entries
      BY <1>0, <2>1, ParsedOK DEF FilesOK
    <3>3. M[e.file] = Parsed(disk[e.file])
      BY <2>3, <2>6
    <3> QED BY <2>5, <3>1, <3>2, <3>3 DEF HasAll
  <2>8. G = M[e.file]
    BY <2>7 DEF Add
  <2>9. M \in [Files -> File]
    BY <1>0, <2>3, ReadingIs
  <2> HIDE DEF e, F, new, M, G, O
  <2>10. mem' = M
    BY <2>1, <2>2, <2>8, <2>9
  <2> QED BY <2>2, <2>5, <2>6, <2>10
<1>4. CASE UpdateMetrics
  <2>1. /\ unit # NoUnit /\ ~Traversing /\ totals = NoTotals /\ totals' = Total(mem, opened)
        /\ UNCHANGED <<disk, mem, opened, unit, next, written, created, last>>
    BY <1>4 DEF UpdateMetrics
  <2>2. written = {}
    BY <1>0, <2>1 DEF TypeInv, PhaseOK
  <2> SUFFICES ASSUME unit = last.unit
               PROVE  /\ created = {} /\ \A f \in opened : mem[f] = Parsed(disk[f])
                      /\ Total(mem, opened) = Longer
    BY <2>1 DEF AgainInv, Longer
  <2>3. created = {} /\ \A f \in opened : mem[f] = Parsed(disk[f])
    BY <2>1, <2>2, Before
  <2>4. PICK O \in SUBSET Files : Ended(unit, last.totals, last.created, O)
    BY <2>1, <2>2, Before
  <2>5. unit \in Units /\ next \in Nat /\ opened \in SUBSET Files
    BY <1>0, <2>1 DEF TypeOK
  <2>6. VisitedBy(unit, next) = AllOf(unit)
    <3>1. next > Len(Traversal[unit])
      BY <2>1, <2>5, MetricsAssumption DEF Traversing
    <3> QED BY <2>5, <3>1, AllVisited
  <2>7. opened = O
    <3>1. \A f \in Files : Current[f].entries = disk[f].entries /\ disk[f].entries \subseteq Entry
      <4>1. \A f \in Files : Parsed(disk[f]).entries = disk[f].entries
        BY <1>0, ParsedOK DEF FilesOK
      <4> QED BY <1>0, <2>3, <4>1 DEF Current, TypeOK, File
    <3>2. Needs(unit, AllOf(unit)) \in SUBSET Files
      BY <2>5, VisitsType DEF AllOf
    <3>3. OpenWith(disk, Needs(unit, AllOf(unit))) = OpenWith(Current, Needs(unit, AllOf(unit)))
      BY <3>1, <3>2, OpenWithSame
    <3> QED BY <2>1, <2>4, <2>6, <3>3 DEF SameInv, RunInv, Ended
  <2>8. Total(mem, O) = [Total(disk, O) EXCEPT !.lines = @ + Cardinality(last.created)]
    BY <1>0, <2>3, <2>4, <2>7, TotalAgain DEF Ended
  <2> QED BY <2>3, <2>4, <2>7, <2>8 DEF Ended, Longer
<1>5. ASSUME NEW f \in Files, Rewrite(f) PROVE AgainInv'
  <2>1. written' # {} /\ UNCHANGED <<unit, totals, last>>
    BY <1>5 DEF Rewrite
  <2> QED BY <2>1 DEF SameInv, AgainInv, Longer
<1>6. ASSUME End PROVE AgainInv'
  BY <1>6 DEF End, AgainInv
<1> QED BY <1>1, <1>2, <1>3, <1>4, <1>5, <1>6 DEF Next, OutputMetrics, Stop

\* An analysis ends with the totals it has added before.
LEMMA SameTotalsStep ==
  SameInv /\ [Next]_vars =>
    [(unit # NoUnit /\ unit' = NoUnit /\ last.unit = unit /\ last'.unit = unit) =>
       last'.totals = [last.totals EXCEPT !.lines = @ + Cardinality(last.created)]]_vars
<1> SUFFICES ASSUME SameInv, Next, unit # NoUnit, unit' = NoUnit, last.unit = unit, last'.unit = unit
             PROVE  last'.totals = Longer
  BY DEF Longer
<1>1. CASE OutputMetrics
  <2>1. last'.totals = totals /\ totals # NoTotals
    BY <1>1 DEF OutputMetrics
  <2> QED BY <2>1 DEF SameInv, AgainInv
<1>2. CASE Stop
  BY <1>2 DEF Stop, NoLast
<1> QED BY <1>1, <1>2 DEF Next, Start, Register, UpdateMetrics, Rewrite

\* A unit that is analysed again at once gives the totals it gave, but for the
\* lines of the records it created the first time (SameTotals): it opens the same
\* files, and finds all it visits in them.
THEOREM AgainSame == Spec => SameTotals
<1>1. Init => SameInv
  <2> SUFFICES ASSUME Init PROVE SameInv
    OBVIOUS
  <2>1. CountersInv
    BY TypeInit, EmptyExact DEF Init, CountersInv, CountersExact
  <2> QED BY <2>1 DEF Init, SameInv, CountersInv, TotalsInv, RunInv, LastInv, AgainInv, NoLast
<1>2. SameInv /\ [Next]_vars => SameInv'
  <2> SUFFICES ASSUME SameInv, [Next]_vars PROVE SameInv'
    OBVIOUS
  <2>1. CountersInv' /\ TotalsInv'
    BY CountersStep, TotalsStep DEF SameInv
  <2>2. RunInv'
    BY RunStep DEF SameInv, CountersInv
  <2> QED BY <2>1, <2>2, LastStep, AgainStep DEF SameInv
<1> QED BY <1>1, <1>2, SameTotalsStep, PTL DEF Spec, SameTotals

=============================================================================

----------------------------- MODULE LaunchProofs -----------------------------
(***************************************************************************)
(* Proofs about Launch, for every set of builds.                           *)
(***************************************************************************)
EXTENDS Launch, FiniteSetTheorems, SequenceTheorems, WellFoundedInduction, TLAPS

-----------------------------------------------------------------------------
(* Induction up to a bound.                                                 *)

\* What holds of 0, and of k + 1 if of k, holds of all numbers up to n.
Inductive(n, X) == 0 \in X /\ \A k \in 1 .. n : k - 1 \in X => k \in X

LEMMA UpTo ==
  ASSUME NEW n \in Nat, NEW X, Inductive(n, X)
  PROVE  0 .. n \subseteq X
<1> DEFINE U == {1 .. k : k \in (0 .. n) \ X}
           R == StrictSubsetOrdering(1 .. n)
<1> SUFFICES ASSUME NEW m \in 0 .. n, m \notin X PROVE FALSE
  OBVIOUS
<1>1. IsFiniteSet(1 .. n)
  BY FS_Interval
<1>2. U \subseteq FiniteSubsetsOf(1 .. n) /\ U # {}
  <2>1. ASSUME NEW k \in 0 .. n PROVE 1 .. k \in SUBSET (1 .. n)
    OBVIOUS
  <2> QED BY <1>1, <2>1, FS_Subset DEF FiniteSubsetsOf
<1>3. IsWellFoundedOn(R, FiniteSubsetsOf(1 .. n))
  BY FS_StrictSubsetOrderingWellFounded
<1>4. \E T \in U : \A V \in U : <<V, T>> \notin R
  <2> HIDE DEF U, R
  <2> QED BY <1>2, <1>3, WFMin
<1>5. PICK k \in (0 .. n) \ X : \A V \in U : <<V, 1 .. k>> \notin R
  BY <1>4
<1>6. k # 0 /\ k \in 1 .. n
  BY <1>5 DEF Inductive
<1>7. k - 1 \in (0 .. n) \ X
  BY <1>5, <1>6 DEF Inductive
<1>8. <<1 .. (k - 1), 1 .. k>> \in R
  <2>1. 1 .. (k - 1) \in SUBSET (1 .. n) /\ 1 .. k \in SUBSET (1 .. n)
    BY <1>6
  <2>2. 1 .. (k - 1) \subseteq 1 .. k /\ k \in 1 .. k /\ k \notin 1 .. (k - 1)
    BY <1>6
  <2> QED BY <2>1, <2>2 DEF R, StrictSubsetOrdering
<1> QED BY <1>5, <1>7, <1>8

-----------------------------------------------------------------------------
(* FlattenSeq and Without.                                                  *)

\* h[i] is s[1] \o ... \o s[i].
Flattens(h, s) == h[1] = s[1] /\ \A i \in 2 .. Len(s) : h[i] = h[i - 1] \o s[i]

\* If every s[i] is in X, and X is closed under concatenation, so are all of h.
Closed(X) == << >> \in X /\ \A s, t \in X : s \o t \in X

LEMMA FlattenIs ==
  ASSUME NEW X, Closed(X), NEW s \in Seq(X), s # << >>
  PROVE  \E h : Flattens(h, s) /\ FlattenSeq(s) = h[Len(s)]
<1> DEFINE n == Len(s)
           D == 1 .. n
           Rhs(h, i) == IF i = 1 THEN s[i] ELSE h[i - 1] \o s[i]
           Y == {m \in Nat : \E h \in [D -> X] : \A i \in D : i <= m => h[i] = Rhs(h, i)}
<1>1. n \in Nat \ {0} /\ \A i \in D : s[i] \in X
  BY EmptySeq
<1>2. 0 \in Y
  <2>1. [i \in D |-> s[i]] \in [D -> X]
    BY <1>1
  <2> QED BY <2>1
<1>3. ASSUME NEW k \in 1 .. n, k - 1 \in Y PROVE k \in Y
  <2>1. PICK h \in [D -> X] : \A i \in D : i <= k - 1 => h[i] = Rhs(h, i)
    BY <1>3
  <2> DEFINE g == [i \in D |-> Rhs(h, i)]
  <2>2. ASSUME NEW i \in D PROVE Rhs(h, i) \in X
    <3>1. CASE i = 1
      BY <1>1, <3>1
    <3>2. CASE i # 1
      <4>1. i - 1 \in D
        BY <1>1, <3>2
      <4> QED BY <1>1, <3>2, <4>1 DEF Closed
    <3> QED BY <3>1, <3>2
  <2>3. g \in [D -> X]
    BY <2>2
  <2>4. ASSUME NEW i \in D, i <= k PROVE g[i] = Rhs(g, i)
    <3>1. CASE i = 1
      BY <3>1
    <3>2. CASE i # 1
      <4>1. i - 1 \in D /\ i - 1 <= k - 1
        BY <1>1, <1>3, <2>4, <3>2
      <4>2. g[i - 1] = h[i - 1]
        BY <2>1, <4>1
      <4> QED BY <3>2, <4>2
    <3> QED BY <3>1, <3>2
  <2>5. \A i \in D : i <= k => g[i] = Rhs(g, i)
    BY <2>4
  <2> HIDE DEF g
  <2>6. k \in Nat
    BY <1>1
  <2> QED BY <2>3, <2>5, <2>6
<1>4. n \in Y
  <2>1. Inductive(n, Y)
    <3> HIDE DEF Y
    <3> QED BY <1>2, <1>3 DEF Inductive
  <2> HIDE DEF Y
  <2> QED BY <1>1, <2>1, UpTo
<1>5. PICK g \in [D -> X] : \A i \in D : g[i] = Rhs(g, i)
  BY <1>1, <1>4
<1> DEFINE IsFlat(h) == h = [i \in D |-> Rhs(h, i)]
           flat == CHOOSE h : IsFlat(h)
<1>6. IsFlat(g)
  BY <1>5
<1>7. IsFlat(flat)
  <2> HIDE DEF IsFlat
  <2> QED BY <1>6
<1>8. FlattenSeq(s) = flat[n]
  <2>1. n # 0
    BY <1>1
  <2> QED BY <2>1, Zenon DEF FlattenSeq
<1>9. Flattens(flat, s)
  <2> HIDE DEF flat
  <2>1. \A i \in D : flat[i] = Rhs(flat, i)
    BY <1>7
  <2>2. 1 \in D /\ \A i \in 2 .. n : i \in D /\ i # 1
    BY <1>1
  <2> QED BY <2>1, <2>2 DEF Flattens
<1> HIDE DEF flat
<1> QED BY <1>8, <1>9

\* A set that is closed under concatenation has what is made of its elements.
LEMMA FlattenIn ==
  ASSUME NEW X, Closed(X), NEW s \in Seq(X)
  PROVE  FlattenSeq(s) \in X
<1>1. CASE s = << >>
  <2>1. FlattenSeq(s) = s
    BY <1>1, Zenon DEF FlattenSeq
  <2> QED BY <1>1, <2>1 DEF Closed
<1>2. CASE s # << >>
  <2>1. PICK h : Flattens(h, s) /\ FlattenSeq(s) = h[Len(s)]
    BY <1>2, FlattenIs
  <2> DEFINE Y == {i \in Nat : i \in 1 .. Len(s) => h[i] \in X}
  <2>2. Len(s) \in 1 .. Len(s) /\ Len(s) \in Nat /\ \A i \in 1 .. Len(s) : s[i] \in X
    BY <1>2, EmptySeq
  <2>3. ASSUME NEW k \in 1 .. Len(s), k - 1 \in Y PROVE k \in Y
    <3>1. CASE k = 1
      BY <2>1, <2>2, <3>1 DEF Flattens
    <3>2. CASE k # 1
      <4>1. k \in 2 .. Len(s) /\ k - 1 \in 1 .. Len(s)
        BY <2>2, <3>2
      <4>2. h[k] = h[k - 1] \o s[k] /\ h[k - 1] \in X
        BY <2>1, <2>3, <4>1 DEF Flattens
      <4>3. s[k] \in X
        BY <2>2
      <4>4. h[k] \in X
        BY <4>2, <4>3 DEF Closed
      <4> QED BY <2>2, <4>4
    <3> QED BY <3>1, <3>2
  <2>4. Inductive(Len(s), Y)
    <3>1. 0 \in Y
      BY <2>2
    <3> HIDE DEF Y
    <3> QED BY <2>3, <3>1 DEF Inductive
  <2>5. Len(s) \in Y
    <3> HIDE DEF Y
    <3> QED BY <2>2, <2>4, UpTo
  <2> QED BY <2>1, <2>2, <2>5
<1> QED BY <1>1, <1>2

LEMMA SeqClosed == ASSUME NEW R PROVE Closed(Seq(R))
BY DEF Closed

\* x is in the sequence s.
Has(s, x) == \E i \in DOMAIN s : s[i] = x

LEMMA HasConcat ==
  ASSUME NEW R, NEW s \in Seq(R), NEW t \in Seq(R), NEW x
  PROVE  Has(s \o t, x) <=> Has(s, x) \/ Has(t, x)
<1>1. Len(s \o t) = Len(s) + Len(t) /\ Len(s) \in Nat /\ Len(t) \in Nat
  OBVIOUS
<1>2. ASSUME NEW i \in DOMAIN s, s[i] = x PROVE Has(s \o t, x)
  <2>1. i \in DOMAIN (s \o t) /\ (s \o t)[i] = s[i]
    BY <1>1
  <2> QED BY <1>2, <2>1 DEF Has
<1>3. ASSUME NEW i \in DOMAIN t, t[i] = x PROVE Has(s \o t, x)
  <2>1. i + Len(s) \in DOMAIN (s \o t) /\ (s \o t)[i + Len(s)] = t[i]
    BY <1>1
  <2> QED BY <1>3, <2>1 DEF Has
<1>4. ASSUME NEW i \in DOMAIN (s \o t), (s \o t)[i] = x PROVE Has(s, x) \/ Has(t, x)
  <2>1. CASE i <= Len(s)
    BY <1>1, <1>4, <2>1 DEF Has
  <2>2. CASE i > Len(s)
    <3>1. i - Len(s) \in DOMAIN t /\ (s \o t)[i] = t[i - Len(s)]
      BY <1>1, <2>2
    <3> QED BY <1>4, <3>1 DEF Has
  <2> QED BY <1>1, <2>1, <2>2
<1> QED BY <1>2, <1>3, <1>4 DEF Has

\* What is in one of the sequences is in FlattenSeq of them.
LEMMA FlattenHas ==
  ASSUME NEW R, NEW s \in Seq(Seq(R)), NEW j \in DOMAIN s, NEW x, Has(s[j], x)
  PROVE  Has(FlattenSeq(s), x)
<1>1. s # << >> /\ Len(s) \in Nat \ {0} /\ DOMAIN s = 1 .. Len(s)
  OBVIOUS
<1>2. \A i \in 1 .. Len(s) : s[i] \in Seq(R)
  OBVIOUS
<1>3. PICK h : Flattens(h, s) /\ FlattenSeq(s) = h[Len(s)]
  BY <1>1, SeqClosed, FlattenIs
<1> DEFINE Y == {i \in Nat : i \in 1 .. Len(s) => h[i] \in Seq(R) /\ (j <= i => Has(h[i], x))}
<1>4. ASSUME NEW k \in 1 .. Len(s), k - 1 \in Y PROVE k \in Y
  <2>1. CASE k = 1
    BY <1>1, <1>2, <1>3, <2>1 DEF Flattens
  <2>2. CASE k # 1
    <3>1. k \in 2 .. Len(s) /\ k - 1 \in 1 .. Len(s)
      BY <1>1, <2>2
    <3>2. /\ h[k] = h[k - 1] \o s[k] /\ h[k - 1] \in Seq(R)
          /\ j <= k - 1 => Has(h[k - 1], x)
      BY <1>3, <1>4, <3>1 DEF Flattens
    <3>3. h[k] \in Seq(R)
      BY <1>2, <3>1, <3>2
    <3>4. j <= k => j <= k - 1 \/ j = k
      BY <1>1
    <3>5. j <= k => Has(h[k], x)
      BY <1>2, <3>1, <3>2, <3>4, HasConcat
    <3> QED BY <1>1, <3>3, <3>5
  <2> QED BY <2>1, <2>2
<1>5. Inductive(Len(s), Y)
  <2>1. 0 \in Y
    BY <1>1
  <2> HIDE DEF Y
  <2> QED BY <1>4, <2>1 DEF Inductive
<1>6. Len(s) \in Y
  <2> HIDE DEF Y
  <2> QED BY <1>1, <1>5, UpTo
<1> QED BY <1>1, <1>3, <1>6

-----------------------------------------------------------------------------
(* Folds over a sequence, from its first element to its last.               *)

\* h gives each subset of D the fold of step over it; c chooses the next element.
IsFold(h, D, base, step, c) ==
  \A s \in SUBSET D :
    h[s] = IF s = {} THEN base ELSE step[<<c[s], h[s \ {c[s]}]>>]

Chooses(c, D) == \A s \in SUBSET D : s # {} => c[s] \in s

LEMMA FoldExists ==
  ASSUME NEW D, IsFiniteSet(D), NEW R, NEW base \in R, NEW step \in [D \X R -> R],
         NEW c, Chooses(c, D)
  PROVE  \E h \in [SUBSET D -> R] : IsFold(h, D, base, step, c)
<1> DEFINE Rhs(h, s) == IF s = {} THEN base ELSE step[<<c[s], h[s \ {c[s]}]>>]
           Good(h, m) == \A s \in SUBSET D : Cardinality(s) <= m => h[s] = Rhs(h, s)
           X == {m \in Nat : \E h \in [SUBSET D -> R] : Good(h, m)}
           n == Cardinality(D)
<1>1. \A s \in SUBSET D : \A h \in [SUBSET D -> R] : Rhs(h, s) \in R
  BY DEF Chooses
<1>2. \A s \in SUBSET D : IsFiniteSet(s) /\ Cardinality(s) \in Nat /\ Cardinality(s) <= n
  BY FS_Subset, FS_CardinalityType
<1>3. 0 \in X
  <2> DEFINE h == [s \in SUBSET D |-> base]
  <2>1. ASSUME NEW s \in SUBSET D, Cardinality(s) <= 0 PROVE h[s] = Rhs(h, s)
    <3>1. s = {}
      BY <1>2, <2>1, FS_EmptySet
    <3> QED BY <3>1
  <2>2. h \in [SUBSET D -> R]
    OBVIOUS
  <2> QED BY <2>1, <2>2
<1>4. ASSUME NEW k \in 1 .. n, k - 1 \in X PROVE k \in X
  <2>1. PICK h \in [SUBSET D -> R] : Good(h, k - 1)
    BY <1>4
  <2> DEFINE g == [s \in SUBSET D |-> Rhs(h, s)]
  <2>2. g \in [SUBSET D -> R]
    BY <1>1
  <2>3. ASSUME NEW s \in SUBSET D, Cardinality(s) <= k PROVE g[s] = Rhs(g, s)
    <3>1. CASE s = {}
      BY <3>1
    <3>2. CASE s # {}
      <4>1. c[s] \in s /\ s \ {c[s]} \in SUBSET D
        BY <3>2 DEF Chooses
      <4>2. Cardinality(s \ {c[s]}) = Cardinality(s) - 1
        BY <1>2, <4>1, FS_RemoveElement
      <4>3. Cardinality(s \ {c[s]}) <= k - 1
        BY <1>2, <2>3, <4>2
      <4>4. h[s \ {c[s]}] = Rhs(h, s \ {c[s]})
        BY <2>1, <4>1, <4>3
      <4>5. g[s \ {c[s]}] = h[s \ {c[s]}]
        BY <4>1, <4>4
      <4> QED BY <3>2, <4>5
    <3> QED BY <3>1, <3>2
  <2>4. k \in Nat
    BY <1>2
  <2>5. Good(g, k)
    BY <2>3
  <2> HIDE DEF g, Good
  <2> QED BY <2>2, <2>4, <2>5
<1>5. Inductive(n, X)
  <2> HIDE DEF X, n
  <2> QED BY <1>3, <1>4 DEF Inductive
<1>6. n \in X
  <2>1. n \in Nat
    BY <1>2
  <2> HIDE DEF X, n
  <2> QED BY <1>5, <2>1, UpTo
<1> QED BY <1>2, <1>6 DEF IsFold

LEMMA MaxIn ==
  ASSUME NEW n \in Nat, NEW t \in SUBSET (1 .. n), t # {}
  PROVE  Max(t) \in t /\ \A y \in t : Max(t) >= y
<1> DEFINE Y == {k \in Nat : t \cap (1 .. k) # {} =>
                   \E x \in t \cap (1 .. k) : \A y \in t \cap (1 .. k) : x >= y}
<1>1. 0 \in Y
  OBVIOUS
<1>2. ASSUME NEW k \in 1 .. n, k - 1 \in Y PROVE k \in Y
  <2>1. t \cap (1 .. k) = (t \cap (1 .. (k - 1))) \cup (t \cap {k})
    OBVIOUS
  <2>2. CASE k \in t
    <3>1. k \in t \cap (1 .. k) /\ \A y \in t \cap (1 .. k) : k >= y
      BY <2>2
    <3> QED BY <3>1
  <2>3. CASE k \notin t
    <3>1. t \cap (1 .. k) = t \cap (1 .. (k - 1))
      BY <2>1, <2>3
    <3> QED BY <1>2, <3>1
  <2> QED BY <2>2, <2>3
<1>3. n \in Y
  <2>1. Inductive(n, Y)
    <3> HIDE DEF Y
    <3> QED BY <1>1, <1>2 DEF Inductive
  <2> HIDE DEF Y
  <2> QED BY <2>1, UpTo
<1>4. t \cap (1 .. n) = t
  OBVIOUS
<1>5. \E x \in t : \A y \in t : x >= y
  BY <1>3, <1>4
<1> QED BY <1>5 DEF Max

\* What is left of s without words: h[i], of its first i elements.
Keeps(h, s, words) ==
  /\ h[0] = << >>
  /\ \A i \in 1 .. Len(s) :
       h[i] = IF s[i] \in words THEN h[i - 1] ELSE Append(h[i - 1], s[i])

LEMMA WithoutIs ==
  ASSUME NEW W, NEW s \in Seq(W), NEW words
  PROVE  \E h : Keeps(h, s, words) /\ Without(s, words) = h[Len(s)]
<1> DEFINE n == Len(s)
           D == 1 .. n
           R == Seq(W)
           step == [p \in D \X R |-> IF s[p[1]] \in words THEN p[2] ELSE Append(p[2], s[p[1]])]
           c == [t \in SUBSET D |-> Max(t)]
           Rhs(h, t) == IF t = {} THEN << >>
                        ELSE IF s[Max(t)] \in words THEN h[t \ {Max(t)}]
                        ELSE Append(h[t \ {Max(t)}], s[Max(t)])
           IsIter(h) == h = [t \in SUBSET D |-> Rhs(h, t)]
           iter == CHOOSE h : IsIter(h)
<1>1. n \in Nat /\ DOMAIN s = D /\ \A i \in D : s[i] \in W
  OBVIOUS
<1>2. \A t \in SUBSET D : t # {} => Max(t) \in t /\ \A y \in t : Max(t) >= y
  BY <1>1, MaxIn
<1>3. Without(s, words) = iter[D]
  BY <1>1, Zenon DEF Without, FoldLeft, MapThenFoldSet
<1>4. IsFiniteSet(D) /\ << >> \in R /\ step \in [D \X R -> R] /\ Chooses(c, D)
  <2>1. IsFiniteSet(D)
    BY <1>1, FS_Interval
  <2>2. ASSUME NEW i \in D, NEW t \in R PROVE Append(t, s[i]) \in R
    BY <1>1
  <2>3. step \in [D \X R -> R]
    BY <2>2
  <2>4. Chooses(c, D)
    BY <1>2 DEF Chooses
  <2> QED BY <2>1, <2>3, <2>4
<1>5. PICK g \in [SUBSET D -> R] : IsFold(g, D, << >>, step, c)
  <2> HIDE DEF D, R, step, c
  <2> QED BY <1>4, FoldExists
<1>6. IsIter(g)
  <2>1. ASSUME NEW t \in SUBSET D PROVE g[t] = Rhs(g, t)
    <3>1. CASE t = {}
      BY <1>5, <3>1 DEF IsFold
    <3>2. CASE t # {}
      <4>1. Max(t) \in D /\ t \ {Max(t)} \in SUBSET D /\ c[t] = Max(t)
        BY <1>2, <2>1, <3>2
      <4>2. g[t] = step[<<Max(t), g[t \ {Max(t)}]>>]
        BY <1>5, <3>2, <4>1 DEF IsFold
      <4>3. g[t \ {Max(t)}] \in R
        BY <4>1
      <4> QED BY <3>2, <4>1, <4>2, <4>3
    <3> QED BY <3>1, <3>2
  <2> QED BY <2>1
<1>7. IsIter(iter)
  <2> HIDE DEF IsIter
  <2> QED BY <1>6
<1> DEFINE h == [i \in 0 .. n |-> iter[1 .. i]]
<1>8. ASSUME NEW i \in 1 .. n PROVE h[i] = IF s[i] \in words THEN h[i - 1] ELSE Append(h[i - 1], s[i])
  <2>1. 1 .. i \in SUBSET D /\ i \in 1 .. i /\ i - 1 \in 0 .. n /\ i \in 0 .. n
    BY <1>1
  <2>2. Max(1 .. i) = i
    <3>1. Max(1 .. i) \in 1 .. i /\ Max(1 .. i) >= i
      BY <1>2, <2>1
    <3> QED BY <1>1, <3>1
  <2>3. (1 .. i) \ {i} = 1 .. (i - 1)
    BY <1>1
  <2>4. iter[1 .. i] = Rhs(iter, 1 .. i)
    <3> HIDE DEF iter
    <3> QED BY <1>7, <2>1
  <2> HIDE DEF iter
  <2> QED BY <2>1, <2>2, <2>3, <2>4
<1>9. h[0] = << >>
  <2>1. 1 .. 0 = {} /\ 0 \in 0 .. n
    BY <1>1
  <2> HIDE DEF iter
  <2> QED BY <1>7, <2>1
<1>10. h[n] = iter[D]
  BY <1>1
<1>11. Keeps(h, s, words)
  <2> HIDE DEF h
  <2> QED BY <1>8, <1>9 DEF Keeps
<1> QED BY <1>3, <1>10, <1>11

\* Only elements of s are left, and all of them if none is dropped.
LEMMA WithoutType ==
  ASSUME NEW W, NEW s \in Seq(W), NEW words
  PROVE  Without(s, words) \in Seq(W \ words)
<1>1. PICK h : Keeps(h, s, words) /\ Without(s, words) = h[Len(s)]
  BY WithoutIs
<1> DEFINE Y == {i \in Nat : i <= Len(s) => h[i] \in Seq(W \ words)}
<1>2. 0 \in Y
  <2>1. h[0] = << >>
    BY <1>1 DEF Keeps
  <2>2. h[0] \in Seq(W \ words)
    BY <2>1
  <2> QED BY <2>2
<1>3. ASSUME NEW k \in 1 .. Len(s), k - 1 \in Y PROVE k \in Y
  <2>1. h[k] = IF s[k] \in words THEN h[k - 1] ELSE Append(h[k - 1], s[k])
    BY <1>1 DEF Keeps
  <2>2. h[k - 1] \in Seq(W \ words) /\ s[k] \in W /\ k \in Nat
    BY <1>3
  <2>3. CASE s[k] \in words
    <3>1. h[k] \in Seq(W \ words)
      BY <2>1, <2>2, <2>3
    <3> QED BY <2>2, <3>1
  <2>4. CASE s[k] \notin words
    <3>1. h[k] = Append(h[k - 1], s[k]) /\ s[k] \in W \ words
      BY <2>1, <2>2, <2>4
    <3>2. h[k] \in Seq(W \ words)
      BY <2>2, <3>1
    <3> QED BY <2>2, <3>2
  <2> QED BY <2>3, <2>4
<1>4. Inductive(Len(s), Y)
  <2> HIDE DEF Y
  <2> QED BY <1>2, <1>3 DEF Inductive
<1>5. Len(s) \in Y
  <2> HIDE DEF Y
  <2> QED BY <1>4, UpTo
<1> QED BY <1>1, <1>5

LEMMA WithoutNone ==
  ASSUME NEW W, NEW s \in Seq(W), NEW words, \A i \in DOMAIN s : s[i] \notin words
  PROVE  Without(s, words) = s
<1>1. PICK h : Keeps(h, s, words) /\ Without(s, words) = h[Len(s)]
  BY WithoutIs
<1> DEFINE Y == {i \in Nat : i <= Len(s) => h[i] = SubSeq(s, 1, i)}
<1>2. 0 \in Y
  <2>1. h[0] = << >>
    BY <1>1 DEF Keeps
  <2>2. SubSeq(s, 1, 0) = << >>
    OBVIOUS
  <2> QED BY <2>1, <2>2
<1>3. ASSUME NEW k \in 1 .. Len(s), k - 1 \in Y PROVE k \in Y
  <2>1. k \in DOMAIN s /\ k \in Nat /\ k - 1 <= Len(s)
    OBVIOUS
  <2>2. h[k] = Append(h[k - 1], s[k])
    BY <1>1, <2>1 DEF Keeps
  <2>3. h[k - 1] = SubSeq(s, 1, k - 1)
    BY <1>3, <2>1
  <2>4. SubSeq(s, 1, k) = Append(SubSeq(s, 1, k - 1), s[k])
    OBVIOUS
  <2>5. h[k] = SubSeq(s, 1, k)
    BY <2>2, <2>3, <2>4
  <2> QED BY <2>1, <2>5
<1>4. Inductive(Len(s), Y)
  <2> HIDE DEF Y
  <2> QED BY <1>2, <1>3 DEF Inductive
<1>5. Len(s) \in Y
  <2> HIDE DEF Y
  <2> QED BY <1>4, UpTo
<1> QED BY <1>1, <1>5

-----------------------------------------------------------------------------
(* Builds, and the operators on commands and scripts.                       *)

LEMMA MinIn ==
  ASSUME NEW n \in Nat, NEW t \in SUBSET (1 .. n), t # {}
  PROVE  Min(t) \in t /\ \A y \in t : Min(t) <= y
<1> DEFINE Y == {k \in Nat : t \cap (1 .. k) # {} => \E x \in t : \A y \in t : x <= y}
<1>1. 0 \in Y
  OBVIOUS
<1>2. ASSUME NEW k \in 1 .. n, k - 1 \in Y PROVE k \in Y
  <2>1. CASE t \cap (1 .. (k - 1)) # {}
    BY <1>2, <2>1
  <2>2. CASE t \cap (1 .. (k - 1)) = {}
    <3>1. k \in t => \A y \in t : k <= y
      BY <2>2
    <3>2. t \cap (1 .. k) # {} => k \in t
      BY <2>2
    <3> QED BY <3>1, <3>2
  <2> QED BY <2>1, <2>2
<1>3. n \in Y
  <2>1. Inductive(n, Y)
    <3> HIDE DEF Y
    <3> QED BY <1>1, <1>2 DEF Inductive
  <2> HIDE DEF Y
  <2> QED BY <2>1, UpTo
<1>4. t \cap (1 .. n) = t
  OBVIOUS
<1>5. \E x \in t : \A y \in t : x <= y
  BY <1>3, <1>4
<1> QED BY <1>5 DEF Min

Jobs == DOMAIN build

\* The words that callers may find: those of a command, and what the script adds.
Words == STRING \cup {"-o", "stdout", NoFile}

LEMMA BuildIs ==
  build \in Builds =>
    /\ build \in Seq([driver : Drivers, type : Types, commands : Commands])
    /\ \E n \in Nat : Jobs = 1 .. n
    /\ \A j \in Jobs :
         /\ build[j].driver \in Drivers /\ build[j].type \in Types
         /\ build[j].commands \in Seq(Seq(STRING))
         /\ build[j].driver # "cmake" => DOMAIN build[j].commands = {1}
<1> SUFFICES ASSUME build \in Builds
             PROVE  /\ build \in Seq([driver : Drivers, type : Types, commands : Commands])
                    /\ \E n \in Nat : Jobs = 1 .. n
                    /\ \A j \in Jobs :
                         /\ build[j].driver \in Drivers /\ build[j].type \in Types
                         /\ build[j].commands \in Seq(Seq(STRING))
                         /\ build[j].driver # "cmake" => DOMAIN build[j].commands = {1}
  OBVIOUS
<1>1. build \in Seq([driver : Drivers, type : Types, commands : Commands])
  BY LaunchAssumption
<1>2. Jobs = 1 .. Len(build) /\ Len(build) \in Nat
  BY <1>1 DEF Jobs
<1>3. ASSUME NEW j \in Jobs
      PROVE  build[j] \in [driver : Drivers, type : Types, commands : Commands]
  <2> DEFINE K == [driver : Drivers, type : Types, commands : Commands]
  <2>1. build \in Seq(K)
    BY <1>1
  <2> HIDE DEF K
  <2>2. build[j] \in K
    BY <1>2, <2>1
  <2> QED BY <2>2 DEF K
<1>4. ASSUME NEW j \in Jobs, build[j].driver # "cmake"
      PROVE  DOMAIN build[j].commands = {1}
  <2>1. Len(build[j].commands) = 1
    BY <1>4, LaunchAssumption DEF Jobs
  <2>2. build[j].commands \in Seq(Seq(STRING))
    BY <1>3 DEF Commands
  <2> QED BY <2>1, <2>2
<1> QED BY <1>1, <1>2, <1>3, <1>4 DEF Commands

LEMMA CommandIs ==
  /\ \A j \in Jobs : \A i \in DOMAIN build[j].commands :
       <<j, i>> \in CommandsOf(j) /\ <<j, i>> \in AllCommands
  /\ \A j \in Jobs : CommandsOf(j) \subseteq AllCommands
  /\ \A u \in AllCommands : u[1] \in Jobs /\ u \in CommandsOf(u[1])
  /\ \A j : \A u \in CommandsOf(j) :
       u[1] = j /\ u[2] \in DOMAIN build[j].commands /\ u = <<j, u[2]>>
BY DEF CommandsOf, AllCommands, Jobs

LEMMA GetFileType ==
  ASSUME NEW files, NEW args \in Seq(STRING)
  PROVE  get_file(files, args) \in Words
<1> DEFINE I == {i \in 1 .. Len(args) : args[i] \in files}
<1>1. CASE I = {}
  <2>1. ~ \E i \in DOMAIN args : args[i] \in files
    BY <1>1
  <2> QED BY <2>1, Zenon DEF get_file, Words
<1>2. CASE I # {}
  <2>1. Len(args) \in Nat /\ I \in SUBSET (1 .. Len(args)) /\ \E i \in DOMAIN args : args[i] \in files
    BY <1>2
  <2>2. Min(I) \in 1 .. Len(args)
    <3> HIDE DEF I
    <3> QED BY <1>2, <2>1, MinIn
  <2>3. get_file(files, args) = args[Min(I)]
    BY <1>2, <2>1, Zenon DEF get_file, SelectInSeq
  <2>4. args[Min(I)] \in STRING
    <3> HIDE DEF I
    <3> QED BY <2>2
  <2> QED BY <2>3, <2>4 DEF Words
<1> QED BY <1>1, <1>2

LEMMA SourceOfType ==
  ASSUME NEW args \in Seq(STRING) PROVE SourceOf(args) \in Words
<1>1. get_file(CFiles, args) \in Words /\ get_file(CppFiles, args) \in Words /\ NoFile \in Words
  BY GetFileType DEF Words
<1> QED BY <1>1, Zenon DEF SourceOf

LEMMA CallersArgumentsType ==
  build \in Builds =>
    \A u \in AllCommands : CallersArguments(u) \in Seq(Words) /\ CallersArguments(u) # << >>
<1> SUFFICES ASSUME build \in Builds, NEW u \in AllCommands
             PROVE  CallersArguments(u) \in Seq(Words) /\ CallersArguments(u) # << >>
  OBVIOUS
<1> DEFINE args == build[u[1]].commands[u[2]]
           dropped == {"-c", "-o", "-nostdinc", SourceOf(args), get_file(Objects, args)}
           kept == Without(args, dropped)
           more == <<"-o", "stdout", SourceOf(args)>>
<1>1. args \in Seq(STRING)
  BY BuildIs, CommandIs
<1>2. CallersArguments(u) = kept \o more
  BY DEF CallersArguments
<1> HIDE DEF args
<1>3. kept \in Seq(Words)
  <2>1. kept \in Seq(STRING \ dropped)
    <3> HIDE DEF dropped
    <3> QED BY <1>1, WithoutType
  <2>2. STRING \ dropped \subseteq Words
    BY DEF Words
  <2> HIDE DEF kept, dropped
  <2> QED BY <2>1, <2>2
<1>4. more \in Seq(Words) /\ Len(more) = 3
  <2>1. SourceOf(args) \in Words
    BY <1>1, SourceOfType
  <2>2. "-o" \in Words /\ "stdout" \in Words
    BY DEF Words
  <2> QED BY <2>1, <2>2
<1>5. ASSUME NEW s \in Seq(Words), NEW t \in Seq(Words), Len(t) = 3
      PROVE  s \o t \in Seq(Words) /\ s \o t # << >>
  <2>1. Len(s \o t) = Len(s) + Len(t) /\ Len(s) \in Nat
    OBVIOUS
  <2> QED BY <1>5, <2>1
<1> HIDE DEF kept, more
<1> QED BY <1>2, <1>3, <1>4, <1>5

\* The pieces of the script of job j, before anything happens to it.
OwnPieces(j) == [unit : CommandsOf(j), tool : Tools, step : {"run", "check", "ignore", "gzip"}]
PieceOf(u, tool, step) == [unit |-> u, tool |-> tool, step |-> step]

\* callers is followed by the test of its status.
Guarded(s) ==
  \A i \in DOMAIN s : s[i].tool = "callers" /\ s[i].step = "run" =>
    i + 1 \in DOMAIN s /\ s[i + 1] = PieceOf(s[i].unit, "callers", "check")

Tidy(j) == {s \in Seq(OwnPieces(j)) : Guarded(s)}

LEMMA TidyClosed == ASSUME NEW j PROVE Closed(Tidy(j))
<1>1. << >> \in Tidy(j)
  BY DEF Tidy, Guarded
<1>2. ASSUME NEW s \in Tidy(j), NEW t \in Tidy(j) PROVE s \o t \in Tidy(j)
  <2> DEFINE P == OwnPieces(j)
             r == s \o t
  <2>1. s \in Seq(P) /\ Guarded(s) /\ t \in Seq(P) /\ Guarded(t)
    BY DEF Tidy
  <2> HIDE DEF P
  <2>2. /\ r \in Seq(P) /\ Len(r) = Len(s) + Len(t) /\ Len(s) \in Nat /\ Len(t) \in Nat
        /\ DOMAIN r = 1 .. Len(r) /\ DOMAIN s = 1 .. Len(s) /\ DOMAIN t = 1 .. Len(t)
        /\ \A i \in 1 .. Len(s) : r[i] = s[i]
    BY <2>1
  <2>3. \A i \in 1 .. Len(t) : r[Len(s) + i] = t[i]
    BY <2>1
  <2> HIDE DEF r
  <2>4. ASSUME NEW i \in DOMAIN r, r[i].tool = "callers", r[i].step = "run"
        PROVE  i + 1 \in DOMAIN r /\ r[i + 1] = PieceOf(r[i].unit, "callers", "check")
    <3>1. CASE i <= Len(s)
      <4>1. i \in DOMAIN s /\ r[i] = s[i]
        BY <2>2, <3>1
      <4>2. i + 1 \in DOMAIN s /\ s[i + 1] = PieceOf(s[i].unit, "callers", "check")
        BY <2>1, <2>4, <4>1 DEF Guarded
      <4>3. r[i + 1] = s[i + 1]
        BY <2>2, <4>2
      <4> QED BY <2>2, <4>1, <4>2, <4>3
    <3>2. CASE i > Len(s)
      <4> DEFINE k == i - Len(s)
      <4>1. k \in DOMAIN t /\ i = Len(s) + k
        BY <2>2, <3>2
      <4>2. r[i] = t[k]
        BY <2>2, <2>3, <4>1
      <4>3. k + 1 \in DOMAIN t /\ t[k + 1] = PieceOf(t[k].unit, "callers", "check")
        BY <2>1, <2>4, <4>1, <4>2 DEF Guarded
      <4>4. i + 1 = Len(s) + (k + 1) /\ i + 1 \in DOMAIN r
        BY <2>2, <4>1, <4>3
      <4>5. r[i + 1] = t[k + 1]
        BY <2>2, <2>3, <4>3, <4>4
      <4> QED BY <4>2, <4>3, <4>4, <4>5
    <3> QED BY <2>2, <3>1, <3>2
  <2> QED BY <2>2, <2>4 DEF Tidy, Guarded, P, r
<1> QED BY <1>1, <1>2 DEF Closed

LEMMA ToolPiecesAre ==
  ASSUME NEW j, NEW u \in CommandsOf(j), NEW tool \in Tools, NEW isC
  PROVE  /\ ToolPieces(u, tool, isC) \in Tidy(j)
         /\ Has(ToolPieces(u, tool, isC), PieceOf(u, tool, "run"))
<1> DEFINE two(s) == <<PieceOf(u, tool, "run"), PieceOf(u, tool, s)>>
           seen == IF tool \in {"clang", "callers"} \/ (tool = "frama" /\ isC)
                   THEN "check" ELSE "ignore"
           rest == IF tool = "frama" THEN << >> ELSE <<PieceOf(u, tool, "gzip")>>
           r == ToolPieces(u, tool, isC)
           P == OwnPieces(j)
<1>1. r = two(seen) \o rest
  BY DEF ToolPieces, PieceOf
<1>2. /\ \A s \in {"run", "check", "ignore", "gzip"} : PieceOf(u, tool, s) \in P
      /\ seen \in {"check", "ignore"} /\ (tool = "callers" => seen = "check")
  BY DEF OwnPieces, PieceOf
<1> HIDE DEF P, r, seen
<1>3. two(seen) \in Seq(P) /\ rest \in Seq(P)
  BY <1>2
<1>4. /\ r \in Seq(P) /\ Len(r) \in {2, 3}
      /\ r[1] = PieceOf(u, tool, "run") /\ r[2] = PieceOf(u, tool, seen)
      /\ Len(r) = 3 => r[3] = PieceOf(u, tool, "gzip")
  BY <1>1, <1>3
<1>5. DOMAIN r = 1 .. Len(r)
  BY <1>4
<1>6. Guarded(r)
  <2>1. ASSUME NEW i \in DOMAIN r, r[i].tool = "callers", r[i].step = "run"
        PROVE  i + 1 \in DOMAIN r /\ r[i + 1] = PieceOf(r[i].unit, "callers", "check")
    <3>1. i = 1
      BY <1>2, <1>4, <1>5, <2>1 DEF PieceOf
    <3>2. tool = "callers" /\ r[1].unit = u
      BY <1>4, <2>1, <3>1 DEF PieceOf
    <3>3. i + 1 = 2 /\ 2 \in DOMAIN r
      BY <1>4, <1>5, <3>1
    <3> QED BY <1>2, <1>4, <3>1, <3>2, <3>3
  <2> QED BY <2>1 DEF Guarded
<1>7. 1 \in DOMAIN r
  BY <1>4, <1>5
<1> QED BY <1>4, <1>6, <1>7 DEF Tidy, Has, P, r

LEMMA ToolsOfType == ASSUME NEW type, NEW args PROVE ToolsOf(type, args) \in Seq(Tools)
<1> DEFINE If(c, tool) == IF c THEN <<tool>> ELSE << >>
<1>1. \A c : \A tool \in Tools : If(c, tool) \in Seq(Tools)
  OBVIOUS
<1>2. <<"clang">> \in Seq(Tools) /\ {"callers", "framaCIRGen", "frama"} \subseteq Tools
  BY DEF Tools
<1>3. \A s, t \in Seq(Tools) : s \o t \in Seq(Tools)
  OBVIOUS
<1> QED BY <1>1, <1>2, <1>3 DEF ToolsOf

LEMMA CommandPiecesAre ==
  ASSUME NEW j \in Jobs, NEW i \in DOMAIN build[j].commands
  PROVE  LET args == build[j].commands[i] IN
         /\ CommandPieces(j, i) \in Tidy(j)
         /\ SourceOf(args) # NoFile =>
              \A tool \in ToSet(ToolsOf(build[j].type, args)) :
                Has(CommandPieces(j, i), PieceOf(<<j, i>>, tool, "run"))
<1> DEFINE args == build[j].commands[i]
           tools == ToolsOf(build[j].type, args)
           isC == SourceOf(args) \in CFiles
           parts == [t \in DOMAIN tools |-> ToolPieces(<<j, i>>, tools[t], isC)]
           u == <<j, i>>
<1>1. tools \in Seq(Tools) /\ u \in CommandsOf(j)
  BY ToolsOfType, CommandIs
<1>2. CommandPieces(j, i) = IF SourceOf(args) = NoFile THEN << >> ELSE FlattenSeq(parts)
  BY Zenon DEF CommandPieces
<1> HIDE DEF tools, isC, u
<1>3. \A t \in DOMAIN tools : tools[t] \in Tools
  BY <1>1
<1>4. \A t \in DOMAIN tools : parts[t] \in Tidy(j) /\ Has(parts[t], PieceOf(u, tools[t], "run"))
  BY <1>1, <1>3, ToolPiecesAre DEF u
<1>5. parts \in Seq(Tidy(j)) /\ DOMAIN parts = DOMAIN tools
  <2>1. DOMAIN tools = 1 .. Len(tools) /\ Len(tools) \in Nat
    BY <1>1
  <2>2. parts \in [1 .. Len(tools) -> Tidy(j)]
    BY <1>4, <2>1
  <2> HIDE DEF parts
  <2> QED BY <2>1, <2>2
<1>6. FlattenSeq(parts) \in Tidy(j) /\ << >> \in Tidy(j)
  <2> HIDE DEF parts
  <2> QED BY <1>5, TidyClosed, FlattenIn DEF Closed
<1>7. ASSUME NEW tool \in ToSet(tools)
      PROVE  Has(FlattenSeq(parts), PieceOf(u, tool, "run"))
  <2>1. PICK t \in DOMAIN tools : tools[t] = tool
    BY DEF ToSet
  <2>2. Tidy(j) \subseteq Seq(OwnPieces(j))
    BY DEF Tidy
  <2>3. parts \in Seq(Seq(OwnPieces(j)))
    <3> HIDE DEF parts
    <3>1. \A k \in 1 .. Len(parts) : parts[k] \in Tidy(j)
      BY <1>5
    <3> QED BY <1>5, <2>2, <3>1
  <2>4. t \in DOMAIN parts /\ Has(parts[t], PieceOf(u, tool, "run"))
    BY <1>4, <1>5, <2>1
  <2> HIDE DEF parts
  <2> QED BY <2>3, <2>4, FlattenHas
<1> HIDE DEF parts
<1> QED BY <1>2, <1>6, <1>7 DEF tools, u

LEMMA ScriptOfIs ==
  ASSUME build \in Builds, NEW j \in Jobs
  PROVE  /\ ScriptOf(j) \in Tidy(j)
         /\ \A u \in Analysed(j) : Has(ScriptOf(j), PieceOf(u, "callers", "run"))
<1> DEFINE cs == build[j].commands
           parts == [i \in DOMAIN cs |-> CommandPieces(j, i)]
<1>1. cs \in Seq(Seq(STRING))
  BY BuildIs
<1>2. ScriptOf(j) = FlattenSeq(parts)
  BY DEF ScriptOf
<1>3. \A i \in DOMAIN cs : CommandPieces(j, i) \in Tidy(j)
  BY CommandPiecesAre
<1> HIDE DEF cs
<1>4. parts \in Seq(Tidy(j)) /\ DOMAIN parts = DOMAIN cs
  <2>1. DOMAIN cs = 1 .. Len(cs) /\ Len(cs) \in Nat
    BY <1>1
  <2>2. parts \in [1 .. Len(cs) -> Tidy(j)]
    BY <1>3, <2>1
  <2> HIDE DEF parts
  <2> QED BY <2>1, <2>2
<1>5. parts \in Seq(Seq(OwnPieces(j)))
  <2>1. Tidy(j) \subseteq Seq(OwnPieces(j))
    BY DEF Tidy
  <2> HIDE DEF parts
  <2>2. \A k \in 1 .. Len(parts) : parts[k] \in Tidy(j)
    BY <1>4
  <2> QED BY <1>4, <2>1, <2>2
<1>6. ASSUME NEW u \in Analysed(j) PROVE Has(ScriptOf(j), PieceOf(u, "callers", "run"))
  <2> DEFINE i == u[2]
  <2>1. i \in DOMAIN cs /\ u = <<j, i>>
    BY CommandIs DEF Analysed, cs
  <2>2. /\ SourceOf(build[j].commands[i]) # NoFile
        /\ "callers" \in ToSet(ToolsOf(build[j].type, build[j].commands[i]))
    BY Zenon DEF Analysed
  <2> HIDE DEF i
  <2>3. Has(CommandPieces(j, i), PieceOf(<<j, i>>, "callers", "run"))
    BY <2>1, <2>2, CommandPiecesAre DEF cs
  <2>4. i \in DOMAIN parts /\ Has(parts[i], PieceOf(u, "callers", "run"))
    BY <1>4, <2>1, <2>3
  <2> HIDE DEF parts
  <2> QED BY <1>2, <1>5, <2>4, FlattenHas
<1> HIDE DEF parts
<1> QED BY <1>2, <1>4, <1>6, TidyClosed, FlattenIn

-----------------------------------------------------------------------------
(* A build does not change, nor what is made of it.                         *)

ScriptNames == {ScriptName(j) : j \in {k \in Jobs : build[k].driver # "callers"}}

\* The job is one that gets a launch script.
HasScript(j) ==
  \/ build[j].driver = "cmake"
  \/ build[j].driver \in {"ccc", "c++"} /\ FileOf(j) # NoFile

LEMMA SameBuild ==
  build' = build =>
    /\ Jobs' = Jobs /\ Pieces' = Pieces /\ AllCommands' = AllCommands /\ ScriptNames' = ScriptNames
    /\ \A j : /\ ScriptOf(j)' = ScriptOf(j) /\ ScriptName(j)' = ScriptName(j)
              /\ HasScript(j)' = HasScript(j) /\ Rivals(j)' = Rivals(j)
              /\ FileOf(j)' = FileOf(j)
              /\ Analysed(j)' = Analysed(j) /\ CallersArguments(j)' = CallersArguments(j)
<1> SUFFICES ASSUME build' = build
             PROVE  /\ Jobs' = Jobs /\ Pieces' = Pieces /\ AllCommands' = AllCommands
                    /\ ScriptNames' = ScriptNames
                    /\ \A j : /\ ScriptOf(j)' = ScriptOf(j) /\ ScriptName(j)' = ScriptName(j)
                              /\ HasScript(j)' = HasScript(j) /\ Rivals(j)' = Rivals(j)
                              /\ FileOf(j)' = FileOf(j) /\ Analysed(j)' = Analysed(j)
                              /\ CallersArguments(j)' = CallersArguments(j)
  OBVIOUS
<1>1. Jobs' = Jobs
  BY Zenon DEF Jobs
<1>2. Pieces' = Pieces /\ AllCommands' = AllCommands
  BY Zenon DEF Pieces, AllCommands, CommandsOf, Hole, Broken
<1>3. ScriptNames' = ScriptNames
  BY Zenon DEF ScriptNames, ScriptName, FileOf, Jobs
<1>4. ASSUME NEW j PROVE ScriptOf(j)' = ScriptOf(j)
  BY Zenon DEF ScriptOf, CommandPieces
<1>5. ASSUME NEW j PROVE ScriptName(j)' = ScriptName(j) /\ FileOf(j)' = FileOf(j)
  BY Zenon DEF ScriptName, FileOf
<1>6. ASSUME NEW j PROVE HasScript(j)' = HasScript(j)
  BY Zenon DEF HasScript, FileOf
<1>7. ASSUME NEW j PROVE Rivals(j)' = Rivals(j)
  BY Zenon DEF Rivals, FileOf
<1>8. ASSUME NEW j PROVE Analysed(j)' = Analysed(j)
  BY Zenon DEF Analysed, CommandsOf, FileOf
<1>9. ASSUME NEW j PROVE CallersArguments(j)' = CallersArguments(j)
  BY Zenon DEF CallersArguments
<1> QED BY <1>1, <1>2, <1>3, <1>4, <1>5, <1>6, <1>7, <1>8, <1>9, Zenon

-----------------------------------------------------------------------------
(* Types.                                                                   *)

Real == [unit : AllCommands, tool : Tools, step : {"run", "check", "ignore", "gzip"}]
Parsing == [args : Seq(Words), left : Nat, output : BOOLEAN, version : BOOLEAN]

\* callers goes through the arguments that its job gives it.
GivenArgs(j) ==
  /\ build[j].driver = "callers" => parsing[j].args = build[j].commands[1]
  /\ build[j].driver # "callers" =>
       /\ running[j] # << >> /\ running[j][1] \in Real
       /\ running[j][1].tool = "callers" /\ running[j][1].step = "run"
       /\ parsing[j].args = CallersArguments(running[j][1].unit)

\* Which jobs get where.
PlaceOK(j) ==
  /\ build[j].driver = "callers" => pc[j] \in {"start", "parse", "ended"}
  /\ pc[j] \in {"write", "source"} => HasScript(j)
  /\ pc[j] = "parse" => GivenArgs(j)

VarTypes ==
  /\ build \in Builds
  /\ pc \in [Jobs -> {"start", "write", "source", "run", "parse", "ended"}]
  /\ script \in [ScriptNames -> Seq(Pieces)]
  /\ unwritten \in [Jobs -> Seq(Pieces)] /\ offset \in [Jobs -> Nat]
  /\ running \in [Jobs -> Seq(Pieces)]
  /\ status \in [Jobs -> {0, 1}]
  /\ parsing \in [Jobs -> Parsing]
  /\ done \subseteq Jobs \X Tools \X AllCommands
  /\ mixed \subseteq Jobs
  /\ unbegun \subseteq Jobs \X AllCommands
  /\ \A j \in Jobs : parsing[j].left <= Len(parsing[j].args)

TypeInv == VarTypes /\ \A j \in Jobs : PlaceOK(j)

LEMMA PiecesAre ==
  /\ Pieces = {Hole, Broken} \cup Real
  /\ Hole.step = "hole" /\ Broken.step = "broken"
BY DEF Pieces, Real, Hole, Broken

LEMMA PutPieceType ==
  ASSUME NEW text \in Seq(Pieces), NEW n \in Nat \ {0}, NEW piece \in Pieces
  PROVE  PutPiece(text, n, piece) \in Seq(Pieces)
<1> DEFINE m == IF Len(text) > n THEN Len(text) ELSE n
           val(i) == IF i = n THEN piece ELSE IF i \in DOMAIN text THEN text[i] ELSE Hole
<1>1. m \in Nat /\ Hole \in Pieces
  BY PiecesAre
<1>2. \A i \in 1 .. m : val(i) \in Pieces
  BY <1>1
<1>3. PutPiece(text, n, piece) = [i \in 1 .. m |-> val(i)]
  BY Zenon DEF PutPiece
<1> HIDE DEF m, val
<1> QED BY <1>1, <1>2, <1>3

LEMMA ReadingsType ==
  ASSUME NEW j, NEW text \in Seq(Pieces) PROVE Readings(j, text) \subseteq Seq(Pieces)
<1> DEFINE kept == Without(text, {Hole})
<1>1. kept \in Seq(Pieces \ {Hole})
  BY WithoutType
<1>2. kept \in Seq(Pieces)
  BY <1>1
<1>3. Broken \in Pieces
  BY PiecesAre
<1> HIDE DEF kept
<1>4. Append(kept, Broken) \in Seq(Pieces) /\ <<Broken>> \in Seq(Pieces)
  BY <1>2, <1>3
<1> QED BY <1>2, <1>4 DEF Readings, kept

\* A script is written to the file of its job.
LEMMA ScriptNamed ==
  ASSUME build \in Builds, NEW j \in Jobs, HasScript(j) PROVE ScriptName(j) \in ScriptNames
<1>1. build[j].driver # "callers"
  BY DEF HasScript
<1> QED BY <1>1, Zenon DEF ScriptNames

LEMMA ScriptOfType ==
  ASSUME build \in Builds, NEW j \in Jobs PROVE ScriptOf(j) \in Seq(Pieces)
<1>1. ScriptOf(j) \in Seq(OwnPieces(j))
  BY ScriptOfIs DEF Tidy
<1>2. OwnPieces(j) \subseteq Pieces
  BY CommandIs, PiecesAre DEF OwnPieces, Real
<1> HIDE DEF OwnPieces
<1> QED BY <1>1, <1>2

\* A step of job j changes nothing of what is of others.
Others(j) ==
  \A k \in Jobs \ {j} :
    /\ pc'[k] = pc[k] /\ unwritten'[k] = unwritten[k] /\ offset'[k] = offset[k]
    /\ running'[k] = running[k] /\ status'[k] = status[k] /\ parsing'[k] = parsing[k]

LEMMA StepFrame ==
  ASSUME VarTypes, NEW j \in Jobs, Step(j)
  PROVE  /\ build' = build /\ mixed \subseteq mixed'
         /\ done \subseteq done' /\ unbegun \subseteq unbegun'
         /\ Others(j)
<1> USE DEF VarTypes, Others
<1>1. CASE Forward(j) \/ Bypass(j) \/ Untyped(j)
  BY <1>1 DEF Forward, Bypass, Untyped, End
<1>2. CASE Truncate(j)
  BY <1>2 DEF Truncate
<1>3. CASE Write(j) \/ Written(j)
  BY <1>3 DEF Write, Written
<1>4. CASE Source(j)
  BY <1>4 DEF Source
<1>5. CASE RunTool(j)
  BY <1>5 DEF RunTool
<1>6. CASE Check(j) \/ Ignore(j) \/ Gzip(j) \/ Return(j)
  BY <1>6 DEF Check, Ignore, Gzip, Return, End
<1>7. CASE RunCallers(j) \/ RunByHand(j)
  BY <1>7 DEF RunCallers, RunByHand, StartParsing
<1>8. CASE ProcessOutput(j)
  BY <1>8 DEF ProcessOutput, CallersEnds, End
<1>9. CASE ProcessLong(j) \/ ProcessOther(j)
  BY <1>9 DEF ProcessLong, ProcessOther
<1>10. CASE Analyse(j)
  BY <1>10 DEF Analyse, CallersEnds, End
<1> QED BY <1>1, <1>2, <1>3, <1>4, <1>5, <1>6, <1>7, <1>8, <1>9, <1>10 DEF Step

\* What a job runs next.
LEMMA AtReal ==
  ASSUME VarTypes, NEW j \in Jobs, NEW steps, NEW tools, At(j, steps, tools),
         "hole" \notin steps, "broken" \notin steps
  PROVE  /\ pc[j] = "run" /\ running[j] # << >> /\ running[j] \in Seq(Pieces)
         /\ running[j][1] \in Real
         /\ running[j][1].step \in steps /\ running[j][1].tool \in tools
<1>1. running[j] \in Seq(Pieces) /\ running[j] # << >>
  BY DEF VarTypes, At
<1>2. running[j][1] \in Pieces
  BY <1>1
<1>3. running[j][1] \in Real
  BY <1>2, PiecesAre DEF At
<1> QED BY <1>1, <1>3 DEF At

LEMMA TailType ==
  ASSUME NEW s \in Seq(Pieces), s # << >> PROVE Tail(s) \in Seq(Pieces) /\ s[1] \in Pieces
OBVIOUS

\* A step of the loop over the arguments, with the record that it leaves.
ReadOn(j, k, o, v) == [args |-> parsing[j].args, left |-> k, output |-> o, version |-> v]

LEMMA ReadOnIs ==
  ASSUME VarTypes, NEW j \in Jobs
  PROVE  /\ parsing[j] = ReadOn(j, parsing[j].left, parsing[j].output, parsing[j].version)
         /\ parsing[j].args \in Seq(Words) /\ parsing[j].left \in Nat
         /\ parsing[j].left <= Len(parsing[j].args) /\ Len(parsing[j].args) \in Nat
         /\ parsing[j].output \in BOOLEAN /\ parsing[j].version \in BOOLEAN
<1>1. parsing[j] \in Parsing /\ parsing[j].left <= Len(parsing[j].args)
  BY DEF VarTypes
<1> QED BY <1>1 DEF Parsing, ReadOn

LEMMA OtherIs ==
  ASSUME VarTypes, NEW j \in Jobs, ProcessOther(j)
  PROVE  /\ parsing[j].left - 1 \in Nat /\ pc[j] = "parse"
         /\ Word(j) \notin OWords \cup LongWords \cup {"--version"}
         /\ UNCHANGED <<pc, running, status, done, outputs>>
         /\ parsing' = [parsing EXCEPT ![j] =
              ReadOn(j, parsing[j].left - 1, parsing[j].output, parsing[j].version)]
<1>1. parsing[j] \in Parsing /\ j \in DOMAIN parsing
  BY DEF VarTypes
<1>2. parsing' = [parsing EXCEPT ![j] = [parsing[j] EXCEPT !.left = @ - 1]] /\ parsing[j].left > 0
  BY <1>1 DEF ProcessOther
<1>3. [parsing[j] EXCEPT !.left = @ - 1] =
        ReadOn(j, parsing[j].left - 1, parsing[j].output, parsing[j].version)
  BY <1>1 DEF Parsing, ReadOn
<1>4. parsing[j].left - 1 \in Nat
  BY <1>1, <1>2 DEF Parsing
<1> QED BY <1>2, <1>3, <1>4 DEF ProcessOther

LEMMA LongIs ==
  ASSUME VarTypes, NEW j \in Jobs, ProcessLong(j)
  PROVE  /\ UNCHANGED <<pc, running, status, done, outputs>>
         /\ pc[j] = "parse" /\ parsing[j].left > 0
         /\ \/ Word(j) \in LongWords /\ UNCHANGED parsing
            \/ /\ Word(j) = "--version" /\ parsing[j].left - 1 \in Nat
               /\ parsing' = [parsing EXCEPT ![j] =
                    ReadOn(j, parsing[j].left - 1, parsing[j].output, TRUE)]
<1>1. parsing[j] \in Parsing /\ j \in DOMAIN parsing
  BY DEF VarTypes
<1>2. CASE Word(j) # "--version"
  BY <1>2 DEF ProcessLong
<1>3. CASE Word(j) = "--version"
  <2> DEFINE q == [parsing[j] EXCEPT !.left = @ - 1]
             f == [parsing EXCEPT ![j] = q]
             p == ReadOn(j, parsing[j].left - 1, parsing[j].output, TRUE)
  <2>1. parsing' = [parsing EXCEPT ![j].left = @ - 1, ![j].version = TRUE] /\ parsing[j].left > 0
    BY <1>3 DEF ProcessLong
  <2>2. q = ReadOn(j, parsing[j].left - 1, parsing[j].output, parsing[j].version)
    BY <1>1 DEF Parsing, ReadOn
  <2>3. parsing[j].left - 1 \in Nat
    BY <1>1, <2>1 DEF Parsing
  <2>4. q \in Parsing
    BY <1>1, <2>2, <2>3 DEF Parsing, ReadOn
  <2>5. ASSUME NEW r \in Parsing, NEW b
        PROVE  [r EXCEPT !.version = b] =
               [args |-> r.args, left |-> r.left, output |-> r.output, version |-> b]
    BY DEF Parsing
  <2>6. q.args = parsing[j].args /\ q.left = parsing[j].left - 1 /\ q.output = parsing[j].output
    BY <2>2 DEF ReadOn
  <2>7. [q EXCEPT !.version = TRUE] = p
    <3>1. [q EXCEPT !.version = TRUE] =
            [args |-> q.args, left |-> q.left, output |-> q.output, version |-> TRUE]
      <4> HIDE DEF q
      <4> QED BY <2>4, <2>5, Zenon
    <3> HIDE DEF q
    <3> QED BY <2>6, <3>1, Zenon DEF ReadOn
  <2>8. f[j] = q /\ parsing' = [f EXCEPT ![j] = [f[j] EXCEPT !.version = TRUE]]
    BY <1>1, <2>1
  <2>9. parsing' = [f EXCEPT ![j] = p]
    BY <2>7, <2>8
  <2>10. parsing' = [parsing EXCEPT ![j] = p]
    <3> HIDE DEF p, q
    <3> QED BY <2>9
  <2> QED BY <1>3, <2>1, <2>3, <2>10 DEF ProcessLong
<1> QED BY <1>2, <1>3

LEMMA OutputIs ==
  ASSUME VarTypes, NEW j \in Jobs, ProcessOutput(j)
  PROVE  /\ pc[j] = "parse" /\ parsing[j].left > 0 /\ Word(j) \in OWords
         /\ UNCHANGED <<done, outputs>>
         /\ \/ CallersEnds(j, 0) /\ (parsing[j].left = 1 \/ parsing[j].output)
            \/ /\ parsing[j].left # 1 /\ ~ parsing[j].output /\ parsing[j].left - 2 \in Nat
               /\ UNCHANGED <<pc, running, status>>
               /\ parsing' = [parsing EXCEPT ![j] =
                    ReadOn(j, parsing[j].left - 2, TRUE, parsing[j].version)]
<1>1. parsing[j] \in Parsing /\ j \in DOMAIN parsing
  BY DEF VarTypes
<1>2. CASE parsing[j].left = 1 \/ parsing[j].output
  BY <1>2 DEF ProcessOutput
<1>3. CASE parsing[j].left # 1 /\ ~ parsing[j].output
  <2> DEFINE q == [parsing[j] EXCEPT !.left = @ - 2]
             f == [parsing EXCEPT ![j] = q]
             p == ReadOn(j, parsing[j].left - 2, TRUE, parsing[j].version)
  <2>1. parsing' = [parsing EXCEPT ![j].left = @ - 2, ![j].output = TRUE] /\ parsing[j].left > 0
    BY <1>3 DEF ProcessOutput
  <2>2. q = ReadOn(j, parsing[j].left - 2, parsing[j].output, parsing[j].version)
    BY <1>1 DEF Parsing, ReadOn
  <2>3. parsing[j].left - 2 \in Nat
    BY <1>1, <1>3, <2>1 DEF Parsing
  <2>4. q \in Parsing
    BY <1>1, <2>2, <2>3 DEF Parsing, ReadOn
  <2>5. ASSUME NEW r \in Parsing, NEW b
        PROVE  [r EXCEPT !.output = b] =
               [args |-> r.args, left |-> r.left, output |-> b, version |-> r.version]
    BY DEF Parsing
  <2>6. q.args = parsing[j].args /\ q.left = parsing[j].left - 2 /\ q.version = parsing[j].version
    BY <2>2 DEF ReadOn
  <2>7. [q EXCEPT !.output = TRUE] = p
    <3>1. [q EXCEPT !.output = TRUE] =
            [args |-> q.args, left |-> q.left, output |-> TRUE, version |-> q.version]
      <4> HIDE DEF q
      <4> QED BY <2>4, <2>5, Zenon
    <3> HIDE DEF q
    <3> QED BY <2>6, <3>1, Zenon DEF ReadOn
  <2>8. f[j] = q /\ parsing' = [f EXCEPT ![j] = [f[j] EXCEPT !.output = TRUE]]
    BY <1>1, <2>1
  <2>9. parsing' = [f EXCEPT ![j] = p]
    BY <2>7, <2>8
  <2>10. parsing' = [parsing EXCEPT ![j] = p]
    <3> HIDE DEF p, q
    <3> QED BY <2>9
  <2> QED BY <1>3, <2>1, <2>3, <2>10 DEF ProcessOutput
<1> QED BY <1>2, <1>3

\* The variables keep their types.
LEMMA TypesKept ==
  ASSUME TypeInv, NEW j \in Jobs, Step(j) PROVE VarTypes'
<1>0. build' = build
  BY StepFrame DEF TypeInv
<1>1. Jobs' = Jobs /\ Pieces' = Pieces /\ AllCommands' = AllCommands /\ ScriptNames' = ScriptNames
  BY <1>0, SameBuild
<1>2. VarTypes /\ PlaceOK(j)
  BY DEF TypeInv
<1>3. build \in Builds
  BY <1>2 DEF VarTypes
<1> SUFFICES
      /\ pc' \in [Jobs -> {"start", "write", "source", "run", "parse", "ended"}]
      /\ script' \in [ScriptNames -> Seq(Pieces)]
      /\ unwritten' \in [Jobs -> Seq(Pieces)] /\ offset' \in [Jobs -> Nat]
      /\ running' \in [Jobs -> Seq(Pieces)]
      /\ status' \in [Jobs -> {0, 1}]
      /\ parsing' \in [Jobs -> Parsing]
      /\ done' \subseteq Jobs \X Tools \X AllCommands
      /\ mixed' \subseteq Jobs
      /\ unbegun' \subseteq Jobs \X AllCommands
      /\ \A k \in Jobs : parsing'[k].left <= Len(parsing'[k].args)
  BY <1>0, <1>1, <1>3 DEF VarTypes
<1> HIDE DEF Jobs
<1>4. CASE Forward(j)
  <2>1. <<j, "clang", <<j, 1>>>> \in Jobs \X Tools \X AllCommands
    <3>1. build[j].driver # "cmake" /\ 1 \in DOMAIN build[j].commands
      BY <1>3, <1>4, BuildIs DEF Forward
    <3> QED BY <3>1, CommandIs DEF Tools
  <2> QED BY <1>2, <1>4, <2>1 DEF Forward, End, VarTypes
<1>5. CASE Bypass(j) \/ Untyped(j)
  BY <1>2, <1>5 DEF Bypass, Untyped, End, VarTypes
<1>6. CASE Truncate(j)
  <2>1. ScriptOf(j) \in Seq(Pieces) /\ << >> \in Seq(Pieces)
    BY <1>3, ScriptOfType
  <2>2. Rivals(j) \subseteq Jobs
    BY DEF Rivals, Jobs
  <2> QED BY <1>2, <1>6, <2>1, <2>2 DEF Truncate, VarTypes
<1>7. CASE Write(j)
  <2>1. ScriptName(j) \in ScriptNames
    BY <1>2, <1>3, <1>7, ScriptNamed DEF Write, PlaceOK
  <2>2. unwritten[j] \in Seq(Pieces) /\ unwritten[j] # << >> /\ offset[j] \in Nat
    BY <1>2, <1>7 DEF Write, VarTypes
  <2>3. Tail(unwritten[j]) \in Seq(Pieces) /\ unwritten[j][1] \in Pieces
    BY <2>2, TailType
  <2>4. script[ScriptName(j)] \in Seq(Pieces)
    BY <1>2, <2>1 DEF VarTypes
  <2>5. PutPiece(script[ScriptName(j)], offset[j] + 1, unwritten[j][1]) \in Seq(Pieces)
    <3>1. offset[j] + 1 \in Nat \ {0}
      BY <2>2
    <3> QED BY <2>3, <2>4, <3>1, PutPieceType
  <2>6. script' \in [ScriptNames -> Seq(Pieces)]
    BY <1>2, <1>7, <2>5 DEF Write, VarTypes
  <2>7. unwritten' \in [Jobs -> Seq(Pieces)] /\ offset' \in [Jobs -> Nat]
    BY <1>2, <1>7, <2>2, <2>3 DEF Write, VarTypes
  <2> QED BY <1>2, <1>7, <2>6, <2>7 DEF Write, VarTypes
<1>8. CASE Written(j)
  BY <1>2, <1>8 DEF Written, VarTypes
<1>9. CASE Source(j)
  <2>1. ScriptName(j) \in ScriptNames
    BY <1>2, <1>3, <1>9, ScriptNamed DEF Source, PlaceOK
  <2>2. Readings(j, script[ScriptName(j)]) \subseteq Seq(Pieces)
    BY <1>2, <2>1, ReadingsType DEF VarTypes
  <2> QED BY <1>2, <1>9, <2>2 DEF Source, VarTypes
<1>10. CASE RunTool(j)
  <2>1. /\ running[j] # << >> /\ running[j] \in Seq(Pieces) /\ running[j][1] \in Real
        /\ running[j][1].tool \in Tools
    BY <1>2, <1>10, AtReal DEF RunTool
  <2>2. Tail(running[j]) \in Seq(Pieces)
    BY <2>1, TailType
  <2>3. <<j, running[j][1].tool, running[j][1].unit>> \in Jobs \X Tools \X AllCommands
    BY <2>1 DEF Real
  <2> QED BY <1>2, <1>10, <2>2, <2>3 DEF RunTool, VarTypes
<1>11. CASE Check(j) \/ Ignore(j) \/ Gzip(j)
  <2>1. running[j] # << >> /\ running[j] \in Seq(Pieces)
    BY <1>2, <1>11 DEF Check, Ignore, Gzip, At, VarTypes
  <2>2. Tail(running[j]) \in Seq(Pieces) /\ << >> \in Seq(Pieces)
    BY <2>1, TailType
  <2> QED BY <1>2, <1>11, <2>2 DEF Check, Ignore, Gzip, VarTypes
<1>12. CASE Return(j)
  BY <1>2, <1>12 DEF Return, End, VarTypes
<1>13. CASE RunCallers(j)
  <2>1. CallersArguments(running[j][1].unit) \in Seq(Words)
    <3>1. running[j][1] \in Real
      BY <1>2, <1>13, AtReal DEF RunCallers
    <3> QED BY <1>3, <3>1, CallersArgumentsType DEF Real
  <2> DEFINE p == [args |-> CallersArguments(running[j][1].unit),
                   left |-> Len(CallersArguments(running[j][1].unit)),
                   output |-> FALSE, version |-> FALSE]
  <2>2. p \in Parsing /\ p.left <= Len(p.args)
    BY <2>1 DEF Parsing
  <2>3. parsing' = [parsing EXCEPT ![j] = p]
    BY <1>13 DEF RunCallers, StartParsing
  <2> HIDE DEF p
  <2> QED BY <1>2, <1>13, <2>2, <2>3 DEF RunCallers, VarTypes
<1>14. CASE RunByHand(j)
  <2> DEFINE args == build[j].commands[1]
             p == [args |-> args, left |-> Len(args), output |-> FALSE, version |-> FALSE]
  <2>1. args \in Seq(Words)
    <3>1. args \in Seq(STRING)
      BY <1>3, <1>14, BuildIs DEF RunByHand
    <3>2. \A i \in 1 .. Len(args) : args[i] \in Words
      BY <3>1 DEF Words
    <3> HIDE DEF args
    <3> QED BY <3>1, <3>2
  <2> HIDE DEF args
  <2>2. p \in Parsing /\ p.left <= Len(p.args)
    BY <2>1 DEF Parsing
  <2>3. parsing' = [parsing EXCEPT ![j] = p]
    BY <1>14 DEF RunByHand, StartParsing, args
  <2> HIDE DEF p
  <2> QED BY <1>2, <1>14, <2>2, <2>3 DEF RunByHand, VarTypes
<1> DEFINE Ends == \E s \in {0, 1} : CallersEnds(j, s)
<1>15. ASSUME Ends, pc[j] = "parse"
       PROVE  /\ pc' \in [Jobs -> {"start", "write", "source", "run", "parse", "ended"}]
              /\ running' \in [Jobs -> Seq(Pieces)]
              /\ status' \in [Jobs -> {0, 1}]
              /\ parsing' \in [Jobs -> Parsing]
              /\ \A k \in Jobs : parsing'[k].left <= Len(parsing'[k].args)
  <2>1. NotParsing \in Parsing /\ NotParsing.left <= Len(NotParsing.args)
    BY DEF NotParsing, Parsing
  <2>2. build[j].driver # "callers" => Tail(running[j]) \in Seq(Pieces)
    BY <1>2, <1>15, TailType DEF PlaceOK, GivenArgs, VarTypes
  <2>3. /\ parsing' = [parsing EXCEPT ![j] = NotParsing]
        /\ pc' \in [Jobs -> {"start", "write", "source", "run", "parse", "ended"}]
        /\ running' \in [Jobs -> Seq(Pieces)]
        /\ status' \in [Jobs -> {0, 1}]
    BY <1>2, <1>15, <2>2 DEF CallersEnds, End, VarTypes
  <2> QED BY <1>2, <2>1, <2>3 DEF VarTypes
<1>16. ASSUME NEW p, parsing' = [parsing EXCEPT ![j] = p], p \in Parsing, p.left <= Len(p.args)
       PROVE  /\ parsing' \in [Jobs -> Parsing]
              /\ \A k \in Jobs : parsing'[k].left <= Len(parsing'[k].args)
  BY <1>2, <1>16 DEF VarTypes
<1>17. ASSUME NEW k \in Nat, k <= parsing[j].left, NEW o \in BOOLEAN, NEW v \in BOOLEAN
       PROVE  ReadOn(j, k, o, v) \in Parsing /\ ReadOn(j, k, o, v).left <= Len(ReadOn(j, k, o, v).args)
  <2>1. /\ parsing[j].args \in Seq(Words) /\ parsing[j].left \in Nat
        /\ parsing[j].left <= Len(parsing[j].args) /\ Len(parsing[j].args) \in Nat
    BY <1>2, ReadOnIs
  <2> DEFINE a == parsing[j].args
             l == parsing[j].left
  <2>2. ReadOn(j, k, o, v) = [args |-> a, left |-> k, output |-> o, version |-> v] /\ k <= Len(a)
    <3> HIDE DEF a, l
    <3> QED BY <1>17, <2>1 DEF ReadOn, a, l
  <2> HIDE DEF a
  <2> QED BY <1>17, <2>1, <2>2 DEF Parsing, a
<1>18. CASE ProcessOutput(j)
  <2>1. CASE CallersEnds(j, 0)
    BY <1>2, <1>15, <1>18, <2>1 DEF ProcessOutput, VarTypes
  <2>2. CASE ~ CallersEnds(j, 0)
    <3> DEFINE p == ReadOn(j, parsing[j].left - 2, TRUE, parsing[j].version)
    <3>1. parsing[j].left - 2 \in Nat /\ parsing' = [parsing EXCEPT ![j] = p]
          /\ UNCHANGED <<pc, running, status>>
      BY <1>2, <1>18, <2>2, OutputIs
    <3>2. p \in Parsing /\ p.left <= Len(p.args)
      <4> DEFINE n == parsing[j].left
      <4>1. n - 2 \in Nat /\ n - 2 <= n /\ parsing[j].version \in BOOLEAN
        BY <1>2, <3>1, ReadOnIs
      <4> HIDE DEF n
      <4> QED BY <1>17, <4>1 DEF n
    <3> HIDE DEF p
    <3> QED BY <1>2, <1>16, <1>18, <3>1, <3>2 DEF ProcessOutput, VarTypes
  <2> QED BY <2>1, <2>2
<1>19. CASE ProcessLong(j) \/ ProcessOther(j)
  <2> DEFINE p == ReadOn(j, parsing[j].left - 1, parsing[j].output, parsing[j].version)
             q == ReadOn(j, parsing[j].left - 1, parsing[j].output, TRUE)
  <2>1. \/ UNCHANGED parsing
        \/ /\ parsing[j].left - 1 \in Nat
           /\ parsing' = [parsing EXCEPT ![j] = p] \/ parsing' = [parsing EXCEPT ![j] = q]
    BY <1>2, <1>19, LongIs, OtherIs
  <2>2. parsing[j].left - 1 \in Nat =>
          p \in Parsing /\ p.left <= Len(p.args) /\ q \in Parsing /\ q.left <= Len(q.args)
    <3> DEFINE n == parsing[j].left
    <3>1. /\ n - 1 <= n /\ parsing[j].version \in BOOLEAN /\ parsing[j].output \in BOOLEAN
      BY <1>2, ReadOnIs
    <3> HIDE DEF n
    <3>2. ASSUME n - 1 \in Nat PROVE p \in Parsing /\ p.left <= Len(p.args)
      BY <1>17, <3>1, <3>2 DEF n
    <3>3. ASSUME n - 1 \in Nat PROVE q \in Parsing /\ q.left <= Len(q.args)
      BY <1>17, <3>1, <3>3 DEF n
    <3> HIDE DEF p, q
    <3> QED BY <3>2, <3>3 DEF n
  <2> HIDE DEF p, q
  <2> QED BY <1>2, <1>16, <1>19, <2>1, <2>2 DEF ProcessLong, ProcessOther, VarTypes
<1>20. CASE Analyse(j)
  <2>1. Ends /\ pc[j] = "parse" /\ UNCHANGED <<build, script, unwritten, offset, mixed>>
    BY <1>20 DEF Analyse
  <2> DEFINE unit == IF build[j].driver = "callers" THEN <<j, 1>> ELSE running[j][1].unit
  <2>2. unit \in AllCommands
    <3>1. CASE build[j].driver = "callers"
      <4>1. 1 \in DOMAIN build[j].commands
        BY <1>3, <3>1, BuildIs
      <4> QED BY <3>1, <4>1, CommandIs
    <3>2. CASE build[j].driver # "callers"
      BY <1>2, <2>1, <3>2 DEF PlaceOK, GivenArgs, Real
    <3> QED BY <3>1, <3>2
  <2>3. /\ done' = done \/ done' = done \cup {<<j, "callers", unit>>}
        /\ unbegun' = unbegun \/ unbegun' = unbegun \cup {<<j, unit>>}
    BY <1>20 DEF Analyse
  <2> HIDE DEF unit
  <2>4. /\ done' \subseteq Jobs \X Tools \X AllCommands
        /\ unbegun' \subseteq Jobs \X AllCommands
    BY <1>2, <2>2, <2>3 DEF VarTypes, Tools
  <2> QED BY <1>2, <1>15, <2>1, <2>4 DEF VarTypes
<1> QED BY <1>4, <1>5, <1>6, <1>7, <1>8, <1>9, <1>10, <1>11, <1>12, <1>13, <1>14, <1>18,
           <1>19, <1>20 DEF Step

LEMMA PlacesKept ==
  ASSUME TypeInv, NEW j \in Jobs, Step(j) PROVE \A k \in Jobs : PlaceOK(k)'
<1>0. /\ build' = build /\ Others(j) /\ VarTypes /\ VarTypes'
      /\ \A k \in Jobs : PlaceOK(k)
  BY StepFrame, TypesKept DEF TypeInv
<1>1. \A k : /\ HasScript(k)' = HasScript(k)
             /\ CallersArguments(k)' = CallersArguments(k)
  BY <1>0, SameBuild
<1>2. Real' = Real
  BY <1>0, SameBuild DEF Real
<1>3. ASSUME NEW k \in Jobs \ {j} PROVE PlaceOK(k)'
  <2>1. pc'[k] = pc[k] /\ running'[k] = running[k] /\ parsing'[k] = parsing[k]
    BY <1>0 DEF Others
  <2>2. CallersArguments(running[k][1].unit)' = CallersArguments(running'[k][1].unit)
    BY <1>0, Zenon DEF CallersArguments
  <2> QED BY <1>0, <1>1, <1>2, <2>1, <2>2 DEF PlaceOK, GivenArgs
<1>4. PlaceOK(j)'
  <2>0. PlaceOK(j) /\ j \in DOMAIN pc /\ j \in DOMAIN parsing /\ j \in DOMAIN running
    BY <1>0 DEF VarTypes
  <2>1. CASE Forward(j) \/ Bypass(j) \/ Untyped(j) \/ Truncate(j)
    BY <1>0, <1>1, <2>0, <2>1 DEF Forward, Bypass, Untyped, Truncate, End, PlaceOK, HasScript, GivenArgs
  <2>2. CASE Write(j) \/ Written(j) \/ Source(j)
    BY <1>0, <1>1, <2>0, <2>2 DEF Write, Written, Source, PlaceOK, GivenArgs
  <2>3. CASE RunTool(j) \/ Check(j) \/ Ignore(j) \/ Gzip(j) \/ Return(j)
    BY <1>0, <1>1, <2>0, <2>3
    DEF RunTool, Check, Ignore, Gzip, Return, End, At, PlaceOK, GivenArgs
  <2>4. CASE RunCallers(j)
    <3>1. running[j][1] \in Real /\ running[j] # << >>
          /\ running[j][1].step = "run" /\ running[j][1].tool = "callers" /\ pc[j] = "run"
      BY <1>0, <2>4, AtReal DEF RunCallers
    <3>2. /\ pc'[j] = "parse" /\ running' = running /\ build[j].driver # "callers"
          /\ parsing'[j].args = CallersArguments(running[j][1].unit)
      BY <2>0, <2>4, <3>1 DEF RunCallers, StartParsing, PlaceOK
    <3>3. CallersArguments(running[j][1].unit)' = CallersArguments(running'[j][1].unit)
      BY <1>0, Zenon DEF CallersArguments
    <3> QED BY <1>0, <1>1, <1>2, <3>1, <3>2, <3>3 DEF PlaceOK, GivenArgs
  <2>5. CASE RunByHand(j)
    BY <1>0, <1>1, <2>0, <2>5 DEF RunByHand, StartParsing, PlaceOK, GivenArgs
  <2>6. ASSUME CallersEnds(j, 0) \/ CallersEnds(j, 1) PROVE PlaceOK(j)'
    BY <1>0, <1>1, <2>0, <2>6 DEF CallersEnds, End, PlaceOK
  <2>7. ASSUME UNCHANGED <<pc, running>>, parsing'[j].args = parsing[j].args PROVE PlaceOK(j)'
    <3>1. CallersArguments(running[j][1].unit)' = CallersArguments(running'[j][1].unit)
      BY <1>0, Zenon DEF CallersArguments
    <3> QED BY <1>0, <1>1, <1>2, <2>0, <2>7, <3>1 DEF PlaceOK, GivenArgs
  <2>8. CASE ProcessOutput(j) \/ ProcessLong(j) \/ ProcessOther(j)
    <3>1. ASSUME NEW k, NEW o, NEW v, parsing' = [parsing EXCEPT ![j] = ReadOn(j, k, o, v)],
                 UNCHANGED <<pc, running>>
          PROVE  PlaceOK(j)'
      <4>1. parsing'[j] = ReadOn(j, k, o, v)
        BY <2>0, <3>1
      <4>2. parsing'[j].args = parsing[j].args
        BY <4>1 DEF ReadOn
      <4> QED BY <2>7, <3>1, <4>2
    <3>2. UNCHANGED <<pc, running, parsing>> => PlaceOK(j)'
      BY <2>7
    <3>3. CASE ProcessOutput(j)
      <4>1. \/ CallersEnds(j, 0)
            \/ /\ UNCHANGED <<pc, running>>
               /\ parsing' = [parsing EXCEPT ![j] =
                    ReadOn(j, parsing[j].left - 2, TRUE, parsing[j].version)]
        BY <1>0, <3>3, OutputIs
      <4> HIDE DEF ReadOn
      <4> QED BY <2>6, <3>1, <4>1
    <3>4. CASE ProcessLong(j)
      <4>1. /\ UNCHANGED <<pc, running>>
            /\ \/ UNCHANGED parsing
               \/ parsing' = [parsing EXCEPT ![j] =
                    ReadOn(j, parsing[j].left - 1, parsing[j].output, TRUE)]
        BY <1>0, <3>4, LongIs
      <4> HIDE DEF ReadOn
      <4> QED BY <3>1, <3>2, <4>1
    <3>5. CASE ProcessOther(j)
      BY <1>0, <3>1, <3>5, OtherIs
    <3> QED BY <2>8, <3>3, <3>4, <3>5
  <2>10. CASE Analyse(j)
    BY <2>6, <2>10 DEF Analyse
  <2> QED BY <2>1, <2>2, <2>3, <2>4, <2>5, <2>8, <2>10 DEF Step
<1> QED BY <1>3, <1>4

LEMMA TypeStep == TypeInv /\ [Next]_vars => TypeInv'
<1> SUFFICES ASSUME TypeInv, [Next]_vars PROVE TypeInv'
  OBVIOUS
<1>1. CASE Next
  <2>1. PICK j \in Jobs : Step(j)
    BY <1>1 DEF Next, Jobs
  <2>2. VarTypes' /\ (\A k \in Jobs : PlaceOK(k)') /\ build' = build
    BY <2>1, TypesKept, PlacesKept, StepFrame DEF TypeInv
  <2>3. Jobs' = Jobs
    BY <2>2, SameBuild
  <2> QED BY <2>2, <2>3 DEF TypeInv
<1>2. CASE UNCHANGED vars
  <2>1. build' = build
    BY <1>2 DEF vars
  <2>2. /\ Jobs' = Jobs /\ Pieces' = Pieces /\ AllCommands' = AllCommands
        /\ ScriptNames' = ScriptNames /\ Real' = Real
        /\ \A k : /\ HasScript(k)' = HasScript(k)
    BY <2>1, SameBuild DEF Real
  <2>3. VarTypes'
    BY <1>2, <2>2 DEF TypeInv, VarTypes, vars
  <2>4. ASSUME NEW k \in Jobs PROVE PlaceOK(k)'
    <3>1. CallersArguments(running[k][1].unit)' = CallersArguments(running'[k][1].unit)
      BY <2>1, Zenon DEF CallersArguments
    <3>2. CallersArguments(running[k][1].unit)' = CallersArguments(running[k][1].unit)
      BY <1>2, Zenon DEF CallersArguments, vars
    <3> QED BY <1>2, <2>2, <3>2 DEF TypeInv, PlaceOK, GivenArgs, vars
  <2> QED BY <2>2, <2>3, <2>4 DEF TypeInv
<1> QED BY <1>1, <1>2

LEMMA TypeInit == Init => TypeInv
<1> SUFFICES ASSUME Init PROVE TypeInv
  OBVIOUS
<1>1. << >> \in Seq(Pieces) /\ NotParsing \in Parsing /\ NotParsing.left <= Len(NotParsing.args)
  BY DEF NotParsing, Parsing
<1>2. /\ build \in Builds /\ pc = [j \in Jobs |-> "start"]
      /\ unwritten = [j \in Jobs |-> << >>] /\ offset = [j \in Jobs |-> 0]
      /\ running = [j \in Jobs |-> << >>] /\ status = [j \in Jobs |-> 0]
      /\ parsing = [j \in Jobs |-> NotParsing] /\ done = {} /\ mixed = {}
      /\ unbegun = {}
  BY DEF Init, Jobs
<1>3. script = [n \in ScriptNames |-> << >>]
  BY Zenon DEF Init, ScriptNames, Jobs
<1>4. VarTypes
  BY <1>1, <1>2, <1>3 DEF VarTypes
<1> QED BY <1>2, <1>4 DEF TypeInv, PlaceOK

\* Types, for every set of builds: what is written to a script, read from it and
\* run belongs to commands of the build, and so do the arguments that callers reads,
\* of which it never passes the last.
THEOREM TypeCorrect == Spec => []TypeOK
<1>1. TypeInv => TypeOK
  <2> SUFFICES ASSUME TypeInv PROVE TypeOK
    OBVIOUS
  <2>1. VarTypes
    BY DEF TypeInv
  <2>2. \A j \in Jobs : parsing[j].left \in 0 .. Len(parsing[j].args)
    BY <2>1 DEF VarTypes, Parsing
  <2>3. \A j \in Jobs : /\ unwritten[j] \in Seq(Pieces) /\ offset[j] \in Nat
                        /\ running[j] \in Seq(Pieces)
    BY <2>1 DEF VarTypes
  <2>4. \A s \in DOMAIN script : script[s] \in Seq(Pieces)
    BY <2>1 DEF VarTypes
  <2> QED BY <2>1, <2>2, <2>3, <2>4 DEF TypeOK, VarTypes, Jobs
<1> QED BY <1>1, TypeInit, TypeStep, PTL DEF Spec

-----------------------------------------------------------------------------
(* The loop over the arguments.                                             *)

\* What callers has seen, once it has passed n arguments of a: o tells whether -o
\* is among them, v whether --version is.
Passed(a, n, o, v) ==
  /\ ~o => \A k \in 1 .. n : a[k] \notin OWords
  /\ o => FirstOutput(a) + 1 <= n
  /\ \A k \in (1 .. n) \ {FirstOutput(a) + 1} : a[k] \notin LongWords
  /\ \A k \in 1 .. n : ~RefusedAt(a, k)
  /\ v <=> \E k \in (1 .. n) \ {FirstOutput(a) + 1} : a[k] = "--version"

Read(j) == Len(parsing[j].args) - parsing[j].left
ParseInv ==
  \A j \in Jobs : pc[j] = "parse" =>
    Passed(parsing[j].args, Read(j), parsing[j].output, parsing[j].version)

-----------------------------------------------------------------------------
(* What a job runs.                                                         *)

Excused(u) == Refused(CallersArguments(u)) \/ Versioned(CallersArguments(u))

\* What callers has written was not refused, nor the answer to --version.
OutputInv ==
  \A u \in AllCommands :
    build[u[1]].driver # "callers" /\ <<"callers", u>> \in outputs => ~Excused(u)

AtScript(j) == pc[j] \in {"write", "source"}

\* Two jobs that are at the same script are mixed.
MixedInv == \A j \in Jobs : \A k \in Rivals(j) : AtScript(j) /\ AtScript(k) => j \in mixed

\* Callers went through unit u for job j, by d, or could not begin to, by n.
Given(d, n, j, u) == <<j, "callers", u>> \in d \/ <<j, u>> \in n

USE DEF Given

\* The first n pieces of its script are behind the job.
Behind(j, n) ==
  LET s == ScriptOf(j) IN
  /\ running[j] = SubSeq(s, n + 1, Len(s))
  /\ \A i \in 1 .. n : s[i].tool = "callers" /\ s[i].step = "run" =>
       \/ Given(done, unbegun, j, s[i].unit)
       \/ i = n /\ status[j] = 1
       \/ Excused(s[i].unit)
  /\ n > 0 /\ s[n].tool = "callers" /\ s[n].step = "gzip" /\ Excused(s[n].unit) => status[j] = 1

ScriptOK(j) ==
  LET s == ScriptOf(j) IN
  /\ pc[j] = "start" => offset[j] = 0
  /\ AtScript(j) =>
       /\ offset[j] <= Len(s)
       /\ script[ScriptName(j)] = SubSeq(s, 1, offset[j])
       /\ unwritten[j] = SubSeq(s, offset[j] + 1, Len(s))
  /\ pc[j] = "source" => offset[j] = Len(s)
  /\ pc[j] \in {"run", "parse"} /\ build[j].driver # "callers" =>
       \/ pc[j] = "run" /\ running[j] = << >> /\ status[j] = 1
       \/ \E n \in 0 .. Len(s) : Behind(j, n)

ScriptInv == \A j \in Jobs \ mixed : ScriptOK(j)

-----------------------------------------------------------------------------
(* The loop does what the arguments say.                                    *)

LEMMA FirstIs ==
  ASSUME NEW W, NEW a \in Seq(W)
  PROVE  /\ FirstOutput(a) \in 1 .. Len(a) + 1
         /\ FirstOutput(a) <= Len(a) => a[FirstOutput(a)] \in OWords
         /\ \A k \in 1 .. FirstOutput(a) - 1 : a[k] \notin OWords
<1> DEFINE n == Len(a)
           t == {i \in 1 .. n : a[i] \in OWords}
           P(i) == /\ i <= n => a[i] \in OWords
                   /\ \A k \in 1 .. i - 1 : a[k] \notin OWords
<1>1. n \in Nat /\ t \in SUBSET (1 .. n)
  OBVIOUS
<1>2. \E i \in 1 .. n + 1 : P(i)
  <2>1. CASE t = {}
    <3>1. n + 1 \in 1 .. n + 1 /\ ~ (n + 1 <= n) /\ 1 .. n + 1 - 1 = 1 .. n
      BY <1>1
    <3>2. \A k \in 1 .. n : a[k] \notin OWords
      BY <2>1
    <3>3. P(n + 1)
      <4>1. ASSUME NEW k \in 1 .. (n + 1) - 1 PROVE a[k] \notin OWords
        <5>1. k \in 1 .. n
          BY <1>1
        <5> QED BY <3>2, <5>1
      <4> HIDE DEF n
      <4> QED BY <3>1, <4>1, Zenon
    <3> HIDE DEF P, n
    <3> QED BY <3>1, <3>3
  <2>2. CASE t # {}
    <3>1. Min(t) \in t /\ \A y \in t : Min(t) <= y
      <4> HIDE DEF t, n
      <4> QED BY <1>1, <2>2, MinIn
    <3>2. PICK m \in t : \A y \in t : m <= y
      BY <3>1
    <3>3. m \in 1 .. n + 1
      BY <1>1
    <3>4. \A k \in 1 .. m - 1 : a[k] \notin OWords
      <4> SUFFICES ASSUME NEW k \in 1 .. m - 1, a[k] \in OWords PROVE FALSE
        OBVIOUS
      <4>1. k \in 1 .. n /\ ~ (m <= k)
        BY <1>1
      <4> QED BY <3>2, <4>1
    <3> QED BY <3>3, <3>4
  <2> QED BY <2>1, <2>2
<1>3. FirstOutput(a) = CHOOSE i \in 1 .. n + 1 : P(i)
  BY DEF FirstOutput
<1>4. FirstOutput(a) \in 1 .. n + 1 /\ P(FirstOutput(a))
  <2> HIDE DEF P, n
  <2> QED BY <1>2, <1>3
<1> QED BY <1>4

\* What the loop looks at next, and where the first -o is.
LEMMA NextWord ==
  ASSUME NEW W, NEW a \in Seq(W), NEW n \in Nat, n < Len(a)
  PROVE  /\ n + 1 \in 1 .. Len(a) /\ FirstOutput(a) \in Nat \ {0}
         /\ (\A k \in 1 .. n : a[k] \notin OWords) =>
              /\ n + 1 <= FirstOutput(a)
              /\ FirstOutput(a) = n + 1 <=> a[n + 1] \in OWords
<1> DEFINE f == FirstOutput(a)
           m == Len(a)
<1>1. /\ f \in 1 .. m + 1 /\ (f <= m => a[f] \in OWords)
      /\ (\A k \in 1 .. f - 1 : a[k] \notin OWords) /\ m \in Nat
  BY FirstIs
<1> SUFFICES /\ n + 1 \in 1 .. m /\ f \in Nat \ {0}
             /\ (\A k \in 1 .. n : a[k] \notin OWords) =>
                  n + 1 <= f /\ (f = n + 1 <=> a[n + 1] \in OWords)
  OBVIOUS
<1>2. n < m
  OBVIOUS
<1> HIDE DEF f, m
<1>3. n + 1 \in 1 .. m /\ f \in Nat \ {0}
  BY <1>1, <1>2
<1>4. ASSUME \A k \in 1 .. n : a[k] \notin OWords
      PROVE  n + 1 <= f /\ (f = n + 1 <=> a[n + 1] \in OWords)
  <2>1. n + 1 <= f
    <3> SUFFICES ASSUME f <= n PROVE FALSE
      BY <1>1
    <3>1. f \in 1 .. n /\ f <= m
      BY <1>1, <1>2
    <3> QED BY <1>1, <1>4, <3>1
  <2>2. f = n + 1 => a[n + 1] \in OWords
    BY <1>1, <1>2
  <2>3. a[n + 1] \in OWords => f = n + 1
    <3> SUFFICES ASSUME f # n + 1 PROVE a[n + 1] \notin OWords
      OBVIOUS
    <3>1. n + 1 \in 1 .. f - 1
      BY <1>1, <2>1
    <3> QED BY <1>1, <3>1
  <2> QED BY <2>1, <2>2, <2>3
<1> QED BY <1>3, <1>4

LEMMA PassedNone == ASSUME NEW a PROVE Passed(a, 0, FALSE, FALSE)
BY DEF Passed

LEMMA PassedWord ==
  ASSUME NEW W, NEW a \in Seq(W), NEW n \in Nat, n < Len(a), NEW o \in BOOLEAN, NEW v \in BOOLEAN,
         Passed(a, n, o, v), a[n + 1] \notin OWords \cup LongWords
  PROVE  Passed(a, n + 1, o, v \/ a[n + 1] = "--version")
<1> DEFINE f == FirstOutput(a)
<1>1. n + 1 \in 1 .. Len(a) /\ f \in Nat
  BY NextWord
<1>2. f # n
  <2>1. CASE o
    BY <1>1, <2>1 DEF Passed
  <2>2. CASE ~o
    BY <1>1, <2>2, NextWord DEF Passed
  <2> QED BY <2>1, <2>2
<1>3. ~RefusedAt(a, n + 1)
  BY DEF RefusedAt
<1>4. 1 .. n + 1 = (1 .. n) \cup {n + 1}
  OBVIOUS
<1>5. n + 1 # f + 1
  BY <1>1, <1>2
<1>6. /\ ~o => \A k \in 1 .. n + 1 : a[k] \notin OWords
      /\ o => f + 1 <= n + 1
      /\ \A k \in (1 .. n + 1) \ {f + 1} : a[k] \notin LongWords
      /\ \A k \in 1 .. n + 1 : ~RefusedAt(a, k)
  <2> HIDE DEF f
  <2> QED BY <1>1, <1>3, <1>4 DEF Passed, f
<1>7. (v \/ a[n + 1] = "--version") <=> \E k \in (1 .. n + 1) \ {f + 1} : a[k] = "--version"
  <2> HIDE DEF f
  <2>1. (1 .. n + 1) \ {f + 1} = ((1 .. n) \ {f + 1}) \cup {n + 1}
    BY <1>4, <1>5
  <2> QED BY <2>1 DEF Passed, f
<1> HIDE DEF f
<1> QED BY <1>6, <1>7, Zenon DEF Passed, f

LEMMA PassedOutput ==
  ASSUME NEW W, NEW a \in Seq(W), NEW n \in Nat, n + 1 < Len(a), NEW v \in BOOLEAN,
         Passed(a, n, FALSE, v), a[n + 1] \in OWords
  PROVE  Passed(a, n + 2, TRUE, v)
<1> DEFINE f == FirstOutput(a)
<1>0. n < Len(a) /\ \A k \in 1 .. n : a[k] \notin OWords
  BY DEF Passed
<1>1. f = n + 1 /\ f \in Nat /\ n < Len(a)
  <2>1. f \in Nat \ {0} /\ (f = n + 1 <=> a[n + 1] \in OWords)
    BY <1>0, NextWord
  <2> QED BY <1>0, <2>1
<1>2. /\ \A k \in 1 .. n : ~RefusedAt(a, k)
      /\ \A k \in (1 .. n) \ {f + 1} : a[k] \notin LongWords
      /\ v <=> \E k \in (1 .. n) \ {f + 1} : a[k] = "--version"
  BY DEF Passed
<1>3. ~RefusedAt(a, n + 1) /\ ~RefusedAt(a, n + 2)
  BY <1>1 DEF RefusedAt
<1>4. 1 .. n + 2 = (1 .. n) \cup {n + 1, n + 2}
  OBVIOUS
<1>5. (1 .. n + 2) \ {f + 1} = ((1 .. n) \ {f + 1}) \cup {n + 1}
  <2> HIDE DEF f
  <2> QED BY <1>1, <1>4
<1>6. a[n + 1] \notin LongWords /\ a[n + 1] # "--version"
  BY LaunchAssumption
<1> HIDE DEF f
<1>7. /\ \A k \in 1 .. n + 2 : ~RefusedAt(a, k)
      /\ \A k \in (1 .. n + 2) \ {f + 1} : a[k] \notin LongWords
      /\ v <=> \E k \in (1 .. n + 2) \ {f + 1} : a[k] = "--version"
      /\ f + 1 <= n + 2
  BY <1>1, <1>2, <1>3, <1>4, <1>5, <1>6
<1> QED BY <1>7, Zenon DEF Passed, f

\* A usage error, and what an option that is looked at for ever would be.
LEMMA PassedRefused ==
  ASSUME NEW W, NEW a \in Seq(W), NEW n \in Nat, n < Len(a), NEW o \in BOOLEAN, NEW v \in BOOLEAN,
         Passed(a, n, o, v), a[n + 1] \in OWords, n + 1 = Len(a) \/ o
  PROVE  RefusedAt(a, n + 1) /\ Refused(a) /\ ~Endless(a)
<1> DEFINE f == FirstOutput(a)
           m == Len(a)
<1>1. n + 1 \in 1 .. m /\ f \in Nat /\ m \in Nat /\ DOMAIN a = 1 .. m
  BY NextWord
<1>2. RefusedAt(a, n + 1)
  <2>1. CASE o
    <3>1. n + 1 > f + 1
      BY <1>1, <2>1 DEF Passed
    <3> QED BY <1>1, <3>1 DEF RefusedAt
  <2>2. CASE ~o
    <3>1. f = n + 1 /\ n + 1 = m
      BY <1>1, <2>2, NextWord DEF Passed
    <3>2. n + 1 = m /\ n + 1 # f + 1
      <4> HIDE DEF f, m
      <4> QED BY <3>1
    <3> QED BY <1>1, <3>2, Zenon DEF RefusedAt
  <2> QED BY <2>1, <2>2
<1>3. ASSUME NEW i \in DOMAIN a, EndlessAt(a, i) PROVE FALSE
  <2>1. i \in 1 .. m /\ a[i] \in LongWords /\ i # f + 1 /\ \A k \in 1 .. i - 1 : ~RefusedAt(a, k)
    BY <1>1, <1>3 DEF EndlessAt
  <2>2. ~ (n + 1 \in 1 .. i - 1)
    BY <1>2, <2>1
  <2>3. i # n + 1
    BY <2>1, LaunchAssumption
  <2>4. i \in (1 .. n) \ {f + 1}
    <3> HIDE DEF f, m
    <3> QED BY <1>1, <2>1, <2>2, <2>3
  <2> QED BY <2>1, <2>4 DEF Passed
<1> QED BY <1>1, <1>2, <1>3 DEF Refused, Endless

LEMMA PassedAll ==
  ASSUME NEW W, NEW a \in Seq(W), NEW o \in BOOLEAN, NEW v \in BOOLEAN, Passed(a, Len(a), o, v)
  PROVE  ~Refused(a) /\ ~Endless(a) /\ (v <=> Versioned(a))
<1>1. DOMAIN a = 1 .. Len(a)
  OBVIOUS
<1>2. ~Refused(a)
  BY <1>1 DEF Passed, Refused
<1>3. ~Endless(a)
  BY <1>1 DEF Passed, Endless, EndlessAt
<1>4. v <=> Versioned(a)
  BY <1>1, Zenon DEF Passed, Versioned
<1> QED BY <1>2, <1>3, <1>4

LEMMA ReadIs ==
  ASSUME TypeInv, ParseInv, NEW j \in Jobs, pc[j] = "parse"
  PROVE  /\ parsing[j].args \in Seq(Words) /\ parsing[j].left \in Nat
         /\ parsing[j].output \in BOOLEAN /\ parsing[j].version \in BOOLEAN
         /\ Read(j) \in Nat /\ Read(j) = Len(parsing[j].args) - parsing[j].left
         /\ Len(parsing[j].args) \in Nat
         /\ parsing[j].left > 0 =>
              Read(j) < Len(parsing[j].args) /\ Word(j) = parsing[j].args[Read(j) + 1]
         /\ Passed(parsing[j].args, Read(j), parsing[j].output, parsing[j].version)
<1> DEFINE a == parsing[j].args
           l == parsing[j].left
           m == Len(a)
<1>1. /\ a \in Seq(Words) /\ l \in Nat /\ l <= m /\ m \in Nat
      /\ parsing[j].output \in BOOLEAN /\ parsing[j].version \in BOOLEAN
  BY ReadOnIs DEF TypeInv
<1>2. Read(j) = m - l
  BY DEF Read
<1>3. Word(j) = a[m - l + 1]
  BY DEF Word
<1>4. Passed(a, Read(j), parsing[j].output, parsing[j].version)
  BY DEF ParseInv
<1> HIDE DEF a, l, m
<1>5. Read(j) \in Nat /\ (l > 0 => Read(j) < m)
  BY <1>1, <1>2
<1> QED BY <1>1, <1>2, <1>3, <1>4, <1>5 DEF a, l, m

\* How callers comes to an end: by a usage error, or with all its arguments read.
LEMMA ParseEnds ==
  ASSUME TypeInv, ParseInv, NEW j \in Jobs, Step(j), pc[j] = "parse"
  PROVE  \/ UNCHANGED <<pc, running, status, done, outputs>>
         \/ /\ CallersEnds(j, 0) /\ UNCHANGED <<done, outputs>>
            /\ Refused(parsing[j].args) /\ ~Endless(parsing[j].args)
         \/ /\ Analyse(j) /\ ~Refused(parsing[j].args) /\ ~Endless(parsing[j].args)
            /\ parsing[j].version <=> Versioned(parsing[j].args)
<1> USE DEF TypeInv
<1>1. ProcessOutput(j) \/ ProcessLong(j) \/ ProcessOther(j) \/ Analyse(j)
  BY DEF Step, Forward, Bypass, Untyped, Truncate, Write, Written, Source, RunTool, Check,
         Ignore, Gzip, Return, RunCallers, RunByHand, At
<1>2. CASE ProcessOutput(j)
  <2>1. CASE CallersEnds(j, 0) /\ (parsing[j].left = 1 \/ parsing[j].output)
    <3> DEFINE a == parsing[j].args
               n == Read(j)
    <3>1. parsing[j].left > 0 /\ Word(j) \in OWords /\ UNCHANGED <<done, outputs>>
      BY <1>2, OutputIs
    <3>2. /\ a \in Seq(Words) /\ n \in Nat /\ n < Len(a) /\ a[n + 1] \in OWords
          /\ parsing[j].output \in BOOLEAN /\ parsing[j].version \in BOOLEAN
          /\ Passed(a, n, parsing[j].output, parsing[j].version)
      BY <3>1, ReadIs
    <3>3. n + 1 = Len(a) \/ parsing[j].output
      BY <2>1, ReadIs
    <3> HIDE DEF n, a
    <3>4. Refused(a) /\ ~Endless(a)
      BY <3>2, <3>3, PassedRefused
    <3> QED BY <2>1, <3>1, <3>4 DEF a
  <2> QED BY <1>2, <2>1, OutputIs
<1>3. CASE ProcessLong(j) \/ ProcessOther(j)
  BY <1>3, LongIs, OtherIs
<1>4. CASE Analyse(j)
  <2> DEFINE a == parsing[j].args
             n == Read(j)
  <2>1. parsing[j].left = 0
    BY <1>4 DEF Analyse
  <2>2. n = Len(a)
    BY <2>1, ReadIs
  <2>3. a \in Seq(Words) /\ Passed(a, Len(a), parsing[j].output, parsing[j].version)
        /\ parsing[j].output \in BOOLEAN /\ parsing[j].version \in BOOLEAN
    BY <2>2, ReadIs
  <2> HIDE DEF a, n
  <2>4. ~Refused(a) /\ ~Endless(a) /\ (parsing[j].version <=> Versioned(a))
    BY <2>3, PassedAll
  <2> QED BY <1>4, <2>4 DEF a
<1> QED BY <1>1, <1>2, <1>3, <1>4

LEMMA ParseStep ==
  ASSUME TypeInv, ParseInv, NEW j \in Jobs, Step(j) PROVE ParseInv'
<1> USE DEF TypeInv
<1>0. build' = build /\ Others(j) /\ Jobs' = Jobs /\ j \in DOMAIN parsing /\ j \in DOMAIN pc
  BY StepFrame, SameBuild DEF VarTypes
<1> SUFFICES ASSUME NEW k \in Jobs, pc'[k] = "parse"
             PROVE  Passed(parsing[k].args, Read(k), parsing[k].output, parsing[k].version)'
  BY <1>0 DEF ParseInv
<1>1. ASSUME parsing'[k] = parsing[k], pc[k] = "parse"
      PROVE  Passed(parsing[k].args, Read(k), parsing[k].output, parsing[k].version)'
  <2>1. Passed(parsing[k].args, Read(k), parsing[k].output, parsing[k].version)
    BY <1>1 DEF ParseInv
  <2>2. Read(k)' = Read(k)
    BY <1>1 DEF Read
  <2> QED BY <1>1, <2>1, <2>2
<1>2. CASE k # j
  BY <1>0, <1>1, <1>2 DEF Others
<1>3. ASSUME NEW a \in Seq(Words), parsing' = [parsing EXCEPT ![j] =
               [args |-> a, left |-> Len(a), output |-> FALSE, version |-> FALSE]], k = j
      PROVE  Passed(parsing[k].args, Read(k), parsing[k].output, parsing[k].version)'
  <2>1. parsing'[j].args = a /\ parsing'[j].left = Len(a)
        /\ parsing'[j].output = FALSE /\ parsing'[j].version = FALSE
    BY <1>0, <1>3
  <2>2. Read(k)' = 0
    BY <1>3, <2>1 DEF Read
  <2> QED BY <1>3, <2>1, <2>2, PassedNone
<1>4. ASSUME NEW l, NEW o, NEW v, k = j,
             parsing' = [parsing EXCEPT ![j] = ReadOn(j, l, o, v)],
             Passed(parsing[j].args, Len(parsing[j].args) - l, o, v)
      PROVE  Passed(parsing[k].args, Read(k), parsing[k].output, parsing[k].version)'
  <2>1. /\ parsing'[k].args = parsing[j].args /\ parsing'[k].left = l
        /\ parsing'[k].output = o /\ parsing'[k].version = v
    BY <1>0, <1>4 DEF ReadOn
  <2>2. Read(k)' = Len(parsing[j].args) - l
    BY <2>1 DEF Read
  <2> QED BY <1>4, <2>1, <2>2
<1>5. CASE k = j /\ pc[j] # "parse"
  <2>1. RunCallers(j) \/ RunByHand(j)
    BY <1>0, <1>5 DEF Step, Forward, Bypass, Untyped, Truncate, Write, Written, Source, RunTool, Check,
         Ignore, Gzip, Return, ProcessOutput, ProcessLong, ProcessOther, Analyse, At, End
  <2>2. CASE RunCallers(j)
    <3>1. running[j][1] \in Real
      BY <2>2, AtReal DEF RunCallers
    <3>2. CallersArguments(running[j][1].unit) \in Seq(Words)
      BY <3>1, CallersArgumentsType DEF Real, VarTypes
    <3> QED BY <1>3, <1>5, <2>2, <3>2 DEF RunCallers, StartParsing
  <2>3. CASE RunByHand(j)
    <3> DEFINE a == build[j].commands[1]
    <3>1. a \in Seq(STRING)
      <4>1. build[j].commands \in Seq(Seq(STRING)) /\ DOMAIN build[j].commands = {1}
        BY <2>3, BuildIs DEF RunByHand, VarTypes
      <4> QED BY <4>1
    <3>2. \A i \in 1 .. Len(a) : a[i] \in Words
      BY <3>1 DEF Words
    <3>3. parsing' = [parsing EXCEPT ![j] =
               [args |-> a, left |-> Len(a), output |-> FALSE, version |-> FALSE]]
      BY <2>3 DEF RunByHand, StartParsing
    <3> HIDE DEF a
    <3>4. a \in Seq(Words)
      BY <3>1, <3>2
    <3> QED BY <1>3, <1>5, <3>3, <3>4
  <2> QED BY <2>1, <2>2, <2>3
<1>6. CASE k = j /\ pc[j] = "parse"
  <2> DEFINE a == parsing[j].args
             n == Read(j)
             l == parsing[j].left
  <2>1. /\ a \in Seq(Words) /\ n \in Nat /\ l \in Nat /\ n = Len(a) - l /\ Len(a) \in Nat
        /\ parsing[j].output \in BOOLEAN /\ parsing[j].version \in BOOLEAN
        /\ l > 0 => n < Len(a) /\ Word(j) = a[n + 1]
        /\ Passed(a, n, parsing[j].output, parsing[j].version)
    BY <1>6, ReadIs
  <2>2. ~ \E s \in {0, 1} : CallersEnds(j, s)
    BY <1>0, <1>6 DEF CallersEnds, End
  <2>3. ProcessOutput(j) \/ ProcessLong(j) \/ ProcessOther(j)
    BY <1>6, <2>2 DEF Step, Forward, Bypass, Untyped, Truncate, Write, Written, Source, RunTool,
         Check, Ignore, Gzip, Return, RunCallers, RunByHand, Analyse, At
  <2>4. CASE ProcessOutput(j)
    <3>1. /\ l > 0 /\ Word(j) \in OWords /\ l # 1 /\ ~ parsing[j].output /\ l - 2 \in Nat
          /\ parsing' = [parsing EXCEPT ![j] = ReadOn(j, l - 2, TRUE, parsing[j].version)]
      BY <2>2, <2>4, OutputIs
    <3>2. n + 1 < Len(a) /\ Len(a) - (l - 2) = n + 2 /\ a[n + 1] \in OWords
      <4> DEFINE m == Len(a)
      <4>1. n = m - l /\ m \in Nat /\ n \in Nat /\ l \in Nat /\ l > 0 /\ l # 1
        BY <2>1, <3>1
      <4> HIDE DEF n, m, l
      <4>2. n + 1 < m /\ m - (l - 2) = n + 2
        BY <4>1
      <4> QED BY <2>1, <3>1, <4>2 DEF m
    <3>3. Passed(a, n, FALSE, parsing[j].version)
      BY <2>1, <3>1
    <3> HIDE DEF a, n, l
    <3>4. Passed(a, n + 2, TRUE, parsing[j].version)
      BY <2>1, <3>2, <3>3, PassedOutput
    <3>5. Passed(a, Len(a) - (l - 2), TRUE, parsing[j].version)
      BY <3>2, <3>4
    <3> QED BY <1>4, <1>6, <3>1, <3>5 DEF a
  <2>5. ASSUME l > 0, Word(j) \notin OWords \cup LongWords
        PROVE  Passed(a, Len(a) - (l - 1), parsing[j].output,
                      parsing[j].version \/ Word(j) = "--version")
    <3> DEFINE m == Len(a)
    <3>1. n = m - l /\ m \in Nat /\ n \in Nat /\ l \in Nat /\ n < m /\ Word(j) = a[n + 1]
      BY <2>1, <2>5
    <3> HIDE DEF n, m, l, a
    <3>2. m - (l - 1) = n + 1
      BY <3>1
    <3>3. Passed(a, n + 1, parsing[j].output, parsing[j].version \/ a[n + 1] = "--version")
      BY <2>1, <2>5, <3>1, PassedWord DEF m
    <3> QED BY <3>1, <3>2, <3>3 DEF m
  <2>6. CASE ProcessLong(j) /\ Word(j) # "--version"
    <3>1. UNCHANGED parsing
      BY <2>6, LongIs
    <3> QED BY <1>1, <1>6, <3>1
  <2>7. CASE ProcessLong(j) /\ Word(j) = "--version"
    <3>1. /\ l > 0
          /\ parsing' = [parsing EXCEPT ![j] = ReadOn(j, l - 1, parsing[j].output, TRUE)]
      <4>1. "--version" \notin LongWords
        BY LaunchAssumption
      <4> QED BY <2>7, <4>1, LongIs
    <3>2. Word(j) \notin OWords \cup LongWords
      BY <2>7, LaunchAssumption
    <3>3. Passed(a, Len(a) - (l - 1), parsing[j].output, TRUE)
      <4>1. Passed(a, Len(a) - (l - 1), parsing[j].output,
                   parsing[j].version \/ Word(j) = "--version")
        BY <2>5, <3>1, <3>2
      <4> HIDE DEF a, l
      <4>2. (parsing[j].version \/ Word(j) = "--version") = TRUE
        BY <2>7
      <4> QED BY <4>1, <4>2
    <3> HIDE DEF l
    <3> QED BY <1>4, <1>6, <3>1, <3>3 DEF a
  <2>8. CASE ProcessOther(j)
    <3>1. /\ l > 0 /\ Word(j) \notin OWords \cup LongWords /\ Word(j) # "--version"
          /\ parsing' = [parsing EXCEPT ![j] =
                           ReadOn(j, l - 1, parsing[j].output, parsing[j].version)]
      BY <2>1, <2>8, OtherIs
    <3>2. Passed(a, Len(a) - (l - 1), parsing[j].output, parsing[j].version)
      <4>1. Passed(a, Len(a) - (l - 1), parsing[j].output,
                   parsing[j].version \/ Word(j) = "--version")
        BY <2>5, <3>1
      <4> HIDE DEF a, l
      <4>2. (parsing[j].version \/ Word(j) = "--version") = parsing[j].version
        BY <2>1, <3>1
      <4> QED BY <4>1, <4>2
    <3> HIDE DEF l
    <3> QED BY <1>4, <1>6, <3>1, <3>2 DEF a
  <2> QED BY <2>3, <2>4, <2>6, <2>7, <2>8
<1> QED BY <1>2, <1>5, <1>6

LEMMA ParseInit == Init => ParseInv
BY DEF Init, ParseInv, Jobs

\* A step of another job does not move a job.
LEMMA OnlyItself ==
  ASSUME VarTypes, NEW j \in Jobs, Step(j), NEW k \in Jobs, pc'[k] # pc[k] PROVE k = j
BY StepFrame DEF Others

LEMMA ReadStep ==
  TypeInv /\ ParseInv /\ [Next]_vars =>
    \A j \in DOMAIN build :
      pc[j] = "parse" /\ pc'[j] # "parse" =>
        /\ ~Endless(parsing[j].args)
        /\ Refused(parsing[j].args) => UNCHANGED <<done, outputs>>
<1> SUFFICES ASSUME TypeInv, ParseInv, [Next]_vars,
                    NEW j \in DOMAIN build, pc[j] = "parse", pc'[j] # "parse"
             PROVE  /\ ~Endless(parsing[j].args)
                    /\ Refused(parsing[j].args) => UNCHANGED <<done, outputs>>
  OBVIOUS
<1>1. pc' # pc /\ j \in Jobs
  BY DEF Jobs
<1>2. PICK k \in Jobs : Step(k)
  BY <1>1 DEF Next, vars, Jobs
<1>3. Step(j)
  BY <1>1, <1>2, OnlyItself DEF TypeInv
<1> QED BY <1>1, <1>3, ParseEnds

\* The loop over the arguments, for every command line: it is not left if there is
\* an option that main looks at for ever, and a usage error leaves it without any
\* output.
THEOREM LoopReads == Spec => ArgumentsRead
<1>1. TypeInv /\ ParseInv /\ [Next]_vars => ParseInv'
  <2> SUFFICES ASSUME TypeInv, ParseInv, [Next]_vars PROVE ParseInv'
    OBVIOUS
  <2>1. CASE Next
    <3>1. PICK j \in Jobs : Step(j)
      BY <2>1 DEF Next, Jobs
    <3> QED BY <3>1, ParseStep
  <2>2. CASE UNCHANGED vars
    BY <2>2 DEF vars, ParseInv, Jobs, Read
  <2> QED BY <2>1, <2>2
<1> QED BY <1>1, ParseInit, ReadStep, TypeInit, TypeStep, PTL DEF Spec, ArgumentsRead

-----------------------------------------------------------------------------
(* Jobs at the same script.                                                 *)

LEMMA RivalsAre ==
  ASSUME NEW j \in Jobs
  PROVE  /\ Rivals(j) \subseteq Jobs \ {j}
         /\ \A k \in Rivals(j) : j \in Rivals(k)
BY DEF Rivals, Jobs

LEMMA Rivalry ==
  ASSUME NEW j \in Jobs, NEW k \in Jobs, j # k, HasScript(j), HasScript(k),
         ScriptName(j) = ScriptName(k)
  PROVE  k \in Rivals(j)
<1>1. build[j].driver = "cmake" => FileOf(j) = NoFile
  BY DEF FileOf
<1>2. build[k].driver = "cmake" => FileOf(k) = NoFile
  BY DEF FileOf
<1>3. CASE build[j].driver = "cmake"
  <2>1. ScriptName(j) = <<"cmake">>
    BY <1>1, <1>3 DEF ScriptName
  <2>2. build[k].driver = "cmake"
    <3>1. CASE FileOf(k) = NoFile
      BY <3>1 DEF HasScript
    <3>2. CASE FileOf(k) # NoFile
      <4>1. ScriptName(k) = <<build[k].driver, BaseName[FileOf(k)]>>
        BY <3>2 DEF ScriptName
      <4>2. Len(ScriptName(k)) = 2 /\ Len(ScriptName(j)) = 1
        BY <2>1, <4>1
      <4> QED BY <4>2
    <3> QED BY <3>1, <3>2
  <2> QED BY <1>3, <2>2 DEF Rivals, Jobs
<1>4. CASE build[j].driver # "cmake"
  <2>1. FileOf(j) # NoFile /\ ScriptName(j) = <<build[j].driver, BaseName[FileOf(j)]>>
    BY <1>4 DEF HasScript, ScriptName
  <2>2. FileOf(k) # NoFile
    <3> SUFFICES ASSUME FileOf(k) = NoFile PROVE FALSE
      OBVIOUS
    <3>1. ScriptName(k) = <<build[k].driver>>
      BY DEF ScriptName
    <3>2. Len(ScriptName(k)) = 1 /\ Len(ScriptName(j)) = 2
      BY <2>1, <3>1
    <3> QED BY <3>2
  <2>3. ScriptName(k) = <<build[k].driver, BaseName[FileOf(k)]>>
    BY <2>2 DEF ScriptName
  <2>4. build[k].driver = build[j].driver /\ BaseName[FileOf(k)] = BaseName[FileOf(j)]
    <3>1. ASSUME NEW a, NEW b, NEW c, NEW d, <<a, b>> = <<c, d>> PROVE a = c /\ b = d
      BY <3>1
    <3>2. <<build[k].driver, BaseName[FileOf(k)]>> = <<build[j].driver, BaseName[FileOf(j)]>>
      BY <2>1, <2>3
    <3> QED BY <3>1, <3>2, Zenon
  <2> QED BY <2>1, <2>2, <2>4 DEF Rivals, Jobs
<1> QED BY <1>3, <1>4

LEMMA MixedStep ==
  ASSUME TypeInv, MixedInv, NEW j \in Jobs, Step(j) PROVE MixedInv'
<1> USE DEF TypeInv
<1>0. /\ build' = build /\ mixed \subseteq mixed' /\ Others(j) /\ Jobs' = Jobs
      /\ \A k : Rivals(k)' = Rivals(k)
      /\ j \in DOMAIN pc
  BY StepFrame, SameBuild DEF VarTypes
<1>1. \A k \in Jobs \ {j} : AtScript(k)' = AtScript(k)
  BY <1>0 DEF Others, AtScript
<1>2. CASE Truncate(j)
  <2> SUFFICES ASSUME NEW k \in Jobs, NEW l \in Rivals(k), AtScript(k)', AtScript(l)'
               PROVE  k \in mixed'
    BY <1>0 DEF MixedInv
  <2>1. l \in Jobs /\ l # k /\ k \in Rivals(l)
    BY RivalsAre
  <2>2. CASE k = j
    <3>1. AtScript(l)
      BY <1>1, <2>1, <2>2
    <3> QED BY <1>2, <2>2, <3>1 DEF Truncate, AtScript
  <2>3. CASE l = j
    <3>1. AtScript(k)
      BY <1>1, <2>1, <2>3
    <3> QED BY <1>2, <2>1, <2>3, <3>1 DEF Truncate, AtScript
  <2>4. CASE k # j /\ l # j
    BY <1>0, <1>1, <2>1, <2>4 DEF MixedInv
  <2> QED BY <2>2, <2>3, <2>4
<1>3. CASE ~Truncate(j)
  <2>1. AtScript(j)' => AtScript(j)
    BY <1>0, <1>3 DEF AtScript, Step, Forward, Bypass, Untyped, Write, Written, Source, RunTool, Check,
       Ignore, Gzip, Return, RunCallers, RunByHand, ProcessOutput, ProcessLong, ProcessOther,
       Analyse, CallersEnds, End, At
  <2>2. \A k \in Jobs : AtScript(k)' => AtScript(k)
    BY <1>1, <2>1
  <2> HIDE DEF AtScript
  <2> QED BY <1>0, <2>2, RivalsAre DEF MixedInv
<1> QED BY <1>2, <1>3

LEMMA SameExcused ==
  build' = build => \A u : Excused(u)' = Excused(u)
<1> SUFFICES ASSUME build' = build, NEW u PROVE Excused(u)' = Excused(u)
  OBVIOUS
<1>1. CallersArguments(u)' = CallersArguments(u)
  BY SameBuild
<1> QED BY <1>1, Zenon DEF Excused

LEMMA OutputStep ==
  ASSUME TypeInv, ParseInv, OutputInv, NEW j \in Jobs, Step(j) PROVE OutputInv'
<1> USE DEF TypeInv
<1>0. build' = build /\ AllCommands' = AllCommands /\ \A u : Excused(u)' = Excused(u)
  BY StepFrame, SameBuild, SameExcused
<1>1. ASSUME \A u \in AllCommands : <<"callers", u>> \in outputs' => <<"callers", u>> \in outputs
      PROVE  OutputInv'
  BY <1>0, <1>1 DEF OutputInv
<1>2. CASE Forward(j) \/ Bypass(j) \/ Untyped(j) \/ Truncate(j) \/ Write(j) \/ Written(j)
           \/ Source(j) \/ Check(j) \/ Ignore(j) \/ Gzip(j) \/ Return(j) \/ RunCallers(j) \/ RunByHand(j)
  <2>1. outputs' \subseteq outputs
    BY <1>2 DEF Forward, Bypass, Untyped, Truncate, Write, Written, Source, Check, Ignore, Gzip,
       Return, RunCallers, RunByHand
  <2> QED BY <1>1, <2>1
<1>3. CASE RunTool(j)
  <2> DEFINE p == running[j][1]
  <2>1. p.tool # "callers" /\ (outputs' = outputs \/ outputs' = outputs \cup {<<p.tool, p.unit>>})
    BY <1>3 DEF RunTool, At
  <2> HIDE DEF p
  <2> QED BY <1>1, <2>1
<1>4. CASE pc[j] = "parse"
  <2>1. CASE UNCHANGED outputs
    BY <1>1, <2>1
  <2>2. CASE ~ UNCHANGED outputs
    <3>1. Analyse(j) /\ ~Refused(parsing[j].args)
          /\ (parsing[j].version <=> Versioned(parsing[j].args))
      BY <1>4, <2>2, ParseEnds
    <3> DEFINE unit == IF build[j].driver = "callers" THEN <<j, 1>> ELSE running[j][1].unit
    <3>2. ~parsing[j].version /\ outputs' = outputs \cup {<<"callers", unit>>}
      BY <2>2, <3>1 DEF Analyse
    <3>3. build[unit[1]].driver # "callers" => ~Excused(unit)
      <4>1. CASE build[j].driver = "callers"
        BY <4>1
      <4>2. CASE build[j].driver # "callers"
        <5>1. parsing[j].args = CallersArguments(unit)
          BY <1>4, <4>2 DEF PlaceOK, GivenArgs
        <5> QED BY <3>1, <3>2, <5>1 DEF Excused
      <4> QED BY <4>1, <4>2
    <3> HIDE DEF unit
    <3> QED BY <1>0, <3>2, <3>3 DEF OutputInv
  <2> QED BY <2>1, <2>2
<1>5. CASE ProcessOutput(j) \/ ProcessLong(j) \/ ProcessOther(j) \/ Analyse(j)
  BY <1>4, <1>5 DEF ProcessOutput, ProcessLong, ProcessOther, Analyse
<1> QED BY <1>2, <1>3, <1>5 DEF Step

-----------------------------------------------------------------------------
(* A job goes through its own script, from its first piece to its last.     *)

\* What is left of a sequence.
LEMMA LeftOf ==
  ASSUME NEW W, NEW s \in Seq(W), NEW n \in 0 .. Len(s), SubSeq(s, n + 1, Len(s)) # << >>
  PROVE  /\ n + 1 \in 1 .. Len(s) /\ s[n + 1] \in W
         /\ SubSeq(s, n + 1, Len(s))[1] = s[n + 1]
         /\ Tail(SubSeq(s, n + 1, Len(s))) = SubSeq(s, (n + 1) + 1, Len(s))
<1>1. n + 1 \in 1 .. Len(s)
  OBVIOUS
<1> QED BY <1>1

LEMMA NoneLeft ==
  ASSUME NEW W, NEW s \in Seq(W), NEW n \in 0 .. Len(s)
  PROVE  SubSeq(s, n + 1, Len(s)) = << >> <=> n = Len(s)
<1>1. CASE n = Len(s)
  BY <1>1
<1>2. CASE n # Len(s)
  <2>1. n + 1 \in 1 .. Len(s)
    BY <1>2
  <2>2. Len(SubSeq(s, n + 1, Len(s))) = Len(s) - n /\ Len(s) - n # 0
    BY <1>2, <2>1
  <2> QED BY <1>2, <2>2
<1> QED BY <1>1, <1>2

LEMMA AllLeft ==
  ASSUME NEW W, NEW s \in Seq(W)
  PROVE  SubSeq(s, 0 + 1, Len(s)) = s /\ SubSeq(s, 1, Len(s)) = s /\ SubSeq(s, 1, 0) = << >>
OBVIOUS

\* An echo at the end of what is written.
LEMMA PutNext ==
  ASSUME NEW W, NEW s \in Seq(W), NEW n \in Nat, n + 1 \in 1 .. Len(s)
  PROVE  PutPiece(SubSeq(s, 1, n), n + 1, s[n + 1]) = SubSeq(s, 1, n + 1)
<1> DEFINE text == SubSeq(s, 1, n)
           val(i) == IF i = n + 1 THEN s[n + 1] ELSE IF i \in DOMAIN text THEN text[i] ELSE Hole
<1>1. Len(text) = n /\ DOMAIN text = 1 .. n /\ \A i \in 1 .. n : text[i] = s[i]
  OBVIOUS
<1>2. (IF Len(text) > n + 1 THEN Len(text) ELSE n + 1) = n + 1
  BY <1>1
<1>3. PutPiece(text, n + 1, s[n + 1]) = [i \in 1 .. n + 1 |-> val(i)]
  BY <1>2, Zenon DEF PutPiece
<1>4. \A i \in 1 .. n + 1 : val(i) = s[i]
  BY <1>1
<1>5. SubSeq(s, 1, n + 1) = [i \in 1 .. n + 1 |-> s[i]]
  OBVIOUS
<1> HIDE DEF val, text
<1>6. [i \in 1 .. n + 1 |-> val(i)] = [i \in 1 .. n + 1 |-> s[i]]
  BY <1>4
<1> QED BY <1>3, <1>5, <1>6 DEF text

LEMMA OwnScript ==
  ASSUME build \in Builds, NEW j \in Jobs
  PROVE  /\ ScriptOf(j) \in Seq(OwnPieces(j)) /\ Guarded(ScriptOf(j))
         /\ Len(ScriptOf(j)) \in Nat /\ DOMAIN ScriptOf(j) = 1 .. Len(ScriptOf(j))
         /\ \A i \in 1 .. Len(ScriptOf(j)) :
              /\ ScriptOf(j)[i].unit \in CommandsOf(j) /\ ScriptOf(j)[i].tool \in Tools
              /\ ScriptOf(j)[i].step \in {"run", "check", "ignore", "gzip"}
<1>1. ScriptOf(j) \in Seq(OwnPieces(j)) /\ Guarded(ScriptOf(j))
  BY ScriptOfIs DEF Tidy
<1>2. \A i \in 1 .. Len(ScriptOf(j)) : ScriptOf(j)[i] \in OwnPieces(j)
  <2> HIDE DEF OwnPieces
  <2> QED BY <1>1
<1> QED BY <1>1, <1>2 DEF OwnPieces

\* One piece more.
LEMMA Advance ==
  ASSUME VarTypes, NEW j \in Jobs, NEW n \in 0 .. Len(ScriptOf(j)), Behind(j, n),
         build' = build, done \subseteq done', unbegun \subseteq unbegun', running[j] # << >>,
         running'[j] = Tail(running[j]),
         running[j][1].step = "check" => status[j] = 0,
         running[j][1].tool = "callers" /\ running[j][1].step = "run" =>
           \/ Given(done', unbegun', j, running[j][1].unit)
           \/ status'[j] = 1
           \/ Excused(running[j][1].unit),
         running[j][1].tool = "callers" /\ running[j][1].step = "gzip"
           /\ Excused(running[j][1].unit) => status'[j] = 1
  PROVE  n + 1 \in 0 .. Len(ScriptOf(j)) /\ Behind(j, n + 1)'
<1> DEFINE s == ScriptOf(j)
           p == running[j][1]
<1>1. /\ s \in Seq(OwnPieces(j)) /\ Guarded(s) /\ DOMAIN s = 1 .. Len(s) /\ Len(s) \in Nat
  BY OwnScript DEF VarTypes
<1>2. s' = s /\ \A u : Excused(u)' = Excused(u)
  BY SameBuild, SameExcused
<1>3. /\ running[j] = SubSeq(s, n + 1, Len(s))
      /\ \A i \in 1 .. n : s[i].tool = "callers" /\ s[i].step = "run" =>
           \/ Given(done, unbegun, j, s[i].unit)
           \/ i = n /\ status[j] = 1
           \/ Excused(s[i].unit)
  BY Zenon DEF Behind
<1> HIDE DEF s, OwnPieces
<1>4. /\ n + 1 \in 1 .. Len(s) /\ p = s[n + 1]
      /\ running'[j] = SubSeq(s, (n + 1) + 1, Len(s))
  BY <1>1, <1>3, LeftOf DEF s
<1>5. ASSUME n \in 1 .. Len(s), s[n].tool = "callers", s[n].step = "run" PROVE status[j] = 0
  <2>1. s[n + 1] = PieceOf(s[n].unit, "callers", "check")
    BY <1>1, <1>5 DEF Guarded
  <2> QED BY <1>4, <2>1 DEF PieceOf
<1> HIDE DEF p
<1>6. ASSUME NEW i \in 1 .. n + 1, s[i].tool = "callers", s[i].step = "run"
      PROVE  \/ Given(done', unbegun', j, s[i].unit)
             \/ i = n + 1 /\ status'[j] = 1
             \/ Excused(s[i].unit)
  <2>1. CASE i = n + 1
    BY <1>4, <1>6, <2>1 DEF p
  <2>2. CASE i # n + 1
    <3>1. i \in 1 .. n /\ n \in Nat /\ Len(s) \in Nat
      BY <1>1, <2>2
    <3>2. i = n => n \in 1 .. Len(s)
      BY <1>4, <3>1
    <3>3. ~ (i = n /\ status[j] = 1)
      BY <1>5, <1>6, <3>2
    <3> QED BY <1>3, <1>6, <3>1, <3>3
  <2> QED BY <2>1, <2>2
<1>7. s[n + 1].tool = "callers" /\ s[n + 1].step = "gzip" /\ Excused(s[n + 1].unit) => status'[j] = 1
  BY <1>4 DEF p
<1>8. n + 1 \in 0 .. Len(s)
  BY <1>4
<1>9. Behind(j, n + 1)' <=>
        /\ running'[j] = SubSeq(s', n + 1 + 1, Len(s'))
        /\ \A i \in 1 .. n + 1 : s'[i].tool = "callers" /\ s'[i].step = "run" =>
             \/ Given(done', unbegun', j, s'[i].unit)
             \/ i = n + 1 /\ status'[j] = 1
             \/ Excused(s[i].unit)'
        /\ n + 1 > 0 /\ s'[n + 1].tool = "callers" /\ s'[n + 1].step = "gzip"
             /\ Excused(s[n + 1].unit)' => status'[j] = 1
  BY Zenon DEF Behind, s
<1> QED BY <1>2, <1>4, <1>6, <1>7, <1>8, <1>9 DEF s

\* Nothing changes for job j but, perhaps, that more is done.
LEMMA Stays ==
  ASSUME VarTypes, NEW j \in Jobs, NEW n, Behind(j, n), build' = build,
         done \subseteq done', unbegun \subseteq unbegun',
         running'[j] = running[j], status'[j] = status[j]
  PROVE  Behind(j, n)'
<1> DEFINE s == ScriptOf(j)
<1>1. s' = s /\ \A u : Excused(u)' = Excused(u)
  BY SameBuild, SameExcused
<1>2. /\ running[j] = SubSeq(s, n + 1, Len(s))
      /\ \A i \in 1 .. n : s[i].tool = "callers" /\ s[i].step = "run" =>
           \/ Given(done, unbegun, j, s[i].unit)
           \/ i = n /\ status[j] = 1
           \/ Excused(s[i].unit)
      /\ n > 0 /\ s[n].tool = "callers" /\ s[n].step = "gzip" /\ Excused(s[n].unit) => status[j] = 1
  BY Zenon DEF Behind
<1>3. Behind(j, n)' <=>
        /\ running'[j] = SubSeq(s', n + 1, Len(s'))
        /\ \A i \in 1 .. n : s'[i].tool = "callers" /\ s'[i].step = "run" =>
             \/ Given(done', unbegun', j, s'[i].unit)
             \/ i = n /\ status'[j] = 1
             \/ Excused(s[i].unit)'
        /\ n > 0 /\ s'[n].tool = "callers" /\ s'[n].step = "gzip"
             /\ Excused(s[n].unit)' => status'[j] = 1
  BY Zenon DEF Behind, s
<1> HIDE DEF s
<1> QED BY <1>1, <1>2, <1>3

\* A job that is not at its script, or whose script nobody else is at.
LEMMA ScriptKept ==
  ASSUME TypeInv, MixedInv', NEW j \in Jobs, Step(j), NEW k \in Jobs \ {j}, k \notin mixed',
         ScriptOK(k)
  PROVE  ScriptOK(k)'
<1> USE DEF TypeInv
<1>0. /\ build' = build /\ done \subseteq done' /\ unbegun \subseteq unbegun'
      /\ Others(j) /\ Jobs' = Jobs /\ VarTypes'
      /\ \A l : /\ ScriptOf(l)' = ScriptOf(l) /\ ScriptName(l)' = ScriptName(l)
                /\ HasScript(l)' = HasScript(l) /\ Rivals(l)' = Rivals(l)
      /\ \A l \in Jobs : PlaceOK(l)'
  BY StepFrame, SameBuild, TypesKept, PlacesKept
<1>1. /\ pc'[k] = pc[k] /\ unwritten'[k] = unwritten[k] /\ offset'[k] = offset[k]
      /\ running'[k] = running[k] /\ status'[k] = status[k]
  BY <1>0 DEF Others
<1>2. ASSUME AtScript(k) PROVE script'[ScriptName(k)] = script[ScriptName(k)]
  <2> SUFFICES ASSUME script'[ScriptName(k)] # script[ScriptName(k)] PROVE FALSE
    OBVIOUS
  <2>1. HasScript(k) /\ AtScript(k)' /\ ScriptName(k) \in ScriptNames
    BY <1>1, <1>2, ScriptNamed DEF AtScript, PlaceOK, VarTypes
  <2>2. Truncate(j) \/ Write(j)
    BY DEF Step, Forward, Bypass, Untyped, Written, Source, RunTool, Check, Ignore, Gzip, Return,
       RunCallers, RunByHand, ProcessOutput, ProcessLong, ProcessOther, Analyse
  <2>3. ScriptName(j) = ScriptName(k)
    BY <2>1, <2>2 DEF Truncate, Write, VarTypes
  <2>4. AtScript(j)'
    BY <2>2 DEF Truncate, Write, AtScript, VarTypes
  <2>5. HasScript(j)
    BY <1>0, <2>4 DEF AtScript, PlaceOK
  <2>6. j \in Rivals(k)
    BY <2>1, <2>3, <2>5, Rivalry
  <2> HIDE DEF AtScript
  <2> QED BY <1>0, <2>1, <2>4, <2>6 DEF MixedInv
<1>3. ASSUME NEW n, Behind(k, n) PROVE Behind(k, n)'
  BY <1>0, <1>1, <1>3, Stays
<1> DEFINE s == ScriptOf(k)
<1>4. s' = s /\ ScriptName(k)' = ScriptName(k)
  BY <1>0
<1> HIDE DEF s
<1>5. /\ pc[k] = "start" => offset[k] = 0
      /\ AtScript(k) =>
           /\ offset[k] <= Len(s)
           /\ script[ScriptName(k)] = SubSeq(s, 1, offset[k])
           /\ unwritten[k] = SubSeq(s, offset[k] + 1, Len(s))
      /\ pc[k] = "source" => offset[k] = Len(s)
      /\ pc[k] \in {"run", "parse"} /\ build[k].driver # "callers" =>
           \/ pc[k] = "run" /\ running[k] = << >> /\ status[k] = 1
           \/ \E n \in 0 .. Len(s) : Behind(k, n)
  BY Zenon DEF ScriptOK, s
<1>6. AtScript(k)' = AtScript(k)
  BY <1>1 DEF AtScript
<1> HIDE DEF AtScript
<1>7. /\ pc'[k] = "start" => offset'[k] = 0
      /\ AtScript(k)' =>
           /\ offset'[k] <= Len(s')
           /\ script'[ScriptName(k)'] = SubSeq(s', 1, offset'[k])
           /\ unwritten'[k] = SubSeq(s', offset'[k] + 1, Len(s'))
      /\ pc'[k] = "source" => offset'[k] = Len(s')
      /\ pc'[k] \in {"run", "parse"} /\ build'[k].driver # "callers" =>
           \/ pc'[k] = "run" /\ running'[k] = << >> /\ status'[k] = 1
           \/ \E n \in 0 .. Len(s') : Behind(k, n)'
  BY <1>0, <1>1, <1>2, <1>3, <1>4, <1>5, <1>6
<1> QED BY <1>7, Zenon DEF ScriptOK, s

\* What a job that is not mixed reads from its script.
LEMMA ReadsItsScript ==
  ASSUME TypeInv, MixedInv, NEW j \in Jobs \ mixed, ScriptOK(j), pc[j] = "source",
         NEW r \in Readings(j, script[ScriptName(j)])
  PROVE  r = ScriptOf(j)
<1> DEFINE s == ScriptOf(j)
<1>1. s \in Seq(OwnPieces(j)) /\ \A i \in DOMAIN s : s[i].step # "hole"
  BY OwnScript DEF TypeInv, VarTypes
<1>2. script[ScriptName(j)] = s
  <2>1. script[ScriptName(j)] = SubSeq(s, 1, offset[j]) /\ offset[j] = Len(s)
    BY DEF ScriptOK, AtScript
  <2> HIDE DEF s
  <2> QED BY <1>1, <2>1, AllLeft
<1>3. Without(s, {Hole}) = s
  <2>1. \A i \in DOMAIN s : s[i] \notin {Hole}
    BY <1>1 DEF Hole
  <2> HIDE DEF s
  <2> QED BY <1>1, <2>1, WithoutNone
<1>4. \A k \in Rivals(j) : pc[k] # "write"
  BY DEF MixedInv, AtScript
<1> HIDE DEF s
<1>5. r \in Readings(j, s)
  BY <1>2
<1> QED BY <1>3, <1>4, <1>5 DEF Readings, s

LEMMA ScriptOwnStep ==
  ASSUME TypeInv, ParseInv, OutputInv, MixedInv, NEW j \in Jobs, Step(j), j \notin mixed',
         ScriptOK(j)
  PROVE  ScriptOK(j)'
<1> USE DEF TypeInv
<1>0. /\ build' = build /\ done \subseteq done' /\ unbegun \subseteq unbegun'
      /\ mixed \subseteq mixed' /\ VarTypes'
      /\ ScriptOf(j)' = ScriptOf(j) /\ ScriptName(j)' = ScriptName(j)
      /\ j \in DOMAIN pc /\ j \in DOMAIN running /\ j \in DOMAIN status
      /\ j \in DOMAIN offset /\ j \in DOMAIN unwritten
  BY StepFrame, SameBuild, TypesKept DEF VarTypes
<1> DEFINE s == ScriptOf(j)
<1>1. /\ s' = s /\ s \in Seq(OwnPieces(j)) /\ Len(s) \in Nat /\ ScriptName(j)' = ScriptName(j)
      /\ \A i \in 1 .. Len(s) : /\ s[i].unit \in CommandsOf(j) /\ s[i].tool \in Tools
                                /\ s[i].step \in {"run", "check", "ignore", "gzip"}
  BY <1>0, OwnScript DEF VarTypes
<1> HIDE DEF s, OwnPieces
<1>2. /\ pc[j] = "start" => offset[j] = 0
      /\ AtScript(j) =>
           /\ offset[j] <= Len(s)
           /\ script[ScriptName(j)] = SubSeq(s, 1, offset[j])
           /\ unwritten[j] = SubSeq(s, offset[j] + 1, Len(s))
      /\ pc[j] = "source" => offset[j] = Len(s)
      /\ pc[j] \in {"run", "parse"} /\ build[j].driver # "callers" =>
           \/ pc[j] = "run" /\ running[j] = << >> /\ status[j] = 1
           \/ \E n \in 0 .. Len(s) : Behind(j, n)
  BY Zenon DEF ScriptOK, s
<1>3. ScriptOK(j)' <=>
        /\ pc'[j] = "start" => offset'[j] = 0
        /\ AtScript(j)' =>
             /\ offset'[j] <= Len(s')
             /\ script'[ScriptName(j)'] = SubSeq(s', 1, offset'[j])
             /\ unwritten'[j] = SubSeq(s', offset'[j] + 1, Len(s'))
        /\ pc'[j] = "source" => offset'[j] = Len(s')
        /\ pc'[j] \in {"run", "parse"} /\ build'[j].driver # "callers" =>
             \/ pc'[j] = "run" /\ running'[j] = << >> /\ status'[j] = 1
             \/ \E n \in 0 .. Len(s') : Behind(j, n)'
  BY Zenon DEF ScriptOK, s
<1>4. ASSUME pc'[j] = "ended" PROVE ScriptOK(j)'
  BY <1>3, <1>4 DEF AtScript
<1>5. ASSUME pc'[j] \in {"run", "parse"}, build[j].driver # "callers",
             \/ pc'[j] = "run" /\ running'[j] = << >> /\ status'[j] = 1
             \/ \E n \in 0 .. Len(s) : Behind(j, n)'
      PROVE  ScriptOK(j)'
  BY <1>0, <1>1, <1>3, <1>5 DEF AtScript
<1>6. CASE Forward(j) \/ Bypass(j) \/ Untyped(j) \/ Return(j)
  BY <1>0, <1>4, <1>6 DEF Forward, Bypass, Untyped, Return, End
<1>7. CASE RunByHand(j)
  BY <1>0, <1>3, <1>7 DEF RunByHand, AtScript
<1>8. CASE Truncate(j)
  <2>1. ScriptName(j) \in ScriptNames
    BY <1>0, <1>8, ScriptNamed DEF Truncate, HasScript, VarTypes
  <2>2. /\ pc'[j] = "write" /\ offset'[j] = 0 /\ unwritten'[j] = s
        /\ script'[ScriptName(j)] = << >>
    BY <1>0, <1>2, <1>8, <2>1 DEF Truncate, VarTypes, s
  <2>3. s = SubSeq(s, 0 + 1, Len(s)) /\ << >> = SubSeq(s, 1, 0) /\ 0 <= Len(s)
    BY <1>1, AllLeft
  <2> QED BY <1>1, <1>3, <2>2, <2>3
<1>9. CASE Write(j)
  <2> DEFINE n == offset[j]
             u == unwritten[j]
  <2>1. /\ pc[j] = "write" /\ n <= Len(s) /\ n \in Nat
        /\ script[ScriptName(j)] = SubSeq(s, 1, n)
        /\ u = SubSeq(s, n + 1, Len(s)) /\ u # << >>
    BY <1>2, <1>9 DEF Write, AtScript, VarTypes
  <2>2. ScriptName(j) \in DOMAIN script
    BY <1>9, ScriptNamed DEF Write, PlaceOK, VarTypes
  <2>3. /\ pc'[j] = "write" /\ offset'[j] = n + 1 /\ unwritten'[j] = Tail(u)
        /\ script'[ScriptName(j)] = PutPiece(script[ScriptName(j)], n + 1, u[1])
    BY <1>0, <1>9, <2>2 DEF Write
  <2> HIDE DEF n, u
  <2>4. n + 1 \in 1 .. Len(s) /\ u[1] = s[n + 1] /\ Tail(u) = SubSeq(s, (n + 1) + 1, Len(s))
    <3>1. n \in 0 .. Len(s)
      BY <1>1, <2>1
    <3> QED BY <1>1, <2>1, <3>1, LeftOf
  <2>5. PutPiece(script[ScriptName(j)], n + 1, u[1]) = SubSeq(s, 1, n + 1)
    BY <1>1, <2>1, <2>4, PutNext
  <2> QED BY <1>1, <1>3, <2>3, <2>4, <2>5
<1>10. CASE Written(j)
  <2>1. /\ pc[j] = "write" /\ pc'[j] = "source" /\ unwritten[j] = << >>
        /\ UNCHANGED <<offset, unwritten, script>>
    BY <1>0, <1>10 DEF Written
  <2>2. AtScript(j)
    BY <2>1 DEF AtScript
  <2>3. offset[j] \in 0 .. Len(s)
    BY <1>1, <1>2, <2>2 DEF VarTypes
  <2>4. offset[j] = Len(s)
    BY <1>1, <1>2, <2>1, <2>2, <2>3, NoneLeft
  <2> QED BY <1>1, <1>2, <1>3, <2>1, <2>2, <2>4
<1>11. CASE Source(j)
  <2>1. j \in Jobs \ mixed /\ pc[j] = "source"
    BY <1>0, <1>11 DEF Source
  <2>2. running'[j] = s /\ status'[j] = 0 /\ pc'[j] = "run"
    <3>1. PICK r \in Readings(j, script[ScriptName(j)]) : running' = [running EXCEPT ![j] = r]
      BY <1>11 DEF Source
    <3>2. r = s
      BY <2>1, <3>1, ReadsItsScript DEF s
    <3> QED BY <1>0, <1>11, <3>1, <3>2 DEF Source
  <2>3. s = SubSeq(s, 0 + 1, Len(s)) /\ 0 \in 0 .. Len(s)
    BY <1>1, AllLeft
  <2>4. Behind(j, 0)' <=>
          /\ running'[j] = SubSeq(s', 0 + 1, Len(s'))
          /\ \A i \in 1 .. 0 : s'[i].tool = "callers" /\ s'[i].step = "run" =>
               \/ Given(done', unbegun', j, s'[i].unit)
               \/ i = 0 /\ status'[j] = 1
               \/ Excused(s[i].unit)'
          /\ 0 > 0 /\ s'[0].tool = "callers" /\ s'[0].step = "gzip"
               /\ Excused(s[0].unit)' => status'[j] = 1
    BY Zenon DEF Behind, s
  <2>5. Behind(j, 0)'
    BY <1>1, <2>2, <2>3, <2>4
  <2>6. build[j].driver # "callers"
    BY <2>1 DEF PlaceOK
  <2> QED BY <1>5, <2>2, <2>3, <2>5, <2>6
<1>12. ASSUME build[j].driver # "callers", pc[j] \in {"run", "parse"}, running[j] # << >>
       PROVE  \E n \in 0 .. Len(s) :
                /\ Behind(j, n) /\ n + 1 \in 1 .. Len(s) /\ running[j][1] = s[n + 1]
  <2>1. PICK n \in 0 .. Len(s) : Behind(j, n)
    BY <1>2, <1>12
  <2>2. running[j] = SubSeq(s, n + 1, Len(s))
    BY <2>1, Zenon DEF Behind, s
  <2>3. n + 1 \in 1 .. Len(s) /\ SubSeq(s, n + 1, Len(s))[1] = s[n + 1]
    BY <1>1, <1>12, <2>2, LeftOf
  <2> QED BY <2>1, <2>2, <2>3
<1>13. ASSUME build[j].driver # "callers", pc[j] \in {"run", "parse"}, running[j] # << >>,
              pc'[j] = "run", running'[j] = Tail(running[j]),
              running[j][1].step = "check" => status[j] = 0,
              running[j][1].tool = "callers" /\ running[j][1].step = "run" =>
                \/ Given(done', unbegun', j, running[j][1].unit)
                \/ status'[j] = 1
                \/ Excused(running[j][1].unit),
              running[j][1].tool = "callers" /\ running[j][1].step = "gzip"
                /\ Excused(running[j][1].unit) => status'[j] = 1
       PROVE  ScriptOK(j)'
  <2>1. PICK n \in 0 .. Len(s) : Behind(j, n)
    BY <1>12, <1>13
  <2>2. n + 1 \in 0 .. Len(s) /\ Behind(j, n + 1)'
    BY <1>0, <1>13, <2>1, Advance DEF s
  <2> QED BY <1>5, <1>13, <2>2
<1>14. ASSUME pc[j] = "run" PROVE build[j].driver # "callers"
  BY <1>14 DEF PlaceOK
<1>15. CASE RunTool(j)
  <2>1. /\ pc[j] = "run" /\ running[j] # << >> /\ running[j][1].tool # "callers"
        /\ running[j][1].step = "run" /\ pc'[j] = "run" /\ running'[j] = Tail(running[j])
    BY <1>0, <1>15 DEF RunTool, At
  <2> QED BY <1>13, <1>14, <2>1
<1>16. CASE Check(j)
  <2>1. /\ pc[j] = "run" /\ running[j] # << >> /\ running[j][1].step = "check"
        /\ pc'[j] = "run" /\ status'[j] = status[j]
        /\ running'[j] = IF status[j] = 0 THEN Tail(running[j]) ELSE << >>
    BY <1>0, <1>16 DEF Check, At
  <2>2. CASE status[j] = 0
    BY <1>13, <1>14, <2>1, <2>2
  <2>3. CASE status[j] # 0
    <3>1. status'[j] = 1
      BY <2>1, <2>3 DEF VarTypes
    <3> QED BY <1>5, <1>14, <2>1, <2>3, <3>1
  <2> QED BY <2>2, <2>3
<1>17. CASE Ignore(j)
  <2>1. /\ pc[j] = "run" /\ running[j] # << >> /\ running[j][1].step \in {"ignore", "broken"}
        /\ pc'[j] = "run" /\ running'[j] = Tail(running[j])
    BY <1>0, <1>17 DEF Ignore, At
  <2> QED BY <1>13, <1>14, <2>1
<1>18. CASE Gzip(j)
  <2> DEFINE p == running[j][1]
             out == <<p.tool, p.unit>>
  <2>1. /\ pc[j] = "run" /\ running[j] # << >> /\ p.step = "gzip"
        /\ pc'[j] = "run" /\ running'[j] = Tail(running[j])
        /\ status'[j] = IF out \in outputs THEN 0 ELSE 1
    BY <1>0, <1>18 DEF Gzip, At
  <2>2. ASSUME p.tool = "callers", Excused(p.unit) PROVE status'[j] = 1
    <3>1. p.unit \in CommandsOf(j)
      BY <1>1, <1>12, <1>14, <2>1
    <3>2. p.unit \in AllCommands /\ p.unit[1] = j
      BY <3>1, CommandIs
    <3> HIDE DEF p
    <3>3. <<"callers", p.unit>> \notin outputs
      BY <1>14, <2>1, <2>2, <3>2 DEF OutputInv
    <3> QED BY <2>1, <2>2, <3>3
  <2> QED BY <1>13, <1>14, <2>1, <2>2
<1>19. CASE RunCallers(j)
  <2>1. /\ pc[j] = "run" /\ running[j] # << >> /\ pc'[j] = "parse"
        /\ running'[j] = running[j] /\ status'[j] = status[j]
    BY <1>0, <1>19 DEF RunCallers, At
  <2>2. PICK n \in 0 .. Len(s) : Behind(j, n)
    BY <1>12, <1>14, <2>1
  <2>3. Behind(j, n)'
    BY <1>0, <2>1, <2>2, Stays
  <2> QED BY <1>5, <1>14, <2>1, <2>2, <2>3
<1>20. CASE pc[j] = "parse" /\ build[j].driver = "callers"
  <2>1. pc'[j] \in {"parse", "ended"}
    <3>1. CASE \E c \in {0, 1} : CallersEnds(j, c)
      BY <1>0, <1>20, <3>1 DEF CallersEnds, End
    <3>2. CASE UNCHANGED pc
      BY <1>20, <3>2
    <3> QED BY <1>20, <3>1, <3>2, ParseEnds DEF Analyse
  <2> QED BY <1>0, <1>3, <1>20, <2>1 DEF AtScript
<1>21. CASE pc[j] = "parse" /\ build[j].driver # "callers"
  <2> DEFINE p == running[j][1]
  <2>1. /\ running[j] # << >> /\ p.tool = "callers" /\ p.step = "run"
        /\ parsing[j].args = CallersArguments(p.unit)
    BY <1>21 DEF PlaceOK, GivenArgs
  <2>2. ASSUME NEW c, CallersEnds(j, c)
        PROVE  pc'[j] = "run" /\ status'[j] = c /\ running'[j] = Tail(running[j])
    BY <1>0, <1>21, <2>2 DEF CallersEnds
  <2>3. ASSUME NEW c, CallersEnds(j, c),
               Given(done', unbegun', j, p.unit) \/ c = 1 \/ Excused(p.unit)
        PROVE  ScriptOK(j)'
    <3>1. pc'[j] = "run" /\ status'[j] = c /\ running'[j] = Tail(running[j])
      BY <2>2, <2>3
    <3> QED BY <1>13, <1>21, <2>1, <2>3, <3>1
  <2>4. CASE UNCHANGED <<pc, running, status, done, outputs>>
    <3>1. PICK n \in 0 .. Len(s) : Behind(j, n)
      BY <1>12, <1>21, <2>1
    <3>2. Behind(j, n)'
      BY <1>0, <2>4, <3>1, Stays
    <3> QED BY <1>5, <1>21, <2>4, <3>1, <3>2
  <2>5. CASE CallersEnds(j, 0) /\ Refused(parsing[j].args)
    BY <2>1, <2>3, <2>5 DEF Excused
  <2>6. CASE Analyse(j) /\ (parsing[j].version <=> Versioned(parsing[j].args))
    <3>1. CASE CallersEnds(j, 1)
      BY <2>3, <3>1
    <3>2. CASE CallersEnds(j, 0) /\ Given(done', unbegun', j, p.unit)
      BY <2>3, <3>2
    <3>3. CASE CallersEnds(j, 0) /\ parsing[j].version
      BY <2>1, <2>3, <2>6, <3>3 DEF Excused
    <3>4. parsing[j].args # << >>
      <4>1. p.unit \in AllCommands
        BY <1>1, <1>12, <1>21, <2>1, CommandIs
      <4> HIDE DEF p
      <4> QED BY <2>1, <4>1, CallersArgumentsType DEF VarTypes
    <3>5. /\ CallersEnds(j, 0) \/ CallersEnds(j, 1)
          /\ ~parsing[j].version /\ CallersEnds(j, 0) =>
               Given(done', unbegun', j, p.unit) \/ CallersEnds(j, 1)
      BY <1>21, <2>6, <3>4 DEF Analyse
    <3> QED BY <3>1, <3>2, <3>3, <3>5
  <2> QED BY <1>21, <2>4, <2>5, <2>6, ParseEnds
<1>22. CASE ProcessOutput(j) \/ ProcessLong(j) \/ ProcessOther(j) \/ Analyse(j)
  BY <1>20, <1>21, <1>22 DEF ProcessOutput, ProcessLong, ProcessOther, Analyse
<1> QED BY <1>6, <1>7, <1>8, <1>9, <1>10, <1>11, <1>15, <1>16, <1>17, <1>18, <1>19, <1>22 DEF Step

LEMMA ScriptStep ==
  ASSUME TypeInv, ParseInv, OutputInv, MixedInv, ScriptInv, NEW j \in Jobs, Step(j)
  PROVE  ScriptInv'
<1>1. Jobs' = Jobs /\ mixed \subseteq mixed'
  BY StepFrame, SameBuild DEF TypeInv
<1>2. MixedInv'
  BY MixedStep
<1> SUFFICES ASSUME NEW k \in Jobs, k \notin mixed' PROVE ScriptOK(k)'
  BY <1>1 DEF ScriptInv
<1>3. ScriptOK(k)
  BY <1>1 DEF ScriptInv
<1> QED BY <1>2, <1>3, ScriptKept, ScriptOwnStep

\* The piece that a job is at is one of its own.
LEMMA OwnPiece ==
  ASSUME TypeInv, NEW j \in Jobs, ScriptOK(j), pc[j] \in {"run", "parse"},
         build[j].driver # "callers", running[j] # << >>
  PROVE  running[j][1].unit[1] = j
<1> DEFINE s == ScriptOf(j)
<1>1. PICK n \in 0 .. Len(s) : Behind(j, n)
  BY DEF ScriptOK
<1>2. running[j] = SubSeq(s, n + 1, Len(s))
  BY <1>1, Zenon DEF Behind
<1>3. s \in Seq(OwnPieces(j)) /\ \A i \in 1 .. Len(s) : s[i].unit \in CommandsOf(j)
  BY OwnScript DEF TypeInv, VarTypes
<1> HIDE DEF s, OwnPieces
<1>4. n + 1 \in 1 .. Len(s) /\ running[j][1] = s[n + 1]
  BY <1>2, <1>3, LeftOf
<1> QED BY <1>3, <1>4, CommandIs

LEMMA OwnStep ==
  ASSUME TypeInv, ScriptInv, OwnWork, NEW j \in Jobs, Step(j) PROVE OwnWork'
<1> USE DEF TypeInv
<1>0. mixed \subseteq mixed' /\ PlaceOK(j)
  BY StepFrame
<1>1. ASSUME NEW tool, NEW unit, done' \subseteq done \cup {<<j, tool, unit>>},
             j \in mixed \/ unit[1] = j
      PROVE  OwnWork'
  <2>1. \A d \in done' : d \in done \/ d = <<j, tool, unit>>
    BY <1>1
  <2> QED BY <1>0, <1>1, <2>1 DEF OwnWork
<1>2. ASSUME done' = done PROVE OwnWork'
  BY <1>0, <1>2 DEF OwnWork
<1>3. CASE Forward(j)
  <2>1. done' \subseteq done \cup {<<j, "clang", <<j, 1>>>>}
    BY <1>3 DEF Forward
  <2> QED BY <1>1, <2>1
<1>4. ASSUME pc[j] \in {"run", "parse"}, build[j].driver # "callers", running[j] # << >>
      PROVE  j \in mixed \/ running[j][1].unit[1] = j
  BY <1>4, OwnPiece DEF ScriptInv
<1>5. CASE RunTool(j)
  <2>1. pc[j] = "run" /\ running[j] # << >> /\ build[j].driver # "callers"
    BY <1>0, <1>5 DEF RunTool, At, PlaceOK
  <2>2. done' \subseteq done \cup {<<j, running[j][1].tool, running[j][1].unit>>}
    BY <1>5 DEF RunTool
  <2> QED BY <1>1, <1>4, <2>1, <2>2
<1>6. CASE Analyse(j)
  <2> DEFINE unit == IF build[j].driver = "callers" THEN <<j, 1>> ELSE running[j][1].unit
  <2>1. done' \subseteq done \cup {<<j, "callers", unit>>}
    BY <1>6 DEF Analyse
  <2>2. j \in mixed \/ unit[1] = j
    <3>1. CASE build[j].driver = "callers"
      BY <3>1
    <3>2. CASE build[j].driver # "callers"
      BY <1>0, <1>4, <1>6, <3>2 DEF Analyse, PlaceOK, GivenArgs
    <3> QED BY <3>1, <3>2
  <2> HIDE DEF unit
  <2> QED BY <1>1, <2>1, <2>2
<1>7. CASE ~ (Forward(j) \/ RunTool(j) \/ Analyse(j))
  BY <1>2, <1>7 DEF Step, Bypass, Untyped, Truncate, Write, Written, Source, Check, Ignore, Gzip,
     Return, RunCallers, RunByHand, ProcessOutput, ProcessLong, ProcessOther
<1> QED BY <1>3, <1>5, <1>6, <1>7

\* A job that has run all of its script.
LEMMA AllRun ==
  ASSUME TypeInv, NEW j \in Jobs, ScriptOK(j), pc[j] = "run", running[j] = << >>, status[j] = 0,
         NEW u \in Analysed(j)
  PROVE  \/ Given(done, unbegun, j, u)
         \/ /\ Excused(u)
            /\ ScriptOf(j)[Len(ScriptOf(j))] # [unit |-> u, tool |-> "callers", step |-> "gzip"]
<1> USE DEF TypeInv
<1> DEFINE s == ScriptOf(j)
<1>1. build[j].driver # "callers"
  BY DEF PlaceOK
<1>2. PICK n \in 0 .. Len(s) : Behind(j, n)
  BY <1>1 DEF ScriptOK
<1>3. /\ running[j] = SubSeq(s, n + 1, Len(s))
      /\ \A i \in 1 .. n : s[i].tool = "callers" /\ s[i].step = "run" =>
           \/ Given(done, unbegun, j, s[i].unit)
           \/ i = n /\ status[j] = 1
           \/ Excused(s[i].unit)
      /\ n > 0 /\ s[n].tool = "callers" /\ s[n].step = "gzip" /\ Excused(s[n].unit) => status[j] = 1
  BY <1>2, Zenon DEF Behind
<1>4. s \in Seq(OwnPieces(j)) /\ Len(s) \in Nat /\ DOMAIN s = 1 .. Len(s)
  BY OwnScript DEF VarTypes
<1>5. Has(s, PieceOf(u, "callers", "run"))
  BY ScriptOfIs DEF VarTypes
<1> HIDE DEF s, OwnPieces
<1>6. n = Len(s)
  BY <1>3, <1>4, NoneLeft
<1>7. PICK i \in 1 .. n : s[i] = PieceOf(u, "callers", "run")
  BY <1>4, <1>5, <1>6 DEF Has
<1>8. n > 0 /\ s[i].tool = "callers" /\ s[i].step = "run" /\ s[i].unit = u
  BY <1>7 DEF PieceOf
<1>9. Given(done, unbegun, j, u) \/ Excused(u)
  BY <1>3, <1>8
<1>10. ASSUME Excused(u), s[Len(s)] = [unit |-> u, tool |-> "callers", step |-> "gzip"]
       PROVE  FALSE
  <2>1. s[n].tool = "callers" /\ s[n].step = "gzip" /\ s[n].unit = u
    BY <1>6, <1>10
  <2> QED BY <1>3, <1>8, <1>10, <2>1
<1> QED BY <1>9, <1>10 DEF s

LEMMA ToldStep ==
  ASSUME TypeInv, ScriptInv, ToldOrDone, NEW j \in Jobs, Step(j) PROVE ToldOrDone'
<1> USE DEF TypeInv
<1>0. /\ build' = build /\ done \subseteq done' /\ unbegun \subseteq unbegun'
      /\ mixed \subseteq mixed' /\ Others(j)
      /\ Jobs' = Jobs /\ PlaceOK(j) /\ j \in DOMAIN pc /\ j \in DOMAIN status
      /\ \A k : /\ ScriptOf(k)' = ScriptOf(k) /\ Analysed(k)' = Analysed(k)
                /\ FileOf(k)' = FileOf(k)
      /\ \A u : Excused(u)' = Excused(u)
  BY StepFrame, SameBuild, SameExcused DEF VarTypes
<1> DEFINE Told(k, dn, nb) ==
      \A u \in Analysed(k) :
        \/ Given(dn, nb, k, u)
        \/ /\ Excused(u)
           /\ ScriptOf(k)[Len(ScriptOf(k))] # [unit |-> u, tool |-> "callers", step |-> "gzip"]
<1>1. ASSUME NEW k \in Jobs \ mixed, pc[k] = "ended", status[k] = 0,
             build[k].driver \in {"ccc", "cmake"}
      PROVE  Told(k, done, unbegun)
  BY <1>1 DEF ToldOrDone, Jobs, Excused
<1>2. ASSUME \A k \in Jobs : k \notin mixed' /\ pc'[k] = "ended" /\ status'[k] = 0
               /\ build[k].driver \in {"ccc", "cmake"} => Told(k, done', unbegun')
      PROVE  ToldOrDone'
  <2> SUFFICES ASSUME NEW k \in Jobs, k \notin mixed', pc'[k] = "ended", status'[k] = 0,
                      build'[k].driver \in {"ccc", "cmake"}, NEW u \in Analysed(k)'
               PROVE  \/ Given(done', unbegun', k, u)
                      \/ /\ Excused(u)'
                         /\ ScriptOf(k)'[Len(ScriptOf(k)')]
                              # [unit |-> u, tool |-> "callers", step |-> "gzip"]
    BY <1>0 DEF ToldOrDone, Jobs, Excused
  <2>1. Told(k, done', unbegun')
    BY <1>0, <1>2
  <2> QED BY <1>0, <2>1
<1> SUFFICES ASSUME NEW k \in Jobs, k \notin mixed', pc'[k] = "ended", status'[k] = 0,
                    build[k].driver \in {"ccc", "cmake"}
             PROVE  Told(k, done', unbegun')
  BY <1>2
<1>3. Told(k, done, unbegun) => Told(k, done', unbegun')
  BY <1>0
<1>4. k \notin mixed
  BY <1>0
<1>5. CASE k # j
  <2>1. pc[k] = "ended" /\ status[k] = 0
    BY <1>0, <1>5 DEF Others
  <2> HIDE DEF Told
  <2> QED BY <1>1, <1>3, <1>4, <2>1
<1>6. CASE k = j
  <2>1. Forward(j) \/ Bypass(j) \/ Untyped(j) \/ Return(j)
    BY <1>0, <1>6 DEF Step, Truncate, Write, Written, Source, RunTool, Check, Ignore, Gzip,
       RunCallers, RunByHand, ProcessOutput, ProcessLong, ProcessOther, Analyse, CallersEnds,
       End, At
  <2>2. CASE Forward(j)
    <3>1. \A u : u \notin Analysed(j)
      BY <2>2 DEF Forward, Analysed
    <3> QED BY <1>6, <3>1
  <2>3. ~Bypass(j) /\ ~Untyped(j)
    BY <1>0, <1>6 DEF Bypass, Untyped, End
  <2>4. CASE Return(j)
    <3>1. pc[j] = "run" /\ running[j] = << >> /\ status[j] = 0 /\ ScriptOK(j)
      BY <1>0, <1>4, <1>6, <2>4 DEF Return, End, ScriptInv
    <3>2. Told(j, done, unbegun)
      BY <3>1, AllRun
    <3> HIDE DEF Told
    <3> QED BY <1>3, <1>6, <3>2
  <2> QED BY <2>1, <2>2, <2>3, <2>4
<1> QED BY <1>5, <1>6

LaunchInv == TypeInv /\ ParseInv /\ OutputInv /\ MixedInv /\ ScriptInv

LEMMA LaunchInit == Init => LaunchInv /\ OwnWork /\ ToldOrDone
<1> SUFFICES ASSUME Init PROVE LaunchInv /\ OwnWork /\ ToldOrDone
  OBVIOUS
<1>1. TypeInv /\ ParseInv
  BY TypeInit, ParseInit
<1>2. /\ \A j \in Jobs : pc[j] = "start" /\ offset[j] = 0
      /\ done = {} /\ unbegun = {} /\ outputs = {}
  BY DEF Init, Jobs
<1>3. OutputInv /\ OwnWork /\ ToldOrDone
  BY <1>2 DEF OutputInv, OwnWork, ToldOrDone, Jobs
<1>4. MixedInv
  BY <1>2 DEF MixedInv, AtScript
<1>5. ScriptInv
  BY <1>2 DEF ScriptInv, ScriptOK, AtScript
<1> QED BY <1>1, <1>3, <1>4, <1>5 DEF LaunchInv

LEMMA LaunchStep ==
  LaunchInv /\ [Next]_vars =>
    /\ LaunchInv'
    /\ OwnWork => OwnWork'
    /\ ToldOrDone => ToldOrDone'
<1> SUFFICES ASSUME LaunchInv, [Next]_vars
             PROVE  LaunchInv' /\ (OwnWork => OwnWork') /\ (ToldOrDone => ToldOrDone')
  OBVIOUS
<1> USE DEF LaunchInv
<1>1. TypeInv'
  BY TypeStep
<1>2. CASE Next
  <2>1. PICK j \in Jobs : Step(j)
    BY <1>2 DEF Next, Jobs
  <2>2. ParseInv' /\ OutputInv' /\ MixedInv' /\ ScriptInv'
    BY <2>1, ParseStep, OutputStep, MixedStep, ScriptStep
  <2> QED BY <1>1, <2>1, <2>2, OwnStep, ToldStep
<1>3. CASE UNCHANGED vars
  <2>1. /\ build' = build /\ pc' = pc /\ script' = script /\ unwritten' = unwritten
        /\ offset' = offset /\ running' = running /\ status' = status /\ parsing' = parsing
        /\ done' = done /\ outputs' = outputs /\ mixed' = mixed
        /\ unbegun' = unbegun
    BY <1>3 DEF vars
  <2>2. /\ Jobs' = Jobs /\ AllCommands' = AllCommands
        /\ \A k : /\ ScriptOf(k)' = ScriptOf(k) /\ ScriptName(k)' = ScriptName(k)
                  /\ Rivals(k)' = Rivals(k) /\ Analysed(k)' = Analysed(k)
        /\ \A u : Excused(u)' = Excused(u)
    BY <2>1, SameBuild, SameExcused
  <2>3. ParseInv' /\ OutputInv' /\ MixedInv'
    BY <2>1, <2>2 DEF ParseInv, Read, OutputInv, MixedInv, AtScript
  <2>4. ASSUME NEW k \in Jobs, NEW n, Behind(k, n) PROVE Behind(k, n)'
    BY <2>1, <2>4, Stays DEF TypeInv
  <2>5. ASSUME NEW k \in Jobs, ScriptOK(k) PROVE ScriptOK(k)'
    <3> DEFINE s == ScriptOf(k)
    <3>1. s' = s /\ ScriptName(k)' = ScriptName(k)
      BY <2>2
    <3>2. ScriptOK(k)' <=>
        /\ pc'[k] = "start" => offset'[k] = 0
        /\ AtScript(k)' =>
             /\ offset'[k] <= Len(s')
             /\ script'[ScriptName(k)'] = SubSeq(s', 1, offset'[k])
             /\ unwritten'[k] = SubSeq(s', offset'[k] + 1, Len(s'))
        /\ pc'[k] = "source" => offset'[k] = Len(s')
        /\ pc'[k] \in {"run", "parse"} /\ build'[k].driver # "callers" =>
             \/ pc'[k] = "run" /\ running'[k] = << >> /\ status'[k] = 1
             \/ \E n \in 0 .. Len(s') : Behind(k, n)'
      BY Zenon DEF ScriptOK
    <3>3. /\ pc[k] = "start" => offset[k] = 0
          /\ AtScript(k) =>
               /\ offset[k] <= Len(s)
               /\ script[ScriptName(k)] = SubSeq(s, 1, offset[k])
               /\ unwritten[k] = SubSeq(s, offset[k] + 1, Len(s))
          /\ pc[k] = "source" => offset[k] = Len(s)
          /\ pc[k] \in {"run", "parse"} /\ build[k].driver # "callers" =>
               \/ pc[k] = "run" /\ running[k] = << >> /\ status[k] = 1
               \/ \E n \in 0 .. Len(s) : Behind(k, n)
      BY <2>5, Zenon DEF ScriptOK
    <3> HIDE DEF s
    <3> QED BY <2>1, <2>4, <3>1, <3>2, <3>3 DEF AtScript
  <2>6. ScriptInv'
    BY <2>1, <2>2, <2>5 DEF ScriptInv
  <2>7. OwnWork => OwnWork'
    BY <2>1 DEF OwnWork
  <2>8. ToldOrDone => ToldOrDone'
    BY <2>1, <2>2, Zenon DEF ToldOrDone, Excused, Jobs
  <2> QED BY <1>1, <2>3, <2>6, <2>7, <2>8
<1> QED BY <1>2, <1>3

\* For every build: no job does the work of another, unless they were at the same
\* script at the same time.
THEOREM OwnCommands == Spec => []OwnWork
<1>1. LaunchInv /\ OwnWork /\ [Next]_vars => LaunchInv' /\ OwnWork'
  BY LaunchStep
<1> QED BY <1>1, LaunchInit, PTL DEF Spec

\* For every build: when ccc-analyzer or cmake_analysis.sh ends with a status of
\* zero, callers went through all that it was to go through, but for the units that
\* clang could not begin to read, those whose arguments callers refused, and those
\* that only asked for its version.
THEOREM DoneOrTold == Spec => []ToldOrDone
<1>1. LaunchInv /\ ToldOrDone /\ [Next]_vars => LaunchInv' /\ ToldOrDone'
  BY LaunchStep
<1> QED BY <1>1, LaunchInit, PTL DEF Spec
===============================================================================

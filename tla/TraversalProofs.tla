--------------------------- MODULE TraversalProofs ---------------------------
(***************************************************************************)
(* Proofs about Traversal, for units of any size and shape.                *)
(***************************************************************************)
EXTENDS Traversal, TLAPS

\* What a walk is about: one of the units, which is a sequence of nodes.
UnitOK == unit \in Programs

USE DEF None

\* The nodes of a unit and what they refer to.
LEMMA UnitNodes ==
  ASSUME TypeOK, UnitOK
  PROVE  /\ unit \in Seq(Node)
         /\ Len(unit) \in Nat
         /\ \A i \in 1..Len(unit) : unit[i] \in Node /\ unit[i].depth \in Nat
         /\ \A i \in 1..Len(unit) : IsFunction(unit, i) => unit[i].ref \in 1..i
         /\ \A i \in 1..Len(unit) :
              IsExpression(unit, i) => unit[i].ref \in 0..Len(unit)
  <1>1. unit \in Seq(Node)
    BY DEF TypeOK
  <1>2. Len(unit) \in Nat /\ \A i \in 1..Len(unit) : unit[i] \in Node
    BY <1>1
  <1>3. \A i \in 1..Len(unit) : unit[i].depth \in Nat
    BY <1>2 DEF Node
  <1>4. \A i \in 1..Len(unit) : IsFunction(unit, i) => unit[i].ref \in 1..i
    BY TraversalAssumption DEF UnitOK
  <1>5. \A i \in 1..Len(unit) : IsExpression(unit, i) => unit[i].ref \in 0..Len(unit)
    <2>1. ASSUME NEW i \in 1..Len(unit), IsExpression(unit, i)
          PROVE  unit[i].ref \in 0..Len(unit)
      <3>1. \/ unit[i].ref \in 0..(i - 1)
            \/ \E r \in 1..i : unit[i].ref \in 1..Len(unit)
        BY <2>1, TraversalAssumption DEF UnitOK
      <3> QED BY <3>1, <1>2
    <2> QED BY <2>1
  <1> QED BY <1>1, <1>2, <1>3, <1>4, <1>5

\* Below is transitive.
LEMMA BelowBelow ==
  ASSUME NEW p \in Seq(Node), NEW i \in 1..Len(p), NEW j \in 1..Len(p), NEW k \in 1..Len(p),
         Below(p, i, j), Below(p, j, k)
  PROVE  Below(p, i, k)
  <1>1. \A x \in 1..Len(p) : p[x].depth \in Nat
    <2>1. \A x \in 1..Len(p) : p[x] \in Node
      OBVIOUS
    <2> QED BY <2>1 DEF Node
  <1>2. i < j /\ j < k /\ p[j].depth > p[i].depth
    BY DEF Below
  <1>3. ASSUME NEW x \in (i + 1)..k
        PROVE  p[x].depth > p[i].depth
    <2>1. CASE x <= j
      <3>1. x \in (i + 1)..j
        BY <2>1
      <3> QED BY <3>1 DEF Below
    <2>2. CASE x > j
      <3>1. x \in (j + 1)..k /\ x \in 1..Len(p)
        BY <2>2, <1>2
      <3>2. p[x].depth > p[j].depth
        BY <3>1 DEF Below
      <3> QED BY <3>1, <3>2, <1>1, <1>2
    <2> QED BY <2>1, <2>2
  <1> QED BY <1>2, <1>3 DEF Below

\* Everything between a node and something below it is below it.
LEMMA BelowBetween ==
  ASSUME NEW p, NEW i \in Nat, NEW j \in Nat, NEW k \in Nat,
         Below(p, i, k), i < j, j <= k
  PROVE  Below(p, i, j)
  BY DEF Below

\* What is below a node that is not visited is not visited.
LEMMA SkippedBelow ==
  ASSUME NEW p \in Seq(Node), NEW i \in 1..Len(p), NEW j \in 1..Len(p),
         Skipped(p, i), Below(p, i, j)
  PROVE  Skipped(p, j)
  <1>1. PICK s \in 1..i : p[s].kind \in NotEntered /\ (s = i \/ Below(p, s, i))
    BY DEF Skipped
  <1>2. i < j
    BY DEF Below
  <1>3. s \in 1..Len(p) /\ s \in 1..j
    BY <1>2
  <1>4. Below(p, s, j)
    BY <1>1, <1>3, BelowBelow
  <1> QED BY <1>1, <1>3, <1>4 DEF Skipped

-----------------------------------------------------------------------------
(* The steps. *)

\* The expression next calls nothing that is recorded.
Ignorable == OfInterest(Ref) => unit[next].kind = "delete" /\ Ref = None

\* Whatever the expression, a step that visits it ignores it, records it, or is
\* the last, because there is no caller, a thread is created, or what is called is
\* at no place of the source.
VisitExpression ==
  /\ At(Expressions)
  /\ \/ Ignorable /\ Ignore
     \/ /\ OfInterest(Ref) /\ pfdParent # None
        /\ unit[next].kind = "delete" => Ref # None
        /\ AddFunctionCall
     \/ /\ \/ pfdParent = None
           \/ unit[next].kind = "thread"
           \/ unit[next].kind = "call" /\ Unplaced(Ref)
        /\ \E how \in {"crashed", "aborted"} : Die(how)

\* A function is visited to the end, or asked for lines that it does not have.
VisitPlaced   == VisitFunctionDecl /\ ~Unplaced(next)
VisitUnplaced == At(Functions) /\ Unplaced(next) /\ Die("aborted")

LEMMA StepCases ==
  ASSUME Next
  PROVE  \/ TraverseNot \/ VisitRecordDecl \/ VisitPlaced \/ VisitUnplaced
         \/ VisitExpression \/ End
  <1>1. ASSUME NEW k \in Expressions, At({k}) PROVE At(Expressions) /\ unit[next].kind = k
    BY <1>1 DEF At
  <1>2. CASE VisitCallExpr
    <2>1. At(Expressions) /\ unit[next].kind \in {"call", "thread"}
      BY <1>2 DEF VisitCallExpr, At, Expressions
    <2> QED BY <1>2, <2>1 DEF VisitCallExpr, VisitBuiltinFunction, VisitThreadCreation,
                              VisitExpression, Ignorable, OfInterest
  <1>3. CASE VisitCXXConstructExpr
    <2>1. At(Expressions) /\ unit[next].kind = "construct"
      BY <1>3, <1>1 DEF VisitCXXConstructExpr, Expressions
    <2> QED BY <1>3, <2>1 DEF VisitCXXConstructExpr, VisitExpression, Ignorable
  <1>4. CASE VisitCXXNewExpr
    <2>1. At(Expressions) /\ unit[next].kind = "new"
      BY <1>4, <1>1 DEF VisitCXXNewExpr, Expressions
    <2> QED BY <1>4, <2>1 DEF VisitCXXNewExpr, VisitExpression, Ignorable
  <1>5. CASE VisitCXXDeleteExpr
    <2>1. At(Expressions) /\ unit[next].kind = "delete"
      BY <1>5, <1>1 DEF VisitCXXDeleteExpr, Expressions
    <2> QED BY <1>5, <2>1 DEF VisitCXXDeleteExpr, VisitExpression, Ignorable
  <1>6. CASE VisitFunctionDecl
    BY <1>6 DEF VisitFunctionDecl, VisitPlaced, VisitUnplaced
  <1> QED BY <1>2, <1>3, <1>4, <1>5, <1>6 DEF Next

-----------------------------------------------------------------------------
(* Types. *)

ParentOK == pfdParent # None => IsFunction(unit, pfdParent)

Types == TypeOK /\ UnitOK /\ ParentOK

LEMMA TypesInit == Init => Types
  <1> SUFFICES ASSUME Init PROVE Types
    OBVIOUS
  <1>1. unit \in Seq(Node)
    BY TraversalAssumption DEF Init
  <1>2. Len(unit) + 1 \in Nat \ {0}
    BY <1>1
  <1> QED BY <1>1, <1>2 DEF Init, Types, TypeOK, UnitOK, ParentOK

LEMMA TypesStep == Types /\ [Next]_vars => Types'
  <1> SUFFICES ASSUME Types, [Next]_vars PROVE Types'
    OBVIOUS
  <1> USE DEF Types, TypeOK, UnitOK, ParentOK
  <1>0. /\ Len(unit) \in Nat
        /\ \A i \in 1..Len(unit) : IsFunction(unit, i) => unit[i].ref \in 1..i
        /\ \A i \in 1..Len(unit) : IsExpression(unit, i) => unit[i].ref \in 0..Len(unit)
    BY UnitNodes
  <1>1. CASE TraverseNot
    BY <1>0, <1>1 DEF TraverseNot, At
  <1>2. CASE VisitRecordDecl
    BY <1>0, <1>2 DEF VisitRecordDecl, At
  <1>3. CASE VisitPlaced
    <2>1. next \in 1..Len(unit) /\ IsFunction(unit, next)
      BY <1>0, <1>3 DEF VisitPlaced, VisitFunctionDecl, At, IsFunction
    <2>2. Ref \in 1..Len(unit)
      BY <1>0, <2>1 DEF Ref
    <2>3. /\ pfdParent' = next /\ next' = next + 1 /\ UNCHANGED <<unit, calls, status>>
          /\ defined' \subseteq defined \cup {Ref}
      BY <1>3 DEF VisitPlaced, VisitFunctionDecl
    <2> QED BY <1>0, <2>1, <2>2, <2>3
  <1>4. CASE VisitExpression
    <2>1. next \in 1..Len(unit) /\ IsExpression(unit, next)
      BY <1>0, <1>4 DEF VisitExpression, At, IsExpression
    <2>2. CASE Ignore
      BY <1>0, <2>1, <2>2 DEF Ignore
    <2>3. CASE AddFunctionCall /\ pfdParent # None
      <3>1. [expr |-> next, caller |-> pfdParent, callee |-> Ref] \in Call
        BY <1>0, <2>1 DEF Call, Ref
      <3>2. unit[pfdParent].ref \in 1..Len(unit)
        <4>1. pfdParent \in 1..Len(unit) /\ IsFunction(unit, pfdParent)
          BY <1>0, <2>1, <2>3
        <4> QED BY <4>1, <1>0
      <3>3. calls' \subseteq Call /\ defined' \subseteq 1..Len(unit)
        BY <2>3, <3>1, <3>2 DEF AddFunctionCall
      <3>4. next' \in 1..(Len(unit) + 1) /\ pfdParent' \in 0..(next' - 1)
        BY <1>0, <2>1, <2>3 DEF AddFunctionCall
      <3> QED BY <2>3, <3>3, <3>4 DEF AddFunctionCall
    <2>4. CASE \E how \in {"crashed", "aborted"} : Die(how)
      BY <2>4 DEF Die
    <2> QED BY <1>4, <2>2, <2>3, <2>4 DEF VisitExpression
  <1>5. CASE End
    BY <1>5 DEF End
  <1>6. CASE VisitUnplaced
    BY <1>6 DEF VisitUnplaced, Die
  <1>7. CASE UNCHANGED vars
    BY <1>7 DEF vars
  <1> QED BY <1>1, <1>2, <1>3, <1>4, <1>5, <1>6, <1>7, StepCases

\* The walk, the current function and what is recorded keep their types, in
\* every unit.
THEOREM TypeCorrect == Spec => []TypeOK
  <1>1. Types => TypeOK
    BY DEF Types
  <1> QED BY <1>1, TypesInit, TypesStep, PTL DEF Spec

-----------------------------------------------------------------------------
(* Who calls. *)

\* No function was visited after pfdParent, which was visited; and the walk is
\* below nothing that is not entered.
Walked ==
  /\ pfdParent # None => ~Skipped(unit, pfdParent)
  /\ \A k \in (pfdParent + 1)..(next - 1) : IsFunction(unit, k) => Skipped(unit, k)
  /\ next <= Len(unit) =>
       \A s \in 1..(next - 1) : unit[s].kind \in NotEntered => ~Below(unit, s, next)

\* The same when a call was recorded.
CallsOK ==
  \A c \in calls :
    /\ c.expr \in 1..(next - 1) /\ ~Skipped(unit, c.expr)
    /\ c.caller \in 1..(c.expr - 1)
    /\ IsFunction(unit, c.caller) /\ ~Skipped(unit, c.caller)
    /\ \A k \in (c.caller + 1)..(c.expr - 1) : IsFunction(unit, k) => Skipped(unit, k)

LEMMA NextNotSkipped ==
  ASSUME Types, Walked, next <= Len(unit), unit[next].kind \notin NotEntered
  PROVE  ~Skipped(unit, next)
  BY DEF Types, TypeOK, Walked, Skipped

\* Going to the next node is going below nothing that is not entered.
LEMMA NextNotBelow ==
  ASSUME Types, Walked, next <= Len(unit), unit[next].kind \notin NotEntered,
         next + 1 <= Len(unit), NEW s \in 1..next, unit[s].kind \in NotEntered
  PROVE  ~Below(unit, s, next + 1)
  <1>0. Len(unit) \in Nat /\ next \in Nat
    BY UnitNodes DEF Types, TypeOK
  <1>1. s \in 1..(next - 1)
    BY <1>0
  <1>2. SUFFICES ASSUME Below(unit, s, next + 1) PROVE FALSE
    OBVIOUS
  <1>3. Below(unit, s, next)
    BY <1>0, <1>1, <1>2, BelowBetween
  <1> QED BY <1>1, <1>3 DEF Walked

\* Nor is going on after a declaration that is not entered; what is between is
\* not visited.
LEMMA AfterSkipped ==
  ASSUME Types, Walked, TraverseNot
  PROVE  /\ \A k \in next..(next' - 1) : Skipped(unit, k)
         /\ next' <= Len(unit) =>
              \A s \in 1..(next' - 1) : unit[s].kind \in NotEntered => ~Below(unit, s, next')
  <1>0. /\ Len(unit) \in Nat /\ next \in 1..Len(unit)
        /\ \A i \in 1..Len(unit) : unit[i].depth \in Nat
        /\ unit[next].kind \in NotEntered
    BY UnitNodes DEF Types, TypeOK, TraverseNot, At
  <1>1. PICK n \in (next + 1)..(Len(unit) + 1) :
          /\ \A k \in (next + 1)..(n - 1) : unit[k].depth > unit[next].depth
          /\ n <= Len(unit) => unit[n].depth <= unit[next].depth
          /\ next' = n
    BY DEF TraverseNot
  <1>2. ASSUME NEW k \in next..(n - 1)
        PROVE  Skipped(unit, k)
    <2>1. CASE k = next
      BY <1>0, <2>1 DEF Skipped
    <2>2. CASE k > next
      <3>1. \A x \in (next + 1)..k : x \in (next + 1)..(n - 1)
        BY <1>0, <1>2
      <3>2. Below(unit, next, k)
        BY <1>1, <2>2, <3>1 DEF Below
      <3>3. next \in 1..k
        BY <1>0, <1>1, <2>2
      <3> QED BY <1>0, <3>2, <3>3 DEF Skipped
    <2> QED BY <1>0, <1>1, <1>2, <2>1, <2>2
  <1>3. ASSUME n <= Len(unit), NEW s \in 1..(n - 1), unit[s].kind \in NotEntered,
               Below(unit, s, n)
        PROVE  FALSE
    <2>0. unit[n].depth > unit[s].depth
      BY <1>0, <1>1, <1>3 DEF Below
    <2>1. CASE s < next
      <3>1. Below(unit, s, next)
        BY <1>0, <1>1, <1>3, <2>1, BelowBetween
      <3> QED BY <1>0, <1>3, <2>1, <3>1 DEF Walked
    <2>2. CASE s >= next
      <3>1. s \in 1..Len(unit) /\ n \in 1..Len(unit)
        BY <1>0, <1>1, <1>3
      <3>2. s = next \/ unit[s].depth > unit[next].depth
        BY <1>0, <1>1, <1>3, <2>2
      <3> QED BY <1>0, <1>1, <1>3, <2>0, <3>1, <3>2
    <2> QED BY <1>0, <1>1, <1>3, <2>1, <2>2
  <1> QED BY <1>1, <1>2, <1>3

LEMMA WalkedInit == Init => Walked /\ CallsOK
  <1> SUFFICES ASSUME Init PROVE Walked /\ CallsOK
    OBVIOUS
  <1> QED BY DEF Init, Walked, CallsOK

LEMMA WalkedStep == Types /\ Types' /\ Walked /\ CallsOK /\ [Next]_vars => Walked' /\ CallsOK'
  <1> SUFFICES ASSUME Types, Types', Walked, CallsOK, [Next]_vars
               PROVE  Walked' /\ CallsOK'
    OBVIOUS
  <1>0. /\ Len(unit) \in Nat
        /\ next \in 1..(Len(unit) + 1) /\ pfdParent \in 0..(next - 1)
        /\ pfdParent # None => IsFunction(unit, pfdParent)
    BY UnitNodes DEF Types, TypeOK, ParentOK
  <1>a. ASSUME next' \in Nat, next <= next', unit' = unit, calls' = calls PROVE CallsOK'
    BY <1>0, <1>a DEF CallsOK
  <1>1. CASE TraverseNot
    <2>1. unit' = unit /\ pfdParent' = pfdParent /\ calls' = calls
      BY <1>1 DEF TraverseNot
    <2>2. next' \in Nat /\ next <= next'
      BY <1>0, <1>1 DEF TraverseNot
    <2>3. \A k \in (pfdParent + 1)..(next' - 1) : IsFunction(unit, k) => Skipped(unit, k)
      <3>1. PICK n \in Nat : next' = n
        BY <2>2
      <3>2. ASSUME NEW k \in (pfdParent + 1)..(n - 1), IsFunction(unit, k)
            PROVE  Skipped(unit, k)
        <4>1. CASE k \in next..(n - 1)
          BY <1>1, <3>1, <4>1, AfterSkipped
        <4>2. CASE k \in (pfdParent + 1)..(next - 1)
          BY <3>2, <4>2 DEF Walked
        <4> QED BY <1>0, <3>2, <4>1, <4>2
      <3> QED BY <3>1, <3>2
    <2>4. Walked'
      BY <1>1, <2>1, <2>3, AfterSkipped DEF Walked
    <2> QED BY <1>a, <2>1, <2>2, <2>4
  <1>b. ASSUME status = "running", next <= Len(unit), unit[next].kind \notin NotEntered,
               unit' = unit, next' = next + 1
        PROVE  next' <= Len(unit') =>
                 \A s \in 1..(next' - 1) : unit'[s].kind \in NotEntered => ~Below(unit', s, next')
    BY <1>0, <1>b, NextNotBelow
  <1>c. ASSUME status = "running", next <= Len(unit), unit[next].kind \notin NotEntered,
               unit' = unit, next' = next + 1, pfdParent' = pfdParent,
               ~IsFunction(unit, next)
        PROVE  Walked'
    <2>1. \A k \in (pfdParent + 1)..(next' - 1) : IsFunction(unit, k) => Skipped(unit, k)
      BY <1>0, <1>c DEF Walked
    <2> QED BY <1>b, <1>c, <2>1 DEF Walked
  <1>2. CASE VisitRecordDecl
    <2>1. /\ status = "running" /\ next <= Len(unit) /\ unit[next].kind = "record"
          /\ next' = next + 1 /\ unit' = unit /\ pfdParent' = pfdParent /\ calls' = calls
      BY <1>2 DEF VisitRecordDecl, At
    <2>2. ~IsFunction(unit, next)
      BY <2>1 DEF IsFunction, Functions
    <2>3. unit[next].kind \notin NotEntered
      BY <2>1 DEF NotEntered
    <2> QED BY <1>0, <1>a, <1>c, <2>1, <2>2, <2>3
  <1>3. CASE VisitPlaced
    <2>1. /\ status = "running" /\ next <= Len(unit) /\ unit[next].kind \in Functions
          /\ next' = next + 1 /\ unit' = unit /\ pfdParent' = next /\ calls' = calls
      BY <1>3 DEF VisitPlaced, VisitFunctionDecl, At
    <2>2. unit[next].kind \notin NotEntered
      BY <2>1 DEF Functions, NotEntered
    <2>3. ~Skipped(unit, next)
      BY <2>1, <2>2, NextNotSkipped
    <2>4. Walked'
      BY <1>0, <1>b, <2>1, <2>2, <2>3 DEF Walked
    <2> QED BY <1>0, <1>a, <2>1, <2>4
  <1>4. CASE VisitExpression
    <2>1. /\ status = "running" /\ next <= Len(unit) /\ unit[next].kind \in Expressions
          /\ unit' = unit /\ pfdParent' = pfdParent
      BY <1>4 DEF VisitExpression, At, Ignore, AddFunctionCall, Die
    <2>2. unit[next].kind \notin NotEntered /\ ~IsFunction(unit, next)
      BY <2>1 DEF Expressions, IsFunction, Functions, NotEntered
    <2>3. CASE Ignore
      BY <1>0, <1>a, <1>c, <2>1, <2>2, <2>3 DEF Ignore
    <2>4. CASE AddFunctionCall /\ pfdParent # None
      <3>1. ~Skipped(unit, next)
        BY <2>1, <2>2, NextNotSkipped
      <3>2. next' = next + 1
        BY <2>4 DEF AddFunctionCall
      <3>3. ASSUME NEW c \in calls'
            PROVE  /\ c.expr \in 1..(next' - 1) /\ ~Skipped(unit, c.expr)
                   /\ c.caller \in 1..(c.expr - 1)
                   /\ IsFunction(unit, c.caller) /\ ~Skipped(unit, c.caller)
                   /\ \A k \in (c.caller + 1)..(c.expr - 1) :
                        IsFunction(unit, k) => Skipped(unit, k)
        <4>1. CASE c \in calls
          BY <1>0, <3>2, <4>1 DEF CallsOK
        <4>2. CASE c = [expr |-> next, caller |-> pfdParent, callee |-> Ref]
          BY <1>0, <2>4, <3>1, <3>2, <4>2 DEF Walked
        <4> QED BY <2>4, <3>3, <4>1, <4>2 DEF AddFunctionCall
      <3>4. CallsOK'
        BY <2>1, <3>3 DEF CallsOK
      <3> QED BY <1>c, <2>1, <2>2, <3>2, <3>4
    <2>5. CASE \E how \in {"crashed", "aborted"} : Die(how)
      <3>1. UNCHANGED <<unit, next, pfdParent, calls>>
        BY <2>5 DEF Die
      <3> QED BY <3>1 DEF Walked, CallsOK
    <2> QED BY <1>4, <2>3, <2>4, <2>5 DEF VisitExpression
  <1>5. CASE End \/ VisitUnplaced \/ UNCHANGED vars
    <2>1. UNCHANGED <<unit, next, pfdParent, calls>>
      BY <1>5 DEF End, VisitUnplaced, Die, vars
    <2> QED BY <2>1 DEF Walked, CallsOK
  <1> QED BY <1>1, <1>2, <1>3, <1>4, <1>5, StepCases

LEMMA EnclosingFollows == Types /\ CallsOK => CallerIsEnclosing
  <1> SUFFICES ASSUME Types, CallsOK, NEW c \in calls, NEW f \in 1..Len(unit),
                      IsFunction(unit, f), Below(unit, f, c.expr),
                      \A k \in (f + 1)..(c.expr - 1) : IsFunction(unit, k) => Skipped(unit, k)
               PROVE  c.caller = f
    BY DEF CallerIsEnclosing
  <1>0. /\ unit \in Seq(Node) /\ Len(unit) \in Nat
        /\ next \in 1..(Len(unit) + 1)
    BY UnitNodes DEF Types, TypeOK
  <1>1. /\ c.expr \in 1..(next - 1) /\ ~Skipped(unit, c.expr)
        /\ c.caller \in 1..(c.expr - 1)
        /\ IsFunction(unit, c.caller) /\ ~Skipped(unit, c.caller)
        /\ \A k \in (c.caller + 1)..(c.expr - 1) : IsFunction(unit, k) => Skipped(unit, k)
    BY DEF CallsOK
  <1>2. f < c.expr
    BY DEF Below
  <1>3. ~Skipped(unit, f)
    BY <1>0, <1>1, SkippedBelow
  <1>4. ~(f < c.caller)
    BY <1>0, <1>1
  <1>5. ~(c.caller < f)
    BY <1>0, <1>1, <1>2, <1>3
  <1> QED BY <1>0, <1>1, <1>4, <1>5

\* In every unit, a call in the body of a function is a call by that function,
\* unless another function was declared in between.
THEOREM Attribution == Spec => []CallerIsEnclosing
  <1>1. Init => Types /\ Walked /\ CallsOK
    BY TypesInit, WalkedInit
  <1>2. Types /\ Walked /\ CallsOK /\ [Next]_vars => (Types /\ Walked /\ CallsOK)'
    BY TypesStep, WalkedStep
  <1>3. Types /\ Walked /\ CallsOK => CallerIsEnclosing
    BY EnclosingFollows
  <1> QED BY <1>1, <1>2, <1>3, PTL DEF Spec

-----------------------------------------------------------------------------
(* How the walk ends. *)

\* Only where there is no caller, a thread, or a function that is at no place of
\* the source, does the process die.
DeathOK ==
  status \in {"crashed", "aborted"} =>
    /\ \/ unit[next].kind = "thread"
       \/ unit[next].kind = "call" /\ Unplaced(Ref)
       \/ Unplaced(next)
       \/ pfdParent = None
    /\ next <= Len(unit) /\ unit[next].kind \in Expressions \cup Functions

LEMMA DeathInit == Init => DeathOK
  BY DEF Init, DeathOK

LEMMA DeathStep == DeathOK /\ [Next]_vars => DeathOK'
  <1> SUFFICES ASSUME DeathOK, [Next]_vars PROVE DeathOK'
    OBVIOUS
  <1>1. CASE TraverseNot
    BY <1>1 DEF TraverseNot, At, DeathOK
  <1>2. CASE VisitRecordDecl
    BY <1>2 DEF VisitRecordDecl, At, DeathOK
  <1>3. CASE VisitPlaced
    BY <1>3 DEF VisitPlaced, VisitFunctionDecl, At, DeathOK
  <1>4. CASE VisitExpression
    <2>1. CASE \E how \in {"crashed", "aborted"} : Die(how)
      <3>1. UNCHANGED <<unit, next, pfdParent>>
        BY <2>1 DEF Die
      <3>2. /\ next <= Len(unit) /\ unit[next].kind \in Expressions
            /\ \/ unit[next].kind = "thread"
               \/ unit[next].kind = "call" /\ Unplaced(Ref)
               \/ pfdParent = None
        BY <1>4, <2>1 DEF VisitExpression, At, Ignore, AddFunctionCall, Die
      <3> QED BY <3>1, <3>2 DEF DeathOK, Unplaced, Ref
    <2>2. CASE Ignore \/ AddFunctionCall
      BY <1>4, <2>2 DEF VisitExpression, At, Ignore, AddFunctionCall, DeathOK
    <2> QED BY <1>4, <2>1, <2>2 DEF VisitExpression
  <1>5. CASE End
    BY <1>5 DEF End, DeathOK
  <1>6. CASE VisitUnplaced
    <2>1. UNCHANGED <<unit, next, pfdParent>>
      BY <1>6 DEF VisitUnplaced, Die
    <2>2. next <= Len(unit) /\ unit[next].kind \in Functions /\ Unplaced(next)
      BY <1>6 DEF VisitUnplaced, At
    <2> QED BY <2>1, <2>2 DEF DeathOK, Unplaced
  <1>7. CASE UNCHANGED vars
    <2>1. UNCHANGED <<unit, next, pfdParent, status>>
      BY <1>7 DEF vars
    <2> QED BY <2>1 DEF DeathOK, Unplaced, Ref
  <1> QED BY <1>1, <1>2, <1>3, <1>4, <1>5, <1>6, <1>7, StepCases

LEMMA SafeFollows == Types /\ Walked /\ DeathOK => BodiesAreSafe
  <1> SUFFICES ASSUME Types, Walked, DeathOK, status \in {"crashed", "aborted"},
                      unit[next].kind # "thread", ~Unplaced(next),
                      ~(unit[next].kind = "call" /\ Unplaced(Ref)),
                      NEW f \in 1..Len(unit), IsFunction(unit, f), Below(unit, f, next)
               PROVE  FALSE
    BY DEF BodiesAreSafe
  <1>0. /\ unit \in Seq(Node) /\ Len(unit) \in Nat
        /\ next \in 1..Len(unit) /\ pfdParent = None
        /\ unit[next].kind \notin NotEntered
    BY UnitNodes DEF Types, TypeOK, DeathOK, Expressions, Functions, NotEntered
  <1>1. f \in (pfdParent + 1)..(next - 1)
    BY <1>0 DEF Below
  <1>2. Skipped(unit, f)
    BY <1>1 DEF Walked
  <1>3. Skipped(unit, next)
    BY <1>0, <1>2, SkippedBelow
  <1>4. ~Skipped(unit, next)
    BY <1>0, NextNotSkipped
  <1> QED BY <1>3, <1>4

\* In every unit, no visit in the body of a function stops the analysis but that of
\* a thread that is created, and of the call or the definition of a function that
\* clang declared at no place of the source.
THEOREM Safe == Spec => []BodiesAreSafe
  <1>1. Init => Types /\ Walked /\ CallsOK /\ DeathOK
    BY TypesInit, WalkedInit, DeathInit
  <1>2. Types /\ Walked /\ CallsOK /\ DeathOK /\ [Next]_vars
          => (Types /\ Walked /\ CallsOK /\ DeathOK)'
    BY TypesStep, WalkedStep, DeathStep
  <1>3. Types /\ Walked /\ CallsOK /\ DeathOK => BodiesAreSafe
    BY SafeFollows
  <1> QED BY <1>1, <1>2, <1>3, PTL DEF Spec

\* The calls of the part of the unit that was walked are recorded.
RecordedOK ==
  /\ \A i \in 1..(next - 1) : Recordable(i) => \E c \in calls : c.expr = i
  /\ \A c \in calls : Recordable(c.expr) /\ unit[c.caller].ref \in defined
  /\ \A c, d \in calls : c.expr = d.expr => c = d
  /\ status = "done" => next = Len(unit) + 1

LEMMA RecordedInit == Init => RecordedOK
  <1> SUFFICES ASSUME Init PROVE RecordedOK
    OBVIOUS
  <1> QED BY DEF Init, RecordedOK

\* A step that records nothing walks over nothing that is to be recorded.
LEMMA NothingRecorded ==
  ASSUME Types, RecordedOK, unit' = unit, calls' = calls, defined \subseteq defined',
         status' = status, status = "running", NEW n \in Nat, next' = n,
         \A i \in next..(n - 1) : ~Recordable(i)
  PROVE  RecordedOK'
  <1>0. next \in Nat
    BY DEF Types, TypeOK
  <1>1. ASSUME NEW i \in 1..(n - 1), Recordable(i)
        PROVE  \E c \in calls : c.expr = i
    BY <1>0, <1>1 DEF RecordedOK
  <1>2. \A i : Recordable(i)' = Recordable(i)
    BY DEF Recordable, OfInterest
  <1> QED BY <1>1, <1>2 DEF RecordedOK

LEMMA RecordedStep ==
  Types /\ Walked /\ CallsOK /\ RecordedOK /\ [Next]_vars => RecordedOK'
  <1> SUFFICES ASSUME Types, Walked, CallsOK, RecordedOK, [Next]_vars
               PROVE  RecordedOK'
    OBVIOUS
  <1>0. Len(unit) \in Nat /\ next \in Nat
    BY UnitNodes DEF Types, TypeOK
  <1>1. CASE TraverseNot
    <2>1. PICK n \in Nat : next' = n
      BY <1>0, <1>1 DEF TraverseNot
    <2>2. \A i \in next..(n - 1) : ~Recordable(i)
      BY <1>1, <2>1, AfterSkipped DEF Recordable
    <2> QED BY <1>1, <2>1, <2>2, NothingRecorded DEF TraverseNot, At
  <1>2. CASE VisitRecordDecl \/ VisitPlaced
    <2>1. ~IsExpression(unit, next)
      BY <1>2 DEF VisitRecordDecl, VisitPlaced, VisitFunctionDecl, At, IsExpression,
                  Functions, Expressions
    <2>2. \A i \in next..((next + 1) - 1) : ~Recordable(i)
      BY <1>0, <2>1 DEF Recordable
    <2>3. defined \subseteq defined' /\ next' = next + 1 /\ unit' = unit /\ calls' = calls
          /\ status' = status /\ status = "running"
      BY <1>2 DEF VisitRecordDecl, VisitPlaced, VisitFunctionDecl, At
    <2> QED BY <1>0, <2>2, <2>3, NothingRecorded
  <1>3. CASE VisitExpression
    <2>0. status = "running" /\ next \in 1..Len(unit) /\ IsExpression(unit, next)
          /\ unit[next].kind \notin NotEntered
      BY <1>0, <1>3 DEF VisitExpression, At, IsExpression, Expressions, NotEntered,
                        Types, TypeOK
    <2>1. CASE Ignorable /\ Ignore
      <3>1. ~Recordable(next)
        BY <2>1 DEF Ignorable, Recordable, Ref
      <3>2. \A i \in next..((next + 1) - 1) : ~Recordable(i)
        BY <1>0, <3>1
      <3> QED BY <1>0, <2>0, <2>1, <3>2, NothingRecorded DEF Ignore
    <2>2. CASE /\ OfInterest(Ref) /\ pfdParent # None
               /\ unit[next].kind = "delete" => Ref # None
               /\ AddFunctionCall
      <3> DEFINE new == [expr |-> next, caller |-> pfdParent, callee |-> Ref]
      <3>1. Recordable(next)
        BY <2>0, <2>2, NextNotSkipped DEF Recordable, Ref
      <3>2. /\ calls' = calls \cup {new} /\ defined' = defined \cup {unit[pfdParent].ref}
            /\ next' = next + 1 /\ unit' = unit /\ status' = status
        BY <2>2 DEF AddFunctionCall
      <3>3. \A c \in calls : c.expr # next
        BY <1>0 DEF CallsOK
      <3>4. \A i : Recordable(i)' = Recordable(i)
        BY <3>2 DEF Recordable, OfInterest
      <3>5. ASSUME NEW i \in 1..next, Recordable(i)
            PROVE  \E c \in calls' : c.expr = i
        <4>1. CASE i = next
          <5>1. new \in calls' /\ new.expr = i
            BY <3>2, <4>1
          <5> QED BY <5>1
        <4>2. CASE i # next
          <5>1. i \in 1..(next - 1)
            BY <1>0, <4>2
          <5>2. PICK c \in calls : c.expr = i
            BY <3>5, <5>1 DEF RecordedOK
          <5> QED BY <3>2, <5>2
        <4> QED BY <4>1, <4>2
      <3>6. \A c \in calls' : Recordable(c.expr) /\ unit[c.caller].ref \in defined'
        BY <3>1, <3>2 DEF RecordedOK
      <3>7. \A c, d \in calls' : c.expr = d.expr => c = d
        BY <3>2, <3>3 DEF RecordedOK
      <3>8. 1..(next' - 1) = 1..next
        BY <1>0, <3>2
      <3> QED BY <2>0, <3>2, <3>4, <3>5, <3>6, <3>7, <3>8 DEF RecordedOK
    <2>3. CASE \E how \in {"crashed", "aborted"} : Die(how)
      <3>1. UNCHANGED <<unit, next, pfdParent, calls, defined>> /\ status' # "done"
        BY <2>3 DEF Die
      <3>2. \A i : Recordable(i)' = Recordable(i)
        BY <3>1 DEF Recordable, OfInterest
      <3> QED BY <3>1, <3>2 DEF RecordedOK
    <2> QED BY <1>3, <2>1, <2>2, <2>3 DEF VisitExpression
  <1>4. CASE End \/ VisitUnplaced \/ UNCHANGED vars
    <2>1. UNCHANGED <<unit, next, pfdParent, calls, defined>>
          /\ (status' = "done" => next = Len(unit) + 1)
      BY <1>4 DEF End, VisitUnplaced, Die, vars, RecordedOK
    <2>2. \A i : Recordable(i)' = Recordable(i)
      BY <2>1 DEF Recordable, OfInterest
    <2> QED BY <2>1, <2>2 DEF RecordedOK
  <1> QED BY <1>1, <1>2, <1>3, <1>4, StepCases

LEMMA CompleteFollows == Types /\ CallsOK /\ RecordedOK => CallsComplete
  <1> SUFFICES ASSUME Types, CallsOK, RecordedOK, status = "done"
               PROVE  /\ {c.expr : c \in calls} = {i \in 1..Len(unit) : Recordable(i)}
                      /\ \A c, d \in calls : c.expr = d.expr => c = d
                      /\ \A c \in calls : unit[c.caller].ref \in defined
    BY DEF CallsComplete
  <1>1. Len(unit) \in Nat /\ next = Len(unit) + 1
    BY UnitNodes DEF Types, RecordedOK
  <1>2. ASSUME NEW i \in 1..Len(unit), Recordable(i)
        PROVE  \E c \in calls : c.expr = i
    BY <1>1, <1>2 DEF RecordedOK
  <1>3. ASSUME NEW c \in calls
        PROVE  c.expr \in 1..Len(unit) /\ Recordable(c.expr)
    BY <1>1, <1>3 DEF CallsOK, RecordedOK
  <1> QED BY <1>2, <1>3 DEF RecordedOK

\* In every unit, an analysis that ends well has recorded the calls of the unit,
\* each once.
THEOREM Complete == Spec => []CallsComplete
  <1>1. Init => Types /\ Walked /\ CallsOK /\ RecordedOK
    BY TypesInit, WalkedInit, RecordedInit
  <1>2. Types /\ Walked /\ CallsOK /\ RecordedOK /\ [Next]_vars
          => (Types /\ Walked /\ CallsOK /\ RecordedOK)'
    BY TypesStep, WalkedStep, RecordedStep
  <1>3. Types /\ Walked /\ CallsOK /\ RecordedOK => CallsComplete
    BY CompleteFollows
  <1> QED BY <1>1, <1>2, <1>3, PTL DEF Spec
=============================================================================

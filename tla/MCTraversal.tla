----------------------------- MODULE MCTraversal -----------------------------
(***************************************************************************)
(* All units of up to three nodes; those of four nodes without operators   *)
(* new and delete, constructors and namespaces that are not of interest;   *)
(* and a header with a class followed by a source file that uses it.       *)
(***************************************************************************)
EXTENDS Traversal

\* C++: functions are defined at the outermost level or in a record, bodies
\* hold prototypes, also of builtins, records and expressions, and expressions
\* hold expressions.  Of what is not entered, a function and a call are enough.
MayHold(kind) ==
  CASE kind \in {"definition", "foreign"} ->
         Expressions \cup {"prototype", "record", "skipped"}
    [] kind = "record"      -> Kinds \ {"unplaced"}
    [] kind = "skipped"     -> {"definition", "call"}
    [] kind \in Expressions -> {"call"}
    [] kind \in {"prototype", "unplaced"} -> {}

\* The last node of a unit is at a place where it may be.
Placed(p) ==
  LET n == Len(p)
      x == p[n]
  IN \/ x.depth = 0
     \/ \E s \in 1..(n - 1) : /\ p[s].depth + 1 = x.depth
                              /\ Below(p, s, n)
                              /\ x.kind \in MayHold(p[s].kind)
                              /\ p[s].kind = "skipped" =>
                                   ~\E f \in 1..s : IsFunction(p, f) /\ Below(p, f, s)

\* A unit while it is built: nodes without ref.
Longer(S, kinds) ==
  {q \in {Append(p, [kind |-> k, depth |-> d]) : p \in S, k \in kinds, d \in 0..3} : Placed(q)}

\* A function is declared here, or at an earlier prototype; an expression calls
\* what is declared before, or together with it in a record.
MayRefer(p, i, r) ==
  \/ r = None /\ p[i].kind \notin Functions \cup {"construct", "thread"}
  \/ /\ r \in 1..i
     /\ p[i].kind \in Functions
     /\ \/ r = i
        \/ p[r].kind = "prototype" /\ p[r].depth = p[i].depth
        \/ p[r].kind = "unplaced" /\ p[i].depth = 0 /\ p[i].kind # "foreign"
  \/ /\ r \in 1..Len(p)
     /\ p[i].kind \in Expressions
     /\ \/ p[r].kind \in Functions \cup {"skipped"}
        \/ p[r].kind = "unplaced" /\ p[i].kind = "call"
     /\ p[i].kind = "thread" => p[r].kind = "prototype"
     /\ p[i].kind = "construct" => p[r].kind # "skipped" /\ ~Skipped(p, r)
     /\ \/ r < i
        \/ \E s \in 1..i : p[s].kind = "record" /\ Below(p, s, i) /\ Below(p, s, r)

Filled(S, n) ==
  {[i \in 1..n |-> [kind |-> x[1][i].kind, depth |-> x[1][i].depth, ref |-> x[2][i]]] :
     x \in {y \in S \X [1..n -> 0..n] :
              \A i \in 1..n :
                /\ MayRefer(y[1], i, y[2][i])
                /\ y[1][i].kind \in Functions /\ y[1][y[2][i]].kind # "unplaced" =>
                     y[2][y[2][i]] = y[2][i]}}

Shapes1 == Longer({<<>>}, Kinds)
Shapes2 == Longer(Shapes1, Kinds)
Shapes3 == Longer(Shapes2, Kinds)

FewKinds == {"prototype", "definition", "record", "skipped", "call"}
Few4 == Longer(Longer(Longer(Longer({<<>>}, FewKinds), FewKinds), FewKinds), FewKinds)

N(kind, depth, ref) == [kind |-> kind, depth |-> depth, ref |-> ref]

Realistic ==
  << N("foreign", 0, 1),                          \* a function of std, which
       N("call", 1, 0),                           \*   calls a builtin
     N("record", 0, 0),                           \* a class with
       N("prototype", 1, 4), N("prototype", 1, 5),\*   constructor, operator delete,
       N("definition", 1, 6), N("call", 2, 9),    \*   an inline method that calls
       N("skipped", 1, 0),                        \*   a friend or a template, and
       N("prototype", 1, 9),                      \*   another method
     N("skipped", 0, 0),                          \* a class template
       N("definition", 1, 11), N("call", 2, 6),
     N("prototype", 0, 13),                       \* a function,
     N("construct", 0, 4), N("call", 1, 13),      \* a variable, and its initializer
     N("definition", 0, 13),                      \* the function is defined:
       N("construct", 1, 4), N("call", 1, 1),
       N("skipped", 1, 0), N("new", 1, 0),        \*   a builtin is declared
       N("call", 1, 9),
       N("prototype", 1, 22), N("call", 1, 22),   \*   a prototype in the body
       N("delete", 1, 5),
     N("definition", 0, 9), N("delete", 1, 0), N("new", 1, 8),
     N("unplaced", 0, 0), N("prototype", 0, 28),  \* operator new is declared,
     N("definition", 0, 30), N("call", 1, 29) >>  \*   and called by its name

MCPrograms ==
  Filled(Shapes1, 1) \cup Filled(Shapes2, 2) \cup Filled(Shapes3, 3)
    \cup Filled(Few4, 4) \cup {<<>>, Realistic}
=============================================================================

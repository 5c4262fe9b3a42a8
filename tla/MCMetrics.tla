------------------------------ MODULE MCMetrics -----------------------------
(***************************************************************************)
(* A small C++ program for TLC.  h.h defines a class Base in a namespace,  *)
(* with a method whose body calls one of the class Inner, which comes      *)
(* later: Inner is first registered by its name only.  a.cpp defines a     *)
(* method of Base, declared in h.h, and a function of its own, which has   *)
(* other lines in a second configuration; there h.h also defines a         *)
(* function that g.h declares, so that from then on whoever opens h.h      *)
(* opens g.h.  b.cpp defines the same function.                            *)
(***************************************************************************)
EXTENDS Metrics

CONSTANTS a, b, h, g,                         \* files
          nspc, Base, Inner, go, poke, helper, util,  \* names
          ua, ua2, ub                         \* units

E(k, n, f, l) == [kind |-> k, name |-> n, file |-> f, lines |-> l, decl |-> f]
Defined(n, f, l, d) == [E("defined", n, f, l) EXCEPT !.decl = d]

Header ==
  <<E("namespace", nspc, h, 0), E("record", Base, h, 3),
    E("declared", go, h, 1), E("record", Inner, h, NoLines),
    E("declared", poke, h, 1), E("record", Inner, h, 2)>>

MCTraversal ==
  [u \in Units |->
     CASE u = ua  -> Header \o <<Defined(go, a, 2, h), E("defined", helper, a, 1)>>
       [] u = ua2 -> <<E("defined", helper, a, 2), Defined(util, h, 1, g)>>
       [] u = ub  -> <<E("declared", util, g, 1)>> \o Header \o <<Defined(util, b, 2, g)>>]

MCMain  == [u \in Units |-> IF u = ub THEN b ELSE a]
MCOrder == [f \in Files |-> CASE f = a -> 1 [] f = b -> 2 [] f = g -> 3 [] f = h -> 4]
=============================================================================

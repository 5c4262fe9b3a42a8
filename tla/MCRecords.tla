------------------------------ MODULE MCRecords -----------------------------
(***************************************************************************)
(* A small C++ program for TLC.  a.h defines                               *)
(*   class Base : Error { virtual void run();                              *)
(*                        void go() { Inner i; i.poke(); }                 *)
(*                        class Inner { void poke(); }; };                 *)
(* m.h defines Mid, a child of Base, and Leaf, a child of Mid and of Error *)
(* of the standard library, which redeclares run and what.  The library is *)
(* filtered: Error is never visited; its header, data.h, has a name that   *)
(* ends with a.h.  a.cpp defines the methods of Leaf, and is analysed in   *)
(* two configurations: in the second one Mid has no base class.  b.cpp has *)
(* a child of Base of its own.                                             *)
(***************************************************************************)
EXTENDS Records

CONSTANTS acpp, bcpp, ah, mh, std,               \* files
          Base0, Inner, Mid, Leaf, Error, Own,   \* records
          run, go, poke, what, main, malloc,     \* methods and functions
          ua, ua2, ub                            \* units

F(r, m, f) == [rec |-> r, name |-> m, file |-> f]
Parent(r, f, V) == [name |-> r, file |-> f, virtual |-> V]
Record(r, f, B, M) == [kind |-> "record", name |-> r, file |-> f, bases |-> B, methods |-> M]
Function(c) == [kind |-> "function", fct |-> c]
CallAt(c, g, t) == [kind |-> "call", caller |-> c, place |-> g, callee |-> t]
Call(c, t) == CallAt(c, c.file, t)

\* The construction of a record gives the caller the place of the constructor.
Construct(c, t) == CallAt(c, t.file, t)

HeaderA ==
  <<Record(Base0, ah, {Parent(Error, std, {run, what})}, {run, go}),
    Function(F(Base0, run, ah)),
    Function(F(Base0, go, ah)), Call(F(Base0, go, ah), F(Inner, poke, ah)),
    Record(Inner, ah, {}, {poke}), Function(F(Inner, poke, ah))>>

HeaderM(B) ==
  <<Record(Mid, mh, B, {run}), Function(F(Mid, run, mh)),
    Record(Leaf, mh, {Parent(Mid, mh, {run}), Parent(Error, std, {run, what})}, {run, what}),
    Function(F(Leaf, run, mh)), Function(F(Leaf, what, mh))>>

BodyA ==
  <<Call(F(Leaf, run, mh), F(Base0, go, ah)),
    Construct(F(Leaf, what, mh), F(Inner, poke, ah)),
    Function(F(NoRecord, main, acpp)), Call(F(NoRecord, main, acpp), F(Leaf, run, mh))>>

BodyB ==
  <<Record(Own, bcpp, {Parent(Base0, ah, {run})}, {run}),
    Function(F(Own, run, bcpp)), Call(F(Own, run, bcpp), F(Builtin, malloc, std)),
    Call(F(Own, run, bcpp), F(NoRecord, main, bcpp))>>

MCTraversal ==
  [u \in Units |->
     CASE u = ua  -> HeaderA \o HeaderM({Parent(Base0, ah, {run})}) \o BodyA
       [] u = ua2 -> HeaderA \o HeaderM({}) \o BodyA
       [] u = ub  -> HeaderA \o BodyB]

MCMain  == [u \in Units |-> IF u = ub THEN bcpp ELSE acpp]
MCOrder == [f \in Files |-> CASE f = acpp -> 1 [] f = ah -> 2 [] f = bcpp -> 3
                              [] f = mh -> 4 [] f = std -> 5]
\* data.h ends with a.h.
MCEndings == [f \in Files |-> IF f = ah THEN {std} ELSE {}]
MCRank  == [r \in Names |-> CASE r = Base0 -> 1 [] r = Error -> 2 [] r = Inner -> 3
                              [] r = Leaf -> 4 [] r = Mid -> 5 [] r = Own -> 6
                              [] r = Builtin -> 7]
=============================================================================

---------------------------- MODULE MCNamespaces ----------------------------
(***************************************************************************)
(* Programs for TLC: all declarations in up to three scopes, one at a      *)
(* time, and a program of two units that include the same header.          *)
(***************************************************************************)
EXTENDS Namespaces

CONSTANTS acpp, bcpp, ah, std,                          \* files
          ns, ms, lib, A, B, T, open, key, close, fn, conv  \* parts of names

\* T<::ns::key> is cut at its two "::".
TText == <<open, ns, close>>

Space(x) == [kind |-> "namespace", name |-> <<x>>, text |-> <<x>>]
Class(x) == [kind |-> "record", name |-> <<x>>, text |-> <<x>>]
Hash     == [kind |-> "record", name |-> <<T>>, text |-> TText]

\* T<ns::key>
Pair     == [kind |-> "record", name |-> <<T>>, text |-> <<open, close>>]

\* T<::::key>, of a key in a namespace without name.
Secret   == [kind |-> "record", name |-> <<T>>, text |-> <<open, Empty, close>>]

\* Chains of scopes: namespaces around, records inside.
Chains(spaces, records, max) ==
  {s \o t : s \in UNION {[1..i -> spaces] : i \in 0..max},
            t \in UNION {[1..i -> records] : i \in 0..max}}

Spaces  == {Space(ns), Space(lib), Space(Empty)}
Around3 == {s \in Chains(Spaces, {Class(A), Class(lib), Class(Empty), Hash, Pair, Secret}, 3) : Len(s) <= 3}
Classes == {s \in Around3 : IsMethod([scopes |-> s])}

RecordIn(S, g) == [scopes |-> S, file |-> g]
FctIn(S, x, g) == [scopes |-> S, name |-> x, file |-> g, builtin |-> FALSE]
Malloc == [scopes |-> <<>>, name |-> <<fn>>, file |-> std, builtin |-> TRUE]

VisitRecord(S, g, bases) == [kind |-> "record", rec |-> RecordIn(S, g), bases |-> bases]
VisitFct(c) == [kind |-> "function", fct |-> c]
Call(c, d)  == [kind |-> "call", caller |-> c, place |-> c.file, callee |-> d]

Alone(e) == {[main |-> acpp, visits |-> <<e>>]}

\* A declaration of each shape; an operator const ns::key&() has a name
\* of two parts.
Shapes ==
  {Alone(VisitRecord(S, ah, <<>>)) : S \in Classes}
  \cup {Alone(VisitRecord(<<Class(B)>>, ah, <<RecordIn(S, ah)>>)) : S \in Classes}
  \cup {Alone(VisitFct(FctIn(S, <<fn>>, ah))) : S \in Around3}
  \cup {Alone(VisitFct(FctIn(S, x, ah))) : S \in Classes, x \in {<<conv, key>>, <<conv, A, key>>}}

\* Functions of each kind of namespace that call one another.
Callers ==
  {FctIn(S, <<fn>>, acpp) : S \in {<<>>, <<Space(ns)>>, <<Space(ms), Class(A)>>, <<Class(A)>>,
                                  <<Class(A), Class(B)>>, <<Space(Empty), Class(B)>>,
                                  <<Space(Empty), Space(ns)>>, <<Space(ns), Space(Empty), Class(A)>>,
                                  <<Class(A), Class(Empty)>>, <<Class(Empty), Class(A)>>}}
  \cup {FctIn(<<Class(A)>>, x, acpp) : x \in {<<conv, key>>, <<conv, A, key>>}}
Callees == Callers \cup {Malloc, FctIn(<<Space(lib)>>, <<fn>>, std)}
Calls == {Alone(Call(c, d)) : c \in Callers, d \in Callees}

\* Two units and their header: ns::A, its child ms::A, a class in a class, and
\* calls between them; b.cpp has a class of its own, which it derives from ns::A.
NA == <<Space(ns), Class(A)>>
MA == <<Space(ms), Class(A)>>
AB == <<Class(A), Class(B)>>
Header ==
  <<VisitRecord(NA, ah, <<>>), VisitFct(FctIn(NA, <<fn>>, ah)),
    VisitRecord(MA, ah, <<RecordIn(NA, ah), RecordIn(<<Space(lib), Class(B)>>, std)>>),
    VisitFct(FctIn(MA, <<fn>>, ah)), Call(FctIn(MA, <<fn>>, ah), FctIn(NA, <<fn>>, ah))>>

UnitA ==
  [main |-> acpp,
   visits |-> Header \o
     <<VisitRecord(AB, acpp, <<>>), VisitFct(FctIn(AB, <<fn>>, acpp)),
       Call(FctIn(AB, <<fn>>, acpp), FctIn(MA, <<fn>>, ah)),
       [kind |-> "call", caller |-> FctIn(AB, <<fn>>, acpp), place |-> ah,
        callee |-> FctIn(NA, <<key>>, ah)],
       VisitFct(FctIn(<<>>, <<fn>>, acpp)), Call(FctIn(<<>>, <<fn>>, acpp), FctIn(AB, <<fn>>, acpp))>>]
UnitB ==
  [main |-> bcpp,
   visits |-> Header \o
     <<VisitRecord(<<Space(ns), Class(B)>>, bcpp, <<RecordIn(NA, ah)>>),
       VisitFct(FctIn(<<Space(ns), Class(B)>>, <<fn>>, bcpp)),
       Call(FctIn(<<Space(ns), Class(B)>>, <<fn>>, bcpp), Malloc)>>]

MCPrograms == Shapes \cup Calls \cup {{UnitA, UnitB}}

MCOrder == [g \in Files |-> CASE g = acpp -> 1 [] g = ah -> 2 [] g = bcpp -> 3 [] g = std -> 4]
MCFiltered == {<<lib>>}
=============================================================================

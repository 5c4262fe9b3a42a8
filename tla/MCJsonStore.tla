---------------------------- MODULE MCJsonStore ----------------------------
(***************************************************************************)
(* Small stores for TLC.  Two units a.c and b.c include the same header    *)
(* h.h; p3 analyses a.c again, which no longer includes it.  h.h and r.h   *)
(* refer to one another through the facts they hold, as a method and the   *)
(* record it is redeclared from do.                                        *)
(***************************************************************************)
EXTENDS JsonStore

CONSTANTS p1, p2, p3,              \* processes
          a, b, h, r,              \* files
          call, meth, base, literal \* facts

NoWork == [f \in Files |-> {}]
Only(f, S) == [NoWork EXCEPT ![f] = S]

MCMain == [p \in Procs |-> IF p = p2 THEN b ELSE a]

\* Registering meth in h.h registers base in r.h, which refers back to h.h.
MCDerives ==
  [x \in Facts |->
     CASE x = meth -> Only(r, {base})
       [] x = base -> Only(h, {meth})
       [] OTHER    -> NoWork]

MCWork ==
  [p \in Procs |->
     CASE p = p1 -> [NoWork EXCEPT ![a] = {call}, ![h] = {meth}, ![r] = {base}]
       [] p = p2 -> [NoWork EXCEPT ![b] = {call, literal}, ![h] = {call}, ![r] = {call}]
       [] p = p3 -> Only(a, {call})]

MCPhys == [f \in Files |-> f]
MCOrder == [f \in Files |-> CASE f = a -> 1 [] f = b -> 2 [] f = h -> 3 [] f = r -> 4]

\* Three processes that include a header h.h, for the runs in parallel.
MCSharedWork ==
  [p \in Procs |->
     CASE p = p1 -> [NoWork EXCEPT ![a] = {call}, ![h] = {call}]
       [] p = p2 -> [NoWork EXCEPT ![b] = {call}, ![h] = {meth}]
       [] p = p3 -> [NoWork EXCEPT ![a] = {call}, ![h] = {meth}, ![r] = {base}]]
MCNoDerives == [x \in Facts |-> NoWork]

\* r is a header with the same base name as h, in another directory: one json
\* file of the includes directory for both.
MCAliasPhys == [f \in Files |-> IF f = r THEN h ELSE f]
=============================================================================

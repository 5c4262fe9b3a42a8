---------------------------- MODULE MCCallGraph ----------------------------
(***************************************************************************)
(* A small C program for TLC.  h.h declares log, and defines the inline    *)
(* functions check, which calls log, and relay, which calls run of a.c.    *)
(* Both a.c and b.c have a static function help that calls log; b.c        *)
(* defines log.  a.c is analysed in two configurations: the second one     *)
(* meets a call through a prototype that it includes too late.             *)
(***************************************************************************)
EXTENDS CallGraph

CONSTANTS a, b, h, std,                        \* files
          log, check, relay, run, help, printf, \* functions
          ua, ub, ua2                          \* units

F(s, f, d) == [sign |-> s, file |-> f, decl |-> d, mangled |-> s]

\* log is defined in b.c and declared in h.h.
Log == F(log, b, h)
LogDecl == F(log, h, h)
Check == F(check, h, h)
Relay == F(relay, h, h)
Run == F(run, a, a)
HelpA == F(help, a, a)
HelpB == F(help, b, b)
Printf == F(printf, std, std)

Declaration(f) == [kind |-> "declaration", fct |-> f, callee |-> f]
Definition(f)  == [kind |-> "definition", fct |-> f, callee |-> f]
Call(c, t)     == [kind |-> "call", fct |-> c, callee |-> t]

\* A call to a builtin function gives the caller the mangled name of the callee.
BuiltinCall(c, t) == Call([c EXCEPT !.mangled = t.mangled], t)

Header == <<Declaration(LogDecl), Definition(Check), Call(Check, LogDecl)>>

MCTraversal ==
  [u \in Units |->
     CASE u = ua ->
            <<Declaration(Run)>> \o Header
              \o <<Definition(Relay), Call(Relay, Run),
                   Definition(HelpA), Call(HelpA, LogDecl), Call(HelpA, Check),
                   Definition(Run), Call(Run, Run), Call(Run, HelpA)>>
       [] u = ub ->
            Header
              \o <<Definition(HelpB), Call(HelpB, LogDecl), Call(HelpB, HelpB),
                   Definition(Log), BuiltinCall(Log, Printf), Call(Log, HelpB)>>
       [] u = ua2 ->
            <<Definition(HelpA), Call(HelpA, LogDecl)>> \o Header
              \o <<Definition(Run), Call(Run, HelpA), BuiltinCall(Run, Printf)>>]

MCMain == [u \in Units |-> IF u = ub THEN b ELSE a]
MCOrder == [f \in Files |-> CASE f = a -> 1 [] f = b -> 2 [] f = h -> 3 [] f = std -> 4]
=============================================================================

------------------------------ MODULE Traversal ------------------------------
(***************************************************************************)
(* The visitor of one translation unit.  clang walks the syntax tree and   *)
(* calls a method of the visitor for every node; the visitor keeps the     *)
(* last function it came to in pfdParent and takes it for the caller of    *)
(* every call it meets.  Nothing restores pfdParent at the end of a        *)
(* function, and some declarations are not entered at all.                 *)
(* A unit is the sequence of its nodes in the order of the walk, each with *)
(* its depth in the tree.  Of the call graph only two things are kept: who *)
(* is listed as calling what, and which functions are listed as defined.   *)
(***************************************************************************)
EXTENDS Naturals, Sequences

CONSTANT Programs   \* the units that may be analysed

None == 0           \* no node: a null pointer, or a function without a declaration

\* What the visitor tells apart.  "skipped" is a declaration that is not entered:
\* a template, a member of a template, a builtin or a friend.  "foreign" is a
\* function of a namespace that is not of interest, such as std; "thread" is a
\* call of pthread_create.  "unplaced" is a function that clang declares by itself,
\* at no place of the source: the operators new and delete of a unit, before the
\* unit declares them, if it does.  Implicit declarations are not entered either.
Functions   == {"prototype", "definition", "foreign"}
Expressions == {"call", "thread", "construct", "new", "delete"}
NotEntered  == {"skipped", "unplaced"}
Kinds       == Functions \cup Expressions \cup NotEntered \cup {"record"}

\* ref is the first declaration of a function, or the function that an
\* expression calls.  None is a builtin function, the malloc of a new expression
\* whose operator is implicit, or nothing for such a delete expression.  Calls
\* through a pointer, for which VisitCallExpr does nothing, are not nodes.
Node == [kind : Kinds, depth : Nat, ref : Nat]

IsFunction(p, i)   == p[i].kind \in Functions
IsExpression(p, i) == p[i].kind \in Expressions

\* j is below i in the tree.
Below(p, i, j) == i < j /\ \A k \in (i + 1)..j : p[k].depth > p[i].depth

\* i is not visited, because of itself or of a declaration above it.
Skipped(p, i) ==
  \E s \in 1..i : p[s].kind \in NotEntered /\ (s = i \/ Below(p, s, i))

\* A function is declared before it is used, except by a member of a record that
\* uses another member.  What is not entered declares no constructor for what is.
ASSUME TraversalAssumption ==
  \A p \in Programs :
    /\ p \in Seq(Node)
    /\ \A i \in 1..Len(p) :
         /\ IsFunction(p, i) => p[i].ref \in 1..i
         /\ IsExpression(p, i) =>
              \/ p[i].ref \in 0..(i - 1)
              \/ \E r \in 1..i : /\ p[r].kind = "record" /\ Below(p, r, i)
                                 /\ p[i].ref \in 1..Len(p) /\ Below(p, r, p[i].ref)
         /\ p[i].kind \in {"construct", "thread"} => p[i].ref # None
         /\ p[i].kind = "construct" /\ ~Skipped(p, i) =>
              IsFunction(p, p[i].ref) /\ ~Skipped(p, p[i].ref)
         /\ p[i].ref # None /\ p[p[i].ref].kind = "unplaced" =>
              p[i].kind \in {"prototype", "definition", "call"}

VARIABLES
  unit,       \* the unit that is analysed
  next,       \* the node clang comes to next
  pfdParent,  \* the last function visited
  calls,      \* the calls added to the json files
  defined,    \* the functions they list as defined
  status      \* "running", or how the walk ended

vars == <<unit, next, pfdParent, calls, defined, status>>

Call == [expr : Nat, caller : Nat, callee : Nat]

TypeOK ==
  /\ unit \in Seq(Node)
  /\ next \in 1..(Len(unit) + 1)
  /\ pfdParent \in 0..(next - 1)
  /\ calls \subseteq Call
  /\ defined \subseteq 1..Len(unit)
  /\ status \in {"running", "done", "crashed", "aborted"}

Init ==
  /\ unit \in Programs
  /\ next = 1
  /\ pfdParent = None
  /\ calls = {} /\ defined = {}
  /\ status = "running"

At(kinds) == status = "running" /\ next <= Len(unit) /\ unit[next].kind \in kinds
Ref == unit[next].ref

\* isDeclarationOfInterest
OfInterest(f) == f # None => unit[f].kind # "foreign"

\* Nothing tells where f is, or, for a definition, where its first declaration is.
Unplaced(f) ==
  f # None /\ \/ unit[f].kind = "unplaced"
              \/ unit[f].kind = "definition" /\ unit[unit[f].ref].kind = "unplaced"

\* Mutant of TraverseNot: the node after the declaration is passed over too.
TraverseTooFar ==
  /\ At(NotEntered)
  /\ \E n \in (next + 1)..(Len(unit) + 1) :
       /\ \A k \in (next + 1)..(n - 1) : unit[k].depth > unit[next].depth
       /\ n <= Len(unit) => unit[n].depth <= unit[next].depth
       /\ next' = n + 1
  /\ UNCHANGED <<unit, pfdParent, calls, defined, status>>

\* Mutant of TraverseNot: what is below the declaration is walked all the same.
TraverseBelow ==
  /\ At(NotEntered)
  /\ next' = next + 1
  /\ UNCHANGED <<unit, pfdParent, calls, defined, status>>

\* TraverseFunctionDecl, TraverseCXXRecordDecl, TraverseVarDecl, ... return
\* before the node is visited: the walk goes on after everything below it.
TraverseNot ==
  /\ At(NotEntered)
  /\ \E n \in (next + 1)..(Len(unit) + 1) :
       /\ \A k \in (next + 1)..(n - 1) : unit[k].depth > unit[next].depth
       /\ n <= Len(unit) => unit[n].depth <= unit[next].depth
       /\ next' = n
  /\ UNCHANGED <<unit, pfdParent, calls, defined, status>>

\* The process dies without a word for the json files.
Die(how) ==
  /\ status' = how
  /\ UNCHANGED <<unit, next, pfdParent, calls, defined>>

\* Mutant of VisitFunctionDecl: only functions of interest become the caller.
VisitFunctionOfInterest ==
  /\ At(Functions)
  /\ pfdParent' = IF OfInterest(next) THEN next ELSE pfdParent
  /\ defined' = IF unit[next].kind = "definition" THEN defined \cup {Ref} ELSE defined
  /\ next' = next + 1
  /\ UNCHANGED <<unit, calls, status>>

\* The caller of whatever follows is this function, be it only declared here or
\* not of interest; a definition of interest is listed in its file, after the
\* lines of its first declaration were asked for.
VisitFunctionDecl ==
  /\ At(Functions)
  /\ \/ Unplaced(next) /\ Die("aborted")
     \/ /\ ~Unplaced(next)
        /\ pfdParent' = next
        /\ defined' = IF unit[next].kind = "definition" THEN defined \cup {Ref} ELSE defined
        /\ next' = next + 1
        /\ UNCHANGED <<unit, calls, status>>

\* Records do not change the caller.
VisitRecordDecl ==
  /\ At({"record"})
  /\ next' = next + 1
  /\ UNCHANGED <<unit, pfdParent, calls, defined, status>>

\* The expression is left with nothing done.
Ignore ==
  /\ next' = next + 1
  /\ UNCHANGED <<unit, pfdParent, calls, defined, status>>

\* add_function_call lists both ends of the call, and the caller as defined.
AddFunctionCall ==
  /\ calls' = calls \cup {[expr |-> next, caller |-> pfdParent, callee |-> Ref]}
  /\ defined' = defined \cup {unit[pfdParent].ref}
  /\ next' = next + 1
  /\ UNCHANGED <<unit, pfdParent, status>>

\* The call of a builtin is recorded like another, in the file of its header.
VisitBuiltinFunction == Ref = None /\ AddFunctionCall

\* The routine of a new thread is described by the record of pthread_create, which
\* is no method and has none: a null pointer is dereferenced before add_thread,
\* and the call, which was added, is lost with the process.
VisitThreadCreation == unit[next].kind = "thread" /\ Die("crashed")

\* The mangled name of the caller is asked for first, of a caller that must exist;
\* then what is called, unless it is a builtin, must have a place in the source.
VisitCallExpr ==
  /\ At({"call", "thread"})
  /\ \/ ~OfInterest(Ref) /\ Ignore
     \/ OfInterest(Ref) /\ pfdParent = None /\ Die("aborted")
     \/ pfdParent # None /\ VisitBuiltinFunction
     \/ pfdParent # None /\ Unplaced(Ref) /\ Die("aborted")
     \/ /\ pfdParent # None /\ Ref # None /\ OfInterest(Ref) /\ ~Unplaced(Ref)
        /\ \/ unit[next].kind = "call" /\ AddFunctionCall
           \/ VisitThreadCreation

\* The only visit that checks pfdParent itself.
VisitCXXConstructExpr ==
  /\ At({"construct"})
  /\ \/ ~OfInterest(Ref) /\ Ignore
     \/ OfInterest(Ref) /\ pfdParent # None /\ AddFunctionCall
     \/ OfInterest(Ref) /\ pfdParent = None /\ Die("aborted")

\* The operator new of the program, or malloc.  pfdParent is dereferenced first.
VisitCXXNewExpr ==
  /\ At({"new"})
  /\ \/ pfdParent = None /\ Die("crashed")
     \/ pfdParent # None /\ ~OfInterest(Ref) /\ Ignore
     \/ pfdParent # None /\ OfInterest(Ref) /\ AddFunctionCall

\* The operator delete of the program; pfdParent is dereferenced for the record
\* of the caller.  The record whose destructor would be called is looked for in
\* the type of the expression, which is void, and never found.
VisitCXXDeleteExpr ==
  /\ At({"delete"})
  /\ \/ (Ref = None \/ ~OfInterest(Ref)) /\ Ignore
     \/ Ref # None /\ OfInterest(Ref) /\ pfdParent # None /\ AddFunctionCall
     \/ Ref # None /\ OfInterest(Ref) /\ pfdParent = None /\ Die("crashed")

\* HandleTranslationUnit returns.
End ==
  /\ status = "running" /\ next = Len(unit) + 1
  /\ status' = "done"
  /\ UNCHANGED <<unit, next, pfdParent, calls, defined>>

Next ==
  \/ TraverseNot \/ VisitRecordDecl \/ VisitFunctionDecl
  \/ VisitCallExpr \/ VisitCXXConstructExpr \/ VisitCXXNewExpr \/ VisitCXXDeleteExpr
  \/ End

Spec == Init /\ [][Next]_vars

-----------------------------------------------------------------------------
(* Properties. *)

\* A call in the body of a function is a call by that function, as long as no
\* other function is declared in the body before the call: a prototype, or a
\* member of a local record.  What is not entered does no harm.
CallerIsEnclosing ==
  \A c \in calls : \A f \in 1..Len(unit) :
    /\ IsFunction(unit, f) /\ Below(unit, f, c.expr)
    /\ \A k \in (f + 1)..(c.expr - 1) : IsFunction(unit, k) => Skipped(unit, k)
    => c.caller = f

\* When the walk ends, the calls that are recorded are the calls of the unit:
\* all of them, but those to functions that are not of interest, those in
\* declarations that are not entered, and deletes that call nothing; each has
\* one caller, and the caller is listed as defined.
Recordable(i) ==
  /\ IsExpression(unit, i) /\ ~Skipped(unit, i)
  /\ OfInterest(unit[i].ref)
  /\ unit[i].kind = "delete" => unit[i].ref # None

CallsComplete ==
  status = "done" =>
    /\ {c.expr : c \in calls} = {i \in 1..Len(unit) : Recordable(i)}
    /\ \A c, d \in calls : c.expr = d.expr => c = d
    /\ \A c \in calls : unit[c.caller].ref \in defined

\* What a visit needs of the caller and of what is called is there in the body of a
\* function, but in three cases: a thread is created, or a function that clang
\* declared at no place of the source is called, or defined.  For any other visit to
\* stop the analysis, it has to be in an initializer, of a variable or of a member.
\* (What adding the call to a json file may still refuse is not a matter of the walk.)
BodiesAreSafe ==
  status \in {"crashed", "aborted"} =>
    \/ unit[next].kind = "thread"
    \/ unit[next].kind = "call" /\ Unplaced(Ref)
    \/ Unplaced(next)
    \/ \A f \in 1..Len(unit) : ~(IsFunction(unit, f) /\ Below(unit, f, next))

\* ASSERT(nd != NULL), which getMangledName checks of the caller of a call, and
\* ASSERT(pfdParent != NULL) of VisitCXXConstructExpr: expressions have callers.
ParentAsserted ==
  status = "aborted" /\ IsExpression(unit, next) => pfdParent # None

=============================================================================

--------------------------- MODULE JsonStoreProofs ---------------------------
(***************************************************************************)
(* Proofs about JsonStore, for every set of processes, files and facts.    *)
(***************************************************************************)
EXTENDS JsonStore, TLAPS

\* The facts still to derive are facts.
LEMMA NestedAfterType ==
  ASSUME TypeOK, NEW p \in Procs, NEW new \in SUBSET Facts, NEW m \in FactMap
  PROVE  NestedAfter(p, new, m) \in FactMap
<1>1. ASSUME NEW g \in Files
      PROVE  (nested[p][g] \cup UNION {Derives[y][g] : y \in new}) \ m[g]
               \in SUBSET Facts
  <2>1. nested[p][g] \in SUBSET Facts
    BY DEF TypeOK, FactMap
  <2>2. \A y \in new : Derives[y][g] \in SUBSET Facts
    BY StoreAssumption DEF FactMap
  <2> QED BY <2>1, <2>2
<1> QED BY <1>1 DEF NestedAfter, FactMap

\* The types of the store and of the processes are kept by every step.
LEMMA TypeStep == TypeOK /\ [Next]_vars => TypeOK'
<1> SUFFICES ASSUME TypeOK, [Next]_vars PROVE TypeOK'
  OBVIOUS
<1> USE StoreAssumption
<1>1. CASE UNCHANGED vars
  BY <1>1 DEF TypeOK, vars, disk
<1>2. ASSUME NEW p \in Procs, Start(p) PROVE TypeOK'
  BY <1>2 DEF TypeOK, Start, disk, Running, Analysing
<1>3. ASSUME NEW p \in Procs, NEW how \in Ended, Exit(p, how) PROVE TypeOK'
  BY <1>3 DEF TypeOK, Exit, disk
<1>4. ASSUME NEW p \in Procs, NEW f \in Files, OpenAbsent(p, f) PROVE TypeOK'
  BY <1>4 DEF TypeOK, OpenAbsent, disk
<1>5. ASSUME NEW p \in Procs, NEW f \in Files, OpenParsed(p, f) PROVE TypeOK'
  <2> DEFINE facts == json[Phys[f]] \cap Persistent
             m == [mem[p] EXCEPT ![f] = @ \cup facts]
  <2>1. facts \in SUBSET Facts /\ m \in FactMap
    BY DEF TypeOK, FactMap
  <2>2. NestedAfter(p, facts, m) \in FactMap
    BY <2>1, NestedAfterType
  <2>3. mem' \in [Procs -> FactMap] /\ nested' \in [Procs -> FactMap]
    BY <1>5, <2>1, <2>2 DEF TypeOK, OpenParsed
  <2>4. fds' \in [Procs -> 0..MaxFds]
    BY <1>5 DEF TypeOK, OpenParsed
  <2>5. opened' \in [Procs -> SUBSET Files]
    BY <1>5 DEF TypeOK, OpenParsed
  <2> QED BY <1>5, <2>3, <2>4, <2>5 DEF TypeOK, OpenParsed, disk
<1>6. ASSUME NEW p \in Procs, NEW f \in Files, NEW x \in Facts, Register(p, f, x)
      PROVE  TypeOK'
  <2> DEFINE m == [mem[p] EXCEPT ![f] = @ \cup {x}]
             new == {x} \ mem[p][f]
  <2>1. new \in SUBSET Facts /\ m \in FactMap
    BY DEF TypeOK, FactMap
  <2>2. NestedAfter(p, new, m) \in FactMap
    BY <2>1, NestedAfterType
  <2>3. mem' \in [Procs -> FactMap] /\ nested' \in [Procs -> FactMap]
    BY <1>6, <2>1, <2>2 DEF TypeOK, Register
  <2>4. todo' \in [Procs -> FactMap]
    BY <1>6 DEF TypeOK, Register, FactMap
  <2> QED BY <1>6, <2>3, <2>4 DEF TypeOK, Register, disk
<1>7. ASSUME NEW p \in Procs, BeginVisit(p) \/ EndVisit(p) PROVE TypeOK'
  BY <1>7 DEF TypeOK, BeginVisit, EndVisit, disk, Running, Analysing
<1>8. ASSUME NEW p \in Procs, NEW f \in Files, OpenForWrite(p, f) PROVE TypeOK'
  <2>1. contended' \in [Procs -> BOOLEAN]
    BY <1>8 DEF TypeOK, OpenForWrite, Writes
  <2> QED BY <1>8, <2>1 DEF TypeOK, OpenForWrite, Running
<1>9. ASSUME NEW p \in Procs, NEW f \in Files, Write(p, f) PROVE TypeOK'
  <2>1. status' \in [Disk -> {"absent", "broken", "readable"}]
    BY <1>9 DEF TypeOK, Write
  <2>2. mem[p][f] \in SUBSET Facts
    BY DEF TypeOK, FactMap
  <2>3. json' \in [Disk -> SUBSET Facts]
    BY <1>9, <2>2 DEF TypeOK, Write
  <2> QED BY <1>9, <2>1, <2>3 DEF TypeOK, Write, Running
<1>10. ASSUME NEW p \in Procs, NEW f \in Files, WriteFails(p, f) PROVE TypeOK'
  BY <1>10 DEF TypeOK, WriteFails, Ended, Failed
<1>11. ASSUME NEW p \in Procs, NEW f \in Files,
              Close(p, f) \/ MissLink(p, f) \/ CreateLink(p, f)
       PROVE  TypeOK'
  BY <1>11 DEF TypeOK, Close, MissLink, CreateLink, Closed, disk, Running, Ended
<1> QED
  BY <1>1, <1>2, <1>3, <1>4, <1>5, <1>6, <1>7, <1>8, <1>9, <1>10, <1>11
     DEF Next, Step, Fault, AllEnded, OpenMalformed, CompileError,
         OpenForWriteFails, CreateLinkFails, Kill, Ended, Failed

\* The store and the processes always have their types (TypeOK).
THEOREM TypeCorrect == Spec => []TypeOK
<1>1. Init => TypeOK
  <2>1. NoFacts \in FactMap
    BY DEF NoFacts, FactMap
  <2> QED BY <2>1, StoreAssumption DEF Init, TypeOK
<1> QED BY <1>1, TypeStep, PTL DEF Spec

-----------------------------------------------------------------------------
(* Incremental storage.  FactsKept speaks of files already written; it is   *)
(* kept because whoever rewrites a file has read back, before, what the     *)
(* earlier writers left there: that is ReadBack, and it needs that nobody   *)
(* writes between the reading and the rewriting (OneLive), that a process   *)
(* that ran out of descriptors, and so may have missed a file, cannot write *)
(* either (CanWrite), and that a process writes once everything it had to   *)
(* register is in its memory (Registered).                                  *)

OutputPhase == {"output", "writing", "closing", "linking"}

OneLive == \A p, q \in Procs : Live(p) /\ Live(q) => p = q

NotStarted ==
  \A p \in Procs : pc[p] = "idle" => opened[p] = {} /\ written[p] = {}

Registered ==
  \A p \in Procs : Live(p) =>
    /\ \A f \in Files : Work[p][f] \subseteq todo[p][f] \cup mem[p][f]
    /\ pc[p] \in OutputPhase => \A f \in Files : todo[p][f] = {}

CanWrite == \A p \in Procs : pc[p] = "writing" => fds[p] < MaxFds

ReadBack ==
  \A p \in Procs : Live(p) /\ fds[p] < MaxFds =>
    \A f \in opened[p] : \A q \in Procs :
      f \in written[q] => Work[q][f] \cap Persistent \subseteq mem[p][f]

KeepInv ==
  /\ TypeOK
  /\ OneLive
  /\ NotStarted
  /\ Registered
  /\ CanWrite
  /\ ReadBack
  /\ FactsKept

\* Steps of p that leave the disk, the memories and the written files alone,
\* and neither start p nor register anything.
Quiet(p) ==
  /\ UNCHANGED <<status, json, mem, opened, todo, fds, written>>
  /\ pc[p] \in Running
  /\ \E s \in Running \cup Ended : pc' = [pc EXCEPT ![p] = s]
  /\ pc'[p] \in OutputPhase =>
       pc[p] \in OutputPhase \/ \A f \in Files : todo[p][f] = {}
  /\ pc'[p] # "writing"

\* Quiet steps keep the inductive invariant.
LEMMA QuietKeeps ==
  ASSUME KeepInv, TypeOK', NEW p \in Procs, Quiet(p)
  PROVE  KeepInv'
<1>0. PICK s \in Running \cup Ended : pc' = [pc EXCEPT ![p] = s]
  BY DEF Quiet
<1>1. \A q \in Procs : /\ Live(q)' => Live(q)
                       /\ q # p => pc'[q] = pc[q]
  BY <1>0 DEF Live, Quiet, KeepInv, TypeOK
<1>2. pc'[p] # "idle"
  BY <1>0 DEF KeepInv, TypeOK, Running, Analysing, Ended, Failed
<1>3. OneLive'
  BY <1>1 DEF OneLive, KeepInv
<1>4. NotStarted'
  BY <1>1, <1>2 DEF NotStarted, KeepInv, Quiet
<1>5. Registered'
  BY <1>1 DEF Registered, KeepInv, Quiet
<1>6. CanWrite'
  BY <1>1 DEF CanWrite, KeepInv, Quiet
<1>7. ReadBack'
  BY <1>1 DEF ReadBack, KeepInv, Quiet
<1>8. FactsKept'
  BY DEF FactsKept, KeepInv, Quiet
<1> QED BY <1>3, <1>4, <1>5, <1>6, <1>7, <1>8 DEF KeepInv

\* When analyses run one after the other, every step keeps the invariant.
LEMMA KeepStep ==
  ASSUME Exclusive, KeepInv, [Next]_vars
  PROVE  KeepInv'
<1> USE StoreAssumption
<1>0. TypeOK'
  BY TypeStep DEF KeepInv
<1>1. CASE UNCHANGED vars
  BY <1>0, <1>1 DEF KeepInv, vars, disk, OneLive, Live, NotStarted, Registered,
                    CanWrite, ReadBack, FactsKept
<1>2. ASSUME NEW p \in Procs, Start(p) PROVE KeepInv'
  <2>1. \A q \in Procs : ~Live(q)
    BY <1>2 DEF Start, Exclusive
  <2>2. \A q \in Procs : Live(q)' => q = p
    BY <1>2, <2>1 DEF Start, Live, KeepInv, TypeOK
  <2>3. pc'[p] = "init" /\ opened'[p] = {} /\ todo'[p] = Work[p]
    BY <1>2 DEF Start, KeepInv, TypeOK, NotStarted
  <2>4. OneLive' /\ Registered' /\ ReadBack'
    BY <2>2, <2>3 DEF OneLive, Registered, ReadBack, OutputPhase
  <2>5. NotStarted' /\ CanWrite' /\ FactsKept'
    BY <1>2, <2>3 DEF Start, disk, KeepInv, TypeOK, NotStarted, CanWrite, FactsKept
  <2> QED BY <1>0, <2>4, <2>5 DEF KeepInv
<1>3. ASSUME NEW p \in Procs, NEW how \in Ended, Live(p), Exit(p, how)
      PROVE  KeepInv'
  <2>1. pc'[p] = how /\ how \notin OutputPhase
    BY <1>3 DEF Exit, KeepInv, TypeOK, Ended, Failed, OutputPhase
  <2>2. Quiet(p)
    BY <1>3, <2>1 DEF Quiet, Exit, disk, Live, OutputPhase
  <2> QED BY <1>0, <2>2, QuietKeeps
<1>4. ASSUME NEW p \in Procs, NEW f \in Files, OpenAbsent(p, f) PROVE KeepInv'
  <2>1. Live(p) /\ pc[p] \in Analysing
    BY <1>4 DEF OpenAbsent, NeedsFile, Live, Running, Analysing
  <2>2. OneLive' /\ NotStarted' /\ Registered' /\ CanWrite' /\ FactsKept'
    BY <1>4, <2>1 DEF OpenAbsent, disk, KeepInv, TypeOK, OneLive, Live, NotStarted,
                      Registered, CanWrite, FactsKept, Analysing
  <2>3. \A q \in Procs : fds[p] < MaxFds => f \notin written[q]
                           \/ Work[q][f] \cap Persistent = {}
    BY <1>4 DEF OpenAbsent, KeepInv, TypeOK, FactsKept
  <2>4. ReadBack'
    BY <1>4, <2>1, <2>3 DEF OpenAbsent, ReadBack, KeepInv, TypeOK, Live
  <2> QED BY <1>0, <2>2, <2>4 DEF KeepInv
<1>5. ASSUME NEW p \in Procs, NEW f \in Files, OpenParsed(p, f) PROVE KeepInv'
  <2>1. Live(p) /\ pc[p] \in Analysing
    BY <1>5 DEF OpenParsed, NeedsFile, Live, Running, Analysing
  <2>2. \A q \in Procs, g \in Files : mem[q][g] \subseteq mem'[q][g]
    BY <1>5 DEF OpenParsed, KeepInv, TypeOK, FactMap
  <2>3. json[Phys[f]] \cap Persistent \subseteq mem'[p][f]
    BY <1>5 DEF OpenParsed, KeepInv, TypeOK, FactMap
  <2>4. OneLive' /\ NotStarted' /\ CanWrite' /\ FactsKept'
    BY <1>5, <2>1 DEF OpenParsed, disk, KeepInv, TypeOK, OneLive, Live, NotStarted,
                      CanWrite, FactsKept, Analysing
  <2>5. Registered'
    BY <1>5, <2>2 DEF OpenParsed, Registered, KeepInv, Live
  <2>6. \A q \in Procs : f \in written[q] =>
          Work[q][f] \cap Persistent \subseteq json[Phys[f]]
    BY <1>5 DEF OpenParsed, KeepInv, FactsKept
  <2>7. fds'[p] < MaxFds => fds[p] < MaxFds
    BY <1>5 DEF OpenParsed
  <2>8. ReadBack'
    <3> SUFFICES ASSUME NEW q \in Procs, Live(q)', fds'[q] < MaxFds,
                        NEW g \in opened'[q], NEW w \in Procs, g \in written'[w]
                 PROVE  Work[w][g] \cap Persistent \subseteq mem'[q][g]
      BY DEF ReadBack
    <3>1. Live(q) /\ g \in written[w] /\ g \in Files
      BY <1>0, <1>5 DEF OpenParsed, Live, TypeOK
    <3>2. CASE q = p /\ g = f
      BY <2>3, <2>6, <3>1, <3>2
    <3>3. CASE ~(q = p /\ g = f)
      <4>1. g \in opened[q] /\ fds[q] < MaxFds
        BY <1>5, <2>7, <3>3 DEF OpenParsed, KeepInv, TypeOK
      <4> QED BY <2>2, <3>1, <4>1 DEF ReadBack, KeepInv
    <3> QED BY <3>2, <3>3
  <2> QED BY <1>0, <2>4, <2>5, <2>8 DEF KeepInv
<1>6. ASSUME NEW p \in Procs, NEW f \in Files, NEW x \in Facts, Register(p, f, x)
      PROVE  KeepInv'
  <2>1. Live(p) /\ pc[p] \in Analysing
    BY <1>6 DEF Register, Live, Running, Analysing
  <2>2. \A q \in Procs, g \in Files : mem[q][g] \subseteq mem'[q][g]
    BY <1>6 DEF Register, KeepInv, TypeOK, FactMap
  <2>3. \A q \in Procs, g \in Files :
          todo[q][g] \cup mem[q][g] \subseteq todo'[q][g] \cup mem'[q][g]
    BY <1>6 DEF Register, KeepInv, TypeOK, FactMap
  <2>4. OneLive' /\ NotStarted' /\ CanWrite' /\ FactsKept'
    BY <1>6 DEF Register, disk, KeepInv, OneLive, Live, NotStarted, CanWrite, FactsKept
  <2>5. Registered'
    <3>1. \A q \in Procs : Live(q)' => Live(q) /\ pc'[q] = pc[q]
      BY <1>6 DEF Register, Live
    <3>2. \A q \in Procs : Live(q) /\ pc[q] \in OutputPhase => q # p
      BY <2>1 DEF Analysing, OutputPhase
    <3>3. \A q \in Procs : q # p => todo'[q] = todo[q]
      BY <1>6 DEF Register, KeepInv, TypeOK
    <3>4. \A q \in Procs : Live(q)' =>
            \A g \in Files : Work[q][g] \subseteq todo'[q][g] \cup mem'[q][g]
      BY <2>3, <3>1 DEF Registered, KeepInv
    <3> QED BY <3>1, <3>2, <3>3, <3>4 DEF Registered, KeepInv
  <2>6. ReadBack'
    <3>1. \A q \in Procs : \A g \in opened[q] : g \in Files
      BY DEF KeepInv, TypeOK
    <3> QED BY <1>6, <2>2, <3>1 DEF Register, ReadBack, KeepInv, Live
  <2> QED BY <1>0, <2>4, <2>5, <2>6 DEF KeepInv
<1>7. ASSUME NEW p \in Procs, BeginVisit(p) PROVE KeepInv'
  <2>1. Quiet(p)
    BY <1>7 DEF BeginVisit, Quiet, disk, Running, Analysing, OutputPhase, KeepInv, TypeOK
  <2> QED BY <1>0, <2>1, QuietKeeps
<1>8. ASSUME NEW p \in Procs, EndVisit(p) PROVE KeepInv'
  <2>1. Quiet(p)
    BY <1>8 DEF EndVisit, Quiet, disk, Running, Analysing, KeepInv, TypeOK
  <2> QED BY <1>0, <2>1, QuietKeeps
<1>9. ASSUME NEW p \in Procs, NEW f \in Files, OpenForWrite(p, f) PROVE KeepInv'
  <2>1. Live(p) /\ pc[p] = "output" /\ pc' = [pc EXCEPT ![p] = "writing"]
    BY <1>9 DEF OpenForWrite, Live, Running
  <2>2. \A q \in Procs : Live(q)' = Live(q) /\ (q # p => pc'[q] = pc[q])
    BY <2>1 DEF Live, Running, KeepInv, TypeOK
  <2>3. OneLive' /\ ReadBack'
    BY <1>9, <2>2 DEF OpenForWrite, OneLive, ReadBack, KeepInv
  <2>4. Registered'
    BY <1>9, <2>1, <2>2 DEF OpenForWrite, Registered, KeepInv, OutputPhase
  <2>5. NotStarted' /\ CanWrite'
    BY <1>9, <2>1, <2>2 DEF OpenForWrite, NotStarted, CanWrite, KeepInv, TypeOK
  <2>6. FactsKept'
    BY <1>9 DEF OpenForWrite, FactsKept, KeepInv, TypeOK
  <2> QED BY <1>0, <2>3, <2>4, <2>5, <2>6 DEF KeepInv
<1>10. ASSUME NEW p \in Procs, NEW f \in Files, Write(p, f) PROVE KeepInv'
  <2>1. Live(p) /\ fds[p] < MaxFds /\ f \in opened[p]
        /\ pc' = [pc EXCEPT ![p] = "closing"]
    BY <1>10 DEF Write, IsNext, KeepInv, CanWrite, Live, Running
  <2>2. \A q \in Procs : Live(q)' = Live(q) /\ (q # p => pc'[q] = pc[q])
    BY <2>1 DEF Live, Running, KeepInv, TypeOK
  <2>3. Work[p][f] \subseteq mem[p][f]
    BY <1>10, <2>1 DEF Write, Registered, KeepInv, OutputPhase
  <2>4. \A q \in Procs : f \in written[q] => Work[q][f] \cap Persistent \subseteq mem[p][f]
    BY <2>1 DEF ReadBack, KeepInv
  <2>5. OneLive' /\ NotStarted' /\ CanWrite'
    BY <1>10, <2>1, <2>2 DEF Write, OneLive, NotStarted, CanWrite, KeepInv, TypeOK
  <2>6. Registered'
    BY <1>10, <2>1, <2>2 DEF Write, Registered, KeepInv, OutputPhase
  <2>7. ReadBack'
    <3> SUFFICES ASSUME NEW q \in Procs, Live(q)', fds'[q] < MaxFds,
                        NEW g \in opened'[q], NEW w \in Procs, g \in written'[w]
                 PROVE  Work[w][g] \cap Persistent \subseteq mem'[q][g]
      BY DEF ReadBack
    <3>1. q = p /\ mem' = mem
      BY <1>10, <2>1, <2>2 DEF OneLive, KeepInv, Write
    <3>2. CASE g \in written[w]
      BY <1>10, <2>2, <3>1, <3>2 DEF Write, ReadBack, KeepInv
    <3>3. CASE g \notin written[w]
      BY <1>10, <2>3, <3>1, <3>3 DEF Write, KeepInv, TypeOK
    <3> QED BY <3>2, <3>3
  <2>8. FactsKept'
    <3> SUFFICES ASSUME NEW q \in Procs, NEW g \in written'[q],
                        NEW x \in Work[q][g] \cap Persistent
                 PROVE  \/ status'[Phys[g]] = "broken"
                        \/ status'[Phys[g]] = "readable" /\ x \in json'[Phys[g]]
      BY DEF FactsKept
    <3>1. g \in Files
      BY <1>0 DEF TypeOK
    <3>2. CASE g = f
      <4>1. x \in mem[p][f]
        BY <1>10, <2>3, <2>4, <3>2 DEF Write, KeepInv, TypeOK
      <4>2. json'[Phys[f]] = mem[p][f] /\ status'[Phys[f]] \in {"readable", "broken"}
        BY <1>10 DEF Write, KeepInv, TypeOK
      <4> QED BY <3>2, <4>1, <4>2
    <3>3. CASE g # f
      <4>1. Phys[g] # Phys[f] /\ Phys[g] \in Disk
        BY <3>1, <3>3 DEF Exclusive
      <4>2. g \in written[q]
        BY <1>10, <3>3 DEF Write, KeepInv, TypeOK
      <4>3. status'[Phys[g]] = status[Phys[g]] /\ json'[Phys[g]] = json[Phys[g]]
        BY <1>10, <4>1 DEF Write, KeepInv, TypeOK
      <4> QED BY <4>2, <4>3 DEF FactsKept, KeepInv
    <3> QED BY <3>2, <3>3
  <2> QED BY <1>0, <2>5, <2>6, <2>7, <2>8 DEF KeepInv
<1>11. ASSUME NEW p \in Procs, NEW f \in Files, WriteFails(p, f) PROVE KeepInv'
  <2>1. Quiet(p)
    BY <1>11 DEF WriteFails, Quiet, Running, OutputPhase, Ended, Failed, KeepInv, TypeOK
  <2> QED BY <1>0, <2>1, QuietKeeps
<1>12. ASSUME NEW p \in Procs, NEW f \in Files,
              Close(p, f) \/ MissLink(p, f) \/ CreateLink(p, f)
       PROVE  KeepInv'
  <2>1. Quiet(p)
    BY <1>12 DEF Close, MissLink, CreateLink, Closed, disk, Quiet, Running,
                 OutputPhase, Ended, KeepInv, TypeOK
  <2> QED BY <1>0, <2>1, QuietKeeps
<1>13. ASSUME NEW p \in Procs,
              \/ OpenForWriteFails(p) \/ CompileError(p) \/ Kill(p)
              \/ \E f \in Files : OpenMalformed(p, f) \/ CreateLinkFails(p, f)
       PROVE  KeepInv'
  <2>1. Live(p) /\ \E how \in Ended : Exit(p, how)
    BY <1>13 DEF OpenForWriteFails, CompileError, Kill, OpenMalformed, NeedsFile,
                 CreateLinkFails, Live, Running, Analysing, Ended, Failed
  <2> QED BY <1>3, <2>1
<1> QED
  BY <1>1, <1>2, <1>4, <1>5, <1>6, <1>7, <1>8, <1>9, <1>10, <1>11, <1>12, <1>13
     DEF Next, Step, Fault, AllEnded

\* Incremental storage: when analyses run one after the other and no two files
\* share a json file, what a process has written in a file is kept by every
\* later rewrite of it, for any number of analyses and whatever fails
\* (FactsKept).
THEOREM Kept == Exclusive => (Spec => []FactsKept)
<1> SUFFICES ASSUME Exclusive PROVE Spec => []FactsKept
  OBVIOUS
<1>1. Init => KeepInv
  <2>1. Init => TypeOK
    BY StoreAssumption DEF Init, TypeOK, NoFacts, FactMap
  <2>2. Init => OneLive /\ NotStarted /\ Registered /\ CanWrite /\ ReadBack /\ FactsKept
    BY DEF Init, OneLive, Live, Running, Analysing, NotStarted, Registered, CanWrite,
           ReadBack, FactsKept
  <2> QED BY <2>1, <2>2 DEF KeepInv
<1>2. KeepInv /\ [Next]_vars => KeepInv'
  BY KeepStep
<1>3. KeepInv => FactsKept
  BY DEF KeepInv
<1> QED BY <1>1, <1>2, <1>3, PTL DEF Spec

-----------------------------------------------------------------------------
(* All or nothing.  A fact in memory comes from the traversal, from a json  *)
(* file, or from what such a fact derives, so the invariant follows todo    *)
(* and nested too; nobody has written anything while its traversal is not   *)
(* over (WritesLast).  No assumption on the driver or on the paths.         *)

WritesLast ==
  \A p \in Procs :
    /\ pc[p] \in {"idle"} \cup Analysing => written[p] = {}
    /\ pc[p] \in OutputPhase => todo[p] = NoFacts

Sourced(S) ==
  \A p \in Procs : \A f \in Files :
    S[p][f] \subseteq Work[p][f] \cup PublishedOn(Phys[f])

PublishInv ==
  /\ TypeOK
  /\ WritesLast
  /\ OnlyPublishedFacts
  /\ Sourced(todo)
  /\ Sourced(nested)

\* What a sourced fact derives is sourced.
LEMMA DerivedSourced ==
  ASSUME NEW p \in Procs, NEW f \in Files, NEW g \in Files,
         NEW x \in Work[p][f] \cup PublishedOn(Phys[f])
  PROVE  Derives[x][g] \subseteq Work[p][g] \cup PublishedOn(Phys[g])
<1>1. CASE x \in Work[p][f]
  BY <1>1, WorkClosed
<1>2. CASE x \in PublishedOn(Phys[f])
  <2>1. PICK q \in Procs : Published(q) /\ x \in WorkOn(q, Phys[f])
    BY <1>2 DEF PublishedOn
  <2>2. PICK h \in Files : x \in Work[q][h]
    BY <2>1 DEF WorkOn
  <2>3. Derives[x][g] \subseteq Work[q][g]
    BY <2>2, WorkClosed
  <2>4. Work[q][g] \subseteq WorkOn(q, Phys[g])
    BY DEF WorkOn
  <2>5. WorkOn(q, Phys[g]) \subseteq PublishedOn(Phys[g])
    BY <2>1 DEF PublishedOn
  <2> QED BY <2>3, <2>4, <2>5
<1> QED BY <1>1, <1>2

\* What is left to derive is sourced.
LEMMA NestedSourced ==
  ASSUME PublishInv, NEW p \in Procs, NEW f \in Files, NEW m, NEW new,
         new \subseteq Work[p][f] \cup PublishedOn(Phys[f]), NEW g \in Files
  PROVE  NestedAfter(p, new, m)[g] \subseteq Work[p][g] \cup PublishedOn(Phys[g])
<1>1. \A y \in new : Derives[y][g] \subseteq Work[p][g] \cup PublishedOn(Phys[g])
  BY DerivedSourced
<1>2. nested[p][g] \subseteq Work[p][g] \cup PublishedOn(Phys[g])
  BY DEF PublishInv, Sourced
<1> QED BY <1>1, <1>2 DEF NestedAfter

\* What is published stays so.
LEMMA PublishedGrows ==
  ASSUME PublishInv, TypeOK', [Next]_vars, NEW d \in Disk
  PROVE  PublishedOn(d) \subseteq PublishedOn(d)'
<1>1. SUFFICES ASSUME NEW q \in Procs, Published(q) PROVE Published(q)'
  BY DEF PublishedOn, WorkOn
<1>2. pc[q] \notin {"idle"} \cup Analysing
  BY <1>1 DEF Published, PublishInv, WritesLast
<1>3. todo'[q] = todo[q]
  <2>1. ASSUME NEW p \in Procs, Start(p) PROVE todo'[q] = todo[q]
    BY <1>2, <2>1 DEF Start, PublishInv, TypeOK
  <2>2. ASSUME NEW p \in Procs, NEW f \in Files, NEW x \in Facts, Register(p, f, x)
        PROVE  todo'[q] = todo[q]
    BY <1>2, <2>2 DEF Register, Analysing, PublishInv, TypeOK
  <2>3. ASSUME NEW p \in Procs,
               \/ BeginVisit(p) \/ EndVisit(p) \/ OpenForWriteFails(p)
               \/ CompileError(p) \/ Kill(p)
        PROVE  todo'[q] = todo[q]
    BY <2>3 DEF BeginVisit, EndVisit, OpenForWriteFails, CompileError, Kill, Exit
  <2>4. ASSUME NEW p \in Procs, NEW f \in Files,
               \/ OpenAbsent(p, f) \/ OpenParsed(p, f) \/ OpenMalformed(p, f)
               \/ OpenForWrite(p, f) \/ Write(p, f) \/ WriteFails(p, f)
               \/ Close(p, f) \/ MissLink(p, f) \/ CreateLink(p, f)
               \/ CreateLinkFails(p, f)
        PROVE  todo'[q] = todo[q]
    BY <2>4 DEF OpenAbsent, OpenParsed, OpenMalformed, OpenForWrite, Write,
                WriteFails, Close, MissLink, CreateLink, CreateLinkFails, Exit
  <2>5. CASE UNCHANGED vars
    BY <2>5 DEF vars
  <2> QED BY <2>1, <2>2, <2>3, <2>4, <2>5 DEF Next, Step, Fault, AllEnded
<1>4. written[q] \subseteq written'[q]
  <2>1. ASSUME NEW p \in Procs, NEW f \in Files, Write(p, f)
        PROVE  written[q] \subseteq written'[q]
    BY <2>1 DEF Write, PublishInv, TypeOK
  <2>2. ASSUME NEW p \in Procs,
               \/ Start(p) \/ BeginVisit(p) \/ EndVisit(p) \/ OpenForWriteFails(p)
               \/ CompileError(p) \/ Kill(p)
        PROVE  written'[q] = written[q]
    BY <2>2 DEF Start, BeginVisit, EndVisit, OpenForWriteFails, CompileError, Kill, Exit
  <2>3. ASSUME NEW p \in Procs, NEW f \in Files,
               \/ OpenAbsent(p, f) \/ OpenParsed(p, f) \/ OpenMalformed(p, f)
               \/ (\E x \in Facts : Register(p, f, x))
               \/ OpenForWrite(p, f) \/ WriteFails(p, f) \/ Close(p, f)
               \/ MissLink(p, f) \/ CreateLink(p, f) \/ CreateLinkFails(p, f)
        PROVE  written'[q] = written[q]
    BY <2>3 DEF OpenAbsent, OpenParsed, OpenMalformed, Register, OpenForWrite,
                WriteFails, Close, MissLink, CreateLink, CreateLinkFails, Exit
  <2>4. CASE UNCHANGED vars
    BY <2>4 DEF vars
  <2> QED BY <2>1, <2>2, <2>3, <2>4 DEF Next, Step, Fault, AllEnded
<1> QED BY <1>1, <1>3, <1>4 DEF Published

\* Every step keeps the invariant.
LEMMA PublishStep == PublishInv /\ [Next]_vars => PublishInv'
<1> SUFFICES ASSUME PublishInv, [Next]_vars PROVE PublishInv'
  OBVIOUS
<1> USE StoreAssumption
<1>0. TypeOK'
  BY TypeStep DEF PublishInv
<1>grow. \A f \in Files : PublishedOn(Phys[f]) \subseteq PublishedOn(Phys[f])'
  BY <1>0, PublishedGrows
<1>growd. \A d \in Disk : PublishedOn(d) \subseteq PublishedOn(d)'
  BY <1>0, PublishedGrows
<1>keep. ASSUME UNCHANGED json PROVE \A d \in Disk : json'[d] \subseteq PublishedOn(d)'
  BY <1>growd, <1>keep DEF PublishInv, OnlyPublishedFacts
<1>mem. ASSUME UNCHANGED mem PROVE Sourced(mem)'
  BY <1>grow, <1>mem DEF PublishInv, OnlyPublishedFacts, Sourced
<1>todo. ASSUME UNCHANGED todo PROVE Sourced(todo)'
  BY <1>grow, <1>todo DEF PublishInv, Sourced
<1>nested. ASSUME UNCHANGED nested PROVE Sourced(nested)'
  BY <1>grow, <1>nested DEF PublishInv, Sourced
<1>sum. ASSUME WritesLast', \A d \in Disk : json'[d] \subseteq PublishedOn(d)',
               Sourced(mem)', Sourced(todo)', Sourced(nested)'
        PROVE  PublishInv'
  BY <1>0, <1>sum DEF PublishInv, OnlyPublishedFacts, Sourced
<1>1. CASE UNCHANGED vars
  <2>1. WritesLast'
    BY <1>1 DEF vars, disk, PublishInv, WritesLast
  <2> QED BY <1>1, <2>1, <1>keep, <1>mem, <1>todo, <1>nested, <1>sum DEF vars, disk
<1>2. ASSUME NEW p \in Procs, Start(p) PROVE PublishInv'
  <2>1. WritesLast'
    BY <1>2 DEF Start, PublishInv, TypeOK, WritesLast, Analysing, OutputPhase
  <2>2. Sourced(todo)'
    <3>1. \A q \in Procs : \A f \in Files : todo'[q][f] \subseteq todo[q][f] \cup Work[q][f]
      BY <1>2 DEF Start, PublishInv, TypeOK
    <3> QED BY <3>1, <1>grow DEF PublishInv, Sourced
  <2> QED BY <1>2, <2>1, <2>2, <1>keep, <1>mem, <1>nested, <1>sum DEF Start, disk
<1>3. ASSUME NEW p \in Procs, NEW how \in Ended, Exit(p, how) PROVE PublishInv'
  <2>1. WritesLast'
    BY <1>3 DEF Exit, PublishInv, TypeOK, WritesLast, Analysing, OutputPhase, Ended, Failed
  <2> QED BY <1>3, <2>1, <1>keep, <1>mem, <1>todo, <1>nested, <1>sum DEF Exit, disk
<1>4. ASSUME NEW p \in Procs, NEW f \in Files, OpenAbsent(p, f) PROVE PublishInv'
  <2>1. WritesLast'
    BY <1>4 DEF OpenAbsent, PublishInv, WritesLast
  <2> QED BY <1>4, <2>1, <1>keep, <1>mem, <1>todo, <1>nested, <1>sum DEF OpenAbsent, disk
<1>5. ASSUME NEW p \in Procs, NEW f \in Files, OpenParsed(p, f) PROVE PublishInv'
  <2> DEFINE facts == json[Phys[f]] \cap Persistent
             m == [mem[p] EXCEPT ![f] = @ \cup facts]
  <2>1. WritesLast'
    BY <1>5 DEF OpenParsed, PublishInv, WritesLast
  <2>2. facts \subseteq PublishedOn(Phys[f])
    BY DEF PublishInv, OnlyPublishedFacts
  <2>3. Sourced(mem)'
    <3>1. \A q \in Procs, g \in Files :
            mem'[q][g] \subseteq mem[q][g] \cup (IF g = f THEN facts ELSE {})
      BY <1>5 DEF OpenParsed, PublishInv, TypeOK, FactMap
    <3> QED BY <2>2, <3>1, <1>grow DEF PublishInv, OnlyPublishedFacts, Sourced
  <2>4. Sourced(nested)'
    <3>1. \A q \in Procs, g \in Files :
            nested'[q][g] = IF q = p THEN NestedAfter(p, facts, m)[g] ELSE nested[q][g]
      BY <1>5 DEF OpenParsed, PublishInv, TypeOK
    <3>2. \A g \in Files :
            NestedAfter(p, facts, m)[g] \subseteq Work[p][g] \cup PublishedOn(Phys[g])
      BY <2>2, NestedSourced
    <3> QED BY <3>1, <3>2, <1>grow DEF PublishInv, Sourced
  <2> QED BY <1>5, <2>1, <2>3, <2>4, <1>keep, <1>todo, <1>sum DEF OpenParsed, disk
<1>6. ASSUME NEW p \in Procs, NEW f \in Files, NEW x \in Facts, Register(p, f, x)
      PROVE  PublishInv'
  <2> DEFINE new == {x} \ mem[p][f]
             m == [mem[p] EXCEPT ![f] = @ \cup {x}]
  <2>1. WritesLast'
    BY <1>6 DEF Register, PublishInv, TypeOK, WritesLast, Analysing, OutputPhase
  <2>2. x \in Work[p][f] \cup PublishedOn(Phys[f])
    BY <1>6 DEF Register, PublishInv, Sourced
  <2>3. Sourced(mem)'
    <3>1. \A q \in Procs, g \in Files :
            mem'[q][g] \subseteq mem[q][g] \cup (IF q = p /\ g = f THEN {x} ELSE {})
      BY <1>6 DEF Register, PublishInv, TypeOK, FactMap
    <3> QED BY <2>2, <3>1, <1>grow DEF PublishInv, OnlyPublishedFacts, Sourced
  <2>4. Sourced(nested)'
    <3>1. \A q \in Procs, g \in Files :
            nested'[q][g] = IF q = p THEN NestedAfter(p, new, m)[g] ELSE nested[q][g]
      BY <1>6 DEF Register, PublishInv, TypeOK
    <3>2. new \subseteq Work[p][f] \cup PublishedOn(Phys[f])
      BY <2>2
    <3>3. \A g \in Files :
            NestedAfter(p, new, m)[g] \subseteq Work[p][g] \cup PublishedOn(Phys[g])
      BY <3>2, NestedSourced
    <3> QED BY <3>1, <3>3, <1>grow DEF PublishInv, Sourced
  <2>5. Sourced(todo)'
    <3>1. \A q \in Procs, g \in Files : todo'[q][g] \subseteq todo[q][g]
      BY <1>6 DEF Register, PublishInv, TypeOK, FactMap
    <3> QED BY <3>1, <1>grow DEF PublishInv, Sourced
  <2> QED BY <1>6, <2>1, <2>3, <2>4, <2>5, <1>keep, <1>sum DEF Register, disk
<1>7. ASSUME NEW p \in Procs, BeginVisit(p) PROVE PublishInv'
  <2>1. WritesLast'
    BY <1>7 DEF BeginVisit, PublishInv, TypeOK, WritesLast, Analysing, OutputPhase
  <2> QED BY <1>7, <2>1, <1>keep, <1>mem, <1>todo, <1>nested, <1>sum DEF BeginVisit, disk
<1>8. ASSUME NEW p \in Procs, EndVisit(p) PROVE PublishInv'
  <2>1. todo[p] = NoFacts
    BY <1>8 DEF EndVisit, PublishInv, TypeOK, FactMap, NoFacts
  <2>2. WritesLast'
    BY <1>8, <2>1 DEF EndVisit, PublishInv, TypeOK, WritesLast, Analysing
  <2> QED BY <1>8, <2>2, <1>keep, <1>mem, <1>todo, <1>nested, <1>sum DEF EndVisit, disk
<1>9. ASSUME NEW p \in Procs, NEW f \in Files, OpenForWrite(p, f) PROVE PublishInv'
  <2>1. WritesLast'
    BY <1>9 DEF OpenForWrite, PublishInv, TypeOK, WritesLast, Analysing, OutputPhase
  <2> QED BY <1>9, <2>1, <1>keep, <1>mem, <1>todo, <1>nested, <1>sum DEF OpenForWrite
<1>10. ASSUME NEW p \in Procs, NEW f \in Files, Write(p, f) PROVE PublishInv'
  <2>1. WritesLast'
    BY <1>10 DEF Write, PublishInv, TypeOK, WritesLast, Analysing, OutputPhase
  <2>2. Published(p)'
    BY <1>10 DEF Write, Published, PublishInv, TypeOK, WritesLast, OutputPhase
  <2>3. Work[p][f] \subseteq PublishedOn(Phys[f])'
    BY <2>2 DEF PublishedOn, WorkOn
  <2>4. mem[p][f] \subseteq PublishedOn(Phys[f])'
    BY <2>3, <1>grow DEF PublishInv, OnlyPublishedFacts
  <2>5. \A d \in Disk : json'[d] \subseteq PublishedOn(d)'
    BY <1>10, <2>4, <1>growd DEF Write, PublishInv, TypeOK, OnlyPublishedFacts
  <2> QED BY <1>10, <2>1, <2>5, <1>mem, <1>todo, <1>nested, <1>sum DEF Write
<1>11. ASSUME NEW p \in Procs, NEW f \in Files,
              \/ WriteFails(p, f) \/ Close(p, f) \/ MissLink(p, f) \/ CreateLink(p, f)
       PROVE  PublishInv'
  <2>1. WritesLast'
    BY <1>11 DEF WriteFails, Close, MissLink, CreateLink, Closed, disk, PublishInv,
                 TypeOK, WritesLast, Analysing, OutputPhase
  <2> QED BY <1>11, <2>1, <1>keep, <1>mem, <1>todo, <1>nested, <1>sum
          DEF WriteFails, Close, MissLink, CreateLink, disk
<1> QED
  BY <1>1, <1>2, <1>3, <1>4, <1>5, <1>6, <1>7, <1>8, <1>9, <1>10, <1>11
     DEF Next, Step, Fault, AllEnded, OpenMalformed, CompileError,
         OpenForWriteFails, CreateLinkFails, Kill, Ended, Failed

\* It holds of the empty store.
LEMMA InitPublished == Init => PublishInv
<1>1. Init => TypeOK
  BY StoreAssumption DEF Init, TypeOK, NoFacts, FactMap
<1>2. Init => WritesLast /\ OnlyPublishedFacts /\ Sourced(todo) /\ Sourced(nested)
  BY DEF Init, NoFacts, WritesLast, OutputPhase, Analysing, OnlyPublishedFacts, Sourced
<1> QED BY <1>1, <1>2 DEF PublishInv

\* All or nothing: an analysis that does not reach its destructor leaves no
\* trace, neither in the json files nor in what others read, however many
\* analyses run at once (OnlyPublishedFacts).
THEOREM AllOrNothing == Spec => []OnlyPublishedFacts
<1>1. Init => PublishInv
  BY InitPublished
<1>2. PublishInv /\ [Next]_vars => PublishInv'
  BY PublishStep
<1>3. PublishInv => OnlyPublishedFacts
  BY DEF PublishInv
<1> QED BY <1>1, <1>2, <1>3, PTL DEF Spec

-----------------------------------------------------------------------------
(* A broken file that no running process can rewrite is never repaired.     *)

WriterInv == TypeOK /\ NotStarted /\ CanWrite

\* A process that begins to write has a descriptor for it, and keeps it.
LEMMA WriterStep == WriterInv /\ [Next]_vars => WriterInv'
<1> SUFFICES ASSUME WriterInv, [Next]_vars PROVE WriterInv'
  OBVIOUS
<1>0. TypeOK'
  BY TypeStep DEF WriterInv
<1>1. CASE UNCHANGED vars
  BY <1>0, <1>1 DEF WriterInv, vars, NotStarted, CanWrite
<1>2. ASSUME NEW p \in Procs, Start(p) PROVE WriterInv'
  BY <1>0, <1>2 DEF WriterInv, Start, TypeOK, NotStarted, CanWrite
<1>3. ASSUME NEW p \in Procs, NEW how \in Ended, Exit(p, how) PROVE WriterInv'
  BY <1>0, <1>3 DEF WriterInv, Exit, TypeOK, NotStarted, CanWrite, Ended, Failed
<1>4. ASSUME NEW p \in Procs, NEW f \in Files,
             \/ OpenAbsent(p, f) \/ OpenParsed(p, f)
             \/ \E x \in Facts : Register(p, f, x)
      PROVE  WriterInv'
  <2>1. /\ pc[p] \in Analysing /\ pc' = pc /\ written' = written
        /\ \A q \in Procs : q # p => opened'[q] = opened[q] /\ fds'[q] = fds[q]
    BY <1>4 DEF OpenAbsent, OpenParsed, Register, NeedsFile, Analysing, WriterInv, TypeOK
  <2> QED BY <1>0, <2>1 DEF WriterInv, NotStarted, CanWrite, Analysing
<1>5. ASSUME NEW p \in Procs, BeginVisit(p) \/ EndVisit(p) PROVE WriterInv'
  BY <1>0, <1>5 DEF WriterInv, BeginVisit, EndVisit, TypeOK, NotStarted, CanWrite
<1>6. ASSUME NEW p \in Procs, NEW f \in Files, OpenForWrite(p, f) PROVE WriterInv'
  BY <1>0, <1>6 DEF WriterInv, OpenForWrite, TypeOK, NotStarted, CanWrite
<1>7. ASSUME NEW p \in Procs, NEW f \in Files, Write(p, f) PROVE WriterInv'
  BY <1>0, <1>7 DEF WriterInv, Write, TypeOK, NotStarted, CanWrite
<1>8. ASSUME NEW p \in Procs, NEW f \in Files,
             \/ WriteFails(p, f) \/ Close(p, f) \/ MissLink(p, f) \/ CreateLink(p, f)
      PROVE  WriterInv'
  BY <1>0, <1>8 DEF WriterInv, WriteFails, Close, MissLink, CreateLink, Closed,
                    TypeOK, NotStarted, CanWrite
<1> QED
  BY <1>1, <1>2, <1>3, <1>4, <1>5, <1>6, <1>7, <1>8
     DEF Next, Step, Fault, AllEnded, OpenMalformed, CompileError,
         OpenForWriteFails, CreateLinkFails, Kill, Ended, Failed

\* Nobody gets to rewrite a file that is abandoned.
LEMMA AbandonedStep ==
  ASSUME WriterInv, Next, NEW d \in Disk, Abandoned(d)
  PROVE  Abandoned(d)'
<1> USE StoreAssumption
<1>1. ASSUME status' = status, opened' = opened, fds' = fds,
             \A q \in Procs : Live(q)' => Live(q) \/ opened[q] = {}
      PROVE  Abandoned(d)'
  BY <1>1 DEF Abandoned
<1>2. ASSUME NEW p \in Procs, Start(p) PROVE Abandoned(d)'
  <2>1. opened[p] = {} /\ \A q \in Procs : q # p => pc'[q] = pc[q]
    BY <1>2 DEF Start, WriterInv, TypeOK, NotStarted
  <2> QED BY <1>1, <1>2, <2>1 DEF Start, disk, Live
<1>3. ASSUME NEW p \in Procs, Live(p), NEW s, pc' = [pc EXCEPT ![p] = s],
             status' = status, opened' = opened, fds' = fds
      PROVE  Abandoned(d)'
  <2>1. \A q \in Procs : Live(q)' => Live(q)
    BY <1>3 DEF Live, WriterInv, TypeOK
  <2> QED BY <1>1, <1>3, <2>1
<1>4. ASSUME NEW p \in Procs, NEW f \in Files, OpenAbsent(p, f) PROVE Abandoned(d)'
  <2>1. Phys[f] = d => fds[p] = MaxFds
    BY <1>4 DEF OpenAbsent, Abandoned
  <2> QED BY <1>4, <2>1 DEF OpenAbsent, Abandoned, Live, disk, WriterInv, TypeOK
<1>5. ASSUME NEW p \in Procs, NEW f \in Files, OpenParsed(p, f) PROVE Abandoned(d)'
  <2>1. Phys[f] # d /\ fds[p] < MaxFds /\ Live(p)
    BY <1>5 DEF OpenParsed, Abandoned, NeedsFile, Live, Running, Analysing
  <2>2. \A g \in opened[p] : Phys[g] # d
    BY <2>1 DEF Abandoned, WriterInv, TypeOK
  <2> QED BY <1>5, <2>1, <2>2 DEF OpenParsed, Abandoned, Live, disk, WriterInv, TypeOK
<1>6. ASSUME NEW p \in Procs, NEW f \in Files, NEW x \in Facts, Register(p, f, x)
      PROVE  Abandoned(d)'
  BY <1>1, <1>6 DEF Register, disk, Live
<1>7. ASSUME NEW p \in Procs, NEW f \in Files, OpenForWrite(p, f) PROVE Abandoned(d)'
  <2>1. Phys[f] # d
    BY <1>7 DEF OpenForWrite, IsNext, Abandoned, Live, Running, WriterInv, TypeOK
  <2>2. status'[d] = status[d] /\ \A q \in Procs : Live(q)' => Live(q)
    BY <1>7, <2>1 DEF OpenForWrite, Live, Running, WriterInv, TypeOK
  <2> QED BY <1>7, <2>2 DEF OpenForWrite, Abandoned
<1>8. ASSUME NEW p \in Procs, NEW f \in Files, Write(p, f) PROVE Abandoned(d)'
  <2>1. Phys[f] # d
    BY <1>8 DEF Write, IsNext, Abandoned, Live, Running, WriterInv, TypeOK, CanWrite
  <2>2. status'[d] = status[d] /\ \A q \in Procs : Live(q)' => Live(q)
    BY <1>8, <2>1 DEF Write, Live, Running, WriterInv, TypeOK
  <2> QED BY <1>8, <2>2 DEF Write, Abandoned
<1>9. ASSUME NEW p \in Procs,
             \/ BeginVisit(p) \/ EndVisit(p) \/ OpenForWriteFails(p)
             \/ CompileError(p) \/ Kill(p)
      PROVE  Abandoned(d)'
  <2>1. /\ Live(p) /\ status' = status /\ opened' = opened /\ fds' = fds
        /\ \E s : pc' = [pc EXCEPT ![p] = s]
    BY <1>9 DEF BeginVisit, EndVisit, OpenForWriteFails, CompileError, Kill, Exit,
                Live, Running, Analysing, disk
  <2> QED BY <1>3, <2>1
<1>10. ASSUME NEW p \in Procs, NEW f \in Files,
              \/ OpenMalformed(p, f) \/ WriteFails(p, f) \/ Close(p, f)
              \/ MissLink(p, f) \/ CreateLink(p, f) \/ CreateLinkFails(p, f)
       PROVE  Abandoned(d)'
  <2>1. /\ Live(p) /\ status' = status /\ opened' = opened /\ fds' = fds
        /\ \E s : pc' = [pc EXCEPT ![p] = s]
    BY <1>10 DEF OpenMalformed, NeedsFile, WriteFails, Close, MissLink, CreateLink,
                 CreateLinkFails, Closed, Exit, Live, Running, Analysing, disk
  <2> QED BY <1>3, <2>1
<1>11. CASE AllEnded
  BY <1>1, <1>11 DEF AllEnded, vars, disk, Live
<1> QED
  BY <1>2, <1>4, <1>5, <1>6, <1>7, <1>8, <1>9, <1>10, <1>11 DEF Next, Step, Fault

\* Once a file is broken and nobody that runs can rewrite it, no analysis ever
\* will, run in parallel or not (BrokenForever).
THEOREM NeverRepaired == Spec => BrokenForever
<1>1. Init => WriterInv
  <2>1. Init => TypeOK
    BY StoreAssumption DEF Init, TypeOK, NoFacts, FactMap
  <2>2. Init => NotStarted /\ CanWrite
    BY DEF Init, NotStarted, CanWrite
  <2> QED BY <2>1, <2>2 DEF WriterInv
<1>2. WriterInv /\ [Next]_vars
        => [\A d \in Disk : Abandoned(d) => Abandoned(d)']_vars
  BY AbandonedStep
<1> QED BY <1>1, <1>2, WriterStep, PTL DEF Spec, BrokenForever

-----------------------------------------------------------------------------
(* A broken file has a reason.  When analyses run one after the other, at   *)
(* most one process is at work (OneLive), so that no text is ever mixed     *)
(* with another (Uncontended): a text that comes out broken holds a fact    *)
(* that has no well-formed text, and OnlyPublishedFacts says whose fact it  *)
(* is.  Files may share a json file here.                                   *)

Uncontended == \A p \in Procs : ~contended[p]

SequentialInv == TypeOK /\ OneLive /\ Uncontended

\* Nobody starts while somebody runs, and so nobody writes while another does.
LEMMA SequentialStep ==
  ASSUME ~Parallel, SequentialInv, [Next]_vars
  PROVE  SequentialInv'
<1>0. TypeOK'
  BY TypeStep DEF SequentialInv
<1>1. ASSUME contended' = contended, \A q \in Procs : Live(q)' => Live(q)
      PROVE  SequentialInv'
  BY <1>0, <1>1 DEF SequentialInv, OneLive, Uncontended
<1>2. CASE UNCHANGED vars
  BY <1>1, <1>2 DEF vars, Live
<1>3. ASSUME NEW p \in Procs, Start(p) PROVE SequentialInv'
  <2>1. \A q \in Procs : Live(q)' => q = p
    BY <1>3 DEF Start, Live, SequentialInv, TypeOK
  <2> QED BY <1>0, <1>3, <2>1 DEF Start, SequentialInv, OneLive, Uncontended
<1>4. ASSUME NEW p \in Procs, Live(p), NEW s, pc' = [pc EXCEPT ![p] = s],
             contended' = contended
      PROVE  SequentialInv'
  <2>1. \A q \in Procs : Live(q)' => Live(q)
    BY <1>4 DEF Live, SequentialInv, TypeOK
  <2> QED BY <1>1, <1>4, <2>1
<1>5. ASSUME NEW p \in Procs, NEW f \in Files,
             \/ OpenAbsent(p, f) \/ OpenParsed(p, f)
             \/ \E x \in Facts : Register(p, f, x)
      PROVE  SequentialInv'
  BY <1>1, <1>5 DEF OpenAbsent, OpenParsed, Register, Live
<1>6. ASSUME NEW p \in Procs, NEW f \in Files, OpenForWrite(p, f)
      PROVE  SequentialInv'
  <2>1. Live(p) /\ \A q \in Procs : Live(q)' => Live(q)
    BY <1>6 DEF OpenForWrite, Live, Running, SequentialInv, TypeOK
  <2>2. \A q \in Procs, d \in Disk : ~Writes(q, d)
    BY <1>6, <2>1 DEF OpenForWrite, Writes, Live, Running, SequentialInv, OneLive
  <2>3. Uncontended'
    BY <1>6, <2>2, StoreAssumption DEF OpenForWrite, SequentialInv, Uncontended
  <2> QED BY <1>0, <2>1, <2>3 DEF SequentialInv, OneLive
<1>7. ASSUME NEW p \in Procs,
             \/ BeginVisit(p) \/ EndVisit(p) \/ OpenForWriteFails(p)
             \/ CompileError(p) \/ Kill(p)
      PROVE  SequentialInv'
  <2>1. Live(p) /\ contended' = contended /\ \E s : pc' = [pc EXCEPT ![p] = s]
    BY <1>7 DEF BeginVisit, EndVisit, OpenForWriteFails, CompileError, Kill, Exit,
                Live, Running, Analysing
  <2> QED BY <1>4, <2>1
<1>8. ASSUME NEW p \in Procs, NEW f \in Files,
             \/ OpenMalformed(p, f) \/ Write(p, f) \/ WriteFails(p, f)
             \/ Close(p, f) \/ MissLink(p, f) \/ CreateLink(p, f)
             \/ CreateLinkFails(p, f)
      PROVE  SequentialInv'
  <2>1. Live(p) /\ contended' = contended /\ \E s : pc' = [pc EXCEPT ![p] = s]
    BY <1>8 DEF OpenMalformed, NeedsFile, Write, WriteFails, Close, MissLink,
                CreateLink, CreateLinkFails, Closed, Exit, Live, Running, Analysing
  <2> QED BY <1>4, <2>1
<1> QED
  BY <1>2, <1>3, <1>5, <1>6, <1>7, <1>8 DEF Next, Step, Fault, AllEnded, vars

Writers == {"writing", "exit2", "killed"}

\* One of the two reasons of BrokenForAReason, for the json file d.
Unfinished(d) ==
  \E p \in Procs : \E f \in Files : pc[p] \in Writers /\ IsNext(p, f) /\ Phys[f] = d

Malforming(d) ==
  \E p \in Procs : Published(p) /\ WorkOn(p, d) \cap Breaking # {}

BrokenInv == SequentialInv /\ PublishInv /\ BrokenForAReason

\* A process comes to one file at a time: their paths are ordered.
LEMMA OneNext ==
  ASSUME NEW p \in Procs, NEW f \in Files, NEW g \in Files, IsNext(p, f), IsNext(p, g)
  PROVE  f = g
<1>1. Order[f] <= Order[g] /\ Order[g] <= Order[f]
  BY DEF IsNext
<1> QED BY <1>1, StoreAssumption

\* Whoever has put a malformed fact in a file has done so for good.
LEMMA MalformingGrows ==
  ASSUME PublishInv, [Next]_vars, NEW d \in Disk, Malforming(d)
  PROVE  Malforming(d)'
<1>0. TypeOK'
  BY TypeStep DEF PublishInv
<1>1. PICK x \in Breaking : x \in PublishedOn(d)
  BY DEF Malforming, PublishedOn
<1>2. x \in PublishedOn(d)'
  BY <1>0, <1>1, PublishedGrows
<1> QED BY <1>1, <1>2 DEF Malforming, PublishedOn

\* Every step leaves a reason for what it breaks, and takes none away.
LEMMA BrokenStep ==
  ASSUME ~Parallel, BrokenInv, [Next]_vars
  PROVE  BrokenForAReason'
<1> USE StoreAssumption
<1>0. /\ SequentialInv /\ PublishInv /\ TypeOK
      /\ SequentialInv' /\ PublishInv' /\ TypeOK'
  BY SequentialStep, PublishStep DEF BrokenInv, SequentialInv
<1>reason. \A d \in Disk : status[d] = "broken" => Unfinished(d) \/ Malforming(d)
  BY DEF BrokenInv, BrokenForAReason, Unfinished, Malforming, Writers
<1>sum. ASSUME \A d \in Disk : status'[d] = "broken" => Unfinished(d)' \/ Malforming(d)'
        PROVE  BrokenForAReason'
  BY <1>sum DEF BrokenForAReason, Unfinished, Malforming, Writers
<1>grow. \A d \in Disk : Malforming(d) => Malforming(d)'
  BY <1>0, MalformingGrows
<1>same. ASSUME status' = status,
                \A q \in Procs : pc[q] \in Writers =>
                  pc'[q] \in Writers /\ opened'[q] = opened[q] /\ written'[q] = written[q]
         PROVE  BrokenForAReason'
  <2>1. \A d \in Disk : Unfinished(d) => Unfinished(d)'
    BY <1>same DEF Unfinished, IsNext
  <2> QED BY <2>1, <1>same, <1>reason, <1>grow, <1>sum
<1>1. CASE UNCHANGED vars
  BY <1>1, <1>same DEF vars, disk
<1>2. ASSUME NEW p \in Procs, Start(p) \/ BeginVisit(p) \/ EndVisit(p) PROVE BrokenForAReason'
  BY <1>0, <1>2, <1>same
     DEF Start, BeginVisit, EndVisit, disk, TypeOK, Writers
<1>3. ASSUME NEW p \in Procs,
             \/ OpenForWriteFails(p) \/ CompileError(p) \/ Kill(p)
             \/ \E f \in Files : OpenMalformed(p, f) \/ CreateLinkFails(p, f)
      PROVE  BrokenForAReason'
  BY <1>0, <1>3, <1>same
     DEF OpenForWriteFails, CompileError, Kill, OpenMalformed, NeedsFile, Analysing,
         CreateLinkFails, Exit, disk, TypeOK, Writers, Live, Running
<1>4. ASSUME NEW p \in Procs, NEW f \in Files,
             \/ OpenAbsent(p, f) \/ OpenParsed(p, f)
             \/ \E x \in Facts : Register(p, f, x)
      PROVE  BrokenForAReason'
  <2>1. pc[p] \in Analysing /\ pc' = pc /\ status' = status /\ written' = written
        /\ \A q \in Procs : q # p => opened'[q] = opened[q]
    BY <1>0, <1>4 DEF OpenAbsent, OpenParsed, Register, NeedsFile, Analysing, disk, TypeOK
  <2> QED BY <2>1, <1>same DEF Analysing, Writers
<1>5. ASSUME NEW p \in Procs, NEW f \in Files, OpenForWrite(p, f) PROVE BrokenForAReason'
  <2>1. Unfinished(Phys[f])'
    BY <1>0, <1>5 DEF OpenForWrite, Unfinished, IsNext, Writers, TypeOK
  <2>2. ASSUME NEW d \in Disk, Unfinished(d) PROVE Unfinished(d)'
    <3>1. \A q \in Procs : pc[q] \in Writers => pc'[q] = pc[q]
      BY <1>0, <1>5 DEF OpenForWrite, TypeOK, Writers
    <3> QED BY <1>5, <2>2, <3>1 DEF OpenForWrite, Unfinished, IsNext
  <2>3. \A d \in Disk : d # Phys[f] => status'[d] = status[d]
    BY <1>0, <1>5 DEF OpenForWrite, TypeOK
  <2> QED BY <2>1, <2>2, <2>3, <1>reason, <1>grow, <1>sum
<1>6. ASSUME NEW p \in Procs, NEW f \in Files, Write(p, f) PROVE BrokenForAReason'
  <2>1. ASSUME status'[Phys[f]] = "broken" PROVE Malforming(Phys[f])'
    <3>1. PICK x \in Breaking : x \in mem[p][f]
      BY <1>0, <1>6, <2>1 DEF Write, WellFormed, SequentialInv, Uncontended, TypeOK
    <3>2. json'[Phys[f]] = mem[p][f]
      BY <1>0, <1>6 DEF Write, TypeOK
    <3>3. x \in PublishedOn(Phys[f])'
      BY <1>0, <3>1, <3>2 DEF PublishInv, OnlyPublishedFacts
    <3> QED BY <3>1, <3>3 DEF Malforming, PublishedOn
  <2>2. ASSUME NEW d \in Disk, d # Phys[f], Unfinished(d) PROVE Unfinished(d)'
    <3>1. PICK q \in Procs, g \in Files : pc[q] \in Writers /\ IsNext(q, g) /\ Phys[g] = d
      BY <2>2 DEF Unfinished
    <3>2. q # p
      BY <1>6, <2>2, <3>1, OneNext DEF Write
    <3>3. pc'[q] = pc[q] /\ opened'[q] = opened[q] /\ written'[q] = written[q]
      BY <1>0, <1>6, <3>2 DEF Write, TypeOK
    <3> QED BY <3>1, <3>3 DEF Unfinished, IsNext
  <2>3. \A d \in Disk : d # Phys[f] => status'[d] = status[d]
    BY <1>0, <1>6 DEF Write, TypeOK
  <2> QED BY <2>1, <2>2, <2>3, <1>reason, <1>grow, <1>sum
<1>7. ASSUME NEW p \in Procs, NEW f \in Files,
             \/ WriteFails(p, f) \/ Close(p, f) \/ MissLink(p, f) \/ CreateLink(p, f)
      PROVE  BrokenForAReason'
  BY <1>0, <1>7, <1>same
     DEF WriteFails, Close, MissLink, CreateLink, Closed, disk, TypeOK, Writers
<1> QED
  BY <1>1, <1>2, <1>3, <1>4, <1>5, <1>6, <1>7 DEF Next, Step, Fault, AllEnded

\* When analyses run one after the other, a json file is unreadable only
\* because its writer is still at it or was stopped in the middle, or because
\* an analysis that went to its end put a malformed fact in it
\* (BrokenForAReason).
THEOREM BrokenHasReason == ~Parallel => (Spec => []BrokenForAReason)
<1> SUFFICES ASSUME ~Parallel PROVE Spec => []BrokenForAReason
  OBVIOUS
<1>1. Init => BrokenInv
  <2>1. Init => TypeOK
    BY StoreAssumption DEF Init, TypeOK, NoFacts, FactMap
  <2>2. Init => SequentialInv /\ BrokenForAReason
    BY <2>1 DEF Init, SequentialInv, OneLive, Live, Running, Analysing, Uncontended,
                BrokenForAReason
  <2>3. Init => PublishInv
    BY InitPublished
  <2> QED BY <2>2, <2>3 DEF BrokenInv
<1>2. BrokenInv /\ [Next]_vars => BrokenInv'
  BY BrokenStep, SequentialStep, PublishStep DEF BrokenInv
<1>3. BrokenInv => BrokenForAReason
  BY DEF BrokenInv
<1> QED BY <1>1, <1>2, <1>3, PTL DEF Spec
=============================================================================

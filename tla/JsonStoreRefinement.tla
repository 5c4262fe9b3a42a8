------------------------ MODULE JsonStoreRefinement ------------------------
(***************************************************************************)
(* The store implements the database AnalysisDatabase describes, for every *)
(* set of processes, files and facts: a json file only ever gains facts,   *)
(* or is lost with all it held.                                            *)
(***************************************************************************)
EXTENDS JsonStoreProofs

-----------------------------------------------------------------------------
(* A rewrite gathers because the writer holds what it is about to replace:  *)
(* a process that has a descriptor left has read back every file it opened  *)
(* and has not rewritten yet, and nobody has touched them since.            *)

\* An absent json file holds nothing.
AbsentEmpty == \A d \in Disk : status[d] = "absent" => json[d] = {}

\* A file is truncated from the time it is opened for writing until its text
\* is out.
Truncated ==
  \A p \in Procs : \A f \in Files :
    pc[p] = "writing" /\ IsNext(p, f) => status[Phys[f]] = "broken"

Holds(p, f) ==
  /\ status[Phys[f]] # "broken"
  /\ json[Phys[f]] \cap Persistent \subseteq mem[p][f]

HeldInMemory ==
  \A p \in Procs : Live(p) /\ fds[p] < MaxFds =>
    \A f \in opened[p] \ written[p] :
      (pc[p] = "writing" /\ IsNext(p, f)) \/ Holds(p, f)

DatabaseInv ==
  /\ SequentialInv
  /\ NotStarted
  /\ CanWrite
  /\ AbsentEmpty
  /\ Truncated
  /\ HeldInMemory

\* Steps of p that leave the files alone and do not begin to write one.
LEMMA UntouchedKeeps ==
  ASSUME DatabaseInv, SequentialInv', NotStarted', CanWrite',
         status' = status, json' = json, mem' = mem, fds' = fds,
         opened' = opened, written' = written,
         \A q \in Procs : /\ Live(q)' => Live(q) \/ opened[q] = {}
                          /\ pc'[q] = "writing" => pc[q] = "writing"
                          /\ pc[q] = "writing" => pc'[q] = "writing" \/ ~Live(q)'
  PROVE  DatabaseInv'
<1>1. \A q \in Procs : \A f \in Files : IsNext(q, f)' <=> IsNext(q, f)
  BY DEF IsNext
<1>2. AbsentEmpty' /\ Truncated'
  BY <1>1 DEF DatabaseInv, AbsentEmpty, Truncated
<1>3. HeldInMemory'
  BY <1>1 DEF DatabaseInv, HeldInMemory, Holds, SequentialInv, TypeOK
<1> QED BY <1>2, <1>3 DEF DatabaseInv

\* When analyses run one after the other and no two files share a json file,
\* every step keeps the invariant.
LEMMA DatabaseStep ==
  ASSUME Exclusive, DatabaseInv, [Next]_vars
  PROVE  DatabaseInv'
<1> USE StoreAssumption
<1>0. TypeOK /\ TypeOK' /\ SequentialInv' /\ NotStarted' /\ CanWrite'
  BY SequentialStep, WriterStep DEF Exclusive, DatabaseInv, SequentialInv, WriterInv
<1>sum. ASSUME AbsentEmpty', Truncated', HeldInMemory' PROVE DatabaseInv'
  BY <1>0, <1>sum DEF DatabaseInv
<1>1. CASE UNCHANGED vars
  BY <1>0, <1>1, UntouchedKeeps DEF vars, disk, Live
<1>2. ASSUME NEW p \in Procs, Start(p) PROVE DatabaseInv'
  BY <1>0, <1>2, UntouchedKeeps DEF Start, disk, Live, DatabaseInv, NotStarted, TypeOK
<1>3. ASSUME NEW p \in Procs, NEW how \in Ended, Live(p), Exit(p, how) PROVE DatabaseInv'
  BY <1>0, <1>3, UntouchedKeeps
     DEF Exit, disk, Live, Running, Analysing, Ended, Failed, TypeOK
<1>4. ASSUME NEW p \in Procs, BeginVisit(p) \/ EndVisit(p) PROVE DatabaseInv'
  BY <1>0, <1>4, UntouchedKeeps
     DEF BeginVisit, EndVisit, disk, Live, Running, Analysing, TypeOK
<1>5. ASSUME NEW p \in Procs, NEW f \in Files, OpenAbsent(p, f) PROVE DatabaseInv'
  <2>1. pc' = pc /\ pc[p] \in Analysing /\ status' = status /\ json' = json
        /\ mem' = mem /\ fds' = fds /\ written' = written
        /\ opened' = [opened EXCEPT ![p] = @ \cup {f}]
    BY <1>5 DEF OpenAbsent, NeedsFile, Analysing, disk
  <2>2. fds[p] < MaxFds => Holds(p, f)
    BY <1>5 DEF OpenAbsent, DatabaseInv, AbsentEmpty, Holds, TypeOK
  <2>3. \A q \in Procs : q # p => \A g \in Files : IsNext(q, g)' <=> IsNext(q, g)
    BY <1>0, <2>1 DEF IsNext, TypeOK
  <2>4. AbsentEmpty' /\ Truncated'
    BY <2>1, <2>3 DEF DatabaseInv, AbsentEmpty, Truncated, Analysing
  <2>5. HeldInMemory'
    <3> SUFFICES ASSUME NEW q \in Procs, Live(q)', fds'[q] < MaxFds,
                        NEW g \in opened'[q] \ written'[q],
                        ~(pc'[q] = "writing" /\ IsNext(q, g)')
                 PROVE  Holds(q, g)'
      BY DEF HeldInMemory
    <3>1. CASE q = p /\ g = f
      BY <2>1, <2>2, <3>1 DEF Holds
    <3>2. CASE ~(q = p /\ g = f)
      <4>1. /\ Live(q) /\ fds[q] < MaxFds /\ g \in opened[q] \ written[q]
            /\ ~(pc[q] = "writing" /\ IsNext(q, g))
        BY <1>0, <2>1, <2>3, <3>2 DEF Live, TypeOK, Analysing
      <4> QED BY <2>1, <4>1 DEF DatabaseInv, HeldInMemory, Holds
    <3> QED BY <3>1, <3>2
  <2> QED BY <2>4, <2>5, <1>sum
<1>6. ASSUME NEW p \in Procs, NEW f \in Files, OpenParsed(p, f) PROVE DatabaseInv'
  <2>1. pc' = pc /\ pc[p] \in Analysing /\ status' = status /\ json' = json
        /\ written' = written /\ opened' = [opened EXCEPT ![p] = @ \cup {f}]
    BY <1>6 DEF OpenParsed, NeedsFile, Analysing, disk
  <2>2. \A q \in Procs, g \in Files : mem[q][g] \subseteq mem'[q][g]
    BY <1>0, <1>6 DEF OpenParsed, TypeOK, FactMap
  <2>3. status'[Phys[f]] # "broken" /\ json'[Phys[f]] \cap Persistent \subseteq mem'[p][f]
    <3>1. status[Phys[f]] = "readable"
          /\ mem' = [mem EXCEPT ![p] =
                       [mem[p] EXCEPT ![f] = @ \cup (json[Phys[f]] \cap Persistent)]]
      BY <1>6 DEF OpenParsed
    <3> QED BY <1>0, <2>1, <3>1 DEF TypeOK, FactMap
  <2>4. \A q \in Procs : q # p => \A g \in Files : IsNext(q, g)' <=> IsNext(q, g)
    BY <1>0, <2>1 DEF IsNext, TypeOK
  <2>5. AbsentEmpty' /\ Truncated'
    BY <2>1, <2>4 DEF DatabaseInv, AbsentEmpty, Truncated, Analysing
  <2>6. \A q \in Procs : fds'[q] < MaxFds => fds[q] < MaxFds
    BY <1>0, <1>6 DEF OpenParsed, TypeOK
  <2>7. HeldInMemory'
    <3> SUFFICES ASSUME NEW q \in Procs, Live(q)', fds'[q] < MaxFds,
                        NEW g \in opened'[q] \ written'[q],
                        ~(pc'[q] = "writing" /\ IsNext(q, g)')
                 PROVE  Holds(q, g)'
      BY DEF HeldInMemory
    <3>1. CASE q = p /\ g = f
      BY <2>3, <3>1 DEF Holds
    <3>2. CASE ~(q = p /\ g = f)
      <4>1. /\ Live(q) /\ fds[q] < MaxFds /\ g \in opened[q] \ written[q] /\ g \in Files
            /\ ~(pc[q] = "writing" /\ IsNext(q, g))
        BY <1>0, <2>1, <2>4, <2>6, <3>2 DEF Live, TypeOK, Analysing
      <4> QED BY <2>1, <2>2, <4>1 DEF DatabaseInv, HeldInMemory, Holds
    <3> QED BY <3>1, <3>2
  <2> QED BY <2>5, <2>7, <1>sum
<1>7. ASSUME NEW p \in Procs, NEW f \in Files, NEW x \in Facts, Register(p, f, x)
      PROVE  DatabaseInv'
  <2>1. \A q \in Procs, g \in Files : mem[q][g] \subseteq mem'[q][g]
    BY <1>0, <1>7 DEF Register, TypeOK, FactMap
  <2>2. UNCHANGED <<status, json, pc, opened, fds, written>>
    BY <1>7 DEF Register, disk
  <2>3. \A q \in Procs : \A g \in Files : IsNext(q, g)' <=> IsNext(q, g)
    BY <2>2 DEF IsNext
  <2>4. AbsentEmpty' /\ Truncated'
    BY <2>2, <2>3 DEF DatabaseInv, AbsentEmpty, Truncated
  <2>5. HeldInMemory'
    BY <1>0, <2>1, <2>2, <2>3 DEF DatabaseInv, HeldInMemory, Holds, Live, TypeOK
  <2> QED BY <2>4, <2>5, <1>sum
<1>8. ASSUME NEW p \in Procs, NEW f \in Files, OpenForWrite(p, f) PROVE DatabaseInv'
  <2>1. /\ UNCHANGED <<json, mem, opened, fds, written>>
        /\ pc[p] = "output" /\ pc' = [pc EXCEPT ![p] = "writing"] /\ IsNext(p, f)
        /\ status' = [status EXCEPT ![Phys[f]] = "broken"]
    BY <1>8 DEF OpenForWrite
  <2>2. \A q \in Procs : Live(q) => q = p
    BY <2>1 DEF Live, Running, DatabaseInv, SequentialInv, OneLive
  <2>3. \A q \in Procs : \A g \in Files : IsNext(q, g)' <=> IsNext(q, g)
    BY <2>1 DEF IsNext
  <2>4. AbsentEmpty'
    BY <1>0, <2>1 DEF DatabaseInv, AbsentEmpty, TypeOK
  <2>5. Truncated'
    <3>1. \A q \in Procs : pc'[q] = "writing" => q = p
      BY <1>0, <2>1, <2>2 DEF Live, Running, TypeOK
    <3>2. \A g \in Files : IsNext(p, g)' => g = f
      BY <2>1, <2>3, OneNext
    <3> QED BY <1>0, <2>1, <3>1, <3>2 DEF Truncated, TypeOK
  <2>6. HeldInMemory'
    <3> SUFFICES ASSUME NEW q \in Procs, Live(q)', fds'[q] < MaxFds,
                        NEW g \in opened'[q] \ written'[q],
                        ~(pc'[q] = "writing" /\ IsNext(q, g)')
                 PROVE  Holds(q, g)'
      BY DEF HeldInMemory
    <3>1. q = p /\ g \in opened[p] \ written[p] /\ g \in Files
      BY <1>0, <2>1, <2>2 DEF Live, TypeOK
    <3>2. g # f /\ Phys[g] # Phys[f]
      BY <1>0, <2>1, <2>3, <3>1 DEF Exclusive, IsNext, TypeOK
    <3>3. Holds(p, g)
      BY <2>1, <3>1 DEF DatabaseInv, HeldInMemory, Live, Running
    <3> QED BY <1>0, <2>1, <3>1, <3>2, <3>3 DEF Holds, TypeOK
  <2> QED BY <2>4, <2>5, <2>6, <1>sum
<1>9. ASSUME NEW p \in Procs, NEW f \in Files, Write(p, f) PROVE DatabaseInv'
  <2>1. /\ UNCHANGED <<mem, opened, fds>>
        /\ pc[p] = "writing" /\ pc' = [pc EXCEPT ![p] = "closing"] /\ IsNext(p, f)
        /\ written' = [written EXCEPT ![p] = @ \cup {f}]
        /\ json' = [json EXCEPT ![Phys[f]] = mem[p][f]]
    BY <1>9 DEF Write
  <2>2. PICK s \in {"readable", "broken"} : status' = [status EXCEPT ![Phys[f]] = s]
    BY <1>9 DEF Write
  <2>3. \A q \in Procs : Live(q) => q = p
    BY <2>1 DEF Live, Running, DatabaseInv, SequentialInv, OneLive
  <2>4. AbsentEmpty'
    BY <1>0, <2>1, <2>2 DEF DatabaseInv, AbsentEmpty, TypeOK
  <2>5. Truncated'
    BY <1>0, <2>1, <2>3 DEF Truncated, Live, Running, TypeOK
  <2>6. HeldInMemory'
    <3> SUFFICES ASSUME NEW q \in Procs, Live(q)', fds'[q] < MaxFds,
                        NEW g \in opened'[q] \ written'[q]
                 PROVE  Holds(q, g)'
      BY DEF HeldInMemory
    <3>1. q = p /\ g \in opened[p] \ written[p] /\ g \in Files /\ g # f
      BY <1>0, <2>1, <2>3 DEF Live, Running, TypeOK
    <3>2. Phys[g] # Phys[f] /\ ~IsNext(p, g)
      BY <2>1, <3>1, OneNext DEF Exclusive
    <3>3. Holds(p, g)
      BY <2>1, <3>1, <3>2 DEF DatabaseInv, HeldInMemory, Live, Running
    <3> QED BY <1>0, <2>1, <2>2, <3>1, <3>2, <3>3 DEF Holds, TypeOK
  <2> QED BY <2>4, <2>5, <2>6, <1>sum
<1>10. ASSUME NEW p \in Procs, NEW f \in Files,
              \/ WriteFails(p, f) \/ Close(p, f) \/ MissLink(p, f) \/ CreateLink(p, f)
       PROVE  DatabaseInv'
  BY <1>0, <1>10, UntouchedKeeps
     DEF WriteFails, Close, MissLink, CreateLink, Closed, disk, Live, Running,
         Analysing, TypeOK
<1>11. ASSUME NEW p \in Procs,
              \/ OpenForWriteFails(p) \/ CompileError(p) \/ Kill(p)
              \/ \E f \in Files : OpenMalformed(p, f) \/ CreateLinkFails(p, f)
       PROVE  DatabaseInv'
  <2>1. Live(p) /\ \E how \in Ended : Exit(p, how)
    BY <1>11 DEF OpenForWriteFails, CompileError, Kill, OpenMalformed, NeedsFile,
                 CreateLinkFails, Live, Running, Analysing, Ended, Failed
  <2> QED BY <1>3, <2>1
<1> QED
  BY <1>1, <1>2, <1>4, <1>5, <1>6, <1>7, <1>8, <1>9, <1>10, <1>11
     DEF Next, Step, Fault, AllEnded

-----------------------------------------------------------------------------
(* Each step is a step of the database, or none.                            *)

\* Steps that change neither the files nor what is being written to them.
LEMMA UntouchedStutters ==
  ASSUME DatabaseInv, DatabaseInv', status' = status, json' = json,
         \A q \in Procs :
           pc[q] = "writing" \/ pc'[q] = "writing" =>
             /\ pc'[q] = pc[q] /\ mem'[q] = mem[q]
             /\ opened'[q] = opened[q] /\ written'[q] = written[q]
  PROVE  LostFiles' = LostFiles /\ Gathered' = Gathered
<1>1. \A q \in Procs, f \in Files, d \in Disk : Rewrites(q, f, d)' <=> Rewrites(q, f, d)
  BY DEF Rewrites, IsNext
<1>2. \A q \in Procs, f \in Files, d \in Disk :
        Rewrites(q, f, d) => mem'[q] = mem[q]
  BY DEF Rewrites
<1>3. \A q \in Procs, f \in Files, d \in Disk :
        Rewrites(q, f, d) => (WellFormed(q, f)' <=> WellFormed(q, f))
  BY <1>2 DEF WellFormed
<1>4. LostFiles' = LostFiles
  BY <1>1, <1>3 DEF LostFiles
<1>5. \A d \in Disk : Gathered'[d] = Gathered[d]
  BY <1>1, <1>2, <1>4 DEF Gathered
<1> QED BY <1>4, <1>5 DEF Gathered

\* The gathered facts are facts of the database.
LEMMA GatheredType ==
  ASSUME TypeOK
  PROVE  Gathered \in [Disk -> SUBSET Persistent] /\ LostFiles \subseteq Disk
BY DEF Gathered, LostFiles, TypeOK

\* A step that changes what one file counts for is a step of the database: the
\* file is readable and gains facts, or it is lost.
LEMMA OneFileChanges ==
  ASSUME TypeOK, TypeOK', NEW d \in Disk,
         \A e \in Disk : e # d => Gathered'[e] = Gathered[e]
                                /\ (e \in LostFiles' <=> e \in LostFiles),
         \/ /\ d \notin LostFiles /\ d \notin LostFiles'
            /\ Gathered[d] \subseteq Gathered'[d]
         \/ d \in LostFiles' /\ Gathered'[d] = {}
  PROVE  Database!DbNext
<1>0. Gathered \in [Disk -> SUBSET Persistent] /\ LostFiles \subseteq Disk
  BY GatheredType
<1>1. /\ Gathered' \in [Disk -> SUBSET Persistent] /\ LostFiles' \subseteq Disk
      /\ Gathered \in [Disk -> SUBSET Persistent] /\ LostFiles \subseteq Disk
  BY <1>0 DEF Gathered, LostFiles, TypeOK
<1> HIDE DEF Gathered, LostFiles
<1>2. CASE d \notin LostFiles /\ d \notin LostFiles' /\ Gathered[d] \subseteq Gathered'[d]
  <2>1. LostFiles' = LostFiles
    BY <1>1, <1>2
  <2>2. Gathered' = [Gathered EXCEPT ![d] = @ \cup Gathered'[d]]
    BY <1>1, <1>2
  <2>3. Database!Gather(d)
    BY <1>1, <1>2, <2>1, <2>2 DEF Database!Gather
  <2> QED BY <2>3 DEF Database!DbNext
<1>3. CASE d \in LostFiles' /\ Gathered'[d] = {}
  <2>1. LostFiles' = LostFiles \cup {d}
    BY <1>1, <1>3
  <2>2. Gathered' = [Gathered EXCEPT ![d] = {}]
    BY <1>1, <1>3
  <2>3. Database!Lose(d)
    BY <2>1, <2>2 DEF Database!Lose
  <2> QED BY <2>3 DEF Database!DbNext
<1> QED BY <1>2, <1>3

\* A file nobody is rewriting counts for what it holds.
LEMMA AtRest ==
  ASSUME NEW d \in Disk, \A q \in Procs, g \in Files : ~Rewrites(q, g, d)
  PROVE  /\ d \in LostFiles <=> status[d] = "broken"
         /\ Gathered[d] = IF status[d] = "broken" THEN {} ELSE json[d] \cap Persistent
<1>1. d \in LostFiles <=> status[d] = "broken"
  BY DEF LostFiles
<1> QED BY <1>1 DEF Gathered

\* A file that is rewritten counts for the text its writer holds.
LEMMA Rewritten ==
  ASSUME NEW p \in Procs, NEW f \in Files,
         status[Phys[f]] = "broken", Rewrites(p, f, Phys[f]),
         \A q \in Procs, g \in Files : Rewrites(q, g, Phys[f]) => q = p /\ g = f
  PROVE  /\ (Phys[f] \in LostFiles) <=> ~WellFormed(p, f)
         /\ Gathered[Phys[f]] = IF WellFormed(p, f) THEN mem[p][f] \cap Persistent ELSE {}
<1>1. PICK d \in Disk : d = Phys[f]
  BY StoreAssumption
<1>2. d \in LostFiles <=> ~WellFormed(p, f)
  BY <1>1 DEF LostFiles
<1>3. CASE WellFormed(p, f)
  <2>1. d \notin LostFiles
    BY <1>2, <1>3
  <2>2. Gathered[d] = {x \in Persistent : \E q \in Procs, g \in Files :
                                            Rewrites(q, g, d) /\ x \in mem[q][g]}
    BY <1>1, <2>1 DEF Gathered
  <2> QED BY <1>1, <1>3, <2>1, <2>2
<1>4. CASE ~WellFormed(p, f)
  BY <1>1, <1>2, <1>4 DEF Gathered
<1> QED BY <1>3, <1>4

\* A process that stops while it writes loses the file, if it had one open.
LEMMA StoppingLoses ==
  ASSUME Exclusive, DatabaseInv, DatabaseInv', NEW p \in Procs, pc[p] = "writing",
         NEW s, s # "writing", pc' = [pc EXCEPT ![p] = s],
         UNCHANGED <<status, json, mem, opened, written>>
  PROVE  [Database!DbNext]_(Database!dbVars)
<1> USE StoreAssumption
<1>0. TypeOK /\ TypeOK' /\ \A q \in Procs : Live(q) => q = p
  BY DEF DatabaseInv, SequentialInv, OneLive, Live, Running
<1>1. \A q \in Procs, g \in Files, e \in Disk :
        (Rewrites(q, g, e) => q = p /\ IsNext(p, g) /\ e = Phys[g]) /\ ~Rewrites(q, g, e)'
  BY <1>0 DEF Rewrites, Live, Running, TypeOK
<1>2. \A e \in Disk : (e \in LostFiles' <=> status[e] = "broken")
        /\ Gathered'[e] = IF status[e] = "broken" THEN {} ELSE json[e] \cap Persistent
  BY <1>1 DEF LostFiles, Gathered
<1>3. ASSUME NEW e \in Disk, \A g \in Files : ~Rewrites(p, g, e)
      PROVE  Gathered'[e] = Gathered[e] /\ (e \in LostFiles' <=> e \in LostFiles)
  <2>1. \A q \in Procs, g \in Files : ~Rewrites(q, g, e)
    BY <1>1, <1>3
  <2>2. /\ e \in LostFiles <=> status[e] = "broken"
        /\ Gathered[e] = IF status[e] = "broken" THEN {} ELSE json[e] \cap Persistent
    BY <2>1, AtRest
  <2> QED BY <1>2, <2>2
<1>4. CASE \E f \in Files : IsNext(p, f)
  <2>1. PICK f \in Files : IsNext(p, f)
    BY <1>4
  <2>2. \A e \in Disk : e # Phys[f] => \A g \in Files : ~Rewrites(p, g, e)
    BY <1>1, <2>1, OneNext
  <2>3. status[Phys[f]] = "broken"
    BY <2>1 DEF DatabaseInv, Truncated
  <2>4. Phys[f] \in LostFiles' /\ Gathered'[Phys[f]] = {}
    BY <1>2, <2>3
  <2>5. Database!DbNext
    BY <1>0, <1>3, <2>2, <2>4, OneFileChanges
  <2> QED BY <2>5
<1>5. CASE ~\E f \in Files : IsNext(p, f)
  <2>1. \A e \in Disk : Gathered'[e] = Gathered[e] /\ (e \in LostFiles' <=> e \in LostFiles)
    BY <1>1, <1>3, <1>5
  <2>2. Gathered' = Gathered /\ LostFiles' = LostFiles
    BY <2>1 DEF Gathered, LostFiles
  <2> QED BY <2>2 DEF Database!dbVars
<1> QED BY <1>4, <1>5

\* Truncating a file to rewrite it gathers what its writer adds, or loses it
\* when the text is not going to be well formed.
LEMMA OpeningGathers ==
  ASSUME Exclusive, DatabaseInv, DatabaseInv', NEW p \in Procs, NEW f \in Files,
         OpenForWrite(p, f)
  PROVE  Database!DbNext
<1> USE StoreAssumption
<1>0. TypeOK /\ TypeOK'
  BY DEF DatabaseInv, SequentialInv
<1>1. /\ UNCHANGED <<json, mem, opened, written>> /\ fds[p] < MaxFds
      /\ pc[p] = "output" /\ pc' = [pc EXCEPT ![p] = "writing"] /\ IsNext(p, f)
      /\ status' = [status EXCEPT ![Phys[f]] = "broken"]
  BY DEF OpenForWrite
<1>2. \A q \in Procs : Live(q) => q = p
  BY <1>1 DEF DatabaseInv, SequentialInv, OneLive, Live, Running
<1>3. \A q \in Procs, g \in Files, e \in Disk :
        /\ ~Rewrites(q, g, e)
        /\ Rewrites(q, g, e)' <=> q = p /\ g = f /\ e = Phys[f]
  <2>1. \A q \in Procs : \A g \in Files : IsNext(q, g)' <=> IsNext(q, g)
    BY <1>1 DEF IsNext
  <2> QED BY <1>0, <1>1, <1>2, <2>1, OneNext DEF Rewrites, Live, Running, TypeOK
<1>4. \A e \in Disk :
        /\ e \in LostFiles <=> status[e] = "broken"
        /\ Gathered[e] = IF status[e] = "broken" THEN {} ELSE json[e] \cap Persistent
  BY <1>3, AtRest
<1>5. WellFormed(p, f)' <=> WellFormed(p, f)
  BY <1>1 DEF WellFormed
<1>6. ASSUME NEW e \in Disk, e # Phys[f]
      PROVE  Gathered'[e] = Gathered[e] /\ (e \in LostFiles' <=> e \in LostFiles)
  <2>1. status'[e] = status[e] /\ json'[e] = json[e]
    BY <1>0, <1>1, <1>6 DEF TypeOK
  <2>2. e \in LostFiles' <=> status'[e] = "broken"
    BY <1>3, <1>6 DEF LostFiles
  <2>3. Gathered'[e] = IF status'[e] = "broken" THEN {} ELSE json'[e] \cap Persistent
    BY <2>2 DEF Gathered
  <2> QED BY <1>4, <2>1, <2>2, <2>3
<1>7. status'[Phys[f]] = "broken"
  BY <1>0, <1>1 DEF TypeOK
<1>8. Phys[f] \in LostFiles' <=> ~WellFormed(p, f)
  BY <1>3, <1>5, <1>7 DEF LostFiles
<1>9. CASE WellFormed(p, f)
  <2>1. Holds(p, f)
    BY <1>1 DEF DatabaseInv, HeldInMemory, Live, Running, IsNext
  <2>2. Phys[f] \notin LostFiles /\ Phys[f] \notin LostFiles'
    BY <1>4, <1>8, <1>9, <2>1 DEF Holds
  <2>3. Gathered'[Phys[f]] = {x \in Persistent : x \in mem[p][f]}
    BY <1>1, <1>3, <1>7, <2>2 DEF Gathered
  <2>4. Gathered[Phys[f]] \subseteq Gathered'[Phys[f]]
    BY <1>4, <2>1, <2>3 DEF Holds
  <2> QED BY <1>0, <1>6, <2>2, <2>4, OneFileChanges
<1>10. CASE ~WellFormed(p, f)
  <2>1. Phys[f] \in LostFiles' /\ Gathered'[Phys[f]] = {}
    BY <1>8, <1>10 DEF Gathered
  <2> QED BY <1>0, <1>6, <2>1, OneFileChanges
<1> QED BY <1>9, <1>10

\* Writing the text out changes nothing in the database: a file that is
\* rewritten already counts for its text.
LEMMA WritingStutters ==
  ASSUME Exclusive, DatabaseInv, DatabaseInv', NEW p \in Procs, NEW f \in Files,
         Write(p, f)
  PROVE  LostFiles' = LostFiles /\ Gathered' = Gathered
<1>0. TypeOK /\ TypeOK'
  BY DEF DatabaseInv, SequentialInv
<1>1. /\ pc[p] = "writing" /\ pc' = [pc EXCEPT ![p] = "closing"] /\ IsNext(p, f)
      /\ json' = [json EXCEPT ![Phys[f]] = mem[p][f]]
      /\ status' = [status EXCEPT ![Phys[f]] =
                      IF WellFormed(p, f) THEN "readable" ELSE "broken"]
  BY DEF Write, DatabaseInv, SequentialInv, Uncontended
<1>2. \A q \in Procs : Live(q) => q = p
  BY <1>1 DEF DatabaseInv, SequentialInv, OneLive, Live, Running
<1>3. \A q \in Procs, g \in Files, e \in Disk :
        /\ Rewrites(q, g, e) <=> q = p /\ g = f /\ e = Phys[f]
        /\ ~Rewrites(q, g, e)'
  BY <1>0, <1>1, <1>2, OneNext, StoreAssumption DEF Rewrites, Live, Running, TypeOK
<1>4. \A e \in Disk :
        /\ e \in LostFiles' <=> status'[e] = "broken"
        /\ Gathered'[e] = IF status'[e] = "broken" THEN {} ELSE json'[e] \cap Persistent
  BY <1>3 DEF LostFiles, Gathered
<1>5. ASSUME NEW e \in Disk, e # Phys[f]
      PROVE  Gathered'[e] = Gathered[e] /\ (e \in LostFiles' <=> e \in LostFiles)
  <2>1. status'[e] = status[e] /\ json'[e] = json[e]
    BY <1>0, <1>1, <1>5 DEF TypeOK
  <2>2. \A q \in Procs, g \in Files : ~Rewrites(q, g, e)
    BY <1>3, <1>5
  <2> QED BY <1>4, <2>1, <2>2, AtRest
<1>6. /\ Gathered'[Phys[f]] = Gathered[Phys[f]]
      /\ (Phys[f] \in LostFiles') <=> (Phys[f] \in LostFiles)
  <2>1. status[Phys[f]] = "broken"
    BY <1>1 DEF DatabaseInv, Truncated
  <2>2. /\ Phys[f] \in Disk
        /\ Rewrites(p, f, Phys[f])
        /\ \A q \in Procs, g \in Files : Rewrites(q, g, Phys[f]) => q = p /\ g = f
    BY <1>3, StoreAssumption
  <2>3. /\ (Phys[f] \in LostFiles) <=> ~WellFormed(p, f)
        /\ Gathered[Phys[f]] = IF WellFormed(p, f) THEN mem[p][f] \cap Persistent ELSE {}
    BY <2>1, <2>2, Rewritten
  <2>4. json'[Phys[f]] = mem[p][f]
        /\ status'[Phys[f]] = IF WellFormed(p, f) THEN "readable" ELSE "broken"
    BY <1>0, <1>1, StoreAssumption DEF TypeOK
  <2>5. Phys[f] \in LostFiles' <=> status'[Phys[f]] = "broken"
    BY <1>4, <2>2
  <2>6. Gathered'[Phys[f]] =
          IF status'[Phys[f]] = "broken" THEN {} ELSE json'[Phys[f]] \cap Persistent
    BY <1>4, <2>2
  <2> QED BY <2>3, <2>4, <2>5, <2>6
<1>7. \A e \in Disk : Gathered'[e] = Gathered[e] /\ (e \in LostFiles' <=> e \in LostFiles)
  BY <1>5, <1>6, StoreAssumption
<1> QED BY <1>7 DEF Gathered, LostFiles

\* Every step of the store is a step of the database, or changes nothing there.
LEMMA RefinesStep ==
  ASSUME Exclusive, DatabaseInv, [Next]_vars
  PROVE  [Database!DbNext]_(Database!dbVars)
<1> USE StoreAssumption
<1>0. TypeOK /\ TypeOK' /\ DatabaseInv'
  BY DatabaseStep DEF DatabaseInv, SequentialInv
<1>stutter. ASSUME LostFiles' = LostFiles, Gathered' = Gathered
            PROVE  [Database!DbNext]_(Database!dbVars)
  BY <1>stutter DEF Database!dbVars
<1>1. CASE UNCHANGED vars
  BY <1>0, <1>1, <1>stutter, UntouchedStutters DEF vars, disk
<1>2. ASSUME NEW p \in Procs, Start(p) \/ BeginVisit(p) \/ EndVisit(p)
      PROVE  [Database!DbNext]_(Database!dbVars)
  BY <1>0, <1>2, <1>stutter, UntouchedStutters
     DEF Start, BeginVisit, EndVisit, disk, TypeOK
<1>3. ASSUME NEW p \in Procs, NEW f \in Files,
             \/ OpenAbsent(p, f) \/ OpenParsed(p, f)
             \/ \E x \in Facts : Register(p, f, x)
      PROVE  [Database!DbNext]_(Database!dbVars)
  <2>1. /\ UNCHANGED <<status, json, pc, written>> /\ pc[p] \in Analysing
        /\ \A q \in Procs : q # p => mem'[q] = mem[q] /\ opened'[q] = opened[q]
    BY <1>0, <1>3 DEF OpenAbsent, OpenParsed, Register, NeedsFile, Analysing, disk, TypeOK
  <2> QED BY <1>0, <2>1, <1>stutter, UntouchedStutters DEF Analysing
<1>4. ASSUME NEW p \in Procs, NEW f \in Files, OpenForWrite(p, f)
      PROVE  [Database!DbNext]_(Database!dbVars)
  BY <1>0, <1>4, OpeningGathers
<1>5. ASSUME NEW p \in Procs, NEW f \in Files, Write(p, f)
      PROVE  [Database!DbNext]_(Database!dbVars)
  BY <1>0, <1>5, <1>stutter, WritingStutters
<1>6. ASSUME NEW p \in Procs, Kill(p) \/ \E f \in Files : WriteFails(p, f)
      PROVE  [Database!DbNext]_(Database!dbVars)
  <2>1. PICK s \in {"killed", "exit2"} :
          pc' = [pc EXCEPT ![p] = s] /\ UNCHANGED <<status, json, mem, opened, written>>
    BY <1>6 DEF Kill, Exit, WriteFails, disk
  <2>2. CASE pc[p] = "writing"
    BY <1>0, <2>1, <2>2, StoppingLoses
  <2>3. CASE pc[p] # "writing"
    BY <1>0, <2>1, <2>3, <1>stutter, UntouchedStutters DEF TypeOK
  <2> QED BY <2>2, <2>3
<1>7. ASSUME NEW p \in Procs,
             \/ OpenForWriteFails(p) \/ CompileError(p)
             \/ \E f \in Files : OpenMalformed(p, f) \/ CreateLinkFails(p, f)
      PROVE  [Database!DbNext]_(Database!dbVars)
  BY <1>0, <1>7, <1>stutter, UntouchedStutters
     DEF OpenForWriteFails, CompileError, OpenMalformed, NeedsFile, Analysing,
         CreateLinkFails, Exit, disk, TypeOK
<1>8. ASSUME NEW p \in Procs, NEW f \in Files,
             Close(p, f) \/ MissLink(p, f) \/ CreateLink(p, f)
      PROVE  [Database!DbNext]_(Database!dbVars)
  BY <1>0, <1>8, <1>stutter, UntouchedStutters
     DEF Close, MissLink, CreateLink, Closed, disk, TypeOK
<1> QED
  BY <1>1, <1>2, <1>3, <1>4, <1>5, <1>6, <1>7, <1>8 DEF Next, Step, Fault, AllEnded

\* The json files are the database doc/callers.org speaks of, which gathers the
\* results of each analysis step: when analyses run one after the other and no
\* two files share a json file, a file only ever gains facts, until a failure
\* in the middle of a rewrite, or a malformed text, loses it (DatabaseSpec).
THEOREM GathersIncrementally == Exclusive => (Spec => DatabaseSpec)
<1> SUFFICES ASSUME Exclusive PROVE Spec => DatabaseSpec
  OBVIOUS
<1>1. Init => DatabaseInv
  <2>1. Init => TypeOK
    BY StoreAssumption DEF Init, TypeOK, NoFacts, FactMap
  <2>2. Init => SequentialInv /\ NotStarted /\ CanWrite
    BY <2>1 DEF Init, SequentialInv, OneLive, Live, Running, Analysing, Uncontended,
                NotStarted, CanWrite
  <2>3. Init => AbsentEmpty /\ Truncated /\ HeldInMemory
    BY DEF Init, AbsentEmpty, Truncated, HeldInMemory
  <2> QED BY <2>2, <2>3 DEF DatabaseInv
<1>2. DatabaseInv /\ [Next]_vars => DatabaseInv'
  BY DatabaseStep
<1>3. Init => Database!DbInit
  <2>1. ASSUME Init PROVE LostFiles = {} /\ Gathered = [d \in Disk |-> {}]
    <3>1. LostFiles = {} /\ \A d \in Disk : json[d] = {} /\ status[d] # "broken"
      BY <2>1 DEF Init, LostFiles
    <3> QED BY <3>1 DEF Gathered
  <2> QED BY <2>1 DEF Database!DbInit
<1>4. DatabaseInv /\ [Next]_vars => [Database!DbNext]_(Database!dbVars)
  BY RefinesStep
<1> QED BY <1>1, <1>2, <1>3, <1>4, PTL DEF Spec, DatabaseSpec, Database!DbSpec
=============================================================================

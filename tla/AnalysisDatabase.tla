-------------------------- MODULE AnalysisDatabase --------------------------
(***************************************************************************)
(* What the json files promise, whatever process writes them: "a           *)
(* distributed database, gathering incrementally the analysis results of   *)
(* each analysis step" (doc/callers.org).  A file of the database only     *)
(* ever gains facts, until a failure in the middle of a rewrite, or a text *)
(* that is not well formed, loses the whole of it for good.                *)
(***************************************************************************)
CONSTANTS
  Disk,   \* the files of the database
  Facts   \* what they record

VARIABLES
  base,   \* base[d]: the facts gathered in d
  lost    \* files nobody can read any more

dbVars == <<base, lost>>

DbInit ==
  /\ base = [d \in Disk |-> {}]
  /\ lost = {}

\* An analysis step adds its results to what was there.
Gather(d) ==
  /\ d \notin lost
  /\ \E new \in SUBSET Facts : base' = [base EXCEPT ![d] = @ \cup new]
  /\ UNCHANGED lost

\* A file is lost with all it held.
Lose(d) ==
  /\ lost' = lost \cup {d}
  /\ base' = [base EXCEPT ![d] = {}]

DbNext == \E d \in Disk : Gather(d) \/ Lose(d)

DbSpec == DbInit /\ [][DbNext]_dbVars
=============================================================================

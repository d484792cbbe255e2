---------------------------- MODULE RunLifecycle ----------------------------
(***************************************************************************)
(* What the runs table and the clients see of provider runs: every run is  *)
(* reserved once, moves forward only, ends once, and ends with the outcome *)
(* its client was told.  Several runs may move in one step.                *)
(***************************************************************************)
EXTENDS FiniteSets, Naturals

CONSTANTS
  Runs,      \* run ids
  Capacity   \* bound on the runs of a target that are running

VARIABLES
  row,       \* the status of each run in the table, "absent" before
  told       \* the outcome sent to the run's client, "none" before

lifeVars == <<row, told>>

Unfinished == {"queued", "running"}
Outcomes   == {"completed", "failed", "cancelled"}
Terminal   == Outcomes \cup {"interrupted"}

Init ==
  /\ row = [r \in Runs |-> "absent"]
  /\ told = [r \in Runs |-> "none"]

After(status) ==
  CASE status = "absent"  -> {"queued"}
    [] status = "queued"  -> {"running", "failed", "cancelled", "interrupted", "completed"}
    [] status = "running" -> Terminal
    [] OTHER              -> {}

\* A client is told an outcome once, and the row says the same by then.
Tells(r) == told[r] = "none" /\ told'[r] \in Outcomes /\ told'[r] = row'[r]

Step(r) ==
  /\ row'[r] = row[r] \/ row'[r] \in After(row[r])
  /\ told'[r] = told[r] \/ Tells(r)

Running == {r \in Runs : row[r] = "running"}

Next ==
  /\ row' \in [Runs -> {"absent"} \cup Unfinished \cup Terminal]
  /\ told' \in [Runs -> {"none"} \cup Outcomes]
  /\ \A r \in Runs : Step(r)
  /\ Running' \subseteq Running \/ Cardinality(Running') <= Capacity

Spec == Init /\ [][Next]_lifeVars
=============================================================================

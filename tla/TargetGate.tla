----------------------------- MODULE TargetGate -----------------------------
(***************************************************************************)
(* What the control plane promises of its invocation targets: each must be *)
(* proven before it is enabled, losing its proof disables it, and it is    *)
(* never removed while it is enabled.  One scan may doubt several.         *)
(***************************************************************************)

CONSTANT Ids

VARIABLE state

Init == state = [id \in Ids |-> "absent"]

Goes(id, from, to) == state[id] \in from /\ state'[id] = to

Create(id) == Goes(id, {"absent"}, "unproven")

Verify(id) == Goes(id, {"unproven"}, "proven")

Enable(id) == Goes(id, {"proven"}, "enabled")

Disable(id) == Goes(id, {"enabled"}, "proven")

Doubt(id) == Goes(id, {"proven", "enabled"}, "unproven")

Delete(id) == Goes(id, {"unproven", "proven"}, "absent")

Stays(id) == Goes(id, {state[id]}, state[id])

Next ==
  /\ DOMAIN state' = Ids
  /\ \A id \in Ids :
       \/ Create(id) \/ Verify(id) \/ Enable(id) \/ Disable(id) \/ Doubt(id) \/ Delete(id)
       \/ Stays(id)

Spec == Init /\ [][Next]_state
=============================================================================

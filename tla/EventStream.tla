---------------------------- MODULE EventStream ----------------------------
(***************************************************************************)
(* What InvocationService.invoke() promises the extensions that iterate    *)
(* over a run: the native session first and once, then the provider's      *)
(* events in the order they were produced and without a gap, then exactly  *)
(* one terminal event, then the end.  A gap before the terminal event is   *)
(* allowed only when the run was cut short by an abort.                    *)
(*                                                                         *)
(* An event is a record whose n is its place in what the run produced.     *)
(***************************************************************************)
EXTENDS Naturals, Sequences

CONSTANT TerminalTypes
VARIABLES delivered, returned, ended

streamVars == <<delivered, returned, ended>>

IsOver     == \E i \in DOMAIN delivered : delivered[i].type \in TerminalTypes
HasSession == \E i \in DOMAIN delivered : delivered[i].type = "session_started"
NoGap(e)   == e.n = Len(delivered) + 1

Init ==
  /\ delivered = <<>>
  /\ returned = FALSE
  /\ ended = FALSE

\* The event that a step appends.
Fresh == delivered'[Len(delivered')]

Deliver ==
  /\ ~IsOver /\ ~returned /\ ~ended
  /\ Len(delivered') = Len(delivered) + 1
  /\ delivered' = Append(delivered, Fresh)
  /\ UNCHANGED <<returned, ended>>

DeliverItem ==
  /\ Deliver
  /\ Fresh.type \notin TerminalTypes
  /\ Fresh.type = "session_started" <=> ~HasSession
  /\ NoGap(Fresh)

DeliverTerminal ==
  /\ Deliver
  /\ Fresh.type \in TerminalTypes
  /\ NoGap(Fresh) \/ Fresh.cut
  /\ Fresh.type = "completed" => ~Fresh.cut

\* The iteration ends by itself only after a terminal event.
End ==
  /\ IsOver
  /\ ended' = TRUE
  /\ UNCHANGED <<delivered, returned>>

Return ==
  /\ returned' = TRUE
  /\ ended' \in BOOLEAN
  /\ UNCHANGED delivered

Next == DeliverItem \/ DeliverTerminal \/ End \/ Return

Spec == Init /\ [][Next]_streamVars
=============================================================================

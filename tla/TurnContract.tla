---------------------------- MODULE TurnContract ----------------------------
(***************************************************************************)
(* What InvocationService assumes of every ProviderAdapter (src/           *)
(* provider-runtime/types.ts): the events of one start() or resume().      *)
(* The native session is named first and once; exactly one terminal event  *)
(* comes last, except for a consumer that left; "cancelled" is said only   *)
(* of a run that was cut short: its signal was aborted, or the provider    *)
(* reported that it stopped the turn; and a failure that claims the native *)
(* state did not advance, which the service may retry and a stored chain   *)
(* may survive, is said only of a prompt the provider was never given.     *)
(***************************************************************************)
EXTENDS Sequences

CONSTANT Runs
VARIABLES
  events,     \* per run, the events its iterator yielded
  cut,        \* per run, its signal was aborted or its provider stopped it
  prompted,   \* per run, the provider was given the prompt
  ended       \* per run, the iterator is done

contractVars == <<events, cut, prompted, ended>>

Terminals == {"completed", "cancelled", "failed", "failed_advanced"}

Over(r)    == \E i \in DOMAIN events[r] : events[r][i] \in Terminals
Session(r) == \E i \in DOMAIN events[r] : events[r][i] = "session"

Init ==
  /\ events = [r \in Runs |-> <<>>]
  /\ cut \in [Runs -> BOOLEAN]
  /\ prompted = [r \in Runs |-> FALSE]
  /\ ended = [r \in Runs |-> FALSE]

MaySay(r, e) ==
  /\ ~Over(r) /\ ~ended[r]
  /\ CASE e = "session"   -> ~Session(r)
       [] e = "delta"     -> Session(r)
       [] e = "completed" -> Session(r) /\ prompted[r]
       [] e = "cancelled" -> cut[r]
       [] e = "failed"    -> ~prompted[r]
       [] e = "failed_advanced" -> TRUE

Says(r) ==
  \/ events'[r] = events[r]
  \/ /\ events'[r] # events[r]
     /\ MaySay(r, events'[r][Len(events'[r])])
     /\ events'[r] = Append(events[r], events'[r][Len(events'[r])])

\* An iterator that ends by itself has said how the turn ended.
Ends(r) == ended'[r] = ended[r] \/ (ended'[r] /\ (Over(r) \/ cut[r]))

Keeps(flag, next, r) == flag[r] => next[r]

Next ==
  \A r \in Runs : Says(r) /\ Ends(r) /\ Keeps(cut, cut', r)
                          /\ Keeps(prompted, prompted', r)

Spec == Init /\ [][Next]_contractVars
=============================================================================

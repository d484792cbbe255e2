------------------------------ MODULE KimiTurn ------------------------------
(***************************************************************************)
(* The kimi adapter (src/provider-runtime/kimi/adapter.ts): one agent      *)
(* process per run, spoken to over ACP.  A producer carries the protocol   *)
(* through initialize, session, configuration and prompt, while the        *)
(* agent's notifications arrive; both put events into an AsyncEventQueue   *)
(* from which the generator yields.                                        *)
(*                                                                         *)
(* The agent is assumed to keep ACP's rule that a turn's updates come      *)
(* before the answer to its prompt, and to send none while it deletes the  *)
(* session of a turn it has answered (an agent that offers no              *)
(* session/delete, as the tests' does not, is never asked to); anything    *)
(* else it may say at any time.                                            *)
(***************************************************************************)
EXTENDS Turn

VARIABLE acp   \* per run, the record AcpIdle describes

\* producer: the request it awaits; "failing" for 25 ms after it has thrown.
AcpIdle == [queue    |-> <<>>,      \* AsyncEventQueue.values
            fate     |-> "open",    \* its terminal: "end" or "fail" once there is one
            producer |-> "none",
            known    |-> FALSE,     \* ActiveRun.sessionId
            violated |-> FALSE,     \* protocolViolation
            decided  |-> FALSE,     \* turnTerminal
            notified |-> FALSE,     \* ActiveRun.cancelSent
            telling  |-> FALSE]     \* a cancel() awaits its session/cancel

AcpInit == acp = [r \in Runs |-> AcpIdle]

Awaiting(a) == a.producer \in {"init", "session", "config", "prompt"}
Settled(a)  == a.producer \in {"settled", "failed"}

Push(a, e)     == IF a.fate = "open" THEN [a EXCEPT !.queue = Append(@, e)] ELSE a
Close(a, fate) == IF a.fate = "open" THEN [a EXCEPT !.fate = fate] ELSE a

\* The agent's output can be read: it was started, and stdout is not destroyed.
Talks(r) == /\ proc[r].leader \in {"alive", "dead"}
            /\ at[r] \notin {"settling", "ended"}

Acp(r, a) == acp' = [acp EXCEPT ![r] = a]

-----------------------------------------------------------------------------
(* The producer.                                                           *)

AcpBegin(r) ==
  /\ CanBegin(r)
  /\ \E ok \in BOOLEAN : proc' = [proc EXCEPT ![r] = Spawned(ok)]
  /\ registered' = [registered EXCEPT ![r] = TRUE]
  /\ Acp(r, [acp[r] EXCEPT !.producer = "init"])
  /\ GoTo(r, "take")
  /\ UNCHANGED <<outer, flags>>

ProducerOnly(r) == UNCHANGED <<at, cont, events, outer, registered, proc>>

Initialized(r) ==
  /\ acp[r].producer = "init" /\ Talks(r)
  /\ Acp(r, [acp[r] EXCEPT !.producer = "session"])
  /\ ProducerOnly(r) /\ UNCHANGED flags

SessionOpened(r) ==
  /\ acp[r].producer = "session" /\ Talks(r)
  /\ Acp(r, Push([acp[r] EXCEPT !.producer = "config", !.known = TRUE], "session"))
  /\ ProducerOnly(r) /\ UNCHANGED flags

\* applyConfig and promptBlocks are done: the prompt goes out.
Prompted(r) ==
  /\ acp[r].producer = "config"
  /\ Acp(r, [acp[r] EXCEPT !.producer = "prompt"])
  /\ advanced' = [advanced EXCEPT ![r] = TRUE]
  /\ prompted' = [prompted EXCEPT ![r] = TRUE]
  /\ ProducerOnly(r) /\ UNCHANGED <<requested, stopped>>

\* Its answer; an ephemeral session is deleted before the producer settles.
PromptAnswered(r, stop, delete) ==
  /\ acp[r].producer = "prompt" /\ Talks(r)
  /\ LET a == acp[r]
         done(e) == Push([a EXCEPT !.decided = TRUE], e) IN
     CASE a.violated -> Acp(r, [a EXCEPT !.producer = "failing"])
       [] ~a.violated /\ (stop = "cancelled" \/ requested[r]) ->
            Acp(r, Close([done("cancelled") EXCEPT !.producer = "settled"], "end"))
       [] ~a.violated /\ stop = "end_turn" /\ ~requested[r] ->
            Acp(r, IF delete THEN [done("completed") EXCEPT !.producer = "delete"]
                   ELSE Close([done("completed") EXCEPT !.producer = "settled"], "end"))
       [] OTHER -> Acp(r, [a EXCEPT !.producer = "failing"])
  /\ stopped' = [stopped EXCEPT ![r] = @ \/ stop = "cancelled"]
  /\ ProducerOnly(r) /\ UNCHANGED <<requested, advanced, prompted>>

DeleteSettled(r) ==
  /\ acp[r].producer = "delete"
  /\ Acp(r, Close([acp[r] EXCEPT !.producer = "settled"], "end"))
  /\ ProducerOnly(r) /\ UNCHANGED flags

\* An error response, an unsupported capability, an unreadable image, a request
\* given up with the signal, or the end of the connection.
ProducerThrows(r) ==
  /\ Awaiting(acp[r])
  /\ Acp(r, [acp[r] EXCEPT !.producer = "failing"])
  /\ ProducerOnly(r) /\ UNCHANGED flags

ProducerFailed(r) ==
  /\ acp[r].producer = "failing"
  /\ Acp(r, Close([acp[r] EXCEPT !.producer = "failed"], "fail"))
  /\ ProducerOnly(r) /\ UNCHANGED flags

-----------------------------------------------------------------------------
(* The agent's notifications, and its end.                                 *)

Chunk(r) ==
  /\ Talks(r) /\ acp[r].known /\ ~acp[r].decided
  /\ Len(events[r]) + Len(acp[r].queue) < MaxItems
  /\ Acp(r, Push(acp[r], "delta"))
  /\ ProducerOnly(r) /\ UNCHANGED flags

\* An update of another session, or about a tool; the turn is cancelled with
\* the agent in the latter case.
Violation(r, tool) ==
  /\ Talks(r) /\ acp[r].producer \notin {"none", "delete"}
  /\ tool => acp[r].known
  /\ Acp(r, Close([acp[r] EXCEPT !.violated = TRUE, !.notified = @ \/ tool], "fail"))
  /\ ProducerOnly(r) /\ UNCHANGED flags

\* Mutant of AcpExit: an exit fails the queue whatever was decided before.
AcpExitAlways(r) ==
  /\ CanSeeEnd(proc[r]) /\ ~unchecked[r]
  /\ proc' = [proc EXCEPT ![r] = SeeEnd(@)]
  /\ Acp(r, Close(acp[r], "fail"))
  /\ UNCHANGED <<at, cont, events, outer, flags, registered>>

\* The exit is noticed; it decides a turn that nothing else has decided.
AcpExit(r) ==
  /\ CanSeeEnd(proc[r]) /\ ~unchecked[r]
  /\ proc' = [proc EXCEPT ![r] = SeeEnd(@)]
  /\ Acp(r, IF \/ proc[r].leader = "unborn"
               \/ ~(Settled(acp[r]) \/ acp[r].decided \/ requested[r])
            THEN Close(acp[r], "fail") ELSE acp[r])
  /\ UNCHANGED <<at, cont, events, outer, flags, registered>>

-----------------------------------------------------------------------------
(* The generator, and cancel().                                            *)

AcpCatch(r) ==
  Yield(r, IF ~acp[r].violated /\ (aborted[r] \/ requested[r]) THEN "cancelled"
           ELSE Failure(advanced[r]), "finally")

Take(r) ==
  /\ at[r] = "take"
  /\ LET a == acp[r] IN
     \/ /\ a.queue # <<>>
        /\ Yield(r, Head(a.queue), "take")
        /\ Acp(r, [a EXCEPT !.queue = Tail(@)])
     \/ a.queue = <<>> /\ a.fate = "end" /\ GoTo(r, "finally") /\ UNCHANGED acp
     \/ a.queue = <<>> /\ a.fate = "fail" /\ AcpCatch(r) /\ UNCHANGED acp
  /\ UNCHANGED <<outer, flags, registered, proc>>

\* The finally block: a turn still running is cancelled with the agent first.
AcpFinally(r) ==
  /\ at[r] = "finally"
  /\ IF ~Settled(acp[r]) /\ acp[r].known /\ ~acp[r].notified
       THEN /\ Acp(r, [acp[r] EXCEPT !.notified = TRUE])
            /\ GoTo(r, "notifying")
            /\ UNCHANGED <<registered, proc>>
       ELSE /\ registered' = [registered EXCEPT ![r] = FALSE]
            /\ proc' = [proc EXCEPT ![r] = Interrupted(@)]
            /\ GoTo(r, "disposing")
            /\ UNCHANGED acp
  /\ UNCHANGED <<outer, flags>>

AcpNotified(r) ==
  /\ at[r] = "notifying"
  /\ registered' = [registered EXCEPT ![r] = FALSE]
  /\ proc' = [proc EXCEPT ![r] = Interrupted(@)]
  /\ GoTo(r, "disposing")
  /\ UNCHANGED <<outer, flags, acp>>

AcpDisposed(r) ==
  /\ at[r] = "disposing" /\ proc[r].stage = "done"
  /\ GoTo(r, "settling")
  /\ UNCHANGED <<outer, flags, registered, proc, acp>>

AcpEnded(r) ==
  /\ at[r] = "settling" /\ ~Awaiting(acp[r]) /\ acp[r].producer # "delete"
  /\ GoTo(r, "ended")
  /\ UNCHANGED <<outer, flags, registered, proc, acp>>

\* onAbort's cancel() notifies the agent and interrupts it when that is sent; the
\* cancel() of the run itself, right after it, finds cancelSent and interrupts.
AcpAbort(r, timer) ==
  /\ ~aborted[r] /\ at[r] # "ended"
  /\ aborted' = [aborted EXCEPT ![r] = TRUE]
  /\ LET told == registered[r] /\ Listening(r)
         tell == told /\ acp[r].known /\ ~acp[r].notified IN
     /\ requested' = [requested EXCEPT ![r] = @ \/ told]
     /\ Acp(r, [acp[r] EXCEPT !.notified = @ \/ tell, !.telling = tell])
     /\ proc' = [proc EXCEPT ![r] = IF told /\ ~(tell /\ timer) THEN Interrupted(@) ELSE @]
  /\ UNCHANGED <<adapter, at, cont, events, probe, unchecked, returned, advanced, prompted, stopped, registered>>

AcpTold(r) ==
  /\ acp[r].telling
  /\ Acp(r, [acp[r] EXCEPT !.telling = FALSE])
  /\ proc' = [proc EXCEPT ![r] = Interrupted(@)]
  /\ UNCHANGED <<at, cont, events, outer, flags, registered>>

ProducerStep(r) ==
  \/ Initialized(r) \/ SessionOpened(r) \/ Prompted(r)
  \/ \E stop \in {"end_turn", "cancelled", "refusal"}, delete \in BOOLEAN :
       PromptAnswered(r, stop, delete)
  \/ DeleteSettled(r) \/ ProducerThrows(r) \/ ProducerFailed(r)

AcpStep(r) ==
  \/ AcpBegin(r) \/ Take(r) \/ AcpFinally(r) \/ AcpNotified(r) \/ AcpDisposed(r)
  \/ AcpEnded(r) \/ ProducerStep(r) \/ Chunk(r) \/ AcpExit(r) \/ AcpTold(r)
  \/ \E b \in BOOLEAN : Violation(r, b) \/ AcpAbort(r, b)
  \/ (BeginAborted(r) \/ ConsumerStep(r) \/ OwnProcessStep(r)) /\ UNCHANGED acp
  \/ (CommandStep(r) \/ (unchecked[r] /\ SeeExit(r))) /\ UNCHANGED acp

\* As for LineTurn; a request whose connection has ended is rejected, and a
\* notification is written or fails.
AcpFairness(r) ==
  /\ WF_acp(/\ adapter = "kimi"
            /\ ProducerFailed(r) \/ (Gone(proc[r]) /\ (ProducerThrows(r) \/ DeleteSettled(r))))
  /\ WF_acp(AcpTold(r))
  /\ WF_turnVars(/\ adapter = "kimi"
                 /\ \/ AcpBegin(r) \/ BeginAborted(r) \/ Take(r) \/ AcpFinally(r)
                    \/ AcpNotified(r) \/ AcpDisposed(r) \/ AcpEnded(r))
  /\ WF_turnVars(adapter = "kimi" /\ AcpExit(r))
=============================================================================

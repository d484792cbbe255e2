----------------------------- MODULE Invocation -----------------------------
(***************************************************************************)
(* The runs of one target, across the extension's HTTP handler, the        *)
(* InvocationService (src/provider-runtime/invocation-service.ts), the     *)
(* TargetScheduler (module Scheduler, composed here action by action), the *)
(* runs table (src/control-plane/runs.ts), the administrator's cancel      *)
(* route, the shutdown hook, and crashes of the process.                   *)
(*                                                                         *)
(* A step is one macrotask with its microtasks: whoever a scheduler step   *)
(* starts or turns away has its row updated in that step.  What happens    *)
(* inside a running operation is modelled in ProviderStream.               *)
(***************************************************************************)
EXTENDS Naturals, Sequences, FiniteSets

CONSTANTS
  Calls,      \* run ids, each reserved by one HTTP request at most
  Target,     \* the one target
  Limit,      \* its maxConcurrency
  QueueLimits, \* the values its maxQueue takes as it is edited
  NoCall,
  MaxCrashes  \* bound: crashes in a behaviour

ASSUME InvocationAssumption ==
  /\ IsFiniteSet(Calls) /\ NoCall \notin Calls
  /\ Limit \in Nat \ {0} /\ QueueLimits \subseteq Nat /\ MaxCrashes \in Nat

VARIABLES
  pc, target, timed, aborted, signal, dispatching,   \* of Scheduler
  known, active, limit, queue,
  row,        \* runs.status
  handler,    \* the HTTP handler of each request
  stage,      \* where a running operation awaits
  verdict,    \* its terminal event, once it cleans up
  told,       \* the terminal event sent to the handler
  cancelling, \* the cancel() calls that wait, and those answered with true
  thrown,     \* the runs for which throwTransitionError was reached
  up, closing,
  awaited,    \* the runs in the snapshot of abortActive()
  crashes

Sched == INSTANCE Scheduler WITH
  Targets <- {Target}, RunIds <- Calls, RunId <- [c \in Calls |-> c],
  Limits <- {Limit}

schedVars == <<pc, target, timed, aborted, signal, dispatching, known, active, limit, queue>>
opVars    == <<stage, verdict>>
procVars  == <<up, closing, awaited, crashes>>
vars == <<schedVars, opVars, row, handler, told, cancelling, thrown, procVars>>

Unfinished == {"queued", "running"}
Outcomes   == {"completed", "failed", "cancelled"}

Init ==
  /\ Sched!Init
  /\ row = [c \in Calls |-> "absent"]
  /\ handler = [c \in Calls |-> "new"]
  /\ stage = [c \in Calls |-> "none"]
  /\ verdict = [c \in Calls |-> "none"]
  /\ told = [c \in Calls |-> "none"]
  /\ cancelling = [c \in Calls |-> "none"]
  /\ thrown = {}
  /\ up = TRUE /\ closing = FALSE /\ awaited = {} /\ crashes = 0

\* The process runs and no abort listener is due.
Ready == up /\ dispatching = NoCall

\* InvocationService.activeControllers
Registered(c) == pc[c] \in {"queued", "running"}

-----------------------------------------------------------------------------
(* What a scheduler step does to the rows.                                 *)

Started(c) == pc[c] # "running" /\ pc'[c] = "running"

TurnedAway(c) == pc[c] \in {"new", "queued"} /\ pc'[c] \in Sched!Settled

\* The row update of every call the step starts, turns away or finishes (with
\* the outcomes in `final`): the status it must have, and the next one.
Moves(final) ==
  [c \in {x \in Calls : Started(x) \/ TurnedAway(x)} \cup DOMAIN final |->
     IF c \in DOMAIN final THEN [from |-> "running", to |-> final[c]]
     ELSE [from |-> "queued",
           to   |-> IF Started(c) THEN "running"
                    ELSE IF pc'[c] \in {"queue_full", "queue_timeout"} THEN "failed"
                    ELSE "cancelled"]]

\* markStarted, markQueuedFinished and markFinished change a row only from the
\* status they name and throw otherwise; then the terminal events are sent.
Follow(final) ==
  LET m == Moves(final)
      ok == {c \in DOMAIN m : row[c] = m[c].from}
      ends == {c \in DOMAIN m : m[c].to \in Outcomes} IN
  /\ row' = [c \in Calls |-> IF c \in ok THEN m[c].to ELSE row[c]]
  /\ thrown' = thrown \cup (DOMAIN m \ ok)
  /\ told' = [c \in Calls |-> IF c \in ends THEN m[c].to ELSE told[c]]
  /\ stage' = [c \in Calls |-> IF Started(c) THEN "workspace"
                               ELSE IF c \in DOMAIN final THEN "none" ELSE stage[c]]
  /\ verdict' = [c \in Calls |-> IF c \in DOMAIN final THEN "none" ELSE verdict[c]]

Nobody == [c \in {} |-> "none"]

-----------------------------------------------------------------------------
(* The HTTP handler.                                                       *)

\* attempt.reserve() or the transaction of idempotency.begin().  A closing server
\* turns new requests away, but not those it has already routed.
Reserve(c) ==
  /\ Ready
  /\ handler[c] = "new"
  /\ handler' = [handler EXCEPT ![c] = "reserved"]
  /\ row' = [row EXCEPT ![c] = "queued"]
  /\ UNCHANGED <<schedVars, opVars, told, cancelling, thrown, procVars>>

\* The first next() starts the invocation: it fails, or takes a reserved row.
Open(c) ==
  /\ Ready
  /\ handler[c] = "reserved"
  /\ \/ /\ handler' = [handler EXCEPT ![c] = "failing"]
        /\ UNCHANGED <<schedVars, opVars, row, told, thrown>>
     \/ /\ row[c] = "queued"
        /\ handler' = [handler EXCEPT ![c] = "open"]
        /\ \E n \in QueueLimits : Sched!Run(c, Target, Limit, n)
        /\ Follow(Nobody)
  /\ UNCHANGED <<cancelling, procVars>>

\* controller.abort(): no abort without a controller, and only the first one
\* has an effect.
AbortOnce(c) ==
  IF Registered(c) /\ c \notin aborted THEN Sched!Abort(c) ELSE UNCHANGED schedVars

\* The client goes away, and the handler leaves, or returns its iterator.
Disconnect(c) ==
  /\ Ready
  /\ handler[c] \in {"reserved", "open"}
  /\ IF handler[c] = "reserved"
       THEN handler' = [handler EXCEPT ![c] = "leaving"] /\ UNCHANGED schedVars
       ELSE handler' = [handler EXCEPT ![c] = "returning"] /\ AbortOnce(c)
  /\ UNCHANGED <<opVars, row, told, cancelling, thrown, procVars>>

\* attempt.complete() after a success, attempt.fail() after anything else; an
\* answer may also fail after the run has completed.
HandlerEnds(c) ==
  /\ Ready
  /\ \/ handler[c] \in {"failing", "leaving"}
     \/ handler[c] = "open" /\ told[c] # "none"
     \/ handler[c] = "returning" /\ ~Registered(c)
  /\ handler' = [handler EXCEPT ![c] = "done"]
  /\ \/ /\ row' = [row EXCEPT ![c] = IF @ \in Unfinished THEN "failed" ELSE @]
     \/ /\ handler[c] = "open" /\ told[c] = "completed"
        /\ row' = [row EXCEPT ![c] = IF @ = "queued" THEN "completed" ELSE @]
  /\ UNCHANGED <<schedVars, opVars, told, cancelling, thrown, procVars>>

-----------------------------------------------------------------------------
(* The queue and the run timer.                                            *)

QueueTimeout(c) ==
  /\ up
  /\ Sched!QueueTimeout(c)
  /\ Follow(Nobody)
  /\ UNCHANGED <<handler, cancelling, procVars>>

AbortListener(c) ==
  /\ up
  /\ Sched!AbortListener(c)
  /\ Follow(Nobody)
  /\ UNCHANGED <<handler, cancelling, procVars>>

RunTimeout(c) ==
  /\ up
  /\ Sched!RunTimeout(c)
  /\ UNCHANGED <<opVars, row, handler, told, cancelling, thrown, procVars>>

-----------------------------------------------------------------------------
(* The running operation.                                                  *)

\* Mutant of FinalStatus: the signal is not looked at after the cleanup.
FinalStatusEarly(c, v) == v

\* What markFinished gets: an abort of the operation's signal wins.
FinalStatus(c, v) ==
  CASE signal[c] = "none"    -> v
    [] signal[c] = "timeout" -> "failed"
    [] signal[c] = "caller"  -> "cancelled"

\* markFinished, then the slot is handed over.
Finish(c, v) ==
  /\ Sched!Finish(c, "resolved")
  /\ Follow([x \in {c} |-> FinalStatus(c, v)])

WorkspaceAcquired(c) ==
  /\ Ready
  /\ stage[c] = "workspace"
  /\ \/ Finish(c, "failed")
     \/ stage' = [stage EXCEPT ![c] = "provider"]
        /\ UNCHANGED <<schedVars, verdict, row, told, thrown>>
  /\ UNCHANGED <<handler, cancelling, procVars>>

\* iterateProvider ends: of itself, or because its signal was aborted.
ProviderEnds(c) ==
  /\ Ready
  /\ stage[c] = "provider"
  /\ stage' = [stage EXCEPT ![c] = "cleanup"]
  /\ verdict' \in {[verdict EXCEPT ![c] = FinalStatus(c, v)] : v \in Outcomes}
  /\ UNCHANGED <<schedVars, row, handler, told, cancelling, thrown, procVars>>

\* Mutant of Released: the cleanup of a cancelled run is not finished.
ReleasedUnlessCancelled(c) ==
  /\ Ready
  /\ stage[c] = "cleanup" /\ verdict[c] # "cancelled"
  /\ Finish(c, verdict[c]) \/ Finish(c, "failed")
  /\ UNCHANGED <<handler, cancelling, procVars>>

\* A failed release fails the run, unless it was cancelled.
Released(c) ==
  /\ Ready
  /\ stage[c] = "cleanup"
  /\ \/ Finish(c, verdict[c])
     \/ verdict[c] # "cancelled" /\ Finish(c, "failed")
  /\ UNCHANGED <<handler, cancelling, procVars>>

-----------------------------------------------------------------------------
(* cancel(), abortActive() and the process.                                *)

\* A waiting call is rejected and then its controller aborted, to no effect.
Cancel(c) ==
  /\ Ready
  /\ Registered(c) /\ row[c] \in Unfinished
  /\ cancelling[c] = "none"
  /\ cancelling' = [cancelling EXCEPT ![c] = "asked"]
  /\ \/ pc[c] = "queued" /\ Sched!CancelQueued(c) /\ Follow(Nobody)
     \/ pc[c] = "running" /\ AbortOnce(c) /\ UNCHANGED <<row, told, thrown, opVars>>
  /\ UNCHANGED <<handler, procVars>>

CancelAnswered(c) ==
  /\ Ready
  /\ cancelling[c] = "asked" /\ ~Registered(c)
  /\ cancelling' = [cancelling EXCEPT ![c] = "true"]
  /\ UNCHANGED <<schedVars, opVars, row, handler, told, thrown, procVars>>

\* preClose: cancel() of every registered run, in one go: the queue is emptied
\* before any running operation can settle.  Runs may still be started afterwards.
AbortActive ==
  LET waiting == {c \in Calls : pc[c] = "queued"}
      running == {c \in Calls : pc[c] = "running"} IN
  /\ Ready /\ ~closing
  /\ closing' = TRUE
  /\ awaited' = waiting \cup running
  /\ pc' = [c \in Calls |-> IF c \in waiting THEN "cancelled" ELSE pc[c]]
  /\ queue' = [queue EXCEPT ![Target] = <<>>]
  /\ aborted' = aborted \cup waiting \cup running
  /\ signal' = [c \in Calls |-> IF c \in running /\ signal[c] = "none" THEN "caller" ELSE signal[c]]
  /\ known' = Sched!KeepIfBusy(Target, active[Target], <<>>)
  /\ Follow(Nobody)
  /\ UNCHANGED <<target, timed, dispatching, active, limit, handler, cancelling, up, crashes>>

\* The memory of the process is gone, and the table stays.
Dies ==
  /\ up' = FALSE
  /\ pc' = [c \in Calls |-> IF Registered(c) THEN "rejected" ELSE pc[c]]
  /\ timed' = {} /\ dispatching' = NoCall /\ known' = {}
  /\ active' = [active EXCEPT ![Target] = 0] /\ queue' = [queue EXCEPT ![Target] = <<>>]
  /\ stage' = [c \in Calls |-> "none"]
  /\ handler' = [c \in Calls |-> IF handler[c] = "new" THEN "new" ELSE "done"]
  /\ cancelling' = [c \in Calls |-> IF cancelling[c] = "asked" THEN "none" ELSE cancelling[c]]
  /\ UNCHANGED <<target, aborted, signal, limit, row, told, verdict, thrown, closing, awaited>>

\* The connections of these handlers are still open.
Connected == {"reserved", "open", "failing"}

\* Mutant of Exit: abortActive() does not wait for the runs that it cancels.
ExitUnawaited ==
  /\ Ready /\ closing
  /\ \A c \in Calls : handler[c] \notin Connected
  /\ Dies /\ UNCHANGED crashes

\* The runs of the snapshot are waited for, and server.close() waits for connections:
\* not for the handler of a client that has left, nor for an administrator who has.
\* Then the database is closed and the process ends, whatever still runs in it.
Exit ==
  /\ Ready /\ closing
  /\ \A c \in awaited : ~Registered(c)
  /\ \A c \in Calls : handler[c] \notin Connected
  /\ Dies /\ UNCHANGED crashes

Crash ==
  /\ up /\ crashes < MaxCrashes
  /\ crashes' = crashes + 1
  /\ Dies

\* Mutant of Restart: only running rows are interrupted.
RestartRunningOnly ==
  /\ ~up
  /\ up' = TRUE /\ closing' = FALSE /\ awaited' = {}
  /\ row' = [c \in Calls |-> IF row[c] = "running" THEN "interrupted" ELSE row[c]]
  /\ UNCHANGED <<schedVars, opVars, handler, told, cancelling, thrown, crashes>>

\* interruptUnfinished() before the server listens.
Restart ==
  /\ ~up
  /\ up' = TRUE /\ closing' = FALSE /\ awaited' = {}
  /\ row' = [c \in Calls |-> IF row[c] \in Unfinished THEN "interrupted" ELSE row[c]]
  /\ UNCHANGED <<schedVars, opVars, handler, told, cancelling, thrown, crashes>>

-----------------------------------------------------------------------------
Handler(c)   == Reserve(c) \/ Open(c) \/ Disconnect(c) \/ HandlerEnds(c)
Timers(c)    == QueueTimeout(c) \/ RunTimeout(c)
Operation(c) == WorkspaceAcquired(c) \/ ProviderEnds(c) \/ Released(c)
Canceller(c) == Cancel(c) \/ CancelAnswered(c)

Next ==
  \/ \E c \in Calls : Handler(c) \/ Timers(c) \/ AbortListener(c) \/ Operation(c) \/ Canceller(c)
  \/ AbortActive \/ Exit \/ Crash \/ Restart

Spec == Init /\ [][Next]_vars

\* Timers fire, listeners run, the file system answers, an aborted provider
\* iteration ends, a handler goes on, and a process that is down is started
\* again.  A provider that is not aborted may run for ever, and nobody has to
\* send a request, disconnect, cancel, or stop the process.
Fairness ==
  /\ \A c \in Calls :
       /\ WF_vars(QueueTimeout(c)) /\ WF_vars(AbortListener(c))
       /\ WF_vars(WorkspaceAcquired(c)) /\ WF_vars(Released(c))
       /\ WF_vars(signal[c] # "none" /\ ProviderEnds(c))
       /\ WF_vars(Open(c)) /\ WF_vars(HandlerEnds(c)) /\ WF_vars(CancelAnswered(c))
  /\ WF_vars(Restart)

FairSpec == Spec /\ Fairness

-----------------------------------------------------------------------------
(* Properties.                                                             *)

\* Types of the variables this module adds to the scheduler's.
TypeOK ==
  /\ row \in [Calls -> {"absent", "interrupted"} \cup Unfinished \cup Outcomes]
  /\ handler \in [Calls -> {"new", "reserved", "open", "failing", "leaving", "returning", "done"}]
  /\ stage \in [Calls -> {"none", "workspace", "provider", "cleanup"}]
  /\ verdict \in [Calls -> {"none"} \cup Outcomes]
  /\ told \in [Calls -> {"none"} \cup Outcomes]
  /\ cancelling \in [Calls -> {"none", "asked", "true"}]
  /\ thrown \subseteq Calls
  /\ up \in BOOLEAN /\ closing \in BOOLEAN /\ awaited \subseteq Calls
  /\ crashes \in 0..MaxCrashes

\* The table and the memory agree while the process is up: a row is running
\* exactly while its call holds a slot, and queued exactly while its call waits
\* for one or its handler has not yet started or failed it; and no two of the
\* handler, the operation, the scheduler's rejections and a restart ever race to
\* change a row: invalid_run_transition is never thrown.
RowsAgree ==
  /\ TypeOK
  /\ thrown = {}
  /\ up => \A c \in Calls :
       /\ row[c] = "running" <=> pc[c] = "running"
       /\ row[c] = "queued" <=> pc[c] = "queued" \/ handler[c] \in {"reserved", "failing", "leaving"}

\* An administrator who was told "cancelled: true" finds the run ended by that
\* cancel, unless its own timer had aborted it first; never completed.
CancelIsHonest ==
  \A c \in Calls : cancelling[c] = "true" =>
    row[c] = "cancelled" \/ (row[c] = "failed" /\ signal[c] = "timeout")

\* A graceful stop leaves an unfinished row only of a run that was not active when
\* abortActive() took its snapshot: one that was reserved but not begun, or that a
\* request already routed began afterwards; only of a client that has left; and
\* nobody was told an outcome of it.  (The next start interrupts it: RowsAgree.)
GracefulExit ==
  [][up /\ ~up' /\ crashes' = crashes =>
       \A c \in Calls : row[c] \in Unfinished =>
         /\ c \notin awaited
         /\ handler[c] \in {"leaving", "returning"}
         /\ told[c] = "none"]_vars

\* Rows and the outcomes clients are told follow RunLifecycle: forward only, one
\* end, never two answers, never more running rows than slots; and a graceful stop
\* waits for every run that was active when it began.
Lifecycle == INSTANCE RunLifecycle WITH Runs <- Calls, Capacity <- Limit
KeepsLifecycle == Lifecycle!Spec /\ GracefulExit

\* An aborted run (timer, disconnect, cancel or shutdown) ends, and gives its
\* slot back.
AbortedRunEnds ==
  \A c \in Calls : row[c] = "running" /\ signal[c] # "none" ~> row[c] # "running"
=============================================================================

----------------------------- MODULE Scheduler -----------------------------
(***************************************************************************)
(* TargetScheduler (src/provider-runtime/scheduler.ts): admission control  *)
(* for provider runs.  Every target has at most maxConcurrency running     *)
(* operations and a FIFO queue of at most maxQueue waiting calls; a        *)
(* waiting call leaves the queue when it starts, when its queue timer      *)
(* fires, when its caller aborts, or when its run id is cancelled.         *)
(*                                                                         *)
(* JavaScript runs a handler to completion, so every handler is one        *)
(* action.  The one window that is not atomic is the dispatch of an abort  *)
(* event: the flag is set first and the listeners run one after another,   *)
(* and a listener of the caller may call back into run() or cancelQueued() *)
(* before the scheduler's own listener sees the event (dispatching).       *)
(***************************************************************************)
EXTENDS Naturals, Sequences, FiniteSets

CONSTANTS
  Calls,        \* the calls of run(); each is a QueueEntry while it waits
  Targets,      \* target ids
  RunIds,       \* run ids; a run id may be passed by several calls
  RunId,        \* the run id each call passes
  Limits,       \* values maxConcurrency takes as the target is edited
  QueueLimits,  \* values maxQueue takes
  NoCall        \* "no abort event is being dispatched"

ASSUME SchedulerAssumption ==
  /\ IsFiniteSet(Calls)
  /\ RunId \in [Calls -> RunIds]
  /\ Limits \subseteq Nat \ {0}
  /\ QueueLimits \subseteq Nat
  /\ NoCall \notin Calls

VARIABLES
  pc,           \* where each call is: its promise is pending iff waiting or running
  target,       \* the target a call was made for (meaningless while "new")
  timed,        \* the calls whose run timer is armed
  aborted,      \* the calls whose caller signal is aborted
  signal,       \* the abort reason of the signal composed for a running operation
  dispatching,  \* the call whose abort event is being dispatched, or NoCall
  known,        \* the targets with an entry in the states map
  active,       \* state.active
  limit,        \* state.maxConcurrency, as the latest run() set it
  queue         \* state.queue

callVars  == <<pc, target, timed, aborted, signal, dispatching>>
stateVars == <<known, active, limit, queue>>
vars      == <<callVars, stateVars>>

Settled == {"resolved", "rejected", "queue_full", "queue_timeout", "abort_rejected", "cancelled"}
Places  == {"new", "queued", "running"} \cup Settled
Reasons == {"none", "caller", "timeout"}

TypeOK ==
  /\ pc \in [Calls -> Places]
  /\ target \in [Calls -> Targets]
  /\ timed \in SUBSET Calls
  /\ aborted \in SUBSET Calls
  /\ signal \in [Calls -> Reasons]
  /\ dispatching \in Calls \cup {NoCall}
  /\ known \in SUBSET Targets
  /\ active \in [Targets -> Nat]
  /\ limit \in [Targets -> Nat]
  /\ queue \in [Targets -> Seq(Calls)]

Init ==
  /\ pc = [c \in Calls |-> "new"]
  /\ target \in [Calls -> Targets]
  /\ timed = {}
  /\ aborted = {}
  /\ signal = [c \in Calls |-> "none"]
  /\ dispatching = NoCall
  /\ known = {}
  /\ active = [t \in Targets |-> 0]
  /\ limit = [t \in Targets |-> 0]
  /\ queue = [t \in Targets |-> <<>>]

-----------------------------------------------------------------------------
(* The drain loop.                                                         *)

Entries(q) == {q[i] : i \in 1..Len(q)}

\* Splicing entries out keeps the order of the others: the n-th of what is
\* left stands at the n-th kept index.
Drop(q, gone) ==
  LET kept == {i \in 1..Len(q) : q[i] \notin gone}
      Nth(n) == CHOOSE i \in kept : Cardinality({j \in kept : j <= i}) = n
  IN  [n \in 1..Cardinality(kept) |-> q[Nth(n)]]

\* The entries among the first k of q that the loop starts (the others were
\* aborted and are rejected).
Startable(q, k) == {i \in 1..k : q[i] \notin aborted}

\* Mutant of DrainStops: the while condition is active <= maxConcurrency.
DrainStopsLate(q, a, m) ==
  {k \in 0..Len(q) : k = Len(q) \/ a + Cardinality(Startable(q, k)) > m}

\* The prefixes of q after which the while condition is false.
DrainStops(q, a, m) ==
  {k \in 0..Len(q) : k = Len(q) \/ a + Cardinality(Startable(q, k)) >= m}

\* How many entries the loop shifts off: the shortest such prefix.
DrainLen(q, a, m) ==
  CHOOSE k \in DrainStops(q, a, m) : \A j \in DrainStops(q, a, m) : k <= j

\* Mutant of Drained: the loop pops the youngest entry instead of shifting.
DrainedFromTheBack(q, a, m) ==
  LET k == DrainLen(q, a, m)
      n == Len(q) - k
      back == {i \in n+1..Len(q) : q[i] \notin aborted} IN
  [active   |-> a + Cardinality(back),
   queue    |-> SubSeq(q, 1, n),
   started  |-> {q[i] : i \in back},
   rejected |-> {q[i] : i \in (n+1..Len(q)) \ back}]

\* What drain() leaves of a target's state {active, queue}, and the calls it
\* starts and rejects.
Drained(q, a, m) ==
  LET k == DrainLen(q, a, m) IN
  [active   |-> a + Cardinality(Startable(q, k)),
   queue    |-> SubSeq(q, k + 1, Len(q)),
   started  |-> {q[i] : i \in Startable(q, k)},
   rejected |-> {q[i] : i \in (1..k) \ Startable(q, k)}]

\* deleteIfIdle: the map forgets a target with nothing running or waiting.
\* The closures of other calls cannot hold a forgotten state: it has none.
KeepIfBusy(t, a, q) == IF a = 0 /\ q = <<>> THEN known \ {t} ELSE known \cup {t}

\* The timer of a started operation is armed when its target has a run timeout.
ArmTimers(started, cleared) ==
  \E armed \in SUBSET started : timed' = (timed \ cleared) \cup armed

\* Where the calls are after a drain, with the outcome of the call at hand.
Settle(c, place, d) ==
  pc' = [x \in Calls |-> IF x = c THEN place
                         ELSE IF x \in d.started THEN "running"
                         ELSE IF x \in d.rejected THEN "abort_rejected"
                         ELSE pc[x]]

-----------------------------------------------------------------------------
(* run(runId, target, signal, operation)                                   *)

\* The state after the call's drain, with the call's outcome added.
Admit(c, t, d, place) ==
  /\ target' = [target EXCEPT ![c] = t]
  /\ Settle(c, place, d)
  /\ ArmTimers(d.started \cup (IF place = "running" THEN {c} ELSE {}), {})
  /\ active' = [active EXCEPT ![t] = d.active + IF place = "running" THEN 1 ELSE 0]
  /\ queue' = [queue EXCEPT ![t] = IF place = "queued" THEN Append(d.queue, c) ELSE d.queue]
  /\ known' = KeepIfBusy(t, active'[t], queue'[t])

\* The latest limit is applied to queued work before the new call can use
\* capacity; then the call is rejected, started, turned away or queued.
Run(c, t, m, maxQueue) ==
  LET d == Drained(queue[t], active[t], m) IN
  /\ pc[c] = "new"
  /\ limit' = [limit EXCEPT ![t] = m]
  /\ \/ c \in aborted /\ Admit(c, t, d, "abort_rejected")
     \/ c \notin aborted /\ d.active < m /\ Admit(c, t, d, "running")
     \/ c \notin aborted /\ d.active >= m /\ Len(d.queue) >= maxQueue
        /\ Admit(c, t, d, "queue_full")
     \/ c \notin aborted /\ d.active >= m /\ Len(d.queue) < maxQueue
        /\ Admit(c, t, d, "queued")
  /\ UNCHANGED <<aborted, signal, dispatching>>

-----------------------------------------------------------------------------
(* Leaving the queue without starting.                                     *)

\* Mutant of Evict: the entry is rejected but stays in the queue.
EvictLeavesEntry(c, place) ==
  /\ pc' = [pc EXCEPT ![c] = place]
  /\ UNCHANGED <<queue, known>>

\* removeQueued, disposeQueued, reject, deleteIfIdle.
Evict(c, place) ==
  LET t == target[c] IN
  /\ pc' = [pc EXCEPT ![c] = place]
  /\ queue' = [queue EXCEPT ![t] = Drop(queue[t], {c})]
  /\ known' = KeepIfBusy(t, active[t], queue'[t])

\* Mutant of QueueTimeout: the timer only rejects when no operation is running.
QueueTimeoutIfIdle(c) ==
  /\ dispatching = NoCall
  /\ pc[c] = "queued"
  /\ active[target[c]] = 0
  /\ Evict(c, "queue_timeout")
  /\ UNCHANGED <<target, timed, aborted, signal, dispatching, active, limit>>

\* The timer armed when the call was queued fires.
QueueTimeout(c) ==
  /\ dispatching = NoCall
  /\ pc[c] = "queued"
  /\ Evict(c, "queue_timeout")
  /\ UNCHANGED <<target, timed, aborted, signal, dispatching, active, limit>>

\* cancelQueued(runId): every waiting call with this run id, on every target.
CancelQueued(id) ==
  LET gone == {c \in Calls : pc[c] = "queued" /\ RunId[c] = id} IN
  /\ pc' = [c \in Calls |-> IF c \in gone THEN "cancelled" ELSE pc[c]]
  /\ queue' = [t \in Targets |-> Drop(queue[t], gone)]
  /\ known' = {t \in known : active[t] # 0 \/ queue'[t] # <<>>}
  /\ UNCHANGED <<target, timed, aborted, signal, dispatching, active, limit>>

-----------------------------------------------------------------------------
(* Abort and timeout.                                                      *)

\* The caller aborts its signal.  A call that waits or runs has a listener
\* on it, which runs in a step of its own.
Abort(c) ==
  /\ dispatching = NoCall
  /\ c \notin aborted
  /\ pc[c] \in {"new", "queued", "running"}
  /\ aborted' = aborted \cup {c}
  /\ dispatching' = IF pc[c] = "new" THEN NoCall ELSE c
  /\ UNCHANGED <<pc, target, timed, signal, stateVars>>

\* The composed signal keeps the first reason it was aborted with.
FirstReason(c, reason) ==
  signal' = IF signal[c] = "none" THEN [signal EXCEPT ![c] = reason] ELSE signal

\* entry.onAbort for a waiting call, onCallerAbort for a running one; nothing
\* if a drain inside the dispatch already rejected the call.
AbortListener(c) ==
  /\ dispatching = c
  /\ dispatching' = NoCall
  /\ \/ pc[c] = "queued" /\ Evict(c, "abort_rejected") /\ UNCHANGED signal
     \/ pc[c] = "running" /\ FirstReason(c, "caller") /\ UNCHANGED <<pc, queue, known>>
     \/ pc[c] \in Settled /\ UNCHANGED <<pc, queue, known, signal>>
  /\ UNCHANGED <<target, timed, aborted, active, limit>>

\* The run timer fires while the operation is running.
RunTimeout(c) ==
  /\ dispatching = NoCall
  /\ c \in timed
  /\ timed' = timed \ {c}
  /\ FirstReason(c, "timeout")
  /\ UNCHANGED <<pc, target, aborted, dispatching, stateVars>>

-----------------------------------------------------------------------------
(* finish(): the operation's promise settles, the slot is handed over.     *)

Finish(c, place) ==
  LET t == target[c]
      d == Drained(queue[t], active[t] - 1, limit[t]) IN
  /\ dispatching = NoCall
  /\ pc[c] = "running"
  /\ Settle(c, place, d)
  /\ ArmTimers(d.started, {c})
  /\ active' = [active EXCEPT ![t] = d.active]
  /\ queue' = [queue EXCEPT ![t] = d.queue]
  /\ known' = KeepIfBusy(t, d.active, d.queue)
  /\ UNCHANGED <<target, aborted, signal, dispatching, limit>>

Next ==
  \/ \E c \in Calls, t \in Targets, m \in Limits, n \in QueueLimits : Run(c, t, m, n)
  \/ \E c \in Calls : QueueTimeout(c)
  \/ \E id \in RunIds : CancelQueued(id)
  \/ \E c \in Calls : Abort(c)
  \/ \E c \in Calls : AbortListener(c)
  \/ \E c \in Calls : RunTimeout(c)
  \/ \E c \in Calls, place \in {"resolved", "rejected"} : Finish(c, place)

Spec == Init /\ [][Next]_vars

\* Timers fire and event listeners run; nothing is assumed of the operations,
\* which may never settle, nor of the callers.
Fairness == \A c \in Calls : WF_vars(QueueTimeout(c)) /\ WF_vars(AbortListener(c))

FairSpec == Spec /\ Fairness

-----------------------------------------------------------------------------
(* Properties.                                                             *)

Waiting(t) == {c \in Calls : pc[c] = "queued" /\ target[c] = t}
Running(t) == {c \in Calls : pc[c] = "running" /\ target[c] = t}

\* The slot counter is exact: state.active is the number of operations in
\* flight on the target, whatever mix of aborts, timeouts and drains happened.
ActiveIsExact == \A t \in Targets : active[t] = Cardinality(Running(t))

\* The queue holds exactly the calls whose promise still waits, each once, and
\* only on the target they were made for: no call is lost or settled twice.
QueueIsExact ==
  \A t \in Targets : Entries(queue[t]) = Waiting(t) /\ Len(queue[t]) = Cardinality(Waiting(t))

\* No slot is left free while somebody waits: run() and finish() drain far
\* enough under the limit in force.
WorkConserving == \A t \in Targets : queue[t] # <<>> => active[t] >= limit[t]

\* deleteIfIdle is called wherever a state can become idle: the map keeps
\* exactly the targets that have running or waiting calls.
NoIdleState == \A t \in Targets : t \in known <=> (active[t] > 0 \/ queue[t] # <<>>)

\* The books of every target are right, whatever mix of aborts, timeouts, drains and
\* changed limits happened: typed variables, the counter, the queue, the map of
\* states, and no slot free while somebody waits for it.
BooksAreExact == TypeOK /\ ActiveIsExact /\ QueueIsExact /\ NoIdleState /\ WorkConserving

\* A step that takes slots never takes them beyond the limit in force; after
\* the limit was lowered, running calls drain away but none is added.
NeverOverAdmits ==
  [][\A t \in Targets : active'[t] > active[t] => active'[t] <= limit'[t]]_vars

\* First come, first served: a waiting call starts only when nobody ahead of
\* it in its queue is left waiting, and a call that has just arrived never
\* overtakes the calls that wait, even under a limit it has raised itself.  And an
\* operation never starts for a caller that had already given up, even when the
\* abort event is still being dispatched while a reentrant run() drains.
InOrder ==
  [][/\ \A t \in Targets : \A i, j \in 1..Len(queue[t]) :
          i < j /\ pc'[queue[t][j]] = "running" => pc'[queue[t][i]] # "queued"
     /\ \A c \in Calls : pc[c] # "running" /\ pc'[c] = "running" =>
          /\ pc[c] = "new" => queue'[target'[c]] = <<>>
          /\ c \notin aborted']_vars

\* A call never waits for ever, even if no running operation ever settles.
QueuedLeaves == \A c \in Calls : pc[c] = "queued" ~> pc[c] # "queued"
=============================================================================

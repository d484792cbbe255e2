-------------------------- MODULE InvocationProofs --------------------------
(***************************************************************************)
(* Proofs about Invocation, for any calls, limits and number of crashes:   *)
(* the rows and the memory agree, a cancel that was confirmed has ended    *)
(* the run, and rows and answers follow RunLifecycle.  What the scheduler  *)
(* does is taken from SchedulerProofs, of the same instance.               *)
(***************************************************************************)
EXTENDS Invocation, TLAPS

Books == INSTANCE SchedulerProofs WITH
  Targets <- {Target}, RunIds <- Calls, RunId <- [c \in Calls |-> c],
  Limits <- {Limit}

-----------------------------------------------------------------------------
(* The invariant.                                                          *)

\* No more than Limit run, whatever limit the scheduler has been told.
WithinCapacity == active[Target] <= Limit /\ limit[Target] \in {0, Limit}

\* Where the handler of a call is, and what the scheduler and the table know then.
Begun(c) ==
  /\ handler[c] = "new" => pc[c] = "new" /\ row[c] = "absent"
  /\ handler[c] \in {"reserved", "failing", "leaving"} => up /\ pc[c] = "new" /\ row[c] = "queued"
  /\ handler[c] \in {"open", "returning"} => up /\ pc[c] # "new"
  /\ handler[c] = "done" => ~Registered(c) /\ (up => row[c] \notin Unfinished)

\* A registered call has an open handler, the row of its place, and no answer yet; one
\* that is over has the row that was told.
Going(c) ==
  /\ Registered(c) => handler[c] \in {"open", "returning"} /\ row[c] = pc[c]
  /\ handler[c] \in {"open", "returning"} /\ ~Registered(c) => row[c] \in Outcomes
  /\ told[c] # "none" => pc[c] \notin {"new", "queued", "running"} /\ row[c] = told[c]
  /\ stage[c] = "cleanup" => verdict[c] \in Outcomes

Honest(c) == row[c] = "cancelled" \/ (row[c] = "failed" /\ signal[c] = "timeout")

\* An abort reaches the signal of a running operation, at the latest when its listener
\* has run; so a cancel that waits for a running call will find it aborted.
Ending(c) ==
  /\ pc[c] = "running" /\ c \in aborted /\ dispatching # c => signal[c] # "none"
  /\ cancelling[c] # "none" =>
       IF Registered(c) THEN cancelling[c] = "asked" /\ pc[c] = "running" /\ c \in aborted
                        ELSE Honest(c)

Consistent(c) == Begun(c) /\ Going(c) /\ Ending(c)

\* A run of the snapshot has been opened, so that it is unfinished only while it is registered.
SnapshotOK == \A c \in awaited : handler[c] \in {"open", "returning", "done"}

BooksOK == Books!IInv /\ WithinCapacity

IInv == BooksOK /\ TypeOK /\ thrown = {} /\ \A c \in Calls : Consistent(c)

\* What a step may do to a run, as RunLifecycle has it.
Lives(c) ==
  /\ row'[c] = row[c] \/ row'[c] \in Lifecycle!After(row[c])
  /\ told'[c] = told[c] \/ (told[c] = "none" /\ told'[c] \in Outcomes /\ told'[c] = row'[c])

Keeps == IInv' /\ \A c \in Calls : Lives(c)

-----------------------------------------------------------------------------
(* The scheduler of this module is the one that SchedulerProofs is about.  *)

\* What the proofs of the scheduler assume holds of the constants it is given.
LEMMA SchedulerAssumed == Books!SchedulerAssumption
<1>1. Books!IsFiniteSet(Calls)
  BY InvocationAssumption DEF IsFiniteSet, Books!IsFiniteSet
<1> QED
  BY <1>1, InvocationAssumption DEF Books!SchedulerAssumption

\* The scheduler's run() is the one of its proofs.
LEMMA SameRun ==
  ASSUME NEW c \in Calls, NEW n \in QueueLimits, Sched!Run(c, Target, Limit, n)
  PROVE  Books!Run(c, Target, Limit, n)
BY DEF Sched!Run, Sched!Drained, Sched!DrainLen, Sched!DrainStops, Sched!Startable, Sched!Admit,
   Sched!Settle, Sched!KeepIfBusy, Sched!ArmTimers, Sched!Cardinality,
   Books!Run, Books!Drained, Books!DrainLen, Books!DrainStops, Books!Startable, Books!Admit,
   Books!Settle, Books!KeepIfBusy, Books!ArmTimers, Books!Cardinality

\* The scheduler's finish() is the one of its proofs.
LEMMA SameFinish ==
  ASSUME NEW c \in Calls, Sched!Finish(c, "resolved")
  PROVE  Books!Finish(c, "resolved")
BY DEF Sched!Finish, Sched!Drained, Sched!DrainLen, Sched!DrainStops, Sched!Startable,
   Sched!Settle, Sched!KeepIfBusy, Sched!ArmTimers, Sched!Cardinality,
   Books!Finish, Books!Drained, Books!DrainLen, Books!DrainStops, Books!Startable,
   Books!Settle, Books!KeepIfBusy, Books!ArmTimers, Books!Cardinality

\* The removal of a waiting call is the one of the scheduler's proofs.
LEMMA SameEvict ==
  ASSUME NEW c \in Calls, NEW place, Sched!Evict(c, place)
  PROVE  Books!Evict(c, place)
BY DEF Sched!Evict, Sched!Drop, Sched!KeepIfBusy, Sched!Cardinality,
   Books!Evict, Books!Drop, Books!KeepIfBusy, Books!Cardinality

\* The queue's timer is the one of the scheduler's proofs.
LEMMA SameQueueTimeout ==
  ASSUME NEW c \in Calls, Sched!QueueTimeout(c)
  PROVE  Books!QueueTimeout(c)
BY SameEvict DEF Sched!QueueTimeout, Books!QueueTimeout

\* The abort listener is the one of the scheduler's proofs.
LEMMA SameAbortListener ==
  ASSUME NEW c \in Calls, Sched!AbortListener(c)
  PROVE  Books!AbortListener(c)
BY SameEvict DEF Sched!AbortListener, Sched!FirstReason, Sched!Settled,
   Books!AbortListener, Books!FirstReason, Books!Settled

\* cancelQueued() is the one of the scheduler's proofs.
LEMMA SameCancelQueued ==
  ASSUME NEW c \in Calls, Sched!CancelQueued(c)
  PROVE  Books!CancelQueued(c)
BY DEF Sched!CancelQueued, Sched!Drop, Sched!Cardinality,
   Books!CancelQueued, Books!Drop, Books!Cardinality

\* Aborts and the run timer are those of the scheduler's proofs.
LEMMA SameSignals ==
  ASSUME NEW c \in Calls
  PROVE  /\ Sched!Abort(c) => Books!Abort(c)
         /\ Sched!RunTimeout(c) => Books!RunTimeout(c)
BY DEF Sched!Abort, Sched!RunTimeout, Sched!FirstReason, Sched!stateVars,
   Books!Abort, Books!RunTimeout, Books!FirstReason, Books!stateVars

\* Every step of the scheduler keeps its books, and never starts more than Limit.
LEMMA BooksKept ==
  ASSUME BooksOK, Books!Next \/ UNCHANGED schedVars, limit'[Target] \in {limit[Target], Limit}
  PROVE  BooksOK'
<1>1. [Books!Next]_(Books!vars)
  BY DEF schedVars, Books!vars, Books!callVars, Books!stateVars
<1>2. Books!IInv'
  BY <1>1, SchedulerAssumed, Books!NextIInv DEF BooksOK
<1>3. active'[Target] > active[Target] => active'[Target] <= limit'[Target]
  BY <1>1, SchedulerAssumed, Books!StepAdmitsWithinLimit DEF BooksOK
<1>4. active[Target] \in Nat /\ active'[Target] \in Nat
  BY <1>2 DEF BooksOK, Books!IInv, Books!TypeOK
<1> QED
  BY <1>2, <1>3, <1>4, InvocationAssumption DEF BooksOK, WithinCapacity

\* The types of the scheduler's variables.
LEMMA BookTypes ==
  ASSUME BooksOK
  PROVE  /\ pc \in [Calls -> {"new", "queued", "running", "resolved", "rejected", "queue_full",
                              "queue_timeout", "abort_rejected", "cancelled"}]
         /\ target \in [Calls -> {Target}] /\ timed \in SUBSET Calls /\ aborted \in SUBSET Calls
         /\ signal \in [Calls -> {"none", "caller", "timeout"}]
         /\ dispatching \in Calls \cup {NoCall} /\ limit \in [{Target} -> Nat]
         /\ active \in [{Target} -> Nat] /\ known \in SUBSET {Target}
BY DEF BooksOK, Books!IInv, Books!TypeOK, Books!Places, Books!Settled, Books!Reasons

-----------------------------------------------------------------------------
(* What a step does to the rows.                                           *)

\* A process that has just been started, with an empty table.
LEMMA InitOK == Init => IInv
<1> SUFFICES ASSUME Init PROVE IInv
  OBVIOUS
<1>1. BooksOK
  <2>1. Books!Init
    BY DEF Init, Sched!Init, Books!Init
  <2>2. Books!IInv
    BY <2>1, SchedulerAssumed, Books!InitIInv
  <2> QED
    BY <2>2, InvocationAssumption DEF BooksOK, WithinCapacity, Init, Sched!Init
<1>2. TypeOK /\ thrown = {}
  <2>1. crashes \in 0..MaxCrashes
    BY InvocationAssumption DEF Init
  <2>2. /\ row \in [Calls -> {"absent", "interrupted"} \cup Unfinished \cup Outcomes]
        /\ handler \in [Calls -> {"new", "reserved", "open", "failing", "leaving", "returning", "done"}]
        /\ stage \in [Calls -> {"none", "workspace", "provider", "cleanup"}]
        /\ verdict \in [Calls -> {"none"} \cup Outcomes]
        /\ told \in [Calls -> {"none"} \cup Outcomes]
        /\ cancelling \in [Calls -> {"none", "asked", "true"}]
    BY DEF Init
  <2> QED
    BY <2>1, <2>2 DEF Init, TypeOK
<1>3. ASSUME NEW c \in Calls PROVE Consistent(c)
  <2>1. pc[c] = "new"
    BY DEF Init, Sched!Init
  <2> QED
    BY <2>1 DEF Init, Consistent, Begun, Going, Ending, Registered, Unfinished
<1> QED
  BY <1>1, <1>2, <1>3 DEF IInv

\* The row of everyone who is started, turned away or finished was the one it had to
\* be, so that no transition throws, and each is told what its row says.
LEMMA Followed ==
  ASSUME NEW final, DOMAIN final \subseteq Calls, Follow(final), TypeOK,
         \A x \in Calls : Started(x) \/ TurnedAway(x) => x \notin DOMAIN final /\ row[x] = "queued",
         \A x \in DOMAIN final : row[x] = "running" /\ final[x] \in Outcomes
  PROVE  /\ thrown' = thrown
         /\ row' \in [Calls -> {"absent", "interrupted"} \cup Unfinished \cup Outcomes]
         /\ told' \in [Calls -> {"none"} \cup Outcomes]
         /\ stage' \in [Calls -> {"none", "workspace", "provider", "cleanup"}]
         /\ verdict' \in [Calls -> {"none"} \cup Outcomes]
         /\ \A x \in Calls \ DOMAIN final :
              /\ Started(x) => row'[x] = "running" /\ told'[x] = told[x] /\ stage'[x] = "workspace"
              /\ TurnedAway(x) =>
                   /\ row'[x] = IF pc'[x] \in {"queue_full", "queue_timeout"} THEN "failed"
                                ELSE "cancelled"
                   /\ told'[x] = row'[x] /\ stage'[x] = stage[x]
              /\ ~Started(x) /\ ~TurnedAway(x) =>
                   row'[x] = row[x] /\ told'[x] = told[x] /\ stage'[x] = stage[x]
              /\ verdict'[x] = verdict[x]
         /\ \A x \in DOMAIN final :
              row'[x] = final[x] /\ told'[x] = final[x] /\ stage'[x] = "none"
<1> DEFINE m == Moves(final)
           ok == {c \in DOMAIN m : row[c] = m[c].from}
           ends == {c \in DOMAIN m : m[c].to \in Outcomes}
<1>1. /\ row' = [c \in Calls |-> IF c \in ok THEN m[c].to ELSE row[c]]
      /\ thrown' = thrown \cup (DOMAIN m \ ok)
      /\ told' = [c \in Calls |-> IF c \in ends THEN m[c].to ELSE told[c]]
      /\ stage' = [c \in Calls |-> IF Started(c) THEN "workspace"
                                   ELSE IF c \in DOMAIN final THEN "none" ELSE stage[c]]
      /\ verdict' = [c \in Calls |-> IF c \in DOMAIN final THEN "none" ELSE verdict[c]]
  BY DEF Follow
<1>2. DOMAIN m = {x \in Calls : Started(x) \/ TurnedAway(x)} \cup DOMAIN final
  BY DEF Moves
<1>3. \A x \in DOMAIN final : m[x] = [from |-> "running", to |-> final[x]]
  BY <1>2 DEF Moves
<1>4. \A x \in DOMAIN m \ DOMAIN final :
        m[x] = [from |-> "queued",
                to   |-> IF Started(x) THEN "running"
                         ELSE IF pc'[x] \in {"queue_full", "queue_timeout"} THEN "failed"
                         ELSE "cancelled"]
  BY DEF Moves
<1> HIDE DEF m
<1>5. ASSUME NEW x \in DOMAIN final PROVE m[x].from = "running" /\ m[x].to = final[x]
  <2> DEFINE f == final[x]
  <2>1. m[x] = [from |-> "running", to |-> f]
    BY <1>3
  <2> HIDE DEF f
  <2>2. m[x].from = "running" /\ m[x].to = f
    BY <2>1
  <2> QED
    BY <2>2 DEF f
<1>6. \A x \in DOMAIN m \ DOMAIN final :
        /\ m[x].from = "queued"
        /\ m[x].to = IF Started(x) THEN "running"
                     ELSE IF pc'[x] \in {"queue_full", "queue_timeout"} THEN "failed"
                     ELSE "cancelled"
  BY <1>4
<1>7. ok = DOMAIN m
  BY <1>2, <1>5, <1>6
<1>8. \A x \in Calls : ~(Started(x) /\ TurnedAway(x))
  BY DEF Started, TurnedAway, Sched!Settled
<1>9. ends = {x \in Calls : TurnedAway(x)} \cup DOMAIN final
  BY <1>2, <1>5, <1>6, <1>8 DEF Outcomes
<1>10. \A x \in Calls \ DOMAIN final :
         /\ Started(x) => row'[x] = "running" /\ told'[x] = told[x] /\ stage'[x] = "workspace"
         /\ TurnedAway(x) =>
              /\ row'[x] = IF pc'[x] \in {"queue_full", "queue_timeout"} THEN "failed"
                           ELSE "cancelled"
              /\ told'[x] = row'[x] /\ stage'[x] = stage[x]
         /\ ~Started(x) /\ ~TurnedAway(x) =>
              row'[x] = row[x] /\ told'[x] = told[x] /\ stage'[x] = stage[x]
         /\ verdict'[x] = verdict[x]
  BY <1>1, <1>2, <1>6, <1>7, <1>8, <1>9
<1>11. \A x \in DOMAIN final :
         row'[x] = final[x] /\ told'[x] = final[x] /\ stage'[x] = "none" /\ verdict'[x] = "none"
  BY <1>1, <1>2, <1>5, <1>7, <1>9
<1>12. /\ row' \in [Calls -> {"absent", "interrupted"} \cup Unfinished \cup Outcomes]
       /\ told' \in [Calls -> {"none"} \cup Outcomes]
       /\ stage' \in [Calls -> {"none", "workspace", "provider", "cleanup"}]
       /\ verdict' \in [Calls -> {"none"} \cup Outcomes]
  <2>1. \A x \in Calls : row'[x] \in {"absent", "interrupted"} \cup Unfinished \cup Outcomes
    BY <1>10, <1>11 DEF TypeOK, Unfinished, Outcomes
  <2>2. \A x \in Calls : told'[x] \in {"none"} \cup Outcomes
    BY <1>10, <1>11 DEF TypeOK, Outcomes
  <2>3. \A x \in Calls : stage'[x] \in {"none", "workspace", "provider", "cleanup"}
    BY <1>10, <1>11 DEF TypeOK
  <2>4. \A x \in Calls : verdict'[x] \in {"none"} \cup Outcomes
    BY <1>10, <1>11 DEF TypeOK
  <2> QED
    BY <1>1, <2>1, <2>2, <2>3, <2>4
<1>13. thrown' = thrown
  BY <1>1, <1>7
<1> QED
  BY <1>10, <1>11, <1>12, <1>13

\* A call that the step at hand is not about: nothing happens to it, or it waited and
\* a drain starts it, or turns it away.
Bystander(x) ==
  /\ handler'[x] = handler[x] /\ cancelling'[x] = cancelling[x] /\ signal'[x] = signal[x]
  /\ x \in aborted' <=> x \in aborted
  /\ verdict'[x] = verdict[x]
  /\ dispatching # x \/ signal[x] # "none" \/ pc'[x] # "running"
  /\ \/ pc'[x] = pc[x] /\ row'[x] = row[x] /\ told'[x] = told[x] /\ stage'[x] = stage[x]
     \/ /\ pc[x] = "queued" /\ pc'[x] = "running" /\ x \notin aborted
        /\ row'[x] = "running" /\ told'[x] = told[x] /\ stage'[x] = "workspace"
     \/ /\ pc[x] = "queued" /\ pc'[x] = "abort_rejected"
        /\ row'[x] = "cancelled" /\ told'[x] = row'[x] /\ stage'[x] = stage[x]

\* A call that is at most admitted or turned away by what another call does stays consistent.
LEMMA BystanderKept ==
  ASSUME NEW x \in Calls, Consistent(x), up, up', Bystander(x)
  PROVE  Consistent(x)' /\ Lives(x)
<1> USE DEF Consistent, Bystander
<1>1. CASE pc'[x] = pc[x] /\ row'[x] = row[x] /\ told'[x] = told[x] /\ stage'[x] = stage[x]
  <2>1. Begun(x)' /\ Going(x)'
    BY <1>1 DEF Begun, Going, Registered
  <2>2. Ending(x)'
    BY <1>1 DEF Ending, Registered, Honest
  <2> QED
    BY <1>1, <2>1, <2>2 DEF Lives
<1>2. CASE /\ pc[x] = "queued" /\ pc'[x] = "running" /\ x \notin aborted
           /\ row'[x] = "running" /\ told'[x] = told[x] /\ stage'[x] = "workspace"
  <2>1. Begun(x)' /\ Going(x)'
    BY <1>2 DEF Begun, Going, Registered
  <2>2. Ending(x)'
    BY <1>2 DEF Ending, Registered
  <2>3. row[x] = "queued"
    BY <1>2 DEF Going, Registered
  <2> QED
    BY <1>2, <2>1, <2>2, <2>3 DEF Lives, Lifecycle!After
<1>3. CASE /\ pc[x] = "queued" /\ pc'[x] = "abort_rejected"
           /\ row'[x] = "cancelled" /\ told'[x] = row'[x] /\ stage'[x] = stage[x]
  <2>1. row[x] = "queued" /\ told[x] = "none" /\ handler[x] \in {"open", "returning"}
    BY <1>3 DEF Going, Registered
  <2>2. Begun(x)' /\ Going(x)'
    BY <1>3, <2>1 DEF Begun, Going, Registered, Outcomes
  <2>3. Ending(x)'
    BY <1>3 DEF Ending, Registered
  <2> QED
    BY <1>3, <2>1, <2>2, <2>3 DEF Lives, Lifecycle!After, Outcomes
<1> QED
  BY <1>1, <1>2, <1>3

\* A step about one call, with all the others standing by.
LEMMA OneCall ==
  ASSUME IInv, NEW c \in Calls, up, up', BooksOK', TypeOK', thrown' = thrown,
         \A x \in Calls \ {c} : Bystander(x), Consistent(c)', Lives(c)
  PROVE  Keeps
<1>1. \A x \in Calls \ {c} : Consistent(x)' /\ Lives(x)
  BY BystanderKept DEF IInv
<1> QED
  BY <1>1 DEF IInv, Keeps

\* A step that leaves the scheduler alone.
LEMMA BooksStill ==
  ASSUME IInv, UNCHANGED schedVars
  PROVE  BooksOK' /\ UNCHANGED <<pc, signal, aborted, dispatching>>
<1>1. UNCHANGED <<pc, signal, aborted, dispatching, limit>>
  BY DEF schedVars
<1> QED
  BY <1>1, BooksKept DEF IInv

-----------------------------------------------------------------------------
(* The HTTP handler.                                                       *)

\* The handler reserves the row.
LEMMA ReserveOK ==
  ASSUME IInv, NEW c \in Calls, Reserve(c) PROVE Keeps
<1>1. /\ up /\ up' = up /\ dispatching = NoCall /\ handler[c] = "new"
      /\ handler' = [handler EXCEPT ![c] = "reserved"]
      /\ row' = [row EXCEPT ![c] = "queued"]
      /\ UNCHANGED <<stage, verdict, told, cancelling, thrown, closing, awaited, crashes>>
      /\ UNCHANGED schedVars
  BY DEF Reserve, Ready, opVars, procVars
<1>2. BooksOK' /\ UNCHANGED <<pc, signal, aborted, dispatching>>
  BY <1>1, BooksStill
<1>3. TypeOK /\ Consistent(c)
  BY DEF IInv
<1>4. TypeOK'
  BY <1>1, <1>3 DEF TypeOK, Unfinished
<1>5. handler'[c] = "reserved" /\ row'[c] = "queued"
  BY <1>1, <1>3 DEF TypeOK
<1>6. \A x \in Calls \ {c} : Bystander(x)
  BY <1>1, <1>2, <1>3, InvocationAssumption DEF TypeOK, Bystander
<1>7. Consistent(c)' /\ Lives(c)
  BY <1>1, <1>2, <1>3, <1>5
     DEF Consistent, Begun, Going, Ending, Registered, Honest, Lives, Lifecycle!After
<1> QED
  BY <1>1, <1>2, <1>4, <1>6, <1>7, OneCall

\* The caller's abort is only noted, until its listener runs.
LEMMA AbortOnceOK ==
  ASSUME IInv, NEW c \in Calls, Ready, AbortOnce(c)
  PROVE  /\ BooksOK' /\ UNCHANGED <<pc, signal>>
         /\ \A x \in Calls \ {c} : x \in aborted' <=> x \in aborted
         /\ Registered(c) => c \in aborted'
         /\ dispatching' # c => (c \in aborted' <=> c \in aborted)
<1>1. CASE Registered(c) /\ c \notin aborted
  <2>1. Sched!Abort(c)
    BY <1>1 DEF AbortOnce
  <2>2. Books!Next
    BY <2>1, SameSignals DEF Books!Next
  <2>3. BooksOK'
    BY <2>1, <2>2, BooksKept DEF Sched!Abort, Sched!stateVars, IInv
  <2> QED
    BY <1>1, <2>1, <2>3 DEF Sched!Abort, Registered
<1>2. CASE ~(Registered(c) /\ c \notin aborted)
  <2>1. UNCHANGED schedVars
    BY <1>2 DEF AbortOnce
  <2> QED
    BY <1>2, <2>1, BooksStill
<1> QED
  BY <1>1, <1>2

\* The client goes away.
LEMMA DisconnectOK ==
  ASSUME IInv, NEW c \in Calls, Disconnect(c) PROVE Keeps
<1>1. /\ up /\ up' = up /\ dispatching = NoCall /\ Ready
      /\ UNCHANGED <<stage, verdict, row, told, cancelling, thrown, closing, awaited, crashes>>
      /\ handler[c] \in {"reserved", "open"}
  BY DEF Disconnect, Ready, opVars, procVars
<1>2. TypeOK /\ Consistent(c)
  BY DEF IInv
<1>3. CASE /\ handler[c] = "reserved"
           /\ handler' = [handler EXCEPT ![c] = "leaving"] /\ UNCHANGED schedVars
  <2>1. BooksOK' /\ UNCHANGED <<pc, signal, aborted, dispatching>>
    BY <1>3, BooksStill
  <2>2. TypeOK' /\ handler'[c] = "leaving"
    BY <1>1, <1>2, <1>3 DEF TypeOK
  <2>3. \A x \in Calls \ {c} : Bystander(x)
    BY <1>1, <1>2, <1>3, <2>1, InvocationAssumption DEF TypeOK, Bystander
  <2>4. Consistent(c)' /\ Lives(c)
    BY <1>1, <1>2, <1>3, <2>1, <2>2
       DEF Consistent, Begun, Going, Ending, Registered, Honest, Lives
  <2> QED
    BY <1>1, <2>1, <2>2, <2>3, <2>4, OneCall
<1>4. CASE /\ handler[c] = "open"
           /\ handler' = [handler EXCEPT ![c] = "returning"] /\ AbortOnce(c)
  <2>1. /\ BooksOK' /\ UNCHANGED <<pc, signal>>
        /\ \A x \in Calls \ {c} : x \in aborted' <=> x \in aborted
        /\ dispatching' # c => (c \in aborted' <=> c \in aborted)
        /\ c \in aborted => c \in aborted'
    BY <1>1, <1>4, AbortOnceOK DEF AbortOnce, Sched!Abort, schedVars
  <2>2. TypeOK' /\ handler'[c] = "returning"
    BY <1>1, <1>2, <1>4 DEF TypeOK
  <2>3. \A x \in Calls \ {c} : Bystander(x)
    BY <1>1, <1>2, <1>4, <2>1, InvocationAssumption DEF TypeOK, Bystander
  <2>4. Begun(c)' /\ Going(c)' /\ Lives(c)
    BY <1>1, <1>2, <1>4, <2>1, <2>2 DEF Consistent, Begun, Going, Registered, Lives
  <2>5. Ending(c)'
    BY <1>1, <1>2, <2>1, InvocationAssumption DEF Consistent, Ending, Registered, Honest
  <2> QED
    BY <1>1, <2>1, <2>2, <2>3, <2>4, <2>5, OneCall DEF Consistent
<1> QED
  BY <1>1, <1>3, <1>4 DEF Disconnect

\* The handler returns: attempt.fail() marks what the service has not.
LEMMA HandlerEndsOK ==
  ASSUME IInv, NEW c \in Calls, HandlerEnds(c) PROVE Keeps
<1>1. /\ up /\ up' = up /\ dispatching = NoCall
      /\ handler' = [handler EXCEPT ![c] = "done"]
      /\ UNCHANGED <<stage, verdict, told, cancelling, thrown, closing, awaited, crashes>>
      /\ UNCHANGED schedVars
      /\ \/ handler[c] \in {"failing", "leaving"}
         \/ handler[c] = "open" /\ told[c] # "none"
         \/ handler[c] = "returning" /\ ~Registered(c)
  BY DEF HandlerEnds, Ready, opVars, procVars
<1>2. BooksOK' /\ UNCHANGED <<pc, signal, aborted, dispatching>>
  BY <1>1, BooksStill
<1>3. TypeOK /\ Consistent(c)
  BY DEF IInv
<1>4. /\ row' \in [Calls -> {"absent", "interrupted"} \cup Unfinished \cup Outcomes]
      /\ \A x \in Calls \ {c} : row'[x] = row[x]
      /\ row[c] \in Unfinished => row'[c] \in {"failed", "completed"} \/ row[c] = "running"
      /\ row[c] \notin Unfinished => row'[c] = row[c]
      /\ handler[c] \in {"failing", "leaving"} => row'[c] = "failed" \/ row[c] \notin Unfinished
  BY <1>3 DEF HandlerEnds, TypeOK, Unfinished, Outcomes
<1>5. TypeOK' /\ handler'[c] = "done"
  BY <1>1, <1>3, <1>4 DEF TypeOK
<1>6. \A x \in Calls \ {c} : Bystander(x)
  BY <1>1, <1>2, <1>3, <1>4, InvocationAssumption DEF TypeOK, Bystander
<1>7. ~Registered(c)
  BY <1>1, <1>3 DEF Consistent, Begun, Going, Registered
<1>8. CASE handler[c] \in {"failing", "leaving"}
  <2>1. row[c] = "queued" /\ row'[c] = "failed" /\ pc[c] = "new"
    BY <1>3, <1>4, <1>8 DEF Consistent, Begun, Unfinished
  <2>2. cancelling[c] = "none" /\ told[c] = "none"
    BY <1>3, <1>7, <2>1 DEF Consistent, Ending, Honest, Going
  <2> QED
    BY <1>1, <1>2, <1>3, <1>5, <1>6, <1>7, <2>1, <2>2, OneCall
       DEF Consistent, Begun, Going, Ending, Registered, Unfinished, Lives, Lifecycle!After
<1>9. CASE handler[c] \in {"open", "returning"}
  <2>1. row[c] \in Outcomes /\ row'[c] = row[c]
    BY <1>3, <1>4, <1>7, <1>9 DEF Consistent, Going, Unfinished, Outcomes
  <2>2. Begun(c)' /\ Going(c)'
    BY <1>1, <1>2, <1>3, <1>5, <1>7, <2>1
       DEF Consistent, Begun, Going, Registered, Unfinished, Outcomes
  <2>3. Ending(c)' /\ Lives(c)
    BY <1>1, <1>2, <1>3, <2>1 DEF Consistent, Ending, Registered, Honest, Lives
  <2> QED
    BY <1>1, <1>2, <1>5, <1>6, <2>2, <2>3, OneCall DEF Consistent
<1> QED
  BY <1>1, <1>8, <1>9

\* What a drain, brought about by call c, does to the rows: the other calls stand by.
LEMMA DrainFollowed ==
  ASSUME IInv, NEW c \in Calls, NEW final, DOMAIN final \subseteq {c}, Follow(final),
         dispatching = NoCall, UNCHANGED <<signal, aborted>>,
         \A x \in Calls \ {c} : handler'[x] = handler[x] /\ cancelling'[x] = cancelling[x],
         \A x \in Calls \ {c} : \/ pc'[x] = pc[x]
                                \/ pc[x] = "queued" /\ pc'[x] \in {"running", "abort_rejected"},
         \A x \in Calls \ {c} : pc[x] = "queued" /\ pc'[x] = "running" => x \notin aborted,
         Started(c) \/ TurnedAway(c) => c \notin DOMAIN final /\ row[c] = "queued",
         c \in DOMAIN final => row[c] = "running" /\ final[c] \in Outcomes
  PROVE  /\ thrown' = thrown
         /\ row' \in [Calls -> {"absent", "interrupted"} \cup Unfinished \cup Outcomes]
         /\ told' \in [Calls -> {"none"} \cup Outcomes]
         /\ stage' \in [Calls -> {"none", "workspace", "provider", "cleanup"}]
         /\ verdict' \in [Calls -> {"none"} \cup Outcomes]
         /\ \A x \in Calls \ {c} : Bystander(x)
         /\ c \in DOMAIN final =>
              row'[c] = final[c] /\ told'[c] = final[c] /\ stage'[c] = "none"
         /\ c \notin DOMAIN final =>
              /\ Started(c) => row'[c] = "running" /\ told'[c] = told[c] /\ stage'[c] = "workspace"
              /\ TurnedAway(c) =>
                   /\ row'[c] = IF pc'[c] \in {"queue_full", "queue_timeout"} THEN "failed"
                                ELSE "cancelled"
                   /\ told'[c] = row'[c] /\ stage'[c] = stage[c]
              /\ ~Started(c) /\ ~TurnedAway(c) =>
                   row'[c] = row[c] /\ told'[c] = told[c] /\ stage'[c] = stage[c]
              /\ verdict'[c] = verdict[c]
<1>1. TypeOK /\ \A x \in Calls : pc[x] = "queued" => row[x] = "queued"
  BY DEF IInv, Consistent, Going, Registered
<1>2. \A x \in Calls \ {c} :
        /\ pc'[x] = pc[x] => ~Started(x) /\ ~TurnedAway(x)
        /\ pc[x] = "queued" /\ pc'[x] = "running" => Started(x)
        /\ pc[x] = "queued" /\ pc'[x] = "abort_rejected" => TurnedAway(x)
  BY DEF Started, TurnedAway, Sched!Settled
<1>3. \A x \in Calls : Started(x) \/ TurnedAway(x) => x \notin DOMAIN final /\ row[x] = "queued"
  BY <1>1, <1>2
<1>4. \A x \in DOMAIN final : row[x] = "running" /\ final[x] \in Outcomes
  OBVIOUS
<1>5. DOMAIN final \subseteq Calls
  OBVIOUS
<1>6. /\ thrown' = thrown
      /\ row' \in [Calls -> {"absent", "interrupted"} \cup Unfinished \cup Outcomes]
      /\ told' \in [Calls -> {"none"} \cup Outcomes]
      /\ stage' \in [Calls -> {"none", "workspace", "provider", "cleanup"}]
      /\ verdict' \in [Calls -> {"none"} \cup Outcomes]
      /\ \A x \in Calls \ DOMAIN final :
           /\ Started(x) => row'[x] = "running" /\ told'[x] = told[x] /\ stage'[x] = "workspace"
           /\ TurnedAway(x) =>
                /\ row'[x] = IF pc'[x] \in {"queue_full", "queue_timeout"} THEN "failed"
                             ELSE "cancelled"
                /\ told'[x] = row'[x] /\ stage'[x] = stage[x]
           /\ ~Started(x) /\ ~TurnedAway(x) =>
                row'[x] = row[x] /\ told'[x] = told[x] /\ stage'[x] = stage[x]
           /\ verdict'[x] = verdict[x]
      /\ \A x \in DOMAIN final :
           row'[x] = final[x] /\ told'[x] = final[x] /\ stage'[x] = "none"
  BY <1>1, <1>3, <1>4, <1>5, Followed
<1>7. ASSUME NEW x \in Calls \ {c} PROVE Bystander(x)
  <2>1. /\ handler'[x] = handler[x] /\ cancelling'[x] = cancelling[x] /\ signal'[x] = signal[x]
        /\ x \in aborted' <=> x \in aborted
        /\ verdict'[x] = verdict[x] /\ dispatching # x
    BY <1>6, InvocationAssumption
  <2>2. CASE pc'[x] = pc[x]
    BY <1>2, <1>6, <2>1, <2>2 DEF Bystander
  <2>3. CASE pc[x] = "queued" /\ pc'[x] = "running"
    BY <1>2, <1>6, <2>1, <2>3 DEF Bystander
  <2>4. CASE pc[x] = "queued" /\ pc'[x] = "abort_rejected"
    BY <1>2, <1>6, <2>1, <2>4 DEF Bystander
  <2> QED
    BY <2>2, <2>3, <2>4
<1> QED
  BY <1>6, <1>7

\* The first next() of the stream enters the scheduler.
LEMMA OpenOK ==
  ASSUME IInv, NEW c \in Calls, Open(c) PROVE Keeps
<1>1. /\ up /\ up' = up /\ dispatching = NoCall /\ handler[c] = "reserved"
      /\ UNCHANGED <<cancelling, closing, awaited, crashes>>
  BY DEF Open, Ready, procVars
<1>2. TypeOK /\ Consistent(c)
  BY DEF IInv
<1>3. pc[c] = "new" /\ row[c] = "queued" /\ told[c] = "none" /\ cancelling[c] = "none"
      /\ ~Registered(c)
  BY <1>1, <1>2 DEF Consistent, Begun, Going, Ending, Registered, Honest
<1>4. CASE /\ handler' = [handler EXCEPT ![c] = "failing"]
           /\ UNCHANGED <<schedVars, opVars, row, told, thrown>>
  <2>1. BooksOK' /\ UNCHANGED <<pc, signal, aborted, dispatching, stage, verdict>>
    BY <1>4, BooksStill DEF opVars
  <2>2. TypeOK' /\ handler'[c] = "failing"
    BY <1>1, <1>2, <1>4, <2>1 DEF TypeOK
  <2>3. \A x \in Calls \ {c} : Bystander(x)
    BY <1>1, <1>2, <1>4, <2>1, InvocationAssumption DEF TypeOK, Bystander
  <2>4. Consistent(c)' /\ Lives(c)
    BY <1>1, <1>2, <1>4, <2>1, <2>2
       DEF Consistent, Begun, Going, Ending, Registered, Honest, Lives
  <2> QED
    BY <1>1, <1>4, <2>1, <2>2, <2>3, <2>4, OneCall
<1>5. ASSUME handler' = [handler EXCEPT ![c] = "open"], Follow(Nobody),
             NEW n \in QueueLimits, Sched!Run(c, Target, Limit, n)
      PROVE  Keeps
  <2>1. Books!Run(c, Target, Limit, n)
    BY <1>5, SameRun
  <2>2. /\ UNCHANGED <<aborted, signal, dispatching>>
        /\ pc'[c] \in {"abort_rejected", "running", "queue_full", "queued"}
        /\ c \in aborted => pc'[c] = "abort_rejected"
        /\ \A x \in Calls \ {c} : \/ pc'[x] = pc[x]
                                  \/ pc[x] = "queued" /\ pc'[x] \in {"running", "abort_rejected"}
        /\ \A x \in Calls \ {c} : pc[x] = "queued" /\ pc'[x] = "running" => x \notin aborted
    BY <2>1, SchedulerAssumed, Books!RunMoves DEF IInv, BooksOK
  <2>3. BooksOK'
    <3>1. limit' = [limit EXCEPT ![Target] = Limit]
      BY <1>5 DEF Sched!Run
    <3>2. limit'[Target] \in {limit[Target], Limit}
      BY <3>1, BookTypes DEF IInv
    <3> QED
      BY <2>1, <3>2, BooksKept DEF IInv, Books!Next
  <2>4. DOMAIN Nobody = {}
    BY DEF Nobody
  <2>5. /\ thrown' = thrown
        /\ row' \in [Calls -> {"absent", "interrupted"} \cup Unfinished \cup Outcomes]
        /\ told' \in [Calls -> {"none"} \cup Outcomes]
        /\ stage' \in [Calls -> {"none", "workspace", "provider", "cleanup"}]
        /\ verdict' \in [Calls -> {"none"} \cup Outcomes]
        /\ \A x \in Calls \ {c} : Bystander(x)
        /\ Started(c) => row'[c] = "running" /\ told'[c] = told[c] /\ stage'[c] = "workspace"
        /\ TurnedAway(c) =>
             /\ row'[c] = IF pc'[c] \in {"queue_full", "queue_timeout"} THEN "failed"
                          ELSE "cancelled"
             /\ told'[c] = row'[c] /\ stage'[c] = stage[c]
        /\ ~Started(c) /\ ~TurnedAway(c) =>
             row'[c] = row[c] /\ told'[c] = told[c] /\ stage'[c] = stage[c]
        /\ verdict'[c] = verdict[c]
    <3>1. \A x \in Calls \ {c} : handler'[x] = handler[x] /\ cancelling'[x] = cancelling[x]
      BY <1>1, <1>2, <1>5 DEF TypeOK
    <3> QED
      BY <1>1, <1>3, <1>5, <2>2, <2>4, <3>1, DrainFollowed
  <2>6. TypeOK' /\ handler'[c] = "open"
    BY <1>1, <1>2, <1>5, <2>5 DEF IInv, TypeOK
  <2>7. CASE pc'[c] = "running"
    <3>1. Started(c)
      BY <1>3, <2>7 DEF Started
    <3>2. Consistent(c)' /\ Lives(c)
      BY <1>1, <1>3, <2>2, <2>5, <2>6, <2>7, <3>1
         DEF Consistent, Begun, Going, Ending, Registered, Lives, Lifecycle!After
    <3> QED
      BY <1>1, <2>3, <2>5, <2>6, <3>2, OneCall
  <2>8. CASE pc'[c] = "queued"
    <3>1. ~Started(c) /\ ~TurnedAway(c)
      BY <2>8 DEF Started, TurnedAway, Sched!Settled
    <3>2. Consistent(c)' /\ Lives(c)
      BY <1>1, <1>2, <1>3, <2>2, <2>5, <2>6, <2>8, <3>1
         DEF Consistent, Begun, Going, Ending, Registered, Lives
    <3> QED
      BY <1>1, <2>3, <2>5, <2>6, <3>2, OneCall
  <2>9. CASE pc'[c] \in {"abort_rejected", "queue_full"}
    <3>1. TurnedAway(c)
      BY <1>3, <2>9 DEF TurnedAway, Sched!Settled
    <3>2. row'[c] \in {"failed", "cancelled"} /\ told'[c] = row'[c] /\ stage'[c] = stage[c]
      BY <2>5, <3>1
    <3>3. Begun(c)' /\ Going(c)'
      BY <1>1, <1>2, <2>5, <2>6, <2>9, <3>2
         DEF Consistent, Begun, Going, Registered, Outcomes
    <3>4. Ending(c)' /\ Lives(c)
      BY <1>1, <1>3, <2>9, <3>2 DEF Ending, Registered, Lives, Lifecycle!After, Outcomes
    <3> QED
      BY <1>1, <2>3, <2>5, <2>6, <3>3, <3>4, OneCall DEF Consistent
  <2> QED
    BY <2>2, <2>7, <2>8, <2>9
<1> QED
  BY <1>4, <1>5 DEF Open

-----------------------------------------------------------------------------
(* The queue and the run timer.                                            *)

\* A waiting call is turned away, and nobody else is moved.
LEMMA TurnedAwayOK ==
  ASSUME IInv, NEW c \in Calls, BooksOK', up, up', dispatching \in {NoCall, c},
         pc[c] = "queued", pc'[c] \in {"queue_timeout", "abort_rejected", "cancelled"},
         \A x \in Calls \ {c} : pc'[x] = pc[x], Follow(Nobody),
         \A x \in Calls \ {c} : cancelling'[x] = cancelling[x],
         cancelling' \in [Calls -> {"none", "asked", "true"}],
         cancelling'[c] # "none" => pc'[c] = "cancelled",
         UNCHANGED <<signal, handler, closing, awaited, crashes>>,
         \A x \in Calls \ {c} : x \in aborted' <=> x \in aborted
  PROVE  Keeps
<1>1. TypeOK /\ Consistent(c)
  BY DEF IInv
<1>2. /\ row[c] = "queued" /\ told[c] = "none" /\ handler[c] \in {"open", "returning"}
  BY <1>1 DEF Consistent, Going, Registered
<1>3. /\ TurnedAway(c) /\ ~Started(c)
      /\ \A x \in Calls \ {c} : ~TurnedAway(x) /\ ~Started(x)
  BY DEF TurnedAway, Started, Sched!Settled
<1>4. DOMAIN Nobody = {}
  BY DEF Nobody
<1>5. /\ thrown' = thrown
      /\ row' \in [Calls -> {"absent", "interrupted"} \cup Unfinished \cup Outcomes]
      /\ told' \in [Calls -> {"none"} \cup Outcomes]
      /\ stage' \in [Calls -> {"none", "workspace", "provider", "cleanup"}]
      /\ verdict' \in [Calls -> {"none"} \cup Outcomes]
      /\ \A x \in Calls :
           /\ TurnedAway(x) =>
                /\ row'[x] = IF pc'[x] \in {"queue_full", "queue_timeout"} THEN "failed"
                             ELSE "cancelled"
                /\ told'[x] = row'[x] /\ stage'[x] = stage[x]
           /\ ~Started(x) /\ ~TurnedAway(x) =>
                row'[x] = row[x] /\ told'[x] = told[x] /\ stage'[x] = stage[x]
           /\ verdict'[x] = verdict[x]
  BY <1>1, <1>2, <1>3, <1>4, Followed
<1>6. TypeOK'
  BY <1>1, <1>5 DEF IInv, TypeOK
<1>7. \A x \in Calls \ {c} : Bystander(x)
  BY <1>3, <1>5, InvocationAssumption DEF Bystander
<1>8. row'[c] \in {"failed", "cancelled"} /\ told'[c] = row'[c] /\ stage'[c] = stage[c]
      /\ (pc'[c] = "cancelled" => row'[c] = "cancelled")
  BY <1>3, <1>5
<1>9. Begun(c)' /\ Going(c)'
  BY <1>1, <1>2, <1>5, <1>8 DEF Consistent, Begun, Going, Registered, Outcomes
<1>10. Ending(c)' /\ Lives(c)
  BY <1>2, <1>8 DEF Ending, Honest, Registered, Lives, Lifecycle!After, Outcomes
<1> QED
  BY <1>5, <1>6, <1>7, <1>9, <1>10, OneCall DEF Consistent

\* The queue's timer rejects a waiting call.
LEMMA QueueTimeoutOK ==
  ASSUME IInv, NEW c \in Calls, QueueTimeout(c) PROVE Keeps
<1>1. /\ up /\ up' = up /\ Sched!QueueTimeout(c) /\ Follow(Nobody)
      /\ UNCHANGED <<handler, cancelling, closing, awaited, crashes>>
  BY DEF QueueTimeout, procVars
<1>2. /\ dispatching = NoCall /\ pc[c] = "queued" /\ pc' = [pc EXCEPT ![c] = "queue_timeout"]
      /\ UNCHANGED <<signal, aborted, limit>>
  BY <1>1 DEF Sched!QueueTimeout, Sched!Evict
<1>3. BooksOK'
  BY <1>1, <1>2, SameQueueTimeout, BooksKept DEF IInv, Books!Next
<1>4. pc'[c] = "queue_timeout" /\ \A x \in Calls \ {c} : pc'[x] = pc[x]
  BY <1>2, BookTypes DEF IInv
<1>5. cancelling[c] = "none" /\ cancelling \in [Calls -> {"none", "asked", "true"}]
  BY <1>2 DEF IInv, Consistent, Ending, Registered, TypeOK
<1> QED
  BY <1>1, <1>2, <1>3, <1>4, <1>5, TurnedAwayOK

\* The abort reaches the signal of a running operation, unless its timer was first.
LEMMA AbortListenerOK ==
  ASSUME IInv, NEW c \in Calls, AbortListener(c) PROVE Keeps
<1>1. /\ up /\ up' = up /\ Sched!AbortListener(c) /\ Follow(Nobody)
      /\ UNCHANGED <<handler, cancelling, closing, awaited, crashes>>
  BY DEF AbortListener, procVars
<1>2. dispatching = c /\ dispatching' = NoCall /\ UNCHANGED <<aborted, limit>>
  BY <1>1 DEF Sched!AbortListener
<1>3. BooksOK'
  BY <1>1, <1>2, SameAbortListener, BooksKept DEF IInv, Books!Next
<1>4. TypeOK /\ Consistent(c)
  BY DEF IInv
<1>5. CASE pc[c] = "queued"
  <2>1. pc' = [pc EXCEPT ![c] = "abort_rejected"] /\ UNCHANGED signal
    BY <1>1, <1>5 DEF Sched!AbortListener, Sched!Evict, Sched!Settled
  <2>2. pc'[c] = "abort_rejected" /\ \A x \in Calls \ {c} : pc'[x] = pc[x]
    BY <2>1, BookTypes DEF IInv
  <2>3. cancelling[c] = "none" /\ cancelling \in [Calls -> {"none", "asked", "true"}]
    BY <1>4, <1>5 DEF Consistent, Ending, Registered, TypeOK
  <2> QED
    BY <1>1, <1>2, <1>3, <1>5, <2>1, <2>2, <2>3, TurnedAwayOK
<1>6. CASE pc[c] # "queued"
  <2>1. pc' = pc
    BY <1>1, <1>6 DEF Sched!AbortListener
  <2>2. /\ pc[c] = "running" => signal'[c] # "none" /\ (signal[c] # "none" => signal'[c] = signal[c])
        /\ pc[c] # "running" => signal'[c] = signal[c]
        /\ \A x \in Calls \ {c} : signal'[x] = signal[x]
    BY <1>1, <1>6, BookTypes DEF Sched!AbortListener, Sched!FirstReason, Sched!Settled, IInv
  <2>3. \A x \in Calls : ~Started(x) /\ ~TurnedAway(x)
    BY <2>1 DEF Started, TurnedAway, Sched!Settled
  <2>4. DOMAIN Nobody = {}
    BY DEF Nobody
  <2>5. /\ thrown' = thrown
        /\ row' \in [Calls -> {"absent", "interrupted"} \cup Unfinished \cup Outcomes]
        /\ told' \in [Calls -> {"none"} \cup Outcomes]
        /\ stage' \in [Calls -> {"none", "workspace", "provider", "cleanup"}]
        /\ verdict' \in [Calls -> {"none"} \cup Outcomes]
        /\ \A x \in Calls : /\ row'[x] = row[x] /\ told'[x] = told[x] /\ stage'[x] = stage[x]
                            /\ verdict'[x] = verdict[x]
    BY <1>1, <1>4, <2>3, <2>4, Followed
  <2>6. TypeOK'
    BY <1>1, <1>4, <2>5 DEF TypeOK
  <2>7. \A x \in Calls \ {c} : Bystander(x)
    BY <1>1, <1>2, <2>1, <2>2, <2>5 DEF Bystander
  <2>8. Begun(c)' /\ Going(c)' /\ Lives(c)
    BY <1>1, <1>4, <2>1, <2>5 DEF Consistent, Begun, Going, Registered, Lives
  <2>9. Ending(c)'
    BY <1>1, <1>2, <1>4, <2>1, <2>2, <2>5 DEF Consistent, Ending, Registered, Honest
  <2> QED
    BY <1>1, <1>3, <2>5, <2>6, <2>7, <2>8, <2>9, OneCall DEF Consistent
<1> QED
  BY <1>5, <1>6

\* The run timer aborts a running call.
LEMMA RunTimeoutOK ==
  ASSUME IInv, NEW c \in Calls, RunTimeout(c) PROVE Keeps
<1>1. /\ up /\ up' = up /\ Sched!RunTimeout(c)
      /\ UNCHANGED <<row, told, stage, verdict, handler, cancelling, thrown, closing, awaited, crashes>>
  BY DEF RunTimeout, procVars, opVars
<1>2. dispatching = NoCall /\ UNCHANGED <<dispatching, pc, aborted, limit>>
  BY <1>1 DEF Sched!RunTimeout, Sched!stateVars
<1>3. BooksOK'
  BY <1>1, <1>2, SameSignals, BooksKept DEF IInv, Books!Next
<1>4. TypeOK /\ Consistent(c)
  BY DEF IInv
<1>5. /\ signal'[c] # "none" /\ (signal[c] # "none" => signal'[c] = signal[c])
      /\ signal[c] = "none" => signal'[c] = "timeout"
      /\ \A x \in Calls \ {c} : signal'[x] = signal[x]
  BY <1>1, BookTypes DEF Sched!RunTimeout, Sched!FirstReason, IInv
<1>6. TypeOK'
  BY <1>1, <1>4 DEF TypeOK
<1>7. \A x \in Calls \ {c} : Bystander(x)
  BY <1>1, <1>2, <1>5, InvocationAssumption DEF Bystander
<1>8. Begun(c)' /\ Going(c)' /\ Lives(c)
  BY <1>1, <1>2, <1>4 DEF Consistent, Begun, Going, Registered, Lives
<1>9. Ending(c)'
  BY <1>1, <1>2, <1>4, <1>5 DEF Consistent, Ending, Registered, Honest
<1> QED
  BY <1>1, <1>3, <1>6, <1>7, <1>8, <1>9, OneCall DEF Consistent

-----------------------------------------------------------------------------
(* The running operation.                                                  *)

\* markFinished and finish(): by now an abort is in the signal, so that the run ends
\* as a cancel was promised.
LEMMA FinishOK ==
  ASSUME IInv, NEW c \in Calls, NEW v \in Outcomes, Ready, Finish(c, v),
         UNCHANGED <<handler, cancelling, up, closing, awaited, crashes>>
  PROVE  Keeps
<1> DEFINE final == [x \in {c} |-> FinalStatus(c, v)]
<1>1. Sched!Finish(c, "resolved") /\ Follow(final) /\ up /\ dispatching = NoCall
  BY DEF Finish, Ready
<1>2. Books!Finish(c, "resolved")
  BY <1>1, SameFinish
<1>3. /\ pc[c] = "running" /\ UNCHANGED <<aborted, signal, dispatching>> /\ pc'[c] = "resolved"
      /\ \A x \in Calls \ {c} : \/ pc'[x] = pc[x]
                                \/ pc[x] = "queued" /\ pc'[x] \in {"running", "abort_rejected"}
      /\ \A x \in Calls \ {c} : pc[x] = "queued" /\ pc'[x] = "running" => x \notin aborted
  BY <1>2, SchedulerAssumed, Books!FinishMoves DEF IInv, BooksOK
<1>4. BooksOK'
  <2>1. limit' = limit
    BY <1>1 DEF Sched!Finish
  <2> QED
    BY <1>2, <2>1, BooksKept DEF IInv, Books!Next
<1>5. TypeOK /\ Consistent(c)
  BY DEF IInv
<1>6. /\ FinalStatus(c, v) \in Outcomes
      /\ signal[c] = "timeout" => FinalStatus(c, v) = "failed"
      /\ signal[c] = "caller" => FinalStatus(c, v) = "cancelled"
      /\ signal[c] \in {"none", "timeout", "caller"}
  BY BookTypes DEF FinalStatus, Outcomes, IInv
<1>7. DOMAIN final = {c} /\ final[c] = FinalStatus(c, v)
  OBVIOUS
<1> HIDE DEF final
<1>8. row[c] = "running" /\ told[c] = "none" /\ handler[c] \in {"open", "returning"}
  BY <1>3, <1>5 DEF Consistent, Going, Registered
<1>9. ~Started(c) /\ ~TurnedAway(c)
  BY <1>3 DEF Started, TurnedAway
<1>10. /\ thrown' = thrown
       /\ row' \in [Calls -> {"absent", "interrupted"} \cup Unfinished \cup Outcomes]
       /\ told' \in [Calls -> {"none"} \cup Outcomes]
       /\ stage' \in [Calls -> {"none", "workspace", "provider", "cleanup"}]
       /\ verdict' \in [Calls -> {"none"} \cup Outcomes]
       /\ \A x \in Calls \ {c} : Bystander(x)
       /\ row'[c] = FinalStatus(c, v) /\ told'[c] = FinalStatus(c, v) /\ stage'[c] = "none"
  BY <1>1, <1>3, <1>6, <1>7, <1>8, <1>9, DrainFollowed
<1>11. TypeOK'
  BY <1>5, <1>10 DEF TypeOK
<1>12. Begun(c)' /\ Going(c)'
  BY <1>1, <1>3, <1>5, <1>6, <1>8, <1>10
     DEF Consistent, Begun, Going, Registered, Outcomes, Unfinished
<1>13. Ending(c)'
  <2>1. cancelling[c] # "none" => signal[c] # "none"
    BY <1>1, <1>3, <1>5, InvocationAssumption DEF Consistent, Ending, Registered
  <2> QED
    BY <1>3, <1>6, <1>10, <2>1 DEF Ending, Registered, Honest
<1>14. Lives(c)
  BY <1>6, <1>8, <1>10
     DEF Lives, Lifecycle!After, Lifecycle!Terminal, Lifecycle!Outcomes, Outcomes
<1> QED
  BY <1>1, <1>4, <1>10, <1>11, <1>12, <1>13, <1>14, OneCall DEF Consistent

\* acquire() answers and the row is marked running, or the run fails.
LEMMA WorkspaceAcquiredOK ==
  ASSUME IInv, NEW c \in Calls, WorkspaceAcquired(c) PROVE Keeps
<1>1. /\ Ready /\ up /\ dispatching = NoCall /\ stage[c] = "workspace"
      /\ UNCHANGED <<handler, cancelling, up, closing, awaited, crashes>>
  BY DEF WorkspaceAcquired, Ready, procVars
<1>2. CASE Finish(c, "failed")
  BY <1>1, <1>2, FinishOK DEF Outcomes
<1>3. CASE stage' = [stage EXCEPT ![c] = "provider"]
           /\ UNCHANGED <<schedVars, verdict, row, told, thrown>>
  <2>1. BooksOK' /\ UNCHANGED <<pc, signal, aborted, dispatching>>
    BY <1>3, BooksStill
  <2>2. TypeOK /\ Consistent(c)
    BY DEF IInv
  <2>3. TypeOK' /\ stage'[c] = "provider"
    BY <1>1, <1>3, <2>2 DEF TypeOK
  <2>4. \A x \in Calls \ {c} : Bystander(x)
    BY <1>1, <1>3, <2>1, <2>2, InvocationAssumption DEF TypeOK, Bystander
  <2>5. Begun(c)' /\ Going(c)' /\ Lives(c)
    BY <1>1, <1>3, <2>1, <2>2, <2>3 DEF Consistent, Begun, Going, Registered, Lives
  <2>6. Ending(c)'
    BY <1>1, <1>3, <2>1, <2>2 DEF Consistent, Ending, Registered, Honest
  <2> QED
    BY <1>1, <1>3, <2>1, <2>3, <2>4, <2>5, <2>6, OneCall DEF Consistent
<1> QED
  BY <1>2, <1>3 DEF WorkspaceAcquired

\* The iteration of the adapter ends, with an outcome or by an abort.
LEMMA ProviderEndsOK ==
  ASSUME IInv, NEW c \in Calls, ProviderEnds(c) PROVE Keeps
<1>1. /\ up /\ up' = up /\ dispatching = NoCall
      /\ stage' = [stage EXCEPT ![c] = "cleanup"]
      /\ UNCHANGED <<row, told, thrown, handler, cancelling, closing, awaited, crashes>>
      /\ UNCHANGED schedVars
  BY DEF ProviderEnds, Ready, procVars
<1>2. PICK v \in Outcomes : verdict' = [verdict EXCEPT ![c] = FinalStatus(c, v)]
  BY DEF ProviderEnds
<1>3. FinalStatus(c, v) \in Outcomes
  BY BookTypes DEF FinalStatus, Outcomes, IInv
<1>4. BooksOK' /\ UNCHANGED <<pc, signal, aborted, dispatching>>
  BY <1>1, BooksStill
<1>5. TypeOK /\ Consistent(c)
  BY DEF IInv
<1>6. /\ TypeOK' /\ verdict'[c] \in Outcomes
      /\ \A x \in Calls \ {c} : verdict'[x] = verdict[x]
  BY <1>1, <1>2, <1>3, <1>5 DEF TypeOK
<1>7. \A x \in Calls \ {c} : Bystander(x)
  BY <1>1, <1>4, <1>5, <1>6, InvocationAssumption DEF TypeOK, Bystander
<1>8. Begun(c)' /\ Going(c)' /\ Lives(c)
  BY <1>1, <1>4, <1>5, <1>6 DEF Consistent, Begun, Going, Registered, Lives
<1>9. Ending(c)'
  BY <1>1, <1>4, <1>5 DEF Consistent, Ending, Registered, Honest
<1> QED
  BY <1>1, <1>4, <1>6, <1>7, <1>8, <1>9, OneCall DEF Consistent

\* The workspace is released and the row is marked finished.
LEMMA ReleasedOK ==
  ASSUME IInv, NEW c \in Calls, Released(c) PROVE Keeps
<1>1. /\ Ready /\ stage[c] = "cleanup"
      /\ UNCHANGED <<handler, cancelling, up, closing, awaited, crashes>>
      /\ Finish(c, verdict[c]) \/ Finish(c, "failed")
  BY DEF Released, procVars
<1>2. verdict[c] \in Outcomes /\ "failed" \in Outcomes
  BY <1>1 DEF IInv, Consistent, Going, Outcomes
<1> QED
  BY <1>1, <1>2, FinishOK

-----------------------------------------------------------------------------
(* Cancels, the shutdown and the process.                                  *)

\* cancel() aborts an active run or a waiting call.
LEMMA CancelOK ==
  ASSUME IInv, NEW c \in Calls, Cancel(c) PROVE Keeps
<1>1. /\ Ready /\ up /\ up' = up /\ dispatching = NoCall /\ cancelling[c] = "none"
      /\ cancelling' = [cancelling EXCEPT ![c] = "asked"]
      /\ UNCHANGED <<handler, closing, awaited, crashes>>
  BY DEF Cancel, Ready, procVars
<1>2. TypeOK /\ Consistent(c)
  BY DEF IInv
<1>3. /\ cancelling' \in [Calls -> {"none", "asked", "true"}] /\ cancelling'[c] = "asked"
      /\ \A x \in Calls \ {c} : cancelling'[x] = cancelling[x]
  BY <1>1, <1>2 DEF TypeOK
<1>4. CASE pc[c] = "queued" /\ Sched!CancelQueued(c) /\ Follow(Nobody)
  <2>1. UNCHANGED <<aborted, signal, limit>>
    BY <1>4 DEF Sched!CancelQueued
  <2>2. BooksOK'
    BY <1>4, <2>1, SameCancelQueued, BooksKept DEF IInv, Books!Next
  <2>3. pc'[c] = "cancelled" /\ \A x \in Calls \ {c} : pc'[x] = pc[x]
    BY <1>4 DEF Sched!CancelQueued
  <2> QED
    BY <1>1, <1>3, <1>4, <2>1, <2>2, <2>3, TurnedAwayOK
<1>5. CASE pc[c] = "running" /\ AbortOnce(c) /\ UNCHANGED <<row, told, thrown, opVars>>
  <2>1. /\ BooksOK' /\ UNCHANGED <<pc, signal, stage, verdict>>
        /\ \A x \in Calls \ {c} : x \in aborted' <=> x \in aborted
        /\ dispatching' # c => (c \in aborted' <=> c \in aborted)
        /\ c \in aborted'
    BY <1>1, <1>5, AbortOnceOK DEF opVars, Registered
  <2>2. TypeOK'
    BY <1>1, <1>2, <1>3, <1>5, <2>1 DEF TypeOK
  <2>3. \A x \in Calls \ {c} : Bystander(x)
    BY <1>1, <1>3, <1>5, <2>1, InvocationAssumption DEF Bystander
  <2>4. Begun(c)' /\ Going(c)' /\ Lives(c)
    BY <1>1, <1>2, <1>5, <2>1 DEF Consistent, Begun, Going, Registered, Lives
  <2>5. Ending(c)'
    BY <1>1, <1>2, <1>3, <1>5, <2>1, InvocationAssumption
       DEF Consistent, Ending, Registered
  <2> QED
    BY <1>1, <1>5, <2>1, <2>2, <2>3, <2>4, <2>5, OneCall DEF Consistent
<1> QED
  BY <1>4, <1>5 DEF Cancel

\* cancel() tells what became of the row.
LEMMA CancelAnsweredOK ==
  ASSUME IInv, NEW c \in Calls, CancelAnswered(c) PROVE Keeps
<1>1. /\ up /\ up' = up /\ dispatching = NoCall /\ cancelling[c] = "asked" /\ ~Registered(c)
      /\ cancelling' = [cancelling EXCEPT ![c] = "true"]
      /\ UNCHANGED <<stage, verdict, row, handler, told, thrown, closing, awaited, crashes>>
      /\ UNCHANGED schedVars
  BY DEF CancelAnswered, Ready, opVars, procVars
<1>2. BooksOK' /\ UNCHANGED <<pc, signal, aborted, dispatching>>
  BY <1>1, BooksStill
<1>3. TypeOK /\ Consistent(c)
  BY DEF IInv
<1>4. TypeOK'
  BY <1>1, <1>3 DEF TypeOK
<1>5. \A x \in Calls \ {c} : Bystander(x)
  BY <1>1, <1>2, <1>3, InvocationAssumption DEF TypeOK, Bystander
<1>6. Begun(c)' /\ Going(c)' /\ Lives(c)
  BY <1>1, <1>2, <1>3 DEF Consistent, Begun, Going, Registered, Lives
<1>7. Ending(c)'
  BY <1>1, <1>2, <1>3 DEF Consistent, Ending, Registered, Honest
<1> QED
  BY <1>1, <1>2, <1>4, <1>5, <1>6, <1>7, OneCall DEF Consistent

\* The process stops or comes back: no handler is at work, and rows are left as they
\* are or interrupted.
LEMMA ProcessOK ==
  ASSUME IInv, BooksOK', TypeOK', thrown' = thrown, UNCHANGED <<told, signal>>,
         \A c \in Calls : /\ handler'[c] \in {"new", "done"}
                          /\ handler'[c] = "new" <=> handler[c] = "new"
                          /\ pc'[c] = IF Registered(c) THEN "rejected" ELSE pc[c]
                          /\ row'[c] \in {row[c], "interrupted"}
                          /\ row'[c] # row[c] => row[c] \in Unfinished
                          /\ up' => row'[c] \notin Unfinished
                          /\ stage'[c] = "cleanup" => stage[c] = "cleanup" /\ verdict'[c] = verdict[c]
                          /\ cancelling'[c] # "none" => cancelling'[c] = cancelling[c] /\ ~Registered(c)
  PROVE  Keeps
<1>1. ASSUME NEW c \in Calls PROVE Consistent(c)' /\ Lives(c)
  <2>1. Consistent(c)
    BY DEF IInv
  <2>2. pc'[c] \notin {"queued", "running"} /\ (pc[c] = "new" => pc'[c] = "new")
    BY DEF Registered
  <2>3. row[c] \in Unfinished => told[c] = "none" /\ row[c] # "absent"
    BY <2>1 DEF Consistent, Going, Unfinished, Outcomes, IInv, TypeOK
  <2>4. Begun(c)'
    BY <2>1, <2>2 DEF Consistent, Begun, Registered, Unfinished
  <2>5. Going(c)'
    BY <2>1, <2>2, <2>3 DEF Consistent, Going, Registered, Unfinished
  <2>6. Ending(c)'
    BY <2>1, <2>2, <2>3 DEF Consistent, Ending, Honest, Registered, Unfinished
  <2>7. Lives(c)
    BY DEF Lives, Lifecycle!After, Unfinished, Lifecycle!Terminal
  <2> QED
    BY <2>4, <2>5, <2>6, <2>7 DEF Consistent
<1> QED
  BY <1>1 DEF IInv, Keeps

\* Every registered run is cancelled in one go: who waited is turned away, who runs
\* finds its signal aborted.
LEMMA AbortActiveOK ==
  ASSUME IInv, AbortActive PROVE Keeps
<1> DEFINE waiting == {c \in Calls : pc[c] = "queued"}
           running == {c \in Calls : pc[c] = "running"}
<1>1. /\ up /\ up' = up /\ dispatching = NoCall /\ closing' = TRUE /\ Follow(Nobody)
      /\ awaited' = waiting \cup running
      /\ pc' = [c \in Calls |-> IF c \in waiting THEN "cancelled" ELSE pc[c]]
      /\ queue' = [queue EXCEPT ![Target] = <<>>]
      /\ aborted' = aborted \cup waiting \cup running
      /\ signal' = [c \in Calls |-> IF c \in running /\ signal[c] = "none" THEN "caller" ELSE signal[c]]
      /\ known' = Sched!KeepIfBusy(Target, active[Target], <<>>)
      /\ UNCHANGED <<target, timed, dispatching, active, limit, handler, cancelling, crashes>>
  BY DEF AbortActive, Ready
<1>2. TypeOK /\ \A c \in Calls : Consistent(c)
  BY DEF IInv
<1>3. BooksOK'
  <2>1. pc' = [c \in Calls |-> IF pc[c] = "queued" THEN "cancelled" ELSE pc[c]]
    BY <1>1
  <2>2. queue' = [t \in {Target} |-> <<>>]
    <3>1. DOMAIN queue = {Target}
      BY DEF IInv, BooksOK, Books!IInv, Books!TypeOK
    <3> QED
      BY <1>1, <3>1
  <2>3. known' \in SUBSET {Target}
    BY <1>1, BookTypes DEF Sched!KeepIfBusy, IInv
  <2>4. signal' \in [Calls -> {"none", "caller", "timeout"}]
    BY <1>1, BookTypes DEF IInv
  <2>5. timed' \in SUBSET Calls /\ aborted' \in SUBSET Calls /\ dispatching' \in Calls \cup {NoCall}
    BY <1>1, BookTypes DEF IInv
  <2>6. Books!IInv'
    BY <1>1, <2>1, <2>2, <2>3, <2>4, <2>5, SchedulerAssumed, Books!EmptiedStep
       DEF IInv, BooksOK, Books!Reasons
  <2> QED
    BY <1>1, <2>6 DEF IInv, BooksOK, WithinCapacity
<1>4. \A c \in Calls :
        /\ pc[c] = "queued" => pc'[c] = "cancelled" /\ c \in aborted' /\ signal'[c] = signal[c]
        /\ pc[c] = "running" => pc'[c] = "running" /\ c \in aborted' /\ signal'[c] # "none"
        /\ ~Registered(c) => /\ pc'[c] = pc[c] /\ signal'[c] = signal[c]
                             /\ c \in aborted' <=> c \in aborted
  BY <1>1 DEF Registered
<1>5. DOMAIN Nobody = {}
  BY DEF Nobody
<1>6. \A c \in Calls : ~Started(c) /\ (TurnedAway(c) <=> pc[c] = "queued")
  <2>1. \A c \in Calls : ~Registered(c) => pc'[c] = pc[c]
    BY <1>4
  <2>2. \A c \in Calls : pc[c] = "new" => pc'[c] = "new"
    BY <2>1 DEF Registered
  <2> QED
    BY <1>4, <2>1, <2>2 DEF Started, TurnedAway, Sched!Settled, Registered
<1>7. /\ thrown' = thrown
      /\ row' \in [Calls -> {"absent", "interrupted"} \cup Unfinished \cup Outcomes]
      /\ told' \in [Calls -> {"none"} \cup Outcomes]
      /\ stage' \in [Calls -> {"none", "workspace", "provider", "cleanup"}]
      /\ verdict' \in [Calls -> {"none"} \cup Outcomes]
      /\ \A x \in Calls :
           /\ TurnedAway(x) =>
                /\ row'[x] = IF pc'[x] \in {"queue_full", "queue_timeout"} THEN "failed"
                             ELSE "cancelled"
                /\ told'[x] = row'[x] /\ stage'[x] = stage[x]
           /\ ~Started(x) /\ ~TurnedAway(x) =>
                row'[x] = row[x] /\ told'[x] = told[x] /\ stage'[x] = stage[x]
           /\ verdict'[x] = verdict[x]
  <2>1. \A x \in Calls : Started(x) \/ TurnedAway(x) => x \notin DOMAIN Nobody /\ row[x] = "queued"
    BY <1>2, <1>5, <1>6 DEF Consistent, Going, Registered
  <2> QED
    BY <1>1, <1>2, <1>5, <2>1, Followed
<1>8. TypeOK'
  <2>1. awaited' \subseteq Calls
    BY <1>1
  <2> QED
    BY <1>1, <1>2, <1>7, <2>1 DEF TypeOK
<1> HIDE DEF waiting, running
<1>9. ASSUME NEW c \in Calls PROVE Consistent(c)' /\ Lives(c)
  <2>1. CASE pc[c] = "queued"
    <3>1. /\ row[c] = "queued" /\ told[c] = "none" /\ handler[c] \in {"open", "returning"}
          /\ cancelling[c] = "none"
      BY <1>2, <2>1 DEF Consistent, Going, Ending, Registered
    <3>2. row'[c] = "cancelled" /\ told'[c] = "cancelled" /\ stage'[c] = stage[c]
      BY <1>4, <1>6, <1>7, <2>1
    <3>3. Begun(c)' /\ Going(c)'
      BY <1>1, <1>2, <1>4, <1>7, <2>1, <3>1, <3>2
         DEF Consistent, Begun, Going, Registered, Outcomes
    <3>4. Ending(c)' /\ Lives(c)
      BY <1>1, <1>4, <2>1, <3>1, <3>2
         DEF Ending, Registered, Lives, Lifecycle!After, Lifecycle!Outcomes, Outcomes
    <3> QED
      BY <3>3, <3>4 DEF Consistent
  <2>2. CASE pc[c] = "running"
    <3>1. row'[c] = row[c] /\ told'[c] = told[c] /\ stage'[c] = stage[c]
      BY <1>6, <1>7, <2>2
    <3>2. Begun(c)' /\ Going(c)' /\ Lives(c)
      BY <1>1, <1>2, <1>4, <1>7, <2>2, <3>1 DEF Consistent, Begun, Going, Registered, Lives
    <3>3. Ending(c)'
      BY <1>1, <1>2, <1>4, <2>2, <3>1 DEF Consistent, Ending, Registered
    <3> QED
      BY <3>2, <3>3 DEF Consistent
  <2>3. CASE ~Registered(c)
    <3>1. row'[c] = row[c] /\ told'[c] = told[c] /\ stage'[c] = stage[c]
      BY <1>6, <1>7, <2>3 DEF Registered
    <3>2. Begun(c)' /\ Going(c)' /\ Lives(c)
      BY <1>1, <1>2, <1>4, <1>7, <2>3, <3>1 DEF Consistent, Begun, Going, Registered, Lives
    <3>3. Ending(c)'
      BY <1>1, <1>2, <1>4, <2>3, <3>1 DEF Consistent, Ending, Honest, Registered
    <3> QED
      BY <3>2, <3>3 DEF Consistent
  <2> QED
    BY <2>1, <2>2, <2>3 DEF Registered
<1> QED
  BY <1>2, <1>3, <1>7, <1>8, <1>9 DEF Keeps, IInv

\* The process ends, with its rows as they are.
LEMMA DiesOK ==
  ASSUME IInv, Dies, crashes' \in 0..MaxCrashes PROVE Keeps
<1>1. /\ up' = FALSE
      /\ pc' = [c \in Calls |-> IF Registered(c) THEN "rejected" ELSE pc[c]]
      /\ timed' = {} /\ dispatching' = NoCall /\ known' = {}
      /\ active' = [active EXCEPT ![Target] = 0] /\ queue' = [queue EXCEPT ![Target] = <<>>]
      /\ stage' = [c \in Calls |-> "none"]
      /\ handler' = [c \in Calls |-> IF handler[c] = "new" THEN "new" ELSE "done"]
      /\ cancelling' = [c \in Calls |-> IF cancelling[c] = "asked" THEN "none" ELSE cancelling[c]]
      /\ UNCHANGED <<target, aborted, signal, limit, row, told, verdict, thrown, closing, awaited>>
  BY DEF Dies
<1>2. TypeOK /\ \A c \in Calls : Consistent(c)
  BY DEF IInv
<1>3. BooksOK'
  <2>1. pc' = [c \in Calls |-> IF pc[c] \in {"queued", "running"} THEN "rejected" ELSE pc[c]]
    BY <1>1 DEF Registered
  <2>2. queue' = [t \in {Target} |-> <<>>] /\ active' = [t \in {Target} |-> 0]
    <3>1. DOMAIN queue = {Target} /\ DOMAIN active = {Target}
      BY DEF IInv, BooksOK, Books!IInv, Books!TypeOK
    <3> QED
      BY <1>1, <3>1
  <2>3. /\ timed' \in SUBSET Calls /\ aborted' \in SUBSET Calls /\ known' \in SUBSET {Target}
        /\ signal' \in [Calls -> {"none", "caller", "timeout"}]
        /\ dispatching' \in Calls \cup {NoCall}
    BY <1>1, BookTypes DEF IInv
  <2>4. Books!IInv'
    BY <1>1, <2>1, <2>2, <2>3, SchedulerAssumed, Books!ForgottenStep
       DEF IInv, BooksOK, Books!Reasons
  <2> QED
    BY <1>1, <2>2, <2>4, InvocationAssumption DEF IInv, BooksOK, WithinCapacity
<1>4. TypeOK'
  <2>1. /\ handler' \in [Calls -> {"new", "reserved", "open", "failing", "leaving", "returning", "done"}]
        /\ stage' \in [Calls -> {"none", "workspace", "provider", "cleanup"}]
        /\ cancelling' \in [Calls -> {"none", "asked", "true"}]
    BY <1>1, <1>2 DEF TypeOK
  <2> QED
    BY <1>1, <1>2, <2>1 DEF TypeOK
<1>5. \A c \in Calls : cancelling'[c] # "none" => cancelling'[c] = cancelling[c] /\ ~Registered(c)
  BY <1>1, <1>2 DEF TypeOK, Consistent, Ending
<1> QED
  BY <1>1, <1>3, <1>4, <1>5, ProcessOK

\* The process exits, or is killed.
LEMMA StopOK ==
  ASSUME IInv, Exit \/ Crash PROVE Keeps
<1>1. Dies
  BY DEF Exit, Crash
<1>2. crashes' \in 0..MaxCrashes
  BY InvocationAssumption DEF Exit, Crash, IInv, TypeOK
<1> QED
  BY <1>1, <1>2, DiesOK

\* interruptUnfinished() at the next start.
LEMMA RestartOK ==
  ASSUME IInv, Restart PROVE Keeps
<1>1. /\ ~up /\ up' = TRUE /\ closing' = FALSE /\ awaited' = {}
      /\ row' = [c \in Calls |-> IF row[c] \in Unfinished THEN "interrupted" ELSE row[c]]
      /\ UNCHANGED schedVars
      /\ UNCHANGED <<stage, verdict, handler, told, cancelling, thrown, crashes>>
  BY DEF Restart, opVars
<1>2. BooksOK' /\ UNCHANGED <<pc, signal>>
  BY <1>1, BooksStill
<1>3. TypeOK' /\ TypeOK
  <2>1. row' \in [Calls -> {"absent", "interrupted"} \cup Unfinished \cup Outcomes]
    BY <1>1 DEF IInv, TypeOK, Unfinished, Outcomes
  <2> QED
    BY <1>1, <2>1 DEF IInv, TypeOK
<1>4. \A c \in Calls : handler[c] \in {"new", "done"}
  BY <1>1, <1>3 DEF IInv, Consistent, Begun, TypeOK
<1>5. \A c \in Calls : ~Registered(c)
  BY <1>4 DEF IInv, Consistent, Begun, Registered
<1>6. \A c \in Calls : /\ row'[c] \in {row[c], "interrupted"} /\ row'[c] \notin Unfinished
                       /\ row'[c] # row[c] => row[c] \in Unfinished
  BY <1>1 DEF Unfinished
<1> QED
  BY <1>1, <1>2, <1>3, <1>4, <1>5, <1>6, ProcessOK

\* A step that changes nothing.
LEMMA StutterOK ==
  ASSUME IInv, UNCHANGED vars PROVE Keeps
<1>1. /\ UNCHANGED schedVars
      /\ UNCHANGED <<stage, verdict, row, handler, told, cancelling, thrown, up, closing, awaited, crashes>>
  BY DEF vars, opVars, procVars
<1>2. BooksOK' /\ UNCHANGED <<pc, signal, aborted, dispatching>>
  BY <1>1, BooksStill
<1>3. TypeOK'
  BY <1>1 DEF IInv, TypeOK
<1>4. ASSUME NEW c \in Calls PROVE Consistent(c)' /\ Lives(c)
  <2>1. Begun(c)' /\ Going(c)' /\ Lives(c)
    BY <1>1, <1>2 DEF IInv, Consistent, Begun, Going, Registered, Lives
  <2>2. Ending(c)'
    BY <1>1, <1>2 DEF IInv, Consistent, Ending, Registered, Honest
  <2> QED
    BY <2>1, <2>2 DEF Consistent
<1> QED
  BY <1>1, <1>2, <1>3, <1>4 DEF IInv, Keeps

\* Every step keeps the invariant, and moves rows and answers as RunLifecycle does.
LEMMA StepOK == IInv /\ [Next]_vars => Keeps
<1> SUFFICES ASSUME IInv, [Next]_vars PROVE Keeps
  OBVIOUS
<1>1. ASSUME NEW c \in Calls, Handler(c) PROVE Keeps
  BY <1>1, ReserveOK, OpenOK, DisconnectOK, HandlerEndsOK DEF Handler
<1>2. ASSUME NEW c \in Calls, Timers(c) PROVE Keeps
  BY <1>2, QueueTimeoutOK, RunTimeoutOK DEF Timers
<1>3. ASSUME NEW c \in Calls, Operation(c) PROVE Keeps
  BY <1>3, WorkspaceAcquiredOK, ProviderEndsOK, ReleasedOK DEF Operation
<1>4. ASSUME NEW c \in Calls, Canceller(c) PROVE Keeps
  BY <1>4, CancelOK, CancelAnsweredOK DEF Canceller
<1> QED
  BY <1>1, <1>2, <1>3, <1>4, AbortListenerOK, AbortActiveOK, StopOK, RestartOK,
     StutterOK DEF Next

-----------------------------------------------------------------------------
(* The theorems.                                                           *)

\* The invariant holds of every behaviour: the scheduler's books are right, and handler,
\* call, row, answer, abort and cancel of every run fit together.
THEOREM Invariance == Spec => []IInv
<1>1. IInv /\ [Next]_vars => IInv'
  BY StepOK DEF Keeps
<1> QED
  BY InitOK, <1>1, PTL DEF Spec

\* While the process is up, a row is running exactly while its call holds a slot.
LEMMA RunningRows ==
  ASSUME IInv, NEW c \in Calls, up
  PROVE  /\ row[c] = "running" <=> pc[c] = "running"
         /\ row[c] = "queued" <=>
              pc[c] = "queued" \/ handler[c] \in {"reserved", "failing", "leaving"}
<1>1. TypeOK /\ Consistent(c)
  BY DEF IInv
<1>2. CASE Registered(c)
  BY <1>1, <1>2 DEF Consistent, Going, Registered
<1>3. CASE ~Registered(c)
  <2>1. CASE handler[c] \in {"new", "reserved", "failing", "leaving"}
    BY <1>1, <1>3, <2>1 DEF Consistent, Begun
  <2>2. CASE handler[c] \in {"open", "returning"}
    BY <1>1, <1>3, <2>2 DEF Consistent, Going, Registered, Outcomes
  <2>3. CASE handler[c] = "done"
    BY <1>1, <1>3, <2>3 DEF Consistent, Begun, Registered, Unfinished
  <2> QED
    BY <1>1, <2>1, <2>2, <2>3 DEF TypeOK
<1> QED
  BY <1>2, <1>3

\* The invariant implies what the run checks.
LEMMA RowsAgreeNow == IInv => RowsAgree
BY RunningRows DEF IInv, RowsAgree

\* Table and memory agree while the process is up, and no transition of a row is ever
\* found impossible: markStarted, markQueuedFinished and markFinished never throw.
THEOREM TableAndMemoryAgree == Spec => []RowsAgree
BY RowsAgreeNow, Invariance, PTL

\* A run whose cancel was answered with "cancelled: true" was ended by it, or by its own
\* timer before; it never completes.
THEOREM CancelsAreHonest == Spec => []CancelIsHonest
<1>1. IInv => CancelIsHonest
  <2> SUFFICES ASSUME IInv, NEW c \in Calls, cancelling[c] = "true"
               PROVE  row[c] = "cancelled" \/ (row[c] = "failed" /\ signal[c] = "timeout")
    BY DEF CancelIsHonest
  <2>1. Ending(c)
    BY DEF IInv, Consistent
  <2> QED
    BY <2>1 DEF Ending, Honest
<1> QED
  BY <1>1, Invariance, PTL

\* Only an exit or a crash takes the process down, and neither touches the table.
LEMMA Stops ==
  ASSUME [Next]_vars, ~up'
  PROVE  row' = row /\ (up => Exit \/ Crash)
<1>1. ASSUME NEW c \in Calls, Handler(c) PROVE FALSE
  BY <1>1 DEF Handler, Reserve, Open, Disconnect, HandlerEnds, Ready, procVars
<1>2. ASSUME NEW c \in Calls, Timers(c) \/ AbortListener(c) PROVE FALSE
  BY <1>2 DEF Timers, QueueTimeout, RunTimeout, AbortListener, procVars
<1>3. ASSUME NEW c \in Calls, Operation(c) \/ Canceller(c) PROVE FALSE
  BY <1>3 DEF Operation, WorkspaceAcquired, ProviderEnds, Released,
              Canceller, Cancel, CancelAnswered, Ready, procVars
<1>4. ~AbortActive /\ ~Restart
  BY DEF AbortActive, Restart, Ready
<1>5. CASE Exit \/ Crash
  BY <1>5 DEF Exit, Crash, Dies
<1>6. CASE UNCHANGED vars
  BY <1>6 DEF vars, procVars
<1> QED
  BY <1>1, <1>2, <1>3, <1>4, <1>5, <1>6 DEF Next

\* What RunLifecycle asks of a step: rows and answers move as they may, and no row
\* starts to run beyond the capacity of the target.
LEMMA LifecycleStep == IInv /\ [Next]_vars => [Lifecycle!Next]_(Lifecycle!lifeVars)
<1> SUFFICES ASSUME IInv, [Next]_vars PROVE Lifecycle!Next
  OBVIOUS
<1>1. IInv' /\ \A c \in Calls : Lives(c)
  BY StepOK DEF Keeps
<1>2. /\ row' \in [Calls -> {"absent"} \cup Lifecycle!Unfinished \cup Lifecycle!Terminal]
      /\ told' \in [Calls -> {"none"} \cup Lifecycle!Outcomes]
  BY <1>1 DEF IInv, TypeOK, Unfinished, Outcomes, Lifecycle!Unfinished, Lifecycle!Terminal,
              Lifecycle!Outcomes
<1>3. \A c \in Calls : Lifecycle!Step(c)
  BY <1>1 DEF Lives, Lifecycle!Step, Lifecycle!Tells, Lifecycle!Outcomes, Outcomes
<1>4. Lifecycle!Running' \subseteq Lifecycle!Running
      \/ Lifecycle!Cardinality(Lifecycle!Running') <= Limit
  <2>1. CASE up'
    <3>1. \A c \in Calls : row'[c] = "running" <=> pc'[c] = "running"
      <4>1. RowsAgree'
        BY <1>1, RowsAgreeNow, PTL
      <4> QED
        BY <2>1, <4>1 DEF RowsAgree
    <3>2. target' \in [Calls -> {Target}]
      BY <1>1 DEF IInv, BooksOK, Books!IInv, Books!TypeOK
    <3>3. Lifecycle!Running' = Books!Running(Target)'
      BY <3>1, <3>2 DEF Lifecycle!Running, Books!Running
    <3>4. active'[Target] = Books!Cardinality(Books!Running(Target)') /\ active'[Target] <= Limit
      BY <1>1 DEF IInv, BooksOK, WithinCapacity, Books!IInv, Books!ActiveIsExact
    <3> QED
      BY <3>3, <3>4 DEF Lifecycle!Cardinality, Books!Cardinality
  <2>2. CASE ~up'
    BY <2>2, Stops DEF Lifecycle!Running
  <2> QED
    BY <2>1, <2>2
<1> QED
  BY <1>2, <1>3, <1>4 DEF Lifecycle!Next

\* A handler that has opened its stream never goes back, and the snapshot is taken of
\* such ones only.
LEMMA SnapshotKept == IInv /\ SnapshotOK /\ [Next]_vars => SnapshotOK'
<1> DEFINE Opened(x) == handler[x] \in {"open", "returning", "done"}
<1> SUFFICES ASSUME IInv, SnapshotOK, [Next]_vars PROVE SnapshotOK'
  OBVIOUS
<1>1. TypeOK /\ awaited \subseteq Calls /\ \A x \in awaited : Opened(x)
  BY DEF IInv, TypeOK, SnapshotOK
<1>2. ASSUME awaited' = awaited, NEW c \in Calls, NEW at \in {"open", "failing", "leaving", "returning", "done"},
             handler' = [handler EXCEPT ![c] = at], ~Opened(c) \/ at \in {"open", "returning", "done"}
      PROVE  SnapshotOK'
  BY <1>1, <1>2 DEF SnapshotOK, TypeOK
<1>3. ASSUME awaited' = awaited, handler' = handler PROVE SnapshotOK'
  BY <1>3 DEF SnapshotOK
<1>4. ASSUME NEW c \in Calls, Handler(c) PROVE SnapshotOK'
  <2>1. awaited' = awaited
    BY <1>4 DEF Handler, Reserve, Open, Disconnect, HandlerEnds, procVars
  <2>2. CASE Reserve(c)
    BY <1>1, <2>1, <2>2 DEF Reserve, SnapshotOK, TypeOK
  <2>3. CASE Open(c)
    BY <1>2, <2>1, <2>3 DEF Open
  <2>4. CASE Disconnect(c)
    BY <1>2, <2>1, <2>4 DEF Disconnect
  <2>5. CASE HandlerEnds(c)
    BY <1>2, <2>1, <2>5 DEF HandlerEnds
  <2> QED
    BY <1>4, <2>2, <2>3, <2>4, <2>5 DEF Handler
<1>5. ASSUME NEW c \in Calls, Timers(c) \/ AbortListener(c) PROVE SnapshotOK'
  BY <1>3, <1>5 DEF Timers, QueueTimeout, RunTimeout, AbortListener, procVars
<1>6. ASSUME NEW c \in Calls, Operation(c) \/ Canceller(c) PROVE SnapshotOK'
  BY <1>3, <1>6 DEF Operation, WorkspaceAcquired, ProviderEnds, Released, Canceller, Cancel,
                    CancelAnswered, procVars
<1>7. CASE AbortActive
  <2>1. handler' = handler /\ \A x \in awaited' : x \in Calls /\ Registered(x)
    BY <1>7 DEF AbortActive, Registered
  <2>2. \A x \in awaited' : handler[x] \in {"open", "returning"}
    BY <2>1 DEF IInv, Consistent, Going
  <2> QED
    BY <2>1, <2>2 DEF SnapshotOK
<1>8. CASE Exit \/ Crash
  <2>1. /\ handler' = [c \in Calls |-> IF handler[c] = "new" THEN "new" ELSE "done"]
        /\ awaited' = awaited
    BY <1>8 DEF Exit, Crash, Dies
  <2> QED
    BY <1>1, <2>1 DEF SnapshotOK
<1>9. CASE Restart
  BY <1>9 DEF Restart, SnapshotOK
<1>10. CASE UNCHANGED vars
  BY <1>3, <1>10 DEF vars, procVars
<1> QED
  BY <1>4, <1>5, <1>6, <1>7, <1>8, <1>9, <1>10 DEF Next

\* The snapshot holds what it should in every state.
LEMMA Snapshots == Spec => []SnapshotOK
<1>1. Init => SnapshotOK
  BY DEF Init, SnapshotOK
<1> QED
  BY <1>1, SnapshotKept, Invariance, PTL DEF Spec

\* What is unfinished when the process exits is of a client that has left, of whom
\* abortActive() did not know, and whom nobody has told an end.
LEMMA ExitLeaves ==
  ASSUME IInv, SnapshotOK, Exit, NEW c \in Calls, row[c] \in Unfinished
  PROVE  c \notin awaited /\ handler[c] \in {"leaving", "returning"} /\ told[c] = "none"
<1>1. /\ up /\ TypeOK /\ Consistent(c) /\ handler[c] \notin Connected
      /\ c \in awaited => ~Registered(c)
  BY DEF IInv, Exit, Ready
<1>2. row[c] # "absent" /\ row[c] \notin Outcomes
  BY DEF Unfinished, Outcomes
<1>3. handler[c] \in {"leaving", "returning"}
  BY <1>1, <1>2 DEF TypeOK, Connected, Consistent, Begun
<1>4. c \notin awaited
  BY <1>1, <1>2, <1>3 DEF SnapshotOK, Consistent, Going
<1>5. told[c] = "none"
  BY <1>1, <1>2 DEF TypeOK, Consistent, Going
<1> QED
  BY <1>3, <1>4, <1>5

\* The rows and the answers of the service implement RunLifecycle; and a graceful stop
\* leaves no run unfinished that was active when it began, and no client that stayed.
THEOREM LifecycleKept == Spec => KeepsLifecycle
<1>1. Init => Lifecycle!Init
  BY DEF Init, Lifecycle!Init
<1>2. IInv /\ SnapshotOK /\ [Next]_vars =>
        [up /\ ~up' /\ crashes' = crashes =>
           \A c \in Calls : row[c] \in Unfinished =>
             /\ c \notin awaited
             /\ handler[c] \in {"leaving", "returning"}
             /\ told[c] = "none"]_vars
  <2> SUFFICES ASSUME IInv, SnapshotOK, [Next]_vars, up, ~up', crashes' = crashes,
                      NEW c \in Calls, row[c] \in Unfinished
               PROVE  /\ c \notin awaited
                      /\ handler[c] \in {"leaving", "returning"}
                      /\ told[c] = "none"
    OBVIOUS
  <2>1. crashes \in Nat
    BY InvocationAssumption DEF IInv, TypeOK
  <2>2. ~Crash
    <3>1. crashes' # crashes + 1
      BY <2>1
    <3> QED
      BY <3>1 DEF Crash
  <2>3. Exit
    BY <2>2, Stops
  <2> QED
    BY <2>3, ExitLeaves
<1>3. Spec => Lifecycle!Spec
  BY <1>1, LifecycleStep, Invariance, PTL DEF Spec, Lifecycle!Spec
<1>4. Spec => GracefulExit
  BY <1>2, Invariance, Snapshots, PTL DEF Spec, GracefulExit
<1> QED
  BY <1>3, <1>4 DEF KeepsLifecycle
=============================================================================

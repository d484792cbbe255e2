-------------------------------- MODULE Turn --------------------------------
(***************************************************************************)
(* One start() or resume() of a provider adapter as its consumer sees it:  *)
(* an asynchronous generator that yields ProviderEvents, and a consumer    *)
(* that asks for the next one, aborts the request's signal and leaves with *)
(* return().  The adapters' modules (LineTurn, KimiTurn, CodexTurns,       *)
(* OpenCodeTurn) extend this one with what happens between two yields.     *)
(*                                                                         *)
(* The consumer is InvocationService.iterateProvider, which races next()   *)
(* with the signal and does not wait for return(), or the plain loop of a  *)
(* conformance probe, which knows neither.  return() on a generator that   *)
(* is running is queued until it yields.                                   *)
(***************************************************************************)
EXTENDS Naturals, Sequences, ManagedProcess

CONSTANTS
  Runs,
  MaxItems    \* bound: events before the terminal one

ASSUME TurnAssumption == MaxItems \in Nat

VARIABLES
  adapter,     \* the adapter of the runs
  at,          \* per run, where the generator awaits; "yield" while suspended at one
  cont,        \* where it goes on after the yield
  events,      \* what it yielded
  probe,       \* the consumer is a conformance probe
  unchecked,   \* the probe has yet to ask the provider's command for its version
  aborted,     \* request.signal
  returned,    \* return() was called while the generator was running
  requested,   \* cancellationRequested of the generator or of its ActiveRun
  advanced,    \* nativeStateAdvanced
  prompted,    \* history: the provider was given the prompt
  stopped,     \* history: the provider reported that its turn was interrupted
  registered,  \* the run is in activeRuns
  proc         \* its own provider process, for the adapters that start one

turnVars == <<adapter, at, cont, events, probe, unchecked, aborted, returned, requested,
              advanced, prompted, stopped, registered, proc>>

\* What no step of a generator changes.
outer == <<adapter, probe, unchecked, aborted, returned>>

\* What most of its steps leave as it is.
flags == <<requested, advanced, prompted, stopped>>

Clis     == {"claude", "cursor", "antigravity"}
Adapters == Clis \cup {"kimi", "codex", "opencode"}

TurnInit ==
  /\ adapter \in Adapters
  /\ at = [r \in Runs |-> "idle"]
  /\ cont = [r \in Runs |-> "idle"]
  /\ events = [r \in Runs |-> <<>>]
  /\ probe \in [Runs -> BOOLEAN]
  /\ unchecked = probe
  /\ aborted = [r \in Runs |-> FALSE]
  /\ returned = [r \in Runs |-> FALSE]
  /\ requested = [r \in Runs |-> FALSE]
  /\ advanced = [r \in Runs |-> FALSE]
  /\ prompted = [r \in Runs |-> FALSE]
  /\ stopped = [r \in Runs |-> FALSE]
  /\ registered = [r \in Runs |-> FALSE]
  /\ proc = [r \in Runs |-> NoProcess]

Terminal == {"completed", "cancelled", "failed", "failed_advanced"}
Kept(r)  == Len(events[r]) < MaxItems
Said(r, e) == \E i \in DOMAIN events[r] : events[r][i] = e

-----------------------------------------------------------------------------
(* The generator.                                                          *)

GoTo(r, label) == at' = [at EXCEPT ![r] = label] /\ UNCHANGED <<cont, events>>

\* Where return() takes a generator; one that has not begun has nothing to do.
Left(r) == IF cont[r] \in {"idle", "ended"} THEN "ended" ELSE "finally"

\* yield e, and go on at next.
Yield(r, e, next) ==
  /\ events' = [events EXCEPT ![r] = Append(@, e)]
  /\ at' = [at EXCEPT ![r] = IF returned[r] THEN "finally" ELSE "yield"]
  /\ cont' = [cont EXCEPT ![r] = next]

Failure(adv) == IF adv THEN "failed_advanced" ELSE "failed"

\* The signal is aborted before the generator begins: it says so and does nothing.
BeginAborted(r) ==
  /\ at[r] = "idle" /\ aborted[r] /\ probe[r] /\ ~unchecked[r]
  /\ Yield(r, "cancelled", "ended")
  /\ UNCHANGED <<outer, flags, registered, proc>>

CanBegin(r) == at[r] = "idle" /\ ~aborted[r] /\ ~unchecked[r]

-----------------------------------------------------------------------------
(* The consumer.                                                           *)

\* next() on a suspended generator.
Resume(r) ==
  /\ at[r] = "yield"
  /\ ~aborted[r] \/ probe[r]
  /\ GoTo(r, cont[r])
  /\ UNCHANGED <<outer, flags, registered, proc>>

\* return() of an aborted run.
Return(r) ==
  /\ aborted[r] /\ ~probe[r] /\ ~returned[r]
  /\ at[r] \notin {"finally", "ended"}
  /\ IF at[r] \in {"idle", "yield"} THEN GoTo(r, Left(r))
     ELSE UNCHANGED <<at, cont, events>>
  /\ returned' = [returned EXCEPT ![r] = TRUE]
  /\ UNCHANGED <<adapter, probe, unchecked, aborted, requested, advanced, prompted, stopped, registered, proc>>

\* opencode's probe takes note of every event, and judges the turns afterwards.
OnlyObserves == adapter = "opencode"

\* The events at which the loop of another one's probe throws.
Refused(e) == ~OnlyObserves /\ e \in Terminal \ {"completed"}

Refuse(r) ==
  /\ probe[r] /\ at[r] = "yield"
  /\ Refused(events[r][Len(events[r])])
  /\ GoTo(r, Left(r))
  /\ UNCHANGED <<outer, flags, registered, proc>>

ConsumerStep(r) == Resume(r) \/ Return(r) \/ Refuse(r)

\* The abort listener is there from the first step to the finally block.
Listening(r) ==
  ~(at[r] \in {"idle", "finally", "notifying", "disposing", "settling", "ended",
             "command", "leaving"})

-----------------------------------------------------------------------------
(* A static probe: the command is asked for its version, flags and models. *)

CommandSpawn(r) ==
  /\ unchecked[r] /\ at[r] = "idle"
  /\ \E ok \in BOOLEAN : proc' = [proc EXCEPT ![r] = Spawned(ok)]
  /\ GoTo(r, "command")
  /\ UNCHANGED <<outer, flags, registered>>

\* antigravity waits for the exit alone, the others for the end of the output too.
CommandOver(r) == /\ proc[r].seen
                  /\ adapter = "antigravity" \/ proc[r].leader = "unborn" \/ AtEof(proc[r])

\* The finally block; cont remembers whether the command has answered.
LeaveCommand(r, ok) ==
  /\ at[r] = "command"
  /\ proc' = [proc EXCEPT ![r] = Interrupted(@)]
  /\ at' = [at EXCEPT ![r] = "leaving"]
  /\ cont' = [cont EXCEPT ![r] = IF ok THEN "idle" ELSE "ended"]
  /\ UNCHANGED <<events, outer, flags, registered>>

CommandReturns(r) ==
  /\ CommandOver(r)
  /\ \E ok \in {FALSE, proc[r].clean} : LeaveCommand(r, ok)

\* antigravity's collector takes note of more output than the limit, and throws
\* when it is asked for its value.
OnlyCollects == adapter = "antigravity"

\* The others throw while the command still runs.
CommandOverflows(r) == ~OnlyCollects /\ LeaveCommand(r, FALSE)

\* kimi's command has a deadline, after which it is interrupted.
CommandTimesOut(r) == adapter = "kimi" /\ LeaveCommand(r, FALSE)

\* disposeQuietly is done: the probe goes on to a turn, or ends as unavailable.
CommandLeft(r) ==
  /\ at[r] = "leaving" /\ proc[r].stage = "done"
  /\ GoTo(r, cont[r])
  /\ unchecked' = [unchecked EXCEPT ![r] = cont[r] # "idle"]
  /\ proc' = [proc EXCEPT ![r] = IF cont[r] = "idle" THEN NoProcess ELSE @]
  /\ UNCHANGED <<adapter, probe, aborted, returned, flags, registered>>

CommandStep(r) ==
  \/ CommandSpawn(r) \/ CommandReturns(r) \/ CommandOverflows(r) \/ CommandTimesOut(r)
  \/ CommandLeft(r)

CommandFairness(r) ==
  /\ WF_turnVars(CommandReturns(r))
  /\ WF_turnVars(CommandTimesOut(r)) /\ WF_turnVars(CommandLeft(r))

-----------------------------------------------------------------------------
(* A run's own process.                                                    *)

ProcessStep(r) ==
  /\ LET p == proc[r] IN
     \/ p.leader = "alive" /\ ~p.kids /\ proc' = [proc EXCEPT ![r] = ForkKid(p)]
     \/ p.kids /\ proc' = [proc EXCEPT ![r] = EndKid(p)]
     \/ p.leader = "alive" /\ \E ok \in BOOLEAN : proc' = [proc EXCEPT ![r] = EndLeader(p, ok)]
  /\ UNCHANGED <<at, cont, events, outer, flags, registered>>

GraceEnds(r) ==
  /\ Escalating(proc[r])
  /\ proc' = [proc EXCEPT ![r] = Escalated(@)]
  /\ UNCHANGED <<at, cont, events, outer, flags, registered>>

\* The exit, or the failure to spawn, is noticed.
SeeExit(r) ==
  /\ CanSeeEnd(proc[r])
  /\ proc' = [proc EXCEPT ![r] = SeeEnd(@)]
  /\ UNCHANGED <<at, cont, events, outer, flags, registered>>

OwnProcessStep(r) == ProcessStep(r) \/ GraceEnds(r)
=============================================================================

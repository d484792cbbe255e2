# Agent Squad Gateway in TLA+

Agent Squad Gateway exposes the models of locally installed coding CLIs through an
OpenAI-compatible API. One Node.js process per installation serves HTTP, keeps its control plane
in SQLite, runs provider CLIs as child processes in directories it manages, and streams what they
say to its clients. This directory holds specifications of the parts whose correctness depends on
the order in which things happen, the TLC configurations that check them on small instances, and
proofs, checked by TLAPS, of the invariants that matter most.

Paths in this file are relative to the repository; the modules cite the same paths, and
`PROJECT.json` maps every definition to the lines it stands for.

    tlc -workers 2 -config Scheduler.cfg MCScheduler     # one run; all are listed in section 4
    tlapm SchedulerProofs.tla                            # one module of proofs

## 1. The system

### Components, their state, and what makes them correct

| Component | Source | State | Operations | What must hold | Modelled in |
| --- | --- | --- | --- | --- | --- |
| Target scheduler | `src/provider-runtime/scheduler.ts` | per target: active count, limit, FIFO queue; per call: timers and abort listeners | run, finish, drain, cancelQueued, timeout, abort | limits never exceeded by an admission, no free slot while a call waits, FIFO, each call settles once | `Scheduler` |
| Provider stream of a run | `src/provider-runtime/invocation-service.ts` | one bounded channel, one iterator, one retry | invoke, next/return of the stream, cancel | an ordered stream with one end; whoever waits is answered; one retry at most, and only if nothing happened | `ProviderStream` |
| Invocation service and run rows | `invocation-service.ts`, `src/control-plane/runs.ts`, `src/extensions/openai/run-attempt.ts` | active runs, table `runs` | reserve, mark*, cancel, abortActive, interruptUnfinished | forward only, one end, the outcome the client was told | `Invocation` |
| Provider adapters | `src/provider-runtime/{claude,codex,cursor,kimi,opencode,antigravity}/` | a CLI's session and turn, a shared server | start, resume, cancel, dispose, the commands of a probe | the event contract; nothing left behind; a replacement server is spared | `LineTurn`, `KimiTurn`, `CodexTurns`, `OpenCodeTurn` |
| Provider processes | `src/provider-runtime/process/` | a process group | spawn, interrupt, dispose, runCommand | everything in the group is gone in the end | `ManagedProcess`, `Turn` |
| Image assets | `src/provider-runtime/image-assets.ts` | the directory of a request's files | materialize, download, release | no directory outlives its run, whichever step fails | `ImageAssets` |
| Workspaces | `src/provider-runtime/workspaces.ts` | directories, markers, quarantine, staging, leases | acquireChat, createResponse, openResponse, release, cleanupForRetention | nobody works in what another run left; no failure wedges the manager | `Workspaces` |
| Response sessions | `src/control-plane/response-sessions.ts` | table `response_sessions`: doubly linked chains | acquire, complete, release, fail, create, retention | one continuation at a time, history is final, locks always end | `ResponseSessions` |
| Responses endpoint | `src/extensions/openai/responses.ts` | a request's progress | first and continuing requests, streamed or not | every way to fail settles the chain and the workspace | `Responses`, `Delivery` |
| Chat endpoint | `src/extensions/openai/chat.ts` | a request's progress | first request, duplicate, stream | an owner settles what duplicates wait for | `Delivery`, `Idempotency` |
| Streaming writer | `src/extensions/openai/sse.ts` | write chain, heartbeat, disconnection | event, close, the two stream writers | frames in order, nothing after the end, the iterator is returned | `SseConnection`, `Delivery` |
| Idempotency | `src/control-plane/idempotency.ts`, `src/provider-runtime/replay-buffer.ts` | table `idempotency_keys`; a byte-bounded buffer in memory | begin, publish, complete, fail, attach, evict | one run per key and body, duplicates get its answer or a refusal, none waits for ever | `Idempotency`, `ReplayBuffer` |
| Clients and credentials | `src/control-plane/clients.ts`, `credentials.ts` | two tables | create, setStatus, delete; issue, rotate, revoke, expire, authenticate | a deleted client leaves nothing that answers another | `Access`, in `Idempotency` |
| Targets, capabilities, grants | `src/control-plane/targets.ts`, `grants.ts`, `src/provider-runtime/capability-service.ts` | tables `invocation_targets`, `grants`, availability per tool | create, update, delete, verifyTarget, scanInstalled, grant, revoke, authorize | only a proven contract is enabled; no stale verdict; no inherited grant | `Targets` |
| Retention | `src/control-plane/retention.ts` | the active sweep | reconcileStartup, sweep | takes only what is due and unused; a crash leaves no lock | `Responses`, `Idempotency` |
| Lifecycle | `src/lifecycle/`, `src/bin/`, `src/server/app.ts` | the pid file, the port, signals, hooks of start and close | start, stop, status, ready, close | one gateway per directory, named by the file; nothing stays behind | `Lifecycle` |
| Administration API | `src/server/admin-routes.ts` | none of its own | routes | | the modules of what it changes |
| Core debugging | `src/core-client/`, `src/server/core-routes.ts` | a proxied event stream | connect, reconnect | does not keep a closing gateway for ever | `Lifecycle` (the stream only) |
| Tools, schemas, model profiles, registry, administrator authentication, database, configuration, Web UI | see section 8 | | | | no |

### How they interact

A request for a model goes through the parts in this order. The extension's handler authenticates
the key, authorizes the target and **reserves a row in `runs`** (state `queued`), asks the
**idempotency service** whether it owns its key, opens a workspace (Responses) and the stream of
`InvocationService.invoke()`. The stream is lazy: the first `next()` enters the **scheduler**. When
the scheduler admits the call, the *operation* acquires a workspace (chat) and image files, marks
the row `running`, and iterates the **adapter**, whose events pass one at a time through a
**bounded channel** to the handler. The adapter drives a **process** of its own, or a server it
shares with other runs. The operation then releases what it holds, marks the row and sends one
terminal event. The handler answers, as JSON or frame by frame through the **write chain** of the
connection, and settles the **response chain** and the **idempotency key** before the client
is told of the end, and its own lease. Administration (`cancel`, edits of targets,
revocations), the hourly **retention** sweep, the timers of queue and run, the client's
disconnection, and the shutdown hook (`abortActive`, `dispose`, `stop`) act on the same state at
any moment in between. A crash loses all of it but SQLite and the file system; the next start
reconciles them (`reconcileStartup`, `scanInstalled`, `sweepRecovery`), and the **pid file** is
what keeps a second start from doing so while the first gateway still works.

### What is hard

- *Interleavings.* The program is single threaded, but every `await` lets others run, and a
  listener of an abort event may call back into the object that dispatches it. Commands of several
  processes interleave at every system call.
- *Stale state.* A probe takes minutes and then writes a verdict about a row; a sweep awaits file
  removals between reading what is due and deleting it; a run reaches its catch block long after
  the server it used was replaced.
- *Settlement.* Three abort sources, a provider that may ignore them, a client that may go away or
  stop reading, and cleanup that may fail: each party must be answered exactly once.
- *Crashes.* Database, files and memory each keep a part of the truth.
- *Limits.* Queue places, slots, the one-slot channel, the byte limit of the replay buffer, the
  buffer of a socket.

`PROJECT.json` lists each such hazard at its line with the properties that would show it.

## 2. Modelling conventions

**Steps.** A step is one macrotask (an HTTP handler, a timer, an answer of a provider, of the
file system or of the network) together with all the microtasks it triggers. An `await` on something real ends
a step; an `await` of something already settled does not. SQLite calls (better-sqlite3) are
synchronous, so a transaction is one step. The workspace manager and the commands of the lifecycle
are synchronous within one process, but their system calls can fail, the process can die between
them, and other processes run, so there each call is a step.

**Data.** Identifiers, versions and directories are model values. A configuration is what the rules
tell apart. Texts and payloads are left out, except where an answer's size, its kind or its equality
with another matters.

**Bounds** are named constants (`MaxItems`, `MaxTime`, `MaxFaults`, `MaxCrashes`, `MaxWrites`,
`MaxBytes`, `MaxDeltas`, `MaxBeats`, `MaxInbox`, `MaxActs`, `Servers`), used in guards only to stop
counters, and given in the `.cfg` files.

**Failures.** A call that may fail has a disjunct for it. Failing checks of links and identities in
the workspace manager are faults like any other.

**History variables** (`raced` and `late` of `Lifecycle`, `told` of `CodexTurns`, `prompted` and `stopped` of
`Turn`, `doubted` of `Targets`, `work` of `Workspaces`) record what happened, for properties to read; no action's guard does.

## 3. Modules

| Module | Kind | Models |
| --- | --- | --- |
| `Scheduler` | component | `TargetScheduler`: `Run`, `QueueTimeout`, `CancelQueued`, `Abort`, `AbortListener`, `RunTimeout`, `Finish`; `Drained` is the loop of `drain`, `Evict` the three ways to leave the queue. `dispatching` is the window between setting an abort flag and running the scheduler's listener |
| `SchedulerProofs` | proofs | see section 6 |
| `EventStream` | abstract | what a consumer of a run sees: session, items without a gap, one terminal, the end |
| `ImageAssets` | component | the images of one run: a batch and the steps of its downloads, as operators that `ProviderStream` takes |
| `ProviderStream` | composition | one run: the operation's stages (`op`), its images, `iterateProvider` with its retry, `BoundedChannel` (`pending`, `closed`, `reading`), the aborts, `return()` |
| `ProviderStreamProofs` | proofs | see section 6 |
| `RunLifecycle` | abstract | what the table and the clients see of runs |
| `Invocation` | composition | handlers, invocation service, run rows, cancel route, shutdown and crashes over an instance of `Scheduler`, taken action by action |
| `InvocationProofs` | proofs | see section 6; over an instance of `SchedulerProofs` |
| `ManagedProcess` | component | the algebra of a process group and of the escalation of `interrupt()` |
| `TurnContract` | abstract | what the invocation service assumes of every adapter's events |
| `Turn` | component | an adapter's generator and its consumer: `next`, abort, a queued `return()`, a probe's commands |
| `LineTurn` | component | claude, cursor, antigravity: one print process per run |
| `KimiTurn` | component | kimi: a producer and notifications over ACP, joined by an event queue |
| `CodexTurns` | component | codex: several runs on one app server, subscriptions, a client that fails and is replaced |
| `OpenCodeTurn` | component | opencode: a shared server, a prompt that races its events, a session to delete |
| `ProviderTurns` | composition | the four modules above under one `Next`, with the properties of all adapters |
| `SseConnection` | component | `openSse`: the chain of writes, back-pressure, heartbeats, disconnection, `close()` |
| `Delivery` | composition | both endpoints and both writers over `SseConnection`, with a key and a chain each, and the duplicate of a request |
| `ResponseSessions` | component | the repository: each operation `X` with its condition `CanX` |
| `Responses` | composition | the endpoint, workspaces of chains, the sweep and crashes over `ResponseSessions`, between several requests |
| `ResponsesProofs` | proofs | see section 6 |
| `ReplayBuffer` | component | the buffer's operations as functions of a buffer value, in which `older[x]`, the ids touched less recently than `x`, stands for the order of the code's Map |
| `Access` | component | clients, credentials and the administrator's routes to them |
| `Idempotency` | composition | the service, its table, the handlers that call it, and the sweep of keys over `ReplayBuffer` and `Access` |
| `IdempotencyProofs` | proofs | see section 6 |
| `TargetGate` | abstract | a target is proven before it is enabled, and never removed while enabled |
| `Targets` | composition | target rows, verification, scan, administration, grants and the calls that rely on them |
| `TargetsProofs` | proofs | see section 6 |
| `Workspaces` | component | the workspace manager, step by step, with faults and crashes |
| `WorkspacesProofs` | proofs | see section 6 |
| `Lifecycle` | composition | the commands of several processes over one pid file, port and database; the hooks of start and close; the core's event stream |
| `LifecycleProofs` | proofs | see section 6 |
| `MC*` | instances | constants, symmetry, and initial states up to symmetry |

The composition goes by refinement where it can. `Scheduler` is an instance inside `Invocation`,
`ProviderStream` implements `EventStream`, `Invocation` implements `RunLifecycle`, the adapters
implement `TurnContract`, `Targets` implements `TargetGate`. `ProviderStream` uses the adapter as
`TurnContract` allows and more, so that its properties do not rest on it; `Delivery` uses the run as
`EventStream` and `TurnContract` describe it, and the keys and the chains as `Idempotency` and
`Responses` refine them.

Notes on faithfulness:

- *Scheduler.* A listener of the caller that runs before the scheduler's own may call `run` or
  `cancelQueued`; only the dispatching call's own listener is delayed. Limits are arguments of every
  `run`, as in the code, so they change while calls wait.
- *ProviderStream.* The adapter is free: it may send what it likes, break the protocol, throw, end
  early or stay silent. After an abort the iterator's `return()` is not awaited, as in the code.
- *Invocation.* What happens inside a running operation is collapsed to the stages whose answers
  change a row; `ProviderStream` has the detail.
- *Adapters.* The provider is free within its transport: it may say, ignore or break anything, end
  at any time with any code, and leave descendants; and it may create a session for a run that has given
  up asking for one. An app server of codex that is being disposed of goes on answering until its
  output ends (`"ending"`). Assumptions: kimi's agent sends the updates of a turn before the answer to
  its prompt, and none of another session; a descendant that has left its process group does not keep the
  output of the group open, for which a run, and an interrupt of it, would wait. One behaviour is one adapter. Texts, argument lists
  and model lists are left out, and so is the fake adapter, a test double.
- *Delivery.* A faulty database call or file operation fails as a whole. The number of heartbeats is
  unbounded in the code. A client that keeps its connection but does not read is one of the
  behaviours, except of the liveness property.
- *Responses.* A database call that settles a request is taken to succeed; `Delivery` has
  such faults. How a run is queued and cancelled is left to `Invocation`; a run submits its prompt,
  starts its session, completes or fails. Left out: fixed workspaces, the continuation run's own
  lease, validation of identifiers, the metadata of call ids.
- *ReplayBuffer.* A Map keeps its keys in the order of insertion, and `touch` deletes and sets; both
  are used only to find the oldest entry. The buffer keeps for each entry the set of older ones, which is the
  same order, and in which the loop of `enforceLimit` has a closed form: an entry goes if it and all
  that are newer exceed the limit.
- *Idempotency.* Assumption, in the guard of `Tick`: a run ends before its key's thirty days do.
  Deleting a client takes its credentials and keys with it, by the cascades of the schema.
- *Targets.* Assumption: the system clock does not step back across a restart (within a process
  `nextTargetTimestamp` makes it monotonic). Probes may answer any version at any time. Left out:
  aliases, acknowledgements, field validation, the client's status and the extension switch in
  `authorize`, `setCapability` and `invalidateCapability` (not called under `src/`).
- *Workspaces.* Fixed workspaces are left out. The directories' random names are fresh.
- *Lifecycle.* A gateway has one request at a time. A process identifier is not reused. The port is bound by one process at a time, by the
  operating system.

Definitions that follow a `Mutant of X` comment are not part of the model: each is a plausible bug
in place of `X`, and is kept to show that the property it is paired with in `PROJECT.json` notices.

## 4. The runs

| Run | Instance | What it shows |
| --- | --- | --- |
| `scheduler` | 3 calls, 2 targets, limits 1..2, queues of 0 or 2 places, a shared run id | `BooksAreExact`: counters, queues and the states map are exact, and no slot is free while a call waits; `NeverOverAdmits`; `InOrder`: FIFO, no barging, an aborted call never starts; `QueuedLeaves`: a call leaves the queue even if no operation settles |
| `stream` | up to 3 produced events, two attempts, 0 to 3 images (2 allowed), all failures and aborts | `KeepsPromise`: `ProviderStream` implements `EventStream`; `ChannelAgrees`, `AtMostOneEffect`: at most one attempt has an effect; `SettledIsComplete`: everything is released before the terminal event, image files included; `StreamEnds`: readers and returners are not left waiting |
| `invocation` | 2 requests, 1 slot, 0 or 1 queue place, 1 crash | `KeepsLifecycle`: the composition implements `RunLifecycle`, and a graceful stop waits for the runs it found active; `CancelIsHonest`: `cancel` says true only for a run it ended; `RowsAgree`: slots, rows and processes agree; `AbortedRunEnds` |
| `turns` | six adapters, 2 events before the terminal one, 2 runs and 2 servers for codex, one run and its probe for the others | `HonoursContract`: every adapter implements `TurnContract`; `NothingLeftBehind`: no process, entry, named session or untold native turn, but for two cases of opencode (section 7); `ReplacementSpared`: a late failure takes only the server it used; `AbortedTurnEnds`, with the group that ignores signals |
| `delivery` | a request and its duplicate, 8 shapes of both endpoints, 1 delta, a buffer of 2 frames, 1 heartbeat, 1 fault | `ToldIsKept`: what a client was told is already in the tables and stays; `TranscriptIsLegal`: a client reads a transcript or the beginning of one; `NothingHeld`: no timer, iterator, lease, lock or key is left, and one frame waits at a time; `HandlersEnd` |
| `delivery_replay` | the same | *violated*: see section 7 |
| `responses` | 3 streamed responses, 1 target, 2 ticks, 2 faults, 1 crash | `ChainsAreLines`: chains are lines, with one owner per lock; `AnsweredCanContinue`; `HistoryStands`: what failed or was continued stays so, and the sweep spares what is used; `NoWorkspaceLeaks` |
| `responses_advanced` | 2 responses, no fault, no crash | *violated*: see section 7 |
| `idempotency` | 3 calls of 2 clients, 3 credentials, 1 key, 2 bodies, sizes 1 and 3 of 2 bytes, 3 ticks, 2 acts of administrators, 1 crash | `WaitersHaveOwners`: the buffer's books are exact and every duplicate that waits has an owner; `AnswersMatch`; `RunsOnce`: one run per key; `ClientsLeaveNothing`: of a deleted client no run is queued or running and no key or credential is left |
| `targets` | 1 identifier, 2 versions, 2 verifications, 1 scan, 1 call, 4 writes | `RowsAreProven`, `NoStaleVerdict`, `NothingInherited`: calls execute what was proven for the target they were authorized for; `GatesHold`: `Targets` implements `TargetGate` |
| `workspaces` | 2 runs, 1 slot, 1 response, 5 directories, 2 faults, 1 crash | `Isolated` with exact leases; `OnlyRetentionRemoves` a response's directory; `RecoveryIsBounded`; `NeverWedged` |
| `lifecycle` | 3 processes, which serve; serve or launch; stop or ask for the status; 2 faults | `NamedWhileItRuns`: a gateway that works is named by the pid file, and serves with its own rows only; `LeavesNothing`: not a port, a stream or a file, whichever step failed, nor a row but of a run begun late; `CommandsEnd` |

**Why the bounds are enough to be of use.** Each instance has one more actor than the races it is
about. Three calls give a queue of two behind a running call, the least in which order, a drain
under a raised limit and the removal of an inner entry differ. Three events distinguish the
session, an item waiting in the one-slot channel and the next one. Three images are one more than
are allowed, so that the limits on their number and their sum are both met. Three responses are a
chain with an inner row, or a chain and a competing first request; they are streamed because a
request that is not does the same to the tables and tells its identifier only at the end, so its
behaviours are among the stream's (`delivery` has both). Three calls of one key are an owner, a
duplicate, and an evicting owner or a retry after expiry; with two clients a key can be taken by
either. Two verifications and a scan are the least in which an older
verdict can overtake an invalidation that a newer one has already answered; four writes are enough
to create, edit, doubt and prove. Two faults let a rollback fail after a commit failed. One crash
can fall at every step, and a second one would meet the same persistent states. Two app servers are
the one that fails and its replacement; of their two runs one is aborted and one stays, which is
what `ReplacementSpared` compares. A buffer of two frames with one delta and one heartbeat fills
in the middle of a transcript, and the shapes are chosen so that every branch of both writers and
both JSON handlers is taken. Three processes are two gateways that compete for the file and a
command that looks at it; with the second launching, it is a command and its child. What the runs
`scheduler`, `targets`, `stream`, `invocation`, `idempotency`, `workspaces`, `lifecycle` and
`responses` check of safety does not rest on these bounds: it is proved.

**Deadlock** is checked except where the system may stop: `stream` (a run is over),
`invocation` (both requests answered, the process stopped for good), `turns` (a provider is silent
and nobody aborts) and `lifecycle` (every process has ended).

**Symmetry** is used only in runs without liveness properties.

## 5. Fairness

- *Scheduler:* timers fire and listeners of a dispatched abort event run. Nothing is assumed of
  operations or callers: a provider may run for ever.
- *ProviderStream:* for the first half of `StreamEnds`, that a return ends: that the file system answers, images included, and the
  adapter settles its own `return()` and `cancel()`, no more: neither the run timer nor the
  provider's next event. For the second half, that reads end: also that the reader reads, the
  queue moves (`QueuedLeaves` of the scheduler) and the run timer fires.
- *Invocation:* timers, listeners, handlers and the file system go on; an iteration that was aborted
  ends (the race with the signal in `nextProviderEvent`); a process that is down is started again.
  A provider that is not aborted is *not* assumed to end.
- *ProviderTurns:* the adapter's own steps, the timers of the escalation and of kimi's commands, the
  notice that a process has ended, and a consumer that goes on reading or leaves. Of a provider
  only that SIGKILL ends its group: it may be silent, ignore SIGINT and SIGTERM, and keep its
  pipes open.
- *Delivery:* promises settle, a run ends (by its run timer if by nothing else), and a client reads
  what it was sent or goes away. The last is an assumption about clients that the gateway does not
  enforce: nothing times out a client which keeps its connection and does not read, so one may hold its
  handler, and with it its key, for ever. The safety properties do not use it.
- *Lifecycle:* one condition for each process: a command goes on with what it has to do, and while
  a gateway waits for its open connections, its request ends (by its run timer if by nothing else) and a
  browser that watches it leaves (the proxy of core events does not end by itself). Gateways may serve for ever.

A target may be configured without a run timeout, and then relies on its provider: the second half of `StreamEnds` and
`HandlersEnd` are statements about targets with one.

**`raced`.** `NamedWhileItRuns` does not hold unconditionally: between reading the pid file and
what a command does about it (remove a stale file, or write its own), another command can change it.
Two starts at once may both go on, and the one whose port is taken removes the file that names the
other one, after it marked the other's unfinished rows as interrupted. `raced` records that the file changed in that window; the property
says that this is the only way. `LeavesNothing` and `CommandsEnd` hold inside it too.

**`late`.** A stop does not leave every row finished. `abortActive`
(`src/provider-runtime/invocation-service.ts:452`) cancels and awaits the runs that are active when it
looks, no flag refuses those that come later, and `server.close` waits for open connections and not
for handlers. A request routed before may reserve its row, or begin its run, after that; when its client
then leaves, the database is closed and the process exits over it (`src/lifecycle/daemon.ts:242`).
`KeepsLifecycle` and `LeavesNothing` say that only such a row is left: of a run that was not active at
the snapshot (`awaited` in `Invocation`, `late` in `Lifecycle`), and, in `Invocation`, of a client that has
left and with an outcome that nobody was told. `RowsAgree` says that the next start interrupts it.

## 6. Proofs

Of eight modules all the safety properties that their runs check are theorems, for every value of the
constants that the assumptions allow. Each `*Proofs` module has the same plan: an inductive invariant
`IInv`, a lemma per action that it is kept (`...Step`, `...OK`, `...Keeps`), the theorem `Invariance`
(`Spec => []IInv`), and the theorems below, which follow from it.

| Module | Theorem | States |
| --- | --- | --- |
| `SchedulerProofs` | `BooksExact` (and `TypeCorrect`, `ActiveExact`, `QueueExact`, `Conserving`) | `Spec => []BooksAreExact` |
| | `WithinLimit` | `Spec => NeverOverAdmits` |
| | `FirstComeFirstServed` | `Spec => InOrder` |
| `ProviderStreamProofs` | `SlotAgrees`, `OneEffect`, `CompleteWhenSettled` | `Spec => []ChannelAgrees`, `[]AtMostOneEffect`, `[]SettledIsComplete` |
| | `PromiseKept` | `Spec => KeepsPromise`: `ProviderStream` implements `EventStream` |
| `InvocationProofs` | `TableAndMemoryAgree`, `CancelsAreHonest` | `Spec => []RowsAgree`, `[]CancelIsHonest` |
| | `LifecycleKept` | `Spec => KeepsLifecycle`: `Invocation` implements `RunLifecycle`; a graceful stop leaves no unfinished row of a run it found active, nor one with an outcome that a client was told |
| `IdempotencyProofs` | `NobodyWaitsInVain`, `OnlyTheirOwnAnswers`, `DeletionIsComplete` | `Spec => []WaitersHaveOwners`, `[]AnswersMatch`, `[]ClientsLeaveNothing` |
| | `OneRunPerKey` | `Spec => RunsOnce` |
| `TargetsProofs` | `RowsProven`, `NeverStale`, `NothingIsInherited` (and `Proven`, `RunsAreProven`) | `Spec => []RowsAreProven`, `[]NoStaleVerdict`, `[]NothingInherited` |
| | `GateImplemented` | `Spec => GatesHold`: `Targets` implements `TargetGate` |
| `WorkspacesProofs` | `WorkspacesAreIsolated`, `LittleIsLeftBehind`, `NothingIsWedged` | `Spec => []Isolated`, `[]RecoveryIsBounded`, `[]NeverWedged` |
| | `ResponsesAreKept` | `Spec => OnlyRetentionRemoves` |
| `LifecycleProofs` | `OneGateway`, `NothingIsLeft` | `Spec => []NamedWhileItRuns`, `[]LeavesNothing` |
| `ResponsesProofs` | `ChainsStayLines`, `AnsweredStaysOpen`, `WorkspacesAccounted` | `Spec => []ChainsAreLines`, `[]AnsweredCanContinue`, `[]NoWorkspaceLeaks` |
| | `HistoryIsKept` | `Spec => HistoryStands`, of which `SweepSparesUsers` is a part |

The bounds on time, faults, crashes, acts and events (`MaxTime`, `MaxCrashes`, ...) are any natural
numbers in these theorems, so that they bound nothing.

### The assumptions

They are the named `ASSUME`s of the modules, and TLC evaluates them for the constants of each run.
Most say that a null value (`None`, `NoCall`, `NoProc`, `NoEvent`, `Never`, `Nobody`) is not one of the
values it stands beside, and that limits are numbers, positive where the code validates them so. Beyond that:

- `SchedulerAssumption`, `InvocationAssumption`: finitely many calls, because the scheduler's counter is
  compared with the number of those that run. A process receives finitely many in its life.
- `WorkspacesAssumption`: `Slots` is a sequence of slot paths, and a slot's path is neither that of a temporary directory
  nor that of a response. `workspaces.ts` joins the name of each kind to a root of its own.
- `ResponseSessionsAssumption`, `ResponsesAssumption`: the SQL NULL is not a response id, a row lives for a positive
  time, and a request is streamed or not. The set of response ids may be infinite: that the table holds finitely
  many rows, without which a walk along a chain need not end, is part of the invariant.
- `ReplayBufferAssumption`: the time a completed entry stays is positive; the default is ten minutes, and the
  gateway sets no other.

### The arguments

**Scheduler.** `IInv == TypeOK /\ QueueInv /\ ActiveIsExact /\ WorkConserving`, and no part of it is inductive by
itself. A drain takes `min(free slots, queue length)` entries, so exactness of the counter needs the
queue to have no duplicates (otherwise a call would be counted twice) and to hold only waiting
calls; that in turn needs the removal of entries (`Drop`) to be exact; and work conservation needs the
counter to be the number of running calls, because an eviction leaves the counter alone and relies
on no slot being free. The lemmas about `Drained` and `Drop` state what these functions of queues
return (`DrainedFacts`, `DropFacts`). That the map of states is exact (`NoIdleState`) is proved
relative to `IInv` (`StepKeepsBusy`). `InOrder` is a property of steps and follows from what a drain and an eviction
leave of a queue (`EmptiedStep`, `ForgottenStep`): what stays keeps its order, and what started was in front of it.

**ProviderStream.** The parts of `IInv` are what the materializer knows of its batch at each stage (`Sound`),
where images and workspace are while the operation awaits something (`HoldsWhatItMust`), what the
outcome must say by then (`OutcomeIsHonest`), the effects of the present attempt (`EffectsKnown`), who waits
at the channel and who can still write to it (`ChannelIInv`), and what the consumer has got of what was
produced (`StreamIInv`). They need each other: that a retry has had no effect rests on the adapter's session or its
failure having told of it (`EffectsKnown`); that the terminal event comes once and last rests on who may still close the channel
(`ChannelIInv`). The mapping of the refinement is `Shown`, what the consumer has got; the events are numbered by what
was produced, so that "without a gap" needs the count in `StreamIInv`. Each step extends `Shown` by the next
event or leaves it alone (`StepKeepsPromise`).

**Invocation.** The composition takes the scheduler's actions from an instance of `Scheduler`; its proof takes the
scheduler's invariant from an instance of `SchedulerProofs` under the same substitution (`Books`), so that nothing about
queues and counters is proved twice. The `Same...` lemmas say that both instances mean the same
actions. Over it, `Consistent(c)` ties the handler, the scheduler's place, the row, the answer, the aborts and
a pending `cancel` of each run together. That no transition of a row is ever impossible (`thrown = {}`) is part of the
invariant. `GracefulExit` needs also that a run of the snapshot has a stream that was opened (`SnapshotOK`): once it is
no longer active its row is finished. What an action does to runs other than its own is one lemma, `BystanderKept`: a drain may start them or reject them, no more.

**Idempotency.** First the operations of the buffer, each proved to keep its books (`Sound`): the total is the sum of
the entries, Map order is a total order, and completed entries lie in the past. `Bytes` is a fold of the community modules,
a recursive function of sets. The library's induction theorems take an operator as a parameter, which the installed provers
cannot instantiate; `SetInduction` and `Counting` are the same principles for a *set* of sets and of numbers, from the
well-foundedness of the orders, and give what is needed of sums (`SumsDefined`, `SumOfRest`, `SumSplits`). `EnforceLimitSound` then shows that
evicting in the order of the Map always ends within the limit. Then the invariant over keys, owners, entries, waiters,
answers and credentials: a waiter has a source with an entry (`WaitersOK`), an entry belongs to an owner (`EntriesOK`), an owner
that has not settled keeps its key unless its client was deleted (`OwnersOK`), and what has a row has a client
(`KeysOK`). `WaitersHaveOwners` holds for all
of them together only: an eviction must wake its waiters, and an owner whose entry was evicted must settle without it.
That a credential has one successor at most needs every rotated one to be revoked, which is part of `CredentialsOK`.

**Targets.** `IInv == RowsSound /\ ClockSound /\ JobsTyped /\ NoInheritedGrant /\ RunHasItsTarget /\ RunsProvenContract`.
`EnabledIsProven` and `NoStaleVerdict` are consequences of `RowsSound`, which says of each row
what the timestamps mean: nothing is stamped later than the clock, a record was made after the last
doubt, and an enabled row has a record that covers its contract. `ClockSound` makes every new stamp
later than all that were handed out, which is why the comparison of `updated_at` in
`setCapabilityIfUnchanged` detects a row that was edited back to what it was. The types of the
remaining variables are an invariant relative to it (`RestTyped`, `StepTyped`), and `RowsProven`
joins both. The refinement is proved step by step: every action of `Targets` is, per identifier, a
step of `TargetGate` or leaves its state alone.

**Workspaces.** A directory is in one place, and what is to be removed is at most one of each kind (`InOnePlace`); leases
are counted and are of what there is (`LeasesAgree`); and at every step of an operation the directories it took are where
the next step expects them (`Working`). The last is the heart: every step may fail or be the last one of the process, and the
step after it, or the sweep of the next operation, must find a state it can go on from. `NeverWedged` is part of the invariant: its
outcome is that of the last step, so that each step is proved to find what it needs.

**Lifecycle.** For any set of processes, each running any command: where a process can be (`StagesAgree`), what there is of it
outside of it (`OwnsWhatItHas`), what a command that acts on the file knows of it (`FileAsRead`), and whose rows there are
(`RowsAreOwn`). The last two are conditional on `raced`, like `NamedWhileItRuns`; `LeavesNothing` is proved without
it, from `OwnsWhatItHas`, in which a gateway past its snapshot that has a run or a row has begun it late.

**Responses.** `requireValidChain` walks a chain from its root, counting; `Walk` is that walk, a recursive function over
the numbers. Its values are not to be had by unfolding, so the first part proves that it is defined (`StepsDefined`,
from `Counting`, the principle of `IdempotencyProofs` again), and numbers the rows of a chain by it (`Walked`). A *line*
is what the code accepts as a chain. It has one tail (`OneTail`), a row behind the tail makes a longer line (`Appended`),
and what does not touch its links leaves it one (`SameLine`); these are lemmas about any table, cited for the table before
and after a step (`ChainsNow`, `ChainsNext`). The invariant then has one part for each pair of things that must agree:
links (`LinksOK`) and states (`StatesAgree`) of a chain, rows and the requests that made them (`RowsOfRequests`), what a request
has at each of its phases (`RequestsOK`), directories (`DirsOK`), locks and their holders (`LeasesOK`), what a sweep has
found and hides (`SweepOK`), and why a row has failed (`FailuresOK`). None stands alone. That a continuation may append its row
needs the lock, which alone keeps the tail the tail; that the lock is still there needs that the sweep, which read the table
before its await, deletes nothing that continues, so what it found must stay due until it is cleaned (`SweepOK`). That a restart fails
no chain it should not needs that a `not_stored` row is a chain of its own (`NotStoredAlone`). `AnsweredCanContinue`
needs the reasons in `FailuresOK`: a row fails with its own run, through a continuation that advanced, or through one a
crash cut off, and in no other way.

### Only model-checked

- Liveness (`QueuedLeaves`, `StreamEnds`, `AbortedRunEnds`, `AbortedTurnEnds`, `HandlersEnd`, `CommandsEnd`): fairness
  and `ENABLED` are beyond this prover.
- The adapters (`HonoursContract`, `NothingLeftBehind`, `ReplacementSpared` of `ProviderTurns`) and `Delivery` (`ToldIsKept`,
  `TranscriptIsLegal`, `NothingHeld`): their stages are many and their steps small, so that most of an invariant would restate
  the model; TLC visits the same finite control, and only the numbers of events, frames and runs are bounds (section 8).
- The two runs of section 7, which are counterexamples.

No module under proof reaches a `RECURSIVE` operator; `Scheduler` defines removal from a queue by ranks, checked
against `SelectSeq` by `MCScheduler`.

## 7. Where code and text disagree

1. **A conversation is reopened although its native session has moved on**
   (`responses_advanced`, `AdvancedFailureEndsChain`). `nativeStateAdvanced` reaches the handler
   with `session_started`. If a continuation is aborted between the prompt and that event, the
   `cancelled` event says nothing of it, and `src/extensions/openai/responses.ts:280` releases the
   parent as open. `tests/extensions/openai/responses.test.ts:488` says "terminalizes the chain
   when a continuation fails after native state advances".
2. **A duplicate of a streamed Responses request with tools can hear of an error instead of the
   answer** (`delivery_replay`, `ReplayTellsTheAnswer`). `replayResponseEvents`
   (`src/extensions/openai/responses.ts:642`) replays an answer in text as a `text_delta`; the
   writer it attaches, which has a decoder because of the tools, refuses one
   (`src/extensions/openai/sse.ts:354`). `replayChatEvents` takes the schema into account.
   `tests/provider-runtime/idempotency.test.ts:394` expects a replay to equal the response, and
   tries it without tools and without a stream. `ToldIsKept` of the passing run excludes exactly this case.

Behaviours the models have which no text decides, or a text only in part, are among the hazards, with a note:

- a stored first response can be continued while its own run is still writing, and one cut off by a
  crash can be continued after the restart;
- a release whose quarantined directory could not be removed remembers it, any other operation
  sweeps it, and every further attempt then throws for the missing entry
  (`src/provider-runtime/workspaces.ts:222`). `tests/provider-runtime/workspaces.test.ts:769` says
  "retries strict release quarantine cleanup on the same lease", with nothing in between. No
  caller under `src/` retries a release, so the visible effect is a slot that stays taken
  until a restart (`NeverWedged` excludes this case by name);
- the row of a stream's run is finished while its handler still waits for a slow client, so that
  the client can be deleted under it, with the key that its duplicates wait for
  (`src/control-plane/idempotency.ts:159`); `WaitersHaveOwners` excepts it;
- a graceful stop can leave the row of a run that was begun late (section 5);
- a run of opencode that nobody aborted and that fails on an unsafe event, or because the answer to its
  prompt is lost, sends no `session.abort` (`src/provider-runtime/opencode/adapter.ts:557`): its turn goes on at
  the shared server, and the run has reported that its state advanced. One that is aborted while
  `session.create` is under way (`:393`) has no id to delete by: if the server creates the session, it stays.
  `NothingLeftBehind` excepts these two by name;
- the two starts of section 5.

## 8. Not modelled, and the plan

Not modelled, with the reason:

- *Tool bridge, request parsing, schemas* (`src/extensions/openai/tools.ts`, ...): one request's text in, one
  structure out, within one step of a handler. What the decoder decides (text, calls, or none) is
  a choice of `Delivery`; how it cuts the text is character processing, to be checked against the
  reference definition "decode the whole" by tests over all ways to cut an input.
- *Extension registry and routes*: sequential, no state of their own.
- *Model profiles, provider registry and discovery, configuration*: read or merged once at start.
- *Administrator authentication and secrets*: a one-time code and its sessions, each checked against
  its expiry in one synchronous statement; a model would restate its guards.
- *Database and migrations*: a synchronous transaction is one step of the modules that use it.
- *The client of the core's API*: forwards one request at a time and keeps no state; its event
  stream is in `Lifecycle`.
- *Web UI*: a client of the administration API, without state of the gateway's. *open, doctor*: read and print.
- In modelled components: what section 3 names under faithfulness, and the routes of the
  administration that only list, render or set switches.

Next, in the order planned:

1. **Proofs:** `Delivery`: `ToldIsKept`, on the invariant that each stage of a handler has of the key, the chain and
   the frames written; then `NothingHeld`. Of the adapters, `NothingLeftBehind` for codex, where several runs share a server.
2. **Composition:** `Delivery` as an implementation of the steps `Idempotency` and `Responses` take
   for a handler; the adapters in place of the free adapter of `ProviderStream`.
3. **Larger instances:** two responses of two targets with the sweep; three runs on codex's server.

Out of scope: cryptography, HTTP and JSON validation, rendering, and the providers' own programs.

----------------------------- MODULE Responses ------------------------------
(***************************************************************************)
(* The Responses endpoint (src/extensions/openai/responses.ts), streaming  *)
(* or not, over the table of ResponseSessions, with the workspaces of the  *)
(* chains (src/provider-runtime/workspaces.ts), the retention sweep        *)
(* (src/control-plane/retention.ts), and crashes of the process.           *)
(*                                                                         *)
(* A request is named by the response id it makes up.  How its run is      *)
(* queued, times out and is cancelled is modelled in Invocation: here a    *)
(* run submits its prompt, starts its session, and completes or fails.     *)
(***************************************************************************)
EXTENDS ResponseSessions

CONSTANTS
  Modes,      \* subset of {"stream", "json"}: the kinds of request
  MaxFaults,  \* bound: faults of the file system and of the database
  MaxCrashes  \* bound: crashes in a behaviour

ASSUME ResponsesAssumption ==
  Modes \subseteq {"stream", "json"} /\ MaxFaults \in Nat /\ MaxCrashes \in Nat

VARIABLES
  req,        \* the requests so far, by the response id each made up
  prompted,   \* the requests whose prompt reached the native session
  advanced,   \* those whose nativeStateAdvanced the handler has seen set
  announced,  \* response ids that a client has been told
  dirs,       \* chains whose workspace directory exists
  sweep,      \* the chains an active sweep has found
  up, faults, crashes

runVars  == <<prompted, advanced>>
procVars == <<up, crashes>>
vars == <<rows, now, hidden, req, runVars, announced, dirs, sweep, faults, procVars>>

InFlight == {"making", "running", "failing", "releasing", "abandoning"}

Request == [phase : InFlight \cup {"answered", "refused", "lost"},
            mode : Modes, stored : BOOLEAN, target : Targets,
            parent : Ids \cup {NoId},
            ok : BOOLEAN]  \* what it answers once its workspace is released

Init ==
  /\ RepositoryInit
  /\ req = << >>
  /\ prompted = {} /\ advanced = {} /\ announced = {}
  /\ dirs = {} /\ sweep = {}
  /\ up = TRUE /\ faults = 0 /\ crashes = 0

Submitted(r) == r \in DOMAIN req

Is(r, phase) == up /\ Submitted(r) /\ req[r].phase = phase

Goes(r, phase) == req' = [req EXCEPT ![r].phase = phase]

First(r) == req[r].parent = NoId

\* sessionPersisted, while the request holds its lease: the sweep deletes no row
\* whose workspace is leased.
Persisted(r) == Has(r)

\* The lease of createResponse.  The one that a continuation's run opens is
\* left out: its chain is kept from the sweep by its "continuing" row alone.
Leased(c) ==
  /\ Submitted(c) /\ First(c) /\ req[c].stored
  /\ req[c].phase \in {"running", "failing", "releasing"}

-----------------------------------------------------------------------------
(* Requests.                                                               *)

NewRequest(r, m, stored, p, t, phase) ==
  req' = With(req, r, [phase |-> phase, mode |-> m, stored |-> stored,
                       parent |-> p, target |-> t, ok |-> FALSE])

\* A stream names its response in its first event, a JSON answer in its only one.
Begins(r, m) ==
  announced' = IF m = "stream" THEN announced \cup {r} ELSE announced

\* store: false is refused together with a previous response.
SubmitContinuation(r, m, p, t) ==
  /\ up /\ ~Submitted(r) /\ p \in announced
  /\ \/ /\ AcquireContinuation(p, t)
        /\ NewRequest(r, m, TRUE, p, t, "running")
        /\ Begins(r, m)
     \/ /\ ~CanAcquire(p, t)
        /\ NewRequest(r, m, TRUE, p, t, "refused")
        /\ UNCHANGED <<rows, announced>>
  /\ UNCHANGED <<now, hidden, runVars, dirs, sweep, faults, procVars>>

SubmitFirst(r, m, stored, t) ==
  /\ up /\ ~Submitted(r)
  /\ IF stored
       THEN NewRequest(r, m, stored, NoId, t, "making") /\ UNCHANGED announced
       ELSE NewRequest(r, m, stored, NoId, t, "running") /\ Begins(r, m)
  /\ UNCHANGED <<rows, now, hidden, runVars, dirs, sweep, faults, procVars>>

Fault == faults < MaxFaults /\ faults' = faults + 1

\* createResponse waits for the other workspace operations, then succeeds or fails.
MakeWorkspace(r) ==
  /\ Is(r, "making")
  /\ \/ /\ Goes(r, "running")
        /\ dirs' = dirs \cup {r}
        /\ Begins(r, req[r].mode)
        /\ UNCHANGED faults
     \/ /\ Fault
        /\ Goes(r, "refused")
        /\ UNCHANGED <<dirs, announced>>
  /\ UNCHANGED <<rows, now, hidden, runVars, sweep, procVars>>

\* The adapter hands the prompt to the provider's process.
Prompt(r) ==
  /\ Is(r, "running") /\ r \notin prompted
  /\ prompted' = prompted \cup {r}
  /\ UNCHANGED <<rows, now, hidden, req, advanced, announced, dirs, sweep, faults, procVars>>

\* session_started: a first request inserts its row, unless the insertion throws.
SessionStarted(r) ==
  /\ Is(r, "running") /\ r \notin advanced
  /\ prompted' = prompted \cup {r}
  /\ advanced' = advanced \cup {r}
  /\ \/ First(r) /\ Create(r, req[r].target, req[r].stored) /\ UNCHANGED <<req, faults>>
     \/ ~First(r) /\ UNCHANGED <<rows, req, faults>>
     \/ First(r) /\ Fault /\ Goes(r, "failing") /\ UNCHANGED rows
  /\ UNCHANGED <<now, hidden, announced, dirs, sweep, procVars>>

\* The run fails, is cancelled or times out, or the client disconnects.  A
\* failed event of the adapter tells what it knows of the native state; an
\* aborted run, or a lost client, leaves what the handler saw before.
Fail(r) ==
  /\ Is(r, "running")
  /\ Goes(r, "failing")
  /\ \/ UNCHANGED advanced
     \/ advanced' = advanced \cup ({r} \cap prompted) /\ advanced' # advanced
  /\ UNCHANGED <<rows, now, hidden, prompted, announced, dirs, sweep, faults, procVars>>

\* Mutant of SettleContinuation: the chain fails whether or not it has advanced.
SettleContinuationTerminally(r) ==
  /\ ~First(r)
  /\ FailTerminal(req[r].parent)
  /\ Goes(r, "refused")

\* settleContinuationFailure
SettleContinuation(r) ==
  /\ ~First(r)
  /\ IF r \in advanced THEN FailTerminal(req[r].parent)
                       ELSE ReleaseBeforeStart(req[r].parent)
  /\ Goes(r, "refused")

\* settleNewStoredFailure, which throws unless the row can be acquired.
SettleFirst(r) ==
  /\ First(r)
  /\ rows' = IF req[r].stored /\ Persisted(r) /\ CanAcquire(r, req[r].target)
               THEN Failed(rows, {r}) ELSE rows
  /\ Goes(r, IF req[r].stored THEN "releasing" ELSE "refused")

\* The catch block, once the iterator has been closed.  The database is assumed not
\* to fail here: a lock that could not be taken off would stay until the next start.
Settle(r) ==
  /\ Is(r, "failing")
  /\ SettleContinuation(r) \/ SettleFirst(r)
  /\ UNCHANGED <<now, hidden, runVars, announced, dirs, sweep, faults, procVars>>

\* The end of a stream can still be lost with the client: nothing is undone.
Answers(r) ==
  /\ \/ Goes(r, "answered")
     \/ req[r].mode = "stream" /\ Goes(r, "refused")
  /\ announced' = IF req'[r].phase = "answered" THEN announced \cup {r} ELSE announced

\* The run has ended with `completed`.
Complete(r) ==
  /\ Is(r, "running") /\ r \in advanced
  /\ \/ ~First(r) /\ CompleteContinuation(req[r].parent, r) /\ Answers(r)
     \/ First(r) /\ ~req[r].stored /\ Answers(r) /\ UNCHANGED rows
     \/ /\ First(r) /\ req[r].stored
        /\ req' = [req EXCEPT ![r].phase = "releasing", ![r].ok = TRUE]
        /\ UNCHANGED <<rows, announced>>
  /\ UNCHANGED <<now, hidden, runVars, dirs, sweep, faults, procVars>>

\* Mutant of Release: an abandoned workspace is not cleaned.
ReleaseOnly(r) ==
  /\ Is(r, "releasing")
  /\ IF req[r].ok THEN Answers(r) ELSE Goes(r, "refused") /\ UNCHANGED announced
  /\ UNCHANGED <<rows, now, hidden, runVars, dirs, sweep, faults, procVars>>

\* workspaceLease.release(), and whether the workspace is then abandoned.
Release(r) ==
  /\ Is(r, "releasing")
  /\ IF req[r].ok THEN Answers(r)
     ELSE /\ Goes(r, IF Persisted(r) THEN "refused" ELSE "abandoning")
          /\ UNCHANGED announced
  /\ UNCHANGED <<rows, now, hidden, runVars, dirs, sweep, faults, procVars>>

\* cleanupExpired of the abandoned workspace, whose outcome is ignored.
Abandon(r) ==
  /\ Is(r, "abandoning")
  /\ Goes(r, "refused")
  /\ \/ dirs' = dirs \ {r} /\ UNCHANGED faults
     \/ Fault /\ UNCHANGED dirs
  /\ UNCHANGED <<rows, now, hidden, runVars, announced, sweep, procVars>>

-----------------------------------------------------------------------------
(* Retention.                                                              *)

RowsOf(C) == {q \in DOMAIN rows : rows[q].chain \in C}

\* Chains with a workspace path.
Managed(C) == {c \in C : rows[c].state # "not_stored"}

\* The first half of performSweep.  Without a path to clean there is no await.
SweepFind ==
  /\ up /\ sweep = {} /\ DueChains # {}
  /\ IF Managed(DueChains) = {}
       THEN DeleteChains(DueChains) /\ UNCHANGED <<hidden, sweep>>
       ELSE /\ sweep' = DueChains
            /\ hidden' = hidden \cup RowsOf(DueChains)
            /\ UNCHANGED rows
  /\ UNCHANGED <<now, req, runVars, announced, dirs, faults, procVars>>

\* cleanupForRetention is one synchronous operation; what follows it runs in the
\* same macrotask.  A leased workspace, or one that a fault spares, is retried
\* by a later sweep, and its chain stays hidden.
SweepClean ==
  /\ up /\ sweep # {}
  /\ \E bad \in SUBSET (Managed(sweep) \cap dirs) :
       LET retry == bad \cup {c \in Managed(sweep) : Leased(c)}
           eligible == sweep \ retry IN
       /\ bad # {} => faults < MaxFaults
       /\ faults' = IF bad # {} THEN faults + 1 ELSE faults
       /\ dirs' = dirs \ eligible
       /\ DeleteChains(eligible)
       /\ hidden' = hidden \ RowsOf(eligible)
  /\ sweep' = {}
  /\ UNCHANGED <<now, req, runVars, announced, procVars>>

Tick ==
  /\ now < MaxTime
  /\ now' = now + 1
  /\ UNCHANGED <<rows, hidden, req, runVars, announced, dirs, sweep, faults, procVars>>

-----------------------------------------------------------------------------
(* The process.                                                            *)

Crash ==
  /\ up /\ crashes < MaxCrashes
  /\ up' = FALSE /\ crashes' = crashes + 1
  /\ req' = [r \in DOMAIN req |-> IF req[r].phase \in InFlight
                                    THEN [req[r] EXCEPT !.phase = "lost"] ELSE req[r]]
  /\ hidden' = {} /\ sweep' = {}
  /\ UNCHANGED <<rows, now, runVars, announced, dirs, faults>>

\* reconcileStartup, before the first request is accepted.
Restart ==
  /\ ~up /\ up' = TRUE
  /\ rows' = Failed(rows, {rows[q].chain : q \in {x \in DOMAIN rows : rows[x].state = "continuing"}})
  /\ UNCHANGED <<now, hidden, req, runVars, announced, dirs, sweep, faults, crashes>>

-----------------------------------------------------------------------------

Step(r) ==
  \/ MakeWorkspace(r) \/ Prompt(r) \/ SessionStarted(r) \/ Fail(r)
  \/ Settle(r) \/ Complete(r) \/ Release(r) \/ Abandon(r)

Submit(r) ==
  \E m \in Modes, t \in Targets :
    \/ \E p \in Ids : SubmitContinuation(r, m, p, t)
    \/ \E stored \in BOOLEAN : SubmitFirst(r, m, stored, t)

\* Every request there is room for has been settled.  A request that hangs, or a
\* sweep that does, is a deadlock.
Idle ==
  /\ up /\ sweep = {} /\ \A r \in Ids : Submitted(r) /\ req[r].phase \notin InFlight
  /\ UNCHANGED vars

Next ==
  \/ \E r \in Ids : Submit(r) \/ Step(r)
  \/ SweepFind \/ SweepClean \/ Tick \/ Crash \/ Restart \/ Idle

Spec == Init /\ [][Next]_vars

-----------------------------------------------------------------------------
(* Properties.                                                             *)

\* The variables keep the shapes their declarations give them.
TypeOK ==
  /\ DOMAIN rows \subseteq Ids /\ \A r \in DOMAIN rows : rows[r] \in Row
  /\ DOMAIN req \subseteq Ids /\ \A r \in DOMAIN req : req[r] \in Request
  /\ now \in 0 .. MaxTime
  /\ hidden \subseteq DOMAIN rows /\ advanced \subseteq prompted
  /\ announced \cup prompted \subseteq DOMAIN req
  /\ dirs \subseteq Ids /\ sweep \subseteq Ids
  /\ up \in BOOLEAN /\ faults \in 0 .. MaxFaults /\ crashes \in 0 .. MaxCrashes

\* Requests that hold the continuation of row p.
Holders(p) ==
  {r \in DOMAIN req : req[r].parent = p /\ req[r].phase \in {"running", "failing"}}

\* While the process is up, a row is "continuing" exactly when one request holds
\* its continuation, and no two ever hold one: no failure, timeout or restart
\* leaves a conversation locked with nobody to unlock it.
LeaseHasOneOwner ==
  up => \A p \in Ids :
    Cardinality(Holders(p)) = IF Has(p) /\ rows[p].state = "continuing" THEN 1 ELSE 0

\* Whatever runs, fails, crashes, expires and is swept, every chain in the table
\* is a linked line of rows that agree both ways: response_chain_invalid and
\* response_state_invalid are never thrown.  Either all of it has failed, or all
\* of it but its tail was continued and the tail is open or being continued, by
\* one request.
ChainsAreLines ==
  /\ TypeOK /\ LeaseHasOneOwner
  /\ \A c \in {rows[r].chain : r \in DOMAIN rows} :
      LET live == {r \in ChainRows(c) : rows[r].state # "terminal_failure"} IN
      /\ ValidChain(c)
      /\ \/ live = {}
         \/ /\ live = ChainRows(c)
            /\ \E tail \in live :
                 /\ ActiveTail(tail)
                 /\ rows[tail].state \in
                      IF live = {c} THEN {"open", "continuing", "not_stored"}
                                    ELSE {"open", "continuing"}

\* A stored response that was answered, and whose continuations so far were all
\* refused without their native state being seen to advance, can still be
\* continued until it expires, in the workspace it was made in.
AnsweredCanContinue ==
  \A r \in DOMAIN req :
    /\ up /\ req[r].phase = "answered" /\ req[r].stored
    /\ Has(r) /\ ~Expired(r)
    /\ \A s \in DOMAIN req : req[s].parent = r =>
         req[s].phase = "refused" /\ s \notin advanced
    => /\ CanAcquire(r, req[r].target)
       /\ r \notin hidden /\ rows[r].chain \in dirs

\* A workspace directory or a row disappears only when no other request in flight
\* uses its chain, queued or running, and a row only after its expiry: the sweep
\* works on what it read before its await.
UsersOf(c) ==
  {r \in DOMAIN req :
     \/ r = c /\ Leased(c)
     \/ \E p \in DOMAIN rows : rows[p].chain = c /\ r \in Holders(p)}

SweepSparesUsers ==
  [][\A c \in Ids :
       /\ c \in dirs \ dirs' => UsersOf(c) = {}
       /\ c \in DOMAIN rows \ DOMAIN rows' => Expired(c) /\ UsersOf(rows[c].chain) = {}]_vars

\* What has failed stays failed, and a continued response keeps its one child,
\* until the chain is deleted, which takes nothing from a request that uses it.
HistoryStands ==
  /\ SweepSparesUsers
  /\ [][\A r \in DOMAIN rows \cap DOMAIN rows' :
          /\ rows[r].state = "terminal_failure" => rows'[r].state = "terminal_failure"
          /\ rows[r].state = "continued" =>
               rows'[r].state \in {"continued", "terminal_failure"} /\ rows'[r].child = rows[r].child]_vars

\* Without faults or crashes no workspace directory is left that neither a row
\* nor a request in flight accounts for.
NoWorkspaceLeaks ==
  faults = 0 /\ crashes = 0 =>
    \A c \in dirs : (Has(c) /\ rows[c].state # "not_stored") \/ req[c].phase \in InFlight

\* tests/extensions/openai/responses.test.ts: "terminalizes the chain when a
\* continuation fails after native state advances".
AdvancedFailureEndsChain ==
  \A r \in DOMAIN req :
    /\ req[r].phase = "refused" /\ req[r].parent # NoId /\ r \in prompted
    /\ Has(req[r].parent)
    => rows[req[r].parent].state # "open"

=============================================================================

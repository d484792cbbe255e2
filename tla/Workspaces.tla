----------------------------- MODULE Workspaces -----------------------------
(***************************************************************************)
(* The directories that runs work in                                       *)
(* (src/provider-runtime/workspaces.ts): strict slots that are reset for   *)
(* every run, temporary directories of one run, and the directories of     *)
(* stored responses, which only retention removes.                         *)
(*                                                                         *)
(* Operations are serialised, and each is synchronous once it has begun;   *)
(* yet any of its system calls may fail, and the process may die between   *)
(* two of them.  An operation is therefore a sequence of steps, one per    *)
(* call that changes the tree.  Checks of links, identities and fixed      *)
(* workspaces are faults when they fail; fixed workspaces are left out.    *)
(***************************************************************************)
EXTENDS Naturals, Sequences, FiniteSets

CONSTANTS
  Runs,        \* runs, each with one lease at most
  Slots,       \* the slots of a strict target, in order, up to maxConcurrency
  Responses,   \* stored responses
  Dirs,        \* directories, by the random names that staging gives them
  MaxFaults,   \* bound: failing system calls
  MaxCrashes,  \* bound: crashes
  None, Undefined

\* The paths of slots, of temporary directories, and of responses.
Temporary == [run : Runs]
Kept == [response : Responses]
SlotPaths == {Slots[i] : i \in DOMAIN Slots}
Paths == SlotPaths \cup Temporary \cup Kept

ASSUME WorkspacesAssumption ==
  /\ MaxFaults \in Nat /\ MaxCrashes \in Nat
  /\ None \notin Paths \cup Dirs /\ Undefined \notin Dirs \cup {None}
  /\ Slots \in Seq(SlotPaths) /\ SlotPaths \cap (Temporary \cup Kept) = {}

VARIABLES
  at,          \* the directory published at each path, or None
  marker,      \* the path that the marker of each directory is bound to, or None
  work,        \* the runs that have worked in each directory
  quarantine, staging,
  rooted,      \* rootPromise has resolved
  active,      \* leases per path
  leases,      \* the lease of each run
  op,          \* the operation that holds the tail
  outcome,     \* how the last operation ended
  faults, crashes

tree == <<at, marker, work, quarantine, staging>>
vars == <<tree, rooted, active, leases, op, outcome, faults, crashes>>

NoLease == [phase |-> "none"]

Over == [phase |-> "over"]

Idle == [name |-> "idle"]

NoOutcome == [how |-> "none", name |-> "idle"]

Init ==
  /\ at = [p \in Paths |-> None]
  /\ marker = [d \in Dirs |-> None] /\ work = [d \in Dirs |-> {}]
  /\ quarantine = {} /\ staging = {}
  /\ rooted = FALSE
  /\ active = [p \in Paths |-> 0]
  /\ leases = [r \in Runs |-> NoLease]
  /\ op = Idle /\ outcome = NoOutcome
  /\ faults = 0 /\ crashes = 0

-----------------------------------------------------------------------------
(* How operations begin, move on and end.                                  *)

\* detached is what the operation must remove: what it took from the path, or
\* what an earlier attempt to release left to be removed.
Operation(name, r, p, step, detached) ==
  [name |-> name, run |-> r, path |-> p, step |-> IF rooted THEN step ELSE "sweep",
   staged |-> None, detached |-> detached, faulty |-> FALSE]

Begins(operation) ==
  /\ op = Idle
  /\ op' = operation /\ outcome' = NoOutcome

At(step) == op # Idle /\ op.step = step

Goes(step) == op' = [op EXCEPT !.step = step] /\ UNCHANGED outcome

Ends(how) == op' = Idle /\ outcome' = [how |-> how, name |-> op.name]

\* A system call of the present step fails.
Fault == faults < MaxFaults /\ faults' = faults + 1

Fails(step) ==
  op' = [op EXCEPT !.step = step, !.faulty = TRUE] /\ UNCHANGED outcome

\* The operation throws: because of a fault, or of what it finds.
Throws == Ends(IF op.faulty THEN "fault" ELSE "stuck")

Replaces == op.name \in {"strict", "temporary", "create"} \/ op.name = "release-strict"

\* The first step of an operation's own, once recovery is done.
FirstStep ==
  CASE op.name \in {"strict", "temporary", "release-strict"} -> "stage"
    [] op.name = "create" -> IF at[op.path] = None THEN "stage" ELSE "finish"
    [] op.name = "open" -> "finish"
    [] op.name \in {"release-temporary", "cleanup"} -> "detach"

-----------------------------------------------------------------------------
(* The operations.                                                         *)

\* There is no directory at the path.
Absent(p) == at[p] = None

\* Mutant of FreeSlots: a slot whose release has not succeeded yet is free.
FreeSlotsEarly ==
  {i \in DOMAIN Slots : \A r \in Runs : leases[r].phase = "held" => leases[r].path # Slots[i]}

FreeSlots == {i \in DOMAIN Slots : active[Slots[i]] = 0}

First(S) == CHOOSE i \in S : \A j \in S : i <= j

AcquireStrict(r) ==
  /\ leases[r] = NoLease
  /\ IF FreeSlots = {}
       THEN op = Idle /\ outcome' = [how |-> "busy", name |-> "strict"] /\ UNCHANGED op
       ELSE Begins(Operation("strict", r, Slots[First(FreeSlots)], "sweep", None))
  /\ UNCHANGED <<tree, rooted, active, leases, faults, crashes>>

AcquireTemporary(r) ==
  /\ leases[r] = NoLease
  /\ Begins(Operation("temporary", r, [run |-> r], "sweep", None))
  /\ UNCHANGED <<tree, rooted, active, leases, faults, crashes>>

CreateResponse(r, s) ==
  /\ leases[r] = NoLease
  /\ LET p == [response |-> s] IN
       Begins(Operation("create", r, p, IF Absent(p) THEN "sweep" ELSE "finish", None))
  /\ UNCHANGED <<tree, rooted, active, leases, faults, crashes>>

OpenResponse(r, s) ==
  /\ leases[r] = NoLease
  /\ Begins(Operation("open", r, [response |-> s], "finish", None))
  /\ UNCHANGED <<tree, rooted, active, leases, faults, crashes>>

\* A run writes in its workspace until it gives it back.
Work(r) ==
  /\ leases[r].phase = "held"
  /\ work' = [work EXCEPT ![at[leases[r].path]] = @ \cup {r}]
  /\ UNCHANGED <<at, marker, quarantine, staging, rooted, active, leases, op, outcome,
                 faults, crashes>>

\* A release, or another attempt after one that threw.
Release(r) ==
  /\ leases[r].phase \in {"held", "unreleased"}
  /\ LET l == leases[r] IN
     CASE l.path \in Kept -> Begins(Operation("release-kept", r, l.path, "finish", None))
       [] l.path \notin Kept /\ l.pending = Undefined ->
            Begins(Operation(IF l.path \in Temporary THEN "release-temporary"
                                                     ELSE "release-strict",
                             r, l.path, "sweep", None))
       [] OTHER -> Begins(Operation("release-pending", r, l.path, "discard", l.pending))
  /\ leases' = [leases EXCEPT ![r].phase = "unreleased"]
  /\ UNCHANGED <<tree, rooted, active, faults, crashes>>

\* cleanupForRetention, of one path: a list is one after the other.
Cleanup(s) ==
  /\ Begins(Operation("cleanup", None, [response |-> s], "sweep", None))
  /\ UNCHANGED <<tree, rooted, active, leases, faults, crashes>>

-----------------------------------------------------------------------------
(* Their steps.                                                            *)

\* Mutant of Sweep: an entry that cannot be removed is left where it is.
SweepGoingOn ==
  /\ At("sweep")
  /\ \/ /\ quarantine = {} /\ staging = {} /\ Goes(FirstStep)
        /\ rooted' = TRUE
        /\ UNCHANGED <<quarantine, staging, faults>>
     \/ /\ quarantine \cup staging # {}
        /\ quarantine' = {} /\ staging' = {}
        /\ UNCHANGED <<rooted, op, outcome, faults>>
     \/ /\ Fault /\ Fails(FirstStep)
        /\ UNCHANGED <<rooted, quarantine, staging>>
  /\ UNCHANGED <<at, marker, work, active, leases, crashes>>

\* Mutant of Sweep: only staging is swept.
SweepStaging ==
  /\ At("sweep")
  /\ \/ /\ staging = {} /\ Goes(FirstStep)
        /\ rooted' = TRUE
        /\ UNCHANGED <<staging, faults>>
     \/ /\ \E d \in staging : staging' = staging \ {d}
        /\ UNCHANGED <<rooted, op, outcome, faults>>
     \/ /\ Fault /\ Ends("fault")
        /\ UNCHANGED <<rooted, staging>>
  /\ UNCHANGED <<at, marker, work, quarantine, active, leases, crashes>>

RemoveQuarantined ==
  /\ \E d \in quarantine : quarantine' = quarantine \ {d}
  /\ UNCHANGED <<rooted, staging, op, outcome, faults>>

RemoveStaged ==
  /\ quarantine = {}
  /\ \E d \in staging : staging' = staging \ {d}
  /\ UNCHANGED <<rooted, quarantine, op, outcome, faults>>

\* sweepRecovery, of what a failure or a crash left, and the root if need be.
Sweep ==
  /\ At("sweep")
  /\ \/ /\ quarantine = {} /\ staging = {} /\ Goes(FirstStep)
        /\ rooted' = TRUE
        /\ UNCHANGED <<quarantine, staging, faults>>
     \/ RemoveQuarantined
     \/ RemoveStaged
     \/ /\ Fault /\ Ends("fault")
        /\ UNCHANGED <<rooted, quarantine, staging>>
  /\ UNCHANGED <<at, marker, work, active, leases, crashes>>

Pending == {leases[r].pending : r \in {q \in Runs : leases[q].phase \in {"held", "unreleased"}}}

\* A name is random: none that is in use, or that a lease remembers.
Fresh == Dirs \ (quarantine \cup staging \cup {at[p] : p \in Paths} \cup Pending)

MarkedFor(d, p) == marker[d] = p

\* replaceDirectory: requireMarker of what is there, and a directory in staging.
Stage ==
  /\ At("stage")
  /\ IF at[op.path] # None /\ ~MarkedFor(at[op.path], op.path)
       THEN Throws /\ UNCHANGED <<marker, work, staging, faults>>
       ELSE \/ \E d \in Fresh :
                 /\ staging' = staging \cup {d}
                 /\ marker' = [marker EXCEPT ![d] = None]
                 /\ work' = [work EXCEPT ![d] = {}]
                 /\ op' = [op EXCEPT !.step = "mark", !.staged = d]
                 /\ UNCHANGED <<outcome, faults>>
            \/ Fault /\ Ends("fault") /\ UNCHANGED <<marker, work, staging>>
  /\ UNCHANGED <<at, quarantine, rooted, active, leases, crashes>>

\* writeMarker, before anything is published.
Mark ==
  /\ At("mark")
  /\ \/ /\ marker' = [marker EXCEPT ![op.staged] = op.path]
        /\ Goes(IF at[op.path] = None THEN "commit" ELSE "detach")
        /\ UNCHANGED faults
     \/ Fault /\ Fails("unstage") /\ UNCHANGED marker
  /\ UNCHANGED <<at, work, quarantine, staging, rooted, active, leases, crashes>>

Remembers(pending) ==
  leases' = IF op.name \in {"release-strict", "release-temporary"}
              THEN [leases EXCEPT ![op.run].pending = pending] ELSE leases

\* Mutant of CanDetach: retention does not look at the leases.
CanDetachLeased == ~Absent(op.path)

\* Whether there is a directory to take away: retention leaves a leased one alone.
CanDetach ==
  /\ ~Absent(op.path)
  /\ op.name = "cleanup" => active[op.path] = 0

\* atomicDetach, into a quarantine that is empty.
Detach ==
  /\ At("detach")
  /\ IF ~CanDetach
       THEN /\ IF op.name # "cleanup" THEN Goes("finish")
               ELSE Ends(IF Absent(op.path) THEN "absent" ELSE "retry")
            /\ Remembers(None)
            /\ UNCHANGED <<at, quarantine, faults>>
       ELSE \/ /\ quarantine = {} /\ MarkedFor(at[op.path], op.path)
               /\ quarantine' = {at[op.path]}
               /\ at' = [at EXCEPT ![op.path] = None]
               /\ op' = [op EXCEPT !.step = IF Replaces THEN "commit" ELSE "discard",
                                   !.detached = at[op.path]]
               /\ IF Replaces THEN UNCHANGED leases ELSE Remembers(at[op.path])
               /\ UNCHANGED <<outcome, faults>>
            \/ /\ quarantine # {} \/ ~MarkedFor(at[op.path], op.path)
               /\ IF Replaces THEN Goes("unstage") ELSE Throws
               /\ UNCHANGED <<at, quarantine, leases, faults>>
            \/ /\ Fault
               /\ IF Replaces THEN Fails("unstage") ELSE Ends("fault")
               /\ UNCHANGED <<at, quarantine, leases>>
  /\ UNCHANGED <<marker, work, staging, rooted, active, crashes>>

\* publishStagedDirectory's last rename.
Commit ==
  /\ At("commit")
  /\ \/ /\ at' = [at EXCEPT ![op.path] = op.staged]
        /\ staging' = staging \ {op.staged}
        /\ Goes(IF op.detached = None THEN "finish" ELSE "discard")
        /\ Remembers(op.detached)
        /\ UNCHANGED faults
     \/ /\ Fault /\ Fails(IF op.detached = None THEN "unstage" ELSE "rollback")
        /\ UNCHANGED <<at, staging, leases>>
  /\ UNCHANGED <<marker, work, quarantine, rooted, active, crashes>>

\* What was detached goes back, or stays in quarantine.
Rollback ==
  /\ At("rollback")
  /\ \/ /\ at' = [at EXCEPT ![op.path] = op.detached]
        /\ quarantine' = quarantine \ {op.detached}
        /\ Goes("unstage") /\ UNCHANGED faults
     \/ Fault /\ Fails("unstage") /\ UNCHANGED <<at, quarantine>>
  /\ UNCHANGED <<marker, work, staging, rooted, active, leases, crashes>>

\* The transaction's own cleanup, before it throws.
Unstage ==
  /\ At("unstage") /\ Throws
  /\ \/ staging' = staging \ {op.staged} /\ UNCHANGED faults
     \/ Fault /\ UNCHANGED staging
  /\ UNCHANGED <<at, marker, work, quarantine, rooted, active, leases, crashes>>

\* validateRecoveryEntry: the entry is still where it was moved to.
Entered == op.detached \in quarantine \cup {None}

\* removeQuarantined
Discard ==
  /\ At("discard")
  /\ \/ /\ Entered
        /\ quarantine' = quarantine \ {op.detached}
        /\ Goes("finish") /\ UNCHANGED faults
     \/ /\ ~Entered
        /\ Throws /\ UNCHANGED <<quarantine, faults>>
     \/ Fault /\ Ends("fault") /\ UNCHANGED quarantine
  /\ UNCHANGED <<at, marker, work, staging, rooted, active, leases, crashes>>

Acquires == op.name \in {"strict", "temporary", "create", "open"}

Remaining(p) == active[p] - 1

\* validateResponsePath: a directory is there, with the marker of this response.
ValidResponse(p) == ~Absent(p) /\ MarkedFor(at[p], p)

\* An open that finds no response to work in.
NothingToOpen == op.name = "open" /\ ~ValidResponse(op.path)

\* The map of leases is updated when nothing can fail any more.
Finish ==
  /\ At("finish")
  /\ CASE NothingToOpen -> Ends("absent") /\ UNCHANGED <<active, leases>>
       [] Acquires /\ ~NothingToOpen ->
            /\ active' = [active EXCEPT ![op.path] = @ + 1]
            /\ leases' = [leases EXCEPT ![op.run] =
                 [phase |-> "held", path |-> op.path, dir |-> at[op.path], pending |-> Undefined]]
            /\ Ends("ok")
       [] op.name = "cleanup" -> Ends("ok") /\ UNCHANGED <<active, leases>>
       [] OTHER ->
            /\ active' = [active EXCEPT ![op.path] = Remaining(op.path)]
            /\ leases' = [leases EXCEPT ![op.run] = Over]
            /\ Ends("ok")
  /\ UNCHANGED <<tree, rooted, faults, crashes>>

Crash ==
  /\ crashes < MaxCrashes /\ crashes' = crashes + 1
  /\ rooted' = FALSE
  /\ active' = [p \in Paths |-> 0]
  /\ leases' = [r \in Runs |-> IF leases[r] = NoLease /\ (op = Idle \/ op.run # r)
                               THEN NoLease ELSE Over]
  /\ op' = Idle /\ outcome' = NoOutcome
  /\ UNCHANGED <<tree, faults>>

Steps ==
  Sweep \/ Stage \/ Mark \/ Detach \/ Commit \/ Rollback \/ Unstage \/ Discard \/ Finish

Next ==
  \/ \E r \in Runs :
       \/ AcquireStrict(r) \/ AcquireTemporary(r) \/ Work(r) \/ Release(r)
       \/ \E s \in Responses : CreateResponse(r, s) \/ OpenResponse(r, s)
  \/ \E s \in Responses : Cleanup(s)
  \/ Steps \/ Crash

Spec == Init /\ [][Next]_vars

-----------------------------------------------------------------------------
(* Properties.                                                             *)

Names == {"strict", "temporary", "create", "open", "release-kept", "release-temporary",
          "release-strict", "release-pending", "cleanup"}

IsOperation(o) ==
  /\ o.name \in Names /\ o.run \in Runs \cup {None} /\ o.path \in Paths
  /\ o.step \in {"sweep", "stage", "mark", "detach", "commit", "rollback", "unstage",
                 "discard", "finish"}
  /\ {o.staged, o.detached} \subseteq Dirs \cup {None} /\ o.faulty \in BOOLEAN

IsLease(l) ==
  /\ l.phase \in {"held", "unreleased"} /\ l.path \in Paths /\ l.dir \in Dirs
  /\ l.pending \in Dirs \cup {None, Undefined}

\* The variables stay in their types, and a directory is in one place: published,
\* in quarantine or in staging.
TypeOK ==
  /\ at \in [Paths -> Dirs \cup {None}] /\ marker \in [Dirs -> Paths \cup {None}]
  /\ work \in [Dirs -> SUBSET Runs]
  /\ quarantine \cup staging \subseteq Dirs
  /\ rooted \in BOOLEAN /\ active \in [Paths -> Nat]
  /\ \A r \in Runs : leases[r] \in {NoLease, Over} \/ IsLease(leases[r])
  /\ op = Idle \/ IsOperation(op)
  /\ outcome.how \in {"none", "ok", "busy", "absent", "retry", "fault", "stuck"}
  /\ faults \in 0..MaxFaults /\ crashes \in 0..MaxCrashes
  /\ quarantine \cap staging = {}
  /\ \A p \in Paths : at[p] \notin quarantine \cup staging

Leased(r) == leases[r].phase \in {"held", "unreleased"}

\* The map of leases counts the leases that have not been released: a slot whose
\* reset failed stays taken, a response stays taken until its last lease ends.
ActiveAgrees ==
  \A p \in Paths :
    /\ active[p] = Cardinality({r \in Runs : Leased(r) /\ leases[r].path = p})
    /\ p \notin Kept => active[p] <= 1

\* While a run holds a slot or a temporary directory, it is the directory it was
\* given, and nobody else has ever worked in it: no reset that failed or was cut
\* short, no release that has not succeeded, and no restart hands over what an
\* earlier run left.
Isolated ==
  /\ TypeOK /\ ActiveAgrees
  /\ \A r \in Runs :
       leases[r].phase = "held" /\ leases[r].path \notin Kept =>
         at[leases[r].path] = leases[r].dir /\ work[leases[r].dir] \subseteq {r}

\* Only retention takes the directory of a response away, and only unleased.
OnlyRetentionRemoves ==
  [][\A p \in Kept : at[p] # None /\ at'[p] # at[p]
       => op.name = "cleanup" /\ active[p] = 0]_vars

\* Failures and crashes do not pile up what is to be removed: the next operation
\* begins with it, and does nothing else while it cannot be removed.
RecoveryIsBounded == Cardinality(quarantine) <= 1 /\ Cardinality(staging) <= 1

\* No history of faults and crashes wedges the manager: an operation that meets no
\* fault itself does not throw.  The second attempt of a release is apart.
NeverWedged == outcome.how = "stuck" => outcome.name = "release-pending"
=============================================================================

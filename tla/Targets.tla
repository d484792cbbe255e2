------------------------------ MODULE Targets -------------------------------
(***************************************************************************)
(* Invocation targets (src/control-plane/targets.ts): their configuration, *)
(* the conformance record that lets them be enabled, the verifications and *)
(* scans that write it (src/provider-runtime/capability-service.ts), the   *)
(* administrator's routes (src/server/admin-routes.ts), the grants         *)
(* (src/control-plane/grants.ts), and the calls that rely on all of these. *)
(*                                                                         *)
(* A repository call is one synchronous transaction.  Verifications and    *)
(* scans wait for the provider's process, and write what they learnt about *)
(* a row that may have changed since.  Aliases, acknowledgements and the   *)
(* validation of fields are left out.                                      *)
(***************************************************************************)
EXTENDS Naturals

CONSTANTS
  Ids,        \* target identifiers
  Clis,       \* the providers' command-line tools
  Versions,   \* their versions
  Models,     \* native models
  Runs,       \* calls
  Verifiers,  \* verifications that may be in flight together
  Scanners,   \* scans that may be in flight together
  MaxWrites,  \* bound: timestamps given out
  None


VARIABLES
  rows,          \* invocation_targets, by id
  clock,         \* lastTargetTimestampMs
  availability,  \* CapabilityService.availability, by tool
  verifiers,     \* verifyTarget in flight, by verifier
  scanners,      \* scanInstalled in flight, by scanner
  grants,        \* granted targets, by id, with the created_at they were granted at
  runs,          \* calls that have a row in runs, by run
  doubted        \* history: per id, the last timestamp that took a proof away

vars == <<rows, clock, availability, verifiers, scanners, grants, runs, doubted>>

Levels == {"low", "high"}  \* of isolation, streaming, tools and effort taken together

Contract == [cli : Clis, model : Models, need : Levels]

\* capability_json with what the probe was asked, and when.
Proof == [level : Levels, for : Contract, since : Nat]

ASSUME TargetsAssumption ==
  MaxWrites \in Nat /\ None \notin Versions /\ None \notin Proof

Row == [born : Nat, stamp : Nat, contract : Contract, enabled : BOOLEAN,
        version : Versions \cup {None}, proof : Proof \cup {None}, err : BOOLEAN]

Answer == Versions \cup {None}  \* a version, or unavailable

Idle == [phase |-> "idle"]

Verification == [phase : {"probing"}, id : Ids, row : Row, new : BOOLEAN]
                  \cup [phase : {"releasing"}, id : Ids, new : BOOLEAN, ok : BOOLEAN]
                  \cup {Idle}

Done == [phase |-> "done"]

Call == [phase : {"reserved"}, id : Ids, born : Nat]
          \cup [phase : {"open"}, id : Ids, born : Nat, row : Row] \cup {Done}

\* The partial function f with a value at one more point, or at one less.
With(f, x, y) == [z \in DOMAIN f \cup {x} |-> IF z = x THEN y ELSE f[z]]

Except(f, x) == [z \in DOMAIN f \ {x} |-> f[z]]

Exists(id) == id \in DOMAIN rows

Covers(level, need) == need = "low" \/ level = "high"

\* hasCurrentCompatibleCapability
Compatible(row) ==
  /\ row.version # None /\ row.proof # None /\ ~row.err
  /\ Covers(row.proof.level, row.contract.need)

Init ==
  /\ rows = << >> /\ clock = 0
  /\ availability = [c \in Clis |-> "unscanned"]
  /\ verifiers = [v \in Verifiers |-> Idle]
  /\ scanners = [s \in Scanners |-> Idle]
  /\ grants = << >>
  /\ runs = << >>
  /\ doubted = [id \in Ids |-> 0]

-----------------------------------------------------------------------------
(* The repository.                                                         *)

\* nextTargetTimestamp: later than every earlier one.
Stamps == clock < MaxWrites /\ clock' = clock + 1

Insert(id, k) ==
  /\ ~Exists(id) /\ Stamps
  /\ rows' = With(rows, id, [born |-> clock', stamp |-> clock', contract |-> k,
                             enabled |-> FALSE, version |-> None, proof |-> None,
                             err |-> FALSE])

\* Mutant of Updated: the old record outlives the contract it was made for.
UpdatedKeepingRecord(row, k, e) ==
  [row EXCEPT !.contract = k, !.enabled = e, !.stamp = clock']

\* The row that update writes for the contract k and the switch e.
Updated(row, k, e) ==
  IF k = row.contract
    THEN [row EXCEPT !.enabled = e, !.stamp = clock']
    ELSE [row EXCEPT !.contract = k, !.enabled = FALSE, !.version = None,
                     !.proof = None, !.err = TRUE, !.stamp = clock']

Live(r) == r \in DOMAIN runs /\ runs[r] # Done

InUse(id) == \E r \in DOMAIN runs : Live(r) /\ runs[r].id = id

\* Mutant of CanDelete: rows in runs are not looked for.
CanDeleteInUse(id) == Exists(id) /\ ~rows[id].enabled

\* Mutant of CanDelete: enabled is not looked at.
CanDeleteEnabled(id) == Exists(id) /\ ~InUse(id)

CanDelete(id) == Exists(id) /\ ~rows[id].enabled /\ ~InUse(id)

\* The grants go with their target: ON DELETE CASCADE.
Remove(id) ==
  /\ CanDelete(id)
  /\ rows' = Except(rows, id)
  /\ grants' = Except(grants, id)

\* Mutant of SameConfiguration: the clause on updated_at is missing.
SameConfigurationOnly(id, expected) ==
  /\ Exists(id)
  /\ rows[id].contract = expected.contract
  /\ rows[id].born = expected.born

\* The WHERE clauses of the two conditional updates.
SameConfiguration(id, expected) ==
  /\ Exists(id)
  /\ rows[id].contract = expected.contract
  /\ rows[id].born = expected.born
  /\ rows[id].stamp = expected.stamp

SameStamp(id, expected) == Exists(id) /\ rows[id].stamp = expected.stamp

-----------------------------------------------------------------------------
(* The administrator's routes.                                             *)

Create(id, k) ==
  /\ Insert(id, k)
  /\ UNCHANGED <<availability, verifiers, scanners, grants, runs, doubted>>

Probing(id, row, new) == [phase |-> "probing", id |-> id, row |-> row, new |-> new]

\* verify_on_create: the probe starts before the handler is interrupted.
CreateAndVerify(id, k, v) ==
  /\ Insert(id, k)
  /\ verifiers[v] = Idle
  /\ verifiers' = [verifiers EXCEPT ![v] = Probing(id, rows'[id], TRUE)]
  /\ UNCHANGED <<availability, scanners, grants, runs, doubted>>

\* The route's own check, against the last scan, before the repository's.
ScanAllows(row) ==
  \/ availability[row.contract.cli] = "unscanned"
  \/ row.version = None
  \/ availability[row.contract.cli] = row.version

\* e is the switch asked for, k the contract: either may be what it was.
Patch(id, k, e) ==
  /\ Exists(id) /\ Stamps
  /\ e /\ ~rows[id].enabled => ScanAllows(rows[id])
  /\ LET row == Updated(rows[id], k, e) IN
       /\ row.enabled => Compatible(row)
       /\ rows' = [rows EXCEPT ![id] = row]
       /\ doubted' = IF k = rows[id].contract THEN doubted
                     ELSE [doubted EXCEPT ![id] = clock']
  /\ UNCHANGED <<availability, verifiers, scanners, grants, runs>>

Delete(id) ==
  /\ Remove(id)
  /\ UNCHANGED <<clock, availability, verifiers, scanners, runs, doubted>>

Grant(id) ==
  /\ Exists(id) /\ id \notin DOMAIN grants
  /\ grants' = With(grants, id, rows[id].born)
  /\ UNCHANGED <<rows, clock, availability, verifiers, scanners, runs, doubted>>

Revoke(id) ==
  /\ id \in DOMAIN grants
  /\ grants' = Except(grants, id)
  /\ UNCHANGED <<rows, clock, availability, verifiers, scanners, runs, doubted>>

-----------------------------------------------------------------------------
(* verifyTarget.                                                           *)

VerifyStart(v, id) ==
  /\ Exists(id) /\ verifiers[v] = Idle
  /\ verifiers' = [verifiers EXCEPT ![v] = Probing(id, rows[id], FALSE)]
  /\ UNCHANGED <<rows, clock, availability, scanners, grants, runs, doubted>>

Releases(v, ok) ==
  verifiers' = [verifiers EXCEPT
    ![v] = [phase |-> "releasing", id |-> @.id, new |-> @.new, ok |-> ok]]

\* setCapabilityIfUnchanged: enabled stays what it is.
Proves(v, version, level) ==
  LET job == verifiers[v] IN
  /\ SameConfiguration(job.id, job.row) /\ Stamps
  /\ rows' = [rows EXCEPT
       ![job.id].version = version, ![job.id].err = FALSE, ![job.id].stamp = clock',
       ![job.id].proof = [level |-> level, for |-> job.row.contract,
                          since |-> job.row.stamp]]

\* The workspace, or the probe: unavailable, failed, or timed out.
VerifyFails(v) ==
  /\ verifiers[v].phase = "probing"
  /\ Releases(v, FALSE)
  /\ UNCHANGED <<rows, clock, availability, scanners, grants, runs, doubted>>

VerifyAnswers(v, version, level) ==
  /\ verifiers[v].phase = "probing"
  /\ \/ /\ Covers(level, verifiers[v].row.contract.need)
        /\ Proves(v, version, level)
        /\ Releases(v, TRUE)
     \/ /\ \/ ~Covers(level, verifiers[v].row.contract.need)
           \/ ~SameConfiguration(verifiers[v].id, verifiers[v].row)
        /\ Releases(v, FALSE)
        /\ UNCHANGED <<rows, clock>>
  /\ UNCHANGED <<availability, scanners, grants, runs, doubted>>

\* The lease is released, or cannot be: a target whose verification on creation
\* did not end well is deleted by its id, if a deletion is allowed.
VerifyEnds(v, released) ==
  /\ verifiers[v].phase = "releasing"
  /\ verifiers' = [verifiers EXCEPT ![v] = Idle]
  /\ LET job == verifiers[v] IN
       IF job.new /\ ~(job.ok /\ released) /\ CanDelete(job.id)
         THEN Remove(job.id)
         ELSE UNCHANGED <<rows, grants>>
  /\ UNCHANGED <<clock, availability, scanners, runs, doubted>>

-----------------------------------------------------------------------------
(* scanInstalled.                                                          *)

ScanStart(s) ==
  /\ scanners[s] = Idle
  /\ scanners' = [scanners EXCEPT ![s] = [phase |-> "probing", rows |-> rows, seen |-> << >>]]
  /\ UNCHANGED <<rows, clock, availability, verifiers, grants, runs, doubted>>

\* hasValidPersistedRecord
StillValid(row, version) ==
  row.version = version /\ row.version # None /\ row.proof # None /\ ~row.err

\* invalidateCapabilityIfUnchanged: of an available tool, the version that was
\* verified is kept.
Invalidated(row, old, version) ==
  [row EXCEPT !.enabled = FALSE, !.proof = None, !.err = TRUE, !.stamp = clock',
              !.version = IF version = None \/ old.version = None THEN version
                          ELSE old.version]

\* The targets that a scan, begun when they were old, finds without a valid
\* record, and that nobody wrote since.
Stale(old, seen) ==
  {id \in DOMAIN old :
     ~StillValid(old[id], seen[old[id].contract.cli]) /\ SameStamp(id, old[id])}

\* The provider of one tool answers; the last answer ends the scan.
ScanSees(s, c, version) ==
  /\ scanners[s].phase = "probing"
  /\ c \notin DOMAIN scanners[s].seen
  /\ LET old == scanners[s].rows
         seen == With(scanners[s].seen, c, version)
         stale == Stale(old, seen)
     IN
     IF DOMAIN seen # Clis
       THEN /\ scanners' = [scanners EXCEPT ![s].seen = seen]
            /\ UNCHANGED <<rows, clock, availability, doubted>>
       ELSE /\ IF stale = {} THEN UNCHANGED clock ELSE Stamps
            /\ rows' = [id \in DOMAIN rows |->
                 IF id \in stale
                   THEN Invalidated(rows[id], old[id], seen[old[id].contract.cli])
                   ELSE rows[id]]
            /\ doubted' = [id \in Ids |-> IF id \in stale THEN clock' ELSE doubted[id]]
            /\ availability' = seen
            /\ scanners' = [scanners EXCEPT ![s] = Idle]
  /\ UNCHANGED <<verifiers, grants, runs>>

-----------------------------------------------------------------------------
(* Calls.                                                                  *)

\* authorize, then the reservation of a run, in one step of the handler; that the
\* client is active and the extension enabled changes nothing else here.
Reserve(r, id) ==
  /\ r \notin DOMAIN runs
  /\ id \in DOMAIN grants /\ Exists(id)
  /\ rows[id].enabled /\ Compatible(rows[id])
  /\ runs' = With(runs, r, [phase |-> "reserved", id |-> id, born |-> rows[id].born])
  /\ UNCHANGED <<rows, clock, availability, verifiers, scanners, grants, doubted>>

\* startInvocation, when the first event is asked for: requireTarget.
Open(r) ==
  /\ r \in DOMAIN runs /\ runs[r].phase = "reserved"
  /\ Exists(runs[r].id)
  /\ rows[runs[r].id].enabled /\ Compatible(rows[runs[r].id])
  /\ runs' = [runs EXCEPT ![r] = [phase |-> "open", id |-> @.id, born |-> @.born,
                                  row |-> rows[@.id]]]
  /\ UNCHANGED <<rows, clock, availability, verifiers, scanners, grants, doubted>>

\* The run ends, or its handler does without opening it.
RunEnds(r) ==
  /\ Live(r)
  /\ runs' = [runs EXCEPT ![r] = Done]
  /\ UNCHANGED <<rows, clock, availability, verifiers, scanners, grants, doubted>>

\* The process dies and starts again: runs that were live are interrupted.  The
\* scan it does before it listens is one of the scans above.
Restart ==
  /\ availability' = [c \in Clis |-> "unscanned"]
  /\ verifiers' = [v \in Verifiers |-> Idle]
  /\ scanners' = [s \in Scanners |-> Idle]
  /\ runs' = [r \in DOMAIN runs |-> Done]
  /\ UNCHANGED <<rows, clock, grants, doubted>>

-----------------------------------------------------------------------------
Administration ==
  \/ \E id \in Ids, k \in Contract :
       \/ Create(id, k)
       \/ \E v \in Verifiers : CreateAndVerify(id, k, v)
       \/ \E e \in BOOLEAN : Patch(id, k, e)
  \/ \E id \in Ids : Delete(id) \/ Grant(id) \/ Revoke(id)

Verifying ==
  \E v \in Verifiers :
    \/ \E id \in Ids : VerifyStart(v, id)
    \/ VerifyFails(v)
    \/ \E version \in Versions, level \in Levels : VerifyAnswers(v, version, level)
    \/ \E released \in BOOLEAN : VerifyEnds(v, released)

Scanning ==
  \E s \in Scanners :
    \/ ScanStart(s)
    \/ \E c \in Clis, version \in Answer : ScanSees(s, c, version)

Calling ==
  \E r \in Runs : (\E id \in Ids : Reserve(r, id)) \/ Open(r) \/ RunEnds(r)

Next == Administration \/ Verifying \/ Scanning \/ Calling \/ Restart

Spec == Init /\ [][Next]_vars

-----------------------------------------------------------------------------
(* Properties.                                                             *)

PartialRows(f) == DOMAIN f \subseteq Ids /\ \A id \in DOMAIN f : f[id] \in Row

IsScan(job) ==
  \/ job = Idle
  \/ /\ job.phase = "probing" /\ PartialRows(job.rows)
     /\ DOMAIN job.seen \subseteq Clis /\ \A c \in DOMAIN job.seen : job.seen[c] \in Answer

\* The variables stay in their types, and a record in a row is older than the
\* updated_at of the row: every write moves it, which the conditional updates of
\* verifications and scans rely on.
TypeOK ==
  /\ PartialRows(rows)
  /\ \A id \in DOMAIN rows : rows[id].proof # None => rows[id].proof.since < rows[id].stamp
  /\ clock \in 0..MaxWrites
  /\ availability \in [Clis -> Answer \cup {"unscanned"}]
  /\ verifiers \in [Verifiers -> Verification]
  /\ DOMAIN scanners = Scanners /\ \A s \in Scanners : IsScan(scanners[s])
  /\ DOMAIN grants \subseteq Ids /\ \A id \in DOMAIN grants : grants[id] \in Nat
  /\ DOMAIN runs \subseteq Runs /\ \A r \in DOMAIN runs : runs[r] \in Call
  /\ doubted \in [Ids -> Nat]

\* A target that is enabled has a record that a probe of its present
\* configuration produced: no interleaving of updates, verifications and scans
\* leaves it enabled on the evidence of another contract.
EnabledIsProven ==
  \A id \in DOMAIN rows :
    rows[id].enabled => Compatible(rows[id]) /\ rows[id].proof.for = rows[id].contract

\* A verification that began before a change of contract, or before a scan that
\* called for conformance, never restores the record they took away.
NoStaleVerdict ==
  \A id \in DOMAIN rows : rows[id].proof # None => rows[id].proof.since >= doubted[id]

\* Both: the rows are of their type, and none is enabled on foreign evidence.
RowsAreProven == TypeOK /\ EnabledIsProven

\* While a call is queued or running, the row of the target it was authorized
\* for exists, and is not another one created under the same identifier.
RunHasItsTarget ==
  \A r \in DOMAIN runs :
    Live(r) => Exists(runs[r].id) /\ rows[runs[r].id].born = runs[r].born

\* The configuration a call executes was enabled and proven when it was opened,
\* though the target may have been disabled since it was authorized.
RunsProvenContract ==
  \A r \in DOMAIN runs :
    runs[r].phase = "open" =>
      /\ runs[r].row.enabled /\ runs[r].row.born = runs[r].born
      /\ runs[r].row.proof # None /\ runs[r].row.proof.for = runs[r].row.contract

\* A grant is of a target that exists, the one it was given for: a target
\* created again under an old identifier inherits nobody's grant.
NoInheritedGrant ==
  \A id \in DOMAIN grants : Exists(id) /\ rows[id].born = grants[id]

\* Calls and grants are of the incarnation of the target they were made for, and
\* a call executes what was proven of it, whatever deletions, new creations and
\* updates came between its authorization, its start and its end.
NothingInherited == RunHasItsTarget /\ NoInheritedGrant /\ RunsProvenContract

StateOf(id) ==
  IF ~Exists(id) THEN "absent"
  ELSE IF rows[id].enabled THEN "enabled"
  ELSE IF Compatible(rows[id]) THEN "proven" ELSE "unproven"

\* Every target goes through the gate: proven before enabled, disabled as soon
\* as it is doubted, never removed while enabled.
Gate == INSTANCE TargetGate WITH state <- [id \in Ids |-> StateOf(id)]

GatesHold == Gate!Spec
=============================================================================

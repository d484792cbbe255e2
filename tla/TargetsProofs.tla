--------------------------- MODULE TargetsProofs ----------------------------
(***************************************************************************)
(* Targets: the invariants of its rows, grants and calls, for any number   *)
(* of targets, tools, calls, verifications and scans.                      *)
(***************************************************************************)
EXTENDS Targets, TLAPS

\* What an update can leave in a row: the clock is past its stamp, and whatever
\* record it holds was made for its contract, since the last doubt.
SoundRow(id) ==
  /\ rows[id] \in Row
  /\ rows[id].stamp <= clock
  /\ doubted[id] <= rows[id].stamp
  /\ rows[id].proof # None =>
       rows[id].proof.for = rows[id].contract /\ rows[id].proof.since >= doubted[id]
  /\ rows[id].enabled => Compatible(rows[id])

RowsSound == DOMAIN rows \subseteq Ids /\ \A id \in DOMAIN rows : SoundRow(id)

ClockSound ==
  /\ clock \in Nat /\ doubted \in [Ids -> Nat]
  /\ \A id \in Ids : doubted[id] <= clock

JobsTyped ==
  /\ DOMAIN verifiers = Verifiers
  /\ \A v \in Verifiers : verifiers[v].phase # "idle" => verifiers[v].id \in Ids
  /\ DOMAIN scanners = Scanners /\ \A s \in Scanners : IsScan(scanners[s])

IInv ==
  RowsSound /\ ClockSound /\ JobsTyped /\ NoInheritedGrant /\ RunHasItsTarget /\ RunsProvenContract

-----------------------------------------------------------------------------
(* Rows.                                                                   *)

\* A row that nobody writes stays sound while the clock moves on.
LEMMA UntouchedRow ==
  ASSUME NEW id, SoundRow(id), rows'[id] = rows[id], doubted'[id] = doubted[id],
         clock \in Nat, clock' \in Nat, clock' >= clock
  PROVE  SoundRow(id)'
<1>1. rows[id].stamp \in Nat
  BY DEF SoundRow, Row
<1> QED
  BY <1>1 DEF SoundRow, Compatible

\* nextTargetTimestamp gives a later timestamp.
LEMMA StampsLater ==
  ASSUME clock \in Nat, Stamps
  PROVE  clock' \in Nat /\ clock' = clock + 1
BY DEF Stamps

\* A step that writes no row, doubts nothing and gives out no timestamp keeps
\* the rows sound.
LEMMA RowsKept ==
  ASSUME IInv, UNCHANGED <<rows, clock, doubted>>
  PROVE  RowsSound' /\ ClockSound'
BY DEF IInv, RowsSound, ClockSound, SoundRow, Compatible

\* Rows that keep their incarnation keep the grants and the calls made on them.
LEMMA ReliantsKept ==
  ASSUME IInv, UNCHANGED <<grants, runs>>,
         \A id \in DOMAIN rows : id \in DOMAIN rows' /\ rows'[id].born = rows[id].born
  PROVE  NoInheritedGrant' /\ RunHasItsTarget'
BY DEF IInv, NoInheritedGrant, RunHasItsTarget, Live, Exists

-----------------------------------------------------------------------------
(* The writers.                                                            *)

\* create() inserts a sound row: disabled, without a record, with a new stamp.
LEMMA InsertSound ==
  ASSUME IInv, NEW id \in Ids, NEW k \in Contract, Insert(id, k),
         UNCHANGED <<doubted, grants, runs>>
  PROVE  RowsSound' /\ ClockSound' /\ NoInheritedGrant' /\ RunHasItsTarget'
<1>1. clock \in Nat /\ clock' \in Nat /\ clock' = clock + 1 /\ ~Exists(id)
  BY StampsLater DEF Insert, IInv, ClockSound
<1>2. /\ DOMAIN rows' = DOMAIN rows \cup {id}
      /\ \A i \in DOMAIN rows : rows'[i] = rows[i]
      /\ rows'[id] = [born |-> clock', stamp |-> clock', contract |-> k, enabled |-> FALSE,
                      version |-> None, proof |-> None, err |-> FALSE]
  BY <1>1 DEF Insert, Exists, With
<1>3. ClockSound'
  BY <1>1 DEF IInv, ClockSound
<1>4. SoundRow(id)'
  <2>1. rows'[id] \in Row
    BY <1>1, <1>2 DEF Row
  <2>2. doubted[id] \in Nat /\ doubted[id] <= clock
    BY DEF IInv, ClockSound
  <2> QED
    BY <1>1, <1>2, <2>1, <2>2 DEF SoundRow
<1>5. ASSUME NEW i \in DOMAIN rows
      PROVE  SoundRow(i)'
  <2>1. SoundRow(i) /\ rows'[i] = rows[i]
    BY <1>2 DEF IInv, RowsSound
  <2> QED
    BY <1>1, <2>1, UntouchedRow
<1>6. RowsSound'
  BY <1>2, <1>4, <1>5 DEF RowsSound, IInv
<1>7. NoInheritedGrant' /\ RunHasItsTarget'
  BY <1>2, ReliantsKept
<1> QED
  BY <1>3, <1>6, <1>7

\* delete() takes away a row that no grant and no live call is left to rely on.
LEMMA RemoveSound ==
  ASSUME IInv, NEW id \in Ids, Remove(id), UNCHANGED <<clock, doubted, runs>>
  PROVE  RowsSound' /\ ClockSound' /\ NoInheritedGrant' /\ RunHasItsTarget'
<1>1. /\ DOMAIN rows' = DOMAIN rows \ {id}
      /\ \A i \in DOMAIN rows' : rows'[i] = rows[i]
      /\ DOMAIN grants' = DOMAIN grants \ {id}
      /\ \A i \in DOMAIN grants' : grants'[i] = grants[i]
      /\ ~InUse(id)
  BY DEF Remove, CanDelete, Except
<1>2. ClockSound'
  BY DEF IInv, ClockSound
<1>3. ASSUME NEW i \in DOMAIN rows'
      PROVE  SoundRow(i)'
  <2>1. SoundRow(i) /\ rows'[i] = rows[i] /\ clock \in Nat
    BY <1>1 DEF IInv, RowsSound, ClockSound
  <2> QED
    BY <2>1, UntouchedRow
<1>4. NoInheritedGrant'
  BY <1>1 DEF IInv, NoInheritedGrant, Exists
<1>5. RunHasItsTarget'
  BY <1>1 DEF IInv, RunHasItsTarget, InUse, Live, Exists
<1> QED
  BY <1>1, <1>2, <1>3, <1>4, <1>5 DEF RowsSound, IInv

\* update() enables only what is compatible, and drops the record of another
\* contract.
LEMMA PatchSound ==
  ASSUME IInv, NEW id \in Ids, NEW k \in Contract, NEW e \in BOOLEAN, Patch(id, k, e)
  PROVE  RowsSound' /\ ClockSound' /\ NoInheritedGrant' /\ RunHasItsTarget'
<1> DEFINE row == Updated(rows[id], k, e)
<1>1. clock \in Nat /\ clock' \in Nat /\ clock' = clock + 1
  BY StampsLater DEF Patch, IInv, ClockSound
<1>2. /\ id \in DOMAIN rows /\ rows' = [rows EXCEPT ![id] = row]
      /\ row.enabled => Compatible(row)
      /\ doubted' = IF k = rows[id].contract THEN doubted ELSE [doubted EXCEPT ![id] = clock']
      /\ UNCHANGED <<grants, runs>>
  BY DEF Patch, Exists
<1>3. SoundRow(id) /\ rows[id] \in Row
  BY <1>2 DEF IInv, RowsSound, SoundRow
<1>4. rows'[id] = row
  BY <1>2
<1>5. ClockSound'
  BY <1>1, <1>2 DEF IInv, ClockSound
<1>6. row \in Row /\ row.born = rows[id].born /\ row.stamp = clock'
  BY <1>1, <1>3 DEF Updated, Row
<1>7. SoundRow(id)'
  <2>1. CASE k = rows[id].contract
    <3>1. doubted'[id] = doubted[id] /\ doubted[id] \in Nat /\ doubted[id] <= clock
      BY <1>2, <2>1 DEF IInv, ClockSound
    <3>2. row.proof = rows[id].proof /\ row.contract = rows[id].contract
      BY <1>3, <2>1 DEF Updated, Row
    <3>3. row.proof # None =>
            row.proof.for = row.contract /\ row.proof.since >= doubted'[id]
      BY <1>3, <3>1, <3>2 DEF SoundRow
    <3> QED
      BY <1>1, <1>2, <1>4, <1>6, <3>1, <3>3 DEF SoundRow, Compatible
  <2>2. CASE k # rows[id].contract
    <3>1. doubted'[id] = clock'
      BY <1>2, <2>2 DEF IInv, ClockSound
    <3>2. row.proof = None
      BY <1>3, <2>2 DEF Updated, Row
    <3> QED
      BY <1>1, <1>2, <1>4, <1>6, <3>1, <3>2 DEF SoundRow, Compatible
  <2> QED
    BY <2>1, <2>2
<1>8. ASSUME NEW i \in DOMAIN rows, i # id
      PROVE  SoundRow(i)'
  <2>1. SoundRow(i) /\ rows'[i] = rows[i] /\ i \in Ids
    BY <1>2, <1>8 DEF IInv, RowsSound
  <2>2. doubted'[i] = doubted[i]
    BY <1>2, <1>8, <2>1 DEF IInv, ClockSound
  <2> QED
    BY <1>1, <2>1, <2>2, UntouchedRow
<1>9. DOMAIN rows' = DOMAIN rows
  BY <1>2
<1>10. RowsSound'
  BY <1>7, <1>8, <1>9 DEF RowsSound, IInv
<1>11. NoInheritedGrant' /\ RunHasItsTarget'
  BY <1>2, <1>4, <1>6, ReliantsKept
<1> QED
  BY <1>5, <1>10, <1>11

\* setCapabilityIfUnchanged stores a record of the contract the row has.
LEMMA ProvesSound ==
  ASSUME IInv, NEW v \in Verifiers, NEW version \in Versions, NEW level \in Levels,
         NEW id \in Ids, verifiers[v].phase = "probing", verifiers[v].id = id,
         Proves(v, version, level),
         Covers(level, verifiers[v].row.contract.need),
         UNCHANGED <<doubted, grants, runs>>
  PROVE  RowsSound' /\ ClockSound' /\ NoInheritedGrant' /\ RunHasItsTarget'
<1> DEFINE old == verifiers[v].row
           proof == [level |-> level, for |-> old.contract, since |-> old.stamp]
<1>1. clock \in Nat /\ clock' \in Nat /\ clock' = clock + 1
  BY StampsLater DEF Proves, IInv, ClockSound
<1>2. /\ id \in DOMAIN rows
      /\ rows[id].contract = old.contract /\ rows[id].stamp = old.stamp
      /\ rows' = [rows EXCEPT ![id].version = version, ![id].err = FALSE,
                              ![id].stamp = clock', ![id].proof = proof]
  BY DEF Proves, SameConfiguration, Exists
<1>3. SoundRow(id) /\ rows[id] \in Row /\ id \in Ids
  BY <1>2 DEF IInv, RowsSound, SoundRow
<1>4. proof \in Proof
  BY <1>2, <1>3 DEF Row, Proof
<1> DEFINE row == rows'[id]
<1>5. /\ row = [rows[id] EXCEPT !.version = version, !.err = FALSE, !.stamp = clock',
                                !.proof = proof]
      /\ DOMAIN rows' = DOMAIN rows
      /\ \A i \in DOMAIN rows : i # id => rows'[i] = rows[i]
  BY <1>2
<1>6. row \in Row /\ row.born = rows[id].born /\ row.stamp = clock'
  BY <1>1, <1>3, <1>4, <1>5 DEF Row
<1>7. SoundRow(id)'
  <2>1. row.proof = proof /\ row.contract = rows[id].contract /\ row.err = FALSE
        /\ row.version = version
    BY <1>3, <1>5 DEF Row
  <2>2. doubted[id] \in Nat /\ doubted[id] <= rows[id].stamp /\ doubted[id] <= clock
    BY <1>3 DEF IInv, ClockSound, SoundRow
  <2>3. row.proof.for = row.contract /\ row.proof.since >= doubted'[id]
    BY <1>2, <1>3, <2>1, <2>2 DEF Row
  <2>4. row.proof # None /\ row.version # None
    BY <1>4, <2>1, TargetsAssumption
  <2>5. Compatible(row)
    BY <1>2, <2>1, <2>4 DEF Compatible
  <2>6. Compatible(rows[id])'
    BY <2>5 DEF Compatible
  <2>7. doubted'[id] <= row.stamp /\ row.stamp <= clock'
    BY <1>1, <1>6, <2>2
  <2> QED
    BY <1>6, <2>3, <2>6, <2>7 DEF SoundRow
<1>8. ASSUME NEW i \in DOMAIN rows, i # id
      PROVE  SoundRow(i)'
  <2>1. SoundRow(i) /\ rows'[i] = rows[i]
    BY <1>5, <1>8 DEF IInv, RowsSound
  <2> QED
    BY <1>1, <2>1, UntouchedRow
<1>9. RowsSound'
  <2>1. \A i \in DOMAIN rows : SoundRow(i)'
    BY <1>7, <1>8
  <2> QED
    BY <1>5, <2>1 DEF RowsSound, IInv
<1>10. ClockSound'
  BY <1>1 DEF IInv, ClockSound
<1>11. NoInheritedGrant' /\ RunHasItsTarget'
  BY <1>5, <1>6, ReliantsKept
<1> QED
  BY <1>9, <1>10, <1>11

\* invalidateCapabilityIfUnchanged, for every target that a scan finds stale.
LEMMA ScanSound ==
  ASSUME IInv, NEW s \in Scanners, NEW c \in Clis, NEW version \in Answer,
         ScanSees(s, c, version)
  PROVE  RowsSound' /\ ClockSound' /\ NoInheritedGrant' /\ RunHasItsTarget' /\ JobsTyped'
<1> DEFINE old == scanners[s].rows
           seen == With(scanners[s].seen, c, version)
           stale == Stale(old, seen)
<1>1. /\ scanners[s].phase = "probing" /\ PartialRows(old)
      /\ DOMAIN seen \subseteq Clis /\ \A d \in DOMAIN seen : seen[d] \in Answer
      /\ DOMAIN scanners = Scanners
  BY DEF ScanSees, IInv, JobsTyped, IsScan, Idle, With
<1>2. UNCHANGED <<verifiers, grants, runs>>
  BY DEF ScanSees
<1>3. CASE DOMAIN seen # Clis
  <2>1. /\ UNCHANGED <<rows, clock, doubted>>
        /\ scanners' = [scanners EXCEPT ![s].seen = seen]
    BY <1>3 DEF ScanSees
  <2>2. scanners'[s] = [scanners[s] EXCEPT !.seen = seen]
    BY <1>1, <2>1
  <2>3. IsScan(scanners'[s])
    <3>1. IsScan(scanners[s]) /\ scanners[s] # Idle
      BY <1>1 DEF IInv, JobsTyped, Idle
    <3>2. scanners'[s].phase = "probing" /\ scanners'[s].rows = old
      BY <1>1, <2>2
    <3>3. "seen" \in DOMAIN scanners[s] => scanners'[s].seen = seen
      BY <2>2
    <3> QED
      BY <1>1, <2>2, <3>1, <3>2, <3>3 DEF IsScan
  <2>4. JobsTyped'
    BY <1>1, <1>2, <2>1, <2>3 DEF IInv, JobsTyped, IsScan, PartialRows
  <2>5. NoInheritedGrant' /\ RunHasItsTarget'
    BY <1>2, <2>1, ReliantsKept
  <2> QED
    BY <2>1, <2>4, <2>5, RowsKept
<1>4. CASE DOMAIN seen = Clis
  <2>1. /\ IF stale = {} THEN UNCHANGED clock ELSE Stamps
        /\ rows' = [id \in DOMAIN rows |->
             IF id \in stale THEN Invalidated(rows[id], old[id], seen[old[id].contract.cli])
                             ELSE rows[id]]
        /\ doubted' = [id \in Ids |-> IF id \in stale THEN clock' ELSE doubted[id]]
        /\ scanners' = [scanners EXCEPT ![s] = Idle]
    BY <1>4 DEF ScanSees
  <2>2. /\ clock \in Nat /\ clock' \in Nat /\ clock' >= clock
        /\ stale # {} => clock' = clock + 1
    BY <2>1, StampsLater DEF IInv, ClockSound
  <2>3. ClockSound'
    BY <2>1, <2>2 DEF IInv, ClockSound
  <2>4. ASSUME NEW id \in DOMAIN rows
        PROVE  SoundRow(id)' /\ rows'[id].born = rows[id].born
    <3>1. SoundRow(id) /\ rows[id] \in Row /\ id \in Ids
      BY <2>4 DEF IInv, RowsSound, SoundRow
    <3>2. CASE id \notin stale
      <4>1. rows'[id] = rows[id] /\ doubted'[id] = doubted[id]
        BY <2>1, <3>1, <3>2
      <4> QED
        BY <2>2, <3>1, <4>1, UntouchedRow
    <3>3. CASE id \in stale
      <4>1. old[id] \in Row /\ seen[old[id].contract.cli] \in Answer
        BY <1>1, <1>4, <3>3 DEF Stale, PartialRows, Row, Contract
      <4>2. rows'[id] = Invalidated(rows[id], old[id], seen[old[id].contract.cli])
        BY <2>1, <3>3
      <4>3. doubted'[id] = clock' /\ clock' = clock + 1
        BY <2>1, <2>2, <3>1, <3>3
      <4>4. /\ rows'[id] \in Row /\ rows'[id].born = rows[id].born
            /\ rows'[id].stamp = clock' /\ rows'[id].proof = None /\ rows'[id].enabled = FALSE
        BY <2>2, <3>1, <4>1, <4>2 DEF Invalidated, Row, Answer
      <4> QED
        BY <2>2, <4>3, <4>4 DEF SoundRow
    <3> QED
      BY <3>2, <3>3
  <2>5. DOMAIN rows' = DOMAIN rows
    BY <2>1
  <2>6. RowsSound'
    BY <2>4, <2>5 DEF RowsSound, IInv
  <2>7. JobsTyped'
    BY <1>1, <1>2, <2>1 DEF IInv, JobsTyped, IsScan, PartialRows
  <2>8. NoInheritedGrant' /\ RunHasItsTarget'
    BY <1>2, <2>4, <2>5, ReliantsKept
  <2> QED
    BY <2>3, <2>6, <2>7, <2>8
<1> QED
  BY <1>3, <1>4

-----------------------------------------------------------------------------
(* The inductive invariant.                                                *)

\* The database is empty and nothing is in flight.
LEMMA InitHolds == Init => IInv
BY DEF Init, IInv, RowsSound, ClockSound, JobsTyped, IsScan, Idle, NoInheritedGrant,
       RunHasItsTarget, RunsProvenContract, Live

\* A step that leaves the database alone, but for the calls and the grants.
LEMMA DatabaseKept ==
  ASSUME IInv, UNCHANGED <<rows, clock, doubted, verifiers, scanners>>
  PROVE  RowsSound' /\ ClockSound' /\ JobsTyped'
BY RowsKept DEF IInv, JobsTyped, IsScan, PartialRows

\* A step of the administrator.
LEMMA AdministrationSteps == IInv /\ Administration => IInv'
<1> SUFFICES ASSUME IInv, Administration PROVE IInv'
  OBVIOUS
<1>1. ASSUME NEW id \in Ids, NEW k \in Contract, Create(id, k)
      PROVE  IInv'
  <2>1. UNCHANGED <<verifiers, scanners, runs, grants, doubted>> /\ Insert(id, k)
    BY <1>1 DEF Create
  <2> QED
    BY <2>1, InsertSound DEF IInv, JobsTyped, IsScan, PartialRows, RunsProvenContract
<1>2. ASSUME NEW id \in Ids, NEW k \in Contract, NEW v \in Verifiers, CreateAndVerify(id, k, v)
      PROVE  IInv'
  <2>1. /\ UNCHANGED <<scanners, runs, grants, doubted>> /\ Insert(id, k)
        /\ verifiers' = [verifiers EXCEPT ![v] = Probing(id, rows'[id], TRUE)]
    BY <1>2 DEF CreateAndVerify
  <2>2. JobsTyped'
    BY <2>1 DEF IInv, JobsTyped, IsScan, PartialRows, Probing
  <2> QED
    BY <2>1, <2>2, InsertSound DEF IInv, RunsProvenContract
<1>3. ASSUME NEW id \in Ids, NEW k \in Contract, NEW e \in BOOLEAN, Patch(id, k, e)
      PROVE  IInv'
  <2>1. UNCHANGED <<verifiers, scanners, runs>>
    BY <1>3 DEF Patch
  <2> QED
    BY <1>3, <2>1, PatchSound DEF IInv, JobsTyped, IsScan, PartialRows, RunsProvenContract
<1>4. ASSUME NEW id \in Ids, Delete(id)
      PROVE  IInv'
  <2>1. UNCHANGED <<verifiers, scanners, runs, clock, doubted>> /\ Remove(id)
    BY <1>4 DEF Delete
  <2> QED
    BY <2>1, RemoveSound DEF IInv, JobsTyped, IsScan, PartialRows, RunsProvenContract
<1>5. ASSUME NEW id \in Ids, Grant(id) \/ Revoke(id)
      PROVE  IInv'
  <2>1. UNCHANGED <<rows, clock, doubted, verifiers, scanners, runs>>
    BY <1>5 DEF Grant, Revoke
  <2>2. NoInheritedGrant'
    BY <1>5, <2>1 DEF IInv, Grant, Revoke, NoInheritedGrant, Exists, With, Except
  <2>3. RunHasItsTarget' /\ RunsProvenContract'
    BY <2>1 DEF IInv, RunHasItsTarget, RunsProvenContract, Live, Exists
  <2> QED
    BY <2>1, <2>2, <2>3, DatabaseKept DEF IInv
<1> QED
  BY <1>1, <1>2, <1>3, <1>4, <1>5 DEF Administration

\* A step of a verification.
LEMMA VerifyingSteps == IInv /\ Verifying => IInv'
<1> SUFFICES ASSUME IInv, NEW v \in Verifiers,
                    \/ \E id \in Ids : VerifyStart(v, id)
                    \/ VerifyFails(v)
                    \/ \E version \in Versions, level \in Levels : VerifyAnswers(v, version, level)
                    \/ \E released \in BOOLEAN : VerifyEnds(v, released)
             PROVE  IInv'
  BY DEF Verifying
<1>0. UNCHANGED <<scanners, runs, doubted>>
  BY DEF VerifyStart, VerifyFails, VerifyAnswers, VerifyEnds
<1>1. RunsProvenContract'
  BY <1>0 DEF IInv, RunsProvenContract
<1>2. ASSUME NEW ok \in BOOLEAN, verifiers[v].phase = "probing", Releases(v, ok)
      PROVE  JobsTyped'
  BY <1>0, <1>2 DEF IInv, JobsTyped, IsScan, PartialRows, Releases
<1>3. ASSUME NEW id \in Ids, VerifyStart(v, id)
      PROVE  IInv'
  <2>1. /\ UNCHANGED <<rows, clock, grants>>
        /\ verifiers' = [verifiers EXCEPT ![v] = Probing(id, rows[id], FALSE)]
    BY <1>3 DEF VerifyStart
  <2>2. JobsTyped'
    BY <1>0, <2>1 DEF IInv, JobsTyped, IsScan, PartialRows, Probing
  <2> QED
    BY <1>0, <1>1, <2>1, <2>2, RowsKept, ReliantsKept DEF IInv
<1>4. ASSUME VerifyFails(v)
      PROVE  IInv'
  <2>1. UNCHANGED <<rows, clock, grants>> /\ JobsTyped'
    BY <1>2, <1>4 DEF VerifyFails
  <2> QED
    BY <1>0, <1>1, <2>1, RowsKept, ReliantsKept DEF IInv
<1>5. ASSUME NEW version \in Versions, NEW level \in Levels, VerifyAnswers(v, version, level)
      PROVE  IInv'
  <2>1. verifiers[v].phase = "probing" /\ verifiers[v].id \in Ids /\ UNCHANGED grants
    BY <1>5 DEF VerifyAnswers, IInv, JobsTyped
  <2>2. CASE UNCHANGED <<rows, clock>>
    <3>1. JobsTyped'
      BY <1>2, <1>5, <2>1 DEF VerifyAnswers
    <3> QED
      BY <1>0, <1>1, <2>1, <2>2, <3>1, RowsKept, ReliantsKept DEF IInv
  <2>3. CASE /\ Covers(level, verifiers[v].row.contract.need)
             /\ Proves(v, version, level) /\ Releases(v, TRUE)
    BY <1>0, <1>1, <1>2, <2>1, <2>3, ProvesSound DEF IInv
  <2> QED
    BY <1>5, <2>2, <2>3 DEF VerifyAnswers
<1>6. ASSUME NEW released \in BOOLEAN, VerifyEnds(v, released)
      PROVE  IInv'
  <2>1. /\ verifiers[v].phase = "releasing" /\ verifiers[v].id \in Ids
        /\ verifiers' = [verifiers EXCEPT ![v] = Idle] /\ UNCHANGED clock
        /\ Remove(verifiers[v].id) \/ UNCHANGED <<rows, grants>>
    BY <1>6 DEF VerifyEnds, IInv, JobsTyped
  <2>2. JobsTyped'
    BY <1>0, <2>1 DEF IInv, JobsTyped, IsScan, PartialRows, Idle
  <2>3. CASE Remove(verifiers[v].id)
    BY <1>0, <1>1, <2>1, <2>2, <2>3, RemoveSound DEF IInv
  <2>4. CASE UNCHANGED <<rows, grants>>
    BY <1>0, <1>1, <2>1, <2>2, <2>4, RowsKept, ReliantsKept DEF IInv
  <2> QED
    BY <2>1, <2>3, <2>4
<1> QED
  BY <1>3, <1>4, <1>5, <1>6

\* A step of a scan.
LEMMA ScanningSteps == IInv /\ Scanning => IInv'
<1> SUFFICES ASSUME IInv, NEW s \in Scanners,
                    \/ ScanStart(s)
                    \/ \E c \in Clis, version \in Answer : ScanSees(s, c, version)
             PROVE  IInv'
  BY DEF Scanning
<1>1. UNCHANGED runs /\ RunsProvenContract'
  BY DEF ScanStart, ScanSees, IInv, RunsProvenContract
<1>2. CASE ScanStart(s)
  <2>1. /\ UNCHANGED <<rows, clock, verifiers, grants, doubted>>
        /\ scanners' = [scanners EXCEPT
             ![s] = [phase |-> "probing", rows |-> rows, seen |-> << >>]]
    BY <1>2 DEF ScanStart
  <2>2. PartialRows(rows)
    BY DEF IInv, RowsSound, SoundRow, PartialRows
  <2>3. JobsTyped'
    BY <2>1, <2>2 DEF IInv, JobsTyped, IsScan, PartialRows
  <2> QED
    BY <1>1, <2>1, <2>3, RowsKept, ReliantsKept DEF IInv
<1>3. CASE \E c \in Clis, version \in Answer : ScanSees(s, c, version)
  BY <1>1, <1>3, ScanSound DEF IInv
<1> QED
  BY <1>2, <1>3

\* A step of a call: startInvocation opens only what requireTarget accepts.
LEMMA CallingSteps == IInv /\ Calling => IInv'
<1> SUFFICES ASSUME IInv, NEW r \in Runs,
                    (\E id \in Ids : Reserve(r, id)) \/ Open(r) \/ RunEnds(r)
             PROVE  IInv'
  BY DEF Calling
<1>1. UNCHANGED <<rows, clock, doubted, verifiers, scanners, grants>>
  BY DEF Reserve, Open, RunEnds
<1>2. RowsSound' /\ ClockSound' /\ JobsTyped' /\ NoInheritedGrant'
  BY <1>1, DatabaseKept DEF IInv, NoInheritedGrant, Exists
<1>3. RunHasItsTarget' /\ RunsProvenContract'
  <2>1. CASE \E id \in Ids : Reserve(r, id)
    BY <1>1, <2>1 DEF IInv, Reserve, With, RunHasItsTarget, RunsProvenContract, Live, Exists, Done
  <2>2. CASE Open(r)
    <3>1. /\ r \in DOMAIN runs /\ runs[r].phase = "reserved" /\ runs[r].id \in DOMAIN rows
          /\ rows[runs[r].id].enabled /\ Compatible(rows[runs[r].id])
          /\ runs' = [runs EXCEPT ![r] = [phase |-> "open", id |-> runs[r].id,
                                          born |-> runs[r].born, row |-> rows[runs[r].id]]]
      BY <2>2 DEF Open, Exists
    <3>2. rows[runs[r].id].born = runs[r].born
      BY <3>1 DEF IInv, RunHasItsTarget, Live, Done
    <3>3. SoundRow(runs[r].id)
      BY <3>1 DEF IInv, RowsSound
    <3>4. RunsProvenContract'
      BY <3>1, <3>2, <3>3 DEF IInv, RunsProvenContract, SoundRow, Compatible
    <3>5. RunHasItsTarget'
      BY <1>1, <3>1, <3>2 DEF IInv, RunHasItsTarget, Live, Exists, Done
    <3> QED
      BY <3>4, <3>5
  <2>3. CASE RunEnds(r)
    BY <1>1, <2>3 DEF IInv, RunEnds, RunHasItsTarget, RunsProvenContract, Live, Exists, Done
  <2> QED
    BY <2>1, <2>2, <2>3
<1> QED
  BY <1>2, <1>3 DEF IInv

\* The invariant is inductive.
LEMMA StepHolds == IInv /\ [Next]_vars => IInv'
<1> SUFFICES ASSUME IInv, [Next]_vars PROVE IInv'
  OBVIOUS
<1>1. CASE Restart
  <2>1. UNCHANGED <<rows, clock, grants, doubted>>
    BY <1>1 DEF Restart
  <2>2. JobsTyped' /\ RunHasItsTarget' /\ RunsProvenContract' /\ NoInheritedGrant'
    BY <1>1 DEF Restart, IInv, JobsTyped, IsScan, Idle, RunHasItsTarget, RunsProvenContract,
                NoInheritedGrant, Live, Exists, Done
  <2> QED
    BY <2>1, <2>2, RowsKept DEF IInv
<1>2. CASE UNCHANGED vars
  <2>1. NoInheritedGrant' /\ RunHasItsTarget' /\ RunsProvenContract'
    BY <1>2 DEF vars, IInv, NoInheritedGrant, RunHasItsTarget, RunsProvenContract, Live, Exists
  <2> QED
    BY <1>2, <2>1, DatabaseKept DEF vars, IInv
<1> QED
  BY <1>1, <1>2, AdministrationSteps, VerifyingSteps, ScanningSteps, CallingSteps DEF Next

\* The invariant holds in every state, whatever the constants.
THEOREM Invariance == Spec => []IInv
BY InitHolds, StepHolds, PTL DEF Spec

\* A target that is enabled was proven under the contract it has.
THEOREM Proven == Spec => []EnabledIsProven
<1>1. IInv => EnabledIsProven
  BY DEF IInv, RowsSound, SoundRow, EnabledIsProven, Compatible
<1> QED
  BY <1>1, Invariance, PTL

\* What a change of contract or a scan took away, no verification that began
\* earlier restores.
THEOREM NeverStale == Spec => []NoStaleVerdict
<1>1. IInv => NoStaleVerdict
  BY DEF IInv, RowsSound, SoundRow, NoStaleVerdict
<1> QED
  BY <1>1, Invariance, PTL

\* What a call executes was enabled and proven when it was opened.
THEOREM RunsAreProven == Spec => []RunsProvenContract
BY Invariance, PTL DEF IInv

\* A live call's target is there and is the one that was authorized, no grant
\* outlives its target, and what a call executes was proven.
THEOREM NothingIsInherited == Spec => []NothingInherited
<1>1. IInv => NothingInherited
  BY DEF IInv, NothingInherited
<1> QED
  BY <1>1, Invariance, PTL

-----------------------------------------------------------------------------
(* Types.                                                                  *)

\* What TypeOK says that the invariant above does not.
Older(id) == rows[id].proof # None => rows[id].proof.since < rows[id].stamp

RestTyped ==
  /\ \A id \in DOMAIN rows : Older(id)
  /\ clock <= MaxWrites
  /\ availability \in [Clis -> Answer \cup {"unscanned"}]
  /\ verifiers \in [Verifiers -> Verification]
  /\ DOMAIN grants \subseteq Ids /\ \A id \in DOMAIN grants : grants[id] \in Nat
  /\ DOMAIN runs \subseteq Runs /\ \A r \in DOMAIN runs : runs[r] \in Call

\* An empty table is typed.
LEMMA InitTyped == Init => RestTyped
BY TargetsAssumption DEF Init, RestTyped, Verification, Idle

\* Whatever a step writes stays in its type.
LEMMA StepTyped == IInv /\ IInv' /\ RestTyped /\ [Next]_vars => RestTyped'
<1> SUFFICES ASSUME IInv, IInv', RestTyped, [Next]_vars PROVE RestTyped'
  OBVIOUS
<1>0. /\ \A id \in DOMAIN rows : rows[id] \in Row /\ rows[id].stamp <= clock
      /\ \A id \in DOMAIN rows' : rows'[id] \in Row
      /\ clock \in Nat /\ MaxWrites \in Nat /\ DOMAIN rows \subseteq Ids
  BY TargetsAssumption DEF IInv, RowsSound, SoundRow, ClockSound
<1>1. ASSUME NEW id \in Ids, NEW k \in Contract, Insert(id, k)
      PROVE  (\A i \in DOMAIN rows' : Older(i)') /\ clock' <= MaxWrites /\ id \in DOMAIN rows'
  <2>1. /\ DOMAIN rows' = DOMAIN rows \cup {id} /\ rows'[id].proof = None
        /\ \A i \in DOMAIN rows : i # id => rows'[i] = rows[i]
        /\ clock' <= MaxWrites
    BY <1>0, <1>1 DEF Insert, With, Stamps, Exists
  <2> QED
    BY <2>1 DEF RestTyped, Older
<1>2. ASSUME NEW id \in Ids, Remove(id)
      PROVE  (\A i \in DOMAIN rows' : Older(i)')
             /\ DOMAIN grants' \subseteq Ids /\ \A i \in DOMAIN grants' : grants'[i] \in Nat
  BY <1>2 DEF Remove, Except, RestTyped, Older
<1>3. CASE Administration
  <2>1. ASSUME NEW id \in Ids, NEW k \in Contract, Create(id, k)
        PROVE  RestTyped'
    BY <1>1, <2>1 DEF Create, RestTyped
  <2>2. ASSUME NEW id \in Ids, NEW k \in Contract, NEW v \in Verifiers, CreateAndVerify(id, k, v)
        PROVE  RestTyped'
    <3>1. /\ verifiers' = [verifiers EXCEPT ![v] = Probing(id, rows'[id], TRUE)]
          /\ UNCHANGED <<availability, grants, runs>>
      BY <2>2 DEF CreateAndVerify
    <3>2. rows'[id] \in Row
      BY <1>0, <1>1, <2>2 DEF CreateAndVerify
    <3>3. Probing(id, rows'[id], TRUE) \in Verification
      BY <3>2 DEF Probing, Verification
    <3> QED
      BY <1>1, <2>2, <3>1, <3>3 DEF CreateAndVerify, RestTyped
  <2>3. ASSUME NEW id \in Ids, NEW k \in Contract, NEW e \in BOOLEAN, Patch(id, k, e)
        PROVE  RestTyped'
    <3>1. /\ id \in DOMAIN rows /\ rows' = [rows EXCEPT ![id] = Updated(rows[id], k, e)]
          /\ clock' = clock + 1 /\ clock' <= MaxWrites
          /\ UNCHANGED <<availability, verifiers, grants, runs>>
      BY <1>0, <2>3 DEF Patch, Stamps, Exists
    <3>2. Older(id)'
      <4>1. rows'[id] = Updated(rows[id], k, e) /\ rows[id] \in Row /\ rows[id].stamp < clock'
            /\ Older(id)
        <5>1. rows[id] \in Row /\ rows[id].stamp <= clock /\ Older(id) /\ rows[id].stamp \in Nat
          BY <1>0, <3>1 DEF RestTyped, Row
        <5> QED
          BY <1>0, <3>1, <5>1
      <4>2. rows'[id].stamp = clock' /\ (rows'[id].proof = rows[id].proof \/ rows'[id].proof = None)
        BY <4>1 DEF Updated, Row
      <4>3. rows[id].proof # None => rows[id].proof.since \in Nat /\ rows[id].stamp \in Nat
        BY <4>1 DEF Row, Proof
      <4> QED
        BY <1>0, <3>1, <4>1, <4>2, <4>3 DEF Older
    <3>3. \A i \in DOMAIN rows' : Older(i)'
      BY <3>1, <3>2 DEF RestTyped, Older
    <3> QED
      BY <3>1, <3>3 DEF RestTyped
  <2>4. ASSUME NEW id \in Ids, Delete(id)
        PROVE  RestTyped'
    BY <1>2, <2>4 DEF Delete, RestTyped
  <2>5. ASSUME NEW id \in Ids, Grant(id) \/ Revoke(id)
        PROVE  RestTyped'
    <3>1. UNCHANGED <<rows, clock, availability, verifiers, runs>>
      BY <2>5 DEF Grant, Revoke
    <3>2. DOMAIN grants' \subseteq Ids /\ \A i \in DOMAIN grants' : grants'[i] \in Nat
      BY <1>0, <2>5 DEF Grant, Revoke, With, Except, RestTyped, Row, Exists
    <3> QED
      BY <3>1, <3>2 DEF RestTyped, Older
  <2> QED
    BY <1>3, <2>1, <2>2, <2>3, <2>4, <2>5 DEF Administration
<1>4. ASSUME NEW v \in Verifiers,
             \/ \E id \in Ids : VerifyStart(v, id)
             \/ VerifyFails(v)
             \/ \E version \in Versions, level \in Levels : VerifyAnswers(v, version, level)
             \/ \E released \in BOOLEAN : VerifyEnds(v, released)
      PROVE  RestTyped'
  <2>0. UNCHANGED <<availability, runs>>
    BY <1>4 DEF VerifyStart, VerifyFails, VerifyAnswers, VerifyEnds
  <2>1. ASSUME NEW id \in Ids, VerifyStart(v, id)
        PROVE  RestTyped'
    <3>1. Probing(id, rows[id], FALSE) \in Verification
      BY <1>0, <2>1 DEF VerifyStart, Exists, Probing, Verification
    <3> QED
      BY <2>0, <2>1, <3>1 DEF VerifyStart, RestTyped, Older
  <2>2. ASSUME NEW ok \in BOOLEAN, verifiers[v].phase = "probing", Releases(v, ok)
        PROVE  verifiers' \in [Verifiers -> Verification]
    <3>1. verifiers[v] \in [phase : {"probing"}, id : Ids, row : Row, new : BOOLEAN]
      BY <2>2 DEF RestTyped, Verification, Idle
    <3>2. [phase |-> "releasing", id |-> verifiers[v].id, new |-> verifiers[v].new, ok |-> ok]
            \in Verification
      BY <3>1 DEF Verification
    <3> QED
      BY <2>2, <3>2 DEF Releases, RestTyped
  <2>3. CASE VerifyFails(v)
    BY <2>0, <2>2, <2>3 DEF VerifyFails, RestTyped, Older
  <2>4. ASSUME NEW version \in Versions, NEW level \in Levels, VerifyAnswers(v, version, level)
        PROVE  RestTyped'
    <3>1. verifiers[v].phase = "probing" /\ UNCHANGED grants
          /\ verifiers' \in [Verifiers -> Verification]
      BY <2>2, <2>4 DEF VerifyAnswers
    <3>2. CASE UNCHANGED <<rows, clock>>
      BY <2>0, <3>1, <3>2 DEF RestTyped, Older
    <3>3. CASE Proves(v, version, level)
      <4> DEFINE id == verifiers[v].id
                 since == verifiers[v].row.stamp
                 proof == [level |-> level, for |-> verifiers[v].row.contract, since |-> since]
      <4>1. /\ id \in DOMAIN rows /\ rows[id].stamp = since
            /\ rows' = [rows EXCEPT ![id].version = version, ![id].err = FALSE,
                                    ![id].stamp = clock', ![id].proof = proof]
            /\ clock' = clock + 1 /\ clock' <= MaxWrites
        BY <1>0, <3>3 DEF Proves, SameConfiguration, Exists, Stamps
      <4>2. rows'[id].stamp = clock' /\ rows'[id].proof = proof /\ since < clock'
        <5>1. rows[id] \in Row /\ rows[id].stamp <= clock /\ rows[id].stamp \in Nat
          BY <1>0, <4>1 DEF Row
        <5>2. rows'[id] = [rows[id] EXCEPT !.version = version, !.err = FALSE,
                                           !.stamp = clock', !.proof = proof]
          BY <4>1
        <5> QED
          BY <1>0, <4>1, <5>1, <5>2 DEF Row
      <4>3. \A i \in DOMAIN rows' : Older(i)'
        BY <4>1, <4>2 DEF RestTyped, Older
      <4> QED
        BY <2>0, <3>1, <4>1, <4>3 DEF RestTyped
    <3> QED
      BY <2>4, <3>2, <3>3 DEF VerifyAnswers
  <2>5. ASSUME NEW released \in BOOLEAN, VerifyEnds(v, released)
        PROVE  RestTyped'
    <3>1. /\ verifiers[v].phase = "releasing" /\ verifiers[v].id \in Ids /\ UNCHANGED clock
          /\ verifiers' = [verifiers EXCEPT ![v] = Idle]
          /\ Remove(verifiers[v].id) \/ UNCHANGED <<rows, grants>>
      BY <2>5 DEF VerifyEnds, IInv, JobsTyped
    <3>2. verifiers' \in [Verifiers -> Verification]
      BY <3>1 DEF RestTyped, Verification
    <3> QED
      BY <1>2, <2>0, <3>1, <3>2 DEF RestTyped, Older
  <2> QED
    BY <1>4, <2>1, <2>3, <2>4, <2>5
<1>5. ASSUME NEW s \in Scanners,
             \/ ScanStart(s)
             \/ \E c \in Clis, version \in Answer : ScanSees(s, c, version)
      PROVE  RestTyped'
  <2>1. CASE ScanStart(s)
    BY <2>1 DEF ScanStart, RestTyped, Older
  <2>2. ASSUME NEW c \in Clis, NEW version \in Answer, ScanSees(s, c, version)
        PROVE  RestTyped'
    <3> DEFINE old == scanners[s].rows
               seen == With(scanners[s].seen, c, version)
               stale == Stale(old, seen)
    <3>1. UNCHANGED <<verifiers, grants, runs>>
      BY <2>2 DEF ScanSees
    <3>2. CASE UNCHANGED <<rows, clock, availability>>
      BY <3>1, <3>2 DEF RestTyped, Older
    <3>3. CASE /\ DOMAIN seen = Clis /\ availability' = seen
               /\ Stamps \/ UNCHANGED clock
               /\ rows' = [id \in DOMAIN rows |->
                    IF id \in stale
                      THEN Invalidated(rows[id], old[id], seen[old[id].contract.cli])
                      ELSE rows[id]]
      <4>1. \A i \in DOMAIN rows' : Older(i)'
        <5> TAKE i \in DOMAIN rows'
        <5>1. i \in DOMAIN rows /\ rows[i] \in Row
          BY <1>0, <3>3
        <5>2. CASE i \in stale
          <6>1. rows'[i] = Invalidated(rows[i], old[i], seen[old[i].contract.cli])
            BY <3>3, <5>1, <5>2
          <6>2. rows'[i].proof = None
            BY <5>1, <6>1 DEF Invalidated, Row
          <6> QED
            BY <6>2 DEF Older
        <5>3. CASE i \notin stale
          <6>1. rows'[i] = rows[i] /\ Older(i)
            BY <3>3, <5>1, <5>3 DEF RestTyped
          <6> QED
            BY <6>1 DEF Older
        <5> QED
          BY <5>2, <5>3
      <4>2. clock' <= MaxWrites
        BY <1>0, <3>3 DEF Stamps, RestTyped
      <4>3. availability' \in [Clis -> Answer \cup {"unscanned"}]
        <5>1. scanners[s].phase = "probing" /\ IsScan(scanners[s])
          BY <2>2 DEF ScanSees, IInv, JobsTyped
        <5>2. \A d \in Clis : seen[d] \in Answer
          BY <3>3, <5>1 DEF IsScan, Idle, With
        <5> QED
          BY <3>3, <5>2 DEF With
      <4> QED
        BY <3>1, <4>1, <4>2, <4>3 DEF RestTyped
    <3> QED
      BY <2>2, <3>2, <3>3 DEF ScanSees
  <2> QED
    BY <1>5, <2>1, <2>2
<1>6. ASSUME NEW r \in Runs, (\E id \in Ids : Reserve(r, id)) \/ Open(r) \/ RunEnds(r)
      PROVE  RestTyped'
  <2>1. UNCHANGED <<rows, clock, availability, verifiers, grants>>
    BY <1>6 DEF Reserve, Open, RunEnds
  <2>2. DOMAIN runs' \subseteq Runs /\ \A q \in DOMAIN runs' : runs'[q] \in Call
    <3>1. ASSUME NEW id \in Ids, Reserve(r, id)
          PROVE  DOMAIN runs' \subseteq Runs /\ \A q \in DOMAIN runs' : runs'[q] \in Call
      <4>1. [phase |-> "reserved", id |-> id, born |-> rows[id].born] \in Call
        BY <1>0, <3>1 DEF Reserve, Exists, Call, Row
      <4> QED
        BY <3>1, <4>1 DEF Reserve, With, RestTyped
    <3>2. CASE Open(r)
      <4>1. runs[r] \in [phase : {"reserved"}, id : Ids, born : Nat]
        BY <3>2 DEF Open, RestTyped, Call, Done
      <4>2. [phase |-> "open", id |-> runs[r].id, born |-> runs[r].born,
             row |-> rows[runs[r].id]] \in Call
        BY <1>0, <3>2, <4>1 DEF Open, Exists, Call
      <4> QED
        BY <3>2, <4>2 DEF Open, RestTyped
    <3>3. CASE RunEnds(r)
      BY <3>3 DEF RunEnds, RestTyped, Call
    <3> QED
      BY <1>6, <3>1, <3>2, <3>3
  <2> QED
    BY <2>1, <2>2 DEF RestTyped, Older
<1>7. CASE Restart
  BY <1>7 DEF Restart, RestTyped, Older, Verification, Call
<1>8. CASE UNCHANGED vars
  BY <1>8 DEF vars, RestTyped, Older
<1> QED
  BY <1>3, <1>4, <1>5, <1>6, <1>7, <1>8 DEF Next, Verifying, Scanning, Calling

\* The variables stay in their types, a record stays older than the updated_at
\* of its row, and none is enabled on the evidence of another contract.
THEOREM RowsProven == Spec => []RowsAreProven
<1>1. Spec => []RestTyped
  BY InitTyped, StepTyped, Invariance, PTL DEF Spec
<1>2. IInv /\ RestTyped => TypeOK
  BY DEF IInv, RowsSound, SoundRow, ClockSound, JobsTyped, RestTyped, Older, PartialRows, TypeOK
<1> QED
  BY <1>1, <1>2, Proven, Invariance, PTL DEF RowsAreProven

-----------------------------------------------------------------------------
(* The gate of every target.                                               *)

\* The moves of TargetGate, of one target.
Allowed(a, b) ==
  \/ a = b
  \/ a = "absent" /\ b = "unproven"
  \/ a = "unproven" /\ b \in {"proven", "absent"}
  \/ a = "proven" /\ b \in {"enabled", "unproven", "absent"}
  \/ a = "enabled" /\ b \in {"proven", "unproven"}

Moves(id) == Allowed(StateOf(id), StateOf(id)')

\* A move of one identifier is a step of its gate.
LEMMA MovesAreSteps ==
  ASSUME \A id \in Ids : Moves(id)
  PROVE  Gate!Next
<1> DEFINE state == [id \in Ids |-> StateOf(id)]
<1>1. \A id \in Ids : state[id] = StateOf(id) /\ state'[id] = StateOf(id)'
  OBVIOUS
<1>2. ASSUME NEW id \in Ids
      PROVE  \/ Gate!Create(id) \/ Gate!Verify(id) \/ Gate!Enable(id) \/ Gate!Disable(id)
             \/ Gate!Doubt(id) \/ Gate!Delete(id) \/ Gate!Stays(id)
  <2>1. Allowed(state[id], state'[id])
    BY <1>1 DEF Moves
  <2> QED
    BY <2>1 DEF Allowed, Gate!Create, Gate!Verify, Gate!Enable, Gate!Disable, Gate!Doubt,
                Gate!Delete, Gate!Stays, Gate!Goes
<1>3. DOMAIN state' = Ids
  OBVIOUS
<1> QED
  BY <1>2, <1>3 DEF Gate!Next

\* A row that nobody writes.
LEMMA UnwrittenStays ==
  ASSUME NEW id, id \in DOMAIN rows <=> id \in DOMAIN rows',
         id \in DOMAIN rows => rows'[id] = rows[id]
  PROVE  Moves(id)
BY DEF Moves, Allowed, StateOf, Exists, Compatible

\* create() inserts a disabled target.
LEMMA InsertMoves ==
  ASSUME NEW id \in Ids, NEW k, Insert(id, k), NEW i \in Ids
  PROVE  Moves(i)
<1>1. /\ DOMAIN rows' = DOMAIN rows \cup {id} /\ id \notin DOMAIN rows
      /\ \A j \in DOMAIN rows : rows'[j] = rows[j]
      /\ rows'[id].enabled = FALSE /\ rows'[id].version = None
  BY DEF Insert, With, Exists
<1>2. CASE i = id
  BY <1>1, <1>2 DEF Moves, Allowed, StateOf, Exists, Compatible
<1>3. CASE i # id
  BY <1>1, <1>3, UnwrittenStays
<1> QED
  BY <1>2, <1>3

\* delete() takes a disabled target away.
LEMMA RemoveMoves ==
  ASSUME NEW id \in Ids, Remove(id), NEW i \in Ids
  PROVE  Moves(i)
<1>1. /\ DOMAIN rows' = DOMAIN rows \ {id} /\ id \in DOMAIN rows /\ ~rows[id].enabled
      /\ \A j \in DOMAIN rows' : rows'[j] = rows[j]
  BY DEF Remove, CanDelete, Except, Exists
<1>2. CASE i = id
  BY <1>1, <1>2 DEF Moves, Allowed, StateOf, Exists
<1>3. CASE i # id
  BY <1>1, <1>3, UnwrittenStays
<1> QED
  BY <1>2, <1>3

\* update() leaves an enabled row only with a record that covers its contract.
LEMMA PatchMoves ==
  ASSUME IInv, NEW id \in Ids, NEW k \in Contract, NEW e \in BOOLEAN, Patch(id, k, e),
         NEW i \in Ids
  PROVE  Moves(i)
<1> DEFINE row == Updated(rows[id], k, e)
<1>1. /\ id \in DOMAIN rows /\ rows' = [rows EXCEPT ![id] = row]
      /\ row.enabled => Compatible(row)
  BY DEF Patch, Exists
<1>2. rows[id] \in Row /\ (rows[id].enabled => Compatible(rows[id]))
  BY <1>1 DEF IInv, RowsSound, SoundRow
<1>3. DOMAIN rows' = DOMAIN rows /\ rows'[id] = row /\ \A j \in DOMAIN rows : j # id => rows'[j] = rows[j]
  BY <1>1
<1>4. CASE i = id
  <2>1. /\ StateOf(id) = IF rows[id].enabled THEN "enabled"
                         ELSE IF Compatible(rows[id]) THEN "proven" ELSE "unproven"
        /\ StateOf(id)' = IF row.enabled THEN "enabled"
                          ELSE IF Compatible(row) THEN "proven" ELSE "unproven"
    BY <1>1, <1>3 DEF StateOf, Exists, Compatible
  <2>2. CASE k = rows[id].contract
    <3>1. row.enabled = e /\ row.version = rows[id].version /\ row.proof = rows[id].proof
          /\ row.err = rows[id].err /\ row.contract = rows[id].contract
      BY <1>2, <2>2 DEF Updated, Row
    <3>2. Compatible(row) <=> Compatible(rows[id])
      BY <3>1 DEF Compatible
    <3> QED
      BY <1>1, <1>2, <1>4, <2>1, <3>1, <3>2 DEF Moves, Allowed
  <2>3. CASE k # rows[id].contract
    <3>1. row.enabled = FALSE /\ row.version = None
      BY <1>2, <2>3 DEF Updated, Row
    <3>2. ~Compatible(row)
      BY <3>1 DEF Compatible
    <3> QED
      BY <1>4, <2>1, <3>1, <3>2 DEF Moves, Allowed
  <2> QED
    BY <2>2, <2>3
<1>5. CASE i # id
  BY <1>3, <1>5, UnwrittenStays
<1> QED
  BY <1>4, <1>5

\* verifyTarget() records a proof, and may then enable.
LEMMA ProvesMoves ==
  ASSUME IInv, NEW v \in Verifiers, NEW version \in Versions, NEW level \in Levels,
         NEW id \in Ids, verifiers[v].id = id, Proves(v, version, level),
         Covers(level, verifiers[v].row.contract.need), NEW i \in Ids
  PROVE  Moves(i)
<1> DEFINE old == verifiers[v].row
           proof == [level |-> level, for |-> old.contract, since |-> old.stamp]
<1>1. /\ id \in DOMAIN rows
      /\ rows[id].contract = old.contract /\ rows[id].stamp = old.stamp
      /\ rows' = [rows EXCEPT ![id].version = version, ![id].err = FALSE,
                              ![id].stamp = clock', ![id].proof = proof]
  BY DEF Proves, SameConfiguration, Exists
<1>2. rows[id] \in Row
  BY <1>1 DEF IInv, RowsSound, SoundRow
<1>3. proof \in Proof
  BY <1>1, <1>2 DEF Row, Proof
<1>4. /\ rows'[id] = [rows[id] EXCEPT !.version = version, !.err = FALSE, !.stamp = clock',
                                      !.proof = proof]
      /\ DOMAIN rows' = DOMAIN rows
      /\ \A j \in DOMAIN rows : j # id => rows'[j] = rows[j]
  BY <1>1
<1>5. /\ rows'[id].version = version /\ rows'[id].err = FALSE /\ rows'[id].proof = proof
      /\ rows'[id].contract = rows[id].contract /\ rows'[id].enabled = rows[id].enabled
  BY <1>2, <1>4 DEF Row
<1>6. proof # None /\ version # None
  BY <1>3, TargetsAssumption
<1>7. Compatible(rows'[id])
  BY <1>1, <1>5, <1>6 DEF Compatible
<1>8. CASE i = id
  BY <1>1, <1>4, <1>5, <1>7, <1>8 DEF Moves, Allowed, StateOf, Exists, Compatible
<1>9. CASE i # id
  BY <1>4, <1>9, UnwrittenStays
<1> QED
  BY <1>8, <1>9

\* scanInstalled() proves or disables what it read.
LEMMA ScanMoves ==
  ASSUME IInv, NEW s \in Scanners, NEW c \in Clis, NEW version \in Answer,
         ScanSees(s, c, version), NEW i \in Ids
  PROVE  Moves(i)
<1> DEFINE old == scanners[s].rows
           seen == With(scanners[s].seen, c, version)
           stale == Stale(old, seen)
<1>1. CASE UNCHANGED rows
  BY <1>1, UnwrittenStays
<1>2. CASE rows' = [id \in DOMAIN rows |->
             IF id \in stale THEN Invalidated(rows[id], old[id], seen[old[id].contract.cli])
                             ELSE rows[id]]
  <2>1. DOMAIN rows' = DOMAIN rows
    BY <1>2
  <2>2. CASE i \in DOMAIN rows /\ i \in stale
    <3>1. rows'[i] = Invalidated(rows[i], old[i], seen[old[i].contract.cli])
      BY <1>2, <2>2
    <3>2. rows[i] \in Row
      BY <2>2 DEF IInv, RowsSound, SoundRow
    <3>3. rows'[i].enabled = FALSE /\ rows'[i].proof = None
      BY <3>1, <3>2 DEF Invalidated, Row
    <3> QED
      BY <2>1, <2>2, <3>3 DEF Moves, Allowed, StateOf, Exists, Compatible
  <2>3. CASE i \notin DOMAIN rows \/ i \notin stale
    BY <1>2, <2>1, <2>3, UnwrittenStays
  <2> QED
    BY <2>2, <2>3
<1> QED
  BY <1>1, <1>2 DEF ScanSees

\* Every step takes every target along its gate, or leaves it where it is.
LEMMA StepMoves ==
  ASSUME IInv, [Next]_vars, NEW i \in Ids
  PROVE  Moves(i)
<1>1. CASE Administration
  <2>1. CASE UNCHANGED rows
    BY <2>1, UnwrittenStays
  <2> QED
    BY <1>1, <2>1, InsertMoves, PatchMoves, RemoveMoves
    DEF Administration, Create, CreateAndVerify, Delete, Grant, Revoke
<1>2. CASE Verifying
  <2>0. CASE UNCHANGED rows
    BY <2>0, UnwrittenStays
  <2>1. ASSUME NEW v \in Verifiers, NEW version \in Versions, NEW level \in Levels,
               VerifyAnswers(v, version, level)
        PROVE  Moves(i)
    <3>1. verifiers[v].id \in Ids
      BY <2>1 DEF VerifyAnswers, IInv, JobsTyped
    <3> QED
      BY <2>0, <2>1, <3>1, ProvesMoves DEF VerifyAnswers
  <2>2. ASSUME NEW v \in Verifiers, NEW released \in BOOLEAN, VerifyEnds(v, released)
        PROVE  Moves(i)
    <3>1. verifiers[v].id \in Ids
      BY <2>2 DEF VerifyEnds, IInv, JobsTyped
    <3> QED
      BY <2>0, <2>2, <3>1, RemoveMoves DEF VerifyEnds
  <2> QED
    BY <1>2, <2>0, <2>1, <2>2 DEF Verifying, VerifyStart, VerifyFails
<1>3. CASE Scanning
  <2>1. CASE UNCHANGED rows
    BY <2>1, UnwrittenStays
  <2> QED
    BY <1>3, <2>1, ScanMoves DEF Scanning, ScanStart
<1>4. CASE UNCHANGED rows
  BY <1>4, UnwrittenStays
<1> QED
  BY <1>1, <1>2, <1>3, <1>4 DEF Next, vars, Calling, Reserve, Open, RunEnds, Restart

\* The control plane implements the gate of every target.
THEOREM GateImplemented == Spec => GatesHold
<1>1. Init => Gate!Init
  BY DEF Init, Gate!Init, StateOf, Exists
<1>2. IInv /\ [Next]_vars => Gate!Next
  BY StepMoves, MovesAreSteps
<1> QED
  BY <1>1, <1>2, Invariance, PTL DEF Spec, GatesHold, Gate!Spec
=============================================================================

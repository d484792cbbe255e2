-------------------------- MODULE WorkspacesProofs --------------------------
(***************************************************************************)
(* Proofs about Workspaces, for any runs, slots, responses and             *)
(* directories, and any number of faults and crashes: who works where, what *)
(* retention removes, and that no failure wedges the manager.              *)
(***************************************************************************)
EXTENDS Workspaces, FiniteSetTheorems, WellFoundedInduction, TLAPS

-----------------------------------------------------------------------------
(* The invariant.                                                          *)

StepNames == {"sweep", "stage", "mark", "detach", "commit", "rollback", "unstage", "discard",
              "finish"}

AnOperation ==
  [name : Names, run : Runs \cup {None}, path : Paths, step : StepNames,
   staged : Dirs \cup {None}, detached : Dirs \cup {None}, faulty : BOOLEAN]

ALease ==
  [phase : {"held", "unreleased"}, path : Paths, dir : Dirs,
   pending : Dirs \cup {None, Undefined}]

Typed ==
  /\ at \in [Paths -> Dirs \cup {None}] /\ marker \in [Dirs -> Paths \cup {None}]
  /\ work \in [Dirs -> SUBSET Runs]
  /\ quarantine \subseteq Dirs /\ staging \subseteq Dirs
  /\ rooted \in BOOLEAN /\ active \in [Paths -> Nat]
  /\ leases \in [Runs -> {NoLease, Over} \cup ALease]
  /\ op \in {Idle} \cup AnOperation
  /\ outcome.how \in {"none", "ok", "busy", "absent", "retry", "fault", "stuck"}
  /\ faults \in 0..MaxFaults /\ crashes \in 0..MaxCrashes

\* A directory is in one place: what is published is bound to its path, and what is to
\* be removed is one directory of each kind.
InOnePlace ==
  /\ \A p \in Paths : at[p] # None => marker[at[p]] = p
  /\ \A p \in Paths : at[p] \notin quarantine \cup staging
  /\ quarantine \cap staging = {}
  /\ \A d, e \in quarantine : d = e
  /\ \A d, e \in staging : d = e

HoldersOf(p) == {r \in Runs : Leased(r) /\ leases[r].path = p}

\* Leases are of what there is, and are counted.
LeasesAgree ==
  /\ \A p \in Paths : IsFiniteSet(HoldersOf(p)) /\ active[p] = Cardinality(HoldersOf(p))
  /\ \A r, q \in Runs : Leased(r) /\ Leased(q) /\ leases[r].path = leases[q].path
                        /\ leases[r].path \notin Kept => r = q
  /\ \A r \in Runs : Leased(r) =>
       rooted /\ (leases[r].path \in Temporary => leases[r].path = [run |-> r])
  /\ \A r \in Runs : leases[r].phase = "held" /\ leases[r].path \notin Kept =>
       at[leases[r].path] = leases[r].dir /\ work[leases[r].dir] \subseteq {r}

Releases == {"release-kept", "release-temporary", "release-strict", "release-pending"}

\* Whose operation it is, and on what.
OwnPath ==
  /\ op.name = "strict" => op.path \in SlotPaths
  /\ op.name = "temporary" => op.path = [run |-> op.run]
  /\ op.name \in {"create", "open", "cleanup", "release-kept"} => op.path \in Kept
  /\ op.name = "release-temporary" => op.path \in Temporary
  /\ op.name = "release-strict" => op.path \in SlotPaths
  /\ op.name = "release-pending" => op.path \notin Kept
  /\ Acquires => op.run \in Runs /\ leases[op.run] = NoLease
  /\ op.name \in {"strict", "temporary"} => HoldersOf(op.path) = {}
  /\ op.name \in Releases =>
       op.run \in Runs /\ leases[op.run].phase = "unreleased" /\ leases[op.run].path = op.path

\* The steps that an operation has.
OwnSteps ==
  /\ op.name = "open" => op.step \in {"sweep", "finish"}
  /\ op.name = "create" => op.step \in {"sweep", "stage", "mark", "commit", "unstage", "finish"}
  /\ op.name \in {"release-temporary", "cleanup"} =>
       op.step \in {"sweep", "detach", "discard", "finish"}
  /\ op.name = "release-kept" => op.step = "finish"
  /\ op.name = "release-pending" => op.step \in {"discard", "finish"}

\* A staged or detached directory that is bound to the operation's path; of a strict
\* or temporary workspace nobody has worked in it.
New(d) == d # None /\ marker[d] = op.path
Fit(d) == New(d) /\ (op.name \in {"strict", "temporary"} => work[d] = {})

\* What each step finds.
StepFinds ==
  /\ op.step # "sweep" => rooted
  /\ op.step \in {"sweep", "stage", "mark"} \/ op.name = "create" => op.detached = None
  /\ op.step = "stage" => quarantine = {} /\ staging = {}
  /\ op.step \in {"stage", "mark", "commit"} /\ op.name = "create" => at[op.path] = None
  /\ op.step = "finish" /\ op.name = "create" => at[op.path] # None
  /\ op.step = "mark" => 
       /\ op.staged # None /\ quarantine = {} /\ staging = {op.staged}
       /\ work[op.staged] = {}
  /\ op.step = "detach" =>
       /\ op.detached = None /\ quarantine = {}
       /\ IF Replaces THEN staging = {op.staged} /\ Fit(op.staged) /\ at[op.path] # None
                      ELSE staging = {}
  /\ op.step = "commit" =>
       /\ staging = {op.staged} /\ Fit(op.staged) /\ at[op.path] = None
       /\ IF op.detached = None THEN quarantine = {}
                                ELSE quarantine = {op.detached} /\ New(op.detached)
  /\ op.step = "rollback" =>
       /\ staging = {op.staged} /\ op.staged # None /\ at[op.path] = None /\ op.faulty
       /\ quarantine = {op.detached} /\ New(op.detached)
  /\ op.step = "unstage" => staging = {op.staged} /\ op.staged # None /\ op.faulty
  /\ op.step = "discard" /\ op.name # "release-pending" =>
       quarantine = {op.detached} /\ op.detached # None /\ staging = {}
  /\ op.step \in {"discard", "finish"} /\ op.name \in {"strict", "temporary"} =>
       op.staged # None /\ at[op.path] = op.staged /\ work[op.staged] = {}

Working == op # Idle => OwnPath /\ OwnSteps /\ StepFinds

IInv == Typed /\ InOnePlace /\ LeasesAgree /\ Working /\ NeverWedged

-----------------------------------------------------------------------------
(* Paths, operations and leases.                                           *)

\* The three kinds of paths are apart.
LEMMA PathKinds ==
  /\ SlotPaths \cap Temporary = {} /\ SlotPaths \cap Kept = {} /\ Temporary \cap Kept = {}
  /\ SlotPaths \subseteq Paths /\ Temporary \subseteq Paths /\ Kept \subseteq Paths
  /\ \A r \in Runs : [run |-> r] \in Temporary
  /\ \A s \in Responses : [response |-> s] \in Kept
<1>1. \A r, s : [run |-> r] # [response |-> s]
  <2> SUFFICES ASSUME NEW r, NEW s, [run |-> r] = [response |-> s] PROVE FALSE
    OBVIOUS
  <2>1. DOMAIN [run |-> r] = {"run"} /\ DOMAIN [response |-> s] = {"response"}
    OBVIOUS
  <2> QED
    BY <2>1
<1>2. Temporary \cap Kept = {}
  <2> SUFFICES ASSUME NEW p \in Temporary, p \in Kept PROVE FALSE
    OBVIOUS
  <2>1. p = [run |-> p.run] /\ p = [response |-> p.response]
    BY DEF Temporary, Kept
  <2> QED
    BY <1>1, <2>1
<1> QED
  BY <1>2, WorkspacesAssumption DEF Paths, Temporary, Kept

\* An operation is no idleness, and no lease is none.
LEMMA Shapes ==
  /\ \A o \in AnOperation : o # Idle
  /\ NoLease.phase = "none" /\ Over.phase = "over"
  /\ \A l \in ALease : l # NoLease /\ l # Over
  /\ None \notin Dirs /\ None \notin Paths /\ Undefined # None
<1>1. Idle.name = "idle"
  BY DEF Idle
<1>2. NoLease.phase = "none" /\ Over.phase = "over"
  BY DEF NoLease, Over
<1> QED
  BY <1>1, <1>2, WorkspacesAssumption DEF AnOperation, Names, ALease

\* An operation goes on.
LEMMA GoesOn ==
  ASSUME op \in AnOperation, NEW s \in StepNames, op' = [op EXCEPT !.step = s]
  PROVE  /\ op' \in AnOperation /\ op'.step = s /\ op'.name = op.name /\ op'.run = op.run
         /\ op'.path = op.path /\ op'.staged = op.staged /\ op'.detached = op.detached
         /\ op'.faulty = op.faulty
BY DEF AnOperation

\* Leases that are all as they were are counted as they were.
LEMMA HoldersKept ==
  ASSUME \A r \in Runs : (Leased(r)' <=> Leased(r)) /\ (Leased(r) => leases'[r].path = leases[r].path)
  PROVE  \A p : HoldersOf(p)' = HoldersOf(p)
BY DEF HoldersOf

\* The leases stand when the step gives, takes and counts none, and leaves what a
\* run holds to it.
LEMMA LeasesKept ==
  ASSUME IInv, UNCHANGED active, rooted => rooted',
         \A r \in Runs : /\ Leased(r)' <=> Leased(r)
                         /\ Leased(r) => leases'[r].path = leases[r].path
                         /\ leases'[r].phase = "held" =>
                              leases[r].phase = "held" /\ leases'[r].dir = leases[r].dir,
         \A r \in Runs : leases[r].phase = "held" /\ leases[r].path \notin Kept =>
           /\ at'[leases[r].path] = at[leases[r].path]
           /\ work'[leases[r].dir] \subseteq {r}
  PROVE  LeasesAgree'
<1>1. \A p : HoldersOf(p)' = HoldersOf(p)
  BY HoldersKept
<1>2. \A r \in Runs : leases'[r].phase = "held" => Leased(r)
  BY DEF Leased
<1> QED
  BY <1>1, <1>2 DEF IInv, LeasesAgree

\* The first state satisfies the invariant.
LEMMA InitOK == Init => IInv
<1> SUFFICES ASSUME Init PROVE IInv
  OBVIOUS
<1>1. Typed
  <2>1. /\ at \in [Paths -> Dirs \cup {None}] /\ marker \in [Dirs -> Paths \cup {None}]
        /\ work \in [Dirs -> SUBSET Runs] /\ active \in [Paths -> Nat]
        /\ leases \in [Runs -> {NoLease, Over} \cup ALease]
    BY DEF Init
  <2>2. faults \in 0..MaxFaults /\ crashes \in 0..MaxCrashes
    BY WorkspacesAssumption DEF Init
  <2>3. outcome.how = "none"
    BY DEF Init, NoOutcome
  <2>4. rooted \in BOOLEAN /\ op \in {Idle} \cup AnOperation
        /\ quarantine \subseteq Dirs /\ staging \subseteq Dirs
    BY DEF Init
  <2> QED
    BY <2>1, <2>2, <2>3, <2>4 DEF Typed
<1>2. InOnePlace
  BY DEF Init, InOnePlace
<1>3. LeasesAgree
  <2>1. \A r \in Runs : ~Leased(r) /\ leases[r].phase # "held"
    BY Shapes DEF Init, Leased
  <2>2. \A p : HoldersOf(p) = {}
    BY <2>1 DEF HoldersOf
  <2>3. IsFiniteSet({}) /\ Cardinality({}) = 0
    BY FS_EmptySet
  <2> QED
    BY <2>1, <2>2, <2>3 DEF Init, LeasesAgree
<1>4. Working /\ NeverWedged
  BY DEF Init, Working, NeverWedged, NoOutcome
<1> QED
  BY <1>1, <1>2, <1>3, <1>4 DEF IInv

-----------------------------------------------------------------------------
(* Operations begin.                                                       *)

\* The first free slot is one of the free slots.
LEMMA FirstIsFree ==
  ASSUME FreeSlots # {} PROVE First(FreeSlots) \in FreeSlots
<1>1. FreeSlots \subseteq Nat
  BY WorkspacesAssumption DEF FreeSlots
<1>2. \E i \in FreeSlots : \A j \in FreeSlots : ~(<<j, i>> \in OpToRel(<, Nat))
  BY <1>1, WFMin, NatLessThanWellFounded
<1>3. \E i \in FreeSlots : \A j \in FreeSlots : i <= j
  <2>1. \A i, j \in Nat : <<j, i>> \in OpToRel(<, Nat) <=> j < i
    BY DEF OpToRel
  <2>2. \A i, j \in Nat : ~(j < i) => i <= j
    OBVIOUS
  <2> QED
    BY <1>1, <1>2, <2>1, <2>2, Zenon
<1> QED
  BY <1>3 DEF First

\* What an operation is when it begins.
LEMMA Opened ==
  ASSUME NEW n \in Names, NEW r \in Runs \cup {None}, NEW p \in Paths, NEW s \in StepNames,
         NEW d \in Dirs \cup {None}, op' = Operation(n, r, p, s, d)
  PROVE  /\ op' \in AnOperation /\ op' # Idle
         /\ op'.name = n /\ op'.run = r /\ op'.path = p /\ op'.detached = d
         /\ op'.step = (IF rooted THEN s ELSE "sweep")
<1>1. op' \in AnOperation
  BY DEF Operation, AnOperation, StepNames
<1> QED
  BY <1>1, Shapes DEF Operation

\* An operation begins that is as operations are, and changes nothing yet.
LEMMA BeginsOK ==
  ASSUME IInv, outcome' = NoOutcome, op' \in AnOperation,
         UNCHANGED <<at, marker, work, quarantine, staging, rooted, active, faults, crashes>>,
         leases' \in [Runs -> {NoLease, Over} \cup ALease], LeasesAgree',
         OwnPath', OwnSteps', StepFinds'
  PROVE  IInv'
<1>1. Typed'
  BY DEF IInv, Typed, NoOutcome
<1>2. InOnePlace'
  BY DEF IInv, InOnePlace
<1>3. NeverWedged'
  BY DEF NeverWedged, NoOutcome
<1> QED
  BY <1>1, <1>2, <1>3 DEF IInv, Working

\* Nothing has changed but the operation.
LEMMA LeasesUnchanged ==
  ASSUME IInv, UNCHANGED <<at, work, rooted, active, leases>>
  PROVE  LeasesAgree' /\ \A p : HoldersOf(p)' = HoldersOf(p)
<1>1. \A p : HoldersOf(p)' = HoldersOf(p)
  BY DEF HoldersOf, Leased
<1> QED
  BY <1>1 DEF IInv, LeasesAgree, Leased

\* Nobody holds a path whose count is zero.
LEMMA NobodyHolds ==
  ASSUME IInv, NEW p \in Paths, active[p] = 0
  PROVE  HoldersOf(p) = {}
BY FS_EmptySet DEF IInv, LeasesAgree

\* acquireChat() in a slot.
LEMMA AcquireStrictOK ==
  ASSUME IInv, NEW r \in Runs, AcquireStrict(r) PROVE IInv'
<1>1. CASE FreeSlots = {}
  <2>1. UNCHANGED <<at, marker, work, quarantine, staging, rooted, active, leases, op,
                    faults, crashes>>
        /\ outcome'.how = "busy"
    BY <1>1 DEF AcquireStrict, tree
  <2>2. Typed'
    BY <2>1 DEF IInv, Typed
  <2>3. InOnePlace' /\ LeasesAgree' /\ NeverWedged'
    BY <2>1, LeasesUnchanged DEF IInv, InOnePlace, NeverWedged
  <2>4. Working'
    BY <1>1 DEF AcquireStrict, Working
  <2> QED
    BY <2>2, <2>3, <2>4 DEF IInv
<1>2. CASE FreeSlots # {}
  <2> DEFINE p == Slots[First(FreeSlots)]
  <2>1. p \in SlotPaths /\ active[p] = 0
    BY <1>2, FirstIsFree DEF FreeSlots, SlotPaths
  <2>2. /\ op' = Operation("strict", r, p, "sweep", None) /\ outcome' = NoOutcome
        /\ UNCHANGED <<at, marker, work, quarantine, staging, rooted, active, leases,
                       faults, crashes>>
        /\ leases[r] = NoLease
    BY <1>2 DEF AcquireStrict, Begins, tree
  <2> HIDE DEF p
  <2>3. /\ op' \in AnOperation /\ op'.name = "strict" /\ op'.run = r /\ op'.path = p
        /\ op'.detached = None /\ op'.step = "sweep"
    BY <2>1, <2>2, Opened, PathKinds DEF Names, StepNames
  <2>4. LeasesAgree' /\ HoldersOf(op.path)' = {}
    BY <2>1, <2>2, <2>3, LeasesUnchanged, NobodyHolds, PathKinds
  <2>5. OwnPath'
    BY <2>1, <2>2, <2>3, <2>4 DEF OwnPath, Acquires, Releases
  <2>6. OwnSteps' /\ StepFinds'
    BY <2>3 DEF OwnSteps, StepFinds
  <2> QED
    BY <2>2, <2>3, <2>4, <2>5, <2>6, BeginsOK DEF IInv, Typed
<1> QED
  BY <1>1, <1>2

\* acquireChat() in a directory of its own.
LEMMA AcquireTemporaryOK ==
  ASSUME IInv, NEW r \in Runs, AcquireTemporary(r) PROVE IInv'
<1> DEFINE p == [run |-> r]
<1>1. p \in Temporary /\ p \in Paths /\ p \notin Kept
  BY PathKinds
<1>2. /\ op' = Operation("temporary", r, p, "sweep", None) /\ outcome' = NoOutcome
      /\ UNCHANGED <<at, marker, work, quarantine, staging, rooted, active, leases,
                     faults, crashes>>
      /\ leases[r] = NoLease
  BY DEF AcquireTemporary, Begins, tree
<1>3. /\ op' \in AnOperation /\ op'.name = "temporary" /\ op'.run = r /\ op'.path = p
      /\ op'.detached = None /\ op'.step = "sweep"
  BY <1>1, <1>2, Opened DEF Names, StepNames
<1>4. LeasesAgree' /\ HoldersOf(op.path)' = HoldersOf(p)
  BY <1>2, <1>3, LeasesUnchanged
<1>5. HoldersOf(p) = {}
  <2> SUFFICES ASSUME NEW q \in Runs, Leased(q), leases[q].path = p PROVE FALSE
    BY DEF HoldersOf
  <2>1. p = [run |-> q]
    BY <1>1 DEF IInv, LeasesAgree
  <2>2. q = r
    <3>1. p.run = q /\ p.run = r
      BY <2>1
    <3> QED
      BY <3>1
  <2> QED
    BY <1>2, <2>2, Shapes DEF Leased
<1>6. OwnPath'
  BY <1>1, <1>2, <1>3, <1>4, <1>5 DEF OwnPath, Acquires, Releases
<1>7. OwnSteps' /\ StepFinds'
  BY <1>3 DEF OwnSteps, StepFinds
<1> QED
  BY <1>2, <1>3, <1>4, <1>6, <1>7, BeginsOK DEF IInv, Typed

\* createResponse() makes a directory and leases it.
LEMMA CreateResponseOK ==
  ASSUME IInv, NEW r \in Runs, NEW s \in Responses, CreateResponse(r, s) PROVE IInv'
<1> DEFINE p == [response |-> s]
<1>1. p \in Kept /\ p \in Paths
  BY PathKinds
<1>2. /\ op' = Operation("create", r, p, IF Absent(p) THEN "sweep" ELSE "finish", None)
      /\ outcome' = NoOutcome
      /\ UNCHANGED <<at, marker, work, quarantine, staging, rooted, active, leases,
                     faults, crashes>>
      /\ leases[r] = NoLease
  BY DEF CreateResponse, Begins, tree
<1> HIDE DEF p
<1>3. /\ op' \in AnOperation /\ op'.name = "create" /\ op'.run = r /\ op'.path = p
      /\ op'.detached = None
      /\ op'.step = "sweep" \/ (op'.step = "finish" /\ ~Absent(p) /\ rooted)
  <2>1. (IF Absent(p) THEN "sweep" ELSE "finish") \in StepNames
    BY DEF StepNames
  <2> QED
    BY <1>1, <1>2, <2>1, Opened DEF Names
<1>4. LeasesAgree'
  BY <1>2, LeasesUnchanged
<1>5. OwnPath'
  BY <1>1, <1>2, <1>3 DEF OwnPath, Acquires, Releases
<1>6. OwnSteps' /\ StepFinds'
  BY <1>2, <1>3 DEF OwnSteps, StepFinds, Absent
<1> QED
  BY <1>2, <1>3, <1>4, <1>5, <1>6, BeginsOK DEF IInv, Typed

\* openResponse() leases the directory of a response.
LEMMA OpenResponseOK ==
  ASSUME IInv, NEW r \in Runs, NEW s \in Responses, OpenResponse(r, s) PROVE IInv'
<1> DEFINE p == [response |-> s]
<1>1. p \in Kept /\ p \in Paths
  BY PathKinds
<1>2. /\ op' = Operation("open", r, p, "finish", None) /\ outcome' = NoOutcome
      /\ UNCHANGED <<at, marker, work, quarantine, staging, rooted, active, leases,
                     faults, crashes>>
      /\ leases[r] = NoLease
  BY DEF OpenResponse, Begins, tree
<1> HIDE DEF p
<1>3. /\ op' \in AnOperation /\ op'.name = "open" /\ op'.run = r /\ op'.path = p
      /\ op'.detached = None /\ op'.step \in {"sweep", "finish"}
      /\ op'.step = "finish" => rooted
  BY <1>1, <1>2, Opened DEF Names, StepNames
<1>4. LeasesAgree'
  BY <1>2, LeasesUnchanged
<1>5. OwnPath'
  BY <1>1, <1>2, <1>3 DEF OwnPath, Acquires, Releases
<1>6. OwnSteps' /\ StepFinds'
  BY <1>2, <1>3 DEF OwnSteps, StepFinds
<1> QED
  BY <1>2, <1>3, <1>4, <1>5, <1>6, BeginsOK DEF IInv, Typed

\* cleanupForRetention() refuses what is leased.
LEMMA CleanupOK ==
  ASSUME IInv, NEW s \in Responses, Cleanup(s) PROVE IInv'
<1> DEFINE p == [response |-> s]
<1>1. p \in Kept /\ p \in Paths
  BY PathKinds
<1>2. /\ op' = Operation("cleanup", None, p, "sweep", None) /\ outcome' = NoOutcome
      /\ UNCHANGED <<at, marker, work, quarantine, staging, rooted, active, leases,
                     faults, crashes>>
  BY DEF Cleanup, Begins, tree
<1> HIDE DEF p
<1>3. /\ op' \in AnOperation /\ op'.name = "cleanup" /\ op'.path = p
      /\ op'.detached = None /\ op'.step = "sweep"
  BY <1>1, <1>2, Opened DEF Names, StepNames
<1>4. LeasesAgree'
  BY <1>2, LeasesUnchanged
<1>5. OwnPath'
  BY <1>1, <1>3 DEF OwnPath, Acquires, Releases
<1>6. OwnSteps' /\ StepFinds'
  BY <1>3 DEF OwnSteps, StepFinds
<1> QED
  BY <1>2, <1>3, <1>4, <1>5, <1>6, BeginsOK DEF IInv, Typed

\* A lease that is no longer held is still a lease.
LEMMA ReleasedLease ==
  ASSUME NEW l \in ALease, NEW m, m = [l EXCEPT !.phase = "unreleased"]
  PROVE  /\ m \in ALease /\ m.phase = "unreleased" /\ m.path = l.path /\ m.dir = l.dir
         /\ m.pending = l.pending
BY DEF ALease

\* A run that has a lease has one of that shape.
LEMMA LeaseShape ==
  ASSUME IInv, NEW r \in Runs, Leased(r)
  PROVE  leases[r] \in ALease
<1>1. leases[r] \in {NoLease, Over} \cup ALease
  BY DEF IInv, Typed
<1> QED
  BY <1>1, Shapes DEF Leased

\* A run gives its lease back: it still counts until the release succeeds.
LEMMA GivesBack ==
  ASSUME IInv, NEW r \in Runs, Leased(r), UNCHANGED <<at, work, rooted, active>>,
         leases' = [leases EXCEPT ![r].phase = "unreleased"]
  PROVE  /\ LeasesAgree' /\ leases' \in [Runs -> {NoLease, Over} \cup ALease]
         /\ leases'[r].phase = "unreleased" /\ leases'[r].path = leases[r].path
<1> DEFINE l == leases[r]
           m == [l EXCEPT !.phase = "unreleased"]
<1>1. l \in ALease /\ leases \in [Runs -> {NoLease, Over} \cup ALease]
  BY LeaseShape DEF IInv, Typed
<1>2. leases' = [leases EXCEPT ![r] = m]
  OBVIOUS
<1> HIDE DEF m
<1>3. /\ m \in ALease /\ m.phase = "unreleased" /\ m.path = l.path /\ m.dir = l.dir
  BY <1>1, ReleasedLease DEF m
<1>4. \A q \in Runs : leases'[q] = IF q = r THEN m ELSE leases[q]
  BY <1>1, <1>2
<1>5. LeasesAgree'
  <2>1. \A q \in Runs : /\ Leased(q)' <=> Leased(q)
                        /\ Leased(q) => leases'[q].path = leases[q].path
                        /\ leases'[q].phase = "held" =>
                             leases[q].phase = "held" /\ leases'[q].dir = leases[q].dir
    BY <1>3, <1>4 DEF Leased
  <2>2. \A q \in Runs : leases[q].phase = "held" /\ leases[q].path \notin Kept =>
           /\ at'[leases[q].path] = at[leases[q].path]
           /\ work'[leases[q].dir] \subseteq {q}
    BY DEF IInv, LeasesAgree
  <2> QED
    BY <2>1, <2>2, LeasesKept
<1> QED
  BY <1>1, <1>2, <1>3, <1>4, <1>5

\* release() of each kind of lease.
LEMMA ReleaseOK ==
  ASSUME IInv, NEW r \in Runs, Release(r) PROVE IInv'
<1> DEFINE l == leases[r]
<1>1. Leased(r) /\ l \in ALease /\ rooted
  BY LeaseShape DEF Release, Leased, IInv, LeasesAgree
<1>2. /\ UNCHANGED <<at, marker, work, quarantine, staging, rooted, active, faults, crashes>>
      /\ leases' = [leases EXCEPT ![r].phase = "unreleased"]
      /\ op = Idle /\ outcome' = NoOutcome
  BY DEF Release, tree, Begins
<1>3. /\ LeasesAgree' /\ leases' \in [Runs -> {NoLease, Over} \cup ALease]
      /\ leases'[r].phase = "unreleased" /\ leases'[r].path = l.path
  BY <1>1, <1>2, GivesBack
<1>4. l.path \in Paths /\ l.pending \in Dirs \cup {None, Undefined} /\ r \in Runs \cup {None}
  BY <1>1 DEF ALease
<1>5. CASE l.path \in Kept
  <2>1. op' = Operation("release-kept", r, l.path, "finish", None)
    BY <1>5 DEF Release, Begins
  <2>2. /\ op' \in AnOperation /\ op'.name = "release-kept" /\ op'.run = r
        /\ op'.path = l.path /\ op'.detached = None /\ op'.step = "finish"
    BY <1>1, <1>4, <2>1, Opened DEF Names, StepNames
  <2>3. OwnPath'
    BY <1>3, <1>5, <2>2 DEF OwnPath, Acquires, Releases
  <2>4. OwnSteps' /\ StepFinds'
    BY <1>1, <1>2, <2>2 DEF OwnSteps, StepFinds
  <2> QED
    BY <1>2, <1>3, <2>2, <2>3, <2>4, BeginsOK
<1>6. CASE l.path \notin Kept /\ l.pending = Undefined
  <2> DEFINE n == IF l.path \in Temporary THEN "release-temporary" ELSE "release-strict"
  <2>1. op' = Operation(n, r, l.path, "sweep", None)
    BY <1>6 DEF Release, Begins
  <2>2. n \in {"release-temporary", "release-strict"}
        /\ (n = "release-temporary" <=> l.path \in Temporary)
    OBVIOUS
  <2> HIDE DEF n
  <2>3. /\ op' \in AnOperation /\ op'.name = n /\ op'.run = r
        /\ op'.path = l.path /\ op'.detached = None /\ op'.step = "sweep"
    BY <1>4, <2>1, <2>2, Opened DEF Names, StepNames
  <2>4. n = "release-strict" => l.path \in SlotPaths
    BY <1>4, <1>6, <2>2 DEF Paths
  <2>5. OwnPath'
    BY <1>3, <2>2, <2>3, <2>4 DEF OwnPath, Acquires, Releases
  <2>6. OwnSteps' /\ StepFinds'
    BY <2>2, <2>3 DEF OwnSteps, StepFinds
  <2> QED
    BY <1>2, <1>3, <2>3, <2>5, <2>6, BeginsOK
<1>7. CASE l.path \notin Kept /\ l.pending # Undefined
  <2>1. op' = Operation("release-pending", r, l.path, "discard", l.pending)
    BY <1>7 DEF Release, Begins
  <2>2. l.pending \in Dirs \cup {None}
    BY <1>4, <1>7
  <2>3. /\ op' \in AnOperation /\ op'.name = "release-pending" /\ op'.run = r
        /\ op'.path = l.path /\ op'.step = "discard"
    <3> DEFINE d == l.pending
    <3>1. op' = Operation("release-pending", r, l.path, "discard", d) /\ d \in Dirs \cup {None}
      BY <2>1, <2>2
    <3>2. "release-pending" \in Names /\ "discard" \in StepNames
      BY DEF Names, StepNames
    <3> HIDE DEF d
    <3> QED
      BY <1>1, <1>4, <3>1, <3>2, Opened
  <2>4. OwnPath'
    BY <1>3, <1>7, <2>3 DEF OwnPath, Acquires, Releases
  <2>5. OwnSteps' /\ StepFinds'
    BY <1>1, <1>2, <2>3 DEF OwnSteps, StepFinds
  <2> QED
    BY <1>2, <1>3, <2>3, <2>4, <2>5, BeginsOK
<1> QED
  BY <1>5, <1>6, <1>7

\* A directory is published at one path at most.
LEMMA PublishedOnce ==
  ASSUME IInv, NEW p \in Paths, NEW q \in Paths, at[p] # None, at[p] = at[q]
  PROVE  p = q
BY DEF IInv, InOnePlace

\* A run writes in the directory of its own path, which is no other run's and is not
\* what an operation is about to give away.
LEMMA WorkOK ==
  ASSUME IInv, NEW r \in Runs, Work(r) PROVE IInv'
<1> DEFINE l == leases[r]
           d == at[l.path]
<1>1. /\ UNCHANGED <<at, marker, quarantine, staging, rooted, active, leases, op, outcome,
                     faults, crashes>>
      /\ work' = [work EXCEPT ![d] = @ \cup {r}]
      /\ l.phase = "held" /\ Leased(r)
  BY DEF Work, Leased
<1>2. l \in ALease /\ l.path \in Paths
  BY <1>1, LeaseShape DEF ALease
<1>3. work \in [Dirs -> SUBSET Runs] /\ work' \in [Dirs -> SUBSET Runs]
  BY <1>1 DEF IInv, Typed
<1>4. \A e : e # d => work'[e] = work[e]
  <2> SUFFICES ASSUME NEW e, e # d PROVE work'[e] = work[e]
    OBVIOUS
  <2>1. CASE e \in Dirs
    BY <1>1, <1>3, <2>1
  <2>2. CASE e \notin Dirs
    BY <1>1, <1>3, <2>2
  <2> QED
    BY <2>1, <2>2
<1>5. Typed'
  BY <1>1, <1>3 DEF IInv, Typed
<1>6. InOnePlace' /\ NeverWedged'
  BY <1>1 DEF IInv, InOnePlace, NeverWedged
<1>7. \A q \in Runs : leases[q].phase = "held" /\ leases[q].path \notin Kept =>
        work'[leases[q].dir] \subseteq {q}
  <2> SUFFICES ASSUME NEW q \in Runs, leases[q].phase = "held", leases[q].path \notin Kept
               PROVE  work'[leases[q].dir] \subseteq {q}
    OBVIOUS
  <2>1. leases[q].dir \in Dirs /\ leases[q].path \in Paths
        /\ at[leases[q].path] = leases[q].dir /\ work[leases[q].dir] \subseteq {q}
    BY LeaseShape DEF IInv, LeasesAgree, ALease, Leased
  <2>2. CASE leases[q].dir # d
    BY <1>4, <2>1, <2>2
  <2>3. CASE leases[q].dir = d
    <3>1. leases[q].path = l.path
      BY <1>2, <2>1, <2>3, Shapes, PublishedOnce
    <3>2. q = r
      BY <1>1, <3>1 DEF IInv, LeasesAgree, Leased
    <3> QED
      BY <1>1, <1>3, <2>1, <2>3, <3>2
  <2> QED
    BY <2>2, <2>3
<1>8. LeasesAgree'
  BY <1>1, <1>7, LeasesKept DEF Leased
<1>9. Working'
  <2> SUFFICES ASSUME op # Idle PROVE OwnPath' /\ OwnSteps' /\ StepFinds'
    BY <1>1 DEF Working
  <2>1. OwnPath /\ OwnSteps /\ StepFinds /\ op \in AnOperation
    BY DEF IInv, Working, Typed
  <2>2. HoldersOf(op.path)' = HoldersOf(op.path)
    BY <1>1 DEF HoldersOf, Leased
  <2>3. OwnPath'
    BY <1>1, <2>1, <2>2 DEF OwnPath, Acquires
  <2>4. OwnSteps'
    BY <1>1, <2>1 DEF OwnSteps
  <2>5. \A e \in staging : work'[e] = work[e]
    BY <1>2, <1>4 DEF IInv, InOnePlace
  <2>6. op.name \in {"strict", "temporary"} /\ at[op.path] # None =>
          work'[at[op.path]] = work[at[op.path]]
    <3> SUFFICES ASSUME op.name \in {"strict", "temporary"}, at[op.path] # None
                 PROVE  at[op.path] # d
      BY <1>4
    <3>1. l.path # op.path
      BY <1>1, <2>1 DEF OwnPath, HoldersOf
    <3> QED
      BY <1>2, <2>1, <3>1, PublishedOnce DEF AnOperation
  <2>7. StepFinds'
    BY <1>1, <2>1, <2>5, <2>6 DEF StepFinds, Fit, New, Replaces
  <2> QED
    BY <2>3, <2>4, <2>7
<1> QED
  BY <1>5, <1>6, <1>8, <1>9 DEF IInv

-----------------------------------------------------------------------------
(* Operations go on.                                                       *)

\* What an operation finds at one of its steps.
LEMMA InStep ==
  ASSUME IInv, NEW s, At(s)
  PROVE  /\ op # Idle /\ op \in AnOperation /\ op.step = s /\ op.path \in Paths
         /\ op.name \in Names /\ OwnPath /\ OwnSteps /\ StepFinds
<1>1. op # Idle /\ op.step = s
  BY DEF At
<1>2. op \in AnOperation
  BY <1>1 DEF IInv, Typed
<1> QED
  BY <1>1, <1>2 DEF IInv, Working, AnOperation

\* The path of an operation is held by nobody else, unless it is a response's.
LEMMA OthersHold ==
  ASSUME IInv, op # Idle, NEW q \in Runs, leases[q].phase = "held", leases[q].path \notin Kept
  PROVE  leases[q].path # op.path
<1>1. OwnPath /\ op.name \in Names
  BY DEF IInv, Working, Typed, AnOperation
<1>2. CASE op.name \in {"strict", "temporary"}
  BY <1>1, <1>2 DEF OwnPath, HoldersOf, Leased
<1>3. CASE op.name \in {"create", "open", "cleanup", "release-kept"}
  BY <1>1, <1>3 DEF OwnPath
<1>4. CASE op.name \in {"release-temporary", "release-strict", "release-pending"}
  BY <1>1, <1>4 DEF OwnPath, Releases, IInv, LeasesAgree, Leased
<1> QED
  BY <1>1, <1>2, <1>3, <1>4 DEF Names

\* A step by which an operation ends, with a fault, or because of what it finds.
LEMMA EndsOK ==
  ASSUME IInv, NEW how \in {"ok", "absent", "retry", "fault"}, Ends(how)
  PROVE  Working' /\ NeverWedged' /\ op' = Idle
         /\ outcome'.how \in {"none", "ok", "busy", "absent", "retry", "fault", "stuck"}
BY DEF Ends, Working, NeverWedged

\* Faults are counted up to their bound.
LEMMA FaultOK ==
  ASSUME IInv, Fault \/ UNCHANGED faults
  PROVE  faults' \in 0..MaxFaults
<1>1. faults \in 0..MaxFaults /\ MaxFaults \in Nat
  BY WorkspacesAssumption DEF IInv, Typed
<1> QED
  BY <1>1 DEF Fault

\* The operation is still the same run's, on the same path.
LEMMA SameOwner ==
  ASSUME OwnPath, op'.name = op.name, op'.run = op.run, op'.path = op.path,
         \A r \in Runs : /\ Leased(r)' <=> Leased(r)
                         /\ Leased(r) => leases'[r].path = leases[r].path
                                         /\ leases'[r].phase = leases[r].phase
                         /\ leases[r] = NoLease => leases'[r] = NoLease
  PROVE  OwnPath'
<1>1. \A p : HoldersOf(p)' = HoldersOf(p)
  BY HoldersKept
<1>2. HoldersOf(op.path)' = HoldersOf(op.path)
  BY DEF HoldersOf
<1>3. op.name \in Releases => Leased(op.run)
  BY DEF OwnPath, Leased
<1> QED
  BY <1>2, <1>3 DEF OwnPath, Acquires, Releases

\* A step that leaves the leases and what is published alone.
LEMMA StepKeepsLeases ==
  ASSUME IInv, op # Idle, UNCHANGED <<active, leases>>, rooted => rooted',
         \A p \in Paths \ {op.path} : at'[p] = at[p],
         \A d \in Dirs : work'[d] \in {work[d], {}}
  PROVE  LeasesAgree'
<1>1. \A r \in Runs : /\ Leased(r)' <=> Leased(r)
                      /\ leases'[r] = leases[r]
  BY DEF Leased
<1>2. \A r \in Runs : leases[r].phase = "held" /\ leases[r].path \notin Kept =>
        /\ at'[leases[r].path] = at[leases[r].path]
        /\ work'[leases[r].dir] \subseteq {r}
  <2> SUFFICES ASSUME NEW r \in Runs, leases[r].phase = "held", leases[r].path \notin Kept
               PROVE  /\ at'[leases[r].path] = at[leases[r].path]
                      /\ work'[leases[r].dir] \subseteq {r}
    OBVIOUS
  <2>1. leases[r].path \in Paths /\ leases[r].dir \in Dirs
    BY LeaseShape DEF Leased, ALease
  <2>2. leases[r].path # op.path /\ work[leases[r].dir] \subseteq {r}
    BY OthersHold DEF IInv, LeasesAgree
  <2> QED
    BY <2>1, <2>2
<1> QED
  BY <1>1, <1>2, LeasesKept

\* sweepRecovery() removes what an earlier operation left.
LEMMA SweepOK ==
  ASSUME IInv, Sweep PROVE IInv'
<1>1. /\ op # Idle /\ op \in AnOperation /\ op.step = "sweep" /\ op.path \in Paths
      /\ op.name \in Names /\ OwnPath /\ OwnSteps /\ StepFinds
  BY InStep DEF Sweep
<1>2. /\ UNCHANGED <<at, marker, work, active, leases, crashes>>
      /\ quarantine' \subseteq quarantine /\ staging' \subseteq staging
      /\ rooted => rooted'
  BY DEF Sweep, RemoveQuarantined, RemoveStaged, IInv, Typed
<1>3. InOnePlace'
  BY <1>2 DEF IInv, InOnePlace
<1>4. LeasesAgree'
  BY <1>1, <1>2, StepKeepsLeases
<1>5. rooted' \in BOOLEAN /\ faults' \in 0..MaxFaults
  <2>1. rooted' \in BOOLEAN
    BY DEF Sweep, RemoveQuarantined, RemoveStaged, IInv, Typed
  <2>2. Fault \/ UNCHANGED faults
    BY DEF Sweep, RemoveQuarantined, RemoveStaged
  <2> QED
    BY <2>1, <2>2, FaultOK
<1>6. CASE /\ quarantine = {} /\ staging = {} /\ Goes(FirstStep) /\ rooted'
           /\ UNCHANGED <<quarantine, staging, faults>>
  <2>1. op.name \notin {"release-kept", "release-pending"}
    BY <1>1 DEF OwnSteps
  <2>2. FirstStep \in StepNames
    BY <1>1, <2>1 DEF FirstStep, Names, StepNames
  <2>3. /\ op' \in AnOperation /\ op'.step = FirstStep /\ op'.name = op.name
        /\ op'.run = op.run /\ op'.path = op.path /\ op'.detached = op.detached
        /\ UNCHANGED outcome
    BY <1>1, <1>6, <2>2, GoesOn DEF Goes
  <2>4. Typed'
    BY <1>2, <1>5, <1>6, <2>3 DEF IInv, Typed
  <2>5. OwnPath'
    BY <1>1, <1>2, <2>3, SameOwner DEF Leased
  <2>6. OwnSteps'
    BY <1>1, <2>1, <2>3 DEF OwnSteps, FirstStep, Names
  <2>7. op.detached = None
    BY <1>1 DEF StepFinds
  <2>8. StepFinds'
    BY <1>1, <1>2, <1>6, <2>1, <2>3, <2>7 DEF StepFinds, FirstStep, Names, Replaces
  <2> QED
    BY <1>3, <1>4, <2>3, <2>4, <2>5, <2>6, <2>8 DEF IInv, Working, NeverWedged
<1>7. CASE UNCHANGED <<rooted, op, outcome, faults>>
  <2>1. Typed'
    BY <1>2, <1>7 DEF IInv, Typed
  <2>2. OwnPath'
    BY <1>1, <1>2, <1>7, SameOwner DEF Leased
  <2>3. OwnSteps' /\ StepFinds'
    BY <1>1, <1>7 DEF OwnSteps, StepFinds
  <2> QED
    BY <1>3, <1>4, <1>7, <2>1, <2>2, <2>3 DEF IInv, Working, NeverWedged
<1>8. CASE Fault /\ Ends("fault") /\ UNCHANGED <<rooted, quarantine, staging>>
  <2>1. Working' /\ NeverWedged' /\ op' = Idle
        /\ outcome'.how \in {"none", "ok", "busy", "absent", "retry", "fault", "stuck"}
    BY <1>8, EndsOK
  <2>2. Typed'
    BY <1>2, <1>5, <1>8, <2>1 DEF IInv, Typed
  <2> QED
    BY <1>3, <1>4, <2>1, <2>2 DEF IInv
<1> QED
  BY <1>6, <1>7, <1>8 DEF Sweep, RemoveQuarantined, RemoveStaged

\* A directory that is bound to a path of its own: it is staged, so it is published
\* nowhere.
LEMMA StagedElsewhere ==
  ASSUME IInv, NEW d \in staging
  PROVE  d \in Dirs /\ d # None /\ \A p \in Paths : at[p] # d
BY Shapes DEF IInv, Typed, InOnePlace

\* The replacement of a slot is created in staging.
LEMMA StageOK ==
  ASSUME IInv, Stage PROVE IInv'
<1>1. /\ op # Idle /\ op \in AnOperation /\ op.step = "stage" /\ op.path \in Paths
      /\ op.name \in Names /\ OwnPath /\ OwnSteps /\ StepFinds
  BY InStep DEF Stage
<1>2. /\ UNCHANGED <<at, quarantine, rooted, active, leases, crashes>>
      /\ quarantine = {} /\ staging = {} /\ op.detached = None
      /\ at[op.path] # None => MarkedFor(at[op.path], op.path)
  BY <1>1 DEF Stage, StepFinds, MarkedFor, IInv, InOnePlace
<1>3. CASE Fault /\ Ends("fault") /\ UNCHANGED <<marker, work, staging>>
  <2>1. Working' /\ NeverWedged' /\ op' = Idle
        /\ outcome'.how \in {"none", "ok", "busy", "absent", "retry", "fault", "stuck"}
    BY <1>3, EndsOK
  <2>2. Typed'
    BY <1>2, <1>3, <2>1, FaultOK DEF IInv, Typed
  <2>3. LeasesAgree'
    BY <1>1, <1>2, <1>3, StepKeepsLeases
  <2>4. InOnePlace'
    BY <1>2, <1>3 DEF IInv, InOnePlace
  <2> QED
    BY <2>1, <2>2, <2>3, <2>4 DEF IInv
<1>4. ASSUME NEW d \in Fresh,
             staging' = staging \cup {d}, marker' = [marker EXCEPT ![d] = None],
             work' = [work EXCEPT ![d] = {}],
             op' = [op EXCEPT !.step = "mark", !.staged = d], UNCHANGED <<outcome, faults>>
      PROVE  IInv'
  <2>1. d \in Dirs /\ d # None /\ \A p \in Paths : at[p] # d
    BY Shapes DEF Fresh
  <2>2. /\ op' \in AnOperation /\ op'.step = "mark" /\ op'.name = op.name
        /\ op'.run = op.run /\ op'.path = op.path /\ op'.detached = None /\ op'.staged = d
    BY <1>1, <1>2, <1>4, <2>1 DEF AnOperation, StepNames
  <2>3. /\ marker \in [Dirs -> Paths \cup {None}] /\ work \in [Dirs -> SUBSET Runs]
        /\ marker' \in [Dirs -> Paths \cup {None}] /\ work' \in [Dirs -> SUBSET Runs]
        /\ work'[d] = {} /\ \A e \in Dirs \ {d} : marker'[e] = marker[e]
        /\ \A e \in Dirs : work'[e] \in {work[e], {}}
    BY <1>4, <2>1 DEF IInv, Typed
  <2>4. Typed'
    BY <1>2, <1>4, <2>1, <2>2, <2>3 DEF IInv, Typed
  <2>5. InOnePlace'
    BY <1>2, <1>4, <2>1, <2>3 DEF IInv, Typed, InOnePlace
  <2>6. LeasesAgree'
    BY <1>1, <1>2, <2>3, StepKeepsLeases
  <2>7. OwnPath'
    BY <1>1, <1>2, <2>2, SameOwner DEF Leased
  <2>8. OwnSteps'
    BY <1>1, <2>2 DEF OwnSteps
  <2>9. StepFinds'
    BY <1>1, <1>2, <1>4, <2>1, <2>2, <2>3 DEF StepFinds
  <2> QED
    BY <1>4, <2>4, <2>5, <2>6, <2>7, <2>8, <2>9 DEF IInv, Working, NeverWedged
<1> QED
  BY <1>2, <1>3, <1>4 DEF Stage

\* The replacement gets its marker.
LEMMA MarkOK ==
  ASSUME IInv, Mark PROVE IInv'
<1>1. /\ op # Idle /\ op \in AnOperation /\ op.step = "mark" /\ op.path \in Paths
      /\ op.name \in Names /\ OwnPath /\ OwnSteps /\ StepFinds
  BY InStep DEF Mark
<1> DEFINE d == op.staged
<1>2. /\ UNCHANGED <<at, work, quarantine, staging, rooted, active, leases, crashes>>
      /\ quarantine = {} /\ staging = {d} /\ op.detached = None /\ d # None /\ work[d] = {}
  BY <1>1 DEF Mark, StepFinds
<1>3. d \in Dirs /\ \A p \in Paths : at[p] # d
  BY <1>2, StagedElsewhere
<1>4. op.name \in {"strict", "temporary", "create", "release-strict"}
  BY <1>1 DEF OwnSteps, Names, OwnPath, Releases
<1>5. LeasesAgree'
  BY <1>1, <1>2, StepKeepsLeases
<1>6. CASE /\ marker' = [marker EXCEPT ![d] = op.path] /\ UNCHANGED faults
           /\ Goes(IF at[op.path] = None THEN "commit" ELSE "detach")
  <2> DEFINE s == IF at[op.path] = None THEN "commit" ELSE "detach"
  <2>1. s \in StepNames
    BY DEF StepNames
  <2>2. /\ op' \in AnOperation /\ op'.step = s /\ op'.name = op.name
        /\ op'.run = op.run /\ op'.path = op.path /\ op'.detached = None /\ op'.staged = d
        /\ UNCHANGED outcome
    BY <1>1, <1>2, <1>6, <2>1, GoesOn DEF Goes
  <2>3. /\ marker' \in [Dirs -> Paths \cup {None}] /\ marker'[d] = op.path
        /\ \A e \in Dirs \ {d} : marker'[e] = marker[e]
    BY <1>1, <1>3, <1>6 DEF IInv, Typed
  <2>4. Typed'
    BY <1>2, <1>6, <2>2, <2>3 DEF IInv, Typed
  <2>5. InOnePlace'
    BY <1>2, <1>3, <2>3 DEF IInv, Typed, InOnePlace
  <2>6. OwnPath'
    BY <1>1, <1>2, <2>2, SameOwner DEF Leased
  <2>7. OwnSteps'
    BY <1>1, <1>4, <2>2 DEF OwnSteps, StepFinds
  <2>8. StepFinds'
    BY <1>1, <1>2, <1>4, <2>2, <2>3 DEF StepFinds, Fit, New, Replaces
  <2> QED
    BY <1>5, <2>2, <2>4, <2>5, <2>6, <2>7, <2>8 DEF IInv, Working, NeverWedged
<1>7. CASE Fault /\ Fails("unstage") /\ UNCHANGED marker
  <2>1. /\ op' \in AnOperation /\ op'.step = "unstage" /\ op'.name = op.name /\ op'.faulty
        /\ op'.run = op.run /\ op'.path = op.path /\ op'.detached = None /\ op'.staged = d
        /\ UNCHANGED outcome
    BY <1>1, <1>2, <1>7 DEF Fails, AnOperation, StepNames
  <2>2. Typed'
    BY <1>2, <1>7, <2>1, FaultOK DEF IInv, Typed
  <2>3. InOnePlace'
    BY <1>2, <1>7 DEF IInv, InOnePlace
  <2>4. OwnPath'
    BY <1>1, <1>2, <2>1, SameOwner DEF Leased
  <2>5. OwnSteps' /\ StepFinds'
    BY <1>1, <1>2, <1>4, <2>1 DEF OwnSteps, StepFinds
  <2> QED
    BY <1>5, <2>1, <2>2, <2>3, <2>4, <2>5 DEF IInv, Working, NeverWedged
<1> QED
  BY <1>6, <1>7 DEF Mark

\* A release notes what it still has to remove: the leases are otherwise as they were.
LEMMA Remembered ==
  ASSUME IInv, op # Idle, NEW d \in Dirs \cup {None}, Remembers(d) \/ UNCHANGED leases
  PROVE  /\ leases' \in [Runs -> {NoLease, Over} \cup ALease]
         /\ \A r \in Runs : /\ Leased(r)' <=> Leased(r)
                            /\ Leased(r) => /\ leases'[r].path = leases[r].path
                                            /\ leases'[r].phase = leases[r].phase
                                            /\ leases'[r].dir = leases[r].dir
                            /\ leases'[r].phase = "held" => leases[r].phase = "held"
                            /\ leases[r] = NoLease => leases'[r] = NoLease
<1>1. leases \in [Runs -> {NoLease, Over} \cup ALease]
  BY DEF IInv, Typed
<1>2. CASE UNCHANGED leases
  BY <1>1, <1>2 DEF Leased
<1>3. CASE /\ op.name \in {"release-strict", "release-temporary"}
           /\ leases' = [leases EXCEPT ![op.run].pending = d]
  <2> DEFINE l == leases[op.run]
             m == [l EXCEPT !.pending = d]
  <2>1. op.run \in Runs /\ Leased(op.run)
    BY <1>3 DEF IInv, Working, OwnPath, Releases, Leased
  <2>2. l \in ALease
    BY <2>1, LeaseShape
  <2>3. leases' = [leases EXCEPT ![op.run] = m]
    BY <1>3
  <2>4. m \in ALease /\ m.phase = l.phase /\ m.path = l.path /\ m.dir = l.dir
    BY <2>2 DEF ALease
  <2> HIDE DEF m
  <2>5. \A q \in Runs : leases'[q] = IF q = op.run THEN m ELSE leases[q]
    BY <1>1, <2>1, <2>3
  <2>6. leases' \in [Runs -> {NoLease, Over} \cup ALease]
    BY <1>1, <2>3, <2>4
  <2> QED
    BY <2>1, <2>4, <2>5, <2>6, Shapes DEF Leased
<1> QED
  BY <1>2, <1>3 DEF Remembers

\* The leases stand when an operation changes its own path, and notes what it has to
\* remove.
LEMMA StepKeepsLeased ==
  ASSUME IInv, op # Idle, UNCHANGED <<active, rooted, work>>,
         NEW d \in Dirs \cup {None}, Remembers(d) \/ UNCHANGED leases,
         \A p \in Paths \ {op.path} : at'[p] = at[p]
  PROVE  LeasesAgree'
<1>1. \A r \in Runs : leases[r].phase = "held" /\ leases[r].path \notin Kept =>
        /\ at'[leases[r].path] = at[leases[r].path]
        /\ work'[leases[r].dir] \subseteq {r}
  <2> SUFFICES ASSUME NEW r \in Runs, leases[r].phase = "held", leases[r].path \notin Kept
               PROVE  /\ at'[leases[r].path] = at[leases[r].path]
                      /\ work'[leases[r].dir] \subseteq {r}
    OBVIOUS
  <2>1. leases[r].path \in Paths
    BY LeaseShape DEF Leased, ALease
  <2>2. leases[r].path # op.path /\ work[leases[r].dir] \subseteq {r}
    BY OthersHold DEF IInv, LeasesAgree
  <2> QED
    BY <2>1, <2>2
<1>2. \A r \in Runs : /\ Leased(r)' <=> Leased(r)
                      /\ Leased(r) => leases'[r].path = leases[r].path
                      /\ leases'[r].phase = "held" =>
                           leases[r].phase = "held" /\ leases'[r].dir = leases[r].dir
  BY Remembered DEF Leased
<1> QED
  BY <1>1, <1>2, LeasesKept

\* What is to go is renamed into quarantine.
LEMMA DetachOK ==
  ASSUME IInv, Detach PROVE IInv'
<1>1. /\ op # Idle /\ op \in AnOperation /\ op.step = "detach" /\ op.path \in Paths
      /\ op.name \in Names /\ OwnPath /\ OwnSteps /\ StepFinds
  BY InStep DEF Detach
<1> DEFINE d == at[op.path]
<1>2. /\ UNCHANGED <<marker, work, staging, rooted, active, crashes>>
      /\ op.detached = None /\ quarantine = {}
      /\ Replaces => staging = {op.staged} /\ Fit(op.staged) /\ d # None
      /\ ~Replaces => staging = {}
  BY <1>1 DEF Detach, StepFinds
<1>3. /\ op.name \in {"strict", "temporary", "release-strict", "release-temporary", "cleanup"}
      /\ Replaces <=> op.name \in {"strict", "temporary", "release-strict"}
  BY <1>1 DEF OwnSteps, Names, Replaces
<1>4. CASE ~CanDetach /\ UNCHANGED <<at, quarantine, faults>> /\ Remembers(None)
  <2>1. ~Replaces
    <3>1. Replaces => d # None /\ op.name # "cleanup"
      BY <1>2, <1>3
    <3> QED
      BY <1>4, <3>1 DEF CanDetach, Absent
  <2>2. LeasesAgree' /\ leases' \in [Runs -> {NoLease, Over} \cup ALease]
    BY <1>1, <1>2, <1>4, StepKeepsLeased, Remembered
  <2>3. InOnePlace'
    BY <1>2, <1>4 DEF IInv, InOnePlace
  <2>4. CASE op.name # "cleanup"
    <3>1. Goes("finish")
      BY <1>4, <2>4 DEF Detach
    <3>2. /\ op' \in AnOperation /\ op'.step = "finish" /\ op'.name = op.name
          /\ op'.run = op.run /\ op'.path = op.path /\ UNCHANGED outcome
      BY <1>1, <3>1, GoesOn DEF Goes, StepNames
    <3>3. Typed'
      BY <1>2, <1>4, <2>2, <3>2 DEF IInv, Typed
    <3>4. OwnPath'
      BY <1>1, <1>4, <3>2, SameOwner, Remembered
    <3>5. OwnSteps' /\ StepFinds'
      BY <1>1, <1>2, <1>3, <2>1, <3>2 DEF OwnSteps, StepFinds
    <3> QED
      BY <2>2, <2>3, <3>2, <3>3, <3>4, <3>5 DEF IInv, Working, NeverWedged
  <2>5. CASE op.name = "cleanup"
    <3>1. Ends(IF Absent(op.path) THEN "absent" ELSE "retry")
      BY <1>4, <2>5 DEF Detach
    <3>2. Working' /\ NeverWedged' /\ op' = Idle
          /\ outcome'.how \in {"none", "ok", "busy", "absent", "retry", "fault", "stuck"}
      BY <3>1, EndsOK
    <3>3. Typed'
      BY <1>2, <1>4, <2>2, <3>2 DEF IInv, Typed
    <3> QED
      BY <2>2, <2>3, <3>2, <3>3 DEF IInv
  <2> QED
    BY <2>4, <2>5
<1>5. CASE /\ CanDetach /\ quarantine' = {d} /\ at' = [at EXCEPT ![op.path] = None]
           /\ op' = [op EXCEPT !.step = IF Replaces THEN "commit" ELSE "discard",
                               !.detached = d]
           /\ IF Replaces THEN UNCHANGED leases ELSE Remembers(d)
           /\ UNCHANGED <<outcome, faults>>
  <2>1. d # None /\ d \in Dirs /\ marker[d] = op.path /\ d \notin staging
        /\ at \in [Paths -> Dirs \cup {None}]
    BY <1>1, <1>5 DEF CanDetach, Absent, IInv, Typed, InOnePlace
  <2>2. LeasesAgree' /\ leases' \in [Runs -> {NoLease, Over} \cup ALease]
    BY <1>1, <1>2, <1>5, <2>1, StepKeepsLeased, Remembered
  <2>3. at' \in [Paths -> Dirs \cup {None}] /\ at'[op.path] = None
        /\ \A p \in Paths \ {op.path} : at'[p] = at[p]
    BY <1>1, <1>5, <2>1
  <2>4. InOnePlace'
    <3>1. \A p \in Paths : at'[p] # d
      BY <1>1, <2>1, <2>3, PublishedOnce
    <3>2. \A p \in Paths : at'[p] # None => at'[p] = at[p]
      BY <2>3
    <3>3. /\ \A p \in Paths : at'[p] # None => marker[at'[p]] = p
          /\ \A p \in Paths : at'[p] \notin staging
      BY <3>2, <1>2, <2>3, Shapes DEF IInv, InOnePlace, Typed
    <3> QED
      BY <1>2, <1>5, <2>1, <3>1, <3>3 DEF IInv, InOnePlace
  <2>5. /\ op' \in AnOperation /\ op'.name = op.name
        /\ op'.step = (IF Replaces THEN "commit" ELSE "discard")
        /\ op'.run = op.run /\ op'.path = op.path /\ op'.detached = d /\ op'.staged = op.staged
    <3>1. (IF Replaces THEN "commit" ELSE "discard") \in StepNames
      BY DEF StepNames
    <3> QED
      BY <1>1, <1>5, <2>1, <3>1 DEF AnOperation
  <2>6. Typed'
    BY <1>2, <1>5, <2>1, <2>2, <2>3, <2>5 DEF IInv, Typed
  <2>7. OwnPath'
    BY <1>1, <1>5, <2>1, <2>5, SameOwner, Remembered
  <2>8. OwnSteps'
    BY <1>1, <1>3, <2>5 DEF OwnSteps
  <2>9. StepFinds'
    BY <1>1, <1>2, <1>3, <1>5, <2>1, <2>3, <2>5 DEF StepFinds, Fit, New
  <2> QED
    BY <1>5, <2>2, <2>4, <2>6, <2>7, <2>8, <2>9 DEF IInv, Working, NeverWedged
<1>6. CASE /\ CanDetach /\ Fault /\ UNCHANGED <<at, quarantine, leases>>
           /\ IF Replaces THEN Fails("unstage") ELSE Ends("fault")
  <2>1. LeasesAgree'
    BY <1>1, <1>2, <1>6, StepKeepsLeases
  <2>2. InOnePlace'
    BY <1>2, <1>6 DEF IInv, InOnePlace
  <2>3. CASE Replaces
    <3>1. /\ op' \in AnOperation /\ op'.step = "unstage" /\ op'.name = op.name /\ op'.faulty
          /\ op'.run = op.run /\ op'.path = op.path /\ op'.detached = None
          /\ op'.staged = op.staged /\ UNCHANGED outcome
      BY <1>1, <1>2, <1>6, <2>3 DEF Fails, AnOperation, StepNames
    <3>2. Typed'
      BY <1>2, <1>6, <3>1, FaultOK DEF IInv, Typed
    <3>3. OwnPath'
      BY <1>1, <1>6, <3>1, SameOwner DEF Leased
    <3>4. OwnSteps' /\ StepFinds'
      BY <1>1, <1>2, <1>3, <2>3, <3>1 DEF OwnSteps, StepFinds, Fit, New
    <3> QED
      BY <2>1, <2>2, <3>1, <3>2, <3>3, <3>4 DEF IInv, Working, NeverWedged
  <2>4. CASE ~Replaces
    <3>1. Working' /\ NeverWedged' /\ op' = Idle
          /\ outcome'.how \in {"none", "ok", "busy", "absent", "retry", "fault", "stuck"}
      BY <1>6, <2>4, EndsOK
    <3>2. Typed'
      BY <1>2, <1>6, <3>1, FaultOK DEF IInv, Typed
    <3> QED
      BY <2>1, <2>2, <3>1, <3>2 DEF IInv
  <2> QED
    BY <2>3, <2>4
<1>7. CanDetach => MarkedFor(d, op.path)
  BY <1>1 DEF CanDetach, Absent, MarkedFor, IInv, InOnePlace
<1> QED
  BY <1>2, <1>4, <1>5, <1>6, <1>7 DEF Detach

\* The replacement is renamed to the slot.
LEMMA CommitOK ==
  ASSUME IInv, Commit PROVE IInv'
<1>1. /\ op # Idle /\ op \in AnOperation /\ op.step = "commit" /\ op.path \in Paths
      /\ op.name \in Names /\ OwnPath /\ OwnSteps /\ StepFinds
  BY InStep DEF Commit
<1> DEFINE d == op.staged
<1>2. /\ UNCHANGED <<marker, work, quarantine, rooted, active, crashes>>
      /\ staging = {d} /\ Fit(d) /\ at[op.path] = None /\ d # None /\ marker[d] = op.path
      /\ IF op.detached = None THEN quarantine = {}
                               ELSE quarantine = {op.detached} /\ New(op.detached)
  BY <1>1 DEF Commit, StepFinds, Fit, New
<1>3. d \in Dirs /\ (\A p \in Paths : at[p] # d) /\ op.detached \in Dirs \cup {None}
  BY <1>1, <1>2, StagedElsewhere DEF AnOperation
<1>4. /\ op.name \in {"strict", "temporary", "create", "release-strict"}
      /\ op.name = "create" => op.detached = None
  BY <1>1 DEF OwnSteps, Names, StepFinds, OwnPath
<1>5. CASE /\ at' = [at EXCEPT ![op.path] = d] /\ staging' = staging \ {d}
           /\ Goes(IF op.detached = None THEN "finish" ELSE "discard")
           /\ Remembers(op.detached) /\ UNCHANGED faults
  <2> DEFINE s == IF op.detached = None THEN "finish" ELSE "discard"
  <2>1. s \in StepNames
    BY DEF StepNames
  <2>2. /\ op' \in AnOperation /\ op'.step = s /\ op'.name = op.name
        /\ op'.run = op.run /\ op'.path = op.path /\ op'.detached = op.detached
        /\ op'.staged = d /\ UNCHANGED outcome
    BY <1>1, <1>5, <2>1, GoesOn DEF Goes
  <2>3. /\ at \in [Paths -> Dirs \cup {None}] /\ at' \in [Paths -> Dirs \cup {None}]
        /\ at'[op.path] = d /\ \A p \in Paths \ {op.path} : at'[p] = at[p]
    BY <1>1, <1>3, <1>5 DEF IInv, Typed
  <2>4. LeasesAgree' /\ leases' \in [Runs -> {NoLease, Over} \cup ALease]
    BY <1>1, <1>2, <1>3, <1>5, <2>3, StepKeepsLeased, Remembered
  <2>5. Typed'
    BY <1>2, <1>5, <2>2, <2>3, <2>4 DEF IInv, Typed
  <2>6. d \notin quarantine /\ staging' = {}
    BY <1>2, <1>5 DEF IInv, InOnePlace
  <2>7. InOnePlace'
    <3>1. \A p \in Paths : at'[p] # None => marker[at'[p]] = p
      BY <1>2, <2>3 DEF IInv, InOnePlace
    <3>2. \A p \in Paths : at'[p] \notin quarantine
      BY <2>3, <2>6 DEF IInv, InOnePlace
    <3> QED
      BY <1>2, <2>6, <3>1, <3>2 DEF IInv, InOnePlace
  <2>8. OwnPath'
    BY <1>1, <1>3, <1>5, <2>2, SameOwner, Remembered
  <2>9. OwnSteps'
    BY <1>1, <1>4, <2>2 DEF OwnSteps
  <2>10. StepFinds'
    BY <1>1, <1>2, <1>4, <2>2, <2>3, <2>6 DEF StepFinds, Fit
  <2> QED
    BY <2>2, <2>4, <2>5, <2>7, <2>8, <2>9, <2>10 DEF IInv, Working, NeverWedged
<1>6. CASE /\ Fault /\ UNCHANGED <<at, staging, leases>>
           /\ Fails(IF op.detached = None THEN "unstage" ELSE "rollback")
  <2> DEFINE s == IF op.detached = None THEN "unstage" ELSE "rollback"
  <2>1. s \in StepNames
    BY DEF StepNames
  <2>2. /\ op' \in AnOperation /\ op'.step = s /\ op'.name = op.name
        /\ op'.run = op.run /\ op'.path = op.path /\ op'.detached = op.detached
        /\ op'.staged = d /\ op'.faulty /\ UNCHANGED outcome
    BY <1>1, <1>6, <2>1 DEF Fails, AnOperation
  <2>3. LeasesAgree'
    BY <1>1, <1>2, <1>6, StepKeepsLeases
  <2>4. Typed'
    BY <1>2, <1>6, <2>2, FaultOK DEF IInv, Typed
  <2>5. InOnePlace'
    BY <1>2, <1>6 DEF IInv, InOnePlace
  <2>6. OwnPath'
    BY <1>1, <1>6, <2>2, SameOwner DEF Leased
  <2>7. OwnSteps'
    BY <1>1, <1>4, <2>2 DEF OwnSteps
  <2>8. StepFinds'
    BY <1>1, <1>2, <1>4, <1>6, <2>2 DEF StepFinds, New
  <2> QED
    BY <2>2, <2>3, <2>4, <2>5, <2>6, <2>7, <2>8 DEF IInv, Working, NeverWedged
<1> QED
  BY <1>5, <1>6 DEF Commit

\* A failed commit puts the slot back.
LEMMA RollbackOK ==
  ASSUME IInv, Rollback PROVE IInv'
<1>1. /\ op # Idle /\ op \in AnOperation /\ op.step = "rollback" /\ op.path \in Paths
      /\ op.name \in Names /\ OwnPath /\ OwnSteps /\ StepFinds
  BY InStep DEF Rollback
<1> DEFINE d == op.detached
<1>2. /\ UNCHANGED <<marker, work, staging, rooted, active, leases, crashes>>
      /\ staging = {op.staged} /\ op.staged # None /\ at[op.path] = None /\ op.faulty
      /\ quarantine = {d} /\ d # None /\ marker[d] = op.path
  BY <1>1 DEF Rollback, StepFinds, New
<1>3. op.name \in {"strict", "temporary", "release-strict"} /\ d \in Dirs
  BY <1>1, <1>2 DEF OwnSteps, Names, OwnPath, AnOperation
<1>4. CASE /\ at' = [at EXCEPT ![op.path] = d] /\ quarantine' = quarantine \ {d}
           /\ Goes("unstage") /\ UNCHANGED faults
  <2>1. /\ op' \in AnOperation /\ op'.step = "unstage" /\ op'.name = op.name /\ op'.faulty
        /\ op'.run = op.run /\ op'.path = op.path /\ op'.detached = d
        /\ op'.staged = op.staged /\ UNCHANGED outcome
    BY <1>1, <1>2, <1>4, GoesOn DEF Goes, StepNames
  <2>2. /\ at \in [Paths -> Dirs \cup {None}] /\ at' \in [Paths -> Dirs \cup {None}]
        /\ at'[op.path] = d /\ \A p \in Paths \ {op.path} : at'[p] = at[p]
    BY <1>1, <1>3, <1>4 DEF IInv, Typed
  <2>3. LeasesAgree'
    BY <1>1, <1>2, <2>2, StepKeepsLeases
  <2>4. Typed'
    BY <1>2, <1>4, <2>1, <2>2 DEF IInv, Typed
  <2>5. InOnePlace'
    <3>1. \A p \in Paths : at'[p] # None => marker[at'[p]] = p
      BY <1>2, <2>2 DEF IInv, InOnePlace
    <3>2. quarantine' = {} /\ d \notin staging
      BY <1>2, <1>4 DEF IInv, InOnePlace
    <3>3. \A p \in Paths : at'[p] \notin staging
      BY <2>2, <3>2 DEF IInv, InOnePlace
    <3> QED
      BY <1>2, <3>1, <3>2, <3>3 DEF IInv, InOnePlace
  <2>6. OwnPath'
    BY <1>1, <1>2, <2>1, SameOwner DEF Leased
  <2>7. OwnSteps' /\ StepFinds'
    BY <1>1, <1>2, <1>3, <2>1 DEF OwnSteps, StepFinds
  <2> QED
    BY <2>1, <2>3, <2>4, <2>5, <2>6, <2>7 DEF IInv, Working, NeverWedged
<1>5. CASE Fault /\ Fails("unstage") /\ UNCHANGED <<at, quarantine>>
  <2>1. /\ op' \in AnOperation /\ op'.step = "unstage" /\ op'.name = op.name /\ op'.faulty
        /\ op'.run = op.run /\ op'.path = op.path /\ op'.detached = d
        /\ op'.staged = op.staged /\ UNCHANGED outcome
    BY <1>1, <1>5 DEF Fails, AnOperation, StepNames
  <2>2. LeasesAgree'
    BY <1>1, <1>2, <1>5, StepKeepsLeases
  <2>3. Typed'
    BY <1>2, <1>5, <2>1, FaultOK DEF IInv, Typed
  <2>4. InOnePlace'
    BY <1>2, <1>5 DEF IInv, InOnePlace
  <2>5. OwnPath'
    BY <1>1, <1>2, <2>1, SameOwner DEF Leased
  <2>6. OwnSteps' /\ StepFinds'
    BY <1>1, <1>2, <1>3, <2>1 DEF OwnSteps, StepFinds
  <2> QED
    BY <2>1, <2>2, <2>3, <2>4, <2>5, <2>6 DEF IInv, Working, NeverWedged
<1> QED
  BY <1>4, <1>5 DEF Rollback

\* The staged replacement is removed.
LEMMA UnstageOK ==
  ASSUME IInv, Unstage PROVE IInv'
<1>1. /\ op # Idle /\ op.step = "unstage" /\ StepFinds
  BY InStep DEF Unstage
<1>2. /\ UNCHANGED <<at, marker, work, quarantine, rooted, active, leases, crashes>>
      /\ staging' \subseteq staging
      /\ Fault \/ UNCHANGED faults
      /\ Ends("fault")
  BY <1>1 DEF Unstage, Throws, StepFinds
<1>3. Working' /\ NeverWedged' /\ op' = Idle
      /\ outcome'.how \in {"none", "ok", "busy", "absent", "retry", "fault", "stuck"}
  BY <1>2, EndsOK
<1>4. Typed'
  BY <1>2, <1>3, FaultOK DEF IInv, Typed
<1>5. LeasesAgree'
  BY <1>1, <1>2, StepKeepsLeases
<1>6. InOnePlace'
  BY <1>2 DEF IInv, InOnePlace
<1> QED
  BY <1>3, <1>4, <1>5, <1>6 DEF IInv

\* What is in quarantine is removed.
LEMMA DiscardOK ==
  ASSUME IInv, Discard PROVE IInv'
<1>1. /\ op # Idle /\ op \in AnOperation /\ op.step = "discard" /\ op.path \in Paths
      /\ op.name \in Names /\ OwnPath /\ OwnSteps /\ StepFinds
  BY InStep DEF Discard
<1>2. /\ UNCHANGED <<at, marker, work, staging, rooted, active, leases, crashes>>
      /\ quarantine' \subseteq quarantine
      /\ Fault \/ UNCHANGED faults
  BY DEF Discard
<1>3. LeasesAgree'
  BY <1>1, <1>2, StepKeepsLeases
<1>4. InOnePlace'
  BY <1>2 DEF IInv, InOnePlace
<1>5. CASE Goes("finish")
  <2>1. /\ op' \in AnOperation /\ op'.step = "finish" /\ op'.name = op.name
        /\ op'.run = op.run /\ op'.path = op.path /\ op'.detached = op.detached
        /\ op'.staged = op.staged /\ UNCHANGED outcome
    BY <1>1, <1>5, GoesOn DEF Goes, StepNames
  <2>2. Typed'
    BY <1>2, <2>1, FaultOK DEF IInv, Typed
  <2>3. OwnPath'
    BY <1>1, <1>2, <2>1, SameOwner DEF Leased
  <2>4. op.name # "create"
    BY <1>1 DEF OwnSteps
  <2>5. OwnSteps' /\ StepFinds'
    BY <1>1, <1>2, <2>1, <2>4 DEF OwnSteps, StepFinds
  <2> QED
    BY <1>3, <1>4, <2>1, <2>2, <2>3, <2>5 DEF IInv, Working, NeverWedged
<1>6. CASE ~Entered /\ Throws
  <2>1. op.name = "release-pending"
    BY <1>1, <1>6 DEF Entered, StepFinds
  <2>2. op' = Idle /\ outcome'.how \in {"fault", "stuck"} /\ outcome'.name = op.name
    BY <1>6 DEF Throws, Ends
  <2>3. Typed'
    BY <1>2, <2>2, FaultOK DEF IInv, Typed
  <2>4. Working' /\ NeverWedged'
    BY <2>1, <2>2 DEF Working, NeverWedged
  <2> QED
    BY <1>3, <1>4, <2>3, <2>4 DEF IInv
<1>7. CASE Ends("fault")
  <2>1. Working' /\ NeverWedged' /\ op' = Idle
        /\ outcome'.how \in {"none", "ok", "busy", "absent", "retry", "fault", "stuck"}
    BY <1>7, EndsOK
  <2>2. Typed'
    BY <1>2, <2>1, FaultOK DEF IInv, Typed
  <2> QED
    BY <1>3, <1>4, <2>1, <2>2 DEF IInv
<1> QED
  BY <1>5, <1>6, <1>7 DEF Discard

\* An operation that gives a run its workspace.
LEMMA GivesOK ==
  ASSUME IInv, At("finish"), Acquires, ~NothingToOpen,
         UNCHANGED <<tree, rooted, faults, crashes>>,
         active' = [active EXCEPT ![op.path] = @ + 1],
         leases' = [leases EXCEPT ![op.run] =
           [phase |-> "held", path |-> op.path, dir |-> at[op.path], pending |-> Undefined]],
         Ends("ok")
  PROVE  IInv'
<1> PICK r, p : r = op.run /\ p = op.path
  OBVIOUS
<1> DEFINE l == [phase |-> "held", path |-> p, dir |-> at[p], pending |-> Undefined]
<1>1. /\ op # Idle /\ op \in AnOperation /\ op.step = "finish" /\ p \in Paths
      /\ op.name \in Names /\ OwnPath /\ OwnSteps /\ StepFinds
  BY InStep
<1>2. UNCHANGED <<at, marker, work, quarantine, staging, rooted, faults, crashes>> /\ rooted
  BY <1>1 DEF tree, StepFinds
<1>3. op.name \in {"strict", "temporary", "create", "open"} /\ r \in Runs /\ leases[r] = NoLease
  BY <1>1 DEF OwnPath, Acquires
<1>4. at[p] # None
  BY <1>1, <1>3, Shapes DEF StepFinds, NothingToOpen, ValidResponse, Absent
<1>5. at[p] \in Dirs
  BY <1>1, <1>4 DEF IInv, Typed
<1>6. l \in ALease
  BY <1>1, <1>5 DEF ALease
<1>7. leases \in [Runs -> {NoLease, Over} \cup ALease] /\ active \in [Paths -> Nat]
  BY DEF IInv, Typed
<1>8. leases' = [leases EXCEPT ![r] = l]
  OBVIOUS
<1>9. l.phase = "held" /\ l.path = p /\ l.dir = at[p]
  OBVIOUS
<1> HIDE DEF l
<1>10. /\ leases' \in [Runs -> {NoLease, Over} \cup ALease]
       /\ \A q \in Runs : leases'[q] = IF q = r THEN l ELSE leases[q]
  BY <1>3, <1>6, <1>7, <1>8
<1>11. /\ active' \in [Paths -> Nat] /\ active'[p] = active[p] + 1
       /\ \A o \in Paths \ {p} : active'[o] = active[o]
  BY <1>1, <1>7
<1>12. Working' /\ NeverWedged' /\ op' = Idle
       /\ outcome'.how \in {"none", "ok", "busy", "absent", "retry", "fault", "stuck"}
  BY EndsOK
<1>13. Typed'
  BY <1>2, <1>10, <1>11, <1>12 DEF IInv, Typed
<1>14. InOnePlace'
  BY <1>2 DEF IInv, InOnePlace
<1>15. ~Leased(r)
  BY <1>3, Shapes DEF Leased
<1>16. \A q \in Runs : Leased(q)' <=> (q = r \/ Leased(q))
  BY <1>9, <1>10 DEF Leased
<1>17. /\ HoldersOf(p)' = HoldersOf(p) \cup {r} /\ r \notin HoldersOf(p)
       /\ \A o \in Paths \ {p} : HoldersOf(o)' = HoldersOf(o)
  <2>1. HoldersOf(p)' = HoldersOf(p) \cup {r} /\ r \notin HoldersOf(p)
    BY <1>3, <1>9, <1>10, <1>15, <1>16 DEF HoldersOf
  <2>2. ASSUME NEW o \in Paths \ {p} PROVE HoldersOf(o)' = HoldersOf(o)
    BY <1>9, <1>10, <1>15, <1>16 DEF HoldersOf
  <2> QED
    BY <2>1, <2>2
<1>18. p \notin Kept => HoldersOf(p) = {}
  BY <1>1, <1>3 DEF OwnPath
<1>19. p \in Temporary => p = [run |-> r]
  BY <1>1, <1>3, PathKinds DEF OwnPath
<1>20. p \notin Kept => work[at[p]] \subseteq {r}
  <2>1. p \notin Kept => op.name \in {"strict", "temporary"}
    BY <1>1, <1>3 DEF OwnPath
  <2> QED
    BY <1>1, <2>1 DEF StepFinds
<1>21. LeasesAgree'
  <2>1. \A o \in Paths : IsFiniteSet(HoldersOf(o)') /\ active'[o] = Cardinality(HoldersOf(o)')
    <3>1. IsFiniteSet(HoldersOf(p)') /\ active'[p] = Cardinality(HoldersOf(p)')
      BY <1>1, <1>11, <1>17, FS_AddElement DEF IInv, LeasesAgree
    <3>2. ASSUME NEW o \in Paths \ {p}
          PROVE  IsFiniteSet(HoldersOf(o)') /\ active'[o] = Cardinality(HoldersOf(o)')
      BY <1>11, <1>17 DEF IInv, LeasesAgree
    <3> QED
      BY <3>1, <3>2
  <2>2. \A q, s \in Runs : Leased(q)' /\ Leased(s)' /\ leases'[q].path = leases'[s].path
                           /\ leases'[q].path \notin Kept => q = s
    <3> SUFFICES ASSUME NEW q \in Runs, NEW s \in Runs, Leased(q)', Leased(s)',
                        leases'[q].path = leases'[s].path, leases'[q].path \notin Kept, q # s
                 PROVE  FALSE
      OBVIOUS
    <3>1. CASE q = r
      BY <1>9, <1>10, <1>16, <1>18, <3>1 DEF HoldersOf
    <3>2. CASE s = r
      BY <1>9, <1>10, <1>16, <1>18, <3>2 DEF HoldersOf
    <3>3. CASE q # r /\ s # r
      BY <1>10, <1>16, <3>3 DEF IInv, LeasesAgree
    <3> QED
      BY <3>1, <3>2, <3>3
  <2>3. \A q \in Runs : Leased(q)' =>
          rooted' /\ (leases'[q].path \in Temporary => leases'[q].path = [run |-> q])
    BY <1>2, <1>9, <1>10, <1>16, <1>19 DEF IInv, LeasesAgree
  <2>4. \A q \in Runs : leases'[q].phase = "held" /\ leases'[q].path \notin Kept =>
          at'[leases'[q].path] = leases'[q].dir /\ work'[leases'[q].dir] \subseteq {q}
    BY <1>2, <1>9, <1>10, <1>20 DEF IInv, LeasesAgree
  <2> QED
    BY <2>1, <2>2, <2>3, <2>4 DEF LeasesAgree
<1> QED
  BY <1>12, <1>13, <1>14, <1>21 DEF IInv

\* An operation that ends a lease.
LEMMA TakesOK ==
  ASSUME IInv, At("finish"), op.name \in Releases,
         UNCHANGED <<tree, rooted, faults, crashes>>,
         active' = [active EXCEPT ![op.path] = Remaining(op.path)],
         leases' = [leases EXCEPT ![op.run] = Over],
         Ends("ok")
  PROVE  IInv'
<1> PICK r, p : r = op.run /\ p = op.path
  OBVIOUS
<1>1. /\ op # Idle /\ op \in AnOperation /\ p \in Paths /\ OwnPath
  BY InStep
<1>2. UNCHANGED <<at, marker, work, quarantine, staging, rooted, faults, crashes>>
  BY DEF tree
<1>3. r \in Runs /\ Leased(r) /\ leases[r].path = p
  BY <1>1 DEF OwnPath, Leased
<1>4. leases \in [Runs -> {NoLease, Over} \cup ALease] /\ active \in [Paths -> Nat]
  BY DEF IInv, Typed
<1>5. /\ leases' \in [Runs -> {NoLease, Over} \cup ALease]
      /\ \A q \in Runs : leases'[q] = IF q = r THEN Over ELSE leases[q]
  BY <1>3, <1>4
<1>6. \A q \in Runs : Leased(q)' <=> (q # r /\ Leased(q))
  BY <1>5, Shapes DEF Leased
<1>7. /\ HoldersOf(p)' = HoldersOf(p) \ {r} /\ r \in HoldersOf(p)
      /\ \A o \in Paths \ {p} : HoldersOf(o)' = HoldersOf(o)
  <2>1. HoldersOf(p)' = HoldersOf(p) \ {r} /\ r \in HoldersOf(p)
    BY <1>3, <1>5, <1>6 DEF HoldersOf
  <2>2. ASSUME NEW o \in Paths \ {p} PROVE HoldersOf(o)' = HoldersOf(o)
    BY <1>3, <1>5, <1>6 DEF HoldersOf
  <2> QED
    BY <2>1, <2>2
<1>8. /\ IsFiniteSet(HoldersOf(p)') /\ Cardinality(HoldersOf(p)') = active[p] - 1
      /\ Cardinality(HoldersOf(p)') \in Nat
  <2>1. IsFiniteSet(HoldersOf(p)) /\ active[p] = Cardinality(HoldersOf(p))
    BY <1>1 DEF IInv, LeasesAgree
  <2>2. /\ IsFiniteSet(HoldersOf(p) \ {r})
        /\ Cardinality(HoldersOf(p) \ {r}) = Cardinality(HoldersOf(p)) - 1
    BY <1>7, <2>1, FS_RemoveElement
  <2>3. Cardinality(HoldersOf(p) \ {r}) \in Nat
    BY <2>2, FS_CardinalityType
  <2> QED
    BY <1>7, <2>1, <2>2, <2>3
<1>9. /\ active' \in [Paths -> Nat] /\ active'[p] = active[p] - 1
      /\ \A o \in Paths \ {p} : active'[o] = active[o]
  <2>1. active' = [active EXCEPT ![p] = active[p] - 1] /\ active[p] - 1 \in Nat
    BY <1>8 DEF Remaining
  <2> QED
    BY <1>1, <1>4, <2>1
<1>10. Working' /\ NeverWedged' /\ op' = Idle
       /\ outcome'.how \in {"none", "ok", "busy", "absent", "retry", "fault", "stuck"}
  BY EndsOK
<1>11. Typed'
  BY <1>2, <1>5, <1>9, <1>10 DEF IInv, Typed
<1>12. InOnePlace'
  BY <1>2 DEF IInv, InOnePlace
<1>13. LeasesAgree'
  <2>1. \A o \in Paths : IsFiniteSet(HoldersOf(o)') /\ active'[o] = Cardinality(HoldersOf(o)')
    <3>1. ASSUME NEW o \in Paths \ {p}
          PROVE  IsFiniteSet(HoldersOf(o)') /\ active'[o] = Cardinality(HoldersOf(o)')
      BY <1>7, <1>9 DEF IInv, LeasesAgree
    <3> QED
      BY <1>8, <1>9, <3>1
  <2>2. \A q \in Runs : leases'[q].phase = "held" => q # r
    BY <1>5, Shapes
  <2> QED
    BY <1>2, <1>5, <1>6, <2>1, <2>2 DEF IInv, LeasesAgree
<1> QED
  BY <1>10, <1>11, <1>12, <1>13 DEF IInv

\* The operation returns or throws.
LEMMA FinishOK ==
  ASSUME IInv, Finish PROVE IInv'
<1>1. /\ op # Idle /\ op.name \in Names /\ At("finish")
      /\ UNCHANGED <<tree, rooted, faults, crashes>>
  BY InStep DEF Finish
<1>2. CASE UNCHANGED <<active, leases>> /\ \E how \in {"ok", "absent"} : Ends(how)
  <2>1. UNCHANGED <<at, marker, work, quarantine, staging, rooted, faults, crashes>>
    BY <1>1 DEF tree
  <2>2. Working' /\ NeverWedged' /\ op' = Idle
        /\ outcome'.how \in {"none", "ok", "busy", "absent", "retry", "fault", "stuck"}
    BY <1>2, EndsOK
  <2>3. Typed'
    BY <1>2, <2>1, <2>2 DEF IInv, Typed
  <2>4. InOnePlace' /\ LeasesAgree'
    BY <1>2, <2>1, LeasesUnchanged DEF IInv, InOnePlace
  <2> QED
    BY <2>2, <2>3, <2>4 DEF IInv
<1>3. CASE Acquires /\ ~NothingToOpen
  <2>1. op.name # "cleanup"
    BY <1>3 DEF Acquires
  <2> QED
    BY <1>1, <1>3, <2>1, GivesOK DEF Finish
<1>4. CASE op.name \in Releases
  <2>1. ~Acquires /\ ~NothingToOpen /\ op.name # "cleanup"
    BY <1>4 DEF Acquires, NothingToOpen, Releases
  <2> QED
    BY <1>1, <1>4, <2>1, TakesOK DEF Finish
<1>5. CASE NothingToOpen
  <2>1. op.name = "open"
    BY <1>5 DEF NothingToOpen
  <2> QED
    BY <1>2, <1>5, <2>1 DEF Finish
<1>6. CASE op.name = "cleanup"
  <2>1. ~Acquires /\ ~NothingToOpen
    BY <1>6 DEF Acquires, NothingToOpen
  <2> QED
    BY <1>2, <1>6, <2>1 DEF Finish
<1> QED
  BY <1>1, <1>3, <1>4, <1>5, <1>6 DEF Names, Acquires, Releases

\* The process dies at any step of an operation.
LEMMA CrashOK ==
  ASSUME IInv, Crash PROVE IInv'
<1>1. /\ UNCHANGED <<at, marker, work, quarantine, staging, faults>>
      /\ rooted' = FALSE /\ op' = Idle /\ outcome'.how = "none"
      /\ active' = [p \in Paths |-> 0]
      /\ leases' \in [Runs -> {NoLease, Over}]
  BY DEF Crash, tree, NoOutcome
<1>2. crashes' \in 0..MaxCrashes
  BY WorkspacesAssumption DEF Crash, IInv, Typed
<1>3. Typed'
  BY <1>1, <1>2 DEF IInv, Typed
<1>4. \A r \in Runs : ~Leased(r)' /\ leases'[r].phase # "held"
  BY <1>1, Shapes DEF Leased
<1>5. \A p : HoldersOf(p)' = {}
  BY <1>4 DEF HoldersOf
<1>6. LeasesAgree'
  BY <1>1, <1>4, <1>5, FS_EmptySet DEF LeasesAgree
<1>7. InOnePlace' /\ Working' /\ NeverWedged'
  BY <1>1 DEF IInv, InOnePlace, Working, NeverWedged
<1> QED
  BY <1>3, <1>6, <1>7 DEF IInv

\* Every step preserves the invariant.
LEMMA StepOK ==
  ASSUME IInv, [Next]_vars PROVE IInv'
<1>1. CASE UNCHANGED vars
  <2>1. UNCHANGED <<at, marker, work, quarantine, staging, rooted, active, leases, op,
                    outcome, faults, crashes>>
    BY <1>1 DEF vars, tree
  <2>2. Typed' /\ InOnePlace' /\ NeverWedged' /\ LeasesAgree'
    BY <2>1, LeasesUnchanged DEF IInv, Typed, InOnePlace, NeverWedged
  <2>3. Working'
    <3> SUFFICES ASSUME op # Idle PROVE OwnPath' /\ OwnSteps' /\ StepFinds'
      BY <2>1 DEF Working
    <3>1. OwnPath /\ OwnSteps /\ StepFinds
      BY DEF IInv, Working
    <3>2. OwnPath'
      BY <2>1, <3>1, SameOwner DEF Leased
    <3> QED
      BY <2>1, <3>1, <3>2 DEF OwnSteps, StepFinds, Fit, New, Replaces
  <2> QED
    BY <2>2, <2>3 DEF IInv
<1>2. CASE \E r \in Runs : \/ AcquireStrict(r) \/ AcquireTemporary(r) \/ Work(r) \/ Release(r)
  BY <1>2, AcquireStrictOK, AcquireTemporaryOK, WorkOK, ReleaseOK
<1>3. CASE \E r \in Runs, s \in Responses : CreateResponse(r, s) \/ OpenResponse(r, s)
  BY <1>3, CreateResponseOK, OpenResponseOK
<1>4. CASE \E s \in Responses : Cleanup(s)
  BY <1>4, CleanupOK
<1>5. CASE Steps
  BY <1>5, SweepOK, StageOK, MarkOK, DetachOK, CommitOK, RollbackOK, UnstageOK, DiscardOK,
     FinishOK DEF Steps
<1>6. CASE Crash
  BY <1>6, CrashOK
<1> QED
  BY <1>1, <1>2, <1>3, <1>4, <1>5, <1>6 DEF Next

-----------------------------------------------------------------------------
(* The theorems.                                                           *)

\* The invariant holds in every state that the manager can be in.
THEOREM Invariance == Spec => []IInv
<1>1. IInv /\ [Next]_vars => IInv'
  BY StepOK
<1> QED
  BY <1>1, InitOK, PTL DEF Spec

\* A run that holds a slot or a temporary directory has the one it was given, and
\* nobody else has worked in it (acquireStrict, acquireTemporary, the releases).
THEOREM WorkspacesAreIsolated == Spec => []Isolated
<1>1. IInv => Isolated
  <2> SUFFICES ASSUME IInv PROVE Isolated
    OBVIOUS
  <2>1. TypeOK
    <3>1. \A r \in Runs : leases[r] \in {NoLease, Over} \/ IsLease(leases[r])
      BY DEF IInv, Typed, ALease, IsLease
    <3>2. op = Idle \/ IsOperation(op)
      <4> SUFFICES ASSUME op \in AnOperation PROVE IsOperation(op)
        BY DEF IInv, Typed
      <4> QED
        BY DEF AnOperation, StepNames, IsOperation
    <3> QED
      BY <3>1, <3>2 DEF IInv, Typed, InOnePlace, TypeOK
  <2>2. ActiveAgrees
    <3> SUFFICES ASSUME NEW p \in Paths
                 PROVE  /\ active[p] = Cardinality(HoldersOf(p))
                        /\ p \notin Kept => active[p] <= 1
      BY DEF ActiveAgrees, HoldersOf
    <3>1. active[p] = Cardinality(HoldersOf(p))
      BY DEF IInv, LeasesAgree
    <3>2. ASSUME p \notin Kept PROVE Cardinality(HoldersOf(p)) <= 1
      <4>1. HoldersOf(p) = {} \/ \E r \in Runs : HoldersOf(p) = {r}
        BY <3>2 DEF HoldersOf, IInv, LeasesAgree
      <4>2. CASE HoldersOf(p) = {}
        BY <4>2, FS_EmptySet
      <4>3. ASSUME NEW r \in Runs, HoldersOf(p) = {r} PROVE Cardinality(HoldersOf(p)) <= 1
        <5>1. Cardinality({r}) = 1
          BY FS_Singleton
        <5> QED
          BY <4>3, <5>1
      <4> QED
        BY <4>1, <4>2, <4>3
    <3> QED
      BY <3>1, <3>2
  <2> QED
    BY <2>1, <2>2 DEF IInv, LeasesAgree, Isolated
<1> QED
  BY <1>1, Invariance, PTL

\* What failures and crashes leave to be removed is one directory of each kind
\* (sweepRecovery comes before everything else).
THEOREM LittleIsLeftBehind == Spec => []RecoveryIsBounded
<1>1. IInv => RecoveryIsBounded
  <2> SUFFICES ASSUME IInv PROVE RecoveryIsBounded
    OBVIOUS
  <2>1. ASSUME NEW S, \A d, e \in S : d = e PROVE Cardinality(S) <= 1
    <3>1. S = {} \/ \E d \in S : S = {d}
      BY <2>1
    <3> QED
      BY <3>1, FS_EmptySet, FS_Singleton
  <2>2. (\A d, e \in quarantine : d = e) /\ (\A d, e \in staging : d = e)
    BY DEF IInv, InOnePlace
  <2> QED
    BY <2>1, <2>2 DEF RecoveryIsBounded
<1> QED
  BY <1>1, Invariance, PTL

\* An operation that meets no fault does not throw, whatever came before it; another
\* attempt of a release that failed is apart.
THEOREM NothingIsWedged == Spec => []NeverWedged
<1>1. IInv => NeverWedged
  BY DEF IInv
<1> QED
  BY <1>1, Invariance, PTL

\* A response's directory goes in retention only, and only while nobody has leased it
\* (cleanupForRetention).
THEOREM ResponsesAreKept == Spec => OnlyRetentionRemoves
<1>1. ASSUME IInv, [Next]_vars, NEW p \in Kept, at[p] # None, at'[p] # at[p]
      PROVE  op.name = "cleanup" /\ active[p] = 0
  <2>1. p \in Paths
    BY PathKinds
  <2>2. Detach \/ Commit \/ Rollback
    BY <1>1 DEF Next, vars, tree, AcquireStrict, AcquireTemporary, Work, Release, CreateResponse,
       OpenResponse, Cleanup, Steps, Crash, Sweep, Stage, Mark, Unstage, Discard, Finish
  <2>3. at \in [Paths -> Dirs \cup {None}]
    BY <1>1 DEF IInv, Typed
  <2>4. CASE Detach
    <3>1. OwnPath /\ OwnSteps /\ op.name \in Names /\ op.step = "detach"
      BY <1>1, <2>4, InStep DEF Detach
    <3>2. CanDetach /\ at' = [at EXCEPT ![op.path] = None]
      BY <1>1, <2>4 DEF Detach
    <3>3. p = op.path
      BY <1>1, <2>1, <2>3, <3>2
    <3>4. op.name = "cleanup"
      BY <1>1, <3>1, <3>3, PathKinds DEF OwnPath, OwnSteps, Names, Acquires
    <3> QED
      BY <3>2, <3>3, <3>4 DEF CanDetach
  <2>5. CASE Commit
    <3>1. at[op.path] = None
      BY <1>1, <2>5, InStep DEF Commit, StepFinds
    <3> QED
      BY <1>1, <2>1, <2>3, <2>5, <3>1 DEF Commit
  <2>6. CASE Rollback
    <3>1. at[op.path] = None
      BY <1>1, <2>6, InStep DEF Rollback, StepFinds
    <3> QED
      BY <1>1, <2>1, <2>3, <2>6, <3>1 DEF Rollback
  <2> QED
    BY <2>2, <2>4, <2>5, <2>6
<1>2. IInv /\ [Next]_vars =>
        [\A p \in Kept : at[p] # None /\ at'[p] # at[p] => op.name = "cleanup" /\ active[p] = 0]_vars
  BY <1>1
<1> QED
  BY <1>2, Invariance, PTL DEF Spec, OnlyRetentionRemoves
=============================================================================

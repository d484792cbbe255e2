-------------------------- MODULE LifecycleProofs ---------------------------
(***************************************************************************)
(* Proofs about Lifecycle, for any processes and commands: what the pid    *)
(* file names, and what a gateway leaves behind.                           *)
(***************************************************************************)
EXTENDS Lifecycle, TLAPS

-----------------------------------------------------------------------------
(* The invariant.                                                          *)

Started == {"opening", "writing", "reconciling", "sweeping", "scanning", "binding",
            "serving", "failing"}

\* Where a process can be, by what it does and how far its closing has come.
StagesAgree ==
  \A p \in Procs :
    /\ At(p, Started) => proc[p].does = "serve"
    /\ proc[p].down # "no" => At(p, Started)
    /\ proc[p].down \notin {"no", "aborting"} => ~At(p, {"opening", "writing"})
    /\ proc[p].run # "none" => At(p, {"serving"})
    /\ proc[p].run = "begun" => proc[p].down \in {"no", "aborting"} \/ p \in late
    /\ At(p, {"signalling"}) => proc[p].does = "stop" /\ proc[p].heard \in Procs

\* What there is of a process outside of it, and when; kill -9 leaves the file
\* and the row, and a run that began late may leave its row.
OwnsWhatItHas ==
  \A p \in Procs :
    /\ file = p => Holds(p) \/ At(p, {"killed"})
    /\ p \in opened => At(p, {"writing"})
    /\ port = p => At(p, {"serving"})
    /\ p \in rows => \/ At(p, {"killed"})
                     \/ At(p, {"serving"}) /\ proc[p].down \in {"no", "aborting"}
                     \/ p \in late
    /\ stream[p] # "none" =>
         At(p, {"serving"}) /\ proc[p].down \in {"no", "aborting", "stopping", "draining"}

\* What a command that acts on the file knows of it, while no other one changed it.
FileAsRead ==
  ~raced => \A p \in Procs :
    /\ Holds(p) => file = p
    /\ At(p, {"dropping"}) => file = "malformed" \/ (file \in Procs /\ ~Alive(file))
    /\ At(p, {"free", "opening"}) => file = "missing"
    /\ At(p, {"writing"}) => file = "malformed" /\ p \in opened

\* From its reconciliation on, and while its database is open, a gateway finds no
\* rows but its own.
RowsAreOwn ==
  ~raced => \A p \in Procs :
    Holds(p) /\ DatabaseOpen(p) /\ At(p, {"sweeping", "scanning", "binding", "serving"})
      => rows = IF proc[p].run = "begun" THEN {p} ELSE {}

IInv == TypeOK /\ StagesAgree /\ OwnsWhatItHas /\ FileAsRead /\ RowsAreOwn

-----------------------------------------------------------------------------
(* What a step makes of a process.                                         *)

\* Everyone but p stays as it is.
OnlyOf(p) == \A q \in Procs \ {p} : proc'[q] = proc[q]

\* A process that goes on at another stage keeps the rest.
LEMMA GoesOn ==
  ASSUME TypeOK, NEW p \in Procs, NEW at \in Up, Goes(p, at)
  PROVE  /\ proc' \in [Procs -> Process] /\ OnlyOf(p)
         /\ proc'[p].at = at /\ proc'[p].does = proc[p].does
         /\ proc'[p].down = proc[p].down /\ proc'[p].run = proc[p].run
         /\ proc'[p].heard = proc[p].heard
<1>1. at \notin Over
  BY DEF Up, Over
<1>2. proc' = [proc EXCEPT ![p] = [proc[p] EXCEPT !.at = at]]
  BY <1>1 DEF Goes, Staged
<1> QED
  BY <1>2 DEF TypeOK, Process, OnlyOf

\* One that ends keeps nothing.
LEMMA GoesAway ==
  ASSUME TypeOK, NEW p \in Procs, NEW at \in Over, proc' = [proc EXCEPT ![p] = Nobody(at)]
  PROVE  /\ proc' \in [Procs -> Process] /\ OnlyOf(p)
         /\ proc'[p].at = at /\ proc'[p].down = "no" /\ proc'[p].run = "none"
BY DEF TypeOK, Process, OnlyOf, Nobody, Runs, Kinds, Down

\* The first state satisfies the invariant.
LEMMA InitOK == Init => IInv
<1> SUFFICES ASSUME Init PROVE IInv
  OBVIOUS
<1>1. \A p \in Procs :
        proc[p].at = "unused" /\ proc[p].down = "no" /\ proc[p].run = "none"
  BY DEF Init, Nobody
<1>2. TypeOK
  <2>1. Nobody("unused") \in Process
    BY DEF Process, Nobody, Runs, Kinds, Up, Down
  <2>2. proc \in [Procs -> Process]
    BY <2>1 DEF Init
  <2>3. stream \in [Procs -> Streams]
    BY DEF Init, Streams
  <2>4. faults \in 0..MaxFaults
    BY LifecycleAssumption DEF Init
  <2>6. raced \in BOOLEAN /\ late \subseteq Procs
    BY DEF Init
  <2>5. /\ file \in Procs \cup {"missing", "malformed"} /\ opened \subseteq Procs
        /\ port \in Procs \cup {NoProc} /\ rows \subseteq Procs
    BY DEF Init
  <2> QED
    BY <2>2, <2>3, <2>4, <2>5, <2>6 DEF TypeOK
<1>3. StagesAgree
  BY <1>1 DEF StagesAgree, At, Started
<1>4. OwnsWhatItHas
  BY <1>1, LifecycleAssumption DEF Init, OwnsWhatItHas
<1>5. FileAsRead /\ RowsAreOwn
  BY <1>1 DEF FileAsRead, RowsAreOwn, DatabaseOpen, At, Holds
<1> QED
  BY <1>2, <1>3, <1>4, <1>5 DEF IInv

-----------------------------------------------------------------------------
(* What the commands share.                                                *)

\* Type: a process that does nothing yet is given its command.
LEMMA TypeStep ==
  ASSUME IInv, NEW p \in Procs, NEW command \in Commands[p], Type(p, command)
  PROVE  IInv'
<1>1. /\ proc' \in [Procs -> Process] /\ OnlyOf(p)
      /\ proc'[p].at = "typed" /\ proc[p].at = "unused"
      /\ proc'[p].down = proc[p].down /\ proc'[p].run = proc[p].run
  BY LifecycleAssumption DEF Type, At, IInv, TypeOK, Process, OnlyOf, Up
<1>2. UNCHANGED <<file, opened, port, rows, stream, faults, raced, late>>
  BY DEF Type
<1>3. TypeOK'
  BY <1>1, <1>2 DEF IInv, TypeOK
<1>4. StagesAgree'
  BY <1>1, <1>2 DEF IInv, StagesAgree, At, OnlyOf, Started
<1>5. OwnsWhatItHas'
  BY <1>1, <1>2 DEF IInv, OwnsWhatItHas, At, OnlyOf, Holds
<1>6. FileAsRead'
  BY <1>1, <1>2, LifecycleAssumption DEF IInv, FileAsRead, OwnsWhatItHas, At, OnlyOf, Holds, Alive, Up
<1>7. RowsAreOwn'
  BY <1>1, <1>2 DEF IInv, RowsAreOwn, DatabaseOpen, At, OnlyOf, Holds
<1> QED
  BY <1>3, <1>4, <1>5, <1>6, <1>7 DEF IInv

\* Look: what the command goes on with.
LEMMA LookStep ==
  ASSUME IInv, NEW p \in Procs, Look(p)
  PROVE  IInv'
<1> DEFINE at == IF file = "missing" THEN Absent(p) ELSE "found"
<1>1. at \in {"free", "found", "ended"} /\ (at = "free" => file = "missing") /\ Goes(p, at)
  BY DEF Look, Absent
<1>2. /\ proc[p].at = "typed"
      /\ UNCHANGED <<file, opened, port, rows, stream, faults, raced, late>>
  BY DEF Look, At
<1>3. proc[p].down = "no" /\ proc[p].run = "none"
  BY <1>2 DEF IInv, TypeOK, Process, StagesAgree, At, Started
<1>4. /\ proc' \in [Procs -> Process] /\ OnlyOf(p)
      /\ proc'[p].at = at /\ proc'[p].down = "no" /\ proc'[p].run = "none"
  <2>1. CASE at = "ended"
    BY <1>1, <2>1, GoesAway DEF Goes, Staged, Over, IInv
  <2>2. CASE at \in {"free", "found"}
    BY <1>1, <1>3, <2>2, GoesOn DEF Up, IInv
  <2> QED
    BY <1>1, <2>1, <2>2
<1> HIDE DEF at
<1>5. TypeOK'
  BY <1>2, <1>4 DEF IInv, TypeOK
<1>6. StagesAgree'
  BY <1>1, <1>2, <1>4 DEF IInv, StagesAgree, At, OnlyOf, Started
<1>7. OwnsWhatItHas'
  BY <1>1, <1>2, <1>4 DEF IInv, OwnsWhatItHas, At, OnlyOf, Holds
<1>8. FileAsRead'
  BY <1>1, <1>2, <1>4, LifecycleAssumption
     DEF IInv, FileAsRead, OwnsWhatItHas, At, OnlyOf, Holds, Alive, Up
<1>9. RowsAreOwn'
  BY <1>1, <1>2, <1>4 DEF IInv, RowsAreOwn, DatabaseOpen, At, OnlyOf, Holds
<1> QED
  BY <1>5, <1>6, <1>7, <1>8, <1>9 DEF IInv

\* Read: what is dropped is malformed, or the file of a process that is dead; what
\* is signalled is a process.
LEMMA ReadStep ==
  ASSUME IInv, NEW p \in Procs, Read(p)
  PROVE  IInv'
<1> DEFINE next == CASE file = "missing" -> "ended"
                     [] file = "malformed" -> "dropping"
                     [] OTHER -> IF Running(file) THEN Present(p) ELSE "dropping"
           me == [Staged(p, next) EXCEPT !.heard = IF next = "signalling" THEN file ELSE NoProc]
<1>1. /\ next \in {"ended", "dropping", "signalling"}
      /\ next = "dropping" => file = "malformed" \/ (file \in Procs /\ ~Alive(file))
      /\ next = "signalling" => proc[p].does = "stop" /\ file \in Procs
  BY DEF IInv, TypeOK, Present, Running
<1>2. /\ proc[p].at = "found" /\ proc' = [proc EXCEPT ![p] = me]
      /\ UNCHANGED <<file, opened, port, rows, stream, faults, raced, late>>
  BY DEF Read, At
<1>3. proc[p].down = "no" /\ proc[p].run = "none"
  BY <1>2 DEF IInv, TypeOK, Process, StagesAgree, At, Started
<1> HIDE DEF next
<1>4. /\ me \in Process /\ me.at = next /\ me.down = "no" /\ me.run = "none"
      /\ next = "signalling" => me.does = "stop" /\ me.heard \in Procs
  BY <1>1, <1>3 DEF IInv, TypeOK, Process, Staged, Nobody, Over, Up, Kinds, Down
<1> HIDE DEF me
<1>5. /\ proc' \in [Procs -> Process] /\ OnlyOf(p) /\ proc'[p] = me
  BY <1>2, <1>4 DEF IInv, TypeOK, OnlyOf
<1>6. TypeOK'
  BY <1>2, <1>5 DEF IInv, TypeOK
<1>7. StagesAgree'
  BY <1>1, <1>2, <1>4, <1>5 DEF IInv, StagesAgree, At, OnlyOf, Started
<1>8. OwnsWhatItHas'
  BY <1>1, <1>2, <1>4, <1>5 DEF IInv, OwnsWhatItHas, At, OnlyOf, Holds
<1>9. FileAsRead'
  BY <1>1, <1>2, <1>4, <1>5, LifecycleAssumption
     DEF IInv, FileAsRead, OwnsWhatItHas, At, OnlyOf, Holds, Alive, Up
<1>10. RowsAreOwn'
  BY <1>1, <1>2, <1>4, <1>5 DEF IInv, RowsAreOwn, DatabaseOpen, At, OnlyOf, Holds
<1> QED
  BY <1>6, <1>7, <1>8, <1>9, <1>10 DEF IInv

\* Drop: if no other command acts on the file, there is no gateway whose pid it
\* removes.
LEMMA DropStep ==
  ASSUME IInv, NEW p \in Procs, Drop(p)
  PROVE  IInv'
<1>1. /\ proc[p].at = "dropping" /\ Goes(p, Absent(p)) /\ Absent(p) \in {"free", "ended"}
      /\ file' = "missing" /\ opened' = {} /\ raced' = (raced \/ Acting \ {p} # {})
      /\ UNCHANGED <<port, rows, stream, faults, late>>
  BY DEF Drop, RemovePid, Leaves, At, Absent
<1>2. proc[p].down = "no" /\ proc[p].run = "none"
  BY <1>1 DEF IInv, TypeOK, Process, StagesAgree, At, Started
<1>3. /\ proc' \in [Procs -> Process] /\ OnlyOf(p)
      /\ proc'[p].at \in {"free", "ended"} /\ proc'[p].down = "no" /\ proc'[p].run = "none"
  <2>1. CASE Absent(p) = "ended"
    BY <1>1, <2>1, GoesAway DEF Goes, Staged, Over, IInv
  <2>2. CASE Absent(p) = "free"
    BY <1>1, <1>2, <2>2, GoesOn DEF Up, IInv
  <2> QED
    BY <1>1, <2>1, <2>2
<1>4. TypeOK'
  BY <1>1, <1>3 DEF IInv, TypeOK
<1>5. StagesAgree'
  BY <1>1, <1>3 DEF IInv, StagesAgree, At, OnlyOf, Started
<1>6. OwnsWhatItHas'
  BY <1>1, <1>3, LifecycleAssumption DEF IInv, OwnsWhatItHas, At, OnlyOf, Holds
<1>7. FileAsRead' /\ RowsAreOwn'
  <2> SUFFICES ASSUME ~raced' PROVE FileAsRead' /\ RowsAreOwn'
    BY DEF FileAsRead, RowsAreOwn
  <2>1. ~raced /\ (\A q \in Procs \ {p} : ~At(q, {"dropping", "free", "opening", "writing"}))
    BY <1>1 DEF Acting
  <2>2. \A q \in Procs : ~Holds(q)
    BY <1>1, <2>1, LifecycleAssumption DEF IInv, FileAsRead, Holds, At, Alive, Up
  <2>3. \A q \in Procs : ~Holds(q)'
    BY <1>3, <2>2 DEF Holds, At, OnlyOf
  <2> QED
    BY <1>1, <1>3, <2>1, <2>3 DEF FileAsRead, RowsAreOwn, DatabaseOpen, At, OnlyOf
<1> QED
  BY <1>4, <1>5, <1>6, <1>7 DEF IInv

-----------------------------------------------------------------------------
(* Signals, and closeRuntime.                                              *)

\* What a signal makes of a process: a gateway that handles it begins to close,
\* any other one dies.
LEMMA SignalledAgrees ==
  ASSUME IInv, NEW q \in Procs, Alive(q)
  PROVE  /\ Signalled(q) \in Process
         /\ \/ Signalled(q) = Nobody("killed") /\ ~Handles(q)
            \/ /\ Handles(q)
               /\ Signalled(q) \in {proc[q], [proc[q] EXCEPT !.down = "aborting"]}
               /\ proc[q].down # "no" => Signalled(q) = proc[q]
<1>1. Nobody("killed") \in Process
  BY DEF Process, Nobody, Runs, Kinds, Over, Down
<1>2. [proc[q] EXCEPT !.down = "aborting"] \in Process /\ proc[q] \in Process
  BY DEF IInv, TypeOK, Process, Down
<1> QED
  BY <1>1, <1>2 DEF Signalled


\* The handlers are there from the stage at which a gateway may hold something.
LEMMA HandledFromStart ==
  ASSUME IInv, NEW q \in Procs, Alive(q)
  PROVE  Handles(q) <=> At(q, Started)
<1>1. At(q, Started) => Handles(q)
  BY DEF Handles, At, Started, IInv, StagesAgree
<1>2. Handles(q) => At(q, Started)
  BY DEF Handles, At, Started, Alive, Up, IInv, StagesAgree
<1> QED
  BY <1>1, <1>2

\* Whoever is signalled, or is done with signalling, ends while it holds nothing, or
\* goes on closing: nothing changes hands.
LEMMA SignalsOK ==
  ASSUME IInv, proc' \in [Procs -> Process],
         UNCHANGED <<file, opened, port, rows, stream, faults, raced, late>>,
         \A q \in Procs :
           \/ proc'[q] = proc[q]
           \/ /\ Alive(q) /\ ~At(q, Started)
              /\ proc'[q] \in {Nobody("killed"), Nobody("ended")}
           \/ /\ At(q, Started) /\ proc[q].down = "no"
              /\ proc'[q] = [proc[q] EXCEPT !.down = "aborting"]
  PROVE  IInv'
<1>1. ASSUME NEW q \in Procs, At(q, Started), proc[q].down = "no",
             proc'[q] = [proc[q] EXCEPT !.down = "aborting"]
      PROVE  /\ proc'[q].at = proc[q].at /\ proc'[q].does = proc[q].does
             /\ proc'[q].run = proc[q].run /\ proc'[q].heard = proc[q].heard
             /\ proc'[q].down = "aborting"
  BY <1>1 DEF IInv, TypeOK, Process
<1>2. ASSUME NEW q \in Procs, proc'[q] \in {Nobody("killed"), Nobody("ended")}
      PROVE  proc'[q].at \in Over /\ proc'[q].down = "no" /\ proc'[q].run = "none"
  BY <1>2 DEF Nobody, Over
<1>3. \A q \in Procs : Holds(q)' <=> Holds(q)
  BY <1>1, <1>2 DEF Holds, At, Started, Over
<1>4. TypeOK'
  BY DEF IInv, TypeOK
<1>5. StagesAgree'
  BY <1>1, <1>2 DEF IInv, StagesAgree, At, Started, Over
<1>6. OwnsWhatItHas'
  <2> SUFFICES ASSUME NEW q \in Procs
               PROVE  /\ file = q => Holds(q) \/ At(q, {"killed"})'
                      /\ q \in opened => At(q, {"writing"})'
                      /\ port = q => At(q, {"serving"})'
                      /\ q \in rows => \/ At(q, {"killed"})'
                                       \/ At(q, {"serving"})' /\ proc'[q].down \in {"no", "aborting"}
                                       \/ q \in late
                      /\ stream[q] # "none" =>
                           /\ At(q, {"serving"})'
                           /\ proc'[q].down \in {"no", "aborting", "stopping", "draining"}
    BY <1>3 DEF OwnsWhatItHas
  <2>1. CASE proc'[q] = proc[q]
    BY <2>1 DEF IInv, OwnsWhatItHas, At
  <2>2. CASE At(q, Started) /\ proc[q].down = "no"
             /\ proc'[q] = [proc[q] EXCEPT !.down = "aborting"]
    BY <1>1, <2>2 DEF IInv, OwnsWhatItHas, At, Started
  <2>3. CASE Alive(q) /\ ~At(q, Started)
    BY <2>3 DEF IInv, OwnsWhatItHas, At, Started, Alive, Up, Holds
  <2> QED
    BY <2>1, <2>2, <2>3
<1>7. FileAsRead'
  <2> SUFFICES ASSUME ~raced, NEW q \in Procs
               PROVE  /\ Holds(q) => file = q
                      /\ At(q, {"dropping"})' =>
                           file = "malformed" \/ (file \in Procs /\ ~Alive(file)')
                      /\ At(q, {"free", "opening"})' => file = "missing"
                      /\ At(q, {"writing"})' => file = "malformed" /\ q \in opened
    BY <1>3 DEF FileAsRead
  <2>1. \A r \in Procs : ~Alive(r) => ~Alive(r)'
    BY <1>1, <1>2 DEF Alive, At, Started, Up, Over
  <2>2. proc'[q].at # proc[q].at => proc'[q].at \in Over
    BY <1>1, <1>2
  <2> QED
    BY <2>1, <2>2 DEF IInv, FileAsRead, At, Over
<1>8. RowsAreOwn'
  <2>1. \A q \in Procs : proc'[q].at # proc[q].at => proc'[q].at \in Over
    BY <1>1, <1>2
  <2>2. \A q \in Procs : Holds(q) => proc'[q].run = proc[q].run
    BY <1>1, <1>2, <1>3 DEF Holds, At, Over
  <2>3. ASSUME NEW q \in Procs, DatabaseOpen(q)'
        PROVE  DatabaseOpen(q)
    <3>1. CASE proc'[q] = proc[q]
      BY <2>3, <3>1 DEF DatabaseOpen
    <3>2. CASE proc[q].down = "no"
      BY <3>2 DEF DatabaseOpen
    <3>3. proc[q].down # "no" => At(q, Started)
      BY DEF IInv, StagesAgree
    <3> QED
      BY <3>1, <3>2, <3>3
  <2> QED
    BY <1>3, <2>1, <2>2, <2>3 DEF IInv, RowsAreOwn, At, Over
<1> QED
  BY <1>4, <1>5, <1>6, <1>7, <1>8 DEF IInv

\* Interrupt, of a start in the foreground.
LEMMA InterruptStep ==
  ASSUME IInv, NEW p \in Procs, Interrupt(p)
  PROVE  IInv'
<1>1. /\ Alive(p) /\ proc[p].down = "no" /\ proc' = [proc EXCEPT ![p] = Signalled(p)]
      /\ UNCHANGED <<file, opened, port, rows, stream, faults, raced, late>>
  BY DEF Interrupt
<1>2. Signalled(p) \in Process
      /\ \/ Signalled(p) = Nobody("killed") /\ ~Handles(p)
         \/ Handles(p) /\ Signalled(p) \in {proc[p], [proc[p] EXCEPT !.down = "aborting"]}
  BY <1>1, SignalledAgrees
<1>3. proc' \in [Procs -> Process] /\ OnlyOf(p) /\ proc'[p] = Signalled(p)
  BY <1>1, <1>2 DEF IInv, TypeOK, OnlyOf
<1> QED
  BY <1>1, <1>2, <1>3, HandledFromStart, SignalsOK DEF OnlyOf

\* Stop: the signal reaches the process that the file named, if it lives, whatever
\* that is by now.
LEMMA StopStep ==
  ASSUME IInv, NEW p \in Procs, Stop(p)
  PROVE  IInv'
<1> DEFINE q == proc[p].heard
<1>1. At(p, {"signalling"}) /\ UNCHANGED <<file, opened, port, rows, stream, faults, raced, late>>
  BY DEF Stop
<1>2. /\ Nobody("ended") \in Process /\ q \in Procs
      /\ Alive(p) /\ ~At(p, Started)
  BY <1>1 DEF IInv, StagesAgree, Process, Nobody, Runs, Kinds, Over, Down, Alive, At, Up, Started
<1>3. CASE ~Alive(q)
  <2>1. proc' = [proc EXCEPT ![p] = Nobody("ended")]
    BY <1>3 DEF Stop
  <2> QED
    BY <1>1, <1>2, <2>1, SignalsOK DEF IInv, TypeOK
<1>4. CASE Alive(q)
  <2>1. proc' = [proc EXCEPT ![q] = Signalled(q), ![p] = Nobody("ended")]
    BY <1>4 DEF Stop
  <2>2. Signalled(q) \in Process
        /\ \/ Signalled(q) = Nobody("killed") /\ ~Handles(q)
           \/ Handles(q) /\ Signalled(q) \in {proc[q], [proc[q] EXCEPT !.down = "aborting"]}
                         /\ (proc[q].down # "no" => Signalled(q) = proc[q])
    BY <1>2, <1>4, SignalledAgrees
  <2>3. /\ proc' \in [Procs -> Process]
        /\ proc'[p] = Nobody("ended")
        /\ q # p => proc'[q] = Signalled(q)
        /\ \A r \in Procs \ {p, q} : proc'[r] = proc[r]
    BY <1>2, <2>1, <2>2 DEF IInv, TypeOK
  <2>4. Handles(q) <=> At(q, Started)
    BY <1>2, <1>4, HandledFromStart
  <2> HIDE DEF q
  <2> QED
    BY <1>1, <1>2, <1>4, <2>2, <2>3, <2>4, SignalsOK
<1> QED
  BY <1>3, <1>4

\* A closing goes on: nothing else of the process changes.
LEMMA ClosingGoesOn ==
  ASSUME TypeOK, NEW p \in Procs, NEW from \in Down, NEW to \in Down, Closes(p, from, to)
  PROVE  /\ proc' \in [Procs -> Process] /\ OnlyOf(p) /\ Alive(p) /\ proc[p].down = from
         /\ proc'[p].at = proc[p].at /\ proc'[p].does = proc[p].does
         /\ proc'[p].down = to /\ proc'[p].run = proc[p].run
         /\ proc'[p].heard = proc[p].heard
BY DEF Closes, TypeOK, Process, OnlyOf

\* AbortActive: the run is over and its row finished; a request that has yet to
\* begin one has no row.
LEMMA AbortStep ==
  ASSUME IInv, NEW p \in Procs, AbortActive(p)
  PROVE  IInv'
<1>1. /\ Alive(p) /\ proc[p].down = "aborting" /\ ~At(p, {"opening", "writing"})
      /\ rows' = rows \ {p}
      /\ UNCHANGED <<file, opened, port, stream, faults, raced, late>>
  BY DEF AbortActive
<1> DEFINE me == IF proc[p].run = "begun" THEN Answered(p) ELSE proc[p]
<1>a. /\ me \in Process /\ me.at = proc[p].at /\ me.does = proc[p].does
      /\ me.run = IF proc[p].run = "begun" THEN "none" ELSE proc[p].run
  <2>1. proc[p] \in Process
    BY DEF IInv, TypeOK
  <2>2. /\ Answered(p) \in Process /\ Answered(p).run = "none"
        /\ Answered(p).at = proc[p].at /\ Answered(p).does = proc[p].does
    BY <2>1 DEF Answered, Process, Runs
  <2> QED
    BY <2>1, <2>2
<1>b. proc' = [proc EXCEPT ![p] = [me EXCEPT !.down = "stopping"]]
  BY DEF AbortActive
<1> HIDE DEF me
<1>2. /\ proc' \in [Procs -> Process] /\ OnlyOf(p)
      /\ proc'[p].at = proc[p].at /\ proc'[p].does = proc[p].does
      /\ proc'[p].down = "stopping"
      /\ proc'[p].run = IF proc[p].run = "begun" THEN "none" ELSE proc[p].run
  <2>1. [me EXCEPT !.down = "stopping"] \in Process
    BY <1>a DEF Process, Down
  <2>2. proc' \in [Procs -> Process] /\ OnlyOf(p) /\ proc'[p] = [me EXCEPT !.down = "stopping"]
    BY <1>b, <2>1 DEF IInv, TypeOK, OnlyOf
  <2>3. /\ proc'[p].at = me.at /\ proc'[p].does = me.does
        /\ proc'[p].down = "stopping" /\ proc'[p].run = me.run
    BY <1>a, <2>2 DEF Process
  <2> QED
    BY <1>a, <2>2, <2>3
<1>3. TypeOK'
  BY <1>1, <1>2 DEF IInv, TypeOK
<1>4. StagesAgree'
  BY <1>1, <1>2 DEF IInv, StagesAgree, At, OnlyOf, Started
<1>5. OwnsWhatItHas'
  BY <1>1, <1>2, LifecycleAssumption
     DEF IInv, OwnsWhatItHas, StagesAgree, At, OnlyOf, Holds, Started
<1>6. FileAsRead'
  BY <1>1, <1>2, LifecycleAssumption
     DEF IInv, FileAsRead, OwnsWhatItHas, StagesAgree, At, OnlyOf, Holds, Alive, Up, Started
<1>7. RowsAreOwn'
  BY <1>1, <1>2 DEF IInv, RowsAreOwn, DatabaseOpen, FileAsRead, StagesAgree, At, OnlyOf, Holds, Started
<1> QED
  BY <1>3, <1>4, <1>5, <1>6, <1>7 DEF IInv

\* StopServices: the port is free.
LEMMA StopServicesStep ==
  ASSUME IInv, NEW p \in Procs, StopServices(p)
  PROVE  IInv'
<1>1. /\ port' = IF port = p THEN NoProc ELSE port
      /\ UNCHANGED <<file, opened, rows, stream, faults, raced, late>>
  BY DEF StopServices
<1>2. /\ proc' \in [Procs -> Process] /\ OnlyOf(p) /\ Alive(p) /\ proc[p].down = "stopping"
      /\ proc'[p].at = proc[p].at /\ proc'[p].does = proc[p].does
      /\ proc'[p].down = "draining" /\ proc'[p].run = proc[p].run
      /\ proc'[p].heard = proc[p].heard
  BY ClosingGoesOn DEF StopServices, IInv, Down
<1>3. TypeOK'
  BY <1>1, <1>2 DEF IInv, TypeOK
<1>4. StagesAgree'
  BY <1>1, <1>2 DEF IInv, StagesAgree, At, OnlyOf, Started
<1>5. OwnsWhatItHas'
  BY <1>1, <1>2, LifecycleAssumption
     DEF IInv, OwnsWhatItHas, StagesAgree, At, OnlyOf, Holds, Started
<1>6. FileAsRead'
  BY <1>1, <1>2, LifecycleAssumption
     DEF IInv, FileAsRead, OwnsWhatItHas, StagesAgree, At, OnlyOf, Holds, Alive, Up, Started
<1>7. RowsAreOwn'
  BY <1>1, <1>2 DEF IInv, RowsAreOwn, DatabaseOpen, FileAsRead, StagesAgree, At, OnlyOf, Holds, Started
<1> QED
  BY <1>3, <1>4, <1>5, <1>6, <1>7 DEF IInv

\* CloseDb: with the last connection closed, no stream is left.
LEMMA CloseDbStep ==
  ASSUME IInv, NEW p \in Procs, CloseDb(p)
  PROVE  IInv'
<1>1. stream[p] = "none" /\ UNCHANGED <<file, opened, port, rows, stream, faults, raced, late>>
  BY DEF CloseDb
<1>2. /\ proc' \in [Procs -> Process] /\ OnlyOf(p) /\ Alive(p) /\ proc[p].down = "draining"
      /\ proc'[p].at = proc[p].at /\ proc'[p].does = proc[p].does
      /\ proc'[p].down = "file" /\ proc'[p].run = proc[p].run
      /\ proc'[p].heard = proc[p].heard
  BY ClosingGoesOn DEF CloseDb, IInv, Down
<1>3. TypeOK'
  BY <1>1, <1>2 DEF IInv, TypeOK
<1>4. StagesAgree'
  BY <1>1, <1>2 DEF IInv, StagesAgree, At, OnlyOf, Started
<1>5. OwnsWhatItHas'
  BY <1>1, <1>2, LifecycleAssumption
     DEF IInv, OwnsWhatItHas, StagesAgree, At, OnlyOf, Holds, Started
<1>6. FileAsRead'
  BY <1>1, <1>2, LifecycleAssumption
     DEF IInv, FileAsRead, OwnsWhatItHas, StagesAgree, At, OnlyOf, Holds, Alive, Up, Started
<1>7. RowsAreOwn'
  BY <1>1, <1>2 DEF IInv, RowsAreOwn, DatabaseOpen, FileAsRead, StagesAgree, At, OnlyOf, Holds, Started
<1> QED
  BY <1>3, <1>4, <1>5, <1>6, <1>7 DEF IInv

\* CloseFile: unless the file was raced for, it is the gateway's own, and with it
\* the last one goes.
LEMMA CloseFileStep ==
  ASSUME IInv, NEW p \in Procs, CloseFile(p)
  PROVE  IInv'
<1>1. /\ file' = "missing" /\ opened' = {} /\ raced' = (raced \/ Acting \ {p} # {})
      /\ UNCHANGED <<port, rows, stream, faults, late>>
  BY DEF CloseFile, RemovePid, Leaves
<1>2. /\ proc' \in [Procs -> Process] /\ OnlyOf(p) /\ Alive(p) /\ proc[p].down = "file"
      /\ proc'[p].at = proc[p].at /\ proc'[p].does = proc[p].does
      /\ proc'[p].down = "closed" /\ proc'[p].run = proc[p].run
      /\ proc'[p].heard = proc[p].heard
  BY ClosingGoesOn DEF CloseFile, IInv, Down
<1>3. TypeOK'
  BY <1>1, <1>2 DEF IInv, TypeOK
<1>4. StagesAgree'
  BY <1>1, <1>2 DEF IInv, StagesAgree, At, OnlyOf, Started
<1>5. OwnsWhatItHas'
  BY <1>1, <1>2, LifecycleAssumption DEF IInv, OwnsWhatItHas, At, OnlyOf, Holds
<1>6. FileAsRead' /\ RowsAreOwn'
  <2> SUFFICES ASSUME ~raced' PROVE FileAsRead' /\ RowsAreOwn'
    BY DEF FileAsRead, RowsAreOwn
  <2>1. ~raced /\ (\A q \in Procs \ {p} : ~At(q, {"dropping", "free", "opening", "writing"}))
    BY <1>1 DEF Acting
  <2>2. Holds(p) /\ file = p
    BY <1>2, <2>1 DEF IInv, StagesAgree, FileAsRead, Holds, At, Started
  <2>3. \A q \in Procs : ~Holds(q)'
    BY <1>2, <2>1, <2>2 DEF IInv, FileAsRead, Holds, At, OnlyOf
  <2>4. ~At(p, {"dropping", "free", "opening", "writing"})
    BY <2>2 DEF Holds, At
  <2> QED
    BY <1>1, <1>2, <2>1, <2>3, <2>4 DEF FileAsRead, RowsAreOwn, DatabaseOpen, At, OnlyOf
<1> QED
  BY <1>3, <1>4, <1>5, <1>6 DEF IInv

-----------------------------------------------------------------------------
(* start.                                                                  *)

\* Spawn: a process that holds nothing ends, another one begins.
LEMMA SpawnStep ==
  ASSUME IInv, NEW p \in Procs, NEW q \in Procs, Spawn(p, q)
  PROVE  IInv'
<1>1. /\ At(p, {"free"}) /\ At(q, {"unused"})
      /\ UNCHANGED <<file, opened, port, rows, stream, faults, raced, late>>
      /\ proc' = [proc EXCEPT ![p] = Nobody("ended"),
                              ![q] = [proc[q] EXCEPT !.does = "serve", !.at = "typed"]]
  BY DEF Spawn, At
<1>2. Nobody("ended") \in Process /\ [proc[q] EXCEPT !.does = "serve", !.at = "typed"] \in Process
  <2>1. Nobody("ended") \in Process
    BY DEF Process, Nobody, Runs, Kinds, Over, Down
  <2>2. [proc[q] EXCEPT !.does = "serve", !.at = "typed"] \in Process
    BY DEF IInv, TypeOK, Process, Kinds, Up
  <2> QED
    BY <2>1, <2>2
<1>3. proc[q].down = "no" /\ proc[q].run = "none"
  BY <1>1 DEF IInv, TypeOK, Process, StagesAgree, At, Started
<1>4. /\ proc' \in [Procs -> Process]
      /\ proc'[p].at = "ended" /\ proc'[p].down = "no" /\ proc'[p].run = "none"
      /\ proc'[q].at = "typed" /\ proc'[q].down = "no" /\ proc'[q].run = "none"
      /\ \A r \in Procs \ {p, q} : proc'[r] = proc[r]
  BY <1>1, <1>2, <1>3 DEF IInv, TypeOK, Process, At, Nobody
<1>5. TypeOK'
  BY <1>1, <1>4 DEF IInv, TypeOK
<1>6. StagesAgree'
  BY <1>1, <1>4 DEF IInv, StagesAgree, At, OnlyOf, Started
<1>7. OwnsWhatItHas'
  BY <1>1, <1>4, LifecycleAssumption
     DEF IInv, OwnsWhatItHas, StagesAgree, At, OnlyOf, Holds, Started
<1>8. FileAsRead'
  BY <1>1, <1>4, LifecycleAssumption
     DEF IInv, FileAsRead, OwnsWhatItHas, StagesAgree, At, OnlyOf, Holds, Alive, Up, Started
<1>9. RowsAreOwn'
  BY <1>1, <1>4 DEF IInv, RowsAreOwn, DatabaseOpen, FileAsRead, StagesAgree, At, OnlyOf, Holds, Started
<1> QED
  BY <1>5, <1>6, <1>7, <1>8, <1>9 DEF IInv

\* Assemble: the file is still missing; if it fails nothing is held.
LEMMA AssembleStep ==
  ASSUME IInv, NEW p \in Procs, Assemble(p)
  PROVE  IInv'
<1>1. /\ At(p, {"free"}) /\ proc[p].does = "serve"
      /\ UNCHANGED <<file, opened, port, rows, stream, raced, late>> /\ faults' \in 0..MaxFaults
  BY LifecycleAssumption DEF Assemble, Fault, IInv, TypeOK
<1>2. proc[p].down = "no" /\ proc[p].run = "none"
  BY <1>1 DEF IInv, TypeOK, Process, StagesAgree, At, Started
<1>3. /\ proc' \in [Procs -> Process] /\ OnlyOf(p) /\ proc'[p].down = "no" /\ proc'[p].run = "none"
      /\ \/ proc'[p].at = "opening" /\ proc'[p].does = "serve"
         \/ proc'[p].at = "ended"
  <2>1. CASE Goes(p, "opening")
    BY <1>1, <1>2, <2>1, GoesOn DEF Up, IInv
  <2>2. CASE Goes(p, "ended")
    BY <2>2, GoesAway DEF Goes, Staged, Over, IInv
  <2> QED
    BY <2>1, <2>2 DEF Assemble
<1>4. TypeOK'
  BY <1>1, <1>3 DEF IInv, TypeOK
<1>5. StagesAgree'
  BY <1>1, <1>3 DEF IInv, StagesAgree, At, OnlyOf, Started
<1>6. OwnsWhatItHas'
  BY <1>1, <1>3, LifecycleAssumption
     DEF IInv, OwnsWhatItHas, StagesAgree, At, OnlyOf, Holds, Started
<1>7. FileAsRead'
  BY <1>1, <1>3, LifecycleAssumption
     DEF IInv, FileAsRead, OwnsWhatItHas, StagesAgree, At, OnlyOf, Holds, Alive, Up, Started
<1>8. RowsAreOwn'
  BY <1>1, <1>3 DEF IInv, RowsAreOwn, DatabaseOpen, FileAsRead, StagesAgree, At, OnlyOf, Holds, Started
<1> QED
  BY <1>4, <1>5, <1>6, <1>7, <1>8 DEF IInv

\* OpenPid: the file had been missing, unless it was raced for.
LEMMA OpenPidStep ==
  ASSUME IInv, NEW p \in Procs, OpenPid(p)
  PROVE  IInv'
<1>1. /\ At(p, {"opening"}) /\ Goes(p, "writing")
      /\ file' = "malformed" /\ opened' = opened \cup {p}
      /\ raced' = (raced \/ Acting \ {p} # {})
      /\ UNCHANGED <<port, rows, stream, faults, late>>
  BY DEF OpenPid, Leaves
<1>2. /\ proc' \in [Procs -> Process] /\ OnlyOf(p) /\ proc'[p].at = "writing"
      /\ proc'[p].does = proc[p].does /\ proc'[p].down = proc[p].down
      /\ proc'[p].run = proc[p].run
  BY <1>1, GoesOn DEF Up, IInv
<1>3. TypeOK'
  BY <1>1, <1>2 DEF IInv, TypeOK
<1>4. StagesAgree'
  BY <1>1, <1>2 DEF IInv, StagesAgree, At, OnlyOf, Started
<1>5. OwnsWhatItHas'
  BY <1>1, <1>2, LifecycleAssumption DEF IInv, OwnsWhatItHas, At, OnlyOf, Holds
<1>6. FileAsRead' /\ RowsAreOwn'
  <2> SUFFICES ASSUME ~raced' PROVE FileAsRead' /\ RowsAreOwn'
    BY DEF FileAsRead, RowsAreOwn
  <2>1. ~raced /\ (\A q \in Procs \ {p} : ~At(q, {"dropping", "free", "opening", "writing"}))
    BY <1>1 DEF Acting
  <2>2. file = "missing"
    BY <1>1, <2>1 DEF IInv, FileAsRead, At
  <2>3. \A q \in Procs : ~Holds(q)'
    BY <1>2, <2>1, <2>2, LifecycleAssumption DEF IInv, FileAsRead, Holds, At, OnlyOf
  <2> QED
    BY <1>1, <1>2, <2>1, <2>3 DEF FileAsRead, RowsAreOwn, DatabaseOpen, At, OnlyOf
<1> QED
  BY <1>3, <1>4, <1>5, <1>6 DEF IInv

\* WritePid: it is the one process whose pid the file can have.
LEMMA WritePidStep ==
  ASSUME IInv, NEW p \in Procs, WritePid(p)
  PROVE  IInv'
<1>1. /\ At(p, {"writing"}) /\ Goes(p, "reconciling")
      /\ UNCHANGED <<port, rows, stream, faults, late>>
      /\ \/ /\ p \in opened /\ file' = p /\ opened' = opened \ {p}
            /\ raced' = (raced \/ Acting \ {p} # {})
         \/ p \notin opened /\ UNCHANGED <<file, opened, raced>>
  BY DEF WritePid, Leaves
<1>2. /\ proc' \in [Procs -> Process] /\ OnlyOf(p) /\ proc'[p].at = "reconciling"
      /\ proc'[p].does = proc[p].does /\ proc'[p].down = proc[p].down
      /\ proc'[p].run = proc[p].run
  BY <1>1, GoesOn DEF Up, IInv
<1>3. proc[p].down \in {"no", "aborting"} /\ proc[p].run = "none"
  BY <1>1 DEF IInv, StagesAgree, At
<1>4. TypeOK'
  BY <1>1, <1>2 DEF IInv, TypeOK
<1>5. StagesAgree'
  BY <1>1, <1>2 DEF IInv, StagesAgree, At, OnlyOf, Started
<1>6. OwnsWhatItHas'
  BY <1>1, <1>2, <1>3, LifecycleAssumption DEF IInv, OwnsWhatItHas, At, OnlyOf, Holds
<1>7. FileAsRead' /\ RowsAreOwn'
  <2> SUFFICES ASSUME ~raced' PROVE FileAsRead' /\ RowsAreOwn'
    BY DEF FileAsRead, RowsAreOwn
  <2>0. ~raced
    BY <1>1
  <2>1. ~raced /\ p \in opened /\ file = "malformed"
    BY <1>1, <2>0 DEF IInv, FileAsRead, At
  <2>2. \A q \in Procs \ {p} : ~At(q, {"dropping", "free", "opening", "writing"})
    BY <1>1, <2>1 DEF Acting
  <2>3. \A q \in Procs : ~Holds(q)
    BY <2>1, LifecycleAssumption DEF IInv, FileAsRead
  <2>4. \A q \in Procs \ {p} : ~Holds(q)'
    BY <1>2, <2>3 DEF Holds, At, OnlyOf
  <2> QED
    BY <1>1, <1>2, <2>1, <2>2, <2>4 DEF FileAsRead, RowsAreOwn, DatabaseOpen, At, OnlyOf
<1> QED
  BY <1>4, <1>5, <1>6, <1>7 DEF IInv

\* A hook of listen: the gateway goes on, or fails, and holds what it held.
LEMMA HookMoves ==
  ASSUME IInv, NEW p \in Procs, NEW from \in Up, NEW to \in Up, Hook(p, from, to)
  PROVE  /\ proc' \in [Procs -> Process] /\ OnlyOf(p)
         /\ proc[p].at = from /\ proc'[p].at \in {to, "failing"}
         /\ proc'[p].at = to => to = "failing" \/ DatabaseOpen(p)
         /\ proc'[p].does = proc[p].does /\ proc'[p].down = proc[p].down
         /\ proc'[p].run = proc[p].run /\ proc'[p].heard = proc[p].heard
         /\ faults' \in 0..MaxFaults
<1>1. faults' \in 0..MaxFaults
  BY LifecycleAssumption DEF Hook, Fault, IInv, TypeOK
<1>2. proc[p].at = from
  BY DEF Hook, At
<1>3. CASE DatabaseOpen(p) /\ Goes(p, to)
  BY <1>1, <1>2, <1>3, GoesOn DEF IInv
<1>4. CASE Goes(p, "failing")
  BY <1>1, <1>2, <1>4, GoesOn DEF IInv, Up
<1> QED
  BY <1>3, <1>4 DEF Hook

\* Reconcile: every row is finished, and no other gateway serves.
LEMMA ReconcileStep ==
  ASSUME IInv, NEW p \in Procs, Reconcile(p)
  PROVE  IInv'
<1>1. /\ rows' = IF proc'[p].at = "sweeping" THEN {} ELSE rows
      /\ UNCHANGED <<file, opened, port, stream, raced, late>>
  BY DEF Reconcile, Interrupts
<1>2. /\ proc' \in [Procs -> Process] /\ OnlyOf(p)
      /\ proc[p].at = "reconciling" /\ proc'[p].at \in {"sweeping", "failing"}
      /\ proc'[p].at = "sweeping" => proc[p].down # "closed"
      /\ proc'[p].does = proc[p].does /\ proc'[p].down = proc[p].down
      /\ proc'[p].run = proc[p].run
      /\ faults' \in 0..MaxFaults
  BY HookMoves DEF Reconcile, Up, DatabaseOpen
<1>3. TypeOK'
  BY <1>1, <1>2 DEF IInv, TypeOK
<1>4. StagesAgree'
  BY <1>1, <1>2 DEF IInv, StagesAgree, At, OnlyOf, Started
<1>5. OwnsWhatItHas'
  BY <1>1, <1>2, LifecycleAssumption
     DEF IInv, OwnsWhatItHas, StagesAgree, At, OnlyOf, Holds, Started
<1>6. FileAsRead'
  BY <1>1, <1>2, LifecycleAssumption
     DEF IInv, FileAsRead, OwnsWhatItHas, StagesAgree, At, OnlyOf, Holds, Alive, Up, Started
<1>7. RowsAreOwn'
  <2> SUFFICES ASSUME ~raced, NEW q \in Procs, Holds(q)', DatabaseOpen(q)',
                      At(q, {"sweeping", "scanning", "binding", "serving"})'
               PROVE  rows' = IF proc'[q].run = "begun" THEN {q} ELSE {}
    BY <1>1 DEF RowsAreOwn
  <2>1. CASE proc'[p].at = "failing"
    BY <1>1, <1>2, <2>1 DEF IInv, RowsAreOwn, DatabaseOpen, At, Holds, OnlyOf
  <2>2. CASE proc'[p].at = "sweeping"
    <3>1. Holds(p) /\ proc[p].run = "none"
      BY <1>2, <2>2 DEF IInv, StagesAgree, Holds, At
    <3>2. q = p
      BY <1>2, <3>1 DEF IInv, FileAsRead, Holds, At, OnlyOf
    <3> QED
      BY <1>1, <1>2, <2>2, <3>1, <3>2
  <2> QED
    BY <1>2, <2>1, <2>2
<1> QED
  BY <1>3, <1>4, <1>5, <1>6, <1>7 DEF IInv

\* Sweep.
LEMMA SweepStep ==
  ASSUME IInv, NEW p \in Procs, Sweep(p)
  PROVE  IInv'
<1>1. UNCHANGED <<file, opened, port, rows, stream, raced, late>>
  BY DEF Sweep
<1>2. /\ proc' \in [Procs -> Process] /\ OnlyOf(p)
      /\ proc[p].at = "sweeping" /\ proc'[p].at \in {"scanning", "failing"}
      /\ proc'[p].does = proc[p].does /\ proc'[p].down = proc[p].down
      /\ proc'[p].run = proc[p].run
      /\ faults' \in 0..MaxFaults
  BY HookMoves DEF Sweep, Up
<1>3. TypeOK'
  BY <1>1, <1>2 DEF IInv, TypeOK
<1>4. StagesAgree'
  BY <1>1, <1>2 DEF IInv, StagesAgree, At, OnlyOf, Started
<1>5. OwnsWhatItHas'
  BY <1>1, <1>2, LifecycleAssumption
     DEF IInv, OwnsWhatItHas, StagesAgree, At, OnlyOf, Holds, Started
<1>6. FileAsRead'
  BY <1>1, <1>2, LifecycleAssumption
     DEF IInv, FileAsRead, OwnsWhatItHas, StagesAgree, At, OnlyOf, Holds, Alive, Up, Started
<1>7. RowsAreOwn'
  BY <1>1, <1>2 DEF IInv, RowsAreOwn, DatabaseOpen, FileAsRead, StagesAgree, At, OnlyOf, Holds, Started
<1> QED
  BY <1>3, <1>4, <1>5, <1>6, <1>7 DEF IInv

\* Scan.
LEMMA ScanStep ==
  ASSUME IInv, NEW p \in Procs, Scan(p)
  PROVE  IInv'
<1>1. UNCHANGED <<file, opened, port, rows, stream, raced, late>>
  BY DEF Scan
<1>2. /\ proc' \in [Procs -> Process] /\ OnlyOf(p)
      /\ proc[p].at = "scanning" /\ proc'[p].at \in {"binding", "failing"}
      /\ proc'[p].does = proc[p].does /\ proc'[p].down = proc[p].down
      /\ proc'[p].run = proc[p].run
      /\ faults' \in 0..MaxFaults
  BY HookMoves DEF Scan, Up
<1>3. TypeOK'
  BY <1>1, <1>2 DEF IInv, TypeOK
<1>4. StagesAgree'
  BY <1>1, <1>2 DEF IInv, StagesAgree, At, OnlyOf, Started
<1>5. OwnsWhatItHas'
  BY <1>1, <1>2, LifecycleAssumption
     DEF IInv, OwnsWhatItHas, StagesAgree, At, OnlyOf, Holds, Started
<1>6. FileAsRead'
  BY <1>1, <1>2, LifecycleAssumption
     DEF IInv, FileAsRead, OwnsWhatItHas, StagesAgree, At, OnlyOf, Holds, Alive, Up, Started
<1>7. RowsAreOwn'
  BY <1>1, <1>2 DEF IInv, RowsAreOwn, DatabaseOpen, FileAsRead, StagesAgree, At, OnlyOf, Holds, Started
<1> QED
  BY <1>3, <1>4, <1>5, <1>6, <1>7 DEF IInv

\* Bind: the port was free.
LEMMA BindStep ==
  ASSUME IInv, NEW p \in Procs, Bind(p)
  PROVE  IInv'
<1>1. /\ proc[p].at = "binding" /\ UNCHANGED <<file, opened, rows, stream, faults, raced, late>>
      /\ \/ port = NoProc /\ port' = p /\ Goes(p, "serving")
         \/ port' = port /\ Goes(p, "failing")
  BY DEF Bind, At
<1>2. /\ proc' \in [Procs -> Process] /\ OnlyOf(p)
      /\ \/ port = NoProc /\ port' = p /\ proc'[p].at = "serving"
         \/ port' = port /\ proc'[p].at = "failing"
      /\ proc'[p].does = proc[p].does /\ proc'[p].down = proc[p].down
      /\ proc'[p].run = proc[p].run
  BY <1>1, GoesOn DEF IInv, Up
<1>3. TypeOK'
  BY <1>1, <1>2 DEF IInv, TypeOK
<1>4. StagesAgree'
  BY <1>1, <1>2 DEF IInv, StagesAgree, At, OnlyOf, Started
<1>5. OwnsWhatItHas'
  BY <1>1, <1>2, LifecycleAssumption
     DEF IInv, OwnsWhatItHas, StagesAgree, At, OnlyOf, Holds, Started
<1>6. FileAsRead'
  BY <1>1, <1>2, LifecycleAssumption
     DEF IInv, FileAsRead, OwnsWhatItHas, StagesAgree, At, OnlyOf, Holds, Alive, Up, Started
<1>7. RowsAreOwn'
  BY <1>1, <1>2 DEF IInv, RowsAreOwn, DatabaseOpen, FileAsRead, StagesAgree, At, OnlyOf, Holds, Started
<1> QED
  BY <1>3, <1>4, <1>5, <1>6, <1>7 DEF IInv

\* Unwind.
LEMMA UnwindStep ==
  ASSUME IInv, NEW p \in Procs, Unwind(p)
  PROVE  IInv'
<1>1. At(p, {"failing"}) /\ UNCHANGED <<file, opened, port, rows, stream, faults, raced, late>>
  BY DEF Unwind
<1>2. /\ proc' \in [Procs -> Process] /\ OnlyOf(p) /\ Alive(p) /\ proc[p].down = "no"
      /\ proc'[p].at = proc[p].at /\ proc'[p].does = proc[p].does
      /\ proc'[p].down = "aborting" /\ proc'[p].run = proc[p].run
      /\ proc'[p].heard = proc[p].heard
  BY ClosingGoesOn DEF Unwind, IInv, Down
<1>3. TypeOK'
  BY <1>1, <1>2 DEF IInv, TypeOK
<1>4. StagesAgree'
  BY <1>1, <1>2 DEF IInv, StagesAgree, At, OnlyOf, Started
<1>5. OwnsWhatItHas'
  BY <1>1, <1>2, LifecycleAssumption
     DEF IInv, OwnsWhatItHas, StagesAgree, At, OnlyOf, Holds, Started
<1>6. FileAsRead'
  BY <1>1, <1>2, LifecycleAssumption
     DEF IInv, FileAsRead, OwnsWhatItHas, StagesAgree, At, OnlyOf, Holds, Alive, Up, Started
<1>7. RowsAreOwn'
  BY <1>1, <1>2 DEF IInv, RowsAreOwn, DatabaseOpen, FileAsRead, StagesAgree, At, OnlyOf, Holds, Started
<1> QED
  BY <1>3, <1>4, <1>5, <1>6, <1>7 DEF IInv

\* Exit: the file is not the process's own any more.
LEMMA ExitStep ==
  ASSUME IInv, NEW p \in Procs, Exit(p)
  PROVE  IInv'
<1>1. /\ At(p, {"serving", "failing"}) /\ proc[p].down = "closed" /\ Goes(p, "ended")
      /\ port' = IF port = p THEN NoProc ELSE port
      /\ UNCHANGED <<file, opened, rows, stream, faults, raced, late>>
  BY DEF Exit
<1>2. /\ proc' \in [Procs -> Process] /\ OnlyOf(p)
      /\ proc'[p].at = "ended" /\ proc'[p].down = "no" /\ proc'[p].run = "none"
  BY <1>1, GoesAway DEF Goes, Staged, Over, IInv
<1>3. TypeOK'
  BY <1>1, <1>2 DEF IInv, TypeOK
<1>4. StagesAgree'
  BY <1>1, <1>2 DEF IInv, StagesAgree, At, OnlyOf, Started
<1>5. OwnsWhatItHas'
  BY <1>1, <1>2, LifecycleAssumption
     DEF IInv, OwnsWhatItHas, StagesAgree, At, OnlyOf, Holds, Started
<1>6. FileAsRead'
  BY <1>1, <1>2, LifecycleAssumption
     DEF IInv, FileAsRead, OwnsWhatItHas, StagesAgree, At, OnlyOf, Holds, Alive, Up, Started
<1>7. RowsAreOwn'
  BY <1>1, <1>2 DEF IInv, RowsAreOwn, DatabaseOpen, FileAsRead, StagesAgree, At, OnlyOf, Holds, Started
<1> QED
  BY <1>3, <1>4, <1>5, <1>6, <1>7 DEF IInv

-----------------------------------------------------------------------------
(* What a gateway serves, and kill -9.                                     *)

\* Route and Leave: nothing is in the database yet, or nothing changes in it.
LEMMA RequestStep ==
  ASSUME IInv, NEW p \in Procs, Route(p) \/ Leave(p)
  PROVE  IInv'
<1>1. /\ \/ /\ At(p, {"serving"}) /\ proc[p].down = "no" /\ proc[p].run = "none"
            /\ proc' = [proc EXCEPT ![p] = [proc[p] EXCEPT !.run = "routed"]]
         \/ proc' = [proc EXCEPT ![p] = [proc[p] EXCEPT !.left = TRUE]]
      /\ UNCHANGED <<file, opened, port, rows, stream, faults, raced, late>>
  BY DEF Route, Leave, Serves
<1>2. /\ proc' \in [Procs -> Process] /\ OnlyOf(p)
      /\ proc'[p].at = proc[p].at /\ proc'[p].does = proc[p].does
      /\ proc'[p].down = proc[p].down /\ proc'[p].heard = proc[p].heard
      /\ \/ proc'[p].run = proc[p].run
         \/ At(p, {"serving"}) /\ proc[p].run = "none" /\ proc'[p].run = "routed"
  <2>1. CASE proc' = [proc EXCEPT ![p] = [proc[p] EXCEPT !.left = TRUE]]
    BY <2>1 DEF IInv, TypeOK, Process, OnlyOf
  <2>2. CASE /\ At(p, {"serving"}) /\ proc[p].run = "none"
             /\ proc' = [proc EXCEPT ![p] = [proc[p] EXCEPT !.run = "routed"]]
    BY <2>2 DEF IInv, TypeOK, Process, Runs, OnlyOf
  <2> QED
    BY <1>1, <2>1, <2>2
<1>3. TypeOK'
  BY <1>1, <1>2 DEF IInv, TypeOK
<1>4. StagesAgree'
  BY <1>1, <1>2 DEF IInv, StagesAgree, At, OnlyOf, Started
<1>5. OwnsWhatItHas'
  BY <1>1, <1>2, LifecycleAssumption
     DEF IInv, OwnsWhatItHas, StagesAgree, At, OnlyOf, Holds, Started
<1>6. FileAsRead'
  BY <1>1, <1>2, LifecycleAssumption
     DEF IInv, FileAsRead, OwnsWhatItHas, StagesAgree, At, OnlyOf, Holds, Alive, Up, Started
<1>7. RowsAreOwn'
  BY <1>1, <1>2 DEF IInv, RowsAreOwn, DatabaseOpen, FileAsRead, StagesAgree, At, OnlyOf, Holds, Started
<1> QED
  BY <1>3, <1>4, <1>5, <1>6, <1>7 DEF IInv

\* BeginRun: the row joins those of a gateway that has none; a late one is noted.
LEMMA BeginRunStep ==
  ASSUME IInv, NEW p \in Procs, BeginRun(p)
  PROVE  IInv'
<1>1. /\ proc[p].run = "routed" /\ DatabaseOpen(p)
      /\ proc' = [proc EXCEPT ![p] = [proc[p] EXCEPT !.run = "begun"]]
      /\ rows' = rows \cup {p}
      /\ late' = IF proc[p].down \in {"stopping", "draining"} THEN late \cup {p} ELSE late
      /\ UNCHANGED <<file, opened, port, stream, faults, raced>>
  BY DEF BeginRun
<1>2. /\ proc' \in [Procs -> Process] /\ OnlyOf(p)
      /\ proc'[p].at = proc[p].at /\ proc'[p].does = proc[p].does
      /\ proc'[p].down = proc[p].down /\ proc'[p].run = "begun"
      /\ proc'[p].heard = proc[p].heard
  BY <1>1 DEF IInv, TypeOK, Process, Runs, OnlyOf
<1>8. /\ proc[p].at = "serving"
      /\ proc[p].down \in {"no", "aborting"} \/ p \in late'
  BY <1>1 DEF IInv, TypeOK, Process, Down, StagesAgree, At, DatabaseOpen
<1>3. TypeOK'
  BY <1>1, <1>2 DEF IInv, TypeOK
<1>4. StagesAgree'
  BY <1>1, <1>2, <1>8 DEF IInv, StagesAgree, At, OnlyOf, Started
<1>5. OwnsWhatItHas'
  BY <1>1, <1>2, <1>8, LifecycleAssumption
     DEF IInv, OwnsWhatItHas, StagesAgree, At, OnlyOf, Holds, Started
<1>6. FileAsRead'
  BY <1>1, <1>2, <1>8, LifecycleAssumption
     DEF IInv, FileAsRead, OwnsWhatItHas, StagesAgree, At, OnlyOf, Holds, Alive, Up, Started
<1>7. RowsAreOwn'
  BY <1>1, <1>2, <1>8 DEF IInv, RowsAreOwn, DatabaseOpen, FileAsRead, StagesAgree, At, OnlyOf, Holds, Started
<1> QED
  BY <1>3, <1>4, <1>5, <1>6, <1>7 DEF IInv

\* EndRun: the row is finished, unless the database is closed.
LEMMA EndRunStep ==
  ASSUME IInv, NEW p \in Procs, EndRun(p)
  PROVE  IInv'
<1>1. /\ proc[p].run # "none"
      /\ proc' = [proc EXCEPT ![p] = [proc[p] EXCEPT !.run = "none", !.left = FALSE]]
      /\ rows' = IF DatabaseOpen(p) THEN rows \ {p} ELSE rows
      /\ UNCHANGED <<file, opened, port, stream, faults, raced, late>>
  BY DEF EndRun, Answered
<1>2. /\ proc' \in [Procs -> Process] /\ OnlyOf(p)
      /\ proc'[p].at = proc[p].at /\ proc'[p].does = proc[p].does
      /\ proc'[p].down = proc[p].down /\ proc'[p].run = "none" /\ proc'[p].heard = proc[p].heard
  BY <1>1 DEF IInv, TypeOK, Process, Runs, OnlyOf
<1>3. TypeOK'
  BY <1>1, <1>2 DEF IInv, TypeOK
<1>4. StagesAgree'
  BY <1>1, <1>2 DEF IInv, StagesAgree, At, OnlyOf, Started
<1>5. OwnsWhatItHas'
  BY <1>1, <1>2, LifecycleAssumption
     DEF IInv, OwnsWhatItHas, StagesAgree, At, OnlyOf, Holds, Started
<1>6. FileAsRead'
  BY <1>1, <1>2, LifecycleAssumption
     DEF IInv, FileAsRead, OwnsWhatItHas, StagesAgree, At, OnlyOf, Holds, Alive, Up, Started
<1>7. RowsAreOwn'
  <2> SUFFICES ASSUME ~raced, NEW q \in Procs, Holds(q)', DatabaseOpen(q)',
                      At(q, {"sweeping", "scanning", "binding", "serving"})'
               PROVE  rows' = IF proc'[q].run = "begun" THEN {q} ELSE {}
    BY <1>1 DEF RowsAreOwn
  <2>1. Holds(q) /\ DatabaseOpen(q) /\ At(q, {"sweeping", "scanning", "binding", "serving"})
    BY <1>2 DEF Holds, DatabaseOpen, At, OnlyOf
  <2>2. rows = IF proc[q].run = "begun" THEN {q} ELSE {}
    BY <2>1 DEF IInv, RowsAreOwn
  <2>3. CASE q = p
    BY <1>1, <1>2, <2>1, <2>2, <2>3
  <2>4. CASE q # p
    <3>1. ~Holds(p)
      BY <2>1, <2>4 DEF IInv, FileAsRead
    <3>2. ~DatabaseOpen(p)
      BY <1>1, <3>1 DEF IInv, StagesAgree, Holds, At, DatabaseOpen
    <3> QED
      BY <1>1, <1>2, <2>2, <2>4, <3>2 DEF OnlyOf
  <2> QED
    BY <2>3, <2>4
<1> QED
  BY <1>3, <1>4, <1>5, <1>6, <1>7 DEF IInv

\* Watch, Proxy and Unwatch: only a gateway that serves is watched, and one that is
\* not closed yet goes on being so.
LEMMA StreamStep ==
  ASSUME IInv, NEW p \in Procs, Watch(p) \/ Proxy(p) \/ Unwatch(p)
  PROVE  IInv'
<1>1. PICK to \in Streams :
        /\ stream' = [stream EXCEPT ![p] = to]
        /\ Serves(p) \/ stream[p] # "none"
        /\ UNCHANGED <<proc, file, opened, port, rows, faults, raced, late>>
  BY DEF Watch, Proxy, Unwatch, Turns, Streams
<1>2. TypeOK'
  BY <1>1 DEF IInv, TypeOK
<1>3. StagesAgree' /\ FileAsRead' /\ RowsAreOwn'
  BY <1>1 DEF IInv, StagesAgree, FileAsRead, RowsAreOwn, DatabaseOpen, At, Holds, Alive
<1>4. OwnsWhatItHas'
  BY <1>1 DEF IInv, TypeOK, OwnsWhatItHas, At, Holds, Serves
<1> QED
  BY <1>2, <1>3, <1>4 DEF IInv

\* Crash: the file and the row are left, of a process that is dead.
LEMMA CrashStep ==
  ASSUME IInv, NEW p \in Procs, Crash(p)
  PROVE  IInv'
<1>1. /\ Alive(p) /\ faults' \in 0..MaxFaults
      /\ opened' = opened \ {p} /\ port' = IF port = p THEN NoProc ELSE port
      /\ stream' = [stream EXCEPT ![p] = "none"]
      /\ UNCHANGED <<file, rows, raced, late>>
  BY LifecycleAssumption DEF Crash, Fault, IInv, TypeOK
<1>2. /\ proc' \in [Procs -> Process] /\ OnlyOf(p)
      /\ proc'[p].at = "killed" /\ proc'[p].down = "no" /\ proc'[p].run = "none"
  BY GoesAway DEF Crash, Over, IInv
<1>3. stream' \in [Procs -> Streams] /\ stream'[p] = "none"
      /\ \A q \in Procs \ {p} : stream'[q] = stream[q]
  BY <1>1 DEF IInv, TypeOK, Streams
<1>4. TypeOK'
  BY <1>1, <1>2, <1>3 DEF IInv, TypeOK
<1>5. StagesAgree'
  BY <1>1, <1>2, <1>3 DEF IInv, StagesAgree, At, OnlyOf, Started
<1>6. OwnsWhatItHas'
  BY <1>1, <1>2, <1>3, LifecycleAssumption
     DEF IInv, OwnsWhatItHas, StagesAgree, At, OnlyOf, Holds, Started
<1>7. FileAsRead'
  BY <1>1, <1>2, <1>3, LifecycleAssumption
     DEF IInv, FileAsRead, OwnsWhatItHas, StagesAgree, At, OnlyOf, Holds, Alive, Up, Started
<1>8. RowsAreOwn'
  BY <1>1, <1>2, <1>3 DEF IInv, RowsAreOwn, DatabaseOpen, FileAsRead, StagesAgree, At, OnlyOf, Holds, Started
<1> QED
  BY <1>4, <1>5, <1>6, <1>7, <1>8 DEF IInv

-----------------------------------------------------------------------------
(* The theorems.                                                           *)

\* Every step keeps the invariant, whoever makes it.
LEMMA StepOK ==
  ASSUME IInv, [Next]_vars
  PROVE  IInv'
<1>1. CASE UNCHANGED vars
  BY <1>1 DEF vars, IInv, TypeOK, StagesAgree, OwnsWhatItHas, FileAsRead, RowsAreOwn,
     At, Holds, Alive, DatabaseOpen
<1>2. ASSUME NEW p \in Procs, User(p)
      PROVE  IInv'
  BY <1>2, TypeStep, InterruptStep, StreamStep, RequestStep DEF User
<1>3. ASSUME NEW p \in Procs, Command(p)
      PROVE  IInv'
  BY <1>3, LookStep, ReadStep, DropStep, StopStep, SpawnStep, AssembleStep, OpenPidStep,
     WritePidStep, ReconcileStep, SweepStep, ScanStep, BindStep, UnwindStep, ExitStep
     DEF Command
<1>4. ASSUME NEW p \in Procs, Close(p)
      PROVE  IInv'
  BY <1>4, AbortStep, StopServicesStep, CloseDbStep, CloseFileStep DEF Close
<1>5. ASSUME NEW p \in Procs, BeginRun(p) \/ EndRun(p) \/ Proxy(p) \/ Unwatch(p) \/ Crash(p)
      PROVE  IInv'
  BY <1>5, BeginRunStep, EndRunStep, StreamStep, CrashStep
<1> QED
  BY <1>1, <1>2, <1>3, <1>4, <1>5 DEF Next

\* The invariant holds of every state the processes reach.
THEOREM Invariance == Spec => []IInv
<1>1. Init => IInv
  BY InitOK
<1>2. IInv /\ [Next]_vars => IInv'
  BY StepOK
<1> QED
  BY <1>1, <1>2, PTL DEF Spec

\* However many start and stop commands interleave, and wherever they are killed: as
\* long as the pid file was not changed between one command's reading of it and
\* what that did about it, every gateway from the writing of its pid to the removal
\* of the file is named by it, and serves with no unfinished row but its own run's.
THEOREM OneGateway == Spec => []NamedWhileItRuns
<1>1. IInv => NamedWhileItRuns
  BY DEF IInv, NamedWhileItRuns, FileAsRead, RowsAreOwn, DatabaseOpen, Serves, Holds, At
<1> QED
  BY <1>1, Invariance, PTL

\* A process that ends by itself, wherever its start failed or its closing was
\* begun, leaves no port, stream or pid file of its own, also when the commands raced
\* for the file; and an unfinished row only of a run whose handler began it after the
\* closing had looked for the active ones.
THEOREM NothingIsLeft == Spec => []LeavesNothing
<1>1. IInv => LeavesNothing
  BY DEF IInv, LeavesNothing, OwnsWhatItHas, Holds, At
<1> QED
  BY <1>1, Invariance, PTL
=============================================================================

----------------------------- MODULE Lifecycle ------------------------------
(***************************************************************************)
(* The life of the gateway's processes: the commands start, stop and       *)
(* status (src/lifecycle/daemon.ts) over one pid file                      *)
(* (src/lifecycle/pidfile.ts), one port and one database, and the order in *)
(* which an application is made ready and closed (src/server/app.ts).      *)
(*                                                                         *)
(* Every process runs one command.  Its steps are its calls to the file    *)
(* system, to the signals and to the database: those of several processes  *)
(* interleave, and each of them may be killed between any two.  A signal   *)
(* starts the closing of a gateway beside what is left of its start.  The  *)
(* database keeps, of the runs of each process, only whether one of their  *)
(* rows is unfinished; a gateway has one request at a time, whose handler  *)
(* goes on whatever the closing does beside it.                            *)
(***************************************************************************)
EXTENDS Naturals

CONSTANTS
  Procs,        \* processes
  Commands,     \* what is typed for each: "launch", "serve", "stop", "status"
  NoProc,
  MaxFaults     \* bound: processes killed, secrets and hooks that fail

VARIABLES
  proc,      \* the processes
  file,      \* what the pid file says
  opened,    \* processes that hold the pid file open, to write it
  port,      \* the process that listens
  rows,      \* processes with an unfinished row in runs
  stream,    \* per process, the browser's connection to /admin/core/events
  faults,    \* faults so far
  raced,     \* history: the file was changed while another process acted on it
  late       \* history: gateways that began a run after abortActive had looked

vars == <<proc, file, opened, port, rows, stream, faults, raced, late>>

Kinds == {"launch", "serve", "stop", "status"}

\* at is the command's own control, down that of closeRuntime, heard the pid that
\* was read.
Up == {"unused", "typed", "found", "signalling", "dropping", "free", "opening",
       "writing", "reconciling", "sweeping", "scanning", "binding", "serving",
       "failing"}

Over == {"ended", "killed"}

Down == {"no", "aborting", "stopping", "draining", "file", "closed"}

\* Of a gateway's request: routed, its handler is past its checks; begun, its run is
\* in the database and among the active ones.
Runs == {"none", "routed", "begun"}

Process == [does : Kinds \cup {"nothing"}, at : Up \cup Over, down : Down,
            run : Runs, left : BOOLEAN, heard : Procs \cup {NoProc}]

\* Of a process that is not, only this is kept.
Nobody(at) ==
  [does |-> "nothing", at |-> at, down |-> "no", run |-> "none", left |-> FALSE,
   heard |-> NoProc]

ASSUME LifecycleAssumption ==
  /\ Commands \in [Procs -> SUBSET Kinds]
  /\ NoProc \notin Procs \cup {"missing", "malformed"}
  /\ Procs \cap {"missing", "malformed"} = {}
  /\ MaxFaults \in Nat

Init ==
  /\ proc = [p \in Procs |-> Nobody("unused")]
  /\ file = "missing" /\ opened = {}
  /\ port = NoProc
  /\ rows = {}
  /\ stream = [p \in Procs |-> "none"]
  /\ faults = 0
  /\ raced = FALSE /\ late = {}

Alive(p) == proc[p].at \in Up \ {"unused"}

At(p, stages) == proc[p].at \in stages

\* p goes on at another stage, or ends.
Staged(p, at) == IF at \in Over THEN Nobody(at) ELSE [proc[p] EXCEPT !.at = at]

Goes(p, at) == proc' = [proc EXCEPT ![p] = Staged(p, at)]

Fault == faults < MaxFaults /\ faults' = faults + 1

\* Processes that have read the pid file and still act on what they read.
Acting == {p \in Procs : At(p, {"dropping", "free", "opening", "writing"})}

\* The pid file as p leaves it.
Leaves(p, content, writers) ==
  /\ file' = content /\ opened' = writers
  /\ raced' = (raced \/ Acting \ {p} # {})

\* removePid: that there is no such file is no error.  Who has it open writes to a
\* file without a name.
RemovePid(p) == Leaves(p, "missing", {})

-----------------------------------------------------------------------------
(* What the commands share: inspectPid and isProcessAlive.                 *)

Type(p, command) ==
  /\ At(p, {"unused"})
  /\ proc' = [proc EXCEPT ![p].does = command, ![p].at = "typed"]
  /\ UNCHANGED <<file, opened, port, rows, stream, faults, raced, late>>

Starts(p) == proc[p].does \in {"launch", "serve"}

\* What a command goes on with when there is no gateway.
Absent(p) == IF Starts(p) THEN "free" ELSE "ended"

\* existsSync.
Look(p) ==
  /\ At(p, {"typed"})
  /\ Goes(p, IF file = "missing" THEN Absent(p) ELSE "found")
  /\ UNCHANGED <<file, opened, port, rows, stream, faults, raced, late>>

\* Mutant of Running: a gateway that does not listen is taken for dead.
RunningIfListening(q) == Alive(q) /\ port = q

\* kill(pid, 0).
Running(q) == Alive(q)

\* What a command goes on with when the gateway is alive: a stop signals it, a start
\* is refused, and a status is done.
Present(p) ==
  IF proc[p].does = "stop" THEN "signalling" ELSE "ended"

\* readFileSync, which throws if the file has gone meanwhile, and kill(pid, 0).
Read(p) ==
  /\ At(p, {"found"})
  /\ LET next == CASE file = "missing" -> "ended"
                   [] file = "malformed" -> "dropping"
                   [] OTHER -> IF Running(file) THEN Present(p) ELSE "dropping"
     IN
     proc' = [proc EXCEPT ![p] =
       [Staged(p, next) EXCEPT !.heard = IF next = "signalling" THEN file ELSE NoProc]]
  /\ UNCHANGED <<file, opened, port, rows, stream, faults, raced, late>>

\* A malformed file, or a stale one, is removed.
Drop(p) ==
  /\ At(p, {"dropping"})
  /\ RemovePid(p)
  /\ Goes(p, Absent(p))
  /\ UNCHANGED <<port, rows, stream, faults, late>>

-----------------------------------------------------------------------------
(* Signals, and closeRuntime.                                              *)

\* The handlers are installed with the pid file's first byte still to be written.
Handles(q) ==
  /\ proc[q].does = "serve" /\ Alive(q)
  /\ ~At(q, {"typed", "found", "dropping", "free"})

\* What a SIGTERM or a SIGINT does to q: the first begins its closing, the next
\* ones do nothing; without a handler it dies.
Signalled(q) ==
  IF ~Handles(q) THEN Nobody("killed")
  ELSE IF proc[q].down = "no" THEN [proc[q] EXCEPT !.down = "aborting"]
  ELSE proc[q]

\* stop: a process that died since it was looked at makes kill throw.
Stop(p) ==
  LET q == proc[p].heard IN
  /\ At(p, {"signalling"})
  /\ proc' = IF Alive(q)
       THEN [proc EXCEPT ![q] = Signalled(q), ![p] = Nobody("ended")]
       ELSE [proc EXCEPT ![p] = Nobody("ended")]
  /\ UNCHANGED <<file, opened, port, rows, stream, faults, raced, late>>

\* The user interrupts a start in the foreground.
Interrupt(p) ==
  /\ proc[p].does = "serve" /\ Alive(p) /\ proc[p].down = "no"
  /\ proc' = [proc EXCEPT ![p] = Signalled(p)]
  /\ UNCHANGED <<file, opened, port, rows, stream, faults, raced, late>>

Closes(p, from, to) ==
  /\ Alive(p) /\ proc[p].down = from
  /\ proc' = [proc EXCEPT ![p].down = to]

\* p with its request answered.
Answered(p) == [proc[p] EXCEPT !.run = "none", !.left = FALSE]

\* preClose begins with abortActive, which waits for every run that it aborts: those
\* that are active when it looks, and no handler that has yet to begin one.  The
\* handler of a signal is not called before the pid is written.
AbortActive(p) ==
  /\ Alive(p) /\ proc[p].down = "aborting" /\ ~At(p, {"opening", "writing"})
  /\ LET me == IF proc[p].run = "begun" THEN Answered(p) ELSE proc[p]
     IN  proc' = [proc EXCEPT ![p] = [me EXCEPT !.down = "stopping"]]
  /\ rows' = rows \ {p}
  /\ UNCHANGED <<file, opened, port, stream, faults, raced, late>>

\* Mutant of StopServices: a start that is still under way is waited for.
StopServicesOnceUp(p) ==
  /\ Closes(p, "stopping", "draining")
  /\ At(p, {"serving"})
  /\ port' = IF port = p THEN NoProc ELSE port
  /\ UNCHANGED <<file, opened, rows, stream, faults, raced, late>>

\* preClose goes on, whatever fails: the adapters are disposed of, a sweep in
\* progress is waited for, the extensions stop.  Then the server stops listening.
StopServices(p) ==
  /\ Closes(p, "stopping", "draining")
  /\ ~At(p, {"sweeping"})
  /\ port' = IF port = p THEN NoProc ELSE port
  /\ UNCHANGED <<file, opened, rows, stream, faults, raced, late>>

\* The server has closed when its last connection has: a stream of events is not
\* ended by the gateway, and the handler of a client that left is not waited for.
\* Then the database is closed.
CloseDb(p) ==
  /\ Closes(p, "draining", "file")
  /\ stream[p] = "none"
  /\ proc[p].run = "none" \/ proc[p].left
  /\ UNCHANGED <<file, opened, port, rows, stream, faults, raced, late>>

\* Whoever the file names by then.
CloseFile(p) ==
  /\ Closes(p, "file", "closed")
  /\ RemovePid(p)
  /\ UNCHANGED <<port, rows, stream, faults, late>>

DatabaseOpen(p) == proc[p].down \notin {"file", "closed"}

-----------------------------------------------------------------------------
(* start.                                                                  *)

\* The detached start spawns a start in the foreground, and is done.
Spawn(p, q) ==
  /\ At(p, {"free"}) /\ proc[p].does = "launch" /\ At(q, {"unused"})
  /\ proc' = [proc EXCEPT ![p] = Nobody("ended"), ![q].does = "serve", ![q].at = "typed"]
  /\ UNCHANGED <<file, opened, port, rows, stream, faults, raced, late>>

\* The secrets, the database and the application; if one fails there is nothing to
\* undo.
Assemble(p) ==
  /\ At(p, {"free"}) /\ proc[p].does = "serve"
  /\ \/ Goes(p, "opening") /\ UNCHANGED faults
     \/ Goes(p, "ended") /\ Fault
  /\ UNCHANGED <<file, opened, port, rows, stream, raced, late>>

\* writePid: open, which truncates, then write.
OpenPid(p) ==
  /\ At(p, {"opening"})
  /\ Leaves(p, "malformed", opened \cup {p})
  /\ Goes(p, "writing")
  /\ UNCHANGED <<port, rows, stream, faults, late>>

WritePid(p) ==
  /\ At(p, {"writing"})
  /\ IF p \in opened THEN Leaves(p, p, opened \ {p}) ELSE UNCHANGED <<file, opened, raced, late>>
  /\ Goes(p, "reconciling")
  /\ UNCHANGED <<port, rows, stream, faults, late>>

\* A hook of listen ends, or fails: always once the database is closed.
Hook(p, from, to) ==
  /\ At(p, {from})
  /\ \/ DatabaseOpen(p) /\ Goes(p, to) /\ UNCHANGED faults
     \/ ~DatabaseOpen(p) /\ Goes(p, "failing") /\ UNCHANGED faults
     \/ DatabaseOpen(p) /\ Goes(p, "failing") /\ Fault

\* reconcileStartup, one transaction: every unfinished row, whoever runs it.
Interrupts(p) == rows' = IF proc'[p].at = "sweeping" THEN {} ELSE rows

Reconcile(p) ==
  /\ Hook(p, "reconciling", "sweeping")
  /\ Interrupts(p)
  /\ UNCHANGED <<file, opened, port, stream, raced, late>>

Sweep(p) ==
  /\ Hook(p, "sweeping", "scanning")
  /\ UNCHANGED <<file, opened, port, rows, stream, raced, late>>

Scan(p) ==
  /\ Hook(p, "scanning", "binding")
  /\ UNCHANGED <<file, opened, port, rows, stream, raced, late>>

\* The port is free, or listen rejects; so it may if the server is being closed.
Bind(p) ==
  /\ At(p, {"binding"})
  /\ \/ /\ port = NoProc /\ port' = p
        /\ Goes(p, "serving")
     \/ /\ port # NoProc \/ proc[p].down # "no"
        /\ Goes(p, "failing")
        /\ UNCHANGED port
  /\ UNCHANGED <<file, opened, rows, stream, faults, raced, late>>

\* Mutant of Unwind: the process ends without closing anything.
UnwindAtOnce(p) ==
  /\ At(p, {"failing"}) /\ proc[p].down = "no"
  /\ Goes(p, "ended")
  /\ UNCHANGED <<file, opened, port, rows, stream, faults, raced, late>>

\* The catch block: close, unless a signal has begun it.
Unwind(p) ==
  /\ At(p, {"failing"})
  /\ Closes(p, "no", "aborting")
  /\ UNCHANGED <<file, opened, port, rows, stream, faults, raced, late>>

\* shutdownComplete, or the end of the catch block: the process ends, and with it
\* what it still has open.
Exit(p) ==
  /\ At(p, {"serving", "failing"}) /\ proc[p].down = "closed"
  /\ Goes(p, "ended")
  /\ port' = IF port = p THEN NoProc ELSE port
  /\ UNCHANGED <<file, opened, rows, stream, faults, raced, late>>

-----------------------------------------------------------------------------
(* What a gateway serves: runs, and the proxy of the core's events.        *)

Serves(p) == At(p, {"serving"}) /\ proc[p].down = "no"

\* A request that the server still takes, as far as the checks of its handler.
Route(p) ==
  /\ Serves(p) /\ proc[p].run = "none"
  /\ proc' = [proc EXCEPT ![p].run = "routed"]
  /\ UNCHANGED <<file, opened, port, rows, stream, faults, raced, late>>

\* The handler begins the run, whether or not the gateway is being closed by now.
BeginRun(p) ==
  /\ Alive(p) /\ proc[p].run = "routed" /\ DatabaseOpen(p)
  /\ proc' = [proc EXCEPT ![p].run = "begun"]
  /\ rows' = rows \cup {p}
  /\ late' = IF proc[p].down \in {"stopping", "draining"} THEN late \cup {p} ELSE late
  /\ UNCHANGED <<file, opened, port, stream, faults, raced>>

\* The client leaves.  Only a server that waits for its connections asks whether it
\* has: one that left before is taken to leave now.
Leave(p) ==
  /\ Alive(p) /\ proc[p].down = "draining" /\ proc[p].run # "none" /\ ~proc[p].left
  /\ proc' = [proc EXCEPT ![p].left = TRUE]
  /\ UNCHANGED <<file, opened, port, rows, stream, faults, raced, late>>

\* The request is refused, or its run over: what has no database any more finishes
\* no row.  The row may have been interrupted by another process.
EndRun(p) ==
  /\ Alive(p) /\ proc[p].run # "none"
  /\ proc' = [proc EXCEPT ![p] = Answered(p)]
  /\ rows' = IF DatabaseOpen(p) THEN rows \ {p} ELSE rows
  /\ UNCHANGED <<file, opened, port, stream, faults, raced, late>>

Streams == {"none", "connecting", "reading", "waiting"}

Turns(p, from, to) ==
  /\ Alive(p) /\ stream[p] \in from
  /\ stream' = [stream EXCEPT ![p] = to]
  /\ UNCHANGED <<proc, file, opened, port, rows, faults, raced, late>>

Watch(p) == Serves(p) /\ Turns(p, {"none"}, "connecting")

\* proxyCoreEvents: the core answers; it does not, or breaks off; the delay is over.
Proxy(p) ==
  \/ Turns(p, {"connecting"}, "reading")
  \/ Turns(p, {"connecting", "reading"}, "waiting")
  \/ Turns(p, {"waiting"}, "connecting")

\* The browser goes away: that ends the reading or the delay, and the loop.
Unwatch(p) == Turns(p, {"connecting", "reading", "waiting"}, "none")

\* kill -9, or the loss of power: the file, the rows and nothing else remain.
Crash(p) ==
  /\ Alive(p) /\ Fault
  /\ proc' = [proc EXCEPT ![p] = Nobody("killed")]
  /\ opened' = opened \ {p}
  /\ port' = IF port = p THEN NoProc ELSE port
  /\ stream' = [stream EXCEPT ![p] = "none"]
  /\ UNCHANGED <<file, rows, raced, late>>

-----------------------------------------------------------------------------
Command(p) ==
  \/ Look(p) \/ Read(p) \/ Drop(p) \/ Stop(p)
  \/ \E q \in Procs : Spawn(p, q)
  \/ Assemble(p) \/ OpenPid(p) \/ WritePid(p)
  \/ Reconcile(p) \/ Sweep(p) \/ Scan(p) \/ Bind(p) \/ Unwind(p) \/ Exit(p)

Close(p) ==
  AbortActive(p) \/ StopServices(p) \/ CloseDb(p) \/ CloseFile(p)

User(p) ==
  (\E command \in Commands[p] : Type(p, command)) \/ Interrupt(p)
  \/ Watch(p) \/ Route(p) \/ Leave(p)

Next ==
  \E p \in Procs :
    \/ User(p) \/ Command(p) \/ Close(p) \/ BeginRun(p) \/ EndRun(p)
    \/ Proxy(p) \/ Unwatch(p) \/ Crash(p)

Spec == Init /\ [][Next]_vars

\* What a process has to do itself, and, for a gateway that waits for its connections,
\* the end of its request, which a timer brings about, and the going away of a
\* browser that watches.
Work(p) ==
  \/ Command(p) \/ Close(p)
  \/ proc[p].down = "draining" /\ (EndRun(p) \/ Unwatch(p))

\* One condition for each process is enough: it has finitely many steps to make.
FairSpec == Spec /\ \A p \in Procs : WF_vars(Work(p))

-----------------------------------------------------------------------------
(* Properties.                                                             *)

\* The variables keep the shapes their declarations give them.
TypeOK ==
  /\ proc \in [Procs -> Process]
  /\ file \in Procs \cup {"missing", "malformed"} /\ opened \subseteq Procs
  /\ port \in Procs \cup {NoProc}
  /\ rows \subseteq Procs
  /\ stream \in [Procs -> Streams]
  /\ faults \in 0..MaxFaults
  /\ raced \in BOOLEAN /\ late \subseteq Procs

\* A process that has written its pid and has not yet removed the file.
Holds(p) ==
  /\ At(p, {"reconciling", "sweeping", "scanning", "binding", "serving", "failing"})
  /\ proc[p].down # "closed"

\* As long as no command changes the pid file between another one's reading of it
\* and what that does about it, every gateway that starts, serves or drains is
\* named by the file, so that there is one, and stop and status reach it: through
\* stale and half-written files, crashes, refused starts and a gateway that is
\* still draining when the next one is started.  It serves with the rows of all
\* others finished, and with those of its own run untouched by any other start.
NamedWhileItRuns ==
  /\ TypeOK
  /\ ~raced => \A p \in Procs :
       /\ Holds(p) => file = p
       /\ Serves(p) => rows = IF proc[p].run = "begun" THEN {p} ELSE {}

\* A gateway that was not killed leaves nothing of itself: not the port, no stream, no
\* pid file with its number, whichever of its steps failed and whatever other
\* commands did meanwhile.  It leaves an unfinished row only if the handler of a
\* request began its run after abortActive had looked for the active ones: nobody
\* aborts that run, and when its client has left nobody waits for it.
LeavesNothing ==
  \A p \in Procs : At(p, {"ended"}) =>
    /\ file # p /\ p \notin opened /\ port # p
    /\ p \in rows => p \in late
    /\ stream[p] = "none"

\* A process that neither serves nor waits for another one to be spawned.
Busy(p) == Alive(p) /\ ~Serves(p) /\ ~(At(p, {"free"}) /\ proc[p].does = "launch")

\* No command stays under way for ever: it ends, or its gateway serves; and a
\* gateway that is told to stop, or whose start fails, does end.
CommandsEnd == \A p \in Procs : []<>~Busy(p)

=============================================================================

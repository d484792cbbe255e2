------------------------------ MODULE LineTurn ------------------------------
(***************************************************************************)
(* The adapters that start one print process per run and read its output:  *)
(* claude and cursor (src/provider-runtime/claude/adapter.ts, cursor/      *)
(* adapter.ts) read it line by line while it runs, antigravity             *)
(* (antigravity/adapter.ts) as a whole once the process has ended.         *)
(***************************************************************************)
EXTENDS Turn

Lines == {"system", "delta", "result", "result_error", "bad"}

-----------------------------------------------------------------------------
(* From the first next() to the prompt.                                    *)

\* The process reads its prompt from stdin; antigravity's is in its arguments.
AfterSpawn == IF adapter = "antigravity" THEN "collect" ELSE "writing"

\* The catch block.
Catch(r) ==
  Yield(r, IF requested[r] THEN "cancelled" ELSE Failure(advanced[r]), "finally")

\* spawnProcess, the entry in activeRuns, and the signal looked at once more.
Starts(r) ==
  \E ok \in BOOLEAN :
    /\ proc' = [proc EXCEPT ![r] = IF aborted[r] THEN Interrupted(Spawned(ok))
                                   ELSE Spawned(ok)]
    /\ registered' = [registered EXCEPT ![r] = TRUE]
    /\ GoTo(r, IF aborted[r] THEN "interrupting" ELSE AfterSpawn)
    /\ IF adapter = "antigravity"
         THEN /\ prompted' = [prompted EXCEPT ![r] = ok]
              /\ advanced' = [advanced EXCEPT ![r] = ok]
         ELSE UNCHANGED <<prompted, advanced>>
    /\ UNCHANGED <<outer, requested, stopped>>

\* What goes before, or spawnProcess itself, may throw: there is no process then.
Spawn(r) ==
  \/ Starts(r)
  \/ Catch(r) /\ UNCHANGED <<outer, flags, registered, proc>>

\* claude reads the images of its input first, which may throw like what follows; the
\* others begin by spawning.
Begin(r) ==
  /\ CanBegin(r)
  /\ IF adapter = "claude"
       THEN /\ GoTo(r, "input")
            /\ UNCHANGED <<outer, flags, registered, proc>>
       ELSE Spawn(r)

InterruptedEarly(r) ==
  /\ at[r] = "interrupting" /\ proc[r].stage = "done"
  /\ GoTo(r, AfterSpawn)
  /\ UNCHANGED <<outer, flags, registered, proc>>

InputRead(r) ==
  /\ at[r] = "input"
  /\ Spawn(r)

\* writeInput settles.
Written(r) ==
  /\ at[r] = "writing"
  /\ \/ /\ advanced' = [advanced EXCEPT ![r] = TRUE]
        /\ prompted' = [prompted EXCEPT ![r] = proc[r].leader # "unborn"]
        /\ GoTo(r, "loop")
     \/ Catch(r) /\ UNCHANGED <<advanced, prompted>>
  /\ UNCHANGED <<outer, requested, stopped, registered, proc>>

-----------------------------------------------------------------------------
(* claude and cursor: the loop over lines.                                 *)

Errs(r, line) == \/ line = "bad"
                 \/ line = "system" /\ Said(r, "session")
                 \/ line # "system" /\ ~Said(r, "session")

\* claude: a structured result that was not streamed is yielded as one delta.
ClaudeResult(r) ==
  \/ Yield(r, "completed", "finally")
  \/ ~Said(r, "delta") /\ (Yield(r, "delta", "complete") \/ Catch(r))

ClaudeLine(r, line) ==
  CASE Errs(r, line)   -> Catch(r)
    [] line = "system" -> Yield(r, "session", "loop")
    [] line = "delta"  -> Kept(r) /\ Yield(r, "delta", "loop")
    [] line = "result" -> ClaudeResult(r)
    [] line = "result_error" -> Yield(r, "failed_advanced", "finally")

\* cursor: the result's text has to be that of the deltas, or becomes the only one.
CursorResult(r) ==
  \/ Catch(r)
  \/ IF Said(r, "delta") THEN Yield(r, "completed", "finally")
                         ELSE Yield(r, "delta", "complete")

CursorLine(r, line) ==
  CASE Errs(r, line)   -> Catch(r)
    [] line = "system" -> Yield(r, "session", "loop")
    [] line = "delta"  -> Kept(r) /\ Yield(r, "delta", "loop")
    [] line = "result" -> CursorResult(r)
    [] line = "result_error" -> Yield(r, "failed_advanced", "finally")

\* A line out of order, of another session, malformed or about a tool is an error.
ReadLine(r, line) ==
  /\ at[r] = "loop" /\ proc[r].leader # "unborn"
  /\ IF adapter = "claude" THEN ClaudeLine(r, line) ELSE CursorLine(r, line)
  /\ UNCHANGED <<outer, flags, registered, proc>>

SayCompleted(r) ==
  /\ at[r] = "complete"
  /\ Yield(r, "completed", "finally")
  /\ UNCHANGED <<outer, flags, registered, proc>>

Eof(r) ==
  /\ at[r] = "loop" /\ AtEof(proc[r])
  /\ GoTo(r, "exit")
  /\ UNCHANGED <<outer, flags, registered, proc>>

\* The output ended without a result.
Exit(r) ==
  /\ at[r] = "exit" /\ proc[r].seen
  /\ Catch(r)
  /\ UNCHANGED <<outer, flags, registered, proc>>

-----------------------------------------------------------------------------
(* antigravity: exit code, output and conversation id of the ended process.*)

\* More output than the limit: readBoundedOutput throws at once.
TooMuch(r) == proc[r].leader # "unborn" /\ Catch(r)

Collected(r) ==
  /\ at[r] = "collect"
  /\ \/ proc[r].seen /\ AtEof(proc[r]) /\ ~requested[r] /\ proc[r].clean
        /\ Yield(r, "session", "output")
     \/ proc[r].seen /\ (AtEof(proc[r]) \/ proc[r].leader = "unborn") /\ Catch(r)
     \/ TooMuch(r)
  /\ UNCHANGED <<outer, flags, registered, proc>>

SayOutput(r) ==
  /\ at[r] = "output"
  /\ Yield(r, "delta", "complete")
  /\ UNCHANGED <<outer, flags, registered, proc>>

-----------------------------------------------------------------------------
(* The end, and the abort.                                                 *)

\* Mutant of Finally: a process that has exited needs no disposal.
FinallyTrustsExit(r) ==
  /\ at[r] = "finally"
  /\ registered' = [registered EXCEPT ![r] = FALSE]
  /\ IF proc[r].leader = "none" \/ proc[r].seen
       THEN GoTo(r, "ended") /\ UNCHANGED proc
       ELSE GoTo(r, "disposing") /\ proc' = [proc EXCEPT ![r] = Interrupted(@)]
  /\ UNCHANGED <<outer, flags>>

Finally(r) ==
  /\ at[r] = "finally"
  /\ registered' = [registered EXCEPT ![r] = FALSE]
  /\ IF proc[r].leader = "none"
       THEN GoTo(r, "ended") /\ UNCHANGED proc
       ELSE GoTo(r, "disposing") /\ proc' = [proc EXCEPT ![r] = Interrupted(@)]
  /\ UNCHANGED <<outer, flags>>

Disposed(r) ==
  /\ at[r] = "disposing" /\ proc[r].stage = "done"
  /\ GoTo(r, "ended")
  /\ UNCHANGED <<outer, flags, registered, proc>>

\* The signal is aborted: onAbort marks the generator and calls cancel(), which
\* interrupts the process of a registered run.
Abort(r) ==
  /\ ~aborted[r] /\ at[r] # "ended"
  /\ aborted' = [aborted EXCEPT ![r] = TRUE]
  /\ requested' = [requested EXCEPT ![r] = @ \/ Listening(r)]
  /\ proc' = [proc EXCEPT ![r] = IF Listening(r) /\ registered[r] THEN Interrupted(@) ELSE @]
  /\ UNCHANGED <<adapter, at, cont, events, probe, unchecked, returned, advanced, prompted, stopped, registered>>

GeneratorStep(r) ==
  \/ Begin(r) \/ BeginAborted(r) \/ InterruptedEarly(r) \/ InputRead(r) \/ Written(r)
  \/ \E line \in Lines : ReadLine(r, line)
  \/ SayCompleted(r) \/ Eof(r) \/ Exit(r) \/ Collected(r) \/ SayOutput(r)
  \/ Finally(r) \/ Disposed(r)

Step(r) ==
  \/ GeneratorStep(r) \/ ConsumerStep(r) \/ Abort(r)
  \/ CommandStep(r) \/ OwnProcessStep(r) \/ SeeExit(r)

\* Timers fire, exits are reported, files are read, a write to a dead process
\* settles, and the consumer calls next() or return(); a provider does nothing
\* for sure.
LineFairness(r) ==
  /\ WF_turnVars(/\ adapter \in Clis
                 /\ \/ Begin(r) \/ BeginAborted(r) \/ InputRead(r) \/ InterruptedEarly(r)
                    \/ (Gone(proc[r]) /\ Written(r))
                    \/ Eof(r) \/ Exit(r) \/ SayCompleted(r) \/ SayOutput(r)
                    \/ (AtEof(proc[r]) /\ proc[r].seen /\ Collected(r))
                    \/ Finally(r) \/ Disposed(r))
=============================================================================

---------------------------- MODULE OpenCodeTurn ----------------------------
(***************************************************************************)
(* The opencode adapter (src/provider-runtime/opencode/adapter.ts and      *)
(* server.ts): an SDK client of one shared local server.  A run subscribes *)
(* to the server's events, creates or resumes a session, and races its     *)
(* prompt with the events until both the answer and the assistant's last   *)
(* message have come.  Every request but the deletion of an ephemeral      *)
(* session is given up when the run is aborted.                            *)
(***************************************************************************)
EXTENDS Turn

VARIABLES
  handle,     \* OpenCodeServer: "none", "starting", "up"
  session,    \* per run, the session it knows of: "none", "created" or "resumed"
  made,       \* per run, session.create at the server: "no", "asked", or "there"
  deleted,    \* per run: session.delete was "no", "asked" or "done"
  ephemeral,  \* per run, request.sessionMode
  answer,     \* per run, the prompt: "none", "waiting", "ok", "error", "rejected"
  final,      \* per run, finalResult is there
  lastSeen,   \* per run, sawAssistantTerminal
  abortCall   \* per run, abortNative(): "none", "waiting", "done", "failed"

openVars == <<handle, session, made, deleted, ephemeral, answer, final, lastSeen, abortCall>>
promptVars == <<answer, final, lastSeen>>

OpenInit ==
  /\ handle = "none"
  /\ session = [r \in Runs |-> "none"]
  /\ made = [r \in Runs |-> "no"]
  /\ deleted = [r \in Runs |-> "no"]
  /\ ephemeral \in [Runs -> BOOLEAN]
  /\ answer = [r \in Runs |-> "none"]
  /\ final = [r \in Runs |-> FALSE]
  /\ lastSeen = [r \in Runs |-> FALSE]
  /\ abortCall = [r \in Runs |-> "none"]

\* What the events of the server come to for one run: output, the completion of its
\* assistant's message, or what is unsafe for this session, or the end of the events.
\* Other sessions', directories' and messages' events are skipped.
OpenEvents == {"delta", "last", "bad"}

\* What the prompt's answer comes to: the message of this turn, one that reports an
\* error, one of another turn or with a part that is not safe, or none.
Answers == {"ok", "error", "foreign", "rejected"}

Calm == UNCHANGED <<outer, flags, registered, proc>>

\* The catch block.
OpenCatch(r) ==
  Yield(r, IF requested[r] THEN "cancelled" ELSE Failure(advanced[r]), "finally")

-----------------------------------------------------------------------------
(* Up to the session.                                                      *)

\* A model that is not provider/model, or a schema that does not compile, throws.
OpenBegin(r) ==
  /\ CanBegin(r)
  /\ \/ OpenCatch(r) /\ UNCHANGED handle
     \/ /\ handle' = IF handle = "none" THEN "starting" ELSE handle
        /\ GoTo(r, IF handle = "up" THEN "subscribe" ELSE "server")
  /\ Calm /\ UNCHANGED <<session, made, deleted, ephemeral, promptVars, abortCall>>

\* A failed start is forgotten; the runs that waited for it throw.
OpenServerStarted(ok) ==
  /\ handle = "starting"
  /\ handle' = IF ok THEN "up" ELSE "none"
  /\ UNCHANGED <<turnVars, session, made, deleted, ephemeral, promptVars, abortCall>>

ServerThere(r) ==
  /\ at[r] = "server" /\ handle = "up" /\ ~aborted[r]
  /\ GoTo(r, "subscribe")
  /\ Calm /\ UNCHANGED openVars

\* The entry in activeRuns, and the abort that came before it was there.
Activate(r, kind) ==
  /\ session' = [session EXCEPT ![r] = kind]
  /\ registered' = [registered EXCEPT ![r] = TRUE]
  /\ advanced' = [advanced EXCEPT ![r] = TRUE]
  /\ Yield(r, "session", "prompt")
  /\ UNCHANGED <<outer, requested, prompted, stopped, proc>>

\* event.subscribe is answered; a new session is asked for, unless one is resumed.
Bound(r, resume) ==
  /\ at[r] = "subscribe" /\ ~aborted[r]
  /\ IF resume THEN Activate(r, "resumed") /\ UNCHANGED made
     ELSE /\ made' = [made EXCEPT ![r] = "asked"]
          /\ GoTo(r, "create") /\ Calm /\ UNCHANGED session
  /\ UNCHANGED <<handle, deleted, ephemeral, promptVars, abortCall>>

\* The server creates the session, also for a run that has given up meanwhile.
SessionMade(r) ==
  /\ made[r] = "asked"
  /\ made' = [made EXCEPT ![r] = "there"]
  /\ UNCHANGED <<turnVars, handle, session, deleted, ephemeral, promptVars, abortCall>>

\* The answer with its id.
Created(r) ==
  /\ at[r] = "create" /\ made[r] = "there" /\ ~aborted[r]
  /\ Activate(r, "created")
  /\ UNCHANGED <<handle, made, deleted, ephemeral, promptVars, abortCall>>

\* A request fails, or is given up with the signal: whether the server has created a
\* session, or goes on to do so, is not known.
OpenRequestFails(r) ==
  /\ at[r] \in {"server", "subscribe", "create"}
  /\ at[r] = "server" => handle # "starting" \/ aborted[r]
  /\ OpenCatch(r)
  /\ Calm /\ UNCHANGED openVars

-----------------------------------------------------------------------------
(* The prompt and the events.                                              *)

SendPrompt(r) ==
  /\ at[r] = "prompt"
  /\ IF aborted[r]
       THEN Yield(r, "cancelled", "finally") /\ UNCHANGED <<prompted, answer>>
       ELSE /\ prompted' = [prompted EXCEPT ![r] = TRUE]
            /\ answer' = [answer EXCEPT ![r] = "waiting"]
            /\ GoTo(r, "events")
  /\ UNCHANGED <<outer, requested, advanced, stopped, registered, proc,
                 handle, session, made, deleted, ephemeral, final, lastSeen, abortCall>>

Answered(r, how) ==
  /\ answer[r] = "waiting"
  /\ answer' = [answer EXCEPT ![r] = how]
  /\ Calm /\ UNCHANGED <<at, cont, events, handle, session, made, deleted, ephemeral, final,
                         lastSeen, abortCall>>

\* Both have come; structured output has to fit its schema.
Conclude(r) ==
  /\ UNCHANGED deleted
  /\ CASE answer[r] = "foreign" -> OpenCatch(r)
       [] answer[r] = "error"   -> Yield(r, "failed_advanced", "finally")
       [] answer[r] = "ok"      -> OpenCatch(r) \/ Yield(r, "delta", "delete") \/ GoTo(r, "delete")

\* The answer wins the race, or was awaited behind the assistant's last message.
TakeAnswer(r) ==
  /\ at[r] \in {"events", "answer"} /\ ~final[r]
  /\ answer[r] \in Answers
  /\ CASE answer[r] = "rejected" -> OpenCatch(r) /\ UNCHANGED <<final, deleted>>
       [] answer[r] # "rejected" /\ lastSeen[r] ->
            Conclude(r) /\ final' = [final EXCEPT ![r] = TRUE]
       [] OTHER -> final' = [final EXCEPT ![r] = TRUE] /\ UNCHANGED <<at, cont, events, deleted>>
  /\ Calm /\ UNCHANGED <<handle, session, made, ephemeral, answer, lastSeen, abortCall>>

\* The next event.
TakeEvent(r, what) ==
  /\ at[r] = "events"
  /\ CASE what = "delta" -> Kept(r) /\ Yield(r, "delta", "events") /\ UNCHANGED <<lastSeen, deleted>>
       [] what = "last" ->
            /\ lastSeen' = [lastSeen EXCEPT ![r] = TRUE]
            /\ IF final[r] THEN Conclude(r) ELSE GoTo(r, "answer") /\ UNCHANGED deleted
       [] what = "bad" -> OpenCatch(r) /\ UNCHANGED <<lastSeen, deleted>>
  /\ Calm /\ UNCHANGED <<handle, session, made, ephemeral, answer, final, abortCall>>

AskDelete(r) ==
  /\ at[r] = "delete"
  /\ IF session[r] = "created" /\ ephemeral[r]
       THEN /\ deleted' = [deleted EXCEPT ![r] = "asked"]
            /\ GoTo(r, "deleting")
       ELSE Yield(r, "completed", "finally") /\ UNCHANGED deleted
  /\ Calm /\ UNCHANGED <<handle, session, made, ephemeral, promptVars, abortCall>>

Deleted(r, ok) ==
  /\ at[r] = "deleting"
  /\ IF ok THEN Yield(r, "completed", "finally") ELSE OpenCatch(r)
  /\ deleted' = [deleted EXCEPT ![r] = IF ok THEN "done" ELSE @]
  /\ Calm /\ UNCHANGED <<handle, session, made, ephemeral, promptVars, abortCall>>

-----------------------------------------------------------------------------
(* The end, and the abort.                                                 *)

\* The finally block has a session left to delete.
Deletable(r) == session[r] = "created" /\ ephemeral[r] /\ deleted[r] # "done"

OpenFinally(r) ==
  /\ at[r] = "finally"
  /\ registered' = [registered EXCEPT ![r] = FALSE]
  /\ IF Deletable(r)
       THEN GoTo(r, "settling") /\ deleted' = [deleted EXCEPT ![r] = "asked"]
       ELSE GoTo(r, "ended") /\ UNCHANGED deleted
  /\ UNCHANGED <<outer, flags, proc, handle, session, made, ephemeral, promptVars, abortCall>>

LastDelete(r) ==
  /\ at[r] = "settling"
  /\ GoTo(r, "ended")
  /\ Calm /\ UNCHANGED openVars

\* The abort of sdkCancellation rejects what waits for it; a registered run's
\* session is aborted with the server, once.
OpenAbort(r) ==
  /\ ~aborted[r] /\ at[r] # "ended"
  /\ aborted' = [aborted EXCEPT ![r] = TRUE]
  /\ requested' = [requested EXCEPT ![r] = @ \/ Listening(r)]
  /\ abortCall' = [abortCall EXCEPT ![r] = IF Listening(r) /\ registered[r] THEN "waiting" ELSE @]
  /\ answer' = [answer EXCEPT ![r] = IF Listening(r) /\ @ = "waiting" THEN "rejected" ELSE @]
  /\ UNCHANGED <<adapter, at, cont, events, probe, unchecked, returned, advanced, prompted, stopped, registered,
                 proc, handle, session, made, deleted, ephemeral, final, lastSeen>>

\* session.abort is answered, fails, or is given up at its deadline.
AbortReturns(r, how) ==
  /\ abortCall[r] = "waiting"
  /\ abortCall' = [abortCall EXCEPT ![r] = how]
  /\ UNCHANGED <<turnVars, handle, session, made, deleted, ephemeral, promptVars>>

OpenStep(r) ==
  \/ OpenBegin(r) \/ ServerThere(r) \/ OpenRequestFails(r) \/ SessionMade(r) \/ Created(r) \/ SendPrompt(r) \/ TakeAnswer(r)
  \/ \E b \in BOOLEAN : OpenServerStarted(b) \/ Bound(r, b) \/ Deleted(r, b)
  \/ \E how \in Answers : Answered(r, how)
  \/ \E what \in OpenEvents : TakeEvent(r, what)
  \/ AskDelete(r) \/ OpenFinally(r) \/ LastDelete(r) \/ OpenAbort(r)
  \/ \E how \in {"done", "failed"} : AbortReturns(r, how)
  \/ (BeginAborted(r) \/ ConsumerStep(r)) /\ UNCHANGED openVars
  \/ (CommandStep(r) \/ OwnProcessStep(r) \/ SeeExit(r)) /\ UNCHANGED openVars
=============================================================================

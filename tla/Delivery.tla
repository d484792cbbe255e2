------------------------------ MODULE Delivery ------------------------------
(***************************************************************************)
(* How the OpenAI handlers deliver an answer: the chat and the Responses   *)
(* endpoints (src/extensions/openai/chat.ts, responses.ts), as JSON or as  *)
(* a stream (sse.ts), each from what it acquires (an idempotency key, the  *)
(* continuation of a stored response or the workspace of a new one, the    *)
(* iterator of a run) to what it tells its client and what it leaves       *)
(* behind.  A request with a key that is taken gets the owner's answer     *)
(* replayed.                                                               *)
(*                                                                         *)
(* The run is what InvocationService delivers (EventStream, TurnContract): *)
(* a session first, then deltas, then one terminal.  Idempotency refines   *)
(* the keys, Responses the chains.                                         *)
(***************************************************************************)
EXTENDS SseConnection, FiniteSets

CONSTANTS
  Duplicates, \* the requests that find their key taken
  Shapes,     \* the requests that clients make: a subset of Shape
  MaxDeltas,  \* bound: deltas of a run
  MaxFaults,  \* bound: failures of the database and of the file system
  NoRequest

ASSUME DeliveryAssumption ==
  /\ Duplicates \subseteq Requests /\ NoRequest \notin Requests
  /\ MaxDeltas \in Nat /\ MaxFaults \in Nat

\* What the handlers tell apart of a request: `tools` asks for an answer in the
\* envelope that StructuredEnvelopeDecoder reads.
Shape ==
  [endpoint : {"chat", "responses"}, stream : BOOLEAN, keyed : BOOLEAN, tools : BOOLEAN,
   chain : {"none", "first", "unstored", "continuation"}]

VARIABLES
  shape,   \* of each request that arrived
  pc,      \* where its handler is
  script,  \* the frames it has still to write before it goes on to `goal`
  goal,
  seen,    \* what it has seen of the run, and done about it
  deltas,  \* the deltas it has been given
  error,   \* what it is about to throw
  told,    \* what the client was told outside of the stream
  key,     \* the idempotency key of the requests that carry one
  answer,  \* the answer stored under it
  row,     \* what the request's chain looks like: see Rows
  lease,   \* the workspace of a first stored response
  broken,  \* requests whose key could not be settled
  faults

handlerVars == <<shape, pc, script, goal, seen, deltas, error, told>>
tableVars   == <<key, answer, row, lease, broken, faults>>
vars == <<sse, handlerVars, tableVars>>

\* A continuation has its parent: "held", "released", "failed", or "open" behind
\* the child.  A first response has its own row: "none", "open" or "failed".
Rows   == {"none", "held", "open", "released", "failed"}
Leases == {"none", "leased", "released", "cleaned"}

NotArrived == [endpoint |-> "none", stream |-> FALSE, keyed |-> FALSE, tools |-> FALSE,
               chain |-> "none"]

NoKey == [owner |-> NoRequest, status |-> "free"]

Init ==
  /\ SseInit
  /\ shape = [r \in Requests |-> NotArrived]
  /\ pc = [r \in Requests |-> "new"]
  /\ script = [r \in Requests |-> <<>>]
  /\ goal = [r \in Requests |-> "none"]
  /\ seen = [r \in Requests |-> {}]
  /\ deltas = [r \in Requests |-> 0]
  /\ error = [r \in Requests |-> "none"]
  /\ told = [r \in Requests |-> "none"]
  /\ key = NoKey /\ answer = "none"
  /\ row = [r \in Requests |-> "none"]
  /\ lease = [r \in Requests |-> "none"]
  /\ broken = {} /\ faults = 0

Chat(r)      == shape[r].endpoint = "chat"
Streams(r)   == shape[r].stream
Continues(r) == shape[r].chain = "continuation"
First(r)     == shape[r].chain = "first"
Owner(r)     == key.owner = r
Replays(r)   == "replay" \in seen[r]

Fault == faults < MaxFaults /\ faults' = faults + 1

-----------------------------------------------------------------------------
(* What a handler does.                                                    *)

Goes(r, to) == pc' = [pc EXCEPT ![r] = to]
Sees(r, things) == seen' = [seen EXCEPT ![r] = @ \cup things]

\* The handler writes frames one after the other, and goes on when they are out.
Says(r, k, frames, to) ==
  /\ sse' = [sse EXCEPT ![r] = Enqueue(k, Head(frames))]
  /\ script' = [script EXCEPT ![r] = Tail(frames)]
  /\ goal' = [goal EXCEPT ![r] = to]
  /\ Goes(r, "saying")

Quiet == UNCHANGED <<sse, script, goal>>

Opening(r) == IF Chat(r) THEN <<"role">> ELSE <<"created", "in_progress">>
ToolFrames(r) == IF Chat(r) THEN <<"tool_calls">> ELSE <<"item">>
Closing(r) == IF Chat(r) THEN <<"finish", "[DONE]">> ELSE <<"done", "completed">>

\* finalizationFailed keeps a chat stream from saying [DONE].
ErrorFrames(r) ==
  IF Chat(r) /\ pc[r] # "delivering" THEN <<"error", "[DONE]">> ELSE <<"error">>

\* The invocation, or the replay, is there to be iterated.
Opens(r) ==
  IF Streams(r) THEN Says(r, Listen(sse[r]), Opening(r), "reading")
                ELSE Goes(r, "reading") /\ Quiet

\* The catch of a writer tells its client; that of a collector only closes.
Fails(r) ==
  /\ error' = [error EXCEPT ![r] = "error"]
  /\ IF Streams(r) THEN Says(r, sse[r], ErrorFrames(r), "closing")
                   ELSE Goes(r, "returning") /\ Quiet

\* A failure before there is anything to iterate, or after it.
FailsOutside(r, why) ==
  /\ error' = [error EXCEPT ![r] = why]
  /\ Goes(r, "failing") /\ Quiet

-----------------------------------------------------------------------------
(* Before the run.                                                         *)

\* begin() decides.  Requests that share no key do not interact here: the first
\* finds its key free, or has none, and its duplicates find the key taken.
Arrive(r) ==
  /\ pc[r] = "new"
  /\ \E s \in Shapes :
       /\ shape' = [shape EXCEPT ![r] = s]
       /\ \/ /\ r \notin Duplicates /\ (s.keyed => key = NoKey)
             /\ key' = IF s.keyed THEN [owner |-> r, status |-> "active"] ELSE key
             /\ Goes(r, "begun")
             /\ UNCHANGED <<seen, error>>
          \/ /\ r \in Duplicates /\ key # NoKey /\ s = shape[key.owner]
             /\ Goes(r, "attaching") /\ Sees(r, {"replay"})
             /\ UNCHANGED <<key, error>>
          \/ /\ r \in Duplicates /\ key # NoKey /\ s.keyed /\ s # shape[key.owner]
             /\ s.endpoint = shape[key.owner].endpoint
             /\ Goes(r, "failing") /\ Sees(r, {"replay"})
             /\ error' = [error EXCEPT ![r] = "conflict"]
             /\ UNCHANGED key
  /\ UNCHANGED <<sse, script, goal, deltas, told, answer, row, lease, broken, faults>>

\* attach() waits for the owner to settle.
Attach(r) ==
  /\ pc[r] = "attaching"
  /\ \/ /\ key.status = "completed" /\ Streams(r)
        /\ Opens(r) /\ Sees(r, {"invoked"})
        /\ UNCHANGED <<error, told>>
     \/ /\ key.status = "completed" /\ ~Streams(r)
        /\ told' = [told EXCEPT ![r] = "success"]
        /\ Goes(r, "over") /\ Quiet
        /\ UNCHANGED <<error, seen>>
     \/ /\ key.status = "failed"
        /\ FailsOutside(r, "error")
        /\ UNCHANGED <<told, seen>>
  /\ UNCHANGED <<shape, deltas, tableVars>>

\* The owner's entry is evicted from the replay buffer, or already was.
Evicted(r) ==
  /\ pc[r] = "attaching"
  /\ FailsOutside(r, "unavailable")
  /\ UNCHANGED <<shape, seen, deltas, told, tableVars>>

\* acquireParent, which a parent that cannot be continued refuses; chat and an
\* unstored response have nothing to acquire.
Start(r) ==
  /\ pc[r] = "begun"
  /\ \/ /\ ~First(r)
        /\ row' = IF Continues(r) THEN [row EXCEPT ![r] = "held"] ELSE row
        /\ Opens(r) /\ Sees(r, {"invoked"})
        /\ UNCHANGED error
     \/ /\ First(r)
        /\ Goes(r, "making") /\ Quiet
        /\ UNCHANGED <<row, seen, error>>
     \/ /\ Continues(r)
        /\ FailsOutside(r, "error")
        /\ UNCHANGED <<row, seen>>
  /\ UNCHANGED <<shape, deltas, told, key, answer, lease, broken, faults>>

\* createResponse waits for the other workspace operations.
MakeWorkspace(r) ==
  /\ pc[r] = "making"
  /\ \/ /\ lease' = [lease EXCEPT ![r] = "leased"]
        /\ Opens(r) /\ Sees(r, {"invoked"})
        /\ UNCHANGED <<error, faults>>
     \/ /\ Fault /\ FailsOutside(r, "error")
        /\ UNCHANGED <<lease, seen>>
  /\ UNCHANGED <<shape, deltas, told, key, answer, row, broken>>

-----------------------------------------------------------------------------
(* The stream.                                                             *)

\* The frame is out: the next one, or close(), which does nothing when the client
\* is known to be gone.
Proceed(r) ==
  /\ pc[r] = "saying" /\ sse[r].said = "written"
  /\ IF script[r] # <<>>
       THEN Says(r, sse[r], script[r], goal[r])
       ELSE /\ Goes(r, goal[r])
            /\ sse' = IF goal[r] = "closing" /\ ~sse[r].marked
                        THEN [sse EXCEPT ![r] = Ending(@)] ELSE sse
            /\ UNCHANGED <<script, goal>>
  /\ UNCHANGED <<shape, seen, deltas, error, told, tableVars>>

\* The writer's catch and finally for a client that is gone.
HangUp(r) ==
  /\ \/ pc[r] = "saying" /\ sse[r].said = "lost"
     \/ pc[r] = "reading" /\ sse[r].marked
  /\ sse' = [sse EXCEPT ![r] = Deafen(@)]
  /\ error' = [error EXCEPT ![r] = IF @ = "none" THEN "disconnected" ELSE @]
  /\ Goes(r, "returning")
  /\ UNCHANGED <<script, goal, shape, seen, deltas, told, tableVars>>

\* close() has waited for all that is queued, heartbeats too, and ends.
Close(r) ==
  /\ pc[r] = "closing" /\ (Flushed(sse[r]) \/ sse[r].marked)
  /\ sse' = [sse EXCEPT ![r] =
       [Deafen(@) EXCEPT !.socket = IF @ = "open" /\ ~sse[r].marked THEN "ended" ELSE @]]
  /\ Goes(r, IF error[r] = "none" THEN "over" ELSE "returning")
  /\ UNCHANGED <<script, goal, shape, seen, deltas, error, told, tableVars>>

-----------------------------------------------------------------------------
(* The events of the run.                                                  *)

\* A client known to be gone wins the race of nextEvent.
Reading(r) == pc[r] = "reading" /\ ~sse[r].marked /\ "completed" \notin seen[r]

Passes(r) == UNCHANGED <<sse, script, goal, pc, error>>

\* session_started: a new response inserts its row, unless that throws.
Session(r) ==
  /\ Reading(r) /\ "session" \notin seen[r] /\ deltas[r] = 0
  /\ Replays(r) => ~Chat(r)
  /\ Sees(r, {"session"})
  /\ \/ /\ shape[r].chain \in {"first", "unstored"} /\ ~Replays(r)
        /\ \/ row' = [row EXCEPT ![r] = "open"] /\ Passes(r) /\ UNCHANGED faults
           \/ Fault /\ Fails(r) /\ UNCHANGED row
     \/ /\ ~(shape[r].chain \in {"first", "unstored"} /\ ~Replays(r))
        /\ Passes(r) /\ UNCHANGED <<row, faults>>
  /\ UNCHANGED <<shape, deltas, told, key, answer, lease, broken>>

Ready(r) == Reading(r) /\ ("session" \in seen[r] \/ (Replays(r) /\ Chat(r)))

Shown(r) ==
  IF Streams(r) THEN Says(r, sse[r], <<"delta">>, "reading") /\ UNCHANGED error ELSE Passes(r)

\* A delta of the run: text, or a piece of the envelope, in which the decoder
\* finds text, nothing yet, or a mistake.
Delta(r) ==
  /\ Ready(r) /\ ~Replays(r) /\ deltas[r] < MaxDeltas
  /\ deltas' = [deltas EXCEPT ![r] = @ + 1]
  /\ \/ Shown(r) /\ Sees(r, {"text"})
     \/ shape[r].tools /\ Passes(r) /\ UNCHANGED seen
     \/ shape[r].tools /\ Fails(r) /\ UNCHANGED seen
  /\ UNCHANGED <<shape, told, tableVars>>

\* The one delta of replayChatEvents and replayResponseEvents: the answer as the
\* envelope, except that a response without calls is replayed as plain text,
\* which a writer with a decoder refuses.
ReplayedDelta(r) ==
  /\ Ready(r) /\ Replays(r) /\ deltas[r] = 0
  /\ deltas' = [deltas EXCEPT ![r] = 1]
  /\ \/ answer = "tools" /\ Passes(r) /\ UNCHANGED seen
     \/ /\ answer = "text" /\ (shape[r].tools => Chat(r))
        /\ Shown(r) /\ Sees(r, {"text"})
     \/ /\ answer = "text" /\ shape[r].tools /\ ~Chat(r)
        /\ Fails(r) /\ UNCHANGED seen
  /\ UNCHANGED <<shape, told, tableVars>>

\* completed
Completed(r) ==
  /\ Ready(r) /\ (Replays(r) => deltas[r] = 1)
  /\ Sees(r, {"completed"})
  /\ Passes(r)
  /\ UNCHANGED <<shape, deltas, told, tableVars>>

\* failed, which may say that the native state advanced; cancelled; or the first
\* next() throws because the run cannot be started.
Failed(r) ==
  /\ Reading(r) /\ ~Replays(r)
  /\ \/ UNCHANGED seen
     \/ Sees(r, {"advanced"}) /\ "session" \notin seen[r]
  /\ Fails(r)
  /\ UNCHANGED <<shape, deltas, told, tableVars>>

\* The iterator is done: the decoder finishes with the text or with calls, or
\* finds that the envelope is not one.
Ended(r) ==
  /\ pc[r] = "reading" /\ ~sse[r].marked /\ "completed" \in seen[r]
  /\ \/ /\ IF Replays(r) THEN answer = "text"
                         ELSE shape[r].tools => deltas[r] > 0
        /\ Goes(r, "finalizing") /\ Quiet
        /\ Sees(r, {"closed"}) /\ UNCHANGED error
     \/ /\ shape[r].tools /\ "text" \notin seen[r]
        /\ IF Replays(r) THEN answer = "tools" ELSE deltas[r] > 0
        /\ Sees(r, {"closed", "tools"}) /\ UNCHANGED error
        /\ IF Streams(r) THEN Says(r, sse[r], ToolFrames(r), "finalizing")
                         ELSE Goes(r, "finalizing") /\ Quiet
     \/ /\ shape[r].tools /\ ~Replays(r)
        /\ Fails(r) /\ Sees(r, {"closed"})
  /\ UNCHANGED <<shape, deltas, told, tableVars>>

Event(r) ==
  \/ Session(r) \/ Delta(r) \/ ReplayedDelta(r) \/ Completed(r) \/ Failed(r) \/ Ended(r)

-----------------------------------------------------------------------------
(* After the run.                                                          *)

\* The first half of beforeTerminal, or of what follows the collector: a
\* continuation completes its parent, and a leased workspace is released.
Finalize(r) ==
  /\ pc[r] = "finalizing"
  /\ \/ /\ row' = IF Continues(r) /\ ~Replays(r) THEN [row EXCEPT ![r] = "open"] ELSE row
        /\ Goes(r, IF lease[r] = "leased" THEN "releasing" ELSE "delivering")
        /\ Quiet /\ UNCHANGED <<error, faults>>
     \/ /\ Continues(r) /\ ~Replays(r)
        /\ Fault /\ Fails(r)
        /\ UNCHANGED row
  /\ UNCHANGED <<shape, seen, deltas, told, key, answer, lease, broken>>

\* What complete() stores for the duplicates.
Answer(r) == IF "tools" \in seen[r] THEN "tools" ELSE "text"

Tells(r) ==
  IF Streams(r)
    THEN Says(r, sse[r], Closing(r), "closing") /\ UNCHANGED told
    ELSE Goes(r, "over") /\ told' = [told EXCEPT ![r] = "success"] /\ Quiet

\* Mutant of Deliver: the client is told before the key is completed.
DeliverFirst(r) ==
  /\ pc[r] = "delivering"
  /\ \/ Tells(r) /\ Sees(r, {"finalized"}) /\ UNCHANGED <<key, answer, error, faults>>
     \/ /\ Owner(r) /\ Fault
        /\ IF Streams(r) THEN Fails(r) ELSE FailsOutside(r, "error")
        /\ UNCHANGED <<told, key, answer, seen>>
  /\ UNCHANGED <<shape, deltas, row, lease, broken>>

\* The owner's complete(), then the answer.  What a JSON handler has already
\* kept of the chain stays when it throws; a stream settles it again.
Deliver(r) ==
  /\ pc[r] = "delivering"
  /\ \/ /\ key' = IF Owner(r) THEN [key EXCEPT !.status = "completed"] ELSE key
        /\ answer' = IF Owner(r) THEN Answer(r) ELSE answer
        /\ Sees(r, {"finalized"}) /\ Tells(r)
        /\ UNCHANGED <<error, faults>>
     \/ /\ Owner(r) /\ Fault
        /\ IF Streams(r) THEN Fails(r) ELSE FailsOutside(r, "error")
        /\ UNCHANGED <<told, key, answer, seen>>
  /\ UNCHANGED <<shape, deltas, row, lease, broken>>

\* The row of a chain whose request has failed: a continuation fails its chain or
\* lets go of its parent, a new response fails.
SettledRow(r) ==
  CASE Continues(r) /\ row[r] = "held" ->
         IF seen[r] \cap {"session", "advanced"} # {} THEN "failed" ELSE "released"
    [] First(r) /\ row[r] = "open" -> "failed"
    [] OTHER -> row[r]

Unfinished(r) == ~Replays(r) /\ "finalized" \notin seen[r]

\* The iterator has been closed; the catch settles the chain unless the answer
\* was finalized, and may fail to.
Return(r) ==
  /\ pc[r] = "returning"
  /\ Sees(r, {"closed"})
  /\ \/ /\ row' = IF Unfinished(r) THEN [row EXCEPT ![r] = SettledRow(r)] ELSE row
        /\ UNCHANGED <<broken, faults>>
     \/ /\ Unfinished(r) /\ SettledRow(r) # row[r]
        /\ Fault /\ broken' = broken \cup {r}
        /\ UNCHANGED row
  /\ Goes(r, IF lease[r] = "leased" THEN "releasing" ELSE "failing")
  /\ UNCHANGED <<sse, script, goal, shape, deltas, error, told, key, answer, lease>>

\* Mutant of ReleaseWorkspace: only the workspace of an answer is released.
ReleaseOfAnswer(r) ==
  /\ pc[r] = "releasing"
  /\ Goes(r, IF error[r] = "none" THEN "delivering" ELSE "failing")
  /\ lease' = IF error[r] = "none" THEN [lease EXCEPT ![r] = "released"] ELSE lease
  /\ UNCHANGED <<sse, script, goal, shape, seen, deltas, error, told, key, answer, row, broken, faults>>

\* releaseWorkspace; the workspace of a response without a row is cleaned, unless
\* that fails.  A persistent lease is released in memory only.
ReleaseWorkspace(r) ==
  /\ pc[r] = "releasing"
  /\ Goes(r, IF error[r] = "none" THEN "delivering" ELSE "failing")
  /\ \/ /\ lease' = [lease EXCEPT ![r] =
              IF error[r] # "none" /\ row[r] = "none" THEN "cleaned" ELSE "released"]
        /\ UNCHANGED faults
     \/ /\ error[r] # "none" /\ row[r] = "none"
        /\ Fault /\ lease' = [lease EXCEPT ![r] = "released"]
  /\ UNCHANGED <<sse, script, goal, shape, seen, deltas, error, told, key, answer, row, broken>>

\* Mutant of FailHandler: headersSent is not looked at.
FailHandlerAloud(r) ==
  /\ pc[r] = "failing"
  /\ key' = IF Owner(r) /\ key.status = "active" THEN [key EXCEPT !.status = "failed"] ELSE key
  /\ told' = [told EXCEPT ![r] = "error"]
  /\ Goes(r, "over")
  /\ UNCHANGED <<sse, script, goal, shape, seen, deltas, error, answer, row, lease, broken, faults>>

\* Mutant of FailHandler: a client that left fails nothing.
FailHandlerUnlessLeft(r) ==
  /\ pc[r] = "failing"
  /\ IF Owner(r) /\ key.status = "active" /\ error[r] # "disconnected"
       THEN key' = [key EXCEPT !.status = "failed"] /\ answer' = "error"
       ELSE UNCHANGED <<key, answer>>
  /\ told' = IF Streams(r) /\ "invoked" \in seen[r] THEN told
                                                    ELSE [told EXCEPT ![r] = "error"]
  /\ Goes(r, "over")
  /\ UNCHANGED <<sse, script, goal, shape, seen, deltas, error, row, lease, broken, faults>>

\* failChatOwner, failResponseOwner: fail() of a key that is still active, whose
\* own failure is swallowed.  Only a client without a stream gets the error.
FailHandler(r) ==
  /\ pc[r] = "failing"
  /\ \/ /\ IF Owner(r) /\ key.status = "active"
             THEN key' = [key EXCEPT !.status = "failed"] /\ answer' = "error"
             ELSE UNCHANGED <<key, answer>>
        /\ UNCHANGED <<broken, faults>>
     \/ /\ Owner(r) /\ key.status = "active"
        /\ Fault /\ broken' = broken \cup {r}
        /\ UNCHANGED <<key, answer>>
  /\ told' = IF Streams(r) /\ "invoked" \in seen[r] THEN told
                                                    ELSE [told EXCEPT ![r] = "error"]
  /\ Goes(r, "over")
  /\ UNCHANGED <<sse, script, goal, shape, seen, deltas, error, row, lease>>

-----------------------------------------------------------------------------

Before(r) == Attach(r) \/ Start(r) \/ MakeWorkspace(r)
Writing(r) == Proceed(r) \/ HangUp(r) \/ Close(r)
After(r) == Finalize(r) \/ Deliver(r) \/ Return(r) \/ ReleaseWorkspace(r) \/ FailHandler(r)

Handler(r) == Before(r) \/ Writing(r) \/ Event(r) \/ After(r)

\* The client of a JSON answer is not looked at.
Connection(r) ==
  /\ Streams(r) /\ pc[r] # "over"
  /\ Transport(r)
  /\ UNCHANGED <<handlerVars, tableVars>>

\* Every handler is done: anything else that stops is a deadlock.
Done == (\A r \in Requests : pc[r] \in {"new", "over"}) /\ UNCHANGED vars

Next == Done \/ \E r \in Requests : Arrive(r) \/ Evicted(r) \/ Handler(r) \/ Connection(r)

Spec == Init /\ [][Next]_vars

\* Promises settle and the file system answers; a run ends by its provider or its
\* run timer (Invocation); and a client reads what it was sent or goes away,
\* which nothing in the gateway sees to.
FairSpec ==
  /\ Spec
  /\ \A r \in Requests :
       /\ WF_vars(Handler(r))
       /\ WF_vars(Connection(r) /\ (Write(r) \/ Refuse(r)))
       /\ WF_vars(Connection(r) /\ (Read(r) \/ Leave(r)))

-----------------------------------------------------------------------------
(* Properties.                                                             *)

Telling == {"finish", "done", "completed"}

Succeeded(r) == told[r] = "success" \/ ToSet(sse[r].wire) \cap Telling # {}
ToldError(r) == told[r] = "error" \/ "error" \in ToSet(sse[r].wire)

\* What a client has been told stays true whatever happens next: once any frame
\* of a success is on the wire its key is completed, its response or its
\* continuation is in the table and open, and its workspace is given back; and
\* without faults, who was told of an error finds the key failed and no
\* continuation made.  A duplicate that waited and stays hears of the success of its
\* owner, or that the answer is not there any more.
ToldIsKept ==
  \A r \in Requests :
    /\ Succeeded(r) =>
         /\ ~ToldError(r)
         /\ Owner(r) \/ Replays(r) => key.status = "completed"
         /\ shape[r].chain # "none" /\ ~Replays(r) => row[r] = "open"
         /\ lease[r] \in {"none", "released"}
    /\ Replays(r) /\ pc[r] = "over" /\ sse[r].socket # "gone" /\ key.status = "completed"
         => Succeeded(r) \/ error[r] \in {"unavailable", "conflict"}
                         \/ (shape[r].tools /\ ~Chat(r) /\ answer = "text")
    /\ ToldError(r) /\ pc[r] = "over" /\ faults = 0 /\ ~Replays(r) =>
         /\ Owner(r) => key.status = "failed"
         /\ shape[r].chain \in {"first", "continuation"} => row[r] # "open"

\* All the transcripts of a request.
Transcripts(r) ==
  {Opening(r) \o [i \in 1 .. n |-> "delta"] \o t \o e :
     n \in 0 .. MaxDeltas,
     t \in {<<>>} \cup IF shape[r].tools THEN {ToolFrames(r)} ELSE {},
     e \in {Closing(r), <<"error">>} \cup IF Chat(r) THEN {<<"error", "[DONE]">>} ELSE {}}

\* Heartbeats apart, a client reads the beginning of a transcript: nothing out of
\* order, repeated or after the end; and all of one if its stream was ended for it
\* and not cut.
TranscriptIsLegal ==
  \A r \in Requests :
    LET data == sse[r].wire IN
    /\ data = <<>> \/ \E t \in Transcripts(r) : IsPrefix(data, t)
    /\ sse[r].socket = "ended" => data \in Transcripts(r)
    /\ told[r] # "none" => data = <<>>

\* Under back-pressure one frame waits at a time: a run is asked for its next
\* event only when what it said before is out, and only heartbeats pile up.
OneFrameWaits ==
  \A r \in Requests :
    LET waiting == Len(SelectSeq(sse[r].tail, LAMBDA f : f # Beat)) IN
    /\ waiting <= 1
    /\ waiting = 1 => pc[r] = "saying"

\* No more than one frame is held for a client that reads slowly, and however its
\* request ends nothing is held: no timer or listener, no iterator, no lease of a
\* workspace, no continuation, no key that its duplicates wait for, and, without
\* faults, no workspace that nobody will use.
NothingHeld ==
  /\ OneFrameWaits
  /\ \A r \in Requests : pc[r] = "over" =>
       /\ ~sse[r].listening
       /\ "invoked" \in seen[r] /\ ~(Replays(r) /\ ~Streams(r)) => "closed" \in seen[r]
       /\ lease[r] # "leased"
       /\ First(r) /\ row[r] = "none" /\ faults = 0 => lease[r] # "released"
       /\ row[r] = "held" \/ (Owner(r) /\ key.status = "active") => r \in broken

\* Every request that arrives is over in the end, unless it waits for an owner
\* whose failure could not be stored.
HandlersEnd ==
  \A r \in Requests :
    pc[r] # "new" ~> pc[r] = "over" \/ (pc[r] = "attaching" /\ key.owner \in broken)

\* tests/provider-runtime/idempotency.test.ts: "returns active duplicates and
\* completed replay without creating another Run", and of Responses: a replay
\* equals the response.  Whoever waited for a completed request, stays, and finds
\* the answer still there hears of its success.
ReplayTellsTheAnswer ==
  \A r \in Requests :
    /\ pc[r] = "over" /\ Replays(r) /\ sse[r].socket # "gone"
    /\ key.status = "completed" /\ error[r] \notin {"unavailable", "conflict"}
    => Succeeded(r)

=============================================================================

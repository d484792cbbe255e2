--------------------------- MODULE ProviderStream ---------------------------
(***************************************************************************)
(* One provider run inside InvocationService (src/provider-runtime/        *)
(* invocation-service.ts): the scheduled operation (workspace, images,     *)
(* provider iteration with its one retry, cleanup), the BoundedChannel of  *)
(* one slot between the operation and the consumer, and the three ways a   *)
(* run is aborted: its run timer, cancel(), and the consumer's return().   *)
(*                                                                         *)
(* A step is one macrotask (an answer of the provider, the file system, a  *)
(* timer, or a call of the consumer) with every microtask it triggers.     *)
(* Scheduler and database rows are modelled in Scheduler and Invocation.   *)
(***************************************************************************)
EXTENDS Naturals, Sequences, ImageAssets

CONSTANTS
  MaxItems,   \* bound: session_started and delta events produced in a run
  NoEvent     \* nothing waits in the channel

VARIABLES
  op,         \* where the operation awaits
  batch,      \* the image inputs, see ImageAssets
  leased,     \* the workspace lease is held
  attempt,    \* 0 or 1
  terminal,   \* the terminal event of this attempt, or NoEvent
  session,    \* sessionStarted
  advanced,   \* nativeStateAdvanced
  outcome,    \* the operation's terminal while it cleans up; the run's once settled
  abort,      \* the reason of the operation's signal, "none" while not aborted
  produced,   \* how many non-terminal events were sent to the channel
  effects,    \* the attempts in which the provider reported a native effect
  pending,    \* BoundedChannel.pending
  closed,     \* BoundedChannel.closed
  reading,    \* the consumer's next() is unanswered: BoundedChannel.receiver
  got,        \* what the consumer's next() returned
  ended,      \* the consumer's next() said done, or threw
  returned,   \* the consumer's return(): "no", "asked", "done"
  cancelling  \* adapter.cancel() of that return() is unanswered

opVars       == <<op, batch, leased, attempt, terminal, session, advanced,
                  outcome, abort, produced, effects>>
consumerVars == <<returned, cancelling>>
channelVars  == <<pending, closed, reading, got, ended>>
vars         == <<opVars, consumerVars, channelVars>>

TerminalTypes == {"completed", "cancelled", "failed"}
Item(type, n) == [type |-> type, n |-> n]
Failed(code, adv) == [type |-> "failed", code |-> code, advanced |-> adv]
Completed == [type |-> "completed"]
Cancelled == [type |-> "cancelled"]

\* Terminal events an adapter yields; spawn_failed is a transient spawn failure.
Yielded == {Completed, Cancelled} \cup
           {Failed(c, adv) : c \in {"spawn_failed", "refused"}, adv \in BOOLEAN}

Codes == {"spawn_failed", "refused", "queue", "thrown", "adapter_protocol_error",
          "provider_timeout", "image_cleanup_failed", "workspace_cleanup_error"}
Outcomes == {Completed, Cancelled} \cup {Failed(c, adv) : c \in Codes, adv \in BOOLEAN}
Items == {Item(t, n) : t \in {"session_started", "text_delta"}, n \in 1..MaxItems}

ASSUME ProviderStreamAssumption == MaxItems \in Nat /\ NoEvent \notin Items \cup Outcomes

Init ==
  /\ op = "queued"
  /\ batch \in Batches
  /\ leased = FALSE
  /\ attempt = 0
  /\ terminal = NoEvent
  /\ session = FALSE
  /\ advanced = FALSE
  /\ outcome = NoEvent
  /\ abort = "none"
  /\ produced = 0
  /\ effects = {}
  /\ pending = NoEvent
  /\ closed = FALSE
  /\ reading = FALSE
  /\ got = <<>>
  /\ ended = FALSE
  /\ returned = "no"
  /\ cancelling = FALSE

-----------------------------------------------------------------------------
(* The end of the operation.                                               *)

ThrownBy(reason, adv) ==
  IF reason = "timeout" THEN Failed("provider_timeout", adv) ELSE Cancelled

\* Mutant of Final: a result computed before the abort is kept.
FinalIgnoresAbort(o, reason) == o

\* The signal is looked at once more when everything is released.
Final(o, reason) == IF reason = "none" THEN o ELSE ThrownBy(reason, advanced)

\* The outcome is sent to the channel without a signal, which is then closed.
\* An undelivered event in the slot would be a channel_send_overlap, and close
\* the channel with that error.
Forward(o) ==
  CASE closed -> UNCHANGED channelVars
    [] ~closed /\ reading ->
         /\ got' = Append(got, o)
         /\ reading' = FALSE
         /\ closed' = TRUE
         /\ UNCHANGED <<pending, ended>>
    [] ~closed /\ ~reading /\ pending = NoEvent ->
         /\ pending' = o
         /\ UNCHANGED <<closed, reading, got, ended>>
    [] OTHER ->
         /\ pending' = NoEvent
         /\ closed' = TRUE
         /\ UNCHANGED <<reading, got, ended>>

SettleWith(o) ==
  /\ op' = "settled"
  /\ outcome' = Final(o, abort)
  /\ Forward(Final(o, abort))

\* Mutant of CleanupOp: the image lease is forgotten.
CleanupSkipsImages(b) == "unlease"

\* The cleanup a finished, failed or aborted iteration goes to.
CleanupOp(b) == IF b.at = "held" THEN "unimage" ELSE "unlease"

Cleanup(o) ==
  /\ op' = CleanupOp(batch)
  /\ outcome' = o

ImagesReleased(ok) ==
  /\ op = "unimage"
  /\ op' = "unlease"
  /\ batch' = Released(batch, ok)
  /\ outcome' = IF ok \/ outcome = Cancelled THEN outcome
                ELSE Failed("image_cleanup_failed", advanced)
  /\ UNCHANGED <<leased, attempt, terminal, session, advanced, abort, produced, effects,
                 channelVars, consumerVars>>

WorkspaceReleased(ok) ==
  /\ op = "unlease"
  /\ SettleWith(IF ok \/ outcome = Cancelled THEN outcome
                ELSE Failed("workspace_cleanup_error", advanced))
  /\ leased' = FALSE
  /\ UNCHANGED <<batch, attempt, terminal, session, advanced, abort, produced, effects,
                 consumerVars>>

-----------------------------------------------------------------------------
(* The start of the operation.                                             *)

Admitted ==
  /\ op = "queued"
  /\ op' = "workspace"
  /\ UNCHANGED <<batch, leased, attempt, terminal, session, advanced, outcome, abort,
                 produced, effects, channelVars, consumerVars>>

\* queue_full or queue_timeout.
NotAdmitted ==
  /\ op = "queued"
  /\ SettleWith(Failed("queue", advanced))
  /\ UNCHANGED <<batch, leased, attempt, terminal, session, advanced, abort, produced, effects,
                 consumerVars>>

\* With an aborted signal the iteration ends before it has begun.
StartProvider(b) ==
  IF abort = "none" THEN op' = "reading" /\ UNCHANGED outcome
  ELSE op' = CleanupOp(b) /\ outcome' = ThrownBy(abort, advanced)

Thrown(code) ==
  IF abort = "none" THEN Failed(code, advanced) ELSE ThrownBy(abort, advanced)

\* The operation awaits materialize(), or goes on with what it answers.
Materializing(b) ==
  /\ batch' = b
  /\ CASE b.at = "held" -> StartProvider(b)
       [] b.at = "refused" ->
            /\ op' = "unlease"
            /\ outcome' = Thrown(b.error)
       [] OTHER -> op' = "images" /\ UNCHANGED outcome

WorkspaceAcquired(ok) ==
  /\ op = "workspace"
  /\ \/ ~ok /\ SettleWith(Thrown("thrown")) /\ UNCHANGED <<batch, leased>>
     \/ /\ ok
        /\ leased' = TRUE
        /\ \/ batch.wanted = 0 /\ StartProvider(batch) /\ UNCHANGED batch
           \/ batch.wanted > 0 /\ Materializing(Begun(batch))
           \/ batch.wanted > 0 /\ Materializing(Refused(batch))   \* not supported
        /\ UNCHANGED channelVars
  /\ UNCHANGED <<attempt, terminal, session, advanced, abort, produced, effects, consumerVars>>

ImagesStored(ok) ==
  /\ op = "images"
  /\ \E b \in FilesAnswer(batch, ok, abort # "none") : Materializing(b)
  /\ UNCHANGED <<leased, attempt, terminal, session, advanced, abort, produced, effects,
                 channelVars, consumerVars>>

\* The network answers, or the download's own timer fires.
ImageFetched ==
  /\ op = "images" /\ OnNetwork(batch)
  /\ \E b \in NetworkAnswer(batch) \cup {Interrupted(batch)} : Materializing(b)
  /\ UNCHANGED <<leased, attempt, terminal, session, advanced, abort, produced, effects,
                 channelVars, consumerVars>>

-----------------------------------------------------------------------------
(* iterateProvider: each action is one answer of the adapter's iterator.   *)

\* The order of events the adapter has to keep.
Accepted(type) == terminal = NoEvent /\ (type = "session_started" <=> ~session)

\* channel.send(event, signal) of the operation.
SendItem(e) ==
  IF reading
    THEN /\ got' = Append(got, e)
         /\ reading' = FALSE
         /\ UNCHANGED <<op, pending, closed, ended>>
    ELSE /\ pending' = e
         /\ op' = "sending"
         /\ UNCHANGED <<closed, reading, got, ended>>

YieldItem(type) ==
  /\ op = "reading"
  /\ produced < MaxItems
  /\ Accepted(type)
  /\ session' = TRUE
  /\ advanced' = TRUE
  /\ effects' = effects \cup {attempt}
  /\ produced' = produced + 1
  /\ SendItem(Item(type, produced + 1))
  /\ UNCHANGED <<batch, leased, attempt, terminal, outcome, abort, consumerVars>>

YieldTerminal(e) ==
  /\ op = "reading"
  /\ terminal = NoEvent
  /\ terminal' = e
  /\ effects' = IF e.type = "failed" /\ e.advanced THEN effects \cup {attempt} ELSE effects
  /\ UNCHANGED <<op, batch, leased, attempt, session, advanced, outcome, abort, produced,
                 channelVars, consumerVars>>

\* An unparsable event, one out of order or one after the terminal event: the
\* iterator is told to return, and awaited.
YieldInvalid ==
  /\ op = "reading"
  /\ op' = "closing"
  /\ UNCHANGED <<batch, leased, attempt, terminal, session, advanced, outcome, abort,
                 produced, effects, channelVars, consumerVars>>

\* What an adapter throws may itself be an abort or a timeout of its own.
OwnErrors == {Failed("thrown", advanced), ThrownBy("timeout", advanced), Cancelled}

\* What return() throws takes the place of the protocol error, unless the run was
\* aborted.
IteratorReturned(ok) ==
  /\ op = "closing"
  /\ \E o \in IF ok \/ abort # "none" THEN {Failed("adapter_protocol_error", advanced)}
                                    ELSE OwnErrors : Cleanup(o)
  /\ UNCHANGED <<batch, leased, attempt, terminal, session, advanced, abort, produced,
                 effects, channelVars, consumerVars>>

AdapterThrows ==
  /\ op = "reading"
  /\ \E o \in OwnErrors : Cleanup(o)
  /\ UNCHANGED <<batch, leased, attempt, terminal, session, advanced, abort, produced,
                 effects, channelVars, consumerVars>>

\* Mutant of Retryable: any transient code is retried.
RetryableAnyhow(e) == e.type = "failed" /\ e.code = "spawn_failed"

Retryable(e) == e = Failed("spawn_failed", FALSE) /\ ~session

\* The iterator is exhausted.
Exhausted ==
  /\ op = "reading"
  /\ IF terminal # NoEvent /\ attempt = 0 /\ Retryable(terminal)
       THEN /\ attempt' = 1
            /\ terminal' = NoEvent
            /\ UNCHANGED <<op, outcome, advanced>>
       ELSE /\ Cleanup(IF terminal = NoEvent
                         THEN Failed("adapter_protocol_error", advanced) ELSE terminal)
            /\ advanced' = (advanced \/ (terminal # NoEvent /\ terminal.type = "failed"
                                         /\ terminal.advanced))
            /\ UNCHANGED <<attempt, terminal>>
  /\ UNCHANGED <<batch, leased, session, abort, produced, effects, channelVars, consumerVars>>

-----------------------------------------------------------------------------
(* Aborts.                                                                 *)

\* Mutant of Stopped: the listener of a waiting send is forgotten, and the
\* event stays in the slot.
StoppedKeepsSlot(reason) ==
  /\ op \in {"reading", "sending"}
  /\ Cleanup(ThrownBy(reason, advanced))
  /\ UNCHANGED pending

\* Mutant of Stopped: iterator.next() is awaited without watching the signal.
StoppedWhenSending(reason) ==
  /\ op \in {"reading", "sending"}
  /\ op = "sending" => Cleanup(ThrownBy(reason, advanced))
  /\ op = "reading" => UNCHANGED <<op, outcome>>
  /\ pending' = NoEvent

\* The operation awaits the provider or the consumer: both waits reject at
\* once, and iterator.return() is called but not awaited.
Stopped(reason) ==
  /\ op \in {"reading", "sending"}
  /\ Cleanup(ThrownBy(reason, advanced))
  /\ pending' = NoEvent

\* What an abort of the operation's signal does; its first reason stays.
Abort(reason) ==
  /\ abort' = IF op = "settled" \/ abort # "none" THEN abort ELSE reason
  /\ batch' = IF abort = "none" THEN Interrupted(batch) ELSE batch
  /\ \/ abort = "none" /\ Stopped(reason)
     \/ ~(abort = "none" /\ op \in {"reading", "sending"})
        /\ UNCHANGED <<op, outcome, pending>>

Timeout ==
  /\ op \notin {"queued", "settled"} /\ abort = "none"
  /\ Abort("timeout")
  /\ UNCHANGED <<leased, attempt, terminal, session, advanced, produced, effects,
                 closed, reading, got, ended, consumerVars>>

\* A waiting call is rejected by the scheduler; nothing has been acquired.
Cancel ==
  /\ op # "settled" /\ abort = "none"
  /\ IF op = "queued"
       THEN /\ op' = "settled"
            /\ abort' = "cancelled"
            /\ outcome' = Cancelled
            /\ Forward(Cancelled)
            /\ UNCHANGED <<batch, leased>>
       ELSE /\ Abort("cancelled")
            /\ UNCHANGED <<leased, closed, reading, got, ended>>
  /\ UNCHANGED <<attempt, terminal, session, advanced, produced, effects, consumerVars>>

-----------------------------------------------------------------------------
(* The consumer.                                                           *)

SawTerminal == \E i \in DOMAIN got : got[i].type \in TerminalTypes

\* The sender of what next() takes from the slot goes on: the operation reads
\* again, and after the terminal event the channel is closed.
TakePending ==
  /\ pending # NoEvent
  /\ got' = Append(got, pending)
  /\ pending' = NoEvent
  /\ closed' = (op = "settled")
  /\ op' = IF op = "sending" THEN "reading" ELSE op
  /\ UNCHANGED <<reading, ended>>

ConsumerNext ==
  /\ returned = "no" /\ ~reading /\ ~ended
  /\ \/ TakePending
     \/ pending = NoEvent /\ closed /\ ended' = TRUE
        /\ UNCHANGED <<op, pending, closed, reading, got>>
     \/ pending = NoEvent /\ ~closed /\ reading' = TRUE
        /\ UNCHANGED <<op, pending, closed, got, ended>>
  /\ UNCHANGED <<batch, leased, attempt, terminal, session, advanced, outcome, abort,
                 produced, effects, consumerVars>>

CloseChannel ==
  /\ closed' = TRUE
  /\ reading' = FALSE
  /\ ended' = (ended \/ reading)

ConsumerReturn ==
  /\ returned = "no"
  /\ returned' = "asked"
  /\ IF SawTerminal
       THEN UNCHANGED <<op, batch, outcome, abort, cancelling, channelVars>>
       ELSE /\ CloseChannel
            /\ cancelling' = (op # "queued")
            /\ IF op = "queued"
                 THEN op' = "settled" /\ abort' = "cancelled" /\ outcome' = Cancelled
                      /\ UNCHANGED <<batch, pending>>
                 ELSE IF op = "settled"
                   THEN pending' = NoEvent /\ UNCHANGED <<op, batch, outcome, abort>>
                 ELSE Abort("cancelled")
            /\ UNCHANGED got
  /\ UNCHANGED <<leased, attempt, terminal, session, advanced, produced, effects>>

AdapterCancelled ==
  /\ cancelling
  /\ cancelling' = FALSE
  /\ UNCHANGED <<opVars, channelVars, returned>>

\* return() awaits adapter.cancel() and then the run itself.
ReturnDone ==
  /\ returned = "asked" /\ ~cancelling /\ op = "settled"
  /\ returned' = "done"
  /\ UNCHANGED <<opVars, channelVars, cancelling>>

-----------------------------------------------------------------------------
Provider ==
  \/ \E type \in {"session_started", "text_delta"} : YieldItem(type)
  \/ \E e \in Yielded : YieldTerminal(e)
  \/ YieldInvalid \/ AdapterThrows \/ Exhausted \/ ImageFetched

FileSystem ==
  \E ok \in BOOLEAN : WorkspaceAcquired(ok) \/ ImagesStored(ok)
                      \/ ImagesReleased(ok) \/ WorkspaceReleased(ok)

Queue == Admitted \/ NotAdmitted

Closing == \E ok \in BOOLEAN : IteratorReturned(ok)

Next ==
  \/ Queue \/ FileSystem \/ Provider \/ Closing
  \/ Timeout \/ Cancel
  \/ ConsumerNext \/ ConsumerReturn \/ AdapterCancelled \/ ReturnDone

Spec == Init /\ [][Next]_vars

\* What has to go on for a return() to finish: the file system answers, and the
\* adapter settles its return() and its cancel().
ReturnFairness ==
  /\ WF_vars(FileSystem) /\ WF_vars(Closing)
  /\ WF_vars(AdapterCancelled) /\ WF_vars(ReturnDone)

FairSpec == Spec /\ ReturnFairness

\* What a reader adds: it reads on, the run timer fires (the provider itself may
\* stay silent), and the scheduler takes every call out of its queue
\* (QueuedLeaves of Scheduler).
ReaderFairness == WF_vars(Queue) /\ WF_vars(Timeout) /\ WF_vars(ConsumerNext)

-----------------------------------------------------------------------------
(* Properties.                                                             *)

Ops == {"queued", "workspace", "images", "reading", "sending", "closing",
        "unimage", "unlease", "settled"}

\* Types of the variables of one run and its stream.
TypeOK ==
  /\ op \in Ops /\ BatchOK(batch) /\ leased \in BOOLEAN
  /\ attempt \in {0, 1} /\ effects \subseteq {0, 1} /\ produced \in 0..MaxItems
  /\ terminal \in Yielded \cup {NoEvent}
  /\ session \in BOOLEAN /\ advanced \in BOOLEAN
  /\ outcome \in Outcomes \cup {NoEvent}
  /\ abort \in {"none", "timeout", "cancelled"}
  /\ pending \in Items \cup Outcomes \cup {NoEvent}
  /\ closed \in BOOLEAN /\ reading \in BOOLEAN /\ ended \in BOOLEAN
  /\ got \in Seq(Items \cup Outcomes)
  /\ returned \in {"no", "asked", "done"} /\ cancelling \in BOOLEAN

\* The single slot of the channel and the two sides agree: an event waits in it
\* exactly while the operation waits in send() (or it is the terminal event of
\* a settled run), and a reader never waits next to an event or on a channel
\* that nobody will write to again.  Neither overlap error can then happen.
ChannelAgrees ==
  /\ TypeOK
  /\ op = "sending" <=> pending \in Items
  /\ pending \in Outcomes => op = "settled"
  /\ reading => pending = NoEvent /\ ~closed /\ op # "settled"

\* A run is never retried once an attempt has had an effect in the provider's
\* own state: no prompt reaches a session twice.
AtMostOneEffect == \A a, b \in effects : a = b

\* The provider runs with all the images of its request, within the limits, or
\* not at all; and a directory that outlives the run is one whose removal
\* failed, of which the outcome of a run that nobody gave up tells.
ImagesAreWhole ==
  /\ op \in {"reading", "sending", "closing"} /\ batch.wanted > 0 =>
       /\ batch.at = "held" /\ batch.dir
       /\ batch.n = batch.wanted /\ batch.wanted <= MaxImages
       /\ batch.bytes <= MaxTotalBytes
  /\ op = "settled" /\ batch.dir =>
       \/ abort # "none" \/ outcome = Cancelled
       \/ outcome.type = "failed"
          /\ outcome.code \in {"image_cleanup_failed", "workspace_cleanup_error"}

GatewayCodes == Codes \ {"spawn_failed", "refused"}

\* The terminal event is seen only when the images and the workspace are
\* released (invocation-service.test.ts: "commits and cleans up before exposing
\* a terminal event"), and no abort at any stage leaves one of them behind.  The
\* provider has had all its images or none of them.  A failure that the gateway
\* makes itself never tells the Responses routes that the provider's state is
\* untouched when a native session was reported.
SettledIsComplete ==
  /\ SawTerminal \/ op = "settled" \/ returned = "done"
       => op = "settled" /\ ~leased /\ batch.at # "held"
  /\ ImagesAreWhole
  /\ op = "settled" /\ session /\ outcome.type = "failed" /\ outcome.code \in GatewayCodes
       => outcome.advanced

\* The stream a consumer gets is the one EventStream promises; a terminal event
\* is numbered by what the run has produced, and cut by an abort.
Shown ==
  [i \in DOMAIN got |->
     [type |-> got[i].type,
      n    |-> IF got[i].type \in TerminalTypes THEN produced + 1 ELSE got[i].n,
      cut  |-> got[i].type \in TerminalTypes /\ abort # "none"]]

Promise == INSTANCE EventStream WITH delivered <- Shown, returned <- (returned # "no")

\* Session first and once, deltas in order and without a gap, one terminal
\* event, an end; "completed" only when nothing was lost and nobody aborted
\* the run first ("keeps timeout authoritative over a racing completed
\* terminal").
KeepsPromise == Promise!Spec

\* return() of a consumer is answered whatever the provider does, without the
\* help of the run timer; and a consumer that keeps reading gets to the end of
\* the stream under that timer, even when the provider never answers again.
StreamEnds ==
  /\ returned = "asked" ~> returned = "done"
  /\ ReaderFairness => <>(ended \/ returned # "no")
=============================================================================

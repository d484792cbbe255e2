------------------------ MODULE ProviderStreamProofs ------------------------
(***************************************************************************)
(* Proofs about ProviderStream, for any limits on images and events: the   *)
(* slot of the channel, what is released and told at the end of a run, one *)
(* native effect, and that the consumer gets the stream of EventStream.    *)
(***************************************************************************)
EXTENDS ProviderStream, SequenceTheorems, TLAPS

-----------------------------------------------------------------------------
(* The invariant.                                                          *)

Awaiting == {"making", "protecting", "resolving", "asking", "writing", "removing"}

Stages == {"asked", "held", "refused", "released"} \cup Awaiting

Errors == {"none", "thrown", "image_cleanup_failed"}

Batch ==
  [at : Stages, wanted : 0..MaxImages + 1, n : 0..MaxImages, bytes : 0..MaxTotalBytes,
   size : 0..MaxImageBytes, hops : 0..MaxRedirects, dir : BOOLEAN, error : Errors]

\* What the materializer knows of a batch at each of its stages.
Sound(b) ==
  /\ b \in Batch
  /\ b.at \in {"asked", "making"} => b.n = 0 /\ b.bytes = 0 /\ ~b.dir
  /\ b.at = "making" => b.wanted \in 1..MaxImages
  /\ b.at \in {"protecting", "resolving", "asking", "writing", "held"} =>
       b.dir /\ b.wanted \in 1..MaxImages /\ b.n <= b.wanted
  /\ b.at \in {"resolving", "asking", "writing"} => b.n < b.wanted
  /\ b.at = "writing" => b.bytes + b.size <= MaxTotalBytes
  /\ b.at = "held" => b.n = b.wanted
  /\ b.at = "removing" => b.error = "thrown"
  /\ b.at = "refused" => b.error # "none" /\ (b.dir => b.error = "image_cleanup_failed")

\* Where the images and the workspace are while the operation awaits something.
HoldsWhatItMust ==
  /\ op \in {"queued", "workspace"} => batch.at = "asked"
  /\ op = "images" => batch.at \in Awaiting
  /\ op \in {"reading", "sending", "closing"} =>
       batch.at = "held" \/ (batch.at = "asked" /\ batch.wanted = 0)
  /\ op = "unimage" => batch.at = "held"
  /\ op \in {"unlease", "settled"} => batch.at \in {"asked", "refused", "released"}
  /\ op \in {"queued", "workspace", "settled"} => ~leased

Ending == {"unimage", "unlease", "settled"}

TellsOfImages(o) ==
  o = Cancelled \/ (o.type = "failed" /\ o.code \in {"image_cleanup_failed", "workspace_cleanup_error"})

\* What the outcome says of the provider's state, of a directory that is left, and
\* of an abort.
OutcomeIsHonest ==
  /\ session => advanced
  /\ op \in Ending =>
       /\ outcome \in Outcomes
       /\ session /\ outcome.type = "failed" /\ outcome.code \in GatewayCodes => outcome.advanced
  /\ op \in {"unlease", "settled"} /\ batch.dir => abort # "none" \/ TellsOfImages(outcome)
  /\ op = "settled" /\ outcome.type = "completed" => abort = "none"

\* The provider's effects are those of the present attempt, and known.
EffectsKnown ==
  /\ effects \subseteq {attempt}
  /\ effects # {} => session \/ (terminal # NoEvent /\ terminal.type = "failed" /\ terminal.advanced)

\* Who waits at the channel, for what, and who can still write to it.
ChannelIInv ==
  /\ op = "sending" <=> pending \in Items
  /\ pending \in Outcomes => op = "settled" /\ pending = outcome /\ ~SawTerminal
  /\ reading => pending = NoEvent /\ ~closed /\ op # "settled" /\ returned = "no" /\ ~ended
  /\ abort # "none" => op \notin {"reading", "sending"}
  /\ closed => pending = NoEvent
  /\ closed /\ op # "settled" => returned # "no" /\ abort # "none"
  /\ closed /\ returned = "no" => SawTerminal
  /\ op = "settled" /\ ~closed => pending \in Outcomes
  /\ SawTerminal => op = "settled"
  /\ ended => closed
  /\ returned # "no" => closed
  /\ returned = "done" => op = "settled"

HasSession == \E i \in DOMAIN got : got[i].type = "session_started"

\* What the consumer has got, of what was produced.
StreamIInv ==
  /\ op \in {"queued", "workspace", "images"} =>
       ~session /\ got = <<>> /\ produced = 0
  /\ op = "reading" => (session <=> HasSession)
  /\ op = "sending" =>
       /\ session /\ pending.n = Len(got) + 1
       /\ pending.type = "session_started" <=> ~HasSession
  /\ abort = "none" /\ ~SawTerminal =>
       produced = IF op = "sending" THEN Len(got) + 1 ELSE Len(got)

IInv ==
  /\ TypeOK /\ Sound(batch)
  /\ HoldsWhatItMust /\ OutcomeIsHonest /\ EffectsKnown /\ ChannelIInv /\ StreamIInv

-----------------------------------------------------------------------------
(* The images of a run.                                                    *)

\* A directory is there, to take the images that are still wanted.
Fillable(b) ==
  b \in Batch /\ b.dir /\ b.wanted \in 1..MaxImages /\ b.n <= b.wanted

\* The limits are numbers.
LEMMA Limits ==
  MaxImages \in Nat /\ MaxImageBytes \in Nat /\ MaxTotalBytes \in Nat /\ MaxRedirects \in Nat
BY ImageAssumption

\* Values that the operations put into a batch.
LEMMA Values ==
  /\ 0 \in 0..MaxImages /\ 0 \in 0..MaxTotalBytes /\ 0 \in 0..MaxImageBytes
  /\ 0 \in 0..MaxRedirects /\ Sizes \subseteq 0..MaxImageBytes
  /\ {"asked", "held", "refused", "released"} \subseteq Stages /\ Awaiting \subseteq Stages
  /\ {"none", "thrown", "image_cleanup_failed"} \subseteq Errors
  /\ {"making", "protecting", "resolving", "asking", "writing", "removing"} \subseteq Awaiting
BY Limits DEF Stages, Awaiting, Errors, Sizes

\* A failure leads to the removal.
LEMMA FailingSound ==
  ASSUME NEW b \in Batch
  PROVE  Sound(Failing(b)) /\ Failing(b).at = "removing"
<1> DEFINE f == Failing(b)
<1>1. f \in Batch /\ f.at = "removing" /\ f.error = "thrown"
  BY Values DEF Batch, Failing
<1> QED
  BY <1>1 DEF Sound

\* An image is written only within the limit of the sum.
LEMMA KeepSound ==
  ASSUME NEW b, Fillable(b), b.n < b.wanted, NEW s \in Sizes
  PROVE  Sound(Keep(b, s)) /\ Keep(b, s).at \in {"writing", "removing"}
<1>1. CASE b.bytes + s > MaxTotalBytes
  BY <1>1, FailingSound DEF Keep, Fillable
<1>2. CASE ~(b.bytes + s > MaxTotalBytes)
  <2> DEFINE k == [b EXCEPT !.at = "writing", !.size = s, !.hops = 0]
  <2>1. Keep(b, s) = k
    BY <1>2 DEF Keep
  <2>2. b \in Batch
    BY DEF Fillable
  <2>3. /\ k \in Batch /\ k.at = "writing" /\ k.size = s /\ k.bytes = b.bytes /\ k.n = b.n
        /\ k.wanted = b.wanted /\ k.dir = b.dir
    BY <2>2, Values DEF Batch
  <2>4. b.bytes + s <= MaxTotalBytes
    BY <1>2, <2>2, Limits DEF Batch, Sizes
  <2>5. Sound(k)
    BY <2>3, <2>4 DEF Sound, Fillable
  <2> QED
    BY <2>1, <2>3, <2>5
<1> QED
  BY <1>1, <1>2

\* An image is looked up and asked for, or the batch fails.
LEMMA HopSound ==
  ASSUME NEW b, Fillable(b), b.n < b.wanted, NEW c \in Hop(b)
  PROVE  Sound(c) /\ c.at \in {"resolving", "asking", "removing"}
<1> DEFINE moved(at) == [b EXCEPT !.at = at]
<1>1. c \in {Failing(b), moved("resolving"), moved("asking")}
  BY DEF Hop, Checked
<1>2. ASSUME NEW at \in {"resolving", "asking"}
      PROVE  Sound(moved(at)) /\ moved(at).at = at
  <2>1. b \in Batch
    BY DEF Fillable
  <2>2. /\ moved(at) \in Batch /\ moved(at).at = at /\ moved(at).n = b.n
        /\ moved(at).wanted = b.wanted /\ moved(at).dir = b.dir
    BY <2>1, Values DEF Batch
  <2> QED
    BY <2>2 DEF Sound, Fillable
<1> QED
  BY <1>1, <1>2, FailingSound DEF Fillable

\* The stages in which materialize() awaits something, or has ended.
Under == Awaiting \cup {"held", "refused"}

\* The next image, or all of them.
LEMMA TurnSound ==
  ASSUME NEW b, Fillable(b), NEW aborted, NEW c \in Turn(b, aborted)
  PROVE  Sound(c) /\ c.at \in Under
<1>1. b \in Batch /\ b.n \in Nat /\ b.wanted \in Nat /\ b.n <= b.wanted
  BY Limits DEF Fillable, Batch
<1>2. CASE b.n = b.wanted
  <2> DEFINE h == [b EXCEPT !.at = "held"]
  <2>1. c = h
    BY <1>2 DEF Turn
  <2>2. h \in Batch /\ h.at = "held" /\ h.n = b.n /\ h.wanted = b.wanted /\ h.dir = b.dir
    BY <1>1, Values DEF Batch
  <2> QED
    BY <1>2, <2>1, <2>2 DEF Sound, Fillable, Under
<1>3. CASE b.n < b.wanted
  <2>1. c = Failing(b) \/ (\E s \in Sizes : c = Keep(b, s)) \/ c \in Hop(b)
    BY <1>1, <1>3 DEF Turn, Decoded
  <2> QED
    BY <1>1, <1>3, <2>1, FailingSound, KeepSound, HopSound DEF Under, Awaiting
<1> QED
  BY <1>1, <1>2, <1>3

\* Nothing to remove: mkdtemp had not been called, or had failed.
LEMMA RefusedSound ==
  ASSUME NEW b, Sound(b), b.at \in {"asked", "making"}
  PROVE  Sound(Refused(b)) /\ Refused(b).at = "refused"
<1> DEFINE c == Refused(b)
<1>1. b \in Batch /\ ~b.dir
  BY DEF Sound
<1>2. c \in Batch /\ c.at = "refused" /\ c.error = "thrown" /\ c.dir = b.dir
  BY <1>1, Values DEF Batch, Refused
<1> QED
  BY <1>1, <1>2 DEF Sound

\* materialize() begins, with something to store.
LEMMA BegunSound ==
  ASSUME NEW b, Sound(b), b.at = "asked", b.wanted > 0
  PROVE  Sound(Begun(b)) /\ Begun(b).at \in {"making", "refused"}
<1>1. CASE b.wanted > MaxImages
  BY <1>1, RefusedSound DEF Begun
<1>2. CASE ~(b.wanted > MaxImages)
  <2> DEFINE c == [b EXCEPT !.at = "making"]
  <2>1. b \in Batch
    BY DEF Sound
  <2>2. /\ c \in Batch /\ c.at = "making" /\ c.wanted = b.wanted /\ c.n = b.n
        /\ c.bytes = b.bytes /\ c.dir = b.dir
    BY <2>1, Values DEF Batch
  <2>3. b.wanted \in 1..MaxImages
    BY <1>2, <2>1, Limits DEF Batch
  <2> QED
    BY <1>2, <2>2, <2>3 DEF Sound, Begun
<1> QED
  BY <1>1, <1>2

\* The directory is made, or there is none.
LEMMA MadeSound ==
  ASSUME NEW b, Sound(b), b.at = "making", NEW ok \in BOOLEAN, NEW c \in Made(b, ok)
  PROVE  Sound(c) /\ c.at \in Under
<1>1. CASE ~ok
  BY <1>1, RefusedSound DEF Made, Under
<1>2. CASE ok
  <2>1. b \in Batch /\ b.n = 0 /\ b.wanted \in 1..MaxImages /\ MaxImages \in Nat
    BY Limits DEF Sound
  <2>2. c = [b EXCEPT !.at = "protecting", !.dir = TRUE]
    BY <1>2 DEF Made
  <2>3. c \in Batch /\ c.at = "protecting" /\ c.dir /\ c.wanted = b.wanted /\ c.n = b.n
    BY <2>1, <2>2, Values DEF Batch
  <2> QED
    BY <2>1, <2>3 DEF Sound, Under, Awaiting
<1> QED
  BY <1>1, <1>2

\* An image has been written.
LEMMA WrittenSound ==
  ASSUME NEW b, Sound(b), b.at = "writing", NEW ok \in BOOLEAN, NEW aborted,
         NEW c \in Written(b, ok, aborted)
  PROVE  Sound(c) /\ c.at \in Under
<1>1. CASE ~ok
  BY <1>1, FailingSound DEF Written, Under, Awaiting, Sound
<1>2. CASE ok
  <2> DEFINE w == [b EXCEPT !.n = @ + 1, !.bytes = @ + b.size, !.size = 0]
  <2>1. /\ b \in Batch /\ b.n < b.wanted /\ b.wanted \in 1..MaxImages
        /\ b.bytes + b.size <= MaxTotalBytes /\ b.dir
    BY DEF Sound
  <2>2. b.n + 1 \in 0..MaxImages /\ b.n + 1 <= b.wanted /\ b.bytes + b.size \in 0..MaxTotalBytes
    BY <2>1, Limits DEF Batch
  <2>3. /\ w \in Batch /\ w.at = b.at /\ w.n = b.n + 1 /\ w.wanted = b.wanted /\ w.dir = b.dir
        /\ w.bytes = b.bytes + b.size /\ w.size = 0
    BY <2>1, <2>2, Values DEF Batch
  <2>4. w.n \in Nat /\ Fillable(w)
    BY <2>1, <2>2, <2>3 DEF Fillable
  <2>5. c \in Turn(w, aborted)
    BY <1>2 DEF Written
  <2> QED
    BY <2>4, <2>5, TurnSound
<1> QED
  BY <1>1, <1>2

\* The removal has been tried: what is left of the directory is told.
LEMMA RemovedSound ==
  ASSUME NEW b, Sound(b), b.at = "removing", NEW ok \in BOOLEAN, NEW c \in Removed(b, ok)
  PROVE  Sound(c) /\ c.at \in Under
<1>1. b \in Batch /\ b.error = "thrown"
  BY DEF Sound
<1>2. /\ c \in Batch /\ c.at = "refused" /\ c.dir = ~ok
      /\ c.error = IF ok THEN b.error ELSE "image_cleanup_failed"
  BY <1>1, Values DEF Batch, Removed
<1> QED
  BY <1>1, <1>2 DEF Sound, Under

\* What the file system answers.
LEMMA FilesSound ==
  ASSUME NEW b, Sound(b), NEW ok \in BOOLEAN, NEW aborted, NEW c \in FilesAnswer(b, ok, aborted)
  PROVE  Sound(c) /\ c.at \in Under
<1>1. CASE b.at = "making"
  BY <1>1, MadeSound DEF FilesAnswer
<1>2. CASE b.at = "protecting"
  <2>1. Fillable(b)
    BY <1>2 DEF Sound, Fillable
  <2> QED
    BY <1>2, <2>1, TurnSound, FailingSound DEF FilesAnswer, Protected, Fillable, Under, Awaiting
<1>3. CASE b.at = "writing"
  BY <1>3, WrittenSound DEF FilesAnswer
<1>4. CASE b.at = "removing"
  BY <1>4, RemovedSound DEF FilesAnswer
<1> QED
  BY <1>1, <1>2, <1>3, <1>4 DEF FilesAnswer

\* What the network answers.
LEMMA NetworkSound ==
  ASSUME NEW b, Sound(b), NEW c \in NetworkAnswer(b)
  PROVE  Sound(c) /\ c.at \in Under
<1>1. b.at \in {"resolving", "asking"}
  BY DEF NetworkAnswer
<1>2. Fillable(b) /\ b.n < b.wanted /\ b \in Batch
  BY <1>1, Limits DEF Sound, Fillable, Batch
<1>3. CASE b.at = "resolving"
  <2>1. c \in {Failing(b)} \cup Hop(b)
    BY <1>3 DEF NetworkAnswer, Resolved, Hop
  <2> QED
    BY <1>2, <2>1, FailingSound, HopSound DEF Under, Awaiting
<1>4. CASE b.at = "asking"
  <2> DEFINE h == [b EXCEPT !.hops = @ + 1]
  <2>1. \/ c = Failing(b)
        \/ \E s \in Sizes : c = Keep(b, s)
        \/ b.hops < MaxRedirects /\ c \in Hop(h)
    BY <1>4 DEF NetworkAnswer, Downloaded
  <2>2. ASSUME b.hops < MaxRedirects
        PROVE  Fillable(h) /\ h.n < h.wanted
    <3>1. b.hops + 1 \in 0..MaxRedirects
      BY <1>2, <2>2, Limits DEF Batch
    <3>2. h \in Batch /\ h.n = b.n /\ h.wanted = b.wanted /\ h.dir = b.dir
      BY <1>2, <3>1 DEF Batch
    <3> QED
      BY <1>2, <3>2 DEF Fillable
  <2> QED
    BY <1>2, <2>1, <2>2, FailingSound, KeepSound, HopSound DEF Under, Awaiting
<1> QED
  BY <1>1, <1>3, <1>4

\* An abort ends a download, and nothing else.
LEMMA InterruptedSound ==
  ASSUME NEW b, Sound(b)
  PROVE  /\ Sound(Interrupted(b)) /\ Interrupted(b).wanted = b.wanted
         /\ Interrupted(b) = b \/ (b.at \in Awaiting /\ Interrupted(b).at = "removing")
<1>1. b \in Batch
  BY DEF Sound
<1>2. Failing(b).wanted = b.wanted
  BY <1>1 DEF Failing, Batch
<1> QED
  BY <1>1, <1>2, FailingSound DEF Interrupted, OnNetwork, Awaiting

\* The lease of the images is released.
LEMMA ReleasedSound ==
  ASSUME NEW b, Sound(b), NEW ok \in BOOLEAN
  PROVE  Sound(Released(b, ok)) /\ Released(b, ok).at = "released" /\ Released(b, ok).dir = ~ok
<1> DEFINE c == Released(b, ok)
<1>1. b \in Batch
  BY DEF Sound
<1>2. c \in Batch /\ c.at = "released" /\ c.dir = ~ok
  BY <1>1, Values DEF Batch, Released
<1> QED
  BY <1>2 DEF Sound

-----------------------------------------------------------------------------
(* Events.                                                                 *)

\* An item is no outcome, and neither is nothing.
LEMMA Events ==
  /\ \A e \in Items : e.type \in {"session_started", "text_delta"} /\ e # NoEvent
  /\ \A e \in Outcomes : e.type \in TerminalTypes /\ e # NoEvent
  /\ \A e \in Items : e \notin Outcomes
  /\ Completed \in Outcomes /\ Completed.type = "completed"
  /\ Cancelled \in Outcomes /\ Cancelled.type = "cancelled"
  /\ \A code \in Codes, adv \in BOOLEAN :
       /\ Failed(code, adv) \in Outcomes /\ Failed(code, adv).type = "failed"
       /\ Failed(code, adv).code = code /\ Failed(code, adv).advanced = adv
<1>1. \A e \in Items : e.type \in {"session_started", "text_delta"}
  BY DEF Items, Item
<1>2. \A e \in Outcomes : e.type \in TerminalTypes
  BY DEF Outcomes, Completed, Cancelled, Failed, TerminalTypes
<1>3. \A e \in Items : e \notin Outcomes
  BY <1>1, <1>2 DEF TerminalTypes
<1>4. NoEvent \notin Items /\ NoEvent \notin Outcomes
  BY ProviderStreamAssumption
<1>5. Completed \in Outcomes /\ Cancelled \in Outcomes
  BY DEF Outcomes
<1>6. Completed.type = "completed" /\ Cancelled.type = "cancelled"
  BY DEF Completed, Cancelled
<1>7. \A code \in Codes, adv \in BOOLEAN : Failed(code, adv) \in Outcomes
  BY DEF Outcomes
<1>8. \A code \in Codes, adv \in BOOLEAN :
        /\ Failed(code, adv).type = "failed"
        /\ Failed(code, adv).code = code /\ Failed(code, adv).advanced = adv
  BY DEF Failed
<1> QED
  BY <1>1, <1>2, <1>3, <1>4, <1>5, <1>6, <1>7, <1>8

\* What an adapter yields is no failure of the gateway's own.
LEMMA YieldedEvents ==
  ASSUME NEW e \in Yielded
  PROVE  /\ e \in Outcomes
         /\ e.type = "failed" => e.advanced \in BOOLEAN /\ e.code \notin GatewayCodes
<1>1. CASE e \in {Completed, Cancelled}
  BY <1>1, Events
<1>2. CASE \E c \in {"spawn_failed", "refused"}, adv \in BOOLEAN : e = Failed(c, adv)
  <2>1. {"spawn_failed", "refused"} \subseteq Codes
    BY DEF Codes
  <2> QED
    BY <1>2, <2>1, Events DEF GatewayCodes
<1> QED
  BY <1>1, <1>2 DEF Yielded

\* What an abort makes of an operation.
LEMMA ThrownEvents ==
  ASSUME NEW reason, NEW adv \in BOOLEAN
  PROVE  /\ ThrownBy(reason, adv) \in Outcomes
         /\ ThrownBy(reason, adv).type # "completed"
         /\ ThrownBy(reason, adv).type = "failed" => ThrownBy(reason, adv).advanced = adv
<1>1. "provider_timeout" \in Codes
  BY DEF Codes
<1> QED
  BY <1>1, Events DEF ThrownBy

-----------------------------------------------------------------------------
(* Steps that leave the consumer alone.                                    *)

\* The operation goes from one wait to another that is not the channel's.
LEMMA ChannelKept ==
  ASSUME IInv, UNCHANGED <<channelVars, consumerVars, abort, outcome>>,
         op \notin {"sending", "settled"}, op' \notin {"sending", "settled"},
         op' = "reading" => op = "reading" \/ abort = "none"
  PROVE  ChannelIInv'
BY DEF IInv, ChannelIInv, SawTerminal, channelVars, consumerVars

\* So does a change of its outcome, that nobody was sent yet.
LEMMA ChannelKeptByEnding ==
  ASSUME IInv, UNCHANGED <<channelVars, consumerVars, abort>>,
         op \notin {"sending", "settled"}, op' \notin {"reading", "sending", "settled"}
  PROVE  ChannelIInv'
BY DEF IInv, ChannelIInv, SawTerminal, channelVars, consumerVars

\* What was produced and delivered stays in agreement.
LEMMA StreamKept ==
  ASSUME IInv, UNCHANGED <<got, session, produced>>, 
         abort' = "none" => abort = "none",
         op # "sending", op' # "sending",
         op' \in {"queued", "workspace", "images"} => op \in {"queued", "workspace", "images"},
         op' = "reading" => op \in {"queued", "workspace", "images", "reading"}
  PROVE  StreamIInv'
<1>1. op \in {"queued", "workspace", "images"} => (session <=> HasSession)
  BY DEF IInv, StreamIInv, HasSession
<1> QED
  BY <1>1 DEF IInv, StreamIInv, HasSession, SawTerminal

\* The first state satisfies the invariant.
LEMMA InitOK == Init => IInv
<1> SUFFICES ASSUME Init PROVE IInv
  OBVIOUS
<1>1. batch \in Batch /\ batch.at = "asked" /\ batch.n = 0 /\ batch.bytes = 0 /\ ~batch.dir
  <2>1. batch \in Batches
    BY DEF Init
  <2> QED
    BY <2>1, Values DEF Batches, Batch
<1>2. Sound(batch)
  BY <1>1 DEF Sound
<1>3. TypeOK
  <2>1. BatchOK(batch)
    BY <1>1 DEF BatchOK, Batch, Stages, Awaiting, Errors
  <2>2. op \in Ops /\ leased \in BOOLEAN /\ attempt \in {0, 1} /\ effects \subseteq {0, 1}
    BY DEF Init, Ops
  <2>3. produced \in 0..MaxItems
    BY ProviderStreamAssumption DEF Init
  <2>4. got \in Seq(Items \cup Outcomes)
    BY DEF Init
  <2>5. /\ terminal \in Yielded \cup {NoEvent} /\ session \in BOOLEAN /\ advanced \in BOOLEAN
        /\ outcome \in Outcomes \cup {NoEvent} /\ abort \in {"none", "timeout", "cancelled"}
        /\ pending \in Items \cup Outcomes \cup {NoEvent}
    BY DEF Init
  <2>6. /\ closed \in BOOLEAN /\ reading \in BOOLEAN /\ ended \in BOOLEAN
        /\ returned \in {"no", "asked", "done"} /\ cancelling \in BOOLEAN
    BY DEF Init
  <2> QED
    BY <2>1, <2>2, <2>3, <2>4, <2>5, <2>6 DEF TypeOK
<1>4. ~SawTerminal /\ ~HasSession
  BY DEF Init, SawTerminal, HasSession
<1>5. HoldsWhatItMust /\ OutcomeIsHonest /\ EffectsKnown
  BY <1>1 DEF Init, HoldsWhatItMust, OutcomeIsHonest, EffectsKnown, Ending
<1>6. ChannelIInv
  BY <1>4, ProviderStreamAssumption DEF Init, ChannelIInv
<1>7. StreamIInv
  BY <1>4 DEF Init, StreamIInv
<1> QED
  BY <1>2, <1>3, <1>5, <1>6, <1>7 DEF IInv

-----------------------------------------------------------------------------
(* The start and the end of the operation.                                 *)

\* A sound batch is a batch.
LEMMA SoundTyped == ASSUME NEW b, Sound(b) PROVE BatchOK(b)
BY DEF Sound, BatchOK, Batch, Stages, Awaiting, Errors

\* Admitted.
LEMMA AdmittedStep ==
  ASSUME IInv, Admitted
  PROVE  IInv'
<1>1. /\ op = "queued" /\ op' = "workspace"
      /\ UNCHANGED <<batch, leased, attempt, terminal, session, advanced, outcome, abort,
                     produced, effects, channelVars, consumerVars>>
  BY DEF Admitted
<1>2. TypeOK' /\ Sound(batch')
  BY <1>1 DEF IInv, TypeOK, Ops, channelVars, consumerVars
<1>3. ChannelIInv'
  BY <1>1, ChannelKept
<1>4. StreamIInv'
  BY <1>1, StreamKept DEF channelVars
<1>5. HoldsWhatItMust' /\ OutcomeIsHonest' /\ EffectsKnown'
  BY <1>1 DEF IInv, HoldsWhatItMust, OutcomeIsHonest, EffectsKnown, Ending
<1> QED
  BY <1>2, <1>3, <1>4, <1>5 DEF IInv

\* The abort is authoritative over what the operation had.
LEMMA FinalEvents ==
  ASSUME IInv, NEW o \in Outcomes
  PROVE  /\ Final(o, abort) \in Outcomes
         /\ abort = "none" => Final(o, abort) = o
         /\ abort # "none" =>
              /\ Final(o, abort).type # "completed"
              /\ Final(o, abort).type = "failed" => Final(o, abort).advanced = advanced
<1>1. advanced \in BOOLEAN
  BY DEF IInv, TypeOK
<1> QED
  BY <1>1, ThrownEvents DEF Final

\* What an outcome says of the run.
Honest(o) == session /\ o.type = "failed" /\ o.code \in GatewayCodes => o.advanced

\* The run settles: its outcome goes to the reader, into the slot, or nowhere, and
\* the channel is closed.
LEMMA SettledChannel ==
  ASSUME IInv, NEW o \in Outcomes, op \notin {"reading", "sending", "settled"},
         op' = "settled", outcome' = o, Forward(o), UNCHANGED <<consumerVars, session, produced>>,
         abort' = "none" => abort = "none"
  PROVE  /\ ChannelIInv' /\ StreamIInv'
         /\ got' \in Seq(Items \cup Outcomes)
         /\ pending' \in Items \cup Outcomes \cup {NoEvent}
         /\ closed' \in BOOLEAN /\ reading' \in BOOLEAN /\ ended' \in BOOLEAN
<1>1. pending = NoEvent /\ ~SawTerminal /\ got \in Seq(Items \cup Outcomes)
  BY DEF IInv, TypeOK, ChannelIInv
<1>2. o.type \in TerminalTypes /\ o \notin Items /\ o # NoEvent
  BY Events
<1>3. UNCHANGED <<returned, cancelling>>
  BY DEF consumerVars
<1>4. NoEvent \notin Items /\ NoEvent \notin Outcomes
  BY ProviderStreamAssumption
<1>5. CASE closed
  <2>1. UNCHANGED <<pending, closed, reading, got, ended>>
    BY <1>5 DEF Forward, channelVars
  <2>2. ~SawTerminal'
    BY <1>1, <2>1 DEF SawTerminal
  <2> QED
    BY <1>1, <1>3, <1>4, <1>5, <2>1, <2>2 DEF IInv, TypeOK, ChannelIInv, StreamIInv
<1>6. CASE ~closed /\ reading
  <2>1. got' = Append(got, o) /\ ~reading' /\ closed' /\ UNCHANGED <<pending, ended>>
    BY <1>6 DEF Forward
  <2>2. got' \in Seq(Items \cup Outcomes) /\ got'[Len(got')] = o /\ Len(got') \in DOMAIN got'
    BY <1>1, <2>1
  <2>3. SawTerminal'
    BY <1>2, <2>2 DEF SawTerminal
  <2> QED
    BY <1>1, <1>3, <1>4, <1>6, <2>1, <2>2, <2>3 DEF IInv, TypeOK, ChannelIInv, StreamIInv, Forward
<1>7. CASE ~closed /\ ~reading
  <2>1. pending' = o /\ UNCHANGED <<closed, reading, got, ended>>
    BY <1>1, <1>7 DEF Forward
  <2>2. ~SawTerminal'
    BY <1>1, <2>1 DEF SawTerminal
  <2> QED
    BY <1>1, <1>2, <1>3, <1>7, <2>1, <2>2 DEF IInv, TypeOK, ChannelIInv, StreamIInv
<1> QED
  BY <1>5, <1>6, <1>7 DEF IInv, TypeOK

\* A run that settles with an honest outcome, and has released what it held.
LEMMA SettlesOK ==
  ASSUME IInv, NEW o \in Outcomes, Honest(o), SettleWith(o),
         op \notin {"reading", "sending", "settled"},
         batch.at \in {"asked", "refused", "released"},
         batch.dir => abort # "none" \/ TellsOfImages(o), ~leased',
         leased' \in BOOLEAN,
         UNCHANGED <<batch, attempt, terminal, session, advanced, abort, produced, effects,
                     consumerVars>>
  PROVE  IInv'
<1> DEFINE f == Final(o, abort)
<1>1. op' = "settled" /\ outcome' = f /\ Forward(f)
  BY DEF SettleWith
<1>2. /\ f \in Outcomes /\ (abort = "none" => f = o)
      /\ abort # "none" => f.type # "completed" /\ (f.type = "failed" => f.advanced = advanced)
  BY FinalEvents
<1> HIDE DEF f
<1>3. /\ ChannelIInv' /\ StreamIInv'
      /\ got' \in Seq(Items \cup Outcomes)
      /\ pending' \in Items \cup Outcomes \cup {NoEvent}
      /\ closed' \in BOOLEAN /\ reading' \in BOOLEAN /\ ended' \in BOOLEAN
  BY <1>1, <1>2, SettledChannel
<1>4. TypeOK'
  BY <1>1, <1>2, <1>3 DEF IInv, TypeOK, Ops, consumerVars
<1>5. Sound(batch')
  BY DEF IInv
<1>6. HoldsWhatItMust'
  BY <1>1 DEF HoldsWhatItMust
<1>7. OutcomeIsHonest'
  BY <1>1, <1>2 DEF IInv, OutcomeIsHonest, Honest, Ending
<1>8. EffectsKnown'
  BY DEF IInv, EffectsKnown
<1> QED
  BY <1>3, <1>4, <1>5, <1>6, <1>7, <1>8 DEF IInv

\* NotAdmitted: nothing has been acquired.
LEMMA NotAdmittedStep ==
  ASSUME IInv, NotAdmitted
  PROVE  IInv'
<1>1. /\ op = "queued" /\ SettleWith(Failed("queue", advanced))
      /\ UNCHANGED <<batch, leased, attempt, terminal, session, advanced, abort, produced, effects,
                     consumerVars>>
  BY DEF NotAdmitted
<1>2. ~session /\ batch.at = "asked" /\ ~batch.dir /\ ~leased /\ advanced \in BOOLEAN
      /\ leased \in BOOLEAN
  BY <1>1 DEF IInv, StreamIInv, HoldsWhatItMust, Sound, TypeOK
<1>3. Failed("queue", advanced) \in Outcomes
  BY <1>2, Events DEF Codes
<1> QED
  BY <1>1, <1>2, <1>3, SettlesOK DEF Honest

\* ImagesReleased: a directory that stays is told of.
LEMMA ImagesReleasedStep ==
  ASSUME IInv, NEW ok \in BOOLEAN, ImagesReleased(ok)
  PROVE  IInv'
<1> DEFINE o == IF ok \/ outcome = Cancelled THEN outcome
                ELSE Failed("image_cleanup_failed", advanced)
<1>1. /\ op = "unimage" /\ op' = "unlease" /\ batch' = Released(batch, ok) /\ outcome' = o
      /\ UNCHANGED <<leased, attempt, terminal, session, advanced, abort, produced, effects,
                     channelVars, consumerVars>>
  BY DEF ImagesReleased
<1>2. Sound(batch') /\ batch'.at = "released" /\ batch'.dir = ~ok
  BY <1>1, ReleasedSound DEF IInv
<1>3. /\ outcome \in Outcomes /\ advanced \in BOOLEAN /\ (session => advanced)
      /\ Honest(outcome)
  BY <1>1 DEF IInv, OutcomeIsHonest, Ending, TypeOK, Honest
<1>4. o \in Outcomes /\ Honest(o) /\ (~ok => TellsOfImages(o))
  <2>1. "image_cleanup_failed" \in Codes
    BY DEF Codes
  <2> QED
    BY <1>3, <2>1, Events DEF Honest, TellsOfImages
<1> HIDE DEF o
<1>5. TypeOK'
  BY <1>1, <1>2, <1>4, SoundTyped DEF IInv, TypeOK, Ops, channelVars, consumerVars
<1>6. ChannelIInv'
  BY <1>1, ChannelKeptByEnding
<1>7. StreamIInv'
  BY <1>1, StreamKept DEF channelVars
<1>8. HoldsWhatItMust' /\ EffectsKnown'
  BY <1>1, <1>2 DEF IInv, HoldsWhatItMust, EffectsKnown
<1>9. OutcomeIsHonest'
  BY <1>1, <1>2, <1>3, <1>4 DEF OutcomeIsHonest, Ending, Honest
<1> QED
  BY <1>2, <1>5, <1>6, <1>7, <1>8, <1>9 DEF IInv

\* WorkspaceReleased.
LEMMA WorkspaceReleasedStep ==
  ASSUME IInv, NEW ok \in BOOLEAN, WorkspaceReleased(ok)
  PROVE  IInv'
<1> DEFINE o == IF ok \/ outcome = Cancelled THEN outcome
                ELSE Failed("workspace_cleanup_error", advanced)
<1>1. /\ op = "unlease" /\ SettleWith(o) /\ leased' = FALSE
      /\ UNCHANGED <<batch, attempt, terminal, session, advanced, abort, produced, effects,
                     consumerVars>>
  BY DEF WorkspaceReleased
<1>2. /\ outcome \in Outcomes /\ advanced \in BOOLEAN /\ (session => advanced)
      /\ Honest(outcome) /\ batch.at \in {"asked", "refused", "released"}
      /\ batch.dir => abort # "none" \/ TellsOfImages(outcome)
  BY <1>1 DEF IInv, OutcomeIsHonest, Ending, TypeOK, Honest, HoldsWhatItMust
<1>3. o \in Outcomes /\ Honest(o) /\ (TellsOfImages(outcome) => TellsOfImages(o))
  <2>1. "workspace_cleanup_error" \in Codes
    BY DEF Codes
  <2> QED
    BY <1>2, <2>1, Events DEF Honest, TellsOfImages
<1> HIDE DEF o
<1> QED
  BY <1>1, <1>2, <1>3, SettlesOK

\* The iteration begins, or the cleanup does because of an abort.
LEMMA StartsOK ==
  ASSUME IInv, NEW b, Sound(b), StartProvider(b), batch' = b,
         b.at = "held" \/ (b.at = "asked" /\ b.wanted = 0),
         op \in {"workspace", "images"}, leased' \in BOOLEAN,
         UNCHANGED <<attempt, terminal, session, advanced, abort, produced, effects,
                     channelVars, consumerVars>>
  PROVE  IInv'
<1>1. ~session /\ advanced \in BOOLEAN
  BY DEF IInv, StreamIInv, TypeOK
<1>2. BatchOK(b)
  BY SoundTyped
<1>3. CASE abort = "none"
  <2>1. op' = "reading" /\ outcome' = outcome
    BY <1>3 DEF StartProvider
  <2>2. TypeOK'
    BY <1>2, <2>1 DEF IInv, TypeOK, Ops, channelVars, consumerVars
  <2>3. ChannelIInv'
    BY <1>3, <2>1, ChannelKept
  <2>4. StreamIInv'
    BY <2>1, StreamKept DEF channelVars
  <2>5. HoldsWhatItMust' /\ OutcomeIsHonest' /\ EffectsKnown'
    BY <2>1 DEF IInv, HoldsWhatItMust, OutcomeIsHonest, EffectsKnown, Ending
  <2> QED
    BY <2>2, <2>3, <2>4, <2>5 DEF IInv
<1>4. CASE abort # "none"
  <2>1. op' = CleanupOp(b) /\ outcome' = ThrownBy(abort, advanced)
    BY <1>4 DEF StartProvider
  <2>2. op' \in {"unimage", "unlease"} /\ (op' = "unimage" <=> b.at = "held")
    BY <2>1 DEF CleanupOp
  <2>3. outcome' \in Outcomes
    BY <1>1, <2>1, ThrownEvents
  <2>4. TypeOK'
    BY <1>2, <2>2, <2>3 DEF IInv, TypeOK, Ops, channelVars, consumerVars
  <2>5. ChannelIInv'
    BY <2>2, ChannelKeptByEnding
  <2>6. StreamIInv'
    BY <2>2, StreamKept DEF channelVars
  <2>7. HoldsWhatItMust' /\ OutcomeIsHonest' /\ EffectsKnown'
    BY <1>1, <1>4, <2>2, <2>3 DEF IInv, HoldsWhatItMust, OutcomeIsHonest, EffectsKnown, Ending
  <2> QED
    BY <2>4, <2>5, <2>6, <2>7 DEF IInv
<1> QED
  BY <1>3, <1>4

\* The operation awaits materialize(), is refused, or starts the provider.
LEMMA MaterializingOK ==
  ASSUME IInv, NEW b, Sound(b), b.at \in Under, Materializing(b),
         op \in {"workspace", "images"}, leased' \in BOOLEAN,
         UNCHANGED <<attempt, terminal, session, advanced, abort, produced, effects,
                     channelVars, consumerVars>>
  PROVE  IInv'
<1>1. batch' = b
  BY DEF Materializing
<1>2. ~session /\ advanced \in BOOLEAN /\ BatchOK(b)
  BY SoundTyped DEF IInv, StreamIInv, TypeOK
<1>3. CASE b.at = "held"
  BY <1>1, <1>3, StartsOK DEF Materializing
<1>4. CASE b.at = "refused"
  <2>1. op' = "unlease" /\ outcome' = Thrown(b.error)
    BY <1>4 DEF Materializing
  <2>2. b.error \in {"thrown", "image_cleanup_failed"}
        /\ (b.dir => b.error = "image_cleanup_failed")
    BY <1>4 DEF Sound, Batch, Errors
  <2>3. b.error \in Codes
    BY <2>2 DEF Codes
  <2>4. outcome' \in Outcomes /\ (b.dir => abort # "none" \/ TellsOfImages(outcome'))
    BY <1>2, <2>1, <2>2, <2>3, ThrownEvents, Events DEF Thrown, TellsOfImages
  <2>5. TypeOK'
    BY <1>1, <1>2, <2>1, <2>4 DEF IInv, TypeOK, Ops, channelVars, consumerVars
  <2>6. ChannelIInv'
    BY <2>1, ChannelKeptByEnding
  <2>7. StreamIInv'
    BY <2>1, StreamKept DEF channelVars
  <2>8. HoldsWhatItMust' /\ OutcomeIsHonest' /\ EffectsKnown'
    BY <1>1, <1>2, <1>4, <2>1, <2>4
       DEF IInv, HoldsWhatItMust, OutcomeIsHonest, EffectsKnown, Ending
  <2> QED
    BY <1>1, <2>5, <2>6, <2>7, <2>8 DEF IInv
<1>5. CASE b.at \in Awaiting
  <2>1. op' = "images" /\ outcome' = outcome
    BY <1>5 DEF Materializing, Awaiting
  <2>2. TypeOK'
    BY <1>1, <1>2, <2>1 DEF IInv, TypeOK, Ops, channelVars, consumerVars
  <2>3. ChannelIInv'
    BY <2>1, ChannelKept
  <2>4. StreamIInv'
    BY <2>1, StreamKept DEF channelVars
  <2>5. HoldsWhatItMust' /\ OutcomeIsHonest' /\ EffectsKnown'
    BY <1>1, <1>5, <2>1 DEF IInv, HoldsWhatItMust, OutcomeIsHonest, EffectsKnown, Ending
  <2> QED
    BY <1>1, <2>2, <2>3, <2>4, <2>5 DEF IInv
<1> QED
  BY <1>3, <1>4, <1>5 DEF Under

\* WorkspaceAcquired.
LEMMA WorkspaceAcquiredStep ==
  ASSUME IInv, NEW ok \in BOOLEAN, WorkspaceAcquired(ok)
  PROVE  IInv'
<1>1. /\ op = "workspace"
      /\ UNCHANGED <<attempt, terminal, session, advanced, abort, produced, effects, consumerVars>>
  BY DEF WorkspaceAcquired
<1>2. /\ Sound(batch) /\ batch.at = "asked" /\ ~batch.dir /\ ~leased /\ leased \in BOOLEAN
      /\ ~session /\ advanced \in BOOLEAN
  BY <1>1 DEF IInv, HoldsWhatItMust, Sound, TypeOK, StreamIInv
<1>3. CASE ~ok
  <2>1. SettleWith(Thrown("thrown")) /\ UNCHANGED <<batch, leased>>
    BY <1>3 DEF WorkspaceAcquired
  <2>2. Thrown("thrown") \in Outcomes
    BY <1>2, Events, ThrownEvents DEF Thrown, Codes
  <2> QED
    BY <1>1, <1>2, <2>1, <2>2, SettlesOK DEF Honest
<1>4. CASE ok
  <2>1. /\ leased' \in BOOLEAN /\ UNCHANGED channelVars
        /\ \/ batch.wanted = 0 /\ StartProvider(batch) /\ UNCHANGED batch
           \/ batch.wanted > 0 /\ Materializing(Begun(batch))
           \/ Materializing(Refused(batch))
    BY <1>4 DEF WorkspaceAcquired
  <2>2. CASE batch.wanted = 0 /\ StartProvider(batch) /\ UNCHANGED batch
    BY <1>1, <1>2, <2>1, <2>2, StartsOK
  <2>3. CASE batch.wanted > 0 /\ Materializing(Begun(batch))
    BY <1>1, <1>2, <2>1, <2>3, BegunSound, MaterializingOK DEF Under, Awaiting
  <2>4. CASE Materializing(Refused(batch))
    BY <1>1, <1>2, <2>1, <2>4, RefusedSound, MaterializingOK DEF Under
  <2> QED
    BY <2>1, <2>2, <2>3, <2>4
<1> QED
  BY <1>3, <1>4

\* ImagesStored, of what the file system answers.
LEMMA ImagesStoredStep ==
  ASSUME IInv, NEW ok \in BOOLEAN, ImagesStored(ok)
  PROVE  IInv'
<1>1. PICK b \in FilesAnswer(batch, ok, abort # "none") : Materializing(b)
  BY DEF ImagesStored
<1>2. /\ op = "images" /\ leased' = leased /\ leased \in BOOLEAN /\ Sound(batch)
      /\ UNCHANGED <<attempt, terminal, session, advanced, abort, produced, effects,
                     channelVars, consumerVars>>
  BY DEF ImagesStored, IInv, TypeOK
<1>3. Sound(b) /\ b.at \in Under
  BY <1>1, <1>2, FilesSound
<1> QED
  BY <1>1, <1>2, <1>3, MaterializingOK

\* ImageFetched, of what the network answers.
LEMMA ImageFetchedStep ==
  ASSUME IInv, ImageFetched
  PROVE  IInv'
<1>1. PICK b \in NetworkAnswer(batch) \cup {Interrupted(batch)} : Materializing(b)
  BY DEF ImageFetched
<1>2. /\ op = "images" /\ leased' = leased /\ leased \in BOOLEAN /\ Sound(batch)
      /\ batch.at \in Awaiting
      /\ UNCHANGED <<attempt, terminal, session, advanced, abort, produced, effects,
                     channelVars, consumerVars>>
  BY DEF ImageFetched, IInv, TypeOK, HoldsWhatItMust
<1>3. Sound(b) /\ b.at \in Under
  BY <1>1, <1>2, NetworkSound, InterruptedSound DEF Under, Awaiting
<1> QED
  BY <1>1, <1>2, <1>3, MaterializingOK

-----------------------------------------------------------------------------
(* The provider's iteration.                                               *)

\* What one more event makes of the stream.
LEMMA Delivered ==
  ASSUME got \in Seq(Items \cup Outcomes), NEW e \in Items \cup Outcomes, got' = Append(got, e)
  PROVE  /\ got' \in Seq(Items \cup Outcomes)
         /\ Len(got') = Len(got) + 1 /\ got'[Len(got) + 1] = e
         /\ DOMAIN got = 1..Len(got) /\ DOMAIN got' = 1..(Len(got) + 1) /\ Len(got) \in Nat
         /\ \A i \in DOMAIN got : got'[i] = got[i]
         /\ SawTerminal' <=> SawTerminal \/ e.type \in TerminalTypes
         /\ HasSession' <=> HasSession \/ e.type = "session_started"
<1>1. /\ got' \in Seq(Items \cup Outcomes)
      /\ Len(got') = Len(got) + 1 /\ got'[Len(got) + 1] = e
      /\ DOMAIN got = 1..Len(got) /\ DOMAIN got' = 1..(Len(got) + 1) /\ Len(got) \in Nat
      /\ \A i \in DOMAIN got : got'[i] = got[i]
  OBVIOUS
<1>2. DOMAIN got' = DOMAIN got \cup {Len(got) + 1}
  BY <1>1
<1>3. SawTerminal' <=> SawTerminal \/ e.type \in TerminalTypes
  BY <1>1, <1>2 DEF SawTerminal
<1>4. HasSession' <=> HasSession \/ e.type = "session_started"
  BY <1>1, <1>2 DEF HasSession
<1> QED
  BY <1>1, <1>3, <1>4

\* YieldItem: the next event, in its place, to the reader or into the slot.
LEMMA YieldItemStep ==
  ASSUME IInv, NEW type \in {"session_started", "text_delta"}, YieldItem(type)
  PROVE  IInv'
<1> DEFINE e == Item(type, produced + 1)
<1>1. /\ op = "reading" /\ produced < MaxItems /\ (type = "session_started" <=> ~session)
      /\ session' /\ advanced' /\ session' \in BOOLEAN /\ advanced' \in BOOLEAN
      /\ effects' = effects \cup {attempt} /\ produced' = produced + 1
      /\ SendItem(e)
      /\ UNCHANGED <<batch, leased, attempt, terminal, outcome, abort, returned, cancelling>>
  BY DEF YieldItem, Accepted, consumerVars
<1>2. produced' \in 0..MaxItems /\ produced + 1 \in 1..MaxItems
  BY <1>1, ProviderStreamAssumption DEF IInv, TypeOK
<1>3. /\ e \in Items /\ e.type = type /\ e.n = produced + 1
      /\ e \in Items \cup Outcomes /\ e \notin Outcomes /\ e # NoEvent
      /\ e.type \notin TerminalTypes
  <2>1. e \in Items
    BY <1>2 DEF Items
  <2>2. e.type = type /\ e.n = produced + 1
    BY DEF Item
  <2> QED
    BY <2>1, <2>2, Events DEF TerminalTypes
<1> HIDE DEF e
<1>4. /\ abort = "none" /\ ~SawTerminal /\ ~closed /\ ~ended /\ pending = NoEvent
      /\ produced = Len(got) /\ (session <=> HasSession)
      /\ got \in Seq(Items \cup Outcomes)
  BY <1>1 DEF IInv, TypeOK, ChannelIInv, StreamIInv
<1>5. Sound(batch') /\ HoldsWhatItMust' /\ OutcomeIsHonest' /\ EffectsKnown'
  <2>1. op' \in {"reading", "sending"}
    BY <1>1 DEF SendItem
  <2> QED
    BY <1>1, <2>1 DEF IInv, HoldsWhatItMust, OutcomeIsHonest, EffectsKnown, Ending
<1>6. effects' \subseteq {0, 1}
  BY <1>1 DEF IInv, TypeOK
<1>7. CASE reading
  <2>1. /\ got' = Append(got, e) /\ ~reading' /\ reading' \in BOOLEAN
        /\ UNCHANGED <<op, pending, closed, ended>>
    BY <1>1, <1>7 DEF SendItem
  <2>2. /\ got' \in Seq(Items \cup Outcomes) /\ Len(got') = Len(got) + 1
        /\ ~SawTerminal' /\ (HasSession' <=> HasSession \/ type = "session_started")
    BY <1>3, <1>4, <2>1, Delivered
  <2>3. TypeOK'
    BY <1>1, <1>2, <1>6, <2>1, <2>2 DEF IInv, TypeOK, Ops
  <2>4. ChannelIInv'
    BY <1>1, <1>4, <2>1, <2>2 DEF IInv, ChannelIInv
  <2>5. StreamIInv'
    BY <1>1, <1>2, <1>4, <2>1, <2>2 DEF StreamIInv
  <2> QED
    BY <1>5, <2>3, <2>4, <2>5 DEF IInv
<1>8. CASE ~reading
  <2>1. pending' = e /\ op' = "sending" /\ UNCHANGED <<closed, reading, got, ended>>
    BY <1>1, <1>8 DEF SendItem
  <2>2. ~SawTerminal' /\ (HasSession' <=> HasSession)
    BY <1>4, <2>1 DEF SawTerminal, HasSession
  <2>3. TypeOK'
    BY <1>1, <1>2, <1>3, <1>6, <2>1 DEF IInv, TypeOK, Ops
  <2>4. ChannelIInv'
    BY <1>1, <1>3, <1>4, <1>8, <2>1, <2>2 DEF IInv, ChannelIInv
  <2>5. StreamIInv'
    BY <1>1, <1>2, <1>3, <1>4, <2>1, <2>2 DEF StreamIInv
  <2> QED
    BY <1>5, <2>3, <2>4, <2>5 DEF IInv
<1> QED
  BY <1>7, <1>8

\* YieldTerminal: kept until the iterator is exhausted.
LEMMA YieldTerminalStep ==
  ASSUME IInv, NEW e \in Yielded, YieldTerminal(e)
  PROVE  IInv'
<1>1. /\ op = "reading" /\ terminal = NoEvent /\ terminal' = e
      /\ effects' = IF e.type = "failed" /\ e.advanced THEN effects \cup {attempt} ELSE effects
      /\ UNCHANGED <<op, batch, leased, attempt, session, advanced, outcome, abort, produced,
                     channelVars, consumerVars>>
  BY DEF YieldTerminal
<1>2. e # NoEvent
  BY YieldedEvents, Events
<1>3. effects' \subseteq {attempt} /\ effects' \subseteq {0, 1}
  BY <1>1 DEF IInv, EffectsKnown, TypeOK
<1>4. TypeOK' /\ Sound(batch')
  BY <1>1, <1>3 DEF IInv, TypeOK, Ops, channelVars, consumerVars
<1>5. ChannelIInv'
  BY <1>1, ChannelKept
<1>6. StreamIInv'
  BY <1>1, StreamKept DEF channelVars
<1>7. HoldsWhatItMust' /\ OutcomeIsHonest'
  BY <1>1 DEF IInv, HoldsWhatItMust, OutcomeIsHonest, Ending
<1>8. EffectsKnown'
  BY <1>1, <1>2, <1>3 DEF IInv, EffectsKnown
<1> QED
  BY <1>4, <1>5, <1>6, <1>7, <1>8 DEF IInv

\* YieldInvalid.
LEMMA YieldInvalidStep ==
  ASSUME IInv, YieldInvalid
  PROVE  IInv'
<1>1. /\ op = "reading" /\ op' = "closing"
      /\ UNCHANGED <<batch, leased, attempt, terminal, session, advanced, outcome, abort,
                     produced, effects, channelVars, consumerVars>>
  BY DEF YieldInvalid
<1>2. TypeOK' /\ Sound(batch')
  BY <1>1 DEF IInv, TypeOK, Ops, channelVars, consumerVars
<1>3. ChannelIInv'
  BY <1>1, ChannelKept
<1>4. StreamIInv'
  BY <1>1, StreamKept DEF channelVars
<1>5. HoldsWhatItMust' /\ OutcomeIsHonest' /\ EffectsKnown'
  BY <1>1 DEF IInv, HoldsWhatItMust, OutcomeIsHonest, EffectsKnown, Ending
<1> QED
  BY <1>2, <1>3, <1>4, <1>5 DEF IInv

\* The iteration ends in an honest outcome, and the cleanup begins.
LEMMA CleanupOK ==
  ASSUME IInv, NEW o \in Outcomes, Cleanup(o), op \in {"reading", "closing"},
         session /\ o.type = "failed" /\ o.code \in GatewayCodes => o.advanced,
         advanced' \in BOOLEAN, session => advanced',
         UNCHANGED <<batch, leased, attempt, terminal, session, abort, produced, effects,
                     channelVars, consumerVars>>
  PROVE  IInv'
<1>1. /\ op' \in {"unimage", "unlease"} /\ (op' = "unimage" <=> batch.at = "held")
      /\ outcome' = o
  BY DEF Cleanup, CleanupOp
<1>2. ~batch.dir \/ batch.at = "held"
  BY DEF IInv, HoldsWhatItMust, Sound
<1>3. TypeOK' /\ Sound(batch')
  BY <1>1 DEF IInv, TypeOK, Ops, channelVars, consumerVars
<1>4. ChannelIInv'
  BY <1>1, ChannelKeptByEnding
<1>5. StreamIInv'
  BY <1>1, StreamKept DEF channelVars
<1>6. HoldsWhatItMust' /\ EffectsKnown'
  BY <1>1 DEF IInv, HoldsWhatItMust, EffectsKnown
<1>7. OutcomeIsHonest'
  BY <1>1, <1>2 DEF OutcomeIsHonest, Ending
<1> QED
  BY <1>3, <1>4, <1>5, <1>6, <1>7 DEF IInv

\* IteratorReturned.
LEMMA IteratorReturnedStep ==
  ASSUME IInv, NEW ok \in BOOLEAN, IteratorReturned(ok)
  PROVE  IInv'
<1>1. PICK o \in OwnErrors \cup {Failed("adapter_protocol_error", advanced)} : Cleanup(o)
  BY DEF IteratorReturned
<1>2. /\ op = "closing"
      /\ UNCHANGED <<batch, leased, attempt, terminal, session, advanced, abort, produced,
                     effects, channelVars, consumerVars>>
  BY DEF IteratorReturned
<1>3. /\ "thrown" \in Codes /\ "adapter_protocol_error" \in Codes
      /\ advanced \in BOOLEAN /\ (session => advanced)
  BY DEF Codes, IInv, TypeOK, OutcomeIsHonest
<1>4. o \in Outcomes /\ (o.type = "failed" => o.advanced = advanced)
  BY <1>1, <1>3, Events, ThrownEvents DEF OwnErrors
<1> QED
  BY <1>1, <1>2, <1>3, <1>4, CleanupOK

\* AdapterThrows.
LEMMA AdapterThrowsStep ==
  ASSUME IInv, AdapterThrows
  PROVE  IInv'
<1>1. PICK o \in OwnErrors : Cleanup(o)
  BY DEF AdapterThrows
<1>2. /\ op = "reading"
      /\ UNCHANGED <<batch, leased, attempt, terminal, session, advanced, abort, produced,
                     effects, channelVars, consumerVars>>
  BY DEF AdapterThrows
<1>3. "thrown" \in Codes /\ advanced \in BOOLEAN /\ (session => advanced)
  BY DEF Codes, IInv, TypeOK, OutcomeIsHonest
<1>4. o \in Outcomes /\ (o.type = "failed" => o.advanced = advanced)
  BY <1>1, <1>3, Events, ThrownEvents DEF OwnErrors
<1> QED
  BY <1>1, <1>2, <1>3, <1>4, CleanupOK

\* Exhausted: another attempt only when this one has had no effect.
LEMMA ExhaustedStep ==
  ASSUME IInv, Exhausted
  PROVE  IInv'
<1>1. /\ op = "reading"
      /\ UNCHANGED <<batch, leased, session, abort, produced, effects, channelVars, consumerVars>>
  BY DEF Exhausted
<1>2. CASE terminal # NoEvent /\ attempt = 0 /\ Retryable(terminal)
  <2>1. attempt' = 1 /\ terminal' = NoEvent /\ UNCHANGED <<op, outcome, advanced>>
    BY <1>2 DEF Exhausted
  <2>2. ~session /\ terminal = Failed("spawn_failed", FALSE)
    BY <1>2 DEF Retryable
  <2>3. terminal.advanced = FALSE
    BY <2>2 DEF Failed
  <2>4. effects = {}
    BY <2>2, <2>3 DEF IInv, EffectsKnown
  <2>5. TypeOK' /\ Sound(batch')
    BY <1>1, <2>1 DEF IInv, TypeOK, Ops, channelVars, consumerVars
  <2>6. ChannelIInv'
    BY <1>1, <2>1, ChannelKept
  <2>7. StreamIInv'
    BY <1>1, <2>1, StreamKept DEF channelVars
  <2>8. HoldsWhatItMust' /\ OutcomeIsHonest' /\ EffectsKnown'
    BY <1>1, <2>1, <2>4 DEF IInv, HoldsWhatItMust, OutcomeIsHonest, EffectsKnown, Ending
  <2> QED
    BY <2>5, <2>6, <2>7, <2>8 DEF IInv
<1>3. CASE ~(terminal # NoEvent /\ attempt = 0 /\ Retryable(terminal))
  <2> DEFINE o == IF terminal = NoEvent
                    THEN Failed("adapter_protocol_error", advanced) ELSE terminal
             tells == terminal # NoEvent /\ terminal.type = "failed" /\ terminal.advanced
  <2>1. Cleanup(o) /\ advanced' = (advanced \/ tells) /\ UNCHANGED <<attempt, terminal>>
    BY <1>3 DEF Exhausted
  <2>2. /\ "adapter_protocol_error" \in Codes /\ advanced \in BOOLEAN /\ (session => advanced)
        /\ terminal \in Yielded \cup {NoEvent}
    BY DEF Codes, IInv, TypeOK, OutcomeIsHonest
  <2>3. /\ o \in Outcomes
        /\ session /\ o.type = "failed" /\ o.code \in GatewayCodes => o.advanced
    BY <2>2, Events, YieldedEvents
  <2>4. advanced' \in BOOLEAN
    BY <2>1, <2>2, YieldedEvents
  <2>5. session => advanced'
    BY <2>1, <2>2
  <2> HIDE DEF o
  <2> QED
    BY <1>1, <2>1, <2>3, <2>4, <2>5, CleanupOK
<1> QED
  BY <1>2, <1>3

-----------------------------------------------------------------------------
(* Aborts.                                                                 *)

\* Whatever the operation awaits, an abort leaves it on the way to its end, with
\* what it still has to release, and the slot empty.
LEMMA AbortOK ==
  ASSUME IInv, NEW reason \in {"timeout", "cancelled"}, Abort(reason),
         op \notin {"queued", "settled"},
         UNCHANGED <<leased, attempt, terminal, session, advanced, produced, effects, got>>
  PROVE  /\ Sound(batch') /\ BatchOK(batch')
         /\ HoldsWhatItMust' /\ OutcomeIsHonest' /\ EffectsKnown' /\ StreamIInv'
         /\ op' \in Ops \ {"queued", "reading", "sending", "settled"}
         /\ outcome' \in Outcomes \cup {NoEvent}
         /\ abort' \in {"timeout", "cancelled"} /\ pending' = NoEvent
         /\ ~SawTerminal /\ ~SawTerminal'
<1>1. /\ abort' = IF abort # "none" THEN abort ELSE reason
      /\ batch' = IF abort = "none" THEN Interrupted(batch) ELSE batch
      /\ abort' \in {"timeout", "cancelled"}
  BY DEF Abort, IInv, TypeOK
<1>2. /\ Sound(batch')
      /\ batch' = batch \/ (batch.at \in Awaiting /\ batch'.at \in Awaiting)
  BY <1>1, InterruptedSound DEF IInv, Awaiting
<1>3. BatchOK(batch')
  BY <1>2, SoundTyped
<1>4. ~SawTerminal /\ ~SawTerminal' /\ EffectsKnown'
  BY DEF IInv, ChannelIInv, SawTerminal, EffectsKnown
<1>5. advanced \in BOOLEAN /\ (session => advanced)
  BY DEF IInv, TypeOK, OutcomeIsHonest
<1>6. CASE abort = "none" /\ op \in {"reading", "sending"}
  <2>1. op' = CleanupOp(batch) /\ outcome' = ThrownBy(reason, advanced) /\ pending' = NoEvent
    BY <1>6 DEF Abort, Stopped, Cleanup
  <2>2. op' \in {"unimage", "unlease"} /\ (op' = "unimage" <=> batch.at = "held")
    BY <2>1 DEF CleanupOp
  <2>3. batch.at = "held" \/ (batch.at = "asked" /\ ~batch.dir)
    BY <1>6 DEF IInv, HoldsWhatItMust, Sound
  <2>4. batch' = batch
    BY <1>2, <2>3 DEF Awaiting
  <2>5. /\ outcome' \in Outcomes
        /\ outcome'.type = "failed" => outcome'.advanced = advanced
    BY <1>5, <2>1, ThrownEvents
  <2>6. HoldsWhatItMust' /\ OutcomeIsHonest'
    BY <1>5, <2>2, <2>3, <2>4, <2>5 DEF HoldsWhatItMust, OutcomeIsHonest, Ending
  <2>7. StreamIInv'
    BY <1>1, <2>2 DEF StreamIInv
  <2> QED
    BY <1>1, <1>2, <1>3, <1>4, <2>1, <2>2, <2>5, <2>6, <2>7 DEF Ops
<1>7. CASE ~(abort = "none" /\ op \in {"reading", "sending"})
  <2>1. UNCHANGED <<op, outcome, pending>>
    BY <1>7 DEF Abort, Stopped
  <2>2. op \notin {"reading", "sending"} /\ pending = NoEvent
    BY <1>7 DEF IInv, ChannelIInv, TypeOK
  <2>3. HoldsWhatItMust'
    BY <1>2, <2>1, <2>2 DEF IInv, HoldsWhatItMust, Awaiting
  <2>4. OutcomeIsHonest'
    BY <1>1, <2>1 DEF IInv, OutcomeIsHonest
  <2>5. StreamIInv'
    BY <1>1, <2>1, <2>2 DEF IInv, StreamIInv
  <2> QED
    BY <1>1, <1>2, <1>3, <1>4, <2>1, <2>2, <2>3, <2>4, <2>5 DEF IInv, TypeOK
<1> QED
  BY <1>6, <1>7

\* Timeout.
LEMMA TimeoutStep ==
  ASSUME IInv, Timeout
  PROVE  IInv'
<1>1. /\ op \notin {"queued", "settled"} /\ Abort("timeout")
      /\ UNCHANGED <<leased, attempt, terminal, session, advanced, produced, effects,
                     closed, reading, got, ended, returned, cancelling>>
  BY DEF Timeout, consumerVars
<1>2. /\ Sound(batch') /\ BatchOK(batch')
      /\ HoldsWhatItMust' /\ OutcomeIsHonest' /\ EffectsKnown' /\ StreamIInv'
      /\ op' \in Ops \ {"queued", "reading", "sending", "settled"}
      /\ outcome' \in Outcomes \cup {NoEvent}
      /\ abort' \in {"timeout", "cancelled"} /\ pending' = NoEvent
      /\ ~SawTerminal /\ ~SawTerminal'
  BY <1>1, AbortOK
<1>3. TypeOK'
  BY <1>1, <1>2 DEF IInv, TypeOK
<1>4. ChannelIInv'
  BY <1>1, <1>2, ProviderStreamAssumption DEF IInv, ChannelIInv
<1> QED
  BY <1>2, <1>3, <1>4 DEF IInv

\* Cancel: a call in the queue settles at once.
LEMMA CancelStep ==
  ASSUME IInv, Cancel
  PROVE  IInv'
<1>1. /\ op # "settled"
      /\ UNCHANGED <<attempt, terminal, session, advanced, produced, effects, consumerVars>>
  BY DEF Cancel
<1>2. CASE op = "queued"
  <2>1. /\ op' = "settled" /\ abort' = "cancelled" /\ outcome' = Cancelled
        /\ Forward(Cancelled) /\ UNCHANGED <<batch, leased>>
    BY <1>2 DEF Cancel
  <2>2. /\ ChannelIInv' /\ StreamIInv'
        /\ got' \in Seq(Items \cup Outcomes)
        /\ pending' \in Items \cup Outcomes \cup {NoEvent}
        /\ closed' \in BOOLEAN /\ reading' \in BOOLEAN /\ ended' \in BOOLEAN
    BY <1>1, <1>2, <2>1, Events, SettledChannel
  <2>3. TypeOK'
    BY <1>1, <2>1, <2>2, Events DEF IInv, TypeOK, Ops, consumerVars
  <2>4. HoldsWhatItMust' /\ EffectsKnown' /\ Sound(batch')
    BY <1>1, <1>2, <2>1 DEF IInv, HoldsWhatItMust, EffectsKnown
  <2>5. OutcomeIsHonest'
    BY <1>1, <2>1, Events DEF IInv, OutcomeIsHonest, TellsOfImages
  <2> QED
    BY <2>2, <2>3, <2>4, <2>5 DEF IInv
<1>3. CASE op # "queued"
  <2>1. Abort("cancelled") /\ UNCHANGED <<leased, closed, reading, got, ended>>
    BY <1>3 DEF Cancel
  <2>2. /\ Sound(batch') /\ BatchOK(batch')
        /\ HoldsWhatItMust' /\ OutcomeIsHonest' /\ EffectsKnown' /\ StreamIInv'
        /\ op' \in Ops \ {"queued", "reading", "sending", "settled"}
        /\ outcome' \in Outcomes \cup {NoEvent}
        /\ abort' \in {"timeout", "cancelled"} /\ pending' = NoEvent
        /\ ~SawTerminal /\ ~SawTerminal'
    BY <1>1, <1>3, <2>1, AbortOK
  <2>3. TypeOK'
    BY <1>1, <2>1, <2>2 DEF IInv, TypeOK, consumerVars
  <2>4. ChannelIInv'
    BY <1>1, <1>3, <2>1, <2>2, ProviderStreamAssumption DEF IInv, ChannelIInv, consumerVars
  <2> QED
    BY <2>2, <2>3, <2>4 DEF IInv
<1> QED
  BY <1>2, <1>3

-----------------------------------------------------------------------------
(* The consumer.                                                           *)

\* ConsumerNext: what waits in the slot, the end, or a wait.
LEMMA ConsumerNextStep ==
  ASSUME IInv, ConsumerNext
  PROVE  IInv'
<1>1. /\ returned = "no" /\ ~reading /\ ~ended
      /\ UNCHANGED <<batch, leased, attempt, terminal, session, advanced, outcome, abort,
                     produced, effects, returned, cancelling>>
  BY DEF ConsumerNext, consumerVars
<1>2. got \in Seq(Items \cup Outcomes) /\ NoEvent \notin Items /\ NoEvent \notin Outcomes
  BY ProviderStreamAssumption DEF IInv, TypeOK
<1>3. CASE TakePending
  <2>1. /\ pending # NoEvent /\ got' = Append(got, pending) /\ pending' = NoEvent
        /\ closed' = (op = "settled") /\ op' = IF op = "sending" THEN "reading" ELSE op
        /\ UNCHANGED <<reading, ended>>
    BY <1>3 DEF TakePending
  <2>2. /\ pending \in Items \cup Outcomes
        /\ pending \in Items => op = "sending"
        /\ pending \in Outcomes => op = "settled" /\ ~SawTerminal
    BY <2>1 DEF IInv, TypeOK, ChannelIInv
  <2>3. /\ got' \in Seq(Items \cup Outcomes) /\ Len(got') = Len(got) + 1 /\ Len(got) \in Nat
        /\ SawTerminal' <=> SawTerminal \/ pending.type \in TerminalTypes
        /\ HasSession' <=> HasSession \/ pending.type = "session_started"
    BY <1>2, <2>1, <2>2, Delivered
  <2>4. /\ pending \in Items => pending.type \notin TerminalTypes
        /\ pending \in Outcomes => pending.type \in TerminalTypes
    BY Events DEF TerminalTypes
  <2>5. TypeOK' /\ Sound(batch')
    BY <1>1, <2>1, <2>3 DEF IInv, TypeOK, Ops
  <2>6. HoldsWhatItMust' /\ OutcomeIsHonest' /\ EffectsKnown'
    BY <1>1, <2>1, <2>2 DEF IInv, HoldsWhatItMust, OutcomeIsHonest, EffectsKnown, Ending
  <2>7. ChannelIInv'
    BY <1>1, <1>2, <2>1, <2>2, <2>3, <2>4 DEF IInv, ChannelIInv
  <2>8. StreamIInv'
    <3>1. CASE op = "sending"
      BY <1>1, <2>1, <2>2, <2>3, <2>4, <3>1 DEF IInv, StreamIInv, ChannelIInv
    <3>2. CASE op = "settled"
      BY <1>1, <2>1, <2>2, <2>3, <2>4, <3>2 DEF IInv, StreamIInv, ChannelIInv
    <3> QED
      BY <2>2, <3>1, <3>2
  <2> QED
    BY <2>5, <2>6, <2>7, <2>8 DEF IInv
<1>4. CASE ~TakePending
  <2>1. /\ pending = NoEvent /\ UNCHANGED <<op, pending, closed, got>>
        /\ \/ closed /\ ended' = TRUE /\ UNCHANGED reading
           \/ ~closed /\ reading' = TRUE /\ UNCHANGED ended
    BY <1>4 DEF ConsumerNext
  <2>2. (SawTerminal' <=> SawTerminal) /\ (HasSession' <=> HasSession)
    BY <2>1 DEF SawTerminal, HasSession
  <2>3. TypeOK' /\ Sound(batch')
    BY <1>1, <2>1 DEF IInv, TypeOK
  <2>4. HoldsWhatItMust' /\ OutcomeIsHonest' /\ EffectsKnown'
    BY <1>1, <2>1 DEF IInv, HoldsWhatItMust, OutcomeIsHonest, EffectsKnown
  <2>5. ChannelIInv'
    BY <1>1, <1>2, <2>1, <2>2 DEF IInv, ChannelIInv
  <2>6. StreamIInv'
    BY <1>1, <2>1, <2>2 DEF IInv, StreamIInv
  <2> QED
    BY <2>3, <2>4, <2>5, <2>6 DEF IInv
<1> QED
  BY <1>3, <1>4

\* ConsumerReturn: the run is aborted, unless its terminal event was seen.
LEMMA ConsumerReturnStep ==
  ASSUME IInv, ConsumerReturn
  PROVE  IInv'
<1>1. /\ returned = "no" /\ returned' = "asked"
      /\ UNCHANGED <<leased, attempt, terminal, session, advanced, produced, effects>>
  BY DEF ConsumerReturn
<1>2. CASE SawTerminal
  <2>1. UNCHANGED <<op, batch, outcome, abort, cancelling, pending, closed, reading, got, ended>>
    BY <1>2 DEF ConsumerReturn, channelVars
  <2>2. SawTerminal' /\ (HasSession' <=> HasSession)
    BY <1>2, <2>1 DEF SawTerminal, HasSession
  <2>3. op = "settled" /\ closed
    BY <1>2 DEF IInv, ChannelIInv
  <2>4. TypeOK' /\ Sound(batch')
    BY <1>1, <2>1 DEF IInv, TypeOK
  <2>5. HoldsWhatItMust' /\ OutcomeIsHonest' /\ EffectsKnown' /\ StreamIInv'
    BY <1>1, <1>2, <2>1, <2>2
       DEF IInv, HoldsWhatItMust, OutcomeIsHonest, EffectsKnown, StreamIInv
  <2>6. ChannelIInv'
    BY <1>1, <1>2, <2>1, <2>2, <2>3 DEF IInv, ChannelIInv
  <2> QED
    BY <2>4, <2>5, <2>6 DEF IInv
<1>3. CASE ~SawTerminal
  <2>1. /\ closed' = TRUE /\ reading' = FALSE /\ ended' = (ended \/ reading)
        /\ cancelling' = (op # "queued") /\ UNCHANGED got
    BY <1>3 DEF ConsumerReturn, CloseChannel
  <2>2. /\ ~SawTerminal' /\ (HasSession' <=> HasSession)
        /\ ended' \in BOOLEAN /\ cancelling' \in BOOLEAN
    BY <1>3, <2>1 DEF SawTerminal, HasSession, IInv, TypeOK
  <2>3. CASE op = "queued"
    <3>1. /\ op' = "settled" /\ abort' = "cancelled" /\ outcome' = Cancelled
          /\ UNCHANGED <<batch, pending>>
      BY <1>3, <2>3 DEF ConsumerReturn
    <3>2. pending = NoEvent
      BY <2>3 DEF IInv, TypeOK, ChannelIInv
    <3>3. TypeOK' /\ Sound(batch')
      BY <1>1, <2>1, <2>2, <3>1, Events DEF IInv, TypeOK, Ops
    <3>4. HoldsWhatItMust' /\ EffectsKnown'
      BY <1>1, <2>3, <3>1 DEF IInv, HoldsWhatItMust, EffectsKnown
    <3>5. OutcomeIsHonest'
      BY <1>1, <3>1, Events DEF IInv, OutcomeIsHonest
    <3>6. ChannelIInv' /\ StreamIInv'
      BY <1>1, <2>1, <2>2, <3>1, <3>2, ProviderStreamAssumption DEF ChannelIInv, StreamIInv
    <3> QED
      BY <3>3, <3>4, <3>5, <3>6 DEF IInv
  <2>4. CASE op = "settled"
    <3>1. pending' = NoEvent /\ UNCHANGED <<op, batch, outcome, abort>>
      BY <1>3, <2>4 DEF ConsumerReturn
    <3>2. TypeOK' /\ Sound(batch')
      BY <1>1, <2>1, <2>2, <3>1 DEF IInv, TypeOK
    <3>3. HoldsWhatItMust' /\ EffectsKnown' /\ OutcomeIsHonest'
      BY <1>1, <3>1 DEF IInv, HoldsWhatItMust, EffectsKnown, OutcomeIsHonest
    <3>4. ChannelIInv'
      BY <1>1, <2>1, <2>2, <2>4, <3>1, ProviderStreamAssumption DEF IInv, ChannelIInv
    <3>5. StreamIInv'
      BY <1>1, <1>3, <2>1, <2>2, <2>4, <3>1 DEF IInv, StreamIInv
    <3> QED
      BY <3>2, <3>3, <3>4, <3>5 DEF IInv
  <2>5. CASE op \notin {"queued", "settled"}
    <3>1. Abort("cancelled")
      BY <1>3, <2>5 DEF ConsumerReturn
    <3>2. /\ Sound(batch') /\ BatchOK(batch')
          /\ HoldsWhatItMust' /\ OutcomeIsHonest' /\ EffectsKnown' /\ StreamIInv'
          /\ op' \in Ops \ {"queued", "reading", "sending", "settled"}
          /\ outcome' \in Outcomes \cup {NoEvent}
          /\ abort' \in {"timeout", "cancelled"} /\ pending' = NoEvent
      BY <1>1, <2>1, <2>5, <3>1, AbortOK
    <3>3. TypeOK'
      BY <1>1, <2>1, <2>2, <3>2 DEF IInv, TypeOK
    <3>4. ChannelIInv'
      BY <1>1, <2>1, <2>2, <3>2, ProviderStreamAssumption DEF ChannelIInv
    <3> QED
      BY <3>2, <3>3, <3>4 DEF IInv
  <2> QED
    BY <2>3, <2>4, <2>5
<1> QED
  BY <1>2, <1>3

\* AdapterCancelled and ReturnDone.
LEMMA ReturnStep ==
  ASSUME IInv, AdapterCancelled \/ ReturnDone
  PROVE  IInv'
<1>1. /\ UNCHANGED <<opVars, channelVars>> /\ cancelling' \in BOOLEAN
      /\ returned' = returned \/ (returned = "asked" /\ returned' = "done" /\ op = "settled")
  BY DEF AdapterCancelled, ReturnDone, IInv, TypeOK
<1>2. (SawTerminal' <=> SawTerminal) /\ (HasSession' <=> HasSession)
  BY <1>1 DEF SawTerminal, HasSession, channelVars
<1>3. TypeOK' /\ Sound(batch')
  BY <1>1 DEF IInv, TypeOK, opVars, channelVars
<1>4. HoldsWhatItMust' /\ EffectsKnown' /\ OutcomeIsHonest' /\ StreamIInv'
  BY <1>1, <1>2
     DEF IInv, HoldsWhatItMust, EffectsKnown, OutcomeIsHonest, StreamIInv, opVars, channelVars
<1>5. ChannelIInv'
  BY <1>1, <1>2 DEF IInv, TypeOK, ChannelIInv, opVars, channelVars
<1> QED
  BY <1>3, <1>4, <1>5 DEF IInv

-----------------------------------------------------------------------------
(* The invariant, and what it says.                                        *)

\* Every step keeps the invariant.
LEMMA StepOK ==
  ASSUME IInv, [Next]_vars
  PROVE  IInv'
<1>1. CASE UNCHANGED vars
  BY <1>1 DEF vars, opVars, consumerVars, channelVars, IInv, TypeOK, HoldsWhatItMust,
     OutcomeIsHonest, EffectsKnown, ChannelIInv, StreamIInv, SawTerminal, HasSession
<1>2. CASE Queue
  BY <1>2, AdmittedStep, NotAdmittedStep DEF Queue
<1>3. CASE FileSystem
  BY <1>3, WorkspaceAcquiredStep, ImagesStoredStep, ImagesReleasedStep, WorkspaceReleasedStep
     DEF FileSystem
<1>4. CASE Provider
  BY <1>4, YieldItemStep, YieldTerminalStep, YieldInvalidStep, AdapterThrowsStep,
     ExhaustedStep, ImageFetchedStep DEF Provider
<1>5. CASE Closing
  BY <1>5, IteratorReturnedStep DEF Closing
<1>6. CASE Timeout \/ Cancel
  BY <1>6, TimeoutStep, CancelStep
<1>7. CASE ConsumerNext \/ ConsumerReturn \/ AdapterCancelled \/ ReturnDone
  BY <1>7, ConsumerNextStep, ConsumerReturnStep, ReturnStep
<1> QED
  BY <1>1, <1>2, <1>3, <1>4, <1>5, <1>6, <1>7 DEF Next

\* The invariant holds of every state of a run.
THEOREM Invariance == Spec => []IInv
<1>1. IInv /\ [Next]_vars => IInv'
  BY StepOK
<1> QED
  BY <1>1, InitOK, PTL DEF Spec

\* However the provider, the aborts and the consumer interleave, an event waits in
\* the slot exactly while the operation waits for it to be taken, and a reader never
\* waits where nothing will come: neither overlap error of the channel can happen.
THEOREM SlotAgrees == Spec => []ChannelAgrees
<1>1. IInv => ChannelAgrees
  BY DEF IInv, ChannelIInv, ChannelAgrees
<1> QED
  BY <1>1, Invariance, PTL

\* The provider's state is advanced in one attempt at most: what is retried has had
\* no effect.
THEOREM OneEffect == Spec => []AtMostOneEffect
<1>1. IInv => AtMostOneEffect
  BY DEF IInv, EffectsKnown, AtMostOneEffect
<1> QED
  BY <1>1, Invariance, PTL

\* The invariant says of a run that is settled what SettledIsComplete does.
LEMMA SettledComplete ==
  ASSUME IInv
  PROVE  SettledIsComplete
<1>1. SawTerminal \/ op = "settled" \/ returned = "done"
        => op = "settled" /\ ~leased /\ batch.at # "held"
  BY DEF IInv, ChannelIInv, HoldsWhatItMust
<1>2. ImagesAreWhole
  <2>1. ASSUME op \in {"reading", "sending", "closing"}, batch.wanted > 0
        PROVE  /\ batch.at = "held" /\ batch.dir
               /\ batch.n = batch.wanted /\ batch.wanted <= MaxImages
               /\ batch.bytes <= MaxTotalBytes
    <3>1. batch.at = "held" /\ batch \in Batch
      BY <2>1 DEF IInv, HoldsWhatItMust, Sound
    <3>2. batch.dir /\ batch.n = batch.wanted /\ batch.wanted \in 1..MaxImages
      BY <3>1 DEF IInv, Sound
    <3>3. batch.bytes \in 0..MaxTotalBytes
      BY <3>1 DEF Batch
    <3> QED
      BY <3>1, <3>2, <3>3, Limits
  <2>2. ASSUME op = "settled", batch.dir
        PROVE  \/ abort # "none" \/ outcome = Cancelled
               \/ outcome.type = "failed"
                  /\ outcome.code \in {"image_cleanup_failed", "workspace_cleanup_error"}
    BY <2>2 DEF IInv, OutcomeIsHonest, TellsOfImages
  <2> QED
    BY <2>1, <2>2 DEF ImagesAreWhole
<1>3. op = "settled" /\ session /\ outcome.type = "failed" /\ outcome.code \in GatewayCodes
        => outcome.advanced
  BY DEF IInv, OutcomeIsHonest, Ending
<1> QED
  BY <1>1, <1>2, <1>3 DEF SettledIsComplete

\* The terminal event is seen after the release of the images and the workspace;
\* the provider gets the images whole, within the limits whatever they are; and what
\* is left behind, or may have advanced the provider's state, is told.
THEOREM CompleteWhenSettled == Spec => []SettledIsComplete
<1>1. IInv => SettledIsComplete
  BY SettledComplete
<1> QED
  BY <1>1, Invariance, PTL

-----------------------------------------------------------------------------
(* The stream that the consumer gets is the one EventStream promises.      *)

\* What is shown of an event.
Seen(e) ==
  [type |-> e.type,
   n    |-> IF e.type \in TerminalTypes THEN produced + 1 ELSE e.n,
   cut  |-> e.type \in TerminalTypes /\ abort # "none"]

\* What was shown stays, whatever the run goes on to do.
LEMMA ShownStays ==
  ASSUME UNCHANGED got, SawTerminal => UNCHANGED <<produced, abort>>
  PROVE  Shown' = Shown
<1>1. \A i \in DOMAIN got : Seen(got[i])' = Seen(got[i])
  <2> SUFFICES ASSUME NEW i \in DOMAIN got
               PROVE  Seen(got[i])' = Seen(got[i])
    OBVIOUS
  <2>1. CASE got[i].type \in TerminalTypes
    BY <2>1 DEF Seen, SawTerminal
  <2>2. CASE got[i].type \notin TerminalTypes
    BY <2>2 DEF Seen
  <2> QED
    BY <2>1, <2>2
<1>2. Shown = [i \in DOMAIN got |-> Seen(got[i])] /\ Shown' = [i \in DOMAIN got |-> Seen(got[i])']
  BY DEF Shown, Seen
<1> QED
  BY <1>1, <1>2

\* What is shown is a sequence, as long as what was delivered.
LEMMA ShownIsSeq ==
  ASSUME got \in Seq(Items \cup Outcomes)
  PROVE  /\ Len(Shown) = Len(got) /\ DOMAIN Shown = DOMAIN got
         /\ Shown \in Seq({Shown[i] : i \in DOMAIN got})
         /\ \A i \in DOMAIN got : Shown[i] = Seen(got[i])
<1> DEFINE S == {Shown[i] : i \in DOMAIN got}
<1>1. DOMAIN Shown = DOMAIN got /\ Shown = [i \in DOMAIN got |-> Shown[i]]
  BY DEF Shown
<1>2. DOMAIN got = 1..Len(got) /\ Len(got) \in Nat
  BY LenProperties
<1>3. Shown \in [1..Len(got) -> S]
  BY <1>1, <1>2
<1>4. Shown \in Seq(S)
  BY <1>2, <1>3, SeqDef
<1>5. Len(Shown) = Len(got)
  <2>1. DOMAIN Shown = 1..Len(Shown) /\ Len(Shown) \in Nat
    BY <1>4, LenProperties
  <2> QED
    BY <1>1, <1>2, <2>1
<1>6. \A i \in DOMAIN got : Shown[i] = Seen(got[i])
  BY DEF Shown, Seen
<1> QED
  BY <1>1, <1>4, <1>5, <1>6

\* An interval from 1 ends where it ends.
LEMMA SameEnds ==
  ASSUME NEW m \in Nat, NEW n \in Nat, 1..m = 1..n
  PROVE  m = n
OBVIOUS

\* The next event is shown after those that were shown.
LEMMA ShownGrows ==
  ASSUME got \in Seq(Items \cup Outcomes), ~SawTerminal,
         NEW e \in Items \cup Outcomes, got' = Append(got, e)
  PROVE  /\ Len(Shown) = Len(got) /\ Len(Shown') = Len(got) + 1
         /\ Shown'[Len(Shown')] = Seen(e)' /\ Shown' = Append(Shown, Seen(e)')
<1>1. /\ got' \in Seq(Items \cup Outcomes) /\ Len(got) \in Nat
      /\ Len(got') = Len(got) + 1 /\ got'[Len(got) + 1] = e
      /\ DOMAIN got = 1..Len(got) /\ DOMAIN got' = 1..(Len(got) + 1)
      /\ \A i \in DOMAIN got : got'[i] = got[i]
  BY Delivered
<1>2. /\ Len(Shown) = Len(got) /\ DOMAIN Shown = DOMAIN got
      /\ Shown \in Seq({Shown[i] : i \in DOMAIN got})
      /\ \A i \in DOMAIN got : Shown[i] = Seen(got[i])
  BY ShownIsSeq
<1>3. Shown' = [i \in DOMAIN got' |-> Seen(got[i])']
  BY DEF Shown, Seen
<1>4. \A i \in DOMAIN got' : Shown'[i] = Seen(got[i])'
  BY <1>3
<1>5. Len(Shown') = Len(got')
  <2> DEFINE S == {Shown'[i] : i \in DOMAIN got'}
  <2>1. Len(got') \in Nat /\ DOMAIN got' = 1..Len(got')
    BY <1>1
  <2>2. Shown' \in [1..Len(got') -> S]
    BY <1>3, <2>1
  <2>3. Shown' \in Seq(S)
    BY <2>1, <2>2, SeqDef
  <2>4. DOMAIN Shown' = 1..Len(Shown') /\ Len(Shown') \in Nat
    BY <2>3, LenProperties
  <2>5. DOMAIN Shown' = 1..Len(got')
    BY <2>2
  <2> HIDE DEF S
  <2>6. Len(Shown') \in Nat /\ 1..Len(Shown') = 1..Len(got')
    BY <2>4, <2>5
  <2> QED
    BY <2>1, <2>6, SameEnds
<1>6. ASSUME NEW i \in DOMAIN got
      PROVE  Shown'[i] = Shown[i]
  <2>1. got[i].type \notin TerminalTypes /\ got'[i] = got[i] /\ i \in DOMAIN got'
    BY <1>1 DEF SawTerminal
  <2>2. Shown'[i] = Seen(got[i])' /\ Shown[i] = Seen(got[i])
    BY <1>2, <1>4, <2>1
  <2> QED
    BY <2>1, <2>2 DEF Seen
<1>7. Shown'[Len(got) + 1] = Seen(e)'
  <2>1. Len(got) + 1 \in DOMAIN got'
    BY <1>1
  <2> QED
    BY <1>1, <1>4, <2>1 DEF Seen
<1>8. Shown' = Append(Shown, Seen(e)')
  <2> DEFINE S == {Shown[i] : i \in DOMAIN got} \cup {Seen(e)'}
             a == Append(Shown, Seen(e)')
  <2>1. Shown \in Seq(S) /\ Seen(e)' \in S
    BY <1>2, SeqMonotonic
  <2>2. /\ a \in Seq(S) /\ Len(a) = Len(got) + 1 /\ a[Len(got) + 1] = Seen(e)'
        /\ \A i \in 1..Len(got) : a[i] = Shown[i]
    BY <1>2, <2>1, AppendProperties
  <2>3. \A i \in DOMAIN got' : i = Len(got) + 1 \/ i \in DOMAIN got
    BY <1>1
  <2>4. \A i \in DOMAIN got' : Shown'[i] = a[i] /\ Shown'[i] \in S
    BY <1>1, <1>6, <1>7, <2>2, <2>3
  <2>5. Shown' \in [1..(Len(got) + 1) -> S]
    BY <1>1, <1>3, <2>4
  <2>6. Shown' \in Seq(S)
    BY <1>1, <2>5, SeqDef
  <2> HIDE DEF S, a
  <2>7. Shown' = a
    BY <1>1, <1>5, <2>2, <2>4, <2>6, SeqEqual
  <2> QED
    BY <2>7 DEF a
<1> QED
  BY <1>1, <1>2, <1>5, <1>7, <1>8

\* The stream is over when the consumer saw the terminal event.
LEMMA PromisedState ==
  ASSUME got \in Seq(Items \cup Outcomes)
  PROVE  (Promise!IsOver <=> SawTerminal) /\ (Promise!HasSession <=> HasSession)
<1>1. DOMAIN Shown = DOMAIN got /\ \A i \in DOMAIN got : Shown[i].type = got[i].type
  BY ShownIsSeq DEF Seen
<1> QED
  BY <1>1 DEF Promise!IsOver, Promise!HasSession, SawTerminal, HasSession

\* Events are delivered to a consumer that has not returned, after no terminal one.
LEMMA Delivers ==
  ASSUME got \in Seq(Items \cup Outcomes), ~SawTerminal, returned = "no", returned' = "no",
         ~ended, UNCHANGED ended, NEW e \in Items \cup Outcomes, got' = Append(got, e)
  PROVE  /\ Promise!Deliver /\ Promise!Fresh.type = e.type
         /\ Promise!Fresh = Seen(e)' /\ Len(Shown) = Len(got)
<1>1. /\ Len(Shown) = Len(got) /\ Len(Shown') = Len(got) + 1
      /\ Shown'[Len(Shown')] = Seen(e)' /\ Shown' = Append(Shown, Seen(e)')
  BY ShownGrows
<1>2. Promise!Fresh = Seen(e)'
  BY <1>1 DEF Promise!Fresh
<1>3. Promise!Fresh.type = e.type
  BY <1>2 DEF Seen
<1>4. ~Promise!IsOver
  BY PromisedState
<1> QED
  BY <1>1, <1>2, <1>3, <1>4 DEF Promise!Deliver

\* An item is delivered in its place, the session first and once.
LEMMA DeliversItem ==
  ASSUME got \in Seq(Items \cup Outcomes), ~SawTerminal, returned = "no", returned' = "no",
         ~ended, UNCHANGED ended, NEW e \in Items, got' = Append(got, e),
         e.n = Len(got) + 1, e.type = "session_started" <=> ~HasSession
  PROVE  Promise!DeliverItem
<1>1. e.type \notin TerminalTypes
  BY Events DEF TerminalTypes
<1>2. /\ Promise!Deliver /\ Promise!Fresh.type = e.type
      /\ Promise!Fresh = Seen(e)' /\ Len(Shown) = Len(got)
  BY Delivers
<1>3. Promise!Fresh.n = Len(Shown) + 1
  BY <1>1, <1>2 DEF Seen
<1>4. e.type = "session_started" <=> ~Promise!HasSession
  BY PromisedState
<1> QED
  BY <1>1, <1>2, <1>3, <1>4 DEF Promise!DeliverItem, Promise!NoGap

\* The outcome is delivered after everything produced, or it tells of the abort.
LEMMA DeliversOutcome ==
  ASSUME got \in Seq(Items \cup Outcomes), ~SawTerminal, returned = "no", returned' = "no",
         ~ended, UNCHANGED ended, NEW e \in Outcomes, got' = Append(got, e),
         abort' = "none" => produced' = Len(got), e.type = "completed" => abort' = "none"
  PROVE  Promise!DeliverTerminal
<1>1. e.type \in TerminalTypes
  BY Events
<1>2. /\ Promise!Deliver /\ Promise!Fresh.type = e.type
      /\ Promise!Fresh = Seen(e)' /\ Len(Shown) = Len(got)
  BY Delivers
<1>3. Promise!Fresh.n = produced' + 1 /\ Promise!Fresh.cut = (abort' # "none")
  BY <1>1, <1>2 DEF Seen
<1> QED
  BY <1>1, <1>2, <1>3 DEF Promise!DeliverTerminal, Promise!NoGap

\* A step that delivers nothing shows nothing new.
LEMMA ShowsNothing ==
  ASSUME UNCHANGED <<got, ended>>, (returned' # "no") <=> (returned # "no"),
         SawTerminal => UNCHANGED <<produced, abort>>
  PROVE  UNCHANGED Promise!streamVars
BY ShownStays DEF Promise!streamVars

\* So does one of the operation before it settles.
LEMMA OperationShowsNothing ==
  ASSUME IInv, op # "settled", UNCHANGED <<got, ended, returned>>
  PROVE  UNCHANGED Promise!streamVars
BY ShowsNothing DEF IInv, ChannelIInv

\* Settling: a reader gets the outcome.
LEMMA SettlingDelivers ==
  ASSUME IInv, NEW o \in Outcomes, op \notin {"sending", "settled"}, Forward(o),
         UNCHANGED <<returned, produced>>, abort' = "none" => abort = "none",
         o.type = "completed" => abort' = "none"
  PROVE  Promise!DeliverTerminal \/ UNCHANGED Promise!streamVars
<1>1. got \in Seq(Items \cup Outcomes) /\ ~SawTerminal /\ pending = NoEvent
  BY DEF IInv, TypeOK, ChannelIInv
<1>2. CASE ~closed /\ reading
  <2>1. got' = Append(got, o) /\ UNCHANGED ended
    BY <1>2 DEF Forward
  <2>2. returned = "no" /\ ~ended
    BY <1>2 DEF IInv, ChannelIInv
  <2>3. abort' = "none" => produced' = Len(got)
    BY <1>1 DEF IInv, StreamIInv
  <2> QED
    BY <1>1, <2>1, <2>2, <2>3, DeliversOutcome
<1>3. CASE closed \/ ~reading
  <2>1. UNCHANGED <<got, ended>>
    BY <1>1, <1>3 DEF Forward, channelVars
  <2> QED
    BY <1>1, <2>1, ShowsNothing
<1> QED
  BY <1>2, <1>3 DEF IInv, TypeOK

\* With what is left of the outcome after an abort.
LEMMA SettleWithDelivers ==
  ASSUME IInv, NEW o \in Outcomes, op \notin {"sending", "settled"}, SettleWith(o),
         UNCHANGED <<returned, produced, abort>>
  PROVE  Promise!DeliverTerminal \/ UNCHANGED Promise!streamVars
<1> DEFINE f == Final(o, abort)
<1>1. Forward(f)
  BY DEF SettleWith
<1>2. f \in Outcomes /\ (f.type = "completed" => abort = "none")
  BY FinalEvents
<1> HIDE DEF f
<1> QED
  BY <1>1, <1>2, SettlingDelivers

\* NotAdmitted, WorkspaceAcquired and WorkspaceReleased settle the run, or show
\* nothing.
LEMMA SettlingStep ==
  ASSUME IInv, NotAdmitted \/ \E ok \in BOOLEAN : WorkspaceAcquired(ok) \/ WorkspaceReleased(ok)
  PROVE  Promise!DeliverTerminal \/ UNCHANGED Promise!streamVars
<1>1. advanced \in BOOLEAN /\ {"queue", "thrown", "workspace_cleanup_error"} \subseteq Codes
  BY DEF IInv, TypeOK, Codes
<1>2. CASE NotAdmitted
  <2>1. op = "queued" /\ SettleWith(Failed("queue", advanced))
        /\ UNCHANGED <<returned, produced, abort>>
    BY <1>2 DEF NotAdmitted, consumerVars
  <2> QED
    BY <1>1, <2>1, Events, SettleWithDelivers
<1>3. ASSUME NEW ok \in BOOLEAN, WorkspaceAcquired(ok)
      PROVE  Promise!DeliverTerminal \/ UNCHANGED Promise!streamVars
  <2>1. op = "workspace" /\ UNCHANGED <<returned, produced, abort>>
    BY <1>3 DEF WorkspaceAcquired, consumerVars
  <2>2. SettleWith(Thrown("thrown")) \/ UNCHANGED <<got, ended>>
    BY <1>3 DEF WorkspaceAcquired, channelVars
  <2>3. Thrown("thrown") \in Outcomes
    BY <1>1, Events, ThrownEvents DEF Thrown
  <2> QED
    BY <2>1, <2>2, <2>3, SettleWithDelivers, OperationShowsNothing
<1>4. ASSUME NEW ok \in BOOLEAN, WorkspaceReleased(ok)
      PROVE  Promise!DeliverTerminal \/ UNCHANGED Promise!streamVars
  <2> DEFINE o == IF ok \/ outcome = Cancelled THEN outcome
                  ELSE Failed("workspace_cleanup_error", advanced)
  <2>1. op = "unlease" /\ SettleWith(o) /\ UNCHANGED <<returned, produced, abort>>
    BY <1>4 DEF WorkspaceReleased, consumerVars
  <2>2. o \in Outcomes
    BY <1>1, <2>1, Events DEF IInv, OutcomeIsHonest, Ending
  <2> HIDE DEF o
  <2> QED
    BY <2>1, <2>2, SettleWithDelivers
<1> QED
  BY <1>2, <1>3, <1>4

\* YieldItem.
LEMMA YieldingStep ==
  ASSUME IInv, NEW type \in {"session_started", "text_delta"}, YieldItem(type)
  PROVE  Promise!DeliverItem \/ UNCHANGED Promise!streamVars
<1> DEFINE e == Item(type, produced + 1)
<1>1. /\ op = "reading" /\ produced < MaxItems /\ (type = "session_started" <=> ~session)
      /\ SendItem(e) /\ UNCHANGED <<returned>>
  BY DEF YieldItem, Accepted, consumerVars
<1>2. /\ produced = Len(got) /\ (session <=> HasSession) /\ ~SawTerminal
      /\ got \in Seq(Items \cup Outcomes)
  BY <1>1 DEF IInv, TypeOK, ChannelIInv, StreamIInv
<1>3. e \in Items /\ e.n = produced + 1 /\ e.type = type
  <2>1. produced + 1 \in 1..MaxItems
    BY <1>1, ProviderStreamAssumption DEF IInv, TypeOK
  <2> QED
    BY <2>1 DEF Items, Item
<1> HIDE DEF e
<1>4. CASE reading
  <2>1. got' = Append(got, e) /\ UNCHANGED ended
    BY <1>1, <1>4 DEF SendItem
  <2>2. returned = "no" /\ ~ended
    BY <1>4 DEF IInv, ChannelIInv
  <2> QED
    BY <1>1, <1>2, <1>3, <2>1, <2>2, DeliversItem
<1>5. CASE ~reading
  <2>1. UNCHANGED <<got, ended>>
    BY <1>1, <1>5 DEF SendItem
  <2> QED
    BY <1>1, <2>1, OperationShowsNothing
<1> QED
  BY <1>4, <1>5

\* Cancel and Timeout.
LEMMA AbortingStep ==
  ASSUME IInv, Timeout \/ Cancel
  PROVE  Promise!DeliverTerminal \/ UNCHANGED Promise!streamVars
<1>1. op # "settled" /\ UNCHANGED <<returned, produced>>
  BY DEF Timeout, Cancel, consumerVars
<1>2. CASE Cancel /\ op = "queued"
  <2>1. Forward(Cancelled) /\ abort' = "cancelled"
    BY <1>2 DEF Cancel
  <2> QED
    BY <1>1, <1>2, <2>1, Events, SettlingDelivers
<1>3. CASE ~(Cancel /\ op = "queued")
  <2>1. UNCHANGED <<got, ended>>
    BY <1>3 DEF Timeout, Cancel
  <2> QED
    BY <1>1, <2>1, OperationShowsNothing
<1> QED
  BY <1>2, <1>3

\* ConsumerNext: the item or the outcome in the slot, or the end.
LEMMA ReadingStep ==
  ASSUME IInv, ConsumerNext
  PROVE  Promise!Next \/ UNCHANGED Promise!streamVars
<1>1. returned = "no" /\ ~ended /\ UNCHANGED <<returned, produced, abort>>
  BY DEF ConsumerNext, consumerVars
<1>2. got \in Seq(Items \cup Outcomes)
  BY DEF IInv, TypeOK
<1>3. CASE TakePending
  <2>1. pending # NoEvent /\ got' = Append(got, pending) /\ UNCHANGED ended
    BY <1>3 DEF TakePending
  <2>2. CASE pending \in Items
    <3>1. /\ op = "sending" /\ ~SawTerminal /\ pending.n = Len(got) + 1
          /\ pending.type = "session_started" <=> ~HasSession
      BY <2>2 DEF IInv, ChannelIInv, StreamIInv
    <3> QED
      BY <1>1, <1>2, <2>1, <2>2, <3>1, DeliversItem DEF Promise!Next
  <2>3. CASE pending \in Outcomes
    <3>1. op = "settled" /\ pending = outcome /\ ~SawTerminal
      BY <2>3 DEF IInv, ChannelIInv
    <3>2. /\ abort' = "none" => produced' = Len(got)
          /\ pending.type = "completed" => abort' = "none"
      BY <1>1, <3>1 DEF IInv, StreamIInv, OutcomeIsHonest
    <3> QED
      BY <1>1, <1>2, <2>1, <2>3, <3>1, <3>2, DeliversOutcome DEF Promise!Next
  <2> QED
    BY <2>1, <2>2, <2>3 DEF IInv, TypeOK
<1>4. CASE ~TakePending
  <2>1. UNCHANGED got /\ (UNCHANGED ended \/ (closed /\ ended' = TRUE))
    BY <1>4 DEF ConsumerNext
  <2>2. CASE UNCHANGED ended
    BY <1>1, <2>1, <2>2, ShowsNothing
  <2>3. CASE closed /\ ended' = TRUE
    <3>1. Promise!IsOver
      BY <1>1, <1>2, <2>3, PromisedState DEF IInv, ChannelIInv
    <3>2. Shown' = Shown
      BY <1>1, <2>1, ShownStays
    <3> QED
      BY <1>1, <2>3, <3>1, <3>2 DEF Promise!End, Promise!Next
  <2> QED
    BY <2>1, <2>2, <2>3
<1> QED
  BY <1>3, <1>4

\* ConsumerReturn: what was shown stays.
LEMMA ReturningStep ==
  ASSUME IInv, ConsumerReturn
  PROVE  Promise!Return
<1>1. returned' = "asked" /\ UNCHANGED <<got, produced>> /\ ended' \in BOOLEAN
      /\ (SawTerminal => UNCHANGED abort)
  BY DEF ConsumerReturn, CloseChannel, channelVars, IInv, TypeOK
<1>2. Shown' = Shown
  BY <1>1, ShownStays
<1> QED
  BY <1>1, <1>2 DEF Promise!Return

\* Every step of a run is one of the promised stream, or shows nothing.
LEMMA StepKeepsPromise ==
  ASSUME IInv, [Next]_vars
  PROVE  [Promise!Next]_(Promise!streamVars)
<1>1. CASE UNCHANGED vars
  BY <1>1, ShowsNothing DEF vars, opVars, consumerVars, channelVars
<1>2. CASE NotAdmitted \/ \E ok \in BOOLEAN : WorkspaceAcquired(ok) \/ WorkspaceReleased(ok)
  BY <1>2, SettlingStep DEF Promise!Next
<1>3. CASE \/ Admitted \/ (\E ok \in BOOLEAN : ImagesStored(ok) \/ ImagesReleased(ok))
           \/ (\E e \in Yielded : YieldTerminal(e)) \/ YieldInvalid \/ AdapterThrows
           \/ Exhausted \/ ImageFetched \/ Closing
  <2>1. op # "settled" /\ UNCHANGED <<channelVars, consumerVars>>
    BY <1>3 DEF Admitted, ImagesStored, ImagesReleased, YieldTerminal, YieldInvalid,
       AdapterThrows, Exhausted, ImageFetched, Closing, IteratorReturned
  <2> QED
    BY <2>1, OperationShowsNothing DEF channelVars, consumerVars
<1>4. ASSUME NEW type \in {"session_started", "text_delta"}, YieldItem(type)
      PROVE  [Promise!Next]_(Promise!streamVars)
  BY <1>4, YieldingStep DEF Promise!Next
<1>5. CASE Timeout \/ Cancel
  BY <1>5, AbortingStep DEF Promise!Next
<1>6. CASE ConsumerNext
  BY <1>6, ReadingStep
<1>7. CASE ConsumerReturn
  BY <1>7, ReturningStep DEF Promise!Next
<1>8. CASE AdapterCancelled \/ ReturnDone
  BY <1>8, ShowsNothing DEF AdapterCancelled, ReturnDone, opVars, channelVars
<1> QED
  BY <1>1, <1>2, <1>3, <1>4, <1>5, <1>6, <1>7, <1>8 DEF Next, Queue, FileSystem, Provider

\* Before its first step a run has shown nothing.
LEMMA InitKeepsPromise == Init => Promise!Init
<1> SUFFICES ASSUME Init PROVE Promise!Init
  OBVIOUS
<1>1. got \in Seq(Items \cup Outcomes) /\ Len(got) = 0
  BY DEF Init
<1>2. Len(Shown) = 0 /\ Shown \in Seq({Shown[i] : i \in DOMAIN got})
  BY <1>1, ShownIsSeq
<1>3. Shown = <<>>
  BY <1>2, EmptySeq
<1> QED
  BY <1>3 DEF Init, Promise!Init

\* invoke() implements what EventStream promises the extensions: the session first
\* and once, the items in order and without a gap, one terminal event, then the end;
\* "completed" only of a run that nobody aborted before it settled.
THEOREM PromiseKept == Spec => KeepsPromise
<1>1. IInv /\ [Next]_vars => [Promise!Next]_(Promise!streamVars)
  BY StepKeepsPromise
<1> QED
  BY <1>1, InitKeepsPromise, Invariance, PTL DEF Spec, KeepsPromise, Promise!Spec
=============================================================================

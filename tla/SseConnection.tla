---------------------------- MODULE SseConnection ---------------------------
(***************************************************************************)
(* One server-sent-events response: openSse (src/extensions/openai/        *)
(* sse.ts) over its socket.  Every frame is appended to a chain of         *)
(* promises, `tail`, and written when those before it have settled; a      *)
(* write that fills the socket's buffer settles only when the client has   *)
(* drained it.  A timer appends heartbeats to the same chain.              *)
(*                                                                         *)
(* A connection is a record; `said` is the promise of the last frame that  *)
(* its handler enqueued.  The client and the timer act at any time.        *)
(***************************************************************************)
EXTENDS Naturals, Sequences, SequencesExt

CONSTANTS
  Requests,
  HighWater,  \* frames that fill the socket's buffer
  MaxBeats    \* bound: heartbeats of a connection

ASSUME SseAssumption == HighWater \in Nat \ {0} /\ MaxBeats \in Nat

VARIABLE sse

Beat == "beat"

\* A request whose response has not been hijacked yet.
Unopened ==
  [socket |-> "open", listening |-> FALSE, marked |-> FALSE, ending |-> FALSE,
   tail |-> <<>>, blocked |-> FALSE, buffered |-> 0, wire |-> <<>>,
   said |-> "none", beats |-> 0]

SseInit == sse = [r \in Requests |-> Unopened]

\* enqueue() by the handler, which awaits the promise it gets.
Enqueue(k, f) == [k EXCEPT !.tail = Append(@, f), !.said = "pending"]

\* The listeners and the timer; a `close` event that came before is not seen.
Listen(k) == [k EXCEPT !.listening = TRUE]

\* cleanup()
Deafen(k) == [k EXCEPT !.listening = FALSE]

\* markDisconnected, when its listeners are still there.
Mark(k) == [k EXCEPT !.marked = @ \/ (k.listening /\ ~k.ending)]

\* close() up to its await, unless the client is known to be gone.
Ending(k) == [Deafen(k) EXCEPT !.ending = TRUE]

Flushed(k) == k.tail = <<>>

\* The promise of the head of the chain settles.
Settle(k, how) ==
  [k EXCEPT !.tail = Tail(@), !.blocked = FALSE,
            !.said = IF Head(k.tail) = Beat THEN @ ELSE how]

-----------------------------------------------------------------------------

\* What the socket has been handed, but for the heartbeats.
OnTheWire(k) == IF Head(k.tail) = Beat THEN k.wire ELSE Append(k.wire, Head(k.tail))

\* The head of the chain is written; `false` means to wait for `drain`.
Write(r) ==
  LET k    == sse[r]
      sent == [k EXCEPT !.wire = OnTheWire(k), !.buffered = @ + 1] IN
  /\ ~Flushed(k) /\ ~k.blocked
  /\ ~k.marked /\ k.socket = "open"
  /\ sse' = [sse EXCEPT ![r] =
       IF sent.buffered = HighWater THEN [sent EXCEPT !.blocked = TRUE]
                                    ELSE Settle(sent, "written")]

\* The head of the chain is refused: disconnected, or the socket destroyed.  A
\* refused heartbeat marks the connection.
Refuse(r) ==
  LET k == sse[r] IN
  /\ ~Flushed(k) /\ ~k.blocked
  /\ k.marked \/ k.socket # "open"
  /\ sse' = [sse EXCEPT ![r] =
       LET next == Settle(k, "lost") IN
       IF Head(k.tail) = Beat /\ ~k.ending THEN [next EXCEPT !.marked = TRUE] ELSE next]

\* The client empties the buffer: `drain` wakes the write that waits for it.
Read(r) ==
  LET k     == sse[r]
      empty == [k EXCEPT !.buffered = 0] IN
  /\ k.socket = "open" /\ k.buffered > 0
  /\ sse' = [sse EXCEPT ![r] = IF k.blocked THEN Settle(empty, "written") ELSE empty]

\* The client goes away: `close`, `error` or `aborted`, which waitForDrain hears
\* whether or not the connection still listens.
Leave(r) ==
  LET k    == sse[r]
      gone == Mark([k EXCEPT !.socket = "gone", !.buffered = 0]) IN
  /\ k.socket = "open"
  /\ sse' = [sse EXCEPT ![r] = IF k.blocked THEN Settle(gone, "lost") ELSE gone]

\* The heartbeat interval.
Heartbeat(r) ==
  /\ sse[r].listening /\ sse[r].beats < MaxBeats
  /\ sse' = [sse EXCEPT ![r].tail = Append(@, Beat), ![r].beats = @ + 1]

Transport(r) == Write(r) \/ Refuse(r) \/ Read(r) \/ Leave(r) \/ Heartbeat(r)
=============================================================================

----------------------------- MODULE CodexTurns -----------------------------
(***************************************************************************)
(* The codex adapter (src/provider-runtime/codex/adapter.ts and json-rpc-  *)
(* client.ts): every run talks to one shared app server over one JSON-RPC  *)
(* client.  A client fails for good when its server ends or breaks the     *)
(* protocol; a run that throws, and a cancellation that codex does not     *)
(* answer within two seconds, throws the server away for all of its runs,  *)
(* and the next run starts another.                                        *)
(***************************************************************************)
EXTENDS Turn

CONSTANTS
  Servers,    \* bound: 1..n, the app servers that may be started
  NoServer,
  Abortable,  \* bound: the runs that may be aborted
  MaxInbox    \* bound: notifications a run has not looked at

ASSUME CodexAssumption == NoServer \notin Servers

VARIABLES
  state,      \* CodexProviderAdapter.state
  starting,   \* the server of CodexProviderAdapter.starting
  server,     \* per server: "unborn", "starting", "up", "ending" (it is being disposed
              \* of, and its client works until stdout ends) or "failed" (its client's
              \* failure, which stays; whether the process lives is not told apart)
  uses,       \* per run, the server of its client
  inbox,      \* per run, its subscription's queue
  turn,       \* per run, the native turn: "none", "running" or "over"
  told,       \* per run, history: turn/interrupt was sent for its turn
  cancel      \* per run, its cancel(): "none", "waiting" or "done"

codexVars == <<state, starting, server, uses, inbox, turn, told, cancel>>

CodexInit ==
  /\ state = NoServer
  /\ starting = NoServer
  /\ server = [s \in Servers |-> "unborn"]
  /\ uses = [r \in Runs |-> NoServer]
  /\ inbox = [r \in Runs |-> <<>>]
  /\ turn = [r \in Runs |-> "none"]
  /\ told = [r \in Runs |-> FALSE]
  /\ cancel = [r \in Runs |-> "none"]

\* What the notifications of a turn come to: "unsafe" is an item that is neither a
\* message nor reasoning, or an error; the last three are turn/completed.
Words == {"delta", "unsafe", "completed", "interrupted", "failed"}

Up(s)    == s # NoServer /\ server[s] = "up"
\* Its client still works.
Open(s)  == s # NoServer /\ server[s] \in {"up", "ending"}

\* The servers with s being disposed of; a client that has failed stays so.
Disposing(s) == [server EXCEPT ![s] = IF @ = "up" THEN "ending" ELSE @]

\* The subscription lives from before turn/start to the finally block.
Subscribed(r) == at[r] \in {"turn", "loop"} \/ (at[r] = "yield" /\ cont[r] = "loop")

Same(r) == UNCHANGED <<outer, flags, registered>>

-----------------------------------------------------------------------------
(* ensureAppServer: runs that arrive while a server starts share it.       *)

ThreadStage(s, r) ==
  /\ uses' = [uses EXCEPT ![r] = s]
  /\ GoTo(r, "thread")
  /\ UNCHANGED <<state, starting, server>>

StartServer(r) ==
  \E s \in Servers :
    /\ \A q \in Servers : q < s => server[q] # "unborn"
    /\ server[s] = "unborn"
    /\ server' = [server EXCEPT ![s] = "starting"]
    /\ starting' = s
    /\ GoTo(r, "server")
    /\ UNCHANGED <<state, uses>>

CodexBegin(r) ==
  /\ CanBegin(r)
  /\ CASE Up(state) -> ThreadStage(state, r)
       [] ~Up(state) /\ starting # NoServer ->
            GoTo(r, "server") /\ UNCHANGED <<state, starting, server, uses>>
       [] OTHER -> StartServer(r)
  /\ UNCHANGED <<outer, flags, registered, proc, inbox, turn, told, cancel>>

\* initialize is answered: everybody who waits goes on with the server, or fails.
ServerStarted(ok) ==
  /\ starting # NoServer
  /\ LET waiting == {r \in Runs : at[r] = "server"}
         \* Catch with no client: nothing to invalidate.
         word(r) == IF requested[r] THEN "cancelled" ELSE Failure(FALSE) IN
     /\ IF ok
        THEN /\ state' = starting
             /\ server' = [server EXCEPT ![starting] = "up"]
             /\ uses' = [r \in Runs |-> IF r \in waiting THEN starting ELSE uses[r]]
             /\ at' = [r \in Runs |-> IF r \in waiting THEN "thread" ELSE at[r]]
             /\ UNCHANGED <<cont, events>>
        ELSE /\ server' = [server EXCEPT ![starting] = "failed"]
             /\ at' = [r \in Runs |-> CASE r \notin waiting -> at[r]
                                        [] r \in waiting /\ returned[r] -> "finally"
                                        [] OTHER -> "yield"]
             /\ cont' = [r \in Runs |-> IF r \in waiting THEN "finally" ELSE cont[r]]
             /\ events' = [r \in Runs |-> IF r \in waiting THEN Append(events[r], word(r))
                                          ELSE events[r]]
             /\ UNCHANGED <<state, uses>>
     /\ starting' = NoServer
  /\ UNCHANGED <<outer, flags, registered, proc, inbox, turn, told, cancel>>

-----------------------------------------------------------------------------
(* A run that throws takes its server with it.                             *)

\* Mutant of Invalidates: whatever server is current is thrown away.
InvalidatesAny(s) == state # NoServer

\* invalidateClient: only the server the client belongs to is thrown away.
Invalidates(s) == s # NoServer /\ state = s

\* The catch block: cleanup, invalidateClient, and the terminal event at once or
\* when the server has been disposed of.
Throw(r) ==
  /\ registered' = [registered EXCEPT ![r] = FALSE]
  /\ IF Invalidates(uses[r])
       THEN /\ server' = Disposing(state)
            /\ state' = NoServer
            /\ GoTo(r, "invalidating")
       ELSE /\ Yield(r, IF requested[r] THEN "cancelled" ELSE Failure(advanced[r]),
                     "finally")
            /\ UNCHANGED <<server, state>>

\* The dispose() of a server whose run is invalidating it: its process is gone.
Invalidated(r) ==
  /\ at[r] = "invalidating"
  /\ server' = [server EXCEPT ![uses[r]] = "failed"]
  /\ Yield(r, IF requested[r] THEN "cancelled" ELSE Failure(advanced[r]), "finally")
  /\ Same(r) /\ UNCHANGED <<proc, state, starting, uses, inbox, turn, told, cancel>>

\* A request is answered with an error, or its client has failed.
RequestFails(r) ==
  /\ at[r] \in {"thread", "turn"}
  /\ Throw(r)
  /\ UNCHANGED <<outer, flags, proc, starting, uses, inbox, turn, told, cancel>>

-----------------------------------------------------------------------------
(* The run's own turn.                                                     *)

ThreadAnswered(r) ==
  /\ at[r] = "thread" /\ Open(uses[r])
  /\ advanced' = [advanced EXCEPT ![r] = TRUE]
  /\ Yield(r, "session", "subscribe")
  /\ UNCHANGED <<outer, requested, prompted, stopped, registered, proc, codexVars>>

\* subscribeNotifications and turn/start, which a failed client refuses.
StartTurn(r) ==
  /\ at[r] = "subscribe"
  /\ IF Open(uses[r])
       THEN /\ prompted' = [prompted EXCEPT ![r] = TRUE]
            /\ turn' = [turn EXCEPT ![r] = "running"]
            /\ GoTo(r, "turn")
            /\ UNCHANGED <<registered, server, state>>
       ELSE Throw(r) /\ UNCHANGED <<prompted, turn>>
  /\ UNCHANGED <<outer, requested, advanced, stopped, proc, starting, uses, inbox, told, cancel>>

\* The turn has an id: it can be interrupted, which an abort has waited for.
TurnAnswered(r) ==
  /\ at[r] = "turn" /\ Open(uses[r])
  /\ registered' = [registered EXCEPT ![r] = TRUE]
  /\ told' = [told EXCEPT ![r] = @ \/ aborted[r]]
  /\ cancel' = [cancel EXCEPT ![r] = IF aborted[r] THEN "waiting" ELSE @]
  /\ GoTo(r, "loop")
  /\ UNCHANGED <<outer, flags, proc, state, starting, server, uses, inbox, turn>>

\* What the app server says of a turn; the client hands it to each subscription,
\* and a run looks at unsafe items and errors of every turn, not of its own only.
Notify(r, what) ==
  /\ turn[r] = "running" /\ Open(uses[r])
  /\ LET heard(q) == /\ Subscribed(q) /\ uses[q] = uses[r]
                     /\ q = r \/ what = "unsafe" IN
     /\ \A q \in Runs : heard(q) => Len(inbox[q]) < MaxInbox
     /\ what = "delta" => Kept(r)
     /\ inbox' = [q \in Runs |-> IF heard(q) THEN Append(inbox[q], what) ELSE inbox[q]]
  /\ turn' = [turn EXCEPT ![r] = IF what \in {"completed", "interrupted", "failed"}
                                 THEN "over" ELSE @]
  /\ stopped' = [stopped EXCEPT ![r] = @ \/ what = "interrupted"]
  /\ UNCHANGED <<adapter, at, cont, events, outer, requested, advanced, prompted, registered, proc,
                 state, starting, server, uses, told, cancel>>

\* The next notification, or the failure of the client behind the last one.
Hear(r) ==
  /\ at[r] = "loop"
  /\ LET what == Head(inbox[r]) IN
     CASE inbox[r] = <<>> ->
            server[uses[r]] = "failed" /\ Throw(r) /\ UNCHANGED inbox
       [] inbox[r] # <<>> /\ what = "unsafe" ->
            Throw(r) /\ inbox' = [inbox EXCEPT ![r] = Tail(@)]
       [] inbox[r] # <<>> /\ what = "delta" ->
            /\ Yield(r, "delta", "loop")
            /\ inbox' = [inbox EXCEPT ![r] = Tail(@)]
            /\ UNCHANGED <<registered, server, state>>
       [] OTHER ->
            /\ registered' = [registered EXCEPT ![r] = FALSE]
            /\ Yield(r, CASE what = "completed" -> "completed"
                          [] what = "interrupted" -> "cancelled"
                          [] what = "failed" -> "failed_advanced", "finally")
            /\ inbox' = [inbox EXCEPT ![r] = <<>>]
            /\ UNCHANGED <<server, state>>
  /\ UNCHANGED <<outer, flags, proc, starting, uses, turn, told, cancel>>

\* The finally block: the subscription is returned, and cleanup() once more.
CodexFinally(r) ==
  /\ at[r] = "finally"
  /\ registered' = [registered EXCEPT ![r] = FALSE]
  /\ inbox' = [inbox EXCEPT ![r] = <<>>]
  /\ GoTo(r, "ended")
  /\ UNCHANGED <<outer, flags, proc, state, starting, server, uses, turn, told, cancel>>

-----------------------------------------------------------------------------
(* cancel(), the app server's end, dispose().                              *)

\* Until cleanup() has removed the listener.
Hearing(r) == /\ Listening(r)
              /\ at[r] \notin {"invalidating"}
              /\ ~(at[r] = "yield" /\ cont[r] = "finally")

CodexAbort(r) ==
  /\ r \in Abortable /\ ~aborted[r] /\ at[r] # "ended"
  /\ aborted' = [aborted EXCEPT ![r] = TRUE]
  /\ requested' = [requested EXCEPT ![r] = @ \/ Hearing(r)]
  /\ told' = [told EXCEPT ![r] = @ \/ registered[r]]
  /\ cancel' = [cancel EXCEPT ![r] = IF registered[r] THEN "waiting" ELSE @]
  /\ UNCHANGED <<adapter, at, cont, events, probe, unchecked, returned, advanced, prompted, stopped, registered,
                 proc, state, starting, server, uses, inbox, turn>>

\* The turn ended meanwhile; or codex refused the interrupt, or two seconds are over.
CancelReturns(r) ==
  /\ cancel[r] = "waiting"
  /\ IF registered[r] /\ Invalidates(uses[r])
       THEN /\ server' = Disposing(state)
            /\ state' = NoServer
       ELSE UNCHANGED <<server, state>>
  /\ cancel' = [cancel EXCEPT ![r] = "done"]
  /\ UNCHANGED <<turnVars, starting, uses, inbox, turn, told>>

\* The process ends, or says something that is not the protocol.
ServerBreaks(s) ==
  /\ Open(s)
  /\ server' = [server EXCEPT ![s] = "failed"]
  /\ UNCHANGED <<turnVars, state, starting, uses, inbox, turn, told, cancel>>

\* dispose() of the adapter, which does not wait for a server that is starting.
DisposeAdapter ==
  /\ state # NoServer
  /\ server' = Disposing(state)
  /\ state' = NoServer
  /\ UNCHANGED <<turnVars, starting, uses, inbox, turn, told, cancel>>

CodexStep(r) ==
  \/ CodexBegin(r) \/ RequestFails(r) \/ Invalidated(r) \/ ThreadAnswered(r) \/ StartTurn(r)
  \/ TurnAnswered(r) \/ Hear(r) \/ CodexFinally(r) \/ CodexAbort(r) \/ CancelReturns(r)
  \/ \E what \in Words : Notify(r, what)
  \/ (BeginAborted(r) \/ ConsumerStep(r)) /\ UNCHANGED codexVars

CodexNextStep ==
  \/ \E r \in Runs : CodexStep(r)
  \/ \E ok \in BOOLEAN : ServerStarted(ok)
  \/ \E s \in Servers : ServerBreaks(s)
  \/ DisposeAdapter
=============================================================================

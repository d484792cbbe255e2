---------------------------- MODULE Idempotency -----------------------------
(***************************************************************************)
(* Requests that carry an idempotency key: IdempotencyService              *)
(* (src/control-plane/idempotency.ts) over its table, which survives a     *)
(* crash, and the ReplayBuffer, which does not, as the chat and responses  *)
(* handlers (src/extensions/openai/) call them, the retention sweep of the *)
(* table (src/control-plane/retention.ts), and the clients whose keys they *)
(* are (Access).                                                           *)
(*                                                                         *)
(* Each call is one HTTP request; the run that it would own has its name.  *)
(* The row of its run is queued or running while it is "owner"; then, of a *)
(* stream, the handler is still writing what came before: "answering".     *)
(***************************************************************************)
EXTENDS ReplayBuffer, Access

CONSTANTS
  Calls,
  Keys,        \* endpoints with a key that a client chose
  Bodies,      \* hashes of the canonical requests
  Sizes,       \* bytes of a serialized answer
  KeyTTL,      \* metadataTtlMs, in ticks
  NoCall,
  MaxTime,     \* bound: ticks of the clock
  MaxCrashes   \* bound: crashes in a behaviour

ASSUME IdempotencyAssumption ==
  /\ Sizes \subseteq Nat /\ KeyTTL \in Nat \ {0} /\ NoCall \notin Calls
  /\ MaxTime \in Nat /\ MaxCrashes \in Nat

VARIABLES
  keys,     \* idempotency_keys: a function from the digests it holds
  buffer,   \* the ReplayBuffer
  asked,    \* the digest and the body of each call so far
  phase,    \* what each call is doing, or has been answered
  source,   \* the run whose answer a duplicate waits for or was given
  now, crashes

callVars == <<asked, phase, source>>
vars == <<keys, buffer, callVars, now, crashes, accessVars>>

KeyRow == [body : Bodies, run : Calls, status : {"active", "completed", "failed"},
           expires : 0 .. MaxTime + KeyTTL]

Digests == Clients \X Keys

Answers == {"settled", "unfinished", "replayed", "unavailable", "conflict", "lost"}

\* Owners that have not settled their key.
Unsettled(c) == phase[c] \in {"owner", "answering"}

Init ==
  /\ keys = << >>
  /\ buffer = EmptyBuffer
  /\ asked = << >>
  /\ phase = [c \in Calls |-> "new"]
  /\ source = [c \in Calls |-> NoCall]
  /\ now = 0 /\ crashes = 0
  /\ AccessInit

\* The unexpired row of a key; begin() deletes an expired one.
Held(k) == k \in DOMAIN keys /\ keys[k].expires > now

Waiting(x) == {c \in Calls : phase[c] = "waiting" /\ source[c] = x}

\* Mutant of Wake: the evicted subscriptions are not failed.
WakeNobody(ph) == ph

\* The step evicts the entries that calls wait on: their subscriptions fail, and
\* answer them with idempotency_replay_unavailable.
Wake(ph) ==
  [c \in Calls |-> IF ph[c] = "waiting" /\ source[c] \notin Entries(buffer')
                     THEN "unavailable" ELSE ph[c]]

-----------------------------------------------------------------------------

Asks(c, k, body) == asked' = With(asked, c, [key |-> k, body |-> body])

Answer(c, how) ==
  /\ phase' = [phase EXCEPT ![c] = how]
  /\ UNCHANGED <<keys, source>>

\* Mutant of Own: a key whose answer is lost starts again.
OwnUnavailable(c, k, body) ==
  /\ Held(k) => ~Available(buffer, keys[k].run, now)
  /\ keys' = With(keys, k, [body |-> body, run |-> c, status |-> "active", expires |-> now + KeyTTL])
  /\ buffer' = OpenEntry(buffer, c, now)
  /\ phase' = [phase EXCEPT ![c] = "owner"]
  /\ UNCHANGED source

\* begin() decides "owner".
Own(c, k, body) ==
  /\ ~Held(k)
  /\ keys' = With(keys, k, [body |-> body, run |-> c, status |-> "active", expires |-> now + KeyTTL])
  /\ buffer' = OpenEntry(buffer, c, now)
  /\ phase' = [phase EXCEPT ![c] = "owner"]
  /\ UNCHANGED source

Conflict(c, k, body) ==
  /\ Held(k) /\ keys[k].body # body
  /\ Answer(c, "conflict")
  /\ UNCHANGED buffer

Unavailable(c, k, body) ==
  /\ Held(k) /\ keys[k].body = body /\ ~Available(buffer, keys[k].run, now)
  /\ buffer' = EvictExpired(buffer, now)
  /\ Answer(c, "unavailable")

\* Mutant of Attach: the body is not compared.
AttachAnyBody(c, k, body) ==
  LET x == keys[k].run IN
  /\ Held(k) /\ Available(buffer, x, now)
  /\ buffer' = Looked(buffer, x, now)
  /\ source' = [source EXCEPT ![c] = x]
  /\ phase' = [phase EXCEPT ![c] = IF buffer'.completedAt[x] = Never THEN "waiting" ELSE "replayed"]
  /\ UNCHANGED keys

\* The handler attaches in the same step: to a run that is active, it waits.
Attach(c, k, body) ==
  LET x == keys[k].run IN
  /\ Held(k) /\ keys[k].body = body /\ Available(buffer, x, now)
  /\ buffer' = Looked(buffer, x, now)
  /\ source' = [source EXCEPT ![c] = x]
  /\ phase' = [phase EXCEPT ![c] = IF buffer'.completedAt[x] = Never THEN "waiting" ELSE "replayed"]
  /\ UNCHANGED keys

\* A request whose credential is refused leaves nothing behind.
Refuse(c, r) == phase[c] = "new" /\ ~Authenticates(r) /\ UNCHANGED vars

Begin(c, r, key, body) ==
  LET k == <<credentials[r].client, key>> IN
  /\ phase[c] = "new" /\ Authenticates(r)
  /\ Asks(c, k, body)
  /\ Own(c, k, body) \/ Conflict(c, k, body) \/ Unavailable(c, k, body) \/ Attach(c, k, body)
  /\ UNCHANGED <<now, crashes, accessVars>>

\* The run of a stream is over; its terminal event waits for the client to read
\* what came before it.
RunEnds(c) ==
  /\ phase[c] = "owner"
  /\ phase' = [phase EXCEPT ![c] = "answering"]
  /\ UNCHANGED <<keys, buffer, asked, source, now, crashes, accessVars>>

\* complete() or fail() of the owner, with its serialized answer of n bytes.  A
\* waiting duplicate gets it only if the entry outlives its own publication, and
\* the duplicates of the entries that make room for it get nothing.
Settle(c, status, n) ==
  LET k == asked[c].key IN
  /\ Unsettled(c)
  /\ k \in DOMAIN keys /\ keys[k].run = c /\ keys[k].status = "active"
  /\ keys' = [keys EXCEPT ![k].status = status]
  /\ buffer' = IF Available(buffer, c, now)
                 THEN CompleteEntry(Publish(buffer, c, n, now), c, now)
                 ELSE EvictExpired(buffer, now)
  /\ phase' = Wake([d \in Calls |->
       CASE d = c -> "settled"
         [] d \in Waiting(c) /\ c \in Entries(buffer') -> "replayed"
         [] OTHER -> phase[d]])
  /\ UNCHANGED <<asked, source, now, crashes, accessVars>>

\* complete() of an owner whose key went with its client throws, and so does the
\* fail() that follows: the entry is neither completed nor evicted.
SettleInVain(c) ==
  /\ Unsettled(c) /\ asked[c].key \notin DOMAIN keys
  /\ phase' = [phase EXCEPT ![c] = "lost"]
  /\ UNCHANGED <<keys, buffer, asked, source, now, crashes, accessVars>>

\* Mutant of CanDelete: the runs of the client are not counted.
CanDeleteBusy(d) == TRUE

\* A client with a queued or running run is in use.
CanDelete(d) == \A c \in Calls : phase[c] = "owner" => asked[c].key[1] # d

\* The client's keys go with it: ON DELETE CASCADE.
DeleteClient(d) ==
  /\ CanDelete(d)
  /\ Dismiss(d)
  /\ keys' = Restrict(keys, {k \in DOMAIN keys : k[1] # d})
  /\ UNCHANGED <<buffer, callVars, now, crashes>>

\* The sweep leaves active rows to the restart of their key.
SweepKeys ==
  LET due == {k \in DOMAIN keys : keys[k].expires <= now /\ keys[k].status # "active"} IN
  /\ due # {}
  /\ keys' = Restrict(keys, DOMAIN keys \ due)
  /\ UNCHANGED <<buffer, callVars, now, crashes, accessVars>>

\* A run ends long before its key expires, 30 days after it began.
Tick ==
  /\ now < MaxTime
  /\ \A c \in Calls : Unsettled(c) /\ asked[c].key \in DOMAIN keys
                         => now + 1 < keys[asked[c].key].expires
  /\ now' = now + 1
  /\ UNCHANGED <<keys, buffer, callVars, crashes, accessVars>>

\* The buffer is lost with the process; nothing in the table is reconciled.
Crash ==
  /\ crashes < MaxCrashes
  /\ crashes' = crashes + 1
  /\ buffer' = EmptyBuffer
  /\ phase' = [c \in Calls |-> IF Unsettled(c) \/ phase[c] = "waiting" THEN "unfinished" ELSE phase[c]]
  /\ UNCHANGED <<keys, asked, source, now, accessVars>>

\* A duplicate of an owner that settled in vain waits until the process ends, or
\* another answer takes the place of its entry.
Forgotten(c) == phase[c] = "waiting" /\ phase[source[c]] = "lost"

Idle == (\A c \in Calls : phase[c] \in Answers \/ Forgotten(c)) /\ UNCHANGED vars

Next ==
  \/ \E c \in Calls, r \in Credentials, key \in Keys, body \in Bodies : Begin(c, r, key, body)
  \/ \E c \in Calls, r \in Credentials : Refuse(c, r)
  \/ \E c \in Calls : RunEnds(c) \/ SettleInVain(c)
  \/ \E d \in Clients : DeleteClient(d)
  \/ Administer /\ UNCHANGED <<keys, buffer, callVars, now, crashes>>
  \/ \E c \in Calls, status \in {"completed", "failed"}, n \in Sizes : Settle(c, status, n)
  \/ SweepKeys \/ Tick \/ Crash \/ Idle

Spec == Init /\ [][Next]_vars

-----------------------------------------------------------------------------
(* Properties.                                                             *)

\* The variables keep the shapes their declarations give them.
TypeOK ==
  /\ DOMAIN keys \subseteq Digests /\ \A k \in DOMAIN keys : keys[k] \in KeyRow
  /\ Entries(buffer) \subseteq Calls /\ BufferOK(buffer, now)
  /\ DOMAIN asked = {c \in Calls : phase[c] # "new"}
  /\ phase \in [Calls -> Answers \cup {"new", "owner", "answering", "waiting"}]
  /\ source \in [Calls -> Calls \cup {NoCall}]

\* The buffer's counter is exactly the bytes it holds, and these are within the
\* limit after every operation, whatever was evicted, expired or lost.
BytesBounded ==
  /\ TypeOK
  /\ buffer.total = Bytes(buffer, Entries(buffer))
  /\ buffer.total <= MaxBytes

\* A duplicate waits only on an owner that has still to settle, and whose entry is
\* in the buffer: nobody waits for an answer that will not come, unless its client
\* was deleted while the owner's stream was being read.  The buffer's books, by
\* which it evicts, are right meanwhile.
WaitersHaveOwners ==
  /\ BytesBounded
  /\ \A c \in Calls : phase[c] = "waiting" =>
       /\ Unsettled(source[c]) \/ clients[asked[c].key[1]] = "deleted"
       /\ source[c] \in Entries(buffer) /\ buffer.completedAt[source[c]] = Never
       /\ asked[source[c]] = asked[c]

\* A duplicate that is given an answer is given that of a run which had settled
\* the same key for the same body.
AnswersMatch ==
  \A c \in Calls : phase[c] = "replayed" =>
    phase[source[c]] = "settled" /\ asked[source[c]] = asked[c]

\* No run of a deleted client is queued or running, and no key or credential of one
\* is left; a credential has one successor at most, and while that one has not
\* been rotated itself nobody can call with both.
ClientsLeaveNothing ==
  /\ AccessOK
  /\ \A c \in Calls : phase[c] = "owner" => HasRow(asked[c].key[1])
  /\ \A k \in DOMAIN keys : HasRow(k[1])
  /\ \A r \in Credentials : credentials[r] # Unissued => HasRow(credentials[r].client)
  /\ \A r, s \in Credentials :
       credentials[s].from # Nobody =>
         /\ credentials[r].from = credentials[s].from => r = s
         /\ credentials[credentials[s].from].revoked
         /\ credentials[credentials[s].from].client = credentials[s].client

\* "does not resurrect an owner buffer": an entry that was evicted, and its waiters
\* told so, does not come back when its owner settles.
NoResurrection ==
  [][\A c \in Calls :
       Unsettled(c) /\ c \notin Entries(buffer) => c \notin Entries(buffer')]_vars

\* While a key lives, its request runs once: the key changes hands only after it
\* has expired, even when its answer was evicted, or lost in a crash;
\* and that answer is not taken back into the buffer.
RunsOnce ==
  /\ NoResurrection
  /\ [][\A k \in DOMAIN keys :
          keys[k].expires > now =>
            \/ k \in DOMAIN keys' /\ keys'[k].run = keys[k].run /\ keys'[k].body = keys[k].body
            \/ clients'[k[1]] = "deleted"]_vars

=============================================================================

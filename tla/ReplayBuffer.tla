---------------------------- MODULE ReplayBuffer ----------------------------
(***************************************************************************)
(* The operations of ReplayBuffer (src/provider-runtime/replay-buffer.ts)  *)
(* on a buffer value: what the code keeps of each id, and the order of its *)
(* Map, as the set of ids that were touched less recently than each.       *)
(* Every operation is synchronous and a handler calls several in one step, *)
(* so they are functions of the buffer.  A Subscription fails when its id  *)
(* leaves the buffer before it is completed; who waits on what is kept by  *)
(* Idempotency.                                                            *)
(***************************************************************************)
EXTENDS Naturals, FiniteSets, FiniteSetsExt, Functions

CONSTANTS
  MaxBytes,       \* maxBytes
  CompletionTTL,  \* completionTtlMs
  Never           \* completedAt of an active entry

ASSUME ReplayBufferAssumption == MaxBytes \in Nat /\ CompletionTTL \in Nat \ {0} /\ Never \notin Nat

\* The function f with v at x, which may be new to it.
With(f, x, v) == [y \in DOMAIN f \cup {x} |-> IF y = x THEN v ELSE f[y]]

EmptyBuffer == [bytes |-> << >>, completedAt |-> << >>, older |-> << >>, total |-> 0]

Entries(b) == DOMAIN b.bytes

Bytes(b, X) == MapThenSumSet(LAMBDA x : b.bytes[x], X)

\* evict() of each id of X
EvictAll(b, X) ==
  LET rest == Entries(b) \ X IN
  [bytes |-> Restrict(b.bytes, rest),
   completedAt |-> Restrict(b.completedAt, rest),
   older |-> [y \in rest |-> b.older[y] \ X],
   total |-> b.total - Bytes(b, Entries(b) \cap X)]

Touch(b, x) ==
  IF x \in Entries(b)
    THEN [b EXCEPT !.older = [y \in Entries(b) |-> IF y = x THEN Entries(b) \ {x} ELSE @[y] \ {x}]]
    ELSE b

\* evictExpired, which every public operation but evict begins with.
EvictExpired(b, now) ==
  EvictAll(b, {x \in Entries(b) : b.completedAt[x] # Never /\ b.completedAt[x] + CompletionTTL <= now})

\* The oldest entries go, active ones too, until the rest is within the limit.
EnforceLimit(b) ==
  EvictAll(b, {x \in Entries(b) : Bytes(b, b.older[x]) + MaxBytes < b.total})

OpenEntry(b, x, now) ==
  LET e == EvictExpired(b, now) IN
  IF x \in Entries(e) THEN Touch(e, x)
  ELSE [bytes |-> With(e.bytes, x, 0), completedAt |-> With(e.completedAt, x, Never),
        older |-> With(e.older, x, Entries(e)), total |-> e.total]

\* available() also makes the entry the most recent one.
Looked(b, x, now) == Touch(EvictExpired(b, now), x)

Available(b, x, now) == x \in Entries(EvictExpired(b, now))

\* publish() of the one chunk, of n bytes, that settles a run.
Publish(b, x, n, now) ==
  LET e == OpenEntry(b, x, now) IN
  EnforceLimit(Touch([e EXCEPT !.bytes[x] = @ + n, !.total = @ + n], x))

\* complete(), which throws when the entry is gone.
CompleteEntry(b, x, now) ==
  LET e == EvictExpired(b, now) IN
  IF x \in Entries(e) /\ e.completedAt[x] = Never
    THEN Touch([e EXCEPT !.completedAt[x] = now], x) ELSE e

\* The shape of a buffer: Map order is a strict total order, and an entry is completed
\* in the past.
BufferOK(b, now) ==
  LET E == Entries(b) IN
  /\ b.bytes \in [E -> Nat]
  /\ b.completedAt \in [E -> 0 .. now \cup {Never}]
  /\ b.older \in [E -> SUBSET E]
  /\ \A x, y \in E : /\ x # y => (x \in b.older[y] <=> y \notin b.older[x])
                     /\ x \in b.older[y] => x # y /\ b.older[x] \subseteq b.older[y]
=============================================================================

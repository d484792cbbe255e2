-------------------------- MODULE SchedulerProofs --------------------------
(* Proofs about Scheduler, for every set of calls and targets and every     *)
(* sequence of limits: the counter and the queue are exact, the queue is    *)
(* drained as far as the limit allows and never further.                    *)
EXTENDS Scheduler, FiniteSetTheorems, SequenceTheorems, TLAPS

-----------------------------------------------------------------------------
(* The drain loop.                                                          *)

\* A set of naturals that is not empty has a least element.
LEMMA LeastExists ==
  ASSUME NEW S \in SUBSET Nat, S # {}
  PROVE  \E k \in S : \A j \in S : k <= j
<1>1. PICK s \in S : TRUE
  OBVIOUS
<1>2. CASE \A j \in S : s <= j
  BY <1>2
<1> DEFINE Below == {i \in 0..s : \A j \in 0..i : j \notin S}
           n == Cardinality(Below)
<1>3. IsFiniteSet(Below) /\ n \in Nat
  <2>1. IsFiniteSet(0..s)
    BY FS_Interval
  <2> QED
    BY <2>1, FS_Subset, FS_CardinalityType
<1>4. ASSUME NEW i \in Below, NEW j \in 0..i
      PROVE  j \in Below
  BY <1>4
<1>5. \A i \in Below : i + 1 <= n
  <2> TAKE i \in Below
  <2>1. 0..i \in SUBSET Below
    BY <1>4
  <2>2. Cardinality(0..i) = i + 1
    BY FS_Interval
  <2> QED
    BY <1>3, <2>1, <2>2, FS_Subset
<1>6. ASSUME NEW i \in 0..n - 1
      PROVE  i \in Below
  <2> SUFFICES ASSUME i \notin Below
               PROVE  FALSE
    OBVIOUS
  <2>1. Below \in SUBSET (0..i - 1)
    <3> SUFFICES ASSUME NEW j \in Below, j >= i
                 PROVE  FALSE
      OBVIOUS
    <3> i \in 0..j
      OBVIOUS
    <3> QED
      BY <1>4
  <2>2. IsFiniteSet(0..i - 1) /\ Cardinality(0..i - 1) = i
    <3>1. i \in Nat /\ i - 1 \in Int
      BY <1>3
    <3> HIDE DEF n
    <3>2. 0 \in Int /\ i - 1 \in Int
      BY <3>1
    <3>3. Cardinality(0..i - 1) = IF 0 > i - 1 THEN 0 ELSE i - 1 - 0 + 1
      BY <3>2, FS_Interval
    <3>4. IsFiniteSet(0..i - 1)
      BY <3>2, FS_Interval
    <3> QED
      BY <3>1, <3>3, <3>4
  <2>3. n <= i
    BY <2>1, <2>2, FS_Subset
  <2> QED
    BY <2>3, <1>3
<1> HIDE DEF n
<1>7. n \notin Below
  BY <1>5, <1>3
<1>8. n <= s
  <2>1. s \notin Below
    BY <1>1
  <2> QED
    BY <2>1, <1>6, <1>3
<1>9. \A j \in S : n <= j
  BY <1>6, <1>3
<1>10. n \in S
  <2>1. PICK j \in 0..n : j \in S
    BY <1>7, <1>8, <1>3
  <2> QED
    BY <2>1, <1>9, <1>3
<1> QED
  BY <1>9, <1>10

\* The shortest prefix exists: the whole queue is one after which the loop ends.
LEMMA DrainLenLeast ==
  ASSUME NEW q \in Seq(Calls), NEW a \in Int, NEW m \in Int
  PROVE  /\ DrainLen(q, a, m) \in DrainStops(q, a, m)
         /\ \A j \in DrainStops(q, a, m) : DrainLen(q, a, m) <= j
<1>1. Len(q) \in Nat
  BY LenProperties
<1>2. DrainStops(q, a, m) \in SUBSET Nat /\ Len(q) \in DrainStops(q, a, m)
  BY <1>1 DEF DrainStops
<1>3. \E k \in DrainStops(q, a, m) : \A j \in DrainStops(q, a, m) : k <= j
  BY <1>2, LeastExists
<1> QED
  BY <1>3 DEF DrainLen

\* A queue without duplicates: what run() appends and what splices leave.
Injective(q) == \A i, j \in 1..Len(q) : q[i] = q[j] => i = j

\* What one drain does to the entries of a queue: it splits them into those
\* left, started and rejected; it admits up to the limit and no further.
LEMMA DrainedFacts ==
  ASSUME NEW q \in Seq(Calls), Injective(q), NEW a \in Int, NEW m \in Int,
         NEW d, d = Drained(q, a, m)
  PROVE  /\ d.queue \in Seq(Calls)
         /\ Injective(d.queue)
         /\ Entries(d.queue) = Entries(q) \ (d.started \cup d.rejected)
         /\ d.started \cup d.rejected \subseteq Entries(q)
         /\ d.started \cap d.rejected = {}
         /\ d.started \cap aborted = {}
         /\ IsFiniteSet(d.started) /\ Cardinality(d.started) \in Nat
         /\ d.active = a + Cardinality(d.started)
         /\ d.active > a => d.active <= m
         /\ d.queue # <<>> => d.active >= m
<1> DEFINE k == DrainLen(q, a, m)
           n == Len(q)
<1>1. n \in Nat /\ q \in [1..n -> Calls]
  BY LenProperties
<1>2. k \in DrainStops(q, a, m) /\ \A j \in DrainStops(q, a, m) : k <= j
  BY DrainLenLeast
<1>3. k \in 0..n /\ (k = n \/ a + Cardinality(Startable(q, k)) >= m)
  BY <1>2 DEF DrainStops
<1>kn. k \in Nat /\ n \in Nat /\ k <= n
  BY <1>1, <1>3
<1>4. /\ d.active = a + Cardinality(Startable(q, k))
      /\ d.queue = SubSeq(q, k + 1, n)
      /\ d.started = {q[i] : i \in Startable(q, k)}
      /\ d.rejected = {q[i] : i \in (1..k) \ Startable(q, k)}
  BY DEF Drained
<1> HIDE DEF k, n
<1>5. /\ d.queue \in Seq(Calls)
      /\ Len(d.queue) = n - k
      /\ \A i \in 1..n - k : d.queue[i] = q[k + i]
  <2>1. \A i \in k + 1..n : q[i] \in Calls
    BY <1>1, <1>3
  <2>2. k + 1 \in Int /\ n \in Int
    BY <1>1, <1>3
  <2>3. /\ SubSeq(q, k + 1, n) \in Seq(Calls)
        /\ Len(SubSeq(q, k + 1, n)) = IF k + 1 <= n THEN n - (k + 1) + 1 ELSE 0
        /\ \A i \in 1..n - (k + 1) + 1 : SubSeq(q, k + 1, n)[i] = q[(k + 1) + i - 1]
    BY <2>1, <2>2, SubSeqProperties
  <2> QED
    BY <2>3, <1>1, <1>3, <1>4
<1>inj. \A i, j \in 1..n : q[i] = q[j] => i = j
  BY DEF n, Injective
<1>6. Injective(d.queue)
  <2> SUFFICES ASSUME NEW i \in 1..n - k, NEW j \in 1..n - k, d.queue[i] = d.queue[j]
               PROVE  i = j
    BY <1>5 DEF Injective
  <2>1. k + i \in 1..n /\ k + j \in 1..n
    BY <1>kn
  <2>2. q[k + i] = q[k + j]
    BY <1>5
  <2> QED
    BY <2>1, <2>2, <1>inj, <1>kn
<1>7. \A j \in 0..n : /\ IsFiniteSet(Startable(q, j))
                      /\ Cardinality(Startable(q, j)) \in Nat
  <2> TAKE j \in 0..n
  <2>1. IsFiniteSet(1..j)
    BY <1>1, FS_Interval
  <2>2. Startable(q, j) \in SUBSET (1..j)
    BY DEF Startable
  <2> QED
    BY <2>1, <2>2, FS_Subset, FS_CardinalityType
<1>8. IsFiniteSet(d.started) /\ Cardinality(d.started) = Cardinality(Startable(q, k))
  <2> DEFINE f == [i \in Startable(q, k) |-> q[i]]
  <2>1. Startable(q, k) \in SUBSET (1..n)
    BY <1>1, <1>3 DEF Startable
  <2>2. f \in Bijection(Startable(q, k), d.started)
    <3>1. f \in Surjection(Startable(q, k), d.started)
      BY <1>4 DEF Surjection
    <3>2. f \in Injection(Startable(q, k), d.started)
      BY <1>4, <2>1, <1>inj DEF Injection, IsInjective
    <3> QED
      BY <3>1, <3>2 DEF Bijection
  <2> QED
    BY <2>2, <1>3, <1>7, FS_Bijection DEF ExistsBijection
<1>9. Entries(d.queue) = {q[i] : i \in k + 1..n}
  <2>1. ASSUME NEW x \in Entries(d.queue) PROVE x \in {q[i] : i \in k + 1..n}
    <3>1. PICK i \in 1..n - k : x = d.queue[i]
      BY <2>1, <1>5 DEF Entries
    <3>2. x = q[k + i] /\ k + i \in k + 1..n
      BY <3>1, <1>kn, <1>5
    <3> QED
      BY <3>2
  <2>2. ASSUME NEW i \in k + 1..n PROVE q[i] \in Entries(d.queue)
    <3>1. i - k \in 1..n - k /\ q[i] = d.queue[i - k]
      <4>1. i - k \in 1..n - k
        BY <1>kn
      <4>2. d.queue[i - k] = q[k + (i - k)]
        BY <4>1, <1>5
      <4>3. k + (i - k) = i
        BY <1>1, <1>3
      <4> QED
        BY <4>1, <4>2, <4>3
    <3> QED
      BY <3>1, <1>5 DEF Entries
  <2> QED
    BY <2>1, <2>2
<1>10. d.started \cup d.rejected = {q[i] : i \in 1..k}
  BY <1>4 DEF Startable
<1>11. /\ Entries(d.queue) = Entries(q) \ (d.started \cup d.rejected)
       /\ d.started \cup d.rejected \subseteq Entries(q)
  <2>1. Entries(q) = {q[i] : i \in 1..n}
    BY DEF Entries, n
  <2>2. 1..n = (1..k) \cup (k + 1..n)
    BY <1>kn
  <2>3. \A i \in 1..k, j \in k + 1..n : q[i] # q[j]
    <3> TAKE i \in 1..k, j \in k + 1..n
    <3>1. i \in 1..n /\ j \in 1..n /\ i # j
      BY <1>kn
    <3> QED
      BY <3>1, <1>inj
  <2> HIDE DEF k
  <2> QED
    BY <2>1, <2>2, <2>3, <1>9, <1>10
<1>12. d.started \cap d.rejected = {} /\ d.started \cap aborted = {}
  <2>1. \A i, j \in 1..k : q[i] = q[j] => i = j
    BY <1>kn DEF Injective, n
  <2> QED
    BY <2>1, <1>4 DEF Startable
<1>13. ASSUME d.active > a PROVE d.active <= m
  <2>1. k > 0
    <3> SUFFICES ASSUME k = 0 PROVE FALSE
      BY <1>kn
    <3>1. Startable(q, k) = {}
      BY DEF Startable
    <3> QED
      BY <3>1, <1>4, <1>13, FS_EmptySet
  <2>2. a + Cardinality(Startable(q, k - 1)) < m
    <3>1. k - 1 \in 0..n /\ ~(k <= k - 1)
      BY <2>1, <1>kn
    <3>2. k - 1 \notin DrainStops(q, a, m)
      BY <3>1, <1>2
    <3>3. Cardinality(Startable(q, k - 1)) \in Nat
      BY <3>1, <1>7
    <3> QED
      BY <3>1, <3>2, <3>3 DEF DrainStops, n
  <2>3. Cardinality(Startable(q, k)) <= Cardinality(Startable(q, k - 1)) + 1
    <3>1. Startable(q, k) \in SUBSET (Startable(q, k - 1) \cup {k})
      BY <2>1, <1>kn DEF Startable
    <3>2. k - 1 \in 0..n
      BY <2>1, <1>kn
    <3>3. IsFiniteSet(Startable(q, k - 1)) /\ Cardinality(Startable(q, k - 1)) \in Nat
      BY <3>2, <1>7
    <3>4. /\ IsFiniteSet(Startable(q, k - 1) \cup {k})
          /\ Cardinality(Startable(q, k - 1) \cup {k}) \in
               {Cardinality(Startable(q, k - 1)), Cardinality(Startable(q, k - 1)) + 1}
      BY <3>3, FS_AddElement
    <3>5. Cardinality(Startable(q, k)) <= Cardinality(Startable(q, k - 1) \cup {k})
      BY <3>1, <3>4, FS_Subset
    <3>6. Cardinality(Startable(q, k)) \in Nat
      BY <1>3, <1>7
    <3> QED
      BY <3>3, <3>4, <3>5, <3>6
  <2>4. k - 1 \in 0..n
    BY <2>1, <1>kn
  <2>5. Cardinality(Startable(q, k)) \in Nat /\ Cardinality(Startable(q, k - 1)) \in Nat
    BY <2>4, <1>3, <1>7
  <2> QED
    BY <2>2, <2>3, <2>5, <1>4
<1>14. ASSUME d.queue # <<>> PROVE d.active >= m
  <2>1. k # n
    <3> SUFFICES ASSUME k = n PROVE FALSE
      OBVIOUS
    <3>1. n < k + 1 /\ k + 1 \in Int /\ n \in Int
      BY <1>1, <1>3
    <3> QED
      BY <3>1, <1>4, <1>14, SubSeqEmpty
  <2> QED
    BY <2>1, <1>3, <1>4
<1>15. Cardinality(d.started) \in Nat
  BY <1>3, <1>7, <1>8
<1> QED
  BY <1>4, <1>5, <1>6, <1>8, <1>11, <1>12, <1>13, <1>14, <1>15

-----------------------------------------------------------------------------
(* Splicing.                                                                *)

\* The rank of an index among the kept ones numbers them without a gap.
LEMMA RankBijection ==
  ASSUME NEW n \in Nat, NEW K \in SUBSET (1..n)
  PROVE  /\ IsFiniteSet(K) /\ Cardinality(K) \in Nat
         /\ \A m \in 1..Cardinality(K) :
              \E i \in K : Cardinality({j \in K : j <= i}) = m
         /\ \A i \in K : Cardinality({j \in K : j <= i}) \in 1..Cardinality(K)
         /\ \A i, h \in K :
              Cardinality({j \in K : j <= i}) = Cardinality({j \in K : j <= h}) => i = h
<1> DEFINE UpTo(i) == {j \in K : j <= i}
           r == [i \in K |-> Cardinality(UpTo(i))]
           c == Cardinality(K)
<1>1. IsFiniteSet(K) /\ c \in Nat
  <2>1. IsFiniteSet(1..n)
    BY FS_Interval
  <2> QED
    BY <2>1, FS_Subset, FS_CardinalityType
<1>2. \A i \in K : IsFiniteSet(UpTo(i)) /\ Cardinality(UpTo(i)) \in 1..c
  <2> TAKE i \in K
  <2>1. UpTo(i) \in SUBSET K /\ UpTo(i) # {}
    OBVIOUS
  <2>2. IsFiniteSet(UpTo(i)) /\ Cardinality(UpTo(i)) <= c
    BY <1>1, <2>1, FS_Subset
  <2>3. Cardinality(UpTo(i)) \in Nat
    BY <2>2, FS_CardinalityType
  <2>4. Cardinality(UpTo(i)) # 0
    BY <2>1, <2>2, FS_EmptySet
  <2> HIDE DEF UpTo, c
  <2> QED
    BY <1>1, <2>2, <2>3, <2>4
<1>3. \A i, h \in K : i < h => Cardinality(UpTo(i)) # Cardinality(UpTo(h))
  <2> SUFFICES ASSUME NEW i \in K, NEW h \in K, i < h,
                      Cardinality(UpTo(i)) = Cardinality(UpTo(h))
               PROVE  FALSE
    OBVIOUS
  <2>1. UpTo(i) \in SUBSET UpTo(h) /\ h \in UpTo(h) /\ h \notin UpTo(i)
    <3>1. \A j \in K : j \in Int
      OBVIOUS
    <3>2. i \in Int /\ h \in Int /\ h <= h /\ ~(h <= i) /\ \A j \in K : j <= i => j <= h
      BY <3>1
    <3> QED
      BY <3>2
  <2> QED
    BY <1>2, <2>1, FS_Subset
<1>inj. \A i, h \in K : Cardinality(UpTo(i)) = Cardinality(UpTo(h)) => i = h
  <2> TAKE i \in K, h \in K
  <2>1. i \in Nat /\ h \in Nat
    OBVIOUS
  <2> QED
    BY <2>1, <1>3
<1>4. r \in Injection(K, 1..c)
  <2>1. r \in [K -> 1..c]
    BY <1>2
  <2>2. \A i, h \in K : r[i] = r[h] => i = h
    BY <1>inj
  <2> QED
    BY <2>1, <2>2 DEF Injection, IsInjective
<1>5. IsFiniteSet(1..c) /\ Cardinality(1..c) = c
  BY <1>1, FS_Interval
<1>6. r \in Surjection(K, 1..c)
  BY <1>4, <1>5, FS_Injection
<1>7. \A m \in 1..c : \E i \in K : r[i] = m
  BY <1>6 DEF Surjection
<1> QED
  BY <1>1, <1>2, <1>7, <1>inj

\* What is left of a queue when the entries of gone are spliced out of it.
LEMMA DropFacts ==
  ASSUME NEW q \in Seq(Calls), Injective(q), NEW gone
  PROVE  /\ Drop(q, gone) \in Seq(Calls)
         /\ Injective(Drop(q, gone))
         /\ Entries(Drop(q, gone)) = Entries(q) \ gone
         /\ q = <<>> => Drop(q, gone) = <<>>
<1> DEFINE n == Len(q)
           K == {i \in 1..n : q[i] \notin gone}
           c == Cardinality(K)
           Rank(i) == Cardinality({j \in K : j <= i})
           Nth(m) == CHOOSE i \in K : Rank(i) = m
           r == Drop(q, gone)
<1>1. n \in Nat /\ q \in [1..n -> Calls]
  BY LenProperties
<1>2. r = [m \in 1..c |-> q[Nth(m)]]
  BY DEF Drop
<1>3. /\ c \in Nat
      /\ \A m \in 1..c : \E i \in K : Rank(i) = m
      /\ \A i \in K : Rank(i) \in 1..c
      /\ \A i, h \in K : Rank(i) = Rank(h) => i = h
  <2>1. K \in SUBSET (1..n)
    OBVIOUS
  <2> HIDE DEF K
  <2> QED
    BY <1>1, <2>1, RankBijection
<1> HIDE DEF n, c, Rank, r
<1>4. \A m \in 1..c : Nth(m) \in K /\ Rank(Nth(m)) = m
  BY <1>3
<1>inj. \A i, j \in 1..n : q[i] = q[j] => i = j
  BY DEF n, Injective
<1>type. \A i \in 1..n : q[i] \in Calls
  BY <1>1
<1>5. r \in [1..c -> Calls]
  BY <1>2, <1>4, <1>type
<1>6. r \in Seq(Calls) /\ Len(r) = c
  BY <1>3, <1>5, SeqDef, LenProperties
<1>7. Injective(r)
  <2> SUFFICES ASSUME NEW i \in 1..c, NEW j \in 1..c, r[i] = r[j]
               PROVE  i = j
    BY <1>6 DEF Injective
  <2>1. q[Nth(i)] = q[Nth(j)]
    BY <1>2
  <2>2. Nth(i) \in 1..n /\ Nth(j) \in 1..n
    BY <1>4
  <2>3. Nth(i) = Nth(j)
    BY <2>1, <2>2, <1>inj
  <2> QED
    BY <2>3, <1>4
<1>8. \A i \in K : Rank(i) \in 1..c /\ Nth(Rank(i)) = i
  BY <1>3, <1>4
<1>9. Entries(r) = Entries(q) \ gone
  <2>1. Entries(q) \ gone = {q[i] : i \in K}
    BY DEF Entries, n
  <2>2. Entries(r) = {r[m] : m \in 1..c}
    BY <1>6 DEF Entries
  <2>3. \A m \in 1..c : r[m] = q[Nth(m)] /\ Nth(m) \in K
    BY <1>2, <1>4
  <2>4. \A i \in K : Rank(i) \in 1..c /\ r[Rank(i)] = q[i]
    BY <1>2, <1>8
  <2> HIDE DEF K, Nth
  <2> QED
    BY <2>1, <2>2, <2>3, <2>4
<1>10. q = <<>> => r = <<>>
  <2> SUFFICES ASSUME q = <<>> PROVE r = <<>>
    OBVIOUS
  <2>1. Entries(r) = {}
    BY <1>9 DEF Entries
  <2>2. c = 0
    <3> SUFFICES ASSUME c # 0 PROVE FALSE
      OBVIOUS
    <3>1. 1 \in 1..c
      BY <1>3
    <3> QED
      BY <3>1, <2>1, <1>6 DEF Entries
  <2> QED
    BY <2>2, <1>6, EmptySeq
<1> QED
  BY <1>6, <1>7, <1>9, <1>10 DEF r

-----------------------------------------------------------------------------
(* The inductive invariant.  The counter stays a natural number only because *)
(* it counts the running calls, and it counts them only because a drain      *)
(* starts calls that wait, each once: the parts need each other.             *)

QueueInv == \A t \in Targets : Entries(queue[t]) = Waiting(t) /\ Injective(queue[t])

IInv == TypeOK /\ QueueInv /\ ActiveIsExact /\ WorkConserving

\* A new scheduler has no states.
LEMMA InitIInv == Init => IInv
<1> SUFFICES ASSUME Init PROVE IInv
  OBVIOUS
<1>1. TypeOK
  BY EmptySeq DEF Init, TypeOK, Places, Reasons
<1>2. QueueInv
  BY EmptySeq DEF Init, QueueInv, Entries, Waiting, Injective
<1>3. ActiveIsExact
  <2>1. \A t \in Targets : Running(t) = {}
    BY DEF Init, Running
  <2> QED
    BY <2>1, FS_EmptySet DEF Init, ActiveIsExact
<1>4. WorkConserving
  BY DEF Init, WorkConserving
<1> QED
  BY <1>1, <1>2, <1>3, <1>4 DEF IInv

\* The moves of a drain d of target t and of the outcome of call c.
Moved(t, c, place, d) ==
  /\ pc' \in [Calls -> Places] /\ target' \in [Calls -> Targets]
  /\ Waiting(t)' = (Waiting(t) \ (d.started \cup d.rejected))
                     \cup (IF place = "queued" THEN {c} ELSE {})
  /\ Running(t)' = ((Running(t) \ {c}) \cup d.started)
                     \cup (IF place = "running" THEN {c} ELSE {})
  /\ \A u \in Targets \ {t} : Waiting(u)' = Waiting(u) /\ Running(u)' = Running(u)

\* Call c, new or running on t, gets the outcome place, and the calls that d
\* took from the queue of t get theirs.
Settling(t, c, place, d) ==
  /\ pc[c] \in {"new", "running"}
  /\ pc[c] = "running" => target[c] = t
  /\ d.started \cup d.rejected \subseteq Waiting(t)
  /\ d.started \cap d.rejected = {}
  /\ Settle(c, place, d)
  /\ target' = [target EXCEPT ![c] = t]

\* How a drain and the outcome of call c move the calls of its target, and
\* that they leave the other targets alone.
LEMMA SettleMoves ==
  ASSUME TypeOK, NEW c \in Calls, NEW t \in Targets, NEW place \in Places, NEW d,
         Settling(t, c, place, d)
  PROVE  Moved(t, c, place, d)
<1>1. /\ pc \in [Calls -> Places] /\ target \in [Calls -> Targets]
      /\ pc' = [x \in Calls |-> IF x = c THEN place
                                ELSE IF x \in d.started THEN "running"
                                ELSE IF x \in d.rejected THEN "abort_rejected"
                                ELSE pc[x]]
  BY DEF TypeOK, Settle, Settling
<1>2. \A x \in d.started \cup d.rejected :
         x \in Calls /\ x # c /\ pc[x] = "queued" /\ target[x] = t
  BY DEF Settling, Waiting
<1>3. \A x \in Calls : target'[x] = IF x = c THEN t ELSE target[x]
  BY <1>1 DEF Settling
<1>c. /\ pc[c] \in {"new", "running"} /\ (pc[c] = "running" => target[c] = t)
      /\ d.started \cap d.rejected = {}
      /\ target' = [target EXCEPT ![c] = t]
  BY DEF Settling
<1>4. pc' \in [Calls -> Places] /\ target' \in [Calls -> Targets]
  BY <1>1, <1>c DEF Places, Settled
<1>5. Waiting(t)' = (Waiting(t) \ (d.started \cup d.rejected))
                      \cup (IF place = "queued" THEN {c} ELSE {})
  BY <1>1, <1>2, <1>3, <1>c DEF Waiting
<1>6. Running(t)' = ((Running(t) \ {c}) \cup d.started)
                      \cup (IF place = "running" THEN {c} ELSE {})
  BY <1>1, <1>2, <1>3, <1>c DEF Running
<1>7. ASSUME NEW u \in Targets \ {t}
      PROVE  Waiting(u)' = Waiting(u) /\ Running(u)' = Running(u)
  BY <1>1, <1>2, <1>3, <1>c DEF Waiting, Running
<1> QED
  BY <1>4, <1>5, <1>6, <1>7 DEF Moved

\* Running and waiting calls can be counted.
LEMMA RunningFinite ==
  ASSUME NEW t \in Targets
  PROVE  /\ IsFiniteSet(Running(t)) /\ Cardinality(Running(t)) \in Nat
         /\ IsFiniteSet(Waiting(t)) /\ Cardinality(Waiting(t)) \in Nat
<1>1. Running(t) \in SUBSET Calls /\ Waiting(t) \in SUBSET Calls
  BY DEF Running, Waiting
<1> QED
  BY <1>1, FS_Subset, FS_CardinalityType, SchedulerAssumption

\* Timers belong to calls.
LEMMA ArmTimersType ==
  ASSUME TypeOK, NEW started \in SUBSET Calls, NEW cleared, ArmTimers(started, cleared)
  PROVE  timed' \in SUBSET Calls
BY DEF TypeOK, ArmTimers

\* What d, a drain of target t from a slots taken under limit m, leaves, starts
\* and rejects.
DrainOK(t, a, m, d) ==
  /\ d.queue \in Seq(Calls)
  /\ Injective(d.queue)
  /\ Entries(d.queue) = Waiting(t) \ (d.started \cup d.rejected)
  /\ d.started \cup d.rejected \subseteq Waiting(t)
  /\ d.started \cap d.rejected = {}
  /\ d.started \subseteq Calls
  /\ d.started \cap Running(t) = {}
  /\ IsFiniteSet(d.started) /\ Cardinality(d.started) \in Nat
  /\ d.active = a + Cardinality(d.started)
  /\ d.active > a => d.active <= m
  /\ d.queue # <<>> => d.active >= m

\* A drain of a target's own queue.
LEMMA DrainOfTarget ==
  ASSUME IInv, NEW t \in Targets, NEW a \in Int, NEW m \in Int
  PROVE  DrainOK(t, a, m, Drained(queue[t], a, m))
<1>1. queue[t] \in Seq(Calls) /\ Injective(queue[t]) /\ Entries(queue[t]) = Waiting(t)
  BY DEF IInv, TypeOK, QueueInv
<1>2. Waiting(t) \subseteq Calls /\ Waiting(t) \cap Running(t) = {}
  BY DEF Waiting, Running
<1> DEFINE d == Drained(queue[t], a, m)
<1>3. /\ d.queue \in Seq(Calls)
      /\ Injective(d.queue)
      /\ Entries(d.queue) = Entries(queue[t]) \ (d.started \cup d.rejected)
      /\ d.started \cup d.rejected \subseteq Entries(queue[t])
      /\ d.started \cap d.rejected = {}
      /\ IsFiniteSet(d.started) /\ Cardinality(d.started) \in Nat
      /\ d.active = a + Cardinality(d.started)
      /\ d.active > a => d.active <= m
      /\ d.queue # <<>> => d.active >= m
  BY <1>1, DrainedFacts
<1> HIDE DEF d
<1>4. DrainOK(t, a, m, d)
  BY <1>1, <1>2, <1>3 DEF DrainOK
<1> QED
  BY <1>4 DEF d

-----------------------------------------------------------------------------
(* run() and finish(): the steps that drain.                                *)

\* run() with any of its outcomes.  A call that starts needs a free slot, a
\* call that waits needs there to be none.
LEMMA AdmitStep ==
  ASSUME IInv, NEW c \in Calls, NEW t \in Targets, NEW m \in Limits,
         NEW place \in Places \ {"new"}, NEW d, d = Drained(queue[t], active[t], m),
         pc[c] = "new", Admit(c, t, d, place),
         place = "queued" => d.active >= m,
         limit' = [limit EXCEPT ![t] = m],
         UNCHANGED <<aborted, signal, dispatching>>
  PROVE  IInv'
<1>1. TypeOK /\ active[t] \in Nat /\ m \in Nat
  BY SchedulerAssumption DEF IInv, TypeOK
<1>2. DrainOK(t, active[t], m, d)
  BY <1>1, DrainOfTarget
<1>3. Moved(t, c, place, d)
  <2>1. Settling(t, c, place, d)
    BY <1>2 DEF DrainOK, Settling, Admit
  <2> QED
    BY <1>1, <2>1, SettleMoves
<1> USE DEF DrainOK, Moved
<1>4. c \notin Waiting(t) /\ c \notin Running(t)
  BY DEF Waiting, Running
<1>5. /\ queue' = [queue EXCEPT ![t] = IF place = "queued" THEN Append(d.queue, c) ELSE d.queue]
      /\ active' = [active EXCEPT ![t] = d.active + IF place = "running" THEN 1 ELSE 0]
      /\ queue \in [Targets -> Seq(Calls)] /\ active \in [Targets -> Nat]
      /\ limit \in [Targets -> Nat]
  BY <1>1 DEF Admit, TypeOK
<1>6. /\ queue'[t] \in Seq(Calls) /\ Injective(queue'[t])
      /\ Entries(queue'[t]) = Waiting(t)'
      /\ queue'[t] # <<>> => d.active >= m
  <2>1. CASE place = "queued"
    <3>1. queue'[t] = Append(d.queue, c)
      BY <1>5, <2>1
    <3>2. /\ Append(d.queue, c) \in Seq(Calls)
          /\ Len(Append(d.queue, c)) = Len(d.queue) + 1
          /\ \A i \in 1..Len(d.queue) : Append(d.queue, c)[i] = d.queue[i]
          /\ Append(d.queue, c)[Len(d.queue) + 1] = c
          /\ Len(d.queue) \in Nat
      BY <1>2, AppendProperties, LenProperties
    <3>3. \A i \in 1..Len(d.queue) : d.queue[i] # c
      BY <1>2, <1>4 DEF Entries
    <3>4. Injective(queue'[t])
      BY <1>2, <3>1, <3>2, <3>3 DEF Injective
    <3>5. Entries(queue'[t]) = Entries(d.queue) \cup {c}
      <4>1. 1..Len(d.queue) + 1 = (1..Len(d.queue)) \cup {Len(d.queue) + 1}
        BY <3>2
      <4> QED
        BY <3>1, <3>2, <4>1 DEF Entries
    <3> QED
      BY <1>2, <1>3, <2>1, <3>1, <3>2, <3>4, <3>5
  <2>2. CASE place # "queued"
    BY <1>2, <1>3, <1>5, <2>2
  <2> QED
    BY <2>1, <2>2
<1>7. active'[t] = Cardinality(Running(t)') /\ active'[t] \in Nat /\ active'[t] >= d.active
  <2>1. active[t] = Cardinality(Running(t)) /\ IsFiniteSet(Running(t))
    BY RunningFinite DEF IInv, ActiveIsExact
  <2>2. Running(t) \ {c} = Running(t)
    BY <1>4
  <2>3. /\ IsFiniteSet(Running(t) \cup d.started)
        /\ Cardinality(Running(t) \cup d.started) = d.active
    <3>1. Cardinality(Running(t) \cap d.started) = 0
      <4>1. Running(t) \cap d.started = {}
        BY <1>2
      <4> QED
        BY <4>1, FS_EmptySet
    <3>2. /\ IsFiniteSet(Running(t) \cup d.started)
          /\ Cardinality(Running(t) \cup d.started)
               = Cardinality(Running(t)) + Cardinality(d.started) - Cardinality(Running(t) \cap d.started)
      BY <1>2, <2>1, FS_Union
    <3>3. d.active = active[t] + Cardinality(d.started) /\ Cardinality(d.started) \in Nat
      BY <1>2
    <3> QED
      BY <1>1, <2>1, <3>1, <3>2, <3>3
  <2>4. d.active \in Nat
    BY <1>1, <1>2
  <2>5. CASE place = "running"
    <3>1. c \notin Running(t) \cup d.started
      BY <1>2, <1>4
    <3>2. Cardinality((Running(t) \cup d.started) \cup {c}) = d.active + 1
      BY <2>3, <3>1, FS_AddElement
    <3>3. Running(t)' = (Running(t) \cup d.started) \cup {c}
      BY <1>3, <2>2, <2>5
    <3>4. active'[t] = d.active + 1
      BY <1>5, <2>5
    <3> QED
      BY <2>4, <3>2, <3>3, <3>4
  <2>6. CASE place # "running"
    <3>1. Running(t)' = Running(t) \cup d.started
      BY <1>3, <2>2, <2>6
    <3>2. active'[t] = d.active
      BY <1>5, <2>4, <2>6
    <3> QED
      BY <2>3, <2>4, <3>1, <3>2
  <2> QED
    BY <2>5, <2>6
<1>8. TypeOK'
  <2>1. timed' \in SUBSET Calls
    <3>1. (d.started \cup (IF place = "running" THEN {c} ELSE {})) \in SUBSET Calls
      BY <1>2
    <3> QED
      BY <1>1, <3>1, ArmTimersType DEF Admit
  <2>2. known' \in SUBSET Targets
    BY <1>1 DEF Admit, KeepIfBusy, TypeOK
  <2>3. limit' \in [Targets -> Nat]
    BY <1>1, <1>5
  <2> QED
    BY <1>1, <1>3, <1>5, <1>6, <1>7, <2>1, <2>2, <2>3 DEF TypeOK
<1>9. QueueInv'
  BY <1>3, <1>5, <1>6 DEF IInv, QueueInv
<1>10. ActiveIsExact'
  BY <1>3, <1>5, <1>7 DEF IInv, ActiveIsExact
<1>11. WorkConserving'
  BY <1>1, <1>2, <1>5, <1>6, <1>7 DEF IInv, WorkConserving
<1> QED
  BY <1>8, <1>9, <1>10, <1>11 DEF IInv

\* run() takes a slot, queues or rejects, and drains under its new limit first.
LEMMA RunStep ==
  ASSUME IInv, NEW c \in Calls, NEW t \in Targets, NEW m \in Limits, NEW n \in QueueLimits,
         Run(c, t, m, n)
  PROVE  IInv'
<1> DEFINE d == Drained(queue[t], active[t], m)
<1>1. /\ pc[c] = "new" /\ limit' = [limit EXCEPT ![t] = m]
      /\ UNCHANGED <<aborted, signal, dispatching>>
  BY DEF Run
<1>2. PICK place \in {"abort_rejected", "running", "queue_full", "queued"} :
         Admit(c, t, d, place) /\ (place = "queued" => d.active >= m)
  BY DEF Run
<1>3. place \in Places \ {"new"}
  BY DEF Places, Settled
<1> HIDE DEF d
<1>4. d = Drained(queue[t], active[t], m)
  BY DEF d
<1> QED
  BY <1>1, <1>2, <1>3, <1>4, AdmitStep

\* finish(): the call's slot goes back before the queue is drained.
LEMMA FinishStep ==
  ASSUME IInv, NEW c \in Calls, NEW place \in {"resolved", "rejected"}, Finish(c, place)
  PROVE  IInv'
<1>t. PICK t \in Targets : t = target[c]
  BY DEF IInv, TypeOK
<1> DEFINE d == Drained(queue[t], active[t] - 1, limit[t])
<1>1. /\ TypeOK /\ t \in Targets /\ limit[t] \in Nat /\ active[t] \in Nat
      /\ pc[c] = "running" /\ c \in Running(t)
  BY <1>t DEF IInv, TypeOK, Finish, Running
<1>2. DrainOK(t, active[t] - 1, limit[t], d)
  <2>1. active[t] - 1 \in Int /\ limit[t] \in Int
    BY <1>1
  <2> QED
    BY <1>1, <2>1, DrainOfTarget
<1>3. /\ Settle(c, place, d)
      /\ ArmTimers(d.started, {c})
      /\ active' = [active EXCEPT ![t] = d.active]
      /\ queue' = [queue EXCEPT ![t] = d.queue]
      /\ known' = KeepIfBusy(t, d.active, d.queue)
      /\ UNCHANGED <<target, aborted, signal, dispatching, limit>>
  BY <1>t DEF Finish
<1> HIDE DEF d
<1>4. Moved(t, c, place, d)
  <2>1. target' = [target EXCEPT ![c] = t]
    BY <1>1, <1>3, <1>t DEF TypeOK
  <2>2. place \in Places
    BY DEF Places, Settled
  <2>3. Settling(t, c, place, d)
    BY <1>1, <1>2, <1>3, <1>t, <2>1 DEF DrainOK, Settling
  <2> QED
    BY <1>1, <2>2, <2>3, SettleMoves
<1> USE DEF DrainOK, Moved
<1>5. active'[t] = Cardinality(Running(t)') /\ active'[t] \in Nat
  <2>1. active[t] = Cardinality(Running(t)) /\ IsFiniteSet(Running(t))
    BY <1>1, RunningFinite DEF IInv, ActiveIsExact
  <2>2. IsFiniteSet(Running(t) \ {c}) /\ Cardinality(Running(t) \ {c}) = active[t] - 1
    BY <1>1, <2>1, FS_RemoveElement
  <2>3. Cardinality((Running(t) \ {c}) \cap d.started) = 0
    <3>1. (Running(t) \ {c}) \cap d.started = {}
      BY <1>2
    <3> QED
      BY <3>1, FS_EmptySet
  <2>4. /\ IsFiniteSet((Running(t) \ {c}) \cup d.started)
        /\ Cardinality((Running(t) \ {c}) \cup d.started)
             = Cardinality(Running(t) \ {c}) + Cardinality(d.started)
                 - Cardinality((Running(t) \ {c}) \cap d.started)
    BY <1>2, <2>2, FS_Union
  <2>5. Cardinality((Running(t) \ {c}) \cup d.started) = d.active
    <3>1. d.active = active[t] - 1 + Cardinality(d.started) /\ Cardinality(d.started) \in Nat
      BY <1>2
    <3> QED
      BY <1>1, <2>2, <2>3, <2>4, <3>1
  <2>6. active'[t] = d.active
    BY <1>1, <1>3 DEF TypeOK
  <2>7. Cardinality((Running(t) \ {c}) \cup d.started) \in Nat
    BY <2>4, FS_CardinalityType
  <2> QED
    BY <1>4, <2>5, <2>6, <2>7
<1>6. TypeOK'
  <2>1. timed' \in SUBSET Calls
    BY <1>1, <1>2, <1>3, ArmTimersType
  <2>2. known' \in SUBSET Targets
    BY <1>1, <1>3 DEF KeepIfBusy, TypeOK
  <2>3. active' \in [Targets -> Nat]
    BY <1>1, <1>3, <1>5 DEF TypeOK
  <2>4. queue' \in [Targets -> Seq(Calls)]
    BY <1>1, <1>2, <1>3 DEF TypeOK
  <2> QED
    BY <1>1, <1>3, <1>4, <2>1, <2>2, <2>3, <2>4 DEF TypeOK
<1>7. queue'[t] = d.queue /\ \A u \in Targets \ {t} : queue'[u] = queue[u] /\ active'[u] = active[u]
  BY <1>1, <1>3 DEF TypeOK
<1>8. QueueInv'
  <2>1. place # "queued"
    OBVIOUS
  <2>2. Waiting(t)' = Waiting(t) \ (d.started \cup d.rejected)
    BY <1>4, <2>1
  <2>3. Entries(queue'[t]) = Waiting(t)' /\ Injective(queue'[t])
    BY <1>2, <1>7, <2>2
  <2>4. \A u \in Targets \ {t} : Entries(queue'[u]) = Waiting(u)' /\ Injective(queue'[u])
    BY <1>4, <1>7 DEF IInv, QueueInv
  <2> QED
    BY <2>3, <2>4 DEF QueueInv
<1>9. ActiveIsExact'
  <2>1. \A u \in Targets \ {t} : active'[u] = Cardinality(Running(u)')
    BY <1>4, <1>7 DEF IInv, ActiveIsExact
  <2> QED
    BY <1>5, <2>1 DEF ActiveIsExact
<1>10. WorkConserving'
  <2>1. active'[t] = d.active /\ limit' = limit
    BY <1>1, <1>3 DEF TypeOK
  <2> QED
    BY <1>2, <1>7, <2>1 DEF IInv, WorkConserving
<1> QED
  BY <1>6, <1>8, <1>9, <1>10 DEF IInv

-----------------------------------------------------------------------------
(* The steps that only take calls out of the queue, or only signal.         *)

\* A waiting call leaves its queue by its timer or its abort listener.
LEMMA EvictStep ==
  ASSUME IInv, NEW c \in Calls, NEW place \in Settled, pc[c] = "queued",
         Evict(c, place), signal' \in [Calls -> Reasons], dispatching' \in Calls \cup {NoCall},
         UNCHANGED <<target, timed, aborted, active, limit>>
  PROVE  IInv'
<1>t. PICK t \in Targets : t = target[c]
  BY DEF IInv, TypeOK
<1>1. /\ TypeOK
      /\ pc' = [pc EXCEPT ![c] = place]
      /\ queue' = [queue EXCEPT ![t] = Drop(queue[t], {c})]
      /\ known' = KeepIfBusy(t, active[t], queue'[t])
  BY <1>t DEF Evict, IInv
<1>2. /\ pc \in [Calls -> Places] /\ target \in [Calls -> Targets]
      /\ queue \in [Targets -> Seq(Calls)] /\ known \in SUBSET Targets
  BY <1>1 DEF TypeOK
<1>3. queue[t] \in Seq(Calls) /\ Injective(queue[t]) /\ Entries(queue[t]) = Waiting(t)
  BY <1>2 DEF IInv, QueueInv
<1>4. /\ queue'[t] \in Seq(Calls) /\ Injective(queue'[t])
      /\ Entries(queue'[t]) = Waiting(t) \ {c}
      /\ queue[t] = <<>> => queue'[t] = <<>>
  <2>1. queue'[t] = Drop(queue[t], {c})
    BY <1>1, <1>2
  <2> QED
    BY <1>3, <2>1, DropFacts
<1>5. place \in Places /\ place # "queued" /\ place # "running"
  BY DEF Places, Settled
<1>6. \A u \in Targets : Waiting(u)' = Waiting(u) \ {c} /\ Running(u)' = Running(u)
  BY <1>1, <1>2, <1>5 DEF Waiting, Running
<1>7. \A u \in Targets \ {t} : Waiting(u)' = Waiting(u) /\ queue'[u] = queue[u]
  BY <1>1, <1>2, <1>6, <1>t DEF Waiting
<1>8. TypeOK'
  <2>1. pc' \in [Calls -> Places]
    BY <1>1, <1>2, <1>5
  <2>2. queue' \in [Targets -> Seq(Calls)]
    BY <1>1, <1>2, <1>4
  <2>3. known' \in SUBSET Targets
    BY <1>1, <1>2 DEF KeepIfBusy
  <2> QED
    BY <1>1, <2>1, <2>2, <2>3 DEF TypeOK
<1>9. QueueInv'
  <2>1. Entries(queue'[t]) = Waiting(t)' /\ Injective(queue'[t])
    BY <1>4, <1>6
  <2>2. \A u \in Targets \ {t} : Entries(queue'[u]) = Waiting(u)' /\ Injective(queue'[u])
    BY <1>7 DEF IInv, QueueInv
  <2> QED
    BY <2>1, <2>2 DEF QueueInv
<1>10. ActiveIsExact'
  BY <1>6 DEF IInv, ActiveIsExact
<1>11. WorkConserving'
  <2>1. queue'[t] # <<>> => active[t] >= limit[t]
    BY <1>4 DEF IInv, WorkConserving
  <2>2. \A u \in Targets \ {t} : queue'[u] # <<>> => active[u] >= limit[u]
    BY <1>7 DEF IInv, WorkConserving
  <2> QED
    BY <2>1, <2>2 DEF WorkConserving
<1> QED
  BY <1>8, <1>9, <1>10, <1>11 DEF IInv

\* cancelQueued() evicts the waiting calls of a run.
LEMMA CancelQueuedStep ==
  ASSUME IInv, NEW id \in RunIds, CancelQueued(id)
  PROVE  IInv'
<1> DEFINE gone == {c \in Calls : pc[c] = "queued" /\ RunId[c] = id}
<1>1. /\ TypeOK
      /\ pc' = [c \in Calls |-> IF c \in gone THEN "cancelled" ELSE pc[c]]
      /\ queue' = [t \in Targets |-> Drop(queue[t], gone)]
      /\ known' = {t \in known : active[t] # 0 \/ queue'[t] # <<>>}
      /\ UNCHANGED <<target, timed, aborted, signal, dispatching, active, limit>>
  BY DEF CancelQueued, IInv
<1>2. gone \subseteq Calls /\ \A c \in gone : pc[c] = "queued"
  OBVIOUS
<1> HIDE DEF gone
<1>3. /\ pc \in [Calls -> Places] /\ queue \in [Targets -> Seq(Calls)]
      /\ known \in SUBSET Targets
  BY <1>1 DEF TypeOK
<1>4. ASSUME NEW t \in Targets
      PROVE  /\ queue'[t] \in Seq(Calls) /\ Injective(queue'[t])
             /\ Entries(queue'[t]) = Waiting(t) \ gone
             /\ queue[t] = <<>> => queue'[t] = <<>>
  <2>1. queue[t] \in Seq(Calls) /\ Injective(queue[t]) /\ Entries(queue[t]) = Waiting(t)
    BY <1>3 DEF IInv, QueueInv
  <2>2. queue'[t] = Drop(queue[t], gone)
    BY <1>1
  <2> QED
    BY <2>1, <2>2, DropFacts
<1>5. \A t \in Targets : Waiting(t)' = Waiting(t) \ gone /\ Running(t)' = Running(t)
  BY <1>1, <1>2, <1>3 DEF Waiting, Running
<1>6. TypeOK'
  <2>1. pc' \in [Calls -> Places]
    BY <1>1, <1>3 DEF Places, Settled
  <2>2. queue' \in [Targets -> Seq(Calls)]
    BY <1>1, <1>4
  <2>3. known' \in SUBSET Targets
    BY <1>1, <1>3
  <2> QED
    BY <1>1, <2>1, <2>2, <2>3 DEF TypeOK
<1>7. QueueInv'
  BY <1>4, <1>5 DEF QueueInv
<1>8. ActiveIsExact'
  BY <1>1, <1>5 DEF IInv, ActiveIsExact
<1>9. WorkConserving'
  BY <1>1, <1>4 DEF IInv, WorkConserving
<1> QED
  BY <1>6, <1>7, <1>8, <1>9 DEF IInv

\* Steps that move no call and touch no target state.
LEMMA SignalStep ==
  ASSUME IInv, UNCHANGED <<pc, target, known, active, limit, queue>>,
         timed' \in SUBSET Calls, aborted' \in SUBSET Calls,
         signal' \in [Calls -> Reasons], dispatching' \in Calls \cup {NoCall}
  PROVE  IInv'
<1>1. TypeOK'
  BY DEF IInv, TypeOK
<1>2. \A t \in Targets : Waiting(t)' = Waiting(t) /\ Running(t)' = Running(t)
  BY DEF Waiting, Running
<1>3. QueueInv' /\ ActiveIsExact' /\ WorkConserving'
  BY <1>2 DEF IInv, QueueInv, ActiveIsExact, WorkConserving
<1> QED
  BY <1>1, <1>3 DEF IInv

\* The reason of an abort is one of the reasons.
LEMMA FirstReasonType ==
  ASSUME TypeOK, NEW c \in Calls, NEW reason \in Reasons, FirstReason(c, reason)
  PROVE  signal' \in [Calls -> Reasons]
BY DEF TypeOK, FirstReason

\* The invariant is inductive.
LEMMA NextIInv == IInv /\ [Next]_vars => IInv'
<1> SUFFICES ASSUME IInv, [Next]_vars PROVE IInv'
  OBVIOUS
<1>0. TypeOK
  BY DEF IInv
<1>1. ASSUME NEW c \in Calls, NEW t \in Targets, NEW m \in Limits, NEW n \in QueueLimits,
             Run(c, t, m, n)
      PROVE  IInv'
  BY <1>1, RunStep
<1>2. ASSUME NEW c \in Calls, QueueTimeout(c) PROVE IInv'
  <2>1. signal' \in [Calls -> Reasons] /\ dispatching' \in Calls \cup {NoCall}
    BY <1>0, <1>2 DEF QueueTimeout, TypeOK
  <2>2. "queue_timeout" \in Settled
    BY DEF Settled
  <2> QED
    BY <1>2, <2>1, <2>2, EvictStep DEF QueueTimeout
<1>3. ASSUME NEW id \in RunIds, CancelQueued(id) PROVE IInv'
  BY <1>3, CancelQueuedStep
<1>4. ASSUME NEW c \in Calls, Abort(c) PROVE IInv'
  BY <1>0, <1>4, SignalStep DEF Abort, TypeOK, stateVars
<1>5. ASSUME NEW c \in Calls, AbortListener(c) PROVE IInv'
  <2>1. dispatching' \in Calls \cup {NoCall} /\ UNCHANGED <<target, timed, aborted, active, limit>>
    BY <1>5 DEF AbortListener
  <2>2. CASE pc[c] = "queued" /\ Evict(c, "abort_rejected") /\ UNCHANGED signal
    <3>1. "abort_rejected" \in Settled
      BY DEF Settled
    <3>2. signal' \in [Calls -> Reasons]
      BY <1>0, <2>2 DEF TypeOK
    <3> QED
      BY <2>1, <2>2, <3>1, <3>2, EvictStep
  <2>3. CASE FirstReason(c, "caller") /\ UNCHANGED <<pc, queue, known>>
    <3>1. signal' \in [Calls -> Reasons]
      BY <1>0, <2>3, FirstReasonType DEF Reasons
    <3> QED
      BY <1>0, <2>1, <2>3, <3>1, SignalStep DEF TypeOK
  <2>4. CASE UNCHANGED <<pc, queue, known, signal>>
    BY <1>0, <2>1, <2>4, SignalStep DEF TypeOK
  <2> QED
    BY <1>5, <2>2, <2>3, <2>4 DEF AbortListener
<1>6. ASSUME NEW c \in Calls, RunTimeout(c) PROVE IInv'
  <2>1. signal' \in [Calls -> Reasons]
    BY <1>0, <1>6, FirstReasonType DEF RunTimeout, Reasons
  <2> QED
    BY <1>0, <1>6, <2>1, SignalStep DEF RunTimeout, TypeOK, stateVars
<1>7. ASSUME NEW c \in Calls, NEW place \in {"resolved", "rejected"}, Finish(c, place)
      PROVE  IInv'
  BY <1>7, FinishStep
<1>8. CASE UNCHANGED vars
  BY <1>0, <1>8, SignalStep DEF TypeOK, vars, callVars, stateVars
<1> QED
  BY <1>1, <1>2, <1>3, <1>4, <1>5, <1>6, <1>7, <1>8 DEF Next

\* The books of the scheduler are right in every state that calls can bring it to.
THEOREM Invariance == Spec => []IInv
BY InitIInv, NextIInv, PTL DEF Spec

-----------------------------------------------------------------------------
(* What the invariant gives.                                                *)

\* The counter stays a natural number and every queue a queue of calls,
\* whatever mix of starts, timeouts, aborts, cancellations and new limits.
THEOREM TypeCorrect == Spec => []TypeOK
<1>1. IInv => TypeOK
  BY DEF IInv
<1> QED
  BY <1>1, Invariance, PTL

\* state.active is the number of running operations of the target.
THEOREM ActiveExact == Spec => []ActiveIsExact
<1>1. IInv => ActiveIsExact
  BY DEF IInv
<1> QED
  BY <1>1, Invariance, PTL

\* The queue is exactly the waiting calls of the target, each once.
THEOREM QueueExact == Spec => []QueueIsExact
<1>1. IInv => QueueIsExact
  <2> SUFFICES ASSUME IInv, NEW t \in Targets
               PROVE  /\ Entries(queue[t]) = Waiting(t)
                      /\ Len(queue[t]) = Cardinality(Waiting(t))
    BY DEF QueueIsExact
  <2> DEFINE q == queue[t]
             n == Len(q)
  <2>1. q \in Seq(Calls) /\ Injective(q) /\ Entries(q) = Waiting(t)
    BY DEF IInv, TypeOK, QueueInv
  <2>2. n \in Nat /\ q \in [1..n -> Calls]
    BY <2>1, LenProperties
  <2>3. q \in Bijection(1..n, Waiting(t))
    <3>1. Waiting(t) = {q[i] : i \in 1..n}
      BY <2>1 DEF Entries
    <3>2. \A i, j \in 1..n : q[i] = q[j] => i = j
      BY <2>1 DEF Injective
    <3> HIDE DEF q, n
    <3>3. q \in [1..n -> Waiting(t)]
      BY <2>2, <3>1
    <3> QED
      BY <3>1, <3>2, <3>3 DEF Bijection, Injection, Surjection, IsInjective
  <2>4. IsFiniteSet(1..n) /\ Cardinality(1..n) = n
    <3>1. n \in Nat
      BY <2>2
    <3> HIDE DEF n
    <3> QED
      BY <3>1, FS_Interval
  <2>5. Cardinality(Waiting(t)) = n
    BY <2>3, <2>4, FS_Bijection DEF ExistsBijection
  <2> QED
    BY <2>1, <2>5
<1> QED
  BY <1>1, Invariance, PTL

\* A step that changes the counter and the queue of one target, and keeps or
\* forgets its state by what is left of them.
LEMMA KeptIfBusy ==
  ASSUME NoIdleState, NEW t \in Targets, NEW a \in Nat, NEW q \in Seq(Calls),
         active \in [Targets -> Nat], queue \in [Targets -> Seq(Calls)],
         active' = [active EXCEPT ![t] = a], queue' = [queue EXCEPT ![t] = q],
         known' = KeepIfBusy(t, a, q)
  PROVE  NoIdleState'
<1> SUFFICES ASSUME NEW u \in Targets
             PROVE  u \in known' <=> (active'[u] > 0 \/ queue'[u] # <<>>)
  BY DEF NoIdleState
<1>1. CASE u = t
  <2>1. active'[u] = a /\ queue'[u] = q
    BY <1>1
  <2>2. u \in known' <=> ~(a = 0 /\ q = <<>>)
    BY <1>1 DEF KeepIfBusy
  <2> QED
    BY <2>1, <2>2
<1>2. CASE u # t
  BY <1>2 DEF KeepIfBusy, NoIdleState
<1> QED
  BY <1>1, <1>2

\* Every step keeps exactly the targets that have running or waiting calls.
LEMMA StepKeepsBusy == IInv /\ IInv' /\ NoIdleState /\ [Next]_vars => NoIdleState'
<1> SUFFICES ASSUME IInv, IInv', NoIdleState, [Next]_vars PROVE NoIdleState'
  OBVIOUS
<1>1. /\ active \in [Targets -> Nat] /\ queue \in [Targets -> Seq(Calls)]
      /\ active' \in [Targets -> Nat] /\ queue' \in [Targets -> Seq(Calls)]
      /\ target \in [Calls -> Targets] /\ target' \in [Calls -> Targets]
  BY DEF IInv, TypeOK
<1>2. ASSUME NEW c \in Calls, NEW t \in Targets, NEW m \in Limits, NEW n \in QueueLimits,
             Run(c, t, m, n)
      PROVE  NoIdleState'
  <2> DEFINE d == Drained(queue[t], active[t], m)
  <2>1. PICK place \in {"abort_rejected", "running", "queue_full", "queued"} :
           Admit(c, t, d, place)
    BY <1>2 DEF Run
  <2>2. /\ \E a : active' = [active EXCEPT ![t] = a]
        /\ \E q : queue' = [queue EXCEPT ![t] = q]
        /\ known' = KeepIfBusy(t, active'[t], queue'[t])
    BY <2>1 DEF Admit
  <2>3. /\ active' = [active EXCEPT ![t] = active'[t]]
        /\ queue' = [queue EXCEPT ![t] = queue'[t]]
        /\ active'[t] \in Nat /\ queue'[t] \in Seq(Calls)
    BY <1>1, <2>2
  <2> QED
    BY <1>1, <2>2, <2>3, KeptIfBusy
<1>3. ASSUME NEW c \in Calls, NEW place \in {"resolved", "rejected"}, Finish(c, place)
      PROVE  NoIdleState'
  <2> DEFINE t == target[c]
             d == Drained(queue[t], active[t] - 1, limit[t])
  <2>1. /\ t \in Targets
        /\ active' = [active EXCEPT ![t] = d.active]
        /\ queue' = [queue EXCEPT ![t] = d.queue]
        /\ known' = KeepIfBusy(t, d.active, d.queue)
    BY <1>1, <1>3 DEF Finish
  <2> HIDE DEF t, d
  <2>2. d.active \in Nat /\ d.queue \in Seq(Calls)
    <3>1. d.active = active'[t] /\ d.queue = queue'[t]
      BY <1>1, <2>1
    <3> QED
      BY <1>1, <2>1, <3>1
  <2> QED
    BY <1>1, <2>1, <2>2, KeptIfBusy
<1>4. ASSUME NEW c \in Calls, NEW place, Evict(c, place), UNCHANGED active
      PROVE  NoIdleState'
  <2> DEFINE t == target[c]
  <2>1. /\ t \in Targets
        /\ queue' = [queue EXCEPT ![t] = Drop(queue[t], {c})]
        /\ known' = KeepIfBusy(t, active[t], queue'[t])
    BY <1>1, <1>4 DEF Evict
  <2> HIDE DEF t
  <2>2. /\ queue' = [queue EXCEPT ![t] = queue'[t]] /\ queue'[t] \in Seq(Calls)
        /\ active' = [active EXCEPT ![t] = active[t]] /\ active[t] \in Nat
    BY <1>1, <1>4, <2>1
  <2> QED
    BY <1>1, <2>1, <2>2, KeptIfBusy
<1>5. ASSUME NEW id \in RunIds, CancelQueued(id)
      PROVE  NoIdleState'
  <2> DEFINE gone == {c \in Calls : pc[c] = "queued" /\ RunId[c] = id}
  <2>1. /\ \A t \in Targets : queue'[t] = Drop(queue[t], gone)
        /\ known' = {t \in known : active[t] # 0 \/ queue'[t] # <<>>}
        /\ active' = active
    BY <1>5 DEF CancelQueued
  <2>2. \A t \in Targets : queue[t] = <<>> => queue'[t] = <<>>
    <3> TAKE t \in Targets
    <3>1. queue[t] \in Seq(Calls) /\ Injective(queue[t])
      BY <1>1 DEF IInv, QueueInv
    <3> QED
      BY <2>1, <3>1, DropFacts
  <2> HIDE DEF gone
  <2>3. \A t \in Targets : active[t] \in Nat
    BY <1>1
  <2> SUFFICES ASSUME NEW t \in Targets
               PROVE  t \in known' <=> (active'[t] > 0 \/ queue'[t] # <<>>)
    BY DEF NoIdleState
  <2>4. t \in known <=> (active[t] > 0 \/ queue[t] # <<>>)
    BY DEF NoIdleState
  <2>5. active[t] # 0 <=> active[t] > 0
    BY <2>3
  <2> QED
    BY <2>1, <2>2, <2>4, <2>5
<1>6. ASSUME UNCHANGED <<known, active, queue>>
      PROVE  NoIdleState'
  BY <1>6 DEF NoIdleState
<1>7. ASSUME NEW c \in Calls, AbortListener(c)
      PROVE  NoIdleState'
  <2>1. active' = active /\ (Evict(c, "abort_rejected") \/ UNCHANGED <<queue, known>>)
    BY <1>7 DEF AbortListener
  <2> QED
    BY <2>1, <1>4, <1>6
<1>8. ASSUME NEW c \in Calls, QueueTimeout(c)
      PROVE  NoIdleState'
  BY <1>8, <1>4 DEF QueueTimeout
<1>9. ASSUME NEW c \in Calls, Abort(c) \/ RunTimeout(c)
      PROVE  NoIdleState'
  BY <1>9, <1>6 DEF Abort, RunTimeout, stateVars
<1>10. ASSUME UNCHANGED vars
       PROVE  NoIdleState'
  BY <1>10, <1>6 DEF vars, stateVars
<1> QED
  BY <1>2, <1>3, <1>5, <1>7, <1>8, <1>9, <1>10 DEF Next

\* No slot stays free while a call waits.
THEOREM Conserving == Spec => []WorkConserving
<1>1. IInv => WorkConserving
  BY DEF IInv
<1> QED
  BY <1>1, Invariance, PTL

\* The books of every target are right, at any length of run and for any
\* sequence of limits: typed variables, an exact counter, an exact queue, a map
\* that holds exactly the states in use, and no slot free while a call waits.
THEOREM BooksExact == Spec => []BooksAreExact
<1>1. Init => NoIdleState
  BY DEF Init, NoIdleState
<1>2. Spec => []NoIdleState
  BY <1>1, StepKeepsBusy, Invariance, PTL DEF Spec
<1> QED
  BY <1>2, TypeCorrect, ActiveExact, QueueExact, Conserving, PTL DEF BooksAreExact

\* A step that takes slots stays within the limit in force.  The drain of a
\* run() may use the limit up; the call that comes with it then does not start.
LEMMA StepAdmitsWithinLimit ==
  ASSUME IInv, [Next]_vars, NEW t \in Targets, active'[t] > active[t]
  PROVE  active'[t] <= limit'[t]
<1>0. /\ TypeOK /\ active \in [Targets -> Nat] /\ limit \in [Targets -> Nat]
  BY DEF IInv, TypeOK
<1>1. active' # active
  <2> SUFFICES ASSUME active' = active PROVE FALSE
    OBVIOUS
  <2>1. active[t] \in Nat /\ active'[t] = active[t]
    BY <1>0
  <2> QED
    BY <2>1
<1>2. ASSUME NEW c \in Calls, NEW u \in Targets, NEW m \in Limits, NEW n \in QueueLimits,
             Run(c, u, m, n)
      PROVE  active'[t] <= limit'[t]
  <2> DEFINE d == Drained(queue[u], active[u], m)
  <2>1. DrainOK(u, active[u], m, d) /\ m \in Nat /\ active[u] \in Nat
    <3>1. m \in Nat /\ m \in Int /\ active[u] \in Nat /\ active[u] \in Int
      BY <1>0, SchedulerAssumption
    <3> QED
      BY <3>1, DrainOfTarget
  <2>2. PICK place \in {"abort_rejected", "running", "queue_full", "queued"} :
           Admit(c, u, d, place) /\ (place = "running" => d.active < m)
    BY <1>2 DEF Run
  <2>3. limit' = [limit EXCEPT ![u] = m]
    BY <1>2 DEF Run
  <2> HIDE DEF d
  <2>4. active' = [active EXCEPT ![u] = d.active + IF place = "running" THEN 1 ELSE 0]
    BY <2>2 DEF Admit
  <2>5. t = u
    <3> SUFFICES ASSUME t # u PROVE FALSE
      OBVIOUS
    <3>1. active'[t] = active[t] /\ active[t] \in Nat
      BY <1>0, <2>4
    <3> QED
      BY <3>1
  <2>6. limit'[t] = m /\ active'[t] = d.active + IF place = "running" THEN 1 ELSE 0
    BY <1>0, <2>3, <2>4, <2>5
  <2>7. d.active \in Nat /\ (d.active > active[u] => d.active <= m)
    <3>1. /\ d.active = active[u] + Cardinality(d.started)
          /\ Cardinality(d.started) \in Nat
          /\ d.active > active[u] => d.active <= m
      BY <2>1 DEF DrainOK
    <3> QED
      BY <2>1, <3>1
  <2>8. CASE place = "running"
    BY <2>1, <2>2, <2>6, <2>7, <2>8
  <2>9. CASE place # "running"
    BY <2>1, <2>5, <2>6, <2>7, <2>9
  <2> QED
    BY <2>8, <2>9
<1>3. ASSUME NEW c \in Calls, NEW place \in {"resolved", "rejected"}, Finish(c, place)
      PROVE  active'[t] <= limit'[t]
  <2>u. PICK u \in Targets : u = target[c]
    BY <1>0 DEF TypeOK
  <2> DEFINE d == Drained(queue[u], active[u] - 1, limit[u])
  <2>1. DrainOK(u, active[u] - 1, limit[u], d) /\ limit[u] \in Nat /\ active[u] \in Nat
    <3>1. limit[u] \in Nat /\ limit[u] \in Int /\ active[u] \in Nat /\ active[u] - 1 \in Int
      BY <1>0
    <3> QED
      BY <3>1, DrainOfTarget
  <2>2. active' = [active EXCEPT ![u] = d.active] /\ limit' = limit
    BY <1>3, <2>u DEF Finish
  <2> HIDE DEF d
  <2>3. t = u
    <3> SUFFICES ASSUME t # u PROVE FALSE
      OBVIOUS
    <3>1. active'[t] = active[t] /\ active[t] \in Nat
      BY <1>0, <2>2
    <3> QED
      BY <3>1
  <2>4. active'[t] = d.active /\ limit'[t] = limit[u]
    BY <1>0, <2>2, <2>3
  <2>5. d.active > active[u] - 1 => d.active <= limit[u]
    BY <2>1 DEF DrainOK
  <2>6. d.active \in Int
    <3>1. d.active = active[u] - 1 + Cardinality(d.started) /\ Cardinality(d.started) \in Nat
      BY <2>1 DEF DrainOK
    <3> QED
      BY <2>1, <3>1
  <2> QED
    BY <2>1, <2>3, <2>4, <2>5, <2>6
<1>4. ASSUME UNCHANGED active PROVE FALSE
  BY <1>1, <1>4
<1> QED
  BY <1>2, <1>3, <1>4 DEF Next, QueueTimeout, CancelQueued, Abort, AbortListener, RunTimeout,
                          vars, stateVars

\* run() and drain() take slots up to the limit in force after them, never beyond it.
THEOREM WithinLimit == Spec => NeverOverAdmits
<1>1. IInv /\ [Next]_vars
        => [\A t \in Targets : active'[t] > active[t] => active'[t] <= limit'[t]]_vars
  BY StepAdmitsWithinLimit
<1> QED
  BY <1>1, Invariance, PTL DEF Spec, NeverOverAdmits

-----------------------------------------------------------------------------
(* First come, first served.                                                *)

\* A call starts only when nobody ahead of it in its queue is left waiting.
Ordered ==
  \A u \in Targets : \A i, j \in 1..Len(queue[u]) :
    i < j /\ pc'[queue[u][j]] = "running" => pc'[queue[u][i]] # "queued"

\* A drain starts only entries of its prefix, and leaves none of that prefix.
LEMMA DrainInOrder ==
  ASSUME NEW q \in Seq(Calls), Injective(q), NEW a \in Int, NEW m \in Int,
         NEW i \in 1..Len(q), NEW j \in 1..Len(q), i < j, q[j] \in Drained(q, a, m).started
  PROVE  q[i] \in Drained(q, a, m).started \cup Drained(q, a, m).rejected
<1> DEFINE k == DrainLen(q, a, m)
<1>1. /\ Drained(q, a, m).started = {q[x] : x \in Startable(q, k)}
      /\ Drained(q, a, m).rejected = {q[x] : x \in (1..k) \ Startable(q, k)}
  BY DEF Drained
<1>2. k \in 0..Len(q) /\ Len(q) \in Nat
  BY DrainLenLeast, LenProperties DEF DrainStops
<1> HIDE DEF k
<1>3. PICK x \in Startable(q, k) : q[x] = q[j]
  BY <1>1
<1>4. x \in 1..k
  BY <1>3 DEF Startable
<1>5. x = j
  BY <1>2, <1>3, <1>4 DEF Injective
<1>6. i \in 1..k
  BY <1>2, <1>4, <1>5
<1> QED
  BY <1>1, <1>6

\* What a drain, and the outcome of the call that brings it about, do to the calls.
LEMMA SettleInOrder ==
  ASSUME IInv, NEW t \in Targets, NEW c \in Calls, pc[c] \in {"new", "running"},
         NEW place \in Places, place # "queued" \/ pc[c] = "new",
         NEW a \in Int, NEW m \in Int, NEW d, d = Drained(queue[t], a, m), Settle(c, place, d)
  PROVE  /\ pc' \in [Calls -> Places] /\ pc'[c] = place
         /\ \A x \in Calls \ {c} :
              \/ pc'[x] = pc[x]
              \/ pc[x] = "queued" /\ pc'[x] \in {"running", "abort_rejected"}
         /\ \A x \in Calls \ {c} : pc[x] = "queued" /\ pc'[x] = "running" => x \notin aborted
         /\ Ordered
<1>1. /\ pc \in [Calls -> Places] /\ queue[t] \in Seq(Calls) /\ Injective(queue[t])
      /\ \A u \in Targets : Entries(queue[u]) = Waiting(u)
  BY DEF IInv, TypeOK, QueueInv
<1>2. /\ d.started \cup d.rejected \subseteq Waiting(t) /\ d.started \cap aborted = {}
      /\ d.started \cap d.rejected = {}
  BY <1>1, DrainedFacts
<1>3. pc' = [x \in Calls |-> IF x = c THEN place
                             ELSE IF x \in d.started THEN "running"
                             ELSE IF x \in d.rejected THEN "abort_rejected"
                             ELSE pc[x]]
  BY DEF Settle
<1>4. \A x \in d.started \cup d.rejected : x # c /\ pc[x] = "queued" /\ target[x] = t
  BY <1>2 DEF Waiting
<1>5. pc' \in [Calls -> Places] /\ pc'[c] = place
  BY <1>1, <1>3 DEF Places, Settled
<1>6. \A x \in Calls \ {c} : \/ pc'[x] = pc[x] /\ x \notin d.started
                             \/ pc[x] = "queued" /\ pc'[x] = "running" /\ x \in d.started
                             \/ pc[x] = "queued" /\ pc'[x] = "abort_rejected"
  BY <1>3, <1>4
<1>7. \A x \in Calls \ {c} : pc[x] = "queued" /\ pc'[x] = "running" => x \notin aborted
  BY <1>2, <1>6
<1>8. Ordered
  <2> SUFFICES ASSUME NEW u \in Targets, NEW i \in 1..Len(queue[u]), NEW j \in 1..Len(queue[u]),
                      i < j, pc'[queue[u][j]] = "running"
               PROVE  pc'[queue[u][i]] # "queued"
    BY DEF Ordered
  <2>1. \A n \in {i, j} : queue[u][n] \in Waiting(u)
    BY <1>1 DEF Entries
  <2>2. \A n \in {i, j} : queue[u][n] \in Calls \ {c} /\ pc[queue[u][n]] = "queued"
                          /\ target[queue[u][n]] = u
    BY <2>1 DEF Waiting
  <2>3. queue[u][j] \in d.started
    BY <1>6, <2>2
  <2>4. u = t
    BY <1>4, <2>2, <2>3
  <2>5. queue[t][i] \in d.started \cup d.rejected
    BY <1>1, <2>3, <2>4, DrainInOrder
  <2>6. pc'[queue[u][i]] \in {"running", "abort_rejected"}
    BY <1>3, <2>2, <2>4, <2>5
  <2> QED
    BY <2>6
<1> QED
  BY <1>5, <1>6, <1>7, <1>8

\* run(): the new call gets an outcome, and calls that wait may get theirs.
LEMMA RunMoves ==
  ASSUME IInv, NEW c \in Calls, NEW t \in Targets, NEW m \in Limits, NEW n \in QueueLimits,
         Run(c, t, m, n)
  PROVE  /\ pc[c] = "new" /\ UNCHANGED <<aborted, signal, dispatching>>
         /\ pc'[c] \in {"abort_rejected", "running", "queue_full", "queued"}
         /\ c \in aborted => pc'[c] = "abort_rejected"
         /\ pc'[c] = "running" => queue'[target'[c]] = <<>>
         /\ \A x \in Calls \ {c} :
              \/ pc'[x] = pc[x]
              \/ pc[x] = "queued" /\ pc'[x] \in {"running", "abort_rejected"}
         /\ \A x \in Calls \ {c} : pc[x] = "queued" /\ pc'[x] = "running" => x \notin aborted
         /\ Ordered
<1> DEFINE d == Drained(queue[t], active[t], m)
<1>1. pc[c] = "new" /\ UNCHANGED <<aborted, signal, dispatching>>
  BY DEF Run
<1>2. PICK place \in {"abort_rejected", "running", "queue_full", "queued"} :
         /\ Admit(c, t, d, place) /\ (place = "running" => d.active < m)
         /\ c \in aborted => place = "abort_rejected"
  BY DEF Run
<1>3. m \in Nat /\ m \in Int /\ active[t] \in Nat /\ active[t] \in Int
  BY SchedulerAssumption DEF IInv, TypeOK
<1>4. DrainOK(t, active[t], m, d)
  BY <1>3, DrainOfTarget
<1> HIDE DEF d
<1>5. d = Drained(queue[t], active[t], m)
  BY DEF d
<1>6. place \in Places
  BY DEF Places, Settled
<1>7. /\ Settle(c, place, d) /\ target' = [target EXCEPT ![c] = t]
      /\ place # "queued" => queue' = [queue EXCEPT ![t] = d.queue]
  BY <1>2 DEF Admit
<1>8. place = "running" => queue'[target'[c]] = <<>>
  <2> SUFFICES ASSUME place = "running" PROVE queue'[target'[c]] = <<>>
    OBVIOUS
  <2>1. target'[c] = t
    BY <1>7 DEF IInv, TypeOK
  <2>2. queue'[t] = d.queue
    BY <1>7 DEF IInv, TypeOK
  <2>3. d.active < m /\ (d.queue # <<>> => d.active >= m) /\ d.active \in Int
    BY <1>2, <1>3, <1>4 DEF DrainOK
  <2> QED
    BY <1>3, <2>1, <2>2, <2>3
<1>9. /\ pc'[c] = place
      /\ \A x \in Calls \ {c} :
           \/ pc'[x] = pc[x]
           \/ pc[x] = "queued" /\ pc'[x] \in {"running", "abort_rejected"}
      /\ \A x \in Calls \ {c} : pc[x] = "queued" /\ pc'[x] = "running" => x \notin aborted
      /\ Ordered
  BY <1>1, <1>3, <1>5, <1>6, <1>7, SettleInOrder
<1> QED
  BY <1>1, <1>2, <1>8, <1>9

\* finish(): the call is over, and calls that wait may get their outcome.
LEMMA FinishMoves ==
  ASSUME IInv, NEW c \in Calls, NEW place \in {"resolved", "rejected"}, Finish(c, place)
  PROVE  /\ pc[c] = "running" /\ dispatching = NoCall
         /\ UNCHANGED <<aborted, signal, dispatching>> /\ pc'[c] = place
         /\ \A x \in Calls \ {c} :
              \/ pc'[x] = pc[x]
              \/ pc[x] = "queued" /\ pc'[x] \in {"running", "abort_rejected"}
         /\ \A x \in Calls \ {c} : pc[x] = "queued" /\ pc'[x] = "running" => x \notin aborted
         /\ Ordered
<1>t. PICK t \in Targets : t = target[c]
  BY DEF IInv, TypeOK
<1> DEFINE d == Drained(queue[t], active[t] - 1, limit[t])
<1>1. /\ pc[c] = "running" /\ dispatching = NoCall
      /\ UNCHANGED <<aborted, signal, dispatching>> /\ Settle(c, place, d)
  BY <1>t DEF Finish
<1>2. active[t] - 1 \in Int /\ limit[t] \in Int
  BY DEF IInv, TypeOK
<1> HIDE DEF d
<1>3. d = Drained(queue[t], active[t] - 1, limit[t])
  BY DEF d
<1>4. place \in Places
  BY DEF Places, Settled
<1>5. /\ pc'[c] = place
      /\ \A x \in Calls \ {c} :
           \/ pc'[x] = pc[x]
           \/ pc[x] = "queued" /\ pc'[x] \in {"running", "abort_rejected"}
      /\ \A x \in Calls \ {c} : pc[x] = "queued" /\ pc'[x] = "running" => x \notin aborted
      /\ Ordered
  BY <1>1, <1>2, <1>3, <1>4, SettleInOrder
<1> QED
  BY <1>1, <1>5

\* A step that starts nobody is in order.
LEMMA NobodyStarts ==
  ASSUME IInv, \A x \in Calls : pc'[x] = "running" => pc[x] = "running"
  PROVE  Ordered
<1> SUFFICES ASSUME NEW u \in Targets, NEW j \in 1..Len(queue[u]), pc'[queue[u][j]] = "running"
             PROVE  FALSE
  BY DEF Ordered
<1>1. queue[u][j] \in Waiting(u)
  BY DEF IInv, QueueInv, Entries
<1> QED
  BY <1>1 DEF Waiting

\* Calls start in the order they came, a new call never before those that wait, and
\* none whose caller has given up (run(), drain(), finish()).
THEOREM FirstComeFirstServed == Spec => InOrder
<1> DEFINE Fair ==
      /\ \A t \in Targets : \A i, j \in 1..Len(queue[t]) :
           i < j /\ pc'[queue[t][j]] = "running" => pc'[queue[t][i]] # "queued"
      /\ \A c \in Calls : pc[c] # "running" /\ pc'[c] = "running" =>
           /\ pc[c] = "new" => queue'[target'[c]] = <<>>
           /\ c \notin aborted'
<1>1. ASSUME IInv, Next PROVE Fair
  <2>1. ASSUME NEW c \in Calls, NEW t \in Targets, NEW m \in Limits, NEW n \in QueueLimits,
               Run(c, t, m, n)
        PROVE  Fair
    <3>1. /\ pc[c] = "new" /\ aborted' = aborted
          /\ c \in aborted => pc'[c] = "abort_rejected"
          /\ pc'[c] = "running" => queue'[target'[c]] = <<>>
          /\ \A x \in Calls \ {c} :
               \/ pc'[x] = pc[x]
               \/ pc[x] = "queued" /\ pc'[x] \in {"running", "abort_rejected"}
          /\ \A x \in Calls \ {c} : pc[x] = "queued" /\ pc'[x] = "running" => x \notin aborted
          /\ Ordered
      BY <1>1, <2>1, RunMoves
    <3> QED
      BY <3>1 DEF Ordered
  <2>2. ASSUME NEW c \in Calls, NEW place \in {"resolved", "rejected"}, Finish(c, place)
        PROVE  Fair
    <3>1. /\ pc[c] = "running" /\ pc'[c] = place /\ aborted' = aborted
          /\ \A x \in Calls \ {c} :
               \/ pc'[x] = pc[x]
               \/ pc[x] = "queued" /\ pc'[x] \in {"running", "abort_rejected"}
          /\ \A x \in Calls \ {c} : pc[x] = "queued" /\ pc'[x] = "running" => x \notin aborted
          /\ Ordered
      BY <1>1, <2>2, FinishMoves
    <3> QED
      BY <3>1 DEF Ordered
  <2>3. ASSUME \A x \in Calls : pc'[x] = "running" => pc[x] = "running" PROVE Fair
    BY <1>1, <2>3, NobodyStarts DEF Ordered
  <2>4. pc \in [Calls -> Places]
    BY <1>1 DEF IInv, TypeOK
  <2>5. ASSUME NEW c \in Calls, QueueTimeout(c) \/ Abort(c) \/ AbortListener(c) \/ RunTimeout(c)
        PROVE  \A x \in Calls : pc'[x] = "running" => pc[x] = "running"
    BY <2>4, <2>5 DEF QueueTimeout, Abort, AbortListener, RunTimeout, Evict
  <2>6. ASSUME NEW id \in RunIds, CancelQueued(id)
        PROVE  \A x \in Calls : pc'[x] = "running" => pc[x] = "running"
    BY <2>6 DEF CancelQueued
  <2> QED
    BY <1>1, <2>1, <2>2, <2>3, <2>5, <2>6 DEF Next
<1>2. IInv /\ [Next]_vars => [Fair]_vars
  BY <1>1
<1> QED
  BY <1>2, Invariance, PTL DEF Spec, InOrder

-----------------------------------------------------------------------------
(* What a module that composes the scheduler does to all calls at once.     *)

\* Every waiting call of every target is turned away.
LEMMA EmptiedStep ==
  ASSUME IInv, pc' = [c \in Calls |-> IF pc[c] = "queued" THEN "cancelled" ELSE pc[c]],
         queue' = [t \in Targets |-> <<>>], UNCHANGED <<target, active, limit>>,
         timed' \in SUBSET Calls, aborted' \in SUBSET Calls, known' \in SUBSET Targets,
         signal' \in [Calls -> Reasons], dispatching' \in Calls \cup {NoCall}
  PROVE  IInv'
<1>1. pc \in [Calls -> Places] /\ pc' \in [Calls -> Places]
  BY DEF IInv, TypeOK, Places, Settled
<1>2. queue' \in [Targets -> Seq(Calls)] /\ Len(<<>>) = 0
  BY EmptySeq
<1>3. TypeOK'
  BY <1>1, <1>2 DEF IInv, TypeOK
<1>4. \A t \in Targets : Waiting(t)' = {} /\ Running(t)' = Running(t)
  BY <1>1 DEF Waiting, Running
<1>5. QueueInv'
  BY <1>2, <1>4 DEF QueueInv, Entries, Injective
<1>6. ActiveIsExact' /\ WorkConserving'
  BY <1>4 DEF IInv, ActiveIsExact, WorkConserving
<1> QED
  BY <1>3, <1>5, <1>6 DEF IInv

\* The scheduler is gone with its process: nobody runs or waits any more.
LEMMA ForgottenStep ==
  ASSUME IInv,
         pc' = [c \in Calls |-> IF pc[c] \in {"queued", "running"} THEN "rejected" ELSE pc[c]],
         queue' = [t \in Targets |-> <<>>], active' = [t \in Targets |-> 0],
         UNCHANGED <<target, limit>>,
         timed' \in SUBSET Calls, aborted' \in SUBSET Calls, known' \in SUBSET Targets,
         signal' \in [Calls -> Reasons], dispatching' \in Calls \cup {NoCall}
  PROVE  IInv'
<1>1. pc \in [Calls -> Places] /\ pc' \in [Calls -> Places]
  BY DEF IInv, TypeOK, Places, Settled
<1>2. queue' \in [Targets -> Seq(Calls)] /\ Len(<<>>) = 0
  BY EmptySeq
<1>3. TypeOK'
  BY <1>1, <1>2 DEF IInv, TypeOK
<1>4. \A t \in Targets : Waiting(t)' = {} /\ Running(t)' = {}
  BY <1>1 DEF Waiting, Running
<1>5. QueueInv'
  BY <1>2, <1>4 DEF QueueInv, Entries, Injective
<1>6. ActiveIsExact' /\ WorkConserving'
  BY <1>4, FS_EmptySet DEF ActiveIsExact, WorkConserving
<1> QED
  BY <1>3, <1>5, <1>6 DEF IInv
=============================================================================

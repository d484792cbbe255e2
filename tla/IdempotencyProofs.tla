------------------------- MODULE IdempotencyProofs -------------------------
(***************************************************************************)
(* Proofs about Idempotency, for any calls, keys, clients and limits: the  *)
(* buffer's books are right and within its limit, nobody waits for an      *)
(* answer that will not come or is given that of another request, a key    *)
(* runs its request once, and a deleted client leaves nothing behind.      *)
(***************************************************************************)
EXTENDS Idempotency, FiniteSetTheorems, TLAPS

-----------------------------------------------------------------------------
(* Sums over finite sets.  The library's fold is a recursive function of    *)
(* the subsets of a set; facts about it are proved by well-founded          *)
(* induction, whose predicate is here a set of sets.                        *)

\* A property that a finite set has when all its proper subsets do.
LEMMA SetInduction ==
  ASSUME NEW S, IsFiniteSet(S), NEW P,
         \A T \in SUBSET S : (\A U \in SUBSET T : U # T => U \in P) => T \in P
  PROVE  S \in P
<1> DEFINE Bad == {T \in SUBSET S : T \notin P}
<1> SUFFICES ASSUME Bad # {} PROVE FALSE
  OBVIOUS
<1>1. Bad \subseteq FiniteSubsetsOf(S)
  BY FS_Subset DEF FiniteSubsetsOf
<1> HIDE DEF Bad
<1>2. PICK T \in Bad : \A U \in Bad : <<U, T>> \notin StrictSubsetOrdering(S)
  BY <1>1, FS_StrictSubsetOrderingWellFounded, WFMin
<1> QED
  BY <1>2 DEF StrictSubsetOrdering, Bad

\* A set of naturals that holds 0 and the successors of its members holds them all.
LEMMA Counting ==
  ASSUME NEW P, 0 \in P, \A n \in Nat : n \in P => n + 1 \in P
  PROVE  \A n \in Nat : n \in P
<1> DEFINE Bad == {n \in Nat : n \notin P}
<1> SUFFICES ASSUME Bad # {} PROVE FALSE
  OBVIOUS
<1>1. PICK n \in Bad : \A m \in Bad : <<m, n>> \notin OpToRel(<, Nat)
  BY NatLessThanWellFounded, WFMin
<1>2. n \in Nat /\ n \notin P
  OBVIOUS
<1>3. n - 1 \in Nat /\ n - 1 < n /\ (n - 1) + 1 = n
  BY <1>2
<1>4. <<n - 1, n>> \in OpToRel(<, Nat)
  BY <1>2, <1>3 DEF OpToRel
<1>5. n - 1 \notin P
  BY <1>2, <1>3
<1> QED
  BY <1>1, <1>3, <1>4, <1>5

Pick(s) == CHOOSE x \in s : TRUE

\* The function that the fold of a sum is defined by.
Sums(f, S) ==
  CHOOSE g : g = [s \in SUBSET S |-> IF s = {} THEN 0 ELSE f[Pick(s)] + g[s \ {Pick(s)}]]

Sum(f, S) == Sums(f, S)[S]

\* The fold of the community modules is the sum over a set that is used below.
LEMMA BytesAreSums ==
  ASSUME NEW b, NEW X PROVE Bytes(b, X) = Sum(b.bytes, X)
BY DEF Bytes, MapThenSumSet, MapThenFoldSet, Sum, Sums, Pick

\* The sums over the subsets of a finite set are defined by recursion on the set.
LEMMA SumsDefined ==
  ASSUME NEW f, NEW S, IsFiniteSet(S)
  PROVE  \A T \in SUBSET S :
           Sums(f, S)[T] = IF T = {} THEN 0 ELSE f[Pick(T)] + Sums(f, S)[T \ {Pick(T)}]
<1> DEFINE Upto(n) == {s \in SUBSET S : Cardinality(s) <= n}
           Fits(g, D) == g = [s \in D |-> IF s = {} THEN 0 ELSE f[Pick(s)] + g[s \ {Pick(s)}]]
           P == {n \in Nat : \E g : Fits(g, Upto(n))}
<1>1. \A s \in SUBSET S : IsFiniteSet(s) /\ Cardinality(s) \in Nat
  BY FS_Subset, FS_CardinalityType
<1>2. \A s \in SUBSET S : s # {} =>
        /\ Pick(s) \in s /\ s \ {Pick(s)} \in SUBSET S
        /\ Cardinality(s \ {Pick(s)}) = Cardinality(s) - 1
  BY <1>1, FS_RemoveElement DEF Pick
<1>3. 0 \in P
  <2> DEFINE g == [s \in Upto(0) |-> 0]
  <2>1. \A s \in Upto(0) : s = {}
    BY <1>1, FS_EmptySet
  <2>2. Fits(g, Upto(0))
    BY <2>1
  <2> QED
    BY <2>2
<1>4. ASSUME NEW n \in Nat, n \in P PROVE n + 1 \in P
  <2>1. PICK g : Fits(g, Upto(n))
    BY <1>4
  <2> DEFINE h == [s \in Upto(n + 1) |-> IF s = {} THEN 0 ELSE f[Pick(s)] + g[s \ {Pick(s)}]]
  <2>2. \A s \in Upto(n) : s \in Upto(n + 1) /\ h[s] = g[s]
    <3>1. \A s \in Upto(n) : s \in Upto(n + 1)
      BY <1>1
    <3> HIDE DEF Upto
    <3>2. \A s \in Upto(n) : h[s] = IF s = {} THEN 0 ELSE f[Pick(s)] + g[s \ {Pick(s)}]
      BY <3>1
    <3>3. \A s \in Upto(n) : g[s] = IF s = {} THEN 0 ELSE f[Pick(s)] + g[s \ {Pick(s)}]
      BY <2>1
    <3> QED
      BY <3>1, <3>2, <3>3
  <2>3. \A s \in Upto(n + 1) : s # {} => s \ {Pick(s)} \in Upto(n)
    BY <1>1, <1>2
  <2>4. \A s \in Upto(n + 1) : s # {} => h[s \ {Pick(s)}] = g[s \ {Pick(s)}]
    BY <2>2, <2>3
  <2>5. Fits(h, Upto(n + 1))
    BY <2>4
  <2>6. n + 1 \in Nat
    OBVIOUS
  <2> HIDE DEF h, Upto, Fits
  <2> QED
    BY <2>5, <2>6
<1>5. Cardinality(S) \in P
  <2> HIDE DEF P
  <2>1. \A n \in Nat : n \in P
    BY <1>3, <1>4, Counting
  <2> QED
    BY <1>1, <2>1
<1>6. Upto(Cardinality(S)) = SUBSET S
  BY <1>1, FS_Subset
<1>7. \E g : Fits(g, SUBSET S)
  BY <1>5, <1>6
<1>8. Fits(Sums(f, S), SUBSET S)
  BY <1>7 DEF Sums
<1>9. PICK g : g = Sums(f, S)
  OBVIOUS
<1>10. \A T \in SUBSET S : g[T] = IF T = {} THEN 0 ELSE f[Pick(T)] + g[T \ {Pick(T)}]
  <2>1. g = [s \in SUBSET S |-> IF s = {} THEN 0 ELSE f[Pick(s)] + g[s \ {Pick(s)}]]
    BY <1>8, <1>9
  <2> QED
    BY <2>1
<1> QED
  BY <1>9, <1>10

\* The sum over a set does not depend on the set whose subsets it was computed with.
LEMMA SumsAgree ==
  ASSUME NEW f, NEW S, IsFiniteSet(S), NEW T \in SUBSET S
  PROVE  Sums(f, S)[T] = Sum(f, T)
<1> DEFINE P == {V \in SUBSET T : Sums(f, S)[V] = Sums(f, T)[V]}
<1>1. IsFiniteSet(T)
  BY FS_Subset
<1>2. ASSUME NEW V \in SUBSET T, \A U \in SUBSET V : U # V => U \in P PROVE V \in P
  <2>1. /\ Sums(f, S)[V] = IF V = {} THEN 0 ELSE f[Pick(V)] + Sums(f, S)[V \ {Pick(V)}]
        /\ Sums(f, T)[V] = IF V = {} THEN 0 ELSE f[Pick(V)] + Sums(f, T)[V \ {Pick(V)}]
    BY <1>1, SumsDefined
  <2>2. V # {} => V \ {Pick(V)} \in P
    <3>1. V # {} => Pick(V) \in V
      BY DEF Pick
    <3> HIDE DEF P
    <3> QED
      BY <1>2, <3>1
  <2> QED
    BY <2>1, <2>2
<1>3. T \in P
  <2> HIDE DEF P
  <2> QED
    BY <1>1, <1>2, SetInduction
<1> QED
  BY <1>3 DEF Sum

\* A sum is what it takes from the element picked first and the sum over the rest.
LEMMA SumOfPicked ==
  ASSUME NEW f, NEW S, IsFiniteSet(S)
  PROVE  Sum(f, S) = IF S = {} THEN 0 ELSE f[Pick(S)] + Sum(f, S \ {Pick(S)})
<1>1. Sums(f, S)[S] = IF S = {} THEN 0 ELSE f[Pick(S)] + Sums(f, S)[S \ {Pick(S)}]
  BY SumsDefined
<1>2. Sums(f, S)[S \ {Pick(S)}] = Sum(f, S \ {Pick(S)})
  BY SumsAgree
<1> QED
  BY <1>1, <1>2 DEF Sum

\* Any member may be taken out first.
LEMMA SumOfRest ==
  ASSUME NEW f, NEW S, IsFiniteSet(S), \A x \in S : f[x] \in Nat
  PROVE  /\ Sum(f, S) \in Nat
         /\ \A y \in S : Sum(f, S) = f[y] + Sum(f, S \ {y})
<1> DEFINE P == {V \in SUBSET S : /\ Sum(f, V) \in Nat
                                  /\ \A y \in V : Sum(f, V) = f[y] + Sum(f, V \ {y})}
<1>1. ASSUME NEW V \in SUBSET S, \A U \in SUBSET V : U # V => U \in P PROVE V \in P
  <2>1. IsFiniteSet(V)
    BY FS_Subset
  <2>2. CASE V = {}
    <3>1. Sum(f, V) = 0
      BY <2>1, <2>2, SumOfPicked
    <3> QED
      BY <2>2, <3>1
  <2>3. CASE V # {}
    <3>1. PICK x \in V : x = Pick(V)
      BY <2>3 DEF Pick
    <3>2. Sum(f, V) = f[x] + Sum(f, V \ {x}) /\ f[x] \in Nat
      BY <2>1, <2>3, <3>1, SumOfPicked
    <3>3. \A y \in V : Sum(f, V \ {y}) \in Nat
                       /\ \A z \in V \ {y} : Sum(f, V \ {y}) = f[z] + Sum(f, (V \ {y}) \ {z})
      <4> TAKE y \in V
      <4>1. V \ {y} \in SUBSET V /\ V \ {y} # V
        OBVIOUS
      <4> QED
        BY <1>1, <4>1
    <3>4. ASSUME NEW y \in V PROVE Sum(f, V) = f[y] + Sum(f, V \ {y})
      <4>1. CASE y = x
        BY <3>2, <4>1
      <4>2. CASE y # x
        <5>1. Sum(f, V \ {x}) = f[y] + Sum(f, (V \ {x}) \ {y})
          BY <3>3, <4>2
        <5>2. Sum(f, V \ {y}) = f[x] + Sum(f, (V \ {y}) \ {x})
          BY <3>3, <4>2
        <5>3. (V \ {x}) \ {y} = (V \ {y}) \ {x}
          OBVIOUS
        <5>4. Sum(f, (V \ {y}) \ {x}) \in Nat
          <6>1. (V \ {y}) \ {x} \in SUBSET V /\ (V \ {y}) \ {x} # V
            OBVIOUS
          <6> QED
            BY <1>1, <6>1
        <5>5. f[x] \in Nat /\ f[y] \in Nat
          OBVIOUS
        <5>6. PICK w \in Nat : w = Sum(f, (V \ {y}) \ {x})
          BY <5>4
        <5>7. Sum(f, V \ {x}) = f[y] + w /\ Sum(f, V \ {y}) = f[x] + w
          BY <5>1, <5>2, <5>3, <5>6
        <5> QED
          BY <3>2, <5>5, <5>7
      <4> QED
        BY <4>1, <4>2
    <3>5. Sum(f, V) \in Nat
      BY <3>2, <3>3
    <3> QED
      BY <3>4, <3>5
  <2> QED
    BY <2>2, <2>3
<1>2. S \in P
  <2> HIDE DEF P
  <2> QED
    BY <1>1, SetInduction
<1> QED
  BY <1>2

\* Nothing sums up to zero.
LEMMA SumOfNothing == ASSUME NEW f PROVE Sum(f, {}) = 0
BY FS_EmptySet, SumOfPicked

\* A sum splits where its set does.
LEMMA SumSplits ==
  ASSUME NEW f, NEW S, NEW X, IsFiniteSet(S), \A x \in S : f[x] \in Nat
  PROVE  Sum(f, S) = Sum(f, S \cap X) + Sum(f, S \ X)
<1> DEFINE P == {V \in SUBSET S : Sum(f, V) = Sum(f, V \cap X) + Sum(f, V \ X)}
<1>1. ASSUME NEW V \in SUBSET S, \A U \in SUBSET V : U # V => U \in P PROVE V \in P
  <2>1. \A W \in SUBSET S : IsFiniteSet(W)
    BY FS_Subset
  <2>2. \A W \in SUBSET S : Sum(f, W) \in Nat
                            /\ \A y \in W : Sum(f, W) = f[y] + Sum(f, W \ {y})
    BY <2>1, SumOfRest
  <2>3. CASE V = {}
    <3>1. V \cap X = {} /\ V \ X = {}
      BY <2>3
    <3> QED
      BY <2>3, <3>1, SumOfNothing
  <2>4. CASE V # {}
    <3>1. PICK y \in V : TRUE
      BY <2>4
    <3> DEFINE U == V \ {y}
    <3>2. Sum(f, V) = f[y] + Sum(f, U) /\ f[y] \in Nat
      BY <2>2
    <3>3. Sum(f, U) = Sum(f, U \cap X) + Sum(f, U \ X)
      <4>1. U \in SUBSET V /\ U # V
        OBVIOUS
      <4> HIDE DEF U
      <4> QED
        BY <1>1, <4>1
    <3>4. Sum(f, U \cap X) \in Nat /\ Sum(f, U \ X) \in Nat
      BY <2>2
    <3>5. CASE y \in X
      <4>1. (V \cap X) \ {y} = U \cap X /\ V \ X = U \ X
        BY <3>5
      <4>2. Sum(f, V \cap X) = f[y] + Sum(f, (V \cap X) \ {y})
        BY <2>2, <3>5
      <4> HIDE DEF U
      <4>3. PICK i \in Nat, o \in Nat : i = Sum(f, U \cap X) /\ o = Sum(f, U \ X)
        BY <3>4
      <4>4. Sum(f, V) = f[y] + (i + o) /\ Sum(f, V \cap X) = f[y] + i /\ Sum(f, V \ X) = o
        BY <3>2, <3>3, <4>1, <4>2, <4>3
      <4> QED
        BY <3>2, <4>4
    <3>6. CASE y \notin X
      <4>1. (V \ X) \ {y} = U \ X /\ V \cap X = U \cap X
        BY <3>6
      <4>2. Sum(f, V \ X) = f[y] + Sum(f, (V \ X) \ {y})
        BY <2>2, <3>6
      <4> HIDE DEF U
      <4>3. PICK i \in Nat, o \in Nat : i = Sum(f, U \cap X) /\ o = Sum(f, U \ X)
        BY <3>4
      <4>4. Sum(f, V) = f[y] + (i + o) /\ Sum(f, V \ X) = f[y] + o /\ Sum(f, V \cap X) = i
        BY <3>2, <3>3, <4>1, <4>2, <4>3
      <4> QED
        BY <3>2, <4>4
    <3> QED
      BY <3>5, <3>6
  <2> QED
    BY <2>3, <2>4
<1>2. S \in P
  <2> HIDE DEF P
  <2> QED
    BY <1>1, SetInduction
<1> QED
  BY <1>2

\* A sum depends only on the values it adds.
LEMMA SumOfSame ==
  ASSUME NEW f, NEW g, NEW S, IsFiniteSet(S), \A x \in S : f[x] \in Nat /\ g[x] = f[x]
  PROVE  Sum(g, S) = Sum(f, S)
<1> DEFINE P == {V \in SUBSET S : Sum(g, V) = Sum(f, V)}
<1>1. ASSUME NEW V \in SUBSET S, \A U \in SUBSET V : U # V => U \in P PROVE V \in P
  <2>1. IsFiniteSet(V)
    BY FS_Subset
  <2>2. CASE V = {}
    BY <2>2, SumOfNothing
  <2>3. CASE V # {}
    <3>1. Pick(V) \in V
      BY <2>3 DEF Pick
    <3>2. Sum(f, V \ {Pick(V)}) = Sum(g, V \ {Pick(V)})
      BY <1>1, <3>1
    <3> QED
      BY <2>1, <2>3, <3>1, <3>2, SumOfPicked
  <2> QED
    BY <2>2, <2>3
<1>2. S \in P
  <2> HIDE DEF P
  <2> QED
    BY <1>1, SetInduction
<1> QED
  BY <1>2

-----------------------------------------------------------------------------
(* The operations of the buffer.                                           *)

\* What the books of a buffer are, whoever calls it.
Sound(b, t) ==
  /\ BufferOK(b, t)
  /\ b = [bytes |-> b.bytes, completedAt |-> b.completedAt, older |-> b.older, total |-> b.total]
  /\ IsFiniteSet(Entries(b))
  /\ b.total = Bytes(b, Entries(b))

\* evict() leaves the times of the other entries alone.
LEMMA EvictAllKeeps ==
  ASSUME NEW b, NEW t, NEW X, Sound(b, t)
  PROVE  \A x \in Entries(b) \ X : EvictAll(b, X).completedAt[x] = b.completedAt[x]
<1>1. b.completedAt \in [Entries(b) -> 0 .. t \cup {Never}]
  BY DEF Sound, BufferOK
<1> QED
  BY <1>1 DEF EvictAll, Restrict

\* evict() of a set of entries: the books stay exact, the bytes of those that go are given back.
LEMMA EvictAllSound ==
  ASSUME NEW b, NEW t, NEW X, NEW r, Sound(b, t), r = EvictAll(b, X)
  PROVE  /\ Sound(r, t) /\ Entries(r) = Entries(b) \ X
         /\ r.total \in Nat /\ b.total \in Nat /\ r.total <= b.total
         /\ b.total = r.total + Sum(b.bytes, Entries(b) \cap X)
<1> DEFINE E == Entries(b)
           rest == E \ X
<1>1. /\ b.bytes \in [E -> Nat] /\ b.completedAt \in [E -> 0 .. t \cup {Never}]
      /\ b.older \in [E -> SUBSET E]
      /\ \A x, y \in E : /\ x # y => (x \in b.older[y] <=> y \notin b.older[x])
                         /\ x \in b.older[y] => x # y /\ b.older[x] \subseteq b.older[y]
      /\ IsFiniteSet(E) /\ b.total = Sum(b.bytes, E)
  BY BytesAreSums DEF Sound, BufferOK
<1>2. r = [bytes |-> Restrict(b.bytes, rest),
           completedAt |-> Restrict(b.completedAt, rest),
           older |-> [y \in rest |-> b.older[y] \ X],
           total |-> b.total - Sum(b.bytes, E \cap X)]
  BY BytesAreSums DEF EvictAll
<1> HIDE DEF E
<1>3. /\ r.bytes \in [rest -> Nat] /\ r.completedAt \in [rest -> 0 .. t \cup {Never}]
      /\ r.older = [y \in rest |-> b.older[y] \ X]
      /\ \A x \in rest : r.bytes[x] = b.bytes[x] /\ r.completedAt[x] = b.completedAt[x]
      /\ r.total = b.total - Sum(b.bytes, E \cap X)
      /\ r = [bytes |-> r.bytes, completedAt |-> r.completedAt, older |-> r.older, total |-> r.total]
  BY <1>1, <1>2 DEF Restrict
<1>4. Entries(r) = rest /\ IsFiniteSet(rest)
  BY <1>1, <1>3, FS_Subset DEF Entries
<1>5. /\ r.older \in [rest -> SUBSET rest]
      /\ \A x, y \in rest : /\ x # y => (x \in r.older[y] <=> y \notin r.older[x])
                            /\ x \in r.older[y] => x # y /\ r.older[x] \subseteq r.older[y]
  BY <1>1, <1>3
<1>6. Sum(r.bytes, rest) = Sum(b.bytes, rest)
  BY <1>1, <1>3, <1>4, SumOfSame
<1>7. /\ Sum(b.bytes, E) = Sum(b.bytes, E \cap X) + Sum(b.bytes, rest)
      /\ Sum(b.bytes, E) \in Nat /\ Sum(b.bytes, E \cap X) \in Nat /\ Sum(b.bytes, rest) \in Nat
  <2>1. \A S \in SUBSET E : IsFiniteSet(S) /\ \A x \in S : b.bytes[x] \in Nat
    BY <1>1, FS_Subset
  <2>2. \A S \in SUBSET E : Sum(b.bytes, S) \in Nat
    BY <2>1, SumOfRest
  <2>3. IsFiniteSet(E) /\ \A x \in E : b.bytes[x] \in Nat
    BY <1>1
  <2>4. Sum(b.bytes, E) = Sum(b.bytes, E \cap X) + Sum(b.bytes, E \ X)
    BY <2>3, SumSplits
  <2> QED
    BY <2>2, <2>4
<1>8. r.total = Sum(b.bytes, rest)
  <2>1. PICK i \in Nat, o \in Nat : i = Sum(b.bytes, E \cap X) /\ o = Sum(b.bytes, rest)
    BY <1>7
  <2>2. r.total = (i + o) - i
    BY <1>1, <1>3, <1>7, <2>1
  <2> QED
    BY <2>1, <2>2
<1>9. Sound(r, t)
  BY <1>3, <1>4, <1>5, <1>6, <1>8, BytesAreSums DEF Sound, BufferOK
<1>10. r.total \in Nat /\ b.total \in Nat /\ b.total = r.total + Sum(b.bytes, E \cap X)
  <2>1. PICK i \in Nat, o \in Nat : i = Sum(b.bytes, E \cap X) /\ o = Sum(b.bytes, rest)
    BY <1>7
  <2>2. r.total = o /\ b.total = i + o
    BY <1>1, <1>7, <1>8, <2>1
  <2> QED
    BY <2>1, <2>2
<1>11. r.total <= b.total
  BY <1>7, <1>10
<1> QED
  BY <1>3, <1>4, <1>9, <1>10, <1>11 DEF E

\* touch() moves an entry to the end of the Map and changes nothing else.
LEMMA TouchSound ==
  ASSUME NEW b, NEW t, NEW x, NEW r, Sound(b, t), r = Touch(b, x)
  PROVE  /\ Sound(r, t) /\ Entries(r) = Entries(b)
         /\ r.completedAt = b.completedAt /\ r.total = b.total
<1> DEFINE E == Entries(b)
<1>1. /\ b.bytes \in [E -> Nat] /\ b.completedAt \in [E -> 0 .. t \cup {Never}]
      /\ b.older \in [E -> SUBSET E]
      /\ \A u, v \in E : /\ u # v => (u \in b.older[v] <=> v \notin b.older[u])
                         /\ u \in b.older[v] => u # v /\ b.older[u] \subseteq b.older[v]
      /\ IsFiniteSet(E) /\ b.total = Bytes(b, E)
      /\ b = [bytes |-> b.bytes, completedAt |-> b.completedAt, older |-> b.older, total |-> b.total]
  BY DEF Sound, BufferOK
<1>2. CASE x \notin E
  BY <1>2 DEF Touch
<1>3. CASE x \in E
  <2> DEFINE o == [y \in E |-> IF y = x THEN E \ {x} ELSE b.older[y] \ {x}]
  <2>1. r = [bytes |-> b.bytes, completedAt |-> b.completedAt, older |-> o, total |-> b.total]
    BY <1>1, <1>3 DEF Touch
  <2>2. /\ o \in [E -> SUBSET E]
        /\ \A u, v \in E : /\ u # v => (u \in o[v] <=> v \notin o[u])
                           /\ u \in o[v] => u # v /\ o[u] \subseteq o[v]
    <3> HIDE DEF E
    <3> QED
      BY <1>1, <1>3
  <2> HIDE DEF o
  <2>3. /\ r.bytes = b.bytes /\ r.completedAt = b.completedAt /\ r.older = o /\ r.total = b.total
        /\ r = [bytes |-> r.bytes, completedAt |-> r.completedAt, older |-> r.older, total |-> r.total]
    BY <2>1
  <2>4. Entries(r) = E /\ Bytes(r, E) = Bytes(b, E)
    BY <2>3, BytesAreSums DEF Entries
  <2> HIDE DEF E
  <2>5. Sound(r, t)
    BY <1>1, <2>2, <2>3, <2>4 DEF Sound, BufferOK
  <2> QED
    BY <2>3, <2>4, <2>5 DEF E
<1> QED
  BY <1>2, <1>3

\* Expiry takes completed entries only.
LEMMA EvictExpiredSound ==
  ASSUME NEW b, NEW t, NEW r, Sound(b, t), r = EvictExpired(b, t)
  PROVE  /\ Sound(r, t) /\ Entries(r) \subseteq Entries(b)
         /\ \A x \in Entries(b) : b.completedAt[x] = Never => x \in Entries(r)
         /\ \A x \in Entries(r) : r.completedAt[x] = b.completedAt[x]
         /\ r.total \in Nat /\ b.total \in Nat /\ r.total <= b.total
<1> DEFINE X == {x \in Entries(b) : b.completedAt[x] # Never /\ b.completedAt[x] + CompletionTTL <= t}
<1>1. r = EvictAll(b, X)
  BY DEF EvictExpired
<1>2. \A x \in X : b.completedAt[x] # Never
  OBVIOUS
<1> HIDE DEF X
<1>3. Sound(r, t)
  BY <1>1, EvictAllSound
<1>4. Entries(r) = Entries(b) \ X
  BY <1>1, EvictAllSound
<1>5. \A x \in Entries(r) : r.completedAt[x] = b.completedAt[x]
  BY <1>1, <1>4, EvictAllKeeps
<1>6. r.total \in Nat /\ b.total \in Nat
  BY <1>1, EvictAllSound
<1>7. r.total <= b.total
  BY <1>1, EvictAllSound
<1> QED
  BY <1>2, <1>3, <1>4, <1>5, <1>6, <1>7

\* open() keeps the books, spares active entries, and a new entry is an active one.
LEMMA OpenEntrySound ==
  ASSUME NEW b, NEW t, NEW x, NEW r, Sound(b, t), r = OpenEntry(b, x, t)
  PROVE  /\ Sound(r, t) /\ x \in Entries(r) /\ Entries(r) \subseteq Entries(b) \cup {x}
         /\ x \notin Entries(EvictExpired(b, t)) => r.completedAt[x] = Never
         /\ \A y \in Entries(b) : b.completedAt[y] = Never => y \in Entries(r)
         /\ \A y \in Entries(r) \cap Entries(b) :
              \/ r.completedAt[y] = b.completedAt[y]
              \/ y = x /\ x \notin Entries(EvictExpired(b, t))
         /\ r.total \in Nat /\ b.total \in Nat /\ r.total <= b.total
<1>1. PICK e : e = EvictExpired(b, t)
  OBVIOUS
<1>2. /\ Sound(e, t) /\ Entries(e) \subseteq Entries(b)
      /\ \A y \in Entries(b) : b.completedAt[y] = Never => y \in Entries(e)
      /\ \A y \in Entries(e) : e.completedAt[y] = b.completedAt[y]
      /\ e.total \in Nat /\ b.total \in Nat /\ e.total <= b.total
  BY <1>1, EvictExpiredSound
<1>3. CASE x \in Entries(e)
  <2>1. r = Touch(e, x)
    BY <1>1, <1>3 DEF OpenEntry
  <2>2. Sound(r, t) /\ Entries(r) = Entries(e) /\ r.completedAt = e.completedAt /\ r.total = e.total
    BY <1>2, <2>1, TouchSound
  <2>3. /\ \A y \in Entries(r) \cap Entries(b) : r.completedAt[y] = b.completedAt[y]
        /\ r.total \in Nat /\ b.total \in Nat /\ r.total <= b.total
    BY <1>2, <2>2
  <2>4. x \in Entries(r) /\ Entries(r) \subseteq Entries(b) \cup {x}
        /\ \A y \in Entries(b) : b.completedAt[y] = Never => y \in Entries(r)
    BY <1>2, <1>3, <2>2
  <2>5. x \notin Entries(EvictExpired(b, t)) => r.completedAt[x] = Never
    BY <1>1, <1>3
  <2>6. Sound(r, t)
    BY <2>2
  <2> QED
    BY <2>3, <2>4, <2>5, <2>6
<1>4. CASE x \notin Entries(e)
  <2> DEFINE E == Entries(e)
             F == E \cup {x}
  <2>1. /\ e.bytes \in [E -> Nat] /\ e.completedAt \in [E -> 0 .. t \cup {Never}]
        /\ e.older \in [E -> SUBSET E]
        /\ \A u, v \in E : /\ u # v => (u \in e.older[v] <=> v \notin e.older[u])
                           /\ u \in e.older[v] => u # v /\ e.older[u] \subseteq e.older[v]
        /\ IsFiniteSet(E) /\ e.total = Sum(e.bytes, E)
    BY <1>2, BytesAreSums DEF Sound, BufferOK
  <2>2. r = [bytes |-> With(e.bytes, x, 0), completedAt |-> With(e.completedAt, x, Never),
             older |-> With(e.older, x, E), total |-> e.total]
    BY <1>1, <1>4 DEF OpenEntry
  <2> HIDE DEF E
  <2>3. /\ r.bytes = With(e.bytes, x, 0) /\ r.completedAt = With(e.completedAt, x, Never)
        /\ r.older = With(e.older, x, E) /\ r.total = e.total
        /\ r = [bytes |-> r.bytes, completedAt |-> r.completedAt, older |-> r.older, total |-> r.total]
    BY <2>2
  <2>4. x \notin E
    BY <1>4 DEF E
  <2>5. /\ r.bytes \in [F -> Nat] /\ r.bytes[x] = 0 /\ \A y \in E : r.bytes[y] = e.bytes[y]
        /\ r.completedAt \in [F -> 0 .. t \cup {Never}] /\ r.completedAt[x] = Never
        /\ \A y \in E : r.completedAt[y] = e.completedAt[y]
        /\ r.older \in [F -> SUBSET F] /\ r.older[x] = E /\ \A y \in E : r.older[y] = e.older[y]
    BY <2>1, <2>3, <2>4 DEF With
  <2>6. Entries(r) = F
    BY <2>5 DEF Entries
  <2>7. \A u, v \in F : /\ u # v => (u \in r.older[v] <=> v \notin r.older[u])
                        /\ u \in r.older[v] => u # v /\ r.older[u] \subseteq r.older[v]
    BY <2>1, <2>4, <2>5
  <2>8. IsFiniteSet(F)
    BY <2>1, FS_AddElement
  <2>9. Sum(r.bytes, F) = Sum(e.bytes, E)
    <3>1. \A y \in F : r.bytes[y] \in Nat
      BY <2>5
    <3>2. Sum(r.bytes, F) = r.bytes[x] + Sum(r.bytes, F \ {x})
      BY <2>8, <3>1, SumOfRest
    <3>3. F \ {x} = E
      BY <2>4
    <3>4. \A y \in E : e.bytes[y] \in Nat /\ r.bytes[y] = e.bytes[y]
      BY <2>1, <2>5
    <3>5. Sum(r.bytes, E) = Sum(e.bytes, E) /\ Sum(e.bytes, E) \in Nat
      BY <2>1, <3>4, SumOfSame, SumOfRest
    <3>6. PICK n \in Nat : n = Sum(e.bytes, E)
      BY <3>5
    <3>7. Sum(r.bytes, F) = 0 + n
      BY <2>5, <3>2, <3>3, <3>5, <3>6
    <3> QED
      BY <3>6, <3>7
  <2>10. Sound(r, t)
    BY <2>1, <2>3, <2>5, <2>6, <2>7, <2>8, <2>9, BytesAreSums DEF Sound, BufferOK
  <2> QED
    BY <1>1, <1>2, <1>4, <2>3, <2>4, <2>5, <2>6, <2>10 DEF E
<1> QED
  BY <1>3, <1>4

\* What is left is within the limit: the entries that go are the oldest ones.
LEMMA EnforceLimitSound ==
  ASSUME NEW b, NEW t, NEW r, Sound(b, t), r = EnforceLimit(b)
  PROVE  /\ Sound(r, t) /\ Entries(r) \subseteq Entries(b)
         /\ \A x \in Entries(r) : r.completedAt[x] = b.completedAt[x]
         /\ r.total \in Nat /\ r.total <= MaxBytes
<1> DEFINE E == Entries(b)
           gone == {x \in E : Sum(b.bytes, b.older[x]) + MaxBytes < b.total}
<1>1. r = EvictAll(b, gone)
  BY BytesAreSums DEF EnforceLimit
<1>2. /\ b.bytes \in [E -> Nat] /\ b.older \in [E -> SUBSET E] /\ IsFiniteSet(E)
      /\ \A x, y \in E : /\ x # y => (x \in b.older[y] <=> y \notin b.older[x])
                         /\ x \in b.older[y] => x # y /\ b.older[x] \subseteq b.older[y]
      /\ b.total = Sum(b.bytes, E)
  BY BytesAreSums DEF Sound, BufferOK
<1>3. /\ Sound(r, t) /\ Entries(r) = E \ gone
      /\ \A x \in Entries(r) : r.completedAt[x] = b.completedAt[x]
      /\ r.total \in Nat /\ b.total = r.total + Sum(b.bytes, E \cap gone)
  <2> HIDE DEF gone
  <2>1. PICK X : X = gone
    OBVIOUS
  <2>2. r = EvictAll(b, X)
    BY <1>1, <2>1
  <2>3. /\ Sound(r, t) /\ Entries(r) = Entries(b) \ X
        /\ r.total \in Nat /\ b.total = r.total + Sum(b.bytes, Entries(b) \cap X)
    BY <2>2, EvictAllSound
  <2>4. \A x \in Entries(r) : r.completedAt[x] = b.completedAt[x]
    BY <2>2, <2>3, EvictAllKeeps
  <2> QED
    BY <2>1, <2>3, <2>4
<1>4. \A S \in SUBSET E : IsFiniteSet(S) /\ (\A x \in S : b.bytes[x] \in Nat) /\ Sum(b.bytes, S) \in Nat
  <2> HIDE DEF E
  <2>1. \A S \in SUBSET E : IsFiniteSet(S) /\ (\A x \in S : b.bytes[x] \in Nat)
    BY <1>2, FS_Subset
  <2> QED
    BY <2>1, SumOfRest
<1>5. CASE E \subseteq gone
  <2>1. E \cap gone = E
    BY <1>5
  <2> HIDE DEF E, gone
  <2>2. Sum(b.bytes, E) \in Nat /\ Sum(b.bytes, E) = r.total + Sum(b.bytes, E)
    BY <1>2, <1>3, <1>4, <2>1
  <2>3. r.total = 0
    BY <1>3, <2>2
  <2> QED
    BY <1>3, <2>3, ReplayBufferAssumption DEF E
<1>6. ASSUME NEW z \in E \ gone PROVE r.total <= MaxBytes
  <2> DEFINE Ages == {b.older[x] : x \in E \ gone}
  <2>1. Ages \subseteq FiniteSubsetsOf(E) /\ Ages # {}
    BY <1>2, <1>4 DEF FiniteSubsetsOf
  <2>2. PICK A \in Ages : \A B \in Ages : <<B, A>> \notin StrictSubsetOrdering(E)
    <3> HIDE DEF Ages
    <3> QED
      BY <2>1, FS_StrictSubsetOrderingWellFounded, WFMin
  <2>3. PICK x \in E \ gone : A = b.older[x]
    OBVIOUS
  <2>4. ASSUME NEW y \in b.older[x] PROVE y \in gone
    <3>1. y \in E /\ b.older[y] \subseteq b.older[x] /\ y \notin b.older[y] /\ b.older[x] \subseteq E
      BY <1>2, <2>3
    <3>2. b.older[y] # b.older[x]
      BY <3>1
    <3>3. <<b.older[y], A>> \in StrictSubsetOrdering(E)
      BY <2>3, <3>1, <3>2 DEF StrictSubsetOrdering
    <3>4. b.older[y] \notin Ages
      BY <2>2, <3>3
    <3> QED
      BY <3>1, <3>4
  <2>5. b.older[x] \subseteq E /\ (E \cap gone) \cap b.older[x] = b.older[x]
        /\ E \cap gone \in SUBSET E
    BY <1>2, <2>4
  <2>6. Sum(b.bytes, b.older[x]) + MaxBytes >= b.total
    <3>1. ~(Sum(b.bytes, b.older[x]) + MaxBytes < b.total)
      BY <2>3
    <3>2. b.total \in Nat /\ Sum(b.bytes, b.older[x]) \in Nat
      BY <1>2, <1>4, <2>5
    <3> QED
      BY <3>1, <3>2, ReplayBufferAssumption
  <2> HIDE DEF E, gone
  <2>7. Sum(b.bytes, E \cap gone) = Sum(b.bytes, (E \cap gone) \cap b.older[x])
                                    + Sum(b.bytes, (E \cap gone) \ b.older[x])
    <3>1. PICK S : S = E \cap gone
      OBVIOUS
    <3>2. PICK f, X : f = b.bytes /\ X = b.older[x]
      OBVIOUS
    <3>3. IsFiniteSet(S) /\ \A w \in S : f[w] \in Nat
      BY <1>4, <2>5, <3>1, <3>2
    <3>4. Sum(f, S) = Sum(f, S \cap X) + Sum(f, S \ X)
      <4> HIDE DEF Ages
      <4> QED
        BY <3>3, SumSplits
    <3> QED
      BY <3>1, <3>2, <3>4
  <2>8. (E \cap gone) \ b.older[x] \in SUBSET E
    OBVIOUS
  <2>9. PICK o \in Nat, rest \in Nat : o = Sum(b.bytes, b.older[x])
                                       /\ rest = Sum(b.bytes, (E \cap gone) \ b.older[x])
    BY <1>4, <2>5, <2>8
  <2>10. b.total = r.total + (o + rest) /\ o + MaxBytes >= b.total
    BY <1>3, <2>5, <2>6, <2>7, <2>9
  <2> QED
    BY <1>3, <2>10, ReplayBufferAssumption
<1> QED
  BY <1>3, <1>5, <1>6

\* Bytes are added to an entry and to the total alike.
LEMMA AddedSound ==
  ASSUME NEW e, NEW t, NEW x, NEW n, NEW f, NEW r, Sound(e, t), x \in Entries(e), n \in Nat,
         f \in [Entries(e) -> Nat], f[x] = e.bytes[x] + n,
         \A y \in Entries(e) \ {x} : f[y] = e.bytes[y],
         r.bytes = f, r.completedAt = e.completedAt, r.older = e.older, r.total = e.total + n,
         r = [bytes |-> r.bytes, completedAt |-> r.completedAt, older |-> r.older, total |-> r.total]
  PROVE  Sound(r, t) /\ Entries(r) = Entries(e) /\ r.completedAt = e.completedAt
<1> DEFINE E == Entries(e)
<1>1. /\ e.bytes \in [E -> Nat] /\ e.completedAt \in [E -> 0 .. t \cup {Never}]
      /\ e.older \in [E -> SUBSET E]
      /\ \A u, v \in E : /\ u # v => (u \in e.older[v] <=> v \notin e.older[u])
                         /\ u \in e.older[v] => u # v /\ e.older[u] \subseteq e.older[v]
      /\ IsFiniteSet(E) /\ e.total = Sum(e.bytes, E)
      /\ e = [bytes |-> e.bytes, completedAt |-> e.completedAt, older |-> e.older, total |-> e.total]
  BY BytesAreSums DEF Sound, BufferOK
<1>2. x \in E
  OBVIOUS
<1> HIDE DEF E
<1>3. f \in [E -> Nat] /\ f[x] = e.bytes[x] + n /\ \A y \in E \ {x} : f[y] = e.bytes[y]
  BY DEF E
<1>4. x \in E /\ e.bytes[x] \in Nat
  BY <1>1, <1>2
<1>5. /\ r.bytes = f /\ r.completedAt = e.completedAt /\ r.older = e.older /\ r.total = e.total + n
      /\ r = [bytes |-> r.bytes, completedAt |-> r.completedAt, older |-> r.older, total |-> r.total]
  OBVIOUS
<1>6. Entries(r) = E
  BY <1>3, <1>5 DEF Entries
<1>7. Sum(f, E) = Sum(e.bytes, E) + n
  <2>1. (\A y \in E : f[y] \in Nat) /\ (\A y \in E : e.bytes[y] \in Nat)
    BY <1>1, <1>3
  <2>2. Sum(f, E) = f[x] + Sum(f, E \ {x})
    BY <1>1, <1>4, <2>1, SumOfRest
  <2>3. Sum(e.bytes, E) = e.bytes[x] + Sum(e.bytes, E \ {x})
    BY <1>1, <1>4, <2>1, SumOfRest
  <2>4. IsFiniteSet(E \ {x})
    BY <1>1, FS_Subset
  <2>5. \A y \in E \ {x} : e.bytes[y] \in Nat /\ f[y] = e.bytes[y]
    BY <1>3, <2>1
  <2>6. Sum(e.bytes, E \ {x}) \in Nat
    BY <2>4, <2>5, SumOfRest
  <2>7. Sum(f, E \ {x}) = Sum(e.bytes, E \ {x})
    BY <2>4, <2>5, SumOfSame
  <2>8. PICK m \in Nat, o \in Nat : m = Sum(e.bytes, E \ {x}) /\ o = e.bytes[x]
    BY <1>4, <2>6
  <2>9. Sum(f, E) = (o + n) + m /\ Sum(e.bytes, E) = o + m
    BY <1>3, <2>2, <2>3, <2>7, <2>8
  <2> QED
    BY <2>9
<1>8. Sound(r, t)
  BY <1>1, <1>3, <1>5, <1>6, <1>7, BytesAreSums DEF Sound, BufferOK
<1> QED
  BY <1>5, <1>6, <1>8 DEF E

\* An entry is given the time of its completion.
LEMMA CompletedSound ==
  ASSUME NEW e, NEW t, NEW x, NEW f, NEW r, Sound(e, t), x \in Entries(e), t \in Nat,
         f \in [Entries(e) -> 0 .. t \cup {Never}], f[x] = t,
         \A y \in Entries(e) \ {x} : f[y] = e.completedAt[y],
         r.bytes = e.bytes, r.completedAt = f, r.older = e.older, r.total = e.total,
         r = [bytes |-> r.bytes, completedAt |-> r.completedAt, older |-> r.older, total |-> r.total]
  PROVE  /\ Sound(r, t) /\ Entries(r) = Entries(e) /\ r.total = e.total
         /\ r.completedAt[x] = t
         /\ \A y \in Entries(e) \ {x} : r.completedAt[y] = e.completedAt[y]
<1> DEFINE E == Entries(e)
<1>1. /\ e.bytes \in [E -> Nat] /\ e.completedAt \in [E -> 0 .. t \cup {Never}]
      /\ e.older \in [E -> SUBSET E]
      /\ \A u, v \in E : /\ u # v => (u \in e.older[v] <=> v \notin e.older[u])
                         /\ u \in e.older[v] => u # v /\ e.older[u] \subseteq e.older[v]
      /\ IsFiniteSet(E) /\ e.total = Bytes(e, E)
      /\ e = [bytes |-> e.bytes, completedAt |-> e.completedAt, older |-> e.older, total |-> e.total]
  BY DEF Sound, BufferOK
<1>2. x \in E
  OBVIOUS
<1> HIDE DEF E
<1>3. /\ f \in [E -> 0 .. t \cup {Never}]
      /\ f[x] = t
      /\ \A y \in E \ {x} : f[y] = e.completedAt[y]
  BY DEF E
<1>4. /\ r.bytes = e.bytes /\ r.completedAt = f /\ r.older = e.older /\ r.total = e.total
      /\ r = [bytes |-> r.bytes, completedAt |-> r.completedAt, older |-> r.older, total |-> r.total]
  OBVIOUS
<1>5. Entries(r) = E /\ Bytes(r, E) = Bytes(e, E)
  BY <1>4, BytesAreSums DEF Entries, E
<1>6. Sound(r, t)
  BY <1>1, <1>3, <1>4, <1>5 DEF Sound, BufferOK
<1> QED
  BY <1>3, <1>4, <1>5, <1>6 DEF E

\* The answer of an active run: whatever it evicts, what is left is within the limit.
LEMMA SettledSound ==
  ASSUME NEW b, NEW t, NEW x, NEW n, NEW r, Sound(b, t), t \in Nat, n \in Nat,
         x \in Entries(EvictExpired(b, t)), r = CompleteEntry(Publish(b, x, n, t), x, t)
  PROVE  /\ Sound(r, t) /\ Entries(r) \subseteq Entries(b)
         /\ \A y \in Entries(r) \ {x} : r.completedAt[y] = b.completedAt[y]
         /\ x \in Entries(r) => r.completedAt[x] # Never
         /\ r.total \in Nat /\ r.total <= MaxBytes
<1>1. PICK e : e = OpenEntry(b, x, t)
  OBVIOUS
<1>2. /\ Sound(e, t) /\ x \in Entries(e) /\ Entries(e) \subseteq Entries(b)
      /\ \A y \in Entries(e) : e.completedAt[y] = b.completedAt[y]
  <2>1. x \in Entries(b)
    BY EvictExpiredSound
  <2>2. /\ Sound(e, t) /\ x \in Entries(e) /\ Entries(e) \subseteq Entries(b) \cup {x}
        /\ \A y \in Entries(e) \cap Entries(b) : e.completedAt[y] = b.completedAt[y]
    BY <1>1, OpenEntrySound
  <2> QED
    BY <2>1, <2>2
<1>3. PICK a : a = [e EXCEPT !.bytes[x] = @ + n, !.total = @ + n]
  OBVIOUS
<1>4. Sound(a, t) /\ Entries(a) = Entries(e) /\ a.completedAt = e.completedAt
  <2>1. PICK f : f = [e.bytes EXCEPT ![x] = @ + n]
    OBVIOUS
  <2>2. e = [bytes |-> e.bytes, completedAt |-> e.completedAt, older |-> e.older, total |-> e.total]
    BY <1>2 DEF Sound
  <2>3. a = [bytes |-> f, completedAt |-> e.completedAt, older |-> e.older, total |-> e.total + n]
    BY <1>3, <2>1, <2>2
  <2>4. /\ a.bytes = f /\ a.completedAt = e.completedAt /\ a.older = e.older /\ a.total = e.total + n
        /\ a = [bytes |-> a.bytes, completedAt |-> a.completedAt, older |-> a.older, total |-> a.total]
    BY <2>3
  <2>5. e.bytes \in [Entries(e) -> Nat]
    BY <1>2 DEF Sound, BufferOK
  <2>6. f \in [Entries(e) -> Nat] /\ f[x] = e.bytes[x] + n
        /\ \A y \in Entries(e) \ {x} : f[y] = e.bytes[y]
    BY <1>2, <2>1, <2>5
  <2> QED
    BY <1>2, <2>4, <2>6, AddedSound
<1>5. PICK d : d = Touch(a, x)
  OBVIOUS
<1>6. Sound(d, t) /\ Entries(d) = Entries(a) /\ d.completedAt = a.completedAt
  BY <1>4, <1>5, TouchSound
<1>7. PICK p : p = EnforceLimit(d)
  OBVIOUS
<1>8. /\ Sound(p, t) /\ Entries(p) \subseteq Entries(d)
      /\ \A y \in Entries(p) : p.completedAt[y] = d.completedAt[y]
      /\ p.total \in Nat /\ p.total <= MaxBytes
  BY <1>6, <1>7, EnforceLimitSound
<1>9. PICK q : q = EvictExpired(p, t)
  OBVIOUS
<1>10. /\ Sound(q, t) /\ Entries(q) \subseteq Entries(p)
       /\ \A y \in Entries(q) : q.completedAt[y] = p.completedAt[y]
       /\ q.total \in Nat /\ q.total <= p.total
  BY <1>8, <1>9, EvictExpiredSound
<1>11. /\ Entries(q) \subseteq Entries(b)
       /\ \A y \in Entries(q) : q.completedAt[y] = b.completedAt[y]
       /\ q.total \in Nat /\ q.total <= MaxBytes
  <2>1. Entries(q) \subseteq Entries(b) /\ \A y \in Entries(q) : q.completedAt[y] = b.completedAt[y]
    BY <1>2, <1>4, <1>6, <1>8, <1>10
  <2> QED
    BY <1>8, <1>10, <2>1, ReplayBufferAssumption
<1>12. r = IF x \in Entries(q) /\ q.completedAt[x] = Never
             THEN Touch([q EXCEPT !.completedAt[x] = t], x) ELSE q
  BY <1>1, <1>3, <1>5, <1>7, <1>9 DEF CompleteEntry, Publish
<1>13. CASE x \in Entries(q) /\ q.completedAt[x] = Never
  <2>1. PICK c : c = [q EXCEPT !.completedAt[x] = t]
    OBVIOUS
  <2>2. /\ Sound(c, t) /\ Entries(c) = Entries(q) /\ c.total = q.total
        /\ c.completedAt[x] = t
        /\ \A y \in Entries(q) \ {x} : c.completedAt[y] = q.completedAt[y]
    <3>1. PICK f : f = [q.completedAt EXCEPT ![x] = t]
      OBVIOUS
    <3>2. q = [bytes |-> q.bytes, completedAt |-> q.completedAt, older |-> q.older, total |-> q.total]
      BY <1>10 DEF Sound
    <3>3. c = [bytes |-> q.bytes, completedAt |-> f, older |-> q.older, total |-> q.total]
      BY <2>1, <3>1, <3>2
    <3>4. /\ c.bytes = q.bytes /\ c.completedAt = f /\ c.older = q.older /\ c.total = q.total
          /\ c = [bytes |-> c.bytes, completedAt |-> c.completedAt, older |-> c.older, total |-> c.total]
      BY <3>3
    <3>5. f \in [Entries(q) -> 0 .. t \cup {Never}] /\ f[x] = t
          /\ \A y \in Entries(q) \ {x} : f[y] = q.completedAt[y]
      <4>1. PICK T : T = 0 .. t \cup {Never}
        OBVIOUS
      <4>2. t \in T /\ q.completedAt \in [Entries(q) -> T]
        BY <1>10, <4>1 DEF Sound, BufferOK
      <4>3. f \in [Entries(q) -> T] /\ f[x] = t /\ \A y \in Entries(q) \ {x} : f[y] = q.completedAt[y]
        BY <1>13, <3>1, <4>2
      <4> QED
        BY <4>1, <4>3
    <3> QED
      BY <1>10, <1>13, <3>4, <3>5, CompletedSound
  <2>3. Sound(r, t) /\ Entries(r) = Entries(c) /\ r.completedAt = c.completedAt /\ r.total = c.total
    <3>1. r = Touch(c, x)
      BY <1>12, <1>13, <2>1
    <3> QED
      BY <2>2, <3>1, TouchSound
  <2>4. r.completedAt[x] # Never
    BY <2>2, <2>3, ReplayBufferAssumption
  <2> QED
    BY <1>11, <2>2, <2>3, <2>4
<1>14. CASE ~(x \in Entries(q) /\ q.completedAt[x] = Never)
  <2>1. r = q
    BY <1>12, <1>14
  <2> QED
    BY <1>10, <1>11, <1>14, <2>1
<1> QED
  BY <1>13, <1>14

\* available() takes only what has expired.
LEMMA LookedSound ==
  ASSUME NEW b, NEW t, NEW x, NEW r, Sound(b, t), r = Looked(b, x, t)
  PROVE  /\ Sound(r, t) /\ Entries(r) = Entries(EvictExpired(b, t))
         /\ Entries(r) \subseteq Entries(b)
         /\ \A y \in Entries(b) : b.completedAt[y] = Never => y \in Entries(r)
         /\ \A y \in Entries(r) : r.completedAt[y] = b.completedAt[y]
         /\ r.total \in Nat /\ b.total \in Nat /\ r.total <= b.total
<1>1. PICK e : e = EvictExpired(b, t)
  OBVIOUS
<1>2. /\ Sound(e, t) /\ Entries(e) \subseteq Entries(b)
      /\ \A y \in Entries(b) : b.completedAt[y] = Never => y \in Entries(e)
      /\ \A y \in Entries(e) : e.completedAt[y] = b.completedAt[y]
      /\ e.total \in Nat /\ b.total \in Nat /\ e.total <= b.total
  BY <1>1, EvictExpiredSound
<1>3. r = Touch(e, x)
  BY <1>1 DEF Looked
<1>4. Sound(r, t) /\ Entries(r) = Entries(e) /\ r.completedAt = e.completedAt /\ r.total = e.total
  BY <1>2, <1>3, TouchSound
<1> QED
  BY <1>1, <1>2, <1>4

\* Books stay right while the clock runs.
LEMMA LaterSound ==
  ASSUME NEW b, NEW t, Sound(b, t), t \in Nat
  PROVE  Sound(b, t + 1)
<1>1. 0 .. t \subseteq 0 .. (t + 1)
  OBVIOUS
<1>2. b.completedAt \in [Entries(b) -> 0 .. (t + 1) \cup {Never}]
  BY <1>1 DEF Sound, BufferOK
<1> QED
  BY <1>2 DEF Sound, BufferOK

\* The buffer of a new process is in order.
LEMMA EmptySound ==
  ASSUME NEW t PROVE Sound(EmptyBuffer, t) /\ Entries(EmptyBuffer) = {} /\ EmptyBuffer.total = 0
<1>1. Entries(EmptyBuffer) = {}
  BY DEF Entries, EmptyBuffer
<1>2. Bytes(EmptyBuffer, {}) = 0
  BY BytesAreSums, SumOfNothing
<1>3. BufferOK(EmptyBuffer, t)
  BY <1>1 DEF BufferOK, EmptyBuffer
<1> QED
  BY <1>1, <1>2, <1>3, FS_EmptySet DEF Sound, EmptyBuffer

-----------------------------------------------------------------------------
(* The inductive invariant.                                                *)

Phases == Answers \cup {"new", "owner", "answering", "waiting"}

Typed ==
  /\ keys \in [DOMAIN keys -> KeyRow] /\ DOMAIN keys \subseteq Digests
  /\ asked \in [DOMAIN asked -> [key : Digests, body : Bodies]]
  /\ DOMAIN asked = {c \in Calls : phase[c] # "new"}
  /\ phase \in [Calls -> Phases]
  /\ source \in [Calls -> Calls \cup {NoCall}]
  /\ now \in 0 .. MaxTime

BooksOK ==
  /\ Sound(buffer, now)
  /\ Entries(buffer) \subseteq Calls
  /\ buffer.total \in Nat /\ buffer.total <= MaxBytes

\* The row of a key is that of the run that owns it, is active until that run settles
\* it, and its client is there.
KeysOK ==
  \A k \in DOMAIN keys :
    /\ HasRow(k[1])
    /\ keys[k].run \in Calls
    /\ phase[keys[k].run] \in {"owner", "answering", "settled", "unfinished"}
    /\ asked[keys[k].run].key = k /\ asked[keys[k].run].body = keys[k].body
    /\ keys[k].status = "active" <=> phase[keys[k].run] # "settled"

\* An owner keeps its key, which does not expire before it settles, unless its client
\* was deleted; only then it settles in vain.
OwnersOK ==
  \A c \in Calls :
    /\ phase[c] = "owner" => HasRow(asked[c].key[1])
    /\ Unsettled(c) =>
         \/ clients[asked[c].key[1]] = "deleted"
         \/ /\ asked[c].key \in DOMAIN keys
            /\ keys[asked[c].key].run = c /\ keys[asked[c].key].expires > now
    /\ phase[c] = "lost" => clients[asked[c].key[1]] = "deleted"

\* The buffer has an entry for owners only, which is completed when they settle.
EntriesOK ==
  \A x \in Entries(buffer) :
    /\ phase[x] \in {"owner", "answering", "settled", "lost"}
    /\ buffer.completedAt[x] = Never <=> phase[x] # "settled"

\* Whoever waits has a source with an entry, which asked the same and has not settled.
WaitersOK ==
  \A c \in Calls : phase[c] = "waiting" =>
    /\ source[c] \in Entries(buffer) /\ phase[source[c]] # "settled"
    /\ asked[source[c]] = asked[c]

AnswersOK ==
  \A c \in Calls : phase[c] = "replayed" =>
    /\ source[c] \in Calls /\ phase[source[c]] = "settled"
    /\ asked[source[c]] = asked[c]

CredentialsOK ==
  /\ AccessOK
  /\ \A r \in Credentials : credentials[r] # Unissued => HasRow(credentials[r].client)
  /\ \A r, s \in Credentials :
       credentials[s].from # Nobody =>
         /\ credentials[r].from = credentials[s].from => r = s
         /\ credentials[credentials[s].from].revoked
         /\ credentials[credentials[s].from].client = credentials[s].client

IInv ==
  /\ Typed /\ BooksOK /\ KeysOK /\ OwnersOK /\ EntriesOK /\ WaitersOK
  /\ AnswersOK /\ CredentialsOK

\* An operation that lost expired entries at most.
OnlyExpired ==
  /\ Sound(buffer', now)
  /\ Entries(buffer') \subseteq Entries(buffer)
  /\ \A x \in Entries(buffer) : buffer.completedAt[x] = Never => x \in Entries(buffer')
  /\ \A x \in Entries(buffer') : buffer'.completedAt[x] = buffer.completedAt[x]
  /\ buffer'.total \in Nat /\ buffer'.total <= MaxBytes

\* What a request finds, and what it writes whatever is decided.
LEMMA Begun ==
  ASSUME IInv, NEW c \in Calls, NEW r \in Credentials, NEW key \in Keys, NEW body \in Bodies,
         NEW k, k = <<credentials[r].client, key>>,
         phase[c] = "new", Authenticates(r), Asks(c, k, body)
  PROVE  /\ k \in Digests /\ k[1] \in Clients /\ clients[k[1]] = "active"
         /\ c \notin DOMAIN asked /\ c \notin Entries(buffer)
         /\ \A q \in DOMAIN keys : keys[q].run # c
         /\ \A d \in Calls : phase[d] = "waiting" => source[d] # c
         /\ \A d \in Calls : phase[d] = "replayed" => source[d] # c
         /\ DOMAIN asked' = DOMAIN asked \cup {c}
         /\ asked' \in [DOMAIN asked' -> [key : Digests, body : Bodies]]
         /\ asked'[c] = [key |-> k, body |-> body]
         /\ \A d \in DOMAIN asked : asked'[d] = asked[d]
<1>1. credentials[r] \in Credential /\ credentials[r] # Unissued
      /\ clients[credentials[r].client] = "active"
  BY DEF IInv, CredentialsOK, AccessOK, Authenticates
<1>2. credentials[r].client \in Clients
  BY <1>1 DEF Credential
<1>3. k \in Digests /\ k[1] = credentials[r].client
  BY <1>2 DEF Digests
<1>4. c \notin DOMAIN asked
  BY DEF IInv, Typed
<1>5. c \notin Entries(buffer)
  BY DEF IInv, EntriesOK
<1>6. \A q \in DOMAIN keys : keys[q].run # c
  BY DEF IInv, KeysOK
<1>7. /\ \A d \in Calls : phase[d] = "waiting" => source[d] # c
      /\ \A d \in Calls : phase[d] = "replayed" => source[d] # c
  BY <1>5 DEF IInv, WaitersOK, AnswersOK
<1>8. /\ DOMAIN asked' = DOMAIN asked \cup {c}
      /\ asked'[c] = [key |-> k, body |-> body]
      /\ \A d \in DOMAIN asked : asked'[d] = asked[d]
  <2>1. PICK v : v = [key |-> k, body |-> body]
    OBVIOUS
  <2>2. asked' = With(asked, c, v)
    BY <2>1 DEF Asks
  <2>3. /\ DOMAIN asked' = DOMAIN asked \cup {c} /\ asked'[c] = v
        /\ \A d \in DOMAIN asked : d # c => asked'[d] = asked[d]
    BY <2>2 DEF With
  <2> QED
    BY <1>4, <2>1, <2>3
<1>9. asked' \in [DOMAIN asked' -> [key : Digests, body : Bodies]]
  <2>1. [key |-> k, body |-> body] \in [key : Digests, body : Bodies]
    BY <1>3
  <2>2. asked \in [DOMAIN asked -> [key : Digests, body : Bodies]]
    BY DEF IInv, Typed
  <2>3. PICK R : R = [key : Digests, body : Bodies]
    OBVIOUS
  <2> QED
    BY <1>3, <1>4, <2>1, <2>2, <2>3 DEF Asks, With
<1> QED
  BY <1>1, <1>2, <1>3, <1>4, <1>5, <1>6, <1>7, <1>8, <1>9

\* Sweeps, the clock and every call leave the books right that lose expired entries only.
LEMMA ExpiredKeepsBooks ==
  ASSUME IInv, OnlyExpired, now' = now
  PROVE  /\ BooksOK'
         /\ \A x \in Entries(buffer') :
              /\ x \in Calls /\ phase[x] \in {"owner", "answering", "settled", "lost"}
              /\ buffer'.completedAt[x] = Never <=> phase[x] # "settled"
         /\ \A d \in Calls : phase[d] = "waiting" => source[d] \in Entries(buffer')
<1>1. BooksOK'
  BY DEF IInv, BooksOK, OnlyExpired
<1>2. ASSUME NEW x \in Entries(buffer')
      PROVE  /\ x \in Calls /\ phase[x] \in {"owner", "answering", "settled", "lost"}
             /\ buffer'.completedAt[x] = Never <=> phase[x] # "settled"
  BY DEF IInv, BooksOK, EntriesOK, OnlyExpired
<1>3. ASSUME NEW d \in Calls, phase[d] = "waiting" PROVE source[d] \in Entries(buffer')
  <2>1. source[d] \in Entries(buffer) /\ phase[source[d]] # "settled"
    BY <1>3 DEF IInv, WaitersOK
  <2>2. buffer.completedAt[source[d]] = Never
    BY <2>1 DEF IInv, EntriesOK
  <2> QED
    BY <2>1, <2>2 DEF OnlyExpired
<1> QED
  BY <1>1, <1>2, <1>3

\* What an operation that only reads takes from the buffer had been completed long ago.
LEMMA ExpiryIsExpired ==
  ASSUME IInv, NEW x, buffer' \in {EvictExpired(buffer, now), Looked(buffer, x, now)}
  PROVE  OnlyExpired
<1>1. Sound(buffer, now) /\ buffer.total \in Nat /\ buffer.total <= MaxBytes
  BY DEF IInv, BooksOK
<1>2. CASE buffer' = EvictExpired(buffer, now)
  <2>1. /\ Sound(buffer', now) /\ Entries(buffer') \subseteq Entries(buffer)
        /\ \A y \in Entries(buffer) : buffer.completedAt[y] = Never => y \in Entries(buffer')
        /\ \A y \in Entries(buffer') : buffer'.completedAt[y] = buffer.completedAt[y]
        /\ buffer'.total \in Nat /\ buffer'.total <= buffer.total
    BY <1>1, <1>2, EvictExpiredSound
  <2> QED
    BY <1>1, <2>1, ReplayBufferAssumption DEF OnlyExpired
<1>3. CASE buffer' = Looked(buffer, x, now)
  <2>1. /\ Sound(buffer', now) /\ Entries(buffer') \subseteq Entries(buffer)
        /\ \A y \in Entries(buffer) : buffer.completedAt[y] = Never => y \in Entries(buffer')
        /\ \A y \in Entries(buffer') : buffer'.completedAt[y] = buffer.completedAt[y]
        /\ buffer'.total \in Nat /\ buffer'.total <= buffer.total
    BY <1>1, <1>3, LookedSound
  <2> QED
    BY <1>1, <2>1, ReplayBufferAssumption DEF OnlyExpired
<1> QED
  BY <1>2, <1>3

-----------------------------------------------------------------------------
(* Steps.                                                                  *)

\* A request that is answered at once or waits: what its source is follows from "how".
LEMMA AnsweredStep ==
  ASSUME IInv, NEW c \in Calls, NEW r \in Credentials, NEW key \in Keys, NEW body \in Bodies,
         NEW k, k = <<credentials[r].client, key>>,
         phase[c] = "new", Authenticates(r), Asks(c, k, body),
         NEW how, NEW s \in Calls \cup {NoCall}, OnlyExpired,
         phase' = [phase EXCEPT ![c] = how], source' = [source EXCEPT ![c] = s],
         keys' = keys, now' = now, UNCHANGED accessVars,
         \/ how \in {"conflict", "unavailable"}
         \/ /\ how = "waiting" /\ s \in Entries(buffer') /\ phase[s] # "settled"
            /\ asked[s] = [key |-> k, body |-> body]
         \/ /\ how = "replayed" /\ s \in Calls /\ phase[s] = "settled"
            /\ asked[s] = [key |-> k, body |-> body]
  PROVE  IInv'
<1>1. /\ c \notin DOMAIN asked /\ c \notin Entries(buffer)
      /\ \A q \in DOMAIN keys : keys[q].run # c
      /\ \A d \in Calls : phase[d] = "waiting" => source[d] # c
      /\ \A d \in Calls : phase[d] = "replayed" => source[d] # c
      /\ DOMAIN asked' = DOMAIN asked \cup {c}
      /\ asked' \in [DOMAIN asked' -> [key : Digests, body : Bodies]]
      /\ asked'[c] = [key |-> k, body |-> body]
      /\ \A d \in DOMAIN asked : asked'[d] = asked[d]
  BY Begun
<1>2. how \in {"conflict", "unavailable", "waiting", "replayed"}
  OBVIOUS
<1>3. /\ phase'[c] = how /\ \A d \in Calls : d # c => phase'[d] = phase[d]
      /\ source'[c] = s /\ \A d \in Calls : d # c => source'[d] = source[d]
      /\ phase' \in [Calls -> Phases] /\ source' \in [Calls -> Calls \cup {NoCall}]
  BY <1>2 DEF IInv, Typed, Phases, Answers
<1>4. /\ clients' = clients /\ credentials' = credentials /\ acts' = acts
  BY DEF accessVars
<1>5. /\ BooksOK'
      /\ \A x \in Entries(buffer') :
           /\ x \in Calls /\ phase[x] \in {"owner", "answering", "settled", "lost"}
           /\ buffer'.completedAt[x] = Never <=> phase[x] # "settled"
      /\ \A d \in Calls : phase[d] = "waiting" => source[d] \in Entries(buffer')
  BY ExpiredKeepsBooks
<1>6. \A d \in Calls : d \in DOMAIN asked <=> phase[d] # "new"
  BY DEF IInv, Typed
<1>7. Typed'
  <2>1. DOMAIN asked' = {d \in Calls : phase'[d] # "new"}
    BY <1>1, <1>2, <1>3, <1>6 DEF IInv, Typed
  <2> QED
    BY <1>1, <1>3, <2>1 DEF IInv, Typed
<1>8. KeysOK'
  <2> SUFFICES ASSUME NEW q \in DOMAIN keys
               PROVE  /\ HasRow(q[1])' /\ keys[q].run \in Calls
                      /\ phase'[keys[q].run] \in {"owner", "answering", "settled", "unfinished"}
                      /\ asked'[keys[q].run].key = q /\ asked'[keys[q].run].body = keys[q].body
                      /\ keys[q].status = "active" <=> phase'[keys[q].run] # "settled"
    BY DEF KeysOK
  <2>1. /\ HasRow(q[1]) /\ keys[q].run \in Calls
        /\ phase[keys[q].run] \in {"owner", "answering", "settled", "unfinished"}
        /\ asked[keys[q].run].key = q /\ asked[keys[q].run].body = keys[q].body
        /\ keys[q].status = "active" <=> phase[keys[q].run] # "settled"
    BY DEF IInv, KeysOK
  <2>2. phase'[keys[q].run] = phase[keys[q].run] /\ asked'[keys[q].run] = asked[keys[q].run]
    BY <1>1, <1>3, <1>6, <2>1
  <2> QED
    BY <1>4, <2>1, <2>2 DEF HasRow
<1>9. OwnersOK'
  <2> SUFFICES ASSUME NEW d \in Calls
               PROVE  /\ phase'[d] = "owner" => HasRow(asked[d].key[1])'
                      /\ Unsettled(d)' =>
                           \/ clients'[asked'[d].key[1]] = "deleted"
                           \/ /\ asked'[d].key \in DOMAIN keys'
                              /\ keys'[asked'[d].key].run = d /\ keys'[asked'[d].key].expires > now'
                      /\ phase'[d] = "lost" => clients'[asked'[d].key[1]] = "deleted"
    BY DEF OwnersOK
  <2>1. CASE d = c
    BY <1>2, <1>3, <2>1 DEF Unsettled
  <2>2. CASE d # c /\ phase[d] # "new"
    <3>1. phase'[d] = phase[d] /\ asked'[d] = asked[d]
      BY <1>1, <1>3, <1>6, <2>2
    <3>2. /\ phase[d] = "owner" => HasRow(asked[d].key[1])
          /\ Unsettled(d) =>
               \/ clients[asked[d].key[1]] = "deleted"
               \/ /\ asked[d].key \in DOMAIN keys
                  /\ keys[asked[d].key].run = d /\ keys[asked[d].key].expires > now
          /\ phase[d] = "lost" => clients[asked[d].key[1]] = "deleted"
      BY DEF IInv, OwnersOK
    <3> QED
      BY <1>4, <3>1, <3>2 DEF Unsettled, HasRow
  <2>3. CASE d # c /\ phase[d] = "new"
    BY <1>3, <2>3 DEF Unsettled
  <2> QED
    BY <2>1, <2>2, <2>3
<1>10. EntriesOK'
  <2>1. c \notin Entries(buffer')
    BY <1>5
  <2> QED
    BY <1>3, <1>5, <2>1 DEF EntriesOK
<1>11. WaitersOK'
  <2> SUFFICES ASSUME NEW d \in Calls, phase'[d] = "waiting"
               PROVE  /\ source'[d] \in Entries(buffer') /\ phase'[source'[d]] # "settled"
                      /\ asked'[source'[d]] = asked'[d]
    BY DEF WaitersOK
  <2>1. CASE d = c
    <3>1. s \in Entries(buffer') /\ phase[s] # "settled" /\ asked[s] = [key |-> k, body |-> body]
      BY <1>3, <2>1
    <3>2. s # c /\ s \in Calls /\ s \in DOMAIN asked
      BY <1>5, <1>6, <3>1
    <3> QED
      BY <1>1, <1>3, <2>1, <3>1, <3>2
  <2>2. CASE d # c
    <3>1. phase[d] = "waiting" /\ source'[d] = source[d] /\ source[d] # c
      BY <1>1, <1>3, <2>2
    <3>2. source[d] \in Entries(buffer) /\ phase[source[d]] # "settled" /\ asked[source[d]] = asked[d]
      BY <3>1 DEF IInv, WaitersOK
    <3>3. source[d] \in Entries(buffer') /\ source[d] \in Calls /\ source[d] \in DOMAIN asked
          /\ d \in DOMAIN asked
      BY <1>5, <1>6, <3>1
    <3> QED
      BY <1>1, <1>3, <3>1, <3>2, <3>3
  <2> QED
    BY <2>1, <2>2
<1>12. AnswersOK'
  <2> SUFFICES ASSUME NEW d \in Calls, phase'[d] = "replayed"
               PROVE  /\ source'[d] \in Calls /\ phase'[source'[d]] = "settled"
                      /\ asked'[source'[d]] = asked'[d]
    BY DEF AnswersOK
  <2>1. CASE d = c
    <3>1. s \in Calls /\ phase[s] = "settled" /\ asked[s] = [key |-> k, body |-> body]
      BY <1>3, <2>1
    <3>2. s # c /\ s \in DOMAIN asked
      BY <1>6, <3>1
    <3> QED
      BY <1>1, <1>3, <2>1, <3>1, <3>2
  <2>2. CASE d # c
    <3>1. phase[d] = "replayed" /\ source'[d] = source[d] /\ source[d] # c
      BY <1>1, <1>3, <2>2
    <3>2. source[d] \in Calls /\ phase[source[d]] = "settled" /\ asked[source[d]] = asked[d]
      BY <3>1 DEF IInv, AnswersOK
    <3>3. source[d] \in DOMAIN asked /\ d \in DOMAIN asked
      BY <1>6, <3>1, <3>2
    <3> QED
      BY <1>1, <1>3, <3>1, <3>2, <3>3
  <2> QED
    BY <2>1, <2>2
<1>13. CredentialsOK'
  BY <1>4 DEF IInv, CredentialsOK, AccessOK, HasRow
<1> QED
  BY <1>5, <1>7, <1>8, <1>9, <1>10, <1>11, <1>12, <1>13 DEF IInv

\* The new owner's key was nobody's, or that of a run that does not need it any more.
LEMMA OwnStep ==
  ASSUME IInv, NEW c \in Calls, NEW r \in Credentials, NEW key \in Keys, NEW body \in Bodies,
         NEW k, k = <<credentials[r].client, key>>,
         phase[c] = "new", Authenticates(r), Asks(c, k, body),
         Own(c, k, body), now' = now, UNCHANGED accessVars
  PROVE  IInv'
<1>1. /\ k \in Digests /\ k[1] \in Clients /\ clients[k[1]] = "active"
      /\ c \notin DOMAIN asked /\ c \notin Entries(buffer)
      /\ \A q \in DOMAIN keys : keys[q].run # c
      /\ \A d \in Calls : phase[d] = "waiting" => source[d] # c
      /\ \A d \in Calls : phase[d] = "replayed" => source[d] # c
      /\ DOMAIN asked' = DOMAIN asked \cup {c}
      /\ asked' \in [DOMAIN asked' -> [key : Digests, body : Bodies]]
      /\ asked'[c] = [key |-> k, body |-> body]
      /\ \A d \in DOMAIN asked : asked'[d] = asked[d]
  BY Begun
<1>2. /\ phase'[c] = "owner" /\ \A d \in Calls : d # c => phase'[d] = phase[d]
      /\ phase' \in [Calls -> Phases] /\ source' = source
  BY DEF Own, IInv, Typed, Phases, Answers
<1>3. clients' = clients /\ credentials' = credentials /\ acts' = acts
  BY DEF accessVars
<1>4. now \in Nat /\ now <= MaxTime /\ KeyTTL \in Nat \ {0} /\ MaxTime \in Nat
  BY IdempotencyAssumption DEF IInv, Typed
<1>5. PICK row : row = [body |-> body, run |-> c, status |-> "active", expires |-> now + KeyTTL]
  OBVIOUS
<1>6. row \in KeyRow
  <2>1. now + KeyTTL \in 0 .. MaxTime + KeyTTL
    BY <1>4
  <2> QED
    BY <1>5, <2>1 DEF KeyRow
<1>7. keys' = With(keys, k, row)
  BY <1>5 DEF Own
<1>8. /\ DOMAIN keys' = DOMAIN keys \cup {k} /\ keys'[k] = row
      /\ \A q \in DOMAIN keys : q # k => keys'[q] = keys[q]
  BY <1>7 DEF With
<1>9. keys' \in [DOMAIN keys' -> KeyRow] /\ DOMAIN keys' \subseteq Digests
  BY <1>1, <1>6, <1>7 DEF With, IInv, Typed
<1>10. \A d \in Calls : d \in DOMAIN asked <=> phase[d] # "new"
  BY DEF IInv, Typed
<1>11. /\ Sound(buffer', now) /\ c \in Entries(buffer') /\ Entries(buffer') \subseteq Entries(buffer) \cup {c}
       /\ buffer'.completedAt[c] = Never
       /\ \A y \in Entries(buffer) : buffer.completedAt[y] = Never => y \in Entries(buffer')
       /\ \A y \in Entries(buffer') \ {c} : buffer'.completedAt[y] = buffer.completedAt[y]
       /\ buffer'.total \in Nat /\ buffer'.total <= MaxBytes
  <2>1. Sound(buffer, now) /\ buffer.total \in Nat /\ buffer.total <= MaxBytes
    BY DEF IInv, BooksOK
  <2>2. c \notin Entries(EvictExpired(buffer, now))
    BY <1>1, <2>1, EvictExpiredSound
  <2>3. buffer' = OpenEntry(buffer, c, now)
    BY DEF Own
  <2>4. /\ Sound(buffer', now) /\ c \in Entries(buffer') /\ Entries(buffer') \subseteq Entries(buffer) \cup {c}
        /\ buffer'.completedAt[c] = Never
        /\ \A y \in Entries(buffer) : buffer.completedAt[y] = Never => y \in Entries(buffer')
        /\ \A y \in Entries(buffer') \cap Entries(buffer) :
             buffer'.completedAt[y] = buffer.completedAt[y] \/ y = c
        /\ buffer'.total \in Nat /\ buffer'.total <= buffer.total
    BY <2>1, <2>2, <2>3, OpenEntrySound
  <2>5. buffer'.total <= MaxBytes
    BY <2>1, <2>4, ReplayBufferAssumption
  <2>6. \A y \in Entries(buffer') \ {c} : buffer'.completedAt[y] = buffer.completedAt[y]
    BY <2>4
  <2> QED
    BY <2>4, <2>5, <2>6
<1>12. Typed'
  <2>1. DOMAIN asked' = {d \in Calls : phase'[d] # "new"}
    BY <1>1, <1>2, <1>10 DEF IInv, Typed
  <2> QED
    BY <1>1, <1>2, <1>9, <2>1 DEF IInv, Typed
<1>13. BooksOK'
  <2>1. Entries(buffer') \subseteq Calls
    BY <1>11 DEF IInv, BooksOK
  <2> QED
    BY <1>11, <2>1 DEF BooksOK
<1>14. KeysOK'
  <2> SUFFICES ASSUME NEW q \in DOMAIN keys'
               PROVE  /\ HasRow(q[1])' /\ keys'[q].run \in Calls
                      /\ phase'[keys'[q].run] \in {"owner", "answering", "settled", "unfinished"}
                      /\ asked'[keys'[q].run].key = q /\ asked'[keys'[q].run].body = keys'[q].body
                      /\ keys'[q].status = "active" <=> phase'[keys'[q].run] # "settled"
    BY DEF KeysOK
  <2>1. CASE q = k
    <3>1. keys'[q] = row /\ row.run = c /\ row.body = body /\ row.status = "active"
      BY <1>5, <1>8, <2>1
    <3> QED
      BY <1>1, <1>2, <1>3, <2>1, <3>1 DEF HasRow
  <2>2. CASE q # k
    <3>1. /\ q \in DOMAIN keys /\ keys'[q] = keys[q]
          /\ HasRow(q[1]) /\ keys[q].run \in Calls
          /\ phase[keys[q].run] \in {"owner", "answering", "settled", "unfinished"}
          /\ asked[keys[q].run].key = q /\ asked[keys[q].run].body = keys[q].body
          /\ keys[q].status = "active" <=> phase[keys[q].run] # "settled"
      BY <1>8, <2>2 DEF IInv, KeysOK
    <3>2. phase'[keys[q].run] = phase[keys[q].run] /\ asked'[keys[q].run] = asked[keys[q].run]
      BY <1>1, <1>2, <1>10, <3>1
    <3> QED
      BY <1>3, <3>1, <3>2 DEF HasRow
  <2> QED
    BY <2>1, <2>2
<1>15. OwnersOK'
  <2> SUFFICES ASSUME NEW d \in Calls
               PROVE  /\ phase'[d] = "owner" => HasRow(asked[d].key[1])'
                      /\ Unsettled(d)' =>
                           \/ clients'[asked'[d].key[1]] = "deleted"
                           \/ /\ asked'[d].key \in DOMAIN keys'
                              /\ keys'[asked'[d].key].run = d /\ keys'[asked'[d].key].expires > now'
                      /\ phase'[d] = "lost" => clients'[asked'[d].key[1]] = "deleted"
    BY DEF OwnersOK
  <2>1. CASE d = c
    <3>1. keys'[k].run = c /\ keys'[k].expires > now
      BY <1>4, <1>5, <1>8
    <3>2. HasRow(asked[d].key[1])'
      BY <1>1, <1>3, <2>1 DEF HasRow
    <3> QED
      BY <1>1, <1>2, <1>8, <2>1, <3>1, <3>2
  <2>2. CASE d # c /\ phase[d] # "new"
    <3>1. phase'[d] = phase[d] /\ asked'[d] = asked[d]
      BY <1>1, <1>2, <1>10, <2>2
    <3>2. /\ phase[d] = "owner" => HasRow(asked[d].key[1])
          /\ Unsettled(d) =>
               \/ clients[asked[d].key[1]] = "deleted"
               \/ /\ asked[d].key \in DOMAIN keys
                  /\ keys[asked[d].key].run = d /\ keys[asked[d].key].expires > now
          /\ phase[d] = "lost" => clients[asked[d].key[1]] = "deleted"
      BY DEF IInv, OwnersOK
    <3>3. ~(k \in DOMAIN keys /\ keys[k].expires > now)
      BY DEF Own, Held
    <3>4. asked[d].key \in DOMAIN keys /\ keys[asked[d].key].expires > now =>
            asked[d].key \in DOMAIN keys' /\ keys'[asked[d].key] = keys[asked[d].key]
      BY <1>8, <3>3
    <3> QED
      BY <1>3, <3>1, <3>2, <3>4 DEF Unsettled, HasRow
  <2>3. CASE d # c /\ phase[d] = "new"
    BY <1>2, <2>3 DEF Unsettled
  <2> QED
    BY <2>1, <2>2, <2>3
<1>16. EntriesOK'
  <2> SUFFICES ASSUME NEW x \in Entries(buffer')
               PROVE  /\ phase'[x] \in {"owner", "answering", "settled", "lost"}
                      /\ buffer'.completedAt[x] = Never <=> phase'[x] # "settled"
    BY DEF EntriesOK
  <2>1. CASE x = c
    BY <1>2, <1>11, <2>1
  <2>2. CASE x # c
    <3>1. x \in Entries(buffer) /\ x \in Calls /\ buffer'.completedAt[x] = buffer.completedAt[x]
      BY <1>11, <2>2 DEF IInv, BooksOK
    <3> QED
      BY <1>2, <2>2, <3>1 DEF IInv, EntriesOK
  <2> QED
    BY <2>1, <2>2
<1>17. WaitersOK'
  <2> SUFFICES ASSUME NEW d \in Calls, phase'[d] = "waiting"
               PROVE  /\ source[d] \in Entries(buffer') /\ phase'[source[d]] # "settled"
                      /\ asked'[source[d]] = asked'[d]
    BY <1>2 DEF WaitersOK
  <2>1. d # c /\ phase[d] = "waiting" /\ source[d] # c
    BY <1>1, <1>2
  <2>2. source[d] \in Entries(buffer) /\ phase[source[d]] # "settled" /\ asked[source[d]] = asked[d]
    BY <2>1 DEF IInv, WaitersOK
  <2>3. source[d] \in Calls /\ phase[source[d]] # "new" /\ buffer.completedAt[source[d]] = Never
    BY <2>2 DEF IInv, BooksOK, EntriesOK
  <2>4. source[d] \in Entries(buffer') /\ source[d] \in DOMAIN asked /\ d \in DOMAIN asked
    BY <1>10, <1>11, <2>1, <2>2, <2>3
  <2> QED
    BY <1>1, <1>2, <2>1, <2>2, <2>3, <2>4
<1>18. AnswersOK'
  <2> SUFFICES ASSUME NEW d \in Calls, phase'[d] = "replayed"
               PROVE  /\ source[d] \in Calls /\ phase'[source[d]] = "settled"
                      /\ asked'[source[d]] = asked'[d]
    BY <1>2 DEF AnswersOK
  <2>1. d # c /\ phase[d] = "replayed" /\ source[d] # c
    BY <1>1, <1>2
  <2>2. source[d] \in Calls /\ phase[source[d]] = "settled" /\ asked[source[d]] = asked[d]
    BY <2>1 DEF IInv, AnswersOK
  <2>3. source[d] \in DOMAIN asked /\ d \in DOMAIN asked
    BY <1>10, <2>1, <2>2
  <2> QED
    BY <1>1, <1>2, <2>1, <2>2, <2>3
<1>19. CredentialsOK'
  BY <1>3 DEF IInv, CredentialsOK, AccessOK, HasRow
<1> QED
  BY <1>12, <1>13, <1>14, <1>15, <1>16, <1>17, <1>18, <1>19 DEF IInv

\* begin() and attach(): a call becomes an owner or a duplicate, or is refused.
LEMMA BeginStep ==
  ASSUME IInv, NEW c \in Calls, NEW r \in Credentials, NEW key \in Keys, NEW body \in Bodies,
         Begin(c, r, key, body)
  PROVE  IInv'
<1>1. PICK k : k = <<credentials[r].client, key>>
  OBVIOUS
<1>2. /\ phase[c] = "new" /\ Authenticates(r) /\ Asks(c, k, body)
      /\ now' = now /\ UNCHANGED accessVars
      /\ Own(c, k, body) \/ Conflict(c, k, body) \/ Unavailable(c, k, body) \/ Attach(c, k, body)
  BY <1>1 DEF Begin
<1>3. CASE Own(c, k, body)
  BY <1>1, <1>2, <1>3, OwnStep
<1>4. source \in [Calls -> Calls \cup {NoCall}] /\ source[c] \in Calls \cup {NoCall}
      /\ source = [source EXCEPT ![c] = source[c]]
  BY DEF IInv, Typed
<1>5. CASE Conflict(c, k, body)
  <2>1. /\ phase' = [phase EXCEPT ![c] = "conflict"] /\ source' = source
        /\ keys' = keys /\ buffer' = buffer
    BY <1>5 DEF Conflict, Answer
  <2>2. OnlyExpired
    BY <2>1 DEF IInv, BooksOK, OnlyExpired
  <2> QED
    BY <1>1, <1>2, <1>4, <2>1, <2>2, AnsweredStep
<1>6. CASE Unavailable(c, k, body)
  <2>1. /\ phase' = [phase EXCEPT ![c] = "unavailable"] /\ source' = source
        /\ keys' = keys /\ buffer' = EvictExpired(buffer, now)
    BY <1>6 DEF Unavailable, Answer
  <2>2. OnlyExpired
    BY <2>1, ExpiryIsExpired
  <2> QED
    BY <1>1, <1>2, <1>4, <2>1, <2>2, AnsweredStep
<1>7. CASE Attach(c, k, body)
  <2>1. PICK x : x = keys[k].run
    OBVIOUS
  <2>2. PICK how : how = IF buffer'.completedAt[x] = Never THEN "waiting" ELSE "replayed"
    OBVIOUS
  <2>3. /\ phase' = [phase EXCEPT ![c] = how] /\ source' = [source EXCEPT ![c] = x]
        /\ keys' = keys /\ buffer' = Looked(buffer, x, now)
        /\ k \in DOMAIN keys /\ keys[k].body = body /\ x \in Entries(EvictExpired(buffer, now))
    BY <1>7, <2>1, <2>2 DEF Attach, Held, Available
  <2>4. OnlyExpired
    BY <2>3, ExpiryIsExpired
  <2>5. x \in Entries(buffer')
    BY <2>3, LookedSound DEF IInv, BooksOK
  <2>6. /\ x \in Calls /\ phase[x] \in {"owner", "answering", "settled", "unfinished"}
        /\ asked[x].key = k /\ asked[x].body = body
    BY <2>1, <2>3 DEF IInv, KeysOK
  <2>7. asked[x] = [key |-> k, body |-> body]
    <3>1. x \in DOMAIN asked /\ asked[x] \in [key : Digests, body : Bodies]
      BY <2>6 DEF IInv, Typed
    <3> QED
      BY <2>6, <3>1
  <2>8. buffer'.completedAt[x] = Never <=> phase[x] # "settled"
    BY <1>2, <2>4, <2>5, ExpiredKeepsBooks
  <2>9. \/ how = "waiting" /\ phase[x] # "settled"
        \/ how = "replayed" /\ phase[x] = "settled"
    BY <2>2, <2>8
  <2> QED
    BY <1>1, <1>2, <2>3, <2>4, <2>5, <2>6, <2>7, <2>9, AnsweredStep
<1> QED
  BY <1>2, <1>3, <1>5, <1>6, <1>7

\* Every duplicate that waited for the answer gets it or is told that it is gone, and so
\* is everybody whose entry made room for it.
LEMMA SettleStep ==
  ASSUME IInv, NEW c \in Calls, NEW status \in {"completed", "failed"}, NEW n \in Sizes,
         Settle(c, status, n)
  PROVE  IInv'
<1>1. PICK k : k = asked[c].key
  OBVIOUS
<1>2. /\ phase[c] \in {"owner", "answering"}
      /\ k \in DOMAIN keys /\ keys[k].run = c
      /\ keys' = [keys EXCEPT ![k].status = status]
      /\ asked' = asked /\ source' = source /\ now' = now
      /\ clients' = clients /\ credentials' = credentials /\ acts' = acts
  BY <1>1 DEF Settle, Unsettled, accessVars
<1>3. /\ Sound(buffer', now) /\ Entries(buffer') \subseteq Entries(buffer)
      /\ \A y \in Entries(buffer') \ {c} : buffer'.completedAt[y] = buffer.completedAt[y]
      /\ c \in Entries(buffer') => buffer'.completedAt[c] # Never
      /\ buffer'.total \in Nat /\ buffer'.total <= MaxBytes
  <2>1. /\ Sound(buffer, now) /\ buffer.total \in Nat /\ buffer.total <= MaxBytes
        /\ now \in Nat /\ n \in Nat
    BY IdempotencyAssumption DEF IInv, BooksOK, Typed
  <2>2. CASE c \in Entries(EvictExpired(buffer, now))
    <3>1. buffer' = CompleteEntry(Publish(buffer, c, n, now), c, now)
      BY <2>2 DEF Settle, Available
    <3> QED
      BY <2>1, <2>2, <3>1, SettledSound
  <2>3. CASE c \notin Entries(EvictExpired(buffer, now))
    <3>1. buffer' = EvictExpired(buffer, now)
      BY <2>3 DEF Settle, Available
    <3>2. /\ Sound(buffer', now) /\ Entries(buffer') \subseteq Entries(buffer)
          /\ \A y \in Entries(buffer') : buffer'.completedAt[y] = buffer.completedAt[y]
          /\ buffer'.total \in Nat /\ buffer'.total <= buffer.total
      BY <2>1, <3>1, EvictExpiredSound
    <3>3. c \notin Entries(buffer')
      BY <2>3, <3>1
    <3> QED
      BY <2>1, <3>2, <3>3, ReplayBufferAssumption
  <2> QED
    BY <2>2, <2>3
<1>4. PICK B : B = Entries(buffer')
  OBVIOUS
<1>5. PICK base : base = [d \in Calls |->
         CASE d = c -> "settled"
           [] d \in Waiting(c) /\ c \in B -> "replayed"
           [] OTHER -> phase[d]]
  OBVIOUS
<1>6. phase' = [d \in Calls |-> IF base[d] = "waiting" /\ source[d] \notin B THEN "unavailable" ELSE base[d]]
  BY <1>4, <1>5 DEF Settle, Wake
<1>7. /\ base[c] = "settled"
      /\ \A d \in Calls : d # c /\ ~(phase[d] = "waiting" /\ source[d] = c /\ c \in B)
                            => base[d] = phase[d]
      /\ \A d \in Calls : d # c /\ phase[d] = "waiting" /\ source[d] = c /\ c \in B
                            => base[d] = "replayed"
  <2>1. \A d \in Calls : d \in Waiting(c) <=> phase[d] = "waiting" /\ source[d] = c
    BY DEF Waiting
  <2>2. base[c] = "settled"
    <3>1. c \notin Waiting(c)
      BY <1>2, <2>1
    <3> QED
      BY <1>5, <3>1
  <2>3. ASSUME NEW d \in Calls, d # c, ~(d \in Waiting(c) /\ c \in B) PROVE base[d] = phase[d]
    BY <1>5, <2>3
  <2>4. ASSUME NEW d \in Calls, d # c, d \in Waiting(c), c \in B PROVE base[d] = "replayed"
    BY <1>5, <2>4
  <2> QED
    BY <2>1, <2>2, <2>3, <2>4
<1>8. phase'[c] = "settled"
  BY <1>6, <1>7
<1>9. \A d \in Calls : d # c /\ phase[d] # "waiting" => phase'[d] = phase[d]
  BY <1>6, <1>7
<1>10. \A d \in Calls : phase[d] = "waiting" =>
         \/ phase'[d] = "replayed" /\ source[d] = c
         \/ phase'[d] = "unavailable"
         \/ phase'[d] = "waiting" /\ source[d] \in Entries(buffer') /\ source[d] # c
  <2> TAKE d \in Calls
  <2> HAVE phase[d] = "waiting"
  <2>1. d # c
    BY <1>2
  <2>2. CASE source[d] = c /\ c \in B
    BY <1>6, <1>7, <2>1, <2>2
  <2>3. CASE source[d] # c \/ c \notin B
    <3>1. base[d] = "waiting"
      BY <1>7, <2>1, <2>3
    <3> QED
      BY <1>4, <1>6, <2>3, <3>1
  <2> QED
    BY <2>2, <2>3
<1>11. phase' \in [Calls -> Phases]
  <2>1. \A d \in Calls : phase'[d] \in Phases
    BY <1>8, <1>9, <1>10 DEF IInv, Typed, Phases, Answers
  <2> QED
    BY <1>6, <2>1
<1>12. keys \in [DOMAIN keys -> KeyRow] /\ DOMAIN keys \subseteq Digests
  BY DEF IInv, Typed
<1>13. /\ DOMAIN keys' = DOMAIN keys
       /\ \A q \in DOMAIN keys : q # k => keys'[q] = keys[q]
       /\ keys'[k].run = c /\ keys'[k].body = keys[k].body /\ keys'[k].status = status
       /\ keys'[k].expires = keys[k].expires
       /\ keys' \in [DOMAIN keys' -> KeyRow]
  <2>1. keys[k] \in KeyRow
    BY <1>2, <1>12
  <2>2. PICK row : row = [keys[k] EXCEPT !.status = status]
    OBVIOUS
  <2>3. row \in KeyRow /\ row.run = c /\ row.body = keys[k].body /\ row.status = status
        /\ row.expires = keys[k].expires
    BY <1>2, <2>1, <2>2 DEF KeyRow
  <2>4. keys' = [keys EXCEPT ![k] = row]
    BY <1>2, <2>2
  <2>5. /\ DOMAIN keys' = DOMAIN keys /\ keys'[k] = row
        /\ \A q \in DOMAIN keys : q # k => keys'[q] = keys[q]
        /\ keys' \in [DOMAIN keys' -> KeyRow]
    BY <1>2, <1>12, <2>3, <2>4
  <2> QED
    BY <2>3, <2>5
<1>14. \A d \in Calls : phase'[d] = "new" <=> phase[d] = "new"
  BY <1>2, <1>8, <1>9, <1>10
<1>15. Typed'
  <2>1. DOMAIN asked' = {d \in Calls : phase'[d] # "new"}
    BY <1>2, <1>14 DEF IInv, Typed
  <2> QED
    BY <1>2, <1>11, <1>12, <1>13, <2>1 DEF IInv, Typed
<1>16. BooksOK'
  <2>1. Entries(buffer') \subseteq Calls
    BY <1>3 DEF IInv, BooksOK
  <2> QED
    BY <1>2, <1>3, <2>1 DEF BooksOK
<1>17. KeysOK'
  <2> SUFFICES ASSUME NEW q \in DOMAIN keys
               PROVE  /\ HasRow(q[1])' /\ keys'[q].run \in Calls
                      /\ phase'[keys'[q].run] \in {"owner", "answering", "settled", "unfinished"}
                      /\ asked[keys'[q].run].key = q /\ asked[keys'[q].run].body = keys'[q].body
                      /\ keys'[q].status = "active" <=> phase'[keys'[q].run] # "settled"
    BY <1>2, <1>13 DEF KeysOK
  <2>1. /\ HasRow(q[1]) /\ keys[q].run \in Calls
        /\ phase[keys[q].run] \in {"owner", "answering", "settled", "unfinished"}
        /\ asked[keys[q].run].key = q /\ asked[keys[q].run].body = keys[q].body
        /\ keys[q].status = "active" <=> phase[keys[q].run] # "settled"
    BY DEF IInv, KeysOK
  <2>2. HasRow(q[1])'
    BY <1>2, <2>1 DEF HasRow
  <2>3. CASE q = k
    BY <1>1, <1>2, <1>8, <1>13, <2>1, <2>2, <2>3
  <2>4. CASE q # k
    <3>1. keys[q].run # c
      BY <1>1, <2>1, <2>4
    <3>2. phase'[keys[q].run] = phase[keys[q].run] /\ keys'[q] = keys[q]
      BY <1>9, <1>13, <2>1, <2>4, <3>1
    <3> QED
      BY <2>1, <2>2, <3>2
  <2> QED
    BY <2>3, <2>4
<1>18. OwnersOK'
  <2> SUFFICES ASSUME NEW d \in Calls
               PROVE  /\ phase'[d] = "owner" => HasRow(asked[d].key[1])'
                      /\ Unsettled(d)' =>
                           \/ clients[asked[d].key[1]] = "deleted"
                           \/ /\ asked[d].key \in DOMAIN keys'
                              /\ keys'[asked[d].key].run = d /\ keys'[asked[d].key].expires > now
                      /\ phase'[d] = "lost" => clients[asked[d].key[1]] = "deleted"
    BY <1>2 DEF OwnersOK
  <2>1. /\ phase[d] = "owner" => HasRow(asked[d].key[1])
        /\ Unsettled(d) =>
             \/ clients[asked[d].key[1]] = "deleted"
             \/ /\ asked[d].key \in DOMAIN keys
                /\ keys[asked[d].key].run = d /\ keys[asked[d].key].expires > now
        /\ phase[d] = "lost" => clients[asked[d].key[1]] = "deleted"
    BY DEF IInv, OwnersOK
  <2>2. CASE phase'[d] \in {"owner", "answering", "lost"}
    <3>1. d # c /\ phase[d] = phase'[d]
      BY <1>8, <1>9, <1>10, <2>2
    <3>2. \A q \in DOMAIN keys : keys'[q].run = keys[q].run /\ keys'[q].expires = keys[q].expires
      BY <1>2, <1>13
    <3> QED
      BY <1>2, <1>13, <2>1, <3>1, <3>2 DEF Unsettled, HasRow
  <2>3. CASE phase'[d] \notin {"owner", "answering", "lost"}
    BY <2>3 DEF Unsettled
  <2> QED
    BY <2>2, <2>3
<1>19. EntriesOK'
  <2> SUFFICES ASSUME NEW x \in Entries(buffer')
               PROVE  /\ phase'[x] \in {"owner", "answering", "settled", "lost"}
                      /\ buffer'.completedAt[x] = Never <=> phase'[x] # "settled"
    BY DEF EntriesOK
  <2>1. CASE x = c
    BY <1>3, <1>8, <2>1
  <2>2. CASE x # c
    <3>1. x \in Entries(buffer) /\ x \in Calls /\ buffer'.completedAt[x] = buffer.completedAt[x]
      BY <1>3, <2>2 DEF IInv, BooksOK
    <3>2. /\ phase[x] \in {"owner", "answering", "settled", "lost"}
          /\ buffer.completedAt[x] = Never <=> phase[x] # "settled"
      BY <3>1 DEF IInv, EntriesOK
    <3> QED
      BY <1>9, <2>2, <3>1, <3>2
  <2> QED
    BY <2>1, <2>2
<1>20. WaitersOK'
  <2> SUFFICES ASSUME NEW d \in Calls, phase'[d] = "waiting"
               PROVE  /\ source[d] \in Entries(buffer') /\ phase'[source[d]] # "settled"
                      /\ asked[source[d]] = asked[d]
    BY <1>2 DEF WaitersOK
  <2>1. phase[d] = "waiting"
    BY <1>8, <1>9
  <2>2. source[d] \in Entries(buffer') /\ source[d] # c
    BY <1>10, <2>1
  <2>3. source[d] \in Entries(buffer) /\ phase[source[d]] # "settled" /\ asked[source[d]] = asked[d]
    BY <2>1 DEF IInv, WaitersOK
  <2>4. source[d] \in Calls /\ phase[source[d]] # "waiting"
    BY <2>3 DEF IInv, BooksOK, EntriesOK
  <2> QED
    BY <1>9, <2>2, <2>3, <2>4
<1>21. AnswersOK'
  <2> SUFFICES ASSUME NEW d \in Calls, phase'[d] = "replayed"
               PROVE  /\ source[d] \in Calls /\ phase'[source[d]] = "settled"
                      /\ asked[source[d]] = asked[d]
    BY <1>2 DEF AnswersOK
  <2>1. CASE phase[d] = "waiting"
    <3>1. source[d] = c
      BY <1>10, <2>1
    <3>2. asked[source[d]] = asked[d]
      BY <2>1 DEF IInv, WaitersOK
    <3> QED
      BY <1>8, <3>1, <3>2
  <2>2. CASE phase[d] # "waiting"
    <3>1. phase[d] = "replayed"
      BY <1>8, <1>9, <2>2
    <3>2. source[d] \in Calls /\ phase[source[d]] = "settled" /\ asked[source[d]] = asked[d]
      BY <3>1 DEF IInv, AnswersOK
    <3> QED
      BY <1>8, <1>9, <3>2
  <2> QED
    BY <2>1, <2>2
<1>22. CredentialsOK'
  BY <1>2 DEF IInv, CredentialsOK, AccessOK, HasRow
<1> QED
  BY <1>15, <1>16, <1>17, <1>18, <1>19, <1>20, <1>21, <1>22 DEF IInv

-----------------------------------------------------------------------------
(* What administrators do.                                                 *)

\* What CredentialsOK says of each credential, by the parts of its row.
Lineage ==
  /\ \A r \in Credentials : credentials[r].client # Nobody => HasRow(credentials[r].client)
  /\ \A r, s \in Credentials :
       credentials[s].from # Nobody =>
         /\ credentials[r].from = credentials[s].from => r = s
         /\ credentials[credentials[s].from].revoked = TRUE
         /\ credentials[credentials[s].from].client = credentials[s].client

\* What a row of the credentials is, taken apart.
LEMMA Rows ==
  ASSUME AccessOK, NEW r \in Credentials
  PROVE  /\ credentials[r] \in Credential
         /\ credentials[r] = Unissued <=> credentials[r].client = Nobody
         /\ credentials[r].client \in Clients \cup {Nobody}
         /\ credentials[r].from \in Credentials \cup {Nobody}
         /\ credentials[r].revoked \in BOOLEAN /\ credentials[r].expired \in BOOLEAN
         /\ credentials[r].client = Nobody => credentials[r].from = Nobody /\ credentials[r].revoked = FALSE
<1>1. credentials[r] \in Credential
  BY DEF AccessOK
<1>2. CASE credentials[r] = Unissued
  BY <1>1, <1>2 DEF Unissued
<1>3. CASE credentials[r] # Unissued
  <2>1. credentials[r] \in [client : Clients, revoked : BOOLEAN, expired : BOOLEAN,
                            from : Credentials \cup {Nobody}]
    BY <1>1, <1>3 DEF Credential
  <2>2. credentials[r].client # Nobody
    BY <2>1, AccessAssumption
  <2> QED
    BY <1>1, <1>3, <2>1, <2>2
<1> QED
  BY <1>2, <1>3

\* The invariant of the credentials is their types with their lineage.
LEMMA LineageIsIt == CredentialsOK <=> AccessOK /\ Lineage
<1>1. ASSUME AccessOK, NEW r \in Credentials
      PROVE  /\ credentials[r] # Unissued <=> credentials[r].client # Nobody
             /\ credentials[r].from # Nobody =>
                  (credentials[credentials[r].from].revoked
                     <=> credentials[credentials[r].from].revoked = TRUE)
  <2>1. credentials[r] # Unissued <=> credentials[r].client # Nobody
    BY <1>1, Rows
  <2>2. ASSUME credentials[r].from # Nobody
        PROVE  credentials[credentials[r].from].revoked
                 <=> credentials[credentials[r].from].revoked = TRUE
    <3>1. PICK q \in Credentials : q = credentials[r].from
      BY <1>1, <2>2, Rows
    <3>2. credentials[q].revoked \in BOOLEAN
      BY <1>1, Rows
    <3> QED
      BY <3>1, <3>2
  <2> QED
    BY <2>1, <2>2
<1> QED
  BY <1>1 DEF CredentialsOK, Lineage

\* issue() writes a credential that is neither revoked nor expired.
LEMMA IssuedIs ==
  ASSUME NEW c, NEW from
  PROVE  Issued(c, from) = [client |-> c, revoked |-> FALSE, expired |-> FALSE, from |-> from]
<1>1. PICK u : u = Unissued
  OBVIOUS
<1>2. u = [client |-> Nobody, revoked |-> FALSE, expired |-> FALSE, from |-> Nobody]
  BY <1>1 DEF Unissued
<1>3. Issued(c, from) = [u EXCEPT !.client = c, !.from = from]
  BY <1>1 DEF Issued
<1> QED
  BY <1>2, <1>3

\* A credential is written, whose client and origin stay.
LEMMA RewrittenStep ==
  ASSUME AccessOK, Lineage, NEW r \in Credentials, NEW row \in Credential,
         credentials[r] # Unissued, row.client = credentials[r].client, row.from = credentials[r].from,
         credentials[r].revoked = TRUE => row.revoked = TRUE,
         credentials' = [credentials EXCEPT ![r] = row],
         \A d \in Clients : HasRow(d) => HasRow(d)'
  PROVE  credentials' \in [Credentials -> Credential] /\ Lineage'
<1>1. credentials \in [Credentials -> Credential]
  BY DEF AccessOK
<1>2. /\ credentials' \in [Credentials -> Credential] /\ credentials'[r] = row
      /\ \A q \in Credentials : q # r => credentials'[q] = credentials[q]
  BY <1>1
<1>3. \A q \in Credentials : /\ credentials'[q].client = credentials[q].client
                             /\ credentials'[q].from = credentials[q].from
                             /\ credentials[q].revoked = TRUE => credentials'[q].revoked = TRUE
  BY <1>2
<1>4. \A q \in Credentials : credentials[q].client \in Clients \cup {Nobody}
                             /\ credentials[q].from \in Credentials \cup {Nobody}
  BY Rows
<1>5. \A q \in Credentials : credentials'[q].client # Nobody => HasRow(credentials[q].client)'
  BY <1>3, <1>4 DEF Lineage
<1>6. ASSUME NEW q \in Credentials, NEW s \in Credentials, credentials'[s].from # Nobody
      PROVE  /\ credentials'[q].from = credentials'[s].from => q = s
             /\ credentials'[credentials'[s].from].revoked = TRUE
             /\ credentials'[credentials'[s].from].client = credentials'[s].client
  <2>1. PICK o \in Credentials : o = credentials[s].from
    BY <1>3, <1>4, <1>6
  <2>2. /\ credentials[q].from = credentials[s].from => q = s
        /\ credentials[o].revoked = TRUE /\ credentials[o].client = credentials[s].client
    BY <1>3, <1>6, <2>1 DEF Lineage
  <2> QED
    BY <1>3, <2>1, <2>2
<1> QED
  BY <1>2, <1>5, <1>6 DEF Lineage

\* A credential that had no row is issued: nobody comes from it.
LEMMA IssuedStep ==
  ASSUME AccessOK, Lineage, NEW s \in Credentials, NEW c \in Clients, NEW from \in Credentials \cup {Nobody},
         credentials[s] = Unissued,
         from # Nobody => /\ from # s /\ credentials'[from].revoked = TRUE /\ credentials[from].client = c
                          /\ \A q \in Credentials : credentials[q].from # from,
         credentials' \in [Credentials -> Credential], credentials'[s] = Issued(c, from),
         \A q \in Credentials : q # s =>
           /\ credentials'[q].client = credentials[q].client /\ credentials'[q].from = credentials[q].from
           /\ credentials[q].revoked = TRUE => credentials'[q].revoked = TRUE,
         HasRow(c)', \A d \in Clients : HasRow(d) => HasRow(d)'
  PROVE  Lineage'
<1>1. PICK row : row = [client |-> c, revoked |-> FALSE, expired |-> FALSE, from |-> from]
  OBVIOUS
<1>2. credentials'[s] = row /\ row.client = c /\ row.from = from
  BY <1>1, IssuedIs
<1>3. /\ \A q \in Credentials : credentials[q].client \in Clients \cup {Nobody}
                                /\ credentials[q].from \in Credentials \cup {Nobody}
      /\ credentials[s].revoked = FALSE /\ credentials[s].from = Nobody /\ credentials[s].client = Nobody
  BY Rows DEF Unissued
<1>4. ASSUME NEW q \in Credentials, credentials'[q].client # Nobody
      PROVE  HasRow(credentials[q].client)'
  <2>1. CASE q = s
    BY <1>2, <2>1 DEF HasRow
  <2>2. CASE q # s
    <3>1. credentials'[q].client = credentials[q].client /\ credentials[q].client \in Clients
          /\ HasRow(credentials[q].client)
      BY <1>3, <1>4, <2>2 DEF Lineage
    <3> QED
      BY <3>1 DEF HasRow
  <2> QED
    BY <2>1, <2>2
<1>5. ASSUME NEW q \in Credentials, NEW p \in Credentials, credentials'[p].from # Nobody
      PROVE  /\ credentials'[q].from = credentials'[p].from => q = p
             /\ credentials'[credentials'[p].from].revoked = TRUE
             /\ credentials'[credentials'[p].from].client = credentials'[p].client
  <2>1. CASE p = s
    <3>1. credentials'[p].from = from /\ from \in Credentials /\ credentials'[p].client = c
          /\ from # Nobody
      BY <1>2, <1>5, <2>1
    <3>2. /\ from # s /\ credentials'[from].revoked = TRUE /\ credentials[from].client = c
          /\ \A x \in Credentials : credentials[x].from # from
      BY <3>1
    <3>3. credentials'[from].client = c
      BY <3>1, <3>2
    <3>4. q # s => credentials'[q].from # from
      BY <3>2
    <3> QED
      BY <2>1, <3>1, <3>2, <3>3, <3>4
  <2>2. CASE p # s
    <3>1. credentials'[p].from = credentials[p].from /\ credentials'[p].client = credentials[p].client
      BY <2>2
    <3>2. PICK o \in Credentials : o = credentials[p].from
      BY <1>3, <1>5, <3>1
    <3>3. /\ credentials[q].from = o => q = p
          /\ credentials[o].revoked = TRUE /\ credentials[o].client = credentials[p].client
      BY <1>5, <3>1, <3>2 DEF Lineage
    <3>4. o # s
      BY <1>3, <3>3
    <3>5. from # o
      BY <3>2, AccessAssumption
    <3>6. credentials'[o].revoked = TRUE /\ credentials'[o].client = credentials[o].client
      BY <3>3, <3>4
    <3>7. credentials'[q].from = o => q = p
      BY <1>2, <3>3, <3>5
    <3> QED
      BY <3>1, <3>2, <3>3, <3>6, <3>7
  <2> QED
    BY <2>1, <2>2
<1> QED
  BY <1>4, <1>5 DEF Lineage

\* Whatever administrators do, clients stay and deleted ones stay deleted.
LEMMA AdministerKeeps ==
  ASSUME CredentialsOK, Administer
  PROVE  /\ CredentialsOK'
         /\ \A d \in Clients : /\ HasRow(d) => HasRow(d)'
                               /\ clients[d] = "deleted" => clients'[d] = "deleted"
<1> DEFINE ClientsKept == \A d \in Clients : /\ HasRow(d) => HasRow(d)'
                                             /\ clients[d] = "deleted" => clients'[d] = "deleted"
<1>1. AccessOK /\ Lineage
  BY LineageIsIt
<1>2. /\ clients \in [Clients -> {"unborn", "active", "disabled", "deleted"}]
      /\ credentials \in [Credentials -> Credential]
  BY <1>1 DEF AccessOK
<1>3. SUFFICES /\ clients' \in [Clients -> {"unborn", "active", "disabled", "deleted"}]
               /\ credentials' \in [Credentials -> Credential] /\ acts' \in 0 .. MaxActs
               /\ Lineage' /\ ClientsKept
  <2>1. (AccessOK /\ Lineage)' => CredentialsOK'
    BY LineageIsIt, PTL
  <2> QED
    BY <2>1 DEF AccessOK
<1>4. ASSUME Acts PROVE acts' \in 0 .. MaxActs
  BY <1>1, <1>4, AccessAssumption DEF Acts, AccessOK
<1>5. ASSUME clients' = clients PROVE ClientsKept
  BY <1>5 DEF HasRow
<1>6. ASSUME NEW c \in Clients, NEW r \in Credentials, CreateCredential(c, r)
      PROVE  /\ clients' = clients /\ Acts
             /\ credentials' \in [Credentials -> Credential] /\ Lineage'
  <2>1. /\ clients' = clients /\ Acts /\ HasRow(c) /\ credentials[r] = Unissued
        /\ credentials' = [credentials EXCEPT ![r] = Issued(c, Nobody)]
    BY <1>6 DEF CreateCredential
  <2>2. Issued(c, Nobody) \in Credential
    BY IssuedIs DEF Credential
  <2>3. /\ credentials' \in [Credentials -> Credential] /\ credentials'[r] = Issued(c, Nobody)
        /\ \A q \in Credentials : q # r => credentials'[q] = credentials[q]
    BY <1>2, <2>1, <2>2
  <2>4. HasRow(c)' /\ \A d \in Clients : HasRow(d) => HasRow(d)'
    BY <2>1 DEF HasRow
  <2> QED
    BY <1>1, <2>1, <2>3, <2>4, IssuedStep
<1>7. ASSUME NEW c \in Clients, CreateClient(c)
      PROVE  /\ Acts /\ clients' \in [Clients -> {"unborn", "active", "disabled", "deleted"}]
             /\ credentials' \in [Credentials -> Credential] /\ Lineage' /\ ClientsKept
  <2>1. Acts /\ clients[c] = "unborn" /\ clients' = [clients EXCEPT ![c] = "active"]
    BY <1>7 DEF CreateClient
  <2>2. /\ clients' \in [Clients -> {"unborn", "active", "disabled", "deleted"}]
        /\ clients'[c] = "active" /\ \A d \in Clients : d # c => clients'[d] = clients[d]
    BY <1>2, <2>1
  <2>3. ClientsKept
    BY <2>1, <2>2 DEF HasRow
  <2>4. CASE credentials' = credentials
    <3>1. Lineage'
      <4>1. \A r \in Credentials : credentials[r].client \in Clients \cup {Nobody}
        BY <1>1, Rows
      <4>2. \A r \in Credentials : credentials'[r].client # Nobody => HasRow(credentials[r].client)'
        BY <1>1, <2>3, <2>4, <4>1 DEF Lineage, HasRow
      <4> QED
        BY <1>1, <2>4, <4>2 DEF Lineage
    <3> QED
      BY <1>2, <2>1, <2>2, <2>3, <2>4, <3>1
  <2>5. ASSUME NEW r \in Credentials, credentials[r] = Unissued,
               credentials' = [credentials EXCEPT ![r] = Issued(c, Nobody)]
        PROVE  credentials' \in [Credentials -> Credential] /\ Lineage'
    <3>1. Issued(c, Nobody) \in Credential
      BY IssuedIs DEF Credential
    <3>2. /\ credentials' \in [Credentials -> Credential] /\ credentials'[r] = Issued(c, Nobody)
          /\ \A q \in Credentials : q # r => credentials'[q] = credentials[q]
      BY <1>2, <2>5, <3>1
    <3>3. HasRow(c)' /\ \A d \in Clients : HasRow(d) => HasRow(d)'
      BY <2>2, <2>3 DEF HasRow
    <3> QED
      BY <1>1, <2>5, <3>2, <3>3, IssuedStep
  <2> QED
    BY <1>7, <2>1, <2>2, <2>3, <2>4, <2>5 DEF CreateClient
<1>8. ASSUME NEW c \in Clients, NEW s \in {"active", "disabled"}, SetStatus(c, s)
      PROVE  /\ Acts /\ clients' \in [Clients -> {"unborn", "active", "disabled", "deleted"}]
             /\ credentials' \in [Credentials -> Credential] /\ Lineage' /\ ClientsKept
  <2>1. Acts /\ HasRow(c) /\ clients' = [clients EXCEPT ![c] = s] /\ credentials' = credentials
    BY <1>8 DEF SetStatus
  <2>2. /\ clients' \in [Clients -> {"unborn", "active", "disabled", "deleted"}]
        /\ clients'[c] = s /\ \A d \in Clients : d # c => clients'[d] = clients[d]
    BY <1>2, <2>1
  <2>3. ClientsKept
    BY <2>1, <2>2 DEF HasRow
  <2>4. \A r \in Credentials : credentials[r].client \in Clients \cup {Nobody}
    BY <1>1, Rows
  <2>5. \A r \in Credentials : credentials'[r].client # Nobody => HasRow(credentials[r].client)'
    BY <1>1, <2>1, <2>3, <2>4 DEF Lineage, HasRow
  <2>6. Lineage'
    BY <1>1, <2>1, <2>5 DEF Lineage
  <2> QED
    BY <1>2, <2>1, <2>2, <2>3, <2>6
<1>9. ASSUME NEW r \in Credentials, Revoke(r) \/ Expire(r)
      PROVE  /\ clients' = clients /\ Acts
             /\ credentials' \in [Credentials -> Credential] /\ Lineage'
  <2>1. clients' = clients /\ Acts /\ credentials[r] # Unissued
    BY <1>9 DEF Revoke, Expire
  <2>2. credentials[r] \in [client : Clients, revoked : BOOLEAN, expired : BOOLEAN,
                            from : Credentials \cup {Nobody}]
    BY <1>2, <2>1 DEF Credential
  <2>3. PICK row : row = IF Revoke(r) THEN [credentials[r] EXCEPT !.revoked = TRUE]
                                      ELSE [credentials[r] EXCEPT !.expired = TRUE]
    OBVIOUS
  <2>4. credentials' = [credentials EXCEPT ![r] = row]
    BY <1>9, <2>3 DEF Revoke, Expire
  <2>5. /\ row \in Credential /\ row.client = credentials[r].client /\ row.from = credentials[r].from
        /\ credentials[r].revoked = TRUE => row.revoked = TRUE
    BY <2>2, <2>3 DEF Credential
  <2>6. \A d \in Clients : HasRow(d) => HasRow(d)'
    BY <2>1 DEF HasRow
  <2> QED
    BY <1>1, <2>1, <2>4, <2>5, <2>6, RewrittenStep
<1>10. ASSUME NEW r \in Credentials, NEW s \in Credentials, Rotate(r, s)
       PROVE  /\ clients' = clients /\ Acts
              /\ credentials' \in [Credentials -> Credential] /\ Lineage'
  <2>1. clients' = clients /\ Acts /\ credentials[r] # Unissued /\ credentials[s] = Unissued
        /\ ~credentials[r].revoked
    BY <1>10 DEF Rotate
  <2>2. PICK c \in Clients : c = credentials[r].client
    BY <1>1, <2>1, Rows
  <2>3. HasRow(c)
    BY <1>1, <2>1, <2>2 DEF CredentialsOK
  <2>4. PICK row : row = [credentials[r] EXCEPT !.revoked = TRUE]
    OBVIOUS
  <2>5. PICK issued : issued = Issued(c, r)
    OBVIOUS
  <2>6. credentials[r] \in [client : Clients, revoked : BOOLEAN, expired : BOOLEAN,
                            from : Credentials \cup {Nobody}]
    BY <1>2, <2>1 DEF Credential
  <2>7. row \in Credential /\ row.client = c /\ row.from = credentials[r].from /\ row.revoked = TRUE
    BY <2>2, <2>4, <2>6 DEF Credential
  <2>8. issued \in Credential
    BY <2>5, IssuedIs DEF Credential
  <2>9. r # s
    BY <2>1
  <2>10. credentials' = [credentials EXCEPT ![r] = row, ![s] = issued]
    BY <1>10, <2>2, <2>4, <2>5 DEF Rotate
  <2>11. /\ credentials' \in [Credentials -> Credential] /\ credentials'[s] = issued /\ credentials'[r] = row
         /\ \A q \in Credentials : q # r /\ q # s => credentials'[q] = credentials[q]
    BY <1>2, <2>7, <2>8, <2>9, <2>10
  <2>12. \A q \in Credentials : credentials[q].from # r
    <3>1. credentials[r].revoked # TRUE /\ r # Nobody
      BY <2>1, AccessAssumption
    <3> QED
      BY <1>1, <3>1 DEF Lineage
  <2>13. \A q \in Credentials : q # s =>
           /\ credentials'[q].client = credentials[q].client /\ credentials'[q].from = credentials[q].from
           /\ credentials[q].revoked = TRUE => credentials'[q].revoked = TRUE
    BY <2>2, <2>7, <2>11
  <2>14. HasRow(c)' /\ \A d \in Clients : HasRow(d) => HasRow(d)'
    BY <2>1, <2>3 DEF HasRow
  <2>15. r # s /\ credentials'[r].revoked = TRUE /\ credentials[r].client = c
    BY <2>2, <2>7, <2>9, <2>11
  <2> QED
    BY <1>1, <2>1, <2>5, <2>11, <2>12, <2>13, <2>14, <2>15, IssuedStep
<1> HIDE DEF ClientsKept
<1> QED
  BY <1>2, <1>4, <1>5, <1>6, <1>7, <1>8, <1>9, <1>10 DEF Administer

\* The administrator's routes to clients and credentials.
LEMMA AdministerStep ==
  ASSUME IInv, Administer, UNCHANGED <<keys, buffer, callVars, now, crashes>>
  PROVE  IInv'
<1>1. keys' = keys /\ buffer' = buffer /\ asked' = asked /\ phase' = phase /\ source' = source /\ now' = now
  BY DEF callVars
<1>2. /\ CredentialsOK'
      /\ \A d \in Clients : /\ HasRow(d) => HasRow(d)'
                            /\ clients[d] = "deleted" => clients'[d] = "deleted"
  BY AdministerKeeps DEF IInv
<1>3. \A k \in DOMAIN keys : k[1] \in Clients
  BY DEF IInv, Typed, Digests
<1>4. \A c \in Calls : phase[c] # "new" => asked[c].key[1] \in Clients
  BY DEF IInv, Typed, Digests
<1>5. KeysOK'
  <2>1. \A k \in DOMAIN keys : HasRow(k[1])'
    BY <1>2, <1>3 DEF IInv, KeysOK
  <2> QED
    BY <1>1, <2>1 DEF IInv, KeysOK
<1>6. OwnersOK'
  <2>1. ASSUME NEW c \in Calls
        PROVE  /\ phase[c] = "owner" => HasRow(asked[c].key[1])'
               /\ Unsettled(c) =>
                    \/ clients'[asked[c].key[1]] = "deleted"
                    \/ /\ asked[c].key \in DOMAIN keys
                       /\ keys[asked[c].key].run = c /\ keys[asked[c].key].expires > now
               /\ phase[c] = "lost" => clients'[asked[c].key[1]] = "deleted"
    <3>1. /\ phase[c] = "owner" => HasRow(asked[c].key[1])
          /\ Unsettled(c) =>
               \/ clients[asked[c].key[1]] = "deleted"
               \/ /\ asked[c].key \in DOMAIN keys
                  /\ keys[asked[c].key].run = c /\ keys[asked[c].key].expires > now
          /\ phase[c] = "lost" => clients[asked[c].key[1]] = "deleted"
      BY DEF IInv, OwnersOK
    <3>2. phase[c] = "owner" => HasRow(asked[c].key[1])'
      <4>1. PICK d : d = asked[c].key[1]
        OBVIOUS
      <4>2. phase[c] = "owner" => d \in Clients /\ HasRow(d)
        BY <1>4, <3>1, <4>1
      <4>3. phase[c] = "owner" => HasRow(d)'
        BY <1>2, <4>2
      <4> QED
        BY <1>1, <4>1, <4>3 DEF HasRow
    <3>3. Unsettled(c) \/ phase[c] = "lost" => asked[c].key[1] \in Clients
      BY <1>4 DEF Unsettled
    <3> QED
      BY <1>2, <3>1, <3>2, <3>3
  <2> QED
    BY <1>1, <2>1 DEF OwnersOK, Unsettled, HasRow
<1>7. Typed' /\ BooksOK' /\ EntriesOK' /\ WaitersOK' /\ AnswersOK'
  BY <1>1 DEF IInv, Typed, BooksOK, EntriesOK, WaitersOK, AnswersOK
<1> QED
  BY <1>2, <1>5, <1>6, <1>7 DEF IInv

\* A client goes with its keys and credentials while none of its runs has a live row.
LEMMA DeleteClientStep ==
  ASSUME IInv, NEW d \in Clients, DeleteClient(d)
  PROVE  IInv'
<1>1. /\ buffer' = buffer /\ asked' = asked /\ phase' = phase /\ source' = source /\ now' = now
      /\ HasRow(d) /\ clients' = [clients EXCEPT ![d] = "deleted"] /\ Acts
      /\ credentials' = [r \in Credentials |->
           IF credentials[r].client = d THEN Unissued ELSE credentials[r]]
      /\ \A c \in Calls : phase[c] = "owner" => asked[c].key[1] # d
  BY DEF DeleteClient, CanDelete, Dismiss, callVars
<1>2. AccessOK /\ Lineage
  BY LineageIsIt DEF IInv
<1>3. /\ clients' \in [Clients -> {"unborn", "active", "disabled", "deleted"}]
      /\ clients'[d] = "deleted" /\ \A c \in Clients : c # d => clients'[c] = clients[c]
  BY <1>1, <1>2 DEF AccessOK
<1>4. /\ \A c \in Clients : c # d /\ HasRow(c) => HasRow(c)'
      /\ \A c \in Clients : clients[c] = "deleted" => clients'[c] = "deleted"
  BY <1>3 DEF HasRow
<1>5. keys \in [DOMAIN keys -> KeyRow] /\ DOMAIN keys \subseteq Digests
  BY DEF IInv, Typed
<1>6. /\ DOMAIN keys' = {k \in DOMAIN keys : k[1] # d}
      /\ \A k \in DOMAIN keys' : keys'[k] = keys[k]
      /\ keys' \in [DOMAIN keys' -> KeyRow]
  BY <1>5 DEF DeleteClient, Restrict
<1>7. \A k \in DOMAIN keys : k[1] \in Clients
  BY <1>5 DEF Digests
<1>8. \A c \in Calls : phase[c] # "new" => asked[c].key[1] \in Clients
  BY DEF IInv, Typed, Digests
<1>9. Typed'
  BY <1>1, <1>5, <1>6 DEF IInv, Typed
<1>10. KeysOK'
  <2>1. \A k \in DOMAIN keys' : k \in DOMAIN keys /\ HasRow(k[1])'
    BY <1>4, <1>6, <1>7 DEF IInv, KeysOK
  <2> QED
    BY <1>1, <1>6, <2>1 DEF IInv, KeysOK
<1>11. OwnersOK'
  <2>1. ASSUME NEW c \in Calls
        PROVE  /\ phase[c] = "owner" => HasRow(asked[c].key[1])'
               /\ Unsettled(c) =>
                    \/ clients'[asked[c].key[1]] = "deleted"
                    \/ /\ asked[c].key \in DOMAIN keys'
                       /\ keys'[asked[c].key].run = c /\ keys'[asked[c].key].expires > now
               /\ phase[c] = "lost" => clients'[asked[c].key[1]] = "deleted"
    <3>1. /\ phase[c] = "owner" => HasRow(asked[c].key[1])
          /\ Unsettled(c) =>
               \/ clients[asked[c].key[1]] = "deleted"
               \/ /\ asked[c].key \in DOMAIN keys
                  /\ keys[asked[c].key].run = c /\ keys[asked[c].key].expires > now
          /\ phase[c] = "lost" => clients[asked[c].key[1]] = "deleted"
      BY DEF IInv, OwnersOK
    <3>2. phase[c] = "owner" => HasRow(asked[c].key[1])'
      <4>1. PICK e : e = asked[c].key[1]
        OBVIOUS
      <4>2. phase[c] = "owner" => e \in Clients /\ HasRow(e) /\ e # d
        BY <1>1, <1>8, <3>1, <4>1
      <4>3. phase[c] = "owner" => HasRow(e)'
        BY <1>4, <4>2
      <4> QED
        BY <1>1, <4>1, <4>3 DEF HasRow
    <3>3. Unsettled(c) \/ phase[c] = "lost" => asked[c].key[1] \in Clients
      BY <1>8 DEF Unsettled
    <3>4. asked[c].key \in DOMAIN keys => asked[c].key[1] = d \/ asked[c].key \in DOMAIN keys'
      BY <1>6
    <3>5. CASE asked[c].key[1] = d
      BY <1>3, <3>2, <3>5
    <3>6. CASE asked[c].key[1] # d
      BY <1>4, <1>6, <3>1, <3>2, <3>3, <3>4, <3>6
    <3> QED
      BY <3>5, <3>6
  <2> QED
    BY <1>1, <2>1 DEF OwnersOK, Unsettled, HasRow
<1>12. BooksOK' /\ EntriesOK' /\ WaitersOK' /\ AnswersOK'
  BY <1>1 DEF IInv, BooksOK, EntriesOK, WaitersOK, AnswersOK
<1>13. CredentialsOK'
  <2>1. AccessOK'
    <3>1. acts' \in 0 .. MaxActs
      BY <1>1, <1>2, AccessAssumption DEF Acts, AccessOK
    <3>2. credentials' \in [Credentials -> Credential]
      BY <1>1, <1>2 DEF AccessOK, Credential
    <3> QED
      BY <1>3, <3>1, <3>2 DEF AccessOK
  <2>2. \A r \in Credentials : /\ credentials[r].client = d =>
                                    credentials'[r].client = Nobody /\ credentials'[r].from = Nobody
                               /\ credentials[r].client # d => credentials'[r] = credentials[r]
    BY <1>1 DEF Unissued
  <2>3. \A r \in Credentials : credentials[r].client \in Clients \cup {Nobody}
                               /\ credentials[r].from \in Credentials \cup {Nobody}
    BY <1>2, Rows
  <2>4. \A r \in Credentials : credentials'[r].client # Nobody => HasRow(credentials[r].client)'
    <3> TAKE r \in Credentials
    <3> HAVE credentials'[r].client # Nobody
    <3>1. credentials[r].client # d /\ credentials'[r] = credentials[r]
      BY <2>2
    <3>2. PICK c \in Clients : c = credentials[r].client
      BY <2>3, <3>1
    <3>3. c # d /\ c # Nobody /\ HasRow(c)
      BY <1>2, <3>1, <3>2, AccessAssumption DEF Lineage
    <3>4. HasRow(c)'
      BY <1>4, <3>3
    <3> QED
      BY <3>1, <3>2, <3>4 DEF HasRow
  <2>5. ASSUME NEW r \in Credentials, NEW s \in Credentials, credentials'[s].from # Nobody
        PROVE  /\ credentials'[r].from = credentials'[s].from => r = s
               /\ credentials'[credentials'[s].from].revoked = TRUE
               /\ credentials'[credentials'[s].from].client = credentials'[s].client
    <3>1. credentials[s].client # d /\ credentials'[s] = credentials[s]
      BY <2>2, <2>5
    <3>2. PICK o \in Credentials : o = credentials[s].from
      BY <2>3, <2>5, <3>1
    <3>3. /\ credentials[r].from = o => r = s
          /\ credentials[o].revoked = TRUE /\ credentials[o].client = credentials[s].client
      BY <1>2, <2>5, <3>1, <3>2 DEF Lineage
    <3>4. credentials'[o] = credentials[o]
      BY <2>2, <3>1, <3>3
    <3>5. credentials'[r].from = o => credentials[r].from = o
      BY <2>2, <2>5, <3>1, <3>2
    <3> QED
      BY <3>1, <3>2, <3>3, <3>4, <3>5
  <2>6. Lineage'
    BY <2>4, <2>5 DEF Lineage
  <2>7. (AccessOK /\ Lineage)' => CredentialsOK'
    BY LineageIsIt, PTL
  <2> QED
    BY <2>1, <2>6, <2>7
<1> QED
  BY <1>9, <1>10, <1>11, <1>12, <1>13 DEF IInv

-----------------------------------------------------------------------------
(* What remains.                                                           *)

\* An owner whose run is over, or that settles in vain.
LEMMA OverStep ==
  ASSUME IInv, NEW c \in Calls, RunEnds(c) \/ SettleInVain(c)
  PROVE  IInv'
<1>1. /\ keys' = keys /\ buffer' = buffer /\ asked' = asked /\ source' = source /\ now' = now
      /\ clients' = clients /\ credentials' = credentials /\ acts' = acts
      /\ phase[c] \in {"owner", "answering"}
  BY DEF RunEnds, SettleInVain, Unsettled, accessVars
<1>2. PICK how : /\ how \in {"answering", "lost"}
                 /\ phase' = [phase EXCEPT ![c] = how]
                 /\ how = "lost" => asked[c].key \notin DOMAIN keys
  BY DEF RunEnds, SettleInVain
<1>3. /\ phase'[c] = how /\ \A d \in Calls : d # c => phase'[d] = phase[d]
      /\ phase' \in [Calls -> Phases]
  BY <1>2 DEF IInv, Typed, Phases, Answers
<1>4. how = "lost" => clients[asked[c].key[1]] = "deleted"
  BY <1>1, <1>2 DEF IInv, OwnersOK, Unsettled
<1>5. Typed'
  <2>1. \A d \in Calls : phase'[d] = "new" <=> phase[d] = "new"
    BY <1>1, <1>2, <1>3
  <2> QED
    BY <1>1, <1>3, <2>1 DEF IInv, Typed
<1>6. KeysOK'
  <2> SUFFICES ASSUME NEW q \in DOMAIN keys
               PROVE  /\ HasRow(q[1]) /\ keys[q].run \in Calls
                      /\ phase'[keys[q].run] \in {"owner", "answering", "settled", "unfinished"}
                      /\ asked[keys[q].run].key = q /\ asked[keys[q].run].body = keys[q].body
                      /\ keys[q].status = "active" <=> phase'[keys[q].run] # "settled"
    BY <1>1 DEF KeysOK, HasRow
  <2>1. /\ HasRow(q[1]) /\ keys[q].run \in Calls
        /\ phase[keys[q].run] \in {"owner", "answering", "settled", "unfinished"}
        /\ asked[keys[q].run].key = q /\ asked[keys[q].run].body = keys[q].body
        /\ keys[q].status = "active" <=> phase[keys[q].run] # "settled"
    BY DEF IInv, KeysOK
  <2>2. CASE keys[q].run = c
    <3>1. how = "answering"
      BY <1>2, <2>1, <2>2
    <3> QED
      BY <1>1, <1>3, <2>1, <2>2, <3>1
  <2>3. CASE keys[q].run # c
    BY <1>3, <2>1, <2>3
  <2> QED
    BY <2>2, <2>3
<1>7. OwnersOK'
  <2> SUFFICES ASSUME NEW d \in Calls
               PROVE  /\ phase'[d] = "owner" => HasRow(asked[d].key[1])
                      /\ phase'[d] \in {"owner", "answering"} =>
                           \/ clients[asked[d].key[1]] = "deleted"
                           \/ /\ asked[d].key \in DOMAIN keys
                              /\ keys[asked[d].key].run = d /\ keys[asked[d].key].expires > now
                      /\ phase'[d] = "lost" => clients[asked[d].key[1]] = "deleted"
    BY <1>1 DEF OwnersOK, HasRow, Unsettled
  <2>1. /\ phase[d] = "owner" => HasRow(asked[d].key[1])
        /\ phase[d] \in {"owner", "answering"} =>
             \/ clients[asked[d].key[1]] = "deleted"
             \/ /\ asked[d].key \in DOMAIN keys
                /\ keys[asked[d].key].run = d /\ keys[asked[d].key].expires > now
        /\ phase[d] = "lost" => clients[asked[d].key[1]] = "deleted"
    BY DEF IInv, OwnersOK, Unsettled
  <2>2. CASE d = c
    BY <1>1, <1>2, <1>3, <1>4, <2>1, <2>2
  <2>3. CASE d # c
    BY <1>3, <2>1, <2>3
  <2> QED
    BY <2>2, <2>3
<1>8. \A d \in Calls : phase'[d] = "settled" <=> phase[d] = "settled"
  BY <1>1, <1>2, <1>3
<1>9. EntriesOK'
  <2>1. \A x \in Entries(buffer) : /\ phase'[x] \in {"owner", "answering", "settled", "lost"}
                                   /\ buffer.completedAt[x] = Never <=> phase'[x] # "settled"
    BY <1>2, <1>3, <1>8 DEF IInv, EntriesOK, BooksOK
  <2> QED
    BY <1>1, <2>1 DEF EntriesOK
<1>10. \A d \in Calls : phase'[d] = "waiting" <=> phase[d] = "waiting"
  BY <1>1, <1>2, <1>3
<1>11. \A d \in Calls : phase'[d] = "replayed" <=> phase[d] = "replayed"
  BY <1>1, <1>2, <1>3
<1>12. WaitersOK'
  <2>1. \A d \in Calls : phase'[d] = "waiting" =>
          /\ source[d] \in Entries(buffer) /\ phase'[source[d]] # "settled"
          /\ asked[source[d]] = asked[d]
    BY <1>8, <1>10 DEF IInv, WaitersOK, BooksOK
  <2> QED
    BY <1>1, <2>1 DEF WaitersOK
<1>13. AnswersOK'
  <2>1. \A d \in Calls : phase'[d] = "replayed" =>
          /\ source[d] \in Calls /\ phase'[source[d]] = "settled"
          /\ asked[source[d]] = asked[d]
    BY <1>8, <1>11 DEF IInv, AnswersOK
  <2> QED
    BY <1>1, <2>1 DEF AnswersOK
<1>14. BooksOK' /\ CredentialsOK'
  BY <1>1 DEF IInv, BooksOK, CredentialsOK, AccessOK, HasRow
<1> QED
  BY <1>5, <1>6, <1>7, <1>9, <1>12, <1>13, <1>14 DEF IInv

\* The sweep of expired keys (performSweep).
LEMMA SweepKeysStep ==
  ASSUME IInv, SweepKeys
  PROVE  IInv'
<1> DEFINE due == {k \in DOMAIN keys : keys[k].expires <= now /\ keys[k].status # "active"}
<1>1. /\ keys' = Restrict(keys, DOMAIN keys \ due)
      /\ buffer' = buffer /\ asked' = asked /\ source' = source /\ now' = now /\ phase' = phase
      /\ clients' = clients /\ credentials' = credentials /\ acts' = acts
  BY DEF SweepKeys, callVars, accessVars
<1>2. keys \in [DOMAIN keys -> KeyRow] /\ DOMAIN keys \subseteq Digests /\ now \in Nat
  BY DEF IInv, Typed
<1>3. \A k \in due : k \in DOMAIN keys /\ ~(keys[k].expires > now)
  <2>1. \A k \in DOMAIN keys : keys[k].expires \in Nat
    BY <1>2, IdempotencyAssumption DEF KeyRow
  <2> QED
    BY <1>2, <2>1
<1> HIDE DEF due
<1>4. /\ DOMAIN keys' = DOMAIN keys \ due /\ \A k \in DOMAIN keys' : keys'[k] = keys[k]
      /\ keys' \in [DOMAIN keys' -> KeyRow]
  BY <1>1, <1>2 DEF Restrict
<1>5. Typed'
  BY <1>1, <1>2, <1>4 DEF IInv, Typed
<1>6. KeysOK'
  <2>1. ASSUME NEW q \in DOMAIN keys'
        PROVE  /\ HasRow(q[1]) /\ keys'[q].run \in Calls
               /\ phase[keys'[q].run] \in {"owner", "answering", "settled", "unfinished"}
               /\ asked[keys'[q].run].key = q /\ asked[keys'[q].run].body = keys'[q].body
               /\ keys'[q].status = "active" <=> phase[keys'[q].run] # "settled"
    <3>1. q \in DOMAIN keys /\ keys'[q] = keys[q]
      BY <1>4
    <3>2. /\ HasRow(q[1]) /\ keys[q].run \in Calls
          /\ phase[keys[q].run] \in {"owner", "answering", "settled", "unfinished"}
          /\ asked[keys[q].run].key = q /\ asked[keys[q].run].body = keys[q].body
          /\ keys[q].status = "active" <=> phase[keys[q].run] # "settled"
      BY <3>1 DEF IInv, KeysOK
    <3> QED
      BY <3>1, <3>2
  <2> QED
    BY <1>1, <2>1 DEF KeysOK, HasRow
<1>7. OwnersOK'
  <2>1. ASSUME NEW c \in Calls
        PROVE  /\ phase[c] = "owner" => HasRow(asked[c].key[1])
               /\ Unsettled(c) =>
                    \/ clients[asked[c].key[1]] = "deleted"
                    \/ /\ asked[c].key \in DOMAIN keys'
                       /\ keys'[asked[c].key].run = c /\ keys'[asked[c].key].expires > now
               /\ phase[c] = "lost" => clients[asked[c].key[1]] = "deleted"
    <3>1. /\ phase[c] = "owner" => HasRow(asked[c].key[1])
          /\ Unsettled(c) =>
               \/ clients[asked[c].key[1]] = "deleted"
               \/ /\ asked[c].key \in DOMAIN keys
                  /\ keys[asked[c].key].run = c /\ keys[asked[c].key].expires > now
          /\ phase[c] = "lost" => clients[asked[c].key[1]] = "deleted"
      BY DEF IInv, OwnersOK
    <3>2. asked[c].key \in DOMAIN keys /\ keys[asked[c].key].expires > now =>
            asked[c].key \in DOMAIN keys' /\ keys'[asked[c].key] = keys[asked[c].key]
      BY <1>3, <1>4
    <3> QED
      BY <3>1, <3>2
  <2> QED
    BY <1>1, <2>1 DEF OwnersOK, HasRow, Unsettled
<1>8. BooksOK' /\ EntriesOK' /\ WaitersOK' /\ AnswersOK' /\ CredentialsOK'
  BY <1>1 DEF IInv, BooksOK, EntriesOK, WaitersOK, AnswersOK, CredentialsOK, AccessOK, HasRow
<1> QED
  BY <1>5, <1>6, <1>7, <1>8 DEF IInv

\* Time passes: keys and entries grow old, and none of a live run expires.
LEMMA TickStep ==
  ASSUME IInv, Tick
  PROVE  IInv'
<1>1. /\ keys' = keys /\ buffer' = buffer /\ asked' = asked /\ source' = source /\ phase' = phase
      /\ clients' = clients /\ credentials' = credentials /\ acts' = acts
      /\ now' = now + 1 /\ now < MaxTime
      /\ \A c \in Calls : Unsettled(c) /\ asked[c].key \in DOMAIN keys
                            => now + 1 < keys[asked[c].key].expires
  BY DEF Tick, callVars, accessVars
<1>2. now \in Nat /\ now + 1 \in 0 .. MaxTime
  BY <1>1, IdempotencyAssumption DEF IInv, Typed
<1>3. Typed'
  BY <1>1, <1>2 DEF IInv, Typed
<1>4. BooksOK'
  <2>1. Sound(buffer, now + 1)
    BY <1>2, LaterSound DEF IInv, BooksOK
  <2> QED
    BY <1>1, <2>1 DEF IInv, BooksOK
<1>5. OwnersOK'
  <2>1. \A c \in Calls : Unsettled(c) =>
          \/ clients[asked[c].key[1]] = "deleted"
          \/ /\ asked[c].key \in DOMAIN keys
             /\ keys[asked[c].key].run = c /\ keys[asked[c].key].expires > now + 1
    <3> TAKE c \in Calls
    <3> HAVE Unsettled(c)
    <3>1. CASE asked[c].key \in DOMAIN keys
      <4>1. keys[asked[c].key].expires \in Nat
        BY <3>1, IdempotencyAssumption DEF IInv, Typed, KeyRow
      <4>2. PICK e \in Nat : e = keys[asked[c].key].expires
        BY <4>1
      <4>3. e > now + 1
        BY <1>1, <1>2, <3>1, <4>2
      <4> QED
        BY <3>1, <4>2, <4>3 DEF IInv, OwnersOK
    <3>2. CASE asked[c].key \notin DOMAIN keys
      BY <3>2 DEF IInv, OwnersOK
    <3> QED
      BY <3>1, <3>2
  <2>2. \A c \in Calls : /\ phase[c] = "owner" => HasRow(asked[c].key[1])
                         /\ phase[c] = "lost" => clients[asked[c].key[1]] = "deleted"
    BY DEF IInv, OwnersOK
  <2> QED
    BY <1>1, <2>1, <2>2 DEF OwnersOK, Unsettled, HasRow
<1>6. KeysOK' /\ EntriesOK' /\ WaitersOK' /\ AnswersOK' /\ CredentialsOK'
  BY <1>1 DEF IInv, KeysOK, EntriesOK, WaitersOK, AnswersOK, CredentialsOK, AccessOK, HasRow
<1> QED
  BY <1>3, <1>4, <1>5, <1>6 DEF IInv

\* A crash ends every run and every wait, and empties the buffer.
LEMMA CrashStep ==
  ASSUME IInv, Crash
  PROVE  IInv'
<1>1. /\ keys' = keys /\ asked' = asked /\ source' = source /\ now' = now
      /\ clients' = clients /\ credentials' = credentials /\ acts' = acts
      /\ buffer' = EmptyBuffer
      /\ phase' = [c \in Calls |-> IF Unsettled(c) \/ phase[c] = "waiting" THEN "unfinished" ELSE phase[c]]
  BY DEF Crash, accessVars
<1>2. phase \in [Calls -> Phases]
  BY DEF IInv, Typed
<1>3. /\ phase' \in [Calls -> Phases]
      /\ \A c \in Calls : /\ phase[c] \in {"owner", "answering", "waiting"} => phase'[c] = "unfinished"
                          /\ phase[c] \notin {"owner", "answering", "waiting"} => phase'[c] = phase[c]
  BY <1>1, <1>2 DEF Phases, Answers, Unsettled
<1>4. Typed'
  <2>1. \A d \in Calls : phase'[d] = "new" <=> phase[d] = "new"
    BY <1>3
  <2> QED
    BY <1>1, <1>3, <2>1 DEF IInv, Typed
<1>5. Sound(buffer', now) /\ Entries(buffer') = {} /\ buffer'.total = 0
  BY <1>1, EmptySound
<1>6. BooksOK'
  BY <1>1, <1>5, ReplayBufferAssumption DEF BooksOK
<1>7. KeysOK'
  <2> SUFFICES ASSUME NEW q \in DOMAIN keys
               PROVE  /\ HasRow(q[1]) /\ keys[q].run \in Calls
                      /\ phase'[keys[q].run] \in {"owner", "answering", "settled", "unfinished"}
                      /\ asked[keys[q].run].key = q /\ asked[keys[q].run].body = keys[q].body
                      /\ keys[q].status = "active" <=> phase'[keys[q].run] # "settled"
    BY <1>1 DEF KeysOK, HasRow
  <2>1. /\ HasRow(q[1]) /\ keys[q].run \in Calls
        /\ phase[keys[q].run] \in {"owner", "answering", "settled", "unfinished"}
        /\ asked[keys[q].run].key = q /\ asked[keys[q].run].body = keys[q].body
        /\ keys[q].status = "active" <=> phase[keys[q].run] # "settled"
    BY DEF IInv, KeysOK
  <2> QED
    BY <1>3, <2>1
<1>8. OwnersOK'
  <2>1. \A c \in Calls : phase'[c] \notin {"owner", "answering"}
                         /\ phase'[c] = "lost" => phase[c] = "lost"
    BY <1>3
  <2> QED
    BY <1>1, <2>1 DEF IInv, OwnersOK, Unsettled
<1>9. EntriesOK'
  BY <1>5 DEF EntriesOK
<1>10. WaitersOK'
  BY <1>3 DEF WaitersOK
<1>11. AnswersOK'
  BY <1>1, <1>3 DEF IInv, AnswersOK
<1>12. CredentialsOK'
  BY <1>1 DEF IInv, CredentialsOK, AccessOK, HasRow
<1> QED
  BY <1>4, <1>6, <1>7, <1>8, <1>9, <1>10, <1>11, <1>12 DEF IInv

\* A step that changes nothing.
LEMMA SameStep ==
  ASSUME IInv, UNCHANGED vars
  PROVE  IInv'
BY DEF IInv, Typed, BooksOK, KeysOK, OwnersOK, EntriesOK, WaitersOK, AnswersOK, CredentialsOK,
       AccessOK, HasRow, Unsettled, vars, callVars, accessVars

\* A new database and a new buffer.
LEMMA InitHolds == Init => IInv
<1> SUFFICES ASSUME Init PROVE IInv
  OBVIOUS
<1>1. /\ keys = << >> /\ buffer = EmptyBuffer /\ asked = << >> /\ now = 0
      /\ phase = [c \in Calls |-> "new"] /\ source = [c \in Calls |-> NoCall] /\ AccessInit
  BY DEF Init
<1>2. DOMAIN keys = {} /\ DOMAIN asked = {}
  BY <1>1
<1>3. Typed
  <2>1. keys \in [DOMAIN keys -> KeyRow] /\ DOMAIN keys \subseteq Digests
    BY <1>1
  <2>2. asked \in [DOMAIN asked -> [key : Digests, body : Bodies]]
    BY <1>1
  <2>3. DOMAIN asked = {c \in Calls : phase[c] # "new"}
    BY <1>1, <1>2
  <2>4. phase \in [Calls -> Phases] /\ source \in [Calls -> Calls \cup {NoCall}] /\ now \in 0 .. MaxTime
    BY <1>1, IdempotencyAssumption DEF Phases
  <2> QED
    BY <2>1, <2>2, <2>3, <2>4 DEF Typed
<1>4. Sound(buffer, now) /\ Entries(buffer) = {} /\ buffer.total = 0
  BY <1>1, EmptySound
<1>5. BooksOK
  BY <1>4, ReplayBufferAssumption DEF BooksOK
<1>6. KeysOK
  BY <1>2 DEF KeysOK
<1>7. OwnersOK /\ WaitersOK /\ AnswersOK
  BY <1>1 DEF OwnersOK, Unsettled, WaitersOK, AnswersOK
<1>8. EntriesOK
  BY <1>4 DEF EntriesOK
<1>9. CredentialsOK
  <2>1. PICK c \in Clients, r \in Credentials :
          /\ clients = [d \in Clients |-> IF d = c THEN "active" ELSE "unborn"]
          /\ credentials = [s \in Credentials |->
               IF s = r THEN [Unissued EXCEPT !.client = c] ELSE Unissued]
          /\ acts = 0
    BY <1>1 DEF AccessInit
  <2>2. PICK row : row = [client |-> c, revoked |-> FALSE, expired |-> FALSE, from |-> Nobody]
    OBVIOUS
  <2>3. [Unissued EXCEPT !.client = c] = row
    <3>1. PICK u : u = Unissued
      OBVIOUS
    <3>2. u = [client |-> Nobody, revoked |-> FALSE, expired |-> FALSE, from |-> Nobody]
      BY <3>1 DEF Unissued
    <3>3. PICK v : v = [u EXCEPT !.client = c]
      OBVIOUS
    <3>4. v = [client |-> c, revoked |-> FALSE, expired |-> FALSE, from |-> Nobody]
      BY <3>2, <3>3
    <3>5. [Unissued EXCEPT !.client = c] = v
      BY <3>1, <3>3
    <3> QED
      BY <2>2, <3>4, <3>5
  <2>4. credentials = [s \in Credentials |-> IF s = r THEN row ELSE Unissued]
    BY <2>1, <2>3
  <2>5. row \in Credential /\ Unissued \in Credential
    BY <2>2 DEF Credential
  <2>6. AccessOK
    <3>1. clients \in [Clients -> {"unborn", "active", "disabled", "deleted"}]
      BY <2>1
    <3>2. credentials \in [Credentials -> Credential]
      BY <2>4, <2>5
    <3> QED
      BY <2>1, <3>1, <3>2, AccessAssumption DEF AccessOK
  <2>7. \A s \in Credentials : credentials[s].from = Nobody
                               /\ (credentials[s].client # Nobody => HasRow(credentials[s].client))
    BY <2>1, <2>2, <2>4 DEF Unissued, HasRow
  <2>8. Lineage
    BY <2>7 DEF Lineage
  <2> QED
    BY <2>6, <2>8, LineageIsIt
<1> QED
  BY <1>3, <1>5, <1>6, <1>7, <1>8, <1>9 DEF IInv

\* The invariant is inductive.
LEMMA NextKeeps == IInv /\ [Next]_vars => IInv'
<1> SUFFICES ASSUME IInv, [Next]_vars PROVE IInv'
  OBVIOUS
<1>1. ASSUME NEW c \in Calls, NEW r \in Credentials, NEW key \in Keys, NEW body \in Bodies,
             Begin(c, r, key, body)
      PROVE  IInv'
  BY <1>1, BeginStep
<1>2. ASSUME NEW c \in Calls, NEW r \in Credentials, Refuse(c, r) PROVE IInv'
  BY <1>2, SameStep DEF Refuse
<1>3. ASSUME NEW c \in Calls, RunEnds(c) \/ SettleInVain(c) PROVE IInv'
  BY <1>3, OverStep
<1>4. ASSUME NEW d \in Clients, DeleteClient(d) PROVE IInv'
  BY <1>4, DeleteClientStep
<1>5. ASSUME Administer, UNCHANGED <<keys, buffer, callVars, now, crashes>> PROVE IInv'
  BY <1>5, AdministerStep
<1>6. ASSUME NEW c \in Calls, NEW status \in {"completed", "failed"}, NEW n \in Sizes,
             Settle(c, status, n)
      PROVE  IInv'
  BY <1>6, SettleStep
<1>7. CASE SweepKeys
  BY <1>7, SweepKeysStep
<1>8. CASE Tick
  BY <1>8, TickStep
<1>9. CASE Crash
  BY <1>9, CrashStep
<1>10. CASE Idle \/ UNCHANGED vars
  BY <1>10, SameStep DEF Idle
<1> QED
  BY <1>1, <1>2, <1>3, <1>4, <1>5, <1>6, <1>7, <1>8, <1>9, <1>10 DEF Next

\* The inductive invariant: keys, owners, entries and waiters agree with each other.
THEOREM Invariance == Spec => []IInv
<1>1. Init => IInv
  BY InitHolds
<1>2. IInv /\ [Next]_vars => IInv'
  BY NextKeeps
<1> QED
  BY <1>1, <1>2, PTL DEF Spec

\* A duplicate waits only on an owner that has still to settle and has its entry, unless
\* its client was deleted; and the buffer's books are right, within its limit.
THEOREM NobodyWaitsInVain == Spec => []WaitersHaveOwners
<1>1. IInv => WaitersHaveOwners
  <2> SUFFICES ASSUME IInv PROVE WaitersHaveOwners
    OBVIOUS
  <2>1. TypeOK
    BY DEF IInv, Typed, BooksOK, Sound, TypeOK, Phases
  <2>2. BytesBounded
    BY <2>1 DEF IInv, BooksOK, Sound, BytesBounded
  <2>3. ASSUME NEW c \in Calls, phase[c] = "waiting"
        PROVE  /\ Unsettled(source[c]) \/ clients[asked[c].key[1]] = "deleted"
               /\ source[c] \in Entries(buffer) /\ buffer.completedAt[source[c]] = Never
               /\ asked[source[c]] = asked[c]
    <3>1. source[c] \in Entries(buffer) /\ phase[source[c]] # "settled" /\ asked[source[c]] = asked[c]
      BY <2>3 DEF IInv, WaitersOK
    <3>2. /\ source[c] \in Calls /\ phase[source[c]] \in {"owner", "answering", "settled", "lost"}
          /\ buffer.completedAt[source[c]] = Never
      BY <3>1 DEF IInv, BooksOK, EntriesOK
    <3>3. phase[source[c]] = "lost" => clients[asked[source[c]].key[1]] = "deleted"
      BY <3>2 DEF IInv, OwnersOK
    <3> QED
      BY <3>1, <3>2, <3>3 DEF Unsettled
  <2> QED
    BY <2>2, <2>3 DEF WaitersHaveOwners
<1> QED
  BY <1>1, Invariance, PTL

\* A duplicate is given the answer of a run that settled the same key for the same body.
THEOREM OnlyTheirOwnAnswers == Spec => []AnswersMatch
<1>1. IInv => AnswersMatch
  BY DEF IInv, AnswersOK, AnswersMatch
<1> QED
  BY <1>1, Invariance, PTL

\* No live run, key or credential of a deleted client is left, and a credential has one
\* successor at most.
THEOREM DeletionIsComplete == Spec => []ClientsLeaveNothing
<1>1. IInv => ClientsLeaveNothing
  BY DEF IInv, CredentialsOK, KeysOK, OwnersOK, ClientsLeaveNothing
<1> QED
  BY <1>1, Invariance, PTL

\* The steps that may put an entry into the buffer put one of their own call there.
LEMMA NobodyReturns ==
  ASSUME IInv, [Next]_vars, NEW c \in Calls, Unsettled(c), c \notin Entries(buffer)
  PROVE  c \notin Entries(buffer')
<1>1. Sound(buffer, now) /\ now \in Nat
  BY DEF IInv, BooksOK, Typed
<1>2. CASE buffer' = buffer
  BY <1>2
<1>3. ASSUME NEW x, buffer' \in {EvictExpired(buffer, now), Looked(buffer, x, now)}
      PROVE  c \notin Entries(buffer')
  <2>1. OnlyExpired
    BY <1>3, ExpiryIsExpired
  <2> QED
    BY <2>1 DEF OnlyExpired
<1>4. ASSUME NEW d \in Calls, NEW r \in Credentials, NEW key \in Keys, NEW body \in Bodies,
             Begin(d, r, key, body)
      PROVE  c \notin Entries(buffer')
  <2>1. PICK k : k = <<credentials[r].client, key>>
    OBVIOUS
  <2>2. /\ phase[d] = "new"
        /\ Own(d, k, body) \/ Conflict(d, k, body) \/ Unavailable(d, k, body) \/ Attach(d, k, body)
    BY <1>4, <2>1 DEF Begin
  <2>3. c # d
    BY <2>2 DEF Unsettled
  <2>4. CASE Own(d, k, body)
    <3>1. buffer' = OpenEntry(buffer, d, now)
      BY <2>4 DEF Own
    <3>2. Entries(buffer') \subseteq Entries(buffer) \cup {d}
      BY <1>1, <3>1, OpenEntrySound
    <3> QED
      BY <2>3, <3>2
  <2>5. CASE Conflict(d, k, body)
    BY <1>2, <2>5 DEF Conflict
  <2>6. CASE Unavailable(d, k, body)
    BY <1>3, <2>6 DEF Unavailable
  <2>7. CASE Attach(d, k, body)
    BY <1>3, <2>7 DEF Attach
  <2> QED
    BY <2>2, <2>4, <2>5, <2>6, <2>7
<1>5. ASSUME NEW d \in Calls, NEW status \in {"completed", "failed"}, NEW n \in Sizes,
             Settle(d, status, n)
      PROVE  c \notin Entries(buffer')
  <2>1. CASE d \in Entries(EvictExpired(buffer, now))
    <3>1. buffer' = CompleteEntry(Publish(buffer, d, n, now), d, now)
      BY <1>5, <2>1 DEF Settle, Available
    <3>2. n \in Nat
      BY IdempotencyAssumption
    <3>3. Entries(buffer') \subseteq Entries(buffer)
      BY <1>1, <2>1, <3>1, <3>2, SettledSound
    <3> QED
      BY <3>3
  <2>2. CASE d \notin Entries(EvictExpired(buffer, now))
    <3>1. buffer' = EvictExpired(buffer, now)
      BY <1>5, <2>2 DEF Settle, Available
    <3> QED
      BY <1>3, <3>1
  <2> QED
    BY <2>1, <2>2
<1>6. ASSUME Crash PROVE c \notin Entries(buffer')
  BY <1>6, EmptySound DEF Crash
<1> QED
  BY <1>2, <1>4, <1>5, <1>6
     DEF Next, Refuse, RunEnds, SettleInVain, DeleteClient, SweepKeys, Tick, Idle, vars

\* The steps that write a key that has not expired leave it with its run and its body.
LEMMA KeysStay ==
  ASSUME IInv, [Next]_vars, NEW k \in DOMAIN keys, keys[k].expires > now
  PROVE  \/ k \in DOMAIN keys' /\ keys'[k].run = keys[k].run /\ keys'[k].body = keys[k].body
         \/ clients'[k[1]] = "deleted"
<1>1. keys \in [DOMAIN keys -> KeyRow] /\ k[1] \in Clients /\ now \in Nat
  BY DEF IInv, Typed, Digests
<1>2. CASE keys' = keys
  BY <1>2
<1>3. ASSUME NEW d \in Calls, NEW r \in Credentials, NEW key \in Keys, NEW body \in Bodies,
             Begin(d, r, key, body)
      PROVE  k \in DOMAIN keys' /\ keys'[k] = keys[k]
  <2>1. PICK q : q = <<credentials[r].client, key>>
    OBVIOUS
  <2>2. Own(d, q, body) \/ Conflict(d, q, body) \/ Unavailable(d, q, body) \/ Attach(d, q, body)
    BY <1>3, <2>1 DEF Begin
  <2>3. CASE Own(d, q, body)
    <3>1. PICK row : row = [body |-> body, run |-> d, status |-> "active", expires |-> now + KeyTTL]
      OBVIOUS
    <3>2. keys' = With(keys, q, row) /\ ~Held(q)
      BY <2>3, <3>1 DEF Own
    <3>3. k # q
      BY <3>2 DEF Held
    <3> QED
      BY <3>2, <3>3 DEF With
  <2>4. CASE Conflict(d, q, body) \/ Unavailable(d, q, body) \/ Attach(d, q, body)
    BY <2>4 DEF Conflict, Unavailable, Attach, Answer
  <2> QED
    BY <2>2, <2>3, <2>4
<1>4. ASSUME NEW d \in Calls, NEW status \in {"completed", "failed"}, NEW n \in Sizes,
             Settle(d, status, n)
      PROVE  k \in DOMAIN keys' /\ keys'[k].run = keys[k].run /\ keys'[k].body = keys[k].body
  <2>1. PICK q \in DOMAIN keys : keys' = [keys EXCEPT ![q].status = status]
    BY <1>4 DEF Settle
  <2>2. keys[k] \in KeyRow /\ keys[q] \in KeyRow
    BY <1>1
  <2>3. PICK row : row = [keys[q] EXCEPT !.status = status]
    OBVIOUS
  <2>4. row.run = keys[q].run /\ row.body = keys[q].body
    BY <2>2, <2>3 DEF KeyRow
  <2>5. keys' = [keys EXCEPT ![q] = row]
    BY <2>1, <2>3
  <2>6. k \in DOMAIN keys' /\ keys'[k] = IF k = q THEN row ELSE keys[k]
    BY <1>1, <2>5
  <2> QED
    BY <2>4, <2>6
<1>5. ASSUME NEW d \in Clients, DeleteClient(d)
      PROVE  \/ k \in DOMAIN keys' /\ keys'[k] = keys[k]
             \/ clients'[k[1]] = "deleted"
  <2>1. CASE k[1] = d
    <3>1. clients' = [clients EXCEPT ![d] = "deleted"] /\ clients \in [Clients -> {"unborn", "active", "disabled", "deleted"}]
      BY <1>5 DEF DeleteClient, Dismiss, IInv, CredentialsOK, AccessOK
    <3> QED
      BY <2>1, <3>1
  <2>2. CASE k[1] # d
    BY <1>5, <2>2 DEF DeleteClient, Restrict
  <2> QED
    BY <2>1, <2>2
<1>6. ASSUME SweepKeys PROVE k \in DOMAIN keys' /\ keys'[k] = keys[k]
  <2>1. PICK due : /\ due = {q \in DOMAIN keys : keys[q].expires <= now /\ keys[q].status # "active"}
                   /\ keys' = Restrict(keys, DOMAIN keys \ due)
    BY <1>6 DEF SweepKeys
  <2>2. keys[k].expires \in Nat
    BY <1>1, IdempotencyAssumption DEF KeyRow
  <2>3. k \notin due
    BY <1>1, <2>1, <2>2
  <2> QED
    BY <2>1, <2>3 DEF Restrict
<1> QED
  BY <1>2, <1>3, <1>4, <1>5, <1>6
     DEF Next, Refuse, RunEnds, SettleInVain, Tick, Crash, Idle, vars

\* A key that has not expired keeps its run, and an entry that was evicted stays away.
THEOREM OneRunPerKey == Spec => RunsOnce
<1>1. IInv /\ [Next]_vars =>
        [\A c \in Calls : Unsettled(c) /\ c \notin Entries(buffer) => c \notin Entries(buffer')]_vars
  BY NobodyReturns
<1>2. IInv /\ [Next]_vars =>
        [\A k \in DOMAIN keys :
           keys[k].expires > now =>
             \/ k \in DOMAIN keys' /\ keys'[k].run = keys[k].run /\ keys'[k].body = keys[k].body
             \/ clients'[k[1]] = "deleted"]_vars
  BY KeysStay
<1> QED
  BY <1>1, <1>2, Invariance, PTL DEF Spec, RunsOnce, NoResurrection
=============================================================================

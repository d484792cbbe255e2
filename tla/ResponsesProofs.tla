-------------------------- MODULE ResponsesProofs --------------------------
(***************************************************************************)
(* Proofs about Responses, for any response ids, targets and limits:       *)
(* chains stay lines with one owner of each lock, an answered response     *)
(* stays there to be continued, history is final, retention spares what is *)
(* used, and no workspace is left behind.                                  *)
(***************************************************************************)
EXTENDS Responses, FiniteSetTheorems, WellFoundedInduction, TLAPS

-----------------------------------------------------------------------------
(* The walk along a chain, which is a recursive function of the table.     *)

\* A set of naturals that holds 0 and the successors of its members holds them all.
LEMMA Counting ==
  ASSUME NEW P, 0 \in P, \A n \in Nat : n \in P => n + 1 \in P
  PROVE  \A n \in Nat : n \in P
<1> DEFINE Bad == {n \in Nat : n \notin P}
<1> SUFFICES ASSUME Bad # {} PROVE FALSE
  OBVIOUS
<1>1. PICK n \in Bad : \A m \in Bad : <<m, n>> \notin OpToRel(<, Nat)
  BY NatLessThanWellFounded, WFMin
<1>2. n \in Nat /\ n \notin P
  OBVIOUS
<1>3. n - 1 \in Nat /\ n - 1 < n /\ (n - 1) + 1 = n
  BY <1>2
<1>4. <<n - 1, n>> \in OpToRel(<, Nat)
  BY <1>2, <1>3 DEF OpToRel
<1>5. n - 1 \notin P
  BY <1>2, <1>3
<1> QED
  BY <1>1, <1>3, <1>4, <1>5

\* The id after x in the table t.
After(t, x) == IF x \in DOMAIN t THEN t[x].child ELSE NoId

\* Walk(c) in the table t.
Steps(t, c) == CHOOSE g : g = [k \in Nat |-> IF k = 0 THEN c ELSE After(t, g[k - 1])]

\* The walk starts at the root and goes from each id to the one after it.
LEMMA StepsDefined ==
  ASSUME NEW t, NEW c
  PROVE  Steps(t, c)[0] = c /\ \A k \in Nat : Steps(t, c)[k + 1] = After(t, Steps(t, c)[k])
<1> DEFINE Fits(g, n) == g = [k \in 0 .. n |-> IF k = 0 THEN c ELSE After(t, g[k - 1])]
           P == {n \in Nat : \E g : Fits(g, n)}
           Q == {n \in Nat : \A m, l \in Nat : \A g, h :
                   Fits(g, m) /\ Fits(h, l) /\ n <= m /\ n <= l => g[n] = h[n]}
<1>1. 0 \in P
  <2> DEFINE g == [k \in 0 .. 0 |-> c]
  <2>1. Fits(g, 0)
    OBVIOUS
  <2> QED
    BY <2>1
<1>2. ASSUME NEW n \in Nat, n \in P PROVE n + 1 \in P
  <2>1. PICK g : Fits(g, n)
    BY <1>2
  <2> DEFINE h == [k \in 0 .. n + 1 |-> IF k = 0 THEN c ELSE After(t, g[k - 1])]
  <2>2. \A k \in 0 .. n : h[k] = g[k]
    BY <2>1
  <2>3. \A k \in 0 .. n + 1 : k # 0 => k - 1 \in 0 .. n
    OBVIOUS
  <2>4. \A k \in 0 .. n + 1 : k # 0 => h[k - 1] = g[k - 1]
    BY <2>2, <2>3
  <2>5. Fits(h, n + 1)
    BY <2>4
  <2> HIDE DEF h, Fits
  <2> QED
    BY <2>5
<1>3. ASSUME NEW n \in Nat PROVE \E g : Fits(g, n)
  <2> HIDE DEF P
  <2>1. \A i \in Nat : i \in P
    BY <1>1, <1>2, Counting
  <2> QED
    BY <2>1 DEF P
<1>4. 0 \in Q
  <2> SUFFICES ASSUME NEW m \in Nat, NEW l \in Nat, NEW g, NEW h, Fits(g, m), Fits(h, l)
               PROVE  g[0] = h[0]
    OBVIOUS
  <2>1. g[0] = c /\ h[0] = c
    OBVIOUS
  <2> QED
    BY <2>1
<1>5. ASSUME NEW n \in Nat, n \in Q PROVE n + 1 \in Q
  <2> SUFFICES ASSUME NEW m \in Nat, NEW l \in Nat, NEW g, NEW h, Fits(g, m), Fits(h, l),
                      n + 1 <= m, n + 1 <= l
               PROVE  g[n + 1] = h[n + 1]
    OBVIOUS
  <2>1. n <= m /\ n <= l /\ n + 1 \in 0 .. m /\ n + 1 \in 0 .. l /\ n + 1 # 0 /\ (n + 1) - 1 = n
    OBVIOUS
  <2>2. g[n] = h[n]
    <3>1. Fits(g, m) /\ Fits(h, l)
      OBVIOUS
    <3> HIDE DEF Fits
    <3> QED
      BY <1>5, <2>1, <3>1
  <2>3. g[n + 1] = After(t, g[n]) /\ h[n + 1] = After(t, h[n])
    BY <2>1
  <2> QED
    BY <2>2, <2>3
<1>6. \A n \in Nat : n \in Q
  <2> HIDE DEF Q
  <2> QED
    BY <1>4, <1>5, Counting
<1> DEFINE The(n) == CHOOSE g : Fits(g, n)
           G == [k \in Nat |-> The(k)[k]]
<1>7. \A n \in Nat : Fits(The(n), n)
  <2> HIDE DEF Fits
  <2> QED
    BY <1>3
<1>8. G[0] = c
  <2>1. Fits(The(0), 0)
    BY <1>7
  <2> HIDE DEF The
  <2> QED
    BY <2>1
<1>9. ASSUME NEW k \in Nat PROVE G[k + 1] = After(t, G[k])
  <2> DEFINE g == The(k + 1)
  <2>1. Fits(g, k + 1) /\ Fits(The(k), k) /\ k + 1 \in Nat
    <3> HIDE DEF Fits, The
    <3> QED
      BY <1>7
  <2>2. g[k] = The(k)[k]
    <3>1. k \in Q
      BY <1>6
    <3>2. k <= k + 1 /\ k <= k
      OBVIOUS
    <3> HIDE DEF Fits, The
    <3> QED
      BY <2>1, <3>1, <3>2
  <2> HIDE DEF The
  <2>3. g[k + 1] = After(t, g[k])
    BY <2>1
  <2> QED
    BY <2>2, <2>3
<1>10. G = [k \in Nat |-> IF k = 0 THEN c ELSE After(t, G[k - 1])]
  <2> HIDE DEF The
  <2>1. \A k \in Nat : k # 0 => k - 1 \in Nat /\ (k - 1) + 1 = k
    OBVIOUS
  <2>2. \A k \in Nat : G[k] = IF k = 0 THEN c ELSE After(t, G[k - 1])
    <3> HIDE DEF G
    <3> QED
      BY <1>8, <1>9, <2>1
  <2> QED
    BY <2>2
<1>11. PICK s : s = Steps(t, c)
  OBVIOUS
<1>12. s = [k \in Nat |-> IF k = 0 THEN c ELSE After(t, s[k - 1])]
  <2> HIDE DEF G
  <2> QED
    BY <1>10, <1>11 DEF Steps
<1>13. \A k \in Nat : k + 1 \in Nat /\ k + 1 # 0 /\ (k + 1) - 1 = k
  OBVIOUS
<1>14. s[0] = c /\ \A k \in Nat : s[k + 1] = After(t, s[k])
  BY <1>12, <1>13
<1> QED
  BY <1>11, <1>14

-----------------------------------------------------------------------------
(* Chains of a table t as lines.                                           *)

RowsIn(t, c) == {r \in DOMAIN t : t[r].chain = c}

\* The rows R of the chain c agree in both directions.
Linked(t, c, R) ==
  /\ c \in R /\ t[c].parent = NoId
  /\ \A r \in R :
       /\ t[r].target = t[c].target
       /\ r # c => t[r].parent \in R /\ t[t[r].parent].child = r
       /\ t[r].child # NoId => t[r].child \in R /\ t[t[r].child].parent = r

\* The walk from c visits each of the n rows of R, and ends.
Visits(t, c, R, n) ==
  /\ {Steps(t, c)[k] : k \in 0 .. n - 1} = R
  /\ Steps(t, c)[n] = NoId

Line(t, c) ==
  /\ Linked(t, c, RowsIn(t, c))
  /\ Visits(t, c, RowsIn(t, c), Cardinality(RowsIn(t, c)))

\* requireValidChain looks for a line in the table.
LEMMA ChainsNow == \A c : (ValidChain(c) <=> Line(rows, c)) /\ ChainRows(c) = RowsIn(rows, c)
<1> SUFFICES ASSUME NEW c
             PROVE  (ValidChain(c) <=> Line(rows, c)) /\ ChainRows(c) = RowsIn(rows, c)
  OBVIOUS
<1>1. Walk(c) = Steps(rows, c)
  BY DEF Walk, Steps, After, Has
<1>2. ChainRows(c) = RowsIn(rows, c)
  BY DEF ChainRows, RowsIn
<1> QED
  BY <1>1, <1>2 DEF ValidChain, Line, Linked, Visits

\* The same of the table after a step.
LEMMA ChainsNext ==
  (\A c : (ValidChain(c) <=> Line(rows, c)) /\ ChainRows(c) = RowsIn(rows, c))'
BY ChainsNow, PTL

\* The walk in numbers: as many steps as rows, and the last one at a row without child.
Numbered(t, c, n) ==
  /\ Cardinality(RowsIn(t, c)) = n + 1
  /\ RowsIn(t, c) \subseteq DOMAIN t
  /\ \A k \in 0 .. n : Steps(t, c)[k] \in RowsIn(t, c)
  /\ \A r \in RowsIn(t, c) : \E k \in 0 .. n : Steps(t, c)[k] = r
  /\ Steps(t, c)[0] = c /\ Steps(t, c)[n + 1] = NoId
  /\ \A k \in 0 .. n : Steps(t, c)[k + 1] = t[Steps(t, c)[k]].child
  /\ \A k \in 0 .. n : t[Steps(t, c)[k]].child = NoId <=> k = n

\* The rows of a line can be numbered by its walk.
LEMMA Walked ==
  ASSUME NEW t, NEW c, IsFiniteSet(DOMAIN t), NoId \notin DOMAIN t, Line(t, c)
  PROVE  \E n \in Nat : Numbered(t, c, n)
<1> DEFINE R == RowsIn(t, c)
           W == Steps(t, c)
<1>1. IsFiniteSet(R) /\ R \subseteq DOMAIN t /\ c \in R
  BY FS_Subset DEF RowsIn, Line, Linked
<1>2. Cardinality(R) \in Nat /\ Cardinality(R) # 0
  BY <1>1, FS_CardinalityType, FS_EmptySet
<1>3. PICK n \in Nat : Cardinality(R) = n + 1
  <2>1. Cardinality(R) - 1 \in Nat /\ Cardinality(R) = (Cardinality(R) - 1) + 1
    BY <1>2
  <2> QED
    BY <2>1
<1>4. {W[k] : k \in 0 .. n} = R /\ W[n + 1] = NoId
  BY <1>3 DEF Line, Visits
<1>5. W[0] = c /\ \A k \in Nat : W[k + 1] = After(t, W[k])
  BY StepsDefined
<1> HIDE DEF R, W
<1>6. \A k \in 0 .. n : W[k] \in R
  BY <1>4
<1>7. \A k \in 0 .. n : W[k + 1] = t[W[k]].child
  BY <1>1, <1>5, <1>6 DEF After
<1>8. \A k \in 0 .. n : t[W[k]].child = NoId <=> k = n
  <2> SUFFICES ASSUME NEW k \in 0 .. n PROVE W[k + 1] = NoId <=> k = n
    BY <1>7
  <2>1. k # n => k + 1 \in 0 .. n
    OBVIOUS
  <2>2. k # n => W[k + 1] \in R
    BY <1>6, <2>1
  <2> QED
    BY <1>1, <1>4, <2>2
<1>9. \A r \in R : \E k \in 0 .. n : W[k] = r
  BY <1>4
<1> QED
  BY <1>1, <1>3, <1>4, <1>5, <1>6, <1>7, <1>8, <1>9 DEF R, W, Numbered

\* A line has one tail.
LEMMA OneTail ==
  ASSUME NEW t, NEW c, IsFiniteSet(DOMAIN t), NoId \notin DOMAIN t, Line(t, c)
  PROVE  /\ \E p \in RowsIn(t, c) : t[p].child = NoId
         /\ \A p, q \in RowsIn(t, c) : t[p].child = NoId /\ t[q].child = NoId => p = q
<1>1. PICK n \in Nat : Numbered(t, c, n)
  BY Walked
<1>2. n \in 0 .. n
  OBVIOUS
<1>3. \E p \in RowsIn(t, c) : t[p].child = NoId
  BY <1>1, <1>2 DEF Numbered
<1>4. \A p \in RowsIn(t, c) : t[p].child = NoId => p = Steps(t, c)[n]
  BY <1>1 DEF Numbered
<1> QED
  BY <1>3, <1>4

\* A chain whose root is its tail is no more than it.
LEMMA RootAlone ==
  ASSUME NEW t, NEW c, IsFiniteSet(DOMAIN t), NoId \notin DOMAIN t, Line(t, c),
         t[c].child = NoId
  PROVE  RowsIn(t, c) = {c}
<1>1. PICK n \in Nat : Numbered(t, c, n)
  BY Walked
<1>2. n = 0
  BY <1>1 DEF Numbered
<1> QED
  BY <1>1, <1>2 DEF Numbered

\* What changes neither the rows of a chain nor their links leaves it a line.
LEMMA SameLine ==
  ASSUME NEW t, NEW u, NEW c, IsFiniteSet(DOMAIN t), NoId \notin DOMAIN t, Line(t, c),
         RowsIn(u, c) = RowsIn(t, c),
         \A r \in RowsIn(t, c) : /\ u[r].parent = t[r].parent /\ u[r].child = t[r].child
                                 /\ u[r].target = t[r].target
  PROVE  Line(u, c)
<1> DEFINE R == RowsIn(t, c)
           V == Steps(t, c)
           W == Steps(u, c)
<1>0. PICK n \in Nat : Numbered(t, c, n)
  BY Walked
<1>1. /\ Cardinality(R) = n + 1
      /\ \A k \in 0 .. n : V[k] \in R
      /\ V[0] = c /\ V[n + 1] = NoId
      /\ \A k \in 0 .. n : V[k + 1] = t[V[k]].child
  BY <1>0 DEF Numbered
<1>2. W[0] = c /\ \A k \in Nat : W[k + 1] = After(u, W[k])
  BY StepsDefined
<1>3. R \subseteq DOMAIN u
  BY DEF RowsIn
<1>4. Linked(t, c, R) /\ Visits(t, c, R, n + 1)
  BY <1>1 DEF Line
<1>5. Linked(u, c, R)
  BY <1>4 DEF Linked
<1> HIDE DEF R, V, W
<1>6. \A k \in 0 .. n + 1 : W[k] = V[k]
  <2> DEFINE P == {k \in Nat : k <= n + 1 => W[k] = V[k]}
  <2>1. 0 \in P
    BY <1>1, <1>2
  <2>2. ASSUME NEW k \in Nat, k \in P PROVE k + 1 \in P
    <3> SUFFICES ASSUME k + 1 <= n + 1 PROVE W[k + 1] = V[k + 1]
      OBVIOUS
    <3>1. k \in 0 .. n /\ W[k] = V[k]
      BY <2>2
    <3>2. W[k + 1] = u[V[k]].child
      BY <1>1, <1>2, <1>3, <3>1 DEF After
    <3>3. V[k] \in R /\ V[k + 1] = t[V[k]].child
      BY <1>1, <3>1
    <3> QED
      BY <3>2, <3>3 DEF R
  <2> HIDE DEF P
  <2>3. \A k \in Nat : k \in P
    BY <2>1, <2>2, Counting
  <2> QED
    BY <2>3 DEF P
<1>7. Visits(u, c, R, n + 1)
  <2>1. (n + 1) - 1 = n /\ n + 1 \in 0 .. n + 1 /\ \A k \in 0 .. n : k \in 0 .. n + 1
    OBVIOUS
  <2>2. {V[k] : k \in 0 .. n} = R
    BY <1>4, <2>1 DEF Visits, V
  <2>3. {W[k] : k \in 0 .. n} = R
    BY <1>6, <2>1, <2>2
  <2>4. W[n + 1] = NoId
    BY <1>1, <1>6, <2>1
  <2> QED
    BY <2>1, <2>3, <2>4 DEF Visits, W
<1> QED
  BY <1>1, <1>5, <1>7 DEF Line, R

\* A new row behind the tail p makes the line longer by one.
LEMMA Appended ==
  ASSUME NEW t, NEW u, NEW c, NEW p, NEW x,
         IsFiniteSet(DOMAIN t), NoId \notin DOMAIN t, x # NoId, x \notin DOMAIN t, Line(t, c),
         p \in RowsIn(t, c), t[p].child = NoId,
         RowsIn(u, c) = RowsIn(t, c) \cup {x},
         \A r \in RowsIn(t, c) : /\ u[r].parent = t[r].parent /\ u[r].target = t[r].target
                                 /\ u[r].child = IF r = p THEN x ELSE t[r].child,
         u[x].parent = p, u[x].child = NoId, u[x].target = t[p].target
  PROVE  Line(u, c)
<1> DEFINE R == RowsIn(t, c)
           V == Steps(t, c)
           W == Steps(u, c)
<1>0. PICK n \in Nat : Numbered(t, c, n)
  BY Walked
<1>1. /\ Cardinality(R) = n + 1
      /\ \A k \in 0 .. n : V[k] \in R
      /\ \A r \in R : \E k \in 0 .. n : V[k] = r
      /\ V[0] = c
      /\ \A k \in 0 .. n : V[k + 1] = t[V[k]].child
      /\ \A k \in 0 .. n : t[V[k]].child = NoId <=> k = n
  BY <1>0 DEF Numbered
<1>2. W[0] = c /\ \A k \in Nat : W[k + 1] = After(u, W[k])
  BY StepsDefined
<1>3. R \cup {x} \subseteq DOMAIN u /\ R \subseteq DOMAIN t
  BY DEF RowsIn
<1>4. Linked(t, c, R)
  BY DEF Line
<1>5. Linked(u, c, R \cup {x})
  <2>1. c \in R /\ p \in R /\ x \notin R /\ NoId \notin R
    BY <1>3, <1>4 DEF Linked
  <2>2. u[c].parent = NoId /\ u[c].target = t[c].target
    BY <1>4, <2>1 DEF Linked
  <2> HIDE DEF R
  <2>3. ASSUME NEW r \in R
        PROVE  /\ u[r].target = u[c].target
               /\ r # c => u[r].parent \in R \cup {x} /\ u[u[r].parent].child = r
               /\ u[r].child # NoId => u[r].child \in R \cup {x} /\ u[u[r].child].parent = r
    <3>1. /\ t[r].target = t[c].target
          /\ r # c => t[r].parent \in R /\ t[t[r].parent].child = r
          /\ t[r].child # NoId => t[r].child \in R /\ t[t[r].child].parent = r
      BY <1>4 DEF Linked
    <3>2. /\ u[r].parent = t[r].parent /\ u[r].target = t[r].target
          /\ u[r].child = IF r = p THEN x ELSE t[r].child
      BY DEF R
    <3>3. r # c => u[r].parent \in R /\ u[u[r].parent].child = r
      <4> SUFFICES ASSUME r # c PROVE u[r].parent \in R /\ u[u[r].parent].child = r
        OBVIOUS
      <4>1. t[r].parent \in R /\ t[t[r].parent].child = r /\ r # NoId
        BY <2>1, <3>1
      <4>2. t[r].parent # p
        BY <4>1
      <4>3. u[t[r].parent].child = t[t[r].parent].child
        BY <4>1, <4>2 DEF R
      <4> QED
        BY <3>2, <4>1, <4>3
    <3>4. u[r].child # NoId => u[r].child \in R \cup {x} /\ u[u[r].child].parent = r
      <4>1. CASE r = p
        BY <3>2, <4>1
      <4>2. CASE r # p
        <5> SUFFICES ASSUME t[r].child # NoId PROVE u[t[r].child].parent = r
          BY <3>1, <3>2, <4>2
        <5>1. t[r].child \in R /\ t[t[r].child].parent = r
          BY <3>1
        <5> QED
          BY <5>1 DEF R
      <4> QED
        BY <4>1, <4>2
    <3> QED
      BY <2>2, <3>1, <3>2, <3>3, <3>4
  <2>4. u[x].target = u[c].target /\ u[u[x].parent].child = x
    <3>1. t[p].target = t[c].target
      BY <1>4, <2>1 DEF Linked
    <3>2. u[p].child = x
      BY <2>1 DEF R
    <3> QED
      BY <2>2, <3>1, <3>2
  <2> QED
    BY <2>1, <2>2, <2>3, <2>4 DEF Linked
<1> HIDE DEF R, V, W
<1>6. V[n] = p /\ n \in 0 .. n /\ \A k \in 0 .. n : V[k] = p => k = n
  <2>1. PICK j \in 0 .. n : V[j] = p
    BY <1>1 DEF R
  <2> QED
    BY <1>1, <2>1
<1>7. \A k \in 0 .. n : W[k] = V[k]
  <2> DEFINE P == {k \in Nat : k <= n => W[k] = V[k]}
  <2>1. 0 \in P
    BY <1>1, <1>2
  <2>2. ASSUME NEW k \in Nat, k \in P PROVE k + 1 \in P
    <3> SUFFICES ASSUME k + 1 <= n PROVE W[k + 1] = V[k + 1]
      OBVIOUS
    <3>1. k \in 0 .. n /\ k # n /\ W[k] = V[k]
      BY <2>2
    <3>2. V[k] \in R /\ V[k + 1] = t[V[k]].child /\ V[k] # p
      BY <1>1, <1>6, <3>1
    <3>3. W[k + 1] = u[V[k]].child
      BY <1>2, <1>3, <3>1, <3>2 DEF After
    <3> QED
      BY <3>2, <3>3 DEF R
  <2> HIDE DEF P
  <2>3. \A k \in Nat : k \in P
    BY <2>1, <2>2, Counting
  <2> QED
    BY <2>3 DEF P
<1>8. W[n + 1] = x
  <2>1. W[n] = p
    BY <1>6, <1>7
  <2> QED
    BY <1>2, <1>3, <2>1 DEF After, R
<1>9. W[n + 1 + 1] = NoId
  <2>1. n + 1 \in Nat
    OBVIOUS
  <2> QED
    BY <1>2, <1>3, <1>8, <2>1 DEF After
<1>10. Cardinality(R \cup {x}) = n + 1 + 1
  <2>1. IsFiniteSet(R) /\ x \notin R
    BY <1>3, FS_Subset
  <2>2. Cardinality(R \cup {x}) = Cardinality(R) + 1
    BY <2>1, FS_AddElement
  <2>3. Cardinality(R) = n + 1
    BY <1>1
  <2> QED
    BY <2>2, <2>3
<1>11. {W[k] : k \in 0 .. n + 1} = R \cup {x}
  <2>1. \A k \in 0 .. n + 1 : k \in 0 .. n \/ k = n + 1
    OBVIOUS
  <2>2. \A k \in 0 .. n : k \in 0 .. n + 1
    OBVIOUS
  <2>3. n + 1 \in 0 .. n + 1
    OBVIOUS
  <2>4. \A k \in 0 .. n + 1 : W[k] \in R \cup {x}
    BY <1>1, <1>7, <1>8, <2>1
  <2>5. \A r \in R \cup {x} : \E k \in 0 .. n + 1 : W[k] = r
    BY <1>1, <1>7, <1>8, <2>2, <2>3
  <2> QED
    BY <2>4, <2>5
<1>12. Visits(u, c, R \cup {x}, n + 1 + 1)
  <2>1. (n + 1 + 1) - 1 = n + 1
    OBVIOUS
  <2> QED
    BY <1>9, <1>11, <2>1 DEF Visits, W
<1> QED
  BY <1>5, <1>10, <1>12 DEF Line, R

\* A row without links is a line of its own.
LEMMA NewLine ==
  ASSUME NEW u, NEW x, x # NoId, RowsIn(u, x) = {x}, u[x].parent = NoId, u[x].child = NoId
  PROVE  Line(u, x)
<1>1. Steps(u, x)[0] = x /\ Steps(u, x)[0 + 1] = After(u, Steps(u, x)[0])
  BY StepsDefined
<1>2. x \in DOMAIN u
  BY DEF RowsIn
<1>3. Steps(u, x)[0] = x /\ Steps(u, x)[1] = NoId
  BY <1>1, <1>2 DEF After
<1>4. Linked(u, x, {x})
  BY DEF Linked
<1>5. Cardinality({x}) = 1
  BY FS_Singleton
<1>6. {Steps(u, x)[k] : k \in 0 .. 1 - 1} = {x}
  <2>1. 0 .. 1 - 1 = {0}
    OBVIOUS
  <2> QED
    BY <1>3, <2>1
<1> QED
  BY <1>3, <1>4, <1>5, <1>6 DEF Line, Visits

-----------------------------------------------------------------------------
(* The inductive invariant.                                                *)

\* The links and the walk of every chain.
LinksOK == \A r \in DOMAIN rows : ValidChain(rows[r].chain)

\* A chain has failed as a whole; else what has a child was continued, and no more.
StatesAgree ==
  \A r \in DOMAIN rows :
    /\ \A q \in ChainRows(rows[r].chain) :
         rows[r].state = "terminal_failure" <=> rows[q].state = "terminal_failure"
    /\ rows[r].state # "terminal_failure" => (rows[r].state = "continued" <=> rows[r].child # NoId)

\* A row is that of the request which made it.
RowsOfRequests ==
  \A r \in DOMAIN rows :
    /\ r \in DOMAIN req /\ r \in advanced
    /\ rows[r].target = req[r].target /\ rows[r].parent = req[r].parent
    /\ rows[r].state = "not_stored" <=> ~req[r].stored
    /\ First(r) \/ req[r].phase \notin {"running", "failing"}

\* A request that has a workspace to look after.
Keeps(r) == First(r) /\ req[r].stored /\ req[r].phase \in {"running", "failing", "releasing", "abandoning"}

\* Where a request can be, and what it has then.
RequestsOK ==
  \A r \in DOMAIN req :
    /\ req[r].phase \in InFlight => up
    /\ req[r].phase \in {"making", "releasing", "abandoning"} => First(r) /\ req[r].stored
    /\ First(r) \/ req[r].stored
    /\ req[r].phase = "making" => r \notin advanced
    /\ req[r].phase \in {"making", "running", "failing"} => ~req[r].ok
    /\ req[r].phase = "abandoning" => ~Has(r)
    /\ Keeps(r) => r \in dirs
    /\ First(r) /\ req[r].stored /\ req[r].phase = "running" /\ r \in advanced => Has(r)
    /\ req[r].phase = "releasing" /\ req[r].ok => Has(r)

\* Directories are those of stored first requests; none of a chain is missing.
DirsOK ==
  /\ \A c \in dirs : /\ c \in DOMAIN req /\ First(c) /\ req[c].stored
                     /\ faults = 0 /\ crashes = 0 => Has(c) \/ req[c].phase \in InFlight
  /\ \A r \in DOMAIN rows : req[r].stored => rows[r].chain \in dirs

\* A continuing row has one holder, or had one when the process died.
LeasesOK ==
  /\ \A s \in DOMAIN req : ~First(s) /\ req[s].phase \in {"running", "failing"} =>
       /\ Has(req[s].parent) /\ rows[req[s].parent].state = "continuing"
       /\ rows[req[s].parent].target = req[s].target
       /\ \A q \in Holders(req[s].parent) : q = s
  /\ \A p \in DOMAIN rows : rows[p].state = "continuing" =>
       \E s \in DOMAIN req :
         /\ req[s].parent = p
         /\ req[s].phase \in IF up THEN {"running", "failing"} ELSE {"lost"}

Due(c) == \A q \in ChainRows(c) : Expired(q) /\ rows[q].state # "continuing"

\* What a sweep has found stays due.
SweepOK ==
  /\ sweep # {} => up
  /\ \A c \in sweep : Has(c) /\ rows[c].chain = c /\ Due(c)
  /\ \A q \in hidden : Due(rows[q].chain) /\ (req[q].stored \/ rows[q].chain \in sweep)

\* Why a row has failed.
FailuresOK ==
  \A r \in DOMAIN rows : rows[r].state = "terminal_failure" =>
    \/ rows[r].child # NoId
    \/ /\ First(r) /\ req[r].phase \in {"refused", "releasing", "abandoning", "lost"}
       /\ req[r].phase = "releasing" => ~req[r].ok
    \/ \E s \in DOMAIN req : req[s].parent = r /\ (s \in advanced \/ req[s].phase = "lost")

IInv ==
  /\ TypeOK /\ IsFiniteSet(DOMAIN rows) /\ LinksOK /\ StatesAgree /\ RowsOfRequests /\ RequestsOK
  /\ DirsOK /\ LeasesOK /\ SweepOK /\ FailuresOK

\* What a change of phase leaves of the requests.
LEMMA Moved ==
  ASSUME NEW r \in DOMAIN req, NEW f, Goes(r, f),
         \A s \in DOMAIN req : req[s] \in Request,
         f \in InFlight \cup {"answered", "refused", "lost"}
  PROVE  /\ DOMAIN req' = DOMAIN req
         /\ \A s \in DOMAIN req :
              /\ req'[s] \in Request
              /\ req'[s].phase = IF s = r THEN f ELSE req[s].phase
              /\ req'[s].mode = req[s].mode /\ req'[s].stored = req[s].stored
              /\ req'[s].target = req[s].target /\ req'[s].parent = req[s].parent
              /\ req'[s].ok = req[s].ok
BY DEF Goes, Request

\* What a new request leaves of the others.
LEMMA Added ==
  ASSUME NEW r, NEW m \in Modes, NEW stored, NEW p \in Ids \cup {NoId}, NEW t \in Targets,
         NEW f \in InFlight \cup {"answered", "refused", "lost"},
         r \notin DOMAIN req, stored \in BOOLEAN,
         NewRequest(r, m, stored, p, t, f)
  PROVE  /\ DOMAIN req' = DOMAIN req \cup {r}
         /\ \A s \in DOMAIN req : req'[s] = req[s]
         /\ req'[r] \in Request
         /\ req'[r].phase = f /\ req'[r].mode = m /\ req'[r].stored = stored
         /\ req'[r].target = t /\ req'[r].parent = p /\ req'[r].ok = FALSE
BY DEF NewRequest, With, Request

\* Where only states and expiries change the links stand.
LEMMA LinksKept ==
  ASSUME IInv, DOMAIN rows' = DOMAIN rows,
         \A r \in DOMAIN rows :
           /\ rows'[r].chain = rows[r].chain /\ rows'[r].target = rows[r].target
           /\ rows'[r].parent = rows[r].parent /\ rows'[r].child = rows[r].child
  PROVE  LinksOK' /\ \A c : ChainRows(c)' = ChainRows(c)
<1>1. \A c : RowsIn(rows', c) = RowsIn(rows, c)
  BY DEF RowsIn
<1>2. \A c : ChainRows(c)' = ChainRows(c)
  BY <1>1, ChainsNow, ChainsNext
<1>3. IsFiniteSet(DOMAIN rows) /\ NoId \notin DOMAIN rows
  BY ResponseSessionsAssumption DEF IInv, TypeOK
<1>4. ASSUME NEW r \in DOMAIN rows' PROVE ValidChain(rows[r].chain)'
  <2>1. Line(rows, rows[r].chain)
    BY <1>4, ChainsNow DEF IInv, LinksOK
  <2>2. \A q \in RowsIn(rows, rows[r].chain) : q \in DOMAIN rows
    BY DEF RowsIn
  <2>3. Line(rows', rows[r].chain)
    BY <1>1, <1>3, <2>1, <2>2, SameLine
  <2>4. PICK c : c = rows[r].chain
    OBVIOUS
  <2>5. rows'[r].chain = c /\ Line(rows', c)
    BY <2>3, <2>4
  <2> QED
    BY <2>5, ChainsNext
<1> QED
  BY <1>2, <1>4 DEF LinksOK

\* The chain of a row, and its root.
LEMMA RootOfRow ==
  ASSUME IInv, NEW r \in DOMAIN rows
  PROVE  /\ r \in ChainRows(rows[r].chain)
         /\ rows[r].chain \in DOMAIN rows /\ rows[rows[r].chain].chain = rows[r].chain
         /\ rows[rows[r].chain].parent = NoId /\ First(rows[r].chain)
         /\ rows[rows[r].chain].target = rows[r].target
         /\ rows[r].parent = NoId => rows[r].chain = r
         /\ First(r) => rows[r].chain = r
         /\ rows[r].parent # NoId =>
              /\ rows[r].parent \in DOMAIN rows /\ rows[rows[r].parent].child = r
              /\ rows[rows[r].parent].chain = rows[r].chain
         /\ rows[r].child # NoId =>
              /\ rows[r].child \in DOMAIN rows /\ rows[rows[r].child].parent = r
              /\ rows[rows[r].child].chain = rows[r].chain
<1>1. ValidChain(rows[r].chain) /\ r \in ChainRows(rows[r].chain)
  BY DEF IInv, LinksOK, ChainRows
<1>2. \A q \in ChainRows(rows[r].chain) : q \in DOMAIN rows /\ rows[q].chain = rows[r].chain
  BY DEF ChainRows
<1>3. rows[r].chain \in ChainRows(rows[r].chain) /\ rows[rows[r].chain].parent = NoId
  BY <1>1 DEF ValidChain
<1>4. /\ rows[r].target = rows[rows[r].chain].target
      /\ r # rows[r].chain => /\ rows[r].parent \in ChainRows(rows[r].chain)
                              /\ rows[rows[r].parent].child = r
      /\ rows[r].child # NoId => /\ rows[r].child \in ChainRows(rows[r].chain)
                                 /\ rows[rows[r].child].parent = r
  BY <1>1 DEF ValidChain
<1>5. NoId \notin DOMAIN rows
  BY ResponseSessionsAssumption DEF IInv, TypeOK
<1>6. First(rows[r].chain) /\ rows[r].parent = req[r].parent
  BY <1>2, <1>3 DEF IInv, RowsOfRequests, First
<1> QED
  BY <1>1, <1>2, <1>3, <1>4, <1>5, <1>6 DEF First

\* What a table left alone keeps.
LEMMA SameRows ==
  ASSUME IInv, UNCHANGED rows
  PROVE  /\ IsFiniteSet(DOMAIN rows)' /\ LinksOK' /\ StatesAgree'
         /\ \A c : ChainRows(c)' = ChainRows(c)
<1>1. LinksOK' /\ \A c : ChainRows(c)' = ChainRows(c)
  BY LinksKept
<1>2. StatesAgree'
  BY DEF IInv, StatesAgree, ChainRows
<1> QED
  BY <1>1, <1>2 DEF IInv

\* Without some of the chains the others are what they were.
LEMMA Deleted ==
  ASSUME IInv, NEW C, DeleteChains(C)
  PROVE  /\ DOMAIN rows' = {q \in DOMAIN rows : rows[q].chain \notin C}
         /\ \A q \in DOMAIN rows' : rows'[q] = rows[q]
         /\ IsFiniteSet(DOMAIN rows)' /\ LinksOK' /\ StatesAgree'
         /\ \A c : c \notin C => ChainRows(c)' = ChainRows(c)
<1>1. /\ DOMAIN rows' = {q \in DOMAIN rows : rows[q].chain \notin C}
      /\ \A q \in DOMAIN rows' : rows'[q] = rows[q]
  BY DEF DeleteChains, Restrict
<1>2. \A c : c \notin C => RowsIn(rows', c) = RowsIn(rows, c)
  BY <1>1 DEF RowsIn
<1>3. \A c : c \notin C => ChainRows(c)' = ChainRows(c)
  BY <1>2, ChainsNow, ChainsNext
<1>4. IsFiniteSet(DOMAIN rows')
  BY <1>1, FS_Subset DEF IInv
<1>5. IsFiniteSet(DOMAIN rows) /\ NoId \notin DOMAIN rows
  BY ResponseSessionsAssumption DEF IInv, TypeOK
<1>6. ASSUME NEW r \in DOMAIN rows' PROVE ValidChain(rows[r].chain)'
  <2>1. PICK c : c = rows[r].chain
    OBVIOUS
  <2>2. r \in DOMAIN rows /\ c \notin C /\ rows'[r].chain = c
    BY <1>1, <2>1
  <2>3. Line(rows, c)
    BY <2>1, <2>2, ChainsNow DEF IInv, LinksOK
  <2>4. \A q \in RowsIn(rows, c) : rows'[q] = rows[q]
    BY <1>1, <2>2 DEF RowsIn
  <2>5. Line(rows', c)
    BY <1>2, <1>5, <2>2, <2>3, <2>4, SameLine
  <2> QED
    BY <2>2, <2>5, ChainsNext
<1>7. StatesAgree'
  <2> SUFFICES ASSUME NEW r \in DOMAIN rows'
               PROVE  /\ \A q \in DOMAIN rows' : rows'[q].chain = rows'[r].chain =>
                           (rows'[r].state = "terminal_failure" <=> rows'[q].state = "terminal_failure")
                      /\ rows'[r].state # "terminal_failure" =>
                           (rows'[r].state = "continued" <=> rows'[r].child # NoId)
    BY DEF StatesAgree, ChainRows
  <2>1. r \in DOMAIN rows /\ rows'[r] = rows[r]
    BY <1>1
  <2> QED
    BY <1>1, <2>1 DEF IInv, StatesAgree, ChainRows
<1> QED
  BY <1>1, <1>3, <1>4, <1>6, <1>7 DEF LinksOK

\* Where the continuing rows and their holders stand the leases do.
LEMMA LeasesKept ==
  ASSUME LeasesOK, up' = up, DOMAIN req \subseteq DOMAIN req',
         \A p \in DOMAIN rows : rows[p].state = "continuing" =>
           p \in DOMAIN rows' /\ rows'[p].state = "continuing" /\ rows'[p].target = rows[p].target,
         \A p \in DOMAIN rows' : rows'[p].state = "continuing" =>
           p \in DOMAIN rows /\ rows[p].state = "continuing",
         \A s \in DOMAIN req : req'[s].parent = req[s].parent /\ req'[s].target = req[s].target,
         \A s \in DOMAIN req : ~First(s) =>
           /\ req'[s].phase \in {"running", "failing"} <=> req[s].phase \in {"running", "failing"}
           /\ req[s].phase = "lost" => req'[s].phase = "lost",
         \A s \in DOMAIN req' : s \in DOMAIN req \/ req'[s].parent = NoId
                                  \/ req'[s].phase = "refused",
         NoId \notin DOMAIN rows
  PROVE  LeasesOK'
<1>1. ASSUME NEW s \in DOMAIN req', ~First(s)', req'[s].phase \in {"running", "failing"}
      PROVE  /\ Has(req[s].parent)' /\ rows'[req'[s].parent].state = "continuing"
             /\ rows'[req'[s].parent].target = req'[s].target
             /\ \A q \in Holders(req[s].parent)' : q = s
  <2>1. s \in DOMAIN req /\ ~First(s) /\ req[s].phase \in {"running", "failing"}
    BY <1>1 DEF First
  <2>2. \A q \in Holders(req[s].parent)' : q \in Holders(req[s].parent)
    <3> SUFFICES ASSUME NEW q \in Holders(req[s].parent)' PROVE q \in Holders(req[s].parent)
      OBVIOUS
    <3>1. /\ q \in DOMAIN req' /\ req'[q].parent = req[s].parent
          /\ req'[q].phase \in {"running", "failing"}
      BY <2>1 DEF Holders
    <3> QED
      BY <2>1, <3>1 DEF Holders, First
  <2> QED
    BY <2>1, <2>2 DEF LeasesOK, Has
<1>2. ASSUME NEW p \in DOMAIN rows', rows'[p].state = "continuing"
      PROVE  \E s \in DOMAIN req' :
               /\ req'[s].parent = p
               /\ req'[s].phase \in IF up' THEN {"running", "failing"} ELSE {"lost"}
  <2>1. PICK s \in DOMAIN req : /\ req[s].parent = p
                                /\ req[s].phase \in IF up THEN {"running", "failing"} ELSE {"lost"}
    BY <1>2 DEF LeasesOK
  <2>2. ~First(s)
    BY <1>2, <2>1 DEF First
  <2> QED
    BY <2>1, <2>2
<1> QED
  BY <1>1, <1>2 DEF LeasesOK

\* The reasons for a failure last.
LEMMA FailuresKept ==
  ASSUME FailuresOK, DOMAIN req \subseteq DOMAIN req', advanced \subseteq advanced',
         \A p \in DOMAIN rows' : rows'[p].state = "terminal_failure" =>
           /\ p \in DOMAIN rows /\ rows[p].state = "terminal_failure"
           /\ rows[p].child # NoId => rows'[p].child # NoId,
         \A s \in DOMAIN req : req'[s].parent = req[s].parent,
         \A s \in DOMAIN req : req[s].phase = "lost" => req'[s].phase = "lost",
         \A p \in DOMAIN rows' :
           First(p) /\ req[p].phase \in {"refused", "releasing", "abandoning", "lost"}
             /\ (req[p].phase = "releasing" => ~req[p].ok)
           => /\ req'[p].phase \in {"refused", "releasing", "abandoning", "lost"}
              /\ req'[p].phase = "releasing" => ~req'[p].ok,
         \A p \in DOMAIN rows' : p \in DOMAIN req
  PROVE  FailuresOK'
<1> SUFFICES ASSUME NEW p \in DOMAIN rows', rows'[p].state = "terminal_failure"
             PROVE  \/ rows'[p].child # NoId
                    \/ /\ First(p)'
                       /\ req'[p].phase \in {"refused", "releasing", "abandoning", "lost"}
                       /\ req'[p].phase = "releasing" => ~req'[p].ok
                    \/ \E s \in DOMAIN req' :
                         req'[s].parent = p /\ (s \in advanced' \/ req'[s].phase = "lost")
  BY DEF FailuresOK
<1>1. p \in DOMAIN rows /\ rows[p].state = "terminal_failure"
  OBVIOUS
<1>2. CASE rows[p].child # NoId
  BY <1>1, <1>2
<1>3. CASE /\ First(p) /\ req[p].phase \in {"refused", "releasing", "abandoning", "lost"}
           /\ req[p].phase = "releasing" => ~req[p].ok
  BY <1>1, <1>3 DEF First
<1>4. CASE \E s \in DOMAIN req : req[s].parent = p /\ (s \in advanced \/ req[s].phase = "lost")
  <2>1. PICK s \in DOMAIN req : req[s].parent = p /\ (s \in advanced \/ req[s].phase = "lost")
    BY <1>4
  <2> QED
    BY <2>1
<1> QED
  BY <1>1, <1>2, <1>3, <1>4 DEF FailuresOK

\* createResponse succeeds or fails.
LEMMA MakeWorkspaceKeeps ==
  ASSUME IInv, NEW r \in Ids, MakeWorkspace(r)
  PROVE  IInv'
<1>1. /\ r \in DOMAIN req /\ up /\ req[r].phase = "making" /\ up' = up
      /\ UNCHANGED <<rows, now, hidden, prompted, advanced, sweep, up, crashes>>
  BY DEF MakeWorkspace, Is, Submitted, runVars, procVars
<1>2. First(r) /\ req[r].stored /\ r \notin advanced /\ ~req[r].ok /\ ~Has(r)
  BY <1>1 DEF IInv, RequestsOK, RowsOfRequests, Has
<1>3. /\ DOMAIN rows \subseteq Ids /\ \A q \in DOMAIN rows : rows[q] \in Row
      /\ DOMAIN req \subseteq Ids /\ \A s \in DOMAIN req : req[s] \in Request
      /\ NoId \notin DOMAIN rows
  BY ResponseSessionsAssumption DEF IInv, TypeOK
<1>4. PICK f \in {"running", "refused"} :
        /\ Goes(r, f)
        /\ f = "running" => dirs' = dirs \cup {r} /\ UNCHANGED faults
        /\ f = "refused" => Fault /\ UNCHANGED dirs
  BY DEF MakeWorkspace
<1>5. /\ DOMAIN req' = DOMAIN req
      /\ \A s \in DOMAIN req :
           /\ req'[s] \in Request
           /\ req'[s].phase = IF s = r THEN f ELSE req[s].phase
           /\ req'[s].mode = req[s].mode /\ req'[s].stored = req[s].stored
           /\ req'[s].target = req[s].target /\ req'[s].parent = req[s].parent
           /\ req'[s].ok = req[s].ok
  BY <1>1, <1>3, <1>4, Moved DEF InFlight
<1>6. /\ IsFiniteSet(DOMAIN rows)' /\ LinksOK' /\ StatesAgree'
      /\ \A c : ChainRows(c)' = ChainRows(c)
  BY <1>1, SameRows
<1>7. TypeOK'
  <2>1. announced' \subseteq announced \cup {r}
    BY DEF MakeWorkspace, Begins
  <2>2. faults' \in 0 .. MaxFaults
    BY <1>4, ResponsesAssumption DEF IInv, TypeOK, Fault
  <2> QED
    BY <1>1, <1>3, <1>4, <1>5, <2>1, <2>2 DEF IInv, TypeOK
<1>8. RowsOfRequests'
  BY <1>1, <1>2, <1>5 DEF IInv, RowsOfRequests, First, Has
<1>9. RequestsOK'
  BY <1>1, <1>2, <1>4, <1>5 DEF IInv, RequestsOK, First, Has, Keeps, InFlight
<1>10. DirsOK'
  <2>1. faults' = 0 => faults = 0 /\ f = "running"
    BY <1>4 DEF Fault, IInv, TypeOK
  <2> QED
    BY <1>1, <1>2, <1>4, <1>5, <2>1 DEF IInv, DirsOK, RowsOfRequests, First, Has, InFlight
<1>11. LeasesOK'
  BY <1>1, <1>2, <1>3, <1>5, LeasesKept DEF IInv
<1>12. SweepOK'
  BY <1>1, <1>5, <1>6 DEF IInv, SweepOK, TypeOK, RowsOfRequests, Due, Has, Expired
<1>13. FailuresOK'
  BY <1>1, <1>2, <1>5, FailuresKept DEF IInv, RowsOfRequests, First, Has
<1> QED
  BY <1>6, <1>7, <1>8, <1>9, <1>10, <1>11, <1>12, <1>13 DEF IInv

\* The prompt reaches the provider's process.
LEMMA PromptKeeps ==
  ASSUME IInv, NEW r \in Ids, Prompt(r)
  PROVE  IInv'
<1>1. /\ r \in DOMAIN req /\ prompted' = prompted \cup {r}
      /\ UNCHANGED <<rows, now, hidden, req, advanced, announced, dirs, sweep, faults, up, crashes>>
  BY DEF Prompt, Is, Submitted, procVars
<1>2. NoId \notin DOMAIN rows
  BY ResponseSessionsAssumption DEF IInv, TypeOK
<1>3. /\ IsFiniteSet(DOMAIN rows)' /\ LinksOK' /\ StatesAgree'
      /\ \A c : ChainRows(c)' = ChainRows(c)
  BY <1>1, SameRows
<1>4. TypeOK'
  BY <1>1 DEF IInv, TypeOK
<1>5. RowsOfRequests' /\ DirsOK'
  BY <1>1 DEF IInv, RowsOfRequests, DirsOK, First, Has
<1>6. RequestsOK'
  BY <1>1 DEF IInv, RequestsOK, First, Has, Keeps
<1>7. LeasesOK'
  BY <1>1, <1>2, LeasesKept DEF IInv
<1>8. SweepOK'
  BY <1>1, <1>3 DEF IInv, SweepOK, Due, Has, Expired
<1>9. FailuresOK'
  BY <1>1, FailuresKept DEF IInv, RowsOfRequests
<1> QED
  BY <1>3, <1>4, <1>5, <1>6, <1>7, <1>8, <1>9 DEF IInv

\* The run fails, and the adapter may tell that the native state has advanced.
LEMMA FailKeeps ==
  ASSUME IInv, NEW r \in Ids, Fail(r)
  PROVE  IInv'
<1>1. /\ r \in DOMAIN req /\ up /\ req[r].phase = "running" /\ Goes(r, "failing")
      /\ UNCHANGED <<rows, now, hidden, prompted, announced, dirs, sweep, faults, up, crashes>>
  BY DEF Fail, Is, Submitted, procVars
<1>2. advanced \subseteq advanced' /\ advanced' \subseteq advanced \cup ({r} \cap prompted)
  BY DEF Fail
<1>3. /\ DOMAIN rows \subseteq Ids /\ \A s \in DOMAIN req : req[s] \in Request
      /\ NoId \notin DOMAIN rows
  BY ResponseSessionsAssumption DEF IInv, TypeOK
<1>4. /\ DOMAIN req' = DOMAIN req
      /\ \A s \in DOMAIN req :
           /\ req'[s] \in Request
           /\ req'[s].phase = IF s = r THEN "failing" ELSE req[s].phase
           /\ req'[s].mode = req[s].mode /\ req'[s].stored = req[s].stored
           /\ req'[s].target = req[s].target /\ req'[s].parent = req[s].parent
           /\ req'[s].ok = req[s].ok
  BY <1>1, <1>3, Moved DEF InFlight
<1>5. /\ IsFiniteSet(DOMAIN rows)' /\ LinksOK' /\ StatesAgree'
      /\ \A c : ChainRows(c)' = ChainRows(c)
  BY <1>1, SameRows
<1>6. TypeOK'
  BY <1>1, <1>2, <1>4 DEF IInv, TypeOK
<1>7. RowsOfRequests'
  BY <1>1, <1>2, <1>4 DEF IInv, RowsOfRequests, First
<1>8. RequestsOK'
  BY <1>1, <1>2, <1>4 DEF IInv, RequestsOK, First, Has, Keeps, InFlight
<1>9. DirsOK'
  BY <1>1, <1>4 DEF IInv, DirsOK, RowsOfRequests, First, Has, InFlight
<1>10. LeasesOK'
  BY <1>1, <1>3, <1>4, LeasesKept DEF IInv
<1>11. SweepOK'
  BY <1>1, <1>4, <1>5 DEF IInv, SweepOK, TypeOK, RowsOfRequests, Due, Has, Expired
<1>12. FailuresOK'
  BY <1>1, <1>2, <1>4, FailuresKept DEF IInv, RowsOfRequests
<1> QED
  BY <1>5, <1>6, <1>7, <1>8, <1>9, <1>10, <1>11, <1>12 DEF IInv

\* The lease is released, and what was not persisted is abandoned.
LEMMA ReleaseKeeps ==
  ASSUME IInv, NEW r \in Ids, Release(r)
  PROVE  IInv'
<1>1. /\ r \in DOMAIN req /\ up /\ req[r].phase = "releasing"
      /\ UNCHANGED <<rows, now, hidden, prompted, advanced, dirs, sweep, faults, up, crashes>>
  BY DEF Release, Is, Submitted, runVars, procVars
<1>2. First(r) /\ req[r].stored /\ (req[r].ok => Has(r))
  BY <1>1 DEF IInv, RequestsOK
<1>3. /\ DOMAIN rows \subseteq Ids /\ \A s \in DOMAIN req : req[s] \in Request
      /\ NoId \notin DOMAIN rows
  BY ResponseSessionsAssumption DEF IInv, TypeOK
<1>4. PICK f \in {"answered", "refused", "abandoning"} :
        /\ Goes(r, f)
        /\ f = "abandoning" <=> ~req[r].ok /\ ~Has(r)
        /\ f = "answered" => req[r].ok
  BY DEF Release, Answers, Persisted
<1>5. /\ DOMAIN req' = DOMAIN req
      /\ \A s \in DOMAIN req :
           /\ req'[s] \in Request
           /\ req'[s].phase = IF s = r THEN f ELSE req[s].phase
           /\ req'[s].mode = req[s].mode /\ req'[s].stored = req[s].stored
           /\ req'[s].target = req[s].target /\ req'[s].parent = req[s].parent
           /\ req'[s].ok = req[s].ok
  BY <1>1, <1>3, <1>4, Moved DEF InFlight
<1>6. /\ IsFiniteSet(DOMAIN rows)' /\ LinksOK' /\ StatesAgree'
      /\ \A c : ChainRows(c)' = ChainRows(c)
  BY <1>1, SameRows
<1>7. TypeOK'
  <2>1. announced' \subseteq announced \cup {r}
    BY DEF Release, Answers
  <2> QED
    BY <1>1, <1>5, <2>1 DEF IInv, TypeOK
<1>8. RowsOfRequests'
  BY <1>1, <1>5 DEF IInv, RowsOfRequests, First
<1>9. RequestsOK'
  BY <1>1, <1>2, <1>4, <1>5 DEF IInv, RequestsOK, First, Has, Keeps, InFlight
<1>10. DirsOK'
  BY <1>1, <1>2, <1>4, <1>5 DEF IInv, DirsOK, RowsOfRequests, First, Has, InFlight
<1>11. LeasesOK'
  BY <1>1, <1>2, <1>3, <1>5, LeasesKept DEF IInv
<1>12. SweepOK'
  BY <1>1, <1>5, <1>6 DEF IInv, SweepOK, TypeOK, RowsOfRequests, Due, Has, Expired
<1>13. FailuresOK'
  BY <1>1, <1>4, <1>5, FailuresKept DEF IInv, RowsOfRequests, First
<1> QED
  BY <1>6, <1>7, <1>8, <1>9, <1>10, <1>11, <1>12, <1>13 DEF IInv

\* The abandoned workspace is cleaned, or a fault spares it.
LEMMA AbandonKeeps ==
  ASSUME IInv, NEW r \in Ids, Abandon(r)
  PROVE  IInv'
<1>1. /\ r \in DOMAIN req /\ up /\ req[r].phase = "abandoning" /\ Goes(r, "refused")
      /\ (dirs' = dirs \ {r} /\ UNCHANGED faults) \/ (Fault /\ UNCHANGED dirs)
      /\ UNCHANGED <<rows, now, hidden, prompted, advanced, announced, sweep, up, crashes>>
  BY DEF Abandon, Is, Submitted, runVars, procVars
<1>2. First(r) /\ req[r].stored /\ ~Has(r)
  BY <1>1 DEF IInv, RequestsOK
<1>3. /\ DOMAIN rows \subseteq Ids /\ \A s \in DOMAIN req : req[s] \in Request
      /\ NoId \notin DOMAIN rows
  BY ResponseSessionsAssumption DEF IInv, TypeOK
<1>4. /\ DOMAIN req' = DOMAIN req
      /\ \A s \in DOMAIN req :
           /\ req'[s] \in Request
           /\ req'[s].phase = IF s = r THEN "refused" ELSE req[s].phase
           /\ req'[s].mode = req[s].mode /\ req'[s].stored = req[s].stored
           /\ req'[s].target = req[s].target /\ req'[s].parent = req[s].parent
           /\ req'[s].ok = req[s].ok
  BY <1>1, <1>3, Moved DEF InFlight
<1>5. /\ IsFiniteSet(DOMAIN rows)' /\ LinksOK' /\ StatesAgree'
      /\ \A c : ChainRows(c)' = ChainRows(c)
  BY <1>1, SameRows
<1>6. TypeOK'
  <2>1. faults' \in 0 .. MaxFaults /\ dirs' \subseteq dirs
    BY <1>1, ResponsesAssumption DEF IInv, TypeOK, Fault
  <2> QED
    BY <1>1, <1>4, <2>1 DEF IInv, TypeOK
<1>7. RowsOfRequests'
  BY <1>1, <1>4 DEF IInv, RowsOfRequests, First
<1>8. RequestsOK'
  BY <1>1, <1>2, <1>4 DEF IInv, RequestsOK, First, Has, Keeps, InFlight
<1>9. DirsOK'
  <2>1. \A q \in DOMAIN rows : rows[q].chain # r
    BY <1>2, RootOfRow DEF Has
  <2>2. faults' = 0 => faults = 0 /\ dirs' = dirs \ {r}
    BY <1>1 DEF Fault, IInv, TypeOK
  <2> QED
    BY <1>1, <1>2, <1>4, <2>1, <2>2 DEF IInv, DirsOK, RowsOfRequests, First, Has, InFlight
<1>10. LeasesOK'
  BY <1>1, <1>2, <1>3, <1>4, LeasesKept DEF IInv
<1>11. SweepOK'
  BY <1>1, <1>4, <1>5 DEF IInv, SweepOK, TypeOK, RowsOfRequests, Due, Has, Expired
<1>12. FailuresOK'
  BY <1>1, <1>4, FailuresKept DEF IInv, RowsOfRequests
<1> QED
  BY <1>5, <1>6, <1>7, <1>8, <1>9, <1>10, <1>11, <1>12 DEF IInv

\* What is due stays due.
LEMMA TickKeeps ==
  ASSUME IInv, Tick
  PROVE  IInv'
<1>1. /\ now < MaxTime /\ now' = now + 1
      /\ UNCHANGED <<rows, hidden, req, prompted, advanced, announced, dirs, sweep, faults, up, crashes>>
  BY DEF Tick, runVars, procVars
<1>2. /\ NoId \notin DOMAIN rows /\ \A q \in DOMAIN rows : rows[q] \in Row
      /\ now \in Nat /\ now' \in 0 .. MaxTime
  BY <1>1, ResponseSessionsAssumption DEF IInv, TypeOK
<1>3. /\ IsFiniteSet(DOMAIN rows)' /\ LinksOK' /\ StatesAgree'
      /\ \A c : ChainRows(c)' = ChainRows(c)
  BY <1>1, SameRows
<1>4. TypeOK'
  BY <1>1, <1>2 DEF IInv, TypeOK
<1>5. RowsOfRequests' /\ DirsOK'
  BY <1>1 DEF IInv, RowsOfRequests, DirsOK, First, Has
<1>6. RequestsOK'
  BY <1>1 DEF IInv, RequestsOK, First, Has, Keeps
<1>7. LeasesOK'
  BY <1>1, <1>2, LeasesKept DEF IInv
<1>8. SweepOK'
  <2>1. \A q \in DOMAIN rows : Expired(q) => Expired(q)'
    BY <1>1, <1>2, ResponseSessionsAssumption DEF Expired, Row
  <2>2. \A c : Due(c) => Due(c)'
    BY <1>1, <1>3, <2>1 DEF Due, ChainRows
  <2> QED
    BY <1>1, <2>2 DEF IInv, SweepOK, Has
<1>9. FailuresOK'
  BY <1>1, FailuresKept DEF IInv, RowsOfRequests
<1> QED
  BY <1>3, <1>4, <1>5, <1>6, <1>7, <1>8, <1>9 DEF IInv

\* The process dies: what was in flight is lost, the table and the directories stay.
LEMMA CrashKeeps ==
  ASSUME IInv, Crash
  PROVE  IInv'
<1>1. /\ up /\ ~up' /\ up' = FALSE /\ crashes' = crashes + 1 /\ crashes < MaxCrashes
      /\ hidden' = {} /\ sweep' = {}
      /\ UNCHANGED <<rows, now, prompted, advanced, announced, dirs, faults>>
  BY DEF Crash, runVars
<1>2. /\ DOMAIN rows \subseteq Ids /\ \A s \in DOMAIN req : req[s] \in Request
      /\ NoId \notin DOMAIN rows /\ crashes \in Nat
  BY ResponseSessionsAssumption, ResponsesAssumption DEF IInv, TypeOK
<1>3. /\ DOMAIN req' = DOMAIN req
      /\ \A s \in DOMAIN req :
           /\ req'[s] \in Request
           /\ req'[s].phase = IF req[s].phase \in InFlight THEN "lost" ELSE req[s].phase
           /\ req'[s].mode = req[s].mode /\ req'[s].stored = req[s].stored
           /\ req'[s].target = req[s].target /\ req'[s].parent = req[s].parent
           /\ req'[s].ok = req[s].ok
  BY <1>2 DEF Crash, Request
<1>4. /\ IsFiniteSet(DOMAIN rows)' /\ LinksOK' /\ StatesAgree'
  BY <1>1, SameRows
<1>5. TypeOK'
  <2>1. crashes' \in 0 .. MaxCrashes
    BY <1>1, <1>2, ResponsesAssumption
  <2> QED
    BY <1>1, <1>3, <2>1 DEF IInv, TypeOK
<1>6. RowsOfRequests'
  BY <1>1, <1>3 DEF IInv, RowsOfRequests, First, InFlight
<1>7. RequestsOK'
  BY <1>1, <1>3 DEF IInv, RequestsOK, First, Has, Keeps, InFlight
<1>8. DirsOK'
  <2>1. crashes' # 0
    BY <1>1, <1>2
  <2> QED
    BY <1>1, <1>3, <2>1 DEF IInv, DirsOK, RowsOfRequests, First
<1>9. LeasesOK'
  <2>1. \A s \in DOMAIN req' : req'[s].phase \notin {"running", "failing"}
    BY <1>3 DEF InFlight
  <2>2. ASSUME NEW p \in DOMAIN rows, rows[p].state = "continuing"
        PROVE  \E s \in DOMAIN req : req'[s].parent = p /\ req'[s].phase = "lost"
    <3>1. PICK s \in DOMAIN req : req[s].parent = p /\ req[s].phase \in {"running", "failing"}
      BY <1>1, <2>2 DEF IInv, LeasesOK
    <3> QED
      BY <1>3, <3>1 DEF InFlight
  <2> QED
    BY <1>1, <1>3, <2>1, <2>2 DEF LeasesOK
<1>10. SweepOK'
  BY <1>1 DEF SweepOK
<1>11. FailuresOK'
  BY <1>1, <1>3, FailuresKept DEF IInv, RowsOfRequests, InFlight
<1> QED
  BY <1>4, <1>5, <1>6, <1>7, <1>8, <1>9, <1>10, <1>11 DEF IInv

\* A first request begins.
LEMMA SubmitFirstKeeps ==
  ASSUME IInv, NEW r \in Ids, NEW m \in Modes, NEW stored \in BOOLEAN, NEW t \in Targets,
         SubmitFirst(r, m, stored, t)
  PROVE  IInv'
<1>1. /\ up /\ r \notin DOMAIN req
      /\ UNCHANGED <<rows, now, hidden, prompted, advanced, dirs, sweep, faults, up, crashes>>
  BY DEF SubmitFirst, Submitted, runVars, procVars
<1>2. PICK f \in {"making", "running"} :
        NewRequest(r, m, stored, NoId, t, f) /\ (f = "making" <=> stored)
  BY DEF SubmitFirst
<1>3. /\ DOMAIN req' = DOMAIN req \cup {r} /\ \A s \in DOMAIN req : req'[s] = req[s]
      /\ req'[r] \in Request /\ req'[r].phase = f /\ req'[r].stored = stored
      /\ req'[r].parent = NoId /\ req'[r].ok = FALSE
  <2>1. f \in InFlight \cup {"answered", "refused", "lost"} /\ NoId \in Ids \cup {NoId}
    BY DEF InFlight
  <2>2. NewRequest(r, m, stored, NoId, t, f) /\ r \notin DOMAIN req
    BY <1>1, <1>2
  <2> QED
    BY <2>1, <2>2, Added
<1>4. /\ NoId \notin DOMAIN rows /\ r \notin DOMAIN rows /\ r \notin advanced
      /\ \A s \in DOMAIN req : s # r
  BY <1>1, ResponseSessionsAssumption DEF IInv, TypeOK, RowsOfRequests
<1>5. /\ IsFiniteSet(DOMAIN rows)' /\ LinksOK' /\ StatesAgree'
      /\ \A c : ChainRows(c)' = ChainRows(c)
  BY <1>1, SameRows
<1>6. TypeOK'
  <2>1. announced' \subseteq announced \cup {r}
    BY DEF SubmitFirst, Begins
  <2> QED
    BY <1>1, <1>3, <2>1 DEF IInv, TypeOK
<1>7. RowsOfRequests'
  BY <1>1, <1>3 DEF IInv, RowsOfRequests, First
<1>8. RequestsOK'
  BY <1>1, <1>2, <1>3, <1>4 DEF IInv, RequestsOK, First, Has, Keeps, InFlight
<1>9. DirsOK'
  BY <1>1, <1>3 DEF IInv, DirsOK, RowsOfRequests, First, Has
<1>10. LeasesOK'
  BY <1>1, <1>3, <1>4, LeasesKept DEF IInv
<1>11. SweepOK'
  BY <1>1, <1>3, <1>5 DEF IInv, SweepOK, TypeOK, RowsOfRequests, Due, Has, Expired
<1>12. FailuresOK'
  BY <1>1, <1>3, FailuresKept DEF IInv, RowsOfRequests
<1> QED
  BY <1>5, <1>6, <1>7, <1>8, <1>9, <1>10, <1>11, <1>12 DEF IInv

\* A continuation is refused, or locks the tail of its chain.
LEMMA SubmitContinuationKeeps ==
  ASSUME IInv, NEW r \in Ids, NEW m \in Modes, NEW p \in Ids, NEW t \in Targets,
         SubmitContinuation(r, m, p, t)
  PROVE  IInv'
<1>1. /\ up /\ r \notin DOMAIN req
      /\ UNCHANGED <<now, hidden, prompted, advanced, dirs, sweep, faults, up, crashes>>
  BY DEF SubmitContinuation, Submitted, runVars, procVars
<1>2. PICK f \in {"running", "refused"} :
        /\ NewRequest(r, m, TRUE, p, t, f)
        /\ f = "refused" => UNCHANGED rows
        /\ f = "running" => AcquireContinuation(p, t)
  BY DEF SubmitContinuation
<1>3. /\ DOMAIN req' = DOMAIN req \cup {r} /\ \A s \in DOMAIN req : req'[s] = req[s]
      /\ req'[r] \in Request /\ req'[r].phase = f /\ req'[r].stored = TRUE
      /\ req'[r].parent = p /\ req'[r].target = t /\ req'[r].ok = FALSE
  <2>1. f \in InFlight \cup {"answered", "refused", "lost"} /\ p \in Ids \cup {NoId}
    BY DEF InFlight
  <2> QED
    BY <1>1, <1>2, <2>1, Added
<1>4. /\ NoId \notin DOMAIN rows /\ r \notin DOMAIN rows /\ r \notin advanced /\ p # NoId
      /\ \A s \in DOMAIN req : s # r
      /\ \A q \in DOMAIN rows : rows[q] \in Row
  BY <1>1, ResponseSessionsAssumption DEF IInv, TypeOK, RowsOfRequests
<1>5. f = "running" =>
        /\ p \in DOMAIN rows /\ rows[p].state = "open" /\ ~Expired(p) /\ rows[p].target = t
        /\ rows[p].child = NoId
        /\ rows' = [rows EXCEPT ![p].state = "continuing"]
  BY <1>2 DEF AcquireContinuation, CanAcquire, ActiveTail, Has
<1>6. /\ DOMAIN rows' = DOMAIN rows
      /\ \A q \in DOMAIN rows :
           /\ rows'[q].chain = rows[q].chain /\ rows'[q].target = rows[q].target
           /\ rows'[q].parent = rows[q].parent /\ rows'[q].child = rows[q].child
           /\ rows'[q].expires = rows[q].expires
           /\ rows'[q].state = IF f = "running" /\ q = p THEN "continuing" ELSE rows[q].state
           /\ rows'[q] \in Row
  BY <1>2, <1>4, <1>5 DEF Row, States
<1>7. LinksOK' /\ \A c : ChainRows(c)' = ChainRows(c)
  BY <1>6, LinksKept
<1>8. StatesAgree'
  BY <1>4, <1>5, <1>6 DEF IInv, StatesAgree, ChainRows
<1>9. TypeOK'
  <2>1. announced' \subseteq announced \cup {r}
    BY DEF SubmitContinuation, Begins
  <2> QED
    BY <1>1, <1>3, <1>6, <2>1 DEF IInv, TypeOK
<1>10. RowsOfRequests'
  BY <1>1, <1>3, <1>5, <1>6 DEF IInv, RowsOfRequests, First
<1>11. RequestsOK'
  BY <1>1, <1>2, <1>3, <1>4, <1>6 DEF IInv, RequestsOK, First, Has, Keeps, InFlight
<1>12. DirsOK'
  BY <1>1, <1>3, <1>6 DEF IInv, DirsOK, RowsOfRequests, First, Has
<1>13. LeasesOK'
  <2>1. CASE f = "refused"
    BY <1>1, <1>3, <1>4, <1>6, <2>1, LeasesKept DEF IInv
  <2>2. CASE f = "running"
    <3>1. \A s \in DOMAIN req : ~First(s) /\ req[s].phase \in {"running", "failing"} => req[s].parent # p
      BY <1>5, <2>2 DEF IInv, LeasesOK
    <3>2. ASSUME NEW s \in DOMAIN req', ~First(s)', req'[s].phase \in {"running", "failing"}
          PROVE  /\ Has(req[s].parent)' /\ rows'[req'[s].parent].state = "continuing"
                 /\ rows'[req'[s].parent].target = req'[s].target
                 /\ \A q \in Holders(req[s].parent)' : q = s
      <4>1. CASE s = r
        <5>1. \A q \in Holders(p)' : q = r
          BY <1>3, <1>4, <3>1 DEF Holders, First
        <5> QED
          BY <1>3, <1>5, <1>6, <2>2, <4>1, <5>1 DEF Has
      <4>2. CASE s # r
        <5>1. s \in DOMAIN req /\ req'[s] = req[s] /\ ~First(s) /\ req[s].phase \in {"running", "failing"}
          BY <1>3, <3>2, <4>2 DEF First
        <5>2. /\ req[s].parent \in DOMAIN rows /\ rows[req[s].parent].state = "continuing"
              /\ rows[req[s].parent].target = req[s].target /\ req[s].parent # p
              /\ \A q \in Holders(req[s].parent) : q = s
          BY <3>1, <5>1 DEF IInv, LeasesOK, Has
        <5>3. \A q \in Holders(req[s].parent)' : q = s
          BY <1>3, <5>1, <5>2 DEF Holders
        <5> QED
          BY <1>6, <5>1, <5>2, <5>3 DEF Has
      <4> QED
        BY <4>1, <4>2
    <3>3. ASSUME NEW q \in DOMAIN rows', rows'[q].state = "continuing"
          PROVE  \E s \in DOMAIN req' : req'[s].parent = q /\ req'[s].phase \in {"running", "failing"}
      <4>1. CASE q = p
        BY <1>3, <2>2, <4>1
      <4>2. CASE q # p
        <5>1. PICK s \in DOMAIN req : req[s].parent = q /\ req[s].phase \in {"running", "failing"}
          BY <1>1, <1>6, <3>3, <4>2 DEF IInv, LeasesOK
        <5> QED
          BY <1>3, <5>1
      <4> QED
        BY <4>1, <4>2
    <3> QED
      BY <1>1, <3>2, <3>3 DEF LeasesOK
  <2> QED
    BY <2>1, <2>2
<1>14. SweepOK'
  <2>1. \A c : Due(c) => Due(c)'
    BY <1>1, <1>5, <1>6, <1>7 DEF Due, Expired, ChainRows
  <2>2. \A q \in DOMAIN rows : q \in DOMAIN req /\ req'[q] = req[q]
    BY <1>3 DEF IInv, RowsOfRequests
  <2> QED
    BY <1>1, <1>6, <2>1, <2>2 DEF IInv, SweepOK, TypeOK, Has
<1>15. FailuresOK'
  BY <1>1, <1>3, <1>6, FailuresKept DEF IInv, RowsOfRequests
<1> QED
  BY <1>6, <1>7, <1>8, <1>9, <1>10, <1>11, <1>12, <1>13, <1>14, <1>15 DEF IInv

\* session_started inserts the row of a first request, which is a chain of its own.
LEMMA CreateKeeps ==
  ASSUME IInv, NEW r \in Ids, SessionStarted(r), First(r),
         Create(r, req[r].target, req[r].stored), UNCHANGED <<req, faults>>
  PROVE  IInv'
<1>1. /\ r \in DOMAIN req /\ up /\ req[r].phase = "running" /\ r \notin advanced
      /\ prompted' = prompted \cup {r} /\ advanced' = advanced \cup {r}
      /\ UNCHANGED <<req, now, hidden, announced, dirs, sweep, faults, up, crashes>>
  BY DEF SessionStarted, Is, Submitted, procVars
<1>2. /\ NoId \notin DOMAIN rows /\ r \notin DOMAIN rows /\ r # NoId
      /\ req[r] \in Request /\ now \in 0 .. MaxTime /\ now + TTL \in 0 .. MaxTime + TTL
      /\ IsFiniteSet(DOMAIN rows) /\ \A q \in DOMAIN rows : rows[q] \in Row
  BY <1>1, ResponseSessionsAssumption DEF IInv, TypeOK, RowsOfRequests
<1>3. /\ DOMAIN rows' = DOMAIN rows \cup {r}
      /\ \A q \in DOMAIN rows : rows'[q] = rows[q]
      /\ rows'[r].chain = r /\ rows'[r].target = req[r].target /\ rows'[r].parent = NoId
      /\ rows'[r].child = NoId
      /\ rows'[r].state = IF req[r].stored THEN "open" ELSE "not_stored"
      /\ rows'[r] \in Row
  BY <1>2 DEF Create, With, Row, States, Request
<1>4. \A q \in DOMAIN rows : rows[q].chain # r
  BY <1>2, RootOfRow
<1>5. /\ RowsIn(rows', r) = {r}
      /\ \A c : c # r => RowsIn(rows', c) = RowsIn(rows, c)
  BY <1>2, <1>3, <1>4 DEF RowsIn
<1>6. /\ ChainRows(r)' = {r}
      /\ \A c : c # r => ChainRows(c)' = ChainRows(c)
  BY <1>5, ChainsNow, ChainsNext
<1>7. LinksOK'
  <2>1. ASSUME NEW q \in DOMAIN rows' PROVE ValidChain(rows[q].chain)'
    <3>1. PICK c : c = rows'[q].chain
      OBVIOUS
    <3>2. CASE q = r
      <4>1. c = r
        BY <1>3, <3>1, <3>2
      <4>2. Line(rows', r)
        BY <1>2, <1>3, <1>5, NewLine
      <4> QED
        BY <3>1, <4>1, <4>2, ChainsNext
    <3>3. CASE q # r
      <4>1. q \in DOMAIN rows /\ c = rows[q].chain /\ c # r
        BY <1>3, <1>4, <3>1, <3>3
      <4>2. Line(rows, c)
        BY <4>1, ChainsNow DEF IInv, LinksOK
      <4>3. \A x \in RowsIn(rows, c) : rows'[x] = rows[x]
        BY <1>3 DEF RowsIn
      <4>4. Line(rows', c)
        BY <1>2, <1>5, <4>1, <4>2, <4>3, SameLine
      <4> QED
        BY <3>1, <4>4, ChainsNext
    <3> QED
      BY <3>2, <3>3
  <2> QED
    BY <2>1 DEF LinksOK
<1>8. StatesAgree'
  BY <1>3, <1>4 DEF IInv, StatesAgree, ChainRows
<1>9. TypeOK' /\ IsFiniteSet(DOMAIN rows)'
  <2>1. IsFiniteSet(DOMAIN rows')
    BY <1>2, <1>3, FS_AddElement
  <2> QED
    BY <1>1, <1>3, <2>1 DEF IInv, TypeOK
<1>10. RowsOfRequests'
  BY <1>1, <1>2, <1>3 DEF IInv, RowsOfRequests, First, Request
<1>11. RequestsOK'
  BY <1>1, <1>3 DEF IInv, RequestsOK, First, Has, Keeps
<1>12. DirsOK'
  <2>1. req[r].stored => r \in dirs
    BY <1>1 DEF IInv, RequestsOK, Keeps
  <2> QED
    BY <1>1, <1>3, <2>1 DEF IInv, DirsOK, First, Has
<1>13. LeasesOK'
  BY <1>1, <1>2, <1>3, LeasesKept DEF IInv
<1>14. SweepOK'
  <2>1. \A c : c # r /\ Due(c) => Due(c)'
    BY <1>1, <1>3, <1>6 DEF Due, Expired, ChainRows
  <2> QED
    BY <1>1, <1>2, <1>3, <1>4, <2>1 DEF IInv, SweepOK, TypeOK, Has
<1>15. FailuresOK'
  BY <1>1, <1>3, FailuresKept DEF IInv, RowsOfRequests
<1> QED
  BY <1>7, <1>8, <1>9, <1>10, <1>11, <1>12, <1>13, <1>14, <1>15 DEF IInv

\* session_started, whose insertion may throw.
LEMMA SessionStartedKeeps ==
  ASSUME IInv, NEW r \in Ids, SessionStarted(r)
  PROVE  IInv'
<1>1. /\ r \in DOMAIN req /\ up /\ req[r].phase = "running" /\ r \notin advanced
      /\ prompted' = prompted \cup {r} /\ advanced' = advanced \cup {r}
      /\ UNCHANGED <<now, hidden, announced, dirs, sweep, up, crashes>>
  BY DEF SessionStarted, Is, Submitted, procVars
<1>2. CASE First(r) /\ Create(r, req[r].target, req[r].stored) /\ UNCHANGED <<req, faults>>
  BY <1>2, CreateKeeps
<1>3. CASE /\ UNCHANGED rows
           /\ \/ ~First(r) /\ UNCHANGED <<req, faults>>
              \/ First(r) /\ Fault /\ Goes(r, "failing")
  <2>1. /\ NoId \notin DOMAIN rows
        /\ \A s \in DOMAIN req : req[s] \in Request
    BY <1>1, ResponseSessionsAssumption DEF IInv, TypeOK, RowsOfRequests
  <2>2. PICK f \in {"running", "failing"} :
          /\ f = "running" => ~First(r) /\ UNCHANGED <<req, faults>>
          /\ f = "failing" => First(r) /\ Fault /\ Goes(r, "failing")
    BY <1>3
  <2>3. /\ DOMAIN req' = DOMAIN req
        /\ \A s \in DOMAIN req :
             /\ req'[s] \in Request
             /\ req'[s].phase = IF s = r THEN f ELSE req[s].phase
             /\ req'[s].mode = req[s].mode /\ req'[s].stored = req[s].stored
             /\ req'[s].target = req[s].target /\ req'[s].parent = req[s].parent
             /\ req'[s].ok = req[s].ok
    <3>1. CASE f = "running"
      BY <1>1, <2>1, <2>2, <3>1
    <3>2. CASE f = "failing"
      BY <1>1, <2>1, <2>2, <3>2, Moved DEF InFlight
    <3> QED
      BY <3>1, <3>2
  <2>4. /\ IsFiniteSet(DOMAIN rows)' /\ LinksOK' /\ StatesAgree'
        /\ \A c : ChainRows(c)' = ChainRows(c)
    BY <1>3, SameRows
  <2>5. TypeOK'
    <3>1. faults' \in 0 .. MaxFaults
      BY <2>2, ResponsesAssumption DEF IInv, TypeOK, Fault
    <3> QED
      BY <1>1, <1>3, <2>3, <3>1 DEF IInv, TypeOK
  <2>6. RowsOfRequests'
    BY <1>1, <1>3, <2>1, <2>3 DEF IInv, RowsOfRequests, First
  <2>7. RequestsOK'
    BY <1>1, <1>3, <2>2, <2>3 DEF IInv, RequestsOK, First, Has, Keeps, InFlight
  <2>8. DirsOK'
    <3>1. faults' = 0 => faults = 0
      BY <2>2 DEF Fault, IInv, TypeOK
    <3> QED
      BY <1>1, <1>3, <2>2, <2>3, <3>1 DEF IInv, DirsOK, RowsOfRequests, First, Has, InFlight
  <2>9. LeasesOK'
    BY <1>1, <1>3, <2>1, <2>2, <2>3, LeasesKept DEF IInv
  <2>10. SweepOK'
    BY <1>1, <1>3, <2>3, <2>4 DEF IInv, SweepOK, TypeOK, RowsOfRequests, Due, Has, Expired
  <2>11. FailuresOK'
    BY <1>1, <1>3, <2>3, FailuresKept DEF IInv, RowsOfRequests
  <2> QED
    BY <2>4, <2>5, <2>6, <2>7, <2>8, <2>9, <2>10, <2>11 DEF IInv
<1> QED
  BY <1>2, <1>3 DEF SessionStarted

\* The table once the continuation r of the tail p has completed.
LEMMA CompletedRows ==
  ASSUME IInv, NEW p \in DOMAIN rows, NEW r \in Ids, r \notin DOMAIN rows,
         CompleteContinuation(p, r)
  PROVE  /\ DOMAIN rows' = DOMAIN rows \cup {r}
         /\ \A q \in DOMAIN rows :
              /\ rows'[q] \in Row
              /\ rows'[q].chain = rows[q].chain /\ rows'[q].target = rows[q].target
              /\ rows'[q].parent = rows[q].parent
              /\ rows'[q].child = IF q = p THEN r ELSE rows[q].child
              /\ rows'[q].state = IF q = p THEN "continued" ELSE rows[q].state
              /\ rows[q].chain # rows[p].chain => rows'[q].expires = rows[q].expires
         /\ rows'[r] \in Row /\ rows'[r].chain = rows[p].chain /\ rows'[r].target = rows[p].target
         /\ rows'[r].parent = p /\ rows'[r].child = NoId /\ rows'[r].state = "open"
<1>0. /\ now + TTL \in 0 .. MaxTime + TTL /\ p \in Ids /\ p # r
      /\ \A q \in DOMAIN rows : rows[q] \in Row
  BY ResponseSessionsAssumption DEF IInv, TypeOK
<1>1. PICK child : child = [rows[p] EXCEPT !.parent = p, !.child = NoId, !.state = "open"]
  OBVIOUS
<1>2. PICK linked :
        linked = With([rows EXCEPT ![p].state = "continued", ![p].child = r], r, child)
  OBVIOUS
<1>3. rows' = [q \in DOMAIN linked |->
                 IF linked[q].chain = rows[p].chain
                   THEN [linked[q] EXCEPT !.expires = now + TTL] ELSE linked[q]]
  BY <1>1, <1>2 DEF CompleteContinuation
<1>4. /\ child \in Row /\ child.chain = rows[p].chain /\ child.target = rows[p].target
      /\ child.parent = p /\ child.child = NoId /\ child.state = "open"
  BY <1>0, <1>1 DEF Row, States
<1>5. /\ DOMAIN linked = DOMAIN rows \cup {r} /\ linked[r] = child
      /\ \A q \in DOMAIN rows :
           /\ linked[q] \in Row
           /\ linked[q].chain = rows[q].chain /\ linked[q].target = rows[q].target
           /\ linked[q].parent = rows[q].parent
           /\ linked[q].child = IF q = p THEN r ELSE rows[q].child
           /\ linked[q].state = IF q = p THEN "continued" ELSE rows[q].state
           /\ linked[q].expires = rows[q].expires
  BY <1>0, <1>2 DEF With, Row, States
<1>6. \A q \in DOMAIN linked :
        /\ rows'[q] \in Row
        /\ rows'[q].chain = linked[q].chain /\ rows'[q].target = linked[q].target
        /\ rows'[q].parent = linked[q].parent /\ rows'[q].child = linked[q].child
        /\ rows'[q].state = linked[q].state
        /\ linked[q].chain # rows[p].chain => rows'[q].expires = linked[q].expires
  BY <1>0, <1>3, <1>4, <1>5 DEF Row
<1>7. DOMAIN rows' = DOMAIN rows \cup {r} /\ r \in DOMAIN linked /\ DOMAIN rows \subseteq DOMAIN linked
  BY <1>3, <1>5
<1>8. /\ rows'[r] \in Row /\ rows'[r].chain = rows[p].chain /\ rows'[r].target = rows[p].target
      /\ rows'[r].parent = p /\ rows'[r].child = NoId /\ rows'[r].state = "open"
  BY <1>4, <1>5, <1>6, <1>7
<1>9. ASSUME NEW q \in DOMAIN rows
      PROVE  /\ rows'[q] \in Row
             /\ rows'[q].chain = rows[q].chain /\ rows'[q].target = rows[q].target
             /\ rows'[q].parent = rows[q].parent
             /\ rows'[q].child = IF q = p THEN r ELSE rows[q].child
             /\ rows'[q].state = IF q = p THEN "continued" ELSE rows[q].state
             /\ rows[q].chain # rows[p].chain => rows'[q].expires = rows[q].expires
  BY <1>5, <1>6, <1>7
<1> QED
  BY <1>7, <1>8, <1>9

\* The run of a continuation has completed: its row is the new tail of the chain.
LEMMA CompleteContinuationKeeps ==
  ASSUME IInv, NEW r \in Ids, Complete(r), ~First(r), CompleteContinuation(req[r].parent, r), Answers(r)
  PROVE  IInv'
<1>1. /\ r \in DOMAIN req /\ up /\ req[r].phase = "running" /\ r \in advanced
      /\ UNCHANGED <<now, hidden, prompted, advanced, dirs, sweep, faults, up, crashes>>
  BY DEF Complete, Is, Submitted, runVars, procVars
<1>2. PICK p : p = req[r].parent
  OBVIOUS
<1>3. /\ p \in DOMAIN rows /\ rows[p].state = "continuing" /\ rows[p].child = NoId
      /\ rows[p].target = req[r].target /\ req[r].stored
      /\ \A q \in Holders(p) : q = r
  <2>1. /\ p \in DOMAIN rows /\ rows[p].state = "continuing" /\ rows[p].target = req[r].target
        /\ \A q \in Holders(p) : q = r
    BY <1>1, <1>2 DEF IInv, LeasesOK, Has
  <2>2. rows[p].child = NoId
    BY <1>2 DEF CompleteContinuation, Completable, ActiveTail
  <2>3. req[r].stored
    BY <1>1 DEF IInv, RequestsOK
  <2> QED
    BY <2>1, <2>2, <2>3
<1>4. /\ NoId \notin DOMAIN rows /\ r \notin DOMAIN rows /\ r # NoId /\ p \in Ids /\ p # r
      /\ now + TTL \in 0 .. MaxTime + TTL /\ IsFiniteSet(DOMAIN rows)
      /\ \A q \in DOMAIN rows : rows[q] \in Row
      /\ \A s \in DOMAIN req : req[s] \in Request
  BY <1>1, <1>3, ResponseSessionsAssumption DEF IInv, TypeOK, RowsOfRequests
<1>5. PICK C : C = rows[p].chain
  OBVIOUS
<1>6. /\ DOMAIN rows' = DOMAIN rows \cup {r}
      /\ \A q \in DOMAIN rows :
           /\ rows'[q] \in Row
           /\ rows'[q].chain = rows[q].chain /\ rows'[q].target = rows[q].target
           /\ rows'[q].parent = rows[q].parent
           /\ rows'[q].child = IF q = p THEN r ELSE rows[q].child
           /\ rows'[q].state = IF q = p THEN "continued" ELSE rows[q].state
           /\ rows[q].chain # C => rows'[q].expires = rows[q].expires
      /\ rows'[r] \in Row /\ rows'[r].chain = C /\ rows'[r].target = rows[p].target
      /\ rows'[r].parent = p /\ rows'[r].child = NoId /\ rows'[r].state = "open"
  <2>1. CompleteContinuation(p, r)
    BY <1>2
  <2> QED
    BY <1>3, <1>4, <1>5, <2>1, CompletedRows
<1>7. PICK f \in {"answered", "refused"} : Goes(r, f)
  BY DEF Answers
<1>8. /\ DOMAIN req' = DOMAIN req
      /\ \A s \in DOMAIN req :
           /\ req'[s] \in Request
           /\ req'[s].phase = IF s = r THEN f ELSE req[s].phase
           /\ req'[s].mode = req[s].mode /\ req'[s].stored = req[s].stored
           /\ req'[s].target = req[s].target /\ req'[s].parent = req[s].parent
           /\ req'[s].ok = req[s].ok
  BY <1>1, <1>4, <1>7, Moved DEF InFlight
<1>9. /\ RowsIn(rows', C) = RowsIn(rows, C) \cup {r}
      /\ \A c : c # C => RowsIn(rows', c) = RowsIn(rows, c)
      /\ p \in RowsIn(rows, C)
  BY <1>3, <1>4, <1>5, <1>6 DEF RowsIn
<1>10. \A c : c # C => ChainRows(c)' = ChainRows(c)
  BY <1>9, ChainsNow, ChainsNext
<1>11. Line(rows', C)
  <2>1. Line(rows, C)
    BY <1>3, <1>5, ChainsNow DEF IInv, LinksOK
  <2>2. \A q \in RowsIn(rows, C) : q \in DOMAIN rows
    BY DEF RowsIn
  <2>3. \A q \in RowsIn(rows, C) :
          /\ rows'[q].parent = rows[q].parent /\ rows'[q].target = rows[q].target
          /\ rows'[q].child = IF q = p THEN r ELSE rows[q].child
    BY <1>6, <2>2
  <2>4. rows'[r].parent = p /\ rows'[r].child = NoId /\ rows'[r].target = rows[p].target
    BY <1>6
  <2> QED
    BY <1>3, <1>4, <1>9, <2>1, <2>3, <2>4, Appended
<1>12. LinksOK'
  <2>1. ASSUME NEW q \in DOMAIN rows' PROVE ValidChain(rows[q].chain)'
    <3>1. PICK c : c = rows'[q].chain
      OBVIOUS
    <3>2. CASE c = C
      BY <1>11, <3>1, <3>2, ChainsNext
    <3>3. CASE c # C
      <4>1. q \in DOMAIN rows /\ c = rows[q].chain
        BY <1>6, <3>1, <3>3
      <4>2. Line(rows, c)
        BY <4>1, ChainsNow DEF IInv, LinksOK
      <4>3. \A x \in RowsIn(rows, c) :
              /\ rows'[x].parent = rows[x].parent /\ rows'[x].target = rows[x].target
              /\ rows'[x].child = rows[x].child
        BY <1>5, <1>6, <3>3 DEF RowsIn
      <4>4. Line(rows', c)
        BY <1>4, <1>9, <3>3, <4>2, <4>3, SameLine
      <4> QED
        BY <3>1, <4>4, ChainsNext
    <3> QED
      BY <3>2, <3>3
  <2> QED
    BY <2>1 DEF LinksOK
<1>13. StatesAgree'
  <2>1. \A q \in DOMAIN rows : rows[q].chain = C => rows[q].state # "terminal_failure"
    BY <1>3, <1>5 DEF IInv, StatesAgree, ChainRows
  <2> QED
    BY <1>3, <1>4, <1>5, <1>6, <2>1 DEF IInv, StatesAgree, ChainRows
<1>14. TypeOK' /\ IsFiniteSet(DOMAIN rows)'
  <2>1. IsFiniteSet(DOMAIN rows')
    BY <1>4, <1>6, FS_AddElement
  <2>2. announced' \subseteq announced \cup {r}
    BY DEF Answers
  <2> QED
    BY <1>1, <1>6, <1>8, <2>1, <2>2 DEF IInv, TypeOK
<1>15. RowsOfRequests'
  BY <1>1, <1>2, <1>3, <1>6, <1>8 DEF IInv, RowsOfRequests, First
<1>16. RequestsOK'
  BY <1>1, <1>6, <1>8 DEF IInv, RequestsOK, First, Has, Keeps, InFlight
<1>17. DirsOK'
  <2>1. C \in dirs
    BY <1>3, <1>5 DEF IInv, DirsOK, RowsOfRequests
  <2> QED
    BY <1>1, <1>6, <1>8, <2>1 DEF IInv, DirsOK, RowsOfRequests, First, Has, InFlight
<1>18. LeasesOK'
  <2>1. ASSUME NEW s \in DOMAIN req', ~First(s)', req'[s].phase \in {"running", "failing"}
        PROVE  /\ Has(req[s].parent)' /\ rows'[req'[s].parent].state = "continuing"
               /\ rows'[req'[s].parent].target = req'[s].target
               /\ \A q \in Holders(req[s].parent)' : q = s
    <3>1. s \in DOMAIN req /\ s # r /\ ~First(s) /\ req[s].phase \in {"running", "failing"}
      BY <1>8, <2>1 DEF First
    <3>2. /\ req[s].parent \in DOMAIN rows /\ rows[req[s].parent].state = "continuing"
          /\ rows[req[s].parent].target = req[s].target
          /\ \A q \in Holders(req[s].parent) : q = s
      BY <3>1 DEF IInv, LeasesOK, Has
    <3>3. req[s].parent # p
      BY <1>3, <3>1 DEF Holders
    <3>4. \A q \in Holders(req[s].parent)' : q = s
      BY <1>8, <3>1, <3>2 DEF Holders
    <3> QED
      BY <1>6, <1>8, <3>1, <3>2, <3>3, <3>4 DEF Has
  <2>2. ASSUME NEW q \in DOMAIN rows', rows'[q].state = "continuing"
        PROVE  \E s \in DOMAIN req' : req'[s].parent = q /\ req'[s].phase \in {"running", "failing"}
    <3>1. q \in DOMAIN rows /\ q # p /\ rows[q].state = "continuing"
      BY <1>6, <2>2
    <3>2. PICK s \in DOMAIN req : req[s].parent = q /\ req[s].phase \in {"running", "failing"}
      BY <1>1, <3>1 DEF IInv, LeasesOK
    <3> QED
      BY <1>2, <1>8, <3>1, <3>2
  <2> QED
    BY <1>1, <2>1, <2>2 DEF LeasesOK
<1>19. SweepOK'
  <2>1. \A c : Due(c) => c # C
    BY <1>3, <1>5 DEF Due, ChainRows
  <2>2. \A c : Due(c) => Due(c)'
    BY <1>1, <1>6, <1>10, <2>1 DEF Due, Expired, ChainRows
  <2> QED
    BY <1>1, <1>6, <1>8, <2>1, <2>2 DEF IInv, SweepOK, TypeOK, RowsOfRequests, Has
<1>20. FailuresOK'
  BY <1>1, <1>4, <1>6, <1>8, FailuresKept DEF IInv, RowsOfRequests, First
<1> QED
  BY <1>12, <1>13, <1>14, <1>15, <1>16, <1>17, <1>18, <1>19, <1>20 DEF IInv

\* The run has ended with `completed`.
LEMMA CompleteKeeps ==
  ASSUME IInv, NEW r \in Ids, Complete(r)
  PROVE  IInv'
<1>1. /\ r \in DOMAIN req /\ up /\ req[r].phase = "running" /\ r \in advanced
      /\ UNCHANGED <<now, hidden, prompted, advanced, dirs, sweep, faults, up, crashes>>
  BY DEF Complete, Is, Submitted, runVars, procVars
<1>2. CASE ~First(r) /\ CompleteContinuation(req[r].parent, r) /\ Answers(r)
  BY <1>2, CompleteContinuationKeeps
<1>3. CASE /\ First(r) /\ UNCHANGED rows
           /\ \/ ~req[r].stored /\ Answers(r)
              \/ /\ req[r].stored /\ UNCHANGED announced
                 /\ req' = [req EXCEPT ![r].phase = "releasing", ![r].ok = TRUE]
  <2>1. /\ DOMAIN rows \subseteq Ids /\ \A s \in DOMAIN req : req[s] \in Request
        /\ NoId \notin DOMAIN rows
    BY ResponseSessionsAssumption DEF IInv, TypeOK
  <2>2. PICK f \in {"answered", "refused", "releasing"} :
          /\ f = "releasing" <=> req[r].stored
          /\ f # "releasing" => Goes(r, f)
          /\ f = "releasing" => req' = [req EXCEPT ![r].phase = "releasing", ![r].ok = TRUE]
    BY <1>3 DEF Answers
  <2>3. /\ DOMAIN req' = DOMAIN req
        /\ \A s \in DOMAIN req :
             /\ req'[s] \in Request
             /\ req'[s].phase = IF s = r THEN f ELSE req[s].phase
             /\ req'[s].mode = req[s].mode /\ req'[s].stored = req[s].stored
             /\ req'[s].target = req[s].target /\ req'[s].parent = req[s].parent
             /\ s # r => req'[s].ok = req[s].ok
    <3>1. CASE f # "releasing"
      BY <1>1, <2>1, <2>2, <3>1, Moved DEF InFlight
    <3>2. CASE f = "releasing"
      <4>1. req' = [req EXCEPT ![r].phase = "releasing", ![r].ok = TRUE]
        BY <2>2, <3>2
      <4>2. PICK v : v = [req[r] EXCEPT !.phase = "releasing"]
        OBVIOUS
      <4>3. /\ v \in Request /\ v.phase = "releasing" /\ v.mode = req[r].mode
            /\ v.stored = req[r].stored /\ v.target = req[r].target /\ v.parent = req[r].parent
        BY <1>1, <2>1, <4>2 DEF Request, InFlight
      <4>4. PICK w : w = [v EXCEPT !.ok = TRUE]
        OBVIOUS
      <4>5. /\ w \in Request /\ w.phase = "releasing" /\ w.mode = req[r].mode
            /\ w.stored = req[r].stored /\ w.target = req[r].target /\ w.parent = req[r].parent
        BY <4>3, <4>4 DEF Request
      <4>6. req'[r] = w /\ DOMAIN req' = DOMAIN req /\ \A s \in DOMAIN req : s # r => req'[s] = req[s]
        BY <1>1, <4>1, <4>2, <4>4
      <4> QED
        BY <2>1, <3>2, <4>5, <4>6
    <3> QED
      BY <3>1, <3>2
  <2>4. /\ IsFiniteSet(DOMAIN rows)' /\ LinksOK' /\ StatesAgree'
        /\ \A c : ChainRows(c)' = ChainRows(c)
    BY <1>3, SameRows
  <2>5. TypeOK'
    <3>1. announced' \subseteq announced \cup {r}
      BY <1>3 DEF Answers
    <3> QED
      BY <1>1, <1>3, <2>3, <3>1 DEF IInv, TypeOK
  <2>6. RowsOfRequests'
    BY <1>1, <1>3, <2>3 DEF IInv, RowsOfRequests, First
  <2>7. RequestsOK'
    <3>1. req[r].stored => Has(r) /\ r \in dirs
      BY <1>1, <1>3 DEF IInv, RequestsOK, Keeps
    <3> QED
      BY <1>1, <1>3, <2>2, <2>3, <3>1 DEF IInv, RequestsOK, First, Has, Keeps, InFlight
  <2>8. DirsOK'
    BY <1>1, <1>3, <2>2, <2>3 DEF IInv, DirsOK, RowsOfRequests, First, Has, InFlight
  <2>9. LeasesOK'
    BY <1>1, <1>3, <2>1, <2>3, LeasesKept DEF IInv
  <2>10. SweepOK'
    BY <1>1, <1>3, <2>3, <2>4 DEF IInv, SweepOK, TypeOK, RowsOfRequests, Due, Has, Expired
  <2>11. FailuresOK'
    BY <1>1, <1>3, <2>3, FailuresKept DEF IInv, RowsOfRequests
  <2> QED
    BY <2>4, <2>5, <2>6, <2>7, <2>8, <2>9, <2>10, <2>11 DEF IInv
<1> QED
  BY <1>2, <1>3 DEF Complete

\* What the failure of the chain of an active tail does to the table.
LEMMA FailedChain ==
  ASSUME IInv, NEW p \in DOMAIN rows, ActiveTail(p),
         rows[p].state \in {"open", "continuing"}, rows' = Failed(rows, {rows[p].chain})
  PROVE  /\ DOMAIN rows' = DOMAIN rows
         /\ \A q \in DOMAIN rows :
              /\ rows'[q] \in Row
              /\ rows'[q].chain = rows[q].chain /\ rows'[q].target = rows[q].target
              /\ rows'[q].parent = rows[q].parent /\ rows'[q].child = rows[q].child
              /\ rows'[q].expires = rows[q].expires
              /\ rows'[q].state = IF rows[q].chain = rows[p].chain THEN "terminal_failure" ELSE rows[q].state
         /\ \A q \in DOMAIN rows :
              rows[q].chain = rows[p].chain /\ q # p => rows[q].state = "continued" /\ rows[q].child # NoId
         /\ LinksOK' /\ StatesAgree' /\ \A c : ChainRows(c)' = ChainRows(c)
<1>1. \A q \in DOMAIN rows : rows[q] \in Row
  BY DEF IInv, TypeOK
<1>2. DOMAIN rows' = DOMAIN rows
  BY DEF Failed
<1>3. \A q \in DOMAIN rows :
        /\ rows'[q] \in Row
        /\ rows'[q].chain = rows[q].chain /\ rows'[q].target = rows[q].target
        /\ rows'[q].parent = rows[q].parent /\ rows'[q].child = rows[q].child
        /\ rows'[q].expires = rows[q].expires
        /\ rows'[q].state = IF rows[q].chain = rows[p].chain THEN "terminal_failure" ELSE rows[q].state
  BY <1>1 DEF Failed, Row, States
<1>4. \A q \in DOMAIN rows :
        rows[q].chain = rows[p].chain /\ q # p => rows[q].state = "continued" /\ rows[q].child # NoId
  BY DEF ActiveTail, ChainRows, IInv, StatesAgree
<1>5. LinksOK' /\ \A c : ChainRows(c)' = ChainRows(c)
  BY <1>2, <1>3, LinksKept
<1>6. StatesAgree'
  <2> SUFFICES ASSUME NEW r \in DOMAIN rows'
               PROVE  /\ \A q \in DOMAIN rows' : rows'[q].chain = rows'[r].chain =>
                           (rows'[r].state = "terminal_failure" <=> rows'[q].state = "terminal_failure")
                      /\ rows'[r].state # "terminal_failure" =>
                           (rows'[r].state = "continued" <=> rows'[r].child # NoId)
    BY DEF StatesAgree, ChainRows
  <2>1. r \in DOMAIN rows
    BY <1>2
  <2>2. /\ \A q \in DOMAIN rows : rows[q].chain = rows[r].chain =>
             (rows[r].state = "terminal_failure" <=> rows[q].state = "terminal_failure")
        /\ rows[r].state # "terminal_failure" => (rows[r].state = "continued" <=> rows[r].child # NoId)
    BY <2>1 DEF IInv, StatesAgree, ChainRows
  <2>3. /\ rows'[r].chain = rows[r].chain /\ rows'[r].child = rows[r].child
        /\ rows'[r].state = IF rows[r].chain = rows[p].chain THEN "terminal_failure" ELSE rows[r].state
    BY <1>3, <2>1
  <2>4. ASSUME NEW q \in DOMAIN rows', rows'[q].chain = rows'[r].chain
        PROVE  rows'[r].state = "terminal_failure" <=> rows'[q].state = "terminal_failure"
    <3>1. /\ q \in DOMAIN rows /\ rows'[q].chain = rows[q].chain
          /\ rows'[q].state = IF rows[q].chain = rows[p].chain THEN "terminal_failure" ELSE rows[q].state
      BY <1>2, <1>3
    <3>2. rows[q].chain = rows[r].chain
      BY <2>3, <2>4, <3>1
    <3>3. rows[r].state = "terminal_failure" <=> rows[q].state = "terminal_failure"
      BY <2>2, <3>1, <3>2
    <3> QED
      BY <2>3, <3>1, <3>2, <3>3
  <2> QED
    BY <2>2, <2>3, <2>4
<1> QED
  BY <1>2, <1>3, <1>4, <1>5, <1>6

\* A continuation that failed has failed its chain if the native state advanced,
\* and gives the lock back if not.
LEMMA SettleContinuationKeeps ==
  ASSUME IInv, NEW r \in Ids, Settle(r), SettleContinuation(r)
  PROVE  IInv'
<1>1. /\ r \in DOMAIN req /\ up /\ req[r].phase = "failing" /\ ~First(r) /\ Goes(r, "refused")
      /\ UNCHANGED <<now, hidden, prompted, advanced, announced, dirs, sweep, faults, up, crashes>>
  BY DEF Settle, SettleContinuation, Is, Submitted, runVars, procVars
<1>2. PICK p : p = req[r].parent
  OBVIOUS
<1>3. /\ p \in DOMAIN rows /\ rows[p].state = "continuing" /\ p # NoId
      /\ \A q \in Holders(p) : q = r
  BY <1>1, <1>2 DEF IInv, LeasesOK, Has, First
<1>4. ActiveTail(p)
  BY <1>1, <1>2 DEF SettleContinuation, FailTerminal, ReleaseBeforeStart, Completable
<1>5. PICK C : C = rows[p].chain
  OBVIOUS
<1>6. PICK st \in {"open", "terminal_failure"} :
        /\ st = "open" => rows' = [rows EXCEPT ![p].state = "open"]
        /\ st = "terminal_failure" => r \in advanced /\ rows' = Failed(rows, {C})
  BY <1>1, <1>2, <1>5 DEF SettleContinuation, FailTerminal, ReleaseBeforeStart
<1>7. /\ \A s \in DOMAIN req : req[s] \in Request
      /\ \A q \in DOMAIN rows : rows[q] \in Row
      /\ NoId \notin DOMAIN rows
  BY ResponseSessionsAssumption DEF IInv, TypeOK
<1>8. /\ DOMAIN req' = DOMAIN req
      /\ \A s \in DOMAIN req :
           /\ req'[s] \in Request
           /\ req'[s].phase = IF s = r THEN "refused" ELSE req[s].phase
           /\ req'[s].mode = req[s].mode /\ req'[s].stored = req[s].stored
           /\ req'[s].target = req[s].target /\ req'[s].parent = req[s].parent
           /\ req'[s].ok = req[s].ok
  BY <1>1, <1>7, Moved DEF InFlight
<1>9. /\ DOMAIN rows' = DOMAIN rows
      /\ \A q \in DOMAIN rows :
           /\ rows'[q] \in Row
           /\ rows'[q].chain = rows[q].chain /\ rows'[q].target = rows[q].target
           /\ rows'[q].parent = rows[q].parent /\ rows'[q].child = rows[q].child
           /\ rows'[q].expires = rows[q].expires
      /\ rows'[p].state = st
      /\ \A q \in DOMAIN rows : q # p =>
           \/ rows'[q].state = rows[q].state
           \/ /\ rows[q].chain = C /\ rows[q].state = "continued" /\ rows[q].child # NoId
              /\ rows'[q].state = "terminal_failure" /\ st = "terminal_failure"
      /\ LinksOK' /\ StatesAgree' /\ \A c : ChainRows(c)' = ChainRows(c)
  <2>1. CASE st = "open"
    <3>1. /\ DOMAIN rows' = DOMAIN rows
          /\ \A q \in DOMAIN rows :
               /\ rows'[q] \in Row
               /\ rows'[q].chain = rows[q].chain /\ rows'[q].target = rows[q].target
               /\ rows'[q].parent = rows[q].parent /\ rows'[q].child = rows[q].child
               /\ rows'[q].expires = rows[q].expires
               /\ rows'[q].state = IF q = p THEN "open" ELSE rows[q].state
      BY <1>3, <1>6, <1>7, <2>1 DEF Row, States
    <3>2. LinksOK' /\ \A c : ChainRows(c)' = ChainRows(c)
      BY <3>1, LinksKept
    <3>3. rows[p].child = NoId
      BY <1>4 DEF ActiveTail
    <3>4. StatesAgree'
      BY <1>3, <3>1, <3>3 DEF IInv, StatesAgree, ChainRows
    <3> QED
      BY <1>3, <2>1, <3>1, <3>2, <3>4
  <2>2. CASE st = "terminal_failure"
    <3>1. /\ p \in DOMAIN rows /\ ActiveTail(p)
          /\ rows[p].state \in {"open", "continuing"} /\ rows' = Failed(rows, {rows[p].chain})
      BY <1>3, <1>4, <1>5, <1>6, <2>2
    <3>2. /\ DOMAIN rows' = DOMAIN rows
          /\ \A q \in DOMAIN rows :
               /\ rows'[q] \in Row
               /\ rows'[q].chain = rows[q].chain /\ rows'[q].target = rows[q].target
               /\ rows'[q].parent = rows[q].parent /\ rows'[q].child = rows[q].child
               /\ rows'[q].expires = rows[q].expires
               /\ rows'[q].state = IF rows[q].chain = rows[p].chain THEN "terminal_failure" ELSE rows[q].state
          /\ \A q \in DOMAIN rows :
               rows[q].chain = rows[p].chain /\ q # p => rows[q].state = "continued" /\ rows[q].child # NoId
          /\ LinksOK' /\ StatesAgree' /\ \A c : ChainRows(c)' = ChainRows(c)
      BY <3>1, FailedChain
    <3> QED
      BY <1>5, <2>2, <3>1, <3>2
  <2> QED
    BY <2>1, <2>2
<1>10. TypeOK'
  BY <1>1, <1>8, <1>9 DEF IInv, TypeOK
<1>11. RowsOfRequests'
  <2>1. \A q \in DOMAIN rows : rows'[q].state = "not_stored" <=> rows[q].state = "not_stored"
    BY <1>3, <1>9
  <2> QED
    BY <1>1, <1>8, <1>9, <2>1 DEF IInv, RowsOfRequests, First
<1>12. RequestsOK'
  BY <1>1, <1>8, <1>9 DEF IInv, RequestsOK, First, Has, Keeps, InFlight
<1>13. DirsOK'
  BY <1>1, <1>8, <1>9 DEF IInv, DirsOK, RowsOfRequests, First, Has, InFlight
<1>14. LeasesOK'
  <2>0. \A q \in DOMAIN rows : rows[q].state = "continuing" /\ q # p => rows'[q].state = "continuing"
    BY <1>9
  <2>1. ASSUME NEW s \in DOMAIN req', ~First(s)', req'[s].phase \in {"running", "failing"}
        PROVE  /\ Has(req[s].parent)' /\ rows'[req'[s].parent].state = "continuing"
               /\ rows'[req'[s].parent].target = req'[s].target
               /\ \A q \in Holders(req[s].parent)' : q = s
    <3>1. s \in DOMAIN req /\ s # r /\ ~First(s) /\ req[s].phase \in {"running", "failing"}
      BY <1>8, <2>1 DEF First
    <3>2. /\ req[s].parent \in DOMAIN rows /\ rows[req[s].parent].state = "continuing"
          /\ rows[req[s].parent].target = req[s].target
          /\ \A q \in Holders(req[s].parent) : q = s
      BY <3>1 DEF IInv, LeasesOK, Has
    <3>3. req[s].parent # p
      BY <1>3, <3>1 DEF Holders
    <3>4. \A q \in Holders(req[s].parent)' : q = s
      BY <1>8, <3>1, <3>2 DEF Holders
    <3> QED
      BY <1>8, <1>9, <2>0, <3>1, <3>2, <3>3, <3>4 DEF Has
  <2>2. ASSUME NEW q \in DOMAIN rows', rows'[q].state = "continuing"
        PROVE  \E s \in DOMAIN req' : req'[s].parent = q /\ req'[s].phase \in {"running", "failing"}
    <3>1. q \in DOMAIN rows /\ q # p /\ rows[q].state = "continuing"
      BY <1>9, <2>2
    <3>2. PICK s \in DOMAIN req : req[s].parent = q /\ req[s].phase \in {"running", "failing"}
      BY <1>1, <3>1 DEF IInv, LeasesOK
    <3> QED
      BY <1>2, <1>8, <3>1, <3>2
  <2> QED
    BY <1>1, <2>1, <2>2 DEF LeasesOK
<1>15. SweepOK'
  <2>1. \A c : Due(c) => c # C
    BY <1>3, <1>5 DEF Due, ChainRows
  <2>2. \A c : Due(c) => Due(c)'
    BY <1>1, <1>9, <2>1 DEF Due, Expired, ChainRows
  <2> QED
    BY <1>1, <1>8, <1>9, <2>2 DEF IInv, SweepOK, TypeOK, RowsOfRequests, Has
<1>16. FailuresOK'
  <2> SUFFICES ASSUME NEW q \in DOMAIN rows', rows'[q].state = "terminal_failure"
               PROVE  \/ rows'[q].child # NoId
                      \/ /\ First(q)'
                         /\ req'[q].phase \in {"refused", "releasing", "abandoning", "lost"}
                         /\ req'[q].phase = "releasing" => ~req'[q].ok
                      \/ \E s \in DOMAIN req' :
                           req'[s].parent = q /\ (s \in advanced' \/ req'[s].phase = "lost")
    BY DEF FailuresOK
  <2>1. CASE q = p
    <3>1. r \in DOMAIN req' /\ req'[r].parent = p /\ r \in advanced'
      BY <1>1, <1>2, <1>6, <1>8, <1>9, <2>1
    <3> QED
      BY <2>1, <3>1
  <2>2. CASE q # p /\ rows'[q].state # rows[q].state
    BY <1>9, <2>2
  <2>3. CASE rows'[q].state = rows[q].state
    <3>1. q \in DOMAIN rows /\ q \in DOMAIN req /\ rows[q].state = "terminal_failure"
      BY <1>9, <2>3 DEF IInv, RowsOfRequests
    <3>2. CASE rows[q].child # NoId
      BY <1>9, <3>1, <3>2
    <3>3. CASE /\ First(q) /\ req[q].phase \in {"refused", "releasing", "abandoning", "lost"}
               /\ req[q].phase = "releasing" => ~req[q].ok
      BY <1>1, <1>8, <3>1, <3>3 DEF First
    <3>4. CASE \E s \in DOMAIN req : req[s].parent = q /\ (s \in advanced \/ req[s].phase = "lost")
      BY <1>1, <1>8, <3>4
    <3> QED
      BY <3>1, <3>2, <3>3, <3>4 DEF IInv, FailuresOK
  <2> QED
    BY <2>1, <2>2, <2>3
<1> QED
  BY <1>9, <1>10, <1>11, <1>12, <1>13, <1>14, <1>15, <1>16 DEF IInv

\* A first request that failed fails its row, unless the row cannot be acquired.
LEMMA SettleFirstKeeps ==
  ASSUME IInv, NEW r \in Ids, Settle(r), SettleFirst(r)
  PROVE  IInv'
<1>1. PICK f \in {"releasing", "refused"} :
        /\ r \in DOMAIN req /\ up /\ req[r].phase = "failing" /\ First(r) /\ Goes(r, f)
        /\ f = "releasing" <=> req[r].stored
        /\ UNCHANGED <<now, hidden, prompted, advanced, announced, dirs, sweep, faults, up, crashes>>
  BY DEF Settle, SettleFirst, Is, Submitted, runVars, procVars
<1>2. /\ \A s \in DOMAIN req : req[s] \in Request
      /\ \A q \in DOMAIN rows : rows[q] \in Row
      /\ NoId \notin DOMAIN rows /\ ~req[r].ok
  BY <1>1, ResponseSessionsAssumption DEF IInv, TypeOK, RequestsOK
<1>3. /\ DOMAIN req' = DOMAIN req
      /\ \A s \in DOMAIN req :
           /\ req'[s] \in Request
           /\ req'[s].phase = IF s = r THEN f ELSE req[s].phase
           /\ req'[s].mode = req[s].mode /\ req'[s].stored = req[s].stored
           /\ req'[s].target = req[s].target /\ req'[s].parent = req[s].parent
           /\ req'[s].ok = req[s].ok
  BY <1>1, <1>2, Moved DEF InFlight
<1>4. CASE req[r].stored /\ Persisted(r) /\ CanAcquire(r, req[r].target)
  <2>1. /\ r \in DOMAIN rows /\ rows[r].state = "open" /\ ~Expired(r) /\ ActiveTail(r)
        /\ rows' = Failed(rows, {r})
    BY <1>4 DEF SettleFirst, Persisted, Has, CanAcquire
  <2>2. rows[r].chain = r
    BY <1>1, <2>1, RootOfRow
  <2>3. /\ DOMAIN rows' = DOMAIN rows
        /\ \A q \in DOMAIN rows :
             /\ rows'[q] \in Row
             /\ rows'[q].chain = rows[q].chain /\ rows'[q].target = rows[q].target
             /\ rows'[q].parent = rows[q].parent /\ rows'[q].child = rows[q].child
             /\ rows'[q].expires = rows[q].expires
             /\ rows'[q].state = IF rows[q].chain = r THEN "terminal_failure" ELSE rows[q].state
        /\ \A q \in DOMAIN rows :
             rows[q].chain = r /\ q # r => rows[q].state = "continued" /\ rows[q].child # NoId
        /\ LinksOK' /\ StatesAgree' /\ \A c : ChainRows(c)' = ChainRows(c)
    <3>1. rows' = Failed(rows, {rows[r].chain}) /\ rows[r].state \in {"open", "continuing"}
      BY <2>1, <2>2
    <3>2. /\ DOMAIN rows' = DOMAIN rows
          /\ \A q \in DOMAIN rows :
               /\ rows'[q] \in Row
               /\ rows'[q].chain = rows[q].chain /\ rows'[q].target = rows[q].target
               /\ rows'[q].parent = rows[q].parent /\ rows'[q].child = rows[q].child
               /\ rows'[q].expires = rows[q].expires
               /\ rows'[q].state = IF rows[q].chain = rows[r].chain THEN "terminal_failure" ELSE rows[q].state
          /\ \A q \in DOMAIN rows :
               rows[q].chain = rows[r].chain /\ q # r => rows[q].state = "continued" /\ rows[q].child # NoId
          /\ LinksOK' /\ StatesAgree' /\ \A c : ChainRows(c)' = ChainRows(c)
      BY <2>1, <3>1, FailedChain
    <3> QED
      BY <2>2, <3>2
  <2>4. TypeOK'
    BY <1>1, <1>3, <2>3 DEF IInv, TypeOK
  <2>5. RowsOfRequests'
    <3>1. \A q \in DOMAIN rows : rows'[q].state = "not_stored" <=> rows[q].state = "not_stored"
      BY <2>1, <2>3
    <3> QED
      BY <1>1, <1>3, <2>3, <3>1 DEF IInv, RowsOfRequests, First
  <2>6. RequestsOK'
    BY <1>1, <1>2, <1>3, <2>3 DEF IInv, RequestsOK, First, Has, Keeps, InFlight
  <2>7. DirsOK'
    BY <1>1, <1>3, <2>3 DEF IInv, DirsOK, RowsOfRequests, First, Has, InFlight
  <2>8. LeasesOK'
    <3>1. \A q \in DOMAIN rows : rows[q].state = "continuing" <=> rows'[q].state = "continuing"
      BY <2>1, <2>3
    <3> QED
      BY <1>1, <1>2, <1>3, <2>3, <3>1, LeasesKept DEF IInv
  <2>9. SweepOK'
    <3>1. \A c : Due(c) => c # r
      BY <2>1, <2>2 DEF Due, ChainRows
    <3>2. \A c : Due(c) => Due(c)'
      BY <1>1, <2>3, <3>1 DEF Due, Expired, ChainRows
    <3> QED
      BY <1>1, <1>3, <2>3, <3>2 DEF IInv, SweepOK, TypeOK, RowsOfRequests, Has
  <2>10. FailuresOK'
    <3> SUFFICES ASSUME NEW q \in DOMAIN rows', rows'[q].state = "terminal_failure"
                 PROVE  \/ rows'[q].child # NoId
                        \/ /\ First(q)'
                           /\ req'[q].phase \in {"refused", "releasing", "abandoning", "lost"}
                           /\ req'[q].phase = "releasing" => ~req'[q].ok
                        \/ \E s \in DOMAIN req' :
                             req'[s].parent = q /\ (s \in advanced' \/ req'[s].phase = "lost")
      BY DEF FailuresOK
    <3>1. CASE q = r
      BY <1>1, <1>2, <1>3, <3>1 DEF First
    <3>2. CASE q # r /\ rows[q].chain = r
      BY <2>3, <3>2
    <3>3. CASE rows[q].chain # r
      <4>1. q \in DOMAIN rows /\ q \in DOMAIN req /\ q # r /\ rows[q].state = "terminal_failure"
        BY <2>2, <2>3, <3>3 DEF IInv, RowsOfRequests
      <4>2. CASE rows[q].child # NoId
        BY <2>3, <4>1, <4>2
      <4>3. CASE /\ First(q) /\ req[q].phase \in {"refused", "releasing", "abandoning", "lost"}
                 /\ req[q].phase = "releasing" => ~req[q].ok
        BY <1>1, <1>3, <4>1, <4>3 DEF First
      <4>4. CASE \E s \in DOMAIN req : req[s].parent = q /\ (s \in advanced \/ req[s].phase = "lost")
        BY <1>1, <1>3, <4>4
      <4> QED
        BY <4>1, <4>2, <4>3, <4>4 DEF IInv, FailuresOK
    <3> QED
      BY <3>1, <3>2, <3>3
  <2> QED
    BY <2>3, <2>4, <2>5, <2>6, <2>7, <2>8, <2>9, <2>10 DEF IInv
<1>5. CASE ~(req[r].stored /\ Persisted(r) /\ CanAcquire(r, req[r].target))
  <2>1. UNCHANGED rows
    BY <1>5 DEF SettleFirst
  <2>2. /\ IsFiniteSet(DOMAIN rows)' /\ LinksOK' /\ StatesAgree'
        /\ \A c : ChainRows(c)' = ChainRows(c)
    BY <2>1, SameRows
  <2>3. TypeOK'
    BY <1>1, <1>3, <2>1 DEF IInv, TypeOK
  <2>4. RowsOfRequests'
    BY <1>1, <1>3, <2>1 DEF IInv, RowsOfRequests, First
  <2>5. RequestsOK'
    BY <1>1, <1>2, <1>3, <2>1 DEF IInv, RequestsOK, First, Has, Keeps, InFlight
  <2>6. DirsOK'
    BY <1>1, <1>3, <2>1 DEF IInv, DirsOK, RowsOfRequests, First, Has, InFlight
  <2>7. LeasesOK'
    BY <1>1, <1>2, <1>3, <2>1, LeasesKept DEF IInv
  <2>8. SweepOK'
    BY <1>1, <1>3, <2>1, <2>2 DEF IInv, SweepOK, TypeOK, RowsOfRequests, Due, Has, Expired
  <2>9. FailuresOK'
    BY <1>1, <1>2, <1>3, <2>1, FailuresKept DEF IInv, RowsOfRequests
  <2> QED
    BY <2>2, <2>3, <2>4, <2>5, <2>6, <2>7, <2>8, <2>9 DEF IInv
<1> QED
  BY <1>4, <1>5

\* A response that is not stored is a chain of its own.
LEMMA NotStoredAlone ==
  ASSUME IInv, NEW q \in DOMAIN rows, rows[q].state = "not_stored" \/ ~req[q].stored
  PROVE  /\ rows[q].state = "not_stored" /\ ~req[q].stored /\ rows[q].chain = q
         /\ \A x \in DOMAIN rows : rows[x].chain = q => x = q
<1>1. rows[q].state = "not_stored" /\ ~req[q].stored /\ First(q)
  BY DEF IInv, RowsOfRequests, RequestsOK
<1>2. rows[q].chain = q
  BY <1>1, RootOfRow
<1>3. rows[q].child = NoId
  BY <1>1 DEF IInv, StatesAgree
<1>4. Line(rows, q) /\ IsFiniteSet(DOMAIN rows) /\ NoId \notin DOMAIN rows
  BY <1>2, ChainsNow, ResponseSessionsAssumption DEF IInv, LinksOK, TypeOK
<1>5. RowsIn(rows, q) = {q}
  BY <1>3, <1>4, RootAlone
<1> QED
  BY <1>1, <1>2, <1>5 DEF RowsIn

\* reconcileStartup: the chains that were being continued have failed.
LEMMA RestartKeeps ==
  ASSUME IInv, Restart
  PROVE  IInv'
<1> DEFINE Cut == {rows[q].chain : q \in {x \in DOMAIN rows : rows[x].state = "continuing"}}
<1>1. /\ ~up /\ up' /\ up' = TRUE /\ rows' = Failed(rows, Cut)
      /\ UNCHANGED <<now, hidden, req, prompted, advanced, announced, dirs, sweep, faults, crashes>>
  BY DEF Restart, runVars
<1>2. /\ \A q \in DOMAIN rows : rows[q] \in Row
      /\ NoId \notin DOMAIN rows /\ IsFiniteSet(DOMAIN rows)
  BY ResponseSessionsAssumption DEF IInv, TypeOK
<1>3. \A q \in DOMAIN rows :
        rows[q].chain \in Cut <=>
          \E x \in DOMAIN rows : rows[x].state = "continuing" /\ rows[x].chain = rows[q].chain
  OBVIOUS
<1> HIDE DEF Cut
<1>4. DOMAIN rows' = DOMAIN rows
  BY <1>1 DEF Failed
<1>5. \A q \in DOMAIN rows :
        /\ rows'[q] \in Row
        /\ rows'[q].chain = rows[q].chain /\ rows'[q].target = rows[q].target
        /\ rows'[q].parent = rows[q].parent /\ rows'[q].child = rows[q].child
        /\ rows'[q].expires = rows[q].expires
        /\ rows'[q].state = IF rows[q].chain \in Cut THEN "terminal_failure" ELSE rows[q].state
  BY <1>1, <1>2 DEF Failed, Row, States
<1>6. LinksOK' /\ \A c : ChainRows(c)' = ChainRows(c)
  BY <1>4, <1>5, LinksKept
<1>7. StatesAgree'
  <2> SUFFICES ASSUME NEW r \in DOMAIN rows'
               PROVE  /\ \A q \in DOMAIN rows' : rows'[q].chain = rows'[r].chain =>
                           (rows'[r].state = "terminal_failure" <=> rows'[q].state = "terminal_failure")
                      /\ rows'[r].state # "terminal_failure" =>
                           (rows'[r].state = "continued" <=> rows'[r].child # NoId)
    BY DEF StatesAgree, ChainRows
  <2>1. r \in DOMAIN rows
    BY <1>4
  <2>2. /\ \A q \in DOMAIN rows : rows[q].chain = rows[r].chain =>
             (rows[r].state = "terminal_failure" <=> rows[q].state = "terminal_failure")
        /\ rows[r].state # "terminal_failure" => (rows[r].state = "continued" <=> rows[r].child # NoId)
    BY <2>1 DEF IInv, StatesAgree, ChainRows
  <2>3. /\ rows'[r].chain = rows[r].chain /\ rows'[r].child = rows[r].child
        /\ rows'[r].state = IF rows[r].chain \in Cut THEN "terminal_failure" ELSE rows[r].state
    BY <1>5, <2>1
  <2>4. ASSUME NEW q \in DOMAIN rows', rows'[q].chain = rows'[r].chain
        PROVE  rows'[r].state = "terminal_failure" <=> rows'[q].state = "terminal_failure"
    <3>1. /\ q \in DOMAIN rows /\ rows'[q].chain = rows[q].chain
          /\ rows'[q].state = IF rows[q].chain \in Cut THEN "terminal_failure" ELSE rows[q].state
      BY <1>4, <1>5
    <3>2. rows[q].chain = rows[r].chain
      BY <2>3, <2>4, <3>1
    <3>3. rows[r].state = "terminal_failure" <=> rows[q].state = "terminal_failure"
      BY <2>2, <3>1, <3>2
    <3> QED
      BY <2>3, <3>1, <3>2, <3>3
  <2> QED
    BY <2>2, <2>3, <2>4
<1>8. TypeOK'
  BY <1>1, <1>4, <1>5 DEF IInv, TypeOK
<1>9. RowsOfRequests'
  <2>1. ASSUME NEW q \in DOMAIN rows
        PROVE  rows'[q].state = "not_stored" <=> rows[q].state = "not_stored"
    <3>1. CASE rows[q].state = "not_stored"
      <4>1. rows[q].chain = q /\ \A x \in DOMAIN rows : rows[x].chain = q => x = q
        BY <3>1, NotStoredAlone
      <4>2. rows[q].chain \notin Cut
        BY <1>3, <3>1, <4>1
      <4> QED
        BY <1>5, <4>2
    <3>2. CASE rows[q].state # "not_stored"
      BY <1>5, <3>2
    <3> QED
      BY <3>1, <3>2
  <2> QED
    BY <1>1, <1>4, <1>5, <2>1 DEF IInv, RowsOfRequests, First
<1>10. RequestsOK'
  BY <1>1, <1>4 DEF IInv, RequestsOK, First, Has, Keeps, InFlight
<1>11. DirsOK'
  BY <1>1, <1>4, <1>5 DEF IInv, DirsOK, First, Has
<1>12. \A q \in DOMAIN rows' : rows'[q].state # "continuing"
  BY <1>3, <1>4, <1>5
<1>13. LeasesOK'
  <2>1. \A s \in DOMAIN req : req[s].phase \notin {"running", "failing"}
    BY <1>1 DEF IInv, RequestsOK, InFlight
  <2> QED
    BY <1>1, <1>12, <2>1 DEF LeasesOK
<1>14. SweepOK'
  <2>1. \A c : Due(c) => Due(c)'
    BY <1>1, <1>4, <1>5, <1>6, <1>12 DEF Due, Expired, ChainRows
  <2> QED
    BY <1>1, <1>4, <1>5, <2>1 DEF IInv, SweepOK, TypeOK, Has
<1>15. FailuresOK'
  <2> SUFFICES ASSUME NEW q \in DOMAIN rows', rows'[q].state = "terminal_failure"
               PROVE  \/ rows'[q].child # NoId
                      \/ /\ First(q)'
                         /\ req'[q].phase \in {"refused", "releasing", "abandoning", "lost"}
                         /\ req'[q].phase = "releasing" => ~req'[q].ok
                      \/ \E s \in DOMAIN req' :
                           req'[s].parent = q /\ (s \in advanced' \/ req'[s].phase = "lost")
    BY DEF FailuresOK
  <2>1. q \in DOMAIN rows /\ rows'[q].child = rows[q].child
    BY <1>4, <1>5
  <2>2. CASE rows[q].chain \in Cut
    <3>1. PICK x \in DOMAIN rows : rows[x].state = "continuing" /\ rows[x].chain = rows[q].chain
      BY <1>3, <2>1, <2>2
    <3>2. CASE x = q
      <4>1. PICK s \in DOMAIN req : req[s].parent = q /\ req[s].phase = "lost"
        BY <1>1, <3>1, <3>2 DEF IInv, LeasesOK
      <4> QED
        BY <1>1, <4>1
    <3>3. CASE x # q
      <4>1. rows[x].child = NoId
        BY <3>1 DEF IInv, StatesAgree
      <4>2. Line(rows, rows[q].chain)
        BY <2>1, ChainsNow DEF IInv, LinksOK
      <4>3. x \in RowsIn(rows, rows[q].chain) /\ q \in RowsIn(rows, rows[q].chain)
        BY <2>1, <3>1 DEF RowsIn
      <4>4. rows[q].child # NoId
        BY <1>2, <3>3, <4>1, <4>2, <4>3, OneTail
      <4> QED
        BY <2>1, <4>4
    <3> QED
      BY <3>2, <3>3
  <2>3. CASE rows[q].chain \notin Cut
    <3>1. rows[q].state = "terminal_failure"
      BY <1>5, <2>1, <2>3
    <3> QED
      BY <1>1, <2>1, <3>1 DEF IInv, FailuresOK, First
  <2> QED
    BY <2>2, <2>3
<1> QED
  BY <1>2, <1>4, <1>6, <1>7, <1>8, <1>9, <1>10, <1>11, <1>13, <1>14, <1>15 DEF IInv

\* Chains that are due and not leased can go, with their workspaces.
LEMMA PrunedKeeps ==
  ASSUME IInv, NEW E, DeleteChains(E), up,
         \A c \in E : Has(c) /\ Due(c) /\ (rows[c].state = "not_stored" \/ ~Leased(c)),
         \A c \in sweep \ E : rows[c].state # "not_stored",
         dirs' = dirs \ E, hidden' = hidden \ RowsOf(E), sweep' = {},
         faults' \in 0 .. MaxFaults, faults' = 0 => faults = 0,
         UNCHANGED <<now, req, prompted, advanced, announced, up, crashes>>
  PROVE  IInv'
<1>1. /\ DOMAIN rows' = {q \in DOMAIN rows : rows[q].chain \notin E}
      /\ \A q \in DOMAIN rows' : rows'[q] = rows[q]
      /\ IsFiniteSet(DOMAIN rows)' /\ LinksOK' /\ StatesAgree'
      /\ \A c : c \notin E => ChainRows(c)' = ChainRows(c)
  BY Deleted
<1>2. NoId \notin DOMAIN rows
  BY ResponseSessionsAssumption DEF IInv, TypeOK
<1>3. TypeOK'
  <2>1. hidden' \subseteq DOMAIN rows'
    BY <1>1 DEF IInv, TypeOK, RowsOf
  <2> QED
    BY <1>1, <2>1 DEF IInv, TypeOK
<1>4. RowsOfRequests'
  BY <1>1 DEF IInv, RowsOfRequests, First
\* The row of a request with a lease is not among them.
<1>5. ASSUME NEW r \in DOMAIN req, First(r), req[r].stored, Has(r),
             req[r].phase \in {"running", "failing", "releasing"}
      PROVE  r \notin E /\ r \in DOMAIN rows'
  <2>1. Leased(r) /\ r \in DOMAIN rows
    BY <1>5 DEF Leased, Submitted, Has
  <2>2. rows[r].chain = r /\ rows[r].state # "not_stored"
    BY <1>5, <2>1, RootOfRow, NotStoredAlone
  <2> QED
    BY <1>1, <1>5, <2>1, <2>2
<1>6. RequestsOK'
  <2>1. ASSUME NEW r \in DOMAIN req, Keeps(r) PROVE r \in dirs'
    <3>1. r \in dirs
      BY <2>1 DEF IInv, RequestsOK
    <3>2. CASE Has(r)
      <4>1. First(r) /\ req[r].stored /\ req[r].phase \in {"running", "failing", "releasing"}
        BY <2>1, <3>2 DEF IInv, RequestsOK, Keeps
      <4> QED
        BY <1>5, <3>1, <3>2, <4>1
    <3>3. CASE ~Has(r)
      BY <3>1, <3>3
    <3> QED
      BY <3>2, <3>3
  <2>2. ASSUME NEW r \in DOMAIN req
        PROVE  /\ First(r) /\ req[r].stored /\ req[r].phase = "running" /\ r \in advanced =>
                    r \in DOMAIN rows'
               /\ req[r].phase = "releasing" /\ req[r].ok => r \in DOMAIN rows'
               /\ req[r].phase = "abandoning" => r \notin DOMAIN rows'
    <3>1. First(r) /\ req[r].stored /\ req[r].phase = "running" /\ r \in advanced => Has(r)
      BY DEF IInv, RequestsOK
    <3>2. req[r].phase = "releasing" /\ req[r].ok => Has(r) /\ First(r) /\ req[r].stored
      BY DEF IInv, RequestsOK
    <3>3. req[r].phase = "abandoning" => ~Has(r)
      BY DEF IInv, RequestsOK
    <3> QED
      BY <1>1, <1>5, <3>1, <3>2, <3>3 DEF Has
  <2> QED
    BY <2>1, <2>2 DEF IInv, RequestsOK, First, Has, Keeps
<1>7. DirsOK'
  <2>1. ASSUME NEW c \in dirs', Has(c) PROVE Has(c)'
    <3>1. First(c) /\ c \in DOMAIN rows
      BY <2>1 DEF IInv, DirsOK, Has
    <3>2. rows[c].chain = c
      BY <3>1, RootOfRow
    <3> QED
      BY <1>1, <3>1, <3>2 DEF Has
  <2>2. ASSUME NEW q \in DOMAIN rows', req[q].stored PROVE rows'[q].chain \in dirs'
    BY <1>1, <2>2 DEF IInv, DirsOK
  <2> QED
    BY <2>1, <2>2 DEF IInv, DirsOK, First
<1>8. LeasesOK'
  <2>1. \A p \in DOMAIN rows : rows[p].state = "continuing" => p \in DOMAIN rows'
    BY <1>1 DEF Due, ChainRows
  <2> QED
    BY <1>1, <1>2, <2>1, LeasesKept DEF IInv
<1>9. SweepOK'
  <2> SUFFICES ASSUME NEW q \in hidden' PROVE Due(rows[q].chain)' /\ req[q].stored
    BY DEF SweepOK
  <2>1. /\ q \in hidden /\ q \in DOMAIN rows /\ q \in DOMAIN rows' /\ rows'[q] = rows[q]
        /\ rows[q].chain \notin E
    BY <1>1 DEF IInv, TypeOK, RowsOf
  <2>2. Due(rows[q].chain) /\ (req[q].stored \/ rows[q].chain \in sweep)
    BY <2>1 DEF IInv, SweepOK
  <2>3. PICK c : c = rows[q].chain
    OBVIOUS
  <2>4. \A x \in ChainRows(c) :
          x \in DOMAIN rows' /\ rows'[x] = rows[x] /\ Expired(x) /\ rows[x].state # "continuing"
    BY <1>1, <2>1, <2>2, <2>3 DEF Due, ChainRows
  <2>5. Due(c)'
    BY <1>1, <2>1, <2>3, <2>4 DEF Due, Expired
  <2>6. req[q].stored
    <3> SUFFICES ASSUME ~req[q].stored PROVE FALSE
      OBVIOUS
    <3>1. rows[q].chain = q /\ rows[q].state = "not_stored"
      BY <2>1, NotStoredAlone
    <3> QED
      BY <2>1, <2>2, <3>1
  <2> QED
    BY <2>1, <2>3, <2>5, <2>6
<1>10. FailuresOK'
  BY <1>1, FailuresKept DEF IInv, RowsOfRequests
<1> QED
  BY <1>1, <1>3, <1>4, <1>6, <1>7, <1>8, <1>9, <1>10 DEF IInv

\* The chains that are due.
LEMMA DueRoots ==
  ASSUME IInv
  PROVE  \A c : c \in DueChains <=> Has(c) /\ rows[c].chain = c /\ Due(c)
<1>1. ASSUME NEW c \in DueChains PROVE Has(c) /\ rows[c].chain = c /\ Due(c)
  <2>1. PICK r \in DOMAIN rows : c = rows[r].chain
    BY DEF DueChains
  <2>2. Due(c)
    BY DEF DueChains, Due
  <2> QED
    BY <2>1, <2>2, RootOfRow DEF Has
<1>2. ASSUME NEW c, Has(c), rows[c].chain = c, Due(c) PROVE c \in DueChains
  <2>1. c \in {rows[r].chain : r \in DOMAIN rows}
    BY <1>2 DEF Has
  <2> QED
    BY <1>2, <2>1 DEF DueChains, Due
<1> QED
  BY <1>1, <1>2

\* A sweep finds what is due, and is done when nothing of it has a workspace.
LEMMA SweepFindKeeps ==
  ASSUME IInv, SweepFind
  PROVE  IInv'
<1>1. /\ up /\ sweep = {}
      /\ UNCHANGED <<now, req, prompted, advanced, announced, dirs, faults, up, crashes>>
  BY DEF SweepFind, runVars, procVars
<1>2. \A c : c \in DueChains <=> Has(c) /\ rows[c].chain = c /\ Due(c)
  BY DueRoots
<1>3. CASE Managed(DueChains) = {} /\ DeleteChains(DueChains) /\ UNCHANGED <<hidden, sweep>>
  <2>1. \A c \in DueChains : rows[c].state = "not_stored"
    BY <1>3 DEF Managed
  <2>2. dirs' = dirs \ DueChains
    <3>1. ASSUME NEW c \in dirs PROVE c \notin DueChains
      <4>1. req[c].stored
        BY DEF IInv, DirsOK
      <4> QED
        BY <1>2, <2>1, <4>1, NotStoredAlone DEF Has
    <3> QED
      BY <1>1, <3>1
  <2>3. hidden' = hidden \ RowsOf(DueChains)
    <3>1. ASSUME NEW q \in hidden PROVE q \notin RowsOf(DueChains)
      <4>1. q \in DOMAIN rows /\ req[q].stored
        BY <1>1 DEF IInv, TypeOK, SweepOK
      <4> SUFFICES ASSUME rows[q].chain \in DueChains PROVE FALSE
        BY DEF RowsOf
      <4>2. rows[q].chain \in DOMAIN rows /\ rows[rows[q].chain].state = "not_stored"
        BY <1>2, <2>1 DEF Has
      <4>3. q = rows[q].chain
        BY <4>1, <4>2, NotStoredAlone
      <4> QED
        BY <4>1, <4>2, <4>3, NotStoredAlone
    <3> QED
      BY <1>3, <3>1
  <2>4. faults' \in 0 .. MaxFaults /\ faults' = faults
    BY <1>1 DEF IInv, TypeOK
  <2>5. sweep' = {} /\ sweep \ DueChains = {}
    BY <1>1, <1>3
  <2>6. DeleteChains(DueChains)
    BY <1>3
  <2>7. PICK E : E = DueChains
    OBVIOUS
  <2> QED
    BY <1>1, <1>2, <2>1, <2>2, <2>3, <2>4, <2>5, <2>6, <2>7, PrunedKeeps
<1>4. CASE sweep' = DueChains /\ hidden' = hidden \cup RowsOf(DueChains) /\ UNCHANGED rows
  <2>1. /\ IsFiniteSet(DOMAIN rows)' /\ LinksOK' /\ StatesAgree'
        /\ \A c : ChainRows(c)' = ChainRows(c)
    BY <1>4, SameRows
  <2>2. TypeOK'
    BY <1>1, <1>2, <1>4 DEF IInv, TypeOK, RowsOf, Has
  <2>3. RowsOfRequests' /\ DirsOK'
    BY <1>1, <1>4 DEF IInv, RowsOfRequests, DirsOK, First, Has
  <2>4. RequestsOK'
    BY <1>1, <1>4 DEF IInv, RequestsOK, First, Has, Keeps
  <2>5. NoId \notin DOMAIN rows
    BY ResponseSessionsAssumption DEF IInv, TypeOK
  <2>6. LeasesOK'
    BY <1>1, <1>4, <2>5, LeasesKept DEF IInv
  <2>7. SweepOK'
    <3>1. \A c : Due(c) => Due(c)'
      BY <1>1, <1>4, <2>1 DEF Due, Expired, ChainRows
    <3>2. \A q \in hidden' : Due(rows[q].chain) /\ (req[q].stored \/ rows[q].chain \in sweep')
      BY <1>1, <1>2, <1>4 DEF IInv, SweepOK, RowsOf
    <3> QED
      BY <1>1, <1>2, <1>4, <3>1, <3>2 DEF SweepOK, Has
  <2>8. FailuresOK'
    BY <1>1, <1>4, FailuresKept DEF IInv, RowsOfRequests
  <2> QED
    BY <2>1, <2>2, <2>3, <2>4, <2>6, <2>7, <2>8 DEF IInv
<1> QED
  BY <1>3, <1>4 DEF SweepFind

\* What a sweep deletes, of what it has found: neither what is leased nor what a
\* fault spares.
LEMMA SweptChains ==
  ASSUME IInv, SweepClean
  PROVE  \E E \in SUBSET sweep :
           /\ DeleteChains(E) /\ dirs' = dirs \ E /\ hidden' = hidden \ RowsOf(E)
           /\ \A c \in E : rows[c].state = "not_stored" \/ ~Leased(c)
           /\ \A c \in sweep \ E : rows[c].state # "not_stored"
<1>1. PICK bad \in SUBSET (Managed(sweep) \cap dirs) :
        LET retry == bad \cup {c \in Managed(sweep) : Leased(c)}
            eligible == sweep \ retry IN
        DeleteChains(eligible) /\ dirs' = dirs \ eligible /\ hidden' = hidden \ RowsOf(eligible)
  BY DEF SweepClean
<1>2. PICK E : E = sweep \ (bad \cup {c \in Managed(sweep) : Leased(c)})
  OBVIOUS
<1>3. DeleteChains(E) /\ dirs' = dirs \ E /\ hidden' = hidden \ RowsOf(E)
  BY <1>1, <1>2
<1>4. /\ E \in SUBSET sweep
      /\ \A c \in E : rows[c].state = "not_stored" \/ ~Leased(c)
      /\ \A c \in sweep \ E : rows[c].state # "not_stored"
  BY <1>2 DEF Managed
<1> QED
  BY <1>3, <1>4

\* A sweep cleans and deletes what it found.
LEMMA SweepCleanKeeps ==
  ASSUME IInv, SweepClean
  PROVE  IInv'
<1>1. /\ up /\ sweep' = {}
      /\ UNCHANGED <<now, req, prompted, advanced, announced, up, crashes>>
  BY DEF SweepClean, runVars, procVars
<1>2. faults' \in 0 .. MaxFaults /\ (faults' = 0 => faults = 0)
  <2>1. faults' = faults \/ (faults < MaxFaults /\ faults' = faults + 1)
    BY DEF SweepClean
  <2>2. faults \in 0 .. MaxFaults /\ MaxFaults \in Nat
    BY ResponsesAssumption DEF IInv, TypeOK
  <2> QED
    BY <2>1, <2>2
<1>3. PICK E \in SUBSET sweep :
        /\ DeleteChains(E) /\ dirs' = dirs \ E /\ hidden' = hidden \ RowsOf(E)
        /\ \A c \in E : rows[c].state = "not_stored" \/ ~Leased(c)
        /\ \A c \in sweep \ E : rows[c].state # "not_stored"
  BY SweptChains
<1>4. \A c \in E : Has(c) /\ Due(c)
  BY DEF IInv, SweepOK
<1> QED
  BY <1>1, <1>2, <1>3, <1>4, PrunedKeeps

-----------------------------------------------------------------------------
(* What always holds.                                                      *)

\* Nothing is there at first.
LEMMA InitKeeps ==
  ASSUME Init
  PROVE  IInv
<1>1. /\ DOMAIN rows = {} /\ DOMAIN req = {} /\ now = 0 /\ hidden = {} /\ prompted = {}
      /\ advanced = {} /\ announced = {} /\ dirs = {} /\ sweep = {} /\ up = TRUE
      /\ faults = 0 /\ crashes = 0
  BY DEF Init, RepositoryInit
<1>2. IsFiniteSet(DOMAIN rows)
  BY <1>1, FS_EmptySet
<1>3. TypeOK
  BY <1>1, ResponseSessionsAssumption, ResponsesAssumption DEF TypeOK
<1>4. LinksOK /\ StatesAgree /\ RowsOfRequests /\ RequestsOK /\ DirsOK /\ LeasesOK /\ SweepOK /\ FailuresOK
  BY <1>1 DEF LinksOK, StatesAgree, RowsOfRequests, RequestsOK, DirsOK, LeasesOK, SweepOK, FailuresOK
<1> QED
  BY <1>2, <1>3, <1>4 DEF IInv

\* Nothing that stands still breaks it.
LEMMA IdleKeeps ==
  ASSUME IInv, UNCHANGED vars
  PROVE  IInv'
<1>1. UNCHANGED <<rows, now, hidden, req, prompted, advanced, announced, dirs, sweep, up, faults, crashes>>
  BY DEF vars, runVars, procVars
<1>2. NoId \notin DOMAIN rows
  BY ResponseSessionsAssumption DEF IInv, TypeOK
<1>3. /\ IsFiniteSet(DOMAIN rows)' /\ LinksOK' /\ StatesAgree'
      /\ \A c : ChainRows(c)' = ChainRows(c)
  BY <1>1, SameRows
<1>4. TypeOK'
  BY <1>1 DEF IInv, TypeOK
<1>5. RowsOfRequests' /\ DirsOK'
  BY <1>1 DEF IInv, RowsOfRequests, DirsOK, First, Has
<1>6. RequestsOK'
  BY <1>1 DEF IInv, RequestsOK, First, Has, Keeps
<1>7. LeasesOK'
  BY <1>1, <1>2, LeasesKept DEF IInv
<1>8. SweepOK'
  BY <1>1, <1>3 DEF IInv, SweepOK, Due, Has, Expired
<1>9. FailuresOK'
  BY <1>1, FailuresKept DEF IInv, RowsOfRequests
<1> QED
  BY <1>3, <1>4, <1>5, <1>6, <1>7, <1>8, <1>9 DEF IInv

\* Every step of the endpoint, of the sweep and of the process keeps the invariant.
LEMMA NextKeeps ==
  ASSUME IInv, [Next]_vars
  PROVE  IInv'
<1>1. CASE Next
  <2>1. CASE \E r \in Ids : Submit(r)
    BY <2>1, SubmitContinuationKeeps, SubmitFirstKeeps DEF Submit
  <2>2. CASE \E r \in Ids : Step(r)
    <3>1. PICK r \in Ids : Step(r)
      BY <2>2
    <3>2. Settle(r) => SettleContinuation(r) \/ SettleFirst(r)
      BY DEF Settle
    <3> QED
      BY <3>1, <3>2, MakeWorkspaceKeeps, PromptKeeps, SessionStartedKeeps, FailKeeps,
         SettleContinuationKeeps, SettleFirstKeeps, CompleteKeeps, ReleaseKeeps, AbandonKeeps
         DEF Step
  <2>3. CASE SweepFind
    BY <2>3, SweepFindKeeps
  <2>4. CASE SweepClean
    BY <2>4, SweepCleanKeeps
  <2>5. CASE Tick
    BY <2>5, TickKeeps
  <2>6. CASE Crash
    BY <2>6, CrashKeeps
  <2>7. CASE Restart
    BY <2>7, RestartKeeps
  <2>8. CASE Idle
    BY <2>8, IdleKeeps DEF Idle
  <2> QED
    BY <1>1, <2>1, <2>2, <2>3, <2>4, <2>5, <2>6, <2>7, <2>8 DEF Next
<1>2. CASE UNCHANGED vars
  BY <1>2, IdleKeeps
<1> QED
  BY <1>1, <1>2

\* The table, the requests, the directories, the locks and the sweep agree in
\* every state, through failures, faults, sweeps, crashes and restarts.
THEOREM Invariance == Spec => []IInv
<1>1. Init => IInv
  BY InitKeeps
<1>2. IInv /\ [Next]_vars => IInv'
  BY NextKeeps
<1> QED
  BY <1>1, <1>2, PTL DEF Spec

\* The continuation of a row is held by one request if it is being continued, and
\* by none if not, while the process is up.
LEMMA OneOwner ==
  ASSUME IInv
  PROVE  LeaseHasOneOwner
<1> SUFFICES ASSUME up, NEW p \in Ids
             PROVE  Cardinality(Holders(p)) = IF Has(p) /\ rows[p].state = "continuing" THEN 1 ELSE 0
  BY DEF LeaseHasOneOwner
<1>1. p # NoId
  BY ResponseSessionsAssumption
<1>2. ASSUME NEW s \in Holders(p)
      PROVE  Holders(p) = {s} /\ Has(p) /\ rows[p].state = "continuing"
  <2>1. s \in DOMAIN req /\ req[s].parent = p /\ ~First(s) /\ req[s].phase \in {"running", "failing"}
    BY <1>1 DEF Holders, First
  <2> QED
    BY <2>1 DEF IInv, LeasesOK
<1>3. Has(p) /\ rows[p].state = "continuing" => Holders(p) # {}
  BY DEF IInv, LeasesOK, Holders, Has
<1>4. CASE Holders(p) = {}
  BY <1>3, <1>4, FS_EmptySet
<1>5. CASE Holders(p) # {}
  <2>1. PICK s : s \in Holders(p)
    BY <1>5
  <2>2. Holders(p) = {s} /\ Has(p) /\ rows[p].state = "continuing"
    BY <1>2, <2>1
  <2> QED
    BY <2>2, FS_Singleton
<1> QED
  BY <1>4, <1>5

\* The chains in the table are lines, failed as a whole or open at their tail.
LEMMA InvariantLines ==
  ASSUME IInv
  PROVE  ChainsAreLines
<1>1. TypeOK /\ LeaseHasOneOwner
  BY OneOwner DEF IInv
<1>2. IsFiniteSet(DOMAIN rows) /\ NoId \notin DOMAIN rows /\ \A q \in DOMAIN rows : rows[q] \in Row
  BY ResponseSessionsAssumption DEF IInv, TypeOK
<1>3. ASSUME NEW c \in {rows[r].chain : r \in DOMAIN rows},
             NEW live, live = {r \in ChainRows(c) : rows[r].state # "terminal_failure"}
      PROVE  /\ ValidChain(c)
             /\ \/ live = {}
                \/ /\ live = ChainRows(c)
                   /\ \E tail \in live :
                        /\ ActiveTail(tail)
                        /\ rows[tail].state \in
                             IF live = {c} THEN {"open", "continuing", "not_stored"}
                                           ELSE {"open", "continuing"}
  <2>1. PICK r \in DOMAIN rows : c = rows[r].chain
    OBVIOUS
  <2>2. ValidChain(c) /\ Line(rows, c) /\ ChainRows(c) = RowsIn(rows, c)
    BY <2>1, ChainsNow DEF IInv, LinksOK
  <2>3. \A q, x \in ChainRows(c) :
          rows[q].state = "terminal_failure" <=> rows[x].state = "terminal_failure"
    <3>1. \A q \in ChainRows(c) : rows[r].state = "terminal_failure" <=> rows[q].state = "terminal_failure"
      BY <2>1 DEF IInv, StatesAgree
    <3> QED
      BY <3>1
  <2>4. CASE live # {}
    <3>1. live = ChainRows(c)
      BY <1>3, <2>3, <2>4
    <3>2. PICK tail \in ChainRows(c) : rows[tail].child = NoId
      BY <1>2, <2>2, OneTail
    <3>3. \A q \in ChainRows(c) : rows[q].child = NoId => q = tail
      BY <1>2, <2>2, <3>2, OneTail
    <3>4. \A q \in ChainRows(c) : /\ q \in DOMAIN rows /\ rows[q].chain = c
                                  /\ rows[q].state # "terminal_failure"
                                  /\ rows[q].state = "continued" <=> rows[q].child # NoId
      BY <1>3, <3>1 DEF ChainRows, IInv, StatesAgree
    <3>5. ActiveTail(tail)
      BY <3>2, <3>3, <3>4 DEF ActiveTail
    <3>6. rows[tail].state \in {"open", "continuing", "not_stored"}
      BY <1>2, <3>2, <3>4 DEF Row, States
    <3>7. rows[tail].state = "not_stored" => live = {c}
      <4> SUFFICES ASSUME rows[tail].state = "not_stored" PROVE live = {c}
        OBVIOUS
      <4>1. tail \in DOMAIN rows
        BY <3>4
      <4>2. rows[tail].chain = tail /\ \A x \in DOMAIN rows : rows[x].chain = tail => x = tail
        BY <4>1, NotStoredAlone
      <4> QED
        BY <3>1, <3>2, <3>4, <4>2
    <3> QED
      BY <2>2, <3>1, <3>2, <3>5, <3>6, <3>7
  <2> QED
    BY <2>2, <2>4
<1> QED
  BY <1>1, <1>3 DEF ChainsAreLines

\* For any response ids and limits, every chain stays a linked line with one tail,
\* failed as a whole or open at the tail, and each lock has one owner.
THEOREM ChainsStayLines == Spec => []ChainsAreLines
<1>1. IInv => ChainsAreLines
  BY InvariantLines
<1> QED
  BY <1>1, Invariance, PTL

\* A response that was answered and that nothing has advanced since can be
\* continued, in its workspace, until it expires.
LEMMA InvariantAnswered ==
  ASSUME IInv
  PROVE  AnsweredCanContinue
<1> SUFFICES ASSUME NEW r \in DOMAIN req, up, req[r].phase = "answered", req[r].stored,
                    Has(r), ~Expired(r),
                    \A s \in DOMAIN req : req[s].parent = r =>
                      req[s].phase = "refused" /\ s \notin advanced
             PROVE  /\ CanAcquire(r, req[r].target)
                    /\ r \notin hidden /\ rows[r].chain \in dirs
  BY DEF AnsweredCanContinue
<1>1. /\ r \in DOMAIN rows /\ NoId \notin DOMAIN rows /\ IsFiniteSet(DOMAIN rows)
      /\ rows[r].target = req[r].target /\ rows[r] \in Row
  BY ResponseSessionsAssumption DEF IInv, TypeOK, RowsOfRequests, Has
<1>2. rows[r].child = NoId
  <2> SUFFICES ASSUME rows[r].child # NoId PROVE FALSE
    OBVIOUS
  <2>1. PICK x \in DOMAIN rows : rows[x].parent = r
    BY <1>1, RootOfRow
  <2>2. x \in DOMAIN req /\ x \in advanced /\ req[x].parent = r
    BY <2>1 DEF IInv, RowsOfRequests
  <2> QED
    BY <2>2
<1>3. rows[r].state # "not_stored"
  BY <1>1 DEF IInv, RowsOfRequests
<1>4. rows[r].state # "continuing"
  BY <1>1 DEF IInv, LeasesOK
<1>5. rows[r].state # "terminal_failure"
  BY <1>1, <1>2 DEF IInv, FailuresOK
<1>6. rows[r].state = "open"
  BY <1>1, <1>2, <1>3, <1>4, <1>5 DEF IInv, StatesAgree, Row, States
<1>7. ValidChain(rows[r].chain) /\ Line(rows, rows[r].chain)
  BY <1>1, ChainsNow DEF IInv, LinksOK
<1>8. ActiveTail(r)
  <2>1. ASSUME NEW q \in ChainRows(rows[r].chain) \ {r} PROVE rows[q].state = "continued"
    <3>1. q \in DOMAIN rows /\ q \in RowsIn(rows, rows[r].chain) /\ r \in RowsIn(rows, rows[r].chain)
      BY <1>1 DEF ChainRows, RowsIn
    <3>2. rows[q].child # NoId
      BY <1>1, <1>2, <1>7, <3>1, OneTail
    <3>3. rows[q].state # "terminal_failure"
      BY <1>1, <1>6 DEF IInv, StatesAgree
    <3> QED
      BY <3>1, <3>2, <3>3 DEF IInv, StatesAgree
  <2> QED
    BY <1>2, <2>1 DEF ActiveTail
<1>9. CanAcquire(r, req[r].target)
  BY <1>1, <1>6, <1>7, <1>8 DEF CanAcquire, Has
<1>10. r \notin hidden
  BY <1>1, RootOfRow DEF IInv, SweepOK, Due
<1>11. rows[r].chain \in dirs
  BY <1>1 DEF IInv, DirsOK
<1> QED
  BY <1>9, <1>10, <1>11

\* Whatever fails, is swept, crashes and restarts around it, an answered response
\* that no continuation has advanced can be continued until it expires.
THEOREM AnsweredStaysOpen == Spec => []AnsweredCanContinue
<1>1. IInv => AnsweredCanContinue
  BY InvariantAnswered
<1> QED
  BY <1>1, Invariance, PTL

\* Without faults and crashes, every workspace directory is that of a stored row
\* or of a request in flight.
THEOREM WorkspacesAccounted == Spec => []NoWorkspaceLeaks
<1>1. IInv => NoWorkspaceLeaks
  <2> SUFFICES ASSUME IInv, faults = 0, crashes = 0, NEW c \in dirs
               PROVE  (Has(c) /\ rows[c].state # "not_stored") \/ req[c].phase \in InFlight
    BY DEF NoWorkspaceLeaks
  <2>1. req[c].stored /\ (Has(c) \/ req[c].phase \in InFlight)
    BY DEF IInv, DirsOK
  <2>2. Has(c) => rows[c].state # "not_stored"
    BY <2>1 DEF IInv, RowsOfRequests, Has
  <2> QED
    BY <2>1, <2>2
<1> QED
  BY <1>1, Invariance, PTL

-----------------------------------------------------------------------------
(* What a step may not do.                                                 *)

\* The two halves of HistoryStands, of one step.
Spares ==
  \A c \in Ids :
    /\ c \in dirs \ dirs' => UsersOf(c) = {}
    /\ c \in DOMAIN rows \ DOMAIN rows' => Expired(c) /\ UsersOf(rows[c].chain) = {}

Stands ==
  \A r \in DOMAIN rows \cap DOMAIN rows' :
    /\ rows[r].state = "terminal_failure" => rows'[r].state = "terminal_failure"
    /\ rows[r].state = "continued" =>
         rows'[r].state \in {"continued", "terminal_failure"} /\ rows'[r].child = rows[r].child

\* A chain that is due and not leased has no users.
LEMMA DueUnused ==
  ASSUME IInv, NEW c, Has(c), Due(c), rows[c].state = "not_stored" \/ ~Leased(c)
  PROVE  UsersOf(c) = {}
<1> SUFFICES ASSUME NEW r \in UsersOf(c) PROVE FALSE
  OBVIOUS
<1>1. CASE r = c /\ Leased(c)
  BY <1>1, NotStoredAlone DEF Leased, Has
<1>2. CASE \E p \in DOMAIN rows : rows[p].chain = c /\ r \in Holders(p)
  <2>1. PICK p \in DOMAIN rows : rows[p].chain = c /\ r \in Holders(p)
    BY <1>2
  <2>2. p # NoId
    BY ResponseSessionsAssumption DEF IInv, TypeOK
  <2>3. rows[p].state = "continuing"
    BY <2>1, <2>2 DEF IInv, LeasesOK, Holders, First
  <2> QED
    BY <2>1, <2>3 DEF Due, ChainRows
<1> QED
  BY <1>1, <1>2 DEF UsersOf

\* Deleting such chains spares every user.
LEMMA PrunedSpares ==
  ASSUME IInv, NEW E, DeleteChains(E), dirs' = dirs \ E \/ dirs' = dirs,
         \A c \in E : Has(c) /\ Due(c) /\ (rows[c].state = "not_stored" \/ ~Leased(c))
  PROVE  Spares /\ Stands
<1>1. /\ DOMAIN rows' = {q \in DOMAIN rows : rows[q].chain \notin E}
      /\ \A q \in DOMAIN rows' : rows'[q] = rows[q]
  BY Deleted
<1>2. \A c \in E : UsersOf(c) = {}
  BY DueUnused
<1>3. \A q \in DOMAIN rows : rows[q].chain \in E => Expired(q)
  BY DEF Due, ChainRows
<1>4. Spares
  BY <1>1, <1>2, <1>3 DEF Spares
<1>5. Stands
  BY <1>1 DEF Stands
<1> QED
  BY <1>4, <1>5

\* Failing chains makes nothing of what had failed or was continued, and keeps its child.
LEMMA FailedStands ==
  ASSUME IInv, NEW C, rows' = Failed(rows, C)
  PROVE  Stands /\ DOMAIN rows' = DOMAIN rows
<1>1. \A q \in DOMAIN rows : rows[q] \in Row
  BY DEF IInv, TypeOK
<1>2. DOMAIN rows' = DOMAIN rows
  BY DEF Failed
<1>3. \A q \in DOMAIN rows :
        /\ rows'[q].child = rows[q].child
        /\ rows'[q].state \in {rows[q].state, "terminal_failure"}
  BY <1>1 DEF Failed, Row
<1> QED
  BY <1>2, <1>3 DEF Stands

\* Where nothing is deleted nothing used is.
LEMMA GrowingSpares ==
  ASSUME dirs \subseteq dirs', DOMAIN rows \subseteq DOMAIN rows'
  PROVE  Spares
BY DEF Spares

\* An unchanged table has its history.
LEMMA SameStands ==
  ASSUME UNCHANGED rows
  PROVE  Stands
BY DEF Stands

\* Every step of a request spares the others and leaves history as it is.
LEMMA StepHistory ==
  ASSUME IInv, NEW r \in Ids, Step(r)
  PROVE  Spares /\ Stands
<1>1. CASE MakeWorkspace(r) \/ Prompt(r) \/ Fail(r) \/ Release(r)
  <2>1. UNCHANGED rows /\ dirs \subseteq dirs'
    BY <1>1 DEF MakeWorkspace, Prompt, Fail, Release
  <2> QED
    BY <2>1, GrowingSpares, SameStands
<1>2. CASE SessionStarted(r)
  <2>1. dirs' = dirs /\ r \notin advanced
    BY <1>2 DEF SessionStarted
  <2>2. CASE UNCHANGED rows
    BY <2>1, <2>2, GrowingSpares, SameStands
  <2>3. CASE Create(r, req[r].target, req[r].stored)
    <3>1. r \notin DOMAIN rows
      BY <2>1 DEF IInv, RowsOfRequests
    <3>2. DOMAIN rows' = DOMAIN rows \cup {r} /\ \A q \in DOMAIN rows : rows'[q] = rows[q]
      BY <2>3, <3>1 DEF Create, With
    <3> QED
      BY <2>1, <3>2, GrowingSpares DEF Stands
  <2> QED
    BY <1>2, <2>2, <2>3 DEF SessionStarted
<1>3. CASE Settle(r)
  <2>1. dirs' = dirs
    BY <1>3 DEF Settle
  <2>2. PICK p : p = req[r].parent
    OBVIOUS
  <2>3. \/ UNCHANGED rows
        \/ \E C : rows' = Failed(rows, C)
        \/ ReleaseBeforeStart(p)
    BY <1>3, <2>2 DEF Settle, SettleContinuation, SettleFirst, FailTerminal
  <2>4. CASE UNCHANGED rows
    BY <2>1, <2>4, GrowingSpares, SameStands
  <2>5. CASE \E C : rows' = Failed(rows, C)
    BY <2>1, <2>5, GrowingSpares, FailedStands
  <2>6. CASE ReleaseBeforeStart(p)
    <3>1. rows[p].state = "continuing" /\ rows' = [rows EXCEPT ![p].state = "open"]
      BY <2>6 DEF ReleaseBeforeStart, Completable
    <3>2. DOMAIN rows' = DOMAIN rows /\ \A q \in DOMAIN rows : q # p => rows'[q] = rows[q]
      BY <3>1
    <3> QED
      BY <2>1, <3>1, <3>2, GrowingSpares DEF Stands
  <2> QED
    BY <2>3, <2>4, <2>5, <2>6
<1>4. CASE Complete(r)
  <2>1. dirs' = dirs /\ r \in DOMAIN req /\ req[r].phase = "running"
    BY <1>4 DEF Complete, Is, Submitted
  <2>2. CASE UNCHANGED rows
    BY <2>1, <2>2, GrowingSpares, SameStands
  <2>3. CASE ~First(r) /\ CompleteContinuation(req[r].parent, r)
    <3>1. PICK p : p = req[r].parent
      OBVIOUS
    <3>2. p \in DOMAIN rows /\ rows[p].state = "continuing" /\ CompleteContinuation(p, r)
      BY <2>3, <3>1 DEF CompleteContinuation, Completable, Has
    <3>3. r \notin DOMAIN rows
      BY <2>1, <2>3 DEF IInv, RowsOfRequests
    <3>4. /\ DOMAIN rows' = DOMAIN rows \cup {r}
          /\ \A q \in DOMAIN rows :
               /\ rows'[q].child = IF q = p THEN r ELSE rows[q].child
               /\ rows'[q].state = IF q = p THEN "continued" ELSE rows[q].state
      BY <3>2, <3>3, CompletedRows
    <3> QED
      BY <2>1, <3>2, <3>4, GrowingSpares DEF Stands
  <2> QED
    BY <1>4, <2>2, <2>3 DEF Complete
<1>5. CASE Abandon(r)
  <2>1. /\ UNCHANGED rows /\ r \in DOMAIN req /\ req[r].phase = "abandoning"
        /\ dirs \ {r} \subseteq dirs'
    BY <1>5 DEF Abandon, Is, Submitted
  <2>2. \A q \in DOMAIN rows : rows[q].chain # r
    BY <2>1, RootOfRow DEF IInv, RequestsOK, Has
  <2>3. UsersOf(r) = {}
    BY <2>1, <2>2 DEF UsersOf, Leased
  <2>4. Spares
    BY <2>1, <2>3 DEF Spares
  <2> QED
    BY <2>1, <2>4, SameStands
<1> QED
  BY <1>1, <1>2, <1>3, <1>4, <1>5 DEF Step

\* So does every other step.
LEMMA NextHistory ==
  ASSUME IInv, Next
  PROVE  Spares /\ Stands
<1>1. CASE \E r \in Ids : Submit(r)
  <2>1. /\ dirs' = dirs
        /\ \/ UNCHANGED rows
           \/ \E p, t : AcquireContinuation(p, t)
    BY <1>1 DEF Submit, SubmitContinuation, SubmitFirst
  <2>2. CASE UNCHANGED rows
    BY <2>1, <2>2, GrowingSpares, SameStands
  <2>3. CASE \E p, t : AcquireContinuation(p, t)
    <3>1. PICK p : rows[p].state = "open" /\ rows' = [rows EXCEPT ![p].state = "continuing"]
      BY <2>3 DEF AcquireContinuation, CanAcquire
    <3>2. DOMAIN rows' = DOMAIN rows /\ \A q \in DOMAIN rows : q # p => rows'[q] = rows[q]
      BY <3>1
    <3> QED
      BY <2>1, <3>1, <3>2, GrowingSpares DEF Stands
  <2> QED
    BY <2>1, <2>2, <2>3
<1>2. CASE \E r \in Ids : Step(r)
  BY <1>2, StepHistory
<1>3. CASE SweepFind
  <2>1. dirs' = dirs
    BY <1>3 DEF SweepFind
  <2>2. CASE UNCHANGED rows
    BY <2>1, <2>2, GrowingSpares, SameStands
  <2>3. CASE Managed(DueChains) = {} /\ DeleteChains(DueChains)
    <3>1. PICK E : E = DueChains
      OBVIOUS
    <3>2. \A c \in E : Has(c) /\ Due(c) /\ rows[c].state = "not_stored"
      BY <2>3, <3>1, DueRoots DEF Managed
    <3>3. DeleteChains(E)
      BY <2>3, <3>1
    <3> QED
      BY <2>1, <3>2, <3>3, PrunedSpares
  <2> QED
    BY <1>3, <2>2, <2>3 DEF SweepFind
<1>4. CASE SweepClean
  <2>1. PICK E \in SUBSET sweep :
          /\ DeleteChains(E) /\ dirs' = dirs \ E
          /\ \A c \in E : rows[c].state = "not_stored" \/ ~Leased(c)
    BY <1>4, SweptChains
  <2>2. \A c \in E : Has(c) /\ Due(c)
    BY DEF IInv, SweepOK
  <2> QED
    BY <2>1, <2>2, PrunedSpares
<1>5. CASE Tick \/ Crash \/ Idle
  <2>1. UNCHANGED <<rows, dirs>>
    BY <1>5 DEF Tick, Crash, Idle, vars
  <2> QED
    BY <2>1, GrowingSpares, SameStands
<1>6. CASE Restart
  <2>1. dirs' = dirs /\ \E C : rows' = Failed(rows, C)
    BY <1>6 DEF Restart
  <2> QED
    BY <2>1, GrowingSpares, FailedStands
<1> QED
  BY <1>1, <1>2, <1>3, <1>4, <1>5, <1>6 DEF Next

\* Retention takes nothing from a request that uses it, what has failed stays
\* failed, and a continued response keeps its one child, in every step.
THEOREM HistoryIsKept == Spec => HistoryStands
<1>1. IInv /\ [Next]_vars => [Spares]_vars /\ [Stands]_vars
  BY NextHistory
<1>2. Spec => [][Spares]_vars /\ [][Stands]_vars
  BY <1>1, Invariance, PTL DEF Spec
<1> QED
  BY <1>2 DEF HistoryStands, SweepSparesUsers, Spares, Stands
=============================================================================

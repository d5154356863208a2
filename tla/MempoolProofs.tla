---------------------------- MODULE MempoolProofs ----------------------------
(***************************************************************************)
(* Proofs about the two halves of the mempool package.  ListMempool: for   *)
(* any number of goroutines in CheckTx, any transactions and any limits,   *)
(* when Flush is called with no CheckTx running (FlushAlone).  MempoolIDs: *)
(* for every set of peers and every width of the ID type.                  *)
(***************************************************************************)
EXTENDS ListMempool, MempoolIDs, LoopProofs, FiniteSetTheorems, TLAPS

\* Zenon is tried first, then the SMT solver, both with more than their default
\* time.  Leaves about numbers and sequences name the SMT solver at once.
USE ZenonT(20), SMTT(20)

\* What the list, the goroutines in CheckTx, Update and Flush can hold.
Element == [e : Nat, tx : Txs, size : Sizes]

CheckSteps == {"idle", "bytes", "push", "store", "add"}
UpdateSteps == {"idle", "remove", "delete", "bytes", "done"}

Types ==
    /\ txs \in Seq(Element)
    /\ txsMap \in [Txs -> Nat]
    /\ pushed \in Nat
    /\ check \in [Threads -> [pc : CheckSteps, tx : Txs \cup {0}, size : Sizes \cup {0}, e : Nat]]
    /\ update \in [pc : UpdateSteps, tx : Txs \cup {0}, size : Sizes \cup {0}, e : Nat]
    /\ flush \in {"idle", "list", "map"}
    /\ \A c \in Threads : check[c].pc # "idle" => check[c].tx \in Txs /\ check[c].size \in Sizes
    /\ update.pc # "idle" => update.tx \in Txs /\ update.size \in Sizes

\* The goroutines between the check and the insertion.
Passed == {c \in Threads : check[c].pc \in {"bytes", "push"}}

\* Each of them may still add an element.
Reserved == Len(txs) + Cardinality(Passed) <= Size + Cardinality(Threads) - 1

Holds(e, t) == \E i \in DOMAIN txs : txs[i].e = e /\ txs[i].tx = t

\* Elements are made once and are in the list once.
Distinct ==
    /\ \A i \in DOMAIN txs : txs[i].e \in 1..pushed
    /\ \A i, j \in DOMAIN txs : txs[i].e = txs[j].e => i = j

\* An element on its way from the list to the map is in the list, and nobody
\* else knows of it.
Private ==
    \A c \in Threads : check[c].pc = "store" =>
        /\ check[c].e \in 1..pushed
        /\ Holds(check[c].e, check[c].tx)
        /\ \A t \in Txs : txsMap[t] # check[c].e
        /\ update.e # check[c].e
        /\ \A d \in Threads : check[d].pc = "store" /\ check[d].e = check[c].e => d = c

\* What the map and Update point to is in the list, but for the element Update
\* has just removed.
Linked ==
    /\ \A t \in Txs : txsMap[t] \in 0..pushed
    /\ update.e \in 0..pushed
    /\ flush = "idle" =>
          \A t \in Txs : txsMap[t] # 0 =>
              \/ Holds(txsMap[t], t)
              \/ update.pc = "delete" /\ update.tx = t /\ update.e = txsMap[t]
    /\ update.pc = "remove" => Holds(update.e, update.tx)

\* Flush excludes Update by the lock, and CheckTx by assumption.
Exclusive ==
    flush # "idle" => update.pc = "idle" /\ \A c \in Threads : check[c].pc = "idle"

Inv == Types /\ Reserved /\ Distinct /\ Private /\ Linked /\ Exclusive /\ NoPanic

\* What a goroutine has put in the list and not yet counted.
Amount(c) == IF c.pc \in {"store", "add"} THEN c.size ELSE 0

\* The goroutines in some order.
ThreadList == CHOOSE q \in [1..Cardinality(Threads) -> Threads] : IsInjective(q)

Uncounted(chk) ==
    [i \in 1..Cardinality(Threads) |-> [size |-> Amount(chk[ThreadList[i]])]]

\* What Update has taken out of the list and not yet discounted.
Undiscounted == IF update.pc \in {"delete", "bytes"} THEN update.size ELSE 0

\* The byte counter and the list differ by what is under way, and by what Update
\* got wrong.
Balanced ==
    /\ txsBytes \in Int /\ skew \in Int
    /\ flush = "idle" =>
          txsBytes + SumOf(Uncounted(check)) = SumOf(txs) + Undiscounted + skew
    /\ flush # "idle" => txsBytes = 0 /\ skew = 0
    /\ flush = "map" => txs = <<>>

-----------------------------------------------------------------------------
(* The sequence operations the list is built from *)

\* What CList.Remove leaves: one element less, the others in their order.
LEMMA RemoveProperties ==
    ASSUME NEW S, NEW s \in Seq(S), NEW i \in DOMAIN s
    PROVE  /\ Remove(s, i) \in Seq(S)
           /\ Len(Remove(s, i)) = Len(s) - 1
           /\ \A j \in 1..(Len(s) - 1) :
                Remove(s, i)[j] = IF j < i THEN s[j] ELSE s[j + 1]
<1> DEFINE a == SubSeq(s, 1, i - 1)
           b == SubSeq(s, i + 1, Len(s))
<1>1. i \in 1..Len(s) /\ Len(s) \in Nat
  OBVIOUS
<1>2. a \in Seq(S) /\ Len(a) = i - 1 /\ \A j \in 1..(i - 1) : a[j] = s[j]
  BY <1>1
<1>3. b \in Seq(S) /\ Len(b) = Len(s) - i /\ \A j \in 1..(Len(s) - i) : b[j] = s[i + j]
  BY <1>1
<1> HIDE DEF a, b
<1>4. /\ a \o b \in Seq(S)
      /\ Len(a \o b) = Len(s) - 1
      /\ \A j \in 1..(Len(s) - 1) : (a \o b)[j] = IF j < i THEN s[j] ELSE s[j + 1]
  BY SMTT(20), <1>1, <1>2, <1>3
<1>5. QED
  BY <1>4 DEF Remove, a, b

-----------------------------------------------------------------------------
(* The bytes of a list *)

\* The partial sums of a list.
Sums(P, q) ==
    /\ P \in [0..Len(q) -> Int]
    /\ P[0] = 0
    /\ \A k \in 1..Len(q) : P[k] = P[k - 1] + q[k].size
    /\ P[Len(q)] = SumOf(q)

\* SumOf goes through the list from its front.
LEMMA SumSteps ==
    ASSUME NEW E, NEW q \in Seq(E), \A x \in E : x.size \in Int
    PROVE  \E P : Sums(P, q)
<1> DEFINE n == Len(q)
           G == [p \in (1..n) \X Int |-> p[2] + q[p[1]].size]
           Eq(h) == h = [i \in 0..n |-> IF i = 0 THEN 0 ELSE h[i - 1] + q[i].size]
           g == CHOOSE h : Eq(h)
<1>1. n \in Nat /\ \A k \in 1..n : q[k].size \in Int
  OBVIOUS
<1>2. G \in [(1..n) \X Int -> Int] /\ 0 \in Int
  BY <1>1
<1>3. \A k \in 1..n, x \in Int : G[<<k, x>>] = x + q[k].size
  OBVIOUS
<1>4. SumOf(q) = g[n]
  BY DEF SumOf
<1> HIDE DEF G, n
<1>5. \E h : Eq(h)
  <2>1. PICK f : Iterates(f, n, Int, 0, G)
    BY <1>1, <1>2, IterationExists
  <2>2. f \in [0..n -> Int] /\ f[0] = 0
    BY <2>1 DEF Iterates
  <2>3. \A k \in 0..n : k # 0 => f[k] = f[k - 1] + q[k].size
    BY <1>3, <2>1 DEF Iterates
  <2>4. Eq(f)
    BY <2>2, <2>3
  <2> QED BY <2>4
<1>6. Eq(g)
  <2> HIDE DEF Eq
  <2> QED BY <1>5
<1> HIDE DEF g
<1>7. g[0] = 0 /\ \A k \in 1..n : g[k] = g[k - 1] + q[k].size
  BY SMTT(20), <1>1, <1>6
<1>8. \A k \in 0..n : g[k] \in Int
  <2>1. Follows(g, n, Int, 0, G)
    BY <1>3, <1>7 DEF Follows
  <2> QED BY <1>1, <1>2, <2>1, IterationType
<1>9. g \in [0..n -> Int]
  <2>1. g = [i \in 0..n |-> g[i]]
    BY <1>6
  <2> QED BY <1>8, <2>1
<1> QED BY <1>4, <1>7, <1>9 DEF n, Sums

\* An element more at the back.
LEMMA SumAppend ==
    ASSUME NEW E, \A x \in E : x.size \in Int, NEW q \in Seq(E), NEW x \in E
    PROVE  SumOf(q) \in Int /\ SumOf(Append(q, x)) = SumOf(q) + x.size
<1> DEFINE n == Len(q)
           r == Append(q, x)
<1>1. /\ n \in Nat /\ r \in Seq(E) /\ Len(r) = n + 1 /\ r[n + 1] = x
      /\ \A k \in 1..n : r[k] = q[k] /\ q[k].size \in Int
  OBVIOUS
<1>2. PICK P : Sums(P, q)
  BY SumSteps
<1>3. PICK R : Sums(R, r)
  BY <1>1, SumSteps
<1> HIDE DEF n, r
<1> DEFINE S == {k \in 0..n : R[k] = P[k]}
<1>4. \A k \in 1..n : R[k] = R[k - 1] + q[k].size /\ P[k] = P[k - 1] + q[k].size
  BY SMTT(20), <1>1, <1>2, <1>3 DEF Sums, n
<1>5. 0 \in S
  BY SMTT(20), <1>1, <1>2, <1>3 DEF Sums
<1>6. ASSUME NEW k \in 0..(n - 1), k \in S PROVE k + 1 \in S
  <2>1. k + 1 \in 1..n /\ (k + 1) - 1 = k
    BY <1>1
  <2> QED BY SMTT(20), <1>4, <1>6, <2>1
<1> HIDE DEF S
<1>7. n \in S
  BY <1>1, <1>5, <1>6, UpTo
<1>8. R[n] = P[n]
  BY <1>7 DEF S
<1>9. R[n + 1] = R[n] + x.size
  <2>1. n + 1 \in 1..Len(r) /\ (n + 1) - 1 = n
    BY <1>1
  <2> QED BY <1>1, <1>3, <2>1 DEF Sums
<1>10. R[n + 1] = SumOf(r)
  BY <1>1, <1>3 DEF Sums
<1>11. P[n] = SumOf(q) /\ P[n] \in Int
  BY SMTT(20), <1>1, <1>2 DEF Sums, n
<1> QED BY <1>8, <1>9, <1>10, <1>11 DEF r

\* Sums in another order.
LEMMA Reorder ==
    ASSUME NEW a \in Int, NEW b \in Int, NEW c \in Int
    PROVE  /\ (a - b) + c = (a + c) - b
           /\ a + c = ((a + b) + c) - b
           /\ (a + 0) + c = (a + b) + (c - b)
  OBVIOUS

\* An element less, anywhere.
LEMMA SumRemove ==
    ASSUME NEW E, \A x \in E : x.size \in Int, NEW q \in Seq(E), NEW i \in DOMAIN q
    PROVE  SumOf(q) \in Int /\ SumOf(Remove(q, i)) = SumOf(q) - q[i].size
<1> DEFINE n == Len(q)
           r == Remove(q, i)
           d == q[i].size
<1>1. /\ n \in Nat /\ i \in 1..n /\ d \in Int
      /\ \A k \in 1..n : q[k].size \in Int
  OBVIOUS
<1>2. /\ r \in Seq(E) /\ Len(r) = n - 1
      /\ \A k \in 1..(n - 1) : r[k] = IF k < i THEN q[k] ELSE q[k + 1]
  BY RemoveProperties
<1>3. PICK P : Sums(P, q)
  BY SumSteps
<1>4. PICK R : Sums(R, r)
  BY <1>2, SumSteps
<1> HIDE DEF n, r, d
<1> DEFINE S == {k \in 0..(n - 1) : R[k] = IF k < i THEN P[k] ELSE P[k + 1] - d}
<1>5. /\ \A k \in 1..n : P[k] = P[k - 1] + q[k].size
      /\ \A k \in 0..n : P[k] \in Int
      /\ \A k \in 1..(n - 1) : R[k] = R[k - 1] + (IF k < i THEN q[k].size ELSE q[k + 1].size)
  BY <1>1, <1>2, <1>3, <1>4 DEF Sums, n
<1>6. 0 \in S
  BY SMTT(20), <1>1, <1>2, <1>3, <1>4 DEF Sums
<1>7. ASSUME NEW k \in 0..(n - 2), k \in S PROVE k + 1 \in S
  <2>1. k + 1 \in 1..(n - 1) /\ (k + 1) - 1 = k /\ k + 1 \in 1..n /\ k + 2 \in 1..n
        /\ (k + 2) - 1 = k + 1 /\ (k + 1) + 1 = k + 2
    BY <1>1
  <2>2. /\ R[k + 1] = R[k] + (IF k + 1 < i THEN q[k + 1].size ELSE q[k + 2].size)
        /\ P[k + 1] = P[k] + q[k + 1].size /\ P[k + 2] = P[k + 1] + q[k + 2].size
        /\ P[k] \in Int /\ P[k + 1] \in Int /\ P[k + 2] \in Int
        /\ q[k + 1].size \in Int /\ q[k + 2].size \in Int
    BY SMTT(20), <1>1, <1>5, <2>1
  <2>3. R[k] = IF k < i THEN P[k] ELSE P[k + 1] - d
    BY <1>7
  <2>4. R[k + 1] = IF k + 1 < i THEN P[k + 1] ELSE P[k + 2] - d
    <3>1. CASE k + 1 < i
      <4>1. k < i
        BY <1>1, <3>1
      <4> QED BY <2>2, <2>3, <3>1, <4>1
    <3>2. CASE k + 1 = i
      <4>1. k < i /\ ~(k + 1 < i) /\ d = q[k + 1].size
        BY <1>1, <3>2 DEF d
      <4>2. R[k + 1] = P[k] + q[k + 2].size /\ P[k + 2] = (P[k] + q[k + 1].size) + q[k + 2].size
        BY <2>2, <2>3, <4>1
      <4>3. P[k] + q[k + 2].size = ((P[k] + q[k + 1].size) + q[k + 2].size) - q[k + 1].size
        <5>1. P[k] \in Int /\ q[k + 1].size \in Int /\ q[k + 2].size \in Int
          BY <2>2
        <5> QED BY <5>1, Reorder
      <4> QED BY <4>1, <4>2, <4>3
    <3>3. CASE k + 1 > i
      <4>1. ~(k < i) /\ ~(k + 1 < i) /\ d \in Int
        BY <1>1, <3>3
      <4>2. R[k] = P[k + 1] - d /\ R[k + 1] = R[k] + q[k + 2].size
        BY <2>2, <2>3, <4>1
      <4>3. (P[k + 1] - d) + q[k + 2].size = (P[k + 1] + q[k + 2].size) - d
        <5>1. P[k + 1] \in Int /\ d \in Int /\ q[k + 2].size \in Int
          BY <2>2, <4>1
        <5> QED BY <5>1, Reorder
      <4>4. R[k + 1] = P[k + 2] - d
        BY <2>2, <4>2, <4>3
      <4> QED BY <4>1, <4>4
    <3> QED BY <1>1, <3>1, <3>2, <3>3
  <2> QED BY <2>1, <2>4
<1> HIDE DEF S
<1>8. n - 1 \in S
  <2>1. n - 1 \in Nat /\ (n - 1) - 1 = n - 2
    BY <1>1
  <2> QED BY <1>6, <1>7, <2>1, UpTo
<1>9. R[n - 1] = SumOf(r) /\ P[n] = SumOf(q) /\ P[n] \in Int /\ P[n] = P[n - 1] + q[n].size
  <2>1. n \in 1..n /\ n \in 0..n
    BY <1>1
  <2>2. P[n] \in Int /\ P[n] = P[n - 1] + q[n].size
    BY <1>5, <2>1
  <2>3. R[n - 1] = SumOf(r) /\ P[n] = SumOf(q)
    BY <1>2, <1>3, <1>4 DEF Sums, n
  <2> QED BY <2>2, <2>3
<1>10. R[n - 1] = P[n] - d
  <2>1. CASE i = n
    BY SMTT(20), <1>1, <1>5, <1>8, <1>9, <2>1 DEF S, d
  <2>2. CASE i < n
    BY <1>1, <1>8, <2>2 DEF S
  <2> QED BY <1>1, <2>1, <2>2
<1> QED BY <1>9, <1>10 DEF r, d

\* One element of another size.
LEMMA SumChange ==
    ASSUME NEW E, \A x \in E : x.size \in Int, NEW q \in Seq(E), NEW r \in Seq(E),
           Len(r) = Len(q), NEW i \in DOMAIN q,
           \A k \in DOMAIN q : k # i => r[k] = q[k]
    PROVE  /\ SumOf(q) \in Int
           /\ SumOf(r) = SumOf(q) + r[i].size - q[i].size
<1> DEFINE n == Len(q)
           d == r[i].size - q[i].size
<1>1. /\ n \in Nat /\ i \in 1..n /\ d \in Int /\ r[i].size \in Int /\ q[i].size \in Int
      /\ \A k \in 1..n : q[k].size \in Int /\ r[k].size \in Int
      /\ \A k \in 1..n : k # i => r[k].size = q[k].size
  <2>1. n \in Nat /\ i \in 1..n /\ DOMAIN q = 1..n
    OBVIOUS
  <2>2. \A k \in 1..n : q[k] \in E /\ r[k] \in E
    OBVIOUS
  <2>3. \A k \in 1..n : q[k].size \in Int /\ r[k].size \in Int
    BY <2>2
  <2> QED BY <2>1, <2>3
<1>2. PICK P : Sums(P, q)
  BY SumSteps
<1>3. PICK R : Sums(R, r)
  BY SumSteps
<1> HIDE DEF n, d
<1> DEFINE S == {k \in 0..n : R[k] = P[k] + (IF k < i THEN 0 ELSE d)}
<1>4. /\ \A k \in 1..n : P[k] = P[k - 1] + q[k].size /\ R[k] = R[k - 1] + r[k].size
      /\ \A k \in 0..n : P[k] \in Int /\ R[k] \in Int
  BY <1>1, <1>2, <1>3 DEF Sums, n
<1>5. 0 \in S
  BY SMTT(20), <1>1, <1>2, <1>3 DEF Sums
<1>6. ASSUME NEW k \in 0..(n - 1), k \in S PROVE k + 1 \in S
  <2>1. k + 1 \in 1..n /\ (k + 1) - 1 = k /\ k \in 0..n /\ k + 1 \in 0..n
    BY SMTT(20), <1>1
  <2>2. /\ P[k + 1] = P[k] + q[k + 1].size /\ R[k + 1] = R[k] + r[k + 1].size
        /\ P[k] \in Int /\ R[k] \in Int
        /\ q[k + 1].size \in Int /\ r[k + 1].size \in Int
    BY <1>1, <1>4, <2>1
  <2>3. R[k] = P[k] + (IF k < i THEN 0 ELSE d)
    BY <1>6
  <2>4. R[k + 1] = P[k + 1] + (IF k + 1 < i THEN 0 ELSE d)
    <3>1. CASE k + 1 = i
      <4>1. k < i /\ ~(k + 1 < i) /\ d = r[k + 1].size - q[k + 1].size
        BY <1>1, <3>1 DEF d
      <4>2. /\ R[k + 1] = (P[k] + 0) + r[k + 1].size
            /\ P[k + 1] + d = (P[k] + q[k + 1].size) + (r[k + 1].size - q[k + 1].size)
        BY <2>2, <2>3, <4>1
      <4>3. (P[k] + 0) + r[k + 1].size = (P[k] + q[k + 1].size) + (r[k + 1].size - q[k + 1].size)
        <5>1. P[k] \in Int /\ q[k + 1].size \in Int /\ r[k + 1].size \in Int
          BY <2>2
        <5> QED BY <5>1, Reorder
      <4> QED BY <4>1, <4>2, <4>3
    <3>2. CASE k + 1 # i
      BY <1>1, <2>1, <2>2, <2>3, <3>2
    <3> QED BY <3>1, <3>2
  <2> QED BY <2>1, <2>4
<1> HIDE DEF S
<1>7. n \in S
  BY <1>1, <1>5, <1>6, UpTo
<1>8. R[n] = P[n] + d
  BY <1>1, <1>7 DEF S
<1>9. R[n] = SumOf(r) /\ P[n] = SumOf(q) /\ P[n] \in Int
  BY SMTT(20), <1>1, <1>2, <1>3 DEF Sums, n
<1> QED BY <1>1, <1>8, <1>9 DEF d

\* No bytes at all.
LEMMA SumZero ==
    ASSUME NEW E, \A x \in E : x.size \in Int, NEW q \in Seq(E),
           \A k \in DOMAIN q : q[k].size = 0
    PROVE  SumOf(q) = 0
<1> DEFINE n == Len(q)
<1>1. n \in Nat /\ \A k \in 1..n : q[k].size = 0
  OBVIOUS
<1>2. PICK P : Sums(P, q)
  BY SumSteps
<1> HIDE DEF n
<1> DEFINE S == {k \in 0..n : P[k] = 0}
<1>3. 0 \in S
  BY SMTT(20), <1>1, <1>2 DEF Sums
<1>4. ASSUME NEW k \in 0..(n - 1), k \in S PROVE k + 1 \in S
  <2>1. k + 1 \in 1..n /\ (k + 1) - 1 = k
    BY <1>1
  <2>2. P[k + 1] = P[k] + q[k + 1].size
    BY <1>2, <2>1 DEF Sums, n
  <2> QED BY <1>1, <1>4, <2>1, <2>2
<1> HIDE DEF S
<1>5. n \in S
  BY <1>1, <1>3, <1>4, UpTo
<1> QED BY <1>2, <1>5 DEF S, Sums, n

-----------------------------------------------------------------------------
(* What the steps do to the list *)

\* PushBack: the elements before, and one more.
LEMMA PushBackHolds ==
    ASSUME Types, Distinct, NEW x \in Element, x.e = pushed + 1, pushed' = pushed + 1,
           txs' = Append(txs, x)
    PROVE  /\ txs' \in Seq(Element) /\ Len(txs') = Len(txs) + 1
           /\ Distinct'
           /\ \A e, t : Holds(e, t) => Holds(e, t)'
           /\ Holds(x.e, x.tx)'
<1>1. /\ txs' \in Seq(Element) /\ Len(txs') = Len(txs) + 1
      /\ Len(txs) \in Nat
      /\ DOMAIN txs' = 1..(Len(txs) + 1) /\ DOMAIN txs = 1..Len(txs)
      /\ \A j \in 1..Len(txs) : txs'[j] = txs[j]
      /\ txs'[Len(txs) + 1] = x
  BY SMTT(20) DEF Types
<1>2. \A e, t : Holds(e, t) => Holds(e, t)'
  BY SMTT(20), <1>1 DEF Holds
<1>3. Holds(x.e, x.tx)'
  BY SMTT(20), <1>1 DEF Holds
<1>4. Distinct'
  <2>1. pushed \in Nat /\ \A i \in 1..Len(txs) : txs[i].e \in 1..pushed
    BY <1>1 DEF Types, Distinct
  <2>2. \A i \in DOMAIN txs' : txs'[i].e \in 1..pushed'
    BY SMTT(20), <1>1, <2>1
  <2>3. \A i, j \in DOMAIN txs' : txs'[i].e = txs'[j].e => i = j
    <3> SUFFICES ASSUME NEW i \in DOMAIN txs', NEW j \in DOMAIN txs',
                        txs'[i].e = txs'[j].e
                 PROVE  i = j
      OBVIOUS
    <3>1. CASE i \in 1..Len(txs) /\ j \in 1..Len(txs)
      BY <1>1, <3>1 DEF Distinct
    <3>2. CASE i = Len(txs) + 1 \/ j = Len(txs) + 1
      BY <1>1, <2>1, <3>2
    <3>3. QED
      BY <1>1, <3>1, <3>2
  <2>4. QED
    BY <2>2, <2>3 DEF Distinct
<1>5. QED
  BY <1>1, <1>2, <1>3, <1>4

\* CList.Remove: every element but the removed one.
LEMMA RemoveHolds ==
    ASSUME Types, Distinct, NEW i \in DOMAIN txs, txs' = Remove(txs, i),
           pushed' = pushed
    PROVE  /\ txs' \in Seq(Element) /\ Len(txs') = Len(txs) - 1
           /\ Distinct'
           /\ \A j \in DOMAIN txs : txs[j].e # txs[i].e => \E k \in DOMAIN txs' : txs'[k] = txs[j]
<1>1. /\ txs' \in Seq(Element) /\ Len(txs') = Len(txs) - 1
      /\ \A j \in 1..(Len(txs) - 1) : txs'[j] = IF j < i THEN txs[j] ELSE txs[j + 1]
  BY RemoveProperties DEF Types
<1>2. /\ Len(txs) \in Nat /\ i \in 1..Len(txs)
      /\ DOMAIN txs = 1..Len(txs) /\ DOMAIN txs' = 1..(Len(txs) - 1)
  BY SMTT(20), <1>1 DEF Types
<1>3. Distinct'
  <2> DEFINE old == [j \in 1..(Len(txs) - 1) |-> IF j < i THEN j ELSE j + 1]
  <2>1. \A j \in 1..(Len(txs) - 1) : old[j] \in 1..Len(txs) /\ txs'[j] = txs[old[j]]
    BY SMTT(20), <1>1, <1>2
  <2>2. \A j, k \in 1..(Len(txs) - 1) : old[j] = old[k] => j = k
    BY <1>2
  <2> HIDE DEF old
  <2>3. \A j \in 1..(Len(txs) - 1) : txs'[j].e \in 1..pushed'
    BY <1>2, <2>1 DEF Distinct
  <2>4. \A j, k \in 1..(Len(txs) - 1) : txs'[j].e = txs'[k].e => j = k
    BY SMTT(20), <1>2, <2>1, <2>2 DEF Distinct
  <2>5. QED
    BY <1>2, <2>3, <2>4 DEF Distinct
<1>4. ASSUME NEW j \in DOMAIN txs, txs[j].e # txs[i].e
      PROVE  \E k \in DOMAIN txs' : txs'[k] = txs[j]
  <2>1. j # i
    BY <1>4
  <2>2. CASE j < i
    <3>1. j \in 1..(Len(txs) - 1) /\ txs'[j] = txs[j]
      BY <1>1, <1>2, <1>4, <2>2
    <3>2. QED
      BY <1>2, <3>1
  <2>3. CASE j > i
    <3>1. j - 1 \in 1..(Len(txs) - 1) /\ txs'[j - 1] = txs[j]
      BY <1>1, <1>2, <1>4, <2>3
    <3>2. QED
      BY <1>2, <3>1
  <2>4. QED
    BY <1>2, <1>4, <2>1, <2>2, <2>3
<1>5. QED
  BY <1>1, <1>3, <1>4

\* Passed is a set of goroutines, so it has a size.
LEMMA PassedFinite ==
    ASSUME NEW T \in SUBSET Threads
    PROVE  /\ IsFiniteSet(T) /\ Cardinality(T) \in Nat
           /\ Cardinality(T) <= Cardinality(Threads)
           /\ Cardinality(Threads) \in Nat /\ Cardinality(Threads) > 0
<1>1. /\ IsFiniteSet(Threads) /\ Cardinality(Threads) \in Nat
      /\ Cardinality(Threads) # 0
  BY MempoolAssumption, FS_CardinalityType, FS_EmptySet
<1>2. QED
  BY SMTT(20), <1>1, FS_Subset, FS_CardinalityType

\* NewListMempool establishes the invariant.
LEMMA InitInv == Init => Inv
<1> SUFFICES ASSUME Init PROVE Inv
  OBVIOUS
<1>1. Types
  BY DEF Init, Types, Idle, CheckSteps, UpdateSteps
<1>2. Reserved
  <2>1. Passed = {}
    BY DEF Init, Passed, Idle
  <2>2. Cardinality(Passed) = 0 /\ Len(txs) = 0
    BY <2>1, FS_EmptySet DEF Init
  <2>3. Cardinality(Threads) \in Nat /\ Cardinality(Threads) > 0
    BY PassedFinite
  <2>4. QED
    BY <2>2, <2>3, MempoolAssumption DEF Reserved
<1>3. Distinct /\ Private /\ Linked /\ Exclusive
  BY DEF Init, Distinct, Private, Linked, Exclusive, Idle
<1>4. QED
  BY <1>1, <1>2, <1>3 DEF Init, Inv, NoPanic

\* The steps of CheckTx keep the invariant.
LEMMA CheckInv ==
    ASSUME FlushAlone, Inv, NEW c \in Threads,
           \/ \E t \in Txs, n \in Sizes : CheckSize(c, t, n)
           \/ CheckBytes(c) \/ PushBack(c) \/ StoreElement(c) \/ AddBytes(c)
    PROVE  Inv'
<1>0. /\ Types /\ Reserved /\ Distinct /\ Private /\ Linked /\ Exclusive /\ NoPanic
      /\ Size \in Nat /\ Len(txs) \in Nat
      /\ Passed \in SUBSET Threads
  BY SMTT(20), MempoolAssumption DEF Inv, Types, Passed
<1>1. ASSUME NEW t \in Txs, NEW n \in Sizes, CheckSize(c, t, n) PROVE Inv'
  <2>1. /\ check[c].pc = "idle" /\ flush = "idle" /\ Len(txs) < Size
        /\ check' = [check EXCEPT ![c] = [pc |-> "bytes", tx |-> t, size |-> n, e |-> 0]]
        /\ UNCHANGED <<txs, txsMap, txsBytes, pushed, update, flush, panicked>>
    BY <1>1 DEF CheckSize
  <2>2. Types'
    BY <1>0, <2>1 DEF Types, CheckSteps
  <2>3. Reserved'
    <3>1. Passed' \in SUBSET Threads
      BY DEF Passed
    <3>2. /\ Cardinality(Passed') \in Nat
          /\ Cardinality(Passed') <= Cardinality(Threads)
          /\ Cardinality(Threads) \in Nat
      BY <3>1, PassedFinite
    <3>3. QED
      BY <1>0, <2>1, <3>2 DEF Reserved
  <2>4. Private'
    BY <1>0, <2>1 DEF Private, Holds, Types
  <2>5. Distinct' /\ Linked' /\ Exclusive' /\ NoPanic'
    BY <1>0, <2>1 DEF Distinct, Linked, Holds, Exclusive, NoPanic
  <2>6. QED
    BY <2>2, <2>3, <2>4, <2>5 DEF Inv
<1>2. ASSUME CheckBytes(c) PROVE Inv'
  <2>1. /\ check[c].pc = "bytes"
        /\ check' = [check EXCEPT ![c] =
              IF txsBytes + check[c].size > MaxTxsBytes \/ check[c].size > MaxTxBytes THEN Idle
              ELSE [check[c] EXCEPT !.pc = "push"]]
        /\ UNCHANGED <<txs, txsMap, txsBytes, pushed, update, flush, panicked>>
    BY <1>2 DEF CheckBytes
  <2>1a. \/ check' = [check EXCEPT ![c] = Idle]
         \/ check' = [check EXCEPT ![c] = [check[c] EXCEPT !.pc = "push"]]
    BY <2>1
  <2>2. Types'
    BY <1>0, <2>1, <2>1a DEF Types, CheckSteps, Idle
  <2>3. Reserved'
    <3>1. Passed' \in SUBSET Passed
      BY <1>0, <2>1, <2>1a DEF Passed, Types, Idle
    <3>2. IsFiniteSet(Passed) /\ Cardinality(Passed) \in Nat
      BY <1>0, PassedFinite
    <3>3. Cardinality(Passed') \in Nat /\ Cardinality(Passed') <= Cardinality(Passed)
      BY <3>1, <3>2, FS_Subset, FS_CardinalityType
    <3>4. Cardinality(Threads) \in Nat
      BY PassedFinite
    <3>5. QED
      BY <1>0, <2>1, <3>2, <3>3, <3>4 DEF Reserved
  <2>4. Private'
    BY <1>0, <2>1, <2>1a DEF Private, Holds, Types, Idle
  <2>5. flush = "idle"
    BY <1>0, <2>1 DEF Exclusive
  <2>6. Distinct' /\ Linked' /\ Exclusive' /\ NoPanic'
    BY <1>0, <2>1, <2>5 DEF Distinct, Linked, Holds, Exclusive, NoPanic
  <2>7. QED
    BY <2>2, <2>3, <2>4, <2>6 DEF Inv
<1>3. ASSUME PushBack(c) PROVE Inv'
  <2>0. check[c].tx \in Txs /\ check[c].size \in Sizes /\ pushed \in Nat
    BY <1>0, <1>3 DEF Types, PushBack
  <2>y. [e |-> pushed + 1, tx |-> check[c].tx, size |-> check[c].size] \in Element
    BY <2>0 DEF Element
  <2>x. PICK x \in Element :
            x = [e |-> pushed + 1, tx |-> check[c].tx, size |-> check[c].size]
    BY <2>y
  <2>1. /\ check[c].pc = "push"
        /\ pushed' = pushed + 1
        /\ txs' = Append(txs, x)
        /\ check' = [check EXCEPT ![c] = [check[c] EXCEPT !.pc = "store", !.e = pushed + 1]]
        /\ UNCHANGED <<txsMap, txsBytes, update, flush, panicked>>
    BY <1>0, <1>3, <2>x DEF PushBack, Types
  <2>2. pushed \in Nat /\ x.e = pushed + 1 /\ x.tx = check[c].tx /\ check[c].tx \in Txs
    BY <2>0, <2>x
  <2>3. /\ txs' \in Seq(Element) /\ Len(txs') = Len(txs) + 1
        /\ Distinct'
        /\ \A e, t : Holds(e, t) => Holds(e, t)'
        /\ Holds(x.e, x.tx)'
    BY <1>0, <2>1, <2>2, PushBackHolds
  <2>4. Types'
    <3>1. [check[c] EXCEPT !.pc = "store", !.e = pushed + 1]
             \in [pc : CheckSteps, tx : Txs \cup {0}, size : Sizes \cup {0}, e : Nat]
      <4>1. check[c] \in [pc : CheckSteps, tx : Txs \cup {0}, size : Sizes \cup {0}, e : Nat]
        BY <1>0 DEF Types
      <4>2. pushed + 1 \in Nat /\ "store" \in CheckSteps
        BY <2>2 DEF CheckSteps
      <4>3. QED
        BY ONLY Zenon, <4>1, <4>2
    <3>2. check' \in [Threads -> [pc : CheckSteps, tx : Txs \cup {0}, size : Sizes \cup {0}, e : Nat]]
      BY <1>0, <2>1, <3>1 DEF Types
    <3>3. \A d \in Threads : check'[d].pc # "idle" => check'[d].tx \in Txs
      BY <1>0, <2>1, <2>2 DEF Types
    <3>4. QED
      BY <1>0, <2>1, <2>2, <2>3, <3>2, <3>3 DEF Types
  <2>5. Reserved'
    <3>1. Passed' = Passed \ {c} /\ c \in Passed
      BY <1>0, <2>1 DEF Passed, Types
    <3>2. IsFiniteSet(Passed) /\ Cardinality(Passed) \in Nat
      BY <1>0, PassedFinite
    <3>3. Cardinality(Passed') = Cardinality(Passed) - 1
      BY <3>1, <3>2, FS_RemoveElement
    <3>4. Cardinality(Threads) \in Nat
      BY PassedFinite
    <3>5. QED
      BY <1>0, <2>3, <3>2, <3>3, <3>4 DEF Reserved
  <2>6. /\ \A d \in Threads : check'[d] = IF d = c THEN [check[c] EXCEPT !.pc = "store", !.e = pushed + 1]
                                          ELSE check[d]
        /\ check'[c].pc = "store" /\ check'[c].e = pushed + 1 /\ check'[c].tx = check[c].tx
    BY <1>0, <2>1 DEF Types
  <2>7. /\ \A t \in Txs : txsMap[t] \in 0..pushed
        /\ update.e \in 0..pushed
        /\ \A d \in Threads : check[d].pc = "store" => check[d].e \in 1..pushed
    BY <1>0 DEF Linked, Private
  <2>8. /\ \A t \in Txs : txsMap[t] # pushed + 1 /\ txsMap[t] \in 0..pushed'
        /\ update.e # pushed + 1 /\ update.e \in 0..pushed'
        /\ \A d \in Threads : check[d].pc = "store" =>
              check[d].e # pushed + 1 /\ check[d].e \in 1..pushed'
        /\ pushed + 1 \in 1..pushed'
    BY <2>1, <2>2, <2>7
  <2>9. Private'
    <3> SUFFICES ASSUME NEW d \in Threads, check'[d].pc = "store"
                 PROVE  /\ check'[d].e \in 1..pushed'
                        /\ Holds(check[d].e, check[d].tx)'
                        /\ \A t \in Txs : txsMap'[t] # check'[d].e
                        /\ update'.e # check'[d].e
                        /\ \A b \in Threads : check'[b].pc = "store" /\ check'[b].e = check'[d].e => b = d
      BY DEF Private
    <3>1. CASE d = c
      <4>1. Holds(check[d].e, check[d].tx)'
        BY <2>2, <2>3, <2>6, <3>1 DEF Holds
      <4>2. QED
        BY <2>1, <2>6, <2>8, <3>1, <4>1
    <3>2. CASE d # c
      <4>1. check'[d] = check[d] /\ check[d].pc = "store"
        BY <2>6, <3>2
      <4>2. Holds(check[d].e, check[d].tx)
        BY <1>0, <4>1 DEF Private
      <4>3. Holds(check[d].e, check[d].tx)'
        BY ONLY SMTT(20), <2>3, <4>1, <4>2 DEF Holds
      <4>4. QED
        BY SMTT(20), <1>0, <2>1, <2>6, <2>8, <4>1, <4>3 DEF Private
    <3>3. QED
      BY <3>1, <3>2
  <2>10. Linked'
    BY <1>0, <2>1, <2>3, <2>8 DEF Linked
  <2>11. Exclusive' /\ NoPanic'
    BY <1>0, <2>1 DEF Exclusive, NoPanic
  <2>12. QED
    BY <2>3, <2>4, <2>5, <2>9, <2>10, <2>11 DEF Inv
<1>4. ASSUME StoreElement(c) PROVE Inv'
  <2>1. /\ check[c].pc = "store"
        /\ txsMap' = [txsMap EXCEPT ![check[c].tx] = check[c].e]
        /\ check' = [check EXCEPT ![c] = [check[c] EXCEPT !.pc = "add"]]
        /\ UNCHANGED <<txs, txsBytes, pushed, update, flush, panicked>>
    BY <1>0, <1>4 DEF StoreElement, Types
  <2>2. check[c].tx \in Txs /\ check[c].e \in Nat
    BY <1>0, <2>1 DEF Types
  <2>3. /\ \A t \in Txs : txsMap'[t] = IF t = check[c].tx THEN check[c].e ELSE txsMap[t]
        /\ \A d \in Threads : d # c => check'[d] = check[d]
        /\ check'[c].pc = "add"
    BY <1>0, <2>1 DEF Types
  <2>4. Types'
    BY <1>0, <2>1, <2>2 DEF Types, CheckSteps
  <2>5. Reserved'
    <3>1. Passed' = Passed
      BY <2>1, <2>3 DEF Passed
    <3>2. QED
      BY <1>0, <2>1, <3>1 DEF Reserved
  <2>6. Private'
    BY SMTT(20), <1>0, <2>1, <2>3 DEF Private, Holds
  <2>7. Linked'
    BY SMTT(20), <1>0, <2>1, <2>3 DEF Linked, Private, Holds
  <2>8. Distinct' /\ Exclusive' /\ NoPanic'
    BY <1>0, <2>1 DEF Distinct, Exclusive, NoPanic
  <2>9. QED
    BY <2>4, <2>5, <2>6, <2>7, <2>8 DEF Inv
<1>5. ASSUME AddBytes(c) PROVE Inv'
  <2>1. /\ check[c].pc = "add"
        /\ check' = [check EXCEPT ![c] = Idle]
        /\ UNCHANGED <<txs, txsMap, pushed, update, flush, panicked>>
    BY <1>5 DEF AddBytes
  <2>2. /\ \A d \in Threads : d # c => check'[d] = check[d]
        /\ check'[c].pc = "idle"
    BY <1>0, <2>1 DEF Types, Idle
  <2>3. Types'
    BY <1>0, <2>1 DEF Types, CheckSteps, Idle
  <2>4. Passed' = Passed
    BY <2>1, <2>2 DEF Passed
  <2>5. Private'
    BY SMTT(20), <1>0, <2>1, <2>2 DEF Private, Holds
  <2>6. QED
    BY <1>0, <2>1, <2>2, <2>3, <2>4, <2>5
    DEF Inv, Reserved, Distinct, Linked, Holds, Exclusive, NoPanic
<1>6. QED
  BY <1>1, <1>2, <1>3, <1>4, <1>5

\* The steps of Update keep the invariant.
LEMMA UpdateInv ==
    ASSUME Inv,
           \/ \E t \in Txs, n \in Sizes : UpdateLoad(t, n)
           \/ UpdateRemove \/ UpdateDelete \/ UpdateBytes \/ UpdateUnlock
    PROVE  Inv'
<1>0. /\ Types /\ Reserved /\ Distinct /\ Private /\ Linked /\ Exclusive /\ NoPanic
      /\ Size \in Nat /\ Len(txs) \in Nat
      /\ Passed \in SUBSET Threads
  BY SMTT(20), MempoolAssumption DEF Inv, Types, Passed
<1>1. ASSUME NEW t \in Txs, NEW n \in Sizes, UpdateLoad(t, n) PROVE Inv'
  <2>1. /\ update.pc = "idle" /\ flush = "idle"
        /\ update' = [pc |-> IF txsMap[t] = 0 THEN "done" ELSE "remove",
                      tx |-> t, size |-> n, e |-> txsMap[t]]
        /\ UNCHANGED <<txs, txsMap, txsBytes, pushed, check, flush, panicked>>
    BY <1>1 DEF UpdateLoad
  <2>2. Types'
    BY <1>0, <2>1 DEF Types, UpdateSteps
  <2>3. Private'
    BY <1>0, <2>1 DEF Private, Holds
  <2>4. Linked'
    BY <1>0, <2>1 DEF Linked, Holds
  <2>5. Reserved' /\ Distinct' /\ Exclusive' /\ NoPanic'
    BY <1>0, <2>1 DEF Reserved, Passed, Distinct, Exclusive, NoPanic
  <2>6. QED
    BY <2>2, <2>3, <2>4, <2>5 DEF Inv
<1>2. ASSUME UpdateRemove PROVE Inv'
  <2>1. /\ update.pc = "remove"
        /\ update' = [update EXCEPT !.pc = "delete"]
        /\ UNCHANGED <<txsMap, txsBytes, pushed, check, flush>>
    BY <1>2 DEF UpdateRemove
  <2>2. Holds(update.e, update.tx) /\ update.e \in Elements
    BY <1>0, <2>1 DEF Linked, Holds, Elements
  <2>3. PICK i \in DOMAIN txs :
            txs[i].e = update.e /\ txs' = Remove(txs, i) /\ panicked' = panicked
    BY <1>2, <2>2 DEF UpdateRemove
  <2>4. /\ txs' \in Seq(Element) /\ Len(txs') = Len(txs) - 1
        /\ Distinct'
        /\ \A j \in DOMAIN txs : txs[j].e # txs[i].e => \E k \in DOMAIN txs' : txs'[k] = txs[j]
    BY <1>0, <2>1, <2>3, RemoveHolds
  <2>5. update' = [pc |-> "delete", tx |-> update.tx, size |-> update.size, e |-> update.e]
    BY <1>0, <2>1 DEF Types
  <2>6. Types'
    BY <1>0, <2>1, <2>4, <2>5 DEF Types, UpdateSteps
  <2>7. Reserved'
    <3>1. Passed' = Passed
      BY <2>1 DEF Passed
    <3>2. Cardinality(Passed) \in Nat /\ Cardinality(Threads) \in Nat
      BY <1>0, PassedFinite
    <3>3. QED
      BY <1>0, <2>4, <3>1, <3>2 DEF Reserved
  <2>8. Private'
    <3> SUFFICES ASSUME NEW c \in Threads, check'[c].pc = "store"
                 PROVE  /\ check'[c].e \in 1..pushed'
                        /\ Holds(check[c].e, check[c].tx)'
                        /\ \A t \in Txs : txsMap'[t] # check'[c].e
                        /\ update'.e # check'[c].e
                        /\ \A d \in Threads : check'[d].pc = "store" /\ check'[d].e = check'[c].e => d = c
      BY DEF Private
    <3>1. Holds(check[c].e, check[c].tx) /\ check[c].e # txs[i].e /\ check' = check
      BY <1>0, <2>1, <2>3 DEF Private
    <3>2. Holds(check[c].e, check[c].tx)'
      <4>1. PICK j \in DOMAIN txs : txs[j].e = check[c].e /\ txs[j].tx = check[c].tx
        BY <3>1 DEF Holds
      <4>2. PICK k \in DOMAIN txs' : txs'[k] = txs[j]
        BY <2>4, <3>1, <4>1
      <4>3. QED
        BY <3>1, <4>1, <4>2 DEF Holds
    <3>3. QED
      BY <1>0, <2>1, <2>5, <3>2 DEF Private
  <2>9. Linked'
    <3>1. ASSUME NEW t \in Txs, flush' = "idle", txsMap'[t] # 0
          PROVE  \/ Holds(txsMap[t], t)'
                 \/ update'.pc = "delete" /\ update'.tx = t /\ update'.e = txsMap'[t]
      <4>1. Holds(txsMap[t], t) /\ txsMap' = txsMap
        BY <1>0, <2>1, <3>1 DEF Linked
      <4>2. CASE txsMap[t] # update.e
        <5>1. PICK j \in DOMAIN txs : txs[j].e = txsMap[t] /\ txs[j].tx = t
          BY <4>1 DEF Holds
        <5>2. PICK k \in DOMAIN txs' : txs'[k] = txs[j]
          BY <2>3, <2>4, <4>2, <5>1
        <5>3. QED
          BY <4>1, <5>1, <5>2 DEF Holds
      <4>3. CASE txsMap[t] = update.e
        <5>1. t = update.tx
          BY <1>0, <2>2, <4>1, <4>3 DEF Holds, Distinct
        <5>2. QED
          BY <2>5, <4>1, <4>3, <5>1
      <4>4. QED
        BY <4>2, <4>3
    <3>2. update'.pc # "remove" /\ update'.e = update.e
      BY <2>5
    <3>3. QED
      BY <1>0, <2>1, <3>1, <3>2 DEF Linked
  <2>10. Exclusive' /\ NoPanic'
    BY <1>0, <2>1, <2>3 DEF Exclusive, NoPanic
  <2>11. QED
    BY <2>4, <2>6, <2>7, <2>8, <2>9, <2>10 DEF Inv
<1>3. ASSUME UpdateDelete PROVE Inv'
  <2>1. /\ update.pc = "delete"
        /\ txsMap' = [txsMap EXCEPT ![update.tx] = 0]
        /\ update' = [update EXCEPT !.pc = "bytes"]
        /\ UNCHANGED <<txs, txsBytes, pushed, check, flush, panicked>>
    BY <1>3 DEF UpdateDelete
  <2>2. update' = [pc |-> "bytes", tx |-> update.tx, size |-> update.size, e |-> update.e] /\ update.tx \in Txs
    BY <1>0, <2>1 DEF Types
  <2>3. \A t \in Txs : txsMap'[t] = IF t = update.tx THEN 0 ELSE txsMap[t]
    BY <1>0, <2>1 DEF Types
  <2>4. Types'
    BY <1>0, <2>1, <2>2 DEF Types, UpdateSteps
  <2>5. Private'
    BY SMTT(20), <1>0, <2>1, <2>2, <2>3 DEF Private, Holds
  <2>6. Linked'
    <3>1. pushed \in Nat /\ \A t \in Txs : txsMap'[t] \in 0..pushed'
      BY SMTT(20), <1>0, <2>1, <2>3 DEF Linked, Types
    <3>2. QED
      BY SMTT(20), <1>0, <2>1, <2>2, <2>3, <3>1 DEF Linked, Holds
  <2>7. Reserved' /\ Distinct' /\ Exclusive' /\ NoPanic'
    BY <1>0, <2>1 DEF Reserved, Passed, Distinct, Exclusive, NoPanic
  <2>8. QED
    BY <2>4, <2>5, <2>6, <2>7 DEF Inv
<1>4. ASSUME UpdateBytes \/ UpdateUnlock PROVE Inv'
  <2>1. /\ update.pc \in {"bytes", "done"}
        /\ \/ update' = [update EXCEPT !.pc = "done"]
           \/ update' = Idle
        /\ UNCHANGED <<txs, txsMap, pushed, check, flush, panicked>>
    BY <1>4 DEF UpdateBytes, UpdateUnlock
  <2>2. \/ update' = [pc |-> "done", tx |-> update.tx, size |-> update.size, e |-> update.e]
        \/ update' = [pc |-> "idle", tx |-> 0, size |-> 0, e |-> 0]
    BY <1>0, <2>1 DEF Types, Idle
  <2>3. Types'
    BY SMTT(20), <1>0, <2>1, <2>2 DEF Types, UpdateSteps
  <2>4. Private'
    <3>1. update'.e \in {update.e, 0}
      BY <2>2
    <3>2. \A e \in 1..pushed : e # 0
      BY SMTT(20), <1>0 DEF Types
    <3> QED BY <1>0, <2>1, <3>1, <3>2 DEF Private, Holds
  <2>5. Linked'
    BY SMTT(20), <1>0, <2>1, <2>2 DEF Linked, Holds, Types
  <2>6. flush = "idle"
    BY <1>0, <2>1 DEF Exclusive
  <2>7. Reserved' /\ Distinct' /\ Exclusive' /\ NoPanic'
    BY <1>0, <2>1, <2>6 DEF Reserved, Passed, Distinct, Exclusive, NoPanic
  <2>8. QED
    BY <2>3, <2>4, <2>5, <2>7 DEF Inv
<1>5. QED
  BY <1>1, <1>2, <1>3, <1>4

\* The steps of Flush keep the invariant.
LEMMA FlushInv ==
    ASSUME FlushAlone, Inv, FlushBytes \/ FlushList \/ FlushMap
    PROVE  Inv'
<1>0. /\ Types /\ Reserved /\ Distinct /\ Private /\ Linked /\ Exclusive /\ NoPanic
      /\ Size \in Nat /\ Len(txs) \in Nat
      /\ Passed \in SUBSET Threads
  BY SMTT(20), MempoolAssumption DEF Inv, Types, Passed
<1>1. ASSUME FlushBytes PROVE Inv'
  <2>1. /\ flush = "idle" /\ update.pc = "idle" /\ flush' = "list"
        /\ \A c \in Threads : check[c].pc = "idle"
        /\ UNCHANGED <<txs, txsMap, pushed, check, update, panicked>>
    BY <1>1 DEF FlushBytes
  <2>2. Types' /\ Exclusive' /\ NoPanic'
    BY <1>0, <2>1 DEF Types, Exclusive, NoPanic
  <2>3. Private' /\ Linked' /\ Distinct'
    BY <1>0, <2>1 DEF Private, Linked, Holds, Distinct
  <2>4. Reserved'
    BY <1>0, <2>1 DEF Reserved, Passed
  <2>5. QED
    BY <2>2, <2>3, <2>4 DEF Inv
<1>2. ASSUME FlushList PROVE Inv'
  <2>1. /\ flush = "list" /\ flush' \in {"list", "map"}
        /\ txs' = IF txs = <<>> THEN <<>> ELSE Tail(txs)
        /\ UNCHANGED <<txsMap, pushed, check, update, panicked>>
    BY <1>2 DEF FlushList
  <2>2. update.pc = "idle" /\ \A c \in Threads : check[c].pc = "idle"
    BY <1>0, <2>1 DEF Exclusive
  <2>3. txs' \in Seq(Element) /\ Len(txs') <= Len(txs) /\ Len(txs') \in Nat
    BY SMTT(20), <1>0, <2>1 DEF Types
  <2>4. Distinct'
    <3>1. CASE txs = <<>>
      BY SMTT(20), <2>1, <3>1 DEF Distinct
    <3>2. CASE txs # <<>>
      <4>1. /\ DOMAIN txs = 1..Len(txs) /\ DOMAIN txs' = 1..(Len(txs) - 1)
            /\ \A j \in 1..(Len(txs) - 1) : j + 1 \in 1..Len(txs) /\ txs'[j] = txs[j + 1]
        BY SMTT(20), <1>0, <2>1, <3>2 DEF Types
      <4>2. \A j \in DOMAIN txs' : txs'[j].e \in 1..pushed'
        BY <1>0, <2>1, <4>1 DEF Distinct
      <4>3. ASSUME NEW j \in DOMAIN txs', NEW k \in DOMAIN txs', txs'[j].e = txs'[k].e
            PROVE  j = k
        <5>1. /\ j + 1 \in DOMAIN txs /\ k + 1 \in DOMAIN txs
              /\ txs[j + 1].e = txs[k + 1].e
              /\ j \in Int /\ k \in Int
          BY <1>0, <4>1, <4>3
        <5>2. j + 1 = k + 1
          BY <1>0, <5>1 DEF Distinct
        <5>3. QED
          BY <5>1, <5>2
      <4>4. QED
        BY <4>2, <4>3 DEF Distinct
    <3>3. QED
      BY <3>1, <3>2
  <2>5. Types' /\ Exclusive' /\ NoPanic'
    BY <1>0, <2>1, <2>2, <2>3 DEF Types, Exclusive, NoPanic
  <2>6. Private' /\ Linked'
    BY <1>0, <2>1, <2>2 DEF Private, Linked
  <2>7. Reserved'
    <3>1. Passed' = Passed
      BY <2>1 DEF Passed
    <3>2. Cardinality(Passed) \in Nat /\ Cardinality(Threads) \in Nat
      BY <1>0, PassedFinite
    <3>3. QED
      BY <1>0, <2>3, <3>1, <3>2 DEF Reserved
  <2>8. QED
    BY <2>4, <2>5, <2>6, <2>7 DEF Inv
<1>3. ASSUME FlushMap PROVE Inv'
  <2>1. /\ flush = "map" /\ flush' = "idle"
        /\ txsMap' = [t \in Txs |-> 0]
        /\ UNCHANGED <<txs, pushed, check, update, panicked>>
    BY <1>3 DEF FlushMap
  <2>2. update.pc = "idle" /\ \A c \in Threads : check[c].pc = "idle"
    BY <1>0, <2>1 DEF Exclusive
  <2>3. Types' /\ Exclusive' /\ NoPanic'
    BY <1>0, <2>1 DEF Types, Exclusive, NoPanic
  <2>4. Private' /\ Linked' /\ Distinct'
    BY SMTT(20), <1>0, <2>1, <2>2 DEF Private, Linked, Distinct, Types
  <2>5. Reserved'
    BY <1>0, <2>1 DEF Reserved, Passed
  <2>6. QED
    BY <2>3, <2>4, <2>5 DEF Inv
<1>4. QED
  BY <1>1, <1>2, <1>3

-----------------------------------------------------------------------------
(* The byte counter *)

\* ThreadList names every goroutine once.
LEMMA ThreadsListed ==
    LET q == ThreadList
        n == Cardinality(Threads)
    IN /\ n \in Nat
       /\ q \in [1..n -> Threads]
       /\ \A i, j \in 1..n : q[i] = q[j] => i = j
       /\ \A c \in Threads : \E i \in 1..n : q[i] = c
<1> DEFINE q == ThreadList
           n == Cardinality(Threads)
<1>1. n \in Nat /\ IsFiniteSet(Threads) /\ ExistsBijection(1..n, Threads)
  BY MempoolAssumption, FS_CardinalityType
<1>2. \E f \in [1..n -> Threads] : IsInjective(f)
  BY <1>1 DEF ExistsBijection, Bijection, Injection, IsInjective
<1>3. q \in [1..n -> Threads] /\ IsInjective(q)
  BY <1>2 DEF ThreadList
<1> HIDE DEF q, n
<1>4. q \in Injection(1..n, Threads)
  BY <1>3 DEF Injection
<1>5. Cardinality(1..n) = n
  BY <1>1, FS_Interval
<1>6. q \in Surjection(1..n, Threads)
  BY <1>1, <1>4, <1>5, FS_Injection DEF n
<1>7. \A c \in Threads : \E i \in 1..n : q[i] = c
  BY <1>6 DEF Surjection
<1>8. \A i, j \in 1..n : q[i] = q[j] => i = j
  BY <1>3 DEF IsInjective
<1> QED BY <1>1, <1>3, <1>7, <1>8 DEF q, n

\* Sizes are numbers.
LEMMA SizeTypes ==
    /\ \A n \in Sizes \cup {0} : n \in Int
    /\ \A x \in Element : x.size \in Int
<1>1. \A n \in Sizes \cup {0} : n \in Int
  BY MempoolAssumption
<1>2. \A x \in Element : x.size \in Sizes
  BY DEF Element
<1> QED BY <1>1, <1>2

\* What a sum is taken over: records with a size.
Sized == [size : Nat]

\* The empty list has no bytes.
LEMMA SumNone == SumOf(<<>>) = 0
<1>1. \A x \in Sized : x.size \in Int
  BY DEF Sized
<1> DEFINE q == <<>>
<1>2. q \in Seq(Sized) /\ \A k \in DOMAIN q : q[k].size = 0
  OBVIOUS
<1>3. SumOf(q) = 0
  <2> HIDE DEF q
  <2> QED BY <1>1, <1>2, SumZero
<1> QED BY <1>3

\* The amounts under way are a sequence of sizes, one for each goroutine.
LEMMA UncountedType ==
    ASSUME NEW chk, \A c \in Threads : Amount(chk[c]) \in Nat
    PROVE  /\ Uncounted(chk) \in Seq(Sized)
           /\ Len(Uncounted(chk)) = Cardinality(Threads)
           /\ DOMAIN Uncounted(chk) = 1..Cardinality(Threads)
<1> DEFINE q == ThreadList
           n == Cardinality(Threads)
           u == Uncounted(chk)
<1>1. n \in Nat /\ q \in [1..n -> Threads]
  BY ThreadsListed
<1> HIDE DEF q, n
<1>2. \A i \in 1..n : [size |-> Amount(chk[q[i]])] \in Sized
  BY <1>1 DEF Sized
<1>3. u = [i \in 1..n |-> [size |-> Amount(chk[q[i]])]]
  BY DEF Uncounted, q, n
<1> HIDE DEF u
<1>4. u \in [1..n -> Sized]
  BY <1>2, <1>3
<1>5. u \in Seq(Sized) /\ Len(u) = n
  BY <1>1, <1>4
<1> QED BY <1>4, <1>5 DEF n, u

\* A goroutine goes on.
LEMMA UncountedStep ==
    ASSUME NEW chk, \A c \in Threads : Amount(chk[c]) \in Nat,
           NEW new, \A c \in Threads : Amount(new[c]) \in Nat,
           NEW c \in Threads, \A d \in Threads : d # c => new[d] = chk[d]
    PROVE  /\ SumOf(Uncounted(chk)) \in Int
           /\ SumOf(Uncounted(new)) =
                 SumOf(Uncounted(chk)) + Amount(new[c]) - Amount(chk[c])
<1> DEFINE q == ThreadList
           n == Cardinality(Threads)
           u == Uncounted(chk)
           w == Uncounted(new)
<1>1. /\ n \in Nat /\ q \in [1..n -> Threads]
      /\ \A i, j \in 1..n : q[i] = q[j] => i = j
      /\ \A d \in Threads : \E i \in 1..n : q[i] = d
  BY ThreadsListed
<1>2. PICK i \in 1..n : q[i] = c
  BY <1>1
<1>3. /\ u \in Seq(Sized) /\ Len(u) = n /\ DOMAIN u = 1..n
      /\ w \in Seq(Sized) /\ Len(w) = n
  BY UncountedType
<1>4. \A x \in Sized : x.size \in Int
  BY DEF Sized
<1>5. \A k \in 1..n : k # i => w[k] = u[k]
  <2> SUFFICES ASSUME NEW k \in 1..n, k # i
               PROVE  w[k] = u[k]
    OBVIOUS
  <2>1. q[k] \in Threads /\ q[k] # c
    BY <1>1, <1>2
  <2>2. new[q[k]] = chk[q[k]]
    BY <2>1
  <2> QED BY <2>2 DEF Uncounted, Amount
<1>6. w[i].size = Amount(new[c]) /\ u[i].size = Amount(chk[c])
  BY <1>2 DEF Uncounted
<1> HIDE DEF q, n, u, w
<1>7. SumOf(u) \in Int /\ SumOf(w) = SumOf(u) + w[i].size - u[i].size
  <2>1. Len(w) = Len(u) /\ i \in DOMAIN u /\ \A k \in DOMAIN u : k # i => w[k] = u[k]
    BY <1>3, <1>5
  <2> QED BY <1>3, <1>4, <2>1, SumChange
<1> QED BY <1>6, <1>7 DEF u, w

\* Nothing is under way in a goroutine that does nothing.
LEMMA UncountedIdle ==
    ASSUME NEW chk, \A c \in Threads : chk[c].pc = "idle"
    PROVE  SumOf(Uncounted(chk)) = 0
<1> DEFINE u == Uncounted(chk)
<1>1. \A c \in Threads : Amount(chk[c]) = 0
  BY DEF Amount
<1>2. u \in Seq(Sized) /\ DOMAIN u = 1..Cardinality(Threads)
  BY <1>1, UncountedType
<1>3. ThreadList \in [1..Cardinality(Threads) -> Threads]
  BY ThreadsListed
<1>4. \A k \in DOMAIN u : u[k].size = 0
  BY <1>1, <1>2, <1>3 DEF Uncounted
<1>5. \A x \in Sized : x.size \in Int
  BY SMTT(20) DEF Sized
<1> HIDE DEF u
<1>6. SumOf(u) = 0
  BY <1>2, <1>4, <1>5, SumZero
<1> QED BY <1>6 DEF u

\* The steps of CheckTx keep the balance: the element is in the list before its
\* bytes are in the counter, and until then the goroutine answers for them.
LEMMA CheckBalanced ==
    ASSUME FlushAlone, Inv, Inv', Balanced, NEW c \in Threads,
           \/ \E t \in Txs, n \in Sizes : CheckSize(c, t, n)
           \/ CheckBytes(c) \/ PushBack(c) \/ StoreElement(c) \/ AddBytes(c)
    PROVE  Balanced'
<1>1. /\ Types /\ Types'
      /\ \A d \in Threads : Amount(check[d]) \in Nat
      /\ \A d \in Threads : Amount(check'[d]) \in Nat
  BY MempoolAssumption DEF Inv, Types, Amount
<1>2. /\ flush = "idle" /\ flush' = "idle" /\ update' = update /\ skew' = skew
      /\ \A d \in Threads : d # c => check'[d] = check[d]
  <2>1. flush' = flush /\ update' = update /\ skew' = skew
    BY DEF CheckSize, CheckBytes, PushBack, StoreElement, AddBytes
  <2>2. flush = "idle"
    <3>1. flush = "idle" \/ check[c].pc # "idle"
      BY DEF CheckSize, CheckBytes, PushBack, StoreElement, AddBytes
    <3> QED BY <3>1 DEF Inv, Exclusive
  <2>3. \A d \in Threads : d # c => check'[d] = check[d]
    BY <1>1 DEF CheckSize, CheckBytes, PushBack, StoreElement, AddBytes, Types
  <2> QED BY <2>1, <2>2, <2>3
<1>3. /\ SumOf(Uncounted(check)) \in Int
      /\ SumOf(Uncounted(check')) =
            SumOf(Uncounted(check)) + Amount(check'[c]) - Amount(check[c])
  BY <1>1, <1>2, UncountedStep
<1>4. txs \in Seq(Element) /\ \A x \in Element : x.size \in Int
  BY <1>1, SizeTypes DEF Types
<1>5. /\ txsBytes' \in Int
      /\ txsBytes' + Amount(check'[c]) - Amount(check[c]) - txsBytes = SumOf(txs') - SumOf(txs)
      /\ SumOf(txs) \in Int /\ SumOf(txs') \in Int
  <2>1. txsBytes \in Int /\ SumOf(txs) \in Int
    <3>1. PICK P : Sums(P, txs)
      BY <1>4, SumSteps
    <3>2. Len(txs) \in Nat
      BY <1>4
    <3> QED BY SMTT(20), <3>1, <3>2 DEF Balanced, Sums
  <2>2. ASSUME CheckBytes(c) \/ StoreElement(c) \/ \E t \in Txs, n \in Sizes : CheckSize(c, t, n)
        PROVE  /\ txsBytes' = txsBytes /\ txs' = txs
               /\ Amount(check'[c]) = Amount(check[c])
    BY SMTT(20), <1>1, <2>2 DEF CheckSize, CheckBytes, StoreElement, Types, Amount, Idle
  <2>3. ASSUME PushBack(c)
        PROVE  /\ txsBytes' = txsBytes
               /\ SumOf(txs') = SumOf(txs) + check[c].size
               /\ Amount(check'[c]) = check[c].size /\ Amount(check[c]) = 0
               /\ check[c].size \in Int
    <3> DEFINE x == [e |-> pushed + 1, tx |-> check[c].tx, size |-> check[c].size]
    <3>1. /\ check[c].tx \in Txs /\ check[c].size \in Sizes
          /\ pushed \in Nat /\ check[c].size \in Int
      BY <1>1, <2>3, SizeTypes DEF PushBack, Types
    <3>2. x \in Element /\ x.size = check[c].size
      BY <3>1 DEF Element
    <3>3. txs' = Append(txs, x) /\ txsBytes' = txsBytes
      BY <2>3 DEF PushBack
    <3> HIDE DEF x
    <3>4. SumOf(Append(txs, x)) = SumOf(txs) + x.size
      BY <1>4, <3>2, SumAppend
    <3>5. Amount(check'[c]) = check[c].size /\ Amount(check[c]) = 0
      BY <1>1, <2>3 DEF PushBack, Types, Amount
    <3> QED BY <3>1, <3>2, <3>3, <3>4, <3>5
  <2>4. ASSUME AddBytes(c)
        PROVE  /\ txsBytes' = txsBytes + check[c].size /\ txs' = txs
               /\ Amount(check'[c]) = 0 /\ Amount(check[c]) = check[c].size
               /\ check[c].size \in Int
    BY <1>1, <2>4, SizeTypes DEF AddBytes, Types, Amount, Idle
  <2>5. CASE CheckBytes(c) \/ StoreElement(c) \/ \E t \in Txs, n \in Sizes : CheckSize(c, t, n)
    <3>1. /\ txsBytes' = txsBytes /\ txs' = txs
          /\ Amount(check'[c]) = Amount(check[c])
      BY <2>2, <2>5
    <3>2. Amount(check[c]) \in Nat
      BY <1>1
    <3>3. txsBytes' + Amount(check'[c]) - Amount(check[c]) - txsBytes = 0
      BY <2>1, <3>1, <3>2
    <3>4. SumOf(txs') = SumOf(txs)
      BY <3>1
    <3>5. SumOf(txs') - SumOf(txs) = 0
      BY <2>1, <3>4
    <3> QED BY <2>1, <3>1, <3>3, <3>4, <3>5
  <2>6. CASE PushBack(c)
    <3>1. /\ txsBytes' = txsBytes /\ SumOf(txs') = SumOf(txs) + check[c].size
          /\ Amount(check'[c]) = check[c].size /\ Amount(check[c]) = 0
          /\ check[c].size \in Int
      BY <2>3, <2>6
    <3> QED BY <2>1, <3>1
  <2>7. CASE AddBytes(c)
    <3>1. /\ txsBytes' = txsBytes + check[c].size /\ txs' = txs
          /\ Amount(check'[c]) = 0 /\ Amount(check[c]) = check[c].size
          /\ check[c].size \in Int
      BY <2>4, <2>7
    <3> QED BY <2>1, <3>1
  <2> QED BY <2>5, <2>6, <2>7
<1>6. Undiscounted' = Undiscounted /\ Undiscounted \in Int
  <2>1. update.size \in Int
    BY <1>1, SizeTypes DEF Types
  <2> QED BY <1>2, <2>1 DEF Undiscounted
<1>7. /\ txsBytes \in Int /\ Amount(check[c]) \in Int /\ Amount(check'[c]) \in Int
      /\ skew \in Int
      /\ txsBytes + SumOf(Uncounted(check)) = SumOf(txs) + Undiscounted + skew
  <2>1. Amount(check[c]) \in Int /\ Amount(check'[c]) \in Int
    BY <1>1
  <2> QED BY <1>2, <2>1 DEF Balanced
<1>8. txsBytes' + SumOf(Uncounted(check')) = SumOf(txs') + Undiscounted' + skew'
  BY <1>2, <1>3, <1>5, <1>6, <1>7
<1> QED BY <1>2, <1>5, <1>7, <1>8 DEF Balanced

\* The steps of Update keep the balance.
LEMMA UpdateBalanced ==
    ASSUME Inv, Balanced,
           \/ \E t \in Txs, n \in Sizes : UpdateLoad(t, n)
           \/ UpdateRemove \/ UpdateDelete \/ UpdateBytes \/ UpdateUnlock
    PROVE  Balanced'
<1>1. Types /\ Distinct /\ Linked /\ Exclusive
  BY DEF Inv
<1>2. /\ flush = "idle" /\ flush' = flush /\ check' = check
      /\ txsBytes + SumOf(Uncounted(check)) = SumOf(txs) + Undiscounted + skew
      /\ txsBytes \in Int /\ skew \in Int
  BY <1>1 DEF UpdateLoad, UpdateRemove, UpdateDelete, UpdateBytes, UpdateUnlock, Exclusive,
              Balanced
<1>3. txs \in Seq(Element) /\ \A x \in Element : x.size \in Int
  BY <1>1, SizeTypes DEF Types
<1>4. update.size \in Int
  BY <1>1, SizeTypes DEF Types
<1>5. ASSUME UpdateRemove
      PROVE  \E n \in Int :
                /\ txsBytes' = txsBytes
                /\ SumOf(txs) \in Int /\ SumOf(txs') = SumOf(txs) - n
                /\ skew' = skew + n - update.size
                /\ Undiscounted = 0 /\ Undiscounted' = update.size
  <2>1. update.e \in Elements
    BY <1>1, <1>5 DEF UpdateRemove, Linked, Holds, Elements
  <2>2. PICK i \in DOMAIN txs :
            txs' = Remove(txs, i) /\ skew' = skew + txs[i].size - update.size
    BY <1>5, <2>1 DEF UpdateRemove
  <2>3. txs[i].size \in Int
    <3>1. txs[i] \in Element
      BY <1>3
    <3> QED BY <1>3, <3>1
  <2>4. SumOf(txs) \in Int /\ SumOf(Remove(txs, i)) = SumOf(txs) - txs[i].size
    BY <1>3, SumRemove
  <2>5. txsBytes' = txsBytes /\ Undiscounted = 0 /\ Undiscounted' = update.size
    BY <1>1, <1>5 DEF UpdateRemove, Undiscounted, Types
  <2> QED BY <2>2, <2>3, <2>4, <2>5
<1>6. ASSUME UpdateBytes
      PROVE  txsBytes' = txsBytes - update.size /\ txs' = txs /\ skew' = skew
             /\ Undiscounted = update.size /\ Undiscounted' = 0
  BY <1>1, <1>6 DEF UpdateBytes, Undiscounted, Types
<1>7. ASSUME UpdateDelete \/ UpdateUnlock \/ \E t \in Txs, n \in Sizes : UpdateLoad(t, n)
      PROVE  txsBytes' = txsBytes /\ txs' = txs /\ skew' = skew
             /\ Undiscounted' = Undiscounted
  BY SMTT(20), <1>1, <1>7 DEF UpdateDelete, UpdateUnlock, UpdateLoad, Undiscounted, Types, Idle
<1>8. /\ SumOf(Uncounted(check)) \in Int
      /\ SumOf(txs) \in Int
  <2>1. \A c \in Threads : Amount(check[c]) \in Nat
    BY <1>1, MempoolAssumption DEF Types, Amount
  <2>2. PICK P : Sums(P, txs)
    BY <1>3, SumSteps
  <2>3. Len(txs) \in Nat
    BY <1>3
  <2>4. PICK c \in Threads : TRUE
    BY MempoolAssumption
  <2>5. SumOf(Uncounted(check)) \in Int
    BY <2>1, <2>4, UncountedStep
  <2> QED BY SMTT(20), <2>2, <2>3, <2>5 DEF Sums
<1>9. /\ txsBytes' \in Int /\ skew' \in Int
      /\ txsBytes' + SumOf(Uncounted(check)) = SumOf(txs') + Undiscounted' + skew'
  <2>1. CASE UpdateRemove
    <3>1. PICK n \in Int :
             /\ txsBytes' = txsBytes
             /\ SumOf(txs) \in Int /\ SumOf(txs') = SumOf(txs) - n
             /\ skew' = skew + n - update.size
             /\ Undiscounted = 0 /\ Undiscounted' = update.size
      BY <1>5, <2>1
    <3> QED BY SMTT(20), <1>2, <1>4, <1>8, <3>1
  <2>2. CASE UpdateBytes
    BY <1>2, <1>4, <1>6, <1>8, <2>2
  <2>3. CASE UpdateDelete \/ UpdateUnlock \/ \E t \in Txs, n \in Sizes : UpdateLoad(t, n)
    BY <1>2, <1>7, <2>3
  <2> QED BY <2>1, <2>2, <2>3
<1> QED BY <1>2, <1>9 DEF Balanced

\* The steps of Flush set the counter and the list to nothing, while no CheckTx
\* and no Update is under way.
LEMMA FlushBalanced ==
    ASSUME Inv, Balanced, FlushBytes \/ FlushList \/ FlushMap
    PROVE  Balanced'
<1>1. Types /\ Exclusive
  BY DEF Inv
<1>2. CASE FlushBytes
  BY <1>2 DEF FlushBytes, Balanced
<1>3. CASE FlushList
  BY <1>3 DEF FlushList, Balanced
<1>4. CASE FlushMap
  <2>1. /\ flush = "map" /\ flush' = "idle" /\ txs' = txs /\ txsBytes' = txsBytes
        /\ check' = check /\ update' = update /\ skew' = skew
    BY <1>4 DEF FlushMap
  <2>2. txsBytes = 0 /\ skew = 0 /\ txs = <<>> /\ Undiscounted = 0
    BY <1>1, <2>1 DEF Balanced, Exclusive, Undiscounted
  <2>3. SumOf(Uncounted(check)) = 0
    BY <1>1, <2>1, UncountedIdle DEF Exclusive
  <2>4. SumOf(<<>>) = 0
    BY SumNone
  <2>5. txsBytes' + SumOf(Uncounted(check')) = SumOf(txs') + Undiscounted' + skew'
    BY <2>1, <2>2, <2>3, <2>4 DEF Undiscounted
  <2> QED BY <2>1, <2>2, <2>5 DEF Balanced
<1> QED BY <1>2, <1>3, <1>4

\* Every step of the pool keeps the invariant.
LEMMA NextInv == FlushAlone /\ Inv /\ [Next]_vars => Inv'
<1> SUFFICES ASSUME FlushAlone, Inv, [Next]_vars PROVE Inv'
  OBVIOUS
<1>1. CASE UNCHANGED vars
  <2>1. UNCHANGED <<txs, txsMap, txsBytes, pushed, check, update, flush, panicked>>
    BY <1>1 DEF vars
  <2>2. Types' /\ Exclusive' /\ NoPanic'
    BY <2>1 DEF Inv, Types, Exclusive, NoPanic
  <2>3. Reserved' /\ Distinct'
    BY <2>1 DEF Inv, Reserved, Passed, Distinct
  <2>4. Private' /\ Linked'
    BY <2>1 DEF Inv, Private, Linked, Holds
  <2> QED BY <2>2, <2>3, <2>4 DEF Inv
<1>2. CASE Next
  BY <1>2, CheckInv, UpdateInv, FlushInv DEF Next
<1>3. QED
  BY <1>1, <1>2

\* And the balance with it.
LEMMA NextBalanced == FlushAlone /\ Inv /\ Inv' /\ Balanced /\ [Next]_vars => Balanced'
<1> SUFFICES ASSUME FlushAlone, Inv, Inv', Balanced, [Next]_vars PROVE Balanced'
  OBVIOUS
<1>1. CASE UNCHANGED vars
  BY <1>1 DEF vars, Balanced, Undiscounted
<1>2. CASE Next
  BY <1>2, CheckBalanced, UpdateBalanced, FlushBalanced DEF Next
<1>3. QED
  BY <1>1, <1>2

\* Whatever the goroutines in CheckTx and the caller of Update do, the pool
\* exceeds config.Size by less than the number of these goroutines, and
\* Update never removes an element twice, if Flush is called with no CheckTx
\* running.
THEOREM MempoolSafety ==
    ASSUME FlushAlone
    PROVE  Spec => [](SizeBounded /\ NoPanic)
<1>1. Inv => SizeBounded /\ NoPanic
  <2> SUFFICES ASSUME Inv PROVE SizeBounded
    BY DEF Inv
  <2>1. Len(txs) \in Nat /\ Passed \in SUBSET Threads /\ Size \in Nat
    BY SMTT(20), MempoolAssumption DEF Inv, Types, Passed
  <2>2. Cardinality(Passed) \in Nat /\ Cardinality(Threads) \in Nat
    BY <2>1, PassedFinite
  <2>3. QED
    BY <2>1, <2>2 DEF Inv, Reserved, SizeBounded
<1>2. Inv /\ [Next]_vars => Inv'
  BY NextInv
<1>3. QED
  BY InitInv, <1>1, <1>2, PTL DEF Spec

\* Update never removes an element that has left the list.
THEOREM MempoolNoPanic ==
    ASSUME FlushAlone
    PROVE  Spec => []NoPanic
BY MempoolSafety, PTL

\* Whenever nothing is under way the byte counter, on which isFull decides, is
\* the size of the list, but for the differences in size between committed
\* transactions and the elements their keys led to: no addition and no
\* subtraction of the three operations is lost or made twice, although none of
\* them is atomic with the list.
THEOREM MempoolBytes ==
    ASSUME FlushAlone
    PROVE  Spec => []BytesMatch
<1>1. Init => Inv /\ Balanced
  <2> SUFFICES ASSUME Init PROVE Balanced
    BY InitInv
  <2>1. txs = <<>> /\ txsBytes = 0 /\ skew = 0 /\ flush = "idle" /\ Undiscounted = 0
    BY DEF Init, Undiscounted, Idle
  <2>2. SumOf(Uncounted(check)) = 0
    <3>1. \A c \in Threads : check[c].pc = "idle"
      BY DEF Init, Idle
    <3> QED BY <3>1, UncountedIdle
  <2>3. SumOf(<<>>) = 0
    BY SumNone
  <2> QED BY <2>1, <2>2, <2>3 DEF Balanced
<1>2. Inv /\ Balanced /\ [Next]_vars => (Inv /\ Balanced)'
  BY NextInv, NextBalanced
<1>3. Inv /\ Balanced => BytesMatch
  <2> SUFFICES ASSUME Inv, Balanced, Quiet PROVE txsBytes = SumOf(txs) + skew
    BY DEF BytesMatch
  <2>1. SumOf(Uncounted(check)) = 0 /\ Undiscounted = 0
    BY UncountedIdle DEF Quiet, Undiscounted
  <2>2. txsBytes + 0 = SumOf(txs) + 0 + skew /\ txsBytes \in Int /\ skew \in Int
    BY <2>1 DEF Quiet, Balanced
  <2>3. SumOf(txs) \in Int
    <3>1. txs \in Seq(Element) /\ \A x \in Element : x.size \in Int
      BY SizeTypes DEF Inv, Types
    <3>2. PICK P : Sums(P, txs)
      BY <3>1, SumSteps
    <3>3. Len(txs) \in Nat
      BY <3>1
    <3> QED BY SMTT(20), <3>2, <3>3 DEF Sums
  <2> QED BY <2>2, <2>3
<1>4. QED
  BY <1>1, <1>2, <1>3, PTL DEF Spec

-----------------------------------------------------------------------------
(* The IDs of the peers *)

IDTypes ==
    /\ peerMap \in [Peers -> IDs \cup {NoID}]
    /\ nextID \in IDs
    /\ activeIDs \subseteq IDs

\* The invariant: the three properties hold each other up.  A new ID is fresh
\* among the peers because every ID a peer has is active, and Reclaim frees the
\* ID of one peer only because the IDs are unique.
IDsInv == IDTypes /\ UniqueIDs /\ ActiveIDsAreOwned /\ EnoughIDs

Connected == {q \in Peers : peerMap[q] # NoID}

\* Some peer is not connected, so the active IDs are at most as many as the
\* peers.
LEMMA FewActiveIDs ==
    ASSUME IDsInv, NEW p \in Peers, peerMap[p] = NoID
    PROVE  Cardinality(activeIDs) <= Cardinality(Peers)
<1> DEFINE T == activeIDs \ {UnknownPeerID}
           f == [q \in Connected |-> peerMap[q]]
<1>1. Connected \in SUBSET (Peers \ {p})
  BY DEF Connected
<1>2. /\ IsFiniteSet(Peers \ {p})
      /\ Cardinality(Peers \ {p}) = Cardinality(Peers) - 1
      /\ Cardinality(Peers) \in Nat
  BY IDsAssumption, FS_RemoveElement, FS_CardinalityType
<1>3. /\ IsFiniteSet(Connected)
      /\ Cardinality(Connected) <= Cardinality(Peers) - 1
      /\ Cardinality(Connected) \in Nat
  BY <1>1, <1>2, FS_Subset, FS_CardinalityType
<1>4. T = {peerMap[q] : q \in Connected}
  BY DEF IDsInv, UniqueIDs, ActiveIDsAreOwned, Connected
<1>5. f \in Surjection(Connected, T)
  BY <1>4 DEF Surjection
<1>6. IsFiniteSet(T) /\ Cardinality(T) <= Cardinality(Connected)
  BY <1>3, <1>5, FS_Surjection
<1>7. activeIDs = T \cup {UnknownPeerID} /\ UnknownPeerID \notin T
  BY DEF IDsInv, ActiveIDsAreOwned
<1>8. Cardinality(activeIDs) = Cardinality(T) + 1 /\ Cardinality(T) \in Nat
  BY <1>6, <1>7, FS_AddElement, FS_CardinalityType
<1>9. QED
  BY <1>2, <1>3, <1>6, <1>8

\* newMempoolIDs establishes the invariant.
LEMMA NewIDsInv == NewMempoolIDs => IDsInv
<1> SUFFICES ASSUME NewMempoolIDs PROVE IDsInv
  OBVIOUS
<1>1. IDTypes
  BY IDsAssumption DEF NewMempoolIDs, IDTypes, IDs, NoID, UnknownPeerID
<1>2. UniqueIDs /\ ActiveIDsAreOwned
  BY DEF NewMempoolIDs, UniqueIDs, ActiveIDsAreOwned
<1>3. EnoughIDs
  BY DEF NewMempoolIDs, EnoughIDs
<1>4. QED
  BY <1>1, <1>2, <1>3 DEF IDsInv

\* Every operation on the IDs keeps the invariant.
LEMMA IDsNextInv == IDsInv /\ [IDsNext]_idVars => IDsInv'
<1> SUFFICES ASSUME IDsInv, [IDsNext]_idVars PROVE IDsInv'
  OBVIOUS
<1>0. NoID \notin IDs /\ UnknownPeerID \in IDs
  BY IDsAssumption DEF NoID, IDs, UnknownPeerID
<1>1. CASE UNCHANGED idVars
  BY <1>1 DEF IDsInv, IDTypes, UniqueIDs, ActiveIDsAreOwned, EnoughIDs, idVars
<1>2. ASSUME NEW p \in Peers, ReserveForPeer(p), ~outOfIDs PROVE IDsInv'
  <2>1. CASE Cardinality(activeIDs) = maxActiveIDs
    <3>1. Cardinality(activeIDs) <= Cardinality(Peers)
      BY <1>2, FewActiveIDs DEF ReserveForPeer
    <3>2. maxActiveIDs \in Int /\ Cardinality(Peers) \in Int
      BY IDsAssumption, FS_CardinalityType DEF maxActiveIDs
    <3>3. ~(Cardinality(Peers) < maxActiveIDs)
      BY <2>1, <3>1, <3>2
    <3>4. UNCHANGED <<peerMap, nextID, activeIDs>>
      BY <1>2, <2>1 DEF ReserveForPeer
    <3>5. QED
      BY <3>3, <3>4 DEF IDsInv, IDTypes, UniqueIDs, ActiveIDsAreOwned, EnoughIDs
  <2>2. CASE Cardinality(activeIDs) # maxActiveIDs
    <3>1. PICK id \in IDs :
            /\ IsNextPeerID(id)
            /\ nextID' = Successor(id)
            /\ peerMap' = [peerMap EXCEPT ![p] = id]
            /\ activeIDs' = activeIDs \cup {id}
            /\ UNCHANGED <<senders, outOfIDs>>
      BY <1>2, <2>2 DEF ReserveForPeer
    <3>2. id \notin activeIDs /\ id # NoID /\ id # UnknownPeerID /\ peerMap[p] = NoID
      BY <1>0, <1>2, <3>1 DEF IsNextPeerID, IDsInv, ActiveIDsAreOwned, ReserveForPeer
    <3>3. nextID' \in IDs
      BY <3>1, IDsAssumption DEF Successor, IDs
    <3>4. peerMap' \in [Peers -> IDs \cup {NoID}]
      BY <3>1 DEF IDsInv, IDTypes
    <3>5. \A q \in Peers : peerMap'[q] = IF q = p THEN id ELSE peerMap[q]
      BY <3>1 DEF IDsInv, IDTypes
    <3>6. \A q \in Peers : peerMap[q] # NoID => peerMap[q] \in activeIDs
      BY DEF IDsInv, ActiveIDsAreOwned
    <3>7. UniqueIDs'
      BY <3>2, <3>5, <3>6 DEF IDsInv, UniqueIDs
    <3>8. Connected' = Connected \cup {p}
      BY <3>2, <3>5 DEF Connected
    <3>9. {peerMap'[q] : q \in Connected'} = {peerMap[q] : q \in Connected} \cup {id}
      BY <3>2, <3>5, <3>8 DEF Connected
    <3>10. ActiveIDsAreOwned'
      BY <3>1, <3>9 DEF IDsInv, ActiveIDsAreOwned, Connected
    <3>11. QED
      BY <1>2, <3>1, <3>3, <3>4, <3>7, <3>10 DEF IDsInv, IDTypes, EnoughIDs
  <2>3. QED
    BY <2>1, <2>2
<1>3. ASSUME NEW p \in Peers, Reclaim(p) PROVE IDsInv'
  <2>1. /\ peerMap[p] # NoID
        /\ activeIDs' = activeIDs \ {peerMap[p]}
        /\ peerMap' = [peerMap EXCEPT ![p] = NoID]
        /\ UNCHANGED <<nextID, outOfIDs>>
    BY <1>3 DEF Reclaim
  <2>2. \A q \in Peers : peerMap'[q] = IF q = p THEN NoID ELSE peerMap[q]
    BY <2>1 DEF IDsInv, IDTypes
  <2>3. IDTypes'
    BY <2>1 DEF IDsInv, IDTypes
  <2>4. UniqueIDs'
    BY <2>2 DEF IDsInv, UniqueIDs
  <2>5. Connected' = Connected \ {p}
    BY <2>2 DEF Connected
  <2>6. \A q \in Connected : peerMap[q] = peerMap[p] <=> q = p
    BY <2>1 DEF IDsInv, UniqueIDs, Connected
  <2>7. {peerMap'[q] : q \in Connected'} = {peerMap[q] : q \in Connected} \ {peerMap[p]}
    BY <2>2, <2>5, <2>6 DEF Connected
  <2>8. peerMap[p] # UnknownPeerID
    BY <2>1 DEF IDsInv, UniqueIDs
  <2>9. ActiveIDsAreOwned'
    BY <2>1, <2>7, <2>8 DEF IDsInv, ActiveIDsAreOwned, Connected
  <2>10. QED
    BY <2>1, <2>3, <2>4, <2>9 DEF IDsInv, EnoughIDs
<1>4. ASSUME NEW p \in Peers, Receive(p) PROVE IDsInv'
  BY <1>4 DEF Receive, IDsInv, IDTypes, UniqueIDs, ActiveIDsAreOwned, EnoughIDs
<1>5. QED
  BY <1>1, <1>2, <1>3, <1>4 DEF IDsNext

\* However peers come and go, the IDs of the connected ones are unique, none is
\* lost, and ReserveForPeer does not panic while there are fewer peers than IDs.
THEOREM IDsSafety == IDsSpec => [](UniqueIDs /\ ActiveIDsAreOwned /\ EnoughIDs)
<1>1. IDsInv => UniqueIDs /\ ActiveIDsAreOwned /\ EnoughIDs
  BY DEF IDsInv
<1>2. QED
  BY NewIDsInv, IDsNextInv, <1>1, PTL DEF IDsSpec

\* No ID leaks: those marked active are the IDs of the connected peers.
THEOREM IDsOwned == IDsSpec => []ActiveIDsAreOwned
BY IDsSafety, PTL

\* ReserveForPeer does not panic while there are fewer peers than IDs.
THEOREM IDsSuffice == IDsSpec => []EnoughIDs
BY IDsSafety, PTL
=============================================================================

------------------------ MODULE ConsensusStateProofs ------------------------
(***************************************************************************)
(* What the operations of BlockTree and ConsensusState do, for trees of    *)
(* any size, any number of validators, any threshold and any slots.        *)
(*                                                                         *)
(* The block tree: the traversals visit every node once, GetLatestBlock    *)
(* finds a newest block below a newest precommit block, and the walk to    *)
(* the root finds the evidence of a proposal.  This is concluded for the   *)
(* trees that MCBlockTree builds.                                          *)
(*                                                                         *)
(* The handlers: which of them touch votes, and that each keeps the blocks *)
(* of a node in order.  ConsensusNodeProofs combines these lemmas.         *)
(***************************************************************************)
EXTENDS ConsensusState, MCBlockTree, LoopProofs, FiniteSetTheorems, TLAPS

\* Zenon is tried first, then the SMT solver, both with more than their default
\* time.  Leaves about numbers and sequences name the SMT solver at once.
USE ZenonT(20), SMTT(20)

\* The smallest index of a set of indices.
LEMMA MinIndex ==
    ASSUME NEW n \in Nat, NEW s \in SUBSET (1..n), s # {}
    PROVE  Min(s) \in s /\ \A i \in s : Min(s) <= i
<1>1. s \in SUBSET Nat
  BY SMTT(20)
<1>2. \E x \in s : \A y \in s : x <= y
  BY <1>1, LeastNumber
<1> QED BY <1>2 DEF Min

-----------------------------------------------------------------------------
(* Lists *)

\* The lists a loop over q with a condition goes through.
Gathers(P, X, q, T) ==
    /\ P \in [0..Len(q) -> Seq(X \cap T)]
    /\ P[0] = <<>>
    /\ P[Len(q)] = Keep(q, T)
    /\ \A i \in 1..Len(q) :
          P[i] = IF q[i] \in T THEN Append(P[i - 1], q[i]) ELSE P[i - 1]

\* They are those Keep is defined by.
LEMMA KeepRun ==
    ASSUME NEW X, NEW q \in Seq(X), NEW T
    PROVE  \E P : Gathers(P, X, q, T)
<1> DEFINE n == Len(q)
           A == Seq(X \cap T)
           op(i, r) == IF q[i] \in T THEN Append(r, q[i]) ELSE r
           G == [p \in (1..n) \X A |-> op(p[1], p[2])]
           Eq(f) == f = [i \in 0..n |-> IF i = 0 THEN <<>> ELSE op(i, f[i - 1])]
           g == CHOOSE f : Eq(f)
<1>1. n \in Nat /\ \A i \in 1..n : q[i] \in X
  OBVIOUS
<1>2. Keep(q, T) = g[n]
  BY DEF Keep
<1>3. <<>> \in A
  OBVIOUS
<1>4. ASSUME NEW i \in 1..n, NEW r \in A PROVE op(i, r) \in A
  BY <1>1
<1> HIDE DEF n, A, op
<1>5. G \in [(1..n) \X A -> A] /\ \A i \in 1..n, r \in A : G[<<i, r>>] = op(i, r)
  BY <1>4
<1> HIDE DEF G
<1>6. \E f : Eq(f)
  <2>1. PICK f : Iterates(f, n, A, <<>>, G)
    BY <1>1, <1>3, <1>5, IterationExists
  <2>2. ASSUME NEW i \in 0..n
        PROVE  f[i] = IF i = 0 THEN <<>> ELSE op(i, f[i - 1])
    BY <1>5, <2>1 DEF Iterates
  <2>3. f = [i \in 0..n |-> f[i]]
    BY <2>1 DEF Iterates
  <2> QED BY <2>2, <2>3
<1>7. Eq(g)
  BY <1>6
<1> HIDE DEF g
<1>8. g[0] = <<>> /\ \A i \in 1..n : g[i] = op(i, g[i - 1])
  BY <1>1, <1>7
<1>9. Follows(g, n, A, <<>>, G)
  BY <1>5, <1>8 DEF Follows
<1>10. \A i \in 0..n : g[i] \in A
  BY <1>1, <1>3, <1>5, <1>9, IterationType
<1>11. g \in [0..n -> A]
  BY <1>7, <1>10
<1>12. Gathers(g, X, q, T)
  BY <1>2, <1>8, <1>11 DEF Gathers, n, A, op
<1> QED BY <1>12

\* The elements of q that are in T, and each of them in relation R to those that
\* come after it.
Selects(r, X, q, T, R) ==
    /\ r \in Seq(X \cap T)
    /\ \A j \in DOMAIN r : r[j] \in T /\ \E i \in DOMAIN q : r[j] = q[i]
    /\ \A i \in DOMAIN q : q[i] \in T => \E j \in DOMAIN r : r[j] = q[i]
    /\ \A i, j \in DOMAIN r : i < j => <<r[i], r[j]>> \in R

\* What a loop appends are the elements of the list that meet its condition, and
\* they are in any relation the elements of the list are in, one after another.
LEMMA KeepProperties ==
    ASSUME NEW X, NEW q \in Seq(X), NEW T, NEW R,
           \A i, j \in DOMAIN q : i < j => <<q[i], q[j]>> \in R
    PROVE  Selects(Keep(q, T), X, q, T, R)
<1> DEFINE n == Len(q)
           A == Seq(X \cap T)
           Holds(k, r) ==
              /\ \A j \in DOMAIN r : r[j] \in T /\ \E i \in 1..k : r[j] = q[i]
              /\ \A i \in 1..k : q[i] \in T => \E j \in DOMAIN r : r[j] = q[i]
              /\ \A i, j \in DOMAIN r : i < j => <<r[i], r[j]>> \in R
<1>1. n \in Nat /\ DOMAIN q = 1..n /\ \A i \in 1..n : q[i] \in X
  OBVIOUS
<1>2. PICK P : Gathers(P, X, q, T)
  BY KeepRun
<1> USE DEF Gathers
<1> DEFINE S == {k \in 0..n : Holds(k, P[k])}
<1>3. 0 \in S
  BY SMTT(20), <1>1, <1>2
<1>4. ASSUME NEW k \in 0..(n - 1), k \in S PROVE k + 1 \in S
  <2>1. k + 1 \in 1..n /\ (k + 1) - 1 = k /\ k + 1 \in 0..n /\ k \in 0..n
    BY <1>1
  <2> DEFINE r == P[k]
             x == q[k + 1]
  <2>2. r \in A /\ Holds(k, r) /\ x \in X
    BY <1>1, <1>2, <1>4, <2>1
  <2>3. P[k + 1] = IF x \in T THEN Append(r, x) ELSE r
    BY <1>2, <2>1
  <2>4. \A i \in 1..(k + 1) : i \in 1..k \/ i = k + 1
    OBVIOUS
  <2>5. \A i \in 1..k : i \in 1..(k + 1) /\ <<q[i], x>> \in R
    BY SMTT(20), <1>1, <2>1
  <2> HIDE DEF r, x
  <2>6. CASE x \notin T
    <3>1. Holds(k + 1, r)
      BY <2>2, <2>4, <2>5, <2>6 DEF x
    <3> QED BY <2>1, <2>3, <2>6, <3>1
  <2>7. CASE x \in T
    <3> DEFINE s == Append(r, x)
               m == Len(r)
    <3>1. x \in X \cap T
      BY <2>2, <2>7
    <3>2. /\ m \in Nat /\ DOMAIN r = 1..m /\ DOMAIN s = 1..(m + 1)
          /\ s[m + 1] = x
          /\ \A i \in 1..m : s[i] = r[i]
      BY SMTT(20), <2>2, <3>1
    <3>3. \A j \in 1..(m + 1) : j \in 1..m \/ j = m + 1
      BY <3>2
    <3>4. \A j \in 1..m : j \in 1..(m + 1) /\ j < m + 1
      BY <3>2
    <3> HIDE DEF s, m
    <3>5. \A j \in DOMAIN s : s[j] \in T /\ \E i \in 1..(k + 1) : s[j] = q[i]
      BY SMTT(20), <2>1, <2>2, <2>5, <2>7, <3>2, <3>3 DEF x
    <3>6. \A i \in 1..(k + 1) : q[i] \in T => \E j \in DOMAIN s : s[j] = q[i]
      <4>1. m + 1 \in DOMAIN s
        BY <3>2
      <4> QED BY <2>2, <2>4, <3>2, <3>4, <4>1 DEF x
    <3>7. ASSUME NEW i \in DOMAIN s, NEW j \in DOMAIN s, i < j PROVE <<s[i], s[j]>> \in R
      <4>1. i \in 1..m
        BY <3>2, <3>7
      <4>2. s[i] = r[i] /\ \E l \in 1..k : r[i] = q[l]
        BY <2>2, <3>2, <4>1
      <4>3. CASE j \in 1..m
        BY <2>2, <3>2, <3>7, <4>1, <4>3
      <4>4. CASE j = m + 1
        BY <2>5, <3>2, <4>2, <4>4
      <4> QED BY <3>2, <3>3, <4>3, <4>4
    <3>8. Holds(k + 1, s)
      BY <3>5, <3>6, <3>7
    <3> QED BY <2>1, <2>3, <2>7, <3>8 DEF s
  <2> QED BY <2>6, <2>7
<1> HIDE DEF S
<1>5. n \in S
  BY <1>1, <1>3, <1>4, UpTo
<1>6. Holds(n, Keep(q, T))
  BY SMTT(20), <1>2, <1>5 DEF S
<1>7. n \in 0..n
  BY <1>1
<1>8. Keep(q, T) \in A
  BY <1>2, <1>7
<1> QED BY <1>1, <1>6, <1>8 DEF Selects

\* In particular they are elements of the list.
LEMMA KeepType ==
    ASSUME NEW X, NEW q \in Seq(X), NEW T
    PROVE  Keep(q, T) \in Seq(X \cap T) /\ Keep(q, T) \in Seq(X)
<1>1. PICK P : Gathers(P, X, q, T)
  BY KeepRun
<1>2. Keep(q, T) \in Seq(X \cap T)
  <2>1. Len(q) \in 0..Len(q)
    OBVIOUS
  <2> QED BY <1>1, <2>1 DEF Gathers
<1> QED BY <1>2

-----------------------------------------------------------------------------
(* The tree *)

\* A tree over k blocks: every node is older than its children, and all but the
\* first have a parent.
IsTree(t, k) ==
    /\ t \in Seq([data : 1..k, parent : Nat])
    /\ t # <<>>
    /\ \A n \in DOMAIN t : t[n].parent < n
    /\ \A n \in DOMAIN t : t[n].parent = 0 => n = 1

\* The nodes of a tree.
LEMMA TreeNodes ==
    ASSUME NEW k, NEW t, IsTree(t, k)
    PROVE  /\ Len(t) \in Nat \ {0} /\ DOMAIN t = 1..Len(t)
           /\ \A m \in DOMAIN t :
                 /\ t[m].data \in 1..k
                 /\ t[m].parent \in Nat /\ t[m].parent < m
                 /\ t[m].parent # 0 => t[m].parent \in DOMAIN t
                 /\ t[m].parent = 0 <=> m = 1
<1> DEFINE Node == [data : 1..k, parent : Nat]
<1>1. /\ t \in Seq(Node) /\ t # <<>>
      /\ \A m \in DOMAIN t : t[m].parent < m /\ (t[m].parent = 0 => m = 1)
  BY DEF IsTree
<1>2. \A x \in Node : x.data \in 1..k /\ x.parent \in Nat
  OBVIOUS
<1> HIDE DEF Node
<1>3. Len(t) \in Nat \ {0} /\ DOMAIN t = 1..Len(t)
  BY <1>1
<1>4. ASSUME NEW m \in DOMAIN t
      PROVE  t[m].data \in 1..k /\ t[m].parent \in Nat /\ t[m].parent < m
  <2>1. t[m] \in Node
    BY <1>1
  <2> QED BY <1>1, <1>2, <2>1
<1>5. \A m \in DOMAIN t : t[m].parent # 0 => t[m].parent \in DOMAIN t
  BY <1>3, <1>4
<1>6. \A m \in DOMAIN t : t[m].parent = 0 <=> m = 1
  BY <1>1, <1>3, <1>4
<1> QED BY <1>3, <1>4, <1>5, <1>6

\* Induction from the root of a tree to its leaves.
LEMMA TreeInduction ==
    ASSUME NEW k, NEW t, IsTree(t, k), NEW S,
           \A m \in DOMAIN t : (t[m].parent # 0 => t[m].parent \in S) => m \in S
    PROVE  \A m \in DOMAIN t : m \in S
<1> DEFINE T == {m \in DOMAIN t : m \notin S}
<1> SUFFICES ASSUME T # {} PROVE FALSE
  OBVIOUS
<1>1. /\ DOMAIN t = 1..Len(t)
      /\ \A m \in DOMAIN t : /\ t[m].parent \in Nat /\ t[m].parent < m
                             /\ t[m].parent # 0 => t[m].parent \in DOMAIN t
  BY TreeNodes
<1>2. T \in SUBSET Nat
  BY SMTT(20), <1>1
<1>3. PICK m \in T : \A j \in T : m <= j
  <2> HIDE DEF T
  <2> QED BY <1>2, LeastNumber
<1>4. m \in DOMAIN t /\ m \in Nat
  BY <1>2, <1>3
<1>5. t[m].parent # 0 => t[m].parent \notin T
  BY SMTT(20), <1>1, <1>3, <1>4
<1> QED BY <1>1, <1>3, <1>4, <1>5

\* The way from a node to the root goes over nodes of the tree, by its
\* parent.
LEMMA PathSteps ==
    ASSUME NEW k, NEW t, IsTree(t, k)
    PROVE  \A n \in DOMAIN t :
              /\ PathToRoot(t, n) \in Seq(DOMAIN t)
              /\ t[n].parent = 0 => PathToRoot(t, n) = <<n>>
              /\ t[n].parent # 0 => Heads(PathToRoot(t, n), n, PathToRoot(t, t[n].parent))
<1> DEFINE D == DOMAIN t
           A == Seq(D)
           M == Len(t)
           rank == [m \in D |-> m]
           R == [m \in D |-> IF t[m].parent = 0 THEN {} ELSE {t[m].parent}]
           G == [p \in D \X [D -> A] |->
                    IF t[p[1]].parent = 0 THEN <<p[1]>>
                    ELSE <<p[1]>> \o p[2][t[p[1]].parent]]
           Eq(f) == f = [m \in D |-> IF t[m].parent = 0 THEN <<m>>
                                     ELSE <<m>> \o f[t[m].parent]]
           g == CHOOSE f : Eq(f)
<1>1. /\ M \in Nat /\ D = 1..M
      /\ \A m \in D : /\ t[m].parent \in Nat /\ t[m].parent < m
                      /\ t[m].parent # 0 => t[m].parent \in D
  BY TreeNodes
<1>2. \A n : PathToRoot(t, n) = g[n]
  BY DEF PathToRoot
<1> HIDE DEF D, M
<1>3. A # {} /\ rank \in [D -> 0..M] /\ R \in [D -> SUBSET D]
      /\ \A x \in D : \A y \in R[x] : rank[y] < rank[x]
  <2>1. <<>> \in A
    OBVIOUS
  <2>2. rank \in [D -> 0..M]
    BY SMTT(20), <1>1
  <2>3. R \in [D -> SUBSET D]
    BY <1>1
  <2>4. \A x \in D : \A y \in R[x] : y \in D /\ y < x
    BY <1>1
  <2> QED BY <2>1, <2>2, <2>3, <2>4
<1>4. ASSUME NEW x \in D, NEW f \in [D -> A]
      PROVE  /\ G[<<x, f>>] = IF t[x].parent = 0 THEN <<x>> ELSE <<x>> \o f[t[x].parent]
             /\ G[<<x, f>>] \in A
  <2>1. t[x].parent # 0 => f[t[x].parent] \in Seq(D)
    BY <1>1
  <2>2. <<x>> \in Seq(D)
    OBVIOUS
  <2> QED BY SMTT(20), <2>1, <2>2
<1>5. G \in [D \X [D -> A] -> A]
  BY <1>4
<1>6. ASSUME NEW x \in D, NEW f \in [D -> A], NEW h \in [D -> A],
             \A y \in R[x] : f[y] = h[y]
      PROVE  G[<<x, f>>] = G[<<x, h>>]
  <2>1. t[x].parent # 0 => f[t[x].parent] = h[t[x].parent]
    BY <1>6
  <2> HIDE DEF G
  <2>2. /\ G[<<x, f>>] = IF t[x].parent = 0 THEN <<x>> ELSE <<x>> \o f[t[x].parent]
        /\ G[<<x, h>>] = IF t[x].parent = 0 THEN <<x>> ELSE <<x>> \o h[t[x].parent]
    BY <1>4
  <2> QED BY <2>1, <2>2
<1> HIDE DEF A, G
<1>7. Recursion(D, A, M, rank, R, G)
  <2> HIDE DEF rank, R
  <2> QED BY <1>1, <1>3, <1>5, <1>6 DEF Recursion
<1>8. \E f : Eq(f)
  <2>1. PICK f : Solves(f, D, A, G)
    <3> HIDE DEF rank, R
    <3> QED BY <1>7, RecursionExists
  <2>2. f \in [D -> A] /\ f = [x \in D |-> f[x]] /\ \A x \in D : f[x] = G[<<x, f>>]
    BY <2>1 DEF Solves
  <2>3. \A x \in D : f[x] = IF t[x].parent = 0 THEN <<x>> ELSE <<x>> \o f[t[x].parent]
    BY <1>4, <2>2
  <2> QED BY SMTT(20), <2>2, <2>3
<1>9. Eq(g)
  BY <1>8
<1> HIDE DEF g
<1> DEFINE S == {x \in D : g[x] \in A}
<1>10. ASSUME NEW x \in D, \A y \in R[x] : y \in S PROVE x \in S
  <2>1. g[x] = IF t[x].parent = 0 THEN <<x>> ELSE <<x>> \o g[t[x].parent]
    BY <1>9
  <2>2. t[x].parent # 0 => g[t[x].parent] \in Seq(D)
    BY <1>10 DEF A
  <2>3. <<x>> \in Seq(D)
    OBVIOUS
  <2>4. g[x] \in Seq(D)
    BY <2>1, <2>2, <2>3
  <2> QED BY <2>4 DEF A
<1>11. \A x \in D : x \in S
  <2> HIDE DEF rank, R, S
  <2> QED BY SMTT(20), <1>7, <1>10, RecursionInduction
<1>12. \A x \in D : g[x] \in Seq(D)
  BY <1>11 DEF A
<1>13. ASSUME NEW x \in D
       PROVE  /\ t[x].parent = 0 => g[x] = <<x>>
              /\ t[x].parent # 0 => Heads(g[x], x, g[t[x].parent])
  <2>1. g[x] = IF t[x].parent = 0 THEN <<x>> ELSE <<x>> \o g[t[x].parent]
    BY <1>9
  <2>2. t[x].parent # 0 => g[t[x].parent] \in Seq(D)
    BY <1>1, <1>12
  <2> QED BY <2>1, <2>2, Prefixed
<1> QED BY <1>2, <1>12, <1>13 DEF D

\* A node and its ancestors.
Up(t, n) == Range(PathToRoot(t, n))

\* They are the node, and its parent with its ancestors, and all older.
LEMMA UpSteps ==
    ASSUME NEW k, NEW t, IsTree(t, k)
    PROVE  \A n \in DOMAIN t :
              /\ Up(t, n) \in SUBSET DOMAIN t
              /\ n \in Up(t, n)
              /\ t[n].parent = 0 => Up(t, n) = {n}
              /\ t[n].parent # 0 => Up(t, n) = {n} \cup Up(t, t[n].parent)
<1> SUFFICES ASSUME NEW n \in DOMAIN t
             PROVE  /\ Up(t, n) \in SUBSET DOMAIN t
                    /\ n \in Up(t, n)
                    /\ t[n].parent = 0 => Up(t, n) = {n}
                    /\ t[n].parent # 0 => Up(t, n) = {n} \cup Up(t, t[n].parent)
  OBVIOUS
<1> DEFINE p == t[n].parent
           q == PathToRoot(t, n)
           r == PathToRoot(t, p)
<1>0. q \in Seq(DOMAIN t)
  BY PathSteps
<1>1. (p = 0 => q = <<n>>) /\ (p # 0 => Heads(q, n, r))
  BY PathSteps
<1>4. Up(t, n) = {q[i] : i \in DOMAIN q} /\ Up(t, p) = {r[i] : i \in DOMAIN r}
  BY DEF Up, Range
<1> HIDE DEF p, q, r
<1>5. Up(t, n) \in SUBSET DOMAIN t
  <2>1. \A i \in DOMAIN q : q[i] \in DOMAIN t
    BY <1>0
  <2> QED BY <1>4, <2>1
<1>6. CASE p = 0
  <2>1. q = <<n>> /\ DOMAIN <<n>> = {1}
    BY <1>1, <1>6
  <2>2. Up(t, n) = {n}
    BY SMTT(20), <1>4, <2>1
  <2> QED BY <1>5, <1>6, <2>2 DEF p
<1>7. CASE p # 0
  <2>1. /\ DOMAIN q = 1..(Len(r) + 1) /\ DOMAIN r = 1..Len(r) /\ Len(r) \in Nat
        /\ q[1] = n
        /\ \A i \in 1..Len(r) : q[i + 1] = r[i]
    BY <1>1, <1>7 DEF Heads
  <2>2. \A i \in 1..(Len(r) + 1) : i = 1 \/ (i - 1 \in 1..Len(r) /\ (i - 1) + 1 = i)
    BY <2>1
  <2>3. \A i \in 1..Len(r) : i + 1 \in 1..(Len(r) + 1)
    BY <2>1
  <2>4. 1 \in 1..(Len(r) + 1)
    BY <2>1
  <2>5. ASSUME NEW x \in Up(t, n) PROVE x = n \/ x \in Up(t, p)
    <3>1. PICK i \in DOMAIN q : x = q[i]
      BY <1>4
    <3>2. i = 1 \/ (i - 1 \in DOMAIN r /\ q[i] = r[i - 1])
      BY <2>1, <2>2
    <3> QED BY <1>4, <2>1, <3>1, <3>2
  <2>6. n \in Up(t, n) /\ \A x \in Up(t, p) : x \in Up(t, n)
    BY SMTT(20), <1>4, <2>1, <2>3, <2>4
  <2> QED BY <1>5, <1>7, <2>5, <2>6 DEF p
<1> QED BY <1>6, <1>7

\* An ancestor is older, and the root is an ancestor of every other node.
LEMMA UpOlder ==
    ASSUME NEW k, NEW t, IsTree(t, k)
    PROVE  \A n \in DOMAIN t : 1 \in Up(t, n) /\ \A m \in Up(t, n) : m <= n
<1> DEFINE D == DOMAIN t
           S == {n \in D : 1 \in Up(t, n) /\ \A m \in Up(t, n) : m <= n}
<1>1. /\ \A n \in D : n \in Nat
      /\ \A n \in D : /\ t[n].parent \in Nat /\ t[n].parent < n
                      /\ t[n].parent # 0 => t[n].parent \in D
                      /\ t[n].parent = 0 <=> n = 1
  BY SMTT(20), TreeNodes
<1>2. ASSUME NEW n \in D, t[n].parent # 0 => t[n].parent \in S PROVE n \in S
  <2>1. /\ Up(t, n) \in SUBSET D
        /\ n \in Up(t, n)
        /\ t[n].parent = 0 => Up(t, n) = {n}
        /\ t[n].parent # 0 => Up(t, n) = {n} \cup Up(t, t[n].parent)
    BY UpSteps
  <2>2. \A m \in Up(t, n) : m \in Nat
    BY <1>1, <2>1
  <2>3. CASE t[n].parent = 0
    BY SMTT(20), <1>1, <2>1, <2>3
  <2>4. CASE t[n].parent # 0
    <3>1. 1 \in Up(t, t[n].parent) /\ \A m \in Up(t, t[n].parent) : m <= t[n].parent
      BY <1>2, <2>4
    <3>2. 1 \in Up(t, n)
      BY <2>1, <2>4, <3>1
    <3>3. \A m \in Up(t, n) : m <= n
      BY SMTT(20), <1>1, <2>1, <2>2, <2>4, <3>1
    <3> QED BY <3>2, <3>3
  <2> QED BY <2>3, <2>4
<1> HIDE DEF S
<1>3. \A n \in D : n \in S
  BY <1>2, TreeInduction
<1> QED BY <1>3 DEF S

\* A set of nodes that has the parents of its nodes has their ancestors.
LEMMA UpClosed ==
    ASSUME NEW k, NEW t, IsTree(t, k), NEW V \in SUBSET DOMAIN t,
           \A n \in V : t[n].parent # 0 => t[n].parent \in V
    PROVE  \A n \in V : Up(t, n) \in SUBSET V
<1> DEFINE S == {n \in DOMAIN t : n \in V => Up(t, n) \in SUBSET V}
<1>1. ASSUME NEW n \in DOMAIN t, t[n].parent # 0 => t[n].parent \in S PROVE n \in S
  <2>1. /\ t[n].parent = 0 => Up(t, n) = {n}
        /\ t[n].parent # 0 => Up(t, n) = {n} \cup Up(t, t[n].parent)
    BY UpSteps
  <2> QED BY <1>1, <2>1
<1> HIDE DEF S
<1>2. \A n \in DOMAIN t : n \in S
  BY <1>1, TreeInduction
<1> QED BY <1>2 DEF S

\* On the way to the root, what comes later is an ancestor of what comes before,
\* and older.
LEMMA PathOrder ==
    ASSUME NEW k, NEW t, IsTree(t, k)
    PROVE  \A n \in DOMAIN t : \A i, j \in DOMAIN PathToRoot(t, n) :
              /\ i <= j => PathToRoot(t, n)[j] \in Up(t, PathToRoot(t, n)[i])
              /\ i < j => PathToRoot(t, n)[j] < PathToRoot(t, n)[i]
<1> DEFINE D == DOMAIN t
           Path(n) == PathToRoot(t, n)
           Ordered(n) == \A i, j \in DOMAIN Path(n) :
                            /\ i <= j => Path(n)[j] \in Up(t, Path(n)[i])
                            /\ i < j => Path(n)[j] < Path(n)[i]
           S == {n \in D : Ordered(n)}
<1>1. ASSUME NEW n \in D, t[n].parent # 0 => t[n].parent \in S PROVE n \in S
  <2> DEFINE p == t[n].parent
             q == Path(n)
             r == Path(p)
  <2>0. q \in Seq(D)
    BY PathSteps
  <2>1. (p = 0 => q = <<n>>) /\ (p # 0 => Heads(q, n, r))
    BY PathSteps
  <2>4. \A i \in DOMAIN q : q[i] \in Up(t, n)
    BY DEF Up, Range
  <2>5. p # 0 => \A i, j \in DOMAIN r : (i <= j => r[j] \in Up(t, r[i])) /\ (i < j => r[j] < r[i])
    BY <1>1
  <2>9. p # 0 => p \in D /\ p < n /\ \A i \in DOMAIN r : r[i] <= p /\ r[i] \in D
    <3>1. \A m \in D : Up(t, m) \in SUBSET D /\ \A l \in Up(t, m) : l <= m
      BY UpSteps, UpOlder
    <3>2. p # 0 => p \in D /\ p < n
      BY TreeNodes
    <3>3. \A i \in DOMAIN r : r[i] \in Up(t, p)
      BY DEF Up, Range
    <3> QED BY <3>1, <3>2, <3>3
  <2>10. \A m \in D : m \in Nat
    BY SMTT(20), TreeNodes
  <2> HIDE DEF p, q, r
  <2>6. q[1] = n /\ DOMAIN q = 1..Len(q) /\ Len(q) \in Nat
    <3>1. DOMAIN q = 1..Len(q) /\ Len(q) \in Nat
      BY <2>0
    <3>2. CASE p = 0
      BY <2>1, <3>1, <3>2
    <3>3. CASE p # 0
      BY <2>1, <3>1, <3>3 DEF Heads
    <3> QED BY <3>2, <3>3
  <2>8. ASSUME NEW i \in DOMAIN q, NEW j \in DOMAIN q, i < j PROVE q[j] < q[i]
    <3>1. p # 0
      <4>1. Len(<<n>>) = 1
        OBVIOUS
      <4> QED BY <2>1, <2>6, <2>8, <4>1
    <3>2. /\ Len(r) \in Nat /\ DOMAIN r = 1..Len(r) /\ Len(q) = Len(r) + 1
          /\ \A l \in 1..Len(r) : q[l + 1] = r[l]
      BY <2>1, <3>1 DEF Heads
    <3>3. j - 1 \in 1..Len(r) /\ (j - 1) + 1 = j /\ (i = 1 \/ i - 1 \in 1..Len(r)) /\ (i - 1) + 1 = i
          /\ i - 1 < j - 1
      BY <2>6, <2>8, <3>2
    <3>4. q[j] = r[j - 1]
      BY <3>2, <3>3
    <3>5. CASE i = 1
      <4>1. r[j - 1] <= p /\ r[j - 1] \in Nat /\ p \in Nat /\ n \in Nat /\ p < n
        BY <2>9, <2>10, <3>1, <3>2, <3>3
      <4> QED BY <2>6, <3>4, <3>5, <4>1
    <3>6. CASE i # 1
      <4>1. q[i] = r[i - 1]
        BY <3>2, <3>3, <3>6
      <4> QED BY <2>5, <3>1, <3>2, <3>3, <3>4, <3>6, <4>1
    <3> QED BY <3>5, <3>6
  <2>7. ASSUME NEW i \in DOMAIN q, NEW j \in DOMAIN q, i <= j PROVE q[j] \in Up(t, q[i])
    <3>1. CASE i = 1
      BY <2>4, <2>6, <3>1
    <3>2. CASE i # 1
      <4>1. p # 0
        <5>1. Len(<<n>>) = 1
          OBVIOUS
        <5> QED BY <2>1, <2>6, <3>2, <5>1
      <4>2. /\ Len(r) \in Nat /\ DOMAIN r = 1..Len(r) /\ Len(q) = Len(r) + 1
            /\ \A l \in 1..Len(r) : q[l + 1] = r[l]
        BY <2>1, <4>1 DEF Heads
      <4>3. i - 1 \in 1..Len(r) /\ j - 1 \in 1..Len(r) /\ i - 1 <= j - 1
            /\ (i - 1) + 1 = i /\ (j - 1) + 1 = j
        BY <2>6, <2>7, <3>2, <4>2
      <4>4. q[i] = r[i - 1] /\ q[j] = r[j - 1]
        BY <4>2, <4>3
      <4> QED BY <2>5, <4>1, <4>2, <4>3, <4>4
    <3> QED BY <3>1, <3>2
  <2> QED BY <2>7, <2>8 DEF q
<1> HIDE DEF S
<1>2. \A n \in D : n \in S
  BY <1>1, TreeInduction
<1> QED BY <1>2 DEF S

-----------------------------------------------------------------------------
(* The traversal by levels *)

\* The children of a node, in the order they were added.
Children(t, m) == Keep([n \in DOMAIN t |-> n], {c \in DOMAIN t : t[c].parent = m})

\* A list that holds each child of a node once.
ListsChildren(r, t, m) ==
    /\ r \in Seq(DOMAIN t)
    /\ \A i \in DOMAIN r : t[r[i]].parent = m
    /\ \A c \in DOMAIN t : t[c].parent = m => \E i \in DOMAIN r : r[i] = c
    /\ \A i, j \in DOMAIN r : r[i] = r[j] => i = j

\* The traversal appends such a list to its queue.
LEMMA ChildrenListed ==
    ASSUME NEW k, NEW t, IsTree(t, k), NEW m
    PROVE  ListsChildren(Children(t, m), t, m)
<1> DEFINE D == DOMAIN t
           q == [n \in D |-> n]
           T == {c \in D : t[c].parent = m}
           R == {p \in D \X D : p[1] < p[2]}
           r == Keep(q, T)
<1>1. D = 1..Len(t) /\ Len(t) \in Nat
  BY TreeNodes
<1> HIDE DEF D
<1>2. q \in Seq(D) /\ DOMAIN q = D /\ \A i \in D : q[i] = i
  BY <1>1
<1>3. \A i, j \in DOMAIN q : i < j => <<q[i], q[j]>> \in R
  BY <1>2
<1> HIDE DEF q, T, R
<1>4. /\ r \in Seq(D \cap T)
      /\ \A j \in DOMAIN r : r[j] \in T /\ \E i \in DOMAIN q : r[j] = q[i]
      /\ \A i \in DOMAIN q : q[i] \in T => \E j \in DOMAIN r : r[j] = q[i]
      /\ \A i, j \in DOMAIN r : i < j => <<r[i], r[j]>> \in R
  <2>1. Selects(r, D, q, T, R)
    BY <1>2, <1>3, KeepProperties
  <2> QED BY <2>1 DEF Selects
<1>5. Children(t, m) = r
  BY DEF Children, D, q, T
<1> HIDE DEF r
<1>6. r \in Seq(D) /\ DOMAIN r = 1..Len(r) /\ Len(r) \in Nat
  BY SMTT(20), <1>4
<1>7. \A i \in DOMAIN r : t[r[i]].parent = m
  BY <1>4 DEF T
<1>8. \A c \in D : t[c].parent = m => \E i \in DOMAIN r : r[i] = c
  <2>1. \A c \in D : t[c].parent = m => c \in T
    BY DEF T
  <2> QED BY <1>2, <1>4, <2>1
<1>9. ASSUME NEW i \in DOMAIN r, NEW j \in DOMAIN r, r[i] = r[j] PROVE i = j
  <2>1. \A x, y : <<x, y>> \in R => x \in Nat /\ y \in Nat /\ x < y
    BY <1>1 DEF R
  <2>2. ~(i < j) /\ ~(j < i)
    <3>1. (i < j => <<r[i], r[j]>> \in R) /\ (j < i => <<r[j], r[i]>> \in R)
      BY <1>4
    <3>2. \A x \in Nat : ~(x < x)
      OBVIOUS
    <3> QED BY <1>9, <2>1, <3>1, <3>2
  <2> QED BY <1>6, <2>2
<1> QED BY <1>5, <1>6, <1>7, <1>8, <1>9 DEF ListsChildren, D

\* The queues the traversal goes through.
Queues(P, t) ==
    /\ P \in [0..Len(t) -> Seq(DOMAIN t)]
    /\ P[0] = <<1>>
    /\ P[Len(t)] = LevelOrder(t)
    /\ \A j \in 1..Len(t) : P[j] = P[j - 1] \o Children(t, P[j - 1][j])

\* They are those LevelOrder is defined by.
LEMMA LevelRun ==
    ASSUME NEW k, NEW t, IsTree(t, k)
    PROVE  \E P : Queues(P, t)
<1> DEFINE D == DOMAIN t
           n == Len(t)
           A == Seq(D)
           op(j, q) == q \o Children(t, q[j])
           G == [p \in (1..n) \X A |-> op(p[1], p[2])]
           Eq(f) == f = [j \in 0..n |-> IF j = 0 THEN <<1>> ELSE op(j, f[j - 1])]
           g == CHOOSE f : Eq(f)
<1>1. n \in Nat \ {0} /\ D = 1..n
  BY TreeNodes
<1>2. LevelOrder(t) = g[n]
  BY DEF LevelOrder, Children
<1> HIDE DEF D, n
<1>3. <<1>> \in A
  BY <1>1
<1>4. \A m : Children(t, m) \in Seq(D)
  BY ChildrenListed DEF ListsChildren, D
<1>5. ASSUME NEW j \in 1..n, NEW q \in A PROVE op(j, q) \in A
  <2>1. Children(t, q[j]) \in Seq(D)
    BY <1>4
  <2> QED BY <2>1
<1> HIDE DEF A, op
<1>6. G \in [(1..n) \X A -> A] /\ \A j \in 1..n, q \in A : G[<<j, q>>] = op(j, q)
  BY <1>5
<1> HIDE DEF G
<1>7. \E f : Eq(f)
  <2>1. PICK f : Iterates(f, n, A, <<1>>, G)
    BY <1>1, <1>3, <1>6, IterationExists
  <2>2. ASSUME NEW j \in 0..n
        PROVE  f[j] = IF j = 0 THEN <<1>> ELSE op(j, f[j - 1])
    BY <1>6, <2>1 DEF Iterates
  <2>3. f = [j \in 0..n |-> f[j]]
    BY <2>1 DEF Iterates
  <2> QED BY <2>2, <2>3
<1>8. Eq(g)
  BY <1>7
<1> HIDE DEF g
<1>9. g[0] = <<1>> /\ \A j \in 1..n : g[j] = op(j, g[j - 1])
  BY SMTT(20), <1>1, <1>8
<1>10. Follows(g, n, A, <<1>>, G)
  BY <1>6, <1>9 DEF Follows
<1>11. \A j \in 0..n : g[j] \in A
  BY <1>1, <1>3, <1>6, <1>10, IterationType
<1>12. g \in [0..n -> A]
  BY <1>8, <1>11
<1>13. Queues(g, t)
  BY <1>2, <1>9, <1>12 DEF Queues, n, A, op, D
<1> QED BY <1>13

\* A list in which every number up to n is has at least n elements; one that has
\* none of them twice has at most n.
LEMMA ListLength ==
    ASSUME NEW n \in Nat, NEW q \in Seq(1..n)
    PROVE  /\ (\A c \in 1..n : \E i \in DOMAIN q : q[i] = c) => n <= Len(q)
           /\ (\A i, j \in DOMAIN q : q[i] = q[j] => i = j) => Len(q) <= n
<1> DEFINE D == 1..n
           E == 1..Len(q)
<1>1. Len(q) \in Nat /\ DOMAIN q = E /\ q \in [E -> D]
  <2>1. Len(q) \in Nat /\ DOMAIN q = E /\ \A i \in E : q[i] \in D
    OBVIOUS
  <2>2. q = [i \in E |-> q[i]]
    <3> HIDE DEF E
    <3> QED BY <2>1
  <2> QED BY <2>1, <2>2
<1>2. /\ IsFiniteSet(D) /\ Cardinality(D) = n
      /\ IsFiniteSet(E) /\ Cardinality(E) = Len(q)
  <2>1. ASSUME NEW m \in Nat PROVE IsFiniteSet(1..m) /\ Cardinality(1..m) = m
    BY FS_Interval
  <2> QED BY <1>1, <2>1
<1> HIDE DEF D, E
<1>3. ASSUME \A c \in D : \E i \in DOMAIN q : q[i] = c PROVE n <= Len(q)
  <2>1. q \in Surjection(E, D)
    BY <1>1, <1>3 DEF Surjection
  <2>2. Cardinality(D) <= Cardinality(E)
    BY <1>2, <2>1, FS_Surjection
  <2> QED BY <1>2, <2>2
<1>4. ASSUME \A i, j \in DOMAIN q : q[i] = q[j] => i = j PROVE Len(q) <= n
  <2>1. q \in Injection(E, D)
    BY <1>1, <1>4 DEF Injection, IsInjective
  <2>2. Cardinality(E) <= Cardinality(D)
    BY <1>2, <2>1, FS_Injection
  <2> QED BY <1>2, <2>2
<1> QED BY <1>3, <1>4 DEF D

\* The queue when j nodes have been visited: no node is in it twice, a node comes
\* after its parent, and the children of those visited are in it.
Enqueued(t, j, q) ==
    /\ q \in Seq(DOMAIN t)
    /\ Len(q) \in Nat \ {0} /\ q[1] = 1
    /\ \A i, l \in DOMAIN q : q[i] = q[l] => i = l
    /\ \A i \in DOMAIN q : q[i] # 1 =>
          \E l \in DOMAIN q : l < i /\ l <= j /\ q[l] = t[q[i]].parent
    /\ \A l \in DOMAIN q : l <= j =>
          \A c \in DOMAIN t : t[c].parent = q[l] => \E i \in DOMAIN q : q[i] = c

\* When all in the queue have been visited, every node has been.
LEMMA QueueEmpty ==
    ASSUME NEW k, NEW t, IsTree(t, k), NEW j \in Nat, NEW q, Enqueued(t, j, q), Len(q) <= j
    PROVE  \A c \in DOMAIN t : \E i \in DOMAIN q : q[i] = c
<1> DEFINE S == {c \in DOMAIN t : \E i \in DOMAIN q : q[i] = c}
<1>1. DOMAIN q = 1..Len(q) /\ Len(q) \in Nat \ {0} /\ q[1] = 1
  BY SMTT(20) DEF Enqueued
<1>2. \A c \in DOMAIN t : t[c].parent = 0 => c = 1
  BY TreeNodes
<1>3. \A l \in DOMAIN q : l <= j
  BY <1>1
<1>4. ASSUME NEW c \in DOMAIN t, t[c].parent # 0 => t[c].parent \in S PROVE c \in S
  <2>1. CASE t[c].parent = 0
    <3>1. c = 1 /\ 1 \in DOMAIN q
      BY SMTT(20), <1>1, <1>2, <2>1
    <3> QED BY <1>1, <3>1
  <2>2. CASE t[c].parent # 0
    <3>1. PICK l \in DOMAIN q : q[l] = t[c].parent
      BY <1>4, <2>2
    <3> QED BY <1>3, <3>1 DEF Enqueued
  <2> QED BY <2>1, <2>2
<1> HIDE DEF S
<1>5. \A c \in DOMAIN t : c \in S
  BY <1>4, TreeInduction
<1> QED BY <1>5 DEF S

\* Visiting the next one puts its children behind the others.
LEMMA QueueStep ==
    ASSUME NEW k, NEW t, IsTree(t, k), NEW j \in Nat, NEW q, Enqueued(t, j, q), j + 1 <= Len(q)
    PROVE  Enqueued(t, j + 1, q \o Children(t, q[j + 1]))
<1> DEFINE D == DOMAIN t
           x == q[j + 1]
           r == Children(t, x)
           s == q \o r
           m == Len(q)
<1>1. /\ q \in Seq(D) /\ m \in Nat \ {0} /\ q[1] = 1
      /\ \A i, l \in DOMAIN q : q[i] = q[l] => i = l
      /\ \A i \in DOMAIN q : q[i] # 1 =>
            \E l \in DOMAIN q : l < i /\ l <= j /\ q[l] = t[q[i]].parent
      /\ \A l \in DOMAIN q : l <= j =>
            \A c \in D : t[c].parent = q[l] => \E i \in DOMAIN q : q[i] = c
  BY DEF Enqueued
<1>2. /\ r \in Seq(D)
      /\ \A i \in DOMAIN r : t[r[i]].parent = x
      /\ \A c \in D : t[c].parent = x => \E i \in DOMAIN r : r[i] = c
      /\ \A i, l \in DOMAIN r : r[i] = r[l] => i = l
  <2>1. ListsChildren(r, t, x)
    BY ChildrenListed
  <2> QED BY <2>1 DEF ListsChildren
<1>3. j + 1 \in DOMAIN q /\ x \in D
  BY SMTT(20), <1>1
<1>4. x \in Nat \ {0} /\ \A c \in D : t[c].parent = x => c # 1
  BY SMTT(20), <1>3, TreeNodes
<1> HIDE DEF D, x, r
<1>5. /\ s \in Seq(D) /\ Len(s) = m + Len(r)
      /\ m \in Nat /\ Len(r) \in Nat
      /\ DOMAIN s = 1..(m + Len(r))
      /\ DOMAIN q = 1..m /\ DOMAIN r = 1..Len(r)
      /\ \A i \in 1..m : s[i] = q[i]
      /\ \A i \in 1..Len(r) : s[m + i] = r[i]
  BY SMTT(20), <1>1, <1>2, Concatenated
<1> HIDE DEF s, m
<1>6. /\ \A i \in DOMAIN s : i \in DOMAIN q \/ (i > m /\ i - m \in DOMAIN r /\ s[i] = r[i - m])
      /\ \A i \in DOMAIN q : i \in DOMAIN s /\ i <= m /\ s[i] = q[i]
      /\ \A i \in DOMAIN r : m + i \in DOMAIN s /\ s[m + i] = r[i]
  <2>1. \A i \in 1..(m + Len(r)) : i \in 1..m \/ (i > m /\ i - m \in 1..Len(r) /\ m + (i - m) = i)
    BY <1>5
  <2>2. \A i \in 1..m : i \in 1..(m + Len(r)) /\ i <= m
    BY <1>5
  <2>3. \A i \in 1..Len(r) : m + i \in 1..(m + Len(r))
    BY <1>5
  <2> QED BY <1>5, <2>1, <2>2, <2>3
\* The children are new: those in the queue have a parent visited before.
<1>7. ASSUME NEW i \in DOMAIN q, NEW l \in DOMAIN r, q[i] = r[l] PROVE FALSE
  <2>1. r[l] \in D /\ t[r[l]].parent = x /\ q[i] # 1
    BY SMTT(20), <1>2, <1>4, <1>7
  <2>2. PICK h \in DOMAIN q : h <= j /\ q[h] = t[q[i]].parent
    BY <1>1, <2>1
  <2>3. q[h] = q[j + 1]
    BY <1>7, <2>1, <2>2 DEF x
  <2>4. h = j + 1
    BY <1>1, <1>3, <2>3
  <2> QED BY <2>2, <2>4
<1>8. ASSUME NEW i \in DOMAIN s, NEW l \in DOMAIN s, s[i] = s[l] PROVE i = l
  <2>1. CASE i \in DOMAIN q /\ l \in DOMAIN q
    BY <1>1, <1>6, <1>8, <2>1
  <2>2. CASE i \in DOMAIN q /\ l \notin DOMAIN q
    BY <1>6, <1>7, <1>8, <2>2
  <2>3. CASE i \notin DOMAIN q /\ l \in DOMAIN q
    BY <1>6, <1>7, <1>8, <2>3
  <2>4. CASE i \notin DOMAIN q /\ l \notin DOMAIN q
    <3>1. i - m \in DOMAIN r /\ l - m \in DOMAIN r /\ r[i - m] = r[l - m]
      BY <1>6, <1>8, <2>4
    <3>2. i - m = l - m
      BY <1>2, <3>1
    <3> QED BY <1>5, <3>2
  <2> QED BY <2>1, <2>2, <2>3, <2>4
<1>9. ASSUME NEW i \in DOMAIN s, s[i] # 1
      PROVE  \E l \in DOMAIN s : l < i /\ l <= j + 1 /\ s[l] = t[s[i]].parent
  <2>1. CASE i \in DOMAIN q
    <3>1. s[i] = q[i]
      BY <1>6, <2>1
    <3>2. PICK l \in DOMAIN q : l < i /\ l <= j /\ q[l] = t[q[i]].parent
      BY <1>1, <1>9, <2>1, <3>1
    <3>3. l \in DOMAIN s /\ s[l] = q[l] /\ l <= j + 1
      BY SMTT(20), <1>5, <1>6, <3>2
    <3> QED BY <3>1, <3>2, <3>3
  <2>2. CASE i \notin DOMAIN q
    <3>1. i > m /\ i - m \in DOMAIN r /\ s[i] = r[i - m]
      BY <1>6, <2>2
    <3>2. t[s[i]].parent = x
      BY <1>2, <3>1
    <3>3. j + 1 \in DOMAIN s /\ s[j + 1] = x /\ j + 1 <= m
      BY <1>3, <1>6 DEF x
    <3>4. j + 1 < i
      BY SMTT(20), <1>5, <3>1, <3>3
    <3> QED BY <3>2, <3>3, <3>4
  <2> QED BY <2>1, <2>2
<1>10. ASSUME NEW l \in DOMAIN s, l <= j + 1, NEW c \in D, t[c].parent = s[l]
       PROVE  \E i \in DOMAIN s : s[i] = c
  <2>1. l \in DOMAIN q /\ s[l] = q[l]
    BY SMTT(20), <1>3, <1>5, <1>6, <1>10
  <2>2. CASE l = j + 1
    <3>1. PICK i \in DOMAIN r : r[i] = c
      BY <1>2, <1>10, <2>1, <2>2 DEF x
    <3> QED BY <1>6, <3>1
  <2>3. CASE l # j + 1
    <3>1. l <= j
      BY SMTT(20), <1>5, <1>10, <2>1, <2>3
    <3>2. t[c].parent = q[l]
      BY <1>10, <2>1
    <3>3. PICK i \in DOMAIN q : q[i] = c
      BY <1>1, <2>1, <3>1, <3>2
    <3> QED BY <1>6, <3>3
  <2> QED BY <2>2, <2>3
<1>11. Len(s) \in Nat \ {0} /\ s[1] = 1
  <2>1. 1 \in 1..m
    BY SMTT(20), <1>1 DEF m
  <2> QED BY SMTT(20), <1>1, <1>5, <2>1
<1>12. Enqueued(t, j + 1, s)
  BY <1>5, <1>8, <1>9, <1>10, <1>11 DEF Enqueued, D
<1> QED BY <1>12 DEF s, r, x

\* The traversal visits every node once, and its parent before it.
LEMMA LevelOrderVisits ==
    ASSUME NEW k, NEW t, IsTree(t, k)
    PROVE  /\ Enqueued(t, Len(t), LevelOrder(t))
           /\ \A c \in DOMAIN t : \E i \in DOMAIN LevelOrder(t) : LevelOrder(t)[i] = c
<1> DEFINE n == Len(t)
           Long(j, q) == j <= Len(q) /\ (j < n => j + 1 <= Len(q))
<1>1. n \in Nat \ {0} /\ DOMAIN t = 1..n /\ \A c \in DOMAIN t : t[c].parent = 0 => c = 1
  BY TreeNodes
<1>2. PICK P : Queues(P, t)
  BY LevelRun
<1>3. /\ P[0] = <<1>> /\ P[n] = LevelOrder(t)
      /\ \A j \in 1..n : P[j] = P[j - 1] \o Children(t, P[j - 1][j])
  BY <1>2 DEF Queues
<1>4. ASSUME NEW j \in 0..n, Enqueued(t, j, P[j]), j <= Len(P[j]) PROVE Long(j, P[j])
  <2>1. CASE Len(P[j]) <= j
    <3> DEFINE q == P[j]
    <3>1. q \in Seq(1..n)
      BY <1>1, <1>4 DEF Enqueued
    <3>2. j \in Nat
      BY SMTT(20), <1>1
    <3> HIDE DEF q, n
    <3>3. \A c \in DOMAIN t : \E i \in DOMAIN q : q[i] = c
      <4>1. Enqueued(t, j, q) /\ Len(q) <= j
        BY <1>4, <2>1 DEF q
      <4> QED BY SMTT(20), <3>2, <4>1, QueueEmpty
    <3>4. n <= Len(q)
      <4>1. n \in Nat /\ \A c \in 1..n : \E i \in DOMAIN q : q[i] = c
        BY <1>1, <3>3
      <4> QED BY <3>1, <4>1, ListLength
    <3>5. Len(q) \in Nat
      BY <3>1
    <3> QED BY <1>1, <1>4, <2>1, <3>4, <3>5 DEF q
  <2>2. CASE ~(Len(P[j]) <= j)
    <3>1. Len(P[j]) \in Nat
      BY <1>4 DEF Enqueued
    <3> QED BY <1>1, <1>4, <2>2, <3>1
  <2> QED BY <2>1, <2>2
<1> HIDE DEF n, Long
<1> DEFINE S == {j \in 0..n : Enqueued(t, j, P[j]) /\ Long(j, P[j])}
<1>5. 0 \in S
  <2>1. Enqueued(t, 0, <<1>>)
    <3>1. /\ <<1>> \in Seq(DOMAIN t) /\ Len(<<1>>) = 1 /\ <<1>>[1] = 1
          /\ DOMAIN <<1>> = {1}
      BY SMTT(20), <1>1
    <3> QED BY SMTT(20), <3>1 DEF Enqueued
  <2>2. 0 \in 0..n /\ 0 <= Len(<<1>>)
    BY <1>1
  <2> QED BY <1>3, <1>4, <2>1, <2>2
<1>6. ASSUME NEW j \in 0..(n - 1), j \in S PROVE j + 1 \in S
  <2>1. j \in Nat /\ j + 1 \in 1..n /\ j + 1 \in 0..n /\ (j + 1) - 1 = j /\ j < n
    BY SMTT(20), <1>1
  <2>2. Enqueued(t, j, P[j]) /\ j + 1 <= Len(P[j])
    BY <1>6, <2>1 DEF Long
  <2>3. P[j + 1] = P[j] \o Children(t, P[j][j + 1])
    BY <1>3, <2>1
  <2>4. Enqueued(t, j + 1, P[j + 1])
    BY <2>1, <2>2, <2>3, QueueStep
  <2>5. j + 1 <= Len(P[j + 1])
    <3> DEFINE q == P[j]
               r == Children(t, P[j][j + 1])
    <3>1. q \in Seq(DOMAIN t)
      BY <2>2 DEF Enqueued
    <3>2. r \in Seq(DOMAIN t)
      BY ChildrenListed DEF ListsChildren
    <3>3. P[j + 1] = q \o r /\ j + 1 <= Len(q)
      BY <2>2, <2>3
    <3> HIDE DEF q, r
    <3>4. Len(P[j + 1]) = Len(q) + Len(r) /\ Len(q) \in Nat /\ Len(r) \in Nat
      BY <3>1, <3>2, <3>3
    <3> QED BY <2>1, <3>3, <3>4
  <2>6. Long(j + 1, P[j + 1])
    BY <1>4, <2>1, <2>4, <2>5
  <2> QED BY <2>1, <2>4, <2>6
<1> HIDE DEF S
<1>7. n \in S
  BY <1>1, <1>5, <1>6, UpTo
<1> DEFINE q == LevelOrder(t)
<1>8. Enqueued(t, n, q)
  BY <1>3, <1>7 DEF S
<1> HIDE DEF q
<1>9. Len(q) <= n
  <2>1. q \in Seq(1..n) /\ \A i, l \in DOMAIN q : q[i] = q[l] => i = l
    BY <1>1, <1>8 DEF Enqueued
  <2>2. n \in Nat
    BY <1>1
  <2> QED BY <2>1, <2>2, ListLength
<1>10. \A c \in DOMAIN t : \E i \in DOMAIN q : q[i] = c
  <2>1. n \in Nat
    BY <1>1
  <2> QED BY SMTT(20), <1>8, <1>9, <2>1, QueueEmpty
<1> QED BY <1>8, <1>10 DEF q, n

-----------------------------------------------------------------------------
(* GetLatestBlock *)

\* What the traversal of GetLatestBlock goes through.
Seeks(P, h, t) ==
    LET q == LevelOrder(t)
    IN /\ P \in [0..Len(q) -> [precommit : DOMAIN t, last : DOMAIN t]]
       /\ P[0] = [precommit |-> 1, last |-> 1]
       /\ P[Len(q)].last = GetLatestBlock(h, t)
       /\ \A j \in 1..Len(q) : P[j] = LatestStep(h, t, P[j - 1], q[j])

\* It is what GetLatestBlock is defined by.
LEMMA LatestRun ==
    ASSUME NEW k, NEW t, IsTree(t, k), NEW h
    PROVE  \E P : Seeks(P, h, t)
<1> DEFINE D == DOMAIN t
           q == LevelOrder(t)
           n == Len(q)
           A == [precommit : D, last : D]
           base == [precommit |-> 1, last |-> 1]
           op(j, acc) == LatestStep(h, t, acc, q[j])
           G == [p \in (1..n) \X A |-> op(p[1], p[2])]
           Eq(f) == f = [j \in 0..n |-> IF j = 0 THEN base ELSE op(j, f[j - 1])]
           g == CHOOSE f : Eq(f)
<1>1. GetLatestBlock(h, t) = g[n].last
  BY DEF GetLatestBlock
<1>2. n \in Nat /\ \A j \in 1..n : q[j] \in D
  <2>1. q \in Seq(D)
    BY LevelOrderVisits DEF Enqueued
  <2> HIDE DEF q, D
  <2> QED BY <2>1
<1>3. base \in A
  BY SMTT(20), TreeNodes
<1> HIDE DEF q, n, D
<1>4. ASSUME NEW j \in 1..n, NEW acc \in A PROVE op(j, acc) \in A
  BY <1>2 DEF LatestStep
<1> HIDE DEF A, base, op
<1>5. G \in [(1..n) \X A -> A] /\ \A j \in 1..n, acc \in A : G[<<j, acc>>] = op(j, acc)
  BY <1>4
<1> HIDE DEF G
<1>6. \E f : Eq(f)
  <2>1. PICK f : Iterates(f, n, A, base, G)
    BY <1>2, <1>3, <1>5, IterationExists
  <2>2. ASSUME NEW j \in 0..n
        PROVE  f[j] = IF j = 0 THEN base ELSE op(j, f[j - 1])
    BY <1>5, <2>1 DEF Iterates
  <2>3. f = [j \in 0..n |-> f[j]]
    BY <2>1 DEF Iterates
  <2> QED BY <2>2, <2>3
<1>7. Eq(g)
  BY <1>6
<1> HIDE DEF g
<1>8. g[0] = base /\ \A j \in 1..n : g[j] = op(j, g[j - 1])
  BY <1>2, <1>7
<1>9. Follows(g, n, A, base, G)
  BY <1>5, <1>8 DEF Follows
<1>10. \A j \in 0..n : g[j] \in A
  BY <1>2, <1>3, <1>5, <1>9, IterationType
<1>11. g \in [0..n -> A]
  BY <1>7, <1>10
<1>12. Seeks(g, h, t)
  BY <1>1, <1>8, <1>11 DEF Seeks, n, A, base, op, q, D
<1> QED BY <1>12

\* It finds a node of the tree.
LEMMA LatestType ==
    ASSUME NEW k, NEW t, IsTree(t, k), NEW h
    PROVE  GetLatestBlock(h, t) \in DOMAIN t
<1> DEFINE q == LevelOrder(t)
           A == [precommit : DOMAIN t, last : DOMAIN t]
<1>1. PICK P : Seeks(P, h, t)
  BY LatestRun
<1>2. P \in [0..Len(q) -> A] /\ P[Len(q)].last = GetLatestBlock(h, t)
  BY <1>1 DEF Seeks
<1>3. q \in Seq(DOMAIN t)
  BY LevelOrderVisits DEF Enqueued
<1> HIDE DEF q
<1>4. Len(q) \in 0..Len(q)
  BY <1>3
<1>5. P[Len(q)] \in A
  BY <1>2, <1>4
<1> QED BY <1>2, <1>5

SlotAt(h, t, n) == h[t[n].data].slot

\* Blocks are of later slots than the blocks they hang below.
Climbs(h, t) ==
    \A n \in DOMAIN t :
        /\ SlotAt(h, t, n) \in Nat
        /\ t[n].parent # 0 => SlotAt(h, t, t[n].parent) < SlotAt(h, t, n)

\* So they are of later slots than all their ancestors.
LEMMA UpClimbs ==
    ASSUME NEW k, NEW t, IsTree(t, k), NEW h, Climbs(h, t)
    PROVE  \A n \in DOMAIN t : \A m \in Up(t, n) :
              SlotAt(h, t, m) <= SlotAt(h, t, n)
              /\ (m # n => SlotAt(h, t, m) < SlotAt(h, t, n))
<1> DEFINE D == DOMAIN t
           at(n) == SlotAt(h, t, n)
           S == {n \in D : \A m \in Up(t, n) : at(m) <= at(n) /\ (m # n => at(m) < at(n))}
<1>1. /\ \A n \in D : at(n) \in Nat
      /\ \A n \in D : t[n].parent # 0 => at(t[n].parent) < at(n)
  BY DEF Climbs
<1>2. \A n \in D : t[n].parent # 0 => t[n].parent \in D
  BY TreeNodes
<1>3. ASSUME NEW n \in D, t[n].parent # 0 => t[n].parent \in S PROVE n \in S
  <2> SUFFICES ASSUME NEW m \in Up(t, n) PROVE at(m) <= at(n) /\ (m # n => at(m) < at(n))
    OBVIOUS
  <2>1. /\ Up(t, n) \in SUBSET D
        /\ t[n].parent = 0 => Up(t, n) = {n}
        /\ t[n].parent # 0 => Up(t, n) = {n} \cup Up(t, t[n].parent)
    BY UpSteps
  <2>2. at(m) \in Nat /\ at(n) \in Nat
    BY <1>1, <2>1
  <2> HIDE DEF at
  <2>3. CASE m = n
    BY <2>2, <2>3
  <2>4. CASE m # n
    <3>1. t[n].parent # 0 /\ m \in Up(t, t[n].parent)
      BY <2>1, <2>4
    <3>2. at(m) <= at(t[n].parent) /\ at(t[n].parent) < at(n) /\ at(t[n].parent) \in Nat
      BY <1>1, <1>2, <1>3, <3>1
    <3> QED BY <2>2, <3>2
  <2> QED BY <2>3, <2>4
<1> HIDE DEF S
<1>4. \A n \in D : n \in S
  BY <1>3, TreeInduction
<1> QED BY <1>4 DEF S

\* What GetLatestBlock has found when the nodes in V have been visited: the
\* newest precommit block among them, or the root, and below it the newest block
\* among them.
Found(h, t, V, p, l) ==
    /\ p \in DOMAIN t /\ l \in DOMAIN t /\ p \in Up(t, l)
    /\ p = 1 \/ p \in Precommits(h, t)
    /\ SlotAt(h, t, p) <= SlotAt(h, t, l)
    /\ \A m \in V : p \in Up(t, m) => SlotAt(h, t, m) <= SlotAt(h, t, l)
    /\ \A m \in V : m \in Precommits(h, t) =>
          p \in Precommits(h, t) /\ SlotAt(h, t, m) <= SlotAt(h, t, p)

\* Visiting a node keeps that, as long as its ancestors come before it.
LEMMA FoundStep ==
    ASSUME NEW k, NEW t, IsTree(t, k), NEW h, Climbs(h, t),
           NEW V \in SUBSET DOMAIN t, \A m \in V : t[m].parent # 0 => t[m].parent \in V,
           NEW n \in DOMAIN t, n \notin V,
           NEW acc \in [precommit : DOMAIN t, last : DOMAIN t],
           Found(h, t, V, acc.precommit, acc.last)
    PROVE  Found(h, t, V \cup {n}, LatestStep(h, t, acc, n).precommit,
                 LatestStep(h, t, acc, n).last)
<1> DEFINE D == DOMAIN t
           at(m) == SlotAt(h, t, m)
           Pre == Precommits(h, t)
           p == acc.precommit
           l == acc.last
           new == LatestStep(h, t, acc, n)
           A == n \in Pre /\ at(n) >= at(p)
           B == at(n) >= at(l) /\ p # n /\ p \in Up(t, n)
<1>1. /\ A => new = [precommit |-> n, last |-> n]
      /\ ~A /\ B => new = [acc EXCEPT !.last = n]
      /\ ~A /\ ~B => new = acc
  BY DEF LatestStep, SlotAt, IsAncestor, Up, Precommits
<1>2. /\ A => new.precommit = n /\ new.last = n
      /\ ~A /\ B => new.precommit = p /\ new.last = n
      /\ ~A /\ ~B => new.precommit = p /\ new.last = l
  <2> HIDE DEF A, B, new
  <2> QED BY SMTT(20), <1>1
<1>3. /\ p \in D /\ l \in D /\ p \in Up(t, l)
      /\ p = 1 \/ p \in Pre
      /\ at(p) <= at(l)
      /\ \A m \in V : p \in Up(t, m) => at(m) <= at(l)
      /\ \A m \in V : m \in Pre => p \in Pre /\ at(m) <= at(p)
  BY DEF Found
<1>4. n \in D /\ \A m \in D : at(m) \in Nat
  BY DEF Climbs
<1>5. n \in Up(t, n) /\ 1 \in Up(t, n)
  BY UpSteps, UpOlder
<1>6. \A m \in V : n \notin Up(t, m)
  BY UpClosed
<1>7. at(1) <= at(n)
  BY <1>5, UpClimbs
<1>8. \A m \in V \cup {n} : m \in D /\ (m \in V \/ m = n)
  OBVIOUS
<1> HIDE DEF at, Pre, p, l, new, D
<1>9. CASE A
  <2>1. \A m \in V \cup {n} : n \in Up(t, m) => at(m) <= at(n)
    BY SMTT(20), <1>4, <1>6, <1>8
  <2>2. \A m \in V \cup {n} : m \in Pre => n \in Pre /\ at(m) <= at(n)
    BY SMTT(20), <1>3, <1>4, <1>8, <1>9
  <2>3. at(n) <= at(n)
    BY <1>4
  <2>4. Found(h, t, V \cup {n}, n, n)
    BY <1>5, <1>9, <2>1, <2>2, <2>3 DEF Found, at, Pre, D
  <2> QED BY <1>2, <1>9, <2>4 DEF new
\* A precommit block that is not newer than the newest so far is not the first.
<1>10. ASSUME ~A PROVE \A m \in V \cup {n} : m \in Pre => p \in Pre /\ at(m) <= at(p)
  <2>1. n \in Pre => at(n) < at(p)
    BY <1>3, <1>4, <1>10
  <2>2. n \in Pre => p \in Pre
    BY SMTT(20), <1>3, <1>4, <1>7, <2>1
  <2> QED BY SMTT(20), <1>3, <1>4, <1>8, <2>1, <2>2
<1>11. CASE ~A /\ B
  <2>1. \A m \in V \cup {n} : p \in Up(t, m) => at(m) <= at(n)
    BY SMTT(20), <1>3, <1>4, <1>8, <1>11
  <2>2. at(p) <= at(n) /\ p \in Up(t, n)
    BY <1>3, <1>4, <1>11
  <2>3. Found(h, t, V \cup {n}, p, n)
    BY <1>3, <1>10, <1>11, <2>1, <2>2 DEF Found, at, Pre, D
  <2> QED BY <1>2, <1>11, <2>3 DEF new
<1>12. CASE ~A /\ ~B
  <2>1. \A m \in V \cup {n} : p \in Up(t, m) => at(m) <= at(l)
    BY SMTT(20), <1>3, <1>4, <1>8, <1>12
  <2>2. Found(h, t, V \cup {n}, p, l)
    BY <1>3, <1>10, <1>12, <2>1 DEF Found, at, Pre, D
  <2> QED BY <1>2, <1>12, <2>2 DEF new
<1> QED BY <1>9, <1>11, <1>12

\* GetLatestBlock finds a newest block below a newest precommit block, or a newest
\* block of the tree when there is no precommit block.
LEMMA LatestIsFound ==
    ASSUME NEW k, NEW t, IsTree(t, k), NEW h, Climbs(h, t)
    PROVE  IsLatest(h, t, GetLatestBlock(h, t))
<1> DEFINE D == DOMAIN t
           q == LevelOrder(t)
           n == Len(q)
           A == [precommit : D, last : D]
           V(j) == {q[i] : i \in 1..j}
<1>1. PICK P : Seeks(P, h, t)
  BY LatestRun
<1>2. /\ P \in [0..n -> A]
      /\ P[0] = [precommit |-> 1, last |-> 1]
      /\ P[n].last = GetLatestBlock(h, t)
      /\ \A j \in 1..n : P[j] = LatestStep(h, t, P[j - 1], q[j])
  BY <1>1 DEF Seeks
<1>3. Enqueued(t, Len(t), q) /\ \A c \in D : \E i \in DOMAIN q : q[i] = c
  BY LevelOrderVisits
<1>4. \A c \in D : /\ t[c].parent # 0 => t[c].parent \in D
                   /\ t[c].parent = 0 <=> c = 1
  BY TreeNodes
<1>5. 1 \in D
  BY SMTT(20), TreeNodes
<1>6. \A m \in D : SlotAt(h, t, m) \in Nat
  BY DEF Climbs
<1> HIDE DEF q
<1>7. /\ q \in Seq(D) /\ n \in Nat /\ DOMAIN q = 1..n
      /\ \A i \in 1..n : q[i] \in D
  BY SMTT(20), <1>3 DEF Enqueued
<1>8. \A i, l \in 1..n : q[i] = q[l] => i = l
  BY <1>3, <1>7 DEF Enqueued
<1>9. \A i \in 1..n : q[i] # 1 => \E l \in 1..n : l < i /\ q[l] = t[q[i]].parent
  BY <1>3, <1>7 DEF Enqueued
<1> HIDE DEF n
<1> DEFINE S == {j \in 0..n : Found(h, t, V(j), P[j].precommit, P[j].last)}
<1>10. 0 \in S
  <2>1. 0 \in 0..n /\ V(0) = {}
    BY <1>7
  <2>2. P[0].precommit = 1 /\ P[0].last = 1
    BY SMTT(20), <1>2
  <2>3. 1 \in Up(t, 1) /\ SlotAt(h, t, 1) <= SlotAt(h, t, 1)
    <3>1. 1 \in Up(t, 1)
      BY <1>5, UpSteps
    <3> QED BY <1>5, <1>6, <3>1
  <2>4. Found(h, t, {}, 1, 1)
    BY <1>5, <2>3 DEF Found
  <2> QED BY <2>1, <2>2, <2>4
<1>11. ASSUME NEW j \in 0..(n - 1), j \in S PROVE j + 1 \in S
  <2>1. n \in Nat /\ j \in 0..n /\ j + 1 \in 1..n /\ (j + 1) - 1 = j /\ j + 1 \in 0..n
    BY <1>7
  <2> DEFINE x == q[j + 1]
             W == V(j)
             acc == P[j]
  <2>2. acc \in A /\ Found(h, t, W, acc.precommit, acc.last) /\ x \in D
    BY <1>2, <1>7, <1>11, <2>1
  <2>3. P[j + 1] = LatestStep(h, t, acc, x)
    BY <1>2, <2>1
  <2>4. \A i \in 1..j : i \in 1..n /\ i # j + 1 /\ i < j + 1
    BY <2>1
  <2>5. W \in SUBSET D /\ x \notin W
    <3>1. ASSUME NEW m \in W PROVE m \in D /\ m # x
      <4>1. PICK i \in 1..j : m = q[i]
        OBVIOUS
      <4> QED BY <1>7, <1>8, <2>1, <2>4, <4>1
    <3> HIDE DEF W
    <3> QED BY <3>1
  <2>6. ASSUME NEW m \in W, t[m].parent # 0 PROVE t[m].parent \in W
    <3>1. PICK i \in 1..j : m = q[i]
      OBVIOUS
    <3>2. i \in 1..n /\ m \in D /\ m # 1
      BY <1>4, <2>4, <2>5, <2>6, <3>1
    <3>3. PICK l \in 1..n : l < i /\ q[l] = t[m].parent
      BY <1>9, <3>1, <3>2
    <3>4. l \in 1..j
      BY SMTT(20), <3>1, <3>3
    <3> QED BY <3>3, <3>4
  <2>7. V(j + 1) = W \cup {x}
    <3>1. \A i \in 1..(j + 1) : i \in 1..j \/ i = j + 1
      BY <2>1
    <3>2. j + 1 \in 1..(j + 1) /\ \A i \in 1..j : i \in 1..(j + 1)
      BY <2>1
    <3> QED BY <3>1, <3>2
  <2> HIDE DEF x, W, acc
  <2>8. Found(h, t, W \cup {x}, LatestStep(h, t, acc, x).precommit, LatestStep(h, t, acc, x).last)
    BY <2>2, <2>5, <2>6, FoundStep
  <2> QED BY <2>1, <2>3, <2>7, <2>8
<1> HIDE DEF S
<1>12. n \in S
  BY <1>7, <1>10, <1>11, UpTo
<1> DEFINE p == P[n].precommit
           l == GetLatestBlock(h, t)
<1>13. Found(h, t, V(n), p, l)
  BY <1>2, <1>12 DEF S
<1>14. \A c \in D : c \in V(n)
  BY <1>3, <1>7
<1> HIDE DEF V, p, l
<1>15. /\ p \in D /\ l \in D /\ p \in Up(t, l)
       /\ p = 1 \/ p \in Precommits(h, t)
       /\ \A m \in D : p \in Up(t, m) => SlotAt(h, t, m) <= SlotAt(h, t, l)
       /\ \A m \in D : m \in Precommits(h, t) =>
             p \in Precommits(h, t) /\ SlotAt(h, t, m) <= SlotAt(h, t, p)
  BY <1>13, <1>14 DEF Found
<1>16. p \in IF Precommits(h, t) = {} THEN {1} ELSE Newest(h, t, Precommits(h, t))
  <2>1. \A m \in Precommits(h, t) : m \in D
    BY DEF Precommits
  <2>2. CASE Precommits(h, t) = {}
    BY <1>15, <2>2
  <2>3. CASE Precommits(h, t) # {}
    <3>1. PICK m \in Precommits(h, t) : TRUE
      BY <2>3
    <3>2. p \in Precommits(h, t)
      BY <1>15, <2>1
    <3> QED BY <1>15, <2>1, <2>3, <3>2 DEF Newest, SlotAt
  <2> QED BY <2>2, <2>3
<1>17. l \in Newest(h, t, Subtree(t, p))
  <2>1. \A m \in D : m \in Subtree(t, p) <=> p \in Up(t, m)
    <3>1. \A m \in D : m \in Up(t, m)
      BY UpSteps
    <3> QED BY <3>1 DEF Subtree, Ancestors, Up
  <2>2. \A m \in Subtree(t, p) : m \in D
    BY DEF Subtree
  <2> QED BY <1>15, <2>1, <2>2 DEF Newest, SlotAt
<1> QED BY <1>16, <1>17 DEF IsLatest, l

-----------------------------------------------------------------------------
(* Searching and adding *)

\* The place a search stops at is the first of the places, or 0 if there is none.
LEMMA FirstPlace ==
    ASSUME NEW n \in Nat, NEW I \in SUBSET (1..n)
    PROVE  /\ First(I) \in 0..n
           /\ First(I) # 0 => First(I) \in I /\ \A i \in I : First(I) <= i
           /\ First(I) = 0 => I = {}
<1>1. CASE I = {}
  BY <1>1 DEF First
<1>2. CASE I # {}
  <2>1. First(I) = Min(I)
    BY <1>2 DEF First
  <2>2. Min(I) \in I /\ \A i \in I : Min(I) <= i
    BY <1>2, MinIndex
  <2>3. First(I) \in I /\ First(I) \in 1..n /\ \A i \in I : First(I) <= i
    BY <2>1, <2>2
  <2> QED BY <2>3
<1> QED BY <1>1, <1>2

\* QueryBlockByHash finds a block of the list that has the hash, or nothing.
LEMMA QueryBlock ==
    ASSUME NEW X, NEW list \in Seq(X), NEW h, NEW hash
    PROVE  LET o == QueryBlockByHash(h, list, hash)
           IN o = 0 \/ (o \in X /\ h[o].hash = hash /\ \E i \in DOMAIN list : o = list[i])
<1> DEFINE I == {i \in DOMAIN list : h[list[i]].hash = hash}
           o == QueryBlockByHash(h, list, hash)
<1>1. o = IF First(I) = 0 THEN 0 ELSE list[First(I)]
  BY DEF QueryBlockByHash
<1>2. CASE First(I) # 0
  <2>1. First(I) \in I
    <3>1. Len(list) \in Nat /\ I \in SUBSET (1..Len(list))
      BY SMTT(20)
    <3> HIDE DEF I
    <3> QED BY <1>2, <3>1, FirstPlace
  <2>2. First(I) \in DOMAIN list /\ h[list[First(I)]].hash = hash /\ list[First(I)] \in X
    BY <2>1
  <2>3. o = list[First(I)]
    BY <1>1, <1>2
  <2> HIDE DEF I, o
  <2> QED BY <2>2, <2>3 DEF o
<1>3. CASE First(I) = 0
  <2>1. o = 0
    BY <1>1, <1>3
  <2> QED BY <2>1
<1> QED BY <1>2, <1>3

\* queryNodeByHash finds a node of the tree that has the hash, or nothing when
\* there is none.
LEMMA QueryNode ==
    ASSUME NEW k, NEW t, IsTree(t, k), NEW h, NEW hash
    PROVE  /\ QueryNodeByHash(h, t, hash) \in 0..Len(t)
           /\ QueryNodeByHash(h, t, hash) # 0 =>
                 /\ QueryNodeByHash(h, t, hash) \in DOMAIN t
                 /\ h[t[QueryNodeByHash(h, t, hash)].data].hash = hash
           /\ QueryNodeByHash(h, t, hash) = 0 => \A n \in DOMAIN t : h[t[n].data].hash # hash
<1> DEFINE I == {n \in DOMAIN t : h[t[n].data].hash = hash}
           p == First(I)
<1>1. QueryNodeByHash(h, t, hash) = p
  BY DEF QueryNodeByHash
<1>2. Len(t) \in Nat /\ I \in SUBSET (1..Len(t))
  BY TreeNodes
<1>3. p \in 0..Len(t) /\ (p # 0 => p \in I) /\ (p = 0 => I = {})
  <2> HIDE DEF I
  <2> QED BY <1>2, FirstPlace
<1> HIDE DEF p
<1>4. p # 0 => p \in DOMAIN t /\ h[t[p].data].hash = hash
  BY <1>3
<1>5. p = 0 => \A n \in DOMAIN t : h[t[n].data].hash # hash
  BY <1>3
<1> QED BY <1>1, <1>3, <1>4, <1>5

\* AddBlocks makes a tree over one more block of a tree.
LEMMA AddBlocksType ==
    ASSUME NEW k \in Nat, NEW t, IsTree(t, k), NEW h, NEW o \in 1..(k + 1)
    PROVE  IsTree(AddBlocks(h, t, o), k + 1)
<1> DEFINE p == QueryNodeByHash(h, t, h[o].parent)
           Node == [data : 1..(k + 1), parent : Nat]
           x == [data |-> o, parent |-> p]
<1>1. p \in 0..Len(t)
  BY QueryNode
<1>2. /\ Len(t) \in Nat \ {0} /\ DOMAIN t = 1..Len(t)
      /\ \A m \in DOMAIN t : t[m].parent \in Nat /\ t[m].parent < m
      /\ \A m \in DOMAIN t : t[m].parent = 0 => m = 1
  BY TreeNodes
<1>3. AddBlocks(h, t, o) = t \/ (p # 0 /\ AddBlocks(h, t, o) = Append(t, x))
  BY DEF AddBlocks
<1>4. t \in Seq(Node)
  <2> DEFINE Old == [data : 1..k, parent : Nat]
  <2>1. \A y \in Old : y \in Node
    BY SMTT(20)
  <2>2. t \in Seq(Old)
    BY DEF IsTree
  <2> HIDE DEF Old, Node
  <2> QED BY <2>1, <2>2, SeqMonotone
<1>5. IsTree(t, k + 1)
  BY <1>4 DEF IsTree
<1>6. ASSUME p # 0 PROVE IsTree(Append(t, x), k + 1)
  <2>1. x \in Node
    BY SMTT(20), <1>1, <1>2
  <2>2. x.parent = p
    OBVIOUS
  <2> HIDE DEF Node, x, p
  <2>3. Append(t, x) \in Seq(Node) /\ Append(t, x) # <<>>
    <3>1. Append(t, x) \in Seq(Node) /\ Len(Append(t, x)) = Len(t) + 1
      BY <1>4, <2>1
    <3>2. Len(t) + 1 # 0 /\ Len(<<>>) = 0
      BY SMTT(20), <1>2
    <3> QED BY <3>1, <3>2
  <2>4. \A m \in DOMAIN Append(t, x) :
           Append(t, x)[m].parent < m /\ (Append(t, x)[m].parent = 0 => m = 1)
    <3> SUFFICES ASSUME NEW m \in 1..(Len(t) + 1)
                 PROVE  Append(t, x)[m].parent < m /\ (Append(t, x)[m].parent = 0 => m = 1)
      BY <1>4, <2>1
    <3>1. CASE m = Len(t) + 1
      <4>1. Append(t, x)[m] = x
        BY <1>4, <3>1
      <4> QED BY SMTT(20), <1>1, <1>2, <1>6, <2>2, <3>1, <4>1
    <3>2. CASE m # Len(t) + 1
      <4>1. m \in DOMAIN t /\ Append(t, x)[m] = t[m]
        BY SMTT(20), <1>2, <1>4, <3>2
      <4> QED BY <1>2, <4>1
    <3> QED BY <3>1, <3>2
  <2> QED BY <2>3, <2>4 DEF IsTree, Node
<1> QED BY <1>3, <1>5, <1>6

\* AddBlocks keeps the shape of the tree.
LEMMA AddBlocksShape ==
    ASSUME NEW k, NEW t, IsTree(t, k), NEW h, NEW o, WellShaped(h, t)
    PROVE  WellShaped(h, AddBlocks(h, t, o)) /\ AddBlocks(h, t, o)[1] = t[1]
<1> DEFINE D == DOMAIN t
           n == Len(t)
           p == QueryNodeByHash(h, t, h[o].parent)
           x == [data |-> o, parent |-> p]
           s == Append(t, x)
           New == p # 0 /\ QueryNodeByHash(h, t, h[o].hash) = 0
<1>1. AddBlocks(h, t, o) = IF New THEN s ELSE t
  BY DEF AddBlocks
<1>2. /\ n \in Nat \ {0} /\ D = 1..n
      /\ \A m \in D : t[m].parent # 0 => t[m].parent \in D
      /\ \A m \in D : t[m].parent = 0 <=> m = 1
  BY TreeNodes
<1>3. CASE ~New
  BY <1>1, <1>3
<1>4. CASE New
  <2>1. p \in D /\ h[t[p].data].hash = h[o].parent /\ \A m \in D : h[t[m].data].hash # h[o].hash
    BY <1>4, QueryNode
  <2>2. x.data = o /\ x.parent = p
    OBVIOUS
  <2>3. /\ DOMAIN s = 1..(n + 1) /\ s[n + 1] = x /\ n + 1 # 1
        /\ \A m \in D : s[m] = t[m] /\ m # n + 1 /\ m \in 1..(n + 1)
        /\ \A m \in 1..(n + 1) : m \in D \/ m = n + 1
    <3>1. t \in Seq([data : 1..k, parent : Nat])
      BY DEF IsTree
    <3> HIDE DEF x
    <3> QED BY SMTT(20), <1>2, <3>1
  <2> HIDE DEF D, n, p, x, s
  <2>4. \A i, j \in DOMAIN s : h[s[i].data].hash = h[s[j].data].hash => i = j
    <3>1. \A i, j \in D : h[t[i].data].hash = h[t[j].data].hash => i = j
      BY DEF WellShaped, D
    <3> SUFFICES ASSUME NEW i \in DOMAIN s, NEW j \in DOMAIN s, h[s[i].data].hash = h[s[j].data].hash
                 PROVE  i = j
      OBVIOUS
    <3>2. CASE i \in D /\ j \in D
      BY <2>3, <3>1, <3>2
    <3>3. CASE i \in D /\ j = n + 1
      BY <2>1, <2>2, <2>3, <3>3
    <3>4. CASE i = n + 1 /\ j \in D
      BY <2>1, <2>2, <2>3, <3>4
    <3>5. CASE i = n + 1 /\ j = n + 1
      BY <3>5
    <3> QED BY <2>3, <3>2, <3>3, <3>4, <3>5
  <2>5. ASSUME NEW m \in DOMAIN s \ {1} PROVE h[s[s[m].parent].data].hash = h[s[m].data].parent
    <3>1. CASE m = n + 1
      BY <2>1, <2>2, <2>3, <3>1
    <3>2. CASE m # n + 1
      <4>1. m \in D /\ s[m] = t[m] /\ m # 1
        BY <2>3, <3>2
      <4>2. t[m].parent \in D
        BY <1>2, <4>1
      <4>3. h[t[t[m].parent].data].hash = h[t[m].data].parent
        BY <4>1 DEF WellShaped, D
      <4> QED BY <2>3, <4>1, <4>2, <4>3
    <3> QED BY <3>1, <3>2
  <2>6. WellShaped(h, s)
    BY <2>4, <2>5 DEF WellShaped
  <2>7. s[1] = t[1]
    <3>1. 1 \in D
      BY SMTT(20), <1>2
    <3> QED BY <2>3, <3>1
  <2> QED BY <1>1, <1>4, <2>6, <2>7
<1> QED BY <1>3, <1>4

\* AddBlocks keeps blocks of later slots below blocks of earlier ones, if the
\* new block is of a later slot than the one it follows.
LEMMA AddBlocksClimbs ==
    ASSUME NEW k, NEW t, IsTree(t, k), NEW h, NEW o, Climbs(h, t), h[o].slot \in Nat,
           \A m \in DOMAIN t : h[t[m].data].hash = h[o].parent => h[t[m].data].slot < h[o].slot
    PROVE  Climbs(h, AddBlocks(h, t, o))
<1> DEFINE n == Len(t)
           p == QueryNodeByHash(h, t, h[o].parent)
           x == [data |-> o, parent |-> p]
           s == Append(t, x)
<1>1. AddBlocks(h, t, o) = t \/ (p # 0 /\ AddBlocks(h, t, o) = s)
  BY DEF AddBlocks
<1>2. ASSUME p # 0 PROVE Climbs(h, s)
  <2>1. p \in DOMAIN t /\ h[t[p].data].hash = h[o].parent
    BY SMTT(20), <1>2, QueryNode
  <2>2. x.data = o /\ x.parent = p
    OBVIOUS
  <2>3. /\ n \in Nat /\ DOMAIN t = 1..n
        /\ \A m \in DOMAIN t : t[m].parent # 0 => t[m].parent \in DOMAIN t
    BY TreeNodes
  <2>4. /\ DOMAIN s = 1..(n + 1) /\ s[n + 1] = x
        /\ \A m \in DOMAIN t : s[m] = t[m]
        /\ \A m \in 1..(n + 1) : m \in DOMAIN t \/ m = n + 1
    <3>1. t \in Seq([data : 1..k, parent : Nat])
      BY DEF IsTree
    <3> HIDE DEF x
    <3> QED BY <2>3, <3>1
  <2> HIDE DEF n, p, x, s
  <2>5. ASSUME NEW m \in DOMAIN s
        PROVE  /\ h[s[m].data].slot \in Nat
               /\ s[m].parent # 0 => h[s[s[m].parent].data].slot < h[s[m].data].slot
    <3>1. CASE m = n + 1
      BY <2>1, <2>2, <2>4, <3>1
    <3>2. CASE m \in DOMAIN t
      <4>1. /\ h[t[m].data].slot \in Nat
            /\ t[m].parent # 0 => h[t[t[m].parent].data].slot < h[t[m].data].slot
        BY <3>2 DEF Climbs, SlotAt
      <4> QED BY <2>3, <2>4, <3>2, <4>1
    <3> QED BY <2>4, <3>1, <3>2
  <2> QED BY <2>5 DEF Climbs, SlotAt
<1> QED BY <1>1, <1>2

-----------------------------------------------------------------------------
(* GetBlockByFilter, as NewBranch uses it *)

\* The blocks from a node on the way to the root, up to the first committed one.
UpToCommitted(h, t, n, q) ==
    /\ q \in Seq(DOMAIN h) /\ Len(q) <= Len(PathToRoot(t, n))
    /\ \A i \in DOMAIN q : q[i] = t[PathToRoot(t, n)[i]].data /\ h[q[i]].state # "Committed"
    /\ Len(q) < Len(PathToRoot(t, n)) =>
          h[t[PathToRoot(t, n)[Len(q) + 1]].data].state = "Committed"

\* It takes the precommit blocks among them.
LEMMA PrecommitPath ==
    ASSUME NEW h, Len(h) \in Nat, DOMAIN h = 1..Len(h),
           NEW t, IsTree(t, Len(h)), NEW n \in DOMAIN t
    PROVE  \E q : /\ UpToCommitted(h, t, n, q)
                  /\ PrecommitBlocks(h, t, n) = Keep(q, {b \in DOMAIN h : h[b].state = "Precommit"})
<1> DEFINE nodes == PathToRoot(t, n)
           len == Len(nodes)
           path == [i \in DOMAIN nodes |-> t[nodes[i]].data]
           I == {i \in DOMAIN path : h[path[i]].state = "Committed"}
           end == First(I)
           part == IF end = 0 THEN path ELSE SubSeq(path, 1, end - 1)
<1>1. PrecommitBlocks(h, t, n) = Keep(part, {b \in DOMAIN h : h[b].state = "Precommit"})
  BY DEF PrecommitBlocks
<1>2. nodes \in Seq(DOMAIN t)
  BY PathSteps
<1>3. len \in Nat /\ DOMAIN nodes = 1..len /\ \A i \in DOMAIN nodes : nodes[i] \in DOMAIN t
  <2> HIDE DEF nodes
  <2> QED BY <1>2
<1>4. /\ path \in Seq(DOMAIN h) /\ Len(path) = len /\ DOMAIN path = 1..len
      /\ \A i \in 1..len : path[i] = t[nodes[i]].data
  <2>1. \A m \in DOMAIN t : t[m].data \in DOMAIN h
    BY TreeNodes
  <2> HIDE DEF nodes
  <2> QED BY <1>3, <2>1
<1> HIDE DEF path
<1>5. I \in SUBSET (1..len)
  BY <1>4
<1>6. end \in 0..len /\ (end # 0 => end \in I /\ \A i \in I : end <= i) /\ (end = 0 => I = {})
  <2> HIDE DEF I, len
  <2> QED BY <1>3, <1>5, FirstPlace
<1> HIDE DEF end, len, nodes
<1>7. CASE end = 0
  <2>1. part = path
    BY <1>7
  <2>2. \A i \in DOMAIN path : h[path[i]].state # "Committed"
    BY <1>6, <1>7
  <2>3. UpToCommitted(h, t, n, path)
    BY SMTT(20), <1>3, <1>4, <2>2 DEF UpToCommitted, nodes, len
  <2> QED BY <1>1, <2>1, <2>3
<1>8. CASE end # 0
  <2>1. part = SubSeq(path, 1, end - 1) /\ end - 1 \in 0..len /\ end \in 1..len /\ (end - 1) + 1 = end
    BY <1>3, <1>6, <1>8
  <2>2. /\ Len(part) = end - 1 /\ DOMAIN part = 1..(end - 1)
        /\ \A i \in 1..(end - 1) : part[i] = path[i] /\ i \in 1..len /\ ~(end <= i)
    BY <1>3, <1>4, <2>1
  <2>3. part \in Seq(DOMAIN h)
    <3> HIDE DEF part
    <3> QED BY <1>4, <2>1, Shortened
  <2> HIDE DEF part
  <2>4. \A i \in DOMAIN part : h[part[i]].state # "Committed" /\ part[i] = t[nodes[i]].data
    BY <1>4, <1>6, <1>8, <2>2
  <2>5. h[t[nodes[end]].data].state = "Committed"
    BY <1>4, <1>6, <1>8, <2>1
  <2>6. UpToCommitted(h, t, n, part)
    BY SMTT(20), <1>3, <2>1, <2>2, <2>3, <2>4, <2>5 DEF UpToCommitted, nodes, len
  <2> QED BY <1>1, <2>6
<1> QED BY <1>7, <1>8

\* So what it finds are precommit blocks.
LEMMA PrecommitType ==
    ASSUME NEW h, Len(h) \in Nat, DOMAIN h = 1..Len(h),
           NEW t, IsTree(t, Len(h)), NEW n \in DOMAIN t
    PROVE  PrecommitBlocks(h, t, n) \in Seq({b \in DOMAIN h : h[b].state = "Precommit"})
<1> DEFINE T == {b \in DOMAIN h : h[b].state = "Precommit"}
<1>1. PICK q : UpToCommitted(h, t, n, q) /\ PrecommitBlocks(h, t, n) = Keep(q, T)
  BY PrecommitPath
<1>2. q \in Seq(DOMAIN h) /\ DOMAIN h \cap T = T
  BY <1>1 DEF UpToCommitted
<1>3. Keep(q, T) \in Seq(DOMAIN h \cap T)
  BY <1>2, KeepType
<1> QED BY <1>1, <1>2, <1>3

\* For every tree whose blocks climb, the evidence of a branch is the precommit
\* blocks between the block it starts at and the nearest committed block, newest
\* first, whatever the states of the blocks and the order they came in.
LEMMA EvidenceIsFound ==
    ASSUME NEW h, Len(h) \in Nat, DOMAIN h = 1..Len(h),
           NEW t, IsTree(t, Len(h)), Climbs(h, t), NEW n \in DOMAIN t
    PROVE  IsEvidence(h, t, n, PrecommitBlocks(h, t, n))
<1> DEFINE T == {b \in DOMAIN h : h[b].state = "Precommit"}
           nodes == PathToRoot(t, n)
           len == Len(nodes)
           line == Ancestors(t, n) \cup {n}
           R == {x \in (DOMAIN h) \X (DOMAIN h) : h[x[1]].slot > h[x[2]].slot}
           list == PrecommitBlocks(h, t, n)
           W == {k \in line : /\ h[t[k].data].state = "Precommit"
                              /\ \A a \in line : k \in Ancestors(t, a) =>
                                                    h[t[a].data].state # "Committed"}
<1>1. PICK q : UpToCommitted(h, t, n, q) /\ list = Keep(q, T)
  BY PrecommitPath
<1>2. len \in Nat /\ DOMAIN nodes = 1..len /\ \A i \in 1..len : nodes[i] \in DOMAIN t
  <2>1. nodes \in Seq(DOMAIN t)
    BY PathSteps
  <2> HIDE DEF nodes
  <2> QED BY <2>1
<1>3. line = {nodes[i] : i \in 1..len}
  <2>1. n \in Up(t, n)
    BY UpSteps
  <2>2. line = Up(t, n)
    BY <2>1 DEF Ancestors, Up
  <2> QED BY <1>2, <2>2 DEF Up, Range
<1>4. \A i, j \in 1..len : nodes[j] \in Ancestors(t, nodes[i]) <=> i < j
  <2> SUFFICES ASSUME NEW i \in 1..len, NEW j \in 1..len
               PROVE  nodes[j] \in Ancestors(t, nodes[i]) <=> i < j
    OBVIOUS
  <2>1. \A a, b \in DOMAIN nodes : (a <= b => nodes[b] \in Up(t, nodes[a])) /\ (a < b => nodes[b] < nodes[a])
    BY PathOrder
  <2>2. nodes[i] \in Nat /\ nodes[j] \in Nat
    BY SMTT(20), <1>2, TreeNodes
  <2>3. \A m \in Up(t, nodes[i]) : m <= nodes[i]
    BY <1>2, UpOlder
  <2>4. nodes[j] \in Ancestors(t, nodes[i]) <=> nodes[j] \in Up(t, nodes[i]) /\ nodes[j] # nodes[i]
    BY DEF Ancestors, Up
  <2> HIDE DEF nodes, len
  <2>5. ASSUME i < j PROVE nodes[j] \in Up(t, nodes[i]) /\ nodes[j] # nodes[i]
    BY <1>2, <2>1, <2>2, <2>5
  <2>6. ASSUME nodes[j] \in Up(t, nodes[i]), nodes[j] # nodes[i] PROVE i < j
    <3>1. i # j /\ nodes[j] <= nodes[i]
      BY <2>3, <2>6
    <3>2. ~(j < i)
      BY <1>2, <2>1, <2>2, <3>1
    <3> QED BY <1>2, <3>1, <3>2
  <2> QED BY <2>4, <2>5, <2>6
<1>5. /\ q \in Seq(DOMAIN h) /\ Len(q) <= len
      /\ \A i \in DOMAIN q : q[i] = t[nodes[i]].data /\ h[q[i]].state # "Committed"
      /\ Len(q) < len => h[t[nodes[Len(q) + 1]].data].state = "Committed"
  BY <1>1 DEF UpToCommitted
<1>6. Len(q) \in Nat /\ DOMAIN q = 1..Len(q) /\ \A i \in DOMAIN q : q[i] \in DOMAIN h /\ i \in 1..len
  <2> HIDE DEF len
  <2> QED BY SMTT(20), <1>2, <1>5
<1> HIDE DEF len
<1>7. \A i, j \in DOMAIN q : i < j => <<q[i], q[j]>> \in R
  <2> SUFFICES ASSUME NEW i \in DOMAIN q, NEW j \in DOMAIN q, i < j
               PROVE  h[q[i]].slot > h[q[j]].slot
    <3>1. \A x, y \in DOMAIN h : h[x].slot > h[y].slot => <<x, y>> \in R
      OBVIOUS
    <3> HIDE DEF R
    <3> QED BY <1>6, <3>1
  <2>1. nodes[j] \in Up(t, nodes[i]) /\ nodes[j] # nodes[i]
    BY <1>4, <1>6 DEF Ancestors, Up
  <2>2. SlotAt(h, t, nodes[j]) < SlotAt(h, t, nodes[i])
    BY <1>2, <1>6, <2>1, UpClimbs
  <2>3. SlotAt(h, t, nodes[j]) = h[q[j]].slot /\ SlotAt(h, t, nodes[i]) = h[q[i]].slot
    BY <1>5 DEF SlotAt
  <2>4. h[q[j]].slot < h[q[i]].slot
    BY <2>2, <2>3
  <2> QED BY <2>4
<1> HIDE DEF nodes, line, list, R, T
<1>8. Selects(list, DOMAIN h, q, T, R)
  BY <1>1, <1>5, <1>7, KeepProperties
<1>9. \A i, j \in DOMAIN list : i < j => h[list[i]].slot > h[list[j]].slot
  <2> SUFFICES ASSUME NEW i \in DOMAIN list, NEW j \in DOMAIN list, i < j
               PROVE  h[list[i]].slot > h[list[j]].slot
    OBVIOUS
  <2>1. <<list[i], list[j]>> \in R
    BY <1>8 DEF Selects
  <2> QED BY <2>1 DEF R
<1>10. ASSUME NEW b \in Range(list) PROVE \E m \in W : b = t[m].data
  <2>1. b \in T /\ \E i \in DOMAIN q : b = q[i]
    BY <1>8 DEF Selects, Range
  <2>2. PICK i \in DOMAIN q : b = q[i]
    BY <2>1
  <2>3. i \in 1..len /\ b = t[nodes[i]].data /\ h[t[nodes[i]].data].state = "Precommit"
    BY <1>5, <1>6, <2>1, <2>2 DEF T
  <2>4. ASSUME NEW a \in line, nodes[i] \in Ancestors(t, a) PROVE h[t[a].data].state # "Committed"
    <3>1. PICK l \in 1..len : a = nodes[l]
      BY <1>3
    <3>2. l < i
      BY <1>4, <2>3, <2>4, <3>1
    <3>3. l \in DOMAIN q
      BY <1>2, <1>6, <3>2
    <3> QED BY <1>5, <3>1, <3>3
  <2>5. nodes[i] \in line
    BY <1>3, <2>3
  <2>6. nodes[i] \in W
    BY <2>3, <2>4, <2>5
  <2> QED BY <2>3, <2>6
<1>11. ASSUME NEW m \in W PROVE t[m].data \in Range(list)
  <2>1. /\ m \in line /\ h[t[m].data].state = "Precommit"
        /\ \A a \in line : m \in Ancestors(t, a) => h[t[a].data].state # "Committed"
    BY <1>11
  <2>2. PICK i \in 1..len : m = nodes[i]
    BY <1>3, <2>1
  <2>3. i <= Len(q)
    <3> SUFFICES ASSUME ~(i <= Len(q)) PROVE FALSE
      OBVIOUS
    <3>1. Len(q) + 1 \in 1..len /\ Len(q) < len /\ (i = Len(q) + 1 \/ Len(q) + 1 < i)
      BY <1>2, <1>6
    <3>2. h[t[nodes[Len(q) + 1]].data].state = "Committed"
      BY <1>5, <3>1
    <3>3. i # Len(q) + 1
      <4>1. "Committed" # "Precommit"
        OBVIOUS
      <4> QED BY <2>1, <2>2, <3>2, <4>1
    <3>4. m \in Ancestors(t, nodes[Len(q) + 1])
      BY <1>4, <2>2, <3>1, <3>3
    <3>5. nodes[Len(q) + 1] \in line
      BY <1>3, <3>1
    <3> QED BY <2>1, <3>2, <3>4, <3>5
  <2>4. i \in DOMAIN q
    BY SMTT(20), <1>2, <1>6, <2>3
  <2>5. q[i] = t[m].data /\ q[i] \in T
    <3>1. q[i] = t[m].data /\ q[i] \in DOMAIN h
      BY <1>5, <1>6, <2>2, <2>4
    <3> QED BY <2>1, <3>1 DEF T
  <2> QED BY SMTT(20), <1>8, <2>4, <2>5 DEF Selects, Range
<1>12. Range(list) = {t[m].data : m \in W}
  <2> HIDE DEF W
  <2> QED BY <1>10, <1>11
<1> QED BY <1>9, <1>12 DEF IsEvidence, line, list

-----------------------------------------------------------------------------
(* Blocks that only change their state *)

\* x and y have the same place in a tree.
SamePlace(x, y) == x.hash = y.hash /\ x.slot = y.slot /\ x.parent = y.parent

\* A tree that grows from the genesis block.
Rooted(h, t) == WellShaped(h, t) /\ h[t[1].data].slot = 0

\* A tree stays as it is while its blocks change state and gain quorums.
LEMMA SameRooted ==
    ASSUME NEW t, NEW k, IsTree(t, k), NEW h, NEW h2, \A o \in 1..k : SamePlace(h2[o], h[o]),
           Rooted(h, t)
    PROVE  Rooted(h2, t) /\ (Climbs(h, t) => Climbs(h2, t))
<1>1. /\ \A n \in DOMAIN t : t[n].data \in 1..k
      /\ \A n \in DOMAIN t \ {1} : t[n].parent \in DOMAIN t
      /\ 1 \in DOMAIN t
  BY SMTT(20), TreeNodes
<1>2. \A n \in DOMAIN t : /\ h2[t[n].data].hash = h[t[n].data].hash
                         /\ h2[t[n].data].slot = h[t[n].data].slot
                         /\ h2[t[n].data].parent = h[t[n].data].parent
  BY <1>1 DEF SamePlace
<1>3. /\ \A m, n \in DOMAIN t : h[t[m].data].hash = h[t[n].data].hash => m = n
      /\ \A n \in DOMAIN t \ {1} : h[t[t[n].parent].data].hash = h[t[n].data].parent
      /\ h[t[1].data].slot = 0
  BY DEF Rooted, WellShaped
<1>4. \A m, n \in DOMAIN t : h2[t[m].data].hash = h2[t[n].data].hash => m = n
  BY <1>2, <1>3
<1>5. \A n \in DOMAIN t \ {1} : h2[t[t[n].parent].data].hash = h2[t[n].data].parent
  BY <1>1, <1>2, <1>3
<1>6. h2[t[1].data].slot = 0
  BY <1>1, <1>2, <1>3
<1>7. Rooted(h2, t)
  BY <1>4, <1>5, <1>6 DEF Rooted, WellShaped
<1>8. ASSUME Climbs(h, t) PROVE Climbs(h2, t)
  <2>1. \A n \in DOMAIN t : t[n].parent # 0 => t[n].parent \in DOMAIN t
    BY TreeNodes
  <2> QED BY <1>2, <1>8, <2>1 DEF Climbs, SlotAt
<1> QED BY <1>7, <1>8

-----------------------------------------------------------------------------
(* The trees of MCBlockTree *)

TreeBlocks ==
    [hash : Hashes \cup {0}, slot : Nat, parent : Hashes \cup {0}, state : BlockStates]

\* The tree of MCBlockTree is one over its heap, and blocks are of later slots
\* than the blocks they hang below.
TreeInv ==
    /\ heap \in Seq(TreeBlocks)
    /\ IsTree(tree, Len(heap)) /\ Rooted(heap, tree) /\ Climbs(heap, tree)

\* Neither AddBlocks nor UpdateBlockState changes that.
LEMMA AlwaysTree == TreeSpec => []TreeInv
<1>1. TreeInit => TreeInv
  <2> SUFFICES ASSUME TreeInit PROVE TreeInv
    OBVIOUS
  <2>1. heap = <<Genesis>> /\ tree = <<[data |-> 1, parent |-> 0]>>
    BY DEF TreeInit, NewBlockTree
  <2>2. Genesis \in TreeBlocks /\ Genesis.slot = 0
    BY DEF Genesis, TreeBlocks, BlockStates
  <2> DEFINE g == Genesis
  <2> HIDE DEF g
  <2>3. <<g>> \in Seq(TreeBlocks) /\ Len(<<g>>) = 1
    BY <2>2 DEF g
  <2>4. IsTree(tree, 1)
    BY <2>1 DEF IsTree
  <2>5. Rooted(heap, tree) /\ Climbs(heap, tree)
    BY <2>1, <2>2 DEF Rooted, WellShaped, Climbs, SlotAt
  <2> QED BY <2>1, <2>3, <2>4, <2>5 DEF TreeInv, g
<1>2. TreeInv /\ [TreeNext]_treeVars => TreeInv'
  <2> SUFFICES ASSUME TreeInv, [TreeNext]_treeVars PROVE TreeInv'
    OBVIOUS
  <2> DEFINE k == Len(heap)
  <2>1. /\ heap \in Seq(TreeBlocks) /\ k \in Nat /\ DOMAIN heap = 1..k
        /\ IsTree(tree, k) /\ Rooted(heap, tree) /\ Climbs(heap, tree)
    BY DEF TreeInv
  <2>2. \A n \in DOMAIN tree : tree[n].data \in 1..k
    BY <2>1, TreeNodes
  <2>3. ASSUME NEW hash \in Hashes, NEW parent \in Hashes \cup {0}, NEW slot \in 1..MaxTime,
               AddProposal(hash, slot, parent)
        PROVE  TreeInv'
    <3> DEFINE x == [hash |-> hash, slot |-> slot, parent |-> parent, state |-> "Proposal"]
               h == Append(heap, x)
    <3>1. heap' = h /\ tree' = AddBlocks(h, tree, Len(h))
      BY <2>3 DEF AddProposal
    <3>2. \A i \in DOMAIN heap : heap[i].hash = parent => heap[i].slot < slot
      BY <2>3 DEF AddProposal
    <3>3. x \in TreeBlocks /\ x.parent = parent /\ x.slot = slot /\ slot \in Nat
      BY TreeAssumption DEF TreeBlocks, BlockStates
    <3> HIDE DEF x
    <3>4. /\ h \in Seq(TreeBlocks) /\ Len(h) = k + 1 /\ h[k + 1] = x
          /\ \A i \in DOMAIN heap : h[i] = heap[i]
      <4>1. heap \in Seq(TreeBlocks) /\ x \in TreeBlocks
        BY <2>1, <3>3
      <4> QED BY SMTT(20), <4>1, Appended
    <3> HIDE DEF h, k
    <3>5. \A o \in 1..k : SamePlace(h[o], heap[o])
      BY <2>1, <3>4 DEF SamePlace
    <3>6. Rooted(h, tree) /\ Climbs(h, tree)
      BY <2>1, <3>5, SameRooted
    <3>7. IsTree(AddBlocks(h, tree, k + 1), k + 1)
      <4>1. k + 1 \in 1..(k + 1)
        BY <2>1
      <4> QED BY <2>1, <4>1, AddBlocksType
    <3>8. Rooted(h, AddBlocks(h, tree, k + 1))
      BY <2>1, <3>6, AddBlocksShape DEF Rooted
    <3>9. Climbs(h, AddBlocks(h, tree, k + 1))
      <4>1. h[k + 1].slot \in Nat /\ h[k + 1].slot = slot /\ h[k + 1].parent = parent
        BY <3>3, <3>4
      <4>2. \A m \in DOMAIN tree : h[tree[m].data].hash = h[k + 1].parent =>
                                       h[tree[m].data].slot < h[k + 1].slot
        BY <2>1, <2>2, <3>2, <3>4, <4>1
      <4> QED BY <2>1, <3>6, <4>1, <4>2, AddBlocksClimbs
    <3> QED BY <3>1, <3>4, <3>7, <3>8, <3>9 DEF TreeInv
  <2>4. ASSUME NEW n \in Nodes, NEW s \in BlockStates, UpdateBlockState(n, s)
        PROVE  TreeInv'
    <3> DEFINE o == tree[n].data
               h == [heap EXCEPT ![o].state = s]
    <3>1. heap' = h /\ tree' = tree
      BY <2>4 DEF UpdateBlockState
    <3>2. o \in 1..k
      BY <2>2 DEF Nodes
    <3>3. ASSUME NEW i \in 1..k PROVE h[i] \in TreeBlocks /\ SamePlace(h[i], heap[i])
      <4>1. heap[i] \in TreeBlocks
        BY <2>1
      <4>2. h[i] = heap[i] \/ h[i] = [heap[i] EXCEPT !.state = s]
        BY <2>1
      <4> HIDE DEF h
      <4> QED BY <4>1, <4>2 DEF TreeBlocks, SamePlace
    <3>4. h \in Seq(TreeBlocks) /\ Len(h) = k
      <4>1. DOMAIN h = 1..k
        BY <2>1
      <4>2. h \in [1..k -> TreeBlocks]
        <5>1. h = [i \in 1..k |-> h[i]]
          BY <2>1
        <5> HIDE DEF h
        <5> QED BY <3>3, <5>1
      <4> HIDE DEF h
      <4> QED BY <2>1, <4>2, FunctionSeq
    <3> HIDE DEF h, k
    <3>5. Rooted(h, tree) /\ Climbs(h, tree)
      BY <2>1, <3>3, SameRooted
    <3> QED BY <2>1, <3>1, <3>4, <3>5 DEF TreeInv
  <2>5. CASE UNCHANGED treeVars
    BY <2>5 DEF treeVars, TreeInv
  <2> QED BY <2>3, <2>4, <2>5 DEF TreeNext
<1> QED BY <1>1, <1>2, PTL DEF TreeSpec

\* However blocks are refused, repeated or come out of order, AddBlocks has no
\* hash in the tree twice and every block below the block it follows.
THEOREM ShapedTrees == TreeSpec => []TreeShape
<1>1. TreeInv => TreeShape
  BY DEF TreeInv, Rooted, TreeShape
<1> QED BY <1>1, AlwaysTree, PTL

\* In every tree, with every assignment of states to its blocks, GetLatestBlock
\* finds a newest block below a newest precommit block.
THEOREM LatestFound == TreeSpec => []LatestIsNewestBelowPrecommit
<1>1. TreeInv => LatestIsNewestBelowPrecommit
  BY LatestIsFound DEF TreeInv, LatestIsNewestBelowPrecommit
<1> QED BY <1>1, AlwaysTree, PTL

\* In every tree, with every assignment of states to its blocks, GetBlockByFilter
\* finds the evidence of a branch from any of its blocks.
THEOREM EvidenceFound == TreeSpec => []EvidencePath
<1>1. ASSUME TreeInv PROVE EvidencePath
  <2>1. Len(heap) \in Nat /\ DOMAIN heap = 1..Len(heap)
    BY <1>1 DEF TreeInv
  <2> QED BY <1>1, <2>1, EvidenceIsFound DEF TreeInv, EvidencePath, Nodes
<1> QED BY <1>1, AlwaysTree, PTL

-----------------------------------------------------------------------------
(* The data of a node *)

VoteTypes == {"Support", "Against"}
Votes == [Slots -> [Vals -> VoteTypes \cup {"None"}]]

\* At most one vote of each validator in each slot.
VoteLists == {<<>>} \cup {<<t>> : t \in VoteTypes}
VoteSets == [Slots -> [Vals -> VoteLists]]

Fields == {"prop", "future", "votes", "signed", "heap", "tree", "uncommit", "last", "log"}

\* n comes from nd by a handler that takes in no vote and signs none.
Keeps(n, nd) ==
    /\ DOMAIN n = Fields
    /\ n.votes = nd.votes
    /\ n.signed = nd.signed

\* n comes from nd by a handler that takes in no vote and may sign some.
Signs(n, nd) ==
    /\ DOMAIN n = Fields
    /\ n.votes = nd.votes
    /\ \A x \in n.signed : x \in nd.signed \/ x.type \in VoteTypes

-----------------------------------------------------------------------------
(* What the handlers do to the votes *)

\* TriggleFutureProposal and HandleProposal, by defaultSetProposal, sign votes
\* and take in none.
LEMMA SetProposalSigns ==
    ASSUME NEW nd, DOMAIN nd = Fields, NEW slot, NEW b
    PROVE  Signs(SetProposal(nd, slot, b), nd)
<1>1. Keeps(UpdateState(nd, b), nd)
  BY DEF Keeps, UpdateState, Fields
<1> DEFINE n == [UpdateState(nd, b) EXCEPT !.prop = b]
<1>2. Keeps(n, nd)
  BY <1>1 DEF Keeps, Fields
<1>3. ASSUME NEW type \in VoteTypes
      PROVE  Signs(SignVote(n, slot, type), nd)
  <2> HIDE DEF n
  <2> QED BY SMTT(20), <1>2, <1>3 DEF Keeps, Signs, SignVote, Fields
<1>4. Signs(AcceptProposal(nd, slot, b), nd)
  <2>1. AcceptProposal(nd, slot, b) = SignVote(n, slot, IF IsMatch(n, b) THEN "Support" ELSE "Against")
    BY DEF AcceptProposal
  <2> HIDE DEF n
  <2> QED BY <2>1, <1>3 DEF VoteTypes
<1>5. Signs(TryAddFutureProposal(nd, b), nd)
  BY DEF Signs, TryAddFutureProposal, Fields
<1>6. Signs(nd, nd)
  BY DEF Signs
<1> QED BY <1>4, <1>5, <1>6 DEF SetProposal

\* handleMsg of a proposal takes in no vote.
LEMMA HandleProposalSigns ==
    ASSUME NEW nd, DOMAIN nd = Fields, NEW slot, NEW b
    PROVE  Signs(HandleProposal(nd, slot, b), nd)
<1>1. Signs(nd, nd)
  BY DEF Signs
<1> QED BY <1>1, SetProposalSigns DEF HandleProposal

\* ApplyBlock, by AddBlocks and Commit, leaves the votes alone.
LEMMA ApplyBlockKeeps ==
    ASSUME NEW nd, DOMAIN nd = Fields, NEW o
    PROVE  Keeps(ApplyBlock(nd, o), nd)
<1> DEFINE n1 == [nd EXCEPT !.tree = AddBlocks(nd.heap, @, o)]
           n2 == [n1 EXCEPT !.uncommit = Append(@, o)]
<1>1. Keeps(n1, nd)
  BY DEF Keeps, Fields
<1>2. Keeps(n2, nd)
  BY <1>1 DEF Keeps, Fields
<1>3. ASSUME NEW blks
      PROVE  Keeps(Commit(n2, blks), nd)
  <2> HIDE DEF n2
  <2> QED BY <1>2 DEF Keeps, Commit, Fields
<1>4. ApplyBlock(nd, o) = IF ValidteBasic(nd.heap[o])
                          THEN Commit(n2, DecideCommitBlocks(n2)) ELSE n1
  BY DEF ApplyBlock
<1> HIDE DEF n1, n2
<1> QED BY <1>1, <1>3, <1>4

\* enterApply counts votes and may sign one for a cached proposal, but takes in
\* none.
LEMMA EnterApplySigns ==
    ASSUME NEW nd, DOMAIN nd = Fields, NEW slot, NEW last
    PROVE  Signs(EnterApply(nd, slot, last), nd)
<1> DEFINE f == TriggleFutureProposal(nd, slot)
           q == IF \A v \in Vals : f.votes[last][v] = <<>> THEN NoQuorum
                ELSE TryGenQuorum(f, last)
           n == [f EXCEPT !.heap = Append(@, BlockObject(f.prop, QuorumState(q), q))]
           e == UpdateEvidences(n, Len(n.heap))
           a == ApplyBlock(e, Len(n.heap))
<1>1. Signs(nd, nd)
  BY DEF Signs
<1>2. Signs(f, nd)
  BY <1>1, SetProposalSigns DEF TriggleFutureProposal
<1>3. ApplyProposal(f, last) = a
  BY DEF ApplyProposal
<1> HIDE DEF f
<1>4. Keeps(n, f)
  <2> HIDE DEF q
  <2> QED BY <1>2 DEF Keeps, Signs, Fields
<1> HIDE DEF n
<1>5. Keeps(e, n)
  BY <1>4 DEF Keeps, UpdateEvidences, Fields
<1> HIDE DEF e
<1>6. Keeps(a, e)
  BY <1>5, ApplyBlockKeeps DEF Keeps
<1>7. Signs(a, nd)
  <2> HIDE DEF a
  <2> QED BY <1>2, <1>4, <1>5, <1>6 DEF Keeps, Signs
<1> DEFINE r == IF HasProposal(nd) THEN ApplyProposal(f, last) ELSE nd
<1>8. Signs(r, nd)
  BY <1>1, <1>3, <1>7
<1>9. EnterApply(nd, slot, last) = [r EXCEPT !.prop = NoBlock]
  BY DEF EnterApply, f
<1> HIDE DEF r
<1> QED BY <1>8, <1>9 DEF Signs, Fields

\* n is nd with the vote of v in slot s, when it was missing.
VoteAdded(n, nd, s, v, type) ==
    /\ DOMAIN n = Fields
    /\ n.signed = nd.signed
    /\ n.votes \in VoteSets
    /\ nd.votes[s][v] # <<>> => n = nd
    /\ nd.votes[s][v] = <<>> =>
          /\ n # nd
          /\ n.votes[s][v] = <<type>>
          /\ \A t \in Slots, u \in Vals :
                <<t, u>> # <<s, v>> => n.votes[t][u] = nd.votes[t][u]

\* TryAddVote fills in one vote that was missing, or nothing.
LEMMA AddVoteOnce ==
    ASSUME NEW nd, DOMAIN nd = Fields, nd.votes \in VoteSets,
           NEW s \in Slots, NEW v \in Vals, NEW type \in VoteTypes
    PROVE  VoteAdded(AddVote(nd, s, v, type), nd, s, v, type)
<1>1. CASE nd.votes[s][v] # <<>>
  BY <1>1 DEF AddVote, VoteAdded
<1>2. CASE nd.votes[s][v] = <<>>
  <2> DEFINE n == AddVote(nd, s, v, type)
             new == [nd.votes EXCEPT ![s][v] = <<type>>]
  <2>0. [nd.votes EXCEPT ![s][v] = Append(@, type)] = new
    <3>1. Append(<<>>, type) = <<type>>
      BY SMTT(20)
    <3> QED BY <1>2, <3>1
  <2>1. /\ DOMAIN n = Fields
        /\ n.signed = nd.signed
        /\ n.votes = new
    BY <1>2, <2>0 DEF AddVote, Fields
  <2>2. /\ new \in VoteSets
        /\ new[s][v] = <<type>>
        /\ \A t \in Slots, u \in Vals :
              <<t, u>> # <<s, v>> => new[t][u] = nd.votes[t][u]
    BY DEF VoteSets, VoteLists
  <2>3. n # nd
    <3>1. <<type>> # <<>>
      BY SMTT(20)
    <3> QED BY <1>2, <2>1, <2>2, <3>1
  <2> HIDE DEF n, new
  <2>4. QED
    BY <1>2, <2>1, <2>2, <2>3 DEF n, VoteAdded
<1> QED BY <1>1, <1>2

\* The votes of a type in a slot are finitely many and of different validators.
LEMMA VotesRecover ==
    ASSUME NEW nd, nd.votes \in VoteSets, NEW s \in Slots, NEW type
    PROVE  /\ IsFiniteSet(VotesOf(nd, s, type))
           /\ Recovers(VotesOf(nd, s, type))
<1> DEFINE had == VotesOf(nd, s, type)
           voter == [x \in had |-> x[1]]
<1>1. \A x \in had : x[1] \in Vals /\ x = <<x[1], 1>>
  <2> SUFFICES ASSUME NEW v \in Vals, NEW i \in DOMAIN nd.votes[s][v]
               PROVE  i = 1
    BY SMTT(20) DEF VotesOf
  <2>1. nd.votes[s][v] \in VoteLists
    BY DEF VoteSets
  <2> QED BY SMTT(20), <2>1 DEF VoteLists
<1>2. Recovers(had)
  BY <1>1 DEF Recovers
<1>3. IsFiniteSet(Vals)
  BY SMTT(20), StateAssumption, FS_Interval DEF Vals
<1>4. voter \in Injection(had, Vals)
  BY <1>1 DEF Injection, IsInjective
<1> HIDE DEF had, voter
<1>5. IsFiniteSet(had)
  BY <1>3, <1>4, FS_Injection
<1> QED BY <1>2, <1>5 DEF had

\* More votes of a slot leave a quorum of it in place.
LEMMA QuorumGrows ==
    ASSUME NEW n, n.votes \in VoteSets, NEW nd, nd.votes \in VoteSets, NEW s \in Slots,
           \A v \in Vals : nd.votes[s][v] # <<>> => n.votes[s][v] = nd.votes[s][v],
           TryGenQuorum(nd, s).type # "Empty"
    PROVE  TryGenQuorum(n, s).type \in {TryGenQuorum(nd, s).type, "Support"}
<1> DEFINE q == TryGenQuorum(nd, s).type
           had(type) == Cardinality(VotesOf(nd, s, type))
           has(type) == Cardinality(VotesOf(n, s, type))
<1>1. ASSUME NEW type PROVE had(type) \in Nat /\ has(type) \in Nat /\ had(type) <= has(type)
  <2>1. VotesOf(nd, s, type) \subseteq VotesOf(n, s, type)
    <3>1. ASSUME NEW v \in Vals, NEW i \in DOMAIN nd.votes[s][v]
          PROVE  n.votes[s][v] = nd.votes[s][v]
      <4>1. nd.votes[s][v] # <<>>
        BY SMTT(20), <3>1
      <4> QED BY <4>1
    <3> QED BY SMTT(20), <3>1 DEF VotesOf
  <2>2. IsFiniteSet(VotesOf(nd, s, type)) /\ IsFiniteSet(VotesOf(n, s, type))
    BY VotesRecover
  <2> QED BY <2>1, <2>2, FS_Subset, FS_CardinalityType
<1>2. q = IF had("Support") >= Threshold THEN "Support"
          ELSE IF had("Against") >= Threshold THEN "Against" ELSE "Empty"
  BY VotesRecover DEF TryGenQuorum
<1>3. TryGenQuorum(n, s).type = IF has("Support") >= Threshold THEN "Support"
                                ELSE IF has("Against") >= Threshold THEN "Against" ELSE "Empty"
  BY VotesRecover DEF TryGenQuorum
<1>4. Threshold \in Nat
  BY SMTT(20), StateAssumption
<1> HIDE DEF q, had, has
<1>5. had("Support") <= has("Support") /\ had("Against") <= has("Against")
      /\ had("Support") \in Nat /\ has("Support") \in Nat
      /\ had("Against") \in Nat /\ has("Against") \in Nat
  BY <1>1
<1> QED BY SMTT(20), <1>2, <1>3, <1>4, <1>5 DEF q

-----------------------------------------------------------------------------
(* Blocks and their quorums *)

States == {"Suspect", "Precommit", "Error", "Committed"}

\* In all that follows sup is the set of the slots whose blocks a quorum of the
\* validators has supported.
Evidence(sup) == [hash : sup, type : {"Support"}]
Quorums(sup) == {q \in [hash : Slots, type : {"Support", "Against", "Empty"}] :
                    q.type = "Support" => q.hash \in sup}

\* The blocks of slots in kn: a block follows an earlier one, and its evidence is
\* about earlier ones.
Blocks(sup, kn) ==
    {b \in [slot : kn, parent : Slots, evid : Seq(Evidence(sup))] :
        /\ b.slot # 0 => b.parent < b.slot
        /\ \A i \in DOMAIN b.evid : b.evid[i].hash < b.slot}

\* The block objects of a node that has reached slot cur.
ObjectRecord(sup, kn) ==
    [hash : Slots, slot : kn, parent : Slots, evid : Seq(Evidence(sup)), state : States,
     vq : Quorums(sup), commit : [quorum : Quorums(sup), witness : Nat]]

Objects(sup, kn, cur) ==
    {x \in ObjectRecord(sup, kn) :
        /\ x.hash = x.slot
        /\ x.slot <= cur
        /\ x.slot # 0 => x.parent < x.slot
        /\ \A i \in DOMAIN x.evid : x.evid[i].hash < x.slot
        /\ x.state = "Precommit" => x.vq.type = "Support"
        /\ x.vq.type = "Support" => x.vq.hash < cur}

SameBlock(x, y) ==
    x.hash = y.hash /\ x.slot = y.slot /\ x.parent = y.parent /\ x.evid = y.evid

Open == {"Suspect", "Precommit"}

\* h2 comes from h by blocks that become precommit blocks, for a good reason.
Revised(h2, h, sup) ==
    /\ Len(h2) = Len(h)
    /\ \A o \in DOMAIN h :
          /\ SameBlock(h2[o], h[o])
          /\ \/ h2[o].state = h[o].state
             \/ h[o].state \in Open /\ h2[o].state = "Precommit" /\ h[o].slot \in sup

\* Slots are numbers.
LEMMA SlotNumbers == \A s \in Slots : s \in Nat /\ s \in Int /\ s <= MaxSlot
  BY StateAssumption DEF Slots

\* A block object with the quorum that evidence about it gives it.
Precommitted(x, e) == [x EXCEPT !.vq = e, !.state = "Precommit"]

\* It is a block object again.
LEMMA ReviseObject ==
    ASSUME NEW sup \in SUBSET Slots, NEW kn, NEW cur, NEW x \in Objects(sup, kn, cur),
           NEW e \in Evidence(sup), e.hash < cur
    PROVE  /\ Precommitted(x, e) \in Objects(sup, kn, cur)
           /\ SameBlock(Precommitted(x, e), x)
           /\ Precommitted(x, e).state = "Precommit"
<1> DEFINE y == Precommitted(x, e)
<1> USE DEF Precommitted
<1>1. e \in Quorums(sup) /\ e.type = "Support"
  BY DEF Evidence, Quorums
<1>2. x \in ObjectRecord(sup, kn)
  BY DEF Objects
<1>3. SameBlock(y, x) /\ y.state = "Precommit" /\ y.vq = e
  BY <1>2 DEF SameBlock, ObjectRecord
<1>4. y \in ObjectRecord(sup, kn)
  BY <1>1, <1>2 DEF States, ObjectRecord
<1> HIDE DEF y
<1>5. y \in Objects(sup, kn, cur)
  BY <1>1, <1>2, <1>3, <1>4 DEF Objects, ObjectRecord, SameBlock
<1> QED BY <1>3, <1>5 DEF y

\* UpdateState makes precommit blocks of uncommitted blocks.
LEMMA UpdateStateHeap ==
    ASSUME NEW sup \in SUBSET Slots, NEW kn \in SUBSET Slots, NEW cur \in Int, NEW nd, DOMAIN nd = Fields,
           nd.heap \in Seq(Objects(sup, kn, cur)), nd.uncommit \in Seq(DOMAIN nd.heap),
           \A i \in DOMAIN nd.uncommit : nd.heap[nd.uncommit[i]].state \in Open,
           NEW b \in Blocks(sup, kn), b.slot <= cur
    PROVE  LET h == UpdateState(nd, b).heap
           IN h \in Seq(Objects(sup, kn, cur)) /\ Revised(h, nd.heap, sup)
<1> DEFINE base == nd.heap
           q == b.evid
           n == Len(q)
           A == {h \in Seq(Objects(sup, kn, cur)) : Revised(h, base, sup)}
           find(h, e) == QueryBlockByHash(h, nd.uncommit, e.hash)
           op(h, e) == IF find(h, e) = 0 \/ h[find(h, e)].state = "Committed" THEN h
                       ELSE [h EXCEPT ![find(h, e)].vq = e,
                                      ![find(h, e)].state = IF e.type = "Empty" THEN @
                                                            ELSE QuorumState(e)]
           G == [p \in (1..n) \X A |-> op(p[2], q[p[1]])]
           Eq(f) == f = [j \in 0..n |-> IF j = 0 THEN base ELSE op(f[j - 1], q[j])]
           g == CHOOSE f : Eq(f)
<1>1. UpdateState(nd, b).heap = g[n]
  BY DEF UpdateState, Fields
<1>2. n \in Nat /\ DOMAIN q = 1..n
      /\ \A j \in 1..n : q[j] \in Evidence(sup) /\ q[j].hash < cur
  <2>1. q \in Seq(Evidence(sup)) /\ b.slot \in Int /\ \A j \in DOMAIN q : q[j].hash < b.slot
    BY SlotNumbers DEF Blocks
  <2>2. \A e \in Evidence(sup) : e.hash \in Int
    BY SlotNumbers DEF Evidence
  <2> HIDE DEF q
  <2> QED BY <2>1, <2>2
<1>3. base \in A
  BY DEF Revised, SameBlock
<1>4. ASSUME NEW h \in A, NEW e \in Evidence(sup), e.hash < cur PROVE op(h, e) \in A
  <2> DEFINE o == find(h, e)
             y == Precommitted(h[o], e)
  <2>1. h \in Seq(Objects(sup, kn, cur)) /\ Revised(h, base, sup)
    OBVIOUS
  <2>2. o = 0 \/ (/\ o \in DOMAIN base /\ h[o].hash = e.hash
                  /\ \E i \in DOMAIN nd.uncommit : o = nd.uncommit[i])
    BY SMTT(20), QueryBlock
  <2>3. CASE op(h, e) = h
    BY <2>3
  <2>4. CASE op(h, e) # h
    <3>1. /\ o \in DOMAIN base /\ h[o].hash = e.hash /\ base[o].state \in Open
          /\ op(h, e) = [h EXCEPT ![o].vq = e,
                                  ![o].state = IF e.type = "Empty" THEN @ ELSE QuorumState(e)]
      BY <2>2, <2>4
    <3> HIDE DEF op, find, base
    <3>2. o \in DOMAIN h /\ h[o] \in Objects(sup, kn, cur) /\ Len(h) = Len(base)
          /\ DOMAIN h = DOMAIN base
      BY SMTT(20), <2>1, <3>1 DEF Revised, base
    <3>3. e.type = "Support" /\ e.hash \in sup /\ QuorumState(e) = "Precommit"
      BY DEF Evidence, QuorumState
    <3>4. op(h, e) = [h EXCEPT ![o] = y]
      <4> HIDE DEF o
      <4>1. op(h, e) = [h EXCEPT ![o] = [[h[o] EXCEPT !.vq = e] EXCEPT !.state = "Precommit"]]
        BY <3>1, <3>2, <3>3
      <4> QED BY <4>1 DEF Precommitted
    <3>5. y \in Objects(sup, kn, cur) /\ SameBlock(y, h[o]) /\ y.state = "Precommit"
      <4>1. h[o] \in Objects(sup, kn, cur) /\ e \in Evidence(sup) /\ e.hash < cur
        BY <1>4, <3>2
      <4> HIDE DEF o
      <4> QED BY <4>1, ReviseObject
    <3> HIDE DEF o, y
    <3>6. [h EXCEPT ![o] = y] \in Seq(Objects(sup, kn, cur))
      BY SMTT(20), <2>1, <3>2, <3>5
    <3>7. Revised([h EXCEPT ![o] = y], base, sup)
      <4>1. h[o].slot \in sup /\ base[o].slot \in sup
        BY <2>1, <3>1, <3>2, <3>3 DEF Objects, Revised, SameBlock
      <4>2. Len([h EXCEPT ![o] = y]) = Len(base)
        BY <2>1, <3>2
      <4>3. ASSUME NEW w \in DOMAIN base
            PROVE  /\ SameBlock([h EXCEPT ![o] = y][w], base[w])
                   /\ \/ [h EXCEPT ![o] = y][w].state = base[w].state
                      \/ /\ base[w].state \in Open
                         /\ [h EXCEPT ![o] = y][w].state = "Precommit"
                         /\ base[w].slot \in sup
        <5>1. CASE w = o
          <6>1. [h EXCEPT ![o] = y][w] = y
            BY <3>2, <5>1
          <6> QED BY <2>1, <3>1, <3>5, <4>1, <5>1, <6>1 DEF Revised, SameBlock
        <5>2. CASE w # o
          <6>1. [h EXCEPT ![o] = y][w] = h[w]
            BY <3>2, <5>2
          <6> QED BY <2>1, <6>1 DEF Revised
        <5> QED BY <5>1, <5>2
      <4> QED BY <4>2, <4>3 DEF Revised
    <3> QED BY <3>4, <3>6, <3>7
  <2> QED BY <2>3, <2>4
<1> HIDE DEF base, q, n, op
<1>5. G \in [(1..n) \X A -> A] /\ \A j \in 1..n, a \in A : G[<<j, a>>] = op(a, q[j])
  <2> HIDE DEF A
  <2> QED BY <1>2, <1>4
<1> HIDE DEF A, G
<1>6. \E f : Eq(f)
  <2>1. PICK f : Iterates(f, n, A, base, G)
    BY <1>2, <1>3, <1>5, IterationExists
  <2>2. ASSUME NEW j \in 0..n
        PROVE  f[j] = IF j = 0 THEN base ELSE op(f[j - 1], q[j])
    BY <1>5, <2>1 DEF Iterates
  <2>3. f = [j \in 0..n |-> f[j]]
    BY <2>1 DEF Iterates
  <2> QED BY <2>2, <2>3
<1>7. Eq(g)
  BY <1>6
<1> HIDE DEF g
<1>8. Follows(g, n, A, base, G)
  <2>1. g[0] = base
    BY <1>2, <1>7
  <2>2. \A j \in 1..n : g[j] = op(g[j - 1], q[j])
    <3> SUFFICES ASSUME NEW j \in 1..n PROVE g[j] = op(g[j - 1], q[j])
      OBVIOUS
    <3>1. j \in 0..n /\ j # 0
      BY <1>2
    <3> QED BY <1>7, <3>1
  <2> QED BY <1>5, <2>1, <2>2 DEF Follows
<1>9. g[n] \in A
  BY <1>2, <1>3, <1>5, <1>8, IterationType
<1> QED BY <1>1, <1>9 DEF A, base

Older(h, w) == {o \in DOMAIN h : h[o].slot < h[w].slot}

\* The blocks that updateEvidence finds are older than the witness, and there
\* are none when the witness has no evidence.
LEMMA EvidenceType ==
    ASSUME NEW sup \in SUBSET Slots, NEW kn, NEW cur, NEW nd, nd.heap \in Seq(Objects(sup, kn, cur)),
           nd.uncommit \in Seq(DOMAIN nd.heap), NEW w \in DOMAIN nd.heap
    PROVE  /\ EvidenceBlocks(nd, w) \in Seq(Older(nd.heap, w))
           /\ nd.heap[w].evid = <<>> => Range(EvidenceBlocks(nd, w)) = {}
<1> DEFINE h == nd.heap
           q == h[w].evid
           found(e) == IF e.type # "Support" THEN 0 ELSE QueryBlockByHash(h, nd.uncommit, e.hash)
           list == [i \in DOMAIN q |-> found(q[i])]
           T == {o \in DOMAIN h : h[o].state # "Committed"}
           X == {0} \cup Older(h, w)
<1>1. EvidenceBlocks(nd, w) = Keep(list, T)
  BY DEF EvidenceBlocks
<1>2. /\ q \in Seq(Evidence(sup)) /\ Len(q) \in Nat /\ DOMAIN q = 1..Len(q)
      /\ \A i \in DOMAIN q : q[i].hash < h[w].slot
  <2>1. h[w] \in Objects(sup, kn, cur)
    OBVIOUS
  <2> HIDE DEF h
  <2>2. q \in Seq(Evidence(sup)) /\ \A i \in DOMAIN q : q[i].hash < h[w].slot
    BY <2>1 DEF Objects, ObjectRecord
  <2> QED BY <2>2
<1>3. \A o \in DOMAIN h : h[o].hash = h[o].slot
  <2>1. \A x \in Objects(sup, kn, cur) : x.hash = x.slot
    BY DEF Objects
  <2> QED BY SMTT(20), <2>1
<1>4. ASSUME NEW i \in DOMAIN q PROVE found(q[i]) \in X
  <2> DEFINE o == QueryBlockByHash(h, nd.uncommit, q[i].hash)
  <2>1. o = 0 \/ (o \in DOMAIN h /\ h[o].hash = q[i].hash)
    BY SMTT(20), QueryBlock
  <2> HIDE DEF o, h
  <2>2. o \in X
    BY <1>2, <1>3, <2>1 DEF Older
  <2> QED BY <2>2 DEF o
<1> HIDE DEF found, q
<1>5. list \in Seq(X) /\ (q = <<>> => list \in Seq({}))
  BY <1>2, <1>4
<1> HIDE DEF list, X, T
<1>6. Keep(list, T) \in Seq(X \cap T)
  BY <1>5, KeepType
<1>7. \A o \in X \cap T : o \in Older(h, w)
  <2>1. 0 \notin DOMAIN h
    OBVIOUS
  <2> QED BY <2>1 DEF X, T
<1>8. Keep(list, T) \in Seq(Older(h, w))
  BY <1>6, <1>7, SeqMonotone
<1>9. ASSUME q = <<>> PROVE Range(Keep(list, T)) = {}
  <2>1. Keep(list, T) \in Seq({})
    BY <1>5, <1>9, KeepType
  <2> QED BY <2>1 DEF Range
<1> QED BY <1>1, <1>8, <1>9 DEF q

\* h2 comes from h by setting the commit evidence of blocks.
Witnessed(h2, h) ==
    /\ Len(h2) = Len(h)
    /\ \A o \in DOMAIN h : /\ SameBlock(h2[o], h[o])
                           /\ h2[o].state = h[o].state
                           /\ h2[o].vq = h[o].vq

\* updateEvidence(witness) only sets commit evidence.
LEMMA UpdateEvidenceHeap ==
    ASSUME NEW sup \in SUBSET Slots, NEW kn, NEW cur, NEW nd, nd.heap \in Seq(Objects(sup, kn, cur)),
           nd.uncommit \in Seq(DOMAIN nd.heap), NEW w \in DOMAIN nd.heap,
           NEW h \in Seq(Objects(sup, kn, cur)), Witnessed(h, nd.heap)
    PROVE  /\ UpdateEvidence(nd, h, w) \in Seq(Objects(sup, kn, cur))
           /\ Witnessed(UpdateEvidence(nd, h, w), nd.heap)
<1> DEFINE found == Range(EvidenceBlocks(nd, w))
           c == [quorum |-> h[w].evid[Len(h[w].evid)], witness |-> w]
           r == UpdateEvidence(nd, h, w)
<1>1. r = [o \in DOMAIN h |-> IF o \notin found THEN h[o] ELSE [h[o] EXCEPT !.commit = c]]
  BY DEF UpdateEvidence
<1>2. /\ Len(h) \in Nat /\ DOMAIN h = 1..Len(h) /\ DOMAIN h = DOMAIN nd.heap
      /\ Len(h) = Len(nd.heap) /\ w \in Nat
      /\ \A o \in DOMAIN h : h[o] \in Objects(sup, kn, cur)
  BY DEF Witnessed
<1>3. found # {} => c \in [quorum : Quorums(sup), witness : Nat]
  <2> SUFFICES ASSUME found # {} PROVE c \in [quorum : Quorums(sup), witness : Nat]
    OBVIOUS
  <2>1. nd.heap[w].evid # <<>> /\ h[w].evid = nd.heap[w].evid
    BY EvidenceType DEF Witnessed, SameBlock
  <2>2. h[w].evid \in Seq(Evidence(sup))
    BY <1>2 DEF Objects, ObjectRecord
  <2>3. h[w].evid[Len(h[w].evid)] \in Evidence(sup)
    BY <2>1, <2>2
  <2>4. h[w].evid[Len(h[w].evid)] \in Quorums(sup)
    BY <2>3 DEF Evidence, Quorums
  <2> QED BY <1>2, <2>4
<1> HIDE DEF c, r, found
<1>4. ASSUME NEW o \in DOMAIN h
      PROVE  /\ r[o] \in Objects(sup, kn, cur) /\ SameBlock(r[o], h[o])
             /\ r[o].state = h[o].state /\ r[o].vq = h[o].vq
  <2>1. CASE o \notin found
    BY <1>1, <1>2, <2>1 DEF SameBlock
  <2>2. CASE o \in found
    <3> DEFINE x == h[o]
               y == [x EXCEPT !.commit = c]
    <3>1. r[o] = y
      BY <1>1, <2>2
    <3>2. x \in Objects(sup, kn, cur) /\ x \in ObjectRecord(sup, kn)
      BY <1>2 DEF Objects, ObjectRecord
    <3> HIDE DEF x
    <3>3. y \in ObjectRecord(sup, kn)
      BY <1>3, <2>2, <3>2 DEF ObjectRecord
    <3>4. SameBlock(y, x) /\ y.state = x.state /\ y.vq = x.vq
      BY <3>2 DEF SameBlock, ObjectRecord
    <3> HIDE DEF y
    <3>5. y \in Objects(sup, kn, cur)
      BY <3>2, <3>3, <3>4 DEF Objects, ObjectRecord, SameBlock
    <3> QED BY <3>1, <3>4, <3>5 DEF x
  <2> QED BY <2>1, <2>2
<1>5. DOMAIN r = 1..Len(h) /\ r = [o \in 1..Len(h) |-> r[o]]
  BY <1>1, <1>2
<1>6. r \in Seq(Objects(sup, kn, cur)) /\ Len(r) = Len(h)
  <2>1. r \in [1..Len(h) -> Objects(sup, kn, cur)]
    BY <1>2, <1>4, <1>5
  <2> QED BY <1>2, <2>1, FunctionSeq
<1>7. Witnessed(r, nd.heap)
  BY <1>2, <1>4, <1>6 DEF Witnessed, SameBlock
<1> QED BY <1>6, <1>7 DEF r

\* The lists that updateEvidences stacks have the elements of each.
LEMMA StackedType ==
    ASSUME NEW X, NEW q \in Seq(Seq(X))
    PROVE  Stacked(q) \in Seq(X)
<1> DEFINE n == Len(q)
           A == Seq(X)
           base == <<>>
           op(r, x) == x \o r
           G == [p \in (1..n) \X A |-> op(p[2], q[p[1]])]
           Eq(f) == f = [j \in 0..n |-> IF j = 0 THEN base ELSE op(f[j - 1], q[j])]
           g == CHOOSE f : Eq(f)
<1>1. Stacked(q) = g[n]
  BY DEF Stacked
<1>2. n \in Nat /\ \A j \in 1..n : q[j] \in A
  OBVIOUS
<1>3. base \in A
  OBVIOUS
<1>4. ASSUME NEW r \in A, NEW x \in A PROVE op(r, x) \in A
  OBVIOUS
<1> HIDE DEF n, A, base, op
<1>5. G \in [(1..n) \X A -> A] /\ \A j \in 1..n, r \in A : G[<<j, r>>] = op(r, q[j])
  BY <1>2, <1>4
<1> HIDE DEF G
<1>6. \E f : Eq(f)
  <2>1. PICK f : Iterates(f, n, A, base, G)
    BY <1>2, <1>3, <1>5, IterationExists
  <2>2. ASSUME NEW j \in 0..n
        PROVE  f[j] = IF j = 0 THEN base ELSE op(f[j - 1], q[j])
    BY <1>5, <2>1 DEF Iterates
  <2>3. f = [j \in 0..n |-> f[j]]
    BY <2>1 DEF Iterates
  <2> QED BY <2>2, <2>3
<1>7. Eq(g)
  BY <1>6
<1> HIDE DEF g
<1>8. Follows(g, n, A, base, G)
  <2>1. g[0] = base
    BY <1>2, <1>7
  <2>2. \A j \in 1..n : g[j] = op(g[j - 1], q[j])
    <3> SUFFICES ASSUME NEW j \in 1..n PROVE g[j] = op(g[j - 1], q[j])
      OBVIOUS
    <3>1. j \in 0..n /\ j # 0
      BY <1>2
    <3> QED BY <1>7, <3>1
  <2> QED BY <1>5, <2>1, <2>2 DEF Follows
<1>9. g[n] \in A
  BY <1>2, <1>3, <1>5, <1>8, IterationType
<1> QED BY <1>1, <1>9 DEF A

\* updateEvidences visits blocks of the heap, each older than the one that led
\* to it, and only sets commit evidence.
LEMMA UpdateEvidencesHeap ==
    ASSUME NEW sup \in SUBSET Slots, NEW kn \in SUBSET Slots, NEW cur, NEW nd, DOMAIN nd = Fields,
           nd.heap \in Seq(Objects(sup, kn, cur)), nd.uncommit \in Seq(DOMAIN nd.heap),
           NEW z \in DOMAIN nd.heap
    PROVE  LET h == UpdateEvidences(nd, z).heap
           IN h \in Seq(Objects(sup, kn, cur)) /\ Witnessed(h, nd.heap)
<1> DEFINE D == DOMAIN nd.heap
           V == Seq(D)
           Value(w, f) == <<w>> \o Stacked([i \in DOMAIN EvidenceBlocks(nd, w) |->
                                                f[EvidenceBlocks(nd, w)[i]]])
           EqV(f) == f = [w \in D |-> Value(w, f)]
           visits == CHOOSE f : EqV(f)
           rank == [w \in D |-> nd.heap[w].slot]
           R == [w \in D |-> Older(nd.heap, w)]
           GV == [p \in D \X [D -> V] |-> Value(p[1], p[2])]
           Ran(list) == LET made[i \in 0..Len(list)] ==
                                IF i = 0 THEN nd.heap
                                ELSE UpdateEvidence(nd, made[i - 1], list[i])
                        IN made[Len(list)]
<1>1. UpdateEvidences(nd, z).heap = Ran(visits[z])
  BY DEF UpdateEvidences, Fields
<1>2. ASSUME NEW w \in D
      PROVE  /\ EvidenceBlocks(nd, w) \in Seq(Older(nd.heap, w))
             /\ Older(nd.heap, w) \subseteq D
  <2>1. EvidenceBlocks(nd, w) \in Seq(Older(nd.heap, w))
    BY EvidenceType
  <2>2. Older(nd.heap, w) \subseteq D
    BY DEF Older
  <2> QED BY <2>1, <2>2
<1>3. V # {} /\ MaxSlot \in Nat /\ rank \in [D -> 0..MaxSlot] /\ R \in [D -> SUBSET D]
      /\ \A x \in D : \A y \in R[x] : rank[y] < rank[x]
  <2>1. \A w \in D : nd.heap[w].slot \in 0..MaxSlot
    <3>1. \A x \in Objects(sup, kn, cur) : x.slot \in 0..MaxSlot
      BY DEF Objects, ObjectRecord, Slots
    <3> QED BY <3>1
  <2>2. \A x \in D : \A y \in Older(nd.heap, x) : y \in D /\ nd.heap[y].slot < nd.heap[x].slot
    BY DEF Older
  <2>3. <<>> \in V
    OBVIOUS
  <2> HIDE DEF D, V
  <2>4. R \in [D -> SUBSET D]
    BY <2>2
  <2> QED BY <2>1, <2>2, <2>3, <2>4, StateAssumption
<1> HIDE DEF D
<1>4. ASSUME NEW w \in D, NEW f, \A y \in Older(nd.heap, w) : f[y] \in V
      PROVE  Value(w, f) \in V
  <2> DEFINE e == EvidenceBlocks(nd, w)
             list == [i \in DOMAIN e |-> f[e[i]]]
  <2>1. e \in Seq(Older(nd.heap, w))
    BY <1>2
  <2> HIDE DEF e
  <2>2. Len(e) \in Nat /\ DOMAIN e = 1..Len(e) /\ list \in [1..Len(e) -> V]
    BY SMTT(20), <1>4, <2>1
  <2> HIDE DEF list
  <2>3. list \in Seq(V) /\ Len(list) = Len(e)
    BY <2>2, FunctionSeq
  <2>4. Stacked(list) \in Seq(D)
    BY <2>3, StackedType DEF V
  <2>5. <<w>> \o Stacked(list) \in Seq(D)
    BY <2>4
  <2> QED BY <2>5 DEF list, e
<1>5. ASSUME NEW w \in D, NEW f, NEW g, \A y \in Older(nd.heap, w) : f[y] = g[y]
      PROVE  Value(w, f) = Value(w, g)
  <2> DEFINE e == EvidenceBlocks(nd, w)
  <2>1. \A i \in DOMAIN e : e[i] \in Older(nd.heap, w)
    BY <1>2
  <2>2. [i \in DOMAIN e |-> f[e[i]]] = [i \in DOMAIN e |-> g[e[i]]]
    <3> HIDE DEF e
    <3> QED BY <1>5, <2>1
  <2> QED BY <2>2
<1> HIDE DEF Value, V
<1>6. ASSUME NEW w \in D, NEW f \in [D -> V]
      PROVE  GV[<<w, f>>] = Value(w, f) /\ Value(w, f) \in V
  <2>1. \A y \in Older(nd.heap, w) : f[y] \in V
    BY <1>2
  <2>2. Value(w, f) \in V
    BY <1>4, <2>1
  <2> QED BY <2>2
<1>7. GV \in [D \X [D -> V] -> V]
  BY <1>6
<1>8. \A x \in D : \A f, g \in [D -> V] :
         (\A y \in R[x] : f[y] = g[y]) => GV[<<x, f>>] = GV[<<x, g>>]
  <2> SUFFICES ASSUME NEW x \in D, NEW f \in [D -> V], NEW g \in [D -> V],
                      \A y \in R[x] : f[y] = g[y]
               PROVE  GV[<<x, f>>] = GV[<<x, g>>]
    OBVIOUS
  <2>1. Value(x, f) = Value(x, g)
    BY <1>5
  <2>2. GV[<<x, f>>] = Value(x, f) /\ GV[<<x, g>>] = Value(x, g)
    <3> HIDE DEF GV
    <3> QED BY <1>6
  <2> QED BY <2>1, <2>2
<1> HIDE DEF GV, R, rank
<1>9. Recursion(D, V, MaxSlot, rank, R, GV)
  BY <1>3, <1>7, <1>8 DEF Recursion
<1>10. \E f : EqV(f)
  <2>1. PICK f : Solves(f, D, V, GV)
    BY <1>9, RecursionExists
  <2>2. f \in [D -> V] /\ f = [x \in D |-> f[x]] /\ \A x \in D : f[x] = GV[<<x, f>>]
    BY <2>1 DEF Solves
  <2>3. \A x \in D : f[x] = Value(x, f)
    BY <1>6, <2>2
  <2> QED BY <2>2, <2>3
<1>11. EqV(visits)
  BY <1>10
<1> HIDE DEF visits
<1>12. visits[z] \in V
  <2> DEFINE S == {x \in D : visits[x] \in V}
  <2>1. ASSUME NEW x \in D, \A y \in R[x] : y \in S PROVE x \in S
    <3>1. \A y \in Older(nd.heap, x) : visits[y] \in V
      BY <2>1 DEF R
    <3>2. Value(x, visits) \in V
      BY <1>4, <3>1
    <3>3. visits[x] = Value(x, visits)
      BY <1>11
    <3> QED BY <3>2, <3>3
  <2> HIDE DEF S
  <2>2. \A x \in D : x \in S
    BY SMTT(20), <1>9, <2>1, RecursionInduction
  <2> QED BY <2>2 DEF S, D
<1> DEFINE base == nd.heap
           q == visits[z]
           n == Len(q)
           A == {h \in Seq(Objects(sup, kn, cur)) : Witnessed(h, base)}
           op(h, w) == UpdateEvidence(nd, h, w)
           G == [p \in (1..n) \X A |-> op(p[2], q[p[1]])]
           Eq(f) == f = [j \in 0..n |-> IF j = 0 THEN base ELSE op(f[j - 1], q[j])]
           g == CHOOSE f : Eq(f)
<1>13. Ran(visits[z]) = g[n]
  OBVIOUS
<1> HIDE DEF Ran
<1>14. n \in Nat /\ DOMAIN q = 1..n /\ \A j \in 1..n : q[j] \in D
  <2> HIDE DEF q
  <2> QED BY <1>12 DEF V, q
<1>15. base \in A
  BY DEF Witnessed, SameBlock
<1>16. ASSUME NEW h \in A, NEW w \in D PROVE op(h, w) \in A
  BY UpdateEvidenceHeap DEF D
<1> HIDE DEF base, q, n, op
<1>17. G \in [(1..n) \X A -> A] /\ \A j \in 1..n, a \in A : G[<<j, a>>] = op(a, q[j])
  <2> HIDE DEF A
  <2> QED BY <1>14, <1>16
<1> HIDE DEF A, G
<1>18. \E f : Eq(f)
  <2>1. PICK f : Iterates(f, n, A, base, G)
    BY <1>14, <1>15, <1>17, IterationExists
  <2>2. ASSUME NEW j \in 0..n
        PROVE  f[j] = IF j = 0 THEN base ELSE op(f[j - 1], q[j])
    BY <1>17, <2>1 DEF Iterates
  <2>3. f = [j \in 0..n |-> f[j]]
    BY <2>1 DEF Iterates
  <2> QED BY <2>2, <2>3
<1>19. Eq(g)
  BY <1>18
<1> HIDE DEF g
<1>20. Follows(g, n, A, base, G)
  <2>1. g[0] = base
    BY SMTT(20), <1>14, <1>19
  <2>2. \A j \in 1..n : g[j] = op(g[j - 1], q[j])
    <3> SUFFICES ASSUME NEW j \in 1..n PROVE g[j] = op(g[j - 1], q[j])
      OBVIOUS
    <3>1. j \in 0..n /\ j # 0
      BY <1>14
    <3> QED BY <1>19, <3>1
  <2> QED BY <1>17, <2>1, <2>2 DEF Follows
<1>21. g[n] \in A
  BY <1>14, <1>15, <1>17, <1>20, IterationType
<1> QED BY <1>1, <1>13, <1>21 DEF A, base

-----------------------------------------------------------------------------
(* What the handlers do to the blocks *)

\* The uncommitted blocks are suspect or precommit blocks of the heap.
Uncommitted(u, h) == u \in Seq(DOMAIN h) /\ \A i \in DOMAIN u : h[u[i]].state \in Open

\* A node whose blocks are in order.
InOrder(nd, sup, kn, cur) ==
    /\ DOMAIN nd = Fields
    /\ nd.prop \in Blocks(sup, kn) /\ nd.prop.slot <= cur
    /\ nd.future \in [Slots -> Blocks(sup, kn)]
    /\ nd.heap \in Seq(Objects(sup, kn, cur))
    /\ IsTree(nd.tree, Len(nd.heap)) /\ Rooted(nd.heap, nd.tree)
    /\ Uncommitted(nd.uncommit, nd.heap)

\* n comes from nd by a handler that looks at the proposal b in slot cur.
Looked(n, nd, sup, cur, b) ==
    /\ Revised(n.heap, nd.heap, sup)
    /\ n.prop = nd.prop \/ (n.prop = b /\ b.slot = cur)
    /\ n.future = nd.future \/ b.slot > cur

\* Making precommit blocks of open ones leaves the uncommitted blocks open.
LEMMA RevisedUncommitted ==
    ASSUME NEW u, NEW h, NEW h2, NEW X, h2 \in Seq(X), h \in Seq(X), NEW sup,
           Uncommitted(u, h), Revised(h2, h, sup)
    PROVE  Uncommitted(u, h2) /\ DOMAIN h2 = DOMAIN h
<1>1. DOMAIN h2 = DOMAIN h
  BY DEF Revised
<1>2. ASSUME NEW i \in DOMAIN u PROVE h2[u[i]].state \in Open
  <2>1. u[i] \in DOMAIN h /\ h[u[i]].state \in Open
    BY DEF Uncommitted
  <2> QED BY <2>1 DEF Revised, Open
<1> QED BY <1>1, <1>2 DEF Uncommitted

\* defaultSetProposal.
LEMMA SetProposalInOrder ==
    ASSUME NEW sup \in SUBSET Slots, NEW kn \in SUBSET Slots, NEW cur \in Int, NEW nd,
           InOrder(nd, sup, kn, cur), NEW b \in Blocks(sup, kn)
    PROVE  LET n == SetProposal(nd, cur, b)
           IN InOrder(n, sup, kn, cur) /\ Looked(n, nd, sup, cur, b)
<1>0. Revised(nd.heap, nd.heap, sup)
  BY DEF Revised, SameBlock
<1>1. CASE b.slot = cur
  <2> DEFINE m == UpdateState(nd, b)
             n == [m EXCEPT !.prop = b]
  <2>1. m.heap \in Seq(Objects(sup, kn, cur)) /\ Revised(m.heap, nd.heap, sup)
    <3>1. /\ DOMAIN nd = Fields /\ nd.heap \in Seq(Objects(sup, kn, cur))
          /\ nd.uncommit \in Seq(DOMAIN nd.heap)
          /\ \A i \in DOMAIN nd.uncommit : nd.heap[nd.uncommit[i]].state \in Open
      BY DEF InOrder, Uncommitted
    <3>2. b.slot <= cur
      BY <1>1
    <3> HIDE DEF m
    <3> QED BY <3>1, <3>2, UpdateStateHeap DEF m
  <2>2. /\ DOMAIN m = Fields /\ m.future = nd.future /\ m.tree = nd.tree
        /\ m.uncommit = nd.uncommit /\ m.prop = nd.prop
    BY DEF InOrder, UpdateState, Fields
  <2>3. Uncommitted(nd.uncommit, m.heap) /\ Len(m.heap) = Len(nd.heap)
    <3>1. nd.heap \in Seq(Objects(sup, kn, cur)) /\ Uncommitted(nd.uncommit, nd.heap)
      BY DEF InOrder
    <3> HIDE DEF m
    <3>2. Uncommitted(nd.uncommit, m.heap)
      BY <2>1, <3>1, RevisedUncommitted
    <3> QED BY <2>1, <3>2 DEF Revised
  <2>9. Rooted(m.heap, nd.tree)
    <3>1. /\ nd.heap \in Seq(Objects(sup, kn, cur)) /\ IsTree(nd.tree, Len(nd.heap))
          /\ Rooted(nd.heap, nd.tree)
      BY DEF InOrder
    <3> HIDE DEF m
    <3>2. \A o \in 1..Len(nd.heap) : SamePlace(m.heap[o], nd.heap[o])
      BY SMTT(20), <2>1, <3>1 DEF Revised, SameBlock, SamePlace
    <3> QED BY <3>1, <3>2, SameRooted
  <2> HIDE DEF m
  <2>4. /\ DOMAIN n = Fields /\ n.future = nd.future /\ n.tree = nd.tree
        /\ n.uncommit = nd.uncommit /\ n.prop = b /\ n.heap = m.heap
    BY <2>2 DEF Fields
  <2> HIDE DEF n
  <2> DEFINE r == AcceptProposal(nd, cur, b)
  <2>5. /\ DOMAIN r = Fields /\ r.future = n.future /\ r.tree = n.tree
        /\ r.uncommit = n.uncommit /\ r.prop = n.prop /\ r.heap = n.heap
    <3>1. \E type : r = SignVote(n, cur, type)
      BY DEF AcceptProposal, n, m
    <3> HIDE DEF r
    <3> QED BY <2>4, <3>1 DEF SignVote, Fields
  <2>6. SetProposal(nd, cur, b) = r
    BY <1>1 DEF SetProposal
  <2> HIDE DEF r
  <2>7. InOrder(r, sup, kn, cur)
    BY <1>1, <2>1, <2>3, <2>4, <2>5, <2>9 DEF InOrder
  <2>8. Looked(r, nd, sup, cur, b)
    BY <1>1, <2>1, <2>4, <2>5 DEF Looked
  <2> QED BY <2>6, <2>7, <2>8
<1>2. CASE b.slot > cur
  <2> DEFINE n == TryAddFutureProposal(nd, b)
  <2>1. SetProposal(nd, cur, b) = n
    <3>1. b.slot \in Int
      BY SlotNumbers DEF Blocks
    <3>2. b.slot # cur
      BY <1>2, <3>1
    <3> QED BY <1>2, <3>2 DEF SetProposal
  <2>2. /\ DOMAIN n = Fields /\ n.tree = nd.tree /\ n.heap = nd.heap
        /\ n.uncommit = nd.uncommit /\ n.prop = nd.prop
        /\ n.future \in [Slots -> Blocks(sup, kn)]
    <3>1. DOMAIN nd = Fields /\ nd.future \in [Slots -> Blocks(sup, kn)]
      BY DEF InOrder
    <3>2. CASE n = nd
      BY <3>1, <3>2
    <3>3. CASE n = [nd EXCEPT !.future[b.slot] = b]
      <4>1. /\ DOMAIN n = Fields /\ n.tree = nd.tree /\ n.heap = nd.heap
            /\ n.uncommit = nd.uncommit /\ n.prop = nd.prop
            /\ n.future = [nd.future EXCEPT ![b.slot] = b]
        <5> HIDE DEF n
        <5> QED BY <3>1, <3>3 DEF Fields
      <4> HIDE DEF n
      <4>2. [nd.future EXCEPT ![b.slot] = b] \in [Slots -> Blocks(sup, kn)]
        BY <3>1
      <4> QED BY <4>1, <4>2
    <3> QED BY <3>2, <3>3 DEF TryAddFutureProposal
  <2> HIDE DEF n
  <2>3. InOrder(n, sup, kn, cur)
    BY <2>2 DEF InOrder
  <2>4. Looked(n, nd, sup, cur, b)
    BY <1>0, <1>2, <2>2 DEF Looked
  <2> QED BY <2>1, <2>3, <2>4
<1>3. CASE b.slot # cur /\ ~(b.slot > cur)
  <2>1. SetProposal(nd, cur, b) = nd
    BY <1>3 DEF SetProposal
  <2>2. Looked(nd, nd, sup, cur, b)
    BY <1>0 DEF Looked
  <2> QED BY <2>1, <2>2
<1> QED BY <1>1, <1>2, <1>3

\* handleMsg of a proposal.
LEMMA HandleProposalInOrder ==
    ASSUME NEW sup \in SUBSET Slots, NEW kn \in SUBSET Slots, NEW cur \in Int, NEW nd,
           InOrder(nd, sup, kn, cur), NEW b \in Blocks(sup, kn)
    PROVE  LET n == HandleProposal(nd, cur, b)
           IN InOrder(n, sup, kn, cur) /\ Looked(n, nd, sup, cur, b)
<1>1. Looked(nd, nd, sup, cur, b)
  BY DEF Looked, Revised, SameBlock
<1>2. HandleProposal(nd, cur, b) = nd \/ HandleProposal(nd, cur, b) = SetProposal(nd, cur, b)
  BY DEF HandleProposal
<1> QED BY <1>1, <1>2, SetProposalInOrder

\* h2 comes from h by blocks that are committed.
Settled(h2, h) ==
    /\ Len(h2) = Len(h)
    /\ \A o \in DOMAIN h :
          /\ SameBlock(h2[o], h[o])
          /\ h2[o].state \in {h[o].state, "Committed"}

\* blockExecutor.Commit: the committed blocks leave UnCommitBlocks.
LEMMA CommitInOrder ==
    ASSUME NEW sup, NEW kn, NEW cur, NEW nd, InOrder(nd, sup, kn, cur), NEW list
    PROVE  LET n == Commit(nd, list)
           IN InOrder(n, sup, kn, cur) /\ Settled(n.heap, nd.heap) /\ n.prop = nd.prop
              /\ n.future = nd.future
<1> DEFINE n == Commit(nd, list)
           h == nd.heap
           done == Range(list)
           h2 == [o \in DOMAIN h |-> IF o \in done THEN [h[o] EXCEPT !.state = "Committed"]
                                     ELSE h[o]]
           u == nd.uncommit
           u2 == RemoveBlocks(u, list)
<1>1. /\ DOMAIN n = Fields /\ n.heap = h2 /\ n.uncommit = u2 /\ n.prop = nd.prop
      /\ n.future = nd.future /\ n.tree = nd.tree
  <2>1. DOMAIN nd = Fields
    BY DEF InOrder
  <2> QED BY <2>1 DEF Commit, Fields
<1>2. /\ h \in Seq(Objects(sup, kn, cur)) /\ Len(h) \in Nat /\ DOMAIN h = 1..Len(h)
      /\ u \in Seq(DOMAIN h) /\ \A i \in DOMAIN u : h[u[i]].state \in Open
  <2>1. h \in Seq(Objects(sup, kn, cur)) /\ Uncommitted(u, h)
    BY DEF InOrder
  <2> HIDE DEF h
  <2> QED BY <2>1 DEF Uncommitted
<1> HIDE DEF n, h, done, u
<1>3. ASSUME NEW o \in DOMAIN h
      PROVE  /\ h2[o] \in Objects(sup, kn, cur) /\ SameBlock(h2[o], h[o])
             /\ h2[o].state \in {h[o].state, "Committed"}
             /\ o \notin done => h2[o] = h[o]
  <2>1. h[o] \in Objects(sup, kn, cur)
    BY <1>2
  <2>2. CASE o \in done
    <3> DEFINE x == [h[o] EXCEPT !.state = "Committed"]
    <3>1. x \in Objects(sup, kn, cur) /\ SameBlock(x, h[o]) /\ x.state = "Committed"
      BY <2>1 DEF Objects, ObjectRecord, SameBlock, States
    <3>2. h2[o] = x
      BY <2>2
    <3> QED BY <2>2, <3>1, <3>2
  <2>3. CASE o \notin done
    BY <2>1, <2>3 DEF SameBlock
  <2> QED BY <2>2, <2>3
<1>4. h2 \in Seq(Objects(sup, kn, cur)) /\ Len(h2) = Len(h) /\ DOMAIN h2 = DOMAIN h
  <2>1. h2 \in [1..Len(h) -> Objects(sup, kn, cur)]
    BY <1>2, <1>3
  <2> HIDE DEF h2
  <2>2. h2 \in Seq(Objects(sup, kn, cur)) /\ Len(h2) = Len(h)
    BY <1>2, <2>1, FunctionSeq
  <2> QED BY <1>2, <2>1, <2>2
<1> HIDE DEF h2
<1>5. Uncommitted(u2, h2)
  <2> DEFINE Left == {o \in DOMAIN h : h[o].state \in Open /\ o \notin done}
             X == {o \in DOMAIN h : h[o].state \in Open}
             T == Range(u) \ done
  <2>1. u \in Seq(X)
    <3>1. u \in [1..Len(u) -> X] /\ Len(u) \in Nat
      BY <1>2
    <3> HIDE DEF X
    <3> QED BY <3>1, FunctionSeq
  <2>2. u2 = Keep(u, T)
    BY DEF RemoveBlocks, done
  <2>3. \A o \in X \cap T : o \in Left
    OBVIOUS
  <2>4. Left \subseteq DOMAIN h
    OBVIOUS
  <2>5. \A o \in Left : h2[o].state \in Open
    BY <1>3
  <2> HIDE DEF X, T, Left, u2
  <2>6. u2 \in Seq(X \cap T)
    BY <2>1, <2>2, KeepType
  <2>7. u2 \in Seq(Left)
    BY <2>3, <2>6, SeqMonotone
  <2> QED BY SMTT(20), <1>4, <2>4, <2>5, <2>7 DEF Uncommitted
<1> HIDE DEF u2
<1>8. Rooted(h2, nd.tree)
  <2>1. IsTree(nd.tree, Len(h)) /\ Rooted(h, nd.tree)
    BY DEF InOrder, h
  <2>2. \A o \in 1..Len(h) : SamePlace(h2[o], h[o])
    BY <1>2, <1>3 DEF SameBlock, SamePlace
  <2> QED BY <2>1, <2>2, SameRooted
<1>6. InOrder(n, sup, kn, cur)
  BY <1>1, <1>4, <1>5, <1>8 DEF InOrder, h
<1>7. Settled(n.heap, h)
  BY <1>1, <1>3, <1>4 DEF Settled
<1> QED BY <1>1, <1>6, <1>7 DEF n, h

\* ApplyBlock of the newest block of the heap, which is not yet in the tree.
LEMMA ApplyBlockInOrder ==
    ASSUME NEW sup, NEW kn, NEW cur, NEW nd,
           DOMAIN nd = Fields, nd.prop \in Blocks(sup, kn), nd.prop.slot <= cur,
           nd.future \in [Slots -> Blocks(sup, kn)],
           nd.heap \in Seq(Objects(sup, kn, cur)), Uncommitted(nd.uncommit, nd.heap),
           NEW k \in Nat, Len(nd.heap) = k + 1, IsTree(nd.tree, k), Rooted(nd.heap, nd.tree),
           nd.heap[k + 1].state # "Committed"
    PROVE  LET n == ApplyBlock(nd, k + 1)
           IN InOrder(n, sup, kn, cur) /\ Settled(n.heap, nd.heap) /\ n.prop = nd.prop
              /\ n.future = nd.future
<1> DEFINE o == k + 1
           n1 == [nd EXCEPT !.tree = AddBlocks(nd.heap, @, o)]
           n2 == [n1 EXCEPT !.uncommit = Append(@, o)]
<1>0. ApplyBlock(nd, o) = IF ValidteBasic(nd.heap[o])
                          THEN Commit(n2, DecideCommitBlocks(n2)) ELSE n1
  BY DEF ApplyBlock
<1>1. /\ DOMAIN n1 = Fields /\ n1.heap = nd.heap /\ n1.uncommit = nd.uncommit
      /\ n1.prop = nd.prop /\ n1.future = nd.future
      /\ n1.tree = AddBlocks(nd.heap, nd.tree, o)
  BY DEF Fields
<1>2. IsTree(n1.tree, Len(nd.heap)) /\ Rooted(nd.heap, n1.tree)
  <2>1. o \in 1..(k + 1)
    OBVIOUS
  <2> HIDE DEF o, n1
  <2>2. IsTree(AddBlocks(nd.heap, nd.tree, o), k + 1)
    BY <2>1, AddBlocksType
  <2>3. Rooted(nd.heap, AddBlocks(nd.heap, nd.tree, o))
    BY AddBlocksShape DEF Rooted
  <2> QED BY <1>1, <2>2, <2>3
<1> HIDE DEF n1
<1>3. /\ DOMAIN n2 = Fields /\ n2.heap = nd.heap /\ n2.uncommit = Append(nd.uncommit, o)
      /\ n2.prop = nd.prop /\ n2.future = nd.future /\ n2.tree = n1.tree
  BY <1>1 DEF Fields
<1> HIDE DEF n2
<1>4. InOrder(n1, sup, kn, cur)
  BY <1>1, <1>2 DEF InOrder
<1>5. Settled(nd.heap, nd.heap)
  BY DEF Settled, SameBlock
<1>6. CASE nd.heap[o].state = "Error"
  <2>1. ApplyBlock(nd, o) = n1
    BY <1>0, <1>6 DEF ValidteBasic
  <2> QED BY <1>1, <1>4, <1>5, <2>1
<1>7. CASE nd.heap[o].state # "Error"
  <2> DEFINE c == Commit(n2, DecideCommitBlocks(n2))
  <2>1. ApplyBlock(nd, o) = c
    BY <1>0, <1>7 DEF ValidteBasic
  <2>2. Uncommitted(n2.uncommit, n2.heap)
    <3>1. o \in DOMAIN nd.heap /\ nd.heap[o] \in Objects(sup, kn, cur)
      BY SMTT(20)
    <3>2. nd.heap[o].state \in Open
      <4>1. nd.heap[o].state \in States
        BY <3>1 DEF Objects, ObjectRecord
      <4> QED BY <1>7, <4>1 DEF States, Open
    <3> DEFINE u == nd.uncommit
    <3>3. u \in Seq(DOMAIN nd.heap) /\ \A i \in DOMAIN u : nd.heap[u[i]].state \in Open
      BY DEF Uncommitted
    <3> HIDE DEF o, u
    <3>4. /\ Append(u, o) \in Seq(DOMAIN nd.heap)
          /\ \A i \in DOMAIN Append(u, o) :
                (i \in DOMAIN u /\ Append(u, o)[i] = u[i]) \/ Append(u, o)[i] = o
      BY SMTT(20), <3>1, <3>3, Appended
    <3>5. \A i \in DOMAIN Append(u, o) : nd.heap[Append(u, o)[i]].state \in Open
      BY <3>2, <3>3, <3>4
    <3> QED BY <1>3, <3>4, <3>5 DEF Uncommitted, u
  <2>3. InOrder(n2, sup, kn, cur)
    BY <1>2, <1>3, <2>2 DEF InOrder
  <2>4. InOrder(c, sup, kn, cur) /\ Settled(c.heap, n2.heap) /\ c.prop = n2.prop
        /\ c.future = n2.future
    BY SMTT(20), <2>3, CommitInOrder
  <2> HIDE DEF c
  <2> QED BY <1>3, <2>1, <2>4
<1> QED BY <1>6, <1>7

\* h2 comes from h by the block of a slot that is applied with the votes of slot
\* last.
Applied(h2, h, slot, last, sup) ==
    /\ Len(h2) = Len(h) + 1
    /\ \A o \in DOMAIN h :
          /\ h2[o].slot = h[o].slot
          /\ h2[o].state = "Precommit" => h[o].state = "Precommit" \/ h[o].slot \in sup
    /\ h2[Len(h) + 1].slot = slot
    /\ h2[Len(h) + 1].state = "Precommit" => last \in sup

\* A quorum of the votes of slot last is sound when slot last is supported.
Backed(nd, last, sup) == TryGenQuorum(nd, last).type = "Support" => last \in sup

\* The part of enterApply that applies the proposal.
LEMMA ApplyProposalInOrder ==
    ASSUME NEW sup \in SUBSET Slots, NEW kn \in SUBSET Slots, NEW cur \in Int, NEW nd,
           InOrder(nd, sup, kn, cur), NEW last \in Slots, last < cur,
           Backed(nd, last, sup)
    PROVE  LET n == ApplyProposal(nd, last)
           IN InOrder(n, sup, kn, cur) /\ n.future = nd.future
              /\ Applied(n.heap, nd.heap, nd.prop.slot, last, sup)
<1> DEFINE Obj == Objects(sup, kn, cur)
           q == IF \A v \in Vals : nd.votes[last][v] = <<>> THEN NoQuorum
                ELSE TryGenQuorum(nd, last)
           x == BlockObject(nd.prop, QuorumState(q), q)
           h == nd.heap
           k == Len(h)
           n == [nd EXCEPT !.heap = Append(@, x)]
           h1 == Append(h, x)
           e == UpdateEvidences(n, Len(n.heap))
           a == ApplyBlock(e, Len(n.heap))
<1>0. ApplyProposal(nd, last) = a
  BY DEF ApplyProposal
<1>1. q \in Quorums(sup) /\ (q.type = "Support" => last \in sup /\ q.hash < cur)
  <2>1. NoQuorum \in Quorums(sup) /\ NoQuorum.type # "Support"
    BY SMTT(20), StateAssumption DEF NoQuorum, Quorums, Slots
  <2> DEFINE g == TryGenQuorum(nd, last)
  <2>2. g \in [hash : Slots, type : {"Support", "Against", "Empty"}] /\ g.hash = last
    BY DEF TryGenQuorum
  <2>3. g.type = "Support" => last \in sup
    BY DEF Backed
  <2> HIDE DEF g
  <2>4. g \in Quorums(sup)
    BY <2>2, <2>3 DEF Quorums
  <2>5. CASE q = NoQuorum
    BY <2>1, <2>5
  <2>6. CASE q = g
    <3> HIDE DEF q
    <3> QED BY <2>2, <2>3, <2>4, <2>6
  <2> QED BY <2>5, <2>6 DEF g
<1> HIDE DEF q
<1>2. /\ QuorumState(q) \in {"Suspect", "Precommit", "Error"}
      /\ QuorumState(q) = "Precommit" => q.type = "Support"
  BY DEF QuorumState
<1>3. /\ DOMAIN nd = Fields /\ nd.prop \in Blocks(sup, kn) /\ nd.prop.slot <= cur
      /\ nd.future \in [Slots -> Blocks(sup, kn)]
      /\ h \in Seq(Obj) /\ k \in Nat /\ DOMAIN h = 1..k /\ IsTree(nd.tree, k)
      /\ Rooted(h, nd.tree) /\ Uncommitted(nd.uncommit, h)
  BY DEF InOrder
<1>4. x \in Obj /\ x.state = QuorumState(q) /\ x.slot = nd.prop.slot
  <2> DEFINE p == nd.prop
  <2>1. /\ p.slot \in kn /\ p.slot \in Slots /\ p.parent \in Slots /\ p.slot <= cur
        /\ p.evid \in Seq(Evidence(sup)) /\ (p.slot # 0 => p.parent < p.slot)
        /\ \A i \in DOMAIN p.evid : p.evid[i].hash < p.slot
    BY <1>3 DEF Blocks
  <2>2. NoCommit \in [quorum : Quorums(sup), witness : Nat]
    BY SMTT(20), StateAssumption DEF NoCommit, NoQuorum, Quorums, Slots
  <2> HIDE DEF p
  <2> DEFINE y == BlockObject(p, QuorumState(q), q)
  <2>3. y \in ObjectRecord(sup, kn)
    BY <1>1, <1>2, <2>1, <2>2 DEF BlockObject, ObjectRecord, States
  <2>4. /\ y.hash = y.slot /\ y.slot = p.slot /\ y.parent = p.parent /\ y.evid = p.evid
        /\ y.state = QuorumState(q) /\ y.vq = q
    BY DEF BlockObject
  <2>5. x = y
    BY DEF p
  <2> HIDE DEF y, x
  <2>6. y \in Obj
    BY <1>1, <1>2, <2>1, <2>3, <2>4 DEF Objects
  <2> QED BY <2>4, <2>5, <2>6 DEF p
<1> HIDE DEF x, Obj
<1>5. /\ h1 \in Seq(Obj) /\ Len(h1) = k + 1 /\ DOMAIN h1 = 1..(k + 1)
      /\ h1[k + 1] = x /\ \A i \in DOMAIN h : h1[i] = h[i]
  <2> HIDE DEF h, h1
  <2>1. /\ h1 \in Seq(Obj) /\ Len(h1) = k + 1
        /\ h1[k + 1] = x /\ \A i \in DOMAIN h : h1[i] = h[i]
    BY SMTT(20), <1>3, <1>4, Appended DEF h1
  <2> QED BY <1>3, <2>1
<1>6. /\ DOMAIN n = Fields /\ n.heap = h1 /\ n.prop = nd.prop /\ n.future = nd.future
      /\ n.tree = nd.tree /\ n.uncommit = nd.uncommit
  BY <1>3 DEF Fields
<1>7. Uncommitted(nd.uncommit, h1)
  <2> DEFINE u == nd.uncommit
  <2>1. u \in Seq(DOMAIN h) /\ \A i \in DOMAIN u : u[i] \in DOMAIN h /\ h[u[i]].state \in Open
    BY SMTT(20), <1>3 DEF Uncommitted
  <2>2. \A i \in DOMAIN h : i \in DOMAIN h1
    BY SMTT(20), <1>3, <1>5
  <2> HIDE DEF u, h1
  <2>3. u \in Seq(DOMAIN h1)
    BY <2>1, <2>2, SeqMonotone
  <2>4. \A i \in DOMAIN u : h1[u[i]].state \in Open
    BY <1>5, <2>1
  <2> QED BY <2>3, <2>4 DEF Uncommitted, u
<1> HIDE DEF h1, n
<1>8. /\ e.heap \in Seq(Obj) /\ Witnessed(e.heap, h1)
      /\ DOMAIN e = Fields /\ e.prop = nd.prop /\ e.future = nd.future
      /\ e.tree = nd.tree /\ e.uncommit = nd.uncommit
  <2>1. DOMAIN e = Fields /\ e.prop = nd.prop /\ e.future = nd.future
      /\ e.tree = nd.tree /\ e.uncommit = nd.uncommit
    BY <1>6 DEF UpdateEvidences, Fields
  <2>2. n.heap \in Seq(Objects(sup, kn, cur)) /\ n.uncommit \in Seq(DOMAIN n.heap)
    BY <1>5, <1>6, <1>7 DEF Obj, Uncommitted
  <2>3. Len(n.heap) \in DOMAIN n.heap
    BY SMTT(20), <1>3, <1>5, <1>6
  <2>4. e.heap \in Seq(Objects(sup, kn, cur)) /\ Witnessed(e.heap, n.heap)
    BY <1>6, <2>2, <2>3, UpdateEvidencesHeap
  <2> QED BY <1>6, <2>1, <2>4 DEF Obj
<1>9. a = ApplyBlock(e, k + 1)
  BY <1>5, <1>6
<1> HIDE DEF e, a
<1>10. /\ Uncommitted(nd.uncommit, e.heap) /\ Len(e.heap) = k + 1
       /\ e.heap[k + 1].state = QuorumState(q)
       /\ e.heap[k + 1].slot = nd.prop.slot
       /\ \A o \in DOMAIN h : e.heap[o].slot = h[o].slot /\ e.heap[o].state = h[o].state
  <2>1. /\ Len(e.heap) = k + 1 /\ DOMAIN e.heap = DOMAIN h1
        /\ \A o \in DOMAIN h1 : e.heap[o].slot = h1[o].slot /\ e.heap[o].state = h1[o].state
    BY SMTT(20), <1>5, <1>8 DEF Witnessed, SameBlock
  <2>2. Uncommitted(nd.uncommit, e.heap)
    <3> DEFINE u == nd.uncommit
    <3>1. u \in Seq(DOMAIN h1) /\ \A i \in DOMAIN u : u[i] \in DOMAIN h1 /\ h1[u[i]].state \in Open
      BY <1>7 DEF Uncommitted
    <3> HIDE DEF u
    <3>2. u \in Seq(DOMAIN e.heap) /\ \A i \in DOMAIN u : e.heap[u[i]].state \in Open
      BY <2>1, <3>1
    <3> QED BY <3>2 DEF Uncommitted, u
  <2>3. k + 1 \in DOMAIN h1 /\ \A o \in DOMAIN h : o \in DOMAIN h1
    BY SMTT(20), <1>3, <1>5
  <2> QED BY <1>4, <1>5, <2>1, <2>2, <2>3
<1>13. Rooted(e.heap, nd.tree)
  <2>1. \A o \in 1..k : SamePlace(e.heap[o], h[o])
    <3>1. \A o \in 1..k : o \in DOMAIN h1 /\ h1[o] = h[o]
      BY SMTT(20), <1>3, <1>5
    <3>2. \A o \in DOMAIN h1 : SameBlock(e.heap[o], h1[o])
      BY <1>8 DEF Witnessed
    <3> QED BY <3>1, <3>2 DEF SameBlock, SamePlace
  <2> HIDE DEF h, k
  <2> QED BY <1>3, <2>1, SameRooted
<1>11. InOrder(a, sup, kn, cur) /\ Settled(a.heap, e.heap) /\ a.future = e.future
  <2>1. e.heap[k + 1].state # "Committed"
    BY <1>2, <1>10
  <2>2. /\ e.prop \in Blocks(sup, kn) /\ e.prop.slot <= cur
        /\ e.future \in [Slots -> Blocks(sup, kn)]
        /\ e.heap \in Seq(Objects(sup, kn, cur)) /\ Uncommitted(e.uncommit, e.heap)
        /\ IsTree(e.tree, k) /\ Rooted(e.heap, e.tree)
    BY <1>3, <1>8, <1>10, <1>13 DEF Obj
  <2> HIDE DEF k
  <2>3. DOMAIN e = Fields /\ k \in Nat /\ Len(e.heap) = k + 1
    BY <1>3, <1>8, <1>10
  <2> QED BY SMTT(20), <1>9, <2>1, <2>2, <2>3, ApplyBlockInOrder
<1>12. Applied(a.heap, h, nd.prop.slot, last, sup)
  <2>1. /\ Len(a.heap) = k + 1
        /\ \A o \in 1..(k + 1) :
              a.heap[o].slot = e.heap[o].slot /\ a.heap[o].state \in {e.heap[o].state, "Committed"}
    <3>1. DOMAIN e.heap = 1..(k + 1)
      BY SMTT(20), <1>3, <1>8, <1>10
    <3> QED BY <1>10, <1>11, <3>1 DEF Settled, SameBlock
  <2>2. k + 1 \in 1..(k + 1) /\ \A o \in DOMAIN h : o \in 1..(k + 1)
    BY <1>3
  <2>3. \A o \in DOMAIN h :
          /\ a.heap[o].slot = h[o].slot
          /\ a.heap[o].state = "Precommit" => h[o].state = "Precommit"
    BY <1>10, <2>1, <2>2
  <2>4. a.heap[k + 1].slot = nd.prop.slot
    BY <1>10, <2>1, <2>2
  <2>5. a.heap[k + 1].state = "Precommit" => last \in sup
    BY <1>1, <1>2, <1>10, <2>1, <2>2
  <2> QED BY <2>1, <2>3, <2>4, <2>5 DEF Applied
<1> QED BY <1>0, <1>8, <1>11, <1>12 DEF h

\* h2 comes from h by enterApply in a node with the given proposal.
Entered(h2, h, prop, future, last, sup, cur) ==
    \/ h2 = h
    \/ /\ prop # NoBlock
       /\ \E slot : /\ slot = prop.slot \/ future[cur] # NoBlock
                    /\ Applied(h2, h, slot, last, sup)

\* enterApply.
LEMMA EnterApplyInOrder ==
    ASSUME NEW sup \in SUBSET Slots, NEW kn \in SUBSET Slots, 0 \in kn, NEW cur \in Slots, NEW nd,
           InOrder(nd, sup, kn, cur), NEW last \in Slots, last < cur,
           Backed(nd, last, sup)
    PROVE  LET n == EnterApply(nd, cur, last)
           IN /\ InOrder(n, sup, kn, cur) /\ n.prop = NoBlock
              /\ n.future = nd.future \/ nd.future[cur].slot > cur
              /\ Entered(n.heap, nd.heap, nd.prop, nd.future, last, sup, cur)
<1> DEFINE r == IF HasProposal(nd) THEN ApplyProposal(TriggleFutureProposal(nd, cur), last) ELSE nd
           n == [r EXCEPT !.prop = NoBlock]
<1>0. EnterApply(nd, cur, last) = n
  BY DEF EnterApply
<1>1. cur \in Int
  BY SlotNumbers
<1>2. /\ InOrder(r, sup, kn, cur)
      /\ r.future = nd.future \/ nd.future[cur].slot > cur
      /\ Entered(r.heap, nd.heap, nd.prop, nd.future, last, sup, cur)
  <2>1. CASE ~HasProposal(nd)
    BY <2>1 DEF Entered
  <2>2. CASE HasProposal(nd)
    <3> DEFINE f == TriggleFutureProposal(nd, cur)
               b == nd.future[cur]
               a == ApplyProposal(f, last)
    <3>1. b \in Blocks(sup, kn)
      BY DEF InOrder
    <3>2. /\ InOrder(f, sup, kn, cur) /\ Looked(f, nd, sup, cur, b)
          /\ f.votes = nd.votes
          /\ b = NoBlock => f = nd
      <4>1. CASE b = NoBlock
        <5>1. f = nd
          BY <4>1 DEF TriggleFutureProposal
        <5>2. Looked(nd, nd, sup, cur, b)
          BY DEF Looked, Revised, SameBlock
        <5> QED BY <5>1, <5>2
      <4>2. CASE b # NoBlock
        <5>1. f = SetProposal(nd, cur, b)
          BY <4>2 DEF TriggleFutureProposal
        <5> HIDE DEF b, f
        <5>2. InOrder(f, sup, kn, cur) /\ Looked(f, nd, sup, cur, b)
          BY <1>1, <3>1, <5>1, SetProposalInOrder
        <5>3. f.votes = nd.votes
          <6>1. DOMAIN nd = Fields
            BY DEF InOrder
          <6> QED BY <5>1, <6>1, SetProposalSigns DEF Signs
        <5> QED BY <4>2, <5>2, <5>3
      <4> QED BY <4>1, <4>2
    <3>3. Backed(f, last, sup)
      <4>1. TryGenQuorum(f, last) = TryGenQuorum(nd, last)
        BY <3>2 DEF TryGenQuorum, VotesOf
      <4> QED BY <4>1 DEF Backed
    <3>4. nd.prop # NoBlock /\ r = a
      BY <2>2 DEF HasProposal
    <3> HIDE DEF f
    <3>5. InOrder(a, sup, kn, cur) /\ a.future = f.future
          /\ Applied(a.heap, f.heap, f.prop.slot, last, sup)
      BY <1>1, <3>2, <3>3, ApplyProposalInOrder
    <3> HIDE DEF a, b, r
    <3>6. f.prop.slot = nd.prop.slot \/ b # NoBlock
      BY <3>2
    <3>7. Applied(a.heap, nd.heap, f.prop.slot, last, sup)
      <4> DEFINE h == nd.heap
                 g == f.heap
      <4>1. h \in Seq(Objects(sup, kn, cur)) /\ g \in Seq(Objects(sup, kn, cur))
        BY <3>2 DEF InOrder
      <4>2. Len(g) = Len(h) /\ DOMAIN g = DOMAIN h
            /\ \A o \in DOMAIN h : /\ g[o].slot = h[o].slot
                                   /\ g[o].state = h[o].state \/ h[o].slot \in sup
        <5>1. Revised(g, h, sup)
          BY <3>2 DEF Looked
        <5> HIDE DEF g, h
        <5> QED BY <4>1, <5>1 DEF Revised, SameBlock
      <4>3. Applied(a.heap, g, f.prop.slot, last, sup)
        BY <3>5
      <4> HIDE DEF g, h
      <4>4. Applied(a.heap, h, f.prop.slot, last, sup)
        BY <4>2, <4>3 DEF Applied
      <4> QED BY <4>4 DEF h
    <3>8. Entered(a.heap, nd.heap, nd.prop, nd.future, last, sup, cur)
      BY <3>4, <3>6, <3>7 DEF Entered, b
    <3>9. a.future = nd.future \/ nd.future[cur].slot > cur
      BY <3>2, <3>5 DEF Looked, b
    <3> QED BY <3>4, <3>5, <3>8, <3>9
  <2> QED BY <2>1, <2>2
<1> HIDE DEF r
<1>3. /\ DOMAIN n = Fields /\ n.heap = r.heap /\ n.prop = NoBlock /\ n.future = r.future
      /\ n.tree = r.tree /\ n.uncommit = r.uncommit
  <2>1. DOMAIN r = Fields
    BY <1>2 DEF InOrder
  <2> QED BY <2>1 DEF Fields
<1> HIDE DEF n
<1>4. NoBlock \in Blocks(sup, kn) /\ NoBlock.slot <= cur
  BY StateAssumption, SlotNumbers DEF NoBlock, Blocks, Slots
<1>5. InOrder(n, sup, kn, cur)
  BY <1>2, <1>3, <1>4 DEF InOrder
<1> QED BY <1>0, <1>2, <1>3, <1>5

\* A block stays one as slots gain support and proposals become possible.
LEMMA MoreBlocks ==
    ASSUME NEW sup, NEW sup2, sup \subseteq sup2, NEW kn, NEW kn2, kn \subseteq kn2
    PROVE  \A b \in Blocks(sup, kn) : b \in Blocks(sup2, kn2)
<1> SUFFICES ASSUME NEW b \in Blocks(sup, kn) PROVE b \in Blocks(sup2, kn2)
  OBVIOUS
<1>1. \A e \in Evidence(sup) : e \in Evidence(sup2)
  BY DEF Evidence
<1>2. b.evid \in Seq(Evidence(sup2))
  BY <1>1, SeqMonotone DEF Blocks
<1> QED BY <1>2 DEF Blocks

\* The same of block objects.
LEMMA MoreObjects ==
    ASSUME NEW sup, NEW sup2, sup \subseteq sup2, NEW kn \in SUBSET Slots, NEW kn2, kn \subseteq kn2,
           NEW cur \in Int, NEW cur2 \in Int, cur <= cur2
    PROVE  \A x \in Objects(sup, kn, cur) : x \in Objects(sup2, kn2, cur2)
<1> SUFFICES ASSUME NEW x \in Objects(sup, kn, cur) PROVE x \in Objects(sup2, kn2, cur2)
  OBVIOUS
<1>1. \A e \in Evidence(sup) : e \in Evidence(sup2)
  BY DEF Evidence
<1>2. \A q \in Quorums(sup) : q \in Quorums(sup2)
  BY DEF Quorums
<1>3. x \in ObjectRecord(sup, kn)
  BY DEF Objects
<1>4. x.evid \in Seq(Evidence(sup2))
  BY <1>1, <1>3, SeqMonotone DEF ObjectRecord
<1>5. x \in ObjectRecord(sup2, kn2)
  BY <1>2, <1>3, <1>4 DEF ObjectRecord
<1>6. x.slot \in Int /\ x.vq.hash \in Int
  BY <1>3, SlotNumbers DEF ObjectRecord, Quorums
<1>7. x.slot <= cur2 /\ (x.vq.type = "Support" => x.vq.hash < cur2)
  BY <1>6 DEF Objects
<1> QED BY <1>5, <1>7 DEF Objects

\* A node in order stays in order as support, proposals and slots are added.
LEMMA MoreInOrder ==
    ASSUME NEW sup, NEW sup2, sup \subseteq sup2, NEW kn \in SUBSET Slots, NEW kn2, kn \subseteq kn2,
           NEW cur \in Int, NEW cur2 \in Int, cur <= cur2, NEW nd, InOrder(nd, sup, kn, cur)
    PROVE  InOrder(nd, sup2, kn2, cur2)
<1>1. \A b \in Blocks(sup, kn) : b \in Blocks(sup2, kn2)
  BY MoreBlocks
<1>2. nd.heap \in Seq(Objects(sup2, kn2, cur2))
  <2>1. \A x \in Objects(sup, kn, cur) : x \in Objects(sup2, kn2, cur2)
    BY MoreObjects
  <2>2. nd.heap \in Seq(Objects(sup, kn, cur))
    BY DEF InOrder
  <2> QED BY <2>1, <2>2, SeqMonotone
<1>3. nd.prop.slot <= cur2
  <2>1. nd.prop.slot \in Int /\ nd.prop.slot <= cur
    BY SlotNumbers DEF InOrder, Blocks
  <2> QED BY <2>1
<1> QED BY <1>1, <1>2, <1>3 DEF InOrder

\* In a node whose blocks are in order, blocks are of later slots than the blocks
\* they hang below.
LEMMA InOrderClimbs ==
    ASSUME NEW sup, NEW kn \in SUBSET Slots, NEW cur, NEW nd, InOrder(nd, sup, kn, cur)
    PROVE  Climbs(nd.heap, nd.tree)
<1> DEFINE h == nd.heap
           t == nd.tree
           x(n) == h[t[n].data]
<1>1. h \in Seq(Objects(sup, kn, cur)) /\ DOMAIN h = 1..Len(h) /\ IsTree(t, Len(h)) /\ Rooted(h, t)
  BY DEF InOrder
<1> HIDE DEF h, t
<1>2. /\ \A n \in DOMAIN t : t[n].data \in DOMAIN h
      /\ \A n \in DOMAIN t : t[n].parent # 0 => t[n].parent \in DOMAIN t /\ n # 1
      /\ 1 \in DOMAIN t
  BY SMTT(20), <1>1, TreeNodes
<1>3. ASSUME NEW n \in DOMAIN t
      PROVE  x(n).slot \in Nat /\ x(n).hash = x(n).slot /\ (x(n).slot # 0 => x(n).parent < x(n).slot)
  <2>1. x(n) \in Objects(sup, kn, cur)
    BY SMTT(20), <1>1, <1>2
  <2>2. x(n).slot \in kn /\ x(n).hash = x(n).slot /\ (x(n).slot # 0 => x(n).parent < x(n).slot)
    BY <2>1 DEF Objects, ObjectRecord
  <2> QED BY <2>2, SlotNumbers
<1>4. ASSUME NEW n \in DOMAIN t, t[n].parent # 0
      PROVE  x(t[n].parent).slot < x(n).slot
  <2>1. x(t[n].parent).hash = x(n).parent /\ x(1).slot = 0
        /\ \A m \in DOMAIN t : x(m).hash = x(n).hash => m = n
    BY <1>1, <1>2, <1>4 DEF Rooted, WellShaped
  <2>2. x(n).slot # 0
    BY <1>2, <1>3, <1>4, <2>1
  <2>3. x(t[n].parent).slot = x(n).parent
    BY <1>2, <1>3, <1>4, <2>1
  <2> QED BY <1>3, <2>2, <2>3
<1>5. Climbs(h, t)
  BY <1>3, <1>4 DEF Climbs, SlotAt
<1> QED BY <1>5 DEF h, t

\* CreateProposal makes a block: it follows an earlier one, and the quorums it
\* carries are support quorums about earlier ones.
LEMMA CreateProposalType ==
    ASSUME NEW sup \in SUBSET Slots, NEW kn \in SUBSET Slots, NEW kn2, NEW cur \in Slots,
           cur \notin kn, cur \in kn2, NEW nd, InOrder(nd, sup, kn, cur)
    PROVE  LET b == CreateProposal(nd, cur)
           IN b \in Blocks(sup, kn2) /\ b.slot = cur
<1> DEFINE h == nd.heap
           t == nd.tree
           latest == GetLatestBlock(h, t)
           found == PrecommitBlocks(h, t, latest)
           evid == [i \in DOMAIN found |-> h[found[i]].vq]
           parent == h[t[latest].data].hash
           P == {o \in DOMAIN h : h[o].state = "Precommit"}
<1>0. CreateProposal(nd, cur) = [slot |-> cur, parent |-> parent, evid |-> evid]
  BY DEF CreateProposal
<1>1. h \in Seq(Objects(sup, kn, cur)) /\ Len(h) \in Nat /\ DOMAIN h = 1..Len(h) /\ IsTree(t, Len(h))
  BY DEF InOrder
<1> HIDE DEF h, t
<1>2. latest \in DOMAIN t
  BY <1>1, LatestType
<1> HIDE DEF latest
<1>3. t[latest].data \in DOMAIN h
  BY <1>1, <1>2, TreeNodes
<1>4. parent \in Slots /\ parent < cur
  <2>1. h[t[latest].data] \in Objects(sup, kn, cur)
    BY <1>1, <1>3
  <2>2. parent \in kn /\ parent <= cur
    BY <2>1 DEF Objects, ObjectRecord
  <2>3. parent \in Int /\ cur \in Int /\ parent # cur
    BY <2>2, SlotNumbers
  <2> HIDE DEF parent
  <2> QED BY <2>2, <2>3
<1>5. found \in Seq(P)
  BY <1>1, <1>2, PrecommitType
<1>6. ASSUME NEW o \in P
      PROVE  h[o].vq \in Evidence(sup) /\ h[o].vq.hash < cur
  <2>1. h[o] \in Objects(sup, kn, cur) /\ h[o].state = "Precommit"
    BY <1>1
  <2>2. h[o].vq \in Quorums(sup) /\ h[o].vq.type = "Support" /\ h[o].vq.hash < cur
    BY <2>1 DEF Objects, ObjectRecord
  <2> QED BY <2>2 DEF Quorums, Evidence
<1> HIDE DEF P, found
<1>7. evid \in Seq(Evidence(sup)) /\ \A i \in DOMAIN evid : evid[i].hash < cur
  <2>1. Len(found) \in Nat /\ DOMAIN found = 1..Len(found) /\ \A i \in DOMAIN found : found[i] \in P
    BY <1>5
  <2>2. evid \in [1..Len(found) -> Evidence(sup)]
    BY <1>6, <2>1
  <2>3. \A i \in DOMAIN evid : evid[i].hash < cur
    BY <1>6, <2>1
  <2> HIDE DEF evid
  <2> QED BY <2>1, <2>2, <2>3, FunctionSeq
<1> HIDE DEF evid, parent
<1> DEFINE b == [slot |-> cur, parent |-> parent, evid |-> evid]
<1>8. b \in Blocks(sup, kn2) /\ b.slot = cur
  BY <1>4, <1>7 DEF Blocks
<1> QED BY <1>0, <1>8
=============================================================================

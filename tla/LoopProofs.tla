----------------------------- MODULE LoopProofs -----------------------------
(***************************************************************************)
(* What the proofs about lists and trees rest on: induction over numbers,  *)
(* with a set in the place of the property (the provers do not instantiate *)
(* one), and loops written as recursive functions.  Such a definition only *)
(* means something once a function is shown to satisfy it.                 *)
(***************************************************************************)
EXTENDS Integers, Sequences, WellFoundedInduction, TLAPS

\* A set of numbers that is not empty has a least element.
LEMMA LeastNumber ==
    ASSUME NEW T \in SUBSET Nat, T # {}
    PROVE  \E m \in T : \A k \in T : m <= k
<1> DEFINE R == OpToRel(<, Nat)
<1>1. IsWellFoundedOn(R, Nat)
  BY Zenon, NatLessThanWellFounded
<1> HIDE DEF R
<1>2. PICK m \in T : \A k \in T : ~(<<k, m>> \in R)
  BY Zenon, <1>1, WFMin
<1>3. \A k \in T : ~(k < m)
  BY Zenon, <1>2 DEF R, OpToRel
<1> QED BY <1>3

\* Induction up to a bound.
LEMMA UpTo ==
    ASSUME NEW n \in Nat, NEW S, 0 \in S,
           \A k \in 0..(n - 1) : k \in S => k + 1 \in S
    PROVE  n \in S /\ \A k \in 0..n : k \in S
<1> DEFINE T == {k \in 0..n : k \notin S}
<1>0. SUFFICES ASSUME T # {} PROVE FALSE
  OBVIOUS
<1>1. T \in SUBSET Nat
  OBVIOUS
<1>2. PICK m \in T : \A k \in T : m <= k
  <2> HIDE DEF T
  <2> QED BY <1>0, <1>1, LeastNumber
<1>3. m # 0 /\ m - 1 \in 0..(n - 1) /\ m - 1 \notin T
  BY <1>2
<1> QED BY <1>3

\* A definition by recursion, f[x] = G[x, f], in which x uses the values of the
\* arguments in R[x] only, and those have a smaller rank.
Recursion(D, A, M, rank, R, G) ==
    /\ A # {}
    /\ M \in Nat
    /\ rank \in [D -> 0..M]
    /\ R \in [D -> SUBSET D]
    /\ \A x \in D : \A y \in R[x] : rank[y] < rank[x]
    /\ G \in [D \X [D -> A] -> A]
    /\ \A x \in D : \A f, g \in [D -> A] :
          (\A y \in R[x] : f[y] = g[y]) => G[<<x, f>>] = G[<<x, g>>]

Solves(f, D, A, G) == f \in [D -> A] /\ \A x \in D : f[x] = G[<<x, f>>]

\* Such a definition defines something.
LEMMA RecursionExists ==
    ASSUME NEW D, NEW A, NEW M, NEW rank, NEW R, NEW G,
           Recursion(D, A, M, rank, R, G)
    PROVE  \E f : Solves(f, D, A, G)
<1> USE DEF Recursion
<1> DEFINE S == {k \in 0..(M + 1) :
                    \E f \in [D -> A] : \A x \in D : rank[x] < k => f[x] = G[<<x, f>>]}
<1>1. 0 \in S
  <2>1. PICK a \in A : TRUE
    OBVIOUS
  <2> DEFINE c == [x \in D |-> a]
  <2>2. c \in [D -> A] /\ \A x \in D : ~(rank[x] < 0)
    OBVIOUS
  <2>3. 0 \in 0..(M + 1)
    OBVIOUS
  <2> HIDE DEF c
  <2> QED BY <2>2, <2>3
<1>2. ASSUME NEW k \in 0..M, k \in S PROVE k + 1 \in S
  <2>1. PICK f \in [D -> A] : \A x \in D : rank[x] < k => f[x] = G[<<x, f>>]
    BY Zenon, <1>2
  <2> DEFINE g == [x \in D |-> G[<<x, f>>]]
  <2>2. g \in [D -> A]
    OBVIOUS
  <2>3. ASSUME NEW x \in D, rank[x] < k + 1 PROVE g[x] = G[<<x, g>>]
    <3>1. \A y \in R[x] : y \in D /\ rank[y] < k
      BY <2>3
    <3>2. \A y \in R[x] : f[y] = g[y]
      BY <2>1, <3>1
    <3>3. G[<<x, f>>] = G[<<x, g>>]
      <4> HIDE DEF g
      <4> QED BY Zenon, <2>2, <3>2
    <3> QED BY <3>3
  <2>4. k + 1 \in 0..(M + 1)
    OBVIOUS
  <2> HIDE DEF g
  <2> QED BY <2>2, <2>3, <2>4
<1>3. M + 1 \in S
  <2>1. M + 1 \in Nat /\ (M + 1) - 1 = M
    OBVIOUS
  <2> HIDE DEF S
  <2> QED BY <1>1, <1>2, <2>1, UpTo
<1>4. \A x \in D : rank[x] < M + 1
  OBVIOUS
<1> QED BY Zenon, <1>3, <1>4 DEF Solves

\* Induction along such a definition.
LEMMA RecursionInduction ==
    ASSUME NEW D, NEW A, NEW M, NEW rank, NEW R, NEW G,
           Recursion(D, A, M, rank, R, G),
           NEW S, \A x \in D : (\A y \in R[x] : y \in S) => x \in S
    PROVE  \A x \in D : x \in S
<1> DEFINE T == {rank[x] : x \in D \ S}
<1> SUFFICES ASSUME T # {} PROVE FALSE
  OBVIOUS
<1>1. T \in SUBSET Nat
  BY DEF Recursion
<1>2. PICK m \in T : \A k \in T : m <= k
  <2> HIDE DEF T
  <2> QED BY <1>1, LeastNumber
<1>3. PICK x \in D : x \notin S /\ m = rank[x]
  OBVIOUS
<1>4. PICK y \in R[x] : y \notin S
  BY <1>3
<1>5. y \in D /\ rank[y] < rank[x] /\ rank[y] \in Nat /\ rank[x] \in Nat
  BY DEF Recursion
<1>6. rank[y] \in T
  BY <1>4, <1>5
<1> QED BY <1>2, <1>3, <1>5, <1>6

\* The results of doing something for 1, 2, ... n in turn.
Iterates(f, n, A, base, G) ==
    /\ f \in [0..n -> A]
    /\ f[0] = base
    /\ \A k \in 0..n : k # 0 => k \in 1..n /\ f[k - 1] \in A /\ f[k] = G[<<k, f[k - 1]>>]

\* They are the values of a function.
LEMMA IterationExists ==
    ASSUME NEW n \in Nat, NEW A, NEW base \in A, NEW G \in [(1..n) \X A -> A]
    PROVE  \E f : Iterates(f, n, A, base, G)
<1> DEFINE S == {m \in 0..n : \E f \in [0..n -> A] :
                    f[0] = base /\ \A k \in 1..m : f[k] = G[<<k, f[k - 1]>>]}
<1>1. 0 \in S
  <2> DEFINE c == [k \in 0..n |-> base]
  <2>1. c \in [0..n -> A] /\ c[0] = base /\ 1..0 = {}
    OBVIOUS
  <2> HIDE DEF c
  <2> QED BY <2>1
<1>2. ASSUME NEW m \in 0..(n - 1), m \in S PROVE m + 1 \in S
  <2>1. PICK f \in [0..n -> A] : f[0] = base /\ \A k \in 1..m : f[k] = G[<<k, f[k - 1]>>]
    BY <1>2
  <2> DEFINE g == [f EXCEPT ![m + 1] = G[<<m + 1, f[m]>>]]
  <2>2. m + 1 \in 1..n /\ m \in 0..n /\ (m + 1) - 1 = m /\ m + 1 # 0
    OBVIOUS
  <2>3. g \in [0..n -> A] /\ g[0] = base
    BY <2>1, <2>2
  <2>4. ASSUME NEW k \in 1..(m + 1) PROVE g[k] = G[<<k, g[k - 1]>>]
    <3>1. k - 1 \in 0..n /\ k \in 0..n /\ k - 1 # m + 1
      OBVIOUS
    <3>2. g[k - 1] = f[k - 1]
      BY <3>1
    <3>3. CASE k = m + 1
      <4>1. g[k] = G[<<k, f[m]>>]
        BY <2>2, <3>3
      <4>2. k - 1 = m
        BY <2>2, <3>3
      <4> QED BY Zenon, <3>2, <4>1, <4>2
    <3>4. CASE k # m + 1
      BY <2>1, <3>1, <3>2, <3>4
    <3> QED BY <3>3, <3>4
  <2>5. m + 1 \in 0..n
    OBVIOUS
  <2> HIDE DEF g
  <2> QED BY <2>3, <2>4, <2>5
<1> HIDE DEF S
<1>3. n \in S
  BY <1>1, <1>2, UpTo
<1>4. PICK f \in [0..n -> A] : f[0] = base /\ \A k \in 1..n : f[k] = G[<<k, f[k - 1]>>]
  BY <1>3 DEF S
<1>5. \A k \in 0..n : k # 0 => k \in 1..n /\ k - 1 \in 0..n
  OBVIOUS
<1> QED BY <1>4, <1>5 DEF Iterates

\* A function that takes these steps as long as its values are of the type of
\* the results.
Follows(g, n, A, base, G) ==
    /\ g[0] = base
    /\ \A k \in 1..n : g[k - 1] \in A => g[k] = G[<<k, g[k - 1]>>]

\* Its values are of that type.
LEMMA IterationType ==
    ASSUME NEW n \in Nat, NEW A, NEW base \in A, NEW G \in [(1..n) \X A -> A],
           NEW g, Follows(g, n, A, base, G)
    PROVE  g[n] \in A /\ \A k \in 0..n : g[k] \in A
<1> USE DEF Follows
<1> DEFINE S == {k \in 0..n : g[k] \in A}
<1>1. 0 \in S
  OBVIOUS
<1>2. ASSUME NEW k \in 0..(n - 1), k \in S PROVE k + 1 \in S
  <2>1. k + 1 \in 1..n /\ (k + 1) - 1 = k /\ k + 1 \in 0..n
    OBVIOUS
  <2>2. g[k + 1] = G[<<k + 1, g[k]>>] /\ g[k] \in A
    BY <1>2, <2>1
  <2> QED BY <2>1, <2>2
<1> HIDE DEF S
<1>3. n \in S /\ \A k \in 0..n : k \in S
  BY <1>1, <1>2, UpTo
<1> QED BY <1>3 DEF S

-----------------------------------------------------------------------------
(* Sequences *)

\* A sequence of elements of a set is one of elements of a larger set.
LEMMA SeqMonotone ==
    ASSUME NEW A, NEW B, \A x \in A : x \in B, NEW q \in Seq(A)
    PROVE  q \in Seq(B)
  OBVIOUS

\* A function on 1..n is a sequence of its values.
LEMMA FunctionSeq ==
    ASSUME NEW X, NEW n \in Nat, NEW r \in [1..n -> X]
    PROVE  r \in Seq(X) /\ Len(r) = n
  OBVIOUS

\* The first elements of a sequence.
LEMMA Shortened ==
    ASSUME NEW X, NEW q \in Seq(X), NEW m \in 0..Len(q)
    PROVE  SubSeq(q, 1, m) \in Seq(X) /\ Len(SubSeq(q, 1, m)) = m
<1>1. \A i \in 1..m : i \in 1..Len(q)
  OBVIOUS
<1> QED BY <1>1

\* Append adds one element.
LEMMA Appended ==
    ASSUME NEW A, NEW u \in Seq(A), NEW o \in A
    PROVE  /\ Append(u, o) \in Seq(A)
           /\ Len(Append(u, o)) = Len(u) + 1
           /\ Append(u, o)[Len(u) + 1] = o
           /\ \A i \in DOMAIN u : Append(u, o)[i] = u[i]
           /\ \A i \in DOMAIN Append(u, o) :
                 (i \in DOMAIN u /\ Append(u, o)[i] = u[i]) \/ Append(u, o)[i] = o
  OBVIOUS
\* A list q that is x and then the list r.
Heads(q, x, r) ==
    /\ Len(r) \in Nat /\ Len(q) = Len(r) + 1
    /\ DOMAIN q = 1..(Len(r) + 1) /\ DOMAIN r = 1..Len(r)
    /\ q[1] = x
    /\ \A i \in 1..Len(r) : q[i + 1] = r[i]

\* So does putting an element before the others.
LEMMA Prefixed ==
    ASSUME NEW A, NEW x \in A, NEW r \in Seq(A)
    PROVE  Heads(<<x>> \o r, x, r)
  BY DEF Heads

\* One list after another.
LEMMA Concatenated ==
    ASSUME NEW A, NEW q \in Seq(A), NEW r \in Seq(A), NEW s, s = q \o r
    PROVE  /\ s \in Seq(A) /\ Len(s) = Len(q) + Len(r)
           /\ Len(q) \in Nat /\ Len(r) \in Nat
           /\ DOMAIN s = 1..(Len(q) + Len(r))
           /\ DOMAIN q = 1..Len(q) /\ DOMAIN r = 1..Len(r)
           /\ \A i \in 1..Len(q) : s[i] = q[i]
           /\ \A i \in 1..Len(r) : s[Len(q) + i] = r[i]
  OBVIOUS
=============================================================================

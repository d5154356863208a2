------------------------- MODULE ThresholdSignature -------------------------
(***************************************************************************)
(* Shamir shares of the cluster's key and the recovery of the cluster's    *)
(* signature from the validators' (crypto/threshold, with the key          *)
(* generation of cmd/commands and privval that uses it).                   *)
(*                                                                         *)
(* Scalars are taken modulo a small prime.  A BLS signature of the message *)
(* in question is a scalar multiple of one point, and is represented by    *)
(* the scalar; sums and multiples of signatures are those of the scalars.  *)
(***************************************************************************)
EXTENDS Integers, Sequences, SequencesExt, Functions

CONSTANTS
    P,                  \* order of the group, a prime
    N,                  \* cluster_count
    Thres,              \* --thres of gen-genesis-block and gen-validator
    Threshold           \* --threshold of the node

ASSUME ThresholdAssumption ==
    /\ P \in Nat /\ N \in 1..(P - 1)
    /\ \A a, b \in 1..(P - 1) : (a * b) % P # 0
    /\ Thres \in Nat \ {0} /\ Threshold \in Nat \ {0}

VARIABLES
    polys,              \* coefficients of the polynomial, the first the key
    ids                 \* indices of the votes that have come in, plus one

vars == <<polys, ids>>

Scalars == 0..(P - 1)
NoSignature == -1

\* Master(priv, d, seed): d random coefficients after the key.
Master(d) == [1..(d + 1) -> Scalars]

\* GetValue: the share of validator idx.
GetValue(idx) ==
    LET step(acc, a) == [base |-> (acc.base * idx) % P,
                         res |-> (acc.res + a * acc.base) % P]
    IN FoldLeft(step, [base |-> 1, res |-> 0], polys).res

\* GenFilePVWithSeedAndIdx: the key of a validator, numbered from 1.
PrivKey(idx) == GetValue(idx)

\* PrivKey.Sign
Sign(priv) == priv

\* Scalar.Div
Div(a, b) == CHOOSE q \in Scalars : (q * b) % P = a % P

\* recovery that forgets that b_i starts at xs[i].
recoveryFromOne(ys, xs) ==
    LET a == FoldLeft(LAMBDA r, x : (r * x) % P, 1, xs)
        b(i) == FoldLeft(LAMBDA r, j : IF i = j THEN r ELSE (r * (xs[j] - xs[i])) % P,
                         1, [k \in DOMAIN xs |-> k])
    IN IF ~IsInjective(xs) THEN NoSignature
       ELSE FoldLeft(LAMBDA r, i : (r + Div(a, b(i)) * ys[i]) % P, 0, [k \in DOMAIN ys |-> k])

\* recovery: Lagrange's formula at 0.
recovery(ys, xs) ==
    LET a == FoldLeft(LAMBDA r, x : (r * x) % P, 1, xs)
        b(i) == FoldLeft(LAMBDA r, j : IF i = j THEN r ELSE (r * (xs[j] - xs[i])) % P,
                         xs[i], [k \in DOMAIN xs |-> k])
    IN IF ~IsInjective(xs) THEN NoSignature
       ELSE FoldLeft(LAMBDA r, i : (r + Div(a, b(i)) * ys[i]) % P, 0, [k \in DOMAIN ys |-> k])

SignatureRecovery(threshold, sigs, xs) ==
    CASE Len(xs) # Len(sigs) \/ sigs = <<>> \/ Len(sigs) < threshold -> NoSignature
      [] Len(sigs) = 1 /\ Len(sigs) >= threshold -> sigs[1]
      [] OTHER -> recovery(sigs, xs)

\* genGenesisFile and GenFilePVWithSeedAndIdx build the same polynomial.
Init ==
    /\ polys \in Master(Thres)
    /\ ids = <<>>

\* A vote comes in; getSignsAndIdsFromVotes adds one to the index.
AddVote(index) ==
    /\ Len(ids) < N
    /\ ids' = Append(ids, index + 1)
    /\ UNCHANGED polys

Next == \E index \in 0..(N - 1) : AddVote(index)

Spec == Init /\ [][Next]_vars

\* What TryGenQuorum passes to SignatureRecovery, and what it gets.
Signature ==
    SignatureRecovery(Threshold, [i \in DOMAIN ids |-> Sign(PrivKey(ids[i]))], ids)

-----------------------------------------------------------------------------
(* Properties *)

\* From the votes of more validators than the polynomial has random
\* coefficients, in any order, the cluster's signature is recovered; votes of
\* the same validator recover nothing.
RecoversPrimary ==
    IF IsInjective(ids)
    THEN Len(ids) > Thres /\ Len(ids) >= Threshold => Signature = Sign(polys[1])
    ELSE Len(ids) >= Threshold => Signature = NoSignature

\* Threshold votes of different validators are enough for the cluster's
\* signature.
ThresholdSuffices ==
    IsInjective(ids) /\ Len(ids) >= Threshold => Signature = Sign(polys[1])
=============================================================================

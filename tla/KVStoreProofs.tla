---------------------------- MODULE KVStoreProofs ----------------------------
(***************************************************************************)
(* Proof that the SmallBank store implements Bank, for any number of       *)
(* overlapping requests and any blocks, conflicts and amalgamates to       *)
(* oneself included, when no request comes between the increment of        *)
(* increasingID and its read in another (AtomicID).                        *)
(*                                                                         *)
(* Inv is the inductive invariant.  A customID belongs to one name, and    *)
(* the rows of a request to no open account and no other request           *)
(* (Identities); no request is for an account of the block (Apart); and    *)
(* the batch has the writes of the transactions applied so far, in their   *)
(* order and as they would be if they were computed now (Collected),       *)
(* because nothing else touches the rows they were computed from.          *)
(*                                                                         *)
(* Most steps leave Money alone; SetAccount closes an account, SetSaving   *)
(* opens one.  WriteBatch is the whole block: what the writes of the first *)
(* k transactions make of the tables is what Bank makes of the balances in *)
(* k steps, by induction on k (BlockExecuted).                             *)
(***************************************************************************)
EXTENDS KVStore, LoopProofs, TLAPS

\* Zenon is tried first, then the SMT solver, both with more than their default
\* time.  Leaves about numbers and sequences name the SMT solver at once.
USE ZenonT(20), SMTT(20)

\* The tables a batch writes to, its writes, and the balances of one table.
Tables == {"checking", "saving"}
Writes == [table : Tables, id : IDs, value : Int]
Rows == [IDs -> Int]

-----------------------------------------------------------------------------
(* Folds over a batch and over a block *)

\* w is an element of the sequence q.
Has(q, w) == \E i \in DOMAIN q : w = q[i]

\* A sequence that goes on with another has the elements of both.
LEMMA Joined ==
    ASSUME NEW X, NEW p \in Seq(X), NEW q \in Seq(X)
    PROVE  /\ p \o q \in Seq(X)
           /\ \A w : Has(p \o q, w) <=> Has(p, w) \/ Has(q, w)
<1> DEFINE r == p \o q
<1>1. /\ r \in Seq(X) /\ Len(p) \in Nat /\ Len(q) \in Nat
      /\ DOMAIN p = 1..Len(p) /\ DOMAIN q = 1..Len(q)
      /\ DOMAIN r = 1..(Len(p) + Len(q))
  OBVIOUS
<1>2. \A i \in 1..Len(p) : i \in DOMAIN r /\ r[i] = p[i]
  OBVIOUS
<1>3. \A i \in 1..Len(q) : i + Len(p) \in DOMAIN r /\ r[i + Len(p)] = q[i]
  OBVIOUS
<1>4. ASSUME NEW i \in DOMAIN r
      PROVE  (i \in DOMAIN p /\ r[i] = p[i])
             \/ (i - Len(p) \in DOMAIN q /\ r[i] = q[i - Len(p)])
  BY <1>1
<1> HIDE DEF r
<1>5. \A w : Has(r, w) <=> Has(p, w) \/ Has(q, w)
  BY <1>1, <1>2, <1>3, <1>4 DEF Has
<1> QED BY <1>1, <1>5 DEF r

\* The table after batch.Write.
Written(table, old, q) ==
    LET rows[k \in 0..Len(q)] ==
            IF k = 0 THEN old
            ELSE IF q[k].table = table THEN [rows[k-1] EXCEPT ![q[k].id] = q[k].value]
            ELSE rows[k-1]
    IN rows[Len(q)]

\* One write, to a table.
Overwrite(table, rows, w) == IF w.table = table THEN [rows EXCEPT ![w.id] = w.value] ELSE rows

\* Q is the table after each of the writes of a batch.
Stages(Q, table, old, q) ==
    /\ Q \in [0..Len(q) -> Rows]
    /\ Q[0] = old
    /\ \A k \in 1..Len(q) : Q[k] = Overwrite(table, Q[k - 1], q[k])
    /\ Q[Len(q)] = Written(table, old, q)

\* batch.Write makes the writes of the batch one after the other.
LEMMA WrittenStages ==
    ASSUME NEW q \in Seq(Writes), NEW table, NEW old \in Rows
    PROVE  \E Q : Stages(Q, table, old, q)
<1> DEFINE n == Len(q)
           op(t, w) == Overwrite(table, t, w)
           G == [p \in (1..n) \X Rows |-> op(p[2], q[p[1]])]
           Eq(f) == f = [j \in 0..n |-> IF j = 0 THEN old ELSE op(f[j - 1], q[j])]
           g == CHOOSE f : Eq(f)
<1>1. Written(table, old, q) = g[n]
  BY DEF Written, Overwrite
<1>2. n \in Nat /\ DOMAIN q = 1..n /\ \A j \in 1..n : q[j] \in Writes
  OBVIOUS
<1>3. ASSUME NEW t \in Rows, NEW w \in Writes PROVE op(t, w) \in Rows
  BY DEF Rows, Writes, Overwrite
<1> HIDE DEF n, op
<1>5. G \in [(1..n) \X Rows -> Rows] /\ \A j \in 1..n, a \in Rows : G[<<j, a>>] = op(a, q[j])
  BY <1>2, <1>3
<1> HIDE DEF G
<1>6. \E f : Eq(f)
  <2>1. PICK f : Iterates(f, n, Rows, old, G)
    BY <1>2, <1>5, IterationExists
  <2>2. ASSUME NEW j \in 0..n
        PROVE  f[j] = IF j = 0 THEN old ELSE op(f[j - 1], q[j])
    BY <1>5, <2>1 DEF Iterates
  <2>3. f = [j \in 0..n |-> f[j]]
    BY <2>1 DEF Iterates
  <2> QED BY <2>2, <2>3
<1>7. Eq(g)
  BY <1>6
<1> HIDE DEF g
<1>8. Follows(g, n, Rows, old, G)
  <2>1. g[0] = old
    BY SMTT(20), <1>2, <1>7
  <2>2. \A j \in 1..n : g[j] = op(g[j - 1], q[j])
    BY SMTT(20), <1>2, <1>7
  <2> QED BY <1>5, <2>1, <2>2 DEF Follows
<1>9. \A j \in 0..n : g[j] \in Rows
  BY <1>2, <1>5, <1>8, IterationType
<1>10. \A k \in 1..n : g[k] = op(g[k - 1], q[k])
  BY SMTT(20), <1>2, <1>7
<1>11. g \in [0..n -> Rows] /\ g[0] = old
  BY <1>7, <1>8, <1>9 DEF Follows
<1> QED BY <1>1, <1>10, <1>11 DEF n, op, Stages

\* An empty batch leaves the table as it is.
LEMMA WrittenNone ==
    ASSUME NEW table, NEW old \in Rows
    PROVE  Written(table, old, <<>>) = old
<1> DEFINE q == <<>>
<1>1. q \in Seq(Writes) /\ Len(q) = 0
  OBVIOUS
<1> HIDE DEF q
<1>2. PICK Q : Stages(Q, table, old, q)
  BY <1>1, WrittenStages
<1>3. Written(table, old, q) = old
  BY <1>1, <1>2 DEF Stages
<1> QED BY <1>3 DEF q

\* A write more at the end of the batch.
LEMMA WrittenAppend ==
    ASSUME NEW q \in Seq(Writes), NEW w \in Writes, NEW table, NEW old \in Rows
    PROVE  /\ Written(table, old, q) \in Rows
           /\ Append(q, w) \in Seq(Writes)
           /\ Written(table, old, Append(q, w)) = Overwrite(table, Written(table, old, q), w)
<1> DEFINE n == Len(q)
           r == Append(q, w)
<1>1. /\ n \in Nat /\ r \in Seq(Writes) /\ Len(r) = n + 1 /\ r[n + 1] = w
      /\ \A k \in 1..n : r[k] = q[k]
  OBVIOUS
<1>2. PICK P : Stages(P, table, old, q)
  BY WrittenStages
<1>3. PICK R : Stages(R, table, old, r)
  BY <1>1, WrittenStages
<1> HIDE DEF n, r
<1> DEFINE S == {k \in 0..n : R[k] = P[k]}
<1>4. \A k \in 1..n : /\ R[k] = Overwrite(table, R[k - 1], q[k])
                      /\ P[k] = Overwrite(table, P[k - 1], q[k])
  <2>1. \A k \in 1..n : k \in 1..Len(r)
    BY SMTT(20), <1>1
  <2> QED BY <1>1, <1>2, <1>3, <2>1 DEF Stages, n
<1>5. 0 \in S
  BY SMTT(20), <1>1, <1>2, <1>3 DEF Stages
<1>6. ASSUME NEW k \in 0..(n - 1), k \in S PROVE k + 1 \in S
  <2>1. k + 1 \in 1..n /\ (k + 1) - 1 = k /\ k + 1 \in 0..n
    BY SMTT(20), <1>1
  <2>2. R[k + 1] = Overwrite(table, R[k], q[k + 1]) /\ P[k + 1] = Overwrite(table, P[k], q[k + 1])
    BY <1>4, <2>1
  <2> QED BY <1>6, <2>1, <2>2
<1> HIDE DEF S
<1>7. n \in S
  BY <1>1, <1>5, <1>6, UpTo
<1>8. R[n] = P[n]
  BY <1>7 DEF S
<1>9. R[n + 1] = Overwrite(table, R[n], w)
  <2>1. n + 1 \in 1..Len(r) /\ (n + 1) - 1 = n
    BY SMTT(20), <1>1
  <2> QED BY <1>1, <1>3, <2>1 DEF Stages
<1>10. R[n + 1] = Written(table, old, r)
  BY <1>1, <1>3 DEF Stages
<1>11. P[n] = Written(table, old, q) /\ P[n] \in Rows
  <2>1. n \in 0..Len(q)
    BY SMTT(20), <1>1 DEF n
  <2> QED BY <1>2, <2>1 DEF Stages, n
<1> QED BY <1>1, <1>8, <1>9, <1>10, <1>11 DEF r

\* A batch leaves the rows alone that none of its writes is for.
LEMMA WrittenKeeps ==
    ASSUME NEW q \in Seq(Writes), NEW table, NEW old \in Rows, NEW r \in IDs,
           \A i \in DOMAIN q : q[i].id # r
    PROVE  Written(table, old, q) \in Rows /\ Written(table, old, q)[r] = old[r]
<1> DEFINE n == Len(q)
<1>1. n \in Nat /\ \A k \in 1..n : q[k] \in Writes /\ q[k].id # r
  OBVIOUS
<1>2. PICK P : Stages(P, table, old, q)
  BY WrittenStages
<1> HIDE DEF n
<1> DEFINE S == {k \in 0..n : P[k][r] = old[r]}
<1>3. 0 \in S
  BY SMTT(20), <1>1, <1>2 DEF Stages
<1>4. ASSUME NEW k \in 0..(n - 1), k \in S PROVE k + 1 \in S
  <2>1. k + 1 \in 1..n /\ (k + 1) - 1 = k /\ k \in 0..n /\ k + 1 \in 0..n
    BY SMTT(20), <1>1
  <2>2. P[k + 1] = Overwrite(table, P[k], q[k + 1]) /\ P[k] \in Rows
    BY <1>2, <2>1 DEF Stages, n
  <2>3. q[k + 1].id # r
    BY <1>1, <2>1
  <2>4. P[k + 1][r] = P[k][r]
    BY <2>2, <2>3 DEF Overwrite, Rows
  <2> QED BY <1>4, <2>1, <2>4
<1> HIDE DEF S
<1>5. n \in S
  BY <1>1, <1>3, <1>4, UpTo
<1>6. n \in 0..n
  BY SMTT(20), <1>1
<1> QED BY <1>2, <1>5, <1>6 DEF S, Stages, n

-----------------------------------------------------------------------------
(* The inductive invariant *)

\* How far a request may be.
Requests ==
    {Idle} \cup [pc : {"added", "account", "checking", "saving"}, name : Names,
                 saving : Amounts, checking : Amounts, id : IDs]

\* The types of the variables.
Types ==
    /\ account \in [Names -> IDs]
    /\ checking \in Rows
    /\ saving \in Rows
    /\ increasingID \in 1..(MaxID + 1)
    /\ request \in [Clients -> Requests]
    /\ block \in Seq(Txs) /\ (block # <<>> => Len(block) \in 1..MaxTxs)
    /\ applied \in 0..Len(block)
    /\ batch \in Seq(Writes)

\* A request that has its customID.
Numbered(r) == r.pc \in {"account", "checking", "saving"}

\* What the tables and increasingID have for a request r under way: its customID is
\* no other name's, it is the name's from SetAccount on, and the row has the checking
\* balance from SetChecking on.
Lawful(r, acc, chk, next) ==
    /\ r.pc = "added" => \A n \in Names : acc[n] < next - 1
    /\ Numbered(r) => r.id # 0 /\ r.id < next
    /\ r.pc = "account" => \A n \in Names : acc[n] # r.id
    /\ r.pc \in {"checking", "saving"} => acc[r.name] = r.id
    /\ r.pc = "saving" => chk[r.id] = r.checking

\* Two requests under way: for different names and with different customIDs; one of
\* them at most is between AddInt32 and the read, and what it will read is not the
\* customID of the other.
Compatible(r, t, next) ==
    /\ r # Idle /\ t # Idle => r.name # t.name
    /\ r.pc = "added" => t.pc # "added"
    /\ r.pc = "added" /\ Numbered(t) => t.id < next - 1
    /\ t.pc = "added" /\ Numbered(r) => r.id < next - 1
    /\ Numbered(r) /\ Numbered(t) => r.id # t.id

\* A customID is given to one name, and a request has its own.
Identities ==
    /\ DistinctIDs
    /\ \A n \in Names : account[n] < increasingID
    /\ \A c \in Clients : Lawful(request[c], account, checking, increasingID)
    /\ \A c, d \in Clients : c # d => Compatible(request[c], request[d], increasingID)

\* The accounts a transaction reads and writes, when acc has the customIDs.
Touches(acc, tx) == {acc[n] : n \in Parties(tx)}

\* The writes of ApplySmallBank over the tables acc, chk and sav.
Puts(acc, chk, sav, tx) ==
    LET id == acc[tx.name]
        to == acc[tx.to]
        total == sav[id] + chk[id]
        spent == IF total <= tx.value THEN tx.value + 1 ELSE tx.value
    IN CASE tx.type = "deposit_checking" -> <<Put("checking", id, chk[id] + tx.value)>>
         [] tx.type = "transaction_saving" -> <<Put("saving", id, sav[id] + tx.value)>>
         [] tx.type = "amalgamate" -> <<Put("checking", to, chk[to] + total),
                                        Put("saving", id, 0), Put("checking", id, 0)>>
         [] tx.type = "write_checking" -> <<Put("checking", id, chk[id] - spent)>>
         [] OTHER -> <<>>

\* No account of the block is in a request.
Apart ==
    \A i \in DOMAIN block : \A n \in Parties(block[i]), c \in Clients :
        request[c] # Idle => request[c].name # n

\* P is the batch after each of the first k transactions of txs.
Gathers(P, acc, chk, sav, txs, k) ==
    /\ P \in [0..k -> Seq(Writes)]
    /\ P[0] = <<>>
    /\ \A i \in 1..k : P[i] = P[i - 1] \o Puts(acc, chk, sav, txs[i])

\* The batch has the writes of the transactions that have been applied, as they
\* would be if they were applied now, and they are for accounts of the block.
Collected ==
    /\ \E P : /\ Gathers(P, account, checking, saving, block, applied)
              /\ P[applied] = batch
    /\ \A w : Has(batch, w) => \E i \in DOMAIN block : w.id \in Touches(account, block[i])

\* The inductive invariant.
Inv == Types /\ Identities /\ Apart /\ Collected

-----------------------------------------------------------------------------
(* Transactions *)

\* The fields of a transaction.
LEMMA TxTypes ==
    ASSUME NEW tx \in Txs
    PROVE  /\ tx.type \in {"deposit_checking", "transaction_saving", "write_checking",
                           "amalgamate", "balance"}
           /\ tx.name \in Names
           /\ tx.type = "amalgamate" => tx.to \in Names
           /\ tx.type \in {"deposit_checking", "transaction_saving", "write_checking"} =>
                 tx.value \in Int
           /\ tx.name \in Parties(tx)
           /\ Parties(tx) \subseteq Names
           /\ tx.type = "amalgamate" => tx.to \in Parties(tx)
           /\ tx.type = "amalgamate" => Parties(tx) = {tx.name, tx.to}
           /\ tx.type # "amalgamate" => Parties(tx) = {tx.name}
  BY StoreAssumption DEF Txs, Parties

\* The writes of a transaction are writes to the accounts it touches.
LEMMA PutsType ==
    ASSUME NEW acc \in [Names -> IDs], NEW chk \in Rows, NEW sav \in Rows, NEW tx \in Txs
    PROVE  /\ Puts(acc, chk, sav, tx) \in Seq(Writes)
           /\ \A w : Has(Puts(acc, chk, sav, tx), w) => w.id \in Touches(acc, tx)
<1> DEFINE id == acc[tx.name]
           to == acc[tx.to]
           total == sav[id] + chk[id]
           T == Touches(acc, tx)
<1>1. id \in IDs /\ id \in T /\ chk[id] \in Int /\ sav[id] \in Int
  BY TxTypes DEF Rows, Touches
<1>2. tx.type = "amalgamate" => to \in IDs /\ to \in T /\ chk[to] \in Int
  BY TxTypes DEF Rows, Touches
<1>3. ASSUME NEW table \in Tables, NEW i \in IDs, NEW v \in Int
      PROVE  Put(table, i, v) \in Writes /\ Put(table, i, v).id = i
  BY DEF Put, Writes
<1>4. "checking" \in Tables /\ "saving" \in Tables
  BY DEF Tables
<1> HIDE DEF id, to, T
<1>5. ASSUME NEW w \in Writes, w.id \in T, Puts(acc, chk, sav, tx) = <<w>>
      PROVE  /\ Puts(acc, chk, sav, tx) \in Seq(Writes)
             /\ \A x : Has(Puts(acc, chk, sav, tx), x) => x.id \in T
  BY <1>5 DEF Has
<1>6. CASE tx.type = "deposit_checking"
  <2> DEFINE w == Put("checking", id, chk[id] + tx.value)
  <2>1. chk[id] + tx.value \in Int
    BY <1>1, <1>6, TxTypes
  <2>2. w \in Writes /\ w.id \in T
    BY <1>1, <1>3, <1>4, <2>1
  <2>3. Puts(acc, chk, sav, tx) = <<w>>
    BY <1>6 DEF Puts, id
  <2> HIDE DEF w
  <2> QED BY <1>5, <2>2, <2>3 DEF T
<1>7. CASE tx.type = "transaction_saving"
  <2> DEFINE w == Put("saving", id, sav[id] + tx.value)
  <2>1. sav[id] + tx.value \in Int
    BY <1>1, <1>7, TxTypes
  <2>2. w \in Writes /\ w.id \in T
    BY <1>1, <1>3, <1>4, <2>1
  <2>3. Puts(acc, chk, sav, tx) = <<w>>
    BY <1>7 DEF Puts, id
  <2> HIDE DEF w
  <2> QED BY <1>5, <2>2, <2>3 DEF T
<1>8. CASE tx.type = "write_checking"
  <2> DEFINE x == chk[id] - (IF total <= tx.value THEN tx.value + 1 ELSE tx.value)
             w == Put("checking", id, x)
  <2>1. x \in Int
    <3>1. tx.value \in Int
      BY <1>8, TxTypes
    <3> QED BY <1>1, <3>1
  <2>2. Puts(acc, chk, sav, tx) = <<w>>
    BY <1>8 DEF Puts, id
  <2> HIDE DEF x
  <2>3. w \in Writes /\ w.id \in T
    BY <1>1, <1>3, <1>4, <2>1
  <2> HIDE DEF w
  <2> QED BY <1>5, <2>2, <2>3 DEF T
<1>9. CASE tx.type = "amalgamate"
  <2> DEFINE x == chk[to] + total
             u == Put("checking", to, x)
             v == Put("saving", id, 0)
             w == Put("checking", id, 0)
  <2>1. x \in Int
    BY <1>1, <1>2, <1>9
  <2>2. Puts(acc, chk, sav, tx) = <<u, v, w>>
    BY <1>9 DEF Puts, id, to
  <2> HIDE DEF x
  <2>3. /\ u \in Writes /\ u.id \in T /\ v \in Writes /\ v.id \in T
        /\ w \in Writes /\ w.id \in T
    BY <1>1, <1>2, <1>3, <1>4, <1>9, <2>1
  <2> HIDE DEF u, v, w
  <2>4. <<u, v, w>> \in Seq(Writes) /\ \A y : Has(<<u, v, w>>, y) => y \in {u, v, w}
    BY <2>3 DEF Has
  <2> QED BY <2>2, <2>3, <2>4 DEF T
<1>10. CASE tx.type = "balance"
  <2>1. Puts(acc, chk, sav, tx) = <<>>
    BY <1>10 DEF Puts
  <2> QED BY <2>1 DEF Has
<1> QED BY <1>6, <1>7, <1>8, <1>9, <1>10, TxTypes DEF T

\* ApplySmallBank makes those writes.
LEMMA ApplyPuts ==
    ASSUME NEW tx \in Txs
    PROVE  ApplySmallBank(tx) = Puts(account, checking, saving, tx)
<1>1. CASE tx.type = "amalgamate"
  BY <1>1 DEF ApplySmallBank, Puts, getTotalBal
<1>2. CASE tx.type \in {"deposit_checking", "transaction_saving"}
  BY <1>2 DEF ApplySmallBank, Puts
<1>3. CASE tx.type = "write_checking"
  BY <1>3 DEF ApplySmallBank, Puts, getTotalBal
<1>4. CASE tx.type = "balance"
  BY <1>4 DEF ApplySmallBank, Puts
<1> QED BY <1>1, <1>2, <1>3, <1>4, TxTypes

\* They depend on the accounts it touches only.
LEMMA PutsStay ==
    ASSUME NEW tx \in Txs, NEW acc, NEW chk, NEW sav, NEW acc2, NEW chk2, NEW sav2,
           \A n \in Parties(tx) : /\ acc2[n] = acc[n]
                                  /\ chk2[acc[n]] = chk[acc[n]]
                                  /\ sav2[acc[n]] = sav[acc[n]]
    PROVE  /\ Puts(acc2, chk2, sav2, tx) = Puts(acc, chk, sav, tx)
           /\ Touches(acc2, tx) = Touches(acc, tx)
<1>1. Touches(acc2, tx) = Touches(acc, tx)
  BY DEF Touches
<1>2. CASE tx.type = "amalgamate"
  <2>1. tx.name \in Parties(tx) /\ tx.to \in Parties(tx)
    BY <1>2, TxTypes
  <2> QED BY <1>1, <1>2, <2>1 DEF Puts
<1>3. CASE tx.type # "amalgamate"
  <2>1. /\ acc2[tx.name] = acc[tx.name]
        /\ chk2[acc[tx.name]] = chk[acc[tx.name]]
        /\ sav2[acc[tx.name]] = sav[acc[tx.name]]
    BY TxTypes
  <2>2. CASE tx.type = "deposit_checking"
    BY <1>1, <2>1, <2>2 DEF Puts
  <2>3. CASE tx.type = "transaction_saving"
    BY <1>1, <2>1, <2>3 DEF Puts
  <2>4. CASE tx.type = "write_checking"
    BY <1>1, <2>1, <2>4 DEF Puts
  <2>5. CASE tx.type = "balance"
    BY <1>1, <2>5 DEF Puts
  <2> QED BY <1>3, <2>2, <2>3, <2>4, <2>5, TxTypes
<1> QED BY <1>2, <1>3

\* customIDs are numbers.
LEMMA IDNumbers == \A i \in IDs : i \in Int /\ i >= 0 /\ i <= MaxID
  BY StoreAssumption DEF IDs

\* A request has the rows of its customID to itself.
LEMMA OwnRow ==
    ASSUME Inv, NEW c \in Clients, request[c].pc \in {"checking", "saving"},
           NEW n \in Names, n # request[c].name
    PROVE  account[n] # request[c].id
<1>1. request[c] \in Requests /\ request[c] # Idle
  BY DEF Inv, Types, Idle
<1>2. request[c].name \in Names
  BY <1>1 DEF Requests
<1>3. account[request[c].name] = request[c].id /\ request[c].id # 0
  BY DEF Inv, Identities, Lawful, Numbered
<1> QED BY <1>2, <1>3 DEF Inv, Identities, DistinctIDs

\* A step that leaves the accounts of the block alone.
LEMMA Undisturbed ==
    ASSUME Inv, UNCHANGED <<block, applied, batch>>,
           \A i \in DOMAIN block : \A n \in Parties(block[i]) :
               /\ account'[n] = account[n]
               /\ checking'[account[n]] = checking[account[n]]
               /\ saving'[account[n]] = saving[account[n]],
           \A i \in DOMAIN block : \A n \in Parties(block[i]), c \in Clients :
               request'[c] # Idle => request'[c].name # n
    PROVE  Apart' /\ Collected'
<1>1. ASSUME NEW i \in DOMAIN block
      PROVE  /\ block[i] \in Txs
             /\ Touches(account', block[i]) = Touches(account, block[i])
             /\ Puts(account', checking', saving', block[i]) =
                  Puts(account, checking, saving, block[i])
  <2>1. block[i] \in Txs
    BY SMTT(20) DEF Inv, Types
  <2> DEFINE tx == block[i]
  <2>2. \A n \in Parties(tx) : /\ account'[n] = account[n]
                               /\ checking'[account[n]] = checking[account[n]]
                               /\ saving'[account[n]] = saving[account[n]]
    OBVIOUS
  <2> HIDE DEF tx
  <2>3. /\ Puts(account', checking', saving', tx) = Puts(account, checking, saving, tx)
        /\ Touches(account', tx) = Touches(account, tx)
    BY SMTT(20), <2>1, <2>2, PutsStay DEF tx
  <2> QED BY <2>1, <2>3 DEF tx
<1>2. Apart'
  BY DEF Apart
<1>3. \E P : /\ Gathers(P, account', checking', saving', block, applied)
             /\ P[applied] = batch
  <2>1. \A i \in 1..applied : i \in DOMAIN block
    BY SMTT(20) DEF Inv, Types
  <2>2. PICK P : /\ Gathers(P, account, checking, saving, block, applied)
                 /\ P[applied] = batch
    BY DEF Inv, Collected
  <2>3. Gathers(P, account', checking', saving', block, applied)
    BY <1>1, <2>1, <2>2 DEF Gathers
  <2> QED BY <2>2, <2>3
<1>4. \A w : Has(batch, w) => \E i \in DOMAIN block : w.id \in Touches(account', block[i])
  BY <1>1 DEF Inv, Collected
<1> QED BY <1>2, <1>3, <1>4 DEF Collected

\* A step of one request that leaves the other requests and the accounts of the block
\* alone.
LEMMA RequestStep ==
    ASSUME Inv, UNCHANGED <<block, applied, batch>>, NEW c \in Clients,
           request' \in [Clients -> Requests],
           \A d \in Clients : d # c => request'[d] = request[d],
           account' \in [Names -> IDs], checking' \in Rows, saving' \in Rows,
           increasingID' \in 1..(MaxID + 1),
           DistinctIDs',
           \A n \in Names : account'[n] < increasingID',
           Lawful(request'[c], account', checking', increasingID'),
           \A d \in Clients : d # c =>
               /\ Lawful(request[d], account', checking', increasingID')
               /\ Compatible(request'[c], request[d], increasingID'),
           \A d, e \in Clients : d # e /\ d # c /\ e # c =>
               Compatible(request[d], request[e], increasingID'),
           \A i \in DOMAIN block : \A n \in Parties(block[i]) :
               /\ account'[n] = account[n]
               /\ checking'[account[n]] = checking[account[n]]
               /\ saving'[account[n]] = saving[account[n]],
           request'[c] # Idle =>
               \A i \in DOMAIN block : \A n \in Parties(block[i]) : request'[c].name # n
    PROVE  Inv'
<1>1. Types'
  BY DEF Inv, Types
<1>2. \A d \in Clients : Lawful(request'[d], account', checking', increasingID')
  OBVIOUS
<1>3. \A r, t : Compatible(r, t, increasingID') => Compatible(t, r, increasingID')
  BY DEF Compatible
<1>4. ASSUME NEW d \in Clients, NEW e \in Clients, d # e
      PROVE  Compatible(request'[d], request'[e], increasingID')
  BY <1>3, <1>4
<1>5. Identities'
  BY <1>2, <1>4 DEF Identities
<1>6. \A i \in DOMAIN block : \A n \in Parties(block[i]), d \in Clients :
         request'[d] # Idle => request'[d].name # n
  BY DEF Inv, Apart
<1>7. Apart' /\ Collected'
  BY <1>6, Undisturbed
<1> QED BY <1>1, <1>5, <1>7 DEF Inv

\* The tables after batch.Write.
LEMMA BatchWritten ==
    ASSUME Inv, WriteBatch
    PROVE  /\ checking' = Written("checking", checking, batch) /\ checking' \in Rows
           /\ saving' = Written("saving", saving, batch) /\ saving' \in Rows
<1>1. /\ checking' = Written("checking", checking, batch)
      /\ saving' = Written("saving", saving, batch)
  BY DEF WriteBatch, Written
<1>2. batch \in Seq(Writes) /\ checking \in Rows /\ saving \in Rows
  BY DEF Inv, Types
<1>3. ASSUME NEW table, NEW old \in Rows PROVE Written(table, old, batch) \in Rows
  <2>1. PICK Q : Stages(Q, table, old, batch)
    BY <1>2, WrittenStages
  <2>2. Len(batch) \in 0..Len(batch)
    BY SMTT(20), <1>2
  <2> QED BY <2>1, <2>2 DEF Stages
<1> QED BY <1>1, <1>2, <1>3

\* The empty database.
LEMMA InitInv == Init => Inv
<1> SUFFICES ASSUME Init PROVE Inv
  OBVIOUS
<1> USE StoreAssumption
<1>1. Types
  BY DEF Init, Types, IDs, Rows, Requests
<1>2. Identities
  <2>1. \A c \in Clients : request[c] = Idle /\ request[c].pc = "idle"
    BY DEF Init, Idle
  <2>2. \A c \in Clients : Lawful(request[c], account, checking, increasingID)
    BY <2>1 DEF Lawful, Numbered
  <2>3. \A c, d \in Clients : Compatible(request[c], request[d], increasingID)
    BY <2>1 DEF Compatible, Numbered
  <2>4. DistinctIDs /\ \A n \in Names : account[n] < increasingID
    BY SMTT(20) DEF Init, DistinctIDs
  <2> QED BY <2>2, <2>3, <2>4 DEF Identities
<1>3. Apart
  BY DEF Init, Apart
<1>4. Collected
  <2> DEFINE P == [i \in 0..applied |-> <<>>]
  <2>1. block = <<>> /\ applied = 0 /\ batch = <<>>
    BY DEF Init
  <2>2. Gathers(P, account, checking, saving, block, applied) /\ P[applied] = batch
    BY SMTT(20), <2>1 DEF Gathers
  <2>3. \A w : ~Has(batch, w)
    BY SMTT(20), <2>1 DEF Has
  <2> HIDE DEF P
  <2> QED BY <2>2, <2>3 DEF Collected
<1> QED BY <1>1, <1>2, <1>3, <1>4 DEF Inv

\* Every step keeps the invariant.
LEMMA NextInv ==
    ASSUME AtomicID, Inv, [Next]_vars
    PROVE  Inv'
<1> USE StoreAssumption
<1>0. /\ account \in [Names -> IDs] /\ checking \in Rows /\ saving \in Rows
      /\ increasingID \in 1..(MaxID + 1) /\ request \in [Clients -> Requests]
      /\ block \in Seq(Txs) /\ (block # <<>> => Len(block) \in 1..MaxTxs)
      /\ applied \in 0..Len(block) /\ batch \in Seq(Writes)
  BY DEF Inv, Types
<1>a. \A i \in DOMAIN block : \A n \in Parties(block[i]), c \in Clients :
         n \in Names /\ (request[c] # Idle => request[c].name # n)
  <2>1. \A i \in DOMAIN block : block[i] \in Txs
    BY SMTT(20), <1>0
  <2> QED BY <2>1, TxTypes DEF Inv, Apart
<1>b. \A n \in Names : account[n] \in Int /\ account[n] >= 0
  BY <1>0, IDNumbers
<1>c. ASSUME NEW c \in Clients, request[c] # Idle
      PROVE  /\ request[c].pc \in {"added", "account", "checking", "saving"}
             /\ request[c].name \in Names /\ request[c].saving \in Amounts
             /\ request[c].checking \in Amounts /\ request[c].id \in IDs
             /\ request[c].id \in Int
             /\ request[c] \in [pc : {"added", "account", "checking", "saving"}, name : Names,
                                saving : Amounts, checking : Amounts, id : IDs]
  BY <1>0, <1>c, IDNumbers DEF Requests
<1>d. \A c \in Clients : request[c].pc # "idle" => request[c] # Idle
  BY DEF Idle
<1>e. /\ DistinctIDs /\ \A n \in Names : account[n] < increasingID
      /\ \A c \in Clients : Lawful(request[c], account, checking, increasingID)
      /\ \A c, d \in Clients : c # d => Compatible(request[c], request[d], increasingID)
  BY DEF Inv, Identities
<1>f. \A c \in Clients : Numbered(request[c]) => request[c].id \in IDs /\ request[c].id \in Int
  BY <1>c, <1>d DEF Numbered
<1>1. ASSUME NEW c \in Clients, NEW name \in Names, NEW s \in Amounts, NEW k \in Amounts,
             AddID(c, name, s, k)
      PROVE  Inv'
  <2> DEFINE r == [pc |-> "added", name |-> name, saving |-> s, checking |-> k, id |-> 0]
  <2>1. /\ increasingID <= MaxID /\ ~Busy(name) /\ increasingID' = increasingID + 1
        /\ \A d \in Clients : request[d].pc # "added"
        /\ request' = [request EXCEPT ![c] = r]
        /\ UNCHANGED <<account, checking, saving, block, applied, batch>>
    BY <1>1 DEF AddID, dbVars
  <2>2. r \in Requests /\ r.pc = "added" /\ r.name = name
    BY DEF Requests, IDs
  <2> HIDE DEF r
  <2>3. /\ request' \in [Clients -> Requests] /\ request'[c] = r
        /\ \A d \in Clients : d # c => request'[d] = request[d]
    BY <1>0, <2>1, <2>2
  <2>4. increasingID' \in 1..(MaxID + 1) /\ increasingID' - 1 = increasingID
    BY SMTT(20), <1>0, <2>1
  <2>5. \A n \in Names : account[n] < increasingID' /\ account[n] < increasingID' - 1
    BY SMTT(20), <1>0, <1>b, <1>e, <2>1
  <2>6. \A d \in Clients : Numbered(request[d]) =>
           request[d].id < increasingID' /\ request[d].id < increasingID' - 1
    <3>1. \A d \in Clients : Numbered(request[d]) => request[d].id < increasingID
      BY <1>e DEF Lawful
    <3> QED BY SMTT(20), <1>0, <1>f, <2>1, <3>1
  <2>7. \A d \in Clients : Lawful(request[d], account, checking, increasingID')
    BY <1>e, <2>1, <2>6 DEF Lawful
  <2>8. Lawful(r, account, checking, increasingID') /\ ~Numbered(r)
    BY <2>2, <2>5 DEF Lawful, Numbered
  <2>9. \A d \in Clients : d # c => Compatible(r, request[d], increasingID')
    BY <2>1, <2>2, <2>6, <2>8 DEF Compatible, Busy
  <2>10. \A d, e \in Clients : d # e => Compatible(request[d], request[e], increasingID')
    BY <1>e, <2>1 DEF Compatible
  <2>11. \A i \in DOMAIN block : \A n \in Parties(block[i]) : r.name # n
    BY <2>1, <2>2 DEF Busy
  <2>12. DistinctIDs'
    BY <1>e, <2>1 DEF DistinctIDs
  <2> QED BY <1>0, <2>1, <2>3, <2>4, <2>5, <2>7, <2>8, <2>9, <2>10, <2>11, <2>12, RequestStep
<1>2. ASSUME NEW c \in Clients, ReadID(c)
      PROVE  Inv'
  <2> DEFINE r == request'[c]
  <2>1. /\ request[c].pc = "added"
        /\ request' = [request EXCEPT ![c].pc = "account", ![c].id = increasingID - 1]
        /\ UNCHANGED <<account, checking, saving, increasingID, block, applied, batch>>
    BY <1>2 DEF ReadID, dbVars
  <2>2. request[c] # Idle
    BY <1>d, <2>1
  <2>3. /\ r.pc = "account" /\ r.id = increasingID - 1 /\ r.name = request[c].name
        /\ \A d \in Clients : d # c => request'[d] = request[d]
    BY <1>0, <1>c, <2>1, <2>2
  <2>4. \A n \in Names : account[n] < increasingID - 1
    BY <1>e, <2>1 DEF Lawful
  <2>5. increasingID - 1 \in IDs /\ increasingID - 1 # 0
    BY SMTT(20), <1>0, <1>b, <1>c, <2>2, <2>4 DEF IDs
  <2>6. request' \in [Clients -> Requests]
    <3>1. r \in Requests
      BY <1>0, <1>c, <2>1, <2>2, <2>5 DEF Requests
    <3> QED BY <1>0, <2>1, <3>1
  <2> HIDE DEF r
  <2>7. Lawful(r, account, checking, increasingID)
    <3>1. \A n \in Names : account[n] # increasingID - 1
      BY SMTT(20), <1>0, <1>b, <2>4
    <3>2. increasingID - 1 < increasingID
      BY SMTT(20), <1>0
    <3> QED BY <2>3, <2>5, <3>1, <3>2 DEF Lawful
  <2>8. ASSUME NEW d \in Clients, d # c PROVE Compatible(r, request[d], increasingID)
    <3>1. Compatible(request[c], request[d], increasingID)
      BY <1>e, <2>8
    <3>2. Numbered(request[d]) => request[d].id # increasingID - 1
      <4>1. Numbered(request[d]) => request[d].id < increasingID - 1
        BY <2>1, <3>1 DEF Compatible
      <4> QED BY SMTT(20), <1>0, <1>f, <4>1
    <3> QED BY <2>1, <2>2, <2>3, <3>1, <3>2 DEF Compatible
  <2>9. \A i \in DOMAIN block : \A n \in Parties(block[i]) : r.name # n
    BY <1>a, <2>2, <2>3
  <2>10. DistinctIDs'
    BY <1>e, <2>1 DEF DistinctIDs
  <2> QED BY <1>0, <1>e, <2>1, <2>3, <2>6, <2>7, <2>8, <2>9, <2>10, RequestStep DEF r
<1>3. ASSUME NEW c \in Clients, SetAccount(c)
      PROVE  Inv'
  <2> DEFINE name == request[c].name
             id == request[c].id
             r == request'[c]
  <2>1. /\ request[c].pc = "account" /\ account' = [account EXCEPT ![name] = id]
        /\ request' = [request EXCEPT ![c].pc = "checking"]
        /\ UNCHANGED <<checking, saving, increasingID, block, applied, batch>>
    BY <1>3 DEF SetAccount
  <2>2. request[c] # Idle /\ Numbered(request[c])
    BY <1>d, <2>1 DEF Numbered
  <2>3. /\ r.pc = "checking" /\ r.id = id /\ r.name = name
        /\ r \in Requests /\ name \in Names /\ id \in IDs /\ id \in Int
        /\ \A d \in Clients : d # c => request'[d] = request[d]
    BY <1>0, <1>c, <2>1, <2>2 DEF Requests
  <2>4. request' \in [Clients -> Requests]
    BY <1>0, <2>1, <2>3
  <2>5. id < increasingID /\ id # 0 /\ \A n \in Names : account[n] # id
    BY <1>e, <2>1, <2>2 DEF Lawful
  <2>6. /\ account' \in [Names -> IDs] /\ account'[name] = id
        /\ \A n \in Names : n # name => account'[n] = account[n]
    BY <1>0, <2>1, <2>3
  <2>7. \A d \in Clients : d # c => Compatible(request[c], request[d], increasingID)
    BY <1>e
  <2>8. \A i \in DOMAIN block : \A n \in Parties(block[i]) : n \in Names /\ n # name
    BY <1>a, <2>2
  <2> HIDE DEF r
  <2>9. \A d \in Clients : d # c => Compatible(r, request[d], increasingID)
    <3>1. Numbered(r) /\ r.pc # "added"
      BY <2>3 DEF Numbered
    <3> QED BY <2>1, <2>2, <2>3, <2>7, <3>1 DEF Compatible
  <2>10. ASSUME NEW d \in Clients, d # c
         PROVE  Lawful(request[d], account', checking, increasingID)
    <3>1. /\ request[d] # Idle => request[d].name # name
          /\ request[d].pc = "added" => id < increasingID - 1
          /\ Numbered(request[d]) => id # request[d].id
      BY <2>2, <2>7, <2>10 DEF Compatible
    <3> HIDE DEF name, id
    <3>2. request[d].pc = "added" => \A n \in Names : account'[n] < increasingID - 1
      BY <1>e, <2>6, <3>1 DEF Lawful
    <3>3. request[d].pc = "account" => \A n \in Names : account'[n] # request[d].id
      BY <1>e, <2>6, <3>1 DEF Lawful, Numbered
    <3>4. request[d].pc \in {"checking", "saving"} =>
             account'[request[d].name] = request[d].id
      BY <1>c, <1>d, <1>e, <2>6, <3>1 DEF Lawful
    <3> QED BY <1>e, <3>2, <3>3, <3>4 DEF Lawful
  <2>11. Lawful(r, account', checking, increasingID)
    BY <2>3, <2>5, <2>6 DEF Lawful
  <2> HIDE DEF name, id
  <2>12. DistinctIDs'
    <3>1. ASSUME NEW m \in Names, NEW n \in Names, m # n, account'[m] = account'[n]
          PROVE  account'[m] = 0
      <4>1. m # name /\ n # name
        BY <2>5, <2>6, <3>1
      <4> QED BY <1>e, <2>6, <3>1, <4>1 DEF DistinctIDs
    <3> QED BY <3>1 DEF DistinctIDs
  <2>13. \A n \in Names : account'[n] < increasingID
    BY <1>e, <2>5, <2>6
  <2>14. \A i \in DOMAIN block : \A n \in Parties(block[i]) :
            /\ account'[n] = account[n]
            /\ checking'[account[n]] = checking[account[n]]
            /\ saving'[account[n]] = saving[account[n]]
    BY <2>1, <2>6, <2>8
  <2>15. \A i \in DOMAIN block : \A n \in Parties(block[i]) : r.name # n
    BY <2>3, <2>8
  <2>16. /\ \A n \in Names : account'[n] < increasingID'
         /\ Lawful(r, account', checking', increasingID')
         /\ \A d \in Clients : d # c =>
               /\ Lawful(request[d], account', checking', increasingID')
               /\ Compatible(r, request[d], increasingID')
         /\ \A d, e \in Clients : d # e /\ d # c /\ e # c =>
               Compatible(request[d], request[e], increasingID')
    BY <1>e, <2>1, <2>9, <2>10, <2>11, <2>13
  <2>17. /\ account' \in [Names -> IDs] /\ checking' \in Rows /\ saving' \in Rows
         /\ increasingID' \in 1..(MaxID + 1) /\ UNCHANGED <<block, applied, batch>>
    BY <1>0, <2>1, <2>6
  <2> QED BY <2>3, <2>4, <2>12, <2>14, <2>15, <2>16, <2>17, RequestStep DEF r
<1>4. ASSUME NEW c \in Clients, SetChecking(c)
      PROVE  Inv'
  <2> DEFINE id == request[c].id
             r == request'[c]
  <2>1. /\ request[c].pc = "checking"
        /\ checking' = [checking EXCEPT ![id] = request[c].checking]
        /\ request' = [request EXCEPT ![c].pc = "saving"]
        /\ UNCHANGED <<account, saving, increasingID, block, applied, batch>>
    BY <1>4 DEF SetChecking
  <2>2. request[c] # Idle /\ Numbered(request[c])
    BY <1>d, <2>1 DEF Numbered
  <2>3. /\ r.pc = "saving" /\ r.id = id
        /\ r.name = request[c].name /\ r.checking = request[c].checking
        /\ r \in Requests /\ id \in IDs /\ request[c].checking \in Int
        /\ \A d \in Clients : d # c => request'[d] = request[d]
    BY <1>0, <1>c, <2>1, <2>2 DEF Requests
  <2>4. request' \in [Clients -> Requests]
    BY <1>0, <2>1, <2>3
  <2>5. /\ checking' \in Rows /\ checking'[id] = request[c].checking
        /\ \A i \in IDs : i # id => checking'[i] = checking[i]
    BY <1>0, <2>1, <2>3 DEF Rows
  <2>6. \A i \in DOMAIN block : \A n \in Parties(block[i]) :
           n \in Names /\ account[n] \in IDs /\ account[n] # id /\ n # r.name
    BY <1>0, <1>a, <2>1, <2>2, <2>3, OwnRow
  <2>7. \A d \in Clients : d # c => Compatible(request[c], request[d], increasingID)
    BY <1>e
  <2> HIDE DEF r
  <2>8. \A d \in Clients : d # c => Compatible(r, request[d], increasingID)
    <3>1. Numbered(r) /\ r.pc # "added"
      BY <2>3 DEF Numbered
    <3> QED BY <2>2, <2>3, <2>7, <3>1 DEF Compatible
  <2>9. ASSUME NEW d \in Clients, d # c
        PROVE  Lawful(request[d], account, checking', increasingID)
    <3>1. Numbered(request[d]) => id # request[d].id /\ request[d].id \in IDs
      BY <1>f, <2>2, <2>7, <2>9 DEF Compatible
    <3> HIDE DEF id
    <3>2. request[d].pc = "saving" => checking'[request[d].id] = request[d].checking
      BY <1>e, <2>5, <3>1 DEF Lawful, Numbered
    <3> QED BY <1>e, <3>2 DEF Lawful
  <2>10. Lawful(r, account, checking', increasingID)
    <3>1. Lawful(request[c], account, checking, increasingID)
      BY <1>e
    <3> QED BY <2>1, <2>2, <2>3, <2>5, <3>1 DEF Lawful
  <2> HIDE DEF id
  <2>11. DistinctIDs'
    BY <1>e, <2>1 DEF DistinctIDs
  <2>12. \A i \in DOMAIN block : \A n \in Parties(block[i]) :
            /\ account'[n] = account[n]
            /\ checking'[account[n]] = checking[account[n]]
            /\ saving'[account[n]] = saving[account[n]]
    BY <2>1, <2>5, <2>6
  <2>13. \A i \in DOMAIN block : \A n \in Parties(block[i]) : r.name # n
    BY <2>6
  <2>14. /\ \A n \in Names : account'[n] < increasingID'
         /\ Lawful(r, account', checking', increasingID')
         /\ \A d \in Clients : d # c =>
               /\ Lawful(request[d], account', checking', increasingID')
               /\ Compatible(r, request[d], increasingID')
         /\ \A d, e \in Clients : d # e /\ d # c /\ e # c =>
               Compatible(request[d], request[e], increasingID')
    BY <1>e, <2>1, <2>8, <2>9, <2>10
  <2>15. /\ account' \in [Names -> IDs] /\ checking' \in Rows /\ saving' \in Rows
         /\ increasingID' \in 1..(MaxID + 1) /\ UNCHANGED <<block, applied, batch>>
    BY <1>0, <2>1, <2>5
  <2> QED BY <2>3, <2>4, <2>11, <2>12, <2>13, <2>14, <2>15, RequestStep DEF r
<1>5. ASSUME NEW c \in Clients, SetSaving(c)
      PROVE  Inv'
  <2> DEFINE id == request[c].id
  <2>1. /\ request[c].pc = "saving"
        /\ saving' = [saving EXCEPT ![id] = request[c].saving]
        /\ request' = [request EXCEPT ![c] = Idle]
        /\ UNCHANGED <<account, checking, increasingID, block, applied, batch>>
    BY <1>5 DEF SetSaving
  <2>2. request[c] # Idle
    BY <1>d, <2>1
  <2>3. /\ request'[c] = Idle /\ Idle \in Requests /\ id \in IDs /\ request[c].saving \in Int
        /\ Idle.pc = "idle" /\ \A d \in Clients : d # c => request'[d] = request[d]
    BY <1>0, <1>c, <2>1, <2>2 DEF Requests, Idle
  <2>4. request' \in [Clients -> Requests]
    BY <1>0, <2>1, <2>3
  <2>5. /\ saving' \in Rows
        /\ \A i \in IDs : i # id => saving'[i] = saving[i]
    BY <1>0, <2>1, <2>3 DEF Rows
  <2>6. \A i \in DOMAIN block : \A n \in Parties(block[i]) :
           n \in Names /\ account[n] \in IDs /\ account[n] # id
    BY <1>0, <1>a, <2>1, <2>2, OwnRow
  <2> HIDE DEF id
  <2>7. Lawful(Idle, account, checking, increasingID)
    BY <2>3 DEF Lawful, Numbered
  <2>8. \A d \in Clients : Compatible(Idle, request[d], increasingID)
    BY <2>3 DEF Compatible, Numbered
  <2>9. DistinctIDs'
    BY <1>e, <2>1 DEF DistinctIDs
  <2>10. \A i \in DOMAIN block : \A n \in Parties(block[i]) :
            /\ account'[n] = account[n]
            /\ checking'[account[n]] = checking[account[n]]
            /\ saving'[account[n]] = saving[account[n]]
    BY <2>1, <2>5, <2>6
  <2>11. /\ \A n \in Names : account'[n] < increasingID'
         /\ Lawful(Idle, account', checking', increasingID')
         /\ \A d \in Clients : d # c =>
               /\ Lawful(request[d], account', checking', increasingID')
               /\ Compatible(Idle, request[d], increasingID')
         /\ \A d, e \in Clients : d # e /\ d # c /\ e # c =>
               Compatible(request[d], request[e], increasingID')
    BY <1>e, <2>1, <2>7, <2>8
  <2>12. /\ account' \in [Names -> IDs] /\ checking' \in Rows /\ saving' \in Rows
         /\ increasingID' \in 1..(MaxID + 1) /\ UNCHANGED <<block, applied, batch>>
    BY <1>0, <2>1, <2>5
  <2> QED BY <2>3, <2>4, <2>9, <2>10, <2>11, <2>12, RequestStep
<1>6. ASSUME NEW n \in 1..MaxTxs, NEW txs \in [1..n -> Txs], StartBlock(txs)
      PROVE  Inv'
  <2>1. /\ block = <<>> /\ block' = txs
        /\ \A i \in DOMAIN txs : \A m \in Parties(txs[i]) : ~Busy(m)
        /\ UNCHANGED <<account, checking, saving, increasingID, request, applied, batch>>
    BY <1>6 DEF StartBlock, dbVars
  <2>2. txs \in Seq(Txs) /\ Len(txs) \in 1..MaxTxs /\ applied = 0
    BY SMTT(20), <1>0, <2>1, FunctionSeq
  <2>3. Types'
    BY SMTT(20), <1>0, <2>1, <2>2 DEF Types
  <2>4. Identities'
    BY <1>e, <2>1 DEF Identities, DistinctIDs
  <2>5. Apart'
    BY <2>1 DEF Apart, Busy
  <2>6. Collected'
    <3>1. PICK P : /\ Gathers(P, account, checking, saving, block, applied)
                   /\ P[applied] = batch
      BY DEF Inv, Collected
    <3>2. Gathers(P, account, checking, saving, txs, applied)
      BY SMTT(20), <2>2, <3>1 DEF Gathers
    <3>3. batch = <<>>
      BY <2>2, <3>1 DEF Gathers
    <3>4. \A w : ~Has(batch, w)
      BY SMTT(20), <3>3 DEF Has
    <3> QED BY <2>1, <3>1, <3>2, <3>4 DEF Collected
  <2> QED BY <2>3, <2>4, <2>5, <2>6 DEF Inv
<1>7. CASE ApplyTx
  <2> DEFINE tx == block[applied + 1]
             more == Puts(account, checking, saving, tx)
  <2>1. /\ applied < Len(block) /\ batch' = batch \o ApplySmallBank(tx)
        /\ applied' = applied + 1
        /\ UNCHANGED <<account, checking, saving, increasingID, request, block>>
    BY <1>7 DEF ApplyTx, dbVars
  <2>2. /\ tx \in Txs /\ applied + 1 \in 0..Len(block) /\ applied \in Nat
        /\ applied + 1 \in DOMAIN block
    BY SMTT(20), <1>0, <2>1
  <2>3. ApplySmallBank(tx) = more
    <3> HIDE DEF tx
    <3> QED BY <2>2, ApplyPuts
  <2>4. more \in Seq(Writes) /\ \A w : Has(more, w) => w.id \in Touches(account, tx)
    <3> HIDE DEF tx
    <3> QED BY <1>0, <2>2, PutsType
  <2>5. /\ batch' = batch \o more /\ batch' \in Seq(Writes)
        /\ \A w : Has(batch', w) <=> Has(batch, w) \/ Has(more, w)
    <3> HIDE DEF more
    <3> QED BY <1>0, <2>1, <2>3, <2>4, Joined
  <2>6. Types'
    BY <1>0, <2>1, <2>2, <2>5 DEF Types
  <2>7. Identities' /\ Apart'
    BY <1>e, <2>1 DEF Inv, Identities, DistinctIDs, Apart
  <2>8. Collected'
    <3>1. PICK P : /\ Gathers(P, account, checking, saving, block, applied)
                   /\ P[applied] = batch
      BY DEF Inv, Collected
    <3> DEFINE n == applied + 1
               Q == [i \in 0..n |-> IF i = n THEN batch' ELSE P[i]]
    <3>2. /\ \A i \in 0..n : i # n => i \in 0..applied
          /\ \A i \in 1..n : i # n => i \in 1..applied /\ i - 1 # n
          /\ \A i \in 1..n : i \in 0..n /\ i - 1 \in 0..n
          /\ n - 1 = applied /\ n # applied /\ n \in 0..n /\ 0 \in 0..n /\ 0 # n
          /\ applied \in 0..n
      BY SMTT(20), <2>2
    <3>3. /\ P \in [0..applied -> Seq(Writes)] /\ P[0] = <<>>
          /\ \A i \in 1..applied : P[i] = P[i - 1] \o Puts(account, checking, saving, block[i])
      BY <3>1 DEF Gathers
    <3> HIDE DEF more, tx
    <3>4. Q \in [0..n -> Seq(Writes)] /\ Q[0] = <<>> /\ Q[n] = batch'
      <4> HIDE DEF n
      <4> QED BY <2>5, <3>2, <3>3
    <3>5. ASSUME NEW i \in 1..n
          PROVE  Q[i] = Q[i - 1] \o Puts(account, checking, saving, block[i])
      <4>1. CASE i = n
        <5>1. Q[i - 1] = batch
          <6> HIDE DEF n
          <6> QED BY <3>1, <3>2, <4>1
        <5> QED BY <2>5, <3>4, <4>1, <5>1 DEF more, tx
      <4>2. CASE i # n
        <5>1. Q[i] = P[i] /\ Q[i - 1] = P[i - 1] /\ i \in 1..applied
          <6> HIDE DEF n
          <6> QED BY <3>2, <4>2
        <5> QED BY <3>3, <5>1
      <4> QED BY <4>1, <4>2
    <3> HIDE DEF Q
    <3>6. Gathers(Q, account, checking, saving, block, n) /\ Q[n] = batch'
      BY <3>4, <3>5 DEF Gathers
    <3>7. \A w : Has(batch', w) => \E i \in DOMAIN block : w.id \in Touches(account, block[i])
      BY <2>2, <2>4, <2>5 DEF Inv, Collected, tx
    <3> QED BY <2>1, <3>6, <3>7 DEF Collected
  <2> QED BY <2>6, <2>7, <2>8 DEF Inv
<1>8. CASE WriteBatch
  <2>1. /\ block' = <<>> /\ applied' = 0 /\ batch' = <<>>
        /\ UNCHANGED <<account, increasingID, request>>
    BY <1>8 DEF WriteBatch
  <2>2. /\ checking' \in Rows /\ saving' \in Rows
        /\ checking' = Written("checking", checking, batch)
    BY <1>8, BatchWritten
  <2>3. Types'
    BY SMTT(20), <1>0, <2>1, <2>2 DEF Types
  <2>4. ASSUME NEW c \in Clients, request[c].pc = "saving"
        PROVE  checking'[request[c].id] = request[c].checking
    <3> DEFINE id == request[c].id
    <3>1. request[c] # Idle /\ id \in IDs /\ checking[id] = request[c].checking
      BY <1>c, <1>d, <1>e, <2>4 DEF Lawful
    <3>2. \A i \in DOMAIN block : \A n \in Parties(block[i]) : account[n] # id
      BY <1>a, <2>4, <3>1, OwnRow
    <3>3. \A i \in DOMAIN batch : batch[i].id # id
      BY <3>2 DEF Inv, Collected, Has, Touches
    <3> HIDE DEF id
    <3>4. checking'[id] = checking[id]
      BY <1>0, <2>2, <3>1, <3>3, WrittenKeeps
    <3> QED BY <3>1, <3>4 DEF id
  <2>5. Identities'
    BY <1>e, <2>1, <2>4 DEF Identities, Lawful, DistinctIDs
  <2>6. Apart' /\ Collected'
    <3> DEFINE P == [i \in 0..applied' |-> <<>>]
    <3>1. Gathers(P, account', checking', saving', block', applied') /\ P[applied'] = batch'
      BY SMTT(20), <2>1 DEF Gathers
    <3>2. \A w : ~Has(batch', w)
      BY SMTT(20), <2>1 DEF Has
    <3> HIDE DEF P
    <3> QED BY <2>1, <3>1, <3>2 DEF Apart, Collected
  <2> QED BY <2>3, <2>5, <2>6 DEF Inv
<1>9. CASE UNCHANGED vars
  BY <1>9 DEF vars, Inv, Types, Identities, DistinctIDs, Apart, Collected
<1> QED BY <1>1, <1>2, <1>3, <1>4, <1>5, <1>6, <1>7, <1>8, <1>9 DEF Next

-----------------------------------------------------------------------------
(* One transaction of the bank *)

\* The two amounts of an owner.
Balances == [checking : Int, saving : Int]

\* The rows of a customID.
Pair(chk, sav, id) == [checking |-> chk[id], saving |-> sav[id]]

\* The balances of the owners D, whose rows rid names.
Held(D, rid, chk, sav) == [d \in D |-> Pair(chk, sav, rid[d])]

\* The balances m with one of the two amounts of a replaced.
WithChecking(m, a, x) == [m EXCEPT ![a].checking = x]
WithSaving(m, a, x) == [m EXCEPT ![a].saving = x]

\* They keep the other amount of a and the balances of the others.
Replaced(D, m, a, x) ==
    /\ WithChecking(m, a, x) =
         [d \in D |-> IF d = a THEN [checking |-> x, saving |-> m[a].saving] ELSE m[d]]
    /\ WithSaving(m, a, x) =
         [d \in D |-> IF d = a THEN [checking |-> m[a].checking, saving |-> x] ELSE m[d]]

\* WithChecking and WithSaving replace one amount.
LEMMA Amounted ==
    ASSUME NEW D, NEW m \in [D -> Balances], NEW a \in D, NEW x \in Int
    PROVE  Replaced(D, m, a, x)
<1>1. m[a] \in Balances
  OBVIOUS
<1>2. /\ [m[a] EXCEPT !.checking = x] = [checking |-> x, saving |-> m[a].saving]
      /\ [m[a] EXCEPT !.saving = x] = [checking |-> m[a].checking, saving |-> x]
  BY <1>1 DEF Balances
<1>3. /\ WithChecking(m, a, x) = [m EXCEPT ![a] = [checking |-> x, saving |-> m[a].saving]]
      /\ WithSaving(m, a, x) = [m EXCEPT ![a] = [checking |-> m[a].checking, saving |-> x]]
  BY <1>2 DEF WithChecking, WithSaving
<1> QED BY <1>3 DEF Replaced

\* Every owner has a row, and no two the same.
HaveRows(D, rid) == rid \in [D -> IDs] /\ \A d, e \in D : rid[d] = rid[e] => d = e

\* Balances in rows are replaced by writes to the rows.
WrittenTo(D, rid, chk, sav, a, x) ==
    /\ WithChecking(Held(D, rid, chk, sav), a, x) =
         Held(D, rid, [chk EXCEPT ![rid[a]] = x], sav)
    /\ WithSaving(Held(D, rid, chk, sav), a, x) =
         Held(D, rid, chk, [sav EXCEPT ![rid[a]] = x])

\* A balance is replaced by a write to the row of its owner, which is no other's.
LEMMA HeldWritten ==
    ASSUME NEW D, NEW rid, HaveRows(D, rid), NEW chk \in Rows, NEW sav \in Rows,
           NEW a \in D, NEW x \in Int
    PROVE  Held(D, rid, chk, sav) \in [D -> Balances] /\ WrittenTo(D, rid, chk, sav, a, x)
<1> DEFINE m == Held(D, rid, chk, sav)
           chk2 == [chk EXCEPT ![rid[a]] = x]
           sav2 == [sav EXCEPT ![rid[a]] = x]
<1>1. m \in [D -> Balances]
  BY DEF Held, Pair, Balances, Rows, HaveRows
<1>2. \A d \in D : m[d] = Pair(chk, sav, rid[d])
  BY DEF Held
<1>3. /\ chk2[rid[a]] = x /\ \A d \in D : d # a => chk2[rid[d]] = chk[rid[d]]
      /\ sav2[rid[a]] = x /\ \A d \in D : d # a => sav2[rid[d]] = sav[rid[d]]
  BY DEF Rows, HaveRows
<1> HIDE DEF m, chk2, sav2
<1>4. m[a].checking = chk[rid[a]] /\ m[a].saving = sav[rid[a]]
  <2>1. m[a] = Pair(chk, sav, rid[a])
    BY <1>2
  <2> QED BY SMTT(20), <2>1 DEF Pair
<1>5. Replaced(D, m, a, x)
  BY <1>1, Amounted
<1>6. WithChecking(m, a, x) = Held(D, rid, chk2, sav)
  <2>1. WithChecking(m, a, x) =
          [d \in D |-> IF d = a THEN [checking |-> x, saving |-> m[a].saving] ELSE m[d]]
    BY <1>5 DEF Replaced
  <2>2. \A d \in D : Pair(chk2, sav, rid[d]) =
                       IF d = a THEN [checking |-> x, saving |-> m[a].saving] ELSE m[d]
    BY <1>2, <1>3, <1>4 DEF Pair
  <2> QED BY <2>1, <2>2 DEF Held
<1>7. WithSaving(m, a, x) = Held(D, rid, chk, sav2)
  <2>1. WithSaving(m, a, x) =
          [d \in D |-> IF d = a THEN [checking |-> m[a].checking, saving |-> x] ELSE m[d]]
    BY <1>5 DEF Replaced
  <2>2. \A d \in D : Pair(chk, sav2, rid[d]) =
                       IF d = a THEN [checking |-> m[a].checking, saving |-> x] ELSE m[d]
    BY <1>2, <1>3, <1>4 DEF Pair
  <2> QED BY <2>1, <2>2 DEF Held
<1> QED BY <1>1, <1>6, <1>7 DEF m, chk2, sav2, WrittenTo

\* The money of a party of tx is its own or, without an account, nobody's.
Housed(D, rid, acc, tx) ==
    \A n \in Parties(tx) : rid[IF n \in D THEN n ELSE "nobody"] = acc[n]

\* The bank makes with tx of the balances that q has written what r has written.
Follow(D, rid, chk, sav, q, tx, r) ==
    Ledger!Execute(Held(D, rid, chk, sav),
                   Held(D, rid, Written("checking", chk, q), Written("saving", sav, q)), tx) =
        Held(D, rid, Written("checking", chk, r), Written("saving", sav, r))

\* What a transaction of the bank does to balances that the batch q has made of chk
\* and sav is what its writes, at the end of the batch, do.
LEMMA TransactionWrites ==
    ASSUME NEW D, "nobody" \in D,
           NEW rid, HaveRows(D, rid),
           NEW acc \in [Names -> IDs], NEW chk \in Rows, NEW sav \in Rows,
           NEW q \in Seq(Writes), NEW tx \in Txs,
           Housed(D, rid, acc, tx),
           NEW r, r = q \o Puts(acc, chk, sav, tx)
    PROVE  Follow(D, rid, chk, sav, q, tx, r)
<1> DEFINE C(p) == Written("checking", chk, p)
           S(p) == Written("saving", sav, p)
           old == Held(D, rid, chk, sav)
           m == Held(D, rid, C(q), S(q))
           a == Ledger!Owner(m, tx.name)
           b == Ledger!Owner(m, tx.to)
           id == acc[tx.name]
           to == acc[tx.to]
           total == old[a].checking + old[a].saving
           Grown(p, i, x) ==
              /\ Append(p, Put("checking", i, x)) \in Seq(Writes)
              /\ C(Append(p, Put("checking", i, x))) = [C(p) EXCEPT ![i] = x]
              /\ S(Append(p, Put("checking", i, x))) = S(p)
              /\ Append(p, Put("saving", i, x)) \in Seq(Writes)
              /\ C(Append(p, Put("saving", i, x))) = C(p)
              /\ S(Append(p, Put("saving", i, x))) = [S(p) EXCEPT ![i] = x]
<1>1. /\ a = (IF tx.name \in D THEN tx.name ELSE "nobody") /\ a \in D
      /\ b = (IF tx.to \in D THEN tx.to ELSE "nobody") /\ b \in D
  BY DEF Ledger!Owner, Held
<1>2. rid[a] = id /\ id \in IDs
  BY <1>1, TxTypes DEF Housed
<1>3. tx.type = "amalgamate" => rid[b] = to /\ to \in IDs
  BY <1>1, TxTypes DEF Housed
<1>4. /\ old[a].checking = chk[id] /\ old[a].saving = sav[id]
      /\ chk[id] \in Int /\ sav[id] \in Int
      /\ tx.type = "amalgamate" => old[b].checking = chk[to] /\ chk[to] \in Int
  BY <1>1, <1>2, <1>3 DEF Held, Pair, Rows
<1>5. ASSUME NEW p \in Seq(Writes), NEW i \in IDs, NEW x \in Int
      PROVE  C(p) \in Rows /\ S(p) \in Rows /\ Grown(p, i, x)
  <2> DEFINE u == Put("checking", i, x)
             v == Put("saving", i, x)
  <2>1. /\ u \in Writes /\ u.table = "checking" /\ u.id = i /\ u.value = x
        /\ v \in Writes /\ v.table = "saving" /\ v.id = i /\ v.value = x
    BY DEF Put, Writes, Tables
  <2> HIDE DEF u, v
  <2>2. /\ Append(p, u) \in Seq(Writes) /\ Append(p, v) \in Seq(Writes)
        /\ C(p) \in Rows /\ S(p) \in Rows
        /\ C(Append(p, u)) = Overwrite("checking", C(p), u)
        /\ S(Append(p, u)) = Overwrite("saving", S(p), u)
        /\ C(Append(p, v)) = Overwrite("checking", C(p), v)
        /\ S(Append(p, v)) = Overwrite("saving", S(p), v)
    BY <2>1, WrittenAppend
  <2> QED BY <2>1, <2>2 DEF Overwrite, u, v
<1>6. C(q) \in Rows /\ S(q) \in Rows
  BY <1>2, <1>4, <1>5
<1> HIDE DEF C, S, Grown
<1>7. ASSUME NEW x \in Int
      PROVE  /\ WithChecking(m, a, x) = Held(D, rid, [C(q) EXCEPT ![id] = x], S(q))
             /\ WithSaving(m, a, x) = Held(D, rid, C(q), [S(q) EXCEPT ![id] = x])
  <2> HIDE DEF a, id
  <2>1. WrittenTo(D, rid, C(q), S(q), a, x)
    BY <1>1, <1>6, HeldWritten
  <2> QED BY <1>2, <2>1 DEF WrittenTo, m
<1>8. CASE tx.type = "deposit_checking"
  <2> DEFINE x == chk[id] + tx.value
             w == Put("checking", id, x)
  <2>1. x \in Int
    BY SMTT(20), <1>4, <1>8, TxTypes
  <2>2. r = q \o <<w>>
    BY <1>8 DEF Puts
  <2>3. Ledger!Execute(old, m, tx) = WithChecking(m, a, x)
    BY <1>4, <1>8 DEF Ledger!Execute, WithChecking
  <2>4. q \o <<w>> = Append(q, w)
    <3> HIDE DEF w
    <3> QED BY SMTT(20)
  <2> HIDE DEF a, id, x, old, m
  <2>5. C(r) = [C(q) EXCEPT ![id] = x] /\ S(r) = S(q)
    <3>1. Grown(q, id, x)
      BY <1>2, <1>5, <2>1
    <3> QED BY <2>2, <2>4, <3>1 DEF Grown
  <2>6. Ledger!Execute(old, m, tx) = Held(D, rid, C(r), S(r))
    BY <1>7, <2>1, <2>3, <2>5
  <2> QED BY <2>6 DEF old, m, C, S, Follow
<1>9. CASE tx.type = "transaction_saving"
  <2> DEFINE x == sav[id] + tx.value
             w == Put("saving", id, x)
  <2>1. x \in Int
    BY SMTT(20), <1>4, <1>9, TxTypes
  <2>2. r = q \o <<w>>
    BY <1>9 DEF Puts
  <2>3. Ledger!Execute(old, m, tx) = WithSaving(m, a, x)
    BY <1>4, <1>9 DEF Ledger!Execute, WithSaving
  <2>4. q \o <<w>> = Append(q, w)
    <3> HIDE DEF w
    <3> QED BY SMTT(20)
  <2> HIDE DEF a, id, x, old, m
  <2>5. C(r) = C(q) /\ S(r) = [S(q) EXCEPT ![id] = x]
    <3>1. Grown(q, id, x)
      BY <1>2, <1>5, <2>1
    <3> QED BY <2>2, <2>4, <3>1 DEF Grown
  <2>6. Ledger!Execute(old, m, tx) = Held(D, rid, C(r), S(r))
    BY <1>7, <2>1, <2>3, <2>5
  <2> QED BY <2>6 DEF old, m, C, S, Follow
<1>10. CASE tx.type = "write_checking"
  <2> DEFINE sum == sav[id] + chk[id]
             x == chk[id] - (IF sum <= tx.value THEN tx.value + 1 ELSE tx.value)
             w == Put("checking", id, x)
  <2>1. x \in Int
    <3>1. tx.value \in Int
      BY <1>10, TxTypes
    <3> QED BY SMTT(20), <1>4, <3>1
  <2>2. r = q \o <<w>>
    BY <1>10 DEF Puts
  <2>3. Ledger!Execute(old, m, tx) = WithChecking(m, a, x)
    <3>1. total = sum
      BY SMTT(20), <1>4
    <3> HIDE DEF total, sum
    <3>2. Ledger!Execute(old, m, tx) =
            WithChecking(m, a, old[a].checking
                                 - (IF total <= tx.value THEN tx.value + 1 ELSE tx.value))
      BY <1>10 DEF Ledger!Execute, WithChecking, total
    <3> QED BY <1>4, <3>1, <3>2
  <2>4. q \o <<w>> = Append(q, w)
    <3> HIDE DEF w
    <3> QED BY SMTT(20)
  <2> HIDE DEF a, id, x, old, m
  <2>5. C(r) = [C(q) EXCEPT ![id] = x] /\ S(r) = S(q)
    <3>1. Grown(q, id, x)
      BY <1>2, <1>5, <2>1
    <3> QED BY <2>2, <2>4, <3>1 DEF Grown
  <2>6. Ledger!Execute(old, m, tx) = Held(D, rid, C(r), S(r))
    BY <1>7, <2>1, <2>3, <2>5
  <2> QED BY <2>6 DEF old, m, C, S, Follow
<1>11. CASE tx.type = "balance"
  <2>1. r = q
    <3>1. Puts(acc, chk, sav, tx) = <<>>
      BY <1>11 DEF Puts
    <3> QED BY SMTT(20), <3>1
  <2>2. Ledger!Execute(old, m, tx) = m
    BY <1>11 DEF Ledger!Execute
  <2> QED BY <2>1, <2>2 DEF C, S, Follow
<1>12. CASE tx.type = "amalgamate"
  <2> DEFINE x == chk[to] + (sav[id] + chk[id])
             u == Put("checking", to, x)
             v == Put("saving", id, 0)
             w == Put("checking", id, 0)
             z == [checking |-> 0, saving |-> 0]
             m2 == WithChecking(m, b, x)
             C2 == [C(q) EXCEPT ![to] = x]
             C3 == [C2 EXCEPT ![id] = 0]
             S3 == [S(q) EXCEPT ![id] = 0]
  <2>0. 0 \in Int
    OBVIOUS
  <2>1. x \in Int /\ x = old[b].checking + total
    BY SMTT(20), <1>4, <1>12
  <2>2. r = q \o <<u, v, w>>
    BY <1>12 DEF Puts
  <2>3. Ledger!Execute(old, m, tx) = [m2 EXCEPT ![a] = z]
    <3>1. Ledger!Execute(old, m, tx) =
            [m EXCEPT ![b].checking = old[b].checking + total, ![a] = z]
      BY <1>12 DEF Ledger!Execute
    <3> HIDE DEF a, b, m, total, x, z
    <3> QED BY <2>1, <3>1 DEF WithChecking
  <2>4. q \o <<u, v, w>> = Append(Append(Append(q, u), v), w)
    <3> HIDE DEF u, v, w
    <3> QED BY SMTT(20)
  <2> HIDE DEF x
  <2>5. Append(q, u) \in Seq(Writes) /\ C(Append(q, u)) = C2 /\ S(Append(q, u)) = S(q)
    <3>1. Grown(q, to, x)
      BY <1>3, <1>5, <1>12, <2>1
    <3> QED BY <3>1 DEF Grown
  <2>6. /\ Append(Append(q, u), v) \in Seq(Writes)
        /\ C(Append(Append(q, u), v)) = C2 /\ S(Append(Append(q, u), v)) = S3
    <3> HIDE DEF u, C2
    <3>1. Grown(Append(q, u), id, 0)
      BY <1>2, <1>5, <2>0, <2>5
    <3> QED BY <2>5, <3>1 DEF Grown
  <2>7. C(r) = C3 /\ S(r) = S3
    <3> HIDE DEF u, v, C2, S3
    <3>1. Grown(Append(Append(q, u), v), id, 0)
      BY <1>2, <1>5, <2>0, <2>6
    <3> QED BY <2>2, <2>4, <2>6, <3>1 DEF Grown
  <2>8. C2 \in Rows
    BY <1>3, <1>6, <1>12, <2>1 DEF Rows
  <2> HIDE DEF u, v, w, a, b, id, to, old, C2
  <2>9. m2 = Held(D, rid, C2, S(q))
    <3>1. WrittenTo(D, rid, C(q), S(q), b, x)
      BY <1>1, <1>6, <2>1, HeldWritten
    <3> QED BY <1>3, <1>12, <3>1 DEF WrittenTo, m, C2
  <2> HIDE DEF m, m2
  <2>10. /\ m2 \in [D -> Balances]
         /\ WithSaving(WithChecking(m2, a, 0), a, 0) = Held(D, rid, C3, S3)
    <3>1. m2 \in [D -> Balances] /\ WithChecking(m2, a, 0) = Held(D, rid, C3, S(q))
      <4>1. Held(D, rid, C2, S(q)) \in [D -> Balances] /\ WrittenTo(D, rid, C2, S(q), a, 0)
        BY <1>1, <1>6, <2>0, <2>8, HeldWritten
      <4> QED BY <1>2, <2>9, <4>1 DEF WrittenTo
    <3>2. C3 \in Rows
      BY <1>2, <2>8 DEF Rows
    <3> HIDE DEF C3
    <3>3. WithSaving(Held(D, rid, C3, S(q)), a, 0) = Held(D, rid, C3, S3)
      <4>1. WrittenTo(D, rid, C3, S(q), a, 0)
        BY <1>1, <1>6, <2>0, <3>2, HeldWritten
      <4> QED BY <1>2, <4>1 DEF WrittenTo
    <3> QED BY <3>1, <3>3
  <2>11. WithSaving(WithChecking(m2, a, 0), a, 0) = [m2 EXCEPT ![a] = z]
    <3> DEFINE m3 == WithChecking(m2, a, 0)
    <3>1. m3 = [d \in D |-> IF d = a THEN [checking |-> 0, saving |-> m2[a].saving] ELSE m2[d]]
      <4>1. Replaced(D, m2, a, 0)
        BY <1>1, <2>0, <2>10, Amounted
      <4> QED BY <4>1 DEF Replaced
    <3>2. m2[a].saving \in Int
      BY <1>1, <2>10 DEF Balances
    <3>3. [checking |-> 0, saving |-> m2[a].saving] \in Balances
      BY <3>2 DEF Balances
    <3>4. m3 \in [D -> Balances] /\ m3[a].checking = 0 /\ \A d \in D : d # a => m3[d] = m2[d]
      BY <1>1, <2>10, <3>1, <3>3
    <3> HIDE DEF m3
    <3>5. WithSaving(m3, a, 0) =
            [d \in D |-> IF d = a THEN [checking |-> m3[a].checking, saving |-> 0] ELSE m3[d]]
      <4>1. Replaced(D, m3, a, 0)
        BY <1>1, <2>0, <3>4, Amounted
      <4> QED BY <4>1 DEF Replaced
    <3>6. WithSaving(m3, a, 0) = [d \in D |-> IF d = a THEN z ELSE m2[d]]
      BY <3>4, <3>5
    <3>7. [m2 EXCEPT ![a] = z] = [d \in D |-> IF d = a THEN z ELSE m2[d]]
      BY <1>1, <2>10
    <3> QED BY <3>6, <3>7 DEF m3
  <2>12. Ledger!Execute(old, m, tx) = Held(D, rid, C(r), S(r))
    BY <2>3, <2>7, <2>10, <2>11
  <2> QED BY <2>12 DEF old, m, C, S, Follow
<1> QED BY <1>8, <1>9, <1>10, <1>11, <1>12, TxTypes

-----------------------------------------------------------------------------
(* A block *)

\* What Bank!ExecuteBlock makes of the balances m.
Executed(m, txs) ==
    LET after[k \in 0..Len(txs)] ==
            IF k = 0 THEN m ELSE Ledger!Execute(m, after[k-1], txs[k])
    IN after[Len(txs)]

\* Bank!ExecuteBlock runs Bank!Execute on the transactions one after the other: it
\* ends where any sequence of balances M that does so ends.
LEMMA ExecuteRun ==
    ASSUME NEW m, NEW txs \in Seq(Txs), NEW M, DOMAIN M = 0..Len(txs),
           M = [k \in DOMAIN M |-> M[k]], M[0] = m,
           \A k \in 0..(Len(txs) - 1) : M[k + 1] = Ledger!Execute(m, M[k], txs[k + 1])
    PROVE  Executed(m, txs) = M[Len(txs)]
<1> DEFINE n == Len(txs)
           Eq(f) == f = [j \in 0..n |-> IF j = 0 THEN m ELSE Ledger!Execute(m, f[j - 1], txs[j])]
           g == CHOOSE f : Eq(f)
           S == {k \in 0..n : g[k] = M[k]}
<1>1. Executed(m, txs) = g[n]
  BY DEF Executed
<1>2. n \in Nat
  OBVIOUS
<1> HIDE DEF n
<1>3. Eq(M)
  <2>1. \A j \in 0..n : j # 0 => j - 1 \in 0..(n - 1) /\ (j - 1) + 1 = j
    BY SMTT(20), <1>2
  <2>2. \A j \in 0..n : j # 0 => M[j] = Ledger!Execute(m, M[j - 1], txs[j])
    BY <2>1 DEF n
  <2>3. \A j \in 0..n : M[j] = IF j = 0 THEN m ELSE Ledger!Execute(m, M[j - 1], txs[j])
    BY <2>2
  <2>4. M = [j \in 0..n |-> M[j]]
    BY DEF n
  <2> QED BY <2>3, <2>4
<1>4. Eq(g)
  BY <1>3
<1> HIDE DEF g
<1>5. g[0] = m
  <2>1. 0 \in 0..n
    BY SMTT(20), <1>2
  <2> QED BY <1>4, <2>1
<1>6. \A k \in 0..(n - 1) : g[k + 1] = Ledger!Execute(m, g[k], txs[k + 1])
  <2>1. \A k \in 0..(n - 1) : k + 1 \in 0..n /\ k + 1 # 0 /\ (k + 1) - 1 = k
    BY SMTT(20), <1>2
  <2> QED BY <1>4, <2>1
<1>7. 0 \in S
  BY SMTT(20), <1>2, <1>5
<1>8. ASSUME NEW k \in 0..(n - 1), k \in S PROVE k + 1 \in S
  <2>1. k + 1 \in 0..n
    BY SMTT(20), <1>2
  <2>2. g[k] = M[k]
    BY <1>8
  <2>3. M[k + 1] = Ledger!Execute(m, M[k], txs[k + 1])
    BY DEF n
  <2> QED BY <1>6, <2>1, <2>2, <2>3
<1> HIDE DEF S
<1>9. n \in S
  BY <1>2, <1>7, <1>8, UpTo
<1> QED BY <1>1, <1>9 DEF S, n

-----------------------------------------------------------------------------
(* Whose money is where *)

\* The owners of money and the customIDs of their rows.
Owners == {"nobody"} \cup {n \in Names : IsOpen(n)}
Row(a) == IF a = "nobody" THEN 0 ELSE account[a]

\* Money is the rows of the owners.
LEMMA MoneyRows ==
    /\ Money = [a \in Owners |-> Pair(checking, saving, Row(a))]
    /\ Money' = [a \in Owners' |-> Pair(checking', saving', Row(a)')]
  BY DEF Money, Owners, Row, Pair

\* No two owners share a row, and the money of a name in the block is its owner's.
LEMMA OwnersRows ==
    ASSUME Inv
    PROVE  /\ \A a \in Owners : Row(a) \in IDs
           /\ \A a, b \in Owners : Row(a) = Row(b) => a = b
           /\ \A i \in DOMAIN block : \A n \in Parties(block[i]) :
                 Row(IF n \in Owners THEN n ELSE "nobody") = account[n]
<1>0. 0 \in IDs /\ "nobody" \notin Names /\ account \in [Names -> IDs]
  BY SMTT(20), StoreAssumption DEF IDs, Inv, Types
<1>1. \A a \in Owners : a # "nobody" => a \in Names /\ account[a] # 0 /\ Row(a) = account[a]
  BY DEF Owners, IsOpen, Row
<1>2. Row("nobody") = 0 /\ "nobody" \in Owners
  BY DEF Row, Owners
<1>3. \A a \in Owners : Row(a) \in IDs
  BY <1>0, <1>1, <1>2
<1>4. \A a, b \in Owners : Row(a) = Row(b) => a = b
  BY SMTT(20), <1>1, <1>2 DEF Inv, Identities, DistinctIDs
<1>5. ASSUME NEW i \in DOMAIN block, NEW n \in Parties(block[i])
      PROVE  Row(IF n \in Owners THEN n ELSE "nobody") = account[n]
  <2>1. block[i] \in Txs
    BY SMTT(20) DEF Inv, Types
  <2>2. n \in Names /\ n # "nobody"
    BY <1>0, <2>1, TxTypes
  <2>3. CASE n \in Owners
    BY <1>1, <2>2, <2>3
  <2>4. CASE n \notin Owners
    <3>1. ~IsOpen(n)
      BY <2>2, <2>4 DEF Owners
    <3>2. \A c \in Clients : request[c].pc \in {"checking", "saving"} => request[c].name # n
      BY SMTT(20) DEF Inv, Apart, Idle
    <3>3. account[n] = 0
      BY <3>1, <3>2 DEF IsOpen
    <3> QED BY <1>2, <2>4, <3>3
  <2> QED BY <2>3, <2>4
<1> QED BY <1>3, <1>4, <1>5

\* WriteBatch executes the block.
LEMMA BlockExecuted ==
    ASSUME Inv, WriteBatch
    PROVE  Money' = Executed(Money, block)
<1> DEFINE D == Owners
           n == Len(block)
           rid == [d \in D |-> Row(d)]
<1>1. /\ account \in [Names -> IDs] /\ checking \in Rows /\ saving \in Rows /\ applied = n
      /\ n \in Nat /\ DOMAIN block = 1..n /\ block \in Seq(Txs) /\ \A i \in 1..n : block[i] \in Txs
  <2>1. applied = Len(block)
    BY DEF WriteBatch
  <2> QED BY SMTT(20), <2>1 DEF Inv, Types
<1>2. account' = account /\ request' = request
  BY DEF WriteBatch
<1>3. Owners' = D /\ \A d \in D : Row(d)' = rid[d]
  BY <1>2 DEF Owners, IsOpen, Row
<1>4. HaveRows(D, rid) /\ "nobody" \in D
  BY OwnersRows DEF Owners, HaveRows
<1>5. /\ Money = Held(D, rid, checking, saving)
      /\ Money' = Held(D, rid, checking', saving')
  BY <1>3, MoneyRows DEF Held
<1>6. \A i \in 1..n : Housed(D, rid, account, block[i])
  BY <1>1, <1>4, OwnersRows DEF Housed
<1>7. PICK P : Gathers(P, account, checking, saving, block, n) /\ P[n] = batch
  BY <1>1 DEF Inv, Collected
<1> HIDE DEF D, rid
<1> DEFINE Mid(k) == Held(D, rid, Written("checking", checking, P[k]),
                          Written("saving", saving, P[k]))
           M == [k \in 0..n |-> Mid(k)]
<1>8. Mid(0) = Money
  <2>1. P[0] = <<>>
    BY <1>7 DEF Gathers
  <2> QED BY <1>1, <1>5, <2>1, WrittenNone
<1>9. Mid(n) = Money'
  BY <1>5, <1>7, BatchWritten
<1>10. ASSUME NEW k \in 0..(n - 1)
       PROVE  Mid(k + 1) = Ledger!Execute(Money, Mid(k), block[k + 1])
  <2> DEFINE tx == block[k + 1]
             q == P[k]
             r == P[k + 1]
  <2>1. k + 1 \in 1..n /\ (k + 1) - 1 = k /\ k \in 0..n
    BY SMTT(20), <1>1
  <2>2. q \in Seq(Writes) /\ r = q \o Puts(account, checking, saving, tx)
    BY <1>7, <2>1 DEF Gathers
  <2>3. tx \in Txs /\ Housed(D, rid, account, tx)
    BY <1>1, <1>6, <2>1
  <2> HIDE DEF tx, q, r
  <2>4. Follow(D, rid, checking, saving, q, tx, r)
    BY <1>1, <1>4, <2>2, <2>3, TransactionWrites
  <2> QED BY <1>5, <2>4 DEF tx, q, r, Follow
<1> HIDE DEF Mid
<1>11. /\ DOMAIN M = 0..n /\ M = [k \in DOMAIN M |-> M[k]]
       /\ M[0] = Money /\ M[n] = Money'
  <2>1. 0 \in 0..n /\ n \in 0..n
    BY SMTT(20), <1>1
  <2> QED BY <1>8, <1>9, <2>1
<1>12. \A k \in 0..(n - 1) : M[k + 1] = Ledger!Execute(Money, M[k], block[k + 1])
  <2>1. \A k \in 0..(n - 1) : k \in 0..n /\ k + 1 \in 0..n
    BY SMTT(20), <1>1
  <2> QED BY <1>10, <2>1
<1> HIDE DEF M
<1> QED BY <1>1, <1>11, <1>12, ExecuteRun

-----------------------------------------------------------------------------
(* Every step is one of the bank *)

\* A name that InitAccount is writing the rows of.
InHand(n) ==
    \E c \in Clients : request[c].pc \in {"checking", "saving"} /\ request[c].name = n

\* The request r is writing the rows of n.
Writing(r, n) == r.pc \in {"checking", "saving"} /\ r.name = n

\* A request other than that of c is.
OtherHand(c, n) == \E d \in Clients : d # c /\ Writing(request[d], n)

\* A name is in hand, before and after a step of the request of c, when another request
\* or this one is writing its rows.
LEMMA HandsOf ==
    ASSUME NEW c \in Clients, \A d \in Clients : d # c => request'[d] = request[d], NEW n
    PROVE  /\ InHand(n) <=> OtherHand(c, n) \/ Writing(request[c], n)
           /\ InHand(n)' <=> OtherHand(c, n) \/ Writing(request'[c], n)
  BY DEF InHand, Writing, OtherHand

\* A step that leaves the owners and their rows alone.
LEMMA SameMoney ==
    ASSUME \A n \in Names : (account'[n] # 0 /\ ~InHand(n)') <=> (account[n] # 0 /\ ~InHand(n)),
           \A a \in Owners : /\ Row(a)' = Row(a)
                             /\ checking'[Row(a)] = checking[Row(a)]
                             /\ saving'[Row(a)] = saving[Row(a)]
    PROVE  Money' = Money
<1>1. \A n \in Names : IsOpen(n)' <=> IsOpen(n)
  BY DEF IsOpen, InHand
<1>2. Owners' = Owners
  BY <1>1 DEF Owners
<1>3. \A a \in Owners : Pair(checking', saving', Row(a)') = Pair(checking, saving, Row(a))
  BY DEF Pair
<1> QED BY <1>2, <1>3, MoneyRows

\* A database whose tables stay as they are, and whose requests are not writing rows.
LEMMA SameTables ==
    ASSUME UNCHANGED dbVars, \A n \in Names : InHand(n)' <=> InHand(n)
    PROVE  Money' = Money
<1>1. account' = account /\ checking' = checking /\ saving' = saving
  BY DEF dbVars
<1>2. \A a : Row(a)' = Row(a)
  BY <1>1 DEF Row
<1> QED BY <1>1, <1>2, SameMoney

\* The bank's view of a step of the store.
LEMMA NextRefines ==
    ASSUME AtomicID, Inv, [Next]_vars
    PROVE  [Ledger!Next]_Money
<1>0. /\ account \in [Names -> IDs] /\ checking \in Rows /\ saving \in Rows
      /\ request \in [Clients -> Requests] /\ block \in Seq(Txs)
      /\ (block # <<>> => Len(block) \in 1..MaxTxs) /\ "nobody" \notin Names
  BY StoreAssumption DEF Inv, Types
<1>a. ASSUME NEW c \in Clients, request[c] # Idle
      PROVE  /\ request[c].name \in Names /\ request[c].saving \in Amounts
             /\ request[c].checking \in Amounts /\ request[c].id \in IDs
             /\ request[c] \in [pc : {"added", "account", "checking", "saving"}, name : Names,
                                saving : Amounts, checking : Amounts, id : IDs]
  BY <1>0, <1>a DEF Requests
<1>b. ASSUME NEW c \in Clients, \A d \in Clients : d # c => request'[d] = request[d],
             \A n : Writing(request'[c], n) <=> Writing(request[c], n)
      PROVE  \A n \in Names : InHand(n)' <=> InHand(n)
  BY <1>b, HandsOf
<1>c. \A c \in Clients : request[c].pc # "idle" => request[c] # Idle
  BY DEF Idle
<1>d. ASSUME NEW n
      PROVE  n \in Owners <=> n = "nobody" \/ (n \in Names /\ account[n] # 0 /\ ~InHand(n))
  BY DEF Owners, IsOpen, InHand
<1>e. ASSUME NEW n
      PROVE  n \in Owners' <=> n = "nobody" \/ (n \in Names /\ account'[n] # 0 /\ ~InHand(n)')
  BY DEF Owners, IsOpen, InHand
<1>1. ASSUME NEW c \in Clients, NEW name \in Names, NEW s \in Amounts, NEW k \in Amounts,
             AddID(c, name, s, k)
      PROVE  Money' = Money
  <2>1. /\ request[c] = Idle /\ UNCHANGED dbVars
        /\ request'[c] = [pc |-> "added", name |-> name, saving |-> s, checking |-> k, id |-> 0]
        /\ \A d \in Clients : d # c => request'[d] = request[d]
    BY <1>0, <1>1 DEF AddID
  <2>2. request[c].pc = "idle" /\ request'[c].pc = "added"
    BY <2>1 DEF Idle
  <2>3. \A n \in Names : InHand(n)' <=> InHand(n)
    BY <1>b, <2>1, <2>2 DEF Writing
  <2> QED BY <2>1, <2>3, SameTables
<1>2. ASSUME NEW c \in Clients, ReadID(c)
      PROVE  Money' = Money
  <2>1. request[c].pc = "added" /\ request[c] # Idle /\ UNCHANGED dbVars
    BY <1>2, <1>c DEF ReadID
  <2>2. request'[c].pc = "account" /\ \A d \in Clients : d # c => request'[d] = request[d]
    BY <1>0, <1>2, <1>a, <2>1 DEF ReadID
  <2>3. \A n \in Names : InHand(n)' <=> InHand(n)
    BY <1>b, <2>1, <2>2 DEF Writing
  <2> QED BY <2>1, <2>3, SameTables
<1>3. ASSUME NEW c \in Clients, SetAccount(c)
      PROVE  \E name \in Names : Ledger!Close(name)
  <2> DEFINE name == request[c].name
             id == request[c].id
  <2>1. /\ request[c].pc = "account" /\ request[c] # Idle
        /\ account' = [account EXCEPT ![name] = id]
        /\ checking' = checking /\ saving' = saving
    BY <1>3, <1>c DEF SetAccount
  <2>2. /\ request'[c].pc = "checking" /\ request'[c].name = name /\ name \in Names
        /\ \A d \in Clients : d # c => request'[d] = request[d]
    BY <1>0, <1>3, <1>a, <2>1 DEF SetAccount
  <2> HIDE DEF name, id
  <2>3. \A n \in Names : n # name => account'[n] = account[n]
    BY <1>0, <2>1
  <2>4. \A n \in Names : InHand(n)' <=> InHand(n) \/ n = name
    <3>1. \A n : ~Writing(request[c], n) /\ (Writing(request'[c], n) <=> n = name)
      BY <2>1, <2>2 DEF Writing
    <3> QED BY <2>2, <3>1, HandsOf
  <2>5. Owners' = Owners \ {name}
    BY <1>0, <1>d, <1>e, <2>2, <2>3, <2>4
  <2>6. \A a \in Owners' : Pair(checking', saving', Row(a)') = Pair(checking, saving, Row(a))
    <3>1. \A a \in Owners' : a = "nobody" \/ (a \in Names /\ a # name)
      BY <1>d, <2>5
    <3>2. \A a \in Owners' : Row(a)' = Row(a)
      BY <2>3, <3>1 DEF Row
    <3> QED BY <2>1, <3>2 DEF Pair
  <2>7. Money' = [a \in DOMAIN Money \ {name} |-> Money[a]]
    BY <2>5, <2>6, MoneyRows
  <2> QED BY <2>2, <2>7 DEF Ledger!Close
<1>4. ASSUME NEW c \in Clients, SetChecking(c)
      PROVE  Money' = Money
  <2> DEFINE name == request[c].name
             id == request[c].id
  <2>1. /\ request[c].pc = "checking" /\ request[c] # Idle
        /\ checking' = [checking EXCEPT ![id] = request[c].checking]
        /\ account' = account /\ saving' = saving
    BY <1>4, <1>c DEF SetChecking
  <2>2. /\ request'[c].pc = "saving" /\ request'[c].name = name /\ name \in Names /\ id \in IDs
        /\ \A d \in Clients : d # c => request'[d] = request[d]
    BY <1>0, <1>4, <1>a, <2>1 DEF SetChecking
  <2>3. \A n \in Names : InHand(n)' <=> InHand(n)
    <3>1. \A n : Writing(request'[c], n) <=> Writing(request[c], n)
      BY <2>1, <2>2 DEF Writing
    <3> QED BY <1>b, <2>2, <3>1
  <2>4. ASSUME NEW a \in Owners PROVE Row(a) # id /\ Row(a) \in IDs /\ Row(a)' = Row(a)
    <3>1. id # 0
      BY <2>1 DEF Inv, Identities, Lawful, Numbered
    <3>2. ~InHand(a) => a # name
      BY <2>1 DEF InHand
    <3>3. a = "nobody" \/ (a \in Names /\ a # name)
      BY <1>d, <3>2
    <3>4. a \in Names /\ a # name => account[a] # id
      BY <2>1, OwnRow
    <3>5. Row(a)' = Row(a) /\ Row(a) \in IDs
      BY <2>1, OwnersRows DEF Row
    <3> QED BY <1>0, <3>1, <3>3, <3>4, <3>5 DEF Row
  <2> HIDE DEF name, id
  <2>5. \A a \in Owners : checking'[Row(a)] = checking[Row(a)]
    BY <1>0, <2>1, <2>4 DEF Rows
  <2> QED BY <2>1, <2>3, <2>4, <2>5, SameMoney
<1>5. ASSUME NEW c \in Clients, SetSaving(c)
      PROVE  \E name \in Names, s, k \in Amounts : Ledger!Open(name, s, k)
  <2> DEFINE name == request[c].name
             id == request[c].id
             s == request[c].saving
             k == request[c].checking
  <2>1. /\ request[c].pc = "saving" /\ request[c] # Idle
        /\ saving' = [saving EXCEPT ![id] = s]
        /\ account' = account /\ checking' = checking
    BY <1>5, <1>c DEF SetSaving
  <2>2. /\ request'[c].pc = "idle" /\ name \in Names /\ id \in IDs
        /\ s \in Amounts /\ k \in Amounts
        /\ \A d \in Clients : d # c => request'[d] = request[d]
    BY <1>0, <1>5, <1>a, <2>1 DEF SetSaving, Idle
  <2>3. \A n \in Names : (n = name => ~InHand(n)') /\ (InHand(n) <=> InHand(n)' \/ n = name)
    <3>1. \A n : ~Writing(request'[c], n) /\ (Writing(request[c], n) <=> n = name)
      BY <2>1, <2>2 DEF Writing
    <3>2. \A d \in Clients : d # c => ~Writing(request[d], name)
      BY <1>c, <2>1 DEF Inv, Identities, Compatible, Writing
    <3>3. ~OtherHand(c, name)
      BY <3>2 DEF OtherHand
    <3>4. \A n : InHand(n) <=> OtherHand(c, n) \/ n = name
      BY <2>2, <3>1, HandsOf
    <3>5. \A n : InHand(n)' <=> OtherHand(c, n)
      BY <2>2, <3>1, HandsOf
    <3> QED BY <3>3, <3>4, <3>5
  <2>4. account[name] = id /\ id # 0 /\ checking[id] = k
    BY <2>1 DEF Inv, Identities, Lawful, Numbered
  <2>5. \A n \in Names : n # name => account[n] # id
    BY <2>1, OwnRow
  <2> HIDE DEF name, id, s, k
  <2>6. Owners' = Owners \cup {name} /\ name \notin Owners
    <3>1. name \in Owners' /\ name \notin Owners
      BY <1>0, <1>d, <1>e, <2>1, <2>2, <2>3, <2>4
    <3>2. \A n : n # name => (n \in Owners' <=> n \in Owners)
      BY <1>d, <1>e, <2>1, <2>3
    <3> QED BY <3>1, <3>2
  <2>7. ASSUME NEW a, a = name
        PROVE  Pair(checking', saving', Row(a)') = [checking |-> k, saving |-> s]
    <3>1. a \in Names /\ a # "nobody"
      BY <1>0, <2>2, <2>7
    <3>2. Row(a)' = id
      BY <2>1, <2>4, <2>7, <3>1 DEF Row
    <3>3. saving'[id] = s
      BY <1>0, <2>1, <2>2 DEF Rows
    <3> QED BY <2>1, <2>4, <3>2, <3>3 DEF Pair
  <2>8. ASSUME NEW a \in Owners
        PROVE  Pair(checking', saving', Row(a)') = Pair(checking, saving, Row(a))
    <3>1. a = "nobody" \/ (a \in Names /\ a # name)
      BY <1>d, <2>6
    <3>2. Row(a) # id
      BY <2>4, <2>5, <3>1 DEF Row
    <3>3. Row(a) \in IDs /\ Row(a)' = Row(a)
      BY <2>1, OwnersRows DEF Row
    <3>4. saving'[Row(a)] = saving[Row(a)]
      BY <1>0, <2>1, <3>2, <3>3 DEF Rows
    <3> QED BY <2>1, <3>3, <3>4 DEF Pair
  <2>9. name \notin DOMAIN Money
    BY <2>6, MoneyRows
  <2>10. Money' = [a \in DOMAIN Money \cup {name} |->
                     IF a = name THEN [checking |-> k, saving |-> s] ELSE Money[a]]
    <3> DEFINE R == [a \in DOMAIN Money \cup {name} |->
                       IF a = name THEN [checking |-> k, saving |-> s] ELSE Money[a]]
    <3>1. DOMAIN Money = Owners /\ \A a \in Owners : Money[a] = Pair(checking, saving, Row(a))
      BY MoneyRows
    <3>2. Money' = [a \in Owners \cup {name} |-> Pair(checking', saving', Row(a)')]
      BY <2>6, MoneyRows
    <3>3. \A a \in Owners \cup {name} : R[a] = Pair(checking', saving', Row(a)')
      BY <2>6, <2>7, <2>8, <3>1
    <3>4. R = [a \in Owners \cup {name} |-> R[a]]
      BY <3>1
    <3> HIDE DEF R
    <3>5. Money' = R
      BY <3>2, <3>3, <3>4
    <3> QED BY <3>5 DEF R
  <2>11. Ledger!Open(name, s, k)
    BY <2>9, <2>10 DEF Ledger!Open
  <2> QED BY <2>2, <2>11
<1>6. ASSUME NEW n \in 1..MaxTxs, NEW txs \in [1..n -> Txs], StartBlock(txs)
      PROVE  Money' = Money
  <2>1. UNCHANGED dbVars /\ request' = request
    BY <1>6 DEF StartBlock
  <2> QED BY <2>1, SameTables DEF InHand
<1>7. ASSUME ApplyTx PROVE Money' = Money
  <2>1. UNCHANGED dbVars /\ request' = request
    BY <1>7 DEF ApplyTx
  <2> QED BY <2>1, SameTables DEF InHand
<1>8. ASSUME WriteBatch
      PROVE  \E txs \in Ledger!Blocks : Ledger!ExecuteBlock(txs)
  <2>1. Len(block) \in 1..MaxTxs
    BY <1>0, <1>8 DEF WriteBatch
  <2>2. block \in [1..Len(block) -> Txs]
    BY SMTT(20), <1>0
  <2>3. Ledger!ExecuteBlock(block)
    BY <1>8, BlockExecuted DEF Ledger!ExecuteBlock, Executed
  <2>4. block \in Ledger!Blocks
    BY <2>1, <2>2 DEF Ledger!Blocks
  <2> QED BY <2>3, <2>4
<1>9. CASE UNCHANGED vars
  <2>1. UNCHANGED dbVars /\ request' = request
    BY <1>9 DEF vars, dbVars
  <2> QED BY <2>1, SameTables DEF InHand
<1> QED BY <1>1, <1>2, <1>3, <1>4, <1>5, <1>6, <1>7, <1>8, <1>9 DEF Next, Ledger!Next, Ledger!Accounts

-----------------------------------------------------------------------------

\* The store implements the bank: whatever blocks are committed and however many
\* requests overlap, CommitBlock changes the balances all at once, to what its
\* transactions make of those before the block, the later over the earlier, and no
\* other account's; and InitAccount opens an account with the balances it was asked
\* for.
THEOREM StoreRefinement ==
    ASSUME AtomicID
    PROVE  Spec => ImplementsBank
<1>1. Init => Ledger!Init
  <2> SUFFICES ASSUME Init PROVE Ledger!Init
    OBVIOUS
  <2>1. Owners = {"nobody"} /\ Row("nobody") = 0 /\ 0 \in IDs
    BY StoreAssumption DEF Init, Owners, IsOpen, Row, IDs
  <2>2. Pair(checking, saving, 0) = [checking |-> 0, saving |-> 0]
    BY <2>1 DEF Init, Pair
  <2>3. Money = [a \in {"nobody"} |-> [checking |-> 0, saving |-> 0]]
    BY <2>1, <2>2, MoneyRows
  <2> QED BY <2>3 DEF Ledger!Init
<1>2. Inv /\ [Next]_vars => Inv'
  BY NextInv
<1>3. Inv /\ [Next]_vars => [Ledger!Next]_Money
  BY NextRefines
<1>4. QED
  BY InitInv, <1>1, <1>2, <1>3, PTL DEF Spec, ImplementsBank, Ledger!Spec
=============================================================================

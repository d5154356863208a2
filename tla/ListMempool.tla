----------------------------- MODULE ListMempool -----------------------------
(***************************************************************************)
(* The transaction pool (mempool/list_mempool.go): a linked list, a map    *)
(* from transactions to list elements and a byte counter, each safe for    *)
(* concurrent use, and none of them updated together with the others.      *)
(*                                                                         *)
(* CheckTx runs in RPC and peer goroutines and takes no lock.  Update is   *)
(* called with the write lock held and Flush takes the read lock, so these *)
(* two exclude each other.  The duplicate cache is nopTxCache: it has      *)
(* never seen a transaction before.                                        *)
(*                                                                         *)
(* A transaction has a name, its TxKey (the hash of its type and its       *)
(* arguments), and a size, its ComputeSize, which counts the signature and *)
(* the public key too.  CheckTx looks at neither of these two, so a name   *)
(* may come with several sizes.  A list element has an identity, the       *)
(* number of the PushBack that made it, because the map holds a pointer to *)
(* it.                                                                     *)
(***************************************************************************)
EXTENDS Integers, Sequences, FiniteSets

CONSTANTS
    Threads,            \* goroutines that may be in CheckTx
    Txs,                \* transactions, by TxKey
    Sizes,              \* the sizes they come in
    Size,               \* config.Size
    MaxTxBytes,         \* config.MaxTxBytes
    MaxTxsBytes,        \* config.MaxTxsBytes
    MaxPushes,          \* bound on the elements made
    FlushAlone          \* Flush is only called when no CheckTx is running

ASSUME MempoolAssumption ==
    /\ IsFiniteSet(Threads) /\ Threads # {}
    /\ Txs \subseteq Nat /\ Sizes \subseteq Nat
    /\ Size \in Nat /\ MaxTxBytes \in Nat /\ MaxTxsBytes \in Nat
    /\ FlushAlone \in BOOLEAN

VARIABLES
    txs,                \* the list
    txsMap,             \* the element of each transaction, 0 for none
    txsBytes,           \* the byte counter
    pushed,             \* number of elements made
    check,              \* how far each goroutine is in CheckTx
    update,             \* how far Update is
    flush,              \* how far Flush is
    skew,               \* bytes Update should have subtracted since the last Flush,
                        \* less those it did (history)
    panicked            \* CList.Remove met an element that is not in the list

vars == <<txs, txsMap, txsBytes, pushed, check, update, flush, skew, panicked>>

Idle == [pc |-> "idle", tx |-> 0, size |-> 0, e |-> 0]

Elements == {txs[i].e : i \in DOMAIN txs}

Init ==
    /\ txs = <<>>
    /\ txsMap = [t \in Txs |-> 0]
    /\ txsBytes = 0
    /\ pushed = 0
    /\ check = [c \in Threads |-> Idle]
    /\ update = Idle
    /\ flush = "idle"
    /\ skew = 0
    /\ panicked = FALSE

-----------------------------------------------------------------------------
(* CheckTx *)

\* isFull that compares with > instead of >=.
CheckSizeAtMost(c, t, n) ==
    /\ check[c].pc = "idle"
    /\ pushed < MaxPushes
    /\ FlushAlone => flush = "idle"
    /\ Len(txs) <= Size
    /\ check' = [check EXCEPT ![c] = [pc |-> "bytes", tx |-> t, size |-> n, e |-> 0]]
    /\ UNCHANGED <<txs, txsMap, txsBytes, pushed, update, flush, skew, panicked>>

\* isFull, the length of the list; a full pool refuses.
CheckSize(c, t, n) ==
    /\ check[c].pc = "idle"
    /\ pushed < MaxPushes
    /\ FlushAlone => flush = "idle"
    /\ Len(txs) < Size
    /\ check' = [check EXCEPT ![c] = [pc |-> "bytes", tx |-> t, size |-> n, e |-> 0]]
    /\ UNCHANGED <<txs, txsMap, txsBytes, pushed, update, flush, skew, panicked>>

\* isFull, the bytes, and the size of the transaction by itself; a transaction
\* that does not fit is refused.
CheckBytes(c) ==
    LET n == check[c].size
    IN /\ check[c].pc = "bytes"
       /\ check' = [check EXCEPT ![c] =
              IF txsBytes + n > MaxTxsBytes \/ n > MaxTxBytes THEN Idle
              ELSE [@ EXCEPT !.pc = "push"]]
       /\ UNCHANGED <<txs, txsMap, txsBytes, pushed, update, flush, skew, panicked>>

\* addTx, txs.PushBack.
PushBack(c) ==
    /\ check[c].pc = "push"
    /\ pushed' = pushed + 1
    /\ txs' = Append(txs, [e |-> pushed + 1, tx |-> check[c].tx, size |-> check[c].size])
    /\ check' = [check EXCEPT ![c].pc = "store", ![c].e = pushed + 1]
    /\ UNCHANGED <<txsMap, txsBytes, update, flush, skew, panicked>>

\* addTx, txsMap.Store.
StoreElement(c) ==
    /\ check[c].pc = "store"
    /\ txsMap' = [txsMap EXCEPT ![check[c].tx] = check[c].e]
    /\ check' = [check EXCEPT ![c].pc = "add"]
    /\ UNCHANGED <<txs, txsBytes, pushed, update, flush, skew, panicked>>

\* addTx, atomic.AddInt64.
AddBytes(c) ==
    /\ check[c].pc = "add"
    /\ txsBytes' = txsBytes + check[c].size
    /\ check' = [check EXCEPT ![c] = Idle]
    /\ UNCHANGED <<txs, txsMap, pushed, update, flush, skew, panicked>>

-----------------------------------------------------------------------------
(* Update, for one committed transaction at a time *)

\* txsMap.Load, by TxKey: what it finds may have another size than the committed
\* transaction.
UpdateLoad(t, n) ==
    /\ update.pc = "idle" /\ flush = "idle"
    /\ update' = [pc |-> IF txsMap[t] = 0 THEN "done" ELSE "remove",
                  tx |-> t, size |-> n, e |-> txsMap[t]]
    /\ UNCHANGED <<txs, txsMap, txsBytes, pushed, check, flush, skew, panicked>>

\* CList.Remove, of the element at place i.
Remove(list, i) == SubSeq(list, 1, i - 1) \o SubSeq(list, i + 1, Len(list))

\* removeTx, txs.Remove.
UpdateRemove ==
    /\ update.pc = "remove"
    /\ IF update.e \in Elements
       THEN \E i \in DOMAIN txs :
              /\ txs[i].e = update.e
              /\ txs' = Remove(txs, i)
              /\ skew' = skew + txs[i].size - update.size
              /\ UNCHANGED panicked
       ELSE panicked' = TRUE /\ UNCHANGED <<txs, skew>>
    /\ update' = [update EXCEPT !.pc = "delete"]
    /\ UNCHANGED <<txsMap, txsBytes, pushed, check, flush>>

\* removeTx, txsMap.Delete.
UpdateDelete ==
    /\ update.pc = "delete"
    /\ txsMap' = [txsMap EXCEPT ![update.tx] = 0]
    /\ update' = [update EXCEPT !.pc = "bytes"]
    /\ UNCHANGED <<txs, txsBytes, pushed, check, flush, skew, panicked>>

\* removeTx without the subtraction.
UpdateBytesNot ==
    /\ update.pc = "bytes"
    /\ update' = [update EXCEPT !.pc = "done"]
    /\ UNCHANGED <<txs, txsMap, txsBytes, pushed, check, flush, skew, panicked>>

\* removeTx, atomic.AddInt64, of the size of the committed transaction.
UpdateBytes ==
    /\ update.pc = "bytes"
    /\ txsBytes' = txsBytes - update.size
    /\ update' = [update EXCEPT !.pc = "done"]
    /\ UNCHANGED <<txs, txsMap, pushed, check, flush, skew, panicked>>

UpdateUnlock ==
    /\ update.pc = "done"
    /\ update' = Idle
    /\ UNCHANGED <<txs, txsMap, txsBytes, pushed, check, flush, skew, panicked>>

-----------------------------------------------------------------------------
(* Flush *)

\* atomic.SwapInt64.
FlushBytes ==
    /\ flush = "idle" /\ update.pc = "idle"
    /\ FlushAlone => \A c \in Threads : check[c].pc = "idle"
    /\ txsBytes' = 0 /\ skew' = 0
    /\ flush' = "list"
    /\ UNCHANGED <<txs, txsMap, pushed, check, update, panicked>>

\* The loop from txs.Front() on; it ends at the element that was last when it
\* was removed.
FlushList ==
    /\ flush = "list"
    /\ txs' = IF txs = <<>> THEN <<>> ELSE Tail(txs)
    /\ flush' = IF txs' = <<>> THEN "map" ELSE "list"
    /\ UNCHANGED <<txsMap, txsBytes, pushed, check, update, skew, panicked>>

\* Flush that leaves the map alone.
FlushMapNot ==
    /\ flush = "map"
    /\ flush' = "idle"
    /\ UNCHANGED <<txs, txsMap, txsBytes, pushed, check, update, skew, panicked>>

\* txsMap.Range with Delete.
FlushMap ==
    /\ flush = "map"
    /\ txsMap' = [t \in Txs |-> 0]
    /\ flush' = "idle"
    /\ UNCHANGED <<txs, txsBytes, pushed, check, update, skew, panicked>>

Next ==
    /\ ~panicked
    /\ \/ \E c \in Threads :
            \/ \E t \in Txs, n \in Sizes : CheckSize(c, t, n)
            \/ CheckBytes(c)
            \/ PushBack(c)
            \/ StoreElement(c)
            \/ AddBytes(c)
       \/ \E t \in Txs, n \in Sizes : UpdateLoad(t, n)
       \/ UpdateRemove \/ UpdateDelete \/ UpdateBytes \/ UpdateUnlock
       \/ FlushBytes \/ FlushList \/ FlushMap

Spec == Init /\ [][Next]_vars

-----------------------------------------------------------------------------
(* Properties *)

SumOf(list) ==
    LET sum[i \in 0..Len(list)] == IF i = 0 THEN 0 ELSE sum[i - 1] + list[i].size
    IN sum[Len(list)]

Quiet == flush = "idle" /\ update.pc = "idle" /\ \A c \in Threads : check[c].pc = "idle"

\* The check and the insertion of CheckTx are not atomic, but the pool exceeds
\* config.Size by no more than the other goroutines that passed the check.
SizeBounded == Len(txs) <= Size + Cardinality(Threads) - 1

\* However CheckTx and Update interleave, the byte counter is the size of the list
\* whenever no operation is running, but for the sizes Update itself got wrong: an
\* element it found by the TxKey of a committed transaction of another size.
BytesMatch == Quiet => txsBytes = SumOf(txs) + skew

\* TxsBytes is the size of all transactions of the pool.
BytesAreExact == Quiet => txsBytes = SumOf(txs)

\* The map never leads Update to an element that has left the list, which
\* CList.Remove answers with a panic.
NoPanic == ~panicked

\* config.Size is the maximum number of transactions.
SizeIsMaximum == Len(txs) <= Size

\* When Update has dealt with a committed transaction it is not in the pool.
CommittedRemoved ==
    update.pc = "done" => \A i \in DOMAIN txs : txs[i].tx # update.tx
=============================================================================

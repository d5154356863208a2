------------------------------- MODULE KVStore -------------------------------
(***************************************************************************)
(* The SmallBank store (store/kv_store.go): the executor's routine commits *)
(* blocks of transactions while RPC requests initialise accounts, each     *)
(* request in a goroutine of its own.                                      *)
(*                                                                         *)
(* The database is three tables.  Byte2int reads a key that is not there   *)
(* as 0, so a name without an account has the customID 0 and a customID    *)
(* without a row has the balance 0.                                        *)
(***************************************************************************)
EXTENDS Integers, Sequences, FiniteSets

CONSTANTS
    Clients,            \* RPC requests that may run at a time
    Names,              \* names of accounts
    Values,             \* amounts of transactions
    Amounts,            \* balances accounts are initialised with
    MaxTxs,             \* bound on the transactions of a block
    MaxBlocks,          \* bound on the blocks that are committed
    MaxID,              \* bound on customIDs
    AtomicID            \* no request comes between AddInt32 and the read of another

ASSUME StoreAssumption ==
    /\ MaxID \in Nat \ {0}
    /\ "nobody" \notin Names
    /\ Values \subseteq Int /\ Amounts \subseteq Int
    /\ AtomicID \in BOOLEAN

VARIABLES
    account,            \* TableAccount: the customID of each name
    checking, saving,   \* TableChecking, TableSaving: by customID
    increasingID,       \* KVStore.increasingID
    request,            \* how far each request is in InitAccount
    height,             \* number of blocks committed
    block,              \* the transactions of the block in CommitBlock
    applied,            \* how many of them have been applied
    batch               \* writes collected in the batch

dbVars == <<account, checking, saving>>
vars == <<account, checking, saving, increasingID, request, height, block, applied, batch>>

IDs == 0..MaxID

Txs ==
    [type : {"deposit_checking", "transaction_saving", "write_checking"},
     name : Names, value : Values]
    \cup [type : {"amalgamate"}, name : Names, to : Names]
    \cup [type : {"balance"}, name : Names]

Idle == [pc |-> "idle"]

\* NewKVStoreWithDB over an empty database; rand.Int31n gave the first ID.
Init ==
    /\ account = [n \in Names |-> 0]
    /\ checking = [i \in IDs |-> 0]
    /\ saving = [i \in IDs |-> 0]
    /\ increasingID = 1
    /\ request = [c \in Clients |-> Idle]
    /\ height = 0
    /\ block = <<>>
    /\ applied = 0
    /\ batch = <<>>

-----------------------------------------------------------------------------
(* InitAccount *)

Parties(tx) == {tx.name} \cup IF tx.type = "amalgamate" THEN {tx.to} ELSE {}

\* A name that a request or the block in execution is using.
Busy(name) ==
    \/ \E c \in Clients : request[c] # Idle /\ request[c].name = name
    \/ \E i \in DOMAIN block : name \in Parties(block[i])

\* A request arrives: atomic.AddInt32.
AddID(c, name, s, k) ==
    /\ request[c] = Idle
    /\ increasingID <= MaxID
    /\ ~Busy(name)
    /\ AtomicID => \A d \in Clients : request[d].pc # "added"
    /\ increasingID' = increasingID + 1
    /\ request' = [request EXCEPT ![c] =
            [pc |-> "added", name |-> name, saving |-> s, checking |-> k, id |-> 0]]
    /\ UNCHANGED <<dbVars, height, block, applied, batch>>

\* The second look at increasingID, a plain read.
ReadID(c) ==
    /\ request[c].pc = "added"
    /\ request' = [request EXCEPT ![c].pc = "account", ![c].id = increasingID - 1]
    /\ UNCHANGED <<dbVars, increasingID, height, block, applied, batch>>

SetAccount(c) ==
    /\ request[c].pc = "account"
    /\ account' = [account EXCEPT ![request[c].name] = request[c].id]
    /\ request' = [request EXCEPT ![c].pc = "checking"]
    /\ UNCHANGED <<checking, saving, increasingID, height, block, applied, batch>>

SetChecking(c) ==
    /\ request[c].pc = "checking"
    /\ checking' = [checking EXCEPT ![request[c].id] = request[c].checking]
    /\ request' = [request EXCEPT ![c].pc = "saving"]
    /\ UNCHANGED <<account, saving, increasingID, height, block, applied, batch>>

SetSaving(c) ==
    /\ request[c].pc = "saving"
    /\ saving' = [saving EXCEPT ![request[c].id] = request[c].saving]
    /\ request' = [request EXCEPT ![c] = Idle]
    /\ UNCHANGED <<account, checking, increasingID, height, block, applied, batch>>

-----------------------------------------------------------------------------
(* CommitBlock *)

getTotalBal(id) == saving[id] + checking[id]

Put(table, id, value) == [table |-> table, id |-> id, value |-> value]

\* applySmallBank whose amalgamate leaves the saving row alone.
ApplySmallBankKeeping(tx) ==
    LET id == account[tx.name]
        total == getTotalBal(id)
    IN CASE tx.type = "deposit_checking" ->
              <<Put("checking", id, checking[id] + tx.value)>>
         [] tx.type = "transaction_saving" ->
              <<Put("saving", id, saving[id] + tx.value)>>
         [] tx.type = "amalgamate" ->
              LET to == account[tx.to]
              IN <<Put("checking", to, checking[to] + total),
                   Put("checking", id, 0)>>
         [] tx.type = "write_checking" ->
              <<Put("checking", id,
                    checking[id] - (IF total <= tx.value THEN tx.value + 1 ELSE tx.value))>>
         [] OTHER -> <<>>

\* applySmallBank: the writes of a transaction.  Balances are read from the
\* database, never from the batch.
ApplySmallBank(tx) ==
    LET id == account[tx.name]
        total == getTotalBal(id)
    IN CASE tx.type = "deposit_checking" ->
              <<Put("checking", id, checking[id] + tx.value)>>
         [] tx.type = "transaction_saving" ->
              <<Put("saving", id, saving[id] + tx.value)>>
         [] tx.type = "amalgamate" ->
              LET to == account[tx.to]
              IN <<Put("checking", to, checking[to] + total),
                   Put("saving", id, 0),
                   Put("checking", id, 0)>>
         [] tx.type = "write_checking" ->
              <<Put("checking", id,
                    checking[id] - (IF total <= tx.value THEN tx.value + 1 ELSE tx.value))>>
         [] OTHER -> <<>>

\* CommitBlock is called with a block whose accounts are not being initialised.
StartBlock(txs) ==
    /\ block = <<>>
    /\ height < MaxBlocks
    /\ \A i \in DOMAIN txs : \A n \in Parties(txs[i]) : ~Busy(n)
    /\ block' = txs
    /\ height' = height + 1
    /\ UNCHANGED <<dbVars, increasingID, request, applied, batch>>

\* The loop over block.Txs.
ApplyTx ==
    /\ applied < Len(block)
    /\ batch' = batch \o ApplySmallBank(block[applied + 1])
    /\ applied' = applied + 1
    /\ UNCHANGED <<dbVars, increasingID, request, height, block>>

\* batch.Write makes the writes visible together, each over the ones before it.
WriteBatch ==
    LET written(table, old) ==
            LET rows[k \in 0..Len(batch)] ==
                    IF k = 0 THEN old
                    ELSE IF batch[k].table = table
                    THEN [rows[k-1] EXCEPT ![batch[k].id] = batch[k].value]
                    ELSE rows[k-1]
            IN rows[Len(batch)]
    IN /\ block # <<>>
       /\ applied = Len(block)
       /\ checking' = written("checking", checking)
       /\ saving' = written("saving", saving)
       /\ block' = <<>>
       /\ applied' = 0
       /\ batch' = <<>>
       /\ UNCHANGED <<account, increasingID, request, height>>

Next ==
    \/ \E c \in Clients :
         \/ \E name \in Names, s, k \in Amounts : AddID(c, name, s, k)
         \/ ReadID(c)
         \/ SetAccount(c)
         \/ SetChecking(c)
         \/ SetSaving(c)
    \/ \E n \in 1..MaxTxs : \E txs \in [1..n -> Txs] : StartBlock(txs)
    \/ ApplyTx
    \/ WriteBatch

Spec == Init /\ [][Next]_vars

\* CommitBlock and the requests run to their ends.
FairSpec ==
    /\ Spec
    /\ WF_vars(ApplyTx) /\ WF_vars(WriteBatch)
    /\ \A c \in Clients :
         WF_vars(ReadID(c) \/ SetAccount(c) \/ SetChecking(c) \/ SetSaving(c))

-----------------------------------------------------------------------------
(* Properties *)

\* InitAccount never gives a customID that another name has: balances are not
\* shared.
DistinctIDs ==
    \A m, n \in Names : m # n /\ account[m] = account[n] => account[m] = 0

\* An account is open once InitAccount has returned and until it is called again.
IsOpen(name) ==
    /\ account[name] # 0
    /\ \A c \in Clients :
         request[c].pc \in {"checking", "saving"} => request[c].name # name

Money ==
    [a \in {"nobody"} \cup {n \in Names : IsOpen(n)} |->
        LET id == IF a = "nobody" THEN 0 ELSE account[a]
        IN [checking |-> checking[id], saving |-> saving[id]]]

Ledger == INSTANCE Bank WITH Nobody <- "nobody", money <- Money

\* The tables implement the bank: a block changes the balances all at once, to what
\* its transactions, the later over the earlier, make of the balances before it,
\* whatever InitAccount does to other accounts meanwhile, and no balance but those
\* of its accounts.
ImplementsBank == Ledger!Spec

\* A block changes the balances as its transactions would one after the other.
ImplementsSerialBank == Ledger!SerialSpec

Total ==
    LET sum[i \in IDs] == getTotalBal(i) + IF i = 0 THEN 0 ELSE sum[i - 1]
    IN sum[MaxID]

\* An amalgamate moves money and makes or destroys none.
AmalgamateKeepsMoney ==
    [][WriteBatch /\ (\A i \in DOMAIN block : block[i].type = "amalgamate")
          => Total' = Total]_vars
=============================================================================

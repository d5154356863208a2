-------------------------------- MODULE Bank --------------------------------
(***************************************************************************)
(* What the SmallBank application does, seen from outside: every account   *)
(* holds a checking and a saving balance, and a block takes effect at      *)
(* once.  Its transactions read the balances before the block and write in *)
(* the order of the block (Spec), which is less than running one after the *)
(* other (SerialSpec): of two transactions on one balance the later wins.  *)
(* KVStore is checked against both.                                        *)
(*                                                                         *)
(* Names that have no account share one, Nobody's.                         *)
(***************************************************************************)
EXTENDS Integers, Sequences

CONSTANTS
    Names,              \* the names accounts are opened under
    Nobody,             \* the owner of what is paid to an unknown name
    Amounts,            \* balances accounts are opened with
    Txs,                \* transactions
    MaxTxs              \* bound on the transactions of a block

VARIABLE money          \* the balances of every open account and of Nobody

Owner(m, name) == IF name \in DOMAIN m THEN name ELSE Nobody

\* One transaction: it reads the balances `before' and writes to m.  The account
\* that is emptied by an amalgamate is written last, so one that is amalgamated
\* with itself is empty too.
Execute(before, m, tx) ==
    LET a == Owner(m, tx.name)
        b == Owner(m, tx.to)
        total == before[a].checking + before[a].saving
    IN CASE tx.type = "deposit_checking" ->
              [m EXCEPT ![a].checking = before[a].checking + tx.value]
         [] tx.type = "transaction_saving" ->
              [m EXCEPT ![a].saving = before[a].saving + tx.value]
         [] tx.type = "write_checking" ->
              [m EXCEPT ![a].checking =
                    before[a].checking - (IF total <= tx.value THEN tx.value + 1 ELSE tx.value)]
         [] tx.type = "amalgamate" ->
              [m EXCEPT ![b].checking = before[b].checking + total,
                        ![a] = [checking |-> 0, saving |-> 0]]
         [] OTHER -> m

Init == money = [a \in {Nobody} |-> [checking |-> 0, saving |-> 0]]

\* A block takes effect as a whole.
ExecuteBlock(txs) ==
    LET after[k \in 0..Len(txs)] ==
            IF k = 0 THEN money ELSE Execute(money, after[k-1], txs[k])
    IN money' = after[Len(txs)]

\* The same for transactions that read what those before them have written.
ExecuteSerially(txs) ==
    LET after[k \in 0..Len(txs)] ==
            IF k = 0 THEN money ELSE Execute(after[k-1], after[k-1], txs[k])
    IN money' = after[Len(txs)]

Close(name) ==
    money' = [a \in DOMAIN money \ {name} |-> money[a]]

Open(name, saving, checking) ==
    /\ name \notin DOMAIN money
    /\ money' = [a \in DOMAIN money \cup {name} |->
                    IF a = name THEN [checking |-> checking, saving |-> saving]
                    ELSE money[a]]

Blocks == UNION {[1..n -> Txs] : n \in 1..MaxTxs}

Accounts ==
    \/ \E name \in Names : Close(name)
    \/ \E name \in Names, saving, checking \in Amounts : Open(name, saving, checking)

Next == Accounts \/ \E txs \in Blocks : ExecuteBlock(txs)

Spec == Init /\ [][Next]_money

SerialSpec == Init /\ [][Accounts \/ \E txs \in Blocks : ExecuteSerially(txs)]_money
=============================================================================

---------------------------- MODULE CommittedLog ----------------------------
(***************************************************************************)
(* What a replicated ledger promises its clients: every node executes      *)
(* blocks one after the other, never takes one back, and any two nodes     *)
(* have executed the same blocks in the same order as far as both have     *)
(* come.  SyncRounds is checked against it.                                *)
(***************************************************************************)
EXTENDS Naturals, Sequences, SequencesExt

CONSTANTS Nodes, Blocks

VARIABLE log            \* the blocks each node has executed, in order

Consistent(l) == \A u, v \in Nodes : IsPrefix(l[u], l[v]) \/ IsPrefix(l[v], l[u])

Init == log = [v \in Nodes |-> <<>>]

\* Some nodes execute further blocks, none of them for a second time.
Execute ==
    /\ \A v \in Nodes :
         /\ IsPrefix(log[v], log'[v])
         /\ \A i, j \in DOMAIN log'[v] : log'[v][i] = log'[v][j] => i = j
         /\ ToSet(log'[v]) \subseteq Blocks
    /\ Consistent(log')

Spec == Init /\ [][Execute]_log
=============================================================================

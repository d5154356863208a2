----------------------------- MODULE MCTxGossip -----------------------------
(***************************************************************************)
(* Networks of three nodes for TxGossip: a chain, in which every           *)
(* transaction has one way to each node, and a triangle.                   *)
(***************************************************************************)
EXTENDS TxGossip

CONSTANTS n1, n2, n3

Line == {<<n1, n2>>, <<n2, n1>>, <<n2, n3>>, <<n3, n2>>}
Triangle == Line \cup {<<n1, n3>>, <<n3, n1>>}
=============================================================================

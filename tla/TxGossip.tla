------------------------------ MODULE TxGossip ------------------------------
(***************************************************************************)
(* How transactions travel between the pools of the nodes                  *)
(* (mempool/reactor.go over mempool/list_mempool.go).  A node runs one     *)
(* broadcastTxRoutine per peer, which walks the list of the pool and sends *)
(* each element to the peer unless the element came from it.  What arrives *)
(* goes through CheckTx, which has no memory of the transactions it has    *)
(* seen (nopTxCache), and becomes a new element.                           *)
(*                                                                         *)
(* The running node never removes an element: nobody calls Update.         *)
(*                                                                         *)
(* Connections drop and are made again.  Both ends get a new ID for the    *)
(* peer then (MempoolIDs; the wrap of the IDs is left to it), so an ID is  *)
(* the node together with a number of the connection, and both ends start  *)
(* a new broadcastTxRoutine, which begins at the front of the list.        *)
(***************************************************************************)
EXTENDS Naturals, Sequences, FiniteSets

CONSTANTS
    Nodes,
    RPC,                \* the sender of what comes from a client, UnknownPeerID
    Links,              \* pairs of connected nodes, both ways
    Txs,                \* transactions, each sent by one client once
    Size,               \* config.Size of every pool
    MaxDrops            \* bound on the connections that drop

ASSUME GossipAssumption ==
    /\ RPC \notin Nodes
    /\ Links \subseteq Nodes \X Nodes
    /\ \A l \in Links : <<l[2], l[1]>> \in Links
    /\ Size \in Nat \ {0}
    /\ MaxDrops \in Nat

VARIABLES
    txs,                \* the pool of each node, elements with their sender
    next,               \* how far each broadcastTxRoutine has walked
    wire,               \* messages of each connection, first in first out
    up,                 \* the connection exists
    made,               \* how often the connection has been made again
    drops,              \* how many connections have dropped
    pending             \* transactions no client has sent yet

linkVars == <<up, made, drops>>
vars == <<txs, next, wire, up, made, drops, pending>>

\* The same connection, seen from its other end.
Back(l) == <<l[2], l[1]>>
Ends(l) == {l, Back(l)}

\* The ID that the first node of l has given the second one.
PeerID(l) == <<l[2], made[l]>>

Init ==
    /\ txs = [n \in Nodes |-> <<>>]
    /\ next = [l \in Links |-> 0]
    /\ wire = [l \in Links |-> <<>>]
    /\ up = [l \in Links |-> TRUE]
    /\ made = [l \in Links |-> 0]
    /\ drops = 0
    /\ pending = Txs

\* CheckTx, by isFull, nopTxCache.Push and addTx; a full pool refuses.
CheckTx(n, t, sender) ==
    txs' = IF Len(txs[n]) >= Size THEN txs
           ELSE [txs EXCEPT ![n] = Append(@, [tx |-> t, sender |-> sender])]

\* A client calls the RPC of a node.
BroadcastTx(n, t) ==
    /\ t \in pending
    /\ CheckTx(n, t, RPC)
    /\ pending' = pending \ {t}
    /\ UNCHANGED <<next, wire, linkVars>>

\* One turn of broadcastTxRoutine over an element, which it sends or not.
Turn(l, sends) ==
    /\ up[l]
    /\ next[l] < Len(txs[l[1]])
    /\ wire' = IF sends THEN [wire EXCEPT ![l] = Append(@, txs[l[1]][next[l] + 1].tx)] ELSE wire
    /\ next' = [next EXCEPT ![l] = @ + 1]
    /\ UNCHANGED <<txs, linkVars, pending>>

\* The routine that sends an element back to its sender too.
SendToAll(l) == Turn(l, TRUE)

\* broadcastTxRoutine, from TxsWaitChan or NextWaitChan to the successful Send,
\* if the element is not from this peer.
Send(l) == Turn(l, txs[l[1]][next[l] + 1].sender # PeerID(l))

\* Reactor.Receive
Receive(l) ==
    /\ wire[l] # <<>>
    /\ CheckTx(l[2], Head(wire[l]), PeerID(Back(l)))
    /\ wire' = [wire EXCEPT ![l] = Tail(@)]
    /\ UNCHANGED <<next, linkVars, pending>>

\* The connection drops with what is on it; RemovePeer, and the routines of
\* both ends return.
Disconnect(l) ==
    /\ up[l]
    /\ drops < MaxDrops
    /\ drops' = drops + 1
    /\ up' = [k \in Links |-> up[k] /\ k \notin Ends(l)]
    /\ wire' = [k \in Links |-> IF k \in Ends(l) THEN <<>> ELSE wire[k]]
    /\ UNCHANGED <<txs, next, made, pending>>

\* Connect in a reactor that goes on where the last routine ended.
ConnectResuming(l) ==
    /\ ~up[l]
    /\ up' = [k \in Links |-> up[k] \/ k \in Ends(l)]
    /\ made' = [k \in Links |-> IF k \in Ends(l) THEN made[k] + 1 ELSE made[k]]
    /\ UNCHANGED <<txs, next, wire, drops, pending>>

\* The switch connects the nodes again: InitPeer and AddPeer at both ends.
Connect(l) ==
    /\ ~up[l]
    /\ up' = [k \in Links |-> up[k] \/ k \in Ends(l)]
    /\ made' = [k \in Links |-> IF k \in Ends(l) THEN made[k] + 1 ELSE made[k]]
    /\ next' = [k \in Links |-> IF k \in Ends(l) THEN 0 ELSE next[k]]
    /\ UNCHANGED <<txs, wire, drops, pending>>

Next ==
    \/ \E n \in Nodes, t \in Txs : BroadcastTx(n, t)
    \/ \E l \in Links : Send(l) \/ Receive(l) \/ Disconnect(l) \/ Connect(l)

Spec == Init /\ [][Next]_vars

\* The routines of every connection keep running, and the switch connects to
\* its persistent peers again.
FairSpec == Spec /\ \A l \in Links : WF_vars(Send(l)) /\ WF_vars(Receive(l)) /\ WF_vars(Connect(l))

-----------------------------------------------------------------------------
(* Properties *)

Has(n, t) == \E i \in DOMAIN txs[n] : txs[n][i].tx = t
Copies(n, t) == Cardinality({i \in DOMAIN txs[n] : txs[n][i].tx = t})

\* The step sends a transaction over l that came over l.
Returns(l) ==
    /\ Len(wire'[l]) > Len(wire[l])
    /\ \E k \in DOMAIN txs[l[1]] :
          txs[l[1]][k] = [tx |-> wire'[l][Len(wire'[l])], sender |-> PeerID(l)]

\* A node does not send a transaction to a peer that it has received it from
\* over the same connection.
NotReturned == [][\A l \in Links : ~Returns(l)]_vars

\* It does so only after a connection has dropped, when another copy of the
\* transaction has come to it from elsewhere.
NotReturnedBefore == [][drops = 0 => \A l \in Links : ~Returns(l)]_vars

\* A pool holds a transaction once as long as no connection has dropped, and
\* a connection that is made again at most doubles the copies: both ends then
\* send each other all they have, as nothing remembers what the other has.
CopiesBounded == \A n \in Nodes, t \in Txs : Copies(n, t) <= 2 ^ drops

\* A transaction in the pool of one node gets into the pool of every node,
\* also when the connection drops while it is on the way.
Spreads == \A n, m \in Nodes, t \in Txs : Has(n, t) ~> Has(m, t)
=============================================================================

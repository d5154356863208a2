----------------------------- MODULE MempoolIDs -----------------------------
(***************************************************************************)
(* The short IDs the mempool reactor gives its peers (mempoolIDs in        *)
(* mempool/reactor.go) and the use made of them: a pooled transaction      *)
(* remembers the IDs it came from, and is not sent to a peer with such an  *)
(* ID.  Every operation holds the mutex of mempoolIDs, so each is one      *)
(* step.  IDs are uint16 in the code; here they are taken modulo Modulus.  *)
(***************************************************************************)
EXTENDS Integers, FiniteSets

CONSTANTS
    Peers,              \* the nodes that may connect
    Modulus,            \* number of values of the ID type, 2^16
    PoolSize            \* config.Size: the pool refuses more transactions

ASSUME IDsAssumption == IsFiniteSet(Peers) /\ Modulus \in Nat /\ Modulus >= 2 /\ PoolSize \in Nat

VARIABLES
    peerMap,            \* the ID of each peer
    nextID,             \* where the search for a free ID starts
    activeIDs,          \* IDs in use
    senders,            \* pairs: an ID kept with a pooled transaction, and the
                        \* peer the transaction came from
    outOfIDs            \* ReserveForPeer has panicked

idVars == <<peerMap, nextID, activeIDs, senders, outOfIDs>>

IDs == 0..(Modulus - 1)
NoID == -1
UnknownPeerID == 0
maxActiveIDs == Modulus - 1

\* newMempoolIDs
NewMempoolIDs ==
    /\ peerMap = [p \in Peers |-> NoID]
    /\ nextID = 1
    /\ activeIDs = {UnknownPeerID}
    /\ senders = {}
    /\ outOfIDs = FALSE

\* nextID++ on a uint16.
Successor(i) == IF i = Modulus - 1 THEN 0 ELSE i + 1

\* How often nextID++ leads from i to j.
Distance(i, j) == IF i <= j THEN j - i ELSE Modulus + j - i

\* nextPeerID that takes nextID without a look at activeIDs.
IsNextPeerIDUnchecked(id) == id = nextID

\* nextPeerID: the first free ID from nextID on.
IsNextPeerID(id) ==
    /\ id \notin activeIDs
    /\ \A j \in IDs \ activeIDs : Distance(nextID, id) <= Distance(nextID, j)

\* InitPeer, by ReserveForPeer, which does not look whether the peer has an ID: that
\* it has none is tendermint's switch, which calls InitPeer for a peer it does not
\* have and RemovePeer when it stops one.
ReserveForPeer(p) ==
    /\ peerMap[p] = NoID
    /\ IF Cardinality(activeIDs) = maxActiveIDs
       THEN outOfIDs' = TRUE /\ UNCHANGED <<peerMap, nextID, activeIDs, senders>>
       ELSE \E id \in IDs :
              /\ IsNextPeerID(id)
              /\ nextID' = Successor(id)
              /\ peerMap' = [peerMap EXCEPT ![p] = id]
              /\ activeIDs' = activeIDs \cup {id}
              /\ UNCHANGED <<senders, outOfIDs>>

\* Reclaim that only forgets the peer.
ReclaimKeeping(p) ==
    /\ peerMap[p] # NoID
    /\ peerMap' = [peerMap EXCEPT ![p] = NoID]
    /\ UNCHANGED <<nextID, activeIDs, senders, outOfIDs>>

\* RemovePeer, by Reclaim.
Reclaim(p) ==
    /\ peerMap[p] # NoID
    /\ activeIDs' = activeIDs \ {peerMap[p]}
    /\ peerMap' = [peerMap EXCEPT ![p] = NoID]
    /\ UNCHANGED <<nextID, senders, outOfIDs>>

\* GetForPeer; a peer that is gone has the zero value of the map.
GetForPeer(p) == IF peerMap[p] = NoID THEN UnknownPeerID ELSE peerMap[p]

\* Receive: a transaction from p enters the pool.
Receive(p) ==
    /\ Cardinality(senders) < PoolSize
    /\ senders' = senders \cup {<<GetForPeer(p), p>>}
    /\ UNCHANGED <<peerMap, nextID, activeIDs, outOfIDs>>

IDsNext ==
    /\ ~outOfIDs
    /\ \E p \in Peers : ReserveForPeer(p) \/ Reclaim(p) \/ Receive(p)

IDsSpec == NewMempoolIDs /\ [][IDsNext]_idVars

-----------------------------------------------------------------------------
(* Properties *)

\* Connected peers have different IDs, none of them the ID of RPC clients.
UniqueIDs ==
    \A p, q \in Peers :
        peerMap[p] # NoID =>
            /\ peerMap[p] # UnknownPeerID
            /\ peerMap[p] = peerMap[q] => p = q

\* The IDs marked as used are those of the connected peers and the reserved
\* one: none leaks, however often the peers come and go.
ActiveIDsAreOwned ==
    activeIDs = {UnknownPeerID} \cup {peerMap[p] : p \in {q \in Peers : peerMap[q] # NoID}}

\* While there are fewer peers than IDs, ReserveForPeer finds a free one.
EnoughIDs == Cardinality(Peers) < maxActiveIDs => ~outOfIDs

\* A transaction is withheld from a peer only when it came from that peer.
SenderIsPeer ==
    \A p, q \in Peers :
        <<peerMap[q], p>> \in senders => p = q
=============================================================================

---------------------------- MODULE ConsensusNode ----------------------------
(***************************************************************************)
(* One node, Me, among peers whose clocks need not agree with its own.     *)
(* Rounds advance as RoundSteps says (SlotClock implements it); proposals  *)
(* and votes of the peers reach the node early, late, repeatedly, in any   *)
(* order or not at all, between any two events of the node.                *)
(*                                                                         *)
(* The handlers are those of ConsensusState.  The peers follow the same    *)
(* code: one proposal for a slot they lead, one vote for the block of a    *)
(* slot, and evidence only for blocks that a quorum has supported.         *)
(***************************************************************************)
EXTENDS ConsensusState

CONSTANTS
    MaxProposal,        \* bound on the slots in which a peer proposes
    Me                  \* the index of this node's validator

ASSUME NodeAssumption ==
    /\ MaxProposal \in Slots
    /\ Me \in Vals

VARIABLES
    CurSlot, LastSlot, Step,    \* RoundState, driven by the clock
    node,               \* the rest of this node, see ConsensusState
    own,                \* own proposals not yet received from internalMsgQueue
    blocks,             \* the proposal of each slot that has been broadcast
    cast,               \* the vote each validator has broadcast in each slot
    published,          \* how often this node has broadcast a vote in each slot
    timely              \* in this behaviour all that arrives does so in its own
                        \* slot, after the node has applied the last one

roundVars == <<CurSlot, LastSlot, Step>>
vars == <<CurSlot, LastSlot, Step, node, own, blocks, cast, published, timely>>

Round == INSTANCE RoundSteps

Init ==
    /\ Round!Init
    /\ node = NewNode
    /\ own = {}
    /\ blocks = [s \in Slots |-> NoBlock]
    /\ cast = [s \in Slots |-> [v \in Vals |-> "None"]]
    /\ published = [s \in Slots |-> 0]
    /\ timely \in BOOLEAN

-----------------------------------------------------------------------------
(* The events of the round *)

\* enterNewSlot.
EnterNewSlot ==
    /\ Round!NewSlot
    /\ timely => Step = "Wait" /\ own = {} /\ node.signed = {}
    /\ UNCHANGED <<node, own, blocks, cast, published, timely>>

\* enterApply.
Apply ==
    /\ Round!Apply
    /\ node' = EnterApply(node, CurSlot, LastSlot)
    /\ UNCHANGED <<own, blocks, cast, published, timely>>

\* enterPropose: the proposal goes to internalMsgQueue.
Propose ==
    /\ Round!Propose
    /\ own' = IF Proposer(CurSlot) = Me
              THEN own \cup {CreateProposal(node, CurSlot)}
              ELSE own
    /\ UNCHANGED <<node, blocks, cast, published, timely>>

-----------------------------------------------------------------------------
(* Messages *)

\* broadcastProposal and broadcastVote: the reactor hands them to every peer.
BroadcastProposal(b) == blocks' = [blocks EXCEPT ![b.slot] = b]

BroadcastVote(x) ==
    /\ cast' = [cast EXCEPT ![x.slot][Me] = x.type]
    /\ published' = [published EXCEPT ![x.slot] = @ + 1]

\* handleMsg of the own proposal; it is broadcast when it is accepted.
HandleOwnProposal(b) ==
    /\ b \in own
    /\ own' = own \ {b}
    /\ node' = HandleProposal(node, CurSlot, b)
    /\ IF node'.prop # node.prop THEN BroadcastProposal(b) ELSE UNCHANGED blocks
    /\ UNCHANGED <<roundVars, cast, published, timely>>

\* handleMsg of a vote of this node; it is broadcast when it is added.
HandleOwnVote(x) ==
    LET n == [node EXCEPT !.signed = @ \ {x}]
    IN /\ x \in node.signed
       /\ node' = AddVote(n, x.slot, Me, x.type)
       /\ IF node' = n THEN UNCHANGED <<cast, published>> ELSE BroadcastVote(x)
       /\ UNCHANGED <<roundVars, own, blocks, timely>>

\* handleMsg of a peer's proposal, from the proposer or from a node that passed
\* it on.
ReceiveProposal(s) ==
    /\ blocks[s] # NoBlock
    /\ timely => s = CurSlot /\ Step # "Slot"
    /\ node' = HandleProposal(node, CurSlot, blocks[s])
    /\ UNCHANGED <<roundVars, own, blocks, cast, published, timely>>

\* handleMsg of a peer's vote.
ReceiveVote(s, v) ==
    /\ v # Me
    /\ cast[s][v] # "None"
    /\ timely => s = CurSlot
    /\ node' = AddVote(node, s, v, cast[s][v])
    /\ UNCHANGED <<roundVars, own, blocks, cast, published, timely>>

-----------------------------------------------------------------------------
(* The peers *)

Supported(s) == Cardinality({v \in Vals : cast[s][v] = "Support"}) >= Threshold

\* A peer leads a slot and broadcasts a proposal: it follows some earlier block
\* and carries quorums of earlier blocks, newest first, not all of which need be
\* the ones it follows, as a peer may have put a quorum on the wrong block.  They
\* are quorums of supported blocks, the only ones this node passes on either
\* (QuorumsAreSound).  Its clock is at most one slot ahead.
PeerProposes(s, parent, proven) ==
    /\ Proposer(s) # Me
    /\ s \in 1..MaxProposal
    /\ s <= CurSlot + 1
    /\ timely => s = CurSlot
    /\ blocks[s] = NoBlock
    /\ parent < s
    /\ parent # 0 => blocks[parent] # NoBlock
    /\ proven \subseteq {b \in 1..(s - 1) : Supported(b)}
    /\ LET list == Keep([i \in 1..MaxSlot |-> (MaxSlot + 1) - i], proven)
       IN blocks' = [blocks EXCEPT ![s] =
            [slot |-> s, parent |-> parent,
             evid |-> [i \in DOMAIN list |-> [hash |-> list[i], type |-> "Support"]]]]
    /\ UNCHANGED <<roundVars, node, own, cast, published, timely>>

\* A peer votes on the proposal of a slot.
PeerVotes(s, v, type) ==
    /\ v # Me
    /\ blocks[s] # NoBlock
    /\ timely => s = CurSlot
    /\ cast[s][v] = "None"
    /\ cast' = [cast EXCEPT ![s][v] = type]
    /\ UNCHANGED <<roundVars, node, own, blocks, published, timely>>

Next ==
    \/ EnterNewSlot
    \/ Apply
    \/ Propose
    \/ \E b \in own : HandleOwnProposal(b)
    \/ \E x \in node.signed : HandleOwnVote(x)
    \/ \E s \in Slots : ReceiveProposal(s)
    \/ \E s \in Slots, v \in Vals : ReceiveVote(s, v)
    \/ \E s, parent \in Slots : \E proven \in SUBSET Slots : PeerProposes(s, parent, proven)
    \/ \E s \in Slots, v \in Vals, type \in {"Support", "Against"} : PeerVotes(s, v, type)

Spec == Init /\ [][Next]_vars

-----------------------------------------------------------------------------
(* Properties *)

\* A node broadcasts at most one vote in a slot, even when it accepts and votes
\* on the proposal of the slot twice.
OneVotePerSlot == \A s \in Slots : published[s] <= 1

\* A quorum that this node makes of the votes it has received is a quorum of
\* the votes that were broadcast, in whatever order, slot and number of copies
\* they have come.
QuorumsAreCast ==
    \A s \in Slots : \A type \in {"Support", "Against"} :
        TryGenQuorum(node, s).type = type =>
            Cardinality({v \in Vals : cast[s][v] = type}) >= Threshold

\* A quorum that this node can make of the votes of a slot stays: votes that come
\* late or again neither undo it nor turn support into anything else.
QuorumsStay ==
    [][\A s \in Slots :
          LET q == TryGenQuorum(node, s).type
          IN q # "Empty" => (TryGenQuorum(node, s).type)' \in {q, "Support"}]_vars

\* The set of uncommitted blocks holds suspect and precommit blocks only: error
\* blocks never enter it and committed blocks have left it.
UncommittedStates ==
    \A i \in DOMAIN node.uncommit :
        node.heap[node.uncommit[i]].state \in {"Suspect", "Precommit"}

\* A support quorum this node holds or passes on as evidence names a block that
\* a quorum of the validators supported, even where enterApply puts it on the
\* block of another slot.
QuorumsAreSound ==
    /\ \A o \in DOMAIN node.heap :
          node.heap[o].vq.type = "Support" => Supported(node.heap[o].vq.hash)
    /\ \A b \in own \cup {blocks[s] : s \in Slots} : \A i \in DOMAIN b.evid :
          b.evid[i].type = "Support" /\ Supported(b.evid[i].hash)

\* Whatever blocks, votes and evidence the node has taken in, in whatever order,
\* a proposal it makes follows a newest block below a newest precommit block of
\* its tree, and carries, newest first, the quorums of exactly the precommit
\* blocks between that block and the nearest committed one.
ProposesOnNewest ==
    [][\A b \in own' \ own : \E n \in DOMAIN node.tree :
          LET list == PrecommitBlocks(node.heap, node.tree, n)
          IN /\ IsLatest(node.heap, node.tree, n)
             /\ IsEvidence(node.heap, node.tree, n, list)
             /\ b.parent = node.heap[node.tree[n].data].hash
             /\ b.evid = [i \in DOMAIN list |-> node.heap[list[i]].vq]]_vars

\* The proposal of a slot is accepted, and later applied, once.
AppliedOnce ==
    \A i, j \in DOMAIN node.heap : node.heap[i].slot = node.heap[j].slot => i = j

\* A proposal that came before its slot is taken up when its slot begins.
CachedTaken ==
    node.future[CurSlot] # NoBlock /\ Step # "Slot" =>
        \E o \in DOMAIN node.heap : node.heap[o].slot = CurSlot

\* A precommit block has the support of a quorum of the validators.
PrecommitIsSupported ==
    \A o \in DOMAIN node.heap :
        node.heap[o].state = "Precommit" => Supported(node.heap[o].slot)

\* Both hold while the clocks of the peers agree with this node's well enough
\* for nothing to arrive outside its slot: enterApply then finds no cached
\* proposal, and the votes of the last slot are votes on the proposal it applies.
TimelyApply == timely => AppliedOnce /\ PrecommitIsSupported
=============================================================================

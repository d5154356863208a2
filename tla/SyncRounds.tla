----------------------------- MODULE SyncRounds -----------------------------
(***************************************************************************)
(* N nodes whose clocks agree.  In each slot all of them apply the         *)
(* proposal of the last slot, the proposer proposes, the proposal reaches  *)
(* the others or not, and so do the votes; everything that arrives does so *)
(* before the next slot begins.  A node that is cut off in a slot misses   *)
(* the proposal, or hears no vote but its own.                             *)
(*                                                                         *)
(* The variable lostIn and the counters of losses are read by the          *)
(* properties and the bounds only.                                         *)
(*                                                                         *)
(* The handlers are those of ConsensusState.  What happens when messages   *)
(* arrive late or early is the matter of ConsensusNode.                    *)
(***************************************************************************)
EXTENDS ConsensusState

CONSTANTS
    Reach,              \* the sets of nodes that a message may reach
    MaxLostProposals,   \* slots in which a proposal may miss some nodes
    MaxLostVotes,       \* slots in which some nodes may hear no votes
    Mixed               \* one behaviour may have losses of both kinds

ASSUME SyncAssumption ==
    /\ MaxSlot # 0
    /\ Vals \in Reach /\ Reach \subseteq SUBSET Vals
    /\ Mixed \in BOOLEAN

\* A message reaches any of the nodes.
AnyNodes == SUBSET Vals

VARIABLES
    slot,               \* CurSlot of every node
    phase,              \* how far the slot has come
    node,               \* the nodes
    blocks,             \* the block proposed in each slot
    lostProposals, lostVotes,   \* slots with a loss so far
    lostIn              \* the last of them

vars == <<slot, phase, node, blocks, lostProposals, lostVotes, lostIn>>

Init ==
    /\ slot = 0
    /\ phase = "Wait"
    /\ node = [v \in Vals |-> NewNode]
    /\ blocks = [s \in Slots |-> NoBlock]
    /\ lostProposals = 0
    /\ lostVotes = 0
    /\ lostIn = 0

\* Every node runs enterNewSlot and enterApply.
EnterSlot ==
    /\ phase = "Wait"
    /\ slot' = slot + 1
    /\ node' = [v \in Vals |-> EnterApply(node[v], slot + 1, slot)]
    /\ phase' = "Propose"
    /\ UNCHANGED <<blocks, lostProposals, lostVotes, lostIn>>

\* The bounds on what a behaviour loses, after a step.
WithinBounds ==
    /\ lostProposals' <= MaxLostProposals
    /\ lostVotes' <= MaxLostVotes
    /\ Mixed \/ lostProposals' = 0 \/ lostVotes' = 0

\* The proposer runs enterPropose and takes its own proposal from the internal
\* queue; the nodes of R receive it, accept it and sign their votes.
Propose(R) ==
    LET p == Proposer(slot)
        b == CreateProposal(node[p], slot)
    IN /\ phase = "Propose"
       /\ slot < MaxSlot
       /\ p \in R
       /\ lostProposals' = lostProposals + (IF R = Vals THEN 0 ELSE 1)
       /\ lostIn' = IF R = Vals THEN lostIn ELSE slot
       /\ blocks' = [blocks EXCEPT ![slot] = b]
       /\ node' = [v \in Vals |-> IF v \in R THEN HandleProposal(node[v], slot, b)
                                  ELSE node[v]]
       /\ phase' = "Vote"
       /\ UNCHANGED <<slot, lostVotes>>
       /\ WithinBounds

\* The votes of all voters reach the nodes of H, and their own the others.
HearVotes(v, H) ==
    LET from == {u \in Vals : node[u].signed # {} /\ (u = v \/ v \in H)}
        vote(u) == CHOOSE x \in node[u].signed : TRUE
    IN FoldSet(LAMBDA u, nd : AddVote(nd, vote(u).slot, u, vote(u).type),
               [node[v] EXCEPT !.signed = {}], from)

Vote(H) ==
    /\ phase = "Vote"
    /\ lostVotes' = lostVotes + (IF H = Vals THEN 0 ELSE 1)
    /\ lostIn' = IF H = Vals THEN lostIn ELSE slot
    /\ node' = [v \in Vals |-> HearVotes(v, H)]
    /\ phase' = "Wait"
    /\ UNCHANGED <<slot, blocks, lostProposals>>
    /\ WithinBounds

\* A behaviour ends when the nodes have entered slot MaxSlot.
AtBound ==
    /\ slot = MaxSlot
    /\ phase = "Propose"
    /\ UNCHANGED vars

Next ==
    \/ EnterSlot
    \/ \E R \in Reach : Propose(R)
    \/ \E H \in Reach : Vote(H)
    \/ AtBound

Spec == Init /\ [][Next]_vars

-----------------------------------------------------------------------------
(* Properties *)

\* The blocks before a block on its branch.
Before(b) ==
    LET line[s \in Slots] ==
            IF s = 0 THEN {} ELSE {blocks[s].parent} \cup line[blocks[s].parent]
    IN line[b]

\* Two blocks of one branch.
SameBranch(b, c) == b = c \/ b \in Before(c) \/ c \in Before(b)

\* While every vote that is cast is heard by all, no two nodes, and no node at
\* two times, execute blocks of different branches, whatever proposals are lost.
OneBranch ==
    lostVotes = 0 =>
        \A u, v \in Vals : \A b \in Range(node[u].log), c \in Range(node[v].log) :
            SameBranch(b, c)

\* The blocks a node commits stay on one branch of the tree.
CommitsOneBranch ==
    \A v \in Vals : \A b, c \in Range(node[v].log) : SameBranch(b, c)

\* A node that has received every proposal executes the blocks of its branch in
\* order, each of them once, whatever votes are lost.
ExecutedInOrder ==
    lostProposals = 0 =>
        \A v \in Vals : \A i, j \in DOMAIN node[v].log :
            i < j => node[v].log[i] \in Before(node[v].log[j])

\* Lost votes delay commits and do no more: after two slots in a row without a
\* loss every node has caught up and has executed all blocks but the last two,
\* whatever votes were lost before.
CommitInTwoSlots ==
    lostProposals = 0 /\ slot >= lostIn + 3 =>
        \A v \in Vals : node[v].log = [i \in 1..(slot - 2) |-> i]

\* The block tree is made of the blocks that are not in error.
NoErrorInTree ==
    \A v \in Vals : \A n \in DOMAIN node[v].tree :
        node[v].heap[node[v].tree[n].data].state # "Error"

\* A block that is committed leaves the uncommitted blocks for the block tree.
CommittedInTree ==
    \A v \in Vals : \A b \in Range(node[v].log) :
        QueryNodeByHash(node[v].heap, node[v].tree, b) # 0

\* LastCommitedBlock is the block that was committed last.
LastCommitedKept ==
    \A v \in Vals : node[v].log # <<>> =>
        /\ node[v].last # 0
        /\ node[v].heap[node[v].last].hash = node[v].log[Len(node[v].log)]

\* The quorum in the commit evidence of a block is a quorum of that block.
LocalQuorumIsOwn ==
    \A v \in Vals : \A o \in DOMAIN node[v].heap :
        LET c == node[v].heap[o].commit
        IN c # NoCommit => c.quorum.hash = node[v].heap[o].hash

Ledger == INSTANCE CommittedLog WITH
            Nodes <- Vals, Blocks <- 1..MaxSlot, log <- [v \in Vals |-> node[v].log]

\* As long as no proposal is lost the nodes implement a replicated ledger,
\* whatever votes are lost: they start as one and every step is one of its steps.
ImplementsLedger ==
    Ledger!Init /\ [][lostProposals' = 0 => Ledger!Execute]_vars
=============================================================================

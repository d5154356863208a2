--------------------------- MODULE ConsensusState ---------------------------
(***************************************************************************)
(* What the handlers of ConsensusState, State and blockExecutor do to one  *)
(* node, as functions from the node before the handler to the node after   *)
(* it.  Every handler runs under ConsensusState.mtx, so each is one step.  *)
(* ConsensusNode and SyncRounds say when they run.                         *)
(*                                                                         *)
(* A slot has one proposer, who proposes at most one block in it, and a    *)
(* vote names the block of its slot; so the slot of a block stands for its *)
(* hash.  A block is sent as the record                                    *)
(*                                                                         *)
(*    slot, parent, evid (the quorums of Block.Evidences, in order)        *)
(*                                                                         *)
(* with transactions, signatures and times left out: an honest proposer's  *)
(* are valid.  A node is the record                                        *)
(*                                                                         *)
(*    prop      RoundState.Proposal, NoBlock for nil and for DefaultBlock  *)
(*    future    futureProposal: the proposal cached for each slot          *)
(*    votes     RoundState.VoteSet: the votes of each slot, in the order   *)
(*              of the slice, sorted out by validator                      *)
(*    signed    votes signed and not yet received from internalMsgQueue    *)
(*    heap      the block objects that have been applied, see BlockTree    *)
(*    tree      State.BlockTree                                            *)
(*    uncommit  State.UnCommitBlocks, pointers in the order of the slice   *)
(*    last      State.LastCommitedBlock, a pointer                         *)
(*    log       the blocks given to Store.CommitBlock, in order            *)
(***************************************************************************)
EXTENDS BlockTree

CONSTANTS
    N,                  \* number of validators
    Threshold,          \* votes of one type that make a quorum
    MaxSlot             \* bound on the slots a behaviour visits

ASSUME StateAssumption ==
    /\ N \in Nat \ {0}
    /\ Threshold \in 1..N
    /\ MaxSlot \in Nat

Vals == 0..(N - 1)
Slots == 0..MaxSlot

NoBlock == [slot |-> 0, parent |-> 0, evid |-> <<>>]
NoQuorum == [hash |-> 0, type |-> "Empty"]
NoCommit == [quorum |-> NoQuorum, witness |-> 0]

\* A block object, as it is decoded or created and then applied.
BlockObject(b, state, vq) ==
    [hash |-> b.slot, slot |-> b.slot, parent |-> b.parent, evid |-> b.evid,
     state |-> state, vq |-> vq, commit |-> NoCommit]

\* NewConsensusState over the state of the genesis document.
NewNode ==
    [prop |-> NoBlock,
     future |-> [s \in Slots |-> NoBlock],
     votes |-> [s \in Slots |-> [v \in Vals |-> <<>>]],
     signed |-> {},
     heap |-> <<BlockObject(NoBlock, "Committed", NoQuorum)>>,
     tree |-> NewBlockTree,
     uncommit |-> <<>>,
     last |-> 0,
     log |-> <<>>]

\* ValidatorSet.GetProposer.
Proposer(slot) == slot % N

-----------------------------------------------------------------------------
(* Votes and quorums *)

\* SlotVoteSet.AddVote without the search for an earlier vote.
AddVoteAgain(nd, slot, v, type) == [nd EXCEPT !.votes[slot][v] = Append(@, type)]

\* TryAddVote, SlotVoteSet.AddVote: the first vote of a validator in a slot
\* stands, a second one is a duplicate whatever it says.
AddVote(nd, slot, v, type) ==
    IF nd.votes[slot][v] # <<>> THEN nd
    ELSE [nd EXCEPT !.votes[slot][v] = Append(@, type)]

\* The votes of a type in a slot, each by its validator and its place among the
\* votes of that validator.
VotesOf(nd, slot, type) ==
    UNION {{v} \X {i \in DOMAIN nd.votes[slot][v] : nd.votes[slot][v][i] = type} : v \in Vals}

\* SignatureRecovery of verified votes fails when two are of one validator.
Recovers(votes) == \A x, y \in votes : x[1] = y[1] => x = y

\* TryGenQuorum that is content with one supporting vote too few.
TryGenQuorumEarly(nd, slot) ==
    LET count(type) == Cardinality(VotesOf(nd, slot, type))
        majority == IF count("Support") >= Threshold - 1 THEN "Support"
                    ELSE IF count("Against") >= Threshold THEN "Against"
                    ELSE "Empty"
    IN [hash |-> slot,
        type |-> IF Recovers(VotesOf(nd, slot, majority)) THEN majority ELSE "Empty"]

\* TryGenQuorum over the votes of a slot.
TryGenQuorum(nd, slot) ==
    LET count(type) == Cardinality(VotesOf(nd, slot, type))
        majority == IF count("Support") >= Threshold THEN "Support"
                    ELSE IF count("Against") >= Threshold THEN "Against"
                    ELSE "Empty"
    IN [hash |-> slot,
        type |-> IF Recovers(VotesOf(nd, slot, majority)) THEN majority ELSE "Empty"]

QuorumState(q) ==
    CASE q.type = "Support" -> "Precommit"
      [] q.type = "Against" -> "Error"
      [] OTHER -> "Suspect"

-----------------------------------------------------------------------------
(* Receiving a proposal *)

\* UpdateState: the evidence of a proposal moves the uncommitted blocks it names.
UpdateState(nd, b) ==
    LET update(h, e) ==
            LET o == QueryBlockByHash(h, nd.uncommit, e.hash)
            IN IF o = 0 \/ h[o].state = "Committed" THEN h
               ELSE [h EXCEPT ![o].vq = e,
                              ![o].state = IF e.type = "Empty" THEN @
                                           ELSE QuorumState(e)]
        heap[k \in 0..Len(b.evid)] ==
            IF k = 0 THEN nd.heap ELSE update(heap[k-1], b.evid[k])
    IN [nd EXCEPT !.heap = heap[Len(b.evid)]]

\* IsMatch that accepts a proposal behind any block this node knows.
IsMatchKnown(nd, b) == QueryNodeByHash(nd.heap, nd.tree, b.parent) # 0

\* IsMatch: the proposal follows the block this node would follow.
IsMatch(nd, b) ==
    nd.heap[nd.tree[GetLatestBlock(nd.heap, nd.tree)].data].hash = b.parent

\* signVote.
SignVote(nd, slot, type) ==
    [nd EXCEPT !.signed = @ \cup {[slot |-> slot, type |-> type]}]

\* defaultSetProposal, accepting: the block of the current slot becomes the
\* proposal and is voted on, after its evidence has been taken in.
AcceptProposal(nd, slot, b) ==
    LET n == [UpdateState(nd, b) EXCEPT !.prop = b]
    IN SignVote(n, slot, IF IsMatch(n, b) THEN "Support" ELSE "Against")

\* TryAddFutureProposal: the first proposal cached for a slot stays.
TryAddFutureProposal(nd, b) ==
    IF nd.future[b.slot] = NoBlock THEN [nd EXCEPT !.future[b.slot] = b] ELSE nd

\* defaultSetProposal in a node whose current slot is slot.  A later block is
\* cached, an earlier one is dropped.
SetProposal(nd, slot, b) ==
    CASE b.slot = slot -> AcceptProposal(nd, slot, b)
      [] b.slot > slot -> TryAddFutureProposal(nd, b)
      [] OTHER -> nd

\* hasProposal: a proposal has been accepted since the last apply step.
HasProposal(nd) == nd.prop # NoBlock

\* handleMsg of a ProposalMessage.
HandleProposal(nd, slot, b) ==
    IF HasProposal(nd) THEN nd ELSE SetProposal(nd, slot, b)

\* triggleFutureProposal: a cached proposal is not taken out of the cache.
TriggleFutureProposal(nd, slot) ==
    IF nd.future[slot] = NoBlock THEN nd
    ELSE SetProposal(nd, slot, nd.future[slot])

-----------------------------------------------------------------------------
(* Applying the proposal *)

\* The blocks updateEvidence(witness) finds for the evidence of a witness.
EvidenceBlocks(nd, w) ==
    LET found(e) == IF e.type # "Support" THEN 0
                    ELSE QueryBlockByHash(nd.heap, nd.uncommit, e.hash)
    IN Keep([i \in DOMAIN nd.heap[w].evid |-> found(nd.heap[w].evid[i])],
            {o \in DOMAIN nd.heap : nd.heap[o].state # "Committed"})

\* updateEvidence: the witness becomes the commit evidence of those blocks.
\* SetQuorum is given the address of the loop variable, so all of them end up
\* with the last quorum of the list.
UpdateEvidence(nd, h, w) ==
    LET found == Range(EvidenceBlocks(nd, w))
        evid == h[w].evid
    IN [o \in DOMAIN h |->
            IF o \notin found THEN h[o]
            ELSE [h[o] EXCEPT !.commit = [quorum |-> evid[Len(evid)], witness |-> w]]]

\* The lists of a list in one list, the last of them first.
Stacked(lists) ==
    LET top[k \in 0..Len(lists)] ==
            IF k = 0 THEN <<>> ELSE lists[k] \o top[k-1]
    IN top[Len(lists)]

\* updateEvidences: from the proposal down, each block found is a witness in
\* turn, the last one found first (checkstack is a stack).
UpdateEvidences(nd, o) ==
    LET visits[w \in DOMAIN nd.heap] ==
            LET found == EvidenceBlocks(nd, w)
            IN <<w>> \o Stacked([i \in DOMAIN found |-> visits[found[i]]])
        order == visits[o]
        heap[k \in 0..Len(order)] ==
            IF k = 0 THEN nd.heap ELSE UpdateEvidence(nd, heap[k-1], order[k])
    IN [nd EXCEPT !.heap = heap[Len(order)]]

\* Commit.IsReady (ParentCommit is never set).
IsReady(h, c) ==
    /\ c.witness # 0
    /\ c.quorum.type = "Support"
    /\ h[c.witness].state \in {"Precommit", "Committed"}

\* decideCommitBlocks that stops at the ready block.
DecideCommitBlocksAlone(nd) ==
    LET ready == {i \in DOMAIN nd.uncommit : IsReady(nd.heap, nd.heap[nd.uncommit[i]].commit)}
    IN IF ready = {} THEN <<>> ELSE <<nd.uncommit[Max(ready)]>>

\* decideCommitBlocks without the reversal at its end.
DecideCommitBlocksNewestFirst(nd) ==
    LET ready == {i \in DOMAIN nd.uncommit : IsReady(nd.heap, nd.heap[nd.uncommit[i]].commit)}
        line[o \in DOMAIN nd.heap] ==
            LET n == QueryNodeByHash(nd.heap, nd.tree, nd.heap[o].parent)
            IN IF n = 0 \/ nd.heap[nd.tree[n].data].state = "Committed" THEN <<o>>
               ELSE <<o>> \o line[nd.tree[n].data]
    IN IF ready = {} THEN <<>> ELSE line[nd.uncommit[Max(ready)]]

\* decideCommitBlocks: the last ready block of the slice and, before it, its
\* ancestors in the tree that are not committed, whatever their state.
DecideCommitBlocks(nd) ==
    LET ready == {i \in DOMAIN nd.uncommit : IsReady(nd.heap, nd.heap[nd.uncommit[i]].commit)}
        line[o \in DOMAIN nd.heap] ==
            LET n == QueryNodeByHash(nd.heap, nd.tree, nd.heap[o].parent)
            IN IF n = 0 \/ nd.heap[nd.tree[n].data].state = "Committed" THEN <<o>>
               ELSE Append(line[nd.tree[n].data], o)
    IN IF ready = {} THEN <<>> ELSE line[nd.uncommit[Max(ready)]]

\* State.CommitBlock, by BlockSet.RemoveBlocks.
RemoveBlocks(list, blocks) == Keep(list, Range(list) \ Range(blocks))

\* blockExecutor.Commit without State.CommitBlock.
CommitKeeping(nd, blocks) ==
    [nd EXCEPT
        !.heap = [o \in DOMAIN @ |-> IF o \in Range(blocks)
                                     THEN [@[o] EXCEPT !.state = "Committed"]
                                     ELSE @[o]],
        !.log = @ \o [i \in DOMAIN blocks |-> nd.heap[blocks[i]].hash],
        !.last = IF blocks = <<>> THEN 0 ELSE blocks[Len(blocks)]]

\* blockExecutor.Commit on a copy of the state.  State.Copy leaves out
\* LastCommitedBlock, which is nil again unless a block is committed.
Commit(nd, blocks) ==
    [nd EXCEPT
        !.heap = [o \in DOMAIN @ |-> IF o \in Range(blocks)
                                     THEN [@[o] EXCEPT !.state = "Committed"]
                                     ELSE @[o]],
        !.uncommit = RemoveBlocks(@, blocks),
        !.log = @ \o [i \in DOMAIN blocks |-> nd.heap[blocks[i]].hash],
        !.last = IF blocks = <<>> THEN 0 ELSE blocks[Len(blocks)]]

\* ValidteBasic: an error block is refused, hash and signature are in order.
ValidteBasic(o) == o.state # "Error"

\* ApplyBlock.  The block enters the tree before validateBlock refuses an error
\* block; enterApply then keeps the old state, which shares the tree.
ApplyBlock(nd, o) ==
    LET n1 == [nd EXCEPT !.tree = AddBlocks(nd.heap, @, o)]
        n2 == [n1 EXCEPT !.uncommit = Append(@, o)]
    IN IF ValidteBasic(nd.heap[o]) THEN Commit(n2, DecideCommitBlocks(n2)) ELSE n1

\* The part of enterApply between its two looks at hasProposal.  The quorum is
\* made of the votes of the last slot, whichever slot the proposal is of.
ApplyProposal(nd, last) ==
    LET q == IF \A v \in Vals : nd.votes[last][v] = <<>> THEN NoQuorum
             ELSE TryGenQuorum(nd, last)
        n == [nd EXCEPT !.heap = Append(@, BlockObject(nd.prop, QuorumState(q), q))]
    IN ApplyBlock(UpdateEvidences(n, Len(n.heap)), Len(n.heap))

\* enterApply that leaves the proposal it has applied in place.
EnterApplyKeeping(nd, slot, last) ==
    IF HasProposal(nd) THEN ApplyProposal(TriggleFutureProposal(nd, slot), last)
    ELSE nd

\* enterApply in a node that enters slot after slot last.
EnterApply(nd, slot, last) ==
    LET n == IF HasProposal(nd) THEN ApplyProposal(TriggleFutureProposal(nd, slot), last)
             ELSE nd
    IN [n EXCEPT !.prop = NoBlock]

\* CreateProposal: follow the latest block, and carry the quorums of the
\* precommit blocks on the way to it.
CreateProposal(nd, slot) ==
    LET latest == GetLatestBlock(nd.heap, nd.tree)
        found == PrecommitBlocks(nd.heap, nd.tree, latest)
    IN [slot |-> slot, parent |-> nd.heap[nd.tree[latest].data].hash,
        evid |-> [i \in DOMAIN found |-> nd.heap[found[i]].vq]]
=============================================================================

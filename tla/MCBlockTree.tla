----------------------------- MODULE MCBlockTree -----------------------------
(***************************************************************************)
(* Every tree AddBlocks can build from blocks received in any order, with  *)
(* every assignment of block states UpdateBlockState can give them, and    *)
(* the queries of BlockTree against what they are meant to return.         *)
(***************************************************************************)
EXTENDS BlockTree

CONSTANTS
    Hashes,             \* hashes of the blocks other than genesis, integers > 0
    MaxTime             \* bound on slots

ASSUME TreeAssumption == MaxTime \in Nat

VARIABLES heap, tree
treeVars == <<heap, tree>>

BlockStates == {"Proposal", "Error", "Suspect", "Precommit", "Committed"}
Genesis == [hash |-> 0, slot |-> 0, parent |-> 0, state |-> "Committed"]

Nodes == DOMAIN tree
Block(n) == heap[tree[n].data]

TreeInit ==
    /\ heap = <<Genesis>>
    /\ tree = NewBlockTree

\* ApplyBlock hands a proposal to AddBlocks.  A proposer follows a block of an
\* earlier slot, which the receiver may or may not have.
AddProposal(hash, slot, parent) ==
    /\ Len(heap) <= Cardinality(Hashes)
    /\ \A i \in DOMAIN heap :
         /\ heap[i].hash = hash => heap[i].slot = slot /\ heap[i].parent = parent
         /\ heap[i].hash = parent => heap[i].slot < slot
         /\ heap[i].parent = hash => slot < heap[i].slot
    /\ heap' = Append(heap, [hash |-> hash, slot |-> slot, parent |-> parent,
                             state |-> "Proposal"])
    /\ tree' = AddBlocks(heap', tree, Len(heap'))

\* UpdateBlockState: votes, evidence and commits move a block of the tree on.
UpdateBlockState(n, s) ==
    /\ n # 1
    /\ Block(n).state # "Committed"
    /\ s \in BlockStates \ {"Proposal", Block(n).state}
    /\ s = "Committed" => \A a \in Ancestors(tree, n) : Block(a).state = "Committed"
    /\ heap' = [heap EXCEPT ![tree[n].data].state = s]
    /\ UNCHANGED tree

TreeNext ==
    \/ \E hash \in Hashes, parent \in Hashes \cup {0}, slot \in 1..MaxTime :
            hash # parent /\ AddProposal(hash, slot, parent)
    \/ \E n \in Nodes, s \in BlockStates : UpdateBlockState(n, s)

TreeSpec == TreeInit /\ [][TreeNext]_treeVars

-----------------------------------------------------------------------------
(* Properties *)

\* However blocks are refused, repeated or arrive out of order, no hash is in
\* the tree twice and every block hangs below the block it follows.
TreeShape == WellShaped(heap, tree)

\* GetLatestBlock's single traversal finds a newest block below a newest
\* precommit block, or a newest block of the tree when there is no precommit.
LatestIsNewestBelowPrecommit == IsLatest(heap, tree, GetLatestBlock(heap, tree))

\* The evidence list of a new proposal is newest first and holds exactly the
\* precommit blocks between the block it follows and the nearest committed one.
EvidencePath ==
    \A n \in Nodes : IsEvidence(heap, tree, n, PrecommitBlocks(heap, tree, n))
=============================================================================

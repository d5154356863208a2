------------------------------ MODULE BlockTree ------------------------------
(***************************************************************************)
(* The tree of the blocks a node has applied (types/block_tree.go).        *)
(*                                                                         *)
(* Blocks are shared by pointer between the tree, the set of uncommitted   *)
(* blocks and the commit evidence, and change state in place.  They live   *)
(* in a heap h, a sequence of records with at least the fields             *)
(*                                                                         *)
(*    hash, slot, parent (the hash of the block it follows), state         *)
(*                                                                         *)
(* and a pointer is an index into it; 0 is nil and 1 the genesis block.  A *)
(* tree t is the sequence of its nodes in the order they were added; a     *)
(* node has a block (data) and a parent, the index of another node or 0.   *)
(***************************************************************************)
EXTENDS Naturals, Sequences, FiniteSetsExt

\* NewBlockTree over the genesis block.
NewBlockTree == <<[data |-> 1, parent |-> 0]>>

\* The first of the places in a list where a search succeeds, or 0.
First(places) == IF places = {} THEN 0 ELSE Min(places)

\* BlockSet.QueryBlockByHash: the first block of a list of pointers that has the
\* hash, or nil.
QueryBlockByHash(h, list, hash) ==
    LET i == First({j \in DOMAIN list : h[list[j]].hash = hash})
    IN IF i = 0 THEN 0 ELSE list[i]

\* queryNodeByHash, 0 for an error.  A tree holds no hash twice, so the order
\* of the search does not matter.
QueryNodeByHash(h, t, hash) == First({n \in DOMAIN t : h[t[n].data].hash = hash})

\* AddBlocks without the test for a block that is already in the tree.
AddBlocksAgain(h, t, b) ==
    LET p == QueryNodeByHash(h, t, h[b].parent)
    IN IF p = 0 THEN t ELSE Append(t, [data |-> b, parent |-> p])

\* AddBlocks: a block whose parent is unknown, or that is known, is refused.
AddBlocks(h, t, b) ==
    LET p == QueryNodeByHash(h, t, h[b].parent)
    IN IF p = 0 \/ QueryNodeByHash(h, t, h[b].hash) # 0 THEN t
       ELSE Append(t, [data |-> b, parent |-> p])

\* The elements of a list that are in a set, in their order: what a loop with a
\* condition appends to a slice.
Keep(list, set) ==
    LET kept[i \in 0..Len(list)] ==
            IF i = 0 THEN <<>>
            ELSE IF list[i] \in set THEN Append(kept[i-1], list[i])
            ELSE kept[i-1]
    IN kept[Len(list)]

\* From a node up to the root.
PathToRoot(t, n) ==
    LET path[m \in DOMAIN t] ==
            IF t[m].parent = 0 THEN <<m>> ELSE <<m>> \o path[t[m].parent]
    IN path[n]

\* isAncestor: m is a proper ancestor of n.
IsAncestor(t, m, n) == m # n /\ m \in Range(PathToRoot(t, n))

\* The order in which ForEach and GetLatestBlock visit the nodes: by level, and
\* the children of a node in the order they were added.  The queue is not cut:
\* its k-th element is the k-th node visited.
LevelOrder(t) ==
    LET nodes == [n \in DOMAIN t |-> n]
        children(n) == Keep(nodes, {m \in DOMAIN t : t[m].parent = n})
        queue[k \in 0..Len(t)] ==
            IF k = 0 THEN <<1>>
            ELSE LET q == queue[k-1] IN q \o children(q[k])
    IN queue[Len(t)]

\* A step of GetLatestBlock's traversal that does not look at the branch.
LatestStepAnyBranch(h, t, acc, n) ==
    LET b == h[t[n].data]
        slotOf(m) == h[t[m].data].slot
    IN IF b.state = "Precommit" /\ b.slot >= slotOf(acc.precommit)
       THEN [precommit |-> n, last |-> n]
       ELSE IF b.slot >= slotOf(acc.last)
       THEN [acc EXCEPT !.last = n]
       ELSE acc

\* One step of GetLatestBlock's traversal (LTime.Greater is >=).
LatestStep(h, t, acc, n) ==
    LET b == h[t[n].data]
        slotOf(m) == h[t[m].data].slot
    IN IF b.state = "Precommit" /\ b.slot >= slotOf(acc.precommit)
       THEN [precommit |-> n, last |-> n]
       ELSE IF b.slot >= slotOf(acc.last) /\ IsAncestor(t, acc.precommit, n)
       THEN [acc EXCEPT !.last = n]
       ELSE acc

\* GetLatestBlock: the node of the block the next proposal has to follow.
GetLatestBlock(h, t) ==
    LET order == LevelOrder(t)
        latest[k \in 0..Len(order)] ==
            IF k = 0 THEN [precommit |-> 1, last |-> 1]
            ELSE LatestStep(h, t, latest[k-1], order[k])
    IN latest[Len(order)].last

\* PrecommitBlocks that leaves out the node it starts from.
PrecommitBlocksAbove(h, t, n) ==
    LET path == [i \in 1..(Len(PathToRoot(t, n)) - 1) |->
                    t[PathToRoot(t, n)[i + 1]].data]
    IN Keep(path, {b \in DOMAIN h : h[b].state = "Precommit"})

\* GetBlockByFilter with the filter of NewBranch: the precommit blocks between a
\* node and the nearest committed block, newest first.
PrecommitBlocks(h, t, n) ==
    LET nodes == PathToRoot(t, n)
        path == [i \in DOMAIN nodes |-> t[nodes[i]].data]
        end == First({i \in DOMAIN path : h[path[i]].state = "Committed"})
    IN Keep(IF end = 0 THEN path ELSE SubSeq(path, 1, end - 1),
            {b \in DOMAIN h : h[b].state = "Precommit"})

-----------------------------------------------------------------------------
(* What the tree and its queries are meant to be *)

Ancestors(t, n) == Range(PathToRoot(t, n)) \ {n}
Subtree(t, n) == {m \in DOMAIN t : m = n \/ n \in Ancestors(t, m)}
Newest(h, t, S) == {n \in S : \A m \in S : h[t[m].data].slot <= h[t[n].data].slot}
Precommits(h, t) == {n \in DOMAIN t : h[t[n].data].state = "Precommit"}

\* No hash is in the tree twice and every block hangs below the block it follows.
WellShaped(h, t) ==
    /\ \A m, n \in DOMAIN t : h[t[m].data].hash = h[t[n].data].hash => m = n
    /\ \A n \in DOMAIN t \ {1} : h[t[t[n].parent].data].hash = h[t[n].data].parent

\* A newest block below a newest precommit block, or a newest block of the tree
\* when there is no precommit block.
IsLatest(h, t, n) ==
    \E p \in IF Precommits(h, t) = {} THEN {1} ELSE Newest(h, t, Precommits(h, t)) :
        n \in Newest(h, t, Subtree(t, p))

\* The precommit blocks between a node and the nearest committed block, newest
\* first.
IsEvidence(h, t, n, list) ==
    LET line == Ancestors(t, n) \cup {n}
    IN /\ \A i, j \in DOMAIN list : i < j => h[list[i]].slot > h[list[j]].slot
       /\ Range(list) =
            {t[m].data : m \in {k \in line :
                /\ h[t[k].data].state = "Precommit"
                /\ \A a \in line :
                      k \in Ancestors(t, a) => h[t[a].data].state # "Committed"}}
=============================================================================

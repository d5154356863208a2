# chainBFT in TLA+

This directory models the chainBFT node (a chained BFT protocol with threshold
signatures, built on tendermint's p2p layer) in TLA+, checks the models with TLC
on small instances, and proves some of the results with TLAPS for every value of
the constants. `PROJECT.json` is the machine-readable index: components, runs,
mutants, the map from definitions to source lines, findings, hazards, theorems.

## The system

A cluster has N validators. Time is cut into slots; validator `slot mod N` leads
a slot. In a slot each node

1. enters it when its **slot clock** ticks (`consensus/slot.go`);
2. **applies** the proposal of the last slot: turns the votes into a quorum,
   sets the block's state, updates commit evidence, commits what is ready
   (`consensus/state.go`, `state/executor.go`, `state/state.go`);
3. **proposes**, if it leads: a block that follows the latest block of its
   **block tree** and carries the quorums of the precommit blocks on the way;
4. **waits**: accepts the proposal, votes, collects votes.

Committed blocks are executed by the **SmallBank store** (`store/kv_store.go`).
Transactions come by **RPC** into the **mempool** (`mempool/`), and its reactor
gossips them. Quorums are **threshold signatures** (`crypto/threshold`). The
**load generator** `tools/tm-bench` sends transactions over websockets.

### Inventory

| Part | Source | Module | State |
|---|---|---|---|
| slot clock, event queue, step machine | `consensus/slot.go`, `consensus/state.go` | `SlotClock`, `RoundSteps` | control in full, without time |
| slot times of a cluster | `consensus/reactor.go`, `consensus/state.go` | `SlotTime` | modelled |
| consensus handlers | `consensus/state.go`, `consensus/types` | `ConsensusState` | modelled |
| one node, asynchronous peers | `consensus/state.go`, `consensus/reactor.go` | `ConsensusNode` | modelled |
| a cluster in lock step, with losses | the same | `SyncRounds`, `CommittedLog` | modelled |
| executor, chain state | `state/` | `ConsensusState` | modelled |
| block tree | `types/block_tree.go` | `BlockTree`, `MCBlockTree` | modelled |
| SmallBank store | `store/kv_store.go` | `KVStore`, `Bank` | modelled |
| transaction pool | `mempool/list_mempool.go` | `ListMempool` | CheckTx, Update, Flush |
| peer IDs | `mempool/reactor.go` | `MempoolIDs` | modelled |
| gossip | `mempool/reactor.go` | `TxGossip`, `MCTxGossip` | modelled, with lost connections |
| threshold signatures | `crypto/threshold`, `privval`, `cmd` | `ThresholdSignature` | arithmetic over a small field |
| validators, genesis | `types/` | `ConsensusState` (proposer only) | immutable data |
| load generator | `tools/tm-bench` | `Transacter` | without its statistics |
| node assembly, RPC getters, metrics, CLI, other tools | `node`, `rpc`, `libs`, `cmd`, `tools` | none | no state that a decision reads |

The list of hazards, each at its line, is in `PROJECT.json`.

## The models

**SlotClock** follows a tick through `time.Timer`, `t.C`, `timerChan`,
`tockChan`, `handleTimeOut` and `eventMsgQueue` to `enterNewSlot`, which arms the
timer again. Each channel send is a goroutine of its own in the code, so a
channel is the bag of its waiting sends and any may be taken next. Time is left
out: an armed timer may fire at once, which covers `reviseSlotTime`'s short
timeouts. The two `ResetClock` calls of `enterNewSlot` (the second in
`reviseSlotTime`) are one step. `RoundStepPropose` is held only inside a handler
and is not a visible step. **RoundSteps** is what this machinery promises:
slots one by one, apply then propose in each, a new slot at any step. SlotClock
implements it (`ImplementsRoundSteps`), and ConsensusNode is built on it.

**SlotTime** adds the clock readings that SlotClock leaves out, for a cluster
whose machines agree on the time. `OnStart` computes the start of the first slot
from the genesis time, `enterNewSlot` runs up to `Jitter` after the timer, and
`reviseSlotTime` moves the slot by the start time in the last committed block,
which is any proposal the node could take up in its slot, directly or from the
cache of early ones, or none, as `State.Copy` loses it. The proposer may have begun
a slot earlier, so a revision can move a node into another's count. Times are in
milliseconds, as `OnStart` rounds them, and a slot is a whole number of seconds
in the code, so its conversions lose nothing. The variable `late` is not in the
code: it counts the slots entered without a revision whose delays are part of a
start time.

**BlockTree** holds the tree as a sequence of nodes over a heap of block objects,
because the code shares blocks by pointer between the tree, the uncommitted set
and commit evidence and changes them in place. Its last section says declaratively
what the queries are meant to return (`WellShaped`, `IsLatest`, `IsEvidence`).
**MCBlockTree** (`TreeSpec`) builds trees from blocks received in any order, gives
the blocks any states, and compares the queries with those definitions.

**ConsensusState** gives each handler as a function from a node record to a node
record; all of them run under one mutex, so each is one step. The slot of a block
stands for its hash, as a slot has one proposer with one proposal. Quirks of the
code are kept: a future proposal replaces the current one inside `enterApply`;
the votes counted are the last slot's; votes are lists, and recovery fails on two
votes of one validator; `SetQuorum` is given the address of the loop variable; `Copy` drops `LastCommitedBlock`; error blocks enter the tree.

**ConsensusNode** runs one node among peers that obey the protocol but whose
proposals and votes arrive early, late, repeatedly, in any order or never. Its
own proposals and votes pass through the internal queue, so slots may end before
they are handled. A peer's proposal carries quorums of any supported earlier blocks
and of no others, which is what `QuorumsAreSound` shows of this node in turn. The variable `timely`, chosen at the start and constant, marks
the behaviours in which everything arrives in its own slot.

**SyncRounds** runs N nodes whose clocks agree. In a slot some nodes may miss the
proposal, and some may hear no vote but their own. **CommittedLog** is the
abstract replicated ledger it is compared with.

**KVStore** has the batch of `CommitBlock`, read-from-database semantics, and
`InitAccount` write by write; blocks have any transactions, and several requests
may be under way. **Bank** says what a block does as a whole: its transactions read
the balances before it, and later writes win. Serial execution is a second
specification there, which the store does not implement (`KVConflicts`). A block
does not use an account while it is being initialised, and a transaction's reads
are one step (nobody else writes those rows then).

**ListMempool** splits `CheckTx`, `Update` and `Flush` at every access to the
list, the map or the counter. A transaction has a key, which `Update` looks it up
by, and a size, which covers more of it than the key. The variable `skew` is not in
the code: it is what `Update` has subtracted wrongly. The cache is `nopTxCache`, as the code configures.
`Update` is followed for one transaction at a time, `Flush` runs at most once at
a time. The concurrent list is tendermint's; removing an element twice panics.

**MempoolIDs** is the allocation of short IDs with wrap-around, and the sender IDs
that stay behind in the pool; that a peer has no ID when one is reserved for it is
the work of tendermint's switch and a guard of the model. **TxGossip** is the broadcast routines over FIFO
connections. A failed send is retried, which is a stutter. A connection may drop
with all that is on it; `RemovePeer`, `InitPeer` and `AddPeer` then give both ends
a new ID for the peer and a routine that begins at the front of the list. The
model lets both ends see the drop at once.

**ThresholdSignature** represents signatures by scalars modulo a small prime, so
the Shamir polynomial and the Lagrange recovery are computed exactly.

**Transacter** is one transacter of the load generator: `Start`, `Stop`, and a
send and a receive loop for each connection, with the two WaitGroups between
them. Connections stall or break at any time. The server, which is external,
answers, closes a connection that sends a close frame and gives up a stalled one.

## Runs

All commands are of the form `tlc -config X.cfg M` in this directory.

### Passing

| Run | Instance | Shows |
|---|---|---|
| `slot_clock` | 6 slots, start at the computed time (`LateStart = FALSE`) | one tick, one round event, no step panic, refinement of RoundSteps; every slot entered, every round completes or is cut short |
| `block_tree` | 3 blocks, 3 slots | tree shape; latest block; evidence path |
| `sync_rounds` | N=4, threshold 3, 7 slots, 4 slots in which proposals miss any nodes or 2 in which any nodes hear no votes (`Mixed = FALSE`) | one branch is executed by all while only proposals are lost; in order and as a replicated ledger while only votes are lost, with all caught up after two slots without a loss |
| `consensus_node` | N=2, threshold 2, 4 slots, the node leads slots 1 and 3 | one vote per slot; quorums are made of votes that were cast, and no vote takes one away; uncommitted set; sound quorums, held and passed on; a proposal follows the newest block below the newest precommit block and carries the quorums of the precommit blocks on the way; in timely behaviours proposals are applied once and precommit means supported |
| `kv_store` | 2 names, 2 blocks of up to 2 transactions, 2 requests; none between the increment and the read of `increasingID` by another (`AtomicID = TRUE`) | refinement of Bank |
| `list_mempool` | 2 goroutines, 2 keys, 2 sizes, pool of 2, 4 pushes, Flush only while no CheckTx runs (`FlushAlone = TRUE`) | maximum exceeded by less than the number of goroutines; byte counter, but for the sizes `Update` gets wrong; no panic |
| `mempool_ids` | 3 peers, 5 IDs | unique, owned, sufficient IDs |
| `tx_gossip` | line of 3, 2 transactions, pools with room for both, 1 lost connection | spread to all, also after a lost connection; copies at most double with each; nothing is sent back before the first |
| `slot_time` | 2 nodes, slots of 3 ms, delays up to 1 ms, start in the genesis millisecond or the next, which count slots from different times, 5 slots | slots start between the times the nodes would give them, but for delays, which add up over unrevised slots only; nodes get one slot further apart than they started; the clock never stops |
| `transacter` | 2 connections | WaitGroups count the loops; Start and Stop return when they may, and in the end; crashes are counted exactly |
| `threshold_signature` | field of 5, 4 validators, degree 2 | recovery from any 3 distinct shares in any order |

**Bounds.** In four slots the node leads, follows a peer whose proposal carries its
quorum, leads again with evidence on a tree of three blocks, and commits; an early
proposal, its second acceptance and its wrong quorum need two. With three nodes,
where two of three votes make a quorum, the same properties hold for 3 slots
(N=3, threshold 2, `MaxProposal` 2, `Me` 2: 297,389 states), and the theorems below
are for any number. Seven synchronous slots allow four losses, a fork, and commits
after it: a node that votes for every block whose parent it knows makes two nodes
execute different branches within this bound. With 8 slots, any number of lost
proposals and no lost votes, `OneBranch` holds too (7.2 million states, 15 minutes).
Five IDs and three peers
wrap. Four pushes over a pool of two fill it, empty it and fill it again. Over a
field of 5 all degree-2 polynomials and all sequences of 4 votes are enumerated.
Four places in a pool hold the two copies of two transactions that one
reconnection makes. In five slots a delay of a third of a slot adds up to more
than a slot, which makes `reviseSlotTime` skip, and is inherited through two
blocks, also by a node that began later than the proposer. Two connections let one stall while the other breaks or works.

**Deadlock** is checked where the system never stops (`SlotClock`, `SyncRounds`,
`MempoolIDs`) and in `Transacter`, whose `Ended` is the only state it may stop in;
bounded models that simply run out of inputs turn it off.
`AtBound` marks the states in which only the bound ends a behaviour.

**Fairness.** `SlotClock`: weak fairness of each step. An armed timer fires;
blocked senders on a Go channel are served in order, and `select` picks at random
among ready cases. `TxGossip`: weak fairness of each connection's send and
receive routine, which loop for as long as the peer is connected, and of
connecting again, which the switch does for persistent peers; the number of
lost connections is bounded. `KVStore`: calls in progress run to their end.
`SlotTime`: time passes, and timers are served within `Jitter`. `Transacter`:
weak fairness of the loops, strong fairness of the one-second ticker against the
ping ticker in `select`, and servers that close connections as above. No fairness is assumed of clients, of
message arrival or of peers.

Seven passing runs hold only under an assumption that the code does not enforce:
`slot_clock`, `sync_rounds`, `kv_store`, `list_mempool`, `mempool_ids`, `tx_gossip`
and `transacter`. The constants named in the table state it; for SyncRounds it is
that proposals and votes are not lost in one behaviour, for the IDs that the switch
removes a peer before it initialises it again, for gossip the shape of the network
and room in the pools, for the load generator that servers close connections. All
but that of `mempool_ids` have configurations below that show what happens without
it. `RecoversPrimary` is about more shares than the degree of the polynomial.

### Statements of the repository that the code does not meet

One is a run of its own, `node_wrong_quorum`, with the quotation in `PROJECT.json`:
a quorum is of its block (`types/quorum.go:33`), but the votes of the last slot are
put on a proposal of another slot that came early, which becomes precommit
without support.

The other disagreements met while modelling are kept as configurations; each of
them checks one property that TLC finds violated:

| Configuration (module) | Statement | What happens |
|---|---|---|
| `SlotLateStart` (SlotClock) | the first slot begins at the computed start time (`consensus/reactor.go:98`) | the constructor's 100 s timer may begin it, when the node waits longer for the genesis time |
| `SyncErrorBlock` (SyncRounds) | the tree has no error blocks (`state/state.go:59`) | blocks are added before they are validated |
| `SyncMissedBlock` (SyncRounds) | a committed block is in the tree (`state/state.go:110`) | not when its parent was missed |
| `SyncTwoBranches` (SyncRounds) | the blocks that are committed stay on one branch of the tree (`state/state.go:126`) | not when proposals and votes are lost in one behaviour: a node executes a block and, later, blocks of the branch the others followed |
| `SyncLastCommited` (SyncRounds) | `Copy` is a deep copy (`state/state.go:66`) | `LastCommitedBlock` is lost |
| `SyncEvidence` (SyncRounds) | `LocalQuorum` is the block's own (`types/commit.go:37`) | it is the last of the list |
| `NodeAppliedTwice` (ConsensusNode) | a second proposal is not accepted (`consensus/state.go:267`) | an early proposal is accepted twice |
| `NodeCachedUnused` (ConsensusNode) | a proposal that came before its slot is taken up in it (`consensus/state.go:412`) | not when the last slot had no proposal, as `enterApply` returns before |
| `SlotCountdown` (SlotTime) | all count down from one time (`docs/feature.md:10`) | a node that reads the clock in the genesis millisecond begins one slot earlier |
| `KVConflicts` (KVStore) | reaped transactions do not conflict (`state/executor.go:144`) | they are drawn at random, each reads the balances before the block, and the last write to an account wins |
| `KVToSelf` (KVStore) | amalgamate moves the money (`store/smallbank_test.go:114`) | to itself, as `generateTx` always does, it destroys it |
| `KVRequests` (KVStore) | customIDs identify accounts (`store/kv_store.go:52`) | overlapping requests share one |
| `MempoolRace` (ListMempool) | the size is a maximum (`mempool/errors.go:24`) | exceeded by concurrent checks |
| `MempoolDuplicate` (ListMempool) | committed transactions are removed (`mempool/mempool.go:26`) | a second copy stays |
| `MempoolSizes` (ListMempool) | the byte counter is the size of the pool (`mempool/mempool.go:43`) | wrong after the commit of a transaction that has the key of a pooled one and another size |
| `MempoolFlush` (ListMempool) | the same | off by more than that after a flush beside a CheckTx |
| `MempoolIDsWrap` (MempoolIDs) | withheld only from the sender (`mempool/reactor.go:217`) | an ID is used again |
| `TxGossipReturn` (MCTxGossip) | transactions are not sent back (`mempool/reactor.go:188`) | they are, on a cycle; on a line too after a lost connection (`Line`, `MaxDrops = 1`) |
| `TxGossipCrowded` (MCTxGossip) | transactions spread (`mempool/reactor.go:152`) | copies crowd others out |
| `ThresholdDegree` (ThresholdSignature) | threshold shares recover the signature (`cmd/commands/gen_genesis.go:27`) | `--thres` is the degree of the polynomial, so one share more is needed; with `--thres 3` for 4 validators (`docs/run.md:5`) and the default `--threshold 3`, three votes recover a wrong signature |
| `TransacterSilent` (Transacter) | a server closes the connection in the absence of pings (`tools/tm-bench/transacter.go:220`) | a server that does not leaves `Stop` waiting for `ReadMessage`, which has no deadline |

## Proofs

| Theorem | Module | Assumes | States |
|---|---|---|---|
| `ClockSafety` | `SlotClockProofs` | `LateStart = FALSE` | `TypeOK`, `NoPanic`, `OneTick`, `OneRoundEvent` always hold |
| `ClockRefinement` | `SlotClockProofs` | `LateStart = FALSE` | SlotClock implements RoundSteps |
| `IDsSafety` | `MempoolProofs` | finite peers, width at least 2 | `UniqueIDs`, `ActiveIDsAreOwned`, `EnoughIDs` |
| `MempoolSafety` | `MempoolProofs` | `FlushAlone`, finite goroutines | `SizeBounded`, `NoPanic` |
| `MempoolBytes` | `MempoolProofs` | the same, any keys and sizes | `BytesMatch` |
| `OneVote` | `ConsensusNodeProofs` | any N, threshold, slots | `OneVotePerSlot` |
| `CastQuorums` | `ConsensusNodeProofs` | any N, threshold, slots | `QuorumsAreCast` |
| `UncommittedBlocks` | `ConsensusNodeProofs` | any N, threshold, slots | `UncommittedStates` |
| `SoundQuorums` | `ConsensusNodeProofs` | any N, threshold, slots | `QuorumsAreSound` |
| `TimelyNode` | `ConsensusNodeProofs` | any N, threshold, slots | `TimelyApply` |
| `HeldQuorums` | `ConsensusNodeProofs` | any N, threshold, slots | `QuorumsStay` |
| `ProposesNewest` | `ConsensusNodeProofs` | any N, threshold, slots | `ProposesOnNewest` |
| `ShapedTrees`, `LatestFound`, `EvidenceFound` | `ConsensusStateProofs` | any hashes and slots, trees of any size | `TreeShape`, `LatestIsNewestBelowPrecommit`, `EvidencePath` (MCBlockTree) |
| `StoreRefinement` | `KVStoreProofs` | `AtomicID`; any clients, names, amounts, IDs and blocks | KVStore implements Bank |
| `SlotDrift` | `SlotTimeProofs` | any cluster, slot length and `Jitter` | `DriftBounded` |
| `SlotsInStep` | `SlotTimeProofs` | the same | `InStep` |
| `WaitGroups`, `Waits`, `Crashes` | `TransacterProofs` | finite connections | `WaitGroupsMatch`, `WaitsForLoops`, `CleanStop` |

`ClockNoPanic`, `ClockOneRoundEvent`, `IDsOwned`, `IDsSuffice` and
`MempoolNoPanic` state the parts of the first, third and fourth of these one by
one.

*SlotClock.* `NoPanic` is not inductive: an apply event of the current slot must
be known to find `RoundStepSlot`. `OneRoundEvent` says so, and needs that no event
of a later slot exists, which needs that the clock is never two ticks ahead:
`OneTick`. `NotBeforeStart` keeps the constructor's timer from being a second
tick. The conjunction is the invariant; it also makes every step a step or a
stutter of RoundSteps.

*LoopProofs.* Loops over slices and trees are recursive functions in the models.
The library's induction theorems cannot be used for them, as they take a predicate
as a parameter. `LoopProofs` therefore states induction for sets: a set that has 0
and, with each number below n, the next one has all numbers up to n (`UpTo`, from
the well-ordering of the natural numbers). A recursive function means something
once a function satisfies it: the values a loop goes through exist
(`IterationExists`, `RecursionExists`), and an invariant of a loop is then the set
of indices at which it holds. The sum of the sizes in the mempool's list is such a
function too (`SumSteps` in `MempoolProofs`).

*The assumptions on constants* are the ones TLC evaluates in the runs:
`StateAssumption` (there is a validator, and the threshold is at most their
number), `NodeAssumption` (the node is one of them) and the like. The settings in
the table (`LateStart = FALSE`, `FlushAlone`, `AtomicID`) are hypotheses of the theorems.

*BlockTree.* `ConsensusStateProofs` has the lemmas about the operators of
`BlockTree` and of `ConsensusState`, which change no variables;
`ConsensusNodeProofs` has the invariants of `ConsensusNode` and uses them. The
queries are shown to return what `BlockTree` says they are meant
to, on trees of any size. The level order has every node of the tree, each once
(`LevelOrderVisits`). `GetLatestBlock`'s pass, with its two variables, ends with a
newest block below a newest precommit block (`LatestIsFound`). The walk to the root
collects the precommit blocks below the nearest committed one, newest first
(`EvidenceIsFound`), because slots fall on the way up (`UpClimbs`). The invariant of
MCBlockTree, `TreeInv`, is what these need: the tree is well shaped and grows from
the genesis block (`Rooted`), and blocks are of later slots than the blocks they
hang below (`Climbs`). `AddBlocks` keeps it (`AddBlocksShape`, `AddBlocksClimbs`),
and so does a change of states (`SameRooted`).

*MempoolIDs.* The search for an ID succeeds because the active IDs are the peers'
and one more, hence fewer than all (`FewActiveIDs`, by cardinality); the chosen
ID is free, hence unique.

*ListMempool.* `SizeBounded` rests on `Reserved`: the list and the goroutines that
have passed the check together stay below the bound. `NoPanic` rests on `Linked`
(what the map points to is in the list, except what `Update` has just removed),
which needs `Private` (an element not yet in the map is known to its goroutine
only) and `Distinct`. `BytesMatch` is the sum over the list, corrected by what is
on its way: `CheckTx` has pushed but not counted, `Update` and `Flush` have
removed but not subtracted, and by `skew`. Each step changes terms of that equation
that cancel.

*ConsensusNode.* A node may sign a vote for a slot more than once (an early
proposal is accepted twice), so `OneVotePerSlot` rests on `AddVote`. The invariant
relates three pieces of state: every vote the node holds is one its validator
cast, a node that holds no vote of its own for a slot has published none, and one
that does has published at most one. The lemmas `SetProposalSigns` to
`EnterApplySigns` show that all handlers but `AddVote` leave the votes alone,
whatever they do to the tree, so the loops inside them need not be opened.
`QuorumsAreCast` follows by cardinality of a subset. `QuorumsStay` needs that the list
of votes of a validator has at most one (`VoteLists`), as recovery fails on two, and
that `AddVote` leaves a list that is not empty alone: a step only adds votes of
validators that had none, so the votes of a type only grow (`QuorumGrows`).

The other theorems are about blocks, so there the handlers and their loops
are opened. `Sound` says that every block object, cached proposal and proposal on
its way is in order with respect to the slots supported so far (`InOrder`): its
evidence is of earlier, supported slots, a precommit block has a support quorum,
a support quorum names a supported slot, the uncommitted blocks are open ones and
the tree's pointers are into the heap. It needs that a slot this node leads has no
proposal before its propose step (`Known`) and that the node's own votes are the
ones it has cast (`OwnVotes`). Per handler there is a lemma: what `SetProposal`
does while it looks at evidence (`Revised`: blocks only become precommit, and only
supported ones), what `UpdateEvidences`, `ApplyBlock` and `Commit` do in
`enterApply`, and that `CreateProposal` takes its evidence from precommit blocks.
That quorums are sound is not enough for a precommit block to be supported, as
`node_wrong_quorum` shows. `Punctual` adds what timely arrival gives: no cached
proposal, an accepted proposal that is the one due, and only older blocks in the
heap. Then the votes counted are votes on the block they are put on.

`ProposesOnNewest` adds a conjunct to `InOrder`, `Rooted`: the tree is well shaped and grows from the genesis block. Every other block is of a later
slot than the one it follows, so slots fall on the way up the tree (`Climbs`,
`InOrderClimbs`). None of this depends on states, votes or quorums: a handler that
leaves the hash, the slot and the parent of each object alone keeps it
(`SameRooted`), and only `ApplyBlock` needs `AddBlocksShape`. A proposal is then
made from a tree to which `LatestIsFound` and `EvidenceIsFound` apply.

*KVStore.* `Collected` says that the batch has the writes of the transactions
applied so far as they would be if computed now; nothing disturbs them because the
accounts of the block are apart from the requests under way (`Apart`), and a
customID has one owner, be it a name or a request (`Identities`). The last needs
`AtomicID`, and `KVRequests` is its counterexample. `WriteBatch` then is the only step
that moves money for a block. A transaction's writes to the rows of an account are
what Bank writes to that account, read from the balances before the block
(`TransactionWrites`); by induction on k the balances after the first k transactions
of Bank are the rows with the writes of these (`ExecuteRun`, `BlockExecuted`), so
that conflicts and amalgamates to oneself come out as the batch has them.

*SlotTime.* `DriftBounded` needs the same of the start times in proposals
(`BlockTimes`, with `late` of the proposer at that time), as revisions copy them:
the nodes between whose counts a slot starts are found among those the proposer's
was between, so it does not matter whose block it is. It also needs that no timer is overdue by more than `Jitter` (`NotOverdue`). `InStep` follows:
the node that is behind would have a timer that is overdue. The products are
isolated in an operator of their own, since the provers do linear arithmetic.

*Transacter.* `WaitGroupsMatch` is inductive with the phases of `main`
(`Launched`, `StoppedByStop`) and `StartedFirst`: a send loop that returns has
started, because it is told to stop only after `Start` has returned.
`WaitsForLoops` is then a matter of empty sets, and `CleanStop` needs that a send
loop writes nothing after its close frame (`ReturnsOnce`).

Only model-checked, and why:

- `EverySlotEntered`, `RoundCompletes`, `Spreads`, `Progress`, `StopsInTheEnd`:
  liveness under fairness, which TLAPS does not cover.
- `OneBranch`, `ExecutedInOrder`, `CommitInTwoSlots`, `ImplementsLedger` (SyncRounds):
  they relate the trees of all nodes. The run bounds the losses, and we have no
  inductive invariant that covers any number of them.
- `CopiesBounded`, `NotReturnedBefore`: stated for one shape of network.
- `RecoversPrimary`: Lagrange interpolation, which is non-linear arithmetic modulo
  a prime.

## Not modelled

- *Clocks of machines that disagree.* SlotTime has delays, and one time.
- *Restarts.* The database keeps balances, but `SaveState` is empty and a node
  always begins from the genesis state: there is no recovery code to model.
- *Byzantine validators.* Signatures are taken as valid, and peers follow the code.
- *RPC getters* (`rpc/consensus.go`): they read blocks while they change and report
  latencies; no decision depends on what they return.
- *`ReapTxs`, `LockTxs`, `ReleaseTxs`* of the pool: nothing in the node calls them.
  `ReapMaxTxs` makes up transactions and does not read the pool.
- *Start and stop of services, node assembly, files and flags*: straight-line code
  that runs once, `node/`, `cmd/`, `privval/`, genesis and validator files.
- *The hop count of the consensus reactor*: it only limits how far messages are
  passed on, and ConsensusNode lets them arrive or not.
- Transaction contents beyond SmallBank, encodings, pairing cryptography, LevelDB
  failures, overflow of balances, statistics of the tools.

## Plan

Built: clock and its times, block tree, handlers and their two compositions,
store, mempool, IDs and gossip, threshold signatures, load generator. What could
follow:

1. several asynchronous nodes, composing ConsensusNode with itself, with the
   times of SlotTime in place of the free round steps;
2. a proof, from the shape of the tree and its queries, of the agreement of
   SyncRounds while no proposal or no vote is lost;
3. recovery, once the node persists its state.

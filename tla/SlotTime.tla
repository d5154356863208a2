------------------------------ MODULE SlotTime ------------------------------
(***************************************************************************)
(* The times at which the nodes of a cluster enter their slots.            *)
(*                                                                         *)
(* SlotClock shows that a tick leads to one new slot; here the readings of *)
(* the clock are added.  A node computes the start of its first slot from  *)
(* the genesis time (Reactor.OnStart), enters a slot some time after its   *)
(* timer has fired (enterNewSlot), and moves the slot to the time that the *)
(* last committed block implies, when it has one (reviseSlotTime).         *)
(*                                                                         *)
(* Times are milliseconds since the genesis time, and the clocks of the    *)
(* machines agree.  Which block a node has committed last is left open: it *)
(* is any proposal that the node could take up in its slot, directly or    *)
(* from its cache, or none, as State.Copy forgets it when an apply commits *)
(* nothing.  The proposer may have started earlier or later than the node. *)
(***************************************************************************)
EXTENDS Integers

CONSTANTS
    N,                  \* number of nodes, all validators
    SlotTimeOut,        \* length of a slot
    Slotdiffs,          \* whole slots a node waits before its first one
    Boots,              \* the readings at which Reactor.OnStart may run
    Jitter,             \* bound on the time from a timer to enterNewSlot
    MaxSlot             \* bound on the slots of a behaviour

ASSUME TimeAssumption ==
    /\ N \in Nat \ {0}
    /\ SlotTimeOut \in Nat \ {0}
    /\ Slotdiffs \in Nat
    /\ Boots \subseteq Nat
    /\ Jitter \in Nat
    /\ MaxSlot \in Nat

VARIABLES
    now,                \* the time
    boot,               \* the reading of OnStart, or NotStarted
    timer,              \* when the timer of the slot clock fires
    CurSlot,
    curSlotStartTime,
    late,               \* over how many slots entered without a revision the
                        \* delays in curSlotStartTime have added up
    blocks,             \* the proposal of each slot, or NoBlock
    known               \* the slots of a node whose proposal had been made
                        \* before the node left the slot

vars == <<now, boot, timer, CurSlot, curSlotStartTime, late, blocks, known>>

Nodes == 0..N-1
Slots == 0..MaxSlot
NotStarted == -1
NoBlock == [slot |-> -1, SlotStartTime |-> -1, late |-> -1]
Block == [slot : Slots, SlotStartTime : Nat, late : Nat]

\* ValidatorSet.GetProposer.
Proposer(s) == s % N

\* Every variable holds a value of the type the code declares for it, and no
\* time lies before the genesis time.
TypeOK ==
    /\ now \in Nat
    /\ boot \in [Nodes -> Nat \cup {NotStarted}]
    /\ timer \in [Nodes -> Nat]
    /\ CurSlot \in [Nodes -> Slots]
    /\ curSlotStartTime \in [Nodes -> Nat]
    /\ late \in [Nodes -> Nat]
    /\ blocks \in [Slots -> Block \cup {NoBlock}]
    /\ known \in [Nodes -> SUBSET Slots]

Init ==
    /\ now = 0
    /\ boot = [n \in Nodes |-> NotStarted]
    /\ timer = [n \in Nodes |-> 0]
    /\ CurSlot = [n \in Nodes |-> 0]
    /\ curSlotStartTime = [n \in Nodes |-> 0]
    /\ late = [n \in Nodes |-> 0]
    /\ blocks = [s \in Slots |-> NoBlock]
    /\ known = [n \in Nodes |-> {}]

-----------------------------------------------------------------------------

\* The slot boundary at or after a reading, counted in slots from genesis.
Ceil(t) == (t + SlotTimeOut - 1) \div SlotTimeOut

\* The startTime of Reactor.OnStart.
StartTime(t) == (Ceil(t) + Slotdiffs) * SlotTimeOut

\* Reactor.OnStart, after the wait for the genesis time.
OnStart(n) ==
    /\ boot[n] = NotStarted
    /\ now \in Boots
    /\ boot' = [boot EXCEPT ![n] = now]
    /\ timer' = [timer EXCEPT ![n] = StartTime(now)]
    /\ UNCHANGED <<now, CurSlot, curSlotStartTime, late, blocks, known>>

\* The start of a slot that a block implies.
RevisedStart(b, slot) == b.SlotStartTime + (slot - b.slot) * SlotTimeOut

\* The early returns of reviseSlotTime.
Revises(b, slot) ==
    /\ b # NoBlock
    /\ slot > b.slot
    /\ now <= RevisedStart(b, slot) + SlotTimeOut

\* NewStart in a reviseSlotTime that leaves curSlotStartTime alone.
NewStartUnset(b, slot) == now

\* NewStart in a reviseSlotTime that adds one slot too many.
NewStartNext(b, slot) ==
    IF Revises(b, slot) THEN RevisedStart(b, slot + 1) ELSE now

\* What enterNewSlot and reviseSlotTime leave in curSlotStartTime.
NewStart(b, slot) == IF Revises(b, slot) THEN RevisedStart(b, slot) ELSE now

\* defaultSetProposal accepts a proposal while the node is in its slot, be it one
\* that has just come or, by triggleFutureProposal, one that came before.
Known(n) ==
    IF blocks[CurSlot[n]] = NoBlock THEN known[n] ELSE known[n] \cup {CurSlot[n]}

\* The block node n may have committed last: none, or the proposal of an earlier
\* slot that it could accept in that slot.
LastCommited(n) == {NoBlock} \cup {blocks[s] : s \in known[n]}

\* EnterNewSlot in a node that arms its timer only when it revises the time.
EnterNewSlotUnarmed(n, b) ==
    LET slot == CurSlot[n] + 1
    IN /\ boot[n] # NotStarted
       /\ CurSlot[n] < MaxSlot
       /\ timer[n] > 0 /\ now >= timer[n]
       /\ CurSlot' = [CurSlot EXCEPT ![n] = slot]
       /\ curSlotStartTime' = [curSlotStartTime EXCEPT ![n] = NewStart(b, slot)]
       /\ timer' = [timer EXCEPT ![n] =
                        IF Revises(b, slot) THEN NewStart(b, slot) + SlotTimeOut ELSE 0]
       /\ late' = [late EXCEPT ![n] = IF Revises(b, slot) THEN b.late ELSE @ + 1]
       /\ known' = [known EXCEPT ![n] = Known(n)]
       /\ UNCHANGED <<now, boot, blocks>>

\* enterNewSlot with reviseSlotTime, where b is the last committed block.
EnterNewSlot(n, b) ==
    LET slot == CurSlot[n] + 1
    IN /\ boot[n] # NotStarted
       /\ CurSlot[n] < MaxSlot
       /\ now >= timer[n]
       /\ CurSlot' = [CurSlot EXCEPT ![n] = slot]
       /\ curSlotStartTime' = [curSlotStartTime EXCEPT ![n] = NewStart(b, slot)]
       /\ timer' = [timer EXCEPT ![n] = NewStart(b, slot) + SlotTimeOut]
       /\ late' = [late EXCEPT ![n] = IF Revises(b, slot) THEN b.late ELSE @ + 1]
       /\ known' = [known EXCEPT ![n] = Known(n)]
       /\ UNCHANGED <<now, boot, blocks>>

\* enterPropose: defaultProposal copies curSlotStartTime into the proposal.
Propose(n) ==
    /\ CurSlot[n] > 0
    /\ Proposer(CurSlot[n]) = n
    /\ blocks[CurSlot[n]] = NoBlock
    /\ blocks' = [blocks EXCEPT ![CurSlot[n]] =
            [slot |-> CurSlot[n], SlotStartTime |-> curSlotStartTime[n], late |-> late[n]]]
    /\ UNCHANGED <<now, boot, timer, CurSlot, curSlotStartTime, late, known>>

\* Time passes: every node boots in time, and no timer waits for longer than
\* Jitter.
Tick ==
    /\ \E n \in Nodes : CurSlot[n] < MaxSlot
    /\ \A n \in Nodes :
          IF boot[n] = NotStarted THEN \E t \in Boots : t > now
          ELSE CurSlot[n] < MaxSlot => now < timer[n] + Jitter
    /\ now' = now + 1
    /\ UNCHANGED <<boot, timer, CurSlot, curSlotStartTime, late, blocks, known>>

Next ==
    \/ \E n \in Nodes : OnStart(n)
    \/ \E n \in Nodes : \E b \in LastCommited(n) : EnterNewSlot(n, b)
    \/ \E n \in Nodes : Propose(n)
    \/ Tick

Spec == Init /\ [][Next]_vars

\* Time does not stop, and the event routine gets to run.
Fairness ==
    /\ WF_vars(Tick)
    /\ \A n \in Nodes : WF_vars(OnStart(n))
    /\ \A n \in Nodes : WF_vars(\E b \in LastCommited(n) : EnterNewSlot(n, b))

FairSpec == Spec /\ Fairness

-----------------------------------------------------------------------------
(* Properties *)

Started == {n \in Nodes : boot[n] # NotStarted}

\* Where slot s of node n would start without any delay or revision.
Ideal(n, s) == StartTime(boot[n]) + (s - 1) * SlotTimeOut

\* A slot starts no earlier than some node would have started it and, but for
\* delays, no later than some node would.  Delays add up over the slots entered
\* without a revision only: a slot that reviseSlotTime moves is as late as the
\* slot of the block it is moved by was, however much later it was entered.
DriftBounded ==
    \A n \in Nodes : CurSlot[n] > 0 =>
        /\ \E p \in Started : curSlotStartTime[n] >= Ideal(p, CurSlot[n])
        /\ \E p \in Started : curSlotStartTime[n] <= Ideal(p, CurSlot[n]) + late[n] * Jitter

\* While less than a slot of delay has added up at a node, no node is further
\* ahead of it than some two nodes were apart when they started, and one slot: a
\* node that reviseSlotTime moves into the count of another gets no further, so
\* a proposal is cached for one slot more than the starts are apart.
InStep ==
    \A n, m \in Started :
        (late[n] + 1) * Jitter < SlotTimeOut =>
            \E p, q \in Started :
                CurSlot[m] <= CurSlot[n] + 1 + (Ceil(boot[q]) - Ceil(boot[p]))

\* All nodes that read the clock in OnStart count slots from the same time.
OneCountdown ==
    \A n, m \in Nodes :
        boot[n] # NotStarted /\ boot[m] # NotStarted
        => StartTime(boot[n]) = StartTime(boot[m])

\* Every node goes on to later slots: neither a revision nor a skipped one
\* leaves the clock without a timer.
Progress == \A n \in Nodes : <>(CurSlot[n] = MaxSlot)
=============================================================================

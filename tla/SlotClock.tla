------------------------------ MODULE SlotClock ------------------------------
(***************************************************************************)
(* The slot clock of a node, the routines that carry its ticks, and the    *)
(* round state machine they drive.                                         *)
(*                                                                         *)
(* A tick travels through four goroutines before a slot begins:            *)
(*                                                                         *)
(*   timer --fires--> t.C --> timerChan --curslot+1--> tockChan            *)
(*         --handleTimeOut--> eventMsgQueue --enterNewSlot--> timer        *)
(*                                                                         *)
(* Every hop is a goroutine blocked on an unbuffered channel, so a channel *)
(* is the bag of the sends that wait on it and any of them may be received *)
(* next.  Time itself is left out: an armed timer may fire at any moment.  *)
(* The handlers are followed for what they do to the clock, to the event   *)
(* queue and to Step; what they do to proposals and blocks is the matter   *)
(* of ConsensusNode.                                                       *)
(***************************************************************************)
EXTENDS Naturals

CONSTANTS
    MaxSlot,            \* bound on the slots a behaviour visits
    LateStart           \* the node waits for the genesis time for longer than
                        \* the 100 seconds the constructor's timer runs

ASSUME ClockAssumption == MaxSlot \in Nat /\ LateStart \in BOOLEAN

VARIABLES
    pc,                 \* progress of Reactor.OnStart
    timer,              \* the slot clock's time.Timer is armed
    fired,              \* t.C, buffered, holds a value
    timerChan,          \* number of goroutines sending on timerChan
    curslot,            \* slotClock.curslot
    tockChan,           \* slots of the timeoutInfos being sent on tockChan
    eventQ,             \* bag of the events being sent on eventMsgQueue
    CurSlot, LastSlot, Step,    \* RoundState
    panicked            \* the wrong-step panic of enterApply or enterPropose

clockVars == <<timer, fired, timerChan, curslot, tockChan>>
roundVars == <<CurSlot, LastSlot, Step>>
vars == <<pc, timer, fired, timerChan, curslot, tockChan, eventQ,
          CurSlot, LastSlot, Step, panicked>>

Slots == 0..MaxSlot
Steps == {"Slot", "Apply", "Wait"}
EventTypes == {"NewSlot", "Apply", "Propose"}

\* Every variable holds a value of the type the code declares for it; the
\* counts of waiting goroutines never go negative.
TypeOK ==
    /\ pc \in {"waiting", "started", "running"}
    /\ timer \in BOOLEAN
    /\ fired \in BOOLEAN
    /\ timerChan \in Nat
    /\ curslot \in Slots
    /\ tockChan \in SUBSET Slots
    /\ eventQ \in [EventTypes -> [Slots -> Nat]]
    /\ CurSlot \in Slots
    /\ LastSlot \in Slots
    /\ Step \in Steps
    /\ panicked \in BOOLEAN

\* NewSlotClock arms the timer; NewConsensusState starts in RoundStepWait.
Init ==
    /\ pc = "waiting"
    /\ timer = TRUE
    /\ fired = FALSE
    /\ timerChan = 0
    /\ curslot = 0
    /\ tockChan = {}
    /\ eventQ = [t \in EventTypes |-> [s \in Slots |-> 0]]
    /\ CurSlot = 0
    /\ LastSlot = 0
    /\ Step = "Wait"
    /\ panicked = FALSE

-----------------------------------------------------------------------------
(* The clock *)

\* ResetClock: stop the timer, drain t.C, arm the timer again.  What has
\* already left t.C is not recalled.
ResetClock ==
    /\ timer' = TRUE
    /\ fired' = FALSE

\* Reactor.OnStart up to the start of the clock and consensus routines, after
\* the wait for the genesis time.
StartRoutines ==
    /\ pc = "waiting"
    /\ pc' = "started"
    /\ UNCHANGED <<clockVars, eventQ, roundVars, panicked>>

\* The rest of Reactor.OnStart: set the timer to the start of the first slot.
SetStartTime ==
    /\ pc = "started"
    /\ pc' = "running"
    /\ ResetClock
    /\ UNCHANGED <<timerChan, curslot, tockChan, eventQ, roundVars, panicked>>

\* The runtime sends on t.C.  The 100 second timer of the constructor does it
\* before OnStart has reset the clock only when the node started early.
TimerFires ==
    /\ timer
    /\ pc = "running" \/ LateStart
    /\ timer' = FALSE
    /\ fired' = TRUE
    /\ UNCHANGED <<pc, timerChan, curslot, tockChan, eventQ, roundVars, panicked>>

\* ForwardTimer in a clock loop that arms the timer again by itself.
ForwardTimerRearming ==
    /\ pc # "waiting"
    /\ fired
    /\ fired' = FALSE
    /\ timer' = TRUE
    /\ timerChan' = timerChan + 1
    /\ UNCHANGED <<pc, curslot, tockChan, eventQ, roundVars, panicked>>

\* Clock loop, case now := <-sc.t.C.
ForwardTimer ==
    /\ pc # "waiting"
    /\ fired
    /\ fired' = FALSE
    /\ timerChan' = timerChan + 1
    /\ UNCHANGED <<pc, timer, curslot, tockChan, eventQ, roundVars, panicked>>

\* Tick in a clock loop that counts a tick twice.
TickSkipping ==
    /\ timerChan > 0
    /\ curslot < MaxSlot
    /\ timerChan' = timerChan - 1
    /\ curslot' = curslot + 2
    /\ tockChan' = tockChan \cup {curslot + 2}
    /\ UNCHANGED <<pc, timer, fired, eventQ, roundVars, panicked>>

\* Clock loop, case now := <-sc.timerChan.
Tick ==
    /\ timerChan > 0
    /\ curslot < MaxSlot
    /\ timerChan' = timerChan - 1
    /\ curslot' = curslot + 1
    /\ tockChan' = tockChan \cup {curslot + 1}
    /\ UNCHANGED <<pc, timer, fired, eventQ, roundVars, panicked>>

-----------------------------------------------------------------------------
(* The round state machine *)

Sending(q, t, s) == [q EXCEPT ![t][s] = @ + 1]
Receiving(q, t, s) == [q EXCEPT ![t][s] = @ - 1]

\* receiveRoutine takes a timeoutInfo and calls handleTimeOut.
HandleTimeOut(s) ==
    /\ s \in tockChan
    /\ tockChan' = tockChan \ {s}
    /\ eventQ' = Sending(eventQ, "NewSlot", s)
    /\ UNCHANGED <<pc, timer, fired, timerChan, curslot, roundVars, panicked>>

\* handleEvent of RoundEventNewSlot.  The new slot is read from the clock, not
\* from the event.  enterNewSlot resets the clock, and reviseSlotTime may do
\* so again with a duration as short as it likes.
HandleNewSlot(s) ==
    /\ eventQ["NewSlot"][s] > 0
    /\ LastSlot' = CurSlot
    /\ CurSlot' = curslot
    /\ Step' = "Slot"
    /\ ResetClock
    /\ eventQ' = Sending(Receiving(eventQ, "NewSlot", s), "Apply", curslot)
    /\ UNCHANGED <<pc, timerChan, curslot, tockChan, panicked>>

\* handleEvent of an event of a slot that is over.
HandleExpired(t, s) ==
    /\ t # "NewSlot"
    /\ eventQ[t][s] > 0
    /\ s # CurSlot
    /\ eventQ' = Receiving(eventQ, t, s)
    /\ UNCHANGED <<pc, clockVars, roundVars, panicked>>

\* HandleApply without the check that the event belongs to the current slot.
HandleApplyAnySlot(s) ==
    /\ eventQ["Apply"][s] > 0
    /\ IF Step = "Slot"
       THEN /\ Step' = "Apply"
            /\ eventQ' = Sending(Receiving(eventQ, "Apply", s), "Propose", CurSlot)
            /\ UNCHANGED panicked
       ELSE /\ panicked' = TRUE
            /\ eventQ' = Receiving(eventQ, "Apply", s)
            /\ UNCHANGED Step
    /\ UNCHANGED <<pc, clockVars, CurSlot, LastSlot>>

\* HandleApply without the event that triggers the propose step.
HandleApplySilent(s) ==
    /\ eventQ["Apply"][s] > 0
    /\ s = CurSlot
    /\ IF Step = "Slot" THEN Step' = "Apply" /\ UNCHANGED panicked
       ELSE panicked' = TRUE /\ UNCHANGED Step
    /\ eventQ' = Receiving(eventQ, "Apply", s)
    /\ UNCHANGED <<pc, clockVars, CurSlot, LastSlot>>

\* handleEvent of RoundEventApply.
HandleApply(s) ==
    /\ eventQ["Apply"][s] > 0
    /\ s = CurSlot
    /\ IF Step = "Slot"
       THEN /\ Step' = "Apply"
            /\ eventQ' = Sending(Receiving(eventQ, "Apply", s), "Propose", CurSlot)
            /\ UNCHANGED panicked
       ELSE /\ panicked' = TRUE
            /\ eventQ' = Receiving(eventQ, "Apply", s)
            /\ UNCHANGED Step
    /\ UNCHANGED <<pc, clockVars, CurSlot, LastSlot>>

\* handleEvent of RoundEventPropose.
HandlePropose(s) ==
    /\ eventQ["Propose"][s] > 0
    /\ s = CurSlot
    /\ IF Step = "Apply"
       THEN Step' = "Wait" /\ UNCHANGED panicked
       ELSE panicked' = TRUE /\ UNCHANGED Step
    /\ eventQ' = Receiving(eventQ, "Propose", s)
    /\ UNCHANGED <<pc, clockVars, CurSlot, LastSlot>>

\* MaxSlot cuts the behaviour here: the clock loop has one more tick to take.
AtBound ==
    /\ curslot = MaxSlot
    /\ timerChan > 0
    /\ UNCHANGED vars

\* A panic in the event routine takes the whole process down.
Next ==
    /\ ~panicked
    /\ \/ StartRoutines
       \/ SetStartTime
       \/ TimerFires
       \/ ForwardTimer
       \/ Tick
       \/ \E s \in Slots : HandleTimeOut(s)
       \/ \E s \in Slots : HandleNewSlot(s)
       \/ \E t \in EventTypes, s \in Slots : HandleExpired(t, s)
       \/ \E s \in Slots : HandleApply(s)
       \/ \E s \in Slots : HandlePropose(s)
       \/ AtBound

Spec == Init /\ [][Next]_vars

\* An armed timer fires; Go serves waiting senders in order and picks fairly
\* among the ready cases of a select, so every blocked send is received.
FairSpec ==
    /\ Spec
    /\ WF_vars(StartRoutines) /\ WF_vars(SetStartTime)
    /\ WF_vars(TimerFires) /\ WF_vars(ForwardTimer) /\ WF_vars(Tick)
    /\ \A s \in Slots :
         /\ WF_vars(HandleTimeOut(s))
         /\ WF_vars(HandleNewSlot(s))
         /\ WF_vars(HandleApply(s))
         /\ WF_vars(HandlePropose(s))
         /\ \A t \in EventTypes : WF_vars(HandleExpired(t, s))

-----------------------------------------------------------------------------
(* Properties *)

\* The wrong-step panics of enterApply and enterPropose are unreachable: however
\* the goroutines of sendEventMessage are scheduled, an apply event of the
\* current slot finds RoundStepSlot and a propose event finds RoundStepApply.
NoPanic == ~panicked

\* The tick in flight: the timer, t.C, timerChan, tockChan and the NewSlot event
\* hold one tick between them, so ResetClock never races an earlier tick, and
\* the slot enterNewSlot reads from the clock is the slot of its event.
OneTick ==
    LET idle == \A s \in Slots : eventQ["NewSlot"][s] = 0
    IN \/ /\ timer /\ ~fired /\ timerChan = 0 /\ tockChan = {} /\ idle
          /\ curslot = CurSlot
       \/ /\ ~timer /\ fired /\ timerChan = 0 /\ tockChan = {} /\ idle
          /\ curslot = CurSlot
       \/ /\ ~timer /\ ~fired /\ timerChan = 1 /\ tockChan = {} /\ idle
          /\ curslot = CurSlot
       \/ /\ ~timer /\ ~fired /\ timerChan = 0 /\ tockChan = {curslot} /\ idle
          /\ curslot = CurSlot + 1
       \/ /\ ~timer /\ ~fired /\ timerChan = 0 /\ tockChan = {}
          /\ \A s \in Slots :
                eventQ["NewSlot"][s] = IF s = curslot THEN 1 ELSE 0
          /\ curslot = CurSlot + 1

\* What a round hands to the next event: the current slot has an apply event
\* waiting exactly in RoundStepSlot, a propose event exactly in RoundStepApply,
\* one of each at most, and no event of a later slot is about.
OneRoundEvent ==
    /\ eventQ["Apply"][CurSlot] = IF Step = "Slot" THEN 1 ELSE 0
    /\ eventQ["Propose"][CurSlot] = IF Step = "Apply" THEN 1 ELSE 0
    /\ \A s \in Slots : s > CurSlot =>
          eventQ["Apply"][s] = 0 /\ eventQ["Propose"][s] = 0

\* The first slot begins at the start time OnStart computes, not before.
FirstSlotAtStartTime == CurSlot > 0 => pc = "running"

Round == INSTANCE RoundSteps

\* The clock, the queue and the handlers together drive the consensus logic as
\* RoundSteps promises: slots one by one, apply and then propose in each.
ImplementsRoundSteps == Round!Spec

\* No slot is skipped: enterNewSlot is run for each of them in its turn.
EverySlotEntered == \A s \in 1..MaxSlot : <>(CurSlot = s)

\* A slot that is entered reaches RoundStepWait unless the next one begins.
RoundCompletes ==
    \A s \in 1..MaxSlot :
        (CurSlot = s /\ Step = "Slot") ~> (CurSlot # s \/ Step = "Wait")
=============================================================================

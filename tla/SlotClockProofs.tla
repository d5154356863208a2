-------------------------- MODULE SlotClockProofs --------------------------
(***************************************************************************)
(* Proofs about SlotClock, for every number of slots, of a node that does  *)
(* not start early (LateStart = FALSE).                                    *)
(*                                                                         *)
(* The invariant is the conservation of the tick: at any time the timer    *)
(* and the channels hold one tick between them, and the round one event.   *)
(***************************************************************************)
EXTENDS SlotClock, TLAPS

\* Until OnStart has set the start time the constructor's timer is the tick.
NotBeforeStart == pc # "running" => timer /\ ~fired

Inv ==
    /\ TypeOK
    /\ NoPanic
    /\ OneTick
    /\ OneRoundEvent
    /\ NotBeforeStart

Queues == [EventTypes -> [Slots -> Nat]]

\* One more goroutine blocked on eventMsgQueue: one count grows, no other moves.
LEMMA SendingCounts ==
    ASSUME NEW q \in Queues, NEW t \in EventTypes, NEW s \in Slots
    PROVE  /\ Sending(q, t, s) \in Queues
           /\ \A u \in EventTypes, r \in Slots :
                Sending(q, t, s)[u][r] =
                    IF u = t /\ r = s THEN q[u][r] + 1 ELSE q[u][r]
BY DEF Queues, Sending

\* One goroutine less: one count shrinks, no other moves.
LEMMA ReceivingCounts ==
    ASSUME NEW q \in Queues, NEW t \in EventTypes, NEW s \in Slots, q[t][s] > 0
    PROVE  /\ Receiving(q, t, s) \in Queues
           /\ \A u \in EventTypes, r \in Slots :
                Receiving(q, t, s)[u][r] =
                    IF u = t /\ r = s THEN q[u][r] - 1 ELSE q[u][r]
<1>1. q[t][s] - 1 \in Nat
  BY DEF Queues
<1>2. QED
  BY <1>1 DEF Queues, Receiving

\* Init establishes the invariant: NewSlotClock arms the only tick, and a fresh
\* ConsensusState has no event waiting.
LEMMA InitInv == Init => Inv
<1> SUFFICES ASSUME Init PROVE Inv
  OBVIOUS
<1>0. 0 \in Slots /\ 0 \in Nat
  BY ClockAssumption DEF Slots
<1>1a. eventQ \in Queues
  BY <1>0 DEF Init, Queues
<1>1b. timer \in BOOLEAN /\ fired \in BOOLEAN /\ panicked \in BOOLEAN
  BY DEF Init
<1>1. TypeOK /\ NoPanic /\ NotBeforeStart
  BY <1>0, <1>1a, <1>1b DEF Init, TypeOK, NoPanic, NotBeforeStart, Steps, Queues
<1>2. OneTick
  BY ClockAssumption DEF Init, OneTick, Slots, EventTypes
<1>3. OneRoundEvent
  BY ClockAssumption DEF Init, OneRoundEvent, Slots, EventTypes
<1>4. QED
  BY <1>1, <1>2, <1>3 DEF Inv

\* Every step of the clock, of the routines and of the handlers preserves the
\* invariant, when the constructor's timer does not fire before OnStart is done.
LEMMA NextInv ==
    ASSUME LateStart = FALSE, Inv, [Next]_vars
    PROVE  Inv'
<1> USE DEF NoPanic
<1>0. /\ TypeOK /\ ~panicked /\ OneTick /\ OneRoundEvent /\ NotBeforeStart
      /\ eventQ \in Queues
      /\ CurSlot \in Slots /\ CurSlot \in Nat
      /\ curslot \in Slots /\ curslot \in Nat
  BY ClockAssumption DEF Inv, TypeOK, Queues, Slots
<1>1. CASE StartRoutines
  <2>1. TypeOK' /\ ~panicked' /\ NotBeforeStart'
    BY <1>0, <1>1 DEF StartRoutines, TypeOK, NotBeforeStart, clockVars, roundVars
  <2>2. OneTick' /\ OneRoundEvent'
    BY <1>0, <1>1 DEF StartRoutines, OneTick, OneRoundEvent, clockVars, roundVars
  <2>3. QED  BY <2>1, <2>2 DEF Inv
<1>2. CASE SetStartTime
  <2>1. TypeOK' /\ ~panicked' /\ NotBeforeStart'
    BY <1>0, <1>2 DEF SetStartTime, ResetClock, TypeOK, NotBeforeStart, roundVars
  <2>2. OneTick' /\ OneRoundEvent'
    BY <1>0, <1>2 DEF SetStartTime, ResetClock, NotBeforeStart, OneTick,
       OneRoundEvent, roundVars
  <2>3. QED  BY <2>1, <2>2 DEF Inv
<1>3. CASE TimerFires
  <2>1. TypeOK' /\ ~panicked' /\ NotBeforeStart'
    BY <1>0, <1>3 DEF TimerFires, TypeOK, NotBeforeStart, roundVars
  <2>2. OneTick'
    BY <1>0, <1>3 DEF TimerFires, OneTick, roundVars
  <2>3. OneRoundEvent'
    BY <1>0, <1>3 DEF TimerFires, OneRoundEvent, roundVars
  <2>4. QED  BY <2>1, <2>2, <2>3 DEF Inv
<1>4. CASE ForwardTimer
  <2>0. timerChan + 1 \in Nat
    BY <1>0 DEF TypeOK
  <2>1a. fired' \in BOOLEAN /\ NotBeforeStart'
    BY <1>0, <1>4 DEF ForwardTimer, NotBeforeStart
  <2>1. TypeOK' /\ ~panicked' /\ NotBeforeStart'
    BY <1>0, <1>4, <2>0, <2>1a DEF ForwardTimer, TypeOK, roundVars
  <2>2. OneTick'
    BY <1>0, <1>4 DEF ForwardTimer, OneTick, roundVars
  <2>3. OneRoundEvent'
    BY <1>0, <1>4 DEF ForwardTimer, OneRoundEvent, roundVars
  <2>4. QED  BY <2>1, <2>2, <2>3 DEF Inv
<1>5. CASE Tick
  <2>0. curslot + 1 \in Slots /\ timerChan - 1 \in Nat
    BY <1>0, <1>5, ClockAssumption DEF Tick, TypeOK, Slots
  <2>1a. tockChan' \in SUBSET Slots
    BY <1>5, <1>0, <2>0 DEF Tick, TypeOK
  <2>1. TypeOK' /\ ~panicked' /\ NotBeforeStart'
    BY <1>0, <1>5, <2>0, <2>1a DEF Tick, TypeOK, NotBeforeStart, roundVars
  <2>2. OneTick'
    BY <1>0, <1>5 DEF Tick, OneTick, roundVars
  <2>3. OneRoundEvent'
    BY <1>0, <1>5 DEF Tick, OneRoundEvent, roundVars
  <2>4. QED  BY <2>1, <2>2, <2>3 DEF Inv
<1>6. ASSUME NEW s \in Slots, HandleTimeOut(s)
      PROVE  Inv'
  <2>0. /\ eventQ' \in Queues
        /\ \A u \in EventTypes, r \in Slots :
             eventQ'[u][r] = IF u = "NewSlot" /\ r = s THEN eventQ[u][r] + 1
                                                       ELSE eventQ[u][r]
    <3>1. "NewSlot" \in EventTypes
      BY DEF EventTypes
    <3>2. eventQ' = Sending(eventQ, "NewSlot", s)
      BY <1>6 DEF HandleTimeOut
    <3>3. QED  BY ONLY <1>0, <3>1, <3>2, s \in Slots, SendingCounts
  <2>1. TypeOK' /\ ~panicked' /\ NotBeforeStart'
    BY <1>0, <1>6, <2>0 DEF HandleTimeOut, TypeOK, NotBeforeStart, Queues, roundVars
  <2>2. s = curslot /\ OneTick'
    BY <1>0, <1>6, <2>0 DEF HandleTimeOut, OneTick, EventTypes, roundVars
  <2>3. OneRoundEvent'
    BY <1>0, <1>6, <2>0 DEF HandleTimeOut, OneRoundEvent, EventTypes, roundVars
  <2>4. QED  BY <2>1, <2>2, <2>3 DEF Inv
<1>7. ASSUME NEW s \in Slots, HandleNewSlot(s)
      PROVE  Inv'
  <2>0. s = curslot /\ CurSlot' = CurSlot + 1 /\ timerChan = 0 /\ tockChan = {}
    BY <1>0, <1>7 DEF HandleNewSlot, OneTick
  <2>1. /\ eventQ' \in Queues
        /\ \A u \in EventTypes, r \in Slots :
             eventQ'[u][r] =
                IF u = "NewSlot" /\ r = s THEN eventQ[u][r] - 1
                ELSE IF u = "Apply" /\ r = curslot THEN eventQ[u][r] + 1
                ELSE eventQ[u][r]
    <3> DEFINE q == Receiving(eventQ, "NewSlot", s)
    <3>1. /\ q \in Queues
          /\ \A u \in EventTypes, r \in Slots :
               q[u][r] = IF u = "NewSlot" /\ r = s THEN eventQ[u][r] - 1
                                                   ELSE eventQ[u][r]
      BY <1>0, <1>7, ReceivingCounts DEF HandleNewSlot, EventTypes
    <3>2. eventQ' = Sending(q, "Apply", curslot)
      BY <1>7 DEF HandleNewSlot
    <3>3. "Apply" \in EventTypes
      BY DEF EventTypes
    <3> HIDE DEF q
    <3>4. /\ Sending(q, "Apply", curslot) \in Queues
          /\ \A u \in EventTypes, r \in Slots :
               Sending(q, "Apply", curslot)[u][r] =
                   IF u = "Apply" /\ r = curslot THEN q[u][r] + 1 ELSE q[u][r]
      BY ONLY <1>0, <3>1, <3>3, SendingCounts
    <3>5. QED  BY ONLY <3>1, <3>2, <3>4
  <2>2. TypeOK' /\ ~panicked' /\ NotBeforeStart'
    BY <1>0, <1>7, <2>1 DEF HandleNewSlot, ResetClock, TypeOK, NotBeforeStart,
       Queues, Steps
  <2>3. OneTick'
    BY <1>0, <1>7, <2>0, <2>1 DEF HandleNewSlot, ResetClock, OneTick, EventTypes
  <2>4. OneRoundEvent'
    BY <1>0, <1>7, <2>0, <2>1, ClockAssumption
       DEF HandleNewSlot, OneRoundEvent, EventTypes, Slots
  <2>5. QED  BY <2>2, <2>3, <2>4 DEF Inv
<1>8. ASSUME NEW t \in EventTypes, NEW s \in Slots, HandleExpired(t, s)
      PROVE  Inv'
  <2>0. /\ eventQ' \in Queues
        /\ \A u \in EventTypes, r \in Slots :
             eventQ'[u][r] = IF u = t /\ r = s THEN eventQ[u][r] - 1
                                               ELSE eventQ[u][r]
    BY <1>0, <1>8, ReceivingCounts DEF HandleExpired
  <2>1. TypeOK' /\ ~panicked' /\ NotBeforeStart'
    BY <1>0, <1>8, <2>0 DEF HandleExpired, TypeOK, NotBeforeStart, Queues,
       clockVars, roundVars
  <2>2. OneTick'
    BY <1>0, <1>8, <2>0 DEF HandleExpired, OneTick, EventTypes, clockVars, roundVars
  <2>3. OneRoundEvent'
    <3>1. CurSlot' = CurSlot /\ Step' = Step /\ s # CurSlot /\ eventQ[t][s] > 0
      BY <1>8 DEF HandleExpired, roundVars
    <3>2. t = "Apply" \/ t = "Propose"
      BY <1>8 DEF HandleExpired, EventTypes
    <3>3. ~(s > CurSlot)
      BY <1>0, <3>1, <3>2 DEF OneRoundEvent
    <3>4. QED
      BY <1>0, <2>0, <3>1, <3>3 DEF OneRoundEvent, EventTypes
  <2>4. QED  BY <2>1, <2>2, <2>3 DEF Inv
<1>9. ASSUME NEW s \in Slots, HandleApply(s)
      PROVE  Inv'
  <2>0. s = CurSlot /\ Step = "Slot"
    BY <1>0, <1>9 DEF HandleApply, OneRoundEvent
  <2>1. /\ eventQ' \in Queues
        /\ \A u \in EventTypes, r \in Slots :
             eventQ'[u][r] =
                IF u = "Apply" /\ r = s THEN eventQ[u][r] - 1
                ELSE IF u = "Propose" /\ r = s THEN eventQ[u][r] + 1
                ELSE eventQ[u][r]
    <3> DEFINE q == Receiving(eventQ, "Apply", s)
    <3>1. /\ q \in Queues
          /\ \A u \in EventTypes, r \in Slots :
               q[u][r] = IF u = "Apply" /\ r = s THEN eventQ[u][r] - 1
                                                 ELSE eventQ[u][r]
      BY <1>0, <1>9, ReceivingCounts DEF HandleApply, EventTypes
    <3>2. eventQ' = Sending(q, "Propose", s)
      BY <1>9, <2>0 DEF HandleApply
    <3>3. "Propose" \in EventTypes
      BY DEF EventTypes
    <3> HIDE DEF q
    <3>4. /\ Sending(q, "Propose", s) \in Queues
          /\ \A u \in EventTypes, r \in Slots :
               Sending(q, "Propose", s)[u][r] =
                   IF u = "Propose" /\ r = s THEN q[u][r] + 1 ELSE q[u][r]
      BY ONLY <1>9, <3>1, <3>3, SendingCounts
    <3>5. QED  BY ONLY <3>1, <3>2, <3>4
  <2>2. TypeOK' /\ ~panicked' /\ NotBeforeStart'
    BY <1>0, <1>9, <2>0, <2>1 DEF HandleApply, TypeOK, NotBeforeStart, Queues,
       Steps, clockVars
  <2>3. OneTick'
    BY <1>0, <1>9, <2>1 DEF HandleApply, OneTick, EventTypes, clockVars
  <2>4. OneRoundEvent'
    BY <1>0, <1>9, <2>0, <2>1 DEF HandleApply, OneRoundEvent, EventTypes, Slots
  <2>5. QED  BY <2>2, <2>3, <2>4 DEF Inv
<1>10. ASSUME NEW s \in Slots, HandlePropose(s)
       PROVE  Inv'
  <2>0. s = CurSlot /\ Step = "Apply"
    BY <1>0, <1>10 DEF HandlePropose, OneRoundEvent
  <2>1. /\ eventQ' \in Queues
        /\ \A u \in EventTypes, r \in Slots :
             eventQ'[u][r] = IF u = "Propose" /\ r = s THEN eventQ[u][r] - 1
                                                       ELSE eventQ[u][r]
    BY <1>0, <1>10, ReceivingCounts DEF HandlePropose, EventTypes
  <2>2. TypeOK' /\ ~panicked' /\ NotBeforeStart'
    BY <1>0, <1>10, <2>0, <2>1 DEF HandlePropose, TypeOK, NotBeforeStart, Queues,
       Steps, clockVars
  <2>3. OneTick'
    BY <1>0, <1>10, <2>1 DEF HandlePropose, OneTick, EventTypes, clockVars
  <2>4. OneRoundEvent'
    BY <1>0, <1>10, <2>0, <2>1 DEF HandlePropose, OneRoundEvent, EventTypes, Slots
  <2>5. QED  BY <2>2, <2>3, <2>4 DEF Inv
<1>11. CASE UNCHANGED vars
  <2>1. TypeOK' /\ ~panicked' /\ NotBeforeStart'
    BY <1>0, <1>11 DEF vars, TypeOK, NotBeforeStart
  <2>2. OneTick' /\ OneRoundEvent'
    BY <1>0, <1>11 DEF vars, OneTick, OneRoundEvent
  <2>3. QED  BY <2>1, <2>2 DEF Inv
<1>12. QED
  BY <1>1, <1>2, <1>3, <1>4, <1>5, <1>6, <1>7, <1>8, <1>9, <1>10, <1>11
     DEF Next, AtBound

\* No schedule of the clock goroutine, of the event senders and of the handlers
\* breaks the type invariant or the conservation of ticks and events, or reaches
\* a wrong-step panic.
THEOREM ClockSafety ==
    ASSUME LateStart = FALSE
    PROVE  Spec => [](TypeOK /\ NoPanic /\ OneTick /\ OneRoundEvent)
<1>1. Inv => TypeOK /\ NoPanic /\ OneTick /\ OneRoundEvent
  BY DEF Inv
<1>2. Inv /\ [Next]_vars => Inv'
  BY NextInv
<1>3. QED
  BY InitInv, <1>1, <1>2, PTL DEF Spec

\* enterApply and enterPropose are only called in the step they expect.
THEOREM ClockNoPanic ==
    ASSUME LateStart = FALSE
    PROVE  Spec => []NoPanic
BY ClockSafety, PTL

\* A slot has one round event at a time.
THEOREM ClockOneRoundEvent ==
    ASSUME LateStart = FALSE
    PROVE  Spec => []OneRoundEvent
BY ClockSafety, PTL

\* A step of the clock or of a handler is a step of RoundSteps or leaves the
\* round state alone.
LEMMA NextRefines ==
    ASSUME Inv, [Next]_vars
    PROVE  [Round!Next]_(Round!vars)
<1>0. /\ TypeOK /\ ~panicked /\ OneTick /\ OneRoundEvent
      /\ CurSlot \in Nat /\ curslot \in Nat /\ curslot <= MaxSlot /\ MaxSlot \in Nat
  BY ClockAssumption DEF Inv, TypeOK, NoPanic, Slots
<1> USE DEF Round!vars
<1>1. ASSUME NEW s \in Slots, HandleNewSlot(s)
      PROVE  Round!NewSlot
  <2>1. curslot = CurSlot + 1
    BY <1>0, <1>1 DEF HandleNewSlot, OneTick
  <2>2. QED
    BY <1>0, <1>1, <2>1 DEF HandleNewSlot, Round!NewSlot
<1>2. ASSUME NEW s \in Slots, HandleApply(s)
      PROVE  Round!Apply
  BY <1>0, <1>2 DEF HandleApply, OneRoundEvent, Round!Apply
<1>3. ASSUME NEW s \in Slots, HandlePropose(s)
      PROVE  Round!Propose
  BY <1>0, <1>3 DEF HandlePropose, OneRoundEvent, Round!Propose
<1>4. CASE UNCHANGED roundVars
  BY <1>4 DEF roundVars
<1>5. QED
  BY <1>1, <1>2, <1>3, <1>4 DEF Next, Round!Next, StartRoutines, SetStartTime,
     TimerFires, ForwardTimer, Tick, HandleTimeOut, HandleExpired, AtBound, vars,
     roundVars

\* The clock, the queues and the handlers implement RoundSteps.
THEOREM ClockRefinement ==
    ASSUME LateStart = FALSE
    PROVE  Spec => ImplementsRoundSteps
<1>1. Init => Round!Init
  BY DEF Init, Round!Init
<1>2. Inv /\ [Next]_vars => Inv'
  BY NextInv
<1>3. Inv /\ [Next]_vars => [Round!Next]_(Round!vars)
  BY NextRefines
<1>4. QED
  BY InitInv, <1>1, <1>2, <1>3, PTL DEF Spec, ImplementsRoundSteps, Round!Spec
=============================================================================

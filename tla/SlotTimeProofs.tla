--------------------------- MODULE SlotTimeProofs ---------------------------
(***************************************************************************)
(* Proofs about SlotTime, for any number of nodes, any slot length, any    *)
(* delay and any readings at the start.                                    *)
(*                                                                         *)
(* The invariant ties the three places that hold a time to the start times *)
(* of the nodes: the timer, the start of the current slot, and the start   *)
(* times that travel in proposals.  As a node may be moved into the count  *)
(* of another, each lies between the counts of two nodes.                  *)
(***************************************************************************)
EXTENDS SlotTime, TLAPS

\* The start of slot s without any delay, for a node that read t in OnStart.
IdealStart(t, s) == StartTime(t) + (s - 1) * SlotTimeOut

\* The length of k slots.
Span(k) == k * SlotTimeOut

\* Some node would have started slot s at x or before.
NotEarly(x, s) == \E p \in Started : x >= IdealStart(boot[p], s)

\* With l delays, some node would have started slot s at x or after.
NotLate(x, s, l) == \E p \in Started : x <= IdealStart(boot[p], s) + l * Jitter

Within(x, s, l) == NotEarly(x, s) /\ NotLate(x, s, l)

\* Before its first slot a node waits for the start time that OnStart computed.
BeforeFirst ==
    \A n \in Nodes : CurSlot[n] = 0 =>
        /\ late[n] = 0
        /\ boot[n] # NotStarted => timer[n] = StartTime(boot[n])

\* In a slot the timer is set to its end, and the slot is not entered early.
InSlot ==
    \A n \in Nodes : CurSlot[n] > 0 =>
        /\ boot[n] # NotStarted
        /\ timer[n] = curSlotStartTime[n] + SlotTimeOut
        /\ Within(curSlotStartTime[n], CurSlot[n], late[n])
        /\ NotEarly(now, CurSlot[n])

\* A timer has not been due for longer than Jitter.
NotOverdue ==
    \A n \in Nodes : boot[n] # NotStarted /\ CurSlot[n] < MaxSlot => now <= timer[n] + Jitter

\* The start time in a proposal is as good as that of its proposer was.
BlockTimes ==
    \A s \in Slots : blocks[s] # NoBlock =>
        /\ blocks[s].slot = s
        /\ Within(blocks[s].SlotStartTime, s, blocks[s].late)

Inv == TypeOK /\ BeforeFirst /\ InSlot /\ NotOverdue /\ BlockTimes

\* Arithmetic: products over sums.
LEMMA Distribute ==
    ASSUME NEW a \in Int, NEW b \in Int, NEW c \in Int
    PROVE  (a + b) * c = a * c + b * c /\ (a - b) * c = a * c - b * c
  OBVIOUS

\* Arithmetic: a product of naturals is a natural.
LEMMA NatTimes ==
    ASSUME NEW a \in Nat, NEW b \in Nat
    PROVE  a * b \in Nat
  OBVIOUS

\* Arithmetic: a multiple of c that is below c is not positive.
LEMMA LessThanOne ==
    ASSUME NEW k \in Int, NEW c \in Nat \ {0}, NEW x \in Int, x < c, k * c <= x
    PROVE  k <= 0
<1>1. SUFFICES ASSUME k >= 1 PROVE FALSE
  OBVIOUS
<1>2. PICK j \in Nat : k = j + 1
  BY <1>1
<1>3. k * c = j * c + 1 * c
  BY <1>2, Distribute
<1>4. j * c \in Nat
  BY NatTimes
<1> QED
  BY <1>3, <1>4

\* Rounding up to a multiple of c does not lead back in time.
LEMMA CeilReached ==
    ASSUME NEW t \in Nat, NEW c \in Nat \ {0}
    PROVE  /\ (t + c - 1) \div c \in Nat
           /\ ((t + c - 1) \div c) * c >= t
  OBVIOUS

\* The start time that OnStart computes is not in the past.
LEMMA StartTimeReached ==
    ASSUME NEW t \in Nat
    PROVE  StartTime(t) \in Nat /\ StartTime(t) >= t
<1>1. Ceil(t) \in Nat /\ Ceil(t) * SlotTimeOut >= t
  BY CeilReached, TimeAssumption DEF Ceil
<1>2. StartTime(t) = Ceil(t) * SlotTimeOut + Slotdiffs * SlotTimeOut
  BY <1>1, Distribute, TimeAssumption DEF StartTime
<1>3. Ceil(t) * SlotTimeOut \in Nat /\ Slotdiffs * SlotTimeOut \in Nat
  BY <1>1, NatTimes, TimeAssumption
<1> QED
  BY <1>1, <1>2, <1>3

\* Without delay slots follow each other at intervals of SlotTimeOut.
LEMMA IdealMove ==
    ASSUME NEW t \in Nat, NEW s \in Nat, NEW r \in Nat, NEW k \in Int, k = r - s
    PROVE  /\ IdealStart(t, s) \in Int /\ IdealStart(t, r) \in Int
           /\ IdealStart(t, s) + Span(k) = IdealStart(t, r)
<1>1. StartTime(t) \in Nat
  BY StartTimeReached
<1>2. (r - 1) * SlotTimeOut = (s - 1) * SlotTimeOut + k * SlotTimeOut
  BY Distribute, TimeAssumption
<1>3. (s - 1) * SlotTimeOut \in Int /\ k * SlotTimeOut \in Int
  BY TimeAssumption
<1> QED
  BY <1>1, <1>2, <1>3, TimeAssumption DEF IdealStart, Span

\* The first slot starts at the start time, the next one SlotTimeOut later.
LEMMA IdealStep ==
    ASSUME NEW t \in Nat, NEW s \in Nat
    PROVE  /\ IdealStart(t, s) \in Int
           /\ IdealStart(t, s + 1) = IdealStart(t, s) + SlotTimeOut
           /\ IdealStart(t, 1) = StartTime(t)
<1>1. StartTime(t) \in Nat
  BY StartTimeReached
<1>2. (s + 1 - 1) * SlotTimeOut = (s - 1) * SlotTimeOut + 1 * SlotTimeOut
  BY Distribute, TimeAssumption
<1>3. (1 - 1) * SlotTimeOut = 0 /\ (s - 1) * SlotTimeOut \in Int
  BY TimeAssumption
<1> QED
  BY <1>1, <1>2, <1>3, TimeAssumption DEF IdealStart

\* reviseSlotTime moves a start time by the slots between.
LEMMA RevisedSpan ==
    ASSUME NEW b, b.SlotStartTime \in Nat, b.slot \in Nat, NEW r \in Nat, NEW k \in Int, k = r - b.slot
    PROVE  RevisedStart(b, r) = b.SlotStartTime + Span(k)
  BY TimeAssumption DEF RevisedStart, Span

\* Without delay a slot starts at a multiple of SlotTimeOut.
LEMMA IdealInSlots ==
    ASSUME NEW t \in Nat, NEW s \in Nat
    PROVE  /\ Ceil(t) \in Nat
           /\ IdealStart(t, s) = (Ceil(t) + Slotdiffs + (s - 1)) * SlotTimeOut
<1>1. Ceil(t) \in Nat
  BY CeilReached, TimeAssumption DEF Ceil
<1>2. Ceil(t) + Slotdiffs \in Int /\ s - 1 \in Int /\ SlotTimeOut \in Int
  BY <1>1, TimeAssumption
<1>3. ((Ceil(t) + Slotdiffs) + (s - 1)) * SlotTimeOut
         = (Ceil(t) + Slotdiffs) * SlotTimeOut + (s - 1) * SlotTimeOut
  BY <1>2, Distribute
<1> QED
  BY <1>1, <1>3 DEF IdealStart, StartTime

\* A time that is not early in one slot is not early in another, moved by the
\* slots between.
LEMMA ShiftEarly ==
    ASSUME TypeOK, NEW x \in Int, NEW y \in Int, NEW s \in Nat, NEW r \in Nat,
           NEW k \in Int, k = r - s, y >= x + Span(k), NotEarly(x, s)
    PROVE  NotEarly(y, r)
<1>1. PICK p \in Started : x >= IdealStart(boot[p], s)
  BY DEF NotEarly
<1>2. boot[p] \in Nat
  BY DEF Started, TypeOK
<1> DEFINE t == boot[p]
<1>3. /\ IdealStart(t, s) \in Int /\ IdealStart(t, r) \in Int
      /\ IdealStart(t, s) + Span(k) = IdealStart(t, r)
  BY ONLY <1>2, s \in Nat, r \in Nat, k \in Int, k = r - s, IdealMove, SMTT(20)
<1> HIDE DEF t
<1>4. Span(k) \in Int
  BY TimeAssumption DEF Span
<1>5. y >= IdealStart(t, r)
  BY <1>1, <1>3, <1>4 DEF t
<1> QED
  BY <1>5 DEF NotEarly, t

\* The same for a time that is not late, when delays of d have been added.
LEMMA ShiftLate ==
    ASSUME TypeOK, NEW x \in Int, NEW y \in Int, NEW s \in Nat, NEW r \in Nat,
           NEW k \in Int, k = r - s, NEW l \in Nat, NEW l2 \in Nat, NEW d \in Nat,
           l2 * Jitter = l * Jitter + d, y <= x + Span(k) + d, NotLate(x, s, l)
    PROVE  NotLate(y, r, l2)
<1>1. PICK p \in Started : x <= IdealStart(boot[p], s) + l * Jitter
  BY DEF NotLate
<1>2. boot[p] \in Nat
  BY DEF Started, TypeOK
<1> DEFINE t == boot[p]
<1>3. /\ IdealStart(t, s) \in Int /\ IdealStart(t, r) \in Int
      /\ IdealStart(t, s) + Span(k) = IdealStart(t, r)
  BY ONLY <1>2, s \in Nat, r \in Nat, k \in Int, k = r - s, IdealMove, SMTT(20)
<1> HIDE DEF t
<1>4. Span(k) \in Int /\ l * Jitter \in Nat
  BY NatTimes, TimeAssumption DEF Span
<1> DEFINE a == l * Jitter
           e == l2 * Jitter
<1>5. a \in Nat /\ e = a + d /\ x <= IdealStart(t, s) + a
  BY <1>1, <1>4 DEF t
<1> HIDE DEF a, e
<1>6. y <= IdealStart(t, r) + e
  BY <1>3, <1>4, <1>5
<1> QED
  BY <1>6 DEF NotLate, t, e

\* Nodes that start later take nothing away.
LEMMA WithinStays ==
    ASSUME \A p \in Started : p \in Started' /\ boot'[p] = boot[p]
    PROVE  /\ \A x, s : NotEarly(x, s) => NotEarly(x, s)'
           /\ \A x, s, l : Within(x, s, l) => Within(x, s, l)'
  BY DEF NotEarly, NotLate, Within, IdealStart, StartTime, Ceil

\* Init establishes the invariant.
LEMMA InitInv == Init => Inv
<1> SUFFICES ASSUME Init PROVE Inv
  OBVIOUS
<1>0. 0 \in Slots
  BY TimeAssumption DEF Slots
<1>1. TypeOK
  BY <1>0 DEF Init, TypeOK
<1>2. BeforeFirst /\ InSlot /\ NotOverdue
  BY DEF Init, BeforeFirst, InSlot, NotOverdue
<1>3. BlockTimes
  BY DEF Init, BlockTimes
<1> QED
  BY <1>1, <1>2, <1>3 DEF Inv

\* The timer of a node is within the counts of the nodes for its next slot.
LEMMA TimerIdeal ==
    ASSUME Inv, NEW n \in Nodes, boot[n] # NotStarted
    PROVE  Within(timer[n], CurSlot[n] + 1, late[n])
<1> DEFINE c == CurSlot[n]
           x == curSlotStartTime[n]
<1>1. /\ TypeOK /\ c \in Nat /\ boot[n] \in Nat /\ timer[n] \in Nat /\ x \in Nat /\ late[n] \in Nat
      /\ SlotTimeOut \in Nat /\ Jitter \in Nat
  BY TimeAssumption DEF Inv, TypeOK, Slots, NotStarted
<1>2. CASE c = 0
  <2>1. timer[n] = StartTime(boot[n]) /\ late[n] = 0
    BY <1>2 DEF Inv, BeforeFirst
  <2>2. IdealStart(boot[n], c + 1) = StartTime(boot[n]) /\ StartTime(boot[n]) \in Nat
    <3>1. c + 1 = 1 /\ 1 \in Nat
      BY <1>2
    <3> HIDE DEF c
    <3> QED  BY <1>1, <3>1, IdealStep, StartTimeReached, Zenon
  <2>3. n \in Started
    BY DEF Started
  <2>4. timer[n] >= IdealStart(boot[n], c + 1)
        /\ timer[n] <= IdealStart(boot[n], c + 1) + late[n] * Jitter
    <3>1. late[n] * Jitter = 0
      BY <1>1, <2>1
    <3> HIDE DEF c
    <3> QED  BY <1>1, <2>1, <2>2, <3>1
  <2> QED  BY <2>3, <2>4 DEF Within, NotEarly, NotLate
<1>3. CASE c > 0
  <2>1. timer[n] = x + SlotTimeOut /\ NotEarly(x, c) /\ NotLate(x, c, late[n])
    BY <1>3 DEF Inv, InSlot, Within
  <2> DEFINE r == c + 1
  <2>2. r \in Nat /\ 1 = r - c /\ 1 \in Int /\ Span(1) = SlotTimeOut /\ 0 \in Nat
        /\ late[n] * Jitter = late[n] * Jitter + 0
    BY <1>1, NatTimes DEF Span
  <2> HIDE DEF c, x, r
  <2>3. timer[n] >= x + Span(1) /\ timer[n] <= x + Span(1) + 0
    BY <1>1, <2>1, <2>2
  <2>4. x \in Int /\ timer[n] \in Int
    BY <1>1
  <2>5. NotEarly(timer[n], r)
    BY <1>1, <2>1, <2>2, <2>3, <2>4, ShiftEarly, Zenon
  <2>6. NotLate(timer[n], r, late[n])
    BY <1>1, <2>1, <2>2, <2>3, <2>4, ShiftLate, Zenon
  <2> QED  BY <2>5, <2>6 DEF Within, r, c
<1> QED
  BY <1>1, <1>2, <1>3

\* enterNewSlot does not enter a slot early, and both ways to set
\* curSlotStartTime keep it within the delays counted so far.
LEMMA NewSlotTimes ==
    ASSUME Inv, NEW n \in Nodes, NEW b \in LastCommited(n), EnterNewSlot(n, b)
    PROVE  /\ NewStart(b, CurSlot[n] + 1) \in Nat
           /\ NotEarly(now, CurSlot[n] + 1)
           /\ now <= NewStart(b, CurSlot[n] + 1) + SlotTimeOut
           /\ late'[n] \in Nat
           /\ Within(NewStart(b, CurSlot[n] + 1), CurSlot[n] + 1, late'[n])
<1> DEFINE c == CurSlot[n]
           r == c + 1
           x == NewStart(b, r)
<1>1. /\ TypeOK /\ now \in Nat /\ c \in Nat /\ r \in Nat /\ timer[n] \in Nat /\ late[n] \in Nat
      /\ now >= timer[n] /\ now <= timer[n] + Jitter
      /\ SlotTimeOut \in Nat /\ Jitter \in Nat
  <2>1. /\ TypeOK /\ c \in Nat /\ timer[n] \in Nat /\ late[n] \in Nat
        /\ SlotTimeOut \in Nat /\ Jitter \in Nat
    BY TimeAssumption DEF Inv, TypeOK, Slots
  <2>2. now \in Nat /\ now >= timer[n] /\ now <= timer[n] + Jitter
    BY DEF Inv, TypeOK, NotOverdue, EnterNewSlot, NotStarted
  <2> QED  BY <2>1, <2>2
<1>2. late'[n] = IF Revises(b, r) THEN b.late ELSE late[n] + 1
  BY DEF EnterNewSlot, Inv, TypeOK
<1>3. NotEarly(timer[n], r) /\ NotLate(timer[n], r, late[n])
  BY TimerIdeal DEF EnterNewSlot, Within
<1>4. /\ 0 = r - r /\ 0 \in Int /\ Span(0) = 0 /\ late[n] + 1 \in Nat
      /\ (late[n] + 1) * Jitter = late[n] * Jitter + Jitter
  <2>1. (late[n] + 1) * Jitter = late[n] * Jitter + 1 * Jitter
    BY <1>1, Distribute
  <2> QED  BY <1>1, <2>1 DEF Span
<1>5. NotEarly(now, r) /\ NotLate(now, r, late[n] + 1)
  <2>1. now \in Int /\ timer[n] \in Int /\ now >= timer[n] + Span(0)
        /\ now <= timer[n] + Span(0) + Jitter
    BY <1>1, <1>4
  <2> HIDE DEF r
  <2>2. NotEarly(now, r)
    BY <1>1, <1>3, <1>4, <2>1, ShiftEarly, Zenon
  <2> DEFINE l == late[n] + 1
  <2>3. l \in Nat /\ l * Jitter = late[n] * Jitter + Jitter
    BY <1>4
  <2> HIDE DEF l
  <2>4. NotLate(now, r, l)
    BY <1>1, <1>3, <1>4, <2>1, <2>3, ShiftLate, Zenon
  <2> QED  BY <2>2, <2>4 DEF l
<1>6. CASE Revises(b, r)
  <2>1. PICK s \in known[n] : b = blocks[s]
    BY <1>6 DEF Revises, LastCommited
  <2>2. s \in Slots /\ s \in Nat /\ b # NoBlock
    BY <1>6, <2>1, TimeAssumption DEF Inv, TypeOK, Slots, Revises
  <2>3. b.slot = s /\ NotEarly(b.SlotStartTime, s) /\ NotLate(b.SlotStartTime, s, b.late)
    BY <2>1, <2>2 DEF Inv, BlockTimes, Within
  <2>4. b.SlotStartTime \in Nat /\ b.late \in Nat
    BY <2>1, <2>2 DEF Inv, TypeOK, Block
  <2> DEFINE k == r - s
  <2>5. k \in Nat /\ k \in Int /\ k = r - s /\ k = r - b.slot
    BY <1>1, <1>6, <2>2, <2>3 DEF Revises
  <2>6. Span(k) \in Nat
    BY <1>1, <2>5, NatTimes DEF Span
  <2> HIDE DEF k, r
  <2>7. x = b.SlotStartTime + Span(k)
    <3>1. x = RevisedStart(b, r)
      BY <1>6 DEF NewStart
    <3> QED  BY <1>1, <2>2, <2>3, <2>4, <2>5, <3>1, RevisedSpan
  <2>8. now <= x + SlotTimeOut
    BY <1>6 DEF NewStart, Revises
  <2> HIDE DEF x
  <2>9. /\ x \in Nat /\ x \in Int /\ b.SlotStartTime \in Int
        /\ x >= b.SlotStartTime + Span(k) /\ x <= b.SlotStartTime + Span(k) + 0
        /\ 0 \in Nat /\ b.late * Jitter = b.late * Jitter + 0
    BY <1>1, <2>4, <2>6, <2>7, NatTimes
  <2>10. NotEarly(x, r)
    BY <1>1, <2>2, <2>3, <2>5, <2>9, ShiftEarly, Zenon
  <2>11. NotLate(x, r, b.late)
    BY <1>1, <2>2, <2>3, <2>4, <2>5, <2>9, ShiftLate, Zenon
  <2> QED  BY <1>2, <1>5, <1>6, <2>4, <2>8, <2>9, <2>10, <2>11 DEF Within, x, r
<1>7. CASE ~Revises(b, r)
  <2>1. x = now /\ late'[n] = late[n] + 1
    BY <1>2, <1>7 DEF NewStart
  <2> QED  BY <1>1, <1>4, <1>5, <2>1 DEF Within
<1> QED
  BY <1>6, <1>7

\* Every step preserves the invariant.
LEMMA NextInv ==
    ASSUME Inv, [Next]_vars
    PROVE  Inv'
<1>0. TypeOK /\ BeforeFirst /\ InSlot /\ NotOverdue /\ BlockTimes
  BY DEF Inv
<1>1. ASSUME NEW n \in Nodes, OnStart(n) PROVE Inv'
  <2>1. now \in Nat /\ boot[n] = NotStarted /\ CurSlot[n] = 0 /\ StartTime(now) \in Nat /\ StartTime(now) >= now
    <3>1. now \in Nat /\ boot[n] = NotStarted
      BY <1>0, <1>1 DEF OnStart, TypeOK
    <3>2. CurSlot[n] = 0
      BY <1>0, <3>1, TimeAssumption DEF InSlot, TypeOK, Slots
    <3> QED  BY <3>1, <3>2, StartTimeReached
  <2>2. \A p \in Started : p \in Started' /\ boot'[p] = boot[p]
    BY <1>0, <1>1, <2>1 DEF OnStart, TypeOK, Started
  <2>3. TypeOK'
    BY <1>0, <1>1, <2>1 DEF OnStart, TypeOK
  <2>4. BeforeFirst'
    BY <1>0, <1>1, <2>1 DEF OnStart, TypeOK, BeforeFirst
  <2>5. InSlot'
    <3>1. \A m \in Nodes : CurSlot[m] > 0 => m # n /\ boot'[m] = boot[m] /\ timer'[m] = timer[m]
      BY <1>0, <1>1, <2>1 DEF OnStart, TypeOK
    <3>2. UNCHANGED <<now, CurSlot, curSlotStartTime, late>>
      BY <1>1 DEF OnStart
    <3> QED  BY <1>0, <2>2, <3>1, <3>2, WithinStays DEF InSlot
  <2>6. NotOverdue'
    BY <1>0, <1>1, <2>1, TimeAssumption DEF OnStart, TypeOK, NotOverdue
  <2>7. BlockTimes'
    BY <1>0, <1>1, <2>2, WithinStays DEF OnStart, BlockTimes
  <2> QED  BY <2>3, <2>4, <2>5, <2>6, <2>7 DEF Inv
<1>2. ASSUME NEW n \in Nodes, NEW b \in LastCommited(n), EnterNewSlot(n, b) PROVE Inv'
  <2> DEFINE x == NewStart(b, CurSlot[n] + 1)
  <2>1. /\ x \in Nat /\ late'[n] \in Nat
        /\ NotEarly(now, CurSlot[n] + 1) /\ now <= x + SlotTimeOut
        /\ Within(x, CurSlot[n] + 1, late'[n])
    BY <1>2, NewSlotTimes
  <2>2. /\ CurSlot' = [CurSlot EXCEPT ![n] = CurSlot[n] + 1]
        /\ curSlotStartTime' = [curSlotStartTime EXCEPT ![n] = x]
        /\ timer' = [timer EXCEPT ![n] = x + SlotTimeOut]
        /\ late' = [late EXCEPT ![n] = late'[n]]
        /\ known' = [known EXCEPT ![n] = Known(n)]
        /\ UNCHANGED <<now, boot, blocks>>
        /\ boot[n] # NotStarted
        /\ CurSlot[n] + 1 \in Slots /\ CurSlot[n] \in Nat
    BY <1>0, <1>2, TimeAssumption DEF EnterNewSlot, TypeOK, Slots
  <2>3. \A p \in Started : p \in Started' /\ boot'[p] = boot[p]
    BY <2>2 DEF Started
  <2> HIDE DEF x
  <2>4. TypeOK'
    <3>1. Known(n) \in SUBSET Slots
      BY <1>0 DEF TypeOK, Known
    <3> QED  BY <1>0, <2>1, <2>2, <3>1, TimeAssumption DEF TypeOK
  <2>5. BeforeFirst'
    BY <1>0, <2>1, <2>2 DEF TypeOK, BeforeFirst
  <2>6. InSlot'
    <3>1. /\ CurSlot'[n] = CurSlot[n] + 1 /\ curSlotStartTime'[n] = x
          /\ timer'[n] = x + SlotTimeOut
          /\ now' = now /\ boot' = boot
      BY <1>0, <2>2 DEF TypeOK
    <3>2. \A m \in Nodes \ {n} : /\ CurSlot'[m] = CurSlot[m] /\ timer'[m] = timer[m]
                                 /\ curSlotStartTime'[m] = curSlotStartTime[m]
                                 /\ late'[m] = late[m]
      BY <1>0, <2>2 DEF TypeOK
    <3> QED  BY <1>0, <2>1, <2>2, <2>3, <3>1, <3>2, WithinStays DEF InSlot
  <2>7. NotOverdue'
    BY <1>0, <2>1, <2>2, TimeAssumption DEF TypeOK, NotOverdue
  <2>8. BlockTimes'
    BY <1>0, <2>2, <2>3, WithinStays DEF BlockTimes
  <2> QED  BY <2>4, <2>5, <2>6, <2>7, <2>8 DEF Inv
<1>3. ASSUME NEW n \in Nodes, Propose(n) PROVE Inv'
  <2>1. /\ CurSlot[n] \in Slots /\ boot[n] # NotStarted
        /\ curSlotStartTime[n] \in Nat /\ late[n] \in Nat
        /\ Within(curSlotStartTime[n], CurSlot[n], late[n])
    BY <1>0, <1>3 DEF Propose, TypeOK, InSlot
  <2>2. \A p \in Started : p \in Started' /\ boot'[p] = boot[p]
    BY <1>3 DEF Propose, Started
  <2>3. TypeOK'
    BY <1>0, <1>3, <2>1 DEF Propose, TypeOK, Block
  <2>4. BeforeFirst' /\ NotOverdue'
    BY <1>0, <1>3 DEF Propose, BeforeFirst, NotOverdue
  <2>5. InSlot'
    BY <1>0, <1>3, <2>2, WithinStays DEF Propose, InSlot
  <2>6. BlockTimes'
    <3>1. \A s \in Slots \ {CurSlot[n]} : blocks'[s] = blocks[s]
      BY <1>0, <1>3 DEF Propose, TypeOK
    <3>2. blocks'[CurSlot[n]] = [slot |-> CurSlot[n], SlotStartTime |-> curSlotStartTime[n],
                                 late |-> late[n]]
      BY <1>0, <1>3, <2>1 DEF Propose, TypeOK
    <3> QED  BY <1>0, <2>1, <2>2, <3>1, <3>2, WithinStays DEF BlockTimes
  <2> QED  BY <2>3, <2>4, <2>5, <2>6 DEF Inv
<1>4. CASE Tick
  <2>1. now \in Nat /\ now' = now + 1
        /\ UNCHANGED <<boot, timer, CurSlot, curSlotStartTime, late, blocks, known>>
    BY <1>0, <1>4 DEF Tick, TypeOK
  <2>2. \A p \in Started : p \in Started' /\ boot'[p] = boot[p]
    BY <2>1 DEF Started
  <2>3. TypeOK'
    BY <1>0, <2>1 DEF TypeOK
  <2>4. BeforeFirst' /\ BlockTimes'
    BY <1>0, <2>1, <2>2, WithinStays DEF BeforeFirst, BlockTimes
  <2>5. InSlot'
    <3>1. ASSUME NEW n \in Nodes, CurSlot[n] > 0 PROVE NotEarly(now + 1, CurSlot[n])
      <4>1. NotEarly(now, CurSlot[n]) /\ CurSlot[n] \in Nat /\ now \in Int /\ now + 1 \in Int
        BY <1>0, <2>1, <3>1, TimeAssumption DEF InSlot, TypeOK, Slots
      <4>2. 0 = CurSlot[n] - CurSlot[n] /\ 0 \in Int /\ now + 1 >= now + Span(0)
        BY <2>1, <4>1, TimeAssumption DEF Span
      <4> QED  BY <1>0, <4>1, <4>2, ShiftEarly, Zenon
    <3> QED  BY <1>0, <2>1, <2>2, <3>1, WithinStays DEF InSlot
  <2>6. NotOverdue'
    BY <1>0, <1>4, <2>1, TimeAssumption DEF Tick, TypeOK, NotOverdue
  <2> QED  BY <2>3, <2>4, <2>5, <2>6 DEF Inv
<1>5. CASE UNCHANGED vars
  <2>1. \A p \in Started : p \in Started' /\ boot'[p] = boot[p]
    BY <1>5 DEF vars, Started
  <2> QED
    BY <1>0, <1>5, <2>1, WithinStays
    DEF vars, Inv, TypeOK, BeforeFirst, InSlot, NotOverdue, BlockTimes
<1> QED
  BY <1>1, <1>2, <1>3, <1>4, <1>5 DEF Next

\* The invariant bounds the start times of the current slots, and a node that
\* is not late by a slot cannot be left behind: the others have not been in
\* their slot before it was due, and its own timer is not overdue.
LEMMA InvImplies == Inv => DriftBounded /\ InStep
<1> SUFFICES ASSUME Inv PROVE DriftBounded /\ InStep
  OBVIOUS
<1>1. DriftBounded
  BY DEF Inv, InSlot, DriftBounded, Within, NotEarly, NotLate, Ideal, IdealStart
<1>2. InStep
  <2> SUFFICES ASSUME NEW n \in Started, NEW m \in Started,
                      (late[n] + 1) * Jitter < SlotTimeOut
               PROVE  \E p, q \in Started :
                         CurSlot[m] <= CurSlot[n] + 1 + (Ceil(boot[q]) - Ceil(boot[p]))
    BY DEF InStep
  <2> DEFINE c == CurSlot[n]
             d == CurSlot[m]
             r == c + 1
  <2>0. n \in Nodes /\ m \in Nodes /\ boot[n] # NotStarted
    BY DEF Started
  <2>1. /\ now \in Nat /\ c \in Nat /\ d \in Nat /\ r \in Nat /\ d <= MaxSlot /\ late[n] \in Nat
        /\ timer[n] \in Nat /\ SlotTimeOut \in Nat \ {0} /\ Jitter \in Nat
    BY SMTT(20), <2>0, TimeAssumption DEF Inv, TypeOK, Slots
  <2>2. \A p \in Started : boot[p] \in Nat /\ Ceil(boot[p]) \in Nat
    <3>1. \A p \in Started : boot[p] \in Nat
      BY DEF Inv, TypeOK, Started
    <3> QED  BY <3>1, CeilReached, TimeAssumption DEF Ceil
  <2>3. CASE d = 0 \/ c >= MaxSlot
    <3>1. CurSlot[m] <= CurSlot[n] + 1 + (Ceil(boot[n]) - Ceil(boot[n]))
      BY <2>1, <2>2, <2>3, TimeAssumption
    <3> QED  BY <3>1
  <2>4. CASE d > 0 /\ c < MaxSlot
    <3>1. NotEarly(now, d) /\ now <= timer[n] + Jitter
      BY <2>0, <2>4 DEF Inv, InSlot, NotOverdue
    <3>2. NotLate(timer[n], r, late[n])
      BY <2>0, TimerIdeal DEF Within
    <3>3. PICK p \in Started : now >= IdealStart(boot[p], d)
      BY <3>1 DEF NotEarly
    <3>4. PICK q \in Started : timer[n] <= IdealStart(boot[q], r) + late[n] * Jitter
      BY <3>2 DEF NotLate
    <3> DEFINE u == Ceil(boot[p]) + Slotdiffs + (d - 1)
               v == Ceil(boot[q]) + Slotdiffs + (r - 1)
               e == u - v
               j == (late[n] + 1) * Jitter
    <3>5. u \in Int /\ v \in Int /\ e \in Int
      BY <2>1, <2>2, TimeAssumption
    <3>6. IdealStart(boot[p], d) = u * SlotTimeOut /\ IdealStart(boot[q], r) = v * SlotTimeOut
      BY <2>1, <2>2, IdealInSlots
    <3>7. late[n] * Jitter \in Nat /\ j = late[n] * Jitter + Jitter
      <4>1. (late[n] + 1) * Jitter = late[n] * Jitter + 1 * Jitter
        BY <2>1, Distribute
      <4> QED  BY <2>1, <4>1, NatTimes
    <3> HIDE DEF u, v
    <3>8. e * SlotTimeOut = u * SlotTimeOut - v * SlotTimeOut
          /\ u * SlotTimeOut \in Int /\ v * SlotTimeOut \in Int
      BY <2>1, <3>5, Distribute
    <3> HIDE DEF e, j
    <3>9. e * SlotTimeOut <= j /\ j \in Int
      BY <2>1, <3>1, <3>3, <3>4, <3>6, <3>7, <3>8
    <3>10. e <= 0
      <4>1. j < SlotTimeOut
        BY DEF j
      <4> QED  BY <2>1, <3>5, <3>9, <4>1, LessThanOne, Zenon
    <3>11. CurSlot[m] <= CurSlot[n] + 1 + (Ceil(boot[q]) - Ceil(boot[p]))
      BY <2>1, <2>2, <3>10, TimeAssumption DEF e, u, v
    <3> QED  BY <3>11
  <2> QED  BY <2>1, <2>3, <2>4, TimeAssumption
<1> QED
  BY <1>1, <1>2

\* The invariant holds throughout.
LEMMA AlwaysInv == Spec => []Inv
<1>1. Inv /\ [Next]_vars => Inv'
  BY NextInv
<1> QED
  BY InitInv, <1>1, PTL DEF Spec

\* Whatever the delays and whoever started when, the start that enterNewSlot and
\* reviseSlotTime give a slot lies between those of two nodes, but for the delays
\* of slots that reviseSlotTime did not move.
THEOREM SlotDrift == Spec => []DriftBounded
BY AlwaysInv, InvImplies, PTL

\* Nodes stay within one slot more than they were apart when they started, until
\* those delays fill a slot.
THEOREM SlotsInStep == Spec => []InStep
BY AlwaysInv, InvImplies, PTL
=============================================================================

----------------------------- MODULE RoundSteps -----------------------------
(***************************************************************************)
(* What the slot clock and the event queue of one node promise to the      *)
(* consensus logic: slots are entered one after the other, in each slot    *)
(* the apply step runs at most once and then the propose step at most      *)
(* once, and a new slot may cut the current one short at any step.         *)
(*                                                                         *)
(* SlotClock is shown to implement this module; ConsensusNode is built on  *)
(* it.  RoundStepPropose is only held inside enterPropose, under the lock, *)
(* and is therefore not a visible value of Step.                           *)
(***************************************************************************)
EXTENDS Naturals

CONSTANT MaxSlot        \* bound on the slots a behaviour visits

VARIABLES
    CurSlot,            \* RoundState.CurSlot
    LastSlot,           \* RoundState.LastSlot
    Step                \* RoundState.Step

vars == <<CurSlot, LastSlot, Step>>

Slots == 0..MaxSlot
Steps == {"Slot", "Apply", "Wait"}

Init ==
    /\ CurSlot = 0
    /\ LastSlot = 0
    /\ Step = "Wait"

\* The next slot begins, whatever step the current one has reached.
NewSlot ==
    /\ CurSlot < MaxSlot
    /\ LastSlot' = CurSlot
    /\ CurSlot' = CurSlot + 1
    /\ Step' = "Slot"

\* The apply step of the current slot.
Apply ==
    /\ Step = "Slot"
    /\ Step' = "Apply"
    /\ UNCHANGED <<CurSlot, LastSlot>>

\* The propose step of the current slot; the node then waits for messages.
Propose ==
    /\ Step = "Apply"
    /\ Step' = "Wait"
    /\ UNCHANGED <<CurSlot, LastSlot>>

Next == NewSlot \/ Apply \/ Propose

Spec == Init /\ [][Next]_vars
=============================================================================

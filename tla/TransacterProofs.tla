-------------------------- MODULE TransacterProofs --------------------------
(***************************************************************************)
(* Proofs about Transacter, for any finite set of connections.             *)
(*                                                                         *)
(* The invariant adds to the checked properties where a loop can be: in    *)
(* which phases of Start and Stop the loops exist, that a sendLoop which   *)
(* has returned had started, and that it left a close frame or a mark in   *)
(* connsBroken behind.                                                     *)
(***************************************************************************)
EXTENDS Transacter, FiniteSetTheorems, TLAPS

Phases == {"connecting", "starting", "running", "stopping", "stopped", "exited"}
SendPCs == {"none", "select", "write", "check", "deferred", "ended"}
RecvPCs == {"none", "read", "deferred", "ended"}

Types ==
    /\ main \in Phases
    /\ send \in [Conns -> SendPCs]
    /\ recv \in [Conns -> RecvPCs]
    /\ started \in [Conns -> BOOLEAN]
    /\ connsBroken \in [Conns -> BOOLEAN]
    /\ closing \in [Conns -> BOOLEAN]
    /\ net \in [Conns -> {"up", "stalled", "down"}]

\* There are loops from the end of Start's connecting on.
Launched ==
    \A c \in Conns :
        /\ send[c] = "none" <=> main \in {"connecting", "exited"}
        /\ recv[c] = "none" <=> main \in {"connecting", "exited"}

\* Loops are told to stop by Stop only.
StoppedByStop == stopped <=> main \in {"stopping", "stopped"}

\* A sendLoop that has written or returned has started.
StartedFirst == \A c \in Conns : send[c] \in {"write", "deferred", "ended"} => started[c]

\* Nor has it started before it was launched.
NotYet == main = "connecting" => \A c \in Conns : ~started[c]

\* A sendLoop returns after a close frame or a failed write.
ReturnsOnce ==
    \A c \in Conns :
        /\ send[c] \in {"deferred", "ended"} => closing[c] \/ connsBroken[c]
        /\ closing[c] => send[c] \in {"deferred", "ended"}

Inv ==
    /\ Types
    /\ Launched
    /\ StoppedByStop
    /\ StartedFirst
    /\ NotYet
    /\ ReturnsOnce
    /\ WaitGroupsMatch
    /\ WaitsForLoops
    /\ CleanStop

Unstarted == {c \in Running(send) : ~started[c]}

\* The sets that are counted are finite.
LEMMA Counted ==
    /\ IsFiniteSet(Running(send)) /\ IsFiniteSet(Running(recv)) /\ IsFiniteSet(Unstarted)
    /\ Cardinality(Running(send)) \in Nat
    /\ Cardinality(Running(recv)) \in Nat
    /\ Cardinality(Unstarted) \in Nat
<1>1. Running(send) \in SUBSET Conns /\ Running(recv) \in SUBSET Conns /\ Unstarted \in SUBSET Conns
  BY DEF Running, Unstarted
<1>2. IsFiniteSet(Running(send)) /\ IsFiniteSet(Running(recv)) /\ IsFiniteSet(Unstarted)
  BY <1>1, ConnsAssumption, FS_Subset
<1> QED
  BY <1>2, FS_CardinalityType

\* No loop exists before Start launches them.
LEMMA InitInv == Init => Inv
<1> SUFFICES ASSUME Init PROVE Inv
  OBVIOUS
<1>1. Types
  BY DEF Init, Types, Phases, SendPCs, RecvPCs
<1>2. Launched /\ StoppedByStop /\ StartedFirst /\ NotYet /\ ReturnsOnce /\ WaitsForLoops /\ CleanStop
  BY DEF Init, Launched, StoppedByStop, StartedFirst, NotYet, ReturnsOnce, WaitsForLoops, CleanStop
<1>3. WaitGroupsMatch
  <2>1. Running(send) = {} /\ Running(recv) = {} /\ {c \in Running(send) : ~started[c]} = {}
    BY DEF Init, Running
  <2> QED  BY <2>1, FS_EmptySet DEF Init, WaitGroupsMatch
<1> QED
  BY <1>1, <1>2, <1>3 DEF Inv

Shape ==
    /\ Types
    /\ Launched
    /\ StoppedByStop
    /\ StartedFirst
    /\ ReturnsOnce
    /\ WaitsForLoops
    /\ CleanStop

\* When a counter is zero there is nothing left to wait for.
LEMMA ZeroMeansNone ==
    ASSUME WaitGroupsMatch
    PROVE  /\ startingWg = 0 => Unstarted = {}
           /\ endingWg = 0 => Running(send) = {} /\ Running(recv) = {}
<1>1. startingWg = Cardinality(Unstarted) /\ endingWg = Cardinality(Running(send)) + Cardinality(Running(recv))
  BY DEF WaitGroupsMatch, Unstarted
<1>2. endingWg = 0 => Cardinality(Running(send)) = 0 /\ Cardinality(Running(recv)) = 0
  BY <1>1, Counted
<1> QED
  BY <1>1, <1>2, Counted, FS_EmptySet

\* The counters follow the loops: a sendLoop leaves Unstarted when it first
\* ticks, and a loop leaves its set with its deferred Done.
LEMMA CountsInv ==
    ASSUME Inv, Next
    PROVE  WaitGroupsMatch'
<1>0. /\ Types /\ Launched /\ StartedFirst
      /\ startingWg = Cardinality(Unstarted)
      /\ endingWg = Cardinality(Running(send)) + Cardinality(Running(recv))
  BY DEF Inv, WaitGroupsMatch, Unstarted
<1>a. SUFFICES /\ startingWg' = Cardinality(Unstarted')
               /\ endingWg' = Cardinality(Running(send)') + Cardinality(Running(recv)')
  BY DEF WaitGroupsMatch, Unstarted, Running
<1>1. CASE Launch
  <2>1. Running(send)' = Conns /\ Running(recv)' = Conns
    BY <1>1 DEF Launch, Running
  <2>2. Unstarted' = Conns
    <3>1. \A c \in Conns : send[c] = "none"
      BY <1>0, <1>1 DEF Launched, Launch
    <3>2. \A c \in Conns : ~started[c]
      BY <1>1 DEF Inv, NotYet, Launch
    <3> QED  BY <1>1, <2>1, <3>2 DEF Unstarted, Running, Launch
  <2>3. Cardinality(Conns) \in Nat
    BY ConnsAssumption, FS_CardinalityType
  <2> QED  BY <1>1, <2>1, <2>2, <2>3 DEF Launch
<1>2. ASSUME NEW c \in Conns, SendTick(c)
      PROVE  /\ startingWg' = Cardinality(Unstarted')
             /\ endingWg' = Cardinality(Running(send)') + Cardinality(Running(recv)')
  <2>1. Running(send)' = Running(send) /\ Running(recv)' = Running(recv) /\ endingWg' = endingWg
    BY <1>0, <1>2 DEF SendTick, Goto, Running, Types, SendPCs
  <2>2. startingWg' = Cardinality(Unstarted')
    <3>1. CASE started[c]
      <4>1. Unstarted' = Unstarted
        BY <1>2, <2>1, <3>1 DEF SendTick, Unstarted
      <4> QED  BY <1>0, <1>2, <3>1, <4>1 DEF SendTick
    <3>2. CASE ~started[c]
      <4>1. Unstarted' = Unstarted \ {c}
        <5>1. \A d \in Conns : started'[d] <=> (d = c \/ started[d])
          BY <1>0, <1>2, <3>2 DEF SendTick, Types
        <5> QED  BY <2>1, <5>1 DEF Unstarted, Running
      <4>2. c \in Unstarted
        BY <1>0, <1>2, <3>2 DEF SendTick, Unstarted, Running
      <4> QED  BY <1>0, <1>2, <3>2, <4>1, <4>2, Counted, FS_RemoveElement DEF SendTick
    <3> QED  BY <3>1, <3>2
  <2> QED  BY <1>0, <2>1, <2>2
<1>3. ASSUME NEW c \in Conns, SendEnds(c)
      PROVE  /\ startingWg' = Cardinality(Unstarted')
             /\ endingWg' = Cardinality(Running(send)') + Cardinality(Running(recv)')
  <2>1. started[c] /\ startingWg' = startingWg /\ endingWg' = endingWg - 1 /\ UNCHANGED <<recv, started>>
    BY <1>0, <1>3 DEF SendEnds, StartedFirst
  <2>2. Running(send)' = Running(send) \ {c} /\ c \in Running(send) /\ Running(recv)' = Running(recv)
    BY <1>0, <1>3 DEF SendEnds, Goto, Running, Types, SendPCs
  <2>3. Unstarted' = Unstarted
    BY <2>1, <2>2 DEF Unstarted
  <2>4. Cardinality(Running(send)') = Cardinality(Running(send)) - 1
    BY <2>2, Counted, FS_RemoveElement
  <2> QED  BY <1>0, <2>1, <2>2, <2>3, <2>4, Counted
<1>4. ASSUME NEW c \in Conns, ReceiveEnds(c)
      PROVE  /\ startingWg' = Cardinality(Unstarted')
             /\ endingWg' = Cardinality(Running(send)') + Cardinality(Running(recv)')
  <2>1. startingWg' = startingWg /\ endingWg' = endingWg - 1 /\ UNCHANGED <<send, started>>
    BY <1>4 DEF ReceiveEnds
  <2>2. Running(recv)' = Running(recv) \ {c} /\ c \in Running(recv)
    BY <1>0, <1>4 DEF ReceiveEnds, Running, Types, RecvPCs
  <2>3. Unstarted' = Unstarted /\ Running(send)' = Running(send)
    BY <2>1 DEF Unstarted, Running
  <2>4. Cardinality(Running(recv)') = Cardinality(Running(recv)) - 1
    BY <2>2, Counted, FS_RemoveElement
  <2> QED  BY <1>0, <2>1, <2>3, <2>4, Counted
<1>5. ASSUME NEW c \in Conns, Write(c) \/ Ping(c) \/ Check(c) \/ Read(c) \/ ReadFails(c)
      PROVE  /\ startingWg' = Cardinality(Unstarted')
             /\ endingWg' = Cardinality(Running(send)') + Cardinality(Running(recv)')
  <2>1. Running(send)' = Running(send) /\ Running(recv)' = Running(recv)
        /\ UNCHANGED <<started, startingWg, endingWg>>
    BY <1>0, <1>5 DEF Write, Ping, Check, Read, ReadFails, Goto, Running, Types, SendPCs, RecvPCs
  <2> QED  BY <1>0, <2>1 DEF Unstarted
<1>6. CASE UNCHANGED loopVars
  BY <1>0, <1>6 DEF loopVars, Unstarted, Running
<1> QED
  BY <1>1, <1>2, <1>3, <1>4, <1>5, <1>6
     DEF Next, Loops, StartReturns, Stop, StopReturns, Ended, Connect, Answer, Stall, Fail, ServerCloses,
         otherVars, vars, loopVars

\* Every step keeps the rest of the invariant.
LEMMA ShapeInv ==
    ASSUME Inv, Next
    PROVE  Shape' /\ NotYet'
<1>0. Shape /\ NotYet /\ WaitGroupsMatch
  BY DEF Inv, Shape
<1> USE DEF Shape, Types, Launched, StoppedByStop, StartedFirst, NotYet, ReturnsOnce,
        WaitsForLoops, CleanStop, Running, Phases, SendPCs, RecvPCs
<1>1. ASSUME NEW c \in Conns, Connect(c) PROVE Shape' /\ NotYet'
  <2>1. Types' /\ Launched' /\ StoppedByStop' /\ NotYet'
    BY <1>0, <1>1 DEF Connect, loopVars, serverVars
  <2>2. StartedFirst' /\ WaitsForLoops'
    BY <1>0, <1>1 DEF Connect, loopVars, serverVars
  <2>3. ReturnsOnce'
    BY <1>0, <1>1 DEF Connect, loopVars, serverVars
  <2>4. CleanStop'
    BY <1>0, <1>1 DEF Connect, loopVars, serverVars
  <2> QED  BY <2>1, <2>2, <2>3, <2>4
<1>2. CASE Launch
  <2>1. Types' /\ Launched' /\ StoppedByStop' /\ NotYet'
    BY <1>0, <1>2 DEF Launch, serverVars
  <2>2. StartedFirst' /\ WaitsForLoops'
    BY <1>0, <1>2 DEF Launch, serverVars
  <2>3. ReturnsOnce'
    BY <1>0, <1>2 DEF Launch, serverVars
  <2>4. CleanStop'
    BY <1>0, <1>2 DEF Launch, serverVars
  <2> QED  BY <2>1, <2>2, <2>3, <2>4
<1>3. CASE StartReturns
  <2>1. \A c \in Conns : started[c]
    BY <1>0, <1>3, ZeroMeansNone DEF StartReturns, Unstarted
  <2> QED  BY <1>0, <1>3, <2>1 DEF StartReturns, loopVars, serverVars
<1>4. CASE Stop
  BY <1>0, <1>4 DEF Stop, loopVars, serverVars
<1>5. CASE StopReturns
  <2>1. Running(send) = {} /\ Running(recv) = {}
    BY <1>0, <1>5, ZeroMeansNone DEF StopReturns
  <2>2. \A c \in Conns : send[c] = "ended" /\ recv[c] = "ended"
    BY <1>0, <1>5, <2>1 DEF StopReturns
  <2> QED  BY <1>0, <1>5, <2>1, <2>2 DEF StopReturns, loopVars, serverVars
<1>6. ASSUME NEW c \in Conns, SendTick(c) PROVE Shape' /\ NotYet'
  <2>1. Types' /\ Launched' /\ StoppedByStop' /\ NotYet'
    BY ZenonT(30), <1>0, <1>6 DEF SendTick, Goto, serverVars
  <2>2. StartedFirst' /\ WaitsForLoops'
    BY <1>0, <1>6 DEF SendTick, Goto, serverVars
  <2>3. ReturnsOnce'
    BY <1>0, <1>6 DEF SendTick, Goto, serverVars
  <2>4. CleanStop'
    BY <1>0, <1>6 DEF SendTick, Goto, serverVars
  <2> QED  BY <2>1, <2>2, <2>3, <2>4
<1>7. ASSUME NEW c \in Conns, Write(c) PROVE Shape' /\ NotYet'
  <2>1. CASE net[c] = "up"
    <3>1. Types' /\ Launched' /\ StoppedByStop' /\ NotYet'
      BY <1>0, <1>7, <2>1 DEF Write, Goto
    <3>2. StartedFirst' /\ WaitsForLoops'
      BY <1>0, <1>7, <2>1 DEF Write, Goto
    <3>3. ReturnsOnce'
      BY <1>0, <1>7, <2>1 DEF Write, Goto
    <3>4. CleanStop'
      BY <1>0, <1>7, <2>1 DEF Write, Goto
    <3> QED  BY <3>1, <3>2, <3>3, <3>4
  <2>2. CASE net[c] # "up"
    <3>1. Types' /\ Launched' /\ StoppedByStop' /\ NotYet'
      BY ZenonT(30), <1>0, <1>7, <2>2 DEF Write, Goto, Break
    <3>2. StartedFirst' /\ WaitsForLoops'
      BY <1>0, <1>7, <2>2 DEF Write, Goto, Break
    <3>3. ReturnsOnce'
      BY <1>0, <1>7, <2>2 DEF Write, Goto, Break
    <3>4. CleanStop'
      BY <1>0, <1>7, <2>2 DEF Write, Goto, Break
    <3> QED  BY <3>1, <3>2, <3>3, <3>4
  <2> QED  BY <2>1, <2>2
<1>8. ASSUME NEW c \in Conns, Ping(c) PROVE Shape' /\ NotYet'
  <2>1. Types' /\ Launched' /\ StoppedByStop' /\ NotYet'
    BY ZenonT(30), <1>0, <1>8 DEF Ping, Goto, Break, serverVars
  <2>2. StartedFirst' /\ WaitsForLoops'
    BY <1>0, <1>8 DEF Ping, Goto, Break, serverVars
  <2>3. ReturnsOnce'
    BY <1>0, <1>8 DEF Ping, Goto, Break, serverVars
  <2>4. CleanStop'
    BY <1>0, <1>8 DEF Ping, Goto, Break, serverVars
  <2> QED  BY <2>1, <2>2, <2>3, <2>4
<1>9. ASSUME NEW c \in Conns, Check(c) PROVE Shape' /\ NotYet'
  <2>1. CASE ~stopped
    <3>1. Types' /\ Launched' /\ StoppedByStop' /\ NotYet'
      BY <1>0, <1>9, <2>1 DEF Check, Goto
    <3>2. StartedFirst' /\ WaitsForLoops'
      BY <1>0, <1>9, <2>1 DEF Check, Goto
    <3>3. ReturnsOnce'
      BY <1>0, <1>9, <2>1 DEF Check, Goto
    <3>4. CleanStop'
      BY <1>0, <1>9, <2>1 DEF Check, Goto
    <3> QED  BY <3>1, <3>2, <3>3, <3>4
  <2>2. CASE stopped /\ net[c] = "up"
    <3>1. Types' /\ Launched' /\ StoppedByStop' /\ NotYet'
      BY ZenonT(30), <1>0, <1>9, <2>2 DEF Check, Goto
    <3>2. StartedFirst' /\ WaitsForLoops'
      BY <1>0, <1>9, <2>2 DEF Check, Goto
    <3>3. ReturnsOnce'
      BY <1>0, <1>9, <2>2 DEF Check, Goto
    <3>4. CleanStop'
      BY <1>0, <1>9, <2>2 DEF Check, Goto
    <3> QED  BY <3>1, <3>2, <3>3, <3>4
  <2>3. CASE stopped /\ net[c] # "up"
    <3>1. Types' /\ Launched' /\ StoppedByStop' /\ NotYet'
      BY ZenonT(30), <1>0, <1>9, <2>3 DEF Check, Goto, Break
    <3>2. StartedFirst' /\ WaitsForLoops'
      BY <1>0, <1>9, <2>3 DEF Check, Goto, Break
    <3>3. ReturnsOnce'
      BY <1>0, <1>9, <2>3 DEF Check, Goto, Break
    <3>4. CleanStop'
      BY <1>0, <1>9, <2>3 DEF Check, Goto, Break
    <3> QED  BY <3>1, <3>2, <3>3, <3>4
  <2> QED  BY <2>1, <2>2, <2>3
<1>10. ASSUME NEW c \in Conns, SendEnds(c) PROVE Shape' /\ NotYet'
  <2>1. Types' /\ Launched' /\ StoppedByStop' /\ NotYet'
    BY <1>0, <1>10 DEF SendEnds, Goto, serverVars
  <2>2. StartedFirst' /\ WaitsForLoops'
    BY <1>0, <1>10 DEF SendEnds, Goto, serverVars
  <2>3. ReturnsOnce'
    BY <1>0, <1>10 DEF SendEnds, Goto, serverVars
  <2>4. CleanStop'
    BY <1>0, <1>10 DEF SendEnds, Goto, serverVars
  <2> QED  BY <2>1, <2>2, <2>3, <2>4
<1>11. ASSUME NEW c \in Conns, Read(c) \/ ReadFails(c) \/ ReceiveEnds(c) PROVE Shape' /\ NotYet'
  <2>1. Types' /\ Launched' /\ StoppedByStop' /\ NotYet'
    BY <1>0, <1>11 DEF Read, ReadFails, ReceiveEnds, serverVars
  <2>2. StartedFirst' /\ WaitsForLoops'
    BY <1>0, <1>11 DEF Read, ReadFails, ReceiveEnds, serverVars
  <2>3. ReturnsOnce'
    BY <1>0, <1>11 DEF Read, ReadFails, ReceiveEnds, serverVars
  <2>4. CleanStop'
    BY <1>0, <1>11 DEF Read, ReadFails, ReceiveEnds, serverVars
  <2> QED  BY <2>1, <2>2, <2>3, <2>4
<1>12. ASSUME NEW c \in Conns, Answer(c) \/ Stall(c) \/ Fail(c) \/ ServerCloses(c) PROVE Shape' /\ NotYet'
  <2>1. Types' /\ Launched' /\ StoppedByStop' /\ NotYet'
    BY <1>0, <1>12 DEF Answer, Stall, Fail, ServerCloses, otherVars, loopVars
  <2>2. StartedFirst' /\ WaitsForLoops'
    BY <1>0, <1>12 DEF Answer, Stall, Fail, ServerCloses, otherVars, loopVars
  <2>3. ReturnsOnce'
    BY <1>0, <1>12 DEF Answer, Stall, Fail, ServerCloses, otherVars, loopVars
  <2>4. CleanStop'
    BY <1>0, <1>12 DEF Answer, Stall, Fail, ServerCloses, otherVars, loopVars
  <2> QED  BY <2>1, <2>2, <2>3, <2>4
<1>13. CASE Ended
  BY <1>0, <1>13 DEF Ended, vars
<1> QED
  BY <1>1, <1>2, <1>3, <1>4, <1>5, <1>6, <1>7, <1>8, <1>9, <1>10, <1>11, <1>12, <1>13 DEF Next, Loops

\* The invariant holds throughout.
LEMMA AlwaysInv == Spec => []Inv
<1>1. Inv /\ [Next]_vars => Inv'
  <2> SUFFICES ASSUME Inv, [Next]_vars PROVE Inv'
    OBVIOUS
  <2>1. CASE Next
    BY <2>1, CountsInv, ShapeInv DEF Inv, Shape
  <2>2. CASE UNCHANGED vars
    BY <2>2 DEF vars, Inv, Types, Launched, StoppedByStop, StartedFirst, NotYet, ReturnsOnce,
                WaitGroupsMatch, WaitsForLoops, CleanStop, Running
  <2> QED  BY <2>1, <2>2
<1> QED
  BY InitInv, <1>1, PTL DEF Spec

\* However connections fail, each Done is called once for the Add it answers.
THEOREM WaitGroups == Spec => []WaitGroupsMatch
<1>1. Inv => WaitGroupsMatch
  BY DEF Inv
<1> QED
  BY AlwaysInv, <1>1, PTL

\* Start and Stop return no earlier than they should.
THEOREM Waits == Spec => []WaitsForLoops
<1>1. Inv => WaitsForLoops
  BY DEF Inv
<1> QED
  BY AlwaysInv, <1>1, PTL

\* The crashes that main reports are the connections that were not closed
\* cleanly, and these had failed.
THEOREM Crashes == Spec => []CleanStop
<1>1. Inv => CleanStop
  BY DEF Inv
<1> QED
  BY AlwaysInv, <1>1, PTL
=============================================================================

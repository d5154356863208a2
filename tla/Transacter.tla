----------------------------- MODULE Transacter -----------------------------
(***************************************************************************)
(* The load generator of tools/tm-bench: one transacter, which sends       *)
(* transactions to a node over several websocket connections.  Start       *)
(* launches two goroutines for each connection and waits until all of them *)
(* send; Stop waits until all of them have ended and closes the            *)
(* connections.  Both waits are on sync.WaitGroups, whose Wait returns     *)
(* when the counter is zero and whose Done panics below zero.              *)
(*                                                                         *)
(* The network and the server are external.  A connection stalls (writes   *)
(* run into sendTimeout, nothing arrives) or breaks (reads fail as well)   *)
(* at any time; a server answers requests and closes a connection when it  *)
(* gets a close frame or, on a stalled one, no pings.  How many of the     *)
(* transactions of a batch were written before it failed is left out.      *)
(***************************************************************************)
EXTENDS Integers, FiniteSets

CONSTANT Conns          \* the connections, 0..t.Connections-1

ASSUME ConnsAssumption == IsFiniteSet(Conns)

VARIABLES
    main,               \* the caller of Start and Stop
    conns,              \* the connections opened by Start
    send, recv,         \* where the goroutines of each connection are
    started,            \* the local variable of each sendLoop
    startingWg, endingWg,
    stopped, connsBroken,
    net,                \* "up", "stalled" or "down"
    closing,            \* the server has been sent a close frame
    answer              \* "none", "asked" or "ready" to be read

vars == <<main, conns, send, recv, started, startingWg, endingWg, stopped,
          connsBroken, net, closing, answer>>

Init ==
    /\ main = "connecting"
    /\ conns = {}
    /\ send = [c \in Conns |-> "none"]
    /\ recv = [c \in Conns |-> "none"]
    /\ started = [c \in Conns |-> FALSE]
    /\ startingWg = 0
    /\ endingWg = 0
    /\ stopped = FALSE
    /\ connsBroken = [c \in Conns |-> FALSE]
    /\ net = [c \in Conns |-> "up"]
    /\ closing = [c \in Conns |-> FALSE]
    /\ answer = [c \in Conns |-> "none"]

-----------------------------------------------------------------------------
(* Start and Stop *)

loopVars == <<send, recv, started, startingWg, endingWg>>
serverVars == <<net, closing, answer>>

\* Start opens one connection after the other; startTransacters ends the
\* program when one cannot be opened.
Connect(c) ==
    /\ main = "connecting"
    /\ c \notin conns
    /\ \/ conns' = conns \cup {c} /\ UNCHANGED main
       \/ main' = "exited" /\ UNCHANGED conns
    /\ UNCHANGED <<loopVars, stopped, connsBroken, serverVars>>

\* Launch with a WaitGroup that counts one goroutine for each connection.
LaunchUncounted ==
    /\ main = "connecting"
    /\ conns = Conns
    /\ main' = "starting"
    /\ startingWg' = Cardinality(Conns)
    /\ endingWg' = Cardinality(Conns)
    /\ send' = [c \in Conns |-> "select"]
    /\ recv' = [c \in Conns |-> "read"]
    /\ UNCHANGED <<conns, started, stopped, connsBroken, serverVars>>

\* The rest of Start up to startingWg.Wait.
Launch ==
    /\ main = "connecting"
    /\ conns = Conns
    /\ main' = "starting"
    /\ startingWg' = Cardinality(Conns)
    /\ endingWg' = 2 * Cardinality(Conns)
    /\ send' = [c \in Conns |-> "select"]
    /\ recv' = [c \in Conns |-> "read"]
    /\ UNCHANGED <<conns, started, stopped, connsBroken, serverVars>>

\* startingWg.Wait returns, and with it Start.
StartReturns ==
    /\ main = "starting"
    /\ startingWg = 0
    /\ main' = "running"
    /\ UNCHANGED <<conns, loopVars, stopped, connsBroken, serverVars>>

\* The duration of the test is over and main calls Stop.
Stop ==
    /\ main = "running"
    /\ main' = "stopping"
    /\ stopped' = TRUE
    /\ UNCHANGED <<conns, loopVars, connsBroken, serverVars>>

\* endingWg.Wait returns; Stop closes the connections and returns.
StopReturns ==
    /\ main = "stopping"
    /\ endingWg = 0
    /\ main' = "stopped"
    /\ conns' = {}
    /\ UNCHANGED <<loopVars, stopped, connsBroken, serverVars>>

-----------------------------------------------------------------------------
(* sendLoop *)

Goto(c, pc) == send' = [send EXCEPT ![c] = pc]
Break(c) == connsBroken' = [connsBroken EXCEPT ![c] = TRUE]

\* SendTick in a sendLoop that does not note that it has started.
SendTickAgain(c) ==
    /\ send[c] = "select"
    /\ startingWg' = startingWg - 1
    /\ UNCHANGED started
    /\ Goto(c, "write")
    /\ UNCHANGED <<main, conns, recv, endingWg, stopped, connsBroken, serverVars>>

\* case <-txsTicker.C, up to the first write.
SendTick(c) ==
    /\ send[c] = "select"
    /\ IF started[c]
       THEN UNCHANGED <<started, startingWg>>
       ELSE /\ started' = [started EXCEPT ![c] = TRUE]
            /\ startingWg' = startingWg - 1
    /\ Goto(c, "write")
    /\ UNCHANGED <<main, conns, recv, endingWg, stopped, connsBroken, serverVars>>

\* The batch of this second is written, or WriteJSON fails and the loop returns.
Write(c) ==
    /\ send[c] = "write"
    /\ IF net[c] = "up"
       THEN /\ Goto(c, "check")
            /\ answer' = [answer EXCEPT ![c] = IF @ = "ready" THEN @ ELSE "asked"]
            /\ UNCHANGED connsBroken
       ELSE /\ Goto(c, "deferred")
            /\ Break(c)
            /\ UNCHANGED answer
    /\ UNCHANGED <<main, conns, recv, started, startingWg, endingWg, stopped, net, closing>>

\* case <-pingsTicker.C: a failure is noted and the loop goes on.
Ping(c) ==
    /\ send[c] = "select"
    /\ Goto(c, "check")
    /\ IF net[c] = "up" THEN UNCHANGED connsBroken ELSE Break(c)
    /\ UNCHANGED <<main, conns, recv, started, startingWg, endingWg, stopped, serverVars>>

\* Check in a sendLoop that goes on after it has sent the close frame.
CheckGoesOn(c) ==
    /\ send[c] = "check"
    /\ Goto(c, "select")
    /\ IF stopped /\ net[c] = "up"
       THEN closing' = [closing EXCEPT ![c] = TRUE] /\ UNCHANGED connsBroken
       ELSE IF stopped THEN Break(c) /\ UNCHANGED closing
       ELSE UNCHANGED <<connsBroken, closing>>
    /\ UNCHANGED <<main, conns, recv, started, startingWg, endingWg, stopped, net, answer>>

\* Check in a sendLoop that returns without a close frame.
CheckSilent(c) ==
    /\ send[c] = "check"
    /\ Goto(c, IF stopped THEN "deferred" ELSE "select")
    /\ UNCHANGED <<main, conns, recv, started, startingWg, endingWg, stopped, connsBroken, serverVars>>

\* The end of an iteration: once stopped, send a close frame and return.
Check(c) ==
    /\ send[c] = "check"
    /\ IF ~stopped
       THEN Goto(c, "select") /\ UNCHANGED <<connsBroken, closing>>
       ELSE /\ Goto(c, "deferred")
            /\ IF net[c] = "up"
               THEN closing' = [closing EXCEPT ![c] = TRUE] /\ UNCHANGED connsBroken
               ELSE Break(c) /\ UNCHANGED closing
    /\ UNCHANGED <<main, conns, recv, started, startingWg, endingWg, stopped, net, answer>>

\* The deferred functions, last first: endingWg.Done, then startingWg.Done if
\* the loop never started.
SendEnds(c) ==
    /\ send[c] = "deferred"
    /\ Goto(c, "ended")
    /\ endingWg' = endingWg - 1
    /\ startingWg' = IF started[c] THEN startingWg ELSE startingWg - 1
    /\ UNCHANGED <<main, conns, recv, started, stopped, connsBroken, serverVars>>

-----------------------------------------------------------------------------
(* receiveLoop *)

\* ReadMessage returns an answer; the loop ends when the sender has ended or
\* is about to.
Read(c) ==
    /\ recv[c] = "read"
    /\ answer[c] = "ready"
    /\ answer' = [answer EXCEPT ![c] = "none"]
    /\ recv' = [recv EXCEPT ![c] = IF stopped \/ connsBroken[c] THEN "deferred" ELSE "read"]
    /\ UNCHANGED <<main, conns, send, started, startingWg, endingWg, stopped, connsBroken, net, closing>>

\* ReadMessage fails, also because the server has closed the connection.
ReadFails(c) ==
    /\ recv[c] = "read"
    /\ net[c] = "down"
    /\ recv' = [recv EXCEPT ![c] = "deferred"]
    /\ UNCHANGED <<main, conns, send, started, startingWg, endingWg, stopped, connsBroken, serverVars>>

\* The deferred endingWg.Done.
ReceiveEnds(c) ==
    /\ recv[c] = "deferred"
    /\ recv' = [recv EXCEPT ![c] = "ended"]
    /\ endingWg' = endingWg - 1
    /\ UNCHANGED <<main, conns, send, started, startingWg, stopped, connsBroken, serverVars>>

-----------------------------------------------------------------------------
(* The network and the server *)

otherVars == <<main, conns, loopVars, stopped, connsBroken>>

Answer(c) ==
    /\ net[c] = "up"
    /\ answer[c] = "asked"
    /\ answer' = [answer EXCEPT ![c] = "ready"]
    /\ UNCHANGED <<otherVars, net, closing>>

Stall(c) ==
    /\ c \in conns
    /\ net[c] = "up"
    /\ net' = [net EXCEPT ![c] = "stalled"]
    /\ UNCHANGED <<otherVars, closing, answer>>

Fail(c) ==
    /\ c \in conns
    /\ net[c] = "up"
    /\ net' = [net EXCEPT ![c] = "down"]
    /\ UNCHANGED <<otherVars, closing, answer>>

\* The server answers a close frame, or gives up a stalled connection.
ServerCloses(c) ==
    /\ net[c] = "stalled" \/ (net[c] = "up" /\ closing[c])
    /\ net' = [net EXCEPT ![c] = "down"]
    /\ UNCHANGED <<otherVars, closing, answer>>

Loops(c) ==
    \/ SendTick(c) \/ Write(c) \/ Ping(c) \/ Check(c) \/ SendEnds(c)
    \/ Read(c) \/ ReadFails(c) \/ ReceiveEnds(c)

\* The program has ended.
Ended ==
    /\ main \in {"stopped", "exited"}
    /\ UNCHANGED vars

Next ==
    \/ Launch \/ StartReturns \/ Stop \/ StopReturns \/ Ended
    \/ \E c \in Conns : Connect(c) \/ Loops(c) \/ Answer(c) \/ Stall(c) \/ Fail(c) \/ ServerCloses(c)

Spec == Init /\ [][Next]_vars

\* The goroutines run, and what a loop can do next it does.  The ticker of the
\* transactions fires every second, that of the pings every 27 seconds.
LoopFairness ==
    /\ WF_vars(\E c \in Conns : Connect(c))
    /\ WF_vars(Launch) /\ WF_vars(StartReturns) /\ WF_vars(Stop) /\ WF_vars(StopReturns)
    /\ \A c \in Conns :
          /\ WF_vars(SendTick(c) \/ Write(c) \/ Ping(c) \/ Check(c) \/ SendEnds(c))
          /\ SF_vars(SendTick(c))
          /\ WF_vars(Read(c) \/ ReadFails(c) \/ ReceiveEnds(c))

ServerFairness == \A c \in Conns : WF_vars(ServerCloses(c))

FairSpec == Spec /\ LoopFairness /\ ServerFairness
SilentServerSpec == Spec /\ LoopFairness

-----------------------------------------------------------------------------
(* Properties *)

Running(pc) == {c \in Conns : pc[c] \notin {"none", "ended"}}

\* The counters count what they are waited on for: the connections whose
\* sendLoop has not started, and the loops that have not ended.  Done is called
\* once for each, on every path out of the loops, so neither falls below zero.
WaitGroupsMatch ==
    /\ startingWg = Cardinality({c \in Running(send) : ~started[c]})
    /\ endingWg = Cardinality(Running(send)) + Cardinality(Running(recv))

\* Start returns when every connection has begun to send, and Stop closes the
\* connections when no loop uses them any more.
WaitsForLoops ==
    /\ main \in {"running", "stopping", "stopped"} => \A c \in Conns : started[c]
    /\ main = "stopped" => Running(send) = {} /\ Running(recv) = {}

\* Only connections that failed are counted as crashed, and those that are not
\* counted have been closed with a close frame when Stop returns.
CleanStop ==
    \A c \in Conns :
        /\ connsBroken[c] => net[c] # "up" /\ ~closing[c]
        /\ main = "stopped" => closing[c] \/ connsBroken[c]

\* Start returns, and Stop returns once it is called, when servers close the
\* connections that send a close frame or no pings.
StopsInTheEnd == <>(main \in {"stopped", "exited"})
=============================================================================

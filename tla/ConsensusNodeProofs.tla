------------------------- MODULE ConsensusNodeProofs -------------------------
(***************************************************************************)
(* Proofs about ConsensusNode for any number of validators, any threshold  *)
(* and any number of slots.                                                *)
(*                                                                         *)
(* Inv is about votes: none but AddVote touches those a node has, and a    *)
(* vote it has was broadcast.  Sound is about blocks: every block on its   *)
(* way, cached or applied follows an earlier one and carries support       *)
(* quorums of earlier, supported ones only, and the uncommitted blocks are *)
(* suspect or precommit blocks.  Punctual is about behaviours in which all *)
(* arrives in its own slot: the proposal that is due has not been applied. *)
(* Each rests on the one before it.                                        *)
(*                                                                         *)
(* Sound also has the tree of the node in shape, so that what the lemmas   *)
(* about the queries say holds of the node's proposals.                    *)
(***************************************************************************)
EXTENDS ConsensusNode, ConsensusStateProofs, FiniteSetTheorems, TLAPS

\* Zenon is tried first, then the SMT solver, both with more than their default
\* time.  Leaves about numbers and sequences name the SMT solver at once.
USE ZenonT(20), SMTT(20)

-----------------------------------------------------------------------------
(* The votes in every reachable state *)

\* A vote the node has was broadcast as it has it, and a vote of its own is
\* among those it has from the moment it is broadcast.
Inv ==
    /\ DOMAIN node = Fields
    /\ node.votes \in VoteSets
    /\ \A x \in node.signed : x.type \in VoteTypes
    /\ cast \in Votes
    /\ published \in [Slots -> Nat]
    /\ \A s \in Slots, v \in Vals :
          node.votes[s][v] # <<>> => node.votes[s][v] = <<cast[s][v]>>
    /\ \A s \in Slots :
          IF node.votes[s][Me] = <<>> THEN published[s] = 0 ELSE published[s] <= 1

\* A new node has no votes.
LEMMA InitInv == Init => Inv
BY SMTT(20), StateAssumption, NodeAssumption DEF Init, Inv, NewNode, Fields, Votes, VoteSets, VoteLists, VoteTypes

\* A handler that takes in no vote and broadcasts none keeps the invariant.
LEMMA QuietStep ==
    ASSUME Inv, Signs(node', node), UNCHANGED <<cast, published>>
    PROVE  Inv'
BY DEF Inv, Signs

\* Every step keeps the invariant: HandleOwnVote broadcasts a vote only where
\* there was none, ReceiveVote takes in what was broadcast, and PeerVotes adds
\* a vote that nobody can have yet.
LEMMA NextInv == Inv /\ [Next]_vars => Inv'
<1> SUFFICES ASSUME Inv, [Next]_vars
             PROVE  Inv'
  OBVIOUS
<1> USE StateAssumption, NodeAssumption
<1>0. Signs(node, node)
  BY DEF Signs, Inv
<1>1. CASE EnterNewSlot
  BY <1>1, <1>0, QuietStep DEF EnterNewSlot
<1>2. CASE Apply
  BY <1>2, EnterApplySigns, QuietStep DEF Apply, Inv
<1>3. CASE Propose
  BY <1>3, <1>0, QuietStep DEF Propose
<1>4. ASSUME NEW b \in own, HandleOwnProposal(b)
      PROVE  Inv'
  BY <1>4, HandleProposalSigns, QuietStep DEF HandleOwnProposal, Inv
<1>5. ASSUME NEW x \in node.signed, HandleOwnVote(x)
      PROVE  Inv'
  <2> DEFINE n == [node EXCEPT !.signed = @ \ {x}]
  <2>0. n = [f \in Fields |-> n[f]]
    BY DEF Inv
  <2>1. /\ DOMAIN n = Fields
        /\ n.votes = node.votes
        /\ \A y \in n.signed : y.type \in VoteTypes
    BY DEF Inv, Fields
  <2>2. /\ node' = AddVote(n, x.slot, Me, x.type)
        /\ IF node' = n THEN UNCHANGED <<cast, published>> ELSE BroadcastVote(x)
    BY <1>5 DEF HandleOwnVote
  <2>3. x.type \in VoteTypes
    BY DEF Inv
  <2> HIDE DEF n
  <2>4. CASE node' = n
    BY <2>1, <2>2, <2>4 DEF Inv
  <2>5. CASE node' # n
    <3> DEFINE s == x.slot
    <3>1. s \in Slots
      <4>1. CASE s \notin Slots
        <5>1. node' \in {n, [n EXCEPT !.votes[s][Me] = Append(@, x.type)]}
          BY <2>2 DEF AddVote
        <5>2. [n.votes EXCEPT ![s][Me] = Append(@, x.type)] = n.votes
          BY <4>1, <2>1 DEF Inv, VoteSets
        <5>3. [n EXCEPT !.votes = n.votes] = n
          BY <2>0, <2>1 DEF Fields
        <5> QED BY <2>5, <5>1, <5>2, <5>3
      <4> QED BY <4>1
    <3>2. /\ n.votes[s][Me] = <<>>
          /\ DOMAIN node' = Fields
          /\ node'.signed = n.signed
          /\ node'.votes \in VoteSets
          /\ node'.votes[s][Me] = <<x.type>>
          /\ \A t \in Slots, u \in Vals :
                <<t, u>> # <<s, Me>> => node'.votes[t][u] = n.votes[t][u]
      <4>1. n.votes \in VoteSets /\ Me \in Vals
        BY <2>1 DEF Inv
      <4>2. n.votes[s][Me] = <<>>
        BY <2>2, <2>5 DEF AddVote
      <4>3. node' = AddVote(n, s, Me, x.type)
        BY <2>2
      <4> HIDE DEF s
      <4>4. VoteAdded(node', n, s, Me, x.type)
        BY <2>1, <2>3, <3>1, <4>1, <4>3, AddVoteOnce
      <4> QED BY <4>2, <4>4 DEF VoteAdded
    <3>3. /\ cast' = [cast EXCEPT ![s][Me] = x.type]
          /\ published' = [published EXCEPT ![s] = @ + 1]
      BY <2>2, <2>5 DEF BroadcastVote
    <3>4. published[s] = 0
      BY <3>1, <3>2, <2>1 DEF Inv
    <3> HIDE DEF s
    <3>5. published' \in [Slots -> Nat] /\ published'[s] = 1
      <4>1. published \in [Slots -> Nat]
        BY DEF Inv
      <4> QED BY SMTT(20), <3>1, <3>3, <3>4, <4>1
    <3>6. /\ cast' \in Votes /\ cast'[s][Me] = x.type
          /\ \A t \in Slots, v \in Vals : <<t, v>> # <<s, Me>> => cast'[t][v] = cast[t][v]
      <4>1. cast \in Votes
        BY DEF Inv
      <4> QED BY SMTT(20), <2>3, <3>1, <3>3, <4>1 DEF Votes
    <3>7. \A t \in Slots, v \in Vals :
             node'.votes[t][v] # <<>> => node'.votes[t][v] = <<cast'[t][v]>>
      BY SMTT(20), <2>1, <3>1, <3>2, <3>6 DEF Inv
    <3>8. \A t \in Slots :
             IF node'.votes[t][Me] = <<>> THEN published'[t] = 0 ELSE published'[t] <= 1
      <4>1. <<x.type>> # <<>>
        BY SMTT(20)
      <4>2. \A t \in Slots \ {s} :
               node'.votes[t][Me] = node.votes[t][Me] /\ published'[t] = published[t]
        BY SMTT(20), <2>1, <3>2, <3>3 DEF Inv
      <4>3. 1 <= 1
        BY SMTT(20)
      <4> QED BY <3>2, <3>5, <4>1, <4>2, <4>3 DEF Inv
    <3> QED BY <2>1, <3>2, <3>5, <3>6, <3>7, <3>8 DEF Inv
  <2> QED BY <2>4, <2>5
<1>6. ASSUME NEW s \in Slots, ReceiveProposal(s)
      PROVE  Inv'
  BY <1>6, HandleProposalSigns, QuietStep DEF ReceiveProposal, Inv
<1>7. ASSUME NEW s \in Slots, NEW v \in Vals, ReceiveVote(s, v)
      PROVE  Inv'
  <2>1. cast[s][v] \in VoteTypes
    BY SMTT(20), <1>7 DEF ReceiveVote, Inv, Votes
  <2>2. /\ v # Me
        /\ node' = AddVote(node, s, v, cast[s][v])
        /\ UNCHANGED <<cast, published>>
    BY <1>7 DEF ReceiveVote
  <2>3. CASE node.votes[s][v] # <<>>
    <3>1. node' = node
      BY <2>2, <2>3 DEF AddVote
    <3> QED BY <1>0, <2>2, <3>1, QuietStep
  <2>4. CASE node.votes[s][v] = <<>>
    <3>1. /\ DOMAIN node' = Fields
          /\ node'.signed = node.signed
          /\ node'.votes \in VoteSets
          /\ node'.votes[s][v] = <<cast[s][v]>>
          /\ \A t \in Slots, u \in Vals :
                <<t, u>> # <<s, v>> => node'.votes[t][u] = node.votes[t][u]
      <4>1. VoteAdded(node', node, s, v, cast[s][v])
        BY <2>1, <2>2, AddVoteOnce DEF Inv
      <4> QED BY <2>4, <4>1 DEF VoteAdded
    <3>2. \A t \in Slots : node'.votes[t][Me] = node.votes[t][Me]
      BY <2>2, <3>1
    <3>3. \A t \in Slots, u \in Vals :
             node'.votes[t][u] # <<>> => node'.votes[t][u] = <<cast[t][u]>>
      BY SMTT(20), <3>1 DEF Inv
    <3> QED BY <2>2, <3>1, <3>2, <3>3 DEF Inv
  <2> QED BY <2>3, <2>4
<1>8. ASSUME NEW s \in Slots, NEW parent \in Slots, NEW proven \in SUBSET Slots,
             PeerProposes(s, parent, proven)
      PROVE  Inv'
  BY <1>8, <1>0, QuietStep DEF PeerProposes
<1>9. ASSUME NEW s \in Slots, NEW v \in Vals, NEW type \in VoteTypes, PeerVotes(s, v, type)
      PROVE  Inv'
  <2>1. /\ cast[s][v] = "None"
        /\ cast' = [cast EXCEPT ![s][v] = type]
        /\ UNCHANGED <<node, published>>
    BY <1>9 DEF PeerVotes
  <2>2. cast' \in Votes
    BY <2>1 DEF Inv, Votes
  <2>3. \A t \in Slots, u \in Vals :
           node.votes[t][u] # <<>> => node.votes[t][u] = <<cast'[t][u]>>
    <3>1. ASSUME NEW t \in Slots, NEW u \in Vals, node.votes[t][u] # <<>>
          PROVE  node.votes[t][u] = <<cast'[t][u]>>
      <4>1. node.votes[t][u] = <<cast[t][u]>> /\ node.votes[t][u] \in VoteLists
        BY <3>1 DEF Inv, VoteSets
      <4>2. cast[t][u] \in VoteTypes
        BY SMTT(20), <3>1, <4>1 DEF VoteLists
      <4>3. <<t, u>> # <<s, v>>
        BY <2>1, <4>2 DEF VoteTypes
      <4>4. cast'[t][u] = cast[t][u]
        BY <2>1, <4>3 DEF Inv, Votes
      <4> QED BY <4>1, <4>4
    <3> QED BY <3>1
  <2> QED BY SMTT(20), <2>1, <2>2, <2>3 DEF Inv
<1>10. CASE UNCHANGED vars
  BY <1>10, <1>0, QuietStep DEF vars
<1> QED
  BY <1>1, <1>2, <1>3, <1>4, <1>5, <1>6, <1>7, <1>8, <1>9, <1>10 DEF Next, VoteTypes

\* The invariant holds throughout.
LEMMA AlwaysInv == Spec => []Inv
BY InitInv, NextInv, PTL DEF Spec

\* The votes a node counts were broadcast, so its quorums are quorums of those.
LEMMA InvQuorums == Inv => QuorumsAreCast
<1> SUFFICES ASSUME Inv, NEW s \in Slots, NEW type \in VoteTypes,
                    TryGenQuorum(node, s).type = type
             PROVE  Cardinality({v \in Vals : cast[s][v] = type}) >= Threshold
  BY DEF QuorumsAreCast, VoteTypes
<1> DEFINE had == VotesOf(node, s, type)
           all == {v \in Vals : cast[s][v] = type}
           voter == [x \in had |-> x[1]]
<1>1. \A x \in had : x[1] \in all
  <2> SUFFICES ASSUME NEW v \in Vals, NEW i \in DOMAIN node.votes[s][v],
                      node.votes[s][v][i] = type
               PROVE  cast[s][v] = type
    BY SMTT(20) DEF VotesOf
  <2>1. node.votes[s][v] # <<>>
    BY SMTT(20)
  <2>2. node.votes[s][v] = <<cast[s][v]>>
    BY <2>1 DEF Inv
  <2> QED BY SMTT(20), <2>2
<1>2. IsFiniteSet(Vals)
  BY SMTT(20), StateAssumption, FS_Interval DEF Vals
<1>3. IsFiniteSet(all)
  BY <1>2, FS_Subset
<1>4. Cardinality(had) >= Threshold /\ Recovers(had)
  BY DEF TryGenQuorum, VoteTypes
<1>5. voter \in Injection(had, all)
  BY <1>1, <1>4 DEF Recovers, Injection, IsInjective
<1> HIDE DEF had, all, voter
<1>6. /\ Cardinality(had) \in Nat
      /\ Cardinality(all) \in Nat
      /\ Cardinality(had) <= Cardinality(all)
  BY <1>3, <1>5, FS_Injection, FS_CardinalityType
<1>7. Cardinality(all) >= Threshold
  BY SMTT(20), <1>4, <1>6, StateAssumption
<1> QED BY <1>7 DEF all

\* A vote the node has stays as it is.
LEMMA VotesStay ==
    ASSUME Inv, [Next]_vars, NEW s \in Slots, NEW v \in Vals, node.votes[s][v] # <<>>
    PROVE  node'.votes[s][v] = node.votes[s][v]
<1> USE StateAssumption, NodeAssumption
<1>1. CASE EnterNewSlot \/ Propose \/ UNCHANGED vars
           \/ (\E t, parent \in Slots : \E proven \in SUBSET Slots : PeerProposes(t, parent, proven))
           \/ (\E t \in Slots, u \in Vals, type \in {"Support", "Against"} : PeerVotes(t, u, type))
  BY <1>1 DEF EnterNewSlot, Propose, vars, PeerProposes, PeerVotes
<1>2. CASE Apply
  BY <1>2, EnterApplySigns DEF Apply, Inv, Signs
<1>3. CASE (\E b \in own : HandleOwnProposal(b)) \/ (\E t \in Slots : ReceiveProposal(t))
  BY SMTT(20), <1>3, HandleProposalSigns DEF HandleOwnProposal, ReceiveProposal, Inv, Signs
<1>4. ASSUME NEW n, DOMAIN n = Fields, n.votes = node.votes, NEW t, NEW u, NEW type,
             node' = AddVote(n, t, u, type)
      PROVE  node'.votes[s][v] = node.votes[s][v]
  <2>1. CASE n.votes[t][u] # <<>>
    BY <1>4, <2>1 DEF AddVote
  <2>2. CASE n.votes[t][u] = <<>>
    <3>1. node'.votes = [node.votes EXCEPT ![t][u] = Append(@, type)]
      BY <1>4, <2>2 DEF AddVote, Fields
    <3>2. <<t, u>> # <<s, v>>
      BY <1>4, <2>2
    <3> QED BY SMTT(20), <3>1, <3>2 DEF Inv, VoteSets
  <2> QED BY <2>1, <2>2
<1>5. ASSUME NEW x \in node.signed, HandleOwnVote(x)
      PROVE  node'.votes[s][v] = node.votes[s][v]
  <2> DEFINE n == [node EXCEPT !.signed = @ \ {x}]
  <2>1. DOMAIN n = Fields /\ n.votes = node.votes /\ node' = AddVote(n, x.slot, Me, x.type)
    BY <1>5 DEF HandleOwnVote, Inv, Fields
  <2> HIDE DEF n
  <2> QED BY <1>4, <2>1
<1>6. ASSUME NEW t \in Slots, NEW u \in Vals, ReceiveVote(t, u)
      PROVE  node'.votes[s][v] = node.votes[s][v]
  BY <1>4, <1>6 DEF ReceiveVote, Inv
<1> QED BY <1>1, <1>2, <1>3, <1>5, <1>6 DEF Next

\* So a quorum it can make stays, whatever it receives.
LEMMA NextStays ==
    ASSUME Inv, [Next]_vars
    PROVE  \A s \in Slots :
              LET q == TryGenQuorum(node, s).type
              IN q # "Empty" => (TryGenQuorum(node, s).type)' \in {q, "Support"}
<1>1. node.votes \in VoteSets /\ node'.votes \in VoteSets
  BY NextInv DEF Inv
<1> QED BY <1>1, VotesStay, QuorumGrows

-----------------------------------------------------------------------------
(* The blocks in every reachable state *)

\* The slots whose blocks a quorum of the validators has supported.
Sup == {s \in Slots : Supported(s)}

\* The slots whose proposal may exist: this node makes its own in the propose
\* step, and the peers make theirs when they like.
Known == {s \in Slots : s < CurSlot \/ (s = CurSlot /\ Step = "Wait") \/ Proposer(s) # Me}

\* The round.
Rounds ==
    /\ CurSlot \in Slots /\ LastSlot \in Slots /\ Step \in Round!Steps
    /\ IF CurSlot = 0 THEN Step = "Wait" ELSE LastSlot = CurSlot - 1

\* The votes this node has cast are the ones it counts.
OwnVotes ==
    \A s \in Slots :
        node.votes[s][Me] = IF cast[s][Me] = "None" THEN <<>> ELSE <<cast[s][Me]>>

\* The blocks of the node, of its peers and on their way are in order.
Sound ==
    /\ Rounds
    /\ OwnVotes
    /\ InOrder(node, Sup, Known, CurSlot)
    /\ \A b \in own : b \in Blocks(Sup, Known) /\ b.slot # 0
    /\ blocks \in [Slots -> Blocks(Sup, Known)]
    /\ \A s \in Slots : blocks[s] = NoBlock \/ blocks[s].slot = s

\* A support quorum that TryGenQuorum makes at the node is about a supported slot.
LEMMA InvBacked ==
    ASSUME Inv, NEW s \in Slots
    PROVE  Backed(node, s, Sup)
<1>1. QuorumsAreCast
  BY InvQuorums
<1>2. TryGenQuorum(node, s).type = "Support" => Supported(s)
  BY <1>1 DEF QuorumsAreCast, Supported
<1> QED BY <1>2 DEF Backed, Sup

\* Slots follow one another, and their proposals become possible.
LEMMA NextRounds ==
    ASSUME Rounds, [Next]_vars
    PROVE  /\ Rounds'
           /\ CurSlot \in Int /\ CurSlot' \in Int /\ CurSlot <= CurSlot'
           /\ Known \subseteq Known' /\ Known \in SUBSET Slots /\ 0 \in Known
<1>1. CurSlot \in Int /\ CurSlot >= 0 /\ CurSlot <= MaxSlot /\ MaxSlot \in Nat
  BY StateAssumption DEF Rounds, Slots
<1>2. 0 \in Known /\ Known \in SUBSET Slots
  BY <1>1 DEF Known, Rounds, Slots
<1>3. CASE Round!NewSlot
  <2>1. CurSlot' = CurSlot + 1 /\ LastSlot' = CurSlot /\ Step' = "Slot" /\ CurSlot < MaxSlot
    BY <1>3 DEF Round!NewSlot
  <2>2. Rounds'
    BY <1>1, <2>1 DEF Rounds, Round!Steps, Slots
  <2>3. Known \subseteq Known'
    <3>1. \A s \in Slots : s \in Int
      BY SlotNumbers
    <3> QED BY <1>1, <2>1, <3>1 DEF Known
  <2> QED BY <1>1, <1>2, <2>1, <2>2, <2>3
<1>4. CASE Round!Apply \/ Round!Propose
  <2>1. UNCHANGED <<CurSlot, LastSlot>> /\ Step \in {"Slot", "Apply"} /\ Step' \in Round!Steps
    BY <1>4 DEF Round!Apply, Round!Propose, Round!Steps
  <2>2. Rounds'
    BY <2>1 DEF Rounds
  <2>3. Known \subseteq Known'
    BY <2>1 DEF Known
  <2> QED BY SMTT(20), <1>1, <1>2, <2>1, <2>2, <2>3
<1>5. CASE UNCHANGED roundVars
  <2>1. UNCHANGED <<CurSlot, LastSlot, Step>>
    BY <1>5 DEF roundVars
  <2>2. Rounds' /\ Known' = Known
    BY <2>1 DEF Rounds, Known
  <2> QED BY SMTT(20), <1>1, <1>2, <2>1, <2>2
<1>6. Round!NewSlot \/ Round!Apply \/ Round!Propose \/ UNCHANGED roundVars
  BY DEF Next, vars, roundVars, EnterNewSlot, Apply, Propose, HandleOwnProposal, HandleOwnVote,
         ReceiveProposal, ReceiveVote, PeerProposes, PeerVotes
<1> QED BY <1>3, <1>4, <1>5, <1>6

\* A vote that has been broadcast stays, and the node counts its own.
LEMMA NextVotes ==
    ASSUME Inv, OwnVotes, [Next]_vars
    PROVE  /\ OwnVotes'
           /\ \A s \in Slots, v \in Vals : cast[s][v] # "None" => cast'[s][v] = cast[s][v]
<1> USE StateAssumption, NodeAssumption
<1>0. ASSUME node'.votes = node.votes, cast' = cast
      PROVE  /\ OwnVotes'
             /\ \A s \in Slots, v \in Vals : cast[s][v] # "None" => cast'[s][v] = cast[s][v]
  BY <1>0 DEF OwnVotes
<1>1. CASE EnterNewSlot \/ Propose \/ UNCHANGED vars
           \/ \E s, parent \in Slots : \E proven \in SUBSET Slots : PeerProposes(s, parent, proven)
  <2>1. node' = node /\ cast' = cast
    BY <1>1 DEF EnterNewSlot, Propose, vars, PeerProposes
  <2> QED BY <1>0, <2>1
<1>2. CASE Apply
  <2>1. node' = EnterApply(node, CurSlot, LastSlot) /\ cast' = cast /\ DOMAIN node = Fields
    BY <1>2 DEF Apply, Inv
  <2>2. node'.votes = node.votes
    BY <2>1, EnterApplySigns DEF Signs
  <2> QED BY <1>0, <2>1, <2>2
<1>3. ASSUME NEW b, node' = HandleProposal(node, CurSlot, b), cast' = cast
      PROVE  /\ OwnVotes'
             /\ \A s \in Slots, v \in Vals : cast[s][v] # "None" => cast'[s][v] = cast[s][v]
  <2>1. DOMAIN node = Fields
    BY DEF Inv
  <2>2. node'.votes = node.votes
    BY <1>3, <2>1, HandleProposalSigns DEF Signs
  <2> QED BY <1>0, <1>3, <2>2
<1>4. ASSUME NEW x \in node.signed, HandleOwnVote(x)
      PROVE  /\ OwnVotes'
             /\ \A s \in Slots, v \in Vals : cast[s][v] # "None" => cast'[s][v] = cast[s][v]
  <2> DEFINE n == [node EXCEPT !.signed = @ \ {x}]
  <2>1. DOMAIN n = Fields /\ n.votes = node.votes /\ node.votes \in VoteSets /\ cast \in Votes
    BY DEF Inv, Fields
  <2>2. /\ node' = AddVote(n, x.slot, Me, x.type)
        /\ IF node' = n THEN UNCHANGED <<cast, published>> ELSE BroadcastVote(x)
    BY <1>4 DEF HandleOwnVote
  <2> HIDE DEF n
  <2>3. CASE node' = n
    BY <1>0, <2>1, <2>2, <2>3
  <2>4. CASE node' # n
    <3>1. n.votes[x.slot][Me] = <<>> /\ node' = [n EXCEPT !.votes[x.slot][Me] = <<x.type>>]
      <4>1. Append(<<>>, x.type) = <<x.type>>
        BY SMTT(20)
      <4> QED BY <2>2, <2>4, <4>1 DEF AddVote
    <3>2. node'.votes = [node.votes EXCEPT ![x.slot][Me] = <<x.type>>]
      BY <2>1, <3>1 DEF Fields
    <3>3. cast' = [cast EXCEPT ![x.slot][Me] = x.type]
      BY <2>2, <2>4 DEF BroadcastVote
    <3>4. \A s \in Slots :
             node'.votes[s][Me] = IF cast'[s][Me] = "None" THEN <<>> ELSE <<cast'[s][Me]>>
      <4>1. x.type \in VoteTypes
        BY DEF Inv
      <4> QED BY SMTT(20), <2>1, <3>2, <3>3, <4>1 DEF OwnVotes, Votes, VoteSets, VoteTypes
    <3>5. \A s \in Slots, v \in Vals : cast[s][v] # "None" => cast'[s][v] = cast[s][v]
      <4>1. <<cast[x.slot][Me]>> # <<>>
        BY SMTT(20)
      <4>2. x.slot \in Slots => cast[x.slot][Me] = "None"
        BY <2>1, <3>1, <4>1 DEF OwnVotes
      <4> QED BY <2>1, <3>3, <4>2 DEF Votes
    <3> QED BY <3>4, <3>5 DEF OwnVotes
  <2> QED BY <2>3, <2>4
<1>5. ASSUME NEW s \in Slots, NEW v \in Vals, ReceiveVote(s, v)
      PROVE  /\ OwnVotes'
             /\ \A t \in Slots, u \in Vals : cast[t][u] # "None" => cast'[t][u] = cast[t][u]
  <2>1. v # Me /\ node' = AddVote(node, s, v, cast[s][v]) /\ cast' = cast
    BY <1>5 DEF ReceiveVote
  <2>2. DOMAIN node = Fields /\ node.votes \in VoteSets
    BY DEF Inv
  <2>3. \A t \in Slots : node'.votes[t][Me] = node.votes[t][Me]
    BY <2>1, <2>2 DEF AddVote, Fields, VoteSets
  <2> QED BY <2>1, <2>3 DEF OwnVotes
<1>6. ASSUME NEW s \in Slots, NEW v \in Vals, NEW type \in VoteTypes, PeerVotes(s, v, type)
      PROVE  /\ OwnVotes'
             /\ \A t \in Slots, u \in Vals : cast[t][u] # "None" => cast'[t][u] = cast[t][u]
  <2>1. v # Me /\ cast[s][v] = "None" /\ cast' = [cast EXCEPT ![s][v] = type] /\ node' = node
        /\ cast \in Votes
    BY <1>6 DEF PeerVotes, Inv
  <2>2. \A t \in Slots, u \in Vals : <<t, u>> # <<s, v>> => cast'[t][u] = cast[t][u]
    BY <2>1 DEF Votes
  <2> QED BY <2>1, <2>2 DEF OwnVotes
<1>7. ASSUME NEW b \in own, HandleOwnProposal(b)
      PROVE  /\ OwnVotes'
             /\ \A s \in Slots, v \in Vals : cast[s][v] # "None" => cast'[s][v] = cast[s][v]
  BY <1>3, <1>7 DEF HandleOwnProposal
<1>8. ASSUME NEW s \in Slots, ReceiveProposal(s)
      PROVE  /\ OwnVotes'
             /\ \A t \in Slots, v \in Vals : cast[t][v] # "None" => cast'[t][v] = cast[t][v]
  BY <1>3, <1>8 DEF ReceiveProposal
<1> QED BY <1>1, <1>2, <1>4, <1>5, <1>6, <1>7, <1>8 DEF Next, VoteTypes

\* A slot that has the support of a quorum keeps it.
LEMMA SupportStays ==
    ASSUME Inv, OwnVotes, [Next]_vars
    PROVE  Sup \subseteq Sup' /\ Sup \in SUBSET Slots
<1> SUFFICES ASSUME NEW s \in Slots, Supported(s) PROVE Supported(s)'
  BY DEF Sup
<1> DEFINE had == {v \in Vals : cast[s][v] = "Support"}
           has == {v \in Vals : cast'[s][v] = "Support"}
<1>1. had \subseteq has
  BY NextVotes
<1>2. IsFiniteSet(Vals)
  BY StateAssumption, FS_Interval DEF Vals
<1>3. IsFiniteSet(had) /\ IsFiniteSet(has)
  BY <1>2, FS_Subset
<1>4. /\ Cardinality(had) \in Nat /\ Cardinality(has) \in Nat
      /\ Cardinality(had) <= Cardinality(has)
  BY <1>1, <1>3, FS_Subset, FS_CardinalityType
<1>5. Cardinality(had) >= Threshold
  BY DEF Supported
<1> HIDE DEF had, has
<1>6. Cardinality(has) >= Threshold
  BY SMTT(20), <1>4, <1>5, StateAssumption
<1> QED BY <1>6 DEF Supported, has

\* A new node.
LEMMA InitSound == Init => Sound
<1> SUFFICES ASSUME Init PROVE Sound
  OBVIOUS
<1> USE StateAssumption, NodeAssumption
<1>1. CurSlot = 0 /\ LastSlot = 0 /\ Step = "Wait"
  BY DEF Init, Round!Init
<1>2. Rounds
  BY <1>1 DEF Rounds, Slots, Round!Steps
<1>3. OwnVotes
  BY DEF Init, OwnVotes, NewNode
<1>4. Known \in SUBSET Slots /\ 0 \in Known /\ 0 \in Slots
  BY <1>1 DEF Known, Slots
<1>5. NoBlock \in Blocks(Sup, Known) /\ NoBlock.slot = 0
  BY SMTT(20), <1>4 DEF NoBlock, Blocks
<1> DEFINE x == BlockObject(NoBlock, "Committed", NoQuorum)
<1>6. x \in Objects(Sup, Known, 0)
  <2>1. NoQuorum \in Quorums(Sup) /\ NoQuorum.type = "Empty"
    BY <1>4 DEF NoQuorum, Quorums
  <2>2. NoCommit \in [quorum : Quorums(Sup), witness : Nat]
    BY <2>1 DEF NoCommit
  <2>3. /\ x.hash = 0 /\ x.slot = 0 /\ x.evid = <<>> /\ x.state = "Committed" /\ x.vq = NoQuorum
        /\ x \in ObjectRecord(Sup, Known)
    <3>1. <<>> \in Seq(Evidence(Sup))
      OBVIOUS
    <3> QED BY <1>4, <2>1, <2>2, <3>1 DEF BlockObject, NoBlock, ObjectRecord, States
  <2> HIDE DEF x
  <2> QED BY <2>1, <2>3 DEF Objects
<1> HIDE DEF x
<1>7. InOrder(node, Sup, Known, CurSlot)
  <2>1. /\ DOMAIN node = Fields /\ node.prop = NoBlock
        /\ node.future = [s \in Slots |-> NoBlock]
        /\ node.heap = <<x>> /\ node.tree = NewBlockTree /\ node.uncommit = <<>>
    BY DEF Init, NewNode, Fields, x
  <2>2. <<x>> \in Seq(Objects(Sup, Known, 0)) /\ Len(<<x>>) = 1
    BY <1>6
  <2>3. IsTree(NewBlockTree, 1)
    BY DEF IsTree, NewBlockTree
  <2>4. Uncommitted(<<>>, <<x>>)
    BY DEF Uncommitted
  <2>5. Rooted(<<x>>, NewBlockTree)
    <3>1. x.slot = 0
      BY DEF x, BlockObject, NoBlock
    <3> QED BY SMTT(20), <3>1 DEF Rooted, WellShaped, NewBlockTree
  <2> QED BY SMTT(20), <1>1, <1>5, <2>1, <2>2, <2>3, <2>4, <2>5 DEF InOrder
<1>8. own = {} /\ blocks = [s \in Slots |-> NoBlock]
  BY DEF Init
<1> QED BY <1>2, <1>3, <1>5, <1>7, <1>8 DEF Sound

\* A step after which the blocks are as before, for the support and the slots of
\* the state before the step, keeps the invariant.
LEMMA SoundStep ==
    ASSUME Inv, Sound, [Next]_vars,
           InOrder(node', Sup, Known, CurSlot),
           \A b \in own' : b \in Blocks(Sup, Known') /\ b.slot # 0,
           blocks' \in [Slots -> Blocks(Sup, Known)],
           \A s \in Slots : blocks'[s] = NoBlock \/ blocks'[s].slot = s
    PROVE  Sound'
<1>1. Rounds /\ OwnVotes
  BY DEF Sound
<1>2. /\ Rounds' /\ CurSlot \in Int /\ CurSlot' \in Int /\ CurSlot <= CurSlot'
      /\ Known \subseteq Known' /\ Known \in SUBSET Slots
  BY <1>1, NextRounds
<1>3. OwnVotes'
  BY <1>1, NextVotes
<1>4. Sup \subseteq Sup'
  BY <1>1, SupportStays
<1>5. InOrder(node', Sup', Known', CurSlot')
  BY <1>2, <1>4, MoreInOrder
<1>6. \A b \in own' : b \in Blocks(Sup', Known') /\ b.slot # 0
  BY <1>4, MoreBlocks
<1>7. blocks' \in [Slots -> Blocks(Sup', Known')]
  <2>1. \A b \in Blocks(Sup, Known) : b \in Blocks(Sup', Known')
    BY <1>2, <1>4, MoreBlocks
  <2> QED BY <2>1
<1> QED BY <1>2, <1>3, <1>5, <1>6, <1>7 DEF Sound

\* n has the blocks of nd.
SameBlocks(n, nd) ==
    /\ DOMAIN n = Fields
    /\ n.prop = nd.prop /\ n.future = nd.future /\ n.heap = nd.heap
    /\ n.tree = nd.tree /\ n.uncommit = nd.uncommit

\* Such a node is in order when nd is.
LEMMA SameInOrder ==
    ASSUME NEW sup, NEW kn, NEW cur, NEW nd, InOrder(nd, sup, kn, cur), NEW n, SameBlocks(n, nd)
    PROVE  InOrder(n, sup, kn, cur)
  BY DEF InOrder, SameBlocks

\* HandleOwnVote and ReceiveVote, by TryAddVote, do not touch the blocks.
LEMMA VotesLeaveBlocks ==
    ASSUME DOMAIN node = Fields
    PROVE  /\ \A x : HandleOwnVote(x) => SameBlocks(node', node)
           /\ \A s, v : ReceiveVote(s, v) => SameBlocks(node', node)
<1>1. ASSUME NEW nd, DOMAIN nd = Fields, NEW s, NEW v, NEW type
      PROVE  SameBlocks(AddVote(nd, s, v, type), nd)
  BY <1>1 DEF AddVote, SameBlocks, Fields
<1>2. ASSUME NEW x, HandleOwnVote(x) PROVE SameBlocks(node', node)
  <2> DEFINE n == [node EXCEPT !.signed = @ \ {x}]
  <2>1. node' = AddVote(n, x.slot, Me, x.type)
    BY <1>2 DEF HandleOwnVote
  <2>2. SameBlocks(n, node)
    BY DEF SameBlocks, Fields
  <2> HIDE DEF n
  <2>3. SameBlocks(node', n)
    BY SMTT(20), <1>1, <2>1, <2>2 DEF SameBlocks
  <2> QED BY <2>2, <2>3 DEF SameBlocks
<1>3. ASSUME NEW s, NEW v, ReceiveVote(s, v) PROVE SameBlocks(node', node)
  BY <1>1, <1>3 DEF ReceiveVote
<1> QED BY <1>2, <1>3

\* A peer's proposal is a block: the quorums it carries are about blocks on the
\* line of its parent.
LEMMA PeerProposalType ==
    ASSUME Sound, NEW s \in Slots, NEW parent \in Slots, NEW proven \in SUBSET Slots,
           PeerProposes(s, parent, proven)
    PROVE  /\ blocks' \in [Slots -> Blocks(Sup, Known)]
           /\ \A t \in Slots : blocks'[t] = NoBlock \/ blocks'[t].slot = t
           /\ \A t \in Slots : t # s => blocks'[t] = blocks[t]
           /\ s # 0
<1> DEFINE all == [i \in 1..MaxSlot |-> (MaxSlot + 1) - i]
           list == Keep(all, proven)
           evid == [i \in DOMAIN list |-> [hash |-> list[i], type |-> "Support"]]
           b == [slot |-> s, parent |-> parent, evid |-> evid]
<1>1. /\ Proposer(s) # Me /\ s # 0 /\ parent < s
      /\ proven \subseteq {t \in 1..(s - 1) : Supported(t)}
      /\ blocks' = [blocks EXCEPT ![s] = b]
  <2>1. s \in 1..MaxProposal => s # 0
    BY StateAssumption DEF Slots
  <2> QED BY <2>1 DEF PeerProposes
<1>2. all \in Seq(Slots)
  <2>1. MaxSlot \in Nat /\ all \in [1..MaxSlot -> Slots]
    BY SMTT(20), StateAssumption DEF Slots
  <2> HIDE DEF all
  <2> QED BY <2>1, FunctionSeq
<1> HIDE DEF all
<1>3. list \in Seq(Slots \cap proven)
  BY <1>2, KeepType
<1>4. \A t \in proven : t \in Sup /\ t < s
  <2>1. s \in Int /\ \A t \in 1..(s - 1) : t \in Slots /\ t < s
    BY SMTT(20), StateAssumption DEF Slots
  <2> QED BY <1>1, <2>1 DEF Sup
<1> HIDE DEF list
<1>5. evid \in Seq(Evidence(Sup)) /\ \A i \in DOMAIN evid : evid[i].hash < s
  <2>1. /\ Len(list) \in Nat /\ DOMAIN list = 1..Len(list)
        /\ \A i \in DOMAIN list : list[i] \in Sup /\ list[i] < s
    BY SMTT(20), <1>3, <1>4
  <2>2. evid \in [1..Len(list) -> Evidence(Sup)]
    BY <2>1 DEF Evidence
  <2>3. \A i \in DOMAIN evid : evid[i].hash < s
    BY <2>1
  <2> HIDE DEF evid
  <2> QED BY <2>1, <2>2, <2>3, FunctionSeq
<1> HIDE DEF evid
<1>6. s \in Known
  BY <1>1 DEF Known
<1>7. b \in Blocks(Sup, Known) /\ b.slot = s
  BY <1>1, <1>5, <1>6 DEF Blocks
<1> HIDE DEF b
<1>8. blocks \in [Slots -> Blocks(Sup, Known)] /\ \A t \in Slots : blocks[t] = NoBlock \/ blocks[t].slot = t
  BY DEF Sound
<1> QED BY <1>1, <1>7, <1>8

\* Every step keeps the blocks in order.
LEMMA NextSound ==
    ASSUME Inv, Sound, [Next]_vars
    PROVE  Sound'
<1>1. /\ Rounds /\ InOrder(node, Sup, Known, CurSlot)
      /\ \A b \in own : b \in Blocks(Sup, Known) /\ b.slot # 0
      /\ blocks \in [Slots -> Blocks(Sup, Known)]
      /\ \A s \in Slots : blocks[s] = NoBlock \/ blocks[s].slot = s
  BY DEF Sound
<1>2. /\ Known \subseteq Known' /\ Known \in SUBSET Slots /\ 0 \in Known
      /\ CurSlot \in Int /\ CurSlot \in Slots /\ LastSlot \in Slots
  BY <1>1, NextRounds DEF Rounds
<1>3. Sup \in SUBSET Slots
  BY DEF Sup
<1>4. \A b \in Blocks(Sup, Known) : b \in Blocks(Sup, Known')
  BY <1>2, MoreBlocks
<1>5. CASE EnterNewSlot \/ UNCHANGED vars
           \/ (\E s \in Slots, v \in Vals, type \in VoteTypes : PeerVotes(s, v, type))
  <2>1. UNCHANGED <<node, own, blocks>>
    BY <1>5 DEF EnterNewSlot, vars, PeerVotes
  <2> QED BY <1>1, <1>4, <2>1, SoundStep
<1>6. CASE Apply
  <2>1. node' = EnterApply(node, CurSlot, LastSlot) /\ UNCHANGED <<own, blocks>> /\ Step = "Slot"
    BY <1>6 DEF Apply, Round!Apply
  <2>2. LastSlot < CurSlot
    <3>1. LastSlot = CurSlot - 1 /\ CurSlot \in Int
      BY <1>1, <1>2, <2>1, SlotNumbers DEF Rounds
    <3> QED BY SMTT(20), <3>1
  <2>3. Backed(node, LastSlot, Sup)
    BY <1>2, InvBacked
  <2>4. InOrder(node', Sup, Known, CurSlot)
    <3>1. /\ InOrder(node, Sup, Known, CurSlot) /\ Backed(node, LastSlot, Sup)
          /\ LastSlot < CurSlot /\ LastSlot \in Slots /\ CurSlot \in Slots
          /\ Sup \in SUBSET Slots /\ Known \in SUBSET Slots /\ 0 \in Known
      BY <1>1, <1>2, <1>3, <2>2, <2>3
    <3>2. node' = EnterApply(node, CurSlot, LastSlot)
      BY <2>1
    <3> QED BY <3>1, <3>2, EnterApplyInOrder
  <2> QED BY <1>1, <1>4, <2>1, <2>4, SoundStep
<1>7. CASE Propose
  <2>1. /\ own' = IF Proposer(CurSlot) = Me THEN own \cup {CreateProposal(node, CurSlot)} ELSE own
        /\ Step = "Apply" /\ Step' = "Wait" /\ CurSlot' = CurSlot /\ UNCHANGED <<node, blocks>>
    BY <1>7 DEF Propose, Round!Propose
  <2>2. ASSUME Proposer(CurSlot) = Me
        PROVE  /\ CreateProposal(node, CurSlot) \in Blocks(Sup, Known')
               /\ CreateProposal(node, CurSlot).slot # 0
    <3>1. CurSlot \notin Known /\ CurSlot \in Known'
      BY SMTT(20), <1>2, <2>1, <2>2 DEF Known
    <3>2. CurSlot # 0
      BY <1>1, <2>1 DEF Rounds
    <3>3. /\ CreateProposal(node, CurSlot) \in Blocks(Sup, Known')
          /\ CreateProposal(node, CurSlot).slot = CurSlot
      BY SMTT(20), <1>1, <1>2, <1>3, <3>1, CreateProposalType
    <3> QED BY <3>2, <3>3
  <2>3. \A b \in own' : b \in Blocks(Sup, Known') /\ b.slot # 0
    BY <1>1, <1>4, <2>1, <2>2
  <2> QED BY <1>1, <2>1, <2>3, SoundStep
<1>8. ASSUME NEW b \in own, HandleOwnProposal(b)
      PROVE  Sound'
  <2>1. /\ own' = own \ {b} /\ node' = HandleProposal(node, CurSlot, b)
        /\ blocks' = blocks \/ blocks' = [blocks EXCEPT ![b.slot] = b]
    BY <1>8 DEF HandleOwnProposal, BroadcastProposal
  <2>2. b \in Blocks(Sup, Known) /\ b.slot \in Slots
    BY <1>1, <1>2 DEF Blocks
  <2>3. InOrder(node', Sup, Known, CurSlot)
    BY <1>1, <1>2, <1>3, <2>1, <2>2, HandleProposalInOrder
  <2>4. /\ blocks' \in [Slots -> Blocks(Sup, Known)]
        /\ \A s \in Slots : blocks'[s] = NoBlock \/ blocks'[s].slot = s
    BY <1>1, <2>1, <2>2
  <2>5. \A c \in own' : c \in Blocks(Sup, Known') /\ c.slot # 0
    BY <1>1, <1>4, <2>1
  <2> QED BY <2>3, <2>4, <2>5, SoundStep
<1>9. CASE (\E x \in node.signed : HandleOwnVote(x))
           \/ (\E s \in Slots, v \in Vals : ReceiveVote(s, v))
  <2>1. UNCHANGED <<own, blocks>>
    BY <1>9 DEF HandleOwnVote, ReceiveVote
  <2>2. SameBlocks(node', node)
    BY <1>9, VotesLeaveBlocks DEF Inv
  <2>3. InOrder(node', Sup, Known, CurSlot)
    BY <1>1, <2>2, SameInOrder
  <2> QED BY <1>1, <1>4, <2>1, <2>3, SoundStep
<1>10. ASSUME NEW s \in Slots, ReceiveProposal(s)
       PROVE  Sound'
  <2>1. node' = HandleProposal(node, CurSlot, blocks[s]) /\ UNCHANGED <<own, blocks>>
    BY <1>10 DEF ReceiveProposal
  <2>2. blocks[s] \in Blocks(Sup, Known)
    BY <1>1
  <2>3. InOrder(node', Sup, Known, CurSlot)
    BY <1>1, <1>2, <1>3, <2>1, <2>2, HandleProposalInOrder
  <2> QED BY <1>1, <1>4, <2>1, <2>3, SoundStep
<1>11. ASSUME NEW s \in Slots, NEW parent \in Slots, NEW proven \in SUBSET Slots,
              PeerProposes(s, parent, proven)
       PROVE  Sound'
  <2>1. UNCHANGED <<node, own>>
    BY <1>11 DEF PeerProposes
  <2>2. /\ blocks' \in [Slots -> Blocks(Sup, Known)]
        /\ \A t \in Slots : blocks'[t] = NoBlock \/ blocks'[t].slot = t
    BY <1>11, PeerProposalType
  <2> QED BY <1>1, <1>4, <2>1, <2>2, SoundStep
<1> QED BY <1>5, <1>6, <1>7, <1>8, <1>9, <1>10, <1>11 DEF Next, VoteTypes

\* The votes and the blocks are in order throughout.
LEMMA AlwaysSound == Spec => [](Inv /\ Sound)
<1>1. Init => Inv /\ Sound
  BY InitInv, InitSound
<1>2. (Inv /\ Sound) /\ [Next]_vars => (Inv /\ Sound)'
  BY NextInv, NextSound
<1> QED BY <1>1, <1>2, PTL DEF Spec

-----------------------------------------------------------------------------
(* Behaviours in which everything arrives in its own slot *)

\* The slot of the proposal that is applied next.
Due == IF Step = "Slot" THEN LastSlot ELSE CurSlot

\* The blocks of a node before the proposal of slot due is applied.
Before(h, due, sup) ==
    /\ \A o \in DOMAIN h : h[o].slot < due \/ h[o].slot = 0
    /\ \A i, j \in DOMAIN h : h[i].slot = h[j].slot => i = j
    /\ \A o \in DOMAIN h : h[o].state = "Precommit" => h[o].slot \in sup

\* There is no cached proposal, every proposal on its way is of the current slot,
\* and the accepted one has not been applied.
Punctual ==
    /\ node.future = [s \in Slots |-> NoBlock]
    /\ blocks[0] = NoBlock
    /\ \A b \in own : Step = "Wait" /\ b.slot = CurSlot
    /\ node.prop # NoBlock => node.prop.slot = Due /\ Due # 0
    /\ Before(node.heap, Due, Sup)

\* Taking in evidence keeps the blocks as they are, and more support does no harm.
LEMMA RevisedBefore ==
    ASSUME NEW X, NEW h \in Seq(X), NEW h2 \in Seq(X), NEW due, NEW sup, NEW sup2,
           sup \subseteq sup2, Before(h, due, sup), Revised(h2, h, sup)
    PROVE  Before(h2, due, sup2)
<1>1. /\ DOMAIN h2 = DOMAIN h
      /\ \A o \in DOMAIN h : /\ h2[o].slot = h[o].slot
                             /\ h2[o].state = h[o].state \/ h[o].slot \in sup
  BY DEF Revised, SameBlock
<1>2. \A o \in DOMAIN h2 : h2[o].slot < due \/ h2[o].slot = 0
  BY <1>1 DEF Before
<1>3. \A i, j \in DOMAIN h2 : h2[i].slot = h2[j].slot => i = j
  BY <1>1 DEF Before
<1>4. \A o \in DOMAIN h2 : h2[o].state = "Precommit" => h2[o].slot \in sup2
  BY <1>1 DEF Before
<1> QED BY <1>2, <1>3, <1>4 DEF Before

\* The proposal of slot due is applied once, with its own votes.
LEMMA AppliedBefore ==
    ASSUME NEW sup, NEW kn \in SUBSET Slots, NEW cur, NEW h \in Seq(Objects(sup, kn, cur)),
           NEW h2 \in Seq(Objects(sup, kn, cur)),
           NEW due \in Slots, due # 0, Before(h, due, sup), Applied(h2, h, due, due, sup)
    PROVE  Before(h2, due + 1, sup)
<1> DEFINE k == Len(h)
<1>1. /\ k \in Nat /\ DOMAIN h = 1..k /\ DOMAIN h2 = 1..(k + 1)
      /\ \A o \in DOMAIN h : h2[o].slot = h[o].slot
      /\ h2[k + 1].slot = due
  BY DEF Applied
<1>2. due \in Int /\ \A o \in DOMAIN h : h[o].slot \in Int
  <2>1. \A x \in Objects(sup, kn, cur) : x.slot \in Int
    BY SlotNumbers DEF Objects, ObjectRecord
  <2> QED BY SMTT(20), <2>1, SlotNumbers
<1> HIDE DEF k
<1>3. \A o \in DOMAIN h2 : o \in DOMAIN h \/ o = k + 1
  BY <1>1
<1>4. \A o \in DOMAIN h2 : h2[o].slot < due + 1 \/ h2[o].slot = 0
  BY SMTT(20), <1>1, <1>2, <1>3 DEF Before
<1>5. \A i, j \in DOMAIN h2 : h2[i].slot = h2[j].slot => i = j
  <2>1. \A o \in DOMAIN h : h2[o].slot # due
    BY SMTT(20), <1>1, <1>2 DEF Before
  <2>2. \A i, j \in DOMAIN h : h2[i].slot = h2[j].slot => i = j
    BY <1>1 DEF Before
  <2> QED BY <1>1, <1>3, <2>1, <2>2
<1>6. \A o \in DOMAIN h2 : h2[o].state = "Precommit" => h2[o].slot \in sup
  <2>1. ASSUME NEW o \in DOMAIN h, h2[o].state = "Precommit" PROVE h2[o].slot \in sup
    BY <1>1, <2>1 DEF Applied, Before
  <2>2. h2[k + 1].state = "Precommit" => due \in sup
    BY DEF Applied, k
  <2> QED BY <1>1, <1>3, <2>1, <2>2
<1> QED BY <1>4, <1>5, <1>6 DEF Before

\* Punctual holds at the start.
LEMMA InitPunctual == Init => Punctual
<1> SUFFICES ASSUME Init PROVE Punctual
  OBVIOUS
<1>1. /\ node.future = [s \in Slots |-> NoBlock] /\ node.prop = NoBlock
      /\ node.heap = <<BlockObject(NoBlock, "Committed", NoQuorum)>>
      /\ blocks = [s \in Slots |-> NoBlock] /\ own = {} /\ 0 \in Slots
  BY StateAssumption, NodeAssumption DEF Init, NewNode, Slots
<1> DEFINE h == node.heap
<1>2. DOMAIN h = {1} /\ h[1].slot = 0 /\ h[1].state = "Committed"
  BY SMTT(20), <1>1 DEF BlockObject, NoBlock
<1> HIDE DEF h
<1>3. Before(h, Due, Sup)
  BY <1>2 DEF Before
<1> QED BY <1>1, <1>3 DEF Punctual, h

\* A proposal that arrives in its slot is accepted or ignored, never cached.
LEMMA PunctualProposal ==
    ASSUME Inv, Sound, Punctual, [Next]_vars, UNCHANGED roundVars, Step # "Slot",
           NEW b \in Blocks(Sup, Known), b.slot = CurSlot, CurSlot # 0,
           node' = HandleProposal(node, CurSlot, b)
    PROVE  /\ node'.future = [s \in Slots |-> NoBlock]
           /\ node'.prop # NoBlock => node'.prop.slot = Due' /\ Due' # 0
           /\ Before(node'.heap, Due', Sup')
<1>1. Due = CurSlot /\ Due' = CurSlot
  BY DEF Due, roundVars
<1>2. /\ Rounds /\ OwnVotes /\ InOrder(node, Sup, Known, CurSlot)
  BY DEF Sound
<1>3. Known \in SUBSET Slots /\ CurSlot \in Int
  BY <1>2, NextRounds
<1>4. Sup \subseteq Sup' /\ Sup \in SUBSET Slots
  BY <1>2, SupportStays
<1>5. InOrder(node', Sup, Known, CurSlot) /\ Looked(node', node, Sup, CurSlot, b)
  BY <1>2, <1>3, <1>4, HandleProposalInOrder
<1>6. node'.future = node.future /\ Revised(node'.heap, node.heap, Sup)
      /\ (node'.prop = node.prop \/ node'.prop = b)
  <2>1. ~(b.slot > CurSlot)
    BY <1>3
  <2> QED BY <1>5, <2>1 DEF Looked
<1>7. Before(node'.heap, Due', Sup')
  <2>1. node.heap \in Seq(Objects(Sup, Known, CurSlot)) /\ node'.heap \in Seq(Objects(Sup, Known, CurSlot))
    BY <1>2, <1>5 DEF InOrder
  <2>2. Before(node.heap, CurSlot, Sup)
    BY <1>1 DEF Punctual
  <2>3. Before(node'.heap, CurSlot, Sup')
    BY <1>4, <1>6, <2>1, <2>2, RevisedBefore
  <2> QED BY <1>1, <2>3
<1> QED BY <1>1, <1>6, <1>7 DEF Punctual

\* In a timely behaviour every step keeps Punctual.
LEMMA NextPunctual ==
    ASSUME Inv, Sound, timely, Punctual, [Next]_vars
    PROVE  Punctual'
<1>1. /\ Rounds /\ OwnVotes /\ InOrder(node, Sup, Known, CurSlot)
      /\ \A b \in own : b \in Blocks(Sup, Known) /\ b.slot # 0
      /\ blocks \in [Slots -> Blocks(Sup, Known)]
      /\ \A s \in Slots : blocks[s] = NoBlock \/ blocks[s].slot = s
  BY DEF Sound
<1>2. /\ Known \in SUBSET Slots /\ 0 \in Known /\ 0 \in Slots
      /\ CurSlot \in Int /\ CurSlot \in Slots /\ LastSlot \in Slots
  BY <1>1, NextRounds DEF Rounds
<1>3. Sup \subseteq Sup' /\ Sup \in SUBSET Slots
  BY <1>1, SupportStays
<1>4. /\ node.future = [s \in Slots |-> NoBlock] /\ blocks[0] = NoBlock
      /\ \A b \in own : Step = "Wait" /\ b.slot = CurSlot
      /\ node.prop # NoBlock => node.prop.slot = Due /\ Due # 0
      /\ Before(node.heap, Due, Sup)
  BY DEF Punctual
<1>5. Before(node.heap, Due, Sup')
  BY <1>3, <1>4 DEF Before
<1>6. CASE EnterNewSlot
  <2>1. /\ Step = "Wait" /\ own = {} /\ UNCHANGED <<node, own, blocks>>
        /\ LastSlot' = CurSlot /\ Step' = "Slot"
    BY <1>6 DEF EnterNewSlot, Round!NewSlot
  <2>2. Due' = Due
    BY <2>1 DEF Due
  <2> QED BY <1>4, <1>5, <2>1, <2>2 DEF Punctual
<1>7. CASE Apply
  <2>1. /\ node' = EnterApply(node, CurSlot, LastSlot) /\ UNCHANGED <<own, blocks>>
        /\ Step = "Slot" /\ Step' = "Apply" /\ CurSlot' = CurSlot
    BY <1>7 DEF Apply, Round!Apply
  <2>2. LastSlot < CurSlot /\ LastSlot = CurSlot - 1 /\ LastSlot + 1 = CurSlot
    <3>1. LastSlot = CurSlot - 1 /\ CurSlot \in Int
      BY <1>1, <1>2, <2>1, SlotNumbers DEF Rounds
    <3> QED BY SMTT(20), <3>1
  <2>3. Due = LastSlot /\ Due' = CurSlot
    BY <2>1 DEF Due
  <2>4. Backed(node, LastSlot, Sup)
    BY <1>2, InvBacked
  <2>5. /\ InOrder(node', Sup, Known, CurSlot) /\ node'.prop = NoBlock
        /\ node'.future = node.future \/ node.future[CurSlot].slot > CurSlot
        /\ Entered(node'.heap, node.heap, node.prop, node.future, LastSlot, Sup, CurSlot)
    <3>1. /\ InOrder(node, Sup, Known, CurSlot) /\ Backed(node, LastSlot, Sup)
          /\ LastSlot < CurSlot /\ LastSlot \in Slots /\ CurSlot \in Slots
          /\ Sup \in SUBSET Slots /\ Known \in SUBSET Slots /\ 0 \in Known
      BY <1>1, <1>2, <1>3, <2>2, <2>4
    <3>2. node' = EnterApply(node, CurSlot, LastSlot)
      BY <2>1
    <3> QED BY <3>1, <3>2, EnterApplyInOrder
  <2>6. node.future[CurSlot] = NoBlock /\ node'.future = node.future
    <3>1. node.future[CurSlot] = NoBlock
      BY <1>2, <1>4
    <3>2. ~(NoBlock.slot > CurSlot)
      BY SMTT(20), <1>2, SlotNumbers DEF NoBlock
    <3> QED BY <2>5, <3>1, <3>2
  <2>7. own = {}
    BY <1>4, <2>1
  <2>8. Before(node'.heap, CurSlot, Sup)
    <3>1. node.heap \in Seq(Objects(Sup, Known, CurSlot)) /\ node'.heap \in Seq(Objects(Sup, Known, CurSlot))
      BY <1>1, <2>5 DEF InOrder
    <3>2. CASE node'.heap = node.heap
      <4>1. \A o \in DOMAIN node.heap : node.heap[o].slot \in Int
        <5>1. \A x \in Objects(Sup, Known, CurSlot) : x.slot \in Int
          BY <1>2, SlotNumbers DEF Objects, ObjectRecord
        <5> QED BY SMTT(20), <3>1, <5>1
      <4>2. LastSlot \in Int
        BY <1>2, SlotNumbers
      <4>3. Before(node.heap, CurSlot, Sup)
        <5>1. \A i \in Int : i < LastSlot => i < CurSlot
          BY SMTT(20), <2>2, <4>2
        <5> QED BY <1>4, <2>2, <2>3, <4>1, <5>1 DEF Before
      <4> QED BY <3>2, <4>3
    <3>3. CASE node'.heap # node.heap
      <4>1. node.prop # NoBlock /\ Applied(node'.heap, node.heap, node.prop.slot, LastSlot, Sup)
        BY <2>5, <2>6, <3>3 DEF Entered
      <4>2. Applied(node'.heap, node.heap, LastSlot, LastSlot, Sup) /\ LastSlot # 0
        BY <1>4, <2>3, <4>1
      <4>3. Before(node.heap, LastSlot, Sup)
        BY <1>4, <2>3
      <4>4. Before(node'.heap, LastSlot + 1, Sup)
        BY <1>2, <3>1, <4>2, <4>3, AppliedBefore
      <4> QED BY <2>2, <4>4
    <3> QED BY <3>2, <3>3
  <2>9. Before(node'.heap, Due', Sup')
    BY <1>3, <2>3, <2>8 DEF Before
  <2> QED BY <1>4, <2>1, <2>5, <2>6, <2>7, <2>9 DEF Punctual
<1>8. CASE Propose
  <2>1. /\ own' \subseteq own \cup {CreateProposal(node, CurSlot)}
        /\ Step = "Apply" /\ Step' = "Wait" /\ CurSlot' = CurSlot /\ UNCHANGED <<node, blocks>>
    BY <1>8 DEF Propose, Round!Propose
  <2>2. Due' = Due
    BY <2>1 DEF Due
  <2>3. CreateProposal(node, CurSlot).slot = CurSlot
    BY DEF CreateProposal
  <2> QED BY <1>4, <1>5, <2>1, <2>2, <2>3 DEF Punctual
<1>9. ASSUME NEW b \in own, HandleOwnProposal(b)
      PROVE  Punctual'
  <2>1. /\ own' = own \ {b} /\ node' = HandleProposal(node, CurSlot, b)
        /\ blocks' = blocks \/ blocks' = [blocks EXCEPT ![b.slot] = b]
        /\ UNCHANGED roundVars
    BY <1>9 DEF HandleOwnProposal, BroadcastProposal
  <2>2. Step = "Wait" /\ b.slot = CurSlot /\ CurSlot # 0 /\ b \in Blocks(Sup, Known)
    BY <1>1, <1>4
  <2>3. /\ node'.future = [s \in Slots |-> NoBlock]
        /\ node'.prop # NoBlock => node'.prop.slot = Due' /\ Due' # 0
        /\ Before(node'.heap, Due', Sup')
    BY <2>1, <2>2, PunctualProposal
  <2>4. blocks'[0] = NoBlock
    BY <1>1, <1>2, <1>4, <2>1, <2>2
  <2>5. \A c \in own' : Step' = "Wait" /\ c.slot = CurSlot'
    BY <1>4, <2>1 DEF roundVars
  <2> QED BY <2>3, <2>4, <2>5 DEF Punctual
<1>10. CASE (\E x \in node.signed : HandleOwnVote(x))
            \/ (\E s \in Slots, v \in Vals : ReceiveVote(s, v))
  <2>1. UNCHANGED <<own, blocks, roundVars>>
    BY <1>10 DEF HandleOwnVote, ReceiveVote
  <2>2. node'.prop = node.prop /\ node'.future = node.future /\ node'.heap = node.heap
    BY <1>10, VotesLeaveBlocks DEF Inv, SameBlocks
  <2>3. Due' = Due /\ Step' = Step /\ CurSlot' = CurSlot
    BY <2>1 DEF Due, roundVars
  <2> QED BY <1>4, <1>5, <2>1, <2>2, <2>3 DEF Punctual
<1>11. ASSUME NEW s \in Slots, ReceiveProposal(s)
       PROVE  Punctual'
  <2>1. /\ node' = HandleProposal(node, CurSlot, blocks[s]) /\ UNCHANGED <<own, blocks, roundVars>>
        /\ blocks[s] # NoBlock /\ s = CurSlot /\ Step # "Slot"
    BY <1>11 DEF ReceiveProposal
  <2>2. blocks[s] \in Blocks(Sup, Known) /\ blocks[s].slot = CurSlot /\ CurSlot # 0
    BY <1>1, <1>4, <2>1
  <2>3. /\ node'.future = [t \in Slots |-> NoBlock]
        /\ node'.prop # NoBlock => node'.prop.slot = Due' /\ Due' # 0
        /\ Before(node'.heap, Due', Sup')
    BY <2>1, <2>2, PunctualProposal
  <2> QED BY <1>4, <2>1, <2>3 DEF Punctual, roundVars
<1>12. ASSUME NEW s \in Slots, NEW parent \in Slots, NEW proven \in SUBSET Slots,
              PeerProposes(s, parent, proven)
       PROVE  Punctual'
  <2>1. UNCHANGED <<node, own, roundVars>>
    BY <1>12 DEF PeerProposes
  <2>2. blocks'[0] = NoBlock
    BY <1>2, <1>4, <1>12, PeerProposalType
  <2>3. Due' = Due /\ Step' = Step /\ CurSlot' = CurSlot
    BY <2>1 DEF Due, roundVars
  <2> QED BY <1>4, <1>5, <2>1, <2>2, <2>3 DEF Punctual
<1>13. CASE UNCHANGED vars \/ (\E s \in Slots, v \in Vals, type \in VoteTypes : PeerVotes(s, v, type))
  <2>1. UNCHANGED <<node, own, blocks, roundVars>>
    BY <1>13 DEF PeerVotes, vars, roundVars
  <2>2. Due' = Due /\ Step' = Step /\ CurSlot' = CurSlot
    BY <2>1 DEF Due, roundVars
  <2> QED BY <1>4, <1>5, <2>1, <2>2 DEF Punctual
<1> QED BY <1>6, <1>7, <1>8, <1>9, <1>10, <1>11, <1>12, <1>13 DEF Next, VoteTypes

-----------------------------------------------------------------------------
(* The results *)

\* However often a node signs a vote on the proposal of a slot, and whatever its
\* peers send it, it broadcasts one vote in the slot.
THEOREM OneVote == Spec => []OneVotePerSlot
<1>1. Inv => OneVotePerSlot
  BY SMTT(20), StateAssumption DEF Inv, OneVotePerSlot
<1> QED BY <1>1, AlwaysInv, PTL

\* A quorum TryGenQuorum makes at a node is one of votes that were broadcast.
THEOREM CastQuorums == Spec => []QuorumsAreCast
BY InvQuorums, AlwaysInv, PTL

\* A vote that SlotVoteSet.AddVote is given late, or again, never takes away a
\* quorum that TryGenQuorum could make before, and never turns support around.
THEOREM HeldQuorums == Spec => QuorumsStay
BY AlwaysInv, NextStays, PTL DEF Spec, QuorumsStay

\* However proposals and votes arrive, State.UnCommitBlocks holds suspect and
\* precommit blocks only.
THEOREM UncommittedBlocks == Spec => []UncommittedStates
<1>1. Sound => UncommittedStates
  BY DEF Sound, InOrder, Uncommitted, UncommittedStates, Open
<1> QED BY <1>1, AlwaysSound, PTL

\* A support quorum that a node puts on a block, carries in its proposal or passes
\* on was made of votes on the block it names.
THEOREM SoundQuorums == Spec => []QuorumsAreSound
<1>1. Sound => QuorumsAreSound
  <2> SUFFICES ASSUME Sound PROVE QuorumsAreSound
    OBVIOUS
  <2>1. ASSUME NEW o \in DOMAIN node.heap, node.heap[o].vq.type = "Support"
        PROVE  Supported(node.heap[o].vq.hash)
    <3>1. node.heap[o] \in Objects(Sup, Known, CurSlot)
      BY SMTT(20) DEF Sound, InOrder
    <3>2. node.heap[o].vq.hash \in Sup
      BY <2>1, <3>1 DEF Objects, ObjectRecord, Quorums
    <3> QED BY <3>2 DEF Sup
  <2>2. ASSUME NEW b \in own \cup {blocks[s] : s \in Slots}, NEW i \in DOMAIN b.evid
        PROVE  b.evid[i].type = "Support" /\ Supported(b.evid[i].hash)
    <3>1. b \in Blocks(Sup, Known)
      BY DEF Sound
    <3>2. b.evid \in Seq(Evidence(Sup))
      BY <3>1 DEF Blocks
    <3>3. b.evid[i] \in Evidence(Sup)
      BY <3>2
    <3> QED BY <3>3 DEF Evidence, Sup
  <2> QED BY <2>1, <2>2 DEF QuorumsAreSound
<1> QED BY <1>1, AlwaysSound, PTL

\* While everything arrives in its own slot, enterApply applies a proposal once and
\* with the votes on it, so that a precommit block has its quorum.
THEOREM TimelyNode == Spec => []TimelyApply
<1> DEFINE P == timely => Punctual
<1>1. Init => P
  BY InitPunctual
<1>2. Inv /\ Sound /\ P /\ [Next]_vars => P'
  <2>1. [Next]_vars => timely' = timely
    BY DEF Next, vars, EnterNewSlot, Apply, Propose, HandleOwnProposal, HandleOwnVote,
           ReceiveProposal, ReceiveVote, PeerProposes, PeerVotes
  <2> QED BY <2>1, NextPunctual
<1>3. Sound /\ P => TimelyApply
  <2> SUFFICES ASSUME Sound, timely, Punctual PROVE AppliedOnce /\ PrecommitIsSupported
    BY DEF TimelyApply
  <2>1. Before(node.heap, Due, Sup)
    BY DEF Punctual
  <2> QED BY <2>1 DEF Before, AppliedOnce, PrecommitIsSupported, Sup
<1> HIDE DEF P
<1> QED BY <1>1, <1>2, <1>3, AlwaysSound, PTL DEF Spec

\* Whatever blocks, votes and evidence the node has taken in, in whatever order,
\* a proposal of CreateProposal follows a newest block below a newest precommit
\* block of its tree and carries the quorums of exactly the precommit blocks on
\* the way to the nearest committed one.
THEOREM ProposesNewest == Spec => ProposesOnNewest
<1> DEFINE h == node.heap
           t == node.tree
           Meant(b) == \E n \in DOMAIN t :
                          LET list == PrecommitBlocks(h, t, n)
                          IN /\ IsLatest(h, t, n) /\ IsEvidence(h, t, n, list)
                             /\ b.parent = h[t[n].data].hash
                             /\ b.evid = [i \in DOMAIN list |-> h[list[i]].vq]
           latest == GetLatestBlock(h, t)
           c == CreateProposal(node, CurSlot)
<1>1. ASSUME Sound PROVE Meant(c)
  <2>1. InOrder(node, Sup, Known, CurSlot) /\ Known \in SUBSET Slots
    BY <1>1 DEF Sound, Known
  <2>2. /\ Len(h) \in Nat /\ DOMAIN h = 1..Len(h)
        /\ IsTree(t, Len(h)) /\ Climbs(h, t)
    <3>1. Climbs(h, t)
      BY <2>1, InOrderClimbs
    <3>2. h \in Seq(Objects(Sup, Known, CurSlot)) /\ IsTree(t, Len(h))
      BY <2>1 DEF InOrder
    <3> HIDE DEF h, t
    <3> QED BY SMTT(20), <3>1, <3>2
  <2>3. /\ c.parent = h[t[latest].data].hash
        /\ c.evid = [i \in DOMAIN PrecommitBlocks(h, t, latest) |->
                        h[PrecommitBlocks(h, t, latest)[i]].vq]
    BY DEF CreateProposal
  <2> HIDE DEF h, t, c
  <2>4. latest \in DOMAIN t /\ IsLatest(h, t, latest)
    BY <2>2, LatestType, LatestIsFound
  <2> HIDE DEF latest
  <2>5. IsEvidence(h, t, latest, PrecommitBlocks(h, t, latest))
    BY <2>2, <2>4, EvidenceIsFound
  <2> QED BY <2>3, <2>4, <2>5
<1> HIDE DEF Meant, c
<1>2. ASSUME Next, NEW b \in own' \ own PROVE b = c
  <2>1. CASE Propose
    BY <2>1 DEF Propose, c
  <2>2. CASE ~Propose
    <3>1. own' \subseteq own
      BY <1>2, <2>2 DEF Next, EnterNewSlot, Apply, HandleOwnProposal, HandleOwnVote,
         ReceiveProposal, ReceiveVote, PeerProposes, PeerVotes
    <3> QED BY <3>1
  <2> QED BY <2>1, <2>2
<1>3. Sound /\ [Next]_vars => [\A b \in own' \ own : Meant(b)]_vars
  BY <1>1, <1>2
<1>4. Sound /\ [Next]_vars => [\A b \in own' \ own : \E n \in DOMAIN node.tree :
          LET list == PrecommitBlocks(node.heap, node.tree, n)
          IN /\ IsLatest(node.heap, node.tree, n)
             /\ IsEvidence(node.heap, node.tree, n, list)
             /\ b.parent = node.heap[node.tree[n].data].hash
             /\ b.evid = [i \in DOMAIN list |-> node.heap[list[i]].vq]]_vars
  BY <1>3 DEF Meant, h, t
<1> QED BY <1>4, AlwaysSound, PTL DEF Spec, ProposesOnNewest
=============================================================================

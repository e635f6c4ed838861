---------------------------- MODULE ServiceProofs ----------------------------
(***************************************************************************)
(* The node for any number of handlers, subscribers and guardians and any  *)
(* capacity: its engine is the one of Aggregator, whose theorems therefore *)
(* hold of it; receivers stay inside their ring; the counts that mutations *)
(* answer are true; and a client that has read everything knows of its     *)
(* message what the stores know, unless calls met over that message.       *)
(***************************************************************************)
EXTENDS Service, OverlapProofs

-----------------------------------------------------------------------------
(* The engine behind the mutations.                                        *)

LEMMA CallIsRequest ==
  ASSUME NEW t \in Task, Call(t)
  PROVE  Request(t)
<1>1. ASSUME Mutation(t) PROVE Request(t)
  <2>1. CASE \E id \in MessageId, index \in SetIndex :
                submit_observation(t, id, index)
    BY <2>1 DEF submit_observation, Request
  <2>2. ASSUME NEW id \in MessageId, NEW g \in 0 .. Len(secret_keys),
               sign_as_guardian(t, id, g)
        PROVE  Request(t)
    <3>1. g < Len(secret_keys) /\ Len(secret_keys) \in Nat
      BY <2>2, ServiceAssumption, LenProperties DEF derive, sign_as_guardian, sign
    <3>2. sign(g) \in Signatures
      BY <3>1, GenuineOffered
    <3>3. QED
      BY <2>2, <3>2 DEF sign_as_guardian, Request
  <2>3. QED
    BY <1>1, <2>1, <2>2 DEF Mutation
<1>2. QED
  BY <1>1 DEF Call, DirectCall, Request

\* Serving clients is handling requests.
LEMMA ServiceStep ==
  ASSUME [ServiceNext]_service
  PROVE  [OverlapNext]_<<vars, contended>>
<1>1. ASSUME NEW t \in Task, Handle(t) PROVE Step(t) /\ UNCHANGED contended
  BY <1>1 DEF Handle, QuietStep, ObservedStep, SignatureStep, AssembledStep, Step
<1>2. ASSUME NEW t \in Task, Call(t) PROVE Request(t) /\ Watch
  BY <1>2, CallIsRequest DEF Call
<1>3. ASSUME NEW s \in Subscriber, Subscribe(s) \/ NextEvent(s)
      PROVE  UNCHANGED <<vars, contended>>
  BY <1>3 DEF Subscribe, NextEvent
<1>4. CASE UNCHANGED service
  BY <1>4 DEF service
<1>5. QED
  BY <1>1, <1>2, <1>3, <1>4 DEF ServiceNext, OverlapNext

(* Every behaviour of the node is one of the engine's, with the meetings   *)
(* of its handlers on record: what is proved of Aggregator and of Overlap  *)
(* holds of the node, whatever its subscribers do.                         *)
THEOREM ServiceImplementsEngine == ServiceSpec => OverlapSpec
<1>1. ServiceInit => OverlapInit
  BY DEF ServiceInit
<1>2. [ServiceNext]_service => [OverlapNext]_<<vars, contended>>
  BY ServiceStep
<1>3. QED
  BY <1>1, <1>2, PTL DEF ServiceSpec, OverlapSpec

LEMMA ServiceInvariance == ServiceSpec => [](IInv /\ OverlapInv)
BY ServiceImplementsEngine, OverlapIsSpec, Invariance, OverlapInvariance, PTL

-----------------------------------------------------------------------------
(* The channel.                                                            *)

ChannelTypeOK ==
  /\ unread \in [Subscriber -> Seq(GqlEvent) \cup {None}]
  /\ \A s \in Subscriber : unread[s] # None => Len(unread[s]) <= capacity
  /\ missed \in SUBSET Subscriber
  /\ late \in SUBSET Subscriber
  /\ view \in [Subscriber ->
                [status : {"unknown", "collecting", "complete"}, have : Nat]]

LEMMA FollowedType ==
  ASSUME NEW seen \in [status : {"unknown", "collecting", "complete"}, have : Nat],
         NEW event \in GqlEvent
  PROVE  Follow(seen, event) \in
           [status : {"unknown", "collecting", "complete"}, have : Nat]
<1>1. CASE event.kind = "MESSAGE_OBSERVED"
  BY <1>1 DEF Follow
<1>2. CASE event.kind = "SIGNATURE_COLLECTED"
  <2>1. event.have \in Nat
    BY <1>2 DEF GqlEvent
  <2>2. Follow(seen, event) = [seen EXCEPT !.have = event.have]
    BY <1>2 DEF Follow
  <2>3. QED
    BY <2>1, <2>2
<1>3. CASE event.kind = "VAA_ASSEMBLED"
  <2>1. Follow(seen, event) = [seen EXCEPT !.status = "complete"]
    BY <1>3 DEF Follow
  <2>2. QED
    BY <2>1
<1>4. QED
  BY <1>1, <1>2, <1>3 DEF GqlEvent

\* A receiver that has fallen a whole ring behind loses its oldest event.
LEMMA SentType ==
  ASSUME ChannelTypeOK, NEW event \in GqlEvent, Send(event)
  PROVE  ChannelTypeOK'
<1> DEFINE next(s) ==
      IF s \notin Subscribed THEN None
      ELSE IF Lagging(s) THEN keep_latest(Append(unread[s], event))
      ELSE Append(unread[s], event)
<1>1. /\ unread' = [s \in Subscriber |-> next(s)]
      /\ missed' = missed \cup {s \in Subscribed : Lagging(s)}
      /\ late' = late /\ view' = view
  BY DEF Send, client
<1>2. capacity \in Nat \ {0}
  BY ServiceAssumption
<1>3. ASSUME NEW s \in Subscriber
      PROVE  /\ next(s) \in Seq(GqlEvent) \cup {None}
             /\ next(s) # None => Len(next(s)) <= capacity
  <2> DEFINE grown == Append(unread[s], event)
  <2>1. CASE s \notin Subscribed
    BY <2>1
  <2>2. CASE s \in Subscribed
    <3>1. /\ unread[s] \in Seq(GqlEvent)
          /\ Len(unread[s]) \in Nat /\ Len(unread[s]) <= capacity
      BY <2>2, LenProperties DEF ChannelTypeOK, Subscribed
    <3>2. grown \in Seq(GqlEvent) /\ Len(grown) = Len(unread[s]) + 1
      BY <3>1, AppendProperties
    <3> HIDE DEF grown
    <3>3. CASE Lagging(s)
      <4>1. Len(grown) = capacity + 1
        BY <3>2, <3>3 DEF Lagging
      <4>2. keep_latest(grown) = SubSeq(grown, 2, capacity + 1)
        BY <1>2, <4>1 DEF keep_latest
      <4>3. SubSeq(grown, 2, capacity + 1) \in Seq(GqlEvent)
            /\ Len(SubSeq(grown, 2, capacity + 1)) = capacity
        BY <1>2, <3>2, <4>1, SubSeqProperties
      <4>4. next(s) = keep_latest(grown)
        BY <2>2, <3>3 DEF grown
      <4>5. next(s) = SubSeq(grown, 2, capacity + 1)
        BY <4>2, <4>4
      <4> HIDE DEF next
      <4>6. QED
        BY <1>2, <4>3, <4>5
    <3>4. CASE ~ Lagging(s)
      <4>1. Len(grown) <= capacity
        BY <1>2, <3>1, <3>2, <3>4 DEF Lagging
      <4>2. next(s) = grown
        BY <2>2, <3>4 DEF grown
      <4> HIDE DEF next
      <4>3. QED
        BY <3>2, <4>1, <4>2
    <3>5. QED
      BY <3>3, <3>4
  <2>3. QED
    BY <2>1, <2>2
<1> HIDE DEF next
<1>4. missed' \in SUBSET Subscriber
  BY <1>1 DEF ChannelTypeOK, Subscribed
<1>5. QED
  BY <1>1, <1>3, <1>4 DEF ChannelTypeOK

LEMMA ChannelStep ==
  ASSUME IInv, ChannelTypeOK, [ServiceNext]_service
  PROVE  ChannelTypeOK'
<1>1. ASSUME UNCHANGED <<channel, client>> PROVE ChannelTypeOK'
  BY <1>1 DEF ChannelTypeOK, channel, client
<1>2. ASSUME NEW t \in Task, ObservedStep(t) PROVE ChannelTypeOK'
  <2>1. frame[t].id \in MessageId
    BY <1>2 DEF ObservedStep, AnnounceObserved, IInv, HandlerInv, ObserveInv,
                ObserveSteps
  <2>2. [kind |-> "MESSAGE_OBSERVED", message_id |-> frame[t].id] \in GqlEvent
    BY <2>1 DEF GqlEvent
  <2>3. QED
    BY <1>2, <2>2, SentType DEF ObservedStep
<1>3. ASSUME NEW t \in Task, SignatureStep(t) PROVE ChannelTypeOK'
  <2> DEFINE held == frame[t].held
             event == [kind |-> "SIGNATURE_COLLECTED", message_id |-> frame[t].id,
                       guardian_index |-> frame[t].sig.guardian_index,
                       have |-> Len(held.signatures),
                       needed |-> quorum(held.guardian_count)]
  <2>1. /\ frame[t].id \in MessageId /\ frame[t].sig \in GuardianSignature
        /\ held \in PendingObservation
    BY <1>3, SignaturesAssumption
       DEF SignatureStep, AnnounceSignature, IInv, HandlerInv, SubmitInv, SubmitSteps
  <2>2. /\ frame[t].sig.guardian_index \in Nat
        /\ held.signatures \in Seq(GuardianSignature) /\ held.guardian_count \in Nat
    BY <2>1, SignatureIndex DEF PendingObservation
  <2>3. Len(held.signatures) \in Nat /\ quorum(held.guardian_count) \in Nat
    BY <2>2, LenProperties, QuorumIsSupermajority
  <2>4. Send(event)
    BY <1>3 DEF SignatureStep
  <2> HIDE DEF held
  <2>5. event \in GqlEvent
    BY <2>1, <2>2, <2>3 DEF GqlEvent
  <2> HIDE DEF event
  <2>6. QED
    BY <2>4, <2>5, SentType
<1>4. ASSUME NEW t \in Task, AssembledStep(t) PROVE ChannelTypeOK'
  <2>1. frame[t].id \in MessageId
    BY <1>4 DEF AssembledStep, AnnounceVaa, IInv, HandlerInv, SubmitInv, SubmitSteps
  <2>2. [kind |-> "VAA_ASSEMBLED", message_id |-> frame[t].id] \in GqlEvent
    BY <2>1 DEF GqlEvent
  <2>3. QED
    BY <1>4, <2>2, SentType DEF AssembledStep
<1>5. ASSUME NEW s \in Subscriber, Subscribe(s) PROVE ChannelTypeOK'
  <2>1. <<>> \in Seq(GqlEvent) /\ Len(<<>>) = 0 /\ capacity \in Nat
    BY ServiceAssumption
  <2>2. QED
    BY <1>5, <2>1 DEF Subscribe, ChannelTypeOK
<1>6. ASSUME NEW s \in Subscriber, NextEvent(s) PROVE ChannelTypeOK'
  <2>1. /\ unread[s] \in Seq(GqlEvent) /\ unread[s] # <<>>
        /\ Len(unread[s]) <= capacity
        /\ unread' = [unread EXCEPT ![s] = Tail(unread[s])]
        /\ missed' = missed /\ late' = late
    BY <1>6 DEF NextEvent, Subscribed, ChannelTypeOK
  <2>2. /\ Head(unread[s]) \in GqlEvent /\ Tail(unread[s]) \in Seq(GqlEvent)
        /\ Len(Tail(unread[s])) = Len(unread[s]) - 1 /\ Len(unread[s]) \in Nat
    BY <2>1, HeadTailProperties, LenProperties
  <2>3. capacity \in Nat
    BY ServiceAssumption
  <2>4. Len(Tail(unread[s])) <= capacity
    BY <2>1, <2>2, <2>3
  <2>5. view' = view \/ view' = [view EXCEPT ![s] = Follow(view[s], Head(unread[s]))]
    BY <1>6 DEF NextEvent
  <2>6. view[s] \in [status : {"unknown", "collecting", "complete"}, have : Nat]
    BY DEF ChannelTypeOK
  <2>7. Follow(view[s], Head(unread[s])) \in
          [status : {"unknown", "collecting", "complete"}, have : Nat]
    BY <2>2, <2>6, FollowedType
  <2>8. QED
    BY <2>1, <2>2, <2>4, <2>5, <2>7 DEF ChannelTypeOK
<1>7. CASE UNCHANGED service
  BY <1>1, <1>7 DEF service
<1>8. QED
  BY <1>1, <1>2, <1>3, <1>4, <1>5, <1>6, <1>7
     DEF ServiceNext, Call, Handle, QuietStep

(* The service's state keeps its types; no receiver ever holds more than   *)
(* the ring of the channel, however slow its client is.                    *)
THEOREM ServiceTypeCorrect == ServiceSpec => []ServiceTypeOK
<1>1. ServiceInit => ChannelTypeOK
  BY DEF ServiceInit, ChannelTypeOK
<1>2. IInv /\ ChannelTypeOK /\ [ServiceNext]_service => ChannelTypeOK'
  BY ChannelStep
<1>3. IInv /\ ChannelTypeOK => ServiceTypeOK
  BY DEF IInv, ChannelTypeOK, ServiceTypeOK
<1>4. QED
  BY <1>1, <1>2, <1>3, ServiceInvariance, PTL DEF ServiceSpec

-----------------------------------------------------------------------------
(* The counts of the answers.                                              *)

(* A handler's copy holds at most one signature more than the stored       *)
(* observation it was cloned from, which was short of its quorum: it never *)
(* exceeds the quorum, and one that completes a VAA meets it exactly.      *)
ReplyInv(t) ==
  LET held == frame[t].held IN
  /\ pc[t] = "LoadSet" => ~ quorum_reached(held)
  /\ pc[t] \in {"AnnounceSignature", "StoreSignature", "SaveVaa"} =>
       Len(held.signatures) <= quorum(held.guardian_count)
  /\ pc[t] \in {"ClearPending", "AnnounceVaa"} =>
       Len(held.signatures) = quorum(held.guardian_count)

CountsInv == \A t \in Task : ReplyInv(t)

LEMMA CopyCounts ==
  ASSUME IInv, NEW t \in Task,
         pc[t] \in {"LoadSet", "AnnounceSignature", "StoreSignature", "SaveVaa",
                   "ClearPending", "AnnounceVaa"}
  PROVE  /\ Len(frame[t].held.signatures) \in Nat
         /\ quorum(frame[t].held.guardian_count) \in Nat
<1>1. frame[t].held \in PendingObservation
  BY DEF IInv, HandlerInv, SubmitInv, SubmitSteps
<1> QED
  BY <1>1, LenProperties, QuorumIsSupermajority DEF PendingObservation

LEMMA StepCounts ==
  ASSUME IInv, NEW t \in Task, ReplyInv(t), Step(t) \/ Fault(t)
  PROVE  ReplyInv(t)'
<1> USE DEF Goto
<1>1. pc \in [Task -> Steps] /\ frame \in [Task -> Frame]
  BY DEF IInv, TypeOK
<1>2. CASE Return(t)
  BY <1>2, ReturnMoves DEF ReplyInv
<1>3. CASE LoadPending(t) /\ ~ Return(t)
  <2>1. /\ pc[t] = "LoadPending" /\ pc'[t] = "LoadSet"
        /\ frame'[t].held = pending[frame[t].id] /\ pending[frame[t].id] # None
    BY <1>1, <1>3 DEF LoadPending, Frame
  <2>2. frame[t].id \in MessageId
    BY <2>1 DEF IInv, HandlerInv, SubmitInv, SubmitSteps
  <2>3. ~ quorum_reached(pending[frame[t].id])
    BY <2>1, <2>2 DEF IInv, StoresGood, StoresInv
  <2> QED
    BY <2>1, <2>3 DEF ReplyInv, quorum_reached
<1>4. CASE LoadSet(t) /\ ~ Return(t)
  <2>1. PICK held, grown : held = frame[t].held /\ grown = frame'[t].held
    OBVIOUS
  <2>2. pc[t] = "LoadSet"
    BY <1>4 DEF LoadSet
  <2>3. /\ pc'[t] = "AnnounceSignature"
        /\ grown.guardian_count = held.guardian_count
        /\ Len(grown.signatures) = Len(held.signatures) + 1
    BY <1>4, <2>1, CopyGrows
  <2>4. /\ Len(held.signatures) \in Nat /\ quorum(held.guardian_count) \in Nat
        /\ ~ Len(held.signatures) >= quorum(held.guardian_count)
    BY <2>1, <2>2, CopyCounts DEF ReplyInv, quorum_reached
  <2>5. Len(grown.signatures) <= quorum(grown.guardian_count)
    BY <2>3, <2>4
  <2> QED
    BY <2>1, <2>3, <2>5 DEF ReplyInv
<1>5. CASE AnnounceSignature(t)
  <2>1. /\ pc[t] = "AnnounceSignature" /\ frame' = frame
        /\ pc'[t] \in {"SaveVaa", "StoreSignature"}
    BY <1>1, <1>5 DEF AnnounceSignature
  <2> QED
    BY <2>1 DEF ReplyInv
<1>6. CASE SaveVaa(t)
  <2>1. pc[t] = "SaveVaa" /\ pc'[t] = "ClearPending" /\ frame' = frame
    BY <1>1, <1>6 DEF SaveVaa
  <2>2. /\ Len(frame[t].held.signatures) >= quorum(frame[t].held.guardian_count)
        /\ Len(frame[t].held.signatures) <= quorum(frame[t].held.guardian_count)
    BY <2>1 DEF IInv, HandlerInv, SubmitInv, quorum_reached, ReplyInv
  <2>3. Len(frame[t].held.signatures) = quorum(frame[t].held.guardian_count)
    BY <2>1, <2>2, CopyCounts
  <2> QED
    BY <2>1, <2>3 DEF ReplyInv
<1>7. CASE ClearPending(t)
  <2>1. pc[t] = "ClearPending" /\ pc'[t] = "AnnounceVaa" /\ frame' = frame
    BY <1>1, <1>7 DEF ClearPending
  <2> QED
    BY <2>1 DEF ReplyInv
<1>8. CASE /\ ~ Return(t)
           /\ \/ CheckCompleted(t) \/ CheckPending(t) \/ ReadSet(t) \/ StorePending(t)
              \/ UpgradeInsert(t) \/ ReadCurrent(t)
              \/ \E id \in MessageId : ListEntry(t, id)
  <2>1. pc'[t] \in {"CheckPending", "ReadSet", "StorePending", "AnnounceObserved",
                   "SetCurrent", "ReadCurrentSet", "ListPending", "CountVaas"}
    BY <1>1, <1>8 DEF CheckCompleted, CheckPending, ReadSet, StorePending, UpgradeInsert,
                      ReadCurrent, ListEntry
  <2> QED
    BY <2>1 DEF ReplyInv
<1> QED
  BY <1>2, <1>3, <1>4, <1>5, <1>6, <1>7, <1>8
     DEF Step, Fault, AnnounceObserved, StoreSignature, RejectVaa, AnnounceVaa,
         UpgradeCurrent, ReadCurrentSet, CountVaas, StoreFails, SaveReplyLost

LEMMA NextCounts ==
  ASSUME IInv, CountsInv, [Next]_vars
  PROVE  CountsInv'
<1>1. ASSUME NEW t \in Task, Request(t) \/ Step(t) \/ Fault(t) PROVE CountsInv'
  <2>1. OthersStay(t)
    BY <1>1, RequestMoves, StepMoves
  <2>2. ReplyInv(t)'
    BY <1>1, RequestMoves, StepCounts DEF CountsInv, ReplyInv
  <2>3. ASSUME NEW u \in Task \ {t} PROVE ReplyInv(u)'
    BY <2>1 DEF OthersStay, CountsInv, ReplyInv
  <2> QED
    BY <2>2, <2>3 DEF CountsInv
<1>2. CASE UNCHANGED vars
  BY <1>2 DEF vars, CountsInv, ReplyInv
<1> QED
  BY <1>1, <1>2 DEF Next

LEMMA CountsInvariance == Spec => []CountsInv
<1>1. Init => CountsInv
  BY DEF Init, CountsInv, ReplyInv
<1>2. IInv /\ CountsInv /\ [Next]_vars => CountsInv'
  BY NextCounts
<1> QED
  BY <1>1, <1>2, Invariance, PTL DEF Spec

LEMMA TrueAnswers ==
  ASSUME FixedSets, IInv, CountsInv, NEW t \in Task,
         NEW held, held = frame[t].held
  PROVE  /\ StoreSignature(t) => TrueCounts(held, CollectedResult(held))
         /\ AnnounceVaa(t) => TrueCounts(held, AssembledResult(held))
<1>1. ASSUME pc[t] \in {"StoreSignature", "AnnounceVaa"}
      PROVE  /\ held.guardian_count = GuardianCount(held.guardian_set_index)
             /\ Len(held.signatures) \in Nat /\ quorum(held.guardian_count) \in Nat
  <2>1. /\ held \in PendingObservation /\ Counted(held)
        /\ frame[t].keys \in KeyLists[held.guardian_set_index]
    BY <1>1 DEF IInv, HandlerInv, SubmitInv, SubmitSteps
  <2> QED
    BY <1>1, <2>1, CountedForSet, CopyCounts
<1>2. ASSUME StoreSignature(t) PROVE TrueCounts(held, CollectedResult(held))
  <2>1. pc[t] = "StoreSignature"
    BY <1>2 DEF StoreSignature
  <2>2. ~ Len(held.signatures) >= quorum(held.guardian_count)
    BY <2>1 DEF IInv, HandlerInv, SubmitInv, quorum_reached
  <2> QED
    BY <1>1, <2>1, <2>2 DEF TrueCounts, CollectedResult
<1>3. ASSUME AnnounceVaa(t) PROVE TrueCounts(held, AssembledResult(held))
  <2>1. pc[t] = "AnnounceVaa"
    BY <1>3 DEF AnnounceVaa
  <2>2. Len(held.signatures) = quorum(held.guardian_count)
    BY <2>1 DEF CountsInv, ReplyInv
  <2> QED
    BY <1>1, <2>1, <2>2 DEF TrueCounts, AssembledResult
<1> QED
  BY <1>2, <1>3

(* The counts every sign_as_guardian answers are those of the guardian set *)
(* of its message, whatever handlers overlap over which messages.          *)
THEOREM RepliesAreTrue == ServiceSpec => ReplyCountsTrue
<1>1. IInv /\ CountsInv =>
        (FixedSets => \A t \in Task :
           LET held == frame[t].held IN
           /\ StoreSignature(t) => TrueCounts(held, CollectedResult(held))
           /\ AnnounceVaa(t) => TrueCounts(held, AssembledResult(held)))
  BY TrueAnswers
<1> QED
  BY <1>1, CountsInvariance, ServiceInvariance, ServiceImplementsEngine, OverlapIsSpec,
     PTL DEF ReplyCountsTrue

-----------------------------------------------------------------------------
(* What clients have been told.                                            *)

ViewType == [status : {"unknown", "collecting", "complete"}, have : Nat]

\* What a client that follows message id makes of any event.
Heard(id, seen, event) ==
  IF event.message_id = id THEN Follow(seen, event) ELSE seen

(* A client that has seen something ends with last when it has read events *)
(* too: views are what it has seen before and after each of them.          *)
Reading(id, seen, events, views, last) ==
  /\ views[0] = seen
  /\ \A i \in 1 .. Len(events) : views[i] = Heard(id, views[i - 1], events[i])
  /\ views[Len(events)] = last

Ends(id, seen, events, last) ==
  \E views \in [0 .. Len(events) -> ViewType] : Reading(id, seen, events, views, last)

LEMMA HeardType ==
  ASSUME NEW id, NEW seen \in ViewType, NEW event \in GqlEvent
  PROVE  Heard(id, seen, event) \in ViewType
BY FollowedType DEF Heard, ViewType

LEMMA NothingToRead ==
  ASSUME NEW id, NEW seen \in ViewType, NEW last
  PROVE  Ends(id, seen, <<>>, last) <=> seen = last
<1>1. ASSUME Ends(id, seen, <<>>, last) PROVE seen = last
  BY <1>1 DEF Ends, Reading
<1>2. ASSUME seen = last PROVE Ends(id, seen, <<>>, last)
  <2> DEFINE views == [i \in 0 .. 0 |-> seen]
  <2>1. views \in [0 .. 0 -> ViewType] /\ views[0] = seen
    OBVIOUS
  <2> HIDE DEF views
  <2>2. Reading(id, seen, <<>>, views, last)
    BY <1>2, <2>1 DEF Reading
  <2> QED
    BY <2>1, <2>2 DEF Ends
<1> QED
  BY <1>1, <1>2

LEMMA OneMoreEvent ==
  ASSUME NEW id, NEW seen, NEW events \in Seq(GqlEvent), NEW last,
         NEW event \in GqlEvent, Ends(id, seen, events, last)
  PROVE  Ends(id, seen, Append(events, event), Heard(id, last, event))
<1> DEFINE n == Len(events)
           grown == Append(events, event)
<1>1. /\ n \in Nat /\ Len(grown) = n + 1 /\ grown[n + 1] = event
      /\ \A i \in 1 .. n : grown[i] = events[i]
  BY AppendProperties, LenProperties
<1> HIDE DEF grown, n
<1>2. PICK views \in [0 .. n -> ViewType] : Reading(id, seen, events, views, last)
  BY DEF Ends, n
<1> DEFINE more == [i \in 0 .. n + 1 |->
                      IF i = n + 1 THEN Heard(id, last, event) ELSE views[i]]
<1>3. views[n] = last /\ last \in ViewType
  BY <1>1, <1>2 DEF Reading, n
<1>4. more \in [0 .. n + 1 -> ViewType]
  <2>1. Heard(id, last, event) \in ViewType
    BY <1>3, HeardType
  <2> QED
    BY <1>1, <2>1
<1>5. more[0] = seen /\ more[n + 1] = Heard(id, last, event)
  BY <1>1, <1>2 DEF Reading
<1>6. ASSUME NEW i \in 1 .. n + 1 PROVE more[i] = Heard(id, more[i - 1], grown[i])
  <2>1. CASE i = n + 1
    <3>1. i - 1 = n /\ n \in 0 .. n + 1 /\ n # n + 1 /\ n + 1 \in 0 .. n + 1
      BY <1>1, <2>1
    <3>2. more[i - 1] = last
      BY <1>3, <3>1
    <3> QED
      BY <1>1, <1>5, <2>1, <3>2
  <2>2. CASE i # n + 1
    <3>1. /\ i \in 1 .. n /\ i \in 0 .. n + 1
          /\ i - 1 \in 0 .. n + 1 /\ i - 1 # n + 1
      BY <1>1, <2>2
    <3>2. more[i] = views[i] /\ more[i - 1] = views[i - 1] /\ grown[i] = events[i]
      BY <1>1, <2>2, <3>1
    <3>3. views[i] = Heard(id, views[i - 1], events[i])
      BY <1>2, <3>1 DEF Reading, n
    <3> QED
      BY <3>2, <3>3
  <2> QED
    BY <2>1, <2>2
<1> HIDE DEF more
<1>7. Reading(id, seen, grown, more, Heard(id, last, event))
  BY <1>1, <1>5, <1>6 DEF Reading
<1> QED
  BY <1>1, <1>4, <1>7 DEF Ends, grown

LEMMA OneEventLess ==
  ASSUME NEW id, NEW seen, NEW events \in Seq(GqlEvent), NEW last,
         events # <<>>, Ends(id, seen, events, last)
  PROVE  Ends(id, Heard(id, seen, Head(events)), Tail(events), last)
<1> DEFINE n == Len(events)
           rest == Tail(events)
<1>1. n \in Nat \ {0} /\ Head(events) = events[1]
  BY EmptySeq, LenProperties, HeadTailProperties
<1>2. Len(rest) = n - 1 /\ \A i \in 1 .. n - 1 : rest[i] = events[i + 1]
  BY HeadTailProperties
<1> HIDE DEF rest, n
<1>3. PICK views \in [0 .. n -> ViewType] : Reading(id, seen, events, views, last)
  BY DEF Ends, n
<1> DEFINE less == [i \in 0 .. n - 1 |-> views[i + 1]]
<1>4. less \in [0 .. n - 1 -> ViewType]
  BY <1>1
<1>5. \A i \in 1 .. n : views[i] = Heard(id, views[i - 1], events[i])
  BY <1>3 DEF Reading, n
<1>6. less[0] = Heard(id, seen, Head(events))
  <2>1. 1 \in 1 .. n /\ 1 - 1 = 0 /\ 0 \in 0 .. n - 1 /\ 0 + 1 = 1
    BY <1>1
  <2>2. less[0] = views[1]
    BY <2>1
  <2>3. views[1] = Heard(id, views[0], events[1])
    BY <1>5, <2>1
  <2> QED
    BY <1>1, <1>3, <2>2, <2>3 DEF Reading
<1>7. ASSUME NEW i \in 1 .. n - 1 PROVE less[i] = Heard(id, less[i - 1], rest[i])
  <2>1. /\ i \in 0 .. n - 1 /\ i - 1 \in 0 .. n - 1 /\ (i - 1) + 1 = i
        /\ i + 1 \in 1 .. n /\ (i + 1) - 1 = i
    BY <1>1
  <2>2. less[i] = views[i + 1] /\ less[i - 1] = views[i] /\ rest[i] = events[i + 1]
    BY <1>2, <2>1
  <2>3. views[i + 1] = Heard(id, views[i], events[i + 1])
    BY <1>5, <2>1
  <2> QED
    BY <2>2, <2>3
<1>8. less[n - 1] = last
  <2>1. n - 1 \in 0 .. n - 1 /\ (n - 1) + 1 = n
    BY <1>1
  <2> QED
    BY <1>3, <2>1 DEF Reading, n
<1> HIDE DEF less
<1>9. Reading(id, Heard(id, seen, Head(events)), rest, less, last)
  BY <1>2, <1>6, <1>7, <1>8 DEF Reading
<1> QED
  BY <1>2, <1>4, <1>9 DEF Ends, rest


-----------------------------------------------------------------------------
(* What the events sent so far say of a message.  They lag behind the      *)
(* stores while a handler has stored and not announced, and run ahead of   *)
(* them while it has announced a signature and not stored it.              *)

AheadSteps == {"StoreSignature", "SaveVaa"}
BehindSteps == {"ClearPending", "AnnounceVaa"}
TellingSteps == AheadSteps \cup BehindSteps \cup {"AnnounceObserved"}

At(steps, id) == \E t \in Task : pc[t] \in steps /\ frame[t].id = id

Told(id) ==
  [status |-> IF At({"AnnounceObserved"}, id) THEN "unknown"
              ELSE IF At(BehindSteps, id) THEN "collecting" ELSE StatusOf(id),
   have |-> IF ~ Observed(id) THEN 0
            ELSE IF At(AheadSteps, id) THEN Len(EntryOf(id).signatures) + 1
            ELSE Len(EntryOf(id).signatures)]

\* The same when the only call for the message is at the given step.
ToldAt(step, id) ==
  [status |-> IF step = "AnnounceObserved" THEN "unknown"
              ELSE IF step \in BehindSteps THEN "collecting" ELSE StatusOf(id),
   have |-> IF ~ Observed(id) THEN 0
            ELSE IF step \in AheadSteps THEN Len(EntryOf(id).signatures) + 1
            ELSE Len(EntryOf(id).signatures)]

LEMMA ToldHere ==
  ASSUME NEW t \in Task, NEW id, Alone(t, id),
         pc[t] \in TellingSteps => frame[t].id = id
  PROVE  Told(id) = ToldAt(pc[t], id)
<1>1. ASSUME NEW steps \in SUBSET TellingSteps
      PROVE  At(steps, id) <=> pc[t] \in steps
  BY DEF At, Alone, AtWork, ObserveSteps, SubmitSteps, TellingSteps, AheadSteps,
         BehindSteps
<1>2. /\ At({"AnnounceObserved"}, id) <=> pc[t] = "AnnounceObserved"
      /\ At(BehindSteps, id) <=> pc[t] \in BehindSteps
      /\ At(AheadSteps, id) <=> pc[t] \in AheadSteps
  BY <1>1 DEF TellingSteps
<1> QED
  BY <1>2 DEF Told, ToldAt

LEMMA ToldHereNext ==
  ASSUME NEW t \in Task, NEW id, Alone(t, id)',
         pc'[t] \in TellingSteps => frame'[t].id = id
  PROVE  Told(id)' = ToldAt(pc[t], id)'
<1>1. ASSUME NEW steps \in SUBSET TellingSteps
      PROVE  At(steps, id)' <=> pc'[t] \in steps
  BY DEF At, Alone, AtWork, ObserveSteps, SubmitSteps, TellingSteps, AheadSteps,
         BehindSteps
<1>2. /\ At({"AnnounceObserved"}, id)' <=> pc'[t] = "AnnounceObserved"
      /\ At(BehindSteps, id)' <=> pc'[t] \in BehindSteps
      /\ At(AheadSteps, id)' <=> pc'[t] \in AheadSteps
  BY <1>1 DEF TellingSteps
<1> QED
  BY <1>2 DEF Told, ToldAt

\* A handler tells nothing about messages it does not work on.
LEMMA ToldElsewhere ==
  ASSUME IInv, NEW t \in Task, NEW id \in MessageId,
         Request(t) \/ Step(t), ~ AtWork(t, id)
  PROVE  Told(id)' = Told(id)
<1>1. OthersStay(t) /\ Untouched(id)
  BY RequestMoves, StepMoves, OthersUntouched
<1>2. ~ (pc'[t] \in TellingSteps /\ frame'[t].id = id)
  <2>1. CASE Request(t)
    BY <2>1, RequestMoves DEF TellingSteps, AheadSteps, BehindSteps
  <2>2. CASE Step(t)
    BY <2>2, WorkGoesOn
       DEF AtWork, ObserveSteps, SubmitSteps, TellingSteps, AheadSteps, BehindSteps
  <2> QED
    BY <2>1, <2>2
<1>3. ASSUME NEW steps \in SUBSET TellingSteps
      PROVE  At(steps, id)' <=> At(steps, id)
  <2>1. ~ (pc[t] \in steps /\ frame[t].id = id) /\ ~ (pc'[t] \in steps /\ frame'[t].id = id)
    BY <1>2 DEF AtWork, ObserveSteps, SubmitSteps, TellingSteps, AheadSteps, BehindSteps
  <2>2. \A u \in Task \ {t} : pc'[u] = pc[u] /\ frame'[u] = frame[u]
    BY <1>1 DEF OthersStay
  <2> QED
    BY <2>1, <2>2 DEF At
<1>4. /\ At({"AnnounceObserved"}, id)' <=> At({"AnnounceObserved"}, id)
      /\ At(BehindSteps, id)' <=> At(BehindSteps, id)
      /\ At(AheadSteps, id)' <=> At(AheadSteps, id)
  BY <1>3 DEF TellingSteps
<1>5. /\ StatusOf(id)' = StatusOf(id) /\ Observed(id)' = Observed(id)
      /\ EntryOf(id)' = EntryOf(id)
  BY <1>1 DEF Untouched, StatusOf, Observed, EntryOf
<1> QED
  BY <1>4, <1>5 DEF Told

-----------------------------------------------------------------------------
(* The steps of the only call under way for a message: what each of them   *)
(* does to the stores and what it tells keep pace.                         *)

\* Handler t works on message id, and no other one does.
OnlyCall(t, id) == AtWork(t, id) /\ Alone(t, id) /\ MessageInv(id)

LEMMA OwnStep ==
  ASSUME IInv, NEW t \in Task, NEW id \in MessageId, OnlyCall(t, id), Step(t),
         pc'[t] \in TellingSteps => frame' = frame
  PROVE  /\ frame[t].id = id /\ CallInv(t)
         /\ Told(id) = ToldAt(pc[t], id) /\ Told(id)' = ToldAt(pc[t], id)'
<1>1. frame[t].id = id /\ CallInv(t) /\ Alone(t, id)
  BY DEF OnlyCall, AtWork, MessageInv
<1>2. Alone(t, id)'
  BY <1>1, StepMoves, StaysAlone
<1> QED
  BY <1>1, <1>2, ToldHere, ToldHereNext

LEMMA ReadsTellNothing ==
  ASSUME IInv, NEW t \in Task, NEW id \in MessageId, OnlyCall(t, id),
         \/ CheckCompleted(t) \/ CheckPending(t) \/ ReadSet(t)
         \/ LoadPending(t) \/ LoadSet(t)
  PROVE  Told(id)' = Told(id)
<1> USE DEF Goto, Return
<1>1. pc \in [Task -> Steps]
  BY DEF IInv, TypeOK
<1>2. UNCHANGED <<pending, vaas>> /\ Step(t)
  BY DEF CheckCompleted, CheckPending, ReadSet, LoadPending, LoadSet, stores, Step
<1>3. pc[t] \notin TellingSteps /\ pc'[t] \notin TellingSteps
  BY <1>1 DEF CheckCompleted, CheckPending, ReadSet, LoadPending, LoadSet,
              TellingSteps, AheadSteps, BehindSteps
<1>4. Told(id) = ToldAt(pc[t], id) /\ Told(id)' = ToldAt(pc[t], id)'
  BY <1>2, <1>3, OwnStep
<1>5. /\ StatusOf(id)' = StatusOf(id) /\ Observed(id)' = Observed(id)
      /\ EntryOf(id)' = EntryOf(id)
  BY <1>2 DEF StatusOf, Observed, EntryOf
<1> QED
  BY <1>3, <1>4, <1>5 DEF ToldAt, TellingSteps

\* The new observation is not announced yet.
LEMMA StorePendingTellsNothing ==
  ASSUME IInv, NEW t \in Task, NEW id \in MessageId, OnlyCall(t, id), StorePending(t)
  PROVE  Told(id)' = Told(id)
<1>1. /\ pc[t] = "StorePending" /\ pc'[t] = "AnnounceObserved" /\ frame' = frame
      /\ vaas' = vaas /\ Step(t)
  BY DEF StorePending, UpsertPending, Goto, IInv, TypeOK, Step
<1>2. /\ frame[t].id = id /\ CallInv(t)
      /\ Told(id) = ToldAt(pc[t], id) /\ Told(id)' = ToldAt(pc[t], id)'
  BY <1>1, OwnStep
<1>3. MessageInv(id)'
  BY StorePendingKeepsMessage DEF OnlyCall
<1>4. CallInv(t)'
  BY <1>1, <1>2, <1>3 DEF MessageInv, AtWork, ObserveSteps
<1>5. pending[id] = None /\ vaas[id] = None
  BY <1>1, <1>2 DEF CallInv
<1>6. vaas'[id] = None /\ pending'[id] # None /\ pending'[id].signatures = <<>>
  BY <1>1, <1>2, <1>4 DEF CallInv
<1>7. ToldAt(pc[t], id) = [status |-> "unknown", have |-> 0]
  BY <1>1, <1>5 DEF ToldAt, BehindSteps, StatusOf, Observed
<1>8. ToldAt(pc[t], id)' = [status |-> "unknown", have |-> 0]
  <2>1. Observed(id)' /\ EntryOf(id)' = pending'[id] /\ Len(<<>>) = 0
    BY <1>6 DEF Observed, EntryOf
  <2> QED
    BY <1>1, <1>6, <2>1 DEF ToldAt, AheadSteps
<1> QED
  BY <1>2, <1>7, <1>8

\* The copy that is stored now was announced when it was made.
LEMMA StoreSignatureTellsNothing ==
  ASSUME VaaAdapter = "memory", IInv, NEW t \in Task, NEW id \in MessageId,
         OnlyCall(t, id), StoreSignature(t)
  PROVE  Told(id)' = Told(id)
<1>1. PICK held : held = frame[t].held
  OBVIOUS
<1>2. pc[t] = "StoreSignature" /\ pc'[t] = "idle" /\ vaas' = vaas /\ Step(t)
  BY DEF StoreSignature, UpsertPending, Return, Goto, IInv, TypeOK, Step
<1>3. /\ frame[t].id = id /\ CallInv(t)
      /\ Told(id) = ToldAt(pc[t], id) /\ Told(id)' = ToldAt(pc[t], id)'
  BY <1>2, OwnStep DEF TellingSteps, AheadSteps, BehindSteps
<1>4. /\ held \in PendingObservation /\ held # None
      /\ pending \in [MessageId -> PendingObservation \cup {None}]
      /\ pending' = [pending EXCEPT ![id] = held]
  BY <1>1, <1>2, <1>3, NoneDistinct
     DEF IInv, TypeOK, StoresTypeOK, HandlerInv, SubmitInv, SubmitSteps, StoreSignature,
         UpsertPending
<1>5. /\ vaas[id] = None /\ pending[id] # None
      /\ Len(held.signatures) = Len(pending[id].signatures) + 1
  BY <1>1, <1>2, <1>3 DEF CallInv, CanFail
<1>6. pending'[id] = held /\ vaas'[id] = None
  BY <1>2, <1>4, <1>5
<1>7. /\ Observed(id) /\ EntryOf(id) = pending[id] /\ StatusOf(id) = "collecting"
      /\ Observed(id)' /\ EntryOf(id)' = held /\ StatusOf(id)' = "collecting"
  BY <1>4, <1>5, <1>6 DEF Observed, EntryOf, StatusOf
<1> QED
  BY <1>2, <1>3, <1>5, <1>7 DEF ToldAt, AheadSteps, BehindSteps

LEMMA SaveVaaTellsNothing ==
  ASSUME VaaAdapter = "memory", IInv, NEW t \in Task, NEW id \in MessageId,
         OnlyCall(t, id), SaveVaa(t)
  PROVE  Told(id)' = Told(id)
<1>1. PICK held : held = frame[t].held
  OBVIOUS
<1>2. /\ pc[t] = "SaveVaa" /\ pc'[t] = "ClearPending" /\ frame' = frame
      /\ pending' = pending /\ Step(t)
  BY DEF SaveVaa, SaveRecord, Goto, IInv, TypeOK, Step
<1>3. /\ frame[t].id = id /\ CallInv(t)
      /\ Told(id) = ToldAt(pc[t], id) /\ Told(id)' = ToldAt(pc[t], id)'
  BY <1>2, OwnStep
<1>4. /\ held \in PendingObservation
      /\ vaas \in [MessageId -> VaaRecord \cup {None}]
      /\ vaas' = [vaas EXCEPT ![id] = Assembled(held)]
  BY <1>1, <1>2, <1>3 DEF IInv, TypeOK, StoresTypeOK, HandlerInv, SubmitInv, SubmitSteps,
                          SaveVaa, SaveRecord
<1>5. /\ vaas[id] = None /\ pending[id] # None
      /\ Len(held.signatures) = Len(pending[id].signatures) + 1
  BY <1>1, <1>2, <1>3 DEF CallInv, CanFail
<1>6. Assembled(held) # None /\ Assembled(held).signatures = held.signatures
  BY <1>4, NoneDistinct DEF Assembled, PendingObservation, VaaRecord
<1>7. vaas'[id] = Assembled(held)
  BY <1>4
<1>8. /\ Observed(id) /\ EntryOf(id) = pending[id] /\ StatusOf(id) = "collecting"
      /\ Observed(id)' /\ EntryOf(id)' = Assembled(held)
  BY <1>5, <1>6, <1>7 DEF Observed, EntryOf, StatusOf
<1> QED
  BY <1>2, <1>3, <1>5, <1>6, <1>8 DEF ToldAt, AheadSteps, BehindSteps

LEMMA ClearPendingTellsNothing ==
  ASSUME IInv, NEW t \in Task, NEW id \in MessageId, OnlyCall(t, id), ClearPending(t)
  PROVE  Told(id)' = Told(id)
<1>1. /\ pc[t] = "ClearPending" /\ pc'[t] = "AnnounceVaa" /\ frame' = frame
      /\ vaas' = vaas /\ Step(t)
  BY DEF ClearPending, RemovePending, Goto, IInv, TypeOK, Step
<1>2. /\ frame[t].id = id /\ Told(id) = ToldAt(pc[t], id) /\ Told(id)' = ToldAt(pc[t], id)'
  BY <1>1, OwnStep
<1>3. vaas[id] # None
  BY <1>1, <1>2 DEF IInv, HandlerInv, SubmitInv
<1>4. Observed(id) /\ Observed(id)' /\ EntryOf(id)' = EntryOf(id)
  BY <1>1, <1>3 DEF Observed, EntryOf
<1> QED
  BY <1>1, <1>2, <1>4 DEF ToldAt, AheadSteps, BehindSteps

LEMMA ObservedIsTold ==
  ASSUME IInv, NEW t \in Task, NEW id \in MessageId, OnlyCall(t, id),
         AnnounceObserved(t),
         NEW event, event = [kind |-> "MESSAGE_OBSERVED", message_id |-> id]
  PROVE  Told(id)' = Heard(id, Told(id), event)
<1>1. /\ pc[t] = "AnnounceObserved" /\ pc'[t] = "idle" /\ UNCHANGED <<pending, vaas>>
      /\ Step(t)
  BY DEF AnnounceObserved, Publish, Return, Goto, IInv, TypeOK, Step
<1>2. frame[t].id = id /\ CallInv(t) /\ Told(id)' = ToldAt(pc[t], id)'
  BY <1>1, OwnStep DEF TellingSteps, AheadSteps, BehindSteps
<1>3. vaas[id] = None /\ pending[id] # None /\ pending[id].signatures = <<>>
  BY <1>1, <1>2 DEF CallInv
<1>4. /\ Observed(id)' /\ EntryOf(id)' = pending[id] /\ StatusOf(id)' = "collecting"
      /\ Len(<<>>) = 0
  BY <1>1, <1>3 DEF Observed, EntryOf, StatusOf
<1>5. Told(id)' = [status |-> "collecting", have |-> 0]
  BY <1>1, <1>2, <1>3, <1>4 DEF ToldAt, AheadSteps, BehindSteps
<1> QED
  BY <1>5 DEF Heard, Follow

LEMMA SignatureIsTold ==
  ASSUME VaaAdapter = "memory", IInv, NEW t \in Task, NEW id \in MessageId,
         OnlyCall(t, id), AnnounceSignature(t),
         NEW event, event.kind = "SIGNATURE_COLLECTED", event.message_id = id,
         event.have = Len(frame[t].held.signatures)
  PROVE  Told(id)' = Heard(id, Told(id), event)
<1>1. PICK have : have = Len(frame[t].held.signatures)
  OBVIOUS
<1>2. /\ pc[t] = "AnnounceSignature" /\ pc'[t] \in AheadSteps /\ frame' = frame
      /\ UNCHANGED <<pending, vaas>> /\ Step(t)
  BY DEF AnnounceSignature, Publish, Goto, IInv, TypeOK, AheadSteps, Step
<1>3. /\ frame[t].id = id /\ CallInv(t)
      /\ Told(id) = ToldAt(pc[t], id) /\ Told(id)' = ToldAt(pc[t], id)'
  BY <1>2, OwnStep
<1>4. vaas[id] = None /\ pending[id] # None /\ have = Len(pending[id].signatures) + 1
  BY <1>1, <1>2, <1>3 DEF CallInv, CanFail
<1>5. /\ Observed(id) /\ EntryOf(id) = pending[id] /\ StatusOf(id) = "collecting"
      /\ Observed(id)' /\ EntryOf(id)' = pending[id] /\ StatusOf(id)' = "collecting"
  BY <1>2, <1>4 DEF Observed, EntryOf, StatusOf
<1>6. Told(id)' = [status |-> "collecting", have |-> have]
  BY <1>2, <1>3, <1>4, <1>5 DEF ToldAt, AheadSteps, BehindSteps
<1>7. Told(id).status = "collecting" /\ DOMAIN Told(id) = {"status", "have"}
  BY <1>2, <1>3, <1>5 DEF ToldAt, BehindSteps
<1>8. Heard(id, Told(id), event) = [Told(id) EXCEPT !.have = have]
  BY <1>1 DEF Heard, Follow
<1>9. Heard(id, Told(id), event) = [status |-> "collecting", have |-> have]
  BY <1>2, <1>3, <1>5, <1>8 DEF ToldAt, BehindSteps
<1> QED
  BY <1>6, <1>9

LEMMA AssembledIsTold ==
  ASSUME IInv, NEW t \in Task, NEW id \in MessageId, OnlyCall(t, id), AnnounceVaa(t),
         NEW event, event = [kind |-> "VAA_ASSEMBLED", message_id |-> id]
  PROVE  Told(id)' = Heard(id, Told(id), event)
<1>1. /\ pc[t] = "AnnounceVaa" /\ pc'[t] = "idle" /\ UNCHANGED <<pending, vaas>>
      /\ Step(t)
  BY DEF AnnounceVaa, Publish, Return, Goto, IInv, TypeOK, Step
<1>2. /\ frame[t].id = id /\ Told(id) = ToldAt(pc[t], id) /\ Told(id)' = ToldAt(pc[t], id)'
  BY <1>1, OwnStep DEF TellingSteps, AheadSteps, BehindSteps
<1>3. vaas[id] # None
  BY <1>1, <1>2 DEF IInv, HandlerInv, SubmitInv
<1>4. /\ Observed(id) /\ Observed(id)' /\ EntryOf(id)' = EntryOf(id)
      /\ StatusOf(id)' = "complete"
  BY <1>1, <1>3 DEF Observed, EntryOf, StatusOf
<1>5. Heard(id, Told(id), event) = [Told(id) EXCEPT !.status = "complete"]
  BY DEF Heard, Follow
<1> QED
  BY <1>1, <1>2, <1>4, <1>5 DEF ToldAt, AheadSteps, BehindSteps

-----------------------------------------------------------------------------
(* All messages over which no calls met.                                   *)

\* Nothing is told of them, or what their clients hear in event.
TellsNothing == \A id \in MessageId \ contended' : Told(id)' = Told(id)
Tells(event) ==
  \A id \in MessageId \ contended' : Told(id)' = Heard(id, Told(id), event)

LEMMA RequestTellsNothing ==
  ASSUME IInv, NEW t \in Task, Request(t)
  PROVE  TellsNothing
<1>1. \A id : ~ AtWork(t, id)
  BY RequestMoves DEF AtWork, ObserveSteps, SubmitSteps
<1> QED
  BY <1>1, ToldElsewhere DEF TellsNothing

LEMMA WorkerIsOnlyCall ==
  ASSUME OverlapInv, NEW t \in Task, NEW id \in MessageId \ contended, AtWork(t, id)
  PROVE  OnlyCall(t, id)
BY WorksAlone DEF OverlapInv, Uncontended, OnlyCall

LEMMA QuietStepTellsNothing ==
  ASSUME VaaAdapter = "memory", IInv, OverlapInv, AssemblyNeverRejected, FixedSets,
         NEW t \in Task, Step(t), pc[t] \notin AnnouncingSteps, UNCHANGED contended
  PROVE  TellsNothing
<1>1. SUFFICES ASSUME NEW id \in MessageId \ contended PROVE Told(id)' = Told(id)
  BY DEF TellsNothing
<1>2. CASE ~ AtWork(t, id)
  BY <1>2, ToldElsewhere
<1>3. CASE AtWork(t, id)
  <2>1. OnlyCall(t, id)
    BY <1>3, WorkerIsOnlyCall
  <2>2. ~ RejectVaa(t)
    BY DEF RejectVaa, AssemblyNeverRejected
  <2>3. \/ CheckCompleted(t) \/ CheckPending(t) \/ ReadSet(t) \/ LoadPending(t)
        \/ LoadSet(t) \/ StorePending(t) \/ StoreSignature(t) \/ SaveVaa(t)
        \/ ClearPending(t)
    BY <1>3, <2>2
       DEF Step, AtWork, ObserveSteps, SubmitSteps, AnnouncingSteps, AnnounceObserved,
           AnnounceSignature, AnnounceVaa, UpgradeInsert, UpgradeCurrent, ReadCurrent,
           ReadCurrentSet, CountVaas, ListEntry
  <2> QED
    BY <2>1, <2>3, ReadsTellNothing, StorePendingTellsNothing,
       StoreSignatureTellsNothing, SaveVaaTellsNothing, ClearPendingTellsNothing
<1> QED
  BY <1>2, <1>3

\* Those who follow other messages hear nothing in an event.
LEMMA OthersHearNothing ==
  ASSUME IInv, NEW t \in Task, Step(t), NEW m \in MessageId, m # frame[t].id,
         NEW event, event.message_id = frame[t].id
  PROVE  Told(m)' = Heard(m, Told(m), event)
BY ToldElsewhere DEF AtWork, Heard

LEMMA ObservedTells ==
  ASSUME IInv, OverlapInv, NEW t \in Task, AnnounceObserved(t), UNCHANGED contended,
         NEW event, event = [kind |-> "MESSAGE_OBSERVED", message_id |-> frame[t].id]
  PROVE  event \in GqlEvent /\ Tells(event)
<1>1. PICK id : id = frame[t].id
  OBVIOUS
<1>2. Step(t) /\ id \in MessageId /\ AtWork(t, id)
  BY <1>1 DEF Step, AnnounceObserved, IInv, HandlerInv, ObserveInv, AtWork, ObserveSteps
<1>3. id \notin contended => Told(id)' = Heard(id, Told(id), event)
  BY <1>1, <1>2, WorkerIsOnlyCall, ObservedIsTold
<1> QED
  BY <1>1, <1>2, <1>3, OthersHearNothing DEF Tells, GqlEvent

LEMMA SignatureTells ==
  ASSUME VaaAdapter = "memory", IInv, OverlapInv,
         NEW t \in Task, AnnounceSignature(t), UNCHANGED contended,
         NEW event, event = [kind |-> "SIGNATURE_COLLECTED", message_id |-> frame[t].id,
           guardian_index |-> frame[t].sig.guardian_index,
           have |-> Len(frame[t].held.signatures),
           needed |-> quorum(frame[t].held.guardian_count)]
  PROVE  event \in GqlEvent /\ Tells(event)
<1>1. PICK id, held : id = frame[t].id /\ held = frame[t].held
  OBVIOUS
<1>2. /\ Step(t) /\ id \in MessageId /\ AtWork(t, id)
      /\ frame[t].sig \in GuardianSignature /\ held \in PendingObservation
  BY <1>1, SignaturesAssumption
     DEF Step, AnnounceSignature, IInv, HandlerInv, SubmitInv, AtWork, SubmitSteps
<1>3. event \in GqlEvent
  <2>1. /\ frame[t].sig.guardian_index \in Nat
        /\ held.signatures \in Seq(GuardianSignature) /\ held.guardian_count \in Nat
    BY <1>2, SignatureIndex DEF PendingObservation
  <2>2. Len(held.signatures) \in Nat /\ quorum(held.guardian_count) \in Nat
    BY <2>1, LenProperties, QuorumIsSupermajority
  <2> QED
    BY <1>1, <1>2, <2>1, <2>2 DEF GqlEvent
<1>4. /\ event.kind = "SIGNATURE_COLLECTED" /\ event.message_id = id
      /\ event.have = Len(frame[t].held.signatures)
  BY <1>1
<1>5. id \notin contended => Told(id)' = Heard(id, Told(id), event)
  BY <1>2, <1>4, WorkerIsOnlyCall, SignatureIsTold
<1> QED
  BY <1>1, <1>2, <1>3, <1>4, <1>5, OthersHearNothing DEF Tells

LEMMA AssembledTells ==
  ASSUME IInv, OverlapInv, NEW t \in Task, AnnounceVaa(t), UNCHANGED contended,
         NEW event, event = [kind |-> "VAA_ASSEMBLED", message_id |-> frame[t].id]
  PROVE  event \in GqlEvent /\ Tells(event)
<1>1. PICK id : id = frame[t].id
  OBVIOUS
<1>2. Step(t) /\ id \in MessageId /\ AtWork(t, id)
  BY <1>1 DEF Step, AnnounceVaa, IInv, HandlerInv, SubmitInv, AtWork, SubmitSteps
<1>3. id \notin contended => Told(id)' = Heard(id, Told(id), event)
  BY <1>1, <1>2, WorkerIsOnlyCall, AssembledIsTold
<1> QED
  BY <1>1, <1>2, <1>3, OthersHearNothing DEF Tells, GqlEvent

-----------------------------------------------------------------------------
(* A client that follows a message from its observation on, and has lost   *)
(* no event, will have seen what has been told of it once it has read the  *)
(* events it has not read yet, unless calls met over that message.         *)

Following == Subscribed \ (missed \cup late)

InStep(s) == Ends(Followed[s], view[s], unread[s], Told(Followed[s]))

ViewsInv ==
  \A s \in Subscriber :
    /\ unread[s] = None => view[s] = [status |-> "unknown", have |-> 0]
    /\ s \in Following /\ Followed[s] \notin contended => InStep(s)

\* A receiver that has not lagged has the new event after those it had.
LEMMA SendReaches ==
  ASSUME ChannelTypeOK, NEW event \in GqlEvent, Send(event), NEW s \in Subscriber
  PROVE  /\ unread'[s] = None => unread[s] = None
         /\ s \in Following' =>
              /\ s \in Following /\ unread[s] \in Seq(GqlEvent)
              /\ unread'[s] = Append(unread[s], event)
<1>1. /\ unread'[s] = IF s \notin Subscribed THEN None
                      ELSE IF Lagging(s) THEN keep_latest(Append(unread[s], event))
                      ELSE Append(unread[s], event)
      /\ missed' = missed \cup {r \in Subscribed : Lagging(r)} /\ late' = late
  BY DEF Send, client
<1>2. ASSUME s \in Following'
      PROVE  /\ s \in Following /\ unread[s] \in Seq(GqlEvent)
             /\ unread'[s] = Append(unread[s], event)
  <2>1. unread'[s] # None /\ s \notin missed' /\ s \notin late'
    BY <1>2 DEF Following, Subscribed
  <2>2. s \in Subscribed /\ ~ Lagging(s) /\ s \notin missed /\ s \notin late
    BY <1>1, <2>1
  <2> QED
    BY <1>1, <2>2 DEF Following, Subscribed, ChannelTypeOK
<1>3. ASSUME unread[s] # None PROVE unread'[s] # None
  <2>1. unread[s] \in Seq(GqlEvent) /\ s \in Subscribed
    BY <1>3 DEF ChannelTypeOK, Subscribed
  <2> DEFINE grown == Append(unread[s], event)
  <2>2. grown \in Seq(GqlEvent)
    BY <2>1, AppendProperties
  <2>3. CASE Lagging(s)
    <3>1. /\ capacity \in Nat \ {0} /\ Len(unread[s]) = capacity
          /\ Len(grown) = capacity + 1
      BY <2>1, <2>3, AppendProperties, ServiceAssumption DEF Lagging
    <3> HIDE DEF grown
    <3>2. keep_latest(grown) = SubSeq(grown, 2, Len(grown))
      BY <3>1 DEF keep_latest
    <3>3. SubSeq(grown, 2, Len(grown)) \in Seq(GqlEvent)
      <4>1. 2 \in 1 .. Len(grown) + 1 /\ Len(grown) \in Nat
        BY <3>1
      <4> QED
        BY <2>2, <4>1, SubSeqProperties, ElementOfSeq
    <3> QED
      BY <1>1, <2>1, <2>3, <3>2, <3>3, ReceiverAssumption DEF grown
  <2>4. CASE ~ Lagging(s)
    BY <1>1, <2>1, <2>2, <2>4, ReceiverAssumption
  <2> QED
    BY <2>3, <2>4
<1> QED
  BY <1>2, <1>3

LEMMA QuietKeepsViews ==
  ASSUME ViewsInv, TellsNothing, contended \subseteq contended',
         UNCHANGED <<channel, client>>
  PROVE  ViewsInv'
<1>1. UNCHANGED <<unread, missed, late, view>> /\ Following' = Following
  BY DEF channel, client, Following, Subscribed
<1>2. \A s \in Subscriber : Followed[s] \in MessageId
  BY ServiceAssumption
<1>3. ASSUME NEW s \in Subscriber, s \in Following, Followed[s] \notin contended'
      PROVE  InStep(s)'
  <2>1. PICK id, last, seen, events :
          /\ id = Followed[s] /\ last = Told(id) /\ seen = view[s] /\ events = unread[s]
    OBVIOUS
  <2>2. Told(id)' = last /\ view'[s] = seen /\ unread'[s] = events
    BY <1>1, <1>2, <1>3, <2>1 DEF TellsNothing
  <2>3. Ends(id, seen, events, last)
    BY <1>3, <2>1 DEF ViewsInv, InStep
  <2> QED
    BY <2>1, <2>2, <2>3 DEF InStep
<1> QED
  BY <1>1, <1>3 DEF ViewsInv

LEMMA SendKeepsViews ==
  ASSUME ChannelTypeOK, ViewsInv, NEW event \in GqlEvent, Tells(event), Send(event),
         UNCHANGED contended
  PROVE  ViewsInv'
<1>1. \A s \in Subscriber : Followed[s] \in MessageId
  BY ServiceAssumption
<1>2. view' = view /\ late' = late
  BY DEF Send, client
<1>3. ASSUME NEW s \in Subscriber, unread'[s] = None PROVE unread[s] = None
  BY <1>3, SendReaches
<1>4. ASSUME NEW s \in Subscriber, s \in Following', Followed[s] \notin contended
      PROVE  InStep(s)'
  <2>1. /\ s \in Following /\ unread[s] \in Seq(GqlEvent)
        /\ unread'[s] = Append(unread[s], event)
    BY <1>4, SendReaches
  <2>2. PICK id, last, seen, events :
          /\ id = Followed[s] /\ last = Told(id) /\ seen = view[s] /\ events = unread[s]
    OBVIOUS
  <2>3. Ends(id, seen, events, last)
    BY <1>4, <2>1, <2>2 DEF ViewsInv, InStep
  <2>4. Ends(id, seen, Append(events, event), Heard(id, last, event))
    BY <2>1, <2>2, <2>3, OneMoreEvent
  <2>5. Told(id)' = Heard(id, last, event)
    BY <1>1, <1>4, <2>2 DEF Tells
  <2> QED
    BY <1>2, <2>1, <2>2, <2>4, <2>5 DEF InStep
<1> QED
  BY <1>2, <1>3, <1>4 DEF ViewsInv

\* Of a message nobody has observed nothing has been told.
LEMMA NothingTold ==
  ASSUME IInv, NEW id, ~ Observed(id)
  PROVE  Told(id) = [status |-> "unknown", have |-> 0]
<1>1. StatusOf(id) = "unknown"
  BY DEF StatusOf, Observed
<1>2. ~ At(BehindSteps, id)
  <2>1. \A t \in Task : pc[t] \in BehindSteps /\ frame[t].id = id => vaas[id] # None
    BY DEF IInv, HandlerInv, SubmitInv, BehindSteps
  <2> QED
    BY <2>1 DEF At, Observed
<1> QED
  BY <1>1, <1>2 DEF Told

LEMMA SameStoresTellNothing ==
  ASSUME UNCHANGED vars
  PROVE  TellsNothing
BY DEF vars, stores, TellsNothing, Told, At, StatusOf, Observed, EntryOf

LEMMA SubscribeKeepsViews ==
  ASSUME IInv, ViewsInv, ChannelTypeOK, NEW s \in Subscriber, Subscribe(s)
  PROVE  ViewsInv'
<1>1. /\ unread[s] = None /\ unread' = [unread EXCEPT ![s] = <<>>]
      /\ late' = IF Observed(Followed[s]) THEN late \cup {s} ELSE late
      /\ UNCHANGED <<vars, contended, missed, view>>
  BY DEF Subscribe
<1>2. TellsNothing /\ \A r \in Subscriber : Followed[r] \in MessageId
  BY <1>1, SameStoresTellNothing, ServiceAssumption
<1>3. unread'[s] = <<>> /\ \A r \in Subscriber \ {s} : unread'[r] = unread[r]
  BY <1>1 DEF ChannelTypeOK
<1>4. <<>> # None
  <2>1. <<>> \in Seq(GqlEvent)
    OBVIOUS
  <2> QED
    BY <2>1, ReceiverAssumption
<1>5. ASSUME NEW r \in Subscriber \ {s}, r \in Following', Followed[r] \notin contended
      PROVE  InStep(r)'
  <2>1. r \in Following
    BY <1>1, <1>3, <1>5 DEF Following, Subscribed
  <2>2. PICK id, last, seen, events :
          /\ id = Followed[r] /\ last = Told(id) /\ seen = view[r] /\ events = unread[r]
    OBVIOUS
  <2>3. Ends(id, seen, events, last)
    BY <1>5, <2>1, <2>2 DEF ViewsInv, InStep
  <2>4. Told(id)' = last /\ view'[r] = seen /\ unread'[r] = events
    BY <1>1, <1>2, <1>3, <1>5, <2>2 DEF TellsNothing
  <2> QED
    BY <2>2, <2>3, <2>4 DEF InStep
<1>6. ASSUME s \in Following', Followed[s] \notin contended
      PROVE  InStep(s)'
  <2>1. ~ Observed(Followed[s])
    BY <1>1, <1>6 DEF Following
  <2>2. PICK id, seen : id = Followed[s] /\ seen = [status |-> "unknown", have |-> 0]
    OBVIOUS
  <2>3. view[s] = seen
    BY <1>1, <2>2 DEF ViewsInv
  <2>4. Told(id) = seen
    BY <2>1, <2>2, NothingTold
  <2>5. Told(id)' = seen /\ view'[s] = seen
    BY <1>1, <1>2, <1>6, <2>2, <2>3, <2>4 DEF TellsNothing
  <2>6. seen \in ViewType
    BY <2>2 DEF ViewType
  <2>7. Ends(id, seen, <<>>, seen)
    BY <2>6, NothingToRead
  <2> QED
    BY <1>3, <2>2, <2>5, <2>7 DEF InStep
<1>7. ASSUME NEW r \in Subscriber, unread'[r] = None
      PROVE  view'[r] = [status |-> "unknown", have |-> 0]
  BY <1>1, <1>3, <1>4, <1>7 DEF ViewsInv
<1> QED
  BY <1>1, <1>5, <1>6, <1>7 DEF ViewsInv

LEMMA NextEventKeepsViews ==
  ASSUME ViewsInv, ChannelTypeOK, NEW s \in Subscriber, NextEvent(s)
  PROVE  ViewsInv'
<1>1. /\ unread[s] # None /\ unread[s] # <<>>
      /\ unread' = [unread EXCEPT ![s] = Tail(unread[s])]
      /\ view' = IF Head(unread[s]).message_id = Followed[s]
                 THEN [view EXCEPT ![s] = Follow(view[s], Head(unread[s]))] ELSE view
      /\ UNCHANGED <<vars, contended, missed, late>>
  BY DEF NextEvent, Subscribed
<1>2. TellsNothing /\ \A r \in Subscriber : Followed[r] \in MessageId
  BY <1>1, SameStoresTellNothing, ServiceAssumption
<1>3. unread[s] \in Seq(GqlEvent) /\ Tail(unread[s]) \in Seq(GqlEvent)
  <2>1. unread[s] \in Seq(GqlEvent)
    BY <1>1 DEF ChannelTypeOK
  <2> QED
    BY <1>1, <2>1, HeadTailProperties
<1>4. /\ unread'[s] = Tail(unread[s])
      /\ view'[s] = Heard(Followed[s], view[s], Head(unread[s]))
      /\ \A r \in Subscriber \ {s} : unread'[r] = unread[r] /\ view'[r] = view[r]
  BY <1>1 DEF ChannelTypeOK, Heard
<1>5. unread'[s] # None
  BY <1>3, <1>4, ReceiverAssumption
<1>6. ASSUME NEW r \in Subscriber, r \in Following' PROVE r \in Following
  BY <1>1, <1>4, <1>6 DEF Following, Subscribed
<1>7. ASSUME NEW r \in Subscriber, r \in Following', Followed[r] \notin contended
      PROVE  InStep(r)'
  <2>1. PICK id, last, seen, events :
          /\ id = Followed[r] /\ last = Told(id) /\ seen = view[r] /\ events = unread[r]
    OBVIOUS
  <2>2. Ends(id, seen, events, last) /\ Told(id)' = last
    BY <1>1, <1>2, <1>6, <1>7, <2>1 DEF ViewsInv, InStep, TellsNothing
  <2>3. CASE r # s
    BY <1>4, <2>1, <2>2, <2>3 DEF InStep
  <2>4. CASE r = s
    <3>1. Ends(id, Heard(id, seen, Head(events)), Tail(events), last)
      BY <1>1, <1>3, <2>1, <2>2, <2>4, OneEventLess
    <3>2. unread'[r] = Tail(events) /\ view'[r] = Heard(id, seen, Head(events))
      BY <1>4, <2>1, <2>4
    <3> QED
      BY <2>1, <2>2, <3>1, <3>2 DEF InStep
  <2> QED
    BY <2>3, <2>4
<1>8. ASSUME NEW r \in Subscriber, unread'[r] = None
      PROVE  view'[r] = [status |-> "unknown", have |-> 0]
  BY <1>4, <1>5, <1>8 DEF ViewsInv
<1> QED
  BY <1>1, <1>7, <1>8 DEF ViewsInv

LEMMA ViewsStep ==
  ASSUME VaaAdapter = "memory", FixedSets, IInv, OverlapInv, AssemblyNeverRejected,
         ChannelTypeOK, ViewsInv, [ServiceNext]_service
  PROVE  ViewsInv'
<1>1. ASSUME NEW t \in Task, Call(t) PROVE ViewsInv'
  <2>1. Request(t) /\ contended \subseteq contended'
    BY <1>1, CallIsRequest DEF Call, Watch
  <2> QED
    BY <1>1, <2>1, RequestTellsNothing, QuietKeepsViews DEF Call
<1>2. ASSUME NEW t \in Task, QuietStep(t), UNCHANGED contended PROVE ViewsInv'
  BY <1>2, QuietStepTellsNothing, QuietKeepsViews DEF QuietStep
<1>3. ASSUME NEW t \in Task, ObservedStep(t), UNCHANGED contended PROVE ViewsInv'
  <2>1. PICK event : event = [kind |-> "MESSAGE_OBSERVED", message_id |-> frame[t].id]
    OBVIOUS
  <2>2. AnnounceObserved(t) /\ Send(event)
    BY <1>3, <2>1 DEF ObservedStep
  <2> QED
    BY <1>3, <2>1, <2>2, ObservedTells, SendKeepsViews
<1>4. ASSUME NEW t \in Task, SignatureStep(t), UNCHANGED contended PROVE ViewsInv'
  <2>1. PICK event :
          event = [kind |-> "SIGNATURE_COLLECTED", message_id |-> frame[t].id,
                   guardian_index |-> frame[t].sig.guardian_index,
                   have |-> Len(frame[t].held.signatures),
                   needed |-> quorum(frame[t].held.guardian_count)]
    OBVIOUS
  <2>2. AnnounceSignature(t) /\ Send(event)
    BY <1>4, <2>1 DEF SignatureStep
  <2> QED
    BY <1>4, <2>1, <2>2, SignatureTells, SendKeepsViews
<1>5. ASSUME NEW t \in Task, AssembledStep(t), UNCHANGED contended PROVE ViewsInv'
  <2>1. PICK event : event = [kind |-> "VAA_ASSEMBLED", message_id |-> frame[t].id]
    OBVIOUS
  <2>2. AnnounceVaa(t) /\ Send(event)
    BY <1>5, <2>1 DEF AssembledStep
  <2> QED
    BY <1>5, <2>1, <2>2, AssembledTells, SendKeepsViews
<1>6. CASE UNCHANGED service
  <2>1. UNCHANGED <<vars, contended, channel, client>>
    BY <1>6 DEF service
  <2> QED
    BY <2>1, SameStoresTellNothing, QuietKeepsViews
<1> QED
  BY <1>1, <1>2, <1>3, <1>4, <1>5, <1>6, SubscribeKeepsViews, NextEventKeepsViews
     DEF ServiceNext, Handle

LEMMA CaughtUp ==
  ASSUME ViewsInv, ChannelTypeOK
  PROVE  CaughtUpViewIsExact
<1> SUFFICES ASSUME NEW s \in Following, unread[s] = <<>>,
                    NEW id, id = Followed[s], id \in Uncontended, Quiet(id)
             PROVE  /\ view[s].status = StatusOf(id)
                    /\ Observed(id) => view[s].have = Len(EntryOf(id).signatures)
  BY DEF CaughtUpViewIsExact, Following
<1>1. s \in Subscriber
  BY DEF Following, Subscribed
<1>2. view[s] = Told(id)
  <2>1. Ends(id, view[s], <<>>, Told(id))
    BY <1>1 DEF ViewsInv, InStep, Uncontended
  <2>2. view[s] \in ViewType
    BY <1>1 DEF ChannelTypeOK, ViewType
  <2> QED
    BY <2>1, <2>2, NothingToRead
<1>3. /\ ~ At({"AnnounceObserved"}, id)
      /\ ~ At(BehindSteps, id) /\ ~ At(AheadSteps, id)
  BY DEF Quiet, AtWork, At, ObserveSteps, SubmitSteps, BehindSteps, AheadSteps
<1> QED
  BY <1>2, <1>3 DEF Told

(* A client that follows a message from its observation on and stays       *)
(* inside the ring of the channel knows the status of the message and how  *)
(* many signatures it has whenever no call for it is under way, for any    *)
(* number of messages, handlers and subscribers and any capacity, as long  *)
(* as no two calls for this very message ever overlapped.                  *)
THEOREM ViewsAreExact ==
  ASSUME VaaAdapter = "memory", FixedSets
  PROVE  ServiceSpec => []CaughtUpViewIsExact
<1>1. ServiceInit => ChannelTypeOK
  BY DEF ServiceInit, ChannelTypeOK
<1>2. ServiceInit => ViewsInv
  BY DEF ServiceInit, ViewsInv, Following, Subscribed
<1>3. IInv /\ ChannelTypeOK /\ [ServiceNext]_service => ChannelTypeOK'
  BY ChannelStep
<1>4. /\ IInv /\ OverlapInv /\ AssemblyNeverRejected /\ ChannelTypeOK /\ ViewsInv
      /\ [ServiceNext]_service
      => ViewsInv'
  BY ViewsStep
<1>5. ViewsInv /\ ChannelTypeOK => CaughtUpViewIsExact
  BY CaughtUp
<1> QED
  BY <1>1, <1>2, <1>3, <1>4, <1>5, ServiceInvariance, ServiceImplementsEngine,
     OverlapIsSpec, AssemblySucceeds, PTL DEF ServiceSpec
=============================================================================

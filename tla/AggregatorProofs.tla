-------------------------- MODULE AggregatorProofs --------------------------
(***************************************************************************)
(* The safety properties of Aggregator for any number of handlers,         *)
(* messages, guardian sets and signatures, from the inductive invariant    *)
(* IInv of AggregatorInv.  The proof is split the way the system is: what  *)
(* each store operation preserves, what a handler's step does to the other *)
(* handlers, and then one step per action.                                 *)
(***************************************************************************)
EXTENDS AggregatorInv, VaaProofs

-----------------------------------------------------------------------------
(* Steps of a handler.                                                     *)

\* No step makes a stored VAA, an observed message or a known set vanish.
StoresMonotone ==
  /\ \A id \in MessageId : vaas[id] # None => vaas'[id] # None
  /\ \A id \in MessageId : Observed(id) => Observed(id)'
  /\ \A i \in SetIndex : sets[i] # None => sets'[i] # None

\* Handler t goes to step with the local variables f; the others stay.
Moves(t, step, f) ==
  /\ pc' = [pc EXCEPT ![t] = step]
  /\ frame' = [frame EXCEPT ![t] = f]

LEMMA NoFrameType == NoFrame \in Frame
BY DEF NoFrame, Frame

LEMMA NoneDistinct ==
  /\ None \notin MessageId /\ None \notin SetIndex
  /\ None \notin KeyList /\ None \notin GuardianSignature
  /\ None \notin PendingObservation /\ None \notin VaaRecord
BY NoneAssumption

\* What a handler knows stays true while another one moves.
LEMMA OtherHandlerKept ==
  ASSUME IInv, StoresMonotone, NEW u \in Task,
         pc'[u] = pc[u], frame'[u] = frame[u]
  PROVE  HandlerInv(u)'
<1>1. HandlerInv(u) /\ frame[u] \in Frame
  BY DEF IInv, TypeOK
<1>2. ObserveInv(u)'
  BY <1>1 DEF HandlerInv, ObserveInv
<1>3. SubmitInv(u)'
  BY <1>1 DEF HandlerInv, SubmitInv, StoresMonotone, SubmitSteps
<1>4. RegistryInv(u)'
  BY <1>1 DEF HandlerInv, RegistryInv, StoresMonotone
<1>5. StatsInv(u)'
  BY <1>1 DEF HandlerInv, StatsInv, StoresMonotone, Observed, Frame
<1>6. QED
  BY <1>2, <1>3, <1>4, <1>5 DEF HandlerInv

\* The shape of every step: the stores are good again and so is the mover.
LEMMA HandlerMoves ==
  ASSUME IInv, StoresGood', StoresMonotone,
         NEW t \in Task, NEW step \in Steps, NEW f \in Frame,
         Moves(t, step, f), accepted' \in SUBSET (MessageId \X Nat),
         (pc'[t] = step /\ frame'[t] = f) => HandlerInv(t)'
  PROVE  IInv'
<1>1. pc \in [Task -> Steps] /\ frame \in [Task -> Frame]
  BY DEF IInv, TypeOK
<1>2. /\ pc' \in [Task -> Steps] /\ frame' \in [Task -> Frame]
      /\ pc'[t] = step /\ frame'[t] = f
  BY <1>1 DEF Moves
<1>3. TypeOK'
  BY <1>2 DEF TypeOK, StoresGood
<1>4. ASSUME NEW u \in Task PROVE HandlerInv(u)'
  <2>1. CASE u = t
    BY <1>2, <2>1
  <2>2. CASE u # t
    <3>1. pc'[u] = pc[u] /\ frame'[u] = frame[u]
      BY <1>1, <2>2 DEF Moves
    <3>2. QED
      BY <3>1, OtherHandlerKept
  <2>3. QED
    BY <2>1, <2>2
<1>5. QED
  BY <1>3, <1>4 DEF IInv

\* The same for a step that leaves the handler's local variables alone.
LEMMA HandlerContinues ==
  ASSUME IInv, StoresGood', StoresMonotone,
         NEW t \in Task, NEW step \in Steps, Goto(t, step), frame' = frame,
         accepted' \in SUBSET (MessageId \X Nat),
         (pc'[t] = step /\ frame'[t] = frame[t]) => HandlerInv(t)'
  PROVE  IInv'
<1>1. frame[t] \in Frame /\ frame' = [frame EXCEPT ![t] = frame[t]]
  BY DEF IInv, TypeOK
<1>2. Moves(t, step, frame[t])
  BY <1>1 DEF Goto, Moves
<1>3. QED
  BY <1>1, <1>2, HandlerMoves

LEMMA HandlerReturns ==
  ASSUME IInv, StoresGood', StoresMonotone, NEW t \in Task, Return(t),
         accepted' \in SUBSET (MessageId \X Nat)
  PROVE  IInv'
<1>1. Moves(t, "idle", NoFrame) /\ "idle" \in Steps
  BY DEF Return, Goto, Moves, Steps
<1>2. pc'[t] = "idle" => HandlerInv(t)'
  BY DEF HandlerInv, ObserveInv, SubmitInv, RegistryInv, StatsInv,
         ObserveSteps, SubmitSteps, UpgradeSteps
<1>3. QED
  BY <1>1, <1>2, NoFrameType, HandlerMoves

-----------------------------------------------------------------------------
(* What the operations of the stores preserve.                             *)

LEMMA StoresUnchanged ==
  ASSUME IInv, UNCHANGED stores
  PROVE  StoresGood' /\ StoresMonotone
<1>1. StoresGood
  BY DEF IInv
<1>2. StoresGood'
  BY <1>1 DEF StoresGood, StoresTypeOK, StoresInv, StoredVaaVerified,
              AnnouncedVaaIsStored, stores
<1>3. QED
  BY <1>2 DEF StoresMonotone, Observed, stores

\* A call starts, or a step reads the stores and changes nothing in them.
LEMMA HandlerReads ==
  ASSUME IInv, NEW t \in Task, NEW step \in Steps, NEW f \in Frame,
         Moves(t, step, f), UNCHANGED <<stores, accepted>>,
         (pc'[t] = step /\ frame'[t] = f) => HandlerInv(t)'
  PROVE  IInv'
<1>1. StoresGood' /\ StoresMonotone
  BY StoresUnchanged
<1>2. accepted' \in SUBSET (MessageId \X Nat)
  BY DEF IInv, TypeOK
<1>3. QED
  BY <1>1, <1>2, HandlerMoves

LEMMA HandlerReadsAndReturns ==
  ASSUME IInv, NEW t \in Task, Return(t), UNCHANGED <<stores, accepted>>
  PROVE  IInv'
<1>1. StoresGood' /\ StoresMonotone
  BY StoresUnchanged
<1>2. accepted' \in SUBSET (MessageId \X Nat)
  BY DEF IInv, TypeOK
<1>3. QED
  BY <1>1, <1>2, HandlerReturns

LEMMA UpsertPendingGood ==
  ASSUME IInv, NEW id \in MessageId, NEW observation \in PendingObservation,
         Genuine(observation), Counted(observation),
         ~ quorum_reached(observation),
         UpsertPending(id, observation)
  PROVE  StoresGood' /\ StoresMonotone
<1>1. StoresGood
  BY DEF IInv
<1>2. StoresTypeOK'
  BY <1>1 DEF StoresGood, StoresTypeOK, UpsertPending
<1>3. \A m \in MessageId : pending'[m] = IF m = id THEN observation ELSE pending[m]
  BY <1>1 DEF StoresGood, StoresTypeOK, UpsertPending
<1>4. StoresInv'
  BY <1>1, <1>3 DEF StoresGood, StoresInv, UpsertPending
<1>5. StoredVaaVerified' /\ AnnouncedVaaIsStored'
  BY <1>1 DEF StoresGood, StoredVaaVerified, AnnouncedVaaIsStored, UpsertPending
<1>6. StoresMonotone
  BY <1>3, NoneDistinct DEF StoresMonotone, Observed, UpsertPending
<1>7. QED
  BY <1>2, <1>4, <1>5, <1>6 DEF StoresGood

LEMMA RemovePendingGood ==
  ASSUME IInv, NEW id \in MessageId, vaas[id] # None, RemovePending(id)
  PROVE  StoresGood' /\ StoresMonotone
<1>1. StoresGood
  BY DEF IInv
<1>2. StoresTypeOK'
  BY <1>1 DEF StoresGood, StoresTypeOK, RemovePending
<1>3. \A m \in MessageId : pending'[m] = IF m = id THEN None ELSE pending[m]
  BY <1>1 DEF StoresGood, StoresTypeOK, RemovePending
<1>4. StoresInv'
  BY <1>1, <1>3 DEF StoresGood, StoresInv, RemovePending
<1>5. StoredVaaVerified' /\ AnnouncedVaaIsStored'
  BY <1>1 DEF StoresGood, StoredVaaVerified, AnnouncedVaaIsStored, RemovePending
<1>6. StoresMonotone
  BY <1>3 DEF StoresMonotone, Observed, RemovePending
<1>7. QED
  BY <1>2, <1>4, <1>5, <1>6 DEF StoresGood

LEMMA SaveRecordGood ==
  ASSUME IInv, NEW id \in MessageId, NEW record \in VaaRecord,
         \E keys \in KeyLists[record.guardian_set_index] :
           verify(record.signatures, keys),
         SaveRecord(id, record)
  PROVE  StoresGood' /\ StoresMonotone /\ vaas'[id] # None
<1>1. StoresGood
  BY DEF IInv
<1>2. StoresTypeOK'
  BY <1>1 DEF StoresGood, StoresTypeOK, SaveRecord
<1>3. /\ vaas'[id] = record \/ (vaas'[id] = vaas[id] /\ vaas[id] # None)
      /\ \A m \in MessageId : m # id => vaas'[m] = vaas[m]
  BY <1>1 DEF StoresGood, StoresTypeOK, SaveRecord
<1>4. vaas'[id] # None
  BY <1>3, NoneDistinct
<1>5. StoresInv'
  BY <1>1 DEF StoresGood, StoresInv, SaveRecord
<1>6. StoredVaaVerified'
  BY <1>1, <1>3 DEF StoresGood, StoredVaaVerified
<1>7. AnnouncedVaaIsStored'
  BY <1>1, <1>3, <1>4 DEF StoresGood, AnnouncedVaaIsStored, SaveRecord
<1>8. StoresMonotone
  BY <1>3, <1>4 DEF StoresMonotone, Observed, SaveRecord
<1>9. QED
  BY <1>2, <1>4, <1>5, <1>6, <1>7, <1>8 DEF StoresGood

LEMMA InsertSetGood ==
  ASSUME IInv, NEW index \in SetIndex, NEW keys \in KeyLists[index],
         InsertSet(index, keys)
  PROVE  StoresGood' /\ StoresMonotone /\ sets'[index] # None
<1>1. StoresGood
  BY DEF IInv
<1>2. keys \in KeyList /\ keys # None
  BY KeyListsAssumption, NoneDistinct
<1>3. StoresTypeOK'
  BY <1>1, <1>2 DEF StoresGood, StoresTypeOK, InsertSet
<1>4. \A i \in SetIndex : sets'[i] = IF i = index THEN keys ELSE sets[i]
  BY <1>1 DEF StoresGood, StoresTypeOK, InsertSet
<1>5. current \in SetIndex /\ current' = current
  BY <1>1 DEF StoresGood, StoresTypeOK, InsertSet
<1>6. StoresInv'
  BY <1>1, <1>2, <1>4, <1>5 DEF StoresGood, StoresInv, InsertSet
<1>7. StoredVaaVerified' /\ AnnouncedVaaIsStored'
  BY <1>1 DEF StoresGood, StoredVaaVerified, AnnouncedVaaIsStored, InsertSet
<1>8. StoresMonotone /\ sets'[index] # None
  BY <1>2, <1>4 DEF StoresMonotone, Observed, InsertSet
<1>9. QED
  BY <1>3, <1>6, <1>7, <1>8 DEF StoresGood

LEMMA SetCurrentGood ==
  ASSUME IInv, NEW index \in SetIndex, sets[index] # None, SetCurrent(index)
  PROVE  StoresGood' /\ StoresMonotone
<1>1. StoresGood
  BY DEF IInv
<1>2. StoresGood'
  BY <1>1 DEF StoresGood, StoresTypeOK, StoresInv, StoredVaaVerified,
              AnnouncedVaaIsStored, SetCurrent
<1>3. QED
  BY <1>2 DEF StoresMonotone, Observed, SetCurrent

LEMMA PublishGood ==
  ASSUME IInv, NEW event \in DomainEvent, Publish(event),
         \A id \in MessageId :
           event = [kind |-> "VaaAssembled", id |-> id] => vaas[id] # None
  PROVE  StoresGood' /\ StoresMonotone
<1>1. StoresGood
  BY DEF IInv
<1>2. StoresGood'
  BY <1>1 DEF StoresGood, StoresTypeOK, StoresInv, StoredVaaVerified,
              AnnouncedVaaIsStored, Publish
<1>3. QED
  BY <1>2 DEF StoresMonotone, Observed, Publish

-----------------------------------------------------------------------------
(* The signature rules, as the handlers use them.                          *)

LEMMA SignatureIndex == \A sig \in GuardianSignature : sig.guardian_index \in Nat
BY DEF GuardianSignature

LEMMA NewObservationGood ==
  ASSUME NEW index \in SetIndex, NEW keys \in KeyLists[index]
  PROVE  LET observation == NewObservation(index, keys) IN
         /\ observation \in PendingObservation
         /\ Genuine(observation)
         /\ Counted(observation)
         /\ ~ quorum_reached(observation)
<1> DEFINE observation == NewObservation(index, keys)
<1>1. keys \in Seq(Address) /\ Len(keys) \in Nat
  BY KeyListsAssumption, LenProperties DEF KeyList
<1>2. /\ observation.guardian_set_index = index
      /\ observation.signatures = <<>>
      /\ observation.guardian_count = Len(keys)
  BY DEF NewObservation
<1>3. observation \in PendingObservation
  BY <1>1 DEF NewObservation, PendingObservation
<1> HIDE DEF observation
<1>4. Genuine(observation)
  BY <1>2 DEF Genuine, StrictlyAscending
<1>5. Counted(observation)
  BY <1>2 DEF Counted, FixedSets
<1>6. ~ quorum_reached(observation)
  BY <1>1, <1>2, QuorumIsSupermajority DEF quorum_reached
<1>7. QED
  BY <1>3, <1>4, <1>5, <1>6 DEF observation

\* InsertSortedKeepsOrder for lists of guardian signatures.
LEMMA InsertedSignature ==
  ASSUME NEW sigs \in Seq(GuardianSignature), StrictlyAscending(sigs),
         NEW sig \in GuardianSignature, ~ has_guardian(sigs, sig.guardian_index)
  PROVE  /\ insert_sorted(sigs, sig) \in Seq(GuardianSignature)
         /\ StrictlyAscending(insert_sorted(sigs, sig))
         /\ \A i \in 1 .. Len(insert_sorted(sigs, sig)) :
              \/ insert_sorted(sigs, sig)[i] = sig
              \/ \E j \in 1 .. Len(sigs) : insert_sorted(sigs, sig)[i] = sigs[j]
<1> DEFINE S == GuardianSignature
<1>1. \A x \in S : x.guardian_index \in Nat
  BY SignatureIndex
<1>2. sigs \in Seq(S) /\ sig \in S
  OBVIOUS
<1> HIDE DEF S
<1>3. /\ insert_sorted(sigs, sig) \in Seq(S)
      /\ StrictlyAscending(insert_sorted(sigs, sig))
      /\ \A i \in 1 .. Len(insert_sorted(sigs, sig)) :
           \/ insert_sorted(sigs, sig)[i] = sig
           \/ \E j \in 1 .. Len(sigs) : insert_sorted(sigs, sig)[i] = sigs[j]
  BY <1>1, <1>2, InsertSortedKeepsOrder
<1> QED
  BY <1>3 DEF S

\* Inserting an acceptable signature into a copy of an observation.
LEMMA CollectedGood ==
  ASSUME NEW held \in PendingObservation, Genuine(held), Counted(held),
         NEW keys \in KeyLists[held.guardian_set_index],
         NEW sig \in GuardianSignature, Acceptable(held, keys, sig)
  PROVE  LET grown == [held EXCEPT !.signatures = insert_sorted(held.signatures, sig)]
         IN  /\ grown \in PendingObservation
             /\ grown.guardian_set_index = held.guardian_set_index
             /\ Genuine(grown)
             /\ Counted(grown)
<1> DEFINE sigs == held.signatures
           longer == insert_sorted(sigs, sig)
           grown == [held EXCEPT !.signatures = longer]
<1>1. sigs \in Seq(GuardianSignature) /\ StrictlyAscending(sigs)
  BY DEF PendingObservation, Genuine
<1>2. ~ has_guardian(sigs, sig.guardian_index)
  BY DEF Acceptable
<1>3. /\ longer \in Seq(GuardianSignature)
      /\ StrictlyAscending(longer)
      /\ \A i \in 1 .. Len(longer) :
           longer[i] = sig \/ \E j \in 1 .. Len(sigs) : longer[i] = sigs[j]
  BY <1>1, <1>2, InsertedSignature
<1> HIDE DEF longer
<1>4. /\ grown \in PendingObservation
      /\ grown.guardian_set_index = held.guardian_set_index
      /\ grown.signatures = longer
      /\ grown.guardian_count = held.guardian_count
  BY <1>3 DEF PendingObservation
<1> HIDE DEF grown
<1>5. Genuine(grown)
  <2>1. ASSUME NEW i \in 1 .. Len(longer)
        PROVE  \E k \in KeyLists[held.guardian_set_index] : SignedByMember(longer[i], k)
    BY <1>3 DEF Genuine, Acceptable
  <2>2. QED
    BY <1>3, <1>4, <2>1 DEF Genuine
<1>6. Counted(grown)
  BY <1>4 DEF Counted
<1>7. QED
  BY <1>4, <1>5, <1>6 DEF grown, longer

-----------------------------------------------------------------------------
(* One lemma per action: calls that start.                                 *)

LEMMA InitIInv == ASSUME Init PROVE IInv
<1>1. StoresTypeOK
  <2>1. \A i \in SetIndex : \A keys \in KeyLists[i] : keys \in KeyList
    BY KeyListsAssumption
  <2>2. QED
    BY <2>1 DEF Init, StoresInit, StoresTypeOK
<1>2. TypeOK
  BY <1>1, NoFrameType DEF Init, TypeOK, Steps
<1>3. StoresInv
  <2>1. \A i \in SetIndex : \A keys \in KeyLists[i] : keys # None
    BY KeyListsAssumption, NoneDistinct
  <2>2. QED
    BY <2>1 DEF Init, StoresInit, StoresInv
<1>4. StoredVaaVerified /\ AnnouncedVaaIsStored
  BY DEF Init, StoresInit, StoredVaaVerified, AnnouncedVaaIsStored
<1>5. \A t \in Task : HandlerInv(t)
  BY DEF Init, HandlerInv, ObserveInv, SubmitInv, RegistryInv, StatsInv,
         ObserveSteps, SubmitSteps, UpgradeSteps
<1>6. QED
  BY <1>1, <1>2, <1>3, <1>4, <1>5 DEF IInv, StoresGood

LEMMA ObserveStarts ==
  ASSUME IInv, NEW t \in Task, NEW id \in MessageId, NEW index \in SetIndex,
         Observe(t, id, index)
  PROVE  IInv'
<1> DEFINE f == [NoFrame EXCEPT !.id = id, !.index = index]
<1>1. f \in Frame /\ f.id = id /\ f.index = index
  BY DEF NoFrame, Frame
<1>2. Moves(t, "CheckCompleted", f) /\ UNCHANGED <<stores, accepted>>
  BY DEF Observe, Start, Goto, Moves
<1> HIDE DEF f
<1>3. (pc'[t] = "CheckCompleted" /\ frame'[t] = f) => HandlerInv(t)'
  BY <1>1 DEF HandlerInv, ObserveInv, SubmitInv, RegistryInv, StatsInv,
              ObserveSteps, SubmitSteps, UpgradeSteps
<1>4. "CheckCompleted" \in Steps
  BY DEF Steps, ObserveSteps
<1>5. QED
  BY <1>1, <1>2, <1>3, <1>4, HandlerReads

LEMMA SubmitStarts ==
  ASSUME IInv, NEW t \in Task, NEW id \in MessageId, NEW sig \in Signatures,
         Submit(t, id, sig)
  PROVE  IInv'
<1> DEFINE f == [NoFrame EXCEPT !.id = id, !.sig = sig]
<1>1. f \in Frame /\ f.id = id /\ f.sig = sig
  BY SignaturesAssumption DEF NoFrame, Frame
<1>2. Moves(t, "LoadPending", f) /\ UNCHANGED <<stores, accepted>>
  BY DEF Submit, Start, Goto, Moves
<1> HIDE DEF f
<1>3. (pc'[t] = "LoadPending" /\ frame'[t] = f) => HandlerInv(t)'
  BY <1>1 DEF HandlerInv, ObserveInv, SubmitInv, RegistryInv, StatsInv,
              ObserveSteps, SubmitSteps, UpgradeSteps
<1>4. "LoadPending" \in Steps
  BY DEF Steps, SubmitSteps
<1>5. QED
  BY <1>1, <1>2, <1>3, <1>4, HandlerReads

LEMMA UpgradeStarts ==
  ASSUME IInv, NEW t \in Task, NEW index \in SetIndex,
         NEW keys \in KeyLists[index], Upgrade(t, index, keys)
  PROVE  IInv'
<1> DEFINE f == [NoFrame EXCEPT !.index = index, !.keys = keys]
<1>1. f \in Frame /\ f.index = index /\ f.keys = keys
  BY KeyListsAssumption DEF NoFrame, Frame
<1>2. Moves(t, "InsertSet", f) /\ UNCHANGED <<stores, accepted>>
  BY DEF Upgrade, Start, Goto, Moves
<1> HIDE DEF f
<1>3. (pc'[t] = "InsertSet" /\ frame'[t] = f) => HandlerInv(t)'
  BY <1>1 DEF HandlerInv, ObserveInv, SubmitInv, RegistryInv, StatsInv,
              ObserveSteps, SubmitSteps, UpgradeSteps
<1>4. "InsertSet" \in Steps
  BY DEF Steps, UpgradeSteps
<1>5. QED
  BY <1>1, <1>2, <1>3, <1>4, HandlerReads

LEMMA CurrentStarts ==
  ASSUME IInv, NEW t \in Task, Current(t)
  PROVE  IInv'
<1>1. Moves(t, "ReadCurrent", NoFrame) /\ UNCHANGED <<stores, accepted>>
  BY DEF Current, Start, Goto, Moves
<1>2. pc'[t] = "ReadCurrent" => HandlerInv(t)'
  BY DEF HandlerInv, ObserveInv, SubmitInv, RegistryInv, StatsInv,
         ObserveSteps, SubmitSteps, UpgradeSteps
<1>3. "ReadCurrent" \in Steps
  BY DEF Steps, QuerySteps
<1>4. QED
  BY <1>1, <1>2, <1>3, NoFrameType, HandlerReads

LEMMA StatsStarts ==
  ASSUME IInv, NEW t \in Task, Stats(t)
  PROVE  IInv'
<1> DEFINE f == [NoFrame EXCEPT !.todo = MessageId,
                                !.known = {m \in MessageId : Observed(m)}]
<1>1. /\ f \in Frame /\ f.todo = MessageId /\ f.seen = {}
      /\ f.known = {m \in MessageId : Observed(m)}
  BY DEF NoFrame, Frame
<1>2. Moves(t, "ListPending", f) /\ UNCHANGED <<stores, accepted>>
  BY DEF Stats, Start, Goto, Moves
<1> HIDE DEF f
<1>3. (pc'[t] = "ListPending" /\ frame'[t] = f) => HandlerInv(t)'
  BY <1>1, <1>2 DEF HandlerInv, ObserveInv, SubmitInv, RegistryInv, StatsInv,
              ObserveSteps, SubmitSteps, UpgradeSteps, Observed, stores
<1>4. "ListPending" \in Steps
  BY DEF Steps, QuerySteps
<1>5. QED
  BY <1>1, <1>2, <1>3, <1>4, HandlerReads

-----------------------------------------------------------------------------
(* The steps of observe_message.                                           *)

LEMMA CheckCompletedKeeps ==
  ASSUME IInv, NEW t \in Task, CheckCompleted(t)
  PROVE  IInv'
<1>1. CASE Return(t)
  BY <1>1, HandlerReadsAndReturns DEF CheckCompleted
<1>2. CASE Goto(t, "CheckPending") /\ UNCHANGED frame
  <2>1. (pc'[t] = "CheckPending" /\ frame'[t] = frame[t]) => HandlerInv(t)'
    BY DEF IInv, CheckCompleted, HandlerInv, ObserveInv, SubmitInv, RegistryInv,
           StatsInv, ObserveSteps, SubmitSteps, UpgradeSteps
  <2>2. StoresGood' /\ StoresMonotone
    BY StoresUnchanged DEF CheckCompleted
  <2>3. accepted' \in SUBSET (MessageId \X Nat) /\ "CheckPending" \in Steps
    BY DEF CheckCompleted, IInv, TypeOK, Steps, ObserveSteps
  <2>4. QED
    BY <1>2, <2>1, <2>2, <2>3, HandlerContinues
<1>3. QED
  BY <1>1, <1>2 DEF CheckCompleted

LEMMA CheckPendingKeeps ==
  ASSUME IInv, NEW t \in Task, CheckPending(t)
  PROVE  IInv'
<1>1. CASE Return(t)
  BY <1>1, HandlerReadsAndReturns DEF CheckPending
<1>2. CASE Goto(t, "ReadSet") /\ UNCHANGED frame
  <2>1. (pc'[t] = "ReadSet" /\ frame'[t] = frame[t]) => HandlerInv(t)'
    BY DEF IInv, CheckPending, HandlerInv, ObserveInv, SubmitInv, RegistryInv,
           StatsInv, ObserveSteps, SubmitSteps, UpgradeSteps
  <2>2. StoresGood' /\ StoresMonotone
    BY StoresUnchanged DEF CheckPending
  <2>3. accepted' \in SUBSET (MessageId \X Nat) /\ "ReadSet" \in Steps
    BY DEF CheckPending, IInv, TypeOK, Steps, ObserveSteps
  <2>4. QED
    BY <1>2, <2>1, <2>2, <2>3, HandlerContinues
<1>3. QED
  BY <1>1, <1>2 DEF CheckPending

LEMMA ReadSetKeeps ==
  ASSUME IInv, NEW t \in Task, ReadSet(t)
  PROVE  IInv'
<1> DEFINE keys == sets[frame[t].index]
           f == [frame[t] EXCEPT !.keys = keys]
<1>1. CASE Return(t)
  BY <1>1, HandlerReadsAndReturns DEF ReadSet
<1>2. CASE /\ keys # None
           /\ Goto(t, "StorePending")
           /\ frame' = [frame EXCEPT ![t].keys = keys]
  <2>1. /\ frame[t] \in Frame /\ pc[t] = "ReadSet"
        /\ frame[t].id \in MessageId /\ frame[t].index \in SetIndex
    BY DEF IInv, TypeOK, ReadSet, HandlerInv, ObserveInv, ObserveSteps
  <2>2. keys \in KeyLists[frame[t].index] /\ keys \in KeyList
    BY <1>2, <2>1, KeyListsAssumption DEF IInv, StoresGood, StoresInv
  <2>3. /\ f \in Frame /\ f.id = frame[t].id /\ f.index = frame[t].index
        /\ f.keys = keys
    BY <2>1, <2>2 DEF Frame
  <2>4. Moves(t, "StorePending", f)
    BY <1>2, <2>1 DEF Moves, Goto
  <2> HIDE DEF f
  <2>5. (pc'[t] = "StorePending" /\ frame'[t] = f) => HandlerInv(t)'
    BY <2>1, <2>2, <2>3 DEF HandlerInv, ObserveInv, SubmitInv, RegistryInv,
       StatsInv, ObserveSteps, SubmitSteps, UpgradeSteps
  <2>6. "StorePending" \in Steps /\ UNCHANGED <<stores, accepted>>
    BY DEF ReadSet, Steps, ObserveSteps
  <2>7. QED
    BY <2>3, <2>4, <2>5, <2>6, HandlerReads
<1>3. QED
  BY <1>1, <1>2 DEF ReadSet

LEMMA StorePendingKeeps ==
  ASSUME IInv, NEW t \in Task, StorePending(t)
  PROVE  IInv'
<1> DEFINE observation == NewObservation(frame[t].index, frame[t].keys)
<1>1. /\ frame[t].id \in MessageId /\ frame[t].index \in SetIndex
      /\ frame[t].keys \in KeyLists[frame[t].index]
  BY DEF IInv, StorePending, HandlerInv, ObserveInv, ObserveSteps
<1>2. /\ observation \in PendingObservation
      /\ Genuine(observation) /\ Counted(observation)
      /\ ~ quorum_reached(observation)
  BY <1>1, NewObservationGood
<1>3. UpsertPending(frame[t].id, observation)
  BY DEF StorePending
<1> HIDE DEF observation
<1>4. StoresGood' /\ StoresMonotone
  BY <1>1, <1>2, <1>3, UpsertPendingGood
<1>5. (pc'[t] = "AnnounceObserved" /\ frame'[t] = frame[t]) => HandlerInv(t)'
  BY <1>1 DEF HandlerInv, ObserveInv, SubmitInv, RegistryInv, StatsInv,
     ObserveSteps, SubmitSteps, UpgradeSteps
<1>6. /\ accepted' \in SUBSET (MessageId \X Nat) /\ "AnnounceObserved" \in Steps
      /\ Goto(t, "AnnounceObserved") /\ frame' = frame
  BY DEF StorePending, IInv, TypeOK, Steps, ObserveSteps
<1>7. QED
  BY <1>4, <1>5, <1>6, HandlerContinues

LEMMA AnnounceObservedKeeps ==
  ASSUME IInv, NEW t \in Task, AnnounceObserved(t)
  PROVE  IInv'
<1> DEFINE event == [kind |-> "MessageObserved", id |-> frame[t].id]
<1>1. frame[t].id \in MessageId
  BY DEF IInv, AnnounceObserved, HandlerInv, ObserveInv, ObserveSteps
<1>2. event \in DomainEvent /\ event.kind # "VaaAssembled" /\ Publish(event)
  BY <1>1 DEF DomainEvent, AnnounceObserved
<1> HIDE DEF event
<1>3. StoresGood' /\ StoresMonotone
  BY <1>2, PublishGood
<1>4. Return(t) /\ accepted' \in SUBSET (MessageId \X Nat)
  BY DEF AnnounceObserved, IInv, TypeOK
<1>5. QED
  BY <1>3, <1>4, HandlerReturns

-----------------------------------------------------------------------------
(* The steps of submit_signature.                                          *)

LEMMA LoadPendingKeeps ==
  ASSUME IInv, NEW t \in Task, LoadPending(t)
  PROVE  IInv'
<1> DEFINE observation == pending[frame[t].id]
           f == [frame[t] EXCEPT !.held = observation]
<1>1. CASE Return(t)
  BY <1>1, HandlerReadsAndReturns DEF LoadPending
<1>2. CASE /\ observation # None
           /\ Goto(t, "LoadSet")
           /\ frame' = [frame EXCEPT ![t].held = observation]
  <2>1. /\ frame[t] \in Frame /\ pc[t] = "LoadPending"
        /\ frame[t].id \in MessageId /\ frame[t].sig \in Signatures
    BY DEF IInv, TypeOK, LoadPending, HandlerInv, SubmitInv, SubmitSteps
  <2>2. /\ observation \in PendingObservation
        /\ Genuine(observation) /\ Counted(observation)
    BY <1>2, <2>1 DEF IInv, StoresGood, StoresTypeOK, StoresInv
  <2>3. /\ f \in Frame /\ f.id = frame[t].id /\ f.sig = frame[t].sig
        /\ f.held = observation
    BY <2>1, <2>2 DEF Frame
  <2>4. Moves(t, "LoadSet", f)
    BY <1>2, <2>1 DEF Moves, Goto
  <2> HIDE DEF f
  <2>5. (pc'[t] = "LoadSet" /\ frame'[t] = f) => HandlerInv(t)'
    BY <2>1, <2>2, <2>3 DEF HandlerInv, ObserveInv, SubmitInv, RegistryInv,
       StatsInv, ObserveSteps, SubmitSteps, UpgradeSteps
  <2>6. "LoadSet" \in Steps /\ UNCHANGED <<stores, accepted>>
    BY DEF LoadPending, Steps, SubmitSteps
  <2>7. QED
    BY <2>3, <2>4, <2>5, <2>6, HandlerReads
<1>3. QED
  BY <1>1, <1>2 DEF LoadPending

LEMMA LoadSetKeeps ==
  ASSUME IInv, NEW t \in Task, LoadSet(t)
  PROVE  IInv'
<1> DEFINE held == frame[t].held
           sig == frame[t].sig
           keys == sets[held.guardian_set_index]
           longer == insert_sorted(held.signatures, sig)
           grown == [held EXCEPT !.signatures = longer]
           f == [frame[t] EXCEPT !.keys = keys, !.held = grown]
<1>1. CASE Return(t)
  BY <1>1, HandlerReadsAndReturns DEF LoadSet
<1>2. CASE /\ Acceptable(held, keys, sig)
           /\ Goto(t, "AnnounceSignature")
           /\ frame' = [frame EXCEPT ![t].keys = keys,
                                    ![t].held.signatures = longer]
  <2>1. /\ frame[t] \in Frame /\ pc[t] = "LoadSet"
        /\ frame[t].id \in MessageId /\ sig \in Signatures
        /\ held \in PendingObservation /\ Genuine(held) /\ Counted(held)
    BY DEF IInv, TypeOK, LoadSet, HandlerInv, SubmitInv, SubmitSteps
  <2>2. held.guardian_set_index \in SetIndex /\ sig \in GuardianSignature
    BY <2>1, SignaturesAssumption DEF PendingObservation
  <2>3. keys \in KeyLists[held.guardian_set_index] /\ keys \in KeyList
    BY <1>2, <2>2, KeyListsAssumption DEF IInv, StoresGood, StoresInv, Acceptable
  <2>4. /\ grown \in PendingObservation
        /\ grown.guardian_set_index = held.guardian_set_index
        /\ Genuine(grown) /\ Counted(grown)
    <3> HIDE DEF held, sig, keys
    <3>1. QED
      BY <1>2, <2>1, <2>2, <2>3, CollectedGood
  <2>5. /\ f \in Frame /\ f.id = frame[t].id /\ f.sig = sig
        /\ f.held = grown /\ f.keys = keys
    <3> HIDE DEF grown, keys
    <3>1. QED
      BY <2>1, <2>3, <2>4 DEF Frame
  <2>6. Moves(t, "AnnounceSignature", f)
    <3> HIDE DEF longer, keys
    <3>1. QED
      BY <1>2, <2>1 DEF Moves, Goto
  <2> HIDE DEF f, grown, longer, keys
  <2>7. (pc'[t] = "AnnounceSignature" /\ frame'[t] = f) => HandlerInv(t)'
    BY <2>1, <2>3, <2>4, <2>5 DEF HandlerInv, ObserveInv, SubmitInv, RegistryInv,
       StatsInv, ObserveSteps, SubmitSteps, UpgradeSteps
  <2>8. "AnnounceSignature" \in Steps /\ UNCHANGED <<stores, accepted>>
    BY DEF LoadSet, Steps, SubmitSteps
  <2>9. QED
    BY <2>5, <2>6, <2>7, <2>8, HandlerReads
<1>3. QED
  BY <1>1, <1>2 DEF LoadSet

LEMMA AnnounceSignatureKeeps ==
  ASSUME IInv, NEW t \in Task, AnnounceSignature(t)
  PROVE  IInv'
<1> DEFINE event == [kind |-> "SignatureCollected", id |-> frame[t].id,
                     guardian_index |-> frame[t].sig.guardian_index]
           step == IF quorum_reached(frame[t].held) THEN "SaveVaa"
                   ELSE "StoreSignature"
<1>1. /\ pc[t] = "AnnounceSignature"
      /\ frame[t].id \in MessageId /\ frame[t].sig \in Signatures
      /\ frame[t].held \in PendingObservation
      /\ Genuine(frame[t].held) /\ Counted(frame[t].held)
      /\ frame[t].keys \in KeyLists[frame[t].held.guardian_set_index]
  BY DEF IInv, AnnounceSignature, HandlerInv, SubmitInv, SubmitSteps
<1>2. frame[t].sig.guardian_index \in Nat
  BY <1>1, SignaturesAssumption, SignatureIndex
<1>3. event \in DomainEvent /\ event.kind # "VaaAssembled" /\ Publish(event)
  BY <1>1, <1>2 DEF DomainEvent, AnnounceSignature
<1> HIDE DEF event
<1>4. StoresGood' /\ StoresMonotone
  BY <1>3, PublishGood
<1>5. (pc'[t] = step /\ frame'[t] = frame[t]) => HandlerInv(t)'
  BY <1>1 DEF HandlerInv, ObserveInv, SubmitInv, RegistryInv, StatsInv,
     ObserveSteps, SubmitSteps, UpgradeSteps
<1>6. /\ accepted' \in SUBSET (MessageId \X Nat) /\ step \in Steps
      /\ Goto(t, step) /\ frame' = frame
  BY DEF AnnounceSignature, IInv, TypeOK, Steps, SubmitSteps
<1> HIDE DEF step
<1>7. QED
  BY <1>4, <1>5, <1>6, HandlerContinues

LEMMA StoreSignatureKeeps ==
  ASSUME IInv, NEW t \in Task, StoreSignature(t)
  PROVE  IInv'
<1>1. /\ frame[t].id \in MessageId /\ frame[t].sig \in Signatures
      /\ frame[t].held \in PendingObservation
      /\ Genuine(frame[t].held) /\ Counted(frame[t].held)
      /\ ~ quorum_reached(frame[t].held)
  BY DEF IInv, StoreSignature, HandlerInv, SubmitInv, SubmitSteps
<1>2. StoresGood' /\ StoresMonotone
  BY <1>1, UpsertPendingGood DEF StoreSignature
<1>3. frame[t].sig.guardian_index \in Nat
  BY <1>1, SignaturesAssumption, SignatureIndex
<1>4. Return(t) /\ accepted' \in SUBSET (MessageId \X Nat)
  BY <1>1, <1>3 DEF StoreSignature, IInv, TypeOK
<1>5. QED
  BY <1>2, <1>4, HandlerReturns

LEMMA RejectVaaKeeps ==
  ASSUME IInv, NEW t \in Task, RejectVaa(t)
  PROVE  IInv'
BY HandlerReadsAndReturns DEF RejectVaa

\* What a save stores, whichever answer the handler gets.
LEMMA SaveStoresVerified ==
  ASSUME IInv, NEW t \in Task, pc[t] = "SaveVaa", Verified(t),
         SaveRecord(frame[t].id, Assembled(frame[t].held))
  PROVE  StoresGood' /\ StoresMonotone /\ vaas'[frame[t].id] # None
<1> DEFINE record == Assembled(frame[t].held)
<1>1. /\ frame[t].id \in MessageId /\ frame[t].held \in PendingObservation
      /\ frame[t].keys \in KeyLists[frame[t].held.guardian_set_index]
  BY DEF IInv, HandlerInv, SubmitInv, SubmitSteps
<1>2. /\ record \in VaaRecord
      /\ record.guardian_set_index = frame[t].held.guardian_set_index
      /\ record.signatures = frame[t].held.signatures
  BY <1>1 DEF Assembled, PendingObservation, VaaRecord
<1> HIDE DEF record
<1>3. \E keys \in KeyLists[record.guardian_set_index] :
        verify(record.signatures, keys)
  BY <1>1, <1>2 DEF Verified
<1>4. SaveRecord(frame[t].id, record)
  BY DEF record
<1>5. QED
  BY <1>1, <1>2, <1>3, <1>4, SaveRecordGood

LEMMA SaveVaaKeeps ==
  ASSUME IInv, NEW t \in Task, SaveVaa(t)
  PROVE  IInv'
<1>1. StoresGood' /\ StoresMonotone /\ vaas'[frame[t].id] # None
  BY SaveStoresVerified DEF SaveVaa
<1>2. (pc'[t] = "ClearPending" /\ frame'[t] = frame[t]) => HandlerInv(t)'
  BY <1>1 DEF IInv, SaveVaa, HandlerInv, ObserveInv, SubmitInv, RegistryInv,
     StatsInv, ObserveSteps, SubmitSteps, UpgradeSteps
<1>3. /\ accepted' \in SUBSET (MessageId \X Nat) /\ "ClearPending" \in Steps
      /\ Goto(t, "ClearPending") /\ frame' = frame
  BY DEF SaveVaa, IInv, TypeOK, Steps, SubmitSteps
<1>4. QED
  BY <1>1, <1>2, <1>3, HandlerContinues

LEMMA ClearPendingKeeps ==
  ASSUME IInv, NEW t \in Task, ClearPending(t)
  PROVE  IInv'
<1>1. frame[t].id \in MessageId /\ vaas[frame[t].id] # None
  BY DEF IInv, ClearPending, HandlerInv, SubmitInv, SubmitSteps
<1>2. StoresGood' /\ StoresMonotone /\ vaas' = vaas
  BY <1>1, RemovePendingGood DEF ClearPending, RemovePending
<1>3. (pc'[t] = "AnnounceVaa" /\ frame'[t] = frame[t]) => HandlerInv(t)'
  BY <1>2 DEF IInv, ClearPending, HandlerInv, ObserveInv, SubmitInv, RegistryInv,
     StatsInv, ObserveSteps, SubmitSteps, UpgradeSteps
<1>4. /\ accepted' \in SUBSET (MessageId \X Nat) /\ "AnnounceVaa" \in Steps
      /\ Goto(t, "AnnounceVaa") /\ frame' = frame
  BY DEF ClearPending, IInv, TypeOK, Steps, SubmitSteps
<1>5. QED
  BY <1>2, <1>3, <1>4, HandlerContinues

LEMMA AnnounceVaaKeeps ==
  ASSUME IInv, NEW t \in Task, AnnounceVaa(t)
  PROVE  IInv'
<1> DEFINE event == [kind |-> "VaaAssembled", id |-> frame[t].id]
<1>1. frame[t].id \in MessageId /\ vaas[frame[t].id] # None
  BY DEF IInv, AnnounceVaa, HandlerInv, SubmitInv, SubmitSteps
<1>2. event \in DomainEvent /\ event.id = frame[t].id /\ Publish(event)
  BY <1>1 DEF DomainEvent, AnnounceVaa
<1> HIDE DEF event
<1>3. StoresGood' /\ StoresMonotone
  BY <1>1, <1>2, PublishGood
<1>4. Return(t) /\ accepted' \in SUBSET (MessageId \X Nat)
  BY DEF AnnounceVaa, IInv, TypeOK
<1>5. QED
  BY <1>3, <1>4, HandlerReturns

LEMMA FaultKeeps ==
  ASSUME IInv, NEW t \in Task, Fault(t)
  PROVE  IInv'
<1>1. CASE StoreFails(t)
  BY <1>1, HandlerReadsAndReturns DEF StoreFails
<1>2. CASE SaveReplyLost(t)
  <2>1. StoresGood' /\ StoresMonotone
    BY <1>2, SaveStoresVerified DEF SaveReplyLost
  <2>2. Return(t) /\ accepted' \in SUBSET (MessageId \X Nat)
    BY <1>2 DEF SaveReplyLost, IInv, TypeOK
  <2>3. QED
    BY <2>1, <2>2, HandlerReturns
<1>3. QED
  BY <1>1, <1>2 DEF Fault

-----------------------------------------------------------------------------
(* The registry and stats.                                                 *)

LEMMA UpgradeInsertKeeps ==
  ASSUME IInv, NEW t \in Task, UpgradeInsert(t)
  PROVE  IInv'
<1>1. /\ frame[t].index \in SetIndex
      /\ frame[t].keys \in KeyLists[frame[t].index]
  BY DEF IInv, UpgradeInsert, HandlerInv, RegistryInv, UpgradeSteps
<1>2. StoresGood' /\ StoresMonotone /\ sets'[frame[t].index] # None
  BY <1>1, InsertSetGood DEF UpgradeInsert
<1>3. (pc'[t] = "SetCurrent" /\ frame'[t] = frame[t]) => HandlerInv(t)'
  BY <1>1, <1>2 DEF HandlerInv, ObserveInv, SubmitInv, RegistryInv,
     StatsInv, ObserveSteps, SubmitSteps, UpgradeSteps
<1>4. /\ accepted' \in SUBSET (MessageId \X Nat) /\ "SetCurrent" \in Steps
      /\ Goto(t, "SetCurrent") /\ frame' = frame
  BY DEF UpgradeInsert, IInv, TypeOK, Steps, UpgradeSteps
<1>5. QED
  BY <1>2, <1>3, <1>4, HandlerContinues

LEMMA UpgradeCurrentKeeps ==
  ASSUME IInv, NEW t \in Task, UpgradeCurrent(t)
  PROVE  IInv'
<1>1. frame[t].index \in SetIndex /\ sets[frame[t].index] # None
  BY DEF IInv, UpgradeCurrent, HandlerInv, RegistryInv
<1>2. StoresGood' /\ StoresMonotone
  BY <1>1, SetCurrentGood DEF UpgradeCurrent
<1>3. Return(t) /\ accepted' \in SUBSET (MessageId \X Nat)
  BY DEF UpgradeCurrent, IInv, TypeOK
<1>4. QED
  BY <1>2, <1>3, HandlerReturns

LEMMA ReadCurrentKeeps ==
  ASSUME IInv, NEW t \in Task, ReadCurrent(t)
  PROVE  IInv'
<1> DEFINE f == [frame[t] EXCEPT !.index = current]
<1>1. frame[t] \in Frame /\ current \in SetIndex /\ sets[current] # None
  BY DEF IInv, TypeOK, StoresGood, StoresTypeOK, StoresInv
<1>2. f \in Frame /\ f.index = current
  BY <1>1 DEF Frame
<1>3. Moves(t, "ReadCurrentSet", f) /\ UNCHANGED <<stores, accepted>>
  BY DEF ReadCurrent, Goto, Moves
<1> HIDE DEF f
<1>4. (pc'[t] = "ReadCurrentSet" /\ frame'[t] = f) => HandlerInv(t)'
  BY <1>1, <1>2, <1>3 DEF HandlerInv, ObserveInv, SubmitInv, RegistryInv,
     StatsInv, ObserveSteps, SubmitSteps, UpgradeSteps, stores
<1>5. "ReadCurrentSet" \in Steps
  BY DEF Steps, QuerySteps
<1>6. QED
  BY <1>2, <1>3, <1>4, <1>5, HandlerReads

LEMMA ReadCurrentSetKeeps ==
  ASSUME IInv, NEW t \in Task, ReadCurrentSet(t)
  PROVE  IInv'
BY HandlerReadsAndReturns DEF ReadCurrentSet

LEMMA ListEntryKeeps ==
  ASSUME IInv, NEW t \in Task, NEW id \in MessageId, ListEntry(t, id)
  PROVE  IInv'
<1> DEFINE step == IF frame[t].todo = {id} THEN "CountVaas" ELSE "ListPending"
           seen == IF pending[id] # None THEN frame[t].seen \cup {id}
                   ELSE frame[t].seen
           f == [frame[t] EXCEPT !.todo = frame[t].todo \ {id}, !.seen = seen]
<1>1. frame[t] \in Frame /\ StatsInv(t) /\ pc[t] = "ListPending"
  BY DEF IInv, TypeOK, HandlerInv, ListEntry
<1>2. /\ f \in Frame /\ f.known = frame[t].known /\ f.seen = seen
      /\ f.todo = frame[t].todo \ {id}
  BY <1>1 DEF Frame
<1>3. Moves(t, step, f) /\ UNCHANGED <<stores, accepted>>
  BY <1>1 DEF ListEntry, Goto, Moves
<1> HIDE DEF f
<1>4. (pc'[t] = step /\ frame'[t] = f) => StatsInv(t)'
  BY <1>1, <1>2, <1>3 DEF StatsInv, stores
<1>5. (pc'[t] = step /\ frame'[t] = f) => HandlerInv(t)'
  BY <1>4 DEF HandlerInv, ObserveInv, SubmitInv, RegistryInv, ObserveSteps,
     SubmitSteps, UpgradeSteps
<1>6. step \in Steps
  BY DEF Steps, QuerySteps
<1> HIDE DEF step
<1>7. QED
  BY <1>2, <1>3, <1>5, <1>6, HandlerReads

LEMMA CountVaasKeeps ==
  ASSUME IInv, NEW t \in Task, CountVaas(t)
  PROVE  IInv'
BY HandlerReadsAndReturns DEF CountVaas

-----------------------------------------------------------------------------
(* The invariant and what it implies.                                      *)

LEMMA NextKeepsIInv ==
  ASSUME IInv, [Next]_vars
  PROVE  IInv'
<1>1. ASSUME NEW t \in Task, Request(t) PROVE IInv'
  BY <1>1, ObserveStarts, SubmitStarts, UpgradeStarts, CurrentStarts, StatsStarts
     DEF Request
<1>2. ASSUME NEW t \in Task, Step(t) PROVE IInv'
  BY <1>2, CheckCompletedKeeps, CheckPendingKeeps, ReadSetKeeps,
     StorePendingKeeps, AnnounceObservedKeeps, LoadPendingKeeps, LoadSetKeeps,
     AnnounceSignatureKeeps, StoreSignatureKeeps, RejectVaaKeeps, SaveVaaKeeps,
     ClearPendingKeeps, AnnounceVaaKeeps, UpgradeInsertKeeps,
     UpgradeCurrentKeeps, ReadCurrentKeeps, ReadCurrentSetKeeps,
     ListEntryKeeps, CountVaasKeeps
     DEF Step
<1>3. ASSUME NEW t \in Task, Fault(t) PROVE IInv'
  BY <1>3, FaultKeeps
<1>4. CASE UNCHANGED vars
  <2>1. UNCHANGED <<stores, pc, frame, accepted>>
    BY <1>4 DEF vars
  <2>2. StoresGood' /\ StoresMonotone
    BY <2>1, StoresUnchanged
  <2>3. TypeOK'
    BY <2>1, <2>2 DEF IInv, TypeOK, StoresGood
  <2>4. \A u \in Task : HandlerInv(u)'
    BY <2>1, <2>2, OtherHandlerKept
  <2>5. QED
    BY <2>2, <2>3, <2>4 DEF IInv
<1>5. QED
  BY <1>1, <1>2, <1>3, <1>4 DEF Next

THEOREM Invariance == Spec => []IInv
<1>1. Init => IInv
  BY InitIInv
<1>2. IInv /\ [Next]_vars => IInv'
  BY NextKeepsIInv
<1>3. QED
  BY <1>1, <1>2, PTL DEF Spec

(* Stores, program counters and local variables keep their types; for the  *)
(* signature lists this rests on insert_sorted finding its position.       *)
THEOREM TypeCorrect == Spec => []TypeOK
<1>1. IInv => TypeOK
  BY DEF IInv
<1>2. QED
  BY <1>1, Invariance, PTL

(* The message store holds only members' signatures, one per guardian.     *)
THEOREM OnlyGenuineSignatures == Spec => []PendingGenuine
<1>1. IInv => PendingGenuine
  BY DEF IInv, StoresGood, StoresInv, PendingGenuine
<1>2. QED
  BY <1>1, Invariance, PTL

(* No observation waits with a quorum of signatures that nobody assembles. *)
THEOREM NeverStuckAtQuorum == Spec => []PendingBelowQuorum
<1>1. IInv => PendingBelowQuorum
  BY DEF IInv, StoresGood, StoresInv, PendingBelowQuorum
<1>2. QED
  BY <1>1, Invariance, PTL

(* Every VAA a reader can fetch verifies under a key list of its guardian  *)
(* set, whatever the interleaving of handlers and registry upgrades.       *)
THEOREM OnlyVerifiedVaas == Spec => []StoredVaaVerified
<1>1. IInv => StoredVaaVerified
  BY DEF IInv, StoresGood
<1>2. QED
  BY <1>1, Invariance, PTL

(* When guardian sets are never replaced in place, a handler that saw a    *)
(* quorum assembles a VAA that passes its own final verification.          *)
THEOREM AssemblySucceeds == Spec => []AssemblyNeverRejected
<1>1. ASSUME IInv, FixedSets, NEW t \in Task, pc[t] = "SaveVaa"
      PROVE  Verified(t)
  <2> DEFINE held == frame[t].held
             keys == frame[t].keys
  <2>1. /\ held \in PendingObservation /\ Genuine(held) /\ Counted(held)
        /\ keys \in KeyLists[held.guardian_set_index]
        /\ quorum_reached(held)
    BY <1>1 DEF IInv, HandlerInv, SubmitInv, SubmitSteps
  <2>2. /\ held.guardian_set_index \in SetIndex
        /\ held.signatures \in Seq(GuardianSignature)
        /\ Len(held.signatures) \in Nat
    BY <2>1, LenProperties DEF PendingObservation
  <2>3. keys \in Seq(Address) /\ Len(keys) \in Nat
    BY <2>1, <2>2, KeyListsAssumption, LenProperties DEF KeyList
  <2> HIDE DEF held, keys
  <2>4. \A i \in 1 .. Len(held.signatures) : SignedByMember(held.signatures[i], keys)
    BY <1>1, <2>1, <2>2 DEF Genuine, FixedSets
  <2>5. Len(held.signatures) >= quorum(Len(keys))
    BY <1>1, <2>1 DEF Counted, quorum_reached
  <2>6. keys # <<>>
    <3>1. 1 \in 1 .. Len(held.signatures)
      <4>1. quorum(Len(keys)) \in Nat /\ quorum(Len(keys)) >= 1
        BY <2>3, QuorumIsSupermajority
      <4>2. QED
        BY <2>2, <2>5, <4>1
    <3>2. /\ held.signatures[1].guardian_index \in Nat
          /\ held.signatures[1].guardian_index < Len(keys)
      BY <2>2, <2>4, <3>1, SignatureIndex, ElementOfSeq DEF SignedByMember
    <3>3. Len(keys) # 0
      BY <2>3, <3>2
    <3>4. Len(<<>>) = 0
      OBVIOUS
    <3>5. QED
      BY <3>3, <3>4
  <2>7. verify(held.signatures, keys)
    BY <2>1, <2>4, <2>5, <2>6 DEF verify, Genuine
  <2>8. QED
    BY <2>7 DEF Verified, held, keys
<1>2. IInv => AssemblyNeverRejected
  BY <1>1 DEF AssemblyNeverRejected
<1>3. QED
  BY <1>2, Invariance, PTL

(* A VaaAssembled event is published only for a VAA that can be fetched.   *)
THEOREM EventsFollowTheStore == Spec => []AnnouncedVaaIsStored
<1>1. IInv => AnnouncedVaaIsStored
  BY DEF IInv, StoresGood
<1>2. QED
  BY <1>1, Invariance, PTL

(* The registry always has a current set for its readers.                  *)
THEOREM CurrentSetFound == Spec => []CurrentSetAvailable
<1>1. IInv => CurrentSetAvailable
  BY DEF IInv, HandlerInv, RegistryInv, CurrentSetAvailable
<1>2. QED
  BY <1>1, Invariance, PTL

(* stats() counts every message that was observed when it was called.      *)
THEOREM StatsCountEverything == Spec => []StatsNeverMissesAMessage
<1>1. ASSUME IInv, NEW t \in Task, pc[t] = "CountVaas"
      PROVE  frame[t].known \subseteq
               frame[t].seen \cup {id \in MessageId : vaas[id] # None}
  <2>1. StatsInv(t) /\ frame[t] \in Frame
    BY <1>1 DEF IInv, TypeOK, HandlerInv
  <2>2. ASSUME NEW id \in frame[t].known
        PROVE  id \in frame[t].seen \/ vaas[id] # None
    BY <1>1, <2>1 DEF StatsInv
  <2>3. frame[t].known \subseteq MessageId
    BY <2>1 DEF Frame
  <2>4. QED
    BY <2>2, <2>3
<1>2. IInv => StatsNeverMissesAMessage
  BY <1>1 DEF StatsNeverMissesAMessage
<1>3. QED
  BY <1>2, Invariance, PTL

-----------------------------------------------------------------------------
(* What no step does.                                                      *)

\* Every message and every stored VAA is still there after the step.
NothingVanishes ==
  \A id \in MessageId :
    (Observed(id) => Observed(id)') /\ (vaas[id] # None => vaas'[id] # None)

\* A step that leaves these two stores alone loses no message.
LEMMA NothingLost ==
  ASSUME UNCHANGED <<pending, vaas>>
  PROVE  NothingVanishes
BY DEF NothingVanishes, Observed

LEMMA StepLosesNothing ==
  ASSUME IInv, NEW t \in Task, Step(t)
  PROVE  NothingVanishes
<1>1. CASE StorePending(t)
  <2>1. /\ frame[t].id \in MessageId /\ frame[t].index \in SetIndex
        /\ frame[t].keys \in KeyLists[frame[t].index]
    BY <1>1 DEF IInv, StorePending, HandlerInv, ObserveInv, ObserveSteps
  <2>2. StoresMonotone
    BY <1>1, <2>1, NewObservationGood, UpsertPendingGood DEF StorePending
  <2>3. QED
    BY <2>2 DEF StoresMonotone, NothingVanishes
<1>2. CASE StoreSignature(t)
  <2>1. StoresMonotone
    BY <1>2, UpsertPendingGood
       DEF IInv, StoreSignature, HandlerInv, SubmitInv, SubmitSteps
  <2>2. QED
    BY <2>1 DEF StoresMonotone, NothingVanishes
<1>3. CASE SaveVaa(t)
  BY <1>3, SaveStoresVerified DEF SaveVaa, StoresMonotone, NothingVanishes
<1>4. CASE ClearPending(t)
  <2>1. StoresMonotone
    BY <1>4, RemovePendingGood
       DEF IInv, ClearPending, HandlerInv, SubmitInv, SubmitSteps
  <2>2. QED
    BY <2>1 DEF StoresMonotone, NothingVanishes
<1>5. CASE \/ AnnounceObserved(t) \/ AnnounceSignature(t) \/ AnnounceVaa(t)
  BY <1>5, NothingLost
     DEF AnnounceObserved, AnnounceSignature, AnnounceVaa, Publish
<1>6. CASE UpgradeInsert(t) \/ UpgradeCurrent(t)
  BY <1>6, NothingLost DEF UpgradeInsert, UpgradeCurrent, InsertSet, SetCurrent
<1>7. CASE UNCHANGED stores
  BY <1>7, NothingLost DEF stores
<1>8. QED
  BY <1>1, <1>2, <1>3, <1>4, <1>5, <1>6, <1>7
     DEF Step, CheckCompleted, CheckPending, ReadSet, LoadPending, LoadSet,
         RejectVaa, ReadCurrent, ReadCurrentSet, CountVaas, ListEntry

LEMMA NextLosesNothing ==
  ASSUME IInv, [Next]_vars
  PROVE  NothingVanishes
<1>1. ASSUME NEW t \in Task, Request(t)
      PROVE  UNCHANGED <<pending, vaas>>
  BY <1>1 DEF Request, Observe, Submit, Upgrade, Current, Stats, Start, stores
<1>2. ASSUME NEW t \in Task, Fault(t)
      PROVE  NothingVanishes
  <2>1. CASE StoreFails(t)
    BY <2>1, NothingLost DEF StoreFails, stores
  <2>2. CASE SaveReplyLost(t)
    <3>1. StoresMonotone
      BY <2>2, SaveStoresVerified DEF SaveReplyLost
    <3>2. QED
      BY <3>1 DEF StoresMonotone, NothingVanishes
  <2>3. QED
    BY <1>2, <2>1, <2>2 DEF Fault
<1>3. CASE UNCHANGED vars
  BY <1>3, NothingLost DEF vars, stores
<1>4. QED
  BY <1>1, <1>2, <1>3, StepLosesNothing, NothingLost DEF Next

(* A message once observed is in one of the two stores for ever: no step,  *)
(* fault or registry upgrade makes it disappear.                           *)
THEOREM MessagesAreNeverLost == Spec => ObservedNeverLost
<1>1. IInv /\ [Next]_vars => \A id \in MessageId : Observed(id) => Observed(id)'
  BY NextLosesNothing DEF NothingVanishes
<1>2. QED
  BY <1>1, Invariance, PTL DEF Spec, ObservedNeverLost

-----------------------------------------------------------------------------
(* What signature lists have to do with quorums.                           *)

\* A list in strict order has one entry per guardian.
LEMMA SignersCounted ==
  ASSUME NEW sigs \in Seq(GuardianSignature), StrictlyAscending(sigs)
  PROVE  /\ IsFiniteSet(SignerIndices(sigs))
         /\ Cardinality(SignerIndices(sigs)) = Len(sigs)
<1> DEFINE S == GuardianSignature
<1>1. (\A x \in S : x.guardian_index \in Nat) /\ sigs \in Seq(S)
  BY SignatureIndex
<1> HIDE DEF S
<1> QED
  BY <1>1, AscendingCardinality

\* The guardian count of an observation is the one of its set.
LEMMA CountedForSet ==
  ASSUME FixedSets, NEW held \in PendingObservation, Counted(held),
         NEW keys \in KeyLists[held.guardian_set_index]
  PROVE  held.guardian_count = GuardianCount(held.guardian_set_index)
BY DEF Counted, GuardianCount

LEMMA GuardiansCounted ==
  ASSUME FixedSets, NEW i \in SetIndex
  PROVE  /\ GuardianCount(i) \in Nat
         /\ \A keys \in KeyLists[i] :
              keys \in Seq(Address) /\ Len(keys) \in Nat /\ GuardianCount(i) = Len(keys)
<1>1. \A keys \in KeyLists[i] :
        keys \in Seq(Address) /\ Len(keys) \in Nat /\ GuardianCount(i) = Len(keys)
  BY KeyListsAssumption, LenProperties DEF KeyList, FixedSets, GuardianCount
<1> QED
  BY <1>1 DEF GuardianCount

\* What a message's entry has to do with its quorum, whoever wrote it.
LEMMA EntryMeetsQuorum ==
  ASSUME FixedSets, IInv, NEW id \in MessageId, Observed(id)
  PROVE  LET signers == SignerIndices(EntryOf(id).signatures)
             count == GuardianCount(EntryOf(id).guardian_set_index)
         IN  /\ EntryOf(id).guardian_set_index \in SetIndex /\ count \in Nat
             /\ signers \subseteq 0 .. count - 1
             /\ IsFiniteSet(signers) /\ Cardinality(signers) \in Nat
             /\ vaas[id] # None <=> Cardinality(signers) >= quorum(count)
<1>1. PICK entry, sigs, i : entry = EntryOf(id) /\ sigs = entry.signatures
                            /\ i = entry.guardian_set_index
  OBVIOUS
<1>2. /\ StoresTypeOK /\ StoresInv /\ StoredVaaVerified
  BY DEF IInv, StoresGood
<1>3. sigs \in Seq(GuardianSignature) /\ i \in SetIndex /\ Len(sigs) \in Nat
  <2>1. entry \in PendingObservation \cup VaaRecord
    BY <1>1, <1>2 DEF StoresTypeOK, EntryOf, Observed
  <2> QED
    BY <1>1, <2>1, LenProperties DEF PendingObservation, VaaRecord
<1>4. /\ GuardianCount(i) \in Nat
      /\ \A keys \in KeyLists[i] :
           keys \in Seq(Address) /\ Len(keys) \in Nat /\ GuardianCount(i) = Len(keys)
  BY <1>3, GuardiansCounted
<1>5. CASE vaas[id] # None
  <2>1. PICK keys \in KeyLists[i] : verify(sigs, keys)
    BY <1>1, <1>2, <1>5 DEF StoredVaaVerified, EntryOf
  <2>2. keys \in Seq(Address) /\ GuardianCount(i) = Len(keys)
    BY <1>4
  <2>3. StrictlyAscending(sigs)
    BY <2>1 DEF verify
  <2>4. /\ IsFiniteSet(SignerIndices(sigs))
        /\ Cardinality(SignerIndices(sigs)) = Len(sigs)
    BY <1>3, <2>3, SignersCounted
  <2>5. /\ SignerIndices(sigs) \subseteq 0 .. Len(keys) - 1
        /\ Cardinality(SignerIndices(sigs)) >= quorum(Len(keys))
    <3> DEFINE S == GuardianSignature
               A == Address
    <3>1. (\A x \in S : x.guardian_index \in Nat) /\ sigs \in Seq(S) /\ keys \in Seq(A)
      BY <1>3, <2>2, SignatureIndex
    <3> HIDE DEF S, A
    <3> QED
      BY <2>1, <3>1, VerifiedByQuorum
  <2> QED
    BY <1>1, <1>3, <1>4, <1>5, <2>2, <2>4, <2>5
<1>6. CASE vaas[id] = None
  <2>1. /\ entry = pending[id] /\ pending[id] # None
    BY <1>1, <1>6 DEF EntryOf, Observed
  <2>2. /\ Genuine(entry) /\ Counted(entry) /\ ~ quorum_reached(entry)
        /\ entry \in PendingObservation
    BY <1>2, <2>1 DEF StoresInv, StoresTypeOK
  <2>3. /\ IsFiniteSet(SignerIndices(sigs))
        /\ Cardinality(SignerIndices(sigs)) = Len(sigs)
    BY <1>1, <1>3, <2>2, SignersCounted DEF Genuine
  <2>4. \A k \in 1 .. Len(sigs) :
          sigs[k].guardian_index \in Nat /\ sigs[k].guardian_index < GuardianCount(i)
    BY <1>1, <1>3, <1>4, <2>2, SignatureIndex, ElementOfSeq DEF Genuine, SignedByMember
  <2>5. SignerIndices(sigs) \subseteq 0 .. GuardianCount(i) - 1
    BY <1>3, <1>4, <2>4 DEF SignerIndices
  <2>6. ~ Len(sigs) >= quorum(GuardianCount(i))
    <3>1. CASE KeyLists[i] # {}
      <4>1. entry.guardian_count = GuardianCount(i)
        BY <1>1, <2>2, <3>1, CountedForSet
      <4> QED
        BY <1>1, <2>2, <4>1 DEF quorum_reached
    <3>2. CASE KeyLists[i] = {}
      <4>1. GuardianCount(i) = 0
        BY <3>2 DEF GuardianCount
      <4>2. ~ Len(sigs) >= 1
        BY <1>1, <1>3, <2>2, <3>2 DEF Genuine
      <4> QED
        BY <1>3, <4>1, <4>2 DEF quorum
    <3> QED
      BY <3>1, <3>2
  <2> QED
    BY <1>1, <1>3, <1>4, <1>6, <2>3, <2>5, <2>6
<1> QED
  BY <1>5, <1>6

\* A quorum is the least supermajority.
LEMMA QuorumIsTwoThirds ==
  ASSUME NEW n \in Nat, NEW c \in Nat
  PROVE  c >= quorum(n) <=> 3 * c > 2 * n
BY DEF quorum

(* Whatever handlers overlap and however the VAA store fails, a message is *)
(* complete exactly when more than two thirds of its guardians have signed *)
(* what is stored of it.                                                   *)
THEOREM CompleteExactlyAtQuorum == Spec => []CompleteAtQuorum
<1>1. IInv => CompleteAtQuorum
  <2> SUFFICES ASSUME IInv, FixedSets, NEW id \in MessageId, Observed(id)
               PROVE  LET signers == SignerIndices(EntryOf(id).signatures)
                          count == GuardianCount(EntryOf(id).guardian_set_index)
                      IN  /\ signers \subseteq 0 .. count - 1
                          /\ vaas[id] # None <=> 3 * Cardinality(signers) > 2 * count
    BY DEF CompleteAtQuorum
  <2>1. PICK signers, count :
          /\ signers = SignerIndices(EntryOf(id).signatures)
          /\ count = GuardianCount(EntryOf(id).guardian_set_index)
    OBVIOUS
  <2>2. /\ count \in Nat /\ Cardinality(signers) \in Nat
        /\ signers \subseteq 0 .. count - 1
        /\ vaas[id] # None <=> Cardinality(signers) >= quorum(count)
    BY <2>1, EntryMeetsQuorum
  <2> QED
    BY <2>1, <2>2, QuorumIsTwoThirds
<1> QED
  BY <1>1, Invariance, PTL

\* Two quorums of the same guardians have more than a third of them in common.
LEMMA QuorumsOverlap ==
  ASSUME NEW n \in Nat,
         NEW A \in SUBSET (0 .. n - 1), NEW B \in SUBSET (0 .. n - 1),
         Cardinality(A) >= quorum(n), Cardinality(B) >= quorum(n)
  PROVE  3 * Cardinality(A \cap B) > n
<1> DEFINE All == 0 .. n - 1
<1>1. IsFiniteSet(All) /\ Cardinality(All) = n
  <2>1. /\ IsFiniteSet(0 .. n - 1)
        /\ Cardinality(0 .. n - 1) = IF 0 > n - 1 THEN 0 ELSE (n - 1) - 0 + 1
    <3>1. 0 \in Int /\ n - 1 \in Int
      OBVIOUS
    <3> QED
      BY <3>1, FS_Interval
  <2>2. (IF 0 > n - 1 THEN 0 ELSE (n - 1) - 0 + 1) = n
    OBVIOUS
  <2> QED
    BY <2>1, <2>2
<1>2. /\ IsFiniteSet(A) /\ IsFiniteSet(B)
      /\ A \cup B \subseteq All
  BY <1>1, FS_Subset
<1>3. IsFiniteSet(A \cup B) /\ Cardinality(A \cup B) <= n
  BY <1>1, <1>2, FS_Subset
<1>4. Cardinality(A \cup B) = Cardinality(A) + Cardinality(B) - Cardinality(A \cap B)
  BY <1>2, FS_Union
<1>5. /\ Cardinality(A) \in Nat /\ Cardinality(B) \in Nat
      /\ Cardinality(A \cup B) \in Nat /\ Cardinality(A \cap B) \in Nat
  BY <1>2, <1>3, FS_Intersection, FS_CardinalityType
<1>6. 3 * Cardinality(A) > 2 * n /\ 3 * Cardinality(B) > 2 * n
  BY <1>5, QuorumIsTwoThirds
<1> HIDE DEF All
<1> QED
  BY <1>3, <1>4, <1>5, <1>6

(* A VAA that replaces a stored one has more than a third of the guardians *)
(* in common with it, whichever handlers assembled the two.                *)
THEOREM ReplacedVaasOverlap == Spec => ReplacedVaaOverlaps
<1> DEFINE Overlaps == FixedSets => \A id \in MessageId :
             LET i == vaas[id].guardian_set_index IN
             vaas[id] # None /\ vaas'[id].guardian_set_index = i =>
               3 * Cardinality(CommonSigners(vaas[id], vaas'[id])) > GuardianCount(i)
           Signed == FixedSets => \A id \in MessageId :
             LET signers == SignerIndices(vaas[id].signatures)
                 count == GuardianCount(vaas[id].guardian_set_index)
             IN  vaas[id] # None =>
                   /\ count \in Nat /\ signers \in SUBSET (0 .. count - 1)
                   /\ Cardinality(signers) >= quorum(count)
<1>1. IInv => Signed
  <2> SUFFICES ASSUME IInv, FixedSets, NEW id \in MessageId, vaas[id] # None
               PROVE  LET signers == SignerIndices(vaas[id].signatures)
                          count == GuardianCount(vaas[id].guardian_set_index)
                      IN  /\ count \in Nat /\ signers \in SUBSET (0 .. count - 1)
                          /\ Cardinality(signers) >= quorum(count)
    OBVIOUS
  <2>1. Observed(id) /\ EntryOf(id) = vaas[id]
    BY DEF Observed, EntryOf
  <2> QED
    BY <2>1, EntryMeetsQuorum
<1>2. IInv /\ [Next]_vars /\ Signed /\ Signed' => Overlaps
  <2> SUFFICES ASSUME IInv, [Next]_vars, Signed, Signed',
                      FixedSets, NEW id \in MessageId, vaas[id] # None,
                      vaas'[id].guardian_set_index = vaas[id].guardian_set_index
               PROVE  3 * Cardinality(CommonSigners(vaas[id], vaas'[id]))
                        > GuardianCount(vaas[id].guardian_set_index)
    OBVIOUS
  <2>1. PICK n, A, B : /\ n = GuardianCount(vaas[id].guardian_set_index)
                       /\ A = SignerIndices(vaas[id].signatures)
                       /\ B = SignerIndices(vaas'[id].signatures)
    OBVIOUS
  <2>2. n \in Nat /\ A \in SUBSET (0 .. n - 1) /\ Cardinality(A) >= quorum(n)
    BY <2>1
  <2>3. vaas'[id] # None
    BY NextLosesNothing DEF NothingVanishes
  <2>4. B \in SUBSET (0 .. n - 1) /\ Cardinality(B) >= quorum(n)
    <3>1. FixedSets' /\ n = GuardianCount(vaas[id].guardian_set_index)'
      BY <2>1 DEF FixedSets, GuardianCount
    <3> QED
      BY <2>1, <2>3, <3>1
  <2>5. 3 * Cardinality(A \cap B) > n
    BY <2>2, <2>4, QuorumsOverlap
  <2> QED
    BY <2>1, <2>5 DEF CommonSigners
<1>3. ReplacedVaaOverlaps <=> [][Overlaps]_vars
  BY DEF ReplacedVaaOverlaps
<1> HIDE DEF Overlaps, Signed
<1> QED
  BY <1>1, <1>2, <1>3, Invariance, PTL DEF Spec
=============================================================================

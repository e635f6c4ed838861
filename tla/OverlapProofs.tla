---------------------------- MODULE OverlapProofs ----------------------------
(***************************************************************************)
(* What the engine promises for every message, guardian set and signature, *)
(* however many handlers interleave: over whichever messages calls meet,   *)
(* every other message keeps its acknowledged signatures, is cleared when  *)
(* it is completed, and together the messages keep all that Attestation    *)
(* specifies.  The argument is about one message at a time: the only call  *)
(* under way for it works on copies that are still the stores' contents    *)
(* when it writes them back, and no other call touches them.               *)
(***************************************************************************)
EXTENDS AttestationRefinement, AggregatorProofs

-----------------------------------------------------------------------------
(* A handler's step and the other handlers.                                *)

OthersStay(t) == \A u \in Task \ {t} : pc'[u] = pc[u] /\ frame'[u] = frame[u]

LEMMA ReturnMoves ==
  ASSUME IInv, NEW t \in Task, Return(t)
  PROVE  OthersStay(t) /\ pc'[t] = "idle"
BY DEF Return, Goto, OthersStay, IInv, TypeOK

LEMMA RequestMoves ==
  ASSUME IInv, NEW t \in Task, Request(t)
  PROVE  /\ OthersStay(t) /\ pc[t] = "idle"
         /\ pc'[t] \in {"CheckCompleted", "LoadPending", "InsertSet", "ReadCurrent",
                        "ListPending"}
         /\ UNCHANGED <<stores, accepted>>
BY DEF Request, Observe, Submit, Upgrade, Current, Stats, Start, Goto, OthersStay,
       IInv, TypeOK

LEMMA StepMoves ==
  ASSUME IInv, NEW t \in Task, Step(t) \/ Fault(t)
  PROVE  OthersStay(t)
<1>1. pc \in [Task -> Steps] /\ frame \in [Task -> Frame]
  BY DEF IInv, TypeOK
<1>2. CASE Return(t)
  BY <1>2, ReturnMoves
<1>3. CASE \/ CheckCompleted(t) \/ CheckPending(t) \/ ReadSet(t) \/ LoadPending(t)
           \/ LoadSet(t) \/ ReadCurrent(t) \/ \E id \in MessageId : ListEntry(t, id)
  BY <1>1, <1>2, <1>3
     DEF CheckCompleted, CheckPending, ReadSet, LoadPending, LoadSet, ReadCurrent,
         ListEntry, Goto, OthersStay
<1>4. CASE \/ StorePending(t) \/ AnnounceSignature(t) \/ SaveVaa(t)
           \/ ClearPending(t) \/ UpgradeInsert(t)
  BY <1>1, <1>4 DEF StorePending, AnnounceSignature, SaveVaa, ClearPending,
                    UpgradeInsert, Goto, OthersStay
<1> QED
  BY <1>2, <1>3, <1>4
     DEF Step, Fault, AnnounceObserved, StoreSignature, RejectVaa, AnnounceVaa,
         UpgradeCurrent, ReadCurrentSet, CountVaas, StoreFails, SaveReplyLost

\* A handler works on the message of its call until the call is over.
LEMMA WorkGoesOn ==
  ASSUME IInv, NEW t \in Task, NEW id, Step(t) \/ Fault(t), AtWork(t, id)'
  PROVE  AtWork(t, id)
<1> USE DEF AtWork, ObserveSteps, SubmitSteps, Goto
<1>1. pc \in [Task -> Steps] /\ frame \in [Task -> Frame]
  BY DEF IInv, TypeOK
<1>2. ~ Return(t)
  BY ReturnMoves
<1>3. CASE \/ CheckCompleted(t) \/ CheckPending(t) \/ ReadSet(t) \/ LoadPending(t)
  BY <1>1, <1>2, <1>3 DEF CheckCompleted, CheckPending, ReadSet, LoadPending, Frame
<1>4. CASE LoadSet(t)
  <2>1. frame'[t].id = frame[t].id /\ pc[t] = "LoadSet"
    BY <1>1, <1>2, <1>4 DEF LoadSet, Frame
  <2> QED
    BY <2>1
<1>5. CASE \/ StorePending(t) \/ AnnounceSignature(t) \/ SaveVaa(t)
           \/ ClearPending(t)
  BY <1>1, <1>5 DEF StorePending, AnnounceSignature, SaveVaa, ClearPending
<1>6. CASE \/ UpgradeInsert(t) \/ ReadCurrent(t)
           \/ \E m \in MessageId : ListEntry(t, m)
  BY <1>1, <1>6 DEF UpgradeInsert, ReadCurrent, ListEntry
<1> QED
  BY <1>2, <1>3, <1>4, <1>5, <1>6
     DEF Step, Fault, AnnounceObserved, StoreSignature, RejectVaa, AnnounceVaa,
         UpgradeCurrent, ReadCurrentSet, CountVaas, StoreFails, SaveReplyLost

\* What the stores have of one message, and who was told of its signatures.
Untouched(id) ==
  /\ pending'[id] = pending[id] /\ vaas'[id] = vaas[id]
  /\ \A entry \in accepted' : entry[1] = id => entry \in accepted

LEMMA OthersUntouched ==
  ASSUME IInv, NEW t \in Task, NEW id \in MessageId,
         Request(t) \/ Step(t) \/ Fault(t), ~ AtWork(t, id)
  PROVE  Untouched(id)
<1>1. /\ pending \in [MessageId -> PendingObservation \cup {None}]
      /\ vaas \in [MessageId -> VaaRecord \cup {None}]
  BY DEF IInv, TypeOK, StoresTypeOK
<1>2. CASE UNCHANGED <<pending, vaas, accepted>>
  BY <1>2 DEF Untouched
<1>3. CASE StorePending(t) \/ StoreSignature(t) \/ ClearPending(t)
  BY <1>1, <1>3
     DEF StorePending, StoreSignature, ClearPending, UpsertPending, RemovePending,
         Untouched, AtWork, ObserveSteps, SubmitSteps
<1>4. CASE SaveVaa(t) \/ SaveReplyLost(t)
  BY <1>1, <1>4
     DEF SaveVaa, SaveReplyLost, SaveRecord, Untouched, AtWork, SubmitSteps
<1>5. CASE \/ Request(t) \/ CheckCompleted(t) \/ CheckPending(t) \/ ReadSet(t)
           \/ LoadPending(t) \/ LoadSet(t) \/ RejectVaa(t) \/ ReadCurrent(t)
           \/ ReadCurrentSet(t) \/ CountVaas(t) \/ StoreFails(t)
           \/ \E m \in MessageId : ListEntry(t, m)
  BY <1>2, <1>5, RequestMoves
     DEF CheckCompleted, CheckPending, ReadSet, LoadPending, LoadSet, RejectVaa,
         ReadCurrent, ReadCurrentSet, CountVaas, StoreFails, ListEntry, stores
<1>6. CASE \/ AnnounceObserved(t) \/ AnnounceSignature(t) \/ AnnounceVaa(t)
           \/ UpgradeInsert(t) \/ UpgradeCurrent(t)
  BY <1>2, <1>6
     DEF AnnounceObserved, AnnounceSignature, AnnounceVaa, UpgradeInsert,
         UpgradeCurrent, Publish, InsertSet, SetCurrent
<1> QED
  BY <1>3, <1>4, <1>5, <1>6 DEF Step, Fault

-----------------------------------------------------------------------------
(* The history of meetings.                                                *)

\* No two calls are under way for a message that is not contended.
MeetingsKnown == \A id \in MessageId : MetOver(id) => id \in contended

\* At id's end of the system there is nobody but handler t.
Alone(t, id) == \A u \in Task \ {t} : ~ AtWork(u, id)

LEMMA WorksAlone ==
  ASSUME MeetingsKnown, NEW id \in Uncontended, NEW t \in Task, AtWork(t, id)
  PROVE  Alone(t, id)
BY DEF MeetingsKnown, MetOver, Alone, Uncontended

LEMMA StaysAlone ==
  ASSUME NEW t \in Task, NEW id, OthersStay(t), Alone(t, id)
  PROVE  Alone(t, id)'
BY DEF OthersStay, Alone, AtWork

LEMMA OverlapStep ==
  ASSUME [OverlapNext]_<<vars, contended>>
  PROVE  [Next]_vars
BY DEF OverlapNext, Next

LEMMA OverlapIsSpec == OverlapSpec => Spec
<1>1. OverlapInit => Init
  BY DEF OverlapInit
<1>2. [OverlapNext]_<<vars, contended>> => [Next]_vars
  BY OverlapStep
<1> QED
  BY <1>1, <1>2, PTL DEF OverlapSpec, Spec

LEMMA MeetingsStep ==
  ASSUME IInv, MeetingsKnown, [OverlapNext]_<<vars, contended>>
  PROVE  MeetingsKnown'
<1>1. ASSUME Watch PROVE MeetingsKnown'
  BY <1>1 DEF Watch, MeetingsKnown
<1>2. ASSUME NEW t \in Task, Step(t) \/ Fault(t), UNCHANGED contended
      PROVE  MeetingsKnown'
  <2>1. ASSUME NEW u \in Task, NEW id \in MessageId, AtWork(u, id)'
        PROVE  AtWork(u, id)
    <3>1. CASE u = t
      BY <1>2, <2>1, <3>1, WorkGoesOn
    <3>2. CASE u # t
      BY <1>2, <2>1, <3>2, StepMoves DEF OthersStay, AtWork
    <3> QED
      BY <3>1, <3>2
  <2> QED
    BY <1>2, <2>1 DEF MeetingsKnown, MetOver
<1>3. CASE UNCHANGED <<vars, contended>>
  BY <1>3 DEF vars, MeetingsKnown, MetOver, AtWork
<1> QED
  BY <1>1, <1>2, <1>3 DEF OverlapNext

-----------------------------------------------------------------------------
(* One message and the only call under way for it.                         *)

(* What the handler has read of its message is still so; its copy is the   *)
(* stored observation, or that and the one signature more; and the VAA it  *)
(* has stored is the one in the store.                                     *)
CallInv(t) ==
  LET id == frame[t].id
      held == frame[t].held
      g == frame[t].sig.guardian_index
      before == pending[id].signatures
  IN
  /\ pc[t] \in {"CheckPending", "ReadSet", "StorePending", "AnnounceObserved"} =>
       vaas[id] = None
  /\ pc[t] \in {"ReadSet", "StorePending"} => pending[id] = None
  /\ pc[t] = "AnnounceObserved" => pending[id] # None /\ before = <<>>
  /\ pc[t] = "LoadSet" => pending[id] = held
  /\ pc[t] \in {"LoadSet", "AnnounceSignature", "StoreSignature", "SaveVaa"} =>
       CanFail \/ vaas[id] = None
  /\ pc[t] \in {"AnnounceSignature", "StoreSignature", "SaveVaa"} =>
       /\ pending[id] # None
       /\ pending[id].guardian_set_index = held.guardian_set_index
       /\ g \notin SignerIndices(before)
       /\ SignerIndices(held.signatures) = SignerIndices(before) \cup {g}
       /\ Len(held.signatures) = Len(before) + 1
  /\ pc[t] \in {"ClearPending", "AnnounceVaa"} => vaas[id] = Assembled(held)

(* It is in both stores only while its observation is about to be removed. *)
BothStores(id) ==
  ~ CanFail /\ vaas[id] # None /\ pending[id] # None =>
    \E t \in Task : pc[t] = "ClearPending" /\ frame[t].id = id

MessageInv(id) ==
  /\ \A t \in Task : AtWork(t, id) => CallInv(t)
  /\ BothStores(id)
  /\ KeptFor(id)

\* The call goes on, or ends, after a step that changes neither store.
LEMMA QuietKeeps ==
  ASSUME NEW t \in Task, NEW id, AtWork(t, id), Alone(t, id), MessageInv(id),
         OthersStay(t), UNCHANGED <<pending, vaas, accepted>>,
         pc[t] # "ClearPending", CallInv(t)'
  PROVE  MessageInv(id)'
<1>1. \A u \in Task : AtWork(u, id)' => CallInv(u)'
  BY StaysAlone DEF Alone
<1>2. \A u \in Task : ~ (pc[u] = "ClearPending" /\ frame[u].id = id)
  BY DEF Alone, AtWork, SubmitSteps
<1>3. BothStores(id)'
  BY <1>2 DEF MessageInv, BothStores, CanFail
<1>4. KeptFor(id)'
  BY DEF MessageInv, KeptFor
<1> QED
  BY <1>1, <1>3, <1>4 DEF MessageInv

LEMMA ReturnedInv ==
  ASSUME IInv, NEW t \in Task, Return(t)
  PROVE  CallInv(t)'
BY ReturnMoves DEF CallInv

LEMMA NewCallKeeps ==
  ASSUME IInv, NEW t \in Task, Request(t), NEW id \in MessageId, MessageInv(id)
  PROVE  MessageInv(id)'
<1>1. /\ OthersStay(t) /\ pc[t] = "idle" /\ UNCHANGED <<pending, vaas, accepted>>
      /\ pc'[t] \in {"CheckCompleted", "LoadPending", "InsertSet", "ReadCurrent",
                     "ListPending"}
  BY RequestMoves DEF stores
<1>2. ASSUME NEW u \in Task, AtWork(u, id)' PROVE CallInv(u)'
  <2>1. CASE u = t
    BY <1>1, <2>1 DEF CallInv
  <2>2. CASE u # t
    <3>1. AtWork(u, id) /\ pc'[u] = pc[u] /\ frame'[u] = frame[u]
      BY <1>1, <1>2, <2>2 DEF OthersStay, AtWork
    <3> QED
      BY <1>1, <3>1 DEF MessageInv, CallInv, CanFail
  <2> QED
    BY <2>1, <2>2
<1>3. BothStores(id)'
  <2>1. ASSUME NEW u \in Task, pc[u] = "ClearPending", frame[u].id = id
        PROVE  pc'[u] = "ClearPending" /\ frame'[u].id = id
    BY <1>1, <2>1 DEF OthersStay
  <2> QED
    BY <1>1, <2>1 DEF MessageInv, BothStores, CanFail
<1>4. KeptFor(id)'
  BY <1>1 DEF MessageInv, KeptFor
<1> QED
  BY <1>2, <1>3, <1>4 DEF MessageInv

\* A handler that serves another message, or the registry.
LEMMA ElsewhereKeeps ==
  ASSUME IInv, NEW t \in Task, Step(t) \/ Fault(t), NEW id \in MessageId,
         ~ AtWork(t, id), MessageInv(id)
  PROVE  MessageInv(id)'
<1>1. OthersStay(t) /\ ~ AtWork(t, id)' /\ Untouched(id)
  BY StepMoves, WorkGoesOn, OthersUntouched
<1>2. ASSUME NEW u \in Task, AtWork(u, id)' PROVE CallInv(u)'
  <2>1. /\ AtWork(u, id) /\ pc'[u] = pc[u] /\ frame'[u] = frame[u]
        /\ frame[u].id = id
    BY <1>1, <1>2 DEF OthersStay, AtWork
  <2> QED
    BY <1>1, <2>1 DEF MessageInv, CallInv, CanFail, Untouched
<1>3. BothStores(id)'
  <2>1. ASSUME NEW u \in Task, pc[u] = "ClearPending", frame[u].id = id
        PROVE  pc'[u] = "ClearPending" /\ frame'[u].id = id
    <3>1. u # t
      BY <2>1 DEF AtWork, SubmitSteps
    <3> QED
      BY <1>1, <2>1, <3>1 DEF OthersStay
  <2> QED
    BY <1>1, <2>1 DEF MessageInv, BothStores, CanFail, Untouched
<1>4. KeptFor(id)'
  BY <1>1 DEF MessageInv, KeptFor, Untouched
<1> QED
  BY <1>2, <1>3, <1>4 DEF MessageInv

-----------------------------------------------------------------------------
(* One lemma per step of the call itself.                                  *)

LEMMA ReadsKeep ==
  ASSUME IInv, NEW t \in Task, NEW id \in MessageId,
         AtWork(t, id), Alone(t, id), MessageInv(id),
         \/ CheckCompleted(t) \/ CheckPending(t) \/ ReadSet(t) \/ LoadPending(t)
         \/ AnnounceObserved(t) \/ AnnounceVaa(t) \/ RejectVaa(t) \/ StoreFails(t)
  PROVE  MessageInv(id)'
<1> USE DEF Goto
<1>1. /\ pc \in [Task -> Steps] /\ frame \in [Task -> Frame]
      /\ CallInv(t) /\ frame[t].id = id
  BY DEF IInv, TypeOK, MessageInv, AtWork
<1>2. UNCHANGED <<pending, vaas, accepted>> /\ pc[t] # "ClearPending" /\ OthersStay(t)
  <2>1. OthersStay(t)
    BY StepMoves DEF Step, Fault
  <2> QED
    BY <2>1 DEF CheckCompleted, CheckPending, ReadSet, LoadPending, AnnounceObserved,
                AnnounceVaa, RejectVaa, StoreFails, Publish, stores
<1>3. CASE Return(t)
  BY <1>2, <1>3, ReturnedInv, QuietKeeps
<1>4. CASE CheckCompleted(t) /\ ~ Return(t)
  <2>1. pc'[t] = "CheckPending" /\ frame' = frame /\ vaas[frame[t].id] = None
    BY <1>1, <1>4 DEF CheckCompleted
  <2>2. CallInv(t)'
    BY <1>2, <2>1 DEF CallInv
  <2> QED
    BY <1>2, <2>2, QuietKeeps
<1>5. CASE CheckPending(t) /\ ~ Return(t)
  <2>1. /\ pc[t] = "CheckPending" /\ pc'[t] = "ReadSet" /\ frame' = frame
        /\ pending[frame[t].id] = None
    BY <1>1, <1>5 DEF CheckPending
  <2>2. CallInv(t)'
    BY <1>1, <1>2, <2>1 DEF CallInv
  <2> QED
    BY <1>2, <2>2, QuietKeeps
<1>6. CASE ReadSet(t) /\ ~ Return(t)
  <2>1. /\ pc[t] = "ReadSet" /\ pc'[t] = "StorePending"
        /\ frame'[t].id = frame[t].id
    BY <1>1, <1>6 DEF ReadSet, Frame
  <2>2. CallInv(t)'
    BY <1>1, <1>2, <2>1 DEF CallInv
  <2> QED
    BY <1>2, <2>2, QuietKeeps
<1>7. CASE LoadPending(t) /\ ~ Return(t)
  <2>1. /\ pc[t] = "LoadPending" /\ pc'[t] = "LoadSet"
        /\ frame'[t].id = id
        /\ frame'[t].held = pending[id] /\ pending[id] # None
    BY <1>1, <1>7 DEF LoadPending, Frame
  <2>2. ~ CanFail => vaas[id] = None
    BY <1>1, <2>1 DEF MessageInv, BothStores, Alone, AtWork, SubmitSteps
  <2>3. CallInv(t)'
    BY <1>2, <2>1, <2>2 DEF CallInv, CanFail
  <2> QED
    BY <1>2, <2>3, QuietKeeps
<1> QED
  BY <1>3, <1>4, <1>5, <1>6, <1>7
     DEF AnnounceObserved, AnnounceVaa, RejectVaa, StoreFails

\* insert_sorted keeps the guardians of the list and adds the new one.
LEMMA InsertedIndices ==
  ASSUME NEW sigs \in Seq(GuardianSignature), StrictlyAscending(sigs),
         NEW sig \in GuardianSignature, ~ has_guardian(sigs, sig.guardian_index)
  PROVE  LET longer == insert_sorted(sigs, sig) IN
         /\ sig.guardian_index \notin SignerIndices(sigs)
         /\ SignerIndices(longer) = SignerIndices(sigs) \cup {sig.guardian_index}
         /\ Len(longer) = Len(sigs) + 1
<1> DEFINE S == GuardianSignature
           longer == insert_sorted(sigs, sig)
<1>1. (\A x \in S : x.guardian_index \in Nat) /\ sigs \in Seq(S) /\ sig \in S
  BY SignatureIndex
<1> HIDE DEF S
<1>2. /\ Len(longer) = Len(sigs) + 1
      /\ \A i \in 1 .. Len(longer) :
            longer[i] = sig \/ \E j \in 1 .. Len(sigs) : longer[i] = sigs[j]
      /\ \E i \in 1 .. Len(longer) : longer[i] = sig
      /\ \A j \in 1 .. Len(sigs) : \E i \in 1 .. Len(longer) : longer[i] = sigs[j]
  BY <1>1, InsertSortedKeepsOrder
<1> HIDE DEF longer
<1>3. SignerIndices(longer) = SignerIndices(sigs) \cup {sig.guardian_index}
  <2>1. ASSUME NEW g \in SignerIndices(longer)
        PROVE  g \in SignerIndices(sigs) \cup {sig.guardian_index}
    BY <1>2 DEF SignerIndices
  <2>2. ASSUME NEW g \in SignerIndices(sigs) PROVE g \in SignerIndices(longer)
    <3>1. PICK j \in 1 .. Len(sigs) : g = sigs[j].guardian_index
      BY DEF SignerIndices
    <3>2. PICK i \in 1 .. Len(longer) : longer[i] = sigs[j]
      BY <1>2
    <3> QED
      BY <3>1, <3>2 DEF SignerIndices
  <2>3. sig.guardian_index \in SignerIndices(longer)
    BY <1>2 DEF SignerIndices
  <2> QED
    BY <2>1, <2>2, <2>3
<1>4. sig.guardian_index \notin SignerIndices(sigs)
  BY DEF has_guardian, SignerIndices
<1> QED
  BY <1>2, <1>3, <1>4 DEF longer

\* What LoadSet does to the handler's copy when the signature is good.
LEMMA CopyGrows ==
  ASSUME IInv, NEW t \in Task, LoadSet(t), ~ Return(t)
  PROVE  LET held == frame[t].held
             g == frame[t].sig.guardian_index
             grown == frame'[t].held
         IN
         /\ pc'[t] = "AnnounceSignature"
         /\ frame'[t].id = frame[t].id /\ frame'[t].sig = frame[t].sig
         /\ grown.guardian_set_index = held.guardian_set_index
         /\ grown.guardian_count = held.guardian_count
         /\ g \notin SignerIndices(held.signatures)
         /\ SignerIndices(grown.signatures) = SignerIndices(held.signatures) \cup {g}
         /\ Len(grown.signatures) = Len(held.signatures) + 1
<1> DEFINE held == frame[t].held
           sig == frame[t].sig
           keys == sets[held.guardian_set_index]
           longer == insert_sorted(held.signatures, sig)
<1>1. /\ pc[t] = "LoadSet"
      /\ pc \in [Task -> Steps] /\ frame \in [Task -> Frame]
  BY DEF LoadSet, IInv, TypeOK
<1>2. /\ held \in PendingObservation /\ Genuine(held)
      /\ sig \in GuardianSignature
  BY <1>1, SignaturesAssumption DEF IInv, HandlerInv, SubmitInv, SubmitSteps
<1>3. held.signatures \in Seq(GuardianSignature) /\ StrictlyAscending(held.signatures)
  BY <1>2 DEF PendingObservation, Genuine
<1>4. /\ ~ has_guardian(held.signatures, sig.guardian_index)
      /\ pc'[t] = "AnnounceSignature"
      /\ frame' = [frame EXCEPT ![t].keys = keys, ![t].held.signatures = longer]
  BY <1>1 DEF LoadSet, Acceptable, Goto
<1>5. /\ frame'[t].id = frame[t].id /\ frame'[t].sig = sig
      /\ frame'[t].held = [held EXCEPT !.signatures = longer]
  BY <1>1, <1>4 DEF Frame
<1>6. /\ frame'[t].held.signatures = longer
      /\ frame'[t].held.guardian_set_index = held.guardian_set_index
      /\ frame'[t].held.guardian_count = held.guardian_count
  BY <1>2, <1>5 DEF PendingObservation
<1>7. /\ sig.guardian_index \notin SignerIndices(held.signatures)
      /\ SignerIndices(longer) = SignerIndices(held.signatures) \cup {sig.guardian_index}
      /\ Len(longer) = Len(held.signatures) + 1
  BY <1>2, <1>3, <1>4, InsertedIndices
<1> HIDE DEF longer, keys
<1> QED
  BY <1>4, <1>5, <1>6, <1>7

LEMMA LoadSetKeepsMessage ==
  ASSUME IInv, NEW t \in Task, NEW id \in MessageId,
         AtWork(t, id), Alone(t, id), MessageInv(id), LoadSet(t)
  PROVE  MessageInv(id)'
<1>1. /\ pc[t] = "LoadSet" /\ UNCHANGED <<pending, vaas, accepted>>
      /\ OthersStay(t) /\ frame[t].id = id /\ CallInv(t)
  BY StepMoves DEF LoadSet, stores, Step, AtWork, MessageInv
<1>2. CASE Return(t)
  BY <1>1, <1>2, ReturnedInv, QuietKeeps
<1>3. CASE ~ Return(t)
  <2>1. PICK held, grown, g : held = frame[t].held /\ grown = frame'[t].held
                              /\ g = frame[t].sig.guardian_index
    OBVIOUS
  <2>2. /\ pc'[t] = "AnnounceSignature"
        /\ frame'[t].id = id /\ frame'[t].sig = frame[t].sig
        /\ grown.guardian_set_index = held.guardian_set_index
        /\ g \notin SignerIndices(held.signatures)
        /\ SignerIndices(grown.signatures) = SignerIndices(held.signatures) \cup {g}
        /\ Len(grown.signatures) = Len(held.signatures) + 1
    BY <1>1, <1>3, <2>1, CopyGrows
  <2>3. pending[id] = held /\ held # None /\ (~ CanFail => vaas[id] = None)
    <3>1. held \in PendingObservation
      BY <1>1, <2>1 DEF IInv, HandlerInv, SubmitInv, SubmitSteps
    <3> QED
      BY <1>1, <2>1, <3>1, NoneDistinct DEF CallInv
  <2>4. CallInv(t)'
    BY <1>1, <2>1, <2>2, <2>3 DEF CallInv, CanFail
  <2> QED
    BY <1>1, <2>4, QuietKeeps
<1> QED
  BY <1>2, <1>3

LEMMA AnnounceSignatureKeepsMessage ==
  ASSUME IInv, NEW t \in Task, NEW id \in MessageId,
         AtWork(t, id), Alone(t, id), MessageInv(id), AnnounceSignature(t)
  PROVE  MessageInv(id)'
<1>1. /\ pc[t] = "AnnounceSignature" /\ UNCHANGED <<pending, vaas, accepted, frame>>
      /\ pc'[t] \in {"SaveVaa", "StoreSignature"} /\ OthersStay(t) /\ CallInv(t)
  BY StepMoves DEF AnnounceSignature, Publish, Goto, IInv, TypeOK, Step, AtWork, MessageInv
<1>2. CallInv(t)'
  BY <1>1 DEF CallInv, CanFail
<1> QED
  BY <1>1, <1>2, QuietKeeps

\* A step that writes: the call's invariant, and the stores' two.
LEMMA WriteKeeps ==
  ASSUME NEW t \in Task, NEW id, Alone(t, id), OthersStay(t),
         CallInv(t)', BothStores(id)', KeptFor(id)'
  PROVE  MessageInv(id)'
<1>1. \A u \in Task : AtWork(u, id)' => CallInv(u)'
  BY StaysAlone DEF Alone
<1> QED
  BY <1>1 DEF MessageInv

LEMMA StorePendingKeepsMessage ==
  ASSUME IInv, NEW t \in Task, NEW id \in MessageId,
         AtWork(t, id), Alone(t, id), MessageInv(id), StorePending(t)
  PROVE  MessageInv(id)'
<1> DEFINE observation == NewObservation(frame[t].index, frame[t].keys)
<1>1. /\ pc[t] = "StorePending" /\ pc'[t] = "AnnounceObserved"
      /\ UNCHANGED <<vaas, accepted, frame>> /\ OthersStay(t)
      /\ frame[t].id = id /\ CallInv(t)
      /\ pending' = [pending EXCEPT ![id] = observation]
  BY StepMoves DEF StorePending, UpsertPending, Goto, IInv, TypeOK, Step, AtWork, MessageInv
<1>2. observation \in PendingObservation /\ observation.signatures = <<>>
  <2>1. frame[t].index \in SetIndex /\ frame[t].keys \in KeyLists[frame[t].index]
    BY <1>1 DEF IInv, HandlerInv, ObserveInv, ObserveSteps
  <2> QED
    BY <2>1, NewObservationGood DEF NewObservation
<1>3. /\ pending'[id] = observation /\ observation # None
      /\ pending[id] = None /\ vaas[id] = None
  BY <1>1, <1>2, NoneDistinct DEF IInv, TypeOK, StoresTypeOK, CallInv
<1> HIDE DEF observation
<1>4. CallInv(t)'
  BY <1>1, <1>2, <1>3 DEF CallInv
<1>5. BothStores(id)' /\ KeptFor(id)'
  BY <1>1, <1>3 DEF BothStores, CanFail, MessageInv, KeptFor
<1> QED
  BY <1>1, <1>4, <1>5, WriteKeeps

LEMMA StoreSignatureKeepsMessage ==
  ASSUME IInv, NEW t \in Task, NEW id \in MessageId,
         AtWork(t, id), Alone(t, id), MessageInv(id), StoreSignature(t)
  PROVE  MessageInv(id)'
<1>1. PICK held, g : held = frame[t].held /\ g = frame[t].sig.guardian_index
  OBVIOUS
<1>2. /\ pc[t] = "StoreSignature" /\ Return(t) /\ vaas' = vaas
      /\ frame[t].id = id /\ CallInv(t)
      /\ pending' = [pending EXCEPT ![id] = held]
      /\ accepted' = accepted \cup {<<id, g>>}
  BY <1>1 DEF StoreSignature, UpsertPending, AtWork, MessageInv
<1>3. held \in PendingObservation /\ held # None /\ accepted \in SUBSET (MessageId \X Nat)
  BY <1>1, <1>2, NoneDistinct DEF IInv, TypeOK, HandlerInv, SubmitInv, SubmitSteps
<1>4. /\ pending'[id] = held
      /\ pending[id] # None
      /\ SignerIndices(held.signatures) = SignerIndices(pending[id].signatures) \cup {g}
      /\ ~ CanFail => vaas[id] = None
  BY <1>1, <1>2 DEF IInv, TypeOK, StoresTypeOK, CallInv
<1>5. BothStores(id)'
  BY <1>2, <1>4 DEF BothStores, CanFail
<1>6. KeptFor(id)'
  <2>1. \A sigs, h : has_guardian(sigs, h) <=> h \in SignerIndices(sigs)
    BY DEF has_guardian, SignerIndices
  <2>2. SUFFICES ASSUME NEW entry \in accepted \cup {<<id, g>>}, entry[1] = id
                 PROVE  vaas[id] # None \/ has_guardian(held.signatures, entry[2])
    BY <1>2, <1>3, <1>4 DEF KeptFor
  <2>3. CASE entry = <<id, g>>
    BY <1>4, <2>1, <2>3
  <2>4. CASE entry \in accepted
    <3>1. vaas[id] # None \/ has_guardian(pending[id].signatures, entry[2])
      BY <2>2, <2>4 DEF MessageInv, KeptFor
    <3> QED
      BY <1>4, <2>1, <3>1
  <2> QED
    BY <2>3, <2>4
<1> QED
  BY <1>2, <1>5, <1>6, ReturnMoves, ReturnedInv, WriteKeeps

\* A record is stored, whether or not the caller hears of it.
LEMMA SaveKeepsMessage ==
  ASSUME IInv, NEW t \in Task, NEW id \in MessageId,
         AtWork(t, id), Alone(t, id), MessageInv(id), SaveVaa(t) \/ SaveReplyLost(t)
  PROVE  MessageInv(id)'
<1>1. PICK record : record = Assembled(frame[t].held)
  OBVIOUS
<1>2. /\ pc[t] = "SaveVaa" /\ frame[t].id = id /\ OthersStay(t)
      /\ vaas' = [vaas EXCEPT ![id] = record] /\ UNCHANGED <<pending, accepted>>
  BY <1>1, StepMoves DEF SaveVaa, SaveReplyLost, SaveRecord, AtWork, Step, Fault
<1>3. vaas'[id] = record /\ record # None
  <2>1. record \in VaaRecord
    BY <1>1, <1>2 DEF IInv, HandlerInv, SubmitInv, SubmitSteps, PendingObservation,
                      Assembled, VaaRecord
  <2> QED
    BY <1>2, <2>1, NoneDistinct DEF IInv, TypeOK, StoresTypeOK
<1>4. KeptFor(id)'
  BY <1>2, <1>3 DEF KeptFor
<1>5. CASE SaveVaa(t)
  <2>1. pc'[t] = "ClearPending" /\ frame' = frame
    BY <1>5 DEF SaveVaa, Goto, IInv, TypeOK
  <2>2. CallInv(t)'
    BY <1>1, <1>2, <1>3, <2>1 DEF CallInv, Assembled
  <2>3. BothStores(id)'
    BY <1>2, <2>1 DEF BothStores
  <2> QED
    BY <1>2, <1>4, <2>2, <2>3, WriteKeeps
<1>6. CASE SaveReplyLost(t)
  <2>1. CanFail /\ Return(t)
    BY <1>6 DEF SaveReplyLost
  <2>2. BothStores(id)'
    BY <2>1 DEF BothStores, CanFail
  <2> QED
    BY <1>2, <1>4, <2>1, <2>2, ReturnedInv, WriteKeeps
<1> QED
  BY <1>5, <1>6

LEMMA ClearPendingKeepsMessage ==
  ASSUME IInv, NEW t \in Task, NEW id \in MessageId,
         AtWork(t, id), Alone(t, id), MessageInv(id), ClearPending(t)
  PROVE  MessageInv(id)'
<1>1. /\ pc[t] = "ClearPending" /\ pc'[t] = "AnnounceVaa" /\ OthersStay(t)
      /\ frame[t].id = id /\ CallInv(t) /\ UNCHANGED <<vaas, accepted, frame>>
      /\ pending' = [pending EXCEPT ![id] = None]
  BY StepMoves DEF ClearPending, RemovePending, Goto, IInv, TypeOK, Step, AtWork, MessageInv
<1>2. vaas[id] # None /\ pending'[id] = None
  BY <1>1 DEF IInv, TypeOK, StoresTypeOK, HandlerInv, SubmitInv
<1>3. CallInv(t)'
  BY <1>1 DEF CallInv, Assembled
<1>4. BothStores(id)' /\ KeptFor(id)'
  BY <1>1, <1>2 DEF BothStores, KeptFor
<1> QED
  BY <1>1, <1>3, <1>4, WriteKeeps

LEMMA OwnStepKeeps ==
  ASSUME IInv, NEW t \in Task, NEW id \in MessageId, Step(t) \/ Fault(t),
         AtWork(t, id), Alone(t, id), MessageInv(id)
  PROVE  MessageInv(id)'
<1>1. ~ (\/ UpgradeInsert(t) \/ UpgradeCurrent(t) \/ ReadCurrent(t)
         \/ ReadCurrentSet(t) \/ CountVaas(t) \/ \E m \in MessageId : ListEntry(t, m))
  BY DEF AtWork, ObserveSteps, SubmitSteps, UpgradeInsert, UpgradeCurrent, ReadCurrent,
         ReadCurrentSet, CountVaas, ListEntry
<1> QED
  BY <1>1, ReadsKeep, LoadSetKeepsMessage, AnnounceSignatureKeepsMessage,
     StorePendingKeepsMessage, StoreSignatureKeepsMessage, SaveKeepsMessage,
     ClearPendingKeepsMessage DEF Step, Fault

-----------------------------------------------------------------------------
(* What survives overlapping handlers.                                     *)

OverlapInv == MeetingsKnown /\ \A id \in Uncontended : MessageInv(id)

LEMMA OverlapInvStep ==
  ASSUME IInv, OverlapInv, [OverlapNext]_<<vars, contended>>
  PROVE  OverlapInv'
<1>1. MeetingsKnown'
  BY MeetingsStep DEF OverlapInv
<1>2. ASSUME NEW id \in Uncontended' PROVE MessageInv(id)'
  <2>1. CASE UNCHANGED <<vars, contended>>
    <3>1. MessageInv(id)
      BY <2>1 DEF OverlapInv, Uncontended
    <3> QED
      BY <2>1, <3>1 DEF vars, stores, MessageInv, AtWork, CallInv, BothStores, KeptFor,
                        CanFail
  <2>2. ASSUME NEW t \in Task, Request(t), Watch PROVE MessageInv(id)'
    <3>1. id \in MessageId /\ MessageInv(id)
      BY <2>2 DEF OverlapInv, Uncontended, Watch
    <3> QED
      BY <2>2, <3>1, NewCallKeeps
  <2>3. ASSUME NEW t \in Task, Step(t) \/ Fault(t), UNCHANGED contended
        PROVE  MessageInv(id)'
    <3>1. id \in Uncontended /\ id \in MessageId /\ MessageInv(id)
      BY <2>3 DEF OverlapInv, Uncontended
    <3>2. CASE AtWork(t, id)
      BY <2>3, <3>1, <3>2, WorksAlone, OwnStepKeeps DEF OverlapInv
    <3>3. CASE ~ AtWork(t, id)
      BY <2>3, <3>1, <3>3, ElsewhereKeeps
    <3> QED
      BY <3>2, <3>3
  <2> QED
    BY <2>1, <2>2, <2>3 DEF OverlapNext
<1> QED
  BY <1>1, <1>2 DEF OverlapInv

LEMMA OverlapInvInit == ASSUME OverlapInit PROVE OverlapInv
BY DEF OverlapInit, Init, StoresInit, OverlapInv, MeetingsKnown, MetOver, Uncontended,
       AtWork, ObserveSteps, SubmitSteps, MessageInv, BothStores, KeptFor

LEMMA OverlapInvariance == OverlapSpec => []OverlapInv
<1>1. IInv /\ OverlapInv /\ [OverlapNext]_<<vars, contended>> => OverlapInv'
  BY OverlapInvStep
<1>2. OverlapInit => OverlapInv
  BY OverlapInvInit
<1> QED
  BY <1>1, <1>2, OverlapIsSpec, Invariance, PTL DEF OverlapSpec

(* A message over which no two calls ever met keeps every acknowledged     *)
(* signature until it is completed, whatever handlers do to others and to  *)
(* the registry, and however the VAA store behind the engine fails.        *)
THEOREM UncontendedSignaturesKept == OverlapSpec => []UncontendedSignatureKept
<1>1. OverlapInv => UncontendedSignatureKept
  BY DEF OverlapInv, MessageInv, UncontendedSignatureKept
<1> QED
  BY <1>1, OverlapInvariance, PTL

(* With a VAA store that does not fail, such a message is no longer        *)
(* pending once it is complete and its calls are over.                     *)
THEOREM UncontendedCleared ==
  ASSUME VaaAdapter = "memory"
  PROVE  OverlapSpec => []UncontendedIsCleared
<1>1. OverlapInv => UncontendedIsCleared
  BY DEF OverlapInv, MessageInv, BothStores, CanFail, UncontendedIsCleared, Quiet,
         AtWork, SubmitSteps
<1> QED
  BY <1>1, OverlapInvariance, PTL

-----------------------------------------------------------------------------
(* The engine keeps the promises of Attestation: its step on the stores is *)
(* a step of that specification on what they say of each message.          *)

Statuses == [id \in MessageId |-> StatusOf(id)]
MemberSets == [id \in MessageId |-> SetOf(id)]
Signers == [id \in MessageId |-> SignersOf(id)]

\* A step that leaves the stores of messages alone.
LEMMA SameStores ==
  ASSUME UNCHANGED <<pending, vaas>>
  PROVE  UNCHANGED <<Statuses, MemberSets, Signers>>
BY DEF Statuses, MemberSets, Signers, StatusOf, SetOf, SignersOf, EntryOf, Observed

\* A step about one message shows in that message only.
LEMMA OneEntry ==
  ASSUME NEW id \in MessageId,
         \A m \in MessageId \ {id} : pending'[m] = pending[m] /\ vaas'[m] = vaas[m]
  PROVE  /\ Statuses' = [Statuses EXCEPT ![id] = StatusOf(id)']
         /\ MemberSets' = [MemberSets EXCEPT ![id] = SetOf(id)']
         /\ Signers' = [Signers EXCEPT ![id] = SignersOf(id)']
<1>1. ASSUME NEW m \in MessageId \ {id}
      PROVE  /\ StatusOf(m)' = StatusOf(m)
             /\ SetOf(m)' = SetOf(m)
             /\ SignersOf(m)' = SignersOf(m)
  BY DEF StatusOf, SetOf, SignersOf, EntryOf, Observed
<1> QED
  BY <1>1 DEF Statuses, MemberSets, Signers

LEMMA SameAnnouncements ==
  ASSUME \/ published' = published
         \/ \E event : /\ event.kind # "VaaAssembled"
                       /\ published' = published \cup {event}
  PROVE  Announced' = Announced
BY DEF Announced

\* Attestation counts as the engine does.
LEMMA PromisedQuorum ==
  /\ \A n \in Nat : Promise!Supermajority(n) = quorum(n)
  /\ \A S : Promise!Cardinality(S) = Cardinality(S)
<1>1. ASSUME NEW n \in Nat PROVE Promise!Supermajority(n) = quorum(n)
  <2>1. 2 * n = n * 2
    OBVIOUS
  <2> QED
    BY <2>1, Zenon DEF Promise!Supermajority, quorum
<1>2. \A S : Promise!Cardinality(S) = Cardinality(S)
  BY DEF Promise!Cardinality, Promise!IsFiniteSet, Cardinality, IsFiniteSet
<1> QED
  BY <1>1, <1>2

\* Whoever wrote it last, a message has the status its signers give it.
EntriesMeetQuorum ==
  \A id \in MessageId : Observed(id) =>
    /\ SetOf(id) \in SetIndex
    /\ SignersOf(id) \subseteq 0 .. GuardianCount(SetOf(id)) - 1
    /\ StatusOf(id) = Promise!StatusAt(SignersOf(id), SetOf(id))

LEMMA EntriesDoMeetQuorum ==
  ASSUME FixedSets, IInv
  PROVE  EntriesMeetQuorum
<1> SUFFICES ASSUME NEW id \in MessageId, Observed(id)
             PROVE  /\ SetOf(id) \in SetIndex
                    /\ SignersOf(id) \subseteq 0 .. GuardianCount(SetOf(id)) - 1
                    /\ StatusOf(id) = Promise!StatusAt(SignersOf(id), SetOf(id))
  BY DEF EntriesMeetQuorum
<1>1. PICK i, members, count :
        i = SetOf(id) /\ members = SignersOf(id) /\ count = GuardianCount(i)
  OBVIOUS
<1>2. /\ i = EntryOf(id).guardian_set_index
      /\ members = SignerIndices(EntryOf(id).signatures)
  BY <1>1 DEF SetOf, SignersOf
<1>3. /\ i \in SetIndex /\ count \in Nat /\ members \subseteq 0 .. count - 1
      /\ vaas[id] # None <=> Cardinality(members) >= quorum(count)
  BY <1>1, <1>2, EntryMeetsQuorum
<1>4. [j \in SetIndex |-> GuardianCount(j)][i] = count
  BY <1>1, <1>3
<1>5. StatusOf(id) = IF vaas[id] # None THEN "complete" ELSE "collecting"
  BY DEF StatusOf, Observed
<1>6. StatusOf(id) = Promise!StatusAt(members, i)
  BY <1>3, <1>4, <1>5, PromisedQuorum DEF Promise!StatusAt
<1> QED
  BY <1>1, <1>3, <1>6

\* A new call is unheard of, unless it meets another one.
LEMMA RequestDisturbs ==
  ASSUME IInv, MeetingsKnown, NEW t \in Task, Request(t), Watch
  PROVE  [Promise!Next]_(Promise!promise)
<1>1. PICK id : id = frame'[t].id
  OBVIOUS
<1>2. OthersStay(t) /\ pc[t] = "idle" /\ UNCHANGED stores
  BY RequestMoves
<1>3. ASSUME NEW m \in MessageId, MetOver(m)', m # id PROVE m \in contended
  <2>1. ASSUME NEW u \in Task, AtWork(u, m)' PROVE AtWork(u, m)
    BY <1>1, <1>2, <1>3, <2>1 DEF OthersStay, AtWork
  <2> QED
    BY <1>3, <2>1 DEF MetOver, MeetingsKnown
<1>4. contended' = contended \/ (id \in MessageId /\ contended' = contended \cup {id})
  <2>1. contended' = contended \cup {m \in MessageId : MetOver(m)'}
    BY DEF Watch
  <2>2. CASE id \in MessageId /\ MetOver(id)'
    BY <1>3, <2>1, <2>2
  <2>3. CASE ~ (id \in MessageId /\ MetOver(id)')
    BY <1>3, <2>1, <2>3
  <2> QED
    BY <2>2, <2>3
<1>5. UNCHANGED <<Statuses, MemberSets, Signers, Announced>>
  BY <1>2, SameStores, SameAnnouncements DEF stores
<1>6. CASE contended' = contended
  BY <1>5, <1>6 DEF Promise!promise, Statuses, MemberSets, Signers
<1>7. CASE id \in MessageId /\ contended' = contended \cup {id}
  <2>1. Promise!Disturb(id)
    BY <1>5, <1>7 DEF Promise!Disturb, Statuses, MemberSets, Signers
  <2> QED
    BY <1>7, <2>1 DEF Promise!Next
<1> QED
  BY <1>4, <1>6, <1>7

\* StorePending is Observe.
LEMMA StorePendingObserves ==
  ASSUME IInv, NEW t \in Task, NEW id \in MessageId, AtWork(t, id), MessageInv(id),
         NEW index, index = frame[t].index, StorePending(t), UNCHANGED contended
  PROVE  index \in SetIndex /\ Promise!Observe(id, index)
<1> DEFINE observation == NewObservation(index, frame[t].keys)
<1>1. /\ pc[t] = "StorePending" /\ UNCHANGED <<vaas, published>>
      /\ pending' = [pending EXCEPT ![id] = observation]
  BY DEF StorePending, UpsertPending, AtWork
<1>2. /\ index \in SetIndex
      /\ observation \in PendingObservation
      /\ observation.signatures = <<>>
      /\ observation.guardian_set_index = index
  <2>1. index \in SetIndex /\ frame[t].keys \in KeyLists[index]
    BY <1>1 DEF IInv, HandlerInv, ObserveInv, ObserveSteps
  <2> QED
    BY <2>1, NewObservationGood DEF NewObservation
<1>3. pending[id] = None /\ vaas[id] = None
  BY <1>1 DEF MessageInv, AtWork, CallInv
<1>4. pending \in [MessageId -> PendingObservation \cup {None}] /\ observation # None
  BY <1>2, NoneDistinct DEF IInv, TypeOK, StoresTypeOK
<1>5. /\ pending'[id] # None /\ vaas'[id] = None
      /\ pending'[id].signatures = <<>> /\ pending'[id].guardian_set_index = index
  BY <1>1, <1>2, <1>3, <1>4
<1>6. \A m \in MessageId \ {id} : pending'[m] = pending[m] /\ vaas'[m] = vaas[m]
  BY <1>1, <1>4
<1> HIDE DEF observation
<1>7. StatusOf(id) = "unknown" /\ SignersOf(id) = {}
  BY <1>3 DEF StatusOf, SignersOf, Observed
<1>8. /\ StatusOf(id)' = "collecting"
      /\ SetOf(id)' = index
      /\ SignersOf(id)' = {}
  <2>1. SignerIndices(<<>>) = {}
    BY DEF SignerIndices
  <2> QED
    BY <1>5, <2>1 DEF StatusOf, SetOf, SignersOf, EntryOf, Observed
<1>9. /\ Statuses' = [Statuses EXCEPT ![id] = "collecting"]
      /\ MemberSets' = [MemberSets EXCEPT ![id] = index]
      /\ Signers' = [Signers EXCEPT ![id] = {}]
  BY <1>6, <1>8, OneEntry
<1>10. Statuses[id] = "unknown" /\ Signers' = Signers
  BY <1>7, <1>9 DEF Statuses, Signers
<1>11. Announced' = Announced
  BY <1>1, SameAnnouncements
<1> QED
  BY <1>2, <1>9, <1>10, <1>11 DEF Promise!Observe, Statuses, MemberSets, Signers

(* StoreSignature and SaveVaa are Sign: the entry of the message becomes   *)
(* that of the handler's copy.                                             *)
LEMMA CopySigns ==
  ASSUME VaaAdapter = "memory", IInv, NEW t \in Task, NEW id \in MessageId,
         AtWork(t, id), MessageInv(id), EntriesMeetQuorum',
         StoreSignature(t) \/ SaveVaa(t), UNCHANGED contended
  PROVE  Promise!Next
<1>1. PICK held, g : held = frame[t].held /\ g = frame[t].sig.guardian_index
  OBVIOUS
<1>2. /\ pc[t] \in {"StoreSignature", "SaveVaa"} /\ published' = published
      /\ frame[t].id = id /\ CallInv(t)
      /\ pending \in [MessageId -> PendingObservation \cup {None}]
      /\ vaas \in [MessageId -> VaaRecord \cup {None}]
  BY DEF StoreSignature, UpsertPending, SaveVaa, SaveRecord, IInv, TypeOK, StoresTypeOK,
         AtWork, MessageInv
<1>3. held \in PendingObservation /\ held # None /\ Assembled(held) # None
  <2>1. held \in PendingObservation /\ Assembled(held) \in VaaRecord
    BY <1>1, <1>2 DEF IInv, HandlerInv, SubmitInv, SubmitSteps, Assembled,
                      PendingObservation, VaaRecord
  <2> QED
    BY <2>1, NoneDistinct
<1>4. /\ vaas[id] = None /\ pending[id] # None
      /\ pending[id].guardian_set_index = held.guardian_set_index
      /\ g \notin SignerIndices(pending[id].signatures)
      /\ SignerIndices(held.signatures) = SignerIndices(pending[id].signatures) \cup {g}
  BY <1>1, <1>2 DEF CallInv, CanFail
<1>5. /\ Observed(id)' /\ (EntryOf(id)').signatures = held.signatures
      /\ (EntryOf(id)').guardian_set_index = held.guardian_set_index
      /\ \A m \in MessageId \ {id} : pending'[m] = pending[m] /\ vaas'[m] = vaas[m]
  <2>1. CASE StoreSignature(t)
    <3>1. vaas' = vaas /\ pending' = [pending EXCEPT ![id] = held]
      BY <1>1, <1>2, <2>1 DEF StoreSignature, UpsertPending
    <3> QED
      BY <1>2, <1>3, <1>4, <3>1 DEF Observed, EntryOf
  <2>2. CASE SaveVaa(t)
    <3>1. pending' = pending /\ vaas' = [vaas EXCEPT ![id] = Assembled(held)]
      BY <1>1, <1>2, <2>2 DEF SaveVaa, SaveRecord
    <3>2. vaas'[id] = Assembled(held)
      BY <1>2, <3>1
    <3>3. Observed(id)' /\ EntryOf(id)' = Assembled(held)
      BY <1>3, <3>2 DEF Observed, EntryOf
    <3>4. /\ Assembled(held).signatures = held.signatures
          /\ Assembled(held).guardian_set_index = held.guardian_set_index
      BY DEF Assembled
    <3> QED
      BY <1>2, <3>1, <3>3, <3>4
  <2> QED
    BY <2>1, <2>2
<1>6. /\ StatusOf(id) = "collecting"
      /\ SetOf(id) = held.guardian_set_index
      /\ SignersOf(id) = SignerIndices(pending[id].signatures)
  BY <1>4 DEF StatusOf, SetOf, SignersOf, EntryOf, Observed
<1>7. SetOf(id)' = SetOf(id) /\ SignersOf(id)' = SignersOf(id) \cup {g}
  BY <1>4, <1>5, <1>6 DEF SetOf, SignersOf
<1>8. /\ SetOf(id) \in SetIndex
      /\ g \in 0 .. GuardianCount(SetOf(id)) - 1
      /\ StatusOf(id)' = Promise!StatusAt(SignersOf(id)', SetOf(id))
  <2>1. /\ SetOf(id)' \in SetIndex
        /\ SignersOf(id)' \subseteq 0 .. GuardianCount(SetOf(id)') - 1
        /\ StatusOf(id)' = Promise!StatusAt(SignersOf(id)', SetOf(id)')
    <3>1. Observed(id)'
      BY <1>5
    <3> QED
      BY <3>1 DEF EntriesMeetQuorum, Promise!StatusAt
  <2> QED
    BY <1>7, <2>1
<1>9. /\ Statuses' = [Statuses EXCEPT ![id] = StatusOf(id)']
      /\ MemberSets' = [MemberSets EXCEPT ![id] = SetOf(id)']
      /\ Signers' = [Signers EXCEPT ![id] = SignersOf(id)']
  BY <1>5, OneEntry
<1>10. /\ Statuses[id] = "collecting" /\ g \notin Signers[id]
       /\ MemberSets[id] = SetOf(id) /\ MemberSets' = MemberSets
       /\ Signers' = [Signers EXCEPT ![id] = Signers[id] \cup {g}]
       /\ Signers'[id] = SignersOf(id)'
  BY <1>4, <1>6, <1>7, <1>9 DEF Statuses, MemberSets, Signers
<1>11. Statuses' = [Statuses EXCEPT ![id] =
          Promise!StatusAt(Signers'[id], MemberSets[id])]
  BY <1>8, <1>9, <1>10
<1>12. Announced' = Announced
  BY <1>2, SameAnnouncements
<1>13. Promise!Sign(id, g)
  BY <1>10, <1>11, <1>12 DEF Promise!Sign, Statuses, MemberSets, Signers
<1>14. g \in 0 .. [i \in SetIndex |-> GuardianCount(i)][MemberSets[id]] - 1
  BY <1>8, <1>10
<1> QED
  BY <1>10, <1>13, <1>14 DEF Promise!Next, Statuses, MemberSets

(* The same steps over a contended message are Interfere: what a message   *)
(* has then may be a stale copy, but it meets its quorum all the same.     *)
LEMMA WriteInterferes ==
  ASSUME IInv, NEW t \in Task, NEW id \in MessageId, AtWork(t, id), id \in contended,
         EntriesMeetQuorum', NothingVanishes,
         StorePending(t) \/ StoreSignature(t) \/ SaveVaa(t), UNCHANGED contended
  PROVE  Promise!Next
<1>1. PICK i, members : i = SetOf(id)' /\ members = SignersOf(id)'
  OBVIOUS
<1>2. /\ published' = published
      /\ \A m \in MessageId \ {id} : pending'[m] = pending[m] /\ vaas'[m] = vaas[m]
      /\ Observed(id)'
  <2>1. /\ pending \in [MessageId -> PendingObservation \cup {None}]
        /\ vaas \in [MessageId -> VaaRecord \cup {None}] /\ frame[t].id = id
    BY DEF IInv, TypeOK, StoresTypeOK, AtWork
  <2>2. CASE StorePending(t)
    <3>1. pc[t] = "StorePending" /\ UNCHANGED <<vaas, published>>
          /\ pending' = [pending EXCEPT ![id] = NewObservation(frame[t].index, frame[t].keys)]
      BY <2>1, <2>2 DEF StorePending, UpsertPending
    <3>2. NewObservation(frame[t].index, frame[t].keys) \in PendingObservation
      BY <3>1, NewObservationGood DEF IInv, HandlerInv, ObserveInv, ObserveSteps
    <3> QED
      BY <2>1, <3>1, <3>2, NoneDistinct DEF Observed
  <2>3. CASE StoreSignature(t)
    <3>1. pc[t] = "StoreSignature" /\ UNCHANGED <<vaas, published>>
          /\ pending' = [pending EXCEPT ![id] = frame[t].held]
      BY <2>1, <2>3 DEF StoreSignature, UpsertPending
    <3>2. frame[t].held \in PendingObservation
      BY <3>1 DEF IInv, HandlerInv, SubmitInv, SubmitSteps
    <3> QED
      BY <2>1, <3>1, <3>2, NoneDistinct DEF Observed
  <2>4. CASE SaveVaa(t)
    <3>1. /\ UNCHANGED <<pending, published>>
          /\ vaas' = [vaas EXCEPT ![id] = Assembled(frame[t].held)]
      BY <2>1, <2>4 DEF SaveVaa, SaveRecord
    <3>2. vaas'[id] # None
      BY <2>1, <2>4, SaveStoresVerified DEF SaveVaa
    <3> QED
      BY <2>1, <3>1, <3>2 DEF Observed
  <2> QED
    BY <2>2, <2>3, <2>4
<1>3. /\ i \in SetIndex
      /\ members \subseteq 0 .. GuardianCount(i) - 1
      /\ StatusOf(id)' = Promise!StatusAt(members, i)
  <2>1. Observed(id)'
    BY <1>2
  <2> QED
    BY <1>1, <2>1 DEF EntriesMeetQuorum, Promise!StatusAt
<1>4. /\ Statuses' = [Statuses EXCEPT ![id] = Promise!StatusAt(members, i)]
      /\ MemberSets' = [MemberSets EXCEPT ![id] = i]
      /\ Signers' = [Signers EXCEPT ![id] = members]
  BY <1>1, <1>2, <1>3, OneEntry
<1>5. Statuses[id] = "complete" => Promise!StatusAt(members, i) = "complete"
  <2>1. vaas[id] # None => vaas'[id] # None
    BY DEF NothingVanishes
  <2> QED
    BY <1>3, <2>1 DEF Statuses, StatusOf
<1>6. Announced' = Announced
  BY <1>2, SameAnnouncements
<1>7. Promise!Interfere(id, i, members)
  BY <1>4, <1>5, <1>6 DEF Promise!Interfere, Statuses, MemberSets, Signers
<1>8. members \in SUBSET (0 .. [j \in SetIndex |-> GuardianCount(j)][i] - 1)
  BY <1>3
<1> QED
  BY <1>3, <1>7, <1>8 DEF Promise!Next

LEMMA ClearPendingStutters ==
  ASSUME IInv, NEW t \in Task, ClearPending(t), UNCHANGED contended
  PROVE  UNCHANGED Promise!promise
<1>1. PICK id : id = frame[t].id
  OBVIOUS
<1>2. /\ id \in MessageId /\ vaas[id] # None /\ UNCHANGED <<vaas, published>>
      /\ \A m \in MessageId \ {id} : pending'[m] = pending[m]
  BY <1>1 DEF ClearPending, RemovePending, IInv, TypeOK, StoresTypeOK, HandlerInv,
              SubmitInv, SubmitSteps
<1>3. /\ StatusOf(id)' = StatusOf(id)
      /\ SetOf(id)' = SetOf(id)
      /\ SignersOf(id)' = SignersOf(id)
  BY <1>2 DEF StatusOf, SetOf, SignersOf, EntryOf, Observed
<1>4. UNCHANGED <<Statuses, MemberSets, Signers>>
  BY <1>2, <1>3, OneEntry DEF Statuses, MemberSets, Signers
<1>5. Announced' = Announced
  BY <1>2, SameAnnouncements
<1> QED
  BY <1>4, <1>5 DEF Promise!promise, Statuses, MemberSets, Signers

LEMMA AnnounceVaaAnnounces ==
  ASSUME IInv, NEW t \in Task, AnnounceVaa(t), UNCHANGED contended
  PROVE  Promise!Next
<1>1. PICK id : id = frame[t].id
  OBVIOUS
<1>2. /\ id \in MessageId /\ vaas[id] # None /\ UNCHANGED <<pending, vaas>>
      /\ published' = published \cup {[kind |-> "VaaAssembled", id |-> id]}
  BY <1>1 DEF AnnounceVaa, Publish, IInv, HandlerInv, SubmitInv, SubmitSteps
<1>3. UNCHANGED <<Statuses, MemberSets, Signers>>
  BY <1>2, SameStores
<1>4. Statuses[id] = "complete"
  BY <1>2 DEF Statuses, StatusOf
<1>5. Announced' = Announced \cup {id}
  BY <1>2 DEF Announced
<1>6. Promise!Announce(id)
  BY <1>3, <1>4, <1>5 DEF Promise!Announce, Statuses, MemberSets, Signers
<1> QED
  BY <1>2, <1>6 DEF Promise!Next

LEMMA OtherStepsStutter ==
  ASSUME NEW t \in Task, UNCHANGED contended,
         \/ CheckCompleted(t) \/ CheckPending(t) \/ ReadSet(t) \/ AnnounceObserved(t)
         \/ LoadPending(t) \/ LoadSet(t) \/ AnnounceSignature(t) \/ RejectVaa(t)
         \/ UpgradeInsert(t) \/ UpgradeCurrent(t)
         \/ ReadCurrent(t) \/ ReadCurrentSet(t)
         \/ CountVaas(t) \/ \E id \in MessageId : ListEntry(t, id)
  PROVE  UNCHANGED Promise!promise
<1>1. UNCHANGED <<pending, vaas>>
  BY DEF CheckCompleted, CheckPending, ReadSet, AnnounceObserved, LoadPending, LoadSet,
         AnnounceSignature, RejectVaa, UpgradeInsert, UpgradeCurrent, ReadCurrent,
         ReadCurrentSet, CountVaas, ListEntry, Publish, InsertSet, SetCurrent, stores
<1>2. \/ published' = published
      \/ \E event : event.kind # "VaaAssembled" /\ published' = published \cup {event}
  <2>1. CASE AnnounceObserved(t)
    <3> DEFINE event == [kind |-> "MessageObserved", id |-> frame[t].id]
    <3>1. event.kind # "VaaAssembled" /\ published' = published \cup {event}
      BY <2>1 DEF AnnounceObserved, Publish
    <3> QED
      BY <3>1
  <2>2. CASE AnnounceSignature(t)
    <3> DEFINE event == [kind |-> "SignatureCollected", id |-> frame[t].id,
                         guardian_index |-> frame[t].sig.guardian_index]
    <3>1. event.kind # "VaaAssembled" /\ published' = published \cup {event}
      BY <2>2 DEF AnnounceSignature, Publish
    <3> QED
      BY <3>1
  <2>3. CASE ~ (AnnounceObserved(t) \/ AnnounceSignature(t))
    BY <2>3
       DEF CheckCompleted, CheckPending, ReadSet, LoadPending, LoadSet, RejectVaa,
           UpgradeInsert, UpgradeCurrent, ReadCurrent, ReadCurrentSet, CountVaas,
           ListEntry, InsertSet, SetCurrent, stores
  <2> QED
    BY <2>1, <2>2, <2>3
<1>3. UNCHANGED <<Statuses, MemberSets, Signers>> /\ Announced' = Announced
  BY <1>1, <1>2, SameStores, SameAnnouncements
<1> QED
  BY <1>3 DEF Promise!promise, Statuses, MemberSets, Signers

LEMMA WritesKeepPromises ==
  ASSUME VaaAdapter = "memory", IInv, OverlapInv, EntriesMeetQuorum', NothingVanishes,
         NEW t \in Task, StorePending(t) \/ StoreSignature(t) \/ SaveVaa(t),
         UNCHANGED contended
  PROVE  Promise!Next
<1>1. PICK id, index : id = frame[t].id /\ index = frame[t].index
  OBVIOUS
<1>2. id \in MessageId /\ AtWork(t, id)
  BY <1>1 DEF StorePending, StoreSignature, SaveVaa, IInv, HandlerInv, ObserveInv,
              SubmitInv, AtWork, ObserveSteps, SubmitSteps
<1>3. CASE id \in contended
  BY <1>2, <1>3, WriteInterferes
<1>4. CASE id \notin contended
  <2>1. MessageInv(id)
    BY <1>2, <1>4 DEF OverlapInv, Uncontended
  <2>2. CASE StorePending(t)
    BY <1>1, <1>2, <2>1, <2>2, StorePendingObserves DEF Promise!Next
  <2> QED
    BY <1>2, <2>1, <2>2, CopySigns
<1> QED
  BY <1>3, <1>4

LEMMA StepsKeepPromises ==
  ASSUME VaaAdapter = "memory", IInv, OverlapInv, EntriesMeetQuorum',
         [OverlapNext]_<<vars, contended>>
  PROVE  [Promise!Next]_(Promise!promise)
<1>1. NothingVanishes
  BY OverlapStep, NextLosesNothing
<1>2. ASSUME NEW t \in Task, Step(t), UNCHANGED contended
      PROVE  [Promise!Next]_(Promise!promise)
  BY <1>1, <1>2, WritesKeepPromises, ClearPendingStutters, AnnounceVaaAnnounces,
     OtherStepsStutter DEF Step
<1>3. ASSUME NEW t \in Task PROVE ~ Fault(t)
  BY DEF Fault, StoreFails, SaveReplyLost, CanFail
<1>4. CASE UNCHANGED <<vars, contended>>
  <2>1. UNCHANGED <<Statuses, MemberSets, Signers>> /\ Announced' = Announced
    BY <1>4, SameStores, SameAnnouncements DEF vars, stores
  <2> QED
    BY <1>4, <2>1 DEF Promise!promise, Statuses, MemberSets, Signers
<1> QED
  BY <1>2, <1>3, <1>4, RequestDisturbs DEF OverlapNext, OverlapInv

(* However many handlers interleave, the engine keeps every promise of     *)
(* Attestation, for any number of messages and guardian sets of any size   *)
(* that are not replaced in place: observing again, resubmitting and       *)
(* forged signatures change nothing, a message is complete from its quorum *)
(* on, and only one over which calls met may lose what it has gathered.    *)
THEOREM OverlapKeepsPromises ==
  ASSUME VaaAdapter = "memory", FixedSets
  PROVE  OverlapSpec => ImplementsAttestation
<1>1. OverlapInit => Promise!Init
  <2> SUFFICES ASSUME OverlapInit PROVE Promise!Init
    OBVIOUS
  <2>1. \A id \in MessageId : StatusOf(id) = "unknown" /\ SetOf(id) = None
                              /\ SignersOf(id) = {}
    BY DEF OverlapInit, Init, StoresInit, StatusOf, SetOf, SignersOf, Observed
  <2>2. Announced = {} /\ contended = {}
    BY DEF OverlapInit, Init, StoresInit, Announced
  <2> QED
    BY <2>1, <2>2 DEF Promise!Init
<1>2. IInv => EntriesMeetQuorum
  BY EntriesDoMeetQuorum
<1>3. IInv /\ OverlapInv /\ EntriesMeetQuorum' /\ [OverlapNext]_<<vars, contended>>
        => [Promise!Next]_(Promise!promise)
  BY StepsKeepPromises
<1> QED
  BY <1>1, <1>2, <1>3, OverlapIsSpec, Invariance, OverlapInvariance, PTL
     DEF OverlapSpec, ImplementsAttestation, Promise!Spec
=============================================================================

----------------------------- MODULE Aggregator -----------------------------
(***************************************************************************)
(* AggregatorEngine (crates/wormverify-core/src/engine.rs) run by the      *)
(* concurrent request handlers of the node.  A task is one handler; it     *)
(* serves one call at a time and takes one step per port call, so the      *)
(* steps of two tasks interleave between any two port calls.  What a task  *)
(* remembers between two steps is its frame: the arguments of the call and *)
(* the copies (pending, set) the handler has cloned out of the stores.     *)
(***************************************************************************)
EXTENDS Stores

CONSTANTS
  Task,         \* concurrent request handlers
  Signatures,   \* signatures clients submit
  Calls         \* which engine and registry calls clients make

ASSUME SignaturesAssumption == Signatures \subseteq GuardianSignature
ASSUME CallsAssumption ==
  Calls \subseteq {"observe", "submit", "upgrade", "current", "stats"}

VARIABLES
  pc,           \* the port call the task makes next, "idle" between calls
  frame,        \* the task's local variables
  accepted      \* history: <<id, guardian_index>> of every Ok(Collected)

vars == <<stores, pc, frame, accepted>>

Frame ==
  [id : MessageId \cup {None},               \* argument id, or body's digest
   index : SetIndex \cup {None},             \* argument guardian_set_index
   sig : GuardianSignature \cup {None},      \* argument signature
   held : PendingObservation \cup {None},    \* the cloned observation
   keys : KeyList \cup {None},               \* the cloned guardian set
   todo : SUBSET MessageId,                  \* stats: entries still to visit
   seen : SUBSET MessageId,                  \* stats: entries found pending
   known : SUBSET MessageId]                 \* stats: observed at the start

NoFrame ==
  [id |-> None, index |-> None, sig |-> None, held |-> None, keys |-> None,
   todo |-> {}, seen |-> {}, known |-> {}]

ObserveSteps == {"CheckCompleted", "CheckPending", "ReadSet", "StorePending",
                 "AnnounceObserved"}
SubmitSteps == {"LoadPending", "LoadSet", "AnnounceSignature",
                "StoreSignature", "SaveVaa", "ClearPending", "AnnounceVaa"}
UpgradeSteps == {"InsertSet", "SetCurrent"}
QuerySteps == {"ReadCurrent", "ReadCurrentSet", "ListPending", "CountVaas"}
Steps == {"idle"} \cup ObserveSteps \cup SubmitSteps \cup UpgradeSteps
           \cup QuerySteps

TypeOK ==
  /\ StoresTypeOK
  /\ pc \in [Task -> Steps]
  /\ frame \in [Task -> Frame]
  /\ accepted \in SUBSET (MessageId \X Nat)

Init ==
  /\ StoresInit
  /\ pc = [t \in Task |-> "idle"]
  /\ frame = [t \in Task |-> NoFrame]
  /\ accepted = {}

Goto(t, step) == pc' = [pc EXCEPT ![t] = step]

\* The handler returns, with Ok or with an error, and its locals are gone.
Return(t) == Goto(t, "idle") /\ frame' = [frame EXCEPT ![t] = NoFrame]

\* A call arrives at an idle handler.
Start(t, call, step, arguments) ==
  /\ call \in Calls
  /\ pc[t] = "idle"
  /\ Goto(t, step)
  /\ frame' = [frame EXCEPT ![t] = arguments]
  /\ UNCHANGED <<stores, accepted>>

-----------------------------------------------------------------------------
(* observe_message(guardian_set_index, body)                               *)

Observe(t, id, index) ==
  Start(t, "observe", "CheckCompleted",
        [NoFrame EXCEPT !.id = id, !.index = index])

\* A bug: a completed message is observed again.
CheckCompletedIgnored(t) ==
  /\ pc[t] = "CheckCompleted"
  /\ Goto(t, "CheckPending")
  /\ UNCHANGED <<stores, frame, accepted>>

\* vaas.get: an assembled VAA ends the call with AlreadyCompleted.
CheckCompleted(t) ==
  /\ pc[t] = "CheckCompleted"
  /\ \/ vaas[frame[t].id] # None /\ Return(t)
     \/ vaas[frame[t].id] = None /\ Goto(t, "CheckPending") /\ UNCHANGED frame
  /\ UNCHANGED <<stores, accepted>>

\* A bug: a known message is observed again.
CheckPendingIgnored(t) ==
  /\ pc[t] = "CheckPending"
  /\ Goto(t, "ReadSet")
  /\ UNCHANGED <<stores, frame, accepted>>

\* messages.get_pending: a known message ends the call with its id.
CheckPending(t) ==
  /\ pc[t] = "CheckPending"
  /\ \/ pending[frame[t].id] # None /\ Return(t)
     \/ pending[frame[t].id] = None /\ Goto(t, "ReadSet") /\ UNCHANGED frame
  /\ UNCHANGED <<stores, accepted>>

\* guardians.get: an unknown set ends the call with GuardianSetUnavailable.
ReadSet(t) ==
  LET keys == sets[frame[t].index] IN
  /\ pc[t] = "ReadSet"
  /\ \/ keys = None /\ Return(t)
     \/ /\ keys # None
        /\ Goto(t, "StorePending")
        /\ frame' = [frame EXCEPT ![t].keys = keys]
  /\ UNCHANGED <<stores, accepted>>

\* PendingObservation::new for the set that was read.
NewObservation(index, keys) ==
  [guardian_set_index |-> index,
   signatures |-> <<>>,
   guardian_count |-> Len(keys)]

StorePending(t) ==
  /\ pc[t] = "StorePending"
  /\ UpsertPending(frame[t].id, NewObservation(frame[t].index, frame[t].keys))
  /\ Goto(t, "AnnounceObserved")
  /\ UNCHANGED <<frame, accepted>>

AnnounceObserved(t) ==
  /\ pc[t] = "AnnounceObserved"
  /\ Publish([kind |-> "MessageObserved", id |-> frame[t].id])
  /\ Return(t)
  /\ UNCHANGED accepted

-----------------------------------------------------------------------------
(* submit_signature(id, signature)                                         *)

Submit(t, id, sig) ==
  Start(t, "submit", "LoadPending", [NoFrame EXCEPT !.id = id, !.sig = sig])

\* messages.get_pending: MessageNotObserved, or a clone of the observation.
LoadPending(t) ==
  LET observation == pending[frame[t].id] IN
  /\ pc[t] = "LoadPending"
  /\ \/ observation = None /\ Return(t)
     \/ /\ observation # None
        /\ Goto(t, "LoadSet")
        /\ frame' = [frame EXCEPT ![t].held = observation]
  /\ UNCHANGED <<stores, accepted>>

\* A bug: a guardian is counted every time it submits.
AcceptableAgain(observation, keys, sig) ==
  keys # None /\ SignedByMember(sig, keys)

(* The checks from guardians.get to insert_sorted: a known set, an index   *)
(* inside it, no signature of that guardian yet, and the right signer.     *)
Acceptable(observation, keys, sig) ==
  /\ keys # None
  /\ ~ has_guardian(observation.signatures, sig.guardian_index)
  /\ SignedByMember(sig, keys)

(* guardians.get, the checks on the signature, and its insertion into the  *)
(* task's own copy.  Each failed check ends the call with its error.       *)
LoadSet(t) ==
  LET held == frame[t].held
      sig  == frame[t].sig
      keys == sets[held.guardian_set_index]
  IN
  /\ pc[t] = "LoadSet"
  /\ \/ ~ Acceptable(held, keys, sig) /\ Return(t)
     \/ /\ Acceptable(held, keys, sig)
        /\ Goto(t, "AnnounceSignature")
        /\ frame' = [frame EXCEPT
             ![t].keys = keys,
             ![t].held.signatures = insert_sorted(held.signatures, sig)]
  /\ UNCHANGED <<stores, accepted>>

\* PendingObservation::quorum_reached, from the count taken at observation.
quorum_reached(observation) ==
  Len(observation.signatures) >= quorum(observation.guardian_count)

\* A bug: the message completes one signature late.
AnnounceSignatureLate(t) ==
  LET held == frame[t].held IN
  /\ pc[t] = "AnnounceSignature"
  /\ Publish([kind |-> "SignatureCollected", id |-> frame[t].id,
              guardian_index |-> frame[t].sig.guardian_index])
  /\ Goto(t, IF Len(held.signatures) > quorum(held.guardian_count)
             THEN "SaveVaa" ELSE "StoreSignature")
  /\ UNCHANGED <<frame, accepted>>

\* events.publish(SignatureCollected), then the branch on quorum_reached.
AnnounceSignature(t) ==
  LET held == frame[t].held IN
  /\ pc[t] = "AnnounceSignature"
  /\ Publish([kind |-> "SignatureCollected", id |-> frame[t].id,
              guardian_index |-> frame[t].sig.guardian_index])
  /\ Goto(t, IF quorum_reached(held) THEN "SaveVaa" ELSE "StoreSignature")
  /\ UNCHANGED <<frame, accepted>>

\* A bug: the acknowledged index is the one before.
StoreSignatureShifted(t) ==
  /\ pc[t] = "StoreSignature"
  /\ UpsertPending(frame[t].id, frame[t].held)
  /\ accepted' = accepted \cup {<<frame[t].id, frame[t].sig.guardian_index - 1>>}
  /\ Return(t)

\* messages.upsert_pending, then Ok(Collected).
StoreSignature(t) ==
  /\ pc[t] = "StoreSignature"
  /\ UpsertPending(frame[t].id, frame[t].held)
  /\ accepted' = accepted \cup {<<frame[t].id, frame[t].sig.guardian_index>>}
  /\ Return(t)

\* The VAA assembled from the task's copy of the observation.
Assembled(observation) ==
  [guardian_set_index |-> observation.guardian_set_index,
   signatures |-> observation.signatures]

\* A bug: the assembled VAA is trusted.
VerificationSkipped(t) == TRUE

Verified(t) == verify(frame[t].held.signatures, frame[t].keys)

\* The final verification fails: the call ends with EngineError::Vaa.
RejectVaa(t) ==
  /\ pc[t] = "SaveVaa"
  /\ ~ Verified(t)
  /\ Return(t)
  /\ UNCHANGED <<stores, accepted>>

\* A bug: the observation is removed first, the record saved after it.
SaveVaaAfterClearing(t) ==
  \/ /\ pc[t] = "SaveVaa"
     /\ Verified(t)
     /\ RemovePending(frame[t].id)
     /\ Goto(t, "SaveLate")
     /\ UNCHANGED <<frame, accepted>>
  \/ /\ pc[t] = "SaveLate"
     /\ SaveRecord(frame[t].id, Assembled(frame[t].held))
     /\ Goto(t, "AnnounceVaa")
     /\ UNCHANGED <<frame, accepted>>

\* The final verification passes and vaas.save stores the record.
SaveVaa(t) ==
  /\ pc[t] = "SaveVaa"
  /\ Verified(t)
  /\ SaveRecord(frame[t].id, Assembled(frame[t].held))
  /\ Goto(t, "ClearPending")
  /\ UNCHANGED <<frame, accepted>>

\* A bug: the call returns without announcing the VAA.
ClearPendingSilently(t) ==
  /\ pc[t] = "ClearPending"
  /\ RemovePending(frame[t].id)
  /\ Return(t)
  /\ UNCHANGED accepted

ClearPending(t) ==
  /\ pc[t] = "ClearPending"
  /\ RemovePending(frame[t].id)
  /\ Goto(t, "AnnounceVaa")
  /\ UNCHANGED <<frame, accepted>>

\* events.publish(VaaAssembled), then Ok(Assembled).
AnnounceVaa(t) ==
  /\ pc[t] = "AnnounceVaa"
  /\ Publish([kind |-> "VaaAssembled", id |-> frame[t].id])
  /\ Return(t)
  /\ UNCHANGED accepted

-----------------------------------------------------------------------------
(* A VaaStore that can fail: a get or a save ends the call with an         *)
(* EngineError, a save perhaps after the record went in.                   *)

CanFail == VaaAdapter # "memory"

\* A bug: the error of vaas.save is ignored.
SaveErrorIgnored(t) ==
  /\ CanFail
  /\ pc[t] = "SaveVaa" /\ Verified(t)
  /\ Goto(t, "ClearPending")
  /\ UNCHANGED <<stores, frame, accepted>>

StoreFails(t) ==
  /\ CanFail
  /\ pc[t] = "CheckCompleted" \/ (pc[t] = "SaveVaa" /\ Verified(t))
  /\ Return(t)
  /\ UNCHANGED <<stores, accepted>>

SaveReplyLost(t) ==
  /\ CanFail
  /\ pc[t] = "SaveVaa"
  /\ Verified(t)
  /\ SaveRecord(frame[t].id, Assembled(frame[t].held))
  /\ Return(t)
  /\ UNCHANGED accepted

-----------------------------------------------------------------------------
(* InMemoryGuardianRegistry: upgrade(set) and current().                   *)

Upgrade(t, index, keys) ==
  Start(t, "upgrade", "InsertSet",
        [NoFrame EXCEPT !.index = index, !.keys = keys])

\* A bug: the index is switched before the set is there.
UpgradeCurrentFirst(t) ==
  \/ /\ pc[t] = "InsertSet"
     /\ SetCurrent(frame[t].index)
     /\ Goto(t, "InsertLate")
     /\ UNCHANGED <<frame, accepted>>
  \/ /\ pc[t] = "InsertLate"
     /\ InsertSet(frame[t].index, frame[t].keys)
     /\ Return(t)
     /\ UNCHANGED accepted

UpgradeInsert(t) ==
  /\ pc[t] = "InsertSet"
  /\ InsertSet(frame[t].index, frame[t].keys)
  /\ Goto(t, "SetCurrent")
  /\ UNCHANGED <<frame, accepted>>

UpgradeCurrent(t) ==
  /\ pc[t] = "SetCurrent"
  /\ SetCurrent(frame[t].index)
  /\ Return(t)
  /\ UNCHANGED accepted

Current(t) == Start(t, "current", "ReadCurrent", NoFrame)

\* The read lock is released before the set of that index is looked up.
ReadCurrent(t) ==
  /\ pc[t] = "ReadCurrent"
  /\ Goto(t, "ReadCurrentSet")
  /\ frame' = [frame EXCEPT ![t].index = current]
  /\ UNCHANGED <<stores, accepted>>

ReadCurrentSet(t) ==
  /\ pc[t] = "ReadCurrentSet"
  /\ Return(t)
  /\ UNCHANGED <<stores, accepted>>

-----------------------------------------------------------------------------
(* stats(): list_pending, one entry at a time as DashMap iterates, then    *)
(* count.                                                                  *)

Observed(id) == pending[id] # None \/ vaas[id] # None

Stats(t) ==
  Start(t, "stats", "ListPending",
        [NoFrame EXCEPT !.todo = MessageId,
                        !.known = {m \in MessageId : Observed(m)}])

ListEntry(t, id) ==
  /\ pc[t] = "ListPending"
  /\ id \in frame[t].todo
  /\ Goto(t, IF frame[t].todo = {id} THEN "CountVaas" ELSE "ListPending")
  /\ frame' = [frame EXCEPT
       ![t].todo = @ \ {id},
       ![t].seen = IF pending[id] # None THEN @ \cup {id} ELSE @]
  /\ UNCHANGED <<stores, accepted>>

CountVaas(t) ==
  /\ pc[t] = "CountVaas"
  /\ Return(t)
  /\ UNCHANGED <<stores, accepted>>

-----------------------------------------------------------------------------
\* A call a client may make.
Request(t) ==
  \/ \E id \in MessageId, index \in SetIndex : Observe(t, id, index)
  \/ \E id \in MessageId, sig \in Signatures : Submit(t, id, sig)
  \/ \E index \in SetIndex : \E keys \in KeyLists[index] :
       Upgrade(t, index, keys)
  \/ Current(t)
  \/ Stats(t)

\* The handler's next step in a call it has begun.
Step(t) ==
  \/ CheckCompleted(t) \/ CheckPending(t) \/ ReadSet(t) \/ StorePending(t)
  \/ AnnounceObserved(t)
  \/ LoadPending(t) \/ LoadSet(t) \/ AnnounceSignature(t)
  \/ StoreSignature(t) \/ RejectVaa(t) \/ SaveVaa(t) \/ ClearPending(t)
  \/ AnnounceVaa(t)
  \/ UpgradeInsert(t) \/ UpgradeCurrent(t)
  \/ ReadCurrent(t) \/ ReadCurrentSet(t)
  \/ CountVaas(t) \/ \E id \in MessageId : ListEntry(t, id)

Fault(t) == StoreFails(t) \/ SaveReplyLost(t)

Next == \E t \in Task : Request(t) \/ Step(t) \/ Fault(t)

Spec == Init /\ [][Next]_vars

(* The async runtime keeps polling a handler that can make progress; no    *)
(* client is obliged to call.                                              *)
FairSpec == Spec /\ \A t \in Task : WF_vars(Step(t) \/ Fault(t))

(* Guardians that resubmit their signature until the VAA exists.  Strong   *)
(* fairness: the handlers are now and then busy with other calls.          *)
Resubmits(id, sig) == vaas[id] = None /\ \E t \in Task : Submit(t, id, sig)

RetrySpec ==
  /\ FairSpec
  /\ \A id \in MessageId, sig \in Signatures : SF_vars(Resubmits(id, sig))

-----------------------------------------------------------------------------
(* Safety.                                                                 *)

Idle == \A t \in Task : pc[t] = "idle"

(* Every signature the message store holds was made by a member: each of   *)
(* them recovers to the key its index has in a list installed under the    *)
(* observation's set, and no guardian is counted twice.                    *)
Genuine(observation) ==
  /\ StrictlyAscending(observation.signatures)
  /\ \A i \in 1 .. Len(observation.signatures) :
       \E keys \in KeyLists[observation.guardian_set_index] :
         SignedByMember(observation.signatures[i], keys)

PendingGenuine ==
  \A id \in MessageId : pending[id] # None => Genuine(pending[id])

(* A stored observation is short of its quorum.  One that held a quorum    *)
(* would be stuck: the remaining guardians may be unable to sign, and the  *)
(* others are refused as duplicates, so nobody assembles the VAA.          *)
PendingBelowQuorum ==
  \A id \in MessageId :
    pending[id] # None => ~ quorum_reached(pending[id])

(* What verifiers rely on: a stored VAA passes Vaa::verify under one and   *)
(* the same key list of its guardian set, also when the set was replaced   *)
(* while signatures were being collected and other handlers interfered.    *)
StoredVaaVerified ==
  \A id \in MessageId : vaas[id] # None =>
    \E keys \in KeyLists[vaas[id].guardian_set_index] :
      verify(vaas[id].signatures, keys)

(* As long as no guardian set is replaced in place, the "defensive final   *)
(* verification" (engine.rs) never refuses what the handlers collected,    *)
(* however their copies of the observation were interleaved.               *)
FixedSets == \A i \in SetIndex : \A k1, k2 \in KeyLists[i] : k1 = k2

AssemblyNeverRejected ==
  FixedSets => \A t \in Task : pc[t] = "SaveVaa" => Verified(t)

\* What a message has in either store: the VAA, if there is one.
EntryOf(id) == IF vaas[id] # None THEN vaas[id] ELSE pending[id]

GuardianCount(i) ==
  IF KeyLists[i] = {} THEN 0 ELSE Len(CHOOSE keys \in KeyLists[i] : TRUE)

(* A message has a stored VAA exactly when what is stored of it is signed  *)
(* by more than two thirds of its guardian set.  No stale copy and no      *)
(* resurrected observation completes it earlier or keeps it open at a      *)
(* quorum, as long as its guardian set is not replaced in place.           *)
CompleteAtQuorum ==
  FixedSets => \A id \in MessageId : Observed(id) =>
    LET signers == SignerIndices(EntryOf(id).signatures)
        count == GuardianCount(EntryOf(id).guardian_set_index)
    IN
    /\ signers \subseteq 0 .. count - 1
    /\ vaas[id] # None <=> 3 * Cardinality(signers) > 2 * count

(* Subscribers may fetch the VAA of a VaaAssembled event at once: it is    *)
(* announced only once it is stored, whatever the store answered.          *)
AnnouncedVaaIsStored ==
  \A id \in MessageId :
    [kind |-> "VaaAssembled", id |-> id] \in published => vaas[id] # None

(* current() finds the set of the index it read although upgrade writes    *)
(* set and index separately and the read lock is gone by then.             *)
CurrentSetAvailable ==
  \A t \in Task : pc[t] = "ReadCurrentSet" => sets[frame[t].index] # None

(* stats() reads two stores one after the other while messages move from   *)
(* one to the other: each message observed before the call is counted as   *)
(* pending, or as completed, or as both, never as neither.                 *)
StatsNeverMissesAMessage ==
  \A t \in Task : pc[t] = "CountVaas" =>
    frame[t].known \subseteq
      frame[t].seen \cup {id \in MessageId : vaas[id] # None}

(* A handler that answered Collected ("Signature accepted", engine.rs) has *)
(* put the signature on record: while the message waits for more of them,  *)
(* its observation holds every acknowledged one.                           *)
AcceptedSignatureKept ==
  \A entry \in accepted :
    LET id == entry[1] IN
    \/ vaas[id] # None
    \/ pending[id] # None /\ has_guardian(pending[id].signatures, entry[2])

(* "When quorum is reached the VAA is assembled, verified, stored, and the *)
(* pending observation is cleared" (engine.rs): once all handlers are done *)
(* no message is both completed and pending.                               *)
CompletedNotPending ==
  Idle => \A id \in MessageId : vaas[id] = None \/ pending[id] = None

-----------------------------------------------------------------------------
(* What a step may never do.                                               *)

(* A message once observed never disappears: it is pending until its VAA   *)
(* is stored, and no step leaves it in neither store.                      *)
ObservedNeverLost ==
  [][\A id \in MessageId : Observed(id) => Observed(id)']_vars

(* Two handlers may both assemble a message, and the later save replaces a *)
(* VAA that clients may have read.  The two are different lists, but as    *)
(* long as no guardian set is replaced, more than a third of the set has   *)
(* signed both.                                                            *)
CommonSigners(record1, record2) ==
  SignerIndices(record1.signatures) \cap SignerIndices(record2.signatures)

ReplacedVaaOverlaps ==
  [][FixedSets => \A id \in MessageId :
       LET i == vaas[id].guardian_set_index IN
       vaas[id] # None /\ vaas'[id].guardian_set_index = i =>
         3 * Cardinality(CommonSigners(vaas[id], vaas'[id])) > GuardianCount(i)]_vars

(* "If the message was already observed the existing id is returned        *)
(* idempotently" (engine.rs): observing a message that is pending does not *)
(* touch its observation.                                                  *)
ObserveIsIdempotent ==
  [][\A t \in Task : StorePending(t) => pending[frame[t].id] = None]_vars

-----------------------------------------------------------------------------
(* Liveness.                                                               *)

(* Guardians that keep resubmitting get their VAA, in spite of forged      *)
(* signatures, lost updates and repeated observations (RetrySpec).         *)
EventuallyAssembled ==
  \A id \in MessageId : pending[id] # None ~> vaas[id] # None

(* A handler that collected a quorum stores a VAA: its call does not end   *)
(* in an error (FairSpec).                                                 *)
QuorumIsStored ==
  \A id \in MessageId :
    (\E t \in Task : pc[t] = "SaveVaa" /\ frame[t].id = id) ~> vaas[id] # None

(* Subscribers hear of every stored VAA (FairSpec).                        *)
StoredVaaIsAnnounced ==
  \A id \in MessageId :
    vaas[id] # None ~> [kind |-> "VaaAssembled", id |-> id] \in published
=============================================================================

--------------------------- MODULE AggregatorInv ---------------------------
(***************************************************************************)
(* The inductive invariant from which the safety properties of Aggregator  *)
(* are proved in AggregatorProofs.  It says of every handler, between any  *)
(* two of its port calls, what its local variables are worth: a copy taken *)
(* from a store may be stale, but it is never wrong.                       *)
(***************************************************************************)
EXTENDS Aggregator

\* The guardian count taken when the message was observed is still right.
Counted(observation) ==
  FixedSets => \A keys \in KeyLists[observation.guardian_set_index] :
                  observation.guardian_count = Len(keys)

StoresInv ==
  /\ \A id \in MessageId : pending[id] # None =>
       /\ Genuine(pending[id])
       /\ Counted(pending[id])
       /\ ~ quorum_reached(pending[id])
  /\ \A i \in SetIndex : sets[i] # None => sets[i] \in KeyLists[i]
  /\ sets[current] # None

ObserveInv(t) ==
  /\ pc[t] \in ObserveSteps =>
       frame[t].id \in MessageId /\ frame[t].index \in SetIndex
  /\ pc[t] = "StorePending" => frame[t].keys \in KeyLists[frame[t].index]

SubmitInv(t) ==
  /\ pc[t] \in SubmitSteps =>
       frame[t].id \in MessageId /\ frame[t].sig \in Signatures
  /\ pc[t] \in SubmitSteps \ {"LoadPending"} =>
       /\ frame[t].held \in PendingObservation
       /\ Genuine(frame[t].held)
       /\ Counted(frame[t].held)
  /\ pc[t] \in SubmitSteps \ {"LoadPending", "LoadSet"} =>
       frame[t].keys \in KeyLists[frame[t].held.guardian_set_index]
  /\ pc[t] = "StoreSignature" => ~ quorum_reached(frame[t].held)
  /\ pc[t] = "SaveVaa" => quorum_reached(frame[t].held)
  /\ pc[t] \in {"ClearPending", "AnnounceVaa"} => vaas[frame[t].id] # None

RegistryInv(t) ==
  /\ pc[t] \in UpgradeSteps =>
       frame[t].index \in SetIndex /\ frame[t].keys \in KeyLists[frame[t].index]
  /\ pc[t] \in {"SetCurrent", "ReadCurrentSet"} =>
       frame[t].index \in SetIndex /\ sets[frame[t].index] # None

StatsInv(t) ==
  /\ pc[t] \in {"ListPending", "CountVaas"} =>
       \A id \in frame[t].known :
         \/ id \in frame[t].seen
         \/ vaas[id] # None
         \/ id \in frame[t].todo /\ pending[id] # None
  /\ pc[t] = "CountVaas" => frame[t].todo = {}

HandlerInv(t) ==
  ObserveInv(t) /\ SubmitInv(t) /\ RegistryInv(t) /\ StatsInv(t)

StoresGood ==
  /\ StoresTypeOK
  /\ StoresInv
  /\ StoredVaaVerified
  /\ AnnouncedVaaIsStored

(* No store and no handler ever holds anything but genuine signatures,     *)
(* correctly counted sets and verified VAAs.                               *)
IInv ==
  /\ TypeOK
  /\ StoresGood
  /\ \A t \in Task : HandlerInv(t)
=============================================================================

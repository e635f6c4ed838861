------------------------------- MODULE Stores -------------------------------
(***************************************************************************)
(* The driven adapters of crates/wormverify-infra behind the ports of      *)
(* crates/wormverify-core: the pending-observation store, the store of     *)
(* completed VAAs, the guardian registry and the event sink.  Every        *)
(* operation below is one port call, atomic on its own (one DashMap or     *)
(* broadcast operation); nothing is atomic across two of them.             *)
(*                                                                         *)
(* A message id is the digest of a body, so the body is not kept beside    *)
(* it.  Timestamps are left out: nothing in the engine reads them back.    *)
(***************************************************************************)
EXTENDS Vaa, FiniteSets

CONSTANTS
  MessageId,    \* digests of observable bodies
  SetIndex,     \* guardian set indices in use
  Address,      \* guardian addresses, members or not
  KeyLists,     \* KeyLists[i]: the key lists an upgrade may install at i
  None,         \* an absent entry (Option::None)
  VaaAdapter    \* the VaaStore behind the engine, one of VaaAdapters

(* InMemoryVaaStore, whose calls always succeed; PgVaaStore on the table   *)
(* of migrations/0001_init.sql, whose only unique key is (id,              *)
(* emitter_chain), so that every INSERT with ON CONFLICT (id) is an error; *)
(* and all that the VaaStore port (ports.rs) lets an adapter do, any call  *)
(* of which may return an EngineError, a save also after it was carried    *)
(* out.                                                                    *)
VaaAdapters == {"memory", "postgres", "unreliable"}

KeyList == Seq(Address)

GuardianSignature == [guardian_index : Nat, signer : Address \cup {None}]

\* PendingObservation, its ObservedMessage reduced to the guardian set index.
PendingObservation ==
  [guardian_set_index : SetIndex,
   signatures : Seq(GuardianSignature),
   guardian_count : Nat]

\* VaaRecord, reduced to what identifies the assembled VAA of a message.
VaaRecord == [guardian_set_index : SetIndex, signatures : Seq(GuardianSignature)]

DomainEvent ==
  [kind : {"MessageObserved", "VaaAssembled"}, id : MessageId]
    \cup
  [kind : {"SignatureCollected"}, id : MessageId,
   guardian_index : Nat]

ASSUME KeyListsAssumption == KeyLists \in [SetIndex -> SUBSET KeyList]
ASSUME NoneAssumption ==
  /\ None \notin MessageId \cup SetIndex \cup Address
  /\ None \notin KeyList \cup GuardianSignature
  /\ None \notin PendingObservation \cup VaaRecord
ASSUME AdapterAssumption == VaaAdapter \in VaaAdapters

VARIABLES
  pending,      \* InMemoryMessageStore.pending
  vaas,         \* the VaaStore's records
  sets,         \* InMemoryGuardianRegistry.sets
  current,      \* InMemoryGuardianRegistry.current
  published     \* the events handed to the event sink so far

stores == <<pending, vaas, sets, current, published>>

StoresTypeOK ==
  /\ pending \in [MessageId -> PendingObservation \cup {None}]
  /\ vaas \in [MessageId -> VaaRecord \cup {None}]
  /\ sets \in [SetIndex -> KeyList \cup {None}]
  /\ current \in SetIndex
  /\ published \in SUBSET DomainEvent

(* Empty stores and a registry seeded with one set, which is the active    *)
(* one (InMemoryGuardianRegistry::new).                                    *)
StoresInit ==
  /\ pending = [m \in MessageId |-> None]
  /\ vaas = [m \in MessageId |-> None]
  /\ published = {}
  /\ current \in SetIndex
  /\ \E keys \in KeyLists[current] :
       sets = [i \in SetIndex |-> IF i = current THEN keys ELSE None]

UpsertPending(id, observation) ==
  /\ pending' = [pending EXCEPT ![id] = observation]
  /\ UNCHANGED <<vaas, sets, current, published>>

RemovePending(id) ==
  /\ pending' = [pending EXCEPT ![id] = None]
  /\ UNCHANGED <<vaas, sets, current, published>>

\* Whether the adapter's save has a successful outcome at all.
CanSave == VaaAdapter # "postgres"

\* A successful save: the record replaces the one the id may have.
SaveRecord(id, record) ==
  /\ CanSave
  /\ vaas' = [vaas EXCEPT ![id] = record]
  /\ UNCHANGED <<pending, sets, current, published>>

\* The two writes of InMemoryGuardianRegistry::upgrade.
InsertSet(index, keys) ==
  /\ sets' = [sets EXCEPT ![index] = keys]
  /\ UNCHANGED <<pending, vaas, current, published>>

SetCurrent(index) ==
  /\ current' = index
  /\ UNCHANGED <<pending, vaas, sets, published>>

(* BroadcastEventSink::publish, which never fails its caller.  The counts  *)
(* a SignatureCollected carries are left out.                              *)
Publish(event) ==
  /\ published' = published \cup {event}
  /\ UNCHANGED <<pending, vaas, sets, current>>
=============================================================================

------------------------------- MODULE Service -------------------------------
(***************************************************************************)
(* The node as its clients see it: the aggregation engine behind the       *)
(* GraphQL mutations (crates/wormverify-api/src/schema.rs), the simulated  *)
(* guardians that sign for them, the registry seeded with their set        *)
(* (startup.rs), and subscriptions fed by the broadcast channel of the     *)
(* event sink.                                                             *)
(*                                                                         *)
(* tokio's channel is one ring of the last capacity events with a position *)
(* per receiver; here each receiver has the unread part of that ring.  A   *)
(* mutation the rate limiter refuses ends before it touches anything, so   *)
(* it is no step.                                                          *)
(***************************************************************************)
EXTENDS AttestationRefinement

CONSTANTS
  Subscriber,
  Followed,          \* the message whose progress each subscriber follows
  capacity,          \* of the broadcast channel
  simulated_index,   \* SimulatedGuardians.index
  secret_keys        \* SimulatedGuardians: the address each key signs for

\* derive: 1 to 254 guardians, keys from distinct seeds.
derive ==
  /\ secret_keys \in Seq(Address)
  /\ Len(secret_keys) \in 1 .. 254
  /\ IsInjective(secret_keys)

\* guardian_set, from which startup builds the registry.
guardian_set == secret_keys

ASSUME ServiceAssumption ==
  /\ capacity \in Nat \ {0}
  /\ Followed \in [Subscriber -> MessageId]
  /\ derive
  /\ simulated_index \in SetIndex
  /\ KeyLists[simulated_index] = {guardian_set}

VARIABLES
  unread,     \* the events each receiver has not read; None: not subscribed
  missed,     \* history: receivers that lagged behind the ring
  late,       \* history: subscribed when their message was already observed
  view        \* what a client makes of the events it has received

channel == <<unread, missed>>
client == <<late, view>>
service == <<vars, contended, channel, client>>

GqlEvent ==
  [kind : {"MESSAGE_OBSERVED", "VAA_ASSEMBLED"}, message_id : MessageId]
    \cup
  [kind : {"SIGNATURE_COLLECTED"}, message_id : MessageId,
   guardian_index : Nat, have : Nat, needed : Nat]

ASSUME ReceiverAssumption == None \notin Seq(GqlEvent)

ServiceTypeOK ==
  /\ TypeOK
  /\ unread \in [Subscriber -> Seq(GqlEvent) \cup {None}]
  /\ \A s \in Subscriber : unread[s] # None => Len(unread[s]) <= capacity
  /\ missed \in SUBSET Subscriber
  /\ late \in SUBSET Subscriber
  /\ view \in [Subscriber ->
                [status : {"unknown", "collecting", "complete"}, have : Nat]]

\* build_state.
ServiceInit ==
  /\ OverlapInit
  /\ current = simulated_index
  /\ sets[current] = guardian_set
  /\ unread = [s \in Subscriber |-> None]
  /\ missed = {}
  /\ late = {}
  /\ view = [s \in Subscriber |-> [status |-> "unknown", have |-> 0]]

-----------------------------------------------------------------------------
(* The broadcast channel.                                                  *)

Subscribed == {s \in Subscriber : unread[s] # None}

\* A bug: a full ring grows.
keep_all(events) == events

\* A full ring overwrites its oldest event.
keep_latest(events) == SubSeq(events, Len(events) - capacity + 1, Len(events))

Lagging(s) == Len(unread[s]) = capacity

\* publish: every receiver gets the event, however slow it is.
Send(event) ==
  /\ unread' = [s \in Subscriber |->
       IF s \notin Subscribed THEN None
       ELSE IF Lagging(s) THEN keep_latest(Append(unread[s], event))
       ELSE Append(unread[s], event)]
  /\ missed' = missed \cup {s \in Subscribed : Lagging(s)}
  /\ UNCHANGED client

\* SubscriptionRoot::events.
Subscribe(s) ==
  /\ unread[s] = None
  /\ unread' = [unread EXCEPT ![s] = <<>>]
  /\ late' = IF Observed(Followed[s]) THEN late \cup {s} ELSE late
  /\ UNCHANGED <<vars, contended, missed, view>>

\* What a client makes of an event about the message it follows.
Follow(seen, event) ==
  CASE event.kind = "MESSAGE_OBSERVED" -> [status |-> "collecting", have |-> 0]
    [] event.kind = "SIGNATURE_COLLECTED" -> [seen EXCEPT !.have = event.have]
    [] event.kind = "VAA_ASSEMBLED" -> [seen EXCEPT !.status = "complete"]

(* The stream yields the oldest event there is; that others were lost      *)
(* before it is an error which events() filters out.                       *)
NextEvent(s) ==
  /\ s \in Subscribed
  /\ unread[s] # <<>>
  /\ unread' = [unread EXCEPT ![s] = Tail(@)]
  /\ LET event == Head(unread[s]) IN
     view' = IF event.message_id = Followed[s]
             THEN [view EXCEPT ![s] = Follow(@, event)] ELSE view
  /\ UNCHANGED <<vars, contended, missed, late>>

-----------------------------------------------------------------------------
(* The mutations.                                                          *)

\* SimulatedGuardians::sign; None for an index that is out of range.
sign(guardian_index) ==
  IF guardian_index < Len(secret_keys)
  THEN [guardian_index |-> guardian_index,
        signer |-> secret_keys[guardian_index + 1]]
  ELSE None

\* Genuine signatures are among those the engine may be given.
ASSUME GenuineOffered ==
  \A g \in 0 .. Len(secret_keys) - 1 : sign(g) \in Signatures

submit_observation(t, id, index) == Observe(t, id, index)

sign_as_guardian(t, id, guardian_index) ==
  /\ sign(guardian_index) # None
  /\ Submit(t, id, sign(guardian_index))

\* The other callers of the engine and the registry, whose signatures may be
\* forged: no mutation leads here, but both are public.
DirectCall(t) ==
  \/ \E id \in MessageId, sig \in Signatures : Submit(t, id, sig)
  \/ \E index \in SetIndex : \E keys \in KeyLists[index] : Upgrade(t, index, keys)

Mutation(t) ==
  \/ \E id \in MessageId, index \in SetIndex : submit_observation(t, id, index)
  \/ \E id \in MessageId, g \in 0 .. Len(secret_keys) : sign_as_guardian(t, id, g)

Call(t) ==
  /\ Mutation(t) \/ DirectCall(t)
  /\ Watch
  /\ UNCHANGED <<channel, client>>

-----------------------------------------------------------------------------
(* The handlers' steps, with the events they send, as GqlEvent::from     *)
(* renders them.                                                           *)

AnnouncingSteps == {"AnnounceObserved", "AnnounceSignature", "AnnounceVaa"}

QuietStep(t) ==
  /\ pc[t] \notin AnnouncingSteps
  /\ Step(t)
  /\ UNCHANGED <<channel, client>>

ObservedStep(t) ==
  /\ AnnounceObserved(t)
  /\ Send([kind |-> "MESSAGE_OBSERVED", message_id |-> frame[t].id])

\* A bug: the event carries the count it should have reached.
SignatureStepNeeded(t) ==
  LET held == frame[t].held IN
  /\ AnnounceSignature(t)
  /\ Send([kind |-> "SIGNATURE_COLLECTED", message_id |-> frame[t].id,
           guardian_index |-> frame[t].sig.guardian_index,
           have |-> quorum(held.guardian_count),
           needed |-> quorum(held.guardian_count)])

SignatureStep(t) ==
  LET held == frame[t].held IN
  /\ AnnounceSignature(t)
  /\ Send([kind |-> "SIGNATURE_COLLECTED", message_id |-> frame[t].id,
           guardian_index |-> frame[t].sig.guardian_index,
           have |-> Len(held.signatures), needed |-> quorum(held.guardian_count)])

AssembledStep(t) ==
  /\ AnnounceVaa(t)
  /\ Send([kind |-> "VAA_ASSEMBLED", message_id |-> frame[t].id])

Handle(t) ==
  /\ QuietStep(t) \/ ObservedStep(t) \/ SignatureStep(t) \/ AssembledStep(t)
  /\ UNCHANGED contended

ServiceNext ==
  \/ \E t \in Task : Call(t) \/ Handle(t)
  \/ \E s \in Subscriber : Subscribe(s) \/ NextEvent(s)

(* The runtime polls handlers that can proceed; a client that subscribed   *)
(* keeps reading.                                                          *)
ServiceSpec ==
  /\ ServiceInit /\ [][ServiceNext]_service
  /\ \A t \in Task : WF_service(Handle(t))
  /\ \A s \in Subscriber : WF_service(NextEvent(s))

-----------------------------------------------------------------------------
(* The answers of sign_as_guardian: submit_result.                         *)

\* Ok(Collected), the last step being StoreSignature.
CollectedResult(observation) ==
  [assembled |-> FALSE, have |-> Len(observation.signatures),
   needed |-> quorum(observation.guardian_count)]

\* A bug: the signature that completes the VAA is not counted.
AssembledResultOneShort(vaa) ==
  [assembled |-> TRUE, have |-> Len(vaa.signatures),
   needed |-> Len(vaa.signatures) - 1]

\* Ok(Assembled), the last step being AnnounceVaa: both counts are the VAA's.
AssembledResult(vaa) ==
  [assembled |-> TRUE, have |-> Len(vaa.signatures), needed |-> Len(vaa.signatures)]

(* What the counts of an answer say of the guardian set under which the    *)
(* handler's copy of the message was observed.                             *)
TrueCounts(observation, result) ==
  /\ result.assembled <=> result.have >= result.needed
  /\ result.needed = quorum(GuardianCount(observation.guardian_set_index))

(* The counts a mutation answers are those of a guardian set of fixed      *)
(* size, whatever other handlers did to the message meanwhile: it says     *)
(* assembled exactly when it has what it needs, and what it needs is the   *)
(* quorum, although submit_result takes the length of the VAA's signature  *)
(* list for it.                                                            *)
ReplyCountsTrue ==
  [][FixedSets => \A t \in Task :
       LET held == frame[t].held IN
       /\ StoreSignature(t) => TrueCounts(held, CollectedResult(held))
       /\ AnnounceVaa(t) => TrueCounts(held, AssembledResult(held))]_service

(* The event stream is enough to follow a message: a client that has read  *)
(* all events and lost none knows the status of a message observed since   *)
(* it subscribed, and how many signatures it has, whenever no call for the *)
(* message is under way.  One that lagged may be wrong for ever, and is    *)
(* not told so; so may be one whose message handlers met over, since they  *)
(* publish in no particular order.                                         *)
CaughtUpViewIsExact ==
  \A s \in Subscribed \ (missed \cup late) :
    LET id == Followed[s] IN
    unread[s] = <<>> /\ id \in Uncontended /\ Quiet(id) =>
      /\ view[s].status = StatusOf(id)
      /\ Observed(id) => view[s].have = Len(EntryOf(id).signatures)

(* A subscriber that never falls a whole ring behind hears of the VAA of   *)
(* its message when it is stored after it subscribed (ServiceSpec).  Only  *)
(* the late announcement of a second observation can hide it.              *)
SubscribersHear ==
  \A s \in Subscriber :
    s \in Subscribed \ late /\ vaas[Followed[s]] # None
      ~> \/ s \in missed
         \/ view[s].status = "complete"
         \/ Followed[s] \in contended
=============================================================================

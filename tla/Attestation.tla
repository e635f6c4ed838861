---------------------------- MODULE Attestation ----------------------------
(***************************************************************************)
(* What the aggregation engine promises for every message, with no stores, *)
(* handlers or signatures in sight: a message is observed under a guardian *)
(* set, gathers the signatures of distinct members of that set, none of    *)
(* them ever forgotten, and is complete from the signature that makes them *)
(* a quorum onwards; then it is announced and nothing changes any more.    *)
(*                                                                         *)
(* A message that two calls disturbed is promised less: it may lose what   *)
(* it gathered or start anew, but it is complete exactly at a quorum and   *)
(* never goes back from complete, and no other message is affected.        *)
(***************************************************************************)
EXTENDS Naturals, FiniteSets

CONSTANTS
  MessageId,
  SetIndex,
  None,
  Guardians     \* Guardians[i]: the number of guardians in set i

VARIABLES
  status,       \* "unknown", "collecting" or "complete"
  set,          \* the guardian set the message was observed under
  signers,      \* the guardians whose signatures it has
  announced,    \* the messages announced as complete
  disturbed     \* the messages over which calls have met

promise == <<status, set, signers, announced, disturbed>>

Supermajority(n) == (2 * n) \div 3 + 1

TypeOK ==
  /\ status \in [MessageId -> {"unknown", "collecting", "complete"}]
  /\ set \in [MessageId -> SetIndex \cup {None}]
  /\ signers \in [MessageId -> SUBSET Nat]
  /\ announced \in SUBSET MessageId
  /\ disturbed \in SUBSET MessageId

Init ==
  /\ status = [m \in MessageId |-> "unknown"]
  /\ set = [m \in MessageId |-> None]
  /\ signers = [m \in MessageId |-> {}]
  /\ announced = {}
  /\ disturbed = {}

Observe(m, i) ==
  /\ status[m] = "unknown"
  /\ status' = [status EXCEPT ![m] = "collecting"]
  /\ set' = [set EXCEPT ![m] = i]
  /\ UNCHANGED <<signers, announced, disturbed>>

\* The status that this many signers of set i give a message.
StatusAt(members, i) ==
  IF Cardinality(members) >= Supermajority(Guardians[i])
  THEN "complete" ELSE "collecting"

Sign(m, g) ==
  /\ status[m] = "collecting"
  /\ g \notin signers[m]
  /\ signers' = [signers EXCEPT ![m] = @ \cup {g}]
  /\ status' = [status EXCEPT ![m] = StatusAt(signers'[m], set[m])]
  /\ UNCHANGED <<set, announced, disturbed>>

Announce(m) ==
  /\ status[m] = "complete"
  /\ announced' = announced \cup {m}
  /\ UNCHANGED <<status, set, signers, disturbed>>

\* Two calls meet over the message.
Disturb(m) ==
  /\ disturbed' = disturbed \cup {m}
  /\ UNCHANGED <<status, set, signers, announced>>

\* They overwrite each other's work with what they have themselves.
Interfere(m, i, members) ==
  /\ m \in disturbed
  /\ status[m] = "complete" => StatusAt(members, i) = "complete"
  /\ status' = [status EXCEPT ![m] = StatusAt(members, i)]
  /\ set' = [set EXCEPT ![m] = i]
  /\ signers' = [signers EXCEPT ![m] = members]
  /\ UNCHANGED <<announced, disturbed>>

Next ==
  \E m \in MessageId :
    \/ \E i \in SetIndex : Observe(m, i)
    \/ status[m] = "collecting" /\ \E g \in 0 .. Guardians[set[m]] - 1 : Sign(m, g)
    \/ Announce(m)
    \/ Disturb(m)
    \/ \E i \in SetIndex : \E members \in SUBSET (0 .. Guardians[i] - 1) :
         Interfere(m, i, members)

Spec == Init /\ [][Next]_promise
=============================================================================

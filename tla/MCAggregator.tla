---------------------------- MODULE MCAggregator ----------------------------
(***************************************************************************)
(* Small instances of Aggregator for TLC.  Set 0 has four guardians, of    *)
(* which three are a quorum, or three, all needed; set 1 has two, both     *)
(* needed; set 2 is never installed.  Every guardian's genuine signature   *)
(* may be submitted, and one forged one.                                   *)
(***************************************************************************)
EXTENDS AggregatorInv

CONSTANTS a, b, c, d, e    \* guardian addresses

Members == <<a, b, c, d>>
Pair == <<a, e>>
Trio == <<a, b, c>>

Fixed == [i \in SetIndex |->
  CASE i = 0 -> {Members} [] i = 1 -> {Pair} [] OTHER -> {}]

Small == [i \in SetIndex |-> IF i = 0 THEN {Trio} ELSE {}]

Replaceable == [i \in SetIndex |->
  CASE i = 0 -> {<<a, b>>, <<c, d>>} [] i = 1 -> {Pair} [] OTHER -> {}]

Sig(g, address) == [guardian_index |-> g, signer |-> address]

\* One genuine signature of each member of set 0, and a forged one.
MemberSignatures ==
  {Sig(0, a), Sig(1, b), Sig(2, c), Sig(3, d), Sig(3, None)}

\* One genuine signature of each member of Trio, and a forged one.
TrioSignatures == {Sig(0, a), Sig(1, b), Sig(2, c), Sig(2, None)}

(* Signatures of both candidate lists of set 0, which no list makes valid  *)
(* together, of set 1, and one out of range.                               *)
MixedSignatures == {Sig(0, a), Sig(1, b), Sig(1, d), Sig(1, e), Sig(2, d)}

(* The state that one observe call for every message leaves behind: each   *)
(* is observed under the active set, announced, and without a signature.   *)
ObservedInit ==
  /\ current \in SetIndex
  /\ \E keys \in KeyLists[current] :
       /\ sets = [i \in SetIndex |-> IF i = current THEN keys ELSE None]
       /\ pending = [m \in MessageId |-> NewObservation(current, keys)]
  /\ vaas = [m \in MessageId |-> None]
  /\ published = [kind : {"MessageObserved"}, id : MessageId]
  /\ pc = [t \in Task |-> "idle"]
  /\ frame = [t \in Task |-> NoFrame]
  /\ accepted = {}

ObservedSpec == ObservedInit /\ [][Next]_vars

TaskSymmetry == Permutations(Task)
=============================================================================

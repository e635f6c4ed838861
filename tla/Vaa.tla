-------------------------------- MODULE Vaa --------------------------------
(***************************************************************************)
(* The signature rules of crates/wormverify-types: the supermajority, the  *)
(* quorum check Vaa::verify runs over the signature list, and the sorted   *)
(* insertion PendingObservation uses to build that list.                   *)
(*                                                                         *)
(* A signature is a record with two fields: guardian_index (zero based, as *)
(* on the wire) and signer, the address that recover_guardian yields for   *)
(* the digest at hand.  A signature that cannot be recovered has a signer  *)
(* that is in no guardian set.  keys is a guardian set's key list; the key *)
(* of guardian g is keys[g + 1].                                           *)
(***************************************************************************)
EXTENDS Naturals, Sequences, SequencesExt

\* A bug: two thirds, rounded down.
quorum_rounded_down(num_guardians) == (num_guardians * 2) \div 3

\* guardian.rs, quorum: floor(2/3 N) + 1 in integer arithmetic.
quorum(num_guardians) == (num_guardians * 2) \div 3 + 1

\* The index is inside the set and the recovered address is the key there.
SignedByMember(sig, keys) ==
  /\ sig.guardian_index < Len(keys)
  /\ keys[sig.guardian_index + 1] = sig.signer

\* The loop of verify compares each index with its predecessor's.
StrictlyAscending(sigs) ==
  \A i \in 1 .. Len(sigs) - 1 :
     sigs[i].guardian_index < sigs[i + 1].guardian_index

(* Vaa::verify: which of its errors is returned depends on the order of    *)
(* the checks, whether it returns Ok does not.                             *)
verify(sigs, keys) ==
  /\ keys # <<>>
  /\ StrictlyAscending(sigs)
  /\ \A i \in 1 .. Len(sigs) : SignedByMember(sigs[i], keys)
  /\ Len(sigs) >= quorum(Len(keys))

has_guardian(sigs, index) ==
  \E i \in 1 .. Len(sigs) : sigs[i].guardian_index = index

(* binary_search_by_key on a sorted list without the key: how many of the  *)
(* entries come before it.                                                 *)
SearchPosition(sigs, index) ==
  CHOOSE p \in 0 .. Len(sigs) :
     \A i \in 1 .. Len(sigs) : i <= p <=> sigs[i].guardian_index < index

\* A bug: the signature goes to the end of the list.
insert_last(sigs, sig) == Append(sigs, sig)

insert_sorted(sigs, sig) ==
  InsertAt(sigs, SearchPosition(sigs, sig.guardian_index) + 1, sig)

\* The guardians a signature list names.
SignerIndices(sigs) == {sigs[i].guardian_index : i \in 1 .. Len(sigs)}
=============================================================================

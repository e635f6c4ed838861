---------------------------- MODULE MCWireFormat ----------------------------
(***************************************************************************)
(* Small widths for WireFormat: bytes of four values, an index and a       *)
(* sequence of two bytes, signatures of one, payloads of at most two.      *)
(***************************************************************************)
EXTENDS WireFormat

MCFieldLen ==
  [f \in Field |-> IF f \in {"emitter_chain", "emitter_address", "sequence"} THEN 2 ELSE 1]

\* In order, out of order, repeated, and one more than a byte counts.
Signers == {<<>>, <<2>>, <<0, 3>>, <<1, 0>>, <<2, 2>>, <<0, 1, 3>>, <<0, 1, 2, 3>>}

SignedBy(signers) ==
  [i \in 1 .. Len(signers) |->
     [guardian_index |-> signers[i], rs |-> <<3 - signers[i]>>, recovery_id |-> signers[i] % 2]]

Headers ==
  {[timestamp |-> 1, nonce |-> 0, emitter_chain |-> 6, emitter_address |-> <<3, 1>>,
    sequence |-> s, consistency_level |-> 2] : s \in {1, 11}}

Payloads == {<<>>, <<1>>, <<0, 3>>, <<2, 0, 1>>}

MCVaas ==
  {[version |-> v, guardian_set_index |-> 7, signatures |-> SignedBy(s),
    body |-> [header |-> h, payload |-> p]] :
     v \in {1, 2}, s \in Signers, h \in Headers, p \in Payloads}
=============================================================================

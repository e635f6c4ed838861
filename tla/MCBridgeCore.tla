---------------------------- MODULE MCBridgeCore ----------------------------
(***************************************************************************)
(* Small instances of BridgeCore: sets of one and two guardians (and the   *)
(* empty and the oversized one, which are refused), VAAs signed by one     *)
(* guardian, by two, by one counted twice, or in the wrong order.          *)
(***************************************************************************)
EXTENDS BridgeCore

CONSTANTS a, b    \* guardian addresses

Lists == {<<>>, <<a>>, <<a, b>>, <<a, b, a>>}

By(g, address) == [guardian_index |-> g, signer |-> address]

Signed == {<<By(0, a)>>, <<By(0, a), By(1, b)>>, <<By(0, a), By(0, a)>>,
           <<By(1, b), By(0, a)>>}

TwoGuardianLists == {<<a>>, <<a, b>>}
=============================================================================

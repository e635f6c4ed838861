----------------------- MODULE AttestationRefinement -----------------------
(***************************************************************************)
(* The stores of Aggregator read as the state of Attestation.  A completed *)
(* VAA takes precedence over a pending observation of the same message,    *)
(* which the handler is about to remove; the messages over which handlers  *)
(* met are the disturbed ones.                                             *)
(***************************************************************************)
EXTENDS Overlap

StatusOf(id) ==
  IF vaas[id] # None THEN "complete"
  ELSE IF pending[id] # None THEN "collecting" ELSE "unknown"

SetOf(id) == IF Observed(id) THEN EntryOf(id).guardian_set_index ELSE None

SignersOf(id) ==
  IF Observed(id) THEN SignerIndices(EntryOf(id).signatures) ELSE {}

Announced == {id \in MessageId : [kind |-> "VaaAssembled", id |-> id] \in published}

Promise == INSTANCE Attestation WITH
  Guardians <- [i \in SetIndex |-> GuardianCount(i)],
  status <- [id \in MessageId |-> StatusOf(id)],
  set <- [id \in MessageId |-> SetOf(id)],
  signers <- [id \in MessageId |-> SignersOf(id)],
  announced <- Announced,
  disturbed <- contended

(* However handlers interleave, every step of the engine is one of         *)
(* Attestation: observing twice, resubmitting, forged and out-of-range     *)
(* signatures are stuttering steps, a message completes at its quorum, and *)
(* only a message over which handlers met may lose what it had gathered.   *)
ImplementsAttestation == Promise!Spec
=============================================================================

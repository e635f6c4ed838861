-------------------------------- MODULE Overlap --------------------------------
(***************************************************************************)
(* Nothing stops two handlers from working on one message, and some of     *)
(* the engine's promises do not survive it.  This module adds to           *)
(* Aggregator the history that tells when it happened, in order to say     *)
(* what does survive: the damage stays with the message the handlers met   *)
(* over, and every other message keeps all its promises, however many      *)
(* handlers interleave around it.                                          *)
(***************************************************************************)
EXTENDS AggregatorInv

VARIABLE contended  \* history: messages two calls were under way for at once

AtWork(t, id) == pc[t] \in ObserveSteps \cup SubmitSteps /\ frame[t].id = id

MetOver(id) == \E t, u \in Task : t # u /\ AtWork(t, id) /\ AtWork(u, id)

Watch == contended' = contended \cup {id \in MessageId : MetOver(id)'}

OverlapInit == Init /\ contended = {}

\* Only a new call can meet another one.
OverlapNext ==
  \E t \in Task :
    \/ Request(t) /\ Watch
    \/ (Step(t) \/ Fault(t)) /\ UNCHANGED contended

OverlapSpec == OverlapInit /\ [][OverlapNext]_<<vars, contended>>

Uncontended == MessageId \ contended

\* No observe or submit call for this message is under way.
Quiet(id) == \A t \in Task : ~ AtWork(t, id)

-----------------------------------------------------------------------------
(* A handler that answered Collected ("Signature accepted", engine.rs) has *)
(* put the signature on record: a message over which no two calls ever met *)
(* keeps every acknowledged signature until it is completed, whatever      *)
(* handlers do to other messages at the same time.                         *)
KeptFor(id) ==
  \A entry \in accepted : entry[1] = id =>
    \/ vaas[id] # None
    \/ pending[id] # None /\ has_guardian(pending[id].signatures, entry[2])

UncontendedSignatureKept == \A id \in Uncontended : KeptFor(id)

(* "When quorum is reached the VAA is assembled, verified, stored, and the *)
(* pending observation is cleared" (engine.rs): once the calls for such a  *)
(* message are over it is not both completed and pending, although other   *)
(* handlers may be in the middle of theirs.                                *)
UncontendedIsCleared ==
  \A id \in Uncontended :
    Quiet(id) => vaas[id] = None \/ pending[id] = None
=============================================================================

----------------------------- MODULE MCService -----------------------------
(***************************************************************************)
(* A small instance of Service: two simulated guardians, both needed, and  *)
(* the signatures they make.  The subscriber follows one message, but its  *)
(* part of the channel holds the events of all.  Two handlers serve        *)
(* different messages or meet over one of them; when one of two that met   *)
(* is done, the behaviour is not followed any further, since what follows  *)
(* has two handlers again of which neither knows of the meeting.           *)
(***************************************************************************)
EXTENDS Service

CONSTANTS a, b    \* guardian addresses

Simulated == <<a, b>>

Sets == [i \in SetIndex |-> IF i = 0 THEN {Simulated} ELSE {}]

Sig(g, address) == [guardian_index |-> g, signer |-> address]

Offered == {Sig(0, a), Sig(1, b)}

Follows == [s \in Subscriber |-> CHOOSE id \in MessageId : TRUE]

\* The bound on contended messages: only while the calls that met last.
StillMeeting == \A id \in contended : MetOver(id)
=============================================================================

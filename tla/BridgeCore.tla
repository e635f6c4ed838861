----------------------------- MODULE BridgeCore -----------------------------
(***************************************************************************)
(* The on-chain program (anchor/programs/wormverify-core): its accounts    *)
(* and its four instructions.  The runtime runs instructions on the same   *)
(* accounts one after the other, and one that fails leaves no trace, so    *)
(* each instruction is one action whose guard is what makes it succeed:    *)
(* the account constraints first, then the requirements of the handler.    *)
(*                                                                         *)
(* An account is a function from its PDA seeds; None is an account that    *)
(* does not exist yet, so Anchor's init constraint is the guard = None.    *)
(***************************************************************************)
EXTENDS Vaa

CONSTANTS
  Key,          \* public keys that may sign for governance
  Emitter,      \* emitters of outbound messages
  Digest,       \* digests of VAA bodies
  Payload,      \* payloads of outbound messages
  Oversized,    \* bodies and payloads longer than MAX_PAYLOAD_LEN
  Address,      \* guardian addresses
  KeyLists,     \* guardian lists passed to initialize and to an upgrade
  SignatureLists, \* signature lists of submitted VAAs
  Ttls,         \* guardian_set_ttl_seconds passed to initialize
  MAX_GUARDIANS,
  MaxIndex,     \* largest guardian set index (u32::MAX)
  MaxSequence,  \* largest emitter sequence (u64::MAX)
  MaxTime,      \* largest timestamp (i64::MAX)
  None

SetIndex == 0 .. MaxIndex
Time == 1 .. MaxTime

ASSUME BoundsAssumption ==
  /\ MAX_GUARDIANS \in Nat /\ MaxIndex \in Nat
  /\ MaxSequence \in Nat /\ MaxTime \in Nat
ASSUME InputsAssumption ==
  /\ KeyLists \subseteq Seq(Address)
  /\ SignatureLists \subseteq
       Seq([guardian_index : Nat, signer : Address \cup {None}])
  /\ Ttls \subseteq Nat

BridgeConfig ==
  [governance_authority : Key,
   current_guardian_set_index : SetIndex,
   guardian_set_ttl_seconds : Nat]

GuardianSet ==
  [keys : Seq(Address), creation_time : Time, expiration_time : {0} \cup Time]

\* A parsed VAA, reduced to what verify_vaa looks at.
ParsedVaa ==
  [guardian_set_index : SetIndex, hash : Digest, signatures : SignatureLists]

\* A VaaVerified event, with the set and the time of the verification.
VaaVerified ==
  [hash : Digest, set : SetIndex, at : Time, signatures : SignatureLists]

ASSUME NoneIsNoAccount ==
  None \notin BridgeConfig \cup GuardianSet \cup Digest \cup Payload \cup Nat

VARIABLES
  now,               \* Clock::get()?.unix_timestamp
  config,            \* ["config"]
  guardian_set,      \* ["guardian_set", index]
  consumed,          \* ["consumed", vaa_hash]
  emitter_sequence,  \* ["emitter", emitter]
  message,           \* ["message", emitter, sequence]
  verified           \* history: the VaaVerified events, in order

bridge == <<config, guardian_set, consumed, verified>>
outbox == <<emitter_sequence, message>>
vars == <<now, bridge, outbox>>

TypeOK ==
  /\ now \in Time
  /\ config \in BridgeConfig \cup {None}
  /\ guardian_set \in [SetIndex -> GuardianSet \cup {None}]
  /\ consumed \in [Digest -> BOOLEAN]
  /\ emitter_sequence \in [Emitter -> 0 .. MaxSequence]
  /\ message \in [Emitter -> [0 .. MaxSequence -> Payload \cup {None}]]
  /\ verified \in Seq(VaaVerified)

\* Nothing has been created; a counter account that is absent reads as zero.
Init ==
  /\ now \in Time
  /\ config = None
  /\ guardian_set = [i \in SetIndex |-> None]
  /\ consumed = [h \in Digest |-> FALSE]
  /\ emitter_sequence = [e \in Emitter |-> 0]
  /\ message = [e \in Emitter |-> [s \in 0 .. MaxSequence |-> None]]
  /\ verified = <<>>

\* The cluster's clock, which the program only reads.
Tick ==
  /\ now < MaxTime
  /\ now' = now + 1
  /\ UNCHANGED <<bridge, outbox>>

-----------------------------------------------------------------------------
\* The requirements initialize and upgrade_guardian_set make of a key list.
ValidKeys(keys) == keys # <<>> /\ Len(keys) <= MAX_GUARDIANS

\* A set as it is created: it never expires until it is superseded.
FreshSet(keys) ==
  [keys |-> keys, creation_time |-> now, expiration_time |-> 0]

initialize(authority, ttl, index, keys) ==
  /\ config = None
  /\ guardian_set[index] = None
  /\ ValidKeys(keys)
  /\ config' = [governance_authority |-> authority,
                current_guardian_set_index |-> index,
                guardian_set_ttl_seconds |-> ttl]
  /\ guardian_set' = [guardian_set EXCEPT ![index] = FreshSet(keys)]
  /\ UNCHANGED <<now, consumed, verified, outbox>>

-----------------------------------------------------------------------------
\* A bug: the sequence wraps at the end of its range.
wrapping_add(sequence) == {(sequence + 1) % (MaxSequence + 1)}

\* A bug: nothing stops the sequence at the end of its range.
unchecked_add(sequence) == {sequence + 1}

\* checked_add(1): the values it may yield, none of them on overflow.
checked_add(sequence) == {sequence + 1} \cap 0 .. MaxSequence

(* The message goes to the address its sequence number seeds; on overflow  *)
(* the whole instruction fails.                                            *)
post_message(emitter, payload) ==
  LET sequence == emitter_sequence[emitter] IN
  /\ message[emitter][sequence] = None
  /\ payload \notin Oversized
  /\ message' = [message EXCEPT ![emitter][sequence] = payload]
  /\ \E next \in checked_add(sequence) :
       emitter_sequence' = [emitter_sequence EXCEPT ![emitter] = next]
  /\ UNCHANGED <<now, bridge>>

-----------------------------------------------------------------------------
\* A bug: the order of the signatures is not checked.
parses_unordered(vaa) == vaa.hash \notin Oversized

\* ParsedVaa::parse succeeds.
parses(vaa) ==
  /\ vaa.hash \notin Oversized
  /\ StrictlyAscending(vaa.signatures)

verify_quorum(sigs, keys) ==
  /\ keys # <<>>
  /\ \A i \in 1 .. Len(sigs) : SignedByMember(sigs[i], keys)
  /\ Len(sigs) >= quorum(Len(keys))

\* A bug: a superseded set stays valid.
is_active_always(set) == TRUE

is_active(set) == set.expiration_time = 0 \/ now < set.expiration_time

\* A bug: the replay account may exist already.
unconsumed_ignored(hash) == TRUE

\* The init constraint of the replay account.
unconsumed(hash) == ~ consumed[hash]

(* index and hash are the arguments that seed the accounts; the handler    *)
(* compares them with what it parses from the VAA's bytes.                 *)
verify_vaa(index, hash, vaa) ==
  LET set == guardian_set[index] IN
  /\ config # None
  /\ set # None
  /\ unconsumed(hash)
  /\ parses(vaa)
  /\ vaa.guardian_set_index = index
  /\ vaa.hash = hash
  /\ is_active(set)
  /\ verify_quorum(vaa.signatures, set.keys)
  /\ consumed' = [consumed EXCEPT ![hash] = TRUE]
  /\ verified' = Append(verified, [hash |-> hash, set |-> index, at |-> now,
                                   signatures |-> vaa.signatures])
  /\ UNCHANGED <<now, config, guardian_set, outbox>>

-----------------------------------------------------------------------------
\* A bug: any existing set may be passed as the outgoing one.
outgoing_any(index) == TRUE

\* The seeds constraint on old_guardian_set.
outgoing(index) == index = config.current_guardian_set_index

\* A bug: an index may be skipped.
successor_or_later(index) == index > config.current_guardian_set_index

\* The addition is checked: at u32::MAX the instruction panics.
successor(index) == index = config.current_guardian_set_index + 1

\* A bug: the window counts from the creation of the outgoing set.
expiry_from_creation(set) ==
  set.creation_time + config.guardian_set_ttl_seconds

\* The end of the window an outgoing set has left.
expiry(set) == now + config.guardian_set_ttl_seconds

upgrade_guardian_set(signer, old, new_index, keys) ==
  /\ config # None
  /\ signer = config.governance_authority
  /\ outgoing(old)
  /\ guardian_set[old] # None
  /\ guardian_set[new_index] = None
  /\ ValidKeys(keys)
  /\ successor(new_index)
  /\ expiry(guardian_set[old]) <= MaxTime
  /\ guardian_set' = [guardian_set EXCEPT
       ![old].expiration_time = expiry(guardian_set[old]),
       ![new_index] = FreshSet(keys)]
  /\ config' = [config EXCEPT !.current_guardian_set_index = new_index]
  /\ UNCHANGED <<now, consumed, verified, outbox>>

-----------------------------------------------------------------------------
Next ==
  \/ Tick
  \/ \E authority \in Key, ttl \in Ttls, index \in SetIndex, keys \in KeyLists :
       initialize(authority, ttl, index, keys)
  \/ \E emitter \in Emitter, payload \in Payload : post_message(emitter, payload)
  \/ \E index \in SetIndex, hash \in Digest, vaa \in ParsedVaa :
       verify_vaa(index, hash, vaa)
  \/ \E signer \in Key, old, new_index \in SetIndex, keys \in KeyLists :
       upgrade_guardian_set(signer, old, new_index, keys)

Spec == Init /\ [][Next]_vars

-----------------------------------------------------------------------------
(* Replay protection: however often and under however many guardian sets   *)
(* a message is relayed, VaaVerified is emitted for its digest only once.  *)
ConsumedOnce ==
  /\ \A i, j \in 1 .. Len(verified) :
       verified[i].hash = verified[j].hash => i = j
  /\ \A h \in Digest :
       consumed[h] <=> \E i \in 1 .. Len(verified) : verified[i].hash = h

(* What a consumer of a VaaVerified event relies on, also after later      *)
(* rotations: the VAA carried a quorum of distinct members of its set, and *)
(* was accepted in that set's time.                                        *)
VerifiedInItsTime ==
  \A i \in 1 .. Len(verified) :
    LET event == verified[i]
        set == guardian_set[event.set]
    IN /\ set # None
       /\ verify(event.signatures, set.keys)
       /\ set.creation_time <= event.at
       /\ set.expiration_time = 0 \/ event.at <= set.expiration_time

(* "indexed, immutable sets ... with monotonic rotation" (lib.rs): the     *)
(* sets that exist are consecutive, the last of them is the current one.   *)
SetsConsecutive ==
  /\ config = None => \A i \in SetIndex : guardian_set[i] = None
  /\ config # None => \E genesis \in SetIndex :
       \A i \in SetIndex :
         guardian_set[i] # None <=>
           i \in genesis .. config.current_guardian_set_index

(* "in-flight VAAs signed by it remain verifiable for                      *)
(* guardian_set_ttl_seconds" (lib.rs): a set expires exactly that long     *)
(* after its successor was created; only the current set never expires.    *)
SupersededExpires ==
  config # None =>
    \A i \in SetIndex : guardian_set[i] # None =>
      guardian_set[i].expiration_time =
        IF i = config.current_guardian_set_index THEN 0
        ELSE guardian_set[i + 1].creation_time
               + config.guardian_set_ttl_seconds

(* An emitter's messages are numbered without gaps: the messages on record *)
(* are those below its sequence counter, for off-chain observers to fetch  *)
(* one by one.                                                             *)
SequencesGapFree ==
  \A e \in Emitter, s \in 0 .. MaxSequence :
    message[e][s] # None <=> s < emitter_sequence[e]

(* A guardian set is immutable but for its expiration time, which is set   *)
(* once, when it is superseded, and never extended or shortened again.     *)
SetsNeverRewritten ==
  [][\A i \in SetIndex : guardian_set[i] # None =>
       /\ guardian_set'[i] # None
       /\ guardian_set'[i].keys = guardian_set[i].keys
       /\ guardian_set'[i].creation_time = guardian_set[i].creation_time
       /\ guardian_set[i].expiration_time # 0 =>
            guardian_set'[i].expiration_time = guardian_set[i].expiration_time
    ]_vars

-----------------------------------------------------------------------------
(* Nothing on record lies in the future of the clock.  This is what makes  *)
(* a rotation harmless for the VAAs accepted before it: the expiration     *)
(* time it assigns is not before any of their verifications.               *)
NothingInTheFuture ==
  /\ \A i \in SetIndex : guardian_set[i] # None =>
       guardian_set[i].creation_time <= now
  /\ \A i \in 1 .. Len(verified) : verified[i].at <= now

(* The inductive invariant behind the theorems of BridgeProofs.            *)
BridgeInv ==
  /\ TypeOK
  /\ NothingInTheFuture
  /\ ConsumedOnce
  /\ VerifiedInItsTime
  /\ SetsConsecutive
  /\ SupersededExpires
  /\ SequencesGapFree
=============================================================================

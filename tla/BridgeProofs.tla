---------------------------- MODULE BridgeProofs ----------------------------
(***************************************************************************)
(* Theorems about BridgeCore, for every number of guardians, digests and   *)
(* emitters, every time to live and every width of its integers.  All of   *)
(* them follow from BridgeInv, which each instruction preserves.           *)
(***************************************************************************)
EXTENDS BridgeCore, TLAPS

USE DEF SetIndex, Time, bridge, outbox

LEMMA InitBridgeInv == Init => BridgeInv
<1> SUFFICES ASSUME Init PROVE BridgeInv
  OBVIOUS
<1> USE BoundsAssumption DEF Init
<1>1. TypeOK
  BY DEF TypeOK
<1>2. NothingInTheFuture
  BY DEF NothingInTheFuture
<1>3. ConsumedOnce
  BY DEF ConsumedOnce
<1>4. VerifiedInItsTime
  BY DEF VerifiedInItsTime
<1>5. SetsConsecutive
  BY DEF SetsConsecutive
<1>6. SupersededExpires
  BY DEF SupersededExpires
<1>7. SequencesGapFree
  BY DEF SequencesGapFree
<1> QED
  BY <1>1, <1>2, <1>3, <1>4, <1>5, <1>6, <1>7 DEF BridgeInv

(* The clock moves on: whatever was not in the future is still not.        *)
LEMMA TickKeepsInv == BridgeInv /\ Tick => BridgeInv'
<1> SUFFICES ASSUME BridgeInv, Tick PROVE BridgeInv'
  OBVIOUS
<1> USE BoundsAssumption DEF BridgeInv, Tick
<1>1. TypeOK'
  BY DEF TypeOK
<1>2. NothingInTheFuture'
  <2>1. now \in Nat /\ now' = now + 1
    BY DEF TypeOK
  <2>2. ASSUME NEW i \in SetIndex, guardian_set'[i] # None
        PROVE guardian_set'[i].creation_time <= now'
    <3>1. guardian_set[i] \in GuardianSet /\ guardian_set[i].creation_time <= now
      BY <2>2 DEF TypeOK, NothingInTheFuture
    <3> QED
      BY <2>1, <3>1 DEF GuardianSet
  <2>3. ASSUME NEW i \in 1 .. Len(verified')
        PROVE verified'[i].at <= now'
    <3>1. verified[i] \in VaaVerified /\ verified[i].at <= now
      BY <2>3 DEF TypeOK, NothingInTheFuture
    <3> QED
      BY <2>1, <3>1 DEF VaaVerified
  <2> QED
    BY <2>2, <2>3 DEF NothingInTheFuture
<1>3. ConsumedOnce'
  BY DEF ConsumedOnce
<1>4. VerifiedInItsTime'
  BY DEF VerifiedInItsTime
<1>5. SetsConsecutive'
  BY DEF SetsConsecutive
<1>6. SupersededExpires'
  BY DEF SupersededExpires
<1>7. SequencesGapFree'
  BY DEF SequencesGapFree
<1> QED
  BY <1>1, <1>2, <1>3, <1>4, <1>5, <1>6, <1>7 DEF BridgeInv

(* Before initialize there is no set, so nothing has been verified either. *)
LEMMA NothingBeforeInitialize ==
  BridgeInv /\ config = None => verified = <<>>
<1> SUFFICES ASSUME BridgeInv, config = None, verified # <<>> PROVE FALSE
  OBVIOUS
<1>1. 1 \in 1 .. Len(verified) /\ verified[1] \in VaaVerified
  BY DEF BridgeInv, TypeOK
<1>2. guardian_set[verified[1].set] # None
  BY <1>1 DEF BridgeInv, VerifiedInItsTime
<1> QED
  BY <1>1, <1>2 DEF BridgeInv, SetsConsecutive, VaaVerified

\* A set as initialize and upgrade_guardian_set create it.
LEMMA FreshSetType ==
  ASSUME TypeOK, NEW keys \in KeyLists
  PROVE  /\ FreshSet(keys) \in GuardianSet
         /\ FreshSet(keys) # None
         /\ FreshSet(keys).keys = keys
         /\ FreshSet(keys).creation_time = now
         /\ FreshSet(keys).expiration_time = 0
BY InputsAssumption, NoneIsNoAccount DEF TypeOK, FreshSet, GuardianSet

LEMMA InitializeKeepsInv ==
  ASSUME BridgeInv,
         NEW authority \in Key, NEW ttl \in Ttls, NEW index \in SetIndex,
         NEW keys \in KeyLists, initialize(authority, ttl, index, keys)
  PROVE  BridgeInv'
<1> USE BoundsAssumption DEF BridgeInv, initialize
<1> DEFINE fresh == FreshSet(keys)
<1>1. /\ fresh \in GuardianSet /\ fresh # None
      /\ fresh.creation_time = now /\ fresh.expiration_time = 0
  BY FreshSetType
<1>2. verified = <<>> /\ verified' = <<>>
  BY NothingBeforeInitialize
<1>3. \A i \in SetIndex : guardian_set[i] = None
  BY DEF SetsConsecutive
<1>4. guardian_set' = [i \in SetIndex |-> IF i = index THEN fresh ELSE None]
  BY <1>3 DEF TypeOK
<1>5. config' \in BridgeConfig /\ config' # None
      /\ config'.current_guardian_set_index = index
  BY InputsAssumption, NoneIsNoAccount DEF BridgeConfig
<1> HIDE DEF fresh
<1>6. TypeOK'
  BY <1>1, <1>4, <1>5 DEF TypeOK
<1>7. NothingInTheFuture'
  <2>1. now' = now /\ now \in Nat
    BY DEF TypeOK
  <2> QED
    BY <1>1, <1>2, <1>4, <2>1 DEF NothingInTheFuture
<1>8. ConsumedOnce'
  BY DEF ConsumedOnce
<1>9. VerifiedInItsTime'
  BY <1>2 DEF VerifiedInItsTime
<1>10. SetsConsecutive'
  <2>1. \A i \in SetIndex : guardian_set'[i] # None <=> i \in index .. index
    BY <1>1, <1>4
  <2> QED
    BY <1>5, <2>1 DEF SetsConsecutive
<1>11. SupersededExpires'
  BY <1>1, <1>4, <1>5 DEF SupersededExpires
<1>12. SequencesGapFree'
  BY DEF SequencesGapFree
<1> QED
  BY <1>6, <1>7, <1>8, <1>9, <1>10, <1>11, <1>12 DEF BridgeInv

LEMMA PostMessageKeepsInv ==
  ASSUME BridgeInv,
         NEW emitter \in Emitter, NEW payload \in Payload,
         post_message(emitter, payload)
  PROVE  BridgeInv'
<1> USE BoundsAssumption DEF BridgeInv, post_message
<1> DEFINE sequence == emitter_sequence[emitter]
<1>1. sequence \in 0 .. MaxSequence
  BY DEF TypeOK
<1>2. /\ sequence + 1 \in 0 .. MaxSequence
      /\ emitter_sequence' = [emitter_sequence EXCEPT ![emitter] = sequence + 1]
      /\ message' = [message EXCEPT ![emitter][sequence] = payload]
  BY DEF checked_add
<1>3. payload # None
  BY NoneIsNoAccount
<1> HIDE DEF sequence
<1>4. TypeOK'
  BY <1>1, <1>2 DEF TypeOK
<1>5. SequencesGapFree'
  <2> SUFFICES ASSUME NEW e \in Emitter, NEW s \in 0 .. MaxSequence
               PROVE message'[e][s] # None <=> s < emitter_sequence'[e]
    BY DEF SequencesGapFree
  <2>1. message[e][s] # None <=> s < emitter_sequence[e]
    BY DEF SequencesGapFree
  <2>2. CASE e # emitter
    BY <1>2, <2>1, <2>2 DEF TypeOK
  <2>3. CASE e = emitter
    <3>1. emitter_sequence'[e] = sequence + 1
      BY <1>2, <2>3 DEF TypeOK
    <3>2. message'[e][s] = IF s = sequence THEN payload ELSE message[e][s]
      BY <1>1, <1>2, <2>3 DEF TypeOK
    <3>3. emitter_sequence[e] = sequence
      BY <2>3 DEF sequence
    <3> QED
      BY <1>1, <1>3, <2>1, <3>1, <3>2, <3>3
  <2> QED
    BY <2>2, <2>3
<1>6. NothingInTheFuture' /\ ConsumedOnce' /\ VerifiedInItsTime'
  BY DEF NothingInTheFuture, ConsumedOnce, VerifiedInItsTime
<1>7. SetsConsecutive' /\ SupersededExpires'
  BY DEF SetsConsecutive, SupersededExpires
<1> QED
  BY <1>4, <1>5, <1>6, <1>7 DEF BridgeInv

(* What parse and verify_quorum accept together is what the off-chain      *)
(* Vaa::verify accepts: a quorum of members in strictly ascending order.   *)
LEMMA ParsedQuorumVerifies ==
  ASSUME NEW vaa, NEW keys, parses(vaa), verify_quorum(vaa.signatures, keys)
  PROVE  verify(vaa.signatures, keys)
BY DEF parses, verify_quorum, verify

LEMMA VerifyVaaKeepsInv ==
  ASSUME BridgeInv,
         NEW index \in SetIndex, NEW hash \in Digest, NEW vaa \in ParsedVaa,
         verify_vaa(index, hash, vaa)
  PROVE  BridgeInv'
<1> USE BoundsAssumption DEF BridgeInv
<1> DEFINE n == Len(verified)
           event == [hash |-> hash, set |-> index, at |-> now,
                     signatures |-> vaa.signatures]
<1>1. /\ verified \in Seq(VaaVerified) /\ n \in Nat
      /\ now \in Time
      /\ consumed \in [Digest -> BOOLEAN]
  BY DEF TypeOK
<1>2. event \in VaaVerified
  BY <1>1 DEF VaaVerified, ParsedVaa
<1>3. verified' = Append(verified, event) /\ consumed' = [consumed EXCEPT ![hash] = TRUE]
  BY DEF verify_vaa
<1>4. UNCHANGED <<now, config, guardian_set, emitter_sequence, message>>
  BY DEF verify_vaa
<1>5. ~ consumed[hash]
  BY DEF verify_vaa, unconsumed
<1> HIDE DEF event
<1>6. /\ Len(verified') = n + 1
      /\ verified'[n + 1] = event
      /\ \A i \in 1 .. n : verified'[i] = verified[i]
  BY <1>1, <1>2, <1>3
<1>7. TypeOK'
  BY <1>1, <1>2, <1>3, <1>4 DEF TypeOK
<1>8. NothingInTheFuture'
  <2>1. event.at = now
    BY DEF event
  <2>2. ASSUME NEW i \in 1 .. n + 1
        PROVE verified'[i].at <= now
    <3>1. CASE i \in 1 .. n
      BY <1>6, <3>1 DEF NothingInTheFuture
    <3>2. CASE i = n + 1
      BY <1>1, <1>6, <2>1, <3>2
    <3> QED
      BY <1>1, <3>1, <3>2
  <2> QED
    BY <1>4, <1>6, <2>2 DEF NothingInTheFuture
<1>9. ConsumedOnce'
  <2>1. event.hash = hash
    BY DEF event
  <2>2. \A i \in 1 .. n : verified[i].hash # hash
    BY <1>5 DEF ConsumedOnce
  <2>3. ASSUME NEW i \in 1 .. n + 1, NEW j \in 1 .. n + 1,
               verified'[i].hash = verified'[j].hash
        PROVE i = j
    <3>1. CASE i \in 1 .. n /\ j \in 1 .. n
      BY <1>6, <2>3, <3>1 DEF ConsumedOnce
    <3>2. CASE i = n + 1 /\ j \in 1 .. n
      BY <1>6, <2>1, <2>2, <2>3, <3>2
    <3>3. CASE i \in 1 .. n /\ j = n + 1
      BY <1>6, <2>1, <2>2, <2>3, <3>3
    <3> QED
      BY <1>1, <3>1, <3>2, <3>3
  <2>4. ASSUME NEW h \in Digest
        PROVE consumed'[h] <=> \E i \in 1 .. n + 1 : verified'[i].hash = h
    <3>1. consumed[h] <=> \E i \in 1 .. n : verified[i].hash = h
      BY DEF ConsumedOnce
    <3>2. CASE h = hash
      <4>1. consumed'[h]
        BY <1>1, <1>3, <3>2
      <4>2. verified'[n + 1].hash = h /\ n + 1 \in 1 .. n + 1
        BY <1>1, <1>6, <2>1, <3>2
      <4> QED
        BY <4>1, <4>2
    <3>3. CASE h # hash
      <4>1. consumed'[h] = consumed[h]
        BY <1>1, <1>3, <3>3
      <4>2. verified'[n + 1].hash # h
        BY <1>6, <2>1, <3>3
      <4>3. (\E i \in 1 .. n + 1 : verified'[i].hash = h)
              <=> (\E i \in 1 .. n : verified[i].hash = h)
        <5>1. 1 .. n + 1 = (1 .. n) \cup {n + 1}
          BY <1>1
        <5> HIDE DEF n
        <5> QED
          BY <1>6, <4>2, <5>1
      <4> QED
        BY <3>1, <4>1, <4>3
    <3> QED
      BY <3>2, <3>3
  <2> QED
    BY <1>6, <2>3, <2>4 DEF ConsumedOnce
<1>10. VerifiedInItsTime'
  <2>1. /\ event.set = index /\ event.at = now
        /\ event.signatures = vaa.signatures
    BY DEF event
  <2>2. /\ guardian_set[index] # None
        /\ verify(vaa.signatures, guardian_set[index].keys)
        /\ is_active(guardian_set[index])
    BY ParsedQuorumVerifies DEF verify_vaa
  <2>3. /\ guardian_set[index].creation_time <= now
        /\ guardian_set[index].expiration_time = 0
             \/ now <= guardian_set[index].expiration_time
    BY <1>1, <2>2 DEF NothingInTheFuture, is_active, TypeOK, GuardianSet
  <2> SUFFICES ASSUME NEW i \in 1 .. n + 1
               PROVE  /\ guardian_set[verified'[i].set] # None
                      /\ verify(verified'[i].signatures,
                                guardian_set[verified'[i].set].keys)
                      /\ guardian_set[verified'[i].set].creation_time
                            <= verified'[i].at
                      /\ guardian_set[verified'[i].set].expiration_time = 0
                           \/ verified'[i].at
                                <= guardian_set[verified'[i].set].expiration_time
    BY <1>4, <1>6 DEF VerifiedInItsTime
  <2>4. CASE i \in 1 .. n
    BY <1>6, <2>4 DEF VerifiedInItsTime
  <2>5. CASE i = n + 1
    BY <1>6, <2>1, <2>2, <2>3, <2>5
  <2> QED
    BY <1>1, <2>4, <2>5
<1>11. SetsConsecutive' /\ SupersededExpires'
  BY <1>4 DEF SetsConsecutive, SupersededExpires
<1>12. SequencesGapFree'
  BY <1>4 DEF SequencesGapFree
<1> QED
  BY <1>7, <1>8, <1>9, <1>10, <1>11, <1>12

LEMMA UpgradeKeepsInv ==
  ASSUME BridgeInv,
         NEW signer \in Key, NEW old \in SetIndex, NEW new_index \in SetIndex,
         NEW keys \in KeyLists,
         upgrade_guardian_set(signer, old, new_index, keys)
  PROVE  BridgeInv'
<1> USE BoundsAssumption DEF BridgeInv
<1> DEFINE fresh == FreshSet(keys)
           ttl == config.guardian_set_ttl_seconds
           superseded == [guardian_set[old] EXCEPT !.expiration_time = now + ttl]
<1>1. /\ config \in BridgeConfig /\ config # None
      /\ guardian_set \in [SetIndex -> GuardianSet \cup {None}]
      /\ now \in Time /\ ttl \in Nat
  BY DEF TypeOK, upgrade_guardian_set, BridgeConfig
<1>2. /\ old = config.current_guardian_set_index
      /\ new_index = old + 1
      /\ guardian_set[old] # None
      /\ guardian_set[new_index] = None
      /\ now + ttl <= MaxTime
  BY DEF upgrade_guardian_set, outgoing, successor, expiry
<1>3. UNCHANGED <<now, consumed, verified, emitter_sequence, message>>
  BY DEF upgrade_guardian_set
<1>4. /\ fresh \in GuardianSet /\ fresh # None
      /\ fresh.creation_time = now /\ fresh.expiration_time = 0
  BY FreshSetType
<1>5. /\ superseded \in GuardianSet /\ superseded # None
      /\ superseded.keys = guardian_set[old].keys
      /\ superseded.creation_time = guardian_set[old].creation_time
      /\ superseded.expiration_time = now + ttl
  <2>1. guardian_set[old] \in GuardianSet /\ now + ttl \in Time
    BY <1>1, <1>2
  <2> QED
    BY <2>1, NoneIsNoAccount DEF GuardianSet
<1>6. guardian_set' = [i \in SetIndex |->
                         IF i = old THEN superseded
                         ELSE IF i = new_index THEN fresh ELSE guardian_set[i]]
  BY <1>1, <1>2 DEF upgrade_guardian_set, expiry
<1>7. /\ config' \in BridgeConfig /\ config' # None
      /\ config'.current_guardian_set_index = new_index
      /\ config'.guardian_set_ttl_seconds = ttl
  BY <1>1, NoneIsNoAccount DEF upgrade_guardian_set, BridgeConfig
<1> HIDE DEF fresh, superseded
<1>8. TypeOK'
  BY <1>3, <1>4, <1>5, <1>6, <1>7 DEF TypeOK
<1>9. NothingInTheFuture'
  <2> SUFFICES ASSUME NEW i \in SetIndex, guardian_set'[i] # None
               PROVE guardian_set'[i].creation_time <= now
    BY <1>3 DEF NothingInTheFuture
  <2>1. CASE i = old
    BY <1>1, <1>2, <1>5, <1>6, <2>1 DEF NothingInTheFuture
  <2>2. CASE i = new_index
    BY <1>1, <1>2, <1>4, <1>6, <2>2
  <2>3. CASE i # old /\ i # new_index
    BY <1>6, <2>3 DEF NothingInTheFuture
  <2> QED
    BY <2>1, <2>2, <2>3
<1>10. ConsumedOnce'
  BY <1>3 DEF ConsumedOnce
<1>11. VerifiedInItsTime'
  <2> SUFFICES ASSUME NEW i \in 1 .. Len(verified)
               PROVE  LET event == verified[i]
                          set == guardian_set'[event.set]
                      IN /\ set # None
                         /\ verify(event.signatures, set.keys)
                         /\ set.creation_time <= event.at
                         /\ set.expiration_time = 0
                              \/ event.at <= set.expiration_time
    BY <1>3 DEF VerifiedInItsTime
  <2> DEFINE s == verified[i].set
             at == verified[i].at
  <2>1. s \in SetIndex /\ at \in Time /\ at <= now
    <3>1. verified[i] \in VaaVerified
      BY DEF TypeOK
    <3>2. verified[i].at <= now
      BY DEF NothingInTheFuture
    <3> QED
      BY <3>1, <3>2 DEF VaaVerified
  <2>2. /\ guardian_set[s] # None
        /\ verify(verified[i].signatures, guardian_set[s].keys)
        /\ guardian_set[s].creation_time <= at
        /\ guardian_set[s].expiration_time = 0
             \/ at <= guardian_set[s].expiration_time
    BY DEF VerifiedInItsTime
  <2> HIDE DEF s, at
  <2>3. CASE s = old
    <3>1. guardian_set'[s] = superseded
      BY <1>6, <2>1, <2>3
    <3>2. at <= now + ttl
      BY <1>1, <2>1
    <3> QED
      BY <1>5, <2>2, <2>3, <3>1, <3>2 DEF s, at
  <2>4. CASE s # old
    <3>1. guardian_set'[s] = guardian_set[s]
      BY <1>2, <1>6, <2>1, <2>2, <2>4
    <3> QED
      BY <2>2, <3>1 DEF s, at
  <2> QED
    BY <2>3, <2>4
<1>12. SetsConsecutive'
  <2>1. PICK genesis \in SetIndex :
          \A i \in SetIndex : guardian_set[i] # None <=> i \in genesis .. old
    BY <1>1, <1>2 DEF SetsConsecutive
  <2>2. genesis <= old
    BY <1>2, <2>1
  <2>3. ASSUME NEW i \in SetIndex
        PROVE guardian_set'[i] # None <=> i \in genesis .. new_index
    <3>1. guardian_set'[i] # None <=>
            i = old \/ i = new_index \/ guardian_set[i] # None
      BY <1>4, <1>5, <1>6
    <3> QED
      BY <1>2, <2>1, <2>2, <3>1
  <2> QED
    BY <1>7, <2>3 DEF SetsConsecutive
<1>13. SupersededExpires'
  <2> SUFFICES ASSUME NEW i \in SetIndex, guardian_set'[i] # None
               PROVE  guardian_set'[i].expiration_time =
                        IF i = new_index THEN 0
                        ELSE guardian_set'[i + 1].creation_time + ttl
    BY <1>7 DEF SupersededExpires
  <2>1. CASE i = new_index
    BY <1>2, <1>4, <1>6, <2>1
  <2>2. CASE i = old
    BY <1>2, <1>4, <1>5, <1>6, <2>2
  <2>3. CASE i # new_index /\ i # old
    <3>1. guardian_set'[i] = guardian_set[i]
      BY <1>6, <2>3
    <3>2. i < old /\ i + 1 \in SetIndex /\ i + 1 # new_index
      BY <1>1, <1>2, <2>3, <3>1 DEF SetsConsecutive
    <3>3. guardian_set'[i + 1].creation_time = guardian_set[i + 1].creation_time
      BY <1>5, <1>6, <3>2
    <3> QED
      BY <1>1, <1>2, <2>3, <3>1, <3>3 DEF SupersededExpires
  <2> QED
    BY <2>1, <2>2, <2>3
<1>14. SequencesGapFree'
  BY <1>3 DEF SequencesGapFree
<1> QED
  BY <1>8, <1>9, <1>10, <1>11, <1>12, <1>13, <1>14

LEMMA StutterKeepsInv == BridgeInv /\ UNCHANGED vars => BridgeInv'
<1> SUFFICES ASSUME BridgeInv, UNCHANGED vars PROVE BridgeInv'
  OBVIOUS
<1> USE DEF vars, BridgeInv
<1>1. TypeOK' /\ NothingInTheFuture'
  BY DEF TypeOK, NothingInTheFuture
<1>2. ConsumedOnce' /\ VerifiedInItsTime'
  BY DEF ConsumedOnce, VerifiedInItsTime
<1>3. SetsConsecutive' /\ SupersededExpires' /\ SequencesGapFree'
  BY DEF SetsConsecutive, SupersededExpires, SequencesGapFree
<1> QED
  BY <1>1, <1>2, <1>3

-----------------------------------------------------------------------------
(* Every state the program's accounts can reach satisfies BridgeInv.       *)
THEOREM BridgeInvariance == Spec => []BridgeInv
<1>1. Init => BridgeInv
  BY InitBridgeInv
<1>2. BridgeInv /\ [Next]_vars => BridgeInv'
  BY TickKeepsInv, InitializeKeepsInv, PostMessageKeepsInv, VerifyVaaKeepsInv,
     UpgradeKeepsInv, StutterKeepsInv DEF Next
<1> QED
  BY <1>1, <1>2, PTL DEF Spec

(* Type correctness of the accounts, the checked arithmetic included.      *)
THEOREM BridgeTypeCorrect == Spec => []TypeOK
<1>1. BridgeInv => TypeOK
  BY DEF BridgeInv
<1> QED
  BY <1>1, BridgeInvariance, PTL

(* Replay protection: no digest is consumed twice, under whichever sets.   *)
THEOREM ReplayProtection == Spec => []ConsumedOnce
<1>1. BridgeInv => ConsumedOnce
  BY DEF BridgeInv
<1> QED
  BY <1>1, BridgeInvariance, PTL

(* Each accepted VAA had a quorum of its set, in that set's time.          *)
THEOREM OnlyTimelyQuorums == Spec => []VerifiedInItsTime
<1>1. BridgeInv => VerifiedInItsTime
  BY DEF BridgeInv
<1> QED
  BY <1>1, BridgeInvariance, PTL

(* Rotation is by one index at a time, and no set is ever missing.         *)
THEOREM ConsecutiveSets == Spec => []SetsConsecutive
<1>1. BridgeInv => SetsConsecutive
  BY DEF BridgeInv
<1> QED
  BY <1>1, BridgeInvariance, PTL

(* A superseded set has exactly its time to live left, the current one no  *)
(* end.                                                                    *)
THEOREM SupersededSetsExpire == Spec => []SupersededExpires
<1>1. BridgeInv => SupersededExpires
  BY DEF BridgeInv
<1> QED
  BY <1>1, BridgeInvariance, PTL

(* The messages of an emitter are numbered without gaps.                   *)
THEOREM GapFreeSequences == Spec => []SequencesGapFree
<1>1. BridgeInv => SequencesGapFree
  BY DEF BridgeInv
<1> QED
  BY <1>1, BridgeInvariance, PTL

(* Keys and creation times never change; an expiration time is final.      *)
THEOREM SetsAreImmutable == Spec => SetsNeverRewritten
<1> DEFINE Kept ==
      \A i \in SetIndex : guardian_set[i] # None =>
        /\ guardian_set'[i] # None
        /\ guardian_set'[i].keys = guardian_set[i].keys
        /\ guardian_set'[i].creation_time = guardian_set[i].creation_time
        /\ guardian_set[i].expiration_time # 0 =>
             guardian_set'[i].expiration_time = guardian_set[i].expiration_time
<1>1. ASSUME BridgeInv, [Next]_vars PROVE Kept
  <2>1. CASE UNCHANGED guardian_set
    BY <2>1
  <2>2. ASSUME NEW authority \in Key, NEW ttl \in Ttls, NEW index \in SetIndex,
               NEW keys \in KeyLists, initialize(authority, ttl, index, keys)
        PROVE Kept
    BY <1>1, <2>2 DEF initialize, BridgeInv, SetsConsecutive
  <2>3. ASSUME NEW signer \in Key, NEW old \in SetIndex,
               NEW new_index \in SetIndex, NEW keys \in KeyLists,
               upgrade_guardian_set(signer, old, new_index, keys)
        PROVE Kept
    <3>1. /\ guardian_set \in [SetIndex -> GuardianSet \cup {None}]
          /\ guardian_set[old] # None
          /\ guardian_set[new_index] = None
          /\ old = config.current_guardian_set_index
          /\ config # None
      BY <1>1, <2>3 DEF BridgeInv, TypeOK, upgrade_guardian_set, outgoing
    <3>2. guardian_set[old].expiration_time = 0
      BY <1>1, <3>1 DEF BridgeInv, SupersededExpires
    <3>3. guardian_set' =
            [i \in SetIndex |->
               IF i = old
               THEN [guardian_set[old] EXCEPT
                       !.expiration_time = expiry(guardian_set[old])]
               ELSE IF i = new_index THEN FreshSet(keys) ELSE guardian_set[i]]
      BY <2>3, <3>1 DEF upgrade_guardian_set
    <3> SUFFICES ASSUME NEW i \in SetIndex, guardian_set[i] # None
                 PROVE  /\ guardian_set'[i] # None
                        /\ guardian_set'[i].keys = guardian_set[i].keys
                        /\ guardian_set'[i].creation_time
                              = guardian_set[i].creation_time
                        /\ guardian_set[i].expiration_time # 0 =>
                             guardian_set'[i].expiration_time
                               = guardian_set[i].expiration_time
      OBVIOUS
    <3>4. CASE i = old
      <4>1. guardian_set'[i] = [guardian_set[i] EXCEPT
                                  !.expiration_time = expiry(guardian_set[i])]
        BY <3>3, <3>4
      <4>2. guardian_set'[i] \in [keys : Seq(Address), creation_time : Time,
                                  expiration_time : {expiry(guardian_set[i])}]
        BY <3>1, <4>1 DEF GuardianSet
      <4>3. expiry(guardian_set[i]) \in Time
        BY <1>1, <2>3, <3>1, <3>4, BoundsAssumption
           DEF upgrade_guardian_set, expiry, BridgeInv, TypeOK, BridgeConfig
      <4>4. guardian_set'[i] # None
        BY <4>2, <4>3, NoneIsNoAccount DEF GuardianSet
      <4> QED
        BY <3>1, <3>2, <3>4, <4>1, <4>4 DEF GuardianSet
    <3>5. CASE i # old
      BY <3>1, <3>3, <3>5
    <3> QED
      BY <3>4, <3>5
  <2> QED
    BY <1>1, <2>1, <2>2, <2>3
       DEF Next, vars, Tick, post_message, verify_vaa
<1> QED
  BY <1>1, BridgeInvariance, PTL DEF Spec, SetsNeverRewritten
=============================================================================

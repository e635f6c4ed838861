----------------------------- MODULE VaaProofs -----------------------------
(***************************************************************************)
(* Facts about the signature rules of module Vaa, for lists of any length. *)
(***************************************************************************)
EXTENDS Vaa, SequenceTheorems, FiniteSetTheorems, WellFoundedInduction, TLAPS

(* A non-empty set of natural numbers has a least element.  The theorems   *)
(* of NaturalsInduction take an operator parameter; this one is derived    *)
(* from the well-foundedness of strict inclusion between finite sets.      *)
LEMMA LeastNat ==
  ASSUME NEW T, T \subseteq Nat, T # {}
  PROVE  \E x \in T : \A y \in T : x <= y
<1> DEFINE Below(x) == 0 .. x - 1
           Belows == {Below(x) : x \in T}
<1>1. Belows \subseteq FiniteSubsetsOf(Nat)
  <2>1. ASSUME NEW x \in T PROVE Below(x) \in FiniteSubsetsOf(Nat)
    BY FS_Interval DEF FiniteSubsetsOf
  <2>2. QED
    BY <2>1
<1>2. Belows # {}
  OBVIOUS
<1>3. \E b \in Belows : \A w \in Belows : <<w, b>> \notin StrictSubsetOrdering(Nat)
  <2> HIDE DEF Belows
  <2>1. QED
    BY <1>1, <1>2, FS_StrictSubsetOrderingWellFounded, WFMin
<1>4. PICK x \in T : \A w \in Belows : <<w, Below(x)>> \notin StrictSubsetOrdering(Nat)
  BY <1>3
<1>5. ASSUME NEW y \in T, y < x PROVE FALSE
  <2>1. Below(y) \in Belows
    OBVIOUS
  <2>2. Below(y) \subseteq Below(x)
    BY <1>5
  <2>3. y \in Below(x) /\ y \notin Below(y)
    BY <1>5
  <2>4. <<Below(y), Below(x)>> \in StrictSubsetOrdering(Nat)
    BY <2>2, <2>3 DEF StrictSubsetOrdering
  <2>5. QED
    BY <1>4, <2>1, <2>4
<1>6. \A y \in T : x <= y
  BY <1>5
<1>7. QED
  BY <1>6

(* quorum(n) is more than two thirds of n, and is never out of reach of a  *)
(* set that has a guardian; so two quorums share more than a third of it.  *)
THEOREM QuorumIsSupermajority ==
  ASSUME NEW n \in Nat
  PROVE  /\ quorum(n) \in Nat
         /\ quorum(n) >= 1
         /\ 3 * quorum(n) > 2 * n
         /\ n > 0 => quorum(n) <= n
BY DEF quorum

-----------------------------------------------------------------------------
(* Signature lists.  S is a set of signatures; a list in the order that    *)
(* verify checks pairwise is ordered altogether.                           *)
LEMMA AscendingThroughout ==
  ASSUME NEW S, \A x \in S : x.guardian_index \in Nat,
         NEW sigs \in Seq(S), StrictlyAscending(sigs)
  PROVE  \A i, j \in 1 .. Len(sigs) :
            i < j => sigs[i].guardian_index < sigs[j].guardian_index
<1> DEFINE Index(i) == sigs[i].guardian_index
           Bad == {j \in 1 .. Len(sigs) : \E i \in 1 .. j - 1 : ~ Index(i) < Index(j)}
<1>1. Len(sigs) \in Nat /\ \A i \in 1 .. Len(sigs) : Index(i) \in Nat
  BY ElementOfSeq, LenProperties
<1>2. \A i \in 1 .. Len(sigs) - 1 : Index(i) < Index(i + 1)
  BY DEF StrictlyAscending
<1> HIDE DEF Index
<1>3. ASSUME Bad # {} PROVE FALSE
  <2>1. PICK j \in Bad : \A k \in Bad : j <= k
    <3>1. Bad \subseteq Nat
      BY <1>1
    <3>2. QED
      BY <1>3, <3>1, LeastNat
  <2>2. PICK i \in 1 .. j - 1 : ~ Index(i) < Index(j)
    BY <2>1
  <2>3. j - 1 \in 1 .. Len(sigs) - 1 /\ j - 1 \in 1 .. Len(sigs)
    BY <1>1, <2>1, <2>2
  <2>4. Index(j - 1) < Index(j)
    BY <1>2, <2>3, <2>1
  <2>5. i = j - 1 \/ Index(i) < Index(j - 1)
    BY <1>1, <2>1, <2>2, <2>3
  <2>6. QED
    BY <1>1, <2>1, <2>2, <2>3, <2>4, <2>5
<1>4. QED
  BY <1>1, <1>3 DEF Index

(* binary_search finds the position of an index that the list lacks.       *)
LEMMA SearchPositionFound ==
  ASSUME NEW S, \A x \in S : x.guardian_index \in Nat,
         NEW sigs \in Seq(S), StrictlyAscending(sigs),
         NEW index \in Nat
  PROVE  /\ SearchPosition(sigs, index) \in 0 .. Len(sigs)
         /\ \A i \in 1 .. Len(sigs) :
               i <= SearchPosition(sigs, index) <=> sigs[i].guardian_index < index
<1> DEFINE Above == {i \in 1 .. Len(sigs) : ~ sigs[i].guardian_index < index}
                      \cup {Len(sigs) + 1}
<1>1. Len(sigs) \in Nat /\ \A i \in 1 .. Len(sigs) : sigs[i].guardian_index \in Nat
  BY ElementOfSeq, LenProperties
<1>2. PICK least \in Above : \A k \in Above : least <= k
  <2>1. Above \subseteq Nat /\ Above # {}
    BY <1>1
  <2> HIDE DEF Above
  <2>2. QED
    BY <2>1, LeastNat
<1>3. least - 1 \in 0 .. Len(sigs)
  BY <1>1, <1>2
<1>4. ASSUME NEW i \in 1 .. Len(sigs)
      PROVE  i <= least - 1 <=> sigs[i].guardian_index < index
  <2>1. i < least => sigs[i].guardian_index < index
    BY <1>1, <1>2
  <2>2. i = least => ~ sigs[i].guardian_index < index
    BY <1>1, <1>2
  <2>3. i > least => ~ sigs[i].guardian_index < index
    BY <1>1, <1>2, AscendingThroughout
  <2>4. QED
    BY <1>1, <1>2, <1>3, <2>1, <2>2, <2>3
<1>5. QED
  BY <1>3, <1>4 DEF SearchPosition

(* insert_sorted puts the signature in and keeps the order, so that no     *)
(* sequence of insertions can make verify refuse a list for its order.     *)
THEOREM InsertSortedKeepsOrder ==
  ASSUME NEW S, \A x \in S : x.guardian_index \in Nat,
         NEW sigs \in Seq(S), StrictlyAscending(sigs),
         NEW sig \in S, ~ has_guardian(sigs, sig.guardian_index)
  PROVE  LET result == insert_sorted(sigs, sig) IN
         /\ result \in Seq(S)
         /\ Len(result) = Len(sigs) + 1
         /\ StrictlyAscending(result)
         /\ \A i \in 1 .. Len(result) :
              result[i] = sig \/ \E j \in 1 .. Len(sigs) : result[i] = sigs[j]
         /\ \E i \in 1 .. Len(result) : result[i] = sig
         /\ \A j \in 1 .. Len(sigs) : \E i \in 1 .. Len(result) : result[i] = sigs[j]
<1> DEFINE p == SearchPosition(sigs, sig.guardian_index)
           low == SubSeq(sigs, 1, p)
           high == SubSeq(sigs, p + 1, Len(sigs))
           front == low \o <<sig>>
           result == insert_sorted(sigs, sig)
<1>1. Len(sigs) \in Nat /\ \A i \in 1 .. Len(sigs) : sigs[i] \in S
  BY ElementOfSeq, LenProperties
<1>2. /\ p \in 0 .. Len(sigs)
      /\ \A i \in 1 .. Len(sigs) :
            i <= p <=> sigs[i].guardian_index < sig.guardian_index
  BY SearchPositionFound
<1> HIDE DEF p
<1>3. result = low \o <<sig>> \o high
  <2>1. (p + 1) - 1 = p
    BY <1>1, <1>2
  <2>2. result = SubSeq(sigs, 1, (p + 1) - 1) \o <<sig>> \o high
    BY Zenon DEF insert_sorted, InsertAt, p
  <2>3. QED
    BY <2>1, <2>2
<1>4. /\ low \in Seq(S) /\ Len(low) = p
      /\ \A i \in 1 .. p : low[i] = sigs[i]
  BY <1>1, <1>2, SubSeqProperties
<1>5. /\ high \in Seq(S) /\ Len(high) = Len(sigs) - p
      /\ \A i \in 1 .. Len(sigs) - p : high[i] = sigs[p + i]
  BY <1>1, <1>2, SubSeqProperties
<1>6. <<sig>> \in Seq(S) /\ Len(<<sig>>) = 1 /\ <<sig>>[1] = sig
  OBVIOUS
<1> HIDE DEF low, high
<1>7. /\ front \in Seq(S) /\ Len(front) = p + 1
      /\ \A i \in 1 .. p + 1 : front[i] = IF i <= p THEN sigs[i] ELSE sig
  BY <1>1, <1>2, <1>4, <1>6, ConcatProperties
<1>8. /\ result \in Seq(S) /\ Len(result) = Len(sigs) + 1
      /\ \A i \in 1 .. Len(sigs) + 1 : result[i] =
            IF i <= p THEN sigs[i] ELSE IF i = p + 1 THEN sig ELSE sigs[i - 1]
  <2>1. result = front \o high
    BY <1>3
  <2> HIDE DEF front, result
  <2>2. /\ result \in Seq(S)
        /\ Len(result) = Len(front) + Len(high)
        /\ \A i \in 1 .. Len(front) + Len(high) : result[i] =
             IF i <= Len(front) THEN front[i] ELSE high[i - Len(front)]
    BY <1>5, <1>7, <2>1, ConcatProperties
  <2>3. Len(front) + Len(high) = Len(sigs) + 1
    BY <1>1, <1>2, <1>5, <1>7
  <2>4. ASSUME NEW i \in p + 2 .. Len(sigs) + 1
        PROVE  result[i] = sigs[i - 1]
    <3>1. i - (p + 1) \in 1 .. Len(sigs) - p /\ p + (i - (p + 1)) = i - 1
      BY <1>1, <1>2
    <3>2. result[i] = high[i - (p + 1)]
      BY <1>1, <1>2, <1>7, <2>2, <2>3
    <3>3. QED
      BY <1>5, <3>1, <3>2
  <2>5. ASSUME NEW i \in 1 .. p + 1
        PROVE  result[i] = IF i <= p THEN sigs[i] ELSE sig
    BY <1>1, <1>2, <1>7, <2>2, <2>3
  <2>6. ASSUME NEW i \in 1 .. Len(sigs) + 1
        PROVE  result[i] =
          IF i <= p THEN sigs[i] ELSE IF i = p + 1 THEN sig ELSE sigs[i - 1]
    <3>1. i \in 1 .. p + 1 \/ i \in p + 2 .. Len(sigs) + 1
      BY <1>1, <1>2
    <3>2. i \in 1 .. p + 1 => (i <= p \/ i = p + 1)
      BY <1>1, <1>2
    <3>3. i \in p + 2 .. Len(sigs) + 1 => ~ i <= p /\ i # p + 1
      BY <1>1, <1>2
    <3>4. QED
      BY <2>4, <2>5, <3>1, <3>2, <3>3
  <2>7. QED
    BY <2>2, <2>3, <2>6
<1> HIDE DEF result
<1>9. \A i \in 1 .. Len(sigs) : sigs[i].guardian_index # sig.guardian_index
  BY DEF has_guardian
<1>10. StrictlyAscending(result)
  <2>1. SUFFICES ASSUME NEW i \in 1 .. Len(sigs)
                 PROVE  result[i].guardian_index < result[i + 1].guardian_index
    BY <1>1, <1>8 DEF StrictlyAscending
  <2>2. CASE i < p
    <3>1. i \in 1 .. Len(sigs) - 1 /\ result[i] = sigs[i] /\ result[i + 1] = sigs[i + 1]
      BY <1>1, <1>2, <1>8, <2>2
    <3>2. QED
      BY <3>1 DEF StrictlyAscending
  <2>3. CASE i = p
    <3>1. result[i] = sigs[i] /\ result[i + 1] = sig
      BY <1>1, <1>2, <1>8, <2>3
    <3>2. QED
      BY <1>2, <2>3, <3>1
  <2>4. CASE i = p + 1
    <3>1. result[i] = sig /\ result[i + 1] = sigs[i]
      BY <1>1, <1>2, <1>8, <2>4
    <3>2. ~ sigs[i].guardian_index < sig.guardian_index
      BY <1>2, <2>4
    <3>3. QED
      BY <1>1, <1>9, <3>1, <3>2
  <2>5. CASE i > p + 1
    <3>1. i - 1 \in 1 .. Len(sigs) - 1 /\ result[i] = sigs[i - 1] /\ result[i + 1] = sigs[i]
      BY <1>1, <1>2, <1>8, <2>5
    <3>2. sigs[i - 1].guardian_index < sigs[(i - 1) + 1].guardian_index
      BY <3>1 DEF StrictlyAscending
    <3>3. QED
      BY <3>1, <3>2
  <2>6. QED
    BY <1>2, <2>2, <2>3, <2>4, <2>5
<1>11. \A i \in 1 .. Len(result) :
         result[i] = sig \/ \E j \in 1 .. Len(sigs) : result[i] = sigs[j]
  BY <1>1, <1>2, <1>8
<1>12. \E i \in 1 .. Len(result) : result[i] = sig
  <2>1. p + 1 \in 1 .. Len(result) /\ result[p + 1] = sig
    BY <1>1, <1>2, <1>8
  <2>2. QED
    BY <2>1
<1>13. ASSUME NEW j \in 1 .. Len(sigs)
       PROVE  \E i \in 1 .. Len(result) : result[i] = sigs[j]
  <2>1. CASE j <= p
    BY <1>1, <1>2, <1>8, <2>1
  <2>2. CASE ~ j <= p
    <3>1. j + 1 \in 1 .. Len(result) /\ result[j + 1] = sigs[(j + 1) - 1]
      BY <1>1, <1>2, <1>8, <2>2
    <3>2. QED
      BY <1>1, <3>1
  <2>3. QED
    BY <2>1, <2>2
<1>14. QED
  BY <1>8, <1>10, <1>11, <1>12, <1>13 DEF result

(* A list in strict order names as many guardians as it has entries.       *)
LEMMA AscendingCardinality ==
  ASSUME NEW S, \A x \in S : x.guardian_index \in Nat,
         NEW sigs \in Seq(S), StrictlyAscending(sigs)
  PROVE  /\ IsFiniteSet(SignerIndices(sigs))
         /\ Cardinality(SignerIndices(sigs)) = Len(sigs)
<1> DEFINE n == Len(sigs)
           index == [i \in 1 .. n |-> sigs[i].guardian_index]
<1>1. n \in Nat /\ \A i \in 1 .. n : sigs[i].guardian_index \in Nat
  BY ElementOfSeq, LenProperties
<1>2. \A i, j \in 1 .. n : i < j => sigs[i].guardian_index < sigs[j].guardian_index
  BY AscendingThroughout
<1>3. index \in Bijection(1 .. n, SignerIndices(sigs))
  <2>1. index \in [1 .. n -> SignerIndices(sigs)]
    BY DEF SignerIndices
  <2>2. ASSUME NEW i \in 1 .. n, NEW j \in 1 .. n, index[i] = index[j]
        PROVE  i = j
    BY <1>1, <1>2, <2>2
  <2>3. \A g \in SignerIndices(sigs) : \E i \in 1 .. n : index[i] = g
    BY DEF SignerIndices
  <2>4. QED
    BY <2>1, <2>2, <2>3 DEF Bijection, Injection, Surjection, IsInjective
<1>4. ExistsBijection(1 .. n, SignerIndices(sigs))
  BY <1>3 DEF ExistsBijection
<1>5. QED
  BY <1>1, <1>4, FS_NatBijection, FS_CountingElements

(* What verify means: a list it accepts names as many different guardians  *)
(* as it has entries, all members of the set, and these are a quorum.      *)
THEOREM VerifiedByQuorum ==
  ASSUME NEW S, \A x \in S : x.guardian_index \in Nat,
         NEW sigs \in Seq(S),
         NEW A, NEW keys \in Seq(A), verify(sigs, keys)
  PROVE  /\ SignerIndices(sigs) \subseteq 0 .. Len(keys) - 1
         /\ IsFiniteSet(SignerIndices(sigs))
         /\ Cardinality(SignerIndices(sigs)) >= quorum(Len(keys))
<1>1. \A i \in 1 .. Len(sigs) : sigs[i].guardian_index \in Nat
  BY ElementOfSeq, LenProperties
<1>2. Len(keys) \in Nat
  BY LenProperties
<1>3. IsFiniteSet(SignerIndices(sigs)) /\ Cardinality(SignerIndices(sigs)) = Len(sigs)
  BY AscendingCardinality DEF verify
<1>4. SignerIndices(sigs) \subseteq 0 .. Len(keys) - 1
  BY <1>1, <1>2 DEF verify, SignedByMember, SignerIndices
<1>5. QED
  BY <1>3, <1>4 DEF verify
=============================================================================

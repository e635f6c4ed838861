----------------------------- MODULE WireProofs -----------------------------
(***************************************************************************)
(* For every width of the format: encode and the two parsers are inverse   *)
(* to one another, both parsers accept the same bytes, and the walking one *)
(* stays inside its input.  First the integers and the parts of a message, *)
(* then whole messages, then the walk, whose invariant says at every read  *)
(* that what has been read is what the other parser finds at the offsets   *)
(* it computes.                                                            *)
(***************************************************************************)
EXTENDS WireFormat, DataLemmas

-----------------------------------------------------------------------------
(* Big-endian integers.                                                    *)

LEMMA ByteWidth == BYTE \in Nat \ {0, 1}
BY WidthAssumption

\* The running values of from_be_bytes.
LEMMA ValueRecursion ==
  ASSUME NEW data \in Seq(Byte)
  PROVE  \E value \in [0 .. Len(data) -> Nat] :
           /\ value[0] = 0
           /\ \A i \in 1 .. Len(data) : value[i] = value[i - 1] * BYTE + data[i]
           /\ from_be_bytes(data) = value[Len(data)]
<1> DEFINE n == Len(data)
           step == [i \in 1 .. n |-> [x \in Nat |-> x * BYTE + data[i]]]
           Equation(f) == f = [i \in 0 .. Len(data) |->
                                 IF i = 0 THEN 0 ELSE f[i - 1] * BYTE + data[i]]
           chosen == CHOOSE f : Equation(f)
<1>1. n \in Nat /\ 0 \in Nat /\ \A i \in 1 .. n : data[i] \in Nat
  BY ByteWidth, LenProperties, ElementOfSeq DEF Byte
<1>2. step \in [1 .. n -> [Nat -> Nat]]
  BY <1>1, ByteWidth
<1>3. PICK v \in [0 .. n -> Nat] : Solves(v, n, 0, step)
  <2> HIDE DEF step, n
  <2> QED
    BY <1>1, <1>2, RecursionHasSolution
<1>4. v[0] = 0 /\ \A i \in 1 .. n : v[i] = v[i - 1] * BYTE + data[i]
  <2>1. \A i \in 1 .. n : v[i - 1] \in Nat
    BY <1>1
  <2> QED
    BY <1>3, <2>1 DEF Solves
<1>5. Equation(chosen)
  <2>1. Equation(v)
    BY <1>1, <1>4
  <2> HIDE DEF Equation
  <2> QED
    BY <2>1
<1>6. from_be_bytes(data) = chosen[n]
  BY DEF from_be_bytes
<1> HIDE DEF chosen
<1>7. \A i \in 0 .. n : chosen[i] = v[i]
  <2> DEFINE Same == {i \in 0 .. n : chosen[i] = v[i]}
  <2>1. 0 \in Same
    BY <1>1, <1>4, <1>5
  <2>2. ASSUME NEW k \in 0 .. n - 1, k \in Same PROVE k + 1 \in Same
    <3>1. chosen[k + 1] = chosen[k] * BYTE + data[k + 1]
      BY <1>1, <1>5
    <3> QED
      BY <1>1, <1>4, <2>2, <3>1
  <2> HIDE DEF Same
  <2>3. \A k \in 0 .. n : k \in Same
    BY <1>1, <2>1, <2>2, UpTo
  <2> QED
    BY <2>3 DEF Same
<1> QED
  BY <1>1, <1>4, <1>6, <1>7

\* Any solution of the recursion of shifted is what it computes.
LEMMA ShiftSolution ==
  ASSUME NEW n \in Nat, NEW m \in Nat, NEW s \in [0 .. m -> Nat],
         s[0] = n, \A i \in 1 .. m : s[i] = s[i - 1] \div BYTE, NEW k \in 0 .. m
  PROVE  shifted(n, k) = s[k]
<1> DEFINE Equation(f) == f = [i \in 0 .. k |->
                                 IF i = 0 THEN n ELSE f[i - 1] \div BYTE]
           chosen == CHOOSE f : Equation(f)
           v == [i \in 0 .. k |-> s[i]]
<1>1. Equation(chosen)
  <2>1. Equation(v)
    OBVIOUS
  <2> HIDE DEF Equation, v
  <2> QED
    BY <2>1
<1>2. shifted(n, k) = chosen[k]
  BY DEF shifted
<1> HIDE DEF chosen
<1>3. \A i \in 0 .. k : chosen[i] = s[i]
  <2> DEFINE Same == {i \in 0 .. k : chosen[i] = s[i]}
  <2>1. 0 \in Same
    BY <1>1
  <2>2. ASSUME NEW i \in 0 .. k - 1, i \in Same PROVE i + 1 \in Same
    <3>1. chosen[i + 1] = chosen[i] \div BYTE
      BY <1>1
    <3> QED
      BY <2>2, <3>1
  <2> HIDE DEF Same
  <2>3. k \in Nat
    OBVIOUS
  <2>4. \A i \in 0 .. k : i \in Same
    BY <2>1, <2>2, <2>3, UpTo
  <2> QED
    BY <2>4 DEF Same
<1> QED
  BY <1>2, <1>3

LEMMA ShiftStep ==
  ASSUME NEW n \in Nat, NEW k \in Nat
  PROVE  /\ shifted(n, 0) = n
         /\ shifted(n, k) \in Nat
         /\ shifted(n, k + 1) = shifted(n, k) \div BYTE
<1> DEFINE m == k + 1
           step == [i \in 1 .. m |-> [x \in Nat |-> x \div BYTE]]
<1>1. step \in [1 .. m -> [Nat -> Nat]] /\ m \in Nat
  BY ByteWidth
<1>2. PICK s \in [0 .. m -> Nat] : Solves(s, m, n, step)
  <2> HIDE DEF step, m
  <2> QED
    BY <1>1, RecursionHasSolution
<1>3. s[0] = n /\ \A i \in 1 .. m : s[i] = s[i - 1] \div BYTE
  <2>1. \A i \in 1 .. m : s[i - 1] \in Nat
    OBVIOUS
  <2> QED
    BY <1>2, <2>1 DEF Solves
<1>4. \A i \in 0 .. m : shifted(n, i) = s[i]
  BY <1>1, <1>3, ShiftSolution
<1> QED
  BY <1>3, <1>4

\* What follows a division: the two halves of the place-value system.
LEMMA PlaceValue ==
  ASSUME NEW m \in Nat
  PROVE  /\ m \div BYTE \in Nat
         /\ m % BYTE \in Byte
         /\ m = (m \div BYTE) * BYTE + (m % BYTE)
         /\ \A b \in Byte : (m * BYTE + b) \div BYTE = m /\ (m * BYTE + b) % BYTE = b
BY ByteWidth DEF Byte

LEMMA SmallRemainder ==
  ASSUME NEW n \in Nat, n < BYTE
  PROVE  n % BYTE = n
BY ByteWidth

LEMMA BytesOfInteger ==
  ASSUME NEW n \in Nat, NEW width \in Nat
  PROVE  /\ to_be_bytes(n, width) \in Seq(Byte)
         /\ Len(to_be_bytes(n, width)) = width
         /\ \A i \in 1 .. width : to_be_bytes(n, width)[i] = shifted(n, width - i) % BYTE
<1>1. \A i \in 1 .. width : shifted(n, width - i) % BYTE \in Byte
  BY ShiftStep, PlaceValue
<1> QED
  BY <1>1 DEF to_be_bytes

(* from_be_bytes undoes to_be_bytes for an integer that fits its width.    *)
LEMMA IntegerRoundTrip ==
  ASSUME NEW n, NEW width \in Nat, Fits(n, width)
  PROVE  from_be_bytes(to_be_bytes(n, width)) = n
<1> DEFINE data == to_be_bytes(n, width)
<1>1. n \in Nat /\ shifted(n, width) = 0
  BY DEF Fits
<1>2. /\ data \in Seq(Byte) /\ Len(data) = width
      /\ \A i \in 1 .. width : data[i] = shifted(n, width - i) % BYTE
  BY <1>1, BytesOfInteger
<1> HIDE DEF data
<1>3. PICK value \in [0 .. width -> Nat] :
        /\ value[0] = 0
        /\ \A i \in 1 .. width : value[i] = value[i - 1] * BYTE + data[i]
        /\ from_be_bytes(data) = value[width]
  BY <1>2, ValueRecursion
<1> DEFINE Right == {i \in 0 .. width : value[i] = shifted(n, width - i)}
<1>4. 0 \in Right
  BY <1>1, <1>3
<1>5. ASSUME NEW i \in 0 .. width - 1, i \in Right PROVE i + 1 \in Right
  <2> DEFINE j == width - (i + 1)
             rest == shifted(n, j)
  <2>1. rest \in Nat /\ shifted(n, width - i) = rest \div BYTE
    <3>1. j \in Nat /\ j + 1 = width - i
      OBVIOUS
    <3> HIDE DEF j
    <3>2. shifted(n, j + 1) = shifted(n, j) \div BYTE /\ shifted(n, j) \in Nat
      BY <1>1, <3>1, ShiftStep
    <3> QED
      BY <3>1, <3>2
  <2>2. value[i + 1] = (rest \div BYTE) * BYTE + (rest % BYTE)
    BY <1>2, <1>3, <1>5, <2>1
  <2> HIDE DEF rest
  <2>3. value[i + 1] = rest
    BY <2>1, <2>2, PlaceValue
  <2> QED
    BY <2>3 DEF rest
<1> HIDE DEF Right
<1>6. \A i \in 0 .. width : i \in Right
  BY <1>4, <1>5, UpTo
<1>7. value[width] = shifted(n, 0)
  BY <1>6 DEF Right
<1> QED
  BY <1>1, <1>3, <1>7, ShiftStep DEF data

(* And to_be_bytes undoes from_be_bytes.                                   *)
LEMMA BytesRoundTrip ==
  ASSUME NEW data \in Seq(Byte)
  PROVE  /\ Fits(from_be_bytes(data), Len(data))
         /\ to_be_bytes(from_be_bytes(data), Len(data)) = data
<1> DEFINE w == Len(data)
           n == from_be_bytes(data)
<1>1. w \in Nat /\ \A i \in 1 .. w : data[i] \in Byte
  BY LenProperties, ElementOfSeq
<1>2. PICK value \in [0 .. w -> Nat] :
        /\ value[0] = 0
        /\ \A i \in 1 .. w : value[i] = value[i - 1] * BYTE + data[i]
        /\ n = value[w]
  BY ValueRecursion
<1>3. n \in Nat
  BY <1>1, <1>2
<1> HIDE DEF n, w
<1> DEFINE Right == {k \in 0 .. w : shifted(n, k) = value[w - k]}
<1>4. 0 \in Right
  BY <1>1, <1>2, <1>3, ShiftStep
<1>5. ASSUME NEW k \in 0 .. w - 1, k \in Right PROVE k + 1 \in Right
  <2> DEFINE i == w - k
  <2>1. i \in 1 .. w /\ w - (k + 1) = i - 1 /\ value[i - 1] \in Nat
    BY <1>1
  <2>2. shifted(n, k + 1) = value[i] \div BYTE
    <3>1. k \in Nat
      OBVIOUS
    <3>2. shifted(n, k + 1) = shifted(n, k) \div BYTE
      BY <1>3, <3>1, ShiftStep
    <3> QED
      BY <1>5, <3>2
  <2>3. value[i] = value[i - 1] * BYTE + data[i] /\ data[i] \in Byte
    BY <1>1, <1>2, <2>1
  <2> HIDE DEF i
  <2>4. shifted(n, k + 1) = value[i - 1]
    BY <2>1, <2>2, <2>3, PlaceValue
  <2> QED
    BY <1>1, <2>1, <2>4
<1> HIDE DEF Right
<1>6. \A k \in 0 .. w : shifted(n, k) = value[w - k]
  <2>1. \A k \in 0 .. w : k \in Right
    BY <1>1, <1>4, <1>5, UpTo
  <2> QED
    BY <2>1 DEF Right
<1>7. shifted(n, w) = 0
  BY <1>1, <1>2, <1>6
<1>8. ASSUME NEW i \in 1 .. w PROVE to_be_bytes(n, w)[i] = data[i]
  <2>1. shifted(n, w - i) = value[i] /\ value[i - 1] \in Nat
    BY <1>1, <1>6
  <2>2. value[i] % BYTE = data[i]
    <3>1. value[i] = value[i - 1] * BYTE + data[i] /\ data[i] \in Byte
      BY <1>1, <1>2
    <3>2. (value[i - 1] * BYTE + data[i]) % BYTE = data[i]
      BY <2>1, <3>1, PlaceValue
    <3> QED
      BY <3>1, <3>2
  <2> QED
    BY <1>1, <1>3, <2>1, <2>2, BytesOfInteger
<1>9. to_be_bytes(n, w) = data
  <2>1. /\ to_be_bytes(n, w) \in Seq(Byte) /\ Len(to_be_bytes(n, w)) = w
        /\ Len(data) = w
    BY <1>1, <1>3, BytesOfInteger DEF w
  <2> QED
    BY <1>8, <2>1, SeqEqual
<1> QED
  BY <1>3, <1>7, <1>9 DEF Fits, n, w

-----------------------------------------------------------------------------
(* Signature entries and fields.                                           *)

LEMMA Widths ==
  /\ BYTE \in Nat \ {0, 1} /\ INDEX_LEN \in Nat \ {0} /\ RS_LEN \in Nat
  /\ SIGNATURE_ENTRY_LEN = RS_LEN + 2 /\ SIGNATURE_ENTRY_LEN \in Nat \ {0}
  /\ sigs_start = INDEX_LEN + 2 /\ sigs_start \in Nat
  /\ MAX_PAYLOAD_LEN \in Nat
BY WidthAssumption DEF SIGNATURE_ENTRY_LEN, sigs_start

LEMMA ArrayIsSequence ==
  ASSUME NEW n \in Nat, NEW a
  PROVE  a \in ByteArray(n) <=> a \in Seq(Byte) /\ Len(a) = n
<1>1. ASSUME a \in ByteArray(n) PROVE a \in Seq(Byte) /\ Len(a) = n
  BY <1>1 DEF ByteArray
<1>2. ASSUME a \in Seq(Byte), Len(a) = n PROVE a \in ByteArray(n)
  BY <1>2, LenProperties DEF ByteArray
<1> QED
  BY <1>1, <1>2

LEMMA OneByte ==
  ASSUME NEW b \in Byte
  PROVE  <<b>> \in Seq(Byte) /\ Len(<<b>>) = 1 /\ <<b>>[1] = b
OBVIOUS

LEMMA EntryEncoded ==
  ASSUME NEW sig \in GuardianSignature
  PROVE  /\ SignatureEntry(sig) \in Seq(Byte)
         /\ Len(SignatureEntry(sig)) = SIGNATURE_ENTRY_LEN
         /\ EntryAt(SignatureEntry(sig)) = sig
<1> DEFINE first == <<sig.guardian_index>>
           last == <<sig.recovery_id>>
           rs == sig.rs
           front == first \o rs
           entry == front \o last
<1>1. /\ sig.guardian_index \in Byte /\ sig.recovery_id \in Byte
      /\ rs \in Seq(Byte) /\ Len(rs) = RS_LEN
      /\ sig = [guardian_index |-> sig.guardian_index, rs |-> rs,
                recovery_id |-> sig.recovery_id]
  BY Widths, ArrayIsSequence DEF GuardianSignature
<1>2. /\ first \in Seq(Byte) /\ Len(first) = 1 /\ first[1] = sig.guardian_index
      /\ last \in Seq(Byte) /\ Len(last) = 1 /\ last[1] = sig.recovery_id
  BY <1>1
<1> HIDE DEF first, last, rs
<1>3. /\ front \in Seq(Byte) /\ Len(front) = RS_LEN + 1
      /\ front[1] = sig.guardian_index
  <2>1. /\ front \in Seq(Byte) /\ Len(front) = Len(first) + Len(rs)
        /\ \A i \in 1 .. Len(first) : front[i] = first[i]
    BY <1>1, <1>2, Concatenated
  <2>2. 1 \in 1 .. Len(first) /\ 1 + RS_LEN = RS_LEN + 1
    BY <1>2, Widths
  <2> QED
    BY <1>1, <1>2, <2>1, <2>2
<1>4. SubSeq(front, 2, RS_LEN + 1) = rs
  <2>1. SubSeq(first \o rs, Len(first) + 1, Len(first) + Len(rs)) = rs
    BY <1>1, <1>2, SecondWhole
  <2>2. Len(first) + 1 = 2 /\ Len(first) + Len(rs) = RS_LEN + 1
    BY <1>1, <1>2, Widths
  <2> QED
    BY <2>1, <2>2
<1> HIDE DEF front
<1>5. /\ entry \in Seq(Byte) /\ Len(entry) = RS_LEN + 2
      /\ entry[1] = sig.guardian_index /\ entry[RS_LEN + 2] = sig.recovery_id
  <2>1. /\ entry \in Seq(Byte) /\ Len(entry) = Len(front) + Len(last)
        /\ \A i \in 1 .. Len(front) : entry[i] = front[i]
    BY <1>2, <1>3, Concatenated
  <2>2. entry[Len(front) + 1] = last[1]
    <3>1. Len(last) > 0
      BY <1>2
    <3> QED
      BY <1>2, <1>3, <3>1, AfterFirst
  <2>3. 1 \in 1 .. Len(front) /\ Len(front) + 1 = RS_LEN + 2
    BY <1>3, Widths
  <2> HIDE DEF entry
  <2> QED
    BY <1>2, <1>3, <2>1, <2>2, <2>3
<1>6. SubSeq(entry, 2, RS_LEN + 1) = rs
  <2> DEFINE a == 1
             b == RS_LEN + 1
  <2>1. a \in Nat /\ b \in Nat /\ a <= b /\ b <= Len(front) /\ a + 1 = 2
    BY <1>3, Widths
  <2>2. SubSeq(front \o last, a + 1, b) = SubSeq(front, a + 1, b)
    <3> HIDE DEF a, b
    <3> QED
      BY <1>2, <1>3, <2>1, SliceOfFirst
  <2> QED
    BY <1>4, <2>1, <2>2
<1>7. SignatureEntry(sig) = entry
  BY DEF SignatureEntry, entry, front, first, last, rs
<1> HIDE DEF entry
<1>8. EntryAt(entry) = sig
  BY <1>1, <1>5, <1>6 DEF EntryAt
<1> QED
  BY <1>5, <1>7, <1>8, Widths

LEMMA EntryDecoded ==
  ASSUME NEW entry \in Seq(Byte), Len(entry) = SIGNATURE_ENTRY_LEN
  PROVE  /\ EntryAt(entry) \in GuardianSignature
         /\ SignatureEntry(EntryAt(entry)) = entry
<1> DEFINE a == 1
           b == RS_LEN + 1
           rs == SubSeq(entry, 2, RS_LEN + 1)
<1>1. /\ a \in Nat /\ b \in Nat /\ a <= b /\ b <= Len(entry) /\ a + 1 = 2 /\ b - a = RS_LEN
      /\ Len(entry) = RS_LEN + 2
  BY Widths
<1>2. /\ rs \in Seq(Byte) /\ Len(rs) = RS_LEN
      /\ \A i \in 1 .. RS_LEN : rs[i] = entry[i + 1]
  <2>1. /\ SubSeq(entry, a + 1, b) \in Seq(Byte)
        /\ Len(SubSeq(entry, a + 1, b)) = b - a
        /\ \A i \in 1 .. b - a : SubSeq(entry, a + 1, b)[i] = entry[a + i]
    <3> HIDE DEF a, b
    <3> QED
      BY <1>1, SliceType
  <2>2. \A i \in 1 .. RS_LEN : a + i = i + 1
    BY Widths
  <2> QED
    BY <1>1, <2>1, <2>2
<1> HIDE DEF rs
<1>3. entry[1] \in Byte /\ entry[RS_LEN + 2] \in Byte
  <2>1. 1 \in 1 .. Len(entry) /\ RS_LEN + 2 \in 1 .. Len(entry)
    BY <1>1, Widths
  <2> QED
    BY <2>1, ElementOfSeq
<1>4. EntryAt(entry) = [guardian_index |-> entry[1], rs |-> rs,
                        recovery_id |-> entry[RS_LEN + 2]]
  BY DEF EntryAt, rs
<1>5. EntryAt(entry) \in GuardianSignature
  BY <1>2, <1>3, <1>4, Widths, ArrayIsSequence DEF GuardianSignature
<1> DEFINE first == <<entry[1]>>
           last == <<entry[RS_LEN + 2]>>
           front == first \o rs
<1>6. first = SubSeq(entry, 0 + 1, a) /\ last = SubSeq(entry, b + 1, Len(entry))
  <2>1. 1 \in 1 .. Len(entry) /\ Len(entry) \in 1 .. Len(entry) /\ b + 1 = Len(entry)
    BY <1>1, Widths
  <2> QED
    BY <1>1, <2>1, SliceOfOne
<1>7. SignatureEntry(EntryAt(entry)) = front \o last
  BY <1>4 DEF SignatureEntry
<1>8. rs = SubSeq(entry, a + 1, b)
  BY <1>1 DEF rs
<1> HIDE DEF first, last, a, b
<1>9. front = SubSeq(entry, 0 + 1, b)
  BY <1>1, <1>6, <1>8, SlicesJoined
<1>10. SubSeq(entry, 0 + 1, b) \o SubSeq(entry, b + 1, Len(entry)) = SubSeq(entry, 0 + 1, Len(entry))
  BY <1>1, SlicesJoined, LenProperties
<1>11. SubSeq(entry, 0 + 1, Len(entry)) = entry
  BY SubSeqFull
<1> QED
  BY <1>5, <1>6, <1>7, <1>9, <1>10, <1>11

\* The values a field of a VAA can have.
FieldFits(f, value) ==
  IF f = "emitter_address" THEN value \in ByteArray(FIELD_LEN[f])
  ELSE Fits(value, FIELD_LEN[f])

LEMMA FieldNames ==
  /\ Len(Fields) = 6
  /\ Fields[1] = "timestamp" /\ Fields[2] = "nonce" /\ Fields[3] = "emitter_chain"
  /\ Fields[4] = "emitter_address" /\ Fields[5] = "sequence"
  /\ Fields[6] = "consistency_level"
  /\ Field = {"timestamp", "nonce", "emitter_chain", "emitter_address", "sequence",
              "consistency_level"}
  /\ \A f \in Field : FIELD_LEN[f] \in Nat \ {0}
<1>1. DOMAIN Fields = 1 .. 6
  BY DEF Fields
<1>2. 1 .. 6 = {1, 2, 3, 4, 5, 6}
  OBVIOUS
<1>3. Field = {Fields[i] : i \in {1, 2, 3, 4, 5, 6}}
  BY <1>1, <1>2 DEF Field, ToSet
<1> QED
  BY <1>3, WidthAssumption DEF Fields

LEMMA FieldEncoded ==
  ASSUME NEW f \in Field, NEW value, FieldFits(f, value)
  PROVE  /\ FieldBytes(f, value) \in Seq(Byte)
         /\ Len(FieldBytes(f, value)) = FIELD_LEN[f]
         /\ FieldValue(f, FieldBytes(f, value)) = value
<1>1. FIELD_LEN[f] \in Nat
  BY FieldNames
<1>2. CASE f = "emitter_address"
  BY <1>1, <1>2, ArrayIsSequence DEF FieldFits, FieldBytes, FieldValue
<1>3. CASE f # "emitter_address"
  <2>1. Fits(value, FIELD_LEN[f]) /\ value \in Nat
    BY <1>3 DEF FieldFits, Fits
  <2> QED
    BY <1>1, <1>3, <2>1, BytesOfInteger, IntegerRoundTrip DEF FieldBytes, FieldValue
<1> QED
  BY <1>2, <1>3

LEMMA FieldDecoded ==
  ASSUME NEW f \in Field, NEW data \in Seq(Byte), Len(data) = FIELD_LEN[f]
  PROVE  /\ FieldFits(f, FieldValue(f, data))
         /\ FieldBytes(f, FieldValue(f, data)) = data
<1>1. FIELD_LEN[f] \in Nat
  BY FieldNames
<1>2. CASE f = "emitter_address"
  BY <1>1, <1>2, ArrayIsSequence DEF FieldFits, FieldBytes, FieldValue
<1>3. CASE f # "emitter_address"
  BY <1>3, BytesRoundTrip DEF FieldFits, FieldBytes, FieldValue
<1> QED
  BY <1>2, <1>3

-----------------------------------------------------------------------------
(* The body.                                                               *)

HeaderOffset == [k \in 0 .. 6 |-> IF k = 6 THEN BODY_HEADER_LEN ELSE FieldOffset(Fields[k + 1])]

(* The literal offsets of ParsedVaa::parse are where the fields begin.     *)
LEMMA HeaderOffsets ==
  /\ HeaderOffset \in [0 .. 6 -> Nat]
  /\ HeaderOffset[0] = 0 /\ HeaderOffset[6] = BODY_HEADER_LEN
  /\ \A k \in 1 .. 6 :
       /\ Fields[k] \in Field
       /\ HeaderOffset[k - 1] = FieldOffset(Fields[k])
       /\ HeaderOffset[k] = HeaderOffset[k - 1] + FIELD_LEN[Fields[k]]
       /\ HeaderOffset[k] <= BODY_HEADER_LEN
  /\ BODY_HEADER_LEN \in Nat
<1> DEFINE t == FIELD_LEN["timestamp"]
           n == FIELD_LEN["nonce"]
           c == FIELD_LEN["emitter_chain"]
           a == FIELD_LEN["emitter_address"]
           s == FIELD_LEN["sequence"]
           l == FIELD_LEN["consistency_level"]
<1>1. t \in Nat /\ n \in Nat /\ c \in Nat /\ a \in Nat /\ s \in Nat /\ l \in Nat
  BY FieldNames
<1>2. BODY_HEADER_LEN = t + n + c + a + s + l
  BY DEF BODY_HEADER_LEN
<1>3. /\ FieldOffset(Fields[1]) = 0 /\ FieldOffset(Fields[2]) = t
      /\ FieldOffset(Fields[3]) = t + n /\ FieldOffset(Fields[4]) = t + n + c
      /\ FieldOffset(Fields[5]) = t + n + c + a
      /\ FieldOffset(Fields[6]) = BODY_HEADER_LEN - l
  BY FieldNames DEF FieldOffset
<1>4. /\ HeaderOffset[0] = 0 /\ HeaderOffset[1] = t /\ HeaderOffset[2] = t + n
      /\ HeaderOffset[3] = t + n + c /\ HeaderOffset[4] = t + n + c + a
      /\ HeaderOffset[5] = BODY_HEADER_LEN - l /\ HeaderOffset[6] = BODY_HEADER_LEN
  BY <1>3 DEF HeaderOffset
<1>5. /\ FIELD_LEN[Fields[1]] = t /\ FIELD_LEN[Fields[2]] = n /\ FIELD_LEN[Fields[3]] = c
      /\ FIELD_LEN[Fields[4]] = a /\ FIELD_LEN[Fields[5]] = s /\ FIELD_LEN[Fields[6]] = l
  BY FieldNames
<1> HIDE DEF t, n, c, a, s, l
<1>6. BODY_HEADER_LEN \in Nat /\ BODY_HEADER_LEN - l = t + n + c + a + s
  BY <1>1, <1>2
<1>7. HeaderOffset \in [0 .. 6 -> Nat]
  <2>1. \A k \in 0 .. 6 : HeaderOffset[k] \in Nat
    <3>1. ASSUME NEW k \in 0 .. 6 PROVE HeaderOffset[k] \in Nat
      <4>1. k \in {0, 1, 2, 3, 4, 5, 6}
        OBVIOUS
      <4> QED
        BY <1>1, <1>4, <1>6, <4>1
    <3> QED
      BY <3>1
  <2>2. HeaderOffset = [k \in 0 .. 6 |-> HeaderOffset[k]]
    BY DEF HeaderOffset
  <2> QED
    BY <2>1, <2>2
<1>8. ASSUME NEW k \in 1 .. 6
      PROVE  /\ Fields[k] \in Field
             /\ HeaderOffset[k - 1] = FieldOffset(Fields[k])
             /\ HeaderOffset[k] = HeaderOffset[k - 1] + FIELD_LEN[Fields[k]]
             /\ HeaderOffset[k] <= BODY_HEADER_LEN
  <2>1. k = 1 \/ k = 2 \/ k = 3 \/ k = 4 \/ k = 5 \/ k = 6
    OBVIOUS
  <2>2. Fields[k] \in Field
    BY <2>1, FieldNames
  <2>3. HeaderOffset[k - 1] = FieldOffset(Fields[k])
    <3>1. k - 1 \in 0 .. 6 /\ k - 1 # 6 /\ (k - 1) + 1 = k
      OBVIOUS
    <3> QED
      BY <3>1 DEF HeaderOffset
  <2>4. CASE k = 1
    BY <1>1, <1>2, <1>4, <1>5, <2>2, <2>3, <2>4
  <2>5. CASE k = 2
    BY <1>1, <1>2, <1>4, <1>5, <2>2, <2>3, <2>5
  <2>6. CASE k = 3
    BY <1>1, <1>2, <1>4, <1>5, <2>2, <2>3, <2>6
  <2>7. CASE k = 4
    BY <1>1, <1>2, <1>4, <1>5, <2>2, <2>3, <2>7
  <2>8. CASE k = 5
    BY <1>1, <1>2, <1>4, <1>5, <1>6, <2>2, <2>3, <2>8
  <2>9. CASE k = 6
    BY <1>1, <1>2, <1>4, <1>5, <1>6, <2>2, <2>3, <2>9
  <2> QED
    BY <2>1, <2>4, <2>5, <2>6, <2>7, <2>8, <2>9
<1> QED
  BY <1>4, <1>6, <1>7, <1>8

LEMMA FieldPlace ==
  ASSUME NEW f \in Field
  PROVE  /\ FieldOffset(f) \in Nat /\ FIELD_LEN[f] \in Nat
         /\ FieldOffset(f) + FIELD_LEN[f] <= BODY_HEADER_LEN
         /\ \E k \in 1 .. 6 : /\ f = Fields[k]
                              /\ FieldOffset(f) = HeaderOffset[k - 1]
                              /\ FieldOffset(f) + FIELD_LEN[f] = HeaderOffset[k]
<1>1. PICK k \in 1 .. 6 : f = Fields[k]
  BY FieldNames
<1>2. /\ HeaderOffset[k - 1] = FieldOffset(f)
      /\ HeaderOffset[k] = HeaderOffset[k - 1] + FIELD_LEN[f]
      /\ HeaderOffset[k] <= BODY_HEADER_LEN
  BY <1>1, HeaderOffsets
<1>3. HeaderOffset[k - 1] \in Nat
  BY HeaderOffsets
<1> QED
  BY <1>1, <1>2, <1>3, FieldNames

HeaderParts(body) == [i \in 1 .. Len(Fields) |-> FieldBytes(Fields[i], body.header[Fields[i]])]

LEMMA HeaderPartsType ==
  ASSUME NEW body,
         \A f \in Field : FieldBytes(f, body.header[f]) \in Seq(Byte)
                          /\ Len(FieldBytes(f, body.header[f])) = FIELD_LEN[f]
  PROVE  /\ HeaderParts(body) \in Seq(Seq(Byte)) /\ Len(HeaderParts(body)) = 6
         /\ \A k \in 1 .. 6 : HeaderParts(body)[k] = FieldBytes(Fields[k], body.header[Fields[k]])
         /\ Offsets(HeaderOffset, HeaderParts(body))
<1>1. /\ Len(HeaderParts(body)) = 6
      /\ \A k \in 1 .. 6 : HeaderParts(body)[k] = FieldBytes(Fields[k], body.header[Fields[k]])
  BY FieldNames DEF HeaderParts
<1>2. \A k \in 1 .. 6 : Fields[k] \in Field
  BY HeaderOffsets
<1>3. \A k \in 1 .. 6 : HeaderParts(body)[k] \in Seq(Byte)
                        /\ Len(HeaderParts(body)[k]) = FIELD_LEN[Fields[k]]
  BY <1>1, <1>2
<1>4. HeaderParts(body) \in Seq(Seq(Byte))
  <2> DEFINE part(k) == FieldBytes(Fields[k], body.header[Fields[k]])
  <2>1. \A k \in 1 .. 6 : part(k) \in Seq(Byte)
    BY <1>2
  <2>2. HeaderParts(body) = [k \in 1 .. 6 |-> part(k)]
    BY FieldNames DEF HeaderParts
  <2> HIDE DEF part
  <2> QED
    BY <2>1, <2>2
<1>5. Offsets(HeaderOffset, HeaderParts(body))
  <2>1. HeaderOffset \in [0 .. 6 -> Nat] /\ HeaderOffset[0] = 0
    BY HeaderOffsets
  <2>2. ASSUME NEW k \in 1 .. 6
        PROVE  /\ Len(HeaderParts(body)[k]) > 0
               /\ HeaderOffset[k] = HeaderOffset[k - 1] + Len(HeaderParts(body)[k])
    <3>1. Fields[k] \in Field /\ HeaderOffset[k] = HeaderOffset[k - 1] + FIELD_LEN[Fields[k]]
      BY HeaderOffsets
    <3>2. FIELD_LEN[Fields[k]] \in Nat \ {0}
      BY <3>1, FieldNames
    <3>3. Len(HeaderParts(body)[k]) = FIELD_LEN[Fields[k]]
      BY <1>3
    <3> QED
      BY <3>1, <3>2, <3>3
  <2> QED
    BY <1>1, <2>1, <2>2 DEF Offsets
<1> QED
  BY <1>1, <1>4, <1>5

(* Where the fields of an encoded body are.                                *)
LEMMA BodyEncoded ==
  ASSUME NEW body, \A f \in Field : FieldFits(f, body.header[f]),
         body.payload \in Seq(Byte)
  PROVE  /\ body_encode(body) \in Seq(Byte)
         /\ Len(body_encode(body)) = BODY_HEADER_LEN + Len(body.payload)
         /\ \A f \in Field :
              FieldValue(f, SubSeq(body_encode(body), FieldOffset(f) + 1,
                                   FieldOffset(f) + FIELD_LEN[f])) = body.header[f]
         /\ SubSeq(body_encode(body), BODY_HEADER_LEN + 1, Len(body_encode(body)))
              = body.payload
<1> DEFINE parts == HeaderParts(body)
           head == FlattenSeq(parts)
           tail == body.payload
<1>1. \A f \in Field : /\ FieldBytes(f, body.header[f]) \in Seq(Byte)
                       /\ Len(FieldBytes(f, body.header[f])) = FIELD_LEN[f]
                       /\ FieldValue(f, FieldBytes(f, body.header[f])) = body.header[f]
  BY FieldEncoded
<1>2. /\ parts \in Seq(Seq(Byte)) /\ Len(parts) = 6 /\ Offsets(HeaderOffset, parts)
      /\ \A k \in 1 .. 6 : parts[k] = FieldBytes(Fields[k], body.header[Fields[k]])
  BY <1>1, HeaderPartsType
<1>3. body_encode(body) = head \o tail
  BY DEF body_encode, HeaderParts
<1> HIDE DEF parts
<1>4. /\ head \in Seq(Byte) /\ Len(head) = BODY_HEADER_LEN
      /\ \A k \in 1 .. 6 : SubSeq(head, HeaderOffset[k - 1] + 1, HeaderOffset[k]) = parts[k]
  <2>1. /\ head \in Seq(Byte) /\ Len(head) = HeaderOffset[Len(parts)]
        /\ \A k \in 1 .. Len(parts) :
             SubSeq(head, HeaderOffset[k - 1] + 1, HeaderOffset[k]) = parts[k]
    <3>1. parts \in Seq(Seq(Byte)) /\ Offsets(HeaderOffset, parts)
      BY <1>2
    <3> QED
      BY <3>1, FlattenedParts
  <2> HIDE DEF head
  <2>2. HeaderOffset[6] = BODY_HEADER_LEN
    BY HeaderOffsets
  <2> QED
    BY <1>2, <2>1, <2>2
<1> HIDE DEF head
<1>5. tail \in Seq(Byte) /\ Len(tail) \in Nat /\ BODY_HEADER_LEN \in Nat
  BY LenProperties, HeaderOffsets
<1> HIDE DEF tail
<1>6. /\ head \o tail \in Seq(Byte)
      /\ Len(head \o tail) = BODY_HEADER_LEN + Len(tail)
  BY <1>4, <1>5, ConcatProperties
<1>7. ASSUME NEW f \in Field
      PROVE  SubSeq(head \o tail, FieldOffset(f) + 1, FieldOffset(f) + FIELD_LEN[f])
               = FieldBytes(f, body.header[f])
  <2>1. PICK k \in 1 .. 6 : /\ f = Fields[k]
                            /\ FieldOffset(f) = HeaderOffset[k - 1]
                            /\ FieldOffset(f) + FIELD_LEN[f] = HeaderOffset[k]
    BY FieldPlace
  <2> DEFINE p == FieldOffset(f)
             q == FieldOffset(f) + FIELD_LEN[f]
  <2>2. p \in Nat /\ q \in Nat /\ p <= q /\ q <= Len(head)
    BY <1>4, FieldPlace
  <2>3. SubSeq(head, p + 1, q) = parts[k]
    BY <1>4, <2>1
  <2> HIDE DEF p, q
  <2>4. SubSeq(head \o tail, p + 1, q) = SubSeq(head, p + 1, q)
    BY <1>4, <1>5, <2>2, SliceOfFirst
  <2> QED
    BY <1>2, <2>1, <2>3, <2>4 DEF p, q
<1>8. SubSeq(head \o tail, BODY_HEADER_LEN + 1, BODY_HEADER_LEN + Len(tail)) = tail
  BY <1>4, <1>5, SecondWhole
<1> QED
  BY <1>1, <1>3, <1>6, <1>7, <1>8 DEF tail

(* A body that was read from bytes is encoded as these bytes.              *)
LEMMA BodyDecoded ==
  ASSUME NEW data \in Seq(Byte), Len(data) >= BODY_HEADER_LEN, NEW body,
         \A f \in Field :
           body.header[f] = FieldValue(f, SubSeq(data, FieldOffset(f) + 1,
                                                 FieldOffset(f) + FIELD_LEN[f])),
         body.payload = SubSeq(data, BODY_HEADER_LEN + 1, Len(data))
  PROVE  body_encode(body) = data
<1> DEFINE parts == HeaderParts(body)
           head == SubSeq(data, 0 + 1, BODY_HEADER_LEN)
<1>1. Len(data) \in Nat /\ BODY_HEADER_LEN \in Nat /\ 0 \in Nat /\ 0 <= BODY_HEADER_LEN
  BY LenProperties, HeaderOffsets
<1>2. head \in Seq(Byte) /\ Len(head) = BODY_HEADER_LEN - 0
  BY <1>1, SliceType
<1>3. ASSUME NEW f \in Field
      PROVE  /\ FieldBytes(f, body.header[f])
                  = SubSeq(data, FieldOffset(f) + 1, FieldOffset(f) + FIELD_LEN[f])
             /\ FieldBytes(f, body.header[f]) \in Seq(Byte)
             /\ Len(FieldBytes(f, body.header[f])) = FIELD_LEN[f]
             /\ SubSeq(head, FieldOffset(f) + 1, FieldOffset(f) + FIELD_LEN[f])
                  = SubSeq(data, FieldOffset(f) + 1, FieldOffset(f) + FIELD_LEN[f])
  <2> DEFINE p == FieldOffset(f)
             q == FieldOffset(f) + FIELD_LEN[f]
             x == SubSeq(data, p + 1, q)
  <2>1. p \in Nat /\ q \in Nat /\ p <= q /\ q <= BODY_HEADER_LEN /\ q <= Len(data)
        /\ q - p = FIELD_LEN[f] /\ q <= BODY_HEADER_LEN - 0 /\ 0 + p + 1 = p + 1 /\ 0 + q = q
    BY <1>1, FieldPlace
  <2>2. body.header[f] = FieldValue(f, x)
    OBVIOUS
  <2> HIDE DEF p, q
  <2>3. x \in Seq(Byte) /\ Len(x) = FIELD_LEN[f]
    BY <2>1, SliceType
  <2>4. SubSeq(head, p + 1, q) = x
    <3>1. SubSeq(SubSeq(data, 0 + 1, BODY_HEADER_LEN), p + 1, q) = SubSeq(data, 0 + p + 1, 0 + q)
      BY <1>1, <2>1, SliceOfSlice
    <3> QED
      BY <2>1, <3>1
  <2> HIDE DEF x
  <2>5. FieldBytes(f, body.header[f]) = x
    BY <2>2, <2>3, FieldDecoded
  <2> QED
    BY <2>3, <2>4, <2>5 DEF p, q, x
<1>4. /\ parts \in Seq(Seq(Byte)) /\ Len(parts) = 6 /\ Offsets(HeaderOffset, parts)
      /\ \A k \in 1 .. 6 : parts[k] = FieldBytes(Fields[k], body.header[Fields[k]])
  BY <1>3, HeaderPartsType
<1>5. body_encode(body) = FlattenSeq(parts) \o body.payload
  BY DEF body_encode, HeaderParts
<1> HIDE DEF parts, head
<1>6. ASSUME NEW k \in 1 .. 6
      PROVE  SubSeq(head, HeaderOffset[k - 1] + 1, HeaderOffset[k]) = parts[k]
  <2>1. /\ Fields[k] \in Field /\ HeaderOffset[k - 1] = FieldOffset(Fields[k])
        /\ HeaderOffset[k] = FieldOffset(Fields[k]) + FIELD_LEN[Fields[k]]
    BY HeaderOffsets
  <2> QED
    BY <1>3, <1>4, <2>1
<1>7. Len(head) = HeaderOffset[6]
  BY <1>1, <1>2, HeaderOffsets
<1>8. FlattenSeq(parts) = head
  <2>1. \A k \in 1 .. Len(parts) :
          SubSeq(head, HeaderOffset[k - 1] + 1, HeaderOffset[k]) = parts[k]
    BY <1>4, <1>6
  <2>2. Len(head) = HeaderOffset[Len(parts)]
    BY <1>4, <1>7
  <2> QED
    BY <1>2, <1>4, <2>1, <2>2, PartsFlattened
<1>9. head \o SubSeq(data, BODY_HEADER_LEN + 1, Len(data)) = SubSeq(data, 0 + 1, Len(data))
  <2>1. 0 <= BODY_HEADER_LEN /\ BODY_HEADER_LEN <= Len(data) /\ Len(data) <= Len(data)
    BY <1>1
  <2>2. SubSeq(data, 0 + 1, BODY_HEADER_LEN) \o SubSeq(data, BODY_HEADER_LEN + 1, Len(data))
          = SubSeq(data, 0 + 1, Len(data))
    BY <1>1, <2>1, SlicesJoined
  <2> QED
    BY <2>2 DEF head
<1>10. SubSeq(data, 0 + 1, Len(data)) = data
  BY SubSeqFull
<1> QED
  BY <1>5, <1>8, <1>9, <1>10

-----------------------------------------------------------------------------
(* The signatures.                                                         *)

EntryOffset(n) == [k \in 0 .. n |-> k * SIGNATURE_ENTRY_LEN]

LEMMA EntryPlace ==
  ASSUME NEW n \in Nat, NEW i \in 1 .. n
  PROVE  /\ (i - 1) * SIGNATURE_ENTRY_LEN \in Nat /\ i * SIGNATURE_ENTRY_LEN \in Nat
         /\ i * SIGNATURE_ENTRY_LEN = (i - 1) * SIGNATURE_ENTRY_LEN + SIGNATURE_ENTRY_LEN
         /\ i * SIGNATURE_ENTRY_LEN <= n * SIGNATURE_ENTRY_LEN
         /\ n * SIGNATURE_ENTRY_LEN \in Nat
<1> DEFINE e == SIGNATURE_ENTRY_LEN
<1>1. e \in Nat
  BY Widths
<1> HIDE DEF e
<1>2. \A x \in Nat : x * e \in Nat
  BY <1>1
<1>3. n - i \in Nat /\ i - 1 \in Nat /\ n = i + (n - i) /\ i = (i - 1) + 1
  OBVIOUS
<1>4. \A x, y \in Nat : (x + y) * e = x * e + y * e
  BY <1>1
<1>5. n * e = i * e + (n - i) * e /\ i * e = (i - 1) * e + 1 * e
  BY <1>3, <1>4
<1>6. 1 * e = e
  BY <1>1
<1> QED
  BY <1>1, <1>2, <1>3, <1>5, <1>6 DEF e

SignatureParts(sigs) == [i \in 1 .. Len(sigs) |-> SignatureEntry(sigs[i])]

LEMMA SignaturePartsType ==
  ASSUME NEW sigs \in Seq(GuardianSignature)
  PROVE  /\ SignatureParts(sigs) \in Seq(Seq(Byte)) /\ Len(SignatureParts(sigs)) = Len(sigs)
         /\ \A i \in 1 .. Len(sigs) : SignatureParts(sigs)[i] = SignatureEntry(sigs[i])
         /\ Offsets(EntryOffset(Len(sigs)), SignatureParts(sigs))
<1> DEFINE n == Len(sigs)
           part == [i \in 1 .. n |-> SignatureEntry(sigs[i])]
<1>1. n \in Nat /\ \A i \in 1 .. n : sigs[i] \in GuardianSignature
  BY LenProperties, ElementOfSeq
<1>2. \A i \in 1 .. n : SignatureEntry(sigs[i]) \in Seq(Byte)
                        /\ Len(SignatureEntry(sigs[i])) = SIGNATURE_ENTRY_LEN
  BY <1>1, EntryEncoded
<1>3. part \in [1 .. n -> Seq(Byte)]
  BY <1>2
<1>4. SignatureParts(sigs) = part
  BY DEF SignatureParts
<1>5. part \in Seq(Seq(Byte)) /\ Len(part) = n
  <2> HIDE DEF part
  <2> QED
    BY <1>1, <1>3
<1>6. EntryOffset(n) \in [0 .. n -> Nat] /\ EntryOffset(n)[0] = 0
  <2>1. \A k \in 0 .. n : k * SIGNATURE_ENTRY_LEN \in Nat
    BY Widths
  <2>2. 0 \in 0 .. n /\ 0 * SIGNATURE_ENTRY_LEN = 0
    BY <1>1, Widths
  <2> QED
    BY <2>1, <2>2 DEF EntryOffset
<1>7. ASSUME NEW k \in 1 .. n
      PROVE  Len(part[k]) > 0 /\ EntryOffset(n)[k] = EntryOffset(n)[k - 1] + Len(part[k])
  <2>1. k \in 0 .. n /\ k - 1 \in 0 .. n
    BY <1>1
  <2>2. k * SIGNATURE_ENTRY_LEN = (k - 1) * SIGNATURE_ENTRY_LEN + SIGNATURE_ENTRY_LEN
    BY <1>1, EntryPlace
  <2>3. EntryOffset(n)[k] = k * SIGNATURE_ENTRY_LEN
        /\ EntryOffset(n)[k - 1] = (k - 1) * SIGNATURE_ENTRY_LEN
    BY <2>1 DEF EntryOffset
  <2>4. Len(part[k]) = SIGNATURE_ENTRY_LEN /\ SIGNATURE_ENTRY_LEN \in Nat \ {0}
    BY <1>2, Widths
  <2> QED
    BY <2>2, <2>3, <2>4
<1> QED
  BY <1>4, <1>5, <1>6, <1>7 DEF Offsets

LEMMA SignaturesEncoded ==
  ASSUME NEW sigs \in Seq(GuardianSignature)
  PROVE  /\ FlattenSeq(SignatureParts(sigs)) \in Seq(Byte)
         /\ Len(FlattenSeq(SignatureParts(sigs))) = Len(sigs) * SIGNATURE_ENTRY_LEN
         /\ \A i \in 1 .. Len(sigs) :
              EntryAt(SubSeq(FlattenSeq(SignatureParts(sigs)),
                             (i - 1) * SIGNATURE_ENTRY_LEN + 1, i * SIGNATURE_ENTRY_LEN))
                = sigs[i]
<1> DEFINE n == Len(sigs)
           parts == SignatureParts(sigs)
           flat == FlattenSeq(parts)
           offset == EntryOffset(n)
<1>1. n \in Nat /\ \A i \in 1 .. n : sigs[i] \in GuardianSignature
  BY LenProperties, ElementOfSeq
<1>2. /\ parts \in Seq(Seq(Byte)) /\ Len(parts) = n /\ Offsets(offset, parts)
      /\ \A i \in 1 .. n : parts[i] = SignatureEntry(sigs[i])
  BY SignaturePartsType
<1> HIDE DEF parts
<1>3. /\ flat \in Seq(Byte) /\ Len(flat) = offset[Len(parts)]
      /\ \A k \in 1 .. Len(parts) : SubSeq(flat, offset[k - 1] + 1, offset[k]) = parts[k]
  <2> HIDE DEF offset
  <2> QED
    BY <1>2, FlattenedParts
<1> HIDE DEF flat, n
<1>4. \A k \in 0 .. n : offset[k] = k * SIGNATURE_ENTRY_LEN
  BY DEF EntryOffset
<1> HIDE DEF offset
<1>5. ASSUME NEW i \in 1 .. n
      PROVE  EntryAt(SubSeq(flat, (i - 1) * SIGNATURE_ENTRY_LEN + 1, i * SIGNATURE_ENTRY_LEN))
               = sigs[i]
  <2>1. i \in 0 .. n /\ i - 1 \in 0 .. n
    BY <1>1
  <2>2. offset[i] = i * SIGNATURE_ENTRY_LEN /\ offset[i - 1] = (i - 1) * SIGNATURE_ENTRY_LEN
    BY <1>4, <2>1
  <2>3. SubSeq(flat, (i - 1) * SIGNATURE_ENTRY_LEN + 1, i * SIGNATURE_ENTRY_LEN)
          = SignatureEntry(sigs[i])
    BY <1>2, <1>3, <2>2
  <2> QED
    BY <1>1, <2>3, EntryEncoded
<1>6. Len(flat) = n * SIGNATURE_ENTRY_LEN
  <2>1. n \in 0 .. n
    BY <1>1
  <2> QED
    BY <1>2, <1>3, <1>4, <2>1
<1> QED
  BY <1>3, <1>5, <1>6 DEF n, flat, parts

LEMMA SignaturesDecoded ==
  ASSUME NEW n \in Nat, NEW data \in Seq(Byte), Len(data) = n * SIGNATURE_ENTRY_LEN,
         NEW sigs, sigs = [i \in 1 .. n |->
                             EntryAt(SubSeq(data, (i - 1) * SIGNATURE_ENTRY_LEN + 1,
                                            i * SIGNATURE_ENTRY_LEN))]
  PROVE  /\ sigs \in Seq(GuardianSignature) /\ Len(sigs) = n
         /\ FlattenSeq(SignatureParts(sigs)) = data
<1> DEFINE entry(i) == SubSeq(data, (i - 1) * SIGNATURE_ENTRY_LEN + 1, i * SIGNATURE_ENTRY_LEN)
<1>1. ASSUME NEW i \in 1 .. n
      PROVE  entry(i) \in Seq(Byte) /\ Len(entry(i)) = SIGNATURE_ENTRY_LEN
  <2> DEFINE p == (i - 1) * SIGNATURE_ENTRY_LEN
             q == i * SIGNATURE_ENTRY_LEN
  <2>1. p \in Nat /\ q \in Nat /\ p <= q /\ q <= Len(data) /\ q - p = SIGNATURE_ENTRY_LEN
    <3>1. /\ p \in Nat /\ q \in Nat /\ q = p + SIGNATURE_ENTRY_LEN
          /\ q <= n * SIGNATURE_ENTRY_LEN
      BY EntryPlace
    <3> HIDE DEF p, q
    <3> QED
      BY <3>1, Widths
  <2> HIDE DEF p, q
  <2>2. SubSeq(data, p + 1, q) \in Seq(Byte) /\ Len(SubSeq(data, p + 1, q)) = q - p
    BY <2>1, SliceType
  <2> QED
    BY <2>1, <2>2 DEF p, q
<1> HIDE DEF entry
<1>2. \A i \in 1 .. n : /\ EntryAt(entry(i)) \in GuardianSignature
                        /\ SignatureEntry(EntryAt(entry(i))) = entry(i)
  BY <1>1, EntryDecoded
<1>3. sigs = [i \in 1 .. n |-> EntryAt(entry(i))]
  BY DEF entry
<1>4. sigs \in Seq(GuardianSignature) /\ Len(sigs) = n
  <2>1. sigs \in [1 .. n -> GuardianSignature]
    BY <1>2, <1>3
  <2> QED
    BY <2>1
<1>5. \A i \in 1 .. n : SignatureEntry(sigs[i]) = entry(i)
  BY <1>2, <1>3
<1> DEFINE parts == SignatureParts(sigs)
           offset == EntryOffset(n)
<1>6. /\ parts \in Seq(Seq(Byte)) /\ Len(parts) = n /\ Offsets(offset, parts)
      /\ \A i \in 1 .. n : parts[i] = SignatureEntry(sigs[i])
  BY <1>4, SignaturePartsType
<1> HIDE DEF parts
<1>7. \A k \in 0 .. n : offset[k] = k * SIGNATURE_ENTRY_LEN
  BY DEF EntryOffset
<1> HIDE DEF offset
<1>8. ASSUME NEW k \in 1 .. Len(parts)
      PROVE  SubSeq(data, offset[k - 1] + 1, offset[k]) = parts[k]
  <2>1. k \in 1 .. n /\ k \in 0 .. n /\ k - 1 \in 0 .. n
    BY <1>6
  <2>2. offset[k] = k * SIGNATURE_ENTRY_LEN /\ offset[k - 1] = (k - 1) * SIGNATURE_ENTRY_LEN
    BY <1>7, <2>1
  <2>3. SubSeq(data, offset[k - 1] + 1, offset[k]) = entry(k)
    BY <2>2 DEF entry
  <2> QED
    BY <1>5, <1>6, <2>1, <2>3
<1>9. Len(data) = offset[Len(parts)]
  <2>1. n \in 0 .. n
    OBVIOUS
  <2> QED
    BY <1>6, <1>7, <2>1
<1>10. FlattenSeq(parts) = data
  BY <1>6, <1>8, <1>9, PartsFlattened
<1> QED
  BY <1>4, <1>10 DEF parts

-----------------------------------------------------------------------------
(* The whole message.                                                      *)

LEMMA SliceInside ==
  ASSUME NEW data, NEW from, NEW n, from + n <= Len(data)
  PROVE  Slice(data, from, n) = SubSeq(data, from + 1, from + n)
BY DEF Slice

Message(v, index, c, sigs, body) == <<v>> \o index \o <<c>> \o sigs \o body

\* Where the parts of a message are found.
Layout(d, v, index, c, sigs, body) ==
  /\ d \in Seq(Byte) /\ Len(d) = sigs_start + Len(sigs) + Len(body)
  /\ d[1] = v /\ SubSeq(d, 1 + 1, 1 + INDEX_LEN) = index /\ d[sigs_start] = c
  /\ SubSeq(d, sigs_start + 1, sigs_start + Len(sigs)) = sigs
  /\ SubSeq(d, sigs_start + Len(sigs) + 1, Len(d)) = body

LEMMA EncodedLayout ==
  ASSUME NEW v \in Byte, NEW index \in Seq(Byte), Len(index) = INDEX_LEN, NEW c \in Byte,
         NEW sigs \in Seq(Byte), NEW body \in Seq(Byte)
  PROVE  Layout(Message(v, index, c, sigs, body), v, index, c, sigs, body)
<1> DEFINE first == <<v>>
           count == <<c>>
           one == first \o index
           two == one \o count
           three == two \o sigs
           d == Message(v, index, c, sigs, body)
<1>1. /\ first \in Seq(Byte) /\ Len(first) = 1 /\ first[1] = v
      /\ count \in Seq(Byte) /\ Len(count) = 1 /\ count[1] = c
      /\ Len(sigs) \in Nat /\ Len(body) \in Nat
  BY LenProperties
<1>2. d = three \o body
  BY DEF Message
<1> HIDE DEF first, count, d
<1>3. /\ one \in Seq(Byte) /\ Len(one) = 1 + INDEX_LEN /\ one[1] = v
      /\ SubSeq(one, 1 + 1, 1 + INDEX_LEN) = index
  <2>1. /\ one \in Seq(Byte) /\ Len(one) = 1 + INDEX_LEN /\ one[1] = v
    <3>1. /\ one \in Seq(Byte) /\ Len(one) = Len(first) + Len(index)
          /\ \A i \in 1 .. Len(first) : one[i] = first[i]
      BY <1>1, Concatenated
    <3> QED
      BY <1>1, <3>1
  <2> QED
    BY <1>1, <2>1, SecondWhole
<1> HIDE DEF one
<1>4. /\ two \in Seq(Byte) /\ Len(two) = sigs_start /\ two[1] = v /\ two[sigs_start] = c
  <2>1. 1 \in 1 .. Len(one) /\ 1 \in 1 .. Len(count) /\ (1 + INDEX_LEN) + 1 = sigs_start
    BY <1>1, <1>3, Widths
  <2>2. /\ two \in Seq(Byte) /\ Len(two) = Len(one) + Len(count)
        /\ \A i \in 1 .. Len(one) : two[i] = one[i]
        /\ two[Len(one) + 1] = count[1]
    <3>1. two \in Seq(Byte) /\ Len(two) = Len(one) + Len(count)
      BY <1>1, <1>3, Concatenated
    <3>2. \A i \in 1 .. Len(one) : two[i] = one[i]
      BY <1>1, <1>3, Concatenated
    <3>3. two[Len(one) + 1] = count[1]
      <4>1. one \in Seq(Byte) /\ count \in Seq(Byte) /\ Len(count) > 0
        BY <1>1, <1>3
      <4>2. (one \o count)[Len(one) + 1] = count[1]
        BY <4>1, AfterFirst
      <4> QED
        BY <4>2
    <3> QED
      BY <3>1, <3>2, <3>3
  <2> HIDE DEF two
  <2> QED
    BY <1>1, <1>3, <2>1, <2>2
<1> HIDE DEF two
<1>5. /\ three \in Seq(Byte) /\ Len(three) = sigs_start + Len(sigs)
      /\ three[1] = v /\ three[sigs_start] = c
  <2>1. 1 \in 1 .. Len(two) /\ sigs_start \in 1 .. Len(two)
    BY <1>4, Widths
  <2>2. /\ three \in Seq(Byte) /\ Len(three) = Len(two) + Len(sigs)
        /\ \A i \in 1 .. Len(two) : three[i] = two[i]
    BY <1>4, Concatenated
  <2> HIDE DEF three
  <2> QED
    BY <1>4, <2>1, <2>2
<1>6. SubSeq(three, sigs_start + 1, sigs_start + Len(sigs)) = sigs
  BY <1>4, SecondWhole
<1> HIDE DEF three
<1>7. /\ d \in Seq(Byte) /\ Len(d) = sigs_start + Len(sigs) + Len(body)
      /\ d[1] = v /\ d[sigs_start] = c
  <2>1. 1 \in 1 .. Len(three) /\ sigs_start \in 1 .. Len(three)
    BY <1>1, <1>5, Widths
  <2>2. /\ d \in Seq(Byte) /\ Len(d) = Len(three) + Len(body)
        /\ \A i \in 1 .. Len(three) : d[i] = three[i]
    <3>1. /\ three \o body \in Seq(Byte) /\ Len(three \o body) = Len(three) + Len(body)
      BY <1>5, Concatenated
    <3>2. \A i \in 1 .. Len(three) : (three \o body)[i] = three[i]
      BY <1>5, Concatenated
    <3> QED
      BY <1>2, <3>1, <3>2
  <2> QED
    BY <1>5, <2>1, <2>2
<1>8. SubSeq(d, sigs_start + Len(sigs) + 1, Len(d)) = body
  <2>1. SubSeq(three \o body, Len(three) + 1, Len(three) + Len(body)) = body
    BY <1>5, SecondWhole
  <2> QED
    BY <1>2, <1>5, <1>7, <2>1
<1>9. SubSeq(d, sigs_start + 1, sigs_start + Len(sigs)) = sigs
  <2> DEFINE p == sigs_start
             q == sigs_start + Len(sigs)
  <2>1. p \in Nat /\ q \in Nat /\ p <= q /\ q <= Len(three)
    BY <1>1, <1>5, Widths
  <2>2. SubSeq(three, p + 1, q) = sigs
    BY <1>6
  <2> HIDE DEF p, q
  <2>3. SubSeq(three \o body, p + 1, q) = SubSeq(three, p + 1, q)
    BY <1>5, <2>1, SliceOfFirst
  <2> QED
    BY <1>2, <2>2, <2>3 DEF p, q
<1>10. SubSeq(d, 1 + 1, 1 + INDEX_LEN) = index
  <2> DEFINE p == 1
             q == 1 + INDEX_LEN
  <2>1. /\ p \in Nat /\ q \in Nat /\ p <= q /\ q <= Len(three) /\ q <= Len(two) /\ q <= Len(one)
    BY <1>1, <1>3, <1>4, <1>5, Widths
  <2>2. SubSeq(one, p + 1, q) = index
    BY <1>3
  <2> HIDE DEF p, q
  <2>3. SubSeq(three \o body, p + 1, q) = SubSeq(three, p + 1, q)
    BY <1>5, <2>1, SliceOfFirst
  <2>4. SubSeq(two \o sigs, p + 1, q) = SubSeq(two, p + 1, q)
    BY <1>4, <2>1, SliceOfFirst
  <2>5. SubSeq(one \o count, p + 1, q) = SubSeq(one, p + 1, q)
    BY <1>1, <1>3, <2>1, SliceOfFirst
  <2>6. SubSeq(d, p + 1, q) = index
    BY <1>2, <2>2, <2>3, <2>4, <2>5 DEF two, three
  <2> QED
    BY <2>6 DEF p, q
<1> QED
  BY <1>7, <1>8, <1>9, <1>10 DEF d, Layout

LEMMA DecodedLayout ==
  ASSUME NEW d \in Seq(Byte), NEW m \in Nat, Len(d) >= sigs_start + m
  PROVE  /\ d[1] \in Byte /\ d[sigs_start] \in Byte
         /\ SubSeq(d, 1 + 1, 1 + INDEX_LEN) \in Seq(Byte)
         /\ Len(SubSeq(d, 1 + 1, 1 + INDEX_LEN)) = INDEX_LEN
         /\ SubSeq(d, sigs_start + 1, sigs_start + m) \in Seq(Byte)
         /\ Len(SubSeq(d, sigs_start + 1, sigs_start + m)) = m
         /\ SubSeq(d, sigs_start + m + 1, Len(d)) \in Seq(Byte)
         /\ Len(SubSeq(d, sigs_start + m + 1, Len(d))) = Len(d) - (sigs_start + m)
         /\ <<d[1]>> \o SubSeq(d, 1 + 1, 1 + INDEX_LEN) \o <<d[sigs_start]>>
              \o SubSeq(d, sigs_start + 1, sigs_start + m)
              \o SubSeq(d, sigs_start + m + 1, Len(d)) = d
<1> DEFINE a == 1
           b == 1 + INDEX_LEN
           c == sigs_start
           e == sigs_start + m
           l == Len(d)
<1>1. /\ a \in Nat /\ b \in Nat /\ c \in Nat /\ e \in Nat /\ l \in Nat
      /\ 0 \in Nat /\ 0 <= a /\ 0 <= b /\ 0 <= c /\ 0 <= e
      /\ a <= b /\ b <= c /\ c <= e /\ e <= l /\ c <= l /\ b <= l
      /\ c = b + 1 /\ a = 0 + 1 /\ b - a = INDEX_LEN /\ e - c = m
      /\ a \in 1 .. l /\ c \in 1 .. l
  BY LenProperties, Widths
<1>2. d[a] \in Byte /\ d[c] \in Byte
  BY <1>1, ElementOfSeq
<1>3. <<d[a]>> = SubSeq(d, a, a) /\ <<d[c]>> = SubSeq(d, c, c)
  BY <1>1, SliceOfOne
<1> HIDE DEF a, b, c, e, l
<1>4. l = Len(d) /\ l <= l
  BY <1>1 DEF l
<1>5. /\ SubSeq(d, a + 1, b) \in Seq(Byte) /\ Len(SubSeq(d, a + 1, b)) = b - a
      /\ SubSeq(d, c + 1, e) \in Seq(Byte) /\ Len(SubSeq(d, c + 1, e)) = e - c
      /\ SubSeq(d, e + 1, l) \in Seq(Byte) /\ Len(SubSeq(d, e + 1, l)) = l - e
  BY <1>1, <1>4, SliceType
<1>6. SubSeq(d, 0 + 1, a) \o SubSeq(d, a + 1, b) = SubSeq(d, 0 + 1, b)
  BY <1>1, <1>4, SlicesJoined
<1>7. SubSeq(d, 0 + 1, b) \o SubSeq(d, b + 1, c) = SubSeq(d, 0 + 1, c)
  BY <1>1, <1>4, SlicesJoined
<1>8. SubSeq(d, 0 + 1, c) \o SubSeq(d, c + 1, e) = SubSeq(d, 0 + 1, e)
  BY <1>1, <1>4, SlicesJoined
<1>9. SubSeq(d, 0 + 1, e) \o SubSeq(d, e + 1, l) = SubSeq(d, 0 + 1, l)
  <2>1. l <= Len(d)
    BY <1>4
  <2> QED
    BY <1>1, <2>1, SlicesJoined
<1>10. SubSeq(d, 0 + 1, l) = d
  BY <1>4, SubSeqFull
<1>11. <<d[a]>> \o SubSeq(d, a + 1, b) \o <<d[c]>> \o SubSeq(d, c + 1, e) \o SubSeq(d, e + 1, l) = d
  <2>1. <<d[a]>> = SubSeq(d, 0 + 1, a) /\ <<d[c]>> = SubSeq(d, b + 1, c)
    BY <1>1, <1>3
  <2> QED
    BY <1>6, <1>7, <1>8, <1>9, <1>10, <2>1
<1> QED
  BY <1>1, <1>2, <1>5, <1>11 DEF a, b, c, e, l

LEMMA SignatureSlices ==
  ASSUME NEW data \in Seq(Byte), NEW n \in Nat,
         Len(data) >= sigs_start + n * SIGNATURE_ENTRY_LEN, NEW i \in 1 .. n
  PROVE  SignatureAt(data, i)
           = EntryAt(SubSeq(SubSeq(data, sigs_start + 1, sigs_start + n * SIGNATURE_ENTRY_LEN),
                            (i - 1) * SIGNATURE_ENTRY_LEN + 1, i * SIGNATURE_ENTRY_LEN))
<1> DEFINE p == (i - 1) * SIGNATURE_ENTRY_LEN
           q == i * SIGNATURE_ENTRY_LEN
           e == SIGNATURE_ENTRY_LEN
           m == n * SIGNATURE_ENTRY_LEN
           a == sigs_start
           b == sigs_start + m
           from == sigs_start + p
<1>1. p \in Nat /\ q \in Nat /\ q = p + e /\ q <= m /\ m \in Nat /\ a \in Nat /\ e \in Nat
  BY EntryPlace, Widths
<1>2. b = a + m /\ from = a + p /\ Len(data) \in Nat /\ Len(data) >= b
  BY LenProperties
<1>3. SignatureAt(data, i) = EntryAt(Slice(data, from, e))
  BY DEF SignatureAt
<1> HIDE DEF p, q, e, m, a, b, from
<1>4. Slice(data, from, e) = SubSeq(data, from + 1, from + e)
  <2>1. from + e <= Len(data)
    BY <1>1, <1>2
  <2> QED
    BY <2>1, SliceInside
<1>5. SubSeq(SubSeq(data, a + 1, b), p + 1, q) = SubSeq(data, a + p + 1, a + q)
  <2>1. b \in Nat /\ a <= b /\ b <= Len(data) /\ p <= q /\ q <= b - a
    BY <1>1, <1>2
  <2> QED
    BY <1>1, <2>1, SliceOfSlice
<1>6. a + p + 1 = from + 1 /\ a + q = from + e
  BY <1>1, <1>2
<1>7. SignatureAt(data, i) = EntryAt(SubSeq(SubSeq(data, a + 1, b), p + 1, q))
  BY <1>3, <1>4, <1>5, <1>6
<1> QED
  BY <1>7 DEF p, q, a, b, m

LEMMA SignatureCount ==
  ASSUME NEW data \in Seq(Byte), Len(data) >= sigs_start
  PROVE  /\ num_signatures(data) \in Byte /\ num_signatures(data) \in Nat
         /\ num_signatures(data) < BYTE
         /\ num_signatures(data) * SIGNATURE_ENTRY_LEN \in Nat
         /\ body_start(data) = sigs_start + num_signatures(data) * SIGNATURE_ENTRY_LEN
         /\ body_start(data) \in Nat
<1>1. sigs_start \in 1 .. Len(data)
  BY Widths, LenProperties
<1>2. num_signatures(data) \in Byte
  BY <1>1, ElementOfSeq DEF num_signatures
<1>3. num_signatures(data) \in Nat /\ num_signatures(data) < BYTE
  BY <1>2, Widths DEF Byte
<1> DEFINE n == num_signatures(data)
           e == SIGNATURE_ENTRY_LEN
<1>4. n * e \in Nat
  <2>1. n \in Nat /\ e \in Nat
    BY <1>3, Widths
  <2> HIDE DEF n, e
  <2> QED
    BY <2>1
<1> QED
  BY <1>2, <1>3, <1>4, Widths DEF body_start

(* A message that is long enough for its signature count and a body header *)
(* is the encoding of what is read from it.                                *)
LEMMA ReadingEncoded ==
  ASSUME NEW data \in Seq(Byte), Len(data) >= sigs_start,
         Len(data) >= body_start(data) + BODY_HEADER_LEN
  PROVE  /\ ParsedSignatures(data) \in Seq(GuardianSignature)
         /\ Len(ParsedSignatures(data)) = num_signatures(data)
         /\ body_encode(ParsedVaa(data).body) = BodyOf(data)
         /\ encode(ParsedVaa(data)) = data
<1> DEFINE n == num_signatures(data)
           m == n * SIGNATURE_ENTRY_LEN
           index == SubSeq(data, 1 + 1, 1 + INDEX_LEN)
           entries == SubSeq(data, sigs_start + 1, sigs_start + m)
           body == SubSeq(data, sigs_start + m + 1, Len(data))
           sigs == ParsedSignatures(data)
           vaa == ParsedVaa(data)
<1>1. /\ n \in Nat /\ n < BYTE /\ m \in Nat /\ body_start(data) = sigs_start + m
      /\ Len(data) \in Nat /\ BODY_HEADER_LEN \in Nat /\ sigs_start \in Nat
  BY SignatureCount, LenProperties, HeaderOffsets, Widths
<1>2. Len(data) >= sigs_start + m /\ Len(data) - (sigs_start + m) >= BODY_HEADER_LEN
  BY <1>1
<1>3. BodyOf(data) = body
  BY <1>1 DEF BodyOf
<1>4. Slice(data, 1, INDEX_LEN) = index
  <2>1. 1 + INDEX_LEN <= Len(data)
    BY <1>1, <1>2, Widths
  <2> QED
    BY <2>1, SliceInside
<1>5. n = data[sigs_start]
  BY DEF num_signatures
<1>6. sigs = [i \in 1 .. n |-> EntryAt(SubSeq(entries, (i - 1) * SIGNATURE_ENTRY_LEN + 1,
                                              i * SIGNATURE_ENTRY_LEN))]
  <2>1. ASSUME NEW i \in 1 .. n
        PROVE  SignatureAt(data, i) = EntryAt(SubSeq(entries, (i - 1) * SIGNATURE_ENTRY_LEN + 1,
                                                     i * SIGNATURE_ENTRY_LEN))
    BY <1>1, <1>2, SignatureSlices
  <2> HIDE DEF n, entries
  <2> QED
    BY <2>1 DEF ParsedSignatures, n
<1>7. /\ vaa.version = data[1]
      /\ vaa.guardian_set_index = from_be_bytes(index)
      /\ vaa.signatures = sigs
      /\ \A f \in Field : vaa.body.header[f]
           = FieldValue(f, Slice(body, FieldOffset(f), FIELD_LEN[f]))
      /\ vaa.body.payload = SubSeq(body, BODY_HEADER_LEN + 1, Len(body))
  BY <1>3, <1>4 DEF ParsedVaa
<1> HIDE DEF n, m, sigs, vaa, index, entries, body
<1>8. /\ index \in Seq(Byte) /\ Len(index) = INDEX_LEN
      /\ entries \in Seq(Byte) /\ Len(entries) = m
      /\ body \in Seq(Byte) /\ Len(body) = Len(data) - (sigs_start + m)
      /\ <<data[1]>> \o index \o <<data[sigs_start]>> \o entries \o body = data
  BY <1>1, <1>2, DecodedLayout DEF index, entries, body
<1>9. sigs \in Seq(GuardianSignature) /\ Len(sigs) = n /\ FlattenSeq(SignatureParts(sigs)) = entries
  BY <1>1, <1>6, <1>8, SignaturesDecoded DEF m
<1>10. body_encode(vaa.body) = body
  <2>1. Len(body) >= BODY_HEADER_LEN /\ Len(body) \in Nat
    BY <1>1, <1>2, <1>8
  <2>2. ASSUME NEW f \in Field
        PROVE  vaa.body.header[f] = FieldValue(f, SubSeq(body, FieldOffset(f) + 1,
                                                         FieldOffset(f) + FIELD_LEN[f]))
    <3>1. FieldOffset(f) + FIELD_LEN[f] <= Len(body)
      BY <1>1, <2>1, FieldPlace
    <3>2. Slice(body, FieldOffset(f), FIELD_LEN[f])
            = SubSeq(body, FieldOffset(f) + 1, FieldOffset(f) + FIELD_LEN[f])
      BY <3>1, SliceInside
    <3> QED
      BY <1>7, <3>2
  <2> QED
    BY <1>7, <1>8, <2>1, <2>2, BodyDecoded
<1>11. to_be_bytes(vaa.guardian_set_index, INDEX_LEN) = index
  BY <1>7, <1>8, BytesRoundTrip
<1>12. Len(vaa.signatures) % BYTE = data[sigs_start]
  <2>1. n % BYTE = n
    BY <1>1, SmallRemainder
  <2> QED
    BY <1>5, <1>7, <1>9, <2>1
<1>13. encode(vaa) = <<vaa.version>> \o to_be_bytes(vaa.guardian_set_index, INDEX_LEN)
                       \o <<Len(vaa.signatures) % BYTE>>
                       \o FlattenSeq(SignatureParts(vaa.signatures)) \o body_encode(vaa.body)
  BY DEF encode, SignatureParts
<1>14. encode(vaa) = data
  BY <1>7, <1>8, <1>9, <1>10, <1>11, <1>12, <1>13
<1> QED
  BY <1>3, <1>9, <1>10, <1>14 DEF sigs, vaa, n

LEMMA VaaParts ==
  ASSUME NEW vaa \in Vaas
  PROVE  /\ vaa.version \in Byte
         /\ Fits(vaa.guardian_set_index, INDEX_LEN) /\ vaa.guardian_set_index \in Nat
         /\ vaa.signatures \in Seq(GuardianSignature) /\ Len(vaa.signatures) \in Nat
         /\ vaa.body.payload \in Seq(Byte)
         /\ \A f \in Field : FieldFits(f, vaa.body.header[f])
         /\ vaa.body.header = [f \in Field |-> vaa.body.header[f]]
         /\ vaa.body = [header |-> vaa.body.header, payload |-> vaa.body.payload]
         /\ vaa = [version |-> vaa.version, guardian_set_index |-> vaa.guardian_set_index,
                   signatures |-> vaa.signatures, body |-> vaa.body]
<1>1. /\ vaa \in Vaa
      /\ Fits(vaa.guardian_set_index, INDEX_LEN)
      /\ \A f \in Field \ {"emitter_address"} : Fits(vaa.body.header[f], FIELD_LEN[f])
  BY VaasAssumption
<1> DEFINE header == vaa.body.header
<1>2. header \in Header /\ vaa.body.payload \in Seq(Byte)
  BY <1>1 DEF Vaa
<1>3. \A f \in Field : FieldFits(f, header[f])
  <2>1. header["emitter_address"] \in ByteArray(FIELD_LEN["emitter_address"])
    BY <1>2 DEF Header
  <2> QED
    BY <1>1, <2>1 DEF FieldFits
<1>4. header = [f \in Field |-> header[f]]
  <2> HIDE DEF header
  <2>1. header = [f \in {"timestamp", "nonce", "emitter_chain", "emitter_address",
                         "sequence", "consistency_level"} |-> header[f]]
    BY <1>2 DEF Header
  <2> QED
    BY <2>1, FieldNames
<1>5. /\ vaa.body = [header |-> header, payload |-> vaa.body.payload]
      /\ vaa.signatures \in Seq(GuardianSignature)
      /\ vaa.version \in Byte
      /\ vaa = [version |-> vaa.version, guardian_set_index |-> vaa.guardian_set_index,
                signatures |-> vaa.signatures, body |-> vaa.body]
  BY <1>1 DEF Vaa
<1> QED
  BY <1>1, <1>2, <1>3, <1>4, <1>5, LenProperties DEF Fits

\* The parts of an encoding, at the positions the parsers read them from.
LEMMA EncodingParts ==
  ASSUME NEW vaa \in Vaas
  PROVE  LET d == encode(vaa)
             m == Len(vaa.signatures) * SIGNATURE_ENTRY_LEN
             entries == SubSeq(d, sigs_start + 1, sigs_start + m)
         IN /\ d \in Seq(Byte) /\ m \in Nat
            /\ Len(d) = sigs_start + m + Len(body_encode(vaa.body))
            /\ d[1] = vaa.version
            /\ from_be_bytes(SubSeq(d, 1 + 1, 1 + INDEX_LEN)) = vaa.guardian_set_index
            /\ num_signatures(d) = Len(vaa.signatures) % BYTE
            /\ \A i \in 1 .. Len(vaa.signatures) :
                 EntryAt(SubSeq(entries, (i - 1) * SIGNATURE_ENTRY_LEN + 1,
                                i * SIGNATURE_ENTRY_LEN)) = vaa.signatures[i]
            /\ SubSeq(d, sigs_start + m + 1, Len(d)) = body_encode(vaa.body)
<1> DEFINE index == to_be_bytes(vaa.guardian_set_index, INDEX_LEN)
           count == Len(vaa.signatures) % BYTE
           entries == FlattenSeq(SignatureParts(vaa.signatures))
           body == body_encode(vaa.body)
           d == encode(vaa)
           m == Len(vaa.signatures) * SIGNATURE_ENTRY_LEN
<1>1. vaa.version \in Byte
  BY VaaParts
<1>2. index \in Seq(Byte) /\ Len(index) = INDEX_LEN /\ from_be_bytes(index) = vaa.guardian_set_index
  BY VaaParts, Widths, BytesOfInteger, IntegerRoundTrip
<1>3. count \in Byte
  BY VaaParts, PlaceValue
<1>4. /\ entries \in Seq(Byte) /\ Len(entries) = m
      /\ \A i \in 1 .. Len(vaa.signatures) :
           EntryAt(SubSeq(entries, (i - 1) * SIGNATURE_ENTRY_LEN + 1,
                          i * SIGNATURE_ENTRY_LEN)) = vaa.signatures[i]
  BY VaaParts, SignaturesEncoded
<1>5. m \in Nat
  BY <1>4, LenProperties
<1>6. body \in Seq(Byte)
  BY VaaParts, BodyEncoded
<1>7. d = Message(vaa.version, index, count, entries, body)
  BY DEF encode, SignatureParts, Message
<1> HIDE DEF index, count, entries, body, d, m
<1>8. /\ d \in Seq(Byte) /\ Len(d) = sigs_start + Len(entries) + Len(body)
      /\ d[1] = vaa.version /\ SubSeq(d, 1 + 1, 1 + INDEX_LEN) = index /\ d[sigs_start] = count
      /\ SubSeq(d, sigs_start + 1, sigs_start + Len(entries)) = entries
      /\ SubSeq(d, sigs_start + Len(entries) + 1, Len(d)) = body
  <2>1. /\ index \in Seq(Byte) /\ Len(index) = INDEX_LEN /\ count \in Byte
        /\ entries \in Seq(Byte) /\ body \in Seq(Byte)
    BY <1>2, <1>3, <1>4, <1>6
  <2>2. Layout(d, vaa.version, index, count, entries, body)
    BY <1>1, <1>7, <2>1, EncodedLayout
  <2> QED
    BY <2>2 DEF Layout
<1>9. num_signatures(d) = count
  BY <1>8 DEF num_signatures
<1>10. SubSeq(d, sigs_start + 1, sigs_start + m) = entries
  BY <1>4, <1>8
<1>11. Len(d) = sigs_start + m + Len(body) /\ SubSeq(d, sigs_start + m + 1, Len(d)) = body
  BY <1>4, <1>8
<1> QED
  BY <1>2, <1>4, <1>5, <1>8, <1>9, <1>10, <1>11 DEF d, m, count, body

LEMMA FieldAtPlace ==
  ASSUME NEW body \in Seq(Byte), Len(body) >= BODY_HEADER_LEN, NEW f \in Field
  PROVE  Slice(body, FieldOffset(f), FIELD_LEN[f])
           = SubSeq(body, FieldOffset(f) + 1, FieldOffset(f) + FIELD_LEN[f])
<1>1. FieldOffset(f) + FIELD_LEN[f] <= Len(body)
  <2> DEFINE a == FieldOffset(f)
             b == FIELD_LEN[f]
  <2>1. a \in Nat /\ b \in Nat /\ a + b <= BODY_HEADER_LEN
    BY FieldPlace
  <2>2. BODY_HEADER_LEN \in Nat /\ Len(body) \in Nat
    BY HeaderOffsets, LenProperties
  <2> HIDE DEF a, b
  <2>3. a + b <= Len(body)
    BY <2>1, <2>2
  <2> QED
    BY <2>3 DEF a, b
<1> QED
  BY <1>1, SliceInside

\* As long as the count byte can say how many signatures there are.
LEMMA CountedEncodingRead ==
  ASSUME NEW vaa \in Vaas, Len(vaa.signatures) < BYTE
  PROVE  /\ num_signatures(encode(vaa)) = Len(vaa.signatures)
         /\ Len(encode(vaa)) = body_start(encode(vaa)) + BODY_HEADER_LEN + Len(vaa.body.payload)
         /\ Len(BodyOf(encode(vaa))) = BODY_HEADER_LEN + Len(vaa.body.payload)
         /\ ParsedSignatures(encode(vaa)) = vaa.signatures
         /\ ParsedVaa(encode(vaa)) = vaa
<1> DEFINE d == encode(vaa)
           n == Len(vaa.signatures)
           m == n * SIGNATURE_ENTRY_LEN
           entries == SubSeq(d, sigs_start + 1, sigs_start + m)
           body == body_encode(vaa.body)
           payload == vaa.body.payload
<1>1. /\ d \in Seq(Byte) /\ m \in Nat /\ Len(d) = sigs_start + m + Len(body)
      /\ d[1] = vaa.version
      /\ from_be_bytes(SubSeq(d, 1 + 1, 1 + INDEX_LEN)) = vaa.guardian_set_index
      /\ num_signatures(d) = n % BYTE
      /\ SubSeq(d, sigs_start + m + 1, Len(d)) = body
  BY EncodingParts
<1>2. \A i \in 1 .. n : EntryAt(SubSeq(entries, (i - 1) * SIGNATURE_ENTRY_LEN + 1,
                                       i * SIGNATURE_ENTRY_LEN)) = vaa.signatures[i]
  BY EncodingParts
<1>3. n \in Nat /\ vaa.signatures \in Seq(GuardianSignature) /\ payload \in Seq(Byte)
      /\ Len(payload) \in Nat
  BY VaaParts, LenProperties
<1>4. n % BYTE = n
  BY <1>3, SmallRemainder
<1>5. num_signatures(d) = n
  BY <1>1, <1>4
<1>6. /\ body \in Seq(Byte) /\ Len(body) = BODY_HEADER_LEN + Len(payload)
      /\ SubSeq(body, BODY_HEADER_LEN + 1, Len(body)) = payload
      /\ \A f \in Field : FieldValue(f, SubSeq(body, FieldOffset(f) + 1,
                                               FieldOffset(f) + FIELD_LEN[f]))
                            = vaa.body.header[f]
  BY VaaParts, BodyEncoded
<1> HIDE DEF d, n, body, payload
<1>7. body_start(d) = sigs_start + m
  BY <1>5 DEF body_start
<1>8. BodyOf(d) = body
  BY <1>1, <1>7 DEF BodyOf
<1>9. Len(d) \in Nat /\ Len(body) \in Nat /\ BODY_HEADER_LEN \in Nat /\ sigs_start \in Nat
      /\ Len(d) >= sigs_start + m
  <2>1. Len(d) \in Nat /\ Len(body) \in Nat
    BY <1>1, <1>6, LenProperties
  <2>2. BODY_HEADER_LEN \in Nat /\ sigs_start \in Nat
    BY HeaderOffsets, Widths
  <2>3. m \in Nat /\ Len(d) = sigs_start + m + Len(body)
    BY <1>1
  <2> HIDE DEF m
  <2> QED
    BY <2>1, <2>2, <2>3
<1>10. ASSUME NEW i \in 1 .. n PROVE SignatureAt(d, i) = vaa.signatures[i]
  BY <1>1, <1>2, <1>3, <1>9, SignatureSlices
<1>11. ParsedSignatures(d) = vaa.signatures
  <2>1. ParsedSignatures(d) = [i \in 1 .. n |-> vaa.signatures[i]]
    BY <1>5, <1>10 DEF ParsedSignatures
  <2>2. vaa.signatures = [i \in 1 .. n |-> vaa.signatures[i]]
    BY <1>3, LenProperties DEF n
  <2> QED
    BY <2>1, <2>2
<1>12. Slice(d, 1, INDEX_LEN) = SubSeq(d, 1 + 1, 1 + INDEX_LEN)
  <2>1. 1 + INDEX_LEN <= Len(d)
    BY <1>1, <1>9, Widths
  <2> QED
    BY <2>1, SliceInside
<1>13. [f \in Field |-> FieldValue(f, Slice(body, FieldOffset(f), FIELD_LEN[f]))]
         = vaa.body.header
  <2>1. Len(body) >= BODY_HEADER_LEN
    BY <1>3, <1>6, <1>9
  <2>2. ASSUME NEW f \in Field
        PROVE  FieldValue(f, Slice(body, FieldOffset(f), FIELD_LEN[f])) = vaa.body.header[f]
    BY <1>6, <2>1, FieldAtPlace
  <2>3. vaa.body.header = [f \in Field |-> vaa.body.header[f]]
    BY VaaParts
  <2> QED
    BY <2>2, <2>3
<1>14. ParsedVaa(d) = [version |-> vaa.version,
                       guardian_set_index |-> vaa.guardian_set_index,
                       signatures |-> vaa.signatures,
                       body |-> [header |-> vaa.body.header, payload |-> payload]]
  BY <1>1, <1>6, <1>8, <1>11, <1>12, <1>13 DEF ParsedVaa
<1>15. ParsedVaa(d) = vaa
  BY <1>14, VaaParts DEF payload
<1>16. Len(d) = body_start(d) + BODY_HEADER_LEN + Len(payload)
  <2>1. /\ m \in Nat /\ Len(d) = sigs_start + m + Len(body)
        /\ body_start(d) = sigs_start + m
        /\ Len(body) = BODY_HEADER_LEN + Len(payload)
    BY <1>1, <1>6, <1>7
  <2>2. Len(payload) \in Nat /\ BODY_HEADER_LEN \in Nat /\ sigs_start \in Nat
    BY <1>3, <1>9
  <2> HIDE DEF m
  <2> QED
    BY <2>1, <2>2
<1> QED
  BY <1>5, <1>6, <1>8, <1>11, <1>15, <1>16 DEF d, n, payload

\* More signatures than the count byte can say leave too long a payload.
LEMMA UncountedEncodingRefused ==
  ASSUME NEW vaa \in Vaas, Len(vaa.signatures) >= BYTE
  PROVE  ~ Accepted(encode(vaa))
<1> DEFINE d == encode(vaa)
           n == Len(vaa.signatures)
           k == n % BYTE
           e == SIGNATURE_ENTRY_LEN
           body == body_encode(vaa.body)
           payload == vaa.body.payload
<1>1. /\ d \in Seq(Byte) /\ n * e \in Nat /\ Len(d) = sigs_start + n * e + Len(body)
      /\ num_signatures(d) = k
  BY EncodingParts
<1>2. n \in Nat /\ Len(payload) \in Nat /\ n >= BYTE
  BY VaaParts, LenProperties
<1>3. Len(body) = BODY_HEADER_LEN + Len(payload)
  BY VaaParts, BodyEncoded
<1>4. /\ e \in Nat \ {0} /\ BYTE \in Nat \ {0, 1} /\ sigs_start \in Nat /\ MAX_PAYLOAD_LEN \in Nat
      /\ BODY_HEADER_LEN \in Nat /\ BYTE * e > MAX_PAYLOAD_LEN
  <2>1. BYTE * (RS_LEN + 2) > MAX_PAYLOAD_LEN
    BY WidthAssumption
  <2> QED
    BY <2>1, Widths, HeaderOffsets
<1> HIDE DEF d, n, e, body, payload
<1>5. k \in Nat /\ k <= n /\ n - k >= BYTE
  <2>1. n \div BYTE \in Nat /\ k \in Byte /\ n = (n \div BYTE) * BYTE + k
    BY <1>2, PlaceValue
  <2>2. k \in Nat /\ k < BYTE
    BY <1>4, <2>1 DEF Byte
  <2> DEFINE q == n \div BYTE
  <2> HIDE DEF q, k
  <2>3. q \in Nat /\ n = q * BYTE + k
    BY <2>1 DEF q
  <2>4. q # 0
    BY <1>2, <1>4, <2>2, <2>3
  <2>5. q * BYTE >= BYTE
    BY <1>4, <2>3, <2>4
  <2> QED
    BY <1>2, <1>4, <2>2, <2>3, <2>5
<1> HIDE DEF k
<1>6. n * e - k * e >= BYTE * e /\ n * e \in Nat /\ k * e \in Nat /\ BYTE * e \in Nat
  <2> DEFINE r == n - k - BYTE
  <2>1. r \in Nat /\ n = k + BYTE + r
    BY <1>2, <1>4, <1>5
  <2> HIDE DEF r
  <2>2. n * e = k * e + BYTE * e + r * e
    BY <1>4, <1>5, <2>1
  <2>3. r * e \in Nat /\ k * e \in Nat /\ BYTE * e \in Nat
    BY <1>4, <1>5, <2>1
  <2> QED
    BY <2>2, <2>3
<1>7. body_start(d) = sigs_start + k * e
  BY <1>1 DEF body_start, e
<1>8. ASSUME Len(d) >= body_start(d) PROVE Len(BodyOf(d)) = Len(d) - body_start(d)
  <2> DEFINE b == body_start(d)
             l == Len(d)
  <2>1. b \in Nat /\ l \in Nat /\ b <= l /\ l <= Len(d)
    BY <1>1, <1>4, <1>6, <1>7, <1>8, LenProperties
  <2>2. BodyOf(d) = SubSeq(d, b + 1, l)
    BY DEF BodyOf
  <2> HIDE DEF b, l
  <2>3. Len(BodyOf(d)) = l - b
    BY <1>1, <2>1, <2>2, SliceType
  <2> QED
    BY <2>3 DEF b, l
<1>9. ASSUME Len(d) >= body_start(d), Len(BodyOf(d)) - BODY_HEADER_LEN <= MAX_PAYLOAD_LEN
      PROVE  FALSE
  <2>1. Len(BodyOf(d)) = (sigs_start + n * e + Len(body)) - (sigs_start + k * e)
    BY <1>1, <1>7, <1>8, <1>9
  <2> DEFINE x == n * e
             y == k * e
             z == BYTE * e
             b == Len(BodyOf(d))
  <2>2. /\ x \in Nat /\ y \in Nat /\ z \in Nat /\ x - y >= z /\ z > MAX_PAYLOAD_LEN
        /\ b = (sigs_start + x + (BODY_HEADER_LEN + Len(payload))) - (sigs_start + y)
        /\ b - BODY_HEADER_LEN <= MAX_PAYLOAD_LEN
    BY <1>3, <1>4, <1>6, <1>9, <2>1
  <2> HIDE DEF x, y, z, b
  <2> QED
    BY <1>2, <1>4, <2>2
<1> QED
  BY <1>9 DEF Accepted, d

(* An encoding is accepted exactly within the limits and then read back.   *)
LEMMA ReadEncoding ==
  ASSUME NEW vaa \in Vaas
  PROVE  /\ Accepted(encode(vaa)) <=> WithinLimits(vaa)
         /\ Accepted(encode(vaa)) => ParsedVaa(encode(vaa)) = vaa
<1>1. CASE Len(vaa.signatures) >= BYTE
  <2>1. ~ WithinLimits(vaa)
    BY <1>1, VaaParts, Widths DEF WithinLimits
  <2> QED
    BY <1>1, <2>1, UncountedEncodingRefused
<1>2. CASE Len(vaa.signatures) < BYTE
  <2> DEFINE d == encode(vaa)
             payload == vaa.body.payload
  <2>1. /\ d \in Seq(Byte) /\ d[1] = vaa.version
    BY EncodingParts
  <2>2. /\ num_signatures(d) = Len(vaa.signatures)
        /\ Len(d) = body_start(d) + BODY_HEADER_LEN + Len(payload)
        /\ Len(BodyOf(d)) = BODY_HEADER_LEN + Len(payload)
        /\ ParsedSignatures(d) = vaa.signatures
        /\ ParsedVaa(d) = vaa
    BY <1>2, CountedEncodingRead
  <2>3. Len(payload) \in Nat /\ BODY_HEADER_LEN \in Nat /\ Len(vaa.signatures) \in Nat
    BY VaaParts, LenProperties, HeaderOffsets
  <2> HIDE DEF d, payload
  <2>4. body_start(d) \in Nat /\ body_start(d) >= sigs_start
    <3>1. Len(vaa.signatures) * SIGNATURE_ENTRY_LEN \in Nat
      BY EncodingParts
    <3>2. body_start(d) = sigs_start + Len(vaa.signatures) * SIGNATURE_ENTRY_LEN
      BY <2>2 DEF body_start
    <3> DEFINE m == Len(vaa.signatures) * SIGNATURE_ENTRY_LEN
    <3>3. m \in Nat /\ sigs_start \in Nat /\ body_start(d) = sigs_start + m
      BY <3>1, <3>2, Widths
    <3> HIDE DEF m
    <3> QED
      BY <3>3
  <2>5. /\ Len(d) >= 1 /\ Len(d) >= 1 + INDEX_LEN /\ Len(d) >= sigs_start
        /\ Len(d) >= body_start(d) /\ Len(BodyOf(d)) >= BODY_HEADER_LEN
        /\ Len(BodyOf(d)) - BODY_HEADER_LEN = Len(payload)
    BY <2>2, <2>3, <2>4, Widths
  <2>6. Accepted(d) <=>
          /\ vaa.version = SUPPORTED_VERSION
          /\ \A i \in 1 .. Len(vaa.signatures) - 1 :
               vaa.signatures[i].guardian_index < vaa.signatures[i + 1].guardian_index
          /\ Len(payload) <= MAX_PAYLOAD_LEN
    BY <2>1, <2>2, <2>5 DEF Accepted
  <2> QED
    BY <1>2, <2>2, <2>6 DEF WithinLimits, d, payload
<1> QED
  BY <1>1, <1>2, VaaParts, Widths

-----------------------------------------------------------------------------
(* The walk of Vaa::parse: what has been read is what ParsedVaa::parse     *)
(* finds at the offsets it computes.                                       *)

Read(version, index, sigs, header, payload) ==
  [version |-> version, guardian_set_index |-> index, signatures |-> sigs,
   body |-> [header |-> header, payload |-> payload]]

IndexOf(data) == from_be_bytes(Slice(data, 1, INDEX_LEN))

SignaturesUpTo(data, k) == [i \in 1 .. k |-> SignatureAt(data, i)]

AscendingUpTo(data, k) ==
  \A i \in 1 .. k - 1 :
    SignatureAt(data, i).guardian_index < SignatureAt(data, i + 1).guardian_index

HeaderUpTo(data, k) ==
  [f \in {Fields[j] : j \in 1 .. k} |->
     FieldValue(f, Slice(BodyOf(data), FieldOffset(f), FIELD_LEN[f]))]

VersionRead == Len(bytes) >= 1 /\ bytes[1] = SUPPORTED_VERSION

BodyEntered ==
  /\ VersionRead
  /\ Len(bytes) >= sigs_start
  /\ Len(bytes) >= body_start(bytes) + BODY_HEADER_LEN
  /\ AscendingUpTo(bytes, num_signatures(bytes))

AtVersion == cur = 0 /\ parsed = Read(0, 0, <<>>, <<>>, <<>>)

AtIndex ==
  VersionRead /\ cur = 1 /\ parsed = Read(bytes[1], 0, <<>>, <<>>, <<>>)

AtCount ==
  /\ VersionRead
  /\ Len(bytes) >= 1 + INDEX_LEN
  /\ cur = 1 + INDEX_LEN
  /\ parsed = Read(bytes[1], IndexOf(bytes), <<>>, <<>>, <<>>)

AtSignature(k) ==
  /\ VersionRead
  /\ Len(bytes) >= sigs_start
  /\ num_sigs = num_signatures(bytes)
  /\ k <= num_sigs
  /\ cur = sigs_start + k * SIGNATURE_ENTRY_LEN
  /\ AscendingUpTo(bytes, k)
  /\ parsed = Read(bytes[1], IndexOf(bytes), SignaturesUpTo(bytes, k), <<>>, <<>>)

AtField ==
  /\ BodyEntered
  /\ fields_read \in 0 .. 5
  /\ cur = body_start(bytes) + HeaderOffset[fields_read]
  /\ parsed = Read(bytes[1], IndexOf(bytes), ParsedSignatures(bytes),
                   HeaderUpTo(bytes, fields_read), <<>>)

AtPayload ==
  /\ BodyEntered
  /\ cur = body_start(bytes) + BODY_HEADER_LEN
  /\ parsed = Read(bytes[1], IndexOf(bytes), ParsedSignatures(bytes),
                   HeaderUpTo(bytes, 6), <<>>)

WalkInv ==
  /\ pc # "returned" => outcome = "none"
  /\ pc \in {"version", "index", "count", "signatures"} => fields_read = 0
  /\ pc = "version" => AtVersion
  /\ pc = "index" => AtIndex
  /\ pc = "count" => AtCount
  /\ pc = "signatures" => \E k \in Nat : AtSignature(k)
  /\ pc = "field" => AtField
  /\ pc = "payload" => AtPayload
  /\ pc = "returned" =>
       /\ outcome = "Ok" <=> Accepted(bytes)
       /\ outcome = "Ok" => parsed = ParsedVaa(bytes)

IInv == TypeOK /\ ParserNeverPanics /\ WalkInv

LEMMA DamageKeepsBytes ==
  ASSUME NEW S, NEW sent \in Seq(S)
  PROVE  /\ \A n \in 0 .. Len(sent) - 1 : SubSeq(sent, 1, n) \in Seq(S)
         /\ \A b \in S : Append(sent, b) \in Seq(S)
         /\ \A i \in 1 .. Len(sent), b \in S : [sent EXCEPT ![i] = b] \in Seq(S)
<1>1. ASSUME NEW n \in 0 .. Len(sent) - 1
      PROVE  SubSeq(sent, 1, n) \in Seq(S)
  <2>1. \A i \in 1 .. n : sent[i] \in S
    BY ElementOfSeq
  <2> QED
    BY <2>1, SubSeqProperties
<1>2. ASSUME NEW i \in 1 .. Len(sent), NEW b \in S
      PROVE  [sent EXCEPT ![i] = b] \in Seq(S)
  BY ExceptSeq
<1> QED
  BY <1>1, <1>2

LEMMA EncodingsAreBytes ==
  ASSUME NEW vaa \in Vaas
  PROVE  /\ encode(vaa) \in Seq(Byte)
         /\ Damaged(encode(vaa)) \subseteq Seq(Byte)
<1> DEFINE sent == encode(vaa)
<1>1. sent \in Seq(Byte)
  BY EncodingParts
<1> HIDE DEF sent
<1>2. /\ \A n \in 0 .. Len(sent) - 1 : SubSeq(sent, 1, n) \in Seq(Byte)
      /\ \A b \in Byte : Append(sent, b) \in Seq(Byte)
      /\ \A i \in 1 .. Len(sent), b \in Byte : [sent EXCEPT ![i] = b] \in Seq(Byte)
  BY <1>1, DamageKeepsBytes
<1>3. Damaged(sent) \subseteq Seq(Byte)
  <2> SUFFICES ASSUME NEW x \in Damaged(sent) PROVE x \in Seq(Byte)
    OBVIOUS
  <2> QED
    BY <1>2 DEF Damaged
<1> QED
  BY <1>1, <1>3 DEF sent

\* The parser is about to read bytes of any origin whatever.
AnyInput == origin \in Vaas /\ bytes \in Seq(Byte) /\ Started

LEMMA InputsAreBytes == Init => AnyInput
BY EncodingsAreBytes DEF Init, AnyInput

LEMMA InitWalk == AnyInput => IInv
<1> SUFFICES ASSUME AnyInput PROVE IInv
  OBVIOUS
<1>1. bytes \in Seq(Byte) /\ Len(bytes) \in Nat
  BY LenProperties DEF AnyInput
<1>2. 0 \in Byte
  BY Widths DEF Byte
<1>3. TypeOK
  BY <1>1, <1>2, FieldNames DEF AnyInput, Started, TypeOK
<1> QED
  BY <1>3 DEF AnyInput, Started, IInv, WalkInv, AtVersion, Nothing, Read,
              ParserNeverPanics

LEMMA ErrorKeepsWalk ==
  ASSUME IInv, NEW error \in {"Malformed", "UnsupportedVersion", "SignaturesOutOfOrder",
                              "PayloadTooLarge"},
         Return(error), ~ Accepted(bytes)
  PROVE  IInv'
<1>1. /\ pc' = "returned" /\ outcome' = error
      /\ UNCHANGED <<origin, bytes, cur, num_sigs, parsed, fields_read>>
  BY DEF Return
<1>2. TypeOK'
  BY <1>1 DEF IInv, TypeOK
<1>3. ~ Accepted(bytes)'
  BY <1>1
<1> QED
  BY <1>1, <1>2, <1>3 DEF IInv, WalkInv, ParserNeverPanics

LEMMA VersionStep ==
  ASSUME IInv, ReadVersion
  PROVE  IInv'
<1>1. /\ pc = "version" /\ cur = 0 /\ parsed = Read(0, 0, <<>>, <<>>, <<>>)
      /\ outcome = "none" /\ fields_read = 0 /\ bytes \in Seq(Byte) /\ Len(bytes) \in Nat
  BY LenProperties DEF ReadVersion, IInv, TypeOK, WalkInv, AtVersion
<1>2. CASE Left = 0 /\ Return("Malformed")
  <2>1. ~ Accepted(bytes)
    BY <1>1, <1>2 DEF Left, Accepted
  <2> QED
    BY <1>2, <2>1, ErrorKeepsWalk
<1>3. CASE Left > 0 /\ bytes[1] # SUPPORTED_VERSION /\ Return("UnsupportedVersion")
  <2>1. ~ Accepted(bytes)
    BY <1>3 DEF Accepted
  <2> QED
    BY <1>3, <2>1, ErrorKeepsWalk
<1>4. CASE /\ Left > 0 /\ bytes[1] = SUPPORTED_VERSION
           /\ parsed' = [parsed EXCEPT !.version = bytes[1]]
           /\ Advance(1, "index")
           /\ UNCHANGED <<num_sigs, fields_read>>
  <2>1. /\ pc' = "index" /\ cur' = 1 /\ Len(bytes) >= 1
        /\ UNCHANGED <<origin, bytes, outcome, num_sigs, fields_read>>
    BY <1>1, <1>4 DEF Advance, Left
  <2>2. parsed' = Read(bytes[1], 0, <<>>, <<>>, <<>>)
    BY <1>1, <1>4 DEF Read
  <2>3. AtIndex'
    BY <1>4, <2>1, <2>2 DEF AtIndex, VersionRead
  <2>4. TypeOK'
    BY <1>1, <2>1, <2>2 DEF IInv, TypeOK, Read, Nothing
  <2> QED
    BY <1>1, <2>1, <2>3, <2>4 DEF IInv, WalkInv, ParserNeverPanics
<1> QED
  BY <1>2, <1>3, <1>4 DEF ReadVersion

LEMMA SetIndexStep ==
  ASSUME IInv, ReadSetIndex
  PROVE  IInv'
<1>1. /\ pc = "index" /\ VersionRead /\ cur = 1
      /\ parsed = Read(bytes[1], 0, <<>>, <<>>, <<>>)
      /\ outcome = "none" /\ fields_read = 0 /\ bytes \in Seq(Byte) /\ Len(bytes) \in Nat
  BY LenProperties DEF ReadSetIndex, IInv, TypeOK, WalkInv, AtIndex
<1>2. CASE Left < INDEX_LEN /\ Return("Malformed")
  <2>1. ~ Accepted(bytes)
    BY <1>1, <1>2, Widths DEF Left, Accepted
  <2> QED
    BY <1>2, <2>1, ErrorKeepsWalk
<1>3. CASE /\ Left >= INDEX_LEN
           /\ parsed' = [parsed EXCEPT !.guardian_set_index =
                           from_be_bytes(Slice(bytes, cur, INDEX_LEN))]
           /\ Advance(INDEX_LEN, "count")
           /\ UNCHANGED <<num_sigs, fields_read>>
  <2>1. /\ pc' = "count" /\ cur' = 1 + INDEX_LEN /\ Len(bytes) >= 1 + INDEX_LEN
        /\ UNCHANGED <<origin, bytes, outcome, num_sigs, fields_read>>
    BY <1>1, <1>3, Widths DEF Advance, Left
  <2>2. parsed' = Read(bytes[1], IndexOf(bytes), <<>>, <<>>, <<>>)
    BY <1>1, <1>3 DEF Read, IndexOf
  <2>3. AtCount'
    <3>1. IndexOf(bytes)' = IndexOf(bytes)
      BY <2>1 DEF IndexOf
    <3> QED
      BY <1>1, <2>1, <2>2, <3>1 DEF AtCount, VersionRead
  <2>4. TypeOK'
    BY <1>1, <2>1, <2>2, Widths DEF IInv, TypeOK, Read, Nothing
  <2> QED
    BY <1>1, <2>1, <2>3, <2>4 DEF IInv, WalkInv, ParserNeverPanics
<1> QED
  BY <1>2, <1>3 DEF ReadSetIndex

LEMMA CountStep ==
  ASSUME IInv, ReadCount
  PROVE  IInv'
<1>1. /\ pc = "count" /\ VersionRead /\ cur = 1 + INDEX_LEN /\ Len(bytes) >= 1 + INDEX_LEN
      /\ parsed = Read(bytes[1], IndexOf(bytes), <<>>, <<>>, <<>>)
      /\ outcome = "none" /\ fields_read = 0 /\ bytes \in Seq(Byte) /\ Len(bytes) \in Nat
  BY LenProperties DEF ReadCount, IInv, TypeOK, WalkInv, AtCount
<1>2. CASE Left = 0 /\ Return("Malformed")
  <2>1. ~ Accepted(bytes)
    BY <1>1, <1>2, Widths DEF Left, Accepted
  <2> QED
    BY <1>2, <2>1, ErrorKeepsWalk
<1>3. CASE /\ Left > 0
           /\ num_sigs' = bytes[cur + 1]
           /\ Advance(1, "signatures")
           /\ UNCHANGED <<parsed, fields_read>>
  <2>1. /\ pc' = "signatures" /\ cur' = sigs_start /\ Len(bytes) >= sigs_start
        /\ UNCHANGED <<origin, bytes, outcome, parsed, fields_read>>
    BY <1>1, <1>3, Widths DEF Advance, Left
  <2>2. cur + 1 = sigs_start
    BY <1>1, Widths
  <2>3. num_sigs' = num_signatures(bytes) /\ num_sigs' \in Byte /\ num_sigs' \in Nat
    BY <1>1, <1>3, <2>1, <2>2, SignatureCount DEF num_signatures
  <2>4. SignaturesUpTo(bytes, 0) = <<>>
    BY DEF SignaturesUpTo
  <2>5. AtSignature(0)'
    <3>1. /\ IndexOf(bytes)' = IndexOf(bytes)
          /\ SignaturesUpTo(bytes, 0)' = SignaturesUpTo(bytes, 0)
          /\ num_signatures(bytes)' = num_signatures(bytes)
      BY <2>1
    <3>2. AscendingUpTo(bytes, 0)'
      BY DEF AscendingUpTo
    <3>3. 0 * SIGNATURE_ENTRY_LEN = 0
      BY Widths
    <3> QED
      BY <1>1, <2>1, <2>3, <2>4, <3>1, <3>2, <3>3, Widths DEF AtSignature, VersionRead
  <2>6. TypeOK'
    BY <1>1, <2>1, <2>3, Widths DEF IInv, TypeOK
  <2> QED
    BY <1>1, <2>1, <2>5, <2>6 DEF IInv, WalkInv, ParserNeverPanics
<1> QED
  BY <1>2, <1>3 DEF ReadCount

LEMMA SignatureTyped ==
  ASSUME NEW data \in Seq(Byte), NEW k \in Nat,
         Len(data) >= sigs_start + k * SIGNATURE_ENTRY_LEN, NEW i \in 1 .. k
  PROVE  /\ SignatureAt(data, i) \in GuardianSignature
         /\ SignatureAt(data, i).guardian_index \in Nat
<1> DEFINE p == (i - 1) * SIGNATURE_ENTRY_LEN
           q == i * SIGNATURE_ENTRY_LEN
           m == k * SIGNATURE_ENTRY_LEN
           e == SIGNATURE_ENTRY_LEN
           from == sigs_start + p
           entry == Slice(data, from, e)
<1>1. p \in Nat /\ q = p + e /\ q <= m /\ m \in Nat /\ e \in Nat /\ sigs_start \in Nat
  BY EntryPlace, Widths
<1>2. Len(data) \in Nat /\ Len(data) >= sigs_start + m
  BY LenProperties
<1>3. SignatureAt(data, i) = EntryAt(entry)
  BY DEF SignatureAt
<1> HIDE DEF p, q, m, e
<1>4. from \in Nat /\ from + e \in Nat /\ from <= from + e /\ from + e <= Len(data)
      /\ (from + e) - from = e
  BY <1>1, <1>2
<1> HIDE DEF from
<1>5. entry = SubSeq(data, from + 1, from + e)
  BY <1>4, SliceInside
<1>6. entry \in Seq(Byte) /\ Len(entry) = e
  <2> DEFINE to == from + e
  <2>1. to \in Nat /\ from <= to /\ to <= Len(data) /\ to - from = e
    BY <1>4
  <2>2. entry = SubSeq(data, from + 1, to)
    BY <1>5
  <2> HIDE DEF to, entry
  <2> QED
    BY <1>4, <2>1, <2>2, SliceType
<1> HIDE DEF entry
<1>7. SignatureAt(data, i) \in GuardianSignature
  BY <1>3, <1>6, EntryDecoded DEF e
<1>8. SignatureAt(data, i).guardian_index \in Byte
  BY <1>7 DEF GuardianSignature
<1> QED
  BY <1>7, <1>8, Widths DEF Byte

LEMMA SignatureStep ==
  ASSUME IInv, ReadSignature
  PROVE  IInv'
<1> DEFINE n == num_signatures(bytes)
           e == SIGNATURE_ENTRY_LEN
<1>1. /\ pc = "signatures" /\ outcome = "none" /\ fields_read = 0
      /\ bytes \in Seq(Byte) /\ Len(bytes) \in Nat
      /\ Len(parsed.signatures) < num_sigs
  BY LenProperties DEF ReadSignature, IInv, TypeOK, WalkInv
<1>2. PICK k \in Nat : AtSignature(k)
  BY <1>1 DEF IInv, WalkInv
<1>3. /\ VersionRead /\ Len(bytes) >= sigs_start /\ num_sigs = n /\ k <= num_sigs
      /\ cur = sigs_start + k * e /\ AscendingUpTo(bytes, k)
      /\ parsed = Read(bytes[1], IndexOf(bytes), SignaturesUpTo(bytes, k), <<>>, <<>>)
  BY <1>2 DEF AtSignature
<1>4. parsed.signatures = SignaturesUpTo(bytes, k) /\ Len(parsed.signatures) = k
  BY <1>3 DEF Read, SignaturesUpTo
<1>5. n \in Nat /\ k < n /\ body_start(bytes) = sigs_start + n * e /\ n \in Byte
  BY <1>1, <1>3, <1>4, SignatureCount
<1>6. /\ k * e \in Nat /\ n * e \in Nat /\ (k + 1) * e = k * e + e
      /\ (k + 1) * e <= n * e /\ e \in Nat /\ sigs_start \in Nat
  <2>1. k + 1 \in 1 .. n /\ (k + 1) - 1 = k
    BY <1>5
  <2>2. /\ k * e \in Nat /\ (k + 1) * e \in Nat /\ (k + 1) * e = k * e + e
        /\ (k + 1) * e <= n * e /\ n * e \in Nat
    BY <1>5, <2>1, EntryPlace
  <2> QED
    BY <2>2, Widths
<1> DEFINE sig == EntryAt(Slice(bytes, cur, SIGNATURE_ENTRY_LEN))
<1>7. sig = SignatureAt(bytes, k + 1)
  BY <1>3 DEF SignatureAt
<1>8. CASE Left < SIGNATURE_ENTRY_LEN /\ Return("Malformed")
  <2> DEFINE x == k * e
             y == n * e
             z == (k + 1) * e
  <2>1. /\ x \in Nat /\ y \in Nat /\ z = x + e /\ z <= y /\ e \in Nat /\ sigs_start \in Nat
        /\ cur = sigs_start + x /\ body_start(bytes) = sigs_start + y
        /\ Len(bytes) - cur < e
    BY <1>3, <1>5, <1>6, <1>8 DEF Left
  <2> HIDE DEF x, y, z, e
  <2>2. ~ (Len(bytes) >= body_start(bytes))
    BY <1>1, <2>1
  <2>3. ~ Accepted(bytes)
    BY <2>2 DEF Accepted
  <2> QED
    BY <1>8, <2>3, ErrorKeepsWalk
<1>9. ASSUME Left >= SIGNATURE_ENTRY_LEN
      PROVE  Len(bytes) >= sigs_start + (k + 1) * e
  <2> DEFINE x == k * e
             z == (k + 1) * e
  <2>1. /\ x \in Nat /\ z = x + e /\ e \in Nat /\ sigs_start \in Nat
        /\ cur = sigs_start + x /\ Len(bytes) - cur >= e
    BY <1>3, <1>6, <1>9 DEF Left
  <2> HIDE DEF x, z, e
  <2>2. Len(bytes) >= sigs_start + z
    BY <1>1, <2>1
  <2> QED
    BY <2>2 DEF z
<1>10. ASSUME Left >= SIGNATURE_ENTRY_LEN
       PROVE  \A i \in 1 .. k + 1 : SignatureAt(bytes, i).guardian_index \in Nat
  <2>1. k + 1 \in Nat
    OBVIOUS
  <2>2. Len(bytes) >= sigs_start + (k + 1) * SIGNATURE_ENTRY_LEN
    BY <1>9, <1>10
  <2> QED
    BY <1>1, <2>1, <2>2, SignatureTyped
<1>11. ASSUME k # 0
       PROVE  Last(parsed.signatures) = SignatureAt(bytes, k)
  BY <1>4, <1>11 DEF Last, SignaturesUpTo
<1>12. CASE /\ Left >= SIGNATURE_ENTRY_LEN
            /\ OutOfOrder(parsed.signatures, sig.guardian_index)
            /\ Return("SignaturesOutOfOrder")
  <2>1. k # 0
    BY <1>4, <1>12 DEF OutOfOrder
  <2>2. sig.guardian_index <= SignatureAt(bytes, k).guardian_index
    BY <1>11, <1>12, <2>1 DEF OutOfOrder
  <2>3. ~ (SignatureAt(bytes, k).guardian_index < SignatureAt(bytes, k + 1).guardian_index)
    <3>1. SignatureAt(bytes, k).guardian_index \in Nat
          /\ SignatureAt(bytes, k + 1).guardian_index \in Nat
      BY <1>10, <1>12, <2>1
    <3> QED
      BY <1>7, <2>2, <3>1
  <2>4. k \in 1 .. n - 1 /\ k \in 1 .. n /\ k + 1 \in 1 .. n
    BY <1>5, <2>1
  <2>5. /\ ParsedSignatures(bytes)[k] = SignatureAt(bytes, k)
        /\ ParsedSignatures(bytes)[k + 1] = SignatureAt(bytes, k + 1)
    BY <2>4 DEF ParsedSignatures
  <2>6. ~ Accepted(bytes)
    BY <2>3, <2>4, <2>5 DEF Accepted
  <2> QED
    BY <1>12, <2>6, ErrorKeepsWalk
<1>13. CASE /\ Left >= SIGNATURE_ENTRY_LEN
            /\ ~ OutOfOrder(parsed.signatures, sig.guardian_index)
            /\ parsed' = [parsed EXCEPT !.signatures = Append(@, sig)]
            /\ Advance(SIGNATURE_ENTRY_LEN, "signatures")
            /\ UNCHANGED <<num_sigs, fields_read>>
  <2>1. /\ pc' = "signatures" /\ cur' = cur + e
        /\ UNCHANGED <<origin, bytes, outcome, num_sigs, fields_read>>
    BY <1>13 DEF Advance
  <2>2. cur' = sigs_start + (k + 1) * e /\ cur' \in Nat /\ cur' <= Len(bytes)
    <3> DEFINE x == k * e
               z == (k + 1) * e
    <3>1. /\ x \in Nat /\ z = x + e /\ e \in Nat /\ sigs_start \in Nat
          /\ cur = sigs_start + x /\ Len(bytes) >= sigs_start + z
      BY <1>3, <1>6, <1>9, <1>13
    <3> HIDE DEF x, z, e
    <3>2. cur' = sigs_start + z /\ cur' \in Nat /\ cur' <= Len(bytes)
      BY <1>1, <2>1, <3>1
    <3> QED
      BY <3>2 DEF z
  <2>3. Append(SignaturesUpTo(bytes, k), sig) = SignaturesUpTo(bytes, k + 1)
    BY <1>7 DEF SignaturesUpTo
  <2>4. parsed' = Read(bytes[1], IndexOf(bytes), SignaturesUpTo(bytes, k + 1), <<>>, <<>>)
    BY <1>3, <1>13, <2>3 DEF Read
  <2>5. AscendingUpTo(bytes, k + 1)
    <3>1. ASSUME k # 0
          PROVE  SignatureAt(bytes, k).guardian_index < SignatureAt(bytes, k + 1).guardian_index
      <4>1. ~ (sig.guardian_index <= SignatureAt(bytes, k).guardian_index)
        BY <1>4, <1>11, <1>13, <3>1 DEF OutOfOrder
      <4>2. SignatureAt(bytes, k).guardian_index \in Nat
            /\ SignatureAt(bytes, k + 1).guardian_index \in Nat
        BY <1>10, <1>13, <3>1
      <4> QED
        BY <1>7, <4>1, <4>2
    <3>2. \A i \in 1 .. (k + 1) - 1 : i = k \/ i \in 1 .. k - 1
      OBVIOUS
    <3> QED
      BY <1>3, <3>1, <3>2 DEF AscendingUpTo
  <2>6. AtSignature(k + 1)'
    <3>1. /\ IndexOf(bytes)' = IndexOf(bytes)
          /\ SignaturesUpTo(bytes, k + 1)' = SignaturesUpTo(bytes, k + 1)
          /\ num_signatures(bytes)' = num_signatures(bytes)
          /\ AscendingUpTo(bytes, k + 1)' = AscendingUpTo(bytes, k + 1)
      BY <2>1
    <3>2. k + 1 <= num_sigs
      BY <1>3, <1>5
    <3> QED
      BY <1>3, <2>1, <2>2, <2>4, <2>5, <3>1, <3>2 DEF AtSignature, VersionRead
  <2>7. TypeOK'
    <3>1. cur' \in 0 .. Len(bytes)
      BY <1>1, <2>2
    <3> QED
      BY <2>1, <2>4, <3>1 DEF IInv, TypeOK, Read, Nothing
  <2>8. k + 1 \in Nat
    OBVIOUS
  <2> QED
    BY <1>1, <2>1, <2>6, <2>7, <2>8 DEF IInv, WalkInv, ParserNeverPanics
<1> HIDE DEF sig, e, n
<1> QED
  BY <1>8, <1>12, <1>13 DEF ReadSignature, sig

LEMMA NoFieldRead ==
  ASSUME NEW data
  PROVE  HeaderUpTo(data, 0) = <<>>
<1>1. {Fields[j] : j \in 1 .. 0} = {}
  OBVIOUS
<1>2. HeaderUpTo(data, 0) = [f \in {} |->
        FieldValue(f, Slice(BodyOf(data), FieldOffset(f), FIELD_LEN[f]))]
  BY <1>1 DEF HeaderUpTo
<1>3. 1 .. 0 = {}
  OBVIOUS
<1>4. <<>> = [f \in {} |->
        FieldValue(f, Slice(BodyOf(data), FieldOffset(f), FIELD_LEN[f]))]
  <2>1. DOMAIN <<>> = {}
    BY <1>3, EmptySeq, LenProperties
  <2> QED
    BY <2>1
<1> QED
  BY <1>2, <1>4

LEMMA BodyLength ==
  ASSUME NEW data \in Seq(Byte), Len(data) >= sigs_start, Len(data) >= body_start(data)
  PROVE  /\ BodyOf(data) \in Seq(Byte)
         /\ Len(BodyOf(data)) = Len(data) - body_start(data)
<1> DEFINE b == body_start(data)
           l == Len(data)
<1>1. b \in Nat /\ l \in Nat /\ b <= l /\ l <= Len(data)
  BY SignatureCount, LenProperties
<1>2. BodyOf(data) = SubSeq(data, b + 1, l)
  BY DEF BodyOf
<1> HIDE DEF b, l
<1>3. BodyOf(data) \in Seq(Byte) /\ Len(BodyOf(data)) = l - b
  BY <1>1, <1>2, SliceType
<1> QED
  BY <1>3 DEF b, l

LEMMA EnterBodyStep ==
  ASSUME IInv, EnterBody
  PROVE  IInv'
<1> DEFINE n == num_signatures(bytes)
<1>1. /\ pc = "signatures" /\ outcome = "none" /\ fields_read = 0
      /\ bytes \in Seq(Byte) /\ Len(bytes) \in Nat
      /\ Len(parsed.signatures) = num_sigs
  BY LenProperties DEF EnterBody, AllSignaturesRead, IInv, TypeOK, WalkInv
<1>2. PICK k \in Nat : AtSignature(k)
  BY <1>1 DEF IInv, WalkInv
<1>3. /\ VersionRead /\ Len(bytes) >= sigs_start /\ num_sigs = n
      /\ cur = sigs_start + k * SIGNATURE_ENTRY_LEN /\ AscendingUpTo(bytes, k)
      /\ parsed = Read(bytes[1], IndexOf(bytes), SignaturesUpTo(bytes, k), <<>>, <<>>)
  BY <1>2 DEF AtSignature
<1>4. k = n
  BY <1>1, <1>3 DEF Read, SignaturesUpTo
<1>5. cur = body_start(bytes) /\ body_start(bytes) \in Nat
  BY <1>1, <1>3, <1>4, SignatureCount
<1>6. SignaturesUpTo(bytes, k) = ParsedSignatures(bytes)
  BY <1>4 DEF SignaturesUpTo, ParsedSignatures
<1>7. BODY_HEADER_LEN \in Nat /\ cur <= Len(bytes)
  BY <1>1, HeaderOffsets DEF IInv, TypeOK
<1>8. CASE Left < BODY_HEADER_LEN /\ Return("Malformed")
  <2>1. Len(BodyOf(bytes)) = Len(bytes) - body_start(bytes)
    BY <1>1, <1>3, <1>5, <1>7, BodyLength
  <2>2. Len(BodyOf(bytes)) < BODY_HEADER_LEN /\ Len(BodyOf(bytes)) \in Int
    BY <1>1, <1>5, <1>8, <2>1 DEF Left
  <2>3. ~ (Len(BodyOf(bytes)) >= BODY_HEADER_LEN)
    BY <1>7, <2>2
  <2>4. ~ Accepted(bytes)
    BY <2>3 DEF Accepted
  <2> QED
    BY <1>8, <2>4, ErrorKeepsWalk
<1>9. CASE /\ Left >= BODY_HEADER_LEN
           /\ Advance(0, "field")
           /\ UNCHANGED <<num_sigs, parsed, fields_read>>
  <2>1. /\ pc' = "field" /\ cur' = cur
        /\ UNCHANGED <<origin, bytes, outcome, num_sigs, parsed, fields_read>>
    BY <1>5, <1>9 DEF Advance
  <2>2. BodyEntered
    BY <1>1, <1>3, <1>4, <1>5, <1>7, <1>9 DEF BodyEntered, Left
  <2>3. AtField'
    <3>1. /\ IndexOf(bytes)' = IndexOf(bytes)
          /\ ParsedSignatures(bytes)' = ParsedSignatures(bytes)
          /\ HeaderUpTo(bytes, 0)' = HeaderUpTo(bytes, 0)
          /\ body_start(bytes)' = body_start(bytes)
      BY <2>1
    <3>2. BodyEntered'
      BY <2>1, <2>2 DEF BodyEntered, VersionRead
    <3>3. HeaderOffset[0] = 0 /\ HeaderUpTo(bytes, 0) = <<>>
      BY HeaderOffsets, NoFieldRead
    <3>4. cur = body_start(bytes) + 0
      BY <1>5
    <3> QED
      BY <1>1, <1>3, <1>6, <2>1, <3>1, <3>2, <3>3, <3>4 DEF AtField
  <2>4. TypeOK'
    BY <2>1 DEF IInv, TypeOK
  <2> QED
    BY <1>1, <2>1, <2>3, <2>4 DEF IInv, WalkInv, ParserNeverPanics
<1> QED
  BY <1>8, <1>9 DEF EnterBody

\* The k-th field, read at the cursor, is the one at its offset in the body.
LEMMA FieldSlices ==
  ASSUME NEW data \in Seq(Byte), Len(data) >= sigs_start,
         Len(data) >= body_start(data) + BODY_HEADER_LEN, NEW k \in 1 .. 6
  PROVE  /\ body_start(data) + HeaderOffset[k - 1] + FIELD_LEN[Fields[k]] <= Len(data)
         /\ Slice(data, body_start(data) + HeaderOffset[k - 1], FIELD_LEN[Fields[k]])
              = Slice(BodyOf(data), FieldOffset(Fields[k]), FIELD_LEN[Fields[k]])
<1> DEFINE b == body_start(data)
           l == Len(data)
           p == HeaderOffset[k - 1]
           w == FIELD_LEN[Fields[k]]
           h == BODY_HEADER_LEN
           q == p + w
<1>1. /\ Fields[k] \in Field /\ HeaderOffset[k - 1] = FieldOffset(Fields[k])
      /\ HeaderOffset[k] = HeaderOffset[k - 1] + FIELD_LEN[Fields[k]]
      /\ HeaderOffset[k] <= BODY_HEADER_LEN
  BY HeaderOffsets
<1>2. p \in Nat /\ w \in Nat /\ q <= h /\ h \in Nat
  BY <1>1, FieldPlace, HeaderOffsets
<1>3. b \in Nat /\ l \in Nat /\ l >= b + h
  BY SignatureCount, LenProperties
<1>4. Len(data) >= body_start(data)
  BY <1>2, <1>3
<1>5. BodyOf(data) \in Seq(Byte) /\ Len(BodyOf(data)) = l - b
  BY <1>4, BodyLength
<1>6. Slice(BodyOf(data), p, w) = SubSeq(BodyOf(data), p + 1, q)
  <2>1. p + w <= Len(BodyOf(data))
    <3> HIDE DEF b, l, p, w, h
    <3> QED
      BY <1>2, <1>3, <1>5
  <2> QED
    BY <2>1, SliceInside
<1>7. BodyOf(data) = SubSeq(data, b + 1, l)
  BY DEF BodyOf
<1>8. FieldOffset(Fields[k]) = p /\ l = Len(data)
  BY <1>1
<1>9. Slice(data, b + p, w) = SubSeq(data, b + p + 1, b + p + w)
  <2>1. b + p + w <= Len(data)
    <3> HIDE DEF b, p, w, h
    <3> QED
      BY <1>2, <1>3
  <2> QED
    BY <2>1, SliceInside
<1> HIDE DEF b, l, p, w, h
<1>10. b + p + w <= l
  BY <1>2, <1>3
<1>11. q \in Nat /\ p <= q /\ q <= l - b /\ b <= l /\ l <= Len(data) /\ b + q = b + p + w
  BY <1>2, <1>3, <1>8
<1> HIDE DEF q
<1>12. SubSeq(SubSeq(data, b + 1, l), p + 1, q) = SubSeq(data, b + p + 1, b + q)
  BY <1>2, <1>3, <1>11, SliceOfSlice
<1>13. Slice(data, b + p, w) = Slice(BodyOf(data), p, w)
  BY <1>6, <1>7, <1>9, <1>11, <1>12
<1> QED
  BY <1>8, <1>10, <1>13 DEF b, p, w

LEMMA FieldStep ==
  ASSUME IInv, ReadField
  PROVE  IInv'
<1> DEFINE k == fields_read + 1
           f == Fields[k]
           b == body_start(bytes)
           w == FIELD_LEN[f]
<1>1. /\ pc = "field" /\ AtField /\ outcome = "none" /\ bytes \in Seq(Byte)
      /\ Len(bytes) \in Nat
  BY LenProperties DEF ReadField, IInv, TypeOK, WalkInv
<1>2. /\ BodyEntered /\ fields_read \in 0 .. 5 /\ cur = b + HeaderOffset[fields_read]
      /\ parsed = Read(bytes[1], IndexOf(bytes), ParsedSignatures(bytes),
                       HeaderUpTo(bytes, fields_read), <<>>)
  BY <1>1 DEF AtField
<1>3. k \in 1 .. 6 /\ k - 1 = fields_read
  BY <1>2
<1>4. Len(bytes) >= sigs_start /\ Len(bytes) >= body_start(bytes) + BODY_HEADER_LEN
  BY <1>2 DEF BodyEntered
<1>5. /\ b + HeaderOffset[k - 1] + w <= Len(bytes)
      /\ Slice(bytes, b + HeaderOffset[k - 1], w) = Slice(BodyOf(bytes), FieldOffset(f), w)
  <2> HIDE DEF k
  <2> QED
    BY <1>1, <1>3, <1>4, FieldSlices
<1>6. /\ f \in Field /\ w \in Nat /\ b \in Nat
      /\ HeaderOffset[k] = HeaderOffset[k - 1] + w /\ HeaderOffset[k - 1] \in Nat
  <2>1. /\ f \in Field /\ HeaderOffset[k] = HeaderOffset[k - 1] + w
        /\ HeaderOffset[k - 1] = FieldOffset(f)
    <3> HIDE DEF k
    <3> QED
      BY <1>3, HeaderOffsets
  <2> QED
    BY <1>1, <1>4, <2>1, FieldPlace, SignatureCount
<1> HIDE DEF b, w
<1>7. cur + w <= Len(bytes) /\ cur + w = b + HeaderOffset[k] /\ cur + w \in Nat
      /\ cur = b + HeaderOffset[k - 1]
  BY <1>2, <1>3, <1>5, <1>6
<1>8. ~ (Left < w)
  BY <1>1, <1>2, <1>6, <1>7 DEF Left
<1>9. /\ parsed' = [parsed EXCEPT !.body.header =
                      [g \in DOMAIN @ \cup {f} |->
                         IF g = f THEN FieldValue(f, Slice(bytes, cur, w)) ELSE @[g]]]
      /\ fields_read' = k /\ cur' = cur + w
      /\ pc' = IF f = Last(Fields) THEN "payload" ELSE "field"
      /\ UNCHANGED <<origin, bytes, outcome, num_sigs>>
  BY <1>8 DEF ReadField, Advance, w
<1>10. Slice(bytes, cur, w) = Slice(BodyOf(bytes), FieldOffset(f), w)
  BY <1>5, <1>7
<1> DEFINE before == HeaderUpTo(bytes, fields_read)
           after == HeaderUpTo(bytes, k)
<1>11. [g \in DOMAIN before \cup {f} |->
          IF g = f THEN FieldValue(f, Slice(bytes, cur, w)) ELSE before[g]] = after
  <2>1. {Fields[j] : j \in 1 .. k} = {Fields[j] : j \in 1 .. fields_read} \cup {f}
    <3>1. 1 .. k = (1 .. fields_read) \cup {k}
      BY <1>2
    <3> HIDE DEF k
    <3> QED
      BY <3>1
  <2>2. DOMAIN before = {Fields[j] : j \in 1 .. fields_read}
    BY DEF HeaderUpTo
  <2>3. \A g \in DOMAIN before :
          before[g] = FieldValue(g, Slice(BodyOf(bytes), FieldOffset(g), FIELD_LEN[g]))
    BY DEF HeaderUpTo
  <2>4. after = [g \in DOMAIN before \cup {f} |->
                   FieldValue(g, Slice(BodyOf(bytes), FieldOffset(g), FIELD_LEN[g]))]
    BY <2>1, <2>2 DEF HeaderUpTo
  <2> HIDE DEF before, after, f
  <2> QED
    BY <1>10, <2>3, <2>4 DEF w
<1>12. parsed' = Read(bytes[1], IndexOf(bytes), ParsedSignatures(bytes), after, <<>>)
  BY <1>2, <1>9, <1>11 DEF Read
<1>13. f = Last(Fields) <=> k = 6
  <2>1. Last(Fields) = "consistency_level"
    BY FieldNames DEF Last
  <2>2. k = 1 \/ k = 2 \/ k = 3 \/ k = 4 \/ k = 5 \/ k = 6
    BY <1>3
  <2> QED
    BY <2>1, <2>2, FieldNames
<1>14. TypeOK'
  <2>1. cur' \in 0 .. Len(bytes) /\ fields_read' \in 0 .. Len(Fields)
    BY <1>1, <1>3, <1>7, <1>9, FieldNames
  <2> QED
    BY <1>9, <1>12, <2>1 DEF IInv, TypeOK, Read, Nothing
<1>15. /\ IndexOf(bytes)' = IndexOf(bytes)
       /\ ParsedSignatures(bytes)' = ParsedSignatures(bytes)
       /\ body_start(bytes)' = body_start(bytes)
       /\ BodyEntered'
  BY <1>2, <1>9 DEF BodyEntered, VersionRead
<1>16. CASE k # 6
  <2>1. pc' = "field" /\ k \in 0 .. 5
    BY <1>3, <1>9, <1>13, <1>16
  <2>2. AtField'
    <3>1. HeaderUpTo(bytes, fields_read)' = after
      BY <1>9
    <3>2. cur' = b + HeaderOffset[fields_read']
      BY <1>7, <1>9
    <3> HIDE DEF after
    <3> QED
      BY <1>9, <1>12, <1>15, <2>1, <3>1, <3>2 DEF AtField, b
  <2> QED
    BY <1>1, <1>9, <1>14, <2>1, <2>2 DEF IInv, WalkInv, ParserNeverPanics
<1>17. CASE k = 6
  <2>1. pc' = "payload"
    BY <1>9, <1>13, <1>17
  <2>2. AtPayload'
    <3>1. HeaderUpTo(bytes, 6)' = after
      BY <1>9, <1>17
    <3>2. cur' = b + BODY_HEADER_LEN
      BY <1>7, <1>9, <1>17, HeaderOffsets
    <3> HIDE DEF after
    <3> QED
      BY <1>9, <1>12, <1>15, <3>1, <3>2 DEF AtPayload, b
  <2> QED
    BY <1>1, <1>9, <1>14, <2>1, <2>2 DEF IInv, WalkInv, ParserNeverPanics
<1> QED
  BY <1>16, <1>17

LEMMA PayloadStep ==
  ASSUME IInv, ReadPayload
  PROVE  IInv'
<1> DEFINE b == body_start(bytes)
           h == BODY_HEADER_LEN
           n == num_signatures(bytes)
           body == BodyOf(bytes)
<1>1. /\ pc = "payload" /\ AtPayload /\ outcome = "none" /\ bytes \in Seq(Byte)
      /\ Len(bytes) \in Nat
  BY LenProperties DEF ReadPayload, IInv, TypeOK, WalkInv
<1>2. /\ VersionRead /\ Len(bytes) >= sigs_start /\ Len(bytes) >= b + h
      /\ AscendingUpTo(bytes, n) /\ cur = b + h
      /\ parsed = Read(bytes[1], IndexOf(bytes), ParsedSignatures(bytes),
                       HeaderUpTo(bytes, 6), <<>>)
  BY <1>1 DEF AtPayload, BodyEntered
<1>3. b \in Nat /\ h \in Nat /\ n \in Nat /\ MAX_PAYLOAD_LEN \in Nat
  BY <1>1, <1>2, SignatureCount, HeaderOffsets, Widths
<1>4. body \in Seq(Byte) /\ Len(body) = Len(bytes) - b
  <2>1. Len(bytes) >= b
    BY <1>1, <1>2, <1>3
  <2> QED
    BY <1>1, <1>2, <2>1, BodyLength
<1>5. Left = Len(body) - h /\ Len(body) >= h /\ Len(body) \in Nat /\ Left \in Nat
  BY <1>1, <1>2, <1>3, <1>4 DEF Left
<1>6. CASE TooLarge(Left) /\ Return("PayloadTooLarge")
  <2>1. ~ (Len(body) - h <= MAX_PAYLOAD_LEN)
    BY <1>3, <1>5, <1>6 DEF TooLarge
  <2>2. ~ Accepted(bytes)
    BY <2>1 DEF Accepted
  <2> QED
    BY <1>6, <2>2, ErrorKeepsWalk
<1>7. CASE /\ ~ TooLarge(Left)
           /\ parsed' = [parsed EXCEPT !.body.payload = Slice(bytes, cur, Left)]
           /\ pc' = "returned"
           /\ outcome' = "Ok"
           /\ UNCHANGED <<origin, bytes, cur, num_sigs, fields_read>>
  <2>1. Accepted(bytes)
    <3>1. Len(body) - h <= MAX_PAYLOAD_LEN
      BY <1>3, <1>5, <1>7 DEF TooLarge
    <3>2. \A i \in 1 .. n - 1 :
            ParsedSignatures(bytes)[i].guardian_index
              < ParsedSignatures(bytes)[i + 1].guardian_index
      <4>1. \A i \in 1 .. n : ParsedSignatures(bytes)[i] = SignatureAt(bytes, i)
        BY DEF ParsedSignatures
      <4>2. \A i \in 1 .. n - 1 : i \in 1 .. n /\ i + 1 \in 1 .. n
        BY <1>3
      <4> HIDE DEF n
      <4> QED
        BY <1>2, <4>1, <4>2 DEF AscendingUpTo
    <3>3. Len(bytes) >= 1 + INDEX_LEN /\ Len(bytes) >= b
      BY <1>1, <1>2, <1>3, Widths
    <3> QED
      BY <1>2, <1>5, <3>1, <3>2, <3>3 DEF Accepted, VersionRead
  <2>2. Slice(bytes, cur, Left) = SubSeq(body, h + 1, Len(body))
    <3> DEFINE l == Len(bytes)
               q == Len(body)
    <3>1. /\ l \in Nat /\ q \in Nat /\ b <= l /\ l <= Len(bytes) /\ h <= q /\ q <= l - b
          /\ b + q = l /\ q = Len(body)
      BY <1>1, <1>2, <1>3, <1>4, <1>5
    <3>2. body = SubSeq(bytes, b + 1, l)
      BY DEF BodyOf
    <3>3. Slice(bytes, cur, Left) = SubSeq(bytes, b + h + 1, l)
      <4>1. cur + Left <= Len(bytes) /\ cur + Left = l /\ cur = b + h
        <5>1. cur \in Nat /\ cur = b + h /\ Left = Len(bytes) - cur
          BY <1>2, <1>3 DEF Left
        <5> HIDE DEF b, h
        <5> QED
          BY <1>1, <5>1
      <4>2. Slice(bytes, cur, Left) = SubSeq(bytes, cur + 1, cur + Left)
        BY <4>1, SliceInside
      <4> QED
        BY <4>1, <4>2
    <3> HIDE DEF l, q, b, h, body
    <3>4. SubSeq(SubSeq(bytes, b + 1, l), h + 1, q) = SubSeq(bytes, b + h + 1, b + q)
      BY <1>1, <1>3, <3>1, SliceOfSlice
    <3>5. SubSeq(body, h + 1, q) = SubSeq(bytes, b + h + 1, l)
      BY <3>1, <3>2, <3>4
    <3> QED
      BY <3>1, <3>3, <3>5
  <2>3. HeaderUpTo(bytes, 6) = [f \in Field |->
          FieldValue(f, Slice(body, FieldOffset(f), FIELD_LEN[f]))]
    <3>1. {Fields[j] : j \in 1 .. 6} = Field
      <4>1. DOMAIN Fields = 1 .. 6
        BY DEF Fields
      <4> QED
        BY <4>1 DEF Field, ToSet
    <3> QED
      BY <3>1 DEF HeaderUpTo
  <2>4. parsed' = ParsedVaa(bytes)
    BY <1>2, <1>7, <2>2, <2>3 DEF Read, ParsedVaa, IndexOf
  <2>5. TypeOK'
    BY <1>7, <2>4 DEF IInv, TypeOK, ParsedVaa, Nothing
  <2>6. Accepted(bytes)' /\ ParsedVaa(bytes)' = ParsedVaa(bytes)
    BY <1>7, <2>1
  <2> QED
    BY <1>7, <2>4, <2>5, <2>6 DEF IInv, WalkInv, ParserNeverPanics
<1> QED
  BY <1>6, <1>7 DEF ReadPayload

LEMMA WalkInductive == IInv /\ [Next]_vars => IInv'
<1> SUFFICES ASSUME IInv, [Next]_vars PROVE IInv'
  OBVIOUS
<1>1. CASE UNCHANGED vars
  <2>1. UNCHANGED <<origin, bytes, pc, cur, num_sigs, parsed, fields_read, outcome>>
    BY <1>1 DEF vars
  <2>2. TypeOK'
    BY <2>1 DEF IInv, TypeOK
  <2>3. WalkInv'
    BY <2>1 DEF IInv, WalkInv, AtVersion, AtIndex, AtCount, AtSignature, AtField, AtPayload,
                BodyEntered, VersionRead
  <2> QED
    BY <2>1, <2>2, <2>3 DEF IInv, ParserNeverPanics
<1> QED
  BY <1>1, VersionStep, SetIndexStep, CountStep, SignatureStep, EnterBodyStep, FieldStep,
     PayloadStep DEF Next

LEMMA WalkInvariant == Spec => []IInv
BY InputsAreBytes, InitWalk, WalkInductive, PTL DEF Spec

(* The cursor and the counters of Vaa::parse stay in their ranges.         *)
THEOREM WireTypeOK == Spec => []TypeOK
<1>1. IInv => TypeOK
  BY DEF IInv
<1> QED
  BY <1>1, WalkInvariant, PTL

(* Vaa::parse never indexes its input out of bounds, whatever the widths   *)
(* of the format and however the bytes were cut or changed.                *)
THEOREM ParsesWithoutPanic == Spec => []ParserNeverPanics
<1>1. IInv => ParserNeverPanics
  BY DEF IInv
<1> QED
  BY <1>1, WalkInvariant, PTL

(* Vaa::parse and ParsedVaa::parse accept the same bytes and read the same *)
(* VAA from them.                                                          *)
THEOREM SameVaaOnBothSides == Spec => []ParsersAgree
<1>1. IInv => ParsersAgree
  BY DEF IInv, WalkInv, ParsersAgree, Returned
<1> QED
  BY <1>1, WalkInvariant, PTL

LEMMA WalkReencodes == IInv => ReencodesAsReceived
<1> SUFFICES ASSUME IInv, outcome = "Ok" PROVE ReencodesAsReceived
  BY DEF ReencodesAsReceived
<1>1. pc = "returned"
  BY DEF IInv, WalkInv
<1>2. Accepted(bytes) /\ parsed = ParsedVaa(bytes) /\ bytes \in Seq(Byte)
  BY <1>1 DEF IInv, TypeOK, WalkInv
<1>3. Len(bytes) >= sigs_start /\ Len(bytes) >= body_start(bytes)
      /\ Len(BodyOf(bytes)) >= BODY_HEADER_LEN
  BY <1>2 DEF Accepted
<1>4. Len(BodyOf(bytes)) = Len(bytes) - body_start(bytes)
  BY <1>2, <1>3, BodyLength
<1>5. Len(bytes) >= body_start(bytes) + BODY_HEADER_LEN
  <2>1. body_start(bytes) \in Nat
    BY <1>2, <1>3, SignatureCount
  <2>2. Len(bytes) \in Nat /\ BODY_HEADER_LEN \in Nat
    BY <1>2, HeaderOffsets, LenProperties
  <2>3. Len(bytes) - body_start(bytes) >= BODY_HEADER_LEN
    BY <1>3, <1>4
  <2> QED
    BY <2>1, <2>2, <2>3
<1> QED
  BY <1>2, <1>3, <1>5, ReadingEncoded DEF ReencodesAsReceived

(* The digest that is taken over the re-encoded body is the digest of the  *)
(* bytes that were received.                                               *)
THEOREM AcceptedBytesAreCanonical == Spec => []ReencodesAsReceived
BY WalkReencodes, WalkInvariant, PTL

(* What was encoded is read back unchanged, or refused when it is beyond   *)
(* the limits of the format.                                               *)
THEOREM EncodingsReadBack == Spec => []ReadBackAsSent
<1>1. IInv => ReadBackAsSent
  <2> SUFFICES ASSUME IInv, Returned, bytes = encode(origin) PROVE ReadBackAsSent
    BY DEF ReadBackAsSent
  <2>1. /\ outcome = "Ok" <=> Accepted(bytes)
        /\ outcome = "Ok" => parsed = ParsedVaa(bytes)
        /\ origin \in Vaas
    BY DEF IInv, TypeOK, WalkInv, Returned
  <2> QED
    BY <2>1, ReadEncoding DEF ReadBackAsSent
<1> QED
  BY <1>1, WalkInvariant, PTL

(* The inputs of the runs are encodings and what is left of them on the    *)
(* way; on every byte string at all the two parsers agree as well, and     *)
(* what they accept is the encoding of what they read.                     *)
THEOREM ParsersAgreeOnEveryInput ==
  AnyInput /\ [][Next]_vars =>
    [](ParsersAgree /\ ReencodesAsReceived /\ ParserNeverPanics)
<1>1. IInv => ParsersAgree /\ ParserNeverPanics
  BY DEF IInv, WalkInv, ParsersAgree, Returned
<1> QED
  BY <1>1, InitWalk, WalkInductive, WalkReencodes, PTL
=============================================================================

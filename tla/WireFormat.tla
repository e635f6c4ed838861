----------------------------- MODULE WireFormat -----------------------------
(***************************************************************************)
(* The byte encoding of a VAA: Vaa::encode and Vaa::parse of               *)
(* crates/wormverify-types, and ParsedVaa::parse of the on-chain program,  *)
(* which is a second implementation of the same format.  The off-chain     *)
(* parser walks the bytes with a cursor and is a state machine here, one   *)
(* action per read; the on-chain one computes every offset and is an       *)
(* operator.                                                               *)
(*                                                                         *)
(* The widths of the format are parameters, so that TLC can work with      *)
(* short bytes and short fields; the code has BYTE = 256, INDEX_LEN = 4,   *)
(* RS_LEN = 64, FIELD_LEN = 4, 4, 2, 32, 8, 1 and MAX_PAYLOAD_LEN = 1024.  *)
(* A position is a Rust one, counted from zero.                            *)
(***************************************************************************)
EXTENDS Naturals, Sequences, SequencesExt

CONSTANTS
  BYTE,              \* number of values of a byte
  INDEX_LEN,         \* bytes of guardian_set_index
  RS_LEN,            \* bytes of a compact signature
  FIELD_LEN,         \* bytes of each body field
  MAX_PAYLOAD_LEN,
  Vaas               \* the VAAs that are encoded

Fields == <<"timestamp", "nonce", "emitter_chain", "emitter_address",
            "sequence", "consistency_level">>

Field == ToSet(Fields)

(* As many entries as a byte cannot count fill more than a payload may     *)
(* hold (256 * 66 > 1024).                                                 *)
ASSUME WidthAssumption ==
  /\ BYTE \in Nat \ {0, 1}
  /\ INDEX_LEN \in Nat \ {0}
  /\ RS_LEN \in Nat
  /\ FIELD_LEN \in [Field -> Nat \ {0}]
  /\ MAX_PAYLOAD_LEN \in Nat
  /\ BYTE * (RS_LEN + 2) > MAX_PAYLOAD_LEN

SUPPORTED_VERSION == 1

SIGNATURE_ENTRY_LEN == 1 + RS_LEN + 1

BODY_HEADER_LEN ==
  FIELD_LEN["timestamp"] + FIELD_LEN["nonce"] + FIELD_LEN["emitter_chain"]
    + FIELD_LEN["emitter_address"] + FIELD_LEN["sequence"]
    + FIELD_LEN["consistency_level"]

-----------------------------------------------------------------------------
Byte == 0 .. BYTE - 1

ByteArray(n) == [1 .. n -> Byte]

\* What is left of n when its k low bytes are shifted out.
shifted(n, k) ==
  LET shift[i \in 0 .. k] == IF i = 0 THEN n ELSE shift[i - 1] \div BYTE
  IN shift[k]

\* The values of an unsigned integer type that is width bytes long.
Fits(n, width) == n \in Nat /\ shifted(n, width) = 0

to_be_bytes(n, width) == [i \in 1 .. width |-> shifted(n, width - i) % BYTE]

\* A bug: the least significant byte is taken to come first.
from_le_bytes(data) == FoldRight(LAMBDA b, n : n * BYTE + b, data, 0)

from_be_bytes(data) ==
  LET value[i \in 0 .. Len(data)] ==
        IF i = 0 THEN 0 ELSE value[i - 1] * BYTE + data[i]
  IN value[Len(data)]

\* The emitter address is an array of bytes, every other field an integer.
FieldBytes(f, value) ==
  IF f = "emitter_address" THEN value ELSE to_be_bytes(value, FIELD_LEN[f])

FieldValue(f, data) ==
  IF f = "emitter_address" THEN data ELSE from_be_bytes(data)

body_encode(body) ==
  FlattenSeq([i \in 1 .. Len(Fields) |-> FieldBytes(Fields[i], body.header[Fields[i]])])
    \o body.payload

SignatureEntry(sig) == <<sig.guardian_index>> \o sig.rs \o <<sig.recovery_id>>

\* signatures.len() as u8 keeps the low byte of the length.
encode(vaa) ==
  <<vaa.version>>
    \o to_be_bytes(vaa.guardian_set_index, INDEX_LEN)
    \o <<Len(vaa.signatures) % BYTE>>
    \o FlattenSeq([i \in 1 .. Len(vaa.signatures) |-> SignatureEntry(vaa.signatures[i])])
    \o body_encode(vaa.body)

\* What there is of data[from .. from + n].
Slice(data, from, n) ==
  SubSeq(data, from + 1, IF from + n <= Len(data) THEN from + n ELSE Len(data))

\* The structs Vaa, GuardianSignature and VaaBody, without their widths.
GuardianSignature ==
  [guardian_index : Byte, rs : ByteArray(RS_LEN), recovery_id : Byte]

Header ==
  [timestamp : Nat, nonce : Nat, emitter_chain : Nat,
   emitter_address : ByteArray(FIELD_LEN["emitter_address"]),
   sequence : Nat, consistency_level : Nat]

Vaa ==
  [version : Byte, guardian_set_index : Nat, signatures : Seq(GuardianSignature),
   body : [header : Header, payload : Seq(Byte)]]

(* Every integer of a VAA fits its width, as the types of the code ensure. *)
ASSUME VaasAssumption ==
  \A vaa \in Vaas :
    /\ vaa \in Vaa
    /\ Fits(vaa.guardian_set_index, INDEX_LEN)
    /\ \A f \in Field \ {"emitter_address"} : Fits(vaa.body.header[f], FIELD_LEN[f])

\* An entry of SIGNATURE_ENTRY_LEN bytes.
EntryAt(entry) ==
  [guardian_index |-> entry[1],
   rs |-> SubSeq(entry, 2, RS_LEN + 1),
   recovery_id |-> entry[RS_LEN + 2]]

-----------------------------------------------------------------------------
(* ParsedVaa::parse.  Every position is computed from the signature count  *)
(* and from literals: 0, 4, 8, 10, 42 and 50 for the body fields.          *)
sigs_start == 1 + INDEX_LEN + 1

num_signatures(data) == data[sigs_start]

body_start(data) == sigs_start + num_signatures(data) * SIGNATURE_ENTRY_LEN

FieldOffset(f) ==
  CASE f = "timestamp" -> 0
    [] f = "nonce" -> FIELD_LEN["timestamp"]
    [] f = "emitter_chain" -> FIELD_LEN["timestamp"] + FIELD_LEN["nonce"]
    [] f = "emitter_address" ->
         FIELD_LEN["timestamp"] + FIELD_LEN["nonce"] + FIELD_LEN["emitter_chain"]
    [] f = "sequence" ->
         FIELD_LEN["timestamp"] + FIELD_LEN["nonce"] + FIELD_LEN["emitter_chain"]
           + FIELD_LEN["emitter_address"]
    [] f = "consistency_level" -> BODY_HEADER_LEN - FIELD_LEN["consistency_level"]

BodyOf(data) == SubSeq(data, body_start(data) + 1, Len(data))

SignatureAt(data, i) ==
  EntryAt(Slice(data, sigs_start + (i - 1) * SIGNATURE_ENTRY_LEN, SIGNATURE_ENTRY_LEN))

ParsedSignatures(data) == [i \in 1 .. num_signatures(data) |-> SignatureAt(data, i)]

\* The checks of ParsedVaa::parse, in their order.
Accepted(data) ==
  /\ Len(data) >= 1
  /\ data[1] = SUPPORTED_VERSION
  /\ Len(data) >= 1 + INDEX_LEN
  /\ Len(data) >= sigs_start
  /\ Len(data) >= body_start(data)
  /\ \A i \in 1 .. num_signatures(data) - 1 :
       ParsedSignatures(data)[i].guardian_index < ParsedSignatures(data)[i + 1].guardian_index
  /\ Len(BodyOf(data)) >= BODY_HEADER_LEN
  /\ Len(BodyOf(data)) - BODY_HEADER_LEN <= MAX_PAYLOAD_LEN

\* The VAA it returns; its hash is taken over BodyOf(data).
ParsedVaa(data) ==
  [version |-> data[1],
   guardian_set_index |-> from_be_bytes(Slice(data, 1, INDEX_LEN)),
   signatures |-> ParsedSignatures(data),
   body |->
     [header |-> [f \in Field |->
        FieldValue(f, Slice(BodyOf(data), FieldOffset(f), FIELD_LEN[f]))],
      payload |-> SubSeq(BodyOf(data), BODY_HEADER_LEN + 1, Len(BodyOf(data)))]]

-----------------------------------------------------------------------------
VARIABLES
  origin,        \* history: the VAA that was encoded
  bytes,         \* what is to be parsed
  pc,            \* the next read of Vaa::parse, or "returned"
  cur,           \* the cursor
  num_sigs,
  parsed,        \* what has been read so far
  fields_read,   \* how many of the body fields
  outcome        \* "none", "Ok", a VaaError, or "panic"

vars == <<origin, bytes, pc, cur, num_sigs, parsed, fields_read, outcome>>

Nothing == [version |-> 0, guardian_set_index |-> 0, signatures |-> <<>>,
            body |-> [header |-> <<>>, payload |-> <<>>]]

TypeOK ==
  /\ origin \in Vaas
  /\ bytes \in Seq(Byte)
  /\ pc \in {"version", "index", "count", "signatures", "body", "field",
             "payload", "returned"}
  /\ cur \in 0 .. Len(bytes)
  /\ num_sigs \in Byte
  /\ DOMAIN parsed = DOMAIN Nothing
  /\ fields_read \in 0 .. Len(Fields)
  /\ outcome \in {"none", "Ok", "Malformed", "UnsupportedVersion",
                  "SignaturesOutOfOrder", "PayloadTooLarge", "panic"}

(* The bytes are an encoding, or one that was cut short, prolonged or had  *)
(* a byte changed on the way.                                              *)
Damaged(sent) ==
  {SubSeq(sent, 1, n) : n \in 0 .. Len(sent) - 1}
    \cup {Append(sent, b) : b \in Byte}
    \cup {[sent EXCEPT ![i] = b] : i \in 1 .. Len(sent), b \in Byte}

Started ==
  /\ pc = "version"
  /\ cur = 0
  /\ num_sigs = 0
  /\ parsed = Nothing
  /\ fields_read = 0
  /\ outcome = "none"

Init ==
  /\ origin \in Vaas
  /\ bytes \in {encode(origin)} \cup Damaged(encode(origin))
  /\ Started

-----------------------------------------------------------------------------
Left == Len(bytes) - cur

Return(result) ==
  /\ pc' = "returned"
  /\ outcome' = result
  /\ UNCHANGED <<origin, bytes, cur, num_sigs, parsed, fields_read>>

Advance(n, next) ==
  /\ cur' = cur + n
  /\ pc' = next
  /\ UNCHANGED <<origin, bytes, outcome>>

ReadVersion ==
  /\ pc = "version"
  /\ \/ Left = 0 /\ Return("Malformed")
     \/ Left > 0 /\ bytes[1] # SUPPORTED_VERSION /\ Return("UnsupportedVersion")
     \/ /\ Left > 0 /\ bytes[1] = SUPPORTED_VERSION
        /\ parsed' = [parsed EXCEPT !.version = bytes[1]]
        /\ Advance(1, "index")
        /\ UNCHANGED <<num_sigs, fields_read>>

\* A bug: the index is read from whatever bytes are left.
ReadSetIndexUnchecked ==
  /\ pc = "index"
  /\ parsed' = [parsed EXCEPT !.guardian_set_index = from_be_bytes(Slice(bytes, cur, INDEX_LEN))]
  /\ Advance(INDEX_LEN, "count")
  /\ UNCHANGED <<num_sigs, fields_read>>

ReadSetIndex ==
  /\ pc = "index"
  /\ \/ Left < INDEX_LEN /\ Return("Malformed")
     \/ /\ Left >= INDEX_LEN
        /\ parsed' = [parsed EXCEPT !.guardian_set_index =
                        from_be_bytes(Slice(bytes, cur, INDEX_LEN))]
        /\ Advance(INDEX_LEN, "count")
        /\ UNCHANGED <<num_sigs, fields_read>>

ReadCount ==
  /\ pc = "count"
  /\ \/ Left = 0 /\ Return("Malformed")
     \/ /\ Left > 0
        /\ num_sigs' = bytes[cur + 1]
        /\ Advance(1, "signatures")
        /\ UNCHANGED <<parsed, fields_read>>

\* A bug: an index that is repeated is not out of order.
OutOfOrderUnlessEqual(sigs, index) ==
  sigs # <<>> /\ index < Last(sigs).guardian_index

OutOfOrder(sigs, index) ==
  sigs # <<>> /\ index <= Last(sigs).guardian_index

\* One round of the loop over the signatures.
ReadSignature ==
  /\ pc = "signatures"
  /\ Len(parsed.signatures) < num_sigs
  /\ \/ Left < SIGNATURE_ENTRY_LEN /\ Return("Malformed")
     \/ /\ Left >= SIGNATURE_ENTRY_LEN
        /\ LET sig == EntryAt(Slice(bytes, cur, SIGNATURE_ENTRY_LEN)) IN
           \/ /\ OutOfOrder(parsed.signatures, sig.guardian_index)
              /\ Return("SignaturesOutOfOrder")
           \/ /\ ~ OutOfOrder(parsed.signatures, sig.guardian_index)
              /\ parsed' = [parsed EXCEPT !.signatures = Append(@, sig)]
              /\ Advance(SIGNATURE_ENTRY_LEN, "signatures")
              /\ UNCHANGED <<num_sigs, fields_read>>

AllSignaturesRead == pc = "signatures" /\ Len(parsed.signatures) = num_sigs

\* A bug: parse_body reads on whatever the length.
EnterBodyUnchecked ==
  /\ AllSignaturesRead
  /\ Advance(0, "field")
  /\ UNCHANGED <<num_sigs, parsed, fields_read>>

\* The length check parse_body begins with.
EnterBody ==
  /\ AllSignaturesRead
  /\ \/ Left < BODY_HEADER_LEN /\ Return("Malformed")
     \/ /\ Left >= BODY_HEADER_LEN
        /\ Advance(0, "field")
        /\ UNCHANGED <<num_sigs, parsed, fields_read>>

(* read_u16, read_u32 and read_u64 return an error beyond the end; the     *)
(* address and the consistency level are indexed, which would panic.       *)
Overrun(f) ==
  IF f \in {"emitter_address", "consistency_level"} THEN "panic" ELSE "Malformed"

ReadField ==
  /\ pc = "field"
  /\ LET f == Fields[fields_read + 1] IN
     \/ Left < FIELD_LEN[f] /\ Return(Overrun(f))
     \/ /\ Left >= FIELD_LEN[f]
        /\ parsed' = [parsed EXCEPT !.body.header =
                        [g \in DOMAIN @ \cup {f} |->
                           IF g = f THEN FieldValue(f, Slice(bytes, cur, FIELD_LEN[f]))
                           ELSE @[g]]]
        /\ fields_read' = fields_read + 1
        /\ Advance(FIELD_LEN[f], IF f = Last(Fields) THEN "payload" ELSE "field")
        /\ UNCHANGED num_sigs

\* A bug: the limit itself is refused.
TooLargeFromLimit(len) == len >= MAX_PAYLOAD_LEN

TooLarge(len) == len > MAX_PAYLOAD_LEN

ReadPayload ==
  /\ pc = "payload"
  /\ \/ TooLarge(Left) /\ Return("PayloadTooLarge")
     \/ /\ ~ TooLarge(Left)
        /\ parsed' = [parsed EXCEPT !.body.payload = Slice(bytes, cur, Left)]
        /\ pc' = "returned"
        /\ outcome' = "Ok"
        /\ UNCHANGED <<origin, bytes, cur, num_sigs, fields_read>>

Next ==
  \/ ReadVersion
  \/ ReadSetIndex
  \/ ReadCount
  \/ ReadSignature
  \/ EnterBody
  \/ ReadField
  \/ ReadPayload

Spec == Init /\ [][Next]_vars

-----------------------------------------------------------------------------
Returned == pc = "returned"

(* The two parsers accept the same bytes and read the same VAA from them:  *)
(* what the engine's side takes for a VAA the program takes for the same.  *)
ParsersAgree ==
  Returned =>
    /\ outcome = "Ok" <=> Accepted(bytes)
    /\ outcome = "Ok" => parsed = ParsedVaa(bytes)

(* No byte of an accepted message is dropped or read twice: the digest     *)
(* that Vaa::verify takes over the body it encodes again is the digest of  *)
(* the bytes that were received, which the program hashes.                 *)
ReencodesAsReceived ==
  outcome = "Ok" =>
    /\ encode(parsed) = bytes
    /\ body_encode(parsed.body) = BodyOf(bytes)

WithinLimits(vaa) ==
  /\ vaa.version = SUPPORTED_VERSION
  /\ Len(vaa.signatures) < BYTE
  /\ \A i \in 1 .. Len(vaa.signatures) - 1 :
       vaa.signatures[i].guardian_index < vaa.signatures[i + 1].guardian_index
  /\ Len(vaa.body.payload) <= MAX_PAYLOAD_LEN

(* An encoding is read back as the VAA it was made from, or refused when   *)
(* that VAA is beyond the limits; also when there are more signatures than *)
(* the count byte can say it is never taken for another VAA.               *)
ReadBackAsSent ==
  Returned /\ bytes = encode(origin) =>
    /\ outcome = "Ok" <=> WithinLimits(origin)
    /\ outcome = "Ok" => parsed = origin

(* The reads that are not checked one by one stay inside the bytes,        *)
(* however short these are.                                                *)
ParserNeverPanics == outcome # "panic"
=============================================================================

SPECIFICATION Spec
CONSTANTS
  a = a
  b = b
  None = None
  Key = {k1, k2}
  Emitter = {e1, e2}
  Digest = {d1, long}
  Payload = {p1, long}
  Oversized = {long}
  Address = {a, b}
  KeyLists <- Lists
  SignatureLists <- Signed
  Ttls = {0, 2}
  MAX_GUARDIANS = 2
  MaxIndex = 2
  MaxSequence = 2
  MaxTime = 4
CHECK_DEADLOCK FALSE
INVARIANTS
  TypeOK
  ConsumedOnce
  VerifiedInItsTime
  SetsConsecutive
  SupersededExpires
  SequencesGapFree
PROPERTIES
  SetsNeverRewritten

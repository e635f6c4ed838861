SPECIFICATION Spec
CONSTANTS
  a = a
  b = b
  c = c
  d = d
  e = e
  None = None
  Task = {t1, t2}
  MessageId = {m1}
  SetIndex = {0}
  Address = {a, b, c, d, e}
  KeyLists <- Fixed
  Signatures <- MemberSignatures
  Calls = {"observe", "submit", "stats"}
  VaaAdapter = "memory"
SYMMETRY TaskSymmetry
INVARIANTS
  TypeOK
  PendingGenuine
  PendingBelowQuorum
  AssemblyNeverRejected
  StatsNeverMissesAMessage
  CompleteAtQuorum
PROPERTIES
  ObservedNeverLost
  ReplacedVaaOverlaps

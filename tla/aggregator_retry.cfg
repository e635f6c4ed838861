SPECIFICATION RetrySpec
CONSTANTS
  a = a
  b = b
  c = c
  d = d
  e = e
  None = None
  Task = {t1, t2}
  MessageId = {m1}
  SetIndex = {0}
  Address = {a, b, c, d, e}
  KeyLists <- Small
  Signatures <- TrioSignatures
  Calls = {"observe", "submit"}
  VaaAdapter = "memory"
PROPERTIES
  EventuallyAssembled
  QuorumIsStored
  StoredVaaIsAnnounced

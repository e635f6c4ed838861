SPECIFICATION Spec
CONSTANTS
  a = a
  b = b
  c = c
  d = d
  e = e
  None = None
  Task = {t1, t2}
  MessageId = {m1}
  SetIndex = {0, 1}
  Address = {a, b, c, d, e}
  KeyLists <- Replaceable
  Signatures <- MixedSignatures
  Calls = {"observe", "submit", "upgrade", "current"}
  VaaAdapter = "unreliable"
SYMMETRY TaskSymmetry
INVARIANTS
  StoredVaaVerified
  CurrentSetAvailable
  AnnouncedVaaIsStored

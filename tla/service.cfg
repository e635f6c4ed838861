SPECIFICATION ServiceSpec
CONSTANTS
  a = a
  b = b
  None = None
  Task = {t1, t2}
  MessageId = {m1, m2}
  SetIndex = {0}
  Address = {a, b}
  KeyLists <- Sets
  Signatures <- Offered
  Calls = {"observe", "submit", "upgrade"}
  VaaAdapter = "memory"
  Subscriber = {s1}
  Followed <- Follows
  capacity = 2
  simulated_index = 0
  secret_keys <- Simulated
CONSTRAINT StillMeeting
INVARIANTS
  ServiceTypeOK
  UncontendedSignatureKept
  UncontendedIsCleared
  CaughtUpViewIsExact
PROPERTIES
  ImplementsAttestation
  ReplyCountsTrue
  SubscribersHear

SPECIFICATION Spec
CONSTANTS
  BYTE = 4
  INDEX_LEN = 2
  RS_LEN = 1
  FIELD_LEN <- MCFieldLen
  MAX_PAYLOAD_LEN = 2
  Vaas <- MCVaas
INVARIANTS
  TypeOK
  ParsersAgree
  ReencodesAsReceived
  ReadBackAsSent
  ParserNeverPanics
CHECK_DEADLOCK FALSE

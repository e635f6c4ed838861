SPECIFICATION Spec
CONSTANTS
  Caller = {c1, c2}
  failure_threshold = 1
  open_duration = 1
  U32_MAX = 2
INVARIANT
  AtMostOneTrial

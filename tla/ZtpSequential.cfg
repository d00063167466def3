SPECIFICATION FairSpec
CONSTANTS
  d1 = d1
  d2 = d2
  c1 = c1
  c2 = c2
  c3 = c3
  Device = {d1}
  Claim = {c1, c2}
  Holder <- OneDevice
  Attempts = 2
  Operations = {"stage", "create", "cancel", "revoke"}
  MayLapse = {c1}
  Parallel = 1
  Failures = 1
INVARIANTS
  AnsweredIsRecorded
PROPERTIES
  ImplementsAtomicEnrollment
  ClaimsPay
CHECK_DEADLOCK FALSE

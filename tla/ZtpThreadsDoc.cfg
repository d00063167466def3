SPECIFICATION Spec
CONSTANTS
  d1 = d1
  d2 = d2
  c1 = c1
  c2 = c2
  c3 = c3
  Device = {d1, d2}
  Claim = {c1, c2, c3}
  Holder <- TwoDevices
  Attempts = 1
  Operations = {"stage", "create"}
  MayLapse = {}
  Parallel = 2
  Failures = 0
PROPERTIES
  ImplementsAtomicEnrollment
CHECK_DEADLOCK FALSE

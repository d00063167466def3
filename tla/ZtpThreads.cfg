SPECIFICATION Spec
CONSTANTS
  d1 = d1
  d2 = d2
  c1 = c1
  c2 = c2
  c3 = c3
  Device = {d1}
  Claim = {c1}
  Holder <- JustOne
  Attempts = 2
  Operations = {"stage", "create", "cancel", "revoke"}
  MayLapse = {c1}
  Parallel = 3
  Failures = 1
PROPERTIES
  CommittedIsKept
CHECK_DEADLOCK FALSE

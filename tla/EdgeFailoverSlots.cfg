SPECIFICATION Spec
CONSTANTS
  mpls = mpls
  bb = bb
  Preferred = hub1
  Standby = hub2
  Transport <- TwoTransports
  Place <- TwoPlaces
  Slot <- TwoTransports
  SuspectFailures = 1
  FailedFailures = 2
  RecoverySuccesses = 1
  HoldDown = 0
  DrainTimeout = 1
  Prefixes = 1
  CountMayFail = TRUE
  Answering <- AllButStandbyMpls
  ProbeResult = {"usable", "unusable"}
INVARIANTS
  FailedOnlyWhenStranded
PROPERTIES
  LeastDisplacement

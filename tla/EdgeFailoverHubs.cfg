SPECIFICATION FairSpec
CONSTANTS
  mpls = mpls
  bb = bb
  Preferred = hub1
  Standby = hub2
  Transport <- OneTransport
  Place <- OnePlace
  Slot <- OneTransport
  SuspectFailures = 2
  FailedFailures = 3
  RecoverySuccesses = 2
  HoldDown = 2
  DrainTimeout = 3
  Prefixes = 2
  CountMayFail = FALSE
  Answering <- Every
  ProbeResult = {"usable", "unusable", "stale"}
INVARIANTS
  RoutesFollowManager
PROPERTIES
  MovesOntoHealthy
  DrainHonoured
  EmergencyClears

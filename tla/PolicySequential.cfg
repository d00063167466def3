SPECIFICATION FairSpec
CONSTANTS
  Hub1 = hub1
  Hub2 = hub2
  Spoke = {n1}
  Workers = 1
  Troubled = {}
  Racing = FALSE
  Caller = {c1}
  Parallel = 1
  Failures = 0
  MaxRegistrations = 4
PROPERTIES
  ImplementsHubFirst
  SpokesActivated
CHECK_DEADLOCK FALSE

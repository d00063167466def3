SPECIFICATION Spec
CONSTANTS
  Hub1 = hub1
  Hub2 = hub2
  Spoke = {n1}
  Workers = 2
  Troubled = {hub1}
  Racing = FALSE
  Caller = {c1, c2}
  Parallel = 2
  Failures = 1
  MaxRegistrations = 3
INVARIANT
  VerifiedMeansApplied
CHECK_DEADLOCK FALSE
SYMMETRY Swaps

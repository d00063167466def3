SPECIFICATION Spec
CONSTANTS
  Roles = {"spoke"}
  Hub = {"h1", "h2"}
  Path = {"p1", "p2"}
  OwnHub = "h1"
  FallbackPath = "p1"
  Intents <- OtherHub
  MaxChanges = 1
  NoConn = NoConn
INVARIANTS
  FollowsRemap
CHECK_DEADLOCK FALSE

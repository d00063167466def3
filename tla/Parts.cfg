SPECIFICATION PartsSpec
CONSTANTS
  Roles = {"spoke", "hub", "gateway", "v4"}
  Hub = {"h1", "h2"}
  Path = {"p1", "p2"}
  OwnHub = "h1"
  FallbackPath = "p1"
  Intents <- OtherHub
  MaxChanges = 2
  NoDestinationMark = NoDestinationMark
  NoConn = NoConn
  Nobody = Nobody
  SuspectFailures = 1
  FailedFailures = 2
  RecoverySuccesses = 2
  HoldDown = 2
  StaleAfter = 1
  MaxSequence = 5
  Target = {"h1mpls", "h1bb", "h2bb"}
  Slot = {"mpls", "bb"}
  EventId = {"e1", "e2"}
  Initial <- InitialTargets
  DrainTimeout = 1
  Caller = {"c1", "c2"}
  PreferredHub = "h1"
  StandbyHub = "h2"
  MaxEpoch = 4
  Site = {"n1", "n2"}
  HubSite = {"h1", "h2"}
  FirstHub = "h1"
  Rotating = {"n1", "h2"}
  Requested = 5
  Disturbances = 1
  Staged = {"n1"}
  Server = {"t1", "t2"}
  MaxOwners = 1
  MaxDeaths = 1
  Transport = {"mpls", "bb"}
  Preferred <- HomeHub
  Elsewhere = {"dc", "saas", "cloud"}
  InternetCapable = {"bb"}
  SlotTransport = {"mpls", "bb"}
  Mpls = "mpls"
  Rankings <- TwoRankings
  HubRouter = {"h1", "h2"}
  Spoke = {"n1", "n2"}
  Home <- HomeHub
  Requester = {"c1"}
  MaxReconcile = 4
  Faults = 2
  Order <- TwoUnderlays
  FailedEpochs = 2
  PathHoldDown = 1
  MinimumPathTime = 1
  MaxMeasured = 4
  MaxRounds = 4
  Ranked = {"mpls", "bb"}
  Bootstrap = "mpls"
  Ttl = 1
  DefaultTtl = 1
  OverrideTtl = 1
  MaxDecision = 3
  MaxFlight = 1
  Actor = {"alice"}
  Sessions = 2
  Messages = 2
  Tool = {"explain"}
  Kind = {"edge_route", "sites"}
  Yields <- ToolYields
  ClaimType = {"endpoint_route", "site_status"}
  CompletePath = {"endpoint_route"}
  Compatible <- KindsOfClaim
INVARIANTS
  FailedOnEvidence
  EventsExplainSlots
  BranchesReachEachOther
  SpokePublishedOnce
  OneOwnerPerEpoch
  MarksStandForPolicy
  ReturnsWhereItCame
  RoutersAgree
  OneRoundPerDecision
  DecisionExplained
  AnswersFollowMessages
  ShownAsGathered
PROPERTIES
  RecoveryEarned
  CommitMeansInstalled
  LeftOnEvidence
CHECK_DEADLOCK FALSE

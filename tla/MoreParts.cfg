SPECIFICATION Spec
CONSTANTS
  mpls = mpls
  bb = bb
  Order <- TwoUnderlays
  Prefixes = 2
  Failures = 2
  DrainTimeout = 1
  Disturbances = 3
  Hubs = 2
  HubIndex <- HubAt
  Spokes = 2
  SpokeIndex <- SpokeAt
  Transports = 2
  TransportIndex <- TransportAt
  Internet = {"bb"}
  Gateway = {"g1"}
  FixedServer = {"sensitive", "unknown"}
  ShippedNetwork <- LabNetwork
  ShippedId <- LabId
  ShippedAddress <- LabAddress
  ShippedStart = 52000
  EditedNetworks <- LabEdits
  EditedIds = {0, 1, 3, 10, 15, 16}
  EditedAddresses = {10, 16, 44, 66, 82, 170}
  EditedStarts = {65000, 65500}
  MaxEdits = 2
INVARIANTS
  KernelAgrees
  AddressNamesInterface
PROPERTIES
  RestoredOntoLive
  EmergencyEnds
  BlackoutAnswered
  KeepsComingBack
  ClassifierFollows
CHECK_DEADLOCK FALSE

SPECIFICATION FairSpec
CONSTANTS
  Tcp = {t1}
  Udp = {u1}
  Direction = {out}
  SequenceSpace = 3
  MaxFlows = 1
  Capacity = 1
  FailOpen = TRUE
  TcpBudget = 2
  UdpBudget = 2
  InspectionTimeout = 1
  Handshake = 1
  Established = 2
  Closing = 1
  UdpTimeout = 2
  DnsTimeout = 1
  Metadata = 1
  MaxLifetime = 2
  OverloadCircuit = 1
INVARIANTS
  BudgetEarned
  EventsAccounted
  OrderlyTeardown
PROPERTIES
  EndsWhenAsked
  LifetimeEnds
CHECK_DEADLOCK FALSE

SPECIFICATION Spec
CONSTANTS
  Actor = {h1, h2}
  Guid = {g1, g2}
  LiveMaxAge = 2
  TicketTTL = 2
  AuthorizationTTL = 2
  EvidenceMaxAge = 1
  PreexecutionTTL = 1
  GateTTL = 1
  ExecTicketTTL = 1
  Capacity <- TwoEach
  MaxTime = 4
  MaxEvidence = 3
  MaxSimulations = 1
  MaxCalls = 2
  MaxFlips = 1
  Fault = {"restart", "mode"}
SYMMETRY ActorGuidSymmetry
INVARIANTS
  TypeOK
  OneWayPerSimulation
  NestedLifetimes
  EvidenceOrder
  SameOperatorThroughout
CHECK_DEADLOCK FALSE

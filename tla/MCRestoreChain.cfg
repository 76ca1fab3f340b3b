SPECIFICATION Spec
CONSTANTS
  Actor = {h1}
  Guid = {g1}
  Agent = {w1}
  LiveMaxAge = 2
  TicketTTL = 2
  AuthorizationTTL = 2
  EvidenceMaxAge = 1
  PreexecutionTTL = 1
  GateTTL = 1
  ExecTicketTTL = 1
  EnvelopeTTL = 1
  ResultMaxAge = 1
  MaxRecords = 2
  Capacity <- TwoEach
  MaxTime = 3
  MaxEvidence = 3
  MaxSimulations = 1
  MaxOperatorCalls = 2
  MaxQueueCalls = 1
  MaxFlips = 1
  Fault = {"restart", "mode", "directory", "lostwrite"}
INVARIANTS
  OneWritePerSimulation
  ClaimedWhileAuthorized
PROPERTIES
  SimulationIsOneShot
CHECK_DEADLOCK FALSE

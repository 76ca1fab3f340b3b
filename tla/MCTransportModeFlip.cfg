SPECIFICATION Spec
CONSTANTS
  Actor = {alice}
  Agent = {w1}
  Guid = {g1}
  ExecTicketTTL = 2
  EnvelopeTTL = 1
  ResultMaxAge = 1
  MaxRecords = 2
  MaxUses = 1
  MaxTime = 2
  MaxCalls = 1
  MaxFlips = 1
  Fault = {"mode"}
INVARIANT RestoreOnlyInSimulation
CHECK_DEADLOCK FALSE

SPECIFICATION Spec
CONSTANTS
  Actor = {alice}
  Agent = {w1, w2}
  Guid = {g1}
  ExecTicketTTL = 2
  EnvelopeTTL = 1
  ResultMaxAge = 1
  MaxRecords = 2
  MaxUses = 1
  MaxTime = 3
  MaxCalls = 2
  MaxFlips = 2
  Fault = {"crash", "timeout", "restart", "mode", "directory"}
SYMMETRY WorkerSymmetry
INVARIANTS
  TypeOK
  OneWritePerGrant
  WriteUnderClaim
  RecordedWriteHappened
  RecordedFailureIsClean
PROPERTIES
  RegistryMonotone
  ImplementsOneShot
CHECK_DEADLOCK FALSE

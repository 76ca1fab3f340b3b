SPECIFICATION Spec
CONSTANTS
  Request = {r1}
  Agent = {a1, a2}
  NoOne = NoOne
  MaxCalls = 2
  MaxRework = 2
  Fault = {"crash", "unanswered", "directory"}
SYMMETRY LifecycleSymmetry
INVARIANTS
  TypeOK
  ResultMatchesStatus
  CompletedIsProvisioned
PROPERTIES
  SerialCallsAreHonoured
CHECK_DEADLOCK FALSE

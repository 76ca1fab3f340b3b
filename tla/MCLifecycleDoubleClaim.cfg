SPECIFICATION Spec
CONSTANTS
  Request = {r1}
  Agent = {a1, a2}
  NoOne = NoOne
  MaxCalls = 2
  MaxRework = 0
  Fault = {}
INVARIANTS
  ExecutionsAreReleased
CHECK_DEADLOCK FALSE

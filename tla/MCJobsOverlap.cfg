SPECIFICATION Spec
CONSTANTS
  Job = {j1, j2}
  Worker = {w1, w2}
  NoOne = NoOne
  MaxCalls = 2
  SkipsConflict = TRUE
  Fault = {"crash", "unanswered", "directory"}
SYMMETRY JobsSymmetry
INVARIANTS
  TypeOK
  NoJobLost
  ExecutedOnce
  FailedWasExecuted
PROPERTIES
  JobsAdvance
CHECK_DEADLOCK FALSE

SPECIFICATION Spec
CONSTANTS
  Setups <- Activities
  QTTL = 0
  QDONE = 0
  MaxRuns = 2

INVARIANTS
  ResultRestored
CHECK_DEADLOCK FALSE

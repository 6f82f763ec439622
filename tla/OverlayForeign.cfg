SPECIFICATION Spec
CONSTANTS
  Setups <- Activities
  QTTL = 0
  QDONE = 0
  MaxRuns = 2

INVARIANTS
  NoForeignClaim
CHECK_DEADLOCK FALSE

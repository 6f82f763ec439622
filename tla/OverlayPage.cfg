SPECIFICATION Spec
CONSTANTS
  Setups <- Activities
  QTTL = 0
  QDONE = 0
  MaxRuns = 2
INVARIANT NoDoubleClaim
PROPERTY NoSilentRevert
PROPERTY FailureSticks
PROPERTY SpinnersEnd
CHECK_DEADLOCK FALSE

SPECIFICATION FairSpec
CONSTANTS
  Publishers = {1, 2, 3, 4}
  Forks = {4}
  Earlier <- OneGroup
  Paths <- SharedPaths
  Files <- SharedFiles
  MaxAttempts = 2
  MayFail = TRUE
  Old = Old
  NoContent = NoContent
INVARIANT SuccessLanded
INVARIANT NoPartialReport
PROPERTY ImplementsOverlay
PROPERTY GroupOrderKept
CHECK_DEADLOCK FALSE

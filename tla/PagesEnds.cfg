SPECIFICATION FairSpec
CONSTANTS
  Publishers = {1, 2, 3, 4}
  Forks = {4}
  Earlier <- OneGroup
  Paths <- SharedPaths
  Files <- SharedFiles
  MaxAttempts = 2
  MayFail = TRUE
  Old = Old
  NoContent = NoContent
INVARIANT TypeOK
INVARIANT CloneFaithful
PROPERTY EveryRunEnds
CHECK_DEADLOCK FALSE

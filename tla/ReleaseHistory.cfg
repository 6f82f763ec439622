SPECIFICATION Spec
CONSTANTS
  Lanes = {"release", "promote"}
  Bumps = {"minor", "patch"}
  Forces = {TRUE}
  Unpromotes = {TRUE, FALSE}
  Budget <- OneEach
  MaxMajor = 1
  MaxMinor = 1
  MaxPatch = 3
  MaxTries = 2
  MayFail = TRUE
  NoVersion = NoVersion
  NoJob = NoJob
INVARIANT TypeOK
INVARIANT RefsPublished
INVARIANT RunsConsistent
INVARIANT PointersMarked
PROPERTY TagsImmutable
PROPERTY HistoryAppendOnly
CHECK_DEADLOCK FALSE

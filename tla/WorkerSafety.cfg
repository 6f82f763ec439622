SPECIFICATION FairSpec
CONSTANTS
  Jobs = {j1}
  Plain = {}
  Requests <- AllModes
  MaxRequests = 1
  Changes = {"none", "dependency", "tooling"}
  Policy = "drain"
  Monitored = TRUE
  HasDeps = TRUE
  IsSource = TRUE
  Seeded = FALSE
  BakeTime = {1}
  Appear = 1
  Overall = 3
  DrainLimit = 1
  MayFail = TRUE
  j1 = j1
INVARIANT NoStaleVerdict
INVARIANT FreshImage
INVARIANT CurrentWorker
PROPERTY LaneOrder
PROPERTY QuietStart
PROPERTY JobsEnd
PROPERTY RunsEnd
CHECK_DEADLOCK FALSE

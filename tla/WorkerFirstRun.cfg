SPECIFICATION Spec
CONSTANTS
  Jobs = {j1}
  Plain = {}
  Requests = {}
  MaxRequests = 1
  Changes = {"none"}
  Policy = "drain"
  Monitored = TRUE
  HasDeps = TRUE
  IsSource = FALSE
  Seeded = FALSE
  BakeTime = {16, 17, 18, 19, 20}
  Appear = 1
  Overall = 22
  DrainLimit = 5
  MayFail = FALSE
  j1 = j1
INVARIANT FirstRunOutlasts
CHECK_DEADLOCK FALSE

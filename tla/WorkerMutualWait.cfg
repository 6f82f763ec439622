SPECIFICATION Spec
CONSTANTS
  Jobs = {j1}
  Plain = {}
  Requests = {}
  MaxRequests = 1
  Changes = {"dependency"}
  Policy = "drain"
  Monitored = TRUE
  HasDeps = TRUE
  IsSource = FALSE
  Seeded = TRUE
  BakeTime = {2}
  Appear = 1
  Overall = 4
  DrainLimit = 2
  MayFail = FALSE
  j1 = j1
INVARIANT NoMutualWait
CHECK_DEADLOCK FALSE

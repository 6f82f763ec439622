SPECIFICATION Spec
CONSTANTS
  Jobs = {}
  Plain = {}
  Requests <- Rebuilds
  MaxRequests = 2
  Changes = {"none"}
  Policy = "drain"
  Monitored = TRUE
  HasDeps = TRUE
  IsSource = FALSE
  Seeded = TRUE
  BakeTime = {2}
  Appear = 1
  Overall = 4
  DrainLimit = 2
  MayFail = FALSE
PROPERTY SeedIsNoOp
CHECK_DEADLOCK FALSE

SPECIFICATION FairSpec
CONSTANTS
  Lanes = {"release", "promote"}
  Bumps = {"patch"}
  Forces = {FALSE}
  Unpromotes = {FALSE}
  Budget <- TwoAndOne
  MaxMajor = 1
  MaxMinor = 0
  MaxPatch = 4
  MaxTries = 2
  MayFail = FALSE
  NoVersion = NoVersion
  NoJob = NoJob
PROPERTY EveryRunEnds
CHECK_DEADLOCK FALSE

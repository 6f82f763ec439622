SPECIFICATION Spec
CONSTANTS
  Lanes = {"release", "promote"}
  Bumps = {"minor", "patch"}
  Forces = {FALSE}
  Unpromotes = {FALSE}
  Budget <- OneEach
  MaxMajor = 1
  MaxMinor = 1
  MaxPatch = 3
  MaxTries = 2
  MayFail = FALSE
  NoVersion = NoVersion
  NoJob = NoJob
INVARIANT RecordNotBehindTags
CHECK_DEADLOCK FALSE

SPECIFICATION Spec
CONSTANTS
  Lanes = {"release", "promote"}
  Bumps = {"patch"}
  Forces = {FALSE}
  Unpromotes = {FALSE}
  Budget <- OneAndTwo
  MaxMajor = 1
  MaxMinor = 0
  MaxPatch = 4
  MaxTries = 2
  MayFail = TRUE
  NoVersion = NoVersion
  NoJob = NoJob
PROPERTY MajorNeverBackwards
CHECK_DEADLOCK FALSE

SPECIFICATION Spec
CONSTANTS
  Lanes = {"release", "promote"}
  Bumps = {"minor", "patch"}
  Forces = {TRUE}
  Unpromotes = {TRUE, FALSE}
  Budget <- OneAndTwo
  MaxMajor = 1
  MaxMinor = 1
  MaxPatch = 3
  MaxTries = 2
  MayFail = TRUE
  NoVersion = NoVersion
  NoJob = NoJob
INVARIANT TagIntegrity
INVARIANT MarkOnNewestEntry
INVARIANT RefsBlessed
PROPERTY SoloRunConverges
PROPERTY SoloAliasesForward
PROPERTY ImplementsPromise
CHECK_DEADLOCK FALSE

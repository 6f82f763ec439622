SPECIFICATION Spec
CONSTANTS
  Code <- Workspace
  Failing <- Found
  Broken <- Unreadable
  Empty = {"hollow"}
  Committed = "strict"
  Settings <- ManySettings
  Files <- Compiled
  Lower <- SmallLetters
  NotVIs <- NotVI
  LogLines <- Written
  MaxLines = 4
  ExitCodes = {0, 1, 3}
  TestFiles <- TestWorkspace
  Stem <- Affixes
  Tools <- TwoTools
  Reports <- ManyReports
  Reporting = {"utf"}
  Manifests <- Packages
  Indexes <- PublishedIndexes
  Fold <- BigLetters
  Alias <- Aliases
INVARIANT GreenMeansRan
INVARIANT EveryCaseHeard
INVARIANT MissingRootFatal
CHECK_DEADLOCK FALSE

SPECIFICATION Spec
CONSTANTS
  MassCompileGate <- MassGate
  UnitTestGate <- UnitGate
  RunTargets <- Cap
  StaleAge = 1
  Scenarios <- OneRun
  Payloads <- Reports
  RecentWindow = 2
  ProjectTarget = 2
  ScanCap = 8
  PageSize = 2
  DeadAge = 2
  MaxClock = 1
INVARIANTS
  LiveRunShown

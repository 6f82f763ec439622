SPECIFICATION Spec
CONSTANTS
  Publishers = {p1, p2, p3, p4, p5, p6}
  Forks = {}
  Earlier <- NoGroup
  Paths = {"index"}
  Files <- OneFile
  MaxAttempts = 6
  MayFail = FALSE
  Old = Old
  NoContent = NoContent
SYMMETRY Symmetric
INVARIANT FewAllLand
CHECK_DEADLOCK FALSE

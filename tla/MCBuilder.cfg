\* Every list of two or three nodes, with up to two edges of each shape.
\* A build ends.
SPECIFICATION BuilderSpec
CONSTANTS
  s = s  m = m  d = d  ghost = ghost
  Absent = Absent
  Id <- MCId
  Type <- MCType
  Registered <- MCRegistered
  Graph <- MCGraph
  DomainVerdicts = {TRUE, FALSE}
CHECK_DEADLOCK FALSE
INVARIANTS
  BuilderTypeOK
  AcceptsExactly
  WiredBothWays
  FitsPipeline

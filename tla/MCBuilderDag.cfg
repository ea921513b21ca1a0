\* The same graphs: one with a cycle is built.
SPECIFICATION BuilderSpec
CONSTANTS
  s = s  m = m  d = d  ghost = ghost
  Absent = Absent
  Id <- MCId
  Type <- MCType
  Registered <- MCRegistered
  Graph <- MCGraph
  DomainVerdicts = {TRUE, FALSE}
CHECK_DEADLOCK FALSE
INVARIANTS
  AcceptedIsDAG

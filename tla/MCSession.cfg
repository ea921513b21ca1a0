\* Two builds by a host that makes any call in any state.
SPECIFICATION SessionSpec
CONSTANTS
  f = f  h = h
  Callback <- MCCallback
  NoCallback = NoCallback
  Limits = {0}
  Absent = Absent
  DefaultLimit = 8
  MaxBuild = 2
  MaxInFlight = 1
INVARIANTS
  SessionTypeOK
  RunningIsLive
  SinkHearsHost
  OnlyBuiltRuns
PROPERTIES
  FailedCallKeepsSession

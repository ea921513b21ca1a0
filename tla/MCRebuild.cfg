\* A Build of a Running pipeline leaves the replaced operators running.
SPECIFICATION SessionSpec
CONSTANTS
  f = f  h = h
  Callback <- MCCallback
  NoCallback = NoCallback
  Limits = {0}
  Absent = Absent
  DefaultLimit = 8
  MaxBuild = 2
  MaxInFlight = 1
INVARIANTS
  RebuildReplaces

\* Two frames through forks and joins while the host configures the operators twice.
\* A host that has made its calls rests.
SPECIFICATION ContentsSpec
CONSTANTS
  app_src = app_src  resize = resize  early = early  detector = detector
  crop = crop  motion = motion  tracker = tracker  rules = rules
  app_des = app_des
  Node <- MCNode
  Down <- MCDown
  Type <- MCType
  Rank <- MCRank
  Source = app_src
  Sink = app_des
  HostKey = {"host"}
  Strict = {1}
  Patches <- MCPatches
  MaxPush = 2
  MaxConfigs = 2
CHECK_DEADLOCK FALSE
INVARIANTS
  ContentsTypeOK
  DetectionsPerPath
  ResultsSurvive
  PatchInForce
  AlertsInForce
  PatchesAdvance

\* The reader thread starts before the operators downstream of it: MetaFlow loses the
\* frames of a one-image media without a stop.  The pipeline then rests.
SPECIFICATION FairSpec
CONSTANTS
  src = src  a = a  des = des
  Node <- PairNode
  Down <- PairDown
  Order <- PairOrder
  Source = src
  Sink = des
  Unknown = Unknown
  Spurious = FALSE
  Throws = {}
  PullDriven = TRUE
  FrameIndex <- Distinct
  Images = 1
  OpenResults = {"opened"}
  QueueLimits = {}
  DefaultLimit = 4
  Policies = {"DropNewest"}
  MaxPush = 2
  MaxStarts = 1
  MayStop = FALSE
CHECK_DEADLOCK FALSE
PROPERTIES
  EveryPushReachesSink

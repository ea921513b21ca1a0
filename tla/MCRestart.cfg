\* A second session after a StopPipeline: the message of Stop that the handle thread did
\* not pop ends the handle thread of the next session.
SPECIFICATION FairSpec
CONSTANTS
  src = src  a = a  des = des
  Node <- PairNode
  Down <- PairDown
  Order <- PairOrder
  Source = src
  Sink = des
  Unknown = Unknown
  Spurious = FALSE
  Throws = {}
  PullDriven = FALSE
  FrameIndex <- Distinct
  Images = 0
  OpenResults = {"opened"}
  QueueLimits = {}
  DefaultLimit = 4
  Policies = {"DropNewest"}
  MaxPush = 1
  MaxStarts = 2
  MayStop = TRUE
PROPERTIES
  EveryPushReachesSink

\* Two frames through the fan-in of the Skip graph, with room in every queue, under
\* fairness of every thread: both reach the callback, joined and in order, and no part
\* is left behind.  The pipeline then rests.
SPECIFICATION FairSpec
CONSTANTS
  src = src  a = a  des = des
  Node <- SkipNode
  Down <- SkipDown
  Order <- SkipOrder
  Source = src
  Sink = des
  Unknown = Unknown
  Spurious = FALSE
  Throws = {}
  PullDriven = FALSE
  FrameIndex <- Distinct
  Images = 0
  OpenResults = {"opened"}
  QueueLimits = {}
  DefaultLimit = 4
  Policies = {"DropNewest"}
  MaxPush = 2
  MaxStarts = 1
  MayStop = FALSE
CHECK_DEADLOCK FALSE
INVARIANTS
  FanInDrains
PROPERTIES
  EveryPushReachesSink
  ImplementsFrameStream

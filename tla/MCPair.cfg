\* Three frames over two sessions of src -> des: queue limits reconfigured and hit,
\* DropNewest at first and KeepLatest once configured, stops at every moment, spurious wakeups.
SPECIFICATION Spec
CONSTANTS
  src = src  a = a  des = des
  Node <- PairNode
  Down <- PairDown
  Order <- PairOrder
  Source = src
  Sink = des
  Unknown = Unknown
  Spurious = TRUE
  Throws = {}
  PullDriven = FALSE
  FrameIndex <- Distinct
  Images = 0
  OpenResults = {"opened"}
  QueueLimits = {0, 2}
  DefaultLimit = 2
  Policies = {"KeepLatest"}
  MaxPush = 3
  MaxStarts = 2
  MayStop = TRUE
INVARIANTS
  TypeOK
  Quiescent
  NoLostWakeup
  QueueBound
  HandlersAlive
PROPERTIES
  ImplementsFrameStream

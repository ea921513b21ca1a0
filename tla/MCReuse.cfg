\* The second frame may repeat the frame_index of the first, queues hold one frame each,
\* a may throw and the host may stop at every moment: the worst food for a fan-in keyed
\* by frame_index.
SPECIFICATION Spec
CONSTANTS
  src = src  a = a  des = des
  Node <- SkipNode
  Down <- SkipDown
  Order <- SkipOrder
  Source = src
  Sink = des
  Unknown = Unknown
  Spurious = FALSE
  Throws = {a}
  PullDriven = FALSE
  FrameIndex <- RepeatOrNot
  Images = 0
  OpenResults = {"opened"}
  QueueLimits = {}
  DefaultLimit = 1
  Policies = {"DropNewest"}
  MaxPush = 2
  MaxStarts = 1
  MayStop = TRUE
INVARIANTS
  DeliveredComplete
  SameIndexMerge

\* Two sessions of a pull-driven source whose media opens, with nothing but its end of
\* stream, or does not: the reader thread against StartPipeline and StopPipeline, under
\* fairness of every thread.
SPECIFICATION FairSpec
CONSTANTS
  src = src  a = a  des = des
  Node <- PairNode
  Down <- PairDown
  Order <- PairOrder
  Source = src
  Sink = des
  Unknown = Unknown
  Spurious = FALSE
  Throws = {}
  PullDriven = TRUE
  FrameIndex <- Distinct
  Images = 0
  OpenResults = {"opened", "failed", "threw"}
  QueueLimits = {}
  DefaultLimit = 2
  Policies = {"DropNewest"}
  MaxPush = 2
  MaxStarts = 2
  MayStop = TRUE
INVARIANTS
  Quiescent
  ReaderServed
PROPERTIES
  StopTerminates

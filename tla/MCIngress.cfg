\* Sessions of an image source and of a video source: every path list of up to two
\* entries, captures that open or not and dry up or not, exceptions in Start, fps changed
\* at run time.  A host that has made its calls rests.
SPECIFICATION IngressSpec
CONSTANTS
  clip = clip
  Image <- MCImage
  Matching <- MCMatching
  Readable <- MCReadable
  EntryLists <- MCEntryLists
  Loops = {TRUE, FALSE}
  VideoParams <- MCVideoParams
  Medium = {clip}
  NotGiven = NotGiven
  EmptyName = EmptyName
  Opens <- MCOpens
  FpsValues = {0, 25}
  MaxFrames = 4
  MaxStarts = 2
  MaxPatches = 1
CHECK_DEADLOCK FALSE
INVARIANTS
  IngressTypeOK
  InjectsStream
  ReaderInUse
  YieldsInOrder
  HonoursMaxFrames
PROPERTIES
  CollectsAll
  NextReturns
  StopReturns
  ImplementsMediaStream

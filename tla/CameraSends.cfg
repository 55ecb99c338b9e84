SPECIFICATION FairSpec
CONSTANTS
  Cameras = {1, 2}
  Segments = 2
  PerSegment = 2
  Id <- MCId
  Size <- MCSize
  Buffers = 3
  MaxPushes = 4
CHECK_DEADLOCK FALSE
INVARIANTS ReadersReleased SentRight
PROPERTIES ServerReplacedIdle WaitsEnd DestroyEnds

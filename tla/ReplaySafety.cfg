SPECIFICATION Spec
CONSTANTS
  Segs = {0, 1, 2, 3}
  SegLen = 2
  Events <- MCEvents
  Which <- MCWhich
  CacheLimit = 3
  MayFail = {3}
  SeekTargets = {6}
  SeekDeltas <- MCDeltas
  StartTargets = {0}
  NoLoop = FALSE
  CanPause = TRUE
  CanStop = TRUE
  MaxUserOps = 2
  MaxPosts = 4
CHECK_DEADLOCK FALSE
INVARIANTS MergedAlive InOrder CacheBounded PausedIsQuiet

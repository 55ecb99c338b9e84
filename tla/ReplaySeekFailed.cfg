SPECIFICATION Spec
CONSTANTS
  Segs = {0, 1, 2, 3}
  SegLen = 2
  Events <- MCEvents
  Which <- MCSame
  CacheLimit = 3
  MayFail = {1}
  SeekTargets = {3}
  SeekDeltas = {}
  StartTargets = {0}
  NoLoop = FALSE
  CanPause = FALSE
  CanStop = FALSE
  MaxUserOps = 1
  MaxPosts = 4
CHECK_DEADLOCK FALSE
INVARIANT WokenIfInvalid

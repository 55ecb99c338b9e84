SPECIFICATION FairSpec
CONSTANTS
  Segs = {0, 1}
  SegLen = 2
  Events <- MCShort
  Which <- MCSame
  CacheLimit = 3
  MayFail = {}
  SeekTargets = {}
  SeekDeltas = {}
  StartTargets = {0}
  NoLoop = TRUE
  CanPause = FALSE
  CanStop = TRUE
  MaxUserOps = 1
  MaxPosts = 4
CHECK_DEADLOCK FALSE
INVARIANT NoLostWakeup

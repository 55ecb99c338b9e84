SPECIFICATION FairSpec
CONSTANTS
  Segs = {0, 1, 2, 3}
  SegLen = 2
  Events <- MCEvents
  Which <- MCSame
  CacheLimit = 3
  MayFail = {1, 3}
  SeekTargets = {3}
  SeekDeltas = {}
  StartTargets = {0}
  NoLoop = FALSE
  CanPause = TRUE
  CanStop = FALSE
  MaxUserOps = 2
  MaxPosts = 4
CHECK_DEADLOCK FALSE
INVARIANTS CacheSettles NotStalled
PROPERTIES SeekCompletes PlaysToTheEnd

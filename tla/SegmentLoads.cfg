SPECIFICATION FairSpec
CONSTANTS
  NumFiles = 4
  Videos = {1, 2}
  Remote = {2, 3, 4}
  Cached = {2}
  Good = {1, 2, 3, 4}
  Flaky = {3, 4}
  NoFileCache = FALSE
  MaxRetries = 2
  CanDestroy = TRUE
CHECK_DEADLOCK FALSE
INVARIANT LoadedIsComplete
PROPERTIES LoadedIsStable DestroyIsFinal LoadEnds KeepsPromise

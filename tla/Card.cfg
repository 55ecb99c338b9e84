CONSTANTS
  OverrideFrames = 2
  AliveFrames = 2
  InitFrames = 2
  MaxAge = 6
  Configs <- MCConfigs
  CarStates <- MCCarStates
SPECIFICATION Spec
INVARIANT InitOncePerStart
INVARIANT FreshCommand
INVARIANT OverrideSoftens

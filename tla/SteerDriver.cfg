SPECIFICATION Spec
CONSTANTS
  SteerMax = 8
  DeltaUp = 2
  DeltaDown = 3
  Limited = "driver"
  Allowance = 1
  Multiplier = 2
  Factor = 1
  ErrorMax = 0
  MaxAbove = 3
  MaxMismatch = 2
  Commands <- MCCommands
  Measured <- MCMeasured
  MaxCount = 4
INVARIANTS SoftStart DriverWins FaultAvoided

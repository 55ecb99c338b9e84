CONSTANTS
  OverrideFrames = 2
  Slow = 4
  Brands = {"honda"}
  Controls <- MCControls
SPECIFICATION Spec
PROPERTY CancelOnFallingEdge

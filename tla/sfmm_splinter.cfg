SPECIFICATION Spec
CONSTANTS
  PageUnits = 256
  MaxPages = 1
  Sizes = {16, 32}
  Data <- MCData
  MaxHeld = 3
CHECK_DEADLOCK FALSE
INVARIANT
  ContentsKept

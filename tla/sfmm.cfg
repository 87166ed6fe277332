SPECIFICATION Spec
CONSTANTS
  PageUnits = 16
  MaxPages = 2
  Sizes = {56, 64, 144}
  Data <- MCData
  MaxHeld = 4
CHECK_DEADLOCK FALSE
INVARIANTS
  TypeOK
  NothingIsLeftOver
  HeapIsTiled
  NeighboursAgree
  
  ContentsKept
  FreeTellsThemApart

  
VIEW MCView

SPECIFICATION FairSpec
CONSTANTS
  GameTicks = 2
  HalfTicks = 1
  Special = 1
  Pin = "clean"
  Voltages <- Boundary
PROPERTY GameCycle
CHECK_DEADLOCK TRUE

SPECIFICATION Spec
CONSTANTS
  GameTicks = 2
  HalfTicks = 1
  Special = 1
  Pin = "bounces"
  Voltages <- Boundary
INVARIANTS TypeOK ShowsReading
PROPERTIES PressOnce ImplementsService
CHECK_DEADLOCK TRUE

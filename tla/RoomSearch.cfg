SPECIFICATION Spec
CONSTANTS
  NRooms = 5
  KeyRoom = 2
  SciRoom = 3
  ChamberRoom = 4
  Inputs <- MCInputs
  INT_MAX = 99
INVARIANTS
  TypeOK
  TreeInv
  RouteLegal
  PromiseKept
  ShortestOnPlain

SPECIFICATION Spec
CONSTANTS
  NumPeople = 2
  NumFloors = 3
  WeightCapacity = 2
  PersonCapacity = 2
  Trips <- FatInput
  MaxPrio = 3
  Outlasts = {}
  PromptMain = FALSE
  OrderedStart = FALSE
  Spurious = TRUE
INVARIANTS TypeOK LoadInv QueueSorted
CHECK_DEADLOCK FALSE

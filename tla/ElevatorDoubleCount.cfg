SPECIFICATION FairSpec
CONSTANTS
  NumPeople = 2
  NumFloors = 3
  WeightCapacity = 2
  PersonCapacity = 2
  Trips <- LightInput
  MaxPrio = 20
  Outlasts = {"idle", "travel", "in_out"}
  PromptMain = TRUE
  OrderedStart = TRUE
  Spurious = FALSE
PROPERTY AllServed
CHECK_DEADLOCK FALSE

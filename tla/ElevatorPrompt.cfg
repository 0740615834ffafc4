SPECIFICATION FairSpec
CONSTANTS
  NumPeople = 3
  NumFloors = 3
  WeightCapacity = 3
  PersonCapacity = 2
  Trips <- ServedInput
  MaxPrio = 20
  Outlasts = {"idle", "travel", "in_out"}
  PromptMain = TRUE
  OrderedStart = TRUE
  Spurious = FALSE
INVARIANTS WeightInv NoLostWakeup RidersAhead NeverSpins
PROPERTIES HpFirst ImplementsService AllServed
CHECK_DEADLOCK TRUE

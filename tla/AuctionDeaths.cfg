SPECIFICATION Spec
CONSTANTS
  NumBidders = 2
  StartingBid = 1
  MinimumIncrement = 2
  Delay <- OwnDelay
  Bids = {0, 2, 3, 5}
  Statuses = {0}
  Deaths <- Killed
INVARIANTS TypeOK CountInv NoZombies
PROPERTY ImplementsService
CHECK_DEADLOCK FALSE

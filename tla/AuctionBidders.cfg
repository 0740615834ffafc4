SPECIFICATION FairSpec
CONSTANTS
  NumBidders = 3
  StartingBid = 1
  MinimumIncrement = 2
  Delay <- OwnDelay
  Bids = {2, 3, 5}
  Statuses = {0}
  Deaths = {}
INVARIANTS OneAnswer LeaderInv TimeoutInv
PROPERTIES Answered AuctionEnds
CHECK_DEADLOCK TRUE

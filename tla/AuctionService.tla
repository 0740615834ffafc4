--------------------------- MODULE AuctionService ---------------------------
(***************************************************************************)
(* The auction CENG334/HW1 promises (HW1.pdf, pages 1-7), with no sockets  *)
(* and no processes: bidders raise the price or drop out, and once nobody  *)
(* is left bidding everybody may be told the leader and the price.         *)
(***************************************************************************)
EXTENDS Integers

CONSTANTS
  Bidder,
  NoBidder,          \* any value that is no bidder
  StartingBid,
  MinimumIncrement

VARIABLES
  price,             \* the highest accepted bid, or the starting bid
  leader,            \* who placed it; without an accepted bid it is not determined
  active,            \* the bidders who have not dropped out
  told               \* per bidder: <<>>, or the <<leader, price>> it was told

vars == <<price, leader, active, told>>

Init ==
  /\ price = StartingBid
  /\ leader \in Bidder \cup {NoBidder}
  /\ active = Bidder
  /\ told = [b \in Bidder |-> <<>>]

Offer(b) ==
  /\ b \in active
  /\ price' \in Int /\ price' > price /\ price' - price >= MinimumIncrement
  /\ leader' = b
  /\ UNCHANGED <<active, told>>

DropOut(b) ==
  /\ active' = active \ {b}
  /\ UNCHANGED <<price, leader, told>>

Tell(b) ==
  /\ active = {}
  /\ told' = [told EXCEPT ![b] = <<leader, price>>]
  /\ UNCHANGED <<price, leader, active>>

Next == \E b \in Bidder : Offer(b) \/ DropOut(b) \/ Tell(b)

Spec == Init /\ [][Next]_vars
=============================================================================

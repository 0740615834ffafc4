----------------------------- MODULE MCAuction -----------------------------
(* Small instances of Auction for TLC.                                     *)
EXTENDS Auction

\* Each bidder has another delay.
OwnDelay == [i \in Bidder |-> NumBidders - i]

\* SIGKILL, and the exit of a child whose execv fails.
Killed == {9, 0}
=============================================================================

---------------------------- MODULE FileService ----------------------------
(***************************************************************************)
(* What `cat file offset` does: it goes through the bytes of the file from *)
(* the offset on, piece by piece, and prints of each piece what is before  *)
(* its first zero byte; it stops when there are no more.                   *)
(***************************************************************************)
EXTENDS Integers, Sequences

CONSTANT MaxPiece  \* the largest piece
VARIABLES
  length,  \* bytes in the file
  zeros,   \* the positions of its zero bytes
  at,      \* the position of the next byte
  out,     \* the positions of the bytes printed so far
  closed

vars == <<length, zeros, at, out, closed>>

Init ==
  /\ length \in Nat /\ zeros \in SUBSET Nat /\ at \in Nat
  /\ out = << >>
  /\ closed = FALSE

\* The largest piece, or what is left.
Piece == IF at + MaxPiece >= length THEN length - at ELSE MaxPiece

Print_piece ==
  /\ ~closed
  /\ at < length
  /\ \E n \in 0..Piece :
       /\ \A i \in at..(at + n - 1) : i \notin zeros
       /\ n < Piece => at + n \in zeros
       /\ out' = out \o [i \in 1..n |-> at + i - 1]
  /\ at' = at + Piece
  /\ UNCHANGED <<length, zeros, closed>>

Close ==
  /\ ~closed
  /\ at >= length
  /\ closed' = TRUE
  /\ UNCHANGED <<length, zeros, at, out>>

Next == Print_piece \/ Close

Spec == Init /\ [][Next]_vars
=============================================================================

---------------------------- MODULE MCGuessGame ----------------------------
(* Small instances of GuessGame for TLC.                                   *)
EXTENDS GuessGame

\* The highest reading of the digit 0 and the lowest of the digit 1.
Boundary == {102, 103}
=============================================================================

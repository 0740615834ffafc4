---------------------------- MODULE GuessService ----------------------------
(***************************************************************************)
(* The guessing game CENG336/HW3 promises (hw3.pdf, Specifications),       *)
(* without timers, interrupts and bouncing buttons.  The player turns a    *)
(* knob and presses a button.  A press is answered soon: while he guesses  *)
(* with a hint or the end of the game, while the number is shown not at    *)
(* all.  The number is shown for four half seconds, then the next game     *)
(* begins.                                                                 *)
(***************************************************************************)
EXTENDS Naturals

CONSTANTS
  Special,           \* the number to guess
  Halves             \* half seconds a game lasts

VARIABLES
  phase,             \* "guessing" or "showing"
  left,              \* half seconds left in the phase
  hint,              \* "off", "up" or "down"
  reading,           \* the digit the knob stands at, as it was last read
  press              \* "none", "waiting", or "due" for its answer

vars == <<phase, left, hint, reading, press>>

Init ==
  /\ phase = "guessing" /\ left = Halves /\ hint = "off"
  /\ reading = 0 /\ press = "none"

Turn ==
  /\ reading' \in 0 .. 9
  /\ UNCHANGED <<phase, left, hint, press>>

Press ==
  /\ press = "none" /\ press' \in {"waiting", "due"}
  /\ UNCHANGED <<phase, left, hint, reading>>

Becomes_due ==
  /\ press = "waiting" /\ press' = "due"
  /\ UNCHANGED <<phase, left, hint, reading>>

Show == phase' = "showing" /\ left' = 4 /\ hint' = "off"

Guess ==
  \/ reading = Special /\ Show
  \/ reading < Special /\ hint' = "up" /\ UNCHANGED <<phase, left>>
  \/ reading > Special /\ hint' = "down" /\ UNCHANGED <<phase, left>>

\* A press that is due is answered before anything else.
Answer ==
  /\ press = "due" /\ press' = "none"
  /\ \/ phase = "guessing" /\ Guess
     \/ phase = "showing" /\ UNCHANGED <<phase, left, hint>>
  /\ UNCHANGED reading

\* No press is left behind for a whole half second.
HalfSecond ==
  /\ press # "due" /\ press' = IF press = "waiting" THEN "due" ELSE press
  /\ \/ left > 1 /\ left' = left - 1 /\ UNCHANGED <<phase, hint>>
     \/ left = 1 /\ phase = "guessing" /\ Show
     \/ left = 1 /\ phase = "showing" /\ phase' = "guessing" /\ left' = Halves /\ hint' = "off"
  /\ UNCHANGED reading

Next == Turn \/ Press \/ Becomes_due \/ Answer \/ HalfSecond

Spec == Init /\ [][Next]_vars
=============================================================================

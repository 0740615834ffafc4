------------------------------ MODULE BallGame ------------------------------
(***************************************************************************)
(* src/CENG336/HW2/the2.asm, as the simulator that its authors used runs   *)
(* it: the main loop of each level, the interrupt of timer 0 between any   *)
(* two of its steps, and the return stack of the PIC18.                    *)
(*                                                                         *)
(* The ports A to D are the columns 0 to 3; lat[c] is the set of the bits  *)
(* that are 1 in the latch of column c.  The labels level_1, level_2 and   *)
(* level_3 have the same loop; the one that runs is told by level.         *)
(***************************************************************************)
EXTENDS Integers, Sequences, FiniteSets

CONSTANTS
  Balls,        \* ball_count at the start: 30
  LastBall,     \* last_ball at the start: 36
  Level2Below,  \* level 2 begins when ball_count is below: 26
  Level3Below,  \* level 3 begins when ball_count is below: 16
  Health,       \* health_point at the start: 5
  StackLevels,  \* the push that fills the return stack and resets the chip: 31
  Seeds         \* values <<TMR1H, TMR1L>> that timer 1 may have when RG0 is let go

ASSUME ConstantsAssumption ==
  /\ {Balls, Level2Below, Level3Below, Health} \subseteq 1..255
  /\ LastBall = Balls + 6 /\ LastBall <= 255
  /\ Level3Below < Level2Below /\ Level2Below < Balls
  \* A lost game costs four levels, of which a multiple must not fill the stack.
  /\ StackLevels \in Nat /\ StackLevels >= 8 /\ StackLevels % 4 # 0
  /\ Seeds \subseteq (0..255) \X (0..255)

Columns == 0..3

VARIABLES
  pc,
  stack,                  \* return addresses on the stack while a loop runs
  timer0_overflowed_flag,
  tmr1,                   \* <<TMR1H, TMR1L>>
  lat,                    \* LATA to LATD
  bar_left, level, health_point, ball_count, last_ball

counters == <<level, health_point, ball_count, last_ball>>
vars == <<pc, stack, timer0_overflowed_flag, tmr1, lat, bar_left, counters>>

\* The columns of the bar.
Under(b) == {b, b + 1}

\* Only the bar, at its left end.
BarOnly == [c \in Columns |-> IF c \in Under(0) THEN {5} ELSE {}]

\* main: init and init_variables.  RAM has what it had before.
Init ==
  /\ pc = "check_RG0" /\ stack = 1
  /\ timer0_overflowed_flag \in BOOLEAN
  /\ tmr1 = <<0, 0>>
  /\ lat = BarOnly /\ bar_left = 0
  /\ level = 1 /\ health_point = Health
  /\ ball_count = Balls /\ last_ball = LastBall

Playing == pc \notin {"check_RG0", "check_RG0_release"}

\* The interrupt that brings timer0_val to 0: lines 462-473.  It is enabled while a game
\* is played, with a button held too.
isr_timeinterval ==
  /\ Playing
  /\ timer0_overflowed_flag' = TRUE
  /\ UNCHANGED <<pc, stack, tmr1, lat, bar_left, counters>>

\* Bytes rotated by n to the right and to the left: RRNCF and RLNCF.
RRNCF(byte, n) == byte \div 2^n + (byte % 2^n) * 2^(8 - n)
RLNCF(byte, n) == RRNCF(byte, 8 - n)

\* The two masks of lines 356-418: both bytes keep their bits below m and change the
\* others with each other.
Exchange(h, l, m) == << (h % m) + (l - (l % m)), (l % m) + (h - (h % m)) >>

\* Mutants: at level 3 the mask of level 2 is used; what is left in bit 6 is not cleared;
\* last_ball is counted with ball_count only.
Mutant_timer1_shifter(t, lvl) ==
  CASE lvl = 1 -> Exchange(RRNCF(t[1], 1), RRNCF(t[2], 1), 128)
    [] lvl = 2 -> Exchange(RRNCF(t[1], 3), RRNCF(t[2], 3), 32)
    [] OTHER   -> Exchange(RLNCF(t[1], 3), RLNCF(t[2], 3), 32)

timer1_shifter(t, lvl) ==
  CASE lvl = 1 -> Exchange(RRNCF(t[1], 1), RRNCF(t[2], 1), 128)
    [] lvl = 2 -> Exchange(RRNCF(t[1], 3), RRNCF(t[2], 3), 32)
    [] OTHER   -> Exchange(RLNCF(t[1], 3), RLNCF(t[2], 3), 8)

\* Lines 237-242.
mod_value(t) == IF t[2] % 8 < 4 THEN t[2] % 8 ELSE (t[2] % 8) - 4

\* The four latches rotated: lines 243-246.
Rotated(latches) == [c \in Columns |-> {(b + 1) % 8 : b \in latches[c]}]

Missed(rotated, bar) == {c \in Columns \ Under(bar) : 6 \in rotated[c]}

Mutant_check_barleft(rotated, bar) ==
  [c \in Columns |-> IF c \in Under(bar) THEN rotated[c] \cup {5} ELSE rotated[c] \ {6}]

\* The bar has moved down and is drawn again, what the bar has caught is merged with it;
\* what is not caught is cleared.
check_barleft(rotated, bar) ==
  [c \in Columns |-> (rotated[c] \ {6}) \cup IF c \in Under(bar) THEN {5} ELSE {}]

\* Lines 248-249 and 325-345.
create_random_ball(latches, count, t) ==
  [c \in Columns |-> latches[c] \cup IF count # 0 /\ c = mod_value(t) THEN {0} ELSE {}]

Mutant_DecLastBall(last, count) == IF count = 0 THEN last ELSE (last - 1) % 256

\* Line 236.
DecLastBall(last, count) == (last - 1) % 256

\* balls_create_down when no ball is missed, for the state given.
balls_create_down(latches, bar, t, count, last, lvl) ==
  /\ lat' = create_random_ball(check_barleft(Rotated(latches), bar), count, t)
  /\ ball_count' = IF count = 0 THEN 0 ELSE count - 1
  /\ tmr1' = IF count > 1 THEN timer1_shifter(t, lvl) ELSE t
  /\ last_ball' = DecLastBall(last, count)

check_RG0 ==
  /\ pc = "check_RG0"
  /\ pc' = "check_RG0_release"
  /\ UNCHANGED <<stack, timer0_overflowed_flag, tmr1, lat, bar_left, counters>>

\* RG0 is let go: lines 143-150.  init_variables sets the ports A and B only.
check_RG0_release ==
  /\ pc = "check_RG0_release"
  /\ bar_left' = 0 /\ health_point' = Health /\ level' = 1
  /\ \E seed \in Seeds :
       balls_create_down([lat EXCEPT ![0] = {5}, ![1] = {5}], 0, seed, Balls, LastBall, 1)
  /\ pc' = "check_overflow"
  /\ UNCHANGED <<stack, timer0_overflowed_flag>>

\* zero_health: the ports, timer 1; the counters keep their values until the next start.
zero_health ==
  /\ lat' = BarOnly /\ tmr1' = <<0, 0>>
  /\ pc' = "check_RG0"

NoOverflow ==
  /\ pc = "check_overflow" /\ ~timer0_overflowed_flag
  /\ pc' = "check_RG2"
  /\ UNCHANGED <<stack, timer0_overflowed_flag, tmr1, lat, bar_left, counters>>

misses == Cardinality(Missed(Rotated(lat), bar_left))

\* The level the stack has in TABLE_7SEGMENT, when decrease_health displays.  An
\* interrupt there takes one more, but the stack of a lost game is four levels lower.
Deepest == stack + 6

\* The rows fall and the game goes on: lines 229-233.
check_overflow ==
  /\ pc = "check_overflow" /\ timer0_overflowed_flag
  /\ misses > 0 => Deepest < StackLevels /\ health_point > misses
  /\ health_point' = health_point - misses
  /\ balls_create_down(lat, bar_left, tmr1, ball_count, last_ball, level)
  /\ timer0_overflowed_flag' = FALSE
  /\ pc' = "check_RG2"
  /\ UNCHANGED <<stack, bar_left, level>>

\* The last health point is lost: line 263 jumps out of check_overflow, balls_create_down,
\* check_barleft and decrease_health, whose return addresses stay on the stack, and the
\* flag is not cleared.
decrease_health ==
  /\ pc = "check_overflow" /\ timer0_overflowed_flag
  /\ misses > 0 /\ Deepest < StackLevels /\ health_point <= misses
  /\ health_point' = 0
  /\ last_ball' = DecLastBall(last_ball, ball_count)
  /\ zero_health
  /\ stack' = stack + 4
  /\ UNCHANGED <<timer0_overflowed_flag, bar_left, level, ball_count>>

\* The stack is full: the chip starts again at address 0.
StackReset ==
  /\ pc = "check_overflow" /\ timer0_overflowed_flag
  /\ misses > 0 /\ Deepest >= StackLevels
  /\ pc' = "check_RG0" /\ stack' = 1
  /\ tmr1' = <<0, 0>>
  /\ lat' = BarOnly /\ bar_left' = 0
  /\ level' = 1 /\ health_point' = Health
  /\ ball_count' = Balls /\ last_ball' = LastBall
  /\ UNCHANGED timer0_overflowed_flag

\* A button, pressed or not.
Check(here, held, next) ==
  /\ pc = here
  /\ pc' \in {held, next}
  /\ UNCHANGED <<stack, timer0_overflowed_flag, tmr1, lat, bar_left, counters>>

check_RG2 == Check("check_RG2", "check_RG2_release", "check_RG3")
check_RG3 == Check("check_RG3", "check_RG3_release", "test")

\* The button is let go and the bar moves: one end is set, the other cleared, with the
\* ball that may be there.
MoveBar(from, to, set, clear) ==
  /\ bar_left = from /\ bar_left' = to
  /\ lat' = [lat EXCEPT ![set] = @ \cup {5}, ![clear] = @ \ {5}]

check_RG2_release ==
  /\ pc = "check_RG2_release"
  /\ \/ MoveBar(0, 1, 2, 0)
     \/ MoveBar(1, 2, 3, 1)
     \/ bar_left = 2 /\ UNCHANGED <<bar_left, lat>>
  /\ pc' = "check_RG3"
  /\ UNCHANGED <<stack, timer0_overflowed_flag, tmr1, counters>>

check_RG3_release ==
  /\ pc = "check_RG3_release"
  /\ \/ MoveBar(2, 1, 1, 3)
     \/ MoveBar(1, 0, 0, 2)
     \/ bar_left = 0 /\ UNCHANGED <<bar_left, lat>>
  /\ pc' = "test"
  /\ UNCHANGED <<stack, timer0_overflowed_flag, tmr1, counters>>

\* The end of the loop: lines 156-163, 424-431, 437-445.
NextLevel ==
  /\ pc = "test"
  /\ (level = 1 /\ ball_count < Level2Below) \/ (level = 2 /\ ball_count < Level3Below)
  /\ level' = level + 1
  /\ pc' = "check_overflow"
  /\ UNCHANGED <<stack, timer0_overflowed_flag, tmr1, lat, bar_left, health_point,
                 ball_count, last_ball>>

check_last_ball ==
  /\ pc = "test" /\ level = 3 /\ ball_count = 0 /\ last_ball = 0
  /\ zero_health
  /\ UNCHANGED <<stack, timer0_overflowed_flag, bar_left, counters>>

SameLevel ==
  /\ pc = "test"
  /\ \/ level = 1 /\ ball_count >= Level2Below
     \/ level = 2 /\ ball_count >= Level3Below
     \/ level = 3 /\ (ball_count # 0 \/ last_ball # 0)
  /\ pc' = "check_overflow"
  /\ UNCHANGED <<stack, timer0_overflowed_flag, tmr1, lat, bar_left, counters>>

Release == check_RG2_release \/ check_RG3_release

MainLoop ==
  \/ NoOverflow \/ check_overflow \/ decrease_health \/ StackReset
  \/ check_RG2 \/ check_RG3 \/ NextLevel \/ check_last_ball \/ SameLevel

Next == isr_timeinterval \/ check_RG0 \/ check_RG0_release \/ Release \/ MainLoop

Spec == Init /\ [][Next]_vars

\* The processor and timer 0 run, and no button is held for ever.
FairSpec == Spec /\ WF_vars(MainLoop) /\ WF_vars(isr_timeinterval) /\ WF_vars(Release)
-----------------------------------------------------------------------------
(***************************************************************************)
(* Properties                                                              *)
(***************************************************************************)
\* Types, with the bounds that the displays, the latches and the stack have: bits above
\* the bar are never left behind, the counters never pass 0, and an interrupt finds the
\* stack with room.
TypeOK ==
  /\ pc \in {"check_RG0", "check_RG0_release", "check_overflow", "check_RG2",
             "check_RG2_release", "check_RG3", "check_RG3_release", "test"}
  /\ stack + 3 < StackLevels
  /\ timer0_overflowed_flag \in BOOLEAN
  /\ tmr1 \in (0..255) \X (0..255)
  /\ lat \in [Columns -> SUBSET (0..5)]
  /\ bar_left \in 0..2 /\ level \in 1..3
  /\ health_point \in 0..Health
  /\ ball_count \in 0..Balls /\ last_ball \in 0..LastBall

\* The bytes, latches and jumps of the program play the game of BallService: each ball
\* comes in the column that the rotated timer value gives (lines 347-418), is caught
\* whether it lands on the bar or the bar is moved under it, and costs one health point
\* otherwise; levels follow each other after the right number of falls, with balls still
\* in the air; and the return addresses that lost games leave on the stack (line 263)
\* show in nothing but the restart that BallService admits.
Uncaught == {c \in Columns \ Under(bar_left) : 5 \in lat[c]}

Service == INSTANCE BallService WITH
  Bound <- <<Balls - Level2Below + 1, Balls - Level3Below + 1, LastBall>>,
  MaxLost <- (StackLevels - 4) \div 4,
  Seeds <- {256 * s[1] + s[2] : s \in Seeds},
  game <- IF ~Playing THEN <<>>
          ELSE [level |-> level, health |-> health_point, bar |-> bar_left,
                fallen |-> LastBall - last_ball,
                seed |-> 256 * tmr1[1] + tmr1[2],
                rows |-> [r \in 1..5 |-> {c \in Columns : r - 1 \in lat[c]}],
                bottom |-> Uncaught],
  lost <- (stack - 1) \div 4
ImplementsService == Service!Spec

\* A game that has begun comes to its end, whatever the player does with the buttons
\* short of holding them for ever (lines 433-445).
GamesEnd == Playing ~> ~Playing
=============================================================================

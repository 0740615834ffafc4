---------------------------- MODULE BallService ----------------------------
(***************************************************************************)
(* The ball game as its player sees it: a ball for each fall of the rows,  *)
(* in the column that a rotating number gives, a bar of two columns that   *)
(* catches what has come down, three levels, and one health point for each *)
(* ball missed.  The one thing that no player expects: the ball missed     *)
(* after the last of MaxLost lost games restarts the device.               *)
(***************************************************************************)
EXTENDS Integers, Sequences, FiniteSets

CONSTANTS
  Balls,    \* balls in a game
  Bound,    \* Bound[l]: the falls after which level l is over
  Health,   \* health points at the start
  MaxLost,  \* the lost games that the device endures
  Seeds     \* the numbers that a game may begin with

VARIABLES game, lost

vars == <<game, lost>>

Off == <<>>
On == game # Off

\* The columns of the bar, whose left one is b.
Under(b) == {b, b + 1}

RotateRight(v, n) == v \div 2^n + (v % 2^n) * 2^(16 - n)

\* Fall n: the ball that comes with it and the number that gives the next one.
Ball(n, seed) == IF n <= Balls THEN {(seed % 8) % 4} ELSE {}
Turn(n, seed, level) == IF n < Balls THEN RotateRight(seed, 2 * level - 1) ELSE seed

Init == game = Off /\ lost = 0

\* The first row falls at once.  rows[r] is what is in row r - 1, bottom what is in the
\* last row and not caught.
Start ==
  /\ ~On
  /\ \E seed \in Seeds :
       game' = [level |-> 1, health |-> Health, bar |-> 0, fallen |-> 1,
                seed |-> Turn(1, seed, 1),
                rows |-> <<Ball(1, seed), {}, {}, {}, {}>>, bottom |-> {}]
  /\ UNCHANGED lost

Fall ==
  /\ On /\ game.fallen < Bound[game.level]
  /\ game.health > Cardinality(game.bottom)
  /\ game.bottom # {} => lost < MaxLost
  /\ game' = [game EXCEPT
       !.fallen = @ + 1,
       !.health = @ - Cardinality(game.bottom),
       !.rows = <<Ball(game.fallen + 1, game.seed)>> \o SubSeq(@, 1, 4),
       !.bottom = game.rows[5] \ Under(game.bar),
       !.seed = Turn(game.fallen + 1, @, game.level)]
  /\ UNCHANGED lost

Move ==
  /\ On
  /\ \E b \in {game.bar - 1, game.bar + 1} \cap (0..2) :
       game' = [game EXCEPT !.bar = b, !.bottom = @ \ Under(b)]
  /\ UNCHANGED lost

LevelUp ==
  /\ On /\ game.level < 3 /\ game.fallen = Bound[game.level]
  /\ game' = [game EXCEPT !.level = @ + 1]
  /\ UNCHANGED lost

Lose ==
  /\ On /\ game.fallen < Bound[game.level]
  /\ game.bottom # {} /\ game.health = 1 /\ lost < MaxLost
  /\ game' = Off /\ lost' = lost + 1

Win ==
  /\ On /\ game.level = 3 /\ game.fallen = Bound[3]
  /\ game' = Off /\ UNCHANGED lost

Restart ==
  /\ On /\ game.bottom # {} /\ lost = MaxLost
  /\ game' = Off /\ lost' = 0

Next == Start \/ Fall \/ Move \/ LevelUp \/ Lose \/ Win \/ Restart

Spec == Init /\ [][Next]_vars
=============================================================================

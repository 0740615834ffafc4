---------------------------- MODULE MCRoomSearch ----------------------------
(* Five rooms: the four that matter and one on the way. *)
EXTENDS RoomSearch

\* The corridors that a map may have, with what they cost; each may be missing but
\* the first three.
Corridors == << <<1, 5, 1>>, <<2, 5, 1>>, <<3, 4, 2>>, <<1, 2, 1>>, <<2, 3, 3>>,
                <<3, 5, 1>>, <<4, 5, 2>>, <<1, 3, 1>>, <<2, 4, 2>> >>

Maps ==
  {[e \in (1..5) \X (1..5) |->
      LET c == {n \in present : {Corridors[n][1], Corridors[n][2]} = {e[1], e[2]}}
      IN IF c = {} THEN 0 ELSE Corridors[CHOOSE n \in c : TRUE][3]]
    : present \in {{1, 2, 3} \cup S : S \in SUBSET (4..9)}}

AtMostOne(S) == {T \in SUBSET S : Cardinality(T) <= 1}

\* The ammunition is nowhere, moderate, or more than a corridor costs.
Depots == {[v \in 1..5 |-> 0],
           [v \in 1..5 |-> IF v \in {1, 5} THEN 1 ELSE 0],
           [v \in 1..5 |-> IF v = 5 THEN 2 ELSE 0]}

MCInputs == [adj : Maps, oddPer : AtMostOne(2..5), evenPer : AtMostOne(1..5), ammo : Depots]
=============================================================================

----------------------------- MODULE RoomSearch -----------------------------
(***************************************************************************)
(* src/CENG315/the3.cpp: a route from room 1 to the room of the key, to    *)
(* the room of the scientist and to the chamber, each leg found by a       *)
(* search in the manner of Dijkstra.  A time step is spent in every room;  *)
(* some rooms are locked in the odd periods and some in the even ones.  A  *)
(* corridor costs ammunition, a room may hold some.                        *)
(*                                                                         *)
(* Rooms are numbered from 1 as in the input; the program's arrays count   *)
(* them from 0.                                                            *)
(***************************************************************************)
EXTENDS Integers, FiniteSets, Sequences

CONSTANTS
  NRooms,       \* nRooms
  KeyRoom,      \* keyRoom
  SciRoom,      \* sciRoom
  ChamberRoom,  \* chamberRoom
  Inputs,       \* the input files considered, see InputType
  INT_MAX

Rooms == 1..NRooms

\* What one input file says: the cost of each corridor, 0 for none (line 94), the
\* rooms locked in odd and in even periods, and the ammunition in each room.
InputType == [adj : [Rooms \X Rooms -> Nat], oddPer : SUBSET Rooms,
              evenPer : SUBSET Rooms, ammo : [Rooms -> Nat]]

ASSUME RoomsAssumption ==
  /\ NRooms \in Nat /\ INT_MAX \in Nat
  /\ {1, KeyRoom, SciRoom, ChamberRoom} \subseteq Rooms
  /\ Cardinality({1, KeyRoom, SciRoom, ChamberRoom}) = 4

ASSUME InputsAssumption ==
  /\ Inputs \subseteq InputType
  /\ \A i \in Inputs : \A u, v \in Rooms : i.adj[u, v] = i.adj[v, u]

VARIABLES
  input,      \* the input file
  RoomYammo,  \* the ammunition still in each room
  j,          \* the leg: 0, 1, 2
  k,          \* rounds of the search in this leg
  dist, visited, parent, periods,  \* per room
  per,        \* the period of the room expanded last
  init,       \* the ammunition spent when the leg began
  path,       \* the rooms of all legs so far
  pc

vars == <<input, RoomYammo, j, k, dist, visited, parent, periods, per, init, path, pc>>

\* parent[v] = -1: v is where the leg begins.  parent[v] = 0: never assigned, as the
\* array is not initialised; reading it is undefined.
NoParent == -1
Unset == 0

allKeys == <<1, KeyRoom, SciRoom, ChamberRoom>>
Source == allKeys[j + 1]
Goal == allKeys[j + 2]

\* Mutants: only the scientist's room is kept closed; a room is picked again; any room
\* reached is picked, near or far; the lock is asked about the period of the room left;
\* the ammunition is taken out of the first room only.
Mutant_Closed == IF j = 0 THEN {SciRoom} ELSE {}

\* The rooms that are closed during the leg.
Closed == CASE j = 0 -> {SciRoom, ChamberRoom}
            [] j = 1 -> {ChamberRoom}
            [] OTHER -> {}

adj(u, v) == input.adj[u, v]

is_Forbidden(period, v) ==
  v \in IF period % 2 = 0 THEN input.evenPer ELSE input.oddPer

Init ==
  /\ input \in Inputs
  /\ RoomYammo = input.ammo
  /\ j = 0 /\ k = 0
  /\ dist = [v \in Rooms |-> INT_MAX]
  /\ visited = [v \in Rooms |-> FALSE]
  /\ parent = [v \in Rooms |-> Unset]
  /\ periods = [v \in Rooms |-> 1]
  /\ per = 1 /\ init = 0
  /\ path = << >>
  /\ pc = "leg"

\* Lines 139-151.  Neither parent nor RoomYammo is reset.
BeginLeg ==
  /\ pc = "leg"
  /\ periods' = [v \in Rooms |-> per]
  /\ dist' = [v \in Rooms |-> IF v = Source THEN init ELSE INT_MAX]
  /\ visited' = [v \in Rooms |-> v \in Closed]
  /\ parent' = [parent EXCEPT ![Source] = NoParent]
  /\ k' = 0
  /\ pc' = "search"
  /\ UNCHANGED <<input, RoomYammo, j, per, init, path>>

Mutant_Candidates == {v \in Rooms : ~is_Forbidden(per, v)}

\* The rooms that findMin looks at: it filters by the period of the room expanded
\* last, and an unreached room qualifies as any other.
Candidates == {v \in Rooms : ~visited[v] /\ ~is_Forbidden(per, v)}

Mutant_findMin == CHOOSE v \in Candidates : dist[v] # INT_MAX \/ \A w \in Candidates : w <= v

\* The last of the nearest ones, because of the <= in line 30.
findMin == CHOOSE v \in Candidates :
             \A w \in Candidates : dist[v] < dist[w] \/ (dist[v] = dist[w] /\ w <= v)

Mutant_Relaxes(u, v, period) ==
  /\ ~is_Forbidden(period, v)
  /\ ~visited[v] /\ v # u
  /\ adj(u, v) # 0
  /\ dist[u] # INT_MAX
  /\ dist[u] + adj(u, v) - RoomYammo[v] < dist[v]

\* Line 166 for the neighbour v of u, with period the one in which u is entered.
Relaxes(u, v, period) ==
  /\ ~is_Forbidden(period + 1, v)
  /\ ~visited[v] /\ v # u
  /\ adj(u, v) # 0
  /\ dist[u] # INT_MAX
  /\ dist[u] + adj(u, v) - RoomYammo[v] < dist[v]

\* One round of the loop at 153 that does not find the goal.
Expand ==
  /\ pc = "search" /\ k < NRooms /\ Candidates # {}
  /\ LET u == findMin
         relaxed == {v \in Rooms : Relaxes(u, v, periods[u])}
     IN /\ u # Goal
        /\ per' = periods[u]
        /\ visited' = [visited EXCEPT ![u] = TRUE]
        /\ parent' = [v \in Rooms |-> IF v \in relaxed THEN u ELSE parent[v]]
        /\ periods' = [v \in Rooms |-> IF v \in relaxed THEN periods[u] + 1 ELSE periods[v]]
        /\ dist' = [v \in Rooms |-> IF v \in relaxed
                                      THEN dist[u] + adj(u, v) - RoomYammo[v]
                                      ELSE dist[v]]
  /\ k' = k + 1
  /\ UNCHANGED <<input, RoomYammo, j, init, path, pc>>

\* Line 159: the round that picks the goal.
Arrive ==
  /\ pc = "search" /\ k < NRooms /\ Candidates # {}
  /\ findMin = Goal
  /\ per' = periods[Goal]
  /\ visited' = [visited EXCEPT ![Goal] = TRUE]
  /\ init' = dist[Goal]
  /\ pc' = "arrived"
  /\ UNCHANGED <<input, RoomYammo, j, k, dist, parent, periods, path>>

\* min_index is returned without a value.
NoCandidate ==
  /\ pc = "search" /\ k < NRooms /\ Candidates = {}
  /\ pc' = "undefined"
  /\ UNCHANGED <<input, RoomYammo, j, k, dist, visited, parent, periods, per, init, path>>

\* The goal was picked though no way to it had been found: newPath follows a parent
\* that was never assigned.
NoWay ==
  /\ pc = "arrived" /\ parent[Goal] = Unset
  /\ pc' = "undefined"
  /\ UNCHANGED <<input, RoomYammo, j, k, dist, visited, parent, periods, per, init, path>>

\* newPath: the parents from the goal back to the start of the leg, reversed.
Back[n \in 0..NRooms] == IF n = 0 THEN Goal ELSE parent[Back[n - 1]]
Start == CHOOSE n \in 0..NRooms : /\ parent[Back[n]] = NoParent
                                 /\ \A m \in 0..(n - 1) : parent[Back[m]] # NoParent
Branch == [i \in 1..(Start + 1) |-> Back[Start + 1 - i]]
newPath == path \o Branch

Mutant_newRoomYammo(rooms, strays) ==
  [v \in Rooms |-> IF v \in strays \/ v = rooms[1] THEN 0 ELSE RoomYammo[v]]

\* newRoomYammo empties the rooms of path[0..per+1].  After the first leg path ends
\* two rooms earlier, after the second one: what is read there is not defined and may
\* be the number of any room.
newRoomYammo(rooms, strays) ==
  [v \in Rooms |-> IF v \in strays \/ \E i \in DOMAIN rooms : rooms[i] = v
                     THEN 0 ELSE RoomYammo[v]]

\* Lines 174-176 and the next round of the loop at 138, or its end.
EndLeg ==
  /\ pc = "arrived" /\ parent[Goal] # Unset
  /\ path' = newPath
  /\ \E strays \in {S \in SUBSET Rooms : Cardinality(S) <= 2 - j} :
       RoomYammo' = newRoomYammo(path', strays)
  /\ j' = IF j < 2 THEN j + 1 ELSE j
  /\ pc' = IF j < 2 THEN "leg" ELSE "done"
  /\ UNCHANGED <<input, k, dist, visited, parent, periods, per, init>>

\* The rooms of a sequence that differ from the one before, and the n-th of them.
Kept(rooms) == {i \in DOMAIN rooms : i > 1 => rooms[i - 1] # rooms[i]}
Nth(rooms, n) == CHOOSE i \in Kept(rooms) : Cardinality({h \in Kept(rooms) : h <= i}) = n

Squeezed(rooms) == [n \in 1..Cardinality(Kept(rooms)) |-> rooms[Nth(rooms, n)]]

\* What the loop at 184 prints: path, with one of two equal neighbours.  Its last round
\* compares with path[per+2], beyond the end; should that be equal, the same room is
\* printed from there.
Printed == Squeezed(path)

Ended == pc \in {"done", "undefined"} /\ UNCHANGED vars

Next == BeginLeg \/ Expand \/ Arrive \/ NoCandidate \/ NoWay \/ EndLeg \/ Ended

Spec == Init /\ [][Next]_vars
-----------------------------------------------------------------------------
(***************************************************************************)
(* Properties                                                              *)
(***************************************************************************)
\* Types.  A search never uses up its rounds (line 153): every round visits a room
\* and the goal is one of them.
TypeOK ==
  /\ input \in Inputs
  /\ RoomYammo \in [Rooms -> Nat]
  /\ j \in 0..2
  /\ k \in 0..(NRooms - 1)
  /\ dist \in [Rooms -> Int]
  /\ visited \in [Rooms -> BOOLEAN]
  /\ parent \in [Rooms -> Rooms \cup {NoParent, Unset}]
  /\ periods \in [Rooms -> Nat]
  /\ per \in Nat /\ init \in Int
  /\ path \in Seq(Rooms)
  /\ pc \in {"leg", "search", "arrived", "done", "undefined"}

\* A room is reached in this leg when its distance is known.
Reached(v) == dist[v] # INT_MAX

Searching == pc \in {"search", "arrived"}

\* The tree of the search (lines 162-171).  Every room reached hangs on a room that
\* has been expanded, by a corridor, one period later, in a period in which it is not
\* locked, and its distance is that of its parent plus the corridor less the ammunition
\* it holds.  findMin filters by another room's period and parent keeps the values of
\* earlier legs; neither may break the tree.
TreeInv ==
  Searching =>
    \A v \in Rooms \ {Source} :
      Reached(v) =>
        LET p == parent[v]
        IN /\ p \in Rooms
           /\ visited[p] /\ Reached(p)
           /\ p \notin Closed /\ v \notin Closed
           /\ adj(p, v) # 0
           /\ periods[v] = periods[p] + 1
           /\ ~is_Forbidden(periods[v], v)
           /\ dist[v] = dist[p] + adj(p, v) - RoomYammo[v]

\* The route printed (lines 178-188) can be walked: it begins in room 1, has one room
\* for each period up to per, uses corridors only, enters no room while it is locked,
\* and does not enter the scientist's room before that of the key or the chamber before
\* that of the scientist, where it ends.
RouteLegal ==
  pc = "done" =>
    LET At(v) == {i \in DOMAIN Printed : Printed[i] = v}
        Before(v, w) == \E i \in At(v) : \A h \in At(w) : i < h
    IN /\ Len(Printed) = per
       /\ Printed[1] = 1 /\ Printed[per] = ChamberRoom
       /\ \A i \in 2..per : /\ adj(Printed[i - 1], Printed[i]) # 0
                            /\ ~is_Forbidden(i, Printed[i])
       /\ Before(KeyRoom, SciRoom) /\ Before(SciRoom, ChamberRoom)

\* The ammunition that walking a route takes: that of its corridors less what its
\* rooms hold, found once.  The room in which the route begins counts as empty.
Spent(route) ==
  LET Sum[i \in 1..Len(route)] ==
        IF i = 1 THEN 0
        ELSE Sum[i - 1] + adj(route[i - 1], route[i])
               - (IF \E h \in 1..(i - 1) : route[h] = route[i] THEN 0
                  ELSE input.ammo[route[i]])
  IN Sum[Len(route)]

\* The program never promises more ammunition at the end than walking its route
\* leaves (lines 180, 166 and 175): a room passed on two legs gives its ammunition once.
\* (It may promise less: see newRoomYammo.)
PromiseKept == pc = "done" => init >= Spent(Printed)

\* Rooms are never locked and no room holds more than each of its corridors costs.
Plain ==
  /\ input.oddPer = {} /\ input.evenPer = {}
  /\ \A u, v \in Rooms : adj(u, v) # 0 => input.ammo[v] <= adj(u, v)

\* No corridor costs more than most, and the three legs together stay below INT_MAX,
\* the distance of a room not reached.
CostsFit(most) ==
  /\ \A i \in Inputs : \A u, v \in Rooms : i.adj[u, v] <= most
  /\ 3 * NRooms * most < INT_MAX

\* The reference: the least cost of a walk of at most n corridors from the start of
\* the leg to v, through rooms that are open.
Least ==
  LET Cost[n \in 0..NRooms] ==
        IF n = 0 THEN [v \in Rooms |-> IF v = Source THEN 0 ELSE INT_MAX]
        ELSE [v \in Rooms |->
               LET last == Cost[n - 1]
                   via == {last[u] + adj(u, v) - RoomYammo[v] :
                             u \in {w \in Rooms : adj(w, v) # 0 /\ last[w] # INT_MAX}}
                   all == {last[v]} \cup IF v \in Closed THEN {} ELSE via
               IN CHOOSE c \in all : \A d \in all : c <= d]
  IN Cost[NRooms]

\* On plain inputs the greedy search is exact (lines 24-37, 153-172): a room that has
\* been expanded has the least cost there is, a room expanded unreached cannot be reached,
\* and undefined behaviour (lines 36 and 42) is met only when the goal of the leg is cut
\* off.
ShortestOnPlain ==
  Plain =>
    /\ Searching =>
         \A v \in Rooms \ Closed :
           visited[v] => dist[v] = IF Least[v] = INT_MAX THEN INT_MAX ELSE dist[Source] + Least[v]
    /\ pc = "undefined" => Least[Goal] = INT_MAX
=============================================================================

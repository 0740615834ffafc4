----------------------------- MODULE LiftService -----------------------------
(***************************************************************************)
(* What CENG334/HW2 promises its passengers (HW2.pdf, pages 2-4), with no  *)
(* threads, queues or counters: a lift moves between neighbouring floors,  *)
(* a person boards on the floor of the call when there is room and nobody  *)
(* inside has to leave there, leaves on the destination floor, and the     *)
(* service closes once everybody has been served.                          *)
(***************************************************************************)
EXTENDS Integers, FiniteSets, FiniteSetsExt

CONSTANTS
  Passenger,
  TopFloor,        \* the lift's range is 0 .. TopFloor
  MaxWeight, MaxRiders,
  Trips            \* what the passengers may ask for

VARIABLES
  trip,            \* per passenger: initial_floor, destination_floor, weight
  floor,           \* where the lift is
  where,           \* "waiting", "aboard" or "served", per passenger
  closed

vars == <<trip, floor, where, closed>>

Riders == {p \in Passenger : where[p] = "aboard"}

Init ==
  /\ trip \in Trips
  /\ floor = 0
  /\ where = [p \in Passenger |-> "waiting"]
  /\ closed = FALSE

Move ==
  /\ floor' \in {floor - 1, floor + 1} \cap (0 .. TopFloor)
  /\ UNCHANGED <<trip, where, closed>>

BoardLift(p) ==
  /\ where[p] = "waiting" /\ floor = trip[p].initial_floor
  /\ \A q \in Riders : trip[q].destination_floor # floor
  /\ Cardinality(Riders) < MaxRiders
  /\ MapThenSumSet(LAMBDA q : trip[q].weight, Riders \cup {p}) <= MaxWeight
  /\ where' = [where EXCEPT ![p] = "aboard"]
  /\ UNCHANGED <<trip, floor, closed>>

Alight(p) ==
  /\ where[p] = "aboard" /\ floor = trip[p].destination_floor
  /\ where' = [where EXCEPT ![p] = "served"]
  /\ UNCHANGED <<trip, floor, closed>>

Close ==
  /\ \A p \in Passenger : where[p] = "served"
  /\ closed' = TRUE
  /\ UNCHANGED <<trip, floor, where>>

Next == Move \/ Close \/ \E p \in Passenger : BoardLift(p) \/ Alight(p)

Spec == Init /\ [][Next]_vars

\* Everybody is served and the service closes.
Served == <>closed
=============================================================================

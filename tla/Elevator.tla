------------------------------ MODULE Elevator ------------------------------
(***************************************************************************)
(* The elevator simulator of CENG334/HW2: the Elevator monitor             *)
(* (Elevator.cpp 33-324), the controller thread, the person threads and    *)
(* the main thread that creates them.                                      *)
(*                                                                         *)
(* A monitor method holds the mutex from its entry, or from the return of  *)
(* a wait, to its next wait or to its end.  Such a stretch is one action.  *)
(* The two statements the code executes outside the monitor, the           *)
(* initialisation of prioVector (line 330) and the increment of one of its *)
(* slots (line 263), are actions of their own; the increment is two, a     *)
(* read and a write.                                                       *)
(*                                                                         *)
(* A condition variable is the set of persons whose pc names the wait;     *)
(* notifyAll moves them into `woken'.  Person p's identity is p_id.        *)
(***************************************************************************)
EXTENDS Integers, Sequences, FiniteSets, FiniteSetsExt, SequencesExt

CONSTANTS
  NumPeople,       \* num_people
  NumFloors,       \* num_floors: the floors are 0 .. NumFloors - 1
  WeightCapacity,  \* weight_capacity
  PersonCapacity,  \* person_capacity
  Trips,           \* the input files considered: functions from persons to trips
  MaxPrio,         \* bound: a slot of prioVector is not incremented past it
  Outlasts,        \* the timed waits that outlast every runnable person thread
  PromptMain,      \* main has created every thread before such a wait ends
  OrderedStart,    \* controller and person 0 are initialised before main goes on
  Spurious         \* pthread_cond_wait may return without a notification

Person == 0 .. NumPeople - 1
Floor  == 0 .. NumFloors - 1
TimedWaits == {"idle", "travel", "in_out"}

\* A line of the input file: initial and destination floors, weight, and
\* priority, 1 for high (hp) and 2 for low (lp).
Trip == [initial_floor : Floor, destination_floor : Floor,
         weight : 1 .. WeightCapacity, priority : {1, 2}]

ASSUME ConstantsAssumption ==
  /\ NumPeople \in Nat \ {0}
  /\ NumFloors \in Nat \ {0}
  /\ WeightCapacity \in Nat \ {0}
  /\ PersonCapacity \in Nat \ {0}
  /\ MaxPrio \in Nat
  /\ Trips \subseteq [Person -> Trip]
  /\ \A t \in Trips : \A p \in Person : t[p].initial_floor # t[p].destination_floor
  /\ Outlasts \subseteq TimedWaits
  /\ {PromptMain, OrderedStart, Spurious} \subseteq BOOLEAN

VARIABLES
  trip,             \* PersonParams: the fields that never change
  ex_try,           \* PersonParams.ex_try, per person
  first_try,        \* PersonParams.first_try, per person
  state, current_floor, current_weight, people_in_ele, active_person,
  ele_capacity, weight_capacity,
  eleVector,        \* the persons in the elevator (ids are unique)
  prioVector,       \* hp persons counted per floor; it grows slot by slot
  destQueue,
  pc,               \* where each person thread is
  woken,            \* the persons a notifyAll has released from their wait
  seen,             \* the value line 263 has read and not yet written back
  cpc,              \* where the controller thread is
  next_floor,       \* local of elevatorProcess
  undefined         \* the program has left what C++ defines

people == <<trip, ex_try, first_try>>
lift   == <<state, current_floor, destQueue>>
load   == <<current_weight, people_in_ele, active_person, eleVector>>
limits == <<ele_capacity, weight_capacity>>
prio   == <<prioVector, seen>>
ctl    == <<cpc, next_floor>>
vars   == <<people, lift, load, limits, prio, pc, woken, ctl, undefined>>

\* Control points of a person thread.  Those of Waits are condition waits:
\* is_idle, ele_stopped in inProcess and in outProcess, enter_ele, lp_turn.
Waits  == {"is_idle", "in_stopped", "out_stopped", "enter_ele", "lp_turn"}
Points == Waits \cup
          {"start", "init", "request", "bump", "bumping", "enter", "leave", "done"}

InitialFloor(p) == trip[p].initial_floor
Destination(p)  == trip[p].destination_floor
HighPriority(p) == trip[p].priority = 1

-----------------------------------------------------------------------------
(* Scheduling and condition variables.                                     *)

\* A waiting person whose wait may return.
Returns(p, wait) == pc[p] = wait /\ (Spurious \/ p \in woken)

\* The persons that a notifyAll on the waits W releases.
Waiting(W) == {p \in Person : pc[p] \in W}

\* No created person thread has anything to do.
Quiet ==
  \A p \in Person :
     \/ pc[p] = "done"
     \/ pc[p] \in Waits /\ p \notin woken
     \/ pc[p] = "start" /\ ~PromptMain

\* The controller's timed wait may end (intervalwait, lines 60-67): nobody
\* notifies `sleep', so only time ends it.
Expires(wait) == cpc = wait /\ (wait \in Outlasts => Quiet)

\* A controller that loops without waiting never gives the mutex back.
MutexFree == cpc # "spin"

VectorBuilt == DOMAIN prioVector = Floor

-----------------------------------------------------------------------------
(* Helpers of the monitor.                                                 *)

\* Mutants, here and below, are plausible bugs: the checks replace the
\* definition after them by them and expect a property to fail.
Mutant_InsertDuplicate(q, f) ==
  LET at == SelectInSeq(q, LAMBDA g : f < g)
  IN  IF at = 0 THEN Append(q, f) ELSE InsertAt(q, at, f)

Mutant_InsertOnlyLast(q, f) ==
  IF SelectInSeq(q, LAMBDA g : f <= g) = 0 THEN Append(q, f) ELSE q

\* insertFloor: before the first queued floor that is not smaller, unless
\* that is the floor itself.
InsertFloor(q, f) ==
  LET at == SelectInSeq(q, LAMBDA g : f <= g)
  IN  IF at = 0 THEN Append(q, f)
      ELSE IF q[at] = f THEN q
      ELSE InsertAt(q, at, f)

\* changeState: an idle elevator turns towards the person, or, when it is at
\* the person's floor, towards the person's destination.
ChangeState(p) ==
  LET goal == IF current_floor = InitialFloor(p) THEN Destination(p) ELSE InitialFloor(p)
  IN  IF state # "Idle" \/ goal = current_floor THEN state
      ELSE IF goal > current_floor THEN "Moving-up" ELSE "Moving-down"

GoesUp(p)   == InitialFloor(p) < Destination(p)
GoesDown(p) == InitialFloor(p) > Destination(p)

Mutant_EligibleBehind(p) ==
  \/ state = "Idle"
  \/ state = "Moving-up"   /\ GoesUp(p)
  \/ state = "Moving-down" /\ GoesDown(p)

isEligible(p) ==
  \/ state = "Idle"
  \/ state = "Moving-up"   /\ InitialFloor(p) >= current_floor /\ GoesUp(p)
  \/ state = "Moving-down" /\ InitialFloor(p) <= current_floor /\ GoesDown(p)

Mutant_EnterGoingDown(p) == state = "Moving-up" /\ GoesDown(p)

dontEnter(p) ==
  \/ state = "Moving-up"   /\ GoesDown(p)
  \/ state = "Moving-down" /\ GoesUp(p)

Mutant_WeightOnly(p) == trip[p].weight

\* The load with p on board.
WeightWith(p) == current_weight + trip[p].weight

Mutant_AnyWeight(p) == people_in_ele + 1 > ele_capacity \/ dontEnter(p)

Denied(p) ==
  \/ people_in_ele + 1 > ele_capacity
  \/ WeightWith(p) > weight_capacity
  \/ dontEnter(p)

\* The persons inside whose destination is the current floor.
Leavers(inside) == {q \in inside : Destination(q) = current_floor}

-----------------------------------------------------------------------------
Init ==
  /\ trip \in Trips
  /\ ex_try = [p \in Person |-> FALSE]
  /\ first_try = [p \in Person |-> TRUE]
  /\ state = "Idle"
  /\ current_floor = 0 /\ current_weight = 0 /\ people_in_ele = 0
  \* `ele' is a global object: what the constructor leaves out is zero.
  /\ active_person = 0 /\ ele_capacity = 0 /\ weight_capacity = 0
  /\ eleVector = {}
  /\ prioVector = [f \in {} |-> 0]
  /\ destQueue = <<>>
  /\ pc = [p \in Person |-> "start"]
  /\ woken = {}
  /\ seen = [p \in Person |-> 0]
  /\ cpc = "start" /\ next_floor = 0
  /\ undefined = FALSE

Goto(p, point) == pc' = [pc EXCEPT ![p] = point]

-----------------------------------------------------------------------------
(* main creates the person threads in order; person 0 builds prioVector.   *)

Create(p) ==
  /\ pc[p] = "start"
  /\ \A q \in Person : q < p => pc[q] # "start"
  /\ OrderedStart => cpc # "start" /\ (p > 0 => VectorBuilt)
  /\ Goto(p, IF p = 0 THEN "init" ELSE "request")
  /\ UNCHANGED <<people, lift, load, limits, prio, woken, ctl, undefined>>

prioVectorInit(p) ==
  /\ pc[p] = "init"
  /\ IF VectorBuilt
     THEN Goto(p, "request") /\ UNCHANGED prioVector
     ELSE /\ prioVector' = [f \in 0 .. Cardinality(DOMAIN prioVector) |->
                              IF f \in DOMAIN prioVector THEN prioVector[f] ELSE 0]
          /\ UNCHANGED pc
  /\ UNCHANGED <<people, lift, load, limits, seen, woken, ctl, undefined>>

-----------------------------------------------------------------------------
(* makeRequest: each return of the wait clears ex_try before the test.     *)

MakesRequest(p) == pc[p] = "request" \/ Returns(p, "is_idle")
TriedBefore(p)  == pc[p] = "request" /\ ex_try[p]

WaitIdle(p) ==
  /\ MakesRequest(p) /\ (~isEligible(p) \/ TriedBefore(p))
  /\ ex_try' = [ex_try EXCEPT ![p] = @ /\ pc[p] = "request"]
  /\ Goto(p, "is_idle")
  /\ woken' = woken \ {p}
  /\ UNCHANGED <<trip, first_try, lift, load, limits, prio, ctl, undefined>>

Request(p) ==
  /\ MakesRequest(p) /\ isEligible(p) /\ ~TriedBefore(p)
  /\ destQueue' = IF current_floor = InitialFloor(p) THEN destQueue
                  ELSE InsertFloor(destQueue, InitialFloor(p))
  /\ state' = ChangeState(p)
  /\ ex_try' = [ex_try EXCEPT ![p] = FALSE]
  /\ Goto(p, IF first_try[p] /\ HighPriority(p) THEN "bump" ELSE "enter")
  /\ woken' = woken \ {p}
  /\ UNCHANGED <<trip, first_try, current_floor, load, limits, prio, ctl, undefined>>

\* Line 263, outside the monitor: read the slot, then write it back plus one.
BumpRead(p) ==
  /\ pc[p] = "bump"
  /\ InitialFloor(p) \in DOMAIN prioVector
  /\ seen' = [seen EXCEPT ![p] = prioVector[InitialFloor(p)]]
  /\ Goto(p, "bumping")
  /\ UNCHANGED <<people, lift, load, limits, prioVector, woken, ctl, undefined>>

BumpWrite(p) ==
  /\ pc[p] = "bumping"
  /\ seen[p] < MaxPrio
  /\ prioVector' = [prioVector EXCEPT ![InitialFloor(p)] = seen[p] + 1]
  /\ seen' = [seen EXCEPT ![p] = 0]
  /\ Goto(p, "enter")
  /\ UNCHANGED <<people, lift, load, limits, woken, ctl, undefined>>

-----------------------------------------------------------------------------
(* inProcess.  The first four predicates say how far the code has come     *)
(* when it meets the test that an action decides.                          *)

AtStopTest(p) == pc[p] = "enter" \/ (Returns(p, "in_stopped") /\ state # "Idle")
Mutant_AnyDoor(p) == AtStopTest(p)
AtDoor(p)     == AtStopTest(p) /\ current_floor = InitialFloor(p)
PastDoor(p)   == \/ AtDoor(p) /\ Leavers(eleVector) = {}
                 \/ Returns(p, "enter_ele")
HasSlot(p)    == InitialFloor(p) \in DOMAIN prioVector
Mutant_LpPushesIn(p) == (PastDoor(p) /\ HasSlot(p)) \/ Returns(p, "lp_turn")
LpTurn(p)     == \/ PastDoor(p) /\ HasSlot(p) /\ ~(prioVector[InitialFloor(p)] > 0)
                 \/ Returns(p, "lp_turn")

WaitStop(p) ==
  /\ AtStopTest(p) /\ current_floor # InitialFloor(p)
  /\ Goto(p, "in_stopped")
  /\ woken' = woken \ {p}
  /\ UNCHANGED <<people, lift, load, limits, prio, ctl, undefined>>

\* The elevator went idle while the person waited: back to makeRequest.
RetryIdle(p) ==
  /\ Returns(p, "in_stopped") /\ state = "Idle"
  /\ Goto(p, "request")
  /\ woken' = woken \ {p}
  /\ UNCHANGED <<people, lift, load, limits, prio, ctl, undefined>>

WaitLeavers(p) ==
  /\ AtDoor(p) /\ Leavers(eleVector) # {}
  /\ Goto(p, "enter_ele")
  /\ woken' = woken \ {p}
  /\ UNCHANGED <<people, lift, load, limits, prio, ctl, undefined>>

\* What boarding does for both priorities.
Board(p) ==
  /\ eleVector' = eleVector \cup {p}
  /\ people_in_ele' = people_in_ele + 1
  /\ current_weight' = WeightWith(p)
  /\ destQueue' = InsertFloor(destQueue, Destination(p))
  /\ state' = ChangeState(p)
  /\ Goto(p, "leave")
  /\ UNCHANGED <<people, current_floor, active_person, limits, seen, ctl, undefined>>

Mutant_TryAtOnce(p) ==
  /\ first_try' = [first_try EXCEPT ![p] = FALSE]
  /\ Goto(p, "request")
  /\ UNCHANGED <<trip, ex_try, lift, load, limits, prio, ctl, undefined>>

\* What a denial does for both priorities.
Deny(p) ==
  /\ ex_try' = [ex_try EXCEPT ![p] = TRUE]
  /\ first_try' = [first_try EXCEPT ![p] = FALSE]
  /\ Goto(p, "request")
  /\ UNCHANGED <<trip, lift, load, limits, prio, ctl, undefined>>

HpDenied(p) ==
  /\ HighPriority(p) /\ PastDoor(p) /\ HasSlot(p) /\ Denied(p)
  /\ Deny(p)
  /\ LET count == Cardinality({q \in eleVector :
                     HighPriority(q) /\ InitialFloor(q) = InitialFloor(p)})
     IN  woken' = IF count + 1 = prioVector[InitialFloor(p)]
                  THEN (woken \ {p}) \cup Waiting({"lp_turn"})
                  ELSE woken \ {p}

HpBoards(p) ==
  /\ HighPriority(p) /\ PastDoor(p) /\ HasSlot(p) /\ ~Denied(p)
  /\ Board(p)
  /\ prioVector' = [prioVector EXCEPT ![InitialFloor(p)] = @ - 1]
  /\ woken' = IF prioVector'[InitialFloor(p)] = 0
              THEN (woken \ {p}) \cup Waiting({"lp_turn"})
              ELSE woken \ {p}

WaitTurn(p) ==
  /\ ~HighPriority(p) /\ PastDoor(p) /\ HasSlot(p)
  /\ prioVector[InitialFloor(p)] > 0
  /\ Goto(p, "lp_turn")
  /\ woken' = woken \ {p}
  /\ UNCHANGED <<people, lift, load, limits, prio, ctl, undefined>>

LpDenied(p) ==
  /\ ~HighPriority(p) /\ LpTurn(p) /\ Denied(p)
  /\ Deny(p)
  /\ woken' = woken \ {p}

LpBoards(p) ==
  /\ ~HighPriority(p) /\ LpTurn(p) /\ ~Denied(p)
  /\ Board(p)
  /\ woken' = woken \ {p}
  /\ UNCHANGED prioVector

\* prioVector is used while person 0 is still growing it: the slot may not
\* exist and push_back may be moving the buffer.
UnbuiltVector(p) ==
  /\ ~VectorBuilt
  /\ \/ pc[p] \in {"bump", "bumping"}
     \/ PastDoor(p)
  /\ undefined' = TRUE
  /\ UNCHANGED <<people, lift, load, limits, prio, pc, woken, ctl>>

-----------------------------------------------------------------------------
(* outProcess.                                                             *)

AtExitTest(p) == pc[p] = "leave" \/ Returns(p, "out_stopped")

WaitDestination(p) ==
  /\ AtExitTest(p) /\ current_floor # Destination(p)
  /\ Goto(p, "out_stopped")
  /\ woken' = woken \ {p}
  /\ UNCHANGED <<people, lift, load, limits, prio, ctl, undefined>>

Leave(p) ==
  /\ AtExitTest(p) /\ current_floor = Destination(p)
  /\ active_person' = active_person - 1
  /\ people_in_ele' = people_in_ele - 1
  /\ current_weight' = current_weight - trip[p].weight
  /\ eleVector' = eleVector \ {p}
  /\ Goto(p, "done")
  /\ woken' = IF Leavers(eleVector') = {}
              THEN (woken \ {p}) \cup Waiting({"enter_ele"})
              ELSE woken \ {p}
  /\ UNCHANGED <<people, lift, limits, prio, ctl, undefined>>

-----------------------------------------------------------------------------
(* elevatorProcess.  LoopTop is the test of the outer loop up to the next  *)
(* timed wait, with the number of active persons the loop sees and the     *)
(* persons already released in this step.                                  *)

Mutant_OneFloorTooMany(floor) ==
  IF state = "Moving-up" THEN floor <= NumFloors ELSE floor # 0

CanMove(floor) == IF state = "Moving-up" THEN floor < NumFloors ELSE floor # 0

\* front() or back(); on an empty deque it is whatever the memory holds.
NextFloors(q) ==
  IF q = <<>> THEN -1 .. NumFloors
  ELSE {IF state = "Moving-up" THEN q[1] ELSE q[Len(q)]}

LoopTop(active, floor, released) ==
  \/ /\ active = 0
     /\ cpc' = "exit"
     /\ woken' = released /\ UNCHANGED next_floor
  \/ /\ active # 0 /\ state = "Idle"
     /\ cpc' = "idle"
     /\ woken' = released \cup Waiting({"is_idle"}) /\ UNCHANGED next_floor
  \/ /\ active # 0 /\ state # "Idle"
     /\ next_floor' \in NextFloors(destQueue)
     /\ cpc' = IF CanMove(floor) THEN "travel" ELSE "spin"
     /\ woken' = released

ControllerStart ==
  /\ cpc = "start"
  /\ active_person' = NumPeople
  /\ ele_capacity' = PersonCapacity /\ weight_capacity' = WeightCapacity
  /\ LoopTop(NumPeople, current_floor, woken)
  /\ UNCHANGED <<people, lift, current_weight, people_in_ele, eleVector,
                 prio, pc, undefined>>

\* The inner loop of the idle state waits again while the queue is empty,
\* which changes nothing; it does not look at active_person.
IdleEnds ==
  /\ Expires("idle") /\ destQueue # <<>>
  /\ LoopTop(active_person, current_floor, woken)
  /\ UNCHANGED <<people, lift, load, limits, prio, pc, undefined>>

FloorAhead == IF state = "Moving-up" THEN current_floor + 1 ELSE current_floor - 1

\* Past a floor that is not next_floor: the inner loop goes on, or ends at
\* the end of the shaft.
Pass ==
  /\ Expires("travel") /\ FloorAhead # next_floor
  /\ current_floor' = FloorAhead
  /\ IF CanMove(FloorAhead)
     THEN UNCHANGED <<ctl, woken>>
     ELSE LoopTop(active_person, FloorAhead, woken)
  /\ UNCHANGED <<people, state, destQueue, load, limits, prio, pc, undefined>>

\* The stop takes the head of the queue in the direction of travel, whatever
\* it has become since next_floor was read.
Stop ==
  /\ Expires("travel") /\ FloorAhead = next_floor
  /\ destQueue # <<>>
  /\ current_floor' = FloorAhead
  /\ destQueue' = IF state = "Moving-up" THEN Tail(destQueue) ELSE Front(destQueue)
  /\ state' = IF destQueue' = <<>> THEN "Idle" ELSE state
  /\ woken' = woken \cup Waiting({"in_stopped", "out_stopped"})
                    \cup IF destQueue' = <<>> THEN Waiting({"is_idle"}) ELSE {}
  /\ cpc' = "in_out"
  /\ UNCHANGED <<people, load, limits, prio, pc, next_floor, undefined>>

\* pop_front or pop_back of an empty deque.
PopEmpty ==
  /\ Expires("travel") /\ FloorAhead = next_floor
  /\ destQueue = <<>>
  /\ undefined' = TRUE
  /\ UNCHANGED <<people, lift, load, limits, prio, pc, woken, ctl>>

InOutEnds ==
  /\ Expires("in_out")
  /\ LoopTop(active_person, current_floor, woken)
  /\ UNCHANGED <<people, lift, load, limits, prio, pc, undefined>>

-----------------------------------------------------------------------------
MonitorStep(p) ==
  \/ WaitIdle(p) \/ Request(p)
  \/ WaitStop(p) \/ RetryIdle(p) \/ WaitLeavers(p)
  \/ HpDenied(p) \/ HpBoards(p)
  \/ WaitTurn(p) \/ LpDenied(p) \/ LpBoards(p)
  \/ WaitDestination(p) \/ Leave(p)

PersonStep(p) ==
  /\ ~undefined
  /\ \/ Create(p) \/ prioVectorInit(p)
     \/ BumpRead(p) \/ BumpWrite(p)
     \/ UnbuiltVector(p)
     \/ MutexFree /\ MonitorStep(p)

ControllerStep ==
  /\ ~undefined
  /\ ControllerStart \/ IdleEnds \/ Pass \/ Stop \/ PopEmpty \/ InOutEnds

\* main joins every thread.
Joined ==
  /\ cpc = "exit" /\ \A p \in Person : pc[p] = "done"
  /\ UNCHANGED vars

Next == (\E p \in Person : PersonStep(p)) \/ ControllerStep \/ Joined

Spec == Init /\ [][Next]_vars

\* Every runnable thread is eventually scheduled and gets the mutex, which
\* the controller gives back for real time in each timed wait.
Fairness ==
  /\ \A p \in Person : WF_vars(PersonStep(p))
  /\ WF_vars(ControllerStep)

FairSpec == Spec /\ Fairness

-----------------------------------------------------------------------------
(* What the properties of the prompt schedule are stated under.            *)

\* Every timed wait outlasts the runnable person threads, main is ahead of
\* them, and only a notification ends a wait.
PromptSchedule == Outlasts = TimedWaits /\ PromptMain /\ OrderedStart /\ ~Spurious

\* No floor has callers of both priorities, or only the ground floor has and
\* the one hp person is there.  Elsewhere an hp person can be counted twice
\* (line 179), and an hp person of another floor releases the lp persons who
\* wait for their turn (lines 201, 211, 216).
CountsRight(t) ==
  \A p, q \in Person :
    /\ t[p].initial_floor = t[q].initial_floor
    /\ t[p].priority = 1 /\ t[q].priority = 2
    => t[p].initial_floor = 0 /\ \A r \in Person : t[r].priority = 1 => r = p

-----------------------------------------------------------------------------
TypeOK ==
  /\ trip \in Trips
  /\ ex_try \in [Person -> BOOLEAN] /\ first_try \in [Person -> BOOLEAN]
  /\ state \in {"Idle", "Moving-up", "Moving-down"}
  /\ current_floor \in 0 .. NumFloors
  /\ current_weight \in Int /\ people_in_ele \in Int /\ active_person \in Int
  /\ ele_capacity \in {0, PersonCapacity} /\ weight_capacity \in {0, WeightCapacity}
  /\ eleVector \subseteq Person
  /\ \E n \in 0 .. NumFloors : prioVector \in [0 .. n - 1 -> Int]
  /\ destQueue \in Seq(Floor)
  /\ pc \in [Person -> Points]
  /\ woken \subseteq Waiting(Waits)
  /\ seen \in [Person -> Int]
  /\ cpc \in {"start", "idle", "travel", "in_out", "spin", "exit"}
  /\ next_floor \in -1 .. NumFloors
  /\ undefined \in BOOLEAN

\* The counters agree with who is inside and, once the controller runs, with
\* who is still to be served, and neither capacity is exceeded, whatever the
\* timing of the threads: lines 204-211, 224-229 and 243-250 never drift apart.
LoadInv ==
  /\ eleVector = {p \in Person : pc[p] \in {"leave", "out_stopped"}}
  /\ people_in_ele = Cardinality(eleVector)
  /\ people_in_ele <= ele_capacity /\ current_weight <= weight_capacity
  /\ cpc # "start" => active_person = Cardinality({p \in Person : pc[p] # "done"})

\* The weight that is compared with weight_capacity is that of the persons
\* inside.
Weight(trips, persons) == MapThenSumSet(LAMBDA p : trips[p].weight, persons)
WeightInv == current_weight = Weight(trip, eleVector)

\* insertFloor keeps the queue sorted without duplicates (HW2.pdf page 3),
\* which taking its first or last element as the next stop relies on.
QueueSorted ==
  \A i, j \in DOMAIN destQueue : i < j => destQueue[i] < destQueue[j]

\* Whoever waits on a condition has someone who will still signal it: a stop
\* in the queue for those who wait for a stop, a rider about to leave for
\* those at the door, an hp person still to board for an lp person who gives
\* way, and a ride in progress for those who wait for the idle state.
Queued(f) == \E i \in DOMAIN destQueue : destQueue[i] = f

NoLostWakeup ==
  \A p \in Person : p \notin woken =>
     /\ pc[p] = "in_stopped"  => Queued(InitialFloor(p))
     /\ pc[p] = "out_stopped" => Queued(Destination(p))
     /\ pc[p] = "enter_ele"   => Leavers(eleVector) # {}
     /\ pc[p] = "lp_turn"     => \E q \in Person \ eleVector :
           /\ HighPriority(q) /\ InitialFloor(q) = InitialFloor(p) /\ pc[q] # "done"
     /\ pc[p] = "is_idle" /\ cpc = "idle" => state # "Idle"

\* The elevator never carries a rider away from the destination: it lies
\* ahead, or is where the elevator stands (isEligible and dontEnter).
RidersAhead ==
  \A p \in eleVector :
     \/ Destination(p) = current_floor
     \/ state = "Moving-up" /\ Destination(p) > current_floor
     \/ state = "Moving-down" /\ Destination(p) < current_floor

\* The controller never loops with the mutex held (lines 275-322), which no
\* other thread could end.
NeverSpins == cpc # "spin"

\* A person who stands at the door of the elevator, or is about to.
AtLanding(q) ==
  /\ InitialFloor(q) = current_floor
  /\ pc[q] \in {"enter", "enter_ele"} \/ (pc[q] = "in_stopped" /\ q \in woken)

Boards(p) == p \in eleVector' \ eleVector

\* "When the elevator stops at a floor, high-priority people will enter the
\* elevator before the low-priority people at that floor" (HW2.pdf page 4,
\* prioVector and lp_turn in inProcess): an lp person boards only when every hp
\* person who has been counted and is at that door is denied.  With two hp
\* callers of a floor it fails, as line 263 may count them as one.
HpFirst ==
  [][\A p, q \in Person :
       Boards(p) /\ ~HighPriority(p) /\ HighPriority(q) /\ AtLanding(q) => Denied(q)]_vars

-----------------------------------------------------------------------------
(* The monitor implements the service a passenger is promised.             *)

Service == INSTANCE LiftService WITH
  Passenger <- Person,
  TopFloor  <- NumFloors - 1,
  MaxWeight <- WeightCapacity,
  MaxRiders <- PersonCapacity,
  floor     <- current_floor,
  where     <- [p \in Person |-> IF pc[p] = "done" THEN "served"
                                 ELSE IF p \in eleVector THEN "aboard" ELSE "waiting"],
  closed    <- cpc = "exit"

\* Every step is a step of LiftService or leaves its variables unchanged:
\* nobody boards elsewhere, too early or beyond the capacities, nobody is let
\* out elsewhere, the lift stays in the shaft, and the controller ends only
\* when everybody is served.
ImplementsService == Service!Spec

\* Every person is served and the controller ends (HW2.pdf page 2: it
\* "continues to serve all the requests ... until all requests are carried
\* out").
AllServed == Service!Served
=============================================================================

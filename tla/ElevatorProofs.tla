--------------------------- MODULE ElevatorProofs ---------------------------
(***************************************************************************)
(* Proofs about Elevator for every number of persons and floors and every  *)
(* capacity: of the counters, the weight and the queue for every input and *)
(* every schedule; then, from `The prompt schedule' on, of the service for *)
(* the schedule under which the program works, by the invariant PInv.      *)
(***************************************************************************)
EXTENDS Elevator, TLAPS, FiniteSetTheorems, WellFoundedInduction

-----------------------------------------------------------------------------
(* Helpers.                                                                *)

\* A nonempty set of naturals has a least element.
LEMMA LeastNat ==
  ASSUME NEW S, S \subseteq Nat, S # {}
  PROVE  \E x \in S : \A y \in S : x <= y
<1>1. PICK R : IsWellFoundedOn(R, Nat) /\ \A x, y \in Nat : <<y, x>> \in R <=> y < x
  <2>1. IsWellFoundedOn(OpToRel(<, Nat), Nat)
    BY NatLessThanWellFounded
  <2>2. \A x, y \in Nat : <<y, x>> \in OpToRel(<, Nat) <=> y < x
    BY DEF OpToRel
  <2> QED BY <2>1, <2>2, Zenon
<1>2. PICK x \in S : \A y \in S : ~ (<<y, x>> \in R)
  BY <1>1, WFMin
<1>3. ASSUME NEW y \in S PROVE x <= y
  <2>1. x \in Nat /\ y \in Nat
    OBVIOUS
  <2>2. ~ (y < x)
    BY <1>1, <1>2, <2>1, Zenon
  <2> QED BY <2>1, <2>2
<1> QED BY <1>3

\* Min, which SelectInSeq uses, picks the least element.
LEMMA MinIsLeast ==
  ASSUME NEW S, S \subseteq Nat, S # {}
  PROVE  Min(S) \in S /\ \A y \in S : Min(S) <= y
BY LeastNat DEF Min

\* The place insertFloor finds: behind all smaller floors, before the first
\* floor that is not smaller.
Place(q, f) == SelectInSeq(q, LAMBDA g : f <= g)

LEMMA PlaceFound ==
  ASSUME NEW q \in Seq(Floor), NEW f \in Floor
  PROVE  \/ /\ Place(q, f) = 0
            /\ \A i \in 1 .. Len(q) : q[i] < f
         \/ /\ Place(q, f) \in 1 .. Len(q)
            /\ f <= q[Place(q, f)]
            /\ \A i \in 1 .. Len(q) : i < Place(q, f) => q[i] < f
<1> DEFINE I == {i \in 1 .. Len(q) : f <= q[i]}
<1>0. f \in Int /\ \A i \in 1 .. Len(q) : q[i] \in Int
  BY ConstantsAssumption DEF Floor
<1>1. Place(q, f) = IF I # {} THEN Min(I) ELSE 0
  BY DEF Place, SelectInSeq
<1>2. CASE I = {}
  BY <1>0, <1>1, <1>2
<1>3. CASE I # {}
  <2>0. I \subseteq Nat
    OBVIOUS
  <2> HIDE DEF I
  <2>1. Min(I) \in I /\ \A j \in I : Min(I) <= j
    BY <1>3, <2>0, MinIsLeast
  <2>2. Place(q, f) \in I /\ \A j \in I : Place(q, f) <= j
    BY <1>1, <1>3, <2>1
  <2> QED BY <1>0, <2>2 DEF I
<1> QED BY <1>2, <1>3

\* A queue without duplicates in ascending order.
Ascending(q) == \A i, j \in DOMAIN q : i < j => q[i] < q[j]

\* insertFloor keeps a queue of floors one.
LEMMA InsertFloorType ==
  ASSUME NEW q \in Seq(Floor), NEW f \in Floor
  PROVE  InsertFloor(q, f) \in Seq(Floor)
<1>1. InsertFloor(q, f) = IF Place(q, f) = 0 THEN Append(q, f)
                          ELSE IF q[Place(q, f)] = f THEN q
                          ELSE InsertAt(q, Place(q, f), f)
  BY DEF InsertFloor, Place
<1>2. Place(q, f) = 0 \/ Place(q, f) \in 1 .. Len(q)
  BY PlaceFound
<1>3. ASSUME NEW k \in 1 .. Len(q)
      PROVE  InsertAt(q, k, f) \in Seq(Floor)
  BY DEF InsertAt
<1> QED BY <1>1, <1>2, <1>3

\* insertFloor keeps an ascending queue ascending.
LEMMA InsertFloorAscending ==
  ASSUME NEW q \in Seq(Floor), NEW f \in Floor, Ascending(q)
  PROVE  Ascending(InsertFloor(q, f))
<1>0. f \in Int /\ \A i \in 1 .. Len(q) : q[i] \in Int
  BY ConstantsAssumption DEF Floor
<1>1. InsertFloor(q, f) = IF Place(q, f) = 0 THEN Append(q, f)
                          ELSE IF q[Place(q, f)] = f THEN q
                          ELSE InsertAt(q, Place(q, f), f)
  BY DEF InsertFloor, Place
<1>2. CASE Place(q, f) = 0
  <2>1. \A i \in 1 .. Len(q) : q[i] < f
    BY <1>2, PlaceFound
  <2> QED BY <1>0, <1>1, <1>2, <2>1 DEF Ascending
<1>3. CASE Place(q, f) # 0 /\ q[Place(q, f)] = f
  BY <1>1, <1>3
<1>4. CASE Place(q, f) # 0 /\ q[Place(q, f)] # f
  <2> DEFINE k == Place(q, f)
             r == InsertAt(q, k, f)
  <2>1. /\ k \in 1 .. Len(q) /\ f < q[k]
        /\ \A i \in 1 .. Len(q) : i < k => q[i] < f
    BY <1>0, <1>4, PlaceFound
  <2> HIDE DEF k
  <2>2. /\ Len(r) = Len(q) + 1 /\ r \in Seq(Floor)
        /\ \A i \in 1 .. Len(r) : r[i] = IF i < k THEN q[i]
                                         ELSE IF i = k THEN f ELSE q[i - 1]
    BY <2>1 DEF InsertAt
  <2> HIDE DEF r
  <2>3. \A i, j \in 1 .. Len(q) : i < j => q[i] < q[j]
    BY DEF Ascending
  <2>4. ASSUME NEW i \in 1 .. Len(r), NEW j \in 1 .. Len(r), i < j
        PROVE  r[i] < r[j]
    <3>0. i \in Int /\ j \in Int /\ k \in Int /\ Len(q) \in Nat /\ i < j
      BY <2>1, <2>2, <2>4
    <3>1. CASE j < k
      <4>1. i \in 1 .. Len(q) /\ j \in 1 .. Len(q) /\ i < k
        BY <2>1, <2>2, <3>0, <3>1
      <4>2. r[i] = q[i] /\ r[j] = q[j]
        BY <2>2, <3>1, <4>1
      <4> QED BY <2>3, <3>0, <4>1, <4>2
    <3>2. CASE j = k
      BY <2>1, <2>2, <2>4, <3>2
    <3>3. CASE j > k
      <4>1. r[j] = q[j - 1] /\ j - 1 \in k .. Len(q) /\ q[j - 1] \in Int
        BY <1>0, <2>1, <2>2, <3>3
      <4>2. q[k] <= q[j - 1]
        BY <1>0, <2>1, <2>3, <4>1
      <4>3. CASE i < k
        <5>1. i \in 1 .. Len(q)
          BY <2>1, <2>2, <3>0, <4>3
        <5>2. r[i] = q[i] /\ q[i] < f /\ q[i] \in Int /\ q[k] \in Int
          BY <1>0, <2>1, <2>2, <4>3, <5>1
        <5> QED BY <1>0, <2>1, <4>1, <4>2, <5>2
      <4>4. CASE i = k
        BY <1>0, <2>1, <2>2, <4>1, <4>2, <4>4
      <4>5. CASE i > k
        <5>1. i - 1 \in 1 .. Len(q) /\ j - 1 \in 1 .. Len(q) /\ i - 1 < j - 1
          BY <2>1, <2>2, <3>0, <4>1, <4>5
        <5>2. r[i] = q[i - 1]
          BY <2>1, <2>2, <3>0, <4>5
        <5> QED BY <2>3, <4>1, <5>1, <5>2
      <4> QED BY <2>1, <4>3, <4>4, <4>5
    <3> QED BY <2>1, <3>1, <3>2, <3>3
  <2>5. DOMAIN r = 1 .. Len(r)
    BY <2>2
  <2>6. Ascending(r)
    BY <2>4, <2>5 DEF Ascending
  <2> QED BY <1>1, <1>4, <2>6 DEF k, r
<1> QED BY <1>2, <1>3, <1>4

-----------------------------------------------------------------------------
(* The inductive invariant.                                                *)

\* Nobody can have boarded before the controller has set the capacities, the
\* capacities do not change afterwards, and the elevator is on its way only
\* while there is a floor ahead.
ControlInv ==
  /\ cpc = "start" => /\ ele_capacity = 0 /\ weight_capacity = 0
                      /\ \A p \in Person : pc[p] # "done"
  /\ cpc # "start" => ele_capacity = PersonCapacity /\ weight_capacity = WeightCapacity
  /\ cpc = "travel" => state # "Idle" /\ CanMove(current_floor)

\* The shape of a person's trip.
LEMMA TripType ==
  ASSUME TypeOK, NEW p \in Person
  PROVE  /\ InitialFloor(p) \in Floor /\ Destination(p) \in Floor
         /\ trip[p].weight \in Nat /\ trip[p].weight > 0
<1>1. trip[p] \in Trip
  BY ConstantsAssumption DEF TypeOK
<1> QED BY <1>1, ConstantsAssumption DEF Trip, InitialFloor, Destination

LEMMA TypeInit == Init => TypeOK
<1> SUFFICES ASSUME Init PROVE TypeOK
  OBVIOUS
<1>1. prioVector \in [0 .. 0 - 1 -> Int] /\ 0 \in 0 .. NumFloors
  BY ConstantsAssumption DEF Init
<1>2. \E n \in 0 .. NumFloors : prioVector \in [0 .. n - 1 -> Int]
  BY <1>1
<1>3. /\ ex_try \in [Person -> BOOLEAN] /\ first_try \in [Person -> BOOLEAN]
      /\ pc \in [Person -> Points] /\ seen \in [Person -> Int]
  BY DEF Init, Points
<1>4. /\ current_floor \in 0 .. NumFloors /\ next_floor \in -1 .. NumFloors
      /\ destQueue \in Seq(Floor)
  BY ConstantsAssumption DEF Init
<1>5. /\ eleVector \subseteq Person /\ woken \subseteq Waiting(Waits)
      /\ ele_capacity \in {0, PersonCapacity} /\ weight_capacity \in {0, WeightCapacity}
  BY DEF Init
<1>6. current_weight \in Int /\ people_in_ele \in Int /\ active_person \in Int
  BY SMT DEF Init
<1>8. undefined \in BOOLEAN
  BY Zenon DEF Init
<1>7. /\ trip \in Trips /\ state \in {"Idle", "Moving-up", "Moving-down"}
      /\ cpc \in {"start", "idle", "travel", "in_out", "spin", "exit"}
  BY DEF Init
<1> QED BY <1>2, <1>3, <1>4, <1>5, <1>6, <1>7, <1>8 DEF TypeOK

LEMMA TypePersonStep ==
  ASSUME TypeOK, NEW p \in Person, PersonStep(p)
  PROVE  TypeOK'
<1> USE DEF people, lift, load, limits, prio, ctl
<1>0. InitialFloor(p) \in Floor /\ Destination(p) \in Floor
  BY TripType
<1>1. CASE Create(p)
  <2>1. pc' \in [Person -> Points] /\ woken' \subseteq Waiting(Waits)'
    BY <1>1 DEF Create, Points, Goto, TypeOK, Waiting, Waits
  <2> QED BY <1>1, <2>1 DEF Create, TypeOK
<1>3. CASE BumpRead(p)
  <2>1. pc' \in [Person -> Points] /\ woken' \subseteq Waiting(Waits)'
    BY <1>3 DEF BumpRead, Points, Goto, TypeOK, Waiting, Waits
  <2>2. seen' \in [Person -> Int]
    BY <1>3 DEF BumpRead, TypeOK
  <2> QED BY <1>3, <2>1, <2>2 DEF BumpRead, TypeOK
<1>4. CASE BumpWrite(p)
  <2>1. pc' \in [Person -> Points] /\ woken' \subseteq Waiting(Waits)'
    BY <1>4 DEF BumpWrite, Points, Goto, TypeOK, Waiting, Waits
  <2>2. seen' \in [Person -> Int]
    BY <1>4 DEF BumpWrite, TypeOK
  <2>3. \E n \in 0 .. NumFloors : prioVector' \in [0 .. n - 1 -> Int]
    <3>1. PICK n \in 0 .. NumFloors : prioVector \in [0 .. n - 1 -> Int]
      BY DEF TypeOK
    <3>2. seen[p] + 1 \in Int
      BY DEF TypeOK
    <3>3. prioVector' = [prioVector EXCEPT ![InitialFloor(p)] = seen[p] + 1]
      BY <1>4 DEF BumpWrite
    <3>4. prioVector' \in [0 .. n - 1 -> Int]
      BY <3>1, <3>2, <3>3
    <3> QED BY <3>4
  <2> QED BY <1>4, <2>1, <2>2, <2>3 DEF BumpWrite, TypeOK
<1>5. CASE WaitIdle(p)
  <2>1. pc' \in [Person -> Points] /\ woken' \subseteq Waiting(Waits)'
    BY <1>5 DEF WaitIdle, Points, Goto, TypeOK, Waiting, Waits
  <2>2. ex_try' \in [Person -> BOOLEAN]
    BY <1>5 DEF WaitIdle, TypeOK
  <2> QED BY <1>5, <2>1, <2>2 DEF WaitIdle, TypeOK
<1>6. CASE Request(p)
  <2>1. pc' \in [Person -> Points] /\ woken' \subseteq Waiting(Waits)'
    BY <1>6 DEF Request, Points, Goto, TypeOK, Waiting, Waits
  <2>2. ex_try' \in [Person -> BOOLEAN]
    BY <1>6 DEF Request, TypeOK
  <2>3. destQueue' \in Seq(Floor)
    BY <1>0, <1>6, InsertFloorType DEF Request, TypeOK
  <2>4. state' \in {"Idle", "Moving-up", "Moving-down"}
    BY <1>6 DEF Request, ChangeState, TypeOK
  <2> QED BY <1>6, <2>1, <2>2, <2>3, <2>4 DEF Request, TypeOK
<1>2. CASE prioVectorInit(p)
  <2>1. pc' \in [Person -> Points] /\ woken' \subseteq Waiting(Waits)'
    BY <1>2 DEF prioVectorInit, Points, Goto, TypeOK, Waiting, Waits
  <2>2. PICK n \in 0 .. NumFloors : prioVector \in [0 .. n - 1 -> Int]
    BY DEF TypeOK
  <2>3. \E m \in 0 .. NumFloors : prioVector' \in [0 .. m - 1 -> Int]
    <3>1. CASE VectorBuilt
      BY <1>2, <2>2, <3>1 DEF prioVectorInit
    <3>2. CASE ~VectorBuilt
      <4>1. n # NumFloors /\ n + 1 \in 0 .. NumFloors
        BY <2>2, <3>2, ConstantsAssumption DEF VectorBuilt, Floor
      <4>2. Cardinality(DOMAIN prioVector) = n
        BY <2>2, FS_Interval, ConstantsAssumption
      <4>3. prioVector' = [f \in 0 .. n |->
                             IF f \in 0 .. n - 1 THEN prioVector[f] ELSE 0]
        BY <1>2, <2>2, <3>2, <4>2 DEF prioVectorInit
      <4>4. prioVector' \in [0 .. n -> Int]
        BY <2>2, <4>3
      <4>5. 0 .. n = 0 .. (n + 1) - 1
        BY <4>1
      <4> QED BY <4>1, <4>4, <4>5
    <3> QED BY <3>1, <3>2
  <2> QED BY <1>2, <2>1, <2>3 DEF prioVectorInit, TypeOK
<1>7. CASE WaitStop(p)
  <2>1. pc' \in [Person -> Points] /\ woken' \subseteq Waiting(Waits)'
    BY <1>7 DEF WaitStop, Points, Goto, TypeOK, Waiting, Waits
  <2> QED BY <1>7, <2>1 DEF WaitStop, TypeOK
<1>8. CASE RetryIdle(p)
  <2>1. pc' \in [Person -> Points] /\ woken' \subseteq Waiting(Waits)'
    BY <1>8 DEF RetryIdle, Points, Goto, TypeOK, Waiting, Waits
  <2> QED BY <1>8, <2>1 DEF RetryIdle, TypeOK
<1>9. CASE WaitLeavers(p)
  <2>1. pc' \in [Person -> Points] /\ woken' \subseteq Waiting(Waits)'
    BY <1>9 DEF WaitLeavers, Points, Goto, TypeOK, Waiting, Waits
  <2> QED BY <1>9, <2>1 DEF WaitLeavers, TypeOK
<1>10. ASSUME Board(p)
       PROVE  /\ destQueue' \in Seq(Floor)
              /\ state' \in {"Idle", "Moving-up", "Moving-down"}
              /\ eleVector' \subseteq Person
              /\ current_weight' \in Int /\ people_in_ele' \in Int
  <2>1. destQueue' \in Seq(Floor)
    BY <1>0, <1>10, InsertFloorType DEF Board, TypeOK
  <2>2. state' \in {"Idle", "Moving-up", "Moving-down"}
    BY <1>10 DEF Board, ChangeState, TypeOK
  <2>3. trip[p].weight \in Nat
    BY TripType
  <2> QED BY <1>10, <2>1, <2>2, <2>3, SMTT(30) DEF Board, WeightWith, TypeOK
<1>11. CASE HpBoards(p)
  <2>1. pc[p] \notin {"lp_turn"}
    BY <1>11 DEF HpBoards, PastDoor, AtDoor, AtStopTest, Returns
  <2>2. pc' \in [Person -> Points] /\ woken' \subseteq Waiting(Waits)'
    BY <1>11, <2>1 DEF HpBoards, Board, Points, Goto, TypeOK, Waiting, Waits
  <2>3. \E n \in 0 .. NumFloors : prioVector' \in [0 .. n - 1 -> Int]
    <3>1. PICK n \in 0 .. NumFloors : prioVector \in [0 .. n - 1 -> Int]
      BY DEF TypeOK
    <3>2. prioVector' \in [0 .. n - 1 -> Int]
      BY <1>11, <3>1 DEF HpBoards, HasSlot
    <3> QED BY <3>2
  <2> QED BY <1>10, <1>11, <2>2, <2>3 DEF HpBoards, Board, TypeOK
<1>12. CASE LpBoards(p)
  <2>1. pc' \in [Person -> Points] /\ woken' \subseteq Waiting(Waits)'
    BY <1>12 DEF LpBoards, Board, Points, Goto, TypeOK, Waiting, Waits
  <2> QED BY <1>10, <1>12, <2>1 DEF LpBoards, Board, TypeOK
<1>13. CASE HpDenied(p)
  <2>1. pc[p] \notin {"lp_turn"}
    BY <1>13 DEF HpDenied, PastDoor, AtDoor, AtStopTest, Returns
  <2>2. pc' \in [Person -> Points] /\ woken' \subseteq Waiting(Waits)'
    BY <1>13, <2>1 DEF HpDenied, Deny, Points, Goto, TypeOK, Waiting, Waits
  <2>3. ex_try' \in [Person -> BOOLEAN] /\ first_try' \in [Person -> BOOLEAN]
    BY <1>13 DEF HpDenied, Deny, TypeOK
  <2> QED BY <1>13, <2>2, <2>3 DEF HpDenied, Deny, TypeOK
<1>14. CASE LpDenied(p)
  <2>2. pc' \in [Person -> Points] /\ woken' \subseteq Waiting(Waits)'
    BY <1>14 DEF LpDenied, Deny, Points, Goto, TypeOK, Waiting, Waits
  <2>3. ex_try' \in [Person -> BOOLEAN] /\ first_try' \in [Person -> BOOLEAN]
    BY <1>14 DEF LpDenied, Deny, TypeOK
  <2> QED BY <1>14, <2>2, <2>3 DEF LpDenied, Deny, TypeOK
<1>15. CASE WaitTurn(p)
  <2>1. pc' \in [Person -> Points] /\ woken' \subseteq Waiting(Waits)'
    BY <1>15 DEF WaitTurn, Points, Goto, TypeOK, Waiting, Waits
  <2> QED BY <1>15, <2>1 DEF WaitTurn, TypeOK
<1>16. CASE WaitDestination(p)
  <2>1. pc' \in [Person -> Points] /\ woken' \subseteq Waiting(Waits)'
    BY <1>16 DEF WaitDestination, Points, Goto, TypeOK, Waiting, Waits
  <2> QED BY <1>16, <2>1 DEF WaitDestination, TypeOK
<1>17. CASE Leave(p)
  <2>1. pc[p] \notin {"enter_ele"}
    BY <1>17 DEF Leave, AtExitTest, Returns
  <2>2. pc' \in [Person -> Points] /\ woken' \subseteq Waiting(Waits)'
    BY <1>17, <2>1 DEF Leave, Points, Goto, TypeOK, Waiting, Waits
  <2>3. trip[p].weight \in Nat
    BY TripType
  <2>4. current_weight' \in Int /\ people_in_ele' \in Int /\ active_person' \in Int
    <3>1. current_weight \in Int /\ people_in_ele \in Int /\ active_person \in Int
      BY DEF TypeOK
    <3>2. /\ current_weight' = current_weight - trip[p].weight
          /\ people_in_ele' = people_in_ele - 1 /\ active_person' = active_person - 1
      BY <1>17 DEF Leave
    <3> QED BY <2>3, <3>1, <3>2
  <2>5. eleVector' \subseteq Person
    BY <1>17 DEF Leave, TypeOK
  <2> QED BY <1>17, <2>2, <2>4, <2>5 DEF Leave, TypeOK
<1>18. CASE UnbuiltVector(p)
  BY <1>18 DEF UnbuiltVector, TypeOK, Waiting
<1> QED
  BY <1>1, <1>2, <1>3, <1>4, <1>5, <1>6, <1>7, <1>8, <1>9, <1>11, <1>12, <1>13,
     <1>14, <1>15, <1>16, <1>17, <1>18 DEF PersonStep, MonitorStep
\* The outer loop's test.
LEMMA TypeLoopTop ==
  ASSUME TypeOK, NEW active, NEW floor, LoopTop(active, floor, woken), UNCHANGED pc
  PROVE  /\ cpc' \in {"idle", "travel", "spin", "exit"}
         /\ next_floor' \in -1 .. NumFloors
         /\ woken' \subseteq Waiting(Waits)'
         /\ cpc' = "travel" => state # "Idle" /\ CanMove(floor)
<1>1. NextFloors(destQueue) \subseteq -1 .. NumFloors
  <2>1. destQueue # <<>> => /\ destQueue[1] \in Floor
                            /\ destQueue[Len(destQueue)] \in Floor
    BY DEF TypeOK
  <2>2. Floor \subseteq -1 .. NumFloors
    BY ConstantsAssumption DEF Floor
  <2> QED BY <2>1, <2>2 DEF NextFloors
<1>2. Waiting({"is_idle"}) \subseteq Waiting(Waits)
  BY DEF Waiting, Waits
<1>3. Waiting(Waits)' = Waiting(Waits)
  BY DEF Waiting
<1> QED BY <1>1, <1>2, <1>3 DEF LoopTop, TypeOK

LEMMA TypeControllerStep ==
  ASSUME TypeOK, ControlInv, ControllerStep
  PROVE  TypeOK'
<1> USE DEF people, lift, load, limits, prio, ctl
<1>1. CASE ControllerStart
  <2>1. /\ cpc' \in {"idle", "travel", "spin", "exit"}
        /\ next_floor' \in -1 .. NumFloors
        /\ woken' \subseteq Waiting(Waits)'
    BY <1>1, TypeLoopTop DEF ControllerStart
  <2>2. active_person' \in Int
    BY <1>1, ConstantsAssumption DEF ControllerStart
  <2> QED BY <1>1, <2>1, <2>2 DEF ControllerStart, TypeOK
<1>2. CASE IdleEnds
  <2>1. /\ cpc' \in {"idle", "travel", "spin", "exit"}
        /\ next_floor' \in -1 .. NumFloors
        /\ woken' \subseteq Waiting(Waits)'
    BY <1>2, TypeLoopTop DEF IdleEnds
  <2> QED BY <1>2, <2>1 DEF IdleEnds, TypeOK
<1>3. CASE InOutEnds
  <2>1. /\ cpc' \in {"idle", "travel", "spin", "exit"}
        /\ next_floor' \in -1 .. NumFloors
        /\ woken' \subseteq Waiting(Waits)'
    BY <1>3, TypeLoopTop DEF InOutEnds
  <2> QED BY <1>3, <2>1 DEF InOutEnds, TypeOK
<1>4. cpc = "travel" => FloorAhead \in 0 .. NumFloors
  BY ConstantsAssumption DEF ControlInv, CanMove, FloorAhead, TypeOK
<1>5. CASE Pass
  <2>1. cpc = "travel" /\ UNCHANGED pc
    BY <1>5 DEF Pass, Expires
  <2>2. CASE CanMove(FloorAhead)
    <3>1. UNCHANGED <<cpc, next_floor, woken>>
      BY <1>5, <2>2 DEF Pass
    <3> QED BY <1>4, <1>5, <2>1, <3>1 DEF Pass, TypeOK, Waiting
  <2>3. CASE ~CanMove(FloorAhead)
    <3>1. /\ cpc' \in {"idle", "travel", "spin", "exit"}
          /\ next_floor' \in -1 .. NumFloors
          /\ woken' \subseteq Waiting(Waits)'
      BY <1>5, <2>1, <2>3, TypeLoopTop DEF Pass
    <3> QED BY <1>4, <1>5, <2>1, <3>1 DEF Pass, TypeOK
  <2> QED BY <2>2, <2>3
<1>6. CASE Stop
  <2>1. destQueue' \in Seq(Floor)
    BY <1>6 DEF Stop, TypeOK, Front
  <2>2. woken' \subseteq Waiting(Waits)'
    BY <1>6 DEF Stop, TypeOK, Waiting, Waits
  <2>3. current_floor' \in 0 .. NumFloors
    BY <1>4, <1>6 DEF Stop, Expires
  <2>4. state' \in {"Idle", "Moving-up", "Moving-down"}
    BY <1>6 DEF Stop, TypeOK
  <2> QED BY <1>6, <2>1, <2>2, <2>3, <2>4 DEF Stop, TypeOK
<1>7. CASE PopEmpty
  BY <1>7 DEF PopEmpty, TypeOK, Waiting
<1> QED BY <1>1, <1>2, <1>3, <1>5, <1>6, <1>7 DEF ControllerStep
-----------------------------------------------------------------------------
(* Control.                                                                *)

\* A person's step moves the elevator only out of the idle state, and leaves
\* the controller and the capacities alone.
LEMMA PersonFrame ==
  ASSUME NEW p \in Person, PersonStep(p)
  PROVE  /\ UNCHANGED <<trip, current_floor, cpc, next_floor, limits>>
         /\ state # "Idle" => UNCHANGED state
<1> USE DEF people, lift, load, limits, prio, ctl, ChangeState
<1>1. CASE Create(p) \/ prioVectorInit(p) \/ BumpRead(p) \/ BumpWrite(p) \/ UnbuiltVector(p)
  BY <1>1 DEF Create, prioVectorInit, BumpRead, BumpWrite, UnbuiltVector
<1>2. CASE WaitIdle(p) \/ Request(p) \/ WaitStop(p) \/ RetryIdle(p) \/ WaitLeavers(p)
  BY <1>2 DEF WaitIdle, Request, WaitStop, RetryIdle, WaitLeavers
<1>3. CASE HpDenied(p) \/ HpBoards(p) \/ WaitTurn(p) \/ LpDenied(p) \/ LpBoards(p)
  BY <1>3 DEF HpDenied, HpBoards, WaitTurn, LpDenied, LpBoards, Board, Deny
<1>4. CASE WaitDestination(p) \/ Leave(p)
  BY <1>4 DEF WaitDestination, Leave
<1> QED BY <1>1, <1>2, <1>3, <1>4 DEF PersonStep, MonitorStep

\* A step that is neither boarding nor leaving keeps the load, and moves its
\* thread between points outside the elevator or between those inside.
Inside == {"leave", "out_stopped"}

LEMMA LoadFrame ==
  ASSUME TypeOK, NEW p \in Person, PersonStep(p),
         ~HpBoards(p), ~LpBoards(p), ~Leave(p)
  PROVE  /\ UNCHANGED load
         /\ \A q \in Person : pc'[q] \in Inside <=> pc[q] \in Inside
         /\ \A q \in Person : pc'[q] = "done" <=> pc[q] = "done"
<1> USE DEF Goto, Inside, TypeOK
<1>1. CASE Create(p) \/ prioVectorInit(p) \/ BumpRead(p) \/ BumpWrite(p) \/ UnbuiltVector(p)
  BY <1>1 DEF Create, prioVectorInit, BumpRead, BumpWrite, UnbuiltVector
<1>2. CASE WaitIdle(p) \/ Request(p)
  BY <1>2 DEF WaitIdle, Request, MakesRequest, Returns
<1>3. CASE WaitStop(p) \/ RetryIdle(p) \/ WaitLeavers(p)
  BY <1>3 DEF WaitStop, RetryIdle, WaitLeavers, AtDoor, AtStopTest, Returns
<1>4. CASE HpDenied(p)
  BY <1>4 DEF HpDenied, Deny, PastDoor, AtDoor, AtStopTest, Returns
<1>5. CASE LpDenied(p)
  BY <1>5 DEF LpDenied, Deny, LpTurn, PastDoor, AtDoor, AtStopTest, Returns
<1>6. CASE WaitTurn(p)
  BY <1>6 DEF WaitTurn, PastDoor, AtDoor, AtStopTest, Returns
<1>7. CASE WaitDestination(p)
  BY <1>7 DEF WaitDestination, AtExitTest, Returns
<1> QED BY <1>1, <1>2, <1>3, <1>4, <1>5, <1>6, <1>7 DEF PersonStep, MonitorStep
-----------------------------------------------------------------------------
(* The load.                                                               *)

LEMMA PersonFinite ==
  /\ IsFiniteSet(Person) /\ Cardinality(Person) = NumPeople
  /\ \A S \in SUBSET Person : IsFiniteSet(S) /\ Cardinality(S) \in Nat
<1>1. IsFiniteSet(Person) /\ Cardinality(Person) = NumPeople
  <2>1. NumPeople \in Nat /\ NumPeople # 0 /\ NumPeople - 1 \in Int
    BY ConstantsAssumption
  <2>2. /\ IsFiniteSet(0 .. NumPeople - 1)
        /\ Cardinality(0 .. NumPeople - 1) =
             IF 0 > NumPeople - 1 THEN 0 ELSE (NumPeople - 1) - 0 + 1
    BY <2>1, FS_Interval
  <2> QED BY <2>1, <2>2 DEF Person
<1>2. \A S \in SUBSET Person : IsFiniteSet(S)
  BY <1>1, FS_Subset
<1> QED BY <1>1, <1>2, FS_CardinalityType

Unserved == {p \in Person : pc[p] # "done"}

LEMMA LoadInit == Init => LoadInv /\ ControlInv
<1> SUFFICES ASSUME Init PROVE LoadInv /\ ControlInv
  OBVIOUS
<1>1. eleVector = {p \in Person : pc[p] \in {"leave", "out_stopped"}}
  BY DEF Init
<1>2. people_in_ele = Cardinality(eleVector)
  BY FS_EmptySet DEF Init
<1>3. people_in_ele <= ele_capacity /\ current_weight <= weight_capacity
  BY DEF Init
<1> QED BY <1>1, <1>2, <1>3 DEF Init, LoadInv, ControlInv

LEMMA LimitsType ==
  ASSUME TypeOK
  PROVE  ele_capacity \in Int /\ weight_capacity \in Int
<1>1. PersonCapacity \in Int /\ WeightCapacity \in Int
  BY ConstantsAssumption
<1>2. ele_capacity \in {0, PersonCapacity} /\ weight_capacity \in {0, WeightCapacity}
  BY DEF TypeOK
<1> QED BY <1>1, <1>2

\* Boarding, for both priorities: the person was outside and fits.
LEMMA LoadBoard ==
  ASSUME TypeOK, LoadInv, ControlInv, NEW p \in Person,
         Board(p), ~Denied(p), pc[p] \notin {"leave", "out_stopped", "done"}
  PROVE  LoadInv'
<1>1. p \notin eleVector
  BY DEF LoadInv
<1>2. eleVector' = {q \in Person : pc'[q] \in {"leave", "out_stopped"}}
  BY DEF LoadInv, Board, Goto, TypeOK
<1>3. IsFiniteSet(eleVector)
  BY PersonFinite DEF TypeOK
<1>4. people_in_ele' = Cardinality(eleVector')
  BY <1>1, <1>3, FS_AddElement DEF LoadInv, Board
<1>5. UNCHANGED <<ele_capacity, weight_capacity, active_person, cpc>>
  BY DEF Board, limits, ctl
<1>6. /\ trip[p].weight \in Nat /\ ele_capacity \in Int /\ weight_capacity \in Int
      /\ people_in_ele \in Int /\ current_weight \in Int
  BY TripType, LimitsType DEF TypeOK
<1>7. /\ people_in_ele + 1 <= ele_capacity
      /\ current_weight + trip[p].weight <= weight_capacity
  BY <1>6 DEF Denied, WeightWith
<1>8. people_in_ele' <= ele_capacity' /\ current_weight' <= weight_capacity'
  BY <1>5, <1>7 DEF Board, WeightWith
<1>9. Unserved' = Unserved
  BY DEF Unserved, Board, Goto, TypeOK
<1> QED BY <1>2, <1>4, <1>5, <1>8, <1>9 DEF LoadInv, Unserved

LEMMA LoadLeave ==
  ASSUME TypeOK, LoadInv, ControlInv, NEW p \in Person, Leave(p)
  PROVE  LoadInv' /\ cpc # "start"
<1>1. p \in eleVector /\ pc[p] # "done"
  BY DEF LoadInv, Leave, AtExitTest, Returns
<1>2. IsFiniteSet(eleVector) /\ Cardinality(eleVector) \in Nat
  BY PersonFinite DEF TypeOK
<1>3. Cardinality(eleVector) # 0
  BY <1>1, <1>2, FS_EmptySet
<1>4. cpc # "start"
  BY <1>2, <1>3 DEF LoadInv, ControlInv
<1>5. eleVector' = {q \in Person : pc'[q] \in {"leave", "out_stopped"}}
  BY DEF LoadInv, Leave, Goto, TypeOK
<1>6. people_in_ele' = Cardinality(eleVector')
  BY <1>1, <1>2, FS_RemoveElement DEF LoadInv, Leave
<1>7. UNCHANGED <<ele_capacity, weight_capacity, cpc>>
  BY DEF Leave, limits, ctl
<1>8. /\ trip[p].weight \in Nat /\ ele_capacity \in Int /\ weight_capacity \in Int
      /\ people_in_ele \in Int /\ current_weight \in Int
  BY TripType, LimitsType DEF TypeOK
<1>9. people_in_ele' <= ele_capacity' /\ current_weight' <= weight_capacity'
  BY <1>7, <1>8 DEF LoadInv, Leave
<1>10. Unserved' = Unserved \ {p} /\ p \in Unserved
  BY <1>1 DEF Unserved, Leave, Goto, TypeOK
<1>11. IsFiniteSet(Unserved) /\ Cardinality(Unserved) \in Nat
  BY PersonFinite DEF Unserved
<1>12. active_person' = Cardinality(Unserved')
  BY <1>4, <1>10, <1>11, FS_RemoveElement DEF LoadInv, Leave, Unserved
<1> QED BY <1>4, <1>5, <1>6, <1>9, <1>12 DEF LoadInv, Unserved

LEMMA LoadPersonStep ==
  ASSUME TypeOK, LoadInv, ControlInv, NEW p \in Person, PersonStep(p)
  PROVE  LoadInv' /\ ControlInv'
<1>1. /\ UNCHANGED <<trip, current_floor, cpc, next_floor, ele_capacity, weight_capacity>>
      /\ state # "Idle" => UNCHANGED state
  BY PersonFrame DEF limits
<1>2. /\ cpc # "start" => ele_capacity' = PersonCapacity /\ weight_capacity' = WeightCapacity
      /\ cpc = "start" => ele_capacity' = 0 /\ weight_capacity' = 0
      /\ cpc = "travel" => state' # "Idle" /\ CanMove(current_floor)'
  BY <1>1 DEF ControlInv, CanMove
<1>3. CASE HpBoards(p) \/ LpBoards(p)
  <2>1. pc[p] \notin {"leave", "out_stopped", "done"}
    BY <1>3 DEF HpBoards, LpBoards, LpTurn, PastDoor, AtDoor, AtStopTest, Returns
  <2>2. LoadInv'
    BY <1>3, <2>1, LoadBoard DEF HpBoards, LpBoards
  <2>3. \A q \in Person : pc'[q] = "done" => pc[q] = "done"
    BY <1>3 DEF HpBoards, LpBoards, Board, Goto, TypeOK
  <2> QED BY <1>1, <1>2, <2>2, <2>3 DEF ControlInv
<1>4. CASE Leave(p)
  BY <1>1, <1>2, <1>4, LoadLeave DEF ControlInv
<1>5. CASE ~HpBoards(p) /\ ~LpBoards(p) /\ ~Leave(p)
  <2>1. /\ UNCHANGED load
        /\ \A q \in Person : pc'[q] \in Inside <=> pc[q] \in Inside
        /\ \A q \in Person : pc'[q] = "done" <=> pc[q] = "done"
    BY <1>5, LoadFrame
  <2>2. Unserved' = Unserved
    BY <2>1 DEF Unserved
  <2>3. eleVector' = {q \in Person : pc'[q] \in {"leave", "out_stopped"}}
    BY <2>1 DEF LoadInv, Inside, load
  <2>4. LoadInv'
    BY <1>1, <2>1, <2>2, <2>3 DEF LoadInv, load, Unserved
  <2> QED BY <1>1, <1>2, <2>1, <2>4 DEF ControlInv
<1> QED BY <1>3, <1>4, <1>5

LEMMA LoadControllerStep ==
  ASSUME TypeOK, LoadInv, ControlInv, ControllerStep
  PROVE  LoadInv' /\ ControlInv'
<1> USE DEF people, lift, load, limits, prio, ctl
<1>1. UNCHANGED <<pc, current_weight, people_in_ele, eleVector>>
  BY DEF ControllerStep, ControllerStart, IdleEnds, Pass, Stop, PopEmpty, InOutEnds
<1>2. CASE ControllerStart
  <2>1. /\ cpc' \in {"idle", "travel", "spin", "exit"}
        /\ cpc' = "travel" => state # "Idle" /\ CanMove(current_floor)
    BY <1>1, <1>2, TypeLoopTop DEF ControllerStart
  <2>2. Unserved = Person
    BY <1>2 DEF Unserved, ControlInv, ControllerStart
  <2>3. active_person' = Cardinality(Unserved')
    BY <1>1, <1>2, <2>2, PersonFinite DEF ControllerStart, Unserved
  <2>4. people_in_ele <= 0 /\ current_weight <= 0
    BY <1>2 DEF LoadInv, ControlInv, ControllerStart
  <2>5. people_in_ele <= PersonCapacity /\ current_weight <= WeightCapacity
    BY <2>4, ConstantsAssumption DEF TypeOK
  <2>6. LoadInv'
    BY <1>1, <1>2, <2>1, <2>3, <2>5 DEF LoadInv, ControllerStart, Unserved
  <2>7. UNCHANGED <<state, current_floor>>
    BY <1>2 DEF ControllerStart
  <2> QED BY <1>2, <2>1, <2>6, <2>7 DEF ControlInv, ControllerStart, CanMove
<1>3. CASE ~ControllerStart
  <2>1. UNCHANGED <<active_person, ele_capacity, weight_capacity>> /\ cpc # "start"
    BY <1>3 DEF ControllerStep, IdleEnds, Pass, Stop, PopEmpty, InOutEnds, Expires
  <2>2. cpc' # "start" /\ (cpc' = "travel" => state' # "Idle" /\ CanMove(current_floor)')
    <3>1. CASE IdleEnds \/ InOutEnds
      <4>1. /\ cpc' \in {"idle", "travel", "spin", "exit"}
            /\ cpc' = "travel" => state # "Idle" /\ CanMove(current_floor)
        BY <1>1, <3>1, TypeLoopTop DEF IdleEnds, InOutEnds
      <4>2. UNCHANGED <<state, current_floor>>
        BY <3>1 DEF IdleEnds, InOutEnds
      <4> QED BY <4>1, <4>2 DEF CanMove
    <3>2. CASE Pass
      <4>1. UNCHANGED state /\ current_floor' = FloorAhead /\ cpc = "travel"
        BY <3>2 DEF Pass, Expires
      <4>2. CASE CanMove(FloorAhead)
        BY <3>2, <4>1, <4>2 DEF Pass, CanMove, ControlInv
      <4>3. CASE ~CanMove(FloorAhead)
        <5>1. /\ cpc' \in {"idle", "travel", "spin", "exit"}
              /\ cpc' = "travel" => CanMove(FloorAhead)
          BY <1>1, <3>2, <4>3, TypeLoopTop DEF Pass
        <5> QED BY <4>3, <5>1
      <4> QED BY <4>2, <4>3
    <3>3. CASE Stop
      BY <3>3 DEF Stop
    <3>4. CASE PopEmpty
      BY <2>1, <3>4 DEF PopEmpty, ControlInv, CanMove
    <3> QED BY <1>3, <3>1, <3>2, <3>3, <3>4 DEF ControllerStep
  <2>3. LoadInv'
    BY <1>1, <2>1, <2>2 DEF LoadInv
  <2> QED BY <2>1, <2>2, <2>3 DEF ControlInv
<1> QED BY <1>2, <1>3
-----------------------------------------------------------------------------
(* The queue.                                                              *)

LEMMA QueuePersonStep ==
  ASSUME TypeOK, Ascending(destQueue), NEW p \in Person, PersonStep(p)
  PROVE  Ascending(destQueue')
<1> USE DEF people, lift, load, limits, prio, ctl
<1>1. InitialFloor(p) \in Floor /\ Destination(p) \in Floor /\ destQueue \in Seq(Floor)
  BY TripType DEF TypeOK
<1>2. /\ Ascending(InsertFloor(destQueue, InitialFloor(p)))
      /\ Ascending(InsertFloor(destQueue, Destination(p)))
  BY <1>1, InsertFloorAscending
<1>3. CASE Request(p)
  BY <1>2, <1>3 DEF Request
<1>4. CASE HpBoards(p) \/ LpBoards(p)
  BY <1>2, <1>4 DEF HpBoards, LpBoards, Board
<1>5. CASE Create(p) \/ prioVectorInit(p) \/ BumpRead(p) \/ BumpWrite(p) \/ UnbuiltVector(p)
  BY <1>5 DEF Create, prioVectorInit, BumpRead, BumpWrite, UnbuiltVector
<1>6. CASE WaitIdle(p) \/ WaitStop(p) \/ RetryIdle(p) \/ WaitLeavers(p)
  BY <1>6 DEF WaitIdle, WaitStop, RetryIdle, WaitLeavers
<1>7. CASE HpDenied(p) \/ WaitTurn(p) \/ LpDenied(p) \/ WaitDestination(p) \/ Leave(p)
  BY <1>7 DEF HpDenied, WaitTurn, LpDenied, Deny, WaitDestination, Leave
<1> QED BY <1>3, <1>4, <1>5, <1>6, <1>7 DEF PersonStep, MonitorStep

\* Taking either end off a queue keeps it ascending.
LEMMA EndsAscending ==
  ASSUME NEW q \in Seq(Floor), Ascending(q), q # <<>>
  PROVE  Ascending(Tail(q)) /\ Ascending(Front(q))
<1>1. \A i, j \in 1 .. Len(q) : i < j => q[i] < q[j]
  BY DEF Ascending
<1>2. Ascending(Tail(q))
  BY <1>1 DEF Ascending
<1>3. DOMAIN Front(q) = 1 .. Len(q) - 1 /\ \A i \in 1 .. Len(q) - 1 : Front(q)[i] = q[i]
  BY DEF Front
<1>4. Ascending(Front(q))
  BY <1>1, <1>3 DEF Ascending
<1> QED BY <1>2, <1>4

LEMMA QueueControllerStep ==
  ASSUME TypeOK, Ascending(destQueue), ControllerStep
  PROVE  Ascending(destQueue')
<1> USE DEF people, lift, load, limits, prio, ctl
<1>1. CASE Stop
  BY <1>1, EndsAscending DEF Stop, TypeOK
<1>2. CASE ControllerStart \/ IdleEnds \/ Pass \/ PopEmpty \/ InOutEnds
  BY <1>2 DEF ControllerStart, IdleEnds, Pass, PopEmpty, InOutEnds
<1> QED BY <1>1, <1>2 DEF ControllerStep

-----------------------------------------------------------------------------
(* The theorems.                                                           *)

IInv == TypeOK /\ LoadInv /\ ControlInv /\ Ascending(destQueue)

LEMMA InitIInv == Init => IInv
<1>1. Init => Ascending(destQueue)
  BY DEF Init, Ascending
<1> QED BY <1>1, TypeInit, LoadInit DEF IInv

LEMMA NextIInv == IInv /\ [Next]_vars => IInv'
<1> SUFFICES ASSUME IInv, [Next]_vars PROVE IInv'
  OBVIOUS
<1> USE DEF IInv
<1>1. ASSUME NEW p \in Person, PersonStep(p) PROVE IInv'
  <2>1. TypeOK'
    BY <1>1, TypePersonStep
  <2>2. LoadInv' /\ ControlInv'
    BY <1>1, LoadPersonStep
  <2>3. Ascending(destQueue)'
    BY <1>1, QueuePersonStep
  <2> QED BY <2>1, <2>2, <2>3
<1>2. CASE ControllerStep
  <2>1. TypeOK'
    BY <1>2, TypeControllerStep
  <2>2. LoadInv' /\ ControlInv'
    BY <1>2, LoadControllerStep
  <2>3. Ascending(destQueue)'
    BY <1>2, QueueControllerStep
  <2> QED BY <2>1, <2>2, <2>3
<1>3. CASE UNCHANGED vars
  <2> USE <1>3 DEF vars, people, lift, load, limits, prio, ctl
  <2>1. TypeOK'
    BY DEF TypeOK, Waiting
  <2>2. LoadInv'
    BY DEF LoadInv
  <2>3. ControlInv'
    BY DEF ControlInv, CanMove
  <2> QED BY <2>1, <2>2, <2>3
<1> QED BY <1>1, <1>2, <1>3 DEF Next, Joined

LEMMA Inductive == Spec => []IInv
<1> QED BY InitIInv, NextIInv, PTL DEF Spec

\* Every variable keeps its type, for every input and schedule: in particular
\* prioVector grows to the number of floors and no further (line 330) and the
\* elevator never leaves the range 0 .. NumFloors.
THEOREM Typing == Spec => []TypeOK
<1>1. IInv => TypeOK
  BY DEF IInv
<1> QED BY <1>1, Inductive, PTL

\* Neither capacity is exceeded and the counters of persons inside and of
\* persons to be served agree with where the threads are (lines 204-211,
\* 224-229, 243-250).
THEOREM LoadCorrect == Spec => []LoadInv
<1>1. IInv => LoadInv
  BY DEF IInv
<1> QED BY <1>1, Inductive, PTL

\* The queue of stops is sorted and has no duplicates (lines 126-141).
THEOREM QueueAscending == Spec => []QueueSorted
<1>1. IInv => QueueSorted
  BY DEF IInv, Ascending, QueueSorted
<1> QED BY <1>1, Inductive, PTL
-----------------------------------------------------------------------------
(* The weight.                                                             *)

\* Weight sums by a recursive function on the subsets of S, in an order that
\* CHOOSE fixes.
Some(S) == CHOOSE x \in S : TRUE
IsSum(g, t, S) ==
  g = [s \in SUBSET S |-> IF s = {} THEN 0 ELSE t[Some(s)].weight + g[s \ {Some(s)}]]

LEMMA WeightUnfold ==
  ASSUME NEW t, NEW S
  PROVE  Weight(t, S) = (CHOOSE g : IsSum(g, t, S))[S]
BY Zenon DEF Weight, MapThenSumSet, MapThenFoldSet, IsSum, Some

\* What a sum over the sets of persons with at most n members has to satisfy,
\* whichever member is taken first.
Weighs(t) == \A p \in Person : t[p].weight \in Nat
AdditiveTo(f, t, n) ==
  /\ f \in [SUBSET Person -> Nat]
  /\ f[{}] = 0
  /\ \A s \in SUBSET Person : Cardinality(s) <= n =>
       \A x \in s : f[s] = t[x].weight + f[s \ {x}]

\* Taking a person out of a set.
LEMMA Without ==
  ASSUME NEW s \in SUBSET Person, NEW x \in s
  PROVE  /\ s \ {x} \in SUBSET Person
         /\ Cardinality(s) \in Nat /\ Cardinality(s \ {x}) = Cardinality(s) - 1
<1>1. IsFiniteSet(s) /\ Cardinality(s) \in Nat
  BY PersonFinite
<1> QED BY <1>1, FS_RemoveElement

\* One more member: the order in which two are taken out makes no difference.
LEMMA AdditiveStep ==
  ASSUME NEW t, Weighs(t), NEW n \in Nat, NEW f, AdditiveTo(f, t, n)
  PROVE  \E g : AdditiveTo(g, t, n + 1)
<1> DEFINE body(s) == IF Cardinality(s) <= n THEN f[s]
                      ELSE t[Some(s)].weight + f[s \ {Some(s)}]
           g == [s \in SUBSET Person |-> body(s)]
<1>1. \A s \in SUBSET Person : s # {} => Some(s) \in s
  BY Zenon DEF Some
<1>2. \A s \in SUBSET Person : Cardinality(s) \in Nat
  BY PersonFinite
<1>3. {} \in SUBSET Person /\ Cardinality({}) = 0
  BY FS_EmptySet
<1>4. f \in [SUBSET Person -> Nat] /\ f[{}] = 0
  BY DEF AdditiveTo
<1>5. g \in [SUBSET Person -> Nat]
  <2> SUFFICES ASSUME NEW s \in SUBSET Person PROVE body(s) \in Nat
    OBVIOUS
  <2>1. CASE Cardinality(s) <= n
    BY <1>4, <2>1
  <2>2. CASE ~ (Cardinality(s) <= n)
    <3>1. s # {}
      BY <1>3, <2>2
    <3>2. Some(s) \in s
      BY <1>1, <3>1
    <3>3. t[Some(s)].weight \in Nat /\ f[s \ {Some(s)}] \in Nat
      BY <1>4, <3>2, Without DEF Weighs
    <3> QED BY <2>2, <3>3
  <2> QED BY <2>1, <2>2
<1>6. g[{}] = 0
  BY <1>3, <1>4
<1>7. ASSUME NEW s \in SUBSET Person, Cardinality(s) <= n + 1, NEW x \in s
      PROVE  g[s] = t[x].weight + g[s \ {x}]
  <2>1. /\ s \ {x} \in SUBSET Person /\ Cardinality(s) \in Nat
        /\ Cardinality(s \ {x}) = Cardinality(s) - 1
    BY Without
  <2>2. g[s \ {x}] = f[s \ {x}]
    BY <1>7, <2>1
  <2>3. CASE Cardinality(s) <= n
    BY <2>2, <2>3 DEF AdditiveTo
  <2>4. CASE ~ (Cardinality(s) <= n)
    <3>1. Some(s) \in s
      BY <1>1
    <3> DEFINE c == Some(s)
    <3>2. g[s] = t[c].weight + f[s \ {c}]
      BY <2>4
    <3>3. CASE c = x
      BY <2>2, <3>2, <3>3
    <3>4. CASE c # x
      <4>1. s \ {c} \in SUBSET Person /\ Cardinality(s \ {c}) = Cardinality(s) - 1
        BY <3>1, Without
      <4>2. f[s \ {c}] = t[x].weight + f[(s \ {c}) \ {x}]
        BY <1>7, <2>1, <3>4, <4>1 DEF AdditiveTo
      <4>3. f[s \ {x}] = t[c].weight + f[(s \ {x}) \ {c}]
        BY <1>7, <2>1, <3>1, <3>4 DEF AdditiveTo
      <4>4. (s \ {c}) \ {x} = (s \ {x}) \ {c}
        OBVIOUS
      <4>5. PICK r : r = f[(s \ {c}) \ {x}]
        OBVIOUS
      <4>6. r \in Nat
        BY <1>4, <4>1, <4>5
      <4>7. t[x].weight \in Nat /\ t[c].weight \in Nat
        BY <3>1 DEF Weighs
      <4> HIDE DEF c, g
      <4>8. g[s] = t[c].weight + (t[x].weight + r)
        BY <3>2, <4>2, <4>5
      <4>9. g[s \ {x}] = t[c].weight + r
        BY <2>2, <4>3, <4>4, <4>5
      <4> QED BY <4>6, <4>7, <4>8, <4>9
    <3> QED BY <3>3, <3>4
  <2> QED BY <2>3, <2>4
<1> HIDE DEF g
<1> QED BY <1>5, <1>6, <1>7, ZenonT(40) DEF AdditiveTo

LEMMA AdditiveExists ==
  ASSUME NEW t, Weighs(t)
  PROVE  \A n \in Nat : \E f : AdditiveTo(f, t, n)
<1> DEFINE Bad == {n \in Nat : ~ \E f : AdditiveTo(f, t, n)}
<1> SUFFICES ASSUME Bad # {} PROVE FALSE
  OBVIOUS
<1>1. PICK n \in Bad : \A m \in Bad : n <= m
  <2> HIDE DEF Bad
  <2>1. Bad \subseteq Nat
    BY DEF Bad
  <2> QED BY <2>1, LeastNat, Zenon
<1>2. CASE n = 0
  <2> DEFINE f == [s \in SUBSET Person |-> 0]
  <2>1. ASSUME NEW s \in SUBSET Person, Cardinality(s) <= 0 PROVE s = {}
    BY <2>1, PersonFinite, FS_EmptySet
  <2>2. AdditiveTo(f, t, 0)
    BY <2>1 DEF AdditiveTo
  <2> QED BY <1>2, <2>2
<1>3. CASE n # 0
  <2>1. n - 1 \in Nat /\ ~ (n <= n - 1) /\ (n - 1) + 1 = n
    BY <1>1, <1>3
  <2>2. n - 1 \notin Bad
    BY <1>1, <2>1
  <2>3. PICK f : AdditiveTo(f, t, n - 1)
    BY <2>1, <2>2
  <2> QED BY <1>1, <2>1, <2>3, AdditiveStep
<1> QED BY <1>2, <1>3

\* The sum over a set of persons, by whichever member is taken out first.
LEMMA WeightOf ==
  ASSUME NEW t, Weighs(t)
  PROVE  /\ Weight(t, {}) = 0
         /\ \A S \in SUBSET Person : \A x \in S :
              Weight(t, S) \in Nat /\ Weight(t, S \ {x}) \in Nat
              /\ Weight(t, S) = t[x].weight + Weight(t, S \ {x})
<1>1. PICK f : AdditiveTo(f, t, NumPeople)
  BY AdditiveExists, ConstantsAssumption
<1>2. f \in [SUBSET Person -> Nat] /\ f[{}] = 0
  BY <1>1 DEF AdditiveTo
<1>3. ASSUME NEW s \in SUBSET Person, NEW x \in s
      PROVE  f[s] = t[x].weight + f[s \ {x}]
  <2>1. Cardinality(s) <= NumPeople
    BY PersonFinite, FS_Subset
  <2> QED BY <1>1, <2>1 DEF AdditiveTo
<1>4. ASSUME NEW S \in SUBSET Person PROVE Weight(t, S) = f[S]
  <2>1. \A s \in SUBSET S : s # {} => Some(s) \in s
    BY Zenon DEF Some
  <2> DEFINE h == [s \in SUBSET S |-> f[s]]
  <2>2. IsSum(h, t, S)
    <3>1. ASSUME NEW s \in SUBSET S
          PROVE  f[s] = IF s = {} THEN 0 ELSE t[Some(s)].weight + h[s \ {Some(s)}]
      <4>1. CASE s = {}
        BY <1>2, <4>1
      <4>2. CASE s # {}
        <5>1. Some(s) \in s /\ s \in SUBSET Person
          BY <2>1, <4>2
        <5>2. f[s] = t[Some(s)].weight + f[s \ {Some(s)}]
          BY <1>3, <5>1
        <5>3. h[s \ {Some(s)}] = f[s \ {Some(s)}]
          OBVIOUS
        <5> QED BY <4>2, <5>2, <5>3
      <4> QED BY <4>1, <4>2
    <3> QED BY <3>1 DEF IsSum
  <2> DEFINE g == CHOOSE g : IsSum(g, t, S)
  <2>3. IsSum(g, t, S)
    BY <2>2, Zenon
  <2> HIDE DEF g
  <2> DEFINE Sizes == {Cardinality(s) : s \in {r \in SUBSET S : g[r] # f[r]}}
  <2>4. Sizes = {}
    <3> SUFFICES ASSUME Sizes # {} PROVE FALSE
      OBVIOUS
    <3>1. Sizes \subseteq Nat
      BY PersonFinite
    <3>2. PICK m \in Sizes : \A k \in Sizes : m <= k
      <4> HIDE DEF Sizes
      <4> QED BY <3>1, LeastNat, Zenon
    <3>3. PICK s \in SUBSET S : g[s] # f[s] /\ m = Cardinality(s)
      BY <3>2
    <3>4. g[s] = IF s = {} THEN 0 ELSE t[Some(s)].weight + g[s \ {Some(s)}]
      BY <2>3 DEF IsSum
    <3>5. s # {}
      BY <1>2, <3>3, <3>4
    <3>6. Some(s) \in s /\ s \in SUBSET Person
      BY <2>1, <3>5
    <3>7. f[s] = t[Some(s)].weight + f[s \ {Some(s)}]
      BY <1>3, <3>6
    <3>8. g[s \ {Some(s)}] # f[s \ {Some(s)}]
      BY <3>3, <3>4, <3>5, <3>7
    <3>9. Cardinality(s \ {Some(s)}) \in Sizes
      BY <3>8
    <3>10. Cardinality(s) \in Nat /\ Cardinality(s \ {Some(s)}) = Cardinality(s) - 1
      BY <3>6, Without
    <3> QED BY <3>2, <3>3, <3>9, <3>10
  <2>5. g[S] = f[S]
    BY <2>4
  <2> QED BY <2>5, WeightUnfold DEF g
<1>5. Weight(t, {}) = 0
  BY <1>2, <1>4
<1>6. ASSUME NEW S \in SUBSET Person, NEW x \in S
      PROVE  /\ Weight(t, S) \in Nat /\ Weight(t, S \ {x}) \in Nat
             /\ Weight(t, S) = t[x].weight + Weight(t, S \ {x})
  <2>1. S \ {x} \in SUBSET Person
    OBVIOUS
  <2> QED BY <1>2, <1>3, <1>4, <2>1
<1> QED BY <1>5, <1>6

LEMMA WeightStep ==
  ASSUME IInv, WeightInv, [Next]_vars
  PROVE  WeightInv'
<1> USE DEF people, lift, load, limits, prio, ctl
<1>1. Weighs(trip) /\ eleVector \in SUBSET Person /\ current_weight \in Int
  BY TripType DEF IInv, TypeOK, Weighs
<1>2. current_weight = Weight(trip, eleVector)
  BY DEF WeightInv
<1>3. WeightInv' <=> current_weight' = Weight(trip', eleVector')
  BY DEF WeightInv
<1>4. SUFFICES current_weight' = Weight(trip', eleVector')
  BY <1>3
<1>5. ASSUME NEW p \in Person, PersonStep(p), HpBoards(p) \/ LpBoards(p)
      PROVE  current_weight' = Weight(trip', eleVector')
  <2>1. Board(p) /\ pc[p] \notin {"leave", "out_stopped"}
    BY <1>5 DEF HpBoards, LpBoards, LpTurn, PastDoor, AtDoor, AtStopTest, Returns
  <2>2. p \notin eleVector
    BY <2>1 DEF IInv, LoadInv
  <2>3. (eleVector \cup {p}) \ {p} = eleVector /\ eleVector \cup {p} \in SUBSET Person
    BY <1>1, <2>2
  <2>4. Weight(trip, eleVector \cup {p}) = trip[p].weight + Weight(trip, eleVector)
    BY <1>1, <2>3, WeightOf
  <2>5. /\ trip' = trip /\ eleVector' = eleVector \cup {p}
        /\ current_weight' = current_weight + trip[p].weight
    BY <2>1 DEF Board, WeightWith
  <2>6. trip[p].weight \in Nat
    BY <1>1 DEF Weighs
  <2> QED BY <1>1, <1>2, <2>4, <2>5, <2>6
<1>6. ASSUME NEW p \in Person, Leave(p)
      PROVE  current_weight' = Weight(trip', eleVector')
  <2>1. p \in eleVector
    BY <1>6 DEF IInv, LoadInv, Leave, AtExitTest, Returns
  <2>2. /\ Weight(trip, eleVector) = trip[p].weight + Weight(trip, eleVector \ {p})
        /\ Weight(trip, eleVector \ {p}) \in Nat
    BY <1>1, <2>1, WeightOf, ZenonT(40)
  <2>3. /\ trip' = trip /\ eleVector' = eleVector \ {p}
        /\ current_weight' = current_weight - trip[p].weight
    BY <1>6 DEF Leave
  <2>4. trip[p].weight \in Nat
    BY <1>1 DEF Weighs
  <2> QED BY <1>2, <2>2, <2>3, <2>4
<1>7. ASSUME NEW p \in Person, PersonStep(p), ~HpBoards(p), ~LpBoards(p), ~Leave(p)
      PROVE  UNCHANGED <<trip, current_weight, eleVector>>
  BY <1>7, LoadFrame, PersonFrame DEF IInv
<1>8. CASE ControllerStep
  BY <1>2, <1>8 DEF ControllerStep, ControllerStart, IdleEnds, Pass, Stop, PopEmpty, InOutEnds
<1>9. CASE UNCHANGED vars
  BY <1>2, <1>9 DEF vars
<1>10. ASSUME NEW p \in Person, PersonStep(p)
       PROVE  current_weight' = Weight(trip', eleVector')
  BY <1>2, <1>5, <1>6, <1>7, <1>10
<1>11. CASE Joined
  BY <1>2, <1>11 DEF Joined, vars
<1> QED BY <1>8, <1>9, <1>10, <1>11 DEF Next

LEMMA WeightFirst == Init => WeightInv
<1> SUFFICES ASSUME Init PROVE WeightInv
  OBVIOUS
<1>1. TypeOK
  BY TypeInit
<1>2. Weighs(trip)
  BY <1>1, TripType DEF Weighs
<1>3. current_weight = 0 /\ eleVector = {}
  BY DEF Init
<1>4. Weight(trip, {}) = 0
  BY <1>2, WeightOf
<1> QED BY <1>3, <1>4 DEF WeightInv

\* current_weight, which decides who may board, is always the sum of the
\* weights of the persons inside, whatever the order in which they came and
\* left (lines 204-211, 224-229, 243-250).
THEOREM WeightCorrect == Spec => []WeightInv
<1>1. IInv /\ WeightInv /\ [Next]_vars => WeightInv'
  BY WeightStep
<1> QED BY <1>1, WeightFirst, Inductive, PTL DEF Spec
-----------------------------------------------------------------------------
(* The prompt schedule: the queue as a set of floors.                      *)

In(q, f) == \E i \in DOMAIN q : q[i] = f

LEMMA InInsert ==
  ASSUME NEW q \in Seq(Floor), NEW f \in Floor, NEW g
  PROVE  In(InsertFloor(q, f), g) <=> In(q, g) \/ g = f
<1>1. InsertFloor(q, f) = IF Place(q, f) = 0 THEN Append(q, f)
                          ELSE IF q[Place(q, f)] = f THEN q
                          ELSE InsertAt(q, Place(q, f), f)
  BY DEF InsertFloor, Place
<1>2. Place(q, f) = 0 \/ Place(q, f) \in 1 .. Len(q)
  BY PlaceFound
<1>3. In(Append(q, f), g) <=> In(q, g) \/ g = f
  <2>1. /\ DOMAIN Append(q, f) = 1 .. Len(q) + 1 /\ DOMAIN q = 1 .. Len(q)
        /\ Append(q, f)[Len(q) + 1] = f
        /\ \A i \in 1 .. Len(q) : Append(q, f)[i] = q[i]
    OBVIOUS
  <2> QED BY <2>1 DEF In
<1>4. ASSUME NEW k \in 1 .. Len(q)
      PROVE  In(InsertAt(q, k, f), g) <=> In(q, g) \/ g = f
  <2> DEFINE r == InsertAt(q, k, f)
  <2>1. /\ DOMAIN r = 1 .. Len(q) + 1 /\ DOMAIN q = 1 .. Len(q)
        /\ \A i \in 1 .. Len(q) + 1 : r[i] = IF i < k THEN q[i]
                                             ELSE IF i = k THEN f ELSE q[i - 1]
    BY DEF InsertAt
  <2> HIDE DEF r
  <2>2. r[k] = f /\ k \in DOMAIN r
    BY <2>1
  <2>3. ASSUME NEW i \in DOMAIN q PROVE In(r, q[i])
    <3>1. CASE i < k
      BY <2>1, <3>1 DEF In
    <3>2. CASE i >= k
      <4>1. i + 1 \in 1 .. Len(q) + 1 /\ ~ (i + 1 < k) /\ i + 1 # k /\ (i + 1) - 1 = i
        BY <2>1, <3>2
      <4>2. r[i + 1] = q[i]
        BY <2>1, <4>1
      <4> QED BY <2>1, <4>1, <4>2 DEF In
    <3> QED BY <2>1, <3>1, <3>2
  <2>4. ASSUME NEW i \in DOMAIN r PROVE In(q, r[i]) \/ r[i] = f
    <3>1. CASE i < k
      BY <2>1, <3>1 DEF In
    <3>2. CASE i = k
      BY <2>1, <3>2
    <3>3. CASE i > k
      <4>1. i - 1 \in 1 .. Len(q) /\ r[i] = q[i - 1]
        BY <2>1, <3>3
      <4> QED BY <2>1, <4>1 DEF In
    <3> QED BY <2>1, <3>1, <3>2, <3>3
  <2>5. In(r, g) <=> In(q, g) \/ g = f
    BY <2>2, <2>3, <2>4 DEF In
  <2> QED BY <2>5 DEF r
<1>5. CASE Place(q, f) # 0 /\ q[Place(q, f)] = f
  <2>1. In(q, f)
    BY <1>2, <1>5 DEF In
  <2> QED BY <1>1, <1>5, <2>1
<1> QED BY <1>1, <1>2, <1>3, <1>4, <1>5

\* The ends of an ascending queue are its extremes, and taking one off takes
\* that floor out.
LEMMA InEnds ==
  ASSUME NEW q \in Seq(Floor), Ascending(q), q # <<>>
  PROVE  /\ q[1] \in Floor /\ q[Len(q)] \in Floor
         /\ In(q, q[1]) /\ In(q, q[Len(q)])
         /\ \A g : In(q, g) => q[1] <= g /\ g <= q[Len(q)]
         /\ \A g : In(Tail(q), g) <=> In(q, g) /\ g # q[1]
         /\ \A g : In(Front(q), g) <=> In(q, g) /\ g # q[Len(q)]
<1>1. /\ Len(q) \in Nat \ {0} /\ DOMAIN q = 1 .. Len(q)
      /\ \A i \in 1 .. Len(q) : q[i] \in Floor
  OBVIOUS
<1>2. \A i \in 1 .. Len(q) : q[i] \in Int
  BY <1>1, ConstantsAssumption DEF Floor
<1>3. \A i, j \in 1 .. Len(q) : i < j => q[i] < q[j]
  BY <1>1 DEF Ascending
<1>4. \A i \in 1 .. Len(q) : 1 < i => q[1] < q[i]
  BY <1>1, <1>3
<1>5. \A i \in 1 .. Len(q) : i < Len(q) => q[i] < q[Len(q)]
  BY <1>1, <1>3
<1>6. \A g : In(q, g) => q[1] <= g /\ g <= q[Len(q)]
  <2> SUFFICES ASSUME NEW i \in 1 .. Len(q) PROVE q[1] <= q[i] /\ q[i] <= q[Len(q)]
    BY <1>1 DEF In
  <2>1. q[1] \in Int /\ q[i] \in Int /\ q[Len(q)] \in Int
    BY <1>1, <1>2
  <2>2. q[1] <= q[i]
    BY <1>1, <1>4, <2>1
  <2>3. q[i] <= q[Len(q)]
    BY <1>1, <1>5, <2>1
  <2> QED BY <2>2, <2>3
<1>7. ASSUME NEW g PROVE In(Tail(q), g) <=> In(q, g) /\ g # q[1]
  <2>1. /\ DOMAIN Tail(q) = 1 .. Len(q) - 1
        /\ \A i \in 1 .. Len(q) - 1 : Tail(q)[i] = q[i + 1]
    BY <1>1
  <2>2. ASSUME NEW i \in 1 .. Len(q) - 1 PROVE In(q, q[i + 1]) /\ q[i + 1] # q[1]
    <3>1. i + 1 \in 1 .. Len(q) /\ 1 < i + 1
      BY <1>1
    <3> QED BY <1>1, <1>2, <1>4, <3>1 DEF In
  <2>3. ASSUME NEW i \in 1 .. Len(q), q[i] # q[1] PROVE In(Tail(q), q[i])
    <3>1. i - 1 \in 1 .. Len(q) - 1 /\ (i - 1) + 1 = i
      BY <1>1, <2>3
    <3> QED BY <2>1, <3>1 DEF In
  <2> QED BY <1>1, <2>1, <2>2, <2>3 DEF In
<1>8. ASSUME NEW g PROVE In(Front(q), g) <=> In(q, g) /\ g # q[Len(q)]
  <2>1. /\ DOMAIN Front(q) = 1 .. Len(q) - 1
        /\ \A i \in 1 .. Len(q) - 1 : Front(q)[i] = q[i]
    BY <1>1 DEF Front
  <2>2. ASSUME NEW i \in 1 .. Len(q) - 1 PROVE In(q, q[i]) /\ q[i] # q[Len(q)]
    <3>1. i \in 1 .. Len(q) /\ i < Len(q)
      BY <1>1
    <3> QED BY <1>1, <1>2, <1>5, <3>1 DEF In
  <2>3. ASSUME NEW i \in 1 .. Len(q), q[i] # q[Len(q)] PROVE In(Front(q), q[i])
    <3>1. i \in 1 .. Len(q) - 1
      BY <1>1, <2>3
    <3> QED BY <2>1, <3>1 DEF In
  <2> QED BY <1>1, <2>1, <2>2, <2>3, SMTT(30) DEF In
<1> QED BY <1>1, <1>6, <1>7, <1>8 DEF In

\* A queue without floors is empty.
LEMMA InSome ==
  ASSUME NEW q \in Seq(Floor)
  PROVE  q = <<>> <=> \A g : ~In(q, g)
<1>1. q # <<>> => In(q, q[1])
  BY DEF In
<1>2. q = <<>> => \A g : ~In(q, g)
  BY DEF In
<1> QED BY <1>1, <1>2

-----------------------------------------------------------------------------
(* The prompt schedule: the inductive invariant.                           *)

Served == PromptSchedule /\ \A t \in Trips : CountsRight(t)

Here(p)   == InitialFloor(p) = current_floor
Toward(p) == IF GoesUp(p) THEN "Moving-up" ELSE "Moving-down"

\* Who has to wait for the idle state before the next request.
Refused(p) == \/ pc[p] = "is_idle" /\ p \notin woken
              \/ pc[p] = "request" /\ ex_try[p]

\* Nothing is undefined, and the threads start and end in order: the
\* controller before the persons, person 0 with prioVector before the others.
BuildInv ==
  /\ ~undefined /\ cpc # "spin"
  /\ cpc = "start" => state = "Idle" /\ \A p \in Person : pc[p] = "start"
  /\ cpc = "exit" => \A p \in Person : pc[p] = "done"
  /\ \A p \in Person : pc[p] = "init" => p = 0
  /\ ~VectorBuilt => \A p \in Person : pc[p] \in {"start", "init"}

\* While the elevator travels nobody can do anything, so that next_floor
\* stays the end of the queue it was read from.
TravelInv ==
  cpc = "travel" =>
    /\ Quiet /\ destQueue # <<>>
    /\ next_floor = IF state = "Moving-up" THEN destQueue[1] ELSE destQueue[Len(destQueue)]

\* The queued floors are ahead in the direction of travel.
AheadInv ==
  /\ current_floor \in Floor
  /\ state = "Idle" => destQueue = <<>>
  /\ \A f \in Floor : In(destQueue, f) =>
       /\ state = "Moving-up" => f > current_floor
       /\ state = "Moving-down" => f < current_floor

\* A rider's destination is queued until the stop there releases the rider.
Rides(p) ==
  \/ In(destQueue, Destination(p))
  \/ /\ Destination(p) = current_floor /\ pc[p] = "out_stopped" /\ p \in woken
     /\ cpc = "in_out"

\* The same for a caller's floor, for the door and for the turn of an lp
\* person.
Calls(p) ==
  /\ pc[p] \in {"bump", "bumping", "enter"} =>
       state # "Idle" /\ (Here(p) \/ In(destQueue, InitialFloor(p)))
  /\ pc[p] = "in_stopped" => In(destQueue, InitialFloor(p)) \/ (Here(p) /\ p \in woken)
  /\ pc[p] = "enter_ele" =>
       Here(p) /\ state # "Idle" /\ (p \in woken <=> Leavers(eleVector) = {})
  /\ pc[p] = "lp_turn" /\ p \in woken =>
       Here(p) /\ state # "Idle" /\ Leavers(eleVector) = {}
  /\ pc[p] = "lp_turn" /\ p \notin woken =>
       InitialFloor(p) \in DOMAIN prioVector /\ prioVector[InitialFloor(p)] > 0

\* A request is refused only while the elevator moves, and the flags of the
\* thread tell how far it has come.
Tries(p) ==
  /\ ex_try[p] => pc[p] \in {"request", "is_idle"} /\ ~first_try[p]
  /\ Refused(p) => state # "Idle"
  /\ pc[p] \in {"start", "init", "bump", "bumping"} => first_try[p]
  /\ pc[p] \in {"bump", "bumping"} => HighPriority(p)
  /\ pc[p] = "lp_turn" => ~HighPriority(p)

\* Who will board here, unless somebody else does first.
Willing(p) ==
  /\ Here(p) /\ state = Toward(p)
  /\ \/ pc[p] \in {"bump", "bumping", "enter", "enter_ele"}
     \/ pc[p] \in {"lp_turn", "is_idle", "in_stopped"} /\ p \in woken
     \/ pc[p] = "request" /\ ~ex_try[p]

\* The elevator has a direction and no stop only while somebody is about to
\* board, and nobody who was refused could have.
EmptyInv ==
  state # "Idle" /\ destQueue = <<>> =>
    /\ \A p \in Person : Refused(p) => ~isEligible(p)
    /\ \E p \in Person : Willing(p)

\* prioVector counts the hp person of a floor with callers of both
\* priorities from line 263 until that person boards.
Counted(p) == \/ pc[p] \in {"enter", "enter_ele", "in_stopped"}
              \/ pc[p] \in {"request", "is_idle"} /\ ~first_try[p]

Together(p, q) ==
  ~HighPriority(p) /\ HighPriority(q) /\ InitialFloor(q) = InitialFloor(p)

Counts(p) ==
  ~HighPriority(p) /\ InitialFloor(p) \in DOMAIN prioVector =>
    prioVector[InitialFloor(p)] =
      IF \E q \in Person : Together(p, q) /\ Counted(q) THEN 1 ELSE 0

SeenInv == \A p, q \in Person : Together(p, q) /\ pc[q] = "bumping" => seen[q] = 0

\* An hp person of the ground floor comes to the door before the elevator
\* has ever left: the first idle wait outlasts the way there.
Boarded(p) == pc[p] \in {"leave", "out_stopped", "done"}
ComesFirst(p) ==
  HighPriority(p) /\ InitialFloor(p) = 0 /\ first_try[p] /\ ~Boarded(p) =>
    /\ pc[p] \in {"start", "init", "request", "bump", "bumping", "enter"}
    /\ current_floor = 0 /\ cpc \in {"start", "idle"}

\* An lp person's turn has come when the hp person has boarded or was refused.
TurnInv ==
  \A p, q \in Person :
    Together(p, q) /\ pc[p] = "lp_turn" /\ p \in woken => Boarded(q) \/ Refused(q)

PromptInv ==
  /\ BuildInv /\ TravelInv /\ AheadInv /\ EmptyInv /\ SeenInv /\ TurnInv
  /\ \A p \in eleVector : Rides(p)
  /\ \A p \in Person : Calls(p) /\ Tries(p) /\ Counts(p) /\ ComesFirst(p)

PInv == IInv /\ WeightInv /\ PromptInv

LEMMA ServedFacts ==
  ASSUME Served
  PROVE  /\ ~Spurious /\ PromptMain /\ OrderedStart
         /\ \A w \in TimedWaits : Expires(w) => cpc = w /\ Quiet
         /\ \A p, w : Returns(p, w) => pc[p] = w /\ p \in woken
BY DEF Served, PromptSchedule, Expires, Returns

\* On a floor with callers of both priorities.
LEMMA Mixed ==
  ASSUME Served, TypeOK, NEW p \in Person, NEW q \in Person, Together(p, q)
  PROVE  /\ InitialFloor(p) = 0 /\ InitialFloor(q) = 0
         /\ ~HighPriority(p) /\ \A r \in Person : HighPriority(r) <=> r = q
<1>1. trip \in Trips /\ trip[p] \in Trip
  BY ConstantsAssumption DEF TypeOK
<1>2. trip[p].priority \in {1, 2}
  BY <1>1 DEF Trip
<1>3. CountsRight(trip)
  BY <1>1 DEF Served
<1>4. /\ trip[q].initial_floor = trip[p].initial_floor
      /\ trip[q].priority = 1 /\ trip[p].priority = 2
  BY <1>2 DEF Together, HighPriority, InitialFloor
<1> QED BY <1>3, <1>4 DEF CountsRight, InitialFloor, HighPriority

\* Directions.
LEMMA Directions ==
  ASSUME TypeOK, NEW p \in Person
  PROVE  /\ InitialFloor(p) \in Int /\ InitialFloor(p) >= 0 /\ InitialFloor(p) < NumFloors
         /\ Destination(p) \in Int /\ Destination(p) >= 0 /\ Destination(p) < NumFloors
         /\ InitialFloor(p) # Destination(p) /\ (GoesDown(p) <=> ~GoesUp(p))
         /\ InitialFloor(p) = 0 => GoesUp(p)
<1>1. InitialFloor(p) \in Floor /\ Destination(p) \in Floor
  BY TripType
<1>2. InitialFloor(p) # Destination(p)
  BY ConstantsAssumption DEF TypeOK, InitialFloor, Destination
<1> QED BY <1>1, <1>2, ConstantsAssumption DEF Floor, GoesUp, GoesDown

-----------------------------------------------------------------------------
(* The prompt schedule: what a person's step does.                         *)

Boarding(p) == HpBoards(p) \/ LpBoards(p)
AtOpenDoor(p) == PastDoor(p) \/ Returns(p, "lp_turn")

\* Where a thread that takes a step is.
LEMMA From ==
  ASSUME Served, NEW p \in Person, PersonStep(p)
  PROVE  /\ pc[p] # "done" /\ (pc[p] \in Waits => p \in woken)
         /\ pc[p] = "start" <=> Create(p)
         /\ pc[p] = "init" <=> prioVectorInit(p)
         /\ AtOpenDoor(p) => pc[p] \in {"enter", "in_stopped", "enter_ele", "lp_turn"}
         /\ UnbuiltVector(p) => pc[p] \notin {"start", "init"}
<1>0. \A q, w : Returns(q, w) => pc[q] = w /\ q \in woken
  BY ServedFacts
<1> USE <1>0 DEF Waits, PastDoor, AtDoor, AtStopTest, AtOpenDoor
<1>1. CASE Create(p) \/ prioVectorInit(p) \/ BumpRead(p) \/ BumpWrite(p) \/ UnbuiltVector(p)
  BY <1>1 DEF Create, prioVectorInit, BumpRead, BumpWrite, UnbuiltVector
<1>2. CASE WaitIdle(p) \/ Request(p)
  BY <1>2 DEF WaitIdle, Request, MakesRequest, Create, prioVectorInit, UnbuiltVector
<1>3. CASE WaitStop(p) \/ RetryIdle(p) \/ WaitLeavers(p)
  BY <1>3 DEF WaitStop, RetryIdle, WaitLeavers, Create, prioVectorInit, UnbuiltVector
<1>4. CASE HpDenied(p) \/ HpBoards(p) \/ WaitTurn(p) \/ LpDenied(p) \/ LpBoards(p)
  BY <1>4 DEF HpDenied, HpBoards, WaitTurn, LpDenied, LpBoards, LpTurn, Create,
              prioVectorInit, UnbuiltVector
<1>5. CASE WaitDestination(p) \/ Leave(p)
  BY <1>5 DEF WaitDestination, Leave, AtExitTest, Create, prioVectorInit, UnbuiltVector
<1> QED BY <1>1, <1>2, <1>3, <1>4, <1>5 DEF PersonStep, MonitorStep

\* It changes no other thread's place or flags, keeps the others released
\* and releases those who wait for their turn or, leaving, those at the door.
LEMMA Others ==
  ASSUME TypeOK, NEW p \in Person, PersonStep(p), ~UnbuiltVector(p)
  PROVE  /\ \A q \in Person \ {p} : /\ pc'[q] = pc[q] /\ ex_try'[q] = ex_try[q]
                                    /\ first_try'[q] = first_try[q] /\ seen'[q] = seen[q]
                                    /\ q \in woken => q \in woken'
         /\ p \notin woken'
         /\ \A q \in woken' \ woken :
              \/ pc[q] = "lp_turn" /\ (HpDenied(p) \/ HpBoards(p))
              \/ pc[q] = "enter_ele" /\ Leave(p) /\ Leavers(eleVector') = {}
<1> USE DEF Goto, TypeOK, people, prio
<1>1. CASE Create(p) \/ prioVectorInit(p) \/ BumpRead(p) \/ BumpWrite(p)
  <2>1. pc[p] \notin Waits
    BY <1>1 DEF Create, prioVectorInit, BumpRead, BumpWrite, Waits
  <2>2. p \notin woken /\ UNCHANGED <<woken, ex_try, first_try>>
    BY <1>1, <2>1 DEF Create, prioVectorInit, BumpRead, BumpWrite, Waiting
  <2> QED BY <1>1, <2>2 DEF Create, prioVectorInit, BumpRead, BumpWrite
<1>2. CASE WaitIdle(p) \/ Request(p)
  BY <1>2 DEF WaitIdle, Request
<1>3. CASE WaitStop(p) \/ RetryIdle(p) \/ WaitLeavers(p)
  BY <1>3 DEF WaitStop, RetryIdle, WaitLeavers
<1>4. CASE HpDenied(p)
  <2>1. pc[p] # "lp_turn"
    BY <1>4 DEF HpDenied, PastDoor, AtDoor, AtStopTest, Returns
  <2> QED BY <1>4, <2>1 DEF HpDenied, Deny, Waiting
<1>5. CASE HpBoards(p)
  <2>1. pc[p] # "lp_turn"
    BY <1>5 DEF HpBoards, PastDoor, AtDoor, AtStopTest, Returns
  <2> QED BY <1>5, <2>1 DEF HpBoards, Board, Waiting
<1>6. CASE WaitTurn(p) \/ LpDenied(p) \/ LpBoards(p)
  BY <1>6 DEF WaitTurn, LpDenied, LpBoards, Deny, Board
<1>7. CASE WaitDestination(p)
  BY <1>7 DEF WaitDestination
<1>8. CASE Leave(p)
  <2>1. pc[p] # "enter_ele"
    BY <1>8 DEF Leave, AtExitTest, Returns
  <2>2. woken' = IF Leavers(eleVector') = {}
                 THEN (woken \ {p}) \cup Waiting({"enter_ele"}) ELSE woken \ {p}
    BY <1>8, Zenon DEF Leave
  <2>3. p \notin woken' /\ woken \ {p} \subseteq woken'
    BY <2>1, <2>2 DEF Waiting
  <2>4. \A q \in woken' \ woken : pc[q] = "enter_ele" /\ Leave(p) /\ Leavers(eleVector') = {}
    BY <1>8, <2>2, Zenon DEF Waiting
  <2>5. pc' = [pc EXCEPT ![p] = "done"] /\ UNCHANGED <<ex_try, first_try, seen>>
    BY <1>8 DEF Leave
  <2> QED BY <2>3, <2>4, <2>5
<1> QED BY <1>1, <1>2, <1>3, <1>4, <1>5, <1>6, <1>7, <1>8 DEF PersonStep, MonitorStep
\* The thread that builds prioVector or writes its own slot changes it, nobody
\* else does.
LEMMA PrioFrame ==
  ASSUME NEW p \in Person, PersonStep(p), ~prioVectorInit(p)
  PROVE  /\ DOMAIN prioVector' = DOMAIN prioVector
         /\ \A f \in DOMAIN prioVector :
              prioVector'[f] # prioVector[f] =>
                 f = InitialFloor(p) /\ (BumpWrite(p) \/ (HpBoards(p) /\ HighPriority(p)))
<1> USE DEF people, lift, load, limits, prio, ctl
<1>1. CASE Create(p) \/ BumpRead(p) \/ UnbuiltVector(p)
  BY <1>1 DEF Create, BumpRead, UnbuiltVector
<1>2. CASE BumpWrite(p)
  BY <1>2 DEF BumpWrite
<1>3. CASE HpBoards(p)
  BY <1>3 DEF HpBoards
<1>4. CASE WaitIdle(p) \/ Request(p) \/ WaitStop(p) \/ RetryIdle(p) \/ WaitLeavers(p)
  BY <1>4 DEF WaitIdle, Request, WaitStop, RetryIdle, WaitLeavers
<1>5. CASE HpDenied(p) \/ WaitTurn(p) \/ LpDenied(p) \/ LpBoards(p)
  BY <1>5 DEF HpDenied, WaitTurn, LpDenied, LpBoards, Deny
<1>6. CASE WaitDestination(p) \/ Leave(p)
  BY <1>6 DEF WaitDestination, Leave
<1> QED BY <1>1, <1>2, <1>3, <1>4, <1>5, <1>6 DEF PersonStep, MonitorStep

\* Requests and boardings queue a floor, and nothing else changes the queue
\* or turns the elevator.
LEMMA LiftFrame ==
  ASSUME NEW p \in Person, PersonStep(p), ~Request(p), ~Boarding(p)
  PROVE  UNCHANGED <<state, destQueue>>
<1> USE DEF people, lift, load, limits, prio, ctl
<1>1. CASE Create(p) \/ prioVectorInit(p) \/ BumpRead(p) \/ BumpWrite(p) \/ UnbuiltVector(p)
  BY <1>1 DEF Create, prioVectorInit, BumpRead, BumpWrite, UnbuiltVector
<1>2. CASE WaitIdle(p) \/ WaitStop(p) \/ RetryIdle(p) \/ WaitLeavers(p)
  BY <1>2 DEF WaitIdle, WaitStop, RetryIdle, WaitLeavers
<1>3. CASE HpDenied(p) \/ WaitTurn(p) \/ LpDenied(p)
  BY <1>3 DEF HpDenied, WaitTurn, LpDenied, Deny
<1>4. CASE WaitDestination(p) \/ Leave(p)
  BY <1>4 DEF WaitDestination, Leave
<1> QED BY <1>1, <1>2, <1>3, <1>4 DEF PersonStep, MonitorStep, Boarding

LEMMA QueueGrows ==
  ASSUME TypeOK, NEW p \in Person, PersonStep(p)
  PROVE  \A g : In(destQueue', g) <=>
           \/ In(destQueue, g)
           \/ Request(p) /\ ~Here(p) /\ g = InitialFloor(p)
           \/ Boarding(p) /\ g = Destination(p)
<1>1. InitialFloor(p) \in Floor /\ Destination(p) \in Floor /\ destQueue \in Seq(Floor)
  BY TripType DEF TypeOK
<1>2. CASE Request(p)
  <2>1. ~Boarding(p)
    BY <1>2 DEF Request, MakesRequest, Boarding, HpBoards, LpBoards, LpTurn, PastDoor, AtDoor,
                AtStopTest, Returns
  <2>2. destQueue' = IF Here(p) THEN destQueue ELSE InsertFloor(destQueue, InitialFloor(p))
    BY <1>2, Zenon DEF Request, Here
  <2> QED BY <1>1, <1>2, <2>1, <2>2, InInsert
<1>3. CASE Boarding(p)
  <2>1. ~Request(p)
    BY <1>3 DEF Request, MakesRequest, Boarding, HpBoards, LpBoards, LpTurn, PastDoor, AtDoor,
                AtStopTest, Returns
  <2>2. destQueue' = InsertFloor(destQueue, Destination(p))
    BY <1>3 DEF Boarding, HpBoards, LpBoards, Board
  <2> QED BY <1>1, <1>3, <2>1, <2>2, InInsert
<1>4. CASE ~Request(p) /\ ~Boarding(p)
  BY <1>4, LiftFrame
<1> QED BY <1>2, <1>3, <1>4

\* A request turns an idle elevator towards the caller's floor or, there,
\* towards the destination; one that moves has that floor ahead.
LEMMA RequestTurns ==
  ASSUME TypeOK, NEW p \in Person, Request(p)
  PROVE  /\ state' # "Idle" /\ (state # "Idle" => state' = state)
         /\ state = "Idle" /\ Here(p) => state' = Toward(p)
         /\ ~Here(p) => /\ state' = "Moving-up" => InitialFloor(p) > current_floor
                        /\ state' = "Moving-down" => InitialFloor(p) < current_floor
<1>1. /\ InitialFloor(p) \in Int /\ Destination(p) \in Int /\ current_floor \in Int
      /\ InitialFloor(p) # Destination(p)
  BY Directions DEF TypeOK
<1>2. isEligible(p) /\ state' = ChangeState(p)
  BY DEF Request
<1>3. state \in {"Idle", "Moving-up", "Moving-down"}
  BY DEF TypeOK
<1>4. CASE state = "Idle"
  BY <1>1, <1>2, <1>4 DEF ChangeState, Here, Toward, GoesUp
<1>5. CASE state # "Idle"
  BY <1>1, <1>2, <1>3, <1>5 DEF ChangeState, Here, isEligible
<1> QED BY <1>4, <1>5

\* Whoever comes through the door is on the right floor, and nobody inside
\* wants to leave there.
LEMMA OpenDoor ==
  ASSUME Served, NEW p \in Person, Calls(p), AtOpenDoor(p)
  PROVE  /\ pc[p] \in {"enter", "in_stopped", "enter_ele", "lp_turn"}
         /\ Here(p) /\ state # "Idle" /\ Leavers(eleVector) = {}
<1>0. \A q, w : Returns(q, w) => pc[q] = w /\ q \in woken
  BY ServedFacts
<1>1. CASE AtDoor(p) /\ Leavers(eleVector) = {}
  BY <1>0, <1>1 DEF AtDoor, AtStopTest, Calls, Here
<1>2. CASE Returns(p, "enter_ele") \/ Returns(p, "lp_turn")
  BY <1>0, <1>2 DEF Calls
<1> QED BY <1>1, <1>2 DEF AtOpenDoor, PastDoor

\* Whoever boards goes where the elevator goes.
LEMMA BoardAhead ==
  ASSUME Served, TypeOK, NEW p \in Person, Calls(p), Boarding(p)
  PROVE  /\ state # "Idle" /\ state' = state /\ Here(p) /\ Leavers(eleVector) = {}
         /\ state = Toward(p) /\ ~Denied(p)
         /\ state = "Moving-up" => Destination(p) > current_floor
         /\ state = "Moving-down" => Destination(p) < current_floor
<1>1. AtOpenDoor(p) /\ ~Denied(p) /\ Board(p)
  BY DEF Boarding, HpBoards, LpBoards, LpTurn, AtOpenDoor
<1>2. Here(p) /\ state # "Idle" /\ Leavers(eleVector) = {}
  BY <1>1, OpenDoor
<1>3. ~dontEnter(p) /\ state' = ChangeState(p)
  BY <1>1 DEF Denied, Board
<1>4. state \in {"Idle", "Moving-up", "Moving-down"}
  BY DEF TypeOK
<1>5. state = Toward(p) /\ state' = state
  BY <1>2, <1>3, <1>4, Directions DEF dontEnter, Toward, ChangeState
<1>6. /\ state = "Moving-up" => Destination(p) > current_floor
      /\ state = "Moving-down" => Destination(p) < current_floor
  BY <1>2, <1>5, Directions DEF Toward, GoesUp, Here
<1> QED BY <1>1, <1>2, <1>5, <1>6

\* With no stop queued the elevator is empty at an open door, and refuses
\* only those who go the other way.
LEMMA EmptyRefuses ==
  ASSUME Served, PInv, cpc # "start", destQueue = <<>>, NEW p \in Person,
         AtOpenDoor(p), Denied(p)
  PROVE  ~isEligible(p) /\ state # Toward(p)
<1> USE DEF PInv, IInv, PromptInv
<1>1. Here(p) /\ state # "Idle" /\ Leavers(eleVector) = {}
  BY OpenDoor
<1>2. eleVector = {}
  <2>1. \A g : ~In(destQueue, g)
    BY InSome DEF TypeOK
  <2> QED BY <1>1, <2>1 DEF Rides, Leavers
<1>3. people_in_ele = 0
  BY <1>2, FS_EmptySet DEF LoadInv
<1>4. current_weight = 0
  <2>1. Weighs(trip)
    BY TripType DEF Weighs
  <2> QED BY <1>2, <2>1, WeightOf DEF WeightInv
<1>5. trip[p].weight \in Nat /\ trip[p].weight <= WeightCapacity
  <2>1. trip[p] \in Trip
    BY ConstantsAssumption DEF TypeOK
  <2> QED BY <2>1, ConstantsAssumption DEF Trip
<1>6. ele_capacity = PersonCapacity /\ weight_capacity = WeightCapacity
  BY DEF ControlInv
<1>7. dontEnter(p)
  BY <1>3, <1>4, <1>5, <1>6, ConstantsAssumption DEF Denied, WeightWith
<1> QED BY <1>1, <1>7, Directions DEF dontEnter, isEligible, Toward
\* Which steps a thread takes from where it is.
LEMMA Point ==
  ASSUME NEW p \in Person, PersonStep(p), ~UnbuiltVector(p)
  PROVE  /\ pc[p] \in {"leave", "out_stopped"} => WaitDestination(p) \/ Leave(p)
         /\ pc[p] = "bump" => BumpRead(p)
         /\ pc[p] = "bumping" => BumpWrite(p)
         /\ pc[p] \in {"request", "is_idle"} => WaitIdle(p) \/ Request(p)
         /\ pc[p] \in {"enter", "in_stopped", "enter_ele", "lp_turn"} =>
              \/ WaitStop(p) \/ RetryIdle(p) \/ WaitLeavers(p) \/ WaitTurn(p)
              \/ HpDenied(p) \/ LpDenied(p) \/ Boarding(p)
<1>1. CASE Create(p) \/ prioVectorInit(p) \/ BumpRead(p) \/ BumpWrite(p)
  BY <1>1 DEF Create, prioVectorInit, BumpRead, BumpWrite
<1>2. CASE WaitIdle(p) \/ Request(p)
  BY <1>2 DEF WaitIdle, Request, MakesRequest, Returns
<1>3. CASE WaitStop(p) \/ RetryIdle(p) \/ WaitLeavers(p)
  BY <1>3 DEF WaitStop, RetryIdle, WaitLeavers, AtDoor, AtStopTest, Returns
<1>4. CASE HpDenied(p) \/ HpBoards(p) \/ WaitTurn(p) \/ LpDenied(p) \/ LpBoards(p)
  BY <1>4 DEF HpDenied, HpBoards, WaitTurn, LpDenied, LpBoards, LpTurn, PastDoor, AtDoor,
              AtStopTest, Returns, Boarding
<1>5. CASE WaitDestination(p) \/ Leave(p)
  BY <1>5 DEF WaitDestination, Leave, AtExitTest, Returns
<1> QED BY <1>1, <1>2, <1>3, <1>4, <1>5 DEF PersonStep, MonitorStep

-----------------------------------------------------------------------------
(* The prompt schedule: a person's step preserves the invariant.           *)

\* Persons move only while the controller waits on a floor.
LEMMA PersonTurn ==
  ASSUME Served, PInv, NEW p \in Person, PersonStep(p)
  PROVE  /\ ~UnbuiltVector(p) /\ cpc \notin {"start", "travel", "exit"}
         /\ UNCHANGED <<trip, current_floor, cpc>> /\ (state # "Idle" => state' = state)
         /\ TypeOK /\ IInv'
<1> USE DEF PInv, PromptInv
<1>1. TypeOK /\ IInv'
  BY NextIInv DEF IInv, Next
<1>2. pc[p] # "done" /\ (pc[p] \in Waits => p \in woken)
  BY From
<1>3. ~UnbuiltVector(p)
  BY From DEF BuildInv, UnbuiltVector
<1>4. cpc # "start"
  BY From, ServedFacts DEF BuildInv, Create
<1>5. cpc # "exit"
  BY <1>2 DEF BuildInv
<1>6. ~Quiet
  BY <1>2, From, <1>4, ServedFacts DEF Quiet, Waits
<1>7. cpc # "travel"
  BY <1>6 DEF TravelInv
<1> QED BY <1>1, <1>3, <1>4, <1>5, <1>7, PersonFrame

LEMMA BuildPerson ==
  ASSUME Served, PInv, NEW p \in Person, PersonStep(p)
  PROVE  BuildInv'
<1> USE DEF PInv, PromptInv
<1>1. ~UnbuiltVector(p) /\ cpc \notin {"start", "travel", "exit"} /\ cpc' = cpc /\ TypeOK
  BY PersonTurn
<1>2. BuildInv
  OBVIOUS
<1>3. ~undefined'
  <2>1. CASE Create(p) \/ prioVectorInit(p) \/ BumpRead(p) \/ BumpWrite(p)
    BY <1>2, <2>1 DEF BuildInv, Create, prioVectorInit, BumpRead, BumpWrite
  <2>2. CASE WaitIdle(p) \/ Request(p) \/ WaitStop(p) \/ RetryIdle(p) \/ WaitLeavers(p)
    BY <1>2, <2>2 DEF BuildInv, WaitIdle, Request, WaitStop, RetryIdle, WaitLeavers
  <2>3. CASE HpDenied(p) \/ HpBoards(p) \/ WaitTurn(p) \/ LpDenied(p) \/ LpBoards(p)
    BY <1>2, <2>3 DEF BuildInv, HpDenied, HpBoards, WaitTurn, LpDenied, LpBoards, Deny, Board
  <2>4. CASE WaitDestination(p) \/ Leave(p)
    BY <1>2, <2>4 DEF BuildInv, WaitDestination, Leave
  <2> QED BY <1>1, <2>1, <2>2, <2>3, <2>4 DEF PersonStep, MonitorStep
<1>4. pc'[p] = "init" => p = 0
  <2>1. CASE Create(p)
    BY <2>1 DEF Create, Goto, TypeOK
  <2>2. CASE prioVectorInit(p)
    BY <1>1, <1>2, <2>2 DEF prioVectorInit, BuildInv
  <2>3. CASE BumpRead(p) \/ BumpWrite(p)
    BY <1>1, <2>3 DEF BumpRead, BumpWrite, Goto, TypeOK
  <2>4. CASE WaitIdle(p) \/ Request(p) \/ WaitStop(p) \/ RetryIdle(p) \/ WaitLeavers(p)
    BY <1>1, <2>4 DEF WaitIdle, Request, WaitStop, RetryIdle, WaitLeavers, Goto, TypeOK
  <2>5. CASE HpDenied(p) \/ HpBoards(p) \/ WaitTurn(p) \/ LpDenied(p) \/ LpBoards(p)
    BY <1>1, <2>5 DEF HpDenied, HpBoards, WaitTurn, LpDenied, LpBoards, Deny, Board, Goto, TypeOK
  <2>6. CASE WaitDestination(p) \/ Leave(p)
    BY <1>1, <2>6 DEF WaitDestination, Leave, Goto, TypeOK
  <2> QED BY <1>1, <2>1, <2>2, <2>3, <2>4, <2>5, <2>6 DEF PersonStep, MonitorStep
<1>5. ~VectorBuilt' => \A q \in Person : pc'[q] \in {"start", "init"}
  <2>1. CASE Create(p)
    <3>1. prioVector' = prioVector /\ (p > 0 => VectorBuilt)
      BY <2>1, ServedFacts DEF Create, prio
    <3>2. VectorBuilt' <=> VectorBuilt
      BY <3>1 DEF VectorBuilt
    <3>3. p = 0 => pc'[p] = "init"
      BY <1>1, <2>1 DEF Create, Goto, TypeOK
    <3>4. p \in Int /\ p >= 0
      BY DEF Person
    <3> QED BY <1>1, <1>2, <3>1, <3>2, <3>3, <3>4, Others DEF BuildInv
  <2>2. CASE prioVectorInit(p)
    <3>1. CASE VectorBuilt
      BY <2>2, <3>1 DEF prioVectorInit, VectorBuilt
    <3>2. CASE ~VectorBuilt
      BY <1>2, <2>2, <3>2 DEF prioVectorInit, BuildInv
    <3> QED BY <3>1, <3>2
  <2>3. CASE ~Create(p) /\ ~prioVectorInit(p)
    <3>1. VectorBuilt
      BY <1>2, <2>3, From DEF BuildInv
    <3> QED BY <2>3, <3>1, PrioFrame DEF VectorBuilt
  <2> QED BY <2>1, <2>2, <2>3
<1>6. \A q \in Person : pc'[q] = "init" => q = 0
  BY <1>1, <1>2, <1>4, Others DEF BuildInv
<1> QED BY <1>1, <1>2, <1>3, <1>5, <1>6 DEF BuildInv

LEMMA AheadPerson ==
  ASSUME Served, PInv, NEW p \in Person, PersonStep(p)
  PROVE  AheadInv'
<1> USE DEF PInv, PromptInv
<1>1. TypeOK /\ current_floor' = current_floor /\ (state # "Idle" => state' = state)
  BY PersonTurn
<1>2. /\ AheadInv /\ Calls(p) /\ destQueue \in Seq(Floor)
      /\ state \in {"Idle", "Moving-up", "Moving-down"}
  BY <1>1 DEF TypeOK
<1>3. state' = "Idle" => destQueue' = <<>>
  BY <1>1, <1>2, RequestTurns, BoardAhead, LiftFrame DEF AheadInv
<1>4. ASSUME NEW f \in Floor, In(destQueue', f)
      PROVE  /\ state' = "Moving-up" => f > current_floor
             /\ state' = "Moving-down" => f < current_floor
  <2>1. CASE In(destQueue, f)
    <3>1. state # "Idle"
      BY <1>2, <2>1, InSome DEF AheadInv
    <3> QED BY <1>1, <1>2, <2>1, <3>1 DEF AheadInv
  <2>2. CASE Request(p) /\ ~Here(p) /\ f = InitialFloor(p)
    BY <1>1, <2>2, RequestTurns
  <2>3. CASE Boarding(p) /\ f = Destination(p)
    BY <1>1, <1>2, <2>3, BoardAhead
  <2> QED BY <1>1, <1>4, <2>1, <2>2, <2>3, QueueGrows
<1>5. Floor' = Floor
  OBVIOUS
<1> QED BY <1>1, <1>2, <1>3, <1>4 DEF AheadInv

\* Who leaves at this floor changes only when a person leaves.
LEMMA LeaversFrame ==
  ASSUME Served, PInv, NEW p \in Person, PersonStep(p)
  PROVE  /\ Leavers(eleVector)' = Leavers(eleVector')
         /\ Leavers(eleVector') \subseteq Leavers(eleVector)
         /\ ~Leave(p) => Leavers(eleVector') = Leavers(eleVector)
         /\ Leave(p) => p \in Leavers(eleVector)
         /\ Leave(p) /\ Leavers(eleVector') = {} => Waiting({"enter_ele"}) \subseteq woken'
<1> USE DEF PInv, PromptInv
<1>1. TypeOK /\ current_floor' = current_floor /\ trip' = trip /\ LoadInv
  BY PersonTurn DEF IInv
<1>2. Leavers(eleVector)' = Leavers(eleVector')
  BY <1>1 DEF Leavers, Destination
<1>3. CASE Boarding(p)
  <2>1. eleVector' = eleVector \cup {p} /\ ~Leave(p)
    BY <1>3 DEF Boarding, HpBoards, LpBoards, LpTurn, PastDoor, AtDoor, AtStopTest, Returns,
                Board, Leave, AtExitTest
  <2>2. Destination(p) # current_floor
    BY <1>1, <1>3, BoardAhead, Directions DEF Here
  <2>3. Leavers(eleVector') = Leavers(eleVector)
    BY <2>1, <2>2 DEF Leavers
  <2> QED BY <1>2, <2>1, <2>3
<1>4. CASE Leave(p)
  <2>1. eleVector' = eleVector \ {p} /\ Destination(p) = current_floor /\ p \in eleVector
    BY <1>1, <1>4 DEF Leave, AtExitTest, Returns, LoadInv
  <2>2. p \in Leavers(eleVector) /\ Leavers(eleVector') \subseteq Leavers(eleVector)
    BY <2>1 DEF Leavers
  <2>3. pc[p] # "enter_ele"
    BY <1>4 DEF Leave, AtExitTest, Returns
  <2>4. woken' = IF Leavers(eleVector') = {}
                 THEN (woken \ {p}) \cup Waiting({"enter_ele"}) ELSE woken \ {p}
    BY <1>4, Zenon DEF Leave
  <2>5. Leavers(eleVector') = {} => Waiting({"enter_ele"}) \subseteq woken'
    BY <2>3, <2>4
  <2> QED BY <1>2, <1>4, <2>2, <2>5
<1>5. CASE ~Boarding(p) /\ ~Leave(p)
  BY <1>1, <1>2, <1>5, LoadFrame DEF load, Boarding
<1> QED BY <1>3, <1>4, <1>5

LEMMA RidesPerson ==
  ASSUME Served, PInv, NEW p \in Person, PersonStep(p)
  PROVE  \A q \in eleVector' : Rides(q)'
<1> USE DEF PInv, PromptInv
<1>1. /\ TypeOK /\ LoadInv /\ LoadInv' /\ ~UnbuiltVector(p)
      /\ UNCHANGED <<current_floor, trip, cpc>>
  BY PersonTurn DEF IInv
<1>2. \A f : In(destQueue, f) => In(destQueue', f)
  BY <1>1, QueueGrows
<1>3. \A q \in Person : Destination(q)' = Destination(q)
  BY <1>1 DEF Destination
<1>4. ASSUME NEW q \in eleVector', q # p PROVE Rides(q)'
  <2>1. q \in Person /\ pc'[q] = pc[q] /\ (q \in woken => q \in woken')
    BY <1>1, <1>4, Others DEF LoadInv
  <2>2. q \in eleVector
    BY <1>1, <1>4, <2>1 DEF LoadInv
  <2>3. Rides(q)
    BY <2>2
  <2> QED BY <1>1, <1>2, <1>3, <2>1, <2>3 DEF Rides
<1>5. ASSUME p \in eleVector' PROVE Rides(p)'
  <2>1. CASE Boarding(p)
    BY <1>1, <1>3, <2>1, QueueGrows DEF Rides
  <2>2. CASE ~Boarding(p)
    <3>1. ~Leave(p)
      BY <1>5 DEF Leave
    <3>2. p \in eleVector /\ pc[p] \in {"leave", "out_stopped"}
      BY <1>1, <1>5, <2>2, <3>1, LoadFrame DEF load, Boarding, LoadInv
    <3>3. WaitDestination(p)
      BY <1>1, <3>1, <3>2, Point
    <3>4. In(destQueue, Destination(p))
      BY <3>2, <3>3 DEF WaitDestination, Rides
    <3> QED BY <1>2, <1>3, <3>4 DEF Rides
  <2> QED BY <2>1, <2>2
<1> QED BY <1>4, <1>5
LEMMA CallsOthers ==
  ASSUME Served, PInv, NEW p \in Person, PersonStep(p), NEW q \in Person, q # p
  PROVE  Calls(q)'
<1> USE DEF PInv, PromptInv
<1>1. /\ TypeOK /\ ~UnbuiltVector(p) /\ UNCHANGED <<current_floor, trip, cpc>>
      /\ (state # "Idle" => state' = state)
  BY PersonTurn
<1>2. /\ pc'[q] = pc[q] /\ (q \in woken => q \in woken')
      /\ q \in woken' \ woken =>
           \/ pc[q] = "lp_turn" /\ (HpDenied(p) \/ HpBoards(p))
           \/ pc[q] = "enter_ele" /\ Leave(p) /\ Leavers(eleVector') = {}
  BY <1>1, Others
<1>3. /\ Leavers(eleVector)' = Leavers(eleVector')
      /\ Leavers(eleVector') \subseteq Leavers(eleVector)
      /\ ~Leave(p) => Leavers(eleVector') = Leavers(eleVector)
      /\ Leave(p) /\ Leavers(eleVector') = {} => Waiting({"enter_ele"}) \subseteq woken'
  BY LeaversFrame
<1>4. \A f : In(destQueue, f) => In(destQueue', f)
  BY <1>1, QueueGrows
<1>5. InitialFloor(q)' = InitialFloor(q) /\ (Here(q)' <=> Here(q)) /\ Calls(q) /\ Tries(q)
  BY <1>1 DEF InitialFloor, Here
<1>6. pc'[q] \in {"bump", "bumping", "enter"} =>
        state' # "Idle" /\ (Here(q)' \/ In(destQueue', InitialFloor(q)))
  BY <1>1, <1>2, <1>4, <1>5 DEF Calls
<1>7. pc'[q] = "in_stopped" => In(destQueue', InitialFloor(q)) \/ (Here(q)' /\ q \in woken')
  BY <1>2, <1>4, <1>5 DEF Calls
<1>8. pc'[q] = "enter_ele" =>
        Here(q)' /\ state' # "Idle" /\ (q \in woken' <=> Leavers(eleVector') = {})
  <2> SUFFICES ASSUME pc[q] = "enter_ele"
               PROVE  Here(q)' /\ state' # "Idle" /\ (q \in woken' <=> Leavers(eleVector') = {})
    BY <1>2
  <2>1. Here(q)' /\ state' # "Idle" /\ (q \in woken <=> Leavers(eleVector) = {})
    BY <1>1, <1>5 DEF Calls
  <2>2. q \in woken' => Leavers(eleVector') = {}
    BY <1>2, <1>3, <2>1
  <2>3. Leavers(eleVector') = {} => q \in woken'
    BY <1>2, <1>3, <2>1 DEF Waiting
  <2> QED BY <2>1, <2>2, <2>3
<1>9. pc'[q] = "lp_turn" /\ q \in woken' =>
        Here(q)' /\ state' # "Idle" /\ Leavers(eleVector') = {}
  <2> SUFFICES ASSUME pc[q] = "lp_turn", q \in woken'
               PROVE  Here(q) /\ state # "Idle" /\ Leavers(eleVector) = {}
    BY <1>1, <1>2, <1>3, <1>5
  <2>1. CASE q \in woken
    BY <1>5, <2>1 DEF Calls
  <2>2. CASE q \notin woken
    <3>1. HpDenied(p) \/ HpBoards(p)
      BY <1>2, <2>2
    <3>2. HighPriority(p) /\ AtOpenDoor(p)
      BY <3>1 DEF HpDenied, HpBoards, AtOpenDoor
    <3>3. Here(p) /\ state # "Idle" /\ Leavers(eleVector) = {}
      BY <3>2, OpenDoor
    <3>4. ~HighPriority(q) /\ InitialFloor(q) \in DOMAIN prioVector
          /\ prioVector[InitialFloor(q)] > 0
      BY <1>5, <2>2 DEF Calls, Tries
    <3>5. PICK r \in Person : Together(q, r)
      BY <3>4 DEF Counts
    <3>6. InitialFloor(q) = 0 /\ InitialFloor(r) = 0 /\ r = p
      BY <1>1, <3>2, <3>5, Mixed
    <3> QED BY <3>3, <3>6 DEF Here
  <2> QED BY <2>1, <2>2
<1>10. pc'[q] = "lp_turn" /\ q \notin woken' =>
         InitialFloor(q) \in DOMAIN prioVector' /\ prioVector'[InitialFloor(q)] > 0
  <2> SUFFICES ASSUME pc[q] = "lp_turn", q \notin woken'
               PROVE  InitialFloor(q) \in DOMAIN prioVector' /\ prioVector'[InitialFloor(q)] > 0
    BY <1>2
  <2> DEFINE f == InitialFloor(q)
  <2>1. ~HighPriority(q) /\ f \in DOMAIN prioVector /\ prioVector[f] > 0
    BY <1>2, <1>5 DEF Calls, Tries
  <2>2. CASE prioVectorInit(p)
    <3>1. VectorBuilt
      BY DEF BuildInv
    <3> QED BY <2>1, <2>2, <3>1 DEF prioVectorInit
  <2>3. CASE ~prioVectorInit(p) /\ prioVector'[f] = prioVector[f]
    BY <2>1, <2>3, PrioFrame
  <2>4. CASE ~prioVectorInit(p) /\ prioVector'[f] # prioVector[f]
    <3>1. /\ f = InitialFloor(p) /\ (BumpWrite(p) \/ (HpBoards(p) /\ HighPriority(p)))
          /\ DOMAIN prioVector' = DOMAIN prioVector
      BY <2>1, <2>4, PrioFrame
    <3>2. CASE BumpWrite(p)
      <4>1. pc[p] = "bumping" /\ prioVector' = [prioVector EXCEPT ![f] = seen[p] + 1]
        BY <3>1, <3>2 DEF BumpWrite
      <4>2. Together(q, p)
        BY <2>1, <3>1, <4>1 DEF Together, Tries
      <4>3. seen[p] = 0
        BY <4>1, <4>2 DEF SeenInv
      <4> QED BY <2>1, <3>1, <4>1, <4>3
    <3>3. CASE HpBoards(p) /\ HighPriority(p)
      <4>1. /\ prioVector' = [prioVector EXCEPT ![f] = @ - 1]
            /\ prioVector'[f] = 0 => Waiting({"lp_turn"}) \subseteq woken'
        BY <3>1, <3>3 DEF HpBoards
      <4>2. prioVector[f] = 1
        BY <2>1 DEF Counts
      <4>3. prioVector'[f] = 0
        BY <2>1, <4>1, <4>2
      <4> QED BY <4>1, <4>3 DEF Waiting
    <3> QED BY <3>1, <3>2, <3>3
  <2> QED BY <2>2, <2>3, <2>4
<1> QED BY <1>3, <1>5, <1>6, <1>7, <1>8, <1>9, <1>10 DEF Calls

LEMMA CallsSelf ==
  ASSUME Served, PInv, NEW p \in Person, PersonStep(p)
  PROVE  Calls(p)'
<1> USE DEF PInv, PromptInv
<1>1. /\ TypeOK /\ ~UnbuiltVector(p) /\ UNCHANGED <<current_floor, trip, cpc>>
      /\ (state # "Idle" => state' = state)
  BY PersonTurn
<1>2. p \notin woken' /\ p \in DOMAIN pc
  BY <1>1, Others DEF TypeOK
<1>3. \A f : In(destQueue, f) => In(destQueue', f)
  BY <1>1, QueueGrows
<1>4. InitialFloor(p)' = InitialFloor(p) /\ (Here(p)' <=> Here(p)) /\ Calls(p)
  BY <1>1 DEF InitialFloor, Here
<1>5. Leavers(eleVector)' = Leavers(eleVector') /\ (~Leave(p) => Leavers(eleVector') = Leavers(eleVector))
  BY LeaversFrame
<1>6. CASE Request(p)
  <2>1. pc'[p] \in {"bump", "enter"} /\ state' # "Idle"
    BY <1>1, <1>2, <1>6, RequestTurns DEF Request, Goto
  <2>2. Here(p) \/ In(destQueue', InitialFloor(p))
    BY <1>1, <1>6, QueueGrows
  <2> QED BY <1>4, <2>1, <2>2 DEF Calls
<1>7. CASE BumpRead(p) \/ BumpWrite(p)
  <2>1. pc'[p] \in {"bumping", "enter"} /\ pc[p] \in {"bump", "bumping"}
    BY <1>2, <1>7 DEF BumpRead, BumpWrite, Goto
  <2>2. state # "Idle" /\ (Here(p) \/ In(destQueue, InitialFloor(p)))
    BY <1>4, <2>1 DEF Calls
  <2> QED BY <1>1, <1>3, <1>4, <2>1, <2>2 DEF Calls
<1>8. CASE WaitStop(p)
  <2>1. pc'[p] = "in_stopped" /\ ~Here(p) /\ pc[p] \in {"enter", "in_stopped"}
    BY <1>2, <1>8 DEF WaitStop, AtStopTest, Returns, Goto, Here
  <2>2. In(destQueue, InitialFloor(p))
    BY <1>4, <2>1 DEF Calls
  <2> QED BY <1>3, <1>4, <2>1, <2>2 DEF Calls
<1>9. CASE WaitLeavers(p)
  <2>1. /\ pc'[p] = "enter_ele" /\ Here(p) /\ Leavers(eleVector) # {} /\ ~Leave(p)
        /\ pc[p] = "enter" \/ state # "Idle"
    BY <1>2, <1>9 DEF WaitLeavers, AtDoor, AtStopTest, Returns, Goto, Here, Leave, AtExitTest
  <2>2. state # "Idle"
    BY <1>4, <2>1 DEF Calls
  <2> QED BY <1>1, <1>2, <1>4, <1>5, <2>1, <2>2 DEF Calls
<1>10. CASE WaitTurn(p)
  <2>1. /\ pc'[p] = "lp_turn" /\ prioVector' = prioVector
        /\ InitialFloor(p) \in DOMAIN prioVector /\ prioVector[InitialFloor(p)] > 0
    BY <1>2, <1>10 DEF WaitTurn, HasSlot, Goto, prio
  <2> QED BY <1>2, <1>4, <2>1 DEF Calls
<1>11. CASE \/ Create(p) \/ prioVectorInit(p) \/ WaitIdle(p) \/ RetryIdle(p)
            \/ HpDenied(p) \/ LpDenied(p) \/ Boarding(p) \/ WaitDestination(p) \/ Leave(p)
  <2>1. pc'[p] \notin {"bump", "bumping", "enter", "in_stopped", "enter_ele", "lp_turn"}
    <3>1. CASE Create(p) \/ prioVectorInit(p) \/ WaitIdle(p) \/ RetryIdle(p)
      BY <1>2, <3>1 DEF Create, prioVectorInit, WaitIdle, RetryIdle, Goto
    <3>2. CASE HpDenied(p) \/ LpDenied(p) \/ Boarding(p)
      BY <1>2, <3>2 DEF HpDenied, LpDenied, Boarding, HpBoards, LpBoards, Deny, Board, Goto
    <3>3. CASE WaitDestination(p) \/ Leave(p)
      BY <1>2, <3>3 DEF WaitDestination, Leave, Goto
    <3> QED BY <1>11, <3>1, <3>2, <3>3
  <2> QED BY <2>1 DEF Calls
<1> QED BY <1>1, <1>6, <1>7, <1>8, <1>9, <1>10, <1>11 DEF PersonStep, MonitorStep, Boarding
\* Who is refused stays so, and nobody else becomes so.
LEMMA RefusedOthers ==
  ASSUME Served, PInv, NEW p \in Person, PersonStep(p), NEW q \in Person, q # p
  PROVE  /\ Refused(q)' <=> Refused(q)
         /\ pc'[q] = pc[q] /\ ex_try'[q] = ex_try[q] /\ first_try'[q] = first_try[q]
BY PersonTurn, Others DEF Refused

LEMMA TriesPerson ==
  ASSUME Served, PInv, NEW p \in Person, PersonStep(p), NEW q \in Person
  PROVE  Tries(q)'
<1> USE DEF PInv, PromptInv
<1>1. /\ TypeOK /\ ~UnbuiltVector(p) /\ UNCHANGED <<current_floor, trip, cpc>>
      /\ (state # "Idle" => state' = state)
  BY PersonTurn
<1>2. /\ p \notin woken' /\ p \in DOMAIN pc /\ p \in DOMAIN ex_try /\ p \in DOMAIN first_try
      /\ ex_try[p] \in BOOLEAN /\ first_try[p] \in BOOLEAN
  BY <1>1, Others DEF TypeOK
<1>3. Tries(q) /\ (HighPriority(q)' <=> HighPriority(q)) /\ Tries(p) /\ Calls(p)
  BY <1>1 DEF HighPriority
<1>4. CASE q # p
  BY <1>1, <1>3, <1>4, RefusedOthers DEF Tries
<1>5. CASE q = p
  <2>1. CASE Create(p) \/ prioVectorInit(p) \/ BumpRead(p) \/ BumpWrite(p)
    <3>1. /\ pc[p] \in {"start", "init", "bump", "bumping"}
          /\ pc'[p] \in {"init", "request", "bumping", "enter"}
          /\ pc'[p] = "bumping" => pc[p] = "bump"
          /\ UNCHANGED <<ex_try, first_try>>
      BY <1>2, <2>1 DEF Create, prioVectorInit, BumpRead, BumpWrite, Goto, people
    <3>2. ~ex_try[p] /\ first_try[p]
      BY <1>3, <3>1 DEF Tries
    <3> QED BY <1>3, <1>5, <3>1, <3>2 DEF Tries, Refused
  <2>2. CASE Request(p)
    <3>1. /\ ~ex_try'[p] /\ first_try'[p] = first_try[p] /\ pc'[p] \in {"bump", "enter"}
          /\ pc'[p] = "bump" => first_try[p] /\ HighPriority(p)
      BY <1>2, <2>2 DEF Request, Goto
    <3> QED BY <1>3, <1>5, <3>1 DEF Tries, Refused
  <2>3. CASE WaitIdle(p)
    <3>1. /\ ex_try'[p] => ex_try[p]
          /\ first_try'[p] = first_try[p] /\ pc'[p] = "is_idle"
      BY <1>2, <2>3 DEF WaitIdle, Goto
    <3>2. state # "Idle"
      BY <1>3, <2>3 DEF WaitIdle, isEligible, TriedBefore, Tries, Refused
    <3> QED BY <1>1, <1>3, <1>5, <3>1, <3>2 DEF Tries, Refused
  <2>4. CASE WaitStop(p) \/ RetryIdle(p) \/ WaitLeavers(p) \/ WaitTurn(p)
    <3>1. /\ pc[p] \notin {"request", "is_idle"} /\ UNCHANGED <<ex_try, first_try>>
          /\ pc'[p] \in {"in_stopped", "request", "enter_ele", "lp_turn"}
          /\ pc'[p] = "lp_turn" => ~HighPriority(p)
      BY <1>2, <2>4 DEF WaitStop, RetryIdle, WaitLeavers, WaitTurn, PastDoor, AtDoor,
                        AtStopTest, Returns, Goto, people
    <3>2. ~ex_try[p]
      BY <1>3, <3>1 DEF Tries
    <3> QED BY <1>3, <1>5, <3>1, <3>2 DEF Tries, Refused
  <2>5. CASE HpDenied(p) \/ LpDenied(p)
    <3>1. ~first_try'[p] /\ pc'[p] = "request" /\ AtOpenDoor(p)
      BY <1>2, <2>5 DEF HpDenied, LpDenied, LpTurn, AtOpenDoor, Deny, Goto
    <3>2. state # "Idle"
      BY <1>3, <3>1, OpenDoor
    <3> QED BY <1>1, <1>5, <3>1, <3>2 DEF Tries, Refused
  <2>6. CASE Boarding(p) \/ WaitDestination(p) \/ Leave(p)
    <3>1. /\ pc[p] \notin {"request", "is_idle"} /\ UNCHANGED <<ex_try, first_try>>
          /\ pc'[p] \in {"leave", "out_stopped", "done"}
      BY <1>2, <2>6 DEF Boarding, HpBoards, LpBoards, LpTurn, PastDoor, AtDoor, AtStopTest,
                        Returns, Board, WaitDestination, Leave, AtExitTest, Goto, people
    <3>2. ~ex_try[p]
      BY <1>3, <3>1 DEF Tries
    <3> QED BY <1>5, <3>1, <3>2 DEF Tries, Refused
  <2> QED BY <1>1, <2>1, <2>2, <2>3, <2>4, <2>5, <2>6 DEF PersonStep, MonitorStep, Boarding
<1> QED BY <1>4, <1>5

\* Whoever is willing is still willing after another person's step.
LEMMA WillingOthers ==
  ASSUME Served, PInv, NEW p \in Person, PersonStep(p), NEW q \in Person, q # p,
         Willing(q), state # "Idle"
  PROVE  Willing(q)'
<1>1. UNCHANGED <<current_floor, trip>> /\ state' = state /\ ~UnbuiltVector(p) /\ TypeOK
  BY PersonTurn
<1>2. pc'[q] = pc[q] /\ ex_try'[q] = ex_try[q] /\ (q \in woken => q \in woken')
  BY <1>1, Others
<1>3. Here(q)' = Here(q) /\ Toward(q)' = Toward(q)
  BY <1>1 DEF Here, Toward, GoesUp, InitialFloor, Destination
<1> QED BY <1>1, <1>2, <1>3 DEF Willing

\* Whoever gives way with an empty queue gives way to somebody willing.
LEMMA GivesWay ==
  ASSUME Served, PInv, NEW p \in Person, WaitTurn(p), state # "Idle", destQueue = <<>>,
         Willing(p)
  PROVE  \E q \in Person \ {p} : Willing(q)
<1> USE DEF PInv, PromptInv
<1>1. TypeOK
  BY DEF IInv
<1>2. /\ ~HighPriority(p) /\ InitialFloor(p) \in DOMAIN prioVector
      /\ prioVector[InitialFloor(p)] > 0
  BY DEF WaitTurn, HasSlot
<1>3. PICK q \in Person : Together(p, q) /\ Counted(q)
  BY <1>2 DEF Counts
<1>4. InitialFloor(p) = 0 /\ InitialFloor(q) = 0 /\ q # p
  BY <1>1, <1>2, <1>3, Mixed DEF Together
<1>5. GoesUp(p) /\ GoesUp(q)
  BY <1>1, <1>4, Directions
<1>6. Here(q) /\ state = Toward(q)
  BY <1>4, <1>5 DEF Willing, Here, Toward
<1>7. isEligible(q)
  BY <1>1, <1>5, <1>6, Directions DEF isEligible, Toward, Here
<1>8. ~Refused(q)
  BY <1>7 DEF EmptyInv
<1>9. \A f : ~In(destQueue, f)
  BY <1>1, InSome DEF TypeOK
<1>10. pc[q] = "in_stopped" => q \in woken
  BY <1>9 DEF Calls
<1>11. Willing(q)
  BY <1>3, <1>6, <1>8, <1>10 DEF Willing, Counted, Refused
<1> QED BY <1>4, <1>11

LEMMA EmptyPerson ==
  ASSUME Served, PInv, NEW p \in Person, PersonStep(p)
  PROVE  EmptyInv'
<1> USE DEF PInv, PromptInv
<1> SUFFICES ASSUME state' # "Idle", destQueue' = <<>>
             PROVE  /\ \A q \in Person : Refused(q)' => ~isEligible(q)'
                    /\ \E q \in Person : Willing(q)'
  BY DEF EmptyInv
<1>1. /\ TypeOK /\ ~UnbuiltVector(p) /\ UNCHANGED <<current_floor, trip, cpc>>
      /\ (state # "Idle" => state' = state) /\ cpc # "start" /\ IInv'
  BY PersonTurn
<1>2. p \notin woken' /\ p \in DOMAIN pc /\ p \in DOMAIN ex_try
  BY <1>1, Others DEF TypeOK
<1>3. destQueue = <<>> /\ \A f : ~In(destQueue, f) /\ ~In(destQueue', f)
  BY <1>1, QueueGrows, InSome DEF TypeOK, IInv
<1>4. ~Boarding(p) /\ (Request(p) => Here(p))
  BY <1>1, <1>3, QueueGrows
<1>5. \A q \in Person : /\ InitialFloor(q)' = InitialFloor(q) /\ Destination(q)' = Destination(q)
                        /\ Here(q)' = Here(q) /\ Toward(q)' = Toward(q)
  BY <1>1 DEF InitialFloor, Destination, Here, Toward, GoesUp
<1>6. CASE state = "Idle"
  <2>1. Request(p)
    BY <1>4, <1>6, LiftFrame
  <2>2. pc'[p] \in {"bump", "enter"}
    BY <1>2, <2>1 DEF Request, Goto
  <2>3. \A q \in Person : ~Refused(q)'
    BY <1>6, <2>2, RefusedOthers DEF Refused, Tries
  <2>4. Here(p) /\ state' = Toward(p)
    BY <1>1, <1>4, <1>6, <2>1, RequestTurns
  <2>5. Willing(p)'
    BY <1>5, <2>2, <2>4 DEF Willing
  <2> QED BY <2>3, <2>5
<1>7. CASE state # "Idle"
  <2>1. state' = state /\ \A q \in Person : isEligible(q)' <=> isEligible(q)
    BY <1>1, <1>5, <1>7 DEF isEligible, GoesUp, GoesDown
  <2>2. HpDenied(p) \/ LpDenied(p) => ~isEligible(p) /\ state # Toward(p)
    BY <1>1, <1>3, EmptyRefuses DEF HpDenied, LpDenied, LpTurn, AtOpenDoor
  <2>3. Refused(p)' => ~isEligible(p)
    <3>1. CASE WaitIdle(p)
      BY <1>3, <1>7, <3>1 DEF WaitIdle, TriedBefore, Refused, EmptyInv
    <3>2. CASE HpDenied(p) \/ LpDenied(p)
      BY <2>2, <3>2
    <3>3. CASE ~WaitIdle(p) /\ ~HpDenied(p) /\ ~LpDenied(p)
      <4>1. CASE pc'[p] \notin {"request", "is_idle"}
        BY <4>1 DEF Refused
      <4>2. CASE pc'[p] \in {"request", "is_idle"}
        <5>1. Create(p) \/ prioVectorInit(p) \/ RetryIdle(p)
          BY <1>1, <1>2, <1>4, <3>3, <4>2
             DEF PersonStep, MonitorStep, BumpRead, BumpWrite, Request, WaitStop,
                 WaitLeavers, WaitTurn, Boarding, WaitDestination, Leave, Goto
        <5>2. pc'[p] = "request" /\ ex_try' = ex_try /\ pc[p] \notin {"request", "is_idle"}
          BY <1>2, <4>2, <5>1 DEF Create, prioVectorInit, RetryIdle, Returns, Goto, people
        <5> QED BY <5>2 DEF Refused, Tries
      <4> QED BY <4>1, <4>2
    <3> QED BY <3>1, <3>2, <3>3
  <2>4. \A q \in Person : Refused(q)' => ~isEligible(q)'
    BY <1>3, <1>7, <2>1, <2>3, RefusedOthers DEF EmptyInv
  <2>5. \E q \in Person : Willing(q)'
    <3>1. PICK w \in Person : Willing(w)
      BY <1>3, <1>7 DEF EmptyInv
    <3>2. CASE w # p
      BY <1>7, <3>1, <3>2, WillingOthers
    <3>3. CASE w = p
      <4>1. Here(p) /\ state = Toward(p) /\ isEligible(p)
        BY <1>1, <3>1, <3>3, Directions DEF Willing, isEligible, Here, Toward
      <4>2. CASE Request(p) \/ BumpRead(p) \/ BumpWrite(p) \/ WaitLeavers(p)
        <5>1. pc'[p] \in {"bump", "bumping", "enter", "enter_ele"}
          BY <1>2, <4>2 DEF Request, BumpRead, BumpWrite, WaitLeavers, Goto
        <5>2. Willing(p)'
          BY <1>5, <2>1, <4>1, <5>1 DEF Willing
        <5> QED BY <5>2
      <4>3. CASE WaitTurn(p)
        BY <1>3, <1>7, <3>1, <3>3, <4>3, GivesWay, WillingOthers
      <4>4. ~WaitIdle(p)
        BY <3>1, <3>3, <4>1 DEF WaitIdle, TriedBefore, Willing
      <4>5. ~WaitStop(p) /\ ~RetryIdle(p) /\ ~HpDenied(p) /\ ~LpDenied(p)
        BY <1>7, <2>2, <4>1 DEF WaitStop, RetryIdle, Here
      <4>6. ~Create(p) /\ ~prioVectorInit(p) /\ ~WaitDestination(p) /\ ~Leave(p)
        BY <3>1, <3>3 DEF Willing, Create, prioVectorInit, WaitDestination, Leave, AtExitTest,
                          Returns
      <4> QED BY <1>1, <1>4, <4>2, <4>3, <4>4, <4>5, <4>6 DEF PersonStep, MonitorStep, Boarding
    <3> QED BY <3>2, <3>3
  <2> QED BY <2>4, <2>5
<1> QED BY <1>6, <1>7
\* Who leaves at this floor is a rider whom the stop here has released.
LEMMA LeaversReleased ==
  ASSUME PInv, NEW q \in Leavers(eleVector)
  PROVE  q \in Person /\ pc[q] = "out_stopped" /\ q \in woken /\ cpc = "in_out"
<1> USE DEF PInv, PromptInv
<1>1. q \in eleVector /\ q \in Person /\ Destination(q) = current_floor /\ TypeOK
  BY DEF Leavers, IInv, TypeOK
<1>2. ~In(destQueue, current_floor)
  <2> SUFFICES ASSUME In(destQueue, current_floor) PROVE FALSE
    OBVIOUS
  <2>1. state # "Idle" /\ current_floor \in Int
    BY <1>1, InSome DEF AheadInv, TypeOK
  <2> QED BY <1>1, <2>1 DEF AheadInv, TypeOK
<1> QED BY <1>1, <1>2 DEF Rides

\* On the ground floor the elevator does not go down.
LEMMA GroundUp ==
  ASSUME PInv, current_floor = 0
  PROVE  state # "Moving-down"
<1> USE DEF PInv, PromptInv
<1> SUFFICES ASSUME state = "Moving-down" PROVE FALSE
  OBVIOUS
<1>1. TypeOK
  BY DEF IInv
<1>2. CASE destQueue = <<>>
  <2>1. PICK w \in Person : Willing(w)
    BY <1>2 DEF EmptyInv
  <2> QED BY <1>1, <2>1, Directions DEF Willing, Here, Toward
<1>3. CASE destQueue # <<>>
  <2>1. destQueue[1] \in Floor /\ In(destQueue, destQueue[1])
    BY <1>1, <1>3, InEnds DEF IInv, TypeOK
  <2>2. destQueue[1] < 0
    BY <2>1 DEF AheadInv
  <2> QED BY <2>1, <2>2, ConstantsAssumption DEF Floor
<1> QED BY <1>2, <1>3

LEMMA FirstPerson ==
  ASSUME Served, PInv, NEW p \in Person, PersonStep(p), NEW q \in Person
  PROVE  ComesFirst(q)'
<1> USE DEF PInv, PromptInv
<1>1. /\ TypeOK /\ ~UnbuiltVector(p) /\ UNCHANGED <<current_floor, trip, cpc>>
      /\ cpc # "start"
  BY PersonTurn
<1>2. /\ HighPriority(q)' = HighPriority(q) /\ InitialFloor(q)' = InitialFloor(q)
      /\ ComesFirst(q)
  BY <1>1 DEF HighPriority, InitialFloor
<1>3. CASE q # p
  BY <1>1, <1>2, <1>3, Others DEF ComesFirst, Boarded
<1>4. CASE q = p
  <2> SUFFICES ASSUME HighPriority(p), InitialFloor(p) = 0, first_try'[p], ~Boarded(p)'
               PROVE  /\ pc'[p] \in {"start", "init", "request", "bump", "bumping", "enter"}
                      /\ current_floor = 0 /\ cpc \in {"start", "idle"}
    BY <1>1, <1>2, <1>4 DEF ComesFirst
  <2>0. p \in DOMAIN pc /\ p \in DOMAIN first_try
    BY <1>1 DEF TypeOK
  <2>1. ~HpDenied(p) /\ ~LpDenied(p) /\ ~WaitTurn(p)
    BY <2>0 DEF HpDenied, Deny, LpDenied, WaitTurn
  <2>2. ~Boarding(p) /\ ~WaitDestination(p) /\ ~Leave(p)
    BY <2>0 DEF Boarding, HpBoards, LpBoards, Board, WaitDestination, Leave, Goto, Boarded
  <2>3. first_try[p] /\ ~Boarded(p)
    <3>1. CASE Create(p) \/ prioVectorInit(p) \/ BumpRead(p) \/ BumpWrite(p)
      BY <3>1 DEF Create, prioVectorInit, BumpRead, BumpWrite, people, Boarded
    <3>2. CASE WaitIdle(p) \/ Request(p)
      BY <3>2 DEF WaitIdle, Request, MakesRequest, Returns, Boarded
    <3>3. CASE WaitStop(p) \/ RetryIdle(p) \/ WaitLeavers(p)
      BY <3>3 DEF WaitStop, RetryIdle, WaitLeavers, AtDoor, AtStopTest, Returns, people, Boarded
    <3> QED BY <1>1, <2>1, <2>2, <3>1, <3>2, <3>3 DEF PersonStep, MonitorStep, Boarding
  <2>4. /\ pc[p] \in {"start", "init", "request", "bump", "bumping", "enter"}
        /\ current_floor = 0 /\ cpc = "idle"
    BY <1>1, <1>2, <1>4, <2>3 DEF ComesFirst
  <2>5. Leavers(eleVector) = {}
    BY <2>4, LeaversReleased
  <2>6. ~WaitStop(p) /\ ~RetryIdle(p) /\ ~WaitLeavers(p)
    BY <2>4, <2>5 DEF WaitStop, RetryIdle, WaitLeavers, Returns
  <2>7. ~WaitIdle(p)
    <3>1. state \in {"Idle", "Moving-up", "Moving-down"}
      BY <1>1 DEF TypeOK
    <3>2. isEligible(p)
      BY <1>1, <2>4, <3>1, GroundUp, Directions DEF isEligible
    <3>3. ~TriedBefore(p)
      BY <2>3 DEF TriedBefore, Tries
    <3> QED BY <3>2, <3>3 DEF WaitIdle
  <2>8. Create(p) \/ prioVectorInit(p) \/ BumpRead(p) \/ BumpWrite(p) \/ Request(p)
    BY <1>1, <2>1, <2>2, <2>6, <2>7 DEF PersonStep, MonitorStep, Boarding
  <2>9. pc'[p] \in {"start", "init", "request", "bump", "bumping", "enter"}
    BY <2>0, <2>4, <2>8 DEF Create, prioVectorInit, BumpRead, BumpWrite, Request, Goto
  <2> QED BY <2>4, <2>9
<1> QED BY <1>3, <1>4

\* The slot of an lp person's floor changes only by the hp person there.
LEMMA SlotKept ==
  ASSUME Served, PInv, NEW p \in Person, PersonStep(p), NEW x \in Person, ~HighPriority(x),
         ~Together(x, p) \/ prioVectorInit(p),
         InitialFloor(x) \in DOMAIN prioVector'
  PROVE  \/ /\ InitialFloor(x) \in DOMAIN prioVector
            /\ prioVector'[InitialFloor(x)] = prioVector[InitialFloor(x)]
         \/ /\ prioVector'[InitialFloor(x)] = 0 /\ pc' = pc
            /\ \A q \in Person : pc[q] \in {"start", "init"}
<1> USE DEF PInv, PromptInv
<1>1. CASE prioVectorInit(p) /\ VectorBuilt
  BY <1>1 DEF prioVectorInit
<1>2. CASE prioVectorInit(p) /\ ~VectorBuilt
  <2>1. /\ pc' = pc
        /\ prioVector' = [f \in 0 .. Cardinality(DOMAIN prioVector) |->
                            IF f \in DOMAIN prioVector THEN prioVector[f] ELSE 0]
    BY <1>2 DEF prioVectorInit
  <2>2. \A q \in Person : pc[q] \in {"start", "init"}
    BY <1>2 DEF BuildInv
  <2> QED BY <2>1, <2>2
<1>3. CASE ~prioVectorInit(p)
  <2>1. BumpWrite(p) => HighPriority(p)
    BY DEF BumpWrite, Tries
  <2> QED BY <1>3, <2>1, PrioFrame DEF Together
<1> QED BY <1>1, <1>2, <1>3

\* The hp person of a floor with callers of both priorities stays counted, or
\* not, unless it is counted or boards.
LEMMA CountedKept ==
  ASSUME Served, PInv, NEW p \in Person, PersonStep(p), NEW x \in Person, Together(x, p),
         ~BumpWrite(p), ~HpBoards(p)
  PROVE  Counted(p)' <=> Counted(p)
<1> USE DEF PInv, PromptInv
<1>1. TypeOK /\ ~UnbuiltVector(p)
  BY PersonTurn
<1>2. HighPriority(p) /\ InitialFloor(p) = 0 /\ p \in DOMAIN pc /\ p \in DOMAIN first_try
  BY <1>1, Mixed DEF TypeOK
<1>3. CASE Create(p) \/ prioVectorInit(p) \/ BumpRead(p)
  <2>1. /\ pc[p] \in {"start", "init", "bump"} /\ pc'[p] \in {"init", "request", "bumping"}
        /\ first_try' = first_try
    BY <1>2, <1>3 DEF Create, prioVectorInit, BumpRead, Goto, people
  <2>2. first_try[p]
    BY <2>1 DEF Tries
  <2> QED BY <2>1, <2>2 DEF Counted
<1>4. CASE WaitIdle(p)
  BY <1>2, <1>4 DEF WaitIdle, MakesRequest, Returns, Goto, Counted
<1>5. CASE Request(p)
  BY <1>2, <1>5 DEF Request, MakesRequest, Returns, Goto, Counted
<1>6. CASE WaitStop(p) \/ WaitLeavers(p)
  BY <1>2, <1>6 DEF WaitStop, WaitLeavers, AtDoor, AtStopTest, Returns, Goto, Counted
<1>7. CASE RetryIdle(p)
  <2>1. pc[p] = "in_stopped" /\ pc'[p] = "request" /\ first_try' = first_try
    BY <1>2, <1>7 DEF RetryIdle, Returns, Goto, people
  <2>2. ~first_try[p]
    BY <1>2, <2>1 DEF ComesFirst, Boarded
  <2> QED BY <2>1, <2>2 DEF Counted
<1>8. CASE HpDenied(p)
  <2>1. pc[p] \in {"enter", "in_stopped", "enter_ele"}
    BY <1>8 DEF HpDenied, PastDoor, AtDoor, AtStopTest, Returns
  <2>2. pc'[p] = "request" /\ ~first_try'[p]
    BY <1>2, <1>8 DEF HpDenied, Deny, Goto
  <2> QED BY <2>1, <2>2 DEF Counted
<1>9. CASE WaitDestination(p) \/ Leave(p)
  BY <1>2, <1>9 DEF WaitDestination, Leave, AtExitTest, Returns, Goto, Counted
<1>10. ~WaitTurn(p) /\ ~LpDenied(p) /\ ~LpBoards(p)
  BY <1>2 DEF WaitTurn, LpDenied, LpBoards
<1> QED BY <1>1, <1>3, <1>4, <1>5, <1>6, <1>7, <1>8, <1>9, <1>10 DEF PersonStep, MonitorStep

LEMMA CountsPerson ==
  ASSUME Served, PInv, NEW p \in Person, PersonStep(p), NEW x \in Person
  PROVE  Counts(x)'
<1> USE DEF PInv, PromptInv
<1>1. TypeOK /\ ~UnbuiltVector(p) /\ UNCHANGED <<current_floor, trip, cpc>>
  BY PersonTurn
<1>2. /\ HighPriority(x)' = HighPriority(x) /\ InitialFloor(x)' = InitialFloor(x)
      /\ \A q \in Person : Together(x, q)' = Together(x, q)
  BY <1>1 DEF HighPriority, InitialFloor, Together
<1>3. \A q \in Person \ {p} : Counted(q)' = Counted(q)
  BY <1>1, Others DEF Counted
<1> DEFINE f == InitialFloor(x)
<1> SUFFICES ASSUME ~HighPriority(x), f \in DOMAIN prioVector'
             PROVE  prioVector'[f] =
                      IF \E q \in Person : Together(x, q) /\ Counted(q)' THEN 1 ELSE 0
  BY <1>2 DEF Counts
<1>4. f \in DOMAIN prioVector =>
        prioVector[f] = IF \E q \in Person : Together(x, q) /\ Counted(q) THEN 1 ELSE 0
  BY DEF Counts
<1>5. CASE ~Together(x, p)
  <2>1. CASE f \in DOMAIN prioVector /\ prioVector'[f] = prioVector[f]
    BY <1>3, <1>4, <1>5, <2>1
  <2>2. CASE prioVector'[f] = 0 /\ \A q \in Person : pc[q] \in {"start", "init"}
    <3>1. \A q \in Person : ~Counted(q)
      BY <2>2 DEF Counted
    <3> QED BY <1>3, <1>5, <2>2, <3>1
  <2> QED BY <1>5, <2>1, <2>2, SlotKept
<1>6. CASE Together(x, p)
  <2>1. \A q \in Person : Together(x, q) <=> q = p
    BY <1>1, <1>6, Mixed DEF Together
  <2>2. InitialFloor(p) = f /\ HighPriority(p)
    BY <1>6 DEF Together
  <2>3. SUFFICES prioVector'[f] = IF Counted(p)' THEN 1 ELSE 0
    BY <2>1
  <2>4. f \in DOMAIN prioVector => prioVector[f] = IF Counted(p) THEN 1 ELSE 0
    BY <1>4, <2>1
  <2>5. CASE prioVectorInit(p)
    <3>1. CASE prioVector'[f] = 0 /\ pc' = pc /\ \A q \in Person : pc[q] \in {"start", "init"}
      <4>1. ~Counted(p)'
        BY <3>1 DEF Counted
      <4> QED BY <3>1, <4>1
    <3>2. CASE f \in DOMAIN prioVector /\ prioVector'[f] = prioVector[f]
      <4>1. ~BumpWrite(p) /\ ~HpBoards(p)
        BY <2>5 DEF prioVectorInit, BumpWrite, HpBoards, PastDoor, AtDoor, AtStopTest, Returns
      <4>2. Counted(p)' <=> Counted(p)
        BY <1>6, <4>1, CountedKept
      <4> QED BY <2>4, <3>2, <4>2
    <3> QED BY <2>5, <3>1, <3>2, SlotKept
  <2>6. CASE BumpWrite(p)
    <3>1. pc[p] = "bumping" /\ pc'[p] = "enter"
          /\ prioVector' = [prioVector EXCEPT ![f] = seen[p] + 1]
      BY <1>1, <2>2, <2>6 DEF BumpWrite, Goto, TypeOK
    <3>2. seen[p] = 0
      BY <1>6, <3>1 DEF SeenInv
    <3>3. Counted(p)'
      BY <3>1 DEF Counted
    <3> QED BY <3>1, <3>2, <3>3
  <2>7. CASE HpBoards(p)
    <3>1. /\ pc[p] \in {"enter", "in_stopped", "enter_ele"} /\ pc'[p] = "leave"
          /\ f \in DOMAIN prioVector
          /\ prioVector' = [prioVector EXCEPT ![f] = @ - 1]
      BY <1>1, <2>2, <2>7 DEF HpBoards, HasSlot, PastDoor, AtDoor, AtStopTest, Returns, Board,
                              Goto, TypeOK
    <3>2. Counted(p) /\ ~Counted(p)'
      BY <3>1 DEF Counted
    <3> QED BY <2>4, <3>1, <3>2
  <2>8. CASE ~prioVectorInit(p) /\ ~BumpWrite(p) /\ ~HpBoards(p)
    <3>1. Counted(p)' <=> Counted(p)
      BY <1>6, <2>8, CountedKept
    <3>2. DOMAIN prioVector' = DOMAIN prioVector
      BY <2>8, PrioFrame
    <3>3. prioVector'[f] = prioVector[f]
      BY <2>8, <3>2, PrioFrame
    <3> QED BY <2>4, <3>1, <3>2, <3>3
  <2> QED BY <2>5, <2>6, <2>7, <2>8
<1> QED BY <1>5, <1>6
LEMMA SeenPerson ==
  ASSUME Served, PInv, NEW p \in Person, PersonStep(p)
  PROVE  SeenInv'
<1> USE DEF PInv, PromptInv
<1>1. TypeOK /\ ~UnbuiltVector(p) /\ trip' = trip
  BY PersonTurn
<1>2. \A x, q \in Person : Together(x, q)' = Together(x, q)
  BY <1>1 DEF HighPriority, InitialFloor, Together
<1> SUFFICES ASSUME NEW x \in Person, NEW q \in Person, Together(x, q), pc'[q] = "bumping"
             PROVE  seen'[q] = 0
  BY <1>2 DEF SeenInv
<1>3. CASE q # p
  BY <1>1, <1>3, Others DEF SeenInv
<1>4. CASE q = p
  <2>0. p \in DOMAIN pc /\ p \in DOMAIN seen
    BY <1>1 DEF TypeOK
  <2>1. BumpRead(p)
    <3>1. ~Create(p) /\ ~BumpWrite(p) /\ ~prioVectorInit(p)
      BY <1>4, <2>0 DEF Create, BumpWrite, prioVectorInit, Goto
    <3>2. ~WaitIdle(p) /\ ~Request(p) /\ ~WaitStop(p) /\ ~RetryIdle(p) /\ ~WaitLeavers(p)
      BY <1>4, <2>0 DEF WaitIdle, Request, WaitStop, RetryIdle, WaitLeavers, Goto
    <3>3. ~HpDenied(p) /\ ~HpBoards(p) /\ ~WaitTurn(p) /\ ~LpDenied(p) /\ ~LpBoards(p)
      BY <1>4, <2>0 DEF HpDenied, HpBoards, WaitTurn, LpDenied, LpBoards, Deny, Board, Goto
    <3>4. ~WaitDestination(p) /\ ~Leave(p)
      BY <1>4, <2>0 DEF WaitDestination, Leave, Goto
    <3> QED BY <1>1, <3>1, <3>2, <3>3, <3>4 DEF PersonStep, MonitorStep
  <2>2. /\ pc[p] = "bump" /\ InitialFloor(p) \in DOMAIN prioVector
        /\ seen'[p] = prioVector[InitialFloor(p)]
    BY <2>0, <2>1 DEF BumpRead
  <2>3. ~HighPriority(x) /\ InitialFloor(x) = InitialFloor(p)
    BY <1>4 DEF Together
  <2>4. \A r \in Person : Together(x, r) => r = p
    BY <1>1, <1>4, Mixed DEF Together
  <2>5. ~Counted(p)
    BY <2>2 DEF Counted
  <2>6. prioVector[InitialFloor(x)] = 0
    BY <2>2, <2>3, <2>4, <2>5 DEF Counts
  <2> QED BY <1>4, <2>2, <2>3, <2>6
<1> QED BY <1>3, <1>4

LEMMA TurnPerson ==
  ASSUME Served, PInv, NEW p \in Person, PersonStep(p)
  PROVE  TurnInv'
<1> USE DEF PInv, PromptInv
<1>1. TypeOK /\ ~UnbuiltVector(p) /\ trip' = trip
  BY PersonTurn
<1>2. \A x, q \in Person : Together(x, q)' = Together(x, q)
  BY <1>1 DEF HighPriority, InitialFloor, Together
<1> SUFFICES ASSUME NEW x \in Person, NEW q \in Person, Together(x, q),
                    pc'[x] = "lp_turn", x \in woken'
             PROVE  Boarded(q)' \/ Refused(q)'
  BY <1>2 DEF TurnInv
<1>3. x # p /\ pc[x] = "lp_turn"
  BY <1>1, Others
<1>4. p \in DOMAIN pc /\ p \in DOMAIN ex_try /\ p \notin woken'
  BY <1>1, Others DEF TypeOK
<1>5. CASE x \in woken
  <2>1. Boarded(q) \/ Refused(q)
    BY <1>3, <1>5 DEF TurnInv
  <2>2. CASE q # p
    BY <2>1, <2>2, RefusedOthers DEF Boarded
  <2>3. CASE q = p /\ Boarded(p)
    <3>1. WaitDestination(p) \/ Leave(p)
      BY <1>1, <2>3, From, Point DEF Boarded
    <3> QED BY <1>4, <2>3, <3>1 DEF WaitDestination, Leave, Goto, Boarded
  <2>4. CASE q = p /\ Refused(p)
    <3>1. pc[p] = "request" /\ ex_try[p]
      BY <2>4, From DEF Refused, Waits
    <3>2. WaitIdle(p)
      BY <1>1, <3>1, Point DEF Request, TriedBefore
    <3>3. pc'[p] = "is_idle"
      BY <1>4, <3>2 DEF WaitIdle, Goto
    <3> QED BY <1>4, <2>4, <3>3 DEF Refused
  <2> QED BY <2>1, <2>2, <2>3, <2>4
<1>6. CASE x \notin woken
  <2>1. HpDenied(p) \/ HpBoards(p)
    BY <1>1, <1>3, <1>6, Others
  <2>2. HighPriority(p)
    BY <2>1 DEF HpDenied, HpBoards
  <2>3. q = p
    BY <1>1, <2>2, Mixed
  <2>4. CASE HpDenied(p)
    BY <1>4, <2>3, <2>4 DEF HpDenied, Deny, Goto, Refused
  <2>5. CASE HpBoards(p)
    BY <1>4, <2>3, <2>5 DEF HpBoards, Board, Goto, Boarded
  <2> QED BY <2>1, <2>4, <2>5
<1> QED BY <1>5, <1>6

LEMMA PromptPerson ==
  ASSUME Served, PInv, NEW p \in Person, PersonStep(p)
  PROVE  PromptInv'
<1>1. BuildInv' /\ AheadInv' /\ EmptyInv' /\ SeenInv' /\ TurnInv'
  BY BuildPerson, AheadPerson, EmptyPerson, SeenPerson, TurnPerson
<1>2. TravelInv'
  BY PersonTurn DEF TravelInv
<1>3. \A q \in eleVector' : Rides(q)'
  BY RidesPerson
<1>4. \A q \in Person : Calls(q)'
  BY CallsOthers, CallsSelf
<1>5. \A q \in Person : Tries(q)' /\ Counts(q)' /\ ComesFirst(q)'
  BY TriesPerson, CountsPerson, FirstPerson
<1> QED BY <1>1, <1>2, <1>3, <1>4, <1>5 DEF PromptInv

-----------------------------------------------------------------------------
(* The prompt schedule: the controller's step preserves the invariant.     *)

\* When nobody can move, all persons are asleep or done, nobody is about to
\* leave, and a moving elevator has a stop to go to.
LEMMA AllQuiet ==
  ASSUME Served, PInv, Quiet
  PROVE  /\ \A p \in Person : /\ p \notin woken
                              /\ pc[p] \in {"done", "is_idle", "in_stopped", "out_stopped", "lp_turn"}
                              /\ pc[p] = "in_stopped" => In(destQueue, InitialFloor(p))
                              /\ pc[p] = "is_idle" => state # "Idle"
         /\ \A p \in eleVector : In(destQueue, Destination(p)) /\ pc[p] = "out_stopped"
         /\ state = "Idle" <=> destQueue = <<>>
<1> USE DEF PInv, PromptInv
<1>1. TypeOK /\ LoadInv
  BY DEF IInv
<1>2. \A p \in Person : pc[p] = "done" \/ (pc[p] \in Waits /\ p \notin woken)
  BY ServedFacts DEF Quiet
<1>3. \A p \in Person : p \notin woken
  BY <1>1, <1>2 DEF TypeOK, Waiting, Waits
<1>4. Leavers(eleVector) = {}
  BY <1>3, LeaversReleased
<1>5. \A p \in Person : pc[p] \in {"done", "is_idle", "in_stopped", "out_stopped", "lp_turn"}
  BY <1>2, <1>3, <1>4 DEF Waits, Calls
<1>6. \A p \in Person : pc[p] = "in_stopped" => In(destQueue, InitialFloor(p))
  BY <1>3 DEF Calls
<1>7. \A p \in Person : pc[p] = "is_idle" => state # "Idle"
  BY <1>3 DEF Tries, Refused
<1>8. \A p \in eleVector : In(destQueue, Destination(p)) /\ pc[p] = "out_stopped"
  BY <1>1, <1>3, <1>5 DEF Rides, LoadInv
<1>9. \A p \in Person : ~Willing(p)
  BY <1>3, <1>5 DEF Willing
<1>10. state = "Idle" <=> destQueue = <<>>
  BY <1>9 DEF AheadInv, EmptyInv
<1> QED BY <1>3, <1>5, <1>6, <1>7, <1>8, <1>10
\* Where the controller's outer loop goes: it ends when all are served, waits
\* when there is no request, and travels otherwise, never looping on.
LEMMA OuterLoop ==
  ASSUME Served, PInv, Quiet, cpc # "start", LoopTop(active_person, current_floor, woken)
  PROVE  /\ woken' = woken /\ cpc' \in {"idle", "travel", "exit"}
         /\ cpc' = "exit" => \A p \in Person : pc[p] = "done"
         /\ cpc' = "travel" =>
              /\ destQueue # <<>>
              /\ next_floor' = IF state = "Moving-up" THEN destQueue[1] ELSE destQueue[Len(destQueue)]
<1> USE DEF PInv, PromptInv
<1>1. TypeOK /\ LoadInv /\ AheadInv
  BY DEF IInv
<1>2. active_person = 0 => \A p \in Person : pc[p] = "done"
  <2>1. active_person = Cardinality(Unserved) /\ Unserved \in SUBSET Person
    BY <1>1 DEF LoadInv, Unserved
  <2>2. active_person = 0 => Unserved = {}
    BY <2>1, PersonFinite, FS_EmptySet
  <2> QED BY <2>2 DEF Unserved
<1>3. CASE active_person = 0
  BY <1>2, <1>3 DEF LoopTop
<1>4. CASE active_person # 0 /\ state = "Idle"
  <2>1. Waiting({"is_idle"}) = {}
    BY <1>4, AllQuiet DEF Waiting
  <2> QED BY <1>4, <2>1 DEF LoopTop
<1>5. CASE active_person # 0 /\ state # "Idle"
  <2>1. destQueue # <<>>
    BY <1>5, AllQuiet
  <2>2. destQueue[1] \in Floor /\ In(destQueue, destQueue[1])
    BY <1>1, <2>1, InEnds DEF IInv, TypeOK
  <2>3. CanMove(current_floor)
    <3>1. current_floor \in Int /\ current_floor < NumFloors /\ current_floor >= 0
      BY <1>1, ConstantsAssumption DEF AheadInv, Floor
    <3>2. state = "Moving-down" => current_floor # 0
      BY <1>1, <2>2, <3>1, ConstantsAssumption DEF AheadInv, Floor
    <3>3. state = "Moving-up" \/ state = "Moving-down"
      BY <1>1, <1>5 DEF TypeOK
    <3> QED BY <3>1, <3>2, <3>3 DEF CanMove
  <2> QED BY <1>5, <2>1, <2>3 DEF LoopTop, NextFloors
<1> QED BY <1>3, <1>4, <1>5

\* A step that moves only the controller.
LEMMA ControlOnly ==
  ASSUME PInv, UNCHANGED <<people, lift, eleVector, prio, pc, woken, undefined>>,
         cpc' \in {"idle", "travel", "exit"} \/ cpc' = cpc,
         cpc' = "exit" => \A p \in Person : pc[p] = "done",
         TravelInv',
         \A p \in eleVector : In(destQueue, Destination(p)) \/ cpc' = cpc,
         \A p \in Person : ComesFirst(p)'
  PROVE  PromptInv'
<1> USE DEF PInv, PromptInv, people, lift, prio
<1>1. \A p \in Person : /\ InitialFloor(p)' = InitialFloor(p) /\ Destination(p)' = Destination(p)
                        /\ HighPriority(p)' = HighPriority(p)
  BY DEF InitialFloor, Destination, HighPriority
<1>2. \A p \in Person : Here(p)' = Here(p) /\ Toward(p)' = Toward(p)
                        /\ Refused(p)' = Refused(p) /\ isEligible(p)' = isEligible(p)
  BY <1>1 DEF Here, Toward, Refused, GoesUp, GoesDown, isEligible
<1>3. /\ Leavers(eleVector)' = Leavers(eleVector) /\ VectorBuilt' = VectorBuilt
      /\ \A p, q \in Person : Together(p, q)' = Together(p, q)
      /\ \A p \in Person : Counted(p)' = Counted(p) /\ Boarded(p)' = Boarded(p)
                           /\ Willing(p)' = Willing(p)
  BY <1>1, <1>2 DEF Leavers, Destination, VectorBuilt, Together, HighPriority, InitialFloor,
                    Counted, Boarded, Willing
<1>4. BuildInv'
  BY <1>3 DEF BuildInv
<1>5. AheadInv' /\ SeenInv' /\ TurnInv'
  BY <1>2, <1>3 DEF AheadInv, SeenInv, TurnInv
<1>6. EmptyInv'
  BY <1>2, <1>3 DEF EmptyInv
<1>7. \A p \in eleVector' : Rides(p)'
  BY DEF Rides, Destination
<1>8. ASSUME NEW p \in Person PROVE Calls(p)' /\ Tries(p)' /\ Counts(p)'
  <2>1. Calls(p) /\ Tries(p) /\ Counts(p)
    OBVIOUS
  <2>2. Calls(p)'
    BY <1>1, <1>2, <1>3, <2>1 DEF Calls
  <2>3. Tries(p)'
    BY <1>1, <1>2, <2>1 DEF Tries
  <2>4. Counts(p)'
    BY <1>1, <1>3, <2>1 DEF Counts
  <2> QED BY <2>2, <2>3, <2>4
<1> QED BY <1>4, <1>5, <1>6, <1>7, <1>8

\* In a quiet state no hp person is on the first way to the door.
LEMMA QuietFirst ==
  ASSUME Served, PInv, Quiet, UNCHANGED <<trip, pc, first_try>>, NEW p \in Person
  PROVE  ComesFirst(p)'
<1>1. pc[p] \in {"done", "is_idle", "in_stopped", "out_stopped", "lp_turn"} /\ ComesFirst(p)
  BY AllQuiet DEF PInv, PromptInv
<1>2. HighPriority(p)' = HighPriority(p) /\ InitialFloor(p)' = InitialFloor(p)
  BY DEF HighPriority, InitialFloor
<1> QED BY <1>1, <1>2 DEF ComesFirst, Boarded

LEMMA QuietTravel ==
  ASSUME Quiet, UNCHANGED <<state, destQueue, pc, woken>>,
         cpc' = "travel" =>
           /\ destQueue # <<>>
           /\ next_floor' = IF state = "Moving-up" THEN destQueue[1] ELSE destQueue[Len(destQueue)]
  PROVE  TravelInv'
<1>1. Quiet'
  BY DEF Quiet
<1> QED BY <1>1 DEF TravelInv

LEMMA PromptStart ==
  ASSUME Served, PInv, ControllerStart
  PROVE  PromptInv'
<1> USE DEF PInv, PromptInv
<1>1. state = "Idle" /\ \A p \in Person : pc[p] = "start"
  BY DEF ControllerStart, BuildInv
<1>2. Waiting({"is_idle"}) = {} /\ eleVector = {}
  BY <1>1 DEF Waiting, IInv, LoadInv
<1>3. cpc' = "idle" /\ woken' = woken
  BY <1>1, <1>2, ConstantsAssumption DEF ControllerStart, LoopTop
<1>4. UNCHANGED <<people, lift, eleVector, prio, pc, undefined>>
  BY DEF ControllerStart
<1>5. TravelInv'
  BY <1>3 DEF TravelInv
<1>6. ASSUME NEW p \in Person PROVE ComesFirst(p)'
  <2>1. ComesFirst(p)
    OBVIOUS
  <2>2. HighPriority(p)' = HighPriority(p) /\ InitialFloor(p)' = InitialFloor(p)
    BY <1>4 DEF HighPriority, InitialFloor, people
  <2> QED BY <1>3, <1>4, <2>1, <2>2 DEF ComesFirst, Boarded, people, lift
<1> QED BY <1>2, <1>3, <1>4, <1>5, <1>6, ControlOnly

LEMMA PromptLoop ==
  ASSUME Served, PInv, IdleEnds \/ InOutEnds
  PROVE  PromptInv'
<1>1. Quiet /\ cpc # "start"
  BY ServedFacts DEF IdleEnds, InOutEnds, TimedWaits
<1>2. /\ LoopTop(active_person, current_floor, woken)
      /\ UNCHANGED <<people, lift, eleVector, prio, pc, undefined>>
  BY DEF IdleEnds, InOutEnds, load
<1>3. /\ woken' = woken /\ cpc' \in {"idle", "travel", "exit"}
      /\ cpc' = "exit" => \A p \in Person : pc[p] = "done"
      /\ cpc' = "travel" =>
           /\ destQueue # <<>>
           /\ next_floor' = IF state = "Moving-up" THEN destQueue[1] ELSE destQueue[Len(destQueue)]
  BY <1>1, <1>2, OuterLoop
<1>4. TravelInv'
  BY <1>1, <1>2, <1>3, QuietTravel DEF lift
<1>5. \A p \in Person : ComesFirst(p)'
  BY <1>1, <1>2, QuietFirst DEF people
<1>6. \A p \in eleVector : In(destQueue, Destination(p))
  BY <1>1, AllQuiet
<1> QED BY <1>2, <1>3, <1>4, <1>5, <1>6, ControlOnly
\* Travelling: the floor ahead is in the shaft, the next stop if it is queued,
\* and the other stops are behind it.
LEMMA Travels ==
  ASSUME PInv, cpc = "travel"
  PROVE  /\ FloorAhead \in Floor /\ state # "Idle"
         /\ FloorAhead = next_floor <=> In(destQueue, FloorAhead)
         /\ FloorAhead # next_floor => CanMove(FloorAhead)
         /\ \A f \in Floor : In(destQueue, f) /\ f # FloorAhead =>
              /\ state = "Moving-up" => f > FloorAhead
              /\ state = "Moving-down" => f < FloorAhead
<1> USE DEF PInv, PromptInv
<1>1. /\ destQueue \in Seq(Floor) /\ Ascending(destQueue) /\ destQueue # <<>>
      /\ state \in {"Idle", "Moving-up", "Moving-down"}
      /\ next_floor = IF state = "Moving-up" THEN destQueue[1] ELSE destQueue[Len(destQueue)]
  BY DEF IInv, TypeOK, TravelInv
<1>2. state # "Idle"
  BY <1>1 DEF AheadInv
<1>3. /\ destQueue[1] \in Floor /\ destQueue[Len(destQueue)] \in Floor
      /\ In(destQueue, destQueue[1]) /\ In(destQueue, destQueue[Len(destQueue)])
      /\ \A g : In(destQueue, g) => destQueue[1] <= g /\ g <= destQueue[Len(destQueue)]
  BY <1>1, InEnds
<1>4. next_floor \in Floor /\ In(destQueue, next_floor)
  BY <1>1, <1>3
<1>5. /\ current_floor \in Int /\ current_floor >= 0 /\ current_floor < NumFloors
      /\ next_floor \in Int /\ next_floor >= 0 /\ next_floor < NumFloors
      /\ \A f \in Floor : f \in Int
  BY <1>4, ConstantsAssumption DEF AheadInv, Floor
<1>6. CASE state = "Moving-up"
  <2>1. next_floor > current_floor /\ \A f \in Floor : In(destQueue, f) => next_floor <= f
    BY <1>1, <1>3, <1>4, <1>6 DEF AheadInv
  <2>2. FloorAhead = current_floor + 1
    BY <1>6 DEF FloorAhead
  <2>3. FloorAhead \in Floor /\ FloorAhead <= next_floor
    BY <1>5, <2>1, <2>2, ConstantsAssumption DEF Floor
  <2>4. FloorAhead = next_floor <=> In(destQueue, FloorAhead)
    BY <1>4, <1>5, <2>1, <2>3
  <2>5. CanMove(FloorAhead)
    <3>1. FloorAhead \in Int /\ FloorAhead <= next_floor
      BY <1>5, <2>3
    <3>2. FloorAhead < NumFloors
      BY <1>5, <3>1, ConstantsAssumption
    <3> QED BY <1>6, <3>2 DEF CanMove
  <2>6. \A f \in Floor : In(destQueue, f) /\ f # FloorAhead => f > FloorAhead
    BY <1>5, <2>1, <2>3
  <2> QED BY <1>6, <2>3, <2>4, <2>5, <2>6
<1>7. CASE state = "Moving-down"
  <2>1. next_floor < current_floor /\ \A f \in Floor : In(destQueue, f) => f <= next_floor
    BY <1>1, <1>3, <1>4, <1>7 DEF AheadInv
  <2>2. FloorAhead = current_floor - 1
    BY <1>7 DEF FloorAhead
  <2>3. FloorAhead \in Floor /\ next_floor <= FloorAhead
    BY <1>5, <2>1, <2>2, ConstantsAssumption DEF Floor
  <2>4. FloorAhead = next_floor <=> In(destQueue, FloorAhead)
    BY <1>4, <1>5, <2>1, <2>3
  <2>5. FloorAhead # next_floor => CanMove(FloorAhead)
    BY <1>5, <1>7, <2>3 DEF CanMove
  <2>6. \A f \in Floor : In(destQueue, f) /\ f # FloorAhead => f < FloorAhead
    BY <1>5, <2>1, <2>3
  <2> QED BY <1>7, <2>3, <2>4, <2>5, <2>6
<1> QED BY <1>1, <1>2, <1>6, <1>7

LEMMA PromptPass ==
  ASSUME Served, PInv, Pass
  PROVE  PromptInv'
<1> USE DEF PInv, PromptInv, people, lift, prio, ctl
<1>1. Quiet /\ cpc = "travel" /\ FloorAhead # next_floor
  BY ServedFacts DEF Pass, TimedWaits
<1>2. /\ FloorAhead \in Floor /\ state # "Idle" /\ ~In(destQueue, FloorAhead)
      /\ CanMove(FloorAhead)
      /\ \A f \in Floor : In(destQueue, f) /\ f # FloorAhead =>
           /\ state = "Moving-up" => f > FloorAhead
           /\ state = "Moving-down" => f < FloorAhead
  BY <1>1, Travels
<1>3. /\ current_floor' = FloorAhead
      /\ UNCHANGED <<trip, ex_try, first_try, state, destQueue, eleVector, prioVector, seen,
                     pc, woken, undefined, cpc, next_floor>>
  BY <1>2 DEF Pass, load
<1>4. \A p \in Person : /\ InitialFloor(p)' = InitialFloor(p) /\ Destination(p)' = Destination(p)
                        /\ HighPriority(p)' = HighPriority(p) /\ Refused(p)' = Refused(p)
                        /\ Counted(p)' = Counted(p) /\ Boarded(p)' = Boarded(p)
  BY <1>3 DEF InitialFloor, Destination, HighPriority, Refused, Counted, Boarded
<1>5. \A p, q \in Person : Together(p, q)' = Together(p, q)
  BY <1>4 DEF Together
<1>6. /\ \A p \in Person : /\ p \notin woken
                           /\ pc[p] \in {"done", "is_idle", "in_stopped", "out_stopped", "lp_turn"}
                           /\ pc[p] = "in_stopped" => In(destQueue, InitialFloor(p))
      /\ \A p \in eleVector : In(destQueue, Destination(p))
      /\ destQueue # <<>>
  BY <1>1, <1>2, AllQuiet
<1>7. BuildInv'
  BY <1>3 DEF BuildInv, VectorBuilt
<1>8. TravelInv'
  BY <1>3, <1>1 DEF TravelInv, Quiet
<1>9. AheadInv'
  BY <1>2, <1>3 DEF AheadInv
<1>10. EmptyInv' /\ SeenInv' /\ TurnInv'
  BY <1>3, <1>4, <1>5, <1>6 DEF EmptyInv, SeenInv, TurnInv
<1>11. \A p \in eleVector' : Rides(p)'
  BY <1>3, <1>6 DEF Rides, Destination
<1>12. ASSUME NEW p \in Person PROVE Calls(p)' /\ Tries(p)' /\ Counts(p)' /\ ComesFirst(p)'
  <2>1. Calls(p) /\ Tries(p) /\ Counts(p)
    OBVIOUS
  <2>2. Calls(p)'
    BY <1>3, <1>4, <1>6, <2>1 DEF Calls
  <2>3. Tries(p)'
    BY <1>3, <1>4, <2>1 DEF Tries
  <2>4. Counts(p)'
    BY <1>3, <1>4, <1>5, <2>1 DEF Counts
  <2>5. ComesFirst(p)'
    BY <1>1, <1>3, QuietFirst
  <2> QED BY <2>2, <2>3, <2>4, <2>5
<1> QED BY <1>7, <1>8, <1>9, <1>10, <1>11, <1>12

LEMMA PromptStop ==
  ASSUME Served, PInv, Stop
  PROVE  PromptInv'
<1> USE DEF PInv, PromptInv, people, lift, prio
<1>1. Quiet /\ cpc = "travel" /\ FloorAhead = next_floor
  BY ServedFacts DEF Stop, TimedWaits
<1>2. /\ FloorAhead \in Floor /\ state # "Idle"
      /\ \A f \in Floor : In(destQueue, f) /\ f # FloorAhead =>
           /\ state = "Moving-up" => f > FloorAhead
           /\ state = "Moving-down" => f < FloorAhead
  BY <1>1, Travels
<1>3. /\ current_floor' = FloorAhead /\ cpc' = "in_out"
      /\ UNCHANGED <<trip, ex_try, first_try, eleVector, prioVector, seen, pc, undefined>>
      /\ destQueue' = IF state = "Moving-up" THEN Tail(destQueue) ELSE Front(destQueue)
      /\ state' = IF destQueue' = <<>> THEN "Idle" ELSE state
      /\ woken' = woken \cup Waiting({"in_stopped", "out_stopped"})
                        \cup IF destQueue' = <<>> THEN Waiting({"is_idle"}) ELSE {}
  BY DEF Stop, load
<1>4. \A f : In(destQueue', f) <=> In(destQueue, f) /\ f # FloorAhead
  <2>1. /\ destQueue \in Seq(Floor) /\ Ascending(destQueue) /\ destQueue # <<>>
        /\ FloorAhead = IF state = "Moving-up" THEN destQueue[1] ELSE destQueue[Len(destQueue)]
    BY <1>1 DEF IInv, TypeOK, TravelInv
  <2> QED BY <1>3, <2>1, InEnds
<1>5. \A p \in Person : /\ InitialFloor(p)' = InitialFloor(p) /\ Destination(p)' = Destination(p)
                        /\ HighPriority(p)' = HighPriority(p)
                        /\ Counted(p)' = Counted(p) /\ Boarded(p)' = Boarded(p)
  BY <1>3 DEF InitialFloor, Destination, HighPriority, Counted, Boarded
<1>6. \A p, q \in Person : Together(p, q)' = Together(p, q)
  BY <1>5 DEF Together
<1>7. /\ \A p \in Person : /\ p \notin woken
                           /\ pc[p] \in {"done", "is_idle", "in_stopped", "out_stopped", "lp_turn"}
                           /\ pc[p] = "in_stopped" => In(destQueue, InitialFloor(p))
      /\ \A p \in eleVector : In(destQueue, Destination(p)) /\ pc[p] = "out_stopped"
  BY <1>1, AllQuiet
<1>8. \A p \in Person : /\ pc[p] \in {"in_stopped", "out_stopped"} => p \in woken'
                        /\ pc[p] = "lp_turn" => p \notin woken'
                        /\ Refused(p)' => state' # "Idle"
  <2>1. Waiting({"in_stopped", "out_stopped"}) \subseteq woken'
    BY <1>3
  <2>2. \A p \in Person : p \in woken' => pc[p] \in {"in_stopped", "out_stopped", "is_idle"}
    BY <1>3, <1>7 DEF Waiting
  <2>3. ASSUME NEW p \in Person, Refused(p)' PROVE state' # "Idle"
    <3>1. pc[p] = "is_idle" /\ p \notin woken'
      BY <1>3, <1>7, <2>3 DEF Refused
    <3>2. destQueue' # <<>>
      BY <1>3, <3>1 DEF Waiting
    <3> QED BY <1>2, <1>3, <3>2
  <2> QED BY <2>1, <2>2, <2>3 DEF Waiting
<1>9. BuildInv'
  BY <1>1, <1>3 DEF BuildInv, VectorBuilt
<1>10. TravelInv'
  BY <1>3 DEF TravelInv
<1>11. AheadInv'
  <2>1. \A f \in Floor : In(destQueue', f) =>
          /\ state' = "Moving-up" => f > FloorAhead
          /\ state' = "Moving-down" => f < FloorAhead
    BY <1>2, <1>3, <1>4
  <2>2. state' = "Idle" => destQueue' = <<>>
    BY <1>2, <1>3
  <2> QED BY <1>2, <1>3, <2>1, <2>2 DEF AheadInv
<1>12. EmptyInv' /\ SeenInv' /\ TurnInv'
  BY <1>3, <1>5, <1>6, <1>8 DEF EmptyInv, SeenInv, TurnInv
<1>13. ASSUME NEW p \in eleVector' PROVE Rides(p)'
  <2>1. /\ p \in Person /\ pc'[p] = "out_stopped" /\ In(destQueue, Destination(p))
        /\ p \in woken' /\ Destination(p)' = Destination(p)
    BY <1>3, <1>5, <1>7, <1>8 DEF IInv, TypeOK
  <2>2. In(destQueue, Destination(p)) => In(destQueue', Destination(p)) \/ Destination(p) = FloorAhead
    BY <1>4
  <2> QED BY <1>3, <2>1, <2>2 DEF Rides
<1>14. ASSUME NEW p \in Person PROVE Calls(p)' /\ Tries(p)' /\ Counts(p)' /\ ComesFirst(p)'
  <2>1. Calls(p) /\ Tries(p) /\ Counts(p)
    OBVIOUS
  <2>2. Calls(p)'
    <3>1. pc[p] = "in_stopped" => In(destQueue', InitialFloor(p)) \/ InitialFloor(p) = FloorAhead
      BY <1>4, <1>7
    <3>2. pc'[p] = "in_stopped" => In(destQueue', InitialFloor(p)') \/ (Here(p)' /\ p \in woken')
      BY <1>3, <1>5, <1>8, <3>1 DEF Here
    <3>3. pc'[p] = "lp_turn" => /\ p \notin woken' /\ InitialFloor(p)' \in DOMAIN prioVector'
                                /\ prioVector'[InitialFloor(p)'] > 0
      BY <1>3, <1>5, <1>7, <1>8, <2>1 DEF Calls
    <3>4. pc'[p] \notin {"bump", "bumping", "enter", "enter_ele"}
      BY <1>3, <1>7
    <3> QED BY <3>2, <3>3, <3>4 DEF Calls
  <2>3. Tries(p)'
    BY <1>3, <1>5, <1>8, <2>1 DEF Tries
  <2>4. Counts(p)'
    BY <1>3, <1>5, <1>6, <2>1 DEF Counts
  <2>5. ComesFirst(p)'
    BY <1>1, <1>3, QuietFirst
  <2> QED BY <2>2, <2>3, <2>4, <2>5
<1> QED BY <1>9, <1>10, <1>11, <1>12, <1>13, <1>14

LEMMA PromptController ==
  ASSUME Served, PInv, ControllerStep
  PROVE  PromptInv' /\ ~PopEmpty
<1>1. ~PopEmpty
  BY DEF PopEmpty, Expires, PInv, PromptInv, TravelInv
<1> QED BY <1>1, PromptStart, PromptLoop, PromptPass, PromptStop DEF ControllerStep

LEMMA PromptInit == Served /\ Init => PInv
<1> SUFFICES ASSUME Served, Init PROVE PInv
  OBVIOUS
<1>1. IInv /\ WeightInv
  BY InitIInv, WeightFirst
<1>2. BuildInv /\ TravelInv /\ AheadInv /\ EmptyInv
  BY ConstantsAssumption DEF Init, BuildInv, TravelInv, AheadInv, EmptyInv, Floor, In
<1>3. SeenInv /\ TurnInv
  BY DEF Init, SeenInv, TurnInv
<1>4. \A p \in eleVector : Rides(p)
  BY DEF Init
<1>5. ASSUME NEW p \in Person PROVE Calls(p) /\ Tries(p) /\ Counts(p) /\ ComesFirst(p)
  <2>1. pc[p] = "start" /\ ~ex_try[p] /\ first_try[p] /\ current_floor = 0 /\ cpc = "start"
    BY DEF Init
  <2>2. DOMAIN prioVector = {}
    BY DEF Init
  <2> QED BY <2>1, <2>2 DEF Calls, Tries, Refused, Counts, ComesFirst
<1> QED BY <1>1, <1>2, <1>3, <1>4, <1>5 DEF PInv, PromptInv
LEMMA PromptNext ==
  ASSUME Served, PInv, [Next]_vars
  PROVE  PInv'
<1>1. IInv' /\ WeightInv'
  BY NextIInv, WeightStep DEF PInv
<1>2. CASE UNCHANGED vars
  <2> USE <1>2 DEF PInv, PromptInv, vars, people, lift, load, limits, prio, ctl
  <2>1. \A p \in Person : ComesFirst(p)'
    BY DEF ComesFirst, Boarded, HighPriority, InitialFloor
  <2>2. TravelInv'
    BY DEF TravelInv, Quiet
  <2>3. cpc' = "exit" => \A p \in Person : pc[p] = "done"
    BY DEF BuildInv
  <2>4. PromptInv'
    BY <2>1, <2>2, <2>3, ControlOnly
  <2> QED BY <1>1, <2>4
<1>3. ASSUME NEW p \in Person, PersonStep(p) PROVE PromptInv'
  BY <1>3, PromptPerson
<1>4. ASSUME ControllerStep PROVE PromptInv'
  BY <1>4, PromptController
<1> QED BY <1>1, <1>2, <1>3, <1>4 DEF Next, Joined, PInv

\* Under the prompt schedule.
LEMMA PromptInductive ==
  ASSUME Served
  PROVE  Spec => []PInv
<1>1. Init => PInv
  BY PromptInit
<1>2. PInv /\ [Next]_vars => PInv'
  BY PromptNext
<1> QED BY <1>1, <1>2, PTL DEF Spec

-----------------------------------------------------------------------------
(* The theorems of the prompt schedule.                                    *)

\* The controller never loops with the mutex held (lines 275-322).
THEOREM NeverSpinning ==
  ASSUME PromptSchedule, \A t \in Trips : CountsRight(t)
  PROVE  Spec => []NeverSpins
<1>1. PInv => NeverSpins
  BY DEF PInv, PromptInv, BuildInv, NeverSpins
<1>2. Served
  BY DEF Served
<1> QED BY <1>1, <1>2, PromptInductive, PTL

\* The elevator never carries a rider away from the destination (lines
\* 146-161, 190-196).
THEOREM RidersCarried ==
  ASSUME PromptSchedule, \A t \in Trips : CountsRight(t)
  PROVE  Spec => []RidersAhead
<1>1. PInv => RidersAhead
  <2> SUFFICES ASSUME PInv, NEW p \in eleVector
               PROVE  \/ Destination(p) = current_floor
                      \/ state = "Moving-up" /\ Destination(p) > current_floor
                      \/ state = "Moving-down" /\ Destination(p) < current_floor
    BY DEF RidersAhead
  <2> USE DEF PInv, PromptInv
  <2>1. TypeOK /\ p \in Person
    BY DEF IInv, TypeOK
  <2>2. Destination(p) \in Floor /\ state \in {"Idle", "Moving-up", "Moving-down"}
    BY <2>1, TripType DEF TypeOK
  <2>3. In(destQueue, Destination(p)) => state # "Idle"
    BY <2>1, InSome DEF AheadInv, TypeOK
  <2> QED BY <2>2, <2>3 DEF Rides, AheadInv
<1>2. Served
  BY DEF Served
<1> QED BY <1>1, <1>2, PromptInductive, PTL

\* Whoever waits on a condition has someone who will still signal it (lines
\* 165, 178, 188, 216, 241).
THEOREM SignalsComing ==
  ASSUME PromptSchedule, \A t \in Trips : CountsRight(t)
  PROVE  Spec => []NoLostWakeup
<1>1. ASSUME Served, PInv PROVE NoLostWakeup
  <2> USE <1>1 DEF PInv, PromptInv
  <2> SUFFICES ASSUME NEW p \in Person, p \notin woken
               PROVE  /\ pc[p] = "in_stopped"  => Queued(InitialFloor(p))
                      /\ pc[p] = "out_stopped" => Queued(Destination(p))
                      /\ pc[p] = "enter_ele"   => Leavers(eleVector) # {}
                      /\ pc[p] = "lp_turn"     => \E q \in Person \ eleVector :
                           /\ HighPriority(q) /\ InitialFloor(q) = InitialFloor(p) /\ pc[q] # "done"
                      /\ pc[p] = "is_idle" /\ cpc = "idle" => state # "Idle"
    BY Zenon DEF NoLostWakeup
  <2>1. \A f : Queued(f) <=> In(destQueue, f)
    BY DEF Queued, In
  <2>2. pc[p] = "in_stopped" => Queued(InitialFloor(p))
    BY <2>1 DEF Calls
  <2>3. pc[p] = "out_stopped" => Queued(Destination(p))
    BY <2>1 DEF IInv, LoadInv, Rides
  <2>4. pc[p] = "enter_ele" => Leavers(eleVector) # {}
    BY DEF Calls
  <2>5. ASSUME pc[p] = "lp_turn"
        PROVE  \E q \in Person \ eleVector :
                 /\ HighPriority(q) /\ InitialFloor(q) = InitialFloor(p) /\ pc[q] # "done"
    <3>1. /\ ~HighPriority(p) /\ InitialFloor(p) \in DOMAIN prioVector
          /\ prioVector[InitialFloor(p)] > 0
      BY <2>5 DEF Calls, Tries
    <3>2. PICK q \in Person : Together(p, q) /\ Counted(q)
      BY <3>1 DEF Counts
    <3>3. q \notin eleVector /\ pc[q] # "done"
      BY <3>2 DEF Counted, IInv, LoadInv
    <3> QED BY <3>2, <3>3 DEF Together
  <2>6. pc[p] = "is_idle" => state # "Idle"
    BY DEF Tries, Refused
  <2> QED BY <2>2, <2>3, <2>4, <2>5, <2>6
<1>2. Served
  BY DEF Served
<1>3. PInv => NoLostWakeup
  BY <1>1, <1>2
<1> QED BY <1>2, <1>3, PromptInductive, PTL

-----------------------------------------------------------------------------
(* The prompt schedule: the monitor implements LiftService.                *)

Whereabouts == [p \in Person |-> IF pc[p] = "done" THEN "served"
                                 ELSE IF p \in eleVector THEN "aboard" ELSE "waiting"]

\* What LiftService says of the monitor's state and steps.
LEMMA ServiceMeaning ==
  ASSUME LoadInv
  PROVE  /\ Service!Riders = eleVector
         /\ Service!vars = <<trip, current_floor, Whereabouts, cpc = "exit">>
         /\ \A S : Service!Cardinality(S) = Cardinality(S)
         /\ \A S : Service!MapThenSumSet(LAMBDA q : trip[q].weight, S) = Weight(trip, S)
<1>1. Service!Riders = eleVector
  BY DEF Service!Riders, LoadInv
<1>2. Service!vars = <<trip, current_floor, Whereabouts, cpc = "exit">>
  BY Zenon DEF Service!vars, Whereabouts
<1>3. \A S : Service!Cardinality(S) = Cardinality(S)
  BY Zenon DEF Service!Cardinality, Cardinality
<1>4. \A S : Service!MapThenSumSet(LAMBDA q : trip[q].weight, S) = Weight(trip, S)
  BY Zenon DEF Service!MapThenSumSet, Service!MapThenFoldSet, Weight, MapThenSumSet,
               MapThenFoldSet
<1> QED BY <1>1, <1>2, <1>3, <1>4

LEMMA ServiceStarts == Init => Service!Init
<1> SUFFICES ASSUME Init PROVE Service!Init
  OBVIOUS
<1>1. /\ trip \in Trips /\ current_floor = 0 /\ cpc = "start"
      /\ \A p \in Person : pc[p] = "start" /\ p \notin eleVector
  BY DEF Init
<1> QED BY <1>1 DEF Service!Init

\* Nobody changes sides and the elevator stays.
LEMMA ServiceStutters ==
  ASSUME UNCHANGED <<trip, current_floor, eleVector>>, (cpc' = "exit") = (cpc = "exit"),
         \A p \in Person : pc'[p] = "done" <=> pc[p] = "done"
  PROVE  UNCHANGED Service!vars
<1>1. Whereabouts' = Whereabouts
  BY DEF Whereabouts
<1> QED BY <1>1 DEF Service!vars, Whereabouts

\* A stop or a floor passed.
LEMMA ServiceMoves ==
  ASSUME TypeOK, FloorAhead \in Floor, current_floor' = FloorAhead, cpc # "exit", cpc' # "exit",
         UNCHANGED <<trip, pc, eleVector>>
  PROVE  Service!Move
<1>1. FloorAhead \in {current_floor - 1, current_floor + 1}
  BY DEF FloorAhead
<1>2. FloorAhead \in 0 .. NumFloors - 1
  BY DEF Floor
<1>3. Whereabouts' = Whereabouts
  BY DEF Whereabouts
<1>4. (cpc' = "exit") = (cpc = "exit")
  OBVIOUS
<1> QED BY <1>1, <1>2, <1>3, <1>4 DEF Service!Move, Whereabouts

\* An hp or lp person boards.
LEMMA ServiceBoards ==
  ASSUME Served, PInv, NEW p \in Person, PersonStep(p), Boarding(p)
  PROVE  Service!BoardLift(p)
<1>1. /\ TypeOK /\ LoadInv /\ WeightInv /\ ControlInv
  BY DEF PInv, IInv
<1>2. cpc \notin {"start", "travel", "exit"} /\ UNCHANGED <<trip, current_floor, cpc>>
  BY PersonTurn
<1>3. Here(p) /\ Leavers(eleVector) = {} /\ ~Denied(p)
  BY <1>1, BoardAhead DEF PInv, PromptInv
<1>4. Board(p) /\ pc[p] \notin {"leave", "out_stopped", "done"}
  BY DEF Boarding, HpBoards, LpBoards, LpTurn, PastDoor, AtDoor, AtStopTest, Returns
<1>5. p \notin eleVector
  BY <1>1, <1>4 DEF LoadInv
<1>6. Cardinality(eleVector) < PersonCapacity
  <2>1. people_in_ele = Cardinality(eleVector) /\ people_in_ele \in Int
    BY <1>1 DEF LoadInv, TypeOK
  <2>2. ele_capacity \in Int /\ PersonCapacity \in Int /\ ele_capacity <= PersonCapacity
    BY <1>1, ConstantsAssumption DEF TypeOK
  <2>3. ~(people_in_ele + 1 > ele_capacity)
    BY <1>3 DEF Denied
  <2> QED BY <2>1, <2>2, <2>3
<1>7. Weight(trip, eleVector \cup {p}) <= WeightCapacity
  <2>1. Weighs(trip) /\ eleVector \cup {p} \in SUBSET Person
    BY <1>1, TripType DEF TypeOK, Weighs
  <2>2. (eleVector \cup {p}) \ {p} = eleVector
    BY <1>5
  <2>3. /\ Weight(trip, eleVector \cup {p}) \in Nat
        /\ Weight(trip, eleVector \cup {p}) = trip[p].weight + Weight(trip, eleVector)
    <3>1. \A S \in SUBSET Person : \A x \in S :
             Weight(trip, S) \in Nat /\ Weight(trip, S \ {x}) \in Nat
             /\ Weight(trip, S) = trip[x].weight + Weight(trip, S \ {x})
      BY <2>1, WeightOf, Zenon
    <3> QED BY <2>1, <2>2, <3>1
  <2>4. current_weight = Weight(trip, eleVector) /\ current_weight \in Int
    BY <1>1 DEF WeightInv, TypeOK
  <2>5. /\ weight_capacity \in Int /\ WeightCapacity \in Int /\ weight_capacity <= WeightCapacity
        /\ trip[p].weight \in Nat
    BY <1>1, <2>1, ConstantsAssumption DEF TypeOK, Weighs
  <2>6. ~(current_weight + trip[p].weight > weight_capacity)
    BY <1>3 DEF Denied, WeightWith
  <2> QED BY <2>3, <2>4, <2>5, <2>6
<1>8. /\ Whereabouts[p] = "waiting"
      /\ Whereabouts' = [Whereabouts EXCEPT ![p] = "aboard"]
  <2>1. eleVector' = eleVector \cup {p} /\ pc' = [pc EXCEPT ![p] = "leave"]
    BY <1>4 DEF Board, Goto
  <2>2. pc \in [Person -> Points]
    BY <1>1 DEF TypeOK
  <2> QED BY <1>4, <1>5, <2>1, <2>2 DEF Whereabouts
<1>9. \A q \in eleVector : trip[q].destination_floor # current_floor
  BY <1>3 DEF Leavers, Destination
<1>10. current_floor = trip[p].initial_floor /\ (cpc' = "exit") = (cpc = "exit")
  BY <1>2, <1>3 DEF Here, InitialFloor
<1>11. /\ Service!Riders = eleVector
       /\ Service!Cardinality(eleVector) = Cardinality(eleVector)
       /\ Service!MapThenSumSet(LAMBDA q : trip[q].weight, eleVector \cup {p})
            = Weight(trip, eleVector \cup {p})
  BY <1>1, ServiceMeaning
<1> QED BY <1>2, <1>6, <1>7, <1>8, <1>9, <1>10, <1>11 DEF Service!BoardLift, Whereabouts

\* A rider leaves.
LEMMA ServiceAlights ==
  ASSUME Served, PInv, NEW p \in Person, PersonStep(p), Leave(p)
  PROVE  Service!Alight(p)
<1>1. TypeOK /\ LoadInv
  BY DEF PInv, IInv
<1>2. cpc \notin {"start", "travel", "exit"} /\ UNCHANGED <<trip, current_floor, cpc>>
  BY PersonTurn
<1>3. pc[p] \in {"leave", "out_stopped"} /\ p \in eleVector
  BY <1>1 DEF Leave, AtExitTest, Returns, LoadInv
<1>4. eleVector' = eleVector \ {p} /\ pc' = [pc EXCEPT ![p] = "done"]
  BY DEF Leave, Goto
<1>5. pc \in [Person -> Points]
  BY <1>1 DEF TypeOK
<1>6. /\ Whereabouts[p] = "aboard"
      /\ Whereabouts' = [Whereabouts EXCEPT ![p] = "served"]
  BY <1>3, <1>4, <1>5 DEF Whereabouts
<1>7. current_floor = trip[p].destination_floor /\ (cpc' = "exit") = (cpc = "exit")
  BY <1>2 DEF Leave, Destination
<1> QED BY <1>2, <1>6, <1>7 DEF Service!Alight, Whereabouts

\* A person's step.
LEMMA ServicePerson ==
  ASSUME Served, PInv, NEW p \in Person, PersonStep(p)
  PROVE  Service!BoardLift(p) \/ Service!Alight(p) \/ UNCHANGED Service!vars
<1>1. TypeOK
  BY DEF PInv, IInv
<1>2. UNCHANGED <<trip, current_floor, cpc>>
  BY PersonTurn
<1>3. CASE ~Boarding(p) /\ ~Leave(p)
  <2>1. UNCHANGED load /\ \A q \in Person : pc'[q] = "done" <=> pc[q] = "done"
    BY <1>1, <1>3, LoadFrame DEF Boarding
  <2>2. (cpc' = "exit") = (cpc = "exit")
    BY <1>2
  <2> QED BY <1>2, <2>1, <2>2, ServiceStutters DEF load
<1> QED BY <1>3, ServiceBoards, ServiceAlights

\* A step of the controller: it travels, ends or keeps all it holds.
LEMMA ServiceController ==
  ASSUME Served, PInv, ControllerStep
  PROVE  Service!Move \/ Service!Close \/ UNCHANGED Service!vars
<1>1. TypeOK /\ PromptInv' /\ ~PopEmpty
  BY PromptController DEF PInv, IInv
<1>2. UNCHANGED <<trip, pc, eleVector>> /\ cpc # "exit"
  BY <1>1 DEF ControllerStep, ControllerStart, IdleEnds, Pass, Stop, InOutEnds, people, load,
              Expires
<1>3. CASE Pass \/ Stop
  <2>1. cpc = "travel" /\ current_floor' = FloorAhead
    BY <1>3 DEF Pass, Stop, Expires
  <2>2. /\ FloorAhead \in Floor
        /\ FloorAhead # next_floor => CanMove(FloorAhead)
    BY <2>1, Travels
  <2>3. cpc' # "exit"
    BY <1>3, <2>1, <2>2 DEF Pass, Stop, ctl
  <2> QED BY <1>1, <1>2, <2>1, <2>2, <2>3, ServiceMoves
<1>4. CASE ControllerStart \/ IdleEnds \/ InOutEnds
  <2>1. current_floor' = current_floor
    BY <1>4 DEF ControllerStart, IdleEnds, InOutEnds, lift
  <2>2. CASE cpc' # "exit"
    BY <1>2, <2>1, <2>2, ServiceStutters
  <2>3. CASE cpc' = "exit"
    <3>1. \A p \in Person : pc[p] = "done"
      BY <1>1, <1>2, <2>3 DEF PromptInv, BuildInv
    <3>2. Whereabouts' = Whereabouts /\ \A p \in Person : Whereabouts[p] = "served"
      BY <1>2, <3>1 DEF Whereabouts
    <3>3. (cpc' = "exit") = TRUE
      BY <2>3
    <3> QED BY <1>2, <2>1, <3>2, <3>3 DEF Service!Close, Whereabouts
  <2> QED BY <2>2, <2>3
<1> QED BY <1>1, <1>3, <1>4 DEF ControllerStep

\* Every step of the monitor is one of LiftService or leaves the passengers
\* where they are.
LEMMA ServiceSteps ==
  ASSUME Served, PInv, [Next]_vars
  PROVE  [Service!Next]_(Service!vars)
<1>1. ASSUME NEW p \in Person, PersonStep(p) PROVE [Service!Next]_(Service!vars)
  BY <1>1, ServicePerson DEF Service!Next
<1>2. ASSUME ControllerStep PROVE [Service!Next]_(Service!vars)
  BY <1>2, ServiceController DEF Service!Next
<1>3. ASSUME UNCHANGED vars PROVE [Service!Next]_(Service!vars)
  <2>1. /\ UNCHANGED <<trip, current_floor, eleVector, pc, cpc>>
        /\ (cpc' = "exit") = (cpc = "exit")
    BY <1>3 DEF vars, people, lift, load, ctl
  <2> QED BY <2>1, ServiceStutters
<1> QED BY <1>1, <1>2, <1>3 DEF Next, Joined

\* The monitor implements the service: persons board only on the floor of the
\* call, after those who leave and within both capacities, leave only at the
\* destination, and the controller ends when everybody has been served.
THEOREM LiftImplements ==
  ASSUME PromptSchedule, \A t \in Trips : CountsRight(t)
  PROVE  Spec => ImplementsService
<1>1. Served
  BY DEF Served
<1>2. PInv /\ [Next]_vars => [Service!Next]_(Service!vars)
  BY <1>1, ServiceSteps
<1> QED BY <1>1, <1>2, ServiceStarts, PromptInductive, PTL
        DEF Spec, ImplementsService, Service!Spec
=============================================================================

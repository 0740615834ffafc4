-------------------------- MODULE RoomSearchProofs --------------------------
(***************************************************************************)
(* Proofs about RoomSearch for any map, any locked rooms and any           *)
(* ammunition.                                                             *)
(*                                                                         *)
(* Facts that need induction are proved by the least counterexample.       *)
(***************************************************************************)
EXTENDS RoomSearch, TLAPS, FiniteSetTheorems, WellFoundedInduction

-----------------------------------------------------------------------------
(* Numbers and sets.                                                       *)

LEMMA LeastNat ==
  ASSUME NEW S, S \subseteq Nat, S # {}
  PROVE  \E n \in S : \A m \in S : n <= m
<1>1. PICK R : IsWellFoundedOn(R, Nat) /\ \A n, m \in Nat : <<m, n>> \in R <=> m < n
  <2>1. \A n, m \in Nat : <<m, n>> \in OpToRel(<, Nat) <=> m < n
    BY DEF OpToRel
  <2> QED BY <2>1, NatLessThanWellFounded, Zenon
<1>2. IsWellFoundedOn(R, Nat)
  BY <1>1
<1>3. PICK n \in S : \A m \in S : ~ (<<m, n>> \in R)
  BY <1>2, WFMin
<1>4. \A m \in S : n \in Nat /\ m \in Nat /\ ~ (m < n)
  BY <1>1, <1>3, Zenon
<1> QED BY <1>4

LEMMA RoomsNat == NRooms \in Nat /\ \A v \in Rooms : v \in Nat /\ 1 <= v /\ v <= NRooms
BY RoomsAssumption DEF Rooms

LEMMA RoomsFinite == IsFiniteSet(Rooms) /\ Cardinality(Rooms) = NRooms
<1>1. 1 \in Int /\ NRooms \in Int /\ NRooms >= 1
  BY RoomsAssumption, RoomsNat
<1>2. /\ IsFiniteSet(1 .. NRooms)
      /\ Cardinality(1 .. NRooms) = IF 1 > NRooms THEN 0 ELSE NRooms - 1 + 1
  BY <1>1, FS_Interval, Zenon
<1> QED BY <1>1, <1>2 DEF Rooms

\* The rooms where the legs begin and end are different ones.
LEMMA KeysDiffer ==
  /\ 1 # KeyRoom /\ 1 # SciRoom /\ 1 # ChamberRoom
  /\ KeyRoom # SciRoom /\ KeyRoom # ChamberRoom /\ SciRoom # ChamberRoom
<1> DEFINE A == {1}
           B == A \cup {KeyRoom}
           C == B \cup {SciRoom}
           D == C \cup {ChamberRoom}
<1>1. IsFiniteSet(A) /\ Cardinality(A) = 1
  BY FS_Singleton
<1>2. IsFiniteSet(B) /\ Cardinality(B) = IF KeyRoom \in A THEN Cardinality(A)
                                         ELSE Cardinality(A) + 1
  BY <1>1, FS_AddElement
<1>3. IsFiniteSet(C) /\ Cardinality(C) = IF SciRoom \in B THEN Cardinality(B)
                                         ELSE Cardinality(B) + 1
  <2> HIDE DEF B
  <2> QED BY <1>2, FS_AddElement
<1>4. Cardinality(D) = IF ChamberRoom \in C THEN Cardinality(C) ELSE Cardinality(C) + 1
  <2> HIDE DEF C
  <2> QED BY <1>3, FS_AddElement
<1>5. D = {1, KeyRoom, SciRoom, ChamberRoom}
  OBVIOUS
<1>6. Cardinality(D) = 4
  BY <1>5, RoomsAssumption
<1>7. KeyRoom \notin A /\ SciRoom \notin B /\ ChamberRoom \notin C
  <2> HIDE DEF A, B, C, D
  <2> QED BY <1>1, <1>2, <1>3, <1>4, <1>6
<1> QED BY <1>7

LEMMA Keys ==
  ASSUME j \in 0 .. 2
  PROVE  /\ Source \in Rooms /\ Goal \in Rooms
         /\ Source = (CASE j = 0 -> 1 [] j = 1 -> KeyRoom [] OTHER -> SciRoom)
         /\ Goal = (CASE j = 0 -> KeyRoom [] j = 1 -> SciRoom [] OTHER -> ChamberRoom)
         /\ Source \notin Closed /\ Goal \notin Closed /\ Source # Goal
         /\ Closed \subseteq Rooms
<1>1. {1, KeyRoom, SciRoom, ChamberRoom} \subseteq Rooms
  BY RoomsAssumption
<1>2. CASE j = 0
  BY <1>1, <1>2, KeysDiffer DEF Source, Goal, allKeys, Closed
<1>3. CASE j = 1
  BY <1>1, <1>3, KeysDiffer DEF Source, Goal, allKeys, Closed
<1>4. CASE j = 2
  BY <1>1, <1>4, KeysDiffer DEF Source, Goal, allKeys, Closed
<1> QED BY <1>2, <1>3, <1>4

\* A room that findMin may pick exists when there is a candidate.
LEMMA NearestExists ==
  ASSUME NEW d \in [Rooms -> Int], NEW C \in SUBSET Rooms, C # {}
  PROVE  \E v \in C : \A w \in C : d[v] < d[w] \/ (d[v] = d[w] /\ w <= v)
<1> DEFINE Nearest(S) == \E v \in S : \A w \in S : d[v] < d[w] \/ (d[v] = d[w] /\ w <= v)
           Upto(n) == C \cap 1 .. n
           Bad == {n \in Nat : Upto(n) # {} /\ ~Nearest(Upto(n))}
<1>1. ASSUME Bad # {} PROVE FALSE
  <2>1. PICK n \in Bad : \A m \in Bad : n <= m
    BY <1>1, LeastNat
  <2>2. n \in Nat /\ n # 0 /\ Upto(n) # {} /\ ~Nearest(Upto(n))
    <3>1. n \in Nat /\ Upto(n) # {} /\ ~Nearest(Upto(n))
      OBVIOUS
    <3>2. Upto(0) = {}
      OBVIOUS
    <3> QED BY <3>1, <3>2
  <2>3. n - 1 \in Nat /\ n - 1 \notin Bad
    BY <2>1, <2>2
  <2>4. Upto(n) = Upto(n - 1) \cup (C \cap {n})
    BY <2>2
  <2>5. \A w \in Upto(n - 1) : w \in Nat /\ w < n /\ d[w] \in Int
    BY RoomsNat
  <2>6. n \in C
    BY <2>2, <2>3, <2>4
  <2>7. n \in Rooms /\ d[n] \in Int
    BY <2>6
  <2>8. CASE Upto(n - 1) = {}
    BY <2>2, <2>4, <2>6, <2>8
  <2>9. CASE Upto(n - 1) # {}
    <3>1. PICK v \in Upto(n - 1) :
                 \A w \in Upto(n - 1) : d[v] < d[w] \/ (d[v] = d[w] /\ w <= v)
      BY <2>3, <2>9
    <3>2. d[v] \in Int /\ v < n /\ \A w \in Upto(n - 1) : d[w] \in Int /\ w < n /\ w \in Nat
      BY <2>5, <3>1
    <3> HIDE DEF Upto
    <3>3. CASE d[v] < d[n]
      <4>1. \A w \in Upto(n) : d[v] < d[w] \/ (d[v] = d[w] /\ w <= v)
        BY <2>4, <3>1, <3>3
      <4> QED BY <2>2, <2>4, <4>1
    <3>4. CASE ~(d[v] < d[n])
      <4>0. d[n] <= d[v] /\ n \in Nat
        BY <2>2, <2>7, <3>2, <3>4
      <4>1. \A w \in Upto(n) : d[n] < d[w] \/ (d[n] = d[w] /\ w <= n)
        <5>1. ASSUME NEW w \in Upto(n - 1) PROVE d[n] < d[w] \/ (d[n] = d[w] /\ w <= n)
          BY <2>7, <3>1, <3>2, <4>0
        <5> QED BY <2>4, <2>7, <4>0, <5>1
      <4> QED BY <2>2, <2>4, <2>6, <4>1
    <3> QED BY <3>3, <3>4
  <2> QED BY <2>8, <2>9
<1>2. Upto(NRooms) = C /\ NRooms \in Nat
  BY RoomsNat DEF Rooms
<1> QED BY <1>1, <1>2

LEMMA findMinCandidate ==
  ASSUME dist \in [Rooms -> Int], Candidates # {}
  PROVE  findMin \in Candidates
<1>1. Candidates \in SUBSET Rooms
  BY DEF Candidates
<1>2. \E v \in Candidates :
        \A w \in Candidates : dist[v] < dist[w] \/ (dist[v] = dist[w] /\ w <= v)
  BY <1>1, NearestExists
<1> QED BY <1>2 DEF findMin

LEMMA InputFacts ==
  ASSUME input \in Inputs
  PROVE  /\ \A u, v \in Rooms : adj(u, v) \in Nat
         /\ input.ammo \in [Rooms -> Nat]
<1>1. input \in InputType
  BY InputsAssumption
<1>2. input.adj \in [Rooms \X Rooms -> Nat] /\ input.ammo \in [Rooms -> Nat]
  BY <1>1 DEF InputType
<1>3. ASSUME NEW u \in Rooms, NEW v \in Rooms PROVE adj(u, v) \in Nat
  <2>1. <<u, v>> \in Rooms \X Rooms
    OBVIOUS
  <2>2. input.adj[<<u, v>>] \in Nat
    BY <1>2, <2>1
  <2> QED BY <2>2 DEF adj
<1> QED BY <1>2, <1>3

-----------------------------------------------------------------------------
(* What the search keeps.                                                  *)

\* TypeOK without the rounds and the route.
TypeInv ==
  /\ input \in Inputs
  /\ RoomYammo \in [Rooms -> Nat]
  /\ j \in 0 .. 2 /\ k \in Nat
  /\ dist \in [Rooms -> Int] /\ init \in Int
  /\ visited \in [Rooms -> BOOLEAN]
  /\ parent \in [Rooms -> Rooms \cup {NoParent, Unset}]
  /\ periods \in [Rooms -> Nat] /\ per \in Nat
  /\ pc \in {"leg", "search", "arrived", "done", "undefined"}

\* No distance is greater than that of a room not reached.
BoundInv == init <= INT_MAX /\ \A v \in Rooms : dist[v] <= INT_MAX

\* The goals of this leg and of those to come have no parent yet, except the
\* goal of this leg once it is reached.
AheadInv ==
  pc \in {"leg", "search", "arrived"} =>
    \A v \in Closed \cup {Goal} :
      parent[v] # Unset => v = Goal /\ Searching /\ Reached(v)

\* The leg begins at Source: every room reached is entered later, at most one
\* period for each round, and none before Source is expanded.
LegInv ==
  Searching =>
    /\ \A v \in Closed : visited[v]
    /\ parent[Source] = NoParent
    /\ \A v \in Rooms \ {Source} :
         Reached(v) => /\ visited[Source]
                       /\ periods[Source] < periods[v]
                       /\ periods[v] <= periods[Source] + k

Visited == {v \in Rooms : visited[v]}

\* Each round visits a room and the goal is the last.
RoundInv ==
  /\ pc = "search" => ~visited[Goal] /\ k <= Cardinality(Visited)
  /\ pc = "arrived" => visited[Goal] /\ per = periods[Goal]
  /\ k < NRooms

SInv == TypeInv /\ BoundInv /\ AheadInv /\ LegInv /\ RoundInv /\ TreeInv

LEMMA InitSearch == Init => SInv
<1> SUFFICES ASSUME Init PROVE SInv
  OBVIOUS
<1>1. TypeInv
  <2>1. input \in Inputs /\ RoomYammo \in [Rooms -> Nat]
    BY InputFacts DEF Init
  <2> QED BY <2>1, RoomsAssumption DEF Init, TypeInv
<1>2. BoundInv
  BY RoomsAssumption DEF Init, BoundInv
<1>3. Closed \cup {Goal} \subseteq Rooms
  BY Keys DEF Init
<1>4. AheadInv
  BY <1>3 DEF Init, AheadInv
<1>5. LegInv /\ TreeInv
  BY DEF Init, LegInv, TreeInv, Searching
<1>6. RoundInv
  BY RoomsAssumption, RoomsNat DEF Init, RoundInv
<1> QED BY <1>1, <1>2, <1>4, <1>5, <1>6 DEF SInv

LEMMA BeginLegSearch ==
  ASSUME SInv, BeginLeg
  PROVE  SInv'
<1>1. /\ TypeInv /\ BoundInv /\ AheadInv /\ RoundInv
      /\ pc = "leg" /\ pc' = "search" /\ k' = 0
      /\ UNCHANGED <<input, RoomYammo, j, per, init, path>>
  BY DEF SInv, BeginLeg
<1>2. /\ Source \in Rooms /\ Goal \in Rooms /\ Source # Goal
      /\ Source \notin Closed /\ Goal \notin Closed /\ Closed \subseteq Rooms
      /\ Source' = Source /\ Goal' = Goal /\ Closed' = Closed
  BY <1>1, Keys DEF TypeInv, Source, Goal, Closed
<1>3. /\ periods' = [v \in Rooms |-> per]
      /\ dist' = [v \in Rooms |-> IF v = Source THEN init ELSE INT_MAX]
      /\ visited' = [v \in Rooms |-> v \in Closed]
      /\ parent' = [parent EXCEPT ![Source] = NoParent]
  BY DEF BeginLeg
<1>4. TypeInv'
  <2>1. dist' \in [Rooms -> Int]
    BY <1>1, <1>3, RoomsAssumption DEF TypeInv
  <2>2. visited' \in [Rooms -> BOOLEAN]
    BY <1>3
  <2>3. parent' \in [Rooms -> Rooms \cup {NoParent, Unset}]
    BY <1>1, <1>3 DEF TypeInv
  <2>4. periods' \in [Rooms -> Nat]
    BY <1>1, <1>3 DEF TypeInv
  <2> QED BY <1>1, <2>1, <2>2, <2>3, <2>4 DEF TypeInv
<1>5. BoundInv'
  BY <1>1, <1>3, RoomsAssumption DEF BoundInv
<1>6. AheadInv'
  <2>1. \A v \in Closed \cup {Goal} : parent[v] = Unset
    BY <1>1 DEF AheadInv, Searching
  <2>2. \A v \in Closed \cup {Goal} : parent'[v] = Unset
    BY <1>1, <1>2, <1>3, <2>1 DEF TypeInv
  <2> QED BY <1>2, <2>2 DEF AheadInv
<1>7. \A v \in Rooms \ {Source} : ~Reached(v)'
  BY <1>3 DEF Reached
<1>8. LegInv' /\ TreeInv'
  <2>1. parent'[Source] = NoParent /\ \A v \in Closed : visited'[v]
    BY <1>1, <1>2, <1>3 DEF TypeInv
  <2> QED BY <1>2, <1>7, <2>1 DEF LegInv, TreeInv
<1>9. RoundInv'
  <2>1. ~visited'[Goal]
    BY <1>2, <1>3
  <2>2. IsFiniteSet(Visited')
    BY RoomsFinite, FS_Subset DEF Visited
  <2>3. Cardinality(Visited') \in Nat
    BY <2>2, FS_CardinalityType
  <2> QED BY <1>1, <1>2, <2>1, <2>3, RoomsAssumption, RoomsNat DEF RoundInv
<1> QED BY <1>4, <1>5, <1>6, <1>8, <1>9 DEF SInv

\* What one round does, for the room u that is expanded.
LEMMA ExpandSearch ==
  ASSUME SInv, Expand
  PROVE  SInv'
<1>1. /\ TypeInv /\ BoundInv /\ AheadInv /\ LegInv /\ RoundInv /\ TreeInv
      /\ pc = "search" /\ pc' = "search" /\ k' = k + 1
      /\ UNCHANGED <<input, RoomYammo, j, init, path>>
  BY DEF SInv, Expand
<1>2. /\ Source \in Rooms /\ Goal \in Rooms /\ Source # Goal
      /\ Source \notin Closed /\ Goal \notin Closed /\ Closed \subseteq Rooms
      /\ Source' = Source /\ Goal' = Goal /\ Closed' = Closed
  BY <1>1, Keys DEF TypeInv, Source, Goal, Closed
<1>3. PICK u \in Rooms :
        /\ u = findMin /\ ~visited[u] /\ u # Goal
  BY <1>1, findMinCandidate DEF Expand, TypeInv, Candidates
<1> DEFINE relaxed == {v \in Rooms : Relaxes(u, v, periods[u])}
<1>4. /\ per' = periods[u]
      /\ visited' = [visited EXCEPT ![u] = TRUE]
      /\ parent' = [v \in Rooms |-> IF v \in relaxed THEN u ELSE parent[v]]
      /\ periods' = [v \in Rooms |-> IF v \in relaxed THEN periods[u] + 1 ELSE periods[v]]
      /\ dist' = [v \in Rooms |-> IF v \in relaxed
                                    THEN dist[u] + adj(u, v) - RoomYammo[v]
                                    ELSE dist[v]]
  BY <1>3 DEF Expand
<1>5. /\ \A v \in Rooms : adj(u, v) \in Nat /\ RoomYammo[v] \in Nat
      /\ \A v \in Rooms : dist[v] \in Int /\ periods[v] \in Nat
      /\ k \in Nat /\ INT_MAX \in Nat
  BY <1>1, InputFacts, RoomsAssumption DEF TypeInv
<1>6. \A v \in relaxed :
        /\ v \in Rooms /\ v # u /\ ~visited[v]
        /\ ~is_Forbidden(periods[u] + 1, v) /\ adj(u, v) # 0 /\ dist[u] # INT_MAX
        /\ dist[u] + adj(u, v) - RoomYammo[v] < dist[v]
  BY DEF Relaxes
<1>7. Source \notin relaxed
  BY <1>1, <1>2, <1>3, <1>6 DEF LegInv, Searching, Reached
<1> HIDE DEF relaxed
<1>8. TypeInv'
  <2>1. dist' \in [Rooms -> Int]
    BY <1>4, <1>5
  <2>2. visited' \in [Rooms -> BOOLEAN]
    BY <1>1, <1>4 DEF TypeInv
  <2>3. parent' \in [Rooms -> Rooms \cup {NoParent, Unset}]
    BY <1>1, <1>4 DEF TypeInv
  <2>4. periods' \in [Rooms -> Nat] /\ per' \in Nat
    BY <1>4, <1>5
  <2> QED BY <1>1, <2>1, <2>2, <2>3, <2>4 DEF TypeInv
<1>9. BoundInv'
  <2>1. \A v \in Rooms : dist'[v] <= INT_MAX
    BY <1>1, <1>4, <1>5, <1>6 DEF BoundInv
  <2> QED BY <1>1, <2>1 DEF BoundInv
<1>10. \A v \in relaxed : dist'[v] # INT_MAX
  BY <1>1, <1>4, <1>5, <1>6 DEF BoundInv
<1>11. \A v \in Rooms \ relaxed : /\ dist'[v] = dist[v] /\ periods'[v] = periods[v]
                                  /\ parent'[v] = parent[v]
  BY <1>4
<1>12. \A v \in Rooms : visited'[v] <=> visited[v] \/ v = u
  BY <1>1, <1>4 DEF TypeInv
<1>13. AheadInv'
  <2>1. ASSUME NEW v \in Closed \cup {Goal}, parent'[v] # Unset
        PROVE  v = Goal /\ dist'[v] # INT_MAX
    <3>1. CASE v \in relaxed
      BY <1>1, <1>2, <1>6, <1>10, <2>1, <3>1 DEF LegInv, Searching
    <3>2. CASE v \notin relaxed
      BY <1>1, <1>2, <1>11, <2>1, <3>2 DEF AheadInv, Reached
    <3> QED BY <3>1, <3>2
  <2> QED BY <1>1, <1>2, <2>1 DEF AheadInv, Reached, Searching
<1>14. LegInv'
  <2>1. \A v \in Closed : visited'[v]
    BY <1>1, <1>2, <1>12 DEF LegInv, Searching
  <2>2. parent'[Source] = NoParent /\ periods'[Source] = periods[Source]
    BY <1>1, <1>2, <1>7, <1>11 DEF LegInv, Searching
  <2>3. ASSUME NEW v \in Rooms \ {Source}, dist'[v] # INT_MAX
        PROVE  /\ visited'[Source] /\ periods[Source] < periods'[v]
               /\ periods'[v] <= periods[Source] + (k + 1)
    <3>1. CASE v \notin relaxed
      <4>1. /\ visited[Source] /\ periods[Source] < periods[v]
            /\ periods[v] <= periods[Source] + k
        BY <1>1, <1>11, <2>3, <3>1 DEF LegInv, Searching, Reached
      <4> QED BY <1>2, <1>5, <1>11, <1>12, <3>1, <4>1
    <3>2. CASE v \in relaxed
      <4>1. periods'[v] = periods[u] + 1
        BY <1>4, <3>2
      <4>2. CASE u = Source
        BY <1>2, <1>5, <1>12, <4>1, <4>2
      <4>3. CASE u # Source
        <5>1. /\ visited[Source] /\ periods[Source] < periods[u]
              /\ periods[u] <= periods[Source] + k
          BY <1>1, <1>6, <3>2, <4>3 DEF LegInv, Searching, Reached
        <5> QED BY <1>2, <1>5, <1>12, <4>1, <5>1
      <4> QED BY <4>2, <4>3
    <3> QED BY <3>1, <3>2
  <2> QED BY <1>1, <1>2, <2>1, <2>2, <2>3 DEF LegInv, Reached
<1>15. RoundInv'
  <2>1. IsFiniteSet(Visited) /\ u \notin Visited /\ Visited' = Visited \cup {u}
    BY <1>3, <1>12, RoomsFinite, FS_Subset DEF Visited
  <2>2. /\ Cardinality(Visited) \in Nat
        /\ IsFiniteSet(Visited') /\ Cardinality(Visited') = Cardinality(Visited) + 1
    BY <2>1, FS_AddElement, FS_CardinalityType
  <2>3. ~visited[Goal] /\ k <= Cardinality(Visited)
    BY <1>1 DEF RoundInv
  <2>4. ~visited'[Goal]
    BY <1>2, <1>3, <1>12, <2>3
  <2>5. Visited' \subseteq Rooms \ {Goal}
    BY <1>2, <2>4 DEF Visited
  <2>6. IsFiniteSet(Rooms \ {Goal}) /\ Cardinality(Rooms \ {Goal}) = NRooms - 1
    BY <1>2, RoomsFinite, FS_RemoveElement
  <2>7. Cardinality(Visited') <= NRooms - 1
    BY <2>5, <2>6, FS_Subset
  <2> QED BY <1>1, <1>2, <1>5, <2>2, <2>3, <2>4, <2>7, RoomsNat DEF RoundInv
<1>16. TreeInv'
  <2>1. \A p, v \in Rooms : adj(p, v)' = adj(p, v)
    BY <1>1 DEF adj
  <2>2. \A period, v : is_Forbidden(period, v)' = is_Forbidden(period, v)
    BY <1>1 DEF is_Forbidden
  <2> DEFINE Hangs(p, v) == /\ p \in Rooms
                            /\ visited'[p] /\ dist'[p] # INT_MAX
                            /\ p \notin Closed /\ v \notin Closed
                            /\ adj(p, v) # 0
                            /\ periods'[v] = periods'[p] + 1
                            /\ ~is_Forbidden(periods'[v], v)
                            /\ dist'[v] = dist'[p] + adj(p, v) - RoomYammo[v]
  <2>3. ASSUME NEW v \in Rooms \ {Source}, dist'[v] # INT_MAX
        PROVE  Hangs(parent'[v], v)
    <3>1. CASE v \notin relaxed
      <4> DEFINE p == parent[v]
      <4>1. /\ p \in Rooms /\ visited[p] /\ dist[p] # INT_MAX
            /\ p \notin Closed /\ v \notin Closed /\ adj(p, v) # 0
            /\ periods[v] = periods[p] + 1 /\ ~is_Forbidden(periods[v], v)
            /\ dist[v] = dist[p] + adj(p, v) - RoomYammo[v]
        BY <1>1, <1>11, <2>3, <3>1 DEF TreeInv, Searching, Reached
      <4>2. p \notin relaxed
        BY <1>6, <4>1
      <4> QED BY <1>11, <1>12, <3>1, <4>1, <4>2
    <3>2. CASE v \in relaxed
      <4>1. parent'[v] = u /\ periods'[v] = periods[u] + 1
            /\ dist'[v] = dist[u] + adj(u, v) - RoomYammo[v]
        BY <1>4, <3>2
      <4>2. u \notin relaxed /\ dist'[u] = dist[u] /\ periods'[u] = periods[u] /\ visited'[u]
        BY <1>6, <1>11, <1>12
      <4>3. u \notin Closed /\ v \notin Closed
        BY <1>1, <1>3, <1>6, <3>2 DEF LegInv, Searching
      <4> QED BY <1>6, <3>2, <4>1, <4>2, <4>3
    <3> QED BY <3>1, <3>2
  <2> QED BY <1>1, <1>2, <2>1, <2>2, <2>3 DEF TreeInv, Reached
<1> QED BY <1>8, <1>9, <1>13, <1>14, <1>15, <1>16 DEF SInv

\* No round enters the room where the leg begins.
LEMMA ExpandPeriods ==
  ASSUME SInv, Expand
  PROVE  periods'[Source] = periods[Source] /\ dist'[Source] = dist[Source]
<1>1. /\ TypeInv /\ LegInv /\ pc = "search"
      /\ Source \in Rooms
  BY Keys DEF SInv, Expand, TypeInv
<1>2. PICK u \in Rooms : u = findMin /\ ~visited[u]
  BY <1>1, findMinCandidate DEF Expand, TypeInv, Candidates
<1> DEFINE relaxed == {v \in Rooms : Relaxes(u, v, periods[u])}
<1>3. /\ periods' = [v \in Rooms |-> IF v \in relaxed THEN periods[u] + 1 ELSE periods[v]]
      /\ dist' = [v \in Rooms |-> IF v \in relaxed
                                    THEN dist[u] + adj(u, v) - RoomYammo[v]
                                    ELSE dist[v]]
  BY <1>2 DEF Expand
<1>4. ~Relaxes(u, Source, periods[u])
  BY <1>1, <1>2 DEF Relaxes, LegInv, Searching, Reached
<1> QED BY <1>1, <1>3, <1>4

LEMMA ArriveSearch ==
  ASSUME SInv, Arrive
  PROVE  SInv'
<1>1. /\ TypeInv /\ BoundInv /\ AheadInv /\ LegInv /\ RoundInv /\ TreeInv
      /\ pc = "search" /\ pc' = "arrived"
      /\ per' = periods[Goal] /\ init' = dist[Goal]
      /\ visited' = [visited EXCEPT ![Goal] = TRUE]
      /\ UNCHANGED <<input, RoomYammo, j, k, dist, parent, periods, path>>
  BY DEF SInv, Arrive
<1>2. /\ Source \in Rooms /\ Goal \in Rooms
      /\ Source' = Source /\ Goal' = Goal /\ Closed' = Closed /\ Closed \subseteq Rooms
  BY <1>1, Keys DEF TypeInv, Source, Goal, Closed
<1>3. \A v \in Rooms : visited[v] => visited'[v]
  BY <1>1 DEF TypeInv
<1>4. TypeInv'
  BY <1>1, <1>2 DEF TypeInv
<1>5. BoundInv' /\ AheadInv'
  BY <1>1, <1>2 DEF BoundInv, AheadInv, Searching, Reached
<1>6. LegInv'
  BY <1>1, <1>2, <1>3 DEF LegInv, Searching, Reached
<1>7. RoundInv'
  BY <1>1, <1>2 DEF RoundInv, TypeInv
<1>8. TreeInv'
  <2>1. /\ \A p, v \in Rooms : adj(p, v)' = adj(p, v)
        /\ \A period, v : is_Forbidden(period, v)' = is_Forbidden(period, v)
        /\ \A v : Reached(v)' = Reached(v)
    BY <1>1 DEF adj, is_Forbidden, Reached
  <2> QED BY <1>1, <1>2, <1>3, <2>1 DEF TreeInv, Searching
<1> QED BY <1>4, <1>5, <1>6, <1>7, <1>8 DEF SInv

LEMMA EndLegSearch ==
  ASSUME SInv, EndLeg
  PROVE  SInv'
<1>1. /\ TypeInv /\ BoundInv /\ AheadInv /\ RoundInv
      /\ pc = "arrived" /\ pc' = IF j < 2 THEN "leg" ELSE "done"
      /\ j' = IF j < 2 THEN j + 1 ELSE j
      /\ UNCHANGED <<input, k, dist, visited, parent, periods, per, init>>
  BY DEF SInv, EndLeg
<1>2. RoomYammo' \in [Rooms -> Nat]
  <2>1. \E strays : RoomYammo' = newRoomYammo(path', strays)
    BY DEF EndLeg
  <2> QED BY <1>1, <2>1 DEF newRoomYammo, TypeInv
<1>3. TypeInv' /\ BoundInv'
  BY <1>1, <1>2 DEF TypeInv, BoundInv
<1>4. AheadInv'
  <2>1. ASSUME j < 2 PROVE Closed' \cup {Goal'} \subseteq (Closed \cup {Goal}) \ {Goal}
    <3>1. CASE j = 0
      BY <1>1, <3>1, KeysDiffer DEF Closed, Goal, allKeys
    <3>2. CASE j = 1
      BY <1>1, <3>2, KeysDiffer DEF Closed, Goal, allKeys
    <3> QED BY <1>1, <2>1, <3>1, <3>2 DEF TypeInv
  <2>2. ASSUME j < 2, NEW v \in Closed' \cup {Goal'} PROVE parent'[v] = Unset
    BY <1>1, <2>1, <2>2 DEF AheadInv
  <2> QED BY <1>1, <2>2 DEF AheadInv
<1>5. LegInv' /\ RoundInv' /\ TreeInv'
  BY <1>1 DEF LegInv, RoundInv, TreeInv, Searching
<1> QED BY <1>3, <1>4, <1>5 DEF SInv

\* The other steps leave all but pc alone.
LEMMA UndefinedSearch ==
  ASSUME SInv, NoCandidate \/ NoWay
  PROVE  SInv'
<1>1. /\ TypeInv /\ BoundInv /\ RoundInv
      /\ pc' = "undefined"
      /\ UNCHANGED <<input, RoomYammo, j, k, dist, visited, parent, periods, per, init, path>>
  BY DEF SInv, NoCandidate, NoWay
<1> QED BY <1>1 DEF SInv, TypeInv, BoundInv, AheadInv, LegInv, RoundInv, TreeInv, Searching

LEMMA StutterSearch ==
  ASSUME SInv, UNCHANGED vars
  PROVE  SInv'
<1> USE DEF vars
<1>1. TypeInv' /\ BoundInv' /\ AheadInv' /\ LegInv' /\ RoundInv'
  BY DEF SInv, TypeInv, BoundInv, AheadInv, LegInv, RoundInv, Visited, Searching, Reached,
         Source, Goal, Closed
<1>2. TreeInv'
  BY DEF SInv, TreeInv, Searching, Reached, Source, Closed, adj, is_Forbidden
<1> QED BY <1>1, <1>2 DEF SInv

LEMMA StepSearch ==
  ASSUME SInv, [Next]_vars
  PROVE  SInv'
BY BeginLegSearch, ExpandSearch, ArriveSearch, EndLegSearch, UndefinedSearch, StutterSearch
   DEF Next, Ended

LEMMA InductiveSearch == Spec => []SInv
BY InitSearch, StepSearch, PTL DEF Spec

\* Every room reached hangs on a room that has been expanded, by a corridor, one
\* period later, in a period in which it is not locked (lines 162-171).
THEOREM Tree == Spec => []TreeInv
BY InductiveSearch, PTL DEF SInv

-----------------------------------------------------------------------------
(* The rooms that newPath collects.                                        *)

LEMMA BackExists == \E f : f = [n \in 0 .. NRooms |-> IF n = 0 THEN Goal ELSE parent[f[n - 1]]]
<1> DEFINE Is(f, N) == f = [n \in 0 .. N |-> IF n = 0 THEN Goal ELSE parent[f[n - 1]]]
           Bad == {N \in Nat : ~ \E f : Is(f, N)}
<1>1. ASSUME Bad # {} PROVE FALSE
  <2>1. PICK N \in Bad : \A m \in Bad : N <= m
    <3> HIDE DEF Is
    <3>1. Bad \subseteq Nat
      OBVIOUS
    <3> HIDE DEF Bad
    <3> QED BY <1>1, <3>1, LeastNat
  <2>2. N \in Nat /\ ~ \E f : Is(f, N)
    OBVIOUS
  <2>3. N # 0
    <3>1. Is([n \in 0 .. 0 |-> Goal], 0)
      OBVIOUS
    <3> QED BY <2>2, <3>1
  <2>4. N - 1 \in Nat /\ N - 1 \notin Bad
    <3> HIDE DEF Bad
    <3> QED BY <2>1, <2>2, <2>3
  <2>5. PICK f : Is(f, N - 1)
    BY <2>4
  <2> DEFINE g == [n \in 0 .. N |-> IF n = N THEN parent[f[N - 1]] ELSE f[n]]
  <2>6. \A n \in 0 .. (N - 1) : f[n] = IF n = 0 THEN Goal ELSE parent[f[n - 1]]
    BY <2>2, <2>5
  <2>7. \A n \in 0 .. N : g[n] = IF n = 0 THEN Goal ELSE parent[g[n - 1]]
    BY <2>2, <2>3, <2>6
  <2>8. g = [n \in 0 .. N |-> g[n]]
    OBVIOUS
  <2>9. Is(g, N)
    <3> HIDE DEF g
    <3> QED BY <2>7, <2>8
  <2> QED BY <2>2, <2>9
<1>2. \E f : Is(f, NRooms)
  BY <1>1, RoomsAssumption
<1> QED BY <1>2

LEMMA BackDef ==
  \A n \in 0 .. NRooms : Back[n] = IF n = 0 THEN Goal ELSE parent[Back[n - 1]]
<1>1. Back = [n \in 0 .. NRooms |-> IF n = 0 THEN Goal ELSE parent[Back[n - 1]]]
  BY BackExists, Zenon DEF Back
<1> HIDE DEF Back
<1>2. ASSUME NEW n \in 0 .. NRooms PROVE Back[n] = IF n = 0 THEN Goal ELSE parent[Back[n - 1]]
  BY <1>1, Zenon
<1> QED BY <1>2

\* Along the parents of the goal the periods count down to that of Source.
LEMMA Backwards ==
  ASSUME SInv, pc = "arrived", parent[Goal] # Unset
  PROVE  LET d == periods[Goal] - periods[Source]
         IN  /\ d \in 1 .. NRooms
             /\ \A n \in 0 .. d : /\ Back[n] \in Rooms /\ Reached(Back[n])
                                 /\ periods[Back[n]] = periods[Goal] - n
             /\ Back[d] = Source
             /\ \A n \in 0 .. (d - 1) : Back[n] # Source
<1> DEFINE d == periods[Goal] - periods[Source]
<1>1. /\ TypeInv /\ LegInv /\ TreeInv /\ AheadInv /\ RoundInv /\ Searching
      /\ Source \in Rooms /\ Goal \in Rooms /\ Source # Goal
  BY Keys DEF SInv, TypeInv, Searching
<1>2. \A v \in Rooms : periods[v] \in Nat
  BY <1>1 DEF TypeInv
<1>3. \A v \in Rooms : Reached(v) /\ v # Source =>
        /\ periods[Source] < periods[v] /\ periods[v] <= periods[Source] + k
        /\ parent[v] \in Rooms /\ Reached(parent[v])
        /\ periods[v] = periods[parent[v]] + 1
  BY <1>1 DEF LegInv, TreeInv
<1>4. Reached(Goal)
  BY <1>1 DEF AheadInv
<1>5. d \in 1 .. NRooms
  <2>1. k \in Nat /\ k < NRooms /\ NRooms \in Nat
    BY <1>1, RoomsAssumption DEF TypeInv, RoundInv
  <2> QED BY <1>1, <1>2, <1>3, <1>4, <2>1
<1> DEFINE Fits(n) == /\ Back[n] \in Rooms /\ Reached(Back[n])
                      /\ periods[Back[n]] = periods[Goal] - n
           Bad == {n \in 0 .. d : ~Fits(n)}
<1>6. ASSUME NEW n \in 0 .. d, Fits(n) PROVE Back[n] = Source <=> n = d
  BY <1>1, <1>2, <1>3, <1>5, <1>6
<1>7. ASSUME NEW n \in 0 .. (d - 1), Fits(n) PROVE Fits(n + 1)
  <2>1. Back[n] # Source /\ n + 1 \in 0 .. NRooms
    BY <1>5, <1>6, <1>7, RoomsAssumption
  <2>2. Back[n + 1] = parent[Back[n]]
    BY <1>5, <2>1, BackDef
  <2>3. /\ Back[n] \in Rooms /\ Reached(Back[n]) /\ periods[Back[n]] = periods[Goal] - n
    BY <1>7
  <2>4. /\ parent[Back[n]] \in Rooms /\ Reached(parent[Back[n]])
        /\ periods[Back[n]] = periods[parent[Back[n]]] + 1
    BY <1>3, <2>1, <2>3
  <2>5. periods[parent[Back[n]]] = periods[Goal] - (n + 1)
    <3>1. PICK x : x = periods[parent[Back[n]]]
      OBVIOUS
    <3>2. PICK y : y = periods[Goal]
      OBVIOUS
    <3>3. x \in Nat /\ y \in Nat /\ n \in Int
      BY <1>1, <1>2, <1>5, <2>4, <3>1, <3>2
    <3>4. y - n = x + 1
      BY <2>3, <2>4, <3>1, <3>2, Zenon
    <3>5. x = y - (n + 1)
      BY <3>3, <3>4
    <3> QED BY <3>1, <3>2, <3>5, Zenon
  <2> QED BY <2>2, <2>4, <2>5
<1>8. Fits(0)
  BY <1>1, <1>2, <1>4, BackDef, RoomsAssumption
<1>9. Bad = {}
  <2> SUFFICES ASSUME Bad # {} PROVE FALSE
    OBVIOUS
  <2> HIDE DEF Fits, d
  <2>1. Bad \subseteq Nat /\ d \in Nat
    BY <1>5
  <2>2. PICK n \in Bad : \A m \in Bad : n <= m
    <3> HIDE DEF Bad
    <3> QED BY <2>1, LeastNat
  <2>3. n \in 0 .. d /\ ~Fits(n) /\ n # 0
    BY <1>8
  <2>4. n - 1 \in 0 .. (d - 1) /\ n - 1 \notin Bad
    BY <2>1, <2>2, <2>3
  <2>5. Fits(n - 1)
    BY <2>1, <2>4
  <2>6. Fits((n - 1) + 1)
    BY <1>7, <2>4, <2>5
  <2>7. (n - 1) + 1 = n
    BY <2>3
  <2> QED BY <2>3, <2>6, <2>7
<1>10. \A n \in 0 .. d : Fits(n)
  BY <1>9
<1>11. Back[d] = Source /\ \A n \in 0 .. (d - 1) : Back[n] # Source
  <2> HIDE DEF Fits, d
  <2> QED BY <1>5, <1>6, <1>10
<1> QED BY <1>5, <1>10, <1>11

\* Branch is the way from Source to the goal: by corridors, one period in each
\* room, in no room while it is locked or closed.
LEMMA BranchWay ==
  ASSUME SInv, pc = "arrived", parent[Goal] # Unset
  PROVE  LET d == periods[Goal] - periods[Source]
         IN  /\ d \in Nat \ {0} /\ Branch \in Seq(Rooms) /\ Len(Branch) = d + 1
             /\ Branch[1] = Source /\ Branch[d + 1] = Goal
             /\ \A i \in 1 .. (d + 1) :
                  /\ Branch[i] \in Rooms /\ Branch[i] \notin Closed
                  /\ periods[Branch[i]] = periods[Source] + i - 1
             /\ \A i \in 2 .. (d + 1) :
                  /\ Branch[i - 1] # Branch[i] /\ Branch[i] # Source
                  /\ Reached(Branch[i]) /\ Branch[i - 1] = parent[Branch[i]]
                  /\ adj(Branch[i - 1], Branch[i]) # 0
                  /\ ~is_Forbidden(periods[Source] + i - 1, Branch[i])
<1> DEFINE d == periods[Goal] - periods[Source]
<1>1. /\ TypeInv /\ LegInv /\ TreeInv /\ Searching
      /\ Source \in Rooms /\ Goal \in Rooms /\ Source # Goal /\ Source \notin Closed
  BY Keys DEF SInv, TypeInv, Searching
<1>2. /\ d \in 1 .. NRooms
      /\ \A n \in 0 .. d : /\ Back[n] \in Rooms /\ Reached(Back[n])
                          /\ periods[Back[n]] = periods[Goal] - n
      /\ Back[d] = Source
      /\ \A n \in 0 .. (d - 1) : Back[n] # Source
  BY Backwards
<1>3. \A v \in Rooms : Reached(v) /\ v # Source =>
        /\ parent[v] \in Rooms /\ v \notin Closed
        /\ periods[v] = periods[parent[v]] + 1
        /\ adj(parent[v], v) # 0 /\ ~is_Forbidden(periods[v], v)
  BY <1>1 DEF TreeInv
<1>4. periods[Source] \in Nat /\ periods[Goal] \in Nat /\ NRooms \in Nat
  BY <1>1, RoomsAssumption DEF TypeInv
<1>5. Start = d
  <2>1. \A n \in 0 .. (d - 1) : parent[Back[n]] # NoParent
    BY <1>2, <1>3, <1>4, RoomsNat DEF NoParent
  <2>2. d \in 0 .. NRooms /\ parent[Back[d]] = NoParent
    BY <1>1, <1>2, <1>4 DEF LegInv
  <2>3. ASSUME NEW n \in 0 .. NRooms, parent[Back[n]] = NoParent,
               \A m \in 0 .. (n - 1) : parent[Back[m]] # NoParent
        PROVE  n = d
    BY <2>1, <2>2, <2>3
  <2> HIDE DEF d
  <2> QED BY <2>1, <2>2, <2>3 DEF Start
<1> HIDE DEF d
<1>6. d \in Nat \ {0}
  BY <1>2, <1>4
<1>7. Branch = [i \in 1 .. (d + 1) |-> Back[d + 1 - i]]
  BY <1>5 DEF Branch
<1>8. ASSUME NEW i \in 1 .. (d + 1) PROVE /\ d + 1 - i \in 0 .. d
                                         /\ Branch[i] = Back[d + 1 - i]
  BY <1>6, <1>7
<1>9. Branch \in Seq(Rooms) /\ Len(Branch) = d + 1
  BY <1>2, <1>6, <1>7, <1>8
<1>10. Branch[1] = Source /\ Branch[d + 1] = Goal
  BY <1>2, <1>6, <1>8, BackDef, RoomsAssumption
<1>11. ASSUME NEW i \in 1 .. (d + 1)
       PROVE  /\ Branch[i] \in Rooms /\ Branch[i] \notin Closed
              /\ periods[Branch[i]] = periods[Source] + i - 1
  <2>1. /\ Branch[i] \in Rooms /\ Reached(Branch[i])
        /\ periods[Branch[i]] = periods[Goal] - (d + 1 - i)
    BY <1>2, <1>8
  <2>2. Branch[i] \notin Closed
    BY <1>1, <1>3, <2>1
  <2> QED BY <1>4, <1>6, <2>1, <2>2 DEF d
<1>12. ASSUME NEW i \in 2 .. (d + 1)
       PROVE  /\ Branch[i - 1] # Branch[i] /\ Branch[i] # Source
              /\ Reached(Branch[i]) /\ Branch[i - 1] = parent[Branch[i]]
              /\ adj(Branch[i - 1], Branch[i]) # 0
              /\ ~is_Forbidden(periods[Source] + i - 1, Branch[i])
  <2>1. i \in 1 .. (d + 1) /\ i - 1 \in 1 .. (d + 1) /\ d + 1 - i \in 0 .. (d - 1)
    BY <1>6
  <2>2. Branch[i] = Back[d + 1 - i] /\ Branch[i - 1] = Back[d + 1 - (i - 1)]
    BY <1>8, <2>1
  <2>3. PICK e \in 1 .. NRooms : e = d + 1 - (i - 1) /\ e - 1 = d + 1 - i
    BY <1>2, <1>4, <1>6
  <2>4. Branch[i - 1] = parent[Branch[i]]
    <3>1. e \in 0 .. NRooms /\ e # 0
      OBVIOUS
    <3>2. Back[e] = parent[Back[e - 1]]
      BY <3>1, BackDef
    <3> QED BY <2>2, <2>3, <3>2
  <2>5. Branch[i] # Source /\ Branch[i] \in Rooms /\ Reached(Branch[i])
    BY <1>2, <1>6, <2>1, <2>2
  <2>6. periods[Branch[i]] = periods[Source] + i - 1
    BY <1>11, <2>1
  <2>7. Branch[i - 1] # Branch[i]
    BY <1>4, <1>11, <2>1
  <2> QED BY <1>3, <2>4, <2>5, <2>6, <2>7
<1> QED BY <1>6, <1>9, <1>10, <1>11, <1>12 DEF d

-----------------------------------------------------------------------------
(* The places that Squeezed keeps.                                         *)

Rank(s, i) == Cardinality({h \in Kept(s) : h <= i})

\* Every number up to that of the places kept is the rank of one.
Ranked(s) == \A n \in 1 .. Cardinality(Kept(s)) : \E i \in Kept(s) : Rank(s, i) = n

LEMMA KeptFacts ==
  ASSUME NEW s \in Seq(Rooms)
  PROVE  /\ Kept(s) \subseteq 1 .. Len(s)
         /\ IsFiniteSet(Kept(s)) /\ Cardinality(Kept(s)) \in Nat
         /\ \A i : IsFiniteSet({h \in Kept(s) : h <= i}) /\ Rank(s, i) \in Nat
<1>1. Kept(s) \subseteq 1 .. Len(s)
  BY DEF Kept
<1>2. IsFiniteSet(1 .. Len(s))
  <2>1. 1 \in Int /\ Len(s) \in Int
    OBVIOUS
  <2> QED BY <2>1, FS_Interval, Zenon
<1>3. IsFiniteSet(Kept(s))
  BY <1>1, <1>2, FS_Subset
<1>4. ASSUME NEW i PROVE IsFiniteSet({h \in Kept(s) : h <= i})
  BY <1>3, FS_Subset
<1> QED BY <1>1, <1>3, <1>4, FS_CardinalityType DEF Rank

\* A place further back has a greater rank.
LEMMA RankRises ==
  ASSUME NEW s \in Seq(Rooms), NEW a \in Kept(s), NEW b \in Kept(s), a < b
  PROVE  Rank(s, a) < Rank(s, b)
<1> DEFINE A == {h \in Kept(s) : h <= a}
           B == {h \in Kept(s) : h <= b}
<1>1. \A h \in Kept(s) : h \in Nat
  BY KeptFacts
<1>2. A \in SUBSET B /\ b \in B /\ b \notin A
  BY <1>1
<1>3. IsFiniteSet(B) /\ Cardinality(A) \in Nat /\ Cardinality(B) \in Nat
  BY KeptFacts DEF Rank
<1>4. Cardinality(A) <= Cardinality(B) /\ Cardinality(A) # Cardinality(B)
  <2> HIDE DEF A, B
  <2> QED BY <1>2, <1>3, FS_Subset
<1>5. Cardinality(A) < Cardinality(B)
  <2> HIDE DEF A, B
  <2> QED BY <1>3, <1>4
<1> QED BY <1>5 DEF Rank

LEMMA NthIs ==
  ASSUME NEW s \in Seq(Rooms), NEW i \in Kept(s)
  PROVE  Nth(s, Rank(s, i)) = i
<1>1. \A h \in Kept(s) : h \in Nat /\ Rank(s, h) \in Nat
  <2>1. Kept(s) \subseteq 1 .. Len(s) /\ \A h : Rank(s, h) \in Nat
    BY KeptFacts
  <2> QED BY <2>1
<1>2. ASSUME NEW h \in Kept(s), Rank(s, h) = Rank(s, i) PROVE h = i
  BY <1>1, <1>2, RankRises
<1>3. Nth(s, Rank(s, i)) = CHOOSE h \in Kept(s) : Rank(s, h) = Rank(s, i)
  BY DEF Nth, Rank
<1> QED BY <1>2, <1>3

\* A leg b is appended to the route s so far: where they meet, one of the two
\* rooms is dropped.
LEMMA SqueezedAppend ==
  ASSUME NEW s \in Seq(Rooms), Ranked(s), NEW b \in Seq(Rooms), Len(b) >= 1,
         \A i \in 2 .. Len(b) : b[i - 1] # b[i],
         s # << >> => s[Len(s)] = b[1]
  PROVE  LET q == Cardinality(Kept(s))
             c == IF s = << >> THEN 0 ELSE 1
         IN  /\ Ranked(s \o b)
             /\ Cardinality(Kept(s \o b)) = q + Len(b) - c
             /\ \A n \in 1 .. q : Squeezed(s \o b)[n] = Squeezed(s)[n]
             /\ \A m \in (1 + c) .. Len(b) : Squeezed(s \o b)[q + m - c] = b[m]
<1> DEFINE t == s \o b
           L == Len(s)
           c == IF s = << >> THEN 0 ELSE 1
           q == Cardinality(Kept(s))
<1>1. /\ t \in Seq(Rooms) /\ L \in Nat /\ Len(b) \in Nat /\ Len(t) = L + Len(b)
      /\ \A i \in 1 .. L : t[i] = s[i]
      /\ \A i \in 1 .. Len(b) : t[L + i] = b[i]
      /\ c \in 0 .. 1 /\ (c = 0 <=> L = 0)
  OBVIOUS
<1>2. /\ Kept(s) \subseteq 1 .. L /\ IsFiniteSet(Kept(s)) /\ q \in Nat
      /\ \A i \in Kept(s) : i \in Nat /\ i <= L
  BY KeptFacts, <1>1
<1>3. Kept(t) = Kept(s) \cup (L + 1 + c) .. (L + Len(b))
  <2>1. ASSUME NEW i \in 1 .. L PROVE i \in Kept(t) <=> i \in Kept(s)
    <3>1. i \in 1 .. Len(t) /\ (i > 1 => i - 1 \in 1 .. L)
      BY <1>1
    <3>2. t[i] = s[i] /\ (i > 1 => t[i - 1] = s[i - 1])
      BY <1>1, <3>1
    <3> QED BY <1>1, <3>1, <3>2 DEF Kept
  <2>2. ASSUME NEW m \in 2 .. Len(b) PROVE L + m \in Kept(t)
    <3>1. m \in 1 .. Len(b) /\ m - 1 \in 1 .. Len(b) /\ L + m - 1 = L + (m - 1)
      BY <1>1
    <3>2. t[L + m] = b[m] /\ t[L + m - 1] = b[m - 1]
      BY <1>1, <3>1
    <3> QED BY <1>1, <3>1, <3>2 DEF Kept
  <2>3. L + 1 \in Kept(t) <=> c = 0
    <3>1. t[L + 1] = b[1] /\ L + 1 \in 1 .. Len(t)
      BY <1>1
    <3>2. CASE c = 0
      BY <1>1, <3>1, <3>2 DEF Kept
    <3>3. CASE c = 1
      <4>1. L + 1 > 1 /\ t[L + 1 - 1] = s[L] /\ s[L] = b[1]
        BY <1>1, <3>3
      <4> QED BY <3>1, <3>3, <4>1 DEF Kept
    <3> QED BY <1>1, <3>2, <3>3
  <2>4. \A i \in Kept(t) : i \in 1 .. L + Len(b)
    BY <1>1 DEF Kept
  <2> HIDE DEF t, L, c
  <2>5. ASSUME NEW i \in Kept(t), i \notin Kept(s) PROVE i \in (L + 1 + c) .. (L + Len(b))
    BY <1>1, <2>1, <2>3, <2>4, <2>5
  <2>6. ASSUME NEW i \in (L + 1 + c) .. (L + Len(b)) PROVE i \in Kept(t)
    <3>1. CASE i = L + 1
      BY <1>1, <2>3, <3>1
    <3>2. CASE i # L + 1
      <4>1. i - L \in 2 .. Len(b) /\ L + (i - L) = i
        BY <1>1, <3>2
      <4> QED BY <2>2, <4>1
    <3> QED BY <3>1, <3>2
  <2>7. ASSUME NEW i \in Kept(s) PROVE i \in Kept(t)
    BY <1>2, <2>1
  <2> QED BY <2>5, <2>6, <2>7
<1> HIDE DEF t, L, c
<1>4. ASSUME NEW x \in Int, L + c <= x, x <= L + Len(b)
      PROVE  Cardinality({h \in Kept(t) : h <= x}) = q + (x - L - c)
  <2>1. {h \in Kept(t) : h <= x} = Kept(s) \cup (L + 1 + c) .. x
    BY <1>1, <1>2, <1>3, <1>4
  <2>2. L + 1 + c \in Int /\ x \in Int
    BY <1>1
  <2>3. /\ IsFiniteSet((L + 1 + c) .. x)
        /\ Cardinality((L + 1 + c) .. x) = IF L + 1 + c > x THEN 0 ELSE x - (L + 1 + c) + 1
    BY <2>2, FS_Interval, Zenon
  <2>4. Kept(s) \cap (L + 1 + c) .. x = {}
    BY <1>1, <1>2
  <2>5. Cardinality(Kept(s) \cap (L + 1 + c) .. x) = 0
    BY <2>4, FS_EmptySet
  <2>6. Cardinality({h \in Kept(t) : h <= x}) =
          Cardinality(Kept(s)) + Cardinality((L + 1 + c) .. x)
            - Cardinality(Kept(s) \cap (L + 1 + c) .. x)
    BY <1>2, <2>1, <2>3, FS_Union
  <2> QED BY <1>1, <1>2, <1>4, <2>3, <2>5, <2>6
<1>5. Cardinality(Kept(t)) = q + Len(b) - c
  <2>1. {h \in Kept(t) : h <= L + Len(b)} = Kept(t)
    <3>1. ASSUME NEW h \in Kept(t) PROVE h <= L + Len(b)
      <4>1. h \in Kept(s) => h \in Nat /\ h <= L
        BY <1>2, Zenon
      <4>2. h \in Kept(s) \/ h \in (L + 1 + c) .. (L + Len(b))
        BY <1>3, Zenon
      <4>3. L \in Nat /\ Len(b) \in Nat
        BY <1>1
      <4> HIDE DEF t, L, c, q
      <4> QED BY <4>1, <4>2, <4>3, SMTT(20)
    <3> QED BY <3>1, Zenon
  <2>2. L + c <= L + Len(b) /\ L + Len(b) \in Int
    BY <1>1
  <2>3. Cardinality({h \in Kept(t) : h <= L + Len(b)}) = q + (L + Len(b) - L - c)
    BY <1>1, <1>4, <2>2, SMTT(20)
  <2>4. q + (L + Len(b) - L - c) = q + Len(b) - c
    BY <1>1, <1>2, SMTT(20)
  <2> QED BY <2>1, <2>3, <2>4, Zenon
<1>6. ASSUME NEW i \in Kept(s) PROVE i \in Kept(t) /\ Rank(t, i) = Rank(s, i)
  <2>1. {h \in Kept(t) : h <= i} = {h \in Kept(s) : h <= i}
    BY <1>1, <1>2, <1>3
  <2> QED BY <1>3, <2>1 DEF Rank
<1>7. ASSUME NEW m \in (1 + c) .. Len(b)
      PROVE  L + m \in Kept(t) /\ Rank(t, L + m) = q + m - c
  <2>1. PICK x \in Int : x = L + m /\ L + c <= x /\ x <= L + Len(b)
    BY <1>1
  <2>2. x \in Kept(t)
    BY <1>1, <1>3, <2>1
  <2>3. Rank(t, x) = q + (x - L - c)
    BY <1>4, <2>1 DEF Rank
  <2>4. q + (x - L - c) = q + m - c
    BY <1>1, <1>2, <2>1
  <2> QED BY <2>1, <2>2, <2>3, <2>4
<1>8. ASSUME NEW n \in 1 .. q
      PROVE  /\ \E i \in Kept(t) : Rank(t, i) = n
             /\ Squeezed(t)[n] = Squeezed(s)[n]
  <2>1. PICK i \in Kept(s) : Rank(s, i) = n
    BY DEF Ranked
  <2>2. Nth(s, n) = i /\ Nth(t, n) = i /\ t[i] = s[i]
    BY <1>1, <1>2, <1>6, <2>1, NthIs
  <2>3. n \in 1 .. Cardinality(Kept(t))
    BY <1>1, <1>2, <1>5
  <2> QED BY <1>6, <2>1, <2>2, <2>3 DEF Squeezed
<1>9. ASSUME NEW m \in (1 + c) .. Len(b)
      PROVE  Squeezed(t)[q + m - c] = b[m]
  <2>1. Nth(t, q + m - c) = L + m
    BY <1>1, <1>7, NthIs
  <2>2. q + m - c \in 1 .. Cardinality(Kept(t)) /\ t[L + m] = b[m]
    BY <1>1, <1>2, <1>5, SMTT(30)
  <2> QED BY <2>1, <2>2 DEF Squeezed
<1>10. Ranked(t)
  <2>1. ASSUME NEW n \in 1 .. Cardinality(Kept(t)), n \notin 1 .. q
        PROVE  \E i \in Kept(t) : Rank(t, i) = n
    <3>1. PICK m \in (1 + c) .. Len(b) : n = q + m - c
      <4>1. n - q + c \in (1 + c) .. Len(b) /\ n = q + (n - q + c) - c
        BY <1>1, <1>2, <1>5, <2>1, SMTT(20)
      <4> QED BY <4>1
    <3>2. L + m \in Kept(t) /\ Rank(t, L + m) = n
      BY <1>7, <3>1
    <3> QED BY <3>2, Zenon
  <2> QED BY <1>8, <2>1 DEF Ranked
<1> QED BY <1>5, <1>8, <1>9, <1>10 DEF t, c

-----------------------------------------------------------------------------
(* The route of the legs that are over.                                    *)

Length == Cardinality(Kept(path))

\* The room where the route ends, and the rooms it must not have entered yet.
Here == IF pc = "done" THEN ChamberRoom ELSE Source
Later == IF pc = "done" THEN {} ELSE Closed \cup {Goal}

Precedes(v, w) ==
  \E i \in 1 .. Length : Printed[i] = v /\ \A h \in 1 .. Length : Printed[h] = w => i < h

NoRoute ==
  /\ path = << >>
  /\ pc = "leg" => per = 1
  /\ Searching => periods[Source] = 1

\* The route so far can be walked; the next leg begins in its last period.
RouteSoFar ==
  /\ path # << >> /\ path[Len(path)] = Here
  /\ Length >= 1 /\ Printed[1] = 1 /\ Printed[Length] = Here
  /\ pc \in {"leg", "done"} => per = Length
  /\ Searching => periods[Source] = Length
  /\ \A i \in 2 .. Length : /\ adj(Printed[i - 1], Printed[i]) # 0
                           /\ ~is_Forbidden(i, Printed[i])
  /\ \A i \in 1 .. Length : Printed[i] \notin Later
  /\ Precedes(KeyRoom, SciRoom)
  /\ j = 2 => Precedes(SciRoom, ChamberRoom)

RouteInv ==
  /\ path \in Seq(Rooms) /\ Ranked(path)
  /\ pc # "undefined" => IF j = 0 THEN NoRoute ELSE RouteSoFar
  /\ pc = "done" => j = 2

LEMMA EmptyRoute == Kept(<< >>) = {} /\ Cardinality(Kept(<< >>)) = 0 /\ Ranked(<< >>)
<1>1. Kept(<< >>) = {}
  BY DEF Kept
<1>2. Cardinality(Kept(<< >>)) = 0
  BY <1>1, FS_EmptySet
<1>3. 1 .. 0 = {}
  OBVIOUS
<1> QED BY <1>1, <1>2, <1>3 DEF Ranked

\* With e the period in which the leg begins, EndLeg puts the rooms of Branch at the
\* places e to e + d of the route and leaves those before alone.
LEMMA RouteGrows ==
  ASSUME SInv, RouteInv, EndLeg
  PROVE  LET e == periods[Source]
             d == periods[Goal] - periods[Source]
         IN  /\ e \in Nat \ {0} /\ d \in Nat \ {0}
             /\ path' \in Seq(Rooms) /\ Ranked(path') /\ path' # << >>
             /\ path'[Len(path')] = Goal
             /\ Length' = e + d
             /\ \A m \in 1 .. (d + 1) : Printed'[e + m - 1] = Branch[m]
             /\ IF j = 0 THEN e = 1
                ELSE e = Length /\ \A n \in 1 .. e : Printed'[n] = Printed[n]
<1> DEFINE e == periods[Source]
           d == periods[Goal] - periods[Source]
           c == IF path = << >> THEN 0 ELSE 1
<1>1. /\ TypeInv /\ pc = "arrived" /\ parent[Goal] # Unset /\ Searching
      /\ path' = path \o Branch
      /\ Source \in Rooms /\ Goal \in Rooms
  BY Keys DEF SInv, TypeInv, EndLeg, newPath, Searching
<1>2. /\ d \in Nat \ {0} /\ Branch \in Seq(Rooms) /\ Len(Branch) = d + 1
      /\ Branch[1] = Source /\ Branch[d + 1] = Goal
      /\ \A i \in 2 .. (d + 1) : Branch[i - 1] # Branch[i]
  BY <1>1, BranchWay
<1>3. /\ path \in Seq(Rooms) /\ Ranked(path)
      /\ IF j = 0 THEN path = << >> /\ e = 1
         ELSE path # << >> /\ path[Len(path)] = Source /\ Length >= 1 /\ e = Length
              /\ Printed[Length] = Source
  BY <1>1 DEF RouteInv, NoRoute, RouteSoFar, Here
<1>4. e \in Nat \ {0} /\ Length \in Nat
  BY <1>1, <1>3, KeptFacts DEF TypeInv, Length
<1> HIDE DEF e, d
<1>5. /\ Ranked(path') /\ Length' = Length + Len(Branch) - c
      /\ \A n \in 1 .. Length : Printed'[n] = Printed[n]
      /\ \A m \in (1 + c) .. Len(Branch) : Printed'[Length + m - c] = Branch[m]
  <2>1. Len(Branch) >= 1 /\ \A i \in 2 .. Len(Branch) : Branch[i - 1] # Branch[i]
    BY <1>2
  <2>2. path # << >> => path[Len(path)] = Branch[1]
    BY <1>2, <1>3
  <2>3. path \in Seq(Rooms) /\ Ranked(path) /\ Branch \in Seq(Rooms)
    BY <1>2, <1>3
  <2>4. LET q == Cardinality(Kept(path))
        IN  /\ Ranked(path \o Branch)
            /\ Cardinality(Kept(path \o Branch)) = q + Len(Branch) - c
            /\ \A n \in 1 .. q : Squeezed(path \o Branch)[n] = Squeezed(path)[n]
            /\ \A m \in (1 + c) .. Len(Branch) :
                 Squeezed(path \o Branch)[q + m - c] = Branch[m]
    BY <2>1, <2>2, <2>3, SqueezedAppend, Zenon
  <2>5. path' = path \o Branch
    BY <1>1
  <2> QED BY <2>4, <2>5, Zenon DEF Length, Printed
<1>6. /\ path' \in Seq(Rooms) /\ path' # << >> /\ path'[Len(path')] = Goal
  BY <1>1, <1>2, <1>3
<1>7. CASE j = 0
  <2>1. Length = 0 /\ c = 0 /\ e = 1
    BY <1>3, <1>7, EmptyRoute DEF Length
  <2>2. Length' = e + d
    BY <1>2, <1>5, <2>1
  <2>3. ASSUME NEW m \in 1 .. (d + 1) PROVE Printed'[e + m - 1] = Branch[m]
    <3>1. Length + m - c = e + m - 1 /\ m \in (1 + c) .. Len(Branch)
      BY <1>2, <2>1
    <3> QED BY <1>5, <3>1
  <2> QED BY <1>2, <1>4, <1>5, <1>6, <1>7, <2>1, <2>2, <2>3 DEF e, d
<1>8. CASE j # 0
  <2>1. e = Length /\ c = 1 /\ Printed[e] = Source
    BY <1>3, <1>8
  <2>2. Length' = e + d /\ Printed'[e] = Branch[1]
    BY <1>2, <1>4, <1>5, <2>1
  <2>3. ASSUME NEW m \in 1 .. (d + 1) PROVE Printed'[e + m - 1] = Branch[m]
    <3>1. CASE m = 1
      BY <1>4, <2>2, <3>1
    <3>2. CASE m # 1
      <4>1. Length + m - c = e + m - 1 /\ m \in (1 + c) .. Len(Branch)
        BY <1>2, <2>1, <3>2
      <4> QED BY <1>5, <4>1
    <3> QED BY <3>1, <3>2
  <2> QED BY <1>2, <1>4, <1>5, <1>6, <1>8, <2>1, <2>2, <2>3 DEF e, d
<1> QED BY <1>7, <1>8

\* Where the route ends after a leg.
LEMMA NextLeg ==
  ASSUME SInv, EndLeg
  PROVE  /\ Here' = Goal /\ j' # 0 /\ pc' # "undefined" /\ ~Searching'
         /\ Later' \subseteq Closed
         /\ pc' = "done" => j' = 2
<1>1. /\ TypeInv
      /\ pc' = IF j < 2 THEN "leg" ELSE "done"
      /\ j' = IF j < 2 THEN j + 1 ELSE j
  BY DEF SInv, EndLeg
<1>2. CASE j = 0
  BY <1>1, <1>2 DEF Here, Later, Source, Goal, Closed, allKeys, Searching
<1>3. CASE j = 1
  BY <1>1, <1>3 DEF Here, Later, Source, Goal, Closed, allKeys, Searching
<1>4. CASE j = 2
  BY <1>1, <1>4 DEF Here, Later, Goal, allKeys, Searching
<1> QED BY <1>1, <1>2, <1>3, <1>4 DEF TypeInv

LEMMA EndLegRoute ==
  ASSUME SInv, RouteInv, EndLeg
  PROVE  RouteInv'
<1> DEFINE e == periods[Source]
           d == periods[Goal] - periods[Source]
<1>1. /\ TypeInv /\ Searching /\ pc = "arrived" /\ parent[Goal] # Unset
      /\ per = periods[Goal] /\ per' = per
      /\ \A u, v : adj(u, v)' = adj(u, v)
      /\ \A period, v : is_Forbidden(period, v)' = is_Forbidden(period, v)
      /\ j' = IF j < 2 THEN j + 1 ELSE j
  BY DEF SInv, EndLeg, RoundInv, Searching, adj, is_Forbidden
<1>2. /\ e \in Nat \ {0} /\ d \in Nat \ {0}
      /\ path' \in Seq(Rooms) /\ Ranked(path') /\ path' # << >>
      /\ path'[Len(path')] = Goal
      /\ Length' = e + d
      /\ \A m \in 1 .. (d + 1) : Printed'[e + m - 1] = Branch[m]
      /\ IF j = 0 THEN e = 1
         ELSE e = Length /\ \A n \in 1 .. e : Printed'[n] = Printed[n]
  BY RouteGrows
<1>3. /\ Branch[1] = Source /\ Branch[d + 1] = Goal
      /\ \A i \in 1 .. (d + 1) : Branch[i] \notin Closed
      /\ \A i \in 2 .. (d + 1) : /\ adj(Branch[i - 1], Branch[i]) # 0
                                /\ ~is_Forbidden(e + i - 1, Branch[i])
  BY <1>1, BranchWay
<1>4. /\ Here' = Goal /\ j' # 0 /\ pc' # "undefined" /\ ~Searching' /\ Later' \subseteq Closed
      /\ pc' = "done" => j' = 2
  BY NextLeg
<1>5. j # 0 => RouteSoFar
  BY <1>1 DEF RouteInv
<1>6. per = e + d
  BY <1>1, <1>2, SMTT(30) DEF TypeInv
<1> HIDE DEF e, d
<1>7. ASSUME NEW i \in 1 .. (e + d), ~(i < e)
      PROVE  \E m \in 1 .. (d + 1) : i = e + m - 1
  <2>1. i - e + 1 \in 1 .. (d + 1) /\ i = e + (i - e + 1) - 1
    BY <1>2, <1>7
  <2> QED BY <2>1
<1>8. ASSUME NEW i \in 1 .. (e + d), i < e
      PROVE  /\ j # 0 /\ i \in 1 .. Length /\ Printed'[i] = Printed[i]
  BY <1>2, <1>8
<1>9. ASSUME j # 0 PROVE Printed'[e] = Printed[e]
  BY <1>2, <1>9
<1>10. Printed'[e + d] = Goal
  <2>1. Printed'[e + (d + 1) - 1] = Goal
    BY <1>2, <1>3
  <2>2. e + (d + 1) - 1 = e + d
    BY <1>2
  <2> QED BY <2>1, <2>2
<1>11. Printed'[1] = 1
  <2>1. CASE j = 0
    <3>1. Printed'[e + 1 - 1] = Branch[1] /\ e + 1 - 1 = 1
      BY <1>2, <2>1
    <3> QED BY <1>1, <1>3, <2>1, <3>1, Keys
  <2>2. CASE j # 0
    BY <1>2, <1>5, <2>2 DEF RouteSoFar
  <2> QED BY <2>1, <2>2
<1>12. ASSUME NEW i \in 2 .. (e + d)
       PROVE  adj(Printed'[i - 1], Printed'[i]) # 0 /\ ~is_Forbidden(i, Printed'[i])
  <2>1. CASE i <= e
    <3>1. /\ j # 0 /\ i \in 2 .. Length
          /\ i \in 1 .. e /\ i - 1 \in 1 .. e
      BY <1>2, <2>1
    <3>2. Printed'[i] = Printed[i] /\ Printed'[i - 1] = Printed[i - 1]
      BY <1>2, <3>1
    <3> QED BY <1>5, <3>1, <3>2 DEF RouteSoFar
  <2>2. CASE i > e
    <3>1. PICK m \in 2 .. (d + 1) : i = e + m - 1 /\ i - 1 = e + (m - 1) - 1
      <4>1. i - e + 1 \in 2 .. (d + 1) /\ i = e + (i - e + 1) - 1
            /\ i - 1 = e + ((i - e + 1) - 1) - 1
        BY <1>2, <2>2
      <4> QED BY <4>1
    <3>2. m \in 1 .. (d + 1) /\ m - 1 \in 1 .. (d + 1)
      BY <1>2
    <3>3. Printed'[i] = Branch[m] /\ Printed'[i - 1] = Branch[m - 1]
      BY <1>2, <3>1, <3>2
    <3> QED BY <1>3, <3>1, <3>3
  <2> QED BY <1>2, <2>1, <2>2
<1>13. ASSUME NEW i \in 1 .. (e + d) PROVE Printed'[i] \notin Closed
  <2>1. CASE i < e
    BY <1>1, <1>5, <1>8, <2>1 DEF RouteSoFar, Later, Searching
  <2>2. CASE ~(i < e)
    BY <1>2, <1>3, <1>7, <2>2
  <2> QED BY <2>1, <2>2
<1>14. ASSUME NEW v, NEW w, j # 0, Precedes(v, w) PROVE Precedes(v, w)'
  <2>1. PICK i \in 1 .. e : /\ Printed[i] = v
                           /\ \A h \in 1 .. e : Printed[h] = w => i < h
    BY <1>2, <1>14 DEF Precedes
  <2>2. Printed'[i] = v /\ i \in 1 .. (e + d)
    BY <1>2, <1>14, <2>1
  <2>3. ASSUME NEW h \in 1 .. (e + d), Printed'[h] = w PROVE i < h
    <3>1. CASE h \in 1 .. e
      BY <1>2, <1>14, <2>1, <2>3, <3>1
    <3>2. CASE h \notin 1 .. e
      BY <1>2, <2>1, <3>2
    <3> QED BY <3>1, <3>2
  <2> QED BY <1>2, <2>2, <2>3 DEF Precedes
<1>15. ASSUME NEW v, v = Goal, NEW w \in Closed PROVE Precedes(v, w)'
  <2>1. e + d \in 1 .. (e + d)
    BY <1>2
  <2> QED BY <1>2, <1>10, <1>13, <1>15, <2>1 DEF Precedes
<1>16. Precedes(KeyRoom, SciRoom)'
  <2>1. CASE j = 0
    <3>1. Goal = KeyRoom /\ SciRoom \in Closed
      BY <2>1 DEF Goal, Closed, allKeys
    <3> QED BY <1>15, <3>1
  <2>2. CASE j # 0
    BY <1>5, <1>14, <2>2 DEF RouteSoFar
  <2> QED BY <2>1, <2>2
<1>17. ASSUME j' = 2 PROVE Precedes(SciRoom, ChamberRoom)'
  <2>1. CASE j = 1
    <3>1. Goal = SciRoom /\ ChamberRoom \in Closed
      BY <2>1 DEF Goal, Closed, allKeys
    <3> QED BY <1>15, <3>1
  <2>2. CASE j = 2
    BY <1>5, <1>14, <2>2 DEF RouteSoFar
  <2> QED BY <1>1, <1>17, <2>1, <2>2 DEF TypeInv
<1>18. RouteSoFar'
  <2>1. Length' = e + d /\ Length' >= 1 /\ Printed'[Length'] = Here'
    BY <1>2, <1>4, <1>10
  <2>2. per' = Length' /\ path' # << >> /\ path'[Len(path')] = Here'
    BY <1>1, <1>2, <1>4, <1>6
  <2>3. \A i \in 1 .. Length' : Printed'[i] \notin Later'
    BY <1>4, <1>13, <2>1
  <2>4. \A i \in 2 .. Length' : /\ adj(Printed[i - 1], Printed[i])' # 0
                              /\ ~is_Forbidden(i, Printed[i])'
    BY <1>1, <1>12, <2>1
  <2> QED BY <1>4, <1>11, <1>16, <1>17, <2>1, <2>2, <2>3, <2>4 DEF RouteSoFar
<1> QED BY <1>2, <1>4, <1>18 DEF RouteInv

\* The other steps leave the route alone.
LEMMA SameRoute ==
  ASSUME RouteInv, UNCHANGED <<input, path, j>>, TypeInv,
         pc \in {"leg", "search", "arrived"}, pc' \in {"search", "arrived"},
         IF j = 0 THEN periods'[Source] = 1 ELSE periods'[Source] = Length
  PROVE  RouteInv'
<1>1. /\ Length' = Length /\ Printed' = Printed /\ Source' = Source /\ Goal' = Goal
      /\ Closed' = Closed /\ Here' = Here /\ Later' = Later
      /\ path' = path /\ j' = j /\ pc' # "leg" /\ pc' # "done"
  BY DEF Length, Printed, Source, Goal, Closed, Here, Later
<1>2. /\ \A u, v : adj(u, v)' = adj(u, v)
      /\ \A period, v : is_Forbidden(period, v)' = is_Forbidden(period, v)
  BY DEF adj, is_Forbidden
<1>3. CASE j = 0
  BY <1>1, <1>3 DEF RouteInv, NoRoute
<1>4. CASE j # 0
  <2>1. RouteSoFar /\ path \in Seq(Rooms) /\ Ranked(path)
    BY <1>4 DEF RouteInv
  <2>2. \A i \in 2 .. Length' : /\ adj(Printed[i - 1], Printed[i])' # 0
                              /\ ~is_Forbidden(i, Printed[i])'
    BY <1>1, <1>2, <2>1 DEF RouteSoFar
  <2>3. \A v, w : Precedes(v, w)' <=> Precedes(v, w)
    BY <1>1 DEF Precedes
  <2>4. Precedes(KeyRoom, SciRoom)' /\ (j' = 2 => Precedes(SciRoom, ChamberRoom)')
    BY <1>1, <2>1, <2>3 DEF RouteSoFar
  <2>5. /\ path' # << >> /\ path'[Len(path')] = Here'
        /\ Length' >= 1 /\ Printed'[1] = 1 /\ Printed'[Length'] = Here'
        /\ \A i \in 1 .. Length' : Printed'[i] \notin Later'
        /\ periods'[Source'] = Length'
    BY <1>1, <1>4, <2>1 DEF RouteSoFar
  <2>6. RouteSoFar'
    BY <1>1, <2>2, <2>4, <2>5 DEF RouteSoFar
  <2> QED BY <1>1, <1>4, <2>1, <2>6 DEF RouteInv
<1> QED BY <1>3, <1>4

LEMMA BeginLegRoute ==
  ASSUME SInv, RouteInv, BeginLeg
  PROVE  RouteInv'
<1>1. /\ TypeInv /\ pc = "leg" /\ pc' = "search" /\ UNCHANGED <<input, path, j>>
      /\ periods' = [v \in Rooms |-> per] /\ Source \in Rooms
  BY Keys DEF SInv, TypeInv, BeginLeg
<1>2. IF j = 0 THEN per = 1 ELSE per = Length
  BY <1>1 DEF RouteInv, NoRoute, RouteSoFar
<1> QED BY <1>1, <1>2, SameRoute

LEMMA ExpandRoute ==
  ASSUME SInv, RouteInv, Expand \/ Arrive
  PROVE  RouteInv'
<1>1. /\ TypeInv /\ pc = "search" /\ pc' \in {"search", "arrived"}
      /\ UNCHANGED <<input, path, j>> /\ Source \in Rooms
  BY Keys DEF SInv, TypeInv, Expand, Arrive
<1>2. periods'[Source] = periods[Source]
  BY ExpandPeriods DEF Arrive
<1>3. IF j = 0 THEN periods[Source] = 1 ELSE periods[Source] = Length
  BY <1>1 DEF RouteInv, NoRoute, RouteSoFar, Searching
<1> QED BY <1>1, <1>2, <1>3, SameRoute

LEMMA StepRoute ==
  ASSUME SInv, RouteInv, [Next]_vars
  PROVE  RouteInv'
<1>1. CASE NoCandidate \/ NoWay
  BY <1>1 DEF NoCandidate, NoWay, RouteInv
<1>2. CASE UNCHANGED vars
  <2>1. UNCHANGED <<input, path, j, pc, periods, per>>
    BY <1>2 DEF vars
  <2>2. CASE pc = "undefined"
    BY <2>1, <2>2 DEF RouteInv
  <2>3. CASE pc # "undefined"
    <3>1. NoRoute' <=> NoRoute
      BY <2>1 DEF NoRoute, Searching, Source
    <3>2. RouteSoFar' <=> RouteSoFar
      BY <2>1 DEF RouteSoFar, Precedes, Length, Printed, Here, Later, Source, Goal, Closed,
                  Searching, adj, is_Forbidden
    <3> QED BY <2>1, <2>3, <3>1, <3>2 DEF RouteInv
  <2> QED BY <2>2, <2>3
<1> QED BY <1>1, <1>2, BeginLegRoute, ExpandRoute, EndLegRoute DEF Next, Ended

LEMMA InitRoute == Init => RouteInv
BY EmptyRoute DEF Init, RouteInv, NoRoute, Searching

LEMMA InductiveRoute == Spec => [](SInv /\ RouteInv)
<1>1. Init => SInv /\ RouteInv
  BY InitSearch, InitRoute
<1>2. SInv /\ RouteInv /\ [Next]_vars => (SInv /\ RouteInv)'
  BY StepSearch, StepRoute
<1> QED BY <1>1, <1>2, PTL DEF Spec

\* The types (lines 13-19, 60-131), among them that no search uses up its rounds
\* (line 153).
THEOREM Typing == Spec => []TypeOK
<1>1. SInv /\ RouteInv => TypeOK
  <2>1. SInv => k \in 0 .. (NRooms - 1)
    BY RoomsNat DEF SInv, TypeInv, RoundInv
  <2> QED BY <2>1 DEF SInv, TypeInv, RouteInv, TypeOK
<1> QED BY <1>1, InductiveRoute, PTL

\* The route printed (lines 178-188) can be walked, whatever the map: corridors only,
\* one period in each room, no room while it is locked, the keys in their order.
THEOREM Route == Spec => []RouteLegal
<1>1. ASSUME SInv, RouteInv PROVE RouteLegal
  <2> SUFFICES ASSUME pc = "done" PROVE RouteLegal
    BY DEF RouteLegal
  <2>1. RouteSoFar /\ j = 2 /\ path \in Seq(Rooms) /\ Length \in Nat
    BY <1>1, KeptFacts DEF RouteInv, Length
  <2>2. DOMAIN Printed = 1 .. Length /\ Len(Printed) = Length
    BY <2>1 DEF Printed, Squeezed, Length
  <2>3. /\ Length = per /\ Printed[1] = 1 /\ Printed[per] = ChamberRoom
        /\ \A i \in 2 .. per : /\ adj(Printed[i - 1], Printed[i]) # 0
                             /\ ~is_Forbidden(i, Printed[i])
        /\ Precedes(KeyRoom, SciRoom) /\ Precedes(SciRoom, ChamberRoom)
    BY <2>1 DEF RouteSoFar, Here
  <2> DEFINE At(v) == {i \in DOMAIN Printed : Printed[i] = v}
             Before(v, w) == \E i \in At(v) : \A h \in At(w) : i < h
  <2>4. \A v, w : Precedes(v, w) => Before(v, w)
    BY <2>2 DEF Precedes
  <2>5. Before(KeyRoom, SciRoom) /\ Before(SciRoom, ChamberRoom)
    BY <2>3, <2>4
  <2> QED BY <2>2, <2>3, <2>5 DEF RouteLegal
<1> QED BY <1>1, InductiveRoute, PTL
-----------------------------------------------------------------------------
(* What the route costs.                                                   *)

\* What is found in the i-th room of r, and what walking r has taken there.
Found(r, i) == IF \E h \in 1 .. (i - 1) : r[h] = r[i] THEN 0 ELSE input.ammo[r[i]]

Tally(r, S, n) ==
  S = [i \in 1 .. n |-> IF i = 1 THEN 0
                       ELSE S[i - 1] + adj(r[i - 1], r[i]) - Found(r, i)]

LEMMA TallyExists ==
  ASSUME NEW r, NEW n \in Nat
  PROVE  \E S : Tally(r, S, n)
<1> DEFINE Bad == {m \in Nat : ~ \E S : Tally(r, S, m)}
<1> SUFFICES ASSUME Bad # {} PROVE FALSE
  OBVIOUS
<1>1. Bad \subseteq Nat
  OBVIOUS
<1>2. PICK N \in Bad : \A m \in Bad : N <= m
  <2> HIDE DEF Bad
  <2> QED BY <1>1, LeastNat
<1>3. N \in Nat /\ ~ \E S : Tally(r, S, N)
  OBVIOUS
<1>4. N # 0
  <2>1. 1 .. 0 = {}
    OBVIOUS
  <2>2. Tally(r, [i \in 1 .. 0 |-> 0], 0)
    BY <2>1 DEF Tally
  <2> QED BY <1>3, <2>2
<1>5. N - 1 \in Nat /\ N - 1 \notin Bad
  <2> HIDE DEF Bad
  <2> QED BY <1>2, <1>3, <1>4
<1>6. PICK f : Tally(r, f, N - 1)
  BY <1>5
<1> HIDE DEF Bad
<1> DEFINE last == IF N = 1 THEN 0 ELSE f[N - 1] + adj(r[N - 1], r[N]) - Found(r, N)
           g == [i \in 1 .. N |-> IF i = N THEN last ELSE f[i]]
<1>7. \A i \in 1 .. (N - 1) : f[i] = IF i = 1 THEN 0
                                    ELSE f[i - 1] + adj(r[i - 1], r[i]) - Found(r, i)
  BY <1>6, Zenon DEF Tally
<1>8. \A i \in 1 .. N : g[i] = IF i = 1 THEN 0
                              ELSE g[i - 1] + adj(r[i - 1], r[i]) - Found(r, i)
  BY <1>3, <1>4, <1>7
<1>9. g = [i \in 1 .. N |-> g[i]]
  OBVIOUS
<1>10. Tally(r, g, N)
  <2> HIDE DEF g
  <2> QED BY <1>8, <1>9 DEF Tally
<1> QED BY <1>3, <1>10

\* Spent step by step.
LEMMA SpentSteps ==
  ASSUME input \in Inputs, NEW r, NEW n \in Nat \ {0}, Len(r) = n,
         \A i \in 1 .. n : r[i] \in Rooms
  PROVE  \E S : /\ Spent(r) = S[n] /\ S[1] = 0
                /\ \A i \in 1 .. n : S[i] \in Int
                /\ \A i \in 2 .. n : S[i] = S[i - 1] + adj(r[i - 1], r[i]) - Found(r, i)
<1> DEFINE Sum[i \in 1 .. Len(r)] ==
             IF i = 1 THEN 0
             ELSE Sum[i - 1] + adj(r[i - 1], r[i])
                    - (IF \E h \in 1 .. (i - 1) : r[h] = r[i] THEN 0
                       ELSE input.ammo[r[i]])
<1>1. Spent(r) = Sum[n]
  BY DEF Spent
<1>2. Sum = CHOOSE S : Tally(r, S, Len(r))
  BY Zenon DEF Tally, Found
<1> HIDE DEF Sum
<1>3. Tally(r, Sum, n)
  <2>1. \E S : Tally(r, S, Len(r))
    BY TallyExists
  <2>2. Tally(r, Sum, Len(r))
    BY <1>2, <2>1, Zenon
  <2> QED BY <2>2
<1>4. \A i \in 1 .. n : Sum[i] = IF i = 1 THEN 0
                              ELSE Sum[i - 1] + adj(r[i - 1], r[i]) - Found(r, i)
  BY <1>3, Zenon DEF Tally
<1>5. \A i \in 1 .. n : Found(r, i) \in Nat
  BY InputFacts DEF Found
<1>6. ASSUME NEW i \in 2 .. n
      PROVE  i - 1 \in 1 .. n /\ i \in 1 .. n /\ adj(r[i - 1], r[i]) \in Nat
  <2>1. i - 1 \in 1 .. n /\ i \in 1 .. n
    OBVIOUS
  <2>2. r[i - 1] \in Rooms /\ r[i] \in Rooms
    BY <2>1
  <2> QED BY <2>1, <2>2, InputFacts
<1> DEFINE Bad == {i \in 1 .. n : Sum[i] \notin Int}
<1>7. ASSUME Bad # {} PROVE FALSE
  <2>1. Bad \subseteq Nat
    OBVIOUS
  <2>2. PICK i \in Bad : \A m \in Bad : i <= m
    <3> HIDE DEF Bad
    <3> QED BY <1>7, <2>1, LeastNat
  <2>3. i \in 1 .. n /\ Sum[i] \notin Int /\ i # 1
    BY <1>4
  <2>4. i \in 2 .. n /\ i - 1 \notin Bad
    BY <2>1, <2>2, <2>3
  <2>5. Sum[i - 1] \in Int
    BY <1>6, <2>4
  <2>6. Sum[i] = Sum[i - 1] + adj(r[i - 1], r[i]) - Found(r, i)
    BY <1>4, <2>3
  <2>7. adj(r[i - 1], r[i]) \in Nat /\ Found(r, i) \in Nat
    BY <1>5, <1>6, <2>3, <2>4
  <2>8. Sum[i] \in Int
    <3> HIDE DEF Bad
    <3> QED BY <2>5, <2>6, <2>7
  <2> QED BY <2>3, <2>8
<1>8. Sum[1] = 0 /\ \A i \in 1 .. n : Sum[i] \in Int
  BY <1>4, <1>7
<1>9. \A i \in 2 .. n : Sum[i] = Sum[i - 1] + adj(r[i - 1], r[i]) - Found(r, i)
  BY <1>4
<1> QED BY <1>1, <1>8, <1>9

\* Two routes with the same beginning cost the same there.
LEMMA SameTally ==
  ASSUME NEW e \in Nat \ {0}, NEW r, NEW q, NEW S, NEW T, S[1] = T[1],
         \A i \in 1 .. e : r[i] = q[i],
         \A i \in 2 .. e : S[i] = S[i - 1] + adj(r[i - 1], r[i]) - Found(r, i),
         \A i \in 2 .. e : T[i] = T[i - 1] + adj(q[i - 1], q[i]) - Found(q, i)
  PROVE  S[e] = T[e]
<1> DEFINE Bad == {i \in 1 .. e : S[i] # T[i]}
<1>1. ASSUME Bad # {} PROVE FALSE
  <2>1. Bad \subseteq Nat
    OBVIOUS
  <2>2. PICK i \in Bad : \A m \in Bad : i <= m
    <3> HIDE DEF Bad
    <3> QED BY <1>1, <2>1, LeastNat
  <2>3. i \in 2 .. e /\ i - 1 \in 1 .. e /\ i \in 1 .. e /\ S[i] # T[i]
    OBVIOUS
  <2>4. i - 1 \notin Bad
    <3> HIDE DEF Bad
    <3> QED BY <2>1, <2>2, <2>3
  <2>5. S[i - 1] = T[i - 1] /\ r[i - 1] = q[i - 1] /\ r[i] = q[i]
    BY <2>3, <2>4
  <2>6. \A h \in 1 .. (i - 1) : r[h] = q[h]
    BY <2>3
  <2>7. Found(r, i) = Found(q, i)
    BY <2>5, <2>6 DEF Found
  <2> QED BY <2>3, <2>5, <2>7
<1> QED BY <1>1

LEMMA PrintedRooms ==
  ASSUME NEW s \in Seq(Rooms), Ranked(s), NEW n \in 1 .. Cardinality(Kept(s))
  PROVE  \E i \in 1 .. Len(s) : Squeezed(s)[n] = s[i]
<1>1. PICK i \in Kept(s) : Rank(s, i) = n
  BY DEF Ranked
<1>2. Nth(s, n) = i /\ i \in 1 .. Len(s)
  BY <1>1, NthIs, KeptFacts
<1> QED BY <1>2 DEF Squeezed

\* What the rooms still hold: nothing where the route has been.
AmmoInv ==
  /\ \A v \in Rooms : RoomYammo[v] <= input.ammo[v]
  /\ \A i \in 1 .. Len(path) : RoomYammo[path[i]] = 0

\* The promise for the legs that are over is where the next leg starts to count.
PromiseInv ==
  /\ pc = "arrived" => init = dist[Goal]
  /\ pc = "leg" => IF j = 0 THEN init = 0 ELSE init >= Spent(Printed)
  /\ Searching => IF j = 0 THEN dist[Source] = 0 ELSE dist[Source] >= Spent(Printed)
  /\ PromiseKept

LEMMA InitAmmo == Init => AmmoInv /\ PromiseInv
<1> SUFFICES ASSUME Init PROVE AmmoInv /\ PromiseInv
  OBVIOUS
<1>1. input.ammo \in [Rooms -> Nat]
  BY InputFacts DEF Init
<1> QED BY <1>1 DEF Init, AmmoInv, PromiseInv, PromiseKept, Searching

LEMMA AmmoStep ==
  ASSUME SInv, RouteInv, AmmoInv, [Next]_vars
  PROVE  AmmoInv'
<1>1. CASE UNCHANGED <<input, RoomYammo, path>>
  BY <1>1 DEF AmmoInv
<1>2. CASE EndLeg
  <2>1. /\ TypeInv /\ RoomYammo \in [Rooms -> Nat] /\ input' = input
        /\ path' \in Seq(Rooms) /\ input.ammo \in [Rooms -> Nat]
    BY <1>2, InputFacts, RouteGrows DEF SInv, TypeInv, EndLeg
  <2>2. PICK strays : RoomYammo' = newRoomYammo(path', strays)
    BY <1>2 DEF EndLeg
  <2>3. \A v \in Rooms : RoomYammo'[v] <= input.ammo[v]
    BY <2>1, <2>2 DEF newRoomYammo, AmmoInv
  <2>4. \A i \in 1 .. Len(path') : RoomYammo'[path'[i]] = 0
    BY <2>1, <2>2 DEF newRoomYammo
  <2> QED BY <2>1, <2>3, <2>4 DEF AmmoInv
<1> QED BY <1>1, <1>2 DEF Next, BeginLeg, Expand, Arrive, NoCandidate, NoWay, Ended, vars

\* Along the leg the distances keep ahead of what the route has taken.
LEMMA EndLegPromise ==
  ASSUME SInv, RouteInv, AmmoInv, PromiseInv, EndLeg
  PROVE  dist[Goal] >= Spent(Printed')
<1> DEFINE e == periods[Source]
           d == periods[Goal] - periods[Source]
<1>1. /\ TypeInv /\ TreeInv /\ Searching /\ pc = "arrived" /\ parent[Goal] # Unset
      /\ path \in Seq(Rooms) /\ Ranked(path) /\ input \in Inputs
      /\ Source \in Rooms /\ Goal \in Rooms
  BY Keys DEF SInv, TypeInv, EndLeg, Searching, RouteInv
<1>2. /\ e \in Nat \ {0} /\ d \in Nat \ {0} /\ Length' = e + d
      /\ path' \in Seq(Rooms)
      /\ \A m \in 1 .. (d + 1) : Printed'[e + m - 1] = Branch[m]
      /\ IF j = 0 THEN e = 1
         ELSE e = Length /\ \A n \in 1 .. e : Printed'[n] = Printed[n]
  BY RouteGrows
<1>3. /\ Branch[1] = Source /\ Branch[d + 1] = Goal
      /\ \A i \in 1 .. (d + 1) : /\ Branch[i] \in Rooms
                                /\ periods[Branch[i]] = e + i - 1
      /\ \A i \in 2 .. (d + 1) : /\ Branch[i] # Source /\ Reached(Branch[i])
                                /\ Branch[i - 1] = parent[Branch[i]]
  BY <1>1, BranchWay
<1>4. \A v \in Rooms : dist[v] \in Int /\ RoomYammo[v] \in Nat /\ input.ammo[v] \in Nat
  BY <1>1, InputFacts DEF TypeInv
<1>5. \A u, v \in Rooms : adj(u, v) \in Nat
  BY <1>1, InputFacts
<1>6. \A i \in 2 .. (d + 1) :
        dist[Branch[i]] = dist[Branch[i - 1]] + adj(Branch[i - 1], Branch[i])
                            - RoomYammo[Branch[i]]
  <2>1. ASSUME NEW i \in 2 .. (d + 1)
        PROVE  dist[Branch[i]] = dist[Branch[i - 1]] + adj(Branch[i - 1], Branch[i])
                                   - RoomYammo[Branch[i]]
    <3>1. i \in 1 .. (d + 1)
      BY <1>2
    <3> QED BY <1>1, <1>3, <3>1 DEF TreeInv
  <2> QED BY <2>1
<1> HIDE DEF e, d
<1>7. PICK r : r = Printed'
  OBVIOUS
<1>8. /\ DOMAIN r = 1 .. (e + d) /\ Len(r) = e + d
      /\ e + d \in Nat \ {0}
  <2>1. r = [n \in 1 .. (e + d) |-> r[n]]
    BY <1>2, <1>7 DEF Printed, Squeezed, Length
  <2> QED BY <1>2, <2>1
<1>9. \A m \in 1 .. (d + 1) : r[e + m - 1] = Branch[m]
  BY <1>2, <1>7
<1>10. ASSUME j # 0, NEW n \in 1 .. e
       PROVE  /\ r[n] = Printed[n] /\ Printed[n] \in Rooms /\ RoomYammo[Printed[n]] = 0
  <2>1. PICK i \in 1 .. Len(path) : Printed[n] = path[i]
    BY <1>1, <1>2, <1>10, PrintedRooms DEF Printed, Length
  <2> QED BY <1>1, <1>2, <1>7, <1>10, <2>1 DEF AmmoInv
<1>11. ASSUME NEW i \in 1 .. (e + d), ~(i < e)
       PROVE  \E m \in 1 .. (d + 1) : i = e + m - 1 /\ r[i] = Branch[m]
  <2>1. i - e + 1 \in 1 .. (d + 1) /\ i = e + (i - e + 1) - 1
    BY <1>2, <1>11
  <2> QED BY <1>9, <2>1
<1>12. ASSUME NEW i \in 1 .. (e + d), i < e PROVE j # 0 /\ i \in 1 .. e
  BY <1>2, <1>12
<1>13. \A i \in 1 .. (e + d) : r[i] \in Rooms
  BY <1>3, <1>10, <1>11, <1>12
<1>14. PICK S : /\ Spent(r) = S[e + d] /\ S[1] = 0
                /\ \A i \in 1 .. (e + d) : S[i] \in Int
                /\ \A i \in 2 .. (e + d) :
                     S[i] = S[i - 1] + adj(r[i - 1], r[i]) - Found(r, i)
  BY <1>1, <1>8, <1>13, SpentSteps
<1> DEFINE Ahead(m) == S[e + m - 1] <= dist[Branch[m]]
<1>15. Ahead(1)
  <2>1. e + 1 - 1 = e
    BY <1>2
  <2>2. CASE j = 0
    BY <1>1, <1>2, <1>3, <1>14, <2>1, <2>2 DEF PromiseInv
  <2>3. CASE j # 0
    <3>1. /\ e = Length /\ \A i \in 1 .. e : Printed[i] \in Rooms /\ r[i] = Printed[i]
      BY <1>2, <1>10, <2>3
    <3>2. Len(Printed) = e
      BY <1>2, <3>1 DEF Printed, Squeezed, Length
    <3>3. PICK T : /\ Spent(Printed) = T[e] /\ T[1] = 0
                   /\ \A i \in 1 .. e : T[i] \in Int
                   /\ \A i \in 2 .. e :
                        T[i] = T[i - 1] + adj(Printed[i - 1], Printed[i]) - Found(Printed, i)
      BY <1>1, <1>2, <3>1, <3>2, SpentSteps
    <3>4. S[e] = T[e]
      <4>1. \A i \in 2 .. e : i \in 2 .. (e + d)
        BY <1>2
      <4>2. \A i \in 2 .. e : S[i] = S[i - 1] + adj(r[i - 1], r[i]) - Found(r, i)
        BY <1>14, <4>1
      <4>3. e \in Nat \ {0} /\ S[1] = T[1] /\ \A i \in 1 .. e : r[i] = Printed[i]
        BY <1>2, <1>14, <3>1, <3>3
      <4>4. PICK q : q = Printed
        OBVIOUS
      <4>5. /\ \A i \in 1 .. e : r[i] = q[i]
            /\ \A i \in 2 .. e : T[i] = T[i - 1] + adj(q[i - 1], q[i]) - Found(q, i)
        BY <3>3, <4>3, <4>4
      <4> HIDE <4>4
      <4> QED BY <4>2, <4>3, <4>5, SameTally
    <3>5. dist[Source] >= Spent(Printed)
      BY <1>1, <2>3 DEF PromiseInv
    <3> QED BY <1>3, <2>1, <3>3, <3>4, <3>5
  <2> QED BY <2>2, <2>3
<1>16. ASSUME NEW m \in 1 .. d, Ahead(m) PROVE Ahead(m + 1)
  <2>1. PICK i \in Int : i = e + m
    BY <1>2
  <2>2. /\ i \in 2 .. (e + d) /\ i \in 1 .. (e + d) /\ i - 1 \in 1 .. (e + d)
        /\ i - 1 = e + m - 1 /\ i = e + (m + 1) - 1
        /\ m + 1 \in 2 .. (d + 1) /\ m \in 1 .. (d + 1) /\ m + 1 \in 1 .. (d + 1)
        /\ m + 1 - 1 = m
    BY <1>2, <2>1
  <2>3. r[i] = Branch[m + 1] /\ r[i - 1] = Branch[m]
    BY <1>9, <2>2
  <2>4. RoomYammo[r[i]] <= Found(r, i) /\ Found(r, i) \in Nat
    <3>1. ASSUME NEW h \in 1 .. (i - 1), r[h] = r[i] PROVE RoomYammo[r[i]] = 0
      <4>1. h \in 1 .. (e + d) /\ h < i
        BY <1>2, <2>2
      <4>2. CASE h < e
        BY <1>10, <1>12, <3>1, <4>1, <4>2
      <4>3. CASE ~(h < e)
        <5>1. PICK n \in 1 .. (d + 1) : h = e + n - 1 /\ r[h] = Branch[n]
          BY <1>11, <4>1, <4>3
        <5>2. n < m + 1
          BY <1>2, <2>1, <4>1, <5>1
        <5>3. periods[Branch[n]] = e + n - 1 /\ periods[Branch[m + 1]] = e + (m + 1) - 1
          BY <1>3, <2>2
        <5>4. e + n - 1 # e + (m + 1) - 1
          BY <1>2, <5>2
        <5> QED BY <2>3, <3>1, <5>1, <5>3, <5>4
      <4> QED BY <4>2, <4>3
    <3>2. RoomYammo[r[i]] <= input.ammo[r[i]]
      BY <1>13, <2>2 DEF AmmoInv
    <3>3. RoomYammo[r[i]] \in Nat /\ input.ammo[r[i]] \in Nat
      BY <1>4, <1>13, <2>2
    <3> QED BY <3>1, <3>2, <3>3 DEF Found
  <2>5. S[i] = S[i - 1] + adj(r[i - 1], r[i]) - Found(r, i)
    BY <1>14, <2>2
  <2>6. dist[r[i]] = dist[r[i - 1]] + adj(r[i - 1], r[i]) - RoomYammo[r[i]]
    BY <1>6, <2>2, <2>3
  <2>7. /\ S[i] \in Int /\ S[i - 1] \in Int /\ adj(r[i - 1], r[i]) \in Nat
        /\ dist[r[i]] \in Int /\ dist[r[i - 1]] \in Int /\ RoomYammo[r[i]] \in Nat
    BY <1>4, <1>5, <1>13, <1>14, <2>2
  <2>8. S[i - 1] <= dist[r[i - 1]]
    BY <1>16, <2>2, <2>3
  <2>9. S[i] <= dist[r[i]]
    BY <2>4, <2>5, <2>6, <2>7, <2>8
  <2> QED BY <2>2, <2>3, <2>9
<1> DEFINE Bad == {m \in 1 .. (d + 1) : ~Ahead(m)}
<1>17. ASSUME Bad # {} PROVE FALSE
  <2> HIDE DEF Ahead
  <2>1. Bad \subseteq Nat
    BY <1>2
  <2>2. PICK m \in Bad : \A n \in Bad : m <= n
    <3> HIDE DEF Bad
    <3> QED BY <1>17, <2>1, LeastNat
  <2>3. m \in 1 .. (d + 1) /\ ~Ahead(m) /\ m # 1
    BY <1>15
  <2>4. m - 1 \in 1 .. d /\ m - 1 \in 1 .. (d + 1) /\ (m - 1) + 1 = m
    BY <1>2, <2>3
  <2>5. m - 1 \notin Bad
    <3> HIDE DEF Bad
    <3> QED BY <2>1, <2>2, <2>3
  <2>6. Ahead((m - 1) + 1)
    BY <1>16, <2>4, <2>5
  <2> QED BY <2>3, <2>4, <2>6
<1>18. Ahead(d + 1) /\ e + (d + 1) - 1 = e + d
  <2> HIDE DEF Ahead
  <2>1. d + 1 \in 1 .. (d + 1) /\ e + (d + 1) - 1 = e + d
    BY <1>2
  <2> QED BY <1>17, <2>1
<1>19. S[e + d] \in Int /\ dist[Goal] \in Int
  BY <1>1, <1>4, <1>8, <1>14
<1> QED BY <1>3, <1>7, <1>14, <1>18, <1>19

LEMMA PromiseStep ==
  ASSUME SInv, RouteInv, AmmoInv, PromiseInv, [Next]_vars
  PROVE  PromiseInv'
<1>1. TypeInv /\ Source \in Rooms
  BY Keys DEF SInv, TypeInv
<1>2. CASE BeginLeg
  <2>1. /\ pc = "leg" /\ pc' = "search" /\ UNCHANGED <<input, path, j, init>>
        /\ dist'[Source] = init
    BY <1>1, <1>2 DEF BeginLeg
  <2>2. Source' = Source /\ Spent(Printed)' = Spent(Printed)
    BY <2>1 DEF Source, Spent, adj, Printed
  <2> QED BY <2>1, <2>2 DEF PromiseInv, PromiseKept
<1>3. CASE Expand \/ Arrive
  <2>1. /\ pc = "search" /\ UNCHANGED <<input, path, j>> /\ Searching
        /\ pc' \in {"search", "arrived"} /\ dist'[Source] = dist[Source]
        /\ pc' = "arrived" => init' = dist'[Goal]
    BY <1>3, ExpandPeriods DEF Expand, Arrive, Searching
  <2>2. Source' = Source /\ Goal' = Goal /\ Spent(Printed)' = Spent(Printed)
    BY <2>1 DEF Source, Goal, Spent, adj, Printed
  <2> QED BY <2>1, <2>2 DEF PromiseInv, PromiseKept
<1>4. CASE EndLeg
  <2>1. /\ pc = "arrived" /\ pc' \in {"leg", "done"} /\ j' # 0 /\ UNCHANGED <<input, init>>
    BY <1>1, <1>4 DEF EndLeg, TypeInv
  <2>2. init = dist[Goal]
    BY <2>1 DEF PromiseInv
  <2>3. Spent(Printed)' = Spent(Printed')
    BY <2>1 DEF Spent, adj
  <2>4. init' >= Spent(Printed)'
    BY <1>4, <2>1, <2>2, <2>3, EndLegPromise
  <2> QED BY <2>1, <2>4 DEF PromiseInv, PromiseKept, Searching
<1>5. CASE NoCandidate \/ NoWay
  BY <1>5 DEF NoCandidate, NoWay, PromiseInv, PromiseKept, Searching
<1>6. CASE UNCHANGED vars
  <2>1. UNCHANGED <<input, path, j, pc, dist, init>>
    BY <1>6 DEF vars
  <2>2. Source' = Source /\ Goal' = Goal /\ Spent(Printed)' = Spent(Printed)
    BY <2>1 DEF Source, Goal, Spent, adj, Printed
  <2> QED BY <2>1, <2>2 DEF PromiseInv, PromiseKept, Searching
<1> QED BY <1>2, <1>3, <1>4, <1>5, <1>6 DEF Next, Ended

\* The program never promises more ammunition than walking its route leaves
\* (lines 166, 175, 180), whatever newRoomYammo reads past the end of the path.
THEOREM Promise == Spec => []PromiseKept
<1>1. Init => SInv /\ RouteInv /\ AmmoInv /\ PromiseInv
  BY InitSearch, InitRoute, InitAmmo
<1>2. /\ SInv /\ RouteInv /\ AmmoInv /\ PromiseInv /\ [Next]_vars
      => (SInv /\ RouteInv /\ AmmoInv /\ PromiseInv)'
  BY StepSearch, StepRoute, AmmoStep, PromiseStep
<1>3. PromiseInv => PromiseKept
  BY DEF PromiseInv
<1> QED BY <1>1, <1>2, <1>3, PTL DEF Spec
-----------------------------------------------------------------------------
(* The reference of ShortestOnPlain: the costs of Least, round by round.   *)

\* One more corridor.
NextCost(last) ==
  [v \in Rooms |->
     LET via == {last[u] + adj(u, v) - RoomYammo[v] :
                   u \in {w \in Rooms : adj(w, v) # 0 /\ last[w] # INT_MAX}}
         all == {last[v]} \cup IF v \in Closed THEN {} ELSE via
     IN CHOOSE c \in all : \A d \in all : c <= d]

NoCost == [v \in Rooms |-> IF v = Source THEN 0 ELSE INT_MAX]

\* f[n][v] is the least cost of a walk of at most n corridors to v.
IsCosts(f, N) == f = [n \in 0 .. N |-> IF n = 0 THEN NoCost ELSE NextCost(f[n - 1])]
Costs == CHOOSE f : IsCosts(f, NRooms)

LEMMA LeastIs == Least = Costs[NRooms]
BY Zenon DEF Least, Costs, IsCosts, NoCost, NextCost

LEMMA CostsExist == \E f : IsCosts(f, NRooms)
<1> DEFINE Bad == {N \in Nat : ~ \E f : IsCosts(f, N)}
<1>1. ASSUME Bad # {} PROVE FALSE
  <2>1. PICK N \in Bad : \A m \in Bad : N <= m
    <3>1. Bad \subseteq Nat
      OBVIOUS
    <3> HIDE DEF Bad
    <3> QED BY <1>1, <3>1, LeastNat
  <2>2. N \in Nat /\ ~ \E f : IsCosts(f, N)
    OBVIOUS
  <2>3. N # 0
    <3>1. IsCosts([n \in 0 .. 0 |-> NoCost], 0)
      BY DEF IsCosts
    <3> QED BY <2>2, <3>1
  <2>4. N - 1 \in Nat /\ N - 1 \notin Bad
    <3> HIDE DEF Bad
    <3> QED BY <2>1, <2>2, <2>3
  <2>5. PICK f : IsCosts(f, N - 1)
    BY <2>4
  <2> DEFINE g == [n \in 0 .. N |-> IF n = N THEN NextCost(f[N - 1]) ELSE f[n]]
  <2>6. \A n \in 0 .. (N - 1) : f[n] = IF n = 0 THEN NoCost ELSE NextCost(f[n - 1])
    BY <2>5, Zenon DEF IsCosts
  <2>7. \A n \in 0 .. N : g[n] = IF n = 0 THEN NoCost ELSE NextCost(g[n - 1])
    <3>1. ASSUME NEW n \in 0 .. N PROVE g[n] = IF n = 0 THEN NoCost ELSE NextCost(g[n - 1])
      <4>1. CASE n = N
        <5>1. g[n - 1] = f[N - 1] /\ g[n] = NextCost(f[N - 1]) /\ n # 0
          BY <2>2, <2>3, <4>1
        <5> QED BY <5>1
      <4>2. CASE n # N /\ n # 0
        <5>1. n \in 0 .. (N - 1) /\ g[n] = f[n] /\ g[n - 1] = f[n - 1]
          BY <2>2, <4>2
        <5> QED BY <2>6, <4>2, <5>1
      <4>3. CASE n # N /\ n = 0
        <5>1. n \in 0 .. (N - 1) /\ g[n] = f[n]
          BY <2>2, <4>3
        <5> QED BY <2>6, <4>3, <5>1
      <4> QED BY <4>1, <4>2, <4>3
    <3> QED BY <3>1
  <2>8. g = [n \in 0 .. N |-> g[n]]
    OBVIOUS
  <2>9. IsCosts(g, N)
    <3> HIDE DEF g
    <3> QED BY <2>7, <2>8, Zenon DEF IsCosts
  <2> QED BY <2>2, <2>9
<1>2. NRooms \in Nat
  BY RoomsAssumption
<1> QED BY <1>1, <1>2

LEMMA CostsSteps ==
  /\ Costs[0] = NoCost
  /\ \A n \in 1 .. NRooms : Costs[n] = NextCost(Costs[n - 1])
<1>1. IsCosts(Costs, NRooms)
  BY CostsExist, Zenon DEF Costs
<1>2. Costs = [n \in 0 .. NRooms |-> IF n = 0 THEN NoCost ELSE NextCost(Costs[n - 1])]
  BY <1>1, Zenon DEF IsCosts
<1>3. \A n \in 0 .. NRooms : Costs[n] = IF n = 0 THEN NoCost ELSE NextCost(Costs[n - 1])
  BY <1>2, Zenon
<1>4. 0 \in 0 .. NRooms /\ \A n \in 1 .. NRooms : n \in 0 .. NRooms /\ n # 0
  BY RoomsAssumption
<1> QED BY <1>3, <1>4

\* The costs are those of one leg.
LEMMA CostsKept ==
  ASSUME UNCHANGED <<input, RoomYammo, j>>
  PROVE  Costs' = Costs /\ Least' = Least /\ Plain' = Plain
<1>1. Closed' = Closed /\ Source' = Source /\ \A u, v : adj(u, v)' = adj(u, v)
  BY DEF Closed, Source, adj
<1>2. Plain' = Plain
  BY DEF Plain, adj
<1>3. Costs' = Costs
  BY DEF Costs, IsCosts, NoCost, NextCost, Closed, Source, adj
<1>4. Least' = Least
  BY DEF Least, Closed, Source, adj
<1> QED BY <1>2, <1>3, <1>4

\* What entering v from u costs on a plain input.
LEMMA Corridor ==
  ASSUME TypeInv, AmmoInv, Plain, NEW most \in Nat, CostsFit(most)
  PROVE  \A u, v \in Rooms : adj(u, v) # 0 =>
           /\ adj(u, v) - RoomYammo[v] \in Nat
           /\ adj(u, v) - RoomYammo[v] <= most
<1> SUFFICES ASSUME NEW u \in Rooms, NEW v \in Rooms, adj(u, v) # 0
             PROVE  /\ adj(u, v) - RoomYammo[v] \in Nat
                    /\ adj(u, v) - RoomYammo[v] <= most
  OBVIOUS
<1>1. input \in Inputs /\ RoomYammo[v] \in Nat
  BY DEF TypeInv
<1>2. adj(u, v) \in Nat /\ input.ammo[v] \in Nat
  BY <1>1, InputFacts
<1>3. RoomYammo[v] <= input.ammo[v] /\ input.ammo[v] <= adj(u, v)
  BY DEF AmmoInv, Plain
<1>4. adj(u, v) <= most
  BY <1>1, Zenon DEF CostsFit, adj
<1> QED BY <1>1, <1>2, <1>3, <1>4

LEMMA NextCostIs ==
  ASSUME TypeInv, AmmoInv, Plain, NEW most \in Nat, CostsFit(most),
         NEW last \in [Rooms -> Nat]
  PROVE  /\ NextCost(last) \in [Rooms -> Nat]
         /\ \A v \in Rooms : NextCost(last)[v] <= last[v]
         /\ \A u, v \in Rooms :
              adj(u, v) # 0 /\ last[u] # INT_MAX /\ v \notin Closed
                => NextCost(last)[v] <= last[u] + adj(u, v) - RoomYammo[v]
         /\ \A v \in Rooms :
              \/ NextCost(last)[v] = last[v]
              \/ v \notin Closed /\ \E u \in Rooms :
                   /\ adj(u, v) # 0 /\ last[u] # INT_MAX
                   /\ NextCost(last)[v] = last[u] + adj(u, v) - RoomYammo[v]
<1> DEFINE via(v) == {last[u] + adj(u, v) - RoomYammo[v] :
                        u \in {w \in Rooms : adj(w, v) # 0 /\ last[w] # INT_MAX}}
           all(v) == {last[v]} \cup IF v \in Closed THEN {} ELSE via(v)
           least(v) == CHOOSE c \in all(v) : \A d \in all(v) : c <= d
<1>1. NextCost(last) = [v \in Rooms |-> least(v)]
  BY Zenon DEF NextCost
<1>2. \A v \in Rooms : via(v) \subseteq Nat
  <2>1. ASSUME NEW v \in Rooms, NEW u \in Rooms, adj(u, v) # 0
        PROVE  last[u] + adj(u, v) - RoomYammo[v] \in Nat
    <3>1. /\ adj(u, v) - RoomYammo[v] \in Nat /\ last[u] \in Nat
          /\ adj(u, v) \in Int /\ RoomYammo[v] \in Int
      BY <2>1, Corridor, InputFacts DEF TypeInv
    <3> QED BY <3>1
  <2> QED BY <2>1
<1>3. \A v \in Rooms : all(v) \subseteq Nat /\ all(v) # {}
  BY <1>2
<1>4. ASSUME NEW v \in Rooms
      PROVE  least(v) \in all(v) /\ \A d \in all(v) : least(v) <= d
  <2> HIDE DEF all
  <2>1. \E c \in all(v) : \A d \in all(v) : c <= d
    BY <1>3, LeastNat
  <2> QED BY <2>1
<1> HIDE DEF least
<1>5. \A v \in Rooms : NextCost(last)[v] = least(v)
  BY <1>1
<1>6. NextCost(last) \in [Rooms -> Nat]
  <2> HIDE DEF all
  <2> QED BY <1>1, <1>3, <1>4
<1>7. \A v \in Rooms : NextCost(last)[v] <= last[v]
  BY <1>4, <1>5
<1>8. ASSUME NEW u \in Rooms, NEW v \in Rooms, adj(u, v) # 0, last[u] # INT_MAX, v \notin Closed
      PROVE  NextCost(last)[v] <= last[u] + adj(u, v) - RoomYammo[v]
  <2>1. last[u] + adj(u, v) - RoomYammo[v] \in all(v)
    BY <1>8
  <2> QED BY <1>4, <1>5, <2>1
<1>9. ASSUME NEW v \in Rooms, NextCost(last)[v] # last[v]
      PROVE  v \notin Closed /\ \E u \in Rooms :
                   /\ adj(u, v) # 0 /\ last[u] # INT_MAX
                   /\ NextCost(last)[v] = last[u] + adj(u, v) - RoomYammo[v]
  <2>1. NextCost(last)[v] \in all(v)
    BY <1>4, <1>5
  <2>2. v \notin Closed /\ NextCost(last)[v] \in via(v)
    BY <1>9, <2>1
  <2> QED BY <2>2
<1> QED BY <1>6, <1>7, <1>8, <1>9

\* What a leg with at most n corridors may cost.
LEMMA Multiples ==
  ASSUME NEW most \in Nat
  PROVE  /\ \A n \in Nat : n * most \in Nat /\ (n + 1) * most = n * most + most
         /\ \A n, m \in Nat : n <= m => n * most <= m * most
         /\ 3 * NRooms * most = NRooms * most + NRooms * most + NRooms * most
         /\ NRooms * most \in Nat
<1>1. NRooms \in Nat
  BY RoomsAssumption
<1>2. \A n \in Nat : n * most \in Nat /\ (n + 1) * most = n * most + most
  OBVIOUS
<1>3. ASSUME NEW n \in Nat, NEW m \in Nat, n <= m PROVE n * most <= m * most
  BY <1>3
<1>4. 3 * NRooms * most = NRooms * most + NRooms * most + NRooms * most
  BY <1>1
<1> QED BY <1>1, <1>2, <1>3, <1>4

\* A walk of n corridors costs at most n times the dearest one.
LEMMA CostsBound ==
  ASSUME TypeInv, AmmoInv, Plain, NEW most \in Nat, CostsFit(most), NEW n \in 0 .. NRooms
  PROVE  /\ Costs[n] \in [Rooms -> Nat]
         /\ \A v \in Rooms : Costs[n][v] # INT_MAX => v \notin Closed /\ Costs[n][v] <= n * most
<1> DEFINE Good(m) == /\ Costs[m] \in [Rooms -> Nat]
                      /\ \A v \in Rooms : Costs[m][v] # INT_MAX =>
                           v \notin Closed /\ Costs[m][v] <= m * most
           Bad == {m \in 0 .. NRooms : ~Good(m)}
<1>1. INT_MAX \in Nat /\ NRooms \in Nat /\ Source \in Rooms /\ Source \notin Closed
  BY RoomsAssumption, Keys DEF TypeInv
<1>2. Good(0)
  <2>1. Costs[0] = [v \in Rooms |-> IF v = Source THEN 0 ELSE INT_MAX]
    BY CostsSteps DEF NoCost
  <2>2. 0 * most \in Nat
    BY Multiples
  <2> HIDE DEF Costs
  <2> QED BY <1>1, <2>1, <2>2
<1>3. ASSUME NEW m \in 1 .. NRooms, Good(m - 1) PROVE Good(m)
  <2>1. m - 1 \in Nat /\ m \in Nat /\ m = (m - 1) + 1
    BY <1>1
  <2>2. m * most = (m - 1) * most + most /\ m * most \in Nat /\ (m - 1) * most \in Nat
    BY <2>1, Multiples
  <2>3. PICK last \in [Rooms -> Nat] : last = Costs[m - 1] /\ Costs[m] = NextCost(last)
    BY <1>3, CostsSteps
  <2>4. NextCost(last) \in [Rooms -> Nat]
    BY NextCostIs
  <2>5. ASSUME NEW v \in Rooms, NextCost(last)[v] # INT_MAX
        PROVE  v \notin Closed /\ NextCost(last)[v] <= m * most
    <3>1. CASE NextCost(last)[v] = last[v]
      <4>1. v \notin Closed /\ last[v] <= (m - 1) * most
        BY <1>3, <2>3, <2>5, <3>1
      <4> QED BY <2>2, <3>1, <4>1
    <3>2. CASE NextCost(last)[v] # last[v]
      <4>1. PICK u \in Rooms : /\ adj(u, v) # 0 /\ last[u] # INT_MAX /\ v \notin Closed
                               /\ NextCost(last)[v] = last[u] + adj(u, v) - RoomYammo[v]
        BY <3>2, NextCostIs
      <4>2. last[u] <= (m - 1) * most /\ last[u] \in Nat
        BY <1>3, <2>3, <4>1
      <4>3. adj(u, v) - RoomYammo[v] <= most /\ adj(u, v) \in Int /\ RoomYammo[v] \in Int
        BY <4>1, Corridor, InputFacts DEF TypeInv
      <4> QED BY <2>2, <4>1, <4>2, <4>3
    <3> QED BY <3>1, <3>2
  <2> QED BY <2>3, <2>4, <2>5
<1> HIDE DEF Good
<1>4. ASSUME Bad # {} PROVE FALSE
  <2>1. Bad \subseteq Nat
    BY <1>1
  <2>2. PICK m \in Bad : \A h \in Bad : m <= h
    <3> HIDE DEF Bad
    <3> QED BY <1>4, <2>1, LeastNat
  <2>3. m \in 0 .. NRooms /\ ~Good(m)
    OBVIOUS
  <2>4. m \in 1 .. NRooms
    BY <1>1, <1>2, <2>3
  <2>5. m - 1 \in 0 .. NRooms /\ ~(m <= m - 1)
    BY <1>1, <2>4
  <2>6. Good(m - 1)
    BY <2>2, <2>5
  <2> QED BY <1>3, <2>3, <2>4, <2>6
<1>5. Good(n)
  BY <1>4
<1> QED BY <1>5 DEF Good

\* More corridors never cost more.
LEMMA CostsFall ==
  ASSUME TypeInv, AmmoInv, Plain, NEW most \in Nat, CostsFit(most), NEW n \in 0 .. NRooms,
         NEW v \in Rooms
  PROVE  Least[v] <= Costs[n][v]
<1> DEFINE Good(m) == Costs[NRooms][v] <= Costs[NRooms - m][v]
           Bad == {m \in 0 .. NRooms : ~Good(m)}
<1>1. NRooms \in Nat
  BY RoomsAssumption
<1>2. \A m \in 0 .. NRooms : Costs[m][v] \in Nat
  BY CostsBound
<1>3. Good(0)
  <2>1. NRooms - 0 = NRooms /\ NRooms \in 0 .. NRooms
    BY <1>1
  <2>2. Costs[NRooms][v] \in Nat
    BY <1>2, <2>1
  <2> HIDE DEF Costs
  <2> QED BY <2>1, <2>2
<1>4. ASSUME NEW m \in 1 .. NRooms, Good(m - 1) PROVE Good(m)
  <2>1. /\ NRooms - m \in 0 .. NRooms /\ NRooms - (m - 1) \in 1 .. NRooms
        /\ (NRooms - (m - 1)) - 1 = NRooms - m
        /\ NRooms - (m - 1) \in 0 .. NRooms /\ NRooms \in 0 .. NRooms
    BY <1>1
  <2>2. Costs[NRooms - (m - 1)] = NextCost(Costs[NRooms - m])
    BY <2>1, CostsSteps
  <2>3. Costs[NRooms - m] \in [Rooms -> Nat]
    BY <2>1, CostsBound
  <2>4. Costs[NRooms - (m - 1)][v] <= Costs[NRooms - m][v]
    BY <2>2, <2>3, NextCostIs
  <2>5. /\ Costs[NRooms - (m - 1)][v] \in Nat /\ Costs[NRooms - m][v] \in Nat
        /\ Costs[NRooms][v] \in Nat
    BY <1>2, <2>1
  <2> HIDE DEF Costs
  <2> QED BY <1>4, <2>4, <2>5
<1> HIDE DEF Good
<1>5. ASSUME Bad # {} PROVE FALSE
  <2>1. Bad \subseteq Nat
    BY <1>1
  <2>2. PICK m \in Bad : \A h \in Bad : m <= h
    <3> HIDE DEF Bad
    <3> QED BY <1>5, <2>1, LeastNat
  <2>3. m \in 0 .. NRooms /\ ~Good(m)
    OBVIOUS
  <2>4. m \in 1 .. NRooms
    BY <1>1, <1>3, <2>3
  <2>5. m - 1 \in 0 .. NRooms /\ ~(m <= m - 1)
    BY <1>1, <2>4
  <2>6. Good(m - 1)
    BY <2>2, <2>5
  <2> QED BY <1>4, <2>3, <2>4, <2>6
<1>6. NRooms - n \in 0 .. NRooms /\ NRooms - (NRooms - n) = n
  BY <1>1
<1>7. Good(NRooms - n)
  BY <1>5, <1>6
<1> QED BY <1>6, <1>7, LeastIs DEF Good
-----------------------------------------------------------------------------
(* The greedy search is exact on plain inputs.                             *)

\* What the leg may have cost when it begins.
SpentBefore(most) == IF j = 0 THEN 0
                ELSE IF j = 1 THEN NRooms * most ELSE NRooms * most + NRooms * most

\* Rooms are visited in the order of their distances, the corridors out of a
\* room visited have been relaxed, and the distances are those of walks of at
\* most k corridors.
NearInv ==
  /\ \A v, u \in Rooms : visited[v] /\ v \notin Closed /\ ~visited[u] => dist[v] <= dist[u]
  /\ \A v, u \in Rooms :
       /\ visited[v] /\ v \notin Closed /\ dist[v] # INT_MAX
       /\ adj(v, u) # 0 /\ u \notin Closed
       => dist[u] <= dist[v] + adj(v, u) - RoomYammo[u]
  /\ \A v \in Rooms : Reached(v) => dist[Source] + Costs[k][v] <= dist[v]

IsExact(v) == dist[v] = IF Least[v] = INT_MAX THEN INT_MAX ELSE dist[Source] + Least[v]

GreedyInv(most) ==
  Plain =>
    /\ pc = "leg" => 0 <= init /\ init <= SpentBefore(most)
    /\ Searching => 0 <= dist[Source] /\ dist[Source] <= SpentBefore(most)
    /\ pc = "search" => NearInv
    /\ pc = "arrived" => init = dist[Goal] /\
                         \A v \in Rooms \ Closed : visited[v] => IsExact(v)
    /\ pc = "undefined" => Least[Goal] = INT_MAX

\* Walks of one leg, and of all legs so far, stay below INT_MAX.
LEMMA Below ==
  ASSUME TypeInv, AmmoInv, Plain, NEW most \in Nat, CostsFit(most),
         dist[Source] <= SpentBefore(most), NEW n \in 0 .. NRooms, NEW v \in Rooms,
         Costs[n][v] # INT_MAX
  PROVE  dist[Source] + Costs[n][v] < INT_MAX
<1>1. Costs[n][v] <= n * most /\ Costs[n][v] \in Nat
  BY CostsBound
<1>2. n * most <= NRooms * most /\ NRooms * most \in Nat /\ n * most \in Nat
  <2>1. n \in Nat /\ NRooms \in Nat /\ n <= NRooms
    BY RoomsAssumption
  <2> QED BY <2>1, Multiples
<1>3. NRooms * most + NRooms * most + NRooms * most < INT_MAX
  BY Multiples DEF CostsFit
<1>4. SpentBefore(most) <= NRooms * most + NRooms * most
  BY <1>2 DEF SpentBefore
<1>5. dist[Source] \in Int /\ SpentBefore(most) \in Int /\ INT_MAX \in Int
  BY <1>2, Keys, RoomsAssumption DEF TypeInv, SpentBefore
<1> DEFINE a == Costs[n][v]
           b == n * most
           c == NRooms * most
<1> HIDE DEF a, b, c
<1>6. a <= b /\ a \in Nat /\ b <= c /\ c \in Nat /\ b \in Nat /\ c + c + c < INT_MAX
      /\ SpentBefore(most) <= c + c
  BY <1>1, <1>2, <1>3, <1>4 DEF a, b, c
<1>7. dist[Source] + a < INT_MAX
  BY <1>5, <1>6
<1> QED BY <1>7 DEF a

\* A room that a walk reaches has been visited at no greater distance, or the
\* walk leaves the rooms visited at a room that is no farther.
LEMMA WalkLeaves ==
  ASSUME SInv, AmmoInv, Plain, NEW most \in Nat, CostsFit(most), NearInv, pc = "search",
         dist[Source] <= SpentBefore(most), NEW n \in 0 .. NRooms
  PROVE  \A v \in Rooms : Costs[n][v] # INT_MAX =>
           \/ visited[v] /\ dist[v] <= dist[Source] + Costs[n][v]
           \/ ~visited[v] /\ \E x \in Rooms :
                               ~visited[x] /\ dist[x] <= dist[Source] + Costs[n][v]
<1> DEFINE Good(m) == \A v \in Rooms : Costs[m][v] # INT_MAX =>
                        \/ visited[v] /\ dist[v] <= dist[Source] + Costs[m][v]
                        \/ ~visited[v] /\ \E x \in Rooms :
                             ~visited[x] /\ dist[x] <= dist[Source] + Costs[m][v]
           Bad == {m \in 0 .. NRooms : ~Good(m)}
<1>1. /\ TypeInv /\ INT_MAX \in Nat /\ NRooms \in Nat /\ Source \in Rooms /\ Source \notin Closed
      /\ dist \in [Rooms -> Int] /\ visited \in [Rooms -> BOOLEAN]
  BY RoomsAssumption, Keys DEF SInv, TypeInv
<1>2. Good(0)
  <2>1. Costs[0] = [v \in Rooms |-> IF v = Source THEN 0 ELSE INT_MAX]
    BY CostsSteps DEF NoCost
  <2>2. ASSUME NEW v \in Rooms, Costs[0][v] # INT_MAX PROVE v = Source /\ Costs[0][v] = 0
    BY <2>1, <2>2
  <2>3. dist[Source] <= dist[Source] + 0 /\ visited[Source] \in BOOLEAN
    BY <1>1
  <2> QED BY <1>1, <2>2, <2>3
<1>3. ASSUME NEW m \in 1 .. NRooms, Good(m - 1) PROVE Good(m)
  <2>1. m - 1 \in 0 .. NRooms
    BY <1>1
  <2>2. PICK last \in [Rooms -> Nat] : last = Costs[m - 1] /\ Costs[m] = NextCost(last)
    BY <1>1, <2>1, CostsBound, CostsSteps
  <2> SUFFICES ASSUME NEW v \in Rooms, NextCost(last)[v] # INT_MAX
               PROVE  \/ visited[v] /\ dist[v] <= dist[Source] + NextCost(last)[v]
                      \/ ~visited[v] /\ \E x \in Rooms :
                           ~visited[x] /\ dist[x] <= dist[Source] + NextCost(last)[v]
    BY <2>2, Zenon
  <2>3. CASE NextCost(last)[v] = last[v]
    BY <1>3, <2>2, <2>3
  <2>4. CASE NextCost(last)[v] # last[v]
    <3>1. PICK u \in Rooms : /\ adj(u, v) # 0 /\ last[u] # INT_MAX /\ v \notin Closed
                             /\ NextCost(last)[v] = last[u] + adj(u, v) - RoomYammo[v]
      BY <1>1, <2>4, NextCostIs
    <3>2. /\ adj(u, v) - RoomYammo[v] \in Nat /\ adj(u, v) \in Int /\ RoomYammo[v] \in Int
          /\ last[u] \in Nat /\ dist[u] \in Int /\ dist[v] \in Int /\ dist[Source] \in Int
      BY <1>1, <3>1, Corridor, InputFacts DEF TypeInv
    <3>3. last[u] <= NextCost(last)[v]
      BY <3>1, <3>2
    <3>4. u \notin Closed /\ dist[Source] + last[u] < INT_MAX
      BY <1>1, <2>1, <2>2, <3>1, CostsBound, Below
    <3>5. CASE visited[u] /\ dist[u] <= dist[Source] + last[u]
      <4>1. dist[u] # INT_MAX
        BY <1>1, <3>2, <3>4, <3>5
      <4>2. dist[v] <= dist[u] + adj(u, v) - RoomYammo[v]
        BY <3>1, <3>4, <3>5, <4>1 DEF NearInv
      <4>3. dist[v] <= dist[Source] + NextCost(last)[v]
        BY <3>1, <3>2, <3>5, <4>2
      <4> QED BY <4>3
    <3>6. ASSUME NEW x \in Rooms, ~visited[x], dist[x] <= dist[Source] + last[u]
          PROVE  \/ visited[v] /\ dist[v] <= dist[Source] + NextCost(last)[v]
                 \/ ~visited[v] /\ \E y \in Rooms :
                      ~visited[y] /\ dist[y] <= dist[Source] + NextCost(last)[v]
      <4>1. dist[x] \in Int /\ NextCost(last)[v] \in Int
        BY <1>1, <3>1, <3>2
      <4>2. dist[x] <= dist[Source] + NextCost(last)[v]
        BY <3>2, <3>3, <3>6, <4>1
      <4>3. visited[v] => dist[v] <= dist[x]
        BY <3>1, <3>6 DEF NearInv
      <4>4. visited[v] => dist[v] <= dist[Source] + NextCost(last)[v]
        BY <3>2, <4>1, <4>2, <4>3
      <4> QED BY <3>6, <4>2, <4>4
    <3> QED BY <1>3, <2>2, <3>1, <3>5, <3>6
  <2> QED BY <2>3, <2>4
<1> HIDE DEF Good
<1>4. ASSUME Bad # {} PROVE FALSE
  <2>1. Bad \subseteq Nat
    BY <1>1
  <2>2. PICK m \in Bad : \A h \in Bad : m <= h
    <3> HIDE DEF Bad
    <3> QED BY <1>4, <2>1, LeastNat
  <2>3. m \in 0 .. NRooms /\ ~Good(m)
    OBVIOUS
  <2>4. m \in 1 .. NRooms
    BY <1>1, <1>2, <2>3
  <2>5. m - 1 \in 0 .. NRooms /\ ~(m <= m - 1)
    BY <1>1, <2>4
  <2>6. Good(m - 1)
    BY <2>2, <2>5
  <2> QED BY <1>3, <2>3, <2>4, <2>6
<1>5. Good(n)
  BY <1>4
<1> QED BY <1>5 DEF Good

\* A room that is visited, or about to be, has the least cost.
LEMMA NearestExact ==
  ASSUME SInv, AmmoInv, Plain, NEW most \in Nat, CostsFit(most), NearInv, pc = "search",
         0 <= dist[Source], dist[Source] <= SpentBefore(most), NEW v \in Rooms \ Closed,
         ~visited[v] => \A x \in Rooms : ~visited[x] => dist[v] <= dist[x]
  PROVE  IsExact(v)
<1>1. /\ TypeInv /\ BoundInv /\ RoundInv /\ INT_MAX \in Nat /\ NRooms \in Nat
      /\ dist[v] \in Int /\ dist[Source] \in Int /\ k \in Nat
  BY RoomsAssumption, Keys DEF SInv, TypeInv
<1>2. k \in 0 .. NRooms /\ NRooms \in 0 .. NRooms
  BY <1>1 DEF RoundInv
<1>3. Least[v] <= Costs[k][v] /\ Least[v] = Costs[NRooms][v]
  BY <1>1, <1>2, CostsFall, LeastIs
<1>4. Least[v] \in Nat /\ Costs[k][v] \in Nat
  BY <1>1, <1>2, <1>3, CostsBound
<1> HIDE DEF Least, Costs
<1>5. ASSUME Least[v] # INT_MAX PROVE dist[v] = dist[Source] + Least[v]
  <2>1. dist[Source] + Least[v] < INT_MAX
    BY <1>1, <1>2, <1>3, <1>5, Below
  <2>2. dist[v] <= dist[Source] + Least[v]
    <3>1. CASE visited[v]
      BY <1>2, <1>3, <1>5, <3>1, WalkLeaves
    <3>2. CASE ~visited[v]
      <4>1. PICK x \in Rooms : ~visited[x] /\ dist[x] <= dist[Source] + Least[v]
        BY <1>2, <1>3, <1>5, <3>2, WalkLeaves
      <4>2. dist[v] <= dist[x] /\ dist[x] \in Int
        BY <1>1, <3>2, <4>1 DEF TypeInv
      <4> QED BY <1>1, <1>4, <4>1, <4>2
    <3> QED BY <3>1, <3>2
  <2>3. dist[v] # INT_MAX
    BY <1>1, <1>4, <2>1, <2>2
  <2>4. dist[Source] + Costs[k][v] <= dist[v]
    BY <2>3 DEF NearInv, Reached
  <2> QED BY <1>1, <1>3, <1>4, <2>2, <2>4
<1>6. ASSUME Least[v] = INT_MAX PROVE dist[v] = INT_MAX
  <2> SUFFICES ASSUME dist[v] # INT_MAX PROVE FALSE
    OBVIOUS
  <2>1. dist[Source] + Costs[k][v] <= dist[v] /\ dist[v] <= INT_MAX
    BY <1>1 DEF NearInv, Reached, BoundInv
  <2> QED BY <1>1, <1>3, <1>4, <1>6, <2>1
<1> QED BY <1>5, <1>6 DEF IsExact

LEMMA BeginLegGreedy ==
  ASSUME SInv, AmmoInv, NEW most \in Nat, CostsFit(most), GreedyInv(most), BeginLeg
  PROVE  GreedyInv(most)'
<1>1. /\ TypeInv /\ pc = "leg" /\ pc' = "search" /\ k' = 0
      /\ UNCHANGED <<input, RoomYammo, j, init>>
      /\ dist' = [v \in Rooms |-> IF v = Source THEN init ELSE INT_MAX]
      /\ visited' = [v \in Rooms |-> v \in Closed]
  BY DEF SInv, BeginLeg
<1>2. /\ Source \in Rooms /\ Source \notin Closed /\ Source' = Source /\ Closed' = Closed
      /\ Costs' = Costs /\ Plain' = Plain /\ SpentBefore(most)' = SpentBefore(most)
      /\ init \in Int
  BY <1>1, Keys, CostsKept DEF TypeInv, Source, Closed, SpentBefore
<1>3. dist'[Source] = init /\ \A v \in Rooms : visited'[v] => v \in Closed
  BY <1>1, <1>2
<1>4. \A v \in Rooms : dist'[v] # INT_MAX => v = Source
  BY <1>1
<1>5. Costs[0][Source] = 0
  BY <1>2, CostsSteps DEF NoCost
<1>6. NearInv'
  <2>1. \A v \in Rooms : Reached(v)' => dist'[Source] + Costs'[k'][v] <= dist'[v]
    <3>1. \A v \in Rooms : Reached(v)' => v = Source /\ Costs'[k'][v] = 0
      BY <1>1, <1>2, <1>4, <1>5 DEF Reached
    <3> QED BY <1>2, <1>3, <3>1
  <2> QED BY <1>2, <1>3, <2>1 DEF NearInv
<1>7. Plain => 0 <= dist'[Source] /\ dist'[Source] <= SpentBefore(most)
  BY <1>1, <1>3 DEF GreedyInv
<1> QED BY <1>1, <1>2, <1>6, <1>7 DEF GreedyInv

LEMMA findMinNearest ==
  ASSUME TypeInv, Plain, Candidates # {}
  PROVE  /\ findMin \in Rooms /\ ~visited[findMin]
         /\ \A x \in Rooms : ~visited[x] => dist[findMin] <= dist[x]
<1>1. Candidates = {v \in Rooms : ~visited[v]}
  BY DEF Candidates, is_Forbidden, Plain
<1>2. dist \in [Rooms -> Int]
  BY DEF TypeInv
<1>3. \E v \in Candidates :
        \A w \in Candidates : dist[v] < dist[w] \/ (dist[v] = dist[w] /\ w <= v)
  BY <1>1, <1>2, NearestExists
<1>4. /\ findMin \in Candidates
      /\ \A w \in Candidates : dist[findMin] < dist[w] \/ (dist[findMin] = dist[w] /\ w <= findMin)
  BY <1>3, Zenon DEF findMin
<1> QED BY <1>1, <1>2, <1>4

LEMMA ExpandGreedy ==
  ASSUME SInv, AmmoInv, NEW most \in Nat, CostsFit(most), GreedyInv(most), Expand
  PROVE  GreedyInv(most)'
<1>1. /\ TypeInv /\ LegInv /\ BoundInv /\ RoundInv /\ pc = "search" /\ pc' = "search" /\ k' = k + 1
      /\ UNCHANGED <<input, RoomYammo, j, init>> /\ Candidates # {}
  BY DEF SInv, Expand
<1>2. /\ Source \in Rooms /\ Source \notin Closed /\ Source' = Source /\ Closed' = Closed
      /\ Closed \subseteq Rooms
      /\ Costs' = Costs /\ Plain' = Plain /\ SpentBefore(most)' = SpentBefore(most)
      /\ dist'[Source] = dist[Source] /\ \A u, v : adj(u, v)' = adj(u, v)
  BY <1>1, Keys, CostsKept, ExpandPeriods DEF TypeInv, Source, Closed, SpentBefore, adj
<1> SUFFICES ASSUME Plain PROVE NearInv'
  BY <1>1, <1>2 DEF GreedyInv, Searching
<1>3. NearInv /\ 0 <= dist[Source] /\ dist[Source] <= SpentBefore(most)
  BY <1>1 DEF GreedyInv, Searching
<1>4. PICK u \in Rooms : /\ u = findMin /\ ~visited[u]
                         /\ \A x \in Rooms : ~visited[x] => dist[u] <= dist[x]
  BY <1>1, findMinNearest
<1> DEFINE relaxed == {v \in Rooms : Relaxes(u, v, periods[u])}
<1>5. /\ visited' = [visited EXCEPT ![u] = TRUE]
      /\ dist' = [v \in Rooms |-> IF v \in relaxed THEN dist[u] + adj(u, v) - RoomYammo[v]
                                    ELSE dist[v]]
  BY <1>4 DEF Expand
<1>6. \A v \in Rooms :
        v \in relaxed <=> /\ v # u /\ ~visited[v] /\ adj(u, v) # 0 /\ dist[u] # INT_MAX
                          /\ dist[u] + adj(u, v) - RoomYammo[v] < dist[v]
  BY DEF Relaxes, is_Forbidden, Plain
<1> HIDE DEF relaxed
<1>7. \A v \in Rooms : visited'[v] <=> visited[v] \/ v = u
  BY <1>1, <1>5 DEF TypeInv
<1>8. \A v \in Rooms : dist'[v] = IF v \in relaxed THEN dist[u] + adj(u, v) - RoomYammo[v]
                                  ELSE dist[v]
  BY <1>5
<1>9. /\ \A v \in Rooms : dist[v] \in Int /\ dist[v] <= INT_MAX /\ RoomYammo[v] \in Int
      /\ \A v, w \in Rooms : adj(v, w) \in Int /\ (adj(v, w) # 0 => adj(v, w) - RoomYammo[w] \in Nat)
      /\ INT_MAX \in Int
  BY <1>1, Corridor, InputFacts, RoomsAssumption DEF TypeInv, BoundInv
<1>10. \A v \in Rooms : dist'[v] \in Int /\ dist'[v] <= dist[v]
  BY <1>6, <1>8, <1>9
<1>11. \A v \in Rooms : visited[v] \/ v = u => dist'[v] = dist[v]
  BY <1>6, <1>8
<1>12. \A v, w \in Rooms : visited'[v] /\ v \notin Closed /\ ~visited'[w] => dist'[v] <= dist'[w]
  <2> SUFFICES ASSUME NEW v \in Rooms, NEW w \in Rooms, visited'[v], v \notin Closed, ~visited'[w]
               PROVE  dist'[v] <= dist'[w]
    OBVIOUS
  <2>1. /\ visited[v] \/ v = u
        /\ ~visited[w] /\ w # u /\ dist'[v] = dist[v]
    BY <1>7, <1>11
  <2>2. dist[v] <= dist[u] /\ dist[v] <= dist[w]
    BY <1>3, <1>4, <1>9, <2>1 DEF NearInv
  <2>3. CASE w \in relaxed
    <3>1. adj(u, w) - RoomYammo[w] \in Nat /\ dist'[w] = dist[u] + adj(u, w) - RoomYammo[w]
      BY <1>6, <1>8, <1>9, <2>3
    <3>2. dist[u] <= dist'[w]
      BY <1>9, <3>1
    <3> QED BY <1>9, <1>10, <2>1, <2>2, <3>2
  <2>4. CASE w \notin relaxed
    BY <1>8, <2>1, <2>2, <2>4
  <2> QED BY <2>3, <2>4
<1>13. ASSUME NEW v \in Rooms, NEW w \in Rooms, visited'[v], v \notin Closed, dist'[v] # INT_MAX,
              adj(v, w) # 0, w \notin Closed
       PROVE  dist'[w] <= dist'[v] + adj(v, w) - RoomYammo[w]
  <2>1. (visited[v] \/ v = u) /\ dist'[v] = dist[v] /\ dist[v] # INT_MAX
    BY <1>7, <1>11, <1>13
  <2>2. dist[w] <= dist[v] + adj(v, w) - RoomYammo[w] => dist'[w] <= dist'[v] + adj(v, w) - RoomYammo[w]
    BY <1>9, <1>10, <2>1
  <2>3. CASE visited[v]
    BY <1>3, <1>13, <2>1, <2>2, <2>3 DEF NearInv
  <2>4. CASE v = u
    <3>1. adj(u, w) - RoomYammo[w] \in Nat
      BY <1>9, <1>13, <2>4
    <3>2. CASE visited[w] \/ w = u
      <4>1. dist[w] <= dist[u]
        BY <1>3, <1>4, <1>9, <1>13, <3>2 DEF NearInv
      <4>2. dist[w] <= dist[u] + adj(u, w) - RoomYammo[w]
        BY <1>9, <3>1, <4>1
      <4> QED BY <2>2, <2>4, <4>2
    <3>3. CASE ~visited[w] /\ w # u /\ w \in relaxed
      BY <1>8, <1>9, <2>1, <2>4, <3>3
    <3>4. CASE ~visited[w] /\ w # u /\ w \notin relaxed
      <4>1. ~(dist[u] + adj(u, w) - RoomYammo[w] < dist[w])
        BY <1>6, <1>13, <2>1, <2>4, <3>4
      <4>2. dist[w] <= dist[u] + adj(u, w) - RoomYammo[w]
        BY <1>9, <4>1
      <4> QED BY <2>2, <2>4, <4>2
    <3> QED BY <3>2, <3>3, <3>4
  <2> QED BY <2>1, <2>3, <2>4
<1>14. ASSUME NEW v \in Rooms, dist'[v] # INT_MAX
       PROVE  dist[Source] + Costs[k + 1][v] <= dist'[v]
  <2>1. /\ k \in 0 .. NRooms /\ k + 1 \in 1 .. NRooms /\ (k + 1) - 1 = k
        /\ NRooms \in Nat /\ k + 1 \in 0 .. NRooms
    BY <1>1, RoomsAssumption DEF RoundInv, TypeInv
  <2>2. PICK last \in [Rooms -> Nat] : last = Costs[k] /\ Costs[k + 1] = NextCost(last)
    BY <1>1, <2>1, CostsBound, CostsSteps
  <2>3. NextCost(last) \in [Rooms -> Nat] /\ NextCost(last)[v] <= last[v]
    BY <1>1, NextCostIs
  <2>4. \A w \in Rooms : dist[w] # INT_MAX => dist[Source] + last[w] <= dist[w]
    BY <1>3, <2>2 DEF NearInv, Reached
  <2>5. CASE v \notin relaxed
    <3>1. dist'[v] = dist[v] /\ dist[Source] + last[v] <= dist[v]
      BY <1>8, <1>14, <2>4, <2>5
    <3>2. NextCost(last)[v] \in Nat /\ last[v] \in Nat
      BY <2>3
    <3> QED BY <1>2, <1>9, <2>2, <2>3, <3>1, <3>2
  <2>6. CASE v \in relaxed
    <3>1. /\ adj(u, v) # 0 /\ dist[u] # INT_MAX /\ ~visited[v]
          /\ dist'[v] = dist[u] + adj(u, v) - RoomYammo[v]
      BY <1>6, <1>8, <2>6
    <3>2. v \notin Closed
      BY <1>1, <3>1 DEF LegInv, Searching
    <3>3. dist[Source] + last[u] <= dist[u]
      BY <2>4, <3>1
    <3>4. /\ last[u] \in Nat /\ NextCost(last)[v] \in Nat /\ dist[u] \in Int /\ dist[u] <= INT_MAX
          /\ dist[Source] \in Int /\ adj(u, v) \in Int /\ RoomYammo[v] \in Int
      BY <1>2, <1>9, <2>3
    <3>5. last[u] # INT_MAX
      BY <1>3, <1>9, <3>1, <3>3, <3>4
    <3>6. NextCost(last)[v] <= last[u] + adj(u, v) - RoomYammo[v]
      BY <1>1, <3>1, <3>2, <3>5, NextCostIs
    <3> QED BY <2>2, <3>1, <3>3, <3>4, <3>6
  <2> QED BY <2>5, <2>6
<1> QED BY <1>1, <1>2, <1>12, <1>13, <1>14 DEF NearInv, Reached

LEMMA ArriveGreedy ==
  ASSUME SInv, AmmoInv, NEW most \in Nat, CostsFit(most), GreedyInv(most), Arrive
  PROVE  GreedyInv(most)'
<1>1. /\ TypeInv /\ pc = "search" /\ pc' = "arrived" /\ Candidates # {} /\ findMin = Goal
      /\ UNCHANGED <<input, RoomYammo, j, k, dist>> /\ init' = dist[Goal]
      /\ visited' = [visited EXCEPT ![Goal] = TRUE]
  BY DEF SInv, Arrive
<1>2. /\ Source' = Source /\ Goal' = Goal /\ Closed' = Closed /\ Least' = Least
      /\ Plain' = Plain /\ SpentBefore(most)' = SpentBefore(most)
  BY <1>1, CostsKept DEF Source, Goal, Closed, SpentBefore
<1>3. ASSUME Plain, NEW v \in Rooms \ Closed, visited'[v] PROVE IsExact(v)
  <2>1. NearInv /\ 0 <= dist[Source] /\ dist[Source] <= SpentBefore(most)
    BY <1>1, <1>3 DEF GreedyInv, Searching
  <2>2. visited[v] \/ v = Goal
    BY <1>1, <1>3 DEF TypeInv
  <2>3. \A x \in Rooms : ~visited[x] => dist[Goal] <= dist[x]
    BY <1>1, <1>3, findMinNearest
  <2> QED BY <1>1, <1>3, <2>1, <2>2, <2>3, NearestExact
<1>4. \A v : IsExact(v)' = IsExact(v)
  BY <1>1, <1>2 DEF IsExact
<1> QED BY <1>1, <1>2, <1>3, <1>4 DEF GreedyInv, Searching

LEMMA EndLegGreedy ==
  ASSUME SInv, AmmoInv, NEW most \in Nat, CostsFit(most), GreedyInv(most), EndLeg
  PROVE  GreedyInv(most)'
<1>1. /\ TypeInv /\ AheadInv /\ BoundInv /\ RoundInv /\ pc = "arrived" /\ parent[Goal] # Unset
      /\ pc' = IF j < 2 THEN "leg" ELSE "done"
      /\ j' = IF j < 2 THEN j + 1 ELSE j
      /\ UNCHANGED <<input, init>>
  BY DEF SInv, EndLeg
<1>2. Goal \in Rooms /\ Goal \notin Closed /\ Plain' = Plain /\ j \in 0 .. 2
  BY <1>1, Keys DEF TypeInv, Plain, adj
<1>3. ASSUME Plain, j < 2 PROVE 0 <= init /\ init <= SpentBefore(most)'
  <2>1. /\ init = dist[Goal] /\ IsExact(Goal) /\ 0 <= dist[Source] /\ dist[Source] <= SpentBefore(most)
    BY <1>1, <1>2, <1>3 DEF GreedyInv, Searching, RoundInv
  <2>2. dist[Goal] # INT_MAX
    BY <1>1, <1>2 DEF AheadInv, Reached
  <2>3. dist[Goal] = dist[Source] + Least[Goal] /\ Least[Goal] # INT_MAX
    BY <2>1, <2>2 DEF IsExact
  <2>4. NRooms \in 0 .. NRooms /\ NRooms * most \in Nat
    BY RoomsAssumption, Multiples
  <2>5. Least[Goal] \in Nat /\ Least[Goal] <= NRooms * most
    BY <1>1, <1>2, <1>3, <2>3, <2>4, LeastIs, CostsBound
  <2>6. dist[Source] \in Int
    BY <1>1, Keys DEF TypeInv
  <2> DEFINE a == Least[Goal]
             c == NRooms * most
  <2>7. /\ SpentBefore(most) = IF j = 0 THEN 0 ELSE c
        /\ SpentBefore(most)' = IF j = 0 THEN c ELSE c + c
    BY <1>1, <1>2, <1>3 DEF SpentBefore
  <2> HIDE DEF a, c
  <2>8. a \in Nat /\ a <= c /\ c \in Nat /\ init = dist[Source] + a
    BY <2>1, <2>3, <2>4, <2>5 DEF a, c
  <2> QED BY <2>1, <2>6, <2>7, <2>8
<1> QED BY <1>1, <1>2, <1>3 DEF GreedyInv, Searching

\* The search ends without a way only when there is none.
LEMMA UndefinedGreedy ==
  ASSUME SInv, AmmoInv, NEW most \in Nat, CostsFit(most), GreedyInv(most), NoCandidate \/ NoWay
  PROVE  GreedyInv(most)'
<1>1. /\ TypeInv /\ BoundInv /\ RoundInv /\ TreeInv /\ pc' = "undefined"
      /\ UNCHANGED <<input, RoomYammo, j>>
  BY DEF SInv, NoCandidate, NoWay
<1>2. /\ Goal \in Rooms /\ Goal \notin Closed /\ Goal # Source /\ Goal' = Goal
      /\ Least' = Least /\ Plain' = Plain
  BY <1>1, Keys, CostsKept DEF TypeInv, Goal
<1> SUFFICES ASSUME Plain PROVE Least[Goal] = INT_MAX
  BY <1>1, <1>2 DEF GreedyInv, Searching
<1>3. CASE NoCandidate
  <2>1. Goal \in Candidates
    BY <1>1, <1>2, <1>3 DEF NoCandidate, Candidates, is_Forbidden, Plain, RoundInv
  <2> QED BY <1>3, <2>1 DEF NoCandidate
<1>4. CASE NoWay
  <2>1. pc = "arrived" /\ parent[Goal] = Unset /\ Unset \notin Rooms
    BY <1>4, RoomsNat DEF NoWay, Unset
  <2>2. dist[Goal] = INT_MAX
    BY <1>1, <1>2, <2>1 DEF TreeInv, Searching, Reached
  <2>3. IsExact(Goal) /\ dist[Source] <= SpentBefore(most)
    BY <1>1, <1>2, <2>1 DEF GreedyInv, Searching, RoundInv
  <2>4. NRooms \in 0 .. NRooms
    BY RoomsAssumption
  <2>5. Least[Goal] # INT_MAX => dist[Source] + Least[Goal] < INT_MAX
    BY <1>1, <1>2, <2>3, <2>4, LeastIs, Below
  <2>6. ~(INT_MAX < INT_MAX)
    BY RoomsAssumption
  <2> HIDE DEF Least
  <2> QED BY <2>2, <2>3, <2>5, <2>6 DEF IsExact
<1> QED BY <1>3, <1>4

LEMMA StutterGreedy ==
  ASSUME NEW most \in Nat, GreedyInv(most), UNCHANGED vars
  PROVE  GreedyInv(most)'
<1>1. UNCHANGED <<input, RoomYammo, j, k, dist, visited, init, pc>>
  BY DEF vars
<1>2. /\ Source' = Source /\ Goal' = Goal /\ Closed' = Closed /\ Least' = Least
      /\ Costs' = Costs /\ Plain' = Plain /\ SpentBefore(most)' = SpentBefore(most)
      /\ \A u, v : adj(u, v)' = adj(u, v)
  BY <1>1, CostsKept DEF Source, Goal, Closed, SpentBefore, adj
<1>3. NearInv' = NearInv /\ \A v : IsExact(v)' = IsExact(v)
  BY <1>1, <1>2 DEF NearInv, IsExact, Reached
<1> QED BY <1>1, <1>2, <1>3 DEF GreedyInv, Searching

LEMMA StepGreedy ==
  ASSUME SInv, AmmoInv, NEW most \in Nat, CostsFit(most), GreedyInv(most), [Next]_vars
  PROVE  GreedyInv(most)'
BY BeginLegGreedy, ExpandGreedy, ArriveGreedy, EndLegGreedy, UndefinedGreedy, StutterGreedy
   DEF Next, Ended

LEMMA InitGreedy == ASSUME NEW most \in Nat PROVE Init => GreedyInv(most)
BY DEF Init, GreedyInv, Searching, SpentBefore

\* On plain inputs the greedy search is exact (lines 24-37, 153-172): a room
\* visited has the least cost there is, and undefined behaviour is met only
\* when the goal of the leg is cut off, as long as no corridor is so dear that
\* a distance meets INT_MAX, the value of a room not reached.
THEOREM Greedy ==
  ASSUME NEW most \in Nat, CostsFit(most)
  PROVE  Spec => []ShortestOnPlain
<1> DEFINE GInv == SInv /\ RouteInv /\ AmmoInv /\ GreedyInv(most)
<1>1. Init => GInv
  BY InitSearch, InitRoute, InitAmmo, InitGreedy
<1>2. GInv /\ [Next]_vars => GInv'
  BY StepSearch, StepRoute, AmmoStep, StepGreedy
<1>3. GInv => ShortestOnPlain
  <2> SUFFICES ASSUME GInv, Plain
               PROVE  /\ Searching => \A v \in Rooms \ Closed : visited[v] => IsExact(v)
                      /\ pc = "undefined" => Least[Goal] = INT_MAX
    BY Zenon DEF ShortestOnPlain, IsExact
  <2>1. ASSUME pc = "search", NEW v \in Rooms \ Closed, visited[v] PROVE IsExact(v)
    BY <2>1, NearestExact DEF GreedyInv, Searching
  <2> QED BY <2>1 DEF GreedyInv, Searching
<1> HIDE DEF GInv
<1> QED BY <1>1, <1>2, <1>3, PTL DEF Spec
=============================================================================

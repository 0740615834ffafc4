----------------------------- MODULE MCElevator -----------------------------
(* Small instances of Elevator for TLC.                                    *)
EXTENDS Elevator

\* Every input with the given weights and priorities.
Inputs(weights, priorities) ==
  {t \in [Person -> {r \in Trip : /\ r.weight \in weights
                                  /\ r.priority \in priorities
                                  /\ r.initial_floor # r.destination_floor}] : TRUE}

\* Person p weighs p + 1; both priorities.
FatInput == {t \in Inputs({1, 2}, {1, 2}) : \A p \in Person : t[p].weight = p + 1}

\* One weight, both priorities.
LightInput == Inputs({1}, {1, 2})

\* The inputs on which a prompt schedule serves everybody.
ServedInput == {t \in LightInput : CountsRight(t)}

\* Two hp persons and an lp person who call on the ground floor.
TwoHighInput ==
  {t \in LightInput : \A p \in Person :
     t[p].initial_floor = 0 /\ t[p].priority = IF p = 2 THEN 2 ELSE 1}
=============================================================================

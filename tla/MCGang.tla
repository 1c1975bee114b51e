-------------------------------- MODULE MCGang --------------------------------
(* Instances of Gang for TLC: see the README for the bounds.                 *)
EXTENDS Gang

TwoAndTwo == [e \in 1..4 |-> IF e <= 2 THEN 1 ELSE 2]
ThreeAndOne == [e \in 1..4 |-> IF e <= 3 THEN 1 ELSE 2]
OneOfThree == [e \in 1..3 |-> 1]
===============================================================================

------------------------------- MODULE MCPromise -------------------------------
(* Instances of Promise for TLC: see the README for the bounds.               *)
EXTENDS Promise

OtherThenSame == [j \in Jobs |-> IF j = 1 THEN 2 ELSE 1]
================================================================================

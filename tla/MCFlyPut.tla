-------------------------------- MODULE MCFlyPut --------------------------------
(* Instances of FlyPut for TLC: see the README for the bounds.                 *)
EXTENDS FlyPut

=================================================================================

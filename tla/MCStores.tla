-------------------------------- MODULE MCStores --------------------------------
(* Instances of Stores for TLC: see the README for the bounds.                 *)
EXTENDS Stores, TLC

TwoNames == {"r", "s"}
OneName == {"r"}
Symmetry == Permutations(Jobs)
=================================================================================

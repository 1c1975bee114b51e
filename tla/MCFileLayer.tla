------------------------------ MODULE MCFileLayer -------------------------------
(* Instances of FileLayer for TLC: see the README for the bounds.  The cache   *)
(* is empty in the beginning, or holds a file and a directory, which have      *)
(* nothing to do with each other.                                              *)
EXTENDS FileLayer

MCInit == Init /\ (cached = None <=> dir = None) /\ (cached = None => inode[1].others = 0)
MCSpec == MCInit /\ [][Next]_vars
MCLiveSpec == MCSpec /\ Fairness
=================================================================================

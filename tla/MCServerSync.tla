------------------------------- MODULE MCServerSync -------------------------------
(* Instance of ServerSync for TLC: see the README for the bounds.              *)
EXTENDS ServerSync
=================================================================================

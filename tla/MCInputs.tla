-------------------------------- MODULE MCInputs --------------------------------
(* Instances of Inputs for TLC: see the README for the bounds.                 *)
EXTENDS Inputs

SevenFiles == <<"f1", "f2", "f2", "f3", "f2", "f4", "f3">>
SevenHandlers == <<1, 2, 3, 4, 2, 5, 6>>
SevenGroups == <<{"a"}, {"a", "b"}, {}, {"b"}, {}, {"b", "c"}, {"c"}>>
=================================================================================

---------------------------- MODULE MCInputMonitor ----------------------------
(* Instances of InputMonitor for TLC: see the README for the bounds.         *)
EXTENDS InputMonitor

NoFatal == {}
FirstFatal == {1}
NoAlternate == {}
SecondAlternate == {2}
UfoAndExpected == {"void", "expected"}
OnlyExpected == {"expected"}
===============================================================================

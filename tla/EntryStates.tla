------------------------------ MODULE EntryStates ------------------------------
(***************************************************************************)
(* The states of the entries of an input monitor, which their gangs count, *)
(* and the news that there may be of an entry.                             *)
(***************************************************************************)
EntrySt == {"ufo", "expected", "available", "failed"}

Later(s) == CASE s = "ufo" -> {"expected", "available", "failed"}
              [] s = "expected" -> {"available", "failed"}
              [] OTHER -> {}
===============================================================================

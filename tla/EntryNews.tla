------------------------------- MODULE EntryNews -------------------------------
(***************************************************************************)
(* What an input monitor tells of its entries, seen by those who listen    *)
(* (the gangs): the news of an entry come one at a time and only go        *)
(* forward, and there are none of an entry that is available or failed.    *)
(***************************************************************************)
EXTENDS EntryStates

CONSTANT Subjects    \* the entries

VARIABLE state       \* per entry: its state, as the listener knows it

Init == state \in [Subjects -> EntrySt]

Tell(e, s) == s \in Later(state[e]) /\ state' = [state EXCEPT ![e] = s]

Next == \E e \in Subjects, s \in EntrySt : Tell(e, s)

Spec == Init /\ [][Next]_state
===============================================================================

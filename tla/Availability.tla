------------------------------ MODULE Availability ------------------------------
(***************************************************************************)
(* What the promise protocol of Vortex offers for one resource, seen from  *)
(* outside: the resource is absent, promised or there.  A promise may be   *)
(* made at any time, is kept or withdrawn, and nothing else ever happens:  *)
(* what is there does not go away unless it is promised again, and a       *)
(* consumer that waits has been told of a promise.                         *)
(***************************************************************************)
CONSTANT Consumers

VARIABLES
    avail,     \* state of the resource
    waiting    \* the consumers that wait for it

vars == <<avail, waiting>>

TypeOK == avail \in {"absent", "promised", "there"} /\ waiting \subseteq Consumers

Init == avail = "absent" /\ waiting = {}

Promise == avail' = "promised" /\ UNCHANGED waiting
Keep == avail = "promised" /\ avail' = "there" /\ UNCHANGED waiting
Withdraw == avail = "promised" /\ avail' = "absent" /\ UNCHANGED waiting

StartWaiting(c) ==
    avail = "promised" /\ waiting' = waiting \cup {c} /\ UNCHANGED avail
StopWaiting(c) ==
    c \in waiting /\ waiting' = waiting \ {c} /\ UNCHANGED avail

Next ==
    \/ Promise \/ Keep \/ Withdraw
    \/ \E c \in Consumers : StartWaiting(c) \/ StopWaiting(c)

Spec == Init /\ [][Next]_vars
=================================================================================

--------------------------------- MODULE Rounds ---------------------------------
(***************************************************************************)
(* What the synchronisation of an algo component with its server offers,   *)
(* seen from outside: the two of them take turns.  The main process        *)
(* prepares a step in the working directory and leaves, the server         *)
(* computes that step, alone in the directory, and so on, until the main   *)
(* process gives its verdict.  A step may fail, or never be computed; a    *)
(* strict component then raises.                                           *)
(***************************************************************************)
EXTENDS Naturals

CONSTANT K           \* the steps

VARIABLES
    prepared, done,  \* the last step that was prepared, and computed
    here,            \* is the main process at its files?
    computing,       \* is the server?
    verdict,         \* "none", then what the main process answers
    strict           \* must all the steps be computed?

vars == <<prepared, done, here, computing, verdict, strict>>

Init ==
    /\ prepared = 0 /\ done = 0 /\ here = TRUE /\ computing = FALSE
    /\ verdict = "none" /\ strict \in BOOLEAN

\* the next step, not before the last one is computed
Prepare ==
    /\ here /\ ~computing /\ prepared < K /\ done = prepared
    /\ prepared' = prepared + 1 /\ here' \in BOOLEAN
    /\ UNCHANGED <<done, computing, verdict, strict>>

Leave ==
    /\ here /\ here' = FALSE
    /\ UNCHANGED <<prepared, done, computing, verdict, strict>>
Return ==
    /\ ~here /\ ~computing /\ verdict = "none" /\ here' = TRUE
    /\ UNCHANGED <<prepared, done, computing, verdict, strict>>

Begin ==
    /\ ~here /\ ~computing /\ done + 1 = prepared /\ computing' = TRUE
    /\ UNCHANGED <<prepared, done, here, verdict, strict>>
End ==
    /\ computing /\ computing' = FALSE /\ done' \in {done, prepared}
    /\ UNCHANGED <<prepared, here, verdict, strict>>

Conclude(v) ==
    /\ ~here /\ verdict = "none" /\ verdict' = v
    /\ v = "ok" /\ strict => done = K
    /\ UNCHANGED <<prepared, done, here, computing, strict>>

Next ==
    \/ Prepare \/ Leave \/ Return \/ Begin \/ End
    \/ \E v \in {"ok", "raised"} : Conclude(v)

Spec == Init /\ [][Next]_vars
=================================================================================

------------------------------- MODULE ServerSync -------------------------------
(***************************************************************************)
(* An algo component that keeps its binary running as a server             *)
(* (server_run=True): one step of the server per call of execute.          *)
(*                                                                         *)
(* Between two steps the binary calls a script (the medium of              *)
(* ServerSyncSimpleSocket) that connects to the socket of the main process *)
(* and waits for a command, STEP or STOP.  A connection means "ready": the *)
(* main process then prepares the next step, sends STEP, reads OK and      *)
(* waits for the next connection (trigger_wait), checking now and then     *)
(* that the server process is alive.                                       *)
(*                                                                         *)
(* Two kinds of components: "coupling" (raise if the server exits, run a   *)
(* step on startup, stop the server at the end) and "fpserver" (none of    *)
(* these: its binary ends by itself after the last step).  The second one  *)
(* loops over the inputs its monitor brings: a step is ready when all of   *)
(* its inputs are there, and some may never be.                            *)
(***************************************************************************)
EXTENDS Naturals, Sequences

CONSTANT K      \* number of steps (inputs) of the component
ASSUME KAssumption == K \in Nat \ {0}

VARIABLES
    mode,       \* "coupling" or "fpserver"
    last,       \* the steps whose inputs will all be there (K for a coupling)
    inputs,     \* what the loop knows: "coming" while not bm.all_done, then "done",
                \* or "none" when bm.available is empty
    mpc,        \* main process: control point
    step,       \* the last step it has prepared
    starting,   \* is it in the first call of execute?
    conn,       \* has it a connection (_socket_conn)?
    cmd,        \* the command it waits the answer of
    result,     \* "ok", or "raised" once an exception is on its way
    spc,        \* server process, binary and script: control point
    failing,    \* does it end with an exception?
    computed,   \* number of steps it has computed
    event,      \* _server_event: the server has failed
    term,       \* was it sent a SIGTERM?
    pending,    \* a connection that is not accepted yet
    msgs,       \* commands sent on the connection, not read by the script
    reply,      \* what the main process will read: "none", "OK", "closed"
    slow        \* history: an answer came too late

mainvars == <<step, starting, conn, cmd, result>>
servervars == <<spc, failing, computed, event>>
net == <<pending, msgs, reply>>
loopvars == <<mode, last, inputs>>
vars == <<loopvars, mpc, mainvars, servervars, term, net, slow>>

RaiseOnExit == mode = "coupling"
RunOnStartup == mode = "coupling"
StopOnExit == mode = "coupling"

Alive == spc \notin {"off", "gone"}             \* server_alive
Listens == spc = "asking" /\ ~pending           \* the other end of the connection

Init ==
    /\ mode \in {"coupling", "fpserver"}
    /\ last \in 0..K /\ (mode = "coupling" => last = K) /\ inputs = "coming"
    /\ mpc = "prepare" /\ step = 0 /\ starting = FALSE
    /\ conn = FALSE /\ cmd = "none" /\ result = "ok"
    /\ spc = "off" /\ failing = FALSE /\ computed = 0 /\ event = FALSE
    /\ term = FALSE /\ pending = FALSE /\ msgs = <<>> /\ reply = "none"
    /\ slow = FALSE

-----------------------------------------------------------------------------
(***************************************************************************)
(* The main process.                                                       *)
(***************************************************************************)
\* an exception in execute leads to server_end, one in server_end to the end
Raise(c) == result' = "raised" /\ mpc' = IF c = "STOP" THEN "over" ELSE "end"

\* ServerSyncSimpleSocket._command, first half: a send to a script that is gone is
\* lost, or fails
Command(c) ==
    \/ /\ Listens /\ msgs' = Append(msgs, c)
       /\ mpc' = "recv" /\ cmd' = c /\ UNCHANGED result
    \/ ~Listens /\ mpc' = "recv" /\ cmd' = c /\ UNCHANGED <<msgs, result>>
    \/ ~Listens /\ Raise(c) /\ UNCHANGED <<msgs, cmd>>

\* FullPosServer.execute: bm.all_done, once the monitor has got its inputs or not
InputsDone ==
    /\ mode = "fpserver" /\ mpc = "prepare" /\ inputs = "coming"
    /\ inputs' \in IF last = 0 THEN {"done", "none"} ELSE {"done"}
    /\ UNCHANGED <<mode, last, mpc, mainvars, servervars, term, net, slow>>

\* every step that could be has been, and there is nothing to wait for
NoMore == mode = "fpserver" /\ inputs # "coming" /\ step = last
\* the loop goes on all the same as long as bm.available is not empty: nothing in it
\* takes what is there out of bm.available, which the gangs do not do, and it looks at
\* its time limit, the monitor and the server only before, or after a step
Loops == mpc = "prepare" /\ NoMore /\ inputs = "done" /\ UNCHANGED vars

\* AlgoComponent.execute, first call: the server is started; a component that runs on
\* startup has prepared its first step
Start ==
    /\ mpc = "prepare" /\ spc = "off" /\ ~NoMore
    /\ spc' = "init" /\ starting' = TRUE /\ mpc' = "accept"
    /\ step' = IF RunOnStartup THEN 1 ELSE 0
    /\ UNCHANGED <<loopvars, conn, cmd, result, failing, computed, event, term, net, slow>>

\* the next calls: trigger_run
Execute ==
    /\ mpc = "prepare" /\ spc # "off" /\ step < last
    /\ step' = step + 1
    /\ Command("STEP")
    /\ UNCHANGED <<loopvars, starting, conn, servervars, term, pending, reply, slow>>

\* the step that follows the startup
Go ==
    /\ mpc = "go"
    /\ Command("STEP")
    /\ UNCHANGED <<loopvars, step, starting, conn, servervars, term, pending, reply, slow>>

\* _command, second half
Receive ==
    /\ mpc = "recv" /\ reply = "OK"
    /\ conn' = FALSE /\ reply' = "none"
    /\ mpc' = IF cmd = "STEP" THEN "accept" ELSE "join"
    /\ UNCHANGED <<loopvars, step, starting, cmd, result, servervars, term, pending, msgs,
                   slow>>

\* an empty answer closes the connection, a reset leaves it
ReceiveNothing ==
    /\ mpc = "recv" /\ reply = "closed"
    /\ conn' \in BOOLEAN /\ Raise(cmd)
    /\ UNCHANGED <<loopvars, step, starting, cmd, servervars, term, net, slow>>

\* checkinterval seconds
ReceiveTimeout ==
    /\ mpc = "recv" /\ reply = "none"
    /\ Raise(cmd) /\ slow' = TRUE
    /\ UNCHANGED <<loopvars, step, starting, conn, cmd, servervars, term, net>>

\* trigger_wait: a connection ...
Accept_NotRun ==
    /\ mpc = "accept" /\ Alive /\ pending
    /\ conn' = TRUE /\ pending' = FALSE /\ msgs' = <<>>
    /\ reply' = IF spc = "asking" THEN "none" ELSE "closed"
    /\ mpc' = IF mode = "fpserver" THEN "check" ELSE "prepare"
    /\ starting' = FALSE
    /\ UNCHANGED <<loopvars, step, cmd, result, servervars, term, slow>>
Accept ==
    /\ mpc = "accept" /\ Alive /\ pending
    /\ conn' = TRUE /\ pending' = FALSE /\ msgs' = <<>>
    /\ reply' = IF spc = "asking" THEN "none" ELSE "closed"
    /\ mpc' = IF starting /\ RunOnStartup THEN "go"
              ELSE IF mode = "fpserver" THEN "check" ELSE "prepare"
    /\ starting' = FALSE
    /\ UNCHANGED <<loopvars, step, cmd, result, servervars, term, slow>>

\* ... or the server is not alive any more
Exited_NotLooked ==
    mpc = "accept" /\ ~Alive /\ UNCHANGED vars
Exited ==
    /\ mpc = "accept" /\ ~Alive
    /\ IF RaiseOnExit THEN Raise("STEP") ELSE mpc' = "check" /\ UNCHANGED result
    /\ starting' = FALSE
    /\ UNCHANGED <<loopvars, step, conn, cmd, servervars, term, net, slow>>

\* FullPosServer.execute: "Did the server stopped ?"
Check ==
    /\ mpc = "check"
    /\ mpc' = IF Alive THEN "prepare" ELSE "end"
    /\ UNCHANGED <<loopvars, mainvars, servervars, term, net, slow>>

\* execute ends: the loop of FullPosServer, with nothing in bm.available (its other
\* ways out are Check, a time limit and an error)
ExecuteEnds ==
    /\ mpc = "prepare"
    /\ IF mode = "fpserver" THEN inputs = "none" ELSE spc # "off" /\ step = K
    /\ mpc' = "end"
    /\ UNCHANGED <<loopvars, mainvars, servervars, term, net, slow>>
\* or it raises: on its own account, or since the inputs are too long to come
ExecuteFails ==
    /\ mpc = "prepare" /\ ~NoMore /\ Raise("STEP")
    /\ UNCHANGED <<loopvars, step, starting, conn, cmd, servervars, term, net, slow>>

(***************************************************************************)
(* execute_finalise, server_end.                                           *)
(***************************************************************************)
\* "The server process ended badly."
Judge_NoRc(good) == mpc' = "over" /\ UNCHANGED result
Judge(good) == mpc' = "over" /\ result' = IF good THEN result ELSE "raised"

ServerEnd ==
    /\ mpc = "end"
    /\ \/ /\ ~Alive
          /\ Judge(~event) /\ UNCHANGED <<cmd, msgs, term>>
       \/ /\ Alive /\ StopOnExit /\ conn
          /\ Command("STOP") /\ UNCHANGED term
       \/ /\ Alive /\ StopOnExit /\ ~conn
          /\ Judge(~event) /\ term' = TRUE /\ UNCHANGED <<cmd, msgs>>
       \/ /\ Alive /\ ~StopOnExit
          /\ Judge(FALSE) /\ term' = TRUE /\ UNCHANGED <<cmd, msgs>>
    /\ UNCHANGED <<loopvars, step, starting, conn, servervars, pending, reply, slow>>

\* _server_process.join(30): the server has ended, or it is terminated
Join ==
    /\ mpc = "join"
    /\ Judge(~event)
    /\ term' = Alive
    /\ UNCHANGED <<loopvars, step, starting, conn, cmd, servervars, net, slow>>

-----------------------------------------------------------------------------
(***************************************************************************)
(* The server process: server_job, the binary and the script it calls.     *)
(***************************************************************************)
\* the end of the initialisation, or of a step: the binary calls the script
Initialised ==
    /\ spc = "init" /\ spc' = "connect"
    /\ UNCHANGED <<loopvars, mpc, mainvars, failing, computed, event, term, net, slow>>
Computed ==
    /\ spc = "compute" /\ computed' = computed + 1
    /\ spc' = IF mode = "fpserver" /\ computed' = K THEN "exits" ELSE "connect"
    /\ UNCHANGED <<loopvars, mpc, mainvars, failing, event, term, net, slow>>

Connects ==
    /\ spc = "connect" /\ spc' = "asking" /\ pending' = TRUE
    /\ UNCHANGED <<loopvars, mpc, mainvars, failing, computed, event, term, msgs, reply, slow>>

\* the script reads what was sent so far: two commands at once are none it knows
Obeys ==
    /\ Listens /\ msgs # <<>>
    /\ \E n \in 1..Len(msgs) :
          /\ msgs' = SubSeq(msgs, n + 1, Len(msgs))
          /\ spc' = IF n = 1 /\ Head(msgs) = "STEP" THEN "compute" ELSE "exits"
          /\ failing' = (n > 1)
    /\ reply' = "OK"
    /\ UNCHANGED <<loopvars, mpc, mainvars, computed, event, term, pending, slow>>

\* the binary fails, or stops before its time
Stops ==
    /\ spc \in {"init", "connect", "asking", "compute"}
    /\ spc' = "exits" /\ failing' \in BOOLEAN
    /\ reply' = IF Listens THEN "closed" ELSE reply
    /\ UNCHANGED <<loopvars, mpc, mainvars, computed, event, term, pending, msgs, slow>>

Exits ==
    /\ spc = "exits" /\ spc' = "gone" /\ event' = (event \/ failing)
    /\ UNCHANGED <<loopvars, mpc, mainvars, failing, computed, term, net, slow>>

Terminated ==
    /\ term /\ Alive
    /\ spc' = "gone" /\ event' \in {event, TRUE}
    /\ UNCHANGED <<loopvars, mpc, mainvars, failing, computed, term, net, slow>>

-----------------------------------------------------------------------------
Main ==
    \/ InputsDone \/ Start \/ Execute \/ Go \/ Receive \/ ReceiveNothing \/ ReceiveTimeout
    \/ Accept \/ Exited \/ Check \/ ExecuteEnds \/ ExecuteFails \/ ServerEnd \/ Join
Server ==
    \/ Initialised \/ Computed \/ Connects \/ Obeys \/ Stops \/ Exits \/ Terminated
Stutter == mpc = "over" /\ ~Alive /\ UNCHANGED vars
Next == Main \/ Server \/ Loops \/ Stutter

\* The binary calls the script after each step, the script answers, signals arrive, the
\* inputs are got or not, or exceed the time limit
Fairness == WF_vars(Main) /\ WF_vars(Server)
Spec == Init /\ [][Next]_vars
FairSpec == Spec /\ Fairness

-----------------------------------------------------------------------------
(***************************************************************************)
(* Properties.                                                             *)
(***************************************************************************)
TypeOK ==
    /\ mode \in {"coupling", "fpserver"}
    /\ last \in 0..K /\ inputs \in {"coming", "done", "none"}
    /\ mpc \in {"prepare", "go", "recv", "accept", "check", "end", "join", "over"}
    /\ step \in 0..K /\ computed \in 0..K
    /\ {starting, conn, failing, event, term, pending, slow} \subseteq BOOLEAN
    /\ cmd \in {"none", "STEP", "STOP"} /\ result \in {"ok", "raised"}
    /\ spc \in {"off", "init", "connect", "asking", "compute", "exits", "gone"}
    /\ msgs \in Seq({"STEP", "STOP"}) /\ Len(msgs) <= 2
    /\ reply \in {"none", "OK", "closed"}

\* The server computes the step that was prepared, while the main process stays away
\* from the working directory they share; when it comes back to its files that step
\* is computed: no connection is taken for another.
InStep ==
    /\ spc = "compute" => computed + 1 = step /\ mpc \notin {"prepare", "go", "check"}
    /\ mpc = "prepare" => computed = step

\* A coupling that ends well has all its steps; whatever the component, it ends well
\* only if its server did not fail.
SuccessMeansDone ==
    mpc = "over" /\ result = "ok" =>
        /\ mode = "coupling" => computed = K
        /\ spc = "off" \/ term \/ (spc = "gone" /\ ~event)

\* Seen from outside (see Rounds), the main process and its server take turns.
AtFiles == mpc \in {"prepare", "go", "check"}
Verdict == IF mpc = "over" THEN result ELSE "none"
R == INSTANCE Rounds WITH
        prepared <- step, done <- computed, here <- AtFiles, computing <- (spc = "compute"),
        verdict <- Verdict, strict <- RaiseOnExit
TakesTurns == R!Spec

\* The main process ends, and the server too unless an answer came too late; but for
\* FullPosServer when some input was not got while others were: it loops for ever once
\* the steps that could be are done, and never in any other case (a server that dies or
\* stops early, an answer that is late, a step that fails).
LoopsForEver == mpc = "prepare" /\ NoMore /\ inputs = "done" /\ last < K
BothEnd ==
    \/ <>(mpc = "over") /\ (<>(~Alive /\ mpc = "over") \/ <>slow)
    \/ <>[]LoopsForEver
=================================================================================

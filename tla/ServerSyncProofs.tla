---------------------------- MODULE ServerSyncProofs ----------------------------
(***************************************************************************)
(* Safety proofs about the synchronisation of a server binary, for any     *)
(* number of steps and both kinds of components.                           *)
(***************************************************************************)
EXTENDS ServerSync, SequenceTheorems, TLAPS

\* The commands that may be on the connection: a stop may follow a step that has not
\* been answered in time
Sent == {<<>>, <<"STEP">>, <<"STOP">>, <<"STEP", "STOP">>}

Typed ==
    /\ mode \in {"coupling", "fpserver"}
    /\ last \in 0..K /\ inputs \in {"coming", "done", "none"}
    /\ mpc \in {"prepare", "go", "recv", "accept", "check", "end", "join", "over"}
    /\ step \in 0..K /\ computed \in 0..K
    /\ starting \in BOOLEAN /\ conn \in BOOLEAN /\ failing \in BOOLEAN /\ event \in BOOLEAN
    /\ term \in BOOLEAN /\ pending \in BOOLEAN /\ slow \in BOOLEAN
    /\ cmd \in {"none", "STEP", "STOP"} /\ result \in {"ok", "raised"}
    /\ spc \in {"off", "init", "connect", "asking", "compute", "exits", "gone"}
    /\ msgs \in Sent
    /\ reply \in {"none", "OK", "closed"}

\* The main process goes to its end
Leaving == mpc \in {"end", "join", "over"} \/ (mpc = "recv" /\ cmd = "STOP")

\* The server was asked nothing yet
Idle == ~pending /\ msgs = <<>> /\ reply # "OK" /\ spc \in {"asking", "exits", "gone"}

\* The server has got the order to run the last step that was prepared: it computes
\* this step, has computed it, or has stopped in between
Working ==
    /\ spc \in {"compute", "connect", "asking", "exits", "gone"}
    /\ spc = "compute" => ~pending /\ computed + 1 = step
    /\ spc = "connect" => ~pending /\ computed = step
    /\ spc = "asking" => pending /\ computed = step
    /\ pending => computed = step

\* The same before the first step
Starting ==
    /\ computed = 0 /\ step = (IF mode = "coupling" THEN 1 ELSE 0)
    /\ spc \in {"init", "connect", "asking", "exits", "gone"}
    /\ spc \in {"init", "connect"} => ~pending
    /\ spc = "asking" => pending

\* What the control point of the main process says of the server
Off ==
    spc = "off" =>
        /\ ~pending /\ msgs = <<>> /\ reply = "none" /\ computed = 0 /\ step = 0 /\ ~starting
        /\ \/ mpc = "prepare"
           \/ mpc \in {"end", "over"} /\ (mode = "coupling" => result = "raised")
Preparing == mpc = "prepare" => computed = step /\ ~starting /\ (spc = "off" \/ Idle)
Going == mpc = "go" => Idle /\ ~starting /\ computed = 0 /\ step = 1
Checking ==
    mpc = "check" =>
        /\ ~starting /\ mode = "fpserver" /\ msgs = <<>>
        /\ spc = "gone" \/ (Idle /\ computed = step)
Receiving ==
    mpc = "recv" /\ cmd = "STEP" =>
        /\ ~starting
        /\ reply = "OK" => Working /\ msgs = <<>>
        /\ reply # "OK" => /\ ~pending
                           /\ spc \in {"asking", "exits", "gone"}
                           /\ spc = "asking" => msgs = <<"STEP">> /\ computed + 1 = step
        /\ msgs \in {<<>>, <<"STEP">>}
Accepting ==
    mpc = "accept" => msgs = <<>> /\ IF starting THEN Starting ELSE Working
Commanded == mpc = "recv" => cmd # "none"

\* What remains of it when the main process goes to its end
Left ==
    Leaving =>
        /\ ~starting
        /\ mpc = "end" => msgs \in {<<>>, <<"STEP">>}
        /\ spc # "init"
        /\ spc = "compute" => computed + 1 = step
        /\ spc = "connect" => ~pending
        /\ Listens /\ msgs # <<>> /\ Head(msgs) = "STEP" => computed + 1 = step

\* A coupling without an exception has computed all its steps, and computes no more
LeftWell ==
    Leaving /\ mode = "coupling" /\ result = "ok" =>
        /\ computed = K /\ spc \in {"asking", "exits", "gone"}
        /\ ~pending /\ msgs \in {<<>>, <<"STOP">>}

Ended ==
    mpc = "over" /\ result = "ok" => spc = "off" \/ term \/ (spc = "gone" /\ ~event)
Signalled == term => mpc = "over"

IInv ==
    /\ Typed /\ Off /\ Preparing /\ Going /\ Checking /\ Receiving /\ Accepting /\ Commanded
    /\ Left /\ LeftWell /\ Ended /\ Signalled
    /\ pending => spc \in {"asking", "exits", "gone"}

--------------------------------------------------------------------------------
(***************************************************************************)
(* Each step keeps it.                                                     *)
(***************************************************************************)
USE KAssumption
    DEF Typed, Off, Preparing, Going, Checking, Receiving, Accepting, Commanded, Left, LeftWell,
        Ended, Signalled, Leaving, Idle, Working, Starting, Sent, loopvars, mainvars, servervars, net,
        RaiseOnExit, RunOnStartup, StopOnExit, Alive, Listens, Raise, Judge

\* What Append and SubSeq make of the commands on the connection
LEMMA SentIsSeq ==
    /\ Sent \subseteq Seq({"STEP", "STOP"})
    /\ Len(<<"STEP">>) = 1 /\ Len(<<"STOP">>) = 1 /\ Len(<<"STEP", "STOP">>) = 2
OBVIOUS

LEMMA SmallSeqs ==
    ASSUME NEW s \in Seq({"STEP", "STOP"})
    PROVE  /\ Len(s) = 1 /\ s[1] = "STOP" => s = <<"STOP">>
           /\ Len(s) = 2 /\ s[1] = "STEP" /\ s[2] = "STOP" => s = <<"STEP", "STOP">>
<1>1. Len(s) = 1 /\ s[1] = "STOP" => s = <<"STOP">>
    OBVIOUS
<1>2. Len(s) = 2 /\ s[1] = "STEP" /\ s[2] = "STOP" => s = <<"STEP", "STOP">>
    OBVIOUS
<1> QED BY <1>1, <1>2

LEMMA AppendFacts ==
    /\ Append(<<>>, "STEP") = <<"STEP">> /\ Append(<<>>, "STOP") = <<"STOP">>
    /\ Append(<<"STEP">>, "STOP") = <<"STEP", "STOP">>
<1>1. /\ Append(<<"STEP">>, "STOP") \in Seq({"STEP", "STOP"})
      /\ Len(Append(<<"STEP">>, "STOP")) = 2
      /\ Append(<<"STEP">>, "STOP")[1] = "STEP" /\ Append(<<"STEP">>, "STOP")[2] = "STOP"
    <2>1. <<"STEP">> \in Seq({"STEP", "STOP"}) /\ Len(<<"STEP">>) = 1 /\ <<"STEP">>[1] = "STEP"
        OBVIOUS
    <2> QED BY <2>1, AppendProperties
<1>2. Append(<<"STEP">>, "STOP") = <<"STEP", "STOP">>
    BY <1>1, SmallSeqs
<1> QED BY <1>2

LEMMA SubSeqFacts ==
    /\ SubSeq(<<"STEP">>, 2, 1) = <<>> /\ SubSeq(<<"STOP">>, 2, 1) = <<>>
    /\ SubSeq(<<"STEP", "STOP">>, 2, 2) = <<"STOP">>
    /\ SubSeq(<<"STEP", "STOP">>, 3, 2) = <<>>
<1>1. /\ SubSeq(<<"STEP", "STOP">>, 2, 2) \in Seq({"STEP", "STOP"})
      /\ Len(SubSeq(<<"STEP", "STOP">>, 2, 2)) = 1
      /\ SubSeq(<<"STEP", "STOP">>, 2, 2)[1] = "STOP"
    <2>1. <<"STEP", "STOP">> \in Seq({"STEP", "STOP"}) /\ <<"STEP", "STOP">>[2] = "STOP"
        OBVIOUS
    <2> QED BY <2>1, SubSeqProperties
<1>2. SubSeq(<<"STEP", "STOP">>, 2, 2) = <<"STOP">>
    BY <1>1, SmallSeqs
<1> QED BY <1>2, SubSeqEmpty

LEMMA ExecuteKeeps ==
    ASSUME IInv, Execute
    PROVE  IInv'
<1> USE AppendFacts DEF IInv, Execute, Idle
<1>1. /\ mpc = "prepare" /\ spc # "off" /\ Idle /\ computed = step /\ step < K /\ step' = step + 1
      /\ UNCHANGED <<loopvars, starting, conn, spc, failing, computed, event, term, pending, reply, slow>>
    OBVIOUS
<1>2. CASE Listens /\ msgs' = Append(msgs, "STEP") /\ mpc' = "recv" /\ cmd' = "STEP" /\ UNCHANGED result
    BY <1>1, <1>2
<1>3. CASE ~Listens /\ mpc' = "recv" /\ cmd' = "STEP" /\ UNCHANGED <<msgs, result>>
    BY <1>1, <1>3
<1>4. CASE ~Listens /\ Raise("STEP") /\ UNCHANGED <<msgs, cmd>>
    BY <1>1, <1>4
<1> QED BY <1>2, <1>3, <1>4 DEF Command

LEMMA ServerEndKeeps ==
    ASSUME IInv, ServerEnd
    PROVE  IInv'
<1> USE AppendFacts DEF IInv
<1>1. /\ mpc = "end" /\ msgs \in {<<>>, <<"STEP">>}
      /\ UNCHANGED <<loopvars, step, starting, conn, spc, failing, computed, event, pending, reply, slow>>
    BY DEF ServerEnd
<1>2. CASE ~Alive /\ Judge(~event) /\ UNCHANGED <<cmd, msgs, term>>
    BY <1>1, <1>2
<1>3. CASE Alive /\ StopOnExit /\ Command("STOP") /\ UNCHANGED term
    <2>1. CASE Listens /\ msgs' = Append(msgs, "STOP") /\ mpc' = "recv" /\ cmd' = "STOP" /\ UNCHANGED result
        <3>1. \/ msgs = <<>> /\ msgs' = <<"STOP">>
              \/ msgs = <<"STEP">> /\ msgs' = <<"STEP", "STOP">>
            BY <1>1, <2>1
        <3>2. LeftWell'
            BY <1>1, <1>3, <2>1, <3>1
        <3>3. Left'
            BY <1>1, <1>3, <2>1, <3>1
        <3> QED BY <1>1, <1>3, <2>1, <3>1, <3>2, <3>3
    <2>2. CASE ~Listens /\ mpc' = "recv" /\ cmd' = "STOP" /\ UNCHANGED <<msgs, result>>
        BY <1>1, <1>3, <2>2
    <2>3. CASE ~Listens /\ Raise("STOP") /\ UNCHANGED <<msgs, cmd>>
        BY <1>1, <1>3, <2>3
    <2> QED BY <1>3, <2>1, <2>2, <2>3 DEF Command
<1>4. CASE Alive /\ StopOnExit /\ Judge(~event) /\ term' = TRUE /\ UNCHANGED <<cmd, msgs>>
    BY <1>1, <1>4
<1>5. CASE Alive /\ ~StopOnExit /\ Judge(FALSE) /\ term' = TRUE /\ UNCHANGED <<cmd, msgs>>
    BY <1>1, <1>5
<1> QED BY <1>2, <1>3, <1>4, <1>5 DEF ServerEnd

LEMMA ObeysKeeps ==
    ASSUME IInv, Obeys
    PROVE  IInv'
<1>1. PICK n \in 1..Len(msgs) :
        /\ msgs' = SubSeq(msgs, n + 1, Len(msgs))
        /\ spc' = IF n = 1 /\ Head(msgs) = "STEP" THEN "compute" ELSE "exits"
        /\ failing' = (n > 1)
    BY DEF Obeys
<1>2. /\ spc = "asking" /\ ~pending /\ msgs # <<>> /\ reply' = "OK"
      /\ UNCHANGED <<loopvars, mpc, step, starting, conn, cmd, result, computed, event, term, pending, slow>>
    BY DEF Obeys
<1>3. failing' \in BOOLEAN
    BY <1>1
<1>4. /\ Leaving \/ (mpc = "recv" /\ cmd = "STEP" /\ reply # "OK") \/ mpc \in {"prepare", "go", "check"}
      /\ mpc \notin {"prepare", "go", "check"}
    BY <1>2 DEF IInv
<1>5. \/ msgs = <<"STEP">> /\ msgs' = <<>> /\ spc' = "compute"
      \/ msgs = <<"STOP">> /\ msgs' = <<>> /\ spc' = "exits"
      \/ msgs = <<"STEP", "STOP">> /\ msgs' = <<"STOP">> /\ spc' = "compute"
      \/ msgs = <<"STEP", "STOP">> /\ msgs' = <<>> /\ spc' = "exits"
    <2>1. CASE msgs = <<"STEP">>
        <3>1. n = 1
            BY <1>1, <2>1, SentIsSeq
        <3> QED BY <1>1, <2>1, <3>1, SentIsSeq, SubSeqFacts
    <2>2. CASE msgs = <<"STOP">>
        <3>1. n = 1
            BY <1>1, <2>2, SentIsSeq
        <3> QED BY <1>1, <2>2, <3>1, SentIsSeq, SubSeqFacts
    <2>3. CASE msgs = <<"STEP", "STOP">>
        <3>1. n \in {1, 2}
            BY <1>1, <2>3, SentIsSeq
        <3>2. CASE n = 1
            BY <1>1, <2>3, <3>2, SentIsSeq, SubSeqFacts
        <3>3. CASE n = 2
            BY <1>1, <2>3, <3>3, SentIsSeq, SubSeqFacts
        <3> QED BY <3>1, <3>2, <3>3
    <2> QED BY <1>2, <2>1, <2>2, <2>3 DEF IInv
<1>6. Typed'
    BY <1>2, <1>3, <1>5 DEF IInv
<1> QED BY <1>2, <1>4, <1>5, <1>6, SMTT(30) DEF IInv

LEMMA TerminatedKeeps ==
    ASSUME IInv, Terminated
    PROVE  IInv'
<1>1. /\ term /\ Alive /\ spc' = "gone" /\ event' \in {event, TRUE} /\ event' \in BOOLEAN
      /\ UNCHANGED <<loopvars, mpc, step, starting, conn, cmd, result, failing, computed, term, pending,
                     msgs, reply, slow>>
    BY DEF Terminated, IInv
<1> QED BY <1>1 DEF IInv

LEMMA ReceiveKeeps ==
    ASSUME IInv, Receive
    PROVE  IInv'
<1>1. /\ mpc = "recv" /\ reply = "OK" /\ conn' = FALSE /\ reply' = "none"
      /\ mpc' = (IF cmd = "STEP" THEN "accept" ELSE "join")
      /\ UNCHANGED <<loopvars, step, starting, cmd, result, spc, failing, computed, event, term, pending,
                     msgs, slow>>
    BY DEF Receive
<1>2. CASE cmd = "STEP"
    BY <1>1, <1>2, ZenonT(40) DEF IInv
<1>3. CASE cmd = "STOP"
    <2>1. mpc' = "join" /\ Leaving
        BY <1>1, <1>3
    <2>2. Typed' /\ Left'
        BY <1>1, <1>3, <2>1, ZenonT(40) DEF IInv
    <2>3. LeftWell'
        BY <1>1, <2>1 DEF IInv
    <2> QED BY <1>1, <2>1, <2>2, <2>3 DEF IInv
<1> QED BY <1>1, <1>2, <1>3 DEF IInv

LEMMA AcceptKeeps ==
    ASSUME IInv, Accept
    PROVE  IInv'
<1>1. /\ mpc = "accept" /\ Alive /\ pending /\ conn' = TRUE /\ pending' = FALSE /\ msgs' = <<>>
      /\ reply' = (IF spc = "asking" THEN "none" ELSE "closed") /\ starting' = FALSE
      /\ mpc' = (IF starting /\ RunOnStartup THEN "go"
                 ELSE IF mode = "fpserver" THEN "check" ELSE "prepare")
      /\ UNCHANGED <<loopvars, step, cmd, result, spc, failing, computed, event, term, slow>>
    BY DEF Accept
<1>2. CASE starting /\ mode = "coupling"
    BY <1>1, <1>2, ZenonT(40) DEF IInv
<1>3. CASE mode = "fpserver"
    <2>1. mpc' = "check"
        BY <1>1, <1>3
    <2>2. spc # "gone" => computed = step /\ spc \in {"asking", "exits"}
        BY <1>1, <1>3 DEF IInv
    <2>3. Typed'
        BY <1>1, <2>1 DEF IInv
    <2>4. Checking'
        BY <1>1, <1>3, <2>1, <2>2
    <2> QED BY <1>1, <2>1, <2>3, <2>4 DEF IInv
<1>4. CASE ~starting /\ mode = "coupling"
    BY <1>1, <1>4, ZenonT(40) DEF IInv
<1> QED BY <1>2, <1>3, <1>4 DEF IInv

LEMMA ExitedKeeps ==
    ASSUME IInv, Exited
    PROVE  IInv'
<1>1. /\ mpc = "accept" /\ ~Alive /\ starting' = FALSE
      /\ UNCHANGED <<loopvars, step, conn, cmd, spc, failing, computed, event, term, pending, msgs, reply,
                     slow>>
    BY DEF Exited
<1>2. CASE RaiseOnExit
    <2>1. Raise("STEP")
        BY <1>2 DEF Exited
    <2> QED BY <1>1, <1>2, <2>1, ZenonT(40) DEF IInv
<1>3. CASE ~RaiseOnExit
    <2>1. mpc' = "check" /\ UNCHANGED result
        BY <1>3 DEF Exited
    <2> QED BY <1>1, <1>3, <2>1, ZenonT(40) DEF IInv
<1> QED BY <1>2, <1>3

LEMMA JoinKeeps ==
    ASSUME IInv, Join
    PROVE  IInv'
<1>1. /\ mpc = "join" /\ mpc' = "over" /\ result' = (IF ~event THEN result ELSE "raised")
      /\ UNCHANGED <<loopvars, step, starting, conn, cmd, spc, failing, computed, event, pending, msgs, reply,
                     slow>>
    BY DEF Join
<1>2. CASE Alive
    <2>1. term' = TRUE
        BY <1>2 DEF Join
    <2> QED BY <1>1, <2>1 DEF IInv
<1>3. CASE ~Alive
    <2>1. term' = FALSE
        BY <1>3 DEF Join
    <2>2. spc = "gone"
        BY <1>1, <1>3 DEF IInv
    <2>3. result' = "ok" => ~event /\ result = "ok"
        BY <1>1
    <2>4. Typed'
        <3>1. result' \in {"ok", "raised"}
            BY <1>1 DEF IInv
        <3>2. mpc' = "over" /\ term' \in BOOLEAN
            BY <1>1, <2>1
        <3>3. UNCHANGED <<loopvars, step, starting, conn, cmd, spc, failing, computed, event, pending, msgs,
                          reply, slow>>
            BY <1>1
        <3> QED BY <3>1, <3>2, <3>3 DEF IInv
    <2>5. Ended'
        BY <1>1, <2>1, <2>2, <2>3
    <2>6. LeftWell'
        BY <1>1, <2>3 DEF IInv
    <2> QED BY <1>1, <2>1, <2>2, <2>4, <2>5, <2>6 DEF IInv
<1> QED BY <1>2, <1>3

LEMMA InputsDoneKeeps ==
    ASSUME IInv, InputsDone
    PROVE  IInv'
<1>1. /\ inputs' \in {"coming", "done", "none"}
      /\ UNCHANGED <<mode, last, mpc, mainvars, servervars, term, net, slow>>
    BY DEF InputsDone
<1> QED BY <1>1 DEF IInv

LEMMA StartKeeps ==
    ASSUME IInv, Start
    PROVE  IInv'
BY DEF IInv, Start

LEMMA GoKeeps ==
    ASSUME IInv, Go
    PROVE  IInv'
BY AppendFacts DEF IInv, Go, Command

LEMMA ReceiveNothingKeeps ==
    ASSUME IInv, ReceiveNothing
    PROVE  IInv'
BY DEF IInv, ReceiveNothing

LEMMA ReceiveTimeoutKeeps ==
    ASSUME IInv, ReceiveTimeout
    PROVE  IInv'
BY DEF IInv, ReceiveTimeout

LEMMA CheckKeeps ==
    ASSUME IInv, Check
    PROVE  IInv'
BY DEF IInv, Check

LEMMA ExecuteEndsKeeps ==
    ASSUME IInv, ExecuteEnds
    PROVE  IInv'
BY DEF IInv, ExecuteEnds

LEMMA ExecuteFailsKeeps ==
    ASSUME IInv, ExecuteFails
    PROVE  IInv'
BY DEF IInv, ExecuteFails

LEMMA InitialisedKeeps ==
    ASSUME IInv, Initialised
    PROVE  IInv'
BY DEF IInv, Initialised

LEMMA ComputedKeeps ==
    ASSUME IInv, Computed
    PROVE  IInv'
BY DEF IInv, Computed

LEMMA ConnectsKeeps ==
    ASSUME IInv, Connects
    PROVE  IInv'
BY DEF IInv, Connects

LEMMA StopsKeeps ==
    ASSUME IInv, Stops
    PROVE  IInv'
BY DEF IInv, Stops

LEMMA ExitsKeeps ==
    ASSUME IInv, Exits
    PROVE  IInv'
BY DEF IInv, Exits

HIDE DEF Typed, Off, Preparing, Going, Checking, Receiving, Accepting, Commanded, Left, LeftWell,
        Ended, Signalled

LEMMA StepKeeps ==
    ASSUME IInv, [Next]_vars
    PROVE  IInv'
<1>1. CASE Main
    BY <1>1, InputsDoneKeeps, StartKeeps, ExecuteKeeps, GoKeeps, ReceiveKeeps, ReceiveNothingKeeps,
       ReceiveTimeoutKeeps, AcceptKeeps, ExitedKeeps, CheckKeeps, ExecuteEndsKeeps,
       ExecuteFailsKeeps, ServerEndKeeps, JoinKeeps DEF Main
<1>2. CASE Server
    BY <1>2, InitialisedKeeps, ComputedKeeps, ConnectsKeeps, ObeysKeeps, StopsKeeps, ExitsKeeps,
       TerminatedKeeps DEF Server
<1>3. CASE UNCHANGED vars
    BY <1>3 DEF vars, IInv, Typed, Off, Preparing, Going, Checking, Receiving, Accepting, Commanded,
       Left, LeftWell, Ended, Signalled
<1> QED BY <1>1, <1>2, <1>3 DEF Next, Loops, Stutter

LEMMA IInvAlways == Spec => []IInv
<1>1. Init => IInv
    <2>1. Init => step \in 0..K /\ computed \in 0..K /\ last \in 0..K
        BY DEF Init
    <2>2. Init => Typed
        BY <2>1 DEF Init, Typed
    <2>3. Init => Off /\ Preparing /\ Going /\ Checking /\ Receiving /\ Accepting /\ Commanded
        BY DEF Init, Off, Preparing, Going, Checking, Receiving, Accepting, Commanded
    <2>4. Init => Left /\ LeftWell /\ Ended /\ Signalled
        BY DEF Init, Left, LeftWell, Ended, Signalled
    <2> QED BY <2>2, <2>3, <2>4 DEF IInv, Init
<1> QED BY <1>1, StepKeeps, PTL DEF Spec

--------------------------------------------------------------------------------
(***************************************************************************)
(* The theorems.                                                           *)
(***************************************************************************)

\* The variables keep their types: the connection never holds more than a step that was
\* not answered in time and the stop that follows it.
THEOREM TypesKept == Spec => []TypeOK
<1>1. IInv => TypeOK
    <2>1. msgs \in Sent => msgs \in Seq({"STEP", "STOP"})
        BY SentIsSeq
    <2>2. msgs \in Sent => Len(msgs) <= 2
        <3>1. Len(<<>>) <= 2 /\ Len(<<"STEP">>) <= 2 /\ Len(<<"STOP">>) <= 2 /\ Len(<<"STEP", "STOP">>) <= 2
            BY SentIsSeq
        <3> QED BY <3>1
    <2> HIDE DEF Sent
    <2> QED BY <2>1, <2>2 DEF IInv, Typed, TypeOK
<1> QED BY <1>1, IInvAlways, PTL

\* Whatever the number of steps, the time each side takes and the point where the server
\* fails or is not heard in time, the server computes the step that was prepared, apart
\* from the main process, which finds that step computed when it prepares the next one
\* (algo/serversynctools.py:160, algo/components.py:1013).
THEOREM StepByStep == Spec => []InStep
<1>1. IInv => InStep
    BY DEF IInv, Typed, InStep, Preparing, Going, Checking, Receiving, Accepting, Commanded, Left
<1> QED BY <1>1, IInvAlways, PTL

\* A coupling that ends without an exception has computed all its steps, and no component
\* ends without one when its server has failed on its own account.
THEOREM NoStepMissing == Spec => []SuccessMeansDone
<1>1. IInv => SuccessMeansDone
    BY DEF IInv, Typed, SuccessMeansDone, LeftWell, Ended
<1> QED BY <1>1, IInvAlways, PTL

--------------------------------------------------------------------------------
(***************************************************************************)
(* The two processes, step by step, implement Rounds.                      *)
(***************************************************************************)
\* A step that neither computes, nor ends the main process, nor changes its place
LEMMA Unseen ==
    ASSUME UNCHANGED <<step, computed, mode>>, AtFiles' = AtFiles,
           (spc = "compute")' = (spc = "compute"), Verdict' = Verdict
    PROVE  UNCHANGED R!vars
BY DEF R!vars

LEMMA PreparesAStep ==
    ASSUME IInv, mpc = "prepare", step < K, step' = step + 1, mpc' # "over",
           UNCHANGED <<mode, computed>>, spc' # "compute"
    PROVE  R!Prepare
<1>1. spc # "compute" /\ computed = step
    BY DEF IInv, Preparing
<1> QED BY <1>1 DEF R!Prepare, AtFiles, Verdict

LEMMA GoesAway ==
    ASSUME AtFiles, ~AtFiles', mpc' # "over", UNCHANGED <<mode, step, computed, spc>>
    PROVE  R!Leave
BY DEF R!Leave, AtFiles, Verdict

LEMMA ComesBack ==
    ASSUME mpc = "accept", AtFiles', UNCHANGED <<mode, step, computed, spc>>, spc # "compute"
    PROVE  R!Return
BY DEF R!Return, AtFiles, Verdict

LEMMA Concludes ==
    ASSUME IInv, mpc \in {"end", "join", "recv"}, mpc' = "over", result' \in {"ok", "raised"},
           result' = "ok" => result = "ok" /\ Leaving,
           UNCHANGED <<mode, step, computed, spc>>
    PROVE  R!Conclude(result')
<1>1. Verdict = "none" /\ Verdict' = result' /\ ~AtFiles /\ ~AtFiles'
    BY DEF Verdict, AtFiles
<1>2. result' = "ok" /\ mode = "coupling" => computed = K
    BY DEF IInv, LeftWell
<1>3. UNCHANGED <<step, computed, AtFiles, spc = "compute", mode = "coupling">>
    BY DEF AtFiles
<1> QED BY <1>1, <1>2, <1>3 DEF R!Conclude

LEMMA MainTakesTurns ==
    ASSUME IInv, Main
    PROVE  [R!Next]_(R!vars)
<1> USE DEF R!Next
<1>1. K \in Nat \ {0} /\ step \in 0..K /\ result \in {"ok", "raised"} /\ mode \in {"coupling", "fpserver"}
    BY DEF IInv, Typed
<1>2. CASE Start
    <2>1. CASE mode = "coupling"
        <3>1. step = 0
            BY <1>2 DEF Start, IInv, Off
        <3>2. R!Prepare
            BY <1>1, <1>2, <2>1, <3>1, PreparesAStep DEF Start
        <3> QED BY <3>2
    <2>2. CASE mode = "fpserver"
        <3>1. step' = step
            BY <1>2, <2>2 DEF Start, IInv, Off
        <3>2. R!Leave
            BY <1>2, <3>1 DEF Start, R!Leave, AtFiles, Verdict
        <3> QED BY <3>2
    <2> QED BY <1>1, <2>1, <2>2
<1>3. CASE Execute
    <2>1. spc' # "compute" /\ mpc' # "over"
        BY <1>3 DEF Execute, Command, IInv, Preparing
    <2>2. step \in 0..K /\ last \in 0..K /\ step < last
        BY <1>3 DEF Execute, IInv, Typed
    <2>3. R!Prepare
        BY <1>1, <1>3, <2>1, <2>2, PreparesAStep DEF Execute
    <2> QED BY <2>3
<1>4. CASE Go
    <2>1. AtFiles /\ ~AtFiles' /\ mpc' # "over" /\ UNCHANGED <<mode, step, computed, spc>>
        BY <1>4 DEF Go, Command, AtFiles
    <2> QED BY <2>1, GoesAway
<1>5. CASE Receive
    <2>1. UNCHANGED <<mode, step, computed, spc>> /\ mpc = "recv" /\ mpc' \in {"accept", "join"}
        BY <1>5 DEF Receive
    <2> QED BY <2>1, Unseen DEF AtFiles, Verdict
<1>6. CASE ReceiveNothing \/ ReceiveTimeout
    <2>1. /\ UNCHANGED <<mode, step, computed, spc>> /\ mpc = "recv" /\ result' = "raised"
          /\ mpc' = "over" \/ mpc' = "end"
        BY <1>6 DEF ReceiveNothing, ReceiveTimeout
    <2>2. CASE mpc' = "over"
        BY <2>1, <2>2, Concludes
    <2>3. CASE mpc' = "end"
        BY <2>1, <2>3, Unseen DEF AtFiles, Verdict
    <2> QED BY <2>1, <2>2, <2>3
<1>7. CASE Accept
    <2>1. UNCHANGED <<mode, step, computed, spc>> /\ mpc = "accept" /\ AtFiles' /\ pending
        BY <1>7 DEF Accept, AtFiles
    <2>2. spc # "compute"
        BY <2>1 DEF IInv
    <2> QED BY <2>1, <2>2, ComesBack
<1>8. CASE Exited
    <2>1. /\ UNCHANGED <<mode, step, computed, spc>> /\ mpc = "accept" /\ spc # "compute"
          /\ mpc' = "end" \/ mpc' = "check"
        BY <1>8 DEF Exited
    <2>2. CASE mpc' = "end"
        BY <2>1, <2>2, Unseen DEF AtFiles, Verdict
    <2>3. CASE mpc' = "check"
        BY <2>1, <2>3, ComesBack DEF AtFiles
    <2> QED BY <2>1, <2>2, <2>3
<1>9. CASE Check
    <2>1. UNCHANGED <<mode, step, computed, spc>> /\ mpc = "check" /\ mpc' \in {"prepare", "end"}
        BY <1>9 DEF Check
    <2>2. CASE mpc' = "end"
        BY <2>1, <2>2, GoesAway DEF AtFiles
    <2>3. CASE mpc' = "prepare"
        BY <2>1, <2>3, Unseen DEF AtFiles, Verdict
    <2> QED BY <2>1, <2>2, <2>3
<1>10. CASE ExecuteEnds \/ ExecuteFails
    <2>1. UNCHANGED <<mode, step, computed, spc>> /\ mpc = "prepare" /\ mpc' = "end"
        BY <1>10 DEF ExecuteEnds, ExecuteFails
    <2> QED BY <2>1, GoesAway DEF AtFiles
<1>11. CASE ServerEnd
    <2>1. /\ UNCHANGED <<mode, step, computed, spc>> /\ mpc = "end"
          /\ \/ mpc' = "recv"
             \/ mpc' = "over" /\ result' \in {result, "raised"}
        BY <1>11 DEF ServerEnd, Command
    <2>2. CASE mpc' = "recv"
        BY <2>1, <2>2, Unseen DEF AtFiles, Verdict
    <2>3. CASE mpc' = "over"
        BY <1>1, <2>1, <2>3, Concludes
    <2> QED BY <2>1, <2>2, <2>3
<1>12. CASE Join
    <2>1. /\ UNCHANGED <<mode, step, computed, spc>> /\ mpc = "join" /\ mpc' = "over"
          /\ result' \in {result, "raised"}
        BY <1>12 DEF Join
    <2> QED BY <1>1, <2>1, Concludes
<1>13. CASE InputsDone
    <2>1. UNCHANGED <<mode, step, computed, mpc, spc, result>>
        BY <1>13 DEF InputsDone
    <2> QED BY <2>1, Unseen DEF AtFiles, Verdict
<1> QED BY <1>2, <1>3, <1>4, <1>5, <1>6, <1>7, <1>8, <1>9, <1>10, <1>11, <1>12, <1>13 DEF Main

LEMMA ServerTakesTurns ==
    ASSUME IInv, Server
    PROVE  [R!Next]_(R!vars)
<1> USE DEF R!Next
<1>1. InStep /\ step \in 0..K /\ computed \in 0..K
    BY DEF IInv, Typed, InStep, Preparing, Going, Checking, Receiving, Accepting, Commanded, Left
<1>2. UNCHANGED <<mode, mpc, step, result>>
    BY DEF Server, Initialised, Computed, Connects, Obeys, Stops, Exits, Terminated
<1>3. AtFiles' = AtFiles /\ Verdict' = Verdict
    BY <1>2 DEF AtFiles, Verdict
<1>4. CASE UNCHANGED computed /\ (spc' = "compute" <=> spc = "compute")
    BY <1>2, <1>3, <1>4, Unseen
<1>5. CASE spc = "compute" /\ spc' # "compute" /\ computed' \in {computed, computed + 1}
    <2>1. computed' \in {computed, step}
        BY <1>1, <1>5 DEF InStep
    <2>2. R!End
        BY <1>2, <1>3, <1>5, <2>1 DEF R!End
    <2> QED BY <2>2
<1>6. CASE Obeys /\ spc' = "compute"
    <2>1. spc = "asking" /\ UNCHANGED computed
        BY <1>6 DEF Obeys
    <2>2. InStep'
        <3>1. IInv'
            BY <1>6, ObeysKeeps
        <3> QED BY <3>1 DEF IInv, Typed, InStep, Preparing, Going, Checking, Receiving, Accepting,
                    Commanded, Left
    <2>3. R!Begin
        BY <1>2, <1>3, <1>6, <2>1, <2>2 DEF R!Begin, InStep, AtFiles
    <2> QED BY <2>3
<1>7. \/ UNCHANGED computed /\ (spc' = "compute" <=> spc = "compute")
      \/ spc = "compute" /\ spc' # "compute" /\ computed' \in {computed, computed + 1}
      \/ Obeys /\ spc' = "compute"
    BY DEF Server, Initialised, Computed, Connects, Obeys, Stops, Exits, Terminated
<1> QED BY <1>4, <1>5, <1>6, <1>7

\* Whatever the number of steps and the kind of component, the main process and its server
\* take turns in the working directory, one step at a time, and a coupling that answers
\* well has computed them all: the synchronisation implements Rounds.
THEOREM SynchronisationIsRounds == Spec => TakesTurns
<1>1. Init => R!Init
    BY DEF Init, R!Init, AtFiles, Verdict
<1>2. IInv /\ [Next]_vars => [R!Next]_(R!vars)
    <2>1. CASE UNCHANGED vars
        <3>1. UNCHANGED <<step, computed, mode, mpc, spc, result>>
            BY <2>1 DEF vars
        <3> QED BY <3>1, Unseen DEF AtFiles, Verdict
    <2> QED BY <2>1, MainTakesTurns, ServerTakesTurns DEF Next, Loops, Stutter
<1> QED BY <1>1, <1>2, IInvAlways, PTL DEF Spec, TakesTurns, R!Spec
=================================================================================

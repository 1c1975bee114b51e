-------------------------------- MODULE FtpClient --------------------------------
(***************************************************************************)
(* The FTP clients of tools.net: PooledResetableAutoRetriesFtp and the     *)
(* FtpConnectionPool that lends it to one user after the other.            *)
(*                                                                         *)
(* Each method is wrapped: it is tried again after an error, on a new      *)
(* connection.  The connection, the login and the return to the working    *)
(* directory are themselves wrapped methods, called when they are needed   *)
(* by the method being tried, so that a call is a stack of wrappers, which *)
(* share one budget of tries (_internal_retries_max).  The server, or the  *)
(* network, may refuse a command or cut the connection at any time.        *)
(***************************************************************************)
EXTENDS Integers, Sequences

CONSTANTS
    RetryDefault, RetryLogin, RetryConnect,   \* tries of the wrapped methods
    Streams,      \* some transfers are from or to a pipe (a compressed file)
    MaxLease,     \* bound: users, one after the other
    NoBudget      \* None, for the budget

ASSUME FtpClientAssumption ==
    /\ RetryDefault \in Nat \ {0} /\ RetryLogin \in Nat \ {0} /\ RetryConnect \in Nat \ {0}
    /\ Streams \in BOOLEAN /\ MaxLease \in Nat
ASSUME NoBudgetAssumption == NoBudget \notin Int

VARIABLES
    conn,      \* _internal_ftp: "none", "open" (connected), "logged"
    alive,     \* the server still knows of the connection
    dir,       \* the working directory of the connection, on the server
    cwd,       \* _cwd: the directory that the client records, or ""
    initial,   \* _initialpath is set
    budget,    \* _internal_retries_max, NoBudget for None
    stack,     \* the wrapped methods being called, the innermost last
    exc,       \* the exception that goes up the stack, or "none"
    user,      \* what the user does: "away", "deals", "holds", "calls"
    pooled,    \* the client exists and is in the pool
    place,     \* the directory that the user works in
    taken,     \* data of the stream of the transfer were consumed
    leases,
    answer,    \* history: how the last call ended
    told,      \* history: the last transfer was whole
    wrong,     \* history: why transfers were made elsewhere than asked
    lost,      \* history: a return to the working directory has failed
    midway,    \* history: a put has stopped while it made directories
    called,    \* history: the method called
    errors     \* history: errors met by the call

session == <<conn, alive, dir>>
record == <<cwd, initial>>
remembered == <<answer, told, wrong, lost, midway, called>>
ftpvars == <<session, record, budget, stack, exc, user, pooled, place, taken, leases, remembered, errors>>

Transfers == {"get", "put"}
Commands == {"get", "put", "cwd", "pwd"}
Methods == Commands \cup {"login", "connect", "reach"}
Dirs == {"home", "work", "mid"}

Smaller(a, b) == IF a < b THEN a ELSE b
Tries(m) == CASE m \in Commands -> RetryDefault
              [] m \in {"login", "reach"} -> RetryLogin
              [] m = "connect" -> RetryConnect
\* The exceptions of ftplib and of sockets that a wrapper catches: "temp" is for
\* error_temp, error_proto and error_reply, "perm" for error_perm, "sock" for a
\* socket.error, a "timeout" is one, "eof" for EOFError
Catches(m) == {"temp"} \cup CASE m \in Transfers \cup {"pwd"} -> {"sock", "timeout"}
                              [] m = "cwd"     -> {}
                              [] m = "login"   -> {"perm", "sock", "timeout", "eof"}
                              [] m = "reach"   -> {"perm", "sock", "timeout"}
                              [] m = "connect" -> {"timeout"}

FtpInit ==
    /\ conn = "none" /\ alive = FALSE /\ dir = "home"
    /\ cwd = "" /\ initial = FALSE
    /\ budget = NoBudget /\ stack = <<>> /\ exc = "none"
    /\ user = "away" /\ pooled = FALSE /\ place = "home" /\ taken = FALSE /\ leases = 0
    /\ answer = "none" /\ called = "login" /\ told = TRUE /\ wrong = {} /\ lost = FALSE /\ midway = FALSE
    /\ errors = 0

Top == stack[Len(stack)]
Below == SubSeq(stack, 1, Len(stack) - 1)
Running(m) == stack # <<>> /\ exc = "none" /\ Top.method = m
At(p) == Top.at = p

(***************************************************************************)
(* retries_wrapper: the outermost wrapper of a call sets the budget; the   *)
(* others take what is left of it, and at least one try.                   *)
(***************************************************************************)
Budget(m) == IF budget = NoBudget THEN Tries(m) ELSE budget
Share_Own(m) == Tries(m)
Share(m) == LET left == Smaller(Budget(m), Tries(m)) IN IF left < 1 THEN 1 ELSE left

Frame(m, d) == [method |-> m, left |-> Share(m), driver |-> budget = NoBudget,
                to |-> d, at |-> "start", skip |-> FALSE]
Push(s, m, d) == stack' = Append(s, Frame(m, d)) /\ budget' = Budget(m)
Moved(p) == [stack EXCEPT ![Len(stack)].at = p]
Released_Never(f) == budget
Released(f) == IF f.driver THEN NoBudget ELSE budget
Less(n) == n - 1

Remains_Budget(f) == Smaller(Less(f.left), Less(budget))
Remains(f) == Less(f.left)

Return == stack' = Below /\ budget' = Released(Top) /\ UNCHANGED exc
Raise(e) == exc' = e /\ errors' = errors + 1 /\ UNCHANGED <<stack, budget>>

\* An error goes up: it is caught and the method is tried again, on a new
\* connection, or it goes further up
Caught == exc \in Catches(Top.method)
Unwind ==
    /\ exc # "none" /\ stack # <<>>
    /\ LET left == IF Caught THEN Remains(Top) ELSE 0
           spent == IF Caught THEN Less(budget) ELSE budget
       IN  \/ /\ left > 0
              /\ conn' = "none" /\ exc' = "none"
              /\ stack' = [stack EXCEPT ![Len(stack)].left = left, ![Len(stack)].at = "start"]
              /\ budget' = spent /\ UNCHANGED lost
           \/ /\ left <= 0
              /\ stack' = Below
              /\ budget' = IF Top.driver THEN Released(Top) ELSE spent
              /\ lost' = (lost \/ (Top.method = "cwd" /\ Below # <<>>))
              /\ UNCHANGED <<conn, exc>>
    /\ UNCHANGED <<alive, dir, record, user, pooled, place, taken, leases,
                   answer, told, wrong, midway, called, errors>>

Fails(e) == e \in {"sock", "eof", "timeout"} => alive' = FALSE
CommandErrors == {"temp", "perm", "sock", "eof"}
ConnectErrors == CommandErrors \cup {"timeout"}

(***************************************************************************)
(* The connection: _loginlike_extended_ftp ("reach") for the login that a  *)
(* command needs, _extended_ftp ("connect") for a login tried again.       *)
(***************************************************************************)
Connect ==
    /\ Running("reach") \/ Running("connect")
    /\ \/ /\ conn' = "open" /\ alive' = TRUE /\ dir' = "home"
          /\ Return /\ UNCHANGED errors
       \/ \E e \in ConnectErrors : Raise(e) /\ UNCHANGED session
    /\ UNCHANGED <<record, user, pooled, place, taken, leases, remembered>>

\* A command logs in first: delayedlogin
NeedsLogin ==
    /\ \E m \in Commands : Running(m)
    /\ conn # "logged"
    /\ Push(stack, IF conn = "none" THEN "reach" ELSE "login", "")
    /\ UNCHANGED <<session, record, exc, user, pooled, place, taken, leases, remembered, errors>>

(***************************************************************************)
(* ResetableAutoRetriesFtp._actual_login: log in, go back to the working   *)
(* directory, which cwd records anew, or else ask for the initial one.     *)
(***************************************************************************)
LogIn ==
    /\ Running("login") /\ At("start")
    /\ \/ /\ conn = "none" /\ Push(stack, "connect", "")
          /\ UNCHANGED <<session, exc, midway, errors>>
       \/ /\ conn # "none"
          /\ \/ /\ alive /\ conn' = "logged" /\ dir' = "home" /\ midway' = FALSE
                /\ stack' = [Moved("cwd") EXCEPT ![Len(stack)].skip = initial /\ cwd # ""]
                /\ UNCHANGED <<alive, budget, exc, errors>>
             \/ \E e \in IF alive THEN CommandErrors ELSE CommandErrors \ {"perm"} :
                  /\ Raise(e) /\ alive' \in {alive, FALSE} /\ Fails(e)
                  /\ UNCHANGED <<conn, dir, midway>>
    /\ UNCHANGED <<record, user, pooled, place, taken, leases, answer, told, wrong, lost, called>>

Restores_Never == FALSE
Restores == cwd # ""

GoBack ==
    /\ Running("login") /\ At("cwd")
    /\ \/ Restores /\ Push(Moved("pwd"), "cwd", cwd) /\ cwd' = ""
       \/ ~Restores /\ stack' = Moved("pwd") /\ UNCHANGED <<cwd, budget>>
    /\ UNCHANGED <<session, initial, exc, user, pooled, place, taken, leases, remembered, errors>>

AskInitial ==
    /\ Running("login") /\ At("pwd")
    /\ IF Top.skip THEN Return ELSE Push(Moved("end"), "pwd", "") /\ UNCHANGED exc
    /\ UNCHANGED <<session, record, user, pooled, place, taken, leases, remembered, errors>>

LoggedIn ==
    /\ Running("login") /\ At("end")
    /\ initial' = TRUE /\ Return
    /\ UNCHANGED <<session, cwd, user, pooled, place, taken, leases, remembered, errors>>

(***************************************************************************)
(* The commands, once logged in.                                           *)
(***************************************************************************)
Refused ==
    \E e \in IF alive THEN CommandErrors ELSE CommandErrors \ {"perm"} :
        Raise(e) /\ alive' \in {alive, FALSE} /\ Fails(e)

Pwd ==
    /\ Running("pwd") /\ conn = "logged"
    /\ \/ alive /\ Return /\ UNCHANGED <<alive, errors>>
       \/ Refused
    /\ UNCHANGED <<conn, dir, record, user, pooled, place, taken, leases, remembered>>

Cwd ==
    /\ Running("cwd") /\ conn = "logged"
    /\ \/ /\ alive /\ dir' = Top.to /\ cwd' = Top.to
          /\ Return /\ UNCHANGED <<alive, errors>>
       \/ Refused /\ UNCHANGED <<dir, cwd>>
    /\ UNCHANGED <<conn, initial, user, pooled, place, taken, leases, remembered>>

\* ExtendedFtplib.get and put.  A file is opened at each try and its size is
\* compared at the end; a stream goes on from where it is, and is not checked.
\* put makes the directories of its destination one by one, going into each.
Transfer(m) ==
    /\ Running(m) /\ conn = "logged"
    /\ \/ /\ alive
          /\ \E whole \in BOOLEAN :
              /\ told' = IF Top.to = "stream" THEN ~taken ELSE whole
              /\ answer' = IF whole \/ Top.to = "stream" THEN "true" ELSE "false"
          /\ wrong' = wrong \cup IF dir = place THEN {}
                               ELSE {IF lost THEN "lost" ELSE IF midway THEN "midway" ELSE "other"}
          /\ Return /\ UNCHANGED <<alive, dir, taken, midway, errors>>
       \/ /\ Refused
          /\ \/ taken' = (taken \/ Top.to = "stream") /\ UNCHANGED <<dir, midway>>
             \/ /\ m = "put" /\ dir' = "mid" /\ midway' = TRUE
                /\ UNCHANGED taken
          /\ UNCHANGED <<answer, told, wrong>>
    /\ UNCHANGED <<conn, record, user, pooled, place, leases, lost, called>>

(***************************************************************************)
(* The users.  deal takes the client of the pool and resets it, or makes   *)
(* one, then logs in; close gives the client back to the pool.             *)
(***************************************************************************)
Call(m, d) ==
    /\ Push(<<>>, m, d)
    /\ errors' = 0 /\ taken' = FALSE /\ answer' = "none" /\ called' = m /\ UNCHANGED exc

Resets_Never == FALSE
Resets == initial /\ cwd # ""

Deal ==
    /\ user = "away" /\ leases < MaxLease /\ leases' = leases + 1
    /\ place' = "home" /\ lost' = FALSE /\ pooled' = FALSE /\ user' = "deals"
    /\ IF pooled
       THEN /\ UNCHANGED <<session, initial, midway>>
            /\ IF Resets THEN cwd' = "" /\ Call("cwd", "home")
               ELSE UNCHANGED <<cwd, budget, stack, exc, errors, taken, answer, called>>
       ELSE /\ conn' = "none" /\ cwd' = "" /\ initial' = FALSE /\ midway' = FALSE
            /\ UNCHANGED <<alive, dir>>
            /\ Call("login", "")
    /\ UNCHANGED <<told, wrong>>

\* deal ends: delayedlogin, unless the client is logged in
Dealt ==
    /\ user = "deals" /\ stack = <<>> /\ exc = "none"
    /\ IF conn = "logged" THEN user' = "holds" /\ UNCHANGED <<budget, stack, errors, taken, answer, called>>
       ELSE UNCHANGED user /\ Call("login", "")
    /\ UNCHANGED <<session, record, exc, pooled, place, leases, told, wrong, lost, midway>>

Cd ==
    /\ user = "holds" /\ place = "home"
    /\ user' = "calls" /\ place' = "work" /\ Call("cwd", "work")
    /\ UNCHANGED <<session, record, pooled, leases, told, wrong, lost, midway>>

Ask(m) ==
    /\ user = "holds" /\ user' = "calls"
    /\ \E kind \in {"file"} \cup (IF Streams THEN {"stream"} ELSE {}) : Call(m, kind)
    /\ UNCHANGED <<session, record, pooled, place, leases, told, wrong, lost, midway>>

Close ==
    /\ user' = "away" /\ pooled' = (conn # "none")
    /\ exc' = "none"

Ends ==
    /\ user = "calls" /\ stack = <<>>
    /\ IF exc = "none" THEN user' = "holds" /\ UNCHANGED <<pooled, exc, answer>>
       ELSE answer' = exc /\ Close
    /\ UNCHANGED <<session, record, budget, stack, place, taken, leases, told, wrong, lost, midway, called, errors>>

GiveBack ==
    /\ user = "holds" /\ Close
    /\ UNCHANGED <<session, record, budget, stack, place, taken, leases, remembered, errors>>

\* deal raises: the client is out of the pool, and nobody has it
NotDealt ==
    /\ user = "deals" /\ stack = <<>> /\ exc # "none"
    /\ user' = "away" /\ answer' = exc /\ exc' = "none"
    /\ UNCHANGED <<session, record, budget, stack, pooled, place, taken, leases, told, wrong, lost, midway, called, errors>>

\* External: the server drops a connection that is not used
Drop ==
    /\ stack = <<>> /\ alive /\ alive' = FALSE
    /\ UNCHANGED <<conn, dir, record, budget, stack, exc, user, pooled, place, taken, leases, remembered, errors>>

FtpStep == Unwind \/ Connect \/ NeedsLogin \/ LogIn \/ GoBack \/ AskInitial \/ LoggedIn
          \/ Pwd \/ Cwd \/ (\E m \in Transfers : Transfer(m)) \/ Dealt \/ NotDealt \/ Ends
FtpNext == FtpStep \/ Deal \/ Cd \/ (\E m \in Transfers : Ask(m)) \/ GiveBack \/ Drop

FtpSpec == FtpInit /\ [][FtpNext]_ftpvars

(***************************************************************************)
(* Properties                                                              *)
(***************************************************************************)
FtpTypeOK ==
    /\ conn \in {"none", "open", "logged"} /\ alive \in BOOLEAN /\ dir \in Dirs
    /\ cwd \in {"", "home", "work"} /\ initial \in BOOLEAN
    /\ budget \in Int \cup {NoBudget}
    /\ \A i \in DOMAIN stack : stack[i].method \in Methods /\ stack[i].left \in 1..Tries(stack[i].method)
    /\ exc \in {"none", "temp", "perm", "sock", "timeout", "eof"}
    /\ user \in {"away", "deals", "holds", "calls"} /\ pooled \in BOOLEAN
    /\ place \in {"home", "work"} /\ taken \in BOOLEAN /\ leases \in 0..MaxLease

\* A transfer answered true is whole: a file is opened anew at each try and its
\* size is compared.  It does not hold of a stream, which cannot be rewound: a
\* try that follows an interrupted one sends what is left of it (net.py:317, 365).
WholeFile == answer = "true" => told

\* A transfer is made in the directory its user works in, whatever happened to
\* the connection since: each new login goes back there, and the next user of a
\* client of the pool finds it where a new one is.  Two ways to lose the directory
\* are told apart: see the next two (net.py:845, 998).
RightPlace == "other" \notin wrong

\* "Dispensed objects can either be new object or re-used pre-existing ones: this
\* makes no differences for the caller since re-used object are properly reseted"
\* (net.py:1045): the directory where the put of a former user stopped is not undone,
\* for reset looks at _cwd only.
ReusedLikeNew == "midway" \notin wrong

\* A login corrects the working directory "if needed" (net.py:839): _cwd is
\* forgotten before the return is done, and a second try of login does not know it.
CwdKept == "lost" \notin wrong

\* Between two calls no budget is left behind, which would starve the next (net.py:923)
BudgetReleased == stack = <<>> => budget = NoBudget

\* A call gives up on an error that it retries only after as many errors as it has
\* tries: the tries that connections and logins consume are not taken from its own
\* (net.py:894).
GivesUpLate == (stack = <<>> /\ exc \in Catches(called)) => errors >= Tries(called)

\* However the server behaves, the errors of a call, and with them the delays it
\* sleeps for, are bounded by the square of the tries of the method called: a wrapper
\* called by another is never given more than what is left.  Without the shared budget
\* a login that asks for its directory would log in again, and again, without an end
\* (net.py:894, 907).
BoundedTries == errors <= Tries(called) * Tries(called)

=================================================================================

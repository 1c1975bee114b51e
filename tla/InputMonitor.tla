----------------------------- MODULE InputMonitor -----------------------------
(***************************************************************************)
(* The input monitor of vortex.layout.monitor (ManualInputMonitor): a      *)
(* background process crawls over the sections that are still unknown      *)
(* ("ufo") or promised ("expected"), fetches what has become available and *)
(* reports every change on a queue; the main process replays the queue on  *)
(* its own copy of the table whenever the user asks something, and hands   *)
(* the fetched entries out.                                                *)
(*                                                                         *)
(* Since the updater is a forked process, the table of entries exists      *)
(* twice.  Each copy is an EntrySt per key and the rank of the key in the  *)
(* insertion order; the ordered dictionary _members[s] of the code is the  *)
(* set of keys in state s, taken by increasing rank.                       *)
(*                                                                         *)
(* The producers of the promised resources (other jobs) are the            *)
(* environment: they keep a promise, renege on it, or promise again.       *)
(*                                                                         *)
(* Every entry has a container of its own, as it has among the effective   *)
(* inputs that FullPosServer hands to its monitor.                         *)
(***************************************************************************)
EXTENDS EntryStates, Integers, Sequences, FiniteSets

CONSTANTS
    N,             \* number of targets
    Threshold,     \* _crawling_threshold
    Fatal,         \* the keys whose section has fatal=True
    Alternates,    \* the keys whose section is an alternate got with insitu=False
    InitStages,    \* the stages a section may have when the monitor is built
    MaxRepromise,  \* bound: how many times a producer promises again
    MaxNews        \* bound: results unread when a crawl starts

Keys == 1..N
Stages == {"void", "expected", "get"}

ASSUME NAssumption == N \in Nat \ {0}
ASSUME ThresholdAssumption == Threshold \in Nat \ {0}
ASSUME FatalAssumption == Fatal \subseteq Keys
ASSUME AlternatesAssumption == Alternates \subseteq Keys
ASSUME StagesAssumption == InitStages \subseteq Stages
ASSUME RepromiseAssumption == MaxRepromise \in Nat
ASSUME NewsAssumption == MaxNews \in Nat

VARIABLES
    res,        \* per key: state of the resource in the cache (producers)
    repromised, \* how many promises were made again so far
    local,      \* per key: what the local container holds
    cpc,        \* background process: control point
    cst, cat,   \* background process: its copy of the table (state and rank)
    todo,       \* background process: keys left to crawl in the current list
    stack,      \* background process: result_stack
    kidx,       \* background process: kangaroo_idx
    kincr, visited, found,  \* background process: counters of one crawl
    mpqueue, mpquit, mperror,   \* the multiprocessing objects
    ppc,        \* main process: control point
    pst, pat    \* main process: its copy of the table

envvars == <<res, repromised>>
crawlvars == <<todo, kincr, visited, found>>
ctable == <<cst, cat>>
ptable == <<pst, pat>>
childvars == <<local, cpc, ctable, crawlvars, stack, kidx>>
parentvars == <<ppc, ptable>>
vars == <<envvars, childvars, mpqueue, mpquit, mperror, parentvars>>

ResSt == {"promised", "kept", "broken"}
LocalSt == {"nothing", "promise", "data"}
Crawling == {"loop", "ufo", "exp", "check", "get1", "get2", "raising", "apply"}
ChildPC == Crawling \cup {"exited", "killed"}
ParentPC == {"idle", "refresh", "join", "stopped", "raised"}
Results == [key : Keys, prev : EntrySt, state : EntrySt]

Alive == cpc \in Crawling

(***************************************************************************)
(* The ordered dictionaries.                                               *)
(***************************************************************************)
Members(st, s) == {k \in Keys : st[k] = s}

\* 0-based position of k in the ordered dictionary it belongs to
Pos(st, at, k) == Cardinality({j \in Members(st, st[k]) : at[j] < at[k]})

\* the key the current iteration of a crawl is about: the next one in the order
\* of the dictionary
Current(k) == k \in todo /\ \A j \in todo : cat[k] <= cat[j]

MoveToEnd(at, k) ==
    [j \in Keys |-> IF j = k THEN N
                    ELSE IF at[j] > at[k] THEN at[j] - 1 ELSE at[j]]

\* _key_update: pop from the previous state's dictionary; when it was there,
\* append to the new one
StateAfter(st, r) ==
    IF st[r.key] = r.prev THEN [st EXCEPT ![r.key] = r.state] ELSE st
RankAfter(st, at, r) ==
    IF st[r.key] = r.prev THEN MoveToEnd(at, r.key) ELSE at

(***************************************************************************)
(* Initial states: __init__ (the classification of the targets) and start. *)
(***************************************************************************)
MapStages == [expected |-> "expected", get |-> "available"]

FindState_PromiseIsEnough(stage, onfails) ==
    IF stage = "void" THEN onfails ELSE "available"
FindState(stage, onfails) ==
    IF stage \in DOMAIN MapStages THEN MapStages[stage] ELSE onfails

\* what a section of that stage has left in its container
LocalOf(stage) ==
    IF stage = "get" THEN "data"
    ELSE IF stage = "expected" THEN "promise" ELSE "nothing"

Init ==
    /\ res \in [Keys -> ResSt]
    /\ repromised = 0
    /\ \E stage \in [Keys -> InitStages] :
          /\ cst = [k \in Keys |-> FindState(stage[k], "ufo")]
          /\ local = [k \in Keys |-> LocalOf(stage[k])]
    /\ cat = [k \in Keys |-> k]
    /\ pst = cst /\ pat = cat
    /\ cpc = "loop" /\ ppc = "idle"
    /\ todo = {} /\ stack = <<>>
    /\ kidx = 0 /\ kincr = 0 /\ visited = 0 /\ found = 0
    /\ mpqueue = <<>> /\ mpquit = FALSE /\ mperror = FALSE

(***************************************************************************)
(* The producers.                                                          *)
(***************************************************************************)
Keep(k) ==
    /\ res[k] = "promised"
    /\ res' = [res EXCEPT ![k] = "kept"]
    /\ UNCHANGED <<repromised, childvars, mpqueue, mpquit, mperror, parentvars>>

Renege(k) ==
    /\ res[k] = "promised"
    /\ res' = [res EXCEPT ![k] = "broken"]
    /\ UNCHANGED <<repromised, childvars, mpqueue, mpquit, mperror, parentvars>>

\* A producer that is run again: PromiseStore.put without a local file puts the
\* promise and deletes the resource
Repromise(k) ==
    /\ repromised < MaxRepromise
    /\ res[k] # "promised"
    /\ res' = [res EXCEPT ![k] = "promised"]
    /\ repromised' = repromised + 1
    /\ UNCHANGED <<childvars, mpqueue, mpquit, mperror, parentvars>>

(***************************************************************************)
(* The background process: _background_updater.                            *)
(***************************************************************************)
FirstUfo == {k \in Members(cst, "ufo") : Pos(cst, cat, k) < Threshold}

\* exp_compress: the first Threshold elements, and the rotating window
InWindow(i) == i - kidx >= 0 /\ i - kidx < Threshold
ChosenExpected ==
    {k \in Members(cst, "expected") :
        LET p == Pos(cst, cat, k) IN p < Threshold \/ InWindow(p - Threshold)}

Kangaroo(k) == Pos(cst, cat, k) >= Threshold

childSide == <<mpquit, mperror, envvars, parentvars>>

LoopExit_ExpectedForgotten ==
    /\ cpc = "loop"
    /\ mpquit \/ Members(cst, "ufo") = {}
    /\ cpc' = "exited"
    /\ UNCHANGED <<local, ctable, crawlvars, stack, kidx, mpqueue, childSide>>
LoopExit ==
    /\ cpc = "loop"
    /\ \/ mpquit
       \/ Members(cst, "ufo") \cup Members(cst, "expected") = {}
    /\ cpc' = "exited"
    /\ UNCHANGED <<local, ctable, crawlvars, stack, kidx, mpqueue, childSide>>

\* The caching frequency only delays this step
StartRound ==
    /\ cpc = "loop" /\ ~mpquit
    /\ Members(cst, "ufo") \cup Members(cst, "expected") # {}
    /\ Len(mpqueue) <= MaxNews
    /\ cpc' = "ufo"
    /\ todo' = FirstUfo
    /\ stack' = <<>>
    /\ UNCHANGED <<local, ctable, kincr, visited, found, kidx, mpqueue,
                   childSide>>

UfoNext ==
    /\ cpc = "ufo" /\ todo # {} /\ ~mpquit
    /\ cpc' = "get1"
    /\ UNCHANGED <<local, ctable, crawlvars, stack, kidx, mpqueue, childSide>>

UfoDone ==
    /\ cpc = "ufo"
    /\ todo = {} \/ mpquit
    /\ cpc' = "exp"
    /\ todo' = ChosenExpected
    /\ kincr' = 0 /\ visited' = 0 /\ found' = 0
    /\ UNCHANGED <<local, ctable, stack, kidx, mpqueue, childSide>>

EnoughFound == 2 * found > Threshold

\* kangaroo_idx is updated before the results are applied.  Below -Threshold the
\* window is empty for good, and all values are the same
Lowest == -Threshold - 1
NextKidx(incr) ==
    LET new == kidx + incr - visited
    IN  IF new > Cardinality(Members(cst, "expected")) - Threshold - 1 THEN 0
        ELSE IF new < Lowest THEN Lowest ELSE new

\* (the variables of the crawl, dead from now on, are cleared)
ExpDone(incr) ==
    /\ kidx' = NextKidx(kincr + incr)
    /\ cpc' = "apply"
    /\ todo' = {} /\ kincr' = 0 /\ visited' = 0 /\ found' = 0
    /\ UNCHANGED <<local, ctable, stack, mpqueue, childSide>>

ExpEnd ==
    /\ cpc = "exp"
    /\ todo = {} \/ mpquit
    /\ ExpDone(0)

\* "avoid harassment": the counter was already incremented for this element
ExpHarassment(k) ==
    /\ cpc = "exp" /\ ~mpquit /\ Current(k)
    /\ Kangaroo(k) /\ EnoughFound
    /\ ExpDone(1)

\* is_grabable: is the promise file still there ?
ExpLook(k) ==
    /\ cpc = "exp" /\ ~mpquit /\ Current(k)
    /\ ~(Kangaroo(k) /\ EnoughFound)
    /\ kincr' = kincr + (IF Kangaroo(k) THEN 1 ELSE 0)
    /\ IF res[k] = "promised"
       THEN /\ todo' = todo \ {k}
            /\ UNCHANGED <<cpc, visited>>
       ELSE /\ cpc' = "check"
            /\ visited' = visited + 1
            /\ UNCHANGED todo
    /\ UNCHANGED <<local, ctable, found, stack, kidx, mpqueue, childSide>>

\* The end of an iteration: the result goes to the queue and to the stack
Report_OnlyAvailable(k, state) ==
    LET r == [key |-> k, prev |-> cst[k], state |-> state]
    IN  /\ mpqueue' = IF state = "available" THEN Append(mpqueue, r) ELSE mpqueue
        /\ stack' = Append(stack, r)
        /\ todo' = todo \ {k}
        /\ cpc' = IF cst[k] = "ufo" THEN "ufo" ELSE "exp"
Report(k, state) ==
    LET r == [key |-> k, prev |-> cst[k], state |-> state]
    IN  /\ mpqueue' = Append(mpqueue, r)
        /\ stack' = Append(stack, r)
        /\ todo' = todo \ {k}
        /\ cpc' = IF cst[k] = "ufo" THEN "ufo" ELSE "exp"

\* is_grabable(check_exists=True)
ExpCheck(k) ==
    /\ cpc = "check" /\ Current(k)
    /\ \/ /\ res[k] = "kept"
          /\ cpc' = "get1"
          /\ UNCHANGED <<todo, stack, mpqueue>>
       \/ /\ res[k] # "kept"
          /\ Report(k, "failed")
    /\ UNCHANGED <<local, ctable, kincr, visited, found, kidx, childSide>>

\* An alternate whose container exists is not fetched: Handler.get answers yes
\* and leaves the stage of the section as it is, that of a promise for instance
AlternateHeld(k) == k \in Alternates /\ local[k] # "nothing"
StageLeft(k) == IF cst[k] = "expected" THEN "expected" ELSE "void"
GetNothing(k) ==
    /\ cpc = "get1" /\ Current(k) /\ AlternateHeld(k)
    /\ Report(k, FindState(StageLeft(k), "failed"))
    /\ found' = found + (IF cst[k] = "expected" THEN 1 ELSE 0)
    /\ UNCHANGED <<local, ctable, kincr, visited, kidx, childSide>>

\* section.get with a promise store looks for a promise first ...
GetPromise(k) ==
    /\ cpc = "get1" /\ Current(k) /\ ~AlternateHeld(k)
    /\ \/ /\ res[k] = "promised"
          /\ local' = [local EXCEPT ![k] = "promise"]
          /\ found' = found + (IF cst[k] = "expected" THEN 1 ELSE 0)
          /\ Report(k, FindState("expected", "failed"))
       \/ /\ res[k] # "promised"
          /\ cpc' = "get2"
          /\ UNCHANGED <<local, found, todo, stack, mpqueue>>
    /\ UNCHANGED <<ctable, kincr, visited, kidx, childSide>>

\* ... and for the resource itself afterwards.  A section that is fatal raises
\* when there is none.
GetOther(k) ==
    /\ cpc = "get2" /\ Current(k)
    /\ \/ /\ res[k] = "kept"
          /\ local' = [local EXCEPT ![k] = "data"]
          /\ Report(k, FindState("get", "failed"))
          /\ found' = found + (IF cst[k] = "expected" THEN 1 ELSE 0)
       \/ /\ res[k] # "kept" /\ k \notin Fatal
          /\ Report(k, FindState("void", "failed"))
          /\ found' = found + (IF cst[k] = "expected" THEN 1 ELSE 0)
          /\ UNCHANGED local
       \/ /\ res[k] # "kept" /\ k \in Fatal
          /\ cpc' = "raising"
          /\ UNCHANGED <<local, found, todo, stack, mpqueue>>
    /\ UNCHANGED <<ctable, kincr, visited, kidx, childSide>>

\* One turn of "for r in result_stack: self._key_update(r)"
Apply ==
    /\ cpc = "apply"
    /\ IF stack # <<>>
       THEN /\ cst' = StateAfter(cst, Head(stack))
            /\ cat' = RankAfter(cst, cat, Head(stack))
            /\ stack' = Tail(stack)
            /\ UNCHANGED cpc
       ELSE /\ cpc' = "loop"
            /\ UNCHANGED <<ctable, stack>>
    /\ UNCHANGED <<local, crawlvars, kidx, mpqueue, childSide>>

\* _background_updater_job: the exception is caught, the flag set, and the
\* process ends
JobFails ==
    /\ cpc = "raising"
    /\ cpc' = "exited"
    /\ mperror' = TRUE
    /\ UNCHANGED <<local, ctable, crawlvars, stack, kidx, mpqueue, mpquit,
                   envvars, parentvars>>

Child ==
    \/ LoopExit \/ StartRound \/ UfoNext \/ UfoDone
    \/ ExpEnd \/ Apply \/ JobFails
    \/ \E k \in Keys :
          \/ ExpHarassment(k) \/ ExpLook(k) \/ ExpCheck(k)
          \/ GetNothing(k) \/ GetPromise(k) \/ GetOther(k)

(***************************************************************************)
(* The main process.                                                       *)
(***************************************************************************)
parentSide == <<childvars, envvars>>

\* _refresh, its first lines: an error of the background process is raised
Ask ==
    /\ ppc = "idle" /\ ~mperror
    /\ ppc' = "refresh"
    /\ UNCHANGED <<ptable, mpqueue, mpquit, mperror, parentSide>>

\* With an error, _refresh calls stop, which sets mpquit and joins when the
\* process is still there, and raises in any case
AskRaises ==
    /\ ppc = "idle" /\ mperror
    /\ IF Alive
       THEN ppc' = "join" /\ mpquit' = TRUE
       ELSE ppc' = "raised" /\ UNCHANGED mpquit
    /\ UNCHANGED <<ptable, mpqueue, mperror, parentSide>>

Receive ==
    /\ ppc = "refresh" /\ mpqueue # <<>>
    /\ pst' = StateAfter(pst, Head(mpqueue))
    /\ pat' = RankAfter(pst, pat, Head(mpqueue))
    /\ mpqueue' = Tail(mpqueue)
    /\ UNCHANGED <<ppc, mpquit, mperror, parentSide>>

\* get_nowait sees an empty queue.  What the background process has put may
\* still be in the buffer of its feeder thread, as long as it lives
Return ==
    /\ ppc = "refresh"
    /\ mpqueue = <<>> \/ Alive
    /\ ppc' = "idle"
    /\ UNCHANGED <<ptable, mpqueue, mpquit, mperror, parentSide>>

\* pop_available: popitem(last=False)
PopAvailable_Last ==
    /\ ppc = "refresh"
    /\ mpqueue = <<>> \/ Alive
    /\ \E k \in Members(pst, "available") :
          /\ \A j \in Members(pst, "available") : pat[k] >= pat[j]
          /\ pst' = [pst EXCEPT ![k] = "popped"]
    /\ ppc' = "idle"
    /\ UNCHANGED <<pat, mpqueue, mpquit, mperror, parentSide>>
PopAvailable ==
    /\ ppc = "refresh"
    /\ mpqueue = <<>> \/ Alive
    /\ \E k \in Members(pst, "available") :
          /\ \A j \in Members(pst, "available") : pat[k] <= pat[j]
          /\ pst' = [pst EXCEPT ![k] = "popped"]
    /\ ppc' = "idle"
    /\ UNCHANGED <<pat, mpqueue, mpquit, mperror, parentSide>>

Stop ==
    /\ ppc = "idle"
    /\ IF Alive
       THEN ppc' = "join" /\ mpquit' = TRUE
       ELSE ppc' = "stopped" /\ UNCHANGED mpquit
    /\ UNCHANGED <<ptable, mpqueue, mperror, parentSide>>

Joined ==
    /\ ppc = "join" /\ ~Alive
    /\ ppc' = IF mperror THEN "raised" ELSE "stopped"
    /\ UNCHANGED <<ptable, mpqueue, mpquit, mperror, parentSide>>

\* join(5) elapsed: terminate.  The signal is intercepted by the updater, which
\* may still set the error flag; what its feeder thread held is lost
Terminate ==
    /\ ppc = "join" /\ Alive
    /\ cpc' = "killed"
    /\ mperror' \in {mperror, TRUE}
    /\ \E n \in 0..Len(mpqueue) : mpqueue' = SubSeq(mpqueue, 1, n)
    /\ UNCHANGED <<local, ctable, crawlvars, stack, kidx, envvars, mpquit,
                   parentvars>>

Parent ==
    \/ Ask \/ AskRaises \/ Receive \/ Return \/ PopAvailable
    \/ Stop \/ Joined \/ Terminate

Producers == \E k \in Keys : Keep(k) \/ Renege(k) \/ Repromise(k)

\* The monitor was stopped: nothing more has to happen
Finished ==
    /\ ppc \in {"stopped", "raised"}
    /\ UNCHANGED vars

Next == Child \/ Parent \/ Producers \/ Finished

Spec == Init /\ [][Next]_vars

(***************************************************************************)
(* Fairness.  The background process is a loop that sleeps 0.25 s between  *)
(* two turns and whose steps all end; the user polls the monitor, and a    *)
(* poll drains the queue, into which the feeder thread puts everything in  *)
(* the end.  Nobody else is obliged to act, except, in PatientSpec, the    *)
(* producers: a promise is kept or withdrawn some day.                     *)
(***************************************************************************)
ChildFairness == WF_vars(Child)
PollFairness ==
    /\ WF_vars(Ask \/ AskRaises)
    /\ WF_vars(Return \/ PopAvailable)
    /\ WF_vars(Joined)
    /\ SF_vars(Receive)
ProducerFairness == \A k \in Keys : WF_vars(Keep(k) \/ Renege(k))

FairSpec == Spec /\ ChildFairness /\ PollFairness
PatientSpec == FairSpec /\ ProducerFairness

\* The background process and the producers alone, while nobody polls
CrawlSpec == Init /\ [][Child \/ Producers]_vars /\ ChildFairness

(***************************************************************************)
(* Invariants.                                                             *)
(***************************************************************************)
\* Type invariant of the two processes and of the queue between them
TypeOK ==
    /\ res \in [Keys -> ResSt] /\ repromised \in 0..MaxRepromise
    /\ local \in [Keys -> LocalSt]
    /\ cpc \in ChildPC /\ ppc \in ParentPC
    /\ cst \in [Keys -> EntrySt] /\ cat \in [Keys -> 1..N]
    /\ pst \in [Keys -> EntrySt \cup {"popped"}] /\ pat \in [Keys -> 1..N]
    /\ todo \subseteq Keys
    /\ kidx \in Int /\ kincr \in Nat /\ visited \in Nat /\ found \in Nat
    /\ stack \in Seq(Results) /\ mpqueue \in Seq(Results)
    /\ mpquit \in BOOLEAN /\ mperror \in BOOLEAN

Settled == {"available", "failed"}
Silent(q, k) == \A i \in DOMAIN q : q[i].key # k
IsFirst(q, i) == \A j \in 1..i-1 : q[j].key # q[i].key
IsLast(q, i) == \A j \in i+1..Len(q) : q[j].key # q[i].key
Follows(q, i, j) ==
    /\ i < j /\ q[i].key = q[j].key
    /\ \A l \in i+1..j-1 : q[l].key # q[j].key

\* What the main process knows of k; a popped entry was available
Known(k) == IF pst[k] = "popped" THEN "available" ELSE pst[k]

\* s is the last state the background process reported for k (its own table is
\* only updated at the end of the crawl)
Reported(k, s) ==
    /\ Silent(stack, k) => s = cst[k]
    /\ \A i \in DOMAIN stack : stack[i].key = k => s = stack[i].state

\* Every result that waits in the queue starts from the state the previous one,
\* or the table of the main process, leaves its entry in: the pop(key, None)
\* of _key_update never answers None, and no news is dropped.
NoResultDropped ==
    \A i \in DOMAIN mpqueue :
        /\ IsFirst(mpqueue, i) => Known(mpqueue[i].key) = mpqueue[i].prev
        /\ \A j \in DOMAIN mpqueue :
              Follows(mpqueue, i, j) => mpqueue[i].state = mpqueue[j].prev

\* The two copies of the table agree up to what is in flight: the main process'
\* copy with the queue played over it is the background process' copy with
\* result_stack played over it (unless a kill has lost messages).
CopiesAgree ==
    cpc # "killed" =>
        \A k \in Keys :
            /\ Silent(mpqueue, k) => Reported(k, Known(k))
            /\ \A i \in DOMAIN mpqueue :
                  mpqueue[i].key = k /\ IsLast(mpqueue, i)
                      => Reported(k, mpqueue[i].state)

\* What the monitor gives as available is a fetched file: not a promise, not
\* the remains of a failed get, whatever the producers did meanwhile.
AvailableIsFetched ==
    \A k \in Keys : pst[k] \in {"available", "popped"} => local[k] = "data"

\* Entries are handed out in the order the background process found them, in
\* spite of the table that is only brought up to date at the end of a crawl.
HandedOutInOrder ==
    \A a, b \in Keys :
        /\ pst[a] = "popped" /\ pst[b] # "popped"
        /\ cst[a] = "available" /\ cst[b] = "available"
        => cat[a] < cat[b]

\* all_done is the truth: when the main process sees neither ufo nor expected
\* entries, the background process has no entry left to look for.
AllDone == \A k \in Keys : pst[k] \notin {"ufo", "expected"}
AllDoneIsTrue ==
    AllDone => \A k \in Keys : \E s \in Settled : Reported(k, s)

\* What the main process is told of an entry goes forward, one piece of news at a time,
\* and ends when it is available or failed, although a promise may be made again.
Teller == INSTANCE EntryNews WITH Subjects <- Keys, state <- [k \in Keys |-> Known(k)]
TellsNews == Teller!Spec

(***************************************************************************)
(* The strengthening of these invariants that is inductive.                *)
(***************************************************************************)
Pending == {"ufo", "expected"}

\* result_stack holds one result per key, from the state the key still has
StackFaithful ==
    \A i \in DOMAIN stack :
        /\ stack[i].prev = cst[stack[i].key] /\ stack[i].prev \in Pending
        /\ \A j \in DOMAIN stack : stack[j].key = stack[i].key => j = i

\* What is left to crawl was not crawled in this round
TodoFresh == \A k \in todo : Silent(stack, k) /\ cst[k] \in Pending

\* The expected entries are only crawled when all the ufo entries were
UfoRound ==
    /\ \A k \in todo : cst[k] = "ufo"
    /\ \A i \in DOMAIN stack : stack[i].prev = "ufo"
ExpectedRound == \A k \in todo : cst[k] = "expected"
Phases ==
    /\ cpc = "loop" => stack = <<>>
    /\ cpc = "ufo" => UfoRound
    /\ cpc \in {"exp", "check"} => ExpectedRound
    /\ cpc \in {"get1", "get2"} => UfoRound \/ ExpectedRound

DataIsReported == \A k \in Keys : local[k] = "data" => Reported(k, "available")

QueueIsFetched ==
    \A i \in DOMAIN mpqueue :
        /\ mpqueue[i].prev \in Pending
        /\ mpqueue[i].state = "available" => local[mpqueue[i].key] = "data"

IInv ==
    /\ TypeOK /\ StackFaithful /\ TodoFresh /\ Phases
    /\ DataIsReported /\ QueueIsFetched /\ AvailableIsFetched
    /\ NoResultDropped /\ CopiesAgree

(***************************************************************************)
(* Action properties.                                                      *)
(***************************************************************************)
\* A file that was fetched is never overwritten or fetched again, although its
\* producer may promise it again.
FetchedForGood ==
    [][\A k \in Keys : local[k] = "data" => local'[k] = "data"]_vars

\* Once ordered to stop, the updater starts no new get: it ends the one it is in.
NoGetAfterQuit ==
    [][mpquit /\ cpc \notin {"check", "get1", "get2"}
        => cpc' \notin {"check", "get1", "get2"}]_vars

(***************************************************************************)
(* Liveness.                                                               *)
(***************************************************************************)
\* An order to stop ends the background process, without terminate.
QuitHonoured == mpquit ~> ~Alive

\* If every promise is kept or withdrawn, the user who polls ends up (unless he
\* stops, or gets the error) with nothing to wait for but the alternates that were
\* promised and are there: those the updater finds for ever and never gets.
OnlyAlternatesWait ==
    <>[](\/ ppc \in {"join", "stopped", "raised"}
         \/ \A k \in Keys : pst[k] \in Pending => k \in Alternates /\ res[k] = "kept")

\* monitor.py:189-193: the first Threshold inputs are always checked and "an
\* additional batch" of others is checked "in a round robin manner", so a
\* resource that is there is found some day even when other promises are not
\* kept.
RoundRobin ==
    \A k \in Keys :
        res[k] = "kept" ~> (cst[k] \in Settled \/ mpquit \/ ~Alive)
===============================================================================

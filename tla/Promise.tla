--------------------------------- MODULE Promise ---------------------------------
(***************************************************************************)
(* The promise protocol, for one resource.  A job that is going to produce *)
(* a resource first puts a promise (PromiseStore.put without a local file):*)
(* a small file in the promise cache, next to the "other" store that will  *)
(* hold the resource.  Consumers look for the promise first, then for the  *)
(* resource; a consumer that finds the promise is "expected" and polls     *)
(* until the promise goes away.  There is no lock: both sides make file    *)
(* operations, each of them atomic, one after the other.                   *)
(*                                                                         *)
(* The jobs 1, 2, ... are successive runs of the producer: each starts     *)
(* when the previous one has ended or died.  A job that fails clears the   *)
(* promises its tracker lists (toolbox.rescue); a job that is killed does  *)
(* nothing more.  A job may also end well without having kept its promise: *)
(* it never made the file (the put of an expected file that does not exist *)
(* only promises it again, and succeeds), or the put of the file failed in *)
(* a section that is not fatal.                                            *)
(***************************************************************************)
EXTENDS Integers, FiniteSets

CONSTANTS
    NbJobs,      \* number of runs of the producer
    Desc,        \* per job: the description in its promise file
    Consumers,
    Patient,     \* the consumers that wait through an input monitor: no limit
    MaxPolls     \* Handler.wait: number of polls before it gives up

Jobs == 1..NbJobs
None == 0

ASSUME NbJobsAssumption == NbJobs \in Nat \ {0}
ASSUME DescAssumption == Desc \in [Jobs -> Nat \ {None}]
ASSUME PatientAssumption == Patient \subseteq Consumers
ASSUME MaxPollsAssumption == MaxPolls \in Nat

VARIABLES
    prom,     \* the promise file: None or its description
    data,     \* the resource in the other store: None or the job that made it
    jpc,      \* per job: control point
    left,     \* per job: the promise is among the puts its tracker lists
    cpc,      \* per consumer: control point
    polls,    \* per consumer: nb, in Handler.wait
    got,      \* per consumer: the version of the data it has fetched
    kept,     \* history: the jobs that have stored the resource
    told,     \* history, per consumer: the last job whose promise it has seen
    hole      \* history, per consumer: since its get or wait began, there was a
              \* moment with neither promise nor resource nor job that has made
              \* its promise, or the resource was withdrawn by a new promise

files == <<prom, data>>
jobvars == <<jpc, left>>
consvars == <<cpc, polls, got, told>>
vars == <<files, jobvars, consvars, kept, hole>>

JobPC == {"idle", "check", "load", "write", "erase", "work", "store", "drop", "clear",
          "over", "unkept", "dead"}
ConsPC == {"idle", "get1", "get2", "expected", "remote", "got", "missed", "timedout", "empty"}
InGet == {"get1", "get2", "expected", "remote"}

Ended(j) == jpc[j] \in {"over", "unkept", "dead"}
Running(j) == jpc[j] # "idle" /\ ~Ended(j)

Init ==
    /\ prom = None /\ data = None
    /\ jpc = [j \in Jobs |-> "idle"]
    /\ left = [j \in Jobs |-> FALSE]
    /\ cpc = [c \in Consumers |-> "idle"]
    /\ polls = [c \in Consumers |-> 0]
    /\ got = [c \in Consumers |-> None]
    /\ told = [c \in Consumers |-> None]
    /\ kept = {}
    /\ hole = [c \in Consumers |-> FALSE]

\* bookkeeping of the history variable hole, part of every step
HasPromised(j) == jpc[j] \in {"erase", "work", "store", "drop"}
Nothing == prom = None /\ data = None /\ \A j \in Jobs : ~HasPromised(j)
Withdrawn == data # None /\ data' = None
Watch ==
    hole' = [c \in Consumers |->
               hole[c] \/ (cpc[c] \in InGet /\ (Nothing \/ Withdrawn))]

JobGoes(j, from, to) == jpc[j] = from /\ jpc' = [jpc EXCEPT ![j] = to]

(***************************************************************************)
(* The producer: PromiseStore.put without a local file (or with force).    *)
(***************************************************************************)
Start(j) ==
    /\ JobGoes(j, "idle", "check")
    /\ \A i \in Jobs : i < j => Ended(i)
    /\ UNCHANGED <<files, left, consvars, kept>> /\ Watch

\* promise.check
CheckPromise(j) ==
    /\ JobGoes(j, "check", IF prom = None THEN "write" ELSE "load")
    /\ UNCHANGED <<files, left, consvars, kept>> /\ Watch

\* a promise with the same description is good enough: "just update the tracker"
LoadPromise_NoTrack(j) ==
    /\ JobGoes(j, "load", IF prom = Desc[j] THEN "work" ELSE "write")
    /\ UNCHANGED <<files, left, consvars, kept>> /\ Watch
LoadPromise(j) ==
    /\ JobGoes(j, "load", IF prom = Desc[j] THEN "work" ELSE "write")
    /\ left' = [left EXCEPT ![j] = prom = Desc[j]]
    /\ UNCHANGED <<files, consvars, kept>> /\ Watch

\* promise.put
WritePromise(j) ==
    /\ JobGoes(j, "write", "erase")
    /\ prom' = Desc[j]
    /\ left' = [left EXCEPT ![j] = TRUE]
    /\ UNCHANGED <<data, consvars, kept>> /\ Watch

\* other.delete
EraseOld(j) ==
    /\ JobGoes(j, "erase", "work")
    /\ data' = None
    /\ UNCHANGED <<prom, left, consvars, kept>> /\ Watch

(***************************************************************************)
(* The producer: the computation, and PromiseStore.put of a local file.    *)
(***************************************************************************)
Compute(j) ==
    /\ \E to \in {"store", "clear", "unkept"} : JobGoes(j, "work", to)
    /\ UNCHANGED <<files, left, consvars, kept>> /\ Watch

\* other.put: one that fails may have stored the file (in a part of a multistore)
Stored(j) == data' = j /\ kept' = kept \cup {j}
PutFails(j) ==
    /\ \E to \in {"clear", "unkept"} : JobGoes(j, "store", to)
    /\ Stored(j) \/ UNCHANGED <<data, kept>>
Store_DropFirst(j) ==
    \/ /\ JobGoes(j, "store", "drop")
       /\ prom' = None
       /\ UNCHANGED <<data, left, consvars, kept>> /\ Watch
    \/ /\ jpc[j] = "drop" /\ data # j
       /\ data' = j
       /\ kept' = kept \cup {j}
       /\ UNCHANGED <<prom, jpc, left, consvars>> /\ Watch
Store(j) ==
    /\ (JobGoes(j, "store", "drop") /\ Stored(j)) \/ PutFails(j)
    /\ UNCHANGED <<prom, left, consvars>> /\ Watch

\* promise.delete: the tracker forgets the put
Drop_Forgotten(j) ==
    /\ JobGoes(j, "drop", "over")
    /\ UNCHANGED <<prom, data, left, consvars, kept>> /\ Watch
Drop(j) ==
    /\ JobGoes(j, "drop", "over")
    /\ prom' = None
    /\ left' = [left EXCEPT ![j] = FALSE]
    /\ UNCHANGED <<data, consvars, kept>> /\ Watch

\* Context.clear_promises
ClearPromises(j) ==
    /\ JobGoes(j, "clear", "over")
    /\ prom' = IF left[j] THEN None ELSE prom
    /\ left' = [left EXCEPT ![j] = FALSE]
    /\ UNCHANGED <<data, consvars, kept>> /\ Watch

Die(j) ==
    /\ Running(j)
    /\ jpc' = [jpc EXCEPT ![j] = "dead"]
    /\ UNCHANGED <<files, left, consvars, kept>> /\ Watch

(***************************************************************************)
(* The consumers: PromiseStore.get and Handler.wait.                       *)
(***************************************************************************)
Goes(c, from, to) == cpc[c] = from /\ cpc' = [cpc EXCEPT ![c] = to]

Latest(j) == jpc[j] # "idle" /\ \A i \in Jobs : i > j => jpc[i] = "idle"

Get(c) ==
    /\ Goes(c, "idle", "get1")
    /\ UNCHANGED <<files, jobvars, polls, got, told, kept>> /\ Watch

\* promise.get: the promise file is copied in the container
GetPromise(c) ==
    /\ IF prom # None
       THEN /\ Goes(c, "get1", "expected")
            /\ \E j \in Jobs : Latest(j) /\ told' = [told EXCEPT ![c] = j]
            /\ polls' = [polls EXCEPT ![c] = 0]
       ELSE /\ Goes(c, "get1", "get2")
            /\ UNCHANGED <<told, polls>>
    /\ UNCHANGED <<files, jobvars, got, kept>> /\ Watch

\* other.get
GetOther(c) ==
    /\ Goes(c, "get2", IF data # None THEN "got" ELSE "missed")
    /\ got' = [got EXCEPT ![c] = data]
    /\ UNCHANGED <<files, jobvars, polls, told, kept>> /\ Watch

\* wait, is_grabable: as long as the promise file exists, sleep and try again ...
Poll(c) ==
    /\ IF prom = None THEN Goes(c, "expected", "remote") /\ UNCHANGED polls
       ELSE IF c \in Patient THEN cpc[c] = "expected" /\ UNCHANGED <<cpc, polls>>
       ELSE /\ Goes(c, "expected", IF polls[c] = MaxPolls THEN "timedout" ELSE "expected")
            /\ polls' = [polls EXCEPT ![c] = IF @ = MaxPolls THEN @ ELSE @ + 1]
    /\ UNCHANGED <<files, jobvars, got, told, kept>> /\ Watch

\* ... then look whether the resource is there: if so the user calls get again
LookRemote(c) ==
    /\ Goes(c, "remote", IF data # None THEN "get1" ELSE "empty")
    /\ UNCHANGED <<files, jobvars, polls, got, told, kept>> /\ Watch

Finished ==
    /\ \A j \in Jobs : Ended(j)
    /\ \A c \in Consumers : cpc[c] \notin InGet \cup {"idle"}
    /\ UNCHANGED vars

JobStep(j) ==
    \/ CheckPromise(j) \/ LoadPromise(j) \/ WritePromise(j) \/ EraseOld(j)
    \/ Compute(j) \/ Store(j) \/ Drop(j) \/ ClearPromises(j)
ConsStep(c) == GetPromise(c) \/ GetOther(c) \/ Poll(c) \/ LookRemote(c)

Next ==
    \/ \E j \in Jobs : Start(j) \/ JobStep(j) \/ Die(j)
    \/ \E c \in Consumers : Get(c) \/ ConsStep(c)
    \/ Finished

Spec == Init /\ [][Next]_vars

\* a job that runs goes on (or dies), a consumer that waits goes on polling
FairSpec ==
    /\ Spec
    /\ \A j \in Jobs : WF_vars(JobStep(j))
    /\ \A c \in Consumers : WF_vars(ConsStep(c))

-----------------------------------------------------------------------------
(***************************************************************************)
(* Properties.                                                             *)
(***************************************************************************)
TypeOK ==
    /\ prom \in {None} \cup {Desc[j] : j \in Jobs}
    /\ data \in {None} \cup Jobs
    /\ jpc \in [Jobs -> JobPC] /\ left \in [Jobs -> BOOLEAN]
    /\ cpc \in [Consumers -> ConsPC] /\ polls \in [Consumers -> 0..MaxPolls]
    /\ got \in [Consumers -> {None} \cup Jobs]
    /\ told \in [Consumers -> {None} \cup Jobs]
    /\ kept \subseteq Jobs
    /\ hole \in [Consumers -> BOOLEAN]

\* A consumer concludes that there is neither resource nor promise only when that
\* was so at some moment of its get or wait, and no job was working on a promise
\* of its own, or when the resource it was about to fetch was withdrawn by a new
\* promise: the unlocked sequence of reads never falls between the storing of the
\* resource and the removal of the promise.
NoFalseMiss == \A c \in Consumers : cpc[c] \in {"missed", "empty"} => hole[c]

\* When the last job that started has ended by itself, no promise is left if its put
\* was a success or if it was rescued, even when it took over the promise of a job
\* that was killed; if it ended well without keeping its promise, the file left says
\* what it promised, and its tracker still lists it: whoever clears the promises of
\* that job removes it.
NoOrphan ==
    \A j \in Jobs : Latest(j) =>
        /\ jpc[j] = "over" => prom = None
        /\ jpc[j] = "unkept" => prom = Desc[j] /\ left[j]

\* A consumer that was told of the promise of a job that kept it never gets what
\* an earlier job produced.
FreshAfterPromise ==
    \A c \in Consumers :
        cpc[c] = "got" /\ told[c] \in kept => got[c] >= told[c]

\* The resource seen from outside (see Availability).
Avail ==
    IF prom # None THEN "promised" ELSE IF data # None THEN "there" ELSE "absent"
Waiting == {c \in Consumers : cpc[c] = "expected"}
A == INSTANCE Availability WITH avail <- Avail, waiting <- Waiting
ImplementsAvailability == A!Spec

\* A consumer that waits for ever waits for a promise of the last job that started,
\* and that job was killed or ended well without keeping it: what the earlier jobs
\* left behind, and a last job that stored the file or was rescued, block nobody.
NoEndlessWait ==
    \A c \in Consumers :
        \/ []<>(cpc[c] # "expected")
        \/ <>[](\E j \in Jobs : Latest(j) /\ jpc[j] \in {"unkept", "dead"} /\ prom # None)
==================================================================================

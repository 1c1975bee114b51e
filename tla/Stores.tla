--------------------------------- MODULE Stores ---------------------------------
(***************************************************************************)
(* A stack of stores: MultiStore (data.abstractstores) as VortexStore      *)
(* (data.stores) builds it,                                                *)
(*    VortexStore = VortexStoreLegacy, then the "smart" stacked archive,   *)
(*    VortexStoreLegacy (refillstore) = cache.fr, then archive-legacy.fr,  *)
(*    cache.fr = the MTOOL cache, then the stacks of the same cache,       *)
(* and as several jobs of a user use it at once.  A resource is looked for *)
(* in the cache, in the stack (a directory that holds several resources)   *)
(* of the cache, in the archive, in the stack of the archive, the "egg",   *)
(* which is fetched whole in the directory of the job.  What comes from    *)
(* the archive refills the cache, the egg refills the stacks of the cache. *)
(*                                                                         *)
(* Each access to a place shared by the jobs is a step of its own.  Data   *)
(* are abstracted to presence, and a local file to the places it shares an *)
(* inode with.                                                             *)
(***************************************************************************)
EXTENDS Integers, FiniteSets

CONSTANTS
    Jobs,
    Names,        \* resources
    InStack,      \* the resources that have a stack ("stackpath" in the query)
    Tube,         \* how the archive is reached: "ftp" or "inplace"
    Options,      \* what requests ask for: "any", "incache" or "inarchive"
    MaxCalls,     \* bound: requests of all the jobs
    MaxPurge,     \* bound: files that the cleaning of the cache removes
    MaxFault      \* bound: accesses to a place that fail

ASSUME StoresAssumption ==
    /\ InStack \subseteq Names
    /\ Tube \in {"ftp", "inplace"}
    /\ Options \subseteq {"any", "incache", "inarchive"}
    /\ MaxCalls \in Nat /\ MaxPurge \in Nat /\ MaxFault \in Nat

VARIABLES
    cache,      \* resources with a file of their own in the cache
    stack,      \* resources in the stack of the cache
    archive,    \* resources with a file of their own in the archive
    egg,        \* resources in the stack of the archive
    fetchedEgg, \* the jobs that have the egg in their directory
    pc,         \* per job: control point of its request, "rest" between two
    req,        \* per job: its request
    shared,     \* per job: the places its local file shares an inode with
    rc,         \* per job: what the request answers
    calls, purges, faults,
    kept,       \* history: the places that had the resource since the request began
    faulty,     \* history: the places an access of the request failed on
    wrote,      \* history: the places the put of the job has written
    alone,      \* history: the jobs whose request has been the only one on its resource
    gone,       \* history: resources that a delete said removed, until a put begins or a
                \* request that was under way then writes it
    over,       \* history: the jobs whose request was under way when a delete of its
                \* resource was answered
    stacked     \* history: resources put in the stack, not purged since

places == <<cache, stack, archive, egg>>
budget == <<purges, faults>>
history == <<kept, alone, gone, over>>
told == <<faulty, wrote, stacked>>
vars == <<places, fetchedEgg, pc, req, shared, rc, calls, budget, history, told>>

Kinds == {"get", "check", "put", "stackput", "delete"}
Requests == [kind : Kinds, name : Names, intent : {"in", "inout"}, option : Options]

\* The places that have a resource for the stores that a request goes through, a stack being
\* looked in for the resources that have one
Held(n, c, s, a, e) ==
    (IF n \in c THEN {"cache"} ELSE {}) \cup (IF n \in s \cap InStack THEN {"stack"} ELSE {})
      \cup (IF n \in a THEN {"archive"} ELSE {}) \cup (IF n \in e \cap InStack THEN {"egg"} ELSE {})
Having(n) == Held(n, cache, stack, archive, egg)

Name(j) == req[j].name
Asks(j, k) == req[j].kind = k
Stacks(j) == Name(j) \in InStack
\* Store._incache_inarchive_check, in a cache and in an archive
CacheAllowed(j) == req[j].option # "inarchive"
ArchiveAllowed(j) == req[j].option # "incache"
Allowed(j) == (IF CacheAllowed(j) THEN {"cache", "stack"} ELSE {})
                \cup (IF ArchiveAllowed(j) THEN {"archive", "egg"} ELSE {})

Init ==
    /\ cache = {} /\ stack = {}
    /\ archive \in SUBSET Names /\ egg \in SUBSET InStack
    /\ fetchedEgg = {}
    /\ pc = [j \in Jobs |-> "rest"]
    /\ req \in [Jobs -> {[kind |-> "check", name |-> n, intent |-> "in", option |-> "any"] : n \in Names}]
    /\ shared = [j \in Jobs |-> {}] /\ rc = [j \in Jobs |-> TRUE]
    /\ calls = 0 /\ purges = 0 /\ faults = 0
    /\ kept = [j \in Jobs |-> {}] /\ faulty = [j \in Jobs |-> {}]
    /\ wrote = [j \in Jobs |-> {}] /\ alone = {}
    /\ gone = {} /\ over = {} /\ stacked = {}

Goto(j, p) == pc' = [pc EXCEPT ![j] = p] /\ UNCHANGED rc
Answer(j, b) == pc' = [pc EXCEPT ![j] = "rest"] /\ rc' = [rc EXCEPT ![j] = b]
Local(j, with) == shared' = [shared EXCEPT ![j] = with]

\* An access to a place fails: an error of the network, of the disk...
Fault(j, place) ==
    /\ faults < MaxFault /\ faults' = faults + 1
    /\ faulty' = [faulty EXCEPT ![j] = @ \cup {place}]
    /\ UNCHANGED <<purges, wrote, stacked>>
NoFault == UNCHANGED <<budget, told>>

First == [get |-> "cache", check |-> "cache", put |-> "putCache", stackput |-> "putStack",
          delete |-> "deleteCache"]

Call(j) ==
    /\ pc[j] = "rest" /\ calls < MaxCalls /\ calls' = calls + 1
    /\ \E r \in Requests :
        /\ r.kind = "stackput" => r.name \in InStack
        /\ r.kind # "get" => r.intent = "in"
        /\ r.option # "any" => r.kind \in {"get", "put"}
        /\ req' = [req EXCEPT ![j] = r]
        /\ Goto(j, First[r.kind])
    /\ Local(j, {})
    /\ faulty' = [faulty EXCEPT ![j] = {}] /\ wrote' = [wrote EXCEPT ![j] = {}]
    /\ UNCHANGED <<places, fetchedEgg, budget, stacked>>

(***************************************************************************)
(* MultiStore._refilling_get and MultiStore.check: the stores one after    *)
(* the other, the first that has the resource answers.  A file that comes  *)
(* from a cache is a hard link for the intent "in", a copy for "inout".    *)
(***************************************************************************)
LinkTo(j, place) == IF Asks(j, "get") /\ req[j].intent = "in" THEN {place} ELSE {}

LookInCache(j) ==
    /\ pc[j] = "cache"
    /\ \/ /\ CacheAllowed(j) /\ Name(j) \in cache
          /\ Local(j, LinkTo(j, "cache")) /\ Answer(j, TRUE) /\ NoFault
       \/ /\ ~(CacheAllowed(j) /\ Name(j) \in cache)
          /\ Goto(j, IF Stacks(j) THEN "stack" ELSE "archive")
          /\ UNCHANGED shared /\ NoFault
    /\ UNCHANGED <<places, fetchedEgg, req, calls>>

LookInStack(j) ==
    /\ pc[j] = "stack"
    /\ \/ /\ CacheAllowed(j) /\ Name(j) \in stack
          /\ Local(j, LinkTo(j, "cache")) /\ Answer(j, TRUE) /\ NoFault
       \/ /\ ~(CacheAllowed(j) /\ Name(j) \in stack)
          /\ Goto(j, "archive") /\ UNCHANGED shared /\ NoFault
    /\ UNCHANGED <<places, fetchedEgg, req, calls>>

Missed_StopThere(j) == Answer(j, FALSE)
Missed(j) ==
    IF Stacks(j) THEN Goto(j, "egg") ELSE Answer(j, FALSE)

\* Archive._ftpretrieve gives a new file, LocalArchive._inplaceretrieve a link
LookInArchive(j) ==
    /\ pc[j] = "archive"
    /\ \/ /\ ArchiveAllowed(j) /\ Name(j) \in archive
          /\ IF Asks(j, "check")
             THEN Answer(j, TRUE) /\ UNCHANGED shared
             ELSE /\ Local(j, IF Tube = "inplace" THEN {"archive"} ELSE {})
                  /\ Goto(j, "gap")
          /\ NoFault
       \/ ~(ArchiveAllowed(j) /\ Name(j) \in archive) /\ Missed(j) /\ UNCHANGED shared /\ NoFault
       \/ ArchiveAllowed(j) /\ Fault(j, "archive") /\ Missed(j) /\ UNCHANGED shared
    /\ UNCHANGED <<places, fetchedEgg, req, calls>>

(***************************************************************************)
(* The refill of cache.fr, unless another refill has filled the gap; the   *)
(* local file becomes a link of the file in the cache, so that another     *)
(* round is needed when the request wants a file of its own.  A refill     *)
(* that fails is ignored.                                                  *)
(***************************************************************************)
Gap(j) ==
    /\ pc[j] = "gap"
    /\ IF CacheAllowed(j) /\ Having(Name(j)) \cap {"cache", "stack"} # {}
       THEN Answer(j, TRUE) ELSE Goto(j, "refill")
    /\ NoFault
    /\ UNCHANGED <<places, fetchedEgg, req, shared, calls>>

Again_Never(j) == Answer(j, TRUE)
Again(j) == IF req[j].intent = "in" THEN Answer(j, TRUE) ELSE Goto(j, "cache")

Fill_OutOfSight(j) == UNCHANGED cache
Fill(j) == cache' = cache \cup {Name(j)}

Refill(j) ==
    /\ pc[j] = "refill"
    /\ \/ /\ CacheAllowed(j)
          /\ Fill(j)
          /\ Local(j, shared[j] \cup {"cache"}) /\ Again(j)
          /\ UNCHANGED <<stack, archive, egg>> /\ NoFault
       \/ \* Store.put of a store that the options skip
          ~CacheAllowed(j) /\ Again(j) /\ UNCHANGED <<places, shared>> /\ NoFault
       \/ CacheAllowed(j) /\ Fault(j, "cache") /\ Answer(j, TRUE) /\ UNCHANGED <<places, shared>>
    /\ UNCHANGED <<fetchedEgg, req, calls>>

(***************************************************************************)
(* _VortexBaseArchiveStore._vortex_stacked_egg_retrieve: the egg is        *)
(* fetched once in the directory of the job and put each time in the stack *)
(* of the cache.  System.secure_directory_move: the former directory is    *)
(* moved away under a lock, then the new one is moved in; if somebody has  *)
(* made the directory in between, the new one lands inside of it.          *)
(***************************************************************************)
Egg(j) ==
    /\ pc[j] = "egg"
    /\ \/ /\ ArchiveAllowed(j) /\ (j \in fetchedEgg \/ egg # {})
          /\ fetchedEgg' = fetchedEgg \cup {j}
          /\ Goto(j, "eggAway") /\ NoFault
       \/ ~(ArchiveAllowed(j) /\ egg # {}) /\ Answer(j, FALSE) /\ UNCHANGED fetchedEgg /\ NoFault
       \/ /\ ArchiveAllowed(j) /\ j \notin fetchedEgg /\ Fault(j, "egg")
          /\ Answer(j, FALSE) /\ UNCHANGED fetchedEgg
    /\ UNCHANGED <<places, req, shared, calls>>

EggAway(j) ==
    /\ pc[j] = "eggAway"
    /\ \A i \in Jobs : pc[i] # "eggIn"
    /\ \/ stack' = {} /\ Goto(j, "eggIn") /\ NoFault
       \/ UNCHANGED stack /\ Goto(j, "hatch") /\ Fault(j, "stack")
    /\ UNCHANGED <<cache, archive, egg, fetchedEgg, req, shared, calls>>

EggIn(j) ==
    /\ pc[j] = "eggIn"
    /\ \/ stack' = (IF stack = {} THEN egg ELSE stack) /\ NoFault
       \/ UNCHANGED stack /\ Fault(j, "stack")
    /\ Goto(j, "hatch")
    /\ UNCHANGED <<cache, archive, egg, fetchedEgg, req, shared, calls>>

Hatch(j) ==
    /\ pc[j] = "hatch"
    /\ Answer(j, Name(j) \in egg)
    /\ Local(j, LinkTo(j, "cache")) /\ NoFault
    /\ UNCHANGED <<places, fetchedEgg, req, calls>>

(***************************************************************************)
(* MultiStore.put and delete: the cache, then the archive.  A put goes on  *)
(* after a store that answers no, not after an error; a delete stops at    *)
(* the first store that answers no.  A file that is not in the cache is    *)
(* well deleted there, one that is not in the archive is not.              *)
(***************************************************************************)
Written(j, place) ==
    /\ wrote' = [wrote EXCEPT ![j] = @ \cup {place}]
    /\ UNCHANGED <<budget, faulty, stacked>>

Verdict_Last(j) == TRUE
Verdict(j) == rc[j]

PutInCache(j) ==
    /\ pc[j] = "putCache"
    /\ LET on == pc' = [pc EXCEPT ![j] = "putArchive"]
           says(b) == rc' = [rc EXCEPT ![j] = b]
       IN \/ CacheAllowed(j) /\ cache' = cache \cup {Name(j)} /\ Written(j, "cache") /\ on /\ says(TRUE)
          \/ ~CacheAllowed(j) /\ UNCHANGED cache /\ NoFault /\ on /\ says(TRUE)
          \/ CacheAllowed(j) /\ UNCHANGED cache /\ Fault(j, "cache") /\ on /\ says(FALSE)
          \/ CacheAllowed(j) /\ UNCHANGED cache /\ Fault(j, "cache") /\ Answer(j, FALSE)
    /\ UNCHANGED <<stack, archive, egg, fetchedEgg, req, shared, calls>>

PutInArchive(j) ==
    /\ pc[j] = "putArchive"
    /\ \/ /\ ArchiveAllowed(j) /\ archive' = archive \cup {Name(j)}
          /\ Written(j, "archive") /\ Answer(j, Verdict(j))
       \/ ~ArchiveAllowed(j) /\ UNCHANGED archive /\ NoFault /\ Answer(j, Verdict(j))
       \/ ArchiveAllowed(j) /\ UNCHANGED archive /\ Fault(j, "archive") /\ Answer(j, FALSE)
    /\ UNCHANGED <<cache, stack, egg, fetchedEgg, req, shared, calls>>

\* VortexStackStore.put: one store, the stacks of the cache
PutInStack(j) ==
    /\ pc[j] = "putStack"
    /\ \/ /\ CacheAllowed(j) /\ stack' = stack \cup {Name(j)}
          /\ stacked' = stacked \cup {Name(j)}
          /\ Answer(j, TRUE) /\ UNCHANGED <<budget, faulty, wrote>>
       \/ ~CacheAllowed(j) /\ UNCHANGED stack /\ Answer(j, TRUE) /\ NoFault
       \/ CacheAllowed(j) /\ UNCHANGED stack /\ Fault(j, "stack") /\ Answer(j, FALSE)
    /\ UNCHANGED <<cache, archive, egg, fetchedEgg, req, shared, calls>>

Refused_GoesOn(j) == Goto(j, "deleteArchive")
Refused(j) == Answer(j, FALSE)

DeleteInCache(j) ==
    /\ pc[j] = "deleteCache"
    /\ \/ /\ cache' = IF CacheAllowed(j) THEN cache \ {Name(j)} ELSE cache
          /\ Goto(j, "deleteArchive") /\ NoFault
       \/ CacheAllowed(j) /\ UNCHANGED cache /\ Fault(j, "cache") /\ Refused(j)
    /\ UNCHANGED <<stack, archive, egg, fetchedEgg, req, shared, calls>>

DeleteInArchive(j) ==
    /\ pc[j] = "deleteArchive"
    /\ \/ /\ ArchiveAllowed(j) /\ Name(j) \in archive
          /\ archive' = archive \ {Name(j)}
          /\ Answer(j, TRUE) /\ NoFault
       \/ ~ArchiveAllowed(j) /\ UNCHANGED archive /\ Answer(j, TRUE) /\ NoFault
       \/ ArchiveAllowed(j) /\ Name(j) \notin archive /\ UNCHANGED archive /\ Answer(j, FALSE) /\ NoFault
       \/ ArchiveAllowed(j) /\ UNCHANGED archive /\ Fault(j, "archive") /\ Answer(j, FALSE)
    /\ UNCHANGED <<cache, stack, egg, fetchedEgg, req, shared, calls>>

\* The cleaning of the cache, outside of the code: any file may go at any time
Purge ==
    /\ purges < MaxPurge /\ purges' = purges + 1
    /\ \/ \E n \in cache : cache' = cache \ {n} /\ UNCHANGED <<stack, stacked>>
       \/ \E n \in stack : stack' = stack \ {n} /\ stacked' = stacked \ {n} /\ UNCHANGED cache
    /\ UNCHANGED <<archive, egg, fetchedEgg, pc, req, shared, rc, calls, faults, faulty, wrote>>

Request(j) ==
    \/ LookInCache(j) \/ LookInStack(j) \/ LookInArchive(j) \/ Gap(j) \/ Refill(j)
    \/ Egg(j) \/ EggAway(j) \/ EggIn(j) \/ Hatch(j)
    \/ PutInCache(j) \/ PutInArchive(j) \/ PutInStack(j)
    \/ DeleteInCache(j) \/ DeleteInArchive(j)

\* A delete is answered yes.  A resource is gone then unless somebody else has filled the
\* cache again meanwhile
Deleted(j) ==
    /\ pc[j] = "deleteArchive" /\ pc'[j] = "rest" /\ rc'[j]
    /\ CacheAllowed(j) /\ ArchiveAllowed(j)
SaidGone == {Name(j) : j \in {i \in Jobs : Deleted(i) /\ (i \in alone \/ Name(i) \notin cache')}}
PutBegun(n) == \E j \in Jobs : pc[j] = "rest" /\ pc'[j] = "putCache" /\ req'[j].name = n
Back(n) ==
    /\ n \in cache' \cup archive'
    /\ \E j \in over : Name(j) = n /\ pc'[j] # pc[j]

\* What the properties remember
Observe ==
    /\ LET now(j) == Held(req'[j].name, cache', stack', archive', egg')
       IN kept' = [j \in Jobs |->
            IF pc[j] # "rest" THEN kept[j] \cap now(j)
            ELSE IF pc'[j] # "rest" THEN now(j) ELSE kept[j]]
    /\ gone' = {n \in gone \cup SaidGone : ~PutBegun(n) /\ ~Back(n)}
    /\ over' = {j \in Jobs : /\ pc[j] # "rest" /\ pc'[j] # "rest"
                             /\ j \in over \/ \E i \in Jobs : Deleted(i) /\ Name(i) = Name(j)}
    /\ alone' = {j \in Jobs : /\ pc[j] = "rest" \/ j \in alone
                              /\ \A i \in Jobs \ {j} : pc'[i] = "rest" \/ req'[i].name # req'[j].name}

Next == (Purge \/ \E j \in Jobs : Call(j) \/ Request(j)) /\ Observe

\* A request goes on; the jobs and the cleaning do as they like
Fairness == \A j \in Jobs : WF_vars(Request(j) /\ Observe)

Spec == Init /\ [][Next]_vars
LiveSpec == Spec /\ Fairness

--------------------------------------------------------------------------------
Resting(j) == pc[j] = "rest"

TypeOK ==
    /\ cache \in SUBSET Names /\ archive \in SUBSET Names
    /\ stack \in SUBSET Names /\ egg \in SUBSET Names
    /\ fetchedEgg \in SUBSET Jobs
    /\ pc \in [Jobs -> {"rest", "cache", "stack", "archive", "gap", "refill", "egg", "eggAway",
                        "eggIn", "hatch", "putCache", "putArchive", "putStack",
                        "deleteCache", "deleteArchive"}]
    /\ req \in [Jobs -> [kind : Kinds, name : Names, intent : {"in", "inout"},
                         option : Options \cup {"any"}]]
    /\ shared \in [Jobs -> SUBSET {"cache", "archive"}]
    /\ rc \in [Jobs -> BOOLEAN]

(* A get for the intent "inout" that succeeds leaves a file that is no link  *)
(* of a file of the cache or of the archive, whatever the refills did.       *)
OwnCopy ==
    \A j \in Jobs : Resting(j) /\ rc[j] /\ Asks(j, "get") /\ req[j].intent = "inout"
                        => shared[j] = {}

(* A get or a check that says no did not overlook a resource: no place the   *)
(* options allow has had it all along, but one whose access failed.          *)
NoFalseMiss ==
    \A j \in Jobs : Resting(j) /\ ~rc[j] /\ req[j].kind \in {"get", "check"}
                        => (kept[j] \cap Allowed(j)) \ faulty[j] = {}

(* A put that says yes has written every store the options allow: a failure  *)
(* of the cache is not covered by the success of the archive.                *)
PutEverywhere ==
    \A j \in Jobs : Resting(j) /\ rc[j] /\ Asks(j, "put")
                        => {"cache", "archive"} \cap Allowed(j) \subseteq wrote[j]

(* What a delete said removed is in no writeable store, if nobody else was   *)
(* at that resource, or if it was in none when the delete was answered; it   *)
(* comes back by a put that begins later, or by the refill or the put of a   *)
(* request that was under way on it, and never by one that begins after.     *)
DeletedIsGone == gone \cap (cache \cup archive) = {}

(* Every request is answered: the rounds of refills come to an end.          *)
GetEnds == \A j \in Jobs : pc[j] # "rest" ~> pc[j] = "rest"

(* A resource put in the stack stays there until the cleaning removes it:    *)
(* VortexStackStore is "intended to read and write data into VORTEX R&D      *)
(* stacks".  The refill with the egg replaces the whole directory.           *)
StackKept == stacked \subseteq stack \/ \E j \in Jobs : pc[j] = "eggIn"
=================================================================================

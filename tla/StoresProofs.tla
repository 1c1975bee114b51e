------------------------------ MODULE StoresProofs ------------------------------
(***************************************************************************)
(* Safety proofs about a stack of stores, for any number of jobs, of       *)
(* resources, of requests, of files that the cleaning removes and of       *)
(* accesses that fail.                                                     *)
(***************************************************************************)
EXTENDS Stores, TLAPS

Places == {"cache", "stack", "archive", "egg"}
EggPoints == {"egg", "eggAway", "eggIn", "hatch"}
GetPoints == {"cache", "stack", "archive", "gap", "refill"} \cup EggPoints

Typed ==
    /\ DOMAIN pc = Jobs /\ DOMAIN req = Jobs /\ DOMAIN shared = Jobs /\ DOMAIN rc = Jobs
    /\ DOMAIN faulty = Jobs /\ DOMAIN wrote = Jobs /\ DOMAIN kept = Jobs
    /\ \A j \in Jobs : kept[j] \subseteq Places

\* The control points belong to the kinds of requests
Kinded(j) ==
    /\ pc[j] \in GetPoints => req[j].kind \in {"get", "check"}
    /\ pc[j] \in {"gap", "refill"} => Asks(j, "get")
    /\ pc[j] \in {"putCache", "putArchive"} => Asks(j, "put")
    /\ pc[j] = "putStack" => Asks(j, "stackput")
    /\ pc[j] \in {"deleteCache", "deleteArchive"} => Asks(j, "delete")

\* A place that has had the resource all along, that the options allow and that has
\* answered
Available(j) == (kept[j] \cap Allowed(j)) \ faulty[j]

\* The places that the get or the check has gone through had not the resource
Missing(j) ==
    /\ pc[j] # "rest" => kept[j] \subseteq Having(Name(j))
    /\ pc[j] \in {"stack", "archive"} \cup EggPoints => "cache" \notin Available(j)
    /\ pc[j] \in {"archive"} \cup EggPoints => "stack" \notin Available(j)
    /\ pc[j] \in EggPoints => "archive" \notin Available(j)
    /\ Resting(j) /\ ~rc[j] /\ req[j].kind \in {"get", "check"} => Available(j) = {}

PutDone(j) ==
    /\ pc[j] = "putArchive" /\ rc[j] /\ CacheAllowed(j) => "cache" \in wrote[j]
    /\ Resting(j) /\ rc[j] /\ Asks(j, "put") => {"cache", "archive"} \cap Allowed(j) \subseteq wrote[j]

\* A job that is alone at its resource, and what it has removed from the cache
Alone(j) ==
    j \in alone =>
        /\ \A i \in Jobs \ {j} : pc[i] = "rest" \/ Name(i) # Name(j)
        /\ pc[j] = "deleteArchive" /\ CacheAllowed(j) => Name(j) \notin cache

\* Who is about to write a resource that is gone was under way when the delete was answered
Filling(j) == pc[j] \in {"gap", "refill", "putCache", "putArchive"}
Gone ==
    /\ gone \cap (cache \cup archive) = {}
    /\ \A j \in Jobs : Filling(j) /\ Name(j) \in gone => j \in over

IInv ==
    /\ Typed /\ Gone
    /\ \A j \in Jobs : Kinded(j) /\ Missing(j) /\ PutDone(j) /\ Alone(j)
--------------------------------------------------------------------------------
(***************************************************************************)
(* What every step does: the history variables, and the frame of a step.   *)
(***************************************************************************)
Now(j) == Held(req'[j].name, cache', stack', archive', egg')

LEMMA Observed ==
    ASSUME Typed, Observe
    PROVE  /\ DOMAIN kept' = Jobs
           /\ \A j \in Jobs :
                 /\ kept'[j] \subseteq Places
                 /\ pc[j] # "rest" => kept'[j] = kept[j] \cap Now(j)
                 /\ pc[j] = "rest" /\ pc'[j] # "rest" => kept'[j] = Now(j)
                 /\ pc[j] = "rest" /\ pc'[j] = "rest" => kept'[j] = kept[j]
                 /\ j \in alone' => /\ pc[j] = "rest" \/ j \in alone
                                    /\ \A i \in Jobs \ {j} : pc'[i] = "rest" \/ req'[i].name # req'[j].name
<1>1. /\ kept' = [j \in Jobs |-> IF pc[j] # "rest" THEN kept[j] \cap Now(j)
                                 ELSE IF pc'[j] # "rest" THEN Now(j) ELSE kept[j]]
      /\ alone' = {j \in Jobs : /\ pc[j] = "rest" \/ j \in alone
                                /\ \A i \in Jobs \ {j} : pc'[i] = "rest" \/ req'[i].name # req'[j].name}
    BY DEF Observe, Now
<1>2. \A j \in Jobs : Now(j) \subseteq Places
    BY DEF Now, Held, Places
<1> QED BY <1>1, <1>2 DEF Typed

\* What a step of a request leaves alone
Frame(j) ==
    /\ UNCHANGED req
    /\ DOMAIN pc' = Jobs /\ DOMAIN shared' = Jobs /\ DOMAIN rc' = Jobs
    /\ DOMAIN faulty' = Jobs /\ DOMAIN wrote' = Jobs
    /\ \A i \in Jobs \ {j} :
          /\ pc'[i] = pc[i] /\ rc'[i] = rc[i] /\ shared'[i] = shared[i]
          /\ faulty'[i] = faulty[i] /\ wrote'[i] = wrote[i]
    /\ cache' \subseteq cache \cup {n \in {Name(j)} : pc[j] \in {"refill", "putCache"}}
    /\ archive' \subseteq archive \cup {n \in {Name(j)} : pc[j] = "putArchive"}
    /\ pc[j] # "rest" /\ pc'[j] # pc[j]

\* What it owes to the job itself
Own(j) ==
    /\ Kinded(j)' /\ Missing(j)' /\ PutDone(j)'
    /\ pc'[j] = "deleteArchive" /\ CacheAllowed(j) => Name(j) \notin cache'
    /\ Filling(j)' => Filling(j) \/ Name(j) \in archive
    /\ Deleted(j) => Name(j) \notin archive'

\* What another job keeps
LEMMA OthersKeep ==
    ASSUME IInv, Observe, NEW i \in Jobs, pc'[i] = pc[i], rc'[i] = rc[i], req'[i] = req[i],
           faulty'[i] = faulty[i], wrote'[i] = wrote[i]
    PROVE  Kinded(i)' /\ Missing(i)' /\ PutDone(i)'
<1>1. kept'[i] \subseteq kept[i]
    BY Observed DEF IInv
<1>2. Kinded(i)' /\ PutDone(i)'
    BY DEF IInv, Kinded, PutDone, Asks, Resting, CacheAllowed, Allowed, ArchiveAllowed
<1>3. pc'[i] # "rest" => kept'[i] \subseteq Having(Name(i))'
    BY Observed DEF IInv, Having, Now, Name
<1>4. Missing(i)'
    BY <1>1, <1>3 DEF IInv, Missing, Available, Allowed, CacheAllowed, ArchiveAllowed, Resting, Asks
<1> QED BY <1>2, <1>4

\* What is gone stays out, but for a job that was under way when the delete was answered
LEMMA GoneKept ==
    ASSUME IInv, NEW j \in Jobs, Frame(j), Own(j), Observe
    PROVE  Gone'
<1>1. \A i \in Jobs \ {j} : pc'[i] = pc[i] /\ Name(i)' = Name(i) /\ ~Deleted(i)
    BY DEF Frame, Name, Deleted
<1>2. Name(j)' = Name(j) /\ pc[j] # "rest" /\ pc'[j] # pc[j]
    BY DEF Frame, Name
<1>3. /\ gone' = {n \in gone \cup SaidGone : ~PutBegun(n) /\ ~Back(n)}
      /\ over' = {i \in Jobs : /\ pc[i] # "rest" /\ pc'[i] # "rest"
                               /\ i \in over \/ \E k \in Jobs : Deleted(k) /\ Name(k) = Name(i)}
    BY DEF Observe
<1>4. \A n \in SaidGone : n = Name(j) /\ Deleted(j) /\ (j \in alone \/ n \notin cache')
    BY <1>1 DEF SaidGone
<1>5. ASSUME NEW n \in gone'
      PROVE  n \notin cache' \cup archive'
    <2>1. CASE n \in gone
        <3> SUFFICES ASSUME n \in cache' \cup archive'
                     PROVE  FALSE
            OBVIOUS
        <3>1. n = Name(j) /\ Filling(j)
            BY <2>1 DEF IInv, Gone, Frame, Filling
        <3>2. Back(n)
            BY <1>2, <2>1, <3>1 DEF IInv, Gone, Back
        <3> QED BY <1>3, <1>5, <3>2
    <2>2. CASE n \notin gone
        <3>1. n = Name(j) /\ Deleted(j) /\ (j \in alone \/ n \notin cache')
            BY <1>3, <1>4, <1>5, <2>2
        <3>2. n \notin archive'
            BY <3>1 DEF Own
        <3>3. j \in alone => n \notin cache'
            BY <3>1 DEF IInv, Alone, Frame, Deleted
        <3> QED BY <3>1, <3>2, <3>3
    <2> QED BY <2>1, <2>2
<1>6. ASSUME NEW i \in Jobs, Filling(i)', Name(i)' \in gone'
      PROVE  i \in over'
    <2>1. pc'[i] # "rest"
        BY <1>6 DEF Filling
    <2>2. CASE i = j
        <3>1. Name(j) \in gone
            BY <1>2, <1>3, <1>4, <1>6, <2>1, <2>2 DEF Deleted
        <3>2. Filling(j) /\ j \in over
            BY <1>6, <2>2, <3>1 DEF IInv, Gone, Own
        <3> QED BY <1>2, <1>3, <2>1, <2>2, <3>2
    <2>3. CASE i # j
        <3>1. Filling(i) /\ pc[i] # "rest" /\ Name(i) \in gone'
            BY <1>1, <1>6, <2>1, <2>3 DEF Filling
        <3>2. i \in over \/ Name(i) \in SaidGone
            BY <1>3, <3>1 DEF IInv, Gone
        <3>3. i \in over \/ \E k \in Jobs : Deleted(k) /\ Name(k) = Name(i)
            BY <1>4, <3>2
        <3> QED BY <1>3, <2>1, <3>1, <3>3
    <2> QED BY <2>2, <2>3
<1> QED BY <1>5, <1>6 DEF Gone

LEMMA FrameKeeps ==
    ASSUME IInv, NEW j \in Jobs, Frame(j), Own(j), Observe
    PROVE  IInv'
<1> USE Observed DEF IInv, Frame, Own
<1>1. Typed'
    BY DEF Typed
<1>2. ASSUME NEW i \in Jobs \ {j}
      PROVE  Kinded(i)' /\ Missing(i)' /\ PutDone(i)'
    BY <1>2, OthersKeep
<1>3. Gone'
    BY GoneKept
<1>4. ASSUME NEW i \in Jobs
      PROVE  Alone(i)'
    <2>1. i \in alone' => \A k \in Jobs \ {i} : pc'[k] = "rest" \/ Name(k)' # Name(i)'
        BY <1>4 DEF Name
    <2>2. i \in alone' /\ pc'[i] = "deleteArchive" /\ CacheAllowed(i)' => Name(i)' \notin cache'
        <3>1. CASE i = j
            BY <3>1 DEF Name, CacheAllowed
        <3>2. CASE i # j
            <4> SUFFICES ASSUME i \in alone', pc'[i] = "deleteArchive", CacheAllowed(i)'
                         PROVE  Name(i)' \notin cache'
                OBVIOUS
            <4>1. pc[i] = "deleteArchive" /\ i \in alone /\ Name(i)' = Name(i) /\ CacheAllowed(i)
                BY <1>4, <3>2 DEF Name, CacheAllowed
            <4>2. Name(i) \notin cache /\ Name(j) # Name(i)
                BY <1>4, <3>2, <4>1 DEF Alone
            <4> QED BY <4>1, <4>2
        <3> QED BY <3>1, <3>2
    <2> QED BY <2>1, <2>2 DEF Alone
<1> QED BY <1>1, <1>2, <1>3, <1>4
--------------------------------------------------------------------------------
(***************************************************************************)
(* The steps, one by one.                                                  *)
(***************************************************************************)
\* What a place that has not the resource, or that fails, means for the rest of the request
LEMMA Shrinks ==
    ASSUME IInv, NEW j \in Jobs, pc[j] # "rest", UNCHANGED req, faulty[j] \subseteq faulty'[j], Observe
    PROVE  /\ Available(j)' \subseteq Available(j) \cap Having(Name(j))
           /\ Available(j)' \cap faulty'[j] = {}
           /\ Available(j)' \subseteq Allowed(j)
           /\ kept'[j] \subseteq Having(Name(j))'
<1>1. kept'[j] = kept[j] \cap Now(j) /\ kept[j] \subseteq Having(Name(j))
    BY Observed DEF IInv, Missing
<1>2. Having(Name(j))' = Now(j)
    BY DEF Having, Now, Name
<1>3. Allowed(j)' = Allowed(j)
    BY DEF Allowed, CacheAllowed, ArchiveAllowed
<1> QED BY <1>1, <1>2, <1>3 DEF Available

\* What a request finds of itself at a control point
LEMMA Elements ==
    ASSUME NEW j \in Jobs, Typed
    PROVE  /\ Available(j) \subseteq Places
           /\ "cache" \in Having(Name(j)) <=> Name(j) \in cache
           /\ "stack" \in Having(Name(j)) <=> Stacks(j) /\ Name(j) \in stack
           /\ "archive" \in Having(Name(j)) <=> Name(j) \in archive
           /\ "egg" \in Having(Name(j)) <=> Stacks(j) /\ Name(j) \in egg
           /\ "cache" \in Allowed(j) <=> CacheAllowed(j)
           /\ "stack" \in Allowed(j) <=> CacheAllowed(j)
           /\ "archive" \in Allowed(j) <=> ArchiveAllowed(j)
           /\ "egg" \in Allowed(j) <=> ArchiveAllowed(j)
BY DEF Typed, Available, Having, Held, Allowed, Stacks

\* What a step of a request is judged on
USE DEF Own, Frame, IInv, Kinded, Missing, PutDone,
        Asks, Resting, GetPoints, EggPoints, Filling, Name, Deleted

LEMMA LookInCacheStep ==
    ASSUME IInv, NEW j \in Jobs, LookInCache(j), Observe
    PROVE  Frame(j) /\ Own(j)
<1> USE DEF LookInCache, NoFault, told, places, Goto, Answer, Local
<1>1. Frame(j)
    BY DEF Typed
<1>2. CASE pc'[j] = "rest" /\ rc'[j]
    BY <1>1, <1>2, Shrinks
<1>3. CASE ~(CacheAllowed(j) /\ Name(j) \in cache) /\ pc'[j] = "stack"
    BY <1>1, <1>3, Shrinks, Elements
<1>4. CASE ~(CacheAllowed(j) /\ Name(j) \in cache) /\ pc'[j] = "archive" /\ ~Stacks(j)
    BY <1>1, <1>4, Shrinks, Elements
<1> QED BY <1>2, <1>3, <1>4 DEF Typed

LEMMA LookInStackStep ==
    ASSUME IInv, NEW j \in Jobs, LookInStack(j), Observe
    PROVE  Frame(j) /\ Own(j)
<1> USE DEF LookInStack, NoFault, told, places, Goto, Answer, Local
<1>1. Frame(j)
    BY DEF Typed
<1>2. CASE pc'[j] = "rest" /\ rc'[j]
    BY <1>1, <1>2, Shrinks
<1>3. CASE ~(CacheAllowed(j) /\ Name(j) \in stack) /\ pc'[j] = "archive"
    BY <1>1, <1>3, Shrinks, Elements
<1> QED BY <1>2, <1>3 DEF Typed

LEMMA LookInArchiveStep ==
    ASSUME IInv, NEW j \in Jobs, LookInArchive(j), Observe
    PROVE  Frame(j) /\ Own(j)
<1> USE DEF LookInArchive, NoFault, Fault, told, places, Goto, Answer, Local, Missed
<1>1. Frame(j)
    BY DEF Typed
<1>2. CASE pc'[j] = "rest" /\ rc'[j]
    BY <1>1, <1>2, Shrinks
<1>3. CASE ArchiveAllowed(j) /\ Name(j) \in archive /\ ~Asks(j, "check") /\ pc'[j] = "gap"
    BY <1>1, <1>3, Shrinks
<1>4. CASE /\ ~(ArchiveAllowed(j) /\ Name(j) \in archive) \/ "archive" \in faulty'[j]
           /\ faulty[j] \subseteq faulty'[j]
           /\ Missed(j)
    <2>1. "archive" \notin Available(j)' /\ Available(j)' \subseteq Available(j)
        BY <1>1, <1>4, Shrinks, Elements
    <2>2. CASE Stacks(j)
        BY <1>1, <1>4, <2>1, <2>2, Shrinks
    <2>3. CASE ~Stacks(j)
        <3>1. Available(j)' = {}
            BY <1>1, <1>4, <2>1, <2>3, Shrinks, Elements DEF Places
        <3> QED BY <1>1, <1>4, <2>3, <3>1, Shrinks
    <2> QED BY <2>2, <2>3
<1> QED BY <1>2, <1>3, <1>4 DEF Typed

LEMMA GapStep ==
    ASSUME IInv, NEW j \in Jobs, Gap(j), Observe
    PROVE  Frame(j) /\ Own(j)
<1> USE DEF Gap, NoFault, told, places, Goto, Answer
<1>1. Frame(j)
    BY DEF Typed
<1> QED BY <1>1, Shrinks DEF Typed

LEMMA RefillStep ==
    ASSUME IInv, NEW j \in Jobs, Refill(j), Observe
    PROVE  Frame(j) /\ Own(j)
<1> USE DEF Refill, NoFault, Fault, told, places, Goto, Answer, Local, Again, Fill
<1>1. Frame(j)
    BY DEF Typed
<1>2. faulty[j] \subseteq faulty'[j] /\ ((pc'[j] = "rest" /\ rc'[j]) \/ pc'[j] = "cache")
    BY DEF Typed
<1> QED BY <1>1, <1>2, Shrinks

LEMMA EggStep ==
    ASSUME IInv, NEW j \in Jobs, Egg(j), Observe
    PROVE  Frame(j) /\ Own(j)
<1> USE DEF Egg, NoFault, Fault, told, places, Goto, Answer
<1>1. Frame(j)
    BY DEF Typed
<1>2. CASE pc'[j] = "eggAway" /\ faulty'[j] = faulty[j]
    BY <1>1, <1>2, Shrinks
<1>3. CASE /\ ~(ArchiveAllowed(j) /\ egg # {}) \/ "egg" \in faulty'[j]
           /\ faulty[j] \subseteq faulty'[j] /\ pc'[j] = "rest"
    <2>1. Available(j)' = {}
        BY <1>1, <1>3, Shrinks, Elements DEF Places
    <2> QED BY <1>1, <1>3, <2>1, Shrinks
<1> QED BY <1>2, <1>3 DEF Typed

LEMMA EggAwayStep ==
    ASSUME IInv, NEW j \in Jobs, EggAway(j), Observe
    PROVE  Frame(j) /\ Own(j)
<1> USE DEF EggAway, NoFault, Fault, told, places, Goto
<1>1. Frame(j)
    BY DEF Typed
<1>2. faulty[j] \subseteq faulty'[j] /\ pc'[j] \in {"eggIn", "hatch"}
    BY DEF Typed
<1> QED BY <1>1, <1>2, Shrinks

LEMMA EggInStep ==
    ASSUME IInv, NEW j \in Jobs, EggIn(j), Observe
    PROVE  Frame(j) /\ Own(j)
<1> USE DEF EggIn, NoFault, Fault, told, places, Goto
<1>1. Frame(j)
    BY DEF Typed
<1>2. faulty[j] \subseteq faulty'[j] /\ pc'[j] = "hatch"
    BY DEF Typed
<1> QED BY <1>1, <1>2, Shrinks

LEMMA HatchStep ==
    ASSUME IInv, NEW j \in Jobs, Hatch(j), Observe
    PROVE  Frame(j) /\ Own(j)
<1> USE DEF Hatch, NoFault, told, places, Answer, Local
<1>1. Frame(j)
    BY DEF Typed
<1>2. ~rc'[j] => Name(j) \notin egg
    BY DEF Typed
<1>3. faulty[j] = faulty'[j] /\ pc[j] = "hatch"
    OBVIOUS
<1>4. Name(j) \notin egg => Available(j)' = {}
    BY <1>1, <1>3, Shrinks, Elements DEF Places
<1>5. pc'[j] = "rest" /\ kept'[j] \subseteq Having(Name(j))'
    BY <1>1, <1>3, Shrinks DEF Typed
<1>6. ~rc'[j] => Available(j)' = {}
    BY <1>2, <1>4
<1> HIDE DEF Hatch
<1> QED BY <1>1, <1>3, <1>5, <1>6

LEMMA PutInCacheStep ==
    ASSUME IInv, NEW j \in Jobs, PutInCache(j), Observe
    PROVE  Frame(j) /\ Own(j)
<1> USE DEF PutInCache, NoFault, Fault, told, places, Answer, Written
<1>1. Frame(j)
    BY DEF Typed
<1>2. faulty[j] \subseteq faulty'[j]
    BY DEF Typed
<1>3. /\ pc'[j] = "putArchive" /\ rc'[j] /\ CacheAllowed(j) => "cache" \in wrote'[j]
      /\ pc'[j] = "putArchive" \/ (pc'[j] = "rest" /\ ~rc'[j])
    BY DEF Typed
<1>4. CacheAllowed(j)' = CacheAllowed(j)
    BY <1>1 DEF CacheAllowed
<1> QED BY <1>1, <1>2, <1>3, <1>4, Shrinks

LEMMA PutInArchiveStep ==
    ASSUME IInv, NEW j \in Jobs, PutInArchive(j), Observe
    PROVE  Frame(j) /\ Own(j)
<1> USE DEF PutInArchive, NoFault, Fault, told, places, Answer, Written, Verdict
<1>1. Frame(j)
    BY DEF Typed
<1>2. faulty[j] \subseteq faulty'[j] /\ pc'[j] = "rest"
    BY DEF Typed
<1>3. rc'[j] => {"cache", "archive"} \cap Allowed(j) \subseteq wrote'[j]
    BY Elements DEF Typed
<1>4. Allowed(j)' = Allowed(j)
    BY <1>1 DEF Allowed, CacheAllowed, ArchiveAllowed
<1> QED BY <1>1, <1>2, <1>3, <1>4, Shrinks

LEMMA PutInStackStep ==
    ASSUME IInv, NEW j \in Jobs, PutInStack(j), Observe
    PROVE  Frame(j) /\ Own(j)
<1> USE DEF PutInStack, NoFault, Fault, told, places, Answer
<1>1. Frame(j)
    BY DEF Typed
<1>2. faulty[j] \subseteq faulty'[j] /\ pc'[j] = "rest"
    BY DEF Typed
<1> QED BY <1>1, <1>2, Shrinks

LEMMA DeleteInCacheStep ==
    ASSUME IInv, NEW j \in Jobs, DeleteInCache(j), Observe
    PROVE  Frame(j) /\ Own(j)
<1> USE DEF DeleteInCache, NoFault, Fault, told, places, Goto, Answer, Refused
<1>1. Frame(j)
    BY DEF Typed
<1>2. /\ faulty[j] \subseteq faulty'[j] /\ pc'[j] \in {"rest", "deleteArchive"}
      /\ pc'[j] = "deleteArchive" /\ CacheAllowed(j) => Name(j) \notin cache'
    BY DEF Typed
<1> QED BY <1>1, <1>2, Shrinks

LEMMA DeleteInArchiveStep ==
    ASSUME IInv, NEW j \in Jobs, DeleteInArchive(j), Observe
    PROVE  Frame(j) /\ Own(j)
<1> USE DEF DeleteInArchive, NoFault, Fault, told, places, Answer
<1>1. Frame(j)
    BY DEF Typed
<1>2. /\ faulty[j] \subseteq faulty'[j] /\ pc'[j] = "rest"
      /\ Deleted(j) => Name(j) \notin archive'
    BY DEF Typed
<1> QED BY <1>1, <1>2, Shrinks

HIDE DEF Own, Frame, IInv, Kinded, Missing, PutDone,
         Asks, Resting, GetPoints, EggPoints, Filling, Name, Deleted

LEMMA RequestFrame ==
    ASSUME IInv, NEW j \in Jobs, Request(j), Observe
    PROVE  Frame(j) /\ Own(j)
    BY LookInCacheStep, LookInStackStep, LookInArchiveStep, GapStep, RefillStep, EggStep, EggAwayStep,
       EggInStep, HatchStep, PutInCacheStep, PutInArchiveStep, PutInStackStep, DeleteInCacheStep,
       DeleteInArchiveStep DEF Request

LEMMA RequestStep ==
    ASSUME IInv, NEW j \in Jobs, Request(j), Observe
    PROVE  IInv'
BY RequestFrame, FrameKeeps

LEMMA CallStep ==
    ASSUME IInv, NEW j \in Jobs, Call(j), Observe
    PROVE  IInv'
<1>1. PICK r \in Requests :
        /\ req' = [req EXCEPT ![j] = r]
        /\ Goto(j, First[r.kind])
    BY DEF Call
<1>2. /\ pc[j] = "rest" /\ UNCHANGED <<places, rc>>
      /\ DOMAIN pc' = Jobs /\ DOMAIN req' = Jobs /\ DOMAIN shared' = Jobs
      /\ DOMAIN faulty' = Jobs /\ DOMAIN wrote' = Jobs
      /\ \A i \in Jobs \ {j} : /\ pc'[i] = pc[i] /\ req'[i] = req[i]
                               /\ faulty'[i] = faulty[i] /\ wrote'[i] = wrote[i]
      /\ pc'[j] = First[r.kind] /\ req'[j] = r
    BY <1>1 DEF Call, Goto, Local, IInv, Typed
<1>3. r.kind \in Kinds
    BY <1>1 DEF Requests
<1>4. Typed'
    BY <1>2, Observed DEF IInv, Typed
<1>5. pc'[j] \in {"cache", "putCache", "putStack", "deleteCache"}
    BY <1>2, <1>3 DEF First, Kinds
<1>6. Kinded(j)'
    BY <1>2, <1>3 DEF Kinded, Asks, First, Kinds, GetPoints, EggPoints
<1>7. Missing(j)' /\ PutDone(j)'
    <2>1. kept'[j] = Having(Name(j))'
        BY <1>2, <1>5, Observed DEF IInv, Having, Now, Name
    <2> QED BY <1>5, <2>1 DEF Missing, PutDone, Resting, EggPoints
<1>8. ASSUME NEW i \in Jobs \ {j}
      PROVE  Kinded(i)' /\ Missing(i)' /\ PutDone(i)'
    BY <1>2, <1>8, OthersKeep
<1>9. Gone'
    <2>1. \A i \in Jobs : ~Deleted(i)
        BY <1>2 DEF Deleted
    <2>2. /\ gone' = {n \in gone \cup SaidGone : ~PutBegun(n) /\ ~Back(n)}
          /\ over' = {i \in Jobs : /\ pc[i] # "rest" /\ pc'[i] # "rest"
                                   /\ i \in over \/ \E k \in Jobs : Deleted(k) /\ Name(k) = Name(i)}
        BY DEF Observe
    <2>3. gone' \subseteq gone
        BY <2>1, <2>2 DEF SaidGone
    <2>4. pc'[j] = "putCache" => Name(j)' \notin gone'
        BY <1>2, <2>2 DEF PutBegun, Name
    <2>5. Filling(j)' => Name(j)' \notin gone'
        BY <1>5, <2>4 DEF Filling
    <2>6. \A i \in Jobs \ {j} : Filling(i)' /\ Name(i)' \in gone' => i \in over'
        BY <1>2, <2>2, <2>3 DEF IInv, Gone, Filling, Name
    <2> QED BY <1>2, <2>3, <2>5, <2>6 DEF IInv, Gone, places
<1>10. ASSUME NEW i \in Jobs
       PROVE  Alone(i)'
    <2>1. i \in alone' => \A k \in Jobs \ {i} : pc'[k] = "rest" \/ Name(k)' # Name(i)'
        BY <1>4, Observed DEF IInv, Name
    <2>2. i \in alone' /\ pc'[i] = "deleteArchive" /\ CacheAllowed(i)' => Name(i)' \notin cache'
        <3>1. CASE i = j
            BY <1>5, <3>1
        <3>2. CASE i # j
            BY <1>2, <1>10, <3>2, Observed DEF IInv, Alone, Name, CacheAllowed, places
        <3> QED BY <3>1, <3>2
    <2> QED BY <2>1, <2>2 DEF Alone
<1> QED BY <1>4, <1>6, <1>7, <1>8, <1>9, <1>10 DEF IInv

LEMMA PurgeStep ==
    ASSUME IInv, Purge, Observe
    PROVE  IInv'
<1>1. /\ UNCHANGED <<archive, pc, req, shared, rc, faulty, wrote>>
      /\ cache' \subseteq cache
    BY DEF Purge
<1>2. Typed'
    BY <1>1, Observed DEF IInv, Typed
<1>3. ASSUME NEW i \in Jobs
      PROVE  Kinded(i)' /\ Missing(i)' /\ PutDone(i)'
    BY <1>1, <1>3, OthersKeep
<1>4. Gone'
    <2>1. \A i \in Jobs : ~Deleted(i)
        BY <1>1 DEF Deleted
    <2>2. gone' \subseteq gone
        BY <2>1 DEF Observe, SaidGone
    <2>3. \A i \in Jobs : pc[i] # "rest" /\ i \in over => i \in over'
        BY <1>1 DEF Observe
    <2> QED BY <1>1, <2>2, <2>3 DEF IInv, Gone, Filling, Name
<1>5. ASSUME NEW i \in Jobs
      PROVE  Alone(i)'
    BY <1>1, <1>5, Observed DEF IInv, Alone, Name, CacheAllowed
<1> QED BY <1>2, <1>3, <1>4, <1>5 DEF IInv

LEMMA StutterStep ==
    ASSUME IInv, UNCHANGED vars
    PROVE  IInv'
<1> USE DEF vars, places, budget, history, told
<1>1. Typed' /\ Gone'
    BY DEF IInv, Typed, Gone, Filling, Name
<1>2. ASSUME NEW j \in Jobs
      PROVE  Kinded(j)' /\ Missing(j)' /\ PutDone(j)' /\ Alone(j)'
    BY <1>2 DEF IInv, Kinded, Missing, PutDone, Alone, Asks, Resting, Available, Having, Name, Allowed,
                CacheAllowed, ArchiveAllowed
<1> QED BY <1>1, <1>2 DEF IInv

LEMMA Start ==
    ASSUME Init
    PROVE  IInv
<1> USE DEF Init
<1>1. Typed /\ Gone
    BY DEF Typed, Gone, Filling, Places
<1>2. ASSUME NEW j \in Jobs
      PROVE  Kinded(j) /\ Missing(j) /\ PutDone(j) /\ Alone(j)
    <2>1. pc[j] = "rest" /\ rc[j] /\ j \notin alone /\ req[j].kind = "check"
        OBVIOUS
    <2> QED BY <2>1 DEF Kinded, Missing, PutDone, Alone, Resting, GetPoints, EggPoints, Asks
<1> QED BY <1>1, <1>2 DEF IInv

LEMMA IInvAlways == Spec => []IInv
<1>1. IInv /\ [Next]_vars => IInv'
    BY RequestStep, CallStep, PurgeStep, StutterStep DEF Next
<1> QED BY <1>1, Start, PTL DEF Spec
--------------------------------------------------------------------------------
(***************************************************************************)
(* The theorems.                                                           *)
(***************************************************************************)
(* A get or a check that says no has overlooked no place that has had the  *)
(* resource since it began, but one whose access failed: nothing between   *)
(* two steps of MultiStore makes it miss what stays there.                 *)
THEOREM NothingOverlooked == Spec => []NoFalseMiss
<1>1. IInv => NoFalseMiss
    BY DEF IInv, Missing, NoFalseMiss, Available
<1> QED BY <1>1, IInvAlways, PTL

(* A put that says yes has written the cache and the archive, as far as    *)
(* the options allow them.                                                 *)
THEOREM SaidIsWritten == Spec => []PutEverywhere
<1>1. IInv => PutEverywhere
    BY DEF IInv, PutDone, PutEverywhere
<1> QED BY <1>1, IInvAlways, PTL

(* What a delete said removed is in no store then, unless somebody else    *)
(* has filled the cache again meanwhile, and it comes back only by a put   *)
(* that begins later or by a request that was under way on it when the     *)
(* delete was answered: a get that begins after finds nothing to refill.   *)
THEOREM NoRevival == Spec => []DeletedIsGone
<1>1. IInv => DeletedIsGone
    BY DEF IInv, Gone, DeletedIsGone
<1> QED BY <1>1, IInvAlways, PTL

\* A file that comes from the archive by ftp is linked to nothing as long as nothing refills
Linked(j) ==
    Asks(j, "get") /\ req[j].intent = "inout" /\ (pc[j] \in {"gap", "refill"} \/ (Resting(j) /\ rc[j]))
        => shared[j] = {}

LEMMA OtherLinked ==
    ASSUME IInv, NEW j \in Jobs, Call(j) \/ Request(j), Observe, NEW i \in Jobs \ {j}, Linked(i)
    PROVE  Linked(i)'
<1>1. pc'[i] = pc[i] /\ rc'[i] = rc[i] /\ shared'[i] = shared[i] /\ req'[i] = req[i]
    <2>1. CASE Request(j)
        BY <2>1, RequestFrame DEF Frame
    <2>2. CASE Call(j)
        BY <2>2 DEF IInv, Typed, Call, Goto, Local
    <2> QED BY <2>1, <2>2
<1> QED BY <1>1 DEF Linked, Asks, Resting

LEMMA OwnLinked ==
    ASSUME Tube = "ftp", IInv, NEW j \in Jobs, Request(j), Observe, Linked(j)
    PROVE  Linked(j)'
<1> SUFFICES ASSUME Asks(j, "get"), req[j].intent = "inout",
                    pc'[j] \in {"gap", "refill"} \/ (pc'[j] = "rest" /\ rc'[j])
             PROVE  shared'[j] = {}
    <2>1. Asks(j, "get")' <=> Asks(j, "get")
        BY RequestFrame DEF Frame, Asks
    <2>2. req'[j].intent = req[j].intent
        BY RequestFrame DEF Frame
    <2>3. Linked(j)' <=> (Asks(j, "get")' /\ req'[j].intent = "inout"
                          /\ (pc'[j] \in {"gap", "refill"} \/ (pc'[j] = "rest" /\ rc'[j])) => shared'[j] = {})
        BY DEF Linked, Resting
    <2> QED BY <2>1, <2>2, <2>3
<1> USE DEF NoFault, Fault, told, places, Goto, Answer, Local, LinkTo, IInv, Typed
<1>1. CASE LookInCache(j)
    BY <1>1 DEF LookInCache
<1>2. CASE LookInStack(j)
    BY <1>2 DEF LookInStack
<1>3. CASE LookInArchive(j)
    BY <1>3 DEF LookInArchive, Missed, Asks
<1>4. CASE Gap(j)
    BY <1>4 DEF Gap, Linked
<1>5. CASE Refill(j)
    BY <1>5 DEF Refill, Again, Linked
<1>6. CASE Egg(j)
    BY <1>6 DEF Egg
<1>7. CASE EggAway(j)
    BY <1>7 DEF EggAway
<1>8. CASE EggIn(j)
    BY <1>8 DEF EggIn
<1>9. CASE Hatch(j)
    BY <1>9 DEF Hatch
<1>10. pc[j] \notin {"putCache", "putArchive", "putStack", "deleteCache", "deleteArchive"}
    BY DEF Kinded, Asks
<1> QED BY <1>1, <1>2, <1>3, <1>4, <1>5, <1>6, <1>7, <1>8, <1>9, <1>10
        DEF Request, PutInCache, PutInArchive, PutInStack, DeleteInCache, DeleteInArchive

LEMMA CallLinked ==
    ASSUME IInv, NEW j \in Jobs, Call(j)
    PROVE  Linked(j)'
<1>1. shared'[j] = {}
    BY DEF Call, Local, IInv, Typed
<1> QED BY <1>1 DEF Linked

LEMMA LinkedStep ==
    ASSUME Tube = "ftp", IInv, \A i \in Jobs : Linked(i), [Next]_vars, NEW j \in Jobs
    PROVE  Linked(j)'
<1>1. CASE \E i \in Jobs : (Call(i) \/ Request(i)) /\ Observe
    BY <1>1, OtherLinked, OwnLinked, CallLinked
<1>2. CASE Purge
    BY <1>2 DEF Purge, Linked, Asks, Resting
<1>3. CASE UNCHANGED vars
    BY <1>3 DEF vars, Linked, Asks, Resting
<1> QED BY <1>1, <1>2, <1>3 DEF Next

(* With an archive that ftp reaches, a get for the intent "inout" that     *)
(* succeeds leaves a file of its own: the refill of the cache links the    *)
(* file, and then the get begins again.                                    *)
THEOREM WritableIsOwn == ASSUME Tube = "ftp" PROVE Spec => []OwnCopy
<1> DEFINE AllLinked == \A j \in Jobs : Linked(j)
<1>1. Init => AllLinked
    BY DEF Init, Linked
<1>2. AllLinked /\ IInv /\ [Next]_vars => AllLinked'
    BY LinkedStep
<1>3. AllLinked => OwnCopy
    BY DEF Linked, OwnCopy
<1> QED BY <1>1, <1>2, <1>3, IInvAlways, PTL DEF Spec

=================================================================================

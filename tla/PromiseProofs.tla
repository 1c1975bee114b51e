------------------------------ MODULE PromiseProofs ------------------------------
(***************************************************************************)
(* Safety proofs about the promise protocol: the invariants, and that it   *)
(* implements Availability.                                                *)
(***************************************************************************)
EXTENDS Promise, TLAPS

\* The runs of the producer follow one another
Turns == \A i, j \in Jobs : i < j /\ jpc[j] # "idle" => Ended(i)

\* A job that has promised is covered by its promise file until it drops it or
\* clears it, and its tracker knows; when it drops it the resource is there
Covered ==
    \A j \in Jobs :
        /\ jpc[j] = "load" => prom # None
        /\ jpc[j] \in {"erase", "work", "store", "drop", "clear"} => prom = Desc[j]
        /\ jpc[j] \in {"erase", "work", "store", "drop", "clear"} => left[j]
        /\ jpc[j] = "drop" => data # None

\* Once the promise file was seen to be missing, the resource is there or there is
\* a hole
SeesHoles ==
    \A c \in Consumers :
        /\ cpc[c] \in {"get2", "remote"} => hole[c] \/ data # None
        /\ cpc[c] \in {"missed", "empty"} => hole[c]

\* What replaces the result of a job comes from a later one
Newest == \A j \in kept : jpc[j] # "idle" /\ (data = None \/ data >= j)

\* A consumer that goes past the promise of a job does so after its end
AfterTheEnd ==
    \A c \in Consumers :
        told[c] # None =>
            /\ jpc[told[c]] # "idle"
            /\ prom = None => Ended(told[c])
            /\ cpc[c] \in {"get2", "got"} => Ended(told[c])

IInv ==
    /\ TypeOK /\ Turns /\ Covered /\ NoOrphan /\ SeesHoles /\ Newest
    /\ AfterTheEnd /\ FreshAfterPromise

USE DescAssumption, NbJobsAssumption, MaxPollsAssumption
    DEF Jobs, None, files, jobvars, consvars, JobGoes, Goes, Ended, Running, Latest

AJob(j) == Start(j) \/ JobStep(j) \/ Die(j)
ACons(c) == Get(c) \/ ConsStep(c)

\* Consumers read, and only that
LEMMA ConsumersOnlyRead ==
    ASSUME NEW c \in Consumers, ACons(c)
    PROVE  UNCHANGED <<files, jobvars, kept>> /\ Watch
    BY DEF ACons, ConsStep, Get, GetPromise, GetOther, Poll, LookRemote

\* Jobs know nothing of the consumers
LEMMA JobsIgnoreConsumers ==
    ASSUME NEW j \in Jobs, AJob(j)
    PROVE  UNCHANGED consvars /\ Watch
    BY DEF AJob, JobStep, Start, CheckPromise, LoadPromise, WritePromise, EraseOld,
           Compute, Store, PutFails, Stored, Drop,
                ClearPromises, Die

\* The cases of a step
LEMMA NextCases ==
    ASSUME [Next]_vars
    PROVE  \/ \E j \in Jobs : AJob(j)
           \/ \E c \in Consumers : ACons(c)
           \/ UNCHANGED vars
    BY DEF Next, AJob, ACons, Finished

LEMMA TypeStep == ASSUME TypeOK, [Next]_vars PROVE TypeOK'
<1>1. ASSUME NEW j \in Jobs, AJob(j) PROVE TypeOK'
    <2> USE <1>1, JobsIgnoreConsumers DEF TypeOK, JobPC
    <2>1. UNCHANGED consvars /\ hole' \in [Consumers -> BOOLEAN]
        BY DEF Watch
    <2>2. jpc' \in [Jobs -> JobPC]
        BY ZenonT(40) DEF AJob, JobStep, Start, CheckPromise, LoadPromise, WritePromise,
               EraseOld, Compute, Store, PutFails, Stored, Drop,
                ClearPromises, Die
    <2>3. left' \in [Jobs -> BOOLEAN]
        <3>1. left' = left \/ \E b \in BOOLEAN : left' = [left EXCEPT ![j] = b]
            BY DEF AJob, JobStep, Start, CheckPromise, LoadPromise, WritePromise,
                   EraseOld, Compute, Store, PutFails, Stored, Drop,
                ClearPromises, Die
        <3> QED BY <3>1
    <2>4. /\ prom' \in {None} \cup {Desc[i] : i \in Jobs}
          /\ data' \in {None} \cup Jobs /\ kept' \subseteq Jobs
        BY DEF AJob, JobStep, Start, CheckPromise, LoadPromise, WritePromise,
               EraseOld, Compute, Store, PutFails, Stored, Drop,
                ClearPromises, Die
    <2> QED BY <2>1, <2>2, <2>3, <2>4
<1>2. ASSUME NEW c \in Consumers, ACons(c) PROVE TypeOK'
    <2> USE <1>2, ConsumersOnlyRead DEF TypeOK, ConsPC
    <2>1. hole' \in [Consumers -> BOOLEAN]
        BY DEF Watch
    <2>2. cpc' \in [Consumers -> ConsPC]
        BY DEF ACons, ConsStep, Get, GetPromise, GetOther, Poll, LookRemote
    <2>3. polls' \in [Consumers -> 0..MaxPolls]
        <3>1. \/ polls' = polls
              \/ polls' = [polls EXCEPT ![c] = 0]
              \/ polls' = [polls EXCEPT ![c] = IF @ = MaxPolls THEN @ ELSE @ + 1]
            BY DEF ACons, ConsStep, Get, GetPromise, GetOther, Poll, LookRemote
        <3>2. polls \in [Consumers -> 0..MaxPolls] /\ polls[c] \in 0..MaxPolls
            OBVIOUS
        <3>3. 0 \in 0..MaxPolls
            OBVIOUS
        <3>4. (IF polls[c] = MaxPolls THEN polls[c] ELSE polls[c] + 1) \in 0..MaxPolls
            BY <3>2
        <3>5. ASSUME NEW n \in 0..MaxPolls
              PROVE  [polls EXCEPT ![c] = n] \in [Consumers -> 0..MaxPolls]
            BY <3>2
        <3> QED BY <3>1, <3>2, <3>3, <3>4, <3>5
    <2>4. /\ got' \in [Consumers -> {None} \cup Jobs]
          /\ told' \in [Consumers -> {None} \cup Jobs]
        BY ZenonT(40) DEF ACons, ConsStep, Get, GetPromise, GetOther, Poll, LookRemote
    <2> QED BY <2>1, <2>2, <2>3, <2>4
<1>3. CASE UNCHANGED vars
    BY <1>3 DEF TypeOK, vars
<1> QED BY <1>1, <1>2, <1>3, NextCases

LEMMA TurnsStep == ASSUME TypeOK, Turns, [Next]_vars PROVE Turns'
<1>1. ASSUME NEW j \in Jobs, AJob(j) PROVE Turns'
    <2>1. CASE Start(j)
        BY <2>1 DEF Start, Turns, TypeOK
    <2>2. ASSUME JobStep(j) \/ Die(j)
          PROVE  /\ jpc[j] # "idle"
                 /\ ~Ended(j)
                 /\ \A i \in Jobs \ {j} : jpc'[i] = jpc[i]
        BY <2>2 DEF JobStep, CheckPromise, LoadPromise, WritePromise, EraseOld,
                    Compute, Store, PutFails, Stored, Drop, ClearPromises, Die, TypeOK
    <2> QED BY <1>1, <2>1, <2>2 DEF AJob, Turns
<1>2. ASSUME NEW c \in Consumers, ACons(c) PROVE Turns'
    BY <1>2, ConsumersOnlyRead DEF Turns
<1>3. CASE UNCHANGED vars
    BY <1>3 DEF Turns, vars
<1> QED BY <1>1, <1>2, <1>3, NextCases

LEMMA CoveredStep == ASSUME TypeOK, Turns, Covered, [Next]_vars PROVE Covered'
<1>1. ASSUME NEW j \in Jobs, AJob(j) PROVE Covered'
    <2> SUFFICES ASSUME NEW i \in Jobs
                 PROVE  /\ jpc'[i] = "load" => prom' # None
                        /\ jpc'[i] \in {"erase", "work", "store", "drop", "clear"}
                              => prom' = Desc[i]
                        /\ jpc'[i] \in {"erase", "work", "store", "drop", "clear"}
                              => left'[i]
                        /\ jpc'[i] = "drop" => data' # None
        BY DEF Covered
    <2>1. CASE i = j
        <3> USE <1>1, <2>1 DEF Covered, TypeOK
        <3>1. CASE Start(j) \/ CheckPromise(j) \/ LoadPromise(j)
            BY <3>1, ZenonT(40) DEF Start, CheckPromise, LoadPromise
        <3>2. CASE WritePromise(j)
            BY <3>2 DEF WritePromise
        <3>3. CASE EraseOld(j) \/ Compute(j) \/ Store(j)
            BY <3>3 DEF EraseOld, Compute, Store, PutFails, Stored
        <3>4. CASE Drop(j) \/ ClearPromises(j) \/ Die(j)
            BY <3>4 DEF Drop, ClearPromises, Die
        <3> QED BY <3>1, <3>2, <3>3, <3>4 DEF AJob, JobStep
    <2>2. CASE i # j
        <3>1. jpc'[i] = jpc[i]
            BY <1>1, <2>2 DEF AJob, JobStep, Start, CheckPromise, LoadPromise,
                WritePromise, EraseOld, Compute, Store, PutFails, Stored, Drop,
                ClearPromises, Die, TypeOK
        <3>2. Running(j)' \/ Running(j) => jpc[i] = "idle" \/ Ended(i)
            <4>1. CASE Start(j)
                BY <2>2, <4>1 DEF Start, Turns
            <4>2. CASE Running(j)
                BY <2>2, <4>2 DEF Turns
            <4> QED BY <1>1, <4>1, <4>2 DEF AJob, JobStep, CheckPromise, LoadPromise,
                WritePromise, EraseOld, Compute, Store, PutFails, Stored, Drop,
                ClearPromises, Die
        <3>3. Running(j)' \/ Running(j)
            BY <1>1 DEF AJob, JobStep, Start, CheckPromise, LoadPromise,
                WritePromise, EraseOld, Compute, Store, PutFails, Stored, Drop,
                ClearPromises, Die, TypeOK
        <3> QED BY <3>1, <3>2, <3>3
    <2> QED BY <2>1, <2>2
<1>2. ASSUME NEW c \in Consumers, ACons(c) PROVE Covered'
    BY <1>2, ConsumersOnlyRead DEF Covered
<1>3. CASE UNCHANGED vars
    BY <1>3 DEF Covered, vars
<1> QED BY <1>1, <1>2, <1>3, NextCases
LEMMA NoOrphanStep ==
    ASSUME TypeOK, Turns, Covered, NoOrphan, [Next]_vars PROVE NoOrphan'
<1>1. ASSUME NEW j \in Jobs, AJob(j) PROVE NoOrphan'
    <2> SUFFICES ASSUME NEW i \in Jobs, Latest(i)', jpc'[i] \in {"over", "unkept"}
                 PROVE  /\ jpc'[i] = "over" => prom' = None
                        /\ jpc'[i] = "unkept" => prom' = Desc[i] /\ left'[i]
        BY DEF NoOrphan
    <2>1. jpc'[j] # "idle" /\ (Ended(j)' => Running(j))
        BY <1>1 DEF AJob, JobStep, Start, CheckPromise, LoadPromise, WritePromise,
            EraseOld, Compute, Store, PutFails, Stored, Drop,
                ClearPromises, Die, TypeOK
    <2>2. Turns'
        BY TurnsStep
    <2>3. i = j
        <3>1. ~(j > i)
            BY <2>1
        <3>2. ~(j < i)
            <4>1. SUFFICES ASSUME j < i PROVE FALSE
                OBVIOUS
            <4>2. Running(j)
                BY <4>1, <2>1, <2>2 DEF Turns
            <4>3. jpc'[i] = jpc[i]
                BY <4>1, <1>1 DEF AJob, JobStep, Start, CheckPromise, LoadPromise,
                    WritePromise, EraseOld, Compute, Store, PutFails, Stored, Drop,
                ClearPromises, Die,
                    TypeOK
            <4> QED BY <4>1, <4>2, <4>3 DEF Turns
        <3> QED BY <3>1, <3>2
    <2>4. Drop(j) \/ ClearPromises(j) \/ Compute(j) \/ Store(j)
        BY <1>1, <2>3 DEF AJob, JobStep, Start, CheckPromise, LoadPromise,
            WritePromise, EraseOld, Die, TypeOK
    <2>5. CASE Drop(j)
        BY <2>3, <2>5 DEF Drop, TypeOK
    <2>6. CASE ClearPromises(j)
        BY <2>3, <2>6 DEF ClearPromises, Covered, TypeOK
    <2>7. CASE Compute(j) \/ Store(j)
        <3>1. /\ jpc[j] \in {"work", "store"}
              /\ prom' = prom /\ left' = left /\ jpc'[j] # "over"
            BY <2>7 DEF Compute, Store, PutFails, TypeOK
        <3> QED BY <2>3, <3>1 DEF Covered
    <2> QED BY <2>4, <2>5, <2>6, <2>7
<1>2. ASSUME NEW c \in Consumers, ACons(c) PROVE NoOrphan'
    BY <1>2, ConsumersOnlyRead DEF NoOrphan
<1>3. CASE UNCHANGED vars
    BY <1>3 DEF NoOrphan, vars
<1> QED BY <1>1, <1>2, <1>3, NextCases

\* A promised resource is not missing
LEMMA PromisedIsNotNothing ==
    ASSUME TypeOK, Covered, prom = None PROVE \A j \in Jobs : ~HasPromised(j)
    BY DEF Covered, HasPromised

LEMMA SeesHolesStep ==
    ASSUME TypeOK, Covered, SeesHoles, [Next]_vars PROVE SeesHoles'
<1>1. ASSUME NEW j \in Jobs, AJob(j) PROVE SeesHoles'
    <2>1. Watch /\ cpc' = cpc
        BY <1>1, JobsIgnoreConsumers
    <2> QED BY <2>1 DEF SeesHoles, Watch, Withdrawn, InGet, TypeOK
<1>2. ASSUME NEW c \in Consumers, ACons(c) PROVE SeesHoles'
    <2>1. /\ UNCHANGED <<prom, data>> /\ Watch
          /\ \A d \in Consumers \ {c} : cpc'[d] = cpc[d]
        BY <1>2, ConsumersOnlyRead
           DEF ACons, ConsStep, Get, GetPromise, GetOther, Poll, LookRemote, TypeOK
    <2>2. \A d \in Consumers : hole[d] => hole'[d]
        BY <2>1 DEF Watch
    <2>3. ASSUME prom = None, data = None, cpc[c] \in InGet PROVE hole'[c]
        BY <2>1, <2>3, PromisedIsNotNothing DEF Watch, Nothing
    <2>4. /\ cpc'[c] \in {"get2", "remote"} => hole'[c] \/ data # None
          /\ cpc'[c] \in {"missed", "empty"} => hole'[c]
        <3> USE <2>2, <2>3 DEF SeesHoles, TypeOK, InGet
        <3>1. CASE Get(c)
            BY <3>1 DEF Get
        <3>2. CASE GetPromise(c)
            BY <3>2 DEF GetPromise
        <3>3. CASE GetOther(c)
            BY <3>3 DEF GetOther
        <3>4. CASE Poll(c)
            BY <3>4 DEF Poll
        <3>5. CASE LookRemote(c)
            BY <3>5 DEF LookRemote
        <3> QED BY <1>2, <3>1, <3>2, <3>3, <3>4, <3>5 DEF ACons, ConsStep
    <2> QED BY <2>1, <2>2, <2>4 DEF SeesHoles
<1>3. CASE UNCHANGED vars
    BY <1>3 DEF SeesHoles, vars, TypeOK
<1> QED BY <1>1, <1>2, <1>3, NextCases

LEMMA NewestStep ==
    ASSUME TypeOK, Turns, Newest, [Next]_vars PROVE Newest'
<1>1. ASSUME NEW j \in Jobs, AJob(j) PROVE Newest'
    <2>1. \A i \in Jobs : jpc[i] # "idle" => jpc'[i] # "idle"
        BY <1>1 DEF AJob, JobStep, Start, CheckPromise, LoadPromise, WritePromise,
            EraseOld, Compute, Store, PutFails, Stored, Drop,
                ClearPromises, Die, TypeOK
    <2>2. CASE Store(j) /\ Stored(j)
        <3>1. data' = j /\ kept' = kept \cup {j} /\ jpc[j] = "store"
            BY <2>2 DEF Store, PutFails, Stored
        <3>2. \A i \in kept : ~(j < i)
            BY <3>1 DEF Newest, Turns, TypeOK
        <3>3. ASSUME NEW i \in kept' PROVE jpc'[i] # "idle" /\ j >= i
            <4>1. i \in Jobs /\ i \in Nat /\ j \in Nat
                BY <3>1 DEF TypeOK
            <4>2. jpc[i] # "idle"
                BY <3>1 DEF Newest
            <4>3. ~(j < i)
                BY <3>1, <3>2, <4>1
            <4> QED BY <2>1, <4>1, <4>2, <4>3
        <3> QED BY <3>1, <3>3 DEF Newest
    <2>3. CASE ~(Store(j) /\ Stored(j))
        <3>1. kept' = kept /\ (data' = data \/ data' = None)
            BY <1>1, <2>3 DEF AJob, JobStep, Start, CheckPromise, LoadPromise,
                WritePromise, EraseOld, Compute, Store, PutFails, Drop, ClearPromises,
                Die
        <3> QED BY <2>1, <3>1 DEF Newest, TypeOK
    <2> QED BY <2>2, <2>3
<1>2. ASSUME NEW c \in Consumers, ACons(c) PROVE Newest'
    BY <1>2, ConsumersOnlyRead DEF Newest
<1>3. CASE UNCHANGED vars
    BY <1>3 DEF Newest, vars
<1> QED BY <1>1, <1>2, <1>3, NextCases

\* The end of a job is final
LEMMA EndedForGood ==
    ASSUME TypeOK, [Next]_vars, NEW i \in Jobs
    PROVE  /\ jpc[i] # "idle" => jpc'[i] # "idle"
           /\ Ended(i) => Ended(i)'
<1>1. ASSUME NEW j \in Jobs, AJob(j)
      PROVE  (jpc[i] # "idle" => jpc'[i] # "idle") /\ (Ended(i) => Ended(i)')
    BY <1>1 DEF AJob, JobStep, Start, CheckPromise, LoadPromise, WritePromise,
        EraseOld, Compute, Store, PutFails, Stored, Drop,
                ClearPromises, Die, TypeOK
<1>2. ASSUME NEW c \in Consumers, ACons(c) PROVE jpc' = jpc
    BY <1>2, ConsumersOnlyRead
<1> QED BY <1>1, <1>2, NextCases DEF vars

\* Only the end of the latest job, by itself, takes the promise away
LEMMA PromiseTakenAtTheEnd ==
    ASSUME TypeOK, Turns, [Next]_vars, prom # None, prom' = None
    PROVE  \A i \in Jobs : jpc[i] # "idle" => Ended(i)'
<1>1. PICK j \in Jobs : AJob(j)
    BY NextCases, ConsumersOnlyRead DEF vars
<1>2. Drop(j) \/ ClearPromises(j)
    <2>1. \A i \in Jobs : Desc[i] # None
        OBVIOUS
    <2> QED BY <1>1, <2>1 DEF AJob, JobStep, Start, CheckPromise, LoadPromise,
            WritePromise, EraseOld, Compute, Store, PutFails, Stored, Die
<1>3. Running(j) /\ jpc' = [jpc EXCEPT ![j] = "over"]
    BY <1>2 DEF Drop, ClearPromises
<1>4. \A i \in Jobs : i # j /\ jpc[i] # "idle" => Ended(i)
    BY <1>3 DEF Turns
<1> QED BY <1>3, <1>4 DEF TypeOK

LEMMA AfterTheEndStep ==
    ASSUME TypeOK, Turns, AfterTheEnd, [Next]_vars PROVE AfterTheEnd'
<1>1. ASSUME NEW c \in Consumers, told'[c] = told[c], told[c] # None,
             cpc'[c] \in {"get2", "got"} => cpc[c] = cpc'[c] \/ Ended(told[c])
      PROVE  /\ jpc'[told'[c]] # "idle"
             /\ prom' = None => Ended(told[c])'
             /\ cpc'[c] \in {"get2", "got"} => Ended(told[c])'
    <2>1. told[c] \in Jobs
        BY <1>1 DEF TypeOK
    <2>2. jpc[told[c]] # "idle" /\ (prom = None => Ended(told[c]))
        BY <1>1 DEF AfterTheEnd
    <2>3. jpc'[told[c]] # "idle"
        BY <2>1, <2>2, EndedForGood
    <2>4. Ended(told[c]) => jpc'[told[c]] \in {"over", "unkept", "dead"}
        BY <2>1, EndedForGood
    <2>5. prom' = None => jpc'[told[c]] \in {"over", "unkept", "dead"}
        BY <2>1, <2>2, <2>4, PromiseTakenAtTheEnd
    <2>6. cpc'[c] \in {"get2", "got"} => jpc'[told[c]] \in {"over", "unkept", "dead"}
        BY <1>1, <2>4 DEF AfterTheEnd
    <2> QED BY <1>1, <2>3, <2>5, <2>6
<1>2. ASSUME NEW j \in Jobs, AJob(j) PROVE AfterTheEnd'
    <2>1. told' = told /\ cpc' = cpc
        BY <1>2, JobsIgnoreConsumers
    <2> QED BY <1>1, <2>1 DEF AfterTheEnd
<1>3. ASSUME NEW c \in Consumers, ACons(c) PROVE AfterTheEnd'
    <2>1. UNCHANGED <<prom, jpc>>
        BY <1>3, ConsumersOnlyRead
    <2>2. \A d \in Consumers \ {c} : told'[d] = told[d] /\ cpc'[d] = cpc[d]
        BY <1>3 DEF ACons, ConsStep, Get, GetPromise, GetOther, Poll, LookRemote, TypeOK
    <2>3. CASE GetPromise(c) /\ prom # None
        <3>1. PICK i \in Jobs : Latest(i) /\ told' = [told EXCEPT ![c] = i]
            BY <2>3 DEF GetPromise
        <3>2. told'[c] = i /\ jpc[i] # "idle" /\ cpc'[c] = "expected"
            BY <2>3, <3>1 DEF GetPromise, TypeOK
        <3> QED BY <2>1, <2>2, <2>3, <3>2 DEF AfterTheEnd
    <2>4. CASE ~(GetPromise(c) /\ prom # None)
        <3>1. told' = told
            BY <1>3, <2>4 DEF ACons, ConsStep, Get, GetPromise, GetOther, Poll,
                LookRemote
        <3>2. told[c] # None /\ cpc'[c] \in {"get2", "got"}
                => cpc[c] = cpc'[c] \/ Ended(told[c])
            BY <1>3, <2>4 DEF ACons, ConsStep, Get, GetPromise, GetOther, Poll,
                LookRemote, TypeOK, AfterTheEnd
        <3> QED BY <1>1, <2>2, <3>1, <3>2 DEF AfterTheEnd
    <2> QED BY <2>3, <2>4
<1>4. CASE UNCHANGED vars
    BY <1>4 DEF AfterTheEnd, vars
<1> QED BY <1>2, <1>3, <1>4, NextCases

LEMMA FreshStep ==
    ASSUME TypeOK, Newest, SeesHoles, AfterTheEnd, FreshAfterPromise, [Next]_vars
    PROVE  FreshAfterPromise'
<1>1. ASSUME NEW j \in Jobs, AJob(j) PROVE FreshAfterPromise'
    <2> SUFFICES ASSUME NEW c \in Consumers, cpc[c] = "got", told[c] \in kept'
                 PROVE  got[c] >= told[c]
        BY <1>1, JobsIgnoreConsumers DEF FreshAfterPromise
    <2>1. CASE Store(j)
        <3>1. told[c] # j
            <4>1. j # None /\ ~Ended(j)
                BY <2>1 DEF Store, PutFails, Stored
            <4> QED BY <4>1 DEF AfterTheEnd
        <3> QED BY <2>1, <3>1 DEF Store, PutFails, Stored, FreshAfterPromise
    <2>2. CASE ~Store(j)
        <3>1. kept' = kept
            BY <1>1, <2>2 DEF AJob, JobStep, Start, CheckPromise, LoadPromise,
                WritePromise, EraseOld, Compute, Drop, ClearPromises, Die
        <3> QED BY <3>1 DEF FreshAfterPromise
    <2> QED BY <2>1, <2>2
<1>2. ASSUME NEW c \in Consumers, ACons(c) PROVE FreshAfterPromise'
    <2>1. kept' = kept
        BY <1>2, ConsumersOnlyRead
    <2>2. CASE GetOther(c)
        <3>1. told' = told /\ got' = [got EXCEPT ![c] = data]
              /\ cpc' = [cpc EXCEPT ![c] = IF data # None THEN "got" ELSE "missed"]
            BY <2>2 DEF GetOther
        <3>2. ASSUME data # None, told[c] \in kept PROVE data >= told[c]
            BY <3>2 DEF Newest
        <3> QED BY <2>1, <3>1, <3>2 DEF FreshAfterPromise, TypeOK
    <2>3. CASE ~GetOther(c)
        <3>1. got' = got
            BY <1>2, <2>3 DEF ACons, ConsStep, Get, GetPromise, Poll, LookRemote
        <3>2. \A d \in Consumers :
                cpc'[d] = "got" => cpc[d] = "got" /\ told'[d] = told[d]
            BY <1>2, <2>3 DEF ACons, ConsStep, Get, GetPromise, Poll, LookRemote, TypeOK
        <3> QED BY <2>1, <3>1, <3>2 DEF FreshAfterPromise
    <2> QED BY <2>2, <2>3
<1>3. CASE UNCHANGED vars
    BY <1>3 DEF FreshAfterPromise, vars
<1> QED BY <1>1, <1>2, <1>3, NextCases

LEMMA InitIInv == Init => IInv
<1> SUFFICES ASSUME Init PROVE IInv
    OBVIOUS
<1>1. TypeOK
    BY DEF Init, TypeOK, JobPC, ConsPC
<1>2. Turns /\ Covered /\ NoOrphan /\ Newest
    BY DEF Init, Turns, Covered, NoOrphan, Newest
<1>3. SeesHoles /\ AfterTheEnd /\ FreshAfterPromise
    BY DEF Init, SeesHoles, AfterTheEnd, FreshAfterPromise
<1> QED BY <1>1, <1>2, <1>3 DEF IInv

LEMMA IInvStep == IInv /\ [Next]_vars => IInv'
    BY TypeStep, TurnsStep, CoveredStep, NoOrphanStep, SeesHolesStep, NewestStep,
       AfterTheEndStep, FreshStep DEF IInv

LEMMA IInvAlways == Spec => []IInv
    BY InitIInv, IInvStep, PTL DEF Spec

\* Every variable of the protocol keeps its type.
THEOREM TypeCorrect == Spec => []TypeOK
<1>1. IInv => TypeOK
    BY DEF IInv
<1> QED BY <1>1, IInvAlways, PTL

\* The unlocked reads of a consumer (PromiseStore.get, Handler.wait) never fall
\* between the storing of the resource and the removal of its promise.
THEOREM NeverAFalseMiss == Spec => []NoFalseMiss
<1>1. IInv => NoFalseMiss
    BY DEF IInv, SeesHoles, NoFalseMiss
<1> QED BY <1>1, IInvAlways, PTL

\* The last job that started leaves no promise behind when its put was a success or
\* when it was rescued, be it the promise of a job that was killed (PromiseStore.put,
\* Context.clear_promises); when it ends well without keeping its promise, what it
\* leaves says what it promised and is listed by its tracker.
THEOREM NoPromiseLeft == Spec => []NoOrphan
<1>1. IInv => NoOrphan
    BY DEF IInv
<1> QED BY <1>1, IInvAlways, PTL

\* What a consumer gets is not older than the promise it has seen, when that
\* promise was kept.
THEOREM NeverStale == Spec => []FreshAfterPromise
<1>1. IInv => FreshAfterPromise
    BY DEF IInv
<1> QED BY <1>1, IInvAlways, PTL

\* The protocol, step by step, implements Availability.
THEOREM Refinement == Spec => ImplementsAvailability
<1> USE DEF Avail, Waiting, A!vars
<1>1. Init => A!Init
    BY DEF Init, A!Init
<1>2. ASSUME IInv, [Next]_vars PROVE [A!Next]_(A!vars)
    <2> USE <1>2 DEF IInv, A!Next
    <2>1. ASSUME NEW j \in Jobs, AJob(j) PROVE [A!Next]_(A!vars)
        <3>1. Waiting' = Waiting
            BY <2>1, JobsIgnoreConsumers
        <3>2. CASE prom' = prom /\ data' = data
            BY <3>1, <3>2
        <3>3. CASE WritePromise(j)
            <4>1. Avail' = "promised"
                BY <3>3 DEF WritePromise
            <4> QED BY <3>1, <4>1 DEF A!Promise
        <3>4. CASE EraseOld(j) \/ Store(j)
            <4>1. prom # None /\ prom' = prom
                BY <3>4 DEF EraseOld, Store, PutFails, Stored, Covered
            <4> QED BY <3>1, <4>1
        <3>5. CASE Drop(j) \/ ClearPromises(j)
            <4>1. prom' = None \/ prom' = prom
                BY <3>5 DEF Drop, ClearPromises
            <4>2. data' = data
                BY <3>5 DEF Drop, ClearPromises
            <4>3. CASE prom' = None /\ prom # None
                BY <3>1, <4>2, <4>3 DEF A!Keep, A!Withdraw
            <4> QED BY <3>2, <4>1, <4>2, <4>3
        <3> QED BY <2>1, <3>2, <3>3, <3>4, <3>5 DEF AJob, JobStep, Start,
                CheckPromise, LoadPromise, Compute, Die
    <2>2. ASSUME NEW c \in Consumers, ACons(c) PROVE [A!Next]_(A!vars)
        <3>1. Avail' = Avail
            BY <2>2, ConsumersOnlyRead
        <3>2. \A d \in Consumers \ {c} : cpc'[d] = cpc[d]
            BY <2>2 DEF ACons, ConsStep, Get, GetPromise, GetOther, Poll, LookRemote,
                TypeOK
        <3>3. CASE cpc'[c] = "expected" /\ cpc[c] # "expected"
            <4>1. Avail = "promised"
                BY <2>2, <3>3 DEF ACons, ConsStep, Get, GetPromise, GetOther, Poll,
                    LookRemote, TypeOK
            <4>2. Waiting' = Waiting \cup {c}
                BY <3>2, <3>3
            <4> QED BY <3>1, <4>1, <4>2 DEF A!StartWaiting
        <3>4. CASE cpc'[c] # "expected" /\ cpc[c] = "expected"
            <4>1. Waiting' = Waiting \ {c} /\ c \in Waiting
                BY <3>2, <3>4
            <4> QED BY <3>1, <4>1 DEF A!StopWaiting
        <3>5. CASE (cpc'[c] = "expected") <=> (cpc[c] = "expected")
            <4>1. Waiting' = Waiting
                BY <3>2, <3>5
            <4> QED BY <3>1, <4>1
        <3> QED BY <3>3, <3>4, <3>5
    <2>3. CASE UNCHANGED vars
        BY <2>3 DEF vars
    <2> QED BY <2>1, <2>2, <2>3, NextCases
<1> QED BY <1>1, <1>2, IInvAlways, PTL DEF Spec, ImplementsAvailability, A!Spec

==================================================================================

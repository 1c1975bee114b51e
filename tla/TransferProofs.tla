----------------------------- MODULE TransferProofs -----------------------------
(***************************************************************************)
(* Safety proofs about the batch get: any number of sections, of targets,  *)
(* of formats, and whatever the other jobs do in the cache; then about the *)
(* FTP client: any number of tries and of users, any error.                *)
(***************************************************************************)
EXTENDS DelayedGet, FtpClient, SequenceTheorems, TLAPS

Fetching == {"cache", "archive", "refill"}
Before == {"early", "finalise"}

Typed ==
    /\ want \in [Sections -> Wants]
    /\ cache \in [Targets -> Targets \cup {"none", "empty"}]
    /\ local \in [Sections -> Targets \cup {"none", "empty"}]
    /\ pc \in {"early", "finalise", "section", "cache", "archive", "refill", "over"}
    /\ cur \in Sections /\ id \in 0..N
    /\ flag \in [Sections -> {"true", "id", "none"}]
    /\ action \in [Sections -> {"void", "done", "failed", "unclear", "gone"}]
    /\ result \in [Sections -> Targets \cup {"none", "empty"}]
    /\ DOMAIN ok = Sections
    /\ fed \subseteq Sections /\ denied \subseteq Sections

(***************************************************************************)
(* The life of the actions.                                                *)
(***************************************************************************)
\* A section has an action only if it holds its identifier; the early gets make them one
\* after the other, at most one for a path
Registered ==
    /\ \A s \in Sections : action[s] # "gone" => flag[s] = "id"
    /\ pc = "early" => \A s \in Sections : s >= cur => flag[s] = "none" /\ action[s] = "gone"
    /\ \A r, s \in Sections :
          action[r] # "gone" /\ action[s] # "gone" /\ Target(r) = Target(s) => r = s

\* An identifier waits until its section uses it
Waiting ==
    /\ \A s \in Sections :
          flag[s] = "id" /\ (pc \in Before \/ s > cur \/ (s = cur /\ pc = "section"))
            => action[s] # "gone"
    /\ id # 0 => id = cur /\ pc \in {"cache", "archive"} /\ action[id] # "gone"

Settling == pc \notin Before => \A s \in Sections : action[s] # "void"

Life == Typed /\ Registered /\ Waiting /\ Settling

(***************************************************************************)
(* The data of the results, of the containers and of the cache.            *)
(***************************************************************************)
NominalFirst ==
    \A s \in Sections : IF want[s].alternate THEN File(s) < s /\ ~want[File(s)].alternate
                        ELSE File(s) = s

\* A done action has fetched its own path, one that failed has fetched nothing
Fetched ==
    \A s \in Sections :
        /\ action[s] = "void" => result[s] = "empty"
        /\ action[s] = "done" => result[s] = Target(s)
        /\ action[s] = "failed" => result[s] = "empty"

\* Nothing is answered before its turn
Future ==
    \A s \in Sections :
        pc \in Before \/ s > cur \/ (s = cur /\ pc = "section") => ~ok[s] /\ s \notin fed
Untouched ==
    /\ pc \in Before => \A f \in Sections : local[f] = "none"
    /\ pc = "finalise" => cur = 1

\* Who has fed a container still finds its own data there
FedHolds == \A s \in fed : local[File(s)] = Target(s)
Fills == \A f \in Sections : local[f] # "none" => \E s \in fed : File(s) = f
OkExists == \A s \in Sections : ok[s] \/ flag[s] = "true" => Exists(s)

\* A section that fetches is the first to do so for its container
First ==
    pc \in Fetching => \A s \in Sections : s # cur /\ File(s) = File(cur) => ~ok[s] /\ s \notin fed
Refilling == pc = "refill" => cur \in fed

Denied ==
    pc \notin Before =>
        \A s \in Sections : (~ok[s] /\ (s < cur \/ pc = "over")) => s \in denied

Data ==
    /\ NominalFirst /\ Fetched /\ Future /\ Untouched /\ FedHolds /\ Fills /\ OkExists
    /\ First /\ Refilling /\ Denied /\ CacheSound

\* What the batch needs of the paths of its files: none is part of another
NoPathInside == \A t, u \in Targets : <<t, u>> \in Within => t = u

--------------------------------------------------------------------------------
(***************************************************************************)
(* Each step keeps the life of the actions in order.                       *)
(***************************************************************************)
LEMMA EarlyLife ==
    ASSUME Life, Early
    PROVE  Life'
<1> USE DelayedGetAssumption DEF Life, Typed, asked, batch, history, Before, Sections, Target
<1>1. /\ pc = "early" /\ id = 0
      /\ UNCHANGED <<want, archive, cache, local, id, ok, others, fed, denied>>
      /\ \/ cur < N /\ cur' = cur + 1 /\ pc' = "early"
         \/ cur = N /\ cur' = 1 /\ pc' \in {"finalise", "section"}
              /\ (pc' = "section" => \A s \in Sections : flag'[s] # "id")
    BY DEF Early, Waiting
<1>2. \/ /\ flag' = [flag EXCEPT ![cur] = "true"] /\ UNCHANGED <<action, result>>
      \/ /\ Registers(cur)
         /\ flag' = [flag EXCEPT ![cur] = "id"]
         /\ action' = [action EXCEPT ![cur] = "void"]
         /\ result' = [result EXCEPT ![cur] = "empty"]
      \/ UNCHANGED <<flag, action, result>>
    BY DEF Early
<1>3. Typed'
    BY <1>1, <1>2
<1>4. Registered'
    BY <1>1, <1>2 DEF Registered, Registers
<1>5. \A s \in Sections : flag'[s] = "id" => action'[s] # "gone"
    BY <1>1, <1>2 DEF Waiting
<1>6. Waiting'
    BY <1>1, <1>5 DEF Waiting
<1>7. Settling'
    BY <1>1, <1>4 DEF Settling, Registered
<1> QED BY <1>3, <1>4, <1>6, <1>7

\* What the command of a format does to the actions and to their temporary files
LEMMA Settles ==
    ASSUME Life, NEW f \in BOOLEAN, Command(f)
    PROVE  /\ pc = "finalise"
           /\ UNCHANGED <<want, archive, cache, local, pc, cur, flag, id, ok, others, fed, denied>>
           /\ action' \in [Sections -> {"void", "done", "failed", "unclear", "gone"}]
           /\ result' \in [Sections -> Targets \cup {"none", "empty"}]
           /\ \A s \in Sections :
                 \/ action'[s] = action[s] /\ result'[s] = result[s]
                 \/ action[s] = "void" /\ action'[s] \in {"done", "failed", "unclear"}
<1> USE DEF Life, Typed, Sections, asked, history
<1>1. PICK fetched \in SUBSET {s \in Pending(f) : Target(s) \in archive} :
        /\ result' = [s \in Sections |-> IF s \in fetched THEN Target(s) ELSE result[s]]
        /\ \/ fetched = Pending(f)
              /\ action' = [s \in Sections |-> IF s \in Pending(f) THEN "done" ELSE action[s]]
           \/ \E acked \in SUBSET Pending(f) : \E code \in [Pending(f) -> {"OK", "ABORT", "nothing"}] :
                /\ \A s \in Pending(f) : code[s] \in Said(s, acked, fetched)
                /\ action' = [s \in Sections |-> IF s \in Pending(f) THEN Settled(code[s])
                                                 ELSE action[s]]
           \/ fetched = {}
              /\ action' = [s \in Sections |-> IF s \in Pending(f) THEN "unclear" ELSE action[s]]
    BY DEF Command
<1>2. pc = "finalise" /\ UNCHANGED <<want, archive, cache, local, pc, cur, flag, id, ok, others, fed, denied>>
    BY DEF Command
<1>3. PICK st \in [Pending(f) -> {"done", "failed", "unclear"}] :
        action' = [s \in Sections |-> IF s \in Pending(f) THEN st[s] ELSE action[s]]
    <2>1. CASE action' = [s \in Sections |-> IF s \in Pending(f) THEN "done" ELSE action[s]]
        <3>1. [s \in Pending(f) |-> "done"] \in [Pending(f) -> {"done", "failed", "unclear"}]
            OBVIOUS
        <3> QED BY <2>1, <3>1
    <2>2. CASE action' = [s \in Sections |-> IF s \in Pending(f) THEN "unclear" ELSE action[s]]
        <3>1. [s \in Pending(f) |-> "unclear"] \in [Pending(f) -> {"done", "failed", "unclear"}]
            OBVIOUS
        <3> QED BY <2>2, <3>1
    <2>3. ASSUME NEW code, action' = [s \in Sections |-> IF s \in Pending(f) THEN Settled(code[s])
                                                          ELSE action[s]]
          PROVE  \E st \in [Pending(f) -> {"done", "failed", "unclear"}] :
                    action' = [s \in Sections |-> IF s \in Pending(f) THEN st[s] ELSE action[s]]
        <3>1. [s \in Pending(f) |-> Settled(code[s])] \in [Pending(f) -> {"done", "failed", "unclear"}]
            BY DEF Settled
        <3> QED BY <2>3, <3>1
    <2> QED BY <1>1, <2>1, <2>2, <2>3
<1>4. \A s \in Pending(f) : s \in Sections /\ action[s] = "void"
    BY DEF Pending
<1>5. \A s \in Sections : Target(s) \in Targets
    BY DEF Target, Wants
<1>6. action' \in [Sections -> {"void", "done", "failed", "unclear", "gone"}]
    BY <1>3
<1>7. result' \in [Sections -> Targets \cup {"none", "empty"}]
    BY <1>1, <1>5
<1>8. ASSUME NEW s \in Sections
      PROVE  \/ action'[s] = action[s] /\ result'[s] = result[s]
             \/ action[s] = "void" /\ action'[s] \in {"done", "failed", "unclear"}
    BY <1>1, <1>3, <1>4
<1> QED BY <1>2, <1>6, <1>7, <1>8

LEMMA CommandLife ==
    ASSUME Life, NEW f \in BOOLEAN, Command(f)
    PROVE  Life'
<1> USE Settles DEF Life, Before
<1>1. Typed'
    BY DEF Typed
<1>2. Registered'
    BY DEF Registered, Target
<1>3. Waiting'
    BY DEF Waiting
<1>4. Settling'
    BY DEF Settling
<1> QED BY <1>1, <1>2, <1>3, <1>4

LEMMA FinalisedLife ==
    ASSUME Life, Finalised
    PROVE  Life'
<1> USE DEF Life, Typed, Before, batch, asked, history, Target
<1>1. pc = "finalise" /\ pc' = "section" /\ UNCHANGED <<asked, cache, local, cur, batch, id, ok, others, history>>
    BY DEF Finalised
<1>2. \A s \in Sections : action[s] # "void"
    <2>1. Pending(TRUE) = {} /\ Pending(FALSE) = {}
        BY DEF Finalised, Waits
    <2> QED BY <2>1 DEF Pending
<1>3. Typed' /\ Registered'
    BY <1>1 DEF Registered
<1>4. Waiting' /\ Settling'
    BY <1>1, <1>2 DEF Waiting, Settling
<1> QED BY <1>3, <1>4

\* The steps of the sections, seen from the actions
Turns ==
    /\ Typed' /\ pc \notin Before /\ pc' \notin Before
    /\ UNCHANGED <<want, flag>>
    /\ \A s \in Sections : action'[s] = action[s] \/ (s = cur /\ action'[s] = "gone" /\ id' = 0)
    /\ \/ cur' = cur /\ pc' # "section" /\ (id' = 0 \/ (id' = id /\ pc' \in {"cache", "archive"}))
       \/ cur' = cur /\ pc = "section" /\ pc' = "cache"
            /\ (id' = 0 \/ (id' = cur /\ flag[cur] = "id")) /\ UNCHANGED action
       \/ cur' = cur + 1 /\ id' = 0

LEMMA TurnsLife ==
    ASSUME Life, Turns
    PROVE  Life'
<1> USE DelayedGetAssumption DEF Life, Turns, Before, Sections
<1>1. Registered'
    BY DEF Registered, Target
<1>2. Waiting'
    BY DEF Waiting, Typed
<1>3. Settling'
    BY DEF Settling
<1> QED BY <1>1, <1>2, <1>3

LEMMA SameTypes ==
    ASSUME Typed, UNCHANGED <<want, flag>>,
           cache' \in [Targets -> Targets \cup {"none", "empty"}],
           local' \in [Sections -> Targets \cup {"none", "empty"}],
           pc' \in Fetching \cup {"section", "over"},
           cur' \in Sections, id' = 0,
           action' \in [Sections -> {"void", "done", "failed", "unclear", "gone"}],
           result' \in [Sections -> Targets \cup {"none", "empty"}],
           DOMAIN ok' = Sections, fed' \subseteq Sections, denied' \subseteq Sections
    PROVE  Typed'
<1>1. 0 \in 0..N
    BY DelayedGetAssumption
<1> QED BY <1>1 DEF Typed, Fetching

LEMMA Paths ==
    ASSUME Life
    PROVE  \A s \in Sections : Target(s) \in Targets /\ File(s) \in Sections
BY DEF Life, Typed, Target, File, Wants

LEMMA Answered ==
    ASSUME Life, NEW b \in BOOLEAN, Answer(cur, b)
    PROVE  /\ id' = 0 /\ ok' = [ok EXCEPT ![cur] = b] /\ DOMAIN ok' = Sections /\ cur' \in Sections
           /\ \/ cur < N /\ cur' = cur + 1 /\ pc' = "section"
              \/ cur = N /\ cur' = cur /\ pc' = "over"
<1> USE DelayedGetAssumption DEF Answer, Life, Typed, Sections
<1>1. id' = 0 /\ ok' = [ok EXCEPT ![cur] = b] /\ DOMAIN ok' = Sections
    OBVIOUS
<1>2. \/ cur < N /\ cur' = cur + 1 /\ pc' = "section"
      \/ cur = N /\ cur' = cur /\ pc' = "over"
    OBVIOUS
<1> QED BY <1>1, <1>2

LEMMA SectionTurns ==
    ASSUME Life, Section
    PROVE  Turns
<1> USE DelayedGetAssumption DEF Life, Typed, Turns, Before, Sections, asked, batch, history, Answer
<1>1. CASE (flag[cur] = "true" \/ Filled(cur)) /\ Answer(cur, TRUE)
    BY <1>1 DEF Section
<1>2. CASE pc' = "cache" /\ id' = (IF flag[cur] = "id" THEN cur ELSE 0) /\ UNCHANGED <<cur, ok>>
    BY <1>2 DEF Section
<1> QED BY <1>1, <1>2 DEF Section

LEMMA LookInCacheTurns ==
    ASSUME Life, LookInCache
    PROVE  Turns
<1> USE DelayedGetAssumption, Paths DEF Life, Typed, Turns, Before, Sections, asked, batch, history,
        Feed, NotFed
<1>1. /\ pc = "cache" /\ UNCHANGED <<asked, cache, batch, others>>
      /\ File(cur) \in Sections /\ Target(cur) \in Targets
    BY DEF LookInCache
<1>2. CASE Feed(cur, cache[Target(cur)]) /\ Answer(cur, TRUE) /\ UNCHANGED denied
    <2>1. local' \in [Sections -> Targets \cup {"none", "empty"}] /\ fed' \subseteq Sections
        BY <1>1, <1>2
    <2>2. Typed'
        <3>1. /\ cur' \in Sections /\ id' = 0 /\ DOMAIN ok' = Sections
              /\ pc' \in Fetching \cup {"section", "over"}
            BY <1>2, Answered
        <3>2. denied' \subseteq Sections /\ UNCHANGED <<want, cache, flag, action, result>>
            BY <1>1, <1>2
        <3> QED BY <2>1, <3>1, <3>2, SameTypes
    <2> HIDE DEF Typed
    <2> QED BY <1>1, <1>2, <2>2, Answered
<1>3. CASE pc' = "archive" /\ UNCHANGED <<cur, id, ok>> /\ NotFed
    BY <1>1, <1>3
<1> QED BY <1>2, <1>3 DEF LookInCache

LEMMA PlainGetTurns ==
    ASSUME Life, PlainGet
    PROVE  Turns
<1> USE DelayedGetAssumption, Paths DEF Life, Typed, Turns, Before, Sections, asked, batch, history,
        Feed
<1>1. /\ pc = "archive" /\ id = 0 /\ UNCHANGED <<asked, cache, batch, others>>
      /\ File(cur) \in Sections /\ Target(cur) \in Targets
    BY DEF PlainGet
<1>2. CASE Feed(cur, Target(cur)) /\ pc' = "refill" /\ UNCHANGED <<cur, id, ok, denied>>
    BY <1>1, <1>2
<1>3. CASE Answer(cur, FALSE) /\ denied' = denied \cup {cur} /\ UNCHANGED <<local, fed>>
    BY <1>1, <1>3, Answered
<1> QED BY <1>2, <1>3 DEF PlainGet

LEMMA TakeResultTurns ==
    ASSUME Life, TakeResult
    PROVE  Turns
<1> USE DelayedGetAssumption, Paths DEF Life, Typed, Turns, Before, Sections, asked, history,
        Feed, NotFed, Unclear
<1>1. /\ pc = "archive" /\ id = cur /\ action' = [action EXCEPT ![cur] = "gone"]
      /\ UNCHANGED <<asked, cache, flag, others>> /\ File(cur) \in Sections /\ Target(cur) \in Targets
    BY DEF TakeResult, Waiting
<1>2. /\ action' \in [Sections -> {"void", "done", "failed", "unclear", "gone"}]
      /\ action'[cur] = "gone" /\ \A s \in Sections : s # cur => action'[s] = action[s]
    BY <1>1
<1>3. CASE /\ Feed(cur, result[id]) /\ result' = [result EXCEPT ![id] = "none"]
           /\ pc' = "refill" /\ id' = 0 /\ UNCHANGED <<cur, ok, denied>>
    <2>1. local' \in [Sections -> Targets \cup {"none", "empty"}] /\ fed' \subseteq Sections
        BY <1>1, <1>3
    <2>2. result' \in [Sections -> Targets \cup {"none", "empty"}]
        BY <1>1, <1>3
    <2>3. Typed'
        <3>1. /\ UNCHANGED <<want, cache, cur, flag, ok, denied>>
              /\ pc' \in Fetching \cup {"section", "over"} /\ id' = 0
            BY <1>1, <1>3 DEF Fetching
        <3> QED BY <1>2, <2>1, <2>2, <3>1, SameTypes
    <2> HIDE DEF Typed
    <2> QED BY <1>1, <1>2, <1>3, <2>3
<1>4. CASE /\ Answer(cur, FALSE) /\ denied' = denied \cup IF result[id] = Target(cur) THEN {} ELSE {cur}
           /\ UNCHANGED <<local, fed, result>>
    <2>1. denied' \subseteq Sections
        BY <1>4
    <2>2. Typed'
        <3>1. /\ cur' \in Sections /\ id' = 0 /\ DOMAIN ok' = Sections
              /\ pc' \in Fetching \cup {"section", "over"}
            BY <1>4, Answered
        <3>2. UNCHANGED <<want, cache, local, flag, result, fed>>
            BY <1>1, <1>4
        <3> QED BY <1>2, <2>1, <3>1, <3>2, SameTypes
    <2> HIDE DEF Typed
    <2> QED BY <1>1, <1>2, <1>4, <2>2, Answered
<1>5. CASE Unclear(cur) /\ NotFed /\ UNCHANGED result
    <2>1. Typed'
        <3>1. /\ UNCHANGED <<want, cache, local, cur, flag, result, ok, fed, denied>>
              /\ pc' \in Fetching \cup {"section", "over"} /\ id' = 0
            BY <1>1, <1>5 DEF Fetching
        <3> QED BY <1>2, <3>1, SameTypes
    <2> HIDE DEF Typed
    <2> QED BY <1>1, <1>2, <1>5, <2>1
<1> QED BY <1>3, <1>4, <1>5 DEF TakeResult

LEMMA RefillTurns ==
    ASSUME Life, Refill
    PROVE  Turns
<1> USE DelayedGetAssumption, Paths DEF Life, Typed, Turns, Before, Sections, asked, batch, history
<1>1. pc = "refill" /\ id = 0 /\ UNCHANGED <<asked, local, batch, others, history>>
    BY DEF Refill, Waiting
<1>2. local[File(cur)] \in Targets \cup {"none", "empty"}
    OBVIOUS
<1>3. UNCHANGED cache \/ cache' = [cache EXCEPT ![Target(cur)] = local[File(cur)]]
    BY DEF Refill
<1>4. cache' \in [Targets -> Targets \cup {"none", "empty"}]
    BY <1>2, <1>3
<1>5. (pc' = "cache" /\ UNCHANGED <<cur, id, ok>>) \/ Answer(cur, TRUE)
    BY DEF Refill
<1> QED BY <1>1, <1>4, <1>5, Answered

LEMMA OtherLife ==
    ASSUME Life, Other
    PROVE  Life'
<1> USE DEF Life, batch, asked, history, Target
<1>1. UNCHANGED <<want, local, pc, cur, flag, action, result, id, ok, fed, denied>>
    BY DEF Other
<1>2. cache' \in [Targets -> Targets \cup {"none", "empty"}]
    BY DEF Other, Typed
<1>3. Typed'
    BY <1>1, <1>2 DEF Typed
<1>4. Registered' /\ Waiting' /\ Settling'
    BY <1>1 DEF Registered, Waiting, Settling
<1> QED BY <1>3, <1>4

LEMMA LifeKept ==
    ASSUME Life, [Next]_vars
    PROVE  Life'
<1>1. CASE Step
    BY <1>1, EarlyLife, CommandLife, FinalisedLife, TurnsLife, SectionTurns, LookInCacheTurns,
       PlainGetTurns, TakeResultTurns, RefillTurns DEF Step
<1>2. CASE UNCHANGED vars
    BY <1>2 DEF vars, asked, batch, history, Life, Typed, Registered, Waiting, Settling, Target
<1> QED BY <1>1, <1>2, OtherLife DEF Next, Over

LEMMA LifeAlways == Spec => []Life
<1>1. Init => Life
    <2> SUFFICES ASSUME Init PROVE Life
        OBVIOUS
    <2> USE DelayedGetAssumption DEF Init, Life, Sections
    <2>1. Typed
        BY DEF Typed
    <2>2. Registered /\ Waiting /\ Settling
        BY DEF Registered, Waiting, Settling, Before
    <2> QED BY <2>1, <2>2
<1> QED BY <1>1, LifeKept, PTL DEF Spec

\* Once the sections take their results no action waits for a command any more, whatever
\* its format, and the identifier that a section holds is one that the hub still knows,
\* until the section has used it, once.
THEOREM SettledOnce == Spec => []EachSettledOnce
<1>1. Life => EachSettledOnce
    BY DEF Life, EachSettledOnce, Settling, Waiting, Before
<1> QED BY <1>1, LifeAlways, PTL

--------------------------------------------------------------------------------
(***************************************************************************)
(* Each step keeps the data where they belong.                             *)
(***************************************************************************)
\* What depends on the turn of the sections, and on who has fed what
Order == NominalFirst /\ Future /\ Untouched /\ OkExists /\ First /\ Refilling /\ Denied

\* The section at work is answered
LEMMA AnswerOrder ==
    ASSUME Life, Data, pc \in Fetching \cup {"section"}, NEW b \in BOOLEAN, Answer(cur, b),
           UNCHANGED <<want, flag>>, fed' \subseteq fed \cup {cur}, denied \subseteq denied',
           b => (\A s \in Sections : s = cur => Exists(s)'), b \/ cur \in denied', \A s \in Sections : Exists(s) => Exists(s)'
    PROVE  Order'
<1> USE DelayedGetAssumption DEF Life, Typed, Data, Order, Before, Fetching, Sections
<1>1. /\ id' = 0 /\ ok' = [ok EXCEPT ![cur] = b] /\ cur' \in Sections
      /\ \/ cur < N /\ cur' = cur + 1 /\ pc' = "section"
         \/ cur = N /\ cur' = cur /\ pc' = "over"
    BY Answered
<1>2. NominalFirst' /\ First' /\ Refilling' /\ Untouched'
    BY <1>1 DEF NominalFirst, File, First, Refilling, Untouched
<1>3. Future'
    BY <1>1 DEF Future
<1>4. OkExists'
    <2> SUFFICES ASSUME NEW s \in Sections, ok'[s] \/ flag'[s] = "true"
                 PROVE  Exists(s)'
        BY DEF OkExists
    <2>1. CASE s = cur /\ ok'[s]
        BY <1>1, <2>1
    <2>2. CASE s # cur /\ ok'[s]
        BY <1>1, <2>2 DEF OkExists
    <2>3. CASE flag'[s] = "true"
        BY <2>3 DEF OkExists
    <2> QED BY <2>1, <2>2, <2>3
<1>5. Denied'
    BY <1>1 DEF Denied
<1> QED BY <1>2, <1>3, <1>4, <1>5

\* The section at work goes on fetching
LEMMA FetchOrder ==
    ASSUME Life, Data, pc \in Fetching \cup {"section"}, pc' \in Fetching,
           UNCHANGED <<want, flag, cur, ok, denied>>, fed' \subseteq fed \cup {cur},
           pc = "section" => ~Filled(cur), pc' = "refill" => cur \in fed',
           \A s \in Sections : Exists(s) => Exists(s)'
    PROVE  Order'
<1> USE DelayedGetAssumption DEF Life, Typed, Data, Order, Before, Fetching, Sections
<1>1. NominalFirst' /\ Refilling' /\ Untouched' /\ Future' /\ OkExists' /\ Denied'
    BY DEF NominalFirst, File, Refilling, Untouched, Future, OkExists, Denied
<1>2. \A s \in Sections : s # cur /\ File(s) = File(cur) => ~ok[s] /\ s \notin fed
    <2>1. CASE pc # "section"
        BY <2>1 DEF First
    <2>2. CASE pc = "section"
        <3> SUFFICES ASSUME NEW s \in Sections, s # cur, File(s) = File(cur)
                     PROVE  ~ok[s] /\ s \notin fed
            OBVIOUS
        <3>1. CASE ~want[cur].alternate
            <4>1. s > cur
                BY <3>1, Paths, SMTT(30) DEF NominalFirst
            <4> QED BY <4>1 DEF Future
        <3>2. CASE ~Exists(cur)
            <4>1. local[File(s)] = "none"
                BY <3>2 DEF Exists
            <4>2. s \notin fed
                BY <4>1, Paths DEF FedHolds
            <4>3. ~ok[s]
                BY <4>1 DEF OkExists, Exists
            <4> QED BY <4>2, <4>3
        <3> QED BY <2>2, <3>1, <3>2 DEF Filled
    <2> QED BY <2>1, <2>2
<1>3. First'
    BY <1>2 DEF First, File
<1> QED BY <1>1, <1>3

\* The section at work feeds its container with the data of its own path
LEMMA FeedKeeps ==
    ASSUME Life, Data, pc \in Fetching, Feed(cur, Target(cur)), UNCHANGED want
    PROVE  /\ FedHolds' /\ Fills' /\ \A s \in Sections : s = cur => Exists(s)'
           /\ \A s \in Sections : Exists(s) => Exists(s)'
<1> USE DelayedGetAssumption, Paths DEF Life, Typed, Data
<1>1. /\ local' = [local EXCEPT ![File(cur)] = Target(cur)] /\ fed' = fed \cup {cur}
      /\ Target(cur) \in Targets /\ Target(cur) # "none" /\ File(cur) \in Sections
    BY DEF Feed
<1>2. \A s \in Sections : File(s)' = File(s) /\ Target(s)' = Target(s)
    BY DEF File, Target
<1>3. FedHolds'
    BY <1>1, <1>2 DEF FedHolds, First
<1>4. Fills'
    BY <1>1, <1>2 DEF Fills
<1>5. \A s \in Sections : Exists(s) => Exists(s)'
    BY <1>1, <1>2 DEF Exists
<1>6. \A s \in Sections : s = cur => Exists(s)'
    BY <1>1, <1>2 DEF Exists
<1> QED BY <1>3, <1>4, <1>5, <1>6

\* What the steps of the sections leave alone
LEMMA SameData ==
    ASSUME Life, Data, UNCHANGED want
    PROVE  /\ UNCHANGED <<local, fed>> => FedHolds' /\ Fills' /\ \A s \in Sections : Exists(s) => Exists(s)'
           /\ UNCHANGED <<action, result>> => Fetched'
           /\ UNCHANGED cache => CacheSound'
<1>1. \A s : File(s)' = File(s) /\ Target(s)' = Target(s)
    BY DEF File, Target
<1> QED BY <1>1 DEF Data, FedHolds, Fills, Exists, Fetched, CacheSound

LEMMA EarlyData ==
    ASSUME Life, Data, Early
    PROVE  Data'
<1> USE DelayedGetAssumption DEF Life, Typed, Data, asked, batch, history, Before, Fetching, Sections
<1>1. /\ pc = "early" /\ cur' \in Sections /\ pc' \in {"early", "finalise", "section"}
      /\ pc' # "early" => cur' = 1
      /\ UNCHANGED <<want, archive, cache, local, id, ok, others, fed, denied>>
    BY DEF Early
<1>2. \A s \in Sections : ~Exists(s)
    BY <1>1, Paths DEF Untouched, Exists
<1>3. \/ /\ flag' = [flag EXCEPT ![cur] = "id"]
         /\ action' = [action EXCEPT ![cur] = "void"]
         /\ result' = [result EXCEPT ![cur] = "empty"]
      \/ UNCHANGED <<flag, action, result>>
    BY <1>2 DEF Early, Filled
<1>4. NominalFirst' /\ FedHolds' /\ Fills' /\ CacheSound'
    BY <1>1 DEF NominalFirst, FedHolds, Fills, CacheSound, File, Target
<1>5. Fetched'
    BY <1>1, <1>3 DEF Fetched, Target
<1>6. Future' /\ Untouched' /\ First' /\ Refilling' /\ Denied'
    BY <1>1 DEF Future, Untouched, First, Refilling, Denied
<1>7. OkExists'
    BY <1>1, <1>3 DEF OkExists, Exists, File
<1> QED BY <1>4, <1>5, <1>6, <1>7

LEMMA CommandData ==
    ASSUME Life, Data, NoPathInside, NEW f \in BOOLEAN, Command(f)
    PROVE  Data'
<1> USE DEF Life, Typed, Data, Before
<1>1. /\ pc = "finalise"
      /\ UNCHANGED <<want, archive, cache, local, pc, cur, flag, id, ok, others, fed, denied>>
    BY Settles
<1>2. /\ NominalFirst' /\ FedHolds' /\ Fills' /\ CacheSound' /\ Future' /\ Untouched' /\ First'
      /\ Refilling' /\ Denied' /\ OkExists'
    BY <1>1 DEF NominalFirst, FedHolds, Fills, CacheSound, Future, Untouched, First, Refilling, Denied,
       OkExists, Exists, File, Target, Fetching
<1>3. Fetched'
    <2>1. PICK fetched \in SUBSET {s \in Pending(f) : Target(s) \in archive} :
            /\ result' = [s \in Sections |-> IF s \in fetched THEN Target(s) ELSE result[s]]
            /\ \/ fetched = Pending(f)
                  /\ action' = [s \in Sections |-> IF s \in Pending(f) THEN "done" ELSE action[s]]
               \/ \E acked \in SUBSET Pending(f) : \E code \in [Pending(f) -> {"OK", "ABORT", "nothing"}] :
                    /\ \A s \in Pending(f) : code[s] \in Said(s, acked, fetched)
                    /\ action' = [s \in Sections |-> IF s \in Pending(f) THEN Settled(code[s])
                                                     ELSE action[s]]
               \/ fetched = {}
                  /\ action' = [s \in Sections |-> IF s \in Pending(f) THEN "unclear" ELSE action[s]]
        BY DEF Command
    <2>2. \A s \in Pending(f) : s \in Sections /\ action[s] = "void" /\ result[s] = "empty"
        BY DEF Pending, Fetched
    <2> SUFFICES ASSUME NEW s \in Sections
                 PROVE  /\ action'[s] = "void" => result'[s] = "empty"
                        /\ action'[s] = "done" => result'[s] = Target(s)
                        /\ action'[s] = "failed" => result'[s] = "empty"
        BY <1>1 DEF Fetched, Target
    <2>3. CASE s \notin Pending(f)
        BY <2>1, <2>3 DEF Fetched
    <2>4. CASE s \in Pending(f) /\ action'[s] = "done" /\ fetched = Pending(f)
        BY <2>1, <2>4
    <2>5. CASE s \in Pending(f) /\ action'[s] = "unclear"
        BY <2>5
    <2>6. ASSUME s \in Pending(f), NEW acked \in SUBSET Pending(f),
                 NEW code \in [Pending(f) -> {"OK", "ABORT", "nothing"}],
                 code[s] \in Said(s, acked, fetched), action'[s] = Settled(code[s])
          PROVE  /\ action'[s] = "void" => result'[s] = "empty"
                 /\ action'[s] = "done" => result'[s] = Target(s)
                 /\ action'[s] = "failed" => result'[s] = "empty"
        <3> DEFINE mine == {r \in acked : Target(r) = Target(s) \/ <<Target(s), Target(r)>> \in Within}
        <3>1. \A r \in mine : r = s
            BY <2>2, <2>6, Paths DEF NoPathInside, Registered
        <3>2. code[s] = "OK" => s \in fetched
            BY <2>6, <3>1 DEF Said
        <3>3. code[s] = "ABORT" => s \notin fetched
            BY <2>6, <3>1 DEF Said
        <3> QED BY <2>1, <2>2, <2>6, <3>2, <3>3 DEF Settled
    <2> QED BY <2>1, <2>3, <2>4, <2>5, <2>6
<1> QED BY <1>2, <1>3

LEMMA FinalisedData ==
    ASSUME Life, Data, Finalised
    PROVE  Data'
<1> USE DelayedGetAssumption DEF Life, Typed, Data, asked, batch, history, Before, Fetching, Sections
<1>1. /\ pc = "finalise" /\ pc' = "section"
      /\ UNCHANGED <<asked, cache, local, cur, batch, id, ok, others, history>>
    BY DEF Finalised
<1>2. NominalFirst' /\ FedHolds' /\ Fills' /\ CacheSound' /\ Fetched' /\ OkExists'
    BY <1>1 DEF NominalFirst, FedHolds, Fills, CacheSound, Fetched, OkExists, Exists, File, Target
<1>3. Future' /\ Untouched' /\ First' /\ Refilling'
    BY <1>1 DEF Future, Untouched, First, Refilling
<1>4. Denied'
    BY <1>1 DEF Denied, Untouched
<1> QED BY <1>2, <1>3, <1>4

LEMMA SectionData ==
    ASSUME Life, Data, Section
    PROVE  Data'
<1> USE DEF Data, asked, batch, history
<1>1. pc = "section" /\ UNCHANGED <<asked, cache, local, batch, others, history>>
    BY DEF Section
<1>2. FedHolds' /\ Fills' /\ Fetched' /\ CacheSound' /\ \A s \in Sections : Exists(s) => Exists(s)'
    BY <1>1, SameData
<1>3. Order'
    <2>1. CASE (flag[cur] = "true" \/ Filled(cur)) /\ Answer(cur, TRUE)
        <3>1. Exists(cur)
            BY <2>1 DEF Filled, OkExists, Life, Typed
        <3> QED BY <1>1, <1>2, <2>1, <3>1, AnswerOrder
    <2>2. CASE ~Filled(cur) /\ pc' = "cache" /\ UNCHANGED <<cur, ok>>
        BY <1>1, <1>2, <2>2, FetchOrder DEF Fetching
    <2> QED BY <2>1, <2>2 DEF Section
<1> QED BY <1>2, <1>3 DEF Order

LEMMA LookInCacheData ==
    ASSUME Life, Data, LookInCache
    PROVE  Data'
<1> USE DEF Data, asked, batch, history
<1>1. pc = "cache" /\ pc \in Fetching /\ UNCHANGED <<asked, cache, batch, others>>
    BY DEF LookInCache, Fetching
<1>2. Fetched' /\ CacheSound'
    BY <1>1, SameData
<1>3. CASE cache[Target(cur)] # "none" /\ Feed(cur, cache[Target(cur)]) /\ Answer(cur, TRUE) /\ UNCHANGED denied
    <2>1. cache[Target(cur)] = Target(cur)
        BY <1>3, Paths DEF CacheSound, Life, Typed
    <2>2. /\ FedHolds' /\ Fills' /\ \A s \in Sections : s = cur => Exists(s)'
          /\ \A s \in Sections : Exists(s) => Exists(s)'
        BY <1>1, <1>3, <2>1, FeedKeeps
    <2>3. Order'
        BY <1>1, <1>3, <2>2, AnswerOrder DEF Feed
    <2> QED BY <1>2, <2>2, <2>3 DEF Order
<1>4. CASE pc' = "archive" /\ UNCHANGED <<cur, id, ok>> /\ NotFed
    <2>1. FedHolds' /\ Fills' /\ \A s \in Sections : Exists(s) => Exists(s)'
        BY <1>1, <1>4, SameData DEF NotFed
    <2>2. Order'
        BY <1>1, <1>4, <2>1, FetchOrder DEF NotFed, Fetching
    <2> QED BY <1>2, <2>1, <2>2 DEF Order
<1> QED BY <1>3, <1>4 DEF LookInCache

LEMMA PlainGetData ==
    ASSUME Life, Data, PlainGet
    PROVE  Data'
<1> USE DEF Data, asked, batch, history
<1>1. pc = "archive" /\ pc \in Fetching /\ UNCHANGED <<asked, cache, batch, others>>
    BY DEF PlainGet, Fetching
<1>2. Fetched' /\ CacheSound'
    BY <1>1, SameData
<1>3. CASE Feed(cur, Target(cur)) /\ pc' = "refill" /\ UNCHANGED <<cur, id, ok, denied>>
    <2>1. FedHolds' /\ Fills' /\ \A s \in Sections : Exists(s) => Exists(s)'
        BY <1>1, <1>3, FeedKeeps
    <2>2. Order'
        BY <1>1, <1>3, <2>1, FetchOrder DEF Feed, Fetching
    <2> QED BY <1>2, <2>1, <2>2 DEF Order
<1>4. CASE Answer(cur, FALSE) /\ denied' = denied \cup {cur} /\ UNCHANGED <<local, fed>>
    <2>1. FedHolds' /\ Fills' /\ \A s \in Sections : Exists(s) => Exists(s)'
        BY <1>1, <1>4, SameData
    <2>2. Order'
        BY <1>1, <1>4, <2>1, AnswerOrder
    <2> QED BY <1>2, <2>1, <2>2 DEF Order
<1> QED BY <1>3, <1>4 DEF PlainGet

LEMMA TakeResultData ==
    ASSUME Life, Data, TakeResult
    PROVE  Data'
<1> USE DEF Data, asked, history
<1>1. /\ pc = "archive" /\ pc \in Fetching /\ id = cur /\ action' = [action EXCEPT ![cur] = "gone"]
      /\ UNCHANGED <<asked, cache, flag, others>>
    BY DEF TakeResult, Waiting, Life, Fetching
<1>2. CacheSound'
    BY <1>1, SameData
<1>3. CASE /\ action[id] = "done"
           /\ Feed(cur, result[id]) /\ result' = [result EXCEPT ![id] = "none"]
           /\ pc' = "refill" /\ id' = 0 /\ UNCHANGED <<cur, ok, denied>>
    <2>1. result[id] = Target(cur)
        BY <1>1, <1>3 DEF Fetched, Life, Typed
    <2>2. FedHolds' /\ Fills' /\ \A s \in Sections : Exists(s) => Exists(s)'
        BY <1>1, <1>3, <2>1, FeedKeeps
    <2>3. Order'
        BY <1>1, <1>3, <2>2, FetchOrder DEF Feed, Fetching
    <2>4. Fetched'
        BY <1>1, <1>3 DEF Fetched, Target, Life, Typed
    <2> QED BY <1>2, <2>2, <2>3, <2>4 DEF Order
<1>4. CASE /\ UNCHANGED <<local, fed, result>>
           /\ \/ /\ action[id] = "failed" /\ Answer(cur, FALSE)
                 /\ denied' = denied \cup IF result[id] = Target(cur) THEN {} ELSE {cur}
              \/ pc' = "cache" /\ UNCHANGED <<cur, ok, denied>>
    <2>1. FedHolds' /\ Fills' /\ \A s \in Sections : Exists(s) => Exists(s)'
        BY <1>1, <1>4, SameData
    <2>2. Fetched'
        BY <1>1, <1>4 DEF Fetched, Target, Life, Typed
    <2>3. CASE /\ action[id] = "failed" /\ Answer(cur, FALSE)
               /\ denied' = denied \cup IF result[id] = Target(cur) THEN {} ELSE {cur}
        <3>1. result[id] = "empty" /\ result[id] # Target(cur)
            BY <1>1, <2>3, Paths, DelayedGetAssumption DEF Fetched, Life, Typed
        <3>2. Order'
            BY <1>1, <1>4, <2>1, <2>3, <3>1, AnswerOrder
        <3> QED BY <1>2, <2>1, <2>2, <3>2 DEF Order
    <2>4. CASE pc' = "cache" /\ UNCHANGED <<cur, ok, denied>>
        <3>1. Order'
            BY <1>1, <1>4, <2>1, <2>4, FetchOrder DEF Fetching
        <3> QED BY <1>2, <2>1, <2>2, <3>1 DEF Order
    <2> QED BY <1>4, <2>3, <2>4
<1> QED BY <1>3, <1>4 DEF TakeResult, NotFed, Unclear

LEMMA RefillData ==
    ASSUME Life, Data, Refill
    PROVE  Data'
<1> USE DEF Data, asked, batch, history
<1>1. pc = "refill" /\ pc \in Fetching /\ UNCHANGED <<asked, local, batch, others, history>>
    BY DEF Refill, Fetching
<1>2. FedHolds' /\ Fills' /\ Fetched' /\ \A s \in Sections : Exists(s) => Exists(s)'
    BY <1>1, SameData
<1>3. cur \in fed /\ local[File(cur)] = Target(cur) /\ Target(cur) \in Targets
    BY <1>1, Paths DEF Refilling, FedHolds, Life, Typed
<1>4. CacheSound'
    <2>1. UNCHANGED cache \/ cache' = [cache EXCEPT ![Target(cur)] = local[File(cur)]]
        BY DEF Refill
    <2> QED BY <1>3, <2>1 DEF CacheSound, Life, Typed
<1>5. Exists(cur)
    BY <1>3, DelayedGetAssumption DEF Exists
<1>6. Order'
    <2>1. CASE Answer(cur, TRUE)
        BY <1>1, <1>2, <1>5, <2>1, AnswerOrder
    <2>2. CASE pc' = "cache" /\ UNCHANGED <<cur, ok>>
        BY <1>1, <1>2, <2>2, FetchOrder DEF Fetching
    <2> QED BY <2>1, <2>2 DEF Refill
<1> QED BY <1>2, <1>4, <1>6 DEF Order

LEMMA OtherData ==
    ASSUME Life, Data, Other
    PROVE  Data'
<1> USE DEF Data, Life, Typed, asked, batch, history
<1>1. UNCHANGED <<want, local, pc, cur, flag, action, result, id, ok, fed, denied>>
    BY DEF Other
<1>2. CacheSound'
    BY DEF Other, CacheSound
<1>3. /\ NominalFirst' /\ FedHolds' /\ Fills' /\ Future' /\ Untouched' /\ First' /\ Refilling'
      /\ Denied' /\ OkExists' /\ Fetched'
    BY <1>1 DEF NominalFirst, FedHolds, Fills, Future, Untouched, First, Refilling, Denied, Fetched,
       OkExists, Exists, File, Target, Fetching, Before
<1> QED BY <1>2, <1>3

LEMMA DataKept ==
    ASSUME NoPathInside, Life, Data, [Next]_vars
    PROVE  Data'
<1>1. CASE Step
    BY <1>1, EarlyData, CommandData, FinalisedData, SectionData, LookInCacheData,
       PlainGetData, TakeResultData, RefillData DEF Step
<1>2. CASE UNCHANGED vars
    BY <1>2 DEF vars, asked, batch, history, Data, NominalFirst, FedHolds, Fills, Future, Untouched,
       First, Refilling, Denied, Fetched, OkExists, Exists, File, Target, Fetching, Before, CacheSound
<1> QED BY <1>1, <1>2, OtherData DEF Next, Over

LEMMA DataAlways ==
    ASSUME NoPathInside
    PROVE  Spec => []Data
<1>1. Init => Data
    <2> SUFFICES ASSUME Init PROVE Data
        OBVIOUS
    <2> USE DelayedGetAssumption DEF Init, Data, Sections
    <2>1. NominalFirst /\ Fetched /\ CacheSound
        BY DEF NominalFirst, Fetched, CacheSound, File
    <2>2. Future /\ Untouched /\ FedHolds /\ Fills /\ First /\ Refilling /\ Denied
        BY DEF Future, Untouched, FedHolds, Fills, First, Refilling, Denied, Fetching, Before
    <2>3. OkExists
        BY DEF OkExists
    <2> QED BY <2>1, <2>2, <2>3
<1>2. Life /\ Data /\ [Next]_vars => Data'
    BY DataKept
<1> QED BY <1>1, <1>2, LifeAlways, PTL DEF Spec

--------------------------------------------------------------------------------
(***************************************************************************)
(* The theorems about the data.                                            *)
(***************************************************************************)

\* As long as no path is part of another, whatever the commands fetch, report or fail to
\* say, whatever the other jobs do to the cache: a container holds the data of a section
\* that fed it, and a section that is answered yes finds its own data there.  With a path
\* that is part of another it is false: the run delayedget_within shows it.
THEOREM OwnDataKept ==
    ASSUME NoPathInside
    PROVE  Spec => []OwnData
<1>1. Life /\ Data => OwnData
    <2> SUFFICES ASSUME Life, Data PROVE OwnData
        OBVIOUS
    <2>1. \A f \in Sections : local[f] = "none" \/ \E s \in fed : File(s) = f /\ local[f] = Target(s)
        BY DEF Data, Fills, FedHolds
    <2>2. \A s \in Sections : ok[s] => Exists(s) /\ (s \in fed => local[File(s)] = Target(s))
        BY DEF Data, OkExists, FedHolds
    <2> QED BY <2>1, <2>2 DEF OwnData
<1> QED BY <1>1, LifeAlways, DataAlways, PTL

\* Under the same hypothesis a section is answered no only when an access to its own path
\* has failed: neither an outcome that is not known nor the failure of another file of the
\* same command makes a section fail.
THEOREM FailureIsOwn ==
    ASSUME NoPathInside
    PROVE  Spec => []FailsRightly
<1>1. Data => FailsRightly
    BY DEF Data, FailsRightly, Denied, Before
<1> QED BY <1>1, DataAlways, PTL

\* Under the same hypothesis the refills put in the cache, under a path, the data of that
\* path and nothing else.
THEOREM CacheStaysSound ==
    ASSUME NoPathInside
    PROVE  Spec => []CacheSound
<1>1. Data => CacheSound
    BY DEF Data
<1> QED BY <1>1, DataAlways, PTL

(***************************************************************************)
(* The FTP client.                                                         *)
(***************************************************************************)
Frames == [method : Methods, left : Int, driver : BOOLEAN,
           to : {"", "home", "work", "file", "stream"},
           at : {"start", "cwd", "pwd", "end"}, skip : BOOLEAN]

FtpTypes ==
    /\ conn \in {"none", "open", "logged"} /\ cwd \in {"", "home", "work"}
    /\ budget \in Int \cup {NoBudget} /\ stack \in Seq(Frames)
    /\ user \in {"away", "deals", "holds", "calls"} /\ place \in {"home", "work"}
    /\ called \in Methods /\ errors \in Nat

\* The stack is that of the method called: its wrapper is the only one that has set the
\* budget, and the only transfer
Nesting ==
    /\ \A i \in DOMAIN stack : stack[i].driver <=> i = 1
    /\ \A i \in DOMAIN stack : i = 1 \/ stack[i].method \notin Transfers
    /\ \A i \in DOMAIN stack : stack[i].at = "cwd" => i = Len(stack)
    /\ \A i \in DOMAIN stack : stack[i].at # "start" => stack[i].method = "login"
    /\ \A i \in DOMAIN stack : stack[i].method = "cwd" => stack[i].to \in {"home", "work"}
    /\ stack = <<>> <=> budget = NoBudget
    /\ stack # <<>> => stack[1].method = called

\* Who calls what
Callers ==
    /\ user \in {"away", "holds"} => stack = <<>> /\ exc = "none"
    /\ user = "deals" => place = "home" /\ ((stack = <<>> /\ exc = "none") \/ called \in {"login", "cwd"})
    /\ user = "calls" => called \in {"cwd", "get", "put"}
    /\ pooled => user = "away"
    /\ stack # <<>> /\ called = "cwd" => stack[1].to = place

\* Nobody works with a client before its initial directory is known
InitialKnown ==
    /\ pooled \/ user \in {"holds", "calls"} => initial
    /\ user = "deals" /\ called = "cwd" => initial
    /\ user = "deals" /\ stack = <<>> /\ exc = "none" => initial
    /\ \A i \in DOMAIN stack : stack[i].skip => initial

\* What the errors of a call say of the tries that are left
Patient ==
    /\ stack # <<>> => stack[1].left + errors >= Tries(called)
    /\ stack # <<>> /\ exc # "none" => stack[1].left + errors >= Tries(called) + 1
    /\ stack = <<>> /\ exc \in Catches(called) => errors >= Tries(called)

\* The recorded directory is that of the user, or will be when a wrapper called by the
\* login has gone back to it
AtHome ==
    user # "away" /\ place = "home" =>
        /\ cwd # "work"
        /\ \A i \in DOMAIN stack : stack[i].method = "cwd" => stack[i].to = "home"
Works ==
    /\ place = "work"
    /\ \/ user = "holds"
       \/ user = "calls" /\ (IF stack = <<>> THEN exc = "none" ELSE called # "cwd")
AtWork ==
    Works =>
        /\ cwd # "home"
        /\ \A i \in DOMAIN stack : stack[i].method = "cwd" => stack[i].to = "work"
        /\ lost \/ cwd = "work" \/ \E i \in DOMAIN stack : i # 1 /\ stack[i].method = "cwd"

\* The connection is in the directory recorded, but for a login that has not gone back
\* yet, for a reset, and for a client that nobody will use
Here == IF cwd = "" THEN "home" ELSE cwd
JustLogged == stack # <<>> /\ Top.method = "login" /\ Top.at = "cwd"
Resetting == user = "deals" /\ called = "cwd" /\ (stack # <<>> \/ exc # "none")
InPlace ==
    /\ conn = "logged" /\ (pooled \/ user # "away") =>
          dir = Here \/ midway \/ JustLogged \/ Resetting
    /\ JustLogged => dir = "home" /\ exc = "none"

\* All but where the connection is
StackInv ==
    /\ FtpTypes /\ Nesting /\ Callers /\ InitialKnown
    /\ Patient /\ AtHome /\ AtWork

FtpInv == StackInv /\ InPlace /\ RightPlace
LEMMA TriesFacts ==
    ASSUME NEW m \in Methods
    PROVE  Tries(m) \in Nat \ {0} /\ Tries(m) \in Int
BY FtpClientAssumption DEF Methods, Commands, Transfers, Tries

LEMMA NoneNotCaught ==
    ASSUME NEW m \in Methods
    PROVE  "none" \notin Catches(m)
BY DEF Catches, Methods, Commands, Transfers

LEMMA SmallerFacts ==
    ASSUME NEW a \in Int, NEW b \in Int
    PROVE  Smaller(a, b) \in Int /\ (a = b => Smaller(a, b) = b)
BY DEF Smaller

LEMMA AtLeastOne ==
    ASSUME NEW a \in Int
    PROVE  (IF a < 1 THEN 1 ELSE a) \in Int /\ (a \in Nat \ {0} => (IF a < 1 THEN 1 ELSE a) = a)
OBVIOUS

LEMMA FrameFacts ==
    ASSUME NEW m \in Methods, NEW d \in {"", "home", "work", "file", "stream"}, FtpTypes
    PROVE  Frame(m, d) \in Frames /\ Budget(m) \in Int
<1>1. Tries(m) \in Int
    BY TriesFacts
<1>2. Budget(m) \in Int
    BY <1>1, Zenon DEF Budget, FtpTypes
<1>3. Smaller(Budget(m), Tries(m)) \in Int
    BY <1>1, <1>2, SmallerFacts
<1>4. Share(m) \in Int
    BY <1>3, AtLeastOne DEF Share
<1>5. (budget = NoBudget) \in BOOLEAN
    OBVIOUS
<1> QED BY <1>2, <1>4, <1>5 DEF Frame, Frames

LEMMA FrameTries ==
    ASSUME NEW m \in Methods, NEW d, budget = NoBudget
    PROVE  Frame(m, d).left = Tries(m)
<1>1. Tries(m) \in Nat \ {0} /\ Tries(m) \in Int /\ Budget(m) = Tries(m)
    BY TriesFacts DEF Budget
<1>2. Smaller(Budget(m), Tries(m)) = Tries(m)
    BY <1>1, SmallerFacts
<1> QED BY <1>1, <1>2, AtLeastOne DEF Frame, Share

\* What a stack looks like after a call ...
LEMMA Called ==
    ASSUME NEW s \in Seq(Frames), NEW f \in Frames
    PROVE  /\ Append(s, f) \in Seq(Frames) /\ Append(s, f) # <<>>
           /\ Len(s) \in Nat /\ Len(Append(s, f)) = Len(s) + 1
           /\ DOMAIN s = 1..Len(s) /\ DOMAIN Append(s, f) = 1..Len(s)+1
           /\ \A i \in 1..Len(s) : Append(s, f)[i] = s[i]
           /\ Append(s, f)[Len(s) + 1] = f
    BY AppendProperties, LenProperties

\* ... after the end of one ...
LEMMA Popped ==
    ASSUME NEW s \in Seq(Frames), s # <<>>
    PROVE  LET b == SubSeq(s, 1, Len(s) - 1)
           IN  /\ b \in Seq(Frames) /\ Len(s) \in Nat \ {0} /\ DOMAIN s = 1..Len(s)
               /\ Len(b) = Len(s) - 1 /\ DOMAIN b = 1..Len(s)-1
               /\ \A i \in 1..Len(s)-1 : b[i] = s[i]
               /\ b = <<>> <=> Len(s) = 1
<1> DEFINE n == Len(s) - 1
           b == SubSeq(s, 1, n)
<1>1. Len(s) \in Nat \ {0} /\ DOMAIN s = 1..Len(s)
    BY LenProperties, EmptySeq
<1>2. \A i \in 1..n : s[i] \in Frames
    BY <1>1, ElementOfSeq
<1>3. b \in Seq(Frames) /\ Len(b) = n /\ \A i \in 1..n : b[i] = s[i]
    BY <1>1, <1>2, SubSeqProperties
<1>4. DOMAIN b = 1..n
    BY <1>3, LenProperties
<1>5. b = <<>> <=> n = 0
    BY <1>3, EmptySeq
<1> QED BY <1>1, <1>3, <1>4, <1>5

\* ... and when the innermost goes on
LEMMA Changed ==
    ASSUME NEW s \in Seq(Frames), s # <<>>, NEW f \in Frames
    PROVE  LET t == [s EXCEPT ![Len(s)] = f]
           IN  /\ t \in Seq(Frames) /\ Len(s) \in Nat \ {0} /\ DOMAIN s = 1..Len(s)
               /\ Len(t) = Len(s) /\ DOMAIN t = 1..Len(s) /\ t # <<>>
               /\ t[Len(s)] = f /\ \A i \in 1..Len(s)-1 : t[i] = s[i]
<1>1. Len(s) \in Nat \ {0} /\ DOMAIN s = 1..Len(s)
    BY LenProperties, EmptySeq
<1> DEFINE t == [s EXCEPT ![Len(s)] = f]
<1>2. t \in Seq(Frames) /\ Len(t) = Len(s)
    BY <1>1, ExceptSeq
<1>3. DOMAIN t = DOMAIN s /\ t[Len(s)] = f
    BY <1>1
<1>5. \A i \in 1..Len(s)-1 : i \in DOMAIN s /\ i # Len(s)
    <2>1. \A n \in Nat \ {0} : \A i \in 1..n-1 : i \in 1..n /\ i # n
        OBVIOUS
    <2> QED BY <1>1, <2>1
<1>6. \A i \in 1..Len(s)-1 : t[i] = s[i]
    BY <1>5
<1>4. t # <<>>
    BY <1>1, <1>2, EmptySeq
<1> QED BY <1>1, <1>2, <1>3, <1>4, <1>6

LEMMA Intervals ==
    ASSUME NEW n \in Nat \ {0}
    PROVE  /\ 1 \in 1..n /\ n \in 1..n /\ n + 1 \in 1..n+1 /\ n + 1 # 1
           /\ \A i \in 1..n+1 : i \in 1..n \/ i = n + 1
           /\ \A i \in 1..n : i \in 1..n+1 /\ i # n + 1
           /\ \A i \in 1..n : i \in 1..n-1 \/ i = n
           /\ \A i \in 1..n-1 : i \in 1..n /\ i # n
OBVIOUS

LEMMA OneMore ==
    ASSUME NEW a \in Int, NEW b \in Nat, NEW c \in Int, a + b >= c
    PROVE  a + (b + 1) >= c + 1 /\ a + (b + 1) >= c
OBVIOUS

LEMMA StackFacts ==
    ASSUME FtpTypes, stack # <<>>
    PROVE  /\ Len(stack) \in Nat \ {0} /\ DOMAIN stack = 1..Len(stack)
           /\ 1 \in DOMAIN stack /\ Len(stack) \in DOMAIN stack
           /\ \A i \in DOMAIN stack : stack[i] \in Frames /\ stack[i].left \in Int
           /\ Top = stack[Len(stack)] /\ Top \in Frames
<1>1. Len(stack) \in Nat \ {0} /\ DOMAIN stack = 1..Len(stack)
    BY LenProperties, EmptySeq DEF FtpTypes
<1>2. \A i \in DOMAIN stack : stack[i] \in Frames
    BY <1>1, ElementOfSeq DEF FtpTypes
<1>3. \A f \in Frames : f.left \in Int
    BY DEF Frames
<1>4. 1 \in DOMAIN stack /\ Len(stack) \in DOMAIN stack
    BY <1>1
<1> QED BY <1>1, <1>2, <1>3, <1>4 DEF Top

\* The innermost frame goes on, to another point
LEMMA MovedFacts ==
    ASSUME FtpTypes, stack # <<>>, NEW p \in {"start", "cwd", "pwd", "end"}
    PROVE  /\ Moved(p) \in Seq(Frames) /\ Moved(p) # <<>>
           /\ Len(Moved(p)) = Len(stack) /\ DOMAIN Moved(p) = 1..Len(stack)
           /\ \A i \in 1..Len(stack)-1 : Moved(p)[i] = stack[i]
           /\ Moved(p)[Len(stack)].method = Top.method /\ Moved(p)[Len(stack)].left = Top.left
           /\ Moved(p)[Len(stack)].driver = Top.driver /\ Moved(p)[Len(stack)].to = Top.to
           /\ Moved(p)[Len(stack)].skip = Top.skip /\ Moved(p)[Len(stack)].at = p
<1> DEFINE f == [Top EXCEPT !.at = p]
<1>1. /\ f \in Frames /\ f.method = Top.method /\ f.left = Top.left
      /\ f.driver = Top.driver /\ f.to = Top.to /\ f.skip = Top.skip /\ f.at = p
    BY StackFacts DEF Frames
<1>2. Moved(p) = [stack EXCEPT ![Len(stack)] = f]
    BY DEF Moved, Top
<1> HIDE DEF f
<1>3. stack \in Seq(Frames)
    BY DEF FtpTypes
<1> QED BY <1>1, <1>2, <1>3, Changed

\* An error is raised in the innermost
LEMMA RaiseKeeps ==
    ASSUME StackInv, stack # <<>>, exc = "none", NEW e, e # "none", Raise(e),
           UNCHANGED <<conn, cwd, initial, user, pooled, place, called, lost>>
    PROVE  StackInv'
<1>1. FtpTypes /\ Nesting /\ Callers /\ InitialKnown /\ Patient /\ AtHome /\ AtWork
    BY DEF StackInv
<1>2. stack' = stack /\ budget' = budget /\ exc' = e /\ errors' = errors + 1
    BY DEF Raise
<1>3. FtpTypes'
    <2>1. errors \in Nat
        BY <1>1 DEF FtpTypes
    <2>2. errors' \in Nat
        BY <1>2, <2>1
    <2> QED BY <1>1, <1>2, <2>2, Zenon DEF FtpTypes
<1>4. Nesting'
    BY <1>1, <1>2 DEF Nesting
<1>5. Callers'
    BY <1>1, <1>2 DEF Callers
<1>6. InitialKnown'
    BY <1>1, <1>2 DEF InitialKnown
<1>7. Patient'
    <2>1. stack[1].left \in Int /\ Tries(called) \in Int /\ errors \in Nat
        BY <1>1, StackFacts, TriesFacts DEF FtpTypes
    <2>4. stack[1].left + errors >= Tries(called)
        BY <1>1 DEF Patient
    <2>2. Tries(called)' = Tries(called)
        BY DEF Tries
    <2>3. /\ stack[1].left + (errors + 1) >= Tries(called) + 1
          /\ stack[1].left + (errors + 1) >= Tries(called)
        BY <2>1, <2>4, OneMore
    <2> QED BY <1>2, <2>2, <2>3 DEF Patient
<1>8. AtHome'
    BY <1>1, <1>2 DEF AtHome
<1>9. AtWork'
    BY <1>1, <1>2 DEF AtWork, Works
<1> QED BY <1>3, <1>4, <1>5, <1>6, <1>7, <1>8, <1>9 DEF StackInv

\* What stays in a stack that goes on, or that gets one more wrapper
Alike(s) ==
    /\ s \in Seq(Frames) /\ s # <<>> /\ Len(s) = Len(stack)
    /\ \A i \in 1..Len(stack) :
          /\ s[i].method = stack[i].method /\ s[i].left = stack[i].left
          /\ s[i].driver = stack[i].driver /\ s[i].to = stack[i].to
          /\ s[i].skip => stack[i].skip
          /\ s[i].at # "cwd"
          /\ s[i].at # "start" => s[i].method = "login"

LEMMA AlikeItself ==
    ASSUME FtpTypes, Nesting, stack # <<>>, Top.at # "cwd"
    PROVE  Alike(stack)
<1>1. \A i \in 1..Len(stack) : stack[i].at # "cwd"
    BY StackFacts DEF Nesting
<1> QED BY <1>1, StackFacts DEF FtpTypes, Alike, Nesting

LEMMA AlikeMoved ==
    ASSUME FtpTypes, Nesting, stack # <<>>, NEW p \in {"start", "pwd", "end"},
           Top.method = "login"
    PROVE  Alike(Moved(p))
<1>1. /\ Moved(p) \in Seq(Frames) /\ Moved(p) # <<>> /\ Len(Moved(p)) = Len(stack)
      /\ \A i \in 1..Len(stack)-1 : Moved(p)[i] = stack[i]
      /\ Moved(p)[Len(stack)].method = Top.method /\ Moved(p)[Len(stack)].left = Top.left
      /\ Moved(p)[Len(stack)].driver = Top.driver /\ Moved(p)[Len(stack)].to = Top.to
      /\ Moved(p)[Len(stack)].skip = Top.skip /\ Moved(p)[Len(stack)].at = p
    BY MovedFacts
<1>2. Len(stack) \in Nat \ {0} /\ DOMAIN stack = 1..Len(stack) /\ Top = stack[Len(stack)]
    BY StackFacts
<1>3. ASSUME NEW i \in 1..Len(stack)-1
      PROVE  /\ Moved(p)[i] = stack[i] /\ stack[i].at # "cwd"
             /\ stack[i].at # "start" => stack[i].method = "login"
    <2>1. i \in DOMAIN stack /\ i # Len(stack)
        <3>1. \A n \in Nat \ {0} : \A j \in 1..n-1 : j \in 1..n /\ j # n
            OBVIOUS
        <3> QED BY <1>2, <3>1
    <2> QED BY <1>1, <2>1 DEF Nesting
<1>4. \A i \in 1..Len(stack) : i \in 1..Len(stack)-1 \/ i = Len(stack)
    BY <1>2, Intervals
<1> HIDE DEF Moved
<1> QED BY <1>1, <1>2, <1>3, <1>4 DEF Alike

\* What Push makes
LEMMA Pushed ==
    ASSUME NEW s \in Seq(Frames), NEW m \in Methods,
           NEW d \in {"", "home", "work", "file", "stream"},
           FtpTypes, Push(s, m, d)
    PROVE  \E f \in Frames :
              /\ f.method = m /\ f.to = d /\ f.at = "start" /\ ~f.skip
              /\ f.driver <=> budget = NoBudget
              /\ budget = NoBudget => f.left = Tries(m)
              /\ stack' \in Seq(Frames) /\ stack' # <<>> /\ Len(stack') = Len(s) + 1
              /\ DOMAIN stack' = 1..Len(s)+1 /\ \A i \in 1..Len(s) : stack'[i] = s[i]
              /\ stack'[Len(s) + 1] = f
              /\ budget' \in Int
<1>1. stack' = Append(s, Frame(m, d)) /\ budget' = Budget(m)
    BY DEF Push
<1>2. Frame(m, d) \in Frames /\ Budget(m) \in Int
    BY FrameFacts
<1>3. PICK f \in Frames : f = Frame(m, d)
    BY <1>2
<1>4. /\ f.method = m /\ f.to = d /\ f.at = "start" /\ ~f.skip
      /\ f.driver <=> budget = NoBudget
    BY <1>3 DEF Frame
<1>9. budget = NoBudget => f.left = Tries(m)
    BY <1>3, FrameTries
<1>5. stack' = Append(s, f)
    BY <1>1, <1>3
<1>6. stack' \in Seq(Frames) /\ stack' # <<>> /\ Len(stack') = Len(s) + 1
    BY <1>5, Called
<1>7. DOMAIN stack' = 1..Len(s)+1 /\ stack'[Len(s) + 1] = f
    BY <1>5, Called
<1>8. \A i \in 1..Len(s) : stack'[i] = s[i]
    BY <1>5, Called
<1> QED BY <1>1, <1>2, <1>4, <1>6, <1>7, <1>8, <1>9

\* The innermost calls another wrapped method
LEMMA PushKeeps ==
    ASSUME StackInv, stack # <<>>, exc = "none", NEW s, Alike(s),
           NEW m \in {"reach", "connect", "login", "cwd", "pwd"},
           NEW d \in {"", "home", "work"}, Push(s, m, d),
           UNCHANGED <<conn, exc, initial, user, pooled, place, called, errors, lost>>,
           \/ m = "cwd" /\ d = cwd /\ cwd # "" /\ cwd' = ""
           \/ m # "cwd" /\ cwd' = cwd
    PROVE  StackInv'
<1>1. FtpTypes /\ Nesting /\ Callers /\ InitialKnown /\ Patient /\ AtHome /\ AtWork
    BY DEF StackInv
<1> DEFINE n == Len(stack)
<1>2. n \in Nat \ {0} /\ DOMAIN stack = 1..n /\ 1 \in 1..n
    BY <1>1, StackFacts
<1>3. m \in Methods /\ m \notin Transfers /\ budget # NoBudget
    BY <1>1 DEF Methods, Commands, Transfers, Nesting
<1>0. m = "cwd" => d \in {"home", "work"} /\ d = cwd
    <2>1. cwd \in {"", "home", "work"}
        BY <1>1 DEF FtpTypes
    <2> QED BY <2>1
<1>5. s \in Seq(Frames) /\ Len(s) = n
    BY DEF Alike
<1>4. PICK f \in Frames :
          /\ f.method = m /\ f.to = d /\ f.at = "start" /\ ~f.skip
          /\ f.driver <=> budget = NoBudget
          /\ budget = NoBudget => f.left = Tries(m)
          /\ stack' \in Seq(Frames) /\ stack' # <<>> /\ Len(stack') = Len(s) + 1
          /\ DOMAIN stack' = 1..Len(s)+1 /\ \A i \in 1..Len(s) : stack'[i] = s[i]
          /\ stack'[Len(s) + 1] = f
          /\ budget' \in Int
    <2>1. d \in {"", "home", "work", "file", "stream"}
        OBVIOUS
    <2> QED BY <1>1, <1>3, <1>5, <2>1, Pushed, Zenon
<1>6. /\ stack' \in Seq(Frames) /\ stack' # <<>> /\ Len(stack') = n + 1
      /\ DOMAIN stack' = 1..n+1 /\ \A i \in 1..n : stack'[i] = s[i]
      /\ stack'[n+1] = f /\ ~f.driver
    BY <1>3, <1>4, <1>5
<1>7. \A i \in DOMAIN stack' : i \in 1..n \/ i = n + 1
    BY <1>2, <1>6, Intervals
<1>8. \A i \in 1..n : i \in DOMAIN stack' /\ i # n + 1
    BY <1>2, <1>6, Intervals
<1>9. \A i \in 1..n :
          /\ stack'[i].method = stack[i].method /\ stack'[i].left = stack[i].left
          /\ stack'[i].driver = stack[i].driver /\ stack'[i].to = stack[i].to
          /\ stack'[i].skip => stack[i].skip
          /\ stack'[i].at # "cwd"
          /\ stack'[i].at # "start" => stack'[i].method = "login"
    BY <1>6 DEF Alike
<1> HIDE DEF n
<1>10. FtpTypes'
    <2>1. cwd' \in {"", "home", "work"}
        BY <1>1 DEF FtpTypes
    <2> QED BY <1>1, <1>4, <1>6, <2>1, Zenon DEF FtpTypes
<1>11. Nesting'
    <2>1. \A i \in DOMAIN stack' : stack'[i].driver <=> i = 1
        <3>1. \A i \in 1..n : stack'[i].driver <=> i = 1
            BY <1>1, <1>2, <1>9 DEF Nesting
        <3>2. ~stack'[n+1].driver /\ n + 1 # 1
            BY <1>2, <1>6, Intervals
        <3> QED BY <1>7, <3>1, <3>2
    <2>2. \A i \in DOMAIN stack' : i = 1 \/ stack'[i].method \notin Transfers
        BY <1>1, <1>2, <1>3, <1>4, <1>6, <1>7, <1>9 DEF Nesting
    <2>3. \A i \in DOMAIN stack' : stack'[i].at = "cwd" => i = Len(stack')
        BY <1>4, <1>6, <1>7, <1>9
    <2>4. \A i \in DOMAIN stack' : stack'[i].at # "start" => stack'[i].method = "login"
        BY <1>4, <1>6, <1>7, <1>9
    <2>5. \A i \in DOMAIN stack' : stack'[i].method = "cwd" => stack'[i].to \in {"home", "work"}
        <3>1. \A i \in 1..n : stack'[i].method = "cwd" => stack'[i].to \in {"home", "work"}
            BY <1>1, <1>2, <1>9 DEF Nesting
        <3>2. stack'[n+1].method = "cwd" => stack'[n+1].to \in {"home", "work"}
            BY <1>0, <1>4, <1>6
        <3> QED BY <1>7, <3>1, <3>2
    <2>6. stack' # <<>> /\ budget' # NoBudget
        BY <1>4, <1>6, NoBudgetAssumption
    <2>7. stack'[1].method = called'
        BY <1>1, <1>2, <1>9 DEF Nesting
    <2> QED BY <2>1, <2>2, <2>3, <2>4, <2>5, <2>6, <2>7 DEF Nesting
<1>12. Callers'
    BY <1>1, <1>2, <1>6, <1>9 DEF Callers
<1>13. InitialKnown'
    <2>1. \A i \in DOMAIN stack' : stack'[i].skip => initial'
        <3>1. \A i \in 1..n : stack'[i].skip => initial'
            BY <1>1, <1>2, <1>9 DEF InitialKnown
        <3> QED BY <1>4, <1>6, <1>7, <3>1
    <2> QED BY <1>1, <1>6, <2>1 DEF InitialKnown
<1>14. Patient'
    <2>1. stack'[1].left = stack[1].left
        BY <1>2, <1>9
    <2>2. Tries(called)' = Tries(called)
        BY DEF Tries
    <2> QED BY <1>1, <1>6, <2>1, <2>2 DEF Patient
<1>15. AtHome'
    <2>1. ASSUME user' # "away", place' = "home", NEW i \in DOMAIN stack', stack'[i].method = "cwd"
          PROVE  stack'[i].to = "home"
        <3>1. m = "cwd" => d = "home"
            BY <1>0, <1>1, <2>1 DEF AtHome
        <3>2. CASE i \in 1..n
            BY <1>1, <1>2, <1>9, <2>1, <3>2 DEF AtHome
        <3>3. CASE i = n + 1
            BY <1>4, <1>6, <2>1, <3>1, <3>3
        <3> QED BY <1>7, <3>2, <3>3
    <2>2. user' # "away" /\ place' = "home" => cwd' # "work"
        BY <1>1 DEF AtHome
    <2> QED BY <2>1, <2>2 DEF AtHome
<1>16. AtWork'
    <2>1. Works' => Works
        BY <1>6 DEF Works
    <2>2. Works => /\ cwd # "home"
                   /\ \A i \in 1..n : stack[i].method = "cwd" => stack[i].to = "work"
                   /\ lost \/ cwd = "work" \/ \E i \in 1..n : i # 1 /\ stack[i].method = "cwd"
        BY <1>1, <1>2 DEF AtWork
    <2>3. ASSUME Works, NEW i \in DOMAIN stack', stack'[i].method = "cwd"
          PROVE  stack'[i].to = "work"
        <3>1. CASE i \in 1..n
            BY <1>9, <2>2, <2>3, <3>1
        <3>2. CASE i = n + 1
            BY <1>0, <1>4, <1>6, <2>2, <2>3, <3>2
        <3> QED BY <1>7, <3>1, <3>2
    <2>4. ASSUME Works
          PROVE  lost' \/ cwd' = "work" \/ \E i \in DOMAIN stack' : i # 1 /\ stack'[i].method = "cwd"
        <3>1. CASE m = "cwd"
            <4>1. n + 1 \in DOMAIN stack' /\ n + 1 # 1
                BY <1>2, <1>6, Intervals
            <4> QED BY <1>4, <1>6, <3>1, <4>1
        <3>2. CASE m # "cwd"
            BY <1>8, <1>9, <2>2, <2>4, <3>2
        <3> QED BY <3>1, <3>2
    <2>5. Works => cwd' # "home"
        BY <1>1, <2>2
    <2> QED BY <2>1, <2>3, <2>4, <2>5 DEF AtWork
<1> QED BY <1>10, <1>11, <1>12, <1>13, <1>14, <1>15, <1>16 DEF StackInv

\* What is left of a stack whose innermost wrapper has ended
LEMMA BelowFacts ==
    ASSUME FtpTypes, Nesting, stack # <<>>, stack' = Below
    PROVE  /\ Len(stack) \in Nat \ {0} /\ DOMAIN stack = 1..Len(stack)
           /\ Top = stack[Len(stack)] /\ Top \in Frames
           /\ stack' \in Seq(Frames) /\ Len(stack') = Len(stack) - 1
           /\ DOMAIN stack' = 1..Len(stack)-1
           /\ \A i \in 1..Len(stack)-1 :
                 i \in DOMAIN stack /\ i # Len(stack) /\ stack'[i] = stack[i] /\ stack[i].at # "cwd"
           /\ stack' = <<>> <=> Len(stack) = 1
           /\ stack' # <<>> => 1 \in 1..Len(stack)-1
           /\ Top.driver <=> Len(stack) = 1
<1>1. /\ Len(stack) \in Nat \ {0} /\ DOMAIN stack = 1..Len(stack)
      /\ Top = stack[Len(stack)] /\ Top \in Frames /\ Len(stack) \in DOMAIN stack
    BY StackFacts
<1>2. stack \in Seq(Frames)
    BY DEF FtpTypes
<1>3. /\ stack' \in Seq(Frames) /\ Len(stack') = Len(stack) - 1
      /\ DOMAIN stack' = 1..Len(stack)-1
      /\ \A i \in 1..Len(stack)-1 : stack'[i] = stack[i]
      /\ stack' = <<>> <=> Len(stack) = 1
    BY <1>2, Popped DEF Below
<1>4. \A i \in 1..Len(stack)-1 : i \in DOMAIN stack /\ i # Len(stack)
    BY <1>1, Intervals
<1>5. \A i \in 1..Len(stack)-1 : stack[i].at # "cwd"
    BY <1>4 DEF Nesting
<1>6. stack' # <<>> => 1 \in 1..Len(stack)-1
    <2>1. \A n \in Nat \ {0} : n # 1 => 1 \in 1..n-1
        OBVIOUS
    <2> QED BY <1>1, <1>3, <2>1
<1>7. Top.driver <=> Len(stack) = 1
    BY <1>1 DEF Nesting
<1> QED BY <1>1, <1>3, <1>4, <1>5, <1>6, <1>7

\* The innermost wrapper returns
LEMMA PopKeeps ==
    ASSUME StackInv, stack # <<>>, exc = "none", Return,
           UNCHANGED <<user, pooled, place, called, errors, lost>>,
           conn' \in {"none", "open", "logged"},
           Top.method = "cwd" => cwd' = Top.to,
           Top.method # "cwd" => cwd' = cwd,
           initial => initial', Top.method = "login" => initial'
    PROVE  StackInv'
<1>1. FtpTypes /\ Nesting /\ Callers /\ InitialKnown /\ Patient /\ AtHome /\ AtWork
    BY DEF StackInv
<1> DEFINE n == Len(stack)
<1>2. /\ n \in Nat \ {0} /\ DOMAIN stack = 1..n
      /\ Top = stack[n] /\ Top \in Frames
      /\ stack' \in Seq(Frames) /\ Len(stack') = n - 1
      /\ DOMAIN stack' = 1..n-1
      /\ \A i \in 1..n-1 :
            i \in DOMAIN stack /\ i # n /\ stack'[i] = stack[i] /\ stack[i].at # "cwd"
      /\ stack' = <<>> <=> n = 1
      /\ stack' # <<>> => 1 \in 1..n-1
      /\ Top.driver <=> n = 1
    BY <1>1, BelowFacts DEF Return
<1>3. exc' = "none" /\ budget' = Released(Top) /\ n \in DOMAIN stack
    BY StackFacts, <1>1 DEF Return
<1> HIDE DEF n
<1>4. cwd' \in {"", "home", "work"}
    <2>1. Top.method = "cwd" => Top.to \in {"home", "work"}
        BY <1>1, <1>2, <1>3 DEF Nesting
    <2>2. cwd \in {"", "home", "work"}
        BY <1>1 DEF FtpTypes
    <2> QED BY <2>1, <2>2
<1>5. FtpTypes'
    <2>1. Released(Top) \in Int \cup {NoBudget}
        BY <1>1, Zenon DEF Released, FtpTypes
    <2> QED BY <1>1, <1>2, <1>3, <1>4, <2>1, Zenon DEF FtpTypes
<1>6. Nesting'
    <2>1. \A i \in DOMAIN stack' : stack'[i].driver <=> i = 1
        BY <1>1, <1>2 DEF Nesting
    <2>2. \A i \in DOMAIN stack' : i = 1 \/ stack'[i].method \notin Transfers
        BY <1>1, <1>2 DEF Nesting
    <2>3. \A i \in DOMAIN stack' : stack'[i].at = "cwd" => i = Len(stack')
        BY <1>2
    <2>4. \A i \in DOMAIN stack' : stack'[i].at # "start" => stack'[i].method = "login"
        BY <1>1, <1>2 DEF Nesting
    <2>5. \A i \in DOMAIN stack' : stack'[i].method = "cwd" => stack'[i].to \in {"home", "work"}
        BY <1>1, <1>2 DEF Nesting
    <2>6. stack' = <<>> <=> budget' = NoBudget
        <3>1. budget # NoBudget
            BY <1>1 DEF Nesting
        <3> QED BY <1>2, <1>3, <3>1, Zenon DEF Released
    <2>7. stack' # <<>> => stack'[1].method = called'
        BY <1>1, <1>2 DEF Nesting
    <2> QED BY <2>1, <2>2, <2>3, <2>4, <2>5, <2>6, <2>7 DEF Nesting
<1>7. Callers'
    BY <1>1, <1>2, <1>3 DEF Callers
<1>8. n = 1 => Top.method = called
    BY <1>1, <1>2 DEF Nesting
<1>9. InitialKnown'
    <2>1. \A i \in DOMAIN stack' : stack'[i].skip => initial'
        BY <1>1, <1>2 DEF InitialKnown
    <2>2. user = "deals" => called \in {"login", "cwd"}
        BY <1>1 DEF Callers
    <2>3. user = "deals" /\ called = "cwd" => initial
        BY <1>1 DEF InitialKnown
    <2>4. user = "deals" /\ stack' = <<>> => initial'
        BY <1>2, <1>8, <2>2, <2>3
    <2> QED BY <1>1, <1>3, <2>1, <2>3, <2>4 DEF InitialKnown
<1>10. Patient'
    <2>1. Tries(called)' = Tries(called) /\ Catches(called)' = Catches(called)
        BY DEF Tries, Catches
    <2>2. "none" \notin Catches(called)
        BY <1>1, NoneNotCaught DEF FtpTypes
    <2>3. stack' # <<>> => stack'[1].left = stack[1].left
        BY <1>2
    <2> QED BY <1>1, <1>3, <2>1, <2>2, <2>3 DEF Patient
<1>11. AtHome'
    BY <1>1, <1>2, <1>3 DEF AtHome
<1>12. AtWork'
    <2>1. ASSUME Works', n # 1
          PROVE  Works
        BY <1>2, <1>3, <2>1 DEF Works
    <2>2. ASSUME Works', n = 1, called # "cwd"
          PROVE  Works
        BY <1>2, <1>3, <2>2 DEF Works
    <2>3. ASSUME Works', n = 1, called = "cwd"
          PROVE  cwd' = "work" /\ stack' = <<>>
        BY <1>1, <1>2, <1>3, <1>8, <2>3 DEF Works, Callers
    <2>4. Works => /\ cwd # "home"
                   /\ \A i \in 1..n : stack[i].method = "cwd" => stack[i].to = "work"
                   /\ lost \/ cwd = "work" \/ \E i \in 1..n : i # 1 /\ stack[i].method = "cwd"
        BY <1>1, <1>2 DEF AtWork
    <2>5. ASSUME Works
          PROVE  /\ cwd' # "home"
                 /\ \A i \in 1..n-1 : stack'[i].method = "cwd" => stack'[i].to = "work"
                 /\ lost' \/ cwd' = "work" \/ \E i \in 1..n-1 : i # 1 /\ stack'[i].method = "cwd"
        <3>1. \A i \in 1..n : i \in 1..n-1 \/ i = n
            BY <1>2, Intervals
        <3>2. CASE Top.method = "cwd"
            BY <1>2, <1>3, <2>4, <2>5, <3>2
        <3>3. CASE Top.method # "cwd"
            BY <1>2, <1>3, <2>4, <2>5, <3>1, <3>3
        <3> QED BY <3>2, <3>3
    <2> QED BY <1>2, <2>1, <2>2, <2>3, <2>5 DEF AtWork
<1> QED BY <1>5, <1>6, <1>7, <1>9, <1>10, <1>11, <1>12 DEF StackInv

\* The innermost goes on (or starts again): its point, its tries and its skip change
LEMMA OnKeeps ==
    ASSUME StackInv, stack # <<>>, NEW f \in Frames,
           stack' = [stack EXCEPT ![Len(stack)] = f],
           f.method = Top.method, f.driver = Top.driver, f.to = Top.to,
           f.skip => initial, f.at # "start" => f.method = "login",
           f.left = Top.left \/ (f.left = Top.left - 1 /\ exc # "none"),
           budget' \in Int, conn' \in {"none", "open", "logged"}, exc' = "none",
           UNCHANGED <<cwd, initial, user, pooled, place, called, errors, lost>>
    PROVE  StackInv'
<1>1. FtpTypes /\ Nesting /\ Callers /\ InitialKnown /\ Patient /\ AtHome /\ AtWork
    BY DEF StackInv
<1> DEFINE n == Len(stack)
<1>2. n \in Nat \ {0} /\ DOMAIN stack = 1..n /\ 1 \in 1..n /\ Top = stack[n] /\ n \in 1..n
    BY <1>1, StackFacts
<1>3. stack \in Seq(Frames)
    BY <1>1 DEF FtpTypes
<1>4. /\ stack' \in Seq(Frames) /\ stack' # <<>> /\ Len(stack') = n
      /\ DOMAIN stack' = 1..n /\ stack'[n] = f
      /\ \A i \in 1..n-1 : stack'[i] = stack[i]
    BY <1>3, Changed
<1> HIDE DEF n
<1>5. \A i \in 1..n : i \in 1..n-1 \/ i = n
    BY <1>2, Intervals
<1>6. \A i \in 1..n-1 : i \in 1..n /\ i # n
    BY <1>2, Intervals
<1>7. \A i \in 1..n :
          /\ stack'[i].method = stack[i].method /\ stack'[i].to = stack[i].to
          /\ stack'[i].driver = stack[i].driver
    BY <1>2, <1>4, <1>5
<1>8. FtpTypes'
    BY <1>1, <1>4, Zenon DEF FtpTypes
<1>9. Nesting'
    <2>1. \A i \in 1..n : stack'[i].driver <=> i = 1
        BY <1>1, <1>2, <1>7 DEF Nesting
    <2>2. \A i \in 1..n : i = 1 \/ stack'[i].method \notin Transfers
        BY <1>1, <1>2, <1>7 DEF Nesting
    <2>3. \A i \in 1..n : stack'[i].at = "cwd" => i = n
        BY <1>1, <1>2, <1>4, <1>5, <1>6 DEF Nesting
    <2>4. \A i \in 1..n : stack'[i].at # "start" => stack'[i].method = "login"
        BY <1>1, <1>2, <1>4, <1>5, <1>6 DEF Nesting
    <2>5. \A i \in 1..n : stack'[i].method = "cwd" => stack'[i].to \in {"home", "work"}
        BY <1>1, <1>2, <1>7 DEF Nesting
    <2>6. budget' # NoBudget
        BY NoBudgetAssumption
    <2>7. stack'[1].method = called'
        BY <1>1, <1>2, <1>7 DEF Nesting
    <2> QED BY <1>4, <2>1, <2>2, <2>3, <2>4, <2>5, <2>6, <2>7 DEF Nesting
<1>10. Callers'
    BY <1>1, <1>2, <1>4, <1>7 DEF Callers
<1>11. InitialKnown'
    <2>1. \A i \in DOMAIN stack' : stack'[i].skip => initial'
        BY <1>1, <1>2, <1>4, <1>5, <1>6 DEF InitialKnown
    <2>2. user = "deals" /\ called = "cwd" => initial
        BY <1>1 DEF InitialKnown
    <2> QED BY <1>1, <1>4, <2>1, <2>2 DEF InitialKnown
<1>12. Patient'
    <2>1. Tries(called)' = Tries(called)
        BY DEF Tries
    <2>2. errors \in Nat /\ Tries(called) \in Int /\ stack[1].left \in Int
        BY <1>1, StackFacts, TriesFacts DEF FtpTypes
    <2>3. stack'[1].left + errors >= Tries(called)
        <3>1. CASE stack'[1].left = stack[1].left
            BY <1>1, <3>1 DEF Patient
        <3>2. CASE stack'[1].left # stack[1].left
            <4>1. n = 1
                BY <1>2, <1>4, <1>5, <3>2
            <4>2. stack'[1].left = stack[1].left - 1 /\ exc # "none"
                BY <1>2, <1>4, <3>2, <4>1
            <4>3. stack[1].left + errors >= Tries(called) + 1
                BY <1>1, <4>2 DEF Patient
            <4> QED BY <2>2, <4>2, <4>3
        <3> QED BY <3>1, <3>2
    <2> QED BY <1>4, <2>1, <2>3 DEF Patient
<1>13. AtHome'
    BY <1>1, <1>2, <1>4, <1>7 DEF AtHome
<1>14. AtWork'
    <2>1. Works' => Works
        BY <1>4 DEF Works
    <2>2. Works => /\ cwd # "home"
                   /\ \A i \in 1..n : stack[i].method = "cwd" => stack[i].to = "work"
                   /\ lost \/ cwd = "work" \/ \E i \in 1..n : i # 1 /\ stack[i].method = "cwd"
        BY <1>1, <1>2 DEF AtWork
    <2> QED BY <1>4, <1>7, <2>1, <2>2 DEF AtWork
<1> QED BY <1>8, <1>9, <1>10, <1>11, <1>12, <1>13, <1>14 DEF StackInv

\* The innermost gives up, and its error goes further up
LEMMA GiveUpKeeps ==
    ASSUME StackInv, stack # <<>>, exc # "none", stack' = Below,
           budget' = IF Top.driver THEN NoBudget ELSE IF Caught THEN budget - 1 ELSE budget,
           Caught => Top.left - 1 <= 0,
           lost' = (lost \/ (Top.method = "cwd" /\ Below # <<>>)),
           UNCHANGED <<conn, exc, cwd, initial, user, pooled, place, called, errors>>
    PROVE  StackInv'
<1>1. FtpTypes /\ Nesting /\ Callers /\ InitialKnown /\ Patient /\ AtHome /\ AtWork
    BY DEF StackInv
<1> DEFINE n == Len(stack)
<1>2. /\ n \in Nat \ {0} /\ DOMAIN stack = 1..n
      /\ Top = stack[n] /\ Top \in Frames
      /\ stack' \in Seq(Frames) /\ Len(stack') = n - 1
      /\ DOMAIN stack' = 1..n-1
      /\ \A i \in 1..n-1 :
            i \in DOMAIN stack /\ i # n /\ stack'[i] = stack[i] /\ stack[i].at # "cwd"
      /\ stack' = <<>> <=> n = 1
      /\ stack' # <<>> => 1 \in 1..n-1
      /\ Top.driver <=> n = 1
    BY <1>1, BelowFacts
<1>3. budget \in Int
    <2>1. budget # NoBudget /\ budget \in Int \cup {NoBudget}
        BY <1>1 DEF Nesting, FtpTypes
    <2> QED BY <2>1, Zenon
<1> HIDE DEF n
<1>4. budget - 1 \in Int
    BY <1>3
<1>5. FtpTypes'
    <2>1. budget' \in Int \cup {NoBudget}
        BY <1>3, <1>4, Zenon
    <2> QED BY <1>1, <1>2, <2>1, Zenon DEF FtpTypes
<1>6. Nesting'
    <2>1. \A i \in DOMAIN stack' : stack'[i].driver <=> i = 1
        BY <1>1, <1>2 DEF Nesting
    <2>2. \A i \in DOMAIN stack' : i = 1 \/ stack'[i].method \notin Transfers
        BY <1>1, <1>2 DEF Nesting
    <2>3. \A i \in DOMAIN stack' : stack'[i].at = "cwd" => i = Len(stack')
        BY <1>2
    <2>4. \A i \in DOMAIN stack' : stack'[i].at # "start" => stack'[i].method = "login"
        BY <1>1, <1>2 DEF Nesting
    <2>5. \A i \in DOMAIN stack' : stack'[i].method = "cwd" => stack'[i].to \in {"home", "work"}
        BY <1>1, <1>2 DEF Nesting
    <2>6. stack' = <<>> <=> budget' = NoBudget
        BY <1>2, <1>3, <1>4, NoBudgetAssumption, Zenon
    <2>7. stack' # <<>> => stack'[1].method = called'
        BY <1>1, <1>2 DEF Nesting
    <2> QED BY <2>1, <2>2, <2>3, <2>4, <2>5, <2>6, <2>7 DEF Nesting
<1>7. Callers'
    BY <1>1, <1>2 DEF Callers
<1>8. n = 1 => Top.method = called /\ Top = stack[1]
    BY <1>1, <1>2 DEF Nesting
<1>9. InitialKnown'
    <2>1. \A i \in DOMAIN stack' : stack'[i].skip => initial'
        BY <1>1, <1>2 DEF InitialKnown
    <2> QED BY <1>1, <2>1 DEF InitialKnown
<1>10. Patient'
    <2>1. Tries(called)' = Tries(called) /\ Catches(called)' = Catches(called)
        BY DEF Tries, Catches
    <2>2. stack' # <<>> => stack'[1].left = stack[1].left
        BY <1>2
    <2>3. ASSUME n = 1, exc \in Catches(called)
          PROVE  errors >= Tries(called)
        <3>1. Top.left - 1 <= 0
            BY <1>8, <2>3 DEF Caught
        <3>2. Top.left \in Int /\ errors \in Nat /\ Tries(called) \in Int
            BY <1>1, <1>2, TriesFacts DEF FtpTypes, Frames
        <3>3. Top.left + errors >= Tries(called) + 1
            BY <1>1, <1>8, <2>3 DEF Patient
        <3> QED BY <3>1, <3>2, <3>3
    <2> QED BY <1>1, <1>2, <2>1, <2>2, <2>3 DEF Patient
<1>11. AtHome'
    BY <1>1, <1>2 DEF AtHome
<1>12. AtWork'
    <2>1. Works' => Works /\ n # 1
        BY <1>1, <1>2 DEF Works, Callers
    <2>4. Works => /\ cwd # "home"
                   /\ \A i \in 1..n : stack[i].method = "cwd" => stack[i].to = "work"
                   /\ lost \/ cwd = "work" \/ \E i \in 1..n : i # 1 /\ stack[i].method = "cwd"
        BY <1>1, <1>2 DEF AtWork
    <2>5. ASSUME Works, n # 1
          PROVE  /\ cwd' # "home"
                 /\ \A i \in 1..n-1 : stack'[i].method = "cwd" => stack'[i].to = "work"
                 /\ lost' \/ cwd' = "work" \/ \E i \in 1..n-1 : i # 1 /\ stack'[i].method = "cwd"
        <3>1. \A i \in 1..n : i \in 1..n-1 \/ i = n
            BY <1>2, Intervals
        <3>2. CASE Top.method = "cwd"
            BY <1>2, <2>4, <2>5, <3>2
        <3>3. CASE Top.method # "cwd"
            BY <1>2, <2>4, <2>5, <3>1, <3>3
        <3> QED BY <3>2, <3>3
    <2> QED BY <1>2, <2>1, <2>5 DEF AtWork
<1> QED BY <1>5, <1>6, <1>7, <1>9, <1>10, <1>11, <1>12 DEF StackInv

LEMMA NoFrame ==
    /\ <<>> \in Seq(Frames) /\ Len(<<>>) + 1 = 1 /\ DOMAIN <<>> = {}
    /\ \A i \in 1..1 : i = 1
    BY EmptySeq

LEMMA NoError == \A n \in Int : n + 0 >= n
    OBVIOUS

\* The user calls a method
LEMMA CallKeeps ==
    ASSUME StackInv, stack = <<>>, exc = "none",
           NEW m \in {"login", "cwd", "get", "put"},
           NEW d \in {"", "home", "work", "file", "stream"}, Call(m, d),
           conn' \in {"none", "open", "logged"}, cwd' \in {"", "home", "work"},
           user' \in {"deals", "calls"}, place' \in {"home", "work"}, ~pooled',
           user' = "deals" => place' = "home" /\ m \in {"login", "cwd"},
           user' = "calls" => m # "login" /\ initial',
           m = "cwd" => d = place' /\ initial',
           place' = "home" => cwd' # "work",
           user' = "calls" /\ place' = "work" /\ m # "cwd" =>
               cwd' # "home" /\ (lost' \/ cwd' = "work")
    PROVE  StackInv'
<1>1. FtpTypes /\ Nesting
    BY DEF StackInv
<1>2. m \in Methods /\ budget = NoBudget
    BY <1>1 DEF Methods, Commands, Transfers, Nesting
<1>3. Push(<<>>, m, d) /\ errors' = 0 /\ called' = m /\ exc' = "none"
    BY DEF Call
<1>4. PICK f \in Frames :
          /\ f.method = m /\ f.to = d /\ f.at = "start" /\ ~f.skip
          /\ f.driver <=> budget = NoBudget
          /\ budget = NoBudget => f.left = Tries(m)
          /\ stack' \in Seq(Frames) /\ stack' # <<>> /\ Len(stack') = Len(<<>>) + 1
          /\ DOMAIN stack' = 1..Len(<<>>)+1 /\ \A i \in 1..Len(<<>>) : stack'[i] = <<>>[i]
          /\ stack'[Len(<<>>) + 1] = f
          /\ budget' \in Int
    BY <1>1, <1>2, <1>3, NoFrame, Pushed, Zenon
<1>5. /\ f.driver /\ f.left = Tries(m) /\ Len(stack') = 1 /\ stack'[1] = f
      /\ \A i \in DOMAIN stack' : i = 1
    BY <1>2, <1>4, NoFrame, Zenon
<1>6. FtpTypes'
    <2>1. errors' \in Nat
        BY <1>3
    <2> QED BY <1>2, <1>3, <1>4, <2>1, Zenon DEF FtpTypes
<1>7. Nesting'
    <2>1. budget' # NoBudget
        BY <1>4, NoBudgetAssumption
    <2>2. f.method = "cwd" => f.to \in {"home", "work"}
        BY <1>4
    <2>3. f.at = "start" /\ f.driver /\ f.method = called' /\ stack' # <<>>
        BY <1>3, <1>4, <1>5
    <2> QED BY <1>5, <2>1, <2>2, <2>3 DEF Nesting
<1>8. Callers'
    BY <1>3, <1>4, <1>5 DEF Callers
<1>9. InitialKnown'
    BY <1>3, <1>4, <1>5 DEF InitialKnown
<1>10. Patient'
    <2>1. Tries(m) \in Int /\ Tries(called)' = Tries(m)
        BY <1>2, <1>3, TriesFacts DEF Tries
    <2>2. stack'[1].left = Tries(m) /\ errors' = 0
        BY <1>3, <1>5
    <2>3. Tries(m) + 0 >= Tries(m)
        BY <2>1, NoError
    <2>4. stack'[1].left + errors' >= Tries(called)'
        BY <2>1, <2>2, <2>3, Zenon
    <2> QED BY <1>3, <1>4, <2>4 DEF Patient
<1>11. AtHome'
    BY <1>4, <1>5 DEF AtHome
<1>12. AtWork'
    BY <1>3, <1>4, <1>5 DEF AtWork, Works
<1> QED BY <1>6, <1>7, <1>8, <1>9, <1>10, <1>11, <1>12 DEF StackInv

\* Steps between two calls
LEMMA IdleKeeps ==
    ASSUME StackInv, stack = <<>>, exc' = "none" \/ exc' = exc,
           UNCHANGED <<stack, budget, called, errors, initial, conn, cwd>>,
           user' \in {"away", "deals", "holds", "calls"}, place' \in {"home", "work"},
           user' # "calls" => exc' = "none" \/ user' = "deals",
           user' = "deals" => place' = "home" /\ (exc' = "none" \/ called \in {"login", "cwd"}),
           user' = "calls" => called \in {"cwd", "get", "put"},
           pooled' => user' = "away",
           pooled' \/ user' # "away" => initial \/ (user' = "deals" /\ exc' # "none" /\ called # "cwd"),
           user' # "away" /\ place' = "home" => cwd # "work",
           Works' => cwd # "home" /\ (lost' \/ cwd = "work")
    PROVE  StackInv'
<1>1. FtpTypes /\ Nesting /\ Callers /\ InitialKnown /\ Patient /\ AtHome /\ AtWork
    BY DEF StackInv
<1>2. stack' = <<>> /\ DOMAIN <<>> = {}
    BY NoFrame
<1>3. FtpTypes'
    BY <1>1, Zenon DEF FtpTypes
<1>4. Nesting'
    BY <1>1, <1>2 DEF Nesting
<1>5. Callers'
    BY <1>1, <1>2 DEF Callers
<1>6. InitialKnown'
    BY <1>1, <1>2 DEF InitialKnown
<1>7. Patient'
    <2>1. Tries(called)' = Tries(called) /\ Catches(called)' = Catches(called)
        BY DEF Tries, Catches
    <2>2. "none" \notin Catches(called)
        BY <1>1, NoneNotCaught DEF FtpTypes
    <2> QED BY <1>1, <1>2, <2>1, <2>2 DEF Patient
<1>8. AtHome'
    BY <1>1, <1>2 DEF AtHome
<1>9. AtWork'
    BY <1>1, <1>2 DEF AtWork
<1> QED BY <1>3, <1>4, <1>5, <1>6, <1>7, <1>8, <1>9 DEF StackInv

LEMMA Logged ==
    ASSUME NEW s, NEW n \in DOMAIN s, NEW p, NEW k
    PROVE  [[s EXCEPT ![n].at = p] EXCEPT ![n].skip = k]
              = [s EXCEPT ![n] = [s[n] EXCEPT !.at = p, !.skip = k]]
OBVIOUS

LEMMA Restarted ==
    ASSUME NEW s, NEW n \in DOMAIN s, NEW l
    PROVE  [s EXCEPT ![n].left = l, ![n].at = "start"]
              = [s EXCEPT ![n] = [s[n] EXCEPT !.left = l, !.at = "start"]]
OBVIOUS

\* A frame of the stack is not the innermost, or is not after its login
LEMMA NotJustLogged ==
    ASSUME FtpTypes, Nesting, stack # <<>>, stack' = Below
    PROVE  ~JustLogged'
<1>1. /\ DOMAIN stack' = 1..Len(stack)-1 /\ Len(stack') = Len(stack) - 1
      /\ \A i \in 1..Len(stack)-1 : stack'[i] = stack[i] /\ stack[i].at # "cwd"
      /\ stack' # <<>> <=> Len(stack) # 1
      /\ Len(stack) \in Nat \ {0}
    BY BelowFacts
<1>2. Len(stack) # 1 => Len(stack) - 1 \in 1..Len(stack)-1
    <2>1. \A n \in Nat \ {0} : n # 1 => n - 1 \in 1..n-1
        OBVIOUS
    <2> QED BY <1>1, <2>1
<1>3. stack' # <<>> => stack'[Len(stack')].at # "cwd"
    BY <1>1, <1>2
<1> QED BY <1>3 DEF JustLogged, Top

LEMMA BudgetIsSet ==
    ASSUME FtpTypes, Nesting, stack # <<>>
    PROVE  budget \in Int /\ budget - 1 \in Int /\ budget # NoBudget
<1>1. budget # NoBudget /\ budget \in Int \cup {NoBudget}
    BY DEF Nesting, FtpTypes
<1>2. budget \in Int
    BY <1>1, Zenon
<1>3. \A n \in Int : n - 1 \in Int
    OBVIOUS
<1> QED BY <1>1, <1>2, <1>3

LEMMA UnwindStep ==
    ASSUME FtpInv, Unwind
    PROVE  FtpInv'
<1>1. /\ StackInv /\ FtpTypes /\ Nesting /\ InPlace /\ RightPlace
      /\ stack # <<>> /\ exc # "none"
    BY DEF FtpInv, StackInv, Unwind
<1> DEFINE left == IF Caught THEN Remains(Top) ELSE 0
           spent == IF Caught THEN Less(budget) ELSE budget
<1>2. /\ \/ /\ left > 0 /\ conn' = "none" /\ exc' = "none"
            /\ stack' = [stack EXCEPT ![Len(stack)].left = left, ![Len(stack)].at = "start"]
            /\ budget' = spent /\ UNCHANGED lost
         \/ /\ left <= 0 /\ stack' = Below
            /\ budget' = IF Top.driver THEN Released(Top) ELSE spent
            /\ lost' = (lost \/ (Top.method = "cwd" /\ Below # <<>>))
            /\ UNCHANGED <<conn, exc>>
      /\ UNCHANGED <<alive, dir, cwd, initial, user, pooled, place, answer, told, wrong, midway, called, errors>>
    BY DEF Unwind, record
<1>3. Top \in Frames /\ Top.left \in Int /\ Top = stack[Len(stack)] /\ Len(stack) \in DOMAIN stack
    BY <1>1, StackFacts
<1>4. budget \in Int /\ budget - 1 \in Int
    BY <1>1, BudgetIsSet
<1>5. ~JustLogged
    BY <1>1 DEF InPlace
<1>6. CASE left > 0
    <2>1. Caught /\ left = Top.left - 1 /\ left \in Int
        BY <1>3, <1>6 DEF Remains, Less
    <2>2. budget' = budget - 1 /\ budget' \in Int
        BY <1>2, <1>3, <1>4, <1>6, <2>1 DEF Less
    <2> DEFINE f == [Top EXCEPT !.left = Top.left - 1, !.at = "start"]
    <2>3. /\ f \in Frames /\ f.method = Top.method /\ f.driver = Top.driver /\ f.to = Top.to
          /\ f.skip = Top.skip /\ f.at = "start" /\ f.left = Top.left - 1
        BY <1>3, <2>1 DEF Frames
    <2>4. stack' = [stack EXCEPT ![Len(stack)] = f]
        <3>1. stack' = [stack EXCEPT ![Len(stack)].left = Top.left - 1, ![Len(stack)].at = "start"]
            BY <1>2, <1>6, <2>1
        <3>2. @ = [stack EXCEPT ![Len(stack)] =
                        [stack[Len(stack)] EXCEPT !.left = Top.left - 1, !.at = "start"]]
            BY <1>3, Restarted
        <3>3. @ = [stack EXCEPT ![Len(stack)] = f]
            BY <1>3
        <3> QED BY <3>1, <3>2, <3>3
    <2> HIDE DEF f
    <2>5. Top.skip => initial
        BY <1>1, <1>3 DEF StackInv, InitialKnown
    <2>6. StackInv'
        <3>1. /\ f.left = Top.left \/ (f.left = Top.left - 1 /\ exc # "none")
              /\ f.skip => initial
              /\ f.at # "start" => f.method = "login"
            BY <1>1, <2>3, <2>5
        <3>2. /\ conn' \in {"none", "open", "logged"} /\ exc' = "none"
              /\ UNCHANGED <<cwd, initial, user, pooled, place, called, errors, lost>>
            BY <1>2, <1>6, <2>1
        <3> QED BY <1>1, <2>2, <2>3, <2>4, <3>1, <3>2, OnKeeps
    <2>7. stack' # <<>> /\ ~JustLogged'
        <3>1. stack \in Seq(Frames)
            BY <1>1 DEF FtpTypes
        <3>2. stack' # <<>> /\ Len(stack') = Len(stack) /\ stack'[Len(stack)] = f
            BY <1>1, <2>3, <2>4, <3>1, Changed
        <3> QED BY <2>3, <3>2 DEF JustLogged, Top
    <2>8. InPlace' /\ RightPlace'
        BY <1>1, <1>2, <1>6, <2>1, <2>7 DEF InPlace, RightPlace
    <2> QED BY <2>6, <2>8 DEF FtpInv
<1>7. CASE left <= 0
    <2>1. ~(left > 0)
        BY <1>3, <1>7 DEF Remains, Less
    <2>2. Caught => Top.left - 1 <= 0
        BY <1>3, <1>7 DEF Remains, Less
    <2>3. budget' = IF Top.driver THEN NoBudget ELSE IF Caught THEN budget - 1 ELSE budget
        BY <1>2, <2>1 DEF Released, Less
    <2>4. StackInv'
        BY <1>1, <1>2, <2>1, <2>2, <2>3, GiveUpKeeps
    <2>5. ~JustLogged'
        BY <1>1, <1>2, <2>1, NotJustLogged
    <2>6. InPlace' /\ RightPlace'
        BY <1>1, <1>2, <1>5, <2>1, <2>5 DEF InPlace, RightPlace, Here, Resetting
    <2> QED BY <2>4, <2>6 DEF FtpInv
<1> QED BY <1>2, <1>6, <1>7

\* What holds while a wrapper m runs
LEMMA RunningFacts ==
    ASSUME FtpInv, NEW m, Running(m)
    PROVE  /\ StackInv /\ FtpTypes /\ Nesting /\ Callers /\ InitialKnown /\ AtHome /\ AtWork
           /\ InPlace /\ RightPlace /\ stack # <<>> /\ exc = "none" /\ Top.method = m
           /\ Top \in Frames /\ Top = stack[Len(stack)] /\ Len(stack) \in DOMAIN stack
           /\ user \in {"deals", "calls"}
<1>1. /\ StackInv /\ FtpTypes /\ Nesting /\ Callers /\ InitialKnown /\ AtHome /\ AtWork
      /\ InPlace /\ RightPlace /\ stack # <<>> /\ exc = "none" /\ Top.method = m
    BY DEF FtpInv, StackInv, Running
<1>2. user \in {"deals", "calls"}
    BY <1>1 DEF FtpTypes, Callers
<1> QED BY <1>1, <1>2, StackFacts

LEMMA ConnectStep ==
    ASSUME FtpInv, Connect
    PROVE  FtpInv'
<1>1. PICK m \in {"reach", "connect"} : Running(m)
    BY DEF Connect
<1>2. /\ StackInv /\ FtpTypes /\ Nesting /\ InPlace /\ RightPlace
      /\ stack # <<>> /\ exc = "none" /\ Top.method = m
    BY <1>1, RunningFacts
<1>3. CASE conn' = "open" /\ Return /\ UNCHANGED errors
    <2>1. /\ UNCHANGED <<cwd, initial, user, pooled, place, called, errors, lost, wrong>>
        BY <1>3 DEF Connect, record, remembered
    <2>2. StackInv'
        BY <1>2, <1>3, <2>1, PopKeeps
    <2>3. ~JustLogged'
        BY <1>2, <1>3, NotJustLogged DEF Return
    <2>4. InPlace' /\ RightPlace'
        BY <1>2, <1>3, <2>1, <2>3 DEF InPlace, RightPlace
    <2> QED BY <2>2, <2>4 DEF FtpInv
<1>4. CASE \E e \in ConnectErrors : Raise(e) /\ UNCHANGED session
    <2>1. PICK e \in ConnectErrors : Raise(e) /\ UNCHANGED session
        BY <1>4
    <2>2. /\ UNCHANGED <<conn, dir, cwd, initial, user, pooled, place, called, lost, midway, wrong>>
          /\ e # "none" /\ stack' = stack
        BY <2>1 DEF Connect, record, remembered, session, ConnectErrors, CommandErrors, Raise
    <2>3. StackInv'
        BY <1>2, <2>1, <2>2, RaiseKeeps
    <2>4. InPlace' /\ RightPlace'
        BY <1>2, <2>2 DEF InPlace, RightPlace, Here, JustLogged, Top, Resetting
    <2> QED BY <2>3, <2>4 DEF FtpInv
<1> QED BY <1>3, <1>4 DEF Connect

\* A wrapper that has just been called is at its start
LEMMA PushedNotLogged ==
    ASSUME FtpTypes, NEW s \in Seq(Frames), NEW m \in Methods,
           NEW d \in {"", "home", "work", "file", "stream"}, Push(s, m, d)
    PROVE  stack' # <<>> /\ ~JustLogged'
<1>1. PICK f \in Frames :
          /\ f.method = m /\ f.to = d /\ f.at = "start" /\ ~f.skip
          /\ f.driver <=> budget = NoBudget
          /\ budget = NoBudget => f.left = Tries(m)
          /\ stack' \in Seq(Frames) /\ stack' # <<>> /\ Len(stack') = Len(s) + 1
          /\ DOMAIN stack' = 1..Len(s)+1 /\ \A i \in 1..Len(s) : stack'[i] = s[i]
          /\ stack'[Len(s) + 1] = f
          /\ budget' \in Int
    BY Pushed, Zenon
<1>2. stack'[Len(stack')].at = "start"
    BY <1>1
<1> QED BY <1>1, <1>2 DEF JustLogged, Top

LEMMA NeedsLoginStep ==
    ASSUME FtpInv, NeedsLogin
    PROVE  FtpInv'
<1>1. PICK c \in Commands : Running(c)
    BY DEF NeedsLogin
<1>2. /\ StackInv /\ FtpTypes /\ Nesting /\ InPlace /\ RightPlace
      /\ stack # <<>> /\ exc = "none" /\ Top.method = c
      /\ Top = stack[Len(stack)] /\ Len(stack) \in DOMAIN stack
    BY <1>1, RunningFacts
<1>3. Top.at # "cwd"
    BY <1>2 DEF Nesting, Commands, Transfers
<1>4. PICK m \in {"reach", "login"} : Push(stack, m, "")
    BY DEF NeedsLogin
<1>5. /\ UNCHANGED <<conn, dir, cwd, initial, exc, user, pooled, place, called, errors, lost, midway, wrong>>
      /\ conn # "logged"
    BY DEF NeedsLogin, session, record, remembered
<1>6. Alike(stack)
    BY <1>2, <1>3, AlikeItself
<1>7. StackInv'
    BY <1>2, <1>4, <1>5, <1>6, PushKeeps
<1>8. m \in Methods /\ stack \in Seq(Frames)
    BY <1>2 DEF Methods, FtpTypes
<1>9. ~JustLogged'
    BY <1>2, <1>4, <1>8, PushedNotLogged
<1>10. InPlace' /\ RightPlace'
    BY <1>2, <1>5, <1>9 DEF InPlace, RightPlace
<1> QED BY <1>7, <1>10 DEF FtpInv

LEMMA LogInStep ==
    ASSUME FtpInv, LogIn
    PROVE  FtpInv'
<1>1. Running("login") /\ Top.at = "start"
    BY DEF LogIn, At
<1>2. /\ StackInv /\ FtpTypes /\ Nesting /\ InPlace /\ RightPlace
      /\ stack # <<>> /\ exc = "none" /\ Top.method = "login"
      /\ Top \in Frames /\ Top = stack[Len(stack)] /\ Len(stack) \in DOMAIN stack
    BY <1>1, RunningFacts
<1>3. UNCHANGED <<cwd, initial, user, pooled, place, wrong, lost, called>>
    BY DEF LogIn, record
<1>4. CASE conn = "none" /\ Push(stack, "connect", "") /\ UNCHANGED <<session, exc, midway, errors>>
    <2>1. UNCHANGED <<conn, dir, exc, midway, errors>>
        BY <1>4 DEF session
    <2>2. Alike(stack)
        BY <1>1, <1>2, AlikeItself
    <2>3. StackInv'
        BY <1>2, <1>3, <1>4, <2>1, <2>2, PushKeeps
    <2>4. "connect" \in Methods /\ stack \in Seq(Frames)
        BY <1>2 DEF Methods, FtpTypes
    <2>5. ~JustLogged'
        BY <1>2, <1>4, <2>4, PushedNotLogged
    <2>6. InPlace' /\ RightPlace'
        BY <1>2, <1>3, <1>4, <2>1, <2>5 DEF InPlace, RightPlace
    <2> QED BY <2>3, <2>6 DEF FtpInv
<1>5. CASE /\ conn' = "logged" /\ dir' = "home" /\ midway' = FALSE
           /\ stack' = [Moved("cwd") EXCEPT ![Len(stack)].skip = initial /\ cwd # ""]
           /\ UNCHANGED <<alive, budget, exc, errors>>
    <2> DEFINE k == initial /\ cwd # ""
               f == [Top EXCEPT !.at = "cwd", !.skip = k]
    <2>1. k \in BOOLEAN /\ (k => initial)
        BY <1>2 DEF FtpTypes
    <2>2. /\ f \in Frames /\ f.method = Top.method /\ f.driver = Top.driver /\ f.to = Top.to
          /\ f.skip = k /\ f.at = "cwd" /\ f.left = Top.left
        BY <1>2, <2>1 DEF Frames
    <2>3. stack' = [stack EXCEPT ![Len(stack)] = f]
        BY <1>2, <1>5, Logged DEF Moved
    <2> HIDE DEF f, k
    <2>4. StackInv'
        <3>1. budget' \in Int
            BY <1>2, <1>5, BudgetIsSet
        <3>2. /\ f.skip => initial
              /\ f.at # "start" => f.method = "login"
            BY <1>2, <2>1, <2>2
        <3> QED BY <1>2, <1>3, <1>5, <2>2, <2>3, <3>1, <3>2, OnKeeps
    <2>5. JustLogged'
        <3>1. stack \in Seq(Frames)
            BY <1>2 DEF FtpTypes
        <3>2. stack' # <<>> /\ Len(stack') = Len(stack) /\ stack'[Len(stack)] = f
            BY <1>2, <2>2, <2>3, <3>1, Changed
        <3> QED BY <1>2, <2>2, <3>2 DEF JustLogged, Top
    <2>6. InPlace' /\ RightPlace'
        BY <1>2, <1>3, <1>5, <2>5 DEF InPlace, RightPlace
    <2> QED BY <2>4, <2>6 DEF FtpInv
<1>6. CASE \E e \in CommandErrors : Raise(e) /\ UNCHANGED <<conn, dir, midway>>
    <2>1. PICK e \in CommandErrors : Raise(e) /\ UNCHANGED <<conn, dir, midway>>
        BY <1>6
    <2>2. e # "none" /\ stack' = stack
        BY <2>1 DEF CommandErrors, Raise
    <2>3. StackInv'
        BY <1>2, <1>3, <2>1, <2>2, RaiseKeeps
    <2>4. InPlace' /\ RightPlace'
        BY <1>1, <1>2, <1>3, <2>1, <2>2 DEF InPlace, RightPlace, Here, JustLogged, Top, Resetting
    <2> QED BY <2>3, <2>4 DEF FtpInv
<1> QED BY <1>4, <1>5, <1>6 DEF LogIn

LEMMA GoBackStep ==
    ASSUME FtpInv, GoBack
    PROVE  FtpInv'
<1>1. Running("login") /\ Top.at = "cwd"
    BY DEF GoBack, At
<1>2. /\ StackInv /\ FtpTypes /\ Nesting /\ InitialKnown /\ InPlace /\ RightPlace
      /\ stack # <<>> /\ exc = "none" /\ Top.method = "login"
      /\ Top \in Frames /\ Top = stack[Len(stack)] /\ Len(stack) \in DOMAIN stack
    BY <1>1, RunningFacts
<1>3. UNCHANGED <<conn, dir, initial, exc, user, pooled, place, called, errors, lost, midway, wrong>>
    BY DEF GoBack, session, remembered
<1>4. dir = "home"
    BY <1>1, <1>2 DEF InPlace, JustLogged
<1>5. Alike(Moved("pwd"))
    BY <1>2, AlikeMoved
<1>6. CASE cwd # "" /\ Push(Moved("pwd"), "cwd", cwd) /\ cwd' = ""
    <2>1. cwd \in {"", "home", "work"}
        BY <1>2 DEF FtpTypes
    <2>2. StackInv'
        BY <1>2, <1>3, <1>5, <1>6, <2>1, PushKeeps
    <2>3. "cwd" \in Methods /\ Moved("pwd") \in Seq(Frames)
        BY <1>5 DEF Methods, Commands, Alike
    <2>4. ~JustLogged'
        BY <1>2, <1>6, <2>1, <2>3, PushedNotLogged
    <2>5. InPlace' /\ RightPlace'
        BY <1>2, <1>3, <1>4, <1>6, <2>4 DEF InPlace, RightPlace, Here
    <2> QED BY <2>2, <2>5 DEF FtpInv
<1>7. CASE cwd = "" /\ stack' = Moved("pwd") /\ UNCHANGED <<cwd, budget>>
    <2> DEFINE f == [Top EXCEPT !.at = "pwd"]
    <2>1. /\ f \in Frames /\ f.method = Top.method /\ f.driver = Top.driver /\ f.to = Top.to
          /\ f.skip = Top.skip /\ f.at = "pwd" /\ f.left = Top.left
        BY <1>2 DEF Frames
    <2>2. stack' = [stack EXCEPT ![Len(stack)] = f]
        BY <1>2, <1>7 DEF Moved
    <2> HIDE DEF f
    <2>3. /\ f.skip => initial
          /\ f.at # "start" => f.method = "login"
          /\ conn' \in {"none", "open", "logged"}
        BY <1>2, <1>3, <2>1 DEF InitialKnown, FtpTypes
    <2>4. budget' \in Int
        BY <1>2, <1>7, BudgetIsSet
    <2>5. StackInv'
        BY <1>2, <1>3, <1>7, <2>1, <2>2, <2>3, <2>4, OnKeeps
    <2>6. ~JustLogged'
        <3>1. stack \in Seq(Frames)
            BY <1>2 DEF FtpTypes
        <3>2. stack' # <<>> /\ Len(stack') = Len(stack) /\ stack'[Len(stack)] = f
            BY <1>2, <2>1, <2>2, <3>1, Changed
        <3> QED BY <2>1, <3>2 DEF JustLogged, Top
    <2>7. InPlace' /\ RightPlace'
        BY <1>2, <1>3, <1>4, <1>7, <2>6 DEF InPlace, RightPlace, Here
    <2> QED BY <2>5, <2>7 DEF FtpInv
<1> QED BY <1>6, <1>7 DEF GoBack, Restores

\* A return that moves nothing: the reset, if there is one, is not over
LEMMA ReturnPlace ==
    ASSUME FtpInv, stack # <<>>, exc = "none", Return, ~JustLogged, Top.method # "cwd",
           UNCHANGED <<conn, dir, cwd, user, pooled, called, midway>>
    PROVE  InPlace'
<1>1. FtpTypes /\ Nesting /\ Callers /\ InPlace
    BY DEF FtpInv, StackInv
<1>2. ~JustLogged'
    BY <1>1, NotJustLogged DEF Return
<1>3. Resetting => Resetting'
    <2>1. stack' = <<>> => stack[1] = Top
        BY <1>1, BelowFacts DEF Return
    <2>2. stack' = <<>> => called # "cwd"
        BY <1>1, <2>1 DEF Nesting
    <2> QED BY <2>2 DEF Resetting
<1> QED BY <1>1, <1>2, <1>3 DEF InPlace, Here

LEMMA AskInitialStep ==
    ASSUME FtpInv, AskInitial
    PROVE  FtpInv'
<1>1. Running("login") /\ Top.at = "pwd"
    BY DEF AskInitial, At
<1>2. /\ StackInv /\ FtpTypes /\ Nesting /\ InitialKnown /\ InPlace /\ RightPlace
      /\ stack # <<>> /\ exc = "none" /\ Top.method = "login"
      /\ Top \in Frames /\ Top = stack[Len(stack)] /\ Len(stack) \in DOMAIN stack
    BY <1>1, RunningFacts
<1>3. /\ UNCHANGED <<conn, dir, cwd, initial, user, pooled, place, called, errors, lost, midway, wrong>>
      /\ conn' \in {"none", "open", "logged"}
    BY <1>2 DEF AskInitial, session, record, remembered, FtpTypes
<1>4. ~JustLogged
    BY <1>1 DEF JustLogged
<1>5. CASE Top.skip /\ Return
    <2>1. initial'
        BY <1>2, <1>3, <1>5 DEF InitialKnown
    <2>2. StackInv'
        BY <1>2, <1>3, <1>5, <2>1, PopKeeps
    <2>3. InPlace' /\ RightPlace'
        BY <1>2, <1>3, <1>4, <1>5, ReturnPlace DEF RightPlace
    <2> QED BY <2>2, <2>3 DEF FtpInv
<1>6. CASE Push(Moved("end"), "pwd", "") /\ UNCHANGED exc
    <2>1. Alike(Moved("end"))
        BY <1>2, AlikeMoved
    <2>2. StackInv'
        BY <1>2, <1>3, <1>6, <2>1, PushKeeps
    <2>3. "pwd" \in Methods /\ Moved("end") \in Seq(Frames)
        BY <2>1 DEF Methods, Commands, Alike
    <2>4. stack' # <<>> /\ ~JustLogged'
        BY <1>2, <1>6, <2>3, PushedNotLogged
    <2>5. InPlace' /\ RightPlace'
        BY <1>2, <1>3, <1>4, <1>6, <2>4 DEF InPlace, RightPlace, Here, Resetting
    <2> QED BY <2>2, <2>5 DEF FtpInv
<1> QED BY <1>5, <1>6 DEF AskInitial

LEMMA LoggedInStep ==
    ASSUME FtpInv, LoggedIn
    PROVE  FtpInv'
<1>1. Running("login") /\ Top.at = "end"
    BY DEF LoggedIn, At
<1>2. /\ StackInv /\ FtpTypes /\ InPlace /\ RightPlace
      /\ stack # <<>> /\ exc = "none" /\ Top.method = "login"
    BY <1>1, RunningFacts
<1>3. /\ UNCHANGED <<conn, dir, cwd, user, pooled, place, called, errors, lost, midway, wrong>>
      /\ initial' /\ Return /\ conn' \in {"none", "open", "logged"}
    BY <1>2 DEF LoggedIn, session, remembered, FtpTypes
<1>4. ~JustLogged
    BY <1>1 DEF JustLogged
<1>5. StackInv'
    BY <1>2, <1>3, PopKeeps
<1>6. InPlace' /\ RightPlace'
    BY <1>2, <1>3, <1>4, ReturnPlace DEF RightPlace
<1> QED BY <1>5, <1>6 DEF FtpInv

LEMMA RefusedFacts ==
    ASSUME Refused
    PROVE  \E e \in CommandErrors : e # "none" /\ Raise(e)
BY DEF Refused, CommandErrors

LEMMA PwdStep ==
    ASSUME FtpInv, Pwd
    PROVE  FtpInv'
<1>1. Running("pwd")
    BY DEF Pwd
<1>2. /\ StackInv /\ FtpTypes /\ InPlace /\ RightPlace
      /\ stack # <<>> /\ exc = "none" /\ Top.method = "pwd"
    BY <1>1, RunningFacts
<1>3. /\ UNCHANGED <<conn, dir, cwd, initial, user, pooled, place, called, lost, midway, wrong>>
      /\ conn' \in {"none", "open", "logged"}
    BY <1>2 DEF Pwd, record, remembered, FtpTypes
<1>4. ~JustLogged
    BY <1>2 DEF JustLogged
<1>5. CASE Return /\ UNCHANGED errors
    <2>1. StackInv'
        BY <1>2, <1>3, <1>5, PopKeeps
    <2>2. InPlace' /\ RightPlace'
        BY <1>2, <1>3, <1>4, <1>5, ReturnPlace DEF RightPlace
    <2> QED BY <2>1, <2>2 DEF FtpInv
<1>6. CASE Refused
    <2>1. PICK e \in CommandErrors : e # "none" /\ Raise(e)
        BY <1>6, RefusedFacts
    <2>2. stack' = stack
        BY <2>1 DEF Raise
    <2>3. StackInv'
        BY <1>2, <1>3, <2>1, RaiseKeeps
    <2>4. InPlace' /\ RightPlace'
        BY <1>2, <1>3, <1>4, <2>2 DEF InPlace, RightPlace, Here, JustLogged, Top, Resetting
    <2> QED BY <2>3, <2>4 DEF FtpInv
<1> QED BY <1>5, <1>6 DEF Pwd

LEMMA CwdStep ==
    ASSUME FtpInv, Cwd
    PROVE  FtpInv'
<1>1. Running("cwd")
    BY DEF Cwd
<1>2. /\ StackInv /\ FtpTypes /\ Nesting /\ InPlace /\ RightPlace
      /\ stack # <<>> /\ exc = "none" /\ Top.method = "cwd"
      /\ Top \in Frames /\ Top = stack[Len(stack)] /\ Len(stack) \in DOMAIN stack
    BY <1>1, RunningFacts
<1>3. /\ UNCHANGED <<conn, initial, user, pooled, place, called, lost, midway, wrong>>
      /\ conn' \in {"none", "open", "logged"}
    BY <1>2 DEF Cwd, remembered, FtpTypes
<1>4. ~JustLogged
    BY <1>2 DEF JustLogged
<1>5. CASE dir' = Top.to /\ cwd' = Top.to /\ Return /\ UNCHANGED errors
    <2>1. StackInv'
        BY <1>2, <1>3, <1>5, PopKeeps
    <2>2. Top.to \in {"home", "work"}
        BY <1>2 DEF Nesting
    <2>3. ~JustLogged'
        BY <1>2, <1>5, NotJustLogged DEF Return
    <2>4. InPlace' /\ RightPlace'
        BY <1>2, <1>3, <1>5, <2>2, <2>3 DEF InPlace, RightPlace, Here
    <2> QED BY <2>1, <2>4 DEF FtpInv
<1>6. CASE Refused /\ UNCHANGED <<dir, cwd>>
    <2>1. PICK e \in CommandErrors : e # "none" /\ Raise(e)
        BY <1>6, RefusedFacts
    <2>2. stack' = stack
        BY <2>1 DEF Raise
    <2>3. StackInv'
        BY <1>2, <1>3, <1>6, <2>1, RaiseKeeps
    <2>4. InPlace' /\ RightPlace'
        BY <1>2, <1>3, <1>4, <1>6, <2>2 DEF InPlace, RightPlace, Here, JustLogged, Top, Resetting
    <2> QED BY <2>3, <2>4 DEF FtpInv
<1> QED BY <1>5, <1>6 DEF Cwd

\* A transfer is made by the outermost wrapper, where its user works
LEMMA TransferPlace ==
    ASSUME FtpInv, NEW m \in Transfers, Running(m), conn = "logged"
    PROVE  /\ user = "calls" /\ called = m
           /\ dir = place \/ lost \/ midway
<1>1. /\ FtpTypes /\ Nesting /\ Callers /\ AtHome /\ AtWork /\ InPlace
      /\ stack # <<>> /\ exc = "none" /\ Top.method = m
      /\ Top = stack[Len(stack)] /\ Len(stack) \in DOMAIN stack
      /\ user \in {"deals", "calls"}
    BY RunningFacts
<1>2. Len(stack) = 1
    BY <1>1 DEF Nesting
<1>3. called = m /\ \A i \in DOMAIN stack : i = 1
    <2>1. DOMAIN stack = 1..1
        BY <1>1, <1>2, StackFacts
    <2> QED BY <1>1, <1>2, <2>1, NoFrame DEF Nesting
<1>4. user = "calls"
    BY <1>1, <1>3 DEF Callers, Transfers
<1>5. ~JustLogged /\ ~Resetting
    BY <1>1, <1>4 DEF JustLogged, Resetting, Transfers
<1>6. dir = Here \/ midway
    BY <1>1, <1>4, <1>5 DEF InPlace
<1>7. CASE place = "home"
    BY <1>1, <1>3, <1>4, <1>6, <1>7 DEF AtHome, Here, FtpTypes
<1>8. CASE place = "work"
    <2>1. Works
        BY <1>1, <1>3, <1>4, <1>8 DEF Works, Transfers
    <2>2. lost \/ cwd = "work"
        BY <1>1, <1>3, <2>1 DEF AtWork
    <2> QED BY <1>3, <1>4, <1>6, <1>8, <2>2 DEF Here
<1> QED BY <1>1, <1>3, <1>4, <1>7, <1>8 DEF FtpTypes

LEMMA TransferStep ==
    ASSUME FtpInv, NEW m \in Transfers, Transfer(m)
    PROVE  FtpInv'
<1>1. Running(m) /\ conn = "logged"
    BY DEF Transfer
<1>2. /\ StackInv /\ FtpTypes /\ InPlace /\ RightPlace
      /\ stack # <<>> /\ exc = "none" /\ Top.method = m
    BY <1>1, RunningFacts
<1>3. /\ UNCHANGED <<conn, cwd, initial, user, pooled, place, called, lost>>
      /\ conn' \in {"none", "open", "logged"}
    BY <1>1 DEF Transfer, record
<1>4. ~JustLogged /\ Top.method # "cwd"
    BY <1>2 DEF JustLogged, Transfers
<1>5. CASE /\ wrong' = wrong \cup IF dir = place THEN {}
                                  ELSE {IF lost THEN "lost" ELSE IF midway THEN "midway" ELSE "other"}
           /\ Return /\ UNCHANGED <<dir, midway, errors>>
    <2>1. StackInv'
        BY <1>2, <1>3, <1>4, <1>5, PopKeeps DEF Transfers
    <2>2. InPlace'
        BY <1>2, <1>3, <1>4, <1>5, ReturnPlace
    <2>3. dir = place \/ lost \/ midway
        BY <1>1, TransferPlace
    <2>4. RightPlace'
        BY <1>2, <1>5, <2>3 DEF RightPlace
    <2> QED BY <2>1, <2>2, <2>4 DEF FtpInv
<1>6. CASE Refused /\ UNCHANGED wrong /\ (UNCHANGED <<dir, midway>> \/ midway')
    <2>1. PICK e \in CommandErrors : e # "none" /\ Raise(e)
        BY <1>6, RefusedFacts
    <2>2. stack' = stack
        BY <2>1 DEF Raise
    <2>3. StackInv'
        BY <1>2, <1>3, <2>1, RaiseKeeps
    <2>4. ~JustLogged' /\ RightPlace'
        BY <1>2, <1>4, <1>6, <2>2 DEF RightPlace, JustLogged, Top
    <2>5. CASE UNCHANGED <<dir, midway>>
        <3>1. InPlace'
            BY <1>2, <1>3, <1>4, <2>2, <2>4, <2>5 DEF InPlace, Here, Resetting
        <3> QED BY <2>3, <2>4, <3>1 DEF FtpInv
    <2>6. CASE midway'
        BY <2>3, <2>4, <2>6 DEF FtpInv, InPlace
    <2> QED BY <1>6, <2>5, <2>6
<1> QED BY <1>5, <1>6 DEF Transfer

\* What holds between two calls
LEMMA IdleFacts ==
    ASSUME FtpInv, stack = <<>>
    PROVE  /\ StackInv /\ FtpTypes /\ Nesting /\ Callers /\ InitialKnown /\ AtHome /\ AtWork
           /\ InPlace /\ RightPlace /\ ~JustLogged /\ DOMAIN <<>> = {}
BY NoFrame DEF FtpInv, StackInv, JustLogged

LEMMA DealStep ==
    ASSUME FtpInv, Deal
    PROVE  FtpInv'
<1>1. stack = <<>> /\ exc = "none" /\ user = "away"
    BY DEF FtpInv, StackInv, Callers, Deal
<1>2. /\ StackInv /\ FtpTypes /\ Nesting /\ InitialKnown /\ InPlace /\ RightPlace /\ ~JustLogged
    BY <1>1, IdleFacts
<1>3. /\ place' = "home" /\ lost' = FALSE /\ pooled' = FALSE /\ user' = "deals"
      /\ UNCHANGED wrong
    BY DEF Deal
<1>4. CASE pooled /\ Resets
    <2>1. /\ UNCHANGED <<conn, dir, initial, midway>> /\ cwd' = "" /\ Call("cwd", "home")
        BY <1>4 DEF Deal, session
    <2>2. initial
        BY <1>4 DEF Resets
    <2>3. conn' \in {"none", "open", "logged"}
        BY <1>2, <2>1 DEF FtpTypes
    <2>4. StackInv'
        BY <1>1, <1>2, <1>3, <2>1, <2>2, <2>3, CallKeeps
    <2>5. stack' # <<>> /\ ~JustLogged' /\ called' = "cwd"
        <3>1. "cwd" \in Methods /\ <<>> \in Seq(Frames)
            BY NoFrame DEF Methods, Commands
        <3> QED BY <1>2, <2>1, <3>1, PushedNotLogged DEF Call
    <2>6. InPlace' /\ RightPlace'
        BY <1>2, <1>3, <2>5 DEF InPlace, RightPlace, Resetting
    <2> QED BY <2>4, <2>6 DEF FtpInv
<1>5. CASE pooled /\ ~Resets
    <2>1. UNCHANGED <<conn, dir, initial, midway, cwd, budget, stack, exc, errors, called>>
        BY <1>5 DEF Deal, session
    <2>2. initial /\ cwd = ""
        BY <1>2, <1>5 DEF InitialKnown, Resets
    <2>3. ~Works'
        BY <1>3 DEF Works
    <2>4. StackInv'
        BY <1>1, <1>2, <1>3, <2>1, <2>2, <2>3, IdleKeeps
    <2>5. InPlace' /\ RightPlace'
        BY <1>1, <1>2, <1>3, <1>5, <2>1 DEF InPlace, RightPlace, Here, JustLogged, Resetting
    <2> QED BY <2>4, <2>5 DEF FtpInv
<1>6. CASE ~pooled
    <2>1. conn' = "none" /\ cwd' = "" /\ Call("login", "")
        BY <1>6 DEF Deal
    <2>2. StackInv'
        BY <1>1, <1>2, <1>3, <2>1, CallKeeps
    <2>3. ~JustLogged'
        <3>1. "login" \in Methods /\ <<>> \in Seq(Frames)
            BY NoFrame DEF Methods
        <3> QED BY <1>2, <2>1, <3>1, PushedNotLogged DEF Call
    <2>4. InPlace' /\ RightPlace'
        BY <1>2, <1>3, <2>1, <2>3 DEF InPlace, RightPlace
    <2> QED BY <2>2, <2>4 DEF FtpInv
<1> QED BY <1>4, <1>5, <1>6

LEMMA DealtStep ==
    ASSUME FtpInv, Dealt
    PROVE  FtpInv'
<1>1. user = "deals" /\ stack = <<>> /\ exc = "none"
    BY DEF Dealt
<1>2. /\ StackInv /\ FtpTypes /\ Nesting /\ Callers /\ InitialKnown /\ AtHome
      /\ InPlace /\ RightPlace /\ ~JustLogged
    BY <1>1, IdleFacts
<1>3. /\ UNCHANGED <<conn, dir, cwd, initial, exc, pooled, place, lost, midway, wrong>>
      /\ place = "home" /\ initial /\ ~pooled /\ cwd # "work"
      /\ conn' \in {"none", "open", "logged"} /\ cwd' \in {"", "home", "work"}
    BY <1>1, <1>2 DEF Dealt, session, record, Callers, InitialKnown, AtHome, FtpTypes
<1>4. CASE conn = "logged" /\ user' = "holds" /\ UNCHANGED <<budget, stack, errors, called>>
    <2>1. ~Works'
        BY <1>3 DEF Works
    <2>2. StackInv'
        BY <1>1, <1>2, <1>3, <1>4, <2>1, IdleKeeps
    <2>3. InPlace' /\ RightPlace'
        BY <1>1, <1>2, <1>3, <1>4 DEF InPlace, RightPlace, Here, JustLogged, Resetting
    <2> QED BY <2>2, <2>3 DEF FtpInv
<1>5. CASE conn # "logged" /\ UNCHANGED user /\ Call("login", "")
    <2>1. StackInv'
        BY <1>1, <1>2, <1>3, <1>5, CallKeeps
    <2>2. ~JustLogged'
        <3>1. "login" \in Methods /\ <<>> \in Seq(Frames)
            BY NoFrame DEF Methods
        <3> QED BY <1>2, <1>5, <3>1, PushedNotLogged DEF Call
    <2>3. InPlace' /\ RightPlace'
        BY <1>2, <1>3, <1>5, <2>2 DEF InPlace, RightPlace
    <2> QED BY <2>1, <2>3 DEF FtpInv
<1> QED BY <1>4, <1>5 DEF Dealt

LEMMA CdStep ==
    ASSUME FtpInv, Cd
    PROVE  FtpInv'
<1>1. user = "holds" /\ stack = <<>> /\ exc = "none"
    BY DEF FtpInv, StackInv, Callers, Cd
<1>2. /\ StackInv /\ FtpTypes /\ Callers /\ InitialKnown /\ InPlace /\ RightPlace /\ ~JustLogged
    BY <1>1, IdleFacts
<1>3. /\ UNCHANGED <<conn, dir, cwd, initial, pooled, lost, midway, wrong>>
      /\ user' = "calls" /\ place' = "work" /\ Call("cwd", "work")
      /\ initial /\ ~pooled
      /\ conn' \in {"none", "open", "logged"} /\ cwd' \in {"", "home", "work"}
    BY <1>1, <1>2 DEF Cd, session, record, Callers, InitialKnown, FtpTypes
<1>4. StackInv'
    BY <1>1, <1>2, <1>3, CallKeeps
<1>5. ~JustLogged'
    <2>1. "cwd" \in Methods /\ <<>> \in Seq(Frames)
        BY NoFrame DEF Methods, Commands
    <2> QED BY <1>2, <1>3, <2>1, PushedNotLogged DEF Call
<1>6. InPlace' /\ RightPlace'
    BY <1>1, <1>2, <1>3, <1>5 DEF InPlace, RightPlace, Here, Resetting
<1> QED BY <1>4, <1>6 DEF FtpInv

LEMMA AskStep ==
    ASSUME FtpInv, NEW m \in Transfers, Ask(m)
    PROVE  FtpInv'
<1>1. user = "holds" /\ stack = <<>> /\ exc = "none"
    BY DEF FtpInv, StackInv, Callers, Ask
<1>2. /\ StackInv /\ FtpTypes /\ Callers /\ InitialKnown /\ AtHome /\ AtWork
      /\ InPlace /\ RightPlace /\ ~JustLogged /\ DOMAIN <<>> = {}
    BY <1>1, IdleFacts
<1>3. PICK kind \in {"file", "stream"} : Call(m, kind)
    BY DEF Ask
<1>4. /\ UNCHANGED <<conn, dir, cwd, initial, pooled, place, lost, midway, wrong>>
      /\ user' = "calls" /\ initial /\ ~pooled
      /\ conn' \in {"none", "open", "logged"} /\ cwd' \in {"", "home", "work"}
      /\ place' \in {"home", "work"}
    BY <1>1, <1>2 DEF Ask, session, record, Callers, InitialKnown, FtpTypes
<1>5. place = "home" => cwd # "work"
    BY <1>1, <1>2 DEF AtHome
<1>6. place = "work" => cwd # "home" /\ (lost \/ cwd = "work")
    BY <1>1, <1>2 DEF AtWork, Works
<1>7. m \in Methods /\ m \in {"get", "put"} /\ <<>> \in Seq(Frames)
    BY NoFrame DEF Methods, Commands, Transfers
<1>8. StackInv'
    BY <1>1, <1>2, <1>3, <1>4, <1>5, <1>6, <1>7, CallKeeps
<1>9. ~JustLogged'
    BY <1>2, <1>3, <1>7, PushedNotLogged DEF Call
<1>10. InPlace' /\ RightPlace'
    BY <1>1, <1>2, <1>4, <1>9 DEF InPlace, RightPlace, Here, Resetting
<1> QED BY <1>8, <1>10 DEF FtpInv

LEMMA EndsStep ==
    ASSUME FtpInv, Ends
    PROVE  FtpInv'
<1>1. user = "calls" /\ stack = <<>>
    BY DEF Ends
<1>2. /\ StackInv /\ FtpTypes /\ Callers /\ InitialKnown /\ AtHome /\ AtWork
      /\ InPlace /\ RightPlace /\ ~JustLogged /\ DOMAIN <<>> = {}
    BY <1>1, IdleFacts
<1>3. /\ UNCHANGED <<conn, dir, cwd, initial, budget, stack, place, lost, midway, wrong, called, errors>>
      /\ initial /\ ~pooled /\ place' \in {"home", "work"}
    BY <1>1, <1>2 DEF Ends, session, record, Callers, InitialKnown, FtpTypes
<1>4. place = "home" => cwd # "work"
    BY <1>1, <1>2 DEF AtHome
<1>5. CASE exc = "none" /\ user' = "holds" /\ UNCHANGED <<pooled, exc>>
    <2>1. Works' => cwd # "home" /\ (lost' \/ cwd = "work")
        BY <1>1, <1>2, <1>3, <1>5 DEF AtWork, Works
    <2>2. StackInv'
        BY <1>1, <1>2, <1>3, <1>4, <1>5, <2>1, IdleKeeps
    <2>3. InPlace' /\ RightPlace'
        BY <1>1, <1>2, <1>3, <1>5 DEF InPlace, RightPlace, Here, JustLogged, Resetting
    <2> QED BY <2>2, <2>3 DEF FtpInv
<1>6. CASE Close
    <2>1. user' = "away" /\ exc' = "none"
        BY <1>6 DEF Close
    <2>2. ~Works'
        BY <2>1 DEF Works
    <2>3. StackInv'
        BY <1>1, <1>2, <1>3, <2>1, <2>2, IdleKeeps
    <2>4. InPlace' /\ RightPlace'
        BY <1>1, <1>2, <1>3, <2>1 DEF InPlace, RightPlace, Here, JustLogged, Resetting
    <2> QED BY <2>3, <2>4 DEF FtpInv
<1> QED BY <1>5, <1>6 DEF Ends

LEMMA GiveBackStep ==
    ASSUME FtpInv, GiveBack
    PROVE  FtpInv'
<1>1. user = "holds" /\ stack = <<>> /\ user' = "away" /\ exc' = "none"
    BY DEF FtpInv, StackInv, Callers, GiveBack, Close
<1>2. /\ StackInv /\ FtpTypes /\ Callers /\ InitialKnown /\ InPlace /\ RightPlace /\ ~JustLogged
    BY <1>1, IdleFacts
<1>3. /\ UNCHANGED <<conn, dir, cwd, initial, budget, stack, place, lost, midway, wrong, called, errors>>
      /\ initial /\ place' \in {"home", "work"} /\ ~Works'
    BY <1>1, <1>2 DEF GiveBack, session, record, remembered, InitialKnown, FtpTypes, Works
<1>4. StackInv'
    BY <1>1, <1>2, <1>3, IdleKeeps
<1>5. InPlace' /\ RightPlace'
    BY <1>1, <1>2, <1>3 DEF InPlace, RightPlace, Here, JustLogged, Resetting
<1> QED BY <1>4, <1>5 DEF FtpInv

LEMMA NotDealtStep ==
    ASSUME FtpInv, NotDealt
    PROVE  FtpInv'
<1>1. user = "deals" /\ stack = <<>> /\ user' = "away" /\ exc' = "none"
    BY DEF NotDealt
<1>2. /\ StackInv /\ FtpTypes /\ Callers /\ InPlace /\ RightPlace /\ ~JustLogged
    BY <1>1, IdleFacts
<1>3. /\ UNCHANGED <<conn, cwd, initial, budget, stack, place, wrong, called, errors, pooled>>
      /\ ~pooled /\ place' \in {"home", "work"} /\ ~Works'
    BY <1>1, <1>2 DEF NotDealt, session, record, Callers, FtpTypes, Works
<1>4. StackInv'
    BY <1>1, <1>2, <1>3, IdleKeeps
<1>5. InPlace' /\ RightPlace'
    BY <1>1, <1>2, <1>3 DEF InPlace, RightPlace, JustLogged
<1> QED BY <1>4, <1>5 DEF FtpInv

LEMMA Unchanged ==
    ASSUME FtpInv,
           UNCHANGED <<conn, dir, cwd, initial, budget, stack, exc, user, pooled, place>>,
           UNCHANGED <<lost, midway, wrong, called, errors>>
    PROVE  FtpInv'
<1>1. /\ FtpTypes /\ Nesting /\ Callers /\ InitialKnown /\ Patient /\ AtHome /\ AtWork
      /\ InPlace /\ RightPlace
    BY DEF FtpInv, StackInv
<1>2. FtpTypes'
    BY <1>1, Zenon DEF FtpTypes
<1>3. Nesting'
    BY <1>1 DEF Nesting
<1>4. Callers'
    BY <1>1 DEF Callers
<1>5. InitialKnown'
    BY <1>1 DEF InitialKnown
<1>6. Patient'
    <2>1. Tries(called)' = Tries(called) /\ Catches(called)' = Catches(called)
        BY Zenon DEF Tries, Catches
    <2> QED BY <1>1, <2>1 DEF Patient
<1>7. AtHome'
    BY <1>1 DEF AtHome
<1>8. AtWork'
    <2>1. Works' <=> Works
        BY DEF Works
    <2> QED BY <1>1, <2>1 DEF AtWork
<1>9. InPlace'
    <2>1. (JustLogged' <=> JustLogged) /\ (Resetting' <=> Resetting) /\ Here' = Here
        BY DEF JustLogged, Top, Resetting, Here
    <2> QED BY <1>1, <2>1 DEF InPlace
<1>10. RightPlace'
    BY <1>1 DEF RightPlace
<1> QED BY <1>2, <1>3, <1>4, <1>5, <1>6, <1>7, <1>8, <1>9, <1>10 DEF FtpInv, StackInv

LEMMA DropStep ==
    ASSUME FtpInv, Drop
    PROVE  FtpInv'
BY Unchanged DEF Drop, record, remembered

LEMMA StutterStep ==
    ASSUME FtpInv, UNCHANGED ftpvars
    PROVE  FtpInv'
BY Unchanged DEF ftpvars, session, record, remembered

LEMMA FtpStart ==
    ASSUME FtpInit
    PROVE  FtpInv
<1>1. /\ stack = <<>> /\ budget = NoBudget /\ exc = "none" /\ user = "away" /\ ~pooled
      /\ conn = "none" /\ cwd = "" /\ place = "home" /\ called = "login" /\ errors = 0 /\ wrong = {}
    BY DEF FtpInit
<1>2. FtpTypes
    <2>1. "login" \in Methods /\ 0 \in Nat
        BY DEF Methods
    <2> QED BY <1>1, <2>1, NoFrame, Zenon DEF FtpTypes
<1>3. Nesting /\ Callers /\ InitialKnown /\ AtHome /\ AtWork
    BY <1>1, NoFrame DEF Nesting, Callers, InitialKnown, AtHome, AtWork, Works
<1>4. Patient
    <2>1. "none" \notin Catches(called)
        BY <1>2, NoneNotCaught DEF FtpTypes
    <2> QED BY <1>1, <2>1 DEF Patient
<1>5. InPlace /\ RightPlace
    BY <1>1 DEF InPlace, JustLogged, RightPlace
<1> QED BY <1>2, <1>3, <1>4, <1>5 DEF FtpInv, StackInv

LEMMA FtpInvariant == FtpSpec => []FtpInv
<1>1. ASSUME FtpInv, [FtpNext]_ftpvars
      PROVE  FtpInv'
    <2>1. CASE FtpNext
        BY <1>1, <2>1, UnwindStep, ConnectStep, NeedsLoginStep, LogInStep, GoBackStep,
           AskInitialStep, LoggedInStep, PwdStep, CwdStep, TransferStep, DealStep, DealtStep,
           CdStep, AskStep, EndsStep, GiveBackStep, NotDealtStep, DropStep
           DEF FtpNext, FtpStep
    <2> QED BY <1>1, <2>1, StutterStep
<1> QED BY <1>1, FtpStart, PTL DEF FtpSpec

\* Every transfer is made in the directory of its user, unless the return to it has
\* failed or the put of an earlier user has left the client elsewhere.
THEOREM MadeInPlace == FtpSpec => []RightPlace
<1>1. FtpInv => RightPlace
    BY DEF FtpInv
<1> QED BY <1>1, FtpInvariant, PTL

\* An error that a method retries ends the call only after as many errors as the method
\* has tries, whatever the methods that it calls have used.
THEOREM PatientCalls == FtpSpec => []GivesUpLate
<1>1. FtpInv => GivesUpLate
    BY DEF FtpInv, StackInv, Patient, GivesUpLate
<1> QED BY <1>1, FtpInvariant, PTL

\* Between two calls no budget of tries is left.
THEOREM BudgetIsReleased == FtpSpec => []BudgetReleased
<1>1. FtpInv => BudgetReleased
    BY DEF FtpInv, StackInv, Nesting, BudgetReleased
<1> QED BY <1>1, FtpInvariant, PTL

\* While a call lasts, every error it has met was charged at least one try of the shared
\* budget, but for the one that is going up
Charged ==
    stack # <<>> => errors + budget <= Tries(called) + IF exc = "none" THEN 0 ELSE 1

\* What a step of the client may do to the accounts
Idles == stack' = <<>>
Starts == errors' = 0 /\ budget' = Tries(called')
Goes == stack # <<>> /\ called' = called /\ errors' = errors /\ exc' = exc /\ budget' <= budget
Errs == /\ stack # <<>> /\ called' = called /\ errors' = errors + 1 /\ budget' = budget
        /\ exc = "none" /\ exc' # "none"
Pays == /\ stack # <<>> /\ called' = called /\ errors' = errors /\ budget' = budget - 1
        /\ exc # "none" /\ exc' = "none"

LEMMA AccountsKept ==
    ASSUME FtpInv, FtpInv', Charged, Idles \/ Starts \/ Goes \/ Errs \/ Pays
    PROVE  Charged'
<1>1. /\ FtpTypes /\ Nesting /\ FtpTypes' /\ Nesting'
    BY DEF FtpInv, StackInv
<1>2. CASE stack' = <<>>
    BY <1>2 DEF Charged
<1>3. CASE stack' # <<>>
    <2>1. budget' \in Int
        <3>1. budget' # NoBudget
            BY <1>1, <1>3 DEF Nesting
        <3> QED BY <1>1, <3>1, Zenon DEF FtpTypes
    <2>2. stack # <<>> => budget \in Int
        BY <1>1, BudgetIsSet
    <2>3. errors \in Int /\ errors' \in Int
        <3>1. errors \in Nat /\ errors' \in Nat
            BY <1>1, Zenon DEF FtpTypes
        <3> QED BY <3>1
    <2>4. Tries(called) \in Int /\ Tries(called') \in Int
        BY <1>1, TriesFacts DEF FtpTypes
    <2>5. Tries(called)' = Tries(called')
        BY Zenon DEF Tries
    <2>6. CASE Starts
        BY <2>1, <2>4, <2>5, <2>6 DEF Charged, Starts
    <2>7. CASE Goes
        BY <2>1, <2>2, <2>3, <2>4, <2>5, <2>7 DEF Charged, Goes
    <2>8. CASE Errs
        BY <2>1, <2>2, <2>3, <2>4, <2>5, <2>8 DEF Charged, Errs
    <2>9. CASE Pays
        BY <2>1, <2>2, <2>3, <2>4, <2>5, <2>9 DEF Charged, Pays
    <2> QED BY <1>3, <2>6, <2>7, <2>8, <2>9 DEF Idles
<1> QED BY <1>2, <1>3

\* A wrapper called by another takes from the budget that is there
LEMMA PushGoes ==
    ASSUME FtpInv, stack # <<>>, NEW s, NEW m, NEW d, Push(s, m, d),
           called' = called, errors' = errors, exc' = exc
    PROVE  Goes
<1>1. budget \in Int /\ budget # NoBudget
    BY BudgetIsSet DEF FtpInv, StackInv
<1>2. budget' = budget
    BY <1>1 DEF Push, Budget
<1> QED BY <1>1, <1>2 DEF Goes

LEMMA ReturnGoes ==
    ASSUME FtpInv, stack # <<>>, Return, called' = called, errors' = errors
    PROVE  Idles \/ Goes
<1>1. /\ FtpTypes /\ Nesting
    BY DEF FtpInv, StackInv
<1>2. budget \in Int
    BY <1>1, BudgetIsSet
<1>3. CASE Top.driver
    <2>1. stack' = <<>>
        BY <1>1, <1>3, BelowFacts DEF Return
    <2> QED BY <2>1 DEF Idles
<1>4. CASE ~Top.driver
    BY <1>2, <1>4 DEF Return, Released, Goes
<1> QED BY <1>3, <1>4

LEMMA RaiseErrs ==
    ASSUME stack # <<>>, exc = "none", NEW e, e # "none", Raise(e), called' = called
    PROVE  Errs
BY DEF Raise, Errs

LEMMA RefusedErrs ==
    ASSUME stack # <<>>, exc = "none", Refused, called' = called
    PROVE  Errs
<1>1. PICK e \in CommandErrors : Raise(e)
    BY DEF Refused, CommandErrors
<1>2. e # "none"
    BY DEF CommandErrors
<1> QED BY <1>1, <1>2, RaiseErrs

LEMMA StaysGoes ==
    ASSUME FtpInv, stack # <<>>,
           called' = called, errors' = errors, exc' = exc, budget' = budget
    PROVE  Goes
<1>1. budget \in Int
    BY BudgetIsSet DEF FtpInv, StackInv
<1> QED BY <1>1 DEF Goes

LEMMA CallStarts ==
    ASSUME FtpInv, stack = <<>>, NEW m, NEW d, Call(m, d)
    PROVE  Starts
<1>1. budget = NoBudget
    BY DEF FtpInv, StackInv, Nesting
<1> QED BY <1>1 DEF Call, Push, Budget, Starts

LEMMA UnwindPays ==
    ASSUME FtpInv, Unwind
    PROVE  Idles \/ Goes \/ Pays
<1>1. /\ FtpTypes /\ Nesting /\ stack # <<>> /\ exc # "none"
      /\ called' = called /\ errors' = errors
    BY DEF FtpInv, StackInv, Unwind
<1>2. budget \in Int /\ Top \in Frames
    BY <1>1, BudgetIsSet, StackFacts
<1>3. CASE exc' = "none"
    <2>1. Caught /\ budget' = budget - 1
        BY <1>1, <1>2, <1>3 DEF Unwind, Less
    <2> QED BY <1>1, <1>3, <2>1 DEF Pays
<1>4. CASE exc' # "none"
    <2>1. /\ stack' = Below /\ exc' = exc
          /\ budget' = IF Top.driver THEN NoBudget ELSE IF Caught THEN budget - 1 ELSE budget
        BY <1>4 DEF Unwind, Released, Less
    <2>2. CASE Top.driver
        BY <1>1, <2>1, <2>2, BelowFacts DEF Idles
    <2>3. CASE ~Top.driver
        BY <1>1, <1>2, <2>1, <2>3 DEF Goes
    <2> QED BY <2>2, <2>3
<1> QED BY <1>3, <1>4

LEMMA AccountsStep ==
    ASSUME FtpInv, FtpNext
    PROVE  Idles \/ Starts \/ Goes \/ Errs \/ Pays \/ UNCHANGED <<stack, budget, exc, called, errors>>
<1>1. CASE Unwind
    BY <1>1, UnwindPays
<1>2. CASE Connect
    <2>1. stack # <<>> /\ exc = "none" /\ called' = called
        BY <1>2 DEF Connect, Running, remembered
    <2>2. CASE Return /\ UNCHANGED errors
        BY <2>1, <2>2, ReturnGoes
    <2>3. CASE \E e \in ConnectErrors : Raise(e)
        BY <2>1, <2>3, RaiseErrs DEF ConnectErrors, CommandErrors
    <2> QED BY <1>2, <2>2, <2>3 DEF Connect
<1>3. CASE NeedsLogin
    <2>1. stack # <<>> /\ called' = called /\ errors' = errors /\ exc' = exc
        BY <1>3 DEF NeedsLogin, Running, remembered
    <2> QED BY <1>3, <2>1, PushGoes DEF NeedsLogin
<1>4. CASE LogIn
    <2>1. stack # <<>> /\ exc = "none" /\ called' = called
        BY <1>4 DEF LogIn, Running
    <2>2. CASE Push(stack, "connect", "") /\ UNCHANGED <<exc, errors>>
        BY <2>1, <2>2, PushGoes
    <2>3. CASE UNCHANGED <<budget, exc, errors>>
        BY <2>1, <2>3, StaysGoes
    <2>4. CASE \E e \in CommandErrors : Raise(e)
        BY <2>1, <2>4, RaiseErrs DEF CommandErrors
    <2> QED BY <1>4, <2>2, <2>3, <2>4 DEF LogIn
<1>5. CASE GoBack
    <2>1. stack # <<>> /\ called' = called /\ errors' = errors /\ exc' = exc
        BY <1>5 DEF GoBack, Running, remembered
    <2>2. CASE Push(Moved("pwd"), "cwd", cwd)
        BY <2>1, <2>2, PushGoes
    <2>3. CASE UNCHANGED budget
        BY <2>1, <2>3, StaysGoes
    <2> QED BY <1>5, <2>2, <2>3 DEF GoBack
<1>6. CASE AskInitial
    <2>1. stack # <<>> /\ called' = called /\ errors' = errors
        BY <1>6 DEF AskInitial, Running, remembered
    <2>2. CASE Return
        BY <2>1, <2>2, ReturnGoes
    <2>3. CASE Push(Moved("end"), "pwd", "") /\ UNCHANGED exc
        BY <2>1, <2>3, PushGoes
    <2> QED BY <1>6, <2>2, <2>3 DEF AskInitial
<1>7. CASE LoggedIn
    <2>1. stack # <<>> /\ called' = called /\ errors' = errors
        BY <1>7 DEF LoggedIn, Running, remembered
    <2> QED BY <1>7, <2>1, ReturnGoes DEF LoggedIn
<1>8. CASE Pwd
    <2>1. stack # <<>> /\ exc = "none" /\ called' = called
        BY <1>8 DEF Pwd, Running, remembered
    <2> QED BY <1>8, <2>1, ReturnGoes, RefusedErrs DEF Pwd
<1>9. CASE Cwd
    <2>1. stack # <<>> /\ exc = "none" /\ called' = called
        BY <1>9 DEF Cwd, Running, remembered
    <2> QED BY <1>9, <2>1, ReturnGoes, RefusedErrs DEF Cwd
<1>10. ASSUME NEW m \in Transfers, Transfer(m)
       PROVE  Idles \/ Goes \/ Errs
    <2>1. stack # <<>> /\ exc = "none" /\ called' = called
        BY <1>10 DEF Transfer, Running
    <2>2. (Return /\ UNCHANGED errors) \/ Refused
        BY <1>10 DEF Transfer
    <2> QED BY <2>1, <2>2, ReturnGoes, RefusedErrs
<1>11. CASE Dealt
    <2>1. stack = <<>>
        BY <1>11 DEF Dealt
    <2> QED BY <1>11, <2>1, CallStarts DEF Dealt, Idles
<1>12. CASE NotDealt \/ Ends
    BY <1>12 DEF NotDealt, Ends, Idles
<1>13. CASE Deal
    <2>1. stack = <<>>
        BY <1>13 DEF FtpInv, StackInv, Callers, Deal
    <2> QED BY <1>13, <2>1, CallStarts DEF Deal, Idles
<1>14. CASE Cd
    <2>1. stack = <<>>
        BY <1>14 DEF FtpInv, StackInv, Callers, Cd
    <2> QED BY <1>14, <2>1, CallStarts DEF Cd
<1>15. ASSUME NEW m \in Transfers, Ask(m)
       PROVE  Starts
    <2>1. stack = <<>>
        BY <1>15 DEF FtpInv, StackInv, Callers, Ask
    <2>2. \E kind \in {"file", "stream"} : Call(m, kind)
        BY <1>15 DEF Ask
    <2> QED BY <2>1, <2>2, CallStarts
<1>16. CASE GiveBack
    <2>1. stack' = <<>>
        BY <1>16 DEF FtpInv, StackInv, Callers, GiveBack
    <2> QED BY <2>1 DEF Idles
<1>17. CASE Drop
    BY <1>17 DEF Drop, Idles
<1> QED BY <1>1, <1>2, <1>3, <1>4, <1>5, <1>6, <1>7, <1>8, <1>9, <1>10, <1>11, <1>12, <1>13,
           <1>14, <1>15, <1>16, <1>17 DEF FtpNext, FtpStep

\* A call that lasts has met no more errors than the tries it has taken from its budget,
\* but for the one that is going up: whatever the wrappers inside it, each error is
\* charged to the budget that they share.
THEOREM ErrorsAreCharged == FtpSpec => []Charged
<1>1. FtpInit => Charged
    BY DEF FtpInit, Charged
<1>2. ASSUME FtpInv, FtpInv', Charged, [FtpNext]_ftpvars
      PROVE  Charged'
    <2>1. CASE Idles \/ Starts \/ Goes \/ Errs \/ Pays
        BY <1>2, <2>1, AccountsKept
    <2>2. CASE UNCHANGED <<stack, budget, exc, called, errors>>
        <3>1. Tries(called)' = Tries(called)
            BY <2>2, Zenon DEF Tries
        <3> QED BY <1>2, <2>2, <3>1 DEF Charged
    <2>3. CASE FtpNext
        BY <1>2, <2>1, <2>2, <2>3, AccountsStep
    <2> QED BY <1>2, <2>2, <2>3 DEF ftpvars, remembered
<1> QED BY <1>1, <1>2, FtpInvariant, PTL DEF FtpSpec

(***************************************************************************)
(* BoundedTries.  The wrappers of a call share one budget b.  One that is  *)
(* called now takes at most b tries, so that it may fail b - 1 times and   *)
(* succeed (Spare), and each error takes a try of the budget away: all the *)
(* calls that can still be made inside a wrapper meet at most b (b - 1)    *)
(* errors (Reserve).  The invariant Solvent says that the errors met, what *)
(* the wrappers of the stack have left and what is due to those that they  *)
(* will call never exceed the square of the tries of the method called.    *)
(***************************************************************************)
\* What a wrapper called now may take besides its first try, and what it costs at most,
\* with the wrappers that it calls, until nothing is left of a budget of b tries
Spare(b) == IF b < 1 THEN 0 ELSE b - 1
Reserve(b) == IF b < 1 THEN 0 ELSE b * (b - 1)

\* The errors that the innermost wrapper m may still meet inside the wrappers it calls
Due(m, e, c, b) ==
    IF e # "none" \/ m = "connect" \/ (m \in Commands /\ c = "logged") THEN Reserve(b - 1)
    ELSE IF m \in {"login", "reach"} THEN Spare(b) + Reserve(b - 1)
    ELSE Reserve(b)

\* k errors are enough for the tries left to the wrappers of s: each has its own besides
\* what was given to those above it, and at least what it could have taken
Funded(s, b, k) ==
    \E g \in [1..Len(s) -> Nat] :
        /\ g[1] >= s[1].left - 1
        /\ \A i \in 1..Len(s)-1 : g[i+1] >= g[i] + (s[i+1].left - 1) /\ g[i+1] >= g[i] + Spare(b)
        /\ g[Len(s)] <= k

\* Who calls whom: f calls h
Under(f, h) ==
    \/ h.method = "connect" /\ f.method = "login" /\ f.at = "start"
    \/ h.method \in {"cwd", "pwd"} /\ f.method = "login"
    \/ h.method \in {"reach", "login"} /\ f.method \in Commands
Chain == \A i \in 1..Len(stack)-1 : Under(stack[i], stack[i+1])

\* A login that has gone past its first command has logged in
PastLogin ==
    stack # <<>> /\ exc = "none" /\ Top.method = "login" /\ Top.at # "start" => conn = "logged"

Square == Tries(called) * Tries(called)
Rising == IF exc = "none" THEN 0 ELSE 1
Solvent ==
    /\ stack = <<>> => errors <= Square
    /\ stack # <<>> => \E k \in Nat :
          /\ Funded(stack, budget, k)
          /\ errors + k + Due(Top.method, exc, conn, budget) <= Square - 1 + Rising

Thrifty == Chain /\ PastLogin /\ Solvent

LEMMA SpareFacts ==
    ASSUME NEW b \in Int
    PROVE  /\ Spare(b) \in Nat /\ Spare(b - 1) \in Nat /\ Spare(b - 1) <= Spare(b)
           /\ b >= 2 => Spare(b) = Spare(b - 1) + 1
           /\ b < 2 => Spare(b) = 0 /\ Spare(b - 1) = 0
BY DEF Spare

LEMMA ReserveFacts ==
    ASSUME NEW b \in Int
    PROVE  /\ Reserve(b) \in Nat /\ Reserve(b - 1) \in Nat
           /\ Reserve(b) = Spare(b) + Spare(b) + Reserve(b - 1)
<1>1. CASE b < 1
    BY <1>1 DEF Spare, Reserve
<1>2. CASE b >= 1
    <2>1. b * (b - 1) = (b - 1) + (b - 1) + (b - 1) * ((b - 1) - 1)
        OBVIOUS
    <2>2. b * (b - 1) \in Nat /\ (b - 1 >= 1 => (b - 1) * ((b - 1) - 1) \in Nat)
        BY <1>2
    <2> QED BY <1>2, <2>1, <2>2 DEF Spare, Reserve
<1> QED BY <1>1, <1>2

\* What a wrapper may cost is between the reserves of the budget and of a try less
LEMMA DueFacts ==
    ASSUME NEW b \in Int, NEW m, NEW e, NEW c
    PROVE  /\ Due(m, e, c, b) \in Nat /\ Reserve(b - 1) \in Nat /\ Spare(b) \in Nat
           /\ Reserve(b - 1) <= Due(m, e, c, b)
           /\ Due(m, e, c, b) <= Spare(b) + Spare(b) + Reserve(b - 1)
           /\ e # "none" => Due(m, e, c, b) = Reserve(b - 1)
<1>1. /\ Spare(b) \in Nat /\ Reserve(b) \in Nat /\ Reserve(b - 1) \in Nat
      /\ Reserve(b) = Spare(b) + Spare(b) + Reserve(b - 1)
    BY SpareFacts, ReserveFacts
<1> QED BY <1>1 DEF Due

\* After an error that is caught, whatever is tried again
LEMMA DueAgain ==
    ASSUME NEW b \in Int, NEW m \in Methods
    PROVE  Due(m, "none", "none", b - 1) <= Reserve(b - 1)
<1>1. b - 1 \in Int
    OBVIOUS
<1>2. /\ Spare(b - 1) \in Nat /\ Reserve(b - 1) \in Nat /\ Reserve((b - 1) - 1) \in Nat
      /\ Reserve(b - 1) = Spare(b - 1) + Spare(b - 1) + Reserve((b - 1) - 1)
    BY <1>1, SpareFacts, ReserveFacts
<1> QED BY <1>2 DEF Due

\* The funds of a stack, as it changes: a first wrapper, ...
LEMMA FundedFirst ==
    ASSUME NEW s, NEW b \in Int, NEW k \in Nat, Len(s) = 1, s[1].left \in Int, k >= s[1].left - 1
    PROVE  Funded(s, b, k)
<1> DEFINE g == [i \in 1..1 |-> k]
<1>1. g \in [1..1 -> Nat] /\ g[1] = k /\ 1..1-1 = {}
    OBVIOUS
<1> HIDE DEF g
<1> QED BY <1>1 DEF Funded

\* ... the same tries, ...
LEMMA FundedSame ==
    ASSUME NEW s, NEW t, NEW b \in Int, NEW k \in Nat, Funded(s, b, k), Len(s) \in Nat \ {0},
           Len(t) = Len(s), \A i \in 1..Len(s) : t[i].left = s[i].left
    PROVE  Funded(t, b, k)
<1>1. PICK g \in [1..Len(s) -> Nat] :
        /\ g[1] >= s[1].left - 1
        /\ \A i \in 1..Len(s)-1 : g[i+1] >= g[i] + (s[i+1].left - 1) /\ g[i+1] >= g[i] + Spare(b)
        /\ g[Len(s)] <= k
    BY DEF Funded
<1>2. 1 \in 1..Len(s) /\ \A i \in 1..Len(s)-1 : i + 1 \in 1..Len(s)
    OBVIOUS
<1>3. t[1].left = s[1].left /\ \A i \in 1..Len(s)-1 : t[i+1].left = s[i+1].left
    BY <1>2
<1> QED BY <1>1, <1>3 DEF Funded

\* ... one more wrapper, which has no more than it may take, ...
LEMMA FundedMore ==
    ASSUME NEW s, NEW t, NEW b \in Int, NEW k \in Nat, Funded(s, b, k), Len(s) \in Nat \ {0},
           Len(t) = Len(s) + 1, \A i \in 1..Len(s) : t[i].left = s[i].left,
           t[Len(s) + 1].left \in Int, t[Len(s) + 1].left - 1 <= Spare(b)
    PROVE  Funded(t, b, k + Spare(b))
<1> DEFINE n == Len(s)
<1>1. PICK g \in [1..n -> Nat] :
        /\ g[1] >= s[1].left - 1
        /\ \A i \in 1..n-1 : g[i+1] >= g[i] + (s[i+1].left - 1) /\ g[i+1] >= g[i] + Spare(b)
        /\ g[n] <= k
    BY DEF Funded
<1>2. Spare(b) \in Nat
    BY SpareFacts
<1>3. n \in Nat \ {0} /\ n \in 1..n /\ 1 \in 1..n /\ n + 1 \notin 1..n
    OBVIOUS
<1> HIDE DEF n
<1> DEFINE h == [i \in 1..n+1 |-> IF i = n + 1 THEN g[n] + Spare(b) ELSE g[i]]
<1>4. g[n] \in Nat /\ g[n] + Spare(b) \in Nat
    BY <1>2, <1>3
<1>5. \A i \in 1..n+1 : i # n + 1 => i \in 1..n
    BY <1>3
<1>6. h \in [1..n+1 -> Nat]
    BY <1>4, <1>5
<1>7. h[n+1] = g[n] + Spare(b) /\ \A i \in 1..n : h[i] = g[i]
    BY <1>3
<1> HIDE DEF h
<1>8. h[1] >= t[1].left - 1 /\ h[n+1] <= k + Spare(b)
    BY <1>1, <1>2, <1>3, <1>4, <1>7 DEF n
<1>9. ASSUME NEW i \in 1..n
      PROVE  h[i+1] >= h[i] + (t[i+1].left - 1) /\ h[i+1] >= h[i] + Spare(b)
    <2>1. CASE i = n
        BY <1>2, <1>3, <1>4, <1>7, <2>1 DEF n
    <2>2. CASE i # n
        <3>1. i \in 1..n-1 /\ i + 1 \in 1..n
            BY <1>3, <2>2
        <3>2. h[i] = g[i] /\ h[i+1] = g[i+1] /\ t[i+1].left = s[i+1].left
            BY <1>7, <3>1 DEF n
        <3> QED BY <1>1, <3>1, <3>2
    <2> QED BY <2>1, <2>2
<1>10. Len(t) = n + 1 /\ (n + 1) - 1 = n
    BY <1>3 DEF n
<1> QED BY <1>6, <1>8, <1>9, <1>10 DEF Funded

\* ... one less, ...
LEMMA FundedLess ==
    ASSUME NEW s, NEW t, NEW b \in Int, NEW c \in {b, b - 1}, NEW k \in Nat, Funded(s, b, k),
           Len(s) \in Nat \ {0, 1}, Len(t) = Len(s) - 1,
           \A i \in 1..Len(s)-1 : t[i].left = s[i].left
    PROVE  k - Spare(b) \in Nat /\ Funded(t, c, k - Spare(b))
<1> DEFINE n == Len(s)
<1>1. PICK g \in [1..n -> Nat] :
        /\ g[1] >= s[1].left - 1
        /\ \A i \in 1..n-1 : g[i+1] >= g[i] + (s[i+1].left - 1) /\ g[i+1] >= g[i] + Spare(b)
        /\ g[n] <= k
    BY DEF Funded
<1>2. Spare(b) \in Nat /\ Spare(c) \in Nat /\ Spare(c) <= Spare(b)
    <2>1. Spare(b) \in Nat /\ Spare(b - 1) \in Nat /\ Spare(b - 1) <= Spare(b) /\ Spare(b) <= Spare(b)
        BY SpareFacts
    <2>2. c = b \/ c = b - 1
        OBVIOUS
    <2> QED BY <2>1, <2>2, Zenon
<1>3. /\ n \in Nat \ {0, 1} /\ n \in 1..n /\ 1 \in 1..n-1 /\ n - 1 \in 1..n-1 /\ (n - 1) + 1 = n
      /\ \A i \in 1..n-1 : i \in 1..n
      /\ \A i \in 1..(n-1)-1 : i \in 1..n-1 /\ i + 1 \in 1..n-1
    OBVIOUS
<1> HIDE DEF n
<1> DEFINE h == [i \in 1..n-1 |-> g[i]]
<1>4. h \in [1..n-1 -> Nat] /\ \A i \in 1..n-1 : h[i] = g[i]
    BY <1>3
<1> HIDE DEF h
<1>5. g[n-1] \in Nat /\ g[n] \in Nat
    BY <1>3
<1>6. g[n] >= g[n-1] + Spare(b)
    <2>1. g[(n-1)+1] >= g[n-1] + Spare(b)
        BY <1>1, <1>3
    <2> QED BY <1>3, <2>1
<1>7. k - Spare(b) \in Nat /\ g[n-1] <= k - Spare(b)
    <2>1. \A x, y, z, p \in Nat : x >= y + p /\ x <= z => z - p \in Nat /\ y <= z - p
        OBVIOUS
    <2>2. g[n] <= k
        BY <1>1
    <2> QED BY <1>2, <1>5, <1>6, <2>1, <2>2, Zenon
<1>8. h[1] >= t[1].left - 1 /\ h[n-1] <= k - Spare(b)
    BY <1>1, <1>3, <1>4, <1>7 DEF n
<1>9. ASSUME NEW i \in 1..(n-1)-1
      PROVE  h[i+1] >= h[i] + (t[i+1].left - 1) /\ h[i+1] >= h[i] + Spare(c)
    <2>1. i \in 1..n-1 /\ i + 1 \in 1..n-1 /\ i \in 1..n /\ i + 1 \in 1..n
        BY <1>3
    <2>2. h[i] = g[i] /\ h[i+1] = g[i+1] /\ t[i+1].left = s[i+1].left
        BY <1>4, <2>1 DEF n
    <2>3. g[i] \in Nat /\ g[i+1] \in Nat
        BY <2>1
    <2>4. g[i+1] >= g[i] + (s[i+1].left - 1) /\ g[i+1] >= g[i] + Spare(b)
        BY <1>1, <2>1
    <2> QED BY <1>2, <2>2, <2>3, <2>4
<1>10. Len(t) = n - 1
    BY DEF n
<1> QED BY <1>4, <1>7, <1>8, <1>9, <1>10 DEF Funded

\* ... one try less for the innermost, and for the budget
LEMMA FundedAgain ==
    ASSUME NEW s, NEW t, NEW b \in Int, NEW k \in Nat, Funded(s, b, k),
           Len(s) \in Nat \ {0}, Len(t) = Len(s), s[Len(s)].left \in Int, s[Len(s)].left >= 2,
           \A i \in 1..Len(s)-1 : t[i].left = s[i].left,
           t[Len(s)].left = s[Len(s)].left - 1
    PROVE  k - 1 \in Nat /\ Funded(t, b - 1, k - 1)
<1> DEFINE n == Len(s)
<1>1. PICK g \in [1..n -> Nat] :
        /\ g[1] >= s[1].left - 1
        /\ \A i \in 1..n-1 : g[i+1] >= g[i] + (s[i+1].left - 1) /\ g[i+1] >= g[i] + Spare(b)
        /\ g[n] <= k
    BY DEF Funded
<1>2. /\ Spare(b) \in Nat /\ Spare(b - 1) \in Nat /\ Spare(b - 1) <= Spare(b)
      /\ b >= 2 => Spare(b) = Spare(b - 1) + 1
      /\ b < 2 => Spare(b) = 0 /\ Spare(b - 1) = 0
    BY SpareFacts
<1>3. /\ n \in Nat \ {0} /\ n \in 1..n /\ 1 \in 1..n
      /\ \A i \in 1..n-1 : i \in 1..n /\ i # n /\ i + 1 \in 1..n
      /\ \A i \in 1..n : i # n => i \in 1..n-1
    OBVIOUS
<1>13. g[n] \in Nat /\ s[n].left \in Int /\ s[n].left >= 2
    BY <1>3
<1> HIDE DEF n
<1>4. g[n] >= 1
    <2>1. CASE n = 1
        BY <1>1, <1>13, <2>1
    <2>2. CASE n # 1
        <3>1. n - 1 \in 1..n-1 /\ n - 1 \in 1..n /\ (n - 1) + 1 = n
            BY <1>3, <2>2
        <3>2. g[n] >= g[n-1] + (s[n].left - 1)
            <4>1. g[(n-1)+1] >= g[n-1] + (s[(n-1)+1].left - 1)
                BY <1>1, <3>1
            <4> QED BY <3>1, <4>1
        <3>3. g[n-1] \in Nat
            BY <3>1
        <3> QED BY <1>13, <3>2, <3>3
    <2> QED BY <2>1, <2>2
<1> DEFINE h == [i \in 1..n |-> IF i = n THEN g[n] - 1 ELSE g[i]]
<1>5. g[n] - 1 \in Nat
    BY <1>13, <1>4
<1>6. h \in [1..n -> Nat] /\ h[n] = g[n] - 1 /\ \A i \in 1..n-1 : h[i] = g[i]
    BY <1>3, <1>5
<1> HIDE DEF h
<1>7. k - 1 \in Nat /\ h[n] <= k - 1
    BY <1>1, <1>4, <1>6, <1>13
<1>8. h[1] >= t[1].left - 1
    <2>1. CASE n = 1
        BY <1>1, <1>6, <1>13, <2>1 DEF n
    <2>2. CASE n # 1
        <3>1. 1 \in 1..n-1
            BY <1>3, <2>2
        <3> QED BY <1>1, <1>6, <3>1 DEF n
    <2> QED BY <2>1, <2>2
<1>9. ASSUME NEW i \in 1..n-1
      PROVE  h[i+1] >= h[i] + (t[i+1].left - 1) /\ h[i+1] >= h[i] + Spare(b - 1)
    <2>1. g[i] \in Nat /\ g[i+1] \in Nat /\ h[i] = g[i]
        BY <1>3, <1>6
    <2>2. g[i+1] >= g[i] + (s[i+1].left - 1) /\ g[i+1] >= g[i] + Spare(b)
        BY <1>1
    <2>3. CASE i + 1 = n
        <3>1. h[i+1] = g[i+1] - 1 /\ t[i+1].left = s[i+1].left - 1 /\ s[i+1].left \in Int /\ s[i+1].left >= 2
            BY <1>6, <1>13, <2>3 DEF n
        <3>2. g[i+1] - 1 >= g[i] + (t[i+1].left - 1)
            <4>1. \A x, y, z \in Int : x >= y + (z - 1) => x - 1 >= y + ((z - 1) - 1)
                OBVIOUS
            <4>2. g[i+1] - 1 >= g[i] + ((s[i+1].left - 1) - 1)
                <5>1. g[i+1] \in Int /\ g[i] \in Int /\ s[i+1].left \in Int
                    BY <2>1, <3>1
                <5> QED BY <2>2, <4>1, <5>1, Zenon
            <4>3. t[i+1].left - 1 = (s[i+1].left - 1) - 1
                BY <3>1
            <4> QED BY <4>2, <4>3, Zenon
        <3>3. g[i+1] - 1 >= g[i] + Spare(b - 1)
            <4>1. CASE b >= 2
                BY <1>2, <2>1, <2>2, <4>1
            <4>2. CASE b < 2
                <5>1. \A x, y, z \in Int : x >= y + (z - 1) /\ z >= 2 => x - 1 >= y + 0
                    OBVIOUS
                <5>2. g[i+1] \in Int /\ g[i] \in Int /\ s[i+1].left \in Int
                    BY <2>1, <3>1
                <5>3. g[i+1] - 1 >= g[i] + 0
                    BY <2>2, <3>1, <5>1, <5>2, Zenon
                <5> QED BY <1>2, <4>2, <5>3, Zenon
            <4> QED BY <2>1, <4>1, <4>2
        <3>4. h[i+1] = g[i+1] - 1
            BY <3>1
        <3> QED BY <2>1, <3>2, <3>3, <3>4, Zenon
    <2>4. CASE i + 1 # n
        <3>1. i + 1 \in 1..n-1
            BY <1>3, <2>4
        <3>2. h[i+1] = g[i+1] /\ t[i+1].left = s[i+1].left
            BY <1>6, <3>1 DEF n
        <3>3. g[i+1] >= g[i] + Spare(b - 1)
            <4>1. \A x, y, u, v \in Nat : x >= y + u /\ v <= u => x >= y + v
                OBVIOUS
            <4>2. g[i+1] >= g[i] + Spare(b) /\ Spare(b - 1) <= Spare(b)
                BY <1>2, <2>2
            <4> QED BY <1>2, <2>1, <4>1, <4>2, Zenon
        <3> QED BY <2>1, <2>2, <3>2, <3>3, Zenon
    <2> QED BY <2>3, <2>4
<1>10. Len(t) = n
    BY DEF n
<1> QED BY <1>6, <1>7, <1>8, <1>9, <1>10 DEF Funded

LEMMA AccountFacts ==
    ASSUME FtpInv
    PROVE  /\ FtpTypes /\ Nesting /\ errors \in Nat /\ Tries(called) \in Nat \ {0} /\ Square \in Nat
           /\ stack # <<>> => budget \in Int /\ budget - 1 \in Int
<1>1. FtpTypes /\ Nesting
    BY DEF FtpInv, StackInv
<1>2. errors \in Nat /\ called \in Methods
    BY <1>1, Zenon DEF FtpTypes
<1>3. Tries(called) \in Nat \ {0}
    BY <1>2, TriesFacts
<1>4. \A n \in Nat : n * n \in Nat
    OBVIOUS
<1>5. Square \in Nat
    BY <1>3, <1>4 DEF Square
<1> QED BY <1>1, <1>2, <1>3, <1>5, BudgetIsSet

\* The share of a wrapper called by another
LEMMA ShareFacts ==
    ASSUME NEW m \in Methods, budget \in Int, budget # NoBudget
    PROVE  Share(m) \in Int /\ Share(m) - 1 <= Spare(budget) /\ Budget(m) = budget
<1>1. Tries(m) \in Int /\ Budget(m) = budget
    BY TriesFacts DEF Budget
<1> DEFINE least == Smaller(budget, Tries(m))
<1>2. least \in Int /\ least <= budget
    BY <1>1 DEF Smaller
<1>3. Share(m) = IF least < 1 THEN 1 ELSE least
    BY <1>1 DEF Share
<1> HIDE DEF least
<1> QED BY <1>1, <1>2, <1>3 DEF Spare

\* An error is raised in the innermost
LEMMA RaiseThrifty ==
    ASSUME FtpInv, Thrifty, stack # <<>>, exc = "none", NEW e, e # "none", Raise(e), called' = called
    PROVE  Thrifty'
<1>1. stack' = stack /\ budget' = budget /\ exc' = e /\ errors' = errors + 1
    BY DEF Raise
<1>2. Chain' /\ PastLogin'
    BY <1>1 DEF Thrifty, Chain, PastLogin
<1>3. budget \in Int /\ errors \in Nat /\ Square \in Nat
    BY AccountFacts
<1>4. PICK k \in Nat : /\ Funded(stack, budget, k)
                       /\ errors + k + Due(Top.method, exc, conn, budget) <= Square - 1 + 0
    BY DEF Thrifty, Solvent, Rising
<1>5. /\ Due(Top.method, exc, conn, budget) \in Nat /\ Reserve(budget - 1) \in Nat
      /\ Reserve(budget - 1) <= Due(Top.method, exc, conn, budget)
      /\ Due(Top.method, e, conn', budget) = Reserve(budget - 1)
    BY <1>3, DueFacts
<1>6. (errors + 1) + k + Due(Top.method, e, conn', budget) <= Square - 1 + 1
    BY <1>3, <1>4, <1>5
<1>7. Top' = Top /\ Square' = Square /\ Rising' = 1
    BY <1>1, Zenon DEF Top, Square, Rising, Tries
<1>8. Funded(stack', budget', k) /\ stack' # <<>>
    BY <1>1, <1>4
<1>9. errors' + k + Due(Top.method', exc', conn', budget') <= Square' - 1 + Rising'
    BY <1>1, <1>6, <1>7
<1>10. Solvent'
    BY <1>8, <1>9 DEF Solvent
<1> QED BY <1>2, <1>10 DEF Thrifty

\* When t calls m, with the connection in the state c
Inside(t, m, c) ==
    \/ m \in {"reach", "login"} /\ t \in Commands /\ c # "logged"
    \/ m = "connect" /\ t = "login"
    \/ m \in {"cwd", "pwd"} /\ t = "login" /\ c = "logged"

\* What a call inside a wrapper may cost is taken from what the wrapper may
LEMMA DueMore ==
    ASSUME NEW b \in Int, NEW t, NEW m, NEW c,
           Inside(t, m, c), NEW e \in Nat, NEW k \in Nat, NEW q \in Int, e + k + Due(t, "none", c, b) <= q
    PROVE  k + Spare(b) \in Nat /\ e + (k + Spare(b)) + Due(m, "none", c, b) <= q
<1>1. /\ Reserve(b) \in Nat /\ Reserve(b - 1) \in Nat /\ Spare(b) \in Nat
      /\ Reserve(b) = Spare(b) + Spare(b) + Reserve(b - 1)
    BY ReserveFacts, SpareFacts
<1>2. CASE m \in {"reach", "login"} /\ t \in Commands /\ c # "logged"
    <2>1. Due(t, "none", c, b) = Reserve(b) /\ Due(m, "none", c, b) = Spare(b) + Reserve(b - 1)
        BY <1>2 DEF Due, Commands
    <2> QED BY <1>1, <2>1
<1>3. CASE t = "login" /\ (m = "connect" \/ (m \in {"cwd", "pwd"} /\ c = "logged"))
    <2>1. Due(t, "none", c, b) = Spare(b) + Reserve(b - 1) /\ Due(m, "none", c, b) = Reserve(b - 1)
        BY <1>3 DEF Due, Commands
    <2> QED BY <1>1, <2>1
<1> QED BY <1>2, <1>3 DEF Inside

LEMMA TwoNats ==
    /\ \A a, b \in Nat : a + b \in Nat
    /\ \A a \in Nat : a \in Int /\ a - 1 + 0 \in Int
    OBVIOUS

LEMMA Adjacent ==
    ASSUME NEW n \in Nat \ {0}
    PROVE  /\ \A i \in 1..n-1 : i \in 1..n /\ i + 1 \in 1..n /\ i # n
           /\ n \in 1..n /\ (n + 1) - 1 = n
           /\ \A i \in 1..n : i # n => i \in 1..n-1
OBVIOUS

\* The innermost calls another
LEMMA PushThrifty ==
    ASSUME FtpInv, Thrifty, stack # <<>>, exc = "none", NEW s, Alike(s),
           \A i \in 1..Len(stack)-1 : s[i] = stack[i],
           NEW m \in {"reach", "connect", "login", "cwd", "pwd"},
           NEW d \in {"", "home", "work"}, Push(s, m, d),
           UNCHANGED <<conn, exc, called, errors>>,
           \/ m \in {"reach", "login"} /\ Top.method \in Commands /\ conn # "logged"
           \/ m = "connect" /\ Top.method = "login" /\ s[Len(stack)].at = "start"
           \/ m \in {"cwd", "pwd"} /\ Top.method = "login" /\ conn = "logged"
    PROVE  Thrifty'
<1> DEFINE n == Len(stack)
           b == budget
<1>0. FtpTypes /\ Nesting /\ budget \in Int /\ budget # NoBudget
    BY AccountFacts, BudgetIsSet
<1>1. b \in Int /\ errors \in Nat /\ Square \in Nat /\ n \in Nat \ {0} /\ Top = stack[n]
    BY <1>0, AccountFacts, StackFacts
<1>2. s \in Seq(Frames) /\ Len(s) = n /\ m \in Methods /\ d \in {"", "home", "work", "file", "stream"}
    BY DEF Alike, Methods, Commands
<1>3. Frame(m, d) \in Frames
    BY <1>0, <1>2, FrameFacts
<1>4. PICK f \in Frames : f = Frame(m, d)
    BY <1>3
<1>5. Share(m) \in Int /\ Share(m) - 1 <= Spare(b) /\ Budget(m) = b
    BY <1>0, <1>2, ShareFacts
<1>6. f.method = m /\ f.at = "start" /\ f.left \in Int /\ f.left - 1 <= Spare(b)
    BY <1>4, <1>5 DEF Frame
<1>7. stack' = Append(s, f) /\ budget' = b
    BY <1>4, <1>5 DEF Push
<1>8. /\ Len(stack') = n + 1 /\ stack' # <<>>
      /\ \A i \in 1..n : stack'[i] = s[i]
      /\ stack'[n+1] = f
    <2>1. /\ Len(Append(s, f)) = Len(s) + 1 /\ Append(s, f) # <<>>
          /\ \A i \in 1..Len(s) : Append(s, f)[i] = s[i]
          /\ Append(s, f)[Len(s) + 1] = f
        BY <1>2, Called
    <2> QED BY <1>2, <1>7, <2>1, Zenon
<1>9. \A i \in 1..n : s[i].method = stack[i].method /\ s[i].left = stack[i].left
    BY DEF Alike
<1> HIDE DEF n, b
<1>10. Chain'
    <2>1. \A i \in 1..n-1 : i \in 1..n /\ i + 1 \in 1..n
        BY <1>1, Adjacent
    <2>2. \A i \in 1..n-1 : Under(stack[i], stack[i+1])
        BY DEF Thrifty, Chain, n
    <2>3. \A i \in 1..n-1 : stack'[i] = stack[i] /\ stack'[i+1].method = stack[i+1].method
        BY <1>8, <1>9, <2>1 DEF n
    <2>4. \A i \in 1..n-1 : Under(stack'[i], stack'[i+1])
        BY <2>2, <2>3 DEF Under
    <2>5. n \in 1..n /\ (n + 1) - 1 = n /\ \A i \in 1..n : i # n => i \in 1..n-1
        BY <1>1, Adjacent
    <2>6. Under(stack'[n], stack'[n+1])
        <3>1. stack'[n] = s[n] /\ s[n].method = Top.method
            BY <1>1, <1>8, <1>9, <2>5
        <3> QED BY <1>6, <1>8, <3>1 DEF Under, n
    <2>7. \A i \in 1..n : Under(stack'[i], stack'[i+1])
        BY <2>4, <2>5, <2>6
    <2> QED BY <1>8, <2>5, <2>7 DEF Chain
<1>11. Top' = f
    BY <1>8 DEF Top
<1>12. PastLogin'
    BY <1>6, <1>11 DEF PastLogin
<1>13. PICK k \in Nat : /\ Funded(stack, b, k)
                        /\ errors + k + Due(Top.method, exc, conn, b) <= Square - 1 + 0
    BY DEF Thrifty, Solvent, Rising, b
<1>14. Funded(stack', b, k + Spare(b))
    BY <1>1, <1>6, <1>8, <1>9, <1>13, FundedMore DEF n
<1>15. k + Spare(b) \in Nat /\ errors + (k + Spare(b)) + Due(m, "none", conn, b) <= Square - 1 + 0
    <2>1. Square - 1 + 0 \in Int
        BY <1>1, TwoNats, Zenon
    <2>2. errors + k + Due(Top.method, "none", conn, b) <= Square - 1 + 0
        BY <1>13
    <2>3. Inside(Top.method, m, conn)
        BY DEF Inside
    <2> QED BY <1>1, <2>1, <2>2, <2>3, DueMore, ZenonT(30)
<1>18. Square' = Square /\ Rising' = 0
    BY Zenon DEF Square, Rising, Tries
<1>19. errors' + (k + Spare(b)) + Due(Top.method', exc', conn', budget') <= Square' - 1 + Rising'
    BY <1>6, <1>7, <1>11, <1>15, <1>18
<1>20. Solvent'
    BY <1>7, <1>8, <1>14, <1>15, <1>19 DEF Solvent
<1> QED BY <1>10, <1>12, <1>20 DEF Thrifty

\* What a wrapper has not used goes back to the one that has called it
LEMMA DueBack ==
    ASSUME NEW b \in Int, NEW t, NEW m, NEW c, NEW d,
           \/ m = "connect" /\ t = "login"
           \/ m \in {"cwd", "pwd"} /\ t = "login"
           \/ m \in {"reach", "login"} /\ t \in Commands,
           NEW e \in Nat, NEW k \in Nat, NEW q \in Int, e + k + Due(m, "none", c, b) <= q
    PROVE  e + (k - Spare(b)) + Due(t, "none", d, b) <= q
<1>1. /\ Reserve(b) \in Nat /\ Reserve(b - 1) \in Nat /\ Spare(b) \in Nat
      /\ Reserve(b) = Spare(b) + Spare(b) + Reserve(b - 1)
    BY ReserveFacts, SpareFacts
<1>2. Due(m, "none", c, b) \in Nat /\ Due(t, "none", d, b) \in Nat
    BY DueFacts
<1>3. CASE m \in {"reach", "login"} /\ t \in Commands
    <2>1. Due(m, "none", c, b) = Spare(b) + Reserve(b - 1) /\ Due(t, "none", d, b) <= Reserve(b)
        BY <1>1, <1>3 DEF Due, Commands
    <2> QED BY <1>1, <1>2, <2>1
<1>4. CASE t = "login" /\ m \in {"connect", "cwd", "pwd"}
    <2>1. Due(t, "none", d, b) = Spare(b) + Reserve(b - 1)
        BY <1>4 DEF Due, Commands
    <2>2. Reserve(b - 1) <= Due(m, "none", c, b)
        BY DueFacts
    <2> QED BY <1>1, <1>2, <2>1, <2>2
<1> QED BY <1>3, <1>4

LEMMA NoPair == 1..1-1 = {} /\ 1..0-1 = {}
    OBVIOUS

\* What is left when a wrapper ends
LEMMA BelowChain ==
    ASSUME FtpInv, Chain, stack # <<>>, stack' = Below, stack' # <<>>
    PROVE  /\ Len(stack) \in Nat \ {0, 1} /\ Len(stack') = Len(stack) - 1
           /\ \A i \in 1..Len(stack)-1 : stack'[i] = stack[i]
           /\ Top' = stack[Len(stack) - 1] /\ Top = stack[Len(stack)]
           /\ Under(Top', Top) /\ Chain'
<1> DEFINE n == Len(stack)
<1>1. /\ n \in Nat \ {0} /\ Top = stack[n] /\ Len(stack') = n - 1
      /\ \A i \in 1..n-1 : stack'[i] = stack[i]
      /\ n # 1
    BY BelowFacts DEF FtpInv, StackInv
<1>2. \A i \in 1..n-1 : Under(stack[i], stack[i+1])
    BY DEF Chain
<1> HIDE DEF n
<1>3. /\ n - 1 \in 1..n-1 /\ (n - 1) + 1 = n /\ n \in Nat \ {0, 1}
      /\ \A i \in 1..(n-1)-1 : i \in 1..n-1 /\ i + 1 \in 1..n-1
    BY <1>1
<1>4. Top' = stack[n-1]
    BY <1>1, <1>3 DEF Top
<1>5. Under(Top', Top)
    <2>1. Under(stack[n-1], stack[(n-1)+1])
        BY <1>2, <1>3
    <2> QED BY <1>1, <1>3, <1>4, <2>1
<1>6. Chain'
    BY <1>1, <1>2, <1>3 DEF Chain
<1> QED BY <1>1, <1>3, <1>4, <1>5, <1>6 DEF n

\* The innermost returns
LEMMA ReturnThrifty ==
    ASSUME FtpInv, Thrifty, stack # <<>>, exc = "none", Return,
           UNCHANGED <<called, errors>>, Top.method \in {"cwd", "pwd"} => conn' = "logged"
    PROVE  Thrifty'
<1>1. FtpTypes /\ Nesting /\ errors \in Nat /\ Square \in Nat /\ stack' = Below /\ exc' = "none"
    BY AccountFacts DEF Return
<1>2. budget \in Int /\ Square' = Square /\ Rising' = 0 /\ Rising = 0 /\ Square - 1 + 0 \in Int
    <2>1. Square' = Square
        BY Zenon DEF Square, Tries
    <2> QED BY <1>1, <2>1, BudgetIsSet DEF Rising
<1>3. PICK k \in Nat : /\ Funded(stack, budget, k)
                       /\ errors + k + Due(Top.method, "none", conn, budget) <= Square - 1 + 0
    BY <1>2 DEF Thrifty, Solvent
<1>4. CASE stack' = <<>>
    <2>1. Due(Top.method, "none", conn, budget) \in Nat
        BY <1>2, DueFacts
    <2>2. errors <= Square
        BY <1>1, <1>3, <2>1
    <2>3. Chain'
        <3>1. Len(<<>>) = 0 /\ 1..0-1 = {}
            BY EmptySeq, NoPair
        <3> QED BY <1>4, <3>1 DEF Chain
    <2> QED BY <1>2, <1>4, <2>2, <2>3 DEF Thrifty, PastLogin, Solvent
<1>5. CASE stack' # <<>>
    <2>1. /\ Len(stack) \in Nat \ {0, 1} /\ Len(stack') = Len(stack) - 1
          /\ \A i \in 1..Len(stack)-1 : stack'[i] = stack[i]
          /\ Under(Top', Top) /\ Chain' /\ Top' = stack[Len(stack) - 1]
        BY <1>1, <1>5, BelowChain DEF Thrifty
    <2>2. PastLogin'
        BY <2>1 DEF PastLogin, Under, Commands, Transfers
    <2>3. budget' = budget
        <3>1. ~Top.driver
            BY <1>1, <2>1, BelowFacts
        <3> QED BY <3>1 DEF Return, Released
    <2>4. k - Spare(budget) \in Nat /\ Funded(stack', budget, k - Spare(budget))
        <3>1. \A i \in 1..Len(stack)-1 : stack'[i].left = stack[i].left
            BY <2>1
        <3>2. budget \in {budget, budget - 1}
            OBVIOUS
        <3> QED BY <1>2, <1>3, <2>1, <3>1, <3>2, FundedLess
    <2>5. \/ Top.method = "connect" /\ Top'.method = "login"
          \/ Top.method \in {"cwd", "pwd"} /\ Top'.method = "login"
          \/ Top.method \in {"reach", "login"} /\ Top'.method \in Commands
        BY <2>1 DEF Under
    <2>6. errors + (k - Spare(budget)) + Due(Top'.method, "none", conn', budget) <= Square - 1 + 0
        BY <1>1, <1>2, <1>3, <2>5, DueBack
    <2>7. Solvent'
        BY <1>1, <1>2, <1>5, <2>3, <2>4, <2>6 DEF Solvent
    <2> QED BY <2>1, <2>2, <2>7 DEF Thrifty
<1> QED BY <1>4, <1>5

\* An error is caught, and the innermost starts again
LEMMA AgainThrifty ==
    ASSUME FtpInv, Thrifty, stack # <<>>, exc # "none", Top.left >= 2, NEW f \in Frames,
           stack' = [stack EXCEPT ![Len(stack)] = f], f.left = Top.left - 1,
           f.method = Top.method, f.at = "start", budget' = budget - 1, conn' = "none",
           exc' = "none", UNCHANGED <<called, errors>>
    PROVE  Thrifty'
<1> DEFINE n == Len(stack)
<1>1. /\ FtpTypes /\ Nesting /\ errors \in Nat /\ Square \in Nat /\ budget \in Int
    BY AccountFacts
<1>2. /\ n \in Nat \ {0} /\ Top = stack[n] /\ Top \in Frames /\ Top.left \in Int /\ Top.method \in Methods
    BY <1>1, StackFacts DEF Frames
<1>3. /\ Len(stack') = n /\ stack' # <<>> /\ stack'[n] = f
      /\ \A i \in 1..n-1 : stack'[i] = stack[i]
    <2>1. stack \in Seq(Frames)
        BY <1>1 DEF FtpTypes
    <2> QED BY <2>1, Changed
<1>4. Square' = Square /\ Rising' = 0 /\ Rising = 1 /\ Top' = f
    <2>1. Square' = Square
        BY Zenon DEF Square, Tries
    <2> QED BY <1>3, <2>1 DEF Rising, Top
<1>5. PICK k \in Nat : /\ Funded(stack, budget, k)
                       /\ errors + k + Due(Top.method, exc, conn, budget) <= Square - 1 + 1
    BY <1>4 DEF Thrifty, Solvent
<1>6. k - 1 \in Nat /\ Funded(stack', budget - 1, k - 1)
    <2>1. stack[n].left \in Int /\ stack[n].left >= 2 /\ stack'[n].left = stack[n].left - 1
        BY <1>2, <1>3
    <2>2. \A i \in 1..n-1 : stack'[i].left = stack[i].left
        BY <1>3
    <2> QED BY <1>1, <1>2, <1>3, <1>5, <2>1, <2>2, FundedAgain
<1> HIDE DEF n
<1>7. errors + (k - 1) + Due(f.method, "none", "none", budget - 1) <= Square - 1 + 0
    <2>1. /\ Due(Top.method, exc, conn, budget) = Reserve(budget - 1) /\ Reserve(budget - 1) \in Nat
          /\ Due(Top.method, "none", "none", budget - 1) <= Reserve(budget - 1)
        BY <1>1, <1>2, DueFacts, DueAgain
    <2>2. Due(Top.method, "none", "none", budget - 1) \in Nat
        <3>1. budget - 1 \in Int
            BY <1>1
        <3> QED BY <3>1, DueFacts
    <2> QED BY <1>1, <1>5, <2>1, <2>2
<1>8. Chain'
    <2>1. \A i \in 1..n-1 : i + 1 \in 1..n /\ (i + 1 # n => i + 1 \in 1..n-1)
        BY <1>2
    <2>2. \A i \in 1..n-1 : Under(stack[i], stack[i+1])
        BY DEF Thrifty, Chain, n
    <2>3. \A i \in 1..n-1 : stack'[i] = stack[i] /\ stack'[i+1].method = stack[i+1].method
        BY <1>2, <1>3, <2>1
    <2> QED BY <1>3, <2>2, <2>3 DEF Chain, Under
<1>9. PastLogin'
    BY <1>4 DEF PastLogin
<1>10. Solvent'
    BY <1>3, <1>4, <1>6, <1>7 DEF Solvent
<1> QED BY <1>8, <1>9, <1>10 DEF Thrifty

LEMMA ReserveLess ==
    ASSUME NEW b \in Int
    PROVE  Reserve((b - 1) - 1) <= Reserve(b - 1)
<1>1. b - 1 \in Int
    OBVIOUS
<1>2. /\ Spare(b - 1) \in Nat /\ Reserve(b - 1) \in Nat /\ Reserve((b - 1) - 1) \in Nat
      /\ Reserve(b - 1) = Spare(b - 1) + Spare(b - 1) + Reserve((b - 1) - 1)
    BY <1>1, SpareFacts, ReserveFacts
<1> QED BY <1>2

\* The innermost gives up
LEMMA GiveUpThrifty ==
    ASSUME FtpInv, Thrifty, stack # <<>>, exc # "none", stack' = Below,
           Top.driver \/ budget' = budget \/ budget' = budget - 1,
           UNCHANGED <<exc, called, errors>>
    PROVE  Thrifty'
<1>1. FtpTypes /\ Nesting /\ errors \in Nat /\ Square \in Nat /\ budget \in Int
    BY AccountFacts
<1>2. Square' = Square /\ Rising' = 1 /\ Rising = 1 /\ Square - 1 + 1 \in Int
    <2>1. Square' = Square
        BY Zenon DEF Square, Tries
    <2> QED BY <1>1, <2>1 DEF Rising
<1>3. PICK k \in Nat : /\ Funded(stack, budget, k)
                       /\ errors + k + Due(Top.method, exc, conn, budget) <= Square - 1 + 1
    BY <1>2 DEF Thrifty, Solvent
<1>4. Due(Top.method, exc, conn, budget) = Reserve(budget - 1) /\ Reserve(budget - 1) \in Nat
    BY <1>1, DueFacts
<1>5. CASE stack' = <<>>
    <2>2. errors <= Square
        BY <1>1, <1>3, <1>4
    <2>3. Chain'
        <3>1. Len(<<>>) = 0 /\ 1..0-1 = {}
            BY EmptySeq, NoPair
        <3> QED BY <1>5, <3>1 DEF Chain
    <2> QED BY <1>2, <1>5, <2>2, <2>3 DEF Thrifty, PastLogin, Solvent
<1>6. CASE stack' # <<>>
    <2>1. /\ Len(stack) \in Nat \ {0, 1} /\ Len(stack') = Len(stack) - 1
          /\ \A i \in 1..Len(stack)-1 : stack'[i] = stack[i] /\ Chain'
        BY <1>6, BelowChain DEF Thrifty
    <2>2. PastLogin'
        BY DEF PastLogin
    <2>3. Chain'
        BY <1>6, BelowChain DEF Thrifty
    <2>4. budget' \in {budget, budget - 1}
        <3>1. ~Top.driver
            BY <1>1, <2>1, BelowFacts
        <3> QED BY <3>1
    <2>5. /\ k - Spare(budget) \in Nat /\ Funded(stack', budget', k - Spare(budget))
        <3>1. \A i \in 1..Len(stack)-1 : stack'[i].left = stack[i].left
            BY <2>1
        <3> QED BY <1>1, <1>3, <2>1, <2>4, <3>1, FundedLess
    <2>6. Spare(budget) \in Nat
        BY <1>1, SpareFacts
    <2>7. Due(Top'.method, exc', conn', budget') <= Reserve(budget - 1)
        <3>1. Reserve((budget - 1) - 1) <= Reserve(budget - 1)
            BY <1>1, ReserveLess
        <3>2. Due(Top'.method, exc', conn', budget') = Reserve(budget' - 1)
            BY DEF Due
        <3>3. Reserve(budget - 1) <= Reserve(budget - 1)
            BY <1>4
        <3> QED BY <2>4, <3>1, <3>2, <3>3
    <2>8. Due(Top'.method, exc', conn', budget') \in Nat
        <3>1. budget' \in Int
            BY <1>1, <2>4
        <3> QED BY <3>1, DueFacts
    <2>9. errors + (k - Spare(budget)) + Due(Top'.method, exc', conn', budget') <= Square - 1 + 1
        BY <1>1, <1>3, <1>4, <2>6, <2>7, <2>8
    <2>10. Solvent'
        BY <1>2, <1>6, <2>5, <2>9 DEF Solvent
    <2> QED BY <2>2, <2>3, <2>10 DEF Thrifty
<1> QED BY <1>5, <1>6

\* A login goes on
LEMMA GoesOnThrifty ==
    ASSUME FtpInv, Thrifty, stack # <<>>, exc = "none", Top.method = "login", NEW f \in Frames,
           stack' = [stack EXCEPT ![Len(stack)] = f], f.left = Top.left, f.method = Top.method,
           conn' = "logged", UNCHANGED <<budget, exc, called, errors>>
    PROVE  Thrifty'
<1> DEFINE n == Len(stack)
<1>1. /\ FtpTypes /\ Nesting /\ errors \in Nat /\ Square \in Nat /\ budget \in Int
    BY AccountFacts
<1>2. /\ n \in Nat \ {0} /\ Top = stack[n] /\ Top \in Frames
    BY <1>1, StackFacts
<1>3. /\ Len(stack') = n /\ stack' # <<>> /\ stack'[n] = f
      /\ \A i \in 1..n-1 : stack'[i] = stack[i]
    <2>1. stack \in Seq(Frames)
        BY <1>1 DEF FtpTypes
    <2> QED BY <2>1, Changed
<1>4. Square' = Square /\ Rising' = 0 /\ Rising = 0 /\ Top' = f
    <2>1. Square' = Square
        BY Zenon DEF Square, Tries
    <2> QED BY <1>3, <2>1 DEF Rising, Top
<1>5. PICK k \in Nat : /\ Funded(stack, budget, k)
                       /\ errors + k + Due("login", "none", conn, budget) <= Square - 1 + 0
    BY <1>4 DEF Thrifty, Solvent
<1>6. Funded(stack', budget, k)
    <2>1. \A i \in 1..n : i # n => i \in 1..n-1
        BY <1>2
    <2>2. \A i \in 1..n : stack'[i].left = stack[i].left
        BY <1>2, <1>3, <2>1
    <2> QED BY <1>1, <1>2, <1>3, <1>5, <2>2, FundedSame
<1> HIDE DEF n
<1>7. Due("login", "none", conn', budget) = Due("login", "none", conn, budget)
    BY DEF Due, Commands, Transfers
<1>8. Chain'
    <2>1. \A i \in 1..n-1 : i + 1 \in 1..n /\ (i + 1 # n => i + 1 \in 1..n-1)
        BY <1>2
    <2>2. \A i \in 1..n-1 : Under(stack[i], stack[i+1])
        BY DEF Thrifty, Chain, n
    <2>3. \A i \in 1..n-1 : stack'[i] = stack[i] /\ stack'[i+1].method = stack[i+1].method
        BY <1>2, <1>3, <2>1
    <2> QED BY <1>3, <2>2, <2>3 DEF Chain, Under
<1>9. PastLogin'
    BY <1>4 DEF PastLogin
<1>10. Solvent'
    BY <1>3, <1>4, <1>5, <1>6, <1>7 DEF Solvent
<1> QED BY <1>8, <1>9, <1>10 DEF Thrifty

LEMMA DueAtFirst ==
    ASSUME NEW n \in Nat \ {0}, NEW m, NEW c
    PROVE  /\ n \in Int /\ n - 1 \in Nat /\ n - 1 >= n - 1
           /\ 0 + (n - 1) + Due(m, "none", c, n) <= n * n - 1 + 0
<1>1. n * n \in Nat /\ n * (n - 1) \in Nat /\ (n - 1) + n * (n - 1) = n * n - 1
    OBVIOUS
<1>2. Reserve(n) = n * (n - 1)
    BY DEF Reserve
<1>3. /\ Due(m, "none", c, n) \in Nat /\ Reserve(n) \in Nat
      /\ Due(m, "none", c, n) <= Reserve(n)
    BY DueFacts, ReserveFacts
<1> QED BY <1>1, <1>2, <1>3

\* The user calls a method
LEMMA CallThrifty ==
    ASSUME FtpInv, stack = <<>>, exc = "none", NEW m \in {"login", "cwd", "get", "put"},
           NEW d \in {"", "home", "work", "file", "stream"}, Call(m, d)
    PROVE  Thrifty'
<1>1. /\ FtpTypes /\ budget = NoBudget /\ m \in Methods
    BY DEF FtpInv, StackInv, Nesting, Methods, Commands, Transfers
<1>2. Push(<<>>, m, d) /\ errors' = 0 /\ called' = m /\ exc' = "none"
    BY DEF Call
<1>3. PICK f \in Frames : f = Frame(m, d)
    BY <1>1, FrameFacts
<1>4. f.method = m /\ f.at = "start" /\ f.left = Tries(m)
    BY <1>1, <1>3, FrameTries DEF Frame
<1>5. budget' = Tries(m) /\ stack' = Append(<<>>, f)
    BY <1>1, <1>2, <1>3 DEF Push, Budget
<1>6. Len(stack') = 1 /\ stack' # <<>> /\ stack'[1] = f
    <2>1. /\ Append(<<>>, f) # <<>> /\ Len(Append(<<>>, f)) = Len(<<>>) + 1
          /\ Append(<<>>, f)[Len(<<>>) + 1] = f
        BY NoFrame, Called
    <2> QED BY <1>5, <2>1, NoFrame
<1>7. Tries(m) \in Nat \ {0} /\ Square' = Tries(m) * Tries(m) /\ Rising' = 0 /\ Top' = f
    <2>1. Square' = Tries(m) * Tries(m)
        BY <1>2, Zenon DEF Square, Tries
    <2> QED BY <1>1, <1>2, <1>6, <2>1, TriesFacts DEF Rising, Top
<1>8. Chain' /\ PastLogin'
    <2>1. 1..1-1 = {}
        BY NoPair
    <2> QED BY <1>4, <1>6, <1>7, <2>1 DEF Chain, PastLogin
<1>9. /\ Tries(m) - 1 \in Nat /\ Funded(stack', Tries(m), Tries(m) - 1)
      /\ 0 + (Tries(m) - 1) + Due(m, "none", conn', Tries(m)) <= Tries(m) * Tries(m) - 1 + 0
    <2>1. /\ Tries(m) \in Int /\ Tries(m) - 1 \in Nat /\ Tries(m) - 1 >= Tries(m) - 1
          /\ 0 + (Tries(m) - 1) + Due(m, "none", conn', Tries(m)) <= Tries(m) * Tries(m) - 1 + 0
        BY <1>7, DueAtFirst
    <2>2. stack'[1].left = Tries(m)
        BY <1>4, <1>6
    <2> QED BY <1>6, <2>1, <2>2, FundedFirst
<1>11. Solvent'
    BY <1>2, <1>4, <1>5, <1>6, <1>7, <1>9 DEF Solvent
<1> QED BY <1>8, <1>11 DEF Thrifty

\* Between two calls
LEMMA IdleThrifty ==
    ASSUME Thrifty, stack = <<>>, UNCHANGED <<stack, called, errors>>
    PROVE  Thrifty'
<1>1. Square' = Square
    BY Zenon DEF Square, Tries
<1> QED BY <1>1 DEF Thrifty, Chain, PastLogin, Solvent

LEMMA UnwindThrifty ==
    ASSUME FtpInv, Thrifty, Unwind
    PROVE  Thrifty'
<1>1. /\ FtpTypes /\ Nesting /\ stack # <<>> /\ exc # "none" /\ UNCHANGED <<called, errors>>
    BY DEF FtpInv, StackInv, Unwind
<1>2. Top \in Frames /\ Top.left \in Int /\ Top = stack[Len(stack)] /\ Len(stack) \in DOMAIN stack
    BY <1>1, StackFacts
<1> DEFINE left == IF Caught THEN Top.left - 1 ELSE 0
           spent == IF Caught THEN budget - 1 ELSE budget
<1>3. \/ /\ left > 0 /\ conn' = "none" /\ exc' = "none"
         /\ stack' = [stack EXCEPT ![Len(stack)].left = left, ![Len(stack)].at = "start"]
         /\ budget' = spent
      \/ /\ stack' = Below /\ exc' = exc
         /\ budget' = IF Top.driver THEN NoBudget ELSE spent
    BY DEF Unwind, Remains, Less, Released
<1>4. CASE left > 0 /\ conn' = "none" /\ exc' = "none" /\ budget' = spent
           /\ stack' = [stack EXCEPT ![Len(stack)].left = left, ![Len(stack)].at = "start"]
    <2>1. Caught /\ left = Top.left - 1 /\ Top.left >= 2 /\ Top.left - 1 \in Int
        BY <1>2, <1>4
    <2> DEFINE f == [Top EXCEPT !.left = Top.left - 1, !.at = "start"]
    <2>2. f \in Frames /\ f.method = Top.method /\ f.at = "start" /\ f.left = Top.left - 1
        BY <1>2, <2>1 DEF Frames
    <2>3. stack' = [stack EXCEPT ![Len(stack)] = f]
        <3>1. stack' = [stack EXCEPT ![Len(stack)].left = Top.left - 1, ![Len(stack)].at = "start"]
            BY <1>4, <2>1
        <3>2. @ = [stack EXCEPT ![Len(stack)] =
                        [stack[Len(stack)] EXCEPT !.left = Top.left - 1, !.at = "start"]]
            BY <1>2, Restarted
        <3> QED BY <1>2, <3>1, <3>2
    <2>4. budget' = budget - 1
        BY <1>4, <2>1
    <2> HIDE DEF f
    <2> QED BY <1>1, <1>4, <2>1, <2>2, <2>3, <2>4, AgainThrifty
<1>5. CASE /\ stack' = Below /\ exc' = exc
           /\ budget' = IF Top.driver THEN NoBudget ELSE spent
    <2>1. Top.driver \/ budget' = budget \/ budget' = budget - 1
        BY <1>5
    <2> QED BY <1>1, <1>5, <2>1, GiveUpThrifty
<1> HIDE DEF left, spent
<1> QED BY <1>3, <1>4, <1>5

LEMMA LogInThrifty ==
    ASSUME FtpInv, Thrifty, LogIn
    PROVE  Thrifty'
<1>1. Running("login") /\ Top.at = "start" /\ called' = called
    BY DEF LogIn, At
<1>2. /\ StackInv /\ FtpTypes /\ Nesting /\ stack # <<>> /\ exc = "none" /\ Top.method = "login"
      /\ Top \in Frames /\ Top = stack[Len(stack)] /\ Len(stack) \in DOMAIN stack
    BY <1>1, RunningFacts
<1>3. CASE Push(stack, "connect", "") /\ UNCHANGED <<session, exc, midway, errors>>
    <2>1. Alike(stack)
        BY <1>1, <1>2, AlikeItself
    <2>2. UNCHANGED <<conn, exc, called, errors>>
        BY <1>1, <1>3 DEF session
    <2> QED BY <1>1, <1>2, <1>3, <2>1, <2>2, PushThrifty
<1>4. CASE /\ conn' = "logged"
           /\ stack' = [Moved("cwd") EXCEPT ![Len(stack)].skip = initial /\ cwd # ""]
           /\ UNCHANGED <<alive, budget, exc, errors>>
    <2> DEFINE k == initial /\ cwd # ""
               f == [Top EXCEPT !.at = "cwd", !.skip = k]
    <2>1. k \in BOOLEAN
        OBVIOUS
    <2>2. f \in Frames /\ f.method = Top.method /\ f.left = Top.left
        BY <1>2, <2>1 DEF Frames
    <2>3. stack' = [stack EXCEPT ![Len(stack)] = f]
        BY <1>2, <1>4, Logged DEF Moved
    <2> HIDE DEF f, k
    <2> QED BY <1>1, <1>2, <1>4, <2>2, <2>3, GoesOnThrifty
<1>5. CASE \E e \in CommandErrors : Raise(e)
    BY <1>1, <1>2, <1>5, RaiseThrifty DEF CommandErrors
<1> QED BY <1>3, <1>4, <1>5 DEF LogIn

\* A login calls a command, once it has logged in
LEMMA AskThrifty ==
    ASSUME FtpInv, Thrifty, Running("login"), Top.at # "start", NEW p \in {"pwd", "end"},
           NEW m \in {"cwd", "pwd"}, NEW d \in {"", "home", "work"}, Push(Moved(p), m, d),
           UNCHANGED <<conn, exc, called, errors>>
    PROVE  Thrifty'
<1>1. /\ FtpTypes /\ Nesting /\ stack # <<>> /\ exc = "none" /\ Top.method = "login"
    BY RunningFacts
<1>2. conn = "logged"
    BY <1>1 DEF Thrifty, PastLogin
<1>3. Alike(Moved(p))
    BY <1>1, AlikeMoved
<1>4. \A i \in 1..Len(stack)-1 : Moved(p)[i] = stack[i]
    BY <1>1, MovedFacts
<1> QED BY <1>1, <1>2, <1>3, <1>4, PushThrifty

LEMMA GoBackThrifty ==
    ASSUME FtpInv, Thrifty, GoBack
    PROVE  Thrifty'
<1>1. Running("login") /\ Top.at = "cwd" /\ UNCHANGED <<conn, exc, called, errors>>
    BY DEF GoBack, At, session, remembered
<1>2. /\ FtpTypes /\ Nesting /\ stack # <<>> /\ exc = "none" /\ Top.method = "login"
      /\ Top \in Frames /\ Top = stack[Len(stack)] /\ Len(stack) \in DOMAIN stack
    BY <1>1, RunningFacts
<1>3. CASE cwd # "" /\ Push(Moved("pwd"), "cwd", cwd)
    <2>1. cwd \in {"", "home", "work"}
        BY <1>2 DEF FtpTypes
    <2> QED BY <1>1, <1>3, <2>1, AskThrifty
<1>4. CASE stack' = Moved("pwd") /\ UNCHANGED <<cwd, budget>>
    <2> DEFINE f == [Top EXCEPT !.at = "pwd"]
    <2>1. f \in Frames /\ f.method = Top.method /\ f.left = Top.left
        BY <1>2 DEF Frames
    <2>2. stack' = [stack EXCEPT ![Len(stack)] = f]
        BY <1>2, <1>4 DEF Moved
    <2> HIDE DEF f
    <2>3. conn' = "logged"
        BY <1>1, <1>2 DEF Thrifty, PastLogin
    <2> QED BY <1>1, <1>2, <1>4, <2>1, <2>2, <2>3, GoesOnThrifty
<1> QED BY <1>3, <1>4 DEF GoBack, Restores

LEMMA NeedsLoginThrifty ==
    ASSUME FtpInv, Thrifty, NeedsLogin
    PROVE  Thrifty'
<1>1. PICK m \in Commands : Running(m)
    BY DEF NeedsLogin
<1>2. /\ FtpTypes /\ Nesting /\ stack # <<>> /\ exc = "none" /\ Top.method = m
      /\ Top = stack[Len(stack)] /\ Len(stack) \in DOMAIN stack
    BY <1>1, RunningFacts
<1>3. Top.at # "cwd"
    BY <1>1, <1>2 DEF Nesting, Commands, Transfers
<1>4. Alike(stack) /\ conn # "logged"
    BY <1>2, <1>3, AlikeItself DEF NeedsLogin
<1>5. PICK r \in {"reach", "login"} : Push(stack, r, "")
    BY DEF NeedsLogin
<1>6. UNCHANGED <<conn, exc, called, errors>>
    BY DEF NeedsLogin, session, remembered
<1> QED BY <1>2, <1>4, <1>5, <1>6, PushThrifty

\* A command is refused, or returns
LEMMA CommandThrifty ==
    ASSUME FtpInv, Thrifty, NEW m, Running(m), called' = called,
           \/ Return /\ errors' = errors /\ (m \in {"cwd", "pwd"} => conn' = "logged")
           \/ Refused
    PROVE  Thrifty'
<1>1. stack # <<>> /\ exc = "none" /\ Top.method = m
    BY RunningFacts
<1>2. CASE Return /\ errors' = errors /\ (m \in {"cwd", "pwd"} => conn' = "logged")
    BY <1>1, <1>2, ReturnThrifty
<1>3. CASE Refused
    <2>1. PICK e \in CommandErrors : Raise(e)
        BY <1>3 DEF Refused, CommandErrors
    <2> QED BY <1>1, <2>1, RaiseThrifty DEF CommandErrors
<1> QED BY <1>2, <1>3

LEMMA ThriftyStep ==
    ASSUME FtpInv, Thrifty, FtpNext
    PROVE  Thrifty'
<1>1. CASE Unwind
    BY <1>1, UnwindThrifty
<1>2. CASE Connect
    <2>1. PICK m \in {"reach", "connect"} : Running(m)
        BY <1>2 DEF Connect
    <2>2. stack # <<>> /\ exc = "none" /\ called' = called /\ Top.method \notin {"cwd", "pwd"}
        BY <1>2, <2>1 DEF Connect, Running, remembered
    <2>3. CASE Return /\ UNCHANGED errors
        BY <2>2, <2>3, ReturnThrifty
    <2>4. CASE \E e \in ConnectErrors : Raise(e)
        BY <2>2, <2>4, RaiseThrifty DEF ConnectErrors, CommandErrors
    <2> QED BY <1>2, <2>3, <2>4 DEF Connect
<1>3. CASE NeedsLogin
    BY <1>3, NeedsLoginThrifty
<1>4. CASE LogIn
    BY <1>4, LogInThrifty
<1>5. CASE GoBack
    BY <1>5, GoBackThrifty
<1>6. CASE AskInitial
    <2>1. Running("login") /\ Top.at # "start" /\ UNCHANGED <<conn, called, errors>>
        BY <1>6 DEF AskInitial, At, session, remembered
    <2>2. CASE Return
        BY <2>1, <2>2, CommandThrifty
    <2>3. CASE Push(Moved("end"), "pwd", "") /\ UNCHANGED exc
        BY <2>1, <2>3, AskThrifty
    <2> QED BY <1>6, <2>2, <2>3 DEF AskInitial
<1>7. CASE LoggedIn
    <2>1. Running("login") /\ UNCHANGED <<called, errors>> /\ Return
        BY <1>7 DEF LoggedIn, remembered
    <2> QED BY <2>1, CommandThrifty
<1>8. CASE Pwd
    <2>1. Running("pwd") /\ called' = called /\ conn' = "logged"
        BY <1>8 DEF Pwd, remembered
    <2> QED BY <1>8, <2>1, CommandThrifty DEF Pwd
<1>9. CASE Cwd
    <2>1. Running("cwd") /\ called' = called /\ conn' = "logged"
        BY <1>9 DEF Cwd, remembered
    <2> QED BY <1>9, <2>1, CommandThrifty DEF Cwd
<1>10. ASSUME NEW m \in Transfers, Transfer(m)
       PROVE  Thrifty'
    <2>1. Running(m) /\ called' = called /\ conn' = "logged"
        BY <1>10 DEF Transfer
    <2>2. (Return /\ UNCHANGED errors) \/ Refused
        BY <1>10 DEF Transfer
    <2> QED BY <2>1, <2>2, CommandThrifty
<1>11. CASE Dealt
    <2>1. stack = <<>> /\ exc = "none"
        BY <1>11 DEF Dealt
    <2> QED BY <1>11, <2>1, CallThrifty, IdleThrifty DEF Dealt
<1>12. CASE NotDealt \/ Ends \/ Drop
    <2>1. stack = <<>> /\ UNCHANGED <<stack, called, errors>>
        BY <1>12 DEF NotDealt, Ends, Drop, remembered
    <2> QED BY <2>1, IdleThrifty
<1>13. CASE Deal
    <2>1. stack = <<>> /\ exc = "none"
        BY <1>13 DEF FtpInv, StackInv, Callers, Deal
    <2> QED BY <1>13, <2>1, CallThrifty, IdleThrifty DEF Deal
<1>14. CASE Cd
    <2>1. stack = <<>> /\ exc = "none"
        BY <1>14 DEF FtpInv, StackInv, Callers, Cd
    <2> QED BY <1>14, <2>1, CallThrifty DEF Cd
<1>15. ASSUME NEW m \in Transfers, Ask(m)
       PROVE  Thrifty'
    <2>1. stack = <<>> /\ exc = "none"
        BY <1>15 DEF FtpInv, StackInv, Callers, Ask
    <2>2. \E kind \in {"file", "stream"} : Call(m, kind)
        BY <1>15 DEF Ask
    <2>3. m \in {"login", "cwd", "get", "put"}
        BY <1>15 DEF Transfers
    <2> QED BY <2>1, <2>2, <2>3, CallThrifty
<1>16. CASE GiveBack
    <2>1. stack = <<>> /\ UNCHANGED <<stack, called, errors>>
        BY <1>16 DEF FtpInv, StackInv, Callers, GiveBack, remembered
    <2> QED BY <2>1, IdleThrifty
<1> QED BY <1>1, <1>2, <1>3, <1>4, <1>5, <1>6, <1>7, <1>8, <1>9, <1>10, <1>11, <1>12, <1>13,
           <1>14, <1>15, <1>16 DEF FtpNext, FtpStep

\* A call never meets more errors than the square of the tries of the method called, and
\* so never waits for longer than that many delays, whatever the numbers of tries are.
THEOREM ErrorsAreBounded == FtpSpec => []BoundedTries
<1>1. FtpInit => Thrifty
    <2>1. ASSUME FtpInit
          PROVE  stack = <<>> /\ errors = 0 /\ FtpInv
        BY <2>1, FtpStart DEF FtpInit
    <2>2. FtpInit => Square \in Nat
        BY <2>1, AccountFacts
    <2>3. FtpInit => Chain
        <3>1. Len(<<>>) = 0 /\ 1..0-1 = {}
            BY EmptySeq, NoPair
        <3> QED BY <2>1, <3>1 DEF Chain
    <2> QED BY <2>1, <2>2, <2>3 DEF Thrifty, PastLogin, Solvent
<1>2. ASSUME FtpInv, Thrifty, [FtpNext]_ftpvars
      PROVE  Thrifty'
    <2>1. CASE FtpNext
        BY <1>2, <2>1, ThriftyStep
    <2>2. CASE UNCHANGED ftpvars
        <3>1. UNCHANGED <<stack, budget, exc, conn, called, errors>>
            BY <2>2 DEF ftpvars, session, remembered
        <3>2. Square' = Square
            BY <3>1, Zenon DEF Square, Tries
        <3> QED BY <1>2, <3>1, <3>2 DEF Thrifty, Chain, PastLogin, Solvent, Rising, Top
    <2> QED BY <1>2, <2>1, <2>2
<1>3. ASSUME FtpInv, Thrifty
      PROVE  BoundedTries
    <2>1. errors \in Nat /\ Square \in Nat /\ (stack # <<>> => budget \in Int)
        BY <1>3, AccountFacts
    <2>2. CASE stack = <<>>
        BY <1>3, <2>2 DEF Thrifty, Solvent, Square, BoundedTries
    <2>3. CASE stack # <<>>
        <3>1. PICK k \in Nat : errors + k + Due(Top.method, exc, conn, budget) <= Square - 1 + Rising
            BY <1>3, <2>3 DEF Thrifty, Solvent
        <3>2. Due(Top.method, exc, conn, budget) \in Nat
            BY <2>1, <2>3, DueFacts
        <3>3. errors <= Square
            BY <2>1, <3>1, <3>2 DEF Rising
        <3> QED BY <3>3 DEF Square, BoundedTries
    <2> QED BY <2>2, <2>3
<1> QED BY <1>1, <1>2, <1>3, FtpInvariant, PTL DEF FtpSpec

=================================================================================

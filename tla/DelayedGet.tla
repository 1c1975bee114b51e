------------------------------- MODULE DelayedGet -------------------------------
(***************************************************************************)
(* The batch get of toolbox.add_section: every section of the batch        *)
(* declares what it will fetch (earlyget), the delayed actions so          *)
(* registered are run at once by one ftget command per format (finalise),  *)
(* then each section takes its own result, or falls back to the usual get  *)
(* (finaliseget, get).  The parts are data.handlers.Handler,               *)
(* data.abstractstores.MultiStore over a cache and an archive,             *)
(* tools.storage.Archive, tools.delayedactions and System.ftserv_batchget. *)
(* The cache is shared with other jobs.                                    *)
(***************************************************************************)
EXTENDS Integers, FiniteSets

CONSTANTS
    N,           \* sections of the batch, in the order of the description
    Targets,     \* paths in the archive
    Special,     \* the targets of a format with a batchrawftget of its own
    Within,      \* <<t, u>>: the path t is part of the path u
    MaxOther     \* bound: what the other jobs do in the cache

Sections == 1..N

ASSUME DelayedGetAssumption ==
    /\ N \in Nat \ {0} /\ MaxOther \in Nat
    /\ Special \subseteq Targets
    /\ Within \subseteq Targets \X Targets
    /\ {"none", "empty"} \cap Targets = {}

VARIABLES
    want,       \* per section: its target, container, and options
    archive,    \* the targets that the archive holds
    cache,      \* per target: the data of its file in the cache, or "none"
    local,      \* per container: its data, or "none"
    pc,         \* control point of the batch
    cur,        \* the section it is at
    flag,       \* per section: what earlyget has answered, "true", "id" or "none"
    action,     \* per section: status of its delayed action, "gone" when there is none
    result,     \* per section: the data of the temporary file of its action
    id,         \* the action that the get at work may still use, or 0
    ok,         \* per section: what get or finaliseget has answered
    others,     \* number of actions of the other jobs
    fed,        \* history: the sections that have fed their container themselves
    denied      \* history: the sections that an access to their target has failed for

asked == <<want, archive>>
batch == <<flag, action, result>>
history == <<fed, denied>>
vars == <<asked, cache, local, pc, cur, batch, id, ok, others, history>>

Wants == [target : Targets, file : Sections, alternate : BOOLEAN, inout : BOOLEAN]
Target(s) == want[s].target
File(s) == want[s].file
Exists(s) == local[File(s)] # "none"
Filled(s) == want[s].alternate /\ Exists(s)
Pending(f) == {s \in Sections : action[s] = "void" /\ (Target(s) \in Special) = f}

\* A container, named after its nominal section, may have alternates after it
Init ==
    /\ want \in [Sections -> Wants]
    /\ \A s \in Sections : IF want[s].alternate THEN File(s) < s /\ ~want[File(s)].alternate
                           ELSE File(s) = s
    /\ archive \in SUBSET Targets
    /\ \E c \in SUBSET archive : cache = [t \in Targets |-> IF t \in c THEN t ELSE "none"]
    /\ local = [f \in Sections |-> "none"]
    /\ pc = "early" /\ cur = 1
    /\ flag = [s \in Sections |-> "none"] /\ action = [s \in Sections |-> "gone"]
    /\ result = [s \in Sections |-> "none"]
    /\ id = 0 /\ ok = [s \in Sections |-> FALSE] /\ others = 0
    /\ fed = {} /\ denied = {}

(***************************************************************************)
(* The early get of a section.  Only a multistore whose first stores say   *)
(* at once that they do not have the resource passes it on to the archive; *)
(* a path that an action waits for already is not registered twice.  The   *)
(* identifier is the name of a temporary file that mkstemp creates, empty. *)
(* There is none for what ftserv does not fetch, a compressed file or a    *)
(* container in memory, nor when mkstemp fails.                            *)
(***************************************************************************)
Registers(s) ==
    /\ cache[Target(s)] = "none"
    /\ \A r \in Sections : action[r] # "gone" => Target(r) # Target(s)

Early ==
    /\ pc = "early"
    /\ LET s == cur IN
        \/ /\ Filled(s)
           /\ flag' = [flag EXCEPT ![s] = "true"] /\ UNCHANGED <<action, result>>
        \/ /\ ~Filled(s) /\ Registers(s)
           /\ flag' = [flag EXCEPT ![s] = "id"]
           /\ action' = [action EXCEPT ![s] = "void"]
           /\ result' = [result EXCEPT ![s] = "empty"]
        \/ ~Filled(s) /\ UNCHANGED batch
    /\ IF cur < N THEN cur' = cur + 1 /\ UNCHANGED pc
       ELSE cur' = 1 /\ pc' = IF \E s \in Sections : flag'[s] = "id" THEN "finalise" ELSE "section"
    /\ UNCHANGED <<asked, cache, local, id, ok, others, history>>

(***************************************************************************)
(* RawFtpDelayedGetHandler.finalise: one command for the waiting actions   *)
(* of a format.  The command fetches some of the files.  When it fails,    *)
(* what it says of each path is looked for in its output: nothing at all,  *)
(* or the line of the path, or the line of a path that contains it, for    *)
(* ftserv_batchget looks for "a_source in ack_globish".                    *)
(***************************************************************************)
Settled_Trusting(code) == IF code = "ABORT" THEN "failed" ELSE "done"
Settled(code) == IF code = "OK" THEN "done" ELSE IF code = "ABORT" THEN "failed" ELSE "unclear"

Said(s, acked, fetched) ==
    LET mine == {r \in acked : Target(r) = Target(s) \/ <<Target(s), Target(r)>> \in Within}
    IN  IF mine = {} THEN {"nothing"} ELSE {IF r \in fetched THEN "OK" ELSE "ABORT" : r \in mine}

Waits_Plain(f) == f = FALSE /\ Pending(f) # {}
Waits(f) == Pending(f) # {}

Command(f) ==
    /\ pc = "finalise" /\ Waits(f)
    /\ \E fetched \in SUBSET {s \in Pending(f) : Target(s) \in archive} :
        /\ result' = [s \in Sections |-> IF s \in fetched THEN Target(s) ELSE result[s]]
        /\ \/ fetched = Pending(f)      \* the command succeeds
              /\ action' = [s \in Sections |-> IF s \in Pending(f) THEN "done" ELSE action[s]]
           \/ \E acked \in SUBSET Pending(f) : \E code \in [Pending(f) -> {"OK", "ABORT", "nothing"}] :
                /\ \A s \in Pending(f) : code[s] \in Said(s, acked, fetched)
                /\ action' = [s \in Sections |-> IF s \in Pending(f) THEN Settled(code[s])
                                                 ELSE action[s]]
           \/ fetched = {}              \* an OSError before the command
              /\ action' = [s \in Sections |-> IF s \in Pending(f) THEN "unclear" ELSE action[s]]
    /\ UNCHANGED <<asked, cache, local, pc, cur, flag, id, ok, others, history>>

Finalised ==
    /\ pc = "finalise" /\ \A f \in BOOLEAN : ~Waits(f)
    /\ pc' = "section"
    /\ UNCHANGED <<asked, cache, local, cur, batch, id, ok, others, history>>

(***************************************************************************)
(* The sections one after the other: finaliseget where earlyget has        *)
(* answered something, get elsewhere.  _refilling_get tries the cache,     *)
(* then the archive.                                                       *)
(***************************************************************************)
Answer(s, b) ==
    /\ ok' = [ok EXCEPT ![s] = b]
    /\ id' = 0
    /\ IF cur < N THEN cur' = cur + 1 /\ pc' = "section" ELSE cur' = cur /\ pc' = "over"

Section ==
    /\ pc = "section"
    /\ LET s == cur IN
        \/ /\ flag[s] = "true" \/ Filled(s)
           /\ Answer(s, TRUE)
        \/ /\ flag[s] # "true" /\ ~Filled(s)
           /\ id' = IF flag[s] = "id" THEN s ELSE 0
           /\ pc' = "cache" /\ UNCHANGED <<cur, ok>>
    /\ UNCHANGED <<asked, cache, local, batch, others, history>>

Feed(s, data) ==
    /\ local' = [local EXCEPT ![File(s)] = data]
    /\ fed' = fed \cup {s}
NotFed == UNCHANGED <<local, history>>

LookInCache ==
    /\ pc = "cache"
    /\ LET s == cur IN
        \/ /\ cache[Target(s)] # "none"
           /\ Feed(s, cache[Target(s)]) /\ Answer(s, TRUE) /\ UNCHANGED denied
        \/ /\ cache[Target(s)] = "none"
           /\ pc' = "archive" /\ UNCHANGED <<cur, id, ok>> /\ NotFed
    /\ UNCHANGED <<asked, cache, batch, others>>

\* The usual get from the archive: ftget or ftserv_get
PlainGet ==
    /\ pc = "archive" /\ id = 0
    /\ LET s == cur IN
        \/ /\ Target(s) \in archive
           /\ Feed(s, Target(s)) /\ pc' = "refill" /\ UNCHANGED <<cur, id, ok, denied>>
        \/ /\ Answer(s, FALSE)          \* it is missing, or the access fails
           /\ denied' = denied \cup {s} /\ UNCHANGED <<local, fed>>
    /\ UNCHANGED <<asked, cache, batch, others>>

Unclear_Failed(s) == Answer(s, FALSE)
Unclear(s) == pc' = "cache" /\ id' = 0 /\ UNCHANGED <<cur, ok>>

\* Archive._ftpfinaliseretrieve: the action is taken out of the hub, its file
\* is moved to the container; Handler.finaliseget reverts to get for an unclear one
TakeResult ==
    /\ pc = "archive" /\ id # 0
    /\ LET s == cur IN
        /\ action' = [action EXCEPT ![id] = "gone"]
        /\ \/ /\ action[id] = "done"
              /\ Feed(s, result[id]) /\ result' = [result EXCEPT ![id] = "none"]
              /\ pc' = "refill" /\ id' = 0
              /\ UNCHANGED <<cur, ok, denied>>
           \/ /\ action[id] = "failed"
              /\ Answer(s, FALSE)
              /\ denied' = denied \cup IF result[id] = Target(s) THEN {} ELSE {s}
              /\ UNCHANGED <<local, fed, result>>
           \/ /\ action[id] = "unclear"
              /\ Unclear(s) /\ NotFed /\ UNCHANGED result
    /\ UNCHANGED <<asked, cache, flag, others>>

\* What comes from the archive refills the cache, unless somebody has filled
\* the gap; for the intent "inout" the file is then fetched from the cache
Again_Anyway(wrote) == want[cur].inout
Again(wrote) == wrote /\ want[cur].inout

Refill ==
    /\ pc = "refill"
    /\ LET s == cur IN
        \/ /\ cache[Target(s)] # "none"
           /\ Answer(s, TRUE) /\ UNCHANGED cache
        \/ \E wrote \in BOOLEAN :
            /\ cache[Target(s)] = "none"
            /\ cache' = IF wrote THEN [cache EXCEPT ![Target(s)] = local[File(s)]] ELSE cache
            /\ IF Again(wrote) THEN pc' = "cache" /\ UNCHANGED <<cur, id, ok>> ELSE Answer(s, TRUE)
    /\ UNCHANGED <<asked, local, batch, others, history>>

\* External: another job refills the cache, or the cache is cleaned
Other ==
    /\ pc # "over" /\ others < MaxOther /\ others' = others + 1
    /\ \E t \in Targets :
        \/ cache[t] = "none" /\ t \in archive /\ cache' = [cache EXCEPT ![t] = t]
        \/ cache[t] # "none" /\ cache' = [cache EXCEPT ![t] = "none"]
    /\ UNCHANGED <<asked, local, pc, cur, batch, id, ok, history>>

Over == pc = "over" /\ UNCHANGED vars

Step == Early \/ (\E f \in BOOLEAN : Command(f)) \/ Finalised \/ Section
          \/ LookInCache \/ PlainGet \/ TakeResult \/ Refill
Next == Step \/ Other \/ Over

Spec == Init /\ [][Next]_vars
LiveSpec == Spec /\ WF_vars(Step)

(***************************************************************************)
(* Properties                                                              *)
(***************************************************************************)
TypeOK ==
    /\ want \in [Sections -> Wants] /\ archive \subseteq Targets
    /\ cache \in [Targets -> Targets \cup {"none", "empty"}]
    /\ local \in [Sections -> Targets \cup {"none", "empty"}]
    /\ pc \in {"early", "finalise", "section", "cache", "archive", "refill", "over"}
    /\ cur \in Sections /\ id \in 0..N
    /\ flag \in [Sections -> {"true", "id", "none"}]
    /\ action \in [Sections -> {"void", "done", "failed", "unclear", "gone"}]
    /\ result \in [Sections -> Targets \cup {"none", "empty"}]
    /\ ok \in [Sections -> BOOLEAN] /\ others \in 0..MaxOther
    /\ fed \subseteq Sections /\ denied \subseteq Sections

\* A container holds the data of a section that has fed it, never the empty
\* temporary file of an action that fetched nothing, and a section that is
\* answered yes has its own data or, for an alternate, those of a section of
\* the same container (handlers.py:905 to 1010, storage.py:784).
OwnData ==
    /\ \A f \in Sections : local[f] = "none" \/ \E s \in fed : File(s) = f /\ local[f] = Target(s)
    /\ \A s \in Sections : ok[s] => Exists(s) /\ (s \in fed => local[File(s)] = Target(s))

\* What the cache holds under a path is the data of that path, whatever the
\* batch has refilled it with (abstractstores.py:683)
CacheSound == \A t \in Targets : cache[t] \in {"none", t}

\* A section is answered no only for an access to its own path that failed or
\* found nothing: an action whose outcome is not known is never a failure, its
\* section does the usual get (delayedactions.py:577, handlers.py:983).
FailsRightly ==
    pc \notin {"early", "finalise"} =>
        \A s \in Sections : (~ok[s] /\ (s < cur \/ pc = "over")) => s \in denied

\* When the sections take their results no action is left waiting, of any
\* format, and each identifier is known to the hub until its section has used
\* it, once (delayedactions.py:547, 727).
EachSettledOnce ==
    pc \notin {"early", "finalise"} =>
        /\ \A s \in Sections : action[s] # "void"
        /\ \A s \in Sections : (flag[s] = "id" /\ s > cur) => action[s] # "gone"
        /\ id # 0 => id = cur /\ action[id] # "gone"

\* The batch ends: an unclear result, a refill that fails and another round
\* of gets never make it start again for ever (abstractstores.py:626).
BatchEnds == <>(pc = "over")

=================================================================================

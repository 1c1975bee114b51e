---------------------------------- MODULE Gang ----------------------------------
(***************************************************************************)
(* The gangs of vortex.layout.monitor.  A BasicGang groups the entries of  *)
(* an input monitor and derives its state from theirs; a MetaGang does the *)
(* same with gangs and hands out those that can be collected.  Members     *)
(* tell their gang of every change of state by calling it (observers).     *)
(*                                                                         *)
(* A BasicGang gets impatient: waitlimit seconds after its first available *)
(* member it accepts to be incomplete.  A threading.Timer re-examines it   *)
(* then, in a thread of its own, so the gang and its MetaGang are changed  *)
(* by two threads: the main one, when the monitor has news, and the timer. *)
(* Each object has a lock, that the changes take and the reads of the      *)
(* MetaGang (has_ufo, has_pcollectable, the pops) do not.                  *)
(*                                                                         *)
(* The main thread is the loop of nwp.algo.stdpost (autofill, then collect *)
(* while there is something to collect or to wait for).                    *)
(***************************************************************************)
EXTENDS EntryStates, Integers, FiniteSets

CONSTANTS
    Entries,       \* the entries of the input monitor
    Gangs,         \* the BasicGangs that autofill builds
    GangOf,        \* per entry: its gang
    AllowMissing,  \* autofill's allowmissing
    HasWaitlimit,  \* waitlimit > 0
    InitEntry      \* the states an entry may have when the gangs are built

GangSt == {"undecided", "collectable", "collectable_partial", "failed"}

ASSUME EntriesAssumption == IsFiniteSet(Entries) /\ IsFiniteSet(Gangs)
ASSUME GangOfAssumption == GangOf \in [Entries -> Gangs]
ASSUME NoEmptyGang == \A g \in Gangs : \E e \in Entries : GangOf[e] = g
ASSUME AllowMissingAssumption == AllowMissing \in Nat
ASSUME WaitlimitAssumption == HasWaitlimit \in BOOLEAN
ASSUME InitEntryAssumption == InitEntry \subseteq EntrySt

VARIABLES
    est,        \* per entry: its state, as its gang has classified it
    gst,        \* per gang: its state
    first,      \* per gang: _firstseen is None, set, or set more than waitlimit ago
    hastimer,   \* per gang: _waitlimit_timer is not None
    tpc,        \* per gang: control point of its timer thread
    observed,   \* the gangs the MetaGang is registered with
    mset,       \* per gang: the set of the MetaGang it is in
    nmembers,   \* MetaGang: _nmembers
    mstate,     \* MetaGang: its state
    pc,         \* main thread: control point
    tofill,     \* main thread: gangs autofill has still to build
    cur,        \* main thread: the gang it deals with
    prev        \* per gang: previous_state, in the notification being sent

gangvars == <<est, gst, first, hastimer, tpc, prev>>
metavars == <<observed, mset, nmembers, mstate>>
mainvars == <<pc, tofill, cur>>
gvars == <<gangvars, metavars, mainvars>>

MainPC == {"fill", "addmeta", "adding", "while_ufo", "while_coll", "consume", "unregister",
           "refresh", "notify", "move", "post", "decide", "done", "timedout"}
TimerPC == {"none", "armed", "cancelled", "fired", "notify", "move", "clear", "ended", "dead"}
Nowhere == "nowhere"      \* in no set of the MetaGang: not yet added, being moved, or popped

(***************************************************************************)
(* The locks: who is inside a critical section can be read from the        *)
(* control points.                                                         *)
(***************************************************************************)
TimerHolds_NoLock(g) == FALSE
MainHolds(g) == pc \in {"notify", "move", "post"} /\ cur = g
TimerHolds(g) == tpc[g] \in {"notify", "move", "clear"}
MetaLocked == pc \in {"adding", "move"} \/ \E g \in Gangs : tpc[g] = "move"

(***************************************************************************)
(* BasicGang: counts and state.                                            *)
(***************************************************************************)
MembersOf(g) == {e \in Entries : GangOf[e] = g}
Size(g) == Cardinality(MembersOf(g))
NbAvailable(es, g) == Cardinality({e \in MembersOf(g) : es[e] = "available"})
NbUfo(es, g) == Cardinality({e \in MembersOf(g) : es[e] \in {"ufo", "expected"}})

minsize(g) == Size(g) - AllowMissing
EffMinsize(g) == IF minsize(g) > 0 THEN minsize(g) ELSE Size(g)

IsCollectable(es, g) == NbAvailable(es, g) = Size(g)
IsPcollectable_Hasty(es, g) == NbAvailable(es, g) >= EffMinsize(g)
IsPcollectable(es, g) ==
    /\ NbAvailable(es, g) >= EffMinsize(g)
    /\ NbUfo(es, g) = 0 \/ (HasWaitlimit /\ first[g] = "late")
IsUndecided_AllCounted(es, g) == Size(g) >= EffMinsize(g)
IsUndecided(es, g) == NbAvailable(es, g) + NbUfo(es, g) >= EffMinsize(g)

\* _refresh_state
GangState(es, g) ==
    IF IsCollectable(es, g) THEN "collectable"
    ELSE IF IsPcollectable(es, g) THEN "collectable_partial"
    ELSE IF IsUndecided(es, g) THEN "undecided"
    ELSE "failed"

Changes(es, g) == GangState(es, g) # gst[g]

\* the assignment of the state: _state_changed gives the timer up once nobody is
\* awaited (cancel stops a timer that waits, not one that has fired), then the
\* observers are notified
CancelsTimer(es, g) == Changes(es, g) /\ hastimer[g] /\ NbUfo(es, g) = 0
SetState(es, g) ==
    /\ gst' = [gst EXCEPT ![g] = GangState(es, g)]
    /\ prev' = [prev EXCEPT ![g] = IF Changes(es, g) THEN gst[g] ELSE @]
    /\ hastimer' = [hastimer EXCEPT ![g] = @ /\ ~CancelsTimer(es, g)]

\* the end of add_member and updobsitem: no member was available before the first
\* one is, so the members just added or updated are those that are available now
FirstSeen_TimerOnUpdates(g) ==
    IF first[g] = "none" /\ NbAvailable(est, g) > 0
    THEN /\ first' = [first EXCEPT ![g] = "seen"]
         /\ hastimer' = [hastimer EXCEPT ![g] = HasWaitlimit /\ pc = "post"]
         /\ tpc' = [tpc EXCEPT ![g] = IF HasWaitlimit /\ pc = "post" THEN "armed" ELSE "none"]
    ELSE UNCHANGED <<first, hastimer, tpc>>
FirstSeen(g) ==
    IF first[g] = "none" /\ NbAvailable(est, g) > 0
    THEN /\ first' = [first EXCEPT ![g] = "seen"]
         /\ hastimer' = [hastimer EXCEPT ![g] = HasWaitlimit]
         /\ tpc' = [tpc EXCEPT ![g] = IF HasWaitlimit THEN "armed" ELSE "none"]
    ELSE UNCHANGED <<first, hastimer, tpc>>

(***************************************************************************)
(* MetaGang: counts and state.                                             *)
(***************************************************************************)
In(ms, s) == {g \in Gangs : ms[g] = s}
HasPcollectable == In(mset, "collectable") \cup In(mset, "collectable_partial") # {}

\* _refresh_state
MetaState(ms, n) ==
    IF Cardinality(In(ms, "collectable")) = n THEN "collectable"
    ELSE IF Cardinality(In(ms, "collectable") \cup In(ms, "collectable_partial")) = n
         THEN "collectable_partial"
    ELSE IF In(ms, "failed") = {} THEN "undecided"
    ELSE "failed"

GangInit ==
    /\ est \in [Entries -> InitEntry]
    /\ gst = [g \in Gangs |-> "undecided"]
    /\ first = [g \in Gangs |-> "none"]
    /\ hastimer = [g \in Gangs |-> FALSE]
    /\ tpc = [g \in Gangs |-> "none"]
    /\ observed = {}
    /\ mset = [g \in Gangs |-> Nowhere]
    /\ nmembers = 0
    /\ mstate = "undecided"
    /\ pc = "fill" /\ tofill = Gangs
    /\ cur = CHOOSE g \in Gangs : TRUE
    /\ prev = [g \in Gangs |-> "undecided"]

(***************************************************************************)
(* Both threads: one notification of the MetaGang, under its lock.         *)
(***************************************************************************)
\* updobsitem, first half: the gang leaves the set it was in.  set.remove raises
\* KeyError when it is not there.
Leave(g) == mset[g] = prev[g] /\ mset' = [mset EXCEPT ![g] = Nowhere]

\* updobsitem, second half: it enters the other one and the MetaGang is refreshed
Enter(g) ==
    /\ mset' = [mset EXCEPT ![g] = gst[g]]
    /\ mstate' = MetaState(mset', nmembers)
    /\ UNCHANGED <<observed, nmembers>>

(***************************************************************************)
(* The main thread: autofill.                                              *)
(***************************************************************************)
\* BasicGang.add_member, then MetaGang.add_member up to its lock
Build(g) ==
    /\ pc = "fill" /\ g \in tofill
    /\ gst' = [gst EXCEPT ![g] = GangState(est, g)]
    /\ FirstSeen(g)
    /\ tofill' = tofill \ {g} /\ cur' = g
    /\ pc' = "addmeta"
    /\ UNCHANGED <<est, prev, metavars>>

\* MetaGang.add_member: register with the gang ...
Register ==
    /\ pc = "addmeta" /\ ~MetaLocked
    /\ observed' = observed \cup {cur}
    /\ pc' = "adding"
    /\ UNCHANGED <<gangvars, mset, nmembers, mstate, tofill, cur>>

\* ... then look at its state
AddMember ==
    /\ pc = "adding"
    /\ mset' = [mset EXCEPT ![cur] = gst[cur]]
    /\ nmembers' = nmembers + 1
    /\ mstate' = MetaState(mset', nmembers')
    /\ pc' = IF tofill = {} THEN "while_ufo" ELSE "fill"
    /\ UNCHANGED <<gangvars, observed, tofill, cur>>

(***************************************************************************)
(* The main thread: the collecting loop.                                   *)
(***************************************************************************)

\* while has_ufo() or has_pcollectable(), two reads without the lock
WhileUfo ==
    /\ pc = "while_ufo"
    /\ pc' = IF In(mset, "undecided") # {} THEN "consume" ELSE "while_coll"
    /\ UNCHANGED <<gangvars, metavars, tofill, cur>>

WhileCollectable ==
    /\ pc = "while_coll"
    /\ pc' = IF HasPcollectable THEN "consume" ELSE "done"
    /\ UNCHANGED <<gangvars, metavars, tofill, cur>>

\* consume_pcolectable: the collectable gangs first
Poppable ==
    IF In(mset, "collectable") # {} THEN In(mset, "collectable")
    ELSE In(mset, "collectable_partial")

Pop(g) ==
    /\ pc = "consume" /\ g \in Poppable
    /\ mset' = [mset EXCEPT ![g] = Nowhere]
    /\ cur' = g
    /\ pc' = "unregister"
    /\ UNCHANGED <<gangvars, observed, nmembers, mstate, tofill>>

\* _unregister_i; the caller deals with the gang
Unregister ==
    /\ pc = "unregister"
    /\ observed' = observed \ {cur}
    /\ pc' = "consume"
    /\ UNCHANGED <<gangvars, mset, nmembers, mstate, tofill, cur>>

NothingToPop ==
    /\ pc = "consume" /\ Poppable = {}
    /\ pc' = "refresh"
    /\ UNCHANGED <<gangvars, metavars, tofill, cur>>

\* the news of the entries: any that there may be, and what InputMonitor tells (TellsNews)
Hearer == INSTANCE EntryNews WITH Subjects <- Entries, state <- est

\* BasicGang.updobsitem: the entry is moved and the state refreshed
News(e, s) ==
    LET g == GangOf[e]
        es == [est EXCEPT ![e] = s]
    IN /\ pc = "refresh" /\ Hearer!Tell(e, s)
       /\ ~TimerHolds(g)
       /\ SetState(es, g)
       /\ tpc' = [tpc EXCEPT ![g] = IF CancelsTimer(es, g) /\ @ = "armed" THEN "cancelled" ELSE @]
       /\ cur' = g
       /\ pc' = IF Changes(es, g) THEN "notify" ELSE "post"
       /\ UNCHANGED <<first, metavars, tofill>>

Notify ==
    /\ pc = "notify"
    /\ IF cur \in observed
       THEN ~MetaLocked /\ Leave(cur) /\ pc' = "move"
       ELSE pc' = "post" /\ UNCHANGED mset
    /\ UNCHANGED <<gangvars, observed, nmembers, mstate, tofill, cur>>

Move ==
    /\ pc = "move" /\ Enter(cur)
    /\ pc' = "post"
    /\ UNCHANGED <<gangvars, tofill, cur>>

Post ==
    /\ pc = "post" /\ FirstSeen(cur)
    /\ pc' = "refresh"
    /\ UNCHANGED <<est, gst, prev, metavars, tofill, cur>>

\* no more news: the end of the body of the loop
AllSettled == \A e \in Entries : est[e] \in {"available", "failed"}
Waits == ~AllSettled /\ In(mset, "undecided") # {} /\ ~HasPcollectable

GoOn ==
    /\ pc = "refresh"
    /\ pc' = "while_ufo"
    /\ UNCHANGED <<gangvars, metavars, tofill, cur>>

TimeOut ==
    /\ pc = "refresh" /\ Waits
    /\ pc' = "timedout"
    /\ UNCHANGED <<gangvars, metavars, tofill, cur>>

(***************************************************************************)
(* The clock and the timer threads.                                        *)
(***************************************************************************)
TimePasses(g) ==
    /\ first[g] = "seen"
    /\ first' = [first EXCEPT ![g] = "late"]
    /\ UNCHANGED <<est, gst, hastimer, tpc, prev, metavars, mainvars>>

\* the Timer waits for waitlimit + 1 seconds
Fire(g) ==
    /\ tpc[g] = "armed" /\ first[g] = "late"
    /\ tpc' = [tpc EXCEPT ![g] = "fired"]
    /\ UNCHANGED <<est, gst, first, hastimer, prev, metavars, mainvars>>

\* _waitlimit_check, under the lock of the gang
Check(g) ==
    /\ tpc[g] = "fired" /\ ~MainHolds(g)
    /\ SetState(est, g)
    /\ tpc' = [tpc EXCEPT ![g] = IF Changes(est, g) THEN "notify" ELSE "clear"]
    /\ UNCHANGED <<est, first, metavars, mainvars>>

TimerNotify(g) ==
    /\ tpc[g] = "notify"
    /\ IF g \in observed
       THEN ~MetaLocked /\ Leave(g) /\ tpc' = [tpc EXCEPT ![g] = "move"]
       ELSE tpc' = [tpc EXCEPT ![g] = "clear"] /\ UNCHANGED mset
    /\ UNCHANGED <<est, gst, first, hastimer, prev, observed, nmembers, mstate, mainvars>>

\* the gang was registered before it changed and added after: remove raises
\* KeyError in the timer thread, which ends there
TimerRaises(g) ==
    /\ tpc[g] = "notify" /\ g \in observed
    /\ ~MetaLocked /\ mset[g] # prev[g]
    /\ tpc' = [tpc EXCEPT ![g] = "dead"]
    /\ UNCHANGED <<est, gst, first, hastimer, prev, metavars, mainvars>>

TimerMove(g) ==
    /\ tpc[g] = "move" /\ Enter(g)
    /\ tpc' = [tpc EXCEPT ![g] = "clear"]
    /\ UNCHANGED <<est, gst, first, hastimer, prev, mainvars>>

TimerClear(g) ==
    /\ tpc[g] = "clear"
    /\ hastimer' = [hastimer EXCEPT ![g] = FALSE]
    /\ tpc' = [tpc EXCEPT ![g] = "ended"]
    /\ UNCHANGED <<est, gst, first, prev, metavars, mainvars>>

\* the loop is over; the timers are daemons
LoopOver == pc \in {"done", "timedout"} /\ UNCHANGED gvars

TimerStep(g) ==
    Fire(g) \/ Check(g) \/ TimerNotify(g) \/ TimerRaises(g) \/ TimerMove(g) \/ TimerClear(g)
Collect ==
    \/ Register \/ AddMember \/ WhileUfo \/ WhileCollectable \/ Unregister \/ NothingToPop
    \/ Notify \/ Move \/ Post \/ GoOn
    \/ \E g \in Gangs : Build(g) \/ Pop(g)

GangNext ==
    \/ Collect
    \/ \E e \in Entries, s \in EntrySt : News(e, s)
    \/ TimeOut
    \/ \E g \in Gangs : TimePasses(g) \/ TimerStep(g)
    \/ LoopOver

GangSpec == GangInit /\ [][GangNext]_gvars

\* the threads run, and time passes
ThreadFairness ==
    /\ WF_gvars(Collect)
    /\ \A g \in Gangs : WF_gvars(TimePasses(g)) /\ WF_gvars(TimerStep(g))
\* every entry ends up available or failed: what the input monitor ensures when
\* every promise is kept or withdrawn (see InputMonitor, EventuallyAllDone)
NewsFairness ==
    \A e \in Entries : SF_gvars(\E s \in {"available", "failed"} : News(e, s))

TimerSpec == GangSpec /\ ThreadFairness

-----------------------------------------------------------------------------
(***************************************************************************)
(* Properties.                                                             *)
(***************************************************************************)
GangTypeOK ==
    /\ est \in [Entries -> EntrySt]
    /\ gst \in [Gangs -> GangSt] /\ prev \in [Gangs -> GangSt]
    /\ first \in [Gangs -> {"none", "seen", "late"}]
    /\ hastimer \in [Gangs -> BOOLEAN]
    /\ tpc \in [Gangs -> TimerPC]
    /\ observed \subseteq Gangs
    /\ mset \in [Gangs -> GangSt \cup {Nowhere}]
    /\ nmembers \in Nat /\ mstate \in GangSt
    /\ pc \in MainPC /\ tofill \subseteq Gangs /\ cur \in Gangs

\* somebody is in the middle of adding, moving or removing the gang
Busy(g) == MainHolds(g) \/ TimerHolds(g) \/ (pc \in {"adding", "unregister"} /\ cur = g)

\* The two threads, their two locks and the unlocked pops leave each gang in the
\* set of the MetaGang that its state calls for (_Gang: "the members of the Gang
\* are classified depending on their state").
Classified == \A g \in observed : ~Busy(g) => mset[g] = gst[g]

\* As long as nothing is popped, the cached state of the MetaGang is the one its
\* docstring gives for the states of its members.
MetaStateIsRight ==
    (observed = Gangs /\ \A g \in Gangs : ~Busy(g)) =>
        /\ mstate = "failed" <=> \E g \in Gangs : gst[g] = "failed"
        /\ mstate = "collectable" <=> \A g \in Gangs : gst[g] = "collectable"
        /\ mstate = "undecided" => \E g \in Gangs : gst[g] = "undecided"

\* A gang is handed out with no fewer members than minsize, and incomplete only
\* when the others have failed or waitlimit is over, although the sets it is
\* taken from are brought up to date by other threads.
HandedOutRightly ==
    [][\A g \in Gangs : Pop(g) =>
          /\ NbAvailable(est, g) >= EffMinsize(g)
          /\ NbUfo(est, g) = 0 \/ (HasWaitlimit /\ first[g] = "late")]_gvars

\* A decision is not taken back: a gang that was collectable or failed stays so,
\* and an incomplete one can only be completed, whatever the order of the news,
\* of the clock and of the timer.
DecidedForGood ==
    [][\A g \in Gangs :
          /\ gst[g] \in {"collectable", "failed"} => gst'[g] = gst[g]
          /\ gst[g] = "collectable_partial" => gst'[g] \in {"collectable", "collectable_partial"}]_gvars

\* The loop of stdpost ends by itself only when every gang has been handed out or
\* has failed.  (Not so with a waitlimit: a gang its timer is moving is in no set.)
Popped(g) == g \notin observed
NoGangForgotten == pc = "done" => \A g \in Gangs : Popped(g) \/ gst[g] = "failed"

\* The loop of stdpost (nwp/algo/stdpost.py:1605) ends when every entry is available
\* or failed in the end, with or without the help of the timers.
LoopEnds == NewsFairness => <>(pc \in {"done", "timedout"})

\* A gang with enough members is not left undecided once waitlimit is over, even
\* though nobody has any more news of its members.
WaitLimitHonoured ==
    \A g \in Gangs :
        (first[g] = "late" /\ NbAvailable(est, g) >= EffMinsize(g)) ~> (gst[g] # "undecided")
=================================================================================

--------------------------------- MODULE FlyPut ---------------------------------
(***************************************************************************)
(* The outputs of an algo component that are put "on the fly".  The job    *)
(* has promised some output files (toolbox.promise).  While its binary     *)
(* runs, a co-process (flyput_job) polls the working directory and puts    *)
(* the files that are ready: the file in the cache, then the promise is    *)
(* deleted.  When the binary ends, the main process (flyput_end) stops the *)
(* co-process, replays in its own context what the co-process has recorded *)
(* and puts what is left.                                                  *)
(*                                                                         *)
(* The local tracker of each process lists the URIs it has put: a put to a *)
(* listed URI is skipped (urifilter), and a job that fails deletes the     *)
(* promises that its tracker lists (rescue).  The co-process is forked: it *)
(* has a copy of the tracker, and only what it records comes back.         *)
(***************************************************************************)
EXTENDS FiniteSets

CONSTANT Files      \* the output files of the job

VARIABLES
    prom,       \* the files with a promise in the promise cache
    real,       \* the files in the cache
    made,       \* the files this job has promised
    local,      \* the files the binary has completed
    out,        \* the files whose output section was put
    mpc, failed,            \* main process: control point, did something fail?
    cpc, redo, todo, now,   \* co-process: control point, flag, files polled, file being put
    complete, free, sent,   \* event_complete, event_free, is the record in the queue?
    mt, ct,     \* local trackers of the main process and of the co-process
    rec,        \* the recorder of the co-process
    deleted,    \* history: the files deleted from the stores
    stored, again, lost     \* history: put once, put twice, record not replayed

stores == <<prom, real>>
mainvars == <<made, local, out, mpc, failed>>
covars == <<cpc, redo, todo, now, ct, rec>>
comm == <<complete, free, sent>>
hist == <<deleted, stored, again, lost>>
vars == <<stores, mainvars, covars, comm, mt, hist>>

(***************************************************************************)
(* The local tracker: what it lists as put, and its reverse index.         *)
(***************************************************************************)
Uris == Files \X {"promise", "cache"}
Trackers == [uris : SUBSET Uris, map : SUBSET Uris]

Prom(f) == <<f, "promise">>
Real(f) == <<f, "cache">>
Listed(t, u) == u \in t.uris

\* LocalTrackerEntry._update_store
PutNotified(t, u) == [uris |-> t.uris \cup {u}, map |-> t.map \cup {u}]
\* LocalTracker.update_store: only the entries that the index finds are cleaned
DelNotified(t, u) ==
    IF u \in t.map THEN [uris |-> t.uris \ {u}, map |-> t.map \ {u}] ELSE t
\* LocalTracker.append: the index is left alone
Appended(t, uris) == [t EXCEPT !.uris = t.uris \cup uris]
\* LocalTracker.datastore_inplace_overwrite, after the pickle of a dictionary
Reloaded(t) == [t EXCEPT !.map = {}]

NoTracker == [uris |-> {}, map |-> {}]

Init ==
    /\ prom \in SUBSET Files            \* promises left by a run that was killed
    /\ real = {} /\ made = {} /\ local = {} /\ out = {}
    /\ mpc = "promise" /\ failed = FALSE
    /\ cpc = "off" /\ redo = TRUE /\ todo = {} /\ now = {}
    /\ complete = FALSE /\ free = FALSE /\ sent = FALSE
    /\ mt = NoTracker /\ ct = NoTracker /\ rec = {}
    /\ deleted = {} /\ stored = {} /\ again = {} /\ lost = FALSE

(***************************************************************************)
(* PromiseStore.put without the local file: in one step here, step by step *)
(* in module Promise.  A promise that is already there is only notified    *)
(* (dryrun), one that the tracker lists is skipped.                        *)
(***************************************************************************)
PutPromise_Silent(f) ==
    LET t == IF Listed(mt, Prom(f)) \/ f \in prom THEN mt ELSE PutNotified(mt, Prom(f))
    IN IF f \in prom THEN mt' = t /\ UNCHANGED stores
       ELSE /\ prom' = IF Listed(mt, Prom(f)) THEN prom ELSE prom \cup {f}
            /\ real' = real \ {f}
            /\ mt' = DelNotified(t, Real(f))
PutPromise(f) ==
    LET t == IF Listed(mt, Prom(f)) THEN mt ELSE PutNotified(mt, Prom(f))
    IN IF f \in prom THEN mt' = t /\ UNCHANGED stores
       ELSE /\ prom' = IF Listed(mt, Prom(f)) THEN prom ELSE prom \cup {f}
            /\ real' = real \ {f}
            /\ mt' = DelNotified(t, Real(f))

\* Store.put of the cache store, when the URI is not filtered out
Stores(f) ==
    /\ real' = real \cup {f}
    /\ stored' = stored \cup {f}
    /\ again' = again \cup (stored \cap {f})

-----------------------------------------------------------------------------
(***************************************************************************)
(* The main process.                                                       *)
(***************************************************************************)
MakePromise(f) ==
    /\ mpc = "promise" /\ f \notin made
    /\ made' = made \cup {f}
    /\ PutPromise(f)
    /\ UNCHANGED <<local, out, mpc, failed, covars, comm, hist>>

\* flyput_begin: the co-process is forked with a copy of the tracker, and
\* starts to record
Begin ==
    /\ mpc = "promise" /\ mpc' = "run"
    /\ cpc' = IF made = {} THEN "off" ELSE "loop"
    /\ ct' = mt
    /\ UNCHANGED <<stores, made, local, out, failed, redo, todo, now, rec, comm, mt, hist>>

\* the binary
Produce(f) ==
    /\ mpc = "run" /\ f \notin local
    /\ local' = local \cup {f}
    /\ UNCHANGED <<stores, made, out, mpc, failed, covars, comm, mt, hist>>

RunEnds(ok) ==
    /\ mpc = "run" /\ failed' = ~ok
    /\ mpc' = IF cpc # "off" THEN "end" ELSE IF ok THEN "output" ELSE "rescue"
    /\ UNCHANGED <<stores, made, local, out, covars, comm, mt, hist>>

SetComplete ==
    /\ mpc = "end" /\ mpc' = "wait" /\ complete' = TRUE
    /\ UNCHANGED <<stores, made, local, out, failed, covars, free, sent, mt, hist>>

\* event_free, or 60 seconds
WaitFree_NoTimeout ==
    /\ mpc = "wait" /\ mpc' = IF free THEN "queue" ELSE "wait"
    /\ UNCHANGED <<stores, made, local, out, failed, covars, comm, mt, hist>>
WaitFree ==
    /\ mpc = "wait" /\ mpc' = "queue"
    /\ UNCHANGED <<stores, made, local, out, failed, covars, comm, mt, hist>>

\* queue_ctx.get and replay_in, or queue.Empty
GetQueue ==
    /\ mpc = "queue" /\ mpc' = "join"
    /\ \/ sent /\ mt' = Appended(mt, rec) /\ UNCHANGED lost
       \/ lost' = TRUE /\ UNCHANGED mt
    /\ UNCHANGED <<stores, made, local, out, failed, covars, comm, deleted, stored, again>>

\* p_io.join(30), else p_io.terminate(): CoDies, at any later time
Join ==
    /\ mpc = "join" /\ mpc' = IF failed THEN "rescue" ELSE "output"
    /\ UNCHANGED <<stores, made, local, out, failed, covars, comm, mt, hist>>

\* toolbox.output: a file is put, unless the tracker lists it, then its promise is
\* deleted; a file that is not there is promised again
OutputFile(f) ==
    /\ mpc = "output" /\ f \in (made \cap local) \ out
    /\ \/ Listed(mt, Real(f))
          /\ out' = out \cup {f} /\ prom' = prom \ {f}
          /\ mt' = DelNotified(mt, Prom(f))
          /\ UNCHANGED <<real, stored, again, mpc, failed>>
       \/ ~Listed(mt, Real(f))
          /\ out' = out \cup {f} /\ prom' = prom \ {f}
          /\ mt' = DelNotified(PutNotified(mt, Real(f)), Prom(f))
          /\ Stores(f) /\ UNCHANGED <<mpc, failed>>
       \/ ~Listed(mt, Real(f))                      \* the put fails: fatal
          /\ mpc' = "rescue" /\ failed' = TRUE
          /\ UNCHANGED <<stores, mt, out, stored, again>>
    /\ UNCHANGED <<made, local, covars, comm, deleted, lost>>

OutputPromise(f) ==
    /\ mpc = "output" /\ f \in made \ (local \cup out)
    /\ out' = out \cup {f} /\ PutPromise(f)
    /\ UNCHANGED <<made, local, mpc, failed, covars, comm, hist>>

\* any other exception of the script
Fails ==
    /\ mpc \in {"promise", "output"} /\ mpc' = "rescue" /\ failed' = TRUE
    /\ UNCHANGED <<stores, made, local, out, covars, comm, mt, hist>>

\* Context.clear_promises: the promises that the tracker lists
Rescue ==
    /\ mpc = "rescue" /\ mpc' = "over"
    /\ LET pending == {f \in Files : Listed(mt, Prom(f))}
       IN /\ prom' = prom \ pending
          /\ mt' = [mt EXCEPT !.uris = mt.uris \ (mt.map \cap {Prom(f) : f \in pending})]
    /\ UNCHANGED <<real, made, local, out, failed, covars, comm, hist>>

\* the next step of the job: the context is reloaded from its pickle
Reload ==
    /\ mpc \in {"promise", "output"} /\ cpc \in {"off", "gone"}
    /\ mt' = Reloaded(mt)
    /\ UNCHANGED <<stores, mainvars, covars, comm, hist>>

\* Handler.delete, PromiseStore.delete: the promise, then the resource
Delete(f) ==
    /\ mpc = "output" /\ f \in out \ deleted
    /\ prom' = prom \ {f} /\ real' = real \ {f}
    /\ mt' = DelNotified(DelNotified(mt, Prom(f)), Real(f))
    /\ deleted' = deleted \cup {f}
    /\ UNCHANGED <<mainvars, covars, comm, stored, again, lost>>

Ends ==
    /\ mpc = "output" /\ out = made /\ mpc' = "over"
    /\ UNCHANGED <<stores, made, local, out, failed, covars, comm, mt, hist>>

-----------------------------------------------------------------------------
(***************************************************************************)
(* The co-process: flyput_job.                                             *)
(***************************************************************************)
\* while redo and not event_complete.is_set()
CoLoop ==
    /\ cpc = "loop"
    /\ IF redo /\ ~complete THEN free' = FALSE /\ cpc' = "poll"
       ELSE cpc' = "send" /\ UNCHANGED free
    /\ UNCHANGED <<stores, mainvars, redo, todo, now, ct, rec, complete, sent, mt, hist>>

\* _flyput_job_internal_search: the poll may repeat a file, or raise
CoPoll ==
    /\ cpc = "poll"
    /\ \/ \E data \in SUBSET local : todo' = data /\ cpc' = "put" /\ UNCHANGED redo
       \/ redo' = FALSE /\ cpc' = "free" /\ UNCHANGED todo
    /\ UNCHANGED <<stores, mainvars, now, ct, rec, comm, mt, hist>>

\* _flyput_job_internal_put, per file: the put in the cache, unless filtered out ...
CoPut_StatusIgnored(f) ==
    /\ cpc = "put" /\ now = {} /\ f \in todo \cap made
    /\ now' = {f}
    /\ \/ ~Listed(ct, Real(f)) /\ Stores(f)
          /\ ct' = PutNotified(ct, Real(f)) /\ rec' = rec \cup {Real(f)}
       \/ UNCHANGED <<real, ct, rec, stored, again>>
    /\ UNCHANGED <<prom, mainvars, cpc, redo, todo, comm, mt, deleted, lost>>
CoPut_NotifiedAnyway(f) ==
    /\ cpc = "put" /\ now = {} /\ f \in todo \cap made
    /\ todo' = todo \ {f} /\ ct' = PutNotified(ct, Real(f)) /\ rec' = rec \cup {Real(f)}
    /\ UNCHANGED <<stores, mainvars, cpc, redo, now, comm, mt, hist>>
CoPut(f) ==
    /\ cpc = "put" /\ now = {} /\ f \in todo \cap made
    /\ \/ /\ Listed(ct, Real(f)) /\ now' = {f}
          /\ UNCHANGED <<stores, cpc, redo, todo, ct, rec, stored, again>>
       \/ /\ ~Listed(ct, Real(f)) /\ now' = {f}
          /\ Stores(f) /\ ct' = PutNotified(ct, Real(f)) /\ rec' = rec \cup {Real(f)}
          /\ UNCHANGED <<prom, cpc, redo, todo>>
       \/ /\ ~Listed(ct, Real(f)) /\ todo' = todo \ {f}      \* the put fails
          /\ UNCHANGED <<stores, cpc, redo, now, ct, rec, stored, again>>
       \/ /\ redo' = FALSE /\ todo' = {} /\ cpc' = "free"    \* it raises
          /\ UNCHANGED <<stores, now, ct, rec, stored, again>>
    /\ UNCHANGED <<mainvars, comm, mt, deleted, lost>>

\* ... then its promise is deleted
CoDrop(f) ==
    /\ cpc = "put" /\ now = {f}
    /\ prom' = prom \ {f} /\ ct' = DelNotified(ct, Prom(f))
    /\ now' = {} /\ todo' = todo \ {f}
    /\ UNCHANGED <<real, mainvars, cpc, redo, rec, comm, mt, hist>>

\* nothing is left to put but files that are not promised
CoPutEnds ==
    /\ cpc = "put" /\ now = {} /\ todo \cap made = {}
    /\ cpc' = "free" /\ todo' = {}
    /\ UNCHANGED <<stores, mainvars, redo, now, ct, rec, comm, mt, hist>>

\* event_free.set(), and some sleep
CoFree ==
    /\ cpc = "free" /\ cpc' = "loop" /\ free' = TRUE
    /\ UNCHANGED <<stores, mainvars, redo, todo, now, ct, rec, complete, sent, mt, hist>>

CoSend ==
    /\ cpc = "send" /\ cpc' = "gone" /\ sent' = TRUE
    /\ UNCHANGED <<stores, mainvars, redo, todo, now, ct, rec, complete, free, mt, hist>>

\* killed by the system, or terminated by the main process
CoDies ==
    /\ cpc \notin {"off", "gone"} /\ cpc' = "gone"
    /\ UNCHANGED <<stores, mainvars, redo, todo, now, ct, rec, comm, mt, hist>>

-----------------------------------------------------------------------------
Main ==
    \/ \E f \in Files : \/ MakePromise(f) \/ Produce(f) \/ OutputFile(f)
                        \/ OutputPromise(f) \/ Delete(f)
    \/ \E ok \in BOOLEAN : RunEnds(ok)
    \/ Begin \/ SetComplete \/ WaitFree \/ GetQueue \/ Join
    \/ Fails \/ Rescue \/ Reload \/ Ends
CoProcess ==
    \/ \E f \in Files : CoPut(f) \/ CoDrop(f)
    \/ CoLoop \/ CoPoll \/ CoPutEnds \/ CoFree \/ CoSend \/ CoDies
Stutter == mpc = "over" /\ UNCHANGED vars
Next == Main \/ CoProcess \/ Stutter

\* The binary ends; nothing is assumed of the co-process
Fairness == WF_vars(Main)
Spec == Init /\ [][Next]_vars
FairSpec == Spec /\ Fairness

-----------------------------------------------------------------------------
(***************************************************************************)
(* Properties.                                                             *)
(***************************************************************************)
TypeOK ==
    /\ prom \subseteq Files /\ real \subseteq Files
    /\ made \subseteq Files /\ local \subseteq Files /\ out \subseteq made
    /\ mpc \in {"promise", "run", "end", "wait", "queue", "join", "output", "rescue", "over"}
    /\ failed \in BOOLEAN /\ redo \in BOOLEAN /\ lost \in BOOLEAN
    /\ complete \in BOOLEAN /\ free \in BOOLEAN /\ sent \in BOOLEAN
    /\ cpc \in {"off", "loop", "poll", "put", "free", "send", "gone"}
    /\ todo \subseteq local /\ now \subseteq todo
    /\ mt \in Trackers /\ ct \in Trackers /\ rec \subseteq Uris
    /\ deleted \subseteq out /\ stored \subseteq local /\ again \subseteq stored

\* Once a file is promised, and until the job fails or deletes it, somebody who
\* asks for it finds its promise or the file: whatever process puts it, however
\* the co-process dies, whatever the trackers know.
NeverGone ==
    mpc # "over" \/ ~failed =>
        \A f \in made \ deleted : f \in prom \/ f \in real

\* What a tracker lists is skipped: it had better be in the cache.
SkippedIsThere ==
    \A f \in Files \ deleted :
        Listed(mt, Real(f)) \/ Listed(ct, Real(f)) => f \in real

\* A job that succeeds leaves its files in the cache and no promise of them, and
\* one that fails leaves no promise, be it made before by another run.
WellEnded ==
    mpc = "over" =>
        IF failed THEN made \cap prom = {}
        ELSE \A f \in (made \cap local) \ deleted : f \in real \ prom

\* A file is put once in the cache, by one process or the other, unless the record
\* of the co-process is lost.
PutOnce == ~lost => again = {}

\* The main process ends even if the co-process is stuck or killed.
EndsInTime == <>(mpc = "over")

\* "The URIs stored for the put action are checked against the delete request. If a
\* match is found, the URI is deleted."
DeleteForgets == \A f \in deleted : ~Listed(mt, Real(f))
=================================================================================

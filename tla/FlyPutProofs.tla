------------------------------ MODULE FlyPutProofs ------------------------------
(***************************************************************************)
(* Safety proofs about the outputs put on the fly: for any set of files, a *)
(* promised file is never gone and a job leaves what it should.            *)
(***************************************************************************)
EXTENDS FlyPut, TLAPS

\* The trackers and the recorder know of files that were promised and, for those
\* listed as put, completed
KnowsItsFiles ==
    \A f \in Files :
        /\ Listed(mt, Prom(f)) => f \in made
        /\ Listed(mt, Real(f)) \/ Listed(ct, Real(f)) \/ Real(f) \in rec \/ f \in now
              => f \in made \cap local

\* The record of the co-process is about files that were put
OnlyPuts == \A f \in Files : Prom(f) \notin rec

\* A promise of the job that is still there is listed by the tracker of the main
\* process: this is what rescue relies on
Pending == mpc # "over" => \A f \in made \cap prom : Listed(mt, Prom(f))

\* The promise of a file that the binary has not completed is kept
StillPromised ==
    mpc # "over" \/ ~failed => \A f \in made \ (local \cup deleted) : f \in prom

\* What a tracker or the recorder lists, or the co-process has just put, is there
There ==
    \A f \in Files \ deleted :
        Listed(mt, Real(f)) \/ Listed(ct, Real(f)) \/ Real(f) \in rec \/ f \in now
           => f \in real

\* The output sections come after the run
Order ==
    /\ failed => mpc \in {"end", "wait", "queue", "join", "rescue", "over"}
    /\ mpc = "rescue" => failed
    /\ mpc \in {"promise", "run", "end", "wait", "queue", "join"} => out = {}
    /\ mpc = "over" /\ ~failed => out = made
    /\ mpc = "promise" => cpc = "off"
    /\ now # {} => cpc \in {"put", "gone"}

\* An output section that was put leaves the file and no promise
OutDone == \A f \in (out \cap local) \ deleted : f \in real \ prom

\* A failed job has cleared its promises
Cleared == mpc = "over" /\ failed => made \cap prom = {}

IInv ==
    /\ TypeOK /\ Order /\ KnowsItsFiles /\ OnlyPuts /\ Pending /\ StillPromised
    /\ There /\ NeverGone /\ OutDone /\ Cleared

-----------------------------------------------------------------------------
(***************************************************************************)
(* The tracker.                                                            *)
(***************************************************************************)
LEMMA TrackerPut ==
    ASSUME NEW t \in Trackers, NEW u \in Uris
    PROVE  PutNotified(t, u) \in Trackers /\ PutNotified(t, u).uris = t.uris \cup {u}
    BY DEF PutNotified, Trackers

LEMMA TrackerDel ==
    ASSUME NEW t \in Trackers, NEW u \in Uris
    PROVE  /\ DelNotified(t, u) \in Trackers
           /\ DelNotified(t, u).uris \subseteq t.uris
           /\ t.uris \ {u} \subseteq DelNotified(t, u).uris
    BY DEF DelNotified, Trackers

LEMMA TrackerAppend ==
    ASSUME NEW t \in Trackers, NEW r \in SUBSET Uris
    PROVE  Appended(t, r) \in Trackers /\ Appended(t, r).uris = t.uris \cup r
    BY DEF Appended, Trackers

LEMMA TrackerReload ==
    ASSUME NEW t \in Trackers
    PROVE  Reloaded(t) \in Trackers /\ Reloaded(t).uris = t.uris
    BY DEF Reloaded, Trackers

LEMMA UriFacts ==
    ASSUME NEW f \in Files
    PROVE  /\ Prom(f) \in Uris /\ Real(f) \in Uris
           /\ \A g \in Files : /\ Prom(f) # Real(g)
                               /\ f # g => Prom(f) # Prom(g) /\ Real(f) # Real(g)
    BY DEF Prom, Real, Uris

\* The promise of a file: what it does to the stores and to the tracker
LEMMA PutPromiseFacts ==
    ASSUME TypeOK, NEW f \in Files, PutPromise(f)
    PROVE  /\ mt' \in Trackers
           /\ mt'.uris \subseteq mt.uris \cup {Prom(f)}
           /\ mt.uris \ {Real(f)} \subseteq mt'.uris
           /\ Listed(mt', Prom(f))
           /\ f \in prom => UNCHANGED stores
           /\ f \notin prom => /\ real' = real \ {f}
                               /\ prom' = IF Listed(mt, Prom(f)) THEN prom ELSE prom \cup {f}
<1> DEFINE t == IF Listed(mt, Prom(f)) THEN mt ELSE PutNotified(mt, Prom(f))
<1>1. t \in Trackers /\ t.uris = mt.uris \cup {Prom(f)}
    BY TrackerPut, UriFacts DEF TypeOK, Listed
<1>2. mt' = t \/ mt' = DelNotified(t, Real(f))
    BY DEF PutPromise
<1>3. /\ mt' \in Trackers /\ mt'.uris \subseteq t.uris
      /\ t.uris \ {Real(f)} \subseteq mt'.uris
    BY <1>1, <1>2, TrackerDel, UriFacts
<1>4. Prom(f) \in mt'.uris
    BY <1>1, <1>3, UriFacts
<1>5. /\ f \in prom => UNCHANGED stores
      /\ f \notin prom => /\ real' = real \ {f}
                          /\ prom' = IF Listed(mt, Prom(f)) THEN prom ELSE prom \cup {f}
    BY DEF PutPromise
<1> HIDE DEF t
<1> QED BY <1>1, <1>3, <1>4, <1>5 DEF Listed

-----------------------------------------------------------------------------
(***************************************************************************)
(* The steps.  Those of Quiet change control points, events, the list of   *)
(* polled files and the history only.                                      *)
(***************************************************************************)
known == <<made, local, out, deleted, mt, ct, rec, now>>
QuietStep ==
    \/ \E ok \in BOOLEAN : RunEnds(ok)
    \/ SetComplete \/ WaitFree \/ Join \/ Fails \/ Ends
    \/ CoLoop \/ CoPoll \/ CoPutEnds \/ CoFree \/ CoSend \/ CoDies
    \/ UNCHANGED vars
FileStep(f) ==
    \/ MakePromise(f) \/ Produce(f) \/ OutputFile(f) \/ OutputPromise(f) \/ Delete(f)
    \/ CoPut(f) \/ CoDrop(f)

LEMMA NextCases ==
    ASSUME [Next]_vars
    PROVE  \/ \E f \in Files : FileStep(f)
           \/ Begin \/ GetQueue \/ Rescue \/ Reload
           \/ QuietStep
    BY DEF Next, Main, CoProcess, Stutter, FileStep, QuietStep

LEMMA QuietFacts ==
    ASSUME QuietStep
    PROVE  UNCHANGED <<stores, known>>
    BY DEF QuietStep, RunEnds, SetComplete, WaitFree, Join, Fails, Ends, CoLoop, CoPoll,
           CoPutEnds, CoFree, CoSend, CoDies, vars, known, stores, mainvars, covars,
           hist, comm

LEMMA OrderStep == ASSUME TypeOK, Order, [Next]_vars PROVE Order'
<1> USE DEF Order, TypeOK, mainvars, covars
<1>1. ASSUME NEW f \in Files, FileStep(f) PROVE Order'
    <2>1. CASE MakePromise(f) \/ Produce(f)
        BY <2>1 DEF MakePromise, Produce, hist
    <2>2. CASE OutputPromise(f) \/ Delete(f)
        BY <2>2 DEF OutputPromise, Delete
    <2>4. CASE OutputFile(f)
        BY <2>4 DEF OutputFile
    <2>3. CASE CoPut(f) \/ CoDrop(f)
        BY <2>3 DEF CoPut, CoDrop, mainvars
    <2> QED BY <1>1, <2>1, <2>2, <2>3, <2>4 DEF FileStep
<1>2. CASE Begin
    BY <1>2 DEF Begin
<1>4. CASE GetQueue \/ Rescue \/ Reload
    BY <1>4 DEF GetQueue, Rescue, Reload
<1>3. CASE QuietStep
    <2>1. UNCHANGED <<made, out, now>>
        BY <1>3, QuietFacts DEF known
    <2>6. ASSUME NEW ok \in BOOLEAN, RunEnds(ok) PROVE Order'
        BY <2>1, <2>6 DEF RunEnds
    <2>2. CASE SetComplete \/ WaitFree \/ Join
        BY <2>1, <2>2 DEF SetComplete, WaitFree, Join
    <2>3. CASE Fails \/ Ends
        BY <2>1, <2>3 DEF Fails, Ends, covars
    <2>4. CASE CoLoop \/ CoPoll \/ CoPutEnds \/ CoFree \/ CoSend \/ CoDies
        BY <2>1, <2>4 DEF CoLoop, CoPoll, CoPutEnds, CoFree, CoSend, CoDies, mainvars
    <2>5. CASE UNCHANGED vars
        BY <2>1, <2>5 DEF vars, mainvars, covars
    <2> QED BY <1>3, <2>2, <2>3, <2>4, <2>5, <2>6 DEF QuietStep
<1> QED BY <1>1, <1>2, <1>3, <1>4, NextCases

LEMMA TypeStep == ASSUME TypeOK, Order, [Next]_vars PROVE TypeOK'
<1>1. ASSUME NEW f \in Files, FileStep(f) PROVE TypeOK'
    <2> USE DEF TypeOK, hist, comm, covars, mainvars
    <2>1. CASE MakePromise(f) \/ OutputPromise(f)
        <3>1. PutPromise(f)
            BY <2>1 DEF MakePromise, OutputPromise
        <3>2. mt' \in Trackers /\ prom' \subseteq Files /\ real' \subseteq Files
            BY <3>1, PutPromiseFacts DEF stores
        <3> QED BY <2>1, <3>2 DEF MakePromise, OutputPromise
    <2>2. CASE Produce(f)
        BY <2>2 DEF Produce, stores
    <2>3. CASE OutputFile(f)
        <3>1. mt' \in Trackers
            <4>1. PutNotified(mt, Real(f)) \in Trackers
                BY TrackerPut, UriFacts
            <4> QED BY <2>3, <4>1, TrackerDel, UriFacts DEF OutputFile
        <3> QED BY <2>3, <3>1, ZenonT(40) DEF OutputFile, stores, Stores
    <2>4. CASE Delete(f)
        <3>1. mt' \in Trackers
            <4>1. DelNotified(mt, Prom(f)) \in Trackers
                BY TrackerDel, UriFacts
            <4> QED BY <2>4, <4>1, TrackerDel, UriFacts DEF Delete
        <3> QED BY <2>4, <3>1 DEF Delete, stores
    <2>5. CASE CoPut(f)
        <3>1. ct' \in Trackers
            BY <2>5, TrackerPut, UriFacts DEF CoPut
        <3> QED BY <2>5, <3>1, UriFacts, ZenonT(40) DEF CoPut, stores, Stores
    <2>6. CASE CoDrop(f)
        <3>1. ct' \in Trackers
            BY <2>6, TrackerDel, UriFacts DEF CoDrop
        <3> QED BY <2>6, <3>1 DEF CoDrop, stores
    <2> QED BY <1>1, <2>1, <2>2, <2>3, <2>4, <2>5, <2>6 DEF FileStep
<1>2. CASE Begin
    BY <1>2 DEF Begin, TypeOK, stores, comm, hist
<1>3. CASE GetQueue
    <2>1. mt' \in Trackers
        BY <1>3, TrackerAppend DEF GetQueue, TypeOK
    <2> QED BY <1>3, <2>1 DEF GetQueue, TypeOK, stores, covars, comm
<1>4. CASE Rescue
    <2>1. mt' \in Trackers
        BY <1>4 DEF Rescue, TypeOK, Trackers
    <2> QED BY <1>4, <2>1 DEF Rescue, TypeOK, covars, comm, hist
<1>5. CASE Reload
    <2>1. mt' \in Trackers
        BY <1>5, TrackerReload DEF Reload, TypeOK
    <2> QED BY <1>5, <2>1 DEF Reload, TypeOK, stores, mainvars, covars, comm, hist
<1>6. CASE QuietStep
    <2> USE DEF TypeOK, hist, comm, covars, mainvars
    <2>1. UNCHANGED <<stores, known>>
        BY <1>6, QuietFacts
    <2>8. ASSUME NEW ok \in BOOLEAN, RunEnds(ok) PROVE TypeOK'
        BY <2>1, <2>8 DEF RunEnds, stores, known
    <2>2. CASE SetComplete \/ WaitFree \/ Join
        BY <2>1, <2>2, ZenonT(40) DEF SetComplete, WaitFree, Join, stores, known
    <2>3. CASE Fails \/ Ends
        BY <2>1, <2>3, ZenonT(40) DEF Fails, Ends, stores, known
    <2>4. CASE CoPoll
        BY <2>1, <2>4, ZenonT(40) DEF CoPoll, Order, stores, known
    <2>5. CASE CoLoop \/ CoPutEnds
        BY <2>1, <2>5, ZenonT(40) DEF CoLoop, CoPutEnds, stores, known
    <2>6. CASE CoFree \/ CoSend \/ CoDies
        BY <2>1, <2>6, ZenonT(40) DEF CoFree, CoSend, CoDies, stores, known
    <2>7. CASE UNCHANGED vars
        BY <2>1, <2>7 DEF vars, stores, known
    <2> QED BY <1>6, <2>2, <2>3, <2>4, <2>5, <2>6, <2>7, <2>8 DEF QuietStep
<1> QED BY <1>1, <1>2, <1>3, <1>4, <1>5, <1>6, NextCases

LEMMA KnowsStep ==
    ASSUME TypeOK, Order, KnowsItsFiles, OnlyPuts, [Next]_vars
    PROVE  KnowsItsFiles' /\ OnlyPuts'
<1> SUFFICES ASSUME NEW g \in Files
             PROVE  /\ Listed(mt, Prom(g))' => g \in made'
                    /\ Listed(mt, Real(g))' => g \in (made \cap local)'
                    /\ Listed(ct, Real(g))' => g \in (made \cap local)'
                    /\ (Real(g) \in rec \/ g \in now)' => g \in (made \cap local)'
                    /\ Prom(g) \notin rec'
    BY DEF KnowsItsFiles, OnlyPuts, Listed
<1> USE UriFacts DEF KnowsItsFiles, OnlyPuts, Listed, TypeOK, mainvars, covars
<1>1. ASSUME NEW f \in Files, FileStep(f)
      PROVE  /\ Listed(mt, Prom(g))' => g \in made'
             /\ Listed(mt, Real(g))' => g \in (made \cap local)'
             /\ Listed(ct, Real(g))' => g \in (made \cap local)'
             /\ (Real(g) \in rec \/ g \in now)' => g \in (made \cap local)'
             /\ Prom(g) \notin rec'
    <2>1. CASE MakePromise(f) \/ OutputPromise(f)
        <3>1. mt'.uris \subseteq mt.uris \cup {Prom(f)}
            BY <2>1, PutPromiseFacts DEF MakePromise, OutputPromise
        <3> QED BY <2>1, <3>1 DEF MakePromise, OutputPromise
    <2>2. CASE Produce(f)
        BY <2>2 DEF Produce
    <2>3. CASE OutputFile(f)
        <3>1. mt'.uris \subseteq mt.uris \cup {Real(f)}
            <4>1. /\ PutNotified(mt, Real(f)) \in Trackers
                  /\ PutNotified(mt, Real(f)).uris = mt.uris \cup {Real(f)}
                BY TrackerPut
            <4> QED BY <2>3, <4>1, TrackerDel DEF OutputFile
        <3> QED BY <2>3, <3>1 DEF OutputFile
    <2>4. CASE Delete(f)
        <3>1. mt'.uris \subseteq mt.uris
            <4>1. /\ DelNotified(mt, Prom(f)) \in Trackers
                  /\ DelNotified(mt, Prom(f)).uris \subseteq mt.uris
                BY TrackerDel
            <4> QED BY <2>4, <4>1, TrackerDel DEF Delete
        <3> QED BY <2>4, <3>1 DEF Delete
    <2>5. CASE CoPut(f)
        <3>1. ct'.uris \subseteq ct.uris \cup {Real(f)}
            BY <2>5, TrackerPut DEF CoPut
        <3>2. rec' \subseteq rec \cup {Real(f)} /\ now' \subseteq now \cup {f}
            BY <2>5 DEF CoPut
        <3> QED BY <2>5, <3>1, <3>2 DEF CoPut
    <2>6. CASE CoDrop(f)
        <3>1. ct'.uris \subseteq ct.uris
            BY <2>6, TrackerDel DEF CoDrop
        <3> QED BY <2>6, <3>1 DEF CoDrop
    <2> QED BY <1>1, <2>1, <2>2, <2>3, <2>4, <2>5, <2>6 DEF FileStep
<1>2. CASE Begin
    BY <1>2 DEF Begin
<1>3. CASE GetQueue
    <2>1. mt'.uris \subseteq mt.uris \cup rec
        BY <1>3, TrackerAppend DEF GetQueue
    <2> QED BY <1>3, <2>1 DEF GetQueue
<1>4. CASE Rescue
    <2>1. mt'.uris \subseteq mt.uris
        BY <1>4 DEF Rescue, Trackers
    <2> QED BY <1>4, <2>1 DEF Rescue
<1>5. CASE Reload
    BY <1>5, TrackerReload DEF Reload
<1>6. CASE QuietStep
    BY <1>6, QuietFacts DEF known
<1> QED BY <1>1, <1>2, <1>3, <1>4, <1>5, <1>6, NextCases

LEMMA PendingStep ==
    ASSUME TypeOK, Order, KnowsItsFiles, Pending, [Next]_vars
    PROVE  Pending'
<1> SUFFICES ASSUME NEW g \in Files, mpc' # "over", g \in made', g \in prom'
             PROVE  Prom(g) \in mt'.uris
    BY TypeStep DEF Pending, Listed, TypeOK
<1> USE UriFacts DEF Pending, Listed, TypeOK, mainvars, covars, stores
<1>1. ASSUME NEW f \in Files, FileStep(f) PROVE Prom(g) \in mt'.uris
    <2>1. CASE MakePromise(f) \/ OutputPromise(f)
        <3>1. /\ mt.uris \ {Real(f)} \subseteq mt'.uris /\ Prom(f) \in mt'.uris
              /\ f # g => (g \in prom' => g \in prom)
            BY <2>1, PutPromiseFacts DEF MakePromise, OutputPromise
        <3> QED BY <2>1, <3>1 DEF MakePromise, OutputPromise
    <2>2. CASE Produce(f)
        BY <2>2 DEF Produce
    <2>3. CASE OutputFile(f)
        <3>1. /\ PutNotified(mt, Real(f)) \in Trackers
              /\ PutNotified(mt, Real(f)).uris = mt.uris \cup {Real(f)}
            BY TrackerPut
        <3>2. mt.uris \ {Prom(f)} \subseteq mt'.uris \/ mt' = mt
            BY <2>3, <3>1, TrackerDel DEF OutputFile
        <3> QED BY <2>3, <3>2 DEF OutputFile
    <2>4. CASE Delete(f)
        <3>1. /\ DelNotified(mt, Prom(f)) \in Trackers
              /\ mt.uris \ {Prom(f)} \subseteq DelNotified(mt, Prom(f)).uris
            BY TrackerDel
        <3>2. mt.uris \ {Prom(f), Real(f)} \subseteq mt'.uris
            BY <2>4, <3>1, TrackerDel DEF Delete
        <3> QED BY <2>4, <3>2 DEF Delete
    <2>5. CASE CoPut(f) \/ CoDrop(f)
        BY <2>5 DEF CoPut, CoDrop
    <2> QED BY <1>1, <2>1, <2>2, <2>3, <2>4, <2>5 DEF FileStep
<1>2. CASE Begin
    BY <1>2 DEF Begin
<1>3. CASE GetQueue
    <2>1. mt.uris \subseteq mt'.uris
        BY <1>3, TrackerAppend DEF GetQueue
    <2> QED BY <1>3, <2>1 DEF GetQueue
<1>4. CASE Rescue
    BY <1>4 DEF Rescue
<1>5. CASE Reload
    BY <1>5, TrackerReload DEF Reload
<1>6. CASE QuietStep
    <2>1. mpc = "over" => mpc' = "over"
        BY <1>6 DEF QuietStep, RunEnds, SetComplete, WaitFree, Join, Fails, Ends, CoLoop,
            CoPoll, CoPutEnds, CoFree, CoSend, CoDies, vars
    <2> QED BY <1>6, <2>1, QuietFacts DEF known
<1> QED BY <1>1, <1>2, <1>3, <1>4, <1>5, <1>6, NextCases

\* A job that is over stays so
LEMMA OverStays ==
    ASSUME [Next]_vars, mpc = "over"
    PROVE  mpc' = "over" /\ failed' = failed /\ made' = made /\ prom' \subseteq prom
    BY DEF Next, Main, CoProcess, Stutter, MakePromise, Begin, Produce, RunEnds,
        SetComplete, WaitFree, GetQueue, Join, OutputFile, OutputPromise, Fails, Rescue,
        Reload, Delete, Ends, CoLoop, CoPoll, CoPut, CoDrop, CoPutEnds, CoFree, CoSend,
        CoDies, vars, stores, mainvars

LEMMA StillPromisedStep ==
    ASSUME TypeOK, Order, KnowsItsFiles, StillPromised, [Next]_vars
    PROVE  StillPromised'
<1> SUFFICES ASSUME NEW g \in Files, (mpc # "over" \/ ~failed)',
                    g \in made', g \notin local', g \notin deleted'
             PROVE  g \in prom'
    BY TypeStep DEF StillPromised, TypeOK
<1>0. mpc # "over" \/ ~failed
    BY OverStays
<1> USE <1>0 DEF StillPromised, TypeOK, mainvars, covars, stores
<1>1. ASSUME NEW f \in Files, FileStep(f) PROVE g \in prom'
    <2>1. CASE MakePromise(f)
        <3>1. prom \cup {f} \subseteq prom'
            BY <2>1, PutPromiseFacts DEF MakePromise, KnowsItsFiles
        <3> QED BY <2>1, <3>1 DEF MakePromise, hist
    <2>2. CASE OutputPromise(f)
        <3>1. prom \subseteq prom'
            BY <2>2, PutPromiseFacts DEF OutputPromise
        <3> QED BY <2>2, <3>1 DEF OutputPromise, hist
    <2>3. CASE Produce(f) \/ CoPut(f)
        BY <2>3 DEF Produce, CoPut, hist
    <2>4. CASE OutputFile(f) \/ Delete(f)
        BY <2>4 DEF OutputFile, Delete
    <2>5. CASE CoDrop(f)
        BY <2>5 DEF CoDrop, KnowsItsFiles, hist
    <2> QED BY <1>1, <2>1, <2>2, <2>3, <2>4, <2>5 DEF FileStep
<1>2. CASE Begin \/ GetQueue \/ Reload
    BY <1>2 DEF Begin, GetQueue, Reload, hist
<1>3. CASE Rescue
    BY <1>3 DEF Rescue, Order
<1>4. CASE QuietStep
    BY <1>4, QuietFacts DEF known
<1> QED BY <1>1, <1>2, <1>3, <1>4, NextCases

\* An output section that has nothing to put leaves the stores alone
LEMMA OutputPromiseFacts ==
    ASSUME TypeOK, StillPromised, NEW f \in Files, OutputPromise(f)
    PROVE  UNCHANGED stores
    BY PutPromiseFacts DEF OutputPromise, StillPromised, TypeOK

LEMMA ThereStep ==
    ASSUME TypeOK, Order, KnowsItsFiles, OnlyPuts, StillPromised, There, [Next]_vars
    PROVE  There'
<1> SUFFICES ASSUME NEW g \in Files, g \notin deleted'
             PROVE  /\ Real(g) \in mt'.uris => g \in real'
                    /\ Real(g) \in ct'.uris => g \in real'
                    /\ Real(g) \in rec' \/ g \in now' => g \in real'
    BY DEF There, Listed
<1> USE UriFacts DEF There, Listed, TypeOK, mainvars, covars, stores
<1>1. ASSUME NEW f \in Files, FileStep(f)
      PROVE  /\ Real(g) \in mt'.uris => g \in real'
             /\ Real(g) \in ct'.uris => g \in real'
             /\ Real(g) \in rec' \/ g \in now' => g \in real'
    <2>1. CASE MakePromise(f)
        <3>1. mt'.uris \subseteq mt.uris \cup {Prom(f)} /\ real \ {f} \subseteq real'
            BY <2>1, PutPromiseFacts DEF MakePromise
        <3>2. CASE g = f
            <4>1. Real(g) \notin mt.uris /\ Real(g) \notin ct.uris
                BY <2>1, <3>2 DEF MakePromise, KnowsItsFiles
            <4>2. Real(g) \notin rec /\ g \notin now
                BY <2>1, <3>2 DEF MakePromise, KnowsItsFiles
            <4> QED BY <2>1, <3>1, <4>1, <4>2 DEF MakePromise
        <3>3. CASE g # f
            BY <2>1, <3>1, <3>3 DEF MakePromise, hist
        <3> QED BY <3>2, <3>3
    <2>2. CASE OutputPromise(f)
        <3>1. mt'.uris \subseteq mt.uris \cup {Prom(f)} /\ real' = real
            BY <2>2, PutPromiseFacts, OutputPromiseFacts DEF OutputPromise
        <3> QED BY <2>2, <3>1 DEF OutputPromise, hist
    <2>3. CASE Produce(f)
        BY <2>3 DEF Produce, hist
    <2>4. CASE OutputFile(f)
        <3>1. /\ PutNotified(mt, Real(f)) \in Trackers
              /\ PutNotified(mt, Real(f)).uris = mt.uris \cup {Real(f)}
            BY TrackerPut
        <3>2. \/ mt'.uris \subseteq mt.uris /\ real' = real
              \/ mt'.uris \subseteq mt.uris \cup {Real(f)} /\ real' = real \cup {f}
            BY <2>4, <3>1, TrackerDel DEF OutputFile, Stores
        <3> QED BY <2>4, <3>2 DEF OutputFile
    <2>5. CASE Delete(f)
        <3>1. /\ DelNotified(mt, Prom(f)) \in Trackers
              /\ DelNotified(mt, Prom(f)).uris \subseteq mt.uris
            BY TrackerDel
        <3>2. mt'.uris \subseteq mt.uris
            BY <2>5, <3>1, TrackerDel DEF Delete
        <3> QED BY <2>5, <3>2 DEF Delete
    <2>6. CASE CoPut(f)
        <3> USE <2>6 DEF CoPut, Stores
        <3>1. CASE Listed(ct, Real(f)) /\ now' = {f} /\ UNCHANGED <<real, ct, rec>>
            BY <3>1
        <3>2. CASE Stores(f) /\ now' = {f} /\ ct' = PutNotified(ct, Real(f))
                   /\ rec' = rec \cup {Real(f)}
            BY <3>2, TrackerPut
        <3>3. CASE UNCHANGED <<real, now, ct, rec>>
            BY <3>3
        <3> QED BY <3>1, <3>2, <3>3
    <2>7. CASE CoDrop(f)
        <3>1. ct'.uris \subseteq ct.uris
            BY <2>7, TrackerDel DEF CoDrop
        <3> QED BY <2>7, <3>1 DEF CoDrop, hist
    <2> QED BY <1>1, <2>1, <2>2, <2>3, <2>4, <2>5, <2>6, <2>7 DEF FileStep
<1>2. CASE Begin
    BY <1>2 DEF Begin, hist
<1>3. CASE GetQueue
    <2>1. mt'.uris \subseteq mt.uris \cup rec
        BY <1>3, TrackerAppend DEF GetQueue
    <2> QED BY <1>3, <2>1 DEF GetQueue
<1>4. CASE Rescue
    <2>1. mt'.uris \subseteq mt.uris
        BY <1>4 DEF Rescue, Trackers
    <2> QED BY <1>4, <2>1 DEF Rescue, hist
<1>5. CASE Reload
    BY <1>5, TrackerReload DEF Reload, hist
<1>6. CASE QuietStep
    BY <1>6, QuietFacts DEF known
<1> QED BY <1>1, <1>2, <1>3, <1>4, <1>5, <1>6, NextCases

LEMMA NeverGoneStep ==
    ASSUME TypeOK, Order, KnowsItsFiles, StillPromised, There, NeverGone, [Next]_vars
    PROVE  NeverGone'
<1> SUFFICES ASSUME NEW g \in Files, (mpc # "over" \/ ~failed)',
                    g \in made', g \notin deleted'
             PROVE  g \in prom' \/ g \in real'
    BY TypeStep DEF NeverGone, TypeOK
<1>0. mpc # "over" \/ ~failed
    BY OverStays
<1> USE <1>0 DEF NeverGone, TypeOK, mainvars, covars, stores
<1>1. ASSUME NEW f \in Files, FileStep(f) PROVE g \in prom' \/ g \in real'
    <2>1. CASE MakePromise(f)
        <3>1. prom \cup {f} \subseteq prom' /\ real \ {f} \subseteq real'
            BY <2>1, PutPromiseFacts DEF MakePromise, KnowsItsFiles
        <3> QED BY <2>1, <3>1 DEF MakePromise, hist
    <2>2. CASE OutputPromise(f)
        BY <2>2, OutputPromiseFacts DEF OutputPromise, hist
    <2>3. CASE Produce(f) \/ CoPut(f)
        BY <2>3 DEF Produce, CoPut, Stores, hist
    <2>4. CASE OutputFile(f)
        <3>1. f \notin deleted
            BY <2>4 DEF OutputFile
        <3>2. \/ UNCHANGED stores
              \/ prom' = prom \ {f} /\ f \in real' /\ real \subseteq real'
            BY <2>4, <3>1 DEF OutputFile, Stores, There
        <3> QED BY <2>4, <3>2 DEF OutputFile
    <2>5. CASE Delete(f)
        BY <2>5 DEF Delete
    <2>6. CASE CoDrop(f)
        BY <2>6 DEF CoDrop, There, hist
    <2> QED BY <1>1, <2>1, <2>2, <2>3, <2>4, <2>5, <2>6 DEF FileStep
<1>2. CASE Begin \/ GetQueue \/ Reload
    BY <1>2 DEF Begin, GetQueue, Reload, hist
<1>3. CASE Rescue
    BY <1>3 DEF Rescue, Order
<1>4. CASE QuietStep
    BY <1>4, QuietFacts DEF known
<1> QED BY <1>1, <1>2, <1>3, <1>4, NextCases

LEMMA OutDoneStep ==
    ASSUME TypeOK, Order, StillPromised, There, OutDone, [Next]_vars
    PROVE  OutDone'
<1> SUFFICES ASSUME NEW g \in Files, g \in out', g \in local', g \notin deleted'
             PROVE  g \in real' /\ g \notin prom'
    BY TypeStep DEF OutDone, TypeOK
<1> USE DEF OutDone, TypeOK, mainvars, covars, stores
<1>1. ASSUME NEW f \in Files, FileStep(f) PROVE g \in real' /\ g \notin prom'
    <2>1. CASE MakePromise(f)
        <3>1. prom' \subseteq prom \cup {f} /\ real \ {f} \subseteq real'
            BY <2>1, PutPromiseFacts DEF MakePromise
        <3> QED BY <2>1, <3>1 DEF MakePromise, hist
    <2>2. CASE OutputPromise(f)
        BY <2>2, OutputPromiseFacts DEF OutputPromise, hist
    <2>3. CASE Produce(f)
        BY <2>3 DEF Produce, Order
    <2>4. CASE OutputFile(f)
        <3>1. f \notin deleted
            BY <2>4 DEF OutputFile
        <3>2. \/ UNCHANGED <<stores, out>>
              \/ /\ prom' = prom \ {f} /\ f \in real' /\ real \subseteq real'
                 /\ out' = out \cup {f}
            BY <2>4, <3>1 DEF OutputFile, Stores, There
        <3> QED BY <2>4, <3>2 DEF OutputFile
    <2>5. CASE Delete(f)
        BY <2>5 DEF Delete
    <2>6. CASE CoPut(f) \/ CoDrop(f)
        BY <2>6 DEF CoPut, CoDrop, Stores, hist
    <2> QED BY <1>1, <2>1, <2>2, <2>3, <2>4, <2>5, <2>6 DEF FileStep
<1>2. CASE Begin \/ GetQueue \/ Reload \/ Rescue
    BY <1>2 DEF Begin, GetQueue, Reload, Rescue, hist
<1>3. CASE QuietStep
    BY <1>3, QuietFacts DEF known
<1> QED BY <1>1, <1>2, <1>3, NextCases

LEMMA ClearedStep ==
    ASSUME TypeOK, Order, Pending, Cleared, [Next]_vars
    PROVE  Cleared'
<1> SUFFICES ASSUME mpc' = "over", failed' PROVE made' \cap prom' = {}
    BY DEF Cleared
<1>1. CASE mpc = "over"
    BY <1>1, OverStays DEF Cleared
<1>2. CASE mpc # "over"
    <2>1. Rescue
        BY <1>2 DEF Order, Next, Main, CoProcess, Stutter, MakePromise, Begin, Produce,
            RunEnds, SetComplete, WaitFree, GetQueue, Join, OutputFile, OutputPromise,
            Fails, Reload, Delete, Ends, CoLoop, CoPoll, CoPut, CoDrop, CoPutEnds,
            CoFree, CoSend, CoDies, vars, mainvars
    <2> QED BY <1>2, <2>1 DEF Rescue, Pending, TypeOK
<1> QED BY <1>1, <1>2

-----------------------------------------------------------------------------
LEMMA Initially == Init => IInv
<1> SUFFICES ASSUME Init PROVE IInv
    OBVIOUS
<1> USE DEF Init, NoTracker
<1>1. TypeOK
    BY DEF TypeOK, Trackers
<1>2. Order /\ OnlyPuts /\ Pending /\ StillPromised /\ OutDone /\ Cleared
    BY DEF Order, OnlyPuts, Pending, StillPromised, OutDone, Cleared
<1>3. KnowsItsFiles /\ There /\ NeverGone
    BY DEF KnowsItsFiles, There, NeverGone, Listed
<1> QED BY <1>1, <1>2, <1>3 DEF IInv

LEMMA IInvStep == IInv /\ [Next]_vars => IInv'
    BY TypeStep, OrderStep, KnowsStep, PendingStep, StillPromisedStep, ThereStep,
       NeverGoneStep, OutDoneStep, ClearedStep DEF IInv

LEMMA IInvAlways == Spec => []IInv
    BY Initially, IInvStep, PTL DEF Spec

\* The types of the state, for any set of files.
THEOREM TypeCorrect == Spec => []TypeOK
<1>1. IInv => TypeOK
    BY DEF IInv
<1> QED BY <1>1, IInvAlways, PTL

\* For any set of files, whatever the co-process does before it dies, a promised file
\* is found as a promise or as a file until the job fails or deletes it.
THEOREM PromisedIsNeverGone == Spec => []NeverGone
<1>1. IInv => NeverGone
    BY DEF IInv
<1> QED BY <1>1, IInvAlways, PTL

\* A put is skipped only when the file is in the cache, unless it was deleted.
THEOREM FilterIsSafe == Spec => []SkippedIsThere
<1>1. IInv => SkippedIsThere
    BY DEF IInv, There, SkippedIsThere
<1> QED BY <1>1, IInvAlways, PTL

\* A job that succeeds leaves what it has produced and no promise of it; one that
\* fails leaves no promise.
THEOREM JobsEndWell == Spec => []WellEnded
<1>1. IInv => WellEnded
    <2> SUFFICES ASSUME IInv, mpc = "over"
                 PROVE  IF failed THEN made \cap prom = {}
                        ELSE \A f \in (made \cap local) \ deleted : f \in real \ prom
        BY DEF WellEnded
    <2>1. CASE failed
        BY <2>1 DEF IInv, Cleared
    <2>2. CASE ~failed
        BY <2>2 DEF IInv, Order, OutDone
    <2> QED BY <2>1, <2>2
<1> QED BY <1>1, IInvAlways, PTL

=================================================================================

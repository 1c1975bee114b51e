------------------------------ MODULE InputsProofs ------------------------------
(***************************************************************************)
(* Safety proofs about the input sections of a job, for any script: any    *)
(* number of sections, of files, of coherent groups, any alternates.       *)
(***************************************************************************)
EXTENDS Inputs, TLAPS

Typed ==
    /\ cur \in 0..N /\ step \in {1, 2}
    /\ DOMAIN stage = Sections /\ DOMAIN open = Sections
    /\ DOMAIN file = Files /\ DOMAIN track = Files

\* The script has done nothing yet of the sections that come, nor of the current one
Doing == pc \in {"quick", "get"}
Ahead(s) == s > cur \/ (s = cur /\ Doing)
Fresh ==
    /\ \A s \in Sections : Ahead(s) => stage[s] = "load"
    /\ Doing => cur \in Sections
    /\ pc = "quick" => step = 2

\* The tracker knows the handler of a data file, and none of any other file
Exact == \A f \in Files : IF file[f][1] = "data" THEN file[f] = <<"data", track[f]>> ELSE track[f] = None

Live(s) == stage[s] \in {"get", "expected"}

\* In the first step: what is there was fetched by a section of the script, a section
\* that is an input has its file, alone
Untouched == \A f \in Files : file[f] # Nothing => \E s \in Pushed : File[s] = f /\ ~Ahead(s)
Single ==
    /\ \A s \in Pushed : Live(s) => HasFile(s)
    /\ \A s, t \in Pushed : Live(s) /\ Live(t) /\ File[s] = File[t] => s = t

\* ... a section knows which of its groups are open, the members of a closed one have
\* been cleared
Linked ==
    /\ \A s \in Pushed : open[s] = Groups[s] \cap openings
    /\ \A s \in Pushed : Live(s) => Groups[s] = {} \/ open[s] # {}
    /\ \A s \in Pushed : stage[s] = "void" => Groups[s] \cap openings = {}

\* ... and a data file is that of an input
NoStray ==
    \A f \in Files : file[f][1] = "data" =>
        \E s \in Pushed : File[s] = f /\ Rh[s] = file[f][2] /\ stage[s] = "get"

FirstStep == step = 1 => Untouched /\ Single /\ Linked /\ OwnFile /\ NoStray

IInv == Typed /\ Fresh /\ Exact /\ FirstStep
--------------------------------------------------------------------------------
(***************************************************************************)
(* What the closing of groups does.                                        *)
(***************************************************************************)
LEMMA Closing ==
    ASSUME Typed, cur \in Sections, NEW gone, BecomesVoid(gone)
    PROVE  /\ DOMAIN stage' = Sections /\ DOMAIN open' = Sections
           /\ DOMAIN file' = Files /\ DOMAIN track' = Files
           /\ openings' = openings \ Groups[cur]
           /\ \A s \in Pushed : open'[s] = open[s] \ (Groups[cur] \cap openings)
           /\ stage'[cur] = "void"
           /\ \A s \in Cleared(open') : stage'[s] = "checked" /\ file'[File[s]] = Nothing
           /\ \A s \in Sections \ {cur} : s \notin Cleared(open') => stage'[s] = stage[s]
           /\ \A f \in Files : \/ file'[f] = file[f] /\ track'[f] = track[f]
                               \/ /\ file'[f] = Nothing /\ track'[f] = None
                                  /\ f \in gone \/ \E s \in Cleared(open') : File[s] = f
<1> DEFINE C == Cleared(open')
           lost == gone \cup {File[s] : s \in C}
<1>1. /\ openings' = openings \ Groups[cur]
      /\ open' = [s \in Sections |->
                    IF s \in Pushed THEN open[s] \ (Groups[cur] \cap openings) ELSE open[s]]
      /\ stage' = [s \in Sections |-> IF s = cur THEN "void" ELSE IF s \in C THEN "checked" ELSE stage[s]]
      /\ file' = [f \in Files |-> IF f \in lost THEN Nothing ELSE file[f]]
      /\ track' = [f \in Files |-> IF f \in lost THEN None ELSE track[f]]
    BY DEF BecomesVoid, Vanish
<1>2. C \subseteq Pushed \ {cur} /\ Pushed \subseteq Sections
    BY NAssumption DEF Cleared, Pushed, Sections, Typed
<1>3. \A s \in C : File[s] \in Files /\ File[s] \in lost
    BY <1>2 DEF Files
<1>4. \A f \in lost : f \in gone \/ \E s \in C : File[s] = f
    OBVIOUS
<1> HIDE DEF C, lost
<1> QED BY <1>1, <1>2, <1>3, <1>4 DEF C

\* Who is cleared
LEMMA ClearedOnes ==
    ASSUME NEW left, NEW s \in Cleared(left)
    PROVE  s \in Pushed /\ s # cur /\ Live(s) /\ left[s] = {} /\ Groups[s] \cap Groups[cur] # {}
BY DEF Cleared, Live

LEMMA Basics ==
    ASSUME IInv
    PROVE  /\ cur \in 0..N /\ Pushed \subseteq Sections
           /\ \A s \in Sections : File[s] \in Files
           /\ \A s \in Sections : s \in Pushed <=> s <= cur
           /\ Doing => cur \in Pushed /\ stage[cur] = "load"
<1>1. N \in Nat
    BY NAssumption
<1> QED BY <1>1 DEF IInv, Typed, Fresh, Pushed, Sections, Files, Ahead

--------------------------------------------------------------------------------
(***************************************************************************)
(* A section goes to its store.                                            *)
(***************************************************************************)
\* No input has the file that is about to be fetched
Free == \A s \in Pushed : Live(s) => File[s] # File[cur]
Ready == pc = "get" /\ track[File[cur]] = None /\ AnyOpen(cur, open) /\ (step = 1 => Free)

\* Once the current section is done with
Done == UNCHANGED <<step, cur>> /\ pc' \in {"script", "raised"}

LEMMA VoidKeeps ==
    ASSUME IInv, pc = "get", Done, NEW gone, gone \subseteq {File[cur]}, BecomesVoid(gone),
           step = 1 /\ gone # {} => Free
    PROVE  IInv'
<1> USE DEF Done
<1>0. cur \in Pushed /\ cur \in Sections /\ Typed
    BY Basics DEF IInv, Doing
<1>1. Typed'
    BY <1>0, Closing DEF Typed
<1>2. Pushed' = Pushed /\ ~Doing' /\ \A s \in Sections : Ahead(s)' => Ahead(s) /\ s # cur
    BY Basics, NAssumption DEF Pushed, Doing, Ahead, Sections
<1>3. \A s \in Sections : \/ s = cur /\ stage'[s] = "void"
                          \/ s \in Cleared(open') /\ stage'[s] = "checked"
                          \/ s # cur /\ s \notin Cleared(open') /\ stage'[s] = stage[s]
    BY <1>0, Closing
<1>4. Fresh'
    <2>1. \A s \in Cleared(open') : stage[s] # "load" /\ s \in Sections
        BY Basics, ClearedOnes DEF Live
    <2> QED BY <1>2, <1>3, <2>1 DEF IInv, Fresh
<1>5. \A f \in Files : \/ file'[f] = file[f] /\ track'[f] = track[f]
                       \/ /\ file'[f] = Nothing /\ track'[f] = None
                          /\ f \in gone \/ \E s \in Cleared(open') : File[s] = f
    BY <1>0, Closing
<1>6. Exact'
    BY <1>5 DEF IInv, Exact, Nothing
<1>7. ASSUME step = 1
      PROVE  Untouched' /\ Single' /\ Linked' /\ OwnFile' /\ NoStray'
    <2>1. Untouched /\ Single /\ Linked /\ OwnFile /\ NoStray
        BY <1>7 DEF IInv, FirstStep
    <2>2. Untouched'
        BY <1>2, <1>5, <2>1, Basics DEF Untouched
    <2>3. \A s \in Pushed : Live(s)' => Live(s) /\ s \notin Cleared(open') /\ s # cur /\ stage'[s] = stage[s]
        BY <1>3, Basics DEF Live
    <2>4. \A s \in Pushed : Live(s)' => file'[File[s]] = file[File[s]]
        <3> SUFFICES ASSUME NEW s \in Pushed, Live(s)', file'[File[s]] # file[File[s]]
                     PROVE  FALSE
            OBVIOUS
        <3>1. File[s] \in gone \/ \E t \in Cleared(open') : File[t] = File[s]
            BY <1>5, Basics
        <3>2. File[s] \notin gone
            BY <1>7, <2>3 DEF Free
        <3>3. PICK t \in Cleared(open') : File[t] = File[s]
            BY <3>1, <3>2
        <3>4. t \in Pushed /\ Live(t)
            BY ClearedOnes
        <3>5. t = s
            BY <2>1, <2>3, <3>3, <3>4 DEF Single
        <3> QED BY <2>3, <3>5
    <2>5. Single'
        BY <1>2, <2>1, <2>3, <2>4 DEF Single, HasFile
    <2>6. /\ openings' = openings \ Groups[cur]
          /\ \A s \in Pushed : open'[s] = open[s] \ (Groups[cur] \cap openings)
        BY <1>0, Closing
    <2>7. Linked'
        <3>1. \A s \in Pushed : open'[s] = Groups[s] \cap openings'
            BY <2>1, <2>6 DEF Linked
        <3>2. ASSUME NEW s \in Pushed, Live(s)', Groups[s] # {}, open'[s] = {}
              PROVE  FALSE
            <4>1. open[s] # {} /\ open[s] = Groups[s] \cap openings
                BY <2>1, <2>3, <3>2 DEF Linked
            <4>2. Groups[s] \cap Groups[cur] \cap openings # {}
                BY <2>6, <3>2, <4>1
            <4>3. s \in Cleared(open')
                BY <2>3, <3>2, <4>2 DEF Cleared, Live
            <4> QED BY <2>3, <3>2, <4>3
        <3>3. \A s \in Pushed : stage'[s] = "void" => Groups[s] \cap openings' = {}
            BY <1>3, <2>1, <2>6, Basics DEF Linked
        <3> QED BY <1>2, <3>1, <3>2, <3>3 DEF Linked
    <2>8. OwnFile'
        BY <1>2, <2>1, <2>3, <2>4 DEF OwnFile, HasFile, Live
    <2>9. NoStray'
        <3> SUFFICES ASSUME NEW f \in Files, file'[f][1] = "data"
                     PROVE  \E s \in Pushed : File[s] = f /\ Rh[s] = file'[f][2] /\ stage'[s] = "get"
            BY <1>2 DEF NoStray
        <3>1. file'[f] = file[f] /\ file[f] # Nothing
            BY <1>5 DEF Nothing
        <3>2. PICK s \in Pushed : File[s] = f /\ Rh[s] = file[f][2] /\ stage[s] = "get"
            BY <2>1, <3>1 DEF NoStray
        <3>3. s # cur /\ s \in Sections
            BY <3>2, Basics DEF Doing
        <3>4. s \notin Cleared(open')
            BY <1>0, <3>1, <3>2, Closing
        <3> QED BY <1>3, <3>1, <3>2, <3>3, <3>4
    <2> QED BY <2>2, <2>5, <2>7, <2>8, <2>9
<1> QED BY <1>1, <1>4, <1>6, <1>7 DEF IInv, FirstStep

\* The store gives the data or, for an expected resource, a promise
LEMMA GivenKeeps ==
    ASSUME IInv, Ready, Done, NEW st \in {"get", "expected"}, Becomes(st),
           \/ /\ st = "get"
              /\ file' = [file EXCEPT ![File[cur]] = <<"data", Rh[cur]>>]
              /\ track' = [track EXCEPT ![File[cur]] = Rh[cur]]
           \/ /\ st = "expected"
              /\ file' = [file EXCEPT ![File[cur]] = <<"promise", Rh[cur]>>]
              /\ UNCHANGED track
    PROVE  IInv'
<1> USE DEF Done
<1>0. cur \in Pushed /\ cur \in Sections /\ File[cur] \in Files /\ Typed
    BY Basics DEF IInv, Doing, Ready
<1>1. Typed'
    BY <1>0 DEF Typed, Becomes
<1>2. Pushed' = Pushed /\ ~Doing' /\ \A s \in Sections : Ahead(s)' => Ahead(s) /\ s # cur
    BY Basics, NAssumption DEF Pushed, Doing, Ahead, Sections
<1>3. /\ stage'[cur] = st /\ \A s \in Sections \ {cur} : stage'[s] = stage[s]
      /\ UNCHANGED <<open, openings>>
    BY <1>0 DEF Becomes, Typed
<1>4. Fresh'
    BY <1>2, <1>3 DEF IInv, Fresh
<1>5. /\ file'[File[cur]] = (IF st = "get" THEN <<"data", Rh[cur]>> ELSE <<"promise", Rh[cur]>>)
      /\ track'[File[cur]] = (IF st = "get" THEN Rh[cur] ELSE None)
      /\ \A f \in Files \ {File[cur]} : file'[f] = file[f] /\ track'[f] = track[f]
    BY <1>0 DEF Typed, Ready
<1>6. Exact'
    BY <1>5 DEF IInv, Exact
<1>7. ASSUME step = 1
      PROVE  Untouched' /\ Single' /\ Linked' /\ OwnFile' /\ NoStray'
    <2>1. Untouched /\ Single /\ Linked /\ OwnFile /\ NoStray /\ Free
        BY <1>7 DEF IInv, FirstStep, Ready
    <2>2. Untouched'
        <3>1. ~Ahead(cur)'
            BY <1>0, <1>2 DEF Pushed, Ahead
        <3> QED BY <1>0, <1>2, <1>5, <2>1, <3>1, Basics DEF Untouched
    <2>3. \A s \in Pushed \ {cur} : Live(s)' => Live(s) /\ File[s] # File[cur] /\ stage'[s] = stage[s]
        BY <1>3, <2>1, Basics DEF Live, Free
    <2>4. Single'
        <3>1. HasFile(cur)'
            BY <1>5 DEF HasFile, Nothing
        <3>2. \A s \in Pushed \ {cur} : Live(s)' => HasFile(s)'
            BY <1>5, <2>1, <2>3, Basics DEF Single, HasFile
        <3> QED BY <1>2, <2>1, <2>3, <3>1, <3>2 DEF Single
    <2>5. Linked'
        <3>1. Groups[cur] = {} \/ open[cur] # {}
            BY DEF Ready, AnyOpen
        <3> QED BY <1>2, <1>3, <2>1, <2>3, <3>1, Basics DEF Linked, Live
    <2>6. OwnFile'
        BY <1>2, <1>3, <1>5, <2>1, <2>3, Basics DEF OwnFile, HasFile, Live
    <2>7. NoStray'
        <3>1. st # "get" => file'[File[cur]][1] # "data"
            BY <1>5
        <3>2. st = "get" => file'[File[cur]][2] = Rh[cur]
            BY <1>5
        <3>3. \A s \in Pushed : stage[s] = "get" => s # cur /\ s \in Sections
            BY <1>0, Basics DEF Ready, Doing
        <3> QED BY <1>0, <1>2, <1>3, <1>5, <2>1, <3>1, <3>2, <3>3 DEF NoStray
    <2> QED BY <2>2, <2>4, <2>5, <2>6, <2>7
<1> QED BY <1>1, <1>4, <1>6, <1>7 DEF IInv, FirstStep

LEMMA FetchKeeps ==
    ASSUME IInv, Ready, Fetch, UNCHANGED <<step, cur>>
    PROVE  IInv'
<1>1. Done /\ pc = "get"
    BY DEF Fetch, Succeeded, Failed, Done, Ready
<1>2. CASE /\ file' = [file EXCEPT ![File[cur]] = <<"data", Rh[cur]>>]
           /\ track' = [track EXCEPT ![File[cur]] = Rh[cur]]
           /\ Becomes("get")
    BY <1>1, <1>2, GivenKeeps
<1>3. CASE /\ file' = [file EXCEPT ![File[cur]] = <<"promise", Rh[cur]>>]
           /\ UNCHANGED track /\ Becomes("expected")
    BY <1>1, <1>3, GivenKeeps
<1>4. CASE BecomesVoid({}) \/ BecomesVoid({File[cur]})
    BY <1>1, <1>4, VoidKeeps DEF Ready
<1> QED BY <1>2, <1>3, <1>4 DEF Fetch

--------------------------------------------------------------------------------
(***************************************************************************)
(* The other operations.                                                   *)
(***************************************************************************)
\* A section without a fetch: a quick get, a closed group, an alternate not needed
LEMMA LeftKeeps ==
    ASSUME IInv, Doing, UNCHANGED <<step, cur, seqvars, dirvars>>,
           pc' \in {"script", "get", "raised"}
    PROVE  IInv'
<1>1. Pushed' = Pushed /\ \A s \in Sections : Ahead(s)' => Ahead(s)
    BY DEF Pushed, Ahead, Doing
<1>2. Typed' /\ Exact'
    BY DEF IInv, Typed, Exact, seqvars, dirvars
<1>3. Fresh'
    BY <1>1, Basics DEF IInv, Fresh, seqvars, Doing
<1>4. ASSUME step = 1
      PROVE  Untouched' /\ Single' /\ Linked' /\ OwnFile' /\ NoStray'
    <2>1. Untouched /\ Single /\ Linked /\ OwnFile /\ NoStray
        BY <1>4 DEF IInv, FirstStep
    <2>2. Untouched'
        BY <1>1, <2>1, Basics DEF Untouched, dirvars
    <2> QED BY <1>1, <2>1, <2>2 DEF Single, Linked, OwnFile, NoStray, Live, HasFile, seqvars, dirvars
<1> QED BY <1>2, <1>3, <1>4 DEF IInv, FirstStep

LEMMA PushKeeps ==
    ASSUME IInv, Push
    PROVE  IInv'
<1> USE DEF Push, dirvars
<1>1. cur + 1 \in Sections /\ cur' \in Sections /\ cur' = cur + 1 /\ cur \in Nat
    BY NAssumption DEF IInv, Typed, Sections
<1>2. /\ Pushed' = Pushed \cup {cur'} /\ cur' \notin Pushed
      /\ \A s \in Sections : Ahead(s)' => Ahead(s)
      /\ \A s \in Pushed : ~Ahead(s)'
    BY <1>1, NAssumption DEF Pushed, Ahead, Sections, Doing
<1>3. stage' = stage /\ stage[cur'] = "load"
    BY <1>1, NAssumption DEF IInv, Fresh, Ahead, Typed, Sections
<1>4. /\ DOMAIN open' = Sections /\ open'[cur'] = Groups[cur'] \cap openings
      /\ \A s \in Sections \ {cur'} : open'[s] = open[s]
    BY <1>1 DEF IInv, Typed
<1>5. Typed'
    BY <1>1, <1>3, <1>4, NAssumption DEF IInv, Typed, Sections
<1>6. Fresh'
    BY <1>1, <1>2, <1>3 DEF IInv, Fresh
<1>7. Exact'
    BY DEF IInv, Exact
<1>8. ASSUME step = 1
      PROVE  Untouched' /\ Single' /\ Linked' /\ OwnFile' /\ NoStray'
    <2>1. Untouched /\ Single /\ Linked /\ OwnFile /\ NoStray
        BY <1>8 DEF IInv, FirstStep
    <2>2. ~Live(cur') /\ stage[cur'] # "void"
        BY <1>3 DEF Live
    <2>3. Untouched'
        BY <1>2, <2>1 DEF Untouched
    <2>4. Single' /\ OwnFile'
        BY <1>2, <1>3, <2>1, <2>2 DEF Single, OwnFile, Live, HasFile
    <2>5. Linked'
        BY <1>2, <1>3, <1>4, <2>1, <2>2, Basics DEF Linked, Live
    <2>6. NoStray'
        BY <1>2, <1>3, <2>1 DEF NoStray
    <2> QED BY <2>3, <2>4, <2>5, <2>6
<1> QED BY <1>5, <1>6, <1>7, <1>8 DEF IInv, FirstStep

\* In the first step, only a section whose file is missing is fetched: that of an
\* alternate by the test, that of a nominal because nobody before it has its file
LEMMA Missing ==
    ASSUME IInv, pc = "get", step = 1, ~(cur \in Alternates /\ HasFile(cur))
    PROVE  ~HasFile(cur)
<1> SUFFICES ASSUME cur \notin Alternates, HasFile(cur)
             PROVE  FALSE
    OBVIOUS
<1>1. cur \in Sections /\ Untouched
    BY Basics DEF IInv, FirstStep, Doing
<1>2. PICK s \in Pushed : File[s] = File[cur] /\ ~Ahead(s)
    BY <1>1, Basics DEF Untouched, HasFile
<1>3. s \in Sections /\ s < cur
    BY <1>1, <1>2, Basics, NAssumption DEF Ahead, Doing, Sections
<1> QED BY <1>1, <1>2, <1>3, FileAssumption

LEMMA Lacking ==
    ASSUME IInv, pc = "get", ~HasFile(cur)
    PROVE  track[File[cur]] = None /\ (step = 1 => Free)
<1>1. cur \in Sections /\ File[cur] \in Files
    BY Basics DEF Doing
<1>2. track[File[cur]] = None
    BY <1>1 DEF IInv, Exact, HasFile, Nothing
<1> QED BY <1>2 DEF IInv, FirstStep, Single, Free, HasFile

LEMMA GetKeeps ==
    ASSUME IInv, Get
    PROVE  IInv'
<1>1. CASE Failed /\ UNCHANGED <<seqvars, dirvars>>
    BY <1>1, LeftKeeps DEF Get, Failed, Doing
<1>2. CASE Succeeded /\ UNCHANGED <<seqvars, dirvars>>
    BY <1>2, LeftKeeps DEF Get, Succeeded, Doing
<1>3. CASE Fetch /\ AnyOpen(cur, open) /\ ~(cur \in Alternates /\ HasFile(cur))
    BY <1>3, Missing, Lacking, FetchKeeps DEF Get, Ready
<1> QED BY <1>1, <1>2, <1>3 DEF Get

LEMMA GetInSituKeeps ==
    ASSUME IInv, GetInSitu
    PROVE  IInv'
<1>1. CASE Failed /\ UNCHANGED <<seqvars, dirvars>>
    BY <1>1, LeftKeeps DEF GetInSitu, Failed, Doing
<1>2. CASE Failed /\ BecomesVoid({})
    BY <1>2, VoidKeeps DEF GetInSitu, Failed, Done
<1>3. CASE AnyOpen(cur, open) /\ ~Tracked(cur) /\ Fetch
    <2>1. track[File[cur]] = None
        BY <1>3, Lacking DEF Tracked, GetInSitu
    <2> QED BY <1>3, <2>1, FetchKeeps DEF GetInSitu, Ready
<1> QED BY <1>1, <1>2, <1>3 DEF GetInSitu

LEMMA QuickGetKeeps ==
    ASSUME IInv, QuickGet
    PROVE  IInv'
<1>1. CASE UNCHANGED seqvars
    BY <1>1, LeftKeeps DEF QuickGet, Succeeded, Doing
<1>2. CASE Becomes("get") /\ Succeeded
    <2>1. /\ UNCHANGED <<step, cur, file, track, open>> /\ pc' = "script" /\ step = 2
          /\ stage' = [stage EXCEPT ![cur] = "get"]
        BY <1>2 DEF QuickGet, Becomes, Succeeded, dirvars, IInv, Fresh
    <2>2. \A s \in Sections : Ahead(s)' => Ahead(s) /\ s # cur
        BY <2>1, Basics, NAssumption DEF Ahead, Doing, Sections, QuickGet
    <2>3. Typed' /\ Exact'
        BY <2>1 DEF IInv, Typed, Exact
    <2>4. Fresh'
        BY <2>1, <2>2 DEF IInv, Fresh, Doing, Typed
    <2> QED BY <2>1, <2>3, <2>4 DEF IInv, FirstStep
<1> QED BY <1>1, <1>2 DEF QuickGet

LEMMA Starts ==
    Init => IInv
<1> SUFFICES ASSUME Init
             PROVE  IInv
    OBVIOUS
<1>1. Pushed = {}
    BY DEF Init, Pushed
<1>2. Typed
    BY NAssumption, SectionAssumption DEF Init, Typed
<1>3. Fresh /\ Exact
    BY DEF Init, Fresh, Exact, Doing, Nothing
<1>4. Untouched /\ Single /\ Linked /\ OwnFile /\ NoStray
    BY <1>1 DEF Init, Untouched, Single, Linked, OwnFile, NoStray, Nothing
<1> QED BY <1>2, <1>3, <1>4 DEF IInv, FirstStep

LEMMA IInvKept ==
    IInv /\ [Next]_vars => IInv'
<1> SUFFICES ASSUME IInv, [Next]_vars
             PROVE  IInv'
    OBVIOUS
<1>1. CASE Push
    BY <1>1, PushKeeps
<1>2. CASE Get
    BY <1>2, GetKeeps
<1>3. CASE QuickGet
    BY <1>3, QuickGetKeeps
<1>4. CASE GetInSitu
    BY <1>4, GetInSituKeeps
<1>5. CASE NextStep
    <2>1. DOMAIN Groups = Sections /\ 0 \in 0..N
        BY NAssumption, SectionAssumption
    <2> QED BY <1>5, <2>1 DEF NextStep, IInv, Typed, Fresh, Exact, FirstStep, Doing, dirvars
<1>6. CASE UNCHANGED vars
    BY <1>6 DEF vars, seqvars, dirvars, IInv, Typed, Fresh, Exact, FirstStep, Doing, Ahead, Live,
                Untouched, Single, Linked, OwnFile, NoStray, HasFile, Pushed
<1> QED BY <1>1, <1>2, <1>3, <1>4, <1>5, <1>6 DEF Next, Stutter

LEMMA IInvAlways ==
    Spec => []IInv
BY Starts, IInvKept, PTL DEF Spec

\* The tracker never takes a promise for data: it knows the handler that fetched each
\* data file, has no get for a promise, and forgets the file that a closed group or a
\* failed check removes.
THEOREM TrackerIsExact ==
    Spec => []TrackerKnows
<1>1. IInv => TrackerKnows
    BY DEF IInv, Exact, TrackerKnows
<1> QED BY <1>1, IInvAlways, PTL

\* In the first step, whatever groups the sections share and wherever the script
\* stops, an input has a group none of whose members has failed.
THEOREM GroupsHold ==
    Spec => []GroupHonouredFirst
<1>1. ASSUME IInv
      PROVE  GroupHonouredFirst
    <2> SUFFICES ASSUME step = 1, NEW s \in Pushed, Live(s), Groups[s] # {}
                 PROVE  \E g \in Groups[s] : \A t \in Pushed : stage[t] = "void" => g \notin Groups[t]
        BY DEF GroupHonouredFirst, GroupHonoured, Kept, Live
    <2>1. Linked
        BY <1>1 DEF IInv, FirstStep
    <2>2. PICK g \in Groups[s] : g \in openings
        BY <2>1 DEF Linked
    <2> QED BY <2>1, <2>2 DEF Linked
<1> QED BY <1>1, IInvAlways, PTL

\* In the first step the file of an input is its own, whatever the script.
THEOREM OwnFileFirst ==
    Spec => [](step = 1 => OwnFile)
<1>1. IInv => (step = 1 => OwnFile)
    BY DEF IInv, FirstStep
<1> QED BY <1>1, IInvAlways, PTL

\* In the first step nothing is left behind: a data file is that of an input that was
\* got, from the same handler.
THEOREM NothingStrays ==
    Spec => []NoStrayFile
<1>1. IInv => NoStrayFile
    BY DEF IInv, FirstStep, NoStray, NoStrayFile
<1> QED BY <1>1, IInvAlways, PTL

--------------------------------------------------------------------------------
(***************************************************************************)
(* The file of an input in both steps.  In situ, an alternate is fetched   *)
(* over the promise of its nominal, and a failure that then clears the     *)
(* nominal takes the file of the alternate away: a further alternate would *)
(* put its own in its place.  A script of this form is excluded: a section *)
(* that may fail between two alternates of s, without stopping the job, is *)
(* of no group of s.                                                       *)
(***************************************************************************)
NoneInBetween ==
    \A s, t, v, u \in Sections :
        s < t /\ t < v /\ v < u /\ File[s] = File[t] /\ File[t] = File[u] /\ v \notin Fatal
            => Groups[s] \cap Groups[v] = {}

\* After a section that was got, nobody uses its file
One ==
    \A s, t \in Pushed : s < t /\ File[s] = File[t] /\ stage[s] = "get" => ~Live(t)
\* ... nor will, when it has lost it
Lost ==
    pc # "raised" =>
        \A s \in Pushed, u \in Sections :
            stage[s] = "get" /\ ~HasFile(s) /\ Ahead(u) => File[u] # File[s]
OInv == One /\ Lost /\ OwnFile

\* Who fetches a file does not take it from an input
LEMMA FileIsFree ==
    ASSUME IInv, OInv, Ready, NEW s \in Pushed, stage[s] = "get"
    PROVE  File[s] # File[cur]
<1> SUFFICES ASSUME File[s] = File[cur]
             PROVE  FALSE
    OBVIOUS
<1>1. cur \in Sections /\ s \in Sections /\ File[s] \in Files /\ Ahead(cur)
    BY Basics DEF Ready, Doing, Ahead
<1>2. HasFile(s)
    BY <1>1 DEF OInv, Lost, Ready
<1>3. file[File[s]] = <<"data", Rh[s]>> /\ track[File[s]] = None
    BY <1>2 DEF OInv, OwnFile, Ready
<1>4. file[File[s]] = <<"data", track[File[s]]>>
    BY <1>1, <1>3 DEF IInv, Exact
<1>5. Rh[s] # None
    BY <1>1, SectionAssumption
<1> QED BY <1>3, <1>4, <1>5

LEMMA VoidSpares ==
    ASSUME NoneInBetween, IInv, OInv, pc = "get", UNCHANGED <<step, cur>>, Failed,
           NEW gone, gone \subseteq {File[cur]}, BecomesVoid(gone), gone # {} => Ready
    PROVE  OInv'
<1>0. cur \in Pushed /\ cur \in Sections /\ Typed /\ Pushed' = Pushed
    BY Basics DEF IInv, Doing, Pushed
<1>1. \A s \in Sections : \/ s = cur /\ stage'[s] = "void"
                          \/ s \in Cleared(open') /\ stage'[s] = "checked"
                          \/ s # cur /\ s \notin Cleared(open') /\ stage'[s] = stage[s]
    BY <1>0, Closing
<1>2. \A s \in Pushed : stage'[s] \in {"get", "expected"} =>
                           stage'[s] = stage[s] /\ s # cur /\ s \notin Cleared(open')
    BY <1>1, Basics
<1>3. \A f \in Files : \/ file'[f] = file[f]
                       \/ /\ file'[f] = Nothing
                          /\ f \in gone \/ \E s \in Cleared(open') : File[s] = f
    BY <1>0, Closing
<1>4. One'
    BY <1>0, <1>2 DEF OInv, One, Live
<1>5. OwnFile'
    BY <1>0, <1>2, <1>3, Basics DEF OInv, OwnFile, HasFile
<1>6. Lost'
    <2> SUFFICES ASSUME pc' # "raised", NEW s \in Pushed, NEW u \in Sections, stage'[s] = "get",
                        ~HasFile(s)', Ahead(u)', File[u] = File[s]
                 PROVE  FALSE
        BY <1>0 DEF Lost
    <2>1. stage[s] = "get" /\ s # cur /\ s \in Sections /\ s < cur /\ cur < u /\ Ahead(u)
        BY <1>0, <1>2, Basics, NAssumption DEF Ahead, Doing, Failed, Sections
    <2>2. HasFile(s)
        BY <2>1 DEF OInv, Lost
    <2>3. File[s] \in gone \/ \E r \in Cleared(open') : File[r] = File[s]
        BY <1>3, <2>2, Basics DEF HasFile
    <2>4. File[s] \notin gone
        BY <2>1, FileIsFree
    <2>5. PICK r \in Cleared(open') : File[r] = File[s]
        BY <2>3, <2>4
    <2>6. r \in Pushed /\ r \in Sections /\ Live(r) /\ Groups[r] \cap Groups[cur] # {} /\ r # s
        BY <1>2, <2>5, ClearedOnes, Basics
    <2>7. r < s
        <3>1. ~(s < r)
            BY <2>1, <2>5, <2>6 DEF OInv, One
        <3> QED BY <2>1, <2>6, <3>1, NAssumption DEF Sections
    <2>8. cur \notin Fatal
        BY DEF Failed
    <2> QED BY <1>0, <2>1, <2>5, <2>6, <2>7, <2>8 DEF NoneInBetween
<1> QED BY <1>4, <1>5, <1>6 DEF OInv

LEMMA GivenSpares ==
    ASSUME IInv, OInv, Ready, Done, NEW st \in {"get", "expected"}, Becomes(st),
           file' = [file EXCEPT ![File[cur]] = <<(IF st = "get" THEN "data" ELSE "promise"), Rh[cur]>>]
    PROVE  OInv'
<1>0. cur \in Pushed /\ cur \in Sections /\ File[cur] \in Files /\ Typed /\ Pushed' = Pushed
    BY Basics DEF IInv, Doing, Ready, Done, Pushed
<1>1. stage'[cur] = st /\ \A s \in Sections \ {cur} : stage'[s] = stage[s]
    BY <1>0 DEF Becomes, Typed
<1>2. /\ file'[File[cur]] = <<(IF st = "get" THEN "data" ELSE "promise"), Rh[cur]>>
      /\ \A f \in Files \ {File[cur]} : file'[f] = file[f]
    BY <1>0 DEF Typed
<1>3. \A s \in Pushed \ {cur} : stage'[s] = "get" =>
          File[s] # File[cur] /\ stage[s] = "get" /\ file'[File[s]] = file[File[s]]
    BY <1>1, <1>2, FileIsFree, Basics
<1>4. HasFile(cur)'
    <2>1. (IF st = "get" THEN "data" ELSE "promise") # "nothing"
        OBVIOUS
    <2> QED BY <1>2, <2>1 DEF HasFile, Nothing, Done
<1>5. \A s \in Sections : Ahead(s)' => Ahead(s)
    BY DEF Ahead, Done, Doing
<1>6. One'
    <2> SUFFICES ASSUME NEW s \in Pushed, NEW t \in Pushed, s < t, File[s] = File[t], stage'[s] = "get"
                 PROVE  ~Live(t)'
        BY <1>0 DEF One
    <2>1. s # cur
        BY <1>0, Basics, NAssumption DEF Pushed
    <2> QED BY <1>1, <1>3, <2>1, Basics DEF OInv, One, Live
<1>7. OwnFile'
    BY <1>0, <1>1, <1>2, <1>3 DEF OInv, OwnFile, HasFile
<1>8. Lost'
    <2> SUFFICES ASSUME NEW s \in Pushed, NEW u \in Sections, stage'[s] = "get",
                        ~HasFile(s)', Ahead(u)'
                 PROVE  File[u] # File[s]
        BY <1>0 DEF Lost
    <2>1. s # cur
        BY <1>4 DEF Done
    <2>2. stage[s] = "get" /\ ~HasFile(s)
        BY <1>3, <2>1 DEF HasFile
    <2> QED BY <1>5, <2>2 DEF OInv, Lost, Ready
<1> QED BY <1>6, <1>7, <1>8 DEF OInv

LEMMA FetchSpares ==
    ASSUME NoneInBetween, IInv, OInv, Ready, Fetch, UNCHANGED <<step, cur>>
    PROVE  OInv'
<1>1. pc = "get"
    BY DEF Ready
<1>2. CASE /\ file' = [file EXCEPT ![File[cur]] = <<"data", Rh[cur]>>]
           /\ Becomes("get") /\ Succeeded
    BY <1>1, <1>2, GivenSpares DEF Done, Succeeded
<1>3. CASE /\ file' = [file EXCEPT ![File[cur]] = <<"promise", Rh[cur]>>]
           /\ Becomes("expected") /\ Succeeded
    BY <1>1, <1>3, GivenSpares DEF Done, Succeeded
<1>4. CASE (BecomesVoid({}) \/ BecomesVoid({File[cur]})) /\ Failed
    BY <1>1, <1>4, VoidSpares
<1> QED BY <1>2, <1>3, <1>4 DEF Fetch

LEMMA LeftSpares ==
    ASSUME OInv, pc # "raised", UNCHANGED <<stage, file, cur>>, Doing' => Doing
    PROVE  OInv'
<1>1. Pushed' = Pushed /\ \A s \in Sections : Ahead(s)' => Ahead(s)
    BY DEF Pushed, Ahead
<1> QED BY <1>1 DEF OInv, One, Lost, OwnFile, Live, HasFile

LEMMA PushSpares ==
    ASSUME IInv, OInv, Push
    PROVE  OInv'
<1> USE DEF Push, dirvars
<1>1. cur \in 0..N /\ cur' \in Sections /\ cur' = cur + 1
    BY NAssumption DEF IInv, Typed, Sections
<1>2. /\ Pushed' = Pushed \cup {cur'} /\ cur' \notin Pushed
      /\ \A s \in Sections : Ahead(s)' => Ahead(s)
    BY <1>1, NAssumption DEF Pushed, Ahead, Sections, Doing
<1>3. stage' = stage /\ stage[cur'] = "load"
    BY <1>1, NAssumption DEF IInv, Fresh, Ahead, Typed, Sections
<1>4. One' /\ OwnFile'
    BY <1>2, <1>3, SMTT(30) DEF OInv, One, OwnFile, Live, HasFile
<1>5. Lost'
    BY <1>2, <1>3 DEF OInv, Lost, HasFile
<1> QED BY <1>4, <1>5 DEF OInv

\* In situ, a file that is tracked is taken by one section only: an alternate leaves
\* it to the input that has it
LEMMA QuickGetSpares ==
    ASSUME IInv, OInv, QuickGet
    PROVE  OInv'
<1>0. /\ cur \in Pushed /\ cur \in Sections /\ File[cur] \in Files /\ Typed
      /\ Pushed' = Pushed /\ pc # "raised" /\ UNCHANGED <<file, cur>>
    BY Basics DEF IInv, Doing, QuickGet, Pushed, dirvars
<1>1. CASE UNCHANGED stage
    BY <1>0, <1>1, LeftSpares DEF QuickGet, Doing
<1>2. CASE /\ Tracked(cur) /\ Matches(cur) /\ ~(cur \in Alternates /\ Effective(cur))
           /\ Becomes("get") /\ Succeeded
    <2>1. file[File[cur]] = <<"data", Rh[cur]>>
        <3>1. track[File[cur]] = Rh[cur] /\ track[File[cur]] # None
            BY <1>2 DEF Tracked, Matches
        <3> QED BY <1>0, <3>1 DEF IInv, Exact
    <2>2. HasFile(cur)
        BY <2>1 DEF HasFile, Nothing
    <2>3. \A s \in Pushed \ {cur} : stage[s] = "get" => File[s] # File[cur]
        <3> SUFFICES ASSUME NEW s \in Pushed \ {cur}, stage[s] = "get", File[s] = File[cur]
                     PROVE  FALSE
            OBVIOUS
        <3>1. Effective(cur)
            BY <2>2 DEF Effective, HasFile
        <3>2. cur \in Alternates
            BY <1>0, Basics, FileAssumption, NAssumption DEF Sections
        <3> QED BY <1>2, <3>1, <3>2
    <2>4. stage'[cur] = "get" /\ \A s \in Sections \ {cur} : stage'[s] = stage[s]
        BY <1>0, <1>2 DEF Becomes, Typed
    <2>5. \A s \in Sections : Ahead(s)' => Ahead(s)
        BY <1>0, <1>2 DEF Ahead, Doing, Succeeded
    <2>6. One'
        <3> SUFFICES ASSUME NEW s \in Pushed, NEW t \in Pushed, s < t, File[s] = File[t], stage'[s] = "get"
                     PROVE  ~Live(t)'
            BY <1>0 DEF One
        <3>1. s # cur
            BY <1>0, Basics, NAssumption DEF Pushed
        <3> QED BY <2>3, <2>4, <3>1, Basics DEF OInv, One, Live
    <2>7. OwnFile'
        BY <1>0, <2>1, <2>4, Basics DEF OInv, OwnFile, HasFile
    <2>8. Lost'
        BY <1>0, <2>2, <2>4, <2>5, Basics DEF OInv, Lost, HasFile
    <2> QED BY <2>6, <2>7, <2>8 DEF OInv
<1> QED BY <1>1, <1>2 DEF QuickGet, seqvars

LEMMA OInvKept ==
    ASSUME NoneInBetween, IInv, OInv, [Next]_vars
    PROVE  OInv'
<1>1. CASE Push
    BY <1>1, PushSpares
<1>2. CASE QuickGet
    BY <1>2, QuickGetSpares
<1>3. CASE /\ Get \/ GetInSitu
           /\ UNCHANGED <<seqvars, dirvars>> /\ pc' \in {"script", "raised"}
    BY <1>3, LeftSpares DEF Get, GetInSitu, seqvars, dirvars, Doing
<1>4. CASE /\ pc = "get" /\ step = 1 /\ UNCHANGED <<step, cur>>
           /\ AnyOpen(cur, open) /\ ~(cur \in Alternates /\ HasFile(cur)) /\ Fetch
    BY <1>4, Missing, Lacking, FetchSpares DEF Ready
<1>5. CASE /\ pc = "get" /\ step = 2 /\ UNCHANGED <<step, cur>>
           /\ AnyOpen(cur, open) /\ ~Tracked(cur) /\ Fetch
    <2>1. track[File[cur]] = None
        BY <1>5, Lacking DEF Tracked
    <2> QED BY <1>5, <2>1, FetchSpares DEF Ready
<1>6. CASE GetInSitu /\ Failed /\ BecomesVoid({})
    BY <1>6, VoidSpares DEF GetInSitu
<1>7. CASE NextStep
    <2>1. Pushed' = {} /\ pc' # "raised"
        BY <1>7, NAssumption DEF NextStep, Pushed
    <2> QED BY <2>1 DEF OInv, One, Lost, OwnFile
<1>8. CASE UNCHANGED vars
    BY <1>8 DEF vars, seqvars, dirvars, OInv, One, Lost, OwnFile, Live, HasFile, Pushed, Ahead, Doing
<1> QED
    BY <1>1, <1>2, <1>3, <1>4, <1>5, <1>6, <1>7, <1>8
       DEF Next, Get, GetInSitu, Stutter, Failed, Succeeded

LEMMA OInvAlways ==
    ASSUME NoneInBetween
    PROVE  Spec => []OInv
<1>1. Init => OInv
    <2> SUFFICES ASSUME Init
                 PROVE  OInv
        OBVIOUS
    <2>1. Pushed = {}
        BY DEF Init, Pushed
    <2> QED BY <2>1 DEF OInv, One, Lost, OwnFile
<1>2. IInv /\ OInv /\ [Next]_vars => OInv'
    BY OInvKept
<1> QED BY <1>1, <1>2, IInvAlways, PTL DEF Spec

\* The file of an input is its own in both steps: no alternate, no failed attempt and
\* no closing of a group puts another one in its place.
THEOREM OwnFileKept ==
    ASSUME NoneInBetween
    PROVE  Spec => []OwnFile
<1>1. OInv => OwnFile
    BY DEF OInv
<1> QED BY <1>1, OInvAlways, PTL
=================================================================================

--------------------------------- MODULE Inputs ---------------------------------
(***************************************************************************)
(* The input sections of a job: toolbox.input, Section, Sequence and the   *)
(* part of Handler that fetches.  A script declares its inputs one after   *)
(* the other; each is fetched at once.  An alternate is fetched only if    *)
(* the file of its nominal is missing.  When a section of a coherent group *)
(* cannot be fetched, the group is closed: the members already fetched are *)
(* removed, the others are not fetched.                                    *)
(*                                                                         *)
(* A job has two steps in the same working directory: the first fetches,   *)
(* the second runs the same script "in situ", with a new sequence but with *)
(* the local tracker of the first, to find out which files are there.      *)
(***************************************************************************)
EXTENDS Integers, FiniteSets

CONSTANTS
    N,            \* number of sections of the script
    File,         \* per section: its local file (iotarget of the container)
    Rh,           \* per section: description of its resource handler
    Groups,       \* per section: its coherent groups
    Alternates,   \* the sections with an alternate= option
    Fatal         \* the sections with fatal=True

Sections == 1..N
Files == {File[s] : s \in Sections}
AllGroups == UNION {Groups[s] : s \in Sections}
None == 0

ASSUME NAssumption == N \in Nat \ {0}
ASSUME SectionAssumption ==
    /\ Rh \in [Sections -> Nat \ {None}]
    /\ DOMAIN File = Sections /\ DOMAIN Groups = Sections
    /\ Alternates \subseteq Sections /\ Fatal \subseteq Sections
\* Two nominals do not share a file, and what precedes an alternate is its nominal
ASSUME FileAssumption ==
    \A s, t \in Sections : File[s] = File[t] /\ s < t => t \in Alternates

VARIABLES
    step,       \* 1: fetch, 2: in situ
    cur,        \* the section the script is at
    pc,         \* control point
    stage,      \* per section: the last of its stages
    open,       \* per section: its groups that it knows open
    openings,   \* the groups the sequence knows open
    file,       \* per file: nothing, a promise or the data of a resource handler
    track       \* per file: the latest handler its tracker entry has for "get"

seqvars == <<stage, open, openings>>
dirvars == <<file, track>>
vars == <<step, cur, pc, seqvars, dirvars>>

Nothing == <<"nothing", None>>
Rhs == {Rh[s] : s \in Sections}
Contents == {Nothing} \cup ({"promise", "data"} \X Rhs)
Stages == {"load", "get", "expected", "void", "checked"}
HasFile(s) == file[File[s]] # Nothing

\* Section.any_coherentgroup_opened
AnyOpen(s, opened) == Groups[s] = {} \/ opened[s] # {}
Pushed == 1..cur

Init ==
    /\ step = 1 /\ cur = 0 /\ pc = "script"
    /\ stage = [s \in Sections |-> "load"]
    /\ open = Groups /\ openings = AllGroups
    /\ file = [f \in Files |-> Nothing] /\ track = [f \in Files |-> None]

(***************************************************************************)
(* Sequence.add: the section learns which of its groups are closed.        *)
(***************************************************************************)
Push_GroupsForgotten ==
    /\ pc = "script" /\ cur < N
    /\ cur' = cur + 1
    /\ open' = [open EXCEPT ![cur'] = Groups[cur']]
    /\ pc' = IF step = 2 THEN "quick" ELSE "get"
    /\ UNCHANGED <<step, stage, openings, dirvars>>
Push ==
    /\ pc = "script" /\ cur < N
    /\ cur' = cur + 1
    /\ open' = [open EXCEPT ![cur'] = Groups[cur'] \cap openings]
    /\ pc' = IF step = 2 THEN "quick" ELSE "get"
    /\ UNCHANGED <<step, stage, openings, dirvars>>

(***************************************************************************)
(* Section.updstage and Sequence.section_updstage.  A section that becomes *)
(* void closes its groups; Section.coherent_group_close clears a member    *)
(* all of whose groups are closed: its file is removed, the tracker forgets*)
(* the file, its stage becomes "checked".                                  *)
(***************************************************************************)
Becomes(st) ==
    /\ stage' = [stage EXCEPT ![cur] = st]
    /\ UNCHANGED <<open, openings>>

Cleared(left) ==
    {s \in Pushed \ {cur} : /\ Groups[s] \cap Groups[cur] \cap openings # {}
                            /\ stage[s] \in {"get", "expected"}
                            /\ left[s] = {}}

\* Container.clear, LocalTracker.update_rh
Vanish_TrackerKept(lost) ==
    /\ file' = [f \in Files |-> IF f \in lost THEN Nothing ELSE file[f]]
    /\ UNCHANGED track
Vanish(lost) ==
    /\ file' = [f \in Files |-> IF f \in lost THEN Nothing ELSE file[f]]
    /\ track' = [f \in Files |-> IF f \in lost THEN None ELSE track[f]]

\* gone: what the failed attempt removes itself
BecomesVoid(gone) ==
    /\ openings' = openings \ Groups[cur]
    /\ open' = [s \in Sections |->
                  IF s \in Pushed THEN open[s] \ (Groups[cur] \cap openings) ELSE open[s]]
    /\ LET cleared == Cleared(open')
       IN /\ stage' = [s \in Sections |-> IF s = cur THEN "void"
                                          ELSE IF s \in cleared THEN "checked"
                                          ELSE stage[s]]
          /\ Vanish(gone \cup {File[s] : s \in cleared})

\* Section._fatal_wrap, _just_fail
Failed == pc' = IF cur \in Fatal THEN "raised" ELSE "script"
Succeeded == pc' = "script"

(***************************************************************************)
(* Handler._actual_get, _postproc_get: what the store answers.             *)
(***************************************************************************)
Fetch ==
    \/ /\ file' = [file EXCEPT ![File[cur]] = <<"data", Rh[cur]>>]
       /\ track' = [track EXCEPT ![File[cur]] = Rh[cur]]
       /\ Becomes("get") /\ Succeeded
    \/ /\ file' = [file EXCEPT ![File[cur]] = <<"promise", Rh[cur]>>]
       /\ UNCHANGED track
       /\ Becomes("expected") /\ Succeeded
    \/ BecomesVoid({}) /\ Failed                \* no such resource, or an exception
    \/ BecomesVoid({File[cur]}) /\ Failed       \* the metadata check: cleared

\* the file is there, and the tracker knows who has fetched it
Tracked(s) == HasFile(s) /\ track[File[s]] # None
Matches(s) == track[File[s]] = Rh[s]
\* the file is the one of an effective input (Sequence.effective_inputs)
Effective(s) ==
    \E t \in Pushed : /\ stage[t] \in {"get", "expected"} /\ HasFile(t)
                      /\ File[t] = File[s]

\* Section.get and Handler._get_proxy, first step
Get_AlternateAnyway ==
    /\ pc = "get" /\ step = 1
    /\ IF AnyOpen(cur, open)
       THEN Fetch
       ELSE Failed /\ UNCHANGED <<seqvars, dirvars>>
    /\ UNCHANGED <<step, cur>>
Get ==
    /\ pc = "get" /\ step = 1
    /\ IF ~AnyOpen(cur, open) THEN Failed /\ UNCHANGED <<seqvars, dirvars>>
       ELSE IF cur \in Alternates /\ HasFile(cur)
       THEN Succeeded /\ UNCHANGED <<seqvars, dirvars>>
       ELSE Fetch
    /\ UNCHANGED <<step, cur>>

\* Handler.insitu_quickget: called by toolbox.input whatever the groups
QuickGet ==
    /\ pc = "quick"
    /\ \/ /\ Tracked(cur) /\ Matches(cur)
          /\ IF cur \in Alternates /\ Effective(cur) THEN UNCHANGED seqvars
             ELSE Becomes("get")
          /\ Succeeded
       \/ /\ Tracked(cur) /\ ~Matches(cur)
          /\ cur \in Alternates /\ Effective(cur)
          /\ Succeeded /\ UNCHANGED seqvars
       \/ /\ ~(Tracked(cur) /\ (Matches(cur) \/ (cur \in Alternates /\ Effective(cur))))
          /\ pc' = "get" /\ UNCHANGED seqvars
    /\ UNCHANGED <<step, cur, dirvars>>

\* Section.get and Handler._get_proxy in situ, when the quick get has failed
GetInSitu ==
    /\ pc = "get" /\ step = 2
    /\ \/ /\ ~AnyOpen(cur, open)
          /\ Failed /\ UNCHANGED <<seqvars, dirvars>>
       \/ /\ AnyOpen(cur, open) /\ Tracked(cur)        \* somebody else's file
          /\ Failed /\ BecomesVoid({})
       \/ /\ AnyOpen(cur, open) /\ ~Tracked(cur)
          /\ Fetch
    /\ UNCHANGED <<step, cur>>

(***************************************************************************)
(* The second step: a new context, the same directory and tracker.         *)
(***************************************************************************)
NextStep ==
    /\ pc = "script" /\ cur = N /\ step = 1
    /\ step' = 2 /\ cur' = 0
    /\ stage' = [s \in Sections |-> "load"]
    /\ open' = Groups /\ openings' = AllGroups
    /\ UNCHANGED <<pc, dirvars>>

Ended == (pc = "script" /\ cur = N /\ step = 2) \/ pc = "raised"
Stutter == Ended /\ UNCHANGED vars

Next == Push \/ Get \/ QuickGet \/ GetInSitu \/ NextStep \/ Stutter

Spec == Init /\ [][Next]_vars

-----------------------------------------------------------------------------
(***************************************************************************)
(* Properties.                                                             *)
(***************************************************************************)
TypeOK ==
    /\ step \in {1, 2} /\ cur \in 0..N /\ pc \in {"script", "quick", "get", "raised"}
    /\ stage \in [Sections -> Stages]
    /\ openings \subseteq AllGroups
    /\ open \in [Sections -> SUBSET AllGroups] /\ \A s \in Sections : open[s] \subseteq Groups[s]
    /\ file \in [Files -> Contents] /\ track \in [Files -> {None} \cup Rhs]

Kept(s) == s \in Pushed /\ stage[s] \in {"get", "expected"}

\* A member of a coherent group is an effective input only as long as one of its
\* groups holds: no other member of that group has failed.
GroupHonoured ==
    \A s \in Pushed : Kept(s) /\ Groups[s] # {} =>
        \E g \in Groups[s] : \A t \in Pushed : stage[t] = "void" => g \notin Groups[t]

\* ... which holds as long as nothing is done in situ.
GroupHonouredFirst == step = 1 => GroupHonoured

\* The file of an input that was got is its own: no alternate, no failed attempt
\* and no closing of a group overwrites it.
OwnFile ==
    \A s \in Pushed : stage[s] = "get" /\ HasFile(s) => file[File[s]] = <<"data", Rh[s]>>

\* In the first step, a data file in the working directory is that of an input that
\* was got: what a closed group or a failed check leaves behind is removed.
NoStrayFile ==
    step = 1 => \A f \in Files : file[f][1] = "data" =>
                    \E s \in Pushed : File[s] = f /\ Rh[s] = file[f][2] /\ stage[s] = "get"

\* The tracker knows who has fetched a data file, and knows of no get for a file that
\* is missing or is only a promise: in the second step it never takes one for data.
TrackerKnows ==
    \A f \in Files :
        track[f] = IF file[f][1] = "data" THEN file[f][2] ELSE None
=================================================================================

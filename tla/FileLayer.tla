------------------------------- MODULE FileLayer --------------------------------
(***************************************************************************)
(* The part of tools.systems that a cache rests on: System.cp of a file    *)
(* and of a directory between the working directories of several processes *)
(* and a cache on the same file system.  A file is not copied but linked,  *)
(* under a temporary name that is then moved over the destination.  A      *)
(* directory is replaced as a whole: the former one is moved away and the  *)
(* new one moved in, under a lock that is itself a directory, that is      *)
(* waited for a limited time only and that a dead process does not remove. *)
(***************************************************************************)
EXTENDS Integers, FiniteSets

CONSTANTS
    Procs,      \* processes, each in its working directory
    Foreign,    \* the processes whose user does not own the files of the cache
    MaxLink,    \* links of an inode that the file system allows
    MaxCalls,   \* bound: calls of cp by all the processes
    MaxCrash    \* bound: processes that die

ASSUME FileLayerAssumption ==
    /\ IsFiniteSet(Procs) /\ Foreign \subseteq Procs
    /\ MaxLink \in Nat /\ MaxLink > 2 * Cardinality(Procs) + 1   \* a new inode never has them all
    /\ MaxCalls \in Nat /\ MaxCrash \in Nat

None == 0
Altered == 0
Inodes == 1..(MaxCalls + 1)
Versions == 0..(MaxCalls + 1)

VARIABLES
    pc,         \* per process: control point of its cp, "rest" or "dead"
    op,         \* per process: what it does
    rc,         \* per process: what cp answers
    inode,      \* per inode: version of the data, owner may write, links elsewhere
    used,       \* number of inodes ever made
    cached,     \* inode of the file of the cache
    local,      \* per process: inode of its local file
    tmp,        \* per process: inode of its temporary name, or version of its temporary directory
    dir,        \* version of the directory of the cache
    nested,     \* versions of directories that lie inside of it
    lock,       \* the lock is there
    calls, crashes,
    owner,      \* history: who made the lock
    expired,    \* history: the processes that went on without the lock
    seen,       \* history: per process, the files of the cache during its retrieval
    left        \* history: the directory is missing for somebody died or failed replacing it

filevars == <<inode, used, cached, local>>
dirvars == <<dir, nested, lock, owner, expired, left>>
vars == <<pc, op, rc, filevars, tmp, dirvars, calls, crashes, seen>>

Ops == {"insert", "retrieve", "copy", "insertdir"}
Fetches == {"retrieve", "copy"}
Exclusive == {"look", "away", "in"}

Names(i) == Cardinality({p \in Procs : local[p] = i})
              + Cardinality({p \in Procs : tmp[p] = i /\ op[p] # "insertdir"})
              + (IF cached = i THEN 1 ELSE 0)
Full(i) == Names(i) + inode[i].others >= MaxLink

Goto(p, l) == pc' = [pc EXCEPT ![p] = l] /\ UNCHANGED rc
Answer(p, r) == pc' = [pc EXCEPT ![p] = "rest"] /\ rc' = [rc EXCEPT ![p] = r]
NewInode(v) ==
    /\ used' = used + 1
    /\ inode' = [inode EXCEPT ![used + 1] = [v |-> v, writable |-> TRUE, others |-> 0]]

\* The cache may hold a file, whose inode may have all its links, and a directory
Init ==
    /\ pc = [p \in Procs |-> "rest"] /\ op = [p \in Procs |-> "copy"]
    /\ rc = [p \in Procs |-> "none"]
    /\ \E f \in {0, MaxLink - 1} :
         inode = [i \in Inodes |-> IF i = 1 THEN [v |-> 1, writable |-> FALSE, others |-> f]
                                   ELSE [v |-> Altered, writable |-> FALSE, others |-> 0]]
    /\ used = 1 /\ cached \in {None, 1}
    /\ local = [p \in Procs |-> None] /\ tmp = [p \in Procs |-> None]
    /\ dir \in {None, 1} /\ nested = {} /\ lock = FALSE
    /\ calls = 0 /\ crashes = 0
    /\ owner = {} /\ expired = {} /\ left = FALSE
    /\ seen = [p \in Procs |-> {}]

(***************************************************************************)
(* cp is called: to insert a file or a directory that the process has just *)
(* written, of a new version, or to retrieve the file of the cache, for    *)
(* the intent "in" (retrieve) or "inout" (copy).                           *)
(***************************************************************************)
Call(p) ==
    /\ pc[p] = "rest" /\ calls < MaxCalls /\ calls' = calls + 1
    /\ \E o \in Ops :
        /\ op' = [op EXCEPT ![p] = o]
        /\ seen' = [seen EXCEPT ![p] = IF o \in Fetches THEN {cached} \ {None} ELSE {}]
        /\ o \notin Fetches => p \notin Foreign
        /\ \/ /\ o = "insert" /\ NewInode(calls + 2)
              /\ local' = [local EXCEPT ![p] = used + 1]
              /\ Goto(p, "link") /\ UNCHANGED tmp
           \/ /\ o = "insertdir" /\ tmp' = [tmp EXCEPT ![p] = calls + 2]
              /\ Goto(p, "lock") /\ UNCHANGED <<inode, used, local>>
           \/ /\ o \in Fetches /\ cached # None
              /\ Goto(p, IF o = "copy" THEN "rawcp" ELSE "link")
              /\ local' = [local EXCEPT ![p] = None] /\ UNCHANGED <<inode, used, tmp>>
           \/ /\ o \in Fetches /\ cached = None
              /\ Answer(p, "no")
              /\ local' = [local EXCEPT ![p] = None] /\ UNCHANGED <<inode, used, tmp>>
    /\ UNCHANGED <<cached, dirvars, crashes>>

(***************************************************************************)
(* smartcp and hardlink of a file.  An inode with all its links is first   *)
(* replaced by a copy of itself (_safe_hardlink), which only its owner may *)
(* do.  A link is made read-only before it gets its name; a process that   *)
(* may not do so makes a copy (_smartcp_cross_users_links_fallback).       *)
(* After a link, cp answers no if the source is another file by then, and  *)
(* after a copy, if it has other data: what is compared, all the data or   *)
(* the sizes (cmpaftercp), may be the same for two versions.               *)
(***************************************************************************)
Source(p) == IF op[p] = "insert" THEN local[p] ELSE cached
Tmp(p, i) == tmp' = [tmp EXCEPT ![p] = i]
Differ(i, k) == inode[i].v # inode[k].v
\* The retrievals that are under way find another file in the cache
Fetching(p) == op[p] \in Fetches /\ pc[p] \notin {"rest", "dead"}
Seen(i) == seen' = [p \in Procs |-> IF Fetching(p) THEN seen[p] \cup {i} ELSE seen[p]]

Link_TooMany(p) ==
    /\ pc[p] = "link"
    /\ \/ ~Full(Source(p)) /\ Tmp(p, Source(p)) /\ Goto(p, "same")
       \/ Full(Source(p)) /\ Answer(p, "error") /\ UNCHANGED tmp
    /\ UNCHANGED <<op, filevars, dirvars, calls, crashes, seen>>
Link(p) ==
    /\ pc[p] = "link"
    /\ \/ ~Full(Source(p)) /\ Tmp(p, Source(p)) /\ Goto(p, "same") /\ UNCHANGED <<inode, used>>
       \/ Full(Source(p)) /\ p \notin Foreign /\ NewInode(inode[Source(p)].v)
            /\ Tmp(p, used + 1) /\ Goto(p, "size")
       \/ \* _safe_hardlink returns a variable that it has not set
          Full(Source(p)) /\ p \in Foreign /\ Answer(p, "error") /\ UNCHANGED <<inode, used, tmp>>
    /\ UNCHANGED <<op, cached, local, dirvars, calls, crashes, seen>>

Size(p) ==
    /\ pc[p] = "size"
    /\ \/ Goto(p, "replace") /\ UNCHANGED tmp
       \/ Differ(tmp[p], cached) /\ Tmp(p, None) /\ Answer(p, "no")
    /\ UNCHANGED <<op, filevars, dirvars, calls, crashes, seen>>

Replace(p) ==
    /\ pc[p] = "replace"
    /\ cached' = tmp[p] /\ Seen(tmp[p]) /\ Tmp(p, None)
    /\ Goto(p, "relink")
    /\ UNCHANGED <<op, inode, used, local, dirvars, calls, crashes>>

Relink(p) ==
    /\ pc[p] = "relink"
    /\ Tmp(p, cached) /\ Goto(p, "same")
    /\ UNCHANGED <<op, filevars, dirvars, calls, crashes, seen>>

Same(p) ==
    /\ pc[p] = "same"
    /\ IF tmp[p] = Source(p)
       THEN Goto(p, "readonly") /\ UNCHANGED tmp
       ELSE Tmp(p, None) /\ Answer(p, "no")
    /\ UNCHANGED <<op, filevars, dirvars, calls, crashes, seen>>

ReadOnly_Not(p) ==
    /\ pc[p] = "readonly"
    /\ Goto(p, "rename")
    /\ UNCHANGED <<op, inode, used, cached, local, tmp, dirvars, calls, crashes, seen>>
ReadOnly(p) ==
    /\ pc[p] = "readonly"
    /\ IF p \in Foreign /\ inode[tmp[p]].writable
       THEN Tmp(p, None) /\ Goto(p, "rawcp") /\ UNCHANGED inode
       ELSE /\ inode' = [inode EXCEPT ![tmp[p]].writable = FALSE]
            /\ Goto(p, "rename") /\ UNCHANGED tmp
    /\ UNCHANGED <<op, used, cached, local, dirvars, calls, crashes, seen>>

\* The rename of a link; it is atomic, as the one of a copy
Rename(p) ==
    /\ pc[p] = "rename"
    /\ IF op[p] = "insert"
       THEN cached' = tmp[p] /\ Seen(tmp[p]) /\ UNCHANGED local
       ELSE local' = [local EXCEPT ![p] = tmp[p]] /\ UNCHANGED <<cached, seen>>
    /\ Tmp(p, None) /\ Answer(p, "yes")
    /\ UNCHANGED <<op, inode, used, dirvars, calls, crashes>>

Rawcp(p) ==
    /\ pc[p] = "rawcp"
    /\ NewInode(inode[cached].v) /\ Tmp(p, used + 1)
    /\ Goto(p, "move")
    /\ UNCHANGED <<op, cached, local, dirvars, calls, crashes, seen>>

Move(p) ==
    /\ pc[p] = "move"
    /\ local' = [local EXCEPT ![p] = tmp[p]] /\ Tmp(p, None)
    /\ Goto(p, "compare")
    /\ UNCHANGED <<op, inode, used, cached, dirvars, calls, crashes, seen>>

\* A copy for the intent "in" becomes read-only at the end
Compare(p) ==
    /\ pc[p] = "compare"
    /\ \/ /\ inode' = [inode EXCEPT ![local[p]].writable = @ /\ op[p] # "retrieve"]
          /\ Answer(p, "yes")
       \/ Differ(local[p], cached) /\ Answer(p, "no") /\ UNCHANGED inode
    /\ UNCHANGED <<op, used, cached, local, tmp, dirvars, calls, crashes, seen>>

\* The job of a process writes in its file, if the file lets it do so
Write(p) ==
    /\ pc[p] = "rest" /\ local[p] # None /\ inode[local[p]].writable
    /\ inode[local[p]].v # Altered
    /\ inode' = [inode EXCEPT ![local[p]].v = Altered]
    /\ UNCHANGED <<pc, op, rc, used, cached, local, tmp, dirvars, calls, crashes, seen>>

(***************************************************************************)
(* secure_directory_move inside of lockdir_context(sloppy=True): the one   *)
(* who has waited long enough goes on, and removes the lock in the end,    *)
(* whoever made it.  A move to a directory that exists lands inside of it. *)
(***************************************************************************)
Lock_NotAtomic(p) ==
    /\ pc[p] = "lock"
    /\ lock' = TRUE /\ owner' = {p}
    /\ Goto(p, "look")
    /\ UNCHANGED <<op, filevars, tmp, dir, nested, expired, left, calls, crashes, seen>>
Lock(p) ==
    /\ pc[p] = "lock" /\ ~lock
    /\ lock' = TRUE /\ owner' = {p}
    /\ Goto(p, "look")
    /\ UNCHANGED <<op, filevars, tmp, dir, nested, expired, left, calls, crashes, seen>>

Expire_Never(p) == FALSE
Expire(p) ==
    /\ pc[p] = "lock" /\ lock
    /\ expired' = expired \cup {p}
    /\ Goto(p, "look")
    /\ UNCHANGED <<op, filevars, tmp, dir, nested, lock, owner, left, calls, crashes, seen>>

Look(p) ==
    /\ pc[p] = "look"
    /\ Goto(p, IF dir = None THEN "in" ELSE "away")
    /\ UNCHANGED <<op, filevars, tmp, dirvars, calls, crashes, seen>>

Finish(p, r) == pc' = [pc EXCEPT ![p] = "unlock"] /\ rc' = [rc EXCEPT ![p] = r]

Away(p) ==
    /\ pc[p] = "away"
    /\ \/ dir # None /\ dir' = None /\ nested' = {} /\ Goto(p, "in")
       \/ dir = None /\ Finish(p, "error") /\ UNCHANGED <<dir, nested>>
    /\ UNCHANGED <<op, filevars, tmp, lock, owner, expired, left, calls, crashes, seen>>

In(p) ==
    /\ pc[p] = "in"
    /\ \/ /\ dir = None /\ dir' = tmp[p] /\ left' = FALSE
          /\ Finish(p, "yes") /\ UNCHANGED <<nested, crashes>>
       \/ /\ dir # None /\ nested' = nested \cup {tmp[p]}
          /\ Finish(p, "yes") /\ UNCHANGED <<dir, left, crashes>>
       \/ \* the move fails: the former directory is not put back
          /\ crashes < MaxCrash /\ crashes' = crashes + 1
          /\ left' = (left \/ dir = None)
          /\ Finish(p, "error") /\ UNCHANGED <<dir, nested>>
    /\ UNCHANGED <<op, filevars, tmp, lock, owner, expired, calls, seen>>

Unlock_WrongRemoved(p) ==
    /\ pc[p] = "unlock"
    /\ lock' = FALSE /\ owner' = {} /\ dir' = None
    /\ Goto(p, "rest") /\ Tmp(p, None)
    /\ UNCHANGED <<op, filevars, nested, expired, left, calls, crashes, seen>>
Unlock(p) ==
    /\ pc[p] = "unlock"
    /\ lock' = FALSE /\ owner' = {}
    /\ Goto(p, "rest") /\ Tmp(p, None)
    /\ UNCHANGED <<op, filevars, dir, nested, expired, left, calls, crashes, seen>>

Die(p) ==
    /\ pc[p] \notin {"rest", "dead"}
    /\ crashes < MaxCrash /\ crashes' = crashes + 1
    /\ Goto(p, "dead")
    /\ left' = (left \/ (pc[p] = "in" /\ dir = None))
    /\ UNCHANGED <<op, filevars, tmp, dir, nested, lock, owner, expired, calls, seen>>

Step(p) ==
    \/ Link(p) \/ Size(p) \/ Replace(p) \/ Relink(p) \/ Same(p) \/ ReadOnly(p) \/ Rename(p)
    \/ Rawcp(p) \/ Move(p) \/ Compare(p)
    \/ Lock(p) \/ Expire(p) \/ Look(p) \/ Away(p) \/ In(p) \/ Unlock(p)

Next == \E p \in Procs : Call(p) \/ Step(p) \/ Write(p) \/ Die(p)

Spec == Init /\ [][Next]_vars

\* A process that lives goes on, and its wait for the lock has a limit
Fairness == \A p \in Procs : WF_vars(Step(p))
LiveSpec == Spec /\ Fairness

--------------------------------------------------------------------------------
TypeOK ==
    /\ pc \in [Procs -> {"rest", "dead", "link", "size", "replace", "relink", "same", "readonly", "rename",
                         "rawcp", "move", "compare", "lock", "look", "away", "in", "unlock"}]
    /\ op \in [Procs -> Ops] /\ rc \in [Procs -> {"none", "yes", "no", "error"}]
    /\ inode \in [Inodes -> [v : Versions, writable : BOOLEAN, others : Nat]]
    /\ used \in Inodes /\ cached \in Inodes \cup {None}
    /\ local \in [Procs -> Inodes \cup {None}]
    /\ dir \in Versions /\ nested \in SUBSET Versions
    /\ lock \in BOOLEAN /\ owner \in SUBSET Procs
    /\ expired \in SUBSET Procs /\ left \in BOOLEAN
    /\ seen \in [Procs -> SUBSET Inodes]

(* What is in the cache, and what a process retrieved for the intent "in",   *)
(* is what somebody inserted: no job has written in it through its own link. *)
CacheUnaltered ==
    /\ cached # None => inode[cached].v # Altered
    /\ \A p \in Procs : pc[p] = "rest" /\ op[p] = "retrieve" /\ rc[p] = "yes"
                            => inode[local[p]].v # Altered

(* Whoever retrieves a file that is in the cache gets data that the cache    *)
(* had during the call (the job may have written in its copy since), be the  *)
(* inode out of links; the answer is no only if the file was replaced in the *)
(* meantime, and it is never an error (for the owner of the cache, see       *)
(* GetsIt).                                                                  *)
Retrieved(p) == pc[p] = "rest" /\ op[p] \in Fetches /\ seen[p] # {}
Data(S) == {inode[i].v : i \in S}
OwnerGetsIt ==
    \A p \in Procs \ Foreign : Retrieved(p) =>
        \/ rc[p] = "yes" /\ local[p] # None /\ inode[local[p]].v \in Data(seen[p]) \cup {Altered}
        \/ rc[p] = "no" /\ \E i, k \in seen[p] : i # k

(* "If that also fails because of the lack of file permissions, a simple     *)
(* rawcp is made" (_safe_hardlink): the retrieval of a file that nobody      *)
(* replaces succeeds.                                                        *)
GetsIt ==
    \A p \in Procs : Retrieved(p) => rc[p] = "yes" \/ \E i, k \in seen[p] : i # k

(* As long as nobody has gone on without the lock, one process at most is    *)
(* between the lock and its removal.                                         *)
Inside(p) == pc[p] \in Exclusive \cup {"unlock"}
LockExclusive ==
    expired = {} => \A p, q \in Procs : Inside(p) /\ Inside(q) => p = q

(* A directory whose insertion said yes is the directory of the cache or was *)
(* replaced by another; it did not land inside of the former one, unless     *)
(* somebody went on without the lock.                                        *)
NotInside ==
    expired = {} => nested = {}

(* Once a directory is in the cache, it is missing only while a process      *)
(* replaces it, or after one died or failed at that very point.              *)
DirThere ==
    (\E p \in Procs : op[p] = "insertdir" /\ pc[p] = "rest" /\ rc[p] = "yes")
        => dir # None \/ left \/ \E p \in Procs : pc[p] = "in"

(* Every cp ends, even when the process that held the lock is dead.          *)
AllEnd == \A p \in Procs : pc[p] # "rest" ~> pc[p] \in {"rest", "dead"}
=================================================================================

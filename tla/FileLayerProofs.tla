----------------------------- MODULE FileLayerProofs -----------------------------
(***************************************************************************)
(* Safety proofs about the directories of a cache (System.cp of a          *)
(* directory, secure_directory_move, lockdir_context), then about its file *)
(* (smartcp, hardlink, rawcp), for any number of processes, calls and      *)
(* deaths.                                                                 *)
(***************************************************************************)
EXTENDS FileLayer, FiniteSetTheorems, TLAPS

\* What the proofs need of the types
Typed ==
    /\ DOMAIN pc = Procs /\ DOMAIN op = Procs /\ DOMAIN rc = Procs /\ DOMAIN tmp = Procs
    /\ calls \in Nat

\* The lock belongs to the process that is between its creation and its removal
LockOwned == expired = {} => \A p \in Procs : Inside(p) => lock /\ owner = {p}

\* A process that is about to move a directory has a directory to move
Carries ==
    \A p \in Procs : pc[p] \in {"lock", "look", "away", "in"}
                        => op[p] = "insertdir" /\ tmp[p] # None

\* With the lock, the place is free when the new directory moves in
PlaceIsFree == expired = {} => \A p \in Procs : pc[p] = "in" => dir = None

\* A move that said yes has put a directory there, which only another move takes away
Moved(p) == op[p] = "insertdir" /\ pc[p] \in {"unlock", "rest"} /\ rc[p] = "yes"
MovedIsThere ==
    (\E p \in Procs : Moved(p)) => dir # None \/ left \/ \E p \in Procs : pc[p] = "in"


\* Who works on a file does not work on a directory
FilePoints == {"link", "size", "replace", "relink", "same", "readonly", "rename",
               "rawcp", "move", "compare"}
DirPoints == {"lock", "look", "away", "in", "unlock"}
Apart == \A p \in Procs : pc[p] \in FilePoints => op[p] # "insertdir"

IInv ==
    Typed /\ LockOwned /\ Carries /\ PlaceIsFree /\ MovedIsThere /\ NotInside /\ Apart

--------------------------------------------------------------------------------
(***************************************************************************)
(* The steps of the cp of a file touch neither the directory nor the lock. *)
(***************************************************************************)
Quiet(p) ==
    /\ Typed'
    /\ UNCHANGED <<op, dirvars>>
    /\ \A q \in Procs \ {p} : pc'[q] = pc[q] /\ rc'[q] = rc[q] /\ tmp'[q] = tmp[q]
    /\ pc[p] \notin DirPoints /\ pc'[p] \notin DirPoints
    /\ pc'[p] \in FilePoints => pc[p] \in FilePoints
    /\ Moved(p)' => Moved(p)

LEMMA QuietKeeps ==
    ASSUME IInv, NEW p \in Procs, Quiet(p)
    PROVE  IInv'
<1> USE DEF Quiet, dirvars, FilePoints, DirPoints
<1>1. \A q \in Procs : Inside(q)' => Inside(q)
    BY DEF Inside, Exclusive
<1>2. LockOwned' /\ NotInside'
    BY <1>1 DEF IInv, LockOwned, NotInside
<1>3. Carries' /\ PlaceIsFree' /\ Apart'
    BY DEF IInv, Carries, PlaceIsFree, Apart
<1>4. \A q \in Procs : Moved(q)' => Moved(q)
    BY DEF Moved
<1>5. MovedIsThere'
    BY <1>4 DEF IInv, MovedIsThere
<1> QED BY <1>2, <1>3, <1>5 DEF IInv

LEMMA FileStepsQuiet ==
    ASSUME IInv, NEW p \in Procs,
           \/ Link(p) \/ Size(p) \/ Replace(p) \/ Relink(p) \/ Same(p) \/ ReadOnly(p) \/ Rename(p)
           \/ Rawcp(p) \/ Move(p) \/ Compare(p) \/ Write(p)
    PROVE  Quiet(p)
<1> USE DEF IInv, Typed, Quiet, dirvars, filevars, FilePoints, DirPoints, Moved, Apart,
            Goto, Answer, Tmp
<1>1. CASE Link(p)
    <2>1. CASE ~Full(Source(p))
        BY <1>1, <2>1 DEF Link
    <2>2. CASE Full(Source(p))
        BY <1>1, <2>2 DEF Link
    <2> QED BY <2>1, <2>2
<1>2. CASE Replace(p)
    BY <1>2 DEF Replace
<1>3. CASE Relink(p)
    BY <1>3 DEF Relink
<1>4. CASE ReadOnly(p)
    BY <1>4 DEF ReadOnly
<1>5. CASE Rawcp(p)
    BY <1>5 DEF Rawcp
<1>6. CASE Rename(p)
    BY <1>6 DEF Rename
<1>7. CASE Write(p)
    BY <1>7 DEF Write
<1>8. CASE Size(p)
    BY <1>8 DEF Size
<1>9. CASE Same(p)
    BY <1>9 DEF Same
<1>10. CASE Move(p)
    BY <1>10 DEF Move
<1>11. CASE Compare(p)
    BY <1>11 DEF Compare
<1> QED BY <1>1, <1>2, <1>3, <1>4, <1>5, <1>6, <1>7, <1>8, <1>9, <1>10, <1>11

LEMMA CallKeeps ==
    ASSUME IInv, NEW p \in Procs, Call(p)
    PROVE  IInv'
<1> USE DEF IInv, Typed, dirvars, Goto, Answer
<1>1. PICK o \in Ops :
        /\ op' = [op EXCEPT ![p] = o]
        /\ \/ o = "insert" /\ Goto(p, "link") /\ UNCHANGED tmp
           \/ o = "insertdir" /\ tmp' = [tmp EXCEPT ![p] = calls + 2] /\ Goto(p, "lock")
           \/ o \in {"retrieve", "copy"} /\ UNCHANGED tmp
                /\ (Goto(p, "rawcp") \/ Goto(p, "link") \/ Answer(p, "no"))
    BY DEF Call, Fetches
<1>2. UNCHANGED dirvars /\ calls' = calls + 1 /\ pc[p] = "rest"
    BY DEF Call
<1>3. Typed'
    BY <1>1, <1>2
<1>4. \A q \in Procs \ {p} : pc'[q] = pc[q] /\ rc'[q] = rc[q] /\ tmp'[q] = tmp[q] /\ op'[q] = op[q]
    BY <1>1
<1>5. pc'[p] \in {"link", "lock", "rawcp", "rest"} /\ op'[p] = o
    BY <1>1
<1>6. \A q \in Procs : Inside(q)' => Inside(q)
    BY <1>4, <1>5 DEF Inside, Exclusive
<1>7. LockOwned' /\ NotInside'
    BY <1>2, <1>6 DEF LockOwned, NotInside
<1>8. pc'[p] = "lock" => op'[p] = "insertdir" /\ tmp'[p] = calls + 2
    BY <1>1
<1>9. Carries'
    BY <1>2, <1>4, <1>5, <1>8 DEF Carries, None
<1>10. PlaceIsFree'
    BY <1>2, <1>4, <1>5 DEF PlaceIsFree
<1>11. Apart'
    <2>1. pc'[p] \in FilePoints => op'[p] # "insertdir"
        BY <1>1 DEF FilePoints
    <2> QED BY <2>1, <1>4 DEF Apart
<1>12. MovedIsThere'
    <2>1. ~Moved(p)'
        BY <1>1 DEF Moved
    <2>2. \A q \in Procs : Moved(q)' => Moved(q)
        BY <2>1, <1>4 DEF Moved
    <2>3. \A q \in Procs : pc[q] = "in" => pc'[q] = "in"
        BY <1>2, <1>4
    <2> QED BY <2>2, <2>3, <1>2 DEF MovedIsThere
<1> QED BY <1>3, <1>7, <1>9, <1>10, <1>11, <1>12

--------------------------------------------------------------------------------
(***************************************************************************)
(* The steps of the cp of a directory.                                     *)
(***************************************************************************)
LEMMA LockKeeps ==
    ASSUME IInv, NEW p \in Procs, Lock(p)
    PROVE  IInv'
<1> USE DEF IInv, Typed, Goto
<1>1. pc' = [pc EXCEPT ![p] = "look"] /\ pc[p] = "lock" /\ ~lock
      /\ lock' = TRUE /\ owner' = {p} /\ UNCHANGED <<op, rc, tmp, dir, nested, expired, left, calls>>
    BY DEF Lock
<1>2. Typed' /\ Apart' /\ Carries' /\ PlaceIsFree' /\ NotInside'
    BY <1>1 DEF Apart, FilePoints, Carries, PlaceIsFree, NotInside
<1>3. LockOwned'
    <2>1. expired = {} => \A q \in Procs : ~Inside(q)
        BY <1>1 DEF LockOwned
    <2>2. \A q \in Procs \ {p} : Inside(q)' => Inside(q)
        BY <1>1 DEF Inside
    <2> QED BY <1>1, <2>1, <2>2 DEF LockOwned
<1>4. MovedIsThere'
    BY <1>1 DEF MovedIsThere, Moved
<1> QED BY <1>2, <1>3, <1>4

LEMMA ExpireKeeps ==
    ASSUME IInv, NEW p \in Procs, Expire(p)
    PROVE  IInv'
<1> USE DEF IInv, Typed, Goto
<1>1. pc' = [pc EXCEPT ![p] = "look"] /\ pc[p] = "lock" /\ expired' # {}
      /\ UNCHANGED <<op, rc, tmp, dir, nested, left, calls>>
    BY DEF Expire
<1>2. Typed' /\ Apart' /\ Carries' /\ LockOwned' /\ PlaceIsFree' /\ NotInside'
    BY <1>1 DEF Apart, FilePoints, Carries, LockOwned, PlaceIsFree, NotInside
<1>3. MovedIsThere'
    BY <1>1 DEF MovedIsThere, Moved
<1> QED BY <1>2, <1>3

LEMMA LookKeeps ==
    ASSUME IInv, NEW p \in Procs, Look(p)
    PROVE  IInv'
<1> USE DEF IInv, Typed, Goto
<1>1. pc' = [pc EXCEPT ![p] = IF dir = None THEN "in" ELSE "away"] /\ pc[p] = "look"
      /\ UNCHANGED <<op, rc, tmp, dir, nested, lock, owner, expired, left, calls>>
    BY DEF Look, dirvars
<1>2. Typed' /\ Apart' /\ Carries' /\ PlaceIsFree' /\ NotInside'
    BY <1>1 DEF Apart, FilePoints, Carries, PlaceIsFree, NotInside
<1>3. LockOwned'
    BY <1>1 DEF LockOwned, Inside, Exclusive
<1>4. MovedIsThere'
    <2>1. \A q \in Procs : Moved(q)' => Moved(q)
        BY <1>1 DEF Moved
    <2>2. \A q \in Procs : pc[q] = "in" => pc'[q] = "in"
        BY <1>1
    <2> QED BY <1>1, <2>1, <2>2 DEF MovedIsThere
<1> QED BY <1>2, <1>3, <1>4

LEMMA AwayKeeps ==
    ASSUME IInv, NEW p \in Procs, Away(p)
    PROVE  IInv'
<1> USE DEF IInv, Typed, Goto, Finish
<1>1. pc[p] = "away" /\ UNCHANGED <<op, tmp, lock, owner, expired, left, calls>>
    BY DEF Away
<1>2. CASE dir # None
    <2>1. dir' = None /\ nested' = {} /\ pc' = [pc EXCEPT ![p] = "in"] /\ UNCHANGED rc
        BY <1>2 DEF Away
    <2>2. Typed' /\ Apart' /\ Carries' /\ PlaceIsFree' /\ NotInside'
        BY <1>1, <2>1 DEF Apart, FilePoints, Carries, PlaceIsFree, NotInside
    <2>3. LockOwned'
        BY <1>1, <2>1 DEF LockOwned, Inside, Exclusive
    <2>4. MovedIsThere'
        BY <2>1 DEF MovedIsThere
    <2> QED BY <2>2, <2>3, <2>4
<1>3. CASE dir = None
    <2>1. pc' = [pc EXCEPT ![p] = "unlock"] /\ rc' = [rc EXCEPT ![p] = "error"] /\ UNCHANGED <<dir, nested>>
        BY <1>3 DEF Away
    <2>2. Typed' /\ Apart' /\ Carries' /\ PlaceIsFree' /\ NotInside'
        BY <1>1, <2>1 DEF Apart, FilePoints, Carries, PlaceIsFree, NotInside
    <2>3. LockOwned'
        BY <1>1, <2>1 DEF LockOwned, Inside, Exclusive
    <2>4. \A q \in Procs : Moved(q)' => Moved(q)
        BY <1>1, <2>1 DEF Moved
    <2>5. \A q \in Procs : pc[q] = "in" => pc'[q] = "in"
        BY <1>1, <2>1
    <2>6. MovedIsThere'
        BY <1>1, <2>1, <2>4, <2>5 DEF MovedIsThere
    <2> QED BY <2>2, <2>3, <2>6
<1> QED BY <1>2, <1>3

LEMMA InKeeps ==
    ASSUME IInv, NEW p \in Procs, In(p)
    PROVE  IInv'
<1> USE DEF IInv, Typed, Finish
<1>1. pc[p] = "in" /\ UNCHANGED <<op, tmp, lock, owner, expired, calls>>
    BY DEF In
<1>2. pc' = [pc EXCEPT ![p] = "unlock"] /\ \E r \in {"yes", "error"} : rc' = [rc EXCEPT ![p] = r]
    BY DEF In
<1>3. Typed' /\ Apart' /\ Carries'
    BY <1>1, <1>2 DEF Apart, FilePoints, Carries
<1>4. LockOwned'
    BY <1>1, <1>2 DEF LockOwned, Inside, Exclusive
<1>5. expired = {} => dir = None /\ \A q \in Procs : pc[q] = "in" => q = p
    BY <1>1 DEF PlaceIsFree, LockOwned, Inside, Exclusive
<1>6. PlaceIsFree'
    BY <1>1, <1>2, <1>5 DEF PlaceIsFree
<1>7. NotInside'
    BY <1>1, <1>5 DEF In, NotInside
<1>8. dir' # None \/ left'
    <2>1. tmp[p] # None
        BY <1>1 DEF Carries
    <2> QED BY <2>1 DEF In
<1>9. MovedIsThere'
    BY <1>8 DEF MovedIsThere
<1> QED BY <1>3, <1>4, <1>6, <1>7, <1>9

LEMMA UnlockKeeps ==
    ASSUME IInv, NEW p \in Procs, Unlock(p)
    PROVE  IInv'
<1> USE DEF IInv, Typed, Goto, Tmp
<1>1. pc[p] = "unlock" /\ pc' = [pc EXCEPT ![p] = "rest"] /\ tmp' = [tmp EXCEPT ![p] = None]
      /\ UNCHANGED <<op, rc, dir, nested, expired, left, calls>>
    BY DEF Unlock
<1>2. Typed' /\ Apart' /\ Carries' /\ PlaceIsFree' /\ NotInside'
    BY <1>1 DEF Apart, FilePoints, Carries, PlaceIsFree, NotInside
<1>3. LockOwned'
    <2>1. expired = {} => \A q \in Procs \ {p} : ~Inside(q)
        BY <1>1 DEF LockOwned, Inside
    <2>2. \A q \in Procs \ {p} : Inside(q)' => Inside(q)
        BY <1>1 DEF Inside
    <2>3. ~Inside(p)'
        BY <1>1 DEF Inside, Exclusive
    <2> QED BY <1>1, <2>1, <2>2, <2>3 DEF LockOwned
<1>4. MovedIsThere'
    BY <1>1 DEF MovedIsThere, Moved
<1> QED BY <1>2, <1>3, <1>4

LEMMA DieKeeps ==
    ASSUME IInv, NEW p \in Procs, Die(p)
    PROVE  IInv'
<1> USE DEF IInv, Typed, Goto
<1>1. pc' = [pc EXCEPT ![p] = "dead"] /\ left' = (left \/ (pc[p] = "in" /\ dir = None))
      /\ UNCHANGED <<op, rc, tmp, dir, nested, lock, owner, expired, calls>>
    BY DEF Die
<1>2. Typed' /\ Apart' /\ Carries' /\ PlaceIsFree' /\ NotInside'
    BY <1>1 DEF Apart, FilePoints, Carries, PlaceIsFree, NotInside
<1>3. LockOwned'
    BY <1>1 DEF LockOwned, Inside, Exclusive
<1>4. MovedIsThere'
    <2>1. \A q \in Procs : Moved(q)' => Moved(q)
        BY <1>1 DEF Moved
    <2>2. \A q \in Procs \ {p} : pc[q] = "in" => pc'[q] = "in"
        BY <1>1
    <2> QED BY <1>1, <2>1, <2>2 DEF MovedIsThere
<1> QED BY <1>2, <1>3, <1>4

--------------------------------------------------------------------------------
THEOREM IInvAlways == Spec => []IInv
<1>1. Init => IInv
    BY DEF Init, IInv, Typed, LockOwned, Inside, Exclusive, Carries, PlaceIsFree, MovedIsThere,
           Moved, NotInside, Apart, FilePoints
<1>2. IInv /\ [Next]_vars => IInv'
    <2> SUFFICES ASSUME IInv, [Next]_vars
                 PROVE  IInv'
        OBVIOUS
    <2>1. CASE UNCHANGED vars
        BY <2>1 DEF vars, dirvars, IInv, Typed, LockOwned, Inside, Carries, PlaceIsFree,
                    MovedIsThere, Moved, NotInside, Apart
    <2>2. ASSUME NEW p \in Procs, Call(p) \/ Step(p) \/ Write(p) \/ Die(p)
          PROVE  IInv'
        <3>1. CASE Call(p)
            BY <3>1, CallKeeps
        <3>2. CASE \/ Link(p) \/ Size(p) \/ Replace(p) \/ Relink(p) \/ Same(p) \/ ReadOnly(p)
                  \/ Rename(p) \/ Rawcp(p) \/ Move(p) \/ Compare(p) \/ Write(p)
            BY <3>2, FileStepsQuiet, QuietKeeps
        <3>3. CASE Lock(p)
            BY <3>3, LockKeeps
        <3>4. CASE Expire(p)
            BY <3>4, ExpireKeeps
        <3>5. CASE Look(p)
            BY <3>5, LookKeeps
        <3>6. CASE Away(p)
            BY <3>6, AwayKeeps
        <3>7. CASE In(p)
            BY <3>7, InKeeps
        <3>8. CASE Unlock(p)
            BY <3>8, UnlockKeeps
        <3>9. CASE Die(p)
            BY <3>9, DieKeeps
        <3> QED BY <2>2, <3>1, <3>2, <3>3, <3>4, <3>5, <3>6, <3>7, <3>8, <3>9 DEF Step
    <2> QED BY <2>1, <2>2 DEF Next
<1> QED BY <1>1, <1>2, PTL DEF Spec

\* For any number of processes: as long as nobody has gone on without the lock, one
\* at most is between its creation and its removal.
THEOREM OneAtATime == Spec => []LockExclusive
<1>1. IInv => LockExclusive
    BY DEF IInv, LockOwned, LockExclusive
<1> QED BY <1>1, IInvAlways, PTL

\* Then a directory never lands inside of the former one.
THEOREM NeverNested == Spec => []NotInside
<1>1. IInv => NotInside
    BY DEF IInv
<1> QED BY <1>1, IInvAlways, PTL

\* Lock or no lock, a directory that was moved in the cache is missing only while
\* another one replaces it, or after a death or a failure at that very point.
THEOREM DirectoryStays == Spec => []DirThere
<1>1. IInv => DirThere
    BY DEF IInv, MovedIsThere, Moved, DirThere
<1> QED BY <1>1, IInvAlways, PTL

--------------------------------------------------------------------------------
(***************************************************************************)
(* The file of the cache: who may write in which inode.                    *)
(***************************************************************************)
Shape ==
    /\ DOMAIN pc = Procs /\ DOMAIN op = Procs /\ DOMAIN rc = Procs
    /\ DOMAIN tmp = Procs /\ DOMAIN local = Procs /\ DOMAIN seen = Procs
    /\ inode \in [Inodes -> [v : Nat, writable : BOOLEAN, others : Nat]]
    /\ \A i \in Inodes \ {1} : inode[i].others = 0
    /\ used \in Nat \ {0} /\ calls \in 0..MaxCalls

\* A process makes one inode at most during a call: those that have not made theirs yet
Owes(p) ==
    \/ pc[p] = "link" /\ op[p] = "retrieve"
    \/ pc[p] \in {"same", "readonly"} /\ p \in Foreign
    \/ pc[p] = "rawcp"
Debtors == {p \in Procs : Owes(p)}
Counted == used + Cardinality(Debtors) <= 1 + calls

\* The temporary name of a process is a name of a file
Holds(p) == pc[p] \in {"size", "replace", "same", "readonly", "rename", "move"}
Refs ==
    /\ cached \in 0..used
    /\ \A p \in Procs : /\ local[p] \in 0..used /\ seen[p] \subseteq 1..used
                        /\ Holds(p) => tmp[p] \in 1..used

Writable(i) == inode[i].writable
Intact(i) == inode[i].v # Altered

\* What the control point says of the operation and of its file
Stage(p) ==
    /\ pc[p] \in FilePoints => op[p] \in {"insert", "retrieve", "copy"}
    /\ pc[p] \in DirPoints => op[p] = "insertdir"
    /\ pc[p] \in FilePoints /\ op[p] # "insert" => cached # None /\ (pc[p] # "compare" => local[p] = None)
    /\ pc[p] \in FilePoints /\ op[p] = "insert"
           => pc[p] \in {"link", "same", "readonly", "rename"} /\ p \notin Foreign
    /\ pc[p] \in {"size", "replace", "relink"} => op[p] = "retrieve" /\ p \notin Foreign
    /\ pc[p] \in {"link", "same", "readonly", "rename"} => op[p] \in {"retrieve", "insert"}
    /\ pc[p] = "link" /\ op[p] = "insert" => local[p] \in 2..used
    /\ pc[p] = "same" /\ op[p] = "insert" => tmp[p] = local[p]
    /\ pc[p] = "rename" => ~Writable(tmp[p])
    /\ pc[p] = "compare" => local[p] # None

\* What is, or is about to be, in the cache or in the hands of a reader
Sound(p) ==
    /\ Holds(p) => Intact(tmp[p])
    /\ pc[p] = "link" /\ op[p] = "insert" => Intact(local[p])
    /\ pc[p] = "compare" => Intact(local[p])
    /\ pc[p] = "rest" /\ op[p] = "retrieve" /\ rc[p] = "yes"
           => local[p] # None /\ Intact(local[p]) /\ ~Writable(local[p])

\* A file that its process may write in is nobody else's, and never was in the cache
Alone(p, i) ==
    /\ i # cached /\ \A q \in Procs : i \notin seen[q]
    /\ \A q \in Procs \ {p} : local[q] # i /\ (Holds(q) => tmp[q] # i)
Private(p) ==
    /\ local[p] # None /\ Writable(local[p]) => Alone(p, local[p])
    /\ pc[p] = "move" => Alone(p, tmp[p])

FileInv ==
    /\ Shape /\ Counted /\ Refs
    /\ cached # None => Intact(cached)
    /\ \A p \in Procs : Stage(p) /\ Sound(p) /\ Private(p)
--------------------------------------------------------------------------------
(***************************************************************************)
(* Links and inodes are enough.                                            *)
(***************************************************************************)
LEMMA DebtorsFinite ==
    /\ IsFiniteSet(Debtors) /\ Cardinality(Debtors) \in Nat
    /\ IsFiniteSet(Debtors') /\ Cardinality(Debtors') \in Nat
<1>1. Debtors \subseteq Procs /\ Debtors' \subseteq Procs
    BY DEF Debtors
<1> QED BY <1>1, FS_Subset, FS_CardinalityType, FileLayerAssumption

LEMMA DebtsGrow ==
    ASSUME NEW p, Debtors' \subseteq Debtors \cup {p}
    PROVE  Cardinality(Debtors') <= Cardinality(Debtors) + 1
<1>1. IsFiniteSet(Debtors \cup {p}) /\ Cardinality(Debtors \cup {p}) <= Cardinality(Debtors) + 1
    BY DebtorsFinite, FS_AddElement
<1>2. Cardinality(Debtors') <= Cardinality(Debtors \cup {p}) /\ Cardinality(Debtors \cup {p}) \in Nat
    BY <1>1, FS_Subset, FS_CardinalityType
<1> QED BY <1>1, <1>2, DebtorsFinite

LEMMA DebtsStay ==
    ASSUME Debtors' \subseteq Debtors
    PROVE  Cardinality(Debtors') <= Cardinality(Debtors)
BY DebtorsFinite, FS_Subset

LEMMA DebtPaid ==
    ASSUME NEW p \in Debtors, Debtors' \subseteq Debtors \ {p}
    PROVE  Cardinality(Debtors') + 1 <= Cardinality(Debtors)
<1>1. IsFiniteSet(Debtors \ {p}) /\ Cardinality(Debtors \ {p}) = Cardinality(Debtors) - 1
    BY DebtorsFinite, FS_RemoveElement
<1>2. Cardinality(Debtors') <= Cardinality(Debtors \ {p})
    BY <1>1, FS_Subset
<1> QED BY <1>1, <1>2, DebtorsFinite

LEMMA RoomForOne ==
    ASSUME FileInv, NEW p \in Debtors
    PROVE  used + 1 \in Inodes
<1>1. Cardinality(Debtors) # 0
    BY DebtorsFinite, FS_EmptySet
<1> QED BY <1>1, DebtorsFinite, FileLayerAssumption DEF FileInv, Counted, Shape, Inodes

\* Only the inode that was there in the beginning may have all its links
LEMMA NeverFull ==
    ASSUME FileInv, NEW i \in 2..used
    PROVE  ~Full(i)
<1>1. /\ Cardinality({p \in Procs : local[p] = i}) \in 0..Cardinality(Procs)
      /\ Cardinality({p \in Procs : tmp[p] = i /\ op[p] # "insertdir"}) \in 0..Cardinality(Procs)
      /\ Cardinality(Procs) \in Nat
    <2>1. ASSUME NEW S, S \subseteq Procs
          PROVE  Cardinality(S) \in 0..Cardinality(Procs)
        BY <2>1, FS_Subset, FS_CardinalityType, FileLayerAssumption
    <2>2. {p \in Procs : local[p] = i} \subseteq Procs
        OBVIOUS
    <2>3. {p \in Procs : tmp[p] = i /\ op[p] # "insertdir"} \subseteq Procs
        OBVIOUS
    <2>4. Cardinality(Procs) \in Nat
        BY FS_CardinalityType, FileLayerAssumption
    <2> QED BY <2>1, <2>2, <2>3, <2>4
<1>2. i \in Inodes \ {1}
    BY DebtorsFinite, FileLayerAssumption DEF FileInv, Counted, Shape, Inodes
<1>3. Names(i) <= 2 * Cardinality(Procs) + 1 /\ Names(i) \in Nat
    BY <1>1 DEF Names
<1>4. inode[i].others = 0
    BY <1>2 DEF FileInv, Shape
<1> QED BY <1>1, <1>3, <1>4, FileLayerAssumption DEF Full

LEMMA Made ==
    ASSUME Shape, NEW n \in Nat, NewInode(n), used + 1 \in Inodes
    PROVE  /\ inode' \in [Inodes -> [v : Nat, writable : BOOLEAN, others : Nat]]
           /\ \A i \in Inodes \ {1} : inode'[i].others = 0
           /\ used' = used + 1 /\ used' \in Nat \ {0}
           /\ \A i \in 1..used : inode'[i] = inode[i]
           /\ inode'[used + 1].v = n /\ inode'[used + 1].writable
BY DEF Shape, NewInode, Inodes

--------------------------------------------------------------------------------
(***************************************************************************)
(* What a step of a process leaves to the others.                          *)
(***************************************************************************)
\* An inode only becomes read-only, and a name is only given to an inode that the
\* process knows, to the inode of the cache or to a new one
Frame(p) ==
    /\ \A q \in Procs \ {p} : /\ pc'[q] = pc[q] /\ op'[q] = op[q] /\ rc'[q] = rc[q]
                              /\ local'[q] = local[q] /\ (Holds(q) => tmp'[q] = tmp[q])
                              /\ seen[q] \subseteq seen'[q] /\ (~Fetching(q) => seen'[q] = seen[q])
                              /\ Fetching(q) /\ cached' # cached => cached' \in seen'[q]
    /\ \A q \in Procs : seen'[q] \subseteq seen[q] \cup ({cached'} \ {None})
    /\ used' \in Nat /\ used <= used'
    /\ \A i \in 1..used : inode'[i].v = inode[i].v /\ (inode'[i].writable => inode[i].writable)
    /\ cached' = cached \/ (Holds(p) /\ cached' = tmp[p])
    /\ \/ local'[p] \in {local[p], None} \/ local'[p] = used + 1
       \/ Holds(p) /\ local'[p] = tmp[p]
    /\ Holds(p)' => \/ Holds(p) /\ tmp'[p] = tmp[p]
                    \/ tmp'[p] = cached \/ tmp'[p] = used + 1
                    \/ tmp'[p] = local[p] /\ local[p] # None

LEMMA OthersKeep ==
    ASSUME FileInv, NEW p \in Procs, Frame(p), NEW q \in Procs \ {p}
    PROVE  /\ local'[q] \in 0..used' /\ (Holds(q)' => tmp'[q] \in 1..used')
           /\ Stage(q)' /\ Sound(q)' /\ Private(q)'
<1>1. /\ pc'[q] = pc[q] /\ op'[q] = op[q] /\ rc'[q] = rc[q] /\ local'[q] = local[q]
      /\ Holds(q)' = Holds(q) /\ (Holds(q) => tmp'[q] = tmp[q] /\ tmp[q] \in 1..used)
      /\ local[q] \in 0..used /\ used \in Nat /\ used' \in Nat /\ used <= used'
    BY DEF Frame, Holds, FileInv, Refs, Shape
<1>2. \A i \in 1..used : inode'[i].v = inode[i].v /\ (inode'[i].writable => inode[i].writable)
    BY DEF Frame
<1>3. /\ cached' = cached \/ (Holds(p) /\ cached' = tmp[p])
      /\ Holds(p) => tmp[p] \in 1..used
      /\ cached \in 0..used /\ local[p] \in 0..used
    BY DEF Frame, FileInv, Refs
<1>4. Stage(q)'
    <2>1. cached # None => cached' # None
        BY <1>3 DEF None
    <2>2. pc[q] = "rename" => ~inode'[tmp'[q]].writable
        BY <1>1, <1>2 DEF FileInv, Stage, Writable, Holds
    <2>3. pc[q] = "link" /\ op[q] = "insert" => local'[q] \in 2..used'
        BY <1>1 DEF FileInv, Stage
    <2>4. pc[q] = "same" => tmp'[q] = tmp[q]
        BY <1>1 DEF Holds
    <2> QED BY <1>1, <2>1, <2>2, <2>3, <2>4 DEF FileInv, Stage, Writable
<1>5. Sound(q)'
    <2>1. local[q] # None => local[q] \in 1..used
        BY <1>1 DEF None
    <2>2. Holds(q)' => inode'[tmp'[q]].v # Altered
        BY <1>1, <1>2 DEF FileInv, Sound, Intact
    <2>3. pc[q] = "link" /\ op[q] = "insert" => inode'[local'[q]].v # Altered
        BY <1>1, <1>2, <2>1 DEF FileInv, Sound, Stage, Intact, None
    <2>4. pc[q] = "rest" /\ op[q] = "retrieve" /\ rc[q] = "yes"
             => local[q] # None /\ inode'[local'[q]].v # Altered /\ ~inode'[local'[q]].writable
        BY <1>1, <1>2, <2>1 DEF FileInv, Sound, Intact, Writable
    <2>5. pc[q] = "compare" => inode'[local'[q]].v # Altered
        BY <1>1, <1>2, <2>1 DEF FileInv, Sound, Stage, Intact
    <2> QED BY <1>1, <2>2, <2>3, <2>4, <2>5 DEF Sound, Intact, Writable
<1>6. ASSUME NEW i \in 1..used, Alone(q, i)
      PROVE  Alone(q, i)'
    <2>1. i # cached'
        BY <1>3, <1>6 DEF Alone
    <2>2. ASSUME NEW r \in Procs \ {q}
          PROVE  local'[r] # i /\ (Holds(r)' => tmp'[r] # i)
        <3>1. CASE r = p
            <4>1. local'[p] # i
                BY <1>1, <1>3, <1>6 DEF Alone, Frame, None
            <4>2. Holds(p)' => tmp'[p] # i
                BY <1>1, <1>3, <1>6 DEF Alone, Frame, None
            <4> QED BY <3>1, <4>1, <4>2
        <3>2. CASE r # p
            BY <1>6, <3>2 DEF Alone, Frame, Holds
        <3> QED BY <3>1, <3>2
    <2>3. \A r \in Procs : i \notin seen'[r]
        BY <1>6, <2>1 DEF Alone, Frame
    <2> QED BY <2>1, <2>2, <2>3 DEF Alone
<1>7. Private(q)'
    <2>1. local'[q] # None /\ inode'[local'[q]].writable => Alone(q, local[q])' /\ local'[q] = local[q]
        <3>1. local[q] # None => local[q] \in 1..used
            BY <1>1 DEF None
        <3>2. local[q] # None /\ inode'[local[q]].writable => Alone(q, local[q])
            BY <1>2, <3>1 DEF FileInv, Private, Writable
        <3> DEFINE i == local[q]
        <3>3. i \in 1..used /\ Alone(q, i) => /\ i # cached' /\ \A r \in Procs : i \notin seen'[r]
                                              /\ \A r \in Procs \ {q} : local'[r] # i /\ (Holds(r)' => tmp'[r] # i)
            <4> HIDE DEF i
            <4> QED BY <1>6 DEF Alone
        <3> QED BY <1>1, <3>1, <3>2, <3>3 DEF Alone
    <2>2. pc'[q] = "move" => Alone(q, tmp[q])' /\ tmp'[q] = tmp[q]
        <3> DEFINE i == tmp[q]
        <3>1. i \in 1..used /\ Alone(q, i) => /\ i # cached' /\ \A r \in Procs : i \notin seen'[r]
                                              /\ \A r \in Procs \ {q} : local'[r] # i /\ (Holds(r)' => tmp'[r] # i)
            <4> HIDE DEF i
            <4> QED BY <1>6 DEF Alone
        <3> QED BY <1>1, <3>1 DEF Alone, FileInv, Private, Holds
    <2> QED BY <2>1, <2>2 DEF Private, Writable
<1> QED BY <1>1, <1>4, <1>5, <1>7

\* Each call makes one inode at most, at the step that pays for it
LEMMA CountKeeps ==
    ASSUME FileInv, NEW p \in Procs, Frame(p),
           \/ used' = used /\ calls' = calls /\ (Owes(p)' => Owes(p))
           \/ used' = used + 1 /\ calls' = calls /\ Owes(p) /\ ~Owes(p)'
           \/ used' = used /\ calls' = calls + 1
           \/ used' = used + 1 /\ calls' = calls + 1 /\ ~Owes(p)'
    PROVE  Counted'
<1>1. /\ Debtors' \subseteq Debtors \cup {p}
      /\ (Owes(p)' => Owes(p)) => Debtors' \subseteq Debtors
      /\ ~Owes(p)' => Debtors' \subseteq Debtors \ {p}
    BY DEF Debtors, Owes, Frame
<1>2. used \in Nat /\ calls \in Nat /\ used + Cardinality(Debtors) <= 1 + calls
    BY DEF FileInv, Shape, Counted
<1>3. CASE used' = used /\ calls' = calls /\ (Owes(p)' => Owes(p))
    BY <1>1, <1>2, <1>3, DebtsStay, DebtorsFinite DEF Counted
<1>4. CASE used' = used + 1 /\ calls' = calls /\ Owes(p) /\ ~Owes(p)'
    <2>1. p \in Debtors
        BY <1>4 DEF Debtors
    <2> QED BY <1>1, <1>2, <1>4, <2>1, DebtPaid, DebtorsFinite DEF Counted
<1>5. CASE used' = used /\ calls' = calls + 1
    <2>1. Cardinality(Debtors') <= Cardinality(Debtors) + 1
        BY <1>1, DebtsGrow
    <2> QED BY <1>2, <1>5, <2>1, DebtorsFinite DEF Counted
<1>6. CASE used' = used + 1 /\ calls' = calls + 1 /\ ~Owes(p)'
    BY <1>1, <1>2, <1>6, DebtsStay, DebtorsFinite DEF Counted
<1> QED BY <1>3, <1>4, <1>5, <1>6

\* What a step owes to the process itself
Own(p) ==
    /\ Shape' /\ Counted'
    /\ local'[p] \in 0..used' /\ (Holds(p)' => tmp'[p] \in 1..used')
    /\ Stage(p)' /\ Sound(p)' /\ Private(p)'

LEMMA FileKeeps ==
    ASSUME FileInv, NEW p \in Procs, Frame(p), Own(p)
    PROVE  FileInv'
<1>1. Refs'
    <2>1. cached' \in 0..used'
        BY DEF Frame, FileInv, Refs, Shape
    <2>2. \A q \in Procs : local'[q] \in 0..used' /\ (Holds(q)' => tmp'[q] \in 1..used')
        BY OthersKeep DEF Own
    <2>3. \A q \in Procs : seen'[q] \subseteq 1..used'
        <3>1. \A q \in Procs : seen[q] \subseteq 1..used /\ seen'[q] \subseteq seen[q] \cup ({cached'} \ {None})
            BY DEF Frame, FileInv, Refs
        <3>2. used \in Nat /\ used' \in Nat /\ used <= used'
            BY DEF Frame, FileInv, Shape
        <3> QED BY <2>1, <3>1, <3>2 DEF None
    <2> QED BY <2>1, <2>2, <2>3 DEF Refs
<1>2. cached' # None => Intact(cached)'
    <2>1. cached \in 0..used /\ (Holds(p) => tmp[p] \in 1..used) /\ used \in Nat
        BY DEF FileInv, Refs, Shape
    <2>2. CASE cached' = cached
        BY <2>1, <2>2 DEF Frame, FileInv, Intact, None
    <2>3. CASE Holds(p) /\ cached' = tmp[p]
        BY <2>1, <2>3 DEF Frame, FileInv, Sound, Intact
    <2> QED BY <2>2, <2>3 DEF Frame
<1>3. \A q \in Procs : Stage(q)' /\ Sound(q)' /\ Private(q)'
    BY OthersKeep DEF Own
<1> QED BY <1>1, <1>2, <1>3 DEF FileInv, Own

--------------------------------------------------------------------------------
(***************************************************************************)
(* The steps, one by one.                                                  *)
(***************************************************************************)
USE DEF FilePoints, DirPoints

LEMMA LinkFile ==
    ASSUME FileInv, NEW p \in Procs, Link(p)
    PROVE  Frame(p) /\ Own(p)
<1> DEFINE src == Source(p)
<1>1. /\ pc[p] = "link" /\ op[p] \in {"retrieve", "insert"}
      /\ op[p] = "insert" => src = local[p] /\ local[p] \in 2..used /\ p \notin Foreign
      /\ op[p] = "retrieve" => src = cached /\ cached # None /\ local[p] = None
      /\ src \in 1..used /\ used \in Nat /\ used # 0
    BY DEF Link, FileInv, Stage, Source, Refs, None, Shape
<1>2. Intact(src)
    BY <1>1 DEF FileInv, Sound
<1>3. UNCHANGED <<op, cached, local, calls, seen>> /\ calls \in 0..MaxCalls
    BY DEF Link, FileInv, Shape
<1>4. CASE ~Full(src) /\ tmp' = [tmp EXCEPT ![p] = src] /\ pc' = [pc EXCEPT ![p] = "same"]
           /\ UNCHANGED <<rc, inode, used>>
    <2>1. Shape'
        BY <1>3, <1>4 DEF FileInv, Shape
    <2>2. pc'[p] = "same" /\ tmp'[p] = src
        BY <1>4 DEF FileInv, Shape
    <2>3. Frame(p)
        BY <1>1, <1>3, <1>4, <2>2 DEF Frame, FileInv, Shape, Holds, None
    <2>4. Counted'
        <3>1. Owes(p)' => Owes(p)
            BY <1>1, <1>3, <2>2 DEF Owes, FileInv, Stage
        <3> QED BY <1>3, <1>4, <2>3, <3>1, CountKeeps
    <2>5. Stage(p)'
        BY <1>1, <1>3, <2>2 DEF Stage, FileInv
    <2>6. Private(p)'
        <3>1. op[p] = "retrieve" => local'[p] = None
            BY <1>1, <1>3
        <3>2. CASE op[p] = "insert" /\ local[p] # None /\ Writable(local[p])
            <4>1. Alone(p, local[p])
                BY <3>2 DEF FileInv, Private
            <4>2. \A q \in Procs \ {p} : local'[q] = local[q] /\ (Holds(q)' => Holds(q) /\ tmp'[q] = tmp[q])
                BY <1>3, <1>4 DEF Holds, FileInv, Shape
            <4> QED BY <1>3, <2>2, <4>1, <4>2 DEF Private, Alone
        <3> QED BY <1>1, <1>3, <1>4, <2>2, <3>1, <3>2 DEF Private, Writable
    <2> QED BY <1>1, <1>2, <1>3, <1>4, <2>1, <2>2, <2>3, <2>4, <2>5, <2>6
            DEF Own, Sound, Holds, Intact, FileInv, Refs
<1>5. CASE Full(src) /\ p \notin Foreign /\ NewInode(inode[src].v) /\ tmp' = [tmp EXCEPT ![p] = used + 1]
           /\ pc' = [pc EXCEPT ![p] = "size"] /\ UNCHANGED rc
    <2>1. op[p] = "retrieve" /\ p \in Debtors
        BY <1>1, <1>5, NeverFull DEF Debtors, Owes
    <2>2. used + 1 \in Inodes /\ src \in Inodes
        <3>1. used + 1 \in Inodes
            BY <2>1, RoomForOne
        <3> QED BY <1>1, <3>1, FileLayerAssumption DEF Inodes
    <2>3. inode[src].v \in Nat
        BY <2>2 DEF FileInv, Shape
    <2>4. /\ used' = used + 1 /\ used' \in Nat \ {0}
          /\ \A i \in 1..used : inode'[i] = inode[i]
          /\ inode'[used + 1].v = inode[src].v
        BY <1>5, <2>2, <2>3, Made DEF FileInv
    <2>5. Shape'
        BY <1>3, <1>5, <2>2, <2>3, Made DEF FileInv, Shape
    <2>6. pc'[p] = "size" /\ tmp'[p] = used + 1
        BY <1>5 DEF FileInv, Shape
    <2>7. Frame(p)
        BY <1>3, <1>5, <2>4, <2>6 DEF Frame, FileInv, Shape
    <2>8. Counted'
        <3>1. Owes(p) /\ ~Owes(p)'
            BY <2>1, <2>6 DEF Owes, Debtors
        <3> QED BY <1>3, <2>4, <2>7, <3>1, CountKeeps
    <2>9. Stage(p)' /\ Private(p)'
        BY <1>1, <1>3, <1>5, <2>1, <2>6 DEF Stage, Private
    <2> QED BY <1>1, <1>2, <1>3, <2>1, <2>4, <2>5, <2>6, <2>7, <2>8, <2>9
            DEF Own, Sound, Holds, Intact, None
<1>6. CASE Full(src) /\ p \in Foreign /\ Answer(p, "error") /\ UNCHANGED <<inode, used, tmp>>
    <2>1. op[p] = "retrieve" /\ local[p] = None
        BY <1>1, <1>6
    <2>2. Shape' /\ pc'[p] = "rest" /\ rc'[p] = "error"
        BY <1>3, <1>6 DEF FileInv, Shape, Answer
    <2>3. Frame(p)
        BY <1>3, <1>6, <2>2 DEF Frame, FileInv, Shape, Answer, Holds
    <2>4. Counted'
        BY <1>3, <1>6, <2>2, <2>3, CountKeeps DEF Owes
    <2> QED BY <1>1, <1>3, <1>6, <2>1, <2>2, <2>3, <2>4
            DEF Own, Stage, Sound, Private, Holds, None
<1> QED BY <1>4, <1>5, <1>6 DEF Link, Goto, Tmp

\* A step that makes no inode and leaves the temporary name of nobody but the process
LEMMA Known ==
    ASSUME FileInv, NEW p \in Procs
    PROVE  /\ cached \in 0..used /\ local[p] \in 0..used /\ (Holds(p) => tmp[p] \in 1..used)
           /\ \A q \in Procs : seen[q] \subseteq 1..used
           /\ used \in Nat /\ used # 0 /\ calls \in 0..MaxCalls
           /\ Stage(p) /\ Sound(p) /\ Private(p)
BY DEF FileInv, Refs, Shape

LEMMA ReplaceFile ==
    ASSUME FileInv, NEW p \in Procs, Replace(p)
    PROVE  Frame(p) /\ Own(p)
<1>1. /\ pc[p] = "replace" /\ pc' = [pc EXCEPT ![p] = "relink"] /\ cached' = tmp[p]
      /\ tmp' = [tmp EXCEPT ![p] = None] /\ UNCHANGED <<rc, op, inode, used, local, calls>>
      /\ seen' = [q \in Procs |-> IF Fetching(q) THEN seen[q] \cup {tmp[p]} ELSE seen[q]]
    BY DEF Replace, Goto, Tmp, Seen
<1>2. Shape' /\ pc'[p] = "relink"
    BY <1>1 DEF FileInv, Shape
<1>3. Frame(p)
    <2>1. cached' # None /\ Holds(p)
        BY <1>1, Known DEF Holds, None
    <2> QED BY <1>1, <1>2, <2>1, Known DEF Frame, FileInv, Shape, Holds
<1>4. Counted'
    BY <1>1, <1>2, <1>3, CountKeeps DEF Owes
<1>5. Stage(p)' /\ Sound(p)' /\ Private(p)'
    BY <1>1, <1>2, Known DEF Stage, Sound, Private, Holds, None
<1> QED BY <1>1, <1>2, <1>3, <1>4, <1>5, Known DEF Own, Holds

LEMMA RelinkFile ==
    ASSUME FileInv, NEW p \in Procs, Relink(p)
    PROVE  Frame(p) /\ Own(p)
<1>1. /\ pc[p] = "relink" /\ pc' = [pc EXCEPT ![p] = "same"] /\ tmp' = [tmp EXCEPT ![p] = cached]
      /\ UNCHANGED <<rc, op, inode, used, cached, local, calls, seen>>
    BY DEF Relink, Goto, Tmp, filevars
<1>2. Shape' /\ pc'[p] = "same" /\ tmp'[p] = cached
    BY <1>1 DEF FileInv, Shape
<1>3. Frame(p)
    BY <1>1, <1>2, Known DEF Frame, FileInv, Shape, Holds
<1>4. op[p] = "retrieve" /\ p \notin Foreign /\ local[p] = None /\ cached # None
    BY <1>1, Known DEF Stage
<1>5. Counted'
    BY <1>1, <1>2, <1>3, <1>4, CountKeeps DEF Owes
<1>6. Stage(p)' /\ Private(p)'
    BY <1>1, <1>2, <1>4, Known DEF Stage, Private
<1>7. Sound(p)'
    BY <1>1, <1>2, <1>4 DEF Sound, Intact, FileInv
<1> QED BY <1>1, <1>2, <1>3, <1>4, <1>5, <1>6, <1>7, Known DEF Own, None

\* The checks that end well leave everything as it is
LEMMA Onward ==
    ASSUME FileInv, NEW p \in Procs, UNCHANGED <<rc, op, inode, used, cached, local, tmp, calls, seen>>,
           \/ pc[p] = "size" /\ pc' = [pc EXCEPT ![p] = "replace"]
           \/ pc[p] = "same" /\ pc' = [pc EXCEPT ![p] = "readonly"]
    PROVE  Frame(p) /\ Own(p)
<1>1. Shape' /\ pc'[p] \in {"replace", "readonly"} /\ Holds(p)
    BY DEF FileInv, Shape, Holds
<1>2. Frame(p)
    BY <1>1, Known DEF Frame, FileInv, Shape, Holds
<1>3. Counted'
    BY <1>1, <1>2, CountKeeps DEF Owes, FileInv, Shape
<1>4. Stage(p)' /\ Sound(p)'
    BY <1>1, Known DEF Stage, Sound, Holds, FileInv, Shape, Intact
<1>5. Private(p)'
    <2>1. \A q \in Procs \ {p} : Holds(q)' => Holds(q)
        BY DEF Holds, FileInv, Shape
    <2> QED BY <1>1, <2>1, Known DEF Private, Alone, Writable
<1> QED BY <1>1, <1>2, <1>3, <1>4, <1>5, Known DEF Own

\* Those that fail remove the link or the copy
LEMMA Refused ==
    ASSUME FileInv, NEW p \in Procs, pc[p] \in {"size", "same"}, op[p] # "insert",
           UNCHANGED <<op, inode, used, cached, local, calls, seen>>,
           pc' = [pc EXCEPT ![p] = "rest"], rc' = [rc EXCEPT ![p] = "no"], tmp' = [tmp EXCEPT ![p] = None]
    PROVE  Frame(p) /\ Own(p)
<1>1. Shape' /\ pc'[p] = "rest" /\ rc'[p] = "no" /\ local'[p] = None
    BY Known DEF FileInv, Shape, Stage
<1>2. Frame(p)
    BY <1>1, Known DEF Frame, FileInv, Shape, Holds
<1>3. Counted'
    BY <1>1, <1>2, CountKeeps DEF Owes
<1>4. Stage(p)' /\ Sound(p)' /\ Private(p)'
    BY <1>1 DEF Stage, Sound, Private, Holds
<1> QED BY <1>1, <1>2, <1>3, <1>4, Known DEF Own, Holds

LEMMA SizeFile ==
    ASSUME FileInv, NEW p \in Procs, Size(p)
    PROVE  Frame(p) /\ Own(p)
<1>1. pc[p] = "size" /\ op[p] # "insert" /\ UNCHANGED <<op, inode, used, cached, local, calls, seen>>
    BY Known DEF Size, Stage, filevars
<1>2. \/ pc' = [pc EXCEPT ![p] = "replace"] /\ UNCHANGED <<rc, tmp>>
      \/ /\ pc' = [pc EXCEPT ![p] = "rest"] /\ rc' = [rc EXCEPT ![p] = "no"]
         /\ tmp' = [tmp EXCEPT ![p] = None]
    BY DEF Size, Goto, Answer, Tmp
<1> QED BY <1>1, <1>2, Onward, Refused

LEMMA SameFile ==
    ASSUME FileInv, NEW p \in Procs, Same(p)
    PROVE  Frame(p) /\ Own(p)
<1>1. pc[p] = "same" /\ UNCHANGED <<op, inode, used, cached, local, calls, seen>>
    BY DEF Same, filevars
<1>2. \/ pc' = [pc EXCEPT ![p] = "readonly"] /\ UNCHANGED <<rc, tmp>>
      \/ /\ pc' = [pc EXCEPT ![p] = "rest"] /\ rc' = [rc EXCEPT ![p] = "no"]
         /\ tmp' = [tmp EXCEPT ![p] = None] /\ op[p] # "insert"
    BY <1>1, Known DEF Same, Goto, Answer, Tmp, Source, Stage
<1> QED BY <1>1, <1>2, Onward, Refused

LEMMA ReadOnlyFile ==
    ASSUME FileInv, NEW p \in Procs, ReadOnly(p)
    PROVE  Frame(p) /\ Own(p)
<1> DEFINE i == tmp[p]
<1>1. pc[p] = "readonly" /\ UNCHANGED <<rc, op, used, cached, local, calls, seen>>
    BY DEF ReadOnly, Goto, Tmp
<1>2. i \in 1..used /\ i \in Inodes
    <2>1. i \in 1..used
        BY <1>1, Known DEF Holds
    <2>2. used <= MaxCalls + 1
        BY Known, DebtorsFinite, FileLayerAssumption DEF FileInv, Counted
    <2> QED BY <2>1, <2>2, Known, FileLayerAssumption DEF Inodes
<1>3. op[p] \in {"retrieve", "insert"}
    BY <1>1, Known DEF Stage
<1>4. CASE p \in Foreign /\ Writable(i)
    <2>1. tmp' = [tmp EXCEPT ![p] = None] /\ pc' = [pc EXCEPT ![p] = "rawcp"] /\ UNCHANGED inode
        BY <1>4 DEF ReadOnly, Goto, Tmp, Writable
    <2>2. Shape' /\ pc'[p] = "rawcp"
        BY <1>1, <2>1 DEF FileInv, Shape
    <2>3. Frame(p)
        BY <1>1, <2>1, <2>2, Known DEF Frame, FileInv, Shape, Holds
    <2>4. Counted'
        BY <1>1, <1>4, <2>2, <2>3, CountKeeps DEF Owes
    <2>5. op[p] = "retrieve" /\ local[p] = None
        BY <1>1, <1>3, <1>4, Known DEF Stage
    <2>6. Stage(p)' /\ Sound(p)' /\ Private(p)'
        BY <1>1, <2>1, <2>2, <2>5, Known DEF Stage, Sound, Private, Holds
    <2> QED BY <1>1, <2>1, <2>2, <2>3, <2>4, <2>6, Known DEF Own, Holds
<1>5. CASE ~(p \in Foreign /\ Writable(i))
    <2>1. inode' = [inode EXCEPT ![i].writable = FALSE] /\ pc' = [pc EXCEPT ![p] = "rename"] /\ UNCHANGED tmp
        BY <1>5 DEF ReadOnly, Goto, Tmp, Writable
    <2>2. /\ inode' \in [Inodes -> [v : Nat, writable : BOOLEAN, others : Nat]]
          /\ \A j \in Inodes : /\ inode'[j].v = inode[j].v /\ inode'[j].others = inode[j].others
                               /\ inode'[j].writable => inode[j].writable
          /\ ~inode'[i].writable
        BY <1>2, <2>1, ZenonT(40) DEF FileInv, Shape
    <2>3. Shape' /\ pc'[p] = "rename"
        BY <1>1, <2>1, <2>2 DEF FileInv, Shape
    <2>4. 1..used \subseteq Inodes
        BY DebtorsFinite, Known, FileLayerAssumption DEF FileInv, Counted, Inodes
    <2>5. Frame(p)
        BY <1>1, <2>1, <2>2, <2>3, <2>4, Known DEF Frame, FileInv, Shape, Holds
    <2>6. Counted'
        BY <1>1, <2>3, <2>5, CountKeeps DEF Owes
    <2>7. Stage(p)'
        BY <1>1, <1>3, <2>1, <2>2, <2>3, Known DEF Stage, Writable
    <2>8. Sound(p)'
        BY <1>1, <1>2, <2>1, <2>2, <2>3, Known DEF Sound, Intact, Holds
    <2>9. Private(p)'
        <3>1. local'[p] # None /\ inode'[local'[p]].writable => local[p] \in Inodes /\ Writable(local[p])
            <4>1. local[p] # None => local[p] \in 1..used
                BY Known DEF None
            <4>2. local[p] # None => local[p] \in Inodes
                BY <2>4, <4>1
            <4>3. local[p] \in Inodes => (inode'[local[p]].writable => inode[local[p]].writable)
                BY <2>2
            <4> QED BY <1>1, <4>2, <4>3 DEF Writable
        <3>2. \A q \in Procs \ {p} : local'[q] = local[q] /\ (Holds(q)' => Holds(q) /\ tmp'[q] = tmp[q])
            BY <1>1, <2>1 DEF Holds, FileInv, Shape
        <3>3. Private(p)
            BY Known
        <3> QED BY <1>1, <1>3, <2>3, <3>1, <3>2, <3>3 DEF Private, Alone, Writable
    <2> QED BY <1>1, <1>2, <2>1, <2>3, <2>5, <2>6, <2>7, <2>8, <2>9, Known DEF Own
<1> QED BY <1>4, <1>5

LEMMA RawcpFile ==
    ASSUME FileInv, NEW p \in Procs, Rawcp(p)
    PROVE  Frame(p) /\ Own(p)
<1>1. /\ pc[p] = "rawcp" /\ pc' = [pc EXCEPT ![p] = "move"] /\ tmp' = [tmp EXCEPT ![p] = used + 1]
      /\ NewInode(inode[cached].v) /\ UNCHANGED <<rc, op, cached, local, calls, seen>>
    BY DEF Rawcp, Goto, Tmp
<1>2. op[p] \in {"retrieve", "copy"} /\ cached # None /\ local[p] = None
    BY <1>1, Known DEF Stage
<1>3. p \in Debtors
    BY <1>1 DEF Debtors, Owes
<1>4. used + 1 \in Inodes /\ cached \in Inodes
    <2>1. used + 1 \in Inodes
        BY <1>3, RoomForOne
    <2> QED BY <1>2, <2>1, Known, FileLayerAssumption DEF Inodes, None
<1>5. inode[cached].v \in Nat
    BY <1>4 DEF FileInv, Shape
<1>6. /\ used' = used + 1 /\ used' \in Nat \ {0}
      /\ \A i \in 1..used : inode'[i] = inode[i]
      /\ inode'[used + 1].v = inode[cached].v
    BY <1>1, <1>4, <1>5, Made DEF FileInv
<1>7. Shape'
    BY <1>1, <1>4, <1>5, Made DEF FileInv, Shape
<1>8. pc'[p] = "move" /\ tmp'[p] = used + 1
    BY <1>1 DEF FileInv, Shape
<1>9. Frame(p)
    BY <1>1, <1>6, <1>8, Known DEF Frame, FileInv, Shape
<1>10. Counted'
    <2>1. Owes(p) /\ ~Owes(p)'
        BY <1>1, <1>8 DEF Owes
    <2> QED BY <1>1, <1>6, <1>9, <2>1, CountKeeps
<1>11. Stage(p)'
    BY <1>1, <1>2, <1>8, Known DEF Stage
<1>12. Sound(p)'
    BY <1>1, <1>2, <1>6, <1>8 DEF Sound, Intact, FileInv
<1>13. Private(p)'
    <2>1. ASSUME NEW q \in Procs \ {p}
          PROVE  local'[q] # used + 1 /\ (Holds(q)' => tmp'[q] # used + 1)
        <3>1. local'[q] = local[q] /\ (Holds(q)' => Holds(q) /\ tmp'[q] = tmp[q])
            BY <1>1, <2>1 DEF Holds, FileInv, Shape
        <3> QED BY <2>1, <3>1, Known
    <2>2. cached' # used + 1 /\ \A q \in Procs : used + 1 \notin seen'[q]
        BY <1>1, Known
    <2> QED BY <1>1, <1>2, <1>8, <2>1, <2>2 DEF Private, Alone
<1> QED BY <1>1, <1>6, <1>7, <1>8, <1>9, <1>10, <1>11, <1>12, <1>13, Known DEF Own

LEMMA RenameFile ==
    ASSUME FileInv, NEW p \in Procs, Rename(p)
    PROVE  Frame(p) /\ Own(p)
<1> DEFINE i == tmp[p]
<1>1. /\ pc[p] = "rename" /\ pc' = [pc EXCEPT ![p] = "rest"] /\ rc' = [rc EXCEPT ![p] = "yes"]
      /\ tmp' = [tmp EXCEPT ![p] = None] /\ UNCHANGED <<op, inode, used, calls>>
    BY DEF Rename, Answer, Tmp
<1>2. /\ i \in 1..used /\ i # None /\ Intact(i) /\ ~Writable(i) /\ Holds(p)
      /\ op[p] \in {"insert", "retrieve"}
    BY <1>1, Known DEF Holds, Sound, Stage, None
<1>3. pc'[p] = "rest" /\ rc'[p] = "yes" /\ ~Holds(p)'
    BY <1>1 DEF FileInv, Shape, Holds
<1>4. /\ op[p] = "insert" => /\ cached' = i /\ UNCHANGED local
                             /\ seen' = [q \in Procs |-> IF Fetching(q) THEN seen[q] \cup {i} ELSE seen[q]]
      /\ op[p] # "insert" => local' = [local EXCEPT ![p] = i] /\ UNCHANGED <<cached, seen>>
    BY DEF Rename, Seen
<1>5. Shape'
    BY <1>1, <1>4 DEF FileInv, Shape
<1>6. Frame(p)
    <2>1. \A q \in Procs \ {p} : /\ pc'[q] = pc[q] /\ op'[q] = op[q] /\ rc'[q] = rc[q]
                                 /\ local'[q] = local[q] /\ tmp'[q] = tmp[q]
        BY <1>1, <1>4 DEF FileInv, Shape
    <2>2. \A q \in Procs : /\ seen[q] \subseteq seen'[q] /\ seen'[q] \subseteq seen[q] \cup ({cached'} \ {None})
                           /\ ~Fetching(q) => seen'[q] = seen[q]
                           /\ Fetching(q) /\ cached' # cached => cached' \in seen'[q]
        BY <1>2, <1>4
    <2>3. /\ cached' = cached \/ cached' = i
          /\ local'[p] = local[p] \/ local'[p] = i
        BY <1>4 DEF FileInv, Shape
    <2>4. UNCHANGED <<inode, used>> /\ used \in Nat
        BY <1>1, Known
    <2>5. /\ used' \in Nat /\ used <= used'
          /\ \A j \in 1..used : inode'[j].v = inode[j].v /\ (inode'[j].writable => inode[j].writable)
        BY <2>4
    <2>6. /\ cached' = cached \/ (Holds(p) /\ cached' = tmp[p])
          /\ local'[p] \in {local[p], None} \/ (Holds(p) /\ local'[p] = tmp[p])
        BY <1>2, <2>3
    <2> QED BY <1>3, <2>1, <2>2, <2>5, <2>6 DEF Frame
<1>7. Counted'
    BY <1>1, <1>3, <1>6, CountKeeps DEF Owes
<1>8. local'[p] \in 0..used'
    BY <1>1, <1>2, <1>4, Known DEF FileInv, Shape
<1>9. Stage(p)'
    BY <1>3 DEF Stage
<1>10. Sound(p)'
    BY <1>1, <1>2, <1>3, <1>4 DEF Sound, Intact, Writable, FileInv, Shape
<1>11. Private(p)'
    <2>1. \A q \in Procs \ {p} : Holds(q)' => Holds(q) /\ tmp'[q] = tmp[q]
        BY <1>1 DEF Holds, FileInv, Shape
    <2>2. CASE op[p] = "insert"
        <3>1. ASSUME local[p] # None, Writable(local[p])
              PROVE  Alone(p, local[p]) /\ local[p] # i
            BY <1>2, <3>1, Known DEF Private
        <3> QED BY <1>1, <1>3, <1>4, <2>1, <2>2, <3>1 DEF Private, Alone, Writable
    <2>3. CASE op[p] = "retrieve"
        BY <1>1, <1>2, <1>3, <1>4, <2>3 DEF Private, Writable, FileInv, Shape
    <2> QED BY <1>2, <2>2, <2>3
<1> QED BY <1>3, <1>5, <1>6, <1>7, <1>8, <1>9, <1>10, <1>11 DEF Own

LEMMA MoveFile ==
    ASSUME FileInv, NEW p \in Procs, Move(p)
    PROVE  Frame(p) /\ Own(p)
<1> DEFINE i == tmp[p]
<1>1. /\ pc[p] = "move" /\ pc' = [pc EXCEPT ![p] = "compare"] /\ local' = [local EXCEPT ![p] = i]
      /\ tmp' = [tmp EXCEPT ![p] = None] /\ UNCHANGED <<rc, op, inode, used, cached, calls, seen>>
    BY DEF Move, Goto, Tmp
<1>2. i \in 1..used /\ i # None /\ Intact(i) /\ Holds(p) /\ Alone(p, i) /\ op[p] \in {"retrieve", "copy"}
      /\ cached # None
    BY <1>1, Known DEF Holds, Sound, Private, Stage, None
<1>3. Shape' /\ pc'[p] = "compare" /\ local'[p] = i /\ ~Holds(p)'
    BY <1>1 DEF FileInv, Shape, Holds
<1>4. Frame(p)
    BY <1>1, <1>2, <1>3, Known DEF Frame, FileInv, Shape, Holds
<1>5. Counted'
    BY <1>1, <1>3, <1>4, CountKeeps DEF Owes
<1>6. Stage(p)' /\ Sound(p)'
    BY <1>1, <1>2, <1>3 DEF Stage, Sound, Intact
<1>7. Private(p)'
    <2>1. \A q \in Procs \ {p} : local'[q] = local[q] /\ (Holds(q)' => Holds(q) /\ tmp'[q] = tmp[q])
        BY <1>1 DEF Holds, FileInv, Shape
    <2> QED BY <1>1, <1>2, <1>3, <2>1 DEF Private, Alone
<1> QED BY <1>1, <1>2, <1>3, <1>4, <1>5, <1>6, <1>7, Known DEF Own

LEMMA CompareFile ==
    ASSUME FileInv, NEW p \in Procs, Compare(p)
    PROVE  Frame(p) /\ Own(p)
<1> DEFINE i == local[p]
<1>1. /\ pc[p] = "compare" /\ pc' = [pc EXCEPT ![p] = "rest"]
      /\ UNCHANGED <<op, used, cached, local, tmp, calls, seen>>
      /\ rc' = [rc EXCEPT ![p] = "yes"] \/ rc' = [rc EXCEPT ![p] = "no"]
    BY DEF Compare, Answer
<1>2. i \in 1..used /\ i # None /\ Intact(i) /\ op[p] \in {"retrieve", "copy"}
    BY <1>1, Known DEF Sound, Stage, None
<1>3. 1..used \subseteq Inodes
    BY DebtorsFinite, Known, FileLayerAssumption DEF FileInv, Counted, Inodes
<1>4. /\ inode' \in [Inodes -> [v : Nat, writable : BOOLEAN, others : Nat]]
      /\ \A j \in Inodes : inode'[j].v = inode[j].v /\ inode'[j].others = inode[j].others
      /\ \A j \in Inodes : inode'[j].writable => inode[j].writable
      /\ op[p] = "retrieve" /\ rc'[p] = "yes" => ~inode'[i].writable
    <2>1. CASE rc' = [rc EXCEPT ![p] = "no"] /\ UNCHANGED inode
        BY <2>1 DEF FileInv, Shape
    <2>2. CASE inode' = [inode EXCEPT ![i].writable = @ /\ op[p] # "retrieve"]
        <3> DEFINE w == inode[i].writable /\ op[p] # "retrieve"
        <3>1. inode' = [inode EXCEPT ![i].writable = w]
            BY <2>2
        <3>2. w \in BOOLEAN /\ (w => inode[i].writable) /\ (op[p] = "retrieve" => ~w)
            OBVIOUS
        <3> HIDE DEF w
        <3> QED BY <1>2, <1>3, <3>1, <3>2 DEF FileInv, Shape
    <2> QED BY <2>1, <2>2 DEF Compare, Answer
<1>5. Shape' /\ pc'[p] = "rest" /\ rc'[p] \in {"yes", "no"}
    BY <1>1, <1>4 DEF FileInv, Shape
<1>6. Frame(p)
    <2>1. \A j \in 1..used : inode'[j].v = inode[j].v /\ (inode'[j].writable => inode[j].writable)
        BY <1>3, <1>4
    <2> QED BY <1>1, <1>5, <2>1, Known DEF Frame, FileInv, Shape, Holds
<1>7. Counted'
    BY <1>1, <1>5, <1>6, CountKeeps DEF Owes
<1>8. Stage(p)' /\ ~Holds(p)'
    BY <1>5 DEF Stage, Holds
<1>9. Sound(p)'
    BY <1>1, <1>2, <1>3, <1>4, <1>5 DEF Sound, Holds, Intact, Writable
<1>10. Private(p)'
    <2>1. Writable(i)' => Writable(i)
        BY <1>1, <1>2, <1>3, <1>4 DEF Writable
    <2>2. \A q \in Procs \ {p} : Holds(q)' => Holds(q)
        BY <1>1 DEF Holds, FileInv, Shape
    <2> QED BY <1>1, <1>5, <2>1, <2>2, Known DEF Private, Alone
<1> QED BY <1>1, <1>5, <1>6, <1>7, <1>8, <1>9, <1>10, Known DEF Own

\* The steps that neither make an inode nor give a name
LEMMA Aside ==
    ASSUME FileInv, NEW p \in Procs, UNCHANGED <<op, inode, used, cached, local, calls, seen>>,
           DOMAIN pc' = Procs, DOMAIN rc' = Procs, DOMAIN tmp' = Procs,
           \A q \in Procs \ {p} : pc'[q] = pc[q] /\ rc'[q] = rc[q] /\ tmp'[q] = tmp[q],
           \/ pc'[p] = "dead"
           \/ pc'[p] \in DirPoints \cup {"rest"} /\ op[p] = "insertdir"
    PROVE  Frame(p) /\ Own(p)
<1>1. Shape' /\ ~Holds(p)' /\ ~Owes(p)'
    BY DEF FileInv, Shape, Holds, Owes
<1>2. Frame(p)
    BY <1>1, Known DEF Frame, FileInv, Shape
<1>3. Counted'
    BY <1>1, <1>2, CountKeeps
<1>4. Stage(p)' /\ Sound(p)'
    BY <1>1, Known DEF Stage, Sound
<1>5. Private(p)'
    <2>1. \A q \in Procs \ {p} : Holds(q)' => Holds(q) /\ tmp'[q] = tmp[q]
        BY DEF Holds
    <2>2. Private(p)
        BY Known
    <2> QED BY <2>1, <2>2 DEF Private, Alone, Writable
<1> QED BY <1>1, <1>2, <1>3, <1>4, <1>5, Known DEF Own

LEMMA DirectoryAside ==
    ASSUME FileInv, NEW p \in Procs,
           Lock(p) \/ Expire(p) \/ Look(p) \/ Away(p) \/ In(p) \/ Unlock(p) \/ Die(p)
    PROVE  Frame(p) /\ Own(p)
<1>1. UNCHANGED <<op, inode, used, cached, local, calls, seen>>
    BY DEF Lock, Expire, Look, Away, In, Unlock, Die, filevars
<1>2. /\ DOMAIN pc' = Procs /\ DOMAIN rc' = Procs /\ DOMAIN tmp' = Procs
      /\ \A q \in Procs \ {p} : pc'[q] = pc[q] /\ rc'[q] = rc[q] /\ tmp'[q] = tmp[q]
      /\ pc'[p] = "dead" \/ (pc[p] \in DirPoints /\ pc'[p] \in DirPoints \cup {"rest"})
    BY DEF Lock, Expire, Look, Away, In, Unlock, Die, Goto, Finish, Tmp, FileInv, Shape
<1>3. pc[p] \in DirPoints => op[p] = "insertdir"
    BY Known DEF Stage
<1> QED BY <1>1, <1>2, <1>3, Aside

LEMMA CallFile ==
    ASSUME FileInv, NEW p \in Procs, Call(p)
    PROVE  Frame(p) /\ Own(p)
<1>1. PICK o \in Ops :
        /\ op' = [op EXCEPT ![p] = o]
        /\ seen' = [seen EXCEPT ![p] = IF o \in Fetches THEN {cached} \ {None} ELSE {}]
        /\ \/ /\ o = "insert" /\ p \notin Foreign /\ NewInode(calls + 2)
              /\ local' = [local EXCEPT ![p] = used + 1]
              /\ Goto(p, "link") /\ UNCHANGED tmp
           \/ /\ o = "insertdir" /\ tmp' = [tmp EXCEPT ![p] = calls + 2]
              /\ Goto(p, "lock") /\ UNCHANGED <<inode, used, local>>
           \/ /\ o \in {"retrieve", "copy"} /\ local' = [local EXCEPT ![p] = None]
              /\ UNCHANGED <<inode, used, tmp>>
              /\ \/ cached # None /\ Goto(p, IF o = "copy" THEN "rawcp" ELSE "link")
                 \/ cached = None /\ Answer(p, "no")
    BY DEF Call, Fetches
<1>2. /\ pc[p] = "rest" /\ calls < MaxCalls /\ calls' = calls + 1 /\ UNCHANGED cached
    BY DEF Call
<1>3. calls \in Nat /\ calls' \in 0..MaxCalls
    BY <1>2, Known, FileLayerAssumption DEF FileInv, Shape
<1>4. DOMAIN pc' = Procs /\ DOMAIN op' = Procs /\ DOMAIN rc' = Procs /\ DOMAIN tmp' = Procs /\ DOMAIN local' = Procs
      /\ DOMAIN seen' = Procs
    BY <1>1 DEF Goto, Answer, FileInv, Shape
<1>5. \A q \in Procs \ {p} : /\ pc'[q] = pc[q] /\ op'[q] = op[q] /\ rc'[q] = rc[q]
                             /\ local'[q] = local[q] /\ tmp'[q] = tmp[q]
                             /\ seen'[q] = seen[q]
    BY <1>1 DEF Goto, Answer, FileInv, Shape
<1>6. pc'[p] \in {"link", "lock", "rawcp", "rest"} /\ op'[p] = o
    BY <1>1 DEF Goto, Answer, FileInv, Shape
<1>7. ~Holds(p)'
    BY <1>6 DEF Holds
<1>8. \A q \in Procs \ {p} : Holds(q)' => Holds(q)
    BY <1>5 DEF Holds
<1>9. \A q \in Procs : seen'[q] \subseteq seen[q] \cup ({cached'} \ {None})
    <2>1. seen'[p] \subseteq {cached} \ {None}
        BY <1>1 DEF FileInv, Shape
    <2> QED BY <1>2, <1>5, <2>1
<1>10. CASE o = "insert"
    <2>1. used + 1 \in Inodes
        <3>1. used <= 1 + calls
            BY Known, DebtorsFinite DEF FileInv, Counted
        <3> QED BY <1>2, <1>3, <3>1, Known, FileLayerAssumption DEF Inodes
    <2>2. NewInode(calls + 2) /\ calls + 2 \in Nat /\ p \notin Foreign
        BY <1>1, <1>3, <1>10
    <2>3. /\ used' = used + 1 /\ used' \in Nat \ {0}
          /\ \A i \in 1..used : inode'[i] = inode[i]
          /\ inode'[used + 1].v = calls + 2
        BY <2>1, <2>2, Made DEF FileInv
    <2>4. Shape'
        BY <1>3, <1>4, <2>1, <2>2, Made DEF FileInv, Shape
    <2>5. pc'[p] = "link" /\ local'[p] = used + 1
        BY <1>1, <1>10 DEF Goto, FileInv, Shape
    <2>6. Frame(p)
        BY <1>2, <1>5, <1>7, <1>9, <2>3, <2>5, Known DEF Frame
    <2>7. ~Owes(p)'
        BY <1>6, <1>10, <2>5 DEF Owes
    <2>8. Counted'
        BY <1>2, <2>3, <2>6, <2>7, CountKeeps
    <2>9. Stage(p)'
        BY <1>6, <1>10, <2>2, <2>3, <2>5, Known DEF Stage
    <2>10. Sound(p)'
        BY <1>3, <1>7, <2>3, <2>5 DEF Sound, Intact, Altered
    <2>11. Private(p)'
        <3>1. used + 1 # cached'
            BY <1>2, Known
        <3>2. \A q \in Procs \ {p} : local'[q] # used + 1 /\ (Holds(q)' => tmp'[q] # used + 1)
            BY <1>5, <1>8, Known
        <3>3. \A q \in Procs : used + 1 \notin seen'[q]
            BY <1>9, <3>1, Known
        <3> QED BY <2>5, <3>1, <3>2, <3>3 DEF Private, Alone
    <2> QED BY <1>7, <2>3, <2>4, <2>5, <2>6, <2>8, <2>9, <2>10, <2>11, Known DEF Own
<1>11. CASE o = "insertdir"
    <2>1. pc'[p] = "lock" /\ UNCHANGED <<inode, used, local>>
        BY <1>1, <1>11 DEF Goto, FileInv, Shape
    <2>2. Shape'
        BY <1>3, <1>4, <2>1 DEF FileInv, Shape
    <2>3. Frame(p)
        BY <1>2, <1>5, <1>7, <1>9, <2>1, Known DEF Frame
    <2>4. Counted'
        BY <1>2, <2>1, <2>3, CountKeeps
    <2>5. Stage(p)' /\ Sound(p)'
        BY <1>6, <1>7, <1>11, <2>1 DEF Stage, Sound
    <2>6. Private(p)'
        <3>1. Private(p)
            BY Known
        <3> QED BY <1>2, <1>5, <1>8, <1>9, <2>1, <3>1 DEF Private, Alone, Writable
    <2> QED BY <1>7, <2>1, <2>2, <2>3, <2>4, <2>5, <2>6, Known DEF Own
<1>12. CASE o \in {"retrieve", "copy"}
    <2>1. local'[p] = None /\ UNCHANGED <<inode, used>>
        BY <1>1, <1>12 DEF FileInv, Shape
    <2>2. Shape'
        BY <1>3, <1>4, <2>1 DEF FileInv, Shape
    <2>3. Frame(p)
        BY <1>2, <1>5, <1>7, <1>9, <2>1, Known DEF Frame
    <2>4. Counted'
        BY <1>2, <2>1, <2>3, CountKeeps
    <2>5. /\ cached # None => pc'[p] = (IF o = "copy" THEN "rawcp" ELSE "link")
          /\ cached = None => pc'[p] = "rest" /\ rc'[p] = "no"
        BY <1>1, <1>2, <1>12 DEF Goto, Answer, FileInv, Shape
    <2>6. Stage(p)'
        BY <1>2, <1>6, <1>12, <2>1, <2>5 DEF Stage
    <2>7. Sound(p)' /\ Private(p)'
        BY <1>6, <1>7, <1>12, <2>1, <2>5 DEF Sound, Private
    <2> QED BY <1>7, <2>1, <2>2, <2>3, <2>4, <2>6, <2>7, Known DEF Own, None
<1> QED BY <1>10, <1>11, <1>12 DEF Ops

\* What a job writes in is its own
LEMMA WriteFile ==
    ASSUME FileInv, NEW p \in Procs, Write(p)
    PROVE  FileInv'
<1> DEFINE i == local[p]
<1>1. /\ pc[p] = "rest" /\ i # None /\ Writable(i) /\ inode' = [inode EXCEPT ![i].v = Altered]
      /\ UNCHANGED <<pc, op, rc, used, cached, local, tmp, calls, seen>>
    BY DEF Write, Writable
<1>2. i \in Inodes
    BY <1>1, Known, DebtorsFinite, FileLayerAssumption DEF FileInv, Counted, Inodes, None
<1>3. /\ inode' \in [Inodes -> [v : Nat, writable : BOOLEAN, others : Nat]]
      /\ \A j \in Inodes : inode'[j].writable = inode[j].writable /\ inode'[j].others = inode[j].others
      /\ \A j \in Inodes \ {i} : inode'[j].v = inode[j].v
    BY <1>1, <1>2 DEF FileInv, Shape, Altered
<1>4. Shape' /\ Counted' /\ Refs'
    BY <1>1, <1>3 DEF FileInv, Shape, Counted, Debtors, Owes, Refs, Holds
<1>5. Alone(p, i)
    BY <1>1, Known DEF Private
<1>6. \A j \in 0..used : j # None => j \in Inodes
    BY Known, DebtorsFinite, FileLayerAssumption DEF FileInv, Counted, Inodes, None
<1>7. cached' # None => Intact(cached)'
    BY <1>1, <1>3, <1>5, <1>6, Known DEF Alone, Intact, FileInv
<1>8. ASSUME NEW q \in Procs
      PROVE  Stage(q)' /\ Sound(q)' /\ Private(q)'
    <2>1. /\ Holds(q)' = Holds(q) /\ (Holds(q) => tmp[q] \in 1..used)
          /\ local[q] \in 0..used /\ 1..used \subseteq 0..used /\ \A j \in 1..used : j # None
        BY <1>1, <1>8, Known DEF Holds, FileInv, Refs, None
    <2>2. Stage(q)'
        <3>1. pc[q] = "rename" => inode'[tmp[q]].writable = inode[tmp[q]].writable
            BY <1>3, <1>6, <2>1 DEF Holds
        <3> QED BY <1>1, <1>8, <3>1 DEF FileInv, Stage, Writable
    <2>3. Sound(q)'
        <3>1. Holds(q) => tmp[q] # i /\ tmp[q] \in Inodes
            BY <1>1, <1>5, <1>6, <1>8, <2>1 DEF Alone, Holds
        <3>2. pc[q] = "link" => local[q] # i
            BY <1>1, <1>5, <1>8 DEF Alone
        <3>3. pc[q] = "link" /\ op[q] = "insert" => local[q] \in Inodes
            BY <1>6, <1>8, <2>1, Known DEF FileInv, Stage, None
        <3>4. CASE pc[q] = "rest" /\ op[q] = "retrieve" /\ rc[q] = "yes"
            <4>1. q # p
                BY <1>1, <1>8, <3>4 DEF FileInv, Sound
            <4>2. local[q] # None
                BY <1>8, <3>4 DEF FileInv, Sound
            <4>3. local[q] # i /\ local[q] \in Inodes
                BY <1>5, <1>6, <1>8, <2>1, <4>1, <4>2 DEF Alone
            <4> QED BY <1>1, <1>3, <1>8, <2>1, <3>4, <4>3 DEF FileInv, Sound, Intact, Writable, Holds
        <3>5. CASE pc[q] = "compare"
            <4>1. q # p /\ local[q] # None
                BY <1>1, <1>8, <3>5 DEF FileInv, Stage
            <4>2. local[q] # i /\ local[q] \in Inodes
                BY <1>5, <1>6, <1>8, <2>1, <4>1 DEF Alone
            <4> QED BY <1>1, <1>3, <1>8, <2>1, <3>5, <4>2 DEF FileInv, Sound, Intact, Writable, Holds
        <3>6. CASE ~(pc[q] = "rest" /\ op[q] = "retrieve" /\ rc[q] = "yes") /\ pc[q] # "compare"
            BY <1>1, <1>3, <1>8, <2>1, <3>1, <3>2, <3>3, <3>6 DEF FileInv, Sound, Intact
        <3> QED BY <3>4, <3>5, <3>6
    <2>4. Private(q)'
        <3>1. local[q] # None => inode'[local[q]].writable = inode[local[q]].writable
            BY <1>3, <1>6, <2>1
        <3>2. \A r \in Procs : Holds(r)' = Holds(r)
            BY <1>1 DEF Holds
        <3> QED BY <1>1, <1>8, <3>1, <3>2 DEF FileInv, Private, Alone, Writable
    <2> QED BY <2>2, <2>3, <2>4
<1> QED BY <1>4, <1>7, <1>8 DEF FileInv

LEMMA FileStarts ==
    ASSUME Init
    PROVE  FileInv
<1> USE DEF Init
<1>1. PICK f \in {0, MaxLink - 1} :
        inode = [i \in Inodes |-> IF i = 1 THEN [v |-> 1, writable |-> FALSE, others |-> f]
                                 ELSE [v |-> Altered, writable |-> FALSE, others |-> 0]]
    OBVIOUS
<1>2. f \in Nat /\ 1 \in Inodes
    <2>1. Cardinality(Procs) \in Nat
        BY FS_CardinalityType, FileLayerAssumption
    <2> QED BY <2>1, FileLayerAssumption DEF Inodes
<1>3. Shape
    BY <1>1, <1>2, FileLayerAssumption DEF Shape, Altered
<1>4. Counted
    <2>1. Debtors = {}
        BY DEF Debtors, Owes
    <2> QED BY <2>1, FS_EmptySet DEF Counted
<1>5. Refs
    BY DEF Refs, Holds, None
<1>6. cached # None => Intact(cached)
    BY <1>1, <1>2 DEF Intact, Altered
<1>7. ASSUME NEW p \in Procs
      PROVE  Stage(p) /\ Sound(p) /\ Private(p)
    BY <1>7 DEF Stage, Sound, Private, Holds
<1> QED BY <1>3, <1>4, <1>5, <1>6, <1>7 DEF FileInv

LEMMA FileStutters ==
    ASSUME FileInv, UNCHANGED vars
    PROVE  FileInv'
<1> USE DEF vars, filevars
<1>1. Shape' /\ Counted' /\ Refs' /\ (cached' # None => Intact(cached)')
    BY DEF FileInv, Shape, Counted, Debtors, Owes, Refs, Holds, Intact
<1>2. ASSUME NEW p \in Procs
      PROVE  Stage(p)' /\ Sound(p)' /\ Private(p)'
    BY <1>2 DEF FileInv, Stage, Sound, Private, Holds, Alone, Intact, Writable
<1> QED BY <1>1, <1>2 DEF FileInv

LEMMA FileInvAlways == Spec => []FileInv
<1>1. FileInv /\ [Next]_vars => FileInv'
    <2>1. ASSUME FileInv, NEW p \in Procs, Call(p) \/ Step(p) \/ Die(p)
          PROVE  FileInv'
        <3>1. Frame(p) /\ Own(p)
            BY <2>1, CallFile, LinkFile, SizeFile, ReplaceFile, RelinkFile, SameFile, ReadOnlyFile,
               RenameFile, RawcpFile, MoveFile, CompareFile, DirectoryAside DEF Step
        <3> QED BY <2>1, <3>1, FileKeeps
    <2> QED BY <2>1, WriteFile, FileStutters DEF Next
<1> QED BY <1>1, FileStarts, PTL DEF Spec

\* What is in the cache and what was retrieved for the intent "in" is what somebody
\* inserted: a file that a job may write in has no other name.
THEOREM NobodyWritesThere == Spec => []CacheUnaltered
<1>1. FileInv => CacheUnaltered
    BY DEF FileInv, Sound, Intact, CacheUnaltered
<1> QED BY <1>1, FileInvAlways, PTL

--------------------------------------------------------------------------------
(***************************************************************************)
(* What a retrieval gets: data of the cache during the call.               *)
(***************************************************************************)
\* A retrieval has seen the file that is in the cache, and what it has linked or copied
Saw(p) ==
    Fetching(p) =>
        /\ cached \in seen[p]
        /\ Holds(p) => inode[tmp[p]].v \in Data(seen[p])
        /\ pc[p] = "same" => tmp[p] \in seen[p]
        /\ pc[p] = "compare" => inode[local[p]].v \in Data(seen[p])

Gets(p) ==
    p \notin Foreign /\ Retrieved(p) =>
        \/ rc[p] = "yes" /\ local[p] # None /\ inode[local[p]].v \in Data(seen[p]) \cup {Altered}
        \/ rc[p] = "no" /\ \E i, k \in seen[p] : i # k

SeenInv == \A p \in Procs : Saw(p) /\ Gets(p)

LEMMA DataKept ==
    ASSUME FileInv, NEW p \in Procs, Frame(p), NEW q \in Procs, seen[q] \subseteq seen'[q]
    PROVE  Data(seen[q]) \subseteq Data(seen[q])'
<1>1. \A i \in seen[q] : i \in seen'[q] /\ inode'[i].v = inode[i].v
    BY Known DEF Frame
<1> QED BY <1>1 DEF Data

LEMMA SeenByOthers ==
    ASSUME FileInv, NEW p \in Procs, Frame(p), NEW q \in Procs \ {p}, Saw(q), Gets(q)
    PROVE  Saw(q)' /\ Gets(q)'
<1>1. /\ pc'[q] = pc[q] /\ op'[q] = op[q] /\ rc'[q] = rc[q] /\ local'[q] = local[q]
      /\ Holds(q) => tmp'[q] = tmp[q] /\ inode'[tmp[q]].v = inode[tmp[q]].v
      /\ local[q] # None => inode'[local[q]].v = inode[local[q]].v
      /\ seen[q] \subseteq seen'[q] /\ (Fetching(q) /\ cached' # cached => cached' \in seen'[q])
    <2>1. \A i \in 1..used : inode'[i].v = inode[i].v
        BY DEF Frame
    <2>2. local[q] # None => local[q] \in 1..used
        BY Known DEF None
    <2> QED BY <2>1, <2>2, Known DEF Frame
<1>2. Data(seen[q]) \subseteq Data(seen[q])'
    BY <1>1, DataKept
<1>3. (Fetching(q)' <=> Fetching(q)) /\ (Holds(q)' <=> Holds(q)) /\ (Retrieved(q)' => Retrieved(q))
    <2>1. ~Fetching(q) => seen'[q] = seen[q]
        BY DEF Frame
    <2> QED BY <1>1, <2>1 DEF Fetching, Holds, Retrieved
<1>4. pc[q] = "compare" => local[q] # None
    BY Known DEF Stage
<1>5. Saw(q)'
    BY <1>1, <1>2, <1>3, <1>4 DEF Saw, Holds
<1>6. Gets(q)'
    BY <1>1, <1>2, <1>3 DEF Gets
<1> QED BY <1>5, <1>6

\* The copy of a file, or the copy that replaces it
LEMMA CopySeen ==
    ASSUME FileInv, NEW p \in Procs, Frame(p), Saw(p), op[p] \in Fetches, Owes(p), pc[p] \in {"link", "rawcp"},
           NewInode(inode[cached].v), tmp' = [tmp EXCEPT ![p] = used + 1],
           UNCHANGED <<op, rc, cached, seen>>, pc'[p] \in {"size", "move"}
    PROVE  Saw(p)' /\ Gets(p)'
<1>1. Fetching(p) /\ cached \in seen[p]
    BY DEF Fetching, Saw
<1>2. used + 1 \in Inodes /\ cached \in Inodes
    <2>1. used + 1 \in Inodes
        BY RoomForOne DEF Debtors
    <2>2. cached \in 1..used
        BY <1>1, Known
    <2> QED BY <2>1, <2>2, Known, FileLayerAssumption DEF Inodes
<1>3. inode'[used + 1].v = inode[cached].v /\ tmp'[p] = used + 1
    <2>1. inode[cached].v \in Nat
        BY <1>2 DEF FileInv, Shape
    <2> QED BY <1>2, <2>1, Made DEF FileInv, Shape
<1>4. inode[cached].v \in Data(seen[p])'
    <2>1. inode[cached].v \in Data(seen[p]) /\ seen[p] \subseteq seen'[p]
        BY <1>1 DEF Data
    <2> QED BY <2>1, DataKept
<1> QED BY <1>1, <1>3, <1>4 DEF Saw, Gets, Retrieved

LEMMA SeenByOne ==
    ASSUME FileInv, NEW p \in Procs, Frame(p), Saw(p), op[p] \in Fetches,
           \/ Link(p) \/ Size(p) \/ Replace(p) \/ Relink(p) \/ Same(p) \/ ReadOnly(p) \/ Rename(p)
           \/ Rawcp(p) \/ Move(p) \/ Compare(p)
    PROVE  Saw(p)' /\ Gets(p)'
<1>1. /\ DOMAIN pc = Procs /\ DOMAIN rc = Procs /\ DOMAIN local = Procs /\ DOMAIN tmp = Procs
      /\ Source(p) = cached /\ UNCHANGED op
    BY DEF FileInv, Shape, Source, Fetches, Link, Size, Replace, Relink, Same, ReadOnly, Rename, Rawcp,
           Move, Compare
<1>2. /\ pc[p] \in FilePoints /\ Fetching(p)
      /\ cached \in seen[p] /\ (Holds(p) => inode[tmp[p]].v \in Data(seen[p]))
      /\ pc[p] = "same" => tmp[p] \in seen[p]
      /\ pc[p] = "compare" => local[p] # None /\ inode[local[p]].v \in Data(seen[p])
    <2>1. pc[p] \in FilePoints
        BY DEF Link, Size, Replace, Relink, Same, ReadOnly, Rename, Rawcp, Move, Compare
    <2>2. Fetching(p)
        BY <2>1 DEF Fetching
    <2> QED BY <2>1, <2>2, Known DEF Saw, Stage
<1>3. /\ \A i \in 1..used : inode'[i].v = inode[i].v
      /\ Holds(p) => inode'[tmp[p]].v = inode[tmp[p]].v /\ tmp[p] # None
      /\ local[p] # None => inode'[local[p]].v = inode[local[p]].v
    <2>1. local[p] # None => local[p] \in 1..used
        BY Known DEF None
    <2> QED BY <2>1, Known DEF Frame, None
<1>4. seen'[p] = seen[p] => Data(seen[p]) \subseteq Data(seen[p])'
    BY DataKept
<1> USE DEF Goto, Answer, Tmp
<1>5. CASE Link(p)
    <2>1. CASE Full(cached) /\ p \notin Foreign
        <3>1. /\ pc[p] = "link" /\ NewInode(inode[cached].v) /\ tmp' = [tmp EXCEPT ![p] = used + 1]
              /\ UNCHANGED <<op, rc, cached, seen>> /\ pc'[p] = "size"
            BY <1>1, <1>5, <2>1 DEF Link
        <3>2. Owes(p)
            BY <3>1, Known DEF Owes, Stage, Fetches
        <3> QED BY <3>1, <3>2, CopySeen
    <2>2. CASE Full(cached) /\ p \in Foreign
        BY <1>1, <1>5, <2>2 DEF Link, Saw, Fetching, Gets
    <2>3. CASE ~Full(cached)
        <3>1. tmp'[p] = cached /\ UNCHANGED <<inode, cached, seen>> /\ pc'[p] = "same"
            BY <1>1, <1>5, <2>3 DEF Link
        <3>2. inode[cached].v \in Data(seen[p])
            BY <1>2 DEF Data
        <3> QED BY <1>2, <1>4, <3>1, <3>2 DEF Saw, Gets, Retrieved
    <2> QED BY <2>1, <2>2, <2>3
<1>6. CASE Size(p)
    <2>1. pc[p] = "size" /\ UNCHANGED <<inode, cached, seen, local>> /\ Holds(p)
        BY <1>6 DEF Size, filevars, Holds
    <2>2. CASE pc' = [pc EXCEPT ![p] = "replace"] /\ UNCHANGED tmp
        BY <1>1, <1>2, <1>4, <2>1, <2>2 DEF Saw, Gets, Retrieved
    <2>3. CASE Differ(tmp[p], cached) /\ pc' = [pc EXCEPT ![p] = "rest"] /\ rc' = [rc EXCEPT ![p] = "no"]
        <3>1. PICK i \in seen[p] : inode[i].v = inode[tmp[p]].v
            BY <1>2, <2>1 DEF Data
        <3>2. i # cached
            BY <2>3, <3>1 DEF Differ
        <3> QED BY <1>1, <1>2, <2>1, <2>3, <3>1, <3>2 DEF Saw, Fetching, Gets
    <2> QED BY <1>6, <2>2, <2>3 DEF Size
<1>7. CASE Replace(p)
    <2>1. cached' = tmp[p] /\ cached' \in seen'[p] /\ pc'[p] = "relink"
        BY <1>1, <1>2, <1>7 DEF Replace, Seen
    <2> QED BY <2>1 DEF Saw, Gets, Retrieved, Holds
<1>8. CASE Relink(p)
    <2>1. tmp'[p] = cached /\ UNCHANGED <<inode, cached, seen>> /\ pc'[p] = "same"
        BY <1>1, <1>8 DEF Relink, filevars
    <2>2. inode[cached].v \in Data(seen[p])
        BY <1>2 DEF Data
    <2> QED BY <1>2, <1>4, <2>1, <2>2 DEF Saw, Gets, Retrieved
<1>9. CASE Same(p)
    <2>1. pc[p] = "same" /\ UNCHANGED <<inode, cached, seen, local>> /\ Holds(p)
        BY <1>9 DEF Same, filevars, Holds
    <2>2. CASE pc' = [pc EXCEPT ![p] = "readonly"] /\ UNCHANGED tmp
        BY <1>1, <1>2, <1>4, <2>1, <2>2 DEF Saw, Gets, Retrieved
    <2>3. CASE tmp[p] # cached /\ pc' = [pc EXCEPT ![p] = "rest"] /\ rc' = [rc EXCEPT ![p] = "no"]
        BY <1>1, <1>2, <2>1, <2>3 DEF Saw, Fetching, Gets
    <2> QED BY <1>1, <1>9, <2>2, <2>3 DEF Same
<1>10. CASE ReadOnly(p)
    <2>1. UNCHANGED <<cached, seen>> /\ pc[p] = "readonly" /\ Holds(p)
        BY <1>10 DEF ReadOnly, Holds
    <2>2. pc'[p] = "rawcp" \/ (pc'[p] = "rename" /\ UNCHANGED tmp)
        BY <1>1, <1>10 DEF ReadOnly
    <2> QED BY <1>2, <1>3, <1>4, <2>1, <2>2 DEF Saw, Gets, Retrieved, Holds
<1>11. CASE Rename(p)
    <2>1. /\ pc[p] = "rename" /\ Holds(p) /\ UNCHANGED seen
          /\ local'[p] = tmp[p] /\ pc'[p] = "rest" /\ rc'[p] = "yes"
        BY <1>1, <1>11 DEF Rename, Holds, Fetches
    <2> QED BY <1>2, <1>3, <1>4, <2>1 DEF Saw, Fetching, Gets
<1>12. CASE Rawcp(p)
    <2>1. /\ pc[p] = "rawcp" /\ NewInode(inode[cached].v) /\ tmp' = [tmp EXCEPT ![p] = used + 1]
          /\ UNCHANGED <<op, rc, cached, seen>> /\ pc'[p] = "move"
        BY <1>1, <1>12 DEF Rawcp
    <2> QED BY <2>1, CopySeen DEF Owes
<1>13. CASE Move(p)
    <2>1. /\ pc[p] = "move" /\ Holds(p) /\ UNCHANGED <<cached, seen>>
          /\ local'[p] = tmp[p] /\ pc'[p] = "compare"
        BY <1>1, <1>13 DEF Move, Holds
    <2> QED BY <1>2, <1>3, <1>4, <2>1 DEF Saw, Gets, Retrieved, Holds
<1>14. CASE Compare(p)
    <2>1. pc[p] = "compare" /\ UNCHANGED <<cached, seen, local>> /\ pc'[p] = "rest"
        BY <1>1, <1>14 DEF Compare
    <2>2. CASE rc'[p] = "yes"
        BY <1>2, <1>3, <1>4, <2>1, <2>2 DEF Saw, Fetching, Gets
    <2>3. CASE Differ(local[p], cached) /\ rc'[p] = "no"
        <3>1. PICK i \in seen[p] : inode[i].v = inode[local[p]].v
            BY <1>2, <2>1 DEF Data
        <3>2. i # cached
            BY <2>3, <3>1 DEF Differ
        <3> QED BY <1>2, <2>1, <2>3, <3>1, <3>2 DEF Saw, Fetching, Gets
    <2> QED BY <1>1, <1>14, <2>2, <2>3 DEF Compare
<1> QED BY <1>5, <1>6, <1>7, <1>8, <1>9, <1>10, <1>11, <1>12, <1>13, <1>14

\* The other steps of a process retrieve nothing, or nothing yet
LEMMA SeenAside ==
    ASSUME FileInv, NEW p \in Procs,
           \/ Lock(p) \/ Expire(p) \/ Look(p) \/ Away(p) \/ In(p) \/ Unlock(p) \/ Die(p) \/ Call(p)
           \/ Step(p) /\ op[p] \notin Fetches
    PROVE  Saw(p)' /\ Gets(p)'
<1>1. DOMAIN pc = Procs /\ DOMAIN op = Procs /\ DOMAIN rc = Procs /\ DOMAIN seen = Procs
    BY DEF FileInv, Shape
<1>2. CASE op'[p] \notin Fetches
    BY <1>2 DEF Saw, Gets, Fetching, Retrieved
<1>3. CASE Die(p)
    BY <1>1, <1>3 DEF Die, Goto, Saw, Gets, Fetching, Retrieved
<1>4. CASE Call(p) /\ op'[p] \in Fetches
    <2>1. /\ UNCHANGED cached /\ seen'[p] = {cached} \ {None}
          /\ \/ pc'[p] \in {"link", "rawcp"} /\ cached # None
             \/ pc'[p] = "rest" /\ cached = None
        <3>1. PICK o \in Fetches :
                /\ op' = [op EXCEPT ![p] = o] /\ UNCHANGED cached
                /\ seen' = [seen EXCEPT ![p] = IF o \in Fetches THEN {cached} \ {None} ELSE {}]
                /\ \/ cached # None /\ Goto(p, IF o = "copy" THEN "rawcp" ELSE "link")
                   \/ cached = None /\ Answer(p, "no")
            BY <1>1, <1>4 DEF Call, Fetches
        <3> QED BY <1>1, <3>1 DEF Goto, Answer
    <2> QED BY <2>1 DEF Saw, Gets, Fetching, Retrieved, Holds
<1>5. CASE Lock(p) \/ Expire(p) \/ Look(p) \/ Away(p) \/ In(p) \/ Unlock(p)
    <2>1. UNCHANGED op /\ pc[p] \in DirPoints
        BY <1>5 DEF Lock, Expire, Look, Away, In, Unlock
    <2> QED BY <1>2, <2>1, Known DEF Stage, Fetches
<1>6. CASE Step(p) /\ op[p] \notin Fetches
    <2>1. UNCHANGED op
        BY <1>6 DEF Step, Link, Size, Replace, Relink, Same, ReadOnly, Rename, Rawcp, Move, Compare,
                    Lock, Expire, Look, Away, In, Unlock
    <2> QED BY <1>2, <1>6, <2>1
<1> QED BY <1>2, <1>3, <1>4, <1>5, <1>6

\* A job that writes in its file writes in nothing that the cache has had
LEMMA SeenWrite ==
    ASSUME FileInv, SeenInv, NEW p \in Procs, Write(p)
    PROVE  SeenInv'
<1> DEFINE w == local[p]
<1>1. /\ w # None /\ Writable(w) /\ inode' = [inode EXCEPT ![w].v = Altered]
      /\ UNCHANGED <<pc, op, rc, cached, local, tmp, seen>> /\ pc[p] = "rest"
    BY DEF Write, Writable
<1>2. Alone(p, w)
    BY <1>1, Known DEF Private
<1>3. 1..used \subseteq Inodes /\ DOMAIN inode = Inodes
    BY DebtorsFinite, Known, FileLayerAssumption DEF FileInv, Counted, Inodes, Shape
<1>4. \A i \in Inodes \ {w} : inode'[i].v = inode[i].v
    BY <1>1, <1>3 DEF FileInv, Shape
<1>5. inode'[w].v = Altered
    <2>1. w \in Inodes
        BY <1>1, <1>3, Known DEF None
    <2> QED BY <1>1, <2>1 DEF FileInv, Shape
<1>6. ASSUME NEW q \in Procs
      PROVE  Saw(q)' /\ Gets(q)'
    <2>1. Data(seen[q])' = Data(seen[q])
        <3>1. \A i \in seen[q] : i \in Inodes \ {w}
            BY <1>2, <1>3, <1>6, Known DEF Alone
        <3> QED BY <1>1, <1>4, <3>1 DEF Data
    <2>2. Holds(q) => inode'[tmp[q]].v = inode[tmp[q]].v
        <3>1. Holds(q) => tmp[q] \in Inodes \ {w}
            BY <1>1, <1>2, <1>3, <1>6, Known DEF Alone, Holds
        <3> QED BY <1>4, <3>1
    <2>3. local[q] # None => inode'[local[q]].v \in {inode[local[q]].v, Altered}
        <3>1. local[q] # None => local[q] \in Inodes
            BY <1>3, <1>6, Known DEF None
        <3> QED BY <1>4, <1>5, <3>1
    <2>4. pc[q] = "compare" => inode'[local[q]].v = inode[local[q]].v
        <3>1. pc[q] = "compare" => local[q] \in Inodes \ {w}
            BY <1>1, <1>2, <1>3, <1>6, Known DEF Alone, Stage, None
        <3> QED BY <1>4, <3>1
    <2>5. Holds(q)' = Holds(q) /\ Fetching(q)' = Fetching(q) /\ Retrieved(q)' = Retrieved(q)
        BY <1>1 DEF Holds, Fetching, Retrieved
    <2>6. Saw(q)'
        BY <1>1, <1>6, <2>1, <2>2, <2>4, <2>5 DEF SeenInv, Saw
    <2>7. Gets(q)'
        BY <1>1, <1>6, <2>1, <2>3, <2>5 DEF SeenInv, Gets
    <2> QED BY <2>6, <2>7
<1> QED BY <1>6 DEF SeenInv

LEMMA SeenAlways == Spec => []SeenInv
<1>1. Init => SeenInv
    BY DEF Init, SeenInv, Saw, Gets, Fetching, Retrieved
<1>2. FileInv /\ SeenInv /\ [Next]_vars => SeenInv'
    <2>1. ASSUME FileInv, SeenInv, NEW p \in Procs, Call(p) \/ Step(p) \/ Die(p)
          PROVE  SeenInv'
        <3>1. Frame(p)
            BY <2>1, CallFile, LinkFile, SizeFile, ReplaceFile, RelinkFile, SameFile, ReadOnlyFile,
               RenameFile, RawcpFile, MoveFile, CompareFile, DirectoryAside DEF Step
        <3>2. \A q \in Procs \ {p} : Saw(q)' /\ Gets(q)'
            BY <2>1, <3>1, SeenByOthers DEF SeenInv
        <3>3. Saw(p)' /\ Gets(p)'
            BY <2>1, <3>1, SeenByOne, SeenAside DEF SeenInv, Step
        <3> QED BY <3>2, <3>3 DEF SeenInv
    <2>2. CASE UNCHANGED vars
        BY <2>2 DEF vars, filevars, SeenInv, Saw, Gets, Fetching, Retrieved, Holds, Data
    <2> QED BY <2>1, <2>2, SeenWrite DEF Next
<1> QED BY <1>1, <1>2, FileInvAlways, PTL DEF Spec

\* Whoever owns the files of the cache and retrieves the one that is there gets data that
\* the cache had during the call, be its inode out of links; the answer is no only if
\* another process has replaced the file meanwhile, and never an error.
THEOREM OwnerServed == Spec => []OwnerGetsIt
<1>1. SeenInv => OwnerGetsIt
    BY DEF SeenInv, Gets, OwnerGetsIt
<1> QED BY <1>1, SeenAlways, PTL

================================================================================

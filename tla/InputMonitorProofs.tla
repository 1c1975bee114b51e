-------------------------- MODULE InputMonitorProofs --------------------------
(***************************************************************************)
(* Safety proofs about the input monitor, and at the end about the gangs   *)
(* that its news go to.                                                    *)
(***************************************************************************)
EXTENDS InputMonitor, Gang, SequenceTheorems, FiniteSetTheorems, TLAPS

\* What a queue looks like after a put ...
LEMMA AppendFacts ==
    ASSUME NEW S, NEW q \in Seq(S), NEW x \in S
    PROVE  /\ Append(q, x) \in Seq(S)
           /\ Len(Append(q, x)) = Len(q) + 1
           /\ DOMAIN Append(q, x) = 1..Len(q)+1
           /\ DOMAIN q = 1..Len(q)
           /\ \A i \in 1..Len(q) : Append(q, x)[i] = q[i]
           /\ Append(q, x)[Len(q) + 1] = x
    BY AppendProperties, LenProperties

\* ... and after a get
LEMMA TailFacts ==
    ASSUME NEW S, NEW q \in Seq(S), q # <<>>
    PROVE  /\ Tail(q) \in Seq(S) /\ Head(q) \in S
           /\ Len(q) \in Nat \ {0}
           /\ Len(Tail(q)) = Len(q) - 1
           /\ DOMAIN Tail(q) = 1..Len(q)-1
           /\ DOMAIN q = 1..Len(q)
           /\ Head(q) = q[1]
           /\ \A i \in 1..Len(q)-1 : Tail(q)[i] = q[i+1]
    BY HeadTailProperties, EmptySeq, LenProperties, ElementOfSeq

\* The groups of variables the actions leave alone
USE DEF envvars, crawlvars, ctable, ptable, childvars, parentvars, childSide,
        parentSide

\* What _key_update makes of a table is a table
LEMMA KeyUpdateType ==
    ASSUME NEW T, EntrySt \subseteq T, NEW st \in [Keys -> T],
           NEW at \in [Keys -> 1..N], NEW r \in Results
    PROVE  /\ StateAfter(st, r) \in [Keys -> T]
           /\ RankAfter(st, at, r) \in [Keys -> 1..N]
<1>1. StateAfter(st, r) \in [Keys -> T]
    BY DEF StateAfter, Results
<1>2. \A j \in Keys : at[j] > at[r.key] => at[j] - 1 \in 1..N
    <2>1. r.key \in Keys
        BY DEF Results
    <2>2. at[r.key] \in 1..N
        BY <2>1
    <2> QED
        BY <2>2, NAssumption
<1>3. MoveToEnd(at, r.key) \in [Keys -> 1..N]
    BY <1>2, NAssumption DEF MoveToEnd, Results
<1> QED
    BY <1>1, <1>3 DEF RankAfter

LEMMA FindStateType ==
    ASSUME NEW stage, NEW onfails \in EntrySt
    PROVE  FindState(stage, onfails) \in EntrySt
    BY DEF FindState, MapStages, EntrySt

\* A report keeps the queue, the stack and the control point well typed
LEMMA ReportType ==
    ASSUME TypeOK, NEW k \in Keys, NEW s \in EntrySt, Report(k, s)
    PROVE  /\ mpqueue' \in Seq(Results) /\ stack' \in Seq(Results)
           /\ todo' \subseteq Keys /\ cpc' \in ChildPC
<1> DEFINE r == [key |-> k, prev |-> cst[k], state |-> s]
<1>1. r \in Results
    BY DEF Results, TypeOK
<1> QED
    BY <1>1, AppendFacts DEF Report, TypeOK, ChildPC, Crawling

LEMMA TypeInit == Init => TypeOK
<1> SUFFICES ASSUME Init PROVE TypeOK
    OBVIOUS
<1>1. PICK stage \in [Keys -> InitStages] :
          /\ cst = [k \in Keys |-> FindState(stage[k], "ufo")]
          /\ local = [k \in Keys |-> LocalOf(stage[k])]
    BY DEF Init
<1>2. cst \in [Keys -> EntrySt]
    BY <1>1, FindStateType DEF EntrySt
<1>3. local \in [Keys -> LocalSt]
    BY <1>1 DEF LocalOf, LocalSt
<1>4. cat \in [Keys -> 1..N]
    BY DEF Init, Keys
<1>5. pst \in [Keys -> EntrySt \cup {"popped"}] /\ pat \in [Keys -> 1..N]
    BY <1>2, <1>4 DEF Init
<1>6. stack \in Seq(Results) /\ mpqueue \in Seq(Results)
    BY EmptySeq DEF Init
<1>7. /\ res \in [Keys -> ResSt] /\ repromised \in 0..MaxRepromise
      /\ cpc \in ChildPC /\ ppc \in ParentPC /\ todo \subseteq Keys
      /\ kidx \in Int /\ kincr \in Nat /\ visited \in Nat /\ found \in Nat
    <2>1. /\ res \in [Keys -> ResSt] /\ repromised = 0
          /\ cpc = "loop" /\ ppc = "idle" /\ todo = {}
          /\ kidx = 0 /\ kincr = 0 /\ visited = 0 /\ found = 0
        BY DEF Init
    <2> QED
        BY <2>1, RepromiseAssumption DEF ChildPC, Crawling, ParentPC
<1>8. mpquit \in BOOLEAN /\ mperror \in BOOLEAN
    BY DEF Init
<1> QED
    BY <1>2, <1>3, <1>4, <1>5, <1>6, <1>7, <1>8 DEF TypeOK

LEMMA TypeStep == TypeOK /\ [Next]_vars => TypeOK'
<1> SUFFICES ASSUME TypeOK, [Next]_vars PROVE TypeOK'
    OBVIOUS
<1> USE DEF ChildPC, Crawling, ParentPC
<1>1. ASSUME NEW k \in Keys, Keep(k) \/ Renege(k) \/ Repromise(k)
      PROVE  TypeOK'
    <2>1. res' \in [Keys -> ResSt]
        BY <1>1 DEF Keep, Renege, Repromise, TypeOK, ResSt
    <2>2. repromised' \in 0..MaxRepromise
        BY <1>1, RepromiseAssumption DEF Keep, Renege, Repromise, TypeOK
    <2> QED
        BY <1>1, <2>1, <2>2 DEF Keep, Renege, Repromise, TypeOK
<1>2. CASE LoopExit
    BY <1>2 DEF LoopExit, TypeOK
<1>3. CASE StartRound
    BY <1>3, EmptySeq DEF StartRound, FirstUfo, Members, TypeOK
<1>4. CASE UfoNext
    BY <1>4 DEF UfoNext, TypeOK
<1>5. CASE UfoDone
    BY <1>5 DEF UfoDone, ChosenExpected, Members, TypeOK
<1>6. ASSUME NEW i \in {0, 1}, ExpDone(i)
      PROVE  TypeOK'
    <2>1. NextKidx(kincr + i) \in Int
        BY NAssumption, ThresholdAssumption DEF NextKidx, Lowest, TypeOK
    <2> QED
        BY <1>6, <2>1 DEF ExpDone, TypeOK
<1>7. CASE ExpEnd
    BY <1>7, <1>6 DEF ExpEnd
<1>8. ASSUME NEW k \in Keys, ExpHarassment(k)
      PROVE  TypeOK'
    BY <1>8, <1>6 DEF ExpHarassment
<1>9. ASSUME NEW k \in Keys, ExpLook(k)
      PROVE  TypeOK'
    BY <1>9 DEF ExpLook, TypeOK
<1>10. ASSUME NEW k \in Keys, ExpCheck(k)
       PROVE  TypeOK'
    <2>1. CASE Report(k, "failed")
        BY <1>10, <2>1, ReportType DEF ExpCheck, TypeOK, EntrySt
    <2>2. CASE cpc' = "get1" /\ UNCHANGED <<todo, stack, mpqueue>>
        BY <1>10, <2>2 DEF ExpCheck, TypeOK
    <2> QED
        BY <1>10, <2>1, <2>2 DEF ExpCheck
<1>11. ASSUME NEW k \in Keys, GetPromise(k)
       PROVE  TypeOK'
    <2>1. CASE Report(k, FindState("expected", "failed"))
        <3>1. FindState("expected", "failed") \in EntrySt
            BY FindStateType DEF EntrySt
        <3>2. local' \in [Keys -> LocalSt] /\ found' \in Nat
            BY <1>11 DEF GetPromise, TypeOK, LocalSt
        <3> QED
            BY <1>11, <2>1, <3>1, <3>2, ReportType DEF GetPromise, TypeOK
    <2>2. CASE cpc' = "get2" /\ UNCHANGED <<local, found, todo, stack, mpqueue>>
        BY <1>11, <2>2 DEF GetPromise, TypeOK
    <2> QED
        BY <1>11, <2>1, <2>2 DEF GetPromise
<1>12. ASSUME NEW k \in Keys, GetOther(k)
       PROVE  TypeOK'
    <2>1. ASSUME NEW stage, Report(k, FindState(stage, "failed")),
                 found' \in Nat, local' \in [Keys -> LocalSt]
          PROVE  TypeOK'
        <3>1. FindState(stage, "failed") \in EntrySt
            BY FindStateType DEF EntrySt
        <3> QED
            BY <1>12, <2>1, <3>1, ReportType DEF GetOther, TypeOK
    <2>2. CASE cpc' = "raising" /\ UNCHANGED <<local, found, todo, stack, mpqueue>>
        BY <1>12, <2>2 DEF GetOther, TypeOK
    <2>3. CASE /\ local' = [local EXCEPT ![k] = "data"]
               /\ Report(k, FindState("get", "failed"))
               /\ found' = found + (IF cst[k] = "expected" THEN 1 ELSE 0)
        <3>1. local' \in [Keys -> LocalSt] /\ found' \in Nat
            BY <2>3 DEF TypeOK, LocalSt
        <3> QED
            BY <2>1, <2>3, <3>1
    <2>4. CASE /\ UNCHANGED local
               /\ Report(k, FindState("void", "failed"))
               /\ found' = found + (IF cst[k] = "expected" THEN 1 ELSE 0)
        <3>1. local' \in [Keys -> LocalSt] /\ found' \in Nat
            BY <2>4 DEF TypeOK
        <3> QED
            BY <2>1, <2>4, <3>1
    <2> QED
        BY <1>12, <2>2, <2>3, <2>4 DEF GetOther
<1>13. CASE Apply
    <2>1. CASE stack = <<>>
        BY <1>13, <2>1 DEF Apply, TypeOK
    <2>2. CASE stack # <<>>
        <3>1. Head(stack) \in Results /\ Tail(stack) \in Seq(Results)
            BY <2>2, TailFacts DEF TypeOK
        <3>2. /\ StateAfter(cst, Head(stack)) \in [Keys -> EntrySt]
              /\ RankAfter(cst, cat, Head(stack)) \in [Keys -> 1..N]
            BY <3>1, KeyUpdateType DEF TypeOK
        <3> QED
            BY <1>13, <2>2, <3>1, <3>2 DEF Apply, TypeOK
    <2> QED
        BY <2>1, <2>2
<1>14. CASE JobFails
    BY <1>14 DEF JobFails, TypeOK
<1>15. CASE Receive
    <2>1. Head(mpqueue) \in Results /\ Tail(mpqueue) \in Seq(Results)
        BY <1>15, TailFacts DEF Receive, TypeOK
    <2>2. /\ StateAfter(pst, Head(mpqueue)) \in [Keys -> EntrySt \cup {"popped"}]
          /\ RankAfter(pst, pat, Head(mpqueue)) \in [Keys -> 1..N]
        BY <2>1, KeyUpdateType DEF TypeOK
    <2> QED
        BY <1>15, <2>1, <2>2 DEF Receive, TypeOK
<1>16. CASE Terminate
    <2>1. ASSUME NEW n \in 0..Len(mpqueue)
          PROVE  SubSeq(mpqueue, 1, n) \in Seq(Results)
        BY SubSeqProperties, SubSeqEmpty, LenProperties DEF TypeOK
    <2> QED
        BY <1>16, <2>1 DEF Terminate, TypeOK
<1>17. CASE Ask \/ AskRaises \/ Return \/ PopAvailable \/ Stop \/ Joined
    BY <1>17 DEF Ask, AskRaises, Return, PopAvailable, Stop, Joined, TypeOK, Members
<1>18. CASE UNCHANGED vars
    BY <1>18 DEF vars, TypeOK
<1>19. ASSUME NEW k \in Keys, GetNothing(k)
       PROVE  TypeOK'
    <2>1. FindState(StageLeft(k), "failed") \in EntrySt
        BY FindStateType DEF EntrySt
    <2>2. local' \in [Keys -> LocalSt] /\ found' \in Nat
        BY <1>19 DEF GetNothing, TypeOK
    <2> QED
        BY <1>19, <2>1, <2>2, ReportType DEF GetNothing, TypeOK
<1> QED
    BY <1>1, <1>2, <1>3, <1>4, <1>5, <1>7, <1>8, <1>9, <1>10, <1>11, <1>12,
       <1>13, <1>14, <1>15, <1>16, <1>17, <1>18, <1>19
       DEF Next, Child, Parent, Producers, Finished

\* The two processes and the queue stay well typed, for any number of targets and
\* any threshold.
THEOREM TypeCorrect == Spec => []TypeOK
<1>1. Init => TypeOK
    BY TypeInit
<1>2. TypeOK /\ [Next]_vars => TypeOK'
    BY TypeStep
<1> QED
    BY <1>1, <1>2, PTL DEF Spec

(***************************************************************************)
(* The inductive invariant.                                                *)
(***************************************************************************)
LEMMA FindStateValues ==
    /\ FindState("expected", "failed") = "expected"
    /\ FindState("get", "failed") = "available"
    /\ FindState("void", "failed") = "failed"
    BY DEF FindState, MapStages

\* What is said of an alternate that is not fetched
LEMMA StageLeftValues ==
    \A k : FindState(StageLeft(k), "failed") \in {"expected", "failed"}
    BY FindStateValues DEF StageLeft

LEMMA InvInit == Init => IInv
<1> SUFFICES ASSUME Init PROVE IInv
    OBVIOUS
<1>1. TypeOK
    BY TypeInit
<1>2. stack = <<>> /\ mpqueue = <<>> /\ todo = {} /\ cpc = "loop" /\ pst = cst
    BY DEF Init
<1>3. DOMAIN stack = {} /\ DOMAIN mpqueue = {}
    BY <1>2
<1>4. \A k \in Keys : cst[k] = "available" <=> local[k] = "data"
    <2>1. PICK stage \in [Keys -> InitStages] :
              /\ cst = [k \in Keys |-> FindState(stage[k], "ufo")]
              /\ local = [k \in Keys |-> LocalOf(stage[k])]
        BY DEF Init
    <2>2. ASSUME NEW k \in Keys
          PROVE  cst[k] = "available" <=> local[k] = "data"
        <3>1. stage[k] \in Stages
            BY StagesAssumption
        <3>2. /\ FindState("expected", "ufo") = "expected"
              /\ FindState("get", "ufo") = "available"
              /\ FindState("void", "ufo") = "ufo"
            BY DEF FindState, MapStages
        <3>3. /\ LocalOf("expected") = "promise" /\ LocalOf("get") = "data"
              /\ LocalOf("void") = "nothing"
            BY DEF LocalOf
        <3>4. cst[k] = FindState(stage[k], "ufo") /\ local[k] = LocalOf(stage[k])
            BY <2>1
        <3>5. CASE stage[k] = "expected"
            BY <3>2, <3>3, <3>4, <3>5
        <3>6. CASE stage[k] = "get"
            BY <3>2, <3>3, <3>4, <3>6
        <3>7. CASE stage[k] = "void"
            BY <3>2, <3>3, <3>4, <3>7
        <3> QED
            BY <3>1, <3>5, <3>6, <3>7 DEF Stages
    <2> QED
        BY <2>2
<1>5. StackFaithful /\ TodoFresh /\ Phases
    BY <1>2, <1>3 DEF StackFaithful, TodoFresh, Phases
<1>6. DataIsReported
    BY <1>3, <1>4 DEF DataIsReported, Reported
<1>7. QueueIsFetched /\ NoResultDropped
    BY <1>3 DEF QueueIsFetched, NoResultDropped
<1>8. AvailableIsFetched
    <2>1. \A k \in Keys : pst[k] \in EntrySt
        BY <1>1, <1>2 DEF TypeOK
    <2> QED
        BY <1>2, <1>4, <2>1 DEF AvailableIsFetched, EntrySt
<1>9. CopiesAgree
    <2>1. \A k \in Keys : pst[k] = cst[k] /\ pst[k] # "popped"
        BY <1>1, <1>2 DEF TypeOK, EntrySt
    <2> QED
        BY <1>3, <2>1 DEF CopiesAgree, Reported, Known
<1> QED
    BY <1>1, <1>5, <1>6, <1>7, <1>8, <1>9 DEF IInv

\* One result is reported: a key that is still to crawl leaves todo, and its
\* container holds what the new state says
Emit(k, s) ==
    /\ cpc \in {"check", "get1", "get2"} /\ k \in todo /\ Report(k, s)
    /\ UNCHANGED <<cst, pst>>
    /\ \/ s \in {"failed", "expected"} /\ local' = local
       \/ s = "expected" /\ local' = [local EXCEPT ![k] = "promise"]
       \/ s = "available" /\ local' = [local EXCEPT ![k] = "data"]

LEMMA EmitStep ==
    ASSUME IInv, TypeOK', NEW k \in Keys, NEW s \in EntrySt, Emit(k, s)
    PROVE  IInv'
<1> DEFINE r == [key |-> k, prev |-> cst[k], state |-> s]
<1> USE DEF IInv
<1>1. /\ r \in Results /\ r.key = k /\ r.prev = cst[k] /\ r.state = s
      /\ stack \in Seq(Results) /\ mpqueue \in Seq(Results)
    BY DEF Results, TypeOK
<1>2. /\ stack' = Append(stack, r) /\ mpqueue' = Append(mpqueue, r)
      /\ todo' = todo \ {k} /\ cst' = cst /\ pst' = pst /\ cpc # "killed"
      /\ cpc' = IF cst[k] = "ufo" THEN "ufo" ELSE "exp"
    BY DEF Emit, Report
<1>3. /\ Len(stack) \in Nat /\ DOMAIN stack = 1..Len(stack)
      /\ DOMAIN stack' = 1..Len(stack)+1
      /\ stack'[Len(stack)+1] = r
      /\ \A i \in DOMAIN stack : stack'[i] = stack[i]
    BY <1>1, <1>2, AppendFacts, LenProperties
<1>4. /\ Len(mpqueue) \in Nat /\ DOMAIN mpqueue = 1..Len(mpqueue)
      /\ Len(mpqueue') = Len(mpqueue) + 1
      /\ DOMAIN mpqueue' = 1..Len(mpqueue)+1
      /\ mpqueue'[Len(mpqueue)+1] = r
      /\ \A i \in DOMAIN mpqueue : mpqueue'[i] = mpqueue[i]
    BY <1>1, <1>2, AppendFacts, LenProperties
<1>5. k \in todo /\ Silent(stack, k) /\ cst[k] \in Pending
    BY DEF Emit, TodoFresh
<1>6. \A i \in DOMAIN stack : stack[i].key # k
    BY <1>5 DEF Silent
<1>7. local[k] # "data"
    BY <1>5 DEF DataIsReported, Reported, Pending
<1>8. \A j \in Keys : j # k => local'[j] = local[j]
    BY DEF Emit, TypeOK
<1>9. s = "available" => local'[k] = "data"
    BY DEF Emit, TypeOK
<1>10. StackFaithful'
    BY <1>2, <1>3, <1>5, <1>6, <1>1 DEF StackFaithful
<1>11. TodoFresh'
    <2>1. ASSUME NEW j \in todo', NEW i \in DOMAIN stack'
          PROVE  stack'[i].key # j
        BY <1>1, <1>2, <1>3, <2>1 DEF TodoFresh, Silent
    <2> QED
        BY <1>2, <2>1 DEF TodoFresh, Silent
<1>12. Phases'
    <2>1. CASE cst[k] = "ufo"
        <3>1. UfoRound
            BY <1>5, <2>1 DEF Phases, ExpectedRound, Emit
        <3>2. UfoRound'
            BY <1>1, <1>2, <1>3, <2>1, <3>1 DEF UfoRound
        <3> QED
            BY <1>2, <2>1, <3>2 DEF Phases
    <2>2. CASE cst[k] # "ufo"
        <3>1. ExpectedRound
            BY <1>5, <2>2 DEF Phases, UfoRound, Emit
        <3>2. ExpectedRound'
            BY <1>2, <3>1 DEF ExpectedRound
        <3> QED
            BY <1>2, <2>2, <3>2 DEF Phases
    <2> QED
        BY <2>1, <2>2
\* what is reported of k is s, and nothing new of the others
<1>13. \A t : Reported(k, t)' <=> t = s
    <2>1. ~Silent(stack', k)
        BY <1>1, <1>3 DEF Silent
    <2>2. \A i \in DOMAIN stack' : stack'[i].key = k => i = Len(stack) + 1
        BY <1>3, <1>6
    <2>3. stack'[Len(stack) + 1].key = k /\ stack'[Len(stack) + 1].state = s
        BY <1>1, <1>3
    <2> QED
        BY <1>3, <2>1, <2>2, <2>3 DEF Reported
<1>14. \A j \in Keys : \A t : j # k => (Reported(j, t)' <=> Reported(j, t))
    BY <1>1, <1>2, <1>3 DEF Reported, Silent
<1>15. DataIsReported'
    <2>1. ASSUME NEW j \in Keys, local'[j] = "data"
          PROVE  Reported(j, "available")'
        <3>1. CASE j # k
            BY <2>1, <3>1, <1>8, <1>14 DEF DataIsReported
        <3>2. CASE j = k
            BY <2>1, <3>2, <1>7, <1>13 DEF Emit, TypeOK
        <3> QED
            BY <3>1, <3>2
    <2> QED
        BY <2>1 DEF DataIsReported
<1>16. \A j \in Keys : local[j] = "data" => local'[j] = "data"
    BY <1>7, <1>8
<1>16b. \A i \in DOMAIN mpqueue : mpqueue[i].key \in Keys
    <2>1. \A i \in DOMAIN mpqueue : mpqueue[i] \in Results
        BY <1>1, <1>4, ElementOfSeq
    <2> QED
        BY <2>1 DEF Results
<1>17. QueueIsFetched'
    <2>1. ASSUME NEW i \in DOMAIN mpqueue'
          PROVE  /\ mpqueue'[i].prev \in Pending
                 /\ mpqueue'[i].state = "available"
                        => local'[mpqueue'[i].key] = "data"
        <3>1. CASE i = Len(mpqueue) + 1
            BY <3>1, <1>1, <1>4, <1>5, <1>9
        <3>2. CASE i \in DOMAIN mpqueue
            <4>1. mpqueue[i].key \in Keys
                BY <3>2, <1>16b
            <4> QED
                BY <3>2, <4>1, <1>4, <1>16 DEF QueueIsFetched
        <3> QED
            BY <1>4, <3>1, <3>2
    <2> QED
        BY <2>1 DEF QueueIsFetched
<1>18. AvailableIsFetched'
    BY <1>2, <1>16 DEF AvailableIsFetched
<1>19. \A j \in Keys : Known(j)' = Known(j)
    BY <1>2 DEF Known
<1>20. /\ Silent(mpqueue, k) => Known(k) = cst[k]
       /\ \A i \in DOMAIN mpqueue : mpqueue[i].key = k /\ IsLast(mpqueue, i)
                => mpqueue[i].state = cst[k]
    BY <1>2, <1>5 DEF CopiesAgree, Reported
<1>21. NoResultDropped'
    <2>1. ASSUME NEW i \in DOMAIN mpqueue', IsFirst(mpqueue', i)
          PROVE  (Known(mpqueue[i].key) = mpqueue[i].prev)'
        <3>1. CASE i \in DOMAIN mpqueue
            <4>1. mpqueue[i].key \in Keys
                BY <3>1, <1>16b
            <4>2. IsFirst(mpqueue, i)
                BY <2>1, <3>1, <1>4 DEF IsFirst
            <4> QED
                BY <3>1, <4>1, <4>2, <1>4, <1>19 DEF NoResultDropped
        <3>2. CASE i = Len(mpqueue) + 1
            <4>1. Silent(mpqueue, k)
                BY <2>1, <3>2, <1>1, <1>4 DEF IsFirst, Silent
            <4> QED
                BY <3>2, <4>1, <1>1, <1>4, <1>19, <1>20
        <3> QED
            BY <3>1, <3>2, <1>4
    <2>2. ASSUME NEW i \in DOMAIN mpqueue', NEW j \in DOMAIN mpqueue',
                 Follows(mpqueue', i, j)
          PROVE  mpqueue'[i].state = mpqueue'[j].prev
        <3>1. i \in DOMAIN mpqueue
            BY <2>2, <1>4 DEF Follows
        <3>2. CASE j \in DOMAIN mpqueue
            <4>1. Follows(mpqueue, i, j)
                <5>1. /\ mpqueue'[i] = mpqueue[i] /\ mpqueue'[j] = mpqueue[j]
                      /\ \A l \in i+1..j-1 : mpqueue'[l] = mpqueue[l]
                    BY <3>1, <3>2, <1>4
                <5>2. /\ i < j /\ mpqueue'[i].key = mpqueue'[j].key
                      /\ \A l \in i+1..j-1 : mpqueue'[l].key # mpqueue'[j].key
                    BY <2>2 DEF Follows
                <5> QED
                    BY ONLY <5>1, <5>2 DEF Follows
            <4> QED
                BY <3>1, <3>2, <4>1, <1>4 DEF NoResultDropped
        <3>3. CASE j = Len(mpqueue) + 1
            <4>1. mpqueue[i].key = k /\ IsLast(mpqueue, i)
                BY <2>2, <3>1, <3>3, <1>1, <1>4 DEF Follows, IsLast
            <4> QED
                BY <3>1, <3>3, <4>1, <1>1, <1>4, <1>20
        <3> QED
            BY <3>2, <3>3, <1>4
    <2> QED
        BY <2>1, <2>2 DEF NoResultDropped
<1>22. CopiesAgree'
    <2>1. ASSUME NEW j \in Keys, Silent(mpqueue, j)', j # k
          PROVE  Reported(j, Known(j))'
        <3>1. Silent(mpqueue, j)
            BY <2>1, <1>4 DEF Silent
        <3> QED
            BY <2>1, <3>1, <1>2, <1>14, <1>19 DEF CopiesAgree
    <2>2. ~Silent(mpqueue, k)'
        BY <1>1, <1>4 DEF Silent
    <2>3. ASSUME NEW j \in Keys, NEW i \in DOMAIN mpqueue',
                 mpqueue'[i].key = j, IsLast(mpqueue', i)
          PROVE  Reported(j, mpqueue[i].state)'
        <3>1. CASE i = Len(mpqueue) + 1
            BY <2>3, <3>1, <1>1, <1>4, <1>13
        <3>2. CASE i \in DOMAIN mpqueue
            <4>1. j # k
                BY <2>3, <3>2, <1>1, <1>4 DEF IsLast
            <4>2. mpqueue[i].key = j /\ IsLast(mpqueue, i)
                BY <2>3, <3>2, <1>4 DEF IsLast
            <4> QED
                BY <3>2, <4>1, <4>2, <1>2, <1>4, <1>14 DEF CopiesAgree
        <3> QED
            BY <3>1, <3>2, <1>4
    <2> QED
        BY <2>1, <2>2, <2>3 DEF CopiesAgree
<1> QED
    BY <1>10, <1>11, <1>12, <1>15, <1>17, <1>18, <1>21, <1>22

\* Playing one result of the stack on the table changes nothing to what is reported
LEMMA ApplyStep ==
    ASSUME IInv, TypeOK', Apply, stack # <<>>
    PROVE  IInv'
<1> DEFINE h == Head(stack)
<1> USE DEF IInv
<1>1. /\ stack \in Seq(Results) /\ cst \in [Keys -> EntrySt]
      /\ stack' = Tail(stack) /\ cst' = StateAfter(cst, h)
      /\ cpc = "apply" /\ cpc' = "apply"
      /\ UNCHANGED <<local, todo, mpqueue, pst>>
    BY DEF Apply, TypeOK
<1>2. /\ h \in Results /\ h = stack[1] /\ Len(stack) \in Nat \ {0}
      /\ DOMAIN stack = 1..Len(stack)
      /\ DOMAIN stack' = 1..Len(stack)-1
      /\ \A i \in 1..Len(stack)-1 : stack'[i] = stack[i+1]
    BY <1>1, TailFacts
<1>3. h.key \in Keys /\ cst[h.key] = h.prev
    BY <1>2 DEF Results, StackFaithful
<1>4. cst' = [cst EXCEPT ![h.key] = h.state]
    BY <1>1, <1>3 DEF StateAfter
<1>5. \A i \in DOMAIN stack' : i + 1 \in DOMAIN stack /\ stack'[i].key # h.key
    BY <1>2 DEF StackFaithful
<1>6. \A i \in DOMAIN stack : stack[i].key \in Keys
    <2>1. \A i \in DOMAIN stack : stack[i] \in Results
        BY <1>1, <1>2, ElementOfSeq
    <2> QED
        BY <2>1 DEF Results
<1>7. StackFaithful'
    BY <1>1, <1>2, <1>3, <1>4, <1>5, <1>6 DEF StackFaithful
<1>8. TodoFresh'
    <2>1. ASSUME NEW k \in todo
          PROVE  k # h.key /\ Silent(stack', k)
        BY <1>2, <1>5 DEF TodoFresh, Silent
    <2>2. \A k \in todo : k \in Keys
        BY DEF TypeOK
    <2> QED
        BY <1>1, <1>3, <1>4, <2>1, <2>2 DEF TodoFresh
<1>9. Phases'
    BY <1>1 DEF Phases
<1>10. \A k \in Keys : \A t : Reported(k, t)' <=> Reported(k, t)
    <2>2. ASSUME NEW k \in Keys, NEW t, k # h.key
          PROVE  Reported(k, t)' <=> Reported(k, t)
        <3>1. cst'[k] = cst[k]
            BY <1>1, <1>4, <2>2
        <3>2. \A i \in DOMAIN stack : stack[i].key = k
                  => i # 1 /\ i - 1 \in DOMAIN stack' /\ stack'[i-1] = stack[i]
            BY <1>2, <2>2
        <3>3. \A i \in DOMAIN stack' : i + 1 \in DOMAIN stack /\ stack'[i] = stack[i+1]
            BY <1>2
        <3> QED
            BY <3>1, <3>2, <3>3 DEF Reported, Silent
    <2>3. ASSUME NEW k \in Keys, NEW t, k = h.key
          PROVE  Reported(k, t)' <=> Reported(k, t)
        <3>1. Reported(k, t) <=> t = h.state
            BY <1>2, <2>3 DEF Reported, Silent, StackFaithful
        <3>2. /\ cst'[k] = h.state
              /\ \A i \in DOMAIN stack' : stack'[i].key # k
            BY <1>1, <1>3, <1>4, <1>5, <2>3
        <3>3. Reported(k, t)' <=> t = h.state
            BY <3>2 DEF Reported, Silent
        <3> QED
            BY <3>1, <3>3
    <2> QED
        BY <2>2, <2>3
<1>11. \A k \in Keys : Known(k)' = Known(k)
    BY <1>1 DEF Known
<1>12. DataIsReported'
    BY <1>1, <1>10 DEF DataIsReported
<1>13. QueueIsFetched' /\ AvailableIsFetched' /\ NoResultDropped'
    BY <1>1 DEF QueueIsFetched, AvailableIsFetched, NoResultDropped, Known,
                IsFirst, Follows
<1>14. CopiesAgree'
    BY <1>1, <1>10, <1>11 DEF CopiesAgree, Silent, IsLast
<1> QED
    BY <1>7, <1>8, <1>9, <1>12, <1>13, <1>14

\* The main process plays the first result of the queue on its copy
LEMMA ReceiveStep ==
    ASSUME IInv, TypeOK', Receive
    PROVE  IInv'
<1> DEFINE h == Head(mpqueue)
<1> USE DEF IInv
<1>1. /\ mpqueue \in Seq(Results) /\ mpqueue # <<>>
      /\ pst \in [Keys -> EntrySt \cup {"popped"}]
      /\ mpqueue' = Tail(mpqueue) /\ pst' = StateAfter(pst, h)
      /\ UNCHANGED <<local, cst, cpc, todo, stack>>
    BY DEF Receive, TypeOK
<1>2. /\ h \in Results /\ h = mpqueue[1] /\ Len(mpqueue) \in Nat \ {0}
      /\ DOMAIN mpqueue = 1..Len(mpqueue)
      /\ Len(mpqueue') = Len(mpqueue) - 1
      /\ DOMAIN mpqueue' = 1..Len(mpqueue)-1
      /\ \A i \in 1..Len(mpqueue)-1 : mpqueue'[i] = mpqueue[i+1]
    BY <1>1, TailFacts
<1>3. h.key \in Keys /\ h.state \in EntrySt /\ h.prev \in Pending
    BY <1>2 DEF Results, QueueIsFetched
<1>4. Known(h.key) = h.prev
    BY <1>2 DEF NoResultDropped, IsFirst
<1>5. pst[h.key] = h.prev
    BY <1>3, <1>4 DEF Known, Pending
<1>6. pst' = [pst EXCEPT ![h.key] = h.state]
    BY <1>1, <1>5 DEF StateAfter
<1>7. \A k \in Keys : k = h.key => Known(k)' = h.state
    BY <1>1, <1>3, <1>6 DEF Known, EntrySt
<1>8. \A k \in Keys : k # h.key => Known(k)' = Known(k)
    BY <1>1, <1>6 DEF Known
<1>9. \A i \in DOMAIN mpqueue' : i + 1 \in DOMAIN mpqueue /\ mpqueue'[i] = mpqueue[i+1]
    BY <1>2
<1>10. \A i \in DOMAIN mpqueue : mpqueue[i].key \in Keys
    <2>1. \A i \in DOMAIN mpqueue : mpqueue[i] \in Results
        BY <1>1, <1>2, ElementOfSeq
    <2> QED
        BY <2>1 DEF Results
<1>11. StackFaithful' /\ TodoFresh' /\ Phases' /\ DataIsReported'
    BY <1>1 DEF StackFaithful, TodoFresh, Phases, DataIsReported, UfoRound,
                ExpectedRound, Reported, Silent
<1>12. QueueIsFetched'
    BY <1>1, <1>9 DEF QueueIsFetched
<1>13. AvailableIsFetched'
    BY <1>1, <1>2, <1>3, <1>6 DEF AvailableIsFetched, QueueIsFetched, EntrySt
<1>14. NoResultDropped'
    <2>1. ASSUME NEW i \in DOMAIN mpqueue', IsFirst(mpqueue', i)
          PROVE  (Known(mpqueue[i].key) = mpqueue[i].prev)'
        <3>1. i + 1 \in DOMAIN mpqueue /\ mpqueue'[i] = mpqueue[i+1]
            BY <1>9
        <3>2. CASE mpqueue[i+1].key = h.key
            <4>1. Follows(mpqueue, 1, i + 1)
                <5>1. \A l \in 2..i : mpqueue'[l-1] = mpqueue[l] /\ l - 1 \in 1..i-1
                    BY <1>2, <3>1
                <5>2. \A l \in 2..i : mpqueue[l].key # mpqueue[i+1].key
                    BY <2>1, <3>1, <5>1 DEF IsFirst
                <5> QED
                    BY <1>2, <3>1, <3>2, <5>2 DEF Follows
            <4>2. h.state = mpqueue[i+1].prev
                BY <1>2, <3>1, <4>1 DEF NoResultDropped
            <4> QED
                BY <3>1, <3>2, <4>2, <1>7, <1>10
        <3>3. CASE mpqueue[i+1].key # h.key
            <4>1. IsFirst(mpqueue, i + 1)
                <5>1. \A l \in 2..i : mpqueue'[l-1] = mpqueue[l] /\ l - 1 \in 1..i-1
                    BY <1>2, <3>1
                <5>2. \A l \in 2..i : mpqueue[l].key # mpqueue[i+1].key
                    BY <2>1, <3>1, <5>1 DEF IsFirst
                <5> QED
                    BY <1>2, <3>1, <3>3, <5>2 DEF IsFirst
            <4> QED
                BY <3>1, <3>3, <4>1, <1>8, <1>10 DEF NoResultDropped
        <3> QED
            BY <3>2, <3>3
    <2>2. ASSUME NEW i \in DOMAIN mpqueue', NEW j \in DOMAIN mpqueue',
                 Follows(mpqueue', i, j)
          PROVE  mpqueue'[i].state = mpqueue'[j].prev
        <3>1. \A l \in i+2..j : mpqueue'[l-1] = mpqueue[l] /\ l - 1 \in i+1..j-1
            BY <1>2
        <3>2. Follows(mpqueue, i + 1, j + 1)
            BY <2>2, <1>2, <1>9, <3>1, SMTT(30) DEF Follows
        <3> QED
            BY <1>9, <3>2 DEF NoResultDropped
    <2> QED
        BY <2>1, <2>2 DEF NoResultDropped
<1>15. CopiesAgree'
    <2> SUFFICES ASSUME cpc # "killed", NEW k \in Keys
                 PROVE  /\ Silent(mpqueue', k) => Reported(k, Known(k))'
                        /\ \A i \in DOMAIN mpqueue' :
                              mpqueue'[i].key = k /\ IsLast(mpqueue', i)
                                  => Reported(k, mpqueue[i].state)'
        BY <1>1 DEF CopiesAgree
    <2>1. \A t : Reported(k, t)' <=> Reported(k, t)
        BY <1>1 DEF Reported, Silent
    <2>2. ASSUME Silent(mpqueue', k), k = h.key
          PROVE  Reported(k, Known(k))'
        <3>1. \A l \in 2..Len(mpqueue) : mpqueue'[l-1] = mpqueue[l] /\ l-1 \in DOMAIN mpqueue'
            BY <1>2
        <3>2. IsLast(mpqueue, 1)
            BY <1>2, <2>2, <3>1 DEF Silent, IsLast
        <3> QED
            BY <1>2, <1>7, <2>1, <2>2, <3>2 DEF CopiesAgree
    <2>3. ASSUME Silent(mpqueue', k), k # h.key
          PROVE  Reported(k, Known(k))'
        <3>1. \A l \in 2..Len(mpqueue) : mpqueue'[l-1] = mpqueue[l] /\ l-1 \in DOMAIN mpqueue'
            BY <1>2
        <3>2. \A l \in 2..Len(mpqueue) : mpqueue[l].key # k
            BY <2>3, <3>1 DEF Silent
        <3>3. Silent(mpqueue, k)
            BY <1>2, <2>3, <3>2 DEF Silent
        <3> QED
            BY <1>8, <2>1, <2>3, <3>3 DEF CopiesAgree
    <2>4. ASSUME NEW i \in DOMAIN mpqueue', mpqueue'[i].key = k, IsLast(mpqueue', i)
          PROVE  Reported(k, mpqueue[i].state)'
        <3>1. \A l \in i+2..Len(mpqueue) :
                  mpqueue'[l-1] = mpqueue[l] /\ l - 1 \in i+1..Len(mpqueue')
            BY <1>2
        <3>2. IsLast(mpqueue, i + 1) /\ mpqueue[i+1].key = k
            BY <1>2, <1>9, <2>4, <3>1 DEF IsLast
        <3> QED
            BY <1>9, <2>1, <3>2 DEF CopiesAgree
    <2> QED
        BY <2>2, <2>3, <2>4
<1> QED
    BY <1>11, <1>12, <1>13, <1>14, <1>15

\* The steps that report nothing and play nothing: todo only shrinks, unless a new
\* list of keys is chosen
LEMMA QuietStep ==
    ASSUME IInv, TypeOK', UNCHANGED <<local, cst, stack, mpqueue>>,
           \A k \in Keys : Known(k)' = Known(k),
           \A k \in Keys : pst'[k] \in {"available", "popped"}
                              => pst[k] \in {"available", "popped"},
           cpc' = "killed" \/ cpc # "killed", TodoFresh', Phases'
    PROVE  IInv'
<1> USE DEF IInv
<1>1. StackFaithful' /\ DataIsReported' /\ QueueIsFetched' /\ AvailableIsFetched'
    BY DEF StackFaithful, DataIsReported, Reported, Silent, QueueIsFetched,
           AvailableIsFetched
<1>2. \A i \in DOMAIN mpqueue : mpqueue[i].key \in Keys
    <2>1. \A i \in DOMAIN mpqueue : mpqueue[i] \in Results
        BY ElementOfSeq, LenProperties DEF TypeOK
    <2> QED
        BY <2>1 DEF Results
<1>3. NoResultDropped'
    BY <1>2 DEF NoResultDropped, IsFirst, Follows
<1>4. CopiesAgree'
    BY DEF CopiesAgree, Reported, Silent, IsLast
<1> QED
    BY <1>1, <1>3, <1>4

\* A kill only cuts the end of the queue
LEMMA TerminateStep ==
    ASSUME IInv, TypeOK', Terminate
    PROVE  IInv'
<1> USE DEF IInv
<1>1. /\ cpc' = "killed" /\ mpqueue \in Seq(Results)
      /\ UNCHANGED <<local, cst, stack, todo, pst>>
    BY DEF Terminate, TypeOK
<1>2. PICK n \in 0..Len(mpqueue) : mpqueue' = SubSeq(mpqueue, 1, n)
    BY DEF Terminate
<1>3. /\ DOMAIN mpqueue' = 1..n
      /\ \A i \in 1..n : i \in DOMAIN mpqueue /\ mpqueue'[i] = mpqueue[i]
    <2>1. Len(mpqueue) \in Nat /\ DOMAIN mpqueue = 1..Len(mpqueue)
        BY <1>1, LenProperties
    <2> QED
        BY <1>1, <1>2, <2>1, SubSeqProperties
<1>4. StackFaithful' /\ TodoFresh' /\ Phases' /\ DataIsReported'
    BY <1>1 DEF StackFaithful, TodoFresh, Phases, DataIsReported, Reported, Silent
<1>5. QueueIsFetched' /\ AvailableIsFetched'
    BY <1>1, <1>3 DEF QueueIsFetched, AvailableIsFetched
<1>6. NoResultDropped'
    <2>1. ASSUME NEW i \in 1..n, IsFirst(mpqueue', i)
          PROVE  Known(mpqueue[i].key) = mpqueue[i].prev
        <3>1. IsFirst(mpqueue, i)
            BY <1>3, <2>1 DEF IsFirst
        <3> QED
            BY <1>3, <3>1 DEF NoResultDropped
    <2>2. ASSUME NEW i \in 1..n, NEW j \in 1..n, Follows(mpqueue', i, j)
          PROVE  mpqueue[i].state = mpqueue[j].prev
        <3>1. Follows(mpqueue, i, j)
            BY <1>3, <2>2 DEF Follows
        <3> QED
            BY <1>3, <3>1 DEF NoResultDropped
    <2>3. \A k : Known(k)' = Known(k)
        BY <1>1 DEF Known
    <2> QED
        BY <1>3, <2>1, <2>2, <2>3 DEF NoResultDropped
<1>7. CopiesAgree'
    BY <1>1 DEF CopiesAgree
<1> QED
    BY <1>4, <1>5, <1>6, <1>7

LEMMA InvStep == IInv /\ [Next]_vars => IInv'
<1> SUFFICES ASSUME IInv, [Next]_vars PROVE IInv'
    OBVIOUS
<1> USE DEF IInv
<1>1. TypeOK'
    BY TypeStep
<1>2. ASSUME UNCHANGED <<local, cpc, cst, stack, mpqueue, todo, pst>>
      PROVE  IInv'
    <2>1. TodoFresh' /\ Phases'
        BY <1>2 DEF TodoFresh, Phases, Silent, UfoRound, ExpectedRound
    <2> QED
        BY <1>1, <1>2, <2>1, QuietStep DEF Known
<1>3. ASSUME UNCHANGED <<local, cst, stack, mpqueue, pst>>, todo' \subseteq todo,
             cpc # "killed", Phases'
      PROVE  IInv'
    <2>1. TodoFresh'
        BY <1>3 DEF TodoFresh, Silent
    <2> QED
        BY <1>1, <1>3, <2>1, QuietStep DEF Known
<1>4. CASE Producers
    BY <1>2, <1>4 DEF Producers, Keep, Renege, Repromise
<1>5. CASE LoopExit
    BY <1>3, <1>5 DEF LoopExit, Phases
<1>6. CASE StartRound
    <2>1. /\ cpc = "loop" /\ cpc' = "ufo" /\ stack = <<>> /\ stack' = <<>>
          /\ todo' = FirstUfo /\ UNCHANGED <<local, cst, mpqueue, pst>>
        BY <1>6 DEF StartRound, Phases
    <2>2. \A k \in todo' : cst[k] = "ufo"
        BY <2>1 DEF FirstUfo, Members
    <2>3. TodoFresh' /\ Phases'
        BY <2>1, <2>2 DEF TodoFresh, Phases, Silent, UfoRound, Pending
    <2> QED
        BY <1>1, <2>1, <2>3, QuietStep DEF Known
<1>7. CASE UfoNext
    BY <1>3, <1>7 DEF UfoNext, Phases, UfoRound
<1>8. CASE UfoDone
    <2>1. /\ cpc = "ufo" /\ cpc' = "exp" /\ todo' = ChosenExpected
          /\ UNCHANGED <<local, cst, stack, mpqueue, pst>>
        BY <1>8 DEF UfoDone
    <2>2. \A k \in todo' : cst[k] = "expected"
        BY <2>1 DEF ChosenExpected, Members
    <2>3. \A k \in todo' : Silent(stack, k)
        BY <2>1, <2>2 DEF Phases, UfoRound, StackFaithful, Silent
    <2>4. TodoFresh' /\ Phases'
        BY <2>1, <2>2, <2>3 DEF TodoFresh, Phases, Silent, ExpectedRound, Pending
    <2> QED
        BY <1>1, <2>1, <2>4, QuietStep DEF Known
<1>9. CASE ExpEnd
    BY <1>3, <1>9 DEF ExpEnd, ExpDone, Phases
<1>10. ASSUME NEW k \in Keys, ExpHarassment(k)
       PROVE  IInv'
    BY <1>3, <1>10 DEF ExpHarassment, ExpDone, Phases
<1>11. ASSUME NEW k \in Keys, ExpLook(k)
       PROVE  IInv'
    BY <1>3, <1>11 DEF ExpLook, Phases, ExpectedRound
<1>12. ASSUME NEW k \in Keys, ExpCheck(k)
       PROVE  IInv'
    <2>1. CASE Report(k, "failed")
        BY <1>1, <1>12, <2>1, EmitStep DEF ExpCheck, Emit, Current, EntrySt
    <2>2. CASE cpc' = "get1" /\ UNCHANGED <<todo, stack, mpqueue>>
        BY <1>3, <1>12, <2>2 DEF ExpCheck, Phases, ExpectedRound
    <2> QED
        BY <1>12, <2>1, <2>2 DEF ExpCheck
<1>13. ASSUME NEW k \in Keys, GetPromise(k)
       PROVE  IInv'
    <2>1. CASE /\ local' = [local EXCEPT ![k] = "promise"]
               /\ Report(k, FindState("expected", "failed"))
        BY <1>1, <1>13, <2>1, EmitStep, FindStateValues
           DEF GetPromise, Emit, Current, EntrySt
    <2>2. CASE cpc' = "get2" /\ UNCHANGED <<local, todo, stack, mpqueue>>
        BY <1>3, <1>13, <2>2 DEF GetPromise, Phases, UfoRound, ExpectedRound
    <2> QED
        BY <1>13, <2>1, <2>2 DEF GetPromise
<1>14. ASSUME NEW k \in Keys, GetOther(k)
       PROVE  IInv'
    <2>1. CASE /\ local' = [local EXCEPT ![k] = "data"]
               /\ Report(k, FindState("get", "failed"))
        BY <1>1, <1>14, <2>1, EmitStep, FindStateValues
           DEF GetOther, Emit, Current, EntrySt
    <2>2. CASE local' = local /\ Report(k, FindState("void", "failed"))
        BY <1>1, <1>14, <2>2, EmitStep, FindStateValues
           DEF GetOther, Emit, Current, EntrySt
    <2>3. CASE cpc' = "raising" /\ UNCHANGED <<local, todo, stack, mpqueue>>
        BY <1>3, <1>14, <2>3 DEF GetOther, Phases
    <2> QED
        BY <1>14, <2>1, <2>2, <2>3 DEF GetOther
<1>15. CASE Apply
    <2>1. CASE stack = <<>>
        BY <1>3, <1>15, <2>1 DEF Apply, Phases
    <2>2. CASE stack # <<>>
        BY <1>1, <1>15, <2>2, ApplyStep
    <2> QED
        BY <2>1, <2>2
<1>16. CASE JobFails
    BY <1>3, <1>16 DEF JobFails, Phases
<1>17. CASE Ask \/ AskRaises \/ Return \/ Stop \/ Joined
    BY <1>2, <1>17 DEF Ask, AskRaises, Return, Stop, Joined, parentSide
<1>18. CASE PopAvailable
    <2>1. UNCHANGED <<local, cpc, cst, stack, mpqueue, todo>>
        BY <1>18 DEF PopAvailable, parentSide
    <2>2. PICK k \in Members(pst, "available") : pst' = [pst EXCEPT ![k] = "popped"]
        BY <1>18 DEF PopAvailable
    <2>3. k \in Keys /\ pst[k] = "available"
        BY <2>2 DEF Members
    <2>4. \A j \in Keys : /\ Known(j)' = Known(j)
                          /\ pst'[j] \in {"available", "popped"}
                                => pst[j] \in {"available", "popped"}
        BY <2>2, <2>3 DEF Known, TypeOK
    <2>5. TodoFresh' /\ Phases'
        BY <2>1 DEF TodoFresh, Phases, Silent, UfoRound, ExpectedRound
    <2> QED
        BY <1>1, <2>1, <2>4, <2>5, QuietStep
<1>19. CASE Receive
    BY <1>1, <1>19, ReceiveStep
<1>20. CASE Terminate
    BY <1>1, <1>20, TerminateStep
<1>21. CASE UNCHANGED vars
    BY <1>2, <1>21 DEF vars
<1>22. ASSUME NEW k \in Keys, GetNothing(k)
       PROVE  IInv'
    BY <1>1, <1>22, EmitStep, StageLeftValues DEF GetNothing, Emit, Current, EntrySt
<1> QED
    BY <1>4, <1>5, <1>6, <1>7, <1>8, <1>9, <1>10, <1>11, <1>12, <1>13, <1>14,
       <1>15, <1>16, <1>17, <1>18, <1>19, <1>20, <1>21, <1>22
       DEF Next, Child, Parent, Finished

LEMMA Invariant == Spec => []IInv
<1>1. Init => IInv
    BY InvInit
<1>2. IInv /\ [Next]_vars => IInv'
    BY InvStep
<1> QED
    BY <1>1, <1>2, PTL DEF Spec

(***************************************************************************)
(* The theorems.                                                           *)
(***************************************************************************)
\* No result is dropped by _key_update, whatever the number of targets, the
\* threshold and the number of times a promise is made again.
THEOREM ResultsNeverDropped == Spec => []NoResultDropped
<1>1. IInv => NoResultDropped
    BY DEF IInv
<1> QED
    BY <1>1, Invariant, PTL

\* The main process' table and the background process' table agree up to what is
\* in flight.
THEOREM TablesAgree == Spec => []CopiesAgree
<1>1. IInv => CopiesAgree
    BY DEF IInv
<1> QED
    BY <1>1, Invariant, PTL

\* The monitor only gives as available what was really fetched.
THEOREM AvailableMeansFetched == Spec => []AvailableIsFetched
<1>1. IInv => AvailableIsFetched
    BY DEF IInv
<1> QED
    BY <1>1, Invariant, PTL

\* A fetched file is never overwritten: the updater only gets entries it has not
\* fetched yet, even when their promise is made again.
THEOREM NeverFetchedTwice == Spec => FetchedForGood
<1>1. ASSUME IInv, [Next]_vars
      PROVE  [\A k \in Keys : local[k] = "data" => local'[k] = "data"]_vars
    <2> SUFFICES ASSUME NEW j \in Keys, local[j] = "data" PROVE local'[j] = "data"
        OBVIOUS
    <2>1. \A k \in todo : local[k] # "data"
        BY <1>1 DEF IInv, TypeOK, TodoFresh, DataIsReported, Reported, Pending
    <2>2. ASSUME NEW k \in Keys, GetPromise(k) \/ GetOther(k)
          PROVE  local'[j] = "data"
        <3>1. k # j
            BY <2>1, <2>2 DEF GetPromise, GetOther, Current
        <3> QED
            BY <1>1, <2>2, <3>1 DEF GetPromise, GetOther, IInv, TypeOK
    <2>3. CASE UNCHANGED local
        BY <2>3
    <2>4. CASE Parent \/ Producers \/ Finished \/ UNCHANGED vars
        BY <2>3, <2>4
           DEF Parent, Producers, Finished, vars, Ask, AskRaises, Receive, Return,
               PopAvailable, Stop, Joined, Terminate, Keep, Renege, Repromise,
               parentSide
    <2>5. CASE LoopExit \/ StartRound \/ UfoNext \/ UfoDone \/ ExpEnd \/ Apply \/ JobFails
        BY <2>3, <2>5
           DEF LoopExit, StartRound, UfoNext, UfoDone, ExpEnd, ExpDone, Apply,
               JobFails
    <2>6. ASSUME NEW k \in Keys, ExpHarassment(k) \/ ExpLook(k) \/ ExpCheck(k) \/ GetNothing(k)
          PROVE  local'[j] = "data"
        BY <2>3, <2>6 DEF ExpHarassment, ExpDone, ExpLook, ExpCheck, GetNothing
    <2> QED
        BY <1>1, <2>2, <2>4, <2>5, <2>6 DEF Next, Child
<1> QED
    BY <1>1, Invariant, PTL DEF Spec, FetchedForGood

(***************************************************************************)
(* The order of hand-out: what the updater finds first is in front in its  *)
(* table and stack, in the queue and in the table of the main process.     *)
(***************************************************************************)
\* No two keys have the same rank
Distinct(at) == \A i, j \in Keys : at[i] = at[j] => i = j

\* The updater has found the file of k: its table says so, or will when the stack is applied
StackSays(i, k) == stack[i].key = k /\ stack[i].state = "available"
Found(k) == cst[k] = "available" \/ \E i \in DOMAIN stack : StackSays(i, k)

\* ... and it has found a before b: this is what the ranks will say
FoundBefore(a, b) ==
    \/ cst[a] = "available" /\ (cst[b] = "available" => cat[a] < cat[b])
    \/ \E i, j \in DOMAIN stack : i < j /\ StackSays(i, a) /\ StackSays(j, b)

\* The main process knows it, or the queue will tell
Told(k) == pst[k] \in {"available", "popped"}
QueueSays(i, k) == mpqueue[i].key = k /\ mpqueue[i].state = "available"

\* What is told is true, and what is found is told unless a kill has lost messages
OnlyFound ==
    /\ \A k \in Keys : Told(k) => Found(k)
    /\ \A k \in Keys, i \in DOMAIN mpqueue : QueueSays(i, k) => Found(k)
AllTold ==
    cpc # "killed" => \A k \in Keys : Found(k) => Told(k) \/ \E i \in DOMAIN mpqueue : QueueSays(i, k)

\* Who was popped, who is available, who is in the queue: in this order, and in the order
\* of each, they were found before those that come after them
PoppedFirst ==
    \A a, b \in Keys : pst[a] = "popped" /\ pst[b] # "popped" /\ Found(b) => FoundBefore(a, b)
AvailableNext ==
    \A a, b \in Keys :
        /\ a # b /\ pst[a] = "available" /\ pst[b] # "popped" /\ Found(b)
        /\ pst[b] = "available" => pat[a] < pat[b]
        => FoundBefore(a, b)
QueueThen ==
    \A a, b \in Keys, i \in DOMAIN mpqueue :
        /\ a # b /\ QueueSays(i, a) /\ ~Told(b) /\ Found(b)
        /\ \A j \in 1..i-1 : ~QueueSays(j, b)
        => FoundBefore(a, b)

Ordered ==
    /\ Distinct(cat) /\ Distinct(pat) /\ OnlyFound /\ AllTold
    /\ PoppedFirst /\ AvailableNext /\ QueueThen

\* What a move to the end does to the order
LEMMA MoveRanks ==
    ASSUME NEW at \in [Keys -> 1..N], NEW k \in Keys, Distinct(at)
    PROVE  /\ Distinct(MoveToEnd(at, k)) /\ MoveToEnd(at, k)[k] = N
           /\ \A j \in Keys \ {k} : MoveToEnd(at, k)[j] < N
           /\ \A i, j \in Keys \ {k} : MoveToEnd(at, k)[i] < MoveToEnd(at, k)[j] <=> at[i] < at[j]
<1> DEFINE new == MoveToEnd(at, k)
<1>1. /\ N \in Nat /\ at[k] \in 1..N
      /\ \A j \in Keys : at[j] \in 1..N /\ (j # k => at[j] # at[k])
    BY NAssumption DEF Distinct
<1>2. new[k] = N /\ \A j \in Keys \ {k} : new[j] = IF at[j] > at[k] THEN at[j] - 1 ELSE at[j]
    BY DEF MoveToEnd
<1> HIDE DEF new
<1>3. \A j \in Keys \ {k} : new[j] < N
    BY <1>1, <1>2
<1>4. \A i, j \in Keys \ {k} : new[i] < new[j] <=> at[i] < at[j]
    <2> SUFFICES ASSUME NEW i \in Keys \ {k}, NEW j \in Keys \ {k}
                 PROVE  new[i] < new[j] <=> at[i] < at[j]
        OBVIOUS
    <2>1. at[i] \in 1..N /\ at[j] \in 1..N /\ at[i] # at[k] /\ at[j] # at[k]
        BY <1>1
    <2> QED BY <1>1, <1>2, <2>1
<1>5. Distinct(new)
    <2> SUFFICES ASSUME NEW i \in Keys, NEW j \in Keys, i # j, new[i] = new[j]
                 PROVE  FALSE
        BY DEF Distinct
    <2>1. i # k /\ j # k
        BY <1>1, <1>2, <1>3
    <2>2. at[i] # at[j] /\ at[i] \in 1..N /\ at[j] \in 1..N
        BY <1>1 DEF Distinct
    <2>3. ~(at[i] < at[j]) /\ ~(at[j] < at[i])
        <3>1. ~(new[i] < new[j]) /\ ~(new[j] < new[i])
            BY <1>1, <1>2, <2>1
        <3> QED BY <1>4, <2>1, <3>1
    <2> QED BY <1>1, <2>2, <2>3
<1> QED BY <1>2, <1>3, <1>4, <1>5 DEF new

\* The facts about a state that the steps use
LEMMA OrderFacts ==
    ASSUME IInv, Ordered
    PROVE  /\ Len(stack) \in Nat /\ DOMAIN stack = 1..Len(stack)
           /\ Len(mpqueue) \in Nat /\ DOMAIN mpqueue = 1..Len(mpqueue)
           /\ \A i \in DOMAIN stack : stack[i].key \in Keys /\ cst[stack[i].key] \in Pending
           /\ \A i \in DOMAIN mpqueue : mpqueue[i].key \in Keys
           /\ \A k \in Keys : cst[k] = "available" => \A i \in DOMAIN stack : stack[i].key # k
<1> USE DEF IInv, TypeOK
<1>1. /\ Len(stack) \in Nat /\ DOMAIN stack = 1..Len(stack)
      /\ Len(mpqueue) \in Nat /\ DOMAIN mpqueue = 1..Len(mpqueue)
    BY LenProperties
<1>2. /\ \A i \in DOMAIN stack : stack[i] \in Results
      /\ \A i \in DOMAIN mpqueue : mpqueue[i] \in Results
    BY <1>1, ElementOfSeq
<1>3. \A i \in DOMAIN stack : cst[stack[i].key] \in Pending
    BY DEF StackFaithful
<1> QED BY <1>1, <1>2, <1>3 DEF Results, Pending

LEMMA RestOrdered ==
    ASSUME Ordered, UNCHANGED <<cst, cat, stack, pst, pat, mpqueue>>,
           cpc' = "killed" \/ cpc # "killed"
    PROVE  Ordered'
BY DEF Ordered, OnlyFound, AllTold, PoppedFirst, AvailableNext, QueueThen, Told, Found,
       FoundBefore, StackSays, QueueSays, Distinct

LEMMA EmitOrdered ==
    ASSUME IInv, Ordered, NEW k \in Keys, NEW s \in EntrySt, Emit(k, s), UNCHANGED <<cat, pat>>
    PROVE  Ordered'
<1> DEFINE r == [key |-> k, prev |-> cst[k], state |-> s]
<1>1. /\ stack \in Seq(Results) /\ mpqueue \in Seq(Results) /\ r \in Results
      /\ r.key = k /\ r.state = s
      /\ stack' = Append(stack, r) /\ mpqueue' = Append(mpqueue, r)
      /\ cst' = cst /\ pst' = pst /\ cpc # "killed"
    BY DEF Emit, Report, IInv, TypeOK, Results
<1>2. PICK n \in Nat :
         /\ DOMAIN stack = 1..n /\ DOMAIN stack' = 1..n+1 /\ stack'[n+1] = r
         /\ \A i \in 1..n : stack'[i] = stack[i]
    BY <1>1, AppendFacts, LenProperties
<1>3. PICK m \in Nat :
         /\ DOMAIN mpqueue = 1..m /\ DOMAIN mpqueue' = 1..m+1 /\ mpqueue'[m+1] = r
         /\ \A i \in 1..m : mpqueue'[i] = mpqueue[i]
    BY <1>1, AppendFacts, LenProperties
<1>4. cst[k] \in Pending /\ \A i \in DOMAIN stack : stack[i].key # k
    BY DEF IInv, Emit, TodoFresh, Silent
<1> HIDE DEF r
<1>5. ~Found(k)
    BY <1>4 DEF Found, StackSays, Pending
<1>6. \A b \in Keys : Found(b)' <=> Found(b) \/ (b = k /\ s = "available")
    <2> SUFFICES ASSUME NEW b \in Keys
                 PROVE  Found(b)' <=> Found(b) \/ (b = k /\ s = "available")
        OBVIOUS
    <2>1. Found(b) => Found(b)'
        BY <1>1, <1>2 DEF Found, StackSays
    <2>2. Found(b)' => Found(b) \/ (b = k /\ s = "available")
        BY <1>1, <1>2 DEF Found, StackSays
    <2>3. b = k /\ s = "available" => Found(b)'
        <3>1. n + 1 \in DOMAIN stack'
            BY <1>2
        <3> QED BY <1>1, <1>2, <3>1 DEF Found, StackSays
    <2> QED BY <2>1, <2>2, <2>3
<1>7. \A a, b \in Keys : FoundBefore(a, b) => FoundBefore(a, b)'
    BY <1>1, <1>2 DEF FoundBefore, StackSays
<1>8. \A a \in Keys : Found(a) /\ s = "available" => FoundBefore(a, k)'
    <2> SUFFICES ASSUME NEW a \in Keys, Found(a), s = "available"
                 PROVE  FoundBefore(a, k)'
        OBVIOUS
    <2>1. CASE cst[a] = "available"
        BY <1>1, <1>4, <2>1 DEF FoundBefore, Pending
    <2>2. CASE \E i \in DOMAIN stack : StackSays(i, a)
        <3>1. PICK i \in 1..n : StackSays(i, a)
            BY <1>2, <2>2
        <3>2. i < n + 1 /\ i \in DOMAIN stack' /\ n + 1 \in DOMAIN stack'
            BY <1>2
        <3>3. StackSays(i, a)' /\ StackSays(n + 1, k)'
            BY <1>1, <1>2, <3>1 DEF StackSays
        <3> QED BY <3>2, <3>3 DEF FoundBefore
    <2> QED BY <2>1, <2>2 DEF Found
<1>9. /\ \A a \in Keys : Told(a)' = Told(a) /\ (Told(a) => Found(a))
      /\ \A a \in Keys, i \in 1..m : QueueSays(i, a) => Found(a)
      /\ \A a \in Keys, i \in 1..m : QueueSays(i, a)' <=> QueueSays(i, a)
      /\ \A a \in Keys : QueueSays(m + 1, a)' <=> a = k /\ s = "available"
      /\ \A i \in DOMAIN mpqueue' : i \in 1..m \/ i = m + 1
    BY <1>1, <1>3 DEF Ordered, OnlyFound, Told, QueueSays
<1>10. OnlyFound'
    BY <1>6, <1>9 DEF OnlyFound
<1>11. \A b \in Keys : Found(b)' => Told(b) \/ \E i \in DOMAIN mpqueue' : QueueSays(i, b)'
    <2> SUFFICES ASSUME NEW b \in Keys, Found(b)', ~Told(b)
                 PROVE  \E i \in DOMAIN mpqueue' : QueueSays(i, b)'
        OBVIOUS
    <2>1. CASE Found(b)
        <3>1. PICK i \in 1..m : QueueSays(i, b)
            BY <1>1, <1>3, <2>1 DEF Ordered, AllTold
        <3> QED BY <1>3, <3>1 DEF QueueSays
    <2>2. CASE b = k /\ s = "available"
        <3>1. m + 1 \in DOMAIN mpqueue'
            BY <1>3
        <3> QED BY <1>1, <1>3, <2>2, <3>1 DEF QueueSays
    <2> QED BY <1>6, <2>1, <2>2
<1>12. AllTold'
    BY <1>9, <1>11 DEF AllTold
<1>13. PoppedFirst'
    <2> SUFFICES ASSUME NEW a \in Keys, NEW b \in Keys, pst[a] = "popped", pst[b] # "popped", Found(b)'
                 PROVE  FoundBefore(a, b)'
        BY <1>1 DEF PoppedFirst
    <2>1. Found(a)
        BY <1>9 DEF Told
    <2> QED BY <1>6, <1>7, <1>8, <2>1 DEF Ordered, PoppedFirst
<1>14. AvailableNext'
    <2> SUFFICES ASSUME NEW a \in Keys, NEW b \in Keys, a # b, pst[a] = "available", pst[b] # "popped",
                        Found(b)', pst[b] = "available" => pat[a] < pat[b]
                 PROVE  FoundBefore(a, b)'
        BY <1>1 DEF AvailableNext
    <2>1. Found(a)
        BY <1>9 DEF Told
    <2> QED BY <1>6, <1>7, <1>8, <2>1 DEF Ordered, AvailableNext
<1>15. QueueThen'
    <2> SUFFICES ASSUME NEW a \in Keys, NEW b \in Keys, NEW i \in DOMAIN mpqueue', a # b,
                        QueueSays(i, a)', ~Told(b), Found(b)', \A j \in 1..i-1 : ~QueueSays(j, b)'
                 PROVE  FoundBefore(a, b)'
        BY <1>9 DEF QueueThen
    <2>1. CASE i = m + 1
        <3>1. Found(b)
            BY <1>6, <1>9, <2>1
        <3>2. PICK j \in 1..m : QueueSays(j, b)
            BY <1>1, <1>3, <3>1 DEF Ordered, AllTold
        <3>3. j \in 1..i-1 /\ QueueSays(j, b)'
            BY <1>9, <2>1, <3>2
        <3> QED BY <3>3
    <2>2. CASE i \in 1..m
        <3>1. Found(a) /\ QueueSays(i, a)
            BY <1>9, <2>2
        <3>2. CASE Found(b)
            <4>1. \A j \in 1..i-1 : j \in 1..m /\ ~QueueSays(j, b)
                BY <1>9, <2>2
            <4>2. FoundBefore(a, b)
                BY <1>3, <2>2, <3>1, <3>2, <4>1 DEF Ordered, QueueThen
            <4> QED BY <1>7, <4>2
        <3>3. CASE b = k /\ s = "available"
            BY <1>8, <3>1, <3>3
        <3> QED BY <1>6, <3>2, <3>3
    <2> QED BY <1>9, <2>1, <2>2
<1> QED BY <1>10, <1>12, <1>13, <1>14, <1>15 DEF Ordered, Distinct
LEMMA ApplyOrdered ==
    ASSUME IInv, Ordered, Apply, stack # <<>>
    PROVE  Ordered'
<1> DEFINE h == Head(stack)
<1>1. /\ stack \in Seq(Results) /\ cst \in [Keys -> EntrySt] /\ cat \in [Keys -> 1..N]
      /\ stack' = Tail(stack) /\ cst' = StateAfter(cst, h) /\ cat' = RankAfter(cst, cat, h)
      /\ cpc = "apply" /\ UNCHANGED <<mpqueue, pst, pat>>
    BY DEF Apply, IInv, TypeOK
<1>2. PICK n \in Nat :
         /\ DOMAIN stack = 1..n+1 /\ DOMAIN stack' = 1..n /\ h = stack[1] /\ h \in Results
         /\ \A i \in 1..n : stack'[i] = stack[i+1]
    <2>1. /\ Len(stack) \in Nat \ {0} /\ DOMAIN stack = 1..Len(stack) /\ h \in Results /\ h = stack[1]
          /\ DOMAIN stack' = 1..Len(stack)-1
          /\ \A i \in 1..Len(stack)-1 : stack'[i] = stack[i+1]
        BY <1>1, TailFacts, SMTT(30)
    <2> Len(stack) - 1 \in Nat
        BY <2>1
    <2> WITNESS Len(stack) - 1 \in Nat
    <2> QED BY <2>1
<1>3. PICK c \in Keys, x \in EntrySt : h.key = c /\ h.state = x
    BY <1>2 DEF Results
<1>4. /\ cst[c] = h.prev /\ cst[c] \in Pending
      /\ \A i \in 1..n : stack[i+1].key # c
    <2>1. 1 \in DOMAIN stack /\ h = stack[1]
        BY <1>2
    <2>2. \A i \in 1..n : i + 1 \in DOMAIN stack /\ i + 1 # 1
        BY <1>2
    <2> HIDE DEF h
    <2> QED BY <1>3, <2>1, <2>2 DEF IInv, StackFaithful
<1>5. cst' = [cst EXCEPT ![c] = x] /\ cat' = MoveToEnd(cat, c)
    BY <1>1, <1>3, <1>4 DEF StateAfter, RankAfter
<1> HIDE DEF h
<1>6. /\ Distinct(cat') /\ cat'[c] = N /\ \A j \in Keys \ {c} : cat'[j] < N
      /\ \A i, j \in Keys \ {c} : cat'[i] < cat'[j] <=> cat[i] < cat[j]
    BY <1>1, <1>5, MoveRanks DEF Ordered
<1>7. /\ \A b \in Keys \ {c} : cst'[b] = cst[b]
      /\ cst'[c] = x /\ cst[c] # "available"
    BY <1>1, <1>4, <1>5 DEF Pending
<1>8. /\ \A k \in Keys, i \in 1..n : StackSays(i, k)' <=> StackSays(i + 1, k)
      /\ \A k \in Keys : StackSays(1, k) <=> k = c /\ x = "available"
      /\ \A i \in 1..n : ~StackSays(i + 1, c)
      /\ \A i \in 1..n+1 : i = 1 \/ \E j \in 1..n : i = j + 1
      /\ \A i \in 1..n : i + 1 \in 1..n+1
      /\ 1 \in 1..n+1
    <2>1. \A i \in 1..n+1 : i = 1 \/ (i - 1 \in 1..n /\ i = (i - 1) + 1)
        BY <1>2
    <2>2. (\A i \in 1..n : i + 1 \in 1..n+1) /\ 1 \in 1..n+1
        BY <1>2
    <2>3. \A k \in Keys, i \in 1..n : StackSays(i, k)' <=> StackSays(i + 1, k)
        BY <1>2 DEF StackSays
    <2> QED BY <1>2, <1>3, <1>4, <2>1, <2>2, <2>3 DEF StackSays
<1>9. \A k \in Keys : Found(k)' <=> Found(k)
    <2> SUFFICES ASSUME NEW k \in Keys
                 PROVE  Found(k)' <=> Found(k)
        OBVIOUS
    <2>1. Found(k) <=> cst[k] = "available" \/ \E i \in 1..n+1 : StackSays(i, k)
        BY <1>2 DEF Found
    <2>2. Found(k)' <=> cst'[k] = "available" \/ \E i \in 1..n : StackSays(i, k)'
        BY <1>2 DEF Found
    <2>3. (\E i \in 1..n+1 : StackSays(i, k))
              <=> (k = c /\ x = "available") \/ \E i \in 1..n : StackSays(i + 1, k)
        BY <1>8
    <2> QED BY <1>7, <1>8, <2>1, <2>2, <2>3
<1>10. ASSUME NEW a \in Keys, NEW b \in Keys, FoundBefore(a, b), a # b
       PROVE  FoundBefore(a, b)'
    <2>1. CASE cst[a] = "available" /\ (cst[b] = "available" => cat[a] < cat[b])
        <3>1. a # c /\ cst'[a] = "available"
            BY <1>7, <2>1
        <3>2. cst'[b] = "available" => cat'[a] < cat'[b]
            BY <1>6, <1>7, <2>1, <3>1
        <3> QED BY <3>1, <3>2 DEF FoundBefore
    <2>2. CASE \E i, j \in DOMAIN stack : i < j /\ StackSays(i, a) /\ StackSays(j, b)
        <3>1. PICK i \in 1..n+1, j \in 1..n+1 : i < j /\ StackSays(i, a) /\ StackSays(j, b)
            BY <1>2, <2>2
        <3>2. j # 1
            BY <1>2, <3>1
        <3>3. PICK jj \in 1..n : j = jj + 1 /\ StackSays(jj, b)'
            BY <1>8, <3>1, <3>2
        <3>4. b # c
            BY <1>8, <3>1, <3>3
        <3>5. CASE i = 1
            <4>1. a = c /\ x = "available"
                BY <1>8, <3>1, <3>5
            <4>2. cst[b] \in Pending
                BY <1>2, <3>1, OrderFacts DEF StackSays
            <4> QED BY <1>7, <3>4, <4>1, <4>2 DEF FoundBefore, Pending
        <3>6. CASE i # 1
            <4>1. PICK ii \in 1..n : i = ii + 1 /\ StackSays(ii, a)'
                BY <1>8, <3>1, <3>6
            <4>2. ii < jj
                BY <3>1, <3>3, <4>1
            <4> QED BY <1>2, <3>3, <4>1, <4>2 DEF FoundBefore
        <3> QED BY <3>5, <3>6
    <2> QED BY <1>10, <2>1, <2>2 DEF FoundBefore
<1>11. /\ \A k \in Keys : Told(k)' = Told(k)
       /\ \A k \in Keys, i \in DOMAIN mpqueue : QueueSays(i, k)' <=> QueueSays(i, k)
    BY <1>1 DEF Told, QueueSays
<1>12. OnlyFound' /\ AllTold'
    BY <1>1, <1>9, <1>11 DEF Ordered, OnlyFound, AllTold
<1>13. PoppedFirst' /\ AvailableNext'
    BY <1>1, <1>9, <1>10 DEF Ordered, PoppedFirst, AvailableNext
<1>14. QueueThen'
    <2> SUFFICES ASSUME NEW a \in Keys, NEW b \in Keys, NEW i \in DOMAIN mpqueue, a # b,
                        QueueSays(i, a), ~Told(b), Found(b), \A j \in 1..i-1 : ~QueueSays(j, b)'
                 PROVE  FoundBefore(a, b)'
        BY <1>1, <1>9, <1>11 DEF QueueThen
    <2>1. \A j \in 1..i-1 : ~QueueSays(j, b)
        BY <1>1 DEF QueueSays
    <2> QED BY <1>10, <2>1 DEF Ordered, QueueThen
<1> QED BY <1>1, <1>6, <1>12, <1>13, <1>14 DEF Ordered, Distinct

LEMMA ReceiveOrdered ==
    ASSUME IInv, Ordered, Receive
    PROVE  Ordered'
<1> DEFINE h == Head(mpqueue)
<1>1. /\ mpqueue \in Seq(Results) /\ mpqueue # <<>> /\ pat \in [Keys -> 1..N]
      /\ pst \in [Keys -> EntrySt \cup {"popped"}]
      /\ mpqueue' = Tail(mpqueue) /\ pst' = StateAfter(pst, h) /\ pat' = RankAfter(pst, pat, h)
      /\ UNCHANGED <<cst, cat, cpc, stack>>
    BY DEF Receive, IInv, TypeOK
<1>2. PICK n \in Nat :
         /\ DOMAIN mpqueue = 1..n+1 /\ DOMAIN mpqueue' = 1..n /\ h = mpqueue[1] /\ h \in Results
         /\ \A i \in 1..n : mpqueue'[i] = mpqueue[i+1]
    <2>1. /\ Len(mpqueue) \in Nat \ {0} /\ DOMAIN mpqueue = 1..Len(mpqueue) /\ h \in Results
          /\ h = mpqueue[1] /\ DOMAIN mpqueue' = 1..Len(mpqueue)-1
          /\ \A i \in 1..Len(mpqueue)-1 : mpqueue'[i] = mpqueue[i+1]
        BY <1>1, TailFacts, SMTT(30)
    <2> Len(mpqueue) - 1 \in Nat
        BY <2>1
    <2> WITNESS Len(mpqueue) - 1 \in Nat
    <2> QED BY <2>1
<1>3. PICK c \in Keys, x \in EntrySt : h.key = c /\ h.state = x
    BY <1>2 DEF Results
<1>4. pst[c] = h.prev /\ pst[c] \in Pending
    <2>1. h.prev \in Pending
        BY <1>2 DEF IInv, QueueIsFetched
    <2>2. Known(c) = h.prev
        BY <1>2, <1>3 DEF IInv, NoResultDropped, IsFirst
    <2> QED BY <2>1, <2>2 DEF Known, Pending
<1>5. pst' = [pst EXCEPT ![c] = x] /\ pat' = MoveToEnd(pat, c)
    BY <1>1, <1>3, <1>4 DEF StateAfter, RankAfter
<1> HIDE DEF h
<1>6. /\ Distinct(pat') /\ pat'[c] = N /\ \A j \in Keys \ {c} : pat'[j] < N
      /\ \A i, j \in Keys \ {c} : pat'[i] < pat'[j] <=> pat[i] < pat[j]
    BY <1>1, <1>5, MoveRanks DEF Ordered
<1>7. /\ \A b \in Keys \ {c} : pst'[b] = pst[b]
      /\ pst'[c] = x /\ x # "popped" /\ pst[c] \notin {"available", "popped"}
    BY <1>1, <1>4, <1>5 DEF Pending, EntrySt
<1>8. /\ \A k \in Keys, i \in 1..n : QueueSays(i, k)' <=> QueueSays(i + 1, k)
      /\ \A k \in Keys : QueueSays(1, k) <=> k = c /\ x = "available"
      /\ \A i \in 1..n+1 : i = 1 \/ \E j \in 1..n : i = j + 1
      /\ \A i \in 1..n : i + 1 \in 1..n+1
      /\ 1 \in 1..n+1
    <2>1. \A i \in 1..n+1 : i = 1 \/ (i - 1 \in 1..n /\ i = (i - 1) + 1)
        BY <1>2
    <2>2. (\A i \in 1..n : i + 1 \in 1..n+1) /\ 1 \in 1..n+1
        BY <1>2
    <2>3. \A k \in Keys, i \in 1..n : QueueSays(i, k)' <=> QueueSays(i + 1, k)
        BY <1>2 DEF QueueSays
    <2> QED BY <1>2, <1>3, <2>1, <2>2, <2>3 DEF QueueSays
<1>9. \A k \in Keys : /\ Found(k)' = Found(k)
                      /\ Told(k)' <=> Told(k) \/ (k = c /\ x = "available")
    BY <1>1, <1>7 DEF Found, StackSays, Told
<1>10. \A a, b \in Keys : FoundBefore(a, b)' = FoundBefore(a, b)
    BY <1>1 DEF FoundBefore, StackSays
<1>11. OnlyFound'
    <2>1. \A k \in Keys, i \in 1..n+1 : QueueSays(i, k) => Found(k)
        BY <1>2 DEF Ordered, OnlyFound
    <2>2. \A k \in Keys : Told(k)' => Found(k)
        BY <1>8, <1>9, <2>1 DEF Ordered, OnlyFound
    <2> QED BY <1>2, <1>8, <1>9, <2>1, <2>2 DEF OnlyFound
<1>12. AllTold'
    <2> SUFFICES ASSUME cpc # "killed", NEW k \in Keys, Found(k), ~Told(k)'
                 PROVE  \E i \in 1..n : QueueSays(i, k)'
        BY <1>1, <1>2, <1>9 DEF AllTold
    <2>1. PICK i \in 1..n+1 : QueueSays(i, k)
        BY <1>2, <1>9 DEF Ordered, AllTold
    <2>2. i # 1
        BY <1>8, <1>9, <2>1
    <2> QED BY <1>8, <2>1, <2>2
<1>13. PoppedFirst'
    BY <1>7, <1>9, <1>10 DEF Ordered, PoppedFirst
<1>14. AvailableNext'
    <2> SUFFICES ASSUME NEW a \in Keys, NEW b \in Keys, a # b, pst'[a] = "available",
                        pst'[b] # "popped", Found(b), pst'[b] = "available" => pat'[a] < pat'[b]
                 PROVE  FoundBefore(a, b)
        BY <1>9, <1>10 DEF AvailableNext
    <2>1. CASE a = c
        <3>1. pst'[b] # "available"
            <4>1. pat'[b] < N /\ pat'[a] = N
                BY <1>6, <2>1
            <4>2. pat' \in [Keys -> 1..N]
                BY <1>1, <1>2, KeyUpdateType
            <4>3. pat'[b] \in 1..N
                BY <4>2
            <4> QED BY <4>1, <4>3, NAssumption
        <3>2. b # c /\ x = "available" /\ ~Told(b)
            BY <1>7, <2>1, <3>1 DEF Told
        <3>3. QueueSays(1, a) /\ 1 \in DOMAIN mpqueue /\ \A j \in 1..1-1 : ~QueueSays(j, b)
            BY <1>2, <1>8, <2>1, <3>2
        <3> QED BY <3>2, <3>3 DEF Ordered, QueueThen
    <2>2. CASE a # c
        <3>1. pst[a] = "available" /\ pst[b] # "popped"
            BY <1>7, <2>2
        <3>2. pst[b] = "available" => pat[a] < pat[b]
            BY <1>6, <1>7, <2>2
        <3> QED BY <3>1, <3>2 DEF Ordered, AvailableNext
    <2> QED BY <2>1, <2>2
<1>15. QueueThen'
    <2> SUFFICES ASSUME NEW a \in Keys, NEW b \in Keys, NEW i \in 1..n, a # b, QueueSays(i, a)',
                        ~Told(b)', Found(b), \A j \in 1..i-1 : ~QueueSays(j, b)'
                 PROVE  FoundBefore(a, b)
        BY <1>2, <1>9, <1>10 DEF QueueThen
    <2>1. QueueSays(i + 1, a) /\ i + 1 \in DOMAIN mpqueue /\ ~Told(b) /\ ~QueueSays(1, b)
        BY <1>2, <1>8, <1>9
    <2>2. \A j \in 1..(i+1)-1 : ~QueueSays(j, b)
        <3> SUFFICES ASSUME NEW j \in 1..(i+1)-1, j # 1
                     PROVE  ~QueueSays(j, b)
            BY <2>1
        <3>1. j - 1 \in 1..i-1 /\ j - 1 \in 1..n /\ (j - 1) + 1 = j
            BY <1>2
        <3>2. ~QueueSays(j - 1, b)'
            BY <3>1
        <3> QED BY <1>8, <3>1, <3>2
    <2> QED BY <2>1, <2>2 DEF Ordered, QueueThen
<1> QED BY <1>1, <1>6, <1>11, <1>12, <1>13, <1>14, <1>15 DEF Ordered, Distinct

LEMMA PopOrdered ==
    ASSUME IInv, Ordered, PopAvailable
    PROVE  Ordered'
<1>1. PICK k \in Keys : /\ pst[k] = "available" /\ pst' = [pst EXCEPT ![k] = "popped"]
                        /\ \A j \in Keys : pst[j] = "available" => pat[k] <= pat[j]
    BY DEF PopAvailable, Members
<1>2. UNCHANGED <<cst, cat, cpc, stack, mpqueue, pat>>
    BY DEF PopAvailable
<1>3. pst \in [Keys -> EntrySt \cup {"popped"}] /\ pat \in [Keys -> 1..N]
    BY DEF IInv, TypeOK
<1>4. pst'[k] = "popped" /\ \A j \in Keys \ {k} : pst'[j] = pst[j]
    BY <1>1, <1>3
<1>5. /\ \A j \in Keys : Found(j)' = Found(j) /\ (Told(j)' <=> Told(j))
      /\ \A j \in Keys, i \in DOMAIN mpqueue : QueueSays(i, j)' = QueueSays(i, j)
    BY <1>1, <1>2, <1>4 DEF Found, StackSays, Told, QueueSays
<1>6. \A a, b \in Keys : FoundBefore(a, b)' = FoundBefore(a, b)
    BY <1>2 DEF FoundBefore, StackSays
<1>7. OnlyFound' /\ AllTold'
    BY <1>2, <1>5 DEF Ordered, OnlyFound, AllTold
<1>8. PoppedFirst'
    <2> SUFFICES ASSUME NEW b \in Keys, pst'[b] # "popped", Found(b)
                 PROVE  FoundBefore(k, b)
        BY <1>4, <1>5, <1>6 DEF Ordered, PoppedFirst
    <2>1. b # k /\ pst[b] # "popped"
        BY <1>4
    <2>2. pst[b] = "available" => pat[k] < pat[b]
        <3>1. pat[k] # pat[b] /\ pat[k] \in 1..N /\ pat[b] \in 1..N
            BY <1>3, <2>1 DEF Ordered, Distinct
        <3> QED BY <1>1, <3>1, NAssumption
    <2> QED BY <1>1, <2>1, <2>2 DEF Ordered, AvailableNext
<1>9. AvailableNext'
    BY <1>2, <1>4, <1>5, <1>6 DEF Ordered, AvailableNext
<1>10. QueueThen'
    <2> SUFFICES ASSUME NEW a \in Keys, NEW b \in Keys, NEW i \in DOMAIN mpqueue, a # b,
                        QueueSays(i, a), ~Told(b), Found(b), \A j \in 1..i-1 : ~QueueSays(j, b)'
                 PROVE  FoundBefore(a, b)
        BY <1>2, <1>5, <1>6 DEF QueueThen
    <2>1. \A j \in 1..i-1 : ~QueueSays(j, b)
        BY <1>2 DEF QueueSays
    <2> QED BY <2>1 DEF Ordered, QueueThen
<1> QED BY <1>2, <1>7, <1>8, <1>9, <1>10 DEF Ordered, Distinct

LEMMA TerminateOrdered ==
    ASSUME IInv, Ordered, Terminate
    PROVE  Ordered'
<1>1. /\ cpc' = "killed" /\ mpqueue \in Seq(Results)
      /\ UNCHANGED <<cst, cat, stack, pst, pat>>
    BY DEF Terminate, IInv, TypeOK
<1>2. PICK n \in 0..Len(mpqueue) : mpqueue' = SubSeq(mpqueue, 1, n)
    BY DEF Terminate
<1>3. /\ DOMAIN mpqueue' = 1..n /\ n \in Nat
      /\ \A i \in 1..n : i \in DOMAIN mpqueue /\ mpqueue'[i] = mpqueue[i]
    <2>1. Len(mpqueue) \in Nat /\ DOMAIN mpqueue = 1..Len(mpqueue)
        BY <1>1, LenProperties
    <2> QED BY <1>1, <1>2, <2>1, SubSeqProperties
<1>4. /\ \A j \in Keys : Found(j)' = Found(j) /\ Told(j)' = Told(j)
      /\ \A j \in Keys, i \in 1..n : QueueSays(i, j)' = QueueSays(i, j)
      /\ \A a, b \in Keys : FoundBefore(a, b)' = FoundBefore(a, b)
    BY <1>1, <1>3 DEF Found, FoundBefore, StackSays, Told, QueueSays
<1>5. OnlyFound' /\ AllTold'
    BY <1>1, <1>3, <1>4 DEF Ordered, OnlyFound, AllTold
<1>6. PoppedFirst' /\ AvailableNext'
    BY <1>1, <1>4 DEF Ordered, PoppedFirst, AvailableNext
<1>7. QueueThen'
    <2> SUFFICES ASSUME NEW a \in Keys, NEW b \in Keys, NEW i \in 1..n, a # b,
                        QueueSays(i, a), ~Told(b), Found(b), \A j \in 1..i-1 : ~QueueSays(j, b)'
                 PROVE  FoundBefore(a, b)
        BY <1>3, <1>4 DEF QueueThen
    <2>1. \A j \in 1..i-1 : j \in 1..n
        BY <1>3
    <2>2. \A j \in 1..i-1 : ~QueueSays(j, b)
        BY <1>4, <2>1
    <2> QED BY <1>3, <2>2 DEF Ordered, QueueThen
<1> QED BY <1>1, <1>5, <1>6, <1>7 DEF Ordered, Distinct

LEMMA OrderedInit == Init => Ordered
<1> SUFFICES ASSUME Init
             PROVE  Ordered
    OBVIOUS
<1>1. /\ DOMAIN stack = {} /\ DOMAIN mpqueue = {} /\ pst = cst /\ pat = cat
      /\ cat = [k \in Keys |-> k]
    BY DEF Init
<1>2. \A k \in Keys : cst[k] \in EntrySt
    BY TypeInit DEF TypeOK
<1>3. \A k \in Keys : Found(k) <=> cst[k] = "available"
    BY <1>1 DEF Found
<1>4. Distinct(cat) /\ Distinct(pat)
    BY <1>1 DEF Distinct
<1>5. OnlyFound /\ AllTold
    BY <1>1, <1>2, <1>3 DEF OnlyFound, AllTold, Told, EntrySt
<1>6. PoppedFirst /\ AvailableNext /\ QueueThen
    BY <1>1, <1>2, <1>3 DEF PoppedFirst, AvailableNext, QueueThen, FoundBefore, EntrySt
<1> QED BY <1>4, <1>5, <1>6 DEF Ordered

LEMMA OrderedStep ==
    ASSUME IInv, Ordered, [Next]_vars
    PROVE  Ordered'
<1>1. CASE Producers
    BY <1>1, RestOrdered DEF Producers, Keep, Renege, Repromise, IInv
<1>2. CASE LoopExit \/ StartRound \/ UfoNext \/ UfoDone \/ ExpEnd \/ JobFails
    BY <1>2, RestOrdered
       DEF LoopExit, StartRound, UfoNext, UfoDone, ExpEnd, ExpDone, JobFails, IInv, Phases
<1>3. ASSUME NEW k \in Keys, ExpHarassment(k) \/ ExpLook(k)
      PROVE  Ordered'
    BY <1>3, RestOrdered DEF ExpHarassment, ExpDone, ExpLook
<1>4. ASSUME NEW k \in Keys, ExpCheck(k)
      PROVE  Ordered'
    <2>1. CASE Report(k, "failed")
        BY <1>4, <2>1, EmitOrdered DEF ExpCheck, Emit, Current, EntrySt
    <2>2. CASE cpc' = "get1" /\ UNCHANGED <<todo, stack, mpqueue>>
        BY <1>4, <2>2, RestOrdered DEF ExpCheck
    <2> QED BY <1>4, <2>1, <2>2 DEF ExpCheck
<1>5. ASSUME NEW k \in Keys, GetPromise(k)
      PROVE  Ordered'
    <2>1. CASE /\ local' = [local EXCEPT ![k] = "promise"]
               /\ Report(k, FindState("expected", "failed"))
        BY <1>5, <2>1, EmitOrdered, FindStateValues DEF GetPromise, Emit, Current, EntrySt
    <2>2. CASE cpc' = "get2" /\ UNCHANGED <<local, todo, stack, mpqueue>>
        BY <1>5, <2>2, RestOrdered DEF GetPromise
    <2> QED BY <1>5, <2>1, <2>2 DEF GetPromise
<1>6. ASSUME NEW k \in Keys, GetOther(k)
      PROVE  Ordered'
    <2>1. CASE /\ local' = [local EXCEPT ![k] = "data"]
               /\ Report(k, FindState("get", "failed"))
        BY <1>6, <2>1, EmitOrdered, FindStateValues DEF GetOther, Emit, Current, EntrySt
    <2>2. CASE local' = local /\ Report(k, FindState("void", "failed"))
        BY <1>6, <2>2, EmitOrdered, FindStateValues DEF GetOther, Emit, Current, EntrySt
    <2>3. CASE cpc' = "raising" /\ UNCHANGED <<local, todo, stack, mpqueue>>
        BY <1>6, <2>3, RestOrdered DEF GetOther
    <2> QED BY <1>6, <2>1, <2>2, <2>3 DEF GetOther
<1>7. CASE Apply
    <2>1. CASE stack = <<>>
        BY <1>7, <2>1, RestOrdered DEF Apply
    <2> QED BY <1>7, <2>1, ApplyOrdered
<1>8. CASE Ask \/ AskRaises \/ Return \/ Stop \/ Joined
    BY <1>8, RestOrdered DEF Ask, AskRaises, Return, Stop, Joined
<1>9. CASE UNCHANGED vars
    BY <1>9, RestOrdered DEF vars
<1>10. ASSUME NEW k \in Keys, GetNothing(k)
       PROVE  Ordered'
    BY <1>10, EmitOrdered, StageLeftValues DEF GetNothing, Emit, Current, EntrySt
<1> QED
    BY <1>1, <1>2, <1>3, <1>4, <1>5, <1>6, <1>7, <1>8, <1>9, <1>10, ReceiveOrdered, PopOrdered,
       TerminateOrdered
       DEF Next, Child, Parent, Finished

LEMMA AlwaysOrdered == Spec => []Ordered
<1>1. IInv /\ Ordered /\ [Next]_vars => Ordered'
    BY OrderedStep
<1> QED BY <1>1, OrderedInit, Invariant, PTL DEF Spec

\* Entries are handed out in the order in which the updater found them, although its
\* table is only brought up to date at the end of a crawl, and although a kill may have
\* lost the end of the queue.
THEOREM FirstFoundFirstOut == Spec => []HandedOutInOrder
<1>1. ASSUME IInv, Ordered
      PROVE  HandedOutInOrder
    <2> SUFFICES ASSUME NEW a \in Keys, NEW b \in Keys, pst[a] = "popped", pst[b] # "popped",
                        cst[a] = "available", cst[b] = "available"
                 PROVE  cat[a] < cat[b]
        BY DEF HandedOutInOrder
    <2>1. FoundBefore(a, b)
        BY <1>1 DEF Ordered, PoppedFirst, Found
    <2> QED BY <1>1, <2>1, OrderFacts DEF FoundBefore, StackSays
<1> QED BY <1>1, Invariant, AlwaysOrdered, PTL

(***************************************************************************)
(* The gangs, that the monitor's news go to.                               *)
(***************************************************************************)
LEMMA GangAssumptions ==
    /\ IsFiniteSet(Entries) /\ AllowMissing \in Nat
    /\ GangOf \in [Entries -> Gangs] /\ InitEntry \subseteq EntrySt
    BY EntriesAssumption, AllowMissingAssumption, GangOfAssumption, InitEntryAssumption

\* What a state of a gang says of its members: a are available, u may still be, out of
\* size, and min are wanted; waitlimit is over when seen = "late"
Fits(x, a, u, seen, size, min) ==
    /\ x = "collectable" => a = size
    /\ x = "collectable_partial" =>
          a # size /\ a >= min /\ (u = 0 \/ (HasWaitlimit /\ seen = "late"))
    /\ x = "undecided" => a # size /\ a + u >= min /\ (a >= min => u # 0)
    /\ x = "failed" => a + u < min

LEMMA DisjointUnion ==
    ASSUME NEW S, NEW T, IsFiniteSet(S), IsFiniteSet(T), S \cap T = {}
    PROVE  /\ Cardinality(S \cup T) = Cardinality(S) + Cardinality(T)
           /\ Cardinality(S) \in Nat /\ Cardinality(T) \in Nat
<1>1. Cardinality(S) \in Nat /\ Cardinality(T) \in Nat
    BY FS_CardinalityType
<1>2. Cardinality(S \cap T) = 0
    BY FS_EmptySet
<1>3. Cardinality(S \cup T) = Cardinality(S) + Cardinality(T) - Cardinality(S \cap T)
    BY FS_Union
<1> QED BY <1>1, <1>2, <1>3

LEMMA GangCounts ==
    ASSUME NEW es \in [Entries -> EntrySt], NEW g \in Gangs
    PROVE  /\ NbAvailable(es, g) \in Nat /\ NbUfo(es, g) \in Nat /\ Size(g) \in Nat
           /\ NbAvailable(es, g) + NbUfo(es, g) <= Size(g)
           /\ NbAvailable(es, g) = Size(g) => \A e \in MembersOf(g) : es[e] = "available"
<1> DEFINE A == {e \in MembersOf(g) : es[e] = "available"}
           U == {e \in MembersOf(g) : es[e] \in {"ufo", "expected"}}
<1>1. IsFiniteSet(MembersOf(g))
    BY FS_Subset, GangAssumptions DEF MembersOf
<1>2. A \in SUBSET MembersOf(g) /\ U \in SUBSET MembersOf(g) /\ A \cap U = {}
    OBVIOUS
<1>3. /\ IsFiniteSet(A) /\ IsFiniteSet(U) /\ IsFiniteSet(A \cup U)
      /\ Cardinality(A \cup U) <= Cardinality(MembersOf(g))
      /\ Cardinality(MembersOf(g)) = Cardinality(A) => MembersOf(g) = A
    BY <1>1, <1>2, FS_Subset
<1>4. Cardinality(A \cup U) = Cardinality(A) + Cardinality(U)
    BY <1>2, <1>3, DisjointUnion
<1>5. /\ Cardinality(A) \in Nat /\ Cardinality(U) \in Nat /\ Cardinality(MembersOf(g)) \in Nat
    BY <1>1, <1>3, FS_CardinalityType
<1>6. NbAvailable(es, g) = Cardinality(A) /\ NbUfo(es, g) = Cardinality(U)
      /\ Size(g) = Cardinality(MembersOf(g))
    BY DEF NbAvailable, NbUfo, Size
<1>7. MembersOf(g) = A => \A e \in MembersOf(g) : es[e] = "available"
    OBVIOUS
<1> QED BY <1>3, <1>4, <1>5, <1>6, <1>7

LEMMA MinsizeFacts ==
    ASSUME NEW g \in Gangs
    PROVE  EffMinsize(g) \in Nat /\ EffMinsize(g) <= Size(g)
<1>1. Size(g) \in Nat
    <2>1. IsFiniteSet(MembersOf(g))
        BY FS_Subset, GangAssumptions DEF MembersOf
    <2> QED BY <2>1, FS_CardinalityType DEF Size
<1> QED BY <1>1, GangAssumptions DEF EffMinsize, minsize

\* Both instances of EntryNews speak of the same states and news
LEMMA SameNews ==
    /\ Teller!EntrySt = EntrySt /\ \A x : Teller!Later(x) = Later(x)
    /\ \A x : Hearer!Later(x) = Later(x)
    BY DEF EntrySt, Later, Teller!EntrySt, Teller!Later, Hearer!Later

\* What BasicGang.updobsitem is called for
LEMMA NewsFacts ==
    ASSUME NEW e, NEW s, News(e, s)
    PROVE  s \in Later(est[e]) /\ est' = [est EXCEPT ![e] = s]
    BY SameNews DEF News, Hearer!Tell

\* News only come in one direction: an entry that is settled stays so
LEMMA LaterFacts ==
    ASSUME NEW x, NEW s \in Later(x)
    PROVE  /\ x \in {"ufo", "expected"} /\ s \in {"expected", "available", "failed"}
           /\ s \in EntrySt
BY DEF Later, EntrySt

LEMMA NewsCounts ==
    ASSUME NEW es \in [Entries -> EntrySt], NEW e \in Entries,
           NEW s \in Later(es[e]), NEW g \in Gangs
    PROVE  LET new == [es EXCEPT ![e] = s]
           IN  /\ NbAvailable(es, g) <= NbAvailable(new, g) /\ NbUfo(new, g) <= NbUfo(es, g)
               /\ NbAvailable(new, g) + NbUfo(new, g) <= NbAvailable(es, g) + NbUfo(es, g)
               /\ g # GangOf[e] => /\ NbAvailable(new, g) = NbAvailable(es, g)
                                   /\ NbUfo(new, g) = NbUfo(es, g)
               /\ g = GangOf[e] => NbAvailable(es, g) # Size(g)
<1> DEFINE new == [es EXCEPT ![e] = s]
           A(f) == {i \in MembersOf(g) : f[i] = "available"}
           U(f) == {i \in MembersOf(g) : f[i] \in {"ufo", "expected"}}
<1>1. es[e] \in {"ufo", "expected"} /\ s \in {"expected", "available", "failed"} /\ s \in EntrySt
    BY LaterFacts
<1>2. new \in [Entries -> EntrySt] /\ \A i \in Entries : new[i] = IF i = e THEN s ELSE es[i]
    BY <1>1
<1>3. MembersOf(g) \subseteq Entries /\ IsFiniteSet(MembersOf(g))
    BY FS_Subset, GangAssumptions DEF MembersOf
<1> HIDE DEF new
<1>4. A(es) \subseteq A(new) /\ U(new) \subseteq U(es) /\ A(new) \cup U(new) \subseteq A(es) \cup U(es)
      /\ (g # GangOf[e] => A(new) = A(es) /\ U(new) = U(es))
    BY <1>1, <1>2, <1>3 DEF MembersOf
<1>5. /\ A(new) \in SUBSET MembersOf(g) /\ U(es) \in SUBSET MembersOf(g)
      /\ A(es) \cup U(es) \in SUBSET MembersOf(g)
    OBVIOUS
<1>6. IsFiniteSet(A(new)) /\ IsFiniteSet(U(es)) /\ IsFiniteSet(A(es) \cup U(es))
    BY <1>3, <1>5, FS_Subset
<1>7. /\ Cardinality(A(es)) <= Cardinality(A(new)) /\ Cardinality(U(new)) <= Cardinality(U(es))
      /\ Cardinality(A(new) \cup U(new)) <= Cardinality(A(es) \cup U(es))
    BY <1>4, <1>6, FS_Subset
<1>8. \A f \in {es, new} : Cardinality(A(f) \cup U(f)) = Cardinality(A(f)) + Cardinality(U(f))
    <2> SUFFICES ASSUME NEW f \in {es, new}
                 PROVE  Cardinality(A(f) \cup U(f)) = Cardinality(A(f)) + Cardinality(U(f))
        OBVIOUS
    <2>1. A(f) \in SUBSET MembersOf(g) /\ U(f) \in SUBSET MembersOf(g) /\ A(f) \cap U(f) = {}
        OBVIOUS
    <2>2. IsFiniteSet(A(f)) /\ IsFiniteSet(U(f))
        BY <1>3, <2>1, FS_Subset
    <2> QED BY <2>1, <2>2, DisjointUnion
<1>9. \A f \in {es, new} : NbAvailable(f, g) = Cardinality(A(f)) /\ NbUfo(f, g) = Cardinality(U(f))
    BY DEF NbAvailable, NbUfo
<1>10. g = GangOf[e] => NbAvailable(es, g) # Size(g)
    BY <1>1, GangCounts DEF MembersOf
<1> HIDE DEF A, U
<1> QED BY <1>4, <1>7, <1>8, <1>9, <1>10 DEF new

\* _refresh_state gives a state that fits
LEMMA GangStateFits ==
    ASSUME NEW es \in [Entries -> EntrySt], NEW g \in Gangs
    PROVE  /\ GangState(es, g) \in GangSt
           /\ Fits(GangState(es, g), NbAvailable(es, g), NbUfo(es, g), first[g], Size(g), EffMinsize(g))
<1>1. /\ NbAvailable(es, g) \in Nat /\ NbUfo(es, g) \in Nat /\ Size(g) \in Nat
      /\ EffMinsize(g) \in Nat
    BY GangCounts, MinsizeFacts
<1> QED BY <1>1 DEF GangState, IsCollectable, IsPcollectable, IsUndecided, Fits, GangSt

\* What the state of each gang that is built says of its members
Judged ==
    \A g \in Gangs \ tofill :
        Fits(gst[g], NbAvailable(est, g), NbUfo(est, g), first[g], Size(g), EffMinsize(g))

GangTypes ==
    /\ est \in [Entries -> EntrySt]
    /\ gst \in [Gangs -> GangSt] /\ prev \in [Gangs -> GangSt]
    /\ first \in [Gangs -> {"none", "seen", "late"}]
    /\ tpc \in [Gangs -> TimerPC]
    /\ observed \subseteq Gangs /\ tofill \subseteq Gangs
    /\ mset \in [Gangs -> GangSt \cup {Nowhere}]
    /\ pc # "fill" => cur \in Gangs

\* The lock of a gang is held by one thread
GangLocks == \A g \in Gangs : ~(MainHolds(g) /\ TimerHolds(g))

\* A gang is not observed, and has no timer, before it is built
NotBuilt ==
    /\ \A g \in tofill : gst[g] = "undecided" /\ g \notin observed /\ tpc[g] = "none"
    /\ pc = "addmeta" => cur \notin tofill
    /\ pc \in {"fill", "addmeta", "adding"} \/ tofill = {}

\* Only observed gangs are in a set of the MetaGang
OnlyObserved ==
    /\ \A g \in Gangs : mset[g] # Nowhere => g \in observed
    /\ pc \in {"adding", "move"} => cur \in observed
    /\ pc = "unregister" => mset[cur] = Nowhere

\* While a timer moves a gang, nobody adds or removes it
AloneInMove ==
    \A g \in Gangs : tpc[g] = "move" =>
        /\ g \in observed /\ mset[g] = Nowhere
        /\ ~(pc \in {"adding", "unregister"} /\ cur = g)
        /\ pc # "adding"

\* What a timer changes is undecided, and becomes incomplete
TimerDecides == \A g \in Gangs : tpc[g] = "notify" => prev[g] = "undecided"

\* An observed gang is in the set of its state, or somebody is about to put it there
Tracked ==
    \A g \in observed :
        \/ mset[g] = gst[g]
        \/ pc \in {"adding", "unregister", "notify", "move"} /\ cur = g
        \/ tpc[g] = "notify" /\ mset[g] = prev[g]
        \/ tpc[g] = "move"

GangInv ==
    /\ GangTypes /\ Judged /\ GangLocks /\ NotBuilt
    /\ OnlyObserved /\ AloneInMove /\ TimerDecides /\ Tracked

LEMMA GangStart == ASSUME GangInit PROVE GangInv
<1>1. /\ tofill = Gangs /\ observed = {} /\ pc = "fill"
      /\ \A g \in Gangs : gst[g] = "undecided" /\ tpc[g] = "none" /\ mset[g] = Nowhere
    BY DEF GangInit
<1>2. GangTypes
    BY GangAssumptions DEF GangInit, GangTypes, GangSt, TimerPC
<1>3. Judged /\ GangLocks /\ NotBuilt
    BY <1>1 DEF Judged, GangLocks, MainHolds, TimerHolds, NotBuilt
<1>4. OnlyObserved /\ AloneInMove /\ TimerDecides /\ Tracked
    BY <1>1 DEF OnlyObserved, AloneInMove, TimerDecides, Tracked
<1> QED BY <1>2, <1>3, <1>4 DEF GangInv

\* The main thread between two operations on gangs
LEMMA QuietMain ==
    ASSUME GangInv, UNCHANGED <<est, gst, first, tpc, prev, observed, mset, tofill, cur>>,
           pc \notin {"fill", "adding", "addmeta", "unregister", "notify", "move", "post"},
           pc' \notin {"fill", "adding", "addmeta", "unregister", "notify", "move", "post"}
    PROVE  GangInv'
BY DEF GangInv, GangTypes, Judged, Fits, NbAvailable, NbUfo, GangLocks, MainHolds, TimerHolds,
       NotBuilt, OnlyObserved, AloneInMove, TimerDecides, Tracked

\* The state of one gang is refreshed, by the main thread or by its timer
LEMMA Refreshed ==
    ASSUME GangTypes, NEW g \in Gangs,
           NEW es \in [Entries -> EntrySt], SetState(es, g)
    PROVE  /\ gst' \in [Gangs -> GangSt] /\ prev' \in [Gangs -> GangSt]
           /\ gst'[g] = GangState(es, g)
           /\ prev'[g] = IF gst'[g] # gst[g] THEN gst[g] ELSE prev[g]
           /\ \A h \in Gangs \ {g} : gst'[h] = gst[h] /\ prev'[h] = prev[h]
<1>1. GangState(es, g) \in GangSt
    BY GangStateFits
<1> QED BY <1>1 DEF SetState, Changes, GangTypes

\* The counts of a gang depend on its entries only
LEMMA BuildKeeps ==
    ASSUME GangInv, NEW g \in Gangs, Build(g)
    PROVE  GangInv'
<1>1. /\ pc = "fill" /\ g \in tofill /\ gst' = [gst EXCEPT ![g] = GangState(est, g)]
      /\ FirstSeen(g) /\ tofill' = tofill \ {g} /\ cur' = g /\ pc' = "addmeta"
      /\ est' = est /\ prev' = prev /\ observed' = observed /\ mset' = mset
    BY DEF Build, metavars
<1>2. GangState(est, g) \in GangSt
    BY GangStateFits DEF GangInv, GangTypes
<1>3. /\ first' \in [Gangs -> {"none", "seen", "late"}] /\ tpc' \in [Gangs -> TimerPC]
      /\ \A h \in Gangs \ {g} : first'[h] = first[h] /\ tpc'[h] = tpc[h]
      /\ tpc'[g] \in {"none", "armed"} /\ (first[g] = "late" <=> first'[g] = "late")
    BY <1>1 DEF GangInv, GangTypes, FirstSeen, TimerPC, NotBuilt
<1>4. GangTypes'
    BY <1>1, <1>2, <1>3 DEF GangInv, GangTypes
<1>5. Judged'
    <2> SUFFICES ASSUME NEW h \in Gangs \ tofill'
                 PROVE  Fits(gst[h], NbAvailable(est, h), NbUfo(est, h), first[h], Size(h), EffMinsize(h))'
        BY DEF Judged
    <2>1. /\ NbAvailable(est, h)' = NbAvailable(est, h) /\ NbUfo(est, h)' = NbUfo(est, h)
          /\ Size(h)' = Size(h) /\ EffMinsize(h)' = EffMinsize(h)
        BY <1>1 DEF NbAvailable, NbUfo
    <2>2. CASE h = g
        <3>1. gst'[g] = GangState(est, g)
            BY <1>1 DEF GangInv, GangTypes
        <3> QED BY <1>3, <2>1, <2>2, <3>1, GangStateFits DEF GangInv, GangTypes, Fits
    <2>3. CASE h # g
        <3>1. h \in Gangs \ tofill /\ gst'[h] = gst[h] /\ first'[h] = first[h]
            BY <1>1, <1>3, <2>3 DEF GangInv, GangTypes
        <3> QED BY <2>1, <3>1 DEF GangInv, Judged, Fits
    <2> QED BY <2>2, <2>3
<1>6. GangLocks'
    BY <1>1, <1>3 DEF GangInv, GangLocks, MainHolds, TimerHolds
<1>7. NotBuilt'
    BY <1>1, <1>3 DEF GangInv, NotBuilt, GangTypes
<1>8. OnlyObserved' /\ AloneInMove' /\ TimerDecides'
    BY <1>1, <1>3 DEF GangInv, OnlyObserved, AloneInMove, TimerDecides
<1>9. Tracked'
    BY <1>1, <1>3 DEF GangInv, Tracked, NotBuilt, GangTypes
<1> QED BY <1>4, <1>5, <1>6, <1>7, <1>8, <1>9 DEF GangInv

\* When no state changes, time may only make a gang more tolerant
LEMMA JudgedStays ==
    ASSUME GangInv, est' = est, gst' = gst, tofill' = tofill,
           \A g \in Gangs : first[g] = "late" => first'[g] = "late"
    PROVE  Judged'
<1> SUFFICES ASSUME NEW h \in Gangs \ tofill
             PROVE  Fits(gst[h], NbAvailable(est, h), NbUfo(est, h), first[h], Size(h), EffMinsize(h))'
    BY DEF Judged
<1>1. /\ NbAvailable(est, h)' = NbAvailable(est, h) /\ NbUfo(est, h)' = NbUfo(est, h)
      /\ Size(h)' = Size(h) /\ EffMinsize(h)' = EffMinsize(h)
    BY DEF NbAvailable, NbUfo
<1> QED BY <1>1 DEF GangInv, Judged, Fits

LEMMA RegisterKeeps ==
    ASSUME GangInv, Register
    PROVE  GangInv'
<1>1. /\ pc = "addmeta" /\ ~MetaLocked /\ observed' = observed \cup {cur} /\ pc' = "adding"
      /\ UNCHANGED <<est, gst, first, tpc, prev, mset, tofill, cur>>
    BY DEF Register, gangvars
<1>2. GangTypes'
    BY <1>1 DEF GangInv, GangTypes
<1>3. Judged'
    BY <1>1, JudgedStays
<1>4. GangLocks' /\ NotBuilt' /\ OnlyObserved' /\ TimerDecides'
    BY <1>1 DEF GangInv, GangLocks, MainHolds, TimerHolds, NotBuilt, OnlyObserved, TimerDecides
<1>5. AloneInMove' /\ Tracked'
    BY <1>1 DEF GangInv, AloneInMove, Tracked, MetaLocked
<1> QED BY <1>2, <1>3, <1>4, <1>5 DEF GangInv

LEMMA AddMemberKeeps ==
    ASSUME GangInv, AddMember
    PROVE  GangInv'
<1>1. /\ pc = "adding" /\ mset' = [mset EXCEPT ![cur] = gst[cur]] /\ pc' \in {"while_ufo", "fill"}
      /\ UNCHANGED <<est, gst, first, tpc, prev, observed, tofill, cur>>
      /\ tofill = {} \/ pc' = "fill"
    BY DEF AddMember, gangvars
<1>2. cur \in Gangs /\ cur \in observed /\ gst[cur] \in GangSt
    BY <1>1 DEF GangInv, GangTypes, OnlyObserved
<1>3. GangTypes'
    BY <1>1, <1>2 DEF GangInv, GangTypes
<1>4. Judged'
    BY <1>1, JudgedStays
<1>5. GangLocks' /\ NotBuilt' /\ TimerDecides'
    BY <1>1 DEF GangInv, GangLocks, MainHolds, TimerHolds, NotBuilt, TimerDecides
<1>6. OnlyObserved' /\ AloneInMove' /\ Tracked'
    BY <1>1, <1>2 DEF GangInv, GangTypes, OnlyObserved, AloneInMove, Tracked
<1> QED BY <1>3, <1>4, <1>5, <1>6 DEF GangInv

\* Only a gang that may be collected is popped
LEMMA PopFacts ==
    ASSUME GangInv, NEW g \in Gangs, Pop(g)
    PROVE  /\ g \in observed /\ tpc[g] # "move"
           /\ mset[g] = gst[g] /\ gst[g] \in {"collectable", "collectable_partial"}
<1>1. pc = "consume" /\ mset[g] \in {"collectable", "collectable_partial"}
    BY DEF Pop, Poppable, In
<1>2. g \in observed /\ tpc[g] # "move"
    BY <1>1 DEF GangInv, OnlyObserved, AloneInMove, Nowhere
<1>3. mset[g] = gst[g]
    BY <1>1, <1>2 DEF GangInv, Tracked, TimerDecides
<1> QED BY <1>1, <1>2, <1>3

LEMMA PopKeeps ==
    ASSUME GangInv, NEW g \in Gangs, Pop(g)
    PROVE  GangInv'
<1>1. /\ pc = "consume" /\ mset' = [mset EXCEPT ![g] = Nowhere] /\ cur' = g /\ pc' = "unregister"
      /\ UNCHANGED <<est, gst, first, tpc, prev, observed, tofill>>
    BY DEF Pop, gangvars
<1>2. GangTypes'
    BY <1>1 DEF GangInv, GangTypes
<1>3. Judged'
    BY <1>1, JudgedStays
<1>4. GangLocks' /\ NotBuilt' /\ TimerDecides'
    BY <1>1 DEF GangInv, GangLocks, MainHolds, TimerHolds, NotBuilt, TimerDecides
<1>5. OnlyObserved' /\ AloneInMove' /\ Tracked'
    BY <1>1, PopFacts DEF GangInv, GangTypes, OnlyObserved, AloneInMove, Tracked
<1> QED BY <1>2, <1>3, <1>4, <1>5 DEF GangInv

LEMMA UnregisterKeeps ==
    ASSUME GangInv, Unregister
    PROVE  GangInv'
<1>1. /\ pc = "unregister" /\ observed' = observed \ {cur} /\ pc' = "consume"
      /\ UNCHANGED <<est, gst, first, tpc, prev, mset, tofill, cur>>
    BY DEF Unregister, gangvars
<1>2. GangTypes'
    BY <1>1 DEF GangInv, GangTypes
<1>3. Judged'
    BY <1>1, JudgedStays
<1>4. GangLocks' /\ NotBuilt' /\ OnlyObserved' /\ TimerDecides'
    BY <1>1 DEF GangInv, GangLocks, MainHolds, TimerHolds, NotBuilt, OnlyObserved, TimerDecides
<1>5. AloneInMove' /\ Tracked'
    BY <1>1 DEF GangInv, AloneInMove, Tracked
<1> QED BY <1>2, <1>3, <1>4, <1>5 DEF GangInv

LEMMA NewsKeeps ==
    ASSUME GangInv, NEW e \in Entries, NEW s \in EntrySt, News(e, s)
    PROVE  GangInv'
<1> DEFINE g == GangOf[e]
           es == [est EXCEPT ![e] = s]
<1>1. /\ pc = "refresh" /\ s \in Later(est[e]) /\ ~TimerHolds(g) /\ est' = es /\ SetState(es, g)
      /\ tpc' = [tpc EXCEPT ![g] = IF CancelsTimer(es, g) /\ @ = "armed" THEN "cancelled" ELSE @]
      /\ cur' = g
      /\ pc' = IF Changes(es, g) THEN "notify" ELSE "post"
      /\ UNCHANGED <<first, observed, mset, tofill>>
    BY NewsFacts DEF News, metavars
<1>2. g \in Gangs /\ es \in [Entries -> EntrySt] /\ est \in [Entries -> EntrySt]
    BY GangAssumptions DEF GangInv, GangTypes
<1> HIDE DEF es
<1>3. /\ gst' \in [Gangs -> GangSt] /\ prev' \in [Gangs -> GangSt]
      /\ gst'[g] = GangState(es, g)
      /\ prev'[g] = IF gst'[g] # gst[g] THEN gst[g] ELSE prev[g]
      /\ \A h \in Gangs \ {g} : gst'[h] = gst[h] /\ prev'[h] = prev[h]
    BY <1>1, <1>2, Refreshed DEF GangInv
<1>4. /\ tpc' \in [Gangs -> TimerPC]
      /\ \A h \in Gangs \ {g} : tpc'[h] = tpc[h]
      /\ tpc'[g] = tpc[g] \/ (tpc[g] = "armed" /\ tpc'[g] = "cancelled")
    BY <1>1, <1>2 DEF GangInv, GangTypes, TimerPC
<1>5. gst'[g] # gst[g] <=> pc' = "notify"
    BY <1>1, <1>3 DEF Changes
<1> HIDE DEF g
<1>6. GangTypes'
    BY <1>1, <1>2, <1>3, <1>4 DEF GangInv, GangTypes
<1>7. Judged'
    <2> SUFFICES ASSUME NEW h \in Gangs \ tofill
                 PROVE  Fits(gst'[h], NbAvailable(est', h), NbUfo(est', h), first'[h], Size(h), EffMinsize(h))
        BY <1>1 DEF Judged, Size, MembersOf, EffMinsize, minsize, Fits, NbAvailable, NbUfo
    <2>1. CASE h = g
        BY <1>1, <1>2, <1>3, <2>1, GangStateFits
    <2>2. CASE h # g
        <3>1. NbAvailable(es, h) = NbAvailable(est, h) /\ NbUfo(es, h) = NbUfo(est, h)
            <4>1. s \in Later(est[e])
                BY <1>1
            <4>2. est \in [Entries -> EntrySt] /\ h # GangOf[e] /\ h \in Gangs
                BY <1>2, <2>2 DEF g
            <4>3. /\ NbAvailable([est EXCEPT ![e] = s], h) = NbAvailable(est, h)
                  /\ NbUfo([est EXCEPT ![e] = s], h) = NbUfo(est, h)
                BY <4>1, <4>2, NewsCounts, ZenonT(40)
            <4> QED BY <4>3 DEF es
        <3> QED BY <1>1, <1>3, <2>2, <3>1 DEF GangInv, Judged, Fits
    <2> QED BY <2>1, <2>2
<1>8. GangLocks'
    BY <1>1, <1>2, <1>4 DEF GangInv, GangLocks, MainHolds, TimerHolds
<1>9. NotBuilt' /\ OnlyObserved'
    BY <1>1, <1>2, <1>3, <1>4 DEF GangInv, NotBuilt, OnlyObserved
<1>10. AloneInMove' /\ TimerDecides'
    BY <1>1, <1>2, <1>3, <1>4 DEF GangInv, AloneInMove, TimerDecides, TimerHolds
<1>11. Tracked'
    BY <1>1, <1>2, <1>3, <1>4, <1>5 DEF GangInv, GangTypes, Tracked
<1> QED BY <1>6, <1>7, <1>8, <1>9, <1>10, <1>11 DEF GangInv

\* What the main thread sends to the MetaGang after News
LEMMA NotifyKeeps ==
    ASSUME GangInv, Notify
    PROVE  GangInv'
<1>1. /\ pc = "notify" /\ pc' \in {"move", "post"}
      /\ UNCHANGED <<est, gst, first, tpc, prev, observed, tofill, cur>>
      /\ mset' \in {mset, [mset EXCEPT ![cur] = Nowhere]}
      /\ pc' = "move" => cur \in observed /\ ~MetaLocked
      /\ pc' = "post" => cur \notin observed /\ mset' = mset
    BY DEF Notify, gangvars, Leave
<1>2. GangTypes'
    BY <1>1 DEF GangInv, GangTypes
<1>3. Judged'
    BY <1>1, JudgedStays
<1>4. GangLocks' /\ NotBuilt' /\ TimerDecides'
    BY <1>1 DEF GangInv, GangLocks, MainHolds, TimerHolds, NotBuilt, TimerDecides
<1>5. OnlyObserved' /\ AloneInMove' /\ Tracked'
    BY <1>1 DEF GangInv, GangTypes, OnlyObserved, AloneInMove, Tracked, MetaLocked
<1> QED BY <1>2, <1>3, <1>4, <1>5 DEF GangInv

LEMMA MoveKeeps ==
    ASSUME GangInv, Move
    PROVE  GangInv'
<1>1. /\ pc = "move" /\ mset' = [mset EXCEPT ![cur] = gst[cur]] /\ pc' = "post"
      /\ UNCHANGED <<est, gst, first, tpc, prev, observed, tofill, cur>>
    BY DEF Move, Enter, gangvars
<1>2. cur \in Gangs /\ cur \in observed /\ gst[cur] \in GangSt /\ ~TimerHolds(cur)
    BY <1>1 DEF GangInv, GangTypes, OnlyObserved, GangLocks, MainHolds
<1>3. GangTypes'
    BY <1>1, <1>2 DEF GangInv, GangTypes
<1>4. Judged'
    BY <1>1, JudgedStays
<1>5. GangLocks' /\ NotBuilt' /\ TimerDecides'
    BY <1>1 DEF GangInv, GangLocks, MainHolds, TimerHolds, NotBuilt, TimerDecides
<1>6. OnlyObserved' /\ AloneInMove' /\ Tracked'
    BY <1>1, <1>2 DEF GangInv, GangTypes, OnlyObserved, AloneInMove, Tracked, TimerHolds
<1> QED BY <1>3, <1>4, <1>5, <1>6 DEF GangInv

LEMMA PostKeeps ==
    ASSUME GangInv, Post
    PROVE  GangInv'
<1>1. /\ pc = "post" /\ FirstSeen(cur) /\ pc' = "refresh"
      /\ UNCHANGED <<est, gst, prev, observed, mset, tofill, cur>>
    BY DEF Post, metavars
<1>2. cur \in Gangs /\ ~TimerHolds(cur)
    BY <1>1 DEF GangInv, GangTypes, GangLocks, MainHolds
<1>3. /\ first' \in [Gangs -> {"none", "seen", "late"}] /\ tpc' \in [Gangs -> TimerPC]
      /\ \A h \in Gangs \ {cur} : first'[h] = first[h] /\ tpc'[h] = tpc[h]
      /\ tpc'[cur] \in {tpc[cur], "none", "armed"} /\ (first[cur] = "late" => first'[cur] = "late")
    BY <1>1, <1>2 DEF GangInv, GangTypes, FirstSeen, TimerPC
<1>4. GangTypes'
    BY <1>1, <1>3 DEF GangInv, GangTypes
<1>5. Judged'
    BY <1>1, <1>3, JudgedStays
<1>6. GangLocks' /\ NotBuilt' /\ TimerDecides'
    BY <1>1, <1>2, <1>3 DEF GangInv, GangLocks, MainHolds, TimerHolds, NotBuilt, TimerDecides
<1>7. OnlyObserved' /\ AloneInMove' /\ Tracked'
    BY <1>1, <1>2, <1>3 DEF GangInv, GangTypes, OnlyObserved, AloneInMove, Tracked, TimerHolds
<1> QED BY <1>4, <1>5, <1>6, <1>7 DEF GangInv

\* The timer waits, raises, or ends: the gang and the MetaGang are left alone
LEMMA ClockKeeps ==
    ASSUME GangInv, NEW g \in Gangs,
           TimePasses(g) \/ Fire(g) \/ TimerRaises(g) \/ TimerClear(g)
    PROVE  GangInv'
<1>1. UNCHANGED <<est, gst, prev, observed, mset, pc, tofill, cur>>
    BY DEF TimePasses, Fire, TimerRaises, TimerClear, metavars, mainvars
<1>2. /\ first' \in [Gangs -> {"none", "seen", "late"}] /\ tpc' \in [Gangs -> TimerPC]
      /\ \A h \in Gangs : first[h] = "late" => first'[h] = "late"
      /\ \A h \in Gangs : tpc'[h] = tpc[h] \/ (h = g /\ tpc[h] # "none" /\ tpc'[h] \in {"fired", "dead", "ended"})
    BY DEF GangInv, GangTypes, TimePasses, Fire, TimerRaises, TimerClear, TimerPC
<1>3. tpc[g] \in {"notify", "move"} /\ tpc'[g] # tpc[g] => tpc[g] = "notify" /\ mset[g] # prev[g]
    BY DEF GangInv, GangTypes, TimePasses, Fire, TimerRaises, TimerClear
<1>4. GangTypes'
    BY <1>1, <1>2 DEF GangInv, GangTypes
<1>5. Judged'
    BY <1>1, <1>2, JudgedStays
<1>6. GangLocks' /\ NotBuilt' /\ TimerDecides'
    BY <1>1, <1>2 DEF GangInv, GangTypes, GangLocks, MainHolds, TimerHolds, NotBuilt, TimerDecides
<1>7. OnlyObserved' /\ AloneInMove'
    BY <1>1, <1>2 DEF GangInv, GangTypes, OnlyObserved, AloneInMove
<1>8. Tracked'
    BY <1>1, <1>2, <1>3 DEF GangInv, GangTypes, Tracked
<1> QED BY <1>4, <1>5, <1>6, <1>7, <1>8 DEF GangInv

\* What a timer may change
LEMMA CheckFacts ==
    ASSUME GangInv, NEW g \in Gangs \ tofill, SetState(est, g)
    PROVE  gst'[g] = gst[g] \/ (gst[g] = "undecided" /\ gst'[g] = "collectable_partial")
<1>1. est \in [Entries -> EntrySt] /\ gst[g] \in GangSt
    BY DEF GangInv, GangTypes
<1>2. gst'[g] = GangState(est, g)
    BY <1>1, Refreshed DEF GangInv
<1>3. /\ GangState(est, g) \in GangSt
      /\ Fits(GangState(est, g), NbAvailable(est, g), NbUfo(est, g), first[g], Size(g), EffMinsize(g))
      /\ Fits(gst[g], NbAvailable(est, g), NbUfo(est, g), first[g], Size(g), EffMinsize(g))
    BY <1>1, GangStateFits DEF GangInv, Judged
<1>4. /\ NbAvailable(est, g) \in Nat /\ NbUfo(est, g) \in Nat /\ Size(g) \in Nat
      /\ NbAvailable(est, g) + NbUfo(est, g) <= Size(g)
      /\ EffMinsize(g) \in Nat /\ EffMinsize(g) <= Size(g)
    BY <1>1, GangCounts, MinsizeFacts
<1>5. gst[g] = "collectable_partial" => GangState(est, g) = "collectable_partial"
    BY <1>3 DEF Fits, GangState, IsCollectable, IsPcollectable
<1> QED BY <1>1, <1>2, <1>3, <1>4, <1>5 DEF Fits, GangSt

LEMMA CheckKeeps ==
    ASSUME GangInv, NEW g \in Gangs, Check(g)
    PROVE  GangInv'
<1>1. /\ tpc[g] = "fired" /\ ~MainHolds(g) /\ SetState(est, g)
      /\ tpc' = [tpc EXCEPT ![g] = IF Changes(est, g) THEN "notify" ELSE "clear"]
      /\ UNCHANGED <<est, first, observed, mset, pc, tofill, cur>>
    BY DEF Check, metavars, mainvars
<1>2. est \in [Entries -> EntrySt] /\ g \notin tofill
    BY <1>1 DEF GangInv, GangTypes, NotBuilt
<1>3. /\ gst' \in [Gangs -> GangSt] /\ prev' \in [Gangs -> GangSt]
      /\ gst'[g] = GangState(est, g)
      /\ prev'[g] = IF gst'[g] # gst[g] THEN gst[g] ELSE prev[g]
      /\ \A h \in Gangs \ {g} : gst'[h] = gst[h] /\ prev'[h] = prev[h]
    BY <1>1, <1>2, Refreshed DEF GangInv
<1>4. gst'[g] = gst[g] \/ (gst[g] = "undecided" /\ gst'[g] = "collectable_partial")
    BY <1>1, <1>2, CheckFacts
<1>5. /\ tpc' \in [Gangs -> TimerPC] /\ \A h \in Gangs \ {g} : tpc'[h] = tpc[h]
      /\ tpc'[g] = IF gst'[g] # gst[g] THEN "notify" ELSE "clear"
    BY <1>1, <1>3 DEF GangInv, GangTypes, TimerPC, Changes
<1>6. GangTypes'
    BY <1>1, <1>3, <1>5 DEF GangInv, GangTypes
<1>7. Judged'
    <2> SUFFICES ASSUME NEW h \in Gangs \ tofill
                 PROVE  Fits(gst'[h], NbAvailable(est, h), NbUfo(est, h), first[h], Size(h), EffMinsize(h))
        BY <1>1 DEF Judged, Size, MembersOf, EffMinsize, minsize, Fits, NbAvailable, NbUfo
    <2>1. CASE h = g
        BY <1>2, <1>3, <2>1, GangStateFits
    <2>2. CASE h # g
        BY <1>3, <2>2 DEF GangInv, Judged
    <2> QED BY <2>1, <2>2
<1>8. GangLocks'
    BY <1>1, <1>5 DEF GangInv, GangLocks, MainHolds, TimerHolds
<1>9. NotBuilt' /\ OnlyObserved'
    BY <1>1, <1>2, <1>3, <1>5 DEF GangInv, NotBuilt, GangTypes, OnlyObserved
<1>10. AloneInMove' /\ TimerDecides'
    BY <1>1, <1>3, <1>4, <1>5 DEF GangInv, AloneInMove, TimerDecides
<1>11. Tracked'
    BY <1>1, <1>3, <1>5 DEF GangInv, GangTypes, Tracked, MainHolds
<1> QED BY <1>6, <1>7, <1>8, <1>9, <1>10, <1>11 DEF GangInv

LEMMA TimerNotifyKeeps ==
    ASSUME GangInv, NEW g \in Gangs, TimerNotify(g)
    PROVE  GangInv'
<1>1. /\ tpc[g] = "notify"
      /\ \/ /\ g \in observed /\ ~MetaLocked /\ mset[g] = prev[g]
            /\ mset' = [mset EXCEPT ![g] = Nowhere] /\ tpc' = [tpc EXCEPT ![g] = "move"]
         \/ g \notin observed /\ mset' = mset /\ tpc' = [tpc EXCEPT ![g] = "clear"]
      /\ UNCHANGED <<est, gst, first, prev, observed, pc, tofill, cur>>
    BY DEF TimerNotify, Leave, mainvars
<1>2. GangTypes'
    BY <1>1 DEF GangInv, GangTypes, TimerPC
<1>3. Judged'
    BY <1>1, JudgedStays DEF GangInv, GangTypes
<1>4. GangLocks' /\ NotBuilt' /\ TimerDecides'
    BY <1>1 DEF GangInv, GangTypes, GangLocks, MainHolds, TimerHolds, NotBuilt, TimerDecides
<1>5. pc = "unregister" /\ mset[g] = prev[g] => cur # g
    BY DEF GangInv, GangTypes, OnlyObserved, GangSt, Nowhere
<1>6. OnlyObserved' /\ AloneInMove'
    BY <1>1, <1>5 DEF GangInv, GangTypes, OnlyObserved, AloneInMove, MetaLocked
<1>7. Tracked'
    BY <1>1 DEF GangInv, GangTypes, Tracked
<1> QED BY <1>2, <1>3, <1>4, <1>6, <1>7 DEF GangInv

LEMMA TimerMoveKeeps ==
    ASSUME GangInv, NEW g \in Gangs, TimerMove(g)
    PROVE  GangInv'
<1>1. /\ tpc[g] = "move" /\ mset' = [mset EXCEPT ![g] = gst[g]]
      /\ tpc' = [tpc EXCEPT ![g] = "clear"]
      /\ UNCHANGED <<est, gst, first, prev, observed, pc, tofill, cur>>
    BY DEF TimerMove, Enter, mainvars
<1>2. gst[g] \in GangSt /\ g \in observed /\ ~(pc = "unregister" /\ cur = g)
    BY <1>1 DEF GangInv, GangTypes, AloneInMove
<1>3. GangTypes'
    BY <1>1, <1>2 DEF GangInv, GangTypes, TimerPC
<1>4. Judged'
    BY <1>1, JudgedStays DEF GangInv, GangTypes
<1>5. GangLocks' /\ NotBuilt' /\ TimerDecides'
    BY <1>1 DEF GangInv, GangTypes, GangLocks, MainHolds, TimerHolds, NotBuilt, TimerDecides
<1>6. OnlyObserved' /\ AloneInMove' /\ Tracked'
    BY <1>1, <1>2 DEF GangInv, GangTypes, OnlyObserved, AloneInMove, Tracked
<1> QED BY <1>3, <1>4, <1>5, <1>6 DEF GangInv

LEMMA GangStep ==
    ASSUME GangInv, [GangNext]_gvars
    PROVE  GangInv'
<1>1. CASE WhileUfo \/ WhileCollectable \/ NothingToPop \/ GoOn \/ TimeOut
    BY <1>1, QuietMain
       DEF WhileUfo, WhileCollectable, NothingToPop, GoOn, TimeOut, gangvars, metavars
<1>2. CASE UNCHANGED gvars
    <2>1. UNCHANGED <<est, gst, first, tpc, prev, observed, mset, pc, tofill, cur>>
        BY <1>2 DEF gvars, gangvars, metavars, mainvars
    <2> QED BY <2>1
            DEF GangInv, GangTypes, Judged, Fits, NbAvailable, NbUfo, GangLocks, MainHolds,
                TimerHolds, NotBuilt, OnlyObserved, AloneInMove, TimerDecides, Tracked
<1>3. ASSUME NEW g \in Gangs, TimePasses(g) \/ TimerStep(g)
      PROVE  GangInv'
    BY <1>3, ClockKeeps, CheckKeeps, TimerNotifyKeeps, TimerMoveKeeps DEF TimerStep
<1> QED
    BY <1>1, <1>2, <1>3, RegisterKeeps, AddMemberKeeps, PopKeeps, UnregisterKeeps, NewsKeeps,
       NotifyKeeps, MoveKeeps, PostKeeps, BuildKeeps
       DEF GangNext, Collect, LoopOver

LEMMA GangInvariant == GangSpec => []GangInv
<1>1. GangInv /\ [GangNext]_gvars => GangInv'
    BY GangStep
<1>2. GangInit => GangInv
    BY GangStart
<1> QED BY <1>1, <1>2, PTL DEF GangSpec

\* Each gang is in the set of the MetaGang that its state calls for, although the main
\* thread, the timers and the pops do not take the same locks.
THEOREM GangsClassified == GangSpec => []Classified
<1>1. GangInv => Classified
    <2> SUFFICES ASSUME GangInv, NEW g \in observed, ~Busy(g)
                 PROVE  mset[g] = gst[g]
        BY DEF Classified
    <2>1. g \in Gangs
        BY DEF GangInv, GangTypes
    <2> QED BY <2>1 DEF GangInv, Tracked, Busy, MainHolds, TimerHolds
<1> QED BY <1>1, GangInvariant, PTL

\* A gang is handed out with enough members, and incomplete only when the others have
\* failed or waitlimit is over, whatever the threads do before it is popped.
THEOREM PoppedRightly == GangSpec => HandedOutRightly
<1> DEFINE Right == \A g \in Gangs : Pop(g) =>
                       /\ NbAvailable(est, g) >= EffMinsize(g)
                       /\ NbUfo(est, g) = 0 \/ (HasWaitlimit /\ first[g] = "late")
<1>1. ASSUME GangInv, NEW g \in Gangs, Pop(g)
      PROVE  /\ NbAvailable(est, g) >= EffMinsize(g)
             /\ NbUfo(est, g) = 0 \/ (HasWaitlimit /\ first[g] = "late")
    <2>1. gst[g] \in {"collectable", "collectable_partial"} /\ g \in observed
        BY <1>1, PopFacts
    <2>2. g \notin tofill
        BY <1>1, <2>1 DEF GangInv, NotBuilt
    <2>3. Fits(gst[g], NbAvailable(est, g), NbUfo(est, g), first[g], Size(g), EffMinsize(g))
        BY <1>1, <2>2 DEF GangInv, Judged
    <2>4. /\ NbAvailable(est, g) \in Nat /\ NbUfo(est, g) \in Nat /\ Size(g) \in Nat
          /\ NbAvailable(est, g) + NbUfo(est, g) <= Size(g)
          /\ EffMinsize(g) \in Nat /\ EffMinsize(g) <= Size(g)
        BY <1>1, GangCounts, MinsizeFacts DEF GangInv, GangTypes
    <2> QED BY <2>1, <2>3, <2>4 DEF Fits
<1>2. GangInv => [Right]_gvars
    BY <1>1
<1> QED BY <1>2, GangInvariant, PTL DEF HandedOutRightly

\* A gang that was collectable or failed stays so, and an incomplete one may only be
\* completed, whatever the order of the news, of the clock and of the timer.
THEOREM NeverTakenBack == GangSpec => DecidedForGood
<1> DEFINE Kept(g) ==
              /\ gst[g] \in {"collectable", "failed"} => gst'[g] = gst[g]
              /\ gst[g] = "collectable_partial" => gst'[g] \in {"collectable", "collectable_partial"}
<1>1. ASSUME GangInv, NEW g \in Gangs, Build(g)
      PROVE  \A h \in Gangs : Kept(h)
    BY <1>1 DEF Build, GangInv, NotBuilt, GangTypes
<1>2. ASSUME GangInv, NEW g \in Gangs, Check(g)
      PROVE  \A h \in Gangs : Kept(h)
    <2>1. g \notin tofill /\ est \in [Entries -> EntrySt] /\ SetState(est, g)
        BY <1>2 DEF Check, GangInv, NotBuilt, GangTypes
    <2>2. gst'[g] = gst[g] \/ (gst[g] = "undecided" /\ gst'[g] = "collectable_partial")
        BY <1>2, <2>1, CheckFacts
    <2>3. \A h \in Gangs \ {g} : gst'[h] = gst[h]
        BY <1>2, <2>1, Refreshed DEF GangInv
    <2> QED BY <2>2, <2>3
<1>3. ASSUME GangInv, NEW e \in Entries, NEW s \in EntrySt, News(e, s)
      PROVE  \A h \in Gangs : Kept(h)
    <2> DEFINE g == GangOf[e]
               es == [est EXCEPT ![e] = s]
    <2>1. /\ SetState(es, g) /\ s \in Later(est[e]) /\ g \in Gangs /\ g \notin tofill
          /\ es \in [Entries -> EntrySt] /\ est \in [Entries -> EntrySt] /\ gst[g] \in GangSt
        BY <1>3, NewsFacts, GangAssumptions DEF News, GangInv, GangTypes, NotBuilt
    <2>2. /\ NbAvailable(est, g) <= NbAvailable(es, g) /\ NbUfo(es, g) <= NbUfo(est, g)
          /\ NbAvailable(es, g) + NbUfo(es, g) <= NbAvailable(est, g) + NbUfo(est, g)
          /\ NbAvailable(est, g) # Size(g)
        BY <2>1, NewsCounts, ZenonT(40)
    <2> HIDE DEF es, g
    <2>3. /\ gst'[g] = GangState(es, g) /\ \A h \in Gangs \ {g} : gst'[h] = gst[h]
        BY <1>3, <2>1, Refreshed DEF GangInv
    <2>4. /\ GangState(es, g) \in GangSt
          /\ Fits(GangState(es, g), NbAvailable(es, g), NbUfo(es, g), first[g], Size(g), EffMinsize(g))
          /\ Fits(gst[g], NbAvailable(est, g), NbUfo(est, g), first[g], Size(g), EffMinsize(g))
        BY <1>3, <2>1, GangStateFits DEF GangInv, Judged
    <2>5. /\ NbAvailable(est, g) \in Nat /\ NbUfo(est, g) \in Nat /\ Size(g) \in Nat
          /\ NbAvailable(es, g) \in Nat /\ NbUfo(es, g) \in Nat
          /\ EffMinsize(g) \in Nat /\ EffMinsize(g) <= Size(g)
        BY <2>1, GangCounts, MinsizeFacts
    <2>6. gst[g] = "collectable_partial" => GangState(es, g) \in {"collectable", "collectable_partial"}
        BY <2>2, <2>4, <2>5 DEF Fits, GangState, IsCollectable, IsPcollectable
    <2>7. gst[g] = "failed" => GangState(es, g) = "failed"
        BY <2>2, <2>4, <2>5 DEF Fits, GangSt
    <2>8. gst[g] # "collectable"
        BY <2>2, <2>4 DEF Fits
    <2> QED BY <2>3, <2>6, <2>7, <2>8
<1>4. ASSUME UNCHANGED gst
      PROVE  \A h \in Gangs : Kept(h)
    BY <1>4
<1>5. ASSUME NEW g \in Gangs, TimePasses(g) \/ TimerStep(g), ~Check(g)
      PROVE  UNCHANGED gst
    BY <1>5 DEF TimePasses, TimerStep, Fire, TimerNotify, TimerRaises, TimerMove, TimerClear
<1>6. ASSUME Collect, \A g \in Gangs : ~Build(g)
      PROVE  UNCHANGED gst
    BY <1>6 DEF Collect, Register, AddMember, WhileUfo, WhileCollectable, Unregister,
                NothingToPop, Notify, Move, Post, GoOn, Pop, gangvars
<1>7. GangInv /\ [GangNext]_gvars => \A h \in Gangs : Kept(h)
    BY <1>1, <1>2, <1>3, <1>4, <1>5, <1>6
       DEF GangNext, TimeOut, LoopOver, gvars, gangvars, TimerStep
<1>8. GangInv /\ [GangNext]_gvars =>
        [\A g \in Gangs :
            /\ gst[g] \in {"collectable", "failed"} => gst'[g] = gst[g]
            /\ gst[g] = "collectable_partial" => gst'[g] \in {"collectable", "collectable_partial"}]_gvars
    BY <1>7
<1> QED BY <1>8, GangInvariant, PTL DEF GangSpec, DecidedForGood

(***************************************************************************)
(* The news that the monitor tells are those that the gangs expect         *)
(* (EntryNews, on which Gang's News is built).                             *)
(***************************************************************************)
\* No result in the queue says that its entry is unknown
NewsOnly == \A i \in DOMAIN mpqueue : mpqueue[i].state # "ufo"

LEMMA PendingNews ==
    ASSUME NEW x \in Pending, NEW s \in EntrySt, s # "ufo", s # x
    PROVE  s \in Later(x)
<1>1. /\ Later("ufo") = {"expected", "available", "failed"}
      /\ Later("expected") = {"available", "failed"}
    BY DEF Later
<1>2. CASE x = "ufo"
    BY <1>1, <1>2 DEF EntrySt
<1>3. CASE x = "expected"
    BY <1>1, <1>3 DEF EntrySt
<1> QED BY <1>2, <1>3 DEF Pending

LEMMA ReportedNews ==
    ASSUME IInv, NewsOnly, NEW k \in Keys, NEW s \in EntrySt, Report(k, s), s # "ufo"
    PROVE  NewsOnly'
<1> DEFINE r == [key |-> k, prev |-> cst[k], state |-> s]
<1>1. r \in Results /\ r.state = s /\ mpqueue \in Seq(Results)
    BY DEF IInv, TypeOK, Results
<1>2. mpqueue' = Append(mpqueue, r)
    BY DEF Report
<1> HIDE DEF r
<1>3. /\ Len(mpqueue) \in Nat /\ DOMAIN mpqueue = 1..Len(mpqueue)
      /\ DOMAIN mpqueue' = 1..Len(mpqueue)+1
      /\ mpqueue'[Len(mpqueue)+1] = r
      /\ \A i \in 1..Len(mpqueue) : mpqueue'[i] = mpqueue[i]
    BY <1>1, <1>2, AppendFacts, LenProperties
<1> QED BY <1>1, <1>3 DEF NewsOnly

\* The main process takes the first result, which starts from what it knows of the entry
LEMMA ReceivedNews ==
    ASSUME IInv, Receive
    PROVE  LET h == Head(mpqueue)
           IN  /\ h \in Results /\ h = mpqueue[1] /\ 1 \in DOMAIN mpqueue
               /\ h.prev \in Pending /\ pst[h.key] = h.prev
               /\ pst' = [pst EXCEPT ![h.key] = h.state]
               /\ DOMAIN mpqueue' = 1..Len(mpqueue)-1
               /\ \A i \in DOMAIN mpqueue' : i + 1 \in DOMAIN mpqueue /\ mpqueue'[i] = mpqueue[i+1]
<1> DEFINE h == Head(mpqueue)
<1>1. /\ mpqueue \in Seq(Results) /\ mpqueue # <<>>
      /\ mpqueue' = Tail(mpqueue) /\ pst' = StateAfter(pst, h)
    BY DEF Receive, IInv, TypeOK
<1>2. /\ h \in Results /\ h = mpqueue[1] /\ Len(mpqueue) \in Nat \ {0}
      /\ DOMAIN mpqueue = 1..Len(mpqueue)
      /\ DOMAIN mpqueue' = 1..Len(mpqueue)-1
      /\ \A i \in 1..Len(mpqueue)-1 : mpqueue'[i] = mpqueue[i+1]
    BY <1>1, TailFacts
<1>3. 1 \in DOMAIN mpqueue /\ h.prev \in Pending
    BY <1>2 DEF IInv, QueueIsFetched
<1>4. IsFirst(mpqueue, 1)
    BY DEF IsFirst
<1>5. Known(h.key) = h.prev
    BY <1>2, <1>3, <1>4 DEF IInv, NoResultDropped
<1>6. pst[h.key] = h.prev
    BY <1>3, <1>5 DEF Known, Pending
<1> HIDE DEF h
<1>7. pst' = [pst EXCEPT ![h.key] = h.state]
    BY <1>1, <1>6 DEF StateAfter
<1>8. \A i \in DOMAIN mpqueue' : i + 1 \in DOMAIN mpqueue /\ mpqueue'[i] = mpqueue[i+1]
    BY <1>2
<1> QED BY <1>2, <1>3, <1>6, <1>7, <1>8 DEF h

LEMMA NewsStep == IInv /\ NewsOnly /\ [Next]_vars => NewsOnly'
<1> SUFFICES ASSUME IInv, NewsOnly, [Next]_vars PROVE NewsOnly'
    OBVIOUS
<1>1. CASE UNCHANGED mpqueue
    BY <1>1 DEF NewsOnly
<1>2. ASSUME NEW k \in Keys, ExpCheck(k) \/ GetNothing(k) \/ GetPromise(k) \/ GetOther(k)
      PROVE  NewsOnly'
    <2>1. \A s \in {"expected", "available", "failed"} : Report(k, s) => NewsOnly'
        BY ReportedNews DEF EntrySt
    <2>2. \/ UNCHANGED mpqueue
          \/ \E s \in {"expected", "available", "failed"} : Report(k, s)
        BY <1>2, FindStateValues, StageLeftValues DEF ExpCheck, GetNothing, GetPromise, GetOther
    <2> QED BY <1>1, <2>1, <2>2
<1>3. CASE Receive
    BY <1>3, ReceivedNews DEF NewsOnly
<1>4. CASE Terminate
    <2>1. PICK n \in 0..Len(mpqueue) : mpqueue' = SubSeq(mpqueue, 1, n)
        BY <1>4 DEF Terminate
    <2>2. /\ mpqueue \in Seq(Results) /\ Len(mpqueue) \in Nat /\ DOMAIN mpqueue = 1..Len(mpqueue)
        BY LenProperties DEF IInv, TypeOK
    <2>3. DOMAIN mpqueue' = 1..n /\ \A i \in 1..n : i \in DOMAIN mpqueue /\ mpqueue'[i] = mpqueue[i]
        BY <2>1, <2>2, SubSeqProperties
    <2> QED BY <2>3 DEF NewsOnly
<1>5. CASE LoopExit \/ StartRound \/ UfoNext \/ UfoDone \/ ExpEnd \/ Apply \/ JobFails
    BY <1>1, <1>5
       DEF LoopExit, StartRound, UfoNext, UfoDone, ExpEnd, ExpDone, Apply, JobFails
<1>6. ASSUME NEW k \in Keys, ExpHarassment(k) \/ ExpLook(k)
      PROVE  NewsOnly'
    BY <1>1, <1>6 DEF ExpHarassment, ExpDone, ExpLook
<1>7. CASE Ask \/ AskRaises \/ Return \/ PopAvailable \/ Stop \/ Joined \/ Producers \/ UNCHANGED vars
    BY <1>1, <1>7
       DEF Ask, AskRaises, Return, PopAvailable, Stop, Joined, Producers, Keep, Renege,
           Repromise, vars
<1> QED BY <1>2, <1>3, <1>4, <1>5, <1>6, <1>7 DEF Next, Child, Parent, Finished

\* What the main process is told of the entries is news in the sense of EntryNews, for any
\* number of targets, of crawls and of promises made again, and after a kill too.
THEOREM MonitorTellsNews == Spec => TellsNews
<1> DEFINE K == [k \in Keys |-> Known(k)]
<1>1. Init => NewsOnly
    BY DEF Init, NewsOnly
<1>2. Init => Teller!Init
    <2> SUFFICES ASSUME Init PROVE Teller!Init
        OBVIOUS
    <2>1. \A k \in Keys : Known(k) \in EntrySt
        BY TypeInit DEF TypeOK, Known, EntrySt
    <2> QED BY <2>1, SameNews DEF Teller!Init
<1>3. IInv /\ NewsOnly /\ [Next]_vars => [Teller!Next]_K
    <2> SUFFICES ASSUME IInv, NewsOnly, [Next]_vars PROVE [Teller!Next]_K
        OBVIOUS
    <2>1. pst \in [Keys -> EntrySt \cup {"popped"}]
        BY DEF IInv, TypeOK
    <2>2. CASE UNCHANGED pst
        BY <2>2 DEF Known
    <2>3. CASE PopAvailable
        <3>1. PICK k \in Keys : pst[k] = "available" /\ pst' = [pst EXCEPT ![k] = "popped"]
            BY <2>3 DEF PopAvailable, Members
        <3>2. \A j \in Keys : Known(j)' = Known(j)
            BY <2>1, <3>1 DEF Known
        <3> QED BY <3>2
    <2>4. CASE Receive
        <3>1. PICK h \in Results :
                  /\ h.state # "ufo" /\ h.prev \in Pending /\ pst[h.key] = h.prev
                  /\ pst' = [pst EXCEPT ![h.key] = h.state]
            BY <2>4, ReceivedNews DEF NewsOnly
        <3>2. h.key \in Keys /\ h.state \in EntrySt
            BY DEF Results
        <3>3. Known(h.key) = h.prev /\ Known(h.key)' = h.state
            BY <2>1, <3>1, <3>2 DEF Known, Pending, EntrySt
        <3>4. \A j \in Keys \ {h.key} : Known(j)' = Known(j)
            BY <2>1, <3>1, <3>2 DEF Known
        <3>5. K' = [K EXCEPT ![h.key] = h.state]
            BY <3>2, <3>3, <3>4
        <3>6. CASE h.state = h.prev
            BY <3>2, <3>3, <3>5, <3>6
        <3>7. CASE h.state # h.prev
            <4>1. h.state \in Later(h.prev)
                BY <3>1, <3>2, <3>7, PendingNews
            <4>2. h.state \in Later(K[h.key])
                BY <3>2, <3>3, <4>1
            <4> HIDE DEF K
            <4>3. Teller!Tell(h.key, h.state)
                BY <3>5, <4>2, SameNews DEF Teller!Tell, K
            <4> QED BY <3>2, <4>3, SameNews DEF Teller!Next
        <3> QED BY <3>6, <3>7
    <2>5. CASE Child
        BY <2>2, <2>5
           DEF Child, LoopExit, StartRound, UfoNext, UfoDone, ExpEnd, ExpDone, Apply, JobFails,
               ExpHarassment, ExpLook, ExpCheck, GetNothing, GetPromise, GetOther
    <2>6. CASE Ask \/ AskRaises \/ Return \/ Stop \/ Joined \/ Terminate \/ Producers \/ UNCHANGED vars
        BY <2>2, <2>6
           DEF Ask, AskRaises, Return, Stop, Joined, Terminate, Producers, Keep, Renege,
               Repromise, vars
    <2> QED BY <2>3, <2>4, <2>5, <2>6 DEF Next, Parent, Finished
<1> QED BY <1>1, <1>2, <1>3, NewsStep, Invariant, PTL DEF Spec, TellsNews, Teller!Spec
===============================================================================

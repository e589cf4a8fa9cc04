------------------------ MODULE ConcurrencyLock_proofs ------------------------
(***************************************************************************)
(* For any number of dispatchers, files and sweeps, no more than Cap slots *)
(* that still count are held.  The argument: of the processes that have    *)
(* listed the directory after creating their file, the one that listed     *)
(* last has seen the files of all others (Chain), and a process that was   *)
(* granted its slot has counted at most Cap of the files it saw (Counted). *)
(***************************************************************************)
EXTENDS ConcurrencyLock, FiniteSetTheorems, TLAPS

Fresh == files \ stale

\* The fresh files whose owners have listed the directory since they created them.
Listed == {f \in Fresh : pc[f[1]] \in {"recount", "held"} /\ f = Mine(f[1])}

\* Names are given out in order, so no scan has met a file that is yet to come.
Known == \A p \in Proc :
  /\ \A f \in files : f[2] <= made[f[1]]
  /\ \A f \in seen[p] \cup old[p] : f[2] <= made[f[1]]

Aged == stale \subseteq files /\ written \subseteq files /\ \A p \in Proc : old[p] \cap files \subseteq stale

Chain == \A S \in SUBSET Listed : S # {} => \E f \in S : S \subseteq seen[f[1]]

Counted == \A p \in Proc : pc[p] = "held" => Cardinality(seen[p] \cap Fresh) <= Cap

Doomed == \A p \in Proc : \A f \in target[p] : pc[f[1]] = "dead"

IInv == TypeOK /\ IsFiniteSet(files) /\ Known /\ Aged /\ Chain /\ Counted /\ Doomed

-----------------------------------------------------------------------------
\* A step after which fewer fresh files are listed, by the same listings,
\* keeps the chain.
LEMMA ChainShrinks ==
  ASSUME Chain, Listed' \subseteq Listed, \A f \in Listed' : seen'[f[1]] = seen[f[1]]
  PROVE  Chain'
<1> SUFFICES ASSUME NEW S \in SUBSET Listed', S # {}
             PROVE  \E f \in S : S \subseteq seen'[f[1]]
  BY DEF Chain
<1>1. PICK f \in S : S \subseteq seen[f[1]]
  BY DEF Chain
<1>2. QED
  BY <1>1

-----------------------------------------------------------------------------
LEMMA TypeStep == TypeOK /\ [Next]_vars => TypeOK'
<1> SUFFICES ASSUME TypeOK, [Next]_vars PROVE TypeOK'
  OBVIOUS
<1> USE DEF TypeOK, Goto, Places
<1>1. ASSUME NEW p \in Proc, Acquire(p) PROVE TypeOK'
  BY <1>1 DEF Acquire, TakeNow
<1>2. ASSUME NEW p \in Proc, Retry(p) PROVE TypeOK'
  BY <1>2 DEF Retry, TakeNow
<1>3. ASSUME NEW p \in Proc, GiveUp(p) PROVE TypeOK'
  BY <1>3 DEF GiveUp, Punctual
<1>4. ASSUME NEW p \in Proc, Prune(p) PROVE TypeOK'
  BY <1>4 DEF Prune, PruneStale, Remove
<1>5. ASSUME NEW p \in Proc, List(p) PROVE TypeOK'
  BY <1>5 DEF List
<1>6. ASSUME NEW p \in Proc, Count(p) PROVE TypeOK'
  BY <1>6 DEF Count, Forget
<1>7. ASSUME NEW p \in Proc, Create(p) PROVE TypeOK'
  <2>1. made[p] + 1 \in 1..MaxFiles
    BY <1>7, BoundAssumption DEF Create
  <2>2. made' \in [Proc -> 0..MaxFiles]
    BY <1>7, <2>1 DEF Create
  <2>3. files' \subseteq File
    BY <1>7, <2>1 DEF Create, File
  <2>4. QED
    BY <1>7, <2>2, <2>3 DEF Create
<1>8. ASSUME NEW p \in Proc, Write(p) PROVE TypeOK'
  BY <1>8 DEF Write, TakeNow
<1>9. ASSUME NEW p \in Proc, CreateFails(p) PROVE TypeOK'
  BY <1>9 DEF CreateFails
<1>10. ASSUME NEW p \in Proc, Relist(p) PROVE TypeOK'
  BY <1>10 DEF Relist
<1>11. ASSUME NEW p \in Proc, Recount(p) PROVE TypeOK'
  BY <1>11 DEF Recount
<1>12. ASSUME NEW p \in Proc, BackOff(p) PROVE TypeOK'
  BY <1>12 DEF BackOff, Forget, Unlink, Remove
<1>13. ASSUME NEW p \in Proc, Release(p) PROVE TypeOK'
  BY <1>13 DEF Release, Forget, Punctual, Unlink, Remove
<1>14. ASSUME NEW p \in Proc, Sweep(p) PROVE TypeOK'
  BY <1>14 DEF Sweep, TakeNow
<1>15. ASSUME NEW p \in Proc, SweepList(p) PROVE TypeOK'
  BY <1>15 DEF SweepList, PruneStale, Remove
<1>16. ASSUME NEW p \in Proc, SweepJudge(p) PROVE TypeOK'
  BY <1>16 DEF SweepJudge
<1>17. ASSUME NEW p \in Proc, SweepUnlink(p) PROVE TypeOK'
  BY <1>17 DEF SweepUnlink, Unlink, Remove
<1>18. ASSUME NEW p \in Proc, SweepEnds(p) PROVE TypeOK'
  BY <1>18 DEF SweepEnds, Forget
<1>19. ASSUME NEW p \in Proc, DeadlinePasses(p) PROVE TypeOK'
  BY <1>19 DEF DeadlinePasses
<1>20. ASSUME NEW p \in Proc, Crash(p) PROVE TypeOK'
  BY <1>20 DEF Crash, Forget, Punctual
<1>21. ASSUME NEW f \in File, GrowsStale(f) PROVE TypeOK'
  BY <1>21 DEF GrowsStale
<1>22. CASE UNCHANGED vars
  BY <1>22 DEF vars
<1>23. QED
  BY <1>1, <1>2, <1>3, <1>4, <1>5, <1>6, <1>7, <1>8, <1>9, <1>10, <1>11, <1>12,
     <1>13, <1>14, <1>15, <1>16, <1>17, <1>18, <1>19, <1>20, <1>21, <1>22
     DEF Next, Step, Attempt

\* TypeOK: every variable keeps the type of what the code stores in it.
THEOREM TypeCorrect == Spec => []TypeOK
<1>1. Init => TypeOK
  BY BoundAssumption DEF Init, TypeOK, Places
<1>2. QED
  BY <1>1, TypeStep, PTL DEF Spec

-----------------------------------------------------------------------------
LEMMA InitInv == Init => IInv
<1> SUFFICES ASSUME Init PROVE IInv
  OBVIOUS
<1>1. TypeOK
  BY BoundAssumption DEF Init, TypeOK, Places
<1>2. IsFiniteSet(files)
  BY FS_EmptySet DEF Init
<1>3. Known /\ Aged /\ Counted /\ Doomed
  BY DEF Init, Known, Aged, Counted, Doomed
<1>4. Chain
  BY DEF Init, Chain, Listed, Fresh
<1>5. QED
  BY <1>1, <1>2, <1>3, <1>4 DEF IInv

\* The steps that neither create a file nor list the directory for a recount:
\* files may go, may grow stale, and holders may leave.
Quiet ==
  /\ files' \subseteq files
  /\ Fresh' \subseteq Fresh
  /\ made' = made
  /\ \A p \in Proc : pc'[p] \in {"recount", "held"} =>
       pc[p] \in {"recount", "held"} /\ seen'[p] = seen[p]
  /\ \A p \in Proc : pc'[p] = "held" /\ pc[p] # "held" => Cardinality(seen[p] \cap Fresh) <= Cap

LEMMA QuietKeeps ==
  ASSUME IInv, TypeOK', Quiet PROVE IsFiniteSet(files)' /\ Chain' /\ Counted'
<1>1. IsFiniteSet(files)'
  BY FS_Subset DEF IInv, Quiet
<1>2. Listed' \subseteq Listed /\ \A f \in Listed' : seen'[f[1]] = seen[f[1]]
  <2> SUFFICES ASSUME NEW f \in Listed' PROVE f \in Listed /\ seen'[f[1]] = seen[f[1]]
    OBVIOUS
  <2>1. f \in Fresh' /\ pc'[f[1]] \in {"recount", "held"} /\ f = Mine(f[1])'
    BY DEF Listed
  <2>2. f \in File /\ f[1] \in Proc
    BY <2>1 DEF Fresh, TypeOK, File
  <2>3. QED
    BY <2>1, <2>2 DEF Listed, Quiet, Mine
<1>3. Chain'
  BY <1>2, ChainShrinks DEF IInv
<1>4. Counted'
  <2> SUFFICES ASSUME NEW p \in Proc, pc'[p] = "held"
               PROVE  Cardinality(seen'[p] \cap Fresh') <= Cap
    BY DEF Counted
  <2>1. Cardinality(seen[p] \cap Fresh) <= Cap /\ seen'[p] = seen[p]
    BY DEF Quiet, IInv, Counted
  <2>2. IsFiniteSet(seen[p] \cap Fresh)
    BY FS_Subset DEF Fresh, IInv
  <2>3. seen'[p] \cap Fresh' \subseteq seen[p] \cap Fresh
    BY <2>1 DEF Quiet
  <2>4. IsFiniteSet(seen'[p] \cap Fresh') /\ Cardinality(seen'[p] \cap Fresh') <= Cardinality(seen[p] \cap Fresh)
    BY <2>2, <2>3, FS_Subset
  <2>5. Cardinality(seen'[p] \cap Fresh') \in Nat /\ Cardinality(seen[p] \cap Fresh) \in Nat
    BY <2>2, <2>4, FS_CardinalityType
  <2>6. QED
    BY <2>1, <2>4, <2>5, CapAssumption
<1>5. QED
  BY <1>1, <1>3, <1>4

LEMMA KnownStep == IInv /\ [Next]_vars => Known'
<1> SUFFICES ASSUME IInv, [Next]_vars PROVE Known'
  OBVIOUS
<1> USE DEF IInv, TypeOK, Known, Goto, File
<1>1. ASSUME NEW p \in Proc, Create(p) PROVE Known'
  <2>1. made' = [made EXCEPT ![p] = made[p] + 1] /\ \A q \in Proc : made[q] \in Nat /\ made[q] <= made'[q]
    BY <1>1, BoundAssumption DEF Create
  <2>2. \A f \in files' : f[2] <= made'[f[1]]
    BY <1>1, <2>1 DEF Create
  <2>3. \A q \in Proc : \A f \in seen[q] \cup old[q] : f[2] <= made'[f[1]]
    BY <2>1
  <2>4. QED
    BY <1>1, <2>2, <2>3 DEF Create
<1>2. ASSUME NEW p \in Proc, Acquire(p) \/ Retry(p) \/ Write(p) \/ Sweep(p) PROVE Known'
  BY <1>2 DEF Acquire, Retry, Write, Sweep, TakeNow, Aged
<1>3. ASSUME NEW p \in Proc, GiveUp(p) \/ CreateFails(p) \/ Recount(p) \/ SweepJudge(p)
                             \/ DeadlinePasses(p) PROVE Known'
  BY <1>3 DEF GiveUp, CreateFails, Recount, SweepJudge, DeadlinePasses
<1>4. ASSUME NEW p \in Proc, Count(p) \/ SweepEnds(p) \/ Crash(p) PROVE Known'
  BY <1>4 DEF Count, SweepEnds, Crash, Forget
<1>5. ASSUME NEW p \in Proc, List(p) \/ Relist(p) PROVE Known'
  BY <1>5 DEF List, Relist
<1>6. ASSUME NEW p \in Proc, Prune(p) \/ SweepList(p) PROVE Known'
  BY <1>6 DEF Prune, SweepList, PruneStale, Remove
<1>7. ASSUME NEW p \in Proc, BackOff(p) \/ Release(p) PROVE Known'
  BY <1>7 DEF BackOff, Release, Forget, Unlink, Remove
<1>8. ASSUME NEW p \in Proc, SweepUnlink(p) PROVE Known'
  BY <1>8 DEF SweepUnlink, Unlink, Remove
<1>9. ASSUME NEW f \in File, GrowsStale(f) PROVE Known'
  BY <1>9 DEF GrowsStale
<1>10. CASE UNCHANGED vars
  BY <1>10 DEF vars
<1>11. QED
  BY <1>1, <1>2, <1>3, <1>4, <1>5, <1>6, <1>7, <1>8, <1>9, <1>10 DEF Next, Step, Attempt

LEMMA AgedStep == IInv /\ [Next]_vars => Aged'
<1> SUFFICES ASSUME IInv, [Next]_vars PROVE Aged'
  OBVIOUS
<1> USE DEF IInv, TypeOK, Aged, Goto
<1>1. ASSUME NEW p \in Proc, Create(p) PROVE Aged'
  <2>1. \A q \in Proc : <<p, made[p] + 1>> \notin old[q]
    <3> SUFFICES ASSUME NEW q \in Proc, <<p, made[p] + 1>> \in old[q] PROVE FALSE
      OBVIOUS
    <3>1. made[p] + 1 <= made[p]
      BY DEF Known
    <3>2. QED
      BY <3>1
  <2>2. QED
    BY <1>1, <2>1 DEF Create
<1>2. ASSUME NEW p \in Proc, Acquire(p) \/ Retry(p) \/ Write(p) \/ Sweep(p) PROVE Aged'
  BY <1>2 DEF Acquire, Retry, Write, Sweep, TakeNow
<1>3. ASSUME NEW p \in Proc, GiveUp(p) \/ CreateFails(p) \/ Recount(p) \/ SweepJudge(p)
                             \/ DeadlinePasses(p) \/ List(p) \/ Relist(p) PROVE Aged'
  BY <1>3 DEF GiveUp, CreateFails, Recount, SweepJudge, DeadlinePasses, List, Relist
<1>4. ASSUME NEW p \in Proc, Count(p) \/ SweepEnds(p) \/ Crash(p) PROVE Aged'
  BY <1>4 DEF Count, SweepEnds, Crash, Forget
<1>5. ASSUME NEW p \in Proc, Prune(p) \/ SweepList(p) \/ SweepUnlink(p) PROVE Aged'
  BY <1>5 DEF Prune, SweepList, SweepUnlink, PruneStale, Unlink, Remove
<1>6. ASSUME NEW p \in Proc, BackOff(p) \/ Release(p) PROVE Aged'
  BY <1>6 DEF BackOff, Release, Forget, Unlink, Remove
<1>7. ASSUME NEW f \in File, GrowsStale(f) PROVE Aged'
  BY <1>7 DEF GrowsStale
<1>8. CASE UNCHANGED vars
  BY <1>8 DEF vars
<1>9. QED
  BY <1>1, <1>2, <1>3, <1>4, <1>5, <1>6, <1>7, <1>8 DEF Next, Step, Attempt

\* The dead stay dead, so a sweep's verdict does not go out of date.
LEMMA DeadStay == TypeOK /\ [Next]_vars => \A q \in Proc : pc[q] = "dead" => pc'[q] = "dead"
<1> SUFFICES ASSUME TypeOK, [Next]_vars, NEW q \in Proc, pc[q] = "dead" PROVE pc'[q] = "dead"
  OBVIOUS
<1>1. ASSUME NEW p \in Proc, NEW from \in Places \ {"dead"}, NEW to, Goto(p, from, to) PROVE pc'[q] = "dead"
  BY <1>1 DEF Goto, TypeOK
<1>2. ASSUME NEW p \in Proc, Step(p) PROVE pc'[q] = "dead"
  <2>1. CASE DeadlinePasses(p)
    BY <2>1 DEF DeadlinePasses
  <2>2. CASE Crash(p)
    BY <2>2 DEF Crash, TypeOK
  <2>3. CASE Attempt(p)
    BY <2>3, <1>1 DEF Attempt, Retry, GiveUp, Prune, List, Count, Create, Write, CreateFails, Relist,
                      Recount, BackOff, Places
  <2>4. CASE Acquire(p) \/ Release(p) \/ Sweep(p) \/ SweepList(p) \/ SweepJudge(p) \/ SweepUnlink(p)
             \/ SweepEnds(p)
    BY <2>4, <1>1 DEF Acquire, Release, Sweep, SweepList, SweepJudge, SweepUnlink, SweepEnds, Places
  <2>5. QED
    BY <1>2, <2>1, <2>2, <2>3, <2>4 DEF Step
<1>3. QED
  BY <1>2 DEF Next, GrowsStale, vars

LEMMA DoomedStep == IInv /\ [Next]_vars => Doomed'
<1> SUFFICES ASSUME IInv, [Next]_vars, NEW q \in Proc, NEW f \in target'[q] PROVE pc'[f[1]] = "dead"
  BY DEF Doomed
<1>1. \A p \in Proc : pc[p] = "dead" => pc'[p] = "dead"
  BY DeadStay DEF IInv
<1>2. ASSUME f \in target[q] PROVE pc'[f[1]] = "dead"
  BY <1>1, <1>2 DEF IInv, Doomed, TypeOK, File
<1>3. ASSUME NEW p \in Proc, SweepJudge(p) PROVE pc'[f[1]] = "dead"
  BY <1>1, <1>2, <1>3 DEF SweepJudge, ProvenDead, IInv, TypeOK, File
<1>4. ASSUME NEW p \in Proc, SweepUnlink(p) \/ Crash(p) PROVE pc'[f[1]] = "dead"
  BY <1>2, <1>4 DEF SweepUnlink, Crash, IInv, TypeOK
<1>5. CASE target' = target
  BY <1>2, <1>5
<1>6. QED
  BY <1>3, <1>4, <1>5 DEF Next, Step, Attempt, vars, GrowsStale, Acquire, Retry, GiveUp, Prune, List, Count,
     Create, Write, CreateFails, Relist, Recount, BackOff, Release, Sweep, SweepList, SweepEnds, DeadlinePasses

-----------------------------------------------------------------------------
LEMMA FilesStep == IInv /\ [Next]_vars => IsFiniteSet(files)' /\ Chain' /\ Counted'
<1> SUFFICES ASSUME IInv, [Next]_vars PROVE IsFiniteSet(files)' /\ Chain' /\ Counted'
  OBVIOUS
<1>0. TypeOK'
  BY TypeStep DEF IInv
<1> USE DEF IInv, TypeOK, Goto
<1>1. ASSUME NEW p \in Proc, Create(p) PROVE IsFiniteSet(files)' /\ Chain' /\ Counted'
  <2> DEFINE new == <<p, made[p] + 1>>
  <2>1. IsFiniteSet(files)'
    BY <1>1, FS_AddElement DEF Create
  <2>2. \A q \in Proc : new \notin seen[q]
    <3> SUFFICES ASSUME NEW q \in Proc, new \in seen[q] PROVE FALSE
      OBVIOUS
    <3>1. made[p] + 1 <= made[p]
      BY DEF Known
    <3>2. QED
      BY <3>1
  <2>3. Fresh' \subseteq Fresh \cup {new} /\ seen' = seen /\ pc' = [pc EXCEPT ![p] = "write"] /\ pc[p] = "create"
    BY <1>1 DEF Create, Fresh
  <2>4. Listed' \subseteq Listed /\ \A f \in Listed' : seen'[f[1]] = seen[f[1]]
    <3> SUFFICES ASSUME NEW f \in Listed' PROVE f \in Listed
      BY <2>3
    <3>1. f \in Fresh' /\ pc'[f[1]] \in {"recount", "held"} /\ f = Mine(f[1])' /\ f[1] \in Proc
      BY <1>0 DEF Listed, Fresh, File
    <3>2. f[1] # p /\ pc[f[1]] \in {"recount", "held"} /\ f # new
      BY <3>1, <2>3
    <3>3. made'[f[1]] = made[f[1]]
      BY <1>1, <3>1, <3>2 DEF Create
    <3>4. QED
      BY <2>3, <3>1, <3>2, <3>3 DEF Listed, Mine
  <2>5. Chain'
    BY <2>4, ChainShrinks
  <2>6. Counted'
    <3> SUFFICES ASSUME NEW q \in Proc, pc'[q] = "held"
                 PROVE  Cardinality(seen'[q] \cap Fresh') <= Cap
      BY DEF Counted
    <3>1. pc[q] = "held"
      BY <2>3
    <3>2. seen'[q] \cap Fresh' = seen[q] \cap Fresh
      BY <1>1, <2>2, <2>3 DEF Create, Fresh
    <3>3. QED
      BY <3>1, <3>2 DEF Counted
  <2>7. QED
    BY <2>1, <2>5, <2>6
<1>2. ASSUME NEW p \in Proc, Relist(p) PROVE IsFiniteSet(files)' /\ Chain' /\ Counted'
  <2>1. files' = files /\ Fresh' = Fresh /\ made' = made /\ seen'[p] = files /\ pc'[p] = "recount"
        /\ \A q \in Proc : q # p => seen'[q] = seen[q] /\ pc'[q] = pc[q]
    BY <1>2 DEF Relist, Fresh
  <2>2. Chain'
    <3> SUFFICES ASSUME NEW S \in SUBSET Listed', S # {}
                 PROVE  \E f \in S : S \subseteq seen'[f[1]]
      BY DEF Chain
    <3>1. S \subseteq files
      BY <2>1 DEF Listed, Fresh
    <3>2. CASE \E f \in S : f[1] = p
      BY <2>1, <3>1, <3>2
    <3>3. CASE \A f \in S : f[1] # p
      <4>1. \A f \in S : f[1] \in Proc
        BY <3>1 DEF File
      <4>2. S \subseteq Listed
        BY <2>1, <3>3, <4>1 DEF Listed, Mine
      <4>3. PICK f \in S : S \subseteq seen[f[1]]
        BY <4>2 DEF Chain
      <4>4. QED
        BY <2>1, <3>3, <4>1, <4>3
    <3>4. QED
      BY <3>2, <3>3
  <2>3. Counted'
    <3> SUFFICES ASSUME NEW q \in Proc, pc'[q] = "held"
                 PROVE  Cardinality(seen'[q] \cap Fresh') <= Cap
      BY DEF Counted
    <3>1. q # p
      BY <2>1
    <3>2. QED
      BY <2>1, <3>1 DEF Counted
  <2>4. QED
    BY <2>1, <2>2, <2>3
<1>3. ASSUME NEW p \in Proc, Recount(p) PROVE Quiet
  <2>1. /\ files' = files /\ Fresh' = Fresh /\ made' = made /\ seen' = seen
        /\ pc[p] = "recount" /\ \A q \in Proc : q # p => pc'[q] = pc[q]
    BY <1>3 DEF Recount, Fresh
  <2>2. ASSUME pc'[p] = "held" PROVE Cardinality(seen[p] \cap Fresh) <= Cap
    <3>1. Active(p) \subseteq files /\ seen[p] \cap Fresh \subseteq Active(p)
      BY DEF Active, Aged, Fresh
    <3>2. IsFiniteSet(Active(p)) /\ IsFiniteSet(seen[p] \cap Fresh)
      BY <3>1, FS_Subset
    <3>3. Cardinality(seen[p] \cap Fresh) <= Cardinality(Active(p))
      BY <3>1, <3>2, FS_Subset
    <3>4. ~(Cardinality(Active(p)) > Cap)
      BY <1>3, <2>2 DEF Recount
    <3>5. Cardinality(seen[p] \cap Fresh) \in Nat /\ Cardinality(Active(p)) \in Nat
      BY <3>2, FS_CardinalityType
    <3>6. QED
      BY <3>3, <3>4, <3>5, CapAssumption
  <2>3. QED
    BY <2>1, <2>2 DEF Quiet
<1>4. ASSUME NEW p \in Proc, Acquire(p) \/ Retry(p) \/ Write(p) \/ Sweep(p) PROVE Quiet
  BY <1>4 DEF Acquire, Retry, Write, Sweep, Quiet, Fresh
<1>5. ASSUME NEW p \in Proc, GiveUp(p) \/ CreateFails(p) \/ SweepJudge(p) \/ DeadlinePasses(p) \/ List(p)
      PROVE Quiet
  BY <1>5 DEF GiveUp, CreateFails, SweepJudge, DeadlinePasses, List, Quiet, Fresh
<1>6. ASSUME NEW p \in Proc, Count(p) \/ SweepEnds(p) \/ Crash(p) PROVE Quiet
  BY <1>6 DEF Count, SweepEnds, Crash, Forget, Quiet, Fresh
<1>7. ASSUME NEW p \in Proc, Prune(p) \/ SweepList(p) \/ SweepUnlink(p) PROVE Quiet
  BY <1>7 DEF Prune, SweepList, SweepUnlink, PruneStale, Unlink, Remove, Quiet, Fresh
<1>8. ASSUME NEW p \in Proc, BackOff(p) \/ Release(p) PROVE Quiet
  BY <1>8 DEF BackOff, Release, Forget, Unlink, Remove, Quiet, Fresh
<1>9. ASSUME NEW f \in File, GrowsStale(f) PROVE Quiet
  BY <1>9 DEF GrowsStale, Quiet, Fresh
<1>10. ASSUME UNCHANGED vars PROVE Quiet
  BY <1>10 DEF vars, Quiet, Fresh
<1>11. QED
  BY <1>0, <1>1, <1>2, <1>3, <1>4, <1>5, <1>6, <1>7, <1>8, <1>9, <1>10, QuietKeeps DEF Next, Step, Attempt

THEOREM Invariance == Spec => []IInv
<1>1. IInv /\ [Next]_vars => IInv'
  BY TypeStep, KnownStep, AgedStep, DoomedStep, FilesStep DEF IInv
<1>2. QED
  BY <1>1, InitInv, PTL DEF Spec

\* CapRespected: no more than Cap holders of a slot that still counts,
\* although tryAcquireOnce takes no mutex.
THEOREM CapHolds == Spec => []CapRespected
<1>1. IInv => CapRespected
  <2> SUFFICES ASSUME IInv PROVE Cardinality(Held) <= Cap
    BY DEF CapRespected
  <2>1. Held \subseteq Listed /\ Held \subseteq Fresh /\ \A f \in Held : pc[f[1]] = "held" /\ f[1] \in Proc
    BY DEF Held, Listed, Fresh, IInv, TypeOK, File
  <2>2. CASE Held = {}
    BY <2>2, FS_EmptySet, CapAssumption
  <2>3. CASE Held # {}
    <3>1. PICK f \in Held : Held \subseteq seen[f[1]]
      BY <2>1, <2>3 DEF IInv, Chain
    <3>2. IsFiniteSet(seen[f[1]] \cap Fresh)
      BY FS_Subset DEF IInv, Fresh
    <3>3. IsFiniteSet(Held) /\ Cardinality(Held) <= Cardinality(seen[f[1]] \cap Fresh)
      BY <2>1, <3>1, <3>2, FS_Subset
    <3>4. Cardinality(seen[f[1]] \cap Fresh) <= Cap
      BY <2>1 DEF IInv, Counted
    <3>5. Cardinality(Held) \in Nat /\ Cardinality(seen[f[1]] \cap Fresh) \in Nat
      BY <3>2, <3>3, FS_CardinalityType
    <3>6. QED
      BY <3>3, <3>4, <3>5, CapAssumption
  <2>4. QED
    BY <2>2, <2>3
<1>2. QED
  BY <1>1, Invariance, PTL

\* LiveSlotNotStolen: no pruneStale and no sweep takes a fresh slot away from
\* a living process.
THEOREM NotStolen == Spec => LiveSlotNotStolen
<1> DEFINE Own(f) == /\ f = Mine(f[1])
                     /\ pc[f[1]] \in {"backoff", "held"} /\ pc'[f[1]] \in {"refused", "idle"}
           Kept == \A f \in (files \ files') \ stale : pc[f[1]] # "dead" => Own(f)
<1>1. IInv /\ [Next]_vars => Kept
  <2> SUFFICES ASSUME IInv, [Next]_vars, NEW f \in files, f \notin files', f \notin stale, pc[f[1]] # "dead"
               PROVE  Own(f)
    OBVIOUS
  <2> USE DEF IInv, TypeOK, Goto
  <2>1. ASSUME NEW p \in Proc, BackOff(p) \/ Release(p) PROVE Own(f)
    BY <2>1 DEF BackOff, Release, Unlink, Remove, Mine
  <2>2. ASSUME NEW p \in Proc, Prune(p) \/ SweepList(p) PROVE FALSE
    BY <2>2 DEF Prune, SweepList, PruneStale, Remove, Aged
  <2>3. ASSUME NEW p \in Proc, SweepUnlink(p) PROVE FALSE
    BY <2>3 DEF SweepUnlink, Unlink, Remove, Doomed
  <2>4. CASE files \subseteq files'
    BY <2>4
  <2>5. QED
    BY <2>1, <2>2, <2>3, <2>4 DEF Next, Step, Attempt, vars, GrowsStale, Acquire, Retry, GiveUp, List, Count,
       Create, Write, CreateFails, Relist, Recount, Sweep, SweepJudge, SweepEnds, DeadlinePasses, Crash
<1>2. QED
  <2>1. IInv /\ [Next]_vars => [Kept]_vars
    BY <1>1
  <2>2. QED
    BY <2>1, Invariance, PTL DEF Spec, LiveSlotNotStolen
=============================================================================

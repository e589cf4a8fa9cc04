------------------------- MODULE MutationLock_proofs -------------------------
(***************************************************************************)
(* The mutation lock excludes for every set of processes, every number of  *)
(* calls and every pattern of crashes.                                     *)
(***************************************************************************)
EXTENDS MutationLock, TLAPS

USE DEF At, Goto, locals

LEMMA InitIInv == Init => IInv
  BY NobodyIsNotAProcess, CallsAreBounded
  DEF Init, IInv, TypeOK, InsideOwnsLock, CallIsNumbered, JudgesAnOwner, ReapersDiffer,
      ReapsTheDeadLock, InsidePC, ReapPC, PC, WaitPC, Stamp, NoLock

\* Every step keeps the types of the variables.
LEMMA TypeStep == IInv /\ [Next]_vars => TypeOK'
<1> SUFFICES ASSUME IInv, [Next]_vars PROVE TypeOK'
  OBVIOUS
<1> USE NobodyIsNotAProcess, CallsAreBounded
<1> USE DEF IInv, TypeOK, PC, WaitPC, ReapPC, InsidePC, Return
<1>1. ASSUME NEW p \in Proc, Call(p) PROVE TypeOK'
  BY <1>1 DEF Call
<1>2. ASSUME NEW p \in Proc, Prepare(p) \/ PrepareFails(p) \/ LinkThrows(p) PROVE TypeOK'
  BY <1>2 DEF Prepare, PrepareFails, LinkThrows
<1>3. ASSUME NEW p \in Proc, LinkLock(p) PROVE TypeOK'
  <2>1. Mine(p) \in Stamp
    BY <1>3 DEF LinkLock, Mine, Stamp, CallIsNumbered
  <2> QED
    BY <1>3, <2>1 DEF LinkLock
<1>4. ASSUME NEW p \in Proc, InspectLock(p) PROVE TypeOK'
  BY <1>4 DEF InspectLock
<1>5. ASSUME NEW p \in Proc, LinkReap(p) \/ NoReap(p) \/ CheckReap(p) PROVE TypeOK'
  <2>1. CASE LinkReap(p)
    BY <2>1 DEF LinkReap, JudgesAnOwner
  <2>2. CASE NoReap(p) \/ CheckReap(p)
    BY <2>2 DEF NoReap, CheckReap
  <2> QED BY <1>5, <2>1, <2>2
<1>6. ASSUME NEW p \in Proc, UnlinkDeadLock(p) \/ DropReap(p) \/ LockStillThere(p)
      PROVE TypeOK'
  BY <1>6 DEF UnlinkDeadLock, DropReap, LockStillThere
<1>7. ASSUME NEW p \in Proc, Spin(p) \/ GiveUp(p) PROVE TypeOK'
  BY <1>7 DEF Spin, GiveUp
<1>8. ASSUME NEW p \in Proc, Leave(p) \/ UnlockRead(p) \/ UnlockUnlink(p) PROVE TypeOK'
  BY <1>8 DEF Leave, UnlockRead, UnlockUnlink
<1>9. ASSUME NEW p \in Proc, DeadlinePasses(p) \/ Crash(p) PROVE TypeOK'
  BY <1>9 DEF DeadlinePasses, Crash
<1>10. CASE UNCHANGED vars
  BY <1>10 DEF vars
<1> QED
  BY <1>1, <1>2, <1>3, <1>4, <1>5, <1>6, <1>7, <1>8, <1>9, <1>10 DEF Next, Step

\* Every step keeps the rest of the inductive invariant.
LEMMA IInvStep == IInv /\ [Next]_vars => IInv'
<1> SUFFICES ASSUME IInv, [Next]_vars
             PROVE  /\ InsideOwnsLock' /\ CallIsNumbered' /\ JudgesAnOwner'
                    /\ ReapersDiffer' /\ ReapsTheDeadLock'
  BY TypeStep DEF IInv
<1> DEFINE Rest == /\ InsideOwnsLock /\ CallIsNumbered /\ JudgesAnOwner
                   /\ ReapersDiffer /\ ReapsTheDeadLock
<1> USE NobodyIsNotAProcess, CallsAreBounded
<1> USE DEF IInv, TypeOK, InsideOwnsLock, CallIsNumbered, JudgesAnOwner, ReapersDiffer,
            ReapsTheDeadLock, InsidePC, ReapPC, Return, Mine
<1>0. NoLock \notin Stamp /\ \A s \in Stamp : s.pid \in Proc
  BY DEF NoLock, Stamp
<1>1. ASSUME NEW p \in Proc, Call(p) PROVE Rest'
  BY <1>1 DEF Call
<1>2. ASSUME NEW p \in Proc, Prepare(p) \/ PrepareFails(p) \/ LinkThrows(p) PROVE Rest'
  BY <1>2 DEF Prepare, PrepareFails, LinkThrows
<1>3. ASSUME NEW p \in Proc, LinkLock(p) PROVE Rest'
  <2>1. CASE mlock # NoLock
    BY <1>3, <2>1 DEF LinkLock
  <2>2. CASE mlock = NoLock
    <3>1. \A q \in Proc : ~(alive[q] /\ pc[q] \in InsidePC)
      BY <1>0, <2>2 DEF NoLock
    <3>2. \A q \in Proc : /\ pc[q] # "reapUnlink"
                          /\ pc[q] = "reapCheck" => linked[q] # owner[q]
      BY <1>0, <2>2
    <3> QED
      BY <1>3, <2>2, <3>1, <3>2 DEF LinkLock
  <2> QED
    BY <2>1, <2>2
<1>4. ASSUME NEW p \in Proc, InspectLock(p) PROVE Rest'
  BY <1>4 DEF InspectLock
<1>5. ASSUME NEW p \in Proc, LinkReap(p) PROVE Rest'
  BY <1>5, <1>0 DEF LinkReap, Verdicts
<1>6. ASSUME NEW p \in Proc, NoReap(p) PROVE Rest'
  BY <1>6 DEF NoReap
<1>7. ASSUME NEW p \in Proc, CheckReap(p) PROVE Rest'
  BY <1>7 DEF CheckReap
<1>8. ASSUME NEW p \in Proc, UnlinkDeadLock(p) PROVE Rest'
  BY <1>8, <1>0 DEF UnlinkDeadLock
<1>9. ASSUME NEW p \in Proc, DropReap(p) PROVE Rest'
  BY <1>9 DEF DropReap
<1>10. ASSUME NEW p \in Proc, LockStillThere(p) \/ Spin(p) \/ GiveUp(p) PROVE Rest'
  BY <1>10 DEF LockStillThere, Spin, GiveUp
<1>11. ASSUME NEW p \in Proc, Leave(p) \/ UnlockRead(p) PROVE Rest'
  BY <1>11 DEF Leave, UnlockRead
<1>12. ASSUME NEW p \in Proc, UnlockUnlink(p) PROVE Rest'
  <2>1. mlock.pid = p /\ alive[p]
    BY <1>12 DEF UnlockUnlink
  <2>2. \A q \in Proc : q # p => ~(alive[q] /\ pc[q] \in InsidePC)
    BY <2>1
  <2>3. \A q \in Proc : /\ pc[q] # "reapUnlink"
                        /\ pc[q] = "reapCheck" => linked[q] # owner[q]
    BY <2>1
  <2>4. ReapsTheDeadLock' /\ InsideOwnsLock'
    BY <1>12, <2>2, <2>3 DEF UnlockUnlink
  <2>5. CallIsNumbered' /\ JudgesAnOwner' /\ ReapersDiffer'
    BY <1>12 DEF UnlockUnlink
  <2> QED
    BY <2>4, <2>5
<1>13. ASSUME NEW p \in Proc, DeadlinePasses(p) PROVE Rest'
  BY <1>13 DEF DeadlinePasses
<1>14. ASSUME NEW p \in Proc, Crash(p) PROVE Rest'
  BY <1>14, <1>0 DEF Crash
<1>15. CASE UNCHANGED vars
  BY <1>15 DEF vars
<1> QED
  BY <1>1, <1>2, <1>3, <1>4, <1>5, <1>6, <1>7, <1>8, <1>9, <1>10, <1>11, <1>12,
     <1>13, <1>14, <1>15 DEF Next, Step

\* The inductive invariant holds in every reachable state.
THEOREM Invariance == Spec => []IInv
  BY InitIInv, IInvStep, PTL DEF Spec

\* The variables keep their types.
THEOREM TypeCorrect == Spec => []TypeOK
<1>1. IInv => TypeOK
  BY DEF IInv
<1> QED
  BY <1>1, Invariance, PTL

\* release, renew and reclaim of live processes never overlap.
THEOREM Exclusion == Spec => []MutationExclusion
<1>1. IInv => MutationExclusion
  BY DEF IInv, InsideOwnsLock, MutationExclusion, Mine
<1> QED
  BY <1>1, Invariance, PTL

\* Only its owner takes the lock of a live process away.
THEOREM NotStolen == Spec => LiveLockNotStolen
<1> DEFINE Kept == \A p \in Proc :
      mlock.pid = p /\ alive[p] /\ mlock' # mlock =>
        pc[p] = "unlockUnlink" /\ pc'[p] = "idle"
<1>1. ASSUME IInv, [Next]_vars PROVE Kept
  <2> SUFFICES ASSUME NEW p \in Proc, mlock.pid = p, alive[p], mlock' # mlock
               PROVE  pc[p] = "unlockUnlink" /\ pc'[p] = "idle"
    OBVIOUS
  <2>1. mlock # NoLock
    BY NobodyIsNotAProcess DEF NoLock
  <2>2. PICK q \in Proc : UnlinkDeadLock(q) \/ UnlockUnlink(q)
    BY <1>1, <2>1 DEF Next, Step, vars, Call, Prepare, PrepareFails, LinkThrows, LinkLock,
       InspectLock, LinkReap, NoReap, CheckReap, DropReap, LockStillThere, Spin, GiveUp,
       Leave, UnlockRead, DeadlinePasses, Crash
  <2>3. ~UnlinkDeadLock(q)
    BY <1>1 DEF UnlinkDeadLock, IInv, ReapersDiffer, ReapsTheDeadLock, ReapPC
  <2>4. mlock.pid = q
    BY <1>1, <2>2, <2>3 DEF UnlockUnlink, IInv, InsideOwnsLock, InsidePC, Mine
  <2> QED
    BY <1>1, <2>2, <2>3, <2>4 DEF UnlockUnlink, Return, IInv, TypeOK
<1> QED
  BY <1>1, Invariance, PTL DEF Spec, LiveLockNotStolen

\* The lock file implements CrashLock, on which ConductorLease is built.
THEOREM Refinement == Spec => ImplementsCrashLock
<1> USE NobodyIsNotAProcess
<1>1. Init => Abstract!Init
  BY DEF Init, Abstract!Init, NoLock
<1>2. ASSUME IInv, [Next]_vars PROVE [Abstract!Next]_Abstract!vars
  <2> USE DEF Abstract!vars, NoLock
  <2>1. ASSUME NEW p \in Proc, LinkLock(p), mlock = NoLock PROVE Abstract!Take(p)
    BY <2>1 DEF LinkLock, Mine, Abstract!Take
  <2>2. ASSUME NEW p \in Proc, UnlinkDeadLock(p)
        PROVE  Abstract!Retire \/ UNCHANGED <<alive, mlock>>
    <3>1. mlock = owner[p] /\ ~alive[mlock.pid] /\ owner[p] \in Stamp
      BY <1>2, <2>2 DEF UnlinkDeadLock, IInv, ReapsTheDeadLock, ReapersDiffer,
         JudgesAnOwner, ReapPC
    <3> QED
      BY <2>2, <3>1 DEF UnlinkDeadLock, Abstract!Retire, Stamp
  <2>3. ASSUME NEW p \in Proc, UnlockUnlink(p)
        PROVE  Abstract!Drop(p) \/ UNCHANGED <<alive, mlock>>
    <3>1. mlock = Mine(p)
      BY <1>2, <2>3 DEF UnlockUnlink, IInv, InsideOwnsLock, InsidePC
    <3> QED
      BY <2>3, <3>1 DEF UnlockUnlink, Abstract!Drop, Mine
  <2>4. ASSUME NEW p \in Proc, Crash(p) PROVE Abstract!Die(p)
    BY <2>4 DEF Crash, Abstract!Die
  <2>5. ASSUME NEW p \in Proc,
               \/ Call(p) \/ Prepare(p) \/ PrepareFails(p) \/ LinkThrows(p)
               \/ LinkLock(p) /\ mlock # NoLock
               \/ InspectLock(p) \/ LinkReap(p) \/ NoReap(p) \/ CheckReap(p) \/ DropReap(p)
               \/ LockStillThere(p) \/ Spin(p) \/ GiveUp(p) \/ Leave(p) \/ UnlockRead(p)
               \/ DeadlinePasses(p)
        PROVE  UNCHANGED <<alive, mlock>>
    BY <2>5 DEF Call, Prepare, PrepareFails, LinkThrows, LinkLock, InspectLock, LinkReap,
       NoReap, CheckReap, DropReap, LockStillThere, Spin, GiveUp, Leave, UnlockRead,
       DeadlinePasses
  <2>6. CASE UNCHANGED vars
    BY <2>6 DEF vars
  <2> QED
    BY <1>2, <2>1, <2>2, <2>3, <2>4, <2>5, <2>6 DEF Next, Step, Abstract!Next
<1> QED
  BY <1>1, <1>2, Invariance, PTL DEF Spec, ImplementsCrashLock, Abstract!Spec
=============================================================================

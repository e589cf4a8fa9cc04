------------------------ MODULE ConductorLease_proofs ------------------------
(***************************************************************************)
(* The lease is a fencing token for every set of processes, every number   *)
(* of claims and every pattern of crashes, failed writes and reused pids.  *)
(***************************************************************************)
EXTENDS ConductorLease, TLAPS

USE DEF At, Goto

Increasing(log) == \A i, j \in DOMAIN log : i < j => log[i] < log[j]

\* The largest token of an increasing log is its last one.
LEMMA MaxSeqIsLast ==
  ASSUME NEW log \in Seq(Token), Increasing(log)
  PROVE  /\ MaxSeq(log) = IF log = <<>> THEN 0 ELSE log[Len(log)]
         /\ MaxSeq(log) \in 0..MaxClaims
         /\ \A i \in DOMAIN log : log[i] <= MaxSeq(log)
<1> USE ClaimsAreBounded DEF Token
<1> DEFINE m == IF log = <<>> THEN 0 ELSE log[Len(log)]
           S == {0} \cup Range(log)
<1>1. m \in S /\ m \in 0..MaxClaims
  BY DEF Range
<1>2. \A i \in DOMAIN log : log[i] <= m
  BY DEF Increasing
<1>3. \A y \in S : m >= y
  BY <1>1, <1>2 DEF Range
<1>4. \A x \in S : (\A y \in S : x >= y) => x = m
  <2> SUFFICES ASSUME NEW x \in S, \A y \in S : x >= y PROVE x = m
    OBVIOUS
  <2>1. x \in Int /\ m \in Int
    BY <1>1 DEF Range
  <2>2. x >= m /\ m >= x
    BY <1>1, <1>3
  <2> QED
    BY <2>1, <2>2
<1>5. Max(S) = m
  BY <1>1, <1>3, <1>4 DEF Max
<1> QED
  BY <1>1, <1>2, <1>5 DEF MaxSeq

\* A token above the largest one extends an increasing log and is its maximum.
LEMMA AppendNext ==
  ASSUME NEW log \in Seq(Token), Increasing(log), NEW t \in Token, t = MaxSeq(log) + 1
  PROVE  /\ Append(log, t) \in Seq(Token)
         /\ Increasing(Append(log, t))
         /\ MaxSeq(Append(log, t)) = t
<1> USE ClaimsAreBounded
<1>1. Append(log, t) \in Seq(Token)
  OBVIOUS
<1>2. Increasing(Append(log, t))
  BY MaxSeqIsLast DEF Increasing, Token
<1>3. Append(log, t) # <<>> /\ Append(log, t)[Len(Append(log, t))] = t
  <2>1. Len(Append(log, t)) = Len(log) + 1 /\ Append(log, t)[Len(log) + 1] = t
    OBVIOUS
  <2>2. Len(log) \in Nat /\ Len(<<>>) = 0
    OBVIOUS
  <2>3. Append(log, t) # <<>>
    BY <2>1, <2>2
  <2> QED
    BY <2>1, <2>3
<1>4. MaxSeq(Append(log, t)) = t
  BY <1>1, <1>2, <1>3, MaxSeqIsLast
<1> QED
  BY <1>1, <1>2, <1>4

LEMMA InitIInv == Init => IInv
<1>1. ASSUME Init PROVE TypeOK
  BY <1>1, NobodyIsNotAProcess, ClaimsAreBounded DEF Init, TypeOK, Lease, Absent, PC
<1>2. ASSUME Init PROVE TokensNeverReused
  BY <1>2 DEF Init, TokensNeverReused
<1>3. ASSUME Init PROVE /\ NewestClaimHolds /\ LockedOwnsLock /\ OneWriter /\ MintsTheNext
                        /\ RenewsWhatItRead /\ ActsOnWhatItRead
  BY <1>3 DEF Init, NewestClaimHolds, LockedOwnsLock, OneWriter, MintsTheNext,
     RenewsWhatItRead, ActsOnWhatItRead, Absent, LockedPC, WriterPC, MintPC
<1> QED
  BY <1>1, <1>2, <1>3 DEF IInv

LEMMA LeaseShape ==
  /\ Absent \in Lease
  /\ \A p \in Proc : Blank(p) \in Lease /\ Blank(p).kind = "blank" /\ Blank(p).pid = p
  /\ \A p \in Proc, t \in Token : Held(p, t, TRUE) \in Lease
  /\ \A l \in Lease : l.kind = "held" =>
       /\ l.pid \in Proc /\ l.token \in Token
       /\ [l EXCEPT !.fresh = TRUE] \in Lease /\ [l EXCEPT !.fresh = FALSE] \in Lease
  BY DEF Absent, Blank, Held, Lease

\* Every step keeps the types of the variables.
LEMMA TypeStep == IInv /\ [Next]_vars => TypeOK'
<1> SUFFICES ASSUME IInv, [Next]_vars PROVE TypeOK'
  OBVIOUS
<1> USE NobodyIsNotAProcess, ClaimsAreBounded DEF IInv, TypeOK
<1> DEFINE LocalsOK == /\ pc' \in [Proc -> PC]
                       /\ tok' \in [Proc -> 0..MaxClaims]
                       /\ read' \in [Proc -> Lease]
<1>r. ASSUME NEW p \in Proc, Return(p) PROVE LocalsOK
  BY <1>r, LeaseShape DEF Return, PC, LockedPC
<1>1. ASSUME NEW p \in Proc, AcquireOpen(p) PROVE TypeOK'
  BY <1>1, LeaseShape DEF AcquireOpen, PC, MintPC
<1>2. ASSUME NEW p \in Proc, MintRead(p) PROVE TypeOK'
  <2>1. MaxSeq(claimlog) \in 0..MaxClaims
    BY MaxSeqIsLast DEF TokensNeverReused, Increasing
  <2> QED
    BY <1>2, <2>1 DEF MintRead, PC, MintPC
<1>3. ASSUME NEW p \in Proc, MintAppend(p) PROVE TypeOK'
  <2>1. tok[p] \in Token
    <3>1. MaxSeq(claimlog) \in 0..MaxClaims /\ tok[p] = MaxSeq(claimlog) + 1
      BY <1>3, MaxSeqIsLast DEF MintAppend, TokensNeverReused, Increasing, MintsTheNext
    <3> QED
      BY <3>1 DEF Token
  <2>2. claimlog' \in Seq(Token)
    BY <1>3, <2>1 DEF MintAppend
  <2> QED
    BY <1>3, <2>2 DEF MintAppend, PC, MintPC
<1>4. ASSUME NEW p \in Proc, StampLease(p) PROVE TypeOK'
  <2>1. tok[p] \in Token
    BY <1>4 DEF StampLease, MintsTheNext, Token
  <2>2. lease' \in Lease
    BY <1>4, <2>1, LeaseShape DEF StampLease
  <2> QED
    BY <1>4, <1>r, <2>2 DEF StampLease
<1>5. ASSUME NEW p \in Proc, ClaimFails(p) PROVE TypeOK'
  BY <1>5, <1>r DEF ClaimFails
<1>6. ASSUME NEW p \in Proc, Release(p) \/ Renew(p) \/ Reclaim(p) PROVE TypeOK'
  <2>1. PICK l \in {"relRead", "renRead", "rcRead"}, t \in 0..MaxClaims : Enter(p, l, t)
    BY <1>6 DEF Release, Renew, Reclaim, Token
  <2> QED
    BY <2>1 DEF Enter, Lock!Take, PC, LockedPC
<1>7. ASSUME NEW p \in Proc, ReleaseRead(p) PROVE TypeOK'
  <2>1. LocalsOK
    BY <1>7, <1>r DEF ReleaseRead, PC, LockedPC
  <2> QED
    BY <1>7, <2>1 DEF ReleaseRead
<1>8. ASSUME NEW p \in Proc, ReleaseUnlink(p) PROVE TypeOK'
  BY <1>8, <1>r, LeaseShape DEF ReleaseUnlink
<1>9. ASSUME NEW p \in Proc, RenewRead(p) PROVE TypeOK'
  <2>1. LocalsOK
    BY <1>9, <1>r DEF RenewRead, PC, LockedPC
  <2> QED
    BY <1>9, <2>1 DEF RenewRead
<1>10. ASSUME NEW p \in Proc, RenewTruncate(p) PROVE TypeOK'
  BY <1>10, LeaseShape DEF RenewTruncate, PC, LockedPC
<1>11. ASSUME NEW p \in Proc, RenewWrite(p) PROVE TypeOK'
  <2>1. lease' \in Lease
    BY <1>11, LeaseShape DEF RenewWrite, RenewsWhatItRead
  <2> QED
    BY <1>11, <1>r, <2>1 DEF RenewWrite
<1>12. ASSUME NEW p \in Proc, RenewFails(p) PROVE TypeOK'
  BY <1>12, <1>r DEF RenewFails
<1>13. ASSUME NEW p \in Proc, ReclaimRead(p) PROVE TypeOK'
  <2>1. LocalsOK
    BY <1>13, <1>r DEF ReclaimRead, PC, LockedPC
  <2> QED
    BY <1>13, <2>1 DEF ReclaimRead
<1>14. ASSUME NEW p \in Proc, ReclaimUnlink(p) PROVE TypeOK'
  BY <1>14, LeaseShape DEF ReclaimUnlink, PC, LockedPC
<1>15. ASSUME NEW p \in Proc, ReclaimOpen(p) PROVE TypeOK'
  <2>1. LocalsOK
    BY <1>15, <1>r DEF ReclaimOpen, PC, MintPC
  <2>2. lease' \in Lease
    BY <1>15, LeaseShape DEF ReclaimOpen
  <2> QED
    BY <1>15, <2>1, <2>2 DEF ReclaimOpen
<1>16. ASSUME NEW p \in Proc, Unlock(p) \/ Crash(p) PROVE TypeOK'
  BY <1>16 DEF Unlock, Crash, Lock!Drop, Lock!Die, PC
<1>17. CASE RetireLock
  BY <1>17 DEF RetireLock, Lock!Retire
<1>18. CASE Age
  BY <1>18, LeaseShape DEF Age
<1>19. CASE UNCHANGED vars
  BY <1>19 DEF vars
<1> QED
  BY <1>1, <1>2, <1>3, <1>4, <1>5, <1>6, <1>7, <1>8, <1>9, <1>10, <1>11, <1>12, <1>13,
     <1>14, <1>15, <1>16, <1>17, <1>18, <1>19 DEF Next, Step

\* Every step keeps the rest of the inductive invariant.
LEMMA IInvStep == IInv /\ [Next]_vars => IInv'
<1> DEFINE Rest == /\ LockedOwnsLock /\ OneWriter /\ MintsTheNext /\ RenewsWhatItRead
                   /\ ActsOnWhatItRead
           Log == TokensNeverReused /\ NewestClaimHolds
<1> SUFFICES ASSUME IInv, [Next]_vars PROVE Rest' /\ Log'
  BY TypeStep DEF IInv
<1> USE NobodyIsNotAProcess
<1> USE DEF IInv, TypeOK, LockedPC, MintPC, WriterPC, LockedOwnsLock, OneWriter,
            MintsTheNext, RenewsWhatItRead, ActsOnWhatItRead, Matches, Return,
            NewestClaimHolds, TokensNeverReused
<1>1. ASSUME NEW p \in Proc, AcquireOpen(p) PROVE Rest' /\ Log'
  <2>1. \A q \in Proc : pc[q] \notin WriterPC
    BY <1>1 DEF AcquireOpen, Blank
  <2>2. LockedOwnsLock' /\ OneWriter' /\ MintsTheNext'
    BY <1>1, <2>1 DEF AcquireOpen
  <2>3. RenewsWhatItRead' /\ ActsOnWhatItRead'
    BY <1>1 DEF AcquireOpen
  <2> QED
    BY <1>1, <2>2, <2>3 DEF AcquireOpen, Blank
<1>2. ASSUME NEW p \in Proc, MintRead(p) PROVE Rest' /\ Log'
  BY <1>2 DEF MintRead
<1>3. ASSUME NEW p \in Proc, MintAppend(p) PROVE Rest' /\ Log'
  <2>1. lease = Blank(p) /\ tok[p] = MaxSeq(claimlog) + 1
    BY <1>3 DEF MintAppend
  <2>2. \A q \in Proc : q # p => pc[q] \notin WriterPC
    BY <2>1 DEF Blank
  <2>3. /\ tok[p] \in Token /\ MaxSeq(claimlog) \in Nat
    BY <2>1, MaxSeqIsLast, ClaimsAreBounded DEF Increasing, Token
  <2>4. MaxSeq(claimlog') = tok[p] /\ Increasing(claimlog')
    BY <1>3, <2>1, <2>3, AppendNext DEF MintAppend, Increasing
  <2>5. Log'
    BY <1>3, <2>1, <2>4 DEF MintAppend, Blank, Increasing
  <2>6. LockedOwnsLock' /\ OneWriter' /\ RenewsWhatItRead' /\ ActsOnWhatItRead'
    BY <1>3 DEF MintAppend
  <2>7. MintsTheNext'
    BY <1>3, <2>1, <2>2, <2>3, <2>4 DEF MintAppend, Token
  <2> QED
    BY <2>5, <2>6, <2>7
<1>4. ASSUME NEW p \in Proc, StampLease(p) PROVE Rest' /\ Log'
  <2>1. lease = Blank(p) /\ tok[p] = MaxSeq(claimlog)
    BY <1>4 DEF StampLease
  <2>2. \A q \in Proc : q # p => pc[q] \notin WriterPC
    BY <2>1 DEF Blank
  <2> QED
    BY <1>4, <2>1, <2>2 DEF StampLease, Held, Blank
<1>5. ASSUME NEW p \in Proc, ClaimFails(p) PROVE Rest' /\ Log'
  BY <1>5 DEF ClaimFails
<1>6. ASSUME NEW p \in Proc, Release(p) \/ Renew(p) \/ Reclaim(p) PROVE Rest' /\ Log'
  <2>1. PICK l \in {"relRead", "renRead", "rcRead"}, t \in 0..MaxClaims : Enter(p, l, t)
    BY <1>6, ClaimsAreBounded DEF Release, Renew, Reclaim, Token
  <2> QED
    BY <2>1 DEF Enter, Lock!Take
<1>7. ASSUME NEW p \in Proc, ReleaseRead(p) PROVE Rest' /\ Log'
  <2>1. CASE Matches(p)
    <3>1. LockedOwnsLock' /\ OneWriter' /\ MintsTheNext' /\ RenewsWhatItRead'
      BY <1>7, <2>1 DEF ReleaseRead
    <3>2. ActsOnWhatItRead'
      BY <1>7, <2>1 DEF ReleaseRead
    <3> QED
      BY <1>7, <2>1, <3>1, <3>2 DEF ReleaseRead
  <2>2. CASE ~Matches(p)
    <3>1. pc' = [pc EXCEPT ![p] = "unlock"]
      BY <1>7, <2>2 DEF ReleaseRead
    <3>2. LockedOwnsLock' /\ OneWriter' /\ MintsTheNext' /\ RenewsWhatItRead'
      BY <1>7, <2>2, <3>1 DEF ReleaseRead
    <3>3. ActsOnWhatItRead'
      BY <1>7, <2>2, <3>1 DEF ReleaseRead
    <3> QED
      BY <1>7, <2>2, <3>2, <3>3 DEF ReleaseRead
  <2> QED
    BY <2>1, <2>2
<1>8. ASSUME NEW p \in Proc, ReleaseUnlink(p) PROVE Rest' /\ Log'
  BY <1>8 DEF ReleaseUnlink, Absent, Blank
<1>9. ASSUME NEW p \in Proc, RenewRead(p) PROVE Rest' /\ Log'
  <2>1. CASE Matches(p)
    <3>1. LockedOwnsLock' /\ OneWriter' /\ MintsTheNext' /\ RenewsWhatItRead'
      BY <1>9, <2>1 DEF RenewRead
    <3>2. ActsOnWhatItRead'
      BY <1>9, <2>1 DEF RenewRead
    <3> QED
      BY <1>9, <2>1, <3>1, <3>2 DEF RenewRead
  <2>2. CASE ~Matches(p)
    <3>1. pc' = [pc EXCEPT ![p] = "unlock"]
      BY <1>9, <2>2 DEF RenewRead
    <3>2. LockedOwnsLock' /\ OneWriter' /\ MintsTheNext' /\ RenewsWhatItRead'
      BY <1>9, <2>2, <3>1 DEF RenewRead
    <3>3. ActsOnWhatItRead'
      BY <1>9, <2>2, <3>1 DEF RenewRead
    <3> QED
      BY <1>9, <2>2, <3>2, <3>3 DEF RenewRead
  <2> QED
    BY <2>1, <2>2
<1>10. ASSUME NEW p \in Proc, RenewTruncate(p) PROVE Rest' /\ Log'
  <2>1. lease.kind = "held" /\ lease.token = tok[p] /\ lease.token \in Token
    BY <1>10, LeaseShape DEF RenewTruncate
  <2>2. \A q \in Proc : pc[q] \notin WriterPC
    BY <2>1 DEF Blank
  <2>3. LockedOwnsLock' /\ OneWriter' /\ RenewsWhatItRead'
    BY <1>10, <2>2 DEF RenewTruncate
  <2>4. MintsTheNext'
    BY <1>10, <2>1, <2>2, ClaimsAreBounded DEF RenewTruncate, Token
  <2>5. ActsOnWhatItRead'
    BY <1>10 DEF RenewTruncate
  <2> QED
    BY <1>10, <2>3, <2>4, <2>5 DEF RenewTruncate, Blank
<1>11. ASSUME NEW p \in Proc, RenewWrite(p) PROVE Rest' /\ Log'
  <2>1. lease = Blank(p) /\ tok[p] = MaxSeq(claimlog)
    BY <1>11 DEF RenewWrite
  <2>2. \A q \in Proc : q # p => pc[q] \notin WriterPC
    BY <2>1 DEF Blank
  <2> QED
    BY <1>11, <2>1, <2>2 DEF RenewWrite, Blank
<1>12. ASSUME NEW p \in Proc, RenewFails(p) PROVE Rest' /\ Log'
  BY <1>12 DEF RenewFails
<1>13. ASSUME NEW p \in Proc, ReclaimRead(p) PROVE Rest' /\ Log'
  BY <1>13 DEF ReclaimRead, Superseded, Verdicts
<1>14. ASSUME NEW p \in Proc, ReclaimUnlink(p) PROVE Rest' /\ Log'
  BY <1>14 DEF ReclaimUnlink, Absent, Blank
<1>15. ASSUME NEW p \in Proc, ReclaimOpen(p) PROVE Rest' /\ Log'
  BY <1>15 DEF ReclaimOpen, Blank
<1>16. ASSUME NEW p \in Proc, Unlock(p) PROVE Rest' /\ Log'
  BY <1>16 DEF Unlock, Lock!Drop
<1>17. ASSUME NEW p \in Proc, Crash(p) PROVE Rest' /\ Log'
  BY <1>17 DEF Crash, Lock!Die
<1>18. CASE RetireLock
  BY <1>18 DEF RetireLock, Lock!Retire
<1>19. CASE Age
  BY <1>19 DEF Age, Blank
<1>20. CASE UNCHANGED vars
  BY <1>20 DEF vars
<1> QED
  BY <1>1, <1>2, <1>3, <1>4, <1>5, <1>6, <1>7, <1>8, <1>9, <1>10, <1>11, <1>12, <1>13,
     <1>14, <1>15, <1>16, <1>17, <1>18, <1>19, <1>20 DEF Next, Step

\* The inductive invariant holds in every reachable state.
THEOREM Invariance == Spec => []IInv
  BY InitIInv, IInvStep, PTL DEF Spec

\* The variables keep their types.
THEOREM TypeCorrect == Spec => []TypeOK
<1>1. IInv => TypeOK
  BY DEF IInv
<1> QED
  BY <1>1, Invariance, PTL

\* No fencing token is minted twice.
THEOREM NoTokenReused == Spec => []TokensNeverReused
<1>1. IInv => TokensNeverReused
  BY DEF IInv
<1> QED
  BY <1>1, Invariance, PTL

\* The token that verifies is the newest one.
THEOREM NewestHolds == Spec => []NewestClaimHolds
<1>1. IInv => NewestClaimHolds
  BY DEF IInv
<1> QED
  BY <1>1, Invariance, PTL

\* The steps that change a lease somebody holds.
LEMMA WhoChangesAHeldLease ==
  ASSUME IInv, [Next]_vars, lease.kind = "held", lease' # lease
  PROVE  \/ Age
         \/ \E p \in Proc : ReleaseUnlink(p) \/ RenewTruncate(p) \/ ReclaimUnlink(p)
<1>1. ASSUME NEW p \in Proc, AcquireOpen(p) \/ ReclaimOpen(p) PROVE FALSE
  BY <1>1 DEF AcquireOpen, ReclaimOpen
<1>2. ASSUME NEW p \in Proc, StampLease(p) \/ RenewWrite(p) PROVE FALSE
  <2>1. lease # Blank(p)
    BY DEF Blank
  <2> QED
    BY <1>2, <2>1 DEF StampLease, RenewWrite
<1>3. ASSUME NEW p \in Proc, MintRead(p) \/ MintAppend(p) \/ ClaimFails(p) PROVE FALSE
  BY <1>3 DEF MintRead, MintAppend, ClaimFails
<1>6. ASSUME NEW p \in Proc, ReleaseRead(p) \/ RenewRead(p) \/ RenewFails(p) PROVE FALSE
  BY <1>6 DEF ReleaseRead, RenewRead, RenewFails
<1>7. ASSUME NEW p \in Proc, ReclaimRead(p) \/ Unlock(p) \/ Crash(p) PROVE FALSE
  BY <1>7 DEF ReclaimRead, Unlock, Crash
<1>4. ASSUME NEW p \in Proc, Release(p) \/ Renew(p) \/ Reclaim(p) PROVE FALSE
  BY <1>4 DEF Release, Renew, Reclaim, Enter
<1>5. ~RetireLock /\ ~UNCHANGED vars
  BY DEF RetireLock, vars
<1> QED
  BY <1>1, <1>2, <1>3, <1>4, <1>5, <1>6, <1>7 DEF Next, Step

\* reclaim never takes a fresh lease away from a live process.
THEOREM NotStolen == Spec => LiveLeaseNotStolen
<1> DEFINE Kept ==
      lease.kind = "held" /\ alive[lease.pid] /\ lease.fresh =>
        \/ lease'.kind = "held" /\ lease'.token = lease.token
        \/ \E p \in Proc : /\ pc[p] \in {"relUnlink", "renTrunc"}
                           /\ pc'[p] # pc[p]
                           /\ tok[p] = lease.token
<1>1. ASSUME IInv, [Next]_vars PROVE Kept
  <2> SUFFICES ASSUME lease.kind = "held", alive[lease.pid], lease.fresh, lease' # lease
               PROVE  Kept
    OBVIOUS
  <2>1. lease \in Lease /\ pc \in [Proc -> PC]
    BY <1>1 DEF IInv, TypeOK
  <2>2. CASE Age
    BY <2>1, <2>2 DEF Age, Lease
  <2>3. ASSUME NEW p \in Proc, ReleaseUnlink(p) \/ RenewTruncate(p) PROVE Kept
    BY <1>1, <2>1, <2>3 DEF ReleaseUnlink, RenewTruncate, Return, IInv, ActsOnWhatItRead,
       Matches
  <2>4. ASSUME NEW p \in Proc, ReclaimUnlink(p) PROVE Kept
    BY <1>1, <2>4 DEF ReclaimUnlink, IInv, ActsOnWhatItRead
  <2> QED
    BY <1>1, <2>2, <2>3, <2>4, WhoChangesAHeldLease
<1> QED
  BY <1>1, Invariance, PTL DEF Spec, LiveLeaseNotStolen

\* The lease file and the claim log implement FencedLease.
THEOREM Refinement == Spec => ImplementsFencedLease
<1> DEFINE holder  == IF lease.kind = "blank" /\ At(lease.pid, "renWrite")
                      THEN tok[lease.pid] ELSE lease.token
           pending == lease.kind = "blank" /\ At(lease.pid, "stamp")
           newest  == MaxSeq(claimlog)
<1>1. Init => Fence!Init
  <2>1. <<>> \in Seq(Token) /\ Increasing(<<>>)
    BY DEF Increasing
  <2>2. MaxSeq(<<>>) = 0
    BY <2>1, MaxSeqIsLast
  <2> QED
    BY <2>2 DEF Init, Fence!Init, Absent
<1>2. ASSUME IInv, [Next]_vars PROVE [Fence!Next]_Fence!vars
  <2> USE DEF Fence!vars, Fence!Next
  <2>t. /\ lease \in Lease /\ pc \in [Proc -> PC] /\ tok \in [Proc -> 0..MaxClaims]
        /\ alive \in [Proc -> BOOLEAN]
    BY <1>2 DEF IInv, TypeOK
  <2>b. ASSUME NEW p \in Proc, pc[p] \in WriterPC PROVE lease = Blank(p)
    BY <1>2, <2>b DEF IInv, OneWriter
  <2>q. ASSUME NEW p \in Proc, UNCHANGED <<lease, alive, claimlog>>,
               pc[p] \notin {"stamp", "renWrite"}, pc'[p] \notin {"stamp", "renWrite"},
               \A q \in Proc \ {p} : pc'[q] = pc[q] /\ tok'[q] = tok[q]
        PROVE  UNCHANGED <<newest, pending, holder>>
    <3>1. lease.kind = "blank" => lease.pid \in Proc
      BY <2>t DEF Lease
    <3> QED
      BY <2>q, <3>1
  <2>1. ASSUME NEW p \in Proc, AcquireOpen(p) \/ ReclaimOpen(p)
        PROVE  UNCHANGED <<newest, pending, holder>>
    <3>1. CASE lease.kind # "absent"
      <4>1. ReclaimOpen(p) /\ Return(p)
        BY <2>1, <3>1 DEF AcquireOpen, ReclaimOpen
      <4> QED
        BY <2>q, <2>t, <3>1, <4>1 DEF ReclaimOpen, Return
    <3>2. CASE lease.kind = "absent"
      <4>1. lease' = Blank(p) /\ pc'[p] = "mintRead" /\ claimlog' = claimlog
        BY <2>1, <2>t, <3>2 DEF AcquireOpen, ReclaimOpen
      <4>2. lease.token = 0
        BY <2>t, <3>2 DEF Lease
      <4> QED
        BY <3>2, <4>1, <4>2 DEF Blank
    <3> QED
      BY <3>1, <3>2
  <2>2. ASSUME NEW p \in Proc, MintRead(p) PROVE UNCHANGED <<newest, pending, holder>>
    BY <2>2, <2>t DEF MintRead
  <2>3. ASSUME NEW p \in Proc, MintAppend(p) PROVE Fence!Mint
    <3>1. lease = Blank(p) /\ tok[p] = MaxSeq(claimlog) + 1
      BY <1>2, <2>3, <2>b DEF MintAppend, WriterPC, MintPC, IInv, MintsTheNext
    <3>2. claimlog \in Seq(Token) /\ Increasing(claimlog) /\ MaxSeq(claimlog) \in 0..MaxClaims
      BY <1>2, MaxSeqIsLast DEF IInv, TypeOK, TokensNeverReused, Increasing
    <3>3. tok[p] \in Token /\ MaxSeq(claimlog) < MaxClaims
      BY <2>t, <3>1, <3>2, ClaimsAreBounded DEF Token
    <3>4. MaxSeq(claimlog') = MaxSeq(claimlog) + 1
      BY <2>3, <3>1, <3>2, <3>3, AppendNext DEF MintAppend
    <3> QED
      BY <2>3, <2>t, <3>1, <3>3, <3>4 DEF MintAppend, Fence!Mint, Blank
  <2>4. ASSUME NEW p \in Proc, StampLease(p) PROVE Fence!Grant
    <3>1. lease = Blank(p) /\ tok[p] = MaxSeq(claimlog)
      BY <1>2, <2>4, <2>b DEF StampLease, WriterPC, MintPC, IInv, MintsTheNext
    <3> QED
      BY <2>4, <2>t, <3>1 DEF StampLease, Fence!Grant, Blank, Held
  <2>5. ASSUME NEW p \in Proc, ClaimFails(p) PROVE [Fence!Next]_Fence!vars
    <3>1. lease = Blank(p)
      BY <2>5, <2>b DEF ClaimFails, WriterPC, MintPC
    <3>2. CASE pc[p] = "stamp"
      BY <2>5, <2>t, <3>1, <3>2 DEF ClaimFails, Return, Fence!Abandon, Blank
    <3>3. CASE pc[p] = "mintAppend"
      BY <2>5, <2>t, <3>1, <3>3 DEF ClaimFails, Return, Blank
    <3> QED
      BY <2>5, <3>2, <3>3 DEF ClaimFails
  <2>6. ASSUME NEW p \in Proc, ReleaseUnlink(p) \/ ReclaimUnlink(p)
        PROVE  [Fence!Next]_Fence!vars
    <3>1. lease.kind = "held"
      BY <1>2, <2>6 DEF ReleaseUnlink, ReclaimUnlink, IInv, ActsOnWhatItRead, Matches
    <3>2. lease.token # 0
      <4>1. lease.token \in Token
        BY <2>t, <3>1, LeaseShape
      <4> QED
        BY <4>1, ClaimsAreBounded DEF Token
    <3>3. lease' = Absent => Fence!End
      BY <2>6, <3>1, <3>2 DEF ReleaseUnlink, ReclaimUnlink, Fence!End, Absent
    <3>4. lease' = lease => UNCHANGED <<newest, pending, holder>>
      BY <2>6, <3>1 DEF ReleaseUnlink, ReclaimUnlink
    <3> QED
      BY <2>6, <3>3, <3>4 DEF ReleaseUnlink, ReclaimUnlink
  <2>7. ASSUME NEW p \in Proc, RenewTruncate(p) PROVE UNCHANGED <<newest, pending, holder>>
    <3>1. lease.kind = "held" /\ lease.token = tok[p]
      BY <1>2, <2>7 DEF RenewTruncate, IInv, ActsOnWhatItRead, Matches
    <3> QED
      BY <2>7, <2>t, <3>1 DEF RenewTruncate, Blank
  <2>8. ASSUME NEW p \in Proc, RenewWrite(p) PROVE UNCHANGED <<newest, pending, holder>>
    <3>1. /\ lease = Blank(p) /\ read[p] \in Lease
          /\ read[p].kind = "held" /\ read[p].token = tok[p]
      BY <1>2, <2>8, <2>b DEF RenewWrite, WriterPC, IInv, TypeOK, RenewsWhatItRead
    <3>2. lease'.kind = "held" /\ lease'.token = tok[p]
      BY <2>8, <3>1 DEF RenewWrite, Lease
    <3> QED
      BY <2>8, <2>t, <3>1, <3>2 DEF RenewWrite, Blank
  <2>9. ASSUME NEW p \in Proc, RenewFails(p) PROVE Fence!End
    <3>1. lease = Blank(p) /\ tok[p] > 0
      BY <1>2, <2>9, <2>b DEF RenewFails, WriterPC, IInv, MintsTheNext
    <3> QED
      BY <2>9, <2>t, <3>1 DEF RenewFails, Return, Fence!End, Blank
  <2>10. ASSUME NEW p \in Proc, Release(p) \/ Renew(p) \/ Reclaim(p)
         PROVE  UNCHANGED <<newest, pending, holder>>
    <3>1. PICK l \in {"relRead", "renRead", "rcRead"}, t \in 0..MaxClaims : Enter(p, l, t)
      BY <2>10, ClaimsAreBounded DEF Release, Renew, Reclaim, Token
    <3> QED
      BY <2>t, <3>1 DEF Enter, Lock!Take
  <2>11. ASSUME NEW p \in Proc, ReleaseRead(p) \/ RenewRead(p)
         PROVE  UNCHANGED <<newest, pending, holder>>
    <3>1. pc'[p] \in {"relUnlink", "renTrunc", "unlock", "idle"}
      BY <2>11, <2>t DEF ReleaseRead, RenewRead, Return
    <3>2. \A q \in Proc \ {p} : pc'[q] = pc[q] /\ tok'[q] = tok[q]
      BY <2>11, <2>t DEF ReleaseRead, RenewRead, Return
    <3> QED
      BY <2>11, <2>q, <3>1, <3>2 DEF ReleaseRead, RenewRead
  <2>12. ASSUME NEW p \in Proc, ReclaimRead(p) \/ Unlock(p)
         PROVE  UNCHANGED <<newest, pending, holder>>
    <3>1. pc'[p] \in {"rcOpen", "rcUnlink", "unlock", "idle"}
      BY <2>12, <2>t DEF ReclaimRead, Return, Unlock
    <3>2. \A q \in Proc \ {p} : pc'[q] = pc[q] /\ tok'[q] = tok[q]
      BY <2>12, <2>t DEF ReclaimRead, Return, Unlock
    <3> QED
      BY <2>12, <2>q, <3>1, <3>2 DEF ReclaimRead, Unlock, Lock!Drop
  <2>13. ASSUME NEW p \in Proc, Crash(p) PROVE [Fence!Next]_Fence!vars
    <3>1. CASE pc[p] = "stamp"
      BY <2>13, <2>t, <2>b, <3>1 DEF Crash, Lock!Die, Fence!Abandon, Blank, WriterPC, MintPC
    <3>2. CASE pc[p] = "renWrite"
      <4>1. lease = Blank(p) /\ tok[p] > 0
        BY <1>2, <2>b, <3>2 DEF WriterPC, IInv, MintsTheNext
      <4> QED
        BY <2>13, <2>t, <3>2, <4>1 DEF Crash, Lock!Die, Fence!End, Blank
    <3>3. CASE pc[p] \notin {"stamp", "renWrite"}
      BY <2>13, <2>t, <3>3 DEF Crash, Lock!Die
    <3> QED
      BY <3>1, <3>2, <3>3
  <2>14. CASE RetireLock
    BY <2>14 DEF RetireLock, Lock!Retire
  <2>15. CASE Age
    BY <2>15, <2>t DEF Age, Lease
  <2>16. CASE UNCHANGED vars
    BY <2>16 DEF vars
  <2> QED
    BY <1>2, <2>1, <2>2, <2>3, <2>4, <2>5, <2>6, <2>7, <2>8, <2>9, <2>10, <2>11, <2>12,
       <2>13, <2>14, <2>15, <2>16 DEF Next, Step
<1> QED
  BY <1>1, <1>2, Invariance, PTL DEF Spec, ImplementsFencedLease, Fence!Spec
=============================================================================

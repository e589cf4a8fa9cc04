----------------------- MODULE TrustedController_proofs -----------------------
(***************************************************************************)
(* Main loses no commit, moves by no call that the suite refused, not past *)
(* an installed hook, not over a change of tenure, and never uncounted:    *)
(* for any number of controllers, tokens, fallbacks and any graph of       *)
(* commits.                                                                *)
(***************************************************************************)
EXTENDS TrustedController, FiniteSetTheorems, TLAPS

(***************************************************************************)
(* The inductive invariant.                                                *)
(***************************************************************************)
InGit == {"lockRef", "hook", "commit"}

\* Which route a process is on is known from where it is.
Routes ==
  \A p \in Controller :
    /\ pc[p] = "idle" => route[p] = "none"
    /\ pc[p] \in {"ensure", "broker", "token", "fallback", "ordinary"} => route[p] = "broker"
    /\ pc[p] \in {"mint", "authorize", "precommit"} => route[p] = "integrate"
    /\ pc[p] = "suite" => route[p] \in {"broker", "integrate"}
    /\ route[p] = "integrate" => hooked

\* What is handed to update-ref is a commit, the suite did not refuse it, and
\* off the ordinary route it is verified and descends from the old value.
Candidates ==
  \A p \in Controller :
    /\ pc[p] \notin {"idle", "fallback", "ordinary", "leave"} => cand[p] \in Commit
    /\ verdict[p] = "fail" => pc[p] = "leave"
    /\ pc[p] \in {"token", "authorize", "precommit"} => verdict[p] = "pass"
    /\ pc[p] \in InGit /\ route[p] # "ordinary" => verdict[p] = "pass"
    /\ \/ pc[p] \in {"suite", "token"} /\ route[p] = "broker"
       \/ pc[p] = "precommit"
       \/ pc[p] \in InGit /\ route[p] # "ordinary"
       => <<base[p], cand[p]>> \in Descends

\* From the comparison to the move, main is held still.
HoldsRef ==
  \A p \in Controller :
    pc[p] \in {"hook", "commit"} => refLock = p /\ head = base[p]

\* The rows of the ledger that no move has used up yet.
Owing == {p \in Controller :
            pc[p] = "ordinary" \/ (pc[p] \in InGit /\ route[p] = "ordinary")}

Paid == IsFiniteSet(Owing) /\ unbrokered + Cardinality(Owing) <= ledger

\* Tokens only grow, so one that was lost does not come back.
Tenures ==
  /\ holder <= newest /\ (pending => holder = 0)
  /\ \A p \in Controller :
       /\ token[p] <= newest
       /\ pc[p] \in {"idle", "mint"} => token[p] = 0
       /\ broken[p] =>
            /\ route[p] = "integrate"
            /\ token[p] # 0 /\ token[p] # holder
            /\ pending => token[p] < newest
       /\ route[p] = "integrate" /\ token[p] # 0 /\ ~broken[p] => token[p] = holder

IInv == TypeOK /\ Routes /\ Candidates /\ HoldsRef /\ Paid /\ Tenures

\* A lease that steps keeps its types.
LEMMA LeaseTyped ==
  ASSUME newest \in 0..MaxClaims, holder \in 0..MaxClaims, pending \in BOOLEAN, Lease!Next
  PROVE  newest' \in 0..MaxClaims /\ holder' \in 0..MaxClaims /\ pending' \in BOOLEAN
<1>1. CASE Lease!Mint
  BY <1>1, Bounds DEF Lease!Mint
<1>2. CASE Lease!Grant
  BY <1>2 DEF Lease!Grant
<1>3. CASE Lease!Abandon
  BY <1>3 DEF Lease!Abandon
<1>4. CASE Lease!End
  BY <1>4, Bounds DEF Lease!End
<1> QED BY <1>1, <1>2, <1>3, <1>4 DEF Lease!Next

\* What the tenure variable becomes is Boolean.
LEMMA TenureTyped == ASSUME TypeOK PROVE TenureChanges \in [Controller -> BOOLEAN]
  BY DEF TypeOK, TenureChanges

LEMMA TypeStep == ASSUME IInv, [Next]_vars PROVE TypeOK'
<1> USE DEF IInv, TypeOK, Candidates, PC, At, Goto, Set, Refuse, vars, git, lease, count, call
<1>1. CASE UNCHANGED vars
  BY <1>1
<1>2. ASSUME NEW p \in Controller, Step(p) \/ Crash(p), hooked' = hooked
      PROVE  TypeOK'
  <2>1. CASE Broker(p)
    BY <1>2, <2>1 DEF Broker
  <2>2. CASE BuildFails(p)
    BY <1>2, <2>2 DEF BuildFails
  <2>3. CASE EnsureLease(p) \/ BrokerThrows(p)
    BY <1>2, <2>3 DEF EnsureLease, BrokerThrows
  <2>4. CASE Resolve(p) \/ Suite(p) \/ ReadToken(p)
    BY <1>2, <2>4 DEF Resolve, Suite, ReadToken
  <2>5. CASE Integrate(p) \/ MintRunManifest(p) \/ Authorize(p) \/ CommitIntegration(p)
    BY <1>2, <2>5 DEF Integrate, MintRunManifest, Authorize, CommitIntegration, Authorized
  <2>6. CASE LockRef(p) \/ UpdateRefError(p) \/ Hook(p)
    BY <1>2, <2>6 DEF LockRef, UpdateRefError, Hook, Fenced
  <2>7. CASE OrdinaryLand(p)
    BY <1>2, <2>7 DEF OrdinaryLand
  <2>8. CASE CommitRef(p)
    <3>1. head' \in Commit
      BY <1>2, <2>8 DEF CommitRef
    <3>2. unbrokered' \in Nat
      BY <2>8 DEF CommitRef
    <3>3. refLock' = NoController /\ UNCHANGED <<lease, ledger, alive, call, broken>> /\ Goto(p, "leave")
      BY <2>8 DEF CommitRef
    <3> QED BY <1>2, <3>1, <3>2, <3>3
  <2>9. CASE RecordFallback(p)
    BY <1>2, <2>9, Bounds DEF RecordFallback
  <2>10. CASE Leave(p)
    <3>1. broken' \in [Controller -> BOOLEAN]
      BY <1>2, <2>10, TenureTyped DEF Leave
    <3>2. holder' \in 0..MaxClaims /\ newest' = newest /\ pending' = pending
      BY <2>10, Bounds DEF Leave, Lease!End
    <3>3. UNCHANGED <<git, count, alive>>
      BY <2>10 DEF Leave
    <3>4. Forget(p)
      BY <2>10 DEF Leave
    <3> QED BY <1>2, <3>1, <3>2, <3>3, <3>4, Bounds DEF Forget
  <2>11. CASE Crash(p)
    BY <1>2, <2>11, Bounds DEF Crash, Forget
  <2> QED BY <1>2, <2>1, <2>2, <2>3, <2>4, <2>5, <2>6, <2>7, <2>8, <2>9, <2>10, <2>11 DEF Step
<1>3. CASE LeaseMoves /\ hooked' = hooked
  <2>1. /\ newest' \in 0..MaxClaims /\ holder' \in 0..MaxClaims /\ pending' \in BOOLEAN
    BY <1>3, LeaseTyped DEF LeaseMoves
  <2>2. broken' \in [Controller -> BOOLEAN]
    BY <1>3, TenureTyped DEF LeaseMoves
  <2> QED BY <1>3, <2>1, <2>2 DEF LeaseMoves
<1>4. CASE OrdinaryCommit /\ hooked' = hooked
  BY <1>4, Nobody DEF OrdinaryCommit
<1>5. CASE InstallHook
  BY <1>5 DEF InstallHook
<1> QED BY <1>1, <1>2, <1>3, <1>4, <1>5 DEF Next

LEMMA RoutesStep == ASSUME IInv, [Next]_vars PROVE Routes'
<1> USE DEF IInv, TypeOK, Routes, InGit, At, Goto, Set, Refuse, vars, git, lease, count, call
<1>1. CASE UNCHANGED vars
  BY <1>1
<1>2. ASSUME NEW p \in Controller, Step(p) \/ Crash(p), hooked' = hooked
      PROVE  Routes'
  <2>1. CASE Broker(p)
    BY <1>2, <2>1 DEF Broker
  <2>2. CASE BuildFails(p)
    BY <1>2, <2>2 DEF BuildFails
  <2>3. CASE EnsureLease(p) \/ BrokerThrows(p)
    BY <1>2, <2>3 DEF EnsureLease, BrokerThrows
  <2>4. CASE Resolve(p) \/ Suite(p) \/ ReadToken(p)
    BY <1>2, <2>4 DEF Resolve, Suite, ReadToken
  <2>5. CASE Integrate(p) \/ MintRunManifest(p) \/ Authorize(p) \/ CommitIntegration(p)
    BY <1>2, <2>5 DEF Integrate, MintRunManifest, Authorize, CommitIntegration, Authorized
  <2>6. CASE LockRef(p) \/ UpdateRefError(p) \/ Hook(p) \/ CommitRef(p)
    BY <1>2, <2>6 DEF LockRef, UpdateRefError, Hook, CommitRef, Fenced
  <2>7. CASE RecordFallback(p) \/ OrdinaryLand(p)
    BY <1>2, <2>7 DEF RecordFallback, OrdinaryLand
  <2>8. CASE Leave(p) \/ Crash(p)
    BY <1>2, <2>8 DEF Leave, Crash, Forget, TenureChanges, Lease!End
  <2> QED BY <1>2, <2>1, <2>2, <2>3, <2>4, <2>5, <2>6, <2>7, <2>8 DEF Step
<1>3. CASE LeaseMoves /\ hooked' = hooked
  BY <1>3 DEF LeaseMoves
<1>4. CASE OrdinaryCommit /\ hooked' = hooked
  BY <1>4, Nobody DEF OrdinaryCommit
<1>5. CASE InstallHook
  BY <1>5 DEF InstallHook
<1> QED BY <1>1, <1>2, <1>3, <1>4, <1>5 DEF Next

LEMMA CandidatesStep == ASSUME IInv, [Next]_vars PROVE Candidates'
<1> USE DEF IInv, TypeOK, Candidates, Routes, InGit, At, Goto, Set, Refuse, vars, git, lease, count, call
<1>1. CASE UNCHANGED vars
  BY <1>1
<1>2. ASSUME NEW p \in Controller, Step(p) \/ Crash(p), hooked' = hooked
      PROVE  Candidates'
  <2>1. CASE Broker(p)
    BY <1>2, <2>1 DEF Broker
  <2>2. CASE BuildFails(p)
    BY <1>2, <2>2 DEF BuildFails
  <2>3. CASE EnsureLease(p) \/ BrokerThrows(p)
    BY <1>2, <2>3 DEF EnsureLease, BrokerThrows
  <2>4. CASE ReadToken(p)
    BY <1>2, <2>4 DEF ReadToken
  <2>12. CASE Suite(p)
    <3>1. \A r \in SuiteReasons : ~FallbackAllowed(r)
      BY DEF SuiteReasons, FallbackAllowed, OperationalReasons
    <3>2. CASE verdict' = Set(verdict, p, "pass")
               /\ Goto(p, IF route[p] = "integrate" THEN "authorize" ELSE "token")
      BY <1>2, <2>12, <3>2 DEF Suite
    <3>3. CASE verdict' = Set(verdict, p, "fail") /\ Goto(p, "leave")
      BY <1>2, <2>12, <3>3 DEF Suite
    <3> QED BY <2>12, <3>1, <3>2, <3>3 DEF Suite
  <2>5. CASE Integrate(p) \/ MintRunManifest(p) \/ Authorize(p) \/ CommitIntegration(p)
    BY <1>2, <2>5 DEF Integrate, MintRunManifest, Authorize, CommitIntegration, Authorized
  <2>6. CASE LockRef(p) \/ UpdateRefError(p) \/ Hook(p) \/ CommitRef(p)
    BY <1>2, <2>6 DEF LockRef, UpdateRefError, Hook, CommitRef, Fenced
  <2>7. CASE RecordFallback(p)
    BY <1>2, <2>7 DEF RecordFallback
  <2>8. CASE Leave(p) \/ Crash(p)
    BY <1>2, <2>8 DEF Leave, Crash, Forget, TenureChanges, Lease!End
  <2>9. CASE Resolve(p)
    <3>1. CASE cand[p] # head /\ <<head, cand[p]>> \in Descends /\ Goto(p, "suite")
      BY <1>2, <2>9, <3>1 DEF Resolve
    <3>2. CASE Refuse(p, "head-binding-refused")
      BY <1>2, <2>9, <3>2 DEF Resolve
    <3> QED BY <2>9, <3>1, <3>2 DEF Resolve
  <2>10. CASE OrdinaryLand(p)
    <3>1. route' = [route EXCEPT ![p] = "ordinary"] /\ pc[p] = "ordinary"
      BY <2>10 DEF OrdinaryLand
    <3>2. CASE /\ \E c \in Commit : cand' = Set(cand, p, c)
               /\ verdict' = Set(verdict, p, IF verdict[p] = "fail" THEN "fail" ELSE "none")
               /\ Goto(p, "lockRef")
      <4>1. verdict[p] # "fail"
        BY <1>2, <3>1
      <4>2. verdict' = Set(verdict, p, "none")
        BY <3>2, <4>1
      <4> QED BY <1>2, <2>10, <3>1, <3>2, <4>2 DEF OrdinaryLand
    <3>3. CASE cand[p] # NoCommit /\ Goto(p, "lockRef") /\ UNCHANGED <<cand, verdict>>
      <4>1. cand[p] \in Commit /\ verdict[p] # "fail"
        BY <1>2, <3>1, <3>3
      <4> QED BY <1>2, <2>10, <3>1, <3>3, <4>1 DEF OrdinaryLand
    <3>4. CASE Goto(p, "leave") /\ UNCHANGED <<cand, verdict>>
      BY <1>2, <2>10, <3>1, <3>4 DEF OrdinaryLand
    <3> QED BY <2>10, <3>2, <3>3, <3>4 DEF OrdinaryLand
  <2> QED BY <1>2, <2>1, <2>2, <2>3, <2>4, <2>5, <2>6, <2>7, <2>8, <2>9, <2>10, <2>12 DEF Step
<1>3. CASE LeaseMoves /\ hooked' = hooked
  BY <1>3 DEF LeaseMoves
<1>4. CASE OrdinaryCommit /\ hooked' = hooked
  BY <1>4, Nobody DEF OrdinaryCommit
<1>5. CASE InstallHook
  BY <1>5 DEF InstallHook
<1> QED BY <1>1, <1>2, <1>3, <1>4, <1>5 DEF Next

LEMMA HoldsRefStep == ASSUME IInv, [Next]_vars PROVE HoldsRef'
<1> USE DEF IInv, TypeOK, HoldsRef, At, Goto, Set, Refuse, vars, git, lease, count, call
<1>1. CASE UNCHANGED vars
  BY <1>1
<1>2. ASSUME NEW p \in Controller, Step(p) \/ Crash(p), hooked' = hooked
      PROVE  HoldsRef'
  <2>1. CASE Broker(p)
    BY <1>2, <2>1 DEF Broker
  <2>2. CASE BuildFails(p)
    BY <1>2, <2>2 DEF BuildFails
  <2>3. CASE EnsureLease(p) \/ BrokerThrows(p)
    BY <1>2, <2>3 DEF EnsureLease, BrokerThrows
  <2>4. CASE Resolve(p) \/ Suite(p) \/ ReadToken(p)
    BY <1>2, <2>4 DEF Resolve, Suite, ReadToken
  <2>5. CASE Integrate(p) \/ MintRunManifest(p) \/ Authorize(p) \/ CommitIntegration(p)
    BY <1>2, <2>5 DEF Integrate, MintRunManifest, Authorize, CommitIntegration, Authorized
  <2>6. CASE UpdateRefError(p) \/ Hook(p) \/ CommitRef(p)
    BY <1>2, <2>6 DEF UpdateRefError, Hook, CommitRef, Fenced
  <2>7. CASE RecordFallback(p) \/ OrdinaryLand(p)
    BY <1>2, <2>7 DEF RecordFallback, OrdinaryLand
  <2>8. CASE Leave(p) \/ Crash(p)
    BY <1>2, <2>8 DEF Leave, Crash, Forget, TenureChanges, Lease!End
  <2>9. CASE LockRef(p)
    <3>1. CASE refLock = NoController /\ head = base[p] /\ refLock' = p /\ Goto(p, "hook")
      BY <1>2, <2>9, <3>1, Nobody DEF LockRef
    <3>2. CASE Refuse(p, "ref-update-refused") /\ UNCHANGED refLock
      BY <1>2, <2>9, <3>2 DEF LockRef
    <3> QED BY <2>9, <3>1, <3>2 DEF LockRef
  <2> QED BY <1>2, <2>1, <2>2, <2>3, <2>4, <2>5, <2>6, <2>7, <2>8, <2>9 DEF Step
<1>3. CASE LeaseMoves /\ hooked' = hooked
  BY <1>3 DEF LeaseMoves
<1>4. CASE OrdinaryCommit /\ hooked' = hooked
  BY <1>4, Nobody DEF OrdinaryCommit
<1>5. CASE InstallHook
  BY <1>5 DEF InstallHook
<1> QED BY <1>1, <1>2, <1>3, <1>4, <1>5 DEF Next

LEMMA TenuresStep == ASSUME IInv, [Next]_vars PROVE Tenures'
<1> USE DEF IInv, TypeOK, Tenures, Routes, At, Goto, Set, Refuse, vars, git, lease, count, call
<1>1. CASE UNCHANGED vars
  BY <1>1
<1>2. ASSUME NEW p \in Controller, Step(p) \/ Crash(p), hooked' = hooked
      PROVE  Tenures'
  <2>1. CASE Broker(p)
    BY <1>2, <2>1 DEF Broker
  <2>2. CASE BuildFails(p)
    BY <1>2, <2>2 DEF BuildFails
  <2>3. CASE EnsureLease(p) \/ BrokerThrows(p)
    BY <1>2, <2>3 DEF EnsureLease, BrokerThrows
  <2>4. CASE Resolve(p) \/ Suite(p) \/ ReadToken(p)
    BY <1>2, <2>4 DEF Resolve, Suite, ReadToken
  <2>5. CASE Integrate(p) \/ MintRunManifest(p) \/ Authorize(p) \/ CommitIntegration(p)
    BY <1>2, <2>5 DEF Integrate, MintRunManifest, Authorize, CommitIntegration, Authorized
  <2>6. CASE LockRef(p) \/ UpdateRefError(p) \/ Hook(p) \/ CommitRef(p)
    BY <1>2, <2>6 DEF LockRef, UpdateRefError, Hook, CommitRef, Fenced
  <2>7. CASE RecordFallback(p) \/ OrdinaryLand(p)
    BY <1>2, <2>7 DEF RecordFallback, OrdinaryLand
  <2>8. CASE Crash(p)
    BY <1>2, <2>8 DEF Crash, Forget
  <2>9. CASE Leave(p)
    BY <1>2, <2>9 DEF Leave, Forget, TenureChanges, Lease!End
  <2> QED BY <1>2, <2>1, <2>2, <2>3, <2>4, <2>5, <2>6, <2>7, <2>8, <2>9 DEF Step
<1>3. CASE LeaseMoves /\ hooked' = hooked
  BY <1>3 DEF LeaseMoves, TenureChanges, Lease!Next, Lease!Mint, Lease!Grant, Lease!Abandon, Lease!End
<1>4. CASE OrdinaryCommit /\ hooked' = hooked
  BY <1>4, Nobody DEF OrdinaryCommit
<1>5. CASE InstallHook
  BY <1>5 DEF InstallHook
<1> QED BY <1>1, <1>2, <1>3, <1>4, <1>5 DEF Next

(***************************************************************************)
(* The ledger.                                                             *)
(***************************************************************************)
\* Whoever owes nothing new, and moves main by no ordinary route.
LEMMA OwesNoMore ==
  ASSUME TypeOK, Paid, Owing' \subseteq Owing, unbrokered' = unbrokered,
         ledger' \in {ledger, ledger + 1}
  PROVE  Paid'
<1>1. IsFiniteSet(Owing') /\ Cardinality(Owing') <= Cardinality(Owing)
  BY FS_Subset DEF Paid
<1>2. Cardinality(Owing') \in Nat /\ Cardinality(Owing) \in Nat
  BY <1>1, FS_CardinalityType DEF Paid
<1>3. ledger \in Nat /\ unbrokered \in Nat
  BY Bounds DEF TypeOK
<1> QED BY <1>1, <1>2, <1>3 DEF Paid

LEMMA PaidStep == ASSUME IInv, [Next]_vars PROVE Paid'
<1>1. TypeOK /\ Paid
  BY DEF IInv
<1> USE DEF Owing, InGit
<1>2. CASE UNCHANGED vars
  BY <1>1, <1>2, OwesNoMore DEF vars, call, count
<1>3. ASSUME NEW p \in Controller, Step(p) \/ Crash(p), hooked' = hooked PROVE Paid'
  <2> USE DEF IInv, TypeOK, Routes, At, Goto, Set, Refuse, call, count
  <2>1. CASE RecordFallback(p) /\ ledger' = ledger + 1 /\ Goto(p, "ordinary")
    <3>1. Owing' = Owing \cup {p} /\ unbrokered' = unbrokered
      BY <2>1 DEF RecordFallback
    <3> HIDE DEF Owing, InGit
    <3>2. IsFiniteSet(Owing') /\ Cardinality(Owing') \in {Cardinality(Owing), Cardinality(Owing) + 1}
      BY <3>1, FS_AddElement DEF Paid
    <3>3. Cardinality(Owing) \in Nat /\ Cardinality(Owing') \in Nat
      BY <3>2, FS_CardinalityType DEF Paid
    <3>4. unbrokered \in Nat /\ ledger \in Nat
      BY Bounds
    <3> QED BY <2>1, <3>1, <3>2, <3>3, <3>4 DEF Paid
  <2>2. CASE CommitRef(p) /\ route[p] = "ordinary"
    <3>1. p \in Owing /\ Owing' = Owing \ {p}
      BY <2>2 DEF CommitRef
    <3>2. unbrokered' = unbrokered + 1 /\ ledger' = ledger
      BY <2>2 DEF CommitRef
    <3> HIDE DEF Owing, InGit
    <3>3. IsFiniteSet(Owing') /\ Cardinality(Owing') = Cardinality(Owing) - 1
      BY <3>1, FS_RemoveElement DEF Paid
    <3>4. Cardinality(Owing) \in Nat /\ unbrokered \in Nat /\ ledger \in Nat
      BY Bounds, FS_CardinalityType DEF Paid
    <3> QED BY <3>2, <3>3, <3>4 DEF Paid
  <2>3. CASE \/ RecordFallback(p) /\ Refuse(p, "fallback-unrecordable") /\ ledger' = ledger
             \/ CommitRef(p) /\ route[p] # "ordinary"
    <3>1. Owing' \subseteq Owing /\ UNCHANGED count
      BY <2>3 DEF RecordFallback, CommitRef
    <3> QED BY <1>1, <3>1, OwesNoMore
  <2>4. CASE \/ Broker(p) \/ BuildFails(p) \/ EnsureLease(p) \/ BrokerThrows(p)
             \/ Resolve(p) \/ Suite(p) \/ ReadToken(p)
    <3>1. Owing' \subseteq Owing /\ UNCHANGED count
      BY <1>3, <2>4
      DEF Broker, BuildFails, EnsureLease, BrokerThrows, Resolve, Suite, ReadToken
    <3> QED BY <1>1, <3>1, OwesNoMore
  <2>5. CASE \/ Integrate(p) \/ MintRunManifest(p) \/ Authorize(p) \/ CommitIntegration(p)
             \/ LockRef(p) \/ UpdateRefError(p) \/ Hook(p)
    <3>1. Owing' \subseteq Owing /\ UNCHANGED count
      BY <1>3, <2>5
      DEF Integrate, MintRunManifest, Authorize, CommitIntegration, LockRef,
          UpdateRefError, Hook
    <3> QED BY <1>1, <3>1, OwesNoMore
  <2>6. CASE OrdinaryLand(p) \/ Leave(p) \/ Crash(p)
    <3>1. Owing' \subseteq Owing /\ UNCHANGED count
      BY <1>3, <2>6 DEF OrdinaryLand, Leave, Crash, Forget
    <3> QED BY <1>1, <3>1, OwesNoMore
  <2> QED BY <1>3, <2>1, <2>2, <2>3, <2>4, <2>5, <2>6 DEF Step, RecordFallback
<1>4. CASE (LeaseMoves \/ OrdinaryCommit) /\ hooked' = hooked
  BY <1>1, <1>4, OwesNoMore DEF LeaseMoves, OrdinaryCommit, call, count
<1>5. CASE InstallHook
  BY <1>1, <1>5, OwesNoMore DEF InstallHook, call, count
<1> QED BY <1>2, <1>3, <1>4, <1>5 DEF Next

(***************************************************************************)
(* The theorems.                                                           *)
(***************************************************************************)
LEMMA Initially == Init => IInv
<1> SUFFICES ASSUME Init PROVE IInv
  OBVIOUS
<1> USE DEF Init, Lease!Init
<1>1. TypeOK
  <2>1. head \in Commit /\ ledger \in 0..MaxFallbacks /\ unbrokered \in Nat
    BY Bounds, History
  <2>2. newest \in 0..MaxClaims /\ holder \in 0..MaxClaims
    BY Bounds
  <2>5. pending \in BOOLEAN
    OBVIOUS
  <2>3. /\ token \in [Controller -> 0..MaxClaims] /\ own \in [Controller -> 0..MaxClaims]
        /\ alive \in [Controller -> BOOLEAN] /\ broken \in [Controller -> BOOLEAN]
    BY Bounds
  <2>4. pc \in [Controller -> PC]
    BY DEF PC
  <2> QED BY <2>1, <2>2, <2>3, <2>4, <2>5 DEF TypeOK
<1>2. Routes /\ Candidates /\ HoldsRef
  BY DEF Routes, Candidates, HoldsRef, InGit
<1>3. Paid
  <2>1. Owing = {}
    BY DEF Owing, InGit
  <2> QED BY <2>1, FS_EmptySet DEF Paid
<1>4. Tenures
  BY DEF Tenures
<1> QED BY <1>1, <1>2, <1>3, <1>4 DEF IInv

LEMMA Inductive == IInv /\ [Next]_vars => IInv'
  BY TypeStep, RoutesStep, CandidatesStep, HoldsRefStep, PaidStep, TenuresStep DEF IInv

LEMMA Invariance == Spec => []IInv
  BY Initially, Inductive, PTL DEF Spec

(* Every variable of the ref-write model has its type.                     *)
THEOREM TypeCorrect == Spec => []TypeOK
<1>1. IInv => TypeOK
  BY DEF IInv
<1> QED BY <1>1, Invariance, PTL

(* dogfood-fallbacks.jsonl has a row for every move of main by the         *)
(* ordinary route of a broker (attemptFallback appends before it lands).   *)
THEOREM FallbacksAreCounted == Spec => []FallbacksCounted
<1>1. IInv => FallbacksCounted
  <2> SUFFICES ASSUME IInv PROVE FallbacksCounted
    OBVIOUS
  <2>1. Cardinality(Owing) \in Nat /\ unbrokered \in Nat /\ ledger \in Nat
    BY FS_CardinalityType, Bounds DEF IInv, Paid, TypeOK
  <2> QED BY <2>1 DEF IInv, Paid, FallbacksCounted
<1> QED BY <1>1, Invariance, PTL

(* Only the last step of git update-ref moves main for a call: it was      *)
(* inside git, and it held the lock of the ref.                            *)
LEMMA MovedByCommitRef ==
  ASSUME IInv, [Next]_vars, NEW p \in Controller, Moves(p)
  PROVE  CommitRef(p) /\ head' = cand[p] /\ head = base[p]
<1> USE DEF IInv, TypeOK, Moves, At, Goto, Set, Refuse
<1>1. HoldsRef /\ pc[p] = "commit" /\ pc'[p] = "leave"
  OBVIOUS
<1>2. ASSUME NEW q \in Controller, Step(q) \/ Crash(q) PROVE CommitRef(p)
  <2>1. CASE \/ Broker(q) \/ BuildFails(q) \/ EnsureLease(q) \/ BrokerThrows(q)
             \/ Resolve(q) \/ Suite(q) \/ ReadToken(q)
    BY <1>1, <2>1 DEF Broker, BuildFails, EnsureLease, BrokerThrows, Resolve, Suite, ReadToken
  <2>2. CASE \/ Integrate(q) \/ MintRunManifest(q) \/ Authorize(q) \/ CommitIntegration(q)
             \/ LockRef(q) \/ UpdateRefError(q) \/ Hook(q)
    BY <1>1, <2>2 DEF Integrate, MintRunManifest, Authorize, CommitIntegration, LockRef,
                      UpdateRefError, Hook
  <2>3. CASE RecordFallback(q) \/ OrdinaryLand(q) \/ Leave(q) \/ Crash(q)
    BY <1>1, <2>3 DEF RecordFallback, OrdinaryLand, Leave, Crash, Forget
  <2>4. CASE CommitRef(q)
    BY <1>1, <2>4 DEF CommitRef
  <2> QED BY <1>2, <2>1, <2>2, <2>3, <2>4 DEF Step
<1>3. CASE UNCHANGED vars \/ LeaseMoves \/ OrdinaryCommit \/ InstallHook
  BY <1>1, <1>3 DEF vars, LeaseMoves, OrdinaryCommit, InstallHook
<1>4. CommitRef(p)
  BY <1>2, <1>3 DEF Next
<1> QED BY <1>1, <1>4 DEF CommitRef, HoldsRef

(* fencedRefUpdate and commitIntegration move main only to a descendant of *)
(* what it is at that moment, whatever raced with them.                    *)
THEOREM LosesNothing == Spec => NothingLost
<1>1. IInv /\ [Next]_vars =>
        [\A p \in Controller :
           Moves(p) /\ route[p] # "ordinary" => <<head, head'>> \in Descends]_vars
  BY MovedByCommitRef DEF IInv, Candidates, InGit, Moves
<1> QED BY <1>1, Invariance, PTL DEF Spec, NothingLost

(* Off the ordinary route main moves only to what the suite passed in the  *)
(* same call, and a call whose suite refused its commit does not land it:  *)
(* no reason of the suite opens finish's fallback (classifyRefusal).       *)
THEOREM LandsOnlyVerified == Spec => OnlyVerified
<1>1. IInv /\ [Next]_vars =>
        [\A p \in Controller :
           Moves(p) => /\ verdict[p] # "fail"
                       /\ route[p] # "ordinary" => verdict[p] = "pass"]_vars
  BY DEF IInv, Candidates, InGit, Moves
<1> QED BY <1>1, Invariance, PTL DEF Spec, OnlyVerified

(* The hook passes an integration only in the tenure its token was read    *)
(* in: a token that the lease lost never verifies again.                   *)
THEOREM OneTenureOnly == Spec => OneTenure
<1>1. IInv /\ [Next]_vars =>
        [\A p \in Controller :
           route[p] = "integrate" /\ pc[p] = "hook" /\ pc'[p] = "commit" => ~broken[p]]_vars
  <2> SUFFICES ASSUME IInv, [Next]_vars, NEW p \in Controller,
                      route[p] = "integrate", pc[p] = "hook", pc'[p] = "commit"
               PROVE  ~broken[p]
    OBVIOUS
  <2>1. Hook(p)
    <3> USE DEF IInv, TypeOK, At, Goto, Set, Refuse
    <3>1. ASSUME NEW q \in Controller, Step(q) \/ Crash(q) PROVE Hook(p)
      <4>1. CASE \/ Broker(q) \/ BuildFails(q) \/ EnsureLease(q) \/ BrokerThrows(q)
                 \/ Resolve(q) \/ Suite(q) \/ ReadToken(q)
        BY <4>1 DEF Broker, BuildFails, EnsureLease, BrokerThrows, Resolve, Suite, ReadToken
      <4>2. CASE \/ Integrate(q) \/ MintRunManifest(q) \/ Authorize(q) \/ CommitIntegration(q)
                 \/ LockRef(q) \/ UpdateRefError(q) \/ CommitRef(q)
        BY <4>2 DEF Integrate, MintRunManifest, Authorize, CommitIntegration, LockRef,
                    UpdateRefError, CommitRef
      <4>3. CASE RecordFallback(q) \/ OrdinaryLand(q) \/ Leave(q) \/ Crash(q)
        BY <4>3 DEF RecordFallback, OrdinaryLand, Leave, Crash, Forget
      <4>4. CASE Hook(q)
        BY <4>4 DEF Hook
      <4> QED BY <3>1, <4>1, <4>2, <4>3, <4>4 DEF Step
    <3>2. CASE UNCHANGED vars \/ LeaseMoves \/ OrdinaryCommit \/ InstallHook
      BY <3>2 DEF vars, LeaseMoves, OrdinaryCommit, InstallHook
    <3> QED BY <3>1, <3>2 DEF Next
  <2>2. hooked
    BY DEF IInv, Routes
  <2>3. token[p] = holder
    BY <2>1, <2>2 DEF Hook, Fenced, IInv, TypeOK, At, Goto, Refuse
  <2> QED BY <2>3 DEF IInv, Tenures
<1> QED BY <1>1, Invariance, PTL DEF Spec, OneTenure

(* Once the hook is in place and no git is past it, no ordinary landing    *)
(* moves main any more.                                                    *)
THEOREM NoOrdinaryLanding == Spec => NoOrdinaryMove
<1>1. IInv /\ [Next]_vars => [Closed => Closed' /\ unbrokered' = unbrokered]_vars
  <2> SUFFICES ASSUME IInv, Closed, [Next]_vars
               PROVE  Closed' /\ unbrokered' = unbrokered
    OBVIOUS
  <2> USE DEF IInv, TypeOK, Closed, At, Goto, Set, Refuse, vars, count, call
  <2>1. CASE UNCHANGED vars \/ InstallHook
    BY <2>1 DEF InstallHook
  <2>2. ASSUME NEW p \in Controller, Step(p) \/ Crash(p), hooked' = hooked
        PROVE  Closed' /\ unbrokered' = unbrokered
    <3>1. CASE \/ Broker(p) \/ BuildFails(p) \/ EnsureLease(p) \/ BrokerThrows(p)
               \/ Resolve(p) \/ Suite(p) \/ ReadToken(p)
      BY <2>2, <3>1
      DEF Broker, BuildFails, EnsureLease, BrokerThrows, Resolve, Suite, ReadToken
    <3>2. CASE \/ Integrate(p) \/ MintRunManifest(p) \/ Authorize(p) \/ CommitIntegration(p)
               \/ LockRef(p) \/ UpdateRefError(p)
      BY <2>2, <3>2
      DEF Integrate, MintRunManifest, Authorize, CommitIntegration, LockRef, UpdateRefError
    <3>3. CASE RecordFallback(p) \/ OrdinaryLand(p) \/ Leave(p) \/ Crash(p)
      BY <2>2, <3>3 DEF RecordFallback, OrdinaryLand, Leave, Crash, Forget
    <3>4. CASE Hook(p)
      BY <2>2, <3>4 DEF Hook, Fenced
    <3>5. CASE CommitRef(p)
      BY <2>2, <3>5 DEF CommitRef
    <3> QED BY <2>2, <3>1, <3>2, <3>3, <3>4, <3>5 DEF Step
  <2>3. CASE (LeaseMoves \/ OrdinaryCommit) /\ hooked' = hooked
    BY <2>3 DEF LeaseMoves, OrdinaryCommit
  <2> QED BY <2>1, <2>2, <2>3 DEF Next
<1> QED BY <1>1, Invariance, PTL DEF Spec, NoOrdinaryMove
=============================================================================

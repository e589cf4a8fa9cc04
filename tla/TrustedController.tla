-------------------------- MODULE TrustedController --------------------------
(***************************************************************************)
(* The brokered route to refs/heads/main: brokerMerge and                  *)
(* brokerReleaseCommit (src/scripts/dispatch/broker-*.js) on top of the    *)
(* transports of trusted-controller.js, integrate with its acceptance      *)
(* record, and the reference-transaction hook that fences the ref.         *)
(*                                                                         *)
(* The conductor lease is used through FencedLease (ConductorLease         *)
(* implements it); git update-ref is the steps git makes: lock the ref and *)
(* compare the old value, run the hook, move the ref.                      *)
(***************************************************************************)
EXTENDS Naturals

CONSTANTS
  Controller,    \* processes that run a broker or integrate
  NoController,  \* nobody
  Commit,        \* the commits of the repository
  NoCommit,      \* null
  Root,          \* the commit main points to at first
  FirstParent,   \* FirstParent[c]: the first parent of c
  Descends,      \* <<a, c>> \in Descends: a is an ancestor of c, or c itself
  MaxClaims,     \* bound on the lease tokens minted in a behaviour
  MaxFallbacks   \* bound on the rows of the fallback ledger

ASSUME Nobody == NoController \notin Controller /\ NoCommit \notin Commit
ASSUME History == /\ Root \in Commit
                  /\ FirstParent \in [Commit -> Commit \cup {NoCommit}]
                  /\ Descends \subseteq Commit \X Commit
                  /\ \A c \in Commit : <<c, c>> \in Descends
ASSUME Bounds == MaxClaims \in Nat /\ MaxFallbacks \in Nat

VARIABLES
  head,       \* the commit refs/heads/main points to
  refLock,    \* the process whose git holds refs/heads/main.lock
  hooked,     \* is the reference-transaction hook installed?
  newest, pending, holder,   \* the conductor lease, as in FencedLease
  ledger,     \* number of rows in dogfood-fallbacks.jsonl
  unbrokered, \* history: number of moves of main by the ordinary route
  alive, pc,
  route,      \* route[p]: "broker", "integrate" or "ordinary"
  cand,       \* cand[p]: the commit to land
  seen,       \* seen[p]: main when the broker was called
  base,       \* base[p]: the old value given to update-ref
  token,      \* token[p]: the fencing token of the run, 0 for null
  own,        \* own[p]: the token the broker acquired itself, or 0
  verdict,    \* verdict[p]: what the pinned suite said of cand[p]
  broken      \* history: the lease changed hands since p read its token

lease  == <<newest, pending, holder>>
call   == <<route, cand, seen, base, token, own, verdict>>
git    == <<head, refLock>>
count  == <<ledger, unbrokered>>
vars   == <<git, hooked, lease, count, alive, pc, call, broken>>

PC == {"idle", "ensure", "broker", "suite", "token", "mint", "authorize", "precommit",
       "lockRef", "hook", "commit", "fallback", "ordinary", "leave"}

TypeOK ==
  /\ head \in Commit
  /\ refLock \in Controller \cup {NoController}
  /\ hooked \in BOOLEAN
  /\ newest \in 0..MaxClaims /\ pending \in BOOLEAN /\ holder \in 0..MaxClaims
  /\ ledger \in 0..MaxFallbacks /\ unbrokered \in Nat
  /\ alive \in [Controller -> BOOLEAN]
  /\ pc \in [Controller -> PC]
  /\ route \in [Controller -> {"none", "broker", "integrate", "ordinary"}]
  /\ cand \in [Controller -> Commit \cup {NoCommit}]
  /\ seen \in [Controller -> Commit \cup {NoCommit}]
  /\ base \in [Controller -> Commit \cup {NoCommit}]
  /\ token \in [Controller -> 0..MaxClaims]
  /\ own \in [Controller -> 0..MaxClaims]
  /\ verdict \in [Controller -> {"none", "pass", "fail"}]
  /\ broken \in [Controller -> BOOLEAN]

Lease == INSTANCE FencedLease

Init ==
  /\ head = Root
  /\ refLock = NoController
  /\ hooked = FALSE
  /\ Lease!Init
  /\ ledger = 0 /\ unbrokered = 0
  /\ alive = [p \in Controller |-> TRUE]
  /\ pc = [p \in Controller |-> "idle"]
  /\ route = [p \in Controller |-> "none"]
  /\ cand = [p \in Controller |-> NoCommit]
  /\ seen = [p \in Controller |-> NoCommit]
  /\ base = [p \in Controller |-> NoCommit]
  /\ token = [p \in Controller |-> 0]
  /\ own = [p \in Controller |-> 0]
  /\ verdict = [p \in Controller |-> "none"]
  /\ broken = [p \in Controller |-> FALSE]
-----------------------------------------------------------------------------
At(p, l) == alive[p] /\ pc[p] = l

Goto(p, l) == pc' = [pc EXCEPT ![p] = l]

Set(f, p, v) == [f EXCEPT ![p] = v]

\* The reason table: what is not listed as operational is a security or a
\* usage refusal, a reason that the table does not know included.
OperationalReasons ==
  {"ref-update-error", "no-pinned-bundle-configured", "broker-module-unavailable",
   "broker-threw", "merge-tree-unsupported"}

\* Mutant of FallbackAllowed: a check that timed out is an operational miss.
FallbackAllowedOnTimeout(r) == r \in OperationalReasons \cup {"check-timed-out"}

FallbackAllowed(r) == r \in OperationalReasons

\* finish: a broker that is refused falls back if the reason allows it; any
\* other call goes through its finally block.
Refuse(p, r) == Goto(p, IF route[p] = "broker" /\ FallbackAllowed(r) THEN "fallback" ELSE "leave")
-----------------------------------------------------------------------------
(***************************************************************************)
(* brokerMerge, brokerReleaseCommit.  The commit is built on the main the  *)
(* broker saw, or was built before and is passed in.                       *)
(***************************************************************************)
Broker(p) ==
  /\ At(p, "idle")
  /\ \E c \in Commit : cand' = Set(cand, p, c)
  /\ seen' = Set(seen, p, head)
  /\ route' = Set(route, p, "broker")
  /\ Goto(p, "ensure")
  /\ UNCHANGED <<git, lease, count, alive, base, token, own, verdict, broken>>

\* No commit is built: merge-tree is too old, or the branch does not merge.
BuildFails(p) ==
  /\ At(p, "idle")
  /\ seen' = Set(seen, p, head)
  /\ route' = Set(route, p, "broker")
  /\ \E r \in {"merge-tree-unsupported", "merge-conflict"} :
       Goto(p, IF FallbackAllowed(r) THEN "fallback" ELSE "leave")
  /\ UNCHANGED <<git, lease, count, alive, cand, base, token, own, verdict, broken>>

\* ensureLease: the broker acquired the lease, or acquire answered "held" (the
\* file is there, whether or not a live conductor is named in it), or the call
\* is refused: the mutation lock is contended, or acquire threw.
EnsureLease(p) ==
  /\ At(p, "ensure")
  /\ \/ /\ holder # 0 /\ \A q \in Controller : own[q] # holder
        /\ own' = Set(own, p, holder)
        /\ Goto(p, "broker")
     \/ Goto(p, "broker") /\ UNCHANGED own
     \/ Refuse(p, "lease-not-held") /\ UNCHANGED own
  /\ UNCHANGED <<git, lease, count, alive, route, cand, seen, base, token, verdict, broken>>

\* No bundle is configured or it is not there, the controller cannot be
\* loaded, or it threw before the suite gave its verdict.
BrokerThrows(p) ==
  /\ alive[p]
  /\ route[p] = "broker"
  /\ pc[p] \in {"broker", "suite"}
  /\ \E r \in {"no-pinned-bundle-configured", "bundle-load-failed",
               "broker-module-unavailable", "broker-threw"} : Refuse(p, r)
  /\ UNCHANGED <<git, lease, count, alive, call, broken>>

\* fencedRefUpdate binds the commit to the live head: its first parent is the
\* head and the head is its ancestor.
Resolve(p) ==
  /\ At(p, "broker")
  /\ base' = Set(base, p, head)
  /\ IF /\ cand[p] # head
        /\ FirstParent[cand[p]] = head
        /\ <<head, cand[p]>> \in Descends
     THEN Goto(p, "suite")
     ELSE Refuse(p, "head-binding-refused")
  /\ UNCHANGED <<git, lease, count, alive, route, cand, seen, token, own, verdict, broken>>

\* Why a suite refuses: its own run, the tree it ran on, the reconciliation,
\* and a code that no table lists.
SuiteReasons ==
  {"pinned-suite-failed", "result-tree-mutated-mid-run", "stale-check-result",
   "missing-required-check", "required-check-skipped", "check-failed",
   "check-timed-out", "pinned-index-require-failed"}

\* The pinned suite runs on a worktree of the commit, and its results are
\* reconciled with the expected checks: one failed, missing, stale or skipped
\* check refuses the call.
Suite(p) ==
  /\ At(p, "suite")
  /\ \/ /\ verdict' = Set(verdict, p, "pass")
        /\ Goto(p, IF route[p] = "integrate" THEN "authorize" ELSE "token")
     \/ /\ verdict' = Set(verdict, p, "fail")
        /\ \E r \in SuiteReasons : Refuse(p, r)
  /\ UNCHANGED <<git, lease, count, alive, route, cand, seen, base, token, own, broken>>

\* The transport reads the token of whoever holds the lease now.
ReadToken(p) ==
  /\ At(p, "token")
  /\ token' = Set(token, p, holder)
  /\ IF holder # 0 THEN Goto(p, "lockRef") ELSE Refuse(p, "lease-not-held")
  /\ UNCHANGED <<git, lease, count, alive, route, cand, seen, base, own, verdict, broken>>
-----------------------------------------------------------------------------
(***************************************************************************)
(* integrate: base and result are the caller's commits; the token is read  *)
(* before the suite and bound into the acceptance record.  The hook must   *)
(* be installed.                                                           *)
(***************************************************************************)
Integrate(p) ==
  /\ At(p, "idle")
  /\ hooked
  /\ \E b, c \in Commit : base' = Set(base, p, b) /\ cand' = Set(cand, p, c)
  /\ route' = Set(route, p, "integrate")
  /\ Goto(p, "mint")
  /\ UNCHANGED <<git, lease, count, alive, seen, token, own, verdict, broken>>

MintRunManifest(p) ==
  /\ At(p, "mint")
  /\ token' = Set(token, p, holder)
  /\ Goto(p, "suite")
  /\ UNCHANGED <<git, lease, count, alive, route, cand, seen, base, own, verdict, broken>>

\* authorizesIntegration: the record's token is current and the result
\* descends from its base.
Authorized(p) == /\ token[p] # 0
                 /\ token[p] = holder
                 /\ <<base[p], cand[p]>> \in Descends

Authorize(p) ==
  /\ At(p, "authorize")
  /\ IF Authorized(p) THEN Goto(p, "precommit") ELSE Refuse(p, "not-authorized")
  /\ UNCHANGED <<git, lease, count, alive, call, broken>>

\* commitIntegration: the same again and main is still the base.  Without
\* performRefUpdate it only writes a receipt.
CommitIntegration(p) ==
  /\ At(p, "precommit")
  /\ \/ Authorized(p) /\ head = base[p] /\ Goto(p, "lockRef")
     \/ Refuse(p, "not-authorized")
  /\ UNCHANGED <<git, lease, count, alive, call, broken>>
-----------------------------------------------------------------------------
(***************************************************************************)
(* git update-ref main cand base: all three routes end here.               *)
(***************************************************************************)
\* Mutant of LockRef: update-ref is not given the old value.
LockRefForced(p) ==
  /\ At(p, "lockRef")
  /\ IF refLock = NoController
     THEN refLock' = p /\ Goto(p, "hook")
     ELSE Refuse(p, "ref-update-refused") /\ UNCHANGED refLock
  /\ UNCHANGED <<head, lease, count, alive, call, broken>>

LockRef(p) ==
  /\ At(p, "lockRef")
  /\ IF refLock = NoController /\ head = base[p]
     THEN refLock' = p /\ Goto(p, "hook")
     ELSE Refuse(p, "ref-update-refused") /\ UNCHANGED refLock
  /\ UNCHANGED <<head, lease, count, alive, call, broken>>

\* spawnSync threw; a git that ran and failed is "ref-update-refused".
UpdateRefError(p) ==
  /\ At(p, "lockRef")
  /\ route[p] = "broker"
  /\ Refuse(p, "ref-update-error")
  /\ UNCHANGED <<git, lease, count, alive, call, broken>>

\* Mutant of Fenced: withControllerFence does not restore the environment.
FencedLeaks(p) == token[p] # 0 /\ token[p] = holder

\* Mutant of Fenced: any token will do.
FencedStale(p) == route[p] # "ordinary" /\ token[p] # 0

\* The ordinary route runs outside withControllerFence: no token at all.
Fenced(p) == route[p] # "ordinary" /\ token[p] # 0 /\ token[p] = holder

\* The hook in its prepared phase; a refusal aborts the transaction.
Hook(p) ==
  /\ At(p, "hook")
  /\ IF ~hooked \/ Fenced(p)
     THEN Goto(p, "commit") /\ UNCHANGED refLock
     ELSE Refuse(p, "ref-update-refused") /\ refLock' = NoController
  /\ UNCHANGED <<head, lease, count, alive, call, broken>>

CommitRef(p) ==
  /\ At(p, "commit")
  /\ head' = cand[p]
  /\ refLock' = NoController
  /\ unbrokered' = IF route[p] = "ordinary" THEN unbrokered + 1 ELSE unbrokered
  /\ Goto(p, "leave")
  /\ UNCHANGED <<lease, ledger, alive, call, broken>>
-----------------------------------------------------------------------------
\* Mutant of RecordFallback: a row that cannot be written refuses nothing.
RecordFallbackUnlogged(p) ==
  /\ At(p, "fallback")
  /\ ledger' \in {ledger, ledger + 1}
  /\ ledger' <= MaxFallbacks
  /\ Goto(p, "ordinary")
  /\ UNCHANGED <<git, lease, unbrokered, alive, call, broken>>

\* attemptFallback: the row is appended before the ordinary route is taken;
\* a ledger that cannot be written, or --no-fallback, refuses.
RecordFallback(p) ==
  /\ At(p, "fallback")
  /\ \/ /\ ledger < MaxFallbacks
        /\ ledger' = ledger + 1
        /\ Goto(p, "ordinary")
     \/ Refuse(p, "fallback-unrecordable") /\ UNCHANGED ledger
  /\ UNCHANGED <<git, lease, unbrokered, alive, call, broken>>

\* Mutant of OrdinaryLand: a null commit is handed to update-ref.
OrdinaryLandNull(p) ==
  /\ At(p, "ordinary")
  /\ route' = Set(route, p, "ordinary")
  /\ base' = Set(base, p, seen[p])
  /\ Goto(p, "lockRef")
  /\ UNCHANGED <<git, lease, count, alive, cand, seen, token, own, verdict, broken>>

\* ordinaryLand: git merge of the branch when main is checked out, update-ref
\* from the main the broker saw otherwise.  The merge is a new commit of the
\* same branch: a refusal of the branch stands for it, a pass does not.
OrdinaryLand(p) ==
  /\ At(p, "ordinary")
  /\ route' = Set(route, p, "ordinary")
  /\ \/ /\ \E c \in Commit : FirstParent[c] = head /\ cand' = Set(cand, p, c)
        /\ verdict' = Set(verdict, p, IF verdict[p] = "fail" THEN "fail" ELSE "none")
        /\ base' = Set(base, p, head)
        /\ Goto(p, "lockRef")
     \/ /\ cand[p] # NoCommit
        /\ base' = Set(base, p, seen[p])
        /\ Goto(p, "lockRef")
        /\ UNCHANGED <<cand, verdict>>
     \/ /\ cand[p] = NoCommit
        /\ Goto(p, "leave")
        /\ UNCHANGED <<cand, verdict, base>>
  /\ UNCHANGED <<git, lease, count, alive, seen, token, own, broken>>
-----------------------------------------------------------------------------
\* The history variable: a run of integrate that has its token sees the lease
\* change hands.
TenureChanges == [q \in Controller |->
  broken[q] \/ (route[q] = "integrate" /\ token[q] # 0 /\ holder' # holder)]

\* What a call keeps in memory goes with the call.
Forget(p) ==
  /\ pc' = Set(pc, p, "idle")
  /\ route' = Set(route, p, "none")
  /\ cand' = Set(cand, p, NoCommit)
  /\ seen' = Set(seen, p, NoCommit)
  /\ base' = Set(base, p, NoCommit)
  /\ token' = Set(token, p, 0)
  /\ own' = Set(own, p, 0)
  /\ verdict' = Set(verdict, p, "none")

\* finally: a broker releases the lease it acquired, unless it was superseded.
Leave(p) ==
  /\ At(p, "leave")
  /\ IF own[p] # 0 /\ own[p] = holder THEN Lease!End ELSE UNCHANGED lease
  /\ broken' = Set(TenureChanges, p, FALSE)
  /\ Forget(p)
  /\ UNCHANGED <<git, count, alive>>

\* acquire, release, renew and reclaim of every process that uses the lease.
LeaseMoves ==
  /\ Lease!Next
  /\ broken' = TenureChanges
  /\ UNCHANGED <<git, count, alive, pc, call>>

\* Without the hook anybody commits on main.
OrdinaryCommit ==
  /\ ~hooked
  /\ refLock = NoController
  /\ \E c \in Commit : FirstParent[c] = head /\ head' = c
  /\ UNCHANGED <<refLock, lease, count, alive, pc, call, broken>>

\* installReferenceTransactionHook, while any of the others is under way.
InstallHook ==
  /\ ~hooked
  /\ hooked' = TRUE
  /\ UNCHANGED <<git, lease, count, alive, pc, call, broken>>

\* A process dies with its git: the lock file of the ref and the lease it
\* acquired stay.
Crash(p) ==
  /\ alive[p]
  /\ alive' = Set(alive, p, FALSE)
  /\ broken' = Set(broken, p, FALSE)
  /\ Forget(p)
  /\ UNCHANGED <<git, lease, count>>

Step(p) ==
  \/ Broker(p) \/ BuildFails(p) \/ EnsureLease(p) \/ BrokerThrows(p) \/ Resolve(p)
  \/ Suite(p) \/ ReadToken(p)
  \/ Integrate(p) \/ MintRunManifest(p) \/ Authorize(p) \/ CommitIntegration(p)
  \/ LockRef(p) \/ UpdateRefError(p) \/ Hook(p) \/ CommitRef(p)
  \/ RecordFallback(p) \/ OrdinaryLand(p) \/ Leave(p)

Next == \/ /\ \/ \E p \in Controller : Step(p) \/ Crash(p)
              \/ LeaseMoves
              \/ OrdinaryCommit
           /\ UNCHANGED hooked
        \/ InstallHook

Spec == Init /\ [][Next]_vars
-----------------------------------------------------------------------------
\* The process whose git moves main in this step.
Moves(p) == pc[p] = "commit" /\ pc'[p] = "leave"

\* The brokered transports and integrate never lose a commit: however many
\* brokers, fallbacks and ordinary commits race between the read of main and
\* the compare-and-swap, the new head descends from the one it replaces.
NothingLost ==
  [][\A p \in Controller :
       Moves(p) /\ route[p] # "ordinary" => <<head, head'>> \in Descends]_vars

\* Off the ordinary route main moves only to what the suite passed in the same
\* call; and a call whose suite refused its commit lands it by none of its own
\* steps, whatever reason the suite gave and whatever raced with it: its own
\* fallback is closed.  (A broker keeps no memory of a refusal: another call
\* that meets an operational miss, or a person, may land that commit later.)
OnlyVerified ==
  [][\A p \in Controller :
       Moves(p) => /\ verdict[p] # "fail"
                   /\ route[p] # "ordinary" => verdict[p] = "pass"]_vars

\* The ledger never counts fewer fallbacks than there were un-brokered moves
\* of main, crashes between the two included: "ZERO fallbacks" is a proof.
FallbacksCounted == unbrokered <= ledger

\* When the hook lets integrate move main, the lease has not changed hands
\* since its token was read: the suite ran and the ref is locked in one tenure.
OneTenure ==
  [][\A p \in Controller :
       route[p] = "integrate" /\ pc[p] = "hook" /\ pc'[p] = "commit" => ~broken[p]]_vars

\* Once the hook is installed, and the git that was past its prepared phase
\* then is done, the ordinary route never moves main again: the fallback of a
\* broker whose lease and suite were fine is aborted as well, whoever holds
\* the lease and whatever was decided before the installation.
Closed == hooked /\ \A p \in Controller : ~(pc[p] = "commit" /\ route[p] = "ordinary")
NoOrdinaryMove == [][Closed => Closed' /\ unbrokered' = unbrokered]_vars
=============================================================================

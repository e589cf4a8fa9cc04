---------------------------- MODULE MutationLock ----------------------------
(***************************************************************************)
(* withMutationLock of src/scripts/dispatch/conductor-lease.js: the lock   *)
(* file that serializes release, renew and reclaim between processes.      *)
(*                                                                         *)
(* The lock is published by link(2), so whoever finds it also finds its    *)
(* owner's stamp [pid, nonce].  A lock whose owner is proven dead is       *)
(* retired through a second link, <lock>.<nonce>.reap, which only one      *)
(* contender can create.  Every file-system call is one step; a process    *)
(* may die between any two of them and never comes back.                   *)
(***************************************************************************)
EXTENDS Naturals

CONSTANTS Proc,        \* processes that mutate the lease of one SP-id
          NoProc,      \* nobody
          MaxCalls,    \* calls of withMutationLock per process
          PidsReused   \* may the pid of a dead process be in use again?

ASSUME NobodyIsNotAProcess == NoProc \notin Proc
ASSUME CallsAreBounded == MaxCalls \in Nat
ASSUME PidsReusedIsBoolean == PidsReused \in BOOLEAN

(***************************************************************************)
(* A stamp stands for the JSON {pid, ts, nonce}.  A nonce is 12 random     *)
(* bytes drawn once per call; here it is the pair of the process and the   *)
(* number of its call.                                                     *)
(***************************************************************************)
Stamp  == [pid : Proc, nonce : 1..MaxCalls]
NoLock == [pid |-> NoProc, nonce |-> 0]

VARIABLES
  alive,    \* alive[p]: p has not died
  pc,       \* pc[p]: the file-system call p makes next
  calls,    \* calls[p]: how many times p called withMutationLock
  mlock,    \* the stamp in <SP>.mutation.lock, or NoLock
  reaps,    \* the stamps whose .reap link exists
  owner,    \* owner[p]: the stamp p read in the lock it could not take
  linked,   \* linked[p]: the stamp in the .reap link p created
  retired,  \* retired[p]: p's reclaimDeadGeneration unlinked the lock
  late      \* late[p]: the deadline of p's call has passed

locals == <<owner, linked, retired, late>>
vars == <<alive, pc, calls, mlock, reaps, owner, linked, retired, late>>

WaitPC   == {"prepare", "link", "inspect", "judge", "deadline"}
ReapPC   == {"reapCheck", "reapUnlink", "reapDrop"}
InsidePC == {"critical", "unlockRead", "unlockUnlink"}
PC == {"idle", "reapExists"} \cup WaitPC \cup ReapPC \cup InsidePC

TypeOK ==
  /\ alive \in [Proc -> BOOLEAN]
  /\ pc \in [Proc -> PC]
  /\ calls \in [Proc -> 0..MaxCalls]
  /\ mlock \in Stamp \cup {NoLock}
  /\ reaps \subseteq Stamp
  /\ owner \in [Proc -> Stamp \cup {NoLock}]
  /\ linked \in [Proc -> Stamp \cup {NoLock}]
  /\ retired \in [Proc -> BOOLEAN]
  /\ late \in [Proc -> BOOLEAN]

Init ==
  /\ alive = [p \in Proc |-> TRUE]
  /\ pc = [p \in Proc |-> "idle"]
  /\ calls = [p \in Proc |-> 0]
  /\ mlock = NoLock
  /\ reaps = {}
  /\ owner = [p \in Proc |-> NoLock]
  /\ linked = [p \in Proc |-> NoLock]
  /\ retired = [p \in Proc |-> FALSE]
  /\ late = [p \in Proc |-> FALSE]
-----------------------------------------------------------------------------
At(p, l) == alive[p] /\ pc[p] = l

Goto(p, l) == pc' = [pc EXCEPT ![p] = l]

Mine(p) == [pid |-> p, nonce |-> calls[p]]

\* What kill(pid, 0) may answer.  Only ESRCH proves death; EPERM does not.
Verdicts(p) == IF alive[p] THEN {"live", "indeterminate"}
               ELSE IF PidsReused THEN {"dead", "live", "indeterminate"}
               ELSE {"dead"}

\* The locals of a call are gone when it returns.
Return(p) ==
  /\ Goto(p, "idle")
  /\ owner' = [owner EXCEPT ![p] = NoLock]
  /\ linked' = [linked EXCEPT ![p] = NoLock]
  /\ retired' = [retired EXCEPT ![p] = FALSE]
  /\ late' = [late EXCEPT ![p] = FALSE]
-----------------------------------------------------------------------------
Call(p) ==
  /\ At(p, "idle")
  /\ calls[p] < MaxCalls
  /\ calls' = [calls EXCEPT ![p] = @ + 1]
  /\ Goto(p, "prepare")
  /\ UNCHANGED <<alive, mlock, reaps, locals>>

\* The stamp is written to a file of its own before it is linked.
Prepare(p) ==
  /\ At(p, "prepare")
  /\ Goto(p, "link")
  /\ UNCHANGED <<alive, calls, mlock, reaps, locals>>

\* The private file could not be written until the deadline.
PrepareFails(p) ==
  /\ At(p, "prepare")
  /\ late[p]
  /\ Return(p)
  /\ UNCHANGED <<alive, calls, mlock, reaps>>

\* Mutant of LinkLock: rename(2) replaces a lock that is there.
LinkLockRenames(p) ==
  /\ At(p, "link")
  /\ mlock' = Mine(p)
  /\ Goto(p, "critical")
  /\ UNCHANGED <<alive, calls, reaps, locals>>

LinkLock(p) ==
  /\ At(p, "link")
  /\ IF mlock = NoLock
     THEN mlock' = Mine(p) /\ Goto(p, "critical")
     ELSE Goto(p, "inspect") /\ UNCHANGED mlock
  /\ UNCHANGED <<alive, calls, reaps, locals>>

\* link(2) failed with something else than EEXIST: the call throws.
LinkThrows(p) ==
  /\ At(p, "link")
  /\ Return(p)
  /\ UNCHANGED <<alive, calls, mlock, reaps>>

\* The lock may have gone since link(2) refused it (ENOENT).
InspectLock(p) ==
  /\ At(p, "inspect")
  /\ IF mlock = NoLock
     THEN Goto(p, "link") /\ UNCHANGED owner
     ELSE owner' = [owner EXCEPT ![p] = mlock] /\ Goto(p, "judge")
  /\ UNCHANGED <<alive, calls, mlock, reaps, linked, retired, late>>

\* Mutant of LinkReap: one more contender may retire the same dead owner.
LinkReapShared(p) ==
  /\ At(p, "judge")
  /\ "dead" \in Verdicts(owner[p].pid)
  /\ mlock # NoLock
  /\ reaps' = reaps \cup {owner[p]}
  /\ linked' = [linked EXCEPT ![p] = mlock]
  /\ retired' = [retired EXCEPT ![p] = FALSE]
  /\ Goto(p, "reapCheck")
  /\ UNCHANGED <<alive, calls, mlock, owner, late>>

\* The owner is proven dead and p creates the .reap link of its nonce: the
\* link shows whatever is in the lock file now.
LinkReap(p) ==
  /\ At(p, "judge")
  /\ "dead" \in Verdicts(owner[p].pid)
  /\ mlock # NoLock
  /\ owner[p] \notin reaps
  /\ reaps' = reaps \cup {owner[p]}
  /\ linked' = [linked EXCEPT ![p] = mlock]
  /\ retired' = [retired EXCEPT ![p] = FALSE]
  /\ Goto(p, "reapCheck")
  /\ UNCHANGED <<alive, calls, mlock, owner, late>>

\* The owner is not proven dead, the lock is gone or the link exists.
NoReap(p) ==
  /\ At(p, "judge")
  /\ \/ Verdicts(owner[p].pid) # {"dead"}
     \/ mlock = NoLock
     \/ owner[p] \in reaps
  /\ Goto(p, "deadline")
  /\ UNCHANGED <<alive, calls, mlock, reaps, locals>>

\* Mutant of CheckReap: the nonce behind the link is not compared.
CheckReapBlind(p) ==
  /\ At(p, "reapCheck")
  /\ Goto(p, "reapUnlink")
  /\ UNCHANGED <<alive, calls, mlock, reaps, locals>>

\* Retire the lock only if the link shows the dead owner's own nonce.
CheckReap(p) ==
  /\ At(p, "reapCheck")
  /\ \/ /\ linked[p] = owner[p]
        /\ "dead" \in Verdicts(linked[p].pid)
        /\ Goto(p, "reapUnlink")
     \/ /\ linked[p] # owner[p] \/ Verdicts(linked[p].pid) # {"dead"}
        /\ Goto(p, "reapDrop")
  /\ UNCHANGED <<alive, calls, mlock, reaps, locals>>

\* Mutant of UnlinkDeadLock: the dead pid is kept where the flag belongs.
UnlinkDeadLockUntyped(p) ==
  /\ At(p, "reapUnlink")
  /\ mlock' = NoLock
  /\ retired' = [retired EXCEPT ![p] = mlock.pid]
  /\ Goto(p, "reapDrop")
  /\ UNCHANGED <<alive, calls, reaps, owner, linked, late>>

\* unlink(2) takes away whatever lock is there, or fails.
UnlinkDeadLock(p) ==
  /\ At(p, "reapUnlink")
  /\ mlock' \in {NoLock, mlock}
  /\ retired' = [retired EXCEPT ![p] = mlock' # mlock]
  /\ Goto(p, "reapDrop")
  /\ UNCHANGED <<alive, calls, reaps, owner, linked, late>>

\* An unlink that fails is ignored and leaves the link.
DropReap(p) ==
  /\ At(p, "reapDrop")
  /\ reaps' \in {reaps, reaps \ {owner[p]}}
  /\ Goto(p, IF retired[p] THEN "link" ELSE "reapExists")
  /\ UNCHANGED <<alive, calls, mlock, locals>>

\* A lock that somebody else retired counts as retired.
LockStillThere(p) ==
  /\ At(p, "reapExists")
  /\ Goto(p, IF mlock = NoLock THEN "link" ELSE "deadline")
  /\ UNCHANGED <<alive, calls, mlock, reaps, locals>>

Spin(p) ==
  /\ At(p, "deadline")
  /\ ~late[p]
  /\ Goto(p, "link")
  /\ UNCHANGED <<alive, calls, mlock, reaps, locals>>

\* Mutant of GiveUp: the deadline does not end the loop.
GiveUpNever(p) ==
  /\ At(p, "deadline")
  /\ late[p]
  /\ Goto(p, "link")
  /\ UNCHANGED <<alive, calls, mlock, reaps, locals>>

\* The call returns "mutation-contended".
GiveUp(p) ==
  /\ At(p, "deadline")
  /\ late[p]
  /\ Return(p)
  /\ UNCHANGED <<alive, calls, mlock, reaps>>

\* The mutation itself is over, with a result or an exception.
Leave(p) ==
  /\ At(p, "critical")
  /\ Goto(p, "unlockRead")
  /\ UNCHANGED <<alive, calls, mlock, reaps, locals>>

UnlockRead(p) ==
  /\ At(p, "unlockRead")
  /\ IF mlock = Mine(p)
     THEN Goto(p, "unlockUnlink") /\ UNCHANGED locals
     ELSE Return(p)
  /\ UNCHANGED <<alive, calls, mlock, reaps>>

\* An unlink that fails is ignored and leaves the lock to its living owner.
UnlockUnlink(p) ==
  /\ At(p, "unlockUnlink")
  /\ mlock' \in {NoLock, mlock}
  /\ Return(p)
  /\ UNCHANGED <<alive, calls, reaps>>
-----------------------------------------------------------------------------
\* maxWaitMs pass: the process is in the loop of withMutationLock.
DeadlinePasses(p) ==
  /\ alive[p]
  /\ pc[p] \notin {"idle"} \cup InsidePC
  /\ ~late[p]
  /\ late' = [late EXCEPT ![p] = TRUE]
  /\ UNCHANGED <<alive, pc, calls, mlock, reaps, owner, linked, retired>>

\* A crash leaves the lock file and the .reap link as they are.
Crash(p) ==
  /\ alive[p]
  /\ alive' = [alive EXCEPT ![p] = FALSE]
  /\ UNCHANGED <<pc, calls, mlock, reaps, locals>>

Step(p) ==
  \/ Prepare(p) \/ PrepareFails(p)
  \/ LinkLock(p) \/ LinkThrows(p) \/ InspectLock(p)
  \/ LinkReap(p) \/ NoReap(p) \/ CheckReap(p)
  \/ UnlinkDeadLock(p) \/ DropReap(p) \/ LockStillThere(p)
  \/ Spin(p) \/ GiveUp(p)
  \/ Leave(p) \/ UnlockRead(p) \/ UnlockUnlink(p)

Next == \E p \in Proc : Call(p) \/ Step(p) \/ DeadlinePasses(p) \/ Crash(p)

Spec == Init /\ [][Next]_vars

(***************************************************************************)
(* A process that is alive keeps executing and time passes.  Nothing makes *)
(* it call again, and nothing makes it die.                                *)
(***************************************************************************)
FairSpec == Spec /\ \A p \in Proc : WF_vars(Step(p)) /\ WF_vars(DeadlinePasses(p))
-----------------------------------------------------------------------------
\* Two live processes are never both inside withMutationLock: release, renew
\* and reclaim of one lease do not interleave, whoever died before and
\* however many contenders retire the dead owner's lock.
MutationExclusion ==
  \A p, q \in Proc :
    p # q /\ alive[p] /\ alive[q] => ~(pc[p] \in InsidePC /\ pc[q] \in InsidePC)

(***************************************************************************)
(* Why it holds: a process inside owns the stamp in the lock file; the     *)
(* .reap links of two contenders have different names and dead owners; and *)
(* a contender that is about to unlink the lock still has its dead owner's *)
(* stamp in front of it, since that name allows no second contender.       *)
(***************************************************************************)
InsideOwnsLock == \A p \in Proc : alive[p] /\ pc[p] \in InsidePC => mlock = Mine(p)

CallIsNumbered == \A p \in Proc : pc[p] # "idle" => calls[p] > 0

JudgesAnOwner == \A p \in Proc : pc[p] \in {"judge"} \cup ReapPC => owner[p] \in Stamp

ReapersDiffer ==
  \A p \in Proc : pc[p] \in ReapPC =>
    /\ owner[p] \in reaps
    /\ ~alive[owner[p].pid]
    /\ \A q \in Proc : pc[q] \in ReapPC /\ owner[q] = owner[p] => q = p

ReapsTheDeadLock ==
  \A p \in Proc :
    \/ pc[p] = "reapUnlink"
    \/ pc[p] = "reapCheck" /\ linked[p] = owner[p]
    => mlock = owner[p]

IInv == /\ TypeOK
        /\ InsideOwnsLock
        /\ CallIsNumbered
        /\ JudgesAnOwner
        /\ ReapersDiffer
        /\ ReapsTheDeadLock

\* A lock in which a live process's stamp stands is taken away by that
\* process alone, at the end of its own call: no contender that judged an
\* earlier owner dead unlinks the lock of the next one.
LiveLockNotStolen ==
  [][\A p \in Proc :
       mlock.pid = p /\ alive[p] /\ mlock' # mlock =>
         pc[p] = "unlockUnlink" /\ pc'[p] = "idle"]_vars

\* A call of withMutationLock returns as long as its process lives: it takes
\* the lock and finishes, or its deadline makes it give up.
CallsReturn == \A p \in Proc : pc[p] # "idle" ~> (pc[p] = "idle" \/ ~alive[p])

\* The lock file is what CrashLock says, with the stamp's pid as the holder:
\* it passes from one owner to the next only through nobody, and only the
\* living take it.  Who may return a live owner's lock is LiveLockNotStolen.
Abstract == INSTANCE CrashLock WITH holder <- mlock.pid
ImplementsCrashLock == Abstract!Spec

\* "a proven-dead, nonce-identified owner's lock must be reclaimed so the
\* mutator can proceed" (src/scripts/dispatch/conductor-lease.test.js:197):
\* a contender leaves a lock whose owner is dead in place only while another
\* live contender is retiring that lock.
DeadOwnerIsReclaimed ==
  [][\A p \in Proc :
       /\ pc[p] = "judge" /\ pc'[p] = "deadline"
       /\ mlock = owner[p] /\ ~alive[mlock.pid]
       => \E q \in Proc : /\ alive[q]
                          /\ pc[q] \in ReapPC
                          /\ owner[q] = mlock]_vars
=============================================================================

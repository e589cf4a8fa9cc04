--------------------------- MODULE ConcurrencyLock ---------------------------
(***************************************************************************)
(* The per-provider dispatch slots of src/scripts/hooks/lib/               *)
(* concurrency-lock.js.  A slot is a file <pid>-<ms>-<random>.lock in the  *)
(* provider's directory; there is no mutex.  A process counts the files,   *)
(* creates its own, counts again and takes its file back when the second   *)
(* count is above the cap.  Files older than STALE_AFTER_MS (20 minutes)   *)
(* are not counted and are deleted by whoever comes next; session-start's  *)
(* pruneDeadLocks deletes the files of dead pids.                          *)
(*                                                                         *)
(* A file is <<p, n>>: the n-th file of process p (pid, time and random    *)
(* bytes make the name unique).  Ages are kept as the set "stale" of files *)
(* past 20 minutes; the other age the code looks at, pruneDeadLocks's      *)
(* five-second minAgeMs, only makes a sweep pass over more files, and a    *)
(* sweep here may pass over any.                                           *)
(***************************************************************************)
EXTENDS Naturals, FiniteSets

CONSTANTS Proc,      \* processes of the program
          Dispatcher,  \* those that take a slot (dispatch-agent.js)
          Sweeper,   \* those that run pruneDeadLocks (the session-start hook)
          Cap,       \* getCap: how many slots the provider has
          MaxFiles   \* bound: files that one process creates

ASSUME CapAssumption == Cap \in Nat
ASSUME BoundAssumption == MaxFiles \in Nat

VARIABLES
  files,    \* the .lock files in the directory
  written,  \* those whose payload (the pid) has been written
  stale,    \* those older than STALE_AFTER_MS
  pc,       \* where each process is
  made,     \* how many files each process has created
  seen,     \* the last readdirSync of each process
  old,      \* what was stale at the Date.now() that process measures ages with
  target,   \* the file (at most one) that a sweep is about to unlink
  late      \* the deadline of the call (or its thousand attempts) has run out

vars == <<files, written, stale, pc, made, seen, old, target, late>>

File == Proc \X (1..MaxFiles)

Places == {"idle", "prune", "list", "count", "create", "write", "relist",
           "recount", "backoff", "refused", "held", "sweep", "judge", "reap", "dead"}

Mine(p) == <<p, made[p]>>

\* readLockMtimes + the age filter of activeCount, as p sees them
Active(p) == (seen[p] \cap files) \ old[p]

\* files disappear, and with each of them its payload and its mtime
Remove(gone) ==
  /\ files' = files \ gone
  /\ written' = written \ gone
  /\ stale' = stale \ gone

\* unlinkSync inside try/catch: the file goes, or stays behind
Unlink(f) == Remove({f}) \/ Remove({})

\* pruneStale, any of whose unlinks may fail
PruneStale(p) == \E gone \in SUBSET (files \cap old[p]) : Remove(gone)

Init ==
  /\ files = {} /\ written = {} /\ stale = {}
  /\ pc = [p \in Proc |-> "idle"]
  /\ made = [p \in Proc |-> 0]
  /\ seen = [p \in Proc |-> {}]
  /\ old = [p \in Proc |-> {}]
  /\ target = [p \in Proc |-> {}]
  /\ late = [p \in Proc |-> FALSE]

Goto(p, from, to) == pc[p] = from /\ pc' = [pc EXCEPT ![p] = to]

\* const now = Date.now(): every age of this scan is measured against it
TakeNow(p) == old' = [old EXCEPT ![p] = stale]

\* the local variables of a scan die with it
Forget(p) == seen' = [seen EXCEPT ![p] = {}] /\ old' = [old EXCEPT ![p] = {}]
Punctual(p) == late' = [late EXCEPT ![p] = FALSE]

-----------------------------------------------------------------------------
(* acquireSlot / acquireSlotSync and the attempt inside them.              *)

Acquire(p) ==
  /\ p \in Dispatcher
  /\ Goto(p, "idle", "prune") /\ TakeNow(p)
  /\ made[p] < MaxFiles
  /\ UNCHANGED <<files, written, stale, made, seen, target, late>>

Retry(p) ==
  /\ Goto(p, "refused", "prune") /\ TakeNow(p)
  /\ ~late[p] /\ made[p] < MaxFiles
  /\ UNCHANGED <<files, written, stale, made, seen, target, late>>

\* mutant of GiveUp: only the limit on attempts is checked, not the deadline
GiveUpExhausted(p) ==
  /\ Goto(p, "refused", "idle")
  /\ late[p] /\ made[p] = MaxFiles /\ Punctual(p)
  /\ UNCHANGED <<files, written, stale, made, seen, old, target>>

GiveUp(p) ==
  /\ Goto(p, "refused", "idle")
  /\ late[p] /\ Punctual(p)
  /\ UNCHANGED <<files, written, stale, made, seen, old, target>>

Prune(p) ==
  /\ Goto(p, "prune", "list")
  /\ PruneStale(p)
  /\ UNCHANGED <<made, seen, old, target, late>>

List(p) ==
  /\ Goto(p, "list", "count")
  /\ seen' = [seen EXCEPT ![p] = files]
  /\ UNCHANGED <<files, written, stale, made, old, target, late>>

Count(p) ==
  /\ Goto(p, "count", IF Cardinality(Active(p)) >= Cap THEN "refused" ELSE "create")
  /\ Forget(p)
  /\ UNCHANGED <<files, written, stale, made, target, late>>

\* openSync(filePath, "wx")
Create(p) ==
  /\ Goto(p, "create", "write")
  /\ made[p] < MaxFiles
  /\ made' = [made EXCEPT ![p] = @ + 1]
  /\ files' = files \cup {<<p, made[p] + 1>>}
  /\ UNCHANGED <<written, stale, seen, old, target, late>>

\* mutant of Write: makeLockPath is called once more for the payload
WriteElsewhere(p) ==
  /\ Goto(p, "write", "relist") /\ TakeNow(p)
  /\ written' = written \cup {<<p, made[p] + 1>>}
  /\ UNCHANGED <<files, stale, made, seen, target, late>>

\* the payload is written and closed (in vain if the file is gone); activeCount
\* takes a new Date.now()
Write(p) ==
  /\ Goto(p, "write", "relist") /\ TakeNow(p)
  /\ written' = written \cup ({Mine(p)} \cap files)
  /\ UNCHANGED <<files, stale, made, seen, target, late>>

\* openSync, writeSync or closeSync throws: the attempt is refused, and a
\* file that was created stays behind
CreateFails(p) ==
  /\ Goto(p, "create", "refused") \/ Goto(p, "write", "refused")
  /\ UNCHANGED <<files, written, stale, made, seen, old, target, late>>

Relist(p) ==
  /\ Goto(p, "relist", "recount")
  /\ seen' = [seen EXCEPT ![p] = files]
  /\ UNCHANGED <<files, written, stale, made, old, target, late>>

\* mutant of Recount: the process leaves its own file out of the second count
RecountOthers(p) ==
  /\ Goto(p, "recount", IF Cardinality(Active(p) \ {Mine(p)}) > Cap THEN "backoff" ELSE "held")
  /\ UNCHANGED <<files, written, stale, made, seen, old, target, late>>

Recount(p) ==
  /\ Goto(p, "recount", IF Cardinality(Active(p)) > Cap THEN "backoff" ELSE "held")
  /\ UNCHANGED <<files, written, stale, made, seen, old, target, late>>

BackOff(p) ==
  /\ Goto(p, "backoff", "refused") /\ Forget(p)
  /\ Unlink(Mine(p))
  /\ UNCHANGED <<made, target, late>>

\* releaseSlot
Release(p) ==
  /\ Goto(p, "held", "idle") /\ Forget(p) /\ Punctual(p)
  /\ Unlink(Mine(p))
  /\ UNCHANGED <<made, target>>

-----------------------------------------------------------------------------
(* pruneDeadLocks, from the session-start hook or the command line.        *)

Sweep(p) ==
  /\ p \in Sweeper
  /\ Goto(p, "idle", "sweep") /\ TakeNow(p)
  /\ UNCHANGED <<files, written, stale, made, seen, target, late>>

SweepList(p) ==
  /\ Goto(p, "sweep", "judge")
  /\ PruneStale(p)
  /\ seen' = [seen EXCEPT ![p] = files']
  /\ UNCHANGED <<made, old, target, late>>

\* pidAlive answers false only for a pid that is gone; the pid of a dead
\* process may be in use again, so a dead owner may also pass for alive
ProvenDead(f) == pc[f[1]] = "dead"

\* mutant of SweepJudge: whatever process.kill throws counts as dead
SweepJudgeBlind(p) ==
  /\ Goto(p, "judge", "reap")
  /\ \E f \in seen[p] \cap files \cap written : target' = [target EXCEPT ![p] = {f}]
  /\ UNCHANGED <<files, written, stale, made, seen, old, late>>

\* readLockMeta gives a pid (a blank file gives none) and pidAlive denies it
SweepJudge(p) ==
  /\ Goto(p, "judge", "reap")
  /\ \E f \in seen[p] \cap files \cap written :
       /\ ProvenDead(f)
       /\ target' = [target EXCEPT ![p] = {f}]
  /\ UNCHANGED <<files, written, stale, made, seen, old, late>>

SweepUnlink(p) ==
  /\ Goto(p, "reap", "judge")
  /\ \E f \in target[p] : Unlink(f)
  /\ seen' = [seen EXCEPT ![p] = @ \ target[p]]
  /\ target' = [target EXCEPT ![p] = {}]
  /\ UNCHANGED <<made, old, late>>

SweepEnds(p) ==
  /\ Goto(p, "judge", "idle") /\ Forget(p)
  /\ UNCHANGED <<files, written, stale, made, target, late>>

-----------------------------------------------------------------------------
(* The environment.                                                        *)

GrowsStale(f) ==
  /\ f \in files \ stale
  /\ stale' = stale \cup {f}
  /\ UNCHANGED <<files, written, pc, made, seen, old, target, late>>

\* inside acquireSlot
Calling(p) == pc[p] \notin {"idle", "held", "sweep", "judge", "reap", "dead"}

DeadlinePasses(p) ==
  /\ Calling(p) /\ ~late[p]
  /\ late' = [late EXCEPT ![p] = TRUE]
  /\ UNCHANGED <<files, written, stale, pc, made, seen, old, target>>

Crash(p) ==
  /\ pc[p] \notin {"idle", "dead"}
  /\ pc' = [pc EXCEPT ![p] = "dead"] /\ Forget(p)
  /\ target' = [target EXCEPT ![p] = {}] /\ Punctual(p)
  /\ UNCHANGED <<files, written, stale, made>>

Attempt(p) ==
  \/ Retry(p) \/ GiveUp(p) \/ Prune(p) \/ List(p) \/ Count(p) \/ Create(p)
  \/ Write(p) \/ CreateFails(p) \/ Relist(p) \/ Recount(p) \/ BackOff(p)

Step(p) ==
  \/ Acquire(p) \/ Attempt(p) \/ Release(p)
  \/ Sweep(p) \/ SweepList(p) \/ SweepJudge(p) \/ SweepUnlink(p) \/ SweepEnds(p)
  \/ DeadlinePasses(p) \/ Crash(p)

Next == (\E p \in Proc : Step(p)) \/ (\E f \in File : GrowsStale(f))

Spec == Init /\ [][Next]_vars

\* A process that is inside acquireSlot keeps running and its deadline
\* comes.  Nothing makes it call, release, sweep or die.
FairSpec == Spec /\ \A p \in Proc : WF_vars(Attempt(p)) /\ WF_vars(DeadlinePasses(p))

-----------------------------------------------------------------------------
TypeOK ==
  /\ files \subseteq File /\ written \subseteq File /\ stale \subseteq File
  /\ pc \in [Proc -> Places]
  /\ made \in [Proc -> 0..MaxFiles]
  /\ seen \in [Proc -> SUBSET File]
  /\ old \in [Proc -> SUBSET File]
  /\ target \in [Proc -> SUBSET File]
  /\ late \in [Proc -> BOOLEAN]

\* The slots in use that still count: granted, on disk, not past 20 minutes.
Held == {f \in files \ stale : pc[f[1]] = "held" /\ f = Mine(f[1])}

\* However the counts, creations, back-offs, sweeps and crashes of the
\* dispatchers interleave, no more than Cap of them hold a slot that has not
\* outlived STALE_AFTER_MS (tryAcquireOnce has no mutex: the create-then-
\* recount of lines 88-116 alone must ensure it).
CapRespected == Cardinality(Held) <= Cap

\* The file of a living process disappears before its 20 minutes are over
\* only by that process's own releaseSlot or back-off, never by another's
\* pruneStale or by a pruneDeadLocks that judged its pid some time before.
LiveSlotNotStolen ==
  [][\A f \in (files \ files') \ stale :
       pc[f[1]] # "dead" =>
         /\ f = Mine(f[1])
         /\ pc[f[1]] \in {"backoff", "held"} /\ pc'[f[1]] \in {"refused", "idle"}]_vars

\* acquireSlot returns, with a slot or with null, to every caller that lives,
\* even while rivals keep creating and backing off.
CallsReturn == \A p \in Proc : Calling(p) ~> ~Calling(p)
=============================================================================

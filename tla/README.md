# Verification of Master Console's shared state

Master Console (`src/`) is a set of about 1300 Node scripts that run around an
AI coding session: slash commands, some 80 hooks, dispatchers of other AI
providers, a release and update machinery and a brokered route to the main
branch. There is no server. Every script is a short-lived process, and all of
them coordinate through files: lock files, leases, ledgers, a git ref. What is
hard about the code is therefore what several processes, any of which may be
killed at any moment, do to the same files.

This directory holds TLA+ models of the parts that coordinate in this way,
TLC configurations that check them on small instances, and TLAPS proofs for
every size of the instance.

To run everything by hand:

    tlc -config lock.cfg MCMutationLock            # one run; see the table below
    tlapm MutationLock_proofs.tla                  # one proof module

## 1. Inventory

### Parts that share state

| part | code | state | operations | interacts with |
|---|---|---|---|---|
| mutation lock | `scripts/dispatch/conductor-lease.js:14-126` | `<SP>.mutation.lock`, `.reap` links | `withMutationLock`, `reclaimDeadGeneration`, `unlinkIfNonce` | serializes the lease operations |
| conductor lease | `conductor-lease.js:100-278` | `<SP>.lease`, `<SP>.claimlog` | `acquire`, `release`, `renew`, `reclaim`, `verifyToken` | its token fences the protected ref |
| brokered ref writes | `dispatch/trusted-controller.js`, `acceptance-record.js`, `broker-merge.js`, `broker-release-commit.js`, `broker-dogfood.js`, `hooks/protected-ref-transaction.js` | `refs/heads/main`, git's lock of it, `dogfood-fallbacks.jsonl` | `brokerMerge`, `brokerReleaseCommit`, `integrate`, `fencedRefUpdate`, `attemptFallback`, the reference-transaction hook | lease, git, pinned suite |
| dispatch slots | `hooks/lib/concurrency-lock.js` | one `.lock` file per running provider call | `acquireSlot(Sync)`, `releaseSlot`, `pruneDeadLocks` | dispatch-agent.js takes slots, session-start sweeps |
| update transactions | `mc/transaction.js`, `mc/update.js` | destination files, `active.lock`, per-transaction snapshot, backups and result | `beginTransaction`, `applyUpdateDecisions`, `commitTransaction`, `rollbackTransaction`, `--rollback` | preflight, migrations, generators |
| event log and archive | `hooks/lib/logger.js`, `rotate.js`, `archive.js`, `events/events-compact.js`, `events/cli.js` | `events.jsonl`, archive directory, `index.jsonl`, two age-based lock files | `log`, `rotateIfNeeded`, `archive`, `tryLock`, `compactOnce` (S0-S9), `reconcileOrphans`, `query --archive` | every hook appends |
| provider breaker | `dispatch/provider-breaker.js` | `provider-down.json` | `markDown`, `isDown`, `clear` | every dispatcher |
| team lifecycle | `teams/lifecycle.js`, `signal-board.js` | `.team-lifecycle-*.json` | teardown requests, reconciliations, readiness | sessions, session-end hook |
| orphan reaping | `dispatch/reap-orphans.js`, `reaper-ranking.js`, `active-run.js` | process table against run records | scan, rank, kill | dispatch |
| sprint engine | `scripts/sprint/*` | `current.yaml`, ticket files, plan contract, release record, `active-sprints.yaml`, retro, `beta-boundaries.json` | `full.js` (five phases, halts, resumes), ticket, execute, plan, design, release and retrospective commands | the operator, Beta, workers |

What makes each correct, and what is hard about it:

* *Mutation lock*: one live owner; the lock of a dead owner can be taken away,
  that of a live one cannot. Hard: several contenders find the same dead owner;
  pids are reused; the contender itself may die.
* *Conductor lease*: tokens grow, one token verifies, a live fresh holder is not
  deposed. Hard: `acquire` runs outside the lock that the others run inside;
  files are created first and filled later.
* *Brokered ref writes*: no commit of main is lost, nothing unverified is landed
  except by the ordinary route, which is counted. Hard: a suite that takes
  minutes sits between the reads (head, token) and the write.
* *Dispatch slots*: the cap. Hard: there is no mutex, only create and recount,
  against concurrent pruning by age and by pid.
* *Update transactions*: no crash or error at a file loses its original, and the
  outcomes "committed" and "rolled-back" mean what they say. Hard: the checks and the lock are far
  apart, backups are taken twice, copies are not atomic, rollbacks can die too.
* *Event log and archive*: no event that was written is ever destroyed; what a
  query prints as the complete history is complete. Hard: appenders hold no lock
  and write to whatever inode they opened; rotation and compaction hold different
  locks, which are taken from an owner by age; every step can fail or be the last.
* *Sprint engine*: no phase without Beta's word on its boundary, one staging
  record, no deployment without approval, a board that names only what is there.
  Hard: a run keeps nothing in memory and recognizes its past by the files; the
  command it waits for may survive it; workers rewrite the same files meanwhile
  with no lock at all.

### Parts without shared state

Pure checkers and parsers (`scripts/checks`, `paths`, `maps`, `canon`,
`linters`, `requirements`, gauntlet verification and signing), pattern-matching
guards (`scripts/hooks/*-guard.js`), single-user generators (`portfolio`,
`bootstrap`, `trackers`, `mc/release-*`, `dispatch/gui.js`) and clients of remote
services (`research`) take input, print or write one result, and keep nothing
between calls. They are listed in `PROJECT.json` with their reasons and are not
modelled. `_guides`, `_knowledge`, `_requirements`, `patterns`, `schemas`,
`fixtures` and `framework` are text and data.

## 2. Modules

| module | what it is |
|---|---|
| `CrashLock` | abstract: a lock that passes from owner to owner, and from a dead owner to nobody |
| `MutationLock` | `withMutationLock`, one file-system call per action; implements `CrashLock` |
| `FencedLease` | abstract: at most one token verifies; it never comes back; new ones are greater |
| `ConductorLease` | the lease file and the claim log, inside `CrashLock`; implements `FencedLease` |
| `TrustedController` | brokers, `integrate`, fallback, git and the hook, on top of `FencedLease` |
| `ConcurrencyLock` | the dispatch slots of one provider |
| `UpdateTransaction` | `mc:update` with its transaction and rollback |
| `EventLog` | abstract: a history that only grows, one event at a time |
| `EventArchive` | the log, its rotation, the compactor, the archive and its queries; implements `EventLog` |
| `SprintBoard` | the files of one sprint and the commands that rewrite them |
| `SprintPipeline` | `/sprint:full` on top of `SprintBoard` |
| `MC*` | instances for TLC: sets of model values, symmetry, a commit graph |
| `*_proofs` | the theorems about a module |

They compose along the refinements: `ConductorLease` uses the lock through
`CrashLock`, which `MutationLock` is proved to implement; `TrustedController`
uses the lease through `FencedLease`, which `ConductorLease` is proved to
implement. So the ref-write model is checked against every behaviour of the
lease without its files.

In every module a definition has the name of the function or the step of the
function it models; `PROJECT.json` maps it to lines. Definitions called
"mutant of ..." are plausible wrong versions of the next definition. They are
not part of any specification: each exists to show that some property notices it.

### State and actions against the code

*MutationLock.* `mlock` is the stamp readable at the lock path, `reaps` the set
of `.reap` links, `owner`, `linked` and `retired` are locals of
`withMutationLock` and `reclaimDeadGeneration`, `late` is `Date.now() > deadline`.
A nonce (random bytes in the code) is the pair of process and call number,
which is unique as the random one is meant to be. `Verdicts` is `pidLiveness`:
a dead pid may pass for alive (reused) but a live one never for dead. A stamp
that cannot be parsed is never judged dead in the code; the model has only
good stamps because the lock is published by `link(2)` of a finished file.

*ConductorLease.* `lease` is the file: absent, blank (opened or truncated and
not yet filled, by a given process: a write through the descriptor of a file
that has been unlinked meanwhile reaches nobody), or held. `claimlog` is the
list of tokens. `fresh` is the age comparison.

*TrustedController.* The three routes to main are paths of `pc` that end in the
same three steps of git: lock and compare (`LockRef`), hook (`Hook`), move
(`CommitRef`). The pinned suite, bundles and digests are one verdict, chosen
freely; a suite that does not pass gives a reason, and `OperationalReasons` are those
of `broker-dogfood.js:80` for which the fallback opens (`FallbackAllowed`). An
ordinary landing is a person's own `git` command as well as that fallback.
`unbrokered` and `broken` are history variables. A commit is a node of
a given graph; `FirstParent` and `Descends` are what git answers.

*ConcurrencyLock.* `files` is the directory, `seen` the last `readdirSync` of a
process, `old` what was past 20 minutes at the `Date.now()` it measures by. The
`statSync` loop after a `readdirSync` is one step (`Count`, `Recount`). The
sweep's five-second `minAgeMs` only exempts files, and a sweep here may pass
over any file. One provider's directory is modelled; they do not interact.

*UpdateTransaction.* Transaction `t` installs version `t`; contents are version
numbers, `Absent` and `Torn` (a `copyFileSync` that was cut short). Every copy that may
write over something is two steps, the second copy of a backup too: a death in
between leaves `Torn`, an error `Torn` or `Absent` (Node removes what it has copied
of a file, if it can). The plan is
any assignment of decisions that fits the files; classification by hashes is
left out, as are the directory names, the optional undo copy of a rollback, the
hash check of snapshot.json (nothing changes that file) and `--no-transaction`.
Migrations, generators and `framework-installed.json` are outside the snapshot
and only succeed or fail. An operator who is refused because of `active.lock` may do as
the message says (`transaction.js:144`): inspect it, remove it, retry
(`RemoveAndRetry`). So nothing keeps an update from starting on top of one that died.

*EventArchive.* A file is an inode with its lines, so that an append that opened
the path before a rename goes to the archived file, as it does in the system.
`live`, `archived` and `index` are the three places that say where an inode is.
A line that was cut short makes the next append run into it: `torn` and `joined`.
A write of one event is atomic (one `appendFileSync` of one line); a reseed may
end after any line or within one. `file`, `seed` and `seen` are locals of a
process. The sizes 2000, 8000 and 20000 are constants in the order that the
code asserts. A query reads the generations in one step, which can only find
less than reading them one by one. `known`, `moved` and `outlived` are history.

*SprintBoard.* A command is a process that is somewhere in a list of file accesses
(`Accesses`), with what it has read in `seen` and `rec`. Nothing keeps two of
them apart. A ticket is a number, the seventeen statuses of `ticket.js` are six,
and `Lane` is a bucket of `current.yaml`. A release record is its target and its
status. Workers may give every command by hand, those of `full.js` too (`Hand`),
which then meet none of the conditions that `full.js` puts before them; `deploy` may be
given another target. `NextIds` is `ids.js`: the last id of three digits is followed by
one that is handed out again and again. Reading, changing and writing
`active-sprints.yaml` is one access. `approved`, `strayed` and `mishaps` are history:
`strayed` says that a release was prepared by hand, by a command that outlived its run, or
retargeted; `mishaps` counts the overlaps and deaths of commands, the ids minted twice and
the boundary files that were lost.

*SprintPipeline.* `pc` and `phase` are the loop of `main`; `args` the command
line, `known` and `todo` locals, `cleared` the boundary file, `asked` the boundary
that the last halt report names. A verdict that lets nothing pass (ESCALATE, an
empty or canned message) is no verdict. What only makes a phase halt (payload,
quality, cost, external services, the epsilon runtime) is a free choice to halt.
The operator resumes with the command that the halt report prints, so a verdict
comes with its `--pending-phase`; and runs one `/sprint:full` at a time. A run that dies
takes the command it waits for along, or leaves it running (`Crash`): the command then
moves to the place of a worker that has nothing to do, and nobody waits for it.

## 3. Runs

| run | question | result |
|---|---|---|
| `lock` | three processes, one call each, crashes, reused pids, failing unlinks: exclusion, no theft, refinement of `CrashLock`, and a call returns | holds, 648 384 states |
| `lock_reaper` | is the lock of a dead owner always reclaimable? | violated (finding) |
| `lease_safety` | three processes, three tokens: tokens, holder, no theft, refinement of `FencedLease` | holds, 211 656 states |
| `lease_reclaim` | does reclaim supersede a dead holder? | violated (finding) |
| `controller` | two controllers, one token, one fallback, the hook installed at any moment: nothing lost or unverified, one tenure, no move around the hook | holds, 3.0 million states |
| `slots` | two dispatchers with retries for one slot, one of which may sweep: the cap, no theft, and `acquireSlot` returns | holds, 633 207 states |
| `update_serial` | two updates of two files, errors and deaths at every step, also within a copy, repeated rollbacks, `active.lock` removed by hand, one command at a time: an original survives every apply, the outcomes mean what they say | holds, 1.46 million states |
| `update_overlap` | the same, started together: one update at a time? | violated (finding) |
| `update_backup` | does "rolled-back" also mean restored when a backup was torn? | violated (finding) |
| `archive` | two writers over the cap, a compactor and a query, one fault: no event destroyed, queries complete, summaries readable, one owner of a fresh lock | holds, 1.4 million states |
| `sprint` | one sprint of two tickets in ad hoc mode, a worker beside it, one mishap: Beta before each phase, the board names what is there, and agrees with the tickets while nothing goes wrong | holds, 5.95 million states |
| `sprint_ship` | runs in solo mode that halt, crash (the command may live on) and resume, and two workers with release commands on the same records: one staging record, approval before deployment | holds, 2.18 million states |

`CHECK_DEADLOCK FALSE` is set everywhere because all these programs end: with
their calls used up, or everybody dead, nothing more happens.

### Bounds and why they are enough

* Three processes for the two locks: a dead owner, a slow contender and a fast
  one are the actors of every known failure of such protocols. One call each
  suffices there because a process that died is the one whose stamp is found.
  The proofs have no bound.
* Three tokens: a holder, its successor and a third that could collide.
* Two controllers and four commits: two merges into the same root and one on
  top of a winner, so that races are lost, won and retried. The lease of one token
  can end at any moment, during a suite or between check and move; a fallback races
  with a broker. A second token only adds another one that does not verify;
  the proofs are for any number of them.
* One slot, two dispatchers, two files each: over-creation, one back-off and
  retry, also with the file of a failed unlink still in the way. The proofs are
  for any number of slots and dispatchers.
* Two transactions, two files: one file done and one not; a crashed update, its
  rollback, and the next update.
* The log starts with four lines, at the cap, so that both writers want to rotate
  at once and the compactor to fold; two more events (`MaxEvents = 6`) are logged
  and one line is kept (`Keep = 1`). `MaxFaults = 1` is any one of: a crash, a
  failed rename, index line, append, reread, reseed or reconciliation, or an owner
  of a lock that stalls for a minute (the lock file of a dead owner ages for
  free). A stalled owner is the one way to two owners of a lock, which is
  what `OneMoverWhileFresh` excludes by its proviso and the code accepts.
* Two tickets (`sprint`): one handed off and one not yet. `MaxMishaps = 1` is one
  overlap of two commands, one death of a command or of a run that waits for one, one
  id handed out twice, or one boundary file torn or not written; a run may die between
  commands, or die and leave its command running, at any time for free, and halts and
  resumes have no bound. `Suffixes = 1`: the second id is the one that repeats, in the
  code the thousandth. `sprint_ship` has one ticket, created as done, so that runs reach
  the release at once; two workers, so that two release commands meet on one record,
  with symmetry, which is sound as nothing names a worker; and two records
  (`MaxReleases = 2`), so that there could be one too many. It is in solo mode: Beta's
  consultations do not touch the releases, and `sprint` is about them. `ByHand` has
  `touch` in `sprint` and nothing in `sprint_ship`: a preparation by hand only makes the
  release stray. The proofs allow all commands by hand, and both modes.

### Fairness

Two runs check liveness (`CallsReturn` in `lock` and `slots`). Both assume only that
a process that is inside a call and alive executes its next statement, and that
time passes, so its deadline comes. Nobody has to call, release, sweep or die.
The code justifies it: the waiting loops are its own (a spin in
`withMutationLock`, sleeps of 500 ms in `acquireSlot`), each statement is a
terminating system call, and the deadline is compared on every round. In `lock`
the property excuses processes that die. `slots` shows that a call returns, not
that it gets a slot: two dispatchers can back off from each other until their
deadlines; in the code only the random jitter separates them.

The event log and the sprint have no liveness property: an unindexed generation
waits for the next compactor, a halted sprint for its operator, and the code
schedules neither.

## 4. Findings

Each is a run that TLC refutes, with the line that promises the opposite.

1. `lock_reaper`: a contender that dies between `link` and `unlink` of the `.reap`
   link makes the dead owner's lock permanent (`conductor-lease.js:71`).
2. `lease_reclaim`: a process that dies between creating (or truncating) the lease
   and filling it leaves a lease that no operation can take (`:241`).
3. `update_overlap`: `active.lock` is checked at `transaction.js:141` and written at
   `:208` without an exclusive create; two updates both begin.
4. `update_backup`: `backupFile` overwrites the snapshot's good copy (`update.js:384`); a
   crash or an error inside it leaves a torn backup that a rollback restores and reports
   as success. `RolledBackUnlessTorn` (run `update_serial`) shows that this is the only way.

## 5. Proofs

All eight proof modules follow one pattern: an inductive invariant, its
initiation, its preservation by each action, and theorems that combine them by
temporal logic. TLC checked every such
invariant on a small instance before it was proved. With them every invariant and
every action property that a passing run checks is proved, and all three refinements.

| module | theorems | assumptions |
|---|---|---|
| `MutationLock_proofs` | `TypeCorrect`, `Exclusion`, `NotStolen`, `Refinement` | the named ASSUMEs of the module |
| `ConductorLease_proofs` | `TypeCorrect`, `NoTokenReused`, `NewestHolds`, `NotStolen`, `Refinement` | the same |
| `ConcurrencyLock_proofs` | `TypeCorrect`, `CapHolds`, `NotStolen` | `Cap` and `MaxFiles` are natural numbers |
| `UpdateTransaction_proofs` | `TypeCorrect`; `OriginalsSurvive`, `RollbackRestores`, `CommitInstalls` | none; `Serial`: one command at a time |
| `TrustedController_proofs` | `TypeCorrect`, `FallbacksAreCounted`, `LosesNothing`, `LandsOnlyVerified`, `OneTenureOnly`, `NoOrdinaryLanding` | the named ASSUMEs of the module |
| `EventArchive_proofs` | `TypeCorrect`, `SummariesAreIndexed`, `OneMover`, `QuietQueries`, `Refinement` | the same |
| `SprintPipeline_proofs` | `BetaFirst` | none |
| `SprintStages_proofs` | `TypeCorrect`, `OneRelease`, `FilesThere`, `Approved`, `BoardAgrees` | the named ASSUMEs of `SprintBoard` and `SprintPipeline` |

They hold for any number of processes, calls, tokens, commits, files, lines,
transactions, tickets, halts and mishaps, and for any descent relation of the commits
that the named ASSUME allows.

* *MutationLock.* Exclusion is not inductive: one must know that a process
  inside has its stamp in the lock (`InsideOwnsLock`), that two contenders that
  retire a lock hold links of different names and dead owners (`ReapersDiffer`),
  and that a contender about to unlink the lock still has the dead owner's stamp
  in front of it (`ReapsTheDeadLock`). The last is the point of the protocol: the
  name of the `.reap` link is the nonce, so the dead generation can be retired
  once only.
* *ConductorLease.* A blank file refuses every exclusive create and is never
  unlinked, so its opener is the only writer (`OneWriter`) although `acquire`
  takes no lock; what a locked process read is still there when it acts
  (`ActsOnWhatItRead`).
* *ConcurrencyLock.* Of all processes that listed the directory after creating
  their file, the one that listed last saw the files of all others (`Chain`: any
  set of such files has a member whose owner saw the whole set), and whoever was
  granted a slot had counted at most `Cap` (`Counted`). Applied to the set of held
  slots, the last lister's count bounds them all. `Known` and `Aged` say that
  names are fresh and that ages only grow.
* *UpdateTransaction.* `Phase(t)` relates files, snapshot and backups at every
  place of the process that works on `t`: unvisited files are still what the
  snapshot says, visited ones are what the plan wants, except the one that is
  being copied; and during an apply, a backup that is not what the snapshot says belongs
  to a file that is untouched, and either is being made or has failed, so that the apply
  will not commit. `Alone` (from `Serial`) keeps other processes away; finding 3 shows
  that the code does not.
* *TrustedController.* `Candidates` says what is in the hands of git: off the ordinary
  route it passed the suite and descends from the old value, which `HoldsRef` keeps at
  `head` as long as the process is behind `main.lock`. `Routes` ties a route to the
  places it can be at; `Paid` counts the fallbacks that have their row in the ledger
  but have not landed yet, so that the ledger is never short of them; `Tenures` says
  that the token of a process whose tenure ended is no longer the holder's and, as
  tokens only grow, never will be. `LandsOnlyVerified` is about one call: no reason that
  the suite can give is one of `OperationalReasons`, so a call whose suite refused does
  not fall back. Another call, or a person, may land the same commit later. The lease is `FencedLease` here, which
  `ConductorLease_proofs` shows to be implemented.
* *EventArchive.* A file of the log is at its path or in the archive, and what is
  appended to it is an event, or a seed whose lines were in a file before (`SeedOK`) or
  name an indexed generation (`LineOK`); so `History` grows by the event that a writer
  has in hand, or not at all (`HistoryStep`). A torn line that is continued keeps the
  event that was written behind it. `AtWork` has a mover put its file into the archive
  before it indexes or reads it. `OwnsLock`: who is behind a lock owns it, or it has
  outlived its sixty seconds; only such a lock is evicted. `Query(r)` says, place by
  place, where the events that a reader could find when it began are still to be met:
  in what it has read, in files the index did not name (it will refuse over them), and
  last in the live file.
* *SprintPipeline.* A run passes a boundary for one of four reasons: the boundary
  file, the list of the run, `--pending-phase`, or a verdict. `Answered` says that each
  of them only ever names boundaries that Beta has let pass, or has behind the one
  that the last halt asked for; a torn file names none.
* *SprintStages.* Every command reads `current.yaml`, works, and writes all of it back
  over whatever others wrote meanwhile, and the release commands do the same to a
  record; so no property of the files alone is inductive. `FilesFounded` and `Founded`
  say that what the files say, and what any command carries with it, rests on facts
  nobody takes back: a contract that was minted, a ticket that exists, an approval that
  was given. `Steady` holds until a release strays: a command on a record is on the
  staging one, and only the child of a run prepares, while there is no record yet.
  For `QuietBoardAgrees`, `Peaceful` holds while nothing has gone wrong: one command at
  a time, and a command between its two writes knows the one ticket by which board and
  files differ (`Calm`).

Only model-checked: liveness (`CallsReturn` of both locks), which the proof system
cannot treat, and the counterexamples of section 4, each on its instance. The
theorems say nothing about more than one sprint, nor about anything else that
section 6 leaves out of the models.

## 6. What the models do not say

* Only one-way effects of the clock are modelled: files get old, deadlines pass.
  A clock that jumps back is not.
* `CapRespected` counts slots younger than 20 minutes. A dispatch that outlives
  its slot keeps running uncounted; that is the design.
* `OneTenure` is stated where the hook lets the update pass; git moves the ref a
  moment later and the lease may change hands in between, which a hook cannot
  prevent.
* The ENOENT retry at `conductor-lease.js:50` does not look at the deadline; it
  could only spin against an endless supply of rivals.
* Reads of the lease file and the claim log that fail are left out. `mintToken`
  takes any read error for an empty log (`conductor-lease.js:141`) and would start
  the numbering again; the theorems about tokens are about readable logs.
* The append of a ledger line or of one event is atomic here; only the writes of
  many lines (a reseed, a summary) are cut short in the model.
* `restore` (`archive.js:178`), which refuses an occupied origin, and the users of the
  archive other than the event log (`hooks/lib/retention.js`) are left out.
* `RolledBackUnlessTorn` excuses files with a torn backup (finding 4). The lock is no
  protection in the model: `clearActiveLock` removes it whichever transaction it names
  (`transaction.js:383`), and a person may remove it too, so an update may begin on the
  mixed files of one that died. What it takes for the original is then that mixture;
  the originals are in the backups of the first.
* `OnlyVerified` is about the verdict of the call that moves main. A commit that one call
  refused may reach main by a later call or by a person's own `git`.
* `QuietQueryComplete` excuses queries during which the log was moved. `query --archive`
  reads the archive first (`events/cli.js:335`) and the live log last (`:343`), so a
  rotation in between hides the whole log from it, although the help text speaks of the
  "complete history" (`:316`). The proviso `~moved[r]` is the only thing that keeps
  TLC from that history.
* `OneReleaseUnlessStrayed` leaves out histories in which a release strayed, since the
  code does nothing against a second record there: `release.js prepare` by hand looks for
  no record, `deploy` may change the target, and a `prepare` that outlives its run
  (`full.js:504`; only a signal to the whole group takes it along) may write after the
  resume has found none.
* `QuietBoardAgrees` leaves out histories with overlaps, deaths or ids minted twice, in
  which the board does lose writes; no text denies that. What holds in all histories is
  `BoardHasItsFiles`.
* There is one sprint; nothing but the commands under `scripts/sprint` changes its files.
* A gate, a payload or a cost check of a phase is a free choice to halt: what they
  compare is not modelled, only that nothing gets past a halt.
* The application of a memory plan is not modelled: `checks/memory-apply.js` refuses
  `--apply` (line 276), so the code behind that line does not run.
* The other subsystems without a module, and the reasons, are in `PROJECT.json`.

## 7. Plan

Done, in the order of importance: mutation lock, lease, ref writes, slots,
update transactions, event log and archive, sprint engine. Memory apply was
dropped from the plan (section 6). Next:

1. Extension of `UpdateTransaction` by the recorded version
   (`framework-installed.json`), written before the commit and outside the snapshot.
2. `ProviderBreaker` and `TeamLifecycle`: read-modify-write of one JSON file by
   several processes; one module of the pattern and two instances.
3. The reaper's ranking and the reconciliation of expected checks as operators
   with reference definitions.

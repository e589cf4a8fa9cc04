---------------------------- MODULE EventArchive ----------------------------
(***************************************************************************)
(* The event log of src/scripts and its archive: events.jsonl, to which    *)
(* every process appends (hooks/lib/logger.js), the rotation that moves a  *)
(* full log into the archive (hooks/lib/rotate.js), the compactor that     *)
(* moves it there and seeds the new log with a summary and the last lines  *)
(* (events/events-compact.js), and `events query --archive`, which unites  *)
(* the archived files with the live one (events/cli.js).                   *)
(*                                                                         *)
(* A file is an inode: a number, and text[f] the lines written to it.  An  *)
(* append opens the path and then writes to the inode it opened, wherever  *)
(* a rename has taken that inode meanwhile.  Rotation and compaction each  *)
(* hold a lock file, but not the same one, and a lock file older than 60   *)
(* seconds is taken from its owner, dead or slow.                          *)
(***************************************************************************)
EXTENDS Naturals, Sequences, FiniteSets

CONSTANTS
    Writer,       \* processes that log events
    Compactor,    \* processes that run the compactor
    Reader,       \* processes that run events query --archive
    Nobody,       \* the owner of a lock file that is not there
    Keep,         \* TAIL_KEEP_LINES
    Trigger,      \* FOLD_TRIGGER_LINES
    Cap,          \* OPERATIONAL_CAP: the lines at which a writer rotates
    Before,       \* events in the live file when the model starts
    MaxEvents,    \* bound on the number of events
    MaxFaults     \* bound on the number of faults

Mover == Writer \union Compactor
Proc  == Mover \union Reader

\* The order the compactor checks when it is loaded (events-compact.js), with
\* room for the summary line, and distinct kinds of process.
ASSUME SizesAssumption ==
    /\ Keep \in Nat /\ Trigger \in Nat /\ Cap \in Nat
    /\ Keep + 1 < Trigger /\ Trigger < Cap
    /\ Before \in Nat /\ MaxEvents \in Nat /\ MaxFaults \in Nat
    /\ Before <= MaxEvents

ASSUME ProcAssumption ==
    /\ Writer \intersect Compactor = {}
    /\ Mover \intersect Reader = {}
    /\ Nobody \notin Proc

VARIABLES
    text,      \* the lines of each file, by inode
    live,      \* the inode at the path of events.jsonl, 0 when there is none
    archived,  \* the inodes in the archive directory
    index,     \* the inodes that index.jsonl names; no index file when empty
    lock,      \* owner of the rotation lock and of the compaction lock
    aged,      \* the lock files older than staleMs
    outlived,  \* ghost: the locks that were ever aged while owned
    pc,        \* where each process is
    file,      \* the inode a process moved or opened, 0 when none
    event,     \* the event a writer is logging, 0 when none
    seed,      \* the lines a compactor will seed the new log with
    seen,      \* the inodes a compactor listed, or a reader found indexed
    known,     \* ghost: the events a parser could find when a reader began
    answer,    \* the events a reader has read
    tier,      \* what a reader made of the archive
    moved,     \* ghost: the log was moved since a reader listed the archive
    next,      \* the number of events begun so far
    faults     \* the number of calls that failed or stalled, processes that died

disk   == <<text, live, archived, index>>
locks  == <<lock, aged, outlived>>
work   == <<file, event, seed, seen>>
query  == <<known, answer, tier, moved>>
counts == <<next, faults>>
vars   == <<disk, locks, pc, work, query, counts>>
-----------------------------------------------------------------------------
(* Lines.  A write that was cut short leaves a last line without its       *)
(* newline; the next append continues that line, and no parser reads the   *)
(* result.  The bytes of the event stay in it.                             *)

Kinds == {"event", "summary", "torn", "joined"}

Line == [kind : Kinds, of : Nat]

EventLine(e) == [kind |-> "event", of |-> e]
SummaryOf(f) == [kind |-> "summary", of |-> f]     \* 0: index_pending
Torn         == [kind |-> "torn", of |-> 0]

\* The line that results from writing l behind an unfinished line.
Joined(l) == [kind |-> "joined", of |-> IF l.kind = "summary" THEN 0 ELSE l.of]

\* fs.appendFileSync: the lines that t has after new is written to it.
Appended(t, new) ==
    IF t # <<>> /\ new # <<>> /\ t[Len(t)].kind = "torn"
    THEN SubSeq(t, 1, Len(t) - 1) \o <<Joined(new[1])>> \o SubSeq(new, 2, Len(new))
    ELSE t \o new

\* What a write of new that was cut short has put down: nothing, or some of
\* the lines and the beginning of the next.
Partial(new) ==
    {<<>>} \union {Append(SubSeq(new, 1, n), Torn) : n \in 0 .. Len(new) - 1}

\* lines.slice(-TAIL_KEEP_LINES)
LastLines(t) == IF Len(t) <= Keep THEN t ELSE SubSeq(t, Len(t) - Keep + 1, Len(t))

Files == 1 .. Len(text)

\* The events a parser finds in file f (parseJsonl skips what does not parse).
Parsed(f) == {l.of : l \in {text[f][i] : i \in {j \in 1 .. Len(text[f]) :
                                             text[f][j].kind = "event"}}}

\* The events whose bytes are in file f, parseable or not.
Held(f) == {l.of : l \in {text[f][i] : i \in {j \in 1 .. Len(text[f]) :
                              /\ text[f][j].kind \in {"event", "joined"}
                              /\ text[f][j].of # 0}}}

Reachable == archived \union ({live} \ {0})
History   == UNION {Held(f) : f \in Reachable}
Readable  == UNION {Parsed(f) : f \in Reachable}

LiveLines == IF live = 0 THEN 0 ELSE Len(text[live])
-----------------------------------------------------------------------------
(* The lock files.  A writer's rotation and a compaction use different     *)
(* ones, so that they exclude their own kind only.                         *)

Locks     == {"rotate", "compact"}
LockOf(p) == IF p \in Writer THEN "rotate" ELSE "compact"
\* The number of lines at which the log is moved.
Limit(p)  == IF p \in Writer THEN Cap ELSE Trigger
\* Where a call goes on when it does not get, or gives back, the lock.
After(p)  == IF p \in Writer THEN "open" ELSE "idle"

Inside == {"verify", "move", "index", "reread", "open_seed", "seed", "release"}

Goto(p, place) == pc' = [pc EXCEPT ![p] = place]

Fault == /\ faults < MaxFaults                         \* bound
         /\ faults' = faults + 1

Init ==
    /\ text = IF Before = 0 THEN <<>> ELSE <<[i \in 1 .. Before |-> EventLine(i)]>>
    /\ live = IF Before = 0 THEN 0 ELSE 1
    /\ archived = {} /\ index = {}
    /\ lock = [l \in Locks |-> Nobody]
    /\ aged = {} /\ outlived = {}
    /\ pc = [p \in Proc |-> "idle"]
    /\ file = [p \in Mover |-> 0]
    /\ event = [w \in Writer |-> 0]
    /\ seed = [c \in Compactor |-> <<>>]
    /\ seen = [p \in Compactor \union Reader |-> {}]
    /\ known = [r \in Reader |-> {}]
    /\ answer = [r \in Reader |-> {}]
    /\ tier = [r \in Reader |-> "none"]
    /\ moved = [r \in Reader |-> FALSE]
    /\ next = Before  /\ faults = 0
-----------------------------------------------------------------------------
(* Taking and giving back a lock: tryLock (hooks/lib/archive.js).          *)

Own(l, p) == /\ lock' = [lock EXCEPT ![l] = p]
             /\ UNCHANGED <<aged, outlived>>

Unlink(l) == /\ lock' = [lock EXCEPT ![l] = Nobody]
             /\ aged' = aged \ {l}
             /\ UNCHANGED outlived

\* fs.openSync(lockPath, "wx")
TakeLock(p) ==
    /\ pc[p] = "lock"
    /\ IF lock[LockOf(p)] = Nobody
       THEN Own(LockOf(p), p) /\ Goto(p, "verify")
       ELSE Goto(p, "judge") /\ UNCHANGED locks
    /\ UNCHANGED <<disk, work, query, counts>>

\* mutant of JudgeLock: a lock file of any age is removed.
JudgeLockOld(p) ==
    /\ pc[p] = "judge"
    /\ Goto(p, IF lock[LockOf(p)] # Nobody THEN "evict" ELSE After(p))
    /\ UNCHANGED <<disk, locks, work, query, counts>>

\* fs.statSync: no file any more, or a fresh one, is a refusal; an old one is
\* to be removed.
JudgeLock(p) ==
    /\ pc[p] = "judge"
    /\ Goto(p, IF LockOf(p) \in aged THEN "evict" ELSE After(p))
    /\ UNCHANGED <<disk, locks, work, query, counts>>

\* fs.unlinkSync(lockPath): whatever lock file is there by now
EvictLock(p) ==
    /\ pc[p] = "evict"
    /\ Unlink(LockOf(p))
    /\ Goto(p, "retry")
    /\ UNCHANGED <<disk, work, query, counts>>

RetryLock(p) ==
    /\ pc[p] = "retry"
    /\ IF lock[LockOf(p)] = Nobody
       THEN Own(LockOf(p), p) /\ Goto(p, "verify")
       ELSE Goto(p, After(p)) /\ UNCHANGED locks
    /\ UNCHANGED <<disk, work, query, counts>>

\* The closure tryLock returns: unlinks the lock file, whoever owns it by now.
Release(p) ==
    /\ pc[p] = "release"
    /\ Unlink(LockOf(p))
    /\ Goto(p, After(p))
    /\ file' = [file EXCEPT ![p] = 0]
    /\ seed' = [c \in Compactor |-> IF c = p THEN <<>> ELSE seed[c]]
    /\ UNCHANGED <<disk, event, seen, query, counts>>
-----------------------------------------------------------------------------
(* Moving the log into the archive: the second look under the lock         *)
(* (rotateIfNeeded, compactOnce) and archive().                            *)

Verify(p) ==
    /\ pc[p] = "verify"
    /\ Goto(p, IF LiveLines >= Limit(p) THEN "move" ELSE "release")
    /\ UNCHANGED <<disk, locks, work, query, counts>>

\* mutant of Move: every generation is archived under the same name, so that
\* the rename replaces the one before.
MoveOverLast(p) ==
    /\ pc[p] = "move"
    /\ live # 0
    /\ archived' = {live}
    /\ live' = 0
    /\ file' = [file EXCEPT ![p] = live]
    /\ moved' = [r \in Reader |-> moved[r] \/ pc[r] = "live"]
    /\ Goto(p, "index")
    /\ UNCHANGED <<text, index, locks, event, seed, seen, known, answer, tier, counts>>

\* mutant of Move: the log is linked into the archive and stays in place.
MoveByLink(p) ==
    /\ pc[p] = "move"
    /\ live # 0
    /\ archived' = archived \union {live}
    /\ file' = [file EXCEPT ![p] = live]
    /\ moved' = [r \in Reader |-> moved[r] \/ pc[r] = "live"]
    /\ Goto(p, "index")
    /\ UNCHANGED <<text, live, index, locks, event, seed, seen, known, answer, tier, counts>>

\* fs.renameSync(events.jsonl, archive/<unique name>)
Move(p) ==
    /\ pc[p] = "move"
    /\ live # 0
    /\ archived' = archived \union {live}
    /\ live' = 0
    /\ file' = [file EXCEPT ![p] = live]
    /\ moved' = [r \in Reader |-> moved[r] \/ pc[r] = "live"]
    /\ Goto(p, "index")
    /\ UNCHANGED <<text, index, locks, event, seed, seen, known, answer, tier, counts>>

\* "missing" or "move-failed": the log is gone already, or cannot be renamed.
MoveFails(p) ==
    /\ pc[p] = "move"
    /\ (live = 0 /\ UNCHANGED faults) \/ Fault
    /\ Goto(p, "release")
    /\ UNCHANGED <<disk, locks, work, query, next>>

\* mutant of Index: the summary names the generation, indexed or not.
IndexAnyRef(p) ==
    /\ pc[p] = "index"
    /\ \/ index' = index \union {file[p]} /\ UNCHANGED faults
       \/ Fault /\ UNCHANGED index
    /\ seed' = [c \in Compactor |-> IF c = p THEN <<SummaryOf(file[p])>> ELSE seed[c]]
    /\ Goto(p, IF p \in Writer THEN "release" ELSE "reread")
    /\ UNCHANGED <<text, live, archived, locks, file, event, seen, query, next>>

\* appendIndex, a second time when the first failed.  A compactor remembers
\* what its summary will name: the generation, or null when it is unindexed.
Index(p) ==
    /\ pc[p] = "index"
    /\ \/ index' = index \union {file[p]} /\ UNCHANGED faults
       \/ Fault /\ UNCHANGED index
    /\ seed' = [c \in Compactor |->
                  IF c = p THEN <<SummaryOf(IF file[p] \in index' THEN file[p] ELSE 0)>>
                  ELSE seed[c]]
    /\ Goto(p, IF p \in Writer THEN "release" ELSE "reread")
    /\ UNCHANGED <<text, live, archived, locks, file, event, seen, query, next>>
-----------------------------------------------------------------------------
(* Logging an event: log (hooks/lib/logger.js).                            *)

\* The event gets its id; rotateSink looks whether the log is over its cap.
StartLog(w) ==
    /\ pc[w] = "idle" /\ next < MaxEvents
    /\ next' = next + 1
    /\ event' = [event EXCEPT ![w] = next + 1]
    /\ Goto(w, IF LiveLines >= Cap THEN "lock" ELSE "open")
    /\ UNCHANGED <<disk, locks, file, seed, seen, query, faults>>

\* Opens the path of the log, creating an empty file when there is none.
OpenLive(p, place) ==
    /\ IF live = 0
       THEN /\ text' = Append(text, <<>>)
            /\ live' = Len(text) + 1
       ELSE UNCHANGED <<text, live>>
    /\ file' = [file EXCEPT ![p] = IF live = 0 THEN Len(text) + 1 ELSE live]
    /\ Goto(p, place)

OpenLog(w) ==
    /\ pc[w] = "open"
    /\ OpenLive(w, "write")
    /\ UNCHANGED <<archived, index, locks, event, seed, seen, query, counts>>

EndLog(w) == /\ file' = [file EXCEPT ![w] = 0]
             /\ event' = [event EXCEPT ![w] = 0]
             /\ Goto(w, "idle")

WriteEvent(w) ==
    /\ pc[w] = "write"
    /\ text' = [text EXCEPT ![file[w]] = Appended(@, <<EventLine(event[w])>>)]
    /\ EndLog(w)
    /\ UNCHANGED <<live, archived, index, locks, seed, seen, query, counts>>

\* log swallows every error: the event is gone and its caller goes on.
AppendFails(w) ==
    /\ pc[w] \in {"open", "write"}
    /\ Fault
    /\ EndLog(w)
    /\ UNCHANGED <<disk, locks, seed, seen, query, next>>
-----------------------------------------------------------------------------
(* A compaction pass: compactOnce (events/events-compact.js).              *)

\* S0, the first half of reconcileOrphans: the archive directory is listed.
StartCompact(c) ==
    /\ pc[c] = "idle"
    /\ seen' = [seen EXCEPT ![c] = archived]
    /\ Goto(c, "reconcile")
    /\ UNCHANGED <<disk, locks, file, event, seed, query, counts>>

\* The second half: what was listed and is not indexed is appended to the
\* index, as far as the appends succeed.
Reconcile(c) ==
    /\ pc[c] = "reconcile"
    /\ \/ index' = index \union seen[c] /\ UNCHANGED faults
       \/ /\ Fault
          /\ \E done \in SUBSET (seen[c] \ index) : index' = index \union done
    /\ seen' = [seen EXCEPT ![c] = {}]
    /\ Goto(c, "fold")
    /\ UNCHANGED <<text, live, archived, locks, file, event, seed, query, next>>

\* S2 and S3: nothing to fold below the trigger.
FoldNeeded(c) ==
    /\ pc[c] = "fold"
    /\ Goto(c, IF LiveLines >= Trigger THEN "lock" ELSE "idle")
    /\ UNCHANGED <<disk, locks, work, query, counts>>

\* The tail comes from the archived copy, which also holds what was appended
\* between the second look and the rename.
ReadArchived(c) ==
    /\ pc[c] = "reread"
    /\ seed' = [seed EXCEPT ![c] = @ \o LastLines(text[file[c]])]
    /\ Goto(c, "open_seed")
    /\ UNCHANGED <<disk, locks, file, event, seen, query, counts>>

\* "archived-copy-unreadable": no reseed
ReadArchivedFails(c) ==
    /\ pc[c] = "reread"
    /\ Fault
    /\ Goto(c, "release")
    /\ UNCHANGED <<disk, locks, work, query, next>>

\* S9: reseed appends the summary and the tail to the log, which a writer may
\* have created again meanwhile.
OpenSeed(c) ==
    /\ pc[c] = "open_seed"
    /\ OpenLive(c, "seed")
    /\ UNCHANGED <<archived, index, locks, event, seed, seen, query, counts>>

WriteSeed(c) ==
    /\ pc[c] = "seed"
    /\ text' = [text EXCEPT ![file[c]] = Appended(@, seed[c])]
    /\ Goto(c, "release")
    /\ UNCHANGED <<live, archived, index, locks, work, query, counts>>

\* The append fails before it wrote everything (S9-partial, "reseed-failed").
WriteSeedFails(c) ==
    /\ pc[c] = "seed"
    /\ Fault
    /\ \E new \in Partial(seed[c]) :
        text' = [text EXCEPT ![file[c]] = Appended(@, new)]
    /\ Goto(c, "release")
    /\ UNCHANGED <<live, archived, index, locks, work, query, next>>
-----------------------------------------------------------------------------
(* events query --archive: query and readArchiveStrict (events/cli.js).    *)

\* The index is read first; without one, the archive is taken to be absent.
StartQuery(r) ==
    /\ pc[r] = "idle"
    /\ known' = [known EXCEPT ![r] = Readable]
    /\ seen' = [seen EXCEPT ![r] = index]
    /\ tier' = [tier EXCEPT ![r] = IF index = {} THEN "absent" ELSE "healthy"]
    /\ answer' = [answer EXCEPT ![r] = {}]
    /\ moved' = [moved EXCEPT ![r] = FALSE]
    /\ Goto(r, IF index = {} THEN "live" ELSE "gens")
    /\ UNCHANGED <<disk, locks, file, event, seed, counts>>

\* Every generation the index named is read.  (An archived file can only
\* grow, by a late append; reading them one by one could find more, not less.)
ReadGenerations(r) ==
    /\ pc[r] = "gens"
    /\ answer' = [answer EXCEPT ![r] = UNION {Parsed(f) : f \in seen[r]}]
    /\ Goto(r, "list")
    /\ UNCHANGED <<disk, locks, work, known, tier, moved, counts>>

\* mutant of ListArchive: files that the index does not name are ignored.
ListNothing(r) ==
    /\ pc[r] = "list"
    /\ Goto(r, "live")
    /\ moved' = [moved EXCEPT ![r] = FALSE]
    /\ UNCHANGED <<disk, locks, work, known, answer, tier, counts>>

\* The directory is listed last: a file the index did not name is a refusal.
ListArchive(r) ==
    /\ pc[r] = "list"
    /\ IF archived \subseteq seen[r]
       THEN Goto(r, "live") /\ UNCHANGED <<tier, answer>>
       ELSE /\ tier' = [tier EXCEPT ![r] = "corrupt"]
            /\ answer' = [answer EXCEPT ![r] = {}]
            /\ Goto(r, "answered")
    /\ moved' = [moved EXCEPT ![r] = FALSE]
    /\ UNCHANGED <<disk, locks, work, known, counts>>

\* readLiveStrict, after the archive: no log is an empty log.
ReadLive(r) ==
    /\ pc[r] = "live"
    /\ answer' = [answer EXCEPT ![r] = @ \union (IF live = 0 THEN {} ELSE Parsed(live))]
    /\ Goto(r, "answered")
    /\ UNCHANGED <<disk, locks, work, known, tier, moved, counts>>

EndQuery(r) ==
    /\ pc[r] = "answered"
    /\ known' = [known EXCEPT ![r] = {}]
    /\ seen' = [seen EXCEPT ![r] = {}]
    /\ answer' = [answer EXCEPT ![r] = {}]
    /\ tier' = [tier EXCEPT ![r] = "none"]
    /\ moved' = [moved EXCEPT ![r] = FALSE]
    /\ Goto(r, "idle")
    /\ UNCHANGED <<disk, locks, file, event, seed, counts>>
-----------------------------------------------------------------------------
\* Sixty seconds pass over a lock file; that its owner is still at work then
\* is a fault.
AgeLock(l) ==
    /\ lock[l] # Nobody /\ l \notin aged
    /\ IF pc[lock[l]] \in Inside THEN Fault ELSE UNCHANGED faults
    /\ aged' = aged \union {l}
    /\ outlived' = outlived \union {l}
    /\ UNCHANGED <<disk, lock, pc, work, query, next>>

\* A process dies; its lock file stays.  A compactor may die in the middle of
\* the reseed.
Crash(p) ==
    /\ pc[p] # "idle" /\ Fault
    /\ IF pc[p] = "seed"
       THEN \E new \in Partial(seed[p]) :
               text' = [text EXCEPT ![file[p]] = Appended(@, new)]
       ELSE UNCHANGED text
    /\ file' = [file EXCEPT ![p] = 0]
    /\ event' = [w \in Writer |-> IF w = p THEN 0 ELSE event[w]]
    /\ seed' = [c \in Compactor |-> IF c = p THEN <<>> ELSE seed[c]]
    /\ seen' = [q \in DOMAIN seen |-> IF q = p THEN {} ELSE seen[q]]
    /\ Goto(p, "idle")
    /\ UNCHANGED <<live, archived, index, locks, query, next>>

MoverStep(p) ==
    \/ TakeLock(p) \/ JudgeLock(p) \/ EvictLock(p) \/ RetryLock(p) \/ Release(p)
    \/ Verify(p) \/ Move(p) \/ MoveFails(p) \/ Index(p)
WriterStep(w) ==
    StartLog(w) \/ OpenLog(w) \/ WriteEvent(w) \/ AppendFails(w)
CompactorStep(c) ==
    \/ StartCompact(c) \/ Reconcile(c) \/ FoldNeeded(c) \/ ReadArchived(c)
    \/ ReadArchivedFails(c) \/ OpenSeed(c) \/ WriteSeed(c) \/ WriteSeedFails(c)
ReaderStep(r) ==
    StartQuery(r) \/ ReadGenerations(r) \/ ListArchive(r) \/ ReadLive(r) \/ EndQuery(r)

Next ==
    \/ \E p \in Mover : MoverStep(p) \/ Crash(p)
    \/ \E w \in Writer : WriterStep(w)
    \/ \E c \in Compactor : CompactorStep(c)
    \/ \E r \in Reader : ReaderStep(r)
    \/ \E l \in Locks : AgeLock(l)

Spec == Init /\ [][Next]_vars
-----------------------------------------------------------------------------
(* Properties.                                                             *)

MoverPlaces  == Inside \union {"idle", "lock", "judge", "evict", "retry"}
WriterPlaces == (MoverPlaces \ {"reread", "open_seed", "seed"}) \union {"open", "write"}
CompactorPlaces == MoverPlaces \union {"reconcile", "fold"}
ReaderPlaces == {"idle", "gens", "list", "live", "answered"}
Tiers == {"none", "absent", "healthy", "corrupt"}

\* The places where a process works on an inode.
Holding == {"index", "reread", "open_seed", "seed", "write"}

\* Every variable has its type; a file is at the path of the log or in the
\* archive and never at both, and a process that moved or opened a file names
\* one that exists.  Only movers own lock files, and only a lock file that is
\* there can be old.
TypeOK ==
    /\ text \in Seq(Seq(Line))
    /\ live \in {0} \union Files /\ live \notin archived
    /\ archived \union {live} = IF live = 0 THEN {0} \union Files ELSE Files
    /\ index \subseteq archived
    /\ lock \in [Locks -> Mover \union {Nobody}]
    /\ aged \subseteq {l \in Locks : lock[l] # Nobody}
    /\ aged \subseteq outlived /\ outlived \subseteq Locks
    /\ pc \in [Proc -> WriterPlaces \union CompactorPlaces \union ReaderPlaces]
    /\ \A w \in Writer : pc[w] \in WriterPlaces
    /\ \A c \in Compactor : pc[c] \in CompactorPlaces
    /\ \A r \in Reader : pc[r] \in ReaderPlaces
    /\ file \in [Mover -> {0} \union Files]
    /\ \A p \in Mover : pc[p] \in Holding \ {"open_seed"} => file[p] # 0
    /\ event \in [Writer -> 0 .. MaxEvents]
    /\ seed \in [Compactor -> Seq(Line)]
    /\ seen \in [Compactor \union Reader -> SUBSET archived]
    /\ known \in [Reader -> SUBSET (1 .. MaxEvents)]
    /\ answer \in [Reader -> SUBSET (1 .. MaxEvents)]
    /\ tier \in [Reader -> Tiers]
    /\ moved \in [Reader -> BOOLEAN]
    /\ next \in 0 .. MaxEvents /\ faults \in 0 .. MaxFaults

\* events query --archive "refuses to print a partial/incomplete history"
\* (cli.js:338): a history that it prints from a healthy archive holds every
\* event that could be read when the query began, through rotations,
\* compactions and faults at any point of them, as long as the log was not
\* moved between the listing of the archive and the reading of the log.
QuietQueryComplete ==
    \A r \in Reader :
        (pc[r] = "answered" /\ tier[r] = "healthy" /\ ~moved[r])
            => known[r] \subseteq answer[r]

\* A summary line that names a generation names one that is in the archive
\* and in the index, wherever that line has been carried: a reader that drops
\* a redundant summary (suppressRedundantSummaries) can read what it sums up.
SummariesIndexed ==
    \A f \in Files : \A i \in 1 .. Len(text[f]) :
        (text[f][i].kind = "summary" /\ text[f][i].of # 0)
            => text[f][i].of \in index

\* "single-writer lock" (events-compact.js, S4) and the rotation lock: no two
\* processes are behind the same lock, as long as no lock file has outlived
\* its sixty seconds.
OneMoverWhileFresh ==
    \A p, q \in Mover :
        (/\ LockOf(p) = LockOf(q) /\ LockOf(p) \notin outlived
         /\ pc[p] \in Inside /\ pc[q] \in Inside) => p = q

\* "Raw history is NEVER destroyed" (events-compact.js): the log with its
\* rotations, compactions, torn reseeds and faults implements a history that
\* only grows, by one event at a time.
Log == INSTANCE EventLog WITH Event <- 1 .. MaxEvents, history <- History
ImplementsEventLog == Log!Spec
=============================================================================

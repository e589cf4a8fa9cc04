--------------------------- MODULE ConductorLease ---------------------------
(***************************************************************************)
(* The conductor lease of one SP-id (src/scripts/dispatch/                 *)
(* conductor-lease.js): a file <SP>.lease naming the holder and its        *)
(* fencing token, and an append-only <SP>.claimlog that numbers the tokens.*)
(* acquire creates the lease file exclusively; release, renew and reclaim  *)
(* run inside withMutationLock, used here through its abstraction          *)
(* CrashLock (MutationLock implements it).  Every file-system call is one  *)
(* step and a process may die between any two of them.                     *)
(***************************************************************************)
EXTENDS Naturals, Sequences, FiniteSetsExt, Functions

CONSTANTS Proc,       \* processes that use the lease
          NoProc,     \* nobody
          MaxClaims,  \* bound on the tokens minted in a behaviour
          PidsReused  \* may the pid of a dead process be in use again?

ASSUME NobodyIsNotAProcess == NoProc \notin Proc
ASSUME ClaimsAreBounded == MaxClaims \in Nat
ASSUME PidsReusedIsBoolean == PidsReused \in BOOLEAN

Token == 1..MaxClaims

(***************************************************************************)
(* The lease file: absent; blank (created or truncated, its JSON not yet   *)
(* written) with the process that has it open; or held.  fresh says that   *)
(* renewed_at is at most STALE_AFTER_MS ago.                               *)
(***************************************************************************)
Absent         == [kind |-> "absent", pid |-> NoProc, token |-> 0, fresh |-> FALSE]
Blank(p)       == [kind |-> "blank", pid |-> p, token |-> 0, fresh |-> FALSE]
Held(p, t, f)  == [kind |-> "held", pid |-> p, token |-> t, fresh |-> f]

VARIABLES
  alive,    \* alive[p]: p has not died
  lock,     \* the owner of the mutation lock, or NoProc
  lease,    \* the lease file
  claimlog, \* the tokens in the claim log, in the order of its lines
  pc,       \* pc[p]: the file-system call p makes next
  tok,      \* tok[p]: the token of p's call: its argument, or what it mints
  read      \* read[p]: the lease as p's renew read it, to be written back

vars == <<alive, lock, lease, claimlog, pc, tok, read>>

MintPC   == {"mintRead", "mintAppend", "stamp"}
LockedPC == {"relRead", "relUnlink", "renRead", "renTrunc", "renWrite",
             "rcRead", "rcUnlink", "rcOpen", "unlock"}
PC == {"idle"} \cup MintPC \cup LockedPC

Lease == [kind : {"absent"}, pid : {NoProc}, token : {0}, fresh : {FALSE}]
         \cup [kind : {"blank"}, pid : Proc, token : {0}, fresh : {FALSE}]
         \cup [kind : {"held"}, pid : Proc, token : Token, fresh : BOOLEAN]

TypeOK ==
  /\ alive \in [Proc -> BOOLEAN]
  /\ lock \in Proc \cup {NoProc}
  /\ lease \in Lease
  /\ claimlog \in Seq(Token)
  /\ pc \in [Proc -> PC]
  /\ tok \in [Proc -> 0..MaxClaims]
  /\ read \in [Proc -> Lease]

Init ==
  /\ alive = [p \in Proc |-> TRUE]
  /\ lock = NoProc
  /\ lease = Absent
  /\ claimlog = <<>>
  /\ pc = [p \in Proc |-> "idle"]
  /\ tok = [p \in Proc |-> 0]
  /\ read = [p \in Proc |-> Absent]
-----------------------------------------------------------------------------
Lock == INSTANCE CrashLock WITH holder <- lock

At(p, l) == alive[p] /\ pc[p] = l

Goto(p, l) == pc' = [pc EXCEPT ![p] = l]

\* What kill(pid, 0) may answer.  Only ESRCH proves death; EPERM does not.
Verdicts(p) == IF alive[p] THEN {"live", "indeterminate"}
               ELSE IF PidsReused THEN {"dead", "live", "indeterminate"}
               ELSE {"dead"}

\* maxSeq: the largest token of the claim log, 0 when there is none.
MaxSeq(log) == Max({0} \cup Range(log))

\* A call that runs inside the mutation lock still has to return the lock.
Return(p) ==
  /\ Goto(p, IF lock = p THEN "unlock" ELSE "idle")
  /\ tok' = [tok EXCEPT ![p] = 0]
  /\ read' = [read EXCEPT ![p] = Absent]

\* Does the lease name the token the caller presents?
Matches(p) == lease.kind = "held" /\ lease.token = tok[p]
-----------------------------------------------------------------------------
\* Mutant of AcquireOpen: an existing file is opened as well.
AcquireOpenShared(p) ==
  /\ At(p, "idle")
  /\ lease' = Blank(p)
  /\ Goto(p, "mintRead")
  /\ UNCHANGED <<alive, lock, claimlog, tok, read>>

\* Mutant of AcquireOpen: the holder is written before it has a token.
AcquireOpenEarly(p) ==
  /\ At(p, "idle")
  /\ lease.kind = "absent"
  /\ lease' = Held(p, tok[p], TRUE)
  /\ Goto(p, "mintRead")
  /\ UNCHANGED <<alive, lock, claimlog, tok, read>>

(***************************************************************************)
(* acquire: not under the mutation lock.  An existing file, even a blank   *)
(* one, makes it answer "held" without changing anything.                  *)
(***************************************************************************)
AcquireOpen(p) ==
  /\ At(p, "idle")
  /\ lease.kind = "absent"
  /\ lease' = Blank(p)
  /\ Goto(p, "mintRead")
  /\ UNCHANGED <<alive, lock, claimlog, tok, read>>

\* Mutant of MintRead: the token is not logged.
MintReadUnlogged(p) ==
  /\ At(p, "mintRead")
  /\ MaxSeq(claimlog) < MaxClaims
  /\ tok' = [tok EXCEPT ![p] = MaxSeq(claimlog) + 1]
  /\ Goto(p, "stamp")
  /\ UNCHANGED <<alive, lock, lease, claimlog, read>>

\* Mutant of MintRead: the last token again.
MintReadSame(p) ==
  /\ At(p, "mintRead")
  /\ tok' = [tok EXCEPT ![p] = MaxSeq(claimlog)]
  /\ Goto(p, "mintAppend")
  /\ UNCHANGED <<alive, lock, lease, claimlog, read>>

MintRead(p) ==
  /\ At(p, "mintRead")
  /\ MaxSeq(claimlog) < MaxClaims
  /\ tok' = [tok EXCEPT ![p] = MaxSeq(claimlog) + 1]
  /\ Goto(p, "mintAppend")
  /\ UNCHANGED <<alive, lock, lease, claimlog, read>>

MintAppend(p) ==
  /\ At(p, "mintAppend")
  /\ claimlog' = Append(claimlog, tok[p])
  /\ Goto(p, "stamp")
  /\ UNCHANGED <<alive, lock, lease, tok, read>>

\* The holder goes through the descriptor of the file p opened: a lease that
\* is not p's blank file any more is another file.
StampLease(p) ==
  /\ At(p, "stamp")
  /\ lease' = IF lease = Blank(p) THEN Held(p, tok[p], TRUE) ELSE lease
  /\ Return(p)
  /\ UNCHANGED <<alive, lock, claimlog>>

\* The append or the write throws: the file stays blank.
ClaimFails(p) ==
  /\ At(p, "mintAppend") \/ At(p, "stamp")
  /\ Return(p)
  /\ UNCHANGED <<alive, lock, lease, claimlog>>
-----------------------------------------------------------------------------
\* withMutationLock(fn): p takes the lock and starts fn.  A caller of release
\* and renew presents any token; a call that gives up changes nothing.
Enter(p, l, t) ==
  /\ At(p, "idle")
  /\ Lock!Take(p)
  /\ Goto(p, l)
  /\ tok' = [tok EXCEPT ![p] = t]
  /\ UNCHANGED <<lease, claimlog, read>>

Unlock(p) ==
  /\ At(p, "unlock")
  /\ Lock!Drop(p)
  /\ Goto(p, "idle")
  /\ UNCHANGED <<lease, claimlog, tok, read>>

\* A contender retires the lock of a process that died inside.
RetireLock ==
  /\ Lock!Retire
  /\ UNCHANGED <<lease, claimlog, pc, tok, read>>
-----------------------------------------------------------------------------
Release(p) == \E t \in Token : Enter(p, "relRead", t)

\* "not-held" and "fencing-mismatch" leave the lease alone.
ReleaseRead(p) ==
  /\ At(p, "relRead")
  /\ IF Matches(p) THEN Goto(p, "relUnlink") /\ UNCHANGED <<tok, read>>
                   ELSE Return(p)
  /\ UNCHANGED <<alive, lock, lease, claimlog>>

\* An unlink that fails is ignored.
ReleaseUnlink(p) ==
  /\ At(p, "relUnlink")
  /\ lease' \in {Absent, lease}
  /\ Return(p)
  /\ UNCHANGED <<alive, lock, claimlog>>
-----------------------------------------------------------------------------
Renew(p) == \E t \in Token : Enter(p, "renRead", t)

RenewRead(p) ==
  /\ At(p, "renRead")
  /\ IF Matches(p)
     THEN /\ read' = [read EXCEPT ![p] = lease]
          /\ Goto(p, "renTrunc")
          /\ UNCHANGED tok
     ELSE Return(p)
  /\ UNCHANGED <<alive, lock, lease, claimlog>>

\* writeFileSync opens the file with O_TRUNC, then writes it.
RenewTruncate(p) ==
  /\ At(p, "renTrunc")
  /\ lease' = Blank(p)
  /\ Goto(p, "renWrite")
  /\ UNCHANGED <<alive, lock, claimlog, tok, read>>

RenewWrite(p) ==
  /\ At(p, "renWrite")
  /\ lease' = IF lease = Blank(p) THEN [read[p] EXCEPT !.fresh = TRUE] ELSE lease
  /\ Return(p)
  /\ UNCHANGED <<alive, lock, claimlog>>

\* The write throws after the truncation.
RenewFails(p) ==
  /\ At(p, "renWrite")
  /\ Return(p)
  /\ UNCHANGED <<alive, lock, lease, claimlog>>
-----------------------------------------------------------------------------
Reclaim(p) == Enter(p, "rcRead", 0)

\* Mutant of Superseded: an indeterminate holder is taken for a dead one.
SupersededUnproven(l) == "indeterminate" \in Verdicts(l.pid) \/ ~l.fresh

\* The holder is proven dead, or looks alive and has not renewed in time.
Superseded(l) == \/ "dead" \in Verdicts(l.pid)
                 \/ "live" \in Verdicts(l.pid) /\ ~l.fresh

\* "lease-indeterminate" or "lease-active".
Respected(l) == \/ "indeterminate" \in Verdicts(l.pid)
                \/ "live" \in Verdicts(l.pid) /\ l.fresh

\* A file without a readable holder is not unlinked.
ReclaimRead(p) ==
  /\ At(p, "rcRead")
  /\ \/ /\ lease.kind # "held"
        /\ Goto(p, "rcOpen")
        /\ UNCHANGED <<tok, read>>
     \/ /\ lease.kind = "held" /\ Superseded(lease)
        /\ Goto(p, "rcUnlink")
        /\ UNCHANGED <<tok, read>>
     \/ /\ lease.kind = "held" /\ Respected(lease)
        /\ Return(p)
  /\ UNCHANGED <<alive, lock, lease, claimlog>>

ReclaimUnlink(p) ==
  /\ At(p, "rcUnlink")
  /\ lease' \in {Absent, lease}
  /\ Goto(p, "rcOpen")
  /\ UNCHANGED <<alive, lock, claimlog, tok, read>>

\* An acquire may have come first: "raced".
ReclaimOpen(p) ==
  /\ At(p, "rcOpen")
  /\ IF lease.kind = "absent"
     THEN lease' = Blank(p) /\ Goto(p, "mintRead") /\ UNCHANGED <<tok, read>>
     ELSE Return(p) /\ UNCHANGED lease
  /\ UNCHANGED <<alive, lock, claimlog>>
-----------------------------------------------------------------------------
\* STALE_AFTER_MS pass without a renewal.
Age ==
  /\ lease.kind = "held"
  /\ lease.fresh
  /\ lease' = [lease EXCEPT !.fresh = FALSE]
  /\ UNCHANGED <<alive, lock, claimlog, pc, tok, read>>

\* A crash leaves every file as it is.
Crash(p) ==
  /\ Lock!Die(p)
  /\ UNCHANGED <<lease, claimlog, pc, tok, read>>

Step(p) ==
  \/ AcquireOpen(p) \/ MintRead(p) \/ MintAppend(p) \/ StampLease(p) \/ ClaimFails(p)
  \/ Release(p) \/ ReleaseRead(p) \/ ReleaseUnlink(p)
  \/ Renew(p) \/ RenewRead(p) \/ RenewTruncate(p) \/ RenewWrite(p) \/ RenewFails(p)
  \/ Reclaim(p) \/ ReclaimRead(p) \/ ReclaimUnlink(p) \/ ReclaimOpen(p)
  \/ Unlock(p)

Next == (\E p \in Proc : Step(p) \/ Crash(p)) \/ RetireLock \/ Age

Spec == Init /\ [][Next]_vars
-----------------------------------------------------------------------------
\* No token is minted twice, whatever crashes, fails or interleaves: two
\* holders never share a fencing token.
TokensNeverReused ==
  \A i, j \in DOMAIN claimlog : i < j => claimlog[i] < claimlog[j]

\* The token that verifies is the newest of the claim log: a superseded
\* token does not verify, even while acquire runs outside the mutation lock.
NewestClaimHolds == lease.kind = "held" => lease.token = MaxSeq(claimlog)

\* A fresh lease of a live process is taken away only by a release or a
\* renewal that presents its token, never by reclaim.
LiveLeaseNotStolen ==
  [][lease.kind = "held" /\ alive[lease.pid] /\ lease.fresh =>
       \/ lease'.kind = "held" /\ lease'.token = lease.token
       \/ \E p \in Proc : /\ pc[p] \in {"relUnlink", "renTrunc"}
                          /\ pc'[p] # pc[p]
                          /\ tok[p] = lease.token]_vars

(***************************************************************************)
(* Why these hold: a process between the open (or truncation) of the lease *)
(* file and its write is the only one, since its blank file refuses every  *)
(* open and is never unlinked; a process that read a holder inside the     *)
(* mutation lock still finds that holder when it acts on it.               *)
(***************************************************************************)
WriterPC == MintPC \cup {"renWrite"}

LockedOwnsLock == \A p \in Proc : alive[p] /\ pc[p] \in LockedPC => lock = p

OneWriter == \A p \in Proc : pc[p] \in WriterPC => lease = Blank(p)

MintsTheNext ==
  \A p \in Proc : /\ pc[p] = "mintAppend" => tok[p] = MaxSeq(claimlog) + 1
                  /\ pc[p] \in {"stamp", "renWrite"} =>
                       tok[p] = MaxSeq(claimlog) /\ tok[p] > 0

RenewsWhatItRead ==
  \A p \in Proc : pc[p] \in {"renTrunc", "renWrite"} =>
    read[p].kind = "held" /\ read[p].token = tok[p]

ActsOnWhatItRead ==
  \A p \in Proc : alive[p] =>
    /\ pc[p] \in {"relUnlink", "renTrunc"} => Matches(p)
    /\ pc[p] = "rcUnlink" => lease.kind = "held" /\ (~alive[lease.pid] \/ ~lease.fresh)

IInv == /\ TypeOK
        /\ TokensNeverReused
        /\ NewestClaimHolds
        /\ LockedOwnsLock
        /\ OneWriter
        /\ MintsTheNext
        /\ RenewsWhatItRead
        /\ ActsOnWhatItRead

\* The lease file and the claim log implement FencedLease.  A token verifies
\* while the file is readable; a renewal that is under way keeps it.
Fence == INSTANCE FencedLease WITH
  newest  <- MaxSeq(claimlog),
  pending <- lease.kind = "blank" /\ At(lease.pid, "stamp"),
  holder  <- IF lease.kind = "blank" /\ At(lease.pid, "renWrite")
             THEN tok[lease.pid] ELSE lease.token
ImplementsFencedLease == Fence!Spec

\* "reclaim supersedes a lease whose holder PID is dead (crash simulation)"
\* (src/scripts/dispatch/conductor-lease.test.js:91): reclaim answers "raced"
\* only when a live process holds the lease or is about to.
DeadHolderIsSuperseded ==
  [][\A p \in Proc :
       At(p, "rcOpen") /\ pc'[p] = "unlock" =>
         lease.kind # "absent" /\ alive[lease.pid]]_vars
=============================================================================

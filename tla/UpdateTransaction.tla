-------------------------- MODULE UpdateTransaction --------------------------
(***************************************************************************)
(* mc:update: src/scripts/mc/transaction.js and the apply path of          *)
(* src/scripts/mc/update.js.  An update classifies the destination files,  *)
(* begins a transaction (active.lock checked, every file to be touched     *)
(* copied into the transaction's backup directory, snapshot and header     *)
(* written, active.lock written), applies the decisions file by file,      *)
(* runs the migrations, and commits or rolls back.  `--rollback <tx>`      *)
(* rolls a finished or crashed transaction back from another process.      *)
(*                                                                         *)
(* Transaction t installs version t; version 0 is what the project had.    *)
(* Absent and Torn (a copyFileSync cut short) are contents like any other;  *)
(* a copyFileSync that fails tries to remove what it has written.          *)
(* Migrations, generators and framework-installed.json touch files outside *)
(* the snapshot and are not modelled beyond their success or failure.      *)
(***************************************************************************)
EXTENDS Naturals

CONSTANTS Dest,     \* the destination paths of the release
          MaxTx,    \* bound: transactions that are started
          Absent, Torn, NoTx,
          Serial    \* the operator runs one command at a time

ASSUME BoundAssumption == MaxTx \in Nat
ASSUME SwitchAssumption == Serial \in BOOLEAN
ASSUME NoTxAssumption == NoTx \notin 1..MaxTx

Tx == 1..MaxTx
Version == 0..MaxTx
Content == Version \cup {Absent, Torn}
\* "leave": a file that is snapshotted but not touched (a deletion that was not
\* confirmed or is done already, an update whose content is there)
Actions == {"add", "update", "delete", "leave", "keep"}

VARIABLES
  files,   \* contents of the destination files
  lock,    \* active.lock
  pc,      \* where the process working on each transaction is
  plan,    \* plan.json: the decision for each file
  pre,     \* snapshot.json: what was there (Absent: existed_pre_apply = false)
  backup,  \* the transaction's backup directory
  header,  \* header.json has been written
  result,  \* outcome in result.json
  todo,    \* files the current loop still has to visit
  bad      \* the loop met an error (errors.length > 0, or partial)

vars == <<files, lock, pc, plan, pre, backup, header, result, todo, bad>>

Applying == {"applying", "backing", "backed", "copying", "migrating", "committing"}
Places == {"new", "classified", "checked", "prepared", "restoring", "copyingBack",
           "clearing", "over"} \cup Applying
Outcomes == {"none", "committed", "rolled-back", "rollback-partial"}

Init ==
  /\ files \in [Dest -> {0, Absent}]
  /\ lock = NoTx
  /\ pc = [t \in Tx |-> "new"]
  /\ plan = [t \in Tx |-> [d \in Dest |-> "keep"]]
  /\ pre = [t \in Tx |-> [d \in Dest |-> Absent]]
  /\ backup = [t \in Tx |-> [d \in Dest |-> Absent]]
  /\ header = [t \in Tx |-> FALSE]
  /\ result = [t \in Tx |-> "none"]
  /\ todo = [t \in Tx |-> {}]
  /\ bad = [t \in Tx |-> FALSE]

Running(t) == pc[t] \notin {"new", "over"}
MayStart == Serial => \A t \in Tx : ~Running(t)
Planned(t) == {d \in Dest : plan[t][d] # "keep"}

\* With no header.json, nothing reads the transaction's directory again: what
\* is in it is forgotten.
Forget(t) ==
  /\ plan' = [plan EXCEPT ![t] = [d \in Dest |-> "keep"]]
  /\ pre' = [pre EXCEPT ![t] = [d \in Dest |-> Absent]]
  /\ backup' = [backup EXCEPT ![t] = [d \in Dest |-> Absent]]

\* A rollback reads snapshot.json: of the decisions, only which files they touch.
Listed(t) == [d \in Dest |-> IF plan[t][d] = "keep" THEN "keep" ELSE "leave"]

Goto(t, from, to) == pc[t] = from /\ pc' = [pc EXCEPT ![t] = to]
Visit(t, ds) == todo' = [todo EXCEPT ![t] = ds]

-----------------------------------------------------------------------------
(* run and beginTransaction.                                               *)

\* the decisions a release may lead to, given the files that are there
Decisions == {f \in [Dest -> Actions] : \A d \in Dest :
                f[d] \in (IF files[d] = Absent THEN {"add", "leave", "keep"} ELSE Actions \ {"add"})}

Classify(t) ==
  /\ Goto(t, "new", "classified") /\ MayStart
  /\ \A u \in Tx : u < t => pc[u] # "new"
  /\ \E f \in Decisions : plan' = [plan EXCEPT ![t] = f]
  /\ UNCHANGED <<files, lock, pre, backup, header, result, todo, bad>>

\* the loops take the files in the order of the plan: some fixed order here
Current(t) == CHOOSE d \in todo[t] : TRUE

CheckActiveLock(t) ==
  /\ lock = NoTx /\ Goto(t, "classified", "checked") /\ Visit(t, Planned(t))
  /\ UNCHANGED <<files, lock, plan, pre, backup, header, result, bad>>

\* ETXLOCK, a red fast preflight, or a copy of the snapshot that throws
BeginFails(t) ==
  /\ \/ lock # NoTx /\ Goto(t, "classified", "over")
     \/ Goto(t, "checked", "over")
  /\ Visit(t, {}) /\ Forget(t)
  /\ UNCHANGED <<files, lock, header, result, bad>>

\* The refused operator does as the message says: he inspects active.lock,
\* sees no apply running, removes the file and runs the update again.
RemoveAndRetry(t) ==
  /\ lock # NoTx /\ \A u \in Tx : pc[u] \notin Applying
  /\ Goto(t, "classified", "new") /\ Forget(t)
  /\ lock' = NoTx
  /\ UNCHANGED <<files, header, result, todo, bad>>

\* one entry of buildSnapshotEntries
Snapshot(t) ==
  /\ pc[t] = "checked" /\ todo[t] # {}
  /\ pre' = [pre EXCEPT ![t][Current(t)] = files[Current(t)]]
  /\ backup' = [backup EXCEPT ![t][Current(t)] = files[Current(t)]]
  /\ Visit(t, todo[t] \ {Current(t)})
  /\ UNCHANGED <<files, lock, pc, plan, header, result, bad>>

WriteHeader(t) ==
  /\ Goto(t, "checked", "prepared") /\ todo[t] = {}
  /\ header' = [header EXCEPT ![t] = TRUE]
  /\ UNCHANGED <<files, lock, plan, pre, backup, result, todo, bad>>

WriteActiveLock(t) ==
  /\ Goto(t, "prepared", "applying")
  /\ lock' = t
  /\ Visit(t, Planned(t))
  /\ UNCHANGED <<files, plan, pre, backup, header, result, bad>>

-----------------------------------------------------------------------------
(* applyUpdateDecisions, one file at a time.  pc "backing", "backed" and     *)
(* "copying" are about one file: the one that the loop is at.              *)

\* backupFile copies the file over the copy that the snapshot made, which is
\* truncated first; with no file there, there is nothing to back up
BackupFile(t) ==
  /\ pc[t] = "applying" /\ todo[t] # {} /\ plan[t][Current(t)] # "leave"
  /\ IF files[Current(t)] = Absent
       THEN pc' = [pc EXCEPT ![t] = "backed"] /\ UNCHANGED backup
       ELSE pc' = [pc EXCEPT ![t] = "backing"] /\ backup' = [backup EXCEPT ![t][Current(t)] = Torn]
  /\ UNCHANGED <<files, lock, plan, pre, header, result, todo, bad>>

\* mutant of EndBackup: the backup is taken after the copy
EndBackupAfter(t) ==
  /\ Goto(t, "backing", "backed")
  /\ backup' = [backup EXCEPT ![t][Current(t)] = t]
  /\ UNCHANGED <<files, lock, plan, pre, header, result, todo, bad>>

EndBackup(t) ==
  /\ Goto(t, "backing", "backed")
  /\ backup' = [backup EXCEPT ![t][Current(t)] = files[Current(t)]]
  /\ UNCHANGED <<files, lock, plan, pre, header, result, todo, bad>>

\* copyFileSync truncates the destination before it fills it
StartCopy(t) ==
  /\ Goto(t, "backed", "copying") /\ plan[t][Current(t)] \in {"add", "update"}
  /\ files' = [files EXCEPT ![Current(t)] = Torn]
  /\ UNCHANGED <<lock, plan, pre, backup, header, result, todo, bad>>

EndCopy(t) ==
  /\ Goto(t, "copying", "applying")
  /\ files' = [files EXCEPT ![Current(t)] = t]
  /\ Visit(t, todo[t] \ {Current(t)})
  /\ UNCHANGED <<lock, plan, pre, backup, header, result, bad>>

Delete(t) ==
  /\ Goto(t, "backed", "applying") /\ plan[t][Current(t)] = "delete"
  /\ files' = [files EXCEPT ![Current(t)] = Absent]
  /\ Visit(t, todo[t] \ {Current(t)})
  /\ UNCHANGED <<lock, plan, pre, backup, header, result, bad>>

LeaveAlone(t) ==
  /\ Goto(t, "applying", "applying") /\ todo[t] # {} /\ plan[t][Current(t)] = "leave"
  /\ Visit(t, todo[t] \ {Current(t)})
  /\ UNCHANGED <<files, lock, plan, pre, backup, header, result, bad>>

\* what an error at the current file leaves of a copy that had begun
ApplyDamage(t) ==
  LET d == Current(t) IN
  \/ pc[t] \in {"applying", "backed"} /\ todo[t] # {} /\ UNCHANGED <<files, backup>>
  \/ pc[t] = "backing" /\ UNCHANGED files
     /\ \E c \in {Torn, Absent} : backup' = [backup EXCEPT ![t][d] = c]
  \/ pc[t] = "copying" /\ UNCHANGED backup
     /\ \E c \in {Torn, Absent} : files' = [files EXCEPT ![d] = c]

\* mutant of ApplyError: the error is logged for the file but not counted
ApplyErrorUncounted(t) ==
  /\ ApplyDamage(t)
  /\ pc' = [pc EXCEPT ![t] = "applying"] /\ Visit(t, todo[t] \ {Current(t)})
  /\ UNCHANGED <<lock, plan, pre, header, result, bad>>

\* an error is recorded and the loop goes on with the next file
ApplyError(t) ==
  /\ ApplyDamage(t)
  /\ pc' = [pc EXCEPT ![t] = "applying"] /\ Visit(t, todo[t] \ {Current(t)})
  /\ bad' = [bad EXCEPT ![t] = TRUE]
  /\ UNCHANGED <<lock, plan, pre, header, result>>

ApplyDone(t) ==
  /\ ~bad[t] /\ todo[t] = {}
  /\ Goto(t, "applying", "migrating")
  /\ UNCHANGED <<files, lock, plan, pre, backup, header, result, todo, bad>>

Migrated(t) ==
  /\ Goto(t, "migrating", "committing")
  /\ UNCHANGED <<files, lock, plan, pre, backup, header, result, todo, bad>>

\* the apply phase or the migrations threw: rollbackTransaction in-process
CatchAndRollBack(t) ==
  /\ \/ Goto(t, "applying", "restoring") /\ todo[t] = {} /\ bad[t]
     \/ Goto(t, "migrating", "restoring")
  /\ Visit(t, Planned(t))
  /\ bad' = [bad EXCEPT ![t] = FALSE]
  /\ plan' = [plan EXCEPT ![t] = Listed(t)]
  /\ UNCHANGED <<files, lock, pre, backup, header, result>>

\* metadata, generators, framework-installed.json, then result.json
Commit(t) ==
  /\ Goto(t, "committing", "clearing")
  /\ result' = [result EXCEPT ![t] = "committed"]
  /\ plan' = [plan EXCEPT ![t] = Listed(t)]
  /\ UNCHANGED <<files, lock, pre, backup, header, todo, bad>>

\* the release's metadata is missing: run throws outside its try
MetadataMissing(t) ==
  /\ Goto(t, "committing", "over")
  /\ plan' = [plan EXCEPT ![t] = Listed(t)]
  /\ UNCHANGED <<files, lock, pre, backup, header, result, todo, bad>>

\* mutant of ClearActiveLock: the lock file is emptied, not removed
ClearActiveLockEmpties(t) ==
  /\ Goto(t, "clearing", "over")
  /\ lock' = Absent
  /\ UNCHANGED <<files, plan, pre, backup, header, result, todo, bad>>

\* clearActiveLock: whatever lock is there; a failing unlink is ignored
ClearActiveLock(t) ==
  /\ Goto(t, "clearing", "over")
  /\ lock' \in {lock, NoTx}
  /\ UNCHANGED <<files, plan, pre, backup, header, result, todo, bad>>

-----------------------------------------------------------------------------
(* rollbackTransaction.                                                    *)

\* update.js --rollback t
StartRollback(t) ==
  /\ Goto(t, "over", "restoring") /\ header[t] /\ MayStart
  /\ Visit(t, Planned(t))
  /\ UNCHANGED <<files, lock, plan, pre, backup, header, result, bad>>

Unlink(t) ==
  /\ Goto(t, "restoring", "restoring") /\ todo[t] # {} /\ pre[t][Current(t)] = Absent
  /\ files' = [files EXCEPT ![Current(t)] = Absent]
  /\ Visit(t, todo[t] \ {Current(t)})
  /\ UNCHANGED <<lock, plan, pre, backup, header, result, bad>>

StartRestore(t) ==
  /\ Goto(t, "restoring", "copyingBack") /\ todo[t] # {}
  /\ pre[t][Current(t)] # Absent /\ backup[t][Current(t)] # Absent
  /\ files' = [files EXCEPT ![Current(t)] = Torn]
  /\ UNCHANGED <<lock, plan, pre, backup, header, result, todo, bad>>

EndRestore(t) ==
  /\ Goto(t, "copyingBack", "restoring")
  /\ files' = [files EXCEPT ![Current(t)] = backup[t][Current(t)]]
  /\ Visit(t, todo[t] \ {Current(t)})
  /\ UNCHANGED <<lock, plan, pre, backup, header, result, bad>>

\* what an error at the current file leaves of a copy that had begun
RestoreDamage(t) ==
  \/ pc[t] = "restoring" /\ todo[t] # {} /\ UNCHANGED files
  \/ pc[t] = "copyingBack" /\ \E c \in {Torn, Absent} : files' = [files EXCEPT ![Current(t)] = c]

\* mutant of RestoreError: a missing backup does not make the rollback partial
RestoreErrorIgnored(t) ==
  /\ RestoreDamage(t)
  /\ pc' = [pc EXCEPT ![t] = "restoring"] /\ Visit(t, todo[t] \ {Current(t)})
  /\ UNCHANGED <<lock, plan, pre, backup, header, result, bad>>

\* a missing backup, or a copy or unlink that throws: partial, and go on
RestoreError(t) ==
  /\ RestoreDamage(t)
  /\ pc' = [pc EXCEPT ![t] = "restoring"] /\ Visit(t, todo[t] \ {Current(t)})
  /\ bad' = [bad EXCEPT ![t] = TRUE]
  /\ UNCHANGED <<lock, plan, pre, backup, header, result>>

RolledBack(t) ==
  /\ Goto(t, "restoring", "clearing") /\ todo[t] = {}
  /\ result' = [result EXCEPT ![t] = IF bad[t] THEN "rollback-partial" ELSE "rolled-back"]
  /\ bad' = [bad EXCEPT ![t] = FALSE]
  /\ UNCHANGED <<files, lock, plan, pre, backup, header, todo>>

-----------------------------------------------------------------------------
\* The process dies, wherever it is.
Crash(t) ==
  /\ Running(t)
  /\ pc' = [pc EXCEPT ![t] = "over"] /\ Visit(t, {}) /\ bad' = [bad EXCEPT ![t] = FALSE]
  /\ IF header[t] THEN plan' = [plan EXCEPT ![t] = Listed(t)] /\ UNCHANGED <<pre, backup>> ELSE Forget(t)
  /\ UNCHANGED <<files, lock, header, result>>

Step(t) ==
  \/ Classify(t) \/ CheckActiveLock(t) \/ BeginFails(t) \/ RemoveAndRetry(t) \/ WriteHeader(t) \/ WriteActiveLock(t)
  \/ Snapshot(t) \/ BackupFile(t) \/ EndBackup(t) \/ StartCopy(t) \/ EndCopy(t) \/ Delete(t) \/ LeaveAlone(t) \/ ApplyError(t) \/ ApplyDone(t)
  \/ Migrated(t) \/ CatchAndRollBack(t) \/ Commit(t) \/ MetadataMissing(t) \/ ClearActiveLock(t)
  \/ StartRollback(t) \/ Unlink(t) \/ StartRestore(t) \/ EndRestore(t) \/ RestoreError(t)
  \/ RolledBack(t) \/ Crash(t)

Next == \E t \in Tx : Step(t)

Spec == Init /\ [][Next]_vars

-----------------------------------------------------------------------------
TypeOK ==
  /\ files \in [Dest -> Content]
  /\ lock \in Tx \cup {NoTx}
  /\ pc \in [Tx -> Places]
  /\ plan \in [Tx -> [Dest -> Actions]]
  /\ pre \in [Tx -> [Dest -> Content]] /\ backup \in [Tx -> [Dest -> Content]]
  /\ header \in [Tx -> BOOLEAN] /\ bad \in [Tx -> BOOLEAN]
  /\ result \in [Tx -> Outcomes]
  /\ todo \in [Tx -> SUBSET Dest]

\* While an update applies its plan, the original of every file of the plan is
\* in the backup directory or still in its place, at every point where an error
\* or a crash can stop it: backupFile, which writes over the snapshot's copies,
\* may only be cut short over a file that has not been touched.  And once the
\* update has committed, every backup is whole.
Damaged(t, d) == pre[t][d] # Absent /\ backup[t][d] # pre[t][d]
Recoverable ==
  \A t \in Tx : \A d \in Planned(t) : Damaged(t, d) =>
    /\ pc[t] \in Applying => files[d] = pre[t][d]
    /\ result[t] # "committed"

\* A result "rolled-back" means that every file of the plan is again what it
\* was when the transaction began, however often the update or an attempt to
\* roll it back failed or died; except for a file whose backup was cut short,
\* which the rollback cannot tell from a whole one.
RolledBackUnlessTorn ==
  [][\A t \in Tx : pc[t] = "restoring" /\ pc'[t] = "clearing" /\ result'[t] = "rolled-back" =>
       \A d \in Planned(t) : files[d] = pre[t][d] \/ backup[t][d] = Torn]_vars

\* The same without the exception: what the outcome "rolled-back" says.
RolledBackIsRestored ==
  [][\A t \in Tx : pc[t] = "restoring" /\ pc'[t] = "clearing" /\ result'[t] = "rolled-back" =>
       \A d \in Planned(t) : files[d] = pre[t][d]]_vars

\* the file is what the plan of t wants it to be
Installed(t, d) ==
  /\ plan[t][d] \in {"add", "update"} => files[d] = t
  /\ plan[t][d] = "delete" => files[d] = Absent
  /\ plan[t][d] = "leave" => files[d] = pre[t][d]

\* A result "committed" means that every decision of the plan has taken
\* effect: no error of one file is lost on the way to commitTransaction.
CommittedIsInstalled ==
  [][\A t \in Tx : pc[t] = "committing" /\ pc'[t] = "clearing" =>
       \A d \in Planned(t) : Installed(t, d)]_vars

\* No two updates are at work on the files at one time.
OneUpdate == \A t, u \in Tx : pc[t] \in Applying /\ pc[u] \in Applying => t = u
=============================================================================

----------------------- MODULE UpdateTransaction_proofs -----------------------
(***************************************************************************)
(* What the transaction guarantees to an operator who runs one command at  *)
(* a time, for any number of files and transactions, with an error or a    *)
(* death at every step, the copies themselves included: an update never    *)
(* lets go of the only whole copy of a file, "rolled-back" means restored  *)
(* but for torn backups, and "committed" means installed.                  *)
(*                                                                         *)
(* Phase(t) says what the files, the snapshot and the backups have to do   *)
(* with each other at each place of the process that works on t; with one  *)
(* such process at a time (Alone), no other process disturbs it.           *)
(***************************************************************************)
EXTENDS UpdateTransaction, TLAPS

Visiting == {"backing", "backed", "copying", "copyingBack"}
Early == {"new", "classified", "checked"}
Kept == Applying \cup {"prepared", "restoring", "copyingBack"}

\* nothing is known of a file in the middle of a copy
Steady(t, d) == pc[t] \in {"copying", "copyingBack"} => d # Current(t)

Phase(t) ==
  /\ todo[t] \subseteq Planned(t)
  /\ pc[t] \in {"new", "classified", "prepared"} => todo[t] = {}
  /\ pc[t] \in Visiting => todo[t] # {}
  /\ pc[t] = "copying" => plan[t][Current(t)] \in {"add", "update"}
  /\ pc[t] \in {"backing", "backed"} => plan[t][Current(t)] # "leave"
  /\ pc[t] = "copyingBack" => pre[t][Current(t)] # Absent /\ backup[t][Current(t)] # Absent
  /\ pc[t] \in Early => ~header[t] /\ ~bad[t]
  /\ pc[t] = "prepared" => ~bad[t]
  /\ pc[t] \in Kept => header[t]
  /\ pc[t] \in {"checked", "prepared"} =>
       \A d \in Planned(t) \ todo[t] : pre[t][d] = files[d] /\ backup[t][d] = files[d]
  /\ pc[t] \in {"applying", "backing", "backed", "copying"} =>
       \A d \in todo[t] : Steady(t, d) => files[d] = pre[t][d]
  /\ pc[t] \in Applying /\ ~bad[t] => \A d \in Planned(t) \ todo[t] : Installed(t, d)
  /\ pc[t] \in {"migrating", "committing"} => ~bad[t] /\ todo[t] = {}
  /\ pc[t] \in {"restoring", "copyingBack"} /\ ~bad[t] =>
       \A d \in Planned(t) \ todo[t] : files[d] = pre[t][d] \/ backup[t][d] = Torn
  /\ header[t] => \A d \in Planned(t) : pre[t][d] # Absent => backup[t][d] \in {pre[t][d], Torn, Absent}
  /\ pc[t] \in Applying => \A d \in Planned(t) : Damaged(t, d) =>
       files[d] = pre[t][d] /\ (IF d \in todo[t] THEN pc[t] = "backing" /\ d = Current(t) ELSE bad[t])
  /\ pc[t] \in Early \cup Applying \cup {"prepared"} => result[t] # "committed"
  /\ result[t] = "committed" => header[t] /\ \A d \in Planned(t) : ~Damaged(t, d)

Alone == \A t, u \in Tx : Running(t) /\ Running(u) => t = u

IInv == Serial /\ TypeOK /\ Alone /\ \A t \in Tx : Phase(t)

-----------------------------------------------------------------------------
LEMMA CurrentIsVisited == ASSUME NEW t \in Tx, todo[t] # {} PROVE Current(t) \in todo[t]
BY DEF Current

\* A process in the middle of a file has one to visit.
Busy == \A t \in Tx : pc[t] \in Visiting => todo[t] # {}

LEMMA TypeStep == ASSUME TypeOK, Busy, NEW t \in Tx, Step(t) PROVE TypeOK'
<1> USE DEF TypeOK, Goto, Visit, Places, Applying
<1>0. todo[t] # {} => Current(t) \in Dest
  BY CurrentIsVisited
<1>00. t \in Content /\ Absent \in Content /\ Torn \in Content
  BY BoundAssumption DEF Content, Version, Tx
<1>000. Planned(t) \subseteq Dest
  BY DEF Planned
<1>01. Listed(t) \in [Dest -> Actions]
  BY DEF Listed, Actions
<1>02. [d \in Dest |-> "keep"] \in [Dest -> Actions] /\ [d \in Dest |-> Absent] \in [Dest -> Content]
  BY <1>00 DEF Actions
<1>1. CASE Classify(t)
  <2>1. PICK f \in Decisions : plan' = [plan EXCEPT ![t] = f]
    BY <1>1 DEF Classify
  <2>2. f \in [Dest -> Actions]
    BY DEF Decisions
  <2>3. QED
    BY <1>1, <2>1, <2>2 DEF Classify
<1>2. CASE CheckActiveLock(t)
  BY <1>2, <1>0, <1>00, <1>000 DEF CheckActiveLock
<1>3. CASE BeginFails(t)
  BY <1>3, <1>02 DEF BeginFails, Forget
<1>4. CASE WriteHeader(t)
  BY <1>4, <1>0, <1>00, <1>000 DEF WriteHeader
<1>5. CASE WriteActiveLock(t)
  BY <1>5, <1>0, <1>00, <1>000 DEF WriteActiveLock
<1>6. CASE BackupFile(t)
  <2>1. CASE files[Current(t)] = Absent
    BY <1>6, <2>1 DEF BackupFile
  <2>2. CASE files[Current(t)] # Absent
    <3>1. /\ backup' = [backup EXCEPT ![t][Current(t)] = Torn] /\ pc' = [pc EXCEPT ![t] = "backing"]
          /\ UNCHANGED <<files, lock, plan, pre, header, result, todo, bad>> /\ Current(t) \in Dest
      BY <1>6, <2>2, <1>0 DEF BackupFile
    <3>2. backup' \in [Tx -> [Dest -> Content]]
      BY <3>1, <1>00
    <3>3. QED
      BY <3>1, <3>2
  <2>3. QED
    BY <2>1, <2>2
<1>7. CASE StartCopy(t)
  BY <1>7, <1>0, <1>00, <1>000 DEF StartCopy
<1>8. CASE EndCopy(t)
  BY <1>8, <1>0, <1>00, <1>000 DEF EndCopy
<1>9. CASE Delete(t)
  BY <1>9, <1>0, <1>00, <1>000 DEF Delete
<1>10. CASE ApplyError(t)
  <2>1. pc[t] \in {"applying", "backing", "backed", "copying"} /\ todo[t] # {}
    BY <1>10 DEF ApplyError, ApplyDamage, Busy, Visiting
  <2>2. files' \in [Dest -> Content] /\ backup' \in [Tx -> [Dest -> Content]]
    <3>1. CASE UNCHANGED <<files, backup>>
      BY <3>1
    <3>2. CASE \E x \in {Torn, Absent} : backup' = [backup EXCEPT ![t][Current(t)] = x] /\ files' = files
      BY <3>2, <2>1, <1>0, <1>00
    <3>3. CASE \E x \in {Torn, Absent} : files' = [files EXCEPT ![Current(t)] = x] /\ backup' = backup
      BY <3>3, <2>1, <1>0, <1>00
    <3>4. QED
      BY <1>10, <3>1, <3>2, <3>3 DEF ApplyError, ApplyDamage
  <2>3. QED
    BY <1>10, <2>1, <2>2, <1>0 DEF ApplyError
<1>11. CASE ApplyDone(t)
  BY <1>11, <1>0, <1>00, <1>000 DEF ApplyDone
<1>12. CASE Migrated(t)
  BY <1>12, <1>0, <1>00, <1>000 DEF Migrated
<1>13. CASE CatchAndRollBack(t)
  BY <1>13, <1>01, <1>000 DEF CatchAndRollBack
<1>14. CASE Commit(t)
  BY <1>14, <1>01, <1>000 DEF Commit, Outcomes
<1>15. CASE MetadataMissing(t)
  BY <1>15, <1>01, <1>000 DEF MetadataMissing
<1>16. CASE ClearActiveLock(t)
  BY <1>16, <1>0, <1>00, <1>000 DEF ClearActiveLock
<1>17. CASE StartRollback(t)
  BY <1>17, <1>0, <1>00, <1>000 DEF StartRollback
<1>18. CASE Unlink(t)
  BY <1>18, <1>0, <1>00, <1>000 DEF Unlink
<1>19. CASE StartRestore(t)
  BY <1>19, <1>0, <1>00, <1>000 DEF StartRestore
<1>20. CASE EndRestore(t)
  BY <1>20, <1>0, <1>00, <1>000 DEF EndRestore, Busy, Visiting
<1>21. CASE RestoreError(t)
  <2>1. todo[t] # {}
    BY <1>21 DEF RestoreError, RestoreDamage, Busy, Visiting
  <2>2. files' \in [Dest -> Content]
    BY <1>21, <2>1, <1>0, <1>00 DEF RestoreError, RestoreDamage
  <2>3. QED
    BY <1>21, <2>1, <2>2, <1>0 DEF RestoreError
<1>22. CASE RolledBack(t)
  BY <1>22, <1>0, <1>00, <1>000 DEF RolledBack, Outcomes
<1>23. CASE Crash(t)
  <2>1. CASE header[t]
    BY <1>23, <2>1, <1>01 DEF Crash
  <2>2. CASE ~header[t]
    BY <1>23, <2>2, <1>02 DEF Crash, Forget
  <2>3. QED
    BY <2>1, <2>2
<1>24. CASE Snapshot(t)
  BY <1>24, <1>0, <1>000 DEF Snapshot
<1>27. CASE EndBackup(t)
  BY <1>27, <1>0, <1>00, Busy DEF EndBackup, Busy, Visiting
<1>28. CASE RemoveAndRetry(t)
  BY <1>28, <1>02 DEF RemoveAndRetry, Forget
<1>25. CASE LeaveAlone(t)
  BY <1>25, <1>0 DEF LeaveAlone
<1>26. QED
  BY <1>1, <1>2, <1>3, <1>4, <1>5, <1>6, <1>7, <1>8, <1>9, <1>10, <1>11, <1>12, <1>13, <1>14, <1>15, <1>16,
     <1>17, <1>18, <1>19, <1>20, <1>21, <1>22, <1>23, <1>24, <1>25, <1>27, <1>28 DEF Step

\* A step of the process of t leaves what belongs to another transaction alone.
Same(u) ==
  /\ pc'[u] = pc[u] /\ plan'[u] = plan[u] /\ pre'[u] = pre[u] /\ backup'[u] = backup[u]
  /\ header'[u] = header[u] /\ todo'[u] = todo[u] /\ bad'[u] = bad[u] /\ result'[u] = result[u]

LEMMA OthersAreSame == ASSUME TypeOK, NEW t \in Tx, NEW u \in Tx, u # t, Step(t) PROVE Same(u)
<1> USE DEF TypeOK, Same, Goto, Visit
<1>1. CASE Classify(t) \/ CheckActiveLock(t) \/ WriteHeader(t) \/ WriteActiveLock(t) \/ BackupFile(t) \/ EndBackup(t)
  BY <1>1 DEF Classify, CheckActiveLock, WriteHeader, WriteActiveLock, BackupFile, EndBackup
<1>2. CASE BeginFails(t) \/ RemoveAndRetry(t) \/ Crash(t)
  BY <1>2 DEF BeginFails, RemoveAndRetry, Crash, Forget
<1>3. CASE StartCopy(t) \/ EndCopy(t) \/ Delete(t) \/ LeaveAlone(t) \/ ApplyDone(t) \/ Migrated(t) \/ Snapshot(t)
  BY <1>3 DEF StartCopy, EndCopy, Delete, LeaveAlone, ApplyDone, Migrated, Snapshot
<1>4. CASE ApplyError(t) \/ RestoreError(t)
  BY <1>4 DEF ApplyError, ApplyDamage, RestoreError, RestoreDamage
<1>5. CASE CatchAndRollBack(t) \/ Commit(t) \/ MetadataMissing(t) \/ ClearActiveLock(t) \/ StartRollback(t) \/ Unlink(t)
  BY <1>5 DEF CatchAndRollBack, Commit, MetadataMissing, ClearActiveLock, StartRollback, Unlink
<1>6. CASE StartRestore(t) \/ EndRestore(t) \/ RolledBack(t)
  BY <1>6 DEF StartRestore, EndRestore, RolledBack
<1>7. QED
  BY <1>1, <1>2, <1>3, <1>4, <1>5, <1>6 DEF Step

LEMMA OthersBusy ==
  ASSUME TypeOK, Busy, NEW t \in Tx, NEW u \in Tx, u # t, Step(t)
  PROVE  pc'[u] \in Visiting => todo'[u] # {}
BY OthersAreSame DEF Same, Busy

LEMMA OwnBusy ==
  ASSUME TypeOK, Busy, NEW t \in Tx, Step(t)
  PROVE  pc'[t] \in Visiting => todo'[t] # {}
<1> USE DEF TypeOK, Goto, Visit, Visiting
<1>1. CASE BackupFile(t) \/ EndBackup(t) \/ StartCopy(t) \/ StartRestore(t)
  BY <1>1 DEF BackupFile, EndBackup, StartCopy, StartRestore, Busy
<1>2. CASE Snapshot(t)
  BY <1>2 DEF Snapshot
<1>3. CASE ~(BackupFile(t) \/ EndBackup(t) \/ StartCopy(t) \/ StartRestore(t) \/ Snapshot(t))
  <2>1. pc'[t] \notin Visiting
    BY <1>3 DEF Step, Classify, CheckActiveLock, BeginFails, RemoveAndRetry, WriteHeader, WriteActiveLock, EndCopy,
       Delete, LeaveAlone, ApplyError, ApplyDone, Migrated, CatchAndRollBack, Commit, MetadataMissing,
       ClearActiveLock, StartRollback, Unlink, EndRestore, RestoreError, RolledBack, Crash
  <2>2. QED
    BY <2>1
<1>4. QED
  BY <1>1, <1>2, <1>3

\* A process either was at work already or starts, and then no other is at work.
LEMMA RunningOrStarting ==
  ASSUME TypeOK, NEW t \in Tx, Step(t) PROVE Running(t) \/ (MayStart /\ (Classify(t) \/ StartRollback(t)))
BY DEF Step, TypeOK, Running, Goto, Classify, CheckActiveLock, BeginFails, RemoveAndRetry, WriteHeader,
       WriteActiveLock, BackupFile, EndBackup, ApplyDamage, RestoreDamage, StartCopy, EndCopy, Delete, LeaveAlone, ApplyError, ApplyDone, Migrated,
       CatchAndRollBack, Commit, MetadataMissing, ClearActiveLock, StartRollback, Unlink,
       StartRestore, EndRestore, RestoreError, RolledBack, Crash, Snapshot

LEMMA AloneStep == ASSUME IInv, NEW t \in Tx, Step(t) PROVE Alone'
<1> SUFFICES ASSUME NEW u \in Tx, u # t, Running(u)' PROVE ~Running(t)'
  <2>1. \A u, v \in Tx : u # t /\ v # t /\ Running(u)' /\ Running(v)' => u = v
    BY OthersAreSame DEF IInv, Alone, Running, Same
  <2>2. QED
    BY <2>1 DEF Alone
<1>1. Running(u)
  BY OthersAreSame DEF IInv, Running, Same
<1>2. ~Running(t) /\ ~MayStart
  BY <1>1 DEF IInv, Alone, MayStart
<1>3. QED
  BY <1>2, RunningOrStarting DEF IInv

\* The process of t does not disturb Phase of another transaction.
LEMMA OthersPhase == ASSUME IInv, NEW t \in Tx, NEW u \in Tx, u # t, Step(t) PROVE Phase(u)'
<1>1. Same(u)
  BY OthersAreSame DEF IInv
<1>2. ~Running(u)
  BY RunningOrStarting DEF IInv, Alone, MayStart
<1>3. Phase(u) /\ pc[u] \in {"new", "over"}
  BY <1>2 DEF IInv, Running, TypeOK
<1>4. QED
  BY <1>1, <1>3 DEF Phase, Same, Planned, Steady, Installed, Damaged, Visiting, Early, Kept, Applying

-----------------------------------------------------------------------------
\* The process of t keeps Phase(t).
LEMMA OwnPhase == ASSUME IInv, NEW t \in Tx, Step(t) PROVE Phase(t)'
<1> DEFINE c == Current(t)
<1>0. Phase(t) /\ TypeOK
  BY DEF IInv
<1>00. todo[t] # {} => c \in todo[t]
  BY CurrentIsVisited
<1> HIDE DEF c
<1> USE <1>0, <1>00 DEF Phase, TypeOK, Goto, Visit, Visiting, Early, Kept, Applying
<1>1. CASE Classify(t)
  BY <1>1 DEF Classify, Planned, Steady, Installed, Damaged, c
<1>2. CASE CheckActiveLock(t)
  BY <1>2 DEF CheckActiveLock, Planned, Steady, Installed, Damaged, c
<1>3. CASE BeginFails(t)
  BY <1>3 DEF BeginFails, Forget, Planned, Steady, Installed, Damaged
<1>4. CASE WriteHeader(t)
  BY <1>4 DEF WriteHeader, Planned, Steady, Installed, Damaged, c
<1>5. CASE WriteActiveLock(t)
  BY <1>5 DEF WriteActiveLock, Planned, Steady, Installed, Damaged, c
<1>6. CASE BackupFile(t)
  <2>1. /\ pc[t] = "applying" /\ todo[t] # {} /\ todo' = todo /\ plan[t][c] # "leave" /\ files' = files
        /\ plan' = plan /\ pre' = pre /\ header' = header /\ bad' = bad /\ result' = result /\ header[t]
    BY <1>6 DEF BackupFile, c
  <2>2. Current(t)' = c /\ Planned(t)' = Planned(t)
    BY <2>1 DEF Current, Planned, c
  <2>3. files[c] = pre[t][c] /\ c \in Planned(t)
    BY <2>1 DEF Steady
  <2>4. \A d \in todo[t] : files[d] = pre[t][d]
    BY <2>1 DEF Steady
  <2>5. \A d \in Planned(t) \ todo[t] : ~bad[t] => Installed(t, d)'
    BY <2>1 DEF Installed
  <2>6. CASE files[c] = Absent
    <3>1. pc' = [pc EXCEPT ![t] = "backed"] /\ backup' = backup
      BY <1>6, <2>6 DEF BackupFile, c
    <3>2. \A d \in Planned(t) : Damaged(t, d)' => files[d] = pre[t][d] /\ d \notin todo[t] /\ bad[t]
      BY <2>1, <3>1 DEF Damaged
    <3>3. QED
      BY <2>1, <2>2, <2>4, <2>5, <3>1, <3>2 DEF Steady
  <2>7. CASE files[c] # Absent
    <3>1. pc' = [pc EXCEPT ![t] = "backing"] /\ backup' = [backup EXCEPT ![t][c] = Torn]
      BY <1>6, <2>7 DEF BackupFile, c
    <3>2. \A d \in Planned(t) : Damaged(t, d)' => files[d] = pre[t][d] /\ (IF d \in todo[t] THEN d = c ELSE bad[t])
      BY <2>1, <2>3, <3>1 DEF Damaged, Planned
    <3>3. \A d \in Planned(t) : pre[t][d] # Absent => backup'[t][d] \in {pre[t][d], Torn, Absent}
      BY <2>1, <3>1 DEF Planned
    <3>4. QED
      BY <2>1, <2>2, <2>4, <2>5, <3>1, <3>2, <3>3 DEF Steady
  <2>8. QED
    BY <2>6, <2>7
<1>7. CASE StartCopy(t)
  <2>1. Current(t)' = c
    BY <1>7 DEF StartCopy, Current, c
  <2>2. /\ pc[t] = "backed" /\ pc' = [pc EXCEPT ![t] = "copying"] /\ todo[t] # {} /\ todo' = todo
        /\ files' = [files EXCEPT ![c] = Torn] /\ plan' = plan /\ pre' = pre /\ backup' = backup
        /\ header' = header /\ bad' = bad /\ result' = result /\ plan[t][c] \in {"add", "update"}
    BY <1>7 DEF StartCopy, c
  <2>3. \A d \in Dest : d # c => files'[d] = files[d]
    BY <2>2
  <2>4. \A d \in todo'[t] : Steady(t, d)' => files'[d] = pre'[t][d]
    BY <2>1, <2>2, <2>3 DEF Steady
  <2>5. \A d \in Planned(t)' \ todo'[t] : ~bad'[t] => Installed(t, d)'
    BY <2>2, <2>3 DEF Planned, Installed
  <2>6. \A d \in Planned(t) : Damaged(t, d)' => files'[d] = pre[t][d] /\ d \notin todo[t] /\ bad[t]
    BY <2>2, <2>3 DEF Damaged, Planned, c
  <2>7. QED
    BY <2>1, <2>2, <2>4, <2>5, <2>6 DEF Planned
<1>8. CASE EndCopy(t)
  <2>1. /\ pc[t] = "copying" /\ pc' = [pc EXCEPT ![t] = "applying"] /\ todo[t] # {} /\ todo'[t] = todo[t] \ {c}
        /\ files' = [files EXCEPT ![c] = t] /\ plan' = plan /\ pre' = pre /\ backup' = backup
        /\ header' = header /\ bad' = bad /\ result' = result /\ plan[t][c] \in {"add", "update"}
    BY <1>8 DEF EndCopy, c
  <2>2. \A d \in Dest : d # c => files'[d] = files[d]
    BY <2>1
  <2>3. \A d \in todo'[t] : files'[d] = pre'[t][d]
    BY <2>1, <2>2 DEF Steady, c
  <2>4. \A d \in Planned(t)' \ todo'[t] : ~bad'[t] => Installed(t, d)'
    BY <2>1, <2>2 DEF Planned, Installed
  <2>5. \A d \in Planned(t) : Damaged(t, d)' => files'[d] = pre[t][d] /\ d \notin todo'[t] /\ bad[t]
    BY <2>1, <2>2 DEF Damaged, Planned, c
  <2>6. QED
    BY <2>1, <2>3, <2>4, <2>5 DEF Planned, Steady
<1>9. CASE Delete(t)
  BY <1>9 DEF Delete, Planned, Steady, Installed, Damaged, c
<1>10. CASE ApplyError(t)
  <2>1. /\ pc[t] \in {"applying", "backing", "backed", "copying"} /\ pc' = [pc EXCEPT ![t] = "applying"]
        /\ todo[t] # {} /\ todo'[t] = todo[t] \ {c} /\ bad'[t] /\ plan' = plan /\ pre' = pre /\ header' = header
        /\ result' = result /\ header[t]
    BY <1>10 DEF ApplyError, ApplyDamage, c
  <2>2. Planned(t)' = Planned(t) /\ c \in Planned(t)
    BY <2>1 DEF Planned
  <2>3. \A d \in Dest \ {c} : files'[d] = files[d] /\ backup'[t][d] = backup[t][d]
    BY <1>10 DEF ApplyError, ApplyDamage, c
  <2>4. \A d \in todo'[t] : files'[d] = pre'[t][d]
    BY <2>1, <2>3 DEF Steady, c
  <2>5. pre[t][c] # Absent => backup'[t][c] \in {pre[t][c], Torn, Absent}
    BY <1>10, <2>2 DEF ApplyError, ApplyDamage, c
  <2>6. pre[t][c] # Absent /\ backup'[t][c] # pre[t][c] => files'[c] = pre[t][c]
    <3>1. CASE pc[t] # "backing"
      <4>1. ~Damaged(t, c)
        BY <2>1, <2>2, <3>1
      <4>2. backup' = backup
        BY <1>10, <3>1 DEF ApplyError, ApplyDamage
      <4>3. QED
        BY <2>1, <4>1, <4>2 DEF Damaged
    <3>2. CASE pc[t] = "backing"
      BY <1>10, <3>2, <2>1 DEF ApplyError, ApplyDamage, Steady
    <3>3. QED
      BY <3>1, <3>2
  <2>7. \A d \in Planned(t) \ {c} : Damaged(t, d)' => files'[d] = pre[t][d] /\ d \notin todo[t]
    BY <2>1, <2>3 DEF Damaged, Planned, c
  <2>8. \A d \in Planned(t) \ {c} : pre[t][d] # Absent => backup'[t][d] \in {pre[t][d], Torn, Absent}
    BY <2>1, <2>3 DEF Planned
  <2>9. \A d \in Planned(t) : pre[t][d] # Absent => backup'[t][d] \in {pre[t][d], Torn, Absent}
    BY <2>5, <2>8
  <2>10. \A d \in Planned(t) : Damaged(t, d)' => files'[d] = pre'[t][d] /\ d \notin todo'[t]
    BY <2>1, <2>6, <2>7 DEF Damaged
  <2>11. QED
    BY <2>1, <2>2, <2>4, <2>9, <2>10 DEF Steady
<1>11. CASE ApplyDone(t)
  BY <1>11 DEF ApplyDone, Planned, Steady, Installed, Damaged, c
<1>12. CASE Migrated(t)
  BY <1>12 DEF Migrated, Planned, Steady, Installed, Damaged, c
<1>13. CASE CatchAndRollBack(t)
  BY <1>13 DEF CatchAndRollBack, Listed, Planned, Steady, Installed, Damaged, c
<1>14. CASE Commit(t)
  BY <1>14 DEF Commit, Listed, Planned, Steady, Installed, Damaged, c
<1>15. CASE MetadataMissing(t)
  BY <1>15 DEF MetadataMissing, Listed, Planned, Steady, Installed, Damaged, c
<1>16. CASE ClearActiveLock(t)
  BY <1>16 DEF ClearActiveLock, Planned, Steady, Installed, Damaged, c
<1>17. CASE StartRollback(t)
  BY <1>17 DEF StartRollback, Planned, Steady, Installed, Damaged, c
<1>18. CASE Unlink(t)
  BY <1>18 DEF Unlink, Planned, Steady, Installed, Damaged, c
<1>19. CASE StartRestore(t)
  <2>1. Current(t)' = c
    BY <1>19 DEF StartRestore, Current, c
  <2>2. /\ pc[t] = "restoring" /\ pc' = [pc EXCEPT ![t] = "copyingBack"] /\ todo[t] # {} /\ todo' = todo
        /\ files' = [files EXCEPT ![c] = Torn] /\ plan' = plan /\ pre' = pre /\ backup' = backup
        /\ header' = header /\ bad' = bad /\ result' = result /\ pre[t][c] # Absent /\ backup[t][c] # Absent
    BY <1>19 DEF StartRestore, c
  <2>3. \A d \in Dest : d # c => files'[d] = files[d]
    BY <2>2
  <2>4. \A d \in Planned(t)' \ todo'[t] : ~bad'[t] => files'[d] = pre'[t][d] \/ backup'[t][d] = Torn
    BY <2>2, <2>3 DEF Planned
  <2>5. QED
    BY <2>1, <2>2, <2>4 DEF Planned, Damaged
<1>20. CASE EndRestore(t)
  <2>1. /\ pc[t] = "copyingBack" /\ pc' = [pc EXCEPT ![t] = "restoring"] /\ todo[t] # {} /\ todo'[t] = todo[t] \ {c}
        /\ files' = [files EXCEPT ![c] = backup[t][c]] /\ plan' = plan /\ pre' = pre /\ backup' = backup
        /\ header' = header /\ bad' = bad /\ result' = result /\ pre[t][c] # Absent /\ backup[t][c] # Absent
    BY <1>20 DEF EndRestore, c
  <2>2. \A d \in Dest : d # c => files'[d] = files[d]
    BY <2>1
  <2>3. files'[c] = pre[t][c] \/ backup[t][c] = Torn
    BY <2>1
  <2>4. \A d \in Planned(t)' \ todo'[t] : ~bad'[t] => files'[d] = pre'[t][d] \/ backup'[t][d] = Torn
    BY <2>1, <2>2, <2>3 DEF Planned
  <2>5. QED
    BY <2>1, <2>4 DEF Planned, Damaged
<1>21. CASE RestoreError(t)
  BY <1>21 DEF RestoreError, RestoreDamage, Planned, Steady, Installed, Damaged, c
<1>22. CASE RolledBack(t)
  BY <1>22 DEF RolledBack, Planned, Steady, Installed, Damaged, c
<1>23. CASE Crash(t)
  BY <1>23 DEF Crash, Forget, Listed, Planned, Steady, Installed, Damaged, c
<1>24. CASE Snapshot(t)
  BY <1>24 DEF Snapshot, Planned, Steady, Installed, Damaged, c
<1>25. CASE LeaveAlone(t)
  BY <1>25 DEF LeaveAlone, Planned, Steady, Installed, Damaged, c
<1>26. CASE EndBackup(t)
  <2>1. /\ pc[t] = "backing" /\ pc' = [pc EXCEPT ![t] = "backed"] /\ todo[t] # {} /\ todo' = todo /\ plan[t][c] # "leave"
        /\ files' = files /\ plan' = plan /\ pre' = pre /\ header' = header /\ bad' = bad /\ result' = result
        /\ header[t] /\ backup' = [backup EXCEPT ![t][c] = files[c]]
    BY <1>26 DEF EndBackup, c
  <2>2. Current(t)' = c /\ Planned(t)' = Planned(t)
    BY <2>1 DEF Current, Planned, c
  <2>3. files[c] = pre[t][c] /\ c \in Planned(t)
    BY <2>1 DEF Steady
  <2>4. \A d \in todo[t] : files[d] = pre[t][d]
    BY <2>1 DEF Steady
  <2>5. \A d \in Planned(t) \ todo[t] : ~bad[t] => Installed(t, d)'
    BY <2>1 DEF Installed
  <2>6. \A d \in Planned(t) : Damaged(t, d)' => files[d] = pre[t][d] /\ d \notin todo[t] /\ bad[t]
    BY <2>1, <2>3 DEF Damaged, Planned, c
  <2>7. \A d \in Planned(t) : pre[t][d] # Absent => backup'[t][d] \in {pre[t][d], Torn, Absent}
    BY <2>1, <2>3 DEF Planned
  <2>8. QED
    BY <2>1, <2>2, <2>4, <2>5, <2>6, <2>7 DEF Steady
<1>27. CASE RemoveAndRetry(t)
  BY <1>27 DEF RemoveAndRetry, Forget, Planned, Steady, Installed, Damaged
<1>28. QED
  BY <1>1, <1>2, <1>3, <1>4, <1>5, <1>6, <1>7, <1>8, <1>9, <1>10, <1>11, <1>12, <1>13, <1>14, <1>15,
     <1>16, <1>17, <1>18, <1>19, <1>20, <1>21, <1>22, <1>23, <1>24, <1>25, <1>26, <1>27 DEF Step

-----------------------------------------------------------------------------
\* With an operator who runs one command at a time, IInv is an invariant.
THEOREM Invariance == Serial /\ Spec => []IInv
<1>1. Serial /\ Init => IInv
  <2> SUFFICES ASSUME Serial, Init PROVE IInv
    OBVIOUS
  <2>1. TypeOK
    BY BoundAssumption DEF Init, TypeOK, Places, Outcomes, Actions, Content, Version
  <2>2. Alone /\ \A t \in Tx : Phase(t)
    BY DEF Init, Alone, Running, Phase, Planned, Visiting, Early, Kept, Applying
  <2>3. QED
    BY <2>1, <2>2 DEF IInv
<1>2. IInv /\ [Next]_vars => IInv'
  <2> SUFFICES ASSUME IInv, [Next]_vars PROVE IInv'
    OBVIOUS
  <2>1. ASSUME NEW t \in Tx, Step(t) PROVE IInv'
    <3>1. \A u \in Tx : Phase(u)'
      BY <2>1, OwnPhase, OthersPhase
    <3>2. Busy
      BY DEF IInv, Phase, Busy
    <3>3. QED
      BY <2>1, <3>1, <3>2, TypeStep, AloneStep DEF IInv
  <2>2. CASE UNCHANGED vars
    BY <2>2 DEF vars, IInv, TypeOK, Alone, Running, Phase, Planned, Steady, Current, Installed, Damaged
  <2>3. QED
    BY <2>1, <2>2 DEF Next
<1>3. QED
  BY <1>1, <1>2, PTL DEF Spec

\* TypeOK: every variable keeps the type of what the code stores in it, also
\* with several commands at a time.
THEOREM TypeCorrect == Spec => []TypeOK
<1>1. Init => TypeOK /\ Busy
  BY BoundAssumption DEF Init, TypeOK, Busy, Visiting, Places, Outcomes, Actions, Content, Version
<1>2. TypeOK /\ Busy /\ [Next]_vars => (TypeOK /\ Busy)'
  <2> SUFFICES ASSUME TypeOK, Busy, [Next]_vars PROVE TypeOK' /\ Busy'
    OBVIOUS
  <2>1. ASSUME NEW t \in Tx, Step(t) PROVE TypeOK' /\ Busy'
    BY <2>1, TypeStep, OthersBusy, OwnBusy DEF Busy
  <2>2. CASE UNCHANGED vars
    BY <2>2 DEF vars, TypeOK, Busy
  <2>3. QED
    BY <2>1, <2>2 DEF Next
<1>3. QED
  BY <1>1, <1>2, PTL DEF Spec

\* Recoverable: at every point of an apply, the copies of backupFile and of the
\* new content included, the original of every file is in the backup directory
\* or still in its place; and what has committed has all its backups.
THEOREM OriginalsSurvive == Serial /\ Spec => []Recoverable
<1>1. IInv => Recoverable
  BY DEF IInv, Recoverable, Phase
<1>2. QED
  BY <1>1, Invariance, PTL

\* RolledBackUnlessTorn: the outcome "rolled-back" is only written over files
\* that are as they were when the transaction began, or whose backup was torn.
THEOREM RollbackRestores == Serial /\ Spec => RolledBackUnlessTorn
<1> DEFINE A == \A t \in Tx : pc[t] = "restoring" /\ pc'[t] = "clearing" /\ result'[t] = "rolled-back" =>
                  \A d \in Planned(t) : files[d] = pre[t][d] \/ backup[t][d] = Torn
<1>1. IInv /\ [Next]_vars => [A]_vars
  <2> SUFFICES ASSUME IInv, Next, NEW t \in Tx, pc[t] = "restoring", pc'[t] = "clearing",
                      result'[t] = "rolled-back", NEW d \in Planned(t)
               PROVE  files[d] = pre[t][d] \/ backup[t][d] = Torn
    OBVIOUS
  <2>1. RolledBack(t)
    <3>1. PICK u \in Tx : Step(u)
      BY DEF Next
    <3>2. u = t
      BY <3>1, OthersAreSame DEF IInv, Same
    <3>3. QED
      BY <3>1, <3>2 DEF IInv, TypeOK, Step, Goto, Classify, CheckActiveLock, BeginFails, RemoveAndRetry, WriteHeader,
         WriteActiveLock, BackupFile, EndBackup, StartCopy, EndCopy, Delete, LeaveAlone, ApplyError, ApplyDone, Migrated,
         CatchAndRollBack, Commit, MetadataMissing, ClearActiveLock, StartRollback, Unlink, StartRestore,
         EndRestore, RestoreError, Crash, Snapshot
  <2>2. ~bad[t] /\ todo[t] = {}
    BY <2>1 DEF RolledBack, IInv, TypeOK, Outcomes
  <2>3. QED
    BY <2>1, <2>2 DEF IInv, Phase, RolledBack, Goto
<1>2. QED
  BY <1>1, Invariance, PTL DEF Spec, RolledBackUnlessTorn

\* CommittedIsInstalled: the outcome "committed" is only written over files
\* that are all as the plan wants them.
THEOREM CommitInstalls == Serial /\ Spec => CommittedIsInstalled
<1> DEFINE A == \A t \in Tx : pc[t] = "committing" /\ pc'[t] = "clearing" =>
                  \A d \in Planned(t) : Installed(t, d)
<1>1. IInv /\ [Next]_vars => [A]_vars
  BY DEF IInv, Phase, Applying
<1>2. QED
  BY <1>1, Invariance, PTL DEF Spec, CommittedIsInstalled

=============================================================================

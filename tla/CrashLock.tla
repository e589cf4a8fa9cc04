----------------------------- MODULE CrashLock -----------------------------
(***************************************************************************)
(* What withMutationLock of src/scripts/dispatch/conductor-lease.js        *)
(* promises to the operations that run inside it: one owner at a time, and *)
(* a lock that leaves its owner only when the owner returns it or is dead. *)
(* MutationLock is the protocol on the file system that implements this;   *)
(* ConductorLease is written on top of it.                                 *)
(***************************************************************************)

CONSTANTS Proc,     \* the processes (one Node process per session)
          NoProc    \* nobody

VARIABLES alive,    \* alive[p]: p has not died; a pid is never revived
          holder    \* the process whose stamp is in the lock file, or NoProc

vars == <<alive, holder>>

TypeOK == /\ alive \in [Proc -> BOOLEAN]
          /\ holder \in Proc \cup {NoProc}

Init == /\ alive = [p \in Proc |-> TRUE]
        /\ holder = NoProc

Take(p) == /\ alive[p]
           /\ holder = NoProc
           /\ holder' = p
           /\ UNCHANGED alive

Drop(p) == /\ alive[p]
           /\ holder = p
           /\ holder' = NoProc
           /\ UNCHANGED alive

\* A dead owner's lock is retired by whoever finds it.
Retire == /\ holder # NoProc
          /\ ~alive[holder]
          /\ holder' = NoProc
          /\ UNCHANGED alive

Die(p) == /\ alive[p]
          /\ alive' = [alive EXCEPT ![p] = FALSE]
          /\ UNCHANGED holder

Next == \/ \E p \in Proc : Take(p) \/ Drop(p) \/ Die(p)
        \/ Retire

Spec == Init /\ [][Next]_vars
=============================================================================

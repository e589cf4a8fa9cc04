----------------------------- MODULE FencedLease -----------------------------
(***************************************************************************)
(* What conductor-lease.js promises to the code that fences a write with   *)
(* its token (acceptance-record.js, protected-ref-transaction.js): at most *)
(* one token verifies, a token that no longer verifies never verifies      *)
(* again, and a new token is greater than every earlier one.               *)
(***************************************************************************)
EXTENDS Naturals

CONSTANT MaxClaims   \* bound on the tokens minted in a behaviour

VARIABLES newest,    \* the last token minted
          pending,   \* it is minted but not yet in the lease file
          holder     \* the token that verifies, or 0

vars == <<newest, pending, holder>>

Init == /\ newest = 0
        /\ pending = FALSE
        /\ holder = 0

Mint == /\ holder = 0
        /\ ~pending
        /\ newest < MaxClaims
        /\ newest' = newest + 1
        /\ pending' = TRUE
        /\ UNCHANGED holder

Grant == /\ pending
         /\ holder' = newest
         /\ pending' = FALSE
         /\ UNCHANGED newest

\* The minting process died or failed before it could stamp the lease.
Abandon == /\ pending
           /\ pending' = FALSE
           /\ UNCHANGED <<newest, holder>>

\* Released, reclaimed, or lost by a renewal that did not finish.
End == /\ holder # 0
       /\ holder' = 0
       /\ UNCHANGED <<newest, pending>>

Next == Mint \/ Grant \/ Abandon \/ End

Spec == Init /\ [][Next]_vars
=============================================================================

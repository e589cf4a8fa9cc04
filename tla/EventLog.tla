------------------------------ MODULE EventLog ------------------------------
(***************************************************************************)
(* What the event log promises, whatever its files do: raw history is      *)
(* never destroyed ("THE CORE SAFETY INVARIANT" of events-compact.js).  A  *)
(* step of the program records one more event or leaves the history as it  *)
(* is; no rotation, compaction, crash or failed write takes one away.      *)
(***************************************************************************)
CONSTANT Event

VARIABLE history     \* the events that the files of the log still hold

Init == history \in SUBSET Event

Record(e) == /\ e \notin history
             /\ history' = history \union {e}

Next == \E e \in Event : Record(e)

Spec == Init /\ [][Next]_history
=============================================================================

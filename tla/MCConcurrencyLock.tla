-------------------------- MODULE MCConcurrencyLock --------------------------
(* Instances of ConcurrencyLock for TLC.                                     *)
EXTENDS ConcurrencyLock, TLC

CONSTANTS p1, p2, p3

Two == {p1, p2}
Three == {p1, p2, p3}
Symmetry == Permutations({p1, p2})
=============================================================================

-------------------------- MODULE MCConductorLease --------------------------
(***************************************************************************)
(* One lease, three processes that acquire, release, renew and reclaim it. *)
(***************************************************************************)
EXTENDS ConductorLease, TLC

CONSTANTS p1, p2, p3

Three == {p1, p2, p3}

\* Processes are interchangeable.
Symmetry == Permutations(Proc)
=============================================================================

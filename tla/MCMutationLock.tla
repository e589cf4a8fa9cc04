--------------------------- MODULE MCMutationLock ---------------------------
(***************************************************************************)
(* The mutation lock with three processes: an owner and two contenders,    *)
(* any of which may die at any step.                                       *)
(***************************************************************************)
EXTENDS MutationLock, TLC

CONSTANTS p1, p2, p3

Three == {p1, p2, p3}
Two   == {p1, p2}

\* Processes are interchangeable: safety runs may identify their permutations.
Symmetry == Permutations(Proc)
=============================================================================

------------------------- MODULE MCTrustedController -------------------------
(***************************************************************************)
(* Two controllers and a history of four commits: the merges m1 and m2 of  *)
(* two branches into the root c0, and the merge m12 of the second branch   *)
(* into m1.  Two brokers that start at c0 race with m1 and m2; m12 is the  *)
(* commit of the broker that looks again.                                  *)
(***************************************************************************)
EXTENDS TrustedController, TLC

CONSTANTS p1, p2, c0, m1, m2, m12

Two == {p1, p2}
Commits == {c0, m1, m2, m12}

FirstParents == (c0 :> NoCommit) @@ (m1 :> c0) @@ (m2 :> c0) @@ (m12 :> m1)

Ancestors == (c0 :> {c0}) @@ (m1 :> {c0, m1}) @@ (m2 :> {c0, m2})
             @@ (m12 :> {c0, m1, m12})

Lineage == {ac \in Commits \X Commits : ac[1] \in Ancestors[ac[2]]}

Symmetry == Permutations(Two)
=============================================================================

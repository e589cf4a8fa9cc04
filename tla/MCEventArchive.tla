--------------------------- MODULE MCEventArchive ---------------------------
(* Instances of EventArchive for TLC.                                        *)
EXTENDS EventArchive, TLC

CONSTANTS w1, w2, c1, c2, r1

TwoWriters == {w1, w2}
OneCompactor == {c1}
OneReader == {r1}
Symmetry == Permutations(Writer) \union Permutations(Compactor)
=============================================================================

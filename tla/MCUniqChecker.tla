--------------------------- MODULE MCUniqChecker ----------------------------
(* Instances of UniqChecker for TLC.                                        *)
EXTENDS UniqChecker

CONSTANTS q1, q2, q3, r1, r2

Symmetry == Permutations(Id) \cup Permutations(Replica)
=============================================================================

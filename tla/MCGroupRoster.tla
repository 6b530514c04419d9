--------------------------- MODULE MCGroupRoster ---------------------------
(* GroupRoster for TLC: the groups are interchangeable in the safety runs.    *)
EXTENDS GroupRoster, TLC

Symmetry == Permutations(Groups)
=============================================================================

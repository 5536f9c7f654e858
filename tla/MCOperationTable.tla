-------------------------- MODULE MCOperationTable --------------------------
(* A table of two slots for three operations and two executions: it fills,  *)
(* entries are forgotten, and each deadline passes in every phase.          *)
EXTENDS OperationTable, TLC

CONSTANTS o1, o2, o3, a1, a2, g1

MCOps == {o1, o2, o3}
MCActors == {a1, a2}
MCGenerations == {g1}
MCReviewTimes == {1, 2}

TableSymmetry == Permutations(MCOps) \cup Permutations(MCActors)
=============================================================================

-------------------------- MODULE MCPolicyWorkflow --------------------------
(* One owner and one directory, registered already or still to be, or two    *)
(* owners with a directory each.                                             *)
EXTENDS PolicyWorkflow, TLC

CONSTANTS o1, o2, o3, o4, a1, a2, u1, u2, d1, d2

OneActor == {a1}
TwoActors == {a1, a2}
OneUid == {u1}
TwoUids == {u1, u2}
NoDirectory == {}
OneDirectory == {d1}
TwoDirectories == {d1, d2}
OwnActor == [a \in Actors |-> IF a = a1 THEN u1 ELSE u2]
OwnDirectory == [d \in Directories |-> IF d = d1 THEN u1 ELSE u2]
TwoOps == {o1, o2}
ThreeOps == {o1, o2, o3}
FourOps == {o1, o2, o3, o4}

OpSymmetry == Permutations(Ops)
=============================================================================

---------------------------- MODULE MCMembership ----------------------------
(***************************************************************************)
(* RaftCluster for TLC with a server that joins and one that leaves.       *)
(***************************************************************************)
EXTENDS MCRaft, ClusterHistory

CONSTANTS Joining, Leaving

Changes == {AddServer(Joining), RemoveServer(Leaving)}

StayingSymmetry == Permutations(Node \ {Joining, Leaving})

\* The leader and its voter are among the nodes that stay.
InitMembership ==
    /\ Init!2 /\ Init!3
    /\ \E l, p \in Node \ {Joining, Leaving} : l # p /\ node = ElectedBy(l, p)

SpecMembership == InitMembership /\ [][Next]_vars
=============================================================================

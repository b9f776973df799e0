------------------------------ MODULE MCTimed ------------------------------
(***************************************************************************)
(* Instances of RaftTimed for TLC.                                         *)
(***************************************************************************)
EXTENDS RaftTimed, MCElected

InitElected ==
    /\ Init!2 /\ Init!3
    /\ \E l \in Node : \E p \in Node \ {l} : node = ElectedBy(l, p)

SpecElected == InitElected /\ [][TimedNext]_vars
=============================================================================

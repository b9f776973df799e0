----------------------------- MODULE MCChannels -----------------------------
(***************************************************************************)
(* Instances of RaftChannels for TLC.                                      *)
(***************************************************************************)
EXTENDS ChannelNetwork, ChannelHistory, MCElected

InitElected ==
    /\ Init!2 /\ Init!3
    /\ \E l \in Node : \E p \in Node \ {l} : node = ElectedBy(l, p)

Symmetry == NodeSymmetry \cup Permutations(Command)

SpecElected == InitElected /\ [][Next]_vars
=============================================================================

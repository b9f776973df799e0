------------------------------- MODULE MCRaft -------------------------------
(***************************************************************************)
(* Instances of RaftCluster for TLC.                                       *)
(***************************************************************************)
EXTENDS LogAccounting, MCElected

InitElected ==
    /\ Init!2 /\ Init!3
    /\ \E l \in Node : \E p \in Node \ {l} : node = ElectedBy(l, p)

\* Two nodes have won the pre-votes of all the others at the same time, and
\* their requests for votes are on the way.
InitRivals ==
    /\ Init!3
    /\ \E rivals \in kSubset(2, Node) :
           LET started(r) == PreVotesFrom(r, Node \ rivals)
           IN  /\ node = [i \in Node |-> IF i \in rivals THEN Drained(started(i))
                                                        ELSE Fresh(i)]
               /\ net = [i \in Node |-> [j \in Node |->
                     IF i \in rivals /\ j \notin rivals
                     THEN ToBag(started(i).outbox[j]) ELSE EmptyBag]]

SpecRivals == InitRivals /\ [][Next]_vars

SpecElected == InitElected /\ [][Next]_vars
=============================================================================

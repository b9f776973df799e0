------------------------------ MODULE LossyLink ------------------------------
(***************************************************************************)
(* What Raft is promised by a transport: between two nodes a message may   *)
(* be lost, but what arrives was sent, unchanged, in the order in which it *)
(* was sent, and arrives once.                                             *)
(***************************************************************************)
EXTENDS Naturals, Sequences, SequencesExt

CONSTANTS Node, Msg, Nothing

VARIABLES
    inFlight,  \* inFlight[i][j]: the messages from i to j, oldest first
    arrived    \* arrived[j]: the envelope that node j received last

LinkInit ==
    /\ inFlight = [i \in Node |-> [j \in Node |-> <<>>]]
    /\ arrived = [j \in Node |-> Nothing]

SendMsg(i, j) ==
    /\ \E m \in Msg : inFlight'[i][j] = Append(inFlight[i][j], m)
    /\ UNCHANGED arrived

Lose(i, j) ==
    /\ \E k \in DOMAIN inFlight[i][j] :
           inFlight'[i][j] = RemoveAt(inFlight[i][j], k)
    /\ UNCHANGED arrived

Deliver(i, j) ==
    /\ inFlight[i][j] # <<>>
    /\ inFlight'[i][j] = Tail(inFlight[i][j])
    /\ arrived' = [arrived EXCEPT ![j] =
           [from |-> i, message |-> Head(inFlight[i][j])]]

\* A step changes the messages of one pair of nodes.
LinkNext ==
    \E i, j \in Node :
        /\ inFlight'[i][j] # inFlight[i][j]
        /\ SendMsg(i, j) \/ Lose(i, j) \/ Deliver(i, j)
        /\ \A a, b \in Node : <<a, b>> # <<i, j>> => inFlight'[a][b] = inFlight[a][b]

LinkSpec == LinkInit /\ [][LinkNext]_<<inFlight, arrived>>
=============================================================================

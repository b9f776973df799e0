----------------------------- MODULE MCEmbassy -----------------------------
(***************************************************************************)
(* Instances of EmbassyCluster for TLC.  Their initial states are what the *)
(* handlers themselves make of freshly built nodes once every message of   *)
(* an election has been delivered.                                         *)
(***************************************************************************)
EXTENDS EmbassyCluster, MCElected

CONSTANTS n1, n2, n3

MCNode == {n1, n2, n3}

\* The nodes after every message among them has been handled.
RECURSIVE Settled(_)
Settled(nodes) ==
    LET unsent == {<<i, j>> \in Node \X Node : nodes[i].outbox[j] # <<>>}
        pair   == CHOOSE e \in unsent : TRUE
        i      == pair[1]
        j      == pair[2]
        sent   == [nodes EXCEPT ![i].outbox[j] = Tail(@)]
    IN  IF unsent = {} THEN nodes
        ELSE Settled([sent EXCEPT ![j] = handle_message(@, i, Head(nodes[i].outbox[j]))])

\* The election timer of node i runs out and what follows is delivered.
AfterElectionOf(i, nodes) == Settled([nodes EXCEPT ![i] = handle_election_timer(@)])

\* n2 is elected first; the client turns to n1 first.
Stable == AfterElectionOf(n2, [i \in Node |-> Fresh(i)])
SpecStable == InitAround(Stable) /\ [][Next]_vars /\ Fairness

\* n1 has deposed n2: a stall of the executor let its election timer run out
\* (the loop looks at the timers before it looks at the queued heartbeat).
Deposed == AfterElectionOf(n1, Stable)
SpecDeposed == InitAround(Deposed) /\ [][Next]_vars /\ Fairness
=============================================================================

------------------------------ MODULE MCElected ------------------------------
(***************************************************************************)
(* Cluster states the model-checking runs start from when their question   *)
(* is not about the first election.  Each is what the handlers themselves  *)
(* produce from freshly built nodes when the messages not named are lost   *)
(* or late, so each is a reachable state of the cluster.                   *)
(***************************************************************************)
EXTENDS RaftNodes, TLC

NodeSymmetry == Permutations(Node)

Fresh(i) == start_node(i, new_storage)

Drained(n) == [n EXCEPT !.outbox = no_messages]

\* l has timed out and collected the pre-votes of the nodes in from.
PreVotesFrom(l, from) ==
    FoldSet(LAMBDA p, n : handle_pre_vote_response(n, p,
                VoteResponseMsg("PreVoteResponse", 0, TRUE)),
            Drained(handle_election_timer(Fresh(l))), from)

\* l leads term 1 with the vote of p; the other nodes heard nothing of it.
ElectedBy(l, p) ==
    LET candidate == PreVotesFrom(l, {p})
        voter     == handle_vote_request(Fresh(p), l, Head(candidate.outbox[p]))
        leader    == handle_vote_response(Drained(candidate), p,
                                          Head(voter.outbox[l]))
    IN  [i \in Node |-> CASE i = l -> Drained(leader)
                          [] i = p -> Drained(voter)
                          [] OTHER -> Fresh(i)]
=============================================================================

------------------------------ MODULE Election ------------------------------
(***************************************************************************)
(* ElectionManager and RoleTransitionManager, and the handlers of          *)
(* message_handler/election.rs that call them: pre-vote, election, vote    *)
(* collection and the move to leader.                                      *)
(***************************************************************************)
EXTENDS LogReplication

is_log_up_to_date(n, m) ==
    \/ m.last_log_term > last_log_term(n)
    \/ /\ m.last_log_term = last_log_term(n)
       /\ m.last_log_index >= last_log_index(n)

become_leader(n) ==
    send_append_entries_to_followers(reset_heartbeat_timer(stop_timers(
        initialize_leader_state([n EXCEPT !.role = Leader]))))

-----------------------------------------------------------------------------
(* Pre-vote                                                                *)

start_pre_vote(n) ==
    broadcast(
        reset_election_timer(
            [n EXCEPT !.pre_votes_received = push(new_collection, n.id),
                      !.in_pre_vote = TRUE]),
        VoteRequestMsg("PreVoteRequest", n.current_term,
                       last_log_index(n), last_log_term(n)))

\* A pre-vote is granted without remembering it and without adopting a term.
handle_pre_vote_request(n, from, m) ==
    send(n, from,
         VoteResponseMsg("PreVoteResponse", n.current_term,
                         m.term >= n.current_term /\ is_log_up_to_date(n, m)))

-----------------------------------------------------------------------------
(* Election                                                                *)

start_election(n) ==
    LET term == n.current_term + 1
        a == broadcast(
                 reset_election_timer(
                     [n EXCEPT !.current_term = term,
                               !.voted_for = n.id,
                               !.votes_received = push(new_collection, n.id),
                               !.in_pre_vote = FALSE,
                               !.role = Candidate]),
                 VoteRequestMsg("RequestVote", term,
                                last_log_index(n), last_log_term(n)))
    IN  IF size(n.members) <= 1 THEN become_leader(a) ELSE a

\* Any node in its pre-vote phase, whatever its role has become meanwhile.
handle_pre_vote_response(n, from, m) ==
    IF m.term > n.current_term \/ ~n.in_pre_vote \/ ~m.vote_granted THEN n
    ELSE LET a == [n EXCEPT !.pre_votes_received = push(@, from)]
         IN  IF has_quorum(n.members, len(a.pre_votes_received))
             THEN start_election([a EXCEPT !.in_pre_vote = FALSE])
             ELSE a

handle_election_timer(n) ==
    IF n.role = Leader THEN n
    ELSE LET a == start_pre_vote(n)
         IN  IF size(n.members) <= 1 THEN start_election(a) ELSE a

\* Mutant: the vote already given is not looked at.
should_grant_vote_again(n, from, m) ==
    m.term >= n.current_term /\ is_log_up_to_date(n, m)

should_grant_vote(n, from, m) ==
    /\ m.term >= n.current_term
    /\ n.voted_for \in {None, from}
    /\ is_log_up_to_date(n, m)

\* The answer that gives a vote in term t.
Grant(t) == VoteResponseMsg("RequestVoteResponse", t, TRUE)

\* The messages that ask for a vote or give one.
Electoral(m) ==
    \/ m.type = "RequestVote"
    \/ m.type = "RequestVoteResponse" /\ m.vote_granted

handle_vote_request(n, from, m) ==
    LET a == IF m.term > n.current_term THEN step_down(n, m.term) ELSE n
        granted == should_grant_vote(a, from, m)
        b == IF granted
             THEN reset_election_timer([a EXCEPT !.voted_for = from])
             ELSE a
    IN  send(b, from,
             VoteResponseMsg("RequestVoteResponse", b.current_term, granted))

\* Mutant: an answer of an earlier term is counted.
handle_vote_response_any_term(n, from, m) ==
    IF m.term > n.current_term THEN step_down(n, m.term)
    ELSE IF n.role # Candidate \/ ~m.vote_granted THEN n
    ELSE LET a == [n EXCEPT !.votes_received = push(@, from)]
         IN  IF has_quorum(n.members, len(a.votes_received))
             THEN become_leader(a) ELSE a

handle_vote_response(n, from, m) ==
    IF m.term > n.current_term THEN step_down(n, m.term)
    ELSE IF n.role # Candidate \/ m.term # n.current_term \/ ~m.vote_granted
    THEN n
    ELSE LET a == [n EXCEPT !.votes_received = push(@, from)]
         IN  IF has_quorum(n.members, len(a.votes_received))
             THEN become_leader(a) ELSE a
=============================================================================

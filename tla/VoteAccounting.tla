--------------------------- MODULE VoteAccounting ---------------------------
(***************************************************************************)
(* Where the votes of a cluster are.  A vote of v for c in a term is asked *)
(* for by a RequestVote on its way from c to v, given by an answer on its  *)
(* way back, and counted in c's votes_received.  The code counts an answer *)
(* without looking who has already voted, so elections are safe only as    *)
(* long as every vote is in one of these places and in one copy: that is   *)
(* what VotesAccounted says of a cluster with a fixed configuration whose  *)
(* network duplicates nothing.  It is the inductive invariant behind       *)
(* ElectionSafety.                                                         *)
(***************************************************************************)
EXTENDS RaftCluster

Asked(c, v, t) ==
    \E m \in BagToSet(net[c][v]) : m.type = "RequestVote" /\ m.term = t

Given(v, c, t) == Grant(t) \in BagToSet(net[v][c])

\* A follower's votes_received is what is left of an earlier term.
Counted(c, v, t) ==
    /\ node[c].role # Follower
    /\ node[c].current_term = t
    /\ node[c].votes_received[v] > 0

\* Everyone is configured with the same nodes.
FixedMembers == \A i \in Node : node[i].members = [p \in Node |-> 1]

\* Election messages are in flight in one copy, to another node, and of a
\* term their sender has reached.
SingleMessages ==
    \A i, j \in Node : \A m \in BagToSet(net[i][j]) :
        Electoral(m) => i # j /\ m.term <= node[i].current_term /\ net[i][j][m] = 1

\* A candidate asks a node once in a term.
OneRequest ==
    \A c, v \in Node : \A m, l \in BagToSet(net[c][v]) :
        m.type = "RequestVote" /\ l.type = "RequestVote" /\ m.term = l.term => m = l

\* A vote that is in one place is in no other.
OnePlace ==
    \A c, v \in Node : \A t \in 0..node[c].current_term :
        /\ ~(Asked(c, v, t) /\ Given(v, c, t))
        /\ c # v => /\ ~(Asked(c, v, t) /\ Counted(c, v, t))
                    /\ ~(Given(v, c, t) /\ Counted(c, v, t))

\* A node that stands has voted for itself and has counted no one twice.
CountedOnce ==
    \A c \in Node : node[c].role # Follower =>
        /\ node[c].voted_for = c
        /\ \A v \in Node : node[c].votes_received[v] <= 1
        /\ node[c].votes_received[c] = 1

\* A vote binds the voter, in a term that the candidate has reached.
Binding ==
    \A c, v \in Node :
        /\ \A m \in BagToSet(net[v][c]) :
               m = Grant(m.term) => m.term <= node[c].current_term
        /\ \A t \in 0..node[c].current_term :
               Given(v, c, t) \/ Counted(c, v, t) =>
                   /\ t <= node[v].current_term
                   /\ t = node[v].current_term => node[v].voted_for = c

\* A node votes for one candidate in a term.
OneVote ==
    \A v, c, d \in Node : \A t \in 0..node[v].current_term :
        /\ Given(v, c, t) \/ Counted(c, v, t)
        /\ Given(v, d, t) \/ Counted(d, v, t)
        => c = d

\* A leader has counted a quorum.
LeadersHaveQuorum ==
    \A c \in Node : node[c].role = Leader =>
        has_quorum(node[c].members, len(node[c].votes_received))

\* The votes of a cluster with a fixed configuration and without duplicated
\* messages are accounted for: handle_vote_response, which pushes every vote
\* it is given, counts each at most once and only for the term it was given.
VotesAccounted ==
    /\ FixedMembers
    /\ SingleMessages
    /\ OneRequest
    /\ OnePlace
    /\ CountedOnce
    /\ Binding
    /\ OneVote
    /\ LeadersHaveQuorum
=============================================================================

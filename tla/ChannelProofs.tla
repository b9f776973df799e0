--------------------------- MODULE ChannelProofs ---------------------------
(***************************************************************************)
(* The channel transport implements the network of RaftCluster, and what   *)
(* is proved over that network therefore holds over the channels.          *)
(*                                                                         *)
(* INSTANCE gives Network its own copy of every operator of RaftNode and   *)
(* of the modules it extends.  The lemmas Same... say that the copies are  *)
(* the operators, from the collections up to the handlers of events.       *)
(***************************************************************************)
EXTENDS ChannelNetwork, RaftNodeProofs

\* Cardinalities, lengths and the median.
LEMMA SameCollections ==
    /\ \A S : Network!Cardinality(S) = Cardinality(S)
    /\ \A S : Network!Min(S) = Min(S)
    /\ \A S : Network!Max(S) = Max(S)
    /\ \A c : Network!len(c) = len(c)
    /\ \A match, last, members, catching, leader :
           Network!compute_median(match, last, members, catching, leader)
               = compute_median(match, last, members, catching, leader)
<1>1. /\ \A S : Network!Cardinality(S) = Cardinality(S)
      /\ \A S : Network!Min(S) = Min(S)
      /\ \A S : Network!Max(S) = Max(S)
    BY DEF Cardinality, Network!Cardinality, Min, Network!Min, Max, Network!Max
<1>2. \A c : Network!len(c) = len(c)
    BY <1>1
       DEF len, Network!len, Slots, Network!Slots
<1>3. \A match, last, members, catching, leader :
               Network!compute_median(match, last, members, catching, leader)
                   = compute_median(match, last, members, catching, leader)
    <2> SUFFICES ASSUME NEW match, NEW last, NEW members, NEW catching, NEW leader
                 PROVE  Network!compute_median(match, last, members, catching, leader)
                            = compute_median(match, last, members, catching, leader)
        BY Zenon
    <2> DEFINE voters    == Voters(members, catching, leader)
               index(p)  == IF p = leader THEN last ELSE get(match, p, 0)
               copies(x) == [p \in Node |-> IF index(p) <= x THEN voters[p] ELSE 0]
               values    == {index(p) : p \in {q \in Node : voters[q] > 0}}
               S == {x \in values : len(copies(x)) > (len(voters) - 1) \div 2}
               T == {x \in values :
                        Network!len(copies(x)) > (Network!len(voters) - 1) \div 2}
    <2>1. compute_median(match, last, members, catching, leader) = Min(S)
        BY Zenon DEF compute_median
    <2>2. Network!compute_median(match, last, members, catching, leader) = Network!Min(T)
        BY Zenon DEF Network!compute_median, get, Network!get, Voters, Network!Voters
    <2>3. S = T
        <3> HIDE DEF copies, voters, values
        <3> QED BY <1>2
    <2> HIDE DEF S, T
    <2> QED BY <1>1, <2>1, <2>2, <2>3
<1> QED BY <1>1, <1>2, <1>3

\* The operators of RaftContext.
LEMMA SameContext ==
    /\ \A members, p : Network!contains(members, p) = contains(members, p)
    /\ \A c, p : Network!push(c, p) = push(c, p)
    /\ \A map, p, v : Network!insert(map, p, v) = insert(map, p, v)
    /\ \A map, p, default : Network!get(map, p, default) = get(map, p, default)
    /\ \A n : Network!last_log_index(n) = last_log_index(n)
    /\ \A n : Network!last_log_term(n) = last_log_term(n)
    /\ \A n, index : Network!has_entry(n, index) = has_entry(n, index)
    /\ \A n, index : Network!get_entry(n, index) = get_entry(n, index)
    /\ \A n, start : Network!get_entries(n, start) = get_entries(n, start)
    /\ \A n, entries : Network!append_entries(n, entries) = append_entries(n, entries)
    /\ \A n, index : Network!truncate_after(n, index) = truncate_after(n, index)
    /\ \A n, index :
           Network!discard_entries_before(n, index)
               = discard_entries_before(n, index)
    /\ \A n : Network!reset_election_timer(n) = reset_election_timer(n)
    /\ \A n : Network!reset_heartbeat_timer(n) = reset_heartbeat_timer(n)
    /\ \A n : Network!stop_timers(n) = stop_timers(n)
    /\ \A n : Network!grant(n) = grant(n)
    /\ \A n : Network!revoke(n) = revoke(n)
    /\ \A type, term, index, lastTerm :
           Network!VoteRequestMsg(type, term, index, lastTerm)
               = VoteRequestMsg(type, term, index, lastTerm)
    /\ \A type, term, granted :
           Network!VoteResponseMsg(type, term, granted)
               = VoteResponseMsg(type, term, granted)
    /\ \A n, to, msg : Network!send(n, to, msg) = send(n, to, msg)
    /\ \A members : Network!size(members) = size(members)
    /\ \A members, self : Network!peers(members, self) = peers(members, self)
    /\ \A members : Network!quorum_size(members) = quorum_size(members)
    /\ \A members, count :
           Network!has_quorum(members, count) = has_quorum(members, count)
    /\ \A n, msg : Network!send_to_peers(n, msg) = send_to_peers(n, msg)
    /\ \A n, new_term : Network!step_down(n, new_term) = step_down(n, new_term)
    /\ \A n, term :
           Network!reset_election_timer_if_valid_term(n, term)
               = reset_election_timer_if_valid_term(n, term)
    /\ \A n, msg : Network!broadcast(n, msg) = broadcast(n, msg)
<1>1. /\ \A members, p : Network!contains(members, p) = contains(members, p)
      /\ \A c, p : Network!push(c, p) = push(c, p)
      /\ \A map, p, v : Network!insert(map, p, v) = insert(map, p, v)
      /\ \A map, p, default : Network!get(map, p, default) = get(map, p, default)
    BY DEF contains, Network!contains, push, Network!push, insert, Network!insert, get, Network!get
<1>2. /\ \A n : Network!last_log_index(n) = last_log_index(n)
      /\ \A n : Network!last_log_term(n) = last_log_term(n)
      /\ \A n, index : Network!has_entry(n, index) = has_entry(n, index)
      /\ \A n, index : Network!get_entry(n, index) = get_entry(n, index)
      /\ \A n, start : Network!get_entries(n, start) = get_entries(n, start)
    BY DEF last_log_index, Network!last_log_index, last_log_term, Network!last_log_term, has_entry,
           Network!has_entry, get_entry, Network!get_entry, get_entries,
           Network!get_entries
<1>3. /\ \A n, entries : Network!append_entries(n, entries) = append_entries(n, entries)
      /\ \A n, index : Network!truncate_after(n, index) = truncate_after(n, index)
      /\ \A n, index :
               Network!discard_entries_before(n, index)
                   = discard_entries_before(n, index)
    BY SameCollections
       DEF append_entries, Network!append_entries, truncate_after, Network!truncate_after,
           discard_entries_before, Network!discard_entries_before
<1>4. /\ \A n : Network!reset_election_timer(n) = reset_election_timer(n)
      /\ \A n : Network!reset_heartbeat_timer(n) = reset_heartbeat_timer(n)
      /\ \A n : Network!stop_timers(n) = stop_timers(n)
      /\ \A n : Network!grant(n) = grant(n)
      /\ \A n : Network!revoke(n) = revoke(n)
    BY DEF reset_election_timer, Network!reset_election_timer, reset_heartbeat_timer,
           Network!reset_heartbeat_timer, stop_timers, Network!stop_timers, grant,
           Network!grant, revoke, Network!revoke
<1>5. /\ \A type, term, index, lastTerm :
               Network!VoteRequestMsg(type, term, index, lastTerm)
                   = VoteRequestMsg(type, term, index, lastTerm)
      /\ \A type, term, granted :
               Network!VoteResponseMsg(type, term, granted)
                   = VoteResponseMsg(type, term, granted)
      /\ \A n, to, msg : Network!send(n, to, msg) = send(n, to, msg)
    BY DEF VoteRequestMsg, Network!VoteRequestMsg, VoteResponseMsg, Network!VoteResponseMsg, send,
           Network!send
<1>6. /\ \A members : Network!size(members) = size(members)
      /\ \A members, self : Network!peers(members, self) = peers(members, self)
    BY SameCollections, <1>1
       DEF size, Network!size, peers, Network!peers
<1>7. \A members : Network!quorum_size(members) = quorum_size(members)
    BY <1>6
       DEF quorum_size, Network!quorum_size
<1>8. \A members, count :
               Network!has_quorum(members, count) = has_quorum(members, count)
    BY <1>7
       DEF has_quorum, Network!has_quorum
<1>9. /\ \A n, msg : Network!send_to_peers(n, msg) = send_to_peers(n, msg)
      /\ \A n, new_term : Network!step_down(n, new_term) = step_down(n, new_term)
      /\ \A n, term :
               Network!reset_election_timer_if_valid_term(n, term)
                   = reset_election_timer_if_valid_term(n, term)
    BY <1>6, <1>4
       DEF send_to_peers, Network!send_to_peers, step_down, Network!step_down,
           reset_election_timer_if_valid_term,
           Network!reset_election_timer_if_valid_term, Follower, Network!Follower
<1>10. \A n, msg : Network!broadcast(n, msg) = broadcast(n, msg)
    BY <1>9
       DEF broadcast, Network!broadcast
<1> QED BY <1>1, <1>2, <1>3, <1>4, <1>5, <1>6, <1>7, <1>8, <1>9, <1>10

\* The operators of ConfigChange and LogReplication.
LEMMA SameReplication ==
    /\ \A n, changes : Network!apply_changes(n, changes) = apply_changes(n, changes)
    /\ \A n : Network!initialize_leader_state(n) = initialize_leader_state(n)
    /\ \A n : Network!has_snapshot_chunk(n) = has_snapshot_chunk(n)
    /\ \A n, peer :
           Network!get_append_entries_for_follower(n, peer)
               = get_append_entries_for_follower(n, peer)
    /\ \A n, peer :
           Network!get_append_entries_for_peer(n, peer)
               = get_append_entries_for_peer(n, peer)
    /\ \A n :
           Network!send_append_entries_to_followers(n)
               = send_append_entries_to_followers(n)
    /\ \A n : Network!send_heartbeats(n) = send_heartbeats(n)
    /\ \A n : Network!handle_heartbeat_timer(n) = handle_heartbeat_timer(n)
    /\ \A n : Network!apply_committed_entries(n) = apply_committed_entries(n)
    /\ \A n : Network!advance_commit_index(n) = advance_commit_index(n)
    /\ \A n : Network!should_create(n) = should_create(n)
    /\ \A n : Network!create_snapshot(n) = create_snapshot(n)
    /\ \A n, prev_log_index, prev_log_term :
           Network!check_log_consistency(n, prev_log_index, prev_log_term)
               = check_log_consistency(n, prev_log_index, prev_log_term)
    /\ \A n, prev_log_index, entries :
           Network!replace_suffix(n, prev_log_index, entries)
               = replace_suffix(n, prev_log_index, entries)
    /\ \A n, m : Network!try_append_entries(n, m) = try_append_entries(n, m)
    /\ \A n, from, m :
           Network!replication_handle_append_entries(n, from, m)
               = replication_handle_append_entries(n, from, m)
    /\ \A n, from, m :
           Network!handle_append_entries(n, from, m)
               = handle_append_entries(n, from, m)
    /\ \A n, p :
           Network!check_and_promote_caught_up_server(n, p)
               = check_and_promote_caught_up_server(n, p)
    /\ \A n, from, m :
           Network!replication_handle_append_entries_response(n, from, m)
               = replication_handle_append_entries_response(n, from, m)
    /\ \A n, from, m :
           Network!handle_append_entries_response(n, from, m)
               = handle_append_entries_response(n, from, m)
    /\ \A n, from, m :
           Network!handle_install_snapshot_response(n, from, m)
               = handle_install_snapshot_response(n, from, m)
    /\ \A n, m : Network!install(n, m) = install(n, m)
    /\ \A n, from, m :
           Network!replication_handle_install_snapshot(n, from, m)
               = replication_handle_install_snapshot(n, from, m)
    /\ \A n, from, m :
           Network!handle_install_snapshot(n, from, m)
               = handle_install_snapshot(n, from, m)
<1>1. \A n, changes : Network!apply_changes(n, changes) = apply_changes(n, changes)
    <2> SUFFICES ASSUME NEW n, NEW changes
                 PROVE  Network!apply_changes(n, changes) = apply_changes(n, changes)
        BY Zenon
    <2> DEFINE
        adds(p)    == {k \in DOMAIN changes : changes[k] = AddServer(p)}
        removes(p) == {k \in DOMAIN changes : changes[k] = RemoveServer(p)}
        asLeader   == {k \in DOMAIN changes :
                          n.role = Leader /\ \A r \in removes(n.id) : k <= r}
        about(p)   == asLeader \cap (adds(p) \cup removes(p))
        update(map, v, max(_)) ==
            [p \in (DOMAIN map
                       \cup {q \in Node : about(q) # {} /\ max(about(q)) \in adds(q)})
                       \ {q \in Node : about(q) # {} /\ max(about(q)) \in removes(q)} |->
                IF about(p) # {} /\ max(about(p)) \in adds(p) THEN v ELSE map[p]]
        members(max(_), card(_)) ==
            [p \in Node |->
                IF removes(p) = {} THEN n.members[p] + card(adds(p))
                ELSE card({k \in adds(p) : k > max(removes(p))})]
        result(all, next, match) ==
            [n EXCEPT
                !.members = all, !.next_index = next, !.match_index = match,
                !.catching_up_servers = @ \cup {p \in Node : adds(p) \cap asLeader # {}},
                !.role = IF removes(n.id) # {} THEN Follower ELSE @,
                !.pending_change = IF @ \in DOMAIN changes THEN None ELSE @]
    <2>1. apply_changes(n, changes) =
              result(members(Max, Cardinality),
                     update(n.next_index, last_log_index(n) + 1, Max),
                     update(n.match_index, 0, Max))
        BY Zenon DEF apply_changes
    <2>2. Network!apply_changes(n, changes) =
              result(members(Network!Max, Network!Cardinality),
                     update(n.next_index, Network!last_log_index(n) + 1, Network!Max),
                     update(n.match_index, 0, Network!Max))
        BY Zenon DEF Network!apply_changes, AddServer, Network!AddServer, RemoveServer,
                     Network!RemoveServer, Follower, Network!Follower, Leader, Network!Leader
    <2>3. members(Max, Cardinality) = members(Network!Max, Network!Cardinality)
        <3> HIDE DEF adds, removes
        <3> QED BY SameCollections
    <2>4. \A map, v : update(map, v, Max) = update(map, v, Network!Max)
        <3> HIDE DEF adds, removes, about
        <3> QED BY SameCollections
    <2> HIDE DEF update, members, result
    <2> QED BY <2>1, <2>2, <2>3, <2>4, SameContext
<1>2. \A n : Network!initialize_leader_state(n) = initialize_leader_state(n)
    BY SameContext
       DEF initialize_leader_state, Network!initialize_leader_state
<1>3. \A n : Network!has_snapshot_chunk(n) = has_snapshot_chunk(n)
    BY DEF has_snapshot_chunk, Network!has_snapshot_chunk
<1>4. \A n, peer :
               Network!get_append_entries_for_follower(n, peer)
                   = get_append_entries_for_follower(n, peer)
    BY SameContext
       DEF get_append_entries_for_follower, Network!get_append_entries_for_follower
<1>5. \A n, peer :
               Network!get_append_entries_for_peer(n, peer)
                   = get_append_entries_for_peer(n, peer)
    BY SameContext, <1>3, <1>4
       DEF get_append_entries_for_peer, Network!get_append_entries_for_peer
<1>6. \A n :
               Network!send_append_entries_to_followers(n)
                   = send_append_entries_to_followers(n)
    BY SameContext, <1>5
       DEF send_append_entries_to_followers, Network!send_append_entries_to_followers
<1>7. \A n : Network!send_heartbeats(n) = send_heartbeats(n)
    BY SameContext, <1>6
       DEF send_heartbeats, Network!send_heartbeats
<1>8. \A n : Network!handle_heartbeat_timer(n) = handle_heartbeat_timer(n)
    BY <1>7
       DEF handle_heartbeat_timer, Network!handle_heartbeat_timer, Leader, Network!Leader
<1>9. \A n : Network!apply_committed_entries(n) = apply_committed_entries(n)
    <2> SUFFICES ASSUME NEW n
                 PROVE  Network!apply_committed_entries(n) = apply_committed_entries(n)
        BY Zenon
    <2> DEFINE
        new(has(_,_))    == {k \in (n.last_applied + 1)..n.commit_index : has(n, k)}
        entry(S, at(_,_)) == [k \in S |-> at(n, k).entry_type]
        changes(S, e, C) == {k \in S : e[k] \in C}
        applied(S, T, e, k) == IF k \in S THEN IF k \in T THEN None ELSE e[k]
                               ELSE IF k \in DOMAIN n.state_machine
                               THEN n.state_machine[k] ELSE None
        after(S, T, e, max) ==
            [n EXCEPT !.last_applied = n.commit_index,
                      !.state_machine = [k \in 1..max |-> applied(S, T, e, k)]]
        upTo(max(_)) == max({Len(n.state_machine), n.commit_index})
        ours      == new(has_entry)
        entries   == entry(ours, get_entry)
        theirs    == new(Network!has_entry)
        entries_  == entry(theirs, Network!get_entry)
        config    == changes(ours, entries, ConfigurationChange)
        config_   == changes(theirs, entries_, Network!ConfigurationChange)
    <2>1. apply_committed_entries(n) =
              IF n.last_applied >= n.commit_index THEN n
              ELSE apply_changes(after(ours, config, entries, upTo(Max)),
                                 [k \in config |-> entries[k]])
        BY Zenon DEF apply_committed_entries
    <2>2. Network!apply_committed_entries(n) =
              IF n.last_applied >= n.commit_index THEN n
              ELSE Network!apply_changes(
                       after(theirs, config_, entries_, upTo(Network!Max)),
                       [k \in config_ |-> entries_[k]])
        BY Zenon DEF Network!apply_committed_entries
    <2>3. ours = theirs
        BY SameContext
    <2>4. entries = entries_
        <3> HIDE DEF ours, theirs
        <3> QED BY SameContext, <2>3
    <2>5. config = config_
        <3>1. ConfigurationChange = Network!ConfigurationChange
            BY DEF ConfigurationChange, Network!ConfigurationChange
        <3> HIDE DEF ours, theirs, entries, entries_, changes
        <3> QED BY <2>3, <2>4, <3>1
    <2>6. upTo(Max) = upTo(Network!Max)
        BY SameCollections
    <2> HIDE DEF ours, theirs, entries, entries_, config, config_, upTo, after
    <2> QED BY <2>1, <2>2, <2>3, <2>4, <2>5, <2>6, <1>1
<1>10. \A n : Network!advance_commit_index(n) = advance_commit_index(n)
    BY SameCollections, SameContext, <1>9
       DEF advance_commit_index, Network!advance_commit_index
<1>11. /\ \A n : Network!should_create(n) = should_create(n)
       /\ \A n : Network!create_snapshot(n) = create_snapshot(n)
       /\ \A n, prev_log_index, prev_log_term :
               Network!check_log_consistency(n, prev_log_index, prev_log_term)
                   = check_log_consistency(n, prev_log_index, prev_log_term)
       /\ \A n, prev_log_index, entries :
               Network!replace_suffix(n, prev_log_index, entries)
                   = replace_suffix(n, prev_log_index, entries)
    BY SameContext
       DEF should_create, Network!should_create, create_snapshot, Network!create_snapshot,
           check_log_consistency, Network!check_log_consistency, replace_suffix,
           Network!replace_suffix
<1>12. \A n, m : Network!try_append_entries(n, m) = try_append_entries(n, m)
    BY SameContext, <1>9, <1>11, SameCollections
       DEF try_append_entries, Network!try_append_entries
<1>13. \A n, from, m :
               Network!replication_handle_append_entries(n, from, m)
                   = replication_handle_append_entries(n, from, m)
    <2> SUFFICES ASSUME NEW n, NEW from, NEW m
                 PROVE  Network!replication_handle_append_entries(n, from, m)
                            = replication_handle_append_entries(n, from, m)
        BY Zenon
    <2> DEFINE
        a == IF m.term = n.current_term /\ n.role = Candidate
             THEN [n EXCEPT !.role = Follower] ELSE n
        accept(check) == m.term >= n.current_term /\ check
        ours   == check_log_consistency(a, m.prev_log_index, m.prev_log_term)
        theirs == Network!check_log_consistency(a, m.prev_log_index, m.prev_log_term)
        b == IF accept(ours) THEN try_append_entries(a, m) ELSE a
        c == IF accept(theirs) THEN Network!try_append_entries(a, m) ELSE a
        answer(n_, success, last) == [type |-> "AppendEntriesResponse",
                                      term |-> n_.current_term,
                                      success |-> success,
                                      match_index |-> last]
    <2>1. replication_handle_append_entries(n, from, m) =
              send(b, from, answer(b, accept(ours), last_log_index(b)))
        BY Zenon DEF replication_handle_append_entries
    <2>2. Network!replication_handle_append_entries(n, from, m) =
              Network!send(c, from, answer(c, accept(theirs), Network!last_log_index(c)))
        BY Zenon DEF Network!replication_handle_append_entries, Follower, Network!Follower,
                     Candidate, Network!Candidate
    <2>3. ours = theirs
        <3> HIDE DEF a
        <3> QED BY <1>11, Zenon
    <2>4. b = c
        <3> HIDE DEF a, ours, theirs, accept
        <3> QED BY <1>12, <2>3, Zenon
    <2> HIDE DEF b, c, ours, theirs, accept, answer
    <2> QED BY <2>1, <2>2, <2>3, <2>4, SameContext, Zenon
<1>14. \A n, from, m :
               Network!handle_append_entries(n, from, m)
                   = handle_append_entries(n, from, m)
    BY SameContext, <1>13
       DEF handle_append_entries, Network!handle_append_entries
<1>15. \A n, p :
               Network!check_and_promote_caught_up_server(n, p)
                   = check_and_promote_caught_up_server(n, p)
    BY SameContext
       DEF check_and_promote_caught_up_server, Network!check_and_promote_caught_up_server
<1>16. \A n, from, m :
               Network!replication_handle_append_entries_response(n, from, m)
                   = replication_handle_append_entries_response(n, from, m)
    BY SameContext, <1>10, <1>15
       DEF replication_handle_append_entries_response,
           Network!replication_handle_append_entries_response
<1>17. \A n, from, m :
               Network!handle_append_entries_response(n, from, m)
                   = handle_append_entries_response(n, from, m)
    BY SameContext, <1>11, <1>16
       DEF handle_append_entries_response, Network!handle_append_entries_response, Leader,
           Network!Leader
<1>18. \A n, from, m :
               Network!handle_install_snapshot_response(n, from, m)
                   = handle_install_snapshot_response(n, from, m)
    BY SameContext, <1>15
       DEF handle_install_snapshot_response, Network!handle_install_snapshot_response, Leader,
           Network!Leader
<1>19. \A n, m : Network!install(n, m) = install(n, m)
    BY SameContext, SameCollections
       DEF install, Network!install
<1>20. \A n, from, m :
               Network!replication_handle_install_snapshot(n, from, m)
                   = replication_handle_install_snapshot(n, from, m)
    BY SameContext, <1>19
       DEF replication_handle_install_snapshot, Network!replication_handle_install_snapshot,
           Follower, Network!Follower, Candidate, Network!Candidate,
           InstallSnapshotResponse, Network!InstallSnapshotResponse
<1>21. \A n, from, m :
               Network!handle_install_snapshot(n, from, m)
                   = handle_install_snapshot(n, from, m)
    BY SameContext, <1>20
       DEF handle_install_snapshot, Network!handle_install_snapshot
<1> QED BY <1>1, <1>2, <1>3, <1>4, <1>5, <1>6, <1>7, <1>8, <1>9, <1>10, <1>11, <1>12,
           <1>13, <1>14, <1>15, <1>16, <1>17, <1>18, <1>19, <1>20, <1>21

\* The operators of Election.
LEMMA SameElections ==
    /\ \A n, m : Network!is_log_up_to_date(n, m) = is_log_up_to_date(n, m)
    /\ \A n : Network!become_leader(n) = become_leader(n)
    /\ \A n : Network!start_pre_vote(n) = start_pre_vote(n)
    /\ \A n, from, m :
           Network!handle_pre_vote_request(n, from, m)
               = handle_pre_vote_request(n, from, m)
    /\ \A n : Network!start_election(n) = start_election(n)
    /\ \A n, from, m :
           Network!should_grant_vote(n, from, m) = should_grant_vote(n, from, m)
    /\ \A n, from, m :
           Network!handle_pre_vote_response(n, from, m)
               = handle_pre_vote_response(n, from, m)
    /\ \A n : Network!handle_election_timer(n) = handle_election_timer(n)
    /\ \A n, from, m :
           Network!handle_vote_request(n, from, m) = handle_vote_request(n, from, m)
    /\ \A n, from, m :
           Network!handle_vote_response(n, from, m)
               = handle_vote_response(n, from, m)
<1>1. \A n, m : Network!is_log_up_to_date(n, m) = is_log_up_to_date(n, m)
    BY SameContext
       DEF is_log_up_to_date, Network!is_log_up_to_date
<1>2. \A n : Network!become_leader(n) = become_leader(n)
    BY SameContext, SameReplication
       DEF become_leader, Network!become_leader, Leader, Network!Leader
<1>3. /\ \A n : Network!start_pre_vote(n) = start_pre_vote(n)
      /\ \A n, from, m :
               Network!handle_pre_vote_request(n, from, m)
                   = handle_pre_vote_request(n, from, m)
      /\ \A n : Network!start_election(n) = start_election(n)
      /\ \A n, from, m :
               Network!should_grant_vote(n, from, m) = should_grant_vote(n, from, m)
    BY SameContext, <1>1, <1>2
       DEF start_pre_vote, Network!start_pre_vote, handle_pre_vote_request,
           Network!handle_pre_vote_request, start_election, Network!start_election,
           should_grant_vote, Network!should_grant_vote, new_collection,
           Network!new_collection, Candidate, Network!Candidate
<1>4. /\ \A n, from, m :
               Network!handle_pre_vote_response(n, from, m)
                   = handle_pre_vote_response(n, from, m)
      /\ \A n : Network!handle_election_timer(n) = handle_election_timer(n)
    BY SameContext, SameCollections, <1>3
       DEF handle_pre_vote_response, Network!handle_pre_vote_response, handle_election_timer,
           Network!handle_election_timer, Leader, Network!Leader
<1>5. /\ \A n, from, m :
               Network!handle_vote_request(n, from, m) = handle_vote_request(n, from, m)
      /\ \A n, from, m :
               Network!handle_vote_response(n, from, m)
                   = handle_vote_response(n, from, m)
    BY SameContext, <1>3, SameCollections, <1>2
       DEF handle_vote_request, Network!handle_vote_request, handle_vote_response,
           Network!handle_vote_response, Candidate, Network!Candidate
<1> QED BY <1>1, <1>2, <1>3, <1>4, <1>5

\* The events of a node.
LEMMA SameHandlers ==
    /\ \A n, entry_type :
           Network!submit_entry(n, entry_type) = submit_entry(n, entry_type)
    /\ \A n, payload :
           Network!submit_client_command(n, payload)
               = submit_client_command(n, payload)
    /\ \A n, from, m : Network!handle_message(n, from, m) = handle_message(n, from, m)
    /\ \A id, st, peerIds :
           Network!new_from_builder(id, st, peerIds)
               = new_from_builder(id, st, peerIds)
    /\ \A i, st : Network!start_node(i, st) = start_node(i, st)
<1>1. \A n, entry_type :
               Network!submit_entry(n, entry_type) = submit_entry(n, entry_type)
    BY SameContext, SameReplication
       DEF submit_entry, Network!submit_entry
<1>2. \A n, payload :
               Network!submit_client_command(n, payload)
                   = submit_client_command(n, payload)
    BY <1>1
       DEF submit_client_command, Network!submit_client_command, Leader, Network!Leader
<1>3. \A n, from, m : Network!handle_message(n, from, m) = handle_message(n, from, m)
    BY SameReplication, SameElections
       DEF handle_message, Network!handle_message
<1>4. \A id, st, peerIds :
               Network!new_from_builder(id, st, peerIds)
                   = new_from_builder(id, st, peerIds)
    BY DEF new_from_builder, Network!new_from_builder, new_collection, Network!new_collection,
           new_map, Network!new_map, Follower, Network!Follower, no_messages,
           Network!no_messages
<1>5. \A i, st : Network!start_node(i, st) = start_node(i, st)
    BY <1>4
       DEF start_node, Network!start_node
<1> QED BY <1>1, <1>2, <1>3, <1>4, <1>5

-----------------------------------------------------------------------------
(* Type correctness                                                        *)

\* The term of a does not go back in b, nor is a vote withdrawn or changed.
KeepsVote(a, b) ==
    /\ b.current_term >= a.current_term
    /\ b.current_term = a.current_term => a.voted_for \in {None, b.voted_for}

\* Every step lets a node send one message, or handle one event to its end.
LEMMA ChannelStep ==
    ASSUME TypeOK, Next
    PROVE  \/ \E i, j \in Node : Send(i, j)
           \/ \E i \in Node : \E b :
                  /\ NodeOK(b, EntryType)
                  /\ b.id = i
                  /\ KeepsVote(node[i], b)
                  /\ Step(i, b)
                  /\ \/ UNCHANGED channel
                     \/ channel[i] # <<>> /\ channel' = [channel EXCEPT ![i] = Tail(@)]
                  /\ budget' \in [timeouts : Nat, heartbeats : Nat]
<1> DEFINE Good(i, b) == NodeOK(b, EntryType) /\ b.id = i /\ KeepsVote(node[i], b)
           T == EntryType
<1>1. EntryType \in EntryTypes
    BY DEF EntryTypes, EntryType
<1>2. ASSUME NEW i \in Node
      PROVE  NodeOK(node[i], T) /\ node[i].id = i /\ node[i].current_term \in Nat
    BY DEF TypeOK, NodeOK
<1>3. ASSUME NEW i \in Node, node[i].outbox = no_messages PROVE Silent(node[i])
    BY <1>3 DEF Silent, no_messages
<1>4. ASSUME NEW i \in Node, NEW b, NodeOK(b, T),
             \/ Quiet(node[i], b, T) \/ Starts(node[i], b, T)
             \/ \E c, t : Votes(node[i], b, c, t) \/ Counts(node[i], b, c, t)
      PROVE  Good(i, b)
    BY <1>2, <1>4 DEF Quiet, Starts, Votes, Counts, KeepsVote
<1>5. (Spend("timeouts") \/ Spend("heartbeats") \/ UNCHANGED budget) =>
          budget' \in [timeouts : Nat, heartbeats : Nat]
    BY DEF TypeOK, Spend
<1>6. ASSUME NEW i \in Node, Receive(i)
      PROVE  Good(i, handle_message(node[i], Head(channel[i]).from, Head(channel[i]).message))
    <2> DEFINE from == Head(channel[i]).from
               m == Head(channel[i]).message
               b == handle_message(node[i], from, m)
    <2>1. Head(channel[i]) \in Envelope
        BY <1>6 DEF TypeOK, Receive
    <2>2. from \in Node /\ m \in RaftMsg(T)
        BY <2>1 DEF Envelope
    <2>3. node[i].outbox = no_messages
        BY <1>6 DEF Receive, Step
    <2> HIDE DEF from, m
    <2>4. NodeOK(b, T)
        BY <1>1, <1>2, <2>2, HandleMessageType, Zenon
    <2>5. \/ Quiet(node[i], b, T) \/ Starts(node[i], b, T)
          \/ m.type = "RequestVote" /\ Votes(node[i], b, from, m.term)
          \/ m = Grant(m.term) /\ Counts(node[i], b, from, m.term)
        BY <1>1, <1>2, <2>2, <2>3, HandleMessageStep
    <2> HIDE DEF b, Good
    <2>6. Good(i, b)
        BY <1>4, <2>4, <2>5, Zenon
    <2> QED BY <2>6 DEF b, from, m
<1>7. ASSUME NEW i \in Node, ElectionTimer(i)
      PROVE  Good(i, handle_election_timer(node[i]))
    <2>1. node[i].outbox = no_messages
        BY <1>7 DEF ElectionTimer, Step
    <2> HIDE DEF Good
    <2> QED BY <1>2, <1>3, <1>4, <2>1, ElectionTimerType, ElectionTimerStep, Zenon
<1>8. ASSUME NEW i \in Node PROVE Good(i, handle_heartbeat_timer(node[i]))
    <2> HIDE DEF Good
    <2> QED BY <1>2, <1>4, HeartbeatType, HeartbeatQuiet, Zenon
<1>9. ASSUME NEW i \in Node, NEW c \in Command
      PROVE  Good(i, submit_client_command(node[i], c))
    <2> HIDE DEF Good
    <2> QED BY <1>1, <1>2, <1>4, SubmitType, SubmitQuiet, Zenon
<1> HIDE DEF Good, T
<1> DEFINE Done == \E i \in Node : \E b :
                       /\ Good(i, b)
                       /\ Step(i, b)
                       /\ \/ UNCHANGED channel
                          \/ /\ channel[i] # <<>>
                             /\ channel' = [channel EXCEPT ![i] = Tail(@)]
                       /\ budget' \in [timeouts : Nat, heartbeats : Nat]
<1>10. ASSUME NEW i \in Node, Receive(i) PROVE Done
    BY <1>5, <1>6, <1>10 DEF Receive
<1>11. ASSUME NEW i \in Node, ElectionTimer(i) PROVE Done
    BY <1>5, <1>7, <1>11 DEF ElectionTimer
<1>12. ASSUME NEW i \in Node, HeartbeatTimer(i) PROVE Done
    BY <1>5, <1>8, <1>12 DEF HeartbeatTimer
<1>13. ASSUME NEW i \in Node, NEW c \in Command, ClientCommand(i, c) PROVE Done
    BY <1>5, <1>9, <1>13 DEF ClientCommand
<1> HIDE DEF Done
<1>14. Done \/ \E i, j \in Node : Send(i, j)
    BY <1>10, <1>11, <1>12, <1>13 DEF Next
<1> QED BY <1>14, Zenon DEF Done, Good, T

\* What Send makes of the outbox of the sender and of the queue.
LEMMA SendKeeps ==
    ASSUME TypeOK, NEW i \in Node, NEW j \in Node, Send(i, j)
    PROVE  /\ TypeOK'
           /\ \A p \in Node : KeepsVote(node[p], node'[p])
<1> DEFINE out == [node[i].outbox EXCEPT ![j] = Tail(node[i].outbox[j])]
           b == [node[i] EXCEPT !.outbox = out]
           envelope == [from |-> i, message |-> Head(node[i].outbox[j])]
<1>1. NodeOK(node[i], EntryType) /\ DOMAIN node[i] = NodeFields
      /\ node[i].outbox \in [Node -> Seq(RaftMsg(EntryType))]
      /\ node[i].outbox[j] # <<>> /\ Len(channel[j]) < ChannelSize
      /\ channel[j] \in Seq(Envelope)
    BY DEF TypeOK, NodeOK, Send
<1>2. /\ node' = [node EXCEPT ![i] = b]
      /\ channel' = [channel EXCEPT ![j] = Append(channel[j], envelope)]
      /\ budget' = budget
    BY DEF Send
<1>3. envelope \in Envelope
    BY <1>1 DEF Envelope
<1>4. out \in [Node -> Seq(RaftMsg(EntryType))]
    BY <1>1
<1> HIDE DEF envelope
<1>6. channel'[j] \in Seq(Envelope) /\ Len(channel'[j]) <= ChannelSize
      /\ DOMAIN channel' = Node /\ \A p \in Node \ {j} : channel'[p] = channel[p]
    BY <1>1, <1>2, <1>3, ChannelAssumption DEF TypeOK
<1>7. NodeOK(b, EntryType) /\ b.id = i /\ b.current_term = node[i].current_term
      /\ b.voted_for = node[i].voted_for
    <2>1. node[i].id = i
        BY DEF TypeOK
    <2> HIDE DEF out
    <2> QED BY <1>1, <1>4, <2>1 DEF NodeOK, NodeFields
<1> HIDE DEF b
<1>8. DOMAIN node' = Node /\ \A p \in Node : node'[p] = IF p = i THEN b ELSE node[p]
    BY <1>2 DEF TypeOK
<1>9. TypeOK'
    BY <1>2, <1>6, <1>7, <1>8 DEF TypeOK
<1>10. \A p \in Node : node[p].current_term \in Nat
    BY DEF TypeOK, NodeOK
<1> QED BY <1>7, <1>8, <1>9, <1>10 DEF KeepsVote

\* Every step keeps the types, terms and votes.
LEMMA ChannelNext ==
    ASSUME TypeOK, Next
    PROVE  TypeOK' /\ \A p \in Node : KeepsVote(node[p], node'[p])
<1>1. ASSUME NEW i \in Node, NEW b, NodeOK(b, EntryType), b.id = i,
             KeepsVote(node[i], b), Step(i, b),
             \/ UNCHANGED channel
             \/ channel[i] # <<>> /\ channel' = [channel EXCEPT ![i] = Tail(@)],
             budget' \in [timeouts : Nat, heartbeats : Nat]
      PROVE  TypeOK' /\ \A p \in Node : KeepsVote(node[p], node'[p])
    <2>1. DOMAIN node' = Node /\ \A p \in Node : node'[p] = IF p = i THEN b ELSE node[p]
        BY <1>1 DEF TypeOK, Step
    <2>2. /\ DOMAIN channel' = Node
          /\ \A j \in Node : channel'[j] \in Seq(Envelope) /\ Len(channel'[j]) <= ChannelSize
        <3>1. /\ DOMAIN channel = Node /\ ChannelSize \in Nat
              /\ \A j \in Node : channel[j] \in Seq(Envelope) /\ Len(channel[j]) <= ChannelSize
            BY ChannelAssumption DEF TypeOK
        <3>2. channel[i] # <<>> => /\ Tail(channel[i]) \in Seq(Envelope)
                                   /\ Len(Tail(channel[i])) <= ChannelSize
            BY <3>1
        <3> QED BY <1>1, <3>1, <3>2
    <2>3. TypeOK'
        BY <1>1, <2>1, <2>2 DEF TypeOK
    <2>4. \A p \in Node : node[p].current_term \in Nat
        BY DEF TypeOK, NodeOK
    <2> QED BY <1>1, <2>1, <2>3, <2>4 DEF KeepsVote
<1>2. ASSUME NEW i \in Node, NEW j \in Node, Send(i, j)
      PROVE  TypeOK' /\ \A p \in Node : KeepsVote(node[p], node'[p])
    BY <1>2, SendKeeps, Zenon
<1> QED BY <1>1, <1>2, ChannelStep

\* Type correctness over channels: whatever the interleaving of events and
\* sends, the fields keep the types of the Rust structs and no queue holds
\* more than CHANNEL_SIZE envelopes.
THEOREM ChannelTypes == Spec => []TypeOK
<1>1. Init => TypeOK
    <2> SUFFICES ASSUME Init PROVE TypeOK
        OBVIOUS
    <2>1. \A i \in Node : NodeOK(start_node(i, new_storage), EntryType)
        BY NewNodeType, Zenon DEF start_node
    <2>2. \A i \in Node : start_node(i, new_storage).id = i
        BY DEF start_node, new_from_builder
    <2>3. DOMAIN node = Node /\ \A i \in Node : node[i] = start_node(i, new_storage)
        BY DEF Init
    <2>4. DOMAIN channel = Node /\ \A j \in Node : channel[j] = <<>>
        BY DEF Init
    <2>5. \A j \in Node : channel[j] \in Seq(Envelope) /\ Len(channel[j]) <= ChannelSize
        <3>1. <<>> \in Seq(Envelope) /\ Len(<<>>) <= ChannelSize
            BY ChannelAssumption
        <3> QED BY <2>4, <3>1, Zenon
    <2>6. budget \in [timeouts : Nat, heartbeats : Nat]
        BY ChannelAssumption DEF Init
    <2> QED BY <2>1, <2>2, <2>3, <2>4, <2>5, <2>6 DEF TypeOK
<1>2. TypeOK /\ [Next]_vars => TypeOK'
    BY ChannelNext DEF TypeOK, vars
<1> QED BY <1>1, <1>2, PTL DEF Spec

\* Over channels too no event and no send takes a node back to an earlier term
\* or withdraws or changes a vote it gave in its term.
THEOREM ChannelVotesKept == Spec => VotesAreKept
<1> DEFINE Keeps == \A i \in Node :
               /\ node'[i].current_term >= node[i].current_term
               /\ node'[i].current_term = node[i].current_term =>
                      node[i].voted_for \in {None, node'[i].voted_for}
<1>1. TypeOK /\ [Next]_vars => [Keeps]_node
    BY ChannelNext DEF KeepsVote, vars
<1> QED BY <1>1, ChannelTypes, PTL DEF Spec, VotesAreKept

-----------------------------------------------------------------------------
(* Links as bags                                                           *)

\* How often e is in a bag, and in a sequence.
Copies(B, e) == IF e \in DOMAIN B THEN B[e] ELSE 0
Count(s, e) == Cardinality({k \in DOMAIN s : s[k] = e})

\* Two bags with as many copies of everything are the same.
LEMMA BagEqual ==
    ASSUME NEW B, NEW C, IsABag(B), IsABag(C), \A e : Copies(B, e) = Copies(C, e)
    PROVE  B = C
<1>1. /\ \A e \in DOMAIN B : B[e] \in Nat /\ B[e] > 0
      /\ \A e \in DOMAIN C : C[e] \in Nat /\ C[e] > 0
      /\ B = [e \in DOMAIN B |-> B[e]] /\ C = [e \in DOMAIN C |-> C[e]]
    BY DEF IsABag
<1>2. DOMAIN B = DOMAIN C
    BY <1>1 DEF Copies
<1>3. \A e \in DOMAIN B : B[e] = C[e]
    BY <1>2 DEF Copies
<1> QED BY <1>1, <1>2, <1>3

\* Bag union adds the copies.
LEMMA BagSum ==
    ASSUME NEW B, NEW C, IsABag(B), IsABag(C)
    PROVE  /\ IsABag(B (+) C)
           /\ \A e : Copies(B (+) C, e) = Copies(B, e) + Copies(C, e)
<1> DEFINE D == [e \in (DOMAIN B) \cup (DOMAIN C) |->
                    (IF e \in DOMAIN B THEN B[e] ELSE 0)
                  + (IF e \in DOMAIN C THEN C[e] ELSE 0)]
<1>1. B (+) C = D
    BY DEF (+)
<1>2. /\ \A e \in DOMAIN B : B[e] \in Nat /\ B[e] > 0
      /\ \A e \in DOMAIN C : C[e] \in Nat /\ C[e] > 0
    BY DEF IsABag
<1>3. \A e \in DOMAIN D : D[e] \in Nat /\ D[e] > 0
    BY <1>2
<1>4. IsABag(D)
    BY <1>3 DEF IsABag
<1>5. \A e : Copies(D, e) = Copies(B, e) + Copies(C, e)
    BY <1>2 DEF Copies
<1> HIDE DEF D
<1> QED BY <1>1, <1>4, <1>5

\* Taking one copy of an element out of a bag.
LEMMA BagLess ==
    ASSUME NEW B, IsABag(B), NEW m \in DOMAIN B
    PROVE  /\ IsABag(B (-) SetToBag({m}))
           /\ \A e : Copies(B (-) SetToBag({m}), e)
                         = IF e = m THEN Copies(B, e) - 1 ELSE Copies(B, e)
<1> DEFINE less == [e \in DOMAIN B |-> IF e = m THEN B[e] - 1 ELSE B[e]]
           C == [e \in {d \in DOMAIN less : less[d] > 0} |-> less[e]]
<1>1. B (-) SetToBag({m}) = C
    <2>1. less = [e \in DOMAIN B |-> IF e \in DOMAIN SetToBag({m})
                                     THEN B[e] - SetToBag({m})[e] ELSE B[e]]
        BY DEF SetToBag
    <2> HIDE DEF less
    <2> QED BY <2>1 DEF (-)
<1>2. \A e \in DOMAIN B : B[e] \in Nat /\ B[e] > 0
    BY DEF IsABag
<1>3. \A e \in DOMAIN C : C[e] \in Nat /\ C[e] > 0
    BY <1>2
<1>4. IsABag(C)
    BY <1>3 DEF IsABag
<1>5. \A e : Copies(C, e) = IF e = m THEN Copies(B, e) - 1 ELSE Copies(B, e)
    BY <1>2 DEF Copies
<1> HIDE DEF C
<1> QED BY <1>1, <1>4, <1>5

\* A count is a number, and zero for what does not occur.
LEMMA CountType ==
    ASSUME NEW S, NEW s \in Seq(S), NEW e
    PROVE  /\ IsFiniteSet({k \in DOMAIN s : s[k] = e})
           /\ Count(s, e) \in Nat
           /\ Count(s, e) = 0 <=> \A k \in DOMAIN s : s[k] # e
<1> DEFINE at == {k \in DOMAIN s : s[k] = e}
<1>1. IsFiniteSet(DOMAIN s)
    <2>1. DOMAIN s = 1..Len(s) /\ 1 \in Int /\ Len(s) \in Int
        OBVIOUS
    <2> QED BY <2>1, FS_Interval, Zenon
<1>2. at \in SUBSET DOMAIN s /\ (at = {} <=> \A k \in DOMAIN s : s[k] # e)
    OBVIOUS
<1> HIDE DEF at
<1>3. IsFiniteSet(at)
    BY <1>1, <1>2, FS_Subset, Zenon
<1>4. Cardinality(at) \in Nat /\ (Cardinality(at) = 0 <=> at = {})
    BY <1>3, FS_CardinalityType, FS_EmptySet, Zenon
<1> QED BY <1>2, <1>3, <1>4, Zenon DEF Count, at

\* Append adds one occurrence of what it appends.
LEMMA CountAppend ==
    ASSUME NEW S, NEW s \in Seq(S), NEW x \in S, NEW e
    PROVE  Count(Append(s, x), e) = IF x = e THEN Count(s, e) + 1 ELSE Count(s, e)
<1> DEFINE old == {k \in DOMAIN s : s[k] = e}
           t == Append(s, x)
           new == {k \in DOMAIN t : t[k] = e}
           last == Len(s) + 1
<1>1. new = IF x = e THEN old \cup {last} ELSE old
    OBVIOUS
<1>2. last \notin old
    OBVIOUS
<1>3. IsFiniteSet(old)
    BY CountType, Zenon
<1> HIDE DEF old, new, last
<1>4. Cardinality(old \cup {last}) = Cardinality(old) + 1
    BY <1>2, <1>3, FS_AddElement, Zenon
<1>5. Count(t, e) = Cardinality(new) /\ Count(s, e) = Cardinality(old)
    BY Zenon DEF Count, old, new
<1> QED BY <1>1, <1>4, <1>5

\* Tail removes one occurrence of the head.
LEMMA CountTail ==
    ASSUME NEW S, NEW s \in Seq(S), s # <<>>, NEW e
    PROVE  Count(s, e) = IF Head(s) = e THEN Count(Tail(s), e) + 1 ELSE Count(Tail(s), e)
<1> DEFINE t == Tail(s)
           old == {k \in DOMAIN s : s[k] = e}
           new == {k \in DOMAIN t : t[k] = e}
           moved == {k + 1 : k \in new}
           f == [k \in new |-> k + 1]
<1>1. t \in Seq(S) /\ Len(t) = Len(s) - 1 /\ \A k \in 1..Len(t) : t[k] = s[k + 1]
    OBVIOUS
<1>2. new \subseteq Nat \ {0}
    BY <1>1
<1>3. old = IF Head(s) = e THEN moved \cup {1} ELSE moved
    <2>1. \A k \in DOMAIN s : k = 1 \/ (k - 1 \in DOMAIN t /\ t[k - 1] = s[k])
        BY <1>1
    <2>2. \A k \in DOMAIN t : k + 1 \in DOMAIN s /\ s[k + 1] = t[k] /\ k \in Nat
        BY <1>1
    <2>3. 1 \in DOMAIN s /\ s[1] = Head(s) /\ DOMAIN s \subseteq Nat
        OBVIOUS
    <2> HIDE DEF t
    <2>4. \A k \in old : (k = 1 /\ Head(s) = e) \/ k \in moved
        BY <2>1, <2>3
    <2>5. \A k \in moved : k \in old
        BY <2>2
    <2>6. Head(s) = e <=> 1 \in old
        BY <2>3
    <2>7. 1 \notin moved
        BY <1>2
    <2> HIDE DEF old, moved
    <2> QED BY <2>4, <2>5, <2>6, <2>7
<1>4. IsFiniteSet(new)
    BY <1>1, CountType, Zenon
<1>5. 1 \notin moved
    BY <1>2
<1>6. Cardinality(moved) = Cardinality(new) /\ IsFiniteSet(moved)
    <2>1. f \in Bijection(new, moved)
        <3> HIDE DEF new
        <3> QED BY <1>2 DEF Bijection, Injection, Surjection, IsInjective
    <2>2. ExistsBijection(new, moved)
        <3> HIDE DEF f, new, moved
        <3> QED BY <2>1, Zenon DEF ExistsBijection
    <2> HIDE DEF new, moved
    <2> QED BY <1>4, <2>2, FS_Bijection, Zenon
<1> HIDE DEF old, new, moved
<1>7. Cardinality(moved \cup {1}) = Cardinality(moved) + 1
    BY <1>5, <1>6, FS_AddElement, Zenon
<1>8. Count(t, e) = Cardinality(new) /\ Count(s, e) = Cardinality(old)
    BY Zenon DEF Count, old, new
<1> QED BY <1>3, <1>6, <1>7, <1>8

\* The bag of a sequence counts its elements.
LEMMA ToBagCount ==
    ASSUME NEW S, NEW s \in Seq(S)
    PROVE  IsABag(ToBag(s)) /\ \A e : Copies(ToBag(s), e) = Count(s, e)
<1> DEFINE range == {s[k] : k \in DOMAIN s}
<1>1. ToBag(s) = [x \in range |-> Count(s, x)]
    BY DEF ToBag, Range, Count
<1>2. \A e : /\ Count(s, e) \in Nat
             /\ Count(s, e) = 0 <=> \A k \in DOMAIN s : s[k] # e
    BY CountType, Zenon
<1>3. \A e : e \in range <=> Count(s, e) # 0
    BY <1>2
<1> HIDE DEF range
<1> QED BY <1>1, <1>2, <1>3 DEF IsABag, Copies

\* The bag of the messages of i in a queue counts its envelopes.
LEMMA QueuedCount ==
    ASSUME NEW i \in Node, NEW q \in Seq(Envelope)
    PROVE  /\ IsABag(Queued(i, q))
           /\ \A m : Copies(Queued(i, q), m) = Count(q, [from |-> i, message |-> m])
<1> DEFINE messages == {q[k].message : k \in {l \in DOMAIN q : q[l].from = i}}
           number(m) == Count(q, [from |-> i, message |-> m])
<1>1. Queued(i, q) = [m \in messages |-> number(m)]
    BY DEF Queued, Count
<1>2. \A m : /\ number(m) \in Nat
             /\ number(m) = 0 <=> \A k \in DOMAIN q : q[k] # [from |-> i, message |-> m]
    BY CountType, Zenon
<1>3. \A m : m \in messages <=> number(m) # 0
    <2>1. \A k \in DOMAIN q : q[k] = [from |-> q[k].from, message |-> q[k].message]
        <3>1. \A k \in DOMAIN q : q[k] \in Envelope
            OBVIOUS
        <3> QED BY <3>1 DEF Envelope
    <2>2. ASSUME NEW m \in messages
          PROVE  \E k \in DOMAIN q : q[k] = [from |-> i, message |-> m]
        BY <2>1
    <2>3. ASSUME NEW m, NEW k \in DOMAIN q, q[k] = [from |-> i, message |-> m]
          PROVE  m \in messages
        BY <2>3
    <2> HIDE DEF messages, number
    <2> QED BY <1>2, <2>2, <2>3
<1> HIDE DEF messages, number
<1>4. IsABag(Queued(i, q)) /\ \A m : Copies(Queued(i, q), m) = number(m)
    BY <1>1, <1>2, <1>3 DEF IsABag, Copies
<1> QED BY <1>4 DEF number

\* A link holds what is queued and what waits for room.
LEMMA LinkCount ==
    ASSUME NEW i \in Node, NEW q \in Seq(Envelope),
           NEW s \in Seq(RaftMsg(EntryType))
    PROVE  /\ IsABag(Link(i, q, s))
           /\ \A m : /\ Count(q, [from |-> i, message |-> m]) \in Nat
                     /\ Count(s, m) \in Nat
                     /\ Copies(Link(i, q, s), m)
                            = Count(q, [from |-> i, message |-> m]) + Count(s, m)
<1>1. /\ IsABag(Queued(i, q)) /\ IsABag(ToBag(s))
      /\ \A m : /\ Copies(Queued(i, q), m) = Count(q, [from |-> i, message |-> m])
                /\ Copies(ToBag(s), m) = Count(s, m)
    BY QueuedCount, ToBagCount
<1>2. \A m : /\ Count(q, [from |-> i, message |-> m]) \in Nat
             /\ Count(s, m) \in Nat
    BY CountType, Zenon
<1>3. /\ IsABag(Link(i, q, s))
      /\ \A m : Copies(Link(i, q, s), m) = Copies(Queued(i, q), m) + Copies(ToBag(s), m)
    BY <1>1, BagSum, Zenon DEF Link
<1> QED BY <1>1, <1>2, <1>3

\* Send moves a message from the outbox to the queue: no link changes.
LEMMA LinkSend ==
    ASSUME NEW i \in Node, NEW q \in Seq(Envelope), NEW s \in Seq(RaftMsg(EntryType)),
           s # <<>>
    PROVE  LET queue == Append(q, [from |-> i, message |-> Head(s)])
           IN  /\ Link(i, queue, Tail(s)) = Link(i, q, s)
               /\ \A a \in Node \ {i} : \A t \in Seq(RaftMsg(EntryType)) :
                      Link(a, queue, t) = Link(a, q, t)
<1> DEFINE envelope == [from |-> i, message |-> Head(s)]
           queue == Append(q, envelope)
<1>1. /\ Head(s) \in RaftMsg(EntryType) /\ Tail(s) \in Seq(RaftMsg(EntryType))
      /\ envelope \in Envelope
    BY DEF Envelope
<1>2. queue \in Seq(Envelope)
    <2> HIDE DEF envelope
    <2> QED BY <1>1
<1>3. \A e : Count(queue, e) = IF envelope = e THEN Count(q, e) + 1 ELSE Count(q, e)
    <2> HIDE DEF envelope
    <2> QED BY <1>1, CountAppend, Zenon
<1>4. \A m : Count(s, m) = IF Head(s) = m THEN Count(Tail(s), m) + 1 ELSE Count(Tail(s), m)
    BY CountTail, Zenon
<1>5. \A a, m : envelope = [from |-> a, message |-> m] <=> a = i /\ m = Head(s)
    OBVIOUS
<1> HIDE DEF queue, envelope
<1>6. Link(i, queue, Tail(s)) = Link(i, q, s)
    <2>1. /\ IsABag(Link(i, queue, Tail(s)))
          /\ \A m : /\ Count(queue, [from |-> i, message |-> m]) \in Nat
                    /\ Count(Tail(s), m) \in Nat
                    /\ Copies(Link(i, queue, Tail(s)), m)
                           = Count(queue, [from |-> i, message |-> m]) + Count(Tail(s), m)
        BY <1>1, <1>2, LinkCount, Zenon
    <2>2. /\ IsABag(Link(i, q, s))
          /\ \A m : /\ Count(q, [from |-> i, message |-> m]) \in Nat
                    /\ Copies(Link(i, q, s), m)
                           = Count(q, [from |-> i, message |-> m]) + Count(s, m)
        BY LinkCount, Zenon
    <2>3. \A m : Copies(Link(i, queue, Tail(s)), m) = Copies(Link(i, q, s), m)
        <3> SUFFICES ASSUME NEW m
                     PROVE  Copies(Link(i, queue, Tail(s)), m) = Copies(Link(i, q, s), m)
            OBVIOUS
        <3> DEFINE e == [from |-> i, message |-> m]
        <3>1. Count(queue, e) = IF Head(s) = m THEN Count(q, e) + 1 ELSE Count(q, e)
            <4>1. envelope = e <=> Head(s) = m
                BY <1>5
            <4> HIDE DEF e
            <4> QED BY <1>3, <4>1
        <3>2. /\ Copies(Link(i, queue, Tail(s)), m) = Count(queue, e) + Count(Tail(s), m)
              /\ Copies(Link(i, q, s), m) = Count(q, e) + Count(s, m)
              /\ Count(queue, e) \in Nat /\ Count(Tail(s), m) \in Nat
              /\ Count(q, e) \in Nat
            BY <2>1, <2>2, Zenon
        <3> HIDE DEF e
        <3> QED BY <1>4, <3>1, <3>2
    <2> QED BY <2>1, <2>2, <2>3, BagEqual, Zenon
<1>7. ASSUME NEW a \in Node \ {i}, NEW t \in Seq(RaftMsg(EntryType))
      PROVE  Link(a, queue, t) = Link(a, q, t)
    <2> a \in Node /\ a # i
        OBVIOUS
    <2>1. /\ IsABag(Link(a, queue, t))
          /\ \A m : Copies(Link(a, queue, t), m)
                        = Count(queue, [from |-> a, message |-> m]) + Count(t, m)
        BY <1>2, LinkCount
    <2>2. /\ IsABag(Link(a, q, t))
          /\ \A m : Copies(Link(a, q, t), m)
                        = Count(q, [from |-> a, message |-> m]) + Count(t, m)
        BY LinkCount
    <2>3. \A m : Count(queue, [from |-> a, message |-> m])
                     = Count(q, [from |-> a, message |-> m])
        BY <1>3, <1>5, Zenon
    <2>4. \A m : Copies(Link(a, queue, t), m) = Copies(Link(a, q, t), m)
        BY <2>1, <2>2, <2>3, Zenon
    <2> QED BY <2>1, <2>2, <2>4, BagEqual, Zenon
<1> QED BY <1>6, <1>7, Zenon DEF queue, envelope

\* Receive takes one copy of the message at the head off the sender's link.
LEMMA LinkReceive ==
    ASSUME NEW q \in Seq(Envelope), q # <<>>, NEW s \in Seq(RaftMsg(EntryType))
    PROVE  LET i == Head(q).from
               m == Head(q).message
           IN  /\ m \in DOMAIN Link(i, q, s)
               /\ Link(i, Tail(q), s) = Link(i, q, s) (-) SetToBag({m})
               /\ \A a \in Node \ {i} : Link(a, Tail(q), s) = Link(a, q, s)
<1> DEFINE i == Head(q).from
           m == Head(q).message
           B == Link(i, q, s)
           C == Link(i, Tail(q), s)
<1>1. Head(q) = [from |-> i, message |-> m] /\ i \in Node /\ Tail(q) \in Seq(Envelope)
    <2>1. Head(q) \in Envelope /\ Tail(q) \in Seq(Envelope)
        OBVIOUS
    <2> QED BY <2>1 DEF Envelope
<1>2. \A e : Count(q, e) = IF Head(q) = e THEN Count(Tail(q), e) + 1 ELSE Count(Tail(q), e)
    BY CountTail, Zenon
<1> HIDE DEF i, m
<1>3. \A a, n : Head(q) = [from |-> a, message |-> n] <=> a = i /\ n = m
    BY <1>1
<1>4. /\ IsABag(B) /\ IsABag(C)
      /\ \A n : /\ Count(Tail(q), [from |-> i, message |-> n]) \in Nat
                /\ Count(s, n) \in Nat
                /\ Copies(B, n) = Count(q, [from |-> i, message |-> n]) + Count(s, n)
                /\ Copies(C, n) = Count(Tail(q), [from |-> i, message |-> n]) + Count(s, n)
    BY <1>1, LinkCount, Zenon
<1> HIDE DEF B, C
<1>5. \A n : /\ Copies(C, n) = IF n = m THEN Copies(B, n) - 1 ELSE Copies(B, n)
             /\ Copies(C, n) \in Nat /\ Copies(B, n) \in Nat
    <2> SUFFICES ASSUME NEW n
                 PROVE  /\ Copies(C, n) = IF n = m THEN Copies(B, n) - 1 ELSE Copies(B, n)
                        /\ Copies(C, n) \in Nat /\ Copies(B, n) \in Nat
        OBVIOUS
    <2> DEFINE e == [from |-> i, message |-> n]
    <2>1. Count(q, e) = IF n = m THEN Count(Tail(q), e) + 1 ELSE Count(Tail(q), e)
        BY <1>2, <1>3, Zenon
    <2>2. /\ Copies(B, n) = Count(q, e) + Count(s, n)
          /\ Copies(C, n) = Count(Tail(q), e) + Count(s, n)
          /\ Count(Tail(q), e) \in Nat /\ Count(s, n) \in Nat
        BY <1>4, Zenon
    <2> HIDE DEF e
    <2> QED BY <2>1, <2>2
<1>6. m \in DOMAIN B
    <2>1. Copies(B, m) # 0
        BY <1>5
    <2> QED BY <2>1 DEF Copies
<1>7. C = B (-) SetToBag({m})
    <2>1. /\ IsABag(B (-) SetToBag({m}))
          /\ \A e : Copies(B (-) SetToBag({m}), e)
                        = IF e = m THEN Copies(B, e) - 1 ELSE Copies(B, e)
        BY <1>4, <1>6, BagLess, Zenon
    <2>2. \A e : Copies(C, e) = Copies(B (-) SetToBag({m}), e)
        BY <1>5, <2>1, Zenon
    <2> QED BY <1>4, <2>1, <2>2, BagEqual, Zenon
<1>8. ASSUME NEW a \in Node \ {i} PROVE Link(a, Tail(q), s) = Link(a, q, s)
    <2> a \in Node /\ a # i
        OBVIOUS
    <2>1. /\ IsABag(Link(a, Tail(q), s))
          /\ \A n : Copies(Link(a, Tail(q), s), n)
                        = Count(Tail(q), [from |-> a, message |-> n]) + Count(s, n)
        BY <1>1, LinkCount
    <2>2. /\ IsABag(Link(a, q, s))
          /\ \A n : Copies(Link(a, q, s), n)
                        = Count(q, [from |-> a, message |-> n]) + Count(s, n)
        BY LinkCount
    <2>3. \A n : Count(q, [from |-> a, message |-> n])
                     = Count(Tail(q), [from |-> a, message |-> n])
        BY <1>2, <1>3, Zenon
    <2>4. \A n : Copies(Link(a, Tail(q), s), n) = Copies(Link(a, q, s), n)
        BY <2>1, <2>2, <2>3, Zenon
    <2> QED BY <2>1, <2>2, <2>4, BagEqual, Zenon
<1> QED BY <1>6, <1>7, <1>8, Zenon DEF i, m, B, C

\* A node that has sent everything puts its new messages on its links.
LEMMA LinkFill ==
    ASSUME NEW i \in Node, NEW q \in Seq(Envelope), NEW s \in Seq(RaftMsg(EntryType))
    PROVE  Link(i, q, <<>>) (+) ToBag(s) = Link(i, q, s)
<1> DEFINE none == <<>>
           A == Link(i, q, none)
           B == ToBag(s)
           number(m) == Count(q, [from |-> i, message |-> m])
<1>1. none \in Seq(RaftMsg(EntryType)) /\ \A m : \A k \in DOMAIN none : none[k] # m
    OBVIOUS
<1> HIDE DEF none
<1>2. \A m : Count(none, m) = 0
    BY <1>1, CountType, Zenon
<1>3. /\ IsABag(A) /\ IsABag(Link(i, q, s))
      /\ \A m : /\ number(m) \in Nat
                /\ Copies(A, m) = number(m) + Count(none, m)
                /\ Copies(Link(i, q, s), m) = number(m) + Count(s, m)
    BY <1>1, LinkCount, Zenon
<1>4. IsABag(B) /\ \A m : Copies(B, m) = Count(s, m)
    BY ToBagCount, Zenon
<1> HIDE DEF A, B, number
<1>5. IsABag(A (+) B) /\ \A m : Copies(A (+) B, m) = Copies(A, m) + Copies(B, m)
    BY <1>3, <1>4, BagSum, Zenon
<1>6. \A m : Copies(A (+) B, m) = Copies(Link(i, q, s), m)
    BY <1>2, <1>3, <1>4, <1>5
<1>7. A (+) B = Link(i, q, s)
    BY <1>3, <1>5, <1>6, BagEqual, Zenon
<1> QED BY <1>7 DEF A, B, none

-----------------------------------------------------------------------------
(* Nodes are records                                                       *)

\* A node is determined by its fields, so that one whose outbox is empty is
\* the same when its outbox is emptied.
IsRecord(n) == n = [f \in DOMAIN n |-> n[f]]

\* The operators that end in an update of the node return a record.
LEMMA UpdatesAreRecords ==
    /\ \A n, k : IsRecord(append_entries(n, k)) /\ IsRecord(truncate_after(n, k))
    /\ \A n : /\ IsRecord(reset_election_timer(n)) /\ IsRecord(reset_heartbeat_timer(n))
              /\ IsRecord(stop_timers(n)) /\ IsRecord(grant(n)) /\ IsRecord(revoke(n))
    /\ \A n, p, m : IsRecord(send(n, p, m))
    /\ \A n, m : IsRecord(send_to_peers(n, m))
    /\ \A n, c : IsRecord(apply_changes(n, c))
    /\ \A n, m : IsRecord(install(n, m))
<1>1. /\ \A n, k : IsRecord(append_entries(n, k)) /\ IsRecord(truncate_after(n, k))
      /\ \A n : /\ IsRecord(reset_election_timer(n)) /\ IsRecord(reset_heartbeat_timer(n))
                /\ IsRecord(stop_timers(n)) /\ IsRecord(grant(n)) /\ IsRecord(revoke(n))
    BY DEF IsRecord, append_entries, truncate_after, reset_election_timer,
           reset_heartbeat_timer, stop_timers, grant, revoke
<1>2. /\ \A n, p, m : IsRecord(send(n, p, m))
      /\ \A n, m : IsRecord(send_to_peers(n, m))
    BY DEF IsRecord, send, send_to_peers
<1>3. \A n, c : IsRecord(apply_changes(n, c))
    <2> SUFFICES ASSUME NEW n, NEW c PROVE IsRecord(apply_changes(n, c))
        OBVIOUS
    <2>1. \E u, v, w, x, y, z :
              apply_changes(n, c) =
                  [n EXCEPT !.members = u, !.next_index = v, !.match_index = w,
                            !.catching_up_servers = x, !.role = y, !.pending_change = z]
        BY Zenon DEF apply_changes
    <2> QED BY <2>1 DEF IsRecord
<1>4. \A n, m : IsRecord(install(n, m))
    <2> SUFFICES ASSUME NEW n, NEW m PROVE IsRecord(install(n, m))
        OBVIOUS
    <2>1. \E a, u, v, w :
              install(n, m) =
                  [a EXCEPT !.state_machine = u, !.commit_index = v, !.last_applied = w]
        BY Zenon DEF install
    <2> QED BY <2>1 DEF IsRecord
<1> QED BY <1>1, <1>2, <1>3, <1>4

\* An operator that may also leave the node alone returns a record if it was
\* given one.
LEMMA RecordsStay ==
    ASSUME NEW n, IsRecord(n)
    PROVE  /\ \A c : IsRecord(submit_client_command(n, c))
           /\ IsRecord(handle_election_timer(n))
           /\ IsRecord(handle_heartbeat_timer(n))
           /\ \A from : \A m \in RaftMsg(EntryType) : IsRecord(handle_message(n, from, m))
<1>1. /\ \A a : IsRecord(send_append_entries_to_followers(a))
      /\ \A a : IsRecord(become_leader(a))
      /\ \A a, m : IsRecord(broadcast(a, m))
      /\ \A a, t : IsRecord(step_down(a, t))
    BY UpdatesAreRecords
       DEF send_append_entries_to_followers, become_leader, broadcast, step_down
<1>2. /\ \A a : IsRecord(start_pre_vote(a))
      /\ \A a : IsRecord(start_election(a))
      /\ \A a, c : IsRecord(submit_entry(a, c))
      /\ \A a : IsRecord(send_heartbeats(a))
    BY <1>1, UpdatesAreRecords
       DEF start_pre_vote, start_election, submit_entry, send_heartbeats
<1>3. /\ \A c : IsRecord(submit_client_command(n, c))
      /\ IsRecord(handle_election_timer(n))
      /\ IsRecord(handle_heartbeat_timer(n))
    BY <1>2 DEF submit_client_command, handle_election_timer, handle_heartbeat_timer
<1>4. \A a, from, m :
          /\ IsRecord(handle_pre_vote_request(a, from, m))
          /\ IsRecord(handle_vote_request(a, from, m))
    BY UpdatesAreRecords DEF handle_pre_vote_request, handle_vote_request
<1>5. \A from, m : IsRecord(handle_pre_vote_response(n, from, m))
    BY <1>2 DEF handle_pre_vote_response, IsRecord
<1>6. \A from, m : IsRecord(handle_vote_response(n, from, m))
    BY <1>1 DEF handle_vote_response, IsRecord
<1>7. \A a, from, m : /\ IsRecord(replication_handle_append_entries(a, from, m))
                      /\ IsRecord(replication_handle_install_snapshot(a, from, m))
    <2> SUFFICES ASSUME NEW a, NEW from, NEW m
                 PROVE  /\ IsRecord(replication_handle_append_entries(a, from, m))
                        /\ IsRecord(replication_handle_install_snapshot(a, from, m))
        OBVIOUS
    <2>1. \E b, x : replication_handle_append_entries(a, from, m) = send(b, from, x)
        BY Zenon DEF replication_handle_append_entries
    <2>2. \E b, x : replication_handle_install_snapshot(a, from, m) = send(b, from, x)
        BY Zenon DEF replication_handle_install_snapshot
    <2> QED BY <2>1, <2>2, UpdatesAreRecords
<1>8. \A from, m : /\ IsRecord(handle_append_entries(n, from, m))
                   /\ IsRecord(handle_install_snapshot(n, from, m))
    BY <1>1, <1>7 DEF handle_append_entries, handle_install_snapshot
<1>9. \A a : IsRecord(a) =>
          /\ IsRecord(apply_committed_entries(a))
          /\ \A p : IsRecord(check_and_promote_caught_up_server(a, p))
          /\ \A k : IsRecord(discard_entries_before(a, k))
    <2>1. \A a : IsRecord(a) => IsRecord(apply_committed_entries(a))
        BY UpdatesAreRecords DEF apply_committed_entries
    <2>2. \A a, l, k, c : /\ IsRecord([a EXCEPT !.log = l, !.first_log_index = k])
                          /\ IsRecord([a EXCEPT !.catching_up_servers = c])
        BY DEF IsRecord
    <2>3. \A a : IsRecord(a) =>
              /\ \A p : IsRecord(check_and_promote_caught_up_server(a, p))
              /\ \A k : IsRecord(discard_entries_before(a, k))
        BY <2>2, Zenon DEF check_and_promote_caught_up_server, discard_entries_before
    <2> QED BY <2>1, <2>3
<1>10. \A a : IsRecord(a) => IsRecord(advance_commit_index(a)) /\ IsRecord(create_snapshot(a))
    <2>1. \A a, k, s : /\ IsRecord([a EXCEPT !.commit_index = k])
                       /\ IsRecord([a EXCEPT !.snapshot = s])
        BY DEF IsRecord
    <2> QED BY <1>9, <2>1 DEF advance_commit_index, create_snapshot
<1>11. \A from, m : /\ IsRecord(replication_handle_append_entries_response(n, from, m))
                    /\ IsRecord(handle_install_snapshot_response(n, from, m))
    <2>1. \A k, l : /\ IsRecord([n EXCEPT !.match_index = k, !.next_index = l])
                    /\ IsRecord([n EXCEPT !.next_index = k, !.match_index = l])
                    /\ IsRecord([n EXCEPT !.next_index = k])
        BY DEF IsRecord
    <2>2. \A from, m : IsRecord(replication_handle_append_entries_response(n, from, m))
        BY <1>9, <1>10, <2>1 DEF replication_handle_append_entries_response
    <2>3. \A from, m : IsRecord(handle_install_snapshot_response(n, from, m))
        BY <1>1, <1>9, <2>1 DEF handle_install_snapshot_response
    <2> QED BY <2>2, <2>3
<1>12. \A from, m : IsRecord(handle_append_entries_response(n, from, m))
    BY <1>1, <1>10, <1>11, UpdatesAreRecords DEF handle_append_entries_response
<1>13. \A from : \A m \in RaftMsg(EntryType) : IsRecord(handle_message(n, from, m))
    <2> SUFFICES ASSUME NEW from, NEW m \in RaftMsg(EntryType)
                 PROVE  IsRecord(handle_message(n, from, m))
        OBVIOUS
    <2>1. m.type \in {"PreVoteRequest", "RequestVote", "PreVoteResponse",
                      "RequestVoteResponse", "AppendEntries", "AppendEntriesResponse",
                      "InstallSnapshot", "InstallSnapshotResponse"}
        BY DEF RaftMsg
    <2> QED BY <1>4, <1>5, <1>6, <1>8, <1>11, <1>12, <2>1 DEF handle_message
<1> QED BY <1>3, <1>13

-----------------------------------------------------------------------------
(* The channels implement the network                                      *)

\* The links once node i has sent its outbox.
Drained(links, i, outbox) ==
    [a \in Node |-> [b \in Node |->
        IF a = i THEN links[a][b] (+) ToBag(outbox[b]) ELSE links[a][b]]]

\* What Network does to its links.
LEMMA SameLinks ==
    /\ Network!no_messages = no_messages
    /\ \A links, i, outbox :
           Network!drain_and_send(links, i, outbox, {}) = Drained(links, i, outbox)
    /\ \A i, j, m :
           Network!Taken(i, j, m) =
               [a \in Node |-> [b \in Node |->
                   IF a = i /\ b = j THEN UnderWay[a][b] (-) SetToBag({m})
                   ELSE UnderWay[a][b]]]
<1>1. \A s : Network!ToBag(s) = ToBag(s)
    BY SameCollections DEF ToBag, Network!ToBag, Range, Network!Range
<1>2. ASSUME NEW links, NEW i, NEW outbox
      PROVE  Network!drain_and_send(links, i, outbox, {}) = Drained(links, i, outbox)
    BY <1>1 DEF Drained, Network!drain_and_send, (+), Network!(+)
<1>3. ASSUME NEW i, NEW j, NEW m
      PROVE  Network!Taken(i, j, m) =
                 [a \in Node |-> [b \in Node |->
                     IF a = i /\ b = j THEN UnderWay[a][b] (-) SetToBag({m})
                     ELSE UnderWay[a][b]]]
    BY Zenon DEF Network!Taken, (-), Network!(-), SetToBag, Network!SetToBag
<1>4. Network!no_messages = no_messages
    BY DEF no_messages, Network!no_messages
<1> QED BY <1>2, <1>3, <1>4, Zenon

\* An event leaves its messages in the outbox, which is as good as sent.
LEMMA StepImplements ==
    ASSUME TypeOK, TypeOK', NEW i \in Node, NEW b, NodeOK(b, EntryType), Step(i, b)
    PROVE  Network!Step(i, b, [x \in Node |-> [y \in Node |->
                                   Link(x, channel'[y], node[x].outbox[y])]])
<1> DEFINE links == [x \in Node |-> [y \in Node |-> Link(x, channel'[y], node[x].outbox[y])]]
<1>1. /\ node[i].outbox = no_messages
      /\ b.current_term <= MaxTerm
      /\ node' = [node EXCEPT ![i] = b]
      /\ DOMAIN node = Node
    BY DEF Step, TypeOK
<1>2. \A x \in Node : node'[x] = IF x = i THEN b ELSE node[x]
    BY <1>1
<1>3. Settled' = [Settled EXCEPT ![i] = [b EXCEPT !.outbox = no_messages]]
    BY <1>2 DEF Settled
<1>4. /\ \A y \in Node : channel'[y] \in Seq(Envelope)
      /\ b.outbox \in [Node -> Seq(RaftMsg(EntryType))]
    BY DEF TypeOK, NodeOK
<1>5. \A y \in Node : node[i].outbox[y] = <<>>
    BY <1>1 DEF no_messages
<1>6. \A y \in Node : links[i][y] (+) ToBag(b.outbox[y]) = Link(i, channel'[y], b.outbox[y])
    <2> SUFFICES ASSUME NEW y \in Node
                 PROVE  links[i][y] (+) ToBag(b.outbox[y]) = Link(i, channel'[y], b.outbox[y])
        OBVIOUS
    <2>1. links[i][y] = Link(i, channel'[y], <<>>)
        BY <1>5
    <2>2. channel'[y] \in Seq(Envelope) /\ b.outbox[y] \in Seq(RaftMsg(EntryType))
        BY <1>4
    <2>3. Link(i, channel'[y], <<>>) (+) ToBag(b.outbox[y]) = Link(i, channel'[y], b.outbox[y])
        BY <2>2, LinkFill, Zenon
    <2> QED BY <2>1, <2>3
<1>7. UnderWay' = [x \in Node |-> [y \in Node |->
                      Link(x, channel'[y], node'[x].outbox[y])]]
    BY DEF UnderWay
<1> DEFINE drained == Drained(links, i, b.outbox)
<1>8. UnderWay' = drained
    <2>1. \A x, y \in Node : UnderWay'[x][y] = drained[x][y]
        BY <1>2, <1>6, <1>7 DEF Drained
    <2>2. drained = [x \in Node |-> [y \in Node |-> drained[x][y]]]
        BY DEF Drained
    <2>3. UnderWay' = [x \in Node |-> [y \in Node |-> UnderWay'[x][y]]]
        BY <1>7
    <2> HIDE DEF drained
    <2> QED BY <2>1, <2>2, <2>3
<1>9. UnderWay' = Network!drain_and_send(links, i, b.outbox, {})
    <2> HIDE DEF links
    <2>1. Network!drain_and_send(links, i, b.outbox, {}) = drained
        BY SameLinks, Zenon
    <2> HIDE DEF drained
    <2> QED BY <1>8, <2>1
<1>10. Network!WithinBound(UnderWay')
    BY Zenon DEF Network!WithinBound
<1>11. {} \in SUBSET {y \in Node : b.outbox[y] # <<>>}
    OBVIOUS
<1>12. Settled' = [Settled EXCEPT ![i] = [b EXCEPT !.outbox = Network!no_messages]]
    BY <1>3, SameLinks, Zenon
<1> HIDE DEF links
<1>13. Network!Step(i, b, links)
    BY <1>1, <1>9, <1>10, <1>11, <1>12, Zenon DEF Network!Step
<1> QED BY <1>13 DEF links

\* Sending is not seen: the message stays on the same link.
LEMMA SendImplements ==
    ASSUME TypeOK, NEW i \in Node, NEW j \in Node, Send(i, j)
    PROVE  UNCHANGED Network!vars
<1> DEFINE s == node[i].outbox[j]
           out == [node[i].outbox EXCEPT ![j] = Tail(s)]
           b == [node[i] EXCEPT !.outbox = out]
           queue == Append(channel[j], [from |-> i, message |-> Head(s)])
<1>1. /\ NodeOK(node[i], EntryType) /\ DOMAIN node[i] = NodeFields
      /\ \A x \in Node : node[x].outbox \in [Node -> Seq(RaftMsg(EntryType))]
      /\ s # <<>> /\ s \in Seq(RaftMsg(EntryType))
      /\ \A y \in Node : channel[y] \in Seq(Envelope)
    BY DEF TypeOK, NodeOK, Send
<1>2. /\ node' = [node EXCEPT ![i] = b]
      /\ channel' = [channel EXCEPT ![j] = queue]
      /\ budget' = budget
    BY DEF Send
<1> HIDE DEF s
<1>3. /\ b.outbox = out
      /\ [b EXCEPT !.outbox = no_messages] = [node[i] EXCEPT !.outbox = no_messages]
    <2> HIDE DEF out
    <2> QED BY <1>1 DEF NodeFields
<1> HIDE DEF queue, b
<1>4. \A x \in Node : node'[x] = IF x = i THEN b ELSE node[x]
    BY <1>2 DEF TypeOK
<1>5. \A y \in Node : channel'[y] = IF y = j THEN queue ELSE channel[y]
    BY <1>2 DEF TypeOK
<1>6. Settled' = Settled
    BY <1>3, <1>4 DEF Settled
<1>7. /\ Link(i, queue, Tail(s)) = Link(i, channel[j], s)
      /\ \A a \in Node \ {i} : \A t \in Seq(RaftMsg(EntryType)) :
             Link(a, queue, t) = Link(a, channel[j], t)
    BY <1>1, LinkSend, Zenon DEF queue
<1>8. out[j] = Tail(s) /\ \A y \in Node \ {j} : out[y] = node[i].outbox[y]
    BY <1>1
<1> HIDE DEF out
<1>9. ASSUME NEW x \in Node, NEW y \in Node
      PROVE  Link(x, channel'[y], node'[x].outbox[y]) = Link(x, channel[y], node[x].outbox[y])
    <2>1. CASE x = i /\ y = j
        BY <1>3, <1>4, <1>5, <1>7, <1>8, <2>1 DEF s
    <2>2. CASE x = i /\ y # j
        BY <1>3, <1>4, <1>5, <1>8, <2>2
    <2>3. CASE x # i /\ y = j
        <3>1. node[x].outbox[j] \in Seq(RaftMsg(EntryType))
            BY <1>1
        <3> QED BY <1>4, <1>5, <1>7, <2>3, <3>1
    <2>4. CASE x # i /\ y # j
        BY <1>4, <1>5, <2>4
    <2> QED BY <2>1, <2>2, <2>3, <2>4
<1>10. UnderWay' = UnderWay
    BY <1>9 DEF UnderWay
<1> QED BY <1>2, <1>6, <1>10 DEF Network!vars

\* Every step over channels is a step of the network, or is not seen there.
LEMMA NextImplements ==
    ASSUME TypeOK, TypeOK', \A i \in Node : IsRecord(node[i]), Next
    PROVE  Network!Next \/ UNCHANGED Network!vars
<1> DEFINE Links == [x \in Node |-> [y \in Node |-> Link(x, channel'[y], node[x].outbox[y])]]
<1>1. EntryType \in EntryTypes
    BY DEF EntryTypes, EntryType
<1>2. ASSUME NEW i \in Node PROVE NodeOK(node[i], EntryType)
    BY DEF TypeOK
<1>3. ASSUME NEW i \in Node, node[i].outbox = no_messages PROVE Settled[i] = node[i]
    <2>1. [node[i] EXCEPT !.outbox = no_messages] = node[i]
        BY <1>2, <1>3 DEF NodeOK, NodeFields, IsRecord
    <2> QED BY <2>1 DEF Settled
<1>4. UNCHANGED channel => Links = UnderWay
    BY DEF UnderWay
<1>5. /\ Spend("timeouts") => Network!Spend("timeouts")
      /\ Spend("heartbeats") => Network!Spend("heartbeats")
    <2> DEFINE shown(r) == [timeouts |-> r.timeouts, heartbeats |-> r.heartbeats,
                            restarts |-> 0, duplicates |-> 0]
    <2>1. budget \in [timeouts : Nat, heartbeats : Nat]
        BY DEF TypeOK
    <2>2. Spend("timeouts") => shown(budget)' = [shown(budget) EXCEPT !["timeouts"] = @ - 1]
        BY <2>1 DEF Spend
    <2>3. Spend("heartbeats") =>
              shown(budget)' = [shown(budget) EXCEPT !["heartbeats"] = @ - 1]
        BY <2>1 DEF Spend
    <2>4. shown(budget)["timeouts"] = budget["timeouts"]
          /\ shown(budget)["heartbeats"] = budget["heartbeats"]
        OBVIOUS
    <2> QED BY <2>2, <2>3, <2>4 DEF Spend, Network!Spend
<1>6. ASSUME NEW i \in Node, ElectionTimer(i) PROVE Network!ElectionTimer(i)
    <2> DEFINE b == handle_election_timer(node[i])
    <2>1. NodeOK(b, EntryType)
        BY <1>2, ElectionTimerType, Zenon
    <2>2. Step(i, b) /\ UNCHANGED channel /\ Spend("timeouts")
          /\ node[i].election_deadline = 0 /\ node[i].role # Leader
        BY <1>6 DEF ElectionTimer
    <2>3. Settled[i] = node[i]
        BY <1>3, <2>2 DEF Step
    <2>4. Network!handle_election_timer(node[i]) = b
        BY SameElections, Zenon
    <2> HIDE DEF b, Links
    <2>5. Network!Step(i, b, UnderWay)
        BY <1>4, <2>1, <2>2, StepImplements, Zenon DEF Links
    <2> QED BY <1>5, <2>2, <2>3, <2>4, <2>5, Zenon
            DEF Network!ElectionTimer, Leader, Network!Leader
<1>7. ASSUME NEW i \in Node, HeartbeatTimer(i) PROVE Network!HeartbeatTimer(i)
    <2> DEFINE b == handle_heartbeat_timer(node[i])
    <2>1. NodeOK(b, EntryType)
        BY <1>2, HeartbeatType, Zenon
    <2>2. Step(i, b) /\ UNCHANGED channel /\ Spend("heartbeats")
          /\ node[i].heartbeat_deadline = 0 /\ node[i].role = Leader
        BY <1>7 DEF HeartbeatTimer
    <2>3. Settled[i] = node[i]
        BY <1>3, <2>2 DEF Step
    <2>4. Network!handle_heartbeat_timer(node[i]) = b
        BY SameReplication, Zenon
    <2> HIDE DEF b, Links
    <2>5. Network!Step(i, b, UnderWay)
        BY <1>4, <2>1, <2>2, StepImplements, Zenon DEF Links
    <2> QED BY <1>5, <2>2, <2>3, <2>4, <2>5, Zenon
            DEF Network!HeartbeatTimer, Leader, Network!Leader
<1>8. ASSUME NEW i \in Node, NEW c \in Command, ClientCommand(i, c)
      PROVE  Network!ClientCommand(i, c)
    <2> DEFINE b == submit_client_command(node[i], c)
    <2>1. NodeOK(b, EntryType)
        BY <1>1, <1>2, SubmitType, Zenon
    <2>2. Step(i, b) /\ UNCHANGED channel /\ budget' = budget
          /\ node[i].role = Leader /\ last_log_index(node[i]) < MaxLog
        BY <1>8 DEF ClientCommand
    <2>3. Settled[i] = node[i]
        BY <1>3, <2>2 DEF Step
    <2>4. Network!submit_client_command(node[i], c) = b
          /\ Network!last_log_index(node[i]) = last_log_index(node[i])
        BY SameHandlers, SameContext, Zenon
    <2> HIDE DEF b, Links
    <2>5. Network!Step(i, b, UnderWay)
        BY <1>4, <2>1, <2>2, StepImplements, Zenon DEF Links
    <2> QED BY <2>2, <2>3, <2>4, <2>5
            DEF Network!ClientCommand, Leader, Network!Leader
<1>9. ASSUME NEW j \in Node, Receive(j)
      PROVE  \E i \in Node : \E m \in Network!BagToSet(UnderWay[i][j]) :
                 Network!Deliver(i, j, m)
    <2> DEFINE q == channel[j]
               i == Head(q).from
               m == Head(q).message
               b == handle_message(node[j], i, m)
    <2>1. /\ q # <<>> /\ Step(j, b) /\ channel' = [channel EXCEPT ![j] = Tail(q)]
          /\ budget' = budget /\ q \in Seq(Envelope)
        BY <1>9 DEF Receive, TypeOK
    <2>2. i \in Node /\ m \in RaftMsg(EntryType)
        <3>1. Head(q) \in Envelope
            BY <2>1
        <3> QED BY <3>1 DEF Envelope
    <2>3. \A x \in Node :
              /\ m \in DOMAIN Link(i, q, node[x].outbox[j])
              /\ Link(i, Tail(q), node[x].outbox[j]) =
                     Link(i, q, node[x].outbox[j]) (-) SetToBag({m})
              /\ \A a \in Node \ {i} :
                     Link(a, Tail(q), node[x].outbox[j]) = Link(a, q, node[x].outbox[j])
        <3> SUFFICES ASSUME NEW x \in Node
                     PROVE  LET s == node[x].outbox[j]
                            IN  /\ m \in DOMAIN Link(i, q, s)
                                /\ Link(i, Tail(q), s) = Link(i, q, s) (-) SetToBag({m})
                                /\ \A a \in Node \ {i} : Link(a, Tail(q), s) = Link(a, q, s)
            BY Zenon
        <3>1. node[x].outbox[j] \in Seq(RaftMsg(EntryType))
            BY <1>2 DEF NodeOK
        <3> HIDE DEF q
        <3> QED BY <2>1, <3>1, LinkReceive, Zenon
    <2> HIDE DEF i, m, q
    <2>4. NodeOK(b, EntryType)
        BY <1>1, <1>2, <2>2, HandleMessageType, Zenon
    <2>5. Settled[j] = node[j]
        BY <1>3, <2>1 DEF Step
    <2>6. Network!handle_message(node[j], i, m) = b
        BY SameHandlers, Zenon
    <2> HIDE DEF b
    <2>7. Network!Taken(i, j, m) = Links
        <3>1. Network!Taken(i, j, m) =
                  [x \in Node |-> [y \in Node |->
                      IF x = i /\ y = j THEN UnderWay[x][y] (-) SetToBag({m})
                      ELSE UnderWay[x][y]]]
            BY SameLinks, Zenon
        <3>2. \A y \in Node : channel'[y] = IF y = j THEN Tail(q) ELSE channel[y]
            BY <2>1 DEF TypeOK
        <3>3. \A x, y \in Node : UnderWay[x][y] = Link(x, channel[y], node[x].outbox[y])
            BY DEF UnderWay
        <3>4. ASSUME NEW x \in Node, NEW y \in Node
              PROVE  (IF x = i /\ y = j THEN UnderWay[x][y] (-) SetToBag({m})
                      ELSE UnderWay[x][y]) = Link(x, channel'[y], node[x].outbox[y])
            <4>1. CASE x = i /\ y = j
                BY <2>3, <3>2, <3>3, <4>1 DEF q
            <4>2. CASE x # i /\ y = j
                BY <2>3, <3>2, <3>3, <4>2 DEF q
            <4>3. CASE y # j
                BY <3>2, <3>3, <4>3
            <4> QED BY <4>1, <4>2, <4>3
        <3> QED BY <3>1, <3>4
    <2>8. m \in Network!BagToSet(UnderWay[i][j])
        BY <2>2, <2>3 DEF UnderWay, Network!BagToSet, q
    <2> HIDE DEF Links
    <2>9. Network!Step(j, b, Links)
        BY <2>1, <2>4, StepImplements, Zenon DEF Links
    <2>10. Network!Deliver(i, j, m)
        BY <2>1, <2>5, <2>6, <2>7, <2>9 DEF Network!Deliver
    <2> QED BY <2>2, <2>8, <2>10
<1> HIDE DEF Links
<1>10. CASE \E i, j \in Node : Send(i, j)
    BY <1>10, SendImplements, Zenon
<1>11. CASE \E j \in Node : Receive(j)
    BY <1>9, <1>11, Zenon DEF Network!Next
<1>12. CASE \E i \in Node : ElectionTimer(i)
    BY <1>6, <1>12, Zenon DEF Network!Next
<1>13. CASE \E i \in Node : HeartbeatTimer(i)
    BY <1>7, <1>13, Zenon DEF Network!Next
<1>14. CASE \E i \in Node : \E c \in Command : ClientCommand(i, c)
    BY <1>8, <1>14, Zenon DEF Network!Next
<1> QED BY <1>10, <1>11, <1>12, <1>13, <1>14, Zenon DEF Next

\* The initial state of the channels is the initial state of the network.
LEMMA InitImplements == Init => Network!Init
<1> SUFFICES ASSUME Init PROVE Network!Init
    OBVIOUS
<1>1. /\ node = [i \in Node |-> start_node(i, new_storage)]
      /\ channel = [j \in Node |-> <<>>]
      /\ budget = [timeouts |-> MaxTimeouts, heartbeats |-> MaxHeartbeats]
    BY DEF Init
<1>2. \A i \in Node : /\ node[i].outbox = no_messages
                      /\ [node[i] EXCEPT !.outbox = no_messages] = node[i]
    BY <1>1 DEF start_node, new_from_builder
<1>3. Settled = node
    BY <1>1, <1>2 DEF Settled
<1>4. Network!new_storage = new_storage
    BY DEF new_storage, Network!new_storage
<1>5. Settled = [i \in Node |-> Network!start_node(i, Network!new_storage)]
    BY <1>1, <1>3, <1>4, SameHandlers
<1>6. \A i \in Node : Link(i, <<>>, <<>>) = EmptyBag
    BY DEF Link, Queued, ToBag, Range, (+), EmptyBag, SetToBag
<1>7. \A i, j \in Node : Link(i, channel[j], node[i].outbox[j]) = EmptyBag
    BY <1>1, <1>2, <1>6 DEF no_messages
<1>8. Network!EmptyBag = EmptyBag
    BY DEF EmptyBag, Network!EmptyBag, SetToBag, Network!SetToBag
<1>9. UnderWay = [i \in Node |-> [j \in Node |-> Network!EmptyBag]]
    BY <1>7, <1>8 DEF UnderWay
<1>10. budget.timeouts = MaxTimeouts /\ budget.heartbeats = MaxHeartbeats
    BY <1>1
<1> QED BY <1>5, <1>9, <1>10 DEF Network!Init

\* Nodes are records in every state.
LEMMA RecordsAlways == Spec => [](TypeOK /\ \A i \in Node : IsRecord(node[i]))
<1> DEFINE Records == \A i \in Node : IsRecord(node[i])
<1>1. Init => Records
    <2>1. \A i \in Node : IsRecord(start_node(i, new_storage))
        BY DEF start_node, new_from_builder, IsRecord
    <2>2. Init => \A i \in Node : node[i] = start_node(i, new_storage)
        BY DEF Init
    <2> QED BY <2>1, <2>2
<1>2. TypeOK /\ Records /\ [Next]_vars => Records'
    <2> SUFFICES ASSUME TypeOK, Records, [Next]_vars PROVE Records'
        OBVIOUS
    <2>1. ASSUME NEW i \in Node, NEW b, IsRecord(b), Step(i, b) PROVE Records'
        <3>1. \A p \in Node : node'[p] = IF p = i THEN b ELSE node[p]
            BY <2>1 DEF Step, TypeOK
        <3> QED BY <2>1, <3>1
    <2>2. ASSUME NEW i \in Node, NEW j \in Node, Send(i, j) PROVE Records'
        <3> DEFINE out == [node[i].outbox EXCEPT ![j] = Tail(node[i].outbox[j])]
        <3>1. node' = [node EXCEPT ![i] = [node[i] EXCEPT !.outbox = out]]
            BY <2>2 DEF Send
        <3> HIDE DEF out
        <3>2. IsRecord([node[i] EXCEPT !.outbox = out])
            BY DEF IsRecord
        <3>3. \A p \in Node :
                  node'[p] = IF p = i THEN [node[i] EXCEPT !.outbox = out] ELSE node[p]
            BY <3>1 DEF TypeOK
        <3> QED BY <3>2, <3>3
    <2>3. ASSUME NEW i \in Node, Receive(i) PROVE Records'
        <3> DEFINE m == Head(channel[i]).message
                   from == Head(channel[i]).from
        <3>1. Head(channel[i]) \in Envelope
            BY <2>3 DEF TypeOK, Receive
        <3>2. m \in RaftMsg(EntryType)
            BY <3>1 DEF Envelope
        <3>3. Step(i, handle_message(node[i], from, m))
            BY <2>3 DEF Receive
        <3> HIDE DEF m, from
        <3>4. IsRecord(handle_message(node[i], from, m))
            BY <3>2, RecordsStay, Zenon
        <3> HIDE DEF Records
        <3> QED BY <2>1, <3>3, <3>4
    <2>4. ASSUME NEW i \in Node, ElectionTimer(i) PROVE Records'
        <3>1. IsRecord(handle_election_timer(node[i]))
            BY RecordsStay, Zenon
        <3> HIDE DEF Records
        <3> QED BY <2>1, <2>4, <3>1 DEF ElectionTimer
    <2>5. ASSUME NEW i \in Node, HeartbeatTimer(i) PROVE Records'
        <3>1. IsRecord(handle_heartbeat_timer(node[i]))
            BY RecordsStay, Zenon
        <3> HIDE DEF Records
        <3> QED BY <2>1, <2>5, <3>1 DEF HeartbeatTimer
    <2>6. ASSUME NEW i \in Node, NEW c \in Command, ClientCommand(i, c) PROVE Records'
        <3>1. IsRecord(submit_client_command(node[i], c))
            BY RecordsStay, Zenon
        <3> HIDE DEF Records
        <3> QED BY <2>1, <2>6, <3>1 DEF ClientCommand
    <2>7. ASSUME UNCHANGED vars PROVE Records'
        BY <2>7 DEF vars
    <2> HIDE DEF Records
    <2> QED BY <2>2, <2>3, <2>4, <2>5, <2>6, <2>7 DEF Next
<1> HIDE DEF Records
<1>3. Spec => [](TypeOK /\ Records)
    BY <1>1, <1>2, ChannelTypes, PTL DEF Spec
<1> QED BY <1>3 DEF Records

\* The channel transport is a special case of the network of RaftCluster: with
\* every queue size, in whatever order send and recv interleave and however
\* long a sender waits, each step delivers one message that was sent once, or
\* is an event of the same kind there, or is not seen at all.
THEOREM ChannelsImplementNetwork == Spec => Network!Init /\ ImplementsNetwork
<1> DEFINE Records == \A i \in Node : IsRecord(node[i])
<1>1. TypeOK /\ TypeOK' /\ Records /\ [Next]_vars => [Network!Next]_(Network!vars)
    <2>1. ASSUME TypeOK, TypeOK', Records, Next
          PROVE  Network!Next \/ UNCHANGED Network!vars
        BY <2>1, NextImplements, Zenon
    <2>2. ASSUME UNCHANGED vars PROVE UNCHANGED Network!vars
        BY <2>2 DEF vars, Network!vars, Settled, UnderWay
    <2> QED BY <2>1, <2>2
<1>2. Spec => [](TypeOK /\ Records)
    BY RecordsAlways
<1> HIDE DEF Records
<1> QED BY <1>1, <1>2, InitImplements, PTL DEF Spec, ImplementsNetwork

-----------------------------------------------------------------------------
(* What holds over the network holds over channels                         *)

\* The constants of Network are as RaftCluster assumes them.
LEMMA NetworkAssumptions ==
    /\ Network!NodeAssumption
    /\ Network!ContextAssumption
    /\ Network!SnapshotAssumption
    /\ Network!NodesAssumption
    /\ Network!ClusterAssumption
<1>1. Network!NodeAssumption
    BY NodeAssumption, Zenon DEF IsFiniteSet, Network!IsFiniteSet
<1>2. Network!ContextAssumption
    BY ContextAssumption DEF ConfigurationChange, Network!ConfigurationChange
<1>3. Network!NodesAssumption
    BY NodesAssumption
<1>4. Network!ClusterAssumption
    BY ChannelAssumption DEF Network!Optional
<1>5. Network!SnapshotAssumption
    BY SnapshotAssumption, Zenon
       DEF Snapshot, StateMachine, Network!Snapshot, Network!StateMachine
<1> QED BY <1>1, <1>2, <1>3, <1>4, <1>5

\* A node has its own role, term and log in Network.
LEMMA SettledSame ==
    ASSUME TypeOK, NEW i \in Node
    PROVE  /\ Settled[i].role = node[i].role
           /\ Settled[i].current_term = node[i].current_term
           /\ Settled[i].first_log_index = node[i].first_log_index
           /\ Network!last_log_index(Settled[i]) = last_log_index(node[i])
           /\ \A k : /\ Network!has_entry(Settled[i], k) <=> has_entry(node[i], k)
                     /\ Network!get_entry(Settled[i], k) = get_entry(node[i], k)
<1> DEFINE a == [node[i] EXCEPT !.outbox = no_messages]
<1>1. DOMAIN node[i] = NodeFields
    BY DEF TypeOK, NodeOK
<1>2. Settled[i] = a
    BY DEF Settled
<1>3. /\ a.role = node[i].role /\ a.current_term = node[i].current_term
      /\ a.first_log_index = node[i].first_log_index
      /\ a.log = node[i].log /\ a.snapshot = node[i].snapshot
    BY <1>1 DEF NodeFields
<1> HIDE DEF a
<1>4. last_log_index(a) = last_log_index(node[i])
    BY <1>3, Zenon DEF last_log_index
<1>5. \A k : /\ has_entry(a, k) <=> has_entry(node[i], k)
             /\ get_entry(a, k) = get_entry(node[i], k)
    BY <1>3, <1>4, Zenon DEF has_entry, get_entry
<1> QED BY <1>2, <1>3, <1>4, <1>5, SameContext

\* Election Safety over channels, for every size of the cluster and of the
\* queues: no term has two leaders.  Here nothing needs to be assumed about
\* duplicates, for a queue delivers an envelope once.
THEOREM ChannelsElectOne ==
    ASSUME InitialMembers = Node
    PROVE  Spec => []ElectionSafety
<1>1. /\ Network!NodeAssumption /\ Network!ContextAssumption /\ Network!SnapshotAssumption
      /\ Network!NodesAssumption /\ Network!ClusterAssumption
    BY NetworkAssumptions
<1>2. Network!Spec => []Network!ElectionSafety
    BY <1>1, Network!ElectionSafe
<1>3. TypeOK /\ Network!ElectionSafety => ElectionSafety
    BY SettledSame DEF ElectionSafety, Network!ElectionSafety, Leader, Network!Leader
<1> QED BY <1>2, <1>3, ChannelTypes, ChannelsImplementNetwork, PTL
        DEF Network!Spec, ImplementsNetwork

\* Log Matching over channels, while the nodes take no snapshot: two logs that
\* hold an entry of the same term at an index agree up to there.
THEOREM ChannelLogsMatch ==
    ASSUME InitialMembers = Node, MaxLog < SnapshotThreshold
    PROVE  Spec => []LogMatching
<1>1. /\ Network!NodeAssumption /\ Network!ContextAssumption /\ Network!SnapshotAssumption
      /\ Network!NodesAssumption /\ Network!ClusterAssumption
    BY NetworkAssumptions
<1>2. Network!Spec => []Network!LogMatching
    BY <1>1, Network!LogsMatch
<1>3. TypeOK /\ Network!LogMatching => LogMatching
    <2> SUFFICES ASSUME TypeOK, Network!LogMatching PROVE LogMatching
        OBVIOUS
    <2>1. \A i \in Node :
              /\ Network!last_log_index(Settled[i]) = last_log_index(node[i])
              /\ \A k : /\ Network!has_entry(Settled[i], k) <=> has_entry(node[i], k)
                        /\ Network!get_entry(Settled[i], k) = get_entry(node[i], k)
        BY SettledSame
    <2> QED BY <2>1 DEF LogMatching, Network!LogMatching
<1> QED BY <1>2, <1>3, ChannelTypes, ChannelsImplementNetwork, PTL
        DEF Network!Spec, ImplementsNetwork

\* Over channels too an entry of the term a node leads is at its place in that
\* leader's own log, wherever else it is.
THEOREM ChannelLeadersOwn ==
    ASSUME InitialMembers = Node, MaxLog < SnapshotThreshold
    PROVE  Spec => []LeaderOwnsItsTerm
<1>1. /\ Network!NodeAssumption /\ Network!ContextAssumption /\ Network!SnapshotAssumption
      /\ Network!NodesAssumption /\ Network!ClusterAssumption
    BY NetworkAssumptions
<1>2. Network!Spec => []Network!LeaderOwnsItsTerm
    BY <1>1, Network!LeadersOwnTheirTerm
<1>3. TypeOK /\ Network!LeaderOwnsItsTerm => LeaderOwnsItsTerm
    <2> SUFFICES ASSUME TypeOK, Network!LeaderOwnsItsTerm PROVE LeaderOwnsItsTerm
        OBVIOUS
    <2>1. \A i \in Node :
              /\ Settled[i].role = node[i].role
              /\ Settled[i].current_term = node[i].current_term
              /\ Settled[i].first_log_index = node[i].first_log_index
              /\ Network!last_log_index(Settled[i]) = last_log_index(node[i])
              /\ \A k : /\ Network!has_entry(Settled[i], k) <=> has_entry(node[i], k)
                        /\ Network!get_entry(Settled[i], k) = get_entry(node[i], k)
        BY SettledSame
    <2> QED BY <2>1
            DEF LeaderOwnsItsTerm, Network!LeaderOwnsItsTerm, Leader, Network!Leader
<1> QED BY <1>2, <1>3, ChannelTypes, ChannelsImplementNetwork, PTL
        DEF Network!Spec, ImplementsNetwork

\* Leader Append-Only over channels: no message and no request makes a node
\* drop or overwrite an entry while it leads, although a leader accepts the
\* AppendEntries of its own term.
THEOREM ChannelLeadersAppend ==
    ASSUME InitialMembers = Node, MaxLog < SnapshotThreshold
    PROVE  Spec => LeaderAppendOnly
<1> DEFINE Keeps == \A i \in Node :
               /\ node[i].role = Leader
               /\ node'[i].role = Leader
               /\ node'[i].current_term = node[i].current_term
               => \A k \in 1..last_log_index(node[i]) :
                      has_entry(node[i], k) /\ k >= node'[i].first_log_index =>
                          /\ has_entry(node'[i], k)
                          /\ get_entry(node'[i], k) = get_entry(node[i], k)
           Holds == \A i \in Node :
               /\ Settled[i].role = Network!Leader
               /\ Settled'[i].role = Network!Leader
               /\ Settled'[i].current_term = Settled[i].current_term
               => \A k \in 1..Network!last_log_index(Settled[i]) :
                      Network!has_entry(Settled[i], k) /\ k >= Settled'[i].first_log_index =>
                          /\ Network!has_entry(Settled'[i], k)
                          /\ Network!get_entry(Settled'[i], k) = Network!get_entry(Settled[i], k)
<1>1. /\ Network!NodeAssumption /\ Network!ContextAssumption /\ Network!SnapshotAssumption
      /\ Network!NodesAssumption /\ Network!ClusterAssumption
    BY NetworkAssumptions
<1>2. Network!Spec => Network!LeaderAppendOnly
    BY <1>1, Network!LeadersAppendOnly
<1>3. Network!LeaderAppendOnly => [][Holds]_Settled
    BY DEF Network!LeaderAppendOnly
<1>4. TypeOK /\ TypeOK' /\ [Holds]_Settled => [Keeps]_node
    <2> SUFFICES ASSUME TypeOK, TypeOK', [Holds]_Settled PROVE Keeps
        OBVIOUS
    <2>1. ASSUME NEW i \in Node
          PROVE  /\ Settled[i].role = node[i].role
                 /\ Settled[i].current_term = node[i].current_term
                 /\ Network!last_log_index(Settled[i]) = last_log_index(node[i])
                 /\ \A k : /\ Network!has_entry(Settled[i], k) <=> has_entry(node[i], k)
                           /\ Network!get_entry(Settled[i], k) = get_entry(node[i], k)
        BY SettledSame
    <2>2. ASSUME NEW i \in Node
          PROVE  /\ Settled'[i].role = node'[i].role
                 /\ Settled'[i].current_term = node'[i].current_term
                 /\ Settled'[i].first_log_index = node'[i].first_log_index
                 /\ \A k : /\ Network!has_entry(Settled'[i], k) <=> has_entry(node'[i], k)
                           /\ Network!get_entry(Settled'[i], k) = get_entry(node'[i], k)
        <3> DEFINE n == node'[i]
                   a == [n EXCEPT !.outbox = no_messages]
        <3>1. DOMAIN n = NodeFields
            BY DEF TypeOK, NodeOK
        <3>2. Settled'[i] = a
            BY DEF Settled
        <3> HIDE DEF n
        <3>3. /\ a.role = n.role /\ a.current_term = n.current_term
              /\ a.first_log_index = n.first_log_index
              /\ a.log = n.log /\ a.snapshot = n.snapshot
            BY <3>1 DEF NodeFields
        <3> HIDE DEF a
        <3>4. \A k : (has_entry(a, k) <=> has_entry(n, k)) /\ get_entry(a, k) = get_entry(n, k)
            BY <3>3, Zenon DEF has_entry, get_entry, last_log_index
        <3>5. \A k : /\ Network!has_entry(a, k) <=> has_entry(n, k)
                     /\ Network!get_entry(a, k) = get_entry(n, k)
            BY <3>4, SameContext
        <3> QED BY <3>2, <3>3, <3>5 DEF n
    <2>3. CASE Holds
        BY <2>1, <2>2, <2>3 DEF Leader, Network!Leader
    <2>4. CASE Settled' = Settled
        BY <2>1, <2>2, <2>4
    <2> QED BY <2>3, <2>4
<1> HIDE DEF Keeps, Holds
<1>5. Spec => [][Keeps]_node
    BY <1>2, <1>3, <1>4, ChannelTypes, ChannelsImplementNetwork, PTL
       DEF Network!Spec, ImplementsNetwork
<1> QED BY <1>5 DEF LeaderAppendOnly, Keeps
=============================================================================

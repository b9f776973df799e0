--------------------------- MODULE LogReplication ---------------------------
(***************************************************************************)
(* LogReplicationManager and SnapshotManager, and the handlers of          *)
(* message_handler/replication.rs that call them.  An operator named       *)
(* replication_x is LogReplicationManager::x; the handler keeps the bare   *)
(* name.                                                                   *)
(***************************************************************************)
EXTENDS ConfigChange

initialize_leader_state(n) ==
    LET known == {p \in Node : contains(n.members, p)}
        all(map, v) == [p \in DOMAIN map \cup known |->
                           IF p \in known THEN v ELSE map[p]]
    IN  [n EXCEPT !.next_index = all(@, last_log_index(n) + 1),
                  !.match_index = all(@, 0)]

-----------------------------------------------------------------------------
(* What the leader sends to a peer.                                        *)

\* get_snapshot_chunk finds no chunk at offset 0 of an empty serialization.
has_snapshot_chunk(n) ==
    /\ n.snapshot # None
    /\ \E k \in DOMAIN n.snapshot.data : n.snapshot.data[k] # None

get_append_entries_for_follower(n, peer) ==
    LET next == get(n.next_index, peer, 1)
        prev == IF next = 0 THEN 0 ELSE next - 1
    IN  [type |-> "AppendEntries",
         term |-> n.current_term,
         prev_log_index |-> prev,
         prev_log_term |->
             IF prev = 0 THEN 0
             ELSE IF has_entry(n, prev) THEN get_entry(n, prev).term
             ELSE IF n.snapshot # None /\ prev = n.snapshot.last_included_index
             THEN n.snapshot.last_included_term
             ELSE 0,
         entries |-> get_entries(n, next),
         leader_commit |-> n.commit_index]

get_append_entries_for_peer(n, peer) ==
    IF get(n.next_index, peer, 1) < n.first_log_index /\ has_snapshot_chunk(n)
    THEN [type |-> "InstallSnapshot",
          term |-> n.current_term,
          last_included_index |-> n.snapshot.last_included_index,
          last_included_term |-> n.snapshot.last_included_term,
          data |-> n.snapshot.data]
    ELSE get_append_entries_for_follower(n, peer)

send_append_entries_to_followers(n) ==
    send_to_peers(n, [p \in Node |-> get_append_entries_for_peer(n, p)])

send_heartbeats(n) == reset_heartbeat_timer(send_append_entries_to_followers(n))

\* A node that is not the leader leaves the timer as it is.
handle_heartbeat_timer(n) == IF n.role = Leader THEN send_heartbeats(n) ELSE n

-----------------------------------------------------------------------------
(* Applying committed entries.                                             *)

(***************************************************************************)
(* The entries after last_applied up to commit_index: the commands go to   *)
(* the state machine, the configuration changes to apply_config_changes    *)
(* (which every caller invokes with what apply_committed_entries returns). *)
(***************************************************************************)
apply_committed_entries(n) ==
    LET new     == {k \in (n.last_applied + 1)..n.commit_index : has_entry(n, k)}
        entry   == [k \in new |-> get_entry(n, k).entry_type]
        changes == {k \in new : entry[k] \in ConfigurationChange}
        applied(k) == IF k \in new THEN IF k \in changes THEN None ELSE entry[k]
                      ELSE IF k \in DOMAIN n.state_machine
                      THEN n.state_machine[k] ELSE None
        upTo    == Max({Len(n.state_machine), n.commit_index})
    IN  IF n.last_applied >= n.commit_index THEN n
        ELSE apply_changes(
                 [n EXCEPT !.last_applied = n.commit_index,
                           !.state_machine = [k \in 1..upTo |-> applied(k)]],
                 [k \in changes |-> entry[k]])

\* The commit index moves to the median only onto an entry of this term.
advance_commit_index(n) ==
    LET new_commit == compute_median(n.match_index, last_log_index(n),
                                     n.members, n.catching_up_servers, n.id)
    IN  IF /\ new_commit > n.commit_index
           /\ has_entry(n, new_commit)
           /\ get_entry(n, new_commit).term = n.current_term
        THEN apply_committed_entries([n EXCEPT !.commit_index = new_commit])
        ELSE n

-----------------------------------------------------------------------------
(* SnapshotManager                                                         *)

should_create(n) ==
    /\ n.commit_index >= SnapshotThreshold
    /\ n.snapshot = None \/ n.snapshot.last_included_index < SnapshotThreshold

\* create fails, changing nothing, without an entry at the commit index.
create_snapshot(n) ==
    IF n.commit_index = 0 \/ ~has_entry(n, n.commit_index) THEN n
    ELSE discard_entries_before(
             [n EXCEPT !.snapshot =
                 [last_included_index |-> n.commit_index,
                  last_included_term |-> get_entry(n, n.commit_index).term,
                  data |-> n.state_machine]],
             n.commit_index + 1)

-----------------------------------------------------------------------------
(* AppendEntries                                                           *)

\* Mutant: having some entry at prev_log_index is enough.
check_log_consistency_any_term(n, prev_log_index, prev_log_term) ==
    \/ prev_log_index <= last_log_index(n)
    \/ n.snapshot # None /\ prev_log_index = n.snapshot.last_included_index

check_log_consistency(n, prev_log_index, prev_log_term) ==
    IF prev_log_index = 0 THEN TRUE
    ELSE IF has_entry(n, prev_log_index)
    THEN get_entry(n, prev_log_index).term = prev_log_term
    ELSE /\ n.snapshot # None
         /\ prev_log_index = n.snapshot.last_included_index
         /\ prev_log_term = n.snapshot.last_included_term

\* Mutant: entries are appended without removing those after prev_log_index.
replace_suffix_without_truncating(n, prev_log_index, entries) ==
    append_entries(n, entries)

\* Everything after prev_log_index is replaced, whether or not it conflicts.
replace_suffix(n, prev_log_index, entries) ==
    IF entries = <<>> THEN n
    ELSE append_entries(IF last_log_index(n) > prev_log_index
                        THEN truncate_after(n, prev_log_index) ELSE n,
                        entries)

try_append_entries(n, m) ==
    LET a == replace_suffix(n, m.prev_log_index, m.entries)
    IN  IF m.leader_commit > a.commit_index
        THEN apply_committed_entries(
                 [a EXCEPT !.commit_index =
                     Min({m.leader_commit, last_log_index(a)})])
        ELSE a

\* Mutant: the term of the sender is not compared.
replication_handle_append_entries_any_term(n, from, m) ==
    LET a == IF n.role = Candidate THEN [n EXCEPT !.role = Follower] ELSE n
        success == check_log_consistency(a, m.prev_log_index, m.prev_log_term)
        b == IF success THEN try_append_entries(a, m) ELSE a
    IN  send(b, from, [type |-> "AppendEntriesResponse",
                       term |-> b.current_term,
                       success |-> success,
                       match_index |-> last_log_index(b)])

\* The caller has stepped down and returned if m.term > n.current_term.
replication_handle_append_entries(n, from, m) ==
    LET a == IF m.term = n.current_term /\ n.role = Candidate
             THEN [n EXCEPT !.role = Follower] ELSE n
        success == /\ m.term >= n.current_term
                   /\ check_log_consistency(a, m.prev_log_index, m.prev_log_term)
        b == IF success THEN try_append_entries(a, m) ELSE a
    IN  send(b, from, [type |-> "AppendEntriesResponse",
                       term |-> b.current_term,
                       success |-> success,
                       match_index |-> last_log_index(b)])

handle_append_entries(n, from, m) ==
    IF m.term > n.current_term THEN step_down(n, m.term)
    ELSE replication_handle_append_entries(
             [reset_election_timer_if_valid_term(n, m.term)
                 EXCEPT !.current_leader = from],
             from, m)

check_and_promote_caught_up_server(n, p) ==
    IF get(n.match_index, p, 0) >= n.commit_index
    THEN [n EXCEPT !.catching_up_servers = @ \ {p}] ELSE n

replication_handle_append_entries_response(n, from, m) ==
    LET next == get(n.next_index, from, 1)
    IN  CASE m.success /\ m.match_index > get(n.match_index, from, 0) ->
               advance_commit_index(check_and_promote_caught_up_server(
                   [n EXCEPT !.match_index = insert(@, from, m.match_index),
                             !.next_index = insert(@, from, m.match_index + 1)],
                   from))
          [] ~m.success /\ next > 1 ->
               [n EXCEPT !.next_index = insert(@, from, next - 1)]
          [] OTHER -> n

handle_append_entries_response(n, from, m) ==
    IF m.term > n.current_term THEN step_down(n, m.term)
    ELSE IF n.role # Leader \/ m.term # n.current_term THEN n
    ELSE LET a == replication_handle_append_entries_response(n, from, m)
         IN  IF a.commit_index <= n.commit_index THEN a
             ELSE IF should_create(a) THEN create_snapshot(grant(a))
             ELSE grant(a)

-----------------------------------------------------------------------------
(* InstallSnapshot                                                         *)

InstallSnapshotResponse(n, success) ==
    [type |-> "InstallSnapshotResponse",
     term |-> n.current_term, success |-> success]

\* Mutant: the state machine is not restored from the snapshot.
install_without_restore(n, m) ==
    LET a == [n EXCEPT !.snapshot =
                 [last_included_index |-> m.last_included_index,
                  last_included_term |-> m.last_included_term,
                  data |-> m.data]]
    IN  [discard_entries_before(a, m.last_included_index + 1) EXCEPT
            !.commit_index = Max({@, m.last_included_index}),
            !.last_applied = Max({@, m.last_included_index})]

\* The suffix of the log after the snapshot is kept as it is.
install(n, m) ==
    LET a == [n EXCEPT !.snapshot =
                 [last_included_index |-> m.last_included_index,
                  last_included_term |-> m.last_included_term,
                  data |-> m.data]]
    IN  [discard_entries_before(a, m.last_included_index + 1) EXCEPT
            !.state_machine = m.data,
            !.commit_index = Max({@, m.last_included_index}),
            !.last_applied = Max({@, m.last_included_index})]

replication_handle_install_snapshot(n, from, m) ==
    LET a == IF m.term > n.current_term
             THEN [n EXCEPT !.current_term = m.term,
                            !.voted_for = None,
                            !.role = Follower]
             ELSE IF n.role = Candidate THEN [n EXCEPT !.role = Follower]
             ELSE n
    IN  IF m.term < n.current_term
        THEN send(n, from, InstallSnapshotResponse(n, FALSE))
        ELSE IF /\ a.snapshot # None
                /\ m.last_included_index <= a.snapshot.last_included_index
        THEN send(a, from, InstallSnapshotResponse(a, FALSE))
        ELSE send(install(a, m), from, InstallSnapshotResponse(a, TRUE))

handle_install_snapshot(n, from, m) ==
    replication_handle_install_snapshot(
        reset_election_timer_if_valid_term(n, m.term), from, m)

\* The acknowledged index is the one of the leader's snapshot of now.
handle_install_snapshot_response(n, from, m) ==
    IF m.term > n.current_term THEN step_down(n, m.term)
    ELSE IF \/ n.role # Leader \/ m.term # n.current_term
            \/ n.snapshot = None \/ ~m.success
    THEN n
    ELSE LET index == n.snapshot.last_included_index
         IN  check_and_promote_caught_up_server(
                 [n EXCEPT !.next_index = insert(@, from, index + 1),
                           !.match_index = insert(@, from, index)],
                 from)
=============================================================================

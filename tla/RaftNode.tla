------------------------------ MODULE RaftNode ------------------------------
(***************************************************************************)
(* RaftNode: construction from storage, dispatch of the events of          *)
(* event.rs, and the client and membership requests of                     *)
(* message_handler/admin.rs.                                               *)
(***************************************************************************)
EXTENDS Election

\* InMemoryStorage::new()
new_storage == [current_term |-> 0, voted_for |-> None, log |-> <<>>,
                first_log_index |-> 1, snapshot |-> None]

\* Mutant: the vote is not persisted.
storage_without_vote(n) ==
    [current_term |-> n.current_term, voted_for |-> None, log |-> n.log,
     first_log_index |-> n.first_log_index, snapshot |-> n.snapshot]

\* The part of a node that survives a restart.
storage(n) == [current_term |-> n.current_term, voted_for |-> n.voted_for,
               log |-> n.log, first_log_index |-> n.first_log_index,
               snapshot |-> n.snapshot]

no_messages == [p \in Node |-> <<>>]

\* The configuration is the one the node is built with, not one of the log.
new_from_builder(id, st, peerIds) ==
    [id |-> id,
     role |-> Follower,
     current_leader |-> None,
     current_term |-> st.current_term,
     voted_for |-> st.voted_for,
     log |-> st.log,
     first_log_index |-> st.first_log_index,
     snapshot |-> st.snapshot,
     votes_received |-> new_collection,
     pre_votes_received |-> new_collection,
     in_pre_vote |-> FALSE,
     election_deadline |-> ElectionTimeout,
     heartbeat_deadline |-> None,
     next_index |-> new_map,
     match_index |-> new_map,
     catching_up_servers |-> {},
     commit_index |-> 0,
     last_applied |-> IF st.snapshot = None THEN 0
                      ELSE st.snapshot.last_included_index,
     members |-> [p \in Node |-> IF p \in peerIds \cup {id} THEN 1 ELSE 0],
     pending_change |-> None,
     state_machine |-> IF st.snapshot = None THEN <<>> ELSE st.snapshot.data,
     lease |-> 0,
     outbox |-> no_messages]

-----------------------------------------------------------------------------
(* Requests a leader accepts; any other node returns an error.             *)

submit_entry(n, entry_type) ==
    LET a == append_entries(n, <<[term |-> n.current_term,
                                  entry_type |-> entry_type]>>)
        b == IF size(a.members) <= 1 THEN advance_commit_index(a) ELSE a
    IN  send_append_entries_to_followers(b)

submit_client_command(n, payload) ==
    IF n.role # Leader THEN n ELSE submit_entry(n, payload)

submit_config_change(n, change) ==
    IF n.role # Leader THEN n ELSE submit_entry(n, change)

\* The index of the change is tracked after it was submitted.
add_server(n, p) ==
    IF ~may_add_server(n, p) THEN n
    ELSE LET a == submit_config_change(n, AddServer(p))
         IN  [a EXCEPT !.pending_change = last_log_index(a)]

remove_server(n, p) ==
    IF ~may_remove_server(n, p) THEN n
    ELSE LET a == submit_config_change(n, RemoveServer(p))
         IN  [a EXCEPT !.pending_change = last_log_index(a)]

\* read_linearizable answers from the local state machine.
may_read_linearizable(n) == n.role = Leader /\ is_valid(n)

-----------------------------------------------------------------------------
(* Dispatch                                                                *)

handle_message(n, from, m) ==
    CASE m.type = "PreVoteRequest"        -> handle_pre_vote_request(n, from, m)
      [] m.type = "PreVoteResponse"       -> handle_pre_vote_response(n, from, m)
      [] m.type = "RequestVote"           -> handle_vote_request(n, from, m)
      [] m.type = "RequestVoteResponse"   -> handle_vote_response(n, from, m)
      [] m.type = "AppendEntries"         -> handle_append_entries(n, from, m)
      [] m.type = "AppendEntriesResponse" ->
             handle_append_entries_response(n, from, m)
      [] m.type = "InstallSnapshot"       -> handle_install_snapshot(n, from, m)
      [] m.type = "InstallSnapshotResponse" ->
             handle_install_snapshot_response(n, from, m)
=============================================================================

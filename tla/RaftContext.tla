----------------------------- MODULE RaftContext -----------------------------
(***************************************************************************)
(* What the handlers of the core work on: the state of one node (RaftNode  *)
(* and the managers it owns), the messages of RaftMsg, the Storage, the    *)
(* timers, and the helpers of message_handler/common.rs.                   *)
(*                                                                         *)
(* A handler of the code mutates a MessageHandlerContext in place; here it *)
(* is an operator from the record of the node before the call to the       *)
(* record after it, so that calls compose as they do in the code.  The     *)
(* messages the handler sends are gathered in the field outbox, as the     *)
(* transports do, and are handed to the network when the event is over.    *)
(***************************************************************************)
EXTENDS NodeCollection, Sequences

CONSTANTS
    Command,           \* the payloads clients submit
    None,              \* Option::None
    SnapshotThreshold, \* RaftNodeBuilder.snapshot_threshold
    LogCapacity,       \* capacity of the storage's log array
    ElectionTimeout,   \* least ticks before a reset election timer fires
    HeartbeatTimeout,  \* ticks before a reset heartbeat timer fires
    LeaseDuration      \* ticks a granted lease lasts

ConfigurationChange == [kind : {"AddServer", "RemoveServer"}, node : Node]

ASSUME ContextAssumption ==
    /\ None \notin Node
    /\ None \notin Nat
    /\ None \notin Command
    /\ Command \cap ConfigurationChange = {}
    /\ {SnapshotThreshold, LogCapacity, ElectionTimeout,
        HeartbeatTimeout, LeaseDuration} \subseteq Nat

-----------------------------------------------------------------------------
(* Messages.  candidate_id and leader_id always equal the sender, which    *)
(* the network records; a snapshot travels as one chunk (a serialized      *)
(* state machine is never longer than a chunk).                            *)

\* EntryType::Command or EntryType::ConfigChange
EntryType == Command \cup ConfigurationChange

\* The entries, messages and nodes in which only entry types of T occur: with
\* a fixed configuration those are the commands, otherwise all of EntryType.
LogEntry(T) == [term : Nat, entry_type : T]

\* At position k the command applied at log index k, None if none was.
StateMachine == Seq(Command \cup {None})

RaftMsg(T) ==
         [type : {"PreVoteRequest", "RequestVote"},
          term : Nat, last_log_index : Nat, last_log_term : Nat]
    \cup [type : {"PreVoteResponse", "RequestVoteResponse"},
          term : Nat, vote_granted : BOOLEAN]
    \cup [type : {"AppendEntries"}, term : Nat, prev_log_index : Nat,
          prev_log_term : Nat, entries : Seq(LogEntry(T)), leader_commit : Nat]
    \cup [type : {"AppendEntriesResponse"},
          term : Nat, success : BOOLEAN, match_index : Nat]
    \cup [type : {"InstallSnapshot"}, term : Nat, last_included_index : Nat,
          last_included_term : Nat, data : StateMachine]
    \cup [type : {"InstallSnapshotResponse"}, term : Nat, success : BOOLEAN]

VoteRequestMsg(type, term, index, lastTerm) ==
    [type |-> type, term |-> term,
     last_log_index |-> index, last_log_term |-> lastTerm]

VoteResponseMsg(type, term, granted) ==
    [type |-> type, term |-> term, vote_granted |-> granted]

-----------------------------------------------------------------------------
(* The state of a node.  current_term is kept once: every assignment to    *)
(* the node's copy is paired with storage.set_current_term.                *)

Follower  == "Follower"
Candidate == "Candidate"
Leader    == "Leader"

Snapshot == [last_included_index : Nat, last_included_term : Nat,
             data : StateMachine]

ASSUME SnapshotAssumption == None \notin Snapshot

NodeFields ==
    {"id", "role", "current_leader",
     "current_term", "voted_for", "log", "first_log_index", "snapshot",
     "votes_received", "pre_votes_received", "in_pre_vote",
     "election_deadline", "heartbeat_deadline",
     "next_index", "match_index", "catching_up_servers",
     "commit_index", "last_applied", "members", "pending_change",
     "state_machine", "lease", "outbox"}

Optional(S) == S \cup {None}

\* The fields have the types of the Rust structs.
NodeOK(n, T) ==
    /\ DOMAIN n = NodeFields
    /\ n.id \in Node
    /\ n.role \in {Follower, Candidate, Leader}
    /\ n.current_leader \in Optional(Node)
    /\ n.current_term \in Nat
    /\ n.voted_for \in Optional(Node)
    /\ n.log \in Seq(LogEntry(T))
    /\ n.first_log_index \in Nat \ {0}
    /\ n.snapshot \in Optional(Snapshot)
    /\ n.votes_received \in NodeCollections
    /\ n.pre_votes_received \in NodeCollections
    /\ n.in_pre_vote \in BOOLEAN
    /\ n.election_deadline \in Optional(Nat)
    /\ n.heartbeat_deadline \in Optional(Nat)
    /\ IsMap(n.next_index)
    /\ IsMap(n.match_index)
    /\ n.catching_up_servers \in SUBSET Node
    /\ n.commit_index \in Nat
    /\ n.last_applied \in Nat
    /\ n.members \in NodeCollections
    /\ n.pending_change \in Optional(Nat)
    /\ n.state_machine \in StateMachine
    /\ n.lease \in Nat
    /\ n.outbox \in [Node -> Seq(RaftMsg(T))]

-----------------------------------------------------------------------------
(* Storage: the entry of log position k has index first_log_index + k - 1. *)

last_log_index(n) ==
    IF n.log # <<>> THEN n.first_log_index + Len(n.log) - 1
    ELSE IF n.snapshot # None THEN n.snapshot.last_included_index ELSE 0

last_log_term(n) ==
    IF n.log # <<>> THEN n.log[Len(n.log)].term
    ELSE IF n.snapshot # None THEN n.snapshot.last_included_term ELSE 0

has_entry(n, index) ==
    index >= n.first_log_index /\ index < n.first_log_index + Len(n.log)

get_entry(n, index) == n.log[index - n.first_log_index + 1]

\* The entries from start up to the end of the log.
get_entries(n, start) ==
    IF start < n.first_log_index THEN <<>>
    ELSE SubSeq(n.log, start - n.first_log_index + 1, Len(n.log))

\* The array has a fixed capacity and a push onto a full one is ignored.
append_entries(n, entries) ==
    LET all == n.log \o entries
    IN  [n EXCEPT !.log = SubSeq(all, 1, Min({Len(all), LogCapacity}))]

\* Mutant: the entry at index goes too.
truncate_after_off_by_one(n, index) ==
    [n EXCEPT !.log =
        IF index < n.first_log_index THEN <<>>
        ELSE SubSeq(@, 1, Min({Len(@), index - n.first_log_index}))]

truncate_after(n, index) ==
    [n EXCEPT !.log =
        IF index < n.first_log_index THEN <<>>
        ELSE SubSeq(@, 1, Min({Len(@), index - n.first_log_index + 1}))]

\* Mutant: the first index stays where it was.
discard_entries_before_unmoved(n, index) ==
    IF index <= n.first_log_index THEN n
    ELSE [n EXCEPT !.log = SubSeq(@, index - n.first_log_index + 1, Len(@))]

discard_entries_before(n, index) ==
    IF index <= n.first_log_index THEN n
    ELSE [n EXCEPT !.log = SubSeq(@, index - n.first_log_index + 1, Len(@)),
                   !.first_log_index = index]

-----------------------------------------------------------------------------
(* Timers: None when stopped, otherwise the ticks left before it fires.    *)
(* The random part of the election timeout is the freedom to fire later.   *)

reset_election_timer(n) == [n EXCEPT !.election_deadline = ElectionTimeout]

reset_heartbeat_timer(n) == [n EXCEPT !.heartbeat_deadline = HeartbeatTimeout]

stop_timers(n) ==
    [n EXCEPT !.election_deadline = None, !.heartbeat_deadline = None]

(* LeaderLease: the ticks left, 0 when there is none.                      *)

grant(n) == [n EXCEPT !.lease = LeaseDuration]

is_valid(n) == n.lease > 0

revoke(n) == [n EXCEPT !.lease = 0]

-----------------------------------------------------------------------------
(* message_handler/common.rs                                               *)

send(n, to, msg) == [n EXCEPT !.outbox[to] = Append(@, msg)]

\* An id the configuration holds twice is sent its message twice.
send_to_peers(n, msg) ==
    [n EXCEPT !.outbox = [p \in Node |->
        IF p \in peers(n.members, n.id)
        THEN n.outbox[p] \o [k \in 1..n.members[p] |-> msg[p]]
        ELSE n.outbox[p]]]

broadcast(n, msg) == send_to_peers(n, [p \in Node |-> msg])

step_down(n, new_term) ==
    revoke(reset_election_timer(
        [n EXCEPT !.current_term = new_term,
                  !.role = Follower,
                  !.voted_for = None,
                  !.current_leader = None]))

reset_election_timer_if_valid_term(n, term) ==
    IF term >= n.current_term THEN reset_election_timer(n) ELSE n
=============================================================================

----------------------------- MODULE LogProofs -----------------------------
(***************************************************************************)
(* Log Matching, Leader Append-Only and that a leader owns the entries of  *)
(* its term, for a cluster of any size with a fixed configuration, whose   *)
(* network loses, delays and reorders messages but does not duplicate      *)
(* them, and whose nodes crash and restart but compact nothing.  The first *)
(* part shows what every handler does to the log of its node and which     *)
(* AppendEntries it sends; the second that LogsAccounted is inductive; the *)
(* third that, while one node leads, with any membership changes and any   *)
(* duplicates, every node follows it (Followed), so that state machines    *)
(* and configurations agree.                                               *)
(***************************************************************************)
EXTENDS LogAccounting, ClusterHistory, ElectionProofs, ReplicationProofs

-----------------------------------------------------------------------------
(* Nodes                                                                   *)

\* The outbox holds no part of a log.
Mute(n) ==
    \A p \in Node : \A k \in DOMAIN n.outbox[p] :
        n.outbox[p][k].type \notin {"AppendEntries", "InstallSnapshot"}

\* The AppendEntries m carries a part of the log of n.
Slice(n, m) ==
    /\ m.term = n.current_term
    /\ m.prev_log_index = 0 => m.prev_log_term = 0
    /\ \A h \in DOMAIN m.entries :
           /\ m.prev_log_index + h \in DOMAIN n.log
           /\ m.entries[h] = n.log[m.prev_log_index + h]
    /\ m.entries # <<>> /\ m.prev_log_index # 0 =>
           /\ m.prev_log_index \in DOMAIN n.log
           /\ m.prev_log_term = n.log[m.prev_log_index].term

\* A node sends AppendEntries as a leader, to others, and out of its log.
OwnMail(n) ==
    \A p \in Node : \A k \in DOMAIN n.outbox[p] :
        /\ n.outbox[p][k].type # "InstallSnapshot"
        /\ n.outbox[p][k].type = "AppendEntries" =>
               /\ p # n.id
               /\ n.role = Leader
               /\ Slice(n, n.outbox[p][k])

Ready(n) == Whole(n) /\ Mute(n)

Sound(n) == Whole(n) /\ OwnMail(n)

\* Nothing that Ready depends on differs.
LogPart(a, b) ==
    /\ b.log = a.log
    /\ b.first_log_index = a.first_log_index
    /\ b.snapshot = a.snapshot
    /\ b.commit_index = a.commit_index
    /\ b.outbox = a.outbox

\* A node stays ready as long as its log part does.
LEMMA ReadyKept ==
    ASSUME NEW a, NEW b, Ready(a), LogPart(a, b)
    PROVE  Ready(b)
BY DEF Ready, Whole, Mute, LogPart

\* A node that sends no part of its log sends nothing else than its own.
LEMMA ReadyIsSound ==
    ASSUME NEW n, Ready(n)
    PROVE  Sound(n)
BY DEF Ready, Sound, Mute, OwnMail

\* The last index of a whole log is its length.
LEMMA WholeLog ==
    ASSUME NEW T, NEW n, NodeOK(n, T), Whole(n)
    PROVE  /\ last_log_index(n) = Len(n.log)
           /\ Len(n.log) \in Nat
           /\ DOMAIN n.log = 1..Len(n.log)
           /\ \A k \in Int : has_entry(n, k) <=> k \in DOMAIN n.log
           /\ \A k \in Int : get_entry(n, k) = n.log[k]
<1>1. n.log \in Seq(LogEntry(T)) /\ Len(n.log) \in Nat /\ DOMAIN n.log = 1..Len(n.log)
    BY DEF NodeOK
<1>2. n.first_log_index = 1 /\ n.snapshot = None
    BY DEF Whole
<1>3. n.log = <<>> <=> Len(n.log) = 0
    BY <1>1
<1>4. last_log_index(n) = Len(n.log)
    BY <1>1, <1>2, <1>3 DEF last_log_index
<1>5. \A k \in Int : has_entry(n, k) <=> k \in DOMAIN n.log
    BY <1>1, <1>2 DEF has_entry
<1>6. \A k \in Int : get_entry(n, k) = n.log[k]
    <2>1. \A k \in Int : k - 1 + 1 = k
        OBVIOUS
    <2> QED BY <1>2, <2>1 DEF get_entry
<1> QED BY <1>1, <1>4, <1>5, <1>6

\* What a leader sends to a peer is a part of its log.
LEMMA MessageForPeerSlice ==
    ASSUME NEW T, NEW n, NodeOK(n, T), Whole(n), NEW p \in Node
    PROVE  /\ get_append_entries_for_peer(n, p).type = "AppendEntries"
           /\ Slice(n, get_append_entries_for_peer(n, p))
<1> DEFINE next == get(n.next_index, p, 1)
           prev == IF next = 0 THEN 0 ELSE next - 1
           prevTerm == IF prev = 0 THEN 0
                       ELSE IF has_entry(n, prev) THEN get_entry(n, prev).term
                       ELSE IF n.snapshot # None /\ prev = n.snapshot.last_included_index
                       THEN n.snapshot.last_included_term
                       ELSE 0
           es == get_entries(n, next)
           m == get_append_entries_for_peer(n, p)
<1>1. next \in Nat /\ prev \in Nat
    BY DEF NodeOK, IsMap, get
<1>2. n.snapshot = None /\ n.first_log_index = 1
    BY DEF Whole
<1>3. m = [type |-> "AppendEntries", term |-> n.current_term,
           prev_log_index |-> prev, prev_log_term |-> prevTerm,
           entries |-> es, leader_commit |-> n.commit_index]
    BY <1>2 DEF get_append_entries_for_peer, has_snapshot_chunk,
                get_append_entries_for_follower
<1>4. n.log \in Seq(LogEntry(T)) /\ Len(n.log) \in Nat /\ DOMAIN n.log = 1..Len(n.log)
    BY DEF NodeOK
<1>5. es = IF next < 1 THEN <<>> ELSE SubSeq(n.log, next, Len(n.log))
    <2>1. next - 1 + 1 = next
        BY <1>1
    <2> HIDE DEF next
    <2> QED BY <1>2, <2>1 DEF get_entries
<1>6. CASE next < 1 \/ next > Len(n.log)
    <2>1. es = <<>>
        <3>1. next > Len(n.log) => SubSeq(n.log, next, Len(n.log)) = <<>>
            <4> HIDE DEF next
            <4>1. next \in Int /\ Len(n.log) \in Int
                BY <1>1, <1>4
            <4> QED BY <1>1, <1>4, <4>1, SubSeqEmpty
        <3> HIDE DEF next
        <3> QED BY <1>5, <1>6, <3>1
    <2> HIDE DEF m, es
    <2>2. m.entries = <<>> /\ DOMAIN m.entries = {} /\ m.type = "AppendEntries"
          /\ m.term = n.current_term /\ (m.prev_log_index = 0 => m.prev_log_term = 0)
        BY <1>3, <2>1
    <2> QED BY <2>2 DEF Slice, m
<1>7. CASE 1 <= next /\ next <= Len(n.log)
    <2>1. prev = next - 1 /\ next = prev + 1
        BY <1>1, <1>7
    <2>2. es = SubSeq(n.log, next, Len(n.log)) /\ es \in Seq(LogEntry(T))
          /\ Len(es) = Len(n.log) - next + 1
          /\ \A h \in 1..Len(es) : es[h] = n.log[next + h - 1]
        <3> HIDE DEF es, next
        <3>1. es = SubSeq(n.log, next, Len(n.log))
            BY <1>1, <1>5, <1>7
        <3>2. next \in 1..Len(n.log)
            BY <1>1, <1>4, <1>7
        <3>3. LET t == SubSeq(n.log, next, Len(n.log))
              IN  /\ t \in Seq(LogEntry(T))
                  /\ Len(t) = Len(n.log) - next + 1
                  /\ \A h \in 1..Len(t) : t[h] = n.log[next + h - 1]
            BY <1>4, <3>2, SuffixProperties, Zenon
        <3> QED BY <3>1, <3>3
    <2>3. prev # 0 => prev \in DOMAIN n.log /\ prevTerm = n.log[prev].term
        <3>1. prev # 0 => prev \in DOMAIN n.log
            BY <1>1, <1>4, <1>7, <2>1
        <3>2. prev \in Int
            BY <1>1
        <3> HIDE DEF prev
        <3> QED BY <3>1, <3>2, WholeLog
    <2>4. prev = 0 => prevTerm = 0
        OBVIOUS
    <2> HIDE DEF m, es, next, prev, prevTerm
    <2>5. \A h \in DOMAIN es : prev + h \in DOMAIN n.log /\ es[h] = n.log[prev + h]
        <3>1. DOMAIN es = 1..Len(es)
            BY <2>2
        <3> SUFFICES ASSUME NEW h \in 1..Len(es)
                     PROVE  prev + h \in DOMAIN n.log /\ es[h] = n.log[prev + h]
            BY <3>1
        <3>2. next + h - 1 = prev + h
            BY <1>1, <2>1, <2>2
        <3>3. prev + h \in 1..Len(n.log)
            BY <1>1, <1>4, <2>1, <2>2
        <3> QED BY <1>4, <2>2, <3>2, <3>3
    <2>6. m.type = "AppendEntries" /\ m.term = n.current_term /\ m.prev_log_index = prev
          /\ m.prev_log_term = prevTerm /\ m.entries = es
        BY <1>3
    <2>7. Slice(n, m)
        BY <2>3, <2>4, <2>5, <2>6 DEF Slice
    <2> QED BY <2>6, <2>7 DEF m
<1> QED BY <1>1, <1>4, <1>6, <1>7

\* A message that holds no part of a log may be sent at any time.
LEMMA SendReady ==
    ASSUME NEW T, NEW n, NodeOK(n, T), Ready(n), NEW p \in Node, NEW m \in RaftMsg(T),
           m.type \notin {"AppendEntries", "InstallSnapshot"}
    PROVE  Ready(send(n, p, m)) /\ send(n, p, m).log = n.log
<1> DEFINE b == send(n, p, m)
<1>1. n.outbox \in [Node -> Seq(RaftMsg(T))]
    BY DEF NodeOK
<1>2. b.outbox = [n.outbox EXCEPT ![p] = Append(@, m)]
    BY DEF send, NodeOK, NodeFields
<1>3. b.log = n.log /\ b.first_log_index = n.first_log_index /\ b.snapshot = n.snapshot
      /\ b.commit_index = n.commit_index
    BY DEF send, NodeOK, NodeFields
<1> HIDE DEF b
<1>4. ASSUME NEW q \in Node, NEW k \in DOMAIN b.outbox[q]
      PROVE  b.outbox[q][k].type \notin {"AppendEntries", "InstallSnapshot"}
    <2>1. CASE q # p
        BY <1>1, <1>2, <2>1 DEF Ready, Mute
    <2>2. CASE q = p
        <3> DEFINE old == n.outbox[p]
        <3>1. old \in Seq(RaftMsg(T)) /\ b.outbox[q] = Append(old, m)
            BY <1>1, <1>2, <2>2
        <3>2. \A j \in DOMAIN old : old[j].type \notin {"AppendEntries", "InstallSnapshot"}
            BY DEF Ready, Mute
        <3> HIDE DEF old
        <3>3. k \in 1..(Len(old) + 1) /\ DOMAIN old = 1..Len(old)
            BY <1>4, <3>1
        <3>4. k # Len(old) + 1 => k \in DOMAIN old /\ Append(old, m)[k] = old[k]
            BY <3>1, <3>3
        <3>5. k = Len(old) + 1 => Append(old, m)[k] = m
            BY <3>1
        <3> QED BY <3>1, <3>2, <3>4, <3>5
    <2> QED BY <2>1, <2>2
<1>5. Ready(b)
    BY <1>3, <1>4 DEF Ready, Whole, Mute
<1> QED BY <1>3, <1>5 DEF b

\* A request that holds no part of a log may be sent to the peers.
LEMMA BroadcastReady ==
    ASSUME NEW T, NEW n, NodeOK(n, T), Ready(n), NEW m \in RaftMsg(T),
           m.type \notin {"AppendEntries", "InstallSnapshot"}
    PROVE  Ready(broadcast(n, m)) /\ broadcast(n, m).log = n.log
<1> DEFINE msg == [p \in Node |-> m]
           b == send_to_peers(n, msg)
<1>1. msg \in [Node -> RaftMsg(T)] /\ \A p \in Node : msg[p] = m
    OBVIOUS
<1>2. broadcast(n, m) = b
    BY DEF broadcast
<1> HIDE DEF msg
<1>3. /\ b = [n EXCEPT !.outbox = b.outbox]
      /\ \A q \in Node : \A k \in DOMAIN b.outbox[q] :
             \/ k \in DOMAIN n.outbox[q] /\ b.outbox[q][k] = n.outbox[q][k]
             \/ q # n.id /\ b.outbox[q][k] = msg[q]
    BY <1>1, SentToPeers
<1> HIDE DEF b
<1>4. b.log = n.log /\ b.first_log_index = n.first_log_index /\ b.snapshot = n.snapshot
      /\ b.commit_index = n.commit_index
    BY <1>3 DEF NodeOK, NodeFields
<1>5. Mute(b)
    BY <1>1, <1>3 DEF Ready, Mute
<1> QED BY <1>2, <1>4, <1>5 DEF Ready, Whole

\* A leader replicates its log and nothing else.
LEMMA ReplicateSound ==
    ASSUME NEW T, NEW n, NodeOK(n, T), Ready(n), n.role = Leader
    PROVE  LET b == send_append_entries_to_followers(n)
           IN  Sound(b) /\ b = [n EXCEPT !.outbox = b.outbox]
<1> DEFINE msg == [p \in Node |-> get_append_entries_for_peer(n, p)]
           b == send_to_peers(n, msg)
<1>1. msg \in [Node -> RaftMsg(T)]
    BY MessageForPeerType
<1>2. send_append_entries_to_followers(n) = b
    BY DEF send_append_entries_to_followers
<1>3. \A p \in Node : msg[p].type = "AppendEntries" /\ Slice(n, msg[p])
    BY MessageForPeerSlice DEF Ready
<1> HIDE DEF msg
<1>4. /\ b = [n EXCEPT !.outbox = b.outbox]
      /\ \A q \in Node : \A k \in DOMAIN b.outbox[q] :
             \/ k \in DOMAIN n.outbox[q] /\ b.outbox[q][k] = n.outbox[q][k]
             \/ q # n.id /\ b.outbox[q][k] = msg[q]
    BY <1>1, SentToPeers
<1> HIDE DEF b
<1>5. b.log = n.log /\ b.first_log_index = n.first_log_index /\ b.snapshot = n.snapshot
      /\ b.commit_index = n.commit_index /\ b.id = n.id /\ b.role = n.role
      /\ b.current_term = n.current_term
    BY <1>4 DEF NodeOK, NodeFields
<1>6. \A m : Slice(n, m) => Slice(b, m)
    BY <1>5 DEF Slice
<1>7. OwnMail(b)
    BY <1>3, <1>4, <1>5, <1>6 DEF Ready, Mute, OwnMail
<1>8. Sound(b)
    BY <1>5, <1>7 DEF Ready, Sound, Whole
<1> QED BY <1>2, <1>4, <1>8

\* Terms, roles, votes, timers and the maps of a leader are no part of a log.
LEMMA UpdatesLogPart ==
    ASSUME NEW T, NEW n, NodeOK(n, T)
    PROVE  /\ LogPart(n, n)
           /\ \A t : LogPart(n, step_down(n, t))
           /\ LogPart(n, reset_election_timer(n))
           /\ LogPart(n, reset_heartbeat_timer(n))
           /\ LogPart(n, stop_timers(n))
           /\ LogPart(n, grant(n))
           /\ LogPart(n, initialize_leader_state(n))
           /\ \A t : LogPart(n, reset_election_timer_if_valid_term(n, t))
           /\ \A p : LogPart(n, check_and_promote_caught_up_server(n, p))
           /\ \A r : LogPart(n, [n EXCEPT !.role = r])
           /\ \A p : LogPart(n, [n EXCEPT !.current_leader = p])
           /\ \A p : LogPart(n, [n EXCEPT !.voted_for = p])
           /\ \A c : LogPart(n, [n EXCEPT !.votes_received = c])
           /\ \A c : LogPart(n, [n EXCEPT !.pre_votes_received = c])
           /\ \A f : LogPart(n, [n EXCEPT !.in_pre_vote = f])
           /\ \A c, f : LogPart(n, [n EXCEPT !.pre_votes_received = c, !.in_pre_vote = f])
           /\ \A t, v, c, f, r : LogPart(n, [n EXCEPT !.current_term = t, !.voted_for = v,
                                                      !.votes_received = c,
                                                      !.in_pre_vote = f, !.role = r])
           /\ \A f, g : LogPart(n, [n EXCEPT !.match_index = f, !.next_index = g])
           /\ \A g : LogPart(n, [n EXCEPT !.next_index = g])
<1>1. \A t : LogPart(n, step_down(n, t))
    BY DEF NodeOK, NodeFields, LogPart, step_down, revoke, reset_election_timer
<1>2. /\ LogPart(n, n)
      /\ LogPart(n, reset_election_timer(n))
      /\ LogPart(n, reset_heartbeat_timer(n))
      /\ LogPart(n, stop_timers(n))
      /\ LogPart(n, grant(n))
    BY DEF NodeOK, NodeFields, LogPart, reset_election_timer, reset_heartbeat_timer,
           stop_timers, grant
<1>3. /\ \A t : LogPart(n, reset_election_timer_if_valid_term(n, t))
      /\ \A p : LogPart(n, check_and_promote_caught_up_server(n, p))
    BY <1>2 DEF NodeOK, NodeFields, LogPart, reset_election_timer_if_valid_term,
                check_and_promote_caught_up_server
<1>4. \A f, g : LogPart(n, [n EXCEPT !.next_index = f, !.match_index = g])
    BY DEF NodeOK, NodeFields, LogPart
<1>5. LogPart(n, initialize_leader_state(n))
    BY <1>4 DEF initialize_leader_state
<1>6. /\ \A r : LogPart(n, [n EXCEPT !.role = r])
      /\ \A p : LogPart(n, [n EXCEPT !.current_leader = p])
      /\ \A p : LogPart(n, [n EXCEPT !.voted_for = p])
      /\ \A c : LogPart(n, [n EXCEPT !.votes_received = c])
      /\ \A c : LogPart(n, [n EXCEPT !.pre_votes_received = c])
      /\ \A f : LogPart(n, [n EXCEPT !.in_pre_vote = f])
    BY DEF NodeOK, NodeFields, LogPart
<1>7. /\ \A c, f : LogPart(n, [n EXCEPT !.pre_votes_received = c, !.in_pre_vote = f])
      /\ \A f, g : LogPart(n, [n EXCEPT !.match_index = f, !.next_index = g])
      /\ \A g : LogPart(n, [n EXCEPT !.next_index = g])
    BY DEF NodeOK, NodeFields, LogPart
<1>8. \A t, v, c, f, r : LogPart(n, [n EXCEPT !.current_term = t, !.voted_for = v,
                                              !.votes_received = c,
                                              !.in_pre_vote = f, !.role = r])
    BY DEF NodeOK, NodeFields, LogPart
<1> QED BY <1>1, <1>2, <1>3, <1>5, <1>6, <1>7, <1>8

\* Applying committed commands leaves the log and the role alone.
LEMMA ApplyCommittedLogPart ==
    ASSUME NEW n, NodeOK(n, Command)
    PROVE  LET b == apply_committed_entries(n)
           IN  LogPart(n, b) /\ b.role = n.role
<1> DEFINE new     == {k \in (n.last_applied + 1)..n.commit_index : has_entry(n, k)}
           entry   == [k \in new |-> get_entry(n, k).entry_type]
           changes == {k \in new : entry[k] \in ConfigurationChange}
           applied(k) == IF k \in new THEN IF k \in changes THEN None ELSE entry[k]
                         ELSE IF k \in DOMAIN n.state_machine
                         THEN n.state_machine[k] ELSE None
           upTo    == Max({Len(n.state_machine), n.commit_index})
           machine == [k \in 1..upTo |-> applied(k)]
           a       == [n EXCEPT !.last_applied = n.commit_index,
                                !.state_machine = machine]
           config  == [k \in changes |-> entry[k]]
<1>1. DOMAIN config = {}
    <2> SUFFICES ASSUME NEW k \in changes PROVE FALSE
        OBVIOUS
    <2>1. k \in Int /\ has_entry(n, k)
        BY DEF NodeOK
    <2>2. get_entry(n, k) \in LogEntry(Command)
        BY <2>1, GetEntryType
    <2>3. get_entry(n, k).entry_type \in Command \cap ConfigurationChange
        BY <2>2 DEF LogEntry
    <2> QED BY <2>3, ContextAssumption
<1>2. apply_committed_entries(n) = IF n.last_applied >= n.commit_index THEN n
                                    ELSE apply_changes(a, config)
    BY DEF apply_committed_entries
<1> HIDE DEF machine, config
<1>3. DOMAIN a = NodeFields /\ LogPart(n, a) /\ a.role = n.role
    BY DEF NodeOK, NodeFields, LogPart
<1> HIDE DEF a
<1>4. LogPart(a, apply_changes(a, config))
    BY <1>3 DEF apply_changes, NodeFields, LogPart
<1>5. apply_changes(a, config).role = a.role
    <2>1. {k \in DOMAIN config : config[k] = RemoveServer(a.id)} = {}
        BY <1>1
    <2>2. apply_changes(a, config).role =
              IF {k \in DOMAIN config : config[k] = RemoveServer(a.id)} # {}
              THEN Follower ELSE a.role
        BY <1>3 DEF apply_changes, NodeFields
    <2> QED BY <2>1, <2>2
<1>6. LogPart(n, n) /\ LogPart(n, apply_changes(a, config))
    BY <1>3, <1>4 DEF LogPart
<1> QED BY <1>2, <1>3, <1>5, <1>6

\* The commit index stays within the log.
LEMMA AdvanceCommitReady ==
    ASSUME NEW n, NodeOK(n, Command), Ready(n)
    PROVE  LET b == advance_commit_index(n)
           IN  Ready(b) /\ b.log = n.log /\ b.role = n.role
<1> DEFINE new_commit == compute_median(n.match_index, last_log_index(n),
                                        n.members, n.catching_up_servers, n.id)
           a == [n EXCEPT !.commit_index = new_commit]
<1>1. new_commit \in Nat
    <2>1. IsMap(n.match_index) /\ n.members \in NodeCollections /\ n.id \in Node
          /\ last_log_index(n) \in Nat
        BY LastLogType DEF NodeOK
    <2> QED BY <2>1, MedianType, Zenon
<1> HIDE DEF new_commit
<1>2. ASSUME has_entry(n, new_commit)
      PROVE  LET b == apply_committed_entries(a)
             IN  Ready(b) /\ b.log = n.log /\ b.role = n.role
    <2>1. new_commit <= MaxLog
        <3>1. Len(n.log) \in Nat /\ new_commit \in 1..Len(n.log)
            BY <1>1, <1>2, WholeLog DEF Ready
        <3> QED BY <3>1, NodesAssumption DEF Ready, Whole
    <2>2. NodeOK(a, Command)
        BY <1>1 DEF NodeOK, NodeFields
    <2>3. Ready(a) /\ a.log = n.log /\ a.role = n.role
        BY <2>1 DEF NodeOK, NodeFields, Ready, Whole, Mute
    <2> HIDE DEF a
    <2> DEFINE b == apply_committed_entries(a)
    <2>4. LogPart(a, b) /\ b.role = a.role
        BY <2>2, ApplyCommittedLogPart
    <2> HIDE DEF b
    <2>5. Ready(b)
        BY <2>3, <2>4, ReadyKept
    <2> QED BY <2>3, <2>4, <2>5 DEF LogPart, b
<1> HIDE DEF a
<1>3. \/ advance_commit_index(n) = n
      \/ has_entry(n, new_commit) /\ advance_commit_index(n) = apply_committed_entries(a)
    <2> DEFINE moves == /\ new_commit > n.commit_index
                        /\ has_entry(n, new_commit)
                        /\ get_entry(n, new_commit).term = n.current_term
    <2>1. advance_commit_index(n) = IF moves THEN apply_committed_entries(a) ELSE n
        BY DEF advance_commit_index, new_commit, a
    <2> QED BY <2>1
<1> QED BY <1>2, <1>3

-----------------------------------------------------------------------------
(* Logs                                                                    *)

\* log is old up to where the entries of the AppendEntries m follow.
Spliced(old, m, log) ==
    /\ m.prev_log_index \in 0..Len(old)
    /\ m.prev_log_index # 0 => old[m.prev_log_index].term = m.prev_log_term
    /\ \A k \in DOMAIN log :
           \/ k <= m.prev_log_index /\ log[k] = old[k]
           \/ /\ k > m.prev_log_index
              /\ k - m.prev_log_index \in DOMAIN m.entries
              /\ log[k] = m.entries[k - m.prev_log_index]

\* A log that is cut off keeps what is before the cut.
LEMMA TruncatedLog ==
    ASSUME NEW T, NEW n, NodeOK(n, T), Whole(n), NEW k \in Nat, k < Len(n.log)
    PROVE  LET log == truncate_after(n, k).log
           IN  log \in Seq(LogEntry(T)) /\ Len(log) = k /\ \A h \in 1..k : log[h] = n.log[h]
<1> DEFINE log == truncate_after(n, k).log
<1>1. n.log \in Seq(LogEntry(T)) /\ Len(n.log) \in Nat /\ n.first_log_index = 1
    BY DEF NodeOK, Whole
<1>2. log = IF k < 1 THEN <<>> ELSE SubSeq(n.log, 1, Min({Len(n.log), k}))
    <2>1. log = IF k < n.first_log_index THEN <<>>
                ELSE SubSeq(n.log, 1, Min({Len(n.log), k - n.first_log_index + 1}))
        BY DEF truncate_after, NodeOK, NodeFields
    <2>2. k - 1 + 1 = k
        OBVIOUS
    <2> HIDE DEF log
    <2> QED BY <1>1, <2>1, <2>2
<1> HIDE DEF log
<1>3. Min({Len(n.log), k}) = k
    <2>1. Len(n.log) \in Int /\ k \in Int
        BY <1>1
    <2>2. Min({Len(n.log), k}) = IF Len(n.log) <= k THEN Len(n.log) ELSE k
        BY <2>1, MinOfTwo, Zenon
    <2> QED BY <1>1, <2>2
<1>4. CASE k < 1
    <2>1. log = <<>> /\ k = 0
        BY <1>2, <1>4
    <2> QED BY <2>1 DEF log
<1>5. CASE k >= 1
    <2>1. log = SubSeq(n.log, 1, k)
        <3>1. ~(k < 1)
            BY <1>5
        <3> QED BY <1>2, <1>3, <3>1, Zenon
    <2>2. k \in 0..Len(n.log)
        BY <1>1
    <2>3. LET t == SubSeq(n.log, 1, k)
          IN  t \in Seq(LogEntry(T)) /\ Len(t) = k /\ \A h \in 1..k : t[h] = n.log[h]
        BY <1>1, <2>2, PrefixProperties, Zenon
    <2> QED BY <2>1, <2>3 DEF log
<1> QED BY <1>4, <1>5

\* Whole logs that agree with a leader's up to prev_log_index take over the
\* entries that follow there.
LEMMA ReplaceSuffixSplice ==
    ASSUME NEW T, NEW n, NodeOK(n, T), Ready(n), NEW m \in AppendEntriesMsg(T),
           check_log_consistency(n, m.prev_log_index, m.prev_log_term),
           m.entries # <<>> => m.prev_log_index + Len(m.entries) <= MaxLog
    PROVE  LET b == replace_suffix(n, m.prev_log_index, m.entries)
           IN  /\ Ready(b)
               /\ b.log = n.log \/ Spliced(n.log, m, b.log)
<1> DEFINE prev == m.prev_log_index
           es == m.entries
           t == IF last_log_index(n) > prev THEN truncate_after(n, prev) ELSE n
           b == append_entries(t, es)
<1>1. prev \in Nat /\ es \in Seq(LogEntry(T))
    BY DEF AppendEntriesMsg
<1>2. /\ Whole(n) /\ last_log_index(n) = Len(n.log) /\ Len(n.log) \in Nat
      /\ n.log \in Seq(LogEntry(T)) /\ DOMAIN n.log = 1..Len(n.log)
    BY WholeLog DEF Ready, NodeOK
<1>3. prev # 0 => prev \in DOMAIN n.log /\ n.log[prev].term = m.prev_log_term
    <2>1. prev \in Int /\ n.snapshot = None
        BY <1>1 DEF Ready, Whole
    <2> QED BY <1>2, <2>1, WholeLog DEF check_log_consistency
<1>4. NodeOK(t, T)
    BY <1>1, TruncateAfterType
<1>5. Len(t.log) = prev /\ \A k \in 1..prev : t.log[k] = n.log[k]
    <2>1. CASE Len(n.log) > prev
        <3>1. t = truncate_after(n, prev)
            BY <1>2, <2>1
        <3> HIDE DEF t, prev
        <3> QED BY <1>1, <1>2, <2>1, <3>1, TruncatedLog
    <2>2. CASE ~(Len(n.log) > prev)
        <3>1. t = n
            BY <1>2, <2>2
        <3>2. Len(n.log) = prev
            BY <1>1, <1>2, <1>3, <2>2
        <3> QED BY <3>1, <3>2
    <2> QED BY <2>1, <2>2
<1>6. /\ t.first_log_index = n.first_log_index /\ t.snapshot = n.snapshot
      /\ t.commit_index = n.commit_index /\ t.outbox = n.outbox
    BY DEF truncate_after, NodeOK, NodeFields
<1> HIDE DEF t
<1>7. prev <= Len(n.log) /\ prev \in 0..Len(n.log)
    BY <1>1, <1>2, <1>3
<1>8. LogCapacity \in Nat /\ MaxLog \in Nat /\ Len(es) \in Nat /\ Len(t.log) <= LogCapacity
    BY <1>1, <1>2, <1>5, <1>7, ContextAssumption, NodesAssumption DEF Whole
<1> DEFINE log == b.log
<1>9. /\ log \in Seq(LogEntry(T))
      /\ Len(log) = IF Len(t.log) + Len(es) <= LogCapacity
                    THEN Len(t.log) + Len(es) ELSE LogCapacity
      /\ \A k \in DOMAIN log : IF k <= Len(t.log) THEN log[k] = t.log[k]
                               ELSE /\ k - Len(t.log) \in DOMAIN es
                                    /\ log[k] = es[k - Len(t.log)]
    BY <1>1, <1>4, <1>8, AppendedLog
<1>10. /\ b.first_log_index = t.first_log_index /\ b.snapshot = t.snapshot
       /\ b.commit_index = t.commit_index /\ b.outbox = t.outbox
    BY <1>4 DEF append_entries, NodeOK, NodeFields
<1> HIDE DEF b
<1>11. CASE es = <<>>
    <2>1. replace_suffix(n, prev, es) = n
        BY <1>11 DEF replace_suffix
    <2> QED BY <2>1
<1>12. CASE es # <<>>
    <2>1. replace_suffix(n, prev, es) = b
        BY <1>12 DEF replace_suffix, b, t
    <2>2. Len(log) <= MaxLog /\ Len(log) <= LogCapacity
        BY <1>1, <1>5, <1>8, <1>9, <1>12
    <2>3. Ready(b)
        BY <1>2, <1>6, <1>10, <2>2 DEF Ready, Whole, Mute
    <2>4. \A k \in DOMAIN log :
              \/ k <= prev /\ log[k] = n.log[k]
              \/ k > prev /\ k - prev \in DOMAIN es /\ log[k] = es[k - prev]
        <3> SUFFICES ASSUME NEW k \in DOMAIN log
                     PROVE  \/ k <= prev /\ log[k] = n.log[k]
                            \/ k > prev /\ k - prev \in DOMAIN es /\ log[k] = es[k - prev]
            OBVIOUS
        <3>1. k \in Nat /\ k >= 1
            BY <1>9
        <3>2. IF k <= prev THEN log[k] = t.log[k]
              ELSE k - prev \in DOMAIN es /\ log[k] = es[k - prev]
            BY <1>5, <1>9
        <3>3. CASE k <= prev
            <4>1. k \in 1..prev
                BY <1>1, <3>1, <3>3
            <4> QED BY <1>5, <3>2, <3>3, <4>1
        <3>4. CASE ~(k <= prev)
            <4>1. k > prev
                BY <1>1, <3>1, <3>4
            <4> QED BY <3>2, <3>4, <4>1
        <3> QED BY <3>3, <3>4
    <2>5. Spliced(n.log, m, log)
        BY <1>3, <1>7, <2>4 DEF Spliced
    <2> QED BY <2>1, <2>3, <2>5
<1> QED BY <1>11, <1>12

\* Appending a leader's entries.
LEMMA TryAppendSplice ==
    ASSUME NEW n, NodeOK(n, Command), Ready(n), NEW m \in AppendEntriesMsg(Command),
           check_log_consistency(n, m.prev_log_index, m.prev_log_term),
           m.entries # <<>> => m.prev_log_index + Len(m.entries) <= MaxLog
    PROVE  LET b == try_append_entries(n, m)
           IN  /\ Ready(b)
               /\ b.log = n.log \/ Spliced(n.log, m, b.log)
<1> DEFINE a == replace_suffix(n, m.prev_log_index, m.entries)
           c == Min({m.leader_commit, last_log_index(a)})
           d == [a EXCEPT !.commit_index = c]
<1>1. m.prev_log_index \in Nat /\ m.entries \in Seq(LogEntry(Command)) /\ m.leader_commit \in Nat
    BY DEF AppendEntriesMsg
<1>2. NodeOK(a, Command)
    BY <1>1, ReplaceSuffixType, Zenon
<1>3. Ready(a) /\ (a.log = n.log \/ Spliced(n.log, m, a.log))
    BY ReplaceSuffixSplice
<1>4. try_append_entries(n, m) = IF m.leader_commit > a.commit_index
                                 THEN apply_committed_entries(d) ELSE a
    BY DEF try_append_entries
<1> HIDE DEF a
<1>5. c \in Nat /\ c <= MaxLog
    <2>1. last_log_index(a) = Len(a.log) /\ Len(a.log) \in Nat /\ Len(a.log) <= MaxLog
        BY <1>2, <1>3, WholeLog DEF Ready, Whole
    <2>2. m.leader_commit \in Int /\ last_log_index(a) \in Int
        BY <1>1, <2>1
    <2>3. c = IF m.leader_commit <= last_log_index(a) THEN m.leader_commit
              ELSE last_log_index(a)
        BY <2>2, MinOfTwo, Zenon
    <2> HIDE DEF c
    <2> QED BY <1>1, <2>1, <2>3, NodesAssumption
<1> HIDE DEF c
<1>6. NodeOK(d, Command) /\ d.log = a.log /\ Ready(d)
    BY <1>2, <1>3, <1>5 DEF NodeOK, NodeFields, Ready, Whole, Mute
<1> HIDE DEF d
<1> DEFINE b == apply_committed_entries(d)
<1>7. LogPart(d, b)
    BY <1>6, ApplyCommittedLogPart
<1> HIDE DEF b
<1>8. Ready(b) /\ b.log = a.log
    BY <1>6, <1>7, ReadyKept DEF LogPart
<1>9. try_append_entries(n, m) \in {a, b}
    BY <1>4 DEF b
<1> QED BY <1>3, <1>8, <1>9

\* A node that receives AppendEntries.
LEMMA AppendEntriesSplice ==
    ASSUME NEW n, NodeOK(n, Command), Ready(n), NEW from \in Node,
           NEW m \in AppendEntriesMsg(Command),
           m.entries # <<>> => m.prev_log_index + Len(m.entries) <= MaxLog
    PROVE  LET b == handle_append_entries(n, from, m)
           IN  /\ Ready(b)
               /\ \/ b.log = n.log
                  \/ m.term = n.current_term /\ Spliced(n.log, m, b.log)
<1> DEFINE r == reset_election_timer_if_valid_term(n, m.term)
           h == [r EXCEPT !.current_leader = from]
           a == IF m.term = h.current_term /\ h.role = Candidate
                THEN [h EXCEPT !.role = Follower] ELSE h
           success == /\ m.term >= h.current_term
                      /\ check_log_consistency(a, m.prev_log_index, m.prev_log_term)
           b == IF success THEN try_append_entries(a, m) ELSE a
           answer == [type |-> "AppendEntriesResponse", term |-> b.current_term,
                      success |-> success, match_index |-> last_log_index(b)]
<1>1. m.term \in Nat /\ n.current_term \in Nat
    BY DEF AppendEntriesMsg, NodeOK
<1>2. Ready(step_down(n, m.term)) /\ step_down(n, m.term).log = n.log
    BY UpdatesLogPart, ReadyKept DEF LogPart
<1>3. NodeOK(r, Command) /\ LogPart(n, r) /\ r.current_term = n.current_term
    <2>1. NodeOK(r, Command)
        BY <1>1, ResetIfValidType, Zenon
    <2>2. r.current_term = n.current_term
        BY DEF reset_election_timer_if_valid_term, reset_election_timer, NodeOK, NodeFields
    <2> QED BY <2>1, <2>2, UpdatesLogPart
<1> HIDE DEF r
<1>4. NodeOK(h, Command) /\ LogPart(r, h) /\ h.current_term = r.current_term
    BY <1>3 DEF NodeOK, NodeFields, Optional, LogPart
<1> HIDE DEF h
<1>5. NodeOK(a, Command) /\ LogPart(h, a)
    BY <1>4 DEF NodeOK, NodeFields, LogPart
<1> HIDE DEF a
<1>6. Ready(a) /\ a.log = n.log
    <2>1. LogPart(n, a)
        BY <1>3, <1>4, <1>5 DEF LogPart
    <2> QED BY <2>1, ReadyKept DEF LogPart
<1>7. success => /\ Ready(try_append_entries(a, m))
                 /\ \/ try_append_entries(a, m).log = a.log
                    \/ Spliced(a.log, m, try_append_entries(a, m).log)
    BY <1>5, <1>6, TryAppendSplice
<1>8. NodeOK(b, Command)
    <2>1. Command \in EntryTypes
        BY DEF EntryTypes, EntryType
    <2>2. NodeOK(try_append_entries(a, m), Command)
        BY <1>5, <2>1, TryAppendType, Zenon
    <2> QED BY <1>5, <2>2
<1>9. success \in BOOLEAN /\ (success => m.term >= n.current_term)
    BY <1>3, <1>4
<1>10. /\ Ready(b)
       /\ \/ b.log = n.log
          \/ success /\ Spliced(n.log, m, b.log)
    BY <1>6, <1>7
<1> HIDE DEF b, success
<1>11. b.current_term \in Nat /\ last_log_index(b) \in Nat
    BY <1>8, LastLogType DEF NodeOK
<1>12. answer \in RaftMsg(Command) /\ answer.type \notin {"AppendEntries", "InstallSnapshot"}
    BY <1>9, <1>11 DEF RaftMsg
<1> HIDE DEF answer
<1>13. Ready(send(b, from, answer)) /\ send(b, from, answer).log = b.log
    BY <1>8, <1>10, <1>12, SendReady
<1>14. handle_append_entries(n, from, m) =
           IF m.term > n.current_term THEN step_down(n, m.term) ELSE send(b, from, answer)
    BY DEF handle_append_entries, replication_handle_append_entries, answer, b, success,
           a, h, r
<1>15. CASE m.term > n.current_term
    BY <1>2, <1>14, <1>15
<1>16. CASE ~(m.term > n.current_term)
    <2>1. success => m.term = n.current_term
        BY <1>1, <1>9, <1>16
    <2> QED BY <1>10, <1>13, <1>14, <1>16, <2>1
<1> QED BY <1>15, <1>16

-----------------------------------------------------------------------------
(* The other handlers                                                      *)

\* An answer to AppendEntries may advance the commit index of a leader, but
\* not to where a snapshot is due.
LEMMA AppendEntriesResponseReady ==
    ASSUME NEW n, NodeOK(n, Command), Ready(n), NEW from \in Node,
           NEW m \in AppendEntriesResponseMsg, MaxLog < SnapshotThreshold
    PROVE  LET b == handle_append_entries_response(n, from, m)
           IN  Ready(b) /\ b.log = n.log
<1>1. m.term \in Nat /\ m.match_index \in Nat /\ m.match_index + 1 \in Nat
      /\ m.success \in BOOLEAN
    BY DEF AppendEntriesResponseMsg
<1>2. Ready(step_down(n, m.term)) /\ step_down(n, m.term).log = n.log
    BY UpdatesLogPart, ReadyKept DEF LogPart
<1> DEFINE next == get(n.next_index, from, 1)
           s == [n EXCEPT !.match_index = insert(@, from, m.match_index),
                          !.next_index = insert(@, from, m.match_index + 1)]
           p == check_and_promote_caught_up_server(s, from)
           q == advance_commit_index(p)
           o == [n EXCEPT !.next_index = insert(@, from, next - 1)]
           a == replication_handle_append_entries_response(n, from, m)
<1>3. NodeOK(s, Command) /\ LogPart(n, s)
    BY <1>1, SetIndicesType, UpdatesLogPart
<1> HIDE DEF s
<1>4. NodeOK(p, Command) /\ LogPart(s, p)
    BY <1>3, PromoteType, UpdatesLogPart
<1> HIDE DEF p
<1>5. Ready(p) /\ p.log = n.log
    BY <1>3, <1>4, ReadyKept DEF LogPart
<1>6. Ready(q) /\ q.log = n.log
    BY <1>4, <1>5, AdvanceCommitReady
<1>7. NodeOK(q, Command)
    <2>1. Command \in EntryTypes
        BY DEF EntryTypes, EntryType
    <2> QED BY <1>4, <2>1, AdvanceCommitType, Zenon
<1> HIDE DEF q
<1>8. Ready(o) /\ o.log = n.log
    <2>1. LogPart(n, o)
        <3> HIDE DEF next
        <3> QED BY DEF NodeOK, NodeFields, LogPart
    <2> HIDE DEF o
    <2> QED BY <2>1, ReadyKept DEF LogPart
<1>9. next \in Nat
    BY DEF NodeOK, IsMap, get
<1>10. next > 1 => NodeOK(o, Command)
    <2> HIDE DEF next
    <2>1. ASSUME next > 1 PROVE NodeOK(o, Command)
        <3>1. next - 1 \in Nat /\ m.match_index \in Nat
            BY <1>1, <1>9, <2>1
        <3> QED BY <3>1, SetIndicesType, Zenon
    <2> QED BY <2>1
<1> HIDE DEF o, next
<1>11. a = q \/ a = n \/ (a = o /\ next > 1)
    <2>1. a = CASE m.success /\ m.match_index > get(n.match_index, from, 0) -> q
                [] ~m.success /\ next > 1 -> o
                [] OTHER -> n
        BY DEF replication_handle_append_entries_response, q, p, s, o, next
    <2> HIDE DEF a
    <2>2. CASE m.success /\ m.match_index > get(n.match_index, from, 0)
        BY <2>1, <2>2
    <2>3. CASE ~m.success /\ next > 1
        BY <2>1, <2>3
    <2>4. CASE ~(m.success /\ m.match_index > get(n.match_index, from, 0))
               /\ ~(~m.success /\ next > 1)
        BY <2>1, <2>4
    <2> QED BY <2>2, <2>3, <2>4
<1> HIDE DEF a
<1>12. NodeOK(a, Command) /\ Ready(a) /\ a.log = n.log
    BY <1>6, <1>7, <1>8, <1>10, <1>11
<1>13. ~should_create(a)
    <2>1. a.commit_index \in Nat /\ a.commit_index <= MaxLog
        BY <1>12 DEF NodeOK, Ready, Whole
    <2>2. MaxLog \in Nat /\ SnapshotThreshold \in Nat
        BY NodesAssumption, ContextAssumption
    <2> QED BY <2>1, <2>2 DEF should_create
<1>14. Ready(grant(a)) /\ grant(a).log = n.log
    BY <1>12, UpdatesLogPart, ReadyKept DEF LogPart
<1>15. handle_append_entries_response(n, from, m) \in {step_down(n, m.term), n, a, grant(a)}
    BY <1>13 DEF handle_append_entries_response, a
<1> QED BY <1>2, <1>12, <1>14, <1>15

\* Without a snapshot an answer to InstallSnapshot is about nothing.
LEMMA InstallSnapshotResponseReady ==
    ASSUME NEW n, NodeOK(n, Command), Ready(n), NEW from \in Node, NEW m
    PROVE  LET b == handle_install_snapshot_response(n, from, m)
           IN  Ready(b) /\ b.log = n.log
<1>1. Ready(step_down(n, m.term)) /\ step_down(n, m.term).log = n.log
    BY UpdatesLogPart, ReadyKept DEF LogPart
<1>2. handle_install_snapshot_response(n, from, m) \in {step_down(n, m.term), n}
    BY DEF handle_install_snapshot_response, Ready, Whole
<1> QED BY <1>1, <1>2

\* A node that becomes leader sends its own log.
LEMMA BecomeLeaderSound ==
    ASSUME NEW n, NodeOK(n, Command), Ready(n)
    PROVE  LET b == become_leader(n)
           IN  Sound(b) /\ b.log = n.log
<1> DEFINE a == [n EXCEPT !.role = Leader]
           c == initialize_leader_state(a)
           d == stop_timers(c)
           e == reset_heartbeat_timer(d)
           b == send_append_entries_to_followers(e)
<1>1. NodeOK(a, Command) /\ LogPart(n, a) /\ a.role = Leader
    BY DEF NodeOK, NodeFields, LogPart
<1> HIDE DEF a
<1>2. NodeOK(c, Command) /\ LogPart(a, c)
    BY <1>1, InitializeLeaderStateType, UpdatesLogPart
<1>3. c.role = Leader
    BY <1>1 DEF initialize_leader_state, NodeOK, NodeFields
<1> HIDE DEF c
<1>4. NodeOK(d, Command) /\ LogPart(c, d)
    BY <1>2, TimerType, UpdatesLogPart
<1>5. d.role = Leader
    BY <1>2, <1>3 DEF stop_timers, NodeOK, NodeFields
<1> HIDE DEF d
<1>6. NodeOK(e, Command) /\ LogPart(d, e)
    BY <1>4, TimerType, UpdatesLogPart
<1>7. e.role = Leader
    BY <1>4, <1>5 DEF reset_heartbeat_timer, NodeOK, NodeFields
<1> HIDE DEF e
<1>8. Ready(e) /\ e.log = n.log
    <2>1. LogPart(n, e)
        BY <1>1, <1>2, <1>4, <1>6 DEF LogPart
    <2> QED BY <2>1, ReadyKept DEF LogPart
<1>9. Sound(b) /\ b = [e EXCEPT !.outbox = b.outbox]
    BY <1>6, <1>7, <1>8, ReplicateSound
<1>10. become_leader(n) = b
    BY DEF become_leader, a, c, d, e
<1> HIDE DEF b
<1>11. b.log = e.log
    BY <1>6, <1>9 DEF NodeOK, NodeFields
<1> QED BY <1>8, <1>9, <1>10, <1>11

\* A node that starts a pre-vote keeps its log to itself.
LEMMA StartPreVoteReady ==
    ASSUME NEW n, NodeOK(n, Command), Ready(n)
    PROVE  Ready(start_pre_vote(n)) /\ start_pre_vote(n).log = n.log
<1> DEFINE a == [n EXCEPT !.pre_votes_received = push(new_collection, n.id),
                          !.in_pre_vote = TRUE]
           r == reset_election_timer(a)
           m == VoteRequestMsg("PreVoteRequest", n.current_term,
                               last_log_index(n), last_log_term(n))
<1>1. n.id \in Node /\ n.current_term \in Nat
    BY DEF NodeOK
<1>2. NodeOK(a, Command) /\ LogPart(n, a)
    BY <1>1, PushType DEF NodeOK, NodeFields, LogPart
<1> HIDE DEF a
<1>3. NodeOK(r, Command) /\ LogPart(a, r)
    BY <1>2, TimerType, UpdatesLogPart
<1>4. Ready(r) /\ r.log = n.log
    BY <1>2, <1>3, ReadyKept DEF LogPart
<1>5. m \in RaftMsg(Command) /\ m.type \notin {"AppendEntries", "InstallSnapshot"}
    BY <1>1, VoteRequestType DEF VoteRequestMsg
<1> HIDE DEF r, m
<1>6. Ready(broadcast(r, m)) /\ broadcast(r, m).log = r.log
    BY <1>3, <1>4, <1>5, BroadcastReady
<1>7. start_pre_vote(n) = broadcast(r, m)
    BY DEF start_pre_vote, r, a, m
<1> QED BY <1>4, <1>6, <1>7

\* A node that starts an election, and may win it at once, keeps its log.
LEMMA StartElectionSound ==
    ASSUME NEW n, NodeOK(n, Command), Ready(n)
    PROVE  Sound(start_election(n)) /\ start_election(n).log = n.log
<1> DEFINE term == n.current_term + 1
           a == [n EXCEPT !.current_term = term, !.voted_for = n.id,
                          !.votes_received = push(new_collection, n.id),
                          !.in_pre_vote = FALSE, !.role = Candidate]
           r == reset_election_timer(a)
           m == VoteRequestMsg("RequestVote", term, last_log_index(n), last_log_term(n))
           b == broadcast(r, m)
<1>1. n.id \in Node /\ term \in Nat
    BY DEF NodeOK
<1> HIDE DEF term
<1>2. NodeOK(a, Command) /\ LogPart(n, a)
    BY <1>1, PushType DEF NodeOK, NodeFields, LogPart, Optional
<1> HIDE DEF a
<1>3. NodeOK(r, Command) /\ LogPart(a, r)
    BY <1>2, TimerType, UpdatesLogPart
<1>4. Ready(r) /\ r.log = n.log
    BY <1>2, <1>3, ReadyKept DEF LogPart
<1>5. m \in RaftMsg(Command) /\ m.type \notin {"AppendEntries", "InstallSnapshot"}
    BY <1>1, VoteRequestType DEF VoteRequestMsg
<1>6. start_election(n) = IF size(n.members) <= 1 THEN become_leader(b) ELSE b
    BY DEF start_election, r, a, m, term
<1> HIDE DEF r, m
<1>7. NodeOK(b, Command)
    BY <1>3, <1>5, BroadcastType, Zenon
<1>8. Ready(b) /\ b.log = r.log
    BY <1>3, <1>4, <1>5, BroadcastReady
<1> HIDE DEF b
<1>9. Sound(become_leader(b)) /\ become_leader(b).log = b.log
    BY <1>7, <1>8, BecomeLeaderSound
<1> QED BY <1>4, <1>6, <1>8, <1>9, ReadyIsSound

\* An answer to a request for a pre-vote or a vote.
LEMMA VoteRequestReady ==
    ASSUME NEW n, NodeOK(n, Command), Ready(n), NEW from \in Node, NEW m, m.term \in Nat
    PROVE  /\ Ready(handle_pre_vote_request(n, from, m))
           /\ handle_pre_vote_request(n, from, m).log = n.log
           /\ Ready(handle_vote_request(n, from, m))
           /\ handle_vote_request(n, from, m).log = n.log
<1>1. ASSUME NEW b, NodeOK(b, Command), Ready(b), NEW g \in BOOLEAN,
             NEW type \in {"PreVoteResponse", "RequestVoteResponse"}
      PROVE  LET c == send(b, from, VoteResponseMsg(type, b.current_term, g))
             IN  Ready(c) /\ c.log = b.log
    <2> DEFINE answer == VoteResponseMsg(type, b.current_term, g)
    <2>1. b.current_term \in Nat
        BY <1>1 DEF NodeOK
    <2>2. answer \in RaftMsg(Command) /\ answer.type \notin {"AppendEntries", "InstallSnapshot"}
        BY <2>1 DEF VoteResponseMsg, RaftMsg
    <2> HIDE DEF answer
    <2>3. Ready(send(b, from, answer)) /\ send(b, from, answer).log = b.log
        BY <1>1, <2>2, SendReady
    <2> QED BY <2>3 DEF answer
<1> DEFINE a == IF m.term > n.current_term THEN step_down(n, m.term) ELSE n
           granted == should_grant_vote(a, from, m)
           c == [a EXCEPT !.voted_for = from]
           b == IF granted THEN reset_election_timer(c) ELSE a
           pre == m.term >= n.current_term /\ is_log_up_to_date(n, m)
<1>2. Ready(handle_pre_vote_request(n, from, m))
      /\ handle_pre_vote_request(n, from, m).log = n.log
    <2>1. pre \in BOOLEAN
        OBVIOUS
    <2>2. handle_pre_vote_request(n, from, m) =
              send(n, from, VoteResponseMsg("PreVoteResponse", n.current_term, pre))
        BY DEF handle_pre_vote_request
    <2> HIDE DEF pre
    <2> QED BY <1>1, <2>1, <2>2
<1>3. NodeOK(a, Command) /\ LogPart(n, a)
    <2>1. NodeOK(step_down(n, m.term), Command)
        BY StepDownType, Zenon
    <2>2. LogPart(n, n) /\ LogPart(n, step_down(n, m.term))
        BY UpdatesLogPart, Zenon
    <2> QED BY <2>1, <2>2
<1>4. granted \in BOOLEAN
    BY DEF should_grant_vote
<1>5. handle_vote_request(n, from, m) =
          send(b, from, VoteResponseMsg("RequestVoteResponse", b.current_term, granted))
    BY DEF handle_vote_request
<1> HIDE DEF a, granted
<1>6. NodeOK(c, Command) /\ LogPart(a, c)
    BY <1>3 DEF NodeOK, NodeFields, Optional, LogPart
<1> HIDE DEF c
<1>7. NodeOK(b, Command) /\ LogPart(n, b)
    <2>1. NodeOK(reset_election_timer(c), Command) /\ LogPart(c, reset_election_timer(c))
        BY <1>6, TimerType, UpdatesLogPart, Zenon
    <2>2. LogPart(n, reset_election_timer(c))
        BY <1>3, <1>6, <2>1 DEF LogPart
    <2> QED BY <1>3, <2>1, <2>2
<1> HIDE DEF b
<1>8. Ready(b) /\ b.log = n.log
    BY <1>7, ReadyKept DEF LogPart
<1> QED BY <1>1, <1>2, <1>4, <1>5, <1>7, <1>8

\* A pre-vote may start an election, a vote may decide one.
LEMMA VoteResponseSound ==
    ASSUME NEW n, NodeOK(n, Command), Ready(n), NEW from \in Node, NEW m
    PROVE  /\ Sound(handle_pre_vote_response(n, from, m))
           /\ handle_pre_vote_response(n, from, m).log = n.log
           /\ Sound(handle_vote_response(n, from, m))
           /\ handle_vote_response(n, from, m).log = n.log
<1> DEFINE a == [n EXCEPT !.pre_votes_received = push(@, from)]
           b == [a EXCEPT !.in_pre_vote = FALSE]
           c == [n EXCEPT !.votes_received = push(@, from)]
<1>1. NodeOK(a, Command) /\ NodeOK(b, Command) /\ NodeOK(c, Command)
    BY PushType DEF NodeOK, NodeFields
<1>2. LogPart(n, a) /\ LogPart(n, b) /\ LogPart(n, c)
    BY DEF LogPart, NodeOK, NodeFields
<1>3. handle_pre_vote_response(n, from, m) \in {n, a, start_election(b)}
    BY DEF handle_pre_vote_response
<1>4. handle_vote_response(n, from, m) \in {step_down(n, m.term), n, c, become_leader(c)}
    BY DEF handle_vote_response
<1> HIDE DEF a, b, c
<1>5. Ready(a) /\ Ready(b) /\ Ready(c) /\ a.log = n.log /\ b.log = n.log /\ c.log = n.log
    BY <1>2, ReadyKept DEF LogPart
<1>6. Ready(step_down(n, m.term)) /\ step_down(n, m.term).log = n.log
    BY UpdatesLogPart, ReadyKept DEF LogPart
<1>7. Sound(start_election(b)) /\ start_election(b).log = n.log
    BY <1>1, <1>5, StartElectionSound
<1>8. Sound(become_leader(c)) /\ become_leader(c).log = n.log
    BY <1>1, <1>5, BecomeLeaderSound
<1>9. Sound(n) /\ Sound(a) /\ Sound(c) /\ Sound(step_down(n, m.term))
    BY <1>5, <1>6, ReadyIsSound
<1>10. Sound(handle_pre_vote_response(n, from, m))
       /\ handle_pre_vote_response(n, from, m).log = n.log
    BY <1>3, <1>5, <1>7, <1>9
<1>11. Sound(handle_vote_response(n, from, m))
       /\ handle_vote_response(n, from, m).log = n.log
    BY <1>4, <1>5, <1>6, <1>8, <1>9
<1> QED BY <1>10, <1>11

\* The timers leave the log as it is.
LEMMA TimersSound ==
    ASSUME NEW n, NodeOK(n, Command), Ready(n)
    PROVE  /\ Sound(handle_election_timer(n))
           /\ handle_election_timer(n).log = n.log
           /\ Sound(handle_heartbeat_timer(n))
           /\ handle_heartbeat_timer(n).log = n.log
<1> DEFINE a == start_pre_vote(n)
           c == send_append_entries_to_followers(n)
           d == reset_heartbeat_timer(c)
<1>1. Sound(n)
    BY ReadyIsSound
<1>2. NodeOK(a, Command) /\ Ready(a) /\ a.log = n.log
    BY StartPreVoteType, StartPreVoteReady, Zenon
<1>3. handle_election_timer(n) \in {n, a, start_election(a)}
    BY DEF handle_election_timer
<1> HIDE DEF a
<1>4. Sound(a) /\ Sound(start_election(a)) /\ start_election(a).log = n.log
    BY <1>2, ReadyIsSound, StartElectionSound
<1>5. handle_heartbeat_timer(n) = IF n.role = Leader THEN d ELSE n
    BY DEF handle_heartbeat_timer, send_heartbeats
<1>6. ASSUME n.role = Leader PROVE Sound(d) /\ d.log = n.log
    <2>1. NodeOK(c, Command)
        BY SendAppendEntriesType, Zenon
    <2>2. Sound(c) /\ c = [n EXCEPT !.outbox = c.outbox]
        BY <1>6, ReplicateSound
    <2> HIDE DEF c
    <2>3. c.log = n.log
        BY <2>2 DEF NodeOK, NodeFields
    <2>4. LogPart(c, d) /\ d.id = c.id /\ d.role = c.role /\ d.current_term = c.current_term
        BY <2>1 DEF LogPart, NodeOK, NodeFields, reset_heartbeat_timer
    <2> HIDE DEF d
    <2> QED BY <2>2, <2>3, <2>4 DEF LogPart, Sound, Whole, OwnMail, Slice
<1> HIDE DEF d
<1>7. Sound(handle_election_timer(n)) /\ handle_election_timer(n).log = n.log
    BY <1>1, <1>2, <1>3, <1>4
<1>8. Sound(handle_heartbeat_timer(n)) /\ handle_heartbeat_timer(n).log = n.log
    BY <1>1, <1>5, <1>6
<1> QED BY <1>7, <1>8

\* log is old with the entry e after it.
Appended(old, e, log) ==
    /\ Len(log) = Len(old) + 1
    /\ \A k \in 1..Len(old) : log[k] = old[k]
    /\ log[Len(old) + 1] = e

\* A leader appends a command to its log, unless the log is full.
LEMMA SubmitSound ==
    ASSUME NEW n, NodeOK(n, Command), Ready(n), n.role = Leader, Len(n.log) < MaxLog,
           NEW c \in Command
    PROVE  LET b == submit_client_command(n, c)
           IN  /\ Sound(b)
               /\ b.role = Leader
               /\ b.current_term = n.current_term
               /\ \/ b.log = n.log
                  \/ Appended(n.log, [term |-> n.current_term, entry_type |-> c], b.log)
<1> DEFINE e == [term |-> n.current_term, entry_type |-> c]
           es == <<e>>
           a == append_entries(n, es)
           d == IF size(a.members) <= 1 THEN advance_commit_index(a) ELSE a
           b == send_append_entries_to_followers(d)
<1>1. e \in LogEntry(Command)
    BY DEF NodeOK, LogEntry
<1>2. submit_client_command(n, c) = b
    BY DEF submit_client_command, submit_entry
<1> HIDE DEF e
<1>3. es \in Seq(LogEntry(Command)) /\ Len(es) = 1 /\ es[1] = e
    BY <1>1
<1> HIDE DEF es
<1>4. NodeOK(a, Command)
    BY <1>3, AppendEntriesType, Zenon
<1>5. /\ n.log \in Seq(LogEntry(Command)) /\ Len(n.log) \in Nat
      /\ Len(n.log) <= LogCapacity /\ LogCapacity \in Nat /\ MaxLog \in Nat
    BY ContextAssumption, NodesAssumption DEF NodeOK, Ready, Whole
<1>6. /\ a.log \in Seq(LogEntry(Command))
      /\ Len(a.log) = IF Len(n.log) + 1 <= LogCapacity THEN Len(n.log) + 1 ELSE LogCapacity
      /\ \A k \in DOMAIN a.log :
             IF k <= Len(n.log) THEN a.log[k] = n.log[k]
             ELSE /\ k - Len(n.log) \in DOMAIN es
                  /\ a.log[k] = es[k - Len(n.log)]
    <2>1. LET log == append_entries(n, es).log
          IN  /\ log \in Seq(LogEntry(Command))
              /\ Len(log) = IF Len(n.log) + Len(es) <= LogCapacity
                            THEN Len(n.log) + Len(es) ELSE LogCapacity
              /\ \A k \in DOMAIN log :
                     IF k <= Len(n.log) THEN log[k] = n.log[k]
                     ELSE /\ k - Len(n.log) \in DOMAIN es
                          /\ log[k] = es[k - Len(n.log)]
        BY <1>3, <1>5, AppendedLog, Zenon
    <2> QED BY <1>3, <2>1, Zenon
<1>7. a.log = n.log \/ Appended(n.log, e, a.log)
    <2>1. DOMAIN a.log = 1..Len(a.log)
        BY <1>6
    <2>2. CASE Len(n.log) + 1 <= LogCapacity
        <3>1. Len(a.log) = Len(n.log) + 1
            BY <1>6, <2>2
        <3>2. \A k \in 1..Len(n.log) : a.log[k] = n.log[k]
            BY <1>5, <1>6, <2>1, <3>1
        <3>3. a.log[Len(n.log) + 1] = es[1]
            <4>1. Len(n.log) + 1 \in DOMAIN a.log /\ ~(Len(n.log) + 1 <= Len(n.log))
                  /\ Len(n.log) + 1 - Len(n.log) = 1
                BY <1>5, <2>1, <3>1
            <4> QED BY <1>6, <4>1
        <3> QED BY <1>3, <3>1, <3>2, <3>3 DEF Appended
    <2>3. CASE ~(Len(n.log) + 1 <= LogCapacity)
        <3>1. Len(a.log) = Len(n.log)
            BY <1>5, <1>6, <2>3
        <3>2. \A k \in 1..Len(n.log) : a.log[k] = n.log[k]
            BY <1>5, <1>6, <2>1, <3>1
        <3> QED BY <1>5, <1>6, <3>1, <3>2, SeqEqual
    <2> QED BY <2>2, <2>3
<1>8. /\ a.first_log_index = n.first_log_index /\ a.snapshot = n.snapshot
      /\ a.commit_index = n.commit_index /\ a.outbox = n.outbox
      /\ a.role = n.role /\ a.current_term = n.current_term
    BY DEF append_entries, NodeOK, NodeFields
<1> HIDE DEF a
<1>9. Ready(a)
    <2>1. Len(a.log) <= MaxLog /\ Len(a.log) <= LogCapacity
        BY <1>5, <1>6
    <2> QED BY <1>8, <2>1 DEF Ready, Whole, Mute
<1>10. NodeOK(d, Command) /\ Ready(d) /\ d.log = a.log /\ d.role = Leader
       /\ d.current_term = n.current_term
    <2> DEFINE f == advance_commit_index(a)
    <2>1. Ready(f) /\ f.log = a.log /\ f.role = a.role
        BY <1>4, <1>9, AdvanceCommitReady
    <2>2. Command \in EntryTypes
        BY DEF EntryTypes, EntryType
    <2>3. NodeOK(f, Command) /\ Kept(a, f, Command)
        BY <1>4, <2>2, AdvanceCommitType, AdvanceCommitKept, Zenon
    <2> HIDE DEF f
    <2>4. f.current_term = a.current_term
        BY <2>3 DEF Kept
    <2>5. d = f \/ d = a
        BY DEF f
    <2> HIDE DEF d
    <2> QED BY <1>4, <1>8, <1>9, <2>1, <2>3, <2>4, <2>5
<1> HIDE DEF d
<1>11. Sound(b) /\ b = [d EXCEPT !.outbox = b.outbox]
    BY <1>10, ReplicateSound
<1> HIDE DEF b
<1>12. b.log = d.log /\ b.role = d.role /\ b.current_term = d.current_term
    BY <1>10, <1>11 DEF NodeOK, NodeFields
<1> QED BY <1>2, <1>7, <1>10, <1>11, <1>12 DEF e

\* What a message does to the log of the node that receives it.
LEMMA HandleMessageLog ==
    ASSUME NEW n, NodeOK(n, Command), Ready(n), MaxLog < SnapshotThreshold,
           NEW from \in Node, NEW m \in RaftMsg(Command), m.type # "InstallSnapshot",
           m.type = "AppendEntries" /\ m.entries # <<>> =>
               m.prev_log_index + Len(m.entries) <= MaxLog
    PROVE  LET b == handle_message(n, from, m)
           IN  /\ Sound(b)
               /\ \/ b.log = n.log
                  \/ /\ m.type = "AppendEntries"
                     /\ m.term = n.current_term
                     /\ Spliced(n.log, m, b.log)
<1>1. m.term \in Nat
    BY DEF RaftMsg
<1>2. CASE m.type = "PreVoteRequest"
    <2>1. Ready(handle_pre_vote_request(n, from, m))
          /\ handle_pre_vote_request(n, from, m).log = n.log
        BY <1>1, VoteRequestReady
    <2> QED BY <1>2, <2>1, ReadyIsSound DEF handle_message
<1>3. CASE m.type = "RequestVote"
    <2>1. Ready(handle_vote_request(n, from, m))
          /\ handle_vote_request(n, from, m).log = n.log
        BY <1>1, VoteRequestReady
    <2> QED BY <1>3, <2>1, ReadyIsSound DEF handle_message
<1>4. CASE m.type = "PreVoteResponse"
    BY <1>4, VoteResponseSound DEF handle_message
<1>5. CASE m.type = "RequestVoteResponse"
    BY <1>5, VoteResponseSound DEF handle_message
<1>6. CASE m.type = "AppendEntries"
    <2> DEFINE b == handle_append_entries(n, from, m)
    <2>1. m \in AppendEntriesMsg(Command)
        BY <1>6 DEF RaftMsg, AppendEntriesMsg
    <2>2. /\ Ready(b)
          /\ \/ b.log = n.log
             \/ m.term = n.current_term /\ Spliced(n.log, m, b.log)
        BY <1>6, <2>1, AppendEntriesSplice
    <2>3. handle_message(n, from, m) = b
        BY <1>6 DEF handle_message
    <2> HIDE DEF b
    <2> QED BY <1>6, <2>2, <2>3, ReadyIsSound
<1>7. CASE m.type = "AppendEntriesResponse"
    <2> DEFINE b == handle_append_entries_response(n, from, m)
    <2>1. m \in AppendEntriesResponseMsg
        BY <1>7 DEF RaftMsg, AppendEntriesResponseMsg
    <2>2. Ready(b) /\ b.log = n.log
        BY <2>1, AppendEntriesResponseReady
    <2>3. handle_message(n, from, m) = b
        BY <1>7 DEF handle_message
    <2> HIDE DEF b
    <2> QED BY <2>2, <2>3, ReadyIsSound
<1>8. CASE m.type = "InstallSnapshotResponse"
    <2> DEFINE b == handle_install_snapshot_response(n, from, m)
    <2>1. Ready(b) /\ b.log = n.log
        BY InstallSnapshotResponseReady
    <2>2. handle_message(n, from, m) = b
        BY <1>8 DEF handle_message
    <2> HIDE DEF b
    <2> QED BY <2>1, <2>2, ReadyIsSound
<1>9. m.type \in {"PreVoteRequest", "RequestVote", "PreVoteResponse",
                  "RequestVoteResponse", "AppendEntries", "AppendEntriesResponse",
                  "InstallSnapshotResponse"}
    BY DEF RaftMsg
<1> QED BY <1>2, <1>3, <1>4, <1>5, <1>6, <1>7, <1>8, <1>9

-----------------------------------------------------------------------------
(* The steps of the cluster                                                *)

\* One event of node i: what it does to the log, and what it sends.
LogEvent(i, b, links) ==
    /\ NodeOK(b, Command)
    /\ Sound(b)
    /\ \/ links = net
       \/ \E s \in Node : \E m \in BagToSet(net[s][i]) : links = Taken(s, i, m)
    /\ \/ b.log = node[i].log
       \/ \E s \in Node : \E m \in Appends(s, i) :
              m.term = node[i].current_term /\ Spliced(node[i].log, m, b.log)
       \/ /\ node[i].role = Leader
          /\ b.role = Leader
          /\ b.current_term = node[i].current_term
          /\ \E e : e.term = node[i].current_term /\ Appended(node[i].log, e, b.log)

\* A step of a cluster that compacts nothing is such an event or a restart.
LEMMA NextLog ==
    ASSUME ConfigChanges = {}, MaxLog < SnapshotThreshold, Typed(Command),
           budget.duplicates = 0, Uncompacted, Next
    PROVE  \/ \E i \in Node : \E b, links : LogEvent(i, b, links) /\ Step(i, b, links)
           \/ \E i \in Node : Restart(i)
<1> DEFINE Done == \E i \in Node : \E b, links : LogEvent(i, b, links) /\ Step(i, b, links)
<1>1. Command \in EntryTypes
    BY DEF EntryTypes, EntryType
<1>2. ASSUME NEW i \in Node
      PROVE  NodeOK(node[i], Command) /\ Ready(node[i])
    <2>1. NodeOK(node[i], Command) /\ node[i].outbox = no_messages
        BY DEF Typed
    <2>2. Mute(node[i])
        BY <2>1 DEF Mute, no_messages
    <2> QED BY <2>1, <2>2 DEF Ready, Uncompacted
<1>3. ASSUME NEW i \in Node, NEW b, NodeOK(b, Command), Sound(b), b.log = node[i].log,
             Step(i, b, net)
      PROVE  Done
    <2>1. LogEvent(i, b, net)
        BY <1>3 DEF LogEvent
    <2> QED BY <1>3, <2>1
<1>4. ASSUME NEW i \in Node, NEW j \in Node, NEW m \in BagToSet(net[i][j]),
             Deliver(i, j, m)
      PROVE  Done
    <2> DEFINE b == handle_message(node[j], i, m)
               links == Taken(i, j, m)
    <2>1. m \in RaftMsg(Command)
        BY DEF Typed
    <2>2. NodeOK(b, Command)
        BY <1>1, <1>2, <2>1, HandleMessageType, Zenon
    <2>3. /\ m.type # "InstallSnapshot"
          /\ m.type = "AppendEntries" => m \in Appends(i, j)
          /\ m.type = "AppendEntries" /\ m.entries # <<>> =>
                 m.prev_log_index + Len(m.entries) <= MaxLog
        BY DEF Uncompacted, Appends
    <2>4. /\ Sound(b)
          /\ \/ b.log = node[j].log
             \/ /\ m.type = "AppendEntries"
                /\ m.term = node[j].current_term
                /\ Spliced(node[j].log, m, b.log)
        BY <1>2, <2>1, <2>3, HandleMessageLog
    <2>5. Step(j, b, links)
        BY <1>4 DEF Deliver
    <2> HIDE DEF b
    <2>6. \E s \in Node : \E l \in BagToSet(net[s][j]) : links = Taken(s, j, l)
        OBVIOUS
    <2> HIDE DEF links
    <2>7. LogEvent(j, b, links)
        BY <2>2, <2>3, <2>4, <2>6 DEF LogEvent
    <2> QED BY <2>5, <2>7
<1>5. ASSUME NEW i \in Node, ElectionTimer(i) PROVE Done
    <2> DEFINE b == handle_election_timer(node[i])
    <2>1. NodeOK(b, Command) /\ Sound(b) /\ b.log = node[i].log
        BY <1>2, ElectionTimerType, TimersSound, Zenon
    <2>2. Step(i, b, net)
        BY <1>5 DEF ElectionTimer
    <2> HIDE DEF b, Done
    <2> QED BY <1>3, <2>1, <2>2
<1>6. ASSUME NEW i \in Node, HeartbeatTimer(i) PROVE Done
    <2> DEFINE b == handle_heartbeat_timer(node[i])
    <2>1. NodeOK(b, Command) /\ Sound(b) /\ b.log = node[i].log
        BY <1>2, HeartbeatType, TimersSound, Zenon
    <2>2. Step(i, b, net)
        BY <1>6 DEF HeartbeatTimer
    <2> HIDE DEF b, Done
    <2> QED BY <1>3, <2>1, <2>2
<1>7. ASSUME NEW i \in Node, NEW c \in Command, ClientCommand(i, c) PROVE Done
    <2> DEFINE b == submit_client_command(node[i], c)
    <2>1. node[i].role = Leader /\ Len(node[i].log) < MaxLog /\ Step(i, b, net)
        <3>1. last_log_index(node[i]) = Len(node[i].log)
            BY <1>2, WholeLog DEF Ready
        <3> QED BY <1>7, <3>1 DEF ClientCommand
    <2>2. NodeOK(b, Command)
        BY <1>1, <1>2, SubmitType, Zenon
    <2> DEFINE e == [term |-> node[i].current_term, entry_type |-> c]
    <2>3. /\ Sound(b)
          /\ b.role = Leader
          /\ b.current_term = node[i].current_term
          /\ b.log = node[i].log \/ Appended(node[i].log, e, b.log)
        BY <1>2, <2>1, SubmitSound
    <2>4. e.term = node[i].current_term
        OBVIOUS
    <2> HIDE DEF b, e
    <2>5. LogEvent(i, b, net)
        BY <2>1, <2>2, <2>3, <2>4 DEF LogEvent
    <2> QED BY <2>1, <2>5
<1>8. ASSUME NEW i \in Node, NEW j \in Node, NEW m, Duplicate(i, j, m) PROVE FALSE
    BY <1>8 DEF Duplicate, Spend
<1>9. \A p \in Node : AddServer(p) \notin ConfigChanges /\ RemoveServer(p) \notin ConfigChanges
    OBVIOUS
<1> HIDE DEF Done
<1>10. Done \/ \E i \in Node : Restart(i)
    BY <1>4, <1>5, <1>6, <1>7, <1>8, <1>9, Zenon DEF Next
<1> QED BY <1>10 DEF Done

\* What a step does to the logs and to the parts of logs on the network.
LogMove ==
    /\ \A j \in Node :
           /\ Whole(node'[j])
           /\ \/ node'[j].log = node[j].log
              \/ \E s \in Node : \E m \in Appends(s, j) :
                     m.term = node[j].current_term /\ Spliced(node[j].log, m, node'[j].log)
              \/ /\ node[j].role = Leader
                 /\ node'[j].role = Leader
                 /\ node'[j].current_term = node[j].current_term
                 /\ \E e : e.term = node[j].current_term
                           /\ Appended(node[j].log, e, node'[j].log)
    /\ \A i, j \in Node : \A m \in BagToSet(net'[i][j]) :
           \/ m \in BagToSet(net[i][j])
           \/ /\ m.type # "InstallSnapshot"
              /\ m.type = "AppendEntries" =>
                     i # j /\ node'[i].role = Leader /\ Slice(node'[i], m)

\* The messages on the network after an event.
LEMMA StepMessages ==
    ASSUME Typed(Command), SingleMessages, NEW i \in Node, NEW b, NEW links,
           LogEvent(i, b, links), Step(i, b, links)
    PROVE  \A a, d \in Node : \A e \in BagToSet(net'[a][d]) :
               e \in BagToSet(net[a][d]) \/ (a = i /\ Out(b, d, e))
<1>1. LinksOK(net, Command)
    BY DEF Typed, LinksOK
<1>2. LinksOK(links, Command)
    BY <1>1, TakenType DEF LogEvent
<1>3. \A a, d \in Node : \A e \in BagToSet(links[a][d]) : e \in BagToSet(net[a][d])
    <2>1. ASSUME NEW s \in Node, NEW m \in BagToSet(net[s][i]), links = Taken(s, i, m)
          PROVE  <1>3!:
        <3>1. /\ \A a, d \in Node : \A e \in BagToSet(Taken(s, i, m)[a][d]) :
                     /\ e \in BagToSet(net[a][d])
                     /\ Electoral(e) => Taken(s, i, m)[a][d][e] = 1
              /\ Electoral(m) => m \notin BagToSet(Taken(s, i, m)[s][i])
            BY TakenStep
        <3> QED BY <2>1, <3>1
    <2> QED BY <2>1 DEF LogEvent
<1>4. PICK lost : net' = drain_and_send(links, i, b.outbox, lost)
    BY DEF Step
<1>5. b.outbox \in [Node -> Seq(RaftMsg(Command))]
    BY DEF LogEvent, NodeOK
<1> SUFFICES ASSUME NEW a \in Node, NEW d \in Node, NEW e \in BagToSet(net'[a][d])
             PROVE  e \in BagToSet(net[a][d]) \/ (a = i /\ Out(b, d, e))
    OBVIOUS
<1> DEFINE C == links[a][d] (+) ToBag(b.outbox[d])
<1>6. net'[a][d] = links[a][d] \/ (a = i /\ net'[a][d] = C)
    BY <1>2, <1>4 DEF drain_and_send, LinksOK
<1>7. Added(links[a][d], b.outbox[d], C)
    <2>1. IsABag(links[a][d]) /\ b.outbox[d] \in Seq(RaftMsg(Command))
        BY <1>2, <1>5 DEF LinksOK
    <2> QED BY <2>1, AddToLink, Zenon
<1> HIDE DEF C
<1>8. CASE net'[a][d] = links[a][d]
    BY <1>3, <1>8
<1>9. CASE a = i /\ net'[a][d] = C
    <2>1. e \in DOMAIN C
        BY <1>9 DEF BagToSet
    <2>2. e \in DOMAIN links[a][d] \/ Out(b, d, e)
        BY <1>7, <2>1 DEF Added, Out
    <2> QED BY <1>3, <1>9, <2>2 DEF BagToSet
<1> QED BY <1>6, <1>8, <1>9

\* Every step moves the logs like that.
LEMMA LogsMove ==
    ASSUME ConfigChanges = {}, MaxLog < SnapshotThreshold, Typed(Command), Typed(Command)',
           budget.duplicates = 0, SingleMessages, Uncompacted, [Next]_vars
    PROVE  LogMove
<1>1. DOMAIN node = Node /\ \A j \in Node : Whole(node[j])
    BY DEF Typed, Uncompacted
<1>2. CASE UNCHANGED vars
    <2>1. node' = node /\ net' = net
        BY <1>2 DEF vars
    <2> QED BY <1>1, <2>1 DEF LogMove
<1>3. ASSUME NEW i \in Node, Restart(i) PROVE LogMove
    <2> DEFINE b == start_node(i, storage(node[i]))
    <2>1. net' = net /\ node' = [node EXCEPT ![i] = b]
        BY <1>3 DEF Restart
    <2>2. /\ b.log = node[i].log
          /\ b.first_log_index = node[i].first_log_index
          /\ b.snapshot = node[i].snapshot
          /\ b.commit_index = 0
        BY DEF start_node, new_from_builder, storage
    <2> HIDE DEF b
    <2>3. Whole(b)
        BY <1>1, <2>2, NodesAssumption DEF Whole
    <2>4. \A j \in Node : node'[j] = IF j = i THEN b ELSE node[j]
        BY <1>1, <2>1
    <2>5. \A j \in Node : Whole(node'[j]) /\ node'[j].log = node[j].log
        BY <1>1, <2>2, <2>3, <2>4
    <2> QED BY <2>1, <2>5 DEF LogMove
<1>4. ASSUME NEW i \in Node, NEW b, NEW links, LogEvent(i, b, links), Step(i, b, links)
      PROVE  LogMove
    <2> DEFINE c == [b EXCEPT !.outbox = no_messages]
    <2>1. \A j \in Node : node'[j] = IF j = i THEN c ELSE node[j]
        BY <1>1, <1>4 DEF Step
    <2>2. /\ c.log = b.log /\ c.first_log_index = b.first_log_index
          /\ c.snapshot = b.snapshot /\ c.commit_index = b.commit_index
          /\ c.role = b.role /\ c.current_term = b.current_term /\ c.id = b.id
        BY <1>4 DEF LogEvent, NodeOK, NodeFields
    <2>3. Whole(b) /\ OwnMail(b)
        BY <1>4 DEF LogEvent, Sound
    <2> HIDE DEF c
    <2>4. b.id = i
        <3>1. node'[i].id = i
            BY DEF Typed
        <3>2. node'[i] = c
            BY <2>1
        <3> QED BY <2>2, <3>1, <3>2
    <2>5. Whole(c)
        BY <2>2, <2>3 DEF Whole
    <2>6. ASSUME NEW a \in Node, NEW d \in Node, NEW e \in BagToSet(net'[a][d])
          PROVE  \/ e \in BagToSet(net[a][d])
                 \/ /\ e.type # "InstallSnapshot"
                    /\ e.type = "AppendEntries" =>
                           a # d /\ node'[a].role = Leader /\ Slice(node'[a], e)
        <3>1. e \in BagToSet(net[a][d]) \/ (a = i /\ Out(b, d, e))
            BY <1>4, StepMessages
        <3>2. ASSUME a = i, Out(b, d, e)
              PROVE  /\ e.type # "InstallSnapshot"
                     /\ e.type = "AppendEntries" =>
                            d # b.id /\ b.role = Leader /\ Slice(b, e)
            BY <2>3, <3>2 DEF Out, OwnMail
        <3>3. Slice(b, e) => Slice(c, e)
            BY <2>2 DEF Slice
        <3>4. a = i => node'[a] = c
            BY <2>1
        <3> QED BY <2>2, <2>4, <3>1, <3>2, <3>3, <3>4
    <2>7. ASSUME NEW j \in Node
          PROVE  /\ Whole(node'[j])
                 /\ \/ node'[j].log = node[j].log
                    \/ \E s \in Node : \E m \in Appends(s, j) :
                           /\ m.term = node[j].current_term
                           /\ Spliced(node[j].log, m, node'[j].log)
                    \/ /\ node[j].role = Leader
                       /\ node'[j].role = Leader
                       /\ node'[j].current_term = node[j].current_term
                       /\ \E e : e.term = node[j].current_term
                                 /\ Appended(node[j].log, e, node'[j].log)
        <3>1. CASE j # i
            BY <1>1, <2>1, <3>1
        <3>2. CASE j = i
            <4>1. node'[j] = c
                BY <2>1, <3>2
            <4> QED BY <1>4, <2>2, <2>5, <3>2, <4>1 DEF LogEvent
        <3> QED BY <3>1, <3>2
    <2> QED BY <2>6, <2>7 DEF LogMove
<1> QED BY <1>2, <1>3, <1>4, NextLog

-----------------------------------------------------------------------------
(* Who leads a term                                                        *)

\* What a step does to terms, roles and votes.
VoteMove ==
    \A v \in Node :
        /\ node'[v].current_term \in Nat
        /\ node'[v].current_term >= node[v].current_term
        /\ node'[v].current_term = node[v].current_term =>
               node[v].voted_for \in {None, node'[v].voted_for}
        /\ \A d \in Node : \A t \in Nat : VotesIn(node', net', v, d, t) =>
               \/ VotesIn(node, net, v, d, t)
               \/ node'[v].current_term = t /\ node'[v].voted_for = d
        /\ node'[v].role = Candidate =>
               \/ node[v].role = Candidate /\ node'[v].current_term = node[v].current_term
               \/ node'[v].current_term > node[v].current_term
        /\ node'[v].role = Leader =>
               \/ /\ node[v].role \in {Candidate, Leader}
                  /\ node'[v].current_term = node[v].current_term
               \/ node'[v].current_term > node[v].current_term

\* A quiet step.
LEMMA QuietMove ==
    ASSUME Typed(Command), NEW i \in Node, NEW b, Quiet(node[i], b, Command),
           NodeStep(i, b), b.current_term \in Nat,
           \A a, d \in Node : \A e \in BagToSet(net'[a][d]) : Electoral(e) =>
               e \in BagToSet(net[a][d])
    PROVE  VoteMove
<1>1. \A j \in Node :
          /\ node'[j].current_term \in Nat
          /\ node'[j].current_term >= node[j].current_term
          /\ node'[j].current_term = node[j].current_term =>
                 node'[j].voted_for = node[j].voted_for
          /\ node'[j].role # Follower =>
                 /\ node'[j].role = node[j].role
                 /\ node'[j].current_term = node[j].current_term
                 /\ node'[j].votes_received = node[j].votes_received
    <2>1. \A j \in Node : node[j].current_term \in Nat
        BY TermTypes
    <2> QED BY <2>1 DEF NodeStep, Quiet
<1>2. \A c, v \in Node : \A t : GivesIn(net', v, c, t) => GivesIn(net, v, c, t)
    <2>1. \A t : Electoral(Grant(t))
        BY DEF Grant, VoteResponseMsg, Electoral
    <2> QED BY <2>1 DEF GivesIn
<1>3. \A c, v \in Node : \A t : CountsIn(node', c, v, t) => CountsIn(node, c, v, t)
    BY <1>1 DEF CountsIn
<1>4. \A c, v \in Node : \A t : VotesIn(node', net', v, c, t) => VotesIn(node, net, v, c, t)
    BY <1>2, <1>3 DEF VotesIn
<1>5. Candidate # Follower /\ Leader # Follower
    BY DEF Candidate, Leader, Follower
<1> QED BY <1>1, <1>4, <1>5 DEF VoteMove

\* An event of a node.
LEMMA EventMove ==
    ASSUME Typed(Command), VotesAccounted, NEW i \in Node, NEW b, NEW links,
           Event(i, b, links, Command), Step(i, b, links)
    PROVE  VoteMove
<1>1. SingleMessages /\ \A j \in Node : node[j].current_term \in Nat
    BY Disassemble
<1>2. Mail(i, b, links)
    BY <1>1, EventMail
<1>3. NodeStep(i, b) /\ b.current_term \in Nat /\ b.id = i
    <2>1. NodeOK(b, Command) /\ b.id = i
        BY DEF Event
    <2> QED BY <2>1, StepNode DEF NodeOK
<1>4. node[i].outbox = no_messages
    BY DEF Typed
<1>5. \A t : Electoral(Grant(t)) /\ Grant(t).term = t /\ Grant(t).type # "RequestVote"
    BY DEF Grant, VoteResponseMsg, Electoral
<1>6. \A a, d \in Node : \A t : GivesIn(net', a, d, t) =>
          GivesIn(net, a, d, t) \/ (a = i /\ Out(b, d, Grant(t)))
    BY <1>2, <1>5 DEF Mail, GivesIn
<1>7. Candidate # Follower /\ Leader # Follower /\ Candidate # Leader
    BY DEF Candidate, Leader, Follower
<1>8. CASE Quiet(node[i], b, Command)
    <2>1. \A d \in Node : \A e : Electoral(e) => ~Out(b, d, e)
        BY <1>4, <1>8 DEF Quiet, NothingElectoral, Out, no_messages
    <2>2. \A a, d \in Node : \A e \in BagToSet(net'[a][d]) : Electoral(e) =>
              e \in BagToSet(net[a][d])
        BY <1>2, <2>1 DEF Mail
    <2> QED BY <1>3, <1>8, <2>2, QuietMove
<1>9. CASE Starts(node[i], b, Command)
    <2>1. /\ b.current_term > node[i].current_term
          /\ b.voted_for = i
          /\ \A p \in Node : b.votes_received[p] > 0 => p = i
        <3>1. b.votes_received = push(new_collection, i) /\ b.voted_for = i
              /\ b.current_term = node[i].current_term + 1
            BY <1>3, <1>9 DEF Starts
        <3> QED BY <1>1, <3>1 DEF push, new_collection
    <2>2. \A d \in Node : \A t : ~Out(b, d, Grant(t))
        <3>1. \A d \in Node : \A k \in DOMAIN b.outbox[d] :
                  Electoral(b.outbox[d][k]) => b.outbox[d][k].type = "RequestVote"
            BY <1>9 DEF Starts, AsksOnce
        <3> QED BY <1>5, <3>1 DEF Out
    <2>3. \A c, v \in Node : \A t : CountsIn(node', c, v, t) =>
              CountsIn(node, c, v, t) \/ (c = i /\ v = i /\ t = b.current_term)
        BY <1>3, <2>1 DEF CountsIn, NodeStep
    <2>4. \A c, v \in Node : \A t : VotesIn(node', net', v, c, t) =>
              \/ VotesIn(node, net, v, c, t)
              \/ node'[v].current_term = t /\ node'[v].voted_for = c
        BY <1>3, <1>6, <2>1, <2>2, <2>3 DEF VotesIn, NodeStep
    <2> QED BY <1>1, <1>3, <2>1, <2>4 DEF VoteMove, NodeStep
<1>10. ASSUME NEW r \in Node, NEW m \in BagToSet(net[r][i]), m.type = "RequestVote",
              Votes(node[i], b, r, m.term)
       PROVE  VoteMove
    <2>1. /\ m.term >= node[i].current_term /\ b.current_term = m.term /\ b.voted_for = r
          /\ m.term = node[i].current_term => /\ node[i].voted_for \in {None, r}
                                              /\ b.role = node[i].role
                                              /\ b.votes_received = node[i].votes_received
          /\ m.term > node[i].current_term => b.role = Follower
        BY <1>10 DEF Votes
    <2>2. \A d \in Node : \A t : Out(b, d, Grant(t)) => d = r /\ t = b.current_term
        <3>1. \A d \in Node : \A k \in DOMAIN b.outbox[d] :
                  Electoral(b.outbox[d][k]) => d = r /\ b.outbox[d][k] = Grant(m.term)
            BY <1>10 DEF Votes
        <3> QED BY <1>5, <2>1, <3>1 DEF Out
    <2>3. \A c, v \in Node : \A t : CountsIn(node', c, v, t) => CountsIn(node, c, v, t)
        BY <1>1, <1>3, <2>1 DEF CountsIn, NodeStep
    <2>4. \A c, v \in Node : \A t : VotesIn(node', net', v, c, t) =>
              \/ VotesIn(node, net, v, c, t)
              \/ node'[v].current_term = t /\ node'[v].voted_for = c
        BY <1>3, <1>6, <2>1, <2>2, <2>3 DEF VotesIn, NodeStep
    <2> QED BY <1>1, <1>3, <1>7, <2>1, <2>4 DEF VoteMove, NodeStep
<1>11. ASSUME NEW w \in Node, NEW T \in Nat, Grant(T) \in BagToSet(net[w][i]),
              Counts(node[i], b, w, T)
       PROVE  VoteMove
    <2>1. /\ T = node[i].current_term /\ b.current_term = T
          /\ b.voted_for = node[i].voted_for
          /\ node[i].role = Candidate /\ node[i].role # Follower
          /\ b.votes_received = push(node[i].votes_received, w)
        BY <1>7, <1>11 DEF Counts
    <2>2. \A d \in Node : \A t : ~Out(b, d, Grant(t))
        BY <1>4, <1>5, <1>11 DEF Counts, NothingElectoral, Out, no_messages
    <2>3. \A p \in Node : p # w => b.votes_received[p] = node[i].votes_received[p]
        <3>1. node[i].votes_received \in [Node -> Nat]
            BY TermTypes
        <3> QED BY <2>1, <3>1 DEF push
    <2>4. \A c, v \in Node : \A t : CountsIn(node', c, v, t) =>
              CountsIn(node, c, v, t) \/ (c = i /\ v = w /\ t = T)
        <3>1. \A v \in Node : \A t : CountsIn(node', i, v, t) =>
                  CountsIn(node, i, v, t) \/ (v = w /\ t = T)
            BY <1>3, <2>1, <2>3 DEF CountsIn, NodeStep
        <3>2. \A c, v \in Node : \A t : c # i /\ CountsIn(node', c, v, t) =>
                  CountsIn(node, c, v, t)
            BY <1>3 DEF CountsIn, NodeStep
        <3> QED BY <3>1, <3>2
    <2>5. \A c, v \in Node : \A t : VotesIn(node', net', v, c, t) =>
              VotesIn(node, net, v, c, t)
        <3>1. GivesIn(net, w, i, T)
            BY <1>11 DEF GivesIn
        <3> QED BY <1>6, <2>2, <2>4, <3>1 DEF VotesIn
    <2>6. \A j \in Node : /\ node'[j].current_term = node[j].current_term
                          /\ node'[j].voted_for = node[j].voted_for
                          /\ j # i => node'[j].role = node[j].role
        BY <1>3, <2>1 DEF NodeStep
    <2> QED BY <1>1, <2>1, <2>5, <2>6 DEF VoteMove
<1> QED BY <1>8, <1>9, <1>10, <1>11 DEF Event

\* Every step moves the votes like that.
LEMMA VotesMove ==
    ASSUME ConfigChanges = {}, InitialMembers = Node, Typed(Command), VotesAccounted,
           budget.duplicates = 0, [Next]_vars
    PROVE  VoteMove
<1>1. Command \in EntryTypes /\ ConfigChanges \subseteq Command
    BY DEF EntryTypes, EntryType
<1>2. FixedMembers /\ \A j \in Node : node[j].current_term \in Nat
    BY Disassemble
<1>3. CASE UNCHANGED vars
    <2>1. node' = node /\ net' = net
        BY <1>3 DEF vars
    <2> QED BY <1>2, <2>1 DEF VoteMove
<1>4. ASSUME NEW i \in Node, NEW b, NEW links, Event(i, b, links, Command),
             Step(i, b, links)
      PROVE  VoteMove
    BY <1>4, EventMove
<1>5. ASSUME NEW i \in Node, Restart(i) PROVE VoteMove
    <2> DEFINE b == start_node(i, storage(node[i]))
    <2>1. NodeOK(node[i], Command) /\ node[i].id = i /\ DOMAIN node = Node
        BY DEF Typed
    <2>2. Quiet(node[i], b, Command)
        <3>1. node[i].members =
                  [p \in Node |-> IF p \in InitialMembers \cup {node[i].id} THEN 1 ELSE 0]
            BY <1>2, <2>1 DEF FixedMembers
        <3>2. Quiet(node[i], new_from_builder(node[i].id, storage(node[i]), InitialMembers),
                    Command)
            BY <2>1, <3>1, RestartQuiet
        <3> QED BY <2>1, <3>2 DEF start_node
    <2>3. b.current_term \in Nat
        BY <2>1 DEF start_node, new_from_builder, storage, NodeOK
    <2> HIDE DEF b
    <2>4. net' = net /\ \A j \in Node : node'[j] = IF j = i THEN b ELSE node[j]
        BY <1>5, <2>1 DEF Restart, b
    <2>5. NodeStep(i, b)
        BY <2>4 DEF NodeStep
    <2>6. \A a, d \in Node : \A e \in BagToSet(net'[a][d]) : Electoral(e) =>
              e \in BagToSet(net[a][d])
        BY <2>4
    <2> QED BY <2>2, <2>3, <2>5, <2>6, QuietMove
<1>6. ASSUME NEW i \in Node, NEW j \in Node, NEW m, Duplicate(i, j, m) PROVE FALSE
    BY <1>6 DEF Duplicate, Spend
<1> QED BY <1>1, <1>3, <1>4, <1>5, <1>6, NextStep

\* Elected, for given nodes and links.
ElectedIn(nodes, links, x, t) ==
    /\ nodes[x].current_term >= t
    /\ nodes[x].current_term = t => nodes[x].role # Candidate
    /\ \E Q \in SUBSET Node :
           /\ 2 * Cardinality(Q) > Cardinality(Node)
           /\ \A v \in Q :
                  /\ nodes[v].current_term >= t
                  /\ nodes[v].current_term = t => nodes[v].voted_for = x
                  /\ \A d \in Node \ {x} : ~VotesIn(nodes, links, v, d, t)

\* It is the Elected of this state.
LEMMA ElectedHere ==
    \A x, t : Elected(x, t) <=> ElectedIn(node, net, x, t)
<1>1. \A v, d, t : ~Given(v, d, t) /\ ~Counted(d, v, t) <=> ~VotesIn(node, net, v, d, t)
    BY DEF Given, Counted, VotesIn, GivesIn, CountsIn
<1> QED BY <1>1, Zenon DEF Elected, ElectedIn

\* Who was elected for a term stays so.
LEMMA ElectedStays ==
    ASSUME Typed(Command), VoteMove, NEW x \in Node, NEW t \in Nat,
           ElectedIn(node, net, x, t)
    PROVE  ElectedIn(node', net', x, t)
<1>1. \A j \in Node : node[j].current_term \in Nat
    BY TermTypes
<1>2. node'[x].current_term >= t
    BY <1>1 DEF ElectedIn, VoteMove
<1>3. node'[x].current_term = t => node'[x].role # Candidate
    BY <1>1 DEF ElectedIn, VoteMove
<1>4. PICK Q \in SUBSET Node :
          /\ 2 * Cardinality(Q) > Cardinality(Node)
          /\ \A v \in Q : /\ node[v].current_term >= t
                          /\ node[v].current_term = t => node[v].voted_for = x
                          /\ \A d \in Node \ {x} : ~VotesIn(node, net, v, d, t)
    BY DEF ElectedIn
<1>5. ASSUME NEW v \in Q
      PROVE  /\ node'[v].current_term >= t
             /\ node'[v].current_term = t => node'[v].voted_for = x
             /\ \A d \in Node \ {x} : ~VotesIn(node', net', v, d, t)
    <2>1. v \in Node /\ node[v].current_term \in Nat /\ node'[v].current_term \in Nat
          /\ node'[v].current_term >= node[v].current_term
        BY <1>1, <1>4, <1>5 DEF VoteMove
    <2>2. node'[v].current_term >= t
        BY <1>4, <2>1
    <2>3. node'[v].current_term = t => node'[v].voted_for = x
        <3> SUFFICES ASSUME node'[v].current_term = t PROVE node'[v].voted_for = x
            OBVIOUS
        <3>1. node[v].current_term = t
            BY <1>4, <2>1
        <3>2. node[v].voted_for = x /\ node[v].voted_for \in {None, node'[v].voted_for}
            BY <1>4, <2>1, <3>1 DEF VoteMove
        <3> QED BY <3>2, ContextAssumption
    <2>4. \A d \in Node \ {x} : ~VotesIn(node', net', v, d, t)
        BY <1>4, <2>1, <2>3 DEF VoteMove
    <2> QED BY <2>2, <2>3, <2>4
<1> QED BY <1>2, <1>3, <1>4, <1>5 DEF ElectedIn

\* A leader was elected for its term, and no one else was.
LEMMA LeaderElected ==
    Typed(Command) /\ VotesAccounted =>
        \A y \in Node : node[y].role = Leader =>
            /\ ElectedIn(node, net, y, node[y].current_term)
            /\ \A x \in Node : ElectedIn(node, net, x, node[y].current_term) => x = y
<1> SUFFICES ASSUME Typed(Command), VotesAccounted, NEW y \in Node, node[y].role = Leader
             PROVE  /\ ElectedIn(node, net, y, node[y].current_term)
                    /\ \A x \in Node : ElectedIn(node, net, x, node[y].current_term) => x = y
    OBVIOUS
<1>1. Ledger(node, net) /\ \A j \in Node : node[j].current_term \in Nat
    BY Disassemble
<1> DEFINE t == node[y].current_term
<1>2. t \in Nat
    BY <1>1
<1>3. PICK R \in SUBSET Node : /\ 2 * Cardinality(R) > Cardinality(Node)
                               /\ \A p \in R : CountsIn(node, y, p, t)
    BY LeaderVoters
<1>4. node[y].role # Candidate
    BY DEF Leader, Candidate
<1>5. \A v \in R : /\ node[v].current_term >= t
                   /\ node[v].current_term = t => node[v].voted_for = y
                   /\ \A d \in Node \ {y} : ~VotesIn(node, net, v, d, t)
    <2>1. \A v \in R : v \in Node /\ VotesIn(node, net, v, y, t)
        BY <1>3 DEF VotesIn
    <2> HIDE DEF t
    <2> QED BY <1>1, <1>2, <2>1 DEF Ledger
<1>6. t >= t
    BY <1>2
<1>7. ElectedIn(node, net, y, t)
    BY <1>3, <1>4, <1>5, <1>6 DEF ElectedIn
<1>8. ASSUME NEW x \in Node, ElectedIn(node, net, x, t) PROVE x = y
    <2>1. PICK Q \in SUBSET Node :
              /\ 2 * Cardinality(Q) > Cardinality(Node)
              /\ \A v \in Q : \A d \in Node \ {x} : ~VotesIn(node, net, v, d, t)
        BY <1>8 DEF ElectedIn
    <2>2. PICK v \in Node : v \in Q /\ v \in R
        BY <1>3, <2>1, MajoritiesMeet
    <2> QED BY <1>3, <2>1, <2>2 DEF VotesIn
<1> QED BY <1>7, <1>8

-----------------------------------------------------------------------------
(* Links                                                                   *)

\* The link at position k of a log.
At(log, k) == [index  |-> k,
               entry  |-> log[k],
               before |-> IF k = 1 THEN 0 ELSE log[k - 1].term]

\* The links of a log by their positions.
LEMMA LogChain ==
    ASSUME NEW S, NEW log \in Seq(S)
    PROVE  Chain(0, 0, log) = {At(log, k) : k \in DOMAIN log}
<1>1. \A k \in DOMAIN log : 0 + k = k
    OBVIOUS
<1> QED BY <1>1 DEF Chain, At

\* The links of a part of a log are links of the log.
LEMMA SliceLinks ==
    ASSUME NEW S, NEW n, n.log \in Seq(S), NEW m, m.entries \in Seq(S),
           m.prev_log_index \in Nat, Slice(n, m)
    PROVE  MessageLinks(m) \subseteq Chain(0, 0, n.log)
<1> DEFINE prev == m.prev_log_index
           es == m.entries
<1>1. Chain(0, 0, n.log) = {At(n.log, k) : k \in DOMAIN n.log}
    BY LogChain
<1>2. DOMAIN n.log = 1..Len(n.log) /\ Len(n.log) \in Nat
      /\ DOMAIN es = 1..Len(es) /\ Len(es) \in Nat
    OBVIOUS
<1> SUFFICES ASSUME NEW h \in DOMAIN es
             PROVE  [index |-> prev + h, entry |-> es[h],
                     before |-> IF h = 1 THEN m.prev_log_term ELSE es[h - 1].term]
                        \in Chain(0, 0, n.log)
    BY DEF MessageLinks, Chain
<1>3. prev + h \in DOMAIN n.log /\ es[h] = n.log[prev + h] /\ h \in Nat /\ h >= 1
    BY <1>2 DEF Slice
<1>4. (IF h = 1 THEN m.prev_log_term ELSE es[h - 1].term)
          = IF prev + h = 1 THEN 0 ELSE n.log[prev + h - 1].term
    <2>1. CASE h = 1 /\ prev = 0
        BY <2>1 DEF Slice
    <2>2. CASE h = 1 /\ prev # 0
        <3>1. es # <<>>
            BY <1>2
        <3>2. m.prev_log_term = n.log[prev].term
            BY <2>2, <3>1 DEF Slice
        <3>3. prev + h - 1 = prev /\ prev + h # 1
            BY <2>2
        <3> QED BY <2>2, <3>2, <3>3
    <2>3. CASE h # 1
        <3>1. h - 1 \in DOMAIN es /\ prev + (h - 1) = prev + h - 1 /\ prev + h # 1
            BY <1>2, <1>3, <2>3
        <3>2. es[h - 1] = n.log[prev + (h - 1)]
            BY <3>1 DEF Slice
        <3> QED BY <2>3, <3>1, <3>2
    <2> QED BY <2>1, <2>2, <2>3
<1>5. [index |-> prev + h, entry |-> es[h],
       before |-> IF h = 1 THEN m.prev_log_term ELSE es[h - 1].term] = At(n.log, prev + h)
    <2> DEFINE x == IF h = 1 THEN m.prev_log_term ELSE es[h - 1].term
               y == IF prev + h = 1 THEN 0 ELSE n.log[prev + h - 1].term
    <2>1. At(n.log, prev + h) = [index |-> prev + h, entry |-> n.log[prev + h], before |-> y]
        BY DEF At
    <2>2. x = y
        BY <1>4
    <2> HIDE DEF x, y
    <2>3. [index |-> prev + h, entry |-> es[h], before |-> x] = At(n.log, prev + h)
        BY <1>3, <2>1, <2>2
    <2> QED BY <2>3 DEF x
<1> HIDE DEF prev, es
<1> QED BY <1>1, <1>3, <1>5

\* The links of a spliced log are those of its two parts.
LEMMA SplicedLinks ==
    ASSUME NEW S, NEW old \in Seq(S), NEW log \in Seq(S), NEW m, m.entries \in Seq(S),
           m.prev_log_index = 0 => m.prev_log_term = 0, Spliced(old, m, log)
    PROVE  Chain(0, 0, log) \subseteq Chain(0, 0, old) \cup MessageLinks(m)
<1> DEFINE prev == m.prev_log_index
           es == m.entries
<1>1. /\ Chain(0, 0, old) = {At(old, k) : k \in DOMAIN old}
      /\ Chain(0, 0, log) = {At(log, k) : k \in DOMAIN log}
    BY LogChain
<1>2. /\ DOMAIN log = 1..Len(log) /\ Len(log) \in Nat
      /\ DOMAIN old = 1..Len(old) /\ Len(old) \in Nat
      /\ DOMAIN es = 1..Len(es) /\ Len(es) \in Nat
      /\ prev \in Nat /\ prev <= Len(old)
    BY DEF Spliced
<1>3. \A k \in DOMAIN log :
          \/ k <= prev /\ log[k] = old[k]
          \/ /\ k > prev
             /\ k - prev \in DOMAIN es
             /\ log[k] = es[k - prev]
    BY DEF Spliced
<1> SUFFICES ASSUME NEW k \in DOMAIN log
             PROVE  At(log, k) \in Chain(0, 0, old) \/ At(log, k) \in MessageLinks(m)
    BY <1>1
<1>4. k \in Nat /\ k >= 1
    BY <1>2
<1>5. k # 1 => k - 1 \in DOMAIN log
    BY <1>2
<1>6. CASE k <= prev
    <2>1. k \in DOMAIN old /\ log[k] = old[k]
        BY <1>2, <1>3, <1>6
    <2>2. k # 1 => log[k - 1] = old[k - 1]
        BY <1>2, <1>3, <1>5, <1>6
    <2>3. At(log, k) = At(old, k)
        BY <2>1, <2>2 DEF At
    <2> QED BY <1>1, <2>1, <2>3
<1>7. CASE k > prev
    <2> DEFINE h == k - prev
    <2>1. h \in DOMAIN es /\ log[k] = es[h] /\ prev + h = k
        BY <1>2, <1>3, <1>4, <1>7
    <2>2. (IF k = 1 THEN 0 ELSE log[k - 1].term)
              = IF h = 1 THEN m.prev_log_term ELSE es[h - 1].term
        <3>1. CASE k = 1
            BY <1>2, <1>7, <3>1
        <3>2. CASE k # 1 /\ h = 1
            <4>1. k - 1 = prev /\ prev # 0 /\ k - 1 \in DOMAIN log
                BY <1>2, <1>4, <1>5, <3>2
            <4>2. log[prev] = old[prev]
                BY <1>2, <1>3, <4>1
            <4>3. old[prev].term = m.prev_log_term
                BY <4>1 DEF Spliced
            <4> QED BY <3>2, <4>1, <4>2, <4>3
        <3>3. CASE k # 1 /\ h # 1
            <4>1. k - 1 \in DOMAIN log /\ k - 1 > prev /\ k - 1 - prev = h - 1
                <5>1. k - 1 \in DOMAIN log /\ prev \in Int /\ k \in Int
                    BY <1>2, <1>4, <1>5, <3>3
                <5> HIDE DEF prev
                <5> QED BY <1>7, <3>3, <5>1
            <4>2. log[k - 1] = es[h - 1]
                <5>1. ~(k - 1 <= prev)
                    BY <1>2, <1>4, <4>1
                <5> QED BY <1>3, <4>1, <5>1
            <4> QED BY <3>3, <4>2
        <3> QED BY <3>1, <3>2, <3>3
    <2>3. At(log, k) = [index |-> prev + h, entry |-> es[h],
                        before |-> IF h = 1 THEN m.prev_log_term ELSE es[h - 1].term]
        BY <2>1, <2>2 DEF At
    <2> HIDE DEF h
    <2> QED BY <2>1, <2>3 DEF MessageLinks, Chain
<1> QED BY <1>2, <1>4, <1>6, <1>7

\* Appending an entry keeps the links of a log and makes one more.
LEMMA AppendedLinks ==
    ASSUME NEW S, NEW old \in Seq(S), NEW log \in Seq(S), NEW e, Appended(old, e, log)
    PROVE  /\ Chain(0, 0, old) \subseteq Chain(0, 0, log)
           /\ \A l \in Chain(0, 0, log) :
                  \/ l \in Chain(0, 0, old)
                  \/ l.index = Len(old) + 1 /\ l.entry = e
<1>1. /\ Chain(0, 0, old) = {At(old, k) : k \in DOMAIN old}
      /\ Chain(0, 0, log) = {At(log, k) : k \in DOMAIN log}
    BY LogChain
<1>2. /\ DOMAIN log = 1..(Len(old) + 1) /\ DOMAIN old = 1..Len(old) /\ Len(old) \in Nat
      /\ \A k \in DOMAIN old : log[k] = old[k]
      /\ log[Len(old) + 1] = e
    BY DEF Appended
<1>3. \A k \in DOMAIN old : k \in DOMAIN log /\ At(log, k) = At(old, k)
    <2> SUFFICES ASSUME NEW k \in DOMAIN old PROVE k \in DOMAIN log /\ At(log, k) = At(old, k)
        OBVIOUS
    <2>1. k \in DOMAIN log /\ (k # 1 => k - 1 \in DOMAIN old)
        BY <1>2
    <2> QED BY <1>2, <2>1 DEF At
<1>4. \A k \in DOMAIN log : k \in DOMAIN old \/ k = Len(old) + 1
    BY <1>2
<1>5. At(log, Len(old) + 1).index = Len(old) + 1 /\ At(log, Len(old) + 1).entry = e
    BY <1>2 DEF At
<1> QED BY <1>1, <1>3, <1>4, <1>5

\* Where a link is.
LEMMA LinkPlaces ==
    \A l : l \in Links <=>
               \/ \E i \in Node : l \in LogLinks(i)
               \/ \E i, j \in Node : \E m \in Appends(i, j) : l \in MessageLinks(m)
<1> DEFINE logs == {LogLinks(i) : i \in Node}
           sent(i, j) == {MessageLinks(m) : m \in Appends(i, j)}
           mail == UNION {sent(i, j) : i, j \in Node}
<1>1. \A s : s \in logs <=> \E i \in Node : s = LogLinks(i)
    OBVIOUS
<1>2. \A i, j, s : s \in sent(i, j) <=> \E m \in Appends(i, j) : s = MessageLinks(m)
    OBVIOUS
<1>3. \A s : s \in mail <=> \E i, j \in Node : s \in sent(i, j)
    <2> HIDE DEF sent
    <2> QED OBVIOUS
<1>4. Links = UNION (logs \cup mail)
    BY DEF Links
<1> HIDE DEF logs, sent, mail
<1> QED BY <1>1, <1>2, <1>3, <1>4

\* The leader j made the link l in a step.
Created(j, l) ==
    /\ node[j].role = Leader
    /\ node'[j].role = Leader
    /\ node'[j].current_term = node[j].current_term
    /\ l \in Chain(0, 0, node'[j].log)
    /\ l.index = Len(node[j].log) + 1
    /\ l.entry.term = node[j].current_term

\* The parts of AppendEntries and the logs are sequences of entries.
LEMMA LogTypes ==
    Typed(Command) =>
        /\ \A i \in Node : node[i].log \in Seq(LogEntry(Command))
        /\ \A i, j \in Node : \A m \in Appends(i, j) : m \in AppendEntriesMsg(Command)
<1> SUFFICES ASSUME Typed(Command)
             PROVE  /\ \A i \in Node : node[i].log \in Seq(LogEntry(Command))
                    /\ \A i, j \in Node : \A m \in Appends(i, j) :
                           m \in AppendEntriesMsg(Command)
    OBVIOUS
<1>1. \A i \in Node : node[i].log \in Seq(LogEntry(Command))
    BY DEF Typed, NodeOK
<1>2. \A m \in RaftMsg(Command) : m.type = "AppendEntries" => m \in AppendEntriesMsg(Command)
    BY DEF RaftMsg, AppendEntriesMsg
<1>3. \A i, j \in Node : \A m \in Appends(i, j) :
          m \in RaftMsg(Command) /\ m.type = "AppendEntries"
    BY DEF Appends, Typed
<1> QED BY <1>1, <1>2, <1>3

\* After a step the links are those from before it, and what a leader made.
LEMMA LinksMove ==
    ASSUME Typed(Command), Typed(Command)', Uncompacted, LogMove
    PROVE  \A l \in Links' : l \in Links \/ \E j \in Node : Created(j, l)
<1>1. /\ \A i \in Node : node[i].log \in Seq(LogEntry(Command))
      /\ \A i, j \in Node : \A m \in Appends(i, j) : m \in AppendEntriesMsg(Command)
    BY LogTypes
<1>2. /\ \A i \in Node : node'[i].log \in Seq(LogEntry(Command))
      /\ \A i, j \in Node : \A m \in Appends(i, j)' : m \in AppendEntriesMsg(Command)
    <2>1. (Typed(Command) =>
              /\ \A i \in Node : node[i].log \in Seq(LogEntry(Command))
              /\ \A i, j \in Node : \A m \in Appends(i, j) : m \in AppendEntriesMsg(Command))'
        BY LogTypes, PTL
    <2> QED BY <2>1
<1>3. \A m \in AppendEntriesMsg(Command) :
          m.entries \in Seq(LogEntry(Command)) /\ m.prev_log_index \in Nat
    BY DEF AppendEntriesMsg
<1>4. ASSUME NEW j \in Node, NEW l \in Chain(0, 0, node'[j].log)
      PROVE  l \in Links \/ Created(j, l)
    <2>1. Chain(0, 0, node[j].log) \subseteq Links
        BY LinkPlaces DEF LogLinks
    <2>2. CASE node'[j].log = node[j].log
        BY <1>4, <2>1, <2>2
    <2>3. ASSUME NEW s \in Node, NEW m \in Appends(s, j),
                 Spliced(node[j].log, m, node'[j].log)
          PROVE  l \in Links
        <3>1. MessageLinks(m) \subseteq Links
            BY LinkPlaces
        <3>2. m.entries \in Seq(LogEntry(Command))
            BY <1>1, <1>3
        <3>3. m.prev_log_index = 0 => m.prev_log_term = 0
            BY DEF Uncompacted
        <3>4. Chain(0, 0, node'[j].log) \subseteq Chain(0, 0, node[j].log) \cup MessageLinks(m)
            BY <1>1, <1>2, <2>3, <3>2, <3>3, SplicedLinks
        <3> QED BY <1>4, <2>1, <3>1, <3>4
    <2>4. ASSUME NEW e, e.term = node[j].current_term,
                 Appended(node[j].log, e, node'[j].log),
                 node[j].role = Leader, node'[j].role = Leader,
                 node'[j].current_term = node[j].current_term
          PROVE  l \in Links \/ Created(j, l)
        <3>1. \A k \in Chain(0, 0, node'[j].log) :
                  \/ k \in Chain(0, 0, node[j].log)
                  \/ k.index = Len(node[j].log) + 1 /\ k.entry = e
            BY <1>1, <1>2, <2>4, AppendedLinks
        <3>2. CASE l \in Chain(0, 0, node[j].log)
            BY <2>1, <3>2
        <3>3. CASE l.index = Len(node[j].log) + 1 /\ l.entry = e
            BY <1>4, <2>4, <3>3 DEF Created
        <3> QED BY <1>4, <3>1, <3>2, <3>3
    <2> QED BY <2>2, <2>3, <2>4 DEF LogMove
<1>5. ASSUME NEW i \in Node, NEW j \in Node, NEW m \in Appends(i, j)',
             NEW l \in MessageLinks(m)
      PROVE  l \in Links \/ Created(i, l)
    <2>1. m \in BagToSet(net'[i][j]) /\ m.type = "AppendEntries"
        BY <1>5 DEF Appends
    <2>2. CASE m \in BagToSet(net[i][j])
        <3>1. m \in Appends(i, j)
            BY <2>1, <2>2 DEF Appends
        <3> QED BY <1>5, <3>1, LinkPlaces
    <2>3. CASE Slice(node'[i], m)
        <3>1. m.entries \in Seq(LogEntry(Command)) /\ m.prev_log_index \in Nat
            BY <1>2, <1>3, <1>5
        <3>2. MessageLinks(m) \subseteq Chain(0, 0, node'[i].log)
            BY <1>2, <2>3, <3>1, SliceLinks
        <3> QED BY <1>4, <1>5, <3>2
    <2> QED BY <2>1, <2>2, <2>3 DEF LogMove
<1>6. \A l : l \in Links' =>
          \/ \E i \in Node : l \in Chain(0, 0, node'[i].log)
          \/ \E i, j \in Node : \E m \in Appends(i, j)' : l \in MessageLinks(m)
    <2>1. (\A l : l \in Links <=>
               \/ \E i \in Node : l \in LogLinks(i)
               \/ \E i, j \in Node : \E m \in Appends(i, j) : l \in MessageLinks(m))'
        BY LinkPlaces, PTL
    <2> QED BY <2>1 DEF LogLinks, MessageLinks
<1> QED BY <1>4, <1>5, <1>6

\* The terms of links are numbers.
LEMMA LinkTypes ==
    ASSUME Typed(Command)
    PROVE  \A l \in Links : l.entry.term \in Nat
<1>1. /\ \A i \in Node : node[i].log \in Seq(LogEntry(Command))
      /\ \A i, j \in Node : \A m \in Appends(i, j) : m \in AppendEntriesMsg(Command)
    BY LogTypes
<1>2. ASSUME NEW p, NEW t, NEW es \in Seq(LogEntry(Command)), NEW l \in Chain(p, t, es)
      PROVE  l.entry.term \in Nat
    <2>1. PICK k \in DOMAIN es : l.entry = es[k]
        BY <1>2 DEF Chain
    <2>2. es[k] \in LogEntry(Command)
        BY <2>1
    <2> QED BY <2>1, <2>2 DEF LogEntry
<1>3. \A i \in Node : \A l \in LogLinks(i) : l.entry.term \in Nat
    BY <1>1, <1>2 DEF LogLinks
<1>4. \A i, j \in Node : \A m \in Appends(i, j) : \A l \in MessageLinks(m) :
          l.entry.term \in Nat
    <2>1. \A m \in AppendEntriesMsg(Command) : m.entries \in Seq(LogEntry(Command))
        BY DEF AppendEntriesMsg
    <2> QED BY <1>1, <1>2, <2>1 DEF MessageLinks
<1> QED BY <1>3, <1>4, LinkPlaces

\* A log has one link at an index, and none beyond its end.
LEMMA LogIndices ==
    ASSUME NEW S, NEW log \in Seq(S)
    PROVE  /\ \A l, k \in Chain(0, 0, log) : l.index = k.index => l = k
           /\ \A l \in Chain(0, 0, log) : l.index \in 1..Len(log)
<1>1. Chain(0, 0, log) = {At(log, k) : k \in DOMAIN log} /\ DOMAIN log = 1..Len(log)
    BY LogChain
<1>2. \A k : At(log, k).index = k
    BY DEF At
<1> HIDE DEF At
<1> QED BY <1>1, <1>2

\* A leader takes no entry from anyone: it keeps its log or appends to it.
LEMMA LeaderAppends ==
    ASSUME Typed(Command), VotesAccounted, LogsAccounted, LogMove
    PROVE  \A i \in Node : node[i].role = Leader =>
               \/ node'[i].log = node[i].log
               \/ \E e : Appended(node[i].log, e, node'[i].log)
<1> SUFFICES ASSUME NEW i \in Node, node[i].role = Leader
             PROVE  \/ node'[i].log = node[i].log
                    \/ \E e : Appended(node[i].log, e, node'[i].log)
    OBVIOUS
<1>1. \A x \in Node : Elected(x, node[i].current_term) => x = i
    BY LeaderElected, ElectedHere
<1>2. ASSUME NEW s \in Node, NEW m \in Appends(s, i), m.term = node[i].current_term
      PROVE  FALSE
    BY <1>1, <1>2 DEF LogsAccounted, SendersElected, Uncompacted
<1> QED BY <1>2 DEF LogMove

\* No step that duplicates and compacts nothing upsets the accounts.
LEMMA LogsStayAccounted ==
    ASSUME ConfigChanges = {}, InitialMembers = Node, MaxLog < SnapshotThreshold,
           Typed(Command), budget.duplicates = 0, VotesAccounted, LogsAccounted,
           [Next]_vars
    PROVE  LogsAccounted'
<1>1. Typed(Command)' /\ VotesAccounted'
    <2>1. Command \in EntryTypes /\ ConfigChanges \subseteq Command
        BY DEF EntryTypes, EntryType
    <2> QED BY <2>1, NextType, VotesStayAccounted
<1>2. SingleMessages /\ Uncompacted /\ SendersElected /\ EntriesElected /\ LinksAgree
      /\ LeadersOwn /\ \A j \in Node : node[j].current_term \in Nat
    BY Disassemble DEF LogsAccounted
<1>3. LogMove /\ VoteMove
    BY <1>1, <1>2, LogsMove, VotesMove
<1>4. \A l \in Links' : l \in Links \/ \E j \in Node : Created(j, l)
    BY <1>1, <1>2, <1>3, LinksMove
<1>5. \A x \in Node : \A t \in Nat : Elected(x, t) => ElectedIn(node', net', x, t)
    BY <1>3, ElectedHere, ElectedStays
<1>6. \A x, t : ElectedIn(node', net', x, t) => Elected(x, t)'
    <2>1. (\A x, t : Elected(x, t) <=> ElectedIn(node, net, x, t))'
        BY ElectedHere, PTL
    <2>2. \A x, t : ElectedIn(node, net, x, t)' <=> ElectedIn(node', net', x, t)
        BY DEF ElectedIn, VotesIn, GivesIn, CountsIn
    <2> QED BY <2>1, <2>2
<1>7. \A y \in Node : node'[y].role = Leader =>
          /\ ElectedIn(node', net', y, node'[y].current_term)
          /\ \A x \in Node : ElectedIn(node', net', x, node'[y].current_term) => x = y
    <2>1. (Typed(Command) /\ VotesAccounted =>
              \A y \in Node : node[y].role = Leader =>
                  /\ ElectedIn(node, net, y, node[y].current_term)
                  /\ \A x \in Node : ElectedIn(node, net, x, node[y].current_term) => x = y)'
        BY LeaderElected, PTL
    <2>2. \A x, t : ElectedIn(node, net, x, t)' <=> ElectedIn(node', net', x, t)
        BY DEF ElectedIn, VotesIn, GivesIn, CountsIn
    <2>3. \A y \in Node : node'[y].role = Leader =>
              /\ ElectedIn(node, net, y, node[y].current_term)'
              /\ \A x \in Node : ElectedIn(node, net, x, node[y].current_term)' => x = y
        BY <1>1, <2>1
    <2>4. \A x, y : ElectedIn(node, net, x, node[y].current_term)'
                        <=> ElectedIn(node', net', x, node'[y].current_term)
        BY DEF ElectedIn, VotesIn, GivesIn, CountsIn
    <2> QED BY <2>3, <2>4
<1>8. \A l \in Links : l.entry.term \in Nat
    BY LinkTypes
<1>9. \A i \in Node : /\ node[i].log \in Seq(LogEntry(Command))
                       /\ node'[i].log \in Seq(LogEntry(Command))
                       /\ LogLinks(i) = Chain(0, 0, node[i].log)
                       /\ LogLinks(i)' = Chain(0, 0, node'[i].log)
    <2>1. \A i \in Node : node'[i].log \in Seq(LogEntry(Command))
        BY <1>1 DEF Typed, NodeOK
    <2> QED BY <2>1, LogTypes DEF LogLinks
<1>10. \A i \in Node : /\ node[i].role = Leader
                       /\ node'[i].role = Leader
                       /\ node'[i].current_term = node[i].current_term
                       => LogLinks(i) \subseteq LogLinks(i)'
    <2> SUFFICES ASSUME NEW i \in Node, node[i].role = Leader
                 PROVE  Chain(0, 0, node[i].log) \subseteq Chain(0, 0, node'[i].log)
        BY <1>9
    <2>1. ASSUME NEW e, Appended(node[i].log, e, node'[i].log)
          PROVE  Chain(0, 0, node[i].log) \subseteq Chain(0, 0, node'[i].log)
        BY <1>9, <2>1, AppendedLinks
    <2> QED BY <1>3, <2>1, LeaderAppends
<1>11. \A i \in Node : \A l : Created(i, l) =>
           /\ l \in LogLinks(i)'
           /\ node'[i].role = Leader
           /\ l.entry.term = node'[i].current_term
    BY <1>9 DEF Created
<1>12. Uncompacted'
    <2>1. \A j \in Node : Whole(node'[j])
        BY <1>3 DEF LogMove
    <2>2. \A i, j \in Node : \A m \in BagToSet(net'[i][j]) : m.type # "InstallSnapshot"
        BY <1>2, <1>3 DEF LogMove, Uncompacted
    <2>3. ASSUME NEW i \in Node, NEW j \in Node, NEW m \in Appends(i, j)'
          PROVE  /\ i # j
                 /\ m.prev_log_index = 0 => m.prev_log_term = 0
                 /\ m.entries # <<>> => m.prev_log_index + Len(m.entries) <= MaxLog
        <3>1. m \in BagToSet(net'[i][j]) /\ m.type = "AppendEntries"
            BY <2>3 DEF Appends
        <3>2. CASE m \in BagToSet(net[i][j])
            <4>1. m \in Appends(i, j)
                BY <3>1, <3>2 DEF Appends
            <4> QED BY <1>2, <4>1 DEF Uncompacted
        <3>3. CASE i # j /\ Slice(node'[i], m)
            <4>1. m.prev_log_index = 0 => m.prev_log_term = 0
                BY <3>3 DEF Slice
            <4>2. ASSUME m.entries # <<>> PROVE m.prev_log_index + Len(m.entries) <= MaxLog
                <5>1. m \in RaftMsg(Command)
                    BY <1>1, <3>1 DEF Typed
                <5>2. m \in AppendEntriesMsg(Command)
                    BY <3>1, <5>1 DEF RaftMsg, AppendEntriesMsg
                <5>3. m.entries \in Seq(LogEntry(Command)) /\ m.prev_log_index \in Nat
                    BY <5>2 DEF AppendEntriesMsg
                <5>4. Len(m.entries) \in DOMAIN m.entries
                    BY <4>2, <5>3
                <5>5. m.prev_log_index + Len(m.entries) \in DOMAIN node'[i].log
                    BY <3>3, <5>4 DEF Slice
                <5>6. Len(node'[i].log) <= MaxLog /\ MaxLog \in Nat
                    BY <2>1, NodesAssumption DEF Whole
                <5>7. DOMAIN node'[i].log = 1..Len(node'[i].log) /\ Len(node'[i].log) \in Nat
                    BY <1>9
                <5> QED BY <5>3, <5>5, <5>6, <5>7
            <4> QED BY <3>3, <4>1, <4>2
        <3> QED BY <1>3, <3>1, <3>2, <3>3 DEF LogMove
    <2> QED BY <2>1, <2>2, <2>3 DEF Uncompacted
<1>13. SendersElected'
    <2> SUFFICES ASSUME NEW i \in Node, NEW j \in Node, NEW m \in Appends(i, j)'
                 PROVE  ElectedIn(node', net', i, m.term)
        BY <1>6 DEF SendersElected
    <2>1. m \in BagToSet(net'[i][j]) /\ m.type = "AppendEntries"
        BY DEF Appends
    <2>2. CASE m \in BagToSet(net[i][j])
        <3>1. m \in Appends(i, j)
            BY <2>1, <2>2 DEF Appends
        <3>2. m.term \in Nat
            BY <2>2, TermTypes
        <3> QED BY <1>2, <1>5, <3>1, <3>2 DEF SendersElected
    <2>3. CASE node'[i].role = Leader /\ Slice(node'[i], m)
        <3>1. m.term = node'[i].current_term
            BY <2>3 DEF Slice
        <3> QED BY <1>7, <2>3, <3>1
    <2> QED BY <1>3, <2>1, <2>2, <2>3 DEF LogMove
<1>14. EntriesElected'
    <2> SUFFICES ASSUME NEW l \in Links'
                 PROVE  \E x \in Node : ElectedIn(node', net', x, l.entry.term)
        BY <1>6 DEF EntriesElected
    <2>1. CASE l \in Links
        BY <1>2, <1>5, <1>8, <2>1 DEF EntriesElected
    <2>2. ASSUME NEW j \in Node, Created(j, l)
          PROVE  \E x \in Node : ElectedIn(node', net', x, l.entry.term)
        BY <1>7, <1>11, <2>2
    <2> QED BY <1>4, <2>1, <2>2
<1>15. LinksAgree'
    <2>1. ASSUME NEW l \in Links, NEW j \in Node, NEW k, Created(j, k),
                 l.entry.term = k.entry.term
          PROVE  l.index # k.index
        <3>1. l \in Chain(0, 0, node[j].log)
            BY <1>2, <1>9, <2>1 DEF LeadersOwn, Created
        <3>2. l.index \in 1..Len(node[j].log)
            BY <1>9, <3>1, LogIndices
        <3>3. k.index = Len(node[j].log) + 1 /\ Len(node[j].log) \in Nat
            BY <1>9, <2>1 DEF Created
        <3> QED BY <3>2, <3>3
    <2>2. ASSUME NEW i \in Node, NEW j \in Node, NEW l, NEW k, Created(i, l), Created(j, k),
                 l.entry.term = k.entry.term, l.index = k.index
          PROVE  l = k
        <3>1. i = j
            BY <1>7, <1>11, <2>2
        <3>2. \A x, y \in Chain(0, 0, node'[i].log) : x.index = y.index => x = y
            BY <1>9, LogIndices
        <3> QED BY <1>9, <1>11, <2>2, <3>1, <3>2
    <2>3. \A l, k \in Links' : l.index = k.index /\ l.entry.term = k.entry.term => l = k
        BY <1>2, <1>4, <2>1, <2>2 DEF LinksAgree
    <2> QED BY <2>3 DEF LinksAgree
<1>16. LeadersOwn'
    <2> SUFFICES ASSUME NEW i \in Node, NEW l \in Links', node'[i].role = Leader,
                        l.entry.term = node'[i].current_term
                 PROVE  l \in LogLinks(i)'
        BY DEF LeadersOwn
    <2>1. ASSUME NEW j \in Node, Created(j, l) PROVE l \in LogLinks(i)'
        <3>1. j = i
            BY <1>7, <1>11, <2>1
        <3> QED BY <1>11, <2>1, <3>1
    <2>2. ASSUME l \in Links,
                 node[i].role = Leader /\ node'[i].current_term = node[i].current_term
          PROVE  l \in LogLinks(i)'
        BY <1>2, <1>10, <2>2 DEF LeadersOwn
    <2>3. ASSUME l \in Links,
                 ~(node[i].role = Leader /\ node'[i].current_term = node[i].current_term)
          PROVE  FALSE
        <3>1. PICK x \in Node : Elected(x, l.entry.term)
            BY <1>2, <2>3 DEF EntriesElected
        <3>2. x = i
            BY <1>5, <1>7, <1>8, <2>3, <3>1
        <3>3. /\ node[i].current_term >= node'[i].current_term
              /\ node[i].current_term = node'[i].current_term => node[i].role # Candidate
            BY <3>1, <3>2 DEF Elected
        <3>4. \/ node[i].role = Candidate /\ node'[i].current_term = node[i].current_term
              \/ node'[i].current_term > node[i].current_term
            BY <1>3, <2>3 DEF VoteMove
        <3>5. node'[i].current_term \in Nat
            BY <1>3 DEF VoteMove
        <3> QED BY <1>2, <3>3, <3>4, <3>5
    <2> QED BY <1>4, <2>1, <2>2, <2>3
<1> QED BY <1>12, <1>13, <1>14, <1>15, <1>16 DEF LogsAccounted

-----------------------------------------------------------------------------
(* Every behaviour                                                         *)

\* There are no links at the start.
LEMMA InitLogs ==
    ASSUME Init
    PROVE  LogsAccounted
<1>1. \A i \in Node : /\ node[i].log = <<>>
                      /\ node[i].first_log_index = 1
                      /\ node[i].snapshot = None
                      /\ node[i].commit_index = 0
                      /\ node[i].role = Follower
    BY DEF Init, start_node, new_from_builder, new_storage
<1>2. \A i, j \in Node : BagToSet(net[i][j]) = {}
    <2>1. BagToSet(EmptyBag) = {}
        BY DEF BagToSet, EmptyBag, SetToBag
    <2> QED BY <2>1 DEF Init
<1>3. \A i, j \in Node : Appends(i, j) = {}
    BY <1>2 DEF Appends
<1>4. \A i \in Node : LogLinks(i) = {}
    <2>1. Chain(0, 0, <<>>) = {}
        BY DEF Chain
    <2> QED BY <1>1, <2>1 DEF LogLinks
<1>5. \A l : l \notin Links
    BY <1>3, <1>4, LinkPlaces
<1>6. \A i \in Node : Whole(node[i])
    BY <1>1, NodesAssumption, ContextAssumption DEF Whole
<1>7. Uncompacted /\ SendersElected
    BY <1>2, <1>3, <1>6 DEF Uncompacted, SendersElected
<1>8. EntriesElected /\ LinksAgree /\ LeadersOwn
    BY <1>5 DEF EntriesElected, LinksAgree, LeadersOwn
<1> QED BY <1>7, <1>8 DEF LogsAccounted

\* A whole log in terms of its links.
LEMMA LogView ==
    ASSUME Typed(Command), LogsAccounted
    PROVE  \A i \in Node :
               /\ last_log_index(node[i]) = Len(node[i].log)
               /\ Len(node[i].log) \in Nat
               /\ DOMAIN node[i].log = 1..Len(node[i].log)
               /\ \A k \in Int : /\ has_entry(node[i], k) <=> k \in DOMAIN node[i].log
                                 /\ get_entry(node[i], k) = node[i].log[k]
               /\ \A k \in DOMAIN node[i].log : At(node[i].log, k) \in Links
               /\ LogLinks(i) = {At(node[i].log, k) : k \in DOMAIN node[i].log}
<1> SUFFICES ASSUME NEW i \in Node
             PROVE  /\ last_log_index(node[i]) = Len(node[i].log)
                    /\ Len(node[i].log) \in Nat
                    /\ DOMAIN node[i].log = 1..Len(node[i].log)
                    /\ \A k \in Int : /\ has_entry(node[i], k) <=> k \in DOMAIN node[i].log
                                      /\ get_entry(node[i], k) = node[i].log[k]
                    /\ \A k \in DOMAIN node[i].log : At(node[i].log, k) \in Links
                    /\ LogLinks(i) = {At(node[i].log, k) : k \in DOMAIN node[i].log}
    OBVIOUS
<1>1. NodeOK(node[i], Command) /\ Whole(node[i])
    BY DEF Typed, LogsAccounted, Uncompacted
<1>2. /\ last_log_index(node[i]) = Len(node[i].log)
      /\ Len(node[i].log) \in Nat
      /\ DOMAIN node[i].log = 1..Len(node[i].log)
      /\ \A k \in Int : has_entry(node[i], k) <=> k \in DOMAIN node[i].log
      /\ \A k \in Int : get_entry(node[i], k) = node[i].log[k]
    BY <1>1, WholeLog, Zenon
<1>3. LogLinks(i) = {At(node[i].log, k) : k \in DOMAIN node[i].log}
    BY LogTypes, LogChain DEF LogLinks
<1>4. \A k \in DOMAIN node[i].log : At(node[i].log, k) \in Links
    BY <1>3, LinkPlaces
<1> QED BY <1>2, <1>3, <1>4

\* Logs of links that agree match.
LEMMA AccountedLogsMatch ==
    ASSUME Typed(Command), LogsAccounted
    PROVE  LogMatching
<1> SUFFICES ASSUME NEW i \in Node, NEW j \in Node, NEW k \in 1..last_log_index(node[i]),
                    has_entry(node[i], k), has_entry(node[j], k),
                    get_entry(node[i], k).term = get_entry(node[j], k).term,
                    NEW l \in 1..k, has_entry(node[i], l), has_entry(node[j], l),
                    get_entry(node[i], l) # get_entry(node[j], l)
             PROVE  FALSE
    BY DEF LogMatching
<1> DEFINE a == node[i].log
           b == node[j].log
<1>1. /\ DOMAIN a = 1..Len(a) /\ DOMAIN b = 1..Len(b) /\ Len(a) \in Nat /\ Len(b) \in Nat
      /\ \A h \in DOMAIN a : At(a, h) \in Links
      /\ \A h \in DOMAIN b : At(b, h) \in Links
    BY LogView
<1>2. k \in Int /\ l \in Int /\ l <= k /\ 1 <= l
    BY LogView
<1>3. k \in DOMAIN a /\ k \in DOMAIN b /\ l \in DOMAIN a /\ l \in DOMAIN b
      /\ a[k].term = b[k].term /\ a[l] # b[l]
    BY <1>2, LogView
<1>4. \A x, y \in Links : x.index = y.index /\ x.entry.term = y.entry.term => x = y
    BY DEF LogsAccounted, LinksAgree
<1>5. ASSUME NEW h \in DOMAIN a, h \in DOMAIN b, a[h].term = b[h].term
      PROVE  At(a, h) = At(b, h)
    <2>1. At(a, h).index = At(b, h).index /\ At(a, h).entry = a[h] /\ At(b, h).entry = b[h]
        BY DEF At
    <2> HIDE DEF At, a, b
    <2> QED BY <1>1, <1>4, <1>5, <2>1
<1>6. \A h : /\ At(a, h).entry = a[h] /\ At(b, h).entry = b[h]
             /\ At(a, h).before = IF h = 1 THEN 0 ELSE a[h - 1].term
             /\ At(b, h).before = IF h = 1 THEN 0 ELSE b[h - 1].term
    BY DEF At
<1> HIDE DEF a, b, At
<1> DEFINE bad == {h \in 1..k : a[h] # b[h]}
<1>7. PICK g \in bad : \A h \in bad : h <= g
    <2>1. bad \subseteq 1..k /\ l \in bad
        BY <1>2, <1>3
    <2> HIDE DEF bad
    <2>2. IsFiniteSet(bad)
        <3>1. IsFiniteSet(1..k)
            <4>1. 1 \in Int
                OBVIOUS
            <4> QED BY <1>2, <4>1, FS_Interval, Zenon
        <3> QED BY <2>1, <3>1, FS_Subset, Zenon
    <2>3. bad \subseteq Nat /\ bad # {}
        BY <1>2, <2>1
    <2> QED BY <2>2, <2>3, GreatestExists, Zenon
<1>8. g \in 1..k /\ a[g] # b[g] /\ g \in DOMAIN a /\ g \in DOMAIN b /\ g \in Int
    BY <1>1, <1>2, <1>3, <1>7
<1>9. CASE g = k
    BY <1>3, <1>5, <1>6, <1>8, <1>9
<1>10. CASE g # k
    <2>1. g + 1 \in 1..k /\ g + 1 \in DOMAIN a /\ g + 1 \in DOMAIN b /\ ~(g + 1 <= g)
          /\ g + 1 # 1 /\ g + 1 - 1 = g
        BY <1>1, <1>2, <1>3, <1>8, <1>10
    <2>2. a[g + 1] = b[g + 1]
        BY <1>7, <2>1
    <2>3. At(a, g + 1) = At(b, g + 1)
        BY <1>5, <2>1, <2>2
    <2>4. a[g].term = b[g].term
        BY <1>6, <2>1, <2>3
    <2> QED BY <1>5, <1>6, <1>8, <2>4
<1> QED BY <1>9, <1>10

\* A leader that has every link of its term has every entry of it.
LEMMA AccountedLeadersOwn ==
    ASSUME Typed(Command), LogsAccounted
    PROVE  LeaderOwnsItsTerm
<1> SUFFICES ASSUME NEW i \in Node, NEW j \in Node, NEW k \in 1..last_log_index(node[j]),
                    node[i].role = Leader, has_entry(node[j], k),
                    get_entry(node[j], k).term = node[i].current_term
             PROVE  has_entry(node[i], k) /\ get_entry(node[i], k) = get_entry(node[j], k)
    BY DEF LeaderOwnsItsTerm
<1> DEFINE a == node[i].log
           b == node[j].log
<1>1. k \in Int /\ k \in DOMAIN b /\ b[k].term = node[i].current_term
    BY LogView
<1>2. At(b, k) \in Links /\ LogLinks(i) = {At(a, h) : h \in DOMAIN a}
    BY <1>1, LogView
<1>3. \A log, h : At(log, h).index = h /\ At(log, h).entry = log[h]
    BY DEF At
<1> HIDE DEF a, b, At
<1>4. At(b, k) \in LogLinks(i)
    BY <1>1, <1>2, <1>3 DEF LogsAccounted, LeadersOwn
<1>5. k \in DOMAIN a /\ a[k] = b[k]
    BY <1>2, <1>3, <1>4
<1> QED BY <1>1, <1>5, LogView DEF a, b

\* A leader that appends drops nothing.
LEMMA AccountedAppendOnly ==
    ASSUME Typed(Command), Typed(Command)', VotesAccounted, LogsAccounted, LogMove
    PROVE  \A i \in Node :
               /\ node[i].role = Leader
               /\ node'[i].role = Leader
               /\ node'[i].current_term = node[i].current_term
               => \A k \in 1..last_log_index(node[i]) :
                      has_entry(node[i], k) /\ k >= node'[i].first_log_index =>
                          /\ has_entry(node'[i], k)
                          /\ get_entry(node'[i], k) = get_entry(node[i], k)
<1> SUFFICES ASSUME NEW i \in Node, node[i].role = Leader,
                    NEW k \in 1..last_log_index(node[i]), has_entry(node[i], k)
             PROVE  /\ has_entry(node'[i], k)
                    /\ get_entry(node'[i], k) = get_entry(node[i], k)
    OBVIOUS
<1> DEFINE a == node[i].log
           b == node'[i].log
<1>1. k \in Int /\ k \in DOMAIN a /\ get_entry(node[i], k) = a[k] /\ a \in Seq(LogEntry(Command))
    BY LogView, LogTypes
<1>2. NodeOK(node'[i], Command) /\ Whole(node'[i])
    <2>1. NodeOK(node'[i], Command)
        BY DEF Typed
    <2> QED BY <2>1 DEF LogMove
<1>3. /\ \A h \in Int : has_entry(node'[i], h) <=> h \in DOMAIN b
      /\ \A h \in Int : get_entry(node'[i], h) = b[h]
      /\ DOMAIN b = 1..Len(b)
    BY <1>2, WholeLog, Zenon
<1>4. b = a \/ \E e : Appended(a, e, b)
    BY LeaderAppends
<1>5. Len(a) \in Nat /\ k \in 1..Len(a)
    BY LogView
<1> HIDE DEF a, b
<1>6. k \in DOMAIN b /\ b[k] = a[k]
    <2>1. CASE b = a
        BY <1>1, <2>1
    <2>2. ASSUME NEW e, Appended(a, e, b)
          PROVE  Len(b) = Len(a) + 1 /\ b[k] = a[k]
        BY <1>5, <2>2 DEF Appended
    <2>3. CASE \E e : Appended(a, e, b)
        <3>1. Len(b) = Len(a) + 1 /\ b[k] = a[k]
            BY <2>2, <2>3, Zenon
        <3>2. DOMAIN b = 1..Len(b)
            BY <1>3, Zenon
        <3> QED BY <1>5, <3>1, <3>2
    <2> QED BY <1>4, <2>1, <2>3
<1>7. has_entry(node'[i], k) /\ get_entry(node'[i], k) = b[k]
    BY <1>1, <1>3, <1>6, Zenon
<1> QED BY <1>1, <1>6, <1>7

\* The inductive invariant of the four theorems.
Accounted == Typed(Command) /\ VotesAccounted /\ budget.duplicates = 0 /\ LogsAccounted

\* Every state of a cluster under the theorems' assumptions is accounted for,
\* and every step is one LogMove covers.
LEMMA AccountedStays ==
    ASSUME ConfigChanges = {}, InitialMembers = Node, MaxDuplicates = 0,
           MaxLog < SnapshotThreshold
    PROVE  /\ Init => Accounted
           /\ Accounted /\ [Next]_vars => Accounted' /\ LogMove
<1>1. Command \in EntryTypes /\ ConfigChanges \subseteq Command
    BY DEF EntryTypes, EntryType
<1>2. Init => Accounted
    BY InitType, InitAccounted, InitLogs DEF Accounted
<1>3. ASSUME Accounted, [Next]_vars PROVE Accounted' /\ LogMove
    <2>1. Typed(Command)'
        BY <1>1, <1>3, NextType DEF Accounted
    <2>2. VotesAccounted' /\ budget'.duplicates = 0
        BY <1>3, VotesStayAccounted DEF Accounted
    <2>3. LogsAccounted'
        BY <1>3, LogsStayAccounted DEF Accounted
    <2>4. LogMove
        BY <1>3, <2>1, Disassemble, LogsMove DEF Accounted, LogsAccounted
    <2> QED BY <2>1, <2>2, <2>3, <2>4 DEF Accounted
<1> QED BY <1>2, <1>3

(***************************************************************************)
(* In a cluster of any size whose configuration is fixed, whose network    *)
(* duplicates nothing and whose nodes take no snapshot, every entry is     *)
(* where a leader put it and in a copy of that: LogsAccounted.  Clients    *)
(* that stay below the threshold of the snapshots are what MaxLog stands   *)
(* for.                                                                    *)
(***************************************************************************)
THEOREM LogsAreAccounted ==
    ASSUME ConfigChanges = {}, InitialMembers = Node, MaxDuplicates = 0,
           MaxLog < SnapshotThreshold
    PROVE  Spec => []LogsAccounted
<1>1. Init => Accounted
    BY AccountedStays
<1>2. Accounted /\ [Next]_vars => Accounted'
    BY AccountedStays
<1>3. Accounted => LogsAccounted
    BY DEF Accounted
<1> QED BY <1>1, <1>2, <1>3, PTL DEF Spec

(***************************************************************************)
(* Log Matching: in such a cluster two logs that hold an entry of the same *)
(* term at an index agree up to there, whatever was lost, overtaken or     *)
(* forgotten by a restart on the way.                                      *)
(***************************************************************************)
THEOREM LogsMatch ==
    ASSUME ConfigChanges = {}, InitialMembers = Node, MaxDuplicates = 0,
           MaxLog < SnapshotThreshold
    PROVE  Spec => []LogMatching
<1>1. Spec => []LogsAccounted
    BY LogsAreAccounted
<1>2. Spec => [](Typed(Command) /\ VotesAccounted)
    BY VotesAreAccounted
<1>3. Typed(Command) /\ LogsAccounted => LogMatching
    BY AccountedLogsMatch
<1> QED BY <1>1, <1>2, <1>3, PTL

(***************************************************************************)
(* In such a cluster an entry of the term a node leads is at its place in  *)
(* that leader's own log, wherever else it is.                             *)
(***************************************************************************)
THEOREM LeadersOwnTheirTerm ==
    ASSUME ConfigChanges = {}, InitialMembers = Node, MaxDuplicates = 0,
           MaxLog < SnapshotThreshold
    PROVE  Spec => []LeaderOwnsItsTerm
<1>1. Spec => []LogsAccounted
    BY LogsAreAccounted
<1>2. Spec => [](Typed(Command) /\ VotesAccounted)
    BY VotesAreAccounted
<1>3. Typed(Command) /\ LogsAccounted => LeaderOwnsItsTerm
    BY AccountedLeadersOwn
<1> QED BY <1>1, <1>2, <1>3, PTL

(***************************************************************************)
(* Leader Append-Only: in such a cluster no message and no request makes a *)
(* node drop or overwrite an entry while it leads, the AppendEntries of    *)
(* its own term included, which handle_append_entries does not refuse.     *)
(***************************************************************************)
THEOREM LeadersAppendOnly ==
    ASSUME ConfigChanges = {}, InitialMembers = Node, MaxDuplicates = 0,
           MaxLog < SnapshotThreshold
    PROVE  Spec => LeaderAppendOnly
<1> DEFINE Keeps == \A i \in Node :
               /\ node[i].role = Leader
               /\ node'[i].role = Leader
               /\ node'[i].current_term = node[i].current_term
               => \A k \in 1..last_log_index(node[i]) :
                      has_entry(node[i], k) /\ k >= node'[i].first_log_index =>
                          /\ has_entry(node'[i], k)
                          /\ get_entry(node'[i], k) = get_entry(node[i], k)
<1>1. Init => Accounted
    BY AccountedStays
<1>2. Accounted /\ [Next]_vars => Accounted'
    BY AccountedStays
<1>3. Accounted /\ [Next]_vars => Keeps
    BY AccountedStays, AccountedAppendOnly DEF Accounted
<1> HIDE DEF Keeps
<1>4. Accounted /\ [Next]_vars => [Keeps]_node
    BY <1>3
<1>5. Spec => [][Keeps]_node
    BY <1>1, <1>2, <1>4, PTL DEF Spec
<1> QED BY <1>5 DEF LeaderAppendOnly, Keeps

-----------------------------------------------------------------------------
(* A cluster with one leader                                               *)

\* One event of node i while the log of x is followed, on a network whose links
\* were links.
FollowEvent(x, i, b, links) ==
    /\ NodeOK(b, EntryType)
    /\ b.id = i
    /\ \/ links = net
       \/ \E s \in Node : \E m \in BagToSet(net[s][i]) : links = Taken(s, i, m)
    /\ \/ Followup(node[i], b, node[x].log)
       \/ i # x /\ Following(b, node[x].log) /\ NoPart(b)
       \/ i = x /\ Len(node[x].log) < MaxLog /\ Lengthens(node[x], b)

\* What is known of the nodes while x is followed.
LEMMA FollowedNodes ==
    ASSUME TypeOK, NEW x \in Node, Followed(x), MaxLog < SnapshotThreshold
    PROVE  /\ node[x].log \in Seq(LogEntry(EntryType))
           /\ Len(node[x].log) < SnapshotThreshold
           /\ \A i \in Node : /\ NodeOK(node[i], EntryType)
                              /\ node[i].id = i
                              /\ node[i].outbox = no_messages
                              /\ Following(node[i], node[x].log)
                              /\ last_log_index(node[i]) = Len(node[i].log)
<1>1. \A i \in Node : /\ NodeOK(node[i], EntryType)
                      /\ node[i].id = i
                      /\ node[i].outbox = no_messages
                      /\ Following(node[i], node[x].log)
    BY DEF TypeOK, Typed, Followed, Following
<1>2. node[x].log \in Seq(LogEntry(EntryType))
    BY <1>1 DEF NodeOK
<1>3. Len(node[x].log) < SnapshotThreshold
    <2>1. Len(node[x].log) <= MaxLog
        BY DEF Followed
    <2>2. Len(node[x].log) \in Nat
        BY <1>2
    <2>3. SnapshotThreshold \in Nat /\ MaxLog \in Nat
        BY ContextAssumption, NodesAssumption
    <2> QED BY <2>1, <2>2, <2>3
<1>4. \A i \in Node : last_log_index(node[i]) = Len(node[i].log)
    BY <1>1, <1>2, FollowingFirst
<1> QED BY <1>1, <1>2, <1>3, <1>4

\* A step is such an event, a restart or a duplication.
LEMMA NextFollow ==
    ASSUME MaxLog < SnapshotThreshold, TypeOK, NEW x \in Node, OnlyLeader(x),
           Followed(x), Next
    PROVE  \/ \E i \in Node : \E b, links : FollowEvent(x, i, b, links) /\ Step(i, b, links)
           \/ \E i \in Node : Restart(i)
           \/ \E i, j \in Node : \E m \in BagToSet(net[i][j]) : Duplicate(i, j, m)
<1> DEFINE Done == \E i \in Node : \E b, links :
                       FollowEvent(x, i, b, links) /\ Step(i, b, links)
           h == node[x].log
           T == EntryType
<1>1. T \in EntryTypes /\ ConfigChanges \subseteq T /\ Command \subseteq T
    BY ClusterAssumption DEF EntryTypes, EntryType
<1>2. /\ h \in Seq(LogEntry(T))
      /\ Len(h) < SnapshotThreshold
      /\ \A i \in Node : /\ NodeOK(node[i], T)
                         /\ node[i].id = i
                         /\ node[i].outbox = no_messages
                         /\ Following(node[i], h)
                         /\ last_log_index(node[i]) = Len(node[i].log)
    BY FollowedNodes
<1> HIDE DEF h, T
<1>3. ASSUME NEW i \in Node, NEW b, NodeOK(b, T), b.id = i, Followup(node[i], b, h),
             Step(i, b, net)
      PROVE  Done
    <2>1. FollowEvent(x, i, b, net)
        BY <1>3 DEF FollowEvent, h, T
    <2> QED BY <1>3, <2>1
<1>4. ASSUME NEW i \in Node, NEW b, NodeOK(b, T), b.id = i, Lengthens(node[i], b),
             node[i].role = Leader, last_log_index(node[i]) < MaxLog, Step(i, b, net)
      PROVE  Done
    <2>1. i = x
        BY <1>4 DEF OnlyLeader
    <2>2. FollowEvent(x, i, b, net)
        BY <1>2, <1>4, <2>1 DEF FollowEvent, T
    <2> QED BY <1>4, <2>2
<1>5. ASSUME NEW i \in Node, NEW j \in Node, NEW m \in BagToSet(net[i][j]), Deliver(i, j, m)
      PROVE  Done
    <2> DEFINE b == handle_message(node[j], i, m)
               links == Taken(i, j, m)
    <2>1. m \in RaftMsg(T)
        BY DEF TypeOK, Typed, T
    <2>2. NodeOK(b, T)
        BY <1>1, <1>2, <2>1, HandleMessageType, Zenon
    <2>3. m.type # "InstallSnapshot" /\ (m.type = "AppendEntries" => j # x /\ PartOf(m, h))
        BY DEF Followed, h
    <2>4. \/ Followup(node[j], b, h)
          \/ j # x /\ Following(b, h) /\ NoPart(b)
        BY <1>1, <1>2, <2>1, <2>3, HandleFollows
    <2>5. Step(j, b, links)
        BY <1>5 DEF Deliver
    <2>6. b.id = j
        <3>1. Silent(node[j])
            BY <1>2 DEF Silent, no_messages
        <3>2. \/ Quiet(node[j], b, T) \/ Starts(node[j], b, T)
              \/ m.type = "RequestVote" /\ Votes(node[j], b, i, m.term)
              \/ m = Grant(m.term) /\ Counts(node[j], b, i, m.term)
            BY <1>1, <1>2, <2>1, <3>1, HandleMessageStep
        <3> HIDE DEF b
        <3> QED BY <1>2, <3>2 DEF Quiet, Starts, Votes, Counts
    <2> HIDE DEF b
    <2>7. \E s \in Node : \E l \in BagToSet(net[s][j]) : links = Taken(s, j, l)
        OBVIOUS
    <2> HIDE DEF links
    <2>8. FollowEvent(x, j, b, links)
        BY <2>2, <2>4, <2>6, <2>7 DEF FollowEvent, h, T
    <2> QED BY <2>5, <2>8
<1>6. ASSUME NEW i \in Node, ElectionTimer(i) PROVE Done
    <2> DEFINE b == handle_election_timer(node[i])
    <2>1. NodeOK(b, T)
        BY <1>2, ElectionTimerType, Zenon
    <2>2. Followup(node[i], b, h)
        BY <1>2, TimersFollow
    <2>3. Step(i, b, net)
        BY <1>6 DEF ElectionTimer
    <2>4. b.id = i
        <3>1. Silent(node[i])
            BY <1>2 DEF Silent, no_messages
        <3>2. Quiet(node[i], b, T) \/ Starts(node[i], b, T)
            BY <1>2, <3>1, ElectionTimerStep, Zenon
        <3> HIDE DEF b
        <3> QED BY <1>2, <3>2 DEF Quiet, Starts
    <2> HIDE DEF b, Done
    <2> QED BY <1>3, <2>1, <2>2, <2>3, <2>4
<1>7. ASSUME NEW i \in Node, HeartbeatTimer(i) PROVE Done
    <2> DEFINE b == handle_heartbeat_timer(node[i])
    <2>1. NodeOK(b, T)
        BY <1>2, HeartbeatType, Zenon
    <2>2. node[i].role = Leader /\ Step(i, b, net)
        BY <1>7 DEF HeartbeatTimer
    <2>3. Followup(node[i], b, h)
        BY <1>2, <2>2, TimersFollow
    <2>4. b.id = i
        <3>1. Silent(node[i])
            BY <1>2 DEF Silent, no_messages
        <3>2. Quiet(node[i], b, T)
            BY <1>2, <3>1, HeartbeatQuiet, Zenon
        <3> HIDE DEF b
        <3> QED BY <1>2, <3>2 DEF Quiet
    <2> HIDE DEF b, Done
    <2> QED BY <1>3, <2>1, <2>2, <2>3, <2>4
<1>8. ASSUME NEW i \in Node, node[i].role = Leader, NEW type \in T
      PROVE  LET b == submit_entry(node[i], type)
             IN  /\ Lengthens(node[i], b)
                 /\ Lengthens(node[i], [b EXCEPT !.pending_change = last_log_index(b)])
    <2>1. i = x
        BY <1>8 DEF OnlyLeader
    <2>2. Following(node[i], node[i].log)
        BY <1>2, <2>1 DEF h
    <2> QED BY <1>2, <1>8, <2>2, SubmitFollows DEF T
<1>9. ASSUME NEW i \in Node, NEW c \in Command, ClientCommand(i, c) PROVE Done
    <2> DEFINE b == submit_client_command(node[i], c)
    <2>1. NodeOK(b, T) /\ Quiet(node[i], b, T)
        <3>1. Silent(node[i])
            BY <1>2 DEF Silent, no_messages
        <3> QED BY <1>1, <1>2, <3>1, SubmitType, SubmitQuiet, Zenon
    <2>2. node[i].role = Leader /\ last_log_index(node[i]) < MaxLog /\ Step(i, b, net)
        BY <1>9 DEF ClientCommand
    <2>3. c \in T
        BY <1>1
    <2>4. Lengthens(node[i], b)
        BY <1>8, <2>2, <2>3 DEF submit_client_command
    <2> HIDE DEF b, Done
    <2>5. b.id = i
        BY <1>2, <2>1 DEF Quiet
    <2> QED BY <1>4, <2>1, <2>2, <2>4, <2>5
<1>10. ASSUME NEW i \in Node, NEW e \in ConfigChanges, ConfigChangeEvent(i, e) PROVE Done
    <2> DEFINE b == submit_config_change(node[i], e)
    <2>1. NodeOK(b, T) /\ Quiet(node[i], b, T)
        <3>1. Silent(node[i])
            BY <1>2 DEF Silent, no_messages
        <3> QED BY <1>1, <1>2, <3>1, SubmitType, SubmitQuiet, Zenon
    <2>2. node[i].role = Leader /\ last_log_index(node[i]) < MaxLog /\ Step(i, b, net)
        BY <1>10 DEF ConfigChangeEvent
    <2>3. e \in T
        BY <1>1
    <2>4. Lengthens(node[i], b)
        BY <1>8, <2>2, <2>3 DEF submit_config_change
    <2> HIDE DEF b, Done
    <2>5. b.id = i
        BY <1>2, <2>1 DEF Quiet
    <2> QED BY <1>4, <2>1, <2>2, <2>4, <2>5
<1>11. ASSUME NEW i \in Node, NEW p \in Node, AddServer(p) \in ConfigChanges,
              AddServerRequest(i, p)
       PROVE  Done
    <2> DEFINE b == add_server(node[i], p)
    <2>1. NodeOK(b, T) /\ Quiet(node[i], b, T)
        <3>1. Silent(node[i])
            BY <1>2 DEF Silent, no_messages
        <3> QED BY <1>1, <1>2, <1>11, <3>1, SubmitType, SubmitQuiet, Zenon
    <2>2. may_add_server(node[i], p) /\ last_log_index(node[i]) < MaxLog /\ Step(i, b, net)
        BY <1>11 DEF AddServerRequest
    <2>3. AddServer(p) \in T /\ node[i].role = Leader
        BY <1>1, <1>11, <2>2 DEF may_add_server
    <2>4. Lengthens(node[i], b)
        BY <1>8, <2>2, <2>3 DEF add_server, submit_config_change
    <2> HIDE DEF b, Done
    <2>5. b.id = i
        BY <1>2, <2>1 DEF Quiet
    <2> QED BY <1>4, <2>1, <2>2, <2>3, <2>4, <2>5
<1>12. ASSUME NEW i \in Node, NEW p \in Node, RemoveServer(p) \in ConfigChanges,
              RemoveServerRequest(i, p)
       PROVE  Done
    <2> DEFINE b == remove_server(node[i], p)
    <2>1. NodeOK(b, T) /\ Quiet(node[i], b, T)
        <3>1. Silent(node[i])
            BY <1>2 DEF Silent, no_messages
        <3> QED BY <1>1, <1>2, <1>12, <3>1, SubmitType, SubmitQuiet, Zenon
    <2>2. may_remove_server(node[i], p) /\ last_log_index(node[i]) < MaxLog
          /\ Step(i, b, net)
        BY <1>12 DEF RemoveServerRequest
    <2>3. RemoveServer(p) \in T /\ node[i].role = Leader
        BY <1>1, <1>12, <2>2 DEF may_remove_server
    <2>4. Lengthens(node[i], b)
        BY <1>8, <2>2, <2>3 DEF remove_server, submit_config_change
    <2> HIDE DEF b, Done
    <2>5. b.id = i
        BY <1>2, <2>1 DEF Quiet
    <2> QED BY <1>4, <2>1, <2>2, <2>3, <2>4, <2>5
<1> HIDE DEF Done
<1>13. \/ Done
       \/ \E i \in Node : Restart(i)
       \/ \E i, j \in Node : \E m \in BagToSet(net[i][j]) : Duplicate(i, j, m)
    BY <1>5, <1>6, <1>7, <1>9, <1>10, <1>11, <1>12, Zenon DEF Next
<1> QED BY <1>13 DEF Done

\* What is on its way afterwards was so before, or is from the outbox of b.
Posted(i, b) ==
    \A a, d \in Node : \A e \in BagToSet(net'[a][d]) :
        \/ e \in BagToSet(net[a][d])
        \/ a = i /\ \E k \in DOMAIN b.outbox[d] : b.outbox[d][k] = e

\* The messages of an event.
LEMMA FollowMessages ==
    ASSUME TypeOK, NEW x \in Node, NEW i \in Node, NEW b, NEW links,
           FollowEvent(x, i, b, links), Step(i, b, links)
    PROVE  Posted(i, b)
<1>1. LinksOK(net, EntryType)
    BY DEF TypeOK, Typed, LinksOK
<1>2. LinksOK(links, EntryType)
    BY <1>1, TakenType DEF FollowEvent
<1>3. \A a, d \in Node : \A e \in BagToSet(links[a][d]) : e \in BagToSet(net[a][d])
    <2>1. ASSUME NEW s \in Node, NEW m \in BagToSet(net[s][i]), links = Taken(s, i, m)
          PROVE  <1>3!:
        <3> DEFINE C == net[s][i] (-) SetToBag({m})
        <3>1. IsABag(net[s][i]) /\ m \in DOMAIN net[s][i]
            BY <1>1 DEF LinksOK, BagToSet
        <3>2. OneLess(net[s][i], m, C)
            BY <3>1, TakeFromLink, Zenon
        <3>3. \A a, d \in Node : links[a][d] = IF a = s /\ d = i THEN C ELSE net[a][d]
            BY <2>1 DEF Taken
        <3> HIDE DEF C
        <3>4. DOMAIN C \subseteq DOMAIN net[s][i]
            BY <3>2 DEF OneLess
        <3> QED BY <3>3, <3>4 DEF BagToSet
    <2> QED BY <2>1 DEF FollowEvent
<1>4. PICK lost : net' = drain_and_send(links, i, b.outbox, lost)
    BY DEF Step
<1>5. b.outbox \in [Node -> Seq(RaftMsg(EntryType))]
    BY DEF FollowEvent, NodeOK
<1> SUFFICES ASSUME NEW a \in Node, NEW d \in Node, NEW e \in BagToSet(net'[a][d])
             PROVE  \/ e \in BagToSet(net[a][d])
                    \/ a = i /\ \E k \in DOMAIN b.outbox[d] : b.outbox[d][k] = e
    BY DEF Posted
<1> DEFINE C == links[a][d] (+) ToBag(b.outbox[d])
<1>6. net'[a][d] = links[a][d] \/ (a = i /\ net'[a][d] = C)
    BY <1>2, <1>4 DEF drain_and_send, LinksOK
<1>7. Added(links[a][d], b.outbox[d], C)
    <2>1. IsABag(links[a][d]) /\ b.outbox[d] \in Seq(RaftMsg(EntryType))
        BY <1>2, <1>5 DEF LinksOK
    <2> QED BY <2>1, AddToLink, Zenon
<1> HIDE DEF C
<1>8. CASE net'[a][d] = links[a][d]
    BY <1>3, <1>8
<1>9. CASE a = i /\ net'[a][d] = C
    <2>1. e \in DOMAIN C
        BY <1>9 DEF BagToSet
    <2>2. e \in DOMAIN links[a][d] \/ \E k \in DOMAIN b.outbox[d] : b.outbox[d][k] = e
        BY <1>7, <2>1 DEF Added
    <2> QED BY <1>3, <1>9, <2>2 DEF BagToSet
<1> QED BY <1>6, <1>8, <1>9

\* A copy of a message is no other message.
LEMMA DuplicateMessages ==
    ASSUME TypeOK, NEW i \in Node, NEW j \in Node, NEW m \in BagToSet(net[i][j]),
           Duplicate(i, j, m)
    PROVE  \A a, d \in Node : \A e \in BagToSet(net'[a][d]) : e \in BagToSet(net[a][d])
<1> DEFINE C == net[i][j] (+) SetToBag({m})
<1>1. DOMAIN SetToBag({m}) = {m}
    BY DEF SetToBag
<1>2. DOMAIN C = DOMAIN net[i][j] \cup {m}
    BY <1>1 DEF (+)
<1>3. m \in DOMAIN net[i][j]
    BY DEF BagToSet
<1>4. net' = [net EXCEPT ![i][j] = C]
    BY DEF Duplicate
<1> HIDE DEF C
<1>5. \A a, d \in Node : net'[a][d] = IF a = i /\ d = j THEN C ELSE net[a][d]
    BY <1>4 DEF TypeOK, Typed
<1> QED BY <1>2, <1>3, <1>5 DEF BagToSet

\* A longer history is followed as well.
LEMMA FollowingLonger ==
    ASSUME NEW T, NEW n, NodeOK(n, T), NEW h \in Seq(LogEntry(T)),
           NEW g \in Seq(LogEntry(T)), Len(h) <= Len(g),
           \A k \in DOMAIN h : g[k] = h[k], Following(n, h)
    PROVE  Following(n, g)
<1>1. Tracks(n, g)
    BY TracksLonger DEF Following
<1>2. n.last_applied <= Len(h)
    BY HistoryTypes DEF Following, Tracks
<1>3. Configured(n, g)
    BY <1>2, ConfiguredLonger DEF Following
<1> QED BY <1>1, <1>3 DEF Following

\* And what was a part of it still is.
LEMMA PartOfLonger ==
    ASSUME NEW S, NEW h \in Seq(S), NEW g \in Seq(S), Len(h) <= Len(g),
           \A k \in DOMAIN h : g[k] = h[k], NEW m, PartOf(m, h)
    PROVE  PartOf(m, g)
<1>1. \A k \in DOMAIN h : k \in DOMAIN g
    OBVIOUS
<1> QED BY <1>1 DEF PartOf

\* What an event of node i makes of the history and of what is on its way.
LEMMA EventFollowed ==
    ASSUME TypeOK, NEW x \in Node, OnlyLeader(x), OnlyLeader(x)', Followed(x),
           MaxLog < SnapshotThreshold, NEW i \in Node, NEW b, NEW links,
           FollowEvent(x, i, b, links), Step(i, b, links)
    PROVE  Followed(x)'
<1> DEFINE h == node[x].log
           g == node'[x].log
           c == [b EXCEPT !.outbox = no_messages]
<1>1. /\ h \in Seq(LogEntry(EntryType))
      /\ \A j \in Node : NodeOK(node[j], EntryType) /\ Following(node[j], h)
    BY FollowedNodes
<1>2. \A j \in Node : node'[j] = IF j = i THEN c ELSE node[j]
    BY DEF Step, TypeOK, Typed
<1>3. NodeOK(b, EntryType) /\ b.id = i
    BY DEF FollowEvent
<1>4. SameHistory(b, c) /\ c.role = b.role
    BY <1>3 DEF NodeOK, NodeFields, SameHistory
<1> HIDE DEF c
<1>5. g = IF i = x THEN b.log ELSE h
    BY <1>2, <1>4 DEF SameHistory
<1>6. Leader \in {node[i].role, b.role} => i = x
    <2>1. node'[i].role = b.role
        BY <1>2, <1>4
    <2> QED BY <2>1 DEF OnlyLeader
<1>7. Len(h) <= MaxLog /\ MaxLog \in Nat /\ Len(h) \in Nat
    BY <1>1, NodesAssumption DEF Followed
<1> DEFINE Letters == \A p \in Node : \A k \in DOMAIN b.outbox[p] :
                          /\ b.outbox[p][k].type # "InstallSnapshot"
                          /\ b.outbox[p][k].type = "AppendEntries" =>
                                 i = x /\ p # x /\ PartOf(b.outbox[p][k], g)
           Longer == /\ g \in Seq(LogEntry(EntryType))
                     /\ Len(h) <= Len(g)
                     /\ Len(g) <= MaxLog
                     /\ \A k \in DOMAIN h : g[k] = h[k]
<1>8. Longer /\ Following(b, g) /\ Letters
    <2>1. CASE Followup(node[i], b, h)
        <3>1. g = h
            BY <1>5, <2>1 DEF Followup
        <3>2. Following(b, g)
            BY <2>1, <3>1 DEF Followup
        <3>3. CASE NoPart(b)
            BY <1>1, <1>7, <3>1, <3>2, <3>3 DEF NoPart
        <3>4. CASE LogMail(b, h) /\ Leader \in {node[i].role, b.role}
            BY <1>1, <1>3, <1>6, <1>7, <3>1, <3>2, <3>4 DEF LogMail
        <3> QED BY <2>1, <3>3, <3>4 DEF Followup
    <2>2. CASE i # x /\ Following(b, h) /\ NoPart(b)
        <3>1. g = h
            BY <1>5, <2>2
        <3> QED BY <1>1, <1>7, <2>2, <3>1 DEF NoPart
    <2>3. CASE i = x /\ Len(h) < MaxLog /\ Lengthens(node[x], b)
        <3>1. g = b.log
            BY <1>5, <2>3
        <3>2. Longer
            <4>1. /\ g \in Seq(LogEntry(EntryType))
                  /\ Len(g) \in {Len(h), Len(h) + 1}
                  /\ \A k \in DOMAIN h : g[k] = h[k]
                BY <2>3, <3>1 DEF Lengthens
            <4> HIDE DEF g, h
            <4> QED BY <1>7, <2>3, <4>1 DEF h
        <3>3. Following(b, g) /\ Letters
            BY <1>3, <2>3, <3>1 DEF Lengthens, LogMail
        <3> QED BY <3>2, <3>3
    <2> QED BY <2>1, <2>2, <2>3 DEF FollowEvent
<1>9. ASSUME NEW j \in Node PROVE Following(node'[j], g)
    <2>1. CASE j = i
        BY <1>2, <1>4, <1>8, <2>1, SameFollowing
    <2>2. CASE j # i
        <3>1. Following(node[j], g)
            BY <1>1, <1>8, FollowingLonger
        <3> QED BY <1>2, <2>2, <3>1
    <2> QED BY <2>1, <2>2
<1>10. ASSUME NEW a \in Node, NEW d \in Node, NEW e \in BagToSet(net'[a][d])
       PROVE  /\ e.type # "InstallSnapshot"
              /\ e.type = "AppendEntries" => a = x /\ d # x /\ PartOf(e, g)
    <2>1. CASE e \in BagToSet(net[a][d])
        <3>1. /\ e.type # "InstallSnapshot"
              /\ e.type = "AppendEntries" => a = x /\ d # x /\ PartOf(e, h)
            BY <2>1 DEF Followed
        <3>2. PartOf(e, h) => PartOf(e, g)
            BY <1>1, <1>8, PartOfLonger
        <3> QED BY <3>1, <3>2
    <2>2. CASE a = i /\ \E k \in DOMAIN b.outbox[d] : b.outbox[d][k] = e
        BY <1>8, <2>2
    <2>3. Posted(i, b)
        BY FollowMessages
    <2> QED BY <1>10, <2>1, <2>2, <2>3 DEF Posted
<1> HIDE DEF Letters
<1> QED BY <1>8, <1>9, <1>10 DEF Followed, Following

\* Every step keeps the log of x followed, as long as no other node leads.
LEMMA NextFollowed ==
    ASSUME TypeOK, NEW x \in Node, OnlyLeader(x), OnlyLeader(x)', Followed(x),
           MaxLog < SnapshotThreshold, [Next]_vars
    PROVE  Followed(x)'
<1>1. CASE UNCHANGED vars
    BY <1>1 DEF vars, Followed
<1>2. ASSUME NEW i \in Node, Restart(i) PROVE Followed(x)'
    <2> DEFINE b == start_node(i, storage(node[i]))
               h == node[x].log
    <2>1. /\ h \in Seq(LogEntry(EntryType))
          /\ \A j \in Node : NodeOK(node[j], EntryType) /\ Following(node[j], h)
        BY FollowedNodes
    <2>2. Following(b, h) /\ b.log = node[i].log
        BY <2>1, StartFollows
    <2>3. net' = net /\ node' = [node EXCEPT ![i] = b]
        BY <1>2 DEF Restart
    <2> HIDE DEF b
    <2>4. \A j \in Node : node'[j] = IF j = i THEN b ELSE node[j]
        BY <2>3 DEF TypeOK, Typed
    <2>5. node'[x].log = h
        BY <2>2, <2>4
    <2>6. \A j \in Node : Following(node'[j], h)
        BY <2>1, <2>2, <2>4
    <2> HIDE DEF h
    <2> QED BY <2>3, <2>5, <2>6 DEF Followed, Following, h
<1>3. ASSUME NEW i \in Node, NEW j \in Node, NEW m \in BagToSet(net[i][j]),
             Duplicate(i, j, m)
      PROVE  Followed(x)'
    <2>1. node' = node
        BY <1>3 DEF Duplicate
    <2>2. \A a, d \in Node : \A e \in BagToSet(net'[a][d]) : e \in BagToSet(net[a][d])
        BY <1>3, DuplicateMessages
    <2> QED BY <2>1, <2>2 DEF Followed
<1>4. ASSUME NEW i \in Node, NEW b, NEW links, FollowEvent(x, i, b, links),
             Step(i, b, links)
      PROVE  Followed(x)'
    BY <1>4, EventFollowed
<1> QED BY <1>1, <1>2, <1>3, <1>4, NextFollow

\* At first there is nothing to follow.
LEMMA InitFollowed ==
    ASSUME Init, NEW x \in Node
    PROVE  Followed(x)
<1>1. TypeOK
    BY InitType DEF TypeOK
<1>2. ASSUME NEW i \in Node
      PROVE  /\ node[i].log = <<>> /\ node[i].id = i
             /\ node[i].first_log_index = 1
             /\ node[i].snapshot = None
             /\ node[i].last_applied = 0
             /\ node[i].state_machine = <<>>
             /\ \A p \in Node : node[i].members[p] = IF p \in InitialMembers \cup {i} THEN 1 ELSE 0
    BY DEF Init, start_node, new_from_builder, new_storage
<1>3. \A l \in 1..0 : FALSE
    OBVIOUS
<1>4. ASSUME NEW i \in Node PROVE Tracks(node[i], <<>>)
    <2>1. node[i] = start_node(i, new_storage)
        BY DEF Init
    <2> QED BY <2>1, FreshTracks
<1>5. ASSUME NEW i \in Node PROVE Configured(node[i], <<>>)
    <2> SUFFICES ASSUME NEW p \in Node \ {i} PROVE node[i].members[p] = MembersAt(<<>>, 0, p)
        BY <1>2 DEF Configured
    <2>1. node[i].members[p] = IF p \in InitialMembers THEN 1 ELSE 0
        <3>1. p # i /\ p \in Node
            OBVIOUS
        <3> QED BY <1>2, <3>1
    <2>2. \A y : {l \in 1..0 : <<>>[l].entry_type = y} = {}
        BY <1>3
    <2>3. Cardinality({}) = 0
        BY FS_EmptySet
    <2>4. MembersAt(<<>>, 0, p) = (IF p \in InitialMembers THEN 1 ELSE 0) + 0
        BY <2>2, <2>3 DEF MembersAt
    <2> QED BY <2>1, <2>4
<1>6. \A i, j \in Node : BagToSet(net[i][j]) = {}
    BY DEF Init, EmptyBag, SetToBag, BagToSet
<1>7. Len(<<>>) <= MaxLog
    BY NodesAssumption
<1>8. /\ node[x].log = <<>>
      /\ \A i \in Node : node[i].snapshot = None
    BY <1>2
<1> QED BY <1>4, <1>5, <1>6, <1>7, <1>8 DEF Followed

\* As long as no other node than x leads, and no snapshot is taken, every
\* node's log, state machine and configuration come from the beginning of the
\* log of x: with messages lost, late, repeated or out of order, with crashes
\* and restarts, and with servers that are added and removed.
THEOREM OneLeaderIsFollowed ==
    ASSUME MaxLog < SnapshotThreshold, NEW x \in Node
    PROVE  Spec /\ []OnlyLeader(x) => []Followed(x)
<1>1. Init => Followed(x)
    BY InitFollowed
<1>2. TypeOK /\ OnlyLeader(x) /\ OnlyLeader(x)' /\ Followed(x) /\ [Next]_vars => Followed(x)'
    BY NextFollowed
<1> QED BY <1>1, <1>2, TypeCorrect, PTL DEF Spec

\* Followers of one log agree.
LEMMA FollowersAgree ==
    ASSUME TypeOK, NEW x \in Node, Followed(x)
    PROVE  StateMachineSafety /\ AppliedIsPresent /\ ConfigurationAgreement
<1> DEFINE h == node[x].log
<1>1. \A i \in Node : /\ node[i].last_applied \in Nat
                      /\ node[i].state_machine = Applied(h, node[i].last_applied)
                      /\ Configured(node[i], h)
                      /\ node[i].id = i
    BY DEF TypeOK, Typed, Followed, Tracks, NodeOK
<1> HIDE DEF h
<1>2. ASSUME NEW i \in Node, NEW j \in Node,
             NEW k \in DOMAIN node[i].state_machine \cap DOMAIN node[j].state_machine
      PROVE  node[i].state_machine[k] = node[j].state_machine[k]
    <2>1. ASSUME NEW a \in Nat, NEW l \in DOMAIN Applied(h, a)
          PROVE  Applied(h, a)[l] = Shown(h[l])
        BY DEF Applied
    <2> QED BY <1>1, <2>1
<1>3. ASSUME NEW i \in Node, NEW k \in 1..node[i].last_applied
      PROVE  k \in DOMAIN node[i].state_machine
    BY <1>1 DEF Applied
<1>4. ASSUME NEW i \in Node, NEW j \in Node,
             node[i].last_applied = node[j].last_applied, NEW p \in Node \ {i, j}
      PROVE  node[i].members[p] = node[j].members[p]
    BY <1>1, <1>4 DEF Configured
<1> QED BY <1>2, <1>3, <1>4 DEF StateMachineSafety, AppliedIsPresent, ConfigurationAgreement

\* State Machine Safety under one leader: apply_committed_entries hands no two
\* state machines different commands at an index.
THEOREM OneLeaderStateMachineSafety ==
    ASSUME MaxLog < SnapshotThreshold, NEW x \in Node
    PROVE  Spec /\ []OnlyLeader(x) => []StateMachineSafety
<1>1. TypeOK /\ Followed(x) => StateMachineSafety
    BY FollowersAgree
<1> QED BY <1>1, OneLeaderIsFollowed, TypeCorrect, PTL

\* Under one leader, what apply_committed_entries counts as applied is in the
\* state machine, also when the node was restarted with an empty one.
THEOREM OneLeaderAppliedIsPresent ==
    ASSUME MaxLog < SnapshotThreshold, NEW x \in Node
    PROVE  Spec /\ []OnlyLeader(x) => []AppliedIsPresent
<1>1. TypeOK /\ Followed(x) => AppliedIsPresent
    BY FollowersAgree
<1> QED BY <1>1, OneLeaderIsFollowed, TypeCorrect, PTL

\* Under one leader, nodes that have applied the same entries have the same
\* configuration, in whatever order the entries reached them and however often
\* they were restarted and applied the changes anew.
THEOREM OneLeaderConfigurationAgreement ==
    ASSUME MaxLog < SnapshotThreshold, NEW x \in Node
    PROVE  Spec /\ []OnlyLeader(x) => []ConfigurationAgreement
<1>1. TypeOK /\ Followed(x) => ConfigurationAgreement
    BY FollowersAgree
<1> QED BY <1>1, OneLeaderIsFollowed, TypeCorrect, PTL
=============================================================================

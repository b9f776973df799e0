# A TLA+ model of metal_raft

metal_raft is a Raft implementation in Rust without the standard library. Its
`core` crate is the algorithm, written against traits (storage, transport, timer,
clock, collections); its `embassy` crate runs it on Cortex-M with an async
executor. This directory holds TLA+ modules translated from that code, the TLC
configurations that check them on small clusters, and proofs that TLAPS checks
for clusters of any size.

## The system

| Component | Source | State | Operations |
|---|---|---|---|
| Collections | `core/src/collections`, `embassy/src/collections` | arrays of ids, maps from id to index | `push`, `has_quorum`, `peers`, `compute_median` |
| Election | `components/election_manager.rs`, `role_transition_manager.rs`, `message_handler/election.rs` | votes, pre-votes, `in_pre_vote`, role, vote | pre-vote, election, vote requests and answers, becoming leader |
| Log replication | `components/log_replication_manager.rs`, `message_handler/replication.rs` | `next_index`, `match_index`, `commit_index`, `last_applied`, catching-up servers | AppendEntries, InstallSnapshot and their answers, heartbeats, commit, apply |
| Snapshots | `components/snapshot_manager.rs` | threshold | `should_create`, `create`, `compact` |
| Membership | `components/config_change_manager.rs`, `message_handler/admin.rs` | configuration, pending change | `add_server`, `remove_server`, `apply_changes` |
| Leader lease | `components/leader_lease.rs` | expiry | `grant`, `is_valid`, `revoke` |
| RaftNode | `raft_node.rs`, `raft_node_builder.rs` | all of the above | `new_from_builder`, `on_event`, `submit_client_command`, `read_linearizable` |
| Storage | `embassy/.../in_memory_storage.rs`, `semihosting_storage.rs` | term, vote, log with first index, snapshot; four files | append, truncate, discard, snapshot chunks, load |
| State machine | `embassy_state_machine.rs`, `heapless_chunk_collection.rs` | an index map of 16 keys, a text of 512 bytes | `apply`, `create_snapshot`, `restore_from_snapshot` |
| Node loop | `embassy_node.rs`, `embassy_timer.rs`, `cancellation_token.rs` | deadlines, pending client commands, the token | one event at a time, then drain the outbox and answer clients |
| Client | `raft_client.rs`, `cluster.rs`, `client_channel_hub.rs` | request channels, one-slot response channels | `submit_command`, `read_value`, `shutdown` |
| Channel transport | `channel_transport_hub.rs` | one bounded queue per node | `send`, `recv` |
| UDP transport | `udp/transport.rs`, `udp/driver.rs`, `serde_raft_message.rs` | outbox, inbox, sockets, a bus with wakers | `send`, `recv`, sender and listener tasks, `receive`, `transmit`, conversion to the wire form |

A node is sequential: its loop takes one event (a message, a timer, a client
request), the handlers run to their end and leave their messages in an outbox,
and the loop sends them. All tasks of the application share an executor with one
thread, so a task goes on until it waits. What is hard about the system is in
the network (loss, delay, reordering, duplication over UDP; full queues over
channels), in crashes between two file writes, in timers that race late answers,
in the arithmetic of log indices once a log has been compacted, in answers that
are matched to a client's call by nothing but their order, and in tasks that all
wait for one another. `PROJECT.json` lists the hazards at the lines where they
bite.

What makes the parts correct is what `core/README.md` and ADR-R4 promise: one
leader per term, leaders that never overwrite, logs that match, committed
entries that stay, state machines that agree, configurations that agree, lease
reads that are current and commands that are committed in the end; and, of the
parts the core is built on, a storage whose calls are atomic and durable and a
transport that hands over unchanged what was sent.

## The modules

    NodeCollection     ids, quorums, maps, the median
      RaftContext      messages, the state of a node, storage, timers, lease, common.rs
        ConfigChange     ConfigChangeManager
          LogReplication   LogReplicationManager, SnapshotManager, replication.rs
            Election         ElectionManager, RoleTransitionManager, election.rs
              RaftNode         construction, dispatch, admin.rs
                RaftNodes        the nodes of a cluster; the safety properties
                  History          a node compared with the log of the one leader
                  RaftCluster      ... over UDP, with crashes
                    RaftTimed        ... and with time, for the lease
                    VoteAccounting   where the votes are: an inductive invariant
                      LogAccounting    where the entries come from: another one
                    ClusterHistory   what is applied while one node leads: another one
                  RaftChannels     ... over the channel transport
                    ChannelNetwork   the channels as a network: implements RaftCluster
                    ChannelHistory   what is committed while one node leads: another one
                  EmbassyCluster   ... as tasks of an executor, with a client

    EmbassyStateMachine  the key-value map and the text of its snapshots
      SemihostingStorage   the storage in four files     implements DurableStorage

    UdpTransport         outbox, sockets, bus, inbox     implements LossyLink

`MCRaft`, `MCElected`, `MCMembership`, `MCTimed`, `MCChannels`, `MCEmbassy`,
`MCStorage` and `MCUdp` give the instances for TLC; the modules `...Proofs` hold
the theorems: `RaftNodeProofs`, `ElectionProofs`, `ReplicationProofs`, `LogProofs`,
`ChannelProofs`, `CommitProofs`, `StorageProofs` and `UdpProofs`.

### The core and its clusters

A handler of the code mutates a context in place. Here it is an operator from
the record of the node before the call to the record after it, with the name of
the Rust function, so that handlers compose as the code's calls do; where a
manager and a message handler have a function of the same name, the manager's is
`replication_x`. The messages a handler sends accumulate in the field `outbox`.
`RaftCluster` and `RaftChannels` turn the operators into actions: each action
takes one event of one node, applies the whole handler, and hands the outbox to
the network.

* `node[i]` is RaftNode with its managers, storage, timers and state machine.
  The node's and the storage's `current_term` are one field, as every assignment
  to the first is paired with a call on the second.
* A NodeCollection is an array of ids that is only counted, searched and
  filtered, so it is the number of copies it holds of each id. `push` adds a copy
  without looking: a vote counted twice counts twice.
* The log is a sequence with the index of its first entry, as in
  `InMemoryStorage`, so that index arithmetic after a compaction, and a
  `truncate_after` below the first index, do what they do in the code. A push
  onto the full array is ignored.
* The state machine is the sequence of commands applied, which tells apart more
  than the key-value map of the code does. A snapshot carries it in one chunk;
  one without any applied command serializes to nothing, and then
  `get_snapshot_chunk` returns none.
* A timer holds the ticks left before it may fire and fires no earlier. In the
  untimed runs all durations are 0 and a timer may fire at any time.
* In `RaftCluster` a link is a bag of messages: any of them may be delivered
  next, what the outbox holds for a node may be lost, a message may be
  duplicated, and `Restart` rebuilds a node from its storage between two events.
* In `RaftChannels` every node has one queue of `ChannelSize` envelopes. A node
  sends its outbox before it takes another event and waits at a full queue. The
  order in which it serves different receivers is left free, which only adds
  behaviours to those of the code.
* `ChannelNetwork` maps the second to the first: a link from i to j is the bag of
  what i has in the queue of j and of what it still holds for j (`Link`), and a
  node is seen as if it had sent everything (`Settled`). A `Send` is then no step of
  the network, an event of a node is one. A queue has to preserve what it carries
  for this to hold, not the order.

### The file-backed storage

`SemihostingStorage` models one node's storage under the calls the core makes of
it. An event of the core (`StartElection`, `GrantVote`, `AppendCommitted`,
`InstallSnapshot`, ...) is the sequence of storage calls that the handler makes, in
`calls`; `MakeCall` changes `memory` and puts the files the call writes in
`writes`; `WriteFile` writes one of them; `Crash` may fall between any two of these
steps and rebuilds the node with `load_from_disk`. What the core decides is not
modelled again: the environment is told the entries that the cluster commits
(`Committed`) and some that a leader appends in vain (`Stray`), and offers messages
that a correct cluster could send. A message of a newer term only changes the term
(`NewerTerm`), as `validate_term_and_step_down` has it, except an InstallSnapshot, whose
handler adopts the term and goes on. Snapshots are made by leaders, when their commit
index rises (`CommitAdvances`); a follower learns of a commit with entries
(`AppendCommitted`) or without (`CommitLearned`). The role is not kept by the storage: a
node that has voted for itself may be a leader. The state machine is the key-value map of
`embassy_state_machine.rs` with its capacity, and its snapshot is the text
`key=value\n...`, cut off where the vector ends; keys and values count one byte.

`DurableStorage` is what the core takes a storage for: every call is one atomic
step, a crash is none. The refinement maps `storage` to what a crash would leave
at this moment (`Recoverable`), an event that saves a snapshot counting as a whole.

### The UDP path

In `UdpTransport` a message goes through `outbox`, the socket's `tx`, the `bus` of
the mock driver, the socket's `rx` and `inbox`, each of them bounded. The sender and
listener tasks, the driver's tokens and the wire form are translated from the code;
the network stack between them (socket buffers, address resolution, what it does
with a frame beyond the MTU) is external and modelled by how the code relies on
it. `runner` and `waker` are the stack's task and the waker it leaves with the
bus when `receive` finds nothing. `LossyLink` is the promise: per pair of nodes
a first-in first-out link that may lose messages. The refinement concatenates
the five queues.

### The application

`EmbassyCluster` runs `EmbassyNode::run` for each node over the channel transport,
and a `RaftClient`. `stage[i]` is where the loop of node i is. It selects a client
request first, then a timer, then a message (`TakeRequest`, `TakeTimer`,
`TakeMessage`); the guard of each is that the earlier sources have nothing. `Send`
puts into the queues what has room and the task waits with the rest; `FinishEvent`
answers the pending commands whose index is committed. `Parked(i)` says that the
task waits; only the task that runs, or any task once that one waits, takes a
step (`Polled`). Response channels have one slot and `try_send` ignores a taken one
(`Answer`). A tick is one heartbeat interval and passes when no task has work,
or while a task spins (`Spinning`): events are handled faster than timers run out.
The token is looked at once per loop and every 10 ms of waiting, so a stop
and an event may come in either order.

Two things are simpler than in the code. The outbox is kept per receiver and `Send`
serves every receiver that has room, where `drain_and_send_messages` goes through it in
order and waits at the first full queue: as to deadlocks the model is kinder. In
`client` no queue fills, so that it makes no difference, and `starved` ends in a
deadlock all the same. And `TakeMessage` waits for a timer that has run out to be served,
where the code's `timer_future` looks at the deadlines every 10 ms only and takes a message
that arrives before it looks again. The next round begins with a look, so at most one
message goes before the timer; a tick, the model's unit of time, is far longer than
10 ms, and the nodes of the runs do not meet the case.

## What TLC checks

Named bounds: `MaxTerm`, `MaxLog`, `MaxInFlight` (messages under way; `None` is no
bound, which is how `ChannelNetwork` uses it), and the
budgets `MaxTimeouts`, `MaxHeartbeats`, `MaxRestarts`, `MaxDuplicates`, `MaxCrashes`,
`MaxReads`, and the set `Sends`. Where behaviours end because a budget is spent, deadlock is
not checked; in `client` it is. Runs that are not about the first election start
from states the handlers themselves produce (`MCElected`, `MCEmbassy`). Nodes are
symmetric where none is named.

Runs that pass:

| Run | Question | Why the bounds are enough |
|---|---|---|
| `election` | Is there one leader per term, with loss, reordering and a crash? Are votes kept, and accounted for? | 3 nodes, 2 timeouts: two candidates of one term, or one term after the other with answers of the first still under way |
| `replication` | Do logs match, is a leader's log safe from an old leader, and are all entries accounted for? | 2 terms, 2 entries: a deposed leader's AppendEntries arrive late, at a node with entries of the new term |
| `channels` | Over first-in first-out queues and with snapshots: are commits held by a majority, do they stay, and is every message accounted for? Are the channels an instance of the network that `RaftCluster` assumes? | 2 entries with a snapshot from 1 on: entries in and after a snapshot, and a node that has heard nothing gets it; queues of 2 fill up; one pre-vote round besides |
| `membership` | Do nodes that applied the same entries have the same configuration and the same state, and does all of it come from the leader's log? | a server joins, one leaves, a command between them, two entries in any order, a restart, a duplicate and lost messages |
| `storage` | Are votes, logs and snapshots what they were before a crash between any two writes, and do four files behave like one atomic storage? | 4 committed entries that fill the map, are refused and overwrite; an entry of another term to replace; a snapshot taken and one received; 2 crashes, so that one may follow a recovery |
| `client` | Does every call return, does Ok mean committed, do reads see acknowledged writes, is every accepted command applied, does a shutdown stop every node? | 2 commands and a read, redirected from a follower to the leader; a shutdown at any moment, after which a call ends by its timeout or at a full request channel. Time passes only when no task has work, so that other answers come before the client gives up; queues of 4 hold heartbeats and answers and do not fill, and neither does the log. Late answers, the full log and full queues are met with other constants, below, and in `starved` |
| `udp` | Does the bus wake who sleeps, does every queue empty, is the path a link that only loses? | 3 nodes that all send, so that their broadcast requests for addresses overflow a bus of 2 and are repeated; two messages on one path with sockets of one, so that one waits or is dropped; the longest collections that fit and one that does not fit the frame |

Runs that end in a violation show a disagreement between the code and its
documentation. Each is a short behaviour the code can take:

| Run | What happens |
|---|---|
| `stale_match` | A follower acknowledges the end of its own log, entries of an old leader included; the new leader counts them and commits an entry that it alone stores. First-in first-out delivery is enough. |
| `duplicated_vote` | A duplicated vote counts twice; with four nodes a term gets two leaders. |
| `lease` | The lease starts when an acknowledgment is processed, not when the acknowledged message was sent; a read under it misses the next leader's commit. |
| `crash` | An AppendEntries that a follower already has truncates its log and appends the same entries; each is a file write, and a crash between them leaves a log without committed entries it held before. |
| `starved` | A deposed leader's heartbeat timer is never reset: the loop is handed it for ever, the node receives nothing, its queue fills, and in the end every task waits for another. A stall of the executor before the run let the other node's election timer run out. |

So `ElectionSafety` holds without duplicates and fails with them;
`CommittedOnMajority` holds under one leader and fails after a change of leader.
With other constants the same modules show more, which is not repeated in a run (the
hazards that the constants of a passing run exclude have a note in `PROJECT.json`):

* `RaftCluster` with `MaxLog` 2 and reordering: an AppendEntries overtaken by a
  longer one cuts off committed entries (`CommittedEntriesStay`); with snapshots, one
  from the start of the log lands at shifted indices (`LogMatching`), a late
  InstallSnapshot puts the state machine back (`AppliedIsPresent`), and a restart
  or a snapshot loses configuration changes (`ConfigurationAgreement`).
* `SemihostingStorage` with `SnapshotCrashes = TRUE`: snapshot and log are separate
  files, and a crash between them leaves a log that is read at the wrong indices.
  With `TornWrites = TRUE` a file that was opened and not written is empty, and
  `VoteSurvives` fails. With configuration entries in the log `MemoryIsDurable`
  fails: `deserialize_log` skips them. With a `SnapshotCapacity` below the text of
  the map `MachineMatchesCommitted` fails.
* `EmbassyCluster` with `ClientTimeout = 0`: the late answer to one call is taken for
  the answer to the next (`OkMeansCommitted`); with `LogCapacity = 1` a command that
  was dropped at the full log is acknowledged; with `ChannelSize` 1 or 2 tasks that
  send to each other's full queues wait for ever (`CommandsAreCommitted`).
* `UdpTransport` with `BusSize = 1`: requests for addresses and their answers may
  displace each other for ever (`EverythingSettles`); the code's queues hold 16.

Every property of a passing run has a mutant: a plausible slip in one definition
(next to it, marked *Mutant*) with which TLC finds the property violated.

### Fairness

Liveness is stated of the application and of the UDP path only.

* `client`, `starved`: the executor polls every task that was woken, hence weak
  fairness of each node's task and of a client that is in a call; time goes on, hence
  weak fairness of `Tick`. That the client calls, or shuts down, is not assumed.
  Fairness of a node is stated of `Turn(i)`, the change of its stage: every round
  of the loop changes it, and it is enabled exactly when a step of the loop is,
  except that a `Send` of a part may come first. In the real program a task that
  spins does not yield, so others are starved at once; the model lets them go on
  when the spinning task waits at a queue and is to that extent kinder.
* `udp`: sender, listener and the stack's runner are tasks of their own; the runner
  serves both directions each time it is polled, hence fairness of each; the timer
  of an address request runs out. Sends are not assumed.

Leader election is not claimed to be live: it rests on randomized timeouts.

## What is proved

TLAPS checks these for every number of nodes and every value of the bounds:

| Theorem | Statement | Under |
|---|---|---|
| `MajorityReachesMedian` | a quorum of the voters has an index no lower than `compute_median` returns | any voters, even numbers included |
| `TypeCorrect` | `Spec => []TypeOK` of `RaftCluster` | any loss, delay, duplication, crash and membership change |
| `VotesKept` | `Spec => VotesAreKept` | the same |
| `VotesAreAccounted` | `Spec => []VotesAccounted` (and types with commands only) | fixed configuration, no duplicated message |
| `ElectionSafe` | `Spec => []ElectionSafety` | the same |
| `LogsAreAccounted` | `Spec => []LogsAccounted` | the same, and no compaction |
| `LogsMatch` | `Spec => []LogMatching` | the same, and no compaction |
| `LeadersOwnTheirTerm` | `Spec => []LeaderOwnsItsTerm` | the same, and no compaction |
| `LeadersAppendOnly` | `Spec => LeaderAppendOnly` | the same, and no compaction |
| `OneLeaderIsFollowed` | `[]Followed(x)` | x alone leads, no compaction; any membership change, duplicate, loss and crash |
| `OneLeaderStateMachineSafety`, `OneLeaderAppliedIsPresent`, `OneLeaderConfigurationAgreement` | `[]StateMachineSafety`, `[]AppliedIsPresent`, `[]ConfigurationAgreement` | the same |
| `ChannelTypes` | `Spec => []TypeOK` of `RaftChannels` | any configuration, any size of the channels |
| `ChannelVotesKept` | `Spec => VotesAreKept` | the same |
| `ChannelsImplementNetwork` | `Spec => Network!Init /\ ImplementsNetwork` | the same |
| `ChannelsElectOne` | `Spec => []ElectionSafety` | fixed configuration |
| `ChannelLogsMatch`, `ChannelLeadersOwn`, `ChannelLeadersAppend` | `[]LogMatching`, `[]LeaderOwnsItsTerm`, `LeaderAppendOnly` | fixed configuration, no compaction |
| `OneTermCommitsAccounted` | `[]CommitsAccounted(x, t)` of `RaftChannels` | x alone leads, and only in term t; any snapshot threshold, any size of the channels |
| `OneTermStateMachineSafety`, `OneTermAppliedIsPresent`, `OneTermCommittedOnMajority`, `OneTermCommittedEntriesStay` | `[]StateMachineSafety`, `[]AppliedIsPresent`, `[]CommittedOnMajority`, `CommittedEntriesStay` | the same |
| `VotesSurvive` | `Spec => []VoteSurvives` of `SemihostingStorage` | no torn writes |
| `MemoryDurable` | `Spec => []MemoryIsDurable` | no torn writes, logs of commands, no crash in the writing of a snapshot |
| `StorageImplements` | `Spec => ImplementsDurableStorage` | the same |
| `MachineMatches` | `Spec => []MachineMatchesCommitted` | the same, and snapshots that have room for the map |
| `WakeupsAreKept` | `Spec => []NoLostWakeup` of `UdpTransport` | anything |

The constants have assumptions that TLC evaluates in every run:
`NodeAssumption` (finitely many nodes, at least one), `ContextAssumption` (`None`
is no node, number or command; commands are no configuration changes; thresholds
and durations are numbers), `SnapshotAssumption` (nor is `None` a snapshot),
`NodesAssumption` (the configured ids are nodes) and
one per kind of cluster, transport and storage. The conditions in the table are
hypotheses of the theorems:

* *Fixed configuration*: `InitialMembers = Node`, and in `RaftCluster`
  `ConfigChanges = {}`. With changes the argument by intersecting majorities is not
  enough: a node counts with the configuration it has applied.
* *No duplicated message*: `MaxDuplicates = 0`. `duplicated_vote` is a
  counterexample without it. Over the channels it is not a hypothesis: they
  duplicate nothing.
* *No compaction*: `MaxLog < SnapshotThreshold`, clients that write less than what
  makes `should_create` true. With snapshots and reordering `LogMatching` fails.
* *One leader*: the hypothesis is `[]OnlyLeader(x)`, or over the channels
  `[]OnlyLeaderIn(x, t)`, of the behaviour. x may be deposed, start elections and
  lead again in a later term in the first case, and others may be candidates in
  both. It is a hypothesis because the code needs it: after a change of leader
  `CommittedOnMajority` fails even over the channels (`stale_match`), and entries that
  a majority does not store may be replaced after they were applied. That t is the
  only term is used by the proof: a leader that is elected again starts from the
  end of its log, is rejected by followers that are behind and goes back.
* Of the storage: `TornWrites = FALSE`, `ConfigChange = {}` and `SnapshotCrashes = FALSE`
  are needed, as the list above of what fails shows. `NoneIsNothing` says that `None`
  is no record, as a model value is. `SnapshotsRestore` says that `restore_from_snapshot`
  undoes `create_snapshot` on every map that the committed entries make, that is, that
  none of them exceeds the vector of the text; TLC evaluates it in the runs of
  `MCStorage` (`MachineAssumption`).

The proofs are layered as the modules are:

* `RaftNodeProofs`: lengths, quorums and the median; every handler takes a well-typed
  node to a well-typed node; and what every handler does to an election. It is
  *quiet* (term up or the same, vote and votes received kept, no election message
  sent), *starts* an election, *votes* or *counts* a vote. `HandleMessageStep`
  covers all messages, and the next module needs nothing else about the handlers.
* `ElectionProofs`: the network as bags, `TypeCorrect`, `VotesKept`; then
  `VotesAreAccounted` and `ElectionSafe`.
* `ReplicationProofs`: what every handler does to a node that follows a leader whose
  log is h. With messages out of h its log, state machine, snapshot and configuration
  remain those of a beginning of h, and what it sends as leader is out of its own log.
* `LogProofs`: what every handler does to a log when leaders change. `HandleMessageLog`
  says that it leaves the log, splices an AppendEntries into it or appends one entry as
  leader, and that what it sends are slices of its own log; then `LogsAreAccounted` and
  the three theorems that follow from it, and `OneLeaderIsFollowed` with its three.
* `CommitProofs`: the same as `ReplicationProofs` for the queues and for what a leader
  knows of its followers; then `OneTermCommitsAccounted` with its four.
* `ChannelProofs`: the channels implement the network, and the theorems about
  `RaftCluster` carried over to them.
* `StorageProofs`, `UdpProofs`: one component each.

**Votes.** `ElectionSafety` is not inductive. Two leaders of a term are excluded
because their voters overlap and a voter votes once, but the code does not record who
voted: `votes_received` is an array that `handle_vote_response` pushes to for
every answer of the right term. So it must be known of every vote where it is: in
a `RequestVote` on its way, in an answer on its way, or counted, in one place
only (`OnePlace`), in one copy (`SingleMessages`, `OneRequest`, `CountedOnce`),
binding the voter (`Binding`, `OneVote`), with leaders that have counted a quorum
(`LeadersHaveQuorum`) of a common configuration (`FixedMembers`). Their conjunction
`VotesAccounted` is inductive with the types; TLC checks it in `election`. Each
kind of step moves a vote from one place to the next or loses it: `QuietStep`,
`StartsStep`, `VotesStep`, `CountsStep`. `Ledger` restates the invariant with the
nodes and links as arguments, for the states before and after a step.

**Entries.** `LogMatching` speaks of logs; what is put into a log comes from messages,
which may be old. `LogsAccounted` therefore speaks of *links*: an entry, its index and
the term before it, wherever they are, in a log or in an AppendEntries. Index and term
determine a link (`LinksAgree`), the leader of a term has all links of it
(`LeadersOwn`), and whoever sends AppendEntries of a term is the one node that can
ever lead it (`Elected`: a majority has voted for it or is past the term, and no vote
for another one is left, which is where `VotesAccounted` is used). A step makes no
link but the one a leader appends (`LinksMove`), and `check_log_consistency` makes
the splice of two chains a chain again (`SplicedLinks`). TLC checks
`LogsAccounted` in `replication`.

**One leader.** `StateMachineSafety` compares two state machines, and neither of them
says what the next entry will be. `Followed(x)` compares each with the log of x: every
log is a part of it in its place, every state machine and configuration is what its
first `last_applied` entries make (`Tracks`, `Configured`), and every AppendEntries on its
way is a part of it (`PartOf`). The log of x only grows while no other node leads, as
no AppendEntries is addressed to it. An old AppendEntries may still shorten a
follower's log, and a restart empties its state machine; neither brings in anything
that is not in the log of x, and that is why the invariant does not bound
`last_applied` by the end of the log. The configuration is a count of the
`AddServer` entries after the last `RemoveServer` (`MembersAt`), because an addition
pushes a copy and a removal filters all of them out. TLC checks `OneIsFollowed` in
`membership`.

**Commits.** That a majority stores what is committed needs `match_index` to be no more
than what the follower has, now and not only when it answered: no log may get
shorter. Over the channels none does, because each AppendEntries reaches at least to
the end of the receiver's log (`Fits`) when it is at the head of the queue, which
follows from the order in which the leader has sent (`Earlier`, `InOrder`) and from
`next_index = match_index + 1` (`Knows`). An InstallSnapshot adds that it must not take
the follower back: whatever commits the follower may hear of before it are within the
snapshot (`Awaits`, `Suits`). With `MajorityReachesMedian` the median of such indices is
stored by a majority (`Stored`). `Accounted(x, t, h)` is their conjunction for a
history h, of which some entries may exist in snapshots only; the inductive
invariant is that such an h exists, and each step keeps it or appends one entry to
it. All entries are of term t, so h can be read off the leader again (`FullLog`), and
that is what TLC checks (`CommitsAreAccounted` in `channels`).

**Channels.** A step of `RaftChannels` must be one of `RaftCluster` on the bags of
`ChannelNetwork`. A link is a bag given by counts (`LinkCount`), so that sending
(`LinkSend`), receiving (`LinkReceive`) and filling the outbox (`LinkFill`) are
equations between numbers. INSTANCE makes a copy of every operator of the core; the
lemmas `Same...` show the copies equal to the originals from the collections up to
the events. A node that takes an event has an empty outbox, and must be the same as
its settled form; that a node is determined by its fields is `RecordsAlways`.

**Storage.** `VoteSurvives` needs to know that the calls which are still to be made
set the term before the vote (`VotesDurable`). `MemoryIsDurable` needs, inside an
event, which of the four files have been written: memory and files agree or are one
call apart (`Following`), or a snapshot is being written (`Saving`) or the log
shortened after it (`Discarding`); `Durability` is their conjunction with the types, and
the refinement follows from it because what `load_from_disk` would return moves by one
call when the last write of that call is made. `MachineMatchesCommitted` needs
`Applying` besides: a log holds committed entries in their places and stray ones only
after them, also when the calls that are still to be made will have changed it
(`Genuine`, `Honest`), and a snapshot, saved or about to be, shows the map of the
committed entries at its index (`Shows`), in memory and in what a crash would leave.
Applying entries is a fold over a sequence; that a fold in two parts is the fold of the
whole (`AppliedInParts`) is proved for every sequence, as the absence of a least
counterexample (`ByInduction`, from the library's `WFMin`, which has no operator
parameter).

**Wake-ups.** `Wakeable`: a runner that sleeps has left its waker, has nothing on its
bus and nothing that it may transmit.

Types are proved for a set of entry types, so that the same lemmas give a cluster
in which no log holds a configuration entry, and hence none is applied.

## What is only model-checked

* `StateMachineSafety`, `AppliedIsPresent`, `CommittedOnMajority`, `CommittedEntriesStay` and
  `ConfigurationAgreement` are proved for one leader and not beyond: after a change of
  leader, or with snapshots over a network that reorders, they do not hold of the code
  (`stale_match`, and the list under the violations).
* `OkMeansCommitted` and `ReadsSeeAckedWrites` of the application: an answer carries
  nothing that says to which call it belongs, so that both rest on the client waiting
  longer than any answer takes, hence on the scheduling of all tasks.
* `SnapshotsRestore`, the hypothesis of `MachineMatches`, for the maps of the run only:
  the text of a map is put together and taken apart by folds over its bytes.
* `ImplementsLossyLink`: the refinement concatenates filtered queues, and the provers
  know nothing of `SelectSeq`.
* Every liveness property, and `ENABLED` in the fairness conditions.

## What is not modelled

* `ClientRequest::GetLeader`, which ends in `todo!()`; the snapshot builder and
  `finalize_snapshot`, which nothing calls.
* A host that refuses to write a file: the storage ignores it, and then nothing of
  what it promises holds.
* The bytes of postcard, of file formats and of log lines. The wire form is modelled
  as far as collections are converted and cut.
* The 128 places of `EmbassyLogEntryCollection`: `get_entries` gives all entries asked for,
  where the code keeps the first 128 and sends the rest once these are acknowledged.
  The logs of the runs are far shorter; the theorems speak of clusters in which no
  follower is more than 128 entries behind.
* The inside of the network stack, beyond what the code relies on.
* The observer, LED, logging, heap and start-up configuration: they hold no state
  the algorithm reads.
* The test utilities and the simulated clusters of `test-utils` and `validation`,
  which stand in for the modelled parts in tests.
* Randomized election timeouts and hence liveness of elections; elections while
  the membership changes, whose state space is beyond TLC with these handlers.
* Clusters over `UdpTransport` or on `SemihostingStorage` as a whole. `RaftCluster`
  allows more than `LossyLink` does (reordering and duplicates, which ADR-R2
  assumes), and restarts only between events.

## Further work

1. `EmbassyCluster` implements `RaftChannels`, so that what is proved of the channels
   holds of the tasks as they are scheduled; the steps of the node loop are those
   of `RaftChannels` in a fixed order.
2. An abstract specification of voting (terms, votes and leaders, no messages)
   that `RaftCluster` implements when nothing is duplicated, by `VotesAccounted`.
3. `SnapshotsRestore` for every map whose text fits the vector.

----------------------------- MODULE RaftNodes -----------------------------
(***************************************************************************)
(* The nodes of a cluster without the network between them, and what they  *)
(* promise whichever transport connects them.  core/README.md lists the    *)
(* promises under "Safety Guarantees"; docs/adrs/ADR-R4 calls them         *)
(* unconditional.                                                          *)
(***************************************************************************)
EXTENDS RaftNode

CONSTANTS
    InitialMembers,  \* the ids every node is configured with at start
    MaxTerm,         \* bound: highest term a node may reach
    MaxLog           \* bound: longest log a client may build

ASSUME NodesAssumption ==
    InitialMembers \subseteq Node /\ {MaxTerm, MaxLog} \subseteq Nat

VARIABLE node        \* node[i] is the state of node i

\* A node is built from its storage and the ids it is configured with.
start_node(i, st) == new_from_builder(i, st, InitialMembers)

\* Clock and timers of one node, one tick later.
elapse(n) ==
    LET less(d) == IF d = None THEN None ELSE Max({d - 1, 0})
    IN  [n EXCEPT !.election_deadline = less(@),
                  !.heartbeat_deadline = less(@),
                  !.lease = less(@)]

-----------------------------------------------------------------------------
(* Properties                                                              *)

\* Election Safety: a term has at most one leader.
ElectionSafety ==
    \A i, j \in Node :
        /\ node[i].role = Leader
        /\ node[j].role = Leader
        /\ node[i].current_term = node[j].current_term
        => i = j

\* Neither an event nor a crash takes a node back to an earlier term or lets
\* it withdraw or change the vote it gave in its term: set_current_term and
\* set_voted_for are called in an order that survives every interleaving.
VotesAreKept ==
    [][\A i \in Node :
          /\ node'[i].current_term >= node[i].current_term
          /\ node'[i].current_term = node[i].current_term =>
                 node[i].voted_for \in {None, node'[i].voted_for}]_node

\* Log Matching: when two logs hold an entry of the same term at an index,
\* they agree on that entry and on every earlier one that both still hold,
\* whatever the order in which AppendEntries arrived.
LogMatching ==
    \A i, j \in Node : \A k \in 1..last_log_index(node[i]) :
        /\ has_entry(node[i], k)
        /\ has_entry(node[j], k)
        /\ get_entry(node[i], k).term = get_entry(node[j], k).term
        => \A l \in 1..k :
               has_entry(node[i], l) /\ has_entry(node[j], l) =>
                   get_entry(node[i], l) = get_entry(node[j], l)

\* Leader Append-Only: while a node leads a term, no message makes it drop
\* or overwrite an entry of its log.
LeaderAppendOnly ==
    [][\A i \in Node :
          /\ node[i].role = Leader
          /\ node'[i].role = Leader
          /\ node'[i].current_term = node[i].current_term
          => \A k \in 1..last_log_index(node[i]) :
                 has_entry(node[i], k) /\ k >= node'[i].first_log_index =>
                     /\ has_entry(node'[i], k)
                     /\ get_entry(node'[i], k) = get_entry(node[i], k)]_node

\* An entry of the term a node leads is nowhere but where it is in that
\* leader's own log: no other node created it and no log shifted it.
LeaderOwnsItsTerm ==
    \A i, j \in Node : \A k \in 1..last_log_index(node[j]) :
        /\ node[i].role = Leader
        /\ has_entry(node[j], k)
        /\ get_entry(node[j], k).term = node[i].current_term
        /\ k >= node[i].first_log_index
        => has_entry(node[i], k) /\ get_entry(node[i], k) = get_entry(node[j], k)

\* State Machine Safety: no two nodes apply different commands at an index.
StateMachineSafety ==
    \A i, j \in Node :
        \A k \in DOMAIN node[i].state_machine \cap DOMAIN node[j].state_machine :
            node[i].state_machine[k] = node[j].state_machine[k]

\* The state machine holds the effect of every entry up to last_applied: what
\* apply_committed_entries counts as applied is never taken back by a restore.
AppliedIsPresent ==
    \A i \in Node : \A k \in 1..node[i].last_applied :
        k \in DOMAIN node[i].state_machine

\* Committed entries are never rolled back: once a node has learnt that an
\* index is committed, the entry there stays as it is until a snapshot covers
\* it.
CommittedEntriesStay ==
    [][\A i \in Node : \A k \in 1..node[i].commit_index :
          has_entry(node[i], k) =>
              \/ has_entry(node'[i], k) /\ get_entry(node'[i], k) = get_entry(node[i], k)
              \/ /\ node'[i].snapshot # None
                 /\ k <= node'[i].snapshot.last_included_index]_node

\* Nodes that have applied the same entries have the same configuration, up to
\* their own id, with which every node is configured from the start.
ConfigurationAgreement ==
    \A i, j \in Node :
        node[i].last_applied = node[j].last_applied =>
            \A p \in Node \ {i, j} : node[i].members[p] = node[j].members[p]

\* What a leader counts as committed is stored by a majority of its members.
CommittedOnMajority ==
    \A i \in Node : \A k \in 1..node[i].commit_index :
        node[i].role = Leader /\ has_entry(node[i], k) =>
            LET holders == [p \in Node |->
                    IF has_entry(node[p], k) /\ get_entry(node[p], k) = get_entry(node[i], k)
                    THEN node[i].members[p] ELSE 0]
            IN  has_quorum(node[i].members, len(holders))
=============================================================================

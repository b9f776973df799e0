--------------------------- MODULE ChannelHistory ---------------------------
(***************************************************************************)
(* RaftChannels as long as one node leads, in one term: the queues keep    *)
(* the order in which the leader has sent, so no log gets shorter, and a   *)
(* snapshot arrives before all that was committed after it.                *)
(***************************************************************************)
EXTENDS RaftChannels, History

\* The log of n as if nothing of it had been compacted, all of term t.
FullLog(n, t) ==
    [k \in 1..End(n) |->
        IF k < n.first_log_index THEN [term |-> t, entry_type |-> n.snapshot.data[k]]
        ELSE get_entry(n, k)]

-----------------------------------------------------------------------------
(* Messages                                                                *)

\* The messages with which a log is replicated.
Replicates(m) == m.type \in {"AppendEntries", "InstallSnapshot"}

\* The index up to which m tells a node about the log.
UpTo(m) == IF m.type = "AppendEntries" THEN m.prev_log_index + Len(m.entries)
           ELSE m.last_included_index

\* The leader n of term t, whose log is h, has sent m.
SentBy(n, h, t, m) ==
    /\ m.term = t
    /\ m.type = "AppendEntries" =>
           /\ PartOf(m, h)
           /\ UpTo(m) <= Len(h)
           /\ m.prev_log_term = IF m.prev_log_index = 0 THEN 0 ELSE t
           /\ m.leader_commit <= n.commit_index
    /\ m.type = "InstallSnapshot" =>
           /\ n.snapshot # None
           /\ m.last_included_index = n.snapshot.last_included_index
           /\ m.last_included_term = n.snapshot.last_included_term
           /\ m.data = n.snapshot.data

\* m can be handled by p: it fits the log of p, and does not take p back.
Fits(p, m) ==
    /\ m.type = "AppendEntries" =>
           /\ m.prev_log_index \in (p.first_log_index - 1)..End(p)
           /\ End(p) <= UpTo(m)
    /\ m.type = "InstallSnapshot" /\ p.snapshot = None =>
           p.commit_index <= m.last_included_index

\* The snapshot of n is still to be sent to p.
Awaits(n, p) ==
    n.snapshot # None /\ get(n.next_index, p, 1) <= n.snapshot.last_included_index

\* m, which the leader n has for its peer p of state q, can be handled there,
\* and says nothing of commits after a snapshot that p has yet to get.
Suits(n, h, t, p, q, m) ==
    Replicates(m) =>
        /\ SentBy(n, h, t, m)
        /\ Fits(q, m)
        /\ Awaits(n, p) /\ m.type = "AppendEntries" =>
               m.leader_commit <= n.snapshot.last_included_index

\* m may have been sent before l.
Earlier(m, l) ==
    Replicates(m) /\ Replicates(l) =>
        /\ l.type = "AppendEntries" => UpTo(m) <= UpTo(l)
        /\ m.type = "InstallSnapshot" /\ l.type = "AppendEntries" =>
               m.last_included_index <= l.prev_log_index
        /\ m.type = "AppendEntries" /\ l.type = "InstallSnapshot" =>
               m.leader_commit <= l.last_included_index

\* The messages in a queue, and those that wait for room in it, are in order.
InOrder(queue, waiting) ==
    /\ \A k, l \in DOMAIN queue : k < l => Earlier(queue[k].message, queue[l].message)
    /\ \A k \in DOMAIN queue, l \in DOMAIN waiting : Earlier(queue[k].message, waiting[l])
    /\ \A k, l \in DOMAIN waiting : k < l => Earlier(waiting[k], waiting[l])

\* What p, in state q, answers in term t.
Answers(q, t, m) ==
    m.term = t =>
        /\ m.type = "AppendEntriesResponse" => m.success /\ m.match_index <= End(q)
        /\ m.type = "InstallSnapshotResponse" /\ m.success => q.snapshot # None

-----------------------------------------------------------------------------
(* The cluster                                                             *)

\* The configuration is the one the node was built with.
AsBuilt(n) ==
    /\ n.members = [p \in Node |-> IF p \in InitialMembers \cup {n.id} THEN 1 ELSE 0]
    /\ n.catching_up_servers = {}

\* What a node has of the log h of the leader n.
Keeps(n, h, q) ==
    /\ Tracks(q, h)
    /\ AsBuilt(q)
    /\ q.commit_index = q.last_applied
    /\ q.commit_index <= End(q)
    /\ q.commit_index <= n.commit_index
    /\ q.snapshot \in {None, n.snapshot}

\* What the leader n knows of its peer p, which is in state q.
Knows(n, p, q) ==
    /\ get(n.next_index, p, 1) = get(n.match_index, p, 0) + 1
    /\ get(n.match_index, p, 0) <= End(q)
    /\ Awaits(n, p) => q.commit_index <= n.snapshot.last_included_index

\* The leader n of term t, whose log is h.
Leads(n, h, t) ==
    /\ \A k \in DOMAIN h : h[k].term = t
    /\ End(n) = Len(h)
    /\ n.snapshot # None => n.snapshot.last_included_index >= SnapshotThreshold
    /\ \/ n.current_term > t
       \/ n.current_term = t /\ n.role = Leader
       \/ h = <<>>

\* Nobody but x replicates a log, and x only to others.
OthersAreSilent(x) ==
    /\ \A j \in Node : \A k \in DOMAIN channel[j] :
           Replicates(channel[j][k].message) => channel[j][k].from = x /\ j # x
    /\ \A i, j \in Node : \A k \in DOMAIN node[i].outbox[j] :
           Replicates(node[i].outbox[j][k]) => i = x /\ j # x

\* All that x has for p is in order and can be handled there.
LineFits(x, t, h, p) ==
    /\ \A k \in DOMAIN channel[p] :
           Suits(node[x], h, t, p, node[p], channel[p][k].message)
    /\ \A k \in DOMAIN node[x].outbox[p] :
           Suits(node[x], h, t, p, node[p], node[x].outbox[p][k])
    /\ InOrder(channel[p], node[x].outbox[p])

\* What the nodes answer to x is still true when it arrives.
AnswersFit(x, t) ==
    /\ \A k \in DOMAIN channel[x] :
           Answers(node[channel[x][k].from], t, channel[x][k].message)
    /\ \A p \in Node : \A k \in DOMAIN node[p].outbox[x] :
           Answers(node[p], t, node[p].outbox[x][k])

\* A majority of the members of x has what x counts as committed.
Stored(x) ==
    has_quorum(node[x].members,
               len([p \in Node |-> IF End(node[p]) >= node[x].commit_index
                                   THEN node[x].members[p] ELSE 0]))

\* h is the log of x, all of term t, and everything in the cluster is from it.
Accounted(x, t, h) ==
    /\ Leads(node[x], h, t)
    /\ \A i \in Node : Keeps(node[x], h, node[i])
    /\ \A p \in Node \ {x} : Knows(node[x], p, node[p])
    /\ \A p \in Node \ {x} : LineFits(x, t, h, p)
    /\ OthersAreSilent(x)
    /\ AnswersFit(x, t)
    /\ Stored(x)

\* The same of the log as it can be read off the leader.
CommitsAccounted(x, t) == Accounted(x, t, FullLog(node[x], t))

\* While one node leads, in one term, all that it commits is accounted for: every
\* AppendEntries and InstallSnapshot finds its receiver where it fits, the handler
\* of the answers never records more than the follower has, advance_commit_index
\* takes the median of such match indices, and install leaves no node behind what
\* it has applied.
CommitsAreAccounted ==
    \E x \in Node, t \in 0..MaxTerm : OnlyLeaderIn(x, t) /\ CommitsAccounted(x, t)
=============================================================================

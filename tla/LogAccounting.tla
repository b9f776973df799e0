--------------------------- MODULE LogAccounting ---------------------------
(***************************************************************************)
(* Where the entries of a cluster come from.  An entry sits in a log, or   *)
(* in an AppendEntries on its way, at an index and behind an entry of some *)
(* term: these links are what check_log_consistency compares.  A link is   *)
(* created by the leader of its term, at the end of the leader's own log,  *)
(* and only copied from then on.  LogsAccounted says so of a cluster whose *)
(* nodes compact nothing; it is the inductive invariant behind             *)
(* LogMatching, LeaderOwnsItsTerm and LeaderAppendOnly.                    *)
(***************************************************************************)
EXTENDS VoteAccounting

\* The links of entries that follow index prev, where an entry of term before is.
Chain(prev, before, entries) ==
    {[index  |-> prev + k,
      entry  |-> entries[k],
      before |-> IF k = 1 THEN before ELSE entries[k - 1].term] : k \in DOMAIN entries}

LogLinks(i) == Chain(0, 0, node[i].log)

MessageLinks(m) == Chain(m.prev_log_index, m.prev_log_term, m.entries)

\* The AppendEntries on their way from i to j.
Appends(i, j) == {m \in BagToSet(net[i][j]) : m.type = "AppendEntries"}

Links ==
    UNION ({LogLinks(i) : i \in Node}
           \cup UNION {{MessageLinks(m) : m \in Appends(i, j)} : i, j \in Node})

-----------------------------------------------------------------------------
\* A log that starts at index 1 and stays within the bound of the clients and
\* the capacity of the storage.
Whole(n) ==
    /\ n.first_log_index = 1
    /\ n.snapshot = None
    /\ Len(n.log) <= MaxLog
    /\ Len(n.log) <= LogCapacity
    /\ n.commit_index <= MaxLog

\* No log is compacted and no snapshot on its way.
Uncompacted ==
    /\ \A i \in Node : Whole(node[i])
    /\ \A i, j \in Node : \A m \in BagToSet(net[i][j]) : m.type # "InstallSnapshot"
    /\ \A i, j \in Node : \A m \in Appends(i, j) :
           /\ i # j
           /\ m.prev_log_index = 0 => m.prev_log_term = 0
           /\ m.entries # <<>> => m.prev_log_index + Len(m.entries) <= MaxLog

\* x is the only node that leads term t, or will ever: a majority is past
\* voting for another one in t, and no vote for another one is left.
Elected(x, t) ==
    /\ node[x].current_term >= t
    /\ node[x].current_term = t => node[x].role # Candidate
    /\ \E Q \in SUBSET Node :
           /\ 2 * Cardinality(Q) > Cardinality(Node)
           /\ \A v \in Q :
                  /\ node[v].current_term >= t
                  /\ node[v].current_term = t => node[v].voted_for = x
                  /\ \A d \in Node \ {x} : ~Given(v, d, t) /\ ~Counted(d, v, t)

\* AppendEntries are sent by the leader of their term.
SendersElected ==
    \A i, j \in Node : \A m \in Appends(i, j) : Elected(i, m.term)

\* The term of every entry has had a leader.
EntriesElected ==
    \A l \in Links : \E x \in Node : Elected(x, l.entry.term)

\* Index and term determine the entry and the term before it.
LinksAgree ==
    \A l, k \in Links :
        l.index = k.index /\ l.entry.term = k.entry.term => l = k

\* A leader has every link of its term in its own log.
LeadersOwn ==
    \A i \in Node : \A l \in Links :
        node[i].role = Leader /\ l.entry.term = node[i].current_term =>
            l \in LogLinks(i)

\* The entries of a cluster that compacts nothing are accounted for: whatever
\* AppendEntries are lost, late or overtaken, and whoever leads meanwhile,
\* try_append_entries puts together logs out of links that leaders made.
LogsAccounted ==
    /\ Uncompacted
    /\ SendersElected
    /\ EntriesElected
    /\ LinksAgree
    /\ LeadersOwn
=============================================================================

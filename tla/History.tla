------------------------------ MODULE History ------------------------------
(***************************************************************************)
(* What a node has, compared with the log of the one node that leads.  As  *)
(* long as no other node comes to lead, that log only grows, and all other *)
(* logs, state machines and snapshots are made from its beginning.         *)
(***************************************************************************)
EXTENDS RaftNodes

\* No other node than x leads.
OnlyLeader(x) == \A i \in Node : node[i].role = Leader => i = x

\* No other node than x leads, and x in no other term than t.
OnlyLeaderIn(x, t) ==
    \A i \in Node : node[i].role = Leader => i = x /\ node[i].current_term = t

\* What an entry leaves at its index of a state machine.
Shown(e) == IF e.entry_type \in ConfigurationChange THEN None ELSE e.entry_type

\* The state machine that has applied the first k entries of h.
Applied(h, k) == [l \in 1..k |-> Shown(h[l])]

\* The last index of a log that begins where the snapshot ends.
End(n) == n.first_log_index + Len(n.log) - 1

(***************************************************************************)
(* The log of n is a part of h, in its place.  Its state machine is what   *)
(* the entries up to last_applied make of it, and its snapshot what they   *)
(* made of it before.                                                      *)
(***************************************************************************)
Tracks(n, h) ==
    /\ n.first_log_index =
           IF n.snapshot = None THEN 1 ELSE n.snapshot.last_included_index + 1
    /\ Len(n.log) <= LogCapacity
    /\ End(n) <= Len(h)
    /\ \A k \in DOMAIN n.log : n.log[k] = h[n.first_log_index + k - 1]
    /\ n.last_applied \in (n.first_log_index - 1)..Len(h)
    /\ n.state_machine = Applied(h, n.last_applied)
    /\ n.snapshot # None =>
           /\ n.snapshot.last_included_index > 0
           /\ n.snapshot.last_included_term = h[n.snapshot.last_included_index].term
           /\ n.snapshot.data = Applied(h, n.snapshot.last_included_index)

\* An AppendEntries carries entries of h from where they are in h.
PartOf(m, h) ==
    \A k \in DOMAIN m.entries :
        /\ m.prev_log_index + k \in DOMAIN h
        /\ m.entries[k] = h[m.prev_log_index + k]

\* How often p is in the configuration after the first k entries of h.
MembersAt(h, k, p) ==
    LET adds    == {l \in 1..k : h[l].entry_type = AddServer(p)}
        removes == {l \in 1..k : h[l].entry_type = RemoveServer(p)}
        first   == IF p \in InitialMembers THEN 1 ELSE 0
    IN  IF removes = {} THEN first + Cardinality(adds)
        ELSE Cardinality({l \in adds : l > Max(removes)})

\* The configuration of n is the one its applied entries make.
Configured(n, h) ==
    \A p \in Node \ {n.id} : n.members[p] = MembersAt(h, n.last_applied, p)
=============================================================================

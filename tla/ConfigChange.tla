---------------------------- MODULE ConfigChange ----------------------------
(***************************************************************************)
(* ConfigChangeManager: the checks a membership request has to pass and    *)
(* what a committed configuration entry does to the node.                  *)
(***************************************************************************)
EXTENDS RaftContext

AddServer(p) == [kind |-> "AddServer", node |-> p]
RemoveServer(p) == [kind |-> "RemoveServer", node |-> p]

\* A change submitted through add_server or remove_server is not committed.
change_in_progress(n) ==
    n.pending_change # None /\ n.pending_change > n.commit_index

\* add_server returns Ok.
may_add_server(n, p) ==
    /\ n.role = Leader
    /\ ~change_in_progress(n)
    /\ p # n.id /\ ~contains(n.members, p)

\* remove_server returns Ok.
may_remove_server(n, p) ==
    /\ n.role = Leader
    /\ ~change_in_progress(n)
    /\ size(n.members) # 1
    /\ p = n.id \/ contains(n.members, p)

\* Mutant: only a leader applies a change to its configuration.
apply_changes_at_leader(n, changes) ==
    IF n.role # Leader THEN n
    ELSE [n EXCEPT !.members =
             [p \in Node |->
                 IF RemoveServer(p) \in {changes[k] : k \in DOMAIN changes} THEN 0
                 ELSE @[p] + Cardinality({k \in DOMAIN changes : changes[k] = AddServer(p)})]]

(***************************************************************************)
(* apply_changes runs through the changes in log order.  changes maps the  *)
(* index of each newly applied configuration entry to its change.  Only a  *)
(* leader maintains the replication maps, and it ceases to be one at the   *)
(* change that removes it, so only the changes up to that one touch them.  *)
(***************************************************************************)
apply_changes(n, changes) ==
    LET adds(p)    == {k \in DOMAIN changes : changes[k] = AddServer(p)}
        removes(p) == {k \in DOMAIN changes : changes[k] = RemoveServer(p)}
        asLeader   == {k \in DOMAIN changes :
                          /\ n.role = Leader
                          /\ \A r \in removes(n.id) : k <= r}
        about(p)   == asLeader \cap (adds(p) \cup removes(p))
        added(p)   == about(p) # {} /\ Max(about(p)) \in adds(p)
        removed(p) == about(p) # {} /\ Max(about(p)) \in removes(p)
        update(map, v) ==
            [p \in (DOMAIN map \cup {q \in Node : added(q)})
                       \ {q \in Node : removed(q)} |->
                IF added(p) THEN v ELSE map[p]]
    IN  [n EXCEPT
          !.members =
              [p \in Node |->
                  IF removes(p) = {} THEN @[p] + Cardinality(adds(p))
                  ELSE Cardinality({k \in adds(p) : k > Max(removes(p))})],
          !.next_index = update(@, last_log_index(n) + 1),
          !.match_index = update(@, 0),
          !.catching_up_servers =
              @ \cup {p \in Node : adds(p) \cap asLeader # {}},
          !.role = IF removes(n.id) # {} THEN Follower ELSE @,
          !.pending_change = IF @ \in DOMAIN changes THEN None ELSE @]
=============================================================================

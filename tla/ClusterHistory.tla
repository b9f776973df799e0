--------------------------- MODULE ClusterHistory ---------------------------
(***************************************************************************)
(* RaftCluster as long as one node leads: whatever is lost, late, repeated *)
(* or forgotten in a restart, and whoever joins or leaves.                 *)
(***************************************************************************)
EXTENDS RaftCluster, History

(***************************************************************************)
(* Every node has applied a beginning of the log of x, which is also where *)
(* its configuration comes from, and no AppendEntries reaches x itself.    *)
(***************************************************************************)
Followed(x) ==
    LET h == node[x].log
    IN  /\ Len(h) <= MaxLog
        /\ \A i \in Node :
               /\ node[i].snapshot = None
               /\ Tracks(node[i], h)
               /\ Configured(node[i], h)
        /\ \A i, j \in Node : \A m \in BagToSet(net[i][j]) :
               /\ m.type # "InstallSnapshot"
               /\ m.type = "AppendEntries" => i = x /\ j # x /\ PartOf(m, h)

\* While at most one node leads, every node follows it: replace_suffix takes over
\* what a late or repeated AppendEntries carries and nothing else, so a log may
\* get shorter but never another one, and whatever apply_committed_entries and
\* apply_changes have made of it, before a restart and after, is what the entries
\* of the leader make.
OneIsFollowed == \E x \in Node : OnlyLeader(x) /\ Followed(x)
=============================================================================

------------------------------ MODULE RaftTimed ------------------------------
(***************************************************************************)
(* RaftCluster with time: a tick brings every armed timer and every lease  *)
(* one step closer to its end.  Clocks run at the same speed and a timer   *)
(* that is due may be served late, which favours the lease.                *)
(***************************************************************************)
EXTENDS RaftCluster

Tick ==
    /\ node' = [i \in Node |-> elapse(node[i])]
    /\ UNCHANGED <<net, budget>>

TimedNext == Next \/ Tick

\* A read that read_linearizable answers under a valid lease reflects every
\* entry that any leader has committed.
LeaseReadsAreCurrent ==
    \A i, j \in Node :
        may_read_linearizable(node[i]) /\ node[j].role = Leader =>
            node[j].commit_index <= node[i].commit_index
=============================================================================

--------------------------- MODULE ChannelNetwork ---------------------------
(***************************************************************************)
(* The channels of RaftChannels seen as the network of RaftCluster: what a *)
(* node has not sent yet and what is in the queue of the receiver are      *)
(* equally on their way.  Network has RaftCluster, the accounts of its     *)
(* votes and entries and the theorems about them.                          *)
(***************************************************************************)
EXTENDS RaftChannels, Bags

\* Every node as if it had sent its outbox.
Settled == [i \in Node |-> [node[i] EXCEPT !.outbox = no_messages]]

\* The messages of i in a queue.
Queued(i, queue) ==
    [m \in {queue[k].message : k \in {l \in DOMAIN queue : queue[l].from = i}} |->
        Cardinality({k \in DOMAIN queue : queue[k] = [from |-> i, message |-> m]})]

\* What is on its way from i: in the queue of the receiver or waiting for room.
Link(i, queue, waiting) == Queued(i, queue) (+) ToBag(waiting)

UnderWay == [i \in Node |-> [j \in Node |-> Link(i, channel[j], node[i].outbox[j])]]

Network == INSTANCE LogProofs WITH
    node <- Settled,
    net <- UnderWay,
    budget <- [timeouts |-> budget.timeouts, heartbeats |-> budget.heartbeats,
               restarts |-> 0, duplicates |-> 0],
    ConfigChanges <- {}, MaxInFlight <- None, MaxRestarts <- 0, MaxDuplicates <- 0

\* The channel transport is a special case of the network of RaftCluster: in
\* whatever order send and recv interleave, however long a sender waits at a
\* full queue, every step delivers one message that was sent once, or is an
\* event of the same kind there, or is not seen at all.
ImplementsNetwork == [][Network!Next]_(Network!vars)
=============================================================================

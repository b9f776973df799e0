---------------------------- MODULE RaftChannels ----------------------------
(***************************************************************************)
(* A cluster of RaftNodes over the channel transport: each node has one    *)
(* bounded queue of envelopes, which neither loses nor reorders.  After an *)
(* event a node sends what the event left in its outbox, one envelope at a *)
(* time, and waits while the receiver's queue is full; it takes no other   *)
(* event before the outbox is empty.                                       *)
(***************************************************************************)
EXTENDS RaftNodes, SequencesExt

CONSTANTS
    ChannelSize,     \* CHANNEL_SIZE
    MaxTimeouts,     \* bound: election timeouts in a behaviour
    MaxHeartbeats    \* bound: heartbeat timeouts in a behaviour

ASSUME ChannelAssumption ==
    {ChannelSize, MaxTimeouts, MaxHeartbeats} \subseteq Nat

VARIABLES
    channel,  \* channel[j] is the queue of envelopes to node j
    budget    \* how often each timer may still fire

vars == <<node, channel, budget>>

Envelope == [from : Node, message : RaftMsg(EntryType)]

TypeOK ==
    /\ DOMAIN node = Node
    /\ \A i \in Node : NodeOK(node[i], EntryType) /\ node[i].id = i
    /\ DOMAIN channel = Node
    /\ \A j \in Node : channel[j] \in Seq(Envelope) /\ Len(channel[j]) <= ChannelSize
    /\ budget \in [timeouts : Nat, heartbeats : Nat]

-----------------------------------------------------------------------------
Init ==
    /\ node = [i \in Node |-> start_node(i, new_storage)]
    /\ channel = [j \in Node |-> <<>>]
    /\ budget = [timeouts |-> MaxTimeouts, heartbeats |-> MaxHeartbeats]

Spend(event) ==
    /\ budget[event] > 0
    /\ budget' = [budget EXCEPT ![event] = @ - 1]

\* The loop of node i is waiting for an event; the one it takes makes it n.
Step(i, n) ==
    /\ node[i].outbox = no_messages
    /\ n.current_term <= MaxTerm
    /\ node' = [node EXCEPT ![i] = n]

\* Mutant: the sender does not wait for room in the receiver's queue.
Send_without_waiting(i, j) ==
    /\ node[i].outbox[j] # <<>>
    /\ node' = [node EXCEPT ![i].outbox[j] = Tail(@)]
    /\ channel' = [channel EXCEPT ![j] =
           Append(@, [from |-> i, message |-> Head(node[i].outbox[j])])]
    /\ UNCHANGED budget

\* Mutant: what was sent stays in the outbox.
Send_keeping(i, j) ==
    /\ node[i].outbox[j] # <<>>
    /\ Len(channel[j]) < ChannelSize
    /\ channel' = [channel EXCEPT ![j] =
           Append(@, [from |-> i, message |-> Head(node[i].outbox[j])])]
    /\ UNCHANGED <<node, budget>>

\* One round of drain_and_send_messages: the envelope at the head for j.
Send(i, j) ==
    /\ node[i].outbox[j] # <<>>
    /\ Len(channel[j]) < ChannelSize
    /\ node' = [node EXCEPT ![i].outbox[j] = Tail(@)]
    /\ channel' = [channel EXCEPT ![j] =
           Append(@, [from |-> i, message |-> Head(node[i].outbox[j])])]
    /\ UNCHANGED budget

Receive(j) ==
    /\ channel[j] # <<>>
    /\ Step(j, handle_message(node[j], Head(channel[j]).from, Head(channel[j]).message))
    /\ channel' = [channel EXCEPT ![j] = Tail(@)]
    /\ UNCHANGED budget

ElectionTimer(i) ==
    /\ node[i].election_deadline = 0
    /\ node[i].role # Leader
    /\ Spend("timeouts")
    /\ Step(i, handle_election_timer(node[i]))
    /\ UNCHANGED channel

HeartbeatTimer(i) ==
    /\ node[i].heartbeat_deadline = 0
    /\ node[i].role = Leader
    /\ Spend("heartbeats")
    /\ Step(i, handle_heartbeat_timer(node[i]))
    /\ UNCHANGED channel

ClientCommand(i, c) ==
    /\ node[i].role = Leader
    /\ last_log_index(node[i]) < MaxLog
    /\ Step(i, submit_client_command(node[i], c))
    /\ UNCHANGED <<channel, budget>>

Next ==
    \/ \E i \in Node :
           \/ Receive(i)
           \/ ElectionTimer(i)
           \/ HeartbeatTimer(i)
           \/ \E j \in Node : Send(i, j)
           \/ \E c \in Command : ClientCommand(i, c)

Spec == Init /\ [][Next]_vars
=============================================================================

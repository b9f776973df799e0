----------------------------- MODULE RaftCluster -----------------------------
(***************************************************************************)
(* A cluster of RaftNodes over the UDP transport: a message may be lost,   *)
(* delayed past any number of later ones, or delivered twice; a node may   *)
(* crash between two events and restart from its storage.                  *)
(*                                                                         *)
(* An event (a message, a timer, a request) is handled to its end before   *)
(* the next one of the same node, as in the loop of EmbassyNode::run, and  *)
(* the messages it produced are then drained to the network.               *)
(***************************************************************************)
EXTENDS RaftNodes, Bags, SequencesExt

CONSTANTS
    ConfigChanges,   \* the membership changes that may be requested
    MaxInFlight,     \* bound: messages on their way at a time, None for no bound
    MaxTimeouts,     \* bound: election timeouts in a behaviour
    MaxHeartbeats,   \* bound: heartbeat timeouts in a behaviour
    MaxRestarts,     \* bound: crashes in a behaviour
    MaxDuplicates    \* bound: duplicated messages in a behaviour

ASSUME ClusterAssumption ==
    /\ ConfigChanges \subseteq ConfigurationChange
    /\ MaxInFlight \in Optional(Nat)
    /\ {MaxTimeouts, MaxHeartbeats, MaxRestarts, MaxDuplicates} \subseteq Nat

VARIABLES
    net,     \* net[i][j] is the bag of messages on their way from i to j
    budget   \* how often each bounded event may still happen

vars == <<node, net, budget>>

Budget == [timeouts : Nat, heartbeats : Nat, restarts : Nat, duplicates : Nat]

\* Every part of the state has its type, and log entries those of T.
Typed(T) ==
    /\ DOMAIN node = Node
    /\ \A i \in Node : /\ NodeOK(node[i], T)
                       /\ node[i].id = i
                       /\ node[i].outbox = no_messages
    /\ DOMAIN net = Node
    /\ \A i, j \in Node : /\ DOMAIN net[i] = Node
                          /\ IsABag(net[i][j])
                          /\ BagToSet(net[i][j]) \subseteq RaftMsg(T)
    /\ budget \in Budget

\* The fields of the nodes and messages have the types of the Rust structs,
\* and the outbox of a node is empty between two events.
TypeOK == Typed(EntryType)

-----------------------------------------------------------------------------
Init ==
    /\ node = [i \in Node |-> start_node(i, new_storage)]
    /\ net = [i \in Node |-> [j \in Node |-> EmptyBag]]
    /\ budget = [timeouts |-> MaxTimeouts, heartbeats |-> MaxHeartbeats,
                 restarts |-> MaxRestarts, duplicates |-> MaxDuplicates]

\* One more of the named event.
Spend(event) ==
    /\ budget[event] > 0
    /\ budget' = [budget EXCEPT ![event] = @ - 1]

InFlight(links) ==
    MapThenSumSet(LAMBDA ij : BagCardinality(links[ij[1]][ij[2]]), Node \X Node)

WithinBound(links) == MaxInFlight # None => InFlight(links) <= MaxInFlight

\* The links once node i has drained its outbox: what goes to lost is lost.
drain_and_send(links, i, outbox, lost) ==
    [a \in Node |-> [b \in Node |->
        IF a = i /\ b \notin lost THEN links[a][b] (+) ToBag(outbox[b]) ELSE links[a][b]]]

\* Mutant: the messages stay in the outbox after they were sent.
Step_keeping_outbox(i, n, links) ==
    /\ n.current_term <= MaxTerm
    /\ node' = [node EXCEPT ![i] = n]
    /\ \E lost \in SUBSET {j \in Node : n.outbox[j] # <<>>} :
           net' = drain_and_send(links, i, n.outbox, lost)
    /\ WithinBound(net')

\* Node i becomes n by one event, on a network whose links were links.
Step(i, n, links) ==
    /\ n.current_term <= MaxTerm
    /\ node' = [node EXCEPT ![i] = [n EXCEPT !.outbox = no_messages]]
    /\ \E lost \in SUBSET {j \in Node : n.outbox[j] # <<>>} :
           net' = drain_and_send(links, i, n.outbox, lost)
    /\ WithinBound(net')

\* The links once one copy of m has left the one from i to j.
Taken(i, j, m) ==
    [a \in Node |-> [b \in Node |->
        IF a = i /\ b = j THEN net[a][b] (-) SetToBag({m}) ELSE net[a][b]]]

Deliver(i, j, m) ==
    /\ Step(j, handle_message(node[j], i, m), Taken(i, j, m))
    /\ UNCHANGED budget

ElectionTimer(i) ==
    /\ node[i].election_deadline = 0
    /\ node[i].role # Leader
    /\ Spend("timeouts")
    /\ Step(i, handle_election_timer(node[i]), net)

HeartbeatTimer(i) ==
    /\ node[i].heartbeat_deadline = 0
    /\ node[i].role = Leader
    /\ Spend("heartbeats")
    /\ Step(i, handle_heartbeat_timer(node[i]), net)

ClientCommand(i, c) ==
    /\ node[i].role = Leader
    /\ last_log_index(node[i]) < MaxLog
    /\ Step(i, submit_client_command(node[i], c), net)
    /\ UNCHANGED budget

\* Event::ConfigChange: submitted without the checks of the ConfigChangeManager.
ConfigChangeEvent(i, change) ==
    /\ node[i].role = Leader
    /\ last_log_index(node[i]) < MaxLog
    /\ Step(i, submit_config_change(node[i], change), net)
    /\ UNCHANGED budget

\* MessageHandler::add_server
AddServerRequest(i, p) ==
    /\ may_add_server(node[i], p)
    /\ last_log_index(node[i]) < MaxLog
    /\ Step(i, add_server(node[i], p), net)
    /\ UNCHANGED budget

\* MessageHandler::remove_server
RemoveServerRequest(i, p) ==
    /\ may_remove_server(node[i], p)
    /\ last_log_index(node[i]) < MaxLog
    /\ Step(i, remove_server(node[i], p), net)
    /\ UNCHANGED budget

\* The process is lost with everything but its storage, and started again.
Restart(i) ==
    /\ Spend("restarts")
    /\ node' = [node EXCEPT ![i] = start_node(i, storage(node[i]))]
    /\ UNCHANGED net

Duplicate(i, j, m) ==
    /\ Spend("duplicates")
    /\ net' = [net EXCEPT ![i][j] = @ (+) SetToBag({m})]
    /\ WithinBound(net')
    /\ UNCHANGED node

Next ==
    \/ \E i, j \in Node : \E m \in BagToSet(net[i][j]) :
           Deliver(i, j, m) \/ Duplicate(i, j, m)
    \/ \E i \in Node :
           \/ ElectionTimer(i)
           \/ HeartbeatTimer(i)
           \/ Restart(i)
           \/ \E c \in Command : ClientCommand(i, c)
    \/ \E i, p \in Node :
           \/ /\ AddServer(p) \in ConfigChanges
              /\ ConfigChangeEvent(i, AddServer(p)) \/ AddServerRequest(i, p)
           \/ /\ RemoveServer(p) \in ConfigChanges
              /\ ConfigChangeEvent(i, RemoveServer(p)) \/ RemoveServerRequest(i, p)

Spec == Init /\ [][Next]_vars

=============================================================================

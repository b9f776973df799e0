--------------------------- MODULE EmbassyCluster ---------------------------
(***************************************************************************)
(* The Embassy application: one task per node that runs EmbassyNode::run   *)
(* over the channel transport, and a task that uses a RaftClient.          *)
(*                                                                         *)
(* A node's loop selects an event (in this order: shutdown, a request of   *)
(* the client, an expired timer, a message), handles it, sends the outbox  *)
(* and answers the requests whose entry is committed.  The executor has    *)
(* one thread: a task that runs goes on until it waits.  Time passes in    *)
(* ticks, one heartbeat interval each, when no task has work left: events  *)
(* are handled faster than timers run out.                                 *)
(***************************************************************************)
EXTENDS RaftNodes, SequencesExt

CONSTANTS
    ChannelSize,    \* CHANNEL_SIZE of the transport's queues
    RequestSize,    \* capacity of a node's request channel (4)
    MaxRetries,     \* max_retries of the client (3)
    ClientTimeout,  \* ticks the client waits for an answer
    FirstNode,      \* the node at index 0 of client_channels
    MaxReads        \* bound on the reads of the client

ASSUME EmbassyAssumption ==
    /\ {ChannelSize, RequestSize, MaxRetries, ClientTimeout, MaxReads} \subseteq Nat
    /\ FirstNode \in Node

VARIABLES
    channel,    \* channel[j]: the queue of envelopes to node j
    running,    \* the node whose task ran last
    stage,      \* where the loop of each node is: "select", "send", "stopped"
    requests,   \* requests[i]: the request channel of node i
    pending,    \* pending[i]: the indices in pending_commands
    answers,    \* the response channels of the client, of one slot each
    cancelled,  \* the CancellationToken
    client,     \* the call the client is in
    issued,     \* the commands submitted so far, and how many reads
    acked       \* the commands for which submit_command returned Ok

vars == <<node, channel, running, stage, requests, pending, answers, cancelled, client,
          issued, acked>>

nodeVars == <<node, channel, running, stage, requests, pending>>
clientVars == <<client, issued, acked>>

Write(c) == [kind |-> "write", payload |-> c]
Read == [kind |-> "read"]
Request == {Write(c) : c \in Command} \cup {Read}

Ok(value) == [is |-> "Ok", value |-> value]
NotLeader(hint) == [is |-> "NotLeader", hint |-> hint]

\* The client between two calls, and in one of them.
NoCall == [stage |-> "idle"]
Calling(st, req, attempt, target, waited) ==
    [stage |-> st, request |-> req, attempt |-> attempt, target |-> target,
     waited |-> waited]

-----------------------------------------------------------------------------
(* EmbassyNode                                                             *)

\* EmbassyTimer::check_expired, of which the loop takes the first.
check_expired(n) ==
    IF n.election_deadline = 0 THEN {"Election"}
    ELSE IF n.heartbeat_deadline = 0 THEN {"Heartbeat"} ELSE {}

\* try_send to a response channel, which is ignored when the slot is taken.
Answer(slots, kind, result) ==
    IF slots[kind] = <<>> THEN [slots EXCEPT ![kind] = <<result>>] ELSE slots

\* The task of node i waits for something that is not there yet.
Parked(i) ==
    \/ stage[i] = "stopped"
    \/ /\ stage[i] = "select"
       /\ requests[i] = <<>>
       /\ check_expired(node[i]) = {}
       /\ channel[i] = <<>>
    \/ /\ stage[i] = "send"
       /\ node[i].outbox # no_messages
       /\ \A j \in Node : node[i].outbox[j] # <<>> => Len(channel[j]) = ChannelSize

\* The executor polls the task of node i.
Polled(i) ==
    /\ running = i \/ Parked(running)
    /\ running' = i

\* Mutant: a read is answered by any node.
handle_read_anywhere(i) == answers' = Answer(answers, "read", Ok(node[i].state_machine))

\* The Read branch of handle_client_request.
handle_read(i) ==
    answers' = Answer(answers, "read",
                      IF may_read_linearizable(node[i]) THEN Ok(node[i].state_machine)
                      ELSE NotLeader(node[i].current_leader))

\* Mutant: the command counts as done when the leader has stored it.
handle_write_at_once(i, c) ==
    /\ node' = [node EXCEPT ![i] = submit_client_command(@, c)]
    /\ answers' = Answer(answers, "write",
                         IF node[i].role = Leader THEN Ok(None)
                         ELSE NotLeader(node[i].current_leader))
    /\ UNCHANGED pending

\* Mutant: a write is accepted under the condition of a read.
handle_write_leased(i, c) ==
    /\ IF may_read_linearizable(node[i])
       THEN /\ node' = [node EXCEPT ![i] = submit_client_command(@, c)]
            /\ pending' = [pending EXCEPT ![i] = @ \cup {last_log_index(node'[i])}]
            /\ UNCHANGED answers
       ELSE /\ answers' = Answer(answers, "write", NotLeader(node[i].current_leader))
            /\ UNCHANGED <<node, pending>>

\* The Write branch of handle_client_request.
handle_write(i, c) ==
    /\ node' = [node EXCEPT ![i] = submit_client_command(@, c)]
    /\ IF node[i].role = Leader
       THEN /\ pending' = [pending EXCEPT ![i] = @ \cup {last_log_index(node'[i])}]
            /\ UNCHANGED answers
       ELSE /\ answers' = Answer(answers, "write", NotLeader(node[i].current_leader))
            /\ UNCHANGED pending

TakeRequest(i) ==
    /\ Polled(i)
    /\ stage[i] = "select"
    /\ requests[i] # <<>>
    /\ requests' = [requests EXCEPT ![i] = Tail(@)]
    /\ stage' = [stage EXCEPT ![i] = "send"]
    /\ IF Head(requests[i]).kind = "write"
       THEN handle_write(i, Head(requests[i]).payload)
       ELSE handle_read(i) /\ UNCHANGED <<node, pending>>
    /\ UNCHANGED <<channel, cancelled, client, issued, acked>>

TakeTimer(i) ==
    /\ Polled(i)
    /\ stage[i] = "select"
    /\ requests[i] = <<>>
    /\ \E timer \in check_expired(node[i]) :
           node' = [node EXCEPT ![i] = IF timer = "Election" THEN handle_election_timer(@)
                                       ELSE handle_heartbeat_timer(@)]
    /\ stage' = [stage EXCEPT ![i] = "send"]
    /\ UNCHANGED <<channel, requests, pending, answers, cancelled, client, issued, acked>>

TakeMessage(i) ==
    /\ Polled(i)
    /\ stage[i] = "select"
    /\ requests[i] = <<>>
    /\ check_expired(node[i]) = {}
    /\ channel[i] # <<>>
    /\ node' = [node EXCEPT ![i] =
           handle_message(@, Head(channel[i]).from, Head(channel[i]).message)]
    /\ channel' = [channel EXCEPT ![i] = Tail(@)]
    /\ stage' = [stage EXCEPT ![i] = "send"]
    /\ UNCHANGED <<requests, pending, answers, cancelled, client, issued, acked>>

\* drain_and_send_messages: what has room is sent, the task waits with the
\* rest.
Send(i) ==
    LET fits(j) == Min({Len(node[i].outbox[j]), ChannelSize - Len(channel[j])})
        envelopes(j) == [k \in 1..fits(j) |-> [from |-> i, message |-> node[i].outbox[j][k]]]
    IN  /\ Polled(i)
        /\ stage[i] = "send"
        /\ \E j \in Node : fits(j) > 0
        /\ node' = [node EXCEPT ![i].outbox =
               [j \in Node |-> SubSeq(@[j], fits(j) + 1, Len(@[j]))]]
        /\ channel' = [j \in Node |-> channel[j] \o envelopes(j)]
        /\ UNCHANGED <<stage, requests, pending, answers, cancelled, client, issued, acked>>

\* Every completed index is answered; the channel has room for one answer.
process_committed_requests(i) ==
    LET completed == {k \in pending[i] : k <= node[i].commit_index}
    IN  /\ pending' = [pending EXCEPT ![i] = @ \ completed]
        /\ answers' = IF completed = {} THEN answers ELSE Answer(answers, "write", Ok(None))

\* The outbox is empty: the loop answers what is committed and starts over,
\* with a look at the token before it waits for anything else.
FinishEvent(i) ==
    /\ Polled(i)
    /\ stage[i] = "send"
    /\ node[i].outbox = no_messages
    /\ process_committed_requests(i)
    /\ stage' = [stage EXCEPT ![i] = IF cancelled THEN "stopped" ELSE "select"]
    /\ UNCHANGED <<node, channel, requests, cancelled, client, issued, acked>>

\* Mutant: the first node that sees the token takes it.
Stop_taking_the_token(i) ==
    /\ Polled(i)
    /\ cancelled
    /\ stage[i] = "select"
    /\ stage' = [stage EXCEPT ![i] = "stopped"]
    /\ cancelled' = FALSE
    /\ UNCHANGED <<node, channel, requests, pending, answers, client, issued, acked>>

\* A node that waits looks at the token every 10 ms: it may take an event
\* before.
Stop(i) ==
    /\ Polled(i)
    /\ cancelled
    /\ stage[i] = "select"
    /\ stage' = [stage EXCEPT ![i] = "stopped"]
    /\ UNCHANGED <<node, channel, requests, pending, answers, cancelled, client, issued, acked>>

-----------------------------------------------------------------------------
(* RaftClient: one call at a time.                                         *)

SubmitCommand(c) ==
    /\ Parked(running)
    /\ client = NoCall
    /\ c \notin issued.commands
    /\ issued' = [issued EXCEPT !.commands = @ \cup {c}]
    /\ client' = Calling("attempt", Write(c), 1, FirstNode, 0)
    /\ UNCHANGED <<nodeVars, answers, cancelled, acked>>

ReadValue ==
    /\ Parked(running)
    /\ client = NoCall
    /\ issued.reads < MaxReads
    /\ issued' = [issued EXCEPT !.reads = @ + 1]
    /\ client' = Calling("attempt", Read, 1, FirstNode, 0)
    /\ UNCHANGED <<nodeVars, answers, cancelled, acked>>

Shutdown ==
    /\ Parked(running)
    /\ client = NoCall
    /\ ~cancelled
    /\ cancelled' = TRUE
    /\ UNCHANGED <<nodeVars, answers, clientVars>>

\* The response channel is emptied, then the request is sent; a full request
\* channel ends the call with ChannelFull.
Attempt ==
    /\ Parked(running)
    /\ client.stage = "attempt"
    /\ answers' = [answers EXCEPT ![client.request.kind] = <<>>]
    /\ IF Len(requests[client.target]) < RequestSize
       THEN /\ requests' = [requests EXCEPT ![client.target] = Append(@, client.request)]
            /\ client' = [client EXCEPT !.stage = "waiting"]
       ELSE client' = NoCall /\ UNCHANGED requests
    /\ UNCHANGED <<node, channel, running, stage, pending, cancelled, issued, acked>>

\* An answer: Ok and an error end the call, a hint starts the next attempt
\* there, as long as there are any left.
TakeAnswer ==
    /\ Parked(running)
    /\ client.stage = "waiting"
    /\ answers[client.request.kind] # <<>>
    /\ LET result == Head(answers[client.request.kind])
       IN  /\ acked' = IF result.is = "Ok" /\ client.request.kind = "write"
                       THEN acked \cup {client.request.payload} ELSE acked
           /\ client' = IF /\ result.is = "NotLeader"
                           /\ result.hint # None
                           /\ client.attempt < MaxRetries
                        THEN Calling("attempt", client.request, client.attempt + 1,
                                     result.hint, 0)
                        ELSE NoCall
    /\ answers' = [answers EXCEPT ![client.request.kind] = <<>>]
    /\ UNCHANGED <<nodeVars, cancelled, issued>>

\* Mutant: the wait starts over.
GiveUp_never ==
    /\ Parked(running)
    /\ client.stage = "waiting"
    /\ answers[client.request.kind] = <<>>
    /\ client.waited = ClientTimeout
    /\ client' = [client EXCEPT !.waited = 0]
    /\ UNCHANGED <<nodeVars, answers, cancelled, issued, acked>>

GiveUp ==
    /\ Parked(running)
    /\ client.stage = "waiting"
    /\ answers[client.request.kind] = <<>>
    /\ client.waited = ClientTimeout
    /\ client' = NoCall
    /\ UNCHANGED <<nodeVars, answers, cancelled, issued, acked>>

-----------------------------------------------------------------------------
(* Time                                                                    *)

\* A heartbeat timer that is due on a node that does not lead is not reset by
\* handle_heartbeat_timer: the loop is given it again and again and its task
\* never waits, while the clock goes on.
Spinning(i) ==
    /\ stage[i] \in {"select", "send"}
    /\ node[i].outbox = no_messages
    /\ node[i].role # Leader
    /\ check_expired(node[i]) = {"Heartbeat"}

ClientWaits ==
    \/ client = NoCall
    \/ /\ client.stage = "waiting"
       /\ answers[client.request.kind] = <<>>
       /\ client.waited < ClientTimeout

Tick ==
    /\ \/ Spinning(running)
       \/ /\ \A i \in Node : Parked(i) /\ ~(cancelled /\ stage[i] = "select")
          /\ ClientWaits
    /\ node' = [i \in Node |-> elapse(node[i])]
    /\ client' = IF client.stage = "waiting"
                 THEN [client EXCEPT !.waited = Min({@ + 1, ClientTimeout})] ELSE client
    /\ UNCHANGED <<channel, running, stage, requests, pending, answers, cancelled, issued, acked>>

-----------------------------------------------------------------------------
\* The nodes and their queues as the application starts with them.
InitAround(nodes) ==
    /\ node = nodes
    /\ channel = [j \in Node |-> <<>>]
    /\ running = FirstNode
    /\ stage = [i \in Node |-> "select"]
    /\ requests = [i \in Node |-> <<>>]
    /\ pending = [i \in Node |-> {}]
    /\ answers = [kind \in {"write", "read"} |-> <<>>]
    /\ cancelled = FALSE
    /\ client = NoCall
    /\ issued = [commands |-> {}, reads |-> 0]
    /\ acked = {}

NodeTask(i) ==
    \/ TakeRequest(i)
    \/ TakeTimer(i)
    \/ TakeMessage(i)
    \/ Send(i)
    \/ FinishEvent(i)
    \/ Stop(i)

ClientTask == Attempt \/ TakeAnswer \/ GiveUp

Next ==
    \/ \E i \in Node : NodeTask(i)
    \/ ClientTask
    \/ \E c \in Command : SubmitCommand(c)
    \/ ReadValue
    \/ Shutdown
    \/ Tick

\* The task of node i gets to another stage of its loop.  Nothing but
\* NodeTask(i) does that, and it can unless the task waits.
Turn(i) ==
    /\ running = i \/ Parked(running)
    /\ ~Parked(i) \/ (cancelled /\ stage[i] = "select")
    /\ \E st \in {"select", "send", "stopped"} : stage' = [stage EXCEPT ![i] = st]

\* The executor polls every task that was woken, and time goes on; when the
\* client makes a call, or whether it does, is its own affair.
Fairness ==
    /\ \A i \in Node : WF_stage(Turn(i))
    /\ WF_vars(ClientTask)
    /\ WF_vars(Tick)

-----------------------------------------------------------------------------
(* Properties                                                              *)

Elements(s) == {s[k] : k \in DOMAIN s}

\* A command the client was told is done (process_committed_requests goes by
\* the index alone) is in the log of a majority.
OkMeansCommitted ==
    \A c \in acked :
        has_quorum(node[FirstNode].members,
                   Cardinality({i \in Node : \E k \in DOMAIN node[i].log :
                                                 node[i].log[k].entry_type = c}))

\* A read that is answered shows every write the client has an Ok for.
ReadsSeeAckedWrites ==
    \A k \in DOMAIN answers["read"] :
        answers["read"][k].is = "Ok" =>
            acked \subseteq Elements(answers["read"][k].value)

\* A command that reaches the leader is in the end applied by every node,
\* unless the application is shut down.
CommandsAreCommitted ==
    \A c \in Command :
        (\E i \in Node : node[i].role = Leader /\ Write(c) \in Elements(requests[i]))
        ~> (cancelled \/ \A i \in Node : c \in Elements(node[i].state_machine))

\* Once the application is shut down every node stops, whatever it was doing.
ShutdownStops == cancelled ~> \A i \in Node : stage[i] = "stopped"

\* Every call returns: with an answer, an error or a timeout.
CallsReturn == client # NoCall ~> client = NoCall
=============================================================================

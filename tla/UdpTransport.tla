---------------------------- MODULE UdpTransport ----------------------------
(***************************************************************************)
(* The UDP transport: the path of a message from send to recv.             *)
(*                                                                         *)
(*   outbox[i] --sender task--> tx[i] --network runner--> bus[j]           *)
(*   bus[j] --network runner--> rx[j] --listener task--> inbox[j]          *)
(*                                                                         *)
(* The outbox, the inbox and the bus are channels of the code, the socket  *)
(* buffers tx and rx and the address resolution belong to the network      *)
(* stack, which is external.  The runner of a stack sleeps when it finds   *)
(* nothing to do and is woken by the bus or by a socket.  Every queue is   *)
(* bounded; except for tx, on which the sender waits, a full one drops.    *)
(***************************************************************************)
EXTENDS Naturals, Sequences, SequencesExt

CONSTANTS
    Node, Nothing,
    Broadcast,     \* the hardware address FF:FF:FF:FF:FF:FF
    ChannelSize,   \* CHANNEL_SIZE of the outbox and inbox channels
    BusSize,       \* CHANNEL_SIZE of a queue of the bus
    SocketSize,    \* packets a socket buffer holds
    MaxEntries,    \* capacity of EmbassyLogEntryCollection
    MaxChunk,      \* capacity of HeaplessChunkVec
    MaxPayload,    \* entries or chunk bytes that fit a frame of the MTU
    Sends          \* what the nodes send, each once and in any order

ASSUME UdpAssumption ==
    /\ Broadcast \notin Node
    /\ {s.from : s \in Sends} \cup {s.to : s \in Sends} \subseteq Node
    /\ {ChannelSize, BusSize, SocketSize, MaxEntries, MaxChunk, MaxPayload}
           \subseteq Nat

VARIABLES
    outbox, tx, bus, rx, inbox,
    neighbors,  \* neighbors[i]: the nodes whose hardware address i knows
    asking,     \* asking[i]: the node whose address i has asked for
    runner,     \* "ready" or "asleep"
    waker,      \* has the runner left a waker with the bus?
    arrived,    \* the last envelope that recv returned at each node
    unsent      \* the sends that are still to come

vars == <<outbox, tx, bus, rx, inbox, neighbors, asking, runner, waker,
          arrived, unsent>>

-----------------------------------------------------------------------------
(* serde_raft_message.rs: the wire form of a message, and back.  Each enum *)
(* variant has its mirror, with the collections turned into plain vectors. *)

\* A collection of capacity n, made of a vector.
First(s, n) == SubSeq(s, 1, IF Len(s) < n THEN Len(s) ELSE n)

WireConfigurationChange(c) == [wire |-> c.is, node_id |-> c.node]

ConfigurationChangeOf(w) == [is |-> w.wire, node |-> w.node_id]

WireEntryType(t) ==
    IF t.is = "Command" THEN [wire |-> "Command", payload |-> t.payload]
    ELSE [wire |-> "ConfigChange", change |-> WireConfigurationChange(t.change)]

EntryTypeOf(w) ==
    IF w.wire = "Command" THEN [is |-> "Command", payload |-> w.payload]
    ELSE [is |-> "ConfigChange", change |-> ConfigurationChangeOf(w.change)]

WireLogEntry(e) == [term |-> e.term, entry_type |-> WireEntryType(e.entry_type)]

LogEntryOf(w) == [term |-> w.term, entry_type |-> EntryTypeOf(w.entry_type)]

WireRaftMsg(m) ==
    IF m.type = "AppendEntries"
    THEN [m EXCEPT !.entries = [k \in DOMAIN @ |-> WireLogEntry(@[k])]]
    ELSE m

\* Mutant: the last slot of a collection stays unused.
RaftMsgOf_short(w) ==
    IF w.type = "AppendEntries"
    THEN [w EXCEPT !.entries = First([k \in DOMAIN @ |-> LogEntryOf(@[k])], MaxEntries - 1)]
    ELSE IF w.type = "InstallSnapshot"
    THEN [w EXCEPT !.data = First(@, MaxChunk - 1)]
    ELSE w

\* What exceeds the capacity of a collection is dropped.
RaftMsgOf(w) ==
    IF w.type = "AppendEntries"
    THEN [w EXCEPT !.entries = First([k \in DOMAIN @ |-> LogEntryOf(@[k])], MaxEntries)]
    ELSE IF w.type = "InstallSnapshot"
    THEN [w EXCEPT !.data = First(@, MaxChunk)]
    ELSE w

\* Whether the frame of a message is within the MTU: the stack is built
\* without IP fragmentation and does not transmit a longer one.
Fits(w) ==
    /\ w.type = "AppendEntries" => Len(w.entries) <= MaxPayload
    /\ w.type = "InstallSnapshot" => Len(w.data) <= MaxPayload

UdpFrame(i, j, w) == [kind |-> "udp", dst |-> j, from |-> i, wire |-> w]

ArpFrame(kind, dst, i, j) == [kind |-> kind, dst |-> dst, from |-> i, target |-> j]

-----------------------------------------------------------------------------
Init ==
    /\ outbox = [i \in Node |-> <<>>]
    /\ tx = [i \in Node |-> <<>>]
    /\ bus = [i \in Node |-> <<>>]
    /\ rx = [i \in Node |-> <<>>]
    /\ inbox = [i \in Node |-> <<>>]
    /\ neighbors = [i \in Node |-> {}]
    /\ asking = [i \in Node |-> Nothing]
    /\ runner = [i \in Node |-> "ready"]
    /\ waker = [i \in Node |-> FALSE]
    /\ arrived = [i \in Node |-> Nothing]
    /\ unsent = Sends

\* UdpTransport::send: a full outbox drops the message.
Send(i, j, m) ==
    /\ unsent' = unsent \ {[from |-> i, to |-> j, message |-> m]}
    /\ outbox' = IF Len(outbox[i]) < ChannelSize
                 THEN [outbox EXCEPT ![i] = Append(@, [to |-> j, message |-> m])]
                 ELSE outbox
    /\ UNCHANGED <<tx, bus, rx, inbox, neighbors, asking, runner, waker, arrived>>

\* One round of run_udp_sender: send_to waits for room in the socket, and
\* the socket wakes the runner.
SenderTask(i) ==
    /\ outbox[i] # <<>>
    /\ Len(tx[i]) < SocketSize
    /\ outbox' = [outbox EXCEPT ![i] = Tail(@)]
    /\ tx' = [tx EXCEPT ![i] = Append(@,
           UdpFrame(i, Head(outbox[i]).to, WireRaftMsg(Head(outbox[i]).message)))]
    /\ runner' = [runner EXCEPT ![i] = "ready"]
    /\ UNCHANGED <<bus, rx, inbox, neighbors, asking, waker, arrived, unsent>>

-----------------------------------------------------------------------------
(* MockNetDriver                                                           *)

\* Mutant: the queues are filled but nobody is woken.
TxConsume_silent(queues, i, frame) ==
    LET targets == IF frame.dst = Broadcast THEN Node \ {i} ELSE {frame.dst}
        sent    == {t \in targets : Len(queues[t]) < BusSize}
    IN  /\ bus' = [t \in Node |-> IF t \in sent THEN Append(queues[t], frame)
                                  ELSE queues[t]]
        /\ UNCHANGED <<runner, waker>>

\* TxToken::consume, to the queue of the target or of everybody else, and
\* wake_node for each queue that had room: the waker is taken and woken.
TxConsume(queues, i, frame) ==
    LET targets == IF frame.dst = Broadcast THEN Node \ {i} ELSE {frame.dst}
        sent    == {t \in targets : Len(queues[t]) < BusSize}
    IN  /\ bus' = [t \in Node |-> IF t \in sent THEN Append(queues[t], frame)
                                  ELSE queues[t]]
        /\ runner' = [t \in Node |-> IF t \in sent /\ waker[t] THEN "ready" ELSE runner[t]]
        /\ waker' = [t \in Node |-> waker[t] /\ t \notin sent]

\* The runner sends the packet at the head of the socket buffer.
Egress(i) ==
    /\ runner[i] = "ready"
    /\ tx[i] # <<>>
    /\ Head(tx[i]).dst \in neighbors[i]
    /\ tx' = [tx EXCEPT ![i] = Tail(@)]
    /\ IF Fits(Head(tx[i]).wire) THEN TxConsume(bus, i, Head(tx[i]))
       ELSE UNCHANGED <<bus, runner, waker>>
    /\ UNCHANGED <<outbox, rx, inbox, neighbors, asking, arrived, unsent>>

\* The address of the receiver is not known: everybody is asked for it, and
\* the packet stays in the socket buffer.
ArpRequest(i) ==
    /\ runner[i] = "ready"
    /\ tx[i] # <<>>
    /\ Head(tx[i]).dst \notin neighbors[i]
    /\ asking[i] = Nothing
    /\ asking' = [asking EXCEPT ![i] = Head(tx[i]).dst]
    /\ TxConsume(bus, i, ArpFrame("arp_request", Broadcast, i, Head(tx[i]).dst))
    /\ UNCHANGED <<outbox, tx, rx, inbox, neighbors, arrived, unsent>>

\* Driver::receive returns a frame, which the stack handles.
Ingress(j) ==
    LET frame == Head(bus[j])
        rest  == [bus EXCEPT ![j] = Tail(@)]
    IN  /\ runner[j] = "ready"
        /\ bus[j] # <<>>
        /\ \/ /\ frame.kind = "udp"
              /\ rx' = IF Len(rx[j]) < SocketSize
                       THEN [rx EXCEPT ![j] = Append(@, frame)] ELSE rx
              /\ bus' = rest
              /\ UNCHANGED <<neighbors, asking, runner, waker>>
           \/ /\ frame.kind = "arp_request"
              /\ IF frame.target = j
                 THEN /\ neighbors' = [neighbors EXCEPT ![j] = @ \cup {frame.from}]
                      /\ TxConsume(rest, j, ArpFrame("arp_reply", frame.from, j, frame.from))
                 ELSE bus' = rest /\ UNCHANGED <<neighbors, runner, waker>>
              /\ UNCHANGED <<rx, asking>>
           \/ /\ frame.kind = "arp_reply"
              /\ neighbors' = [neighbors EXCEPT ![j] = @ \cup {frame.from}]
              /\ asking' = [asking EXCEPT ![j] = Nothing]
              /\ bus' = rest
              /\ UNCHANGED <<rx, runner, waker>>
        /\ UNCHANGED <<outbox, tx, inbox, arrived, unsent>>

\* The head of tx[i] can be sent, or its address asked for.
MayTransmit(i) ==
    tx[i] # <<>> /\ (Head(tx[i]).dst \in neighbors[i] \/ asking[i] = Nothing)

\* Mutant: a runner that finds no packet does not leave its waker.
Sleep_without_waker(i) ==
    /\ runner[i] = "ready"
    /\ bus[i] = <<>>
    /\ ~MayTransmit(i)
    /\ runner' = [runner EXCEPT ![i] = "asleep"]
    /\ UNCHANGED <<outbox, tx, bus, rx, inbox, neighbors, asking, waker, arrived, unsent>>

\* Driver::receive finds no packet and registers the waker.
Sleep(i) ==
    /\ runner[i] = "ready"
    /\ bus[i] = <<>>
    /\ ~MayTransmit(i)
    /\ runner' = [runner EXCEPT ![i] = "asleep"]
    /\ waker' = [waker EXCEPT ![i] = TRUE]
    /\ UNCHANGED <<outbox, tx, bus, rx, inbox, neighbors, asking, arrived, unsent>>

\* A request of node i, or the answer to it, is still in some queue.
ArpInTransit(i) ==
    \E t \in Node : \E k \in DOMAIN bus[t] :
        bus[t][k].kind # "udp" /\ i \in {bus[t][k].from, bus[t][k].target}

\* No answer came: the stack's timer lets it ask again.  Frames are handled
\* faster than this timer runs out.
ArpExpires(i) ==
    /\ asking[i] # Nothing
    /\ ~ArpInTransit(i)
    /\ asking' = [asking EXCEPT ![i] = Nothing]
    /\ runner' = [runner EXCEPT ![i] = "ready"]
    /\ UNCHANGED <<outbox, tx, bus, rx, inbox, neighbors, waker, arrived, unsent>>

\* One round of run_udp_listener: a full inbox drops the message.
ListenerTask(j) ==
    /\ rx[j] # <<>>
    /\ rx' = [rx EXCEPT ![j] = Tail(@)]
    /\ inbox' = IF Len(inbox[j]) < ChannelSize
                THEN [inbox EXCEPT ![j] = Append(@,
                         [from |-> Head(rx[j]).from,
                          message |-> RaftMsgOf(Head(rx[j]).wire)])]
                ELSE inbox
    /\ UNCHANGED <<outbox, tx, bus, neighbors, asking, runner, waker, arrived, unsent>>

\* UdpTransport::recv
Recv(j) ==
    /\ inbox[j] # <<>>
    /\ arrived' = [arrived EXCEPT ![j] = Head(inbox[j])]
    /\ inbox' = [inbox EXCEPT ![j] = Tail(@)]
    /\ UNCHANGED <<outbox, tx, bus, rx, neighbors, asking, runner, waker, unsent>>

-----------------------------------------------------------------------------
Runner(i) == Egress(i) \/ ArpRequest(i) \/ Ingress(i) \/ Sleep(i)

Next ==
    \/ \E s \in unsent : Send(s.from, s.to, s.message)
    \/ \E i \in Node :
        \/ SenderTask(i)
        \/ Runner(i)
        \/ ArpExpires(i)
        \/ ListenerTask(i)
        \/ Recv(i)

\* Each of these is a task of its own, and the executor polls every task
\* that was woken; a runner that is polled serves both directions.  That the
\* node sends anything is not assumed.
Fairness ==
    \A i \in Node :
        /\ WF_vars(SenderTask(i))
        /\ WF_vars(Ingress(i))
        /\ WF_vars(Egress(i) \/ ArpRequest(i))
        /\ WF_vars(Sleep(i))
        /\ WF_vars(ArpExpires(i))
        /\ WF_vars(ListenerTask(i))
        /\ WF_vars(Recv(i))

Spec == Init /\ [][Next]_vars /\ Fairness

-----------------------------------------------------------------------------
(* Properties                                                              *)

\* No work ever waits beside a runner that sleeps, a packet in the bus or one
\* in the socket that can be sent: whoever fills the queue finds the waker of
\* a runner that went to sleep on an empty one.
NoLostWakeup ==
    \A j \in Node : bus[j] # <<>> \/ MayTransmit(j) => runner[j] = "ready"

Quiet ==
    \A i \in Node : {outbox[i], tx[i], bus[i], rx[i], inbox[i]} = {<<>>}

\* Nothing is left behind in a queue for good, behind a missing address, a
\* full queue or a sleeping task: every message is delivered or dropped.
EverythingSettles == <>[]Quiet

\* The messages from i to j that are somewhere on the path, oldest first.
InFlight(i, j) ==
    LET frames(s) == LET own == SelectSeq(s, LAMBDA f : f.kind = "udp" /\ f.from = i
                                                        /\ f.dst = j)
                     IN  [k \in DOMAIN own |-> RaftMsgOf(own[k].wire)]
        in  == SelectSeq(inbox[j], LAMBDA e : e.from = i)
        out == SelectSeq(outbox[i], LAMBDA e : e.to = j)
    IN  [k \in DOMAIN in |-> in[k].message]
        \o frames(rx[j]) \o frames(bus[j]) \o frames(tx[i])
        \o [k \in DOMAIN out |-> out[k].message]

Link == INSTANCE LossyLink
    WITH inFlight <- [i \in Node |-> [j \in Node |-> InFlight(i, j)]],
         Msg <- {s.message : s \in Sends}

\* The path through five queues and two conversions is a first-in first-out
\* link that may lose messages: none is changed, duplicated, reordered or
\* handed to another node.
ImplementsLossyLink == Link!LinkSpec
=============================================================================

------------------------------ MODULE UdpProofs ------------------------------
(***************************************************************************)
(* No wake-up is lost between the driver and the runners of the network    *)
(* stacks, for any number of nodes, any messages and any sizes of the      *)
(* queues.                                                                 *)
(***************************************************************************)
EXTENDS UdpTransport, TLAPS

\* What holds of a runner that sleeps: its waker is with the bus, which has
\* nothing for it, and it has nothing to send.
Asleep(j) == waker[j] /\ bus[j] = <<>> /\ ~MayTransmit(j)

\* The inductive invariant of NoLostWakeup.
Wakeable ==
    /\ DOMAIN bus = Node /\ DOMAIN tx = Node /\ DOMAIN neighbors = Node
    /\ DOMAIN asking = Node
    /\ runner \in [Node -> {"ready", "asleep"}]
    /\ waker \in [Node -> BOOLEAN]
    /\ \A j \in Node : runner[j] = "asleep" => Asleep(j)

-----------------------------------------------------------------------------
\* TxToken::consume leaves no runner asleep beside a packet: it wakes whoever
\* it gives one, and lets sleep only those it gives none.
LEMMA ConsumeWakes ==
    ASSUME NEW queues, NEW i, NEW frame, TxConsume(queues, i, frame),
           runner \in [Node -> {"ready", "asleep"}],
           waker \in [Node -> BOOLEAN],
           \A j \in Node : runner[j] = "asleep" => waker[j] /\ queues[j] = <<>>
    PROVE  /\ DOMAIN bus' = Node
           /\ runner' \in [Node -> {"ready", "asleep"}]
           /\ waker' \in [Node -> BOOLEAN]
           /\ \A j \in Node : runner'[j] = "asleep" =>
                  runner[j] = "asleep" /\ waker'[j] /\ bus'[j] = <<>>
<1> DEFINE targets == IF frame.dst = Broadcast THEN Node \ {i} ELSE {frame.dst}
           sent == {t \in targets : Len(queues[t]) < BusSize}
<1> HIDE DEF targets
<1>1. /\ bus' = [t \in Node |-> IF t \in sent THEN Append(queues[t], frame) ELSE queues[t]]
      /\ runner' = [t \in Node |-> IF t \in sent /\ waker[t] THEN "ready" ELSE runner[t]]
      /\ waker' = [t \in Node |-> waker[t] /\ t \notin sent]
    BY DEF TxConsume, targets
<1> HIDE DEF sent
<1>2. ASSUME NEW j \in Node, runner'[j] = "asleep"
      PROVE  runner[j] = "asleep" /\ waker'[j] /\ bus'[j] = <<>>
    <2>1. runner[j] = "asleep" /\ ~(j \in sent /\ waker[j])
        BY <1>1, <1>2
    <2> QED BY <1>1, <2>1
<1>3. waker' \in [Node -> BOOLEAN]
    BY <1>1, Zenon
<1> QED BY <1>1, <1>2, <1>3

\* Every step keeps the runners wakeable.
LEMMA StaysWakeable == Wakeable /\ [Next]_vars => Wakeable'
<1> SUFFICES ASSUME Wakeable, [Next]_vars PROVE Wakeable'
    OBVIOUS
<1> USE DEF Wakeable, Asleep, MayTransmit
<1>1. CASE UNCHANGED vars
    BY <1>1 DEF vars
<1>2. ASSUME NEW s \in unsent, Send(s.from, s.to, s.message) PROVE Wakeable'
    BY <1>2 DEF Send
<1>3. ASSUME NEW i \in Node, SenderTask(i) PROVE Wakeable'
    BY <1>3 DEF SenderTask
<1>4. ASSUME NEW i \in Node, Egress(i) PROVE Wakeable'
    <2>1. runner[i] = "ready" /\ tx' = [tx EXCEPT ![i] = Tail(@)]
        BY <1>4 DEF Egress
    <2>2. UNCHANGED <<neighbors, asking>>
        BY <1>4 DEF Egress
    <2>3. CASE UNCHANGED <<bus, runner, waker>>
        BY <2>1, <2>2, <2>3
    <2>4. CASE TxConsume(bus, i, Head(tx[i]))
        BY <2>1, <2>2, <2>4, ConsumeWakes
    <2> QED BY <1>4, <2>3, <2>4 DEF Egress
<1>5. ASSUME NEW i \in Node, ArpRequest(i) PROVE Wakeable'
    <2> DEFINE frame == ArpFrame("arp_request", Broadcast, i, Head(tx[i]).dst)
    <2>1. /\ runner[i] = "ready"
          /\ asking' = [asking EXCEPT ![i] = Head(tx[i]).dst]
          /\ TxConsume(bus, i, frame)
          /\ UNCHANGED <<tx, neighbors>>
        BY <1>5 DEF ArpRequest
    <2> HIDE DEF frame
    <2> QED BY <2>1, ConsumeWakes
<1>6. ASSUME NEW j \in Node, Ingress(j) PROVE Wakeable'
    <2> DEFINE rest == [bus EXCEPT ![j] = Tail(@)]
               frame == Head(bus[j])
               reply == ArpFrame("arp_reply", frame.from, j, frame.from)
    <2>1. runner[j] = "ready" /\ tx' = tx
        BY <1>6 DEF Ingress
    <2>2. \/ /\ bus' = rest
             /\ UNCHANGED <<neighbors, asking, runner, waker>>
          \/ /\ neighbors' = [neighbors EXCEPT ![j] = @ \cup {frame.from}]
             /\ TxConsume(rest, j, reply)
             /\ UNCHANGED asking
          \/ /\ neighbors' = [neighbors EXCEPT ![j] = @ \cup {frame.from}]
             /\ asking' = [asking EXCEPT ![j] = Nothing]
             /\ bus' = rest
             /\ UNCHANGED <<runner, waker>>
        BY <1>6 DEF Ingress
    <2>3. DOMAIN rest = Node /\ \A t \in Node \ {j} : rest[t] = bus[t]
        OBVIOUS
    <2> HIDE DEF rest, frame, reply
    <2>4. CASE /\ neighbors' = [neighbors EXCEPT ![j] = @ \cup {frame.from}]
               /\ TxConsume(rest, j, reply)
               /\ UNCHANGED asking
        BY <2>1, <2>3, <2>4, ConsumeWakes
    <2>5. CASE /\ bus' = rest
               /\ UNCHANGED <<neighbors, asking, runner, waker>>
        BY <2>1, <2>3, <2>5
    <2>6. CASE /\ neighbors' = [neighbors EXCEPT ![j] = @ \cup {frame.from}]
               /\ asking' = [asking EXCEPT ![j] = Nothing]
               /\ bus' = rest
               /\ UNCHANGED <<runner, waker>>
        BY <2>1, <2>3, <2>6
    <2> QED BY <2>2, <2>4, <2>5, <2>6
<1>7. ASSUME NEW i \in Node, Sleep(i) PROVE Wakeable'
    <2>1. waker' \in [Node -> BOOLEAN]
        BY <1>7, Zenon DEF Sleep
    <2> QED BY <1>7, <2>1 DEF Sleep
<1>8. ASSUME NEW i \in Node, ArpExpires(i) PROVE Wakeable'
    BY <1>8 DEF ArpExpires
<1>9. ASSUME NEW j \in Node, ListenerTask(j) \/ Recv(j) PROVE Wakeable'
    BY <1>9 DEF ListenerTask, Recv
<1> QED BY <1>1, <1>2, <1>3, <1>4, <1>5, <1>6, <1>7, <1>8, <1>9 DEF Next, Runner

(***************************************************************************)
(* Whatever the nodes send and however full the queues are, receive and    *)
(* wake_node of the driver lose no wake-up: a packet in the bus, or one    *)
(* that can be sent, never waits beside a runner that sleeps.              *)
(***************************************************************************)
THEOREM WakeupsAreKept == Spec => []NoLostWakeup
<1>1. Init => Wakeable
    BY DEF Init, Wakeable
<1>2. Wakeable => NoLostWakeup
    BY DEF Wakeable, Asleep, NoLostWakeup
<1> QED BY <1>1, <1>2, StaysWakeable, PTL DEF Spec
=============================================================================

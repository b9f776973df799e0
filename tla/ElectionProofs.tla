--------------------------- MODULE ElectionProofs ---------------------------
(***************************************************************************)
(* Type correctness of RaftCluster, that no node ever withdraws a vote,    *)
(* and Election Safety for a cluster of any size, with a fixed             *)
(* configuration and a network that loses, delays and reorders messages    *)
(* but does not duplicate them.  VotesAccounted is shown to be inductive:  *)
(* an event of a node is quiet, starts an election, gives a vote or counts *)
(* one, and each of these moves a vote from one place to the next.         *)
(***************************************************************************)
EXTENDS VoteAccounting, RaftNodeProofs

-----------------------------------------------------------------------------
(* Links                                                                   *)

\* The messages of a sequence make up a bag, with one copy of a message that
\* has one position.
LEMMA ToBagType ==
    ASSUME NEW S, NEW s \in Seq(S)
    PROVE  /\ IsABag(ToBag(s))
           /\ DOMAIN ToBag(s) = {s[k] : k \in DOMAIN s}
           /\ \A m \in DOMAIN ToBag(s) :
                  (\A k, l \in DOMAIN s : s[k] = m /\ s[l] = m => k = l)
                      => ToBag(s)[m] = 1
<1> DEFINE at(x) == {k \in DOMAIN s : s[k] = x}
           range == {s[k] : k \in DOMAIN s}
<1>1. ToBag(s) = [x \in range |-> Cardinality(at(x))]
    BY DEF ToBag, Range
<1>2. IsFiniteSet(DOMAIN s)
    <2>1. DOMAIN s = 1..Len(s) /\ 1 \in Int /\ Len(s) \in Int
        OBVIOUS
    <2> QED BY <2>1, FS_Interval, Zenon
<1>3. ASSUME NEW x \in range PROVE IsFiniteSet(at(x)) /\ at(x) # {}
    <2>1. at(x) \in SUBSET DOMAIN s /\ at(x) # {}
        OBVIOUS
    <2> HIDE DEF at
    <2> QED BY <1>2, <2>1, FS_Subset, Zenon
<1>4. ASSUME NEW x \in range PROVE Cardinality(at(x)) \in {n \in Nat : n > 0}
    <2> HIDE DEF at
    <2>1. Cardinality(at(x)) \in Nat /\ Cardinality(at(x)) # 0
        BY <1>3, FS_CardinalityType, FS_EmptySet, Zenon
    <2> QED BY <2>1
<1>5. ASSUME NEW x \in range, \A k, l \in DOMAIN s : s[k] = x /\ s[l] = x => k = l
      PROVE  Cardinality(at(x)) = 1
    <2>1. PICK k \in DOMAIN s : s[k] = x
        OBVIOUS
    <2>2. at(x) = {k}
        BY <1>5, <2>1
    <2> HIDE DEF at
    <2> QED BY <2>2, FS_Singleton, Zenon
<1> HIDE DEF at, range
<1> QED BY <1>1, <1>4, <1>5 DEF IsABag, range

\* C is the link B after the messages of s were added.
Added(B, s, C) ==
    /\ IsABag(C)
    /\ DOMAIN C = DOMAIN B \cup {s[k] : k \in DOMAIN s}
    /\ \A m \in DOMAIN B : (\A k \in DOMAIN s : s[k] # m) => C[m] = B[m]
    /\ \A m \in DOMAIN C :
           /\ m \notin DOMAIN B
           /\ \A k, l \in DOMAIN s : s[k] = m /\ s[l] = m => k = l
           => C[m] = 1

\* What a link holds after messages were added to it.
LEMMA AddToLink ==
    ASSUME NEW S, NEW B, IsABag(B), NEW s \in Seq(S)
    PROVE  Added(B, s, B (+) ToBag(s))
<1> DEFINE new == ToBag(s)
           C == B (+) new
<1>1. /\ IsABag(new)
      /\ DOMAIN new = {s[k] : k \in DOMAIN s}
      /\ \A m \in DOMAIN new :
             (\A k, l \in DOMAIN s : s[k] = m /\ s[l] = m => k = l) => new[m] = 1
    BY ToBagType, Zenon
<1> HIDE DEF new
<1>2. C = [e \in (DOMAIN B) \cup (DOMAIN new) |->
              (IF e \in DOMAIN B THEN B[e] ELSE 0)
            + (IF e \in DOMAIN new THEN new[e] ELSE 0)]
    BY DEF (+)
<1> HIDE DEF C
<1>3. (\A e \in DOMAIN B : B[e] \in Nat /\ B[e] > 0)
      /\ (\A e \in DOMAIN new : new[e] \in Nat /\ new[e] > 0)
    BY <1>1 DEF IsABag
<1>4. DOMAIN C = DOMAIN B \cup DOMAIN new
    BY <1>2
<1>5. \A e \in DOMAIN C : C[e] \in Nat /\ C[e] > 0
    BY <1>2, <1>3
<1>6. IsABag(C)
    BY <1>2, <1>5 DEF IsABag
<1>7. \A m \in DOMAIN B : m \notin DOMAIN new => C[m] = B[m]
    BY <1>2, <1>3
<1>8. \A m \in DOMAIN new : m \notin DOMAIN B => C[m] = new[m]
    BY <1>2, <1>3
<1>9. \A m : (\A k \in DOMAIN s : s[k] # m) => m \notin DOMAIN new
    BY <1>1
<1>10. Added(B, s, C)
    BY <1>1, <1>4, <1>6, <1>7, <1>8, <1>9 DEF Added
<1> QED BY <1>10 DEF C, new

\* C is the link B after one copy of m was taken.
OneLess(B, m, C) ==
    /\ IsABag(C)
    /\ DOMAIN C = IF B[m] = 1 THEN DOMAIN B \ {m} ELSE DOMAIN B
    /\ \A e \in DOMAIN C : e # m => C[e] = B[e]

\* What a link holds after one copy of a message was taken from it.
LEMMA TakeFromLink ==
    ASSUME NEW B, IsABag(B), NEW m \in DOMAIN B
    PROVE  OneLess(B, m, B (-) SetToBag({m}))
<1> DEFINE less == [e \in DOMAIN B |-> IF e = m THEN B[e] - 1 ELSE B[e]]
           C == B (-) SetToBag({m})
<1>1. C = [e \in {d \in DOMAIN less : less[d] > 0} |-> less[e]]
    <2>1. less = [e \in DOMAIN B |-> IF e \in DOMAIN SetToBag({m})
                                     THEN B[e] - SetToBag({m})[e] ELSE B[e]]
        BY DEF SetToBag
    <2> HIDE DEF less
    <2> QED BY <2>1 DEF (-)
<1>2. \A e \in DOMAIN B : B[e] \in Nat /\ B[e] > 0
    BY DEF IsABag
<1> HIDE DEF C
<1>3. DOMAIN C = IF B[m] = 1 THEN DOMAIN B \ {m} ELSE DOMAIN B
    BY <1>1, <1>2
<1>4. \A e \in DOMAIN C : C[e] \in Nat /\ C[e] > 0
    BY <1>1, <1>2
<1>5. IsABag(C)
    BY <1>1, <1>4 DEF IsABag
<1>6. \A e \in DOMAIN C : e # m => C[e] = B[e]
    BY <1>1
<1>7. OneLess(B, m, C)
    BY <1>3, <1>5, <1>6 DEF OneLess
<1> QED BY <1>7 DEF C

-----------------------------------------------------------------------------
(* Type correctness                                                        *)

\* The links of a well-typed network.
LinksOK(links, T) ==
    /\ DOMAIN links = Node
    /\ \A i, j \in Node : /\ DOMAIN links[i] = Node
                          /\ IsABag(links[i][j])
                          /\ BagToSet(links[i][j]) \subseteq RaftMsg(T)

\* Taking a message from the network keeps its type.
LEMMA TakenType ==
    ASSUME NEW T, LinksOK(net, T), NEW i \in Node, NEW j \in Node,
           NEW m \in BagToSet(net[i][j])
    PROVE  LinksOK(Taken(i, j, m), T)
<1> DEFINE C == net[i][j] (-) SetToBag({m})
           links == Taken(i, j, m)
<1>1. IsABag(C) /\ DOMAIN C \subseteq DOMAIN net[i][j]
    <2>1. IsABag(net[i][j]) /\ m \in DOMAIN net[i][j]
        BY DEF LinksOK, BagToSet
    <2>2. OneLess(net[i][j], m, C)
        BY <2>1, TakeFromLink, Zenon
    <2> HIDE DEF C
    <2> QED BY <2>2 DEF OneLess
<1> HIDE DEF C
<1>2. ASSUME NEW a \in Node, NEW b \in Node
      PROVE  DOMAIN links[a] = Node
             /\ links[a][b] = IF a = i /\ b = j THEN C ELSE net[a][b]
    BY DEF Taken, C
<1>3. DOMAIN links = Node
    BY DEF Taken
<1> HIDE DEF links
<1>4. LinksOK(links, T)
    BY <1>1, <1>2, <1>3 DEF LinksOK, BagToSet
<1> QED BY <1>4 DEF links

\* Draining an outbox to the network keeps its type.
LEMMA DrainType ==
    ASSUME NEW T, NEW links, LinksOK(links, T), NEW i \in Node,
           NEW outbox \in [Node -> Seq(RaftMsg(T))], NEW lost
    PROVE  LinksOK(drain_and_send(links, i, outbox, lost), T)
<1> DEFINE new == drain_and_send(links, i, outbox, lost)
<1>1. DOMAIN new = Node /\ \A a \in Node : DOMAIN new[a] = Node
    BY DEF drain_and_send, LinksOK
<1>2. ASSUME NEW a \in Node, NEW b \in Node
      PROVE  \/ new[a][b] = links[a][b]
             \/ a = i /\ new[a][b] = links[a][b] (+) ToBag(outbox[b])
    BY DEF drain_and_send, LinksOK
<1> HIDE DEF new
<1>3. ASSUME NEW a \in Node, NEW b \in Node
      PROVE  IsABag(new[a][b]) /\ BagToSet(new[a][b]) \subseteq RaftMsg(T)
    <2> DEFINE C == links[a][b] (+) ToBag(outbox[b])
    <2>1. IsABag(links[a][b]) /\ outbox[b] \in Seq(RaftMsg(T))
          /\ DOMAIN links[a][b] \subseteq RaftMsg(T)
        BY DEF LinksOK, BagToSet
    <2>2. IsABag(C) /\ DOMAIN C = DOMAIN links[a][b] \cup
              {outbox[b][k] : k \in DOMAIN outbox[b]}
        <3>1. Added(links[a][b], outbox[b], C)
            BY <2>1, AddToLink, Zenon
        <3> HIDE DEF C
        <3> QED BY <3>1 DEF Added
    <2>3. {outbox[b][k] : k \in DOMAIN outbox[b]} \subseteq RaftMsg(T)
        BY <2>1
    <2> HIDE DEF C
    <2>4. IsABag(C) /\ DOMAIN C \subseteq RaftMsg(T)
        BY <2>1, <2>2, <2>3
    <2> QED BY <1>2, <2>1, <2>4 DEF C, BagToSet
<1>4. LinksOK(new, T)
    BY <1>1, <1>3 DEF LinksOK
<1> QED BY <1>4 DEF new

\* An event that keeps the types of its node keeps those of the cluster.
LEMMA StepType ==
    ASSUME NEW T, Typed(T), NEW i \in Node, NEW n, NodeOK(n, T), n.id = i,
           NEW links, LinksOK(links, T), Step(i, n, links), budget' \in Budget
    PROVE  Typed(T)'
<1>1. NodeOK([n EXCEPT !.outbox = no_messages], T)
    BY DEF NodeOK, NodeFields, no_messages
<1>2. [n EXCEPT !.outbox = no_messages].id = i
      /\ [n EXCEPT !.outbox = no_messages].outbox = no_messages
    BY DEF NodeOK, NodeFields
<1>3. DOMAIN node' = Node
      /\ \A j \in Node : node'[j] = IF j = i THEN [n EXCEPT !.outbox = no_messages]
                                    ELSE node[j]
    BY DEF Typed, Step
<1>4. \A j \in Node : NodeOK(node'[j], T) /\ node'[j].id = j
                      /\ node'[j].outbox = no_messages
    BY <1>1, <1>2, <1>3 DEF Typed
<1>5. n.outbox \in [Node -> Seq(RaftMsg(T))]
    BY DEF NodeOK
<1>6. LinksOK(net', T)
    <2>1. PICK lost : net' = drain_and_send(links, i, n.outbox, lost)
        BY DEF Step
    <2> QED BY <2>1, <1>5, DrainType, Zenon
<1> QED BY <1>3, <1>4, <1>6 DEF Typed, LinksOK

-----------------------------------------------------------------------------
(* The steps of the cluster                                                *)

(***************************************************************************)
(* One event of node i on a network whose links were links: what it does   *)
(* to the node, as far as elections go, and which message it consumed.     *)
(***************************************************************************)
Event(i, b, links, T) ==
    /\ NodeOK(b, T)
    /\ b.id = i
    /\ \/ links = net
       \/ \E s \in Node : \E m \in BagToSet(net[s][i]) : links = Taken(s, i, m)
    /\ \/ Quiet(node[i], b, T)
       \/ Starts(node[i], b, T)
       \/ \E c \in Node : \E m \in BagToSet(net[c][i]) :
              /\ m.type = "RequestVote"
              /\ links = Taken(c, i, m)
              /\ Votes(node[i], b, c, m.term)
       \/ \E v \in Node : \E t \in Nat :
              /\ Grant(t) \in BagToSet(net[v][i])
              /\ links = Taken(v, i, Grant(t))
              /\ Counts(node[i], b, v, t)

\* A step of the cluster is an event of a node, a restart or a duplication,
\* if T has the entry types that are submitted.
LEMMA NextStep ==
    ASSUME NEW T \in EntryTypes, ConfigChanges \subseteq T, Typed(T), Next
    PROVE  \/ /\ \E i \in Node : \E b, links : Event(i, b, links, T) /\ Step(i, b, links)
              /\ budget' \in Budget
              /\ budget'.duplicates = budget.duplicates
           \/ \E i \in Node : Restart(i)
           \/ \E i, j \in Node : \E m \in BagToSet(net[i][j]) : Duplicate(i, j, m)
<1> DEFINE Done == /\ \E i \in Node : \E b, links :
                          Event(i, b, links, T) /\ Step(i, b, links)
                   /\ budget' \in Budget
                   /\ budget'.duplicates = budget.duplicates
<1>1. LinksOK(net, T) /\ budget \in Budget
    BY DEF Typed, LinksOK
<1>2. ASSUME NEW i \in Node
      PROVE  NodeOK(node[i], T) /\ node[i].id = i /\ node[i].outbox = no_messages
             /\ Silent(node[i])
    BY DEF Typed, Silent, no_messages
<1>3. (Spend("timeouts") \/ Spend("heartbeats") \/ UNCHANGED budget) =>
          budget' \in Budget /\ budget'.duplicates = budget.duplicates
    BY <1>1 DEF Spend, Budget
<1>4. ASSUME NEW i \in Node, NEW b, NodeOK(b, T),
             Quiet(node[i], b, T) \/ Starts(node[i], b, T)
      PROVE  Event(i, b, net, T)
    BY <1>2, <1>4 DEF Event, Quiet, Starts
<1>5. ASSUME NEW i \in Node, NEW j \in Node, NEW m \in BagToSet(net[i][j]),
             Deliver(i, j, m)
      PROVE  Done
    <2> DEFINE b == handle_message(node[j], i, m)
               links == Taken(i, j, m)
    <2>1. m \in RaftMsg(T)
        BY <1>1 DEF LinksOK
    <2>2. NodeOK(b, T)
        BY <1>2, <2>1, HandleMessageType, Zenon
    <2>3. \/ Quiet(node[j], b, T) \/ Starts(node[j], b, T)
          \/ m.type = "RequestVote" /\ Votes(node[j], b, i, m.term)
          \/ m = Grant(m.term) /\ Counts(node[j], b, i, m.term)
        BY <1>2, <2>1, HandleMessageStep
    <2>4. m.term \in Nat
        BY <2>1 DEF RaftMsg
    <2>5. Step(j, b, links)
        BY <1>5 DEF Deliver
    <2> HIDE DEF b
    <2>6. b.id = j
        BY <1>2, <2>3 DEF Quiet, Starts, Votes, Counts
    <2> HIDE DEF links
    <2>7. \E s \in Node : \E n \in BagToSet(net[s][j]) : links = Taken(s, j, n)
        BY DEF links
    <2>8. m.type = "RequestVote" /\ Votes(node[j], b, i, m.term) =>
              \E c \in Node : \E n \in BagToSet(net[c][j]) :
                  /\ n.type = "RequestVote"
                  /\ links = Taken(c, j, n)
                  /\ Votes(node[j], b, c, n.term)
        BY DEF links
    <2>9. m = Grant(m.term) /\ Counts(node[j], b, i, m.term) =>
              \E v \in Node : \E t \in Nat :
                  /\ Grant(t) \in BagToSet(net[v][j])
                  /\ links = Taken(v, j, Grant(t))
                  /\ Counts(node[j], b, v, t)
        BY <2>4 DEF links
    <2>10. Event(j, b, links, T)
        BY <2>2, <2>3, <2>6, <2>7, <2>8, <2>9, Zenon DEF Event
    <2> QED BY <1>3, <1>5, <2>5, <2>10 DEF Deliver
<1>6. ASSUME NEW i \in Node, ElectionTimer(i) PROVE Done
    <2> DEFINE b == handle_election_timer(node[i])
    <2>1. NodeOK(b, T) /\ (Quiet(node[i], b, T) \/ Starts(node[i], b, T))
        BY <1>2, ElectionTimerType, ElectionTimerStep, Zenon
    <2> QED BY <1>3, <1>4, <1>6, <2>1 DEF ElectionTimer
<1>7. ASSUME NEW i \in Node, HeartbeatTimer(i) PROVE Done
    <2> DEFINE b == handle_heartbeat_timer(node[i])
    <2>1. NodeOK(b, T) /\ Quiet(node[i], b, T)
        BY <1>2, HeartbeatType, HeartbeatQuiet, Zenon
    <2> QED BY <1>3, <1>4, <1>7, <2>1 DEF HeartbeatTimer
<1>8. ASSUME NEW i \in Node, NEW c \in Command, ClientCommand(i, c) PROVE Done
    <2> DEFINE b == submit_client_command(node[i], c)
    <2>1. NodeOK(b, T) /\ Quiet(node[i], b, T)
        BY <1>2, SubmitType, SubmitQuiet, Zenon
    <2> QED BY <1>3, <1>4, <1>8, <2>1 DEF ClientCommand
<1>9. ASSUME NEW i \in Node, NEW e \in ConfigChanges, ConfigChangeEvent(i, e) PROVE Done
    <2> DEFINE b == submit_config_change(node[i], e)
    <2>1. NodeOK(b, T) /\ Quiet(node[i], b, T)
        BY <1>2, SubmitType, SubmitQuiet, Zenon
    <2> QED BY <1>3, <1>4, <1>9, <2>1 DEF ConfigChangeEvent
<1>10. ASSUME NEW i \in Node, NEW p \in Node, AddServer(p) \in ConfigChanges,
              AddServerRequest(i, p)
       PROVE  Done
    <2> DEFINE b == add_server(node[i], p)
    <2>1. NodeOK(b, T) /\ Quiet(node[i], b, T)
        BY <1>2, <1>10, SubmitType, SubmitQuiet, Zenon
    <2> QED BY <1>3, <1>4, <1>10, <2>1 DEF AddServerRequest
<1>11. ASSUME NEW i \in Node, NEW p \in Node, RemoveServer(p) \in ConfigChanges,
              RemoveServerRequest(i, p)
       PROVE  Done
    <2> DEFINE b == remove_server(node[i], p)
    <2>1. NodeOK(b, T) /\ Quiet(node[i], b, T)
        BY <1>2, <1>11, SubmitType, SubmitQuiet, Zenon
    <2> QED BY <1>3, <1>4, <1>11, <2>1 DEF RemoveServerRequest
<1> HIDE DEF Done
<1>12. \/ Done
       \/ \E i \in Node : Restart(i)
       \/ \E i, j \in Node : \E m \in BagToSet(net[i][j]) : Duplicate(i, j, m)
    BY <1>5, <1>6, <1>7, <1>8, <1>9, <1>10, <1>11, Zenon DEF Next
<1> QED BY <1>12 DEF Done

-----------------------------------------------------------------------------
(* The theorems                                                            *)

\* Every step keeps the types.
LEMMA NextType ==
    ASSUME NEW T \in EntryTypes, ConfigChanges \subseteq T, Typed(T), [Next]_vars
    PROVE  Typed(T)'
<1>1. LinksOK(net, T)
    BY DEF Typed, LinksOK
<1>2. ASSUME Spend("restarts") \/ Spend("duplicates") PROVE budget' \in Budget
    BY <1>2 DEF Spend, Typed, Budget
<1>3. ASSUME NEW i \in Node, NEW b, NEW links, Event(i, b, links, T), Step(i, b, links),
             budget' \in Budget
      PROVE  Typed(T)'
    <2>1. NodeOK(b, T) /\ b.id = i /\ LinksOK(links, T)
        BY <1>1, <1>3, TakenType DEF Event
    <2> QED BY <1>3, <2>1, StepType, Zenon
<1>4. ASSUME NEW i \in Node, Restart(i) PROVE Typed(T)'
    <2> DEFINE b == start_node(i, storage(node[i]))
    <2>1. NodeOK(b, T)
        BY NewNodeType DEF start_node, Typed
    <2>2. b.id = i /\ b.outbox = no_messages
        BY DEF start_node, new_from_builder
    <2>3. net' = net /\ budget' \in Budget /\ node' = [node EXCEPT ![i] = b]
        BY <1>2, <1>4 DEF Restart
    <2> HIDE DEF b
    <2>4. DOMAIN node' = Node
          /\ \A j \in Node : node'[j] = IF j = i THEN b ELSE node[j]
        BY <2>3 DEF Typed
    <2> QED BY <2>1, <2>2, <2>3, <2>4 DEF Typed
<1>5. ASSUME NEW i \in Node, NEW j \in Node, NEW m \in BagToSet(net[i][j]),
             Duplicate(i, j, m)
      PROVE  Typed(T)'
    <2> DEFINE B == net[i][j]
               C == B (+) SetToBag({m})
    <2>1. IsABag(B) /\ m \in DOMAIN B /\ DOMAIN B \subseteq RaftMsg(T)
        BY <1>1 DEF LinksOK, BagToSet
    <2>2. C = [e \in DOMAIN B |-> IF e = m THEN B[e] + 1 ELSE B[e]]
        <3>1. \A e \in DOMAIN B : B[e] \in Nat
            BY <2>1 DEF IsABag
        <3>2. DOMAIN SetToBag({m}) = {m} /\ SetToBag({m})[m] = 1
            BY DEF SetToBag
        <3> HIDE DEF B
        <3>3. C = [e \in DOMAIN B \cup {m} |->
                      (IF e \in DOMAIN B THEN B[e] ELSE 0)
                    + (IF e \in {m} THEN SetToBag({m})[e] ELSE 0)]
            BY <3>2 DEF (+)
        <3>4. DOMAIN B \cup {m} = DOMAIN B
            BY <2>1
        <3> QED BY <3>1, <3>2, <3>3, <3>4
    <2>3. IsABag(C) /\ DOMAIN C = DOMAIN B
        <3> HIDE DEF C, B
        <3> QED BY <2>1, <2>2 DEF IsABag
    <2>4. net' = [net EXCEPT ![i][j] = C] /\ node' = node /\ budget' \in Budget
        BY <1>2, <1>5 DEF Duplicate
    <2> HIDE DEF C
    <2>5. DOMAIN net' = Node /\ \A a, b \in Node :
              /\ DOMAIN net'[a] = Node
              /\ net'[a][b] = IF a = i /\ b = j THEN C ELSE net[a][b]
        BY <1>1, <2>4 DEF LinksOK
    <2>6. LinksOK(net', T)
        BY <1>1, <2>1, <2>3, <2>5 DEF LinksOK, BagToSet
    <2> QED BY <2>4, <2>6 DEF Typed, LinksOK
<1>6. ASSUME UNCHANGED vars PROVE Typed(T)'
    BY <1>6 DEF vars, Typed
<1>7. ASSUME Next PROVE Typed(T)'
    BY <1>3, <1>4, <1>5, <1>7, NextStep
<1> QED BY <1>6, <1>7

\* The initial state has its types.
LEMMA InitType ==
    ASSUME NEW T, Init
    PROVE  Typed(T)
<1>1. \A i \in Node : /\ NodeOK(start_node(i, new_storage), T)
                      /\ start_node(i, new_storage).id = i
                      /\ start_node(i, new_storage).outbox = no_messages
    <2>1. \A i \in Node : NodeOK(start_node(i, new_storage), T)
        BY NewNodeType, Zenon DEF start_node
    <2>2. \A i \in Node : /\ start_node(i, new_storage).id = i
                          /\ start_node(i, new_storage).outbox = no_messages
        BY DEF start_node, new_from_builder
    <2> QED BY <2>1, <2>2
<1>2. IsABag(EmptyBag) /\ BagToSet(EmptyBag) = {}
    BY DEF IsABag, EmptyBag, SetToBag, BagToSet
<1>3. budget \in Budget
    BY ClusterAssumption DEF Init, Budget
<1>4. DOMAIN node = Node /\ \A i \in Node : node[i] = start_node(i, new_storage)
    BY DEF Init
<1>5. DOMAIN net = Node /\ \A i, j \in Node : DOMAIN net[i] = Node /\ net[i][j] = EmptyBag
    BY DEF Init
<1> QED BY <1>1, <1>2, <1>3, <1>4, <1>5 DEF Typed

\* Type correctness: whatever the order, loss, duplication and repetition of
\* events, the fields of the nodes and of the messages keep the types of the
\* Rust structs, and no event leaves a message unsent in the outbox.
THEOREM TypeCorrect == Spec => []TypeOK
<1>1. EntryType \in EntryTypes /\ ConfigChanges \subseteq EntryType
    BY ClusterAssumption DEF EntryTypes, EntryType
<1>2. Init => TypeOK
    BY InitType DEF TypeOK
<1>3. TypeOK /\ [Next]_vars => TypeOK'
    BY <1>1, NextType DEF TypeOK
<1> QED BY <1>2, <1>3, PTL DEF Spec

\* No event and no restart takes a node back to an earlier term or withdraws
\* or changes a vote it gave in its term, with any network, any crashes and
\* any membership changes.
THEOREM VotesKept == Spec => VotesAreKept
<1> DEFINE Keeps(i) == /\ node'[i].current_term >= node[i].current_term
                       /\ node'[i].current_term = node[i].current_term =>
                              node[i].voted_for \in {None, node'[i].voted_for}
<1>1. EntryType \in EntryTypes /\ ConfigChanges \subseteq EntryType
    BY ClusterAssumption DEF EntryTypes, EntryType
<1>2. TypeOK /\ [Next]_vars => [\A i \in Node : Keeps(i)]_node
    <2> SUFFICES ASSUME TypeOK, Next, NEW i \in Node PROVE Keeps(i) \/ node' = node
        BY DEF vars
    <2>1. /\ DOMAIN node = Node /\ node[i].current_term \in Nat
          /\ \A j \in Node : NodeOK(node[j], EntryType)
        BY DEF TypeOK, Typed, NodeOK
    <2>2. ASSUME NEW j \in Node, Restart(j) PROVE Keeps(i)
        <3>1. node' = [node EXCEPT ![j] = start_node(j, storage(node[j]))]
            BY <2>2 DEF Restart
        <3>2. /\ start_node(j, storage(node[j])).current_term = node[j].current_term
              /\ start_node(j, storage(node[j])).voted_for = node[j].voted_for
            BY DEF start_node, new_from_builder, storage
        <3> QED BY <2>1, <3>1, <3>2
    <2>3. ASSUME NEW j \in Node, NEW b, NEW links, Event(j, b, links, EntryType),
                 Step(j, b, links)
          PROVE  Keeps(i)
        <3>1. /\ b.current_term >= node[j].current_term
              /\ b.current_term = node[j].current_term =>
                     node[j].voted_for \in {None, b.voted_for}
            <4>1. node[j].current_term \in Nat
                BY <2>1 DEF NodeOK
            <4> QED BY <2>3, <4>1 DEF Event, Quiet, Starts, Votes, Counts
        <3>2. [b EXCEPT !.outbox = no_messages].current_term = b.current_term
              /\ [b EXCEPT !.outbox = no_messages].voted_for = b.voted_for
            BY <2>3 DEF Event, NodeOK, NodeFields
        <3>3. node' = [node EXCEPT ![j] = [b EXCEPT !.outbox = no_messages]]
            BY <2>3 DEF Step
        <3> QED BY <2>1, <3>1, <3>2, <3>3
    <2>4. ASSUME NEW j \in Node, NEW k \in Node, NEW m \in BagToSet(net[j][k]),
                 Duplicate(j, k, m)
          PROVE  node' = node
        BY <2>4 DEF Duplicate
    <2> HIDE DEF Keeps
    <2> QED BY <1>1, <2>2, <2>3, <2>4, NextStep DEF TypeOK
<1> QED BY <1>2, TypeCorrect, PTL DEF Spec, VotesAreKept

-----------------------------------------------------------------------------
(* Where the votes are                                                     *)

(***************************************************************************)
(* The places of a vote, for given nodes and links, so that the state      *)
(* before a step and the one after it are arguments.                       *)
(***************************************************************************)
AsksIn(links, c, v, t) ==
    \E m \in BagToSet(links[c][v]) : m.type = "RequestVote" /\ m.term = t

GivesIn(links, v, c, t) == Grant(t) \in BagToSet(links[v][c])

CountsIn(nodes, c, v, t) ==
    /\ nodes[c].role # Follower
    /\ nodes[c].current_term = t
    /\ nodes[c].votes_received[v] > 0

VotesIn(nodes, links, v, c, t) == GivesIn(links, v, c, t) \/ CountsIn(nodes, c, v, t)

\* OnePlace, Binding and OneVote for every term, reached or not.
Ledger(nodes, links) ==
    \A c, v \in Node : \A t \in Nat :
        /\ AsksIn(links, c, v, t) =>
               /\ c # v /\ t <= nodes[c].current_term
               /\ ~GivesIn(links, v, c, t)
               /\ ~CountsIn(nodes, c, v, t)
        /\ GivesIn(links, v, c, t) =>
               /\ c # v /\ t <= nodes[c].current_term
               /\ ~CountsIn(nodes, c, v, t)
        /\ VotesIn(nodes, links, v, c, t) =>
               /\ t <= nodes[v].current_term
               /\ t = nodes[v].current_term => nodes[v].voted_for = c
               /\ \A d \in Node : VotesIn(nodes, links, v, d, t) => c = d

\* The terms of nodes and messages are numbers.
LEMMA TermTypes ==
    Typed(Command) =>
        /\ \A i \in Node : node[i].current_term \in Nat
        /\ \A i \in Node : node[i].votes_received \in [Node -> Nat]
        /\ \A i, j \in Node : \A m \in BagToSet(net[i][j]) : m.term \in Nat
<1> SUFFICES ASSUME Typed(Command)
             PROVE  /\ \A i \in Node : node[i].current_term \in Nat
                    /\ \A i \in Node : node[i].votes_received \in [Node -> Nat]
                    /\ \A i, j \in Node : \A m \in BagToSet(net[i][j]) : m.term \in Nat
    OBVIOUS
<1>1. \A i \in Node : node[i].current_term \in Nat /\ node[i].votes_received \in [Node -> Nat]
    BY DEF Typed, NodeOK, NodeCollections
<1>2. \A m \in RaftMsg(Command) : m.term \in Nat
    BY DEF RaftMsg
<1>3. \A i, j \in Node : BagToSet(net[i][j]) \subseteq RaftMsg(Command)
    BY DEF Typed
<1> QED BY <1>1, <1>2, <1>3

\* The ledger says what the three parts of VotesAccounted say.
LEMMA LedgerParts ==
    Typed(Command) /\ SingleMessages =>
        (Ledger(node, net) <=> OnePlace /\ Binding /\ OneVote)
<1> SUFFICES ASSUME Typed(Command), SingleMessages
             PROVE  Ledger(node, net) <=> OnePlace /\ Binding /\ OneVote
    OBVIOUS
<1>1. /\ \A i \in Node : node[i].current_term \in Nat
      /\ \A i, j \in Node : \A m \in BagToSet(net[i][j]) : m.term \in Nat
    BY TermTypes
<1>2. \A c, v, t : /\ Asked(c, v, t) <=> AsksIn(net, c, v, t)
                   /\ Given(v, c, t) <=> GivesIn(net, v, c, t)
                   /\ Counted(c, v, t) <=> CountsIn(node, c, v, t)
    BY DEF Asked, Given, Counted, AsksIn, GivesIn, CountsIn
<1>3. \A t : Grant(t).term = t /\ Electoral(Grant(t))
    BY DEF Grant, VoteResponseMsg, Electoral
<1>4. \A c, v \in Node : \A t :
          AsksIn(net, c, v, t) => c # v /\ t \in Nat /\ t <= node[c].current_term
    BY <1>1 DEF AsksIn, SingleMessages, Electoral
<1>5. \A c, v \in Node : \A t : GivesIn(net, v, c, t) => c # v /\ t \in Nat
    BY <1>1, <1>3 DEF GivesIn, SingleMessages
<1>6. \A c, v \in Node : \A t :
          CountsIn(node, c, v, t) => t \in Nat /\ t = node[c].current_term
    BY <1>1 DEF CountsIn
<1>7. ASSUME OnePlace, Binding, OneVote PROVE Ledger(node, net)
    <2>1. \A c, v \in Node : \A t : GivesIn(net, v, c, t) => t <= node[c].current_term
        BY <1>3, <1>7 DEF Binding, GivesIn
    <2>2. \A c, v \in Node : \A t \in Nat : VotesIn(node, net, v, c, t) =>
              /\ t \in 0..node[c].current_term
              /\ t <= node[v].current_term
              /\ t = node[v].current_term => node[v].voted_for = c
        <3>1. \A c, v \in Node : \A t \in Nat : VotesIn(node, net, v, c, t) =>
                  t \in 0..node[c].current_term
            BY <1>1, <1>6, <2>1 DEF VotesIn
        <3> QED BY <1>2, <1>7, <3>1 DEF Binding, VotesIn
    <2>3. \A c, d, v \in Node : \A t \in Nat :
              VotesIn(node, net, v, c, t) /\ VotesIn(node, net, v, d, t) => c = d
        <3>1. \A c, v \in Node : \A t \in Nat : VotesIn(node, net, v, c, t) =>
                  t \in 0..node[v].current_term
            BY <1>1, <2>2
        <3> QED BY <1>2, <1>7, <3>1 DEF OneVote, VotesIn
    <2>4. \A c, v \in Node : \A t \in Nat :
              /\ AsksIn(net, c, v, t) =>
                     ~GivesIn(net, v, c, t) /\ ~CountsIn(node, c, v, t)
              /\ GivesIn(net, v, c, t) => ~CountsIn(node, c, v, t)
        <3>1. \A c, v \in Node : \A t \in Nat :
                  AsksIn(net, c, v, t) \/ GivesIn(net, v, c, t) =>
                      t \in 0..node[c].current_term
            BY <1>1, <1>4, <2>1
        <3> QED BY <1>2, <1>4, <1>5, <1>7, <3>1 DEF OnePlace
    <2> QED BY <1>4, <1>5, <2>1, <2>2, <2>3, <2>4 DEF Ledger
<1>8. ASSUME Ledger(node, net) PROVE OnePlace /\ Binding /\ OneVote
    <2>1. OnePlace
        BY <1>1, <1>2, <1>8 DEF OnePlace, Ledger
    <2>2. Binding
        <3>1. \A c, v \in Node : \A m \in BagToSet(net[v][c]) :
                  m = Grant(m.term) => m.term <= node[c].current_term
            BY <1>1, <1>8 DEF Ledger, GivesIn
        <3> QED BY <1>1, <1>2, <1>8, <3>1 DEF Binding, Ledger, VotesIn
    <2>3. OneVote
        BY <1>1, <1>2, <1>8 DEF OneVote, Ledger, VotesIn
    <2> QED BY <2>1, <2>2, <2>3
<1> QED BY <1>7, <1>8

-----------------------------------------------------------------------------
(* Election messages on the network                                        *)

\* e is in the outbox of b for d.
Out(b, d, e) == \E k \in DOMAIN b.outbox[d] : b.outbox[d][k] = e

\* ... and there in one position.
OutOnce(b, d, e) ==
    \A k, l \in DOMAIN b.outbox[d] : b.outbox[d][k] = e /\ b.outbox[d][l] = e => k = l

(***************************************************************************)
(* Every election message that is on the network after an event of i was   *)
(* there before and was not consumed, or is one that i sent.               *)
(***************************************************************************)
Mail(i, b, links) ==
    \A a, d \in Node : \A e \in BagToSet(net'[a][d]) : Electoral(e) =>
        \/ /\ e \in BagToSet(net[a][d])
           /\ e \in BagToSet(links[a][d])
           /\ a # i \/ ~Out(b, d, e) => net'[a][d][e] = 1
        \/ /\ a = i
           /\ Out(b, d, e)
           /\ e \notin BagToSet(net[a][d]) /\ OutOnce(b, d, e) => net'[a][d][e] = 1

\* An election message that is consumed is gone; the others stay.
LEMMA TakenStep ==
    ASSUME Typed(Command), SingleMessages, NEW s \in Node, NEW j \in Node,
           NEW m \in BagToSet(net[s][j])
    PROVE  /\ \A a, d \in Node : \A e \in BagToSet(Taken(s, j, m)[a][d]) :
                  /\ e \in BagToSet(net[a][d])
                  /\ Electoral(e) => Taken(s, j, m)[a][d][e] = 1
           /\ Electoral(m) => m \notin BagToSet(Taken(s, j, m)[s][j])
<1> DEFINE B == net[s][j]
           C == B (-) SetToBag({m})
           links == Taken(s, j, m)
<1>1. DOMAIN net = Node /\ DOMAIN net[s] = Node /\ IsABag(B) /\ m \in DOMAIN B
    BY DEF Typed, BagToSet
<1>2. OneLess(B, m, C)
    BY <1>1, TakeFromLink, Zenon
<1>3. \A a, d \in Node : links[a][d] = IF a = s /\ d = j THEN C ELSE net[a][d]
    BY DEF Taken
<1>4. \A a, d \in Node : \A e \in DOMAIN net[a][d] : Electoral(e) => net[a][d][e] = 1
    BY DEF SingleMessages, BagToSet
<1>5. Electoral(m) => B[m] = 1
    BY <1>1, <1>4
<1> HIDE DEF C
<1>6. /\ DOMAIN C \subseteq DOMAIN B
      /\ Electoral(m) => m \notin DOMAIN C
      /\ \A e \in DOMAIN C : e # m => C[e] = B[e]
    BY <1>1, <1>2, <1>5 DEF OneLess
<1> HIDE DEF links
<1>7. \A a, d \in Node : \A e \in DOMAIN links[a][d] :
          e \in DOMAIN net[a][d] /\ (Electoral(e) => links[a][d][e] = 1)
    BY <1>3, <1>4, <1>6
<1>8. Electoral(m) => m \notin DOMAIN links[s][j]
    BY <1>3, <1>6
<1> QED BY <1>7, <1>8 DEF links, BagToSet

\* What an event does to the election messages on the network.
LEMMA EventMail ==
    ASSUME Typed(Command), SingleMessages, NEW i \in Node, NEW b, NEW links,
           Event(i, b, links, Command), Step(i, b, links)
    PROVE  Mail(i, b, links)
<1>1. LinksOK(net, Command)
    BY DEF Typed, LinksOK
<1>2. LinksOK(links, Command)
    BY <1>1, TakenType DEF Event
<1>3. \A a, d \in Node : \A e \in BagToSet(links[a][d]) :
          /\ e \in BagToSet(net[a][d])
          /\ Electoral(e) => links[a][d][e] = 1
    <2>1. CASE links = net
        BY <2>1 DEF SingleMessages
    <2>2. ASSUME NEW s \in Node, NEW m \in BagToSet(net[s][i]), links = Taken(s, i, m)
          PROVE  <1>3!:
        BY <2>2, TakenStep
    <2> QED BY <2>1, <2>2 DEF Event
<1>4. PICK lost : net' = drain_and_send(links, i, b.outbox, lost)
    BY DEF Step
<1>5. b.outbox \in [Node -> Seq(RaftMsg(Command))]
    BY DEF Event, NodeOK
<1> SUFFICES ASSUME NEW a \in Node, NEW d \in Node, NEW e \in BagToSet(net'[a][d]),
                    Electoral(e)
             PROVE  \/ /\ e \in BagToSet(net[a][d])
                       /\ e \in BagToSet(links[a][d])
                       /\ a # i \/ ~Out(b, d, e) => net'[a][d][e] = 1
                    \/ /\ a = i
                       /\ Out(b, d, e)
                       /\ e \notin BagToSet(net[a][d]) /\ OutOnce(b, d, e) =>
                              net'[a][d][e] = 1
    BY DEF Mail
<1> DEFINE C == links[a][d] (+) ToBag(b.outbox[d])
<1>6. \/ net'[a][d] = links[a][d]
      \/ a = i /\ net'[a][d] = C
    BY <1>2, <1>4 DEF drain_and_send, LinksOK
<1>7. Added(links[a][d], b.outbox[d], C)
    <2>1. IsABag(links[a][d]) /\ b.outbox[d] \in Seq(RaftMsg(Command))
        BY <1>2, <1>5 DEF LinksOK
    <2> QED BY <2>1, AddToLink, Zenon
<1> HIDE DEF C
<1>8. CASE net'[a][d] = links[a][d]
    BY <1>3, <1>8
<1>9. CASE a = i /\ net'[a][d] = C
    <2>1. e \in DOMAIN C
        BY <1>9 DEF BagToSet
    <2>2. CASE e \in DOMAIN links[a][d]
        <3>1. e \in BagToSet(net[a][d]) /\ links[a][d][e] = 1
            BY <1>3, <2>2 DEF BagToSet
        <3>2. ~Out(b, d, e) => C[e] = 1
            BY <1>7, <2>2, <3>1 DEF Added, Out
        <3> QED BY <1>9, <2>2, <3>1, <3>2 DEF BagToSet
    <2>3. CASE e \notin DOMAIN links[a][d]
        <3>1. Out(b, d, e)
            BY <1>7, <2>1, <2>3 DEF Added, Out
        <3>2. OutOnce(b, d, e) => C[e] = 1
            BY <1>7, <2>1, <2>3 DEF Added, OutOnce
        <3> QED BY <1>9, <3>1, <3>2
    <2> QED BY <2>2, <2>3
<1> QED BY <1>6, <1>8, <1>9

\* What an event does to the nodes, as far as elections go.
NodeStep(i, b) ==
    \A j \in Node :
        /\ node'[j].role = IF j = i THEN b.role ELSE node[j].role
        /\ node'[j].current_term = IF j = i THEN b.current_term ELSE node[j].current_term
        /\ node'[j].voted_for = IF j = i THEN b.voted_for ELSE node[j].voted_for
        /\ node'[j].votes_received = IF j = i THEN b.votes_received
                                              ELSE node[j].votes_received
        /\ node'[j].members = IF j = i THEN b.members ELSE node[j].members

\* The node of an event becomes b, and no other node changes.
LEMMA StepNode ==
    ASSUME Typed(Command), NEW i \in Node, NEW b, NodeOK(b, Command), NEW links,
           Step(i, b, links)
    PROVE  NodeStep(i, b)
<1> DEFINE c == [b EXCEPT !.outbox = no_messages]
<1>1. \A j \in Node : node'[j] = IF j = i THEN c ELSE node[j]
    BY DEF Typed, Step
<1>2. /\ c.role = b.role /\ c.current_term = b.current_term /\ c.voted_for = b.voted_for
      /\ c.votes_received = b.votes_received /\ c.members = b.members
    BY DEF NodeOK, NodeFields
<1> HIDE DEF c
<1> QED BY <1>1, <1>2 DEF NodeStep

-----------------------------------------------------------------------------
(* The steps                                                               *)

\* What has to be shown of a step.
LEMMA Assemble ==
    ASSUME Typed(Command)', FixedMembers', SingleMessages', OneRequest', CountedOnce',
           LeadersHaveQuorum', Ledger(node', net')
    PROVE  VotesAccounted'
<1>1. (Typed(Command) /\ SingleMessages =>
          (Ledger(node, net) <=> OnePlace /\ Binding /\ OneVote))'
    BY LedgerParts, PTL
<1>2. Ledger(node, net)' <=> Ledger(node', net')
    BY DEF Ledger, AsksIn, GivesIn, CountsIn, VotesIn
<1> QED BY <1>1, <1>2 DEF VotesAccounted

\* What is known before a step.
LEMMA Disassemble ==
    ASSUME Typed(Command), VotesAccounted
    PROVE  /\ FixedMembers /\ SingleMessages /\ OneRequest /\ CountedOnce
           /\ LeadersHaveQuorum /\ Ledger(node, net)
           /\ \A j \in Node : node[j].current_term \in Nat
           /\ \A j \in Node : node[j].votes_received \in [Node -> Nat]
BY LedgerParts, TermTypes DEF VotesAccounted

\* After a quiet step every vote is where it was, or lost.
LEMMA QuietStep ==
    ASSUME Typed(Command), Typed(Command)', VotesAccounted, NEW i \in Node, NEW b,
           Quiet(node[i], b, Command), NodeStep(i, b), b.current_term \in Nat,
           \A a, d \in Node : \A e \in BagToSet(net'[a][d]) : Electoral(e) =>
               e \in BagToSet(net[a][d]) /\ net'[a][d][e] = 1
    PROVE  VotesAccounted'
<1>1. /\ FixedMembers /\ SingleMessages /\ OneRequest /\ CountedOnce
      /\ LeadersHaveQuorum /\ Ledger(node, net)
      /\ \A j \in Node : node[j].current_term \in Nat
    BY Disassemble
<1>2. \A j \in Node :
          /\ node'[j].current_term \in Nat
          /\ node'[j].current_term >= node[j].current_term
          /\ node'[j].current_term = node[j].current_term =>
                 node'[j].voted_for = node[j].voted_for
          /\ node'[j].role # Follower =>
                 /\ node'[j].role = node[j].role
                 /\ node'[j].current_term = node[j].current_term
                 /\ node'[j].votes_received = node[j].votes_received
          /\ node'[j].members = node[j].members
    BY <1>1 DEF NodeStep, Quiet, SameMembers
<1>3. FixedMembers'
    BY <1>1, <1>2 DEF FixedMembers
<1>4. SingleMessages'
    <2> SUFFICES ASSUME NEW a \in Node, NEW d \in Node, NEW e \in BagToSet(net'[a][d]),
                        Electoral(e)
                 PROVE  a # d /\ e.term <= node'[a].current_term /\ net'[a][d][e] = 1
        BY DEF SingleMessages
    <2>1. a # d /\ e.term <= node[a].current_term /\ net'[a][d][e] = 1 /\ e.term \in Nat
        BY <1>1, TermTypes DEF SingleMessages
    <2> QED BY <1>1, <1>2, <2>1
<1>5. OneRequest'
    BY <1>1 DEF OneRequest, Electoral
<1>6. CountedOnce'
    BY <1>1, <1>2 DEF CountedOnce
<1>7. LeadersHaveQuorum'
    BY <1>1, <1>2 DEF LeadersHaveQuorum, Leader, Follower
<1>8. Ledger(node', net')
    <2>1. \A c, v \in Node : \A t :
              /\ AsksIn(net', c, v, t) => AsksIn(net, c, v, t)
              /\ GivesIn(net', v, c, t) => GivesIn(net, v, c, t)
              /\ CountsIn(node', c, v, t) => CountsIn(node, c, v, t)
        <3>1. \A t : Electoral(Grant(t))
            BY DEF Grant, VoteResponseMsg, Electoral
        <3>2. \A c, v \in Node : \A t : AsksIn(net', c, v, t) => AsksIn(net, c, v, t)
            BY DEF AsksIn, Electoral
        <3>3. \A c, v \in Node : \A t : GivesIn(net', v, c, t) => GivesIn(net, v, c, t)
            BY <3>1 DEF GivesIn
        <3>4. \A c, v \in Node : \A t : CountsIn(node', c, v, t) => CountsIn(node, c, v, t)
            BY <1>2 DEF CountsIn
        <3> QED BY <3>2, <3>3, <3>4
    <2>2. \A c, v \in Node : \A t :
              VotesIn(node', net', v, c, t) => VotesIn(node, net, v, c, t)
        BY <2>1 DEF VotesIn
    <2> QED BY <1>1, <1>2, <2>1, <2>2 DEF Ledger
<1> QED BY <1>3, <1>4, <1>5, <1>6, <1>7, <1>8, Assemble

\* A node that votes for itself alone has a quorum of a cluster of one.
LEMMA OwnVote ==
    ASSUME NEW i \in Node, NEW members \in NodeCollections
    PROVE  /\ push(new_collection, i) = [p \in Node |-> IF p = i THEN 1 ELSE 0]
           /\ size(members) <= 1 => has_quorum(members, len(push(new_collection, i)))
<1> DEFINE own == [p \in Node |-> IF p = i THEN 1 ELSE 0]
<1>1. push(new_collection, i) = own
    BY DEF push, new_collection
<1>2. own \in [Node -> {0, 1}] /\ {p \in Node : own[p] = 1} = {i}
    OBVIOUS
<1> HIDE DEF own
<1>3. len(own) = 1
    <2>1. len(own) = Cardinality({i})
        BY <1>2, LenOfSet
    <2> QED BY <2>1, FS_Singleton, Zenon
<1>4. size(members) \in Nat
    BY LenType DEF size
<1>5. size(members) <= 1 => quorum_size(members) <= 1
    <2> DEFINE n == size(members)
    <2>1. n \in Nat /\ quorum_size(members) = IF n = 0 THEN 0 ELSE (n \div 2) + 1
        BY <1>4 DEF quorum_size
    <2> HIDE DEF n
    <2>2. n = 1 => (n \div 2) + 1 = 1
        OBVIOUS
    <2>3. n <= 1 => n = 0 \/ n = 1
        BY <2>1
    <2> QED BY <2>1, <2>2, <2>3 DEF n
<1>6. size(members) <= 1 => has_quorum(members, len(own))
    BY <1>3, <1>5 DEF has_quorum
<1> QED BY <1>1, <1>6 DEF own

\* A node that starts an election asks for votes of a term that no vote or
\* request of its own has yet.
LEMMA StartsStep ==
    ASSUME Typed(Command), Typed(Command)', VotesAccounted, NEW i \in Node, NEW b,
           NEW links, b.id = i, Starts(node[i], b, Command), NodeStep(i, b),
           Mail(i, b, links)
    PROVE  VotesAccounted'
<1>1. /\ FixedMembers /\ SingleMessages /\ OneRequest /\ CountedOnce
      /\ LeadersHaveQuorum /\ Ledger(node, net)
      /\ \A j \in Node : node[j].current_term \in Nat
    BY Disassemble
<1>2. /\ b.current_term = node[i].current_term + 1
      /\ b.current_term \in Nat
      /\ b.current_term > node[i].current_term
      /\ b.voted_for = i
      /\ b.members = [p \in Node |-> 1]
      /\ b.role \in {Candidate, Leader} /\ b.role # Follower
      /\ \A p \in Node : b.votes_received[p] = IF p = i THEN 1 ELSE 0
    <2>1. b.votes_received = [p \in Node |-> IF p = i THEN 1 ELSE 0]
        <3>1. [p \in Node |-> 1] \in NodeCollections
            BY DEF NodeCollections
        <3> QED BY <3>1, OwnVote DEF Starts
    <2> QED BY <1>1, <2>1 DEF Starts, SameMembers, FixedMembers, Candidate, Leader, Follower
<1>3. ASSUME NEW d \in Node, NEW k \in DOMAIN b.outbox[d], Electoral(b.outbox[d][k])
      PROVE  /\ d # i
             /\ b.outbox[d][k].type = "RequestVote"
             /\ b.outbox[d][k].term = b.current_term
             /\ \A l \in DOMAIN b.outbox[d] : Electoral(b.outbox[d][l]) => l = k
    <2>1. \A q \in Node : b.members[q] <= 1
        BY <1>2
    <2> QED BY <1>3, <2>1 DEF Starts, AsksOnce
<1>4. ASSUME NEW d \in Node, NEW e, Electoral(e), Out(b, d, e)
      PROVE  /\ d # i /\ e.type = "RequestVote" /\ e.term = b.current_term
             /\ e \notin BagToSet(net[i][d])
             /\ OutOnce(b, d, e)
             /\ \A l : Electoral(l) /\ Out(b, d, l) => l = e
    <2>1. d # i /\ e.type = "RequestVote" /\ e.term = b.current_term
        BY <1>3, <1>4 DEF Out
    <2>2. e \notin BagToSet(net[i][d])
        BY <1>1, <1>2, <1>4, <2>1 DEF SingleMessages
    <2>3. OutOnce(b, d, e) /\ \A l : Electoral(l) /\ Out(b, d, l) => l = e
        BY <1>3, <1>4 DEF Out, OutOnce
    <2> QED BY <2>1, <2>2, <2>3
<1>5. ASSUME NEW a \in Node, NEW d \in Node, NEW e \in BagToSet(net'[a][d]), Electoral(e)
      PROVE  /\ net'[a][d][e] = 1
             /\ \/ e \in BagToSet(net[a][d])
                \/ /\ a = i /\ d # i /\ Out(b, d, e)
                   /\ e.type = "RequestVote" /\ e.term = b.current_term
    BY <1>4, <1>5 DEF Mail
<1>6. FixedMembers'
    BY <1>1, <1>2 DEF FixedMembers, NodeStep
<1>7. SingleMessages'
    <2> SUFFICES ASSUME NEW a \in Node, NEW d \in Node, NEW e \in BagToSet(net'[a][d]),
                        Electoral(e)
                 PROVE  a # d /\ e.term <= node'[a].current_term /\ net'[a][d][e] = 1
        BY DEF SingleMessages
    <2>1. CASE e \in BagToSet(net[a][d])
        <3>1. a # d /\ e.term <= node[a].current_term /\ e.term \in Nat
            BY <1>1, <2>1, TermTypes DEF SingleMessages
        <3> QED BY <1>1, <1>2, <1>5, <3>1 DEF NodeStep
    <2>2. CASE e \notin BagToSet(net[a][d])
        BY <1>2, <1>5, <2>2 DEF NodeStep
    <2> QED BY <2>1, <2>2
<1>8. OneRequest'
    <2> SUFFICES ASSUME NEW c \in Node, NEW v \in Node, NEW m \in BagToSet(net'[c][v]),
                        NEW l \in BagToSet(net'[c][v]), m.type = "RequestVote",
                        l.type = "RequestVote", m.term = l.term
                 PROVE  m = l
        BY DEF OneRequest
    <2>1. Electoral(m) /\ Electoral(l)
        BY DEF Electoral
    <2>2. CASE m \in BagToSet(net[c][v]) /\ l \in BagToSet(net[c][v])
        BY <1>1, <2>2 DEF OneRequest
    <2>3. CASE m \notin BagToSet(net[c][v]) /\ l \notin BagToSet(net[c][v])
        BY <1>4, <1>5, <2>1, <2>3
    <2>4. ASSUME NEW x \in BagToSet(net[c][v]), NEW y \in BagToSet(net'[c][v]),
                 y \notin BagToSet(net[c][v]), Electoral(x), Electoral(y)
          PROVE  x.term # y.term
        <3>1. c = i /\ y.term = b.current_term
            BY <1>5, <2>4
        <3>2. x.term <= node[i].current_term /\ x.term \in Nat
            BY <1>1, <2>4, <3>1, TermTypes DEF SingleMessages
        <3> QED BY <1>1, <1>2, <3>1, <3>2
    <2> QED BY <2>1, <2>2, <2>3, <2>4
<1>9. CountedOnce'
    BY <1>1, <1>2 DEF CountedOnce, NodeStep
<1>10. LeadersHaveQuorum'
    <2>1. b.role = Leader => has_quorum(b.members, len(b.votes_received))
        <3>1. b.members \in NodeCollections
            BY <1>2 DEF NodeCollections
        <3> QED BY <3>1, OwnVote DEF Starts
    <2> QED BY <1>1, <2>1 DEF LeadersHaveQuorum, NodeStep
<1>11. Ledger(node', net')
    <2>1. \A t : Electoral(Grant(t)) /\ Grant(t).type # "RequestVote"
        BY DEF Grant, VoteResponseMsg, Electoral
    <2>2. \A c, v \in Node : \A t : AsksIn(net', c, v, t) =>
              AsksIn(net, c, v, t) \/ (c = i /\ v # i /\ t = b.current_term)
        BY <1>5 DEF AsksIn, Electoral
    <2>3. \A c, v \in Node : \A t : GivesIn(net', v, c, t) => GivesIn(net, v, c, t)
        BY <1>5, <2>1 DEF GivesIn
    <2>4. \A c, v \in Node : \A t : CountsIn(node', c, v, t) =>
              \/ c # i /\ CountsIn(node, c, v, t)
              \/ c = i /\ v = i /\ t = b.current_term
        BY <1>2 DEF CountsIn, NodeStep
    <2>5. \A c, v \in Node : \A t : VotesIn(node', net', v, c, t) =>
              \/ VotesIn(node, net, v, c, t)
              \/ c = i /\ v = i /\ t = b.current_term
        BY <2>3, <2>4 DEF VotesIn
    <2>6. \A j \in Node :
              /\ node'[j].current_term \in Nat
              /\ node'[j].current_term >= node[j].current_term
              /\ j # i => /\ node'[j].current_term = node[j].current_term
                          /\ node'[j].voted_for = node[j].voted_for
              /\ j = i => /\ node'[j].current_term = b.current_term
                          /\ node'[j].voted_for = i
        BY <1>1, <1>2 DEF NodeStep
    <2> SUFFICES ASSUME NEW c \in Node, NEW v \in Node, NEW t \in Nat
                 PROVE  /\ AsksIn(net', c, v, t) =>
                               /\ c # v /\ t <= node'[c].current_term
                               /\ ~GivesIn(net', v, c, t)
                               /\ ~CountsIn(node', c, v, t)
                        /\ GivesIn(net', v, c, t) =>
                               /\ c # v /\ t <= node'[c].current_term
                               /\ ~CountsIn(node', c, v, t)
                        /\ VotesIn(node', net', v, c, t) =>
                               /\ t <= node'[v].current_term
                               /\ t = node'[v].current_term => node'[v].voted_for = c
                               /\ \A d \in Node : VotesIn(node', net', v, d, t) => c = d
        BY DEF Ledger
    <2>7. AsksIn(net', c, v, t) =>
              /\ c # v /\ t <= node'[c].current_term
              /\ ~GivesIn(net', v, c, t)
              /\ ~CountsIn(node', c, v, t)
        BY <1>1, <1>2, <2>2, <2>3, <2>4, <2>6 DEF Ledger
    <2>8. GivesIn(net', v, c, t) =>
              /\ c # v /\ t <= node'[c].current_term
              /\ ~CountsIn(node', c, v, t)
        BY <1>1, <1>2, <2>3, <2>4, <2>6 DEF Ledger
    <2>9. \A d \in Node : VotesIn(node, net, v, d, t) =>
              t <= node[v].current_term /\ (v = i => t # b.current_term)
        BY <1>1, <1>2 DEF Ledger
    <2>10. VotesIn(node', net', v, c, t) =>
               /\ t <= node'[v].current_term
               /\ t = node'[v].current_term => node'[v].voted_for = c
        BY <1>1, <1>2, <2>5, <2>6, <2>9 DEF Ledger
    <2>11. \A d \in Node :
               VotesIn(node', net', v, c, t) /\ VotesIn(node', net', v, d, t) => c = d
        BY <1>1, <2>5, <2>9 DEF Ledger
    <2> QED BY <2>7, <2>8, <2>10, <2>11
<1> QED BY <1>6, <1>7, <1>8, <1>9, <1>10, <1>11, Assemble

\* A node that votes turns the request it consumed into a vote on its way,
\* and has given no other vote in that term.
LEMMA VotesStep ==
    ASSUME Typed(Command), Typed(Command)', VotesAccounted, NEW i \in Node, NEW b,
           NEW links, NEW r \in Node, NEW m \in BagToSet(net[r][i]),
           m.type = "RequestVote", links = Taken(r, i, m),
           Votes(node[i], b, r, m.term), NodeStep(i, b), Mail(i, b, links)
    PROVE  VotesAccounted'
<1> DEFINE T == m.term
<1>1. /\ FixedMembers /\ SingleMessages /\ OneRequest /\ CountedOnce
      /\ LeadersHaveQuorum /\ Ledger(node, net)
      /\ \A j \in Node : node[j].current_term \in Nat
    BY Disassemble
<1>2. /\ AsksIn(net, r, i, T) /\ T \in Nat
      /\ r # i /\ T <= node[r].current_term
      /\ ~GivesIn(net, i, r, T)
      /\ ~CountsIn(node, r, i, T)
    <2>1. T \in Nat /\ AsksIn(net, r, i, T)
        BY TermTypes DEF AsksIn
    <2> QED BY <1>1, <2>1 DEF Ledger
<1>3. m \notin BagToSet(links[r][i])
    BY <1>1, TakenStep DEF Electoral
<1> HIDE DEF T
<1>4. /\ T >= node[i].current_term /\ b.current_term = T /\ b.voted_for = r
      /\ T = node[i].current_term => /\ node[i].voted_for \in {None, r}
                                     /\ b.role = node[i].role
                                     /\ b.votes_received = node[i].votes_received
      /\ T > node[i].current_term => b.role = Follower
      /\ b.members = node[i].members
    BY DEF Votes, T
<1>5. b.role = Follower
    <2>1. CASE T > node[i].current_term
        BY <1>4, <2>1
    <2>2. CASE T = node[i].current_term
        <3>1. node[i].voted_for # i
            BY <1>2, <1>4, <2>2, ContextAssumption
        <3> QED BY <1>1, <1>4, <2>2, <3>1 DEF CountedOnce
    <2> QED BY <1>1, <1>2, <1>4, <2>1, <2>2
<1>6. \A t : Electoral(Grant(t)) /\ Grant(t).term = t /\ Grant(t).type # "RequestVote"
    BY DEF Grant, VoteResponseMsg, Electoral
<1>7. ASSUME NEW d \in Node, NEW e, Electoral(e), Out(b, d, e)
      PROVE  d = r /\ e = Grant(T) /\ OutOnce(b, d, e) /\ e \notin BagToSet(net[i][d])
    <2>1. d = r /\ e = Grant(T) /\ OutOnce(b, d, e)
        BY <1>7 DEF Votes, Out, OutOnce, T
    <2> QED BY <1>2, <2>1 DEF GivesIn
<1>8. ASSUME NEW a \in Node, NEW d \in Node, NEW e \in BagToSet(net'[a][d]), Electoral(e)
      PROVE  /\ net'[a][d][e] = 1
             /\ \/ e \in BagToSet(net[a][d]) /\ ~(a = r /\ d = i /\ e = m)
                \/ a = i /\ d = r /\ e = Grant(T)
    BY <1>3, <1>7, <1>8 DEF Mail
<1>9. FixedMembers'
    BY <1>1, <1>4 DEF FixedMembers, NodeStep
<1>10. \A j \in Node :
           /\ node'[j].current_term \in Nat
           /\ node'[j].current_term >= node[j].current_term
           /\ j # i => /\ node'[j].current_term = node[j].current_term
                       /\ node'[j].voted_for = node[j].voted_for
           /\ j = i => node'[j].current_term = T /\ node'[j].voted_for = r
    BY <1>1, <1>2, <1>4 DEF NodeStep
<1>11. SingleMessages'
    <2> SUFFICES ASSUME NEW a \in Node, NEW d \in Node, NEW e \in BagToSet(net'[a][d]),
                        Electoral(e)
                 PROVE  a # d /\ e.term <= node'[a].current_term /\ net'[a][d][e] = 1
        BY DEF SingleMessages
    <2>1. CASE e \in BagToSet(net[a][d])
        <3>1. a # d /\ e.term <= node[a].current_term /\ e.term \in Nat
            BY <1>1, <2>1, TermTypes DEF SingleMessages
        <3> QED BY <1>1, <1>8, <1>10, <3>1
    <2>2. CASE a = i /\ d = r /\ e = Grant(T)
        BY <1>2, <1>6, <1>8, <1>10, <2>2
    <2> QED BY <1>8, <2>1, <2>2
<1>12. OneRequest'
    BY <1>1, <1>6, <1>8 DEF OneRequest, Electoral
<1>13. CountedOnce'
    BY <1>1, <1>5 DEF CountedOnce, NodeStep
<1>14. LeadersHaveQuorum'
    BY <1>1, <1>5 DEF LeadersHaveQuorum, NodeStep, Leader, Follower
<1>15. Ledger(node', net')
    <2>1. \A c, v \in Node : \A t : AsksIn(net', c, v, t) =>
              AsksIn(net, c, v, t) /\ ~(c = r /\ v = i /\ t = T)
        <3> SUFFICES ASSUME NEW c \in Node, NEW v \in Node, NEW t,
                            NEW e \in BagToSet(net'[c][v]),
                            e.type = "RequestVote", e.term = t
                     PROVE  AsksIn(net, c, v, t) /\ ~(c = r /\ v = i /\ t = T)
            BY DEF AsksIn
        <3>1. e \in BagToSet(net[c][v]) /\ ~(c = r /\ v = i /\ e = m)
            BY <1>6, <1>8 DEF Electoral
        <3>2. c = r /\ v = i /\ t = T => e = m
            BY <1>1, <3>1 DEF OneRequest, T
        <3> QED BY <3>1, <3>2 DEF AsksIn
    <2>2. \A c, v \in Node : \A t : GivesIn(net', v, c, t) =>
              GivesIn(net, v, c, t) \/ (v = i /\ c = r /\ t = T)
        BY <1>6, <1>8 DEF GivesIn
    <2>3. \A c, v \in Node : \A t : CountsIn(node', c, v, t) => CountsIn(node, c, v, t)
        BY <1>5 DEF CountsIn, NodeStep
    <2>4. \A c, v \in Node : \A t : VotesIn(node', net', v, c, t) =>
              VotesIn(node, net, v, c, t) \/ (v = i /\ c = r /\ t = T)
        BY <2>2, <2>3 DEF VotesIn
    <2> SUFFICES ASSUME NEW c \in Node, NEW v \in Node, NEW t \in Nat
                 PROVE  /\ AsksIn(net', c, v, t) =>
                               /\ c # v /\ t <= node'[c].current_term
                               /\ ~GivesIn(net', v, c, t)
                               /\ ~CountsIn(node', c, v, t)
                        /\ GivesIn(net', v, c, t) =>
                               /\ c # v /\ t <= node'[c].current_term
                               /\ ~CountsIn(node', c, v, t)
                        /\ VotesIn(node', net', v, c, t) =>
                               /\ t <= node'[v].current_term
                               /\ t = node'[v].current_term => node'[v].voted_for = c
                               /\ \A d \in Node : VotesIn(node', net', v, d, t) => c = d
        BY DEF Ledger
    <2>5. AsksIn(net', c, v, t) =>
              /\ c # v /\ t <= node'[c].current_term
              /\ ~GivesIn(net', v, c, t)
              /\ ~CountsIn(node', c, v, t)
        BY <1>1, <1>10, <2>1, <2>2, <2>3 DEF Ledger
    <2>6. GivesIn(net', v, c, t) =>
              /\ c # v /\ t <= node'[c].current_term
              /\ ~CountsIn(node', c, v, t)
        BY <1>1, <1>2, <1>10, <2>2, <2>3 DEF Ledger
    <2>7. \A d \in Node : VotesIn(node, net, i, d, T) => d = r
        <3>1. \A d \in Node : VotesIn(node, net, i, d, T) =>
                  T = node[i].current_term /\ node[i].voted_for = d
            BY <1>1, <1>2, <1>4 DEF Ledger
        <3> QED BY <1>4, <3>1, ContextAssumption
    <2>8. VotesIn(node', net', v, c, t) =>
              /\ t <= node'[v].current_term
              /\ t = node'[v].current_term => node'[v].voted_for = c
        BY <1>1, <1>10, <2>4, <2>7 DEF Ledger
    <2>9. \A d \in Node :
              VotesIn(node', net', v, c, t) /\ VotesIn(node', net', v, d, t) => c = d
        BY <1>1, <2>4, <2>7 DEF Ledger
    <2> QED BY <2>5, <2>6, <2>8, <2>9
<1> QED BY <1>9, <1>11, <1>12, <1>13, <1>14, <1>15, Assemble

\* A node that counts a vote had it on its way and had not counted it.
LEMMA CountsStep ==
    ASSUME Typed(Command), Typed(Command)', VotesAccounted, NEW i \in Node, NEW b,
           NEW links, NEW w \in Node, NEW T \in Nat, Grant(T) \in BagToSet(net[w][i]),
           links = Taken(w, i, Grant(T)),
           Counts(node[i], b, w, T), NodeStep(i, b), Mail(i, b, links),
           node[i].outbox = no_messages
    PROVE  VotesAccounted'
<1>1. /\ FixedMembers /\ SingleMessages /\ OneRequest /\ CountedOnce
      /\ LeadersHaveQuorum /\ Ledger(node, net)
      /\ \A j \in Node : node[j].current_term \in Nat
      /\ \A j \in Node : node[j].votes_received \in [Node -> Nat]
    BY Disassemble
<1>2. /\ GivesIn(net, w, i, T)
      /\ w # i
      /\ ~CountsIn(node, i, w, T)
      /\ ~AsksIn(net, i, w, T)
    <2>1. GivesIn(net, w, i, T)
        BY DEF GivesIn
    <2> QED BY <1>1, <2>1 DEF Ledger
<1>3. \A t : Electoral(Grant(t)) /\ Grant(t).term = t /\ Grant(t).type # "RequestVote"
    BY DEF Grant, VoteResponseMsg, Electoral
<1>4. Grant(T) \notin BagToSet(links[w][i])
    BY <1>1, <1>3, TakenStep
<1>5. /\ T = node[i].current_term /\ b.current_term = T
      /\ b.voted_for = node[i].voted_for
      /\ node[i].role = Candidate /\ node[i].role # Follower
      /\ b.role \in {Candidate, Leader} /\ b.role # Follower
      /\ b.role = Leader => has_quorum(b.members, len(b.votes_received))
      /\ b.members = node[i].members
    BY DEF Counts, Candidate, Leader, Follower
<1>6. node[i].votes_received[w] = 0
    BY <1>1, <1>2, <1>5 DEF CountsIn
<1>7. \A p \in Node : b.votes_received[p] = IF p = w THEN 1 ELSE node[i].votes_received[p]
    BY <1>1, <1>6 DEF Counts, push
<1>8. \A d \in Node : \A e : Electoral(e) => ~Out(b, d, e)
    BY DEF Counts, NothingElectoral, Out, no_messages
<1>9. ASSUME NEW a \in Node, NEW d \in Node, NEW e \in BagToSet(net'[a][d]), Electoral(e)
      PROVE  /\ net'[a][d][e] = 1
             /\ e \in BagToSet(net[a][d])
             /\ ~(a = w /\ d = i /\ e = Grant(T))
    BY <1>4, <1>8, <1>9 DEF Mail
<1>10. \A j \in Node : /\ node'[j].current_term = node[j].current_term
                       /\ node'[j].voted_for = node[j].voted_for
                       /\ node'[j].members = node[j].members
    BY <1>5 DEF NodeStep
<1>11. FixedMembers'
    BY <1>1, <1>10 DEF FixedMembers
<1>12. SingleMessages'
    BY <1>1, <1>9, <1>10 DEF SingleMessages
<1>13. OneRequest'
    BY <1>1, <1>9 DEF OneRequest, Electoral
<1>14. CountedOnce'
    <2> SUFFICES ASSUME NEW c \in Node, node'[c].role # Follower
                 PROVE  /\ node'[c].voted_for = c
                        /\ \A v \in Node : node'[c].votes_received[v] <= 1
                        /\ node'[c].votes_received[c] = 1
        BY DEF CountedOnce
    <2>1. CASE c # i
        BY <1>1, <2>1 DEF CountedOnce, NodeStep
    <2>2. CASE c = i
        <3>1. /\ node[i].voted_for = i
              /\ \A v \in Node : node[i].votes_received[v] <= 1
              /\ node[i].votes_received[i] = 1
            BY <1>1, <1>5 DEF CountedOnce
        <3>2. node'[i].votes_received = b.votes_received
            BY DEF NodeStep
        <3> QED BY <1>2, <1>7, <1>10, <2>2, <3>1, <3>2
    <2> QED BY <2>1, <2>2
<1>15. LeadersHaveQuorum'
    BY <1>1, <1>5 DEF LeadersHaveQuorum, NodeStep
<1>16. Ledger(node', net')
    <2>1. \A c, v \in Node : \A t : AsksIn(net', c, v, t) => AsksIn(net, c, v, t)
        BY <1>9 DEF AsksIn, Electoral
    <2>2. \A c, v \in Node : \A t : GivesIn(net', v, c, t) =>
              GivesIn(net, v, c, t) /\ ~(v = w /\ c = i /\ t = T)
        BY <1>3, <1>9 DEF GivesIn
    <2>3. \A c, v \in Node : \A t : CountsIn(node', c, v, t) =>
              CountsIn(node, c, v, t) \/ (v = w /\ c = i /\ t = T)
        <3>1. \A v \in Node : \A t : CountsIn(node', i, v, t) =>
                  CountsIn(node, i, v, t) \/ (v = w /\ t = T)
            BY <1>5, <1>7 DEF CountsIn, NodeStep
        <3>2. \A c, v \in Node : \A t : c # i /\ CountsIn(node', c, v, t) =>
                  CountsIn(node, c, v, t)
            BY DEF CountsIn, NodeStep
        <3> QED BY <3>1, <3>2
    <2>4. \A c, v \in Node : \A t : VotesIn(node', net', v, c, t) =>
              VotesIn(node, net, v, c, t)
        BY <1>2, <2>2, <2>3 DEF VotesIn
    <2> QED BY <1>1, <1>2, <1>10, <2>1, <2>2, <2>3, <2>4 DEF Ledger
<1> QED BY <1>11, <1>12, <1>13, <1>14, <1>15, <1>16, Assemble
-----------------------------------------------------------------------------
(* Every behaviour                                                         *)

\* An event of a node keeps the votes accounted for.
LEMMA EventStep ==
    ASSUME Typed(Command), Typed(Command)', VotesAccounted, NEW i \in Node, NEW b,
           NEW links, Event(i, b, links, Command), Step(i, b, links)
    PROVE  VotesAccounted'
<1>1. SingleMessages
    BY Disassemble
<1>2. Mail(i, b, links)
    BY <1>1, EventMail
<1>3. NodeOK(b, Command) /\ b.id = i
    BY DEF Event
<1>4. NodeStep(i, b) /\ b.current_term \in Nat
    BY <1>3, StepNode DEF NodeOK
<1>5. node[i].outbox = no_messages
    BY DEF Typed
<1>6. CASE Quiet(node[i], b, Command)
    <2>1. \A d \in Node : \A e : Electoral(e) => ~Out(b, d, e)
        BY <1>5, <1>6 DEF Quiet, NothingElectoral, Out, no_messages
    <2>2. \A a, d \in Node : \A e \in BagToSet(net'[a][d]) : Electoral(e) =>
              e \in BagToSet(net[a][d]) /\ net'[a][d][e] = 1
        BY <1>2, <2>1 DEF Mail
    <2> QED BY <1>4, <1>6, <2>2, QuietStep
<1>7. CASE Starts(node[i], b, Command)
    BY <1>2, <1>3, <1>4, <1>7, StartsStep
<1>8. ASSUME NEW r \in Node, NEW m \in BagToSet(net[r][i]), m.type = "RequestVote",
             links = Taken(r, i, m), Votes(node[i], b, r, m.term)
      PROVE  VotesAccounted'
    BY <1>2, <1>4, <1>8, VotesStep
<1>9. ASSUME NEW w \in Node, NEW t \in Nat, Grant(t) \in BagToSet(net[w][i]),
             links = Taken(w, i, Grant(t)), Counts(node[i], b, w, t)
      PROVE  VotesAccounted'
    BY <1>2, <1>4, <1>5, <1>9, CountsStep
<1> QED BY <1>6, <1>7, <1>8, <1>9 DEF Event

\* A restart forgets the votes a node counted and no vote it gave.
LEMMA RestartStep ==
    ASSUME Typed(Command), Typed(Command)', VotesAccounted, InitialMembers = Node,
           NEW i \in Node, Restart(i)
    PROVE  VotesAccounted'
<1> DEFINE b == start_node(i, storage(node[i]))
<1>1. FixedMembers /\ SingleMessages
    BY Disassemble
<1>2. NodeOK(node[i], Command) /\ node[i].id = i
    BY DEF Typed
<1>3. Quiet(node[i], b, Command)
    <2>1. node[i].members =
              [p \in Node |-> IF p \in InitialMembers \cup {node[i].id} THEN 1 ELSE 0]
        BY <1>1, <1>2 DEF FixedMembers
    <2>2. Quiet(node[i], new_from_builder(node[i].id, storage(node[i]), InitialMembers),
                Command)
        BY <1>2, <2>1, RestartQuiet
    <2> QED BY <1>2, <2>2 DEF start_node
<1>4. b.current_term \in Nat
    BY <1>2 DEF start_node, new_from_builder, storage, NodeOK
<1> HIDE DEF b
<1>5. NodeStep(i, b)
    <2>1. \A j \in Node : node'[j] = IF j = i THEN b ELSE node[j]
        BY DEF Typed, Restart, b
    <2> QED BY <2>1 DEF NodeStep
<1>6. \A a, d \in Node : \A e \in BagToSet(net'[a][d]) : Electoral(e) =>
          e \in BagToSet(net[a][d]) /\ net'[a][d][e] = 1
    BY <1>1 DEF Restart, SingleMessages
<1> QED BY <1>3, <1>4, <1>5, <1>6, QuietStep

\* No step that duplicates nothing upsets the accounts.
LEMMA VotesStayAccounted ==
    ASSUME ConfigChanges = {}, InitialMembers = Node, Typed(Command),
           budget.duplicates = 0, VotesAccounted, [Next]_vars
    PROVE  VotesAccounted' /\ budget'.duplicates = 0
<1>1. Command \in EntryTypes /\ ConfigChanges \subseteq Command
    BY DEF EntryTypes, EntryType
<1>2. Typed(Command)'
    BY <1>1, NextType
<1>3. CASE UNCHANGED vars
    <2>1. node' = node /\ net' = net /\ budget' = budget
        BY <1>3 DEF vars
    <2> QED BY <2>1 DEF VotesAccounted, FixedMembers, SingleMessages, OneRequest, OnePlace,
                CountedOnce, Binding, OneVote, LeadersHaveQuorum, Asked, Given, Counted
<1>4. ASSUME NEW i \in Node, NEW b, NEW links, Event(i, b, links, Command),
             Step(i, b, links)
      PROVE  VotesAccounted'
    BY <1>2, <1>4, EventStep
<1>5. ASSUME NEW i \in Node, Restart(i)
      PROVE  VotesAccounted' /\ budget'.duplicates = 0
    <2>1. budget'.duplicates = budget.duplicates
        BY <1>5 DEF Restart, Spend, Typed, Budget
    <2> QED BY <1>2, <1>5, <2>1, RestartStep
<1>6. ASSUME NEW i \in Node, NEW j \in Node, NEW m, Duplicate(i, j, m)
      PROVE  FALSE
    BY <1>6 DEF Duplicate, Spend
<1> QED BY <1>1, <1>3, <1>4, <1>5, <1>6, NextStep

\* No vote is on its way or counted at the start.
LEMMA InitAccounted ==
    ASSUME Init, InitialMembers = Node, MaxDuplicates = 0
    PROVE  VotesAccounted /\ budget.duplicates = 0
<1>1. \A i \in Node : /\ node[i].role = Follower
                      /\ node[i].members = [p \in Node |-> 1]
    BY DEF Init, start_node, new_from_builder
<1>2. \A i, j \in Node : BagToSet(net[i][j]) = {}
    <2>1. BagToSet(EmptyBag) = {}
        BY DEF BagToSet, EmptyBag, SetToBag
    <2> QED BY <2>1 DEF Init
<1>3. budget.duplicates = 0
    BY DEF Init
<1>4. \A c, v, t : /\ c \in Node /\ v \in Node => ~Asked(c, v, t)
                   /\ c \in Node /\ v \in Node => ~Given(v, c, t)
                   /\ c \in Node => ~Counted(c, v, t)
    BY <1>1, <1>2 DEF Asked, Given, Counted
<1>5. FixedMembers /\ SingleMessages /\ OneRequest
    BY <1>1, <1>2 DEF FixedMembers, SingleMessages, OneRequest
<1>6. CountedOnce /\ LeadersHaveQuorum
    BY <1>1 DEF CountedOnce, LeadersHaveQuorum, Leader, Follower
<1>7. OnePlace /\ Binding /\ OneVote
    BY <1>2, <1>4 DEF OnePlace, Binding, OneVote
<1> QED BY <1>3, <1>5, <1>6, <1>7 DEF VotesAccounted

\* A majority of the nodes has voted for a leader.
LEMMA LeaderVoters ==
    ASSUME Typed(Command), VotesAccounted
    PROVE  \A c \in Node : node[c].role = Leader =>
               \E Q \in SUBSET Node :
                   /\ 2 * Cardinality(Q) > Cardinality(Node)
                   /\ \A p \in Q : CountsIn(node, c, p, node[c].current_term)
<1>1. /\ FixedMembers /\ CountedOnce /\ LeadersHaveQuorum
      /\ \A j \in Node : node[j].votes_received \in [Node -> Nat]
    BY Disassemble
<1> DEFINE everyone == [p \in Node |-> 1]
           voters(c) == {p \in Node : node[c].votes_received[p] = 1}
<1>2. IsFiniteSet(Node) /\ Cardinality(Node) \in Nat /\ Cardinality(Node) # 0
    BY NodeAssumption, FS_CardinalityType, FS_EmptySet
<1>3. size(everyone) = Cardinality(Node)
    <2>1. everyone \in [Node -> {0, 1}] /\ {p \in Node : everyone[p] = 1} = Node
        OBVIOUS
    <2>2. len(everyone) = Cardinality({p \in Node : everyone[p] = 1})
        BY <2>1, LenOfSet
    <2> QED BY <2>1, <2>2 DEF size
<1> SUFFICES ASSUME NEW c \in Node, node[c].role = Leader
             PROVE  \E Q \in SUBSET Node :
                        /\ 2 * Cardinality(Q) > Cardinality(Node)
                        /\ \A p \in Q : CountsIn(node, c, p, node[c].current_term)
    OBVIOUS
<1>4. node[c].role # Follower
    BY DEF Leader, Follower
<1>5. node[c].votes_received \in [Node -> {0, 1}]
    <2>1. \A p \in Node : /\ node[c].votes_received[p] \in Nat
                          /\ node[c].votes_received[p] <= 1
        BY <1>1, <1>4 DEF CountedOnce
    <2>2. \A p \in Node : node[c].votes_received[p] \in {0, 1}
        BY <2>1
    <2> QED BY <1>1, <2>2
<1>6. len(node[c].votes_received) = Cardinality(voters(c))
    BY <1>5, LenOfSet
<1>7. has_quorum(everyone, len(node[c].votes_received))
    BY <1>1 DEF LeadersHaveQuorum, FixedMembers
<1>8. Cardinality(voters(c)) >= (Cardinality(Node) \div 2) + 1
    BY <1>2, <1>3, <1>6, <1>7 DEF has_quorum, quorum_size
<1>9. voters(c) \subseteq Node /\ Cardinality(voters(c)) \in Nat
    BY <1>2, FS_Subset, FS_CardinalityType
<1>10. \A p \in voters(c) : CountsIn(node, c, p, node[c].current_term)
    BY <1>4 DEF CountsIn
<1> HIDE DEF voters
<1>11. 2 * Cardinality(voters(c)) > Cardinality(Node)
    BY <1>2, <1>8, <1>9
<1> QED BY <1>9, <1>10, <1>11

\* Two majorities of the nodes have one in common.
LEMMA MajoritiesMeet ==
    ASSUME NEW Q \in SUBSET Node, NEW R \in SUBSET Node,
           2 * Cardinality(Q) > Cardinality(Node), 2 * Cardinality(R) > Cardinality(Node)
    PROVE  \E v \in Node : v \in Q /\ v \in R
<1>1. IsFiniteSet(Node) /\ Cardinality(Node) \in Nat
    BY NodeAssumption, FS_CardinalityType
<1>2. Cardinality(Q) \in Nat /\ Cardinality(R) \in Nat
    BY <1>1, FS_Subset, FS_CardinalityType
<1>3. Cardinality(Q) + Cardinality(R) > Cardinality(Node)
    BY <1>1, <1>2
<1>4. Q \cap R # {}
    BY <1>1, <1>3, FS_MajoritiesIntersect, Zenon
<1> QED BY <1>4

\* A node is among the voters of both of two leaders of a term, and it voted
\* for one candidate.
LEMMA AccountedIsSafe ==
    ASSUME Typed(Command), VotesAccounted
    PROVE  ElectionSafety
<1>1. Ledger(node, net) /\ \A j \in Node : node[j].current_term \in Nat
    BY Disassemble
<1> SUFFICES ASSUME NEW i \in Node, NEW j \in Node, node[i].role = Leader,
                    node[j].role = Leader, node[i].current_term = node[j].current_term
             PROVE  i = j
    BY DEF ElectionSafety
<1>2. PICK Q \in SUBSET Node :
          /\ 2 * Cardinality(Q) > Cardinality(Node)
          /\ \A p \in Q : CountsIn(node, i, p, node[i].current_term)
    BY LeaderVoters
<1>3. PICK R \in SUBSET Node :
          /\ 2 * Cardinality(R) > Cardinality(Node)
          /\ \A p \in R : CountsIn(node, j, p, node[j].current_term)
    BY LeaderVoters
<1>4. PICK v \in Node : v \in Q /\ v \in R
    BY <1>2, <1>3, MajoritiesMeet
<1>5. CountsIn(node, i, v, node[i].current_term) /\ CountsIn(node, j, v, node[i].current_term)
    BY <1>2, <1>3, <1>4
<1> QED BY <1>1, <1>5 DEF Ledger, VotesIn

(***************************************************************************)
(* In a cluster of any size whose configuration is fixed, every vote that  *)
(* was asked for, given or counted is in one place and in one copy, and    *)
(* binds its voter, although messages are lost and overtake each other and *)
(* nodes crash and restart, as long as no message arrives twice.           *)
(***************************************************************************)
THEOREM VotesAreAccounted ==
    ASSUME ConfigChanges = {}, InitialMembers = Node, MaxDuplicates = 0
    PROVE  Spec => [](Typed(Command) /\ VotesAccounted)
<1> DEFINE Inv == Typed(Command) /\ VotesAccounted /\ budget.duplicates = 0
<1>1. Command \in EntryTypes /\ ConfigChanges \subseteq Command
    BY DEF EntryTypes, EntryType
<1>2. Init => Inv
    BY InitType, InitAccounted
<1>3. Inv /\ [Next]_vars => Inv'
    BY <1>1, NextType, VotesStayAccounted
<1>4. Inv => Typed(Command) /\ VotesAccounted
    OBVIOUS
<1> HIDE DEF Inv
<1> QED BY <1>2, <1>3, <1>4, PTL DEF Spec

(***************************************************************************)
(* Election Safety: no term of such a cluster ever has two leaders.  That  *)
(* no message arrives twice is what handle_vote_response needs: the run    *)
(* duplicated_vote shows what it does otherwise.                           *)
(***************************************************************************)
THEOREM ElectionSafe ==
    ASSUME ConfigChanges = {}, InitialMembers = Node, MaxDuplicates = 0
    PROVE  Spec => []ElectionSafety
<1>1. Spec => [](Typed(Command) /\ VotesAccounted)
    BY VotesAreAccounted
<1>2. Typed(Command) /\ VotesAccounted => ElectionSafety
    BY AccountedIsSafe
<1> QED BY <1>1, <1>2, PTL
=============================================================================

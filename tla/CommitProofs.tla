---------------------------- MODULE CommitProofs ----------------------------
(***************************************************************************)
(* What is committed over channels while one node leads in one term: the   *)
(* log of that node is the history of the cluster, every node has a part   *)
(* of it, every message on its way fits the receiver when it arrives, and  *)
(* a majority has all that the leader counts as committed.                 *)
(***************************************************************************)
EXTENDS ChannelHistory, ReplicationProofs

-----------------------------------------------------------------------------
(* Types                                                                   *)

\* Over channels no membership request is made: the logs have only commands.
CommandsOnly ==
    /\ DOMAIN node = Node
    /\ \A i \in Node : NodeOK(node[i], Command) /\ node[i].id = i
    /\ DOMAIN channel = Node
    /\ \A j \in Node : channel[j] \in Seq([from : Node, message : RaftMsg(Command)])

\* The logs of a cluster without membership requests.
Histories == Seq(LogEntry(Command))

\* Node i has taken an event that made it b, and d messages from its queue.
Takes(i, b, d) ==
    /\ node[i].outbox = no_messages
    /\ node' = [node EXCEPT ![i] = b]
    /\ \/ d = 0 /\ channel' = channel
       \/ d = 1 /\ channel[i] # <<>> /\ channel' = [channel EXCEPT ![i] = Tail(@)]

\* No log gets shorter.
Growing == \A q \in Node : End(node[q]) <= End(node'[q])

\* Commands are an allowed set of entry types.
LEMMA CommandIsEntryType == Command \in EntryTypes
BY DEF EntryTypes, EntryType

\* The envelope at the head of a queue.
LEMMA HeadOfQueue ==
    ASSUME CommandsOnly, NEW i \in Node, channel[i] # <<>>
    PROVE  /\ Head(channel[i]) = channel[i][1]
           /\ 1 \in DOMAIN channel[i]
           /\ Head(channel[i]).from \in Node
           /\ Head(channel[i]).message \in RaftMsg(Command)
<1> DEFINE S == [from : Node, message : RaftMsg(Command)]
<1>1. channel[i] \in Seq(S)
    BY DEF CommandsOnly
<1>2. Head(channel[i]) \in S /\ Head(channel[i]) = channel[i][1] /\ 1 \in DOMAIN channel[i]
    <2> HIDE DEF S
    <2> QED BY <1>1
<1> QED BY <1>2

\* Any envelope in a queue.
LEMMA InQueue ==
    ASSUME CommandsOnly, NEW j \in Node, NEW k \in DOMAIN channel[j]
    PROVE  channel[j][k].from \in Node /\ channel[j][k].message \in RaftMsg(Command)
<1> DEFINE S == [from : Node, message : RaftMsg(Command)]
<1>1. channel[j] \in Seq(S)
    BY DEF CommandsOnly
<1>2. channel[j][k] \in S
    <2> HIDE DEF S
    <2> QED BY <1>1
<1> QED BY <1>2

\* Any message in an outbox.
LEMMA InOutbox ==
    ASSUME CommandsOnly, NEW i \in Node, NEW j \in Node, NEW k \in DOMAIN node[i].outbox[j]
    PROVE  node[i].outbox[j][k] \in RaftMsg(Command)
<1>1. node[i].outbox[j] \in Seq(RaftMsg(Command))
    BY DEF CommandsOnly, NodeOK
<1> DEFINE s == node[i].outbox[j]
<1>2. s \in Seq(RaftMsg(Command)) /\ k \in DOMAIN s
    BY <1>1
<1> HIDE DEF s
<1>3. s[k] \in RaftMsg(Command)
    BY <1>2
<1> QED BY <1>3 DEF s

\* The handlers keep the types of a node with commands only.
LEMMA EventTypes ==
    ASSUME CommandsOnly, NEW i \in Node
    PROVE  /\ channel[i] # <<>> =>
                  NodeOK(handle_message(node[i], Head(channel[i]).from,
                                        Head(channel[i]).message), Command)
           /\ NodeOK(handle_election_timer(node[i]), Command)
           /\ NodeOK(handle_heartbeat_timer(node[i]), Command)
           /\ \A c \in Command : NodeOK(submit_client_command(node[i], c), Command)
<1>1. NodeOK(node[i], Command)
    BY DEF CommandsOnly
<1>2. ASSUME channel[i] # <<>>
      PROVE  NodeOK(handle_message(node[i], Head(channel[i]).from,
                                   Head(channel[i]).message), Command)
    <2>1. Head(channel[i]).from \in Node /\ Head(channel[i]).message \in RaftMsg(Command)
        BY <1>2, HeadOfQueue
    <2> QED BY <1>1, <2>1, CommandIsEntryType, HandleMessageType, Zenon
<1>3. NodeOK(handle_election_timer(node[i]), Command)
    BY <1>1, ElectionTimerType, Zenon
<1>4. NodeOK(handle_heartbeat_timer(node[i]), Command)
    BY <1>1, HeartbeatType, Zenon
<1>5. \A c \in Command : NodeOK(submit_client_command(node[i], c), Command)
    BY <1>1, CommandIsEntryType, SubmitType, Zenon
<1> QED BY <1>2, <1>3, <1>4, <1>5

\* What an event of node i changes: that node, and the head of its queue.
LEMMA Taken ==
    ASSUME CommandsOnly, NEW i \in Node, NEW b, NodeOK(b, Command), b.id = i,
           NEW d, Takes(i, b, d)
    PROVE  /\ CommandsOnly'
           /\ d \in {0, 1}
           /\ node'[i] = b
           /\ \A p \in Node \ {i} : node'[p] = node[p]
           /\ \A p \in Node \ {i} : channel'[p] = channel[p]
           /\ \A k \in DOMAIN channel'[i] :
                  /\ k \in Nat \ {0}
                  /\ k + d \in DOMAIN channel[i]
                  /\ channel'[i][k] = channel[i][k + d]
           /\ \A p \in Node : node[i].outbox[p] = <<>>
           /\ d = 1 => channel[i] # <<>>
<1> DEFINE S == [from : Node, message : RaftMsg(Command)]
<1>1. DOMAIN node' = Node /\ node'[i] = b /\ \A p \in Node \ {i} : node'[p] = node[p]
    BY DEF CommandsOnly, Takes
<1>2. DOMAIN channel' = Node /\ \A p \in Node \ {i} : channel'[p] = channel[p]
    BY DEF CommandsOnly, Takes
<1>3. \A p \in Node : channel[p] \in Seq(S)
    BY DEF CommandsOnly
<1>4. \A p \in Node : NodeOK(node'[p], Command) /\ node'[p].id = p
    <2> TAKE p \in Node
    <2>1. CASE p = i
        BY <1>1, <2>1
    <2>2. CASE p # i
        BY <1>1, <2>2 DEF CommandsOnly
    <2> QED BY <2>1, <2>2
<1>5. (\A p \in Node : channel'[p] \in Seq(S)) => CommandsOnly'
    BY <1>1, <1>2, <1>4 DEF CommandsOnly
<1>6. \A p \in Node : node[i].outbox[p] = <<>>
    BY DEF Takes, no_messages
<1> HIDE DEF S
<1>7. CASE d = 0 /\ channel' = channel
    <2>1. \A k \in DOMAIN channel[i] : k \in Nat \ {0} /\ k + 0 = k
        BY <1>3
    <2>2. CommandsOnly'
        BY <1>3, <1>7, <1>5
    <2> QED BY <1>1, <1>2, <1>7, <1>6, <2>1, <2>2
<1>8. CASE d = 1 /\ channel[i] # <<>> /\ channel' = [channel EXCEPT ![i] = Tail(@)]
    <2>1. channel'[i] = Tail(channel[i])
        BY <1>8 DEF CommandsOnly
    <2>2. /\ Tail(channel[i]) \in Seq(S)
          /\ \A k \in DOMAIN Tail(channel[i]) :
                 /\ k \in Nat \ {0}
                 /\ k + 1 \in DOMAIN channel[i]
                 /\ Tail(channel[i])[k] = channel[i][k + 1]
        BY <1>3, <1>8
    <2>3. \A p \in Node : channel'[p] \in Seq(S)
        BY <1>2, <1>3, <2>1, <2>2
    <2>4. CommandsOnly'
        BY <1>5, <2>3
    <2> QED BY <1>1, <1>2, <1>8, <1>6, <2>1, <2>2, <2>4
<1> QED BY <1>7, <1>8 DEF Takes

-----------------------------------------------------------------------------
(* Majorities and answers                                                  *)

\* A collection with no fewer copies of any id is no shorter.
LEMMA LenMore ==
    ASSUME NEW c \in NodeCollections, NEW d \in NodeCollections,
           \A p \in Node : c[p] <= d[p]
    PROVE  len(c) <= len(d)
<1>1. IsFiniteSet(Slots(c)) /\ IsFiniteSet(Slots(d))
    BY LenType
<1>2. Slots(c) \subseteq Slots(d)
    <2>1. \A p \in Node : {p} \X (1..c[p]) \subseteq {p} \X (1..d[p])
        BY DEF NodeCollections
    <2> QED BY <2>1 DEF Slots
<1> QED BY <1>1, <1>2, FS_Subset, Zenon DEF len

\* A majority that has what is committed has it when no log gets shorter.
LEMMA StoredStays ==
    ASSUME NEW members \in NodeCollections, NEW c \in Nat,
           NEW e \in [Node -> Int], NEW f \in [Node -> Int],
           \A p \in Node : e[p] <= f[p],
           has_quorum(members, len([p \in Node |-> IF e[p] >= c THEN members[p] ELSE 0]))
    PROVE  has_quorum(members, len([p \in Node |-> IF f[p] >= c THEN members[p] ELSE 0]))
<1> DEFINE E == [p \in Node |-> IF e[p] >= c THEN members[p] ELSE 0]
           F == [p \in Node |-> IF f[p] >= c THEN members[p] ELSE 0]
<1>1. E \in NodeCollections /\ F \in NodeCollections /\ \A p \in Node : E[p] <= F[p]
    BY DEF NodeCollections
<1> HIDE DEF E, F
<1>2. len(E) <= len(F) /\ len(E) \in Nat /\ len(F) \in Nat /\ len(members) \in Nat
    BY <1>1, LenMore, LenType
<1>3. quorum_size(members) \in Nat
    BY <1>2 DEF quorum_size, size
<1>4. len(E) >= quorum_size(members)
    BY DEF has_quorum, E
<1>5. len(F) >= quorum_size(members)
    BY <1>2, <1>3, <1>4
<1> QED BY <1>5 DEF has_quorum, F

\* An answer stays true while the log of the node that gave it does not get
\* shorter.
LEMMA AnswersStay ==
    ASSUME NEW a, NEW b, NEW t, NEW m \in RaftMsg(Command), Answers(a, t, m),
           End(a) \in Int, End(b) \in Int, End(a) <= End(b),
           a.snapshot # None => b.snapshot # None
    PROVE  Answers(b, t, m)
<1>1. m.type = "AppendEntriesResponse" => m.match_index \in Nat
    BY DEF RaftMsg
<1> QED BY <1>1 DEF Answers

\* The numbers in the messages with which a log is replicated.
LEMMA MessageTypes ==
    ASSUME NEW m \in RaftMsg(Command)
    PROVE  /\ m.type = "AppendEntries" =>
                  /\ m \in AppendEntriesMsg(Command)
                  /\ m.prev_log_index \in Nat /\ Len(m.entries) \in Nat
                  /\ m.leader_commit \in Nat
           /\ m.type = "InstallSnapshot" => m \in SnapshotMsg /\ m.last_included_index \in Nat
           /\ Replicates(m) => UpTo(m) \in Nat
<1>1. ASSUME m.type = "AppendEntries"
      PROVE  /\ m \in AppendEntriesMsg(Command)
             /\ m.prev_log_index \in Nat /\ Len(m.entries) \in Nat
             /\ m.leader_commit \in Nat
    <2>1. m \in AppendEntriesMsg(Command)
        BY <1>1 DEF RaftMsg, AppendEntriesMsg
    <2>2. m.entries \in Seq(LogEntry(Command))
        BY <2>1 DEF AppendEntriesMsg
    <2> QED BY <2>1, <2>2 DEF AppendEntriesMsg
<1>2. ASSUME m.type = "InstallSnapshot"
      PROVE  m \in SnapshotMsg /\ m.last_included_index \in Nat
    BY <1>2 DEF RaftMsg, SnapshotMsg
<1> QED BY <1>1, <1>2 DEF Replicates, UpTo

\* The indices a leader has of a peer.
LEMMA IndexTypes ==
    ASSUME NEW T, NEW n, NodeOK(n, T), NEW p
    PROVE  get(n.match_index, p, 0) \in Nat /\ get(n.next_index, p, 1) \in Nat
<1>1. IsMap(n.match_index) /\ IsMap(n.next_index)
    BY DEF NodeOK
<1> QED BY <1>1 DEF IsMap, get

\* The length of a typed log.
LEMMA EndType ==
    ASSUME NEW T, NEW n, NodeOK(n, T)
    PROVE  End(n) \in Int
BY DEF NodeOK, End

-----------------------------------------------------------------------------
(* A step of a node that does not lead                                     *)

\* A node goes from a to b: it sends nothing of a log, and what it says to x
\* is true.
Replies(a, b, x, t) ==
    /\ End(a) <= End(b)
    /\ a.snapshot # None => b.snapshot # None
    /\ \A q \in Node : \A k \in DOMAIN b.outbox[q] : ~Replicates(b.outbox[q][k])
    /\ \A k \in DOMAIN b.outbox[x] : Answers(b, t, b.outbox[x][k])

\* What fits a fits b, if it may come after m.
Refits(a, b, m) ==
    \A l \in RaftMsg(Command) : Replicates(l) /\ Fits(a, l) /\ Earlier(m, l) => Fits(b, l)

\* What fits a fits b.
StillFits(a, b) == \A l : Fits(a, l) => Fits(b, l)

\* Node p, in state a, can become b while n leads it.
Becomes(n, h, t, p, a, b) ==
    /\ Keeps(n, h, b)
    /\ Replies(a, b, n.id, t)
    /\ Awaits(n, p) => b.commit_index <= n.snapshot.last_included_index

\* The line from x to p after p has taken the head of it, or nothing.
LEMMA LineAfterTake ==
    ASSUME CommandsOnly, NEW x \in Node, NEW p \in Node \ {x}, NEW t, NEW h,
           LineFits(x, t, h, p), NEW b, NodeOK(b, Command), b.id = p, NEW d,
           Takes(p, b, d),
           \/ StillFits(node[p], b)
           \/ d = 1 /\ Refits(node[p], b, Head(channel[p]).message)
    PROVE  LineFits(x, t, h, p)'
<1> DEFINE n == node[x]
           a == node[p]
           m == Head(channel[p]).message
           waiting == n.outbox[p]
<1>1. /\ d \in {0, 1}
      /\ node'[p] = b /\ node'[x] = n
      /\ \A k \in DOMAIN channel'[p] :
             /\ k \in Nat \ {0}
             /\ k + d \in DOMAIN channel[p]
             /\ channel'[p][k] = channel[p][k + d]
      /\ d = 1 => channel[p] # <<>>
    BY Taken
<1>2. /\ \A k \in DOMAIN channel[p] : Suits(n, h, t, p, a, channel[p][k].message)
      /\ \A k \in DOMAIN waiting : Suits(n, h, t, p, a, waiting[k])
      /\ \A k, l \in DOMAIN channel[p] :
             k < l => Earlier(channel[p][k].message, channel[p][l].message)
      /\ \A k \in DOMAIN channel[p], l \in DOMAIN waiting :
             Earlier(channel[p][k].message, waiting[l])
      /\ \A k, l \in DOMAIN waiting : k < l => Earlier(waiting[k], waiting[l])
    BY DEF LineFits, InOrder
<1>3. d = 1 => 1 \in DOMAIN channel[p] /\ m = channel[p][1].message
    BY <1>1, HeadOfQueue
<1> HIDE DEF m, a
<1>4. ASSUME NEW l \in RaftMsg(Command), Suits(n, h, t, p, a, l), d = 1 => Earlier(m, l)
      PROVE  Suits(n, h, t, p, b, l)
    <2>1. Replicates(l) => Fits(a, l)
        BY <1>4 DEF Suits
    <2>2. Replicates(l) => Fits(b, l)
        BY <1>4, <2>1 DEF StillFits, Refits, m, a
    <2> QED BY <1>4, <2>2 DEF Suits
<1>5. ASSUME NEW k \in DOMAIN channel'[p]
      PROVE  Suits(n, h, t, p, b, channel'[p][k].message)
    <2>1. k \in Nat \ {0} /\ k + d \in DOMAIN channel[p] /\ channel'[p][k] = channel[p][k + d]
        BY <1>1
    <2>2. d = 1 => Earlier(m, channel[p][k + d].message)
        <3>1. d = 1 => 1 < k + d
            BY <2>1
        <3> QED BY <1>2, <1>3, <2>1, <3>1
    <2>3. channel[p][k + d].message \in RaftMsg(Command)
        BY <2>1, InQueue
    <2> QED BY <1>2, <1>4, <2>1, <2>2, <2>3
<1>6. ASSUME NEW k \in DOMAIN waiting
      PROVE  Suits(n, h, t, p, b, waiting[k])
    <2>1. d = 1 => Earlier(m, waiting[k])
        BY <1>2, <1>3
    <2>2. waiting[k] \in RaftMsg(Command)
        BY InOutbox
    <2> QED BY <1>2, <1>4, <2>1, <2>2
<1>7. ASSUME NEW k \in DOMAIN channel'[p], NEW l \in DOMAIN channel'[p], k < l
      PROVE  Earlier(channel'[p][k].message, channel'[p][l].message)
    <2>1. /\ k \in Nat \ {0} /\ k + d \in DOMAIN channel[p] /\ channel'[p][k] = channel[p][k + d]
          /\ l \in Nat \ {0} /\ l + d \in DOMAIN channel[p] /\ channel'[p][l] = channel[p][l + d]
        BY <1>1
    <2>2. k + d < l + d
        BY <1>1, <1>7, <2>1
    <2> QED BY <1>2, <2>1, <2>2
<1>8. ASSUME NEW k \in DOMAIN channel'[p], NEW l \in DOMAIN waiting
      PROVE  Earlier(channel'[p][k].message, waiting[l])
    BY <1>1, <1>2
<1> QED BY <1>1, <1>2, <1>5, <1>6, <1>7, <1>8 DEF LineFits, InOrder

\* Everything is still accounted for after a step of another node than x.
LEMMA PeerTakes ==
    ASSUME CommandsOnly, NEW x \in Node, NEW t, NEW h, Accounted(x, t, h),
           NEW p \in Node \ {x}, NEW b, NodeOK(b, Command), b.id = p, NEW d,
           Takes(p, b, d), Becomes(node[x], h, t, p, node[p], b),
           \/ StillFits(node[p], b)
           \/ d = 1 /\ Refits(node[p], b, Head(channel[p]).message)
    PROVE  CommandsOnly' /\ Accounted(x, t, h)' /\ Growing
<1> DEFINE n == node[x]
           a == node[p]
<1>1. /\ CommandsOnly'
      /\ d \in {0, 1}
      /\ node'[p] = b /\ node'[x] = n
      /\ \A q \in Node \ {p} : node'[q] = node[q]
      /\ \A q \in Node \ {p} : channel'[q] = channel[q]
      /\ channel'[x] = channel[x]
      /\ \A k \in DOMAIN channel'[p] :
             /\ k + d \in DOMAIN channel[p]
             /\ channel'[p][k] = channel[p][k + d]
    BY Taken
<1>2. \A q \in Node : NodeOK(node[q], Command) /\ node[q].id = q /\ End(node[q]) \in Int
      /\ NodeOK(node'[q], Command) /\ End(node'[q]) \in Int
    BY <1>1, EndType DEF CommandsOnly
<1>3. \A q \in Node : End(node[q]) <= End(node'[q])
                      /\ (node[q].snapshot # None => node'[q].snapshot # None)
    <2>1. End(a) <= End(b) /\ (a.snapshot # None => b.snapshot # None)
        BY DEF Becomes, Replies
    <2> QED BY <1>1, <1>2, <2>1
<1>4. Leads(node[x], h, t)'
    BY <1>1 DEF Accounted
<1>5. ASSUME NEW i \in Node PROVE Keeps(node'[x], h, node'[i])
    <2>1. CASE i = p
        BY <1>1, <2>1 DEF Becomes
    <2>2. CASE i # p
        BY <1>1, <2>2 DEF Accounted
    <2> QED BY <2>1, <2>2
<1>6. ASSUME NEW q \in Node \ {x} PROVE Knows(node'[x], q, node'[q])
    <2>1. Knows(n, q, node[q])
        BY DEF Accounted
    <2>2. CASE q = p
        <3>1. get(n.match_index, p, 0) \in Nat
            BY <1>2, IndexTypes
        <3>2. get(n.match_index, p, 0) <= End(b)
            BY <1>1, <1>2, <1>3, <2>1, <2>2, <3>1 DEF Knows
        <3> QED BY <1>1, <2>1, <2>2, <3>2 DEF Knows, Becomes
    <2>3. CASE q # p
        BY <1>1, <2>1, <2>3
    <2> QED BY <2>2, <2>3
<1>7. ASSUME NEW q \in Node \ {x} PROVE LineFits(x, t, h, q)'
    <2>1. LineFits(x, t, h, q)
        BY DEF Accounted
    <2>2. CASE q = p
        BY <2>1, <2>2, LineAfterTake
    <2>3. CASE q # p
        BY <1>1, <2>1, <2>3 DEF LineFits
    <2> QED BY <2>2, <2>3
<1>8. OthersAreSilent(x)'
    <2>1. OthersAreSilent(x)
        BY DEF Accounted
    <2>2. ASSUME NEW j \in Node, NEW k \in DOMAIN channel'[j], Replicates(channel'[j][k].message)
          PROVE  channel'[j][k].from = x /\ j # x
        <3>1. CASE j = p
            BY <1>1, <2>1, <2>2, <3>1 DEF OthersAreSilent
        <3>2. CASE j # p
            BY <1>1, <2>1, <2>2, <3>2 DEF OthersAreSilent
        <3> QED BY <3>1, <3>2
    <2>3. ASSUME NEW i \in Node, NEW j \in Node, NEW k \in DOMAIN node'[i].outbox[j],
                 Replicates(node'[i].outbox[j][k])
          PROVE  i = x /\ j # x
        <3>1. CASE i = p
            BY <1>1, <2>3, <3>1 DEF Becomes, Replies
        <3>2. CASE i # p
            BY <1>1, <2>1, <2>3, <3>2 DEF OthersAreSilent
        <3> QED BY <3>1, <3>2
    <2> QED BY <2>2, <2>3 DEF OthersAreSilent
<1>9. AnswersFit(x, t)'
    <2>1. AnswersFit(x, t)
        BY DEF Accounted
    <2>2. ASSUME NEW k \in DOMAIN channel'[x]
          PROVE  Answers(node'[channel'[x][k].from], t, channel'[x][k].message)
        <3> DEFINE q == channel[x][k].from
                   m == channel[x][k].message
        <3>1. q \in Node /\ m \in RaftMsg(Command)
            BY <1>1, <2>2, InQueue
        <3>2. Answers(node[q], t, m)
            BY <1>1, <2>1, <2>2 DEF AnswersFit
        <3> HIDE DEF q, m
        <3>3. Answers(node'[q], t, m)
            BY <1>2, <1>3, <3>1, <3>2, AnswersStay
        <3> QED BY <1>1, <3>3 DEF q, m
    <2>3. ASSUME NEW q \in Node, NEW k \in DOMAIN node'[q].outbox[x]
          PROVE  Answers(node'[q], t, node'[q].outbox[x][k])
        <3>1. CASE q = p
            <4>1. n.id = x
                BY <1>2
            <4> QED BY <1>1, <2>3, <3>1, <4>1 DEF Becomes, Replies
        <3>2. CASE q # p
            BY <1>1, <2>1, <2>3, <3>2 DEF AnswersFit
        <3> QED BY <3>1, <3>2
    <2> QED BY <2>2, <2>3 DEF AnswersFit
<1>10. Stored(x)'
    <2> DEFINE e == [q \in Node |-> End(node[q])]
               f == [q \in Node |-> End(node'[q])]
    <2>1. n.members \in NodeCollections /\ n.commit_index \in Nat
        BY <1>2 DEF NodeOK
    <2>2. e \in [Node -> Int] /\ f \in [Node -> Int] /\ \A q \in Node : e[q] <= f[q]
        BY <1>2, <1>3
    <2>3. has_quorum(n.members, len([q \in Node |->
                         IF e[q] >= n.commit_index THEN n.members[q] ELSE 0]))
        BY DEF Accounted, Stored
    <2> HIDE DEF e, f, n
    <2>4. has_quorum(n.members, len([q \in Node |->
                         IF f[q] >= n.commit_index THEN n.members[q] ELSE 0]))
        BY <2>1, <2>2, <2>3, StoredStays
    <2>5. \A q \in Node : f[q] = End(node'[q])
        BY DEF f
    <2> QED BY <1>1, <2>4, <2>5 DEF Stored
<1> QED BY <1>1, <1>3, <1>4, <1>5, <1>6, <1>7, <1>8, <1>9, <1>10 DEF Accounted, Growing

\* What a node has of the history depends on no other field.
LEMMA SameKeeps ==
    ASSUME NEW n, NEW h, NEW a, NEW b, SameHistory(a, b)
    PROVE  /\ Keeps(n, h, a) => Keeps(n, h, b)
           /\ StillFits(a, b)
           /\ End(b) = End(a)
<1>1. (Tracks(a, h) <=> Tracks(b, h)) /\ End(b) = End(a)
    BY SameTracks
<1>2. Keeps(n, h, a) => Keeps(n, h, b)
    BY <1>1 DEF SameHistory, Keeps, AsBuilt
<1>3. StillFits(a, b)
    BY <1>1 DEF SameHistory, StillFits, Fits
<1> QED BY <1>1, <1>2, <1>3

\* A node that does nothing with its log.
LEMMA IdleBecomes ==
    ASSUME NEW n, NodeOK(n, Command), NEW h, NEW t, NEW p, NEW a, NodeOK(a, Command),
           Keeps(n, h, a), Knows(n, p, a), NEW b, SameHistory(a, b), Plainly(b)
    PROVE  Becomes(n, h, t, p, a, b) /\ StillFits(a, b)
<1>1. Keeps(n, h, b) /\ StillFits(a, b) /\ End(b) = End(a) /\ End(a) \in Int
    BY SameKeeps, EndType
<1>2. n.id \in Node
    BY DEF NodeOK
<1>3. Replies(a, b, n.id, t)
    BY <1>1, <1>2 DEF Replies, SameHistory, Plainly, Plain, Replicates, Answers
<1>4. Awaits(n, p) => b.commit_index <= n.snapshot.last_included_index
    BY DEF Knows, SameHistory
<1> QED BY <1>1, <1>3, <1>4 DEF Becomes

\* An outbox without messages is a plain one.
LEMMA NoMessagesPlainly ==
    ASSUME NEW n, n.outbox = no_messages
    PROVE  Plainly(n)
BY DEF no_messages, Plainly

\* Elections, at a node that does not come to lead.
LEMMA VotingBecomes ==
    ASSUME NEW n, NodeOK(n, Command), NEW h, NEW t, NEW p, NEW a, NodeOK(a, Command),
           Keeps(n, h, a), Knows(n, p, a), NEW b, Voting(a, b), b.role # Leader
    PROVE  Becomes(n, h, t, p, a, b) /\ StillFits(a, b)
<1>1. SameHistory(a, b) /\ Plainly(b)
    BY DEF Voting, Installed, Remained
<1> QED BY <1>1, IdleBecomes

\* Answers to a leader, at a node that does not lead.
LEMMA AnswerStill ==
    ASSUME NEW a, NodeOK(a, Command), a.role # Leader, NEW from, NEW m
    PROVE  /\ Still(a, handle_append_entries_response(a, from, m))
           /\ Still(a, handle_install_snapshot_response(a, from, m))
<1>1. Still(a, a) /\ Still(a, step_down(a, m.term))
    BY UpdatesStill, Zenon
<1> HIDE DEF step_down
<1> QED BY <1>1 DEF handle_append_entries_response, handle_install_snapshot_response

\* What a leader of term t has sent is consistent with a log it fits.
LEMMA FitsConsistently ==
    ASSUME NEW t, NEW h \in Histories, \A k \in DOMAIN h : h[k].term = t,
           NEW a, NodeOK(a, Command), Tracks(a, h), NEW prev \in Nat,
           prev \in (a.first_log_index - 1)..End(a),
           NEW term, term = IF prev = 0 THEN 0 ELSE t
    PROVE  check_log_consistency(a, prev, term)
<1>1. /\ End(a) \in Nat /\ a.first_log_index \in Nat \ {0}
      /\ \A k \in Int : has_entry(a, k) <=> k \in a.first_log_index..End(a)
      /\ \A k \in a.first_log_index..End(a) : k \in DOMAIN h /\ get_entry(a, k) = h[k]
    <2>1. h \in Seq(LogEntry(Command))
        BY DEF Histories
    <2>2. /\ End(a) \in Nat
          /\ \A k \in Int : has_entry(a, k) <=> k \in a.first_log_index..End(a)
          /\ \A k \in a.first_log_index..End(a) : k \in DOMAIN h /\ get_entry(a, k) = h[k]
        BY <2>1, TrackedLog
    <2> QED BY <2>2 DEF NodeOK
<1>2. CASE prev = 0
    BY <1>2 DEF check_log_consistency
<1>3. CASE prev # 0 /\ has_entry(a, prev)
    BY <1>1, <1>3 DEF check_log_consistency
<1>4. CASE prev # 0 /\ ~has_entry(a, prev)
    <2>1. prev = a.first_log_index - 1
        BY <1>1, <1>4
    <2>2. a.snapshot # None
        BY <1>1, <1>4, <2>1 DEF Tracks
    <2>3. a.snapshot.last_included_index \in Nat
        BY <2>2, HistoryTypes DEF Histories
    <2>4. prev = a.snapshot.last_included_index
        BY <1>1, <2>1, <2>2, <2>3 DEF Tracks
    <2>5. prev \in DOMAIN h
        BY <1>1, <1>4, HistoryTypes DEF Tracks, Histories
    <2>6. a.snapshot.last_included_term = t
        BY <2>2, <2>4, <2>5 DEF Tracks
    <2> QED BY <1>4, <2>2, <2>4, <2>6 DEF check_log_consistency
<1> QED BY <1>2, <1>3, <1>4

\* The outbox of a node that has said nothing but m, to p.
LEMMA ToldOnly ==
    ASSUME NEW a, a.outbox = no_messages, NEW b, NEW p \in Node, NEW m, Told(a, b, p, m)
    PROVE  \A q \in Node : \A k \in DOMAIN b.outbox[q] : q = p /\ b.outbox[q][k] = m
<1>1. b.outbox = [no_messages EXCEPT ![p] = Append(<<>>, m)]
    BY DEF Told, no_messages
<1>2. \A q \in Node : b.outbox[q] = IF q = p THEN Append(<<>>, m) ELSE <<>>
    BY <1>1 DEF no_messages
<1>3. Append(<<>>, m) = <<m>>
    OBVIOUS
<1> QED BY <1>2, <1>3

\* An AppendEntries of the leader, at the node it was sent to.
LEMMA AppendBecomes ==
    ASSUME NEW n, NodeOK(n, Command), NEW t \in Nat, NEW h \in Histories,
           \A k \in DOMAIN h : h[k].term = t,
           NEW p, NEW a, NodeOK(a, Command), a.outbox = no_messages,
           Keeps(n, h, a), Knows(n, p, a),
           NEW m \in AppendEntriesMsg(Command), Suits(n, h, t, p, a, m), NEW b,
           NodeOK(b, Command), b = handle_append_entries(a, n.id, m)
    PROVE  Becomes(n, h, t, p, a, b) /\ Refits(a, b, m) /\ b.id = a.id
<1>1. /\ m.type = "AppendEntries" /\ m.term \in Nat /\ m.prev_log_index \in Nat
      /\ m.leader_commit \in Nat /\ m.entries \in Seq(LogEntry(Command))
      /\ Len(m.entries) \in Nat
    BY DEF AppendEntriesMsg
<1>2. SentBy(n, h, t, m) /\ Fits(a, m)
      /\ (Awaits(n, p) => m.leader_commit <= n.snapshot.last_included_index)
    BY <1>1 DEF Suits, Replicates
<1>3. /\ m.term = t /\ Follows(h, m.prev_log_index, m.entries)
      /\ m.prev_log_term = IF m.prev_log_index = 0 THEN 0 ELSE t
      /\ m.leader_commit <= n.commit_index
      /\ m.prev_log_index \in (a.first_log_index - 1)..End(a)
      /\ End(a) <= m.prev_log_index + Len(m.entries)
    BY <1>1, <1>2 DEF SentBy, Fits, PartOf, Follows, UpTo
<1>4. /\ Tracks(a, h) /\ AsBuilt(a) /\ a.commit_index = a.last_applied
      /\ a.commit_index <= End(a) /\ a.commit_index <= n.commit_index
      /\ a.snapshot \in {None, n.snapshot}
    BY DEF Keeps
<1>5. n.id \in Node /\ n.commit_index \in Nat /\ a.first_log_index \in Nat \ {0}
      /\ a.commit_index \in Nat /\ b.commit_index \in Nat /\ a.current_term \in Nat
      /\ End(a) \in Int /\ End(b) \in Int
    BY EndType DEF NodeOK
<1>6. m.prev_log_index >= a.first_log_index - 1
    BY <1>1, <1>3, <1>5
<1> DEFINE Ok(ok) ==
               /\ ok <=> /\ m.term = a.current_term
                         /\ check_log_consistency(a, m.prev_log_index, m.prev_log_term)
               /\ Told(a, b, n.id, AppendAnswer(a, ok, End(b)))
               /\ ~ok => Stays(a, b)
               /\ ok => Grown(a, b, m)
<1>7. /\ Tracks(b, h)
      /\ b.id = a.id
      /\ b.first_log_index = a.first_log_index
      /\ b.snapshot = a.snapshot
      /\ b.members = a.members
      /\ b.catching_up_servers = a.catching_up_servers
      /\ \/ m.term > a.current_term /\ Still(a, b)
         \/ m.term <= a.current_term /\ \E ok \in BOOLEAN : Ok(ok)
    <2>1. h \in Seq(LogEntry(Command))
        BY DEF Histories
    <2> QED BY <1>3, <1>4, <1>5, <1>6, <2>1, CommandIsEntryType, AppendEntriesTracks
<1>8. CASE Still(a, b)
    <2>1. SameHistory(a, b) /\ Plainly(b)
        BY <1>8, NoMessagesPlainly DEF Still, Stays
    <2>2. Becomes(n, h, t, p, a, b) /\ StillFits(a, b)
        BY <2>1, IdleBecomes
    <2> QED BY <1>7, <2>2 DEF Refits, StillFits
<1>9. CASE \E ok \in BOOLEAN : Ok(ok)
    <2>1. PICK ok \in BOOLEAN : Ok(ok)
        BY <1>9
    <2>2. \A q \in Node : \A k \in DOMAIN b.outbox[q] :
              q = n.id /\ b.outbox[q][k] = AppendAnswer(a, ok, End(b))
        BY <1>5, <2>1, ToldOnly
    <2>3. check_log_consistency(a, m.prev_log_index, m.prev_log_term)
        BY <1>1, <1>3, <1>4, FitsConsistently
    <2>4. ~Replicates(AppendAnswer(a, ok, End(b))) /\ Answers(b, t, AppendAnswer(a, ok, End(b)))
        BY <1>3, <1>5, <2>1, <2>3 DEF AppendAnswer, Replicates, Answers
    <2>5. CASE ~ok
        <3>1. SameHistory(a, b)
            BY <2>1, <2>5 DEF Stays
        <3>2. Keeps(n, h, b) /\ StillFits(a, b) /\ End(b) = End(a)
            BY <3>1, SameKeeps
        <3>3. Replies(a, b, n.id, t)
            BY <1>5, <2>2, <2>4, <3>1, <3>2 DEF Replies, SameHistory
        <3>4. Awaits(n, p) => b.commit_index <= n.snapshot.last_included_index
            BY <3>1 DEF Knows, SameHistory
        <3> QED BY <1>7, <3>2, <3>3, <3>4 DEF Becomes, Refits, StillFits
    <2>6. CASE ok
        <3>1. /\ End(a) <= End(b)
              /\ End(b) = End(a) \/ End(b) <= m.prev_log_index + Len(m.entries)
              /\ b.commit_index # a.commit_index =>
                     /\ b.commit_index <= m.leader_commit
                     /\ b.commit_index <= End(b)
            BY <1>3, <2>1, <2>6 DEF Grown
        <3>2. b.commit_index = b.last_applied
            <4>1. a.commit_index <= End(b)
                BY <1>4, <1>5, <3>1
            <4> QED BY <1>4, <2>1, <2>6, <4>1 DEF Grown
        <3>3. b.commit_index <= End(b) /\ b.commit_index <= n.commit_index
            BY <1>1, <1>3, <1>4, <1>5, <3>1
        <3>4. Keeps(n, h, b)
            BY <1>4, <1>7, <3>2, <3>3 DEF Keeps, AsBuilt
        <3>5. Replies(a, b, n.id, t)
            BY <1>5, <1>7, <2>2, <2>4, <3>1 DEF Replies
        <3>6. Awaits(n, p) => b.commit_index <= n.snapshot.last_included_index
            <4>1. b.commit_index = a.commit_index \/ b.commit_index <= m.leader_commit
                BY <3>1
            <4>2. Awaits(n, p) => a.commit_index <= n.snapshot.last_included_index
                                  /\ n.snapshot.last_included_index \in Nat
                BY HistoryTypes DEF Knows, Awaits, Histories
            <4> QED BY <1>1, <1>2, <1>5, <4>1, <4>2
        <3>7. Refits(a, b, m)
            <4> SUFFICES ASSUME NEW l \in RaftMsg(Command), Replicates(l), Fits(a, l), Earlier(m, l)
                         PROVE  Fits(b, l)
                BY DEF Refits
            <4>1. ASSUME l.type = "AppendEntries"
                  PROVE  /\ l.prev_log_index \in (b.first_log_index - 1)..End(b)
                         /\ End(b) <= UpTo(l)
                <5>1. l.prev_log_index \in (a.first_log_index - 1)..End(a) /\ End(a) <= UpTo(l)
                    BY <4>1 DEF Fits
                <5>2. m.prev_log_index + Len(m.entries) <= UpTo(l)
                    BY <1>1, <4>1 DEF Earlier, Replicates, UpTo
                <5>3. UpTo(l) \in Int
                    BY <4>1, MessageTypes
                <5>4. End(b) <= UpTo(l)
                    <6>1. m.prev_log_index + Len(m.entries) \in Int
                        BY <1>1
                    <6> QED BY <1>5, <3>1, <5>1, <5>2, <5>3, <6>1
                <5>5. b.first_log_index = a.first_log_index
                    BY <1>7
                <5>6. l.prev_log_index \in (a.first_log_index - 1)..End(b)
                    BY <1>5, <3>1, <5>1
                <5> QED BY <5>4, <5>5, <5>6, Zenon
            <4>2. ASSUME l.type = "InstallSnapshot", b.snapshot = None
                  PROVE  b.commit_index <= l.last_included_index
                <5>1. a.commit_index <= l.last_included_index
                    BY <1>7, <4>2 DEF Fits
                <5>2. m.leader_commit <= l.last_included_index
                    BY <1>1, <4>2 DEF Earlier, Replicates
                <5>3. l.last_included_index \in Nat
                    BY <4>2, MessageTypes
                <5> QED BY <1>1, <1>5, <3>1, <5>1, <5>2, <5>3
            <4> QED BY <4>1, <4>2 DEF Fits
        <3> QED BY <1>7, <3>4, <3>5, <3>6, <3>7 DEF Becomes
    <2> QED BY <2>5, <2>6
<1> QED BY <1>7, <1>8, <1>9

-----------------------------------------------------------------------------
(* Snapshots                                                               *)

\* The node a with a snapshot at index s of the history, instead of the log
\* up to there.
Compacted(a, b, h, s) ==
    /\ b.snapshot # None
    /\ b.snapshot.last_included_index = s
    /\ b.snapshot.last_included_term = h[s].term
    /\ b.snapshot.data = Applied(h, s)
    /\ b.first_log_index = s + 1
    /\ b.log = IF s <= End(a)
               THEN SubSeq(a.log, s - a.first_log_index + 2, Len(a.log)) ELSE <<>>

\* A log that is compacted is still a part of the history.
LEMMA CompactedTracks ==
    ASSUME NEW h \in Histories, NEW a, NodeOK(a, Command), Tracks(a, h), NEW b,
           NodeOK(b, Command), NEW s \in Nat, s >= a.first_log_index, s <= Len(h),
           Compacted(a, b, h, s), b.last_applied \in s..Len(h),
           b.state_machine = Applied(h, b.last_applied)
    PROVE  Tracks(b, h) /\ End(b) = IF End(a) >= s THEN End(a) ELSE s
<1> DEFINE f == a.first_log_index
<1>1. /\ a.log \in Seq(LogEntry(Command)) /\ Len(a.log) \in Nat /\ f \in Nat \ {0}
      /\ Len(h) \in Nat /\ LogCapacity \in Nat /\ DOMAIN a.log = 1..Len(a.log)
    BY HistoryTypes, ContextAssumption DEF Histories
<1>2. /\ Len(a.log) <= LogCapacity /\ End(a) <= Len(h) /\ End(a) = f + Len(a.log) - 1
      /\ \A k \in DOMAIN a.log : a.log[k] = h[f + k - 1]
    BY DEF Tracks, End
<1>3. b.first_log_index = IF b.snapshot = None THEN 1
                          ELSE b.snapshot.last_included_index + 1
    BY DEF Compacted
<1>4. b.last_applied \in (b.first_log_index - 1)..Len(h)
    BY <1>1 DEF Compacted
<1>5. b.snapshot.last_included_index > 0
    BY <1>1 DEF Compacted
<1>6. /\ Len(b.log) \in Nat /\ Len(b.log) <= LogCapacity
      /\ End(b) = IF End(a) >= s THEN End(a) ELSE s
      /\ \A k \in DOMAIN b.log : b.log[k] = h[b.first_log_index + k - 1]
    <2>1. CASE s < End(a)
        <3> DEFINE j == s - f + 2
        <3>1. j \in 1..Len(a.log)
            <4>1. s >= f /\ s < f + Len(a.log) - 1 /\ j = s - f + 2
                BY <1>2, <2>1
            <4> HIDE DEF f, j
            <4> QED BY <1>1, <4>1
        <3>2. b.log = SubSeq(a.log, j, Len(a.log))
            <4>1. s <= End(a)
                BY <1>1, <1>2, <2>1
            <4> QED BY <4>1 DEF Compacted
        <3> HIDE DEF j
        <3>3. /\ b.log \in Seq(LogEntry(Command)) /\ Len(b.log) = Len(a.log) - j + 1
              /\ \A k \in 1..Len(b.log) : b.log[k] = a.log[j + k - 1]
            BY <1>1, <3>1, <3>2, SuffixProperties
        <3>4. Len(b.log) \in Nat /\ Len(b.log) <= LogCapacity
            <4> DEFINE z == Len(a.log)
                       y == Len(b.log)
            <4>1. z \in Nat /\ z <= LogCapacity /\ LogCapacity \in Nat /\ y = z - j + 1
                BY <1>1, <1>2, <3>3
            <4>2. j \in 1..z
                BY <3>1
            <4>3. y \in Nat /\ y <= LogCapacity
                <5> HIDE DEF y, z
                <5> QED BY <4>1, <4>2
            <4> QED BY <4>3
        <3>5. End(b) = End(a)
            <4>1. End(b) = s + 1 + Len(b.log) - 1
                BY DEF End, Compacted
            <4>2. Len(b.log) = Len(a.log) - (s - f + 2) + 1
                BY <3>3 DEF j
            <4>3. Len(b.log) \in Int /\ Len(a.log) \in Int /\ f \in Int
                BY <1>1, <3>4
            <4>4. End(a) = f + Len(a.log) - 1
                BY <1>2
            <4> DEFINE z == Len(a.log)
                       y == Len(b.log)
            <4>5. End(b) = s + 1 + y - 1 /\ y = z - (s - f + 2) + 1
                BY <4>1, <4>2
            <4>6. y \in Int /\ z \in Int /\ f \in Int /\ s \in Int /\ End(a) = f + z - 1
                BY <4>3, <4>4
            <4> HIDE DEF f, y, z
            <4> QED BY <4>5, <4>6
        <3>6. ASSUME NEW k \in DOMAIN b.log
              PROVE  b.log[k] = h[b.first_log_index + k - 1]
            <4>1. k \in 1..Len(b.log)
                BY <3>3
            <4>2. j + k - 1 \in DOMAIN a.log
                BY <1>1, <3>1, <3>3, <4>1
            <4>3. f + (j + k - 1) - 1 = s + 1 + k - 1
                <5>1. j = s - f + 2 /\ k \in Int /\ f \in Int
                    BY <1>1, <4>1 DEF j
                <5> HIDE DEF f
                <5> QED BY <5>1
            <4>4. b.log[k] = h[f + (j + k - 1) - 1]
                BY <1>2, <3>3, <4>1, <4>2
            <4>5. b.first_log_index = s + 1
                BY DEF Compacted
            <4>6. b.first_log_index + k - 1 = f + (j + k - 1) - 1
                BY <4>3, <4>5
            <4> QED BY <4>4, <4>6, Zenon
        <3>7. End(b) = IF End(a) >= s THEN End(a) ELSE s
            BY <1>1, <1>2, <2>1, <3>5
        <3> QED BY <3>4, <3>6, <3>7
    <2>2. CASE ~(s < End(a))
        <3>1. b.log = <<>>
            <4>1. CASE s <= End(a)
                <5>1. s - f + 2 > Len(a.log)
                    BY <1>1, <1>2, <2>2
                <5>2. b.log = SubSeq(a.log, s - f + 2, Len(a.log))
                    BY <4>1 DEF Compacted
                <5>3. s - f + 2 \in Int /\ s - f + 2 >= 1
                    BY <1>1
                <5> QED BY <1>1, <5>1, <5>2, <5>3, SubSeqProperties
            <4>2. CASE ~(s <= End(a))
                BY <4>2 DEF Compacted
            <4> QED BY <4>1, <4>2
        <3>2. End(b) = s
            <4>1. b.first_log_index = s + 1 /\ Len(b.log) = 0
                BY <3>1 DEF Compacted
            <4> QED BY <4>1 DEF End
        <3> QED BY <1>1, <1>2, <2>2, <3>1, <3>2
    <2> QED BY <2>1, <2>2
<1>7. End(b) <= Len(h)
    BY <1>1, <1>2, <1>6
<1> QED BY <1>3, <1>4, <1>5, <1>6, <1>7 DEF Tracks, Compacted

\* The snapshot of a node has the fields of a snapshot.
LEMMA SnapshotFields ==
    ASSUME NEW T, NEW n, NodeOK(n, T), n.snapshot # None
    PROVE  n.snapshot = [last_included_index |-> n.snapshot.last_included_index,
                         last_included_term |-> n.snapshot.last_included_term,
                         data |-> n.snapshot.data]
<1>1. n.snapshot \in Snapshot
    BY DEF NodeOK, Optional
<1> QED BY <1>1 DEF Snapshot

\* The snapshot of the leader n, at a node that has none.
LEMMA InstallTracks ==
    ASSUME NEW n, NodeOK(n, Command), NEW h \in Histories, Tracks(n, h),
           n.snapshot # None, NEW a, NodeOK(a, Command), Tracks(a, h),
           a.snapshot = None, a.commit_index = a.last_applied,
           a.commit_index <= n.snapshot.last_included_index, NEW m \in SnapshotMsg,
           m.last_included_index = n.snapshot.last_included_index,
           m.last_included_term = n.snapshot.last_included_term,
           m.data = n.snapshot.data
    PROVE  LET b == install(a, m)
               s == n.snapshot.last_included_index
           IN  /\ NodeOK(b, Command)
               /\ Tracks(b, h)
               /\ b.snapshot = n.snapshot
               /\ End(b) = IF End(a) >= s THEN End(a) ELSE s
               /\ b.first_log_index = s + 1
               /\ b.commit_index = s /\ b.last_applied = s
               /\ b.id = a.id
               /\ b.outbox = a.outbox
               /\ b.members = a.members
               /\ b.catching_up_servers = a.catching_up_servers
<1> DEFINE s == n.snapshot.last_included_index
           snap == [last_included_index |-> m.last_included_index,
                    last_included_term |-> m.last_included_term,
                    data |-> m.data]
           c == [a EXCEPT !.snapshot = snap]
           d == discard_entries_before(c, m.last_included_index + 1)
           b == install(a, m)
<1>1. /\ s \in Nat /\ s > 0 /\ s <= Len(h) /\ Len(h) \in Nat
      /\ n.snapshot.last_included_term = h[s].term
      /\ n.snapshot.data = Applied(h, s)
    <2>1. s \in Nat /\ Len(h) \in Nat /\ n.last_applied \in Nat
        BY HistoryTypes DEF Histories
    <2>2. n.first_log_index = s + 1 /\ n.last_applied \in (n.first_log_index - 1)..Len(h)
        BY DEF Tracks
    <2>3. s <= Len(h)
        BY <2>1, <2>2
    <2> QED BY <2>1, <2>3 DEF Tracks
<1>2. a.first_log_index = 1 /\ a.commit_index \in Nat /\ a.last_applied \in Nat
      /\ a.log \in Seq(LogEntry(Command)) /\ Len(a.log) \in Nat /\ End(a) = Len(a.log)
    <2>1. a.first_log_index = 1
        BY DEF Tracks
    <2>2. a.log \in Seq(LogEntry(Command)) /\ a.commit_index \in Nat /\ a.last_applied \in Nat
        BY DEF NodeOK
    <2> QED BY <2>1, <2>2 DEF End
<1>3. snap = n.snapshot
    BY SnapshotFields
<1>4. NodeOK(b, Command)
    BY InstallType, Zenon
<1> HIDE DEF snap
<1>5. /\ DOMAIN c = NodeFields /\ c.snapshot = snap /\ c.log = a.log
      /\ c.first_log_index = 1 /\ c.commit_index = a.commit_index
      /\ c.last_applied = a.last_applied /\ c.id = a.id /\ c.outbox = a.outbox
      /\ c.members = a.members /\ c.catching_up_servers = a.catching_up_servers
    BY <1>2 DEF NodeOK, NodeFields
<1> HIDE DEF c
<1>6. d = [c EXCEPT !.log = SubSeq(@, s + 1, Len(@)), !.first_log_index = s + 1]
    <2> DEFINE l == m.last_included_index + 1
               e(k) == [c EXCEPT !.log = SubSeq(@, k, Len(@)), !.first_log_index = l]
    <2>1. ~(l <= c.first_log_index) /\ l - c.first_log_index + 1 = s + 1 /\ l = s + 1
        BY <1>1, <1>5
    <2> HIDE DEF l
    <2>2. d = e(l - c.first_log_index + 1)
        BY <2>1 DEF discard_entries_before, l
    <2>3. d = e(s + 1)
        BY <2>1, <2>2
    <2> QED BY <2>1, <2>3
<1>7. /\ DOMAIN d = NodeFields /\ d.snapshot = snap /\ d.log = SubSeq(a.log, s + 1, Len(a.log))
      /\ d.first_log_index = s + 1 /\ d.commit_index = a.commit_index
      /\ d.last_applied = a.last_applied /\ d.id = a.id /\ d.outbox = a.outbox
      /\ d.members = a.members /\ d.catching_up_servers = a.catching_up_servers
    <2> DEFINE l == SubSeq(c.log, s + 1, Len(c.log))
               f == s + 1
    <2>1. d = [c EXCEPT !.log = l, !.first_log_index = f]
        BY <1>6
    <2>2. l = SubSeq(a.log, s + 1, Len(a.log)) /\ f = s + 1
        BY <1>5
    <2> HIDE DEF d, l, f, s
    <2>3. /\ DOMAIN d = NodeFields /\ d.log = l /\ d.first_log_index = f
          /\ d.snapshot = c.snapshot /\ d.commit_index = c.commit_index
          /\ d.last_applied = c.last_applied /\ d.id = c.id /\ d.outbox = c.outbox
          /\ d.members = c.members /\ d.catching_up_servers = c.catching_up_servers
        BY <1>5, <2>1 DEF NodeFields
    <2> QED BY <1>5, <2>2, <2>3
<1>8. b = [d EXCEPT !.state_machine = m.data,
                    !.commit_index = Max({d.commit_index, s}),
                    !.last_applied = Max({d.last_applied, s})]
    BY DEF install, d, c, snap
<1> HIDE DEF d
<1>9. Max({a.commit_index, s}) = s /\ Max({a.last_applied, s}) = s
    <2>1. a.commit_index \in Int /\ s \in Int /\ a.last_applied \in Int
        BY <1>1, <1>2
    <2> QED BY <1>1, <2>1, MaxOfTwo
<1>10. /\ b.snapshot = snap /\ b.log = SubSeq(a.log, s + 1, Len(a.log))
       /\ b.first_log_index = s + 1 /\ b.commit_index = s
       /\ b.last_applied = s /\ b.id = a.id /\ b.outbox = a.outbox
       /\ b.state_machine = Applied(h, s)
       /\ b.members = a.members /\ b.catching_up_servers = a.catching_up_servers
    BY <1>1, <1>7, <1>8, <1>9 DEF NodeFields
<1> HIDE DEF b
<1>11. Compacted(a, b, h, s)
    <2>1. b.log = IF s <= End(a) THEN SubSeq(a.log, s - a.first_log_index + 2, Len(a.log))
                  ELSE <<>>
        <3>1. s - a.first_log_index + 2 = s + 1
            BY <1>1, <1>2
        <3>2. CASE s <= End(a)
            BY <1>10, <3>1, <3>2
        <3>3. CASE ~(s <= End(a))
            <4>1. s + 1 > Len(a.log) /\ s + 1 \in Int /\ s + 1 >= 1
                BY <1>1, <1>2, <3>3
            <4>2. SubSeq(a.log, s + 1, Len(a.log)) = <<>>
                BY <1>2, <4>1, SubSeqProperties
            <4> QED BY <1>10, <3>3, <4>2
        <3> QED BY <3>2, <3>3
    <2> QED BY <1>1, <1>3, <1>10, <2>1 DEF Compacted
<1>12. Tracks(b, h) /\ End(b) = IF End(a) >= s THEN End(a) ELSE s
    <2>1. s >= a.first_log_index /\ b.last_applied \in s..Len(h)
        BY <1>1, <1>2, <1>10
    <2> HIDE DEF s
    <2> QED BY <1>1, <1>4, <1>10, <1>11, <2>1, CompactedTracks
<1> QED BY <1>3, <1>4, <1>10, <1>12 DEF b

\* What handle_install_snapshot makes of a node.
LEMMA InstallParts ==
    ASSUME NEW a, NodeOK(a, Command), NEW from \in Node, NEW m \in SnapshotMsg
    PROVE  \E c : \E ok \in BOOLEAN :
               /\ NodeOK(c, Command)
               /\ Still(a, c)
               /\ ok => ~(a.snapshot # None
                          /\ m.last_included_index <= a.snapshot.last_included_index)
               /\ handle_install_snapshot(a, from, m) =
                      IF ok THEN send(install(c, m), from, InstallSnapshotResponse(c, TRUE))
                      ELSE send(c, from, InstallSnapshotResponse(c, FALSE))
<1> DEFINE r == reset_election_timer_if_valid_term(a, m.term)
           c == IF m.term > r.current_term
                THEN [r EXCEPT !.current_term = m.term, !.voted_for = None, !.role = Follower]
                ELSE IF r.role = Candidate THEN [r EXCEPT !.role = Follower]
                ELSE r
           b == handle_install_snapshot(a, from, m)
<1>1. m.term \in Nat
    BY DEF SnapshotMsg
<1>2. NodeOK(r, Command) /\ Still(a, r)
    <2>1. NodeOK(r, Command)
        BY <1>1, ResetIfValidType, Zenon
    <2>2. Still(a, r)
        BY UpdatesStill, Zenon
    <2> QED BY <2>1, <2>2
<1> HIDE DEF r
<1>3. NodeOK(c, Command)
    <2>1. NodeOK([r EXCEPT !.current_term = m.term, !.voted_for = None,
                           !.role = Follower], Command)
        BY <1>1, <1>2 DEF NodeOK, NodeFields, Optional
    <2>2. NodeOK([r EXCEPT !.role = Follower], Command)
        BY <1>2 DEF NodeOK, NodeFields
    <2> QED BY <1>2, <2>1, <2>2
<1>4. Still(a, c)
    <2> DEFINE u == [r EXCEPT !.current_term = m.term, !.voted_for = None, !.role = Follower]
               v == [r EXCEPT !.role = Follower]
    <2>1. Still(r, u) /\ Still(r, v)
        BY <1>2, UpdatesStill, Zenon
    <2>2. c = u \/ c = v \/ c = r
        OBVIOUS
    <2> HIDE DEF u, v, c
    <2> QED BY <1>2, <2>1, <2>2 DEF Still, Stays, SameHistory
<1>5. \/ b = send(r, from, InstallSnapshotResponse(r, FALSE))
      \/ b = send(c, from, InstallSnapshotResponse(c, FALSE))
      \/ /\ b = send(install(c, m), from, InstallSnapshotResponse(c, TRUE))
         /\ ~(c.snapshot # None /\ m.last_included_index <= c.snapshot.last_included_index)
    BY DEF handle_install_snapshot, replication_handle_install_snapshot, c, r
<1>6. c.snapshot = a.snapshot
    BY <1>4 DEF Still, Stays, SameHistory
<1> HIDE DEF c, b
<1> QED BY <1>2, <1>3, <1>4, <1>5, <1>6 DEF b

\* An InstallSnapshot of the leader, at the node it was sent to.
LEMMA InstallBecomes ==
    ASSUME NEW n, NodeOK(n, Command), NEW t, NEW h \in Histories, Keeps(n, h, n),
           NEW p, NEW a, NodeOK(a, Command), a.outbox = no_messages,
           Keeps(n, h, a), Knows(n, p, a),
           NEW m \in SnapshotMsg, Suits(n, h, t, p, a, m), NEW b,
           NodeOK(b, Command), b = handle_install_snapshot(a, n.id, m)
    PROVE  Becomes(n, h, t, p, a, b) /\ Refits(a, b, m) /\ b.id = a.id
<1> DEFINE s == n.snapshot.last_included_index
<1>1. m.type = "InstallSnapshot"
    BY DEF SnapshotMsg
<1>2. /\ n.snapshot # None
      /\ m.last_included_index = s
      /\ m.last_included_term = n.snapshot.last_included_term
      /\ m.data = n.snapshot.data
      /\ a.snapshot = None => a.commit_index <= s
    BY <1>1 DEF Suits, Replicates, SentBy, Fits
<1>3. /\ Tracks(a, h) /\ AsBuilt(a) /\ a.commit_index = a.last_applied
      /\ a.commit_index <= End(a) /\ a.commit_index <= n.commit_index
      /\ a.snapshot \in {None, n.snapshot}
      /\ Tracks(n, h) /\ n.commit_index = n.last_applied
    BY DEF Keeps
<1>4. n.id \in Node /\ n.commit_index \in Nat /\ s \in Nat /\ End(a) \in Int
    BY <1>2, EndType, HistoryTypes DEF NodeOK, Histories
<1> DEFINE P(c, ok) ==
               /\ NodeOK(c, Command)
               /\ Still(a, c)
               /\ ok => ~(a.snapshot # None
                          /\ m.last_included_index <= a.snapshot.last_included_index)
               /\ b = IF ok THEN send(install(c, m), n.id, InstallSnapshotResponse(c, TRUE))
                      ELSE send(c, n.id, InstallSnapshotResponse(c, FALSE))
<1>5. \E c : \E ok \in BOOLEAN : P(c, ok)
    BY <1>4, InstallParts
<1>6. PICK c : \E ok \in BOOLEAN : P(c, ok)
    BY <1>5
<1>7. PICK ok \in BOOLEAN : P(c, ok)
    BY <1>6
<1>8. SameHistory(a, c) /\ c.outbox = no_messages
    BY <1>7 DEF Still, Stays
<1>9. ASSUME NEW d, NodeOK(d, Command), d.outbox = no_messages, NEW v \in BOOLEAN,
             b = send(d, n.id, InstallSnapshotResponse(c, v))
      PROVE  /\ SameHistory(d, b)
             /\ \A q \in Node : \A k \in DOMAIN b.outbox[q] :
                    /\ ~Replicates(b.outbox[q][k])
                    /\ (v => b.snapshot # None) => Answers(b, t, b.outbox[q][k])
    <2> DEFINE r == InstallSnapshotResponse(c, v)
    <2>1. r \in RaftMsg(Command)
        BY <1>7 DEF InstallSnapshotResponse, NodeOK, RaftMsg
    <2>2. ~Replicates(r) /\ ((v => b.snapshot # None) => Answers(b, t, r))
        BY DEF InstallSnapshotResponse, Replicates, Answers
    <2> HIDE DEF r
    <2>3. SameHistory(d, b)
        BY <1>4, <1>9, <2>1, SentTo DEF Stays, r
    <2>4. Told(d, b, n.id, r)
        BY <1>9 DEF send, NodeOK, NodeFields, Told, r
    <2>5. \A q \in Node : \A k \in DOMAIN b.outbox[q] : b.outbox[q][k] = r
        BY <1>4, <1>9, <2>4, ToldOnly
    <2> QED BY <2>2, <2>3, <2>5
<1>10. CASE ~ok
    <2>1. SameHistory(c, b) /\ \A q \in Node : \A k \in DOMAIN b.outbox[q] :
              ~Replicates(b.outbox[q][k]) /\ Answers(b, t, b.outbox[q][k])
        BY <1>7, <1>8, <1>9, <1>10
    <2>2. SameHistory(a, b)
        BY <1>8, <2>1 DEF SameHistory
    <2>3. Keeps(n, h, b) /\ StillFits(a, b) /\ End(b) = End(a)
        BY <2>2, SameKeeps
    <2>4. Replies(a, b, n.id, t)
        BY <1>4, <2>1, <2>2, <2>3 DEF Replies, SameHistory
    <2>5. Awaits(n, p) => b.commit_index <= n.snapshot.last_included_index
        BY <2>2 DEF Knows, SameHistory
    <2> QED BY <2>2, <2>3, <2>4, <2>5 DEF Becomes, Refits, StillFits, SameHistory
<1>11. CASE ok
    <2> DEFINE d == install(c, m)
    <2>1. a.snapshot = None
        BY <1>2, <1>3, <1>4, <1>7, <1>11
    <2>2. /\ Tracks(c, h) /\ End(c) = End(a) /\ c.snapshot = None
          /\ c.commit_index = c.last_applied /\ c.commit_index <= s
        BY <1>2, <1>3, <1>8, <2>1, SameTracks DEF SameHistory
    <2>3. /\ NodeOK(d, Command)
          /\ Tracks(d, h)
          /\ d.snapshot = n.snapshot
          /\ End(d) = IF End(c) >= s THEN End(c) ELSE s
          /\ d.first_log_index = s + 1
          /\ d.commit_index = s /\ d.last_applied = s
          /\ d.id = c.id
          /\ d.outbox = c.outbox
          /\ d.members = c.members
          /\ d.catching_up_servers = c.catching_up_servers
        BY <1>2, <1>3, <1>7, <2>2, InstallTracks
    <2> HIDE DEF d
    <2>4. b = send(d, n.id, InstallSnapshotResponse(c, TRUE)) /\ d.outbox = no_messages
        BY <1>7, <1>8, <1>11, <2>3 DEF d
    <2>5. SameHistory(d, b)
        BY <1>9, <2>3, <2>4
    <2>6. End(b) = End(d) /\ Tracks(b, h)
        BY <2>3, <2>5, SameTracks
    <2>7. /\ b.snapshot = n.snapshot /\ b.first_log_index = s + 1
          /\ b.commit_index = s /\ b.last_applied = s /\ b.id = a.id
          /\ b.members = a.members /\ b.catching_up_servers = a.catching_up_servers
        BY <1>8, <2>3, <2>5 DEF SameHistory
    <2>8. End(b) = IF End(a) >= s THEN End(a) ELSE s
        BY <2>2, <2>3, <2>6
    <2>9. End(a) <= End(b) /\ s <= End(b)
        BY <1>4, <2>8
    <2>10. s <= n.commit_index
        <3>1. n.first_log_index = s + 1 /\ n.last_applied \in (n.first_log_index - 1)..Len(h)
            BY <1>2, <1>3 DEF Tracks
        <3>2. Len(h) \in Nat
            BY HistoryTypes DEF Histories
        <3> QED BY <1>3, <1>4, <3>1, <3>2
    <2>11. Keeps(n, h, b)
        BY <1>3, <2>6, <2>7, <2>9, <2>10 DEF Keeps, AsBuilt
    <2>12. \A q \in Node : \A k \in DOMAIN b.outbox[q] :
              ~Replicates(b.outbox[q][k]) /\ Answers(b, t, b.outbox[q][k])
        BY <1>2, <1>9, <2>3, <2>4, <2>7
    <2>13. Replies(a, b, n.id, t)
        BY <1>2, <1>4, <2>7, <2>9, <2>12 DEF Replies
    <2>14. b.commit_index <= s
        BY <1>4, <2>7
    <2>15. Refits(a, b, m)
        <3> SUFFICES ASSUME NEW l \in RaftMsg(Command), Replicates(l), Fits(a, l), Earlier(m, l)
                     PROVE  Fits(b, l)
            BY DEF Refits
        <3>1. ASSUME l.type = "AppendEntries"
              PROVE  /\ l.prev_log_index \in (b.first_log_index - 1)..End(b)
                     /\ End(b) <= UpTo(l)
            <4>1. l.prev_log_index \in (a.first_log_index - 1)..End(a) /\ End(a) <= UpTo(l)
                BY <3>1 DEF Fits
            <4>2. s <= l.prev_log_index /\ s <= UpTo(l)
                BY <1>1, <1>2, <3>1 DEF Earlier, Replicates, UpTo
            <4>3. UpTo(l) \in Nat /\ l.prev_log_index \in Nat /\ a.first_log_index \in Nat
                BY <3>1, MessageTypes DEF NodeOK
            <4>4. b.first_log_index - 1 = s
                BY <1>4, <2>7
            <4>5. End(b) \in Int /\ l.prev_log_index <= End(b) /\ End(b) <= UpTo(l)
                BY <1>4, <2>8, <4>1, <4>2, <4>3
            <4> QED BY <1>4, <4>2, <4>3, <4>4, <4>5
        <3> QED BY <1>2, <2>7, <3>1 DEF Fits
    <2> QED BY <2>7, <2>11, <2>13, <2>14, <2>15 DEF Becomes
<1> QED BY <1>10, <1>11

-----------------------------------------------------------------------------
(* Every step of a node that does not lead                                 *)

\* A message, at a node that does not lead and does not come to lead.
LEMMA PeerHandles ==
    ASSUME CommandsOnly, NEW x \in Node, NEW t \in Nat, NEW h \in Histories,
           Accounted(x, t, h), NEW p \in Node \ {x}, channel[p] # <<>>,
           node[p].outbox = no_messages, node[p].role # Leader, NEW b,
           NodeOK(b, Command), b.role # Leader,
           b = handle_message(node[p], Head(channel[p]).from, Head(channel[p]).message)
    PROVE  /\ Becomes(node[x], h, t, p, node[p], b)
           /\ b.id = p
           /\ \/ StillFits(node[p], b)
              \/ Refits(node[p], b, Head(channel[p]).message)
<1> DEFINE n == node[x]
           a == node[p]
           from == Head(channel[p]).from
           m == Head(channel[p]).message
<1>1. /\ NodeOK(n, Command) /\ n.id = x /\ NodeOK(a, Command) /\ a.id = p
      /\ Keeps(n, h, n) /\ Keeps(n, h, a) /\ Knows(n, p, a)
      /\ \A k \in DOMAIN h : h[k].term = t
    BY DEF CommandsOnly, Accounted, Leads
<1>2. /\ from \in Node /\ m \in RaftMsg(Command) /\ 1 \in DOMAIN channel[p]
      /\ from = channel[p][1].from /\ m = channel[p][1].message
    BY HeadOfQueue
<1>3. Suits(n, h, t, p, a, m)
    BY <1>2 DEF Accounted, LineFits
<1>4. Replicates(m) => from = x
    BY <1>2 DEF Accounted, OthersAreSilent
<1>5. b = handle_message(a, from, m) /\ a.outbox = no_messages /\ a.role # Leader
    OBVIOUS
<1> HIDE DEF n, a, from, m
<1>6. Plainly(a) /\ m.term \in Nat
    BY <1>2, <1>5, NoMessagesPlainly DEF RaftMsg
<1>7. ASSUME Voting(a, b)
      PROVE  Becomes(n, h, t, p, a, b) /\ b.id = p /\ StillFits(a, b)
    BY <1>1, <1>7, VotingBecomes DEF Voting, SameHistory
<1>8. CASE m.type = "PreVoteRequest"
    <2>1. Voting(a, handle_pre_vote_request(a, from, m))
        BY <1>1, <1>2, <1>6, VoteRequestVoting, Zenon
    <2>2. b = handle_pre_vote_request(a, from, m)
        BY <1>5, <1>8 DEF handle_message
    <2> QED BY <1>7, <2>1, <2>2 DEF n, a
<1>9. CASE m.type = "PreVoteResponse"
    <2>1. Voting(a, handle_pre_vote_response(a, from, m))
        BY <1>1, <1>2, <1>6, VoteResponseVoting, Zenon
    <2>2. b = handle_pre_vote_response(a, from, m)
        BY <1>5, <1>9 DEF handle_message
    <2> QED BY <1>7, <2>1, <2>2 DEF n, a
<1>10. CASE m.type = "RequestVote"
    <2>1. Voting(a, handle_vote_request(a, from, m))
        BY <1>1, <1>2, <1>6, VoteRequestVoting, Zenon
    <2>2. b = handle_vote_request(a, from, m)
        BY <1>5, <1>10 DEF handle_message
    <2> QED BY <1>7, <2>1, <2>2 DEF n, a
<1>11. CASE m.type = "RequestVoteResponse"
    <2>1. Voting(a, handle_vote_response(a, from, m))
        BY <1>1, <1>2, <1>6, VoteResponseVoting, Zenon
    <2>2. b = handle_vote_response(a, from, m)
        BY <1>5, <1>11 DEF handle_message
    <2> QED BY <1>7, <2>1, <2>2 DEF n, a
<1>12. CASE m.type = "AppendEntries"
    <2>1. b = handle_append_entries(a, n.id, m)
        BY <1>1, <1>4, <1>5, <1>12 DEF handle_message, Replicates
    <2>2. m \in AppendEntriesMsg(Command)
        BY <1>2, <1>12, MessageTypes
    <2>3. Becomes(n, h, t, p, a, b) /\ Refits(a, b, m) /\ b.id = a.id
        BY <1>1, <1>3, <1>5, <2>1, <2>2, AppendBecomes
    <2> QED BY <1>1, <2>3 DEF n, a, m
<1>13. CASE m.type = "InstallSnapshot"
    <2>1. b = handle_install_snapshot(a, n.id, m)
        BY <1>1, <1>4, <1>5, <1>13 DEF handle_message, Replicates
    <2>2. m \in SnapshotMsg
        BY <1>2, <1>13, MessageTypes
    <2>3. Becomes(n, h, t, p, a, b) /\ Refits(a, b, m) /\ b.id = a.id
        BY <1>1, <1>3, <1>5, <2>1, <2>2, InstallBecomes
    <2> QED BY <1>1, <2>3 DEF n, a, m
<1>14. CASE m.type \in {"AppendEntriesResponse", "InstallSnapshotResponse"}
    <2>1. b \in {handle_append_entries_response(a, from, m),
                 handle_install_snapshot_response(a, from, m)}
        BY <1>5, <1>14 DEF handle_message
    <2>2. Still(a, b)
        BY <1>1, <1>5, <2>1, AnswerStill
    <2>3. SameHistory(a, b) /\ Plainly(b) /\ b.id = a.id
        BY <1>5, <2>2, NoMessagesPlainly DEF Still, Stays, SameHistory
    <2>4. Becomes(n, h, t, p, a, b) /\ StillFits(a, b)
        BY <1>1, <2>3, IdleBecomes
    <2> QED BY <1>1, <2>3, <2>4 DEF n, a
<1>15. m.type \in {"PreVoteRequest", "RequestVote", "PreVoteResponse",
                   "RequestVoteResponse", "AppendEntries", "AppendEntriesResponse",
                   "InstallSnapshot", "InstallSnapshotResponse"}
    BY <1>2 DEF RaftMsg
<1> QED BY <1>8, <1>9, <1>10, <1>11, <1>12, <1>13, <1>14, <1>15

\* Everything is accounted for after any event of another node than x.
LEMMA PeerEvents ==
    ASSUME CommandsOnly, NEW x \in Node, NEW t \in Nat, NEW h \in Histories,
           Accounted(x, t, h), OnlyLeaderIn(x, t), OnlyLeaderIn(x, t)',
           NEW p \in Node \ {x},
           \/ Receive(p) \/ ElectionTimer(p) \/ HeartbeatTimer(p)
           \/ \E c \in Command : ClientCommand(p, c)
    PROVE  CommandsOnly' /\ Accounted(x, t, h)' /\ Growing
<1>1. node[p].role # Leader /\ node'[p].role # Leader
    BY DEF OnlyLeaderIn
<1>2. /\ NodeOK(node[p], Command) /\ node[p].id = p /\ Keeps(node[x], h, node[p])
      /\ Knows(node[x], p, node[p]) /\ NodeOK(node[x], Command) /\ p \in DOMAIN node
    BY DEF CommandsOnly, Accounted
<1>3. CASE Receive(p)
    <2> DEFINE b == handle_message(node[p], Head(channel[p]).from, Head(channel[p]).message)
    <2>1. channel[p] # <<>> /\ node[p].outbox = no_messages /\ Takes(p, b, 1)
        BY <1>3 DEF Receive, Step, Takes
    <2>2. NodeOK(b, Command)
        BY <2>1, EventTypes
    <2>3. node'[p] = b
        BY <1>2, <1>3 DEF Receive, Step
    <2> HIDE DEF b
    <2>4. /\ Becomes(node[x], h, t, p, node[p], b)
          /\ b.id = p
          /\ \/ StillFits(node[p], b)
             \/ Refits(node[p], b, Head(channel[p]).message)
        BY <1>1, <2>1, <2>2, <2>3, PeerHandles DEF b
    <2> QED BY <2>1, <2>2, <2>4, PeerTakes
<1>4. CASE ElectionTimer(p)
    <2> DEFINE b == handle_election_timer(node[p])
    <2>1. node[p].outbox = no_messages /\ Takes(p, b, 0) /\ node'[p] = b
        BY <1>2, <1>4 DEF ElectionTimer, Step, Takes
    <2>2. NodeOK(b, Command)
        BY <1>2, ElectionTimerType, Zenon
    <2>3. Voting(node[p], b)
        <3>1. Plainly(node[p])
            BY <2>1, NoMessagesPlainly
        <3> QED BY <1>2, <3>1, ElectionTimerVoting, Zenon
    <2> HIDE DEF b
    <2>4. Becomes(node[x], h, t, p, node[p], b) /\ StillFits(node[p], b) /\ b.id = p
        BY <1>1, <1>2, <2>1, <2>2, <2>3, VotingBecomes DEF Voting, SameHistory
    <2> QED BY <2>1, <2>2, <2>4, PeerTakes
<1>5. CASE HeartbeatTimer(p)
    BY <1>1, <1>5 DEF HeartbeatTimer
<1>6. CASE \E c \in Command : ClientCommand(p, c)
    BY <1>1, <1>6 DEF ClientCommand
<1> QED BY <1>3, <1>4, <1>5, <1>6

-----------------------------------------------------------------------------
(* Sending                                                                 *)

\* The sequences after the head of one was moved to the end of the other.
LEMMA Moved ==
    ASSUME NEW S, NEW queue \in Seq(S), NEW e \in S
    PROVE  /\ Append(queue, e) \in Seq(S)
           /\ \A k \in DOMAIN Append(queue, e) :
                  \/ k \in DOMAIN queue /\ Append(queue, e)[k] = queue[k]
                  \/ k = Len(queue) + 1 /\ Append(queue, e)[k] = e
           /\ Len(queue) \in Nat /\ \A k \in DOMAIN queue : k \in Nat /\ k <= Len(queue)
OBVIOUS

\* What waits keeps its place when the first of it is sent.
LEMMA InOrderMove ==
    ASSUME NEW S, NEW queue \in Seq(S), NEW M, NEW waiting \in Seq(M), waiting # <<>>,
           InOrder(queue, waiting), NEW e \in S, e.message = Head(waiting)
    PROVE  InOrder(Append(queue, e), Tail(waiting))
<1> DEFINE q == Append(queue, e)
           w == Tail(waiting)
<1>1. /\ \A k \in DOMAIN q : \/ k \in DOMAIN queue /\ q[k] = queue[k]
                             \/ k = Len(queue) + 1 /\ q[k] = e
      /\ Len(queue) \in Nat /\ \A k \in DOMAIN queue : k \in Nat /\ k <= Len(queue)
    BY Moved
<1>2. /\ \A k \in DOMAIN w : k \in Nat \ {0} /\ k + 1 \in DOMAIN waiting /\ w[k] = waiting[k + 1]
      /\ 1 \in DOMAIN waiting /\ Head(waiting) = waiting[1]
    OBVIOUS
<1> HIDE DEF q, w
<1>3. ASSUME NEW k \in DOMAIN q, NEW l \in DOMAIN q, k < l
      PROVE  Earlier(q[k].message, q[l].message)
    <2>1. k \in DOMAIN queue /\ q[k] = queue[k]
        BY <1>1, <1>3
    <2>2. CASE l \in DOMAIN queue /\ q[l] = queue[l]
        BY <1>3, <2>1, <2>2 DEF InOrder
    <2>3. CASE q[l] = e
        BY <1>2, <2>1, <2>3 DEF InOrder
    <2> QED BY <1>1, <2>2, <2>3
<1>4. ASSUME NEW k \in DOMAIN q, NEW l \in DOMAIN w
      PROVE  Earlier(q[k].message, w[l])
    <2>1. l + 1 \in DOMAIN waiting /\ w[l] = waiting[l + 1] /\ 1 < l + 1
        BY <1>2
    <2>2. CASE k \in DOMAIN queue /\ q[k] = queue[k]
        BY <2>1, <2>2 DEF InOrder
    <2>3. CASE q[k] = e
        BY <1>2, <2>1, <2>3 DEF InOrder
    <2> QED BY <1>1, <2>2, <2>3
<1>5. ASSUME NEW k \in DOMAIN w, NEW l \in DOMAIN w, k < l
      PROVE  Earlier(w[k], w[l])
    <2>1. /\ l + 1 \in DOMAIN waiting /\ w[l] = waiting[l + 1]
          /\ k + 1 \in DOMAIN waiting /\ w[k] = waiting[k + 1]
          /\ k + 1 < l + 1
        BY <1>2, <1>5
    <2> QED BY <2>1 DEF InOrder
<1>6. InOrder(q, w)
    BY <1>3, <1>4, <1>5 DEF InOrder
<1> QED BY <1>6 DEF q, w

\* A message that replicates no log is always in order.
LEMMA InOrderOther ==
    ASSUME NEW S, NEW queue \in Seq(S), NEW waiting,
           InOrder(queue, waiting), NEW e \in S, ~Replicates(e.message)
    PROVE  InOrder(Append(queue, e), waiting)
<1> DEFINE q == Append(queue, e)
<1>1. \A k \in DOMAIN q : \/ k \in DOMAIN queue /\ q[k] = queue[k]
                          \/ q[k] = e
    BY Moved
<1> HIDE DEF q
<1>2. \A m : Earlier(e.message, m) /\ Earlier(m, e.message)
    BY DEF Earlier
<1>3. ASSUME NEW k \in DOMAIN q, NEW l \in DOMAIN q, k < l
      PROVE  Earlier(q[k].message, q[l].message)
    BY <1>1, <1>2, <1>3 DEF InOrder
<1>4. ASSUME NEW k \in DOMAIN q, NEW l \in DOMAIN waiting
      PROVE  Earlier(q[k].message, waiting[l])
    BY <1>1, <1>2 DEF InOrder
<1>5. InOrder(q, waiting)
    BY <1>3, <1>4 DEF InOrder
<1> QED BY <1>5 DEF q

\* The node b is a but for its outbox and its timers.
Same(a, b) == Stays(a, b) /\ b.role = a.role /\ b.current_term = a.current_term

\* Nothing that is known of a node depends on its outbox.
LEMMA SameAccount ==
    ASSUME NEW n, NEW o, Same(n, o), NEW a, NEW b, Same(a, b), NEW h, NEW t, NEW p
    PROVE  /\ Leads(n, h, t) => Leads(o, h, t)
           /\ Keeps(n, h, a) => Keeps(o, h, b)
           /\ Knows(n, p, a) => Knows(o, p, b)
           /\ \A m : Suits(n, h, t, p, a, m) => Suits(o, h, t, p, b, m)
           /\ \A m : Answers(a, t, m) => Answers(b, t, m)
           /\ End(b) = End(a)
<1>1. SameHistory(n, o) /\ SameHistory(a, b) /\ End(o) = End(n) /\ End(b) = End(a)
      /\ (Tracks(a, h) <=> Tracks(b, h))
    BY SameTracks DEF Same, Stays
<1>2. o.next_index = n.next_index /\ o.match_index = n.match_index
      /\ o.snapshot = n.snapshot /\ o.commit_index = n.commit_index
      /\ o.role = n.role /\ o.current_term = n.current_term
    BY DEF Same, Stays, SameHistory
<1>3. /\ b.snapshot = a.snapshot /\ b.commit_index = a.commit_index
      /\ b.last_applied = a.last_applied /\ b.first_log_index = a.first_log_index
      /\ b.members = a.members /\ b.id = a.id
      /\ b.catching_up_servers = a.catching_up_servers
    BY DEF Same, Stays, SameHistory
<1>4. Leads(n, h, t) => Leads(o, h, t)
    BY <1>1, <1>2 DEF Leads
<1>5. Keeps(n, h, a) => Keeps(o, h, b)
    BY <1>1, <1>2, <1>3 DEF Keeps, AsBuilt
<1>6. Knows(n, p, a) => Knows(o, p, b)
    BY <1>1, <1>2, <1>3 DEF Knows, Awaits
<1>7. \A m : SentBy(n, h, t, m) => SentBy(o, h, t, m)
    BY <1>2 DEF SentBy
<1>8. \A m : Fits(a, m) => Fits(b, m)
    BY <1>1, <1>3 DEF Fits
<1>9. \A m : Suits(n, h, t, p, a, m) => Suits(o, h, t, p, b, m)
    BY <1>2, <1>7, <1>8 DEF Suits, Awaits
<1>10. \A m : Answers(a, t, m) => Answers(b, t, m)
    BY <1>1, <1>3 DEF Answers
<1> QED BY <1>1, <1>4, <1>5, <1>6, <1>9, <1>10

\* What Send changes: the outbox of the sender and the queue of the receiver.
LEMMA SendParts ==
    ASSUME CommandsOnly, NEW i \in Node, NEW j \in Node, Send(i, j)
    PROVE  LET e == [from |-> i, message |-> Head(node[i].outbox[j])]
           IN  /\ CommandsOnly'
               /\ \A q \in Node : Same(node[q], node'[q])
               /\ \A p, q \in Node : node'[p].outbox[q] =
                      IF p = i /\ q = j THEN Tail(node[i].outbox[j]) ELSE node[p].outbox[q]
               /\ \A q \in Node : channel'[q] =
                      IF q = j THEN Append(channel[j], e) ELSE channel[q]
               /\ node[i].outbox[j] # <<>>
               /\ node[i].outbox[j] \in Seq(RaftMsg(Command))
               /\ e \in [from : Node, message : RaftMsg(Command)]
<1> DEFINE a == node[i]
           out == [a.outbox EXCEPT ![j] = Tail(a.outbox[j])]
           b == [a EXCEPT !.outbox = out]
           e == [from |-> i, message |-> Head(a.outbox[j])]
           S == [from : Node, message : RaftMsg(Command)]
<1>1. NodeOK(a, Command) /\ DOMAIN a = NodeFields /\ a.id = i
      /\ a.outbox \in [Node -> Seq(RaftMsg(Command))]
      /\ a.outbox[j] # <<>> /\ channel[j] \in Seq(S)
    BY DEF CommandsOnly, NodeOK, Send
<1>2. /\ node' = [node EXCEPT ![i] = b]
      /\ channel' = [channel EXCEPT ![j] = Append(channel[j], e)]
    BY DEF Send
<1>3. e \in S /\ Head(a.outbox[j]) \in RaftMsg(Command)
    <2>1. a.outbox[j] \in Seq(RaftMsg(Command)) /\ a.outbox[j] # <<>>
        BY <1>1
    <2>2. Head(a.outbox[j]) \in RaftMsg(Command)
        BY <2>1
    <2> QED BY <2>2
<1>4. out \in [Node -> Seq(RaftMsg(Command))]
    BY <1>1
<1>5. NodeOK(b, Command) /\ b.id = i /\ b.outbox = out /\ Same(a, b)
    <2> HIDE DEF out, a
    <2> QED BY <1>1, <1>4 DEF NodeOK, NodeFields, Same, Stays, SameHistory
<1> HIDE DEF b, e, S
<1>6. DOMAIN node' = Node /\ \A q \in Node : node'[q] = IF q = i THEN b ELSE node[q]
    BY <1>2 DEF CommandsOnly
<1>7. /\ DOMAIN channel' = Node
      /\ \A q \in Node : channel'[q] = IF q = j THEN Append(channel[j], e) ELSE channel[q]
    BY <1>2 DEF CommandsOnly
<1>8. Append(channel[j], e) \in Seq(S)
    BY <1>1, <1>3
<1>9. \A q \in Node : channel'[q] \in Seq(S)
    BY <1>7, <1>8 DEF CommandsOnly, S
<1>10. \A q \in Node : NodeOK(node'[q], Command) /\ node'[q].id = q
    BY <1>5, <1>6 DEF CommandsOnly
<1>11. CommandsOnly'
    BY <1>6, <1>7, <1>9, <1>10 DEF CommandsOnly, S
<1>12. \A q \in Node : Same(node[q], node'[q])
    BY <1>5, <1>6 DEF Same, Stays, SameHistory
<1>13. \A p, q \in Node : node'[p].outbox[q] =
                      IF p = i /\ q = j THEN Tail(node[i].outbox[j]) ELSE node[p].outbox[q]
    <2>1. \A q \in Node : out[q] = IF q = j THEN Tail(a.outbox[j]) ELSE a.outbox[q]
        BY <1>1
    <2> HIDE DEF out
    <2>2. ASSUME NEW p \in Node, NEW q \in Node
          PROVE  node'[p].outbox[q] =
                     IF p = i /\ q = j THEN Tail(node[i].outbox[j]) ELSE node[p].outbox[q]
        <3>1. CASE p = i
            <4>1. node'[p] = b
                BY <1>6, <3>1
            <4>2. node'[p].outbox[q] = out[q]
                BY <1>5, <4>1
            <4> QED BY <2>1, <3>1, <4>2
        <3>2. CASE p # i
            BY <1>6, <3>2
        <3> QED BY <3>1, <3>2
    <2> QED BY <2>2
<1>14. node[i].outbox[j] # <<>> /\ node[i].outbox[j] \in Seq(RaftMsg(Command))
    BY <1>1
<1> QED BY <1>3, <1>7, <1>11, <1>12, <1>13, <1>14 DEF e, S

\* Everything is accounted for when a message was sent.
LEMMA SendAccounted ==
    ASSUME CommandsOnly, NEW x \in Node, NEW t, NEW h, Accounted(x, t, h),
           NEW i \in Node, NEW j \in Node, Send(i, j)
    PROVE  CommandsOnly' /\ Accounted(x, t, h)' /\ Growing
<1> DEFINE S == [from : Node, message : RaftMsg(Command)]
           e == [from |-> i, message |-> Head(node[i].outbox[j])]
           out == node[i].outbox[j]
<1>1. /\ CommandsOnly'
      /\ \A q \in Node : Same(node[q], node'[q])
      /\ \A p, q \in Node : node'[p].outbox[q] =
             IF p = i /\ q = j THEN Tail(out) ELSE node[p].outbox[q]
      /\ \A q \in Node : channel'[q] = IF q = j THEN Append(channel[j], e) ELSE channel[q]
      /\ out # <<>> /\ out \in Seq(RaftMsg(Command))
      /\ e \in S
    BY SendParts
<1>2. /\ 1 \in DOMAIN out /\ e.message = out[1] /\ e.from = i /\ e.message = Head(out)
      /\ \A k \in DOMAIN Tail(out) : k + 1 \in DOMAIN out /\ Tail(out)[k] = out[k + 1]
    <2>1. out # <<>> /\ out \in Seq(RaftMsg(Command))
        BY <1>1
    <2>2. e.message = Head(out) /\ e.from = i
        OBVIOUS
    <2> HIDE DEF out, e
    <2> QED BY <2>1, <2>2
<1>3. \A q \in Node : channel[q] \in Seq(S)
    BY DEF CommandsOnly
<1> HIDE DEF e, S
<1>4. ASSUME NEW q \in Node, NEW k \in DOMAIN channel'[q]
      PROVE  \/ k \in DOMAIN channel[q] /\ channel'[q][k] = channel[q][k]
             \/ q = j /\ channel'[q][k] = e
    <2>1. CASE q = j
        <3>1. channel'[q] = Append(channel[q], e) /\ channel[q] \in Seq(S) /\ e \in S
            BY <1>1, <1>3, <2>1
        <3> QED BY <1>4, <2>1, <3>1, Moved
    <2>2. CASE q # j
        BY <1>1, <1>4, <2>2
    <2> QED BY <2>1, <2>2
<1>5. ASSUME NEW p \in Node, NEW q \in Node, NEW k \in DOMAIN node'[p].outbox[q]
      PROVE  \E l \in DOMAIN node[p].outbox[q] :
                 node'[p].outbox[q][k] = node[p].outbox[q][l]
    <2>1. CASE p = i /\ q = j
        <3>1. node'[p].outbox[q] = Tail(out) /\ node[p].outbox[q] = out
            BY <1>1, <2>1
        <3>2. k \in DOMAIN Tail(out)
            BY <1>5, <3>1
        <3>3. k + 1 \in DOMAIN out /\ Tail(out)[k] = out[k + 1]
            BY <1>2, <3>2
        <3> QED BY <3>1, <3>3
    <2>2. CASE ~(p = i /\ q = j)
        BY <1>1, <1>5, <2>2
    <2> QED BY <2>1, <2>2
<1>6. Leads(node'[x], h, t)
    BY <1>1, SameAccount DEF Accounted
<1>7. \A q \in Node : Keeps(node'[x], h, node'[q])
    BY <1>1, SameAccount DEF Accounted
<1>8. \A p \in Node \ {x} : Knows(node'[x], p, node'[p])
    BY <1>1, SameAccount DEF Accounted
<1>9. ASSUME NEW p \in Node \ {x}
      PROVE  LineFits(x, t, h, p)'
    <2>1. \A m : Suits(node[x], h, t, p, node[p], m) => Suits(node'[x], h, t, p, node'[p], m)
        BY <1>1, SameAccount
    <2>2. LineFits(x, t, h, p) /\ OthersAreSilent(x)
        BY DEF Accounted
    <2>3. /\ \A k \in DOMAIN channel[p] : Suits(node[x], h, t, p, node[p], channel[p][k].message)
          /\ \A k \in DOMAIN node[x].outbox[p] :
                 Suits(node[x], h, t, p, node[p], node[x].outbox[p][k])
          /\ InOrder(channel[p], node[x].outbox[p])
        BY <2>2 DEF LineFits
    <2>4. i # x => ~Replicates(e.message)
        BY <1>2, <2>2 DEF OthersAreSilent
    <2>5. j = p => Suits(node[x], h, t, p, node[p], e.message)
        <3>1. CASE i = x
            BY <1>2, <2>3, <3>1
        <3>2. CASE i # x
            BY <2>4, <3>2 DEF Suits
        <3> QED BY <3>1, <3>2
    <2>6. ASSUME NEW k \in DOMAIN channel'[p]
          PROVE  Suits(node'[x], h, t, p, node'[p], channel'[p][k].message)
        BY <1>4, <2>1, <2>3, <2>5
    <2>7. ASSUME NEW k \in DOMAIN node'[x].outbox[p]
          PROVE  Suits(node'[x], h, t, p, node'[p], node'[x].outbox[p][k])
        BY <1>5, <2>1, <2>3
    <2>8. InOrder(channel'[p], node'[x].outbox[p])
        <3>1. CASE j = p /\ i = x
            <4>1. channel'[p] = Append(channel[p], e) /\ node'[x].outbox[p] = Tail(out)
                BY <1>1, <3>1
            <4>2. InOrder(channel[p], out)
                BY <2>3, <3>1
            <4>3. channel[p] \in Seq(S) /\ e \in S /\ out \in Seq(RaftMsg(Command)) /\ out # <<>>
                BY <1>1, <1>3
            <4> HIDE DEF out
            <4>4. InOrder(Append(channel[p], e), Tail(out))
                BY <1>2, <4>2, <4>3, InOrderMove
            <4> QED BY <4>1, <4>4
        <3>2. CASE j = p /\ i # x
            <4>1. channel'[p] = Append(channel[p], e) /\ node'[x].outbox[p] = node[x].outbox[p]
                BY <1>1, <3>2
            <4>2. channel[p] \in Seq(S) /\ e \in S /\ ~Replicates(e.message)
                BY <1>1, <1>3, <2>4, <3>2
            <4>3. InOrder(Append(channel[p], e), node[x].outbox[p])
                BY <2>3, <4>2, InOrderOther
            <4> QED BY <4>1, <4>3
        <3>3. CASE j # p
            BY <1>1, <2>3, <3>3
        <3> QED BY <3>1, <3>2, <3>3
    <2> QED BY <2>6, <2>7, <2>8 DEF LineFits
<1>10. OthersAreSilent(x)'
    <2>1. OthersAreSilent(x)
        BY DEF Accounted
    <2>2. Replicates(e.message) => i = x /\ j # x
        BY <1>2, <2>1 DEF OthersAreSilent
    <2>3. ASSUME NEW q \in Node, NEW k \in DOMAIN channel'[q], Replicates(channel'[q][k].message)
          PROVE  channel'[q][k].from = x /\ q # x
        BY <1>2, <1>4, <2>1, <2>2, <2>3 DEF OthersAreSilent
    <2>4. ASSUME NEW p \in Node, NEW q \in Node, NEW k \in DOMAIN node'[p].outbox[q],
                 Replicates(node'[p].outbox[q][k])
          PROVE  p = x /\ q # x
        BY <1>5, <2>1, <2>4 DEF OthersAreSilent
    <2> QED BY <2>3, <2>4 DEF OthersAreSilent
<1>11. AnswersFit(x, t)'
    <2>1. AnswersFit(x, t)
        BY DEF Accounted
    <2>2. \A q \in Node : \A m : Answers(node[q], t, m) => Answers(node'[q], t, m)
        BY <1>1, SameAccount
    <2>3. j = x => Answers(node[i], t, e.message)
        BY <1>2, <2>1 DEF AnswersFit
    <2>4. ASSUME NEW k \in DOMAIN channel'[x]
          PROVE  Answers(node'[channel'[x][k].from], t, channel'[x][k].message)
        <3>1. CASE k \in DOMAIN channel[x] /\ channel'[x][k] = channel[x][k]
            <4>1. channel[x][k].from \in Node
                BY <3>1, InQueue
            <4> QED BY <2>1, <2>2, <3>1, <4>1 DEF AnswersFit
        <3>2. CASE x = j /\ channel'[x][k] = e
            BY <1>2, <2>2, <2>3, <3>2
        <3> QED BY <1>4, <2>4, <3>1, <3>2
    <2>5. ASSUME NEW q \in Node, NEW k \in DOMAIN node'[q].outbox[x]
          PROVE  Answers(node'[q], t, node'[q].outbox[x][k])
        BY <1>5, <2>1, <2>2 DEF AnswersFit
    <2> QED BY <2>4, <2>5 DEF AnswersFit
<1>12. Stored(x)'
    <2>1. \A q \in Node : End(node'[q]) = End(node[q])
        BY <1>1, SameAccount
    <2>2. node'[x].members = node[x].members /\ node'[x].commit_index = node[x].commit_index
        BY <1>1 DEF Same, Stays, SameHistory
    <2>3. Stored(x)
        BY DEF Accounted
    <2> QED BY <2>1, <2>2, <2>3 DEF Stored
<1>13. Growing
    <2>1. \A q \in Node : End(node'[q]) = End(node[q])
        BY <1>1, SameAccount
    <2>2. \A q \in Node : End(node[q]) \in Int
        BY EndType DEF CommandsOnly
    <2> QED BY <2>1, <2>2 DEF Growing
<1> QED BY <1>1, <1>6, <1>7, <1>8, <1>9, <1>10, <1>11, <1>12, <1>13 DEF Accounted

-----------------------------------------------------------------------------
(* A step of the node that leads                                           *)

\* The leader, with log h, goes from a to b and has then log g.
Onward(a, h, t, b, g) ==
    /\ g \in Histories
    /\ Len(h) <= Len(g)
    /\ \A k \in DOMAIN h : k \in DOMAIN g /\ g[k] = h[k]
    /\ Leads(b, g, t)
    /\ Keeps(b, g, b)
    /\ a.commit_index <= b.commit_index
    /\ a.snapshot # None => b.snapshot = a.snapshot
    /\ a.snapshot = None /\ b.snapshot # None =>
           b.snapshot.last_included_index = b.commit_index
    /\ Spoken(b)
    /\ Plainly(b) \/ b.current_term = t

\* What it then knows of its peer p, which is in state q.
Informed(a, b, p, q) ==
    /\ get(b.next_index, p, 1) = get(b.match_index, p, 0) + 1
    /\ get(b.match_index, p, 0) <= End(q)
    /\ a.snapshot # None /\ Awaits(b, p) => Awaits(a, p)

\* The index up to which n can count on p.
Reached(n, p) == IF p = n.id THEN End(n) ELSE get(n.match_index, p, 0)

\* A leader counts on a majority for what it has committed.
Counted(n) ==
    has_quorum(n.members, len([p \in Node |-> IF Reached(n, p) >= n.commit_index
                                              THEN n.members[p] ELSE 0]))

\* What the leader knows of a peer stays right.
LEMMA KnowsOnward ==
    ASSUME NEW a, NodeOK(a, Command), NEW h, NEW t, NEW b, NodeOK(b, Command), NEW g,
           Onward(a, h, t, b, g), NEW p, NEW q, NodeOK(q, Command), Knows(a, p, q),
           Keeps(a, h, q), h \in Histories, Informed(a, b, p, q)
    PROVE  Knows(b, p, q) /\ Keeps(b, g, q)
<1>1. /\ a.commit_index \in Nat /\ b.commit_index \in Nat /\ q.commit_index \in Nat
    BY DEF NodeOK
<1>2. a.commit_index <= b.commit_index /\ q.commit_index <= a.commit_index
      /\ q.snapshot \in {None, a.snapshot} /\ AsBuilt(q) /\ Tracks(q, h)
      /\ q.commit_index = q.last_applied /\ q.commit_index <= End(q)
    BY DEF Onward, Keeps
<1>3. q.commit_index <= b.commit_index
    BY <1>1, <1>2
<1>4. Tracks(q, g)
    <2>1. h \in Seq(LogEntry(Command)) /\ g \in Seq(LogEntry(Command))
        BY DEF Onward, Histories
    <2>2. Len(h) <= Len(g) /\ \A k \in DOMAIN h : g[k] = h[k]
        BY DEF Onward
    <2> QED BY <1>2, <2>1, <2>2, TracksLonger
<1>5. q.snapshot \in {None, b.snapshot}
    BY <1>2 DEF Onward
<1>6. Keeps(b, g, q)
    BY <1>2, <1>3, <1>4, <1>5 DEF Keeps
<1>7. Awaits(b, p) => q.commit_index <= b.snapshot.last_included_index
    <2>1. CASE a.snapshot = None
        BY <1>3, <2>1 DEF Onward, Awaits
    <2>2. CASE a.snapshot # None
        BY <2>2 DEF Onward, Informed, Knows
    <2> QED BY <2>1, <2>2
<1> QED BY <1>6, <1>7 DEF Knows, Informed

\* What it has sent a peer stays right.
LEMMA SuitsOnward ==
    ASSUME NEW a, NodeOK(a, Command), NEW h, NEW t, NEW b, NodeOK(b, Command), NEW g,
           Onward(a, h, t, b, g), NEW p, NEW q, Informed(a, b, p, q),
           h \in Histories, NEW m \in RaftMsg(Command), Suits(a, h, t, p, q, m)
    PROVE  Suits(b, g, t, p, q, m)
<1>1. a.commit_index \in Nat /\ b.commit_index \in Nat /\ Len(h) \in Nat /\ Len(g) \in Nat
    <2>1. h \in Seq(LogEntry(Command)) /\ g \in Seq(LogEntry(Command))
        BY DEF Onward, Histories
    <2> QED BY <2>1, HistoryTypes
<1>2. /\ m.type = "AppendEntries" => m.leader_commit \in Nat
      /\ Replicates(m) => UpTo(m) \in Nat
    BY MessageTypes
<1>3. a.commit_index <= b.commit_index /\ Len(h) <= Len(g)
      /\ \A k \in DOMAIN h : k \in DOMAIN g /\ g[k] = h[k]
    BY DEF Onward
<1>4. SUFFICES ASSUME Replicates(m) PROVE Suits(b, g, t, p, q, m)
    BY DEF Suits
<1>5. SentBy(a, h, t, m) /\ Fits(q, m)
      /\ (Awaits(a, p) /\ m.type = "AppendEntries" =>
              m.leader_commit <= a.snapshot.last_included_index)
    BY <1>4 DEF Suits
<1>6. m.type = "AppendEntries" =>
          /\ PartOf(m, g)
          /\ UpTo(m) <= Len(g)
          /\ m.leader_commit <= b.commit_index
    BY <1>1, <1>2, <1>3, <1>4, <1>5 DEF SentBy, PartOf
<1>7. SentBy(b, g, t, m)
    BY <1>5, <1>6 DEF SentBy, Onward
<1>8. Awaits(b, p) /\ m.type = "AppendEntries" =>
          m.leader_commit <= b.snapshot.last_included_index
    <2>1. CASE a.snapshot = None
        BY <1>6, <2>1 DEF Onward, Awaits
    <2>2. CASE a.snapshot # None
        BY <1>5, <2>2 DEF Onward, Informed
    <2> QED BY <2>1, <2>2
<1> QED BY <1>5, <1>7, <1>8 DEF Suits

\* A snapshot of commands is not empty.
LEMMA SnapshotHasChunk ==
    ASSUME NEW b, NodeOK(b, Command), NEW g \in Histories, Tracks(b, g), b.snapshot # None
    PROVE  /\ has_snapshot_chunk(b)
           /\ b.snapshot.last_included_index \in 1..Len(g)
           /\ b.first_log_index = b.snapshot.last_included_index + 1
           /\ b.snapshot.last_included_term = g[b.snapshot.last_included_index].term
<1> DEFINE s == b.snapshot.last_included_index
<1>1. g \in Seq(LogEntry(Command))
    BY DEF Histories
<1>2. s \in Nat /\ Len(g) \in Nat /\ DOMAIN g = 1..Len(g) /\ b.last_applied \in Nat
      /\ b.first_log_index \in Nat
    BY <1>1, HistoryTypes
<1>3. b.first_log_index = s + 1 /\ b.last_applied \in (b.first_log_index - 1)..Len(g)
      /\ s > 0 /\ b.snapshot.data = Applied(g, s)
      /\ b.snapshot.last_included_term = g[s].term
    BY DEF Tracks
<1> HIDE DEF s
<1>4. s \in 1..Len(g) /\ 1 \in 1..s /\ 1 \in DOMAIN g
    BY <1>2, <1>3
<1>5. g[1] \in LogEntry(Command)
    BY <1>1, <1>4
<1>6. Shown(g[1]) # None
    BY <1>5, ContextAssumption DEF Shown, LogEntry
<1>7. Applied(g, s)[1] = Shown(g[1]) /\ 1 \in DOMAIN Applied(g, s)
    BY <1>4 DEF Applied
<1>8. has_snapshot_chunk(b)
    BY <1>3, <1>6, <1>7 DEF has_snapshot_chunk
<1> QED BY <1>3, <1>4, <1>8 DEF s

\* What the leader n of term t has for a peer can be handled there.
LEMMA MailSuits ==
    ASSUME NEW n, NodeOK(n, Command), NEW g \in Histories, NEW t, Leads(n, g, t),
           Keeps(n, g, n), n.current_term = t, NEW p \in Node, NEW q, NodeOK(q, Command),
           Keeps(n, g, q), Knows(n, p, q), NEW m, m = get_append_entries_for_peer(n, p)
    PROVE  /\ Suits(n, g, t, p, q, m)
           /\ m.type = "AppendEntries" =>
                  /\ ~Awaits(n, p)
                  /\ UpTo(m) = Len(g)
                  /\ n.snapshot # None => n.snapshot.last_included_index <= m.prev_log_index
           /\ m.type = "InstallSnapshot" =>
                  /\ Awaits(n, p)
                  /\ m.last_included_index = n.snapshot.last_included_index
<1> DEFINE next == get(n.next_index, p, 1)
           s == n.snapshot.last_included_index
<1>1. g \in Seq(LogEntry(Command)) /\ Len(g) \in Nat /\ DOMAIN g = 1..Len(g)
      /\ n.first_log_index \in Nat \ {0} /\ q.first_log_index \in Nat \ {0}
    <2>1. g \in Seq(LogEntry(Command))
        BY DEF Histories
    <2> QED BY <2>1, HistoryTypes
<1>2. /\ Tracks(n, g) /\ Tracks(q, g) /\ End(n) = Len(g) /\ End(q) <= Len(g) /\ End(q) \in Int
      /\ \A k \in DOMAIN g : g[k].term = t
      /\ n.first_log_index = IF n.snapshot = None THEN 1 ELSE s + 1
      /\ q.first_log_index = IF q.snapshot = None THEN 1
                             ELSE q.snapshot.last_included_index + 1
      /\ q.snapshot \in {None, n.snapshot}
    BY EndType DEF Keeps, Leads, Tracks
<1>3. next \in Nat /\ next = get(n.match_index, p, 0) + 1 /\ get(n.match_index, p, 0) \in Nat
      /\ get(n.match_index, p, 0) <= End(q)
    BY IndexTypes DEF Knows
<1>4. next >= 1 /\ next - 1 <= End(q) /\ next - 1 \in Nat
    BY <1>2, <1>3
<1>5. n.snapshot # None =>
          has_snapshot_chunk(n) /\ s \in 1..Len(g) /\ n.first_log_index = s + 1
          /\ n.snapshot.last_included_term = g[s].term
    BY <1>2, SnapshotHasChunk
<1>6. Awaits(n, p) <=> n.snapshot # None /\ next <= s
    BY DEF Awaits
<1> DEFINE Snap ==
               /\ m.type = "InstallSnapshot"
               /\ next < n.first_log_index
               /\ n.snapshot # None
               /\ m.last_included_index = s
               /\ m.last_included_term = n.snapshot.last_included_term
               /\ m.data = n.snapshot.data
           Entries ==
               /\ m.type = "AppendEntries"
               /\ next < n.first_log_index => ~has_snapshot_chunk(n)
               /\ m.prev_log_index = IF next = 0 THEN 0 ELSE next - 1
               /\ m.leader_commit = n.commit_index
               /\ m.entries \in Seq(LogEntry(Command))
               /\ Follows(g, m.prev_log_index, m.entries)
               /\ next \in n.first_log_index..(End(n) + 1) =>
                      m.prev_log_index + Len(m.entries) = End(n)
               /\ m.prev_log_index = 0 => m.prev_log_term = 0
               /\ m.prev_log_index \in n.first_log_index..End(n) =>
                      m.prev_log_term = g[m.prev_log_index].term
               /\ /\ n.snapshot # None
                  /\ m.prev_log_index = s
                  /\ m.prev_log_index # 0
                  => m.prev_log_term = n.snapshot.last_included_term
<1>7. m.term = n.current_term /\ (Snap \/ Entries)
    BY <1>1, <1>2, PeerMail
<1> HIDE DEF next, s
<1>8. CASE Snap
    <2>1. m.type = "InstallSnapshot" /\ m.last_included_index = s
        BY <1>8
    <2>2. next <= s
        <3>1. n.first_log_index = s + 1 /\ s \in Nat /\ next < n.first_log_index
            BY <1>1, <1>5, <1>8
        <3> QED BY <1>3, <3>1
    <2>3. Awaits(n, p)
        BY <1>6, <1>8, <2>2
    <2>4. q.commit_index <= s
        BY <2>3 DEF Knows, s
    <2>5. SentBy(n, g, t, m)
        BY <1>7, <1>8 DEF SentBy, s
    <2>6. Fits(q, m)
        BY <2>1, <2>4 DEF Fits
    <2> QED BY <2>1, <2>3, <2>5, <2>6 DEF Suits, s
<1>9. CASE Entries
    <2>1. /\ m.type = "AppendEntries" /\ m.prev_log_index = next - 1
          /\ m.leader_commit = n.commit_index
        BY <1>4, <1>9
    <2>2. next >= n.first_log_index
        <3>1. CASE n.snapshot = None
            BY <1>2, <1>4, <3>1
        <3>2. CASE n.snapshot # None
            BY <1>1, <1>3, <1>5, <1>9, <3>2
        <3> QED BY <3>1, <3>2
    <2>3. next \in n.first_log_index..(End(n) + 1)
        BY <1>1, <1>2, <1>3, <1>4, <2>2
    <2>4. m.prev_log_index + Len(m.entries) = Len(g)
        BY <1>2, <1>9, <2>3
    <2>5. UpTo(m) = Len(g)
        BY <2>1, <2>4 DEF UpTo
    <2>6. n.snapshot # None => s <= m.prev_log_index /\ ~(next <= s)
        <3>1. n.snapshot # None => n.first_log_index = s + 1 /\ s \in Nat
            BY <1>1, <1>5
        <3> QED BY <1>3, <2>1, <2>2, <3>1
    <2>7. ~Awaits(n, p)
        BY <1>6, <2>6
    <2>8. m.prev_log_term = IF m.prev_log_index = 0 THEN 0 ELSE t
        <3>1. CASE m.prev_log_index = 0
            BY <1>9, <3>1
        <3>2. CASE m.prev_log_index # 0 /\ m.prev_log_index >= n.first_log_index
            <4>1. m.prev_log_index \in n.first_log_index..End(n) /\ m.prev_log_index \in DOMAIN g
                BY <1>1, <1>2, <1>4, <2>1, <3>2
            <4> QED BY <1>2, <1>9, <3>2, <4>1
        <3>3. CASE m.prev_log_index # 0 /\ ~(m.prev_log_index >= n.first_log_index)
            <4>1. m.prev_log_index = n.first_log_index - 1
                BY <1>1, <1>3, <2>1, <2>2, <3>3
            <4>2. n.snapshot # None
                BY <1>2, <3>3, <4>1
            <4>3. n.first_log_index = s + 1 /\ s \in 1..Len(g)
                  /\ n.snapshot.last_included_term = g[s].term
                BY <1>5, <4>2
            <4>4. m.prev_log_index = s
                BY <1>1, <4>1, <4>3
            <4>5. m.prev_log_term = n.snapshot.last_included_term
                BY <1>9, <3>3, <4>2, <4>4
            <4> QED BY <1>1, <1>2, <3>3, <4>3, <4>5
        <3> QED BY <3>1, <3>2, <3>3
    <2>9. PartOf(m, g)
        BY <1>9 DEF Follows, PartOf
    <2>10. n.commit_index <= n.commit_index
        BY DEF NodeOK
    <2>11. SentBy(n, g, t, m)
        <3>1. UpTo(m) <= Len(g)
            BY <1>1, <2>5
        <3> QED BY <1>7, <2>1, <2>8, <2>9, <2>10, <3>1 DEF SentBy
    <2>12. m.prev_log_index >= q.first_log_index - 1
        <3>1. q.first_log_index <= n.first_log_index
            <4>1. CASE q.snapshot = None
                BY <1>1, <1>2, <4>1
            <4>2. CASE q.snapshot # None
                BY <1>1, <1>2, <4>2 DEF s
            <4> QED BY <4>1, <4>2
        <3> QED BY <1>1, <1>3, <2>1, <2>2, <3>1
    <2>13. m.prev_log_index \in (q.first_log_index - 1)..End(q)
        BY <1>1, <1>2, <1>4, <2>1, <2>12
    <2>14. Fits(q, m)
        BY <1>2, <2>1, <2>5, <2>13 DEF Fits
    <2> QED BY <2>1, <2>5, <2>6, <2>7, <2>11, <2>14 DEF Suits, s
<1> QED BY <1>7, <1>8, <1>9

\* What the leader has sent a peer before can come before what it sends now.
LEMMA MailLater ==
    ASSUME NEW n, NodeOK(n, Command), NEW g \in Histories, NEW t, Keeps(n, g, n),
           NEW p, NEW q, NEW m \in RaftMsg(Command), Suits(n, g, t, p, q, m), NEW l,
           l.type = "AppendEntries" =>
               /\ ~Awaits(n, p)
               /\ UpTo(l) = Len(g)
               /\ n.snapshot # None => n.snapshot.last_included_index <= l.prev_log_index,
           l.type = "InstallSnapshot" =>
               /\ Awaits(n, p)
               /\ l.last_included_index = n.snapshot.last_included_index
    PROVE  Earlier(m, l)
<1>1. CASE ~(Replicates(m) /\ Replicates(l))
    BY <1>1 DEF Earlier
<1>2. CASE Replicates(m) /\ Replicates(l)
    <2>1. SentBy(n, g, t, m) /\ (Awaits(n, p) /\ m.type = "AppendEntries" =>
              m.leader_commit <= n.snapshot.last_included_index)
        BY <1>2 DEF Suits
    <2>2. l.type = "AppendEntries" => UpTo(m) <= UpTo(l)
        <3>1. CASE m.type = "AppendEntries"
            BY <2>1, <3>1 DEF SentBy
        <3>2. CASE m.type = "InstallSnapshot"
            <4>1. n.snapshot # None /\ UpTo(m) = n.snapshot.last_included_index
                BY <2>1, <3>2 DEF SentBy, UpTo
            <4>2. Tracks(n, g)
                BY DEF Keeps
            <4>3. n.snapshot.last_included_index \in 1..Len(g)
                BY <4>1, <4>2, SnapshotHasChunk
            <4>4. Len(g) \in Nat
                BY DEF Histories
            <4> QED BY <4>1, <4>3, <4>4
        <3> QED BY <1>2, <3>1, <3>2 DEF Replicates
    <2>3. m.type = "InstallSnapshot" /\ l.type = "AppendEntries" =>
              m.last_included_index <= l.prev_log_index
        BY <2>1 DEF SentBy
    <2>4. m.type = "AppendEntries" /\ l.type = "InstallSnapshot" =>
              m.leader_commit <= l.last_included_index
        BY <2>1
    <2> QED BY <2>2, <2>3, <2>4 DEF Earlier
<1> QED BY <1>1, <1>2

\* The line from x to p after x has taken an event.
LEMMA LineOnward ==
    ASSUME CommandsOnly, NEW x \in Node, NEW t, NEW h \in Histories, Accounted(x, t, h),
           NEW b, NodeOK(b, Command), b.id = x, NEW g, Onward(node[x], h, t, b, g),
           NEW d, Takes(x, b, d), NEW p \in Node \ {x}, Informed(node[x], b, p, node[p])
    PROVE  LineFits(x, t, g, p)'
<1> DEFINE a == node[x]
           q == node[p]
           l == get_append_entries_for_peer(b, p)
           new == b.outbox[p]
<1>1. /\ node'[x] = b /\ node'[p] = q /\ channel'[p] = channel[p]
    BY Taken
<1>2. /\ NodeOK(a, Command) /\ NodeOK(q, Command) /\ Knows(a, p, q) /\ Keeps(a, h, q)
      /\ LineFits(x, t, h, p)
    BY DEF CommandsOnly, Accounted
<1>3. /\ g \in Histories /\ Leads(b, g, t) /\ Keeps(b, g, b)
      /\ Spoken(b) /\ (Plainly(b) \/ b.current_term = t)
    BY DEF Onward
<1>4. Knows(b, p, q) /\ Keeps(b, g, q)
    BY <1>2, KnowsOnward
<1>5. \A k \in DOMAIN channel[p] : Suits(b, g, t, p, q, channel[p][k].message)
    <2> TAKE k \in DOMAIN channel[p]
    <2>1. Suits(a, h, t, p, q, channel[p][k].message)
        BY <1>2 DEF LineFits
    <2>2. channel[p][k].message \in RaftMsg(Command)
        BY InQueue
    <2> HIDE DEF a, q
    <2> QED BY <1>2, <2>1, <2>2, SuitsOnward DEF a, q
<1>6. \A k \in DOMAIN new : Plain(new[k]) \/ (new[k] = l /\ b.current_term = t)
    <2> TAKE k \in DOMAIN new
    <2>1. Plain(new[k]) \/ new[k] = l
        BY <1>3 DEF Spoken
    <2>2. Plainly(b) => Plain(new[k])
        BY DEF Plainly
    <2> HIDE DEF new, l
    <2> QED BY <1>3, <2>1, <2>2
<1>7. \A m : Plain(m) => ~Replicates(m)
    BY DEF Plain, Replicates
<1> HIDE DEF a, q, l, new
<1>8. b.current_term = t =>
          /\ Suits(b, g, t, p, q, l)
          /\ l.type = "AppendEntries" =>
                 /\ ~Awaits(b, p)
                 /\ UpTo(l) = Len(g)
                 /\ b.snapshot # None => b.snapshot.last_included_index <= l.prev_log_index
          /\ l.type = "InstallSnapshot" =>
                 /\ Awaits(b, p)
                 /\ l.last_included_index = b.snapshot.last_included_index
    BY <1>2, <1>3, <1>4, MailSuits DEF l
<1>9. \A k \in DOMAIN new : Suits(b, g, t, p, q, new[k])
    BY <1>6, <1>7, <1>8 DEF Suits
<1>10. ASSUME NEW k \in DOMAIN channel[p], NEW j \in DOMAIN new
       PROVE  Earlier(channel[p][k].message, new[j])
    <2>1. CASE Plain(new[j])
        BY <1>7, <2>1 DEF Earlier
    <2>2. CASE new[j] = l /\ b.current_term = t
        <3> DEFINE m == channel[p][k].message
        <3>1. m \in RaftMsg(Command) /\ Suits(b, g, t, p, q, m)
            BY <1>5, InQueue
        <3> HIDE DEF m
        <3>2. Earlier(m, l)
            BY <1>3, <1>8, <2>2, <3>1, MailLater
        <3> QED BY <2>2, <3>2 DEF m
    <2> QED BY <1>6, <2>1, <2>2
<1>11. ASSUME NEW k \in DOMAIN new, NEW j \in DOMAIN new
       PROVE  Earlier(new[k], new[j])
    <2>1. CASE Plain(new[k]) \/ Plain(new[j])
        BY <1>7, <2>1 DEF Earlier
    <2>2. CASE new[k] = l /\ new[j] = l /\ b.current_term = t
        <3>1. l.type = "AppendEntries" => UpTo(l) <= UpTo(l)
            <4>1. Len(g) \in Nat
                BY <1>3 DEF Histories
            <4> QED BY <1>8, <2>2, <4>1
        <3> QED BY <2>2, <3>1 DEF Earlier
    <2> QED BY <1>6, <2>1, <2>2
<1>12. InOrder(channel[p], new)
    BY <1>2, <1>10, <1>11 DEF InOrder, LineFits
<1> QED BY <1>1, <1>5, <1>9, <1>12 DEF LineFits, new

\* A leader that counts on a majority can.
LEMMA CountedStored ==
    ASSUME CommandsOnly, NEW x \in Node, NEW b, NodeOK(b, Command), b.id = x, Counted(b),
           NEW ends \in [Node -> Int], ends[x] = End(b),
           \A p \in Node \ {x} : get(b.match_index, p, 0) <= ends[p]
    PROVE  has_quorum(b.members, len([p \in Node |-> IF ends[p] >= b.commit_index
                                                     THEN b.members[p] ELSE 0]))
<1> DEFINE e == [p \in Node |-> Reached(b, p)]
<1>1. b.members \in NodeCollections /\ b.commit_index \in Nat
    BY DEF NodeOK
<1>2. \A p \in Node : get(b.match_index, p, 0) \in Nat
    BY IndexTypes
<1>3. End(b) \in Int
    BY EndType
<1>4. e \in [Node -> Int] /\ \A p \in Node : e[p] <= ends[p]
    BY <1>2, <1>3 DEF Reached
<1>5. has_quorum(b.members, len([p \in Node |-> IF e[p] >= b.commit_index
                                                THEN b.members[p] ELSE 0]))
    BY DEF Counted
<1> HIDE DEF e
<1> QED BY <1>1, <1>4, <1>5, StoredStays

\* Everything is still accounted for after a step of the leader.
LEMMA LeaderTakes ==
    ASSUME CommandsOnly, NEW x \in Node, NEW t, NEW h \in Histories, Accounted(x, t, h),
           NEW b, NodeOK(b, Command), b.id = x, NEW g, Onward(node[x], h, t, b, g),
           \A p \in Node \ {x} : Informed(node[x], b, p, node[p]),
           b.commit_index = node[x].commit_index \/ Counted(b),
           NEW d, Takes(x, b, d)
    PROVE  CommandsOnly' /\ Accounted(x, t, g)' /\ Growing
<1> DEFINE a == node[x]
<1>1. /\ CommandsOnly'
      /\ d \in {0, 1}
      /\ node'[x] = b
      /\ \A q \in Node \ {x} : node'[q] = node[q]
      /\ \A q \in Node \ {x} : channel'[q] = channel[q]
      /\ \A k \in DOMAIN channel'[x] :
             /\ k + d \in DOMAIN channel[x]
             /\ channel'[x][k] = channel[x][k + d]
    BY Taken
<1>2. \A q \in Node : NodeOK(node[q], Command) /\ node[q].id = q /\ End(node[q]) \in Int
      /\ NodeOK(node'[q], Command) /\ End(node'[q]) \in Int
    BY <1>1, EndType DEF CommandsOnly
<1>3. Leads(b, g, t) /\ Keeps(b, g, b) /\ Spoken(b) /\ End(a) <= End(b)
      /\ (a.snapshot # None => b.snapshot # None)
    BY DEF Onward, Leads, Accounted
<1>4. \A q \in Node : End(node[q]) <= End(node'[q])
                      /\ (node[q].snapshot # None => node'[q].snapshot # None)
    BY <1>1, <1>2, <1>3
<1>5. ASSUME NEW q \in Node \ {x} PROVE Knows(b, q, node[q]) /\ Keeps(b, g, node[q])
    <2>1. Knows(a, q, node[q]) /\ Keeps(a, h, node[q]) /\ Informed(a, b, q, node[q])
        BY DEF Accounted
    <2> QED BY <1>2, <2>1, KnowsOnward
<1>6. \A q \in Node : Keeps(node'[x], g, node'[q])
    BY <1>1, <1>3, <1>5
<1>7. \A q \in Node \ {x} : Knows(node'[x], q, node'[q])
    BY <1>1, <1>5
<1>8. \A q \in Node \ {x} : LineFits(x, t, g, q)'
    BY LineOnward
<1>9. OthersAreSilent(x)'
    <2>1. OthersAreSilent(x)
        BY DEF Accounted
    <2>2. ASSUME NEW j \in Node, NEW k \in DOMAIN channel'[j], Replicates(channel'[j][k].message)
          PROVE  channel'[j][k].from = x /\ j # x
        <3>1. CASE j = x
            BY <1>1, <2>1, <2>2, <3>1 DEF OthersAreSilent
        <3>2. CASE j # x
            BY <1>1, <2>1, <2>2, <3>2 DEF OthersAreSilent
        <3> QED BY <3>1, <3>2
    <2>3. ASSUME NEW i \in Node, NEW j \in Node, NEW k \in DOMAIN node'[i].outbox[j],
                 Replicates(node'[i].outbox[j][k])
          PROVE  i = x /\ j # x
        <3>1. CASE i = x
            <4>1. \/ Plain(b.outbox[j][k])
                  \/ j # x
                BY <1>1, <1>3, <2>3, <3>1 DEF Spoken
            <4> QED BY <1>1, <2>3, <3>1, <4>1 DEF Plain, Replicates
        <3>2. CASE i # x
            BY <1>1, <2>1, <2>3, <3>2 DEF OthersAreSilent
        <3> QED BY <3>1, <3>2
    <2> QED BY <2>2, <2>3 DEF OthersAreSilent
<1>10. AnswersFit(x, t)'
    <2>1. AnswersFit(x, t)
        BY DEF Accounted
    <2>2. ASSUME NEW k \in DOMAIN channel'[x]
          PROVE  Answers(node'[channel'[x][k].from], t, channel'[x][k].message)
        <3> DEFINE q == channel[x][k + d].from
                   m == channel[x][k + d].message
        <3>1. q \in Node /\ m \in RaftMsg(Command) /\ channel'[x][k] = channel[x][k + d]
            BY <1>1, <2>2, InQueue
        <3>2. Answers(node[q], t, m)
            BY <1>1, <2>1, <2>2 DEF AnswersFit
        <3> HIDE DEF q, m
        <3>3. Answers(node'[q], t, m)
            BY <1>2, <1>4, <3>1, <3>2, AnswersStay
        <3> QED BY <3>1, <3>3 DEF q, m
    <2>3. ASSUME NEW q \in Node, NEW k \in DOMAIN node'[q].outbox[x]
          PROVE  Answers(node'[q], t, node'[q].outbox[x][k])
        <3>1. CASE q = x
            <4>1. Plain(b.outbox[x][k])
                BY <1>1, <1>3, <2>3, <3>1 DEF Spoken
            <4> QED BY <1>1, <3>1, <4>1 DEF Plain, Answers
        <3>2. CASE q # x
            BY <1>1, <2>1, <2>3, <3>2 DEF AnswersFit
        <3> QED BY <3>1, <3>2
    <2> QED BY <2>2, <2>3 DEF AnswersFit
<1>11. Stored(x)'
    <2> DEFINE e == [q \in Node |-> End(node[q])]
               f == [q \in Node |-> End(node'[q])]
    <2>1. b.members \in NodeCollections /\ b.commit_index \in Nat
        BY DEF NodeOK
    <2>2. e \in [Node -> Int] /\ f \in [Node -> Int] /\ \A q \in Node : e[q] <= f[q]
        BY <1>2, <1>4
    <2>3. f[x] = End(b) /\ \A q \in Node \ {x} : f[q] = End(node[q])
        BY <1>1
    <2>4. \A q \in Node : f[q] = End(node'[q])
        OBVIOUS
    <2>5. b.members = a.members
        <3>1. AsBuilt(a) /\ AsBuilt(b) /\ a.id = b.id
            BY <1>2, <1>3 DEF Accounted, Keeps
        <3> HIDE DEF a
        <3> QED BY <3>1 DEF AsBuilt
    <2>6. has_quorum(a.members, len([q \in Node |->
                         IF e[q] >= a.commit_index THEN a.members[q] ELSE 0]))
        BY DEF Accounted, Stored
    <2> HIDE DEF e, f
    <2>7. has_quorum(b.members, len([q \in Node |->
                         IF f[q] >= b.commit_index THEN b.members[q] ELSE 0]))
        <3>1. CASE b.commit_index = a.commit_index
            <4> HIDE DEF a
            <4>1. has_quorum(b.members, len([q \in Node |->
                                 IF e[q] >= b.commit_index THEN b.members[q] ELSE 0]))
                BY <2>5, <2>6, <3>1
            <4> QED BY <2>1, <2>2, <4>1, StoredStays
        <3>2. CASE Counted(b)
            <4>1. \A p \in Node \ {x} : get(b.match_index, p, 0) <= f[p]
                BY <2>3 DEF Informed
            <4> QED BY <2>2, <2>3, <3>2, <4>1, CountedStored
        <3> QED BY <3>1, <3>2
    <2> QED BY <1>1, <2>4, <2>7 DEF Stored
<1> QED BY <1>1, <1>3, <1>4, <1>6, <1>7, <1>8, <1>9, <1>10, <1>11 DEF Accounted, Growing

-----------------------------------------------------------------------------
(* Events of the leader                                                    *)

\* The node x, with log h, can go on as b, with log g.
Goes(x, t, h, b, g) ==
    /\ Onward(node[x], h, t, b, g)
    /\ \A p \in Node \ {x} : Informed(node[x], b, p, node[p])
    /\ b.commit_index = node[x].commit_index \/ Counted(b)

\* The log of a leader is empty before it leads in term t, and then
\* it goes to a later term only.
Phase(n, h, t) ==
    \/ n.current_term > t
    \/ n.current_term = t /\ n.role = Leader
    \/ h = <<>>

\* A step that leaves what there is of the history as it is.
LEMMA SameOnward ==
    ASSUME NEW a, NodeOK(a, Command), NEW h \in Histories, NEW t, Leads(a, h, t),
           Keeps(a, h, a), NEW b, NodeOK(b, Command), SameHistory(a, b),
           Phase(b, h, t), Spoken(b), Plainly(b) \/ b.current_term = t
    PROVE  Onward(a, h, t, b, h) /\ b.commit_index = a.commit_index
<1>1. Keeps(a, h, b) /\ End(b) = End(a)
    BY SameKeeps
<1>2. a.commit_index = b.commit_index /\ a.snapshot = b.snapshot
    BY DEF SameHistory
<1>3. Keeps(b, h, b)
    BY <1>1, <1>2 DEF Keeps
<1>4. Leads(b, h, t)
    BY <1>1, <1>2 DEF Leads, Phase
<1>5. Len(h) <= Len(h) /\ a.commit_index <= b.commit_index
    <2>1. Len(h) \in Nat
        BY DEF Histories
    <2>2. a.commit_index \in Nat
        BY DEF NodeOK
    <2> QED BY <1>2, <2>1, <2>2
<1> QED BY <1>2, <1>3, <1>4, <1>5 DEF Onward

\* The same with what is known of the others.
LEMMA StaysGoes ==
    ASSUME CommandsOnly, NEW x \in Node, NEW t, NEW h \in Histories, Accounted(x, t, h),
           NEW b, NodeOK(b, Command), Stays(node[x], b),
           Phase(b, h, t), Spoken(b), Plainly(b) \/ b.current_term = t
    PROVE  Goes(x, t, h, b, h)
<1> DEFINE a == node[x]
<1>1. NodeOK(a, Command) /\ Leads(a, h, t) /\ Keeps(a, h, a)
      /\ \A p \in Node \ {x} : Knows(a, p, node[p])
    BY DEF CommandsOnly, Accounted
<1>2. SameHistory(a, b) /\ b.next_index = a.next_index /\ b.match_index = a.match_index
      /\ b.snapshot = a.snapshot
    BY DEF Stays, SameHistory
<1> HIDE DEF a
<1>3. Onward(a, h, t, b, h) /\ b.commit_index = a.commit_index
    BY <1>1, <1>2, SameOnward
<1>4. \A p \in Node \ {x} : Informed(a, b, p, node[p])
    BY <1>1, <1>2 DEF Knows, Informed, Awaits
<1> QED BY <1>3, <1>4 DEF Goes, a

\* Nothing but plain messages.
LEMMA PlainlySpoken ==
    ASSUME NEW n, Plainly(n)
    PROVE  Spoken(n)
BY DEF Plainly, Spoken

\* An event of an election, at a node that leads in no other term than t.
LEMMA VotingGoes ==
    ASSUME CommandsOnly, NEW x \in Node, NEW t \in Nat, NEW h \in Histories,
           Accounted(x, t, h), NEW b, NodeOK(b, Command), Voting(node[x], b),
           b.role = Leader => b.current_term = t
    PROVE  Goes(x, t, h, b, h)
<1> DEFINE a == node[x]
<1>1. NodeOK(a, Command) /\ Leads(a, h, t) /\ Keeps(a, h, a)
      /\ \A p \in Node \ {x} : Knows(a, p, node[p])
    BY DEF CommandsOnly, Accounted
<1>2. a.current_term \in Nat /\ b.current_term \in Nat /\ b.current_term >= a.current_term
    BY <1>1 DEF NodeOK, Voting
<1>3. CASE Remained(a, b)
    <2>1. Phase(b, h, t)
        BY <1>1, <1>2 DEF Phase, Leads, Voting
    <2>2. Stays(a, b) /\ Plainly(b) /\ Spoken(b)
        BY <1>3, PlainlySpoken DEF Remained
    <2> QED BY <2>1, <2>2, StaysGoes
<1>4. CASE Installed(a, b)
    <2>1. b.role = Leader /\ b.current_term = t /\ Spoken(b)
        BY <1>4 DEF Installed
    <2>2. h = <<>>
        BY <1>1, <1>2, <1>4, <2>1 DEF Leads, Installed
    <2>3. SameHistory(a, b) /\ Phase(b, h, t)
        BY <2>2 DEF Voting, Phase
    <2> HIDE DEF a
    <2>4. Onward(a, h, t, b, h) /\ b.commit_index = a.commit_index
        BY <1>1, <2>1, <2>3, SameOnward
    <2>5. a.snapshot = None
        <3>1. Tracks(a, h)
            BY <1>1 DEF Keeps
        <3>2. Len(h) = 0
            BY <2>2
        <3>3. a.snapshot # None => a.snapshot.last_included_index \in 1..Len(h)
            BY <1>1, <3>1, SnapshotHasChunk
        <3> QED BY <3>2, <3>3
    <2>6. last_log_index(a) + 1 = 1
        <3>1. Tracks(a, h) /\ End(a) = Len(h) /\ h \in Seq(LogEntry(Command))
            BY <1>1 DEF Keeps, Leads, Histories
        <3>2. last_log_index(a) = End(a)
            BY <1>1, <3>1, TrackedLog
        <3> QED BY <2>2, <3>1, <3>2
    <2>7. ASSUME NEW p \in Node \ {x}
          PROVE  Informed(a, b, p, node[p])
        <3> DEFINE known == {q \in Node : contains(a.members, q)}
                   all(map, v) == [q \in DOMAIN map \cup known |->
                                      IF q \in known THEN v ELSE map[q]]
        <3>1. DOMAIN a = NodeFields
            BY <1>1 DEF NodeOK
        <3>2. initialize_leader_state(a).next_index = all(a.next_index, 1)
              /\ initialize_leader_state(a).match_index = all(a.match_index, 0)
            BY <2>6, <3>1 DEF initialize_leader_state, NodeFields
        <3>3. b.next_index = all(a.next_index, 1) /\ b.match_index = all(a.match_index, 0)
            BY <1>4, <3>2 DEF Installed
        <3>4. get(b.next_index, p, 1) = IF p \in known THEN 1 ELSE get(a.next_index, p, 1)
            BY <3>3 DEF get
        <3>5. get(b.match_index, p, 0) = IF p \in known THEN 0 ELSE get(a.match_index, p, 0)
            BY <3>3 DEF get
        <3>6. Knows(a, p, node[p]) /\ get(a.match_index, p, 0) \in Nat /\ End(node[p]) \in Int
            BY <1>1, IndexTypes, EndType DEF CommandsOnly
        <3>7. 0 <= End(node[p])
            BY <3>6 DEF Knows
        <3> HIDE DEF known
        <3> QED BY <2>5, <3>4, <3>5, <3>6, <3>7 DEF Informed, Knows
    <2> QED BY <2>4, <2>7 DEF Goes, a
<1> QED BY <1>3, <1>4 DEF Voting

\* The heartbeat timer of the leader.
LEMMA HeartbeatGoes ==
    ASSUME CommandsOnly, NEW x \in Node, NEW t \in Nat, NEW h \in Histories,
           Accounted(x, t, h), node[x].outbox = no_messages,
           node[x].role = Leader, node[x].current_term = t,
           NEW b, NodeOK(b, Command), b = handle_heartbeat_timer(node[x])
    PROVE  Goes(x, t, h, b, h)
<1>1. NodeOK(node[x], Command) /\ Plainly(node[x])
    BY NoMessagesPlainly DEF CommandsOnly
<1>2. Stays(node[x], b) /\ Spoken(b) /\ b.role = Leader /\ b.current_term = node[x].current_term
    BY <1>1, HeartbeatSpoken
<1>3. Phase(b, h, t)
    BY <1>2 DEF Phase
<1> QED BY <1>2, <1>3, StaysGoes

\* A node that steps down, or does nothing, as far as its log goes.
LEMMA StillGoes ==
    ASSUME CommandsOnly, NEW x \in Node, NEW t \in Nat, NEW h \in Histories,
           Accounted(x, t, h), node[x].outbox = no_messages,
           NEW b, NodeOK(b, Command), Still(node[x], b),
           \/ b.current_term > node[x].current_term
           \/ b.current_term = node[x].current_term /\ b.role = node[x].role
    PROVE  Goes(x, t, h, b, h)
<1>1. Stays(node[x], b) /\ Plainly(b) /\ Spoken(b)
    <2>1. b.outbox = no_messages
        BY DEF Still
    <2> QED BY <2>1, NoMessagesPlainly, PlainlySpoken DEF Still
<1>2. node[x].current_term \in Nat /\ b.current_term \in Nat
    BY DEF CommandsOnly, NodeOK
<1>3. Phase(node[x], h, t)
    BY DEF Accounted, Leads, Phase
<1>4. Phase(b, h, t)
    BY <1>2, <1>3 DEF Phase
<1> QED BY <1>1, <1>4, StaysGoes

\* A node that steps down has the new term.
LEMMA StepsDown ==
    ASSUME NEW n, NodeOK(n, Command), NEW t
    PROVE  Still(n, step_down(n, t)) /\ step_down(n, t).current_term = t
<1>1. Still(n, step_down(n, t))
    BY UpdatesStill, Zenon
<1>2. DOMAIN n = NodeFields
    BY DEF NodeOK
<1>3. step_down(n, t).current_term = t
    BY <1>2 DEF step_down, revoke, reset_election_timer, NodeFields
<1> QED BY <1>1, <1>3

\* The members are those that vote on what is committed.
LEMMA AsBuiltVoters ==
    ASSUME NEW n, NodeOK(n, Command), AsBuilt(n)
    PROVE  Voters(n.members, n.catching_up_servers, n.id) = n.members
<1>1. n.id \in Node /\ n.members \in [Node -> Nat]
    BY DEF NodeOK, NodeCollections
<1>2. \A p \in Node : n.members[p] = IF p \in InitialMembers \cup {n.id} THEN 1 ELSE 0
    BY DEF AsBuilt
<1>3. n.catching_up_servers = {} /\ n.members[n.id] = 1
    BY <1>1, <1>2 DEF AsBuilt
<1> DEFINE v == Voters(n.members, n.catching_up_servers, n.id)
<1>4. v = [p \in Node |-> n.members[p]]
    BY <1>3 DEF Voters
<1> QED BY <1>1, <1>4

\* A leader that has committed the median counts on a majority.
LEMMA MedianCounted ==
    ASSUME NEW a, NodeOK(a, Command), AsBuilt(a), last_log_index(a) = End(a),
           End(a) \in Nat, NEW b, Committed(a, b), SameLead(a, b), b.id = a.id,
           End(b) = End(a)
    PROVE  Counted(b)
<1> DEFINE index(p) == IF p = a.id THEN End(a) ELSE get(a.match_index, p, 0)
           reach == [p \in Node |-> IF index(p) >= b.commit_index THEN a.members[p] ELSE 0]
<1>1. /\ IsMap(a.match_index) /\ a.members \in NodeCollections /\ a.id \in Node
    BY DEF NodeOK
<1>2. b.commit_index = compute_median(a.match_index, End(a), a.members,
                                      a.catching_up_servers, a.id)
    BY DEF Committed, Median
<1>3. Voters(a.members, a.catching_up_servers, a.id) = a.members
    BY AsBuiltVoters
<1>4. has_quorum(a.members, len(reach))
    BY <1>1, <1>2, <1>3, MajorityReachesMedian
<1>5. \A p \in Node : Reached(b, p) = index(p)
    BY DEF Reached, SameLead
<1>6. b.members = a.members
    BY DEF SameLead
<1>7. [p \in Node |-> IF Reached(b, p) >= b.commit_index THEN b.members[p] ELSE 0] = reach
    BY <1>5, <1>6
<1> QED BY <1>4, <1>6, <1>7 DEF Counted

\* A leader that takes a snapshot of what it has applied.
LEMMA CreateSnapshotTracks ==
    ASSUME NEW h \in Histories, NEW a, NodeOK(a, Command), Tracks(a, h),
           a.snapshot = None, a.commit_index = a.last_applied,
           a.commit_index \in a.first_log_index..End(a), NEW b, b = create_snapshot(a)
    PROVE  /\ NodeOK(b, Command)
           /\ Tracks(b, h)
           /\ End(b) = End(a)
           /\ b.snapshot # None
           /\ b.snapshot.last_included_index = a.commit_index
           /\ b.id = a.id
           /\ b.current_term = a.current_term
           /\ b.commit_index = a.commit_index
           /\ b.last_applied = a.last_applied
           /\ b.outbox = a.outbox
           /\ SameLead(a, b)
<1> DEFINE s == a.commit_index
           snap == [last_included_index |-> s,
                    last_included_term |-> get_entry(a, s).term,
                    data |-> a.state_machine]
           c == [a EXCEPT !.snapshot = snap]
<1>1. h \in Seq(LogEntry(Command))
    BY DEF Histories
<1>2. /\ s \in Nat /\ Len(h) \in Nat /\ DOMAIN h = 1..Len(h) /\ DOMAIN a = NodeFields
      /\ a.last_applied \in Nat
    BY <1>1, HistoryTypes DEF NodeOK
<1>3. a.first_log_index = 1 /\ End(a) <= Len(h) /\ a.state_machine = Applied(h, s)
    BY DEF Tracks
<1>4. End(a) \in Nat /\ has_entry(a, s) /\ get_entry(a, s) = h[s] /\ s \in 1..End(a)
    BY <1>1, <1>2, <1>3, TrackedLog
<1>5. s # 0 /\ s <= Len(h)
    BY <1>2, <1>3, <1>4
<1>6. NodeOK(b, Command)
    BY CreateSnapshotType, Zenon
<1>7. b = discard_entries_before(c, s + 1)
    BY <1>4, <1>5 DEF create_snapshot
<1> HIDE DEF snap
<1>8. /\ DOMAIN c = NodeFields /\ c.snapshot = snap /\ c.log = a.log
      /\ c.first_log_index = 1 /\ c.commit_index = s
      /\ c.last_applied = a.last_applied /\ c.id = a.id /\ c.outbox = a.outbox
      /\ c.current_term = a.current_term /\ c.state_machine = a.state_machine
      /\ SameLead(a, c)
    BY <1>2, <1>3 DEF NodeFields, SameLead
<1> HIDE DEF c, s
<1>9. b = [c EXCEPT !.log = SubSeq(@, s + 1, Len(@)), !.first_log_index = s + 1]
    <2> DEFINE l == s + 1
               e(k) == [c EXCEPT !.log = SubSeq(@, k, Len(@)), !.first_log_index = l]
    <2>1. ~(l <= c.first_log_index) /\ l - c.first_log_index + 1 = l
        BY <1>2, <1>5, <1>8
    <2> HIDE DEF l
    <2>2. b = e(l - c.first_log_index + 1)
        BY <1>7, <2>1 DEF discard_entries_before, l
    <2>3. b = e(l)
        BY <2>1, <2>2
    <2> QED BY <2>3 DEF l
<1>10. /\ b.snapshot = snap /\ b.log = SubSeq(a.log, s + 1, Len(a.log))
       /\ b.first_log_index = s + 1 /\ b.commit_index = s
       /\ b.last_applied = a.last_applied /\ b.id = a.id /\ b.outbox = a.outbox
       /\ b.current_term = a.current_term /\ b.state_machine = a.state_machine
       /\ SameLead(a, b)
    <2>1. /\ b.snapshot = snap /\ b.log = SubSeq(a.log, s + 1, Len(a.log))
          /\ b.first_log_index = s + 1 /\ b.commit_index = s
        <3>1. b.log = SubSeq(c.log, s + 1, Len(c.log)) /\ b.first_log_index = s + 1
            BY <1>8, <1>9 DEF NodeFields
        <3>2. b.snapshot = c.snapshot /\ b.commit_index = c.commit_index
            BY <1>8, <1>9 DEF NodeFields
        <3> QED BY <1>8, <3>1, <3>2
    <2>2. /\ b.last_applied = c.last_applied /\ b.id = c.id /\ b.outbox = c.outbox
          /\ b.current_term = c.current_term /\ b.state_machine = c.state_machine
        BY <1>8, <1>9 DEF NodeFields
    <2>3. /\ b.role = c.role /\ b.members = c.members
          /\ b.catching_up_servers = c.catching_up_servers
          /\ b.next_index = c.next_index /\ b.match_index = c.match_index
        BY <1>8, <1>9 DEF NodeFields
    <2> QED BY <1>8, <2>1, <2>2, <2>3 DEF SameLead
<1>11. /\ snap.last_included_index = s /\ snap.last_included_term = h[s].term
       /\ snap.data = Applied(h, s)
    BY <1>3, <1>4 DEF snap
<1>12. snap # None
    <2>1. snap \in Snapshot
        <3>1. a.state_machine \in StateMachine
            BY DEF NodeOK
        <3>2. get_entry(a, s).term \in Nat
            <4>1. h[s] \in LogEntry(Command)
                BY <1>1, <1>2, <1>4, <1>5
            <4> QED BY <1>4, <4>1 DEF LogEntry
        <3> QED BY <1>2, <3>1, <3>2 DEF snap, Snapshot
    <2> QED BY <2>1, SnapshotAssumption
<1>13. Compacted(a, b, h, s)
    <2>1. s - a.first_log_index + 2 = s + 1 /\ s <= End(a)
        BY <1>2, <1>3, <1>4
    <2> QED BY <1>10, <1>11, <1>12, <2>1 DEF Compacted
<1>14. Tracks(b, h) /\ End(b) = IF End(a) >= s THEN End(a) ELSE s
    <2>1. s >= a.first_log_index /\ b.last_applied \in s..Len(h) /\ b.last_applied = s
        BY <1>2, <1>3, <1>4, <1>5, <1>10 DEF s
    <2>2. b.state_machine = Applied(h, b.last_applied)
        BY <1>3, <1>10, <2>1
    <2> QED BY <1>2, <1>5, <1>6, <1>13, <2>1, <2>2, CompactedTracks
<1>15. End(b) = End(a)
    BY <1>2, <1>4, <1>14
<1> QED BY <1>6, <1>10, <1>11, <1>12, <1>14, <1>15 DEF s

\* A node that has committed what a majority has.
LEMMA CommittedKeeps ==
    ASSUME NEW g \in Histories, NEW c, NodeOK(c, Command), NEW r, NodeOK(r, Command),
           Tracks(c, g), Tracks(r, g), End(r) = End(c), AsBuilt(c), r.id = c.id,
           c.commit_index = c.last_applied, SameLead(c, r), Committed(c, r)
    PROVE  Keeps(r, g, r) /\ Counted(r) /\ c.commit_index < r.commit_index
<1>1. c.commit_index \in Nat /\ r.commit_index \in Nat /\ End(c) \in Nat
      /\ last_log_index(c) = End(c) /\ c.first_log_index \in Nat
    <2>1. g \in Seq(LogEntry(Command))
        BY DEF Histories
    <2> QED BY <2>1, TrackedLog, HistoryTypes
<1>2. /\ r.commit_index > c.commit_index /\ r.commit_index \in c.first_log_index..End(c)
      /\ r.last_applied = IF c.last_applied >= r.commit_index
                          THEN c.last_applied ELSE r.commit_index
    BY DEF Committed
<1>3. /\ r.commit_index = r.last_applied /\ r.commit_index <= End(r)
      /\ r.commit_index <= r.commit_index
      /\ c.commit_index < r.commit_index
    BY <1>1, <1>2
<1>4. AsBuilt(r)
    BY DEF AsBuilt, SameLead
<1>5. Counted(r)
    BY <1>1, MedianCounted
<1> QED BY <1>3, <1>4, <1>5 DEF Keeps

\* What a leader knows when it has noted where p is.
LEMMA NotedInformed ==
    ASSUME CommandsOnly, NEW x \in Node, NEW t, NEW h, Accounted(x, t, h),
           NEW from \in Node, NEW index \in Nat, index <= End(node[from]),
           \/ index > get(node[x].match_index, from, 0)
           \/ node[x].snapshot # None /\ index >= node[x].snapshot.last_included_index,
           NEW b, b.match_index = insert(node[x].match_index, from, index),
           b.next_index = insert(node[x].next_index, from, index + 1),
           node[x].snapshot # None => b.snapshot = node[x].snapshot
    PROVE  \A p \in Node \ {x} : Informed(node[x], b, p, node[p])
<1> TAKE p \in Node \ {x}
<1> DEFINE a == node[x]
           s == a.snapshot.last_included_index
<1>1. NodeOK(a, Command) /\ Knows(a, p, node[p])
    BY DEF CommandsOnly, Accounted
<1>2. get(a.match_index, p, 0) \in Nat /\ get(a.next_index, p, 1) \in Nat
    BY <1>1, IndexTypes
<1>3. a.snapshot # None => s \in Nat
    BY <1>1 DEF NodeOK, Optional, Snapshot
<1> HIDE DEF a, s
<1>4. CASE p = from
    <2>1. get(b.match_index, p, 0) = index /\ get(b.next_index, p, 1) = index + 1
        BY <1>4 DEF insert, get, a
    <2>2. a.snapshot # None /\ Awaits(b, p) => Awaits(a, p)
        <3>1. SUFFICES ASSUME a.snapshot # None, Awaits(b, p) PROVE get(a.next_index, p, 1) <= s
            BY DEF Awaits, s
        <3>2. index + 1 <= s
            BY <2>1, <3>1 DEF Awaits, a, s
        <3>3. index > get(a.match_index, p, 0)
            BY <1>3, <1>4, <3>1, <3>2 DEF a, s
        <3>4. get(a.next_index, p, 1) = get(a.match_index, p, 0) + 1
            BY <1>1 DEF Knows
        <3> QED BY <1>2, <1>3, <3>1, <3>2, <3>3, <3>4
    <2> QED BY <1>4, <2>1, <2>2 DEF Informed, a
<1>5. CASE p # from
    <2>1. get(b.match_index, p, 0) = get(a.match_index, p, 0)
          /\ get(b.next_index, p, 1) = get(a.next_index, p, 1)
        BY <1>5 DEF insert, get, a
    <2>2. a.snapshot # None /\ Awaits(b, p) => Awaits(a, p)
        BY <2>1 DEF Awaits, a
    <2> QED BY <1>1, <2>1, <2>2 DEF Informed, Knows, a
<1> QED BY <1>4, <1>5

\* An answer to AppendEntries, at the leader.
LEMMA AnswerGoes ==
    ASSUME CommandsOnly, NEW x \in Node, NEW t \in Nat, NEW h \in Histories,
           Accounted(x, t, h), node[x].outbox = no_messages,
           node[x].role = Leader => node[x].current_term = t,
           NEW from \in Node, NEW m \in AppendEntriesResponseMsg, Answers(node[from], t, m),
           NEW b, NodeOK(b, Command), b = handle_append_entries_response(node[x], from, m)
    PROVE  Goes(x, t, h, b, h)
<1> DEFINE a == node[x]
           r == replication_handle_append_entries_response(a, from, m)
           g == grant(r)
<1>1. NodeOK(a, Command) /\ a.id = x /\ Leads(a, h, t) /\ Keeps(a, h, a)
      /\ h \in Seq(LogEntry(Command))
    BY DEF CommandsOnly, Accounted, Histories
<1>2. m.term \in Nat /\ m.match_index \in Nat /\ a.current_term \in Nat
      /\ m.type = "AppendEntriesResponse"
    BY <1>1 DEF NodeOK, AppendEntriesResponseMsg
<1>3. CASE m.term > a.current_term
    <2>1. b = step_down(a, m.term)
        BY <1>3 DEF handle_append_entries_response
    <2>2. Still(a, step_down(a, m.term)) /\ step_down(a, m.term).current_term = m.term
        BY <1>1, StepsDown
    <2> QED BY <1>3, <2>1, <2>2, StillGoes
<1>4. CASE ~(m.term > a.current_term) /\ (a.role # Leader \/ m.term # a.current_term)
    <2>1. b = a
        BY <1>4 DEF handle_append_entries_response
    <2>2. Still(a, a)
        BY <1>1, UpdatesStill, Zenon
    <2> QED BY <2>1, <2>2, StillGoes
<1>5. CASE ~(m.term > a.current_term) /\ a.role = Leader /\ m.term = a.current_term
    <2>1. m.success /\ m.match_index <= End(node[from]) /\ a.current_term = t
        BY <1>2, <1>5 DEF Answers
    <2>2. b = IF r.commit_index <= a.commit_index THEN r
              ELSE IF should_create(r) THEN create_snapshot(g) ELSE g
        BY <1>5 DEF handle_append_entries_response
    <2> DEFINE P(c) == /\ NodeOK(c, Command)
                       /\ Noted(a, c, from, m.match_index)
                       /\ SameLead(c, r)
                       /\ r = c \/ Committed(c, r)
    <2>3. /\ NodeOK(r, Command) /\ Tracks(r, h) /\ LogStays(a, r)
          /\ \/ r = a
             \/ m.match_index > get(a.match_index, from, 0) /\ \E c : P(c)
        <3>1. Tracks(a, h)
            BY <1>1 DEF Keeps
        <3> HIDE DEF a
        <3> QED BY <1>1, <2>1, <3>1, CommandIsEntryType, ResponseTracks
    <2>4. NodeOK(g, Command) /\ Still(r, g) /\ g.role = r.role /\ g.current_term = r.current_term
        <3> HIDE DEF r
        <3>1. Still(r, g)
            BY <2>3, UpdatesStill, Zenon
        <3>2. NodeOK(g, Command) /\ g.role = r.role /\ g.current_term = r.current_term
            <4>1. NodeOK(g, Command)
                BY <2>3, TimerType, Zenon
            <4>2. g.role = r.role /\ g.current_term = r.current_term
                <5>1. DOMAIN r = NodeFields
                    BY <2>3 DEF NodeOK
                <5> QED BY <5>1 DEF grant, NodeFields
            <4> QED BY <4>1, <4>2
        <3> QED BY <3>1, <3>2
    <2>5. a.outbox = no_messages /\ a.commit_index \in Nat /\ r.commit_index \in Nat
        BY <1>1, <2>3 DEF NodeOK
    <2> HIDE DEF a, r, g
    <2>6. CASE r = a
        <3>1. b = a
            BY <2>2, <2>5, <2>6
        <3>2. Still(a, a)
            BY <1>1, UpdatesStill, Zenon
        <3> QED BY <3>1, <3>2, StillGoes DEF a
    <2>7. CASE m.match_index > get(a.match_index, from, 0) /\ \E c : P(c)
        <3>1. PICK c : P(c)
            BY <2>7
        <3> HIDE DEF P
        <3>2. /\ NodeOK(c, Command) /\ Noted(a, c, from, m.match_index)
              /\ SameLead(c, r) /\ (r = c \/ Committed(c, r))
            BY <3>1 DEF P
        <3>3. /\ c.id = a.id /\ c.current_term = a.current_term /\ c.log = a.log
              /\ c.first_log_index = a.first_log_index /\ c.snapshot = a.snapshot
              /\ c.outbox = a.outbox /\ c.role = a.role /\ c.commit_index = a.commit_index
              /\ c.last_applied = a.last_applied /\ c.state_machine = a.state_machine
              /\ c.members = a.members /\ c.catching_up_servers \subseteq a.catching_up_servers
              /\ c.match_index = insert(a.match_index, from, m.match_index)
              /\ c.next_index = insert(a.next_index, from, m.match_index + 1)
            BY <3>2 DEF Noted, LogStays
        <3>4. a.catching_up_servers = {} /\ AsBuilt(a)
            BY <1>1 DEF Keeps, AsBuilt
        <3>5. SameHistory(a, c)
            BY <3>3, <3>4 DEF SameHistory
        <3>6. Keeps(a, h, c) /\ End(c) = End(a)
            BY <1>1, <3>5, SameKeeps
        <3>7. ASSUME NEW d, SameLead(c, d), a.snapshot # None => d.snapshot = a.snapshot
              PROVE  \A p \in Node \ {x} : Informed(a, d, p, node[p])
            <4>1. d.match_index = insert(a.match_index, from, m.match_index)
                  /\ d.next_index = insert(a.next_index, from, m.match_index + 1)
                BY <3>3, <3>7 DEF SameLead
            <4> QED BY <1>2, <2>1, <2>7, <3>7, <4>1, NotedInformed DEF a
        <3>8. CASE r = c
            <4>1. b = c
                BY <2>2, <2>5, <3>3, <3>8
            <4>2. Plainly(c) /\ Spoken(c)
                BY <2>5, <3>3, NoMessagesPlainly, PlainlySpoken
            <4>3. Phase(c, h, t)
                BY <1>5, <2>1, <3>3 DEF Phase, a
            <4>4. Onward(a, h, t, c, h) /\ c.commit_index = a.commit_index
                BY <1>1, <3>2, <3>5, <4>2, <4>3, SameOnward
            <4>5. SameLead(c, c)
                BY DEF SameLead
            <4> QED BY <3>3, <3>7, <4>1, <4>4, <4>5 DEF Goes, a
        <3>9. CASE Committed(c, r)
            <4>1. Tracks(c, h) /\ AsBuilt(c) /\ c.commit_index = c.last_applied
                BY <3>6 DEF Keeps
            <4>2. End(r) = End(c) /\ r.id = c.id /\ r.snapshot = a.snapshot
                  /\ r.outbox = no_messages /\ r.current_term = a.current_term
                  /\ r.first_log_index = a.first_log_index
                BY <2>3, <2>5, <3>3 DEF LogStays, End
            <4>3. Keeps(r, h, r) /\ Counted(r) /\ c.commit_index < r.commit_index
                BY <2>3, <3>2, <3>9, <4>1, <4>2, CommittedKeeps
            <4>4. a.commit_index <= r.commit_index /\ ~(r.commit_index <= a.commit_index)
                BY <2>5, <3>3, <4>3
            <4>5. r.role = Leader
                BY <1>5, <3>2, <3>3 DEF SameLead, a
            <4>6. SameHistory(r, g) /\ Stays(r, g) /\ g.outbox = no_messages
                BY <2>4, <4>2 DEF Still, Stays
            <4>7. /\ g.id = r.id /\ g.snapshot = r.snapshot /\ g.commit_index = r.commit_index
                  /\ g.members = r.members /\ g.match_index = r.match_index
                  /\ g.next_index = r.next_index /\ g.last_applied = r.last_applied
                  /\ g.catching_up_servers = r.catching_up_servers
                  /\ g.first_log_index = r.first_log_index
                BY <4>6 DEF Stays, SameHistory
            <4>8. Keeps(r, h, g) /\ End(g) = End(r)
                BY <4>3, <4>6, SameKeeps
            <4>9. Keeps(g, h, g)
                BY <4>7, <4>8 DEF Keeps
            <4>10. SameLead(c, g) /\ SameLead(r, g)
                BY <2>4, <3>2, <4>7 DEF SameLead
            <4>11. Len(h) <= Len(h) /\ End(g) = Len(h)
                <5>1. Len(h) \in Nat
                    BY <1>1
                <5> QED BY <1>1, <3>6, <4>2, <4>8, <5>1 DEF Leads
            <4>12. Counted(g)
                <5>1. \A p \in Node : Reached(g, p) = Reached(r, p)
                    BY <4>7, <4>8 DEF Reached
                <5> QED BY <4>3, <4>7, <5>1 DEF Counted
            <4>13. g.role = Leader /\ g.current_term = t
                BY <2>1, <2>4, <4>2, <4>5
            <4>14. CASE ~should_create(r)
                <5>1. b = g
                    BY <2>2, <4>4, <4>14
                <5>2. Leads(g, h, t)
                    BY <1>1, <4>2, <4>7, <4>11, <4>13 DEF Leads
                <5>3. Spoken(g)
                    BY <4>6, NoMessagesPlainly, PlainlySpoken
                <5>4. Onward(a, h, t, g, h)
                    BY <4>2, <4>4, <4>7, <4>9, <4>11, <4>13, <5>2, <5>3 DEF Onward
                <5>5. \A p \in Node \ {x} : Informed(a, g, p, node[p])
                    BY <3>7, <4>2, <4>7, <4>10
                <5> QED BY <4>12, <5>1, <5>4, <5>5 DEF Goes, a
            <4>15. CASE should_create(r)
                <5>1. b = create_snapshot(g)
                    BY <2>2, <4>4, <4>15
                <5>2. a.snapshot = None /\ r.commit_index >= SnapshotThreshold
                    <6>1. a.snapshot # None => a.snapshot.last_included_index \in Nat
                        BY <1>1, HistoryTypes
                    <6>2. a.snapshot # None => a.snapshot.last_included_index >= SnapshotThreshold
                        BY <1>1 DEF Leads
                    <6>3. SnapshotThreshold \in Nat
                        BY ContextAssumption
                    <6> QED BY <4>2, <4>15, <6>1, <6>2, <6>3 DEF should_create
                <5>3. g.commit_index \in g.first_log_index..End(g)
                    <6>1. r.commit_index \in c.first_log_index..End(c)
                        BY <3>9 DEF Committed
                    <6> QED BY <3>3, <4>2, <4>7, <4>8, <6>1
                <5>4. Tracks(g, h) /\ g.commit_index = g.last_applied
                    BY <4>9 DEF Keeps
                <5>5. g.snapshot = None
                    BY <4>2, <4>7, <5>2
                <5>6. /\ NodeOK(b, Command)
                      /\ Tracks(b, h)
                      /\ End(b) = End(g)
                      /\ b.snapshot # None
                      /\ b.snapshot.last_included_index = g.commit_index
                      /\ b.id = g.id
                      /\ b.current_term = g.current_term
                      /\ b.commit_index = g.commit_index
                      /\ b.last_applied = g.last_applied
                      /\ b.outbox = g.outbox
                      /\ SameLead(g, b)
                    BY <2>4, <5>1, <5>3, <5>4, <5>5, CreateSnapshotTracks
                <5>7. b.role = Leader /\ b.members = g.members
                      /\ b.catching_up_servers = g.catching_up_servers
                      /\ b.match_index = g.match_index /\ b.next_index = g.next_index
                    BY <4>13, <5>6 DEF SameLead
                <5>8. Keeps(b, h, b)
                    BY <4>9, <5>6, <5>7 DEF Keeps, AsBuilt
                <5>9. Leads(b, h, t)
                    BY <1>1, <4>7, <4>11, <4>13, <5>2, <5>6, <5>7 DEF Leads
                <5>10. Spoken(b)
                    BY <4>6, <5>6, NoMessagesPlainly, PlainlySpoken
                <5>11. Onward(a, h, t, b, h)
                    BY <4>4, <4>7, <4>11, <4>13, <5>2, <5>6, <5>8, <5>9, <5>10 DEF Onward
                <5>12. Counted(b)
                    <6>1. \A p \in Node : Reached(b, p) = Reached(g, p)
                        BY <5>6, <5>7 DEF Reached
                    <6> QED BY <4>12, <5>6, <5>7, <6>1 DEF Counted
                <5>13. SameLead(c, b)
                    BY <4>10, <5>6 DEF SameLead
                <5>14. \A p \in Node \ {x} : Informed(a, b, p, node[p])
                    BY <3>7, <5>2, <5>13
                <5> QED BY <5>11, <5>12, <5>14 DEF Goes, a
            <4> QED BY <4>14, <4>15
        <3> QED BY <3>2, <3>8, <3>9
    <2> QED BY <2>3, <2>6, <2>7
<1> QED BY <1>3, <1>4, <1>5

\* An answer to InstallSnapshot, at the leader.
LEMMA InstalledGoes ==
    ASSUME CommandsOnly, NEW x \in Node, NEW t \in Nat, NEW h \in Histories,
           Accounted(x, t, h), node[x].outbox = no_messages,
           node[x].role = Leader => node[x].current_term = t,
           NEW from \in Node, NEW m \in RaftMsg(Command),
           m.type = "InstallSnapshotResponse", Answers(node[from], t, m),
           NEW b, NodeOK(b, Command), b = handle_install_snapshot_response(node[x], from, m)
    PROVE  Goes(x, t, h, b, h)
<1> DEFINE a == node[x]
           s == a.snapshot.last_included_index
           c == [a EXCEPT !.next_index = insert(@, from, s + 1),
                          !.match_index = insert(@, from, s)]
<1>1. NodeOK(a, Command) /\ a.id = x /\ Leads(a, h, t) /\ Keeps(a, h, a)
      /\ h \in Seq(LogEntry(Command)) /\ a.outbox = no_messages /\ DOMAIN a = NodeFields
    BY DEF CommandsOnly, Accounted, Histories, NodeOK
<1>2. m.term \in Nat /\ a.current_term \in Nat
    BY <1>1 DEF NodeOK, RaftMsg
<1>3. CASE m.term > a.current_term
    <2>1. b = step_down(a, m.term)
        BY <1>3 DEF handle_install_snapshot_response
    <2>2. Still(a, step_down(a, m.term)) /\ step_down(a, m.term).current_term = m.term
        BY <1>1, StepsDown
    <2> QED BY <1>3, <2>1, <2>2, StillGoes
<1>4. CASE /\ ~(m.term > a.current_term)
           /\ \/ a.role # Leader \/ m.term # a.current_term
              \/ a.snapshot = None \/ ~m.success
    <2>1. b = a
        BY <1>4 DEF handle_install_snapshot_response
    <2>2. Still(a, a)
        BY <1>1, UpdatesStill, Zenon
    <2> QED BY <2>1, <2>2, StillGoes
<1>5. CASE /\ ~(m.term > a.current_term)
           /\ a.role = Leader /\ m.term = a.current_term /\ a.snapshot # None /\ m.success
    <2>1. b = check_and_promote_caught_up_server(c, from)
        BY <1>5 DEF handle_install_snapshot_response
    <2>2. node[from].snapshot # None /\ a.current_term = t
        BY <1>5 DEF Answers
    <2>3. s \in Nat
        BY <1>1, <1>5, HistoryTypes
    <2>4. s <= End(node[from])
        <3> DEFINE q == node[from]
        <3>1. NodeOK(q, Command) /\ Keeps(a, h, q)
            BY DEF CommandsOnly, Accounted
        <3>2. Tracks(q, h) /\ q.snapshot = a.snapshot /\ q.snapshot # None
            BY <2>2, <3>1 DEF Keeps
        <3>3. q.first_log_index = s + 1
            BY <3>2 DEF Tracks
        <3>4. q.first_log_index - 1 <= End(q) /\ End(q) \in Nat
            BY <1>1, <3>1, <3>2, TrackedLog
        <3> HIDE DEF q, s
        <3>5. s + 1 - 1 = s
            BY <2>3
        <3> QED BY <2>3, <3>3, <3>4, <3>5 DEF q
    <2>5. a.catching_up_servers = {}
        BY <1>1 DEF Keeps, AsBuilt
    <2>6. /\ SameHistory(a, c) /\ c.role = a.role /\ c.current_term = a.current_term
          /\ c.outbox = a.outbox /\ DOMAIN c = NodeFields
          /\ c.match_index = insert(a.match_index, from, s)
          /\ c.next_index = insert(a.next_index, from, s + 1)
        <3> HIDE DEF a, s
        <3> QED BY <1>1 DEF NodeFields, SameHistory
    <2> HIDE DEF c
    <2>7. c.catching_up_servers = {}
        BY <2>5, <2>6 DEF SameHistory
    <2>8. /\ SameHistory(c, b) /\ b.role = c.role /\ b.current_term = c.current_term
          /\ b.outbox = c.outbox /\ b.match_index = c.match_index /\ b.next_index = c.next_index
        <3> DEFINE d == [c EXCEPT !.catching_up_servers = @ \ {from}]
        <3>1. b = d \/ b = c
            BY <2>1 DEF check_and_promote_caught_up_server
        <3>2. /\ SameHistory(c, d) /\ d.role = c.role /\ d.current_term = c.current_term
              /\ d.outbox = c.outbox /\ d.match_index = c.match_index
              /\ d.next_index = c.next_index
            BY <2>6, <2>7 DEF NodeFields, SameHistory
        <3> HIDE DEF d
        <3>3. SameHistory(c, c)
            BY DEF SameHistory
        <3> QED BY <3>1, <3>2, <3>3
    <2>9. /\ SameHistory(a, b) /\ b.role = Leader /\ b.current_term = t
          /\ b.outbox = no_messages /\ b.match_index = insert(a.match_index, from, s)
          /\ b.next_index = insert(a.next_index, from, s + 1) /\ b.snapshot = a.snapshot
        BY <1>1, <1>5, <2>2, <2>6, <2>8 DEF SameHistory
    <2>10. Spoken(b) /\ Phase(b, h, t)
        BY <2>9, NoMessagesPlainly, PlainlySpoken DEF Phase
    <2>11. Onward(a, h, t, b, h) /\ b.commit_index = a.commit_index
        BY <1>1, <2>9, <2>10, SameOnward
    <2>12. \A p \in Node \ {x} : Informed(a, b, p, node[p])
        <3>1. s >= s
            BY <2>3
        <3> QED BY <1>5, <2>3, <2>4, <2>9, <3>1, NotedInformed
    <2> QED BY <2>11, <2>12 DEF Goes
<1> QED BY <1>3, <1>4, <1>5

\* A command, at the leader.
LEMMA SubmitGoes ==
    ASSUME CommandsOnly, NEW x \in Node, NEW t \in Nat, NEW h \in Histories,
           Accounted(x, t, h), node[x].outbox = no_messages,
           node[x].role = Leader, node[x].current_term = t, NEW type \in Command,
           NEW b, NodeOK(b, Command), b = submit_client_command(node[x], type)
    PROVE  \E g \in Histories : Goes(x, t, h, b, g)
<1> DEFINE a == node[x]
           e == Entry(a, type)
<1>1. NodeOK(a, Command) /\ a.id = x /\ Leads(a, h, t) /\ Keeps(a, h, a)
      /\ h \in Seq(LogEntry(Command)) /\ Plainly(a)
      /\ \A p \in Node \ {x} : Knows(a, p, node[p])
    BY NoMessagesPlainly DEF CommandsOnly, Accounted, Histories
<1>2. Tracks(a, h) /\ End(a) = Len(h) /\ AsBuilt(a) /\ a.commit_index = a.last_applied
      /\ a.commit_index <= End(a) /\ \A k \in DOMAIN h : h[k].term = t
    BY <1>1 DEF Keeps, Leads
<1>3. e \in LogEntry(Command) /\ e.term = t
    BY DEF Entry, LogEntry
<1>4. b = submit_entry(a, type)
    BY DEF submit_client_command
<1> HIDE DEF a, e
<1>5. \E g : Lengthened(h, g, e) /\ Submitted(Command, a, b, h, g)
    BY <1>1, <1>2, <1>4, CommandIsEntryType, SubmitTracks DEF e
<1>6. PICK g : Lengthened(h, g, e) /\ Submitted(Command, a, b, h, g)
    BY <1>5
<1>7. /\ g \in Seq(LogEntry(Command))
      /\ Len(h) <= Len(g)
      /\ \A k \in DOMAIN h : k \in DOMAIN g /\ g[k] = h[k]
    BY <1>1, <1>3, <1>6, LengthenedProperties
<1>8. \A k \in DOMAIN g : g[k].term = t
    <2>1. CASE g = h
        BY <1>2, <2>1
    <2>2. CASE g = Append(h, e)
        <3>1. \A k \in DOMAIN g : k \in DOMAIN h \/ g[k] = e
            BY <1>1, <1>3, <2>2
        <3> QED BY <1>2, <1>3, <1>7, <3>1
    <2> QED BY <1>6, <2>1, <2>2 DEF Lengthened
<1>9. /\ Tracks(b, g) /\ End(b) = Len(g) /\ Spoken(b) /\ b.id = a.id
      /\ b.current_term = a.current_term /\ b.snapshot = a.snapshot /\ SameLead(a, b)
    BY <1>6 DEF Submitted
<1>10. b.role = Leader /\ b.current_term = t /\ AsBuilt(b)
       /\ b.match_index = a.match_index /\ b.next_index = a.next_index
    BY <1>2, <1>9 DEF SameLead, AsBuilt, a
<1>11. Leads(b, g, t)
    BY <1>1, <1>8, <1>9, <1>10 DEF Leads
<1>12. \A p \in Node \ {x} : Informed(a, b, p, node[p])
    BY <1>1, <1>9, <1>10 DEF Knows, Informed, Awaits
<1>13. a.commit_index \in Nat /\ b.commit_index \in Nat /\ Len(h) \in Nat /\ Len(g) \in Nat
    BY <1>1, <1>7, HistoryTypes
<1>14. Keeps(b, g, b) /\ a.commit_index <= b.commit_index
       /\ (b.commit_index = a.commit_index \/ Counted(b))
    <2> DEFINE P(c) == /\ NodeOK(c, Command)
                       /\ OnlyLog(a, c)
                       /\ Tracks(c, g)
                       /\ End(c) = Len(g)
                       /\ Committed(c, b)
    <2>1. \/ b.commit_index = a.commit_index /\ b.last_applied = a.last_applied
          \/ \E c : P(c)
        BY <1>6 DEF Submitted
    <2>2. CASE b.commit_index = a.commit_index /\ b.last_applied = a.last_applied
        <3>1. b.commit_index <= End(b) /\ b.commit_index <= b.commit_index
            BY <1>2, <1>7, <1>9, <1>13, <2>2
        <3> QED BY <1>2, <1>9, <1>10, <2>2, <3>1 DEF Keeps
    <2>3. CASE \E c : P(c)
        <3>1. PICK c : P(c)
            BY <2>3
        <3>2. AsBuilt(c) /\ b.id = c.id /\ c.commit_index = c.last_applied
              /\ SameLead(c, b) /\ End(b) = End(c) /\ c.commit_index = a.commit_index
            BY <1>2, <1>9, <3>1 DEF OnlyLog, SameLead, AsBuilt
        <3>3. g \in Histories
            BY <1>7 DEF Histories
        <3>4. Keeps(b, g, b) /\ Counted(b) /\ c.commit_index < b.commit_index
            BY <1>9, <3>1, <3>2, <3>3, CommittedKeeps
        <3> QED BY <1>13, <3>2, <3>4
    <2> QED BY <2>1, <2>2, <2>3
<1>15. g \in Histories
    BY <1>7 DEF Histories
<1>16. Onward(a, h, t, b, g)
    BY <1>7, <1>9, <1>10, <1>11, <1>14, <1>15 DEF Onward
<1>17. Goes(x, t, h, b, g)
    BY <1>12, <1>14, <1>16 DEF Goes, a
<1> QED BY <1>15, <1>17

\* No event changes the id of a node.
LEMMA EventIds ==
    ASSUME CommandsOnly, NEW i \in Node
    PROVE  /\ channel[i] # <<>> /\ node[i].outbox = no_messages =>
                  handle_message(node[i], Head(channel[i]).from,
                                 Head(channel[i]).message).id = i
           /\ node[i].outbox = no_messages => handle_election_timer(node[i]).id = i
           /\ handle_heartbeat_timer(node[i]).id = i
           /\ \A c \in Command : submit_client_command(node[i], c).id = i
<1> DEFINE T == Command
<1>1. NodeOK(node[i], T) /\ node[i].id = i /\ T \in EntryTypes
    BY CommandIsEntryType DEF CommandsOnly
<1>2. ASSUME NEW b, \/ Quiet(node[i], b, T) \/ Starts(node[i], b, T)
                    \/ \E c, t : Votes(node[i], b, c, t) \/ Counts(node[i], b, c, t)
      PROVE  b.id = i
    BY <1>1, <1>2 DEF Quiet, Starts, Votes, Counts
<1>3. node[i].outbox = no_messages => Silent(node[i])
    BY DEF Silent, no_messages
<1>4. ASSUME channel[i] # <<>>, node[i].outbox = no_messages
      PROVE  handle_message(node[i], Head(channel[i]).from, Head(channel[i]).message).id = i
    <2> DEFINE from == Head(channel[i]).from
               m == Head(channel[i]).message
               b == handle_message(node[i], from, m)
    <2>1. from \in Node /\ m \in RaftMsg(T)
        BY <1>4, HeadOfQueue
    <2> HIDE DEF from, m
    <2>2. \/ Quiet(node[i], b, T) \/ Starts(node[i], b, T)
          \/ m.type = "RequestVote" /\ Votes(node[i], b, from, m.term)
          \/ m = Grant(m.term) /\ Counts(node[i], b, from, m.term)
        BY <1>1, <1>4, <2>1, HandleMessageStep
    <2> HIDE DEF b
    <2>3. b.id = i
        BY <1>2, <2>2, Zenon
    <2> QED BY <2>3 DEF b, from, m
<1>5. node[i].outbox = no_messages => handle_election_timer(node[i]).id = i
    BY <1>1, <1>2, <1>3, ElectionTimerStep, Zenon
<1>6. handle_heartbeat_timer(node[i]).id = i
    BY <1>1, <1>2, HeartbeatQuiet, Zenon
<1>7. \A c \in Command : submit_client_command(node[i], c).id = i
    BY <1>1, <1>2, SubmitQuiet, Zenon
<1> QED BY <1>4, <1>5, <1>6, <1>7

\* A history that goes on where h ends.
Continues(h, g) ==
    /\ g \in Histories
    /\ Len(h) <= Len(g)
    /\ \A k \in DOMAIN h : k \in DOMAIN g /\ g[k] = h[k]

\* Everything is accounted for when x has gone on.
LEMMA GoesAccounted ==
    ASSUME CommandsOnly, NEW x \in Node, NEW t, NEW h \in Histories, Accounted(x, t, h),
           NEW b, NodeOK(b, Command), b.id = x, NEW g, Goes(x, t, h, b, g),
           NEW d, Takes(x, b, d)
    PROVE  CommandsOnly' /\ Accounted(x, t, g)' /\ Continues(h, g) /\ Growing
<1>1. /\ Onward(node[x], h, t, b, g)
      /\ \A p \in Node \ {x} : Informed(node[x], b, p, node[p])
      /\ b.commit_index = node[x].commit_index \/ Counted(b)
    BY DEF Goes
<1>2. CommandsOnly' /\ Accounted(x, t, g)' /\ Growing
    BY <1>1, LeaderTakes
<1>3. Continues(h, g)
    BY <1>1 DEF Onward, Continues
<1> QED BY <1>2, <1>3

\* A message, at x.
LEMMA LeaderHandles ==
    ASSUME CommandsOnly, NEW x \in Node, NEW t \in Nat, NEW h \in Histories,
           Accounted(x, t, h), channel[x] # <<>>, node[x].outbox = no_messages,
           node[x].role = Leader => node[x].current_term = t, NEW b,
           NodeOK(b, Command), b.role = Leader => b.current_term = t,
           b = handle_message(node[x], Head(channel[x]).from, Head(channel[x]).message)
    PROVE  Goes(x, t, h, b, h)
<1> DEFINE a == node[x]
           from == Head(channel[x]).from
           m == Head(channel[x]).message
<1>1. NodeOK(a, Command) /\ Plainly(a)
    BY NoMessagesPlainly DEF CommandsOnly
<1>2. /\ from \in Node /\ m \in RaftMsg(Command) /\ 1 \in DOMAIN channel[x]
      /\ from = channel[x][1].from /\ m = channel[x][1].message
    BY HeadOfQueue
<1>3. ~Replicates(m)
    BY <1>2 DEF Accounted, OthersAreSilent
<1>4. Answers(node[from], t, m)
    BY <1>2 DEF Accounted, AnswersFit
<1>5. b = handle_message(a, from, m) /\ m.term \in Nat
    BY <1>2 DEF RaftMsg
<1> HIDE DEF from, m
<1>6. CASE m.type = "PreVoteRequest"
    <2>1. Voting(a, handle_pre_vote_request(a, from, m))
        BY <1>1, <1>2, <1>5, VoteRequestVoting, Zenon
    <2>2. b = handle_pre_vote_request(a, from, m)
        BY <1>5, <1>6 DEF handle_message
    <2> QED BY <2>1, <2>2, VotingGoes
<1>7. CASE m.type = "PreVoteResponse"
    <2>1. Voting(a, handle_pre_vote_response(a, from, m))
        BY <1>1, <1>2, <1>5, VoteResponseVoting, Zenon
    <2>2. b = handle_pre_vote_response(a, from, m)
        BY <1>5, <1>7 DEF handle_message
    <2> QED BY <2>1, <2>2, VotingGoes
<1>8. CASE m.type = "RequestVote"
    <2>1. Voting(a, handle_vote_request(a, from, m))
        BY <1>1, <1>2, <1>5, VoteRequestVoting, Zenon
    <2>2. b = handle_vote_request(a, from, m)
        BY <1>5, <1>8 DEF handle_message
    <2> QED BY <2>1, <2>2, VotingGoes
<1>9. CASE m.type = "RequestVoteResponse"
    <2>1. Voting(a, handle_vote_response(a, from, m))
        BY <1>1, <1>2, <1>5, VoteResponseVoting, Zenon
    <2>2. b = handle_vote_response(a, from, m)
        BY <1>5, <1>9 DEF handle_message
    <2> QED BY <2>1, <2>2, VotingGoes
<1>10. CASE m.type = "AppendEntriesResponse"
    <2>1. m \in AppendEntriesResponseMsg
        BY <1>2, <1>10 DEF RaftMsg, AppendEntriesResponseMsg
    <2>2. b = handle_append_entries_response(a, from, m)
        BY <1>5, <1>10 DEF handle_message
    <2> QED BY <1>2, <1>4, <2>1, <2>2, AnswerGoes
<1>11. CASE m.type = "InstallSnapshotResponse"
    <2>1. b = handle_install_snapshot_response(a, from, m)
        BY <1>5, <1>11 DEF handle_message
    <2> QED BY <1>2, <1>4, <1>11, <2>1, InstalledGoes
<1>12. m.type \in {"PreVoteRequest", "RequestVote", "PreVoteResponse",
                   "RequestVoteResponse", "AppendEntries", "AppendEntriesResponse",
                   "InstallSnapshot", "InstallSnapshotResponse"}
    BY <1>2 DEF RaftMsg
<1> QED BY <1>3, <1>6, <1>7, <1>8, <1>9, <1>10, <1>11, <1>12 DEF Replicates

\* Everything is accounted for after any event of x.
LEMMA LeaderEvents ==
    ASSUME CommandsOnly, NEW x \in Node, NEW t \in Nat, NEW h \in Histories,
           Accounted(x, t, h), OnlyLeaderIn(x, t), OnlyLeaderIn(x, t)',
           \/ Receive(x) \/ ElectionTimer(x) \/ HeartbeatTimer(x)
           \/ \E c \in Command : ClientCommand(x, c)
    PROVE  CommandsOnly' /\ Growing /\ \E g : Accounted(x, t, g)' /\ Continues(h, g)
<1>1. /\ node[x].role = Leader => node[x].current_term = t
      /\ node'[x].role = Leader => node'[x].current_term = t
    BY DEF OnlyLeaderIn
<1>2. NodeOK(node[x], Command) /\ node[x].id = x /\ x \in DOMAIN node
    BY DEF CommandsOnly
<1>3. CASE Receive(x)
    <2> DEFINE b == handle_message(node[x], Head(channel[x]).from, Head(channel[x]).message)
    <2>1. channel[x] # <<>> /\ node[x].outbox = no_messages /\ Takes(x, b, 1)
        BY <1>3 DEF Receive, Step, Takes
    <2>2. NodeOK(b, Command) /\ b.id = x
        BY <2>1, EventTypes, EventIds
    <2>3. node'[x] = b
        BY <1>2, <1>3 DEF Receive, Step
    <2> HIDE DEF b
    <2>4. Goes(x, t, h, b, h)
        BY <1>1, <2>1, <2>2, <2>3, LeaderHandles DEF b
    <2> QED BY <2>1, <2>2, <2>4, GoesAccounted
<1>4. CASE ElectionTimer(x)
    <2> DEFINE b == handle_election_timer(node[x])
    <2>1. node[x].outbox = no_messages /\ Takes(x, b, 0) /\ node'[x] = b
        BY <1>2, <1>4 DEF ElectionTimer, Step, Takes
    <2>2. NodeOK(b, Command) /\ b.id = x
        BY <2>1, EventTypes, EventIds
    <2>3. Voting(node[x], b)
        <3>1. Plainly(node[x])
            BY <2>1, NoMessagesPlainly
        <3> QED BY <1>2, <3>1, ElectionTimerVoting, Zenon
    <2> HIDE DEF b
    <2>4. Goes(x, t, h, b, h)
        BY <1>1, <2>1, <2>2, <2>3, VotingGoes
    <2> QED BY <2>1, <2>2, <2>4, GoesAccounted
<1>5. CASE HeartbeatTimer(x)
    <2> DEFINE b == handle_heartbeat_timer(node[x])
    <2>1. node[x].outbox = no_messages /\ Takes(x, b, 0) /\ node[x].role = Leader
        BY <1>5 DEF HeartbeatTimer, Step, Takes
    <2>2. NodeOK(b, Command) /\ b.id = x
        BY EventTypes, EventIds
    <2> HIDE DEF b
    <2>3. Goes(x, t, h, b, h)
        BY <1>1, <2>1, <2>2, HeartbeatGoes DEF b
    <2> QED BY <2>1, <2>2, <2>3, GoesAccounted
<1>6. CASE \E c \in Command : ClientCommand(x, c)
    <2>1. PICK c \in Command : ClientCommand(x, c)
        BY <1>6
    <2> DEFINE b == submit_client_command(node[x], c)
    <2>2. node[x].outbox = no_messages /\ Takes(x, b, 0) /\ node[x].role = Leader
        BY <2>1 DEF ClientCommand, Step, Takes
    <2>3. NodeOK(b, Command) /\ b.id = x
        BY EventTypes, EventIds
    <2> HIDE DEF b
    <2>4. \E g \in Histories : Goes(x, t, h, b, g)
        BY <1>1, <2>2, <2>3, SubmitGoes DEF b
    <2>5. PICK g \in Histories : Goes(x, t, h, b, g)
        BY <2>4
    <2> QED BY <2>2, <2>3, <2>5, GoesAccounted
<1> QED BY <1>3, <1>4, <1>5, <1>6

-----------------------------------------------------------------------------
(* Steps, and the first state                                              *)

\* Any step, as long as x is the only leader, and only in term t.
LEMMA NextAccounted ==
    ASSUME CommandsOnly, NEW x \in Node, NEW t \in Nat, NEW h \in Histories,
           Accounted(x, t, h), OnlyLeaderIn(x, t), OnlyLeaderIn(x, t)', [Next]_vars
    PROVE  CommandsOnly' /\ Growing /\ \E g : Accounted(x, t, g)' /\ Continues(h, g)
<1>1. Continues(h, h)
    BY DEF Continues
<1>2. CASE \E i, j \in Node : Send(i, j)
    BY <1>1, <1>2, SendAccounted
<1>3. ASSUME NEW i \in Node,
             \/ Receive(i) \/ ElectionTimer(i) \/ HeartbeatTimer(i)
             \/ \E c \in Command : ClientCommand(i, c)
      PROVE  CommandsOnly' /\ Growing /\ \E g : Accounted(x, t, g)' /\ Continues(h, g)
    <2>1. CASE i = x
        BY <1>3, <2>1, LeaderEvents
    <2>2. CASE i # x
        BY <1>1, <1>3, <2>2, PeerEvents
    <2> QED BY <2>1, <2>2
<1>4. CASE UNCHANGED vars
    <2>1. node' = node /\ channel' = channel
        BY <1>4 DEF vars
    <2>2. CommandsOnly'
        BY <2>1 DEF CommandsOnly
    <2>3. Accounted(x, t, h)'
        BY <2>1 DEF Accounted, LineFits, OthersAreSilent, AnswersFit, Stored
    <2>4. Growing
        <3>1. \A q \in Node : End(node[q]) \in Int
            BY EndType DEF CommandsOnly
        <3> QED BY <2>1, <3>1 DEF Growing
    <2> QED BY <1>1, <2>2, <2>3, <2>4
<1>5. Next \/ UNCHANGED vars
    OBVIOUS
<1> QED BY <1>2, <1>3, <1>4, <1>5 DEF Next

\* Nothing has happened yet.
LEMMA InitAccounted ==
    ASSUME Init, NEW x \in Node, NEW t \in Nat
    PROVE  CommandsOnly /\ Accounted(x, t, <<>>)
<1>1. /\ DOMAIN node = Node /\ \A i \in Node : node[i] = start_node(i, new_storage)
      /\ DOMAIN channel = Node /\ \A j \in Node : channel[j] = <<>>
    BY DEF Init
<1>2. ASSUME NEW i \in Node
      PROVE  /\ node[i].id = i
             /\ node[i].snapshot = None
             /\ node[i].first_log_index = 1
             /\ node[i].commit_index = 0
             /\ node[i].last_applied = 0
             /\ node[i].next_index = new_map
             /\ node[i].match_index = new_map
             /\ node[i].catching_up_servers = {}
             /\ node[i].members = [p \in Node |-> IF p \in InitialMembers \cup {i} THEN 1 ELSE 0]
             /\ node[i].outbox = no_messages
    BY <1>1 DEF start_node, new_from_builder, new_storage
<1>3. ASSUME NEW i \in Node
      PROVE  NodeOK(node[i], Command) /\ Tracks(node[i], <<>>) /\ End(node[i]) = 0
    <2>1. NodeOK(start_node(i, new_storage), Command)
        BY NewNodeType, Zenon DEF start_node
    <2> QED BY <1>1, <2>1, FreshTracks
<1>4. CommandsOnly
    <2>1. <<>> \in Seq([from : Node, message : RaftMsg(Command)])
        OBVIOUS
    <2> QED BY <1>1, <1>2, <1>3, <2>1 DEF CommandsOnly
<1>5. Len(<<>>) = 0 /\ \A k \in DOMAIN <<>> : FALSE
    OBVIOUS
<1>6. Leads(node[x], <<>>, t)
    BY <1>2, <1>3, <1>5 DEF Leads
<1>7. ASSUME NEW i \in Node PROVE Keeps(node[x], <<>>, node[i])
    <2>1. AsBuilt(node[i])
        BY <1>2 DEF AsBuilt
    <2>2. /\ node[i].snapshot = None /\ node[i].commit_index = 0
          /\ node[i].last_applied = 0 /\ node[x].commit_index = 0
        BY <1>2
    <2>3. Tracks(node[i], <<>>) /\ End(node[i]) = 0
        BY <1>3
    <2> QED BY <2>1, <2>2, <2>3 DEF Keeps
<1>8. ASSUME NEW p \in Node PROVE Knows(node[x], p, node[p])
    <2>1. get(new_map, p, 1) = 1 /\ get(new_map, p, 0) = 0
        BY DEF get, new_map
    <2>2. /\ node[x].next_index = new_map /\ node[x].match_index = new_map
          /\ node[x].snapshot = None
        BY <1>2
    <2>3. End(node[p]) = 0
        BY <1>3
    <2> QED BY <2>1, <2>2, <2>3 DEF Knows, Awaits
<1>9. ASSUME NEW i \in Node, NEW j \in Node PROVE node[i].outbox[j] = <<>>
    <2>1. node[i].outbox = no_messages
        BY <1>2
    <2> QED BY <2>1 DEF no_messages
<1>10. ASSUME NEW p \in Node PROVE LineFits(x, t, <<>>, p)
    BY <1>1, <1>5, <1>9 DEF LineFits, InOrder
<1>11. OthersAreSilent(x) /\ AnswersFit(x, t)
    BY <1>1, <1>5, <1>9 DEF OthersAreSilent, AnswersFit
<1>12. Stored(x)
    <2> DEFINE members == node[x].members
    <2>1. members \in NodeCollections
        BY <1>3 DEF NodeOK
    <2>2. [p \in Node |-> IF End(node[p]) >= node[x].commit_index THEN members[p] ELSE 0] = members
        <3>1. node[x].commit_index = 0
            BY <1>2
        <3>2. \A p \in Node : End(node[p]) = 0
            BY <1>3
        <3>3. \A p \in Node : End(node[p]) >= node[x].commit_index
            BY <3>1, <3>2
        <3> HIDE DEF members
        <3> QED BY <2>1, <3>3 DEF NodeCollections
    <2>3. has_quorum(members, len(members))
        <3>1. len(members) \in Nat
            BY <2>1, LenType
        <3> HIDE DEF members
        <3> QED BY <3>1 DEF has_quorum, quorum_size, size
    <2> QED BY <2>2, <2>3 DEF Stored
<1> QED BY <1>4, <1>6, <1>7, <1>8, <1>10, <1>11, <1>12 DEF Accounted

-----------------------------------------------------------------------------
(* What is safe                                                            *)

\* The history is what the leader has, with its snapshot and its log.
LEMMA HistoryIsFullLog ==
    ASSUME CommandsOnly, NEW x \in Node, NEW t, NEW h \in Histories, Accounted(x, t, h)
    PROVE  FullLog(node[x], t) = h
<1> DEFINE n == node[x]
<1>1. NodeOK(n, Command) /\ Tracks(n, h) /\ Leads(n, h, t)
    BY DEF CommandsOnly, Accounted, Keeps
<1> HIDE DEF n
<1>2. h \in Seq(LogEntry(Command)) /\ Len(h) \in Nat /\ DOMAIN h = 1..Len(h)
    BY DEF Histories
<1>3. \A k \in n.first_log_index..End(n) : get_entry(n, k) = h[k]
    BY <1>1, <1>2, TrackedLog
<1>4. End(n) = Len(h) /\ \A k \in DOMAIN h : h[k].term = t
    BY <1>1 DEF Leads
<1>5. n.first_log_index \in Nat
    BY <1>1 DEF NodeOK
<1>6. ASSUME NEW k \in 1..End(n), k < n.first_log_index
      PROVE  [term |-> t, entry_type |-> n.snapshot.data[k]] = h[k]
    <2>1. k \in DOMAIN h /\ k \in Nat \ {0}
        BY <1>2, <1>4
    <2>2. n.snapshot # None
        BY <1>1, <1>6, <2>1 DEF Tracks
    <2>3. /\ n.first_log_index = n.snapshot.last_included_index + 1
          /\ n.snapshot.data = Applied(h, n.snapshot.last_included_index)
        BY <1>1, <2>2 DEF Tracks
    <2>4. n.snapshot.last_included_index \in Nat
        BY <1>1, <2>2 DEF NodeOK, Optional, Snapshot
    <2>5. k \in 1..n.snapshot.last_included_index
        BY <1>6, <2>1, <2>3, <2>4
    <2>6. n.snapshot.data[k] = Shown(h[k])
        BY <2>3, <2>5 DEF Applied
    <2>7. h[k] \in LogEntry(Command)
        BY <1>2, <2>1
    <2>8. h[k].entry_type \in Command /\ h[k] = [term |-> h[k].term, entry_type |-> h[k].entry_type]
        BY <2>7 DEF LogEntry
    <2>9. Shown(h[k]) = h[k].entry_type
        BY <2>8, ContextAssumption DEF Shown
    <2> QED BY <1>4, <2>1, <2>6, <2>8, <2>9
<1>7. ASSUME NEW k \in 1..End(n), ~(k < n.first_log_index)
      PROVE  get_entry(n, k) = h[k]
    <2>1. k \in n.first_log_index..End(n)
        BY <1>2, <1>4, <1>5, <1>7
    <2> QED BY <1>3, <2>1
<1>8. h = [k \in 1..End(n) |-> h[k]]
    BY <1>2, <1>4
<1>9. FullLog(n, t) = [k \in 1..End(n) |-> h[k]]
    BY <1>6, <1>7 DEF FullLog
<1> QED BY <1>8, <1>9 DEF n

\* Where everything is accounted for, the promises of RaftNodes are kept.
LEMMA AccountedIsSafe ==
    ASSUME CommandsOnly, NEW x \in Node, NEW t, NEW h \in Histories,
           Accounted(x, t, h), OnlyLeaderIn(x, t)
    PROVE  StateMachineSafety /\ AppliedIsPresent /\ CommittedOnMajority
<1>1. ASSUME NEW i \in Node
      PROVE  /\ NodeOK(node[i], Command)
             /\ node[i].last_applied \in Nat
             /\ Tracks(node[i], h)
             /\ node[i].state_machine = Applied(h, node[i].last_applied)
             /\ node[i].snapshot \in {None, node[x].snapshot}
    BY DEF CommandsOnly, NodeOK, Accounted, Keeps, Tracks
<1>2. h \in Seq(LogEntry(Command))
    BY DEF Histories
<1>3. ASSUME NEW i \in Node, NEW j \in Node,
             NEW k \in DOMAIN node[i].state_machine \cap DOMAIN node[j].state_machine
      PROVE  node[i].state_machine[k] = node[j].state_machine[k]
    <2>1. ASSUME NEW a \in Nat, NEW l \in DOMAIN Applied(h, a)
          PROVE  Applied(h, a)[l] = Shown(h[l])
        BY DEF Applied
    <2> QED BY <1>1, <2>1
<1>4. ASSUME NEW i \in Node, NEW k \in 1..node[i].last_applied
      PROVE  k \in DOMAIN node[i].state_machine
    BY <1>1 DEF Applied
<1>5. ASSUME NEW i \in Node, NEW k \in 1..node[i].commit_index,
             node[i].role = Leader, has_entry(node[i], k)
      PROVE  LET holders == [p \in Node |->
                     IF has_entry(node[p], k) /\ get_entry(node[p], k) = get_entry(node[i], k)
                     THEN node[i].members[p] ELSE 0]
             IN  has_quorum(node[i].members, len(holders))
    <2> DEFINE members == node[x].members
               holders == [p \in Node |->
                   IF has_entry(node[p], k) /\ get_entry(node[p], k) = get_entry(node[i], k)
                   THEN members[p] ELSE 0]
               reach == [p \in Node |-> IF End(node[p]) >= node[x].commit_index
                                        THEN members[p] ELSE 0]
    <2>1. i = x
        BY <1>5 DEF OnlyLeaderIn
    <2>2. /\ members \in NodeCollections /\ node[x].commit_index \in Nat
        BY <1>1 DEF NodeOK
    <2>3. k \in Int /\ k <= node[x].commit_index
        BY <2>1, <2>2
    <2>4. k \in node[x].first_log_index..End(node[x]) /\ get_entry(node[x], k) = h[k]
        BY <1>1, <1>2, <1>5, <2>1, <2>3, TrackedLog
    <2>5. ASSUME NEW p \in Node, End(node[p]) >= node[x].commit_index
          PROVE  has_entry(node[p], k) /\ get_entry(node[p], k) = get_entry(node[i], k)
        <3>1. /\ node[p].first_log_index \in Nat \ {0}
              /\ node[x].first_log_index \in Nat \ {0}
              /\ End(node[p]) \in Int
            BY <1>1, EndType DEF NodeOK
        <3>2. node[p].first_log_index \in {1, node[x].first_log_index}
            BY <1>1 DEF Tracks
        <3>3. k \in node[p].first_log_index..End(node[p])
            BY <2>2, <2>3, <2>4, <2>5, <3>1, <3>2
        <3>4. has_entry(node[p], k) /\ get_entry(node[p], k) = h[k]
            BY <1>1, <1>2, <2>3, <3>3, TrackedLog
        <3> QED BY <2>1, <2>4, <3>4
    <2>6. holders \in NodeCollections /\ reach \in NodeCollections
        BY <2>2 DEF NodeCollections
    <2>7. \A p \in Node : reach[p] <= holders[p]
        <3>1. \A p \in Node : members[p] \in Nat
            BY <2>2 DEF NodeCollections
        <3> HIDE DEF members
        <3> QED BY <2>5, <3>1
    <2>8. has_quorum(members, len(reach))
        BY DEF Accounted, Stored
    <2> HIDE DEF members, holders, reach
    <2>9. len(reach) <= len(holders)
        BY <2>6, <2>7, LenMore
    <2>10. len(reach) \in Nat /\ len(holders) \in Nat /\ len(members) \in Nat
        BY <2>2, <2>6, LenType
    <2>11. quorum_size(members) \in Nat
        BY <2>10 DEF quorum_size, size
    <2>12. has_quorum(members, len(holders))
        BY <2>8, <2>9, <2>10, <2>11 DEF has_quorum
    <2> QED BY <2>1, <2>12 DEF members, holders
<1>6. StateMachineSafety
    BY <1>3 DEF StateMachineSafety
<1>7. AppliedIsPresent
    BY <1>4 DEF AppliedIsPresent
<1>8. CommittedOnMajority
    BY <1>5 DEF CommittedOnMajority
<1> QED BY <1>6, <1>7, <1>8

\* A step leaves every entry where it is, or in a snapshot.
LEMMA EntriesStay ==
    ASSUME CommandsOnly, CommandsOnly', NEW x \in Node, NEW t, NEW h \in Histories,
           Accounted(x, t, h), NEW g, Accounted(x, t, g)', Continues(h, g), Growing,
           NEW i \in Node, NEW k \in Int, has_entry(node[i], k)
    PROVE  \/ has_entry(node'[i], k) /\ get_entry(node'[i], k) = get_entry(node[i], k)
           \/ node'[i].snapshot # None /\ k <= node'[i].snapshot.last_included_index
<1> DEFINE a == node[i]
           b == node'[i]
<1>1. NodeOK(a, Command) /\ Tracks(a, h)
    BY DEF CommandsOnly, Accounted, Keeps
<1>2. NodeOK(b, Command) /\ Tracks(b, g)
    BY DEF CommandsOnly, Accounted, Keeps
<1>3. End(a) <= End(b) /\ has_entry(a, k)
    BY DEF Growing
<1> HIDE DEF a, b
<1>4. /\ h \in Seq(LogEntry(Command)) /\ g \in Seq(LogEntry(Command))
      /\ \A l \in DOMAIN h : g[l] = h[l]
    BY DEF Histories, Continues
<1>5. k \in a.first_log_index..End(a) /\ k \in DOMAIN h /\ get_entry(a, k) = h[k]
    BY <1>1, <1>3, <1>4, TrackedLog
<1>6. /\ End(a) \in Int /\ End(b) \in Int
      /\ a.first_log_index \in Nat /\ b.first_log_index \in Nat
    BY <1>1, <1>2, EndType DEF NodeOK
<1>7. CASE k >= b.first_log_index
    <2>1. k \in b.first_log_index..End(b)
        BY <1>3, <1>5, <1>6, <1>7
    <2>2. has_entry(b, k) /\ get_entry(b, k) = g[k]
        BY <1>2, <1>4, <2>1, TrackedLog
    <2> QED BY <1>4, <1>5, <2>2 DEF a, b
<1>8. CASE k < b.first_log_index
    <2>1. k > 0
        <3>1. a.first_log_index > 0
            BY <1>1 DEF NodeOK
        <3> QED BY <1>5, <1>6, <3>1
    <2>2. b.snapshot # None
        BY <1>2, <1>8, <2>1 DEF Tracks
    <2>3. b.first_log_index = b.snapshot.last_included_index + 1
        BY <1>2, <2>2 DEF Tracks
    <2>4. b.snapshot.last_included_index \in Nat
        BY <1>2, <2>2 DEF NodeOK, Optional, Snapshot
    <2>5. k <= b.snapshot.last_included_index
        BY <1>8, <2>3, <2>4
    <2> QED BY <2>2, <2>5 DEF b
<1> QED BY <1>6, <1>7, <1>8

\* There is a history for which everything is accounted for.
Accountable(x, t) == CommandsOnly /\ \E h \in Histories : Accounted(x, t, h)

\* As long as x alone leads, and only in term t, there is such a history.
LEMMA AlwaysAccountable ==
    ASSUME NEW x \in Node, NEW t \in Nat
    PROVE  Spec /\ []OnlyLeaderIn(x, t) => []Accountable(x, t)
<1>1. Init => Accountable(x, t)
    <2> SUFFICES ASSUME Init PROVE Accountable(x, t)
        OBVIOUS
    <2>1. CommandsOnly /\ Accounted(x, t, <<>>)
        BY InitAccounted
    <2>2. <<>> \in Histories
        BY DEF Histories
    <2> QED BY <2>1, <2>2 DEF Accountable
<1>2. OnlyLeaderIn(x, t) /\ OnlyLeaderIn(x, t)' /\ Accountable(x, t) /\ [Next]_vars
      => Accountable(x, t)'
    <2> SUFFICES ASSUME OnlyLeaderIn(x, t), OnlyLeaderIn(x, t)', Accountable(x, t), [Next]_vars
                 PROVE  Accountable(x, t)'
        OBVIOUS
    <2>1. PICK h \in Histories : Accounted(x, t, h)
        BY DEF Accountable
    <2>2. CommandsOnly' /\ \E g : Accounted(x, t, g)' /\ Continues(h, g)
        BY <2>1, NextAccounted DEF Accountable
    <2> QED BY <2>2 DEF Accountable, Continues
<1> QED BY <1>1, <1>2, PTL DEF Spec

\* As long as x alone leads, and only in term t, everything that it commits
\* over channels is accounted for: the logs, state machines and snapshots of
\* all nodes are parts of what x has, what is in the queues can be handled in
\* the order in which it comes, and a majority has what x has committed.
THEOREM OneTermCommitsAccounted ==
    ASSUME NEW x \in Node, NEW t \in Nat
    PROVE  Spec /\ []OnlyLeaderIn(x, t) => []CommitsAccounted(x, t)
<1>1. Accountable(x, t) => CommitsAccounted(x, t)
    BY HistoryIsFullLog DEF Accountable, CommitsAccounted
<1> QED BY <1>1, AlwaysAccountable, PTL

\* State Machine Safety over channels under one leader: neither an entry nor
\* a snapshot gives a state machine another command than the leader's.
THEOREM OneTermStateMachineSafety ==
    ASSUME NEW x \in Node, NEW t \in Nat
    PROVE  Spec /\ []OnlyLeaderIn(x, t) => []StateMachineSafety
<1>1. OnlyLeaderIn(x, t) /\ Accountable(x, t) => StateMachineSafety
    BY AccountedIsSafe DEF Accountable
<1> QED BY <1>1, AlwaysAccountable, PTL

\* Over channels under one leader, what apply_committed_entries counts as
\* applied is in the state machine: no restore from a snapshot takes it back.
THEOREM OneTermAppliedIsPresent ==
    ASSUME NEW x \in Node, NEW t \in Nat
    PROVE  Spec /\ []OnlyLeaderIn(x, t) => []AppliedIsPresent
<1>1. OnlyLeaderIn(x, t) /\ Accountable(x, t) => AppliedIsPresent
    BY AccountedIsSafe DEF Accountable
<1> QED BY <1>1, AlwaysAccountable, PTL

\* Over channels under one leader, what advance_commit_index commits is stored
\* by a majority of the members: the match indices it takes the median of are
\* never more than what the followers have.
THEOREM OneTermCommittedOnMajority ==
    ASSUME NEW x \in Node, NEW t \in Nat
    PROVE  Spec /\ []OnlyLeaderIn(x, t) => []CommittedOnMajority
<1>1. OnlyLeaderIn(x, t) /\ Accountable(x, t) => CommittedOnMajority
    BY AccountedIsSafe DEF Accountable
<1> QED BY <1>1, AlwaysAccountable, PTL

\* Over channels under one leader no step takes back an entry a node knows to
\* be committed: it stays as it is until a snapshot covers it.
THEOREM OneTermCommittedEntriesStay ==
    ASSUME NEW x \in Node, NEW t \in Nat
    PROVE  Spec /\ []OnlyLeaderIn(x, t) => CommittedEntriesStay
<1> DEFINE Stay == \A i \in Node : \A k \in 1..node[i].commit_index :
               has_entry(node[i], k) =>
                   \/ has_entry(node'[i], k) /\ get_entry(node'[i], k) = get_entry(node[i], k)
                   \/ /\ node'[i].snapshot # None
                      /\ k <= node'[i].snapshot.last_included_index
<1>1. OnlyLeaderIn(x, t) /\ OnlyLeaderIn(x, t)' /\ Accountable(x, t) /\ [Next]_vars => [Stay]_node
    <2> SUFFICES ASSUME OnlyLeaderIn(x, t), OnlyLeaderIn(x, t)', Accountable(x, t), [Next]_vars
                 PROVE  Stay
        OBVIOUS
    <2>1. PICK h \in Histories : Accounted(x, t, h)
        BY DEF Accountable
    <2>2. CommandsOnly' /\ Growing /\ \E g : Accounted(x, t, g)' /\ Continues(h, g)
        BY <2>1, NextAccounted DEF Accountable
    <2>3. PICK g : Accounted(x, t, g)' /\ Continues(h, g)
        BY <2>2
    <2>4. CommandsOnly
        BY DEF Accountable
    <2> QED BY <2>1, <2>2, <2>3, <2>4, EntriesStay
<1> QED BY <1>1, AlwaysAccountable, PTL DEF Spec, CommittedEntriesStay
=============================================================================

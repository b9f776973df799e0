-------------------------- MODULE ReplicationProofs --------------------------
(***************************************************************************)
(* What the handlers do to the part of a node that follows a leader: its   *)
(* log, its snapshot, what it has applied and how it is configured.  With  *)
(* messages out of a log h, a node that tracks h goes on tracking it.      *)
(***************************************************************************)
EXTENDS History, RaftNodeProofs

-----------------------------------------------------------------------------
(* Logs that are part of a history                                         *)

\* The numbers of a node and of the history.
LEMMA HistoryTypes ==
    ASSUME NEW T, NEW n, NodeOK(n, T), NEW h \in Seq(LogEntry(T))
    PROVE  /\ n.log \in Seq(LogEntry(T)) /\ Len(n.log) \in Nat
           /\ DOMAIN n.log = 1..Len(n.log)
           /\ n.first_log_index \in Nat \ {0}
           /\ n.snapshot # None => n.snapshot.last_included_index \in Nat
           /\ n.last_applied \in Nat /\ n.commit_index \in Nat
           /\ Len(h) \in Nat /\ DOMAIN h = 1..Len(h)
<1>1. Len(h) \in Nat /\ DOMAIN h = 1..Len(h)
    OBVIOUS
<1>2. n.log \in Seq(LogEntry(T)) /\ Len(n.log) \in Nat /\ DOMAIN n.log = 1..Len(n.log)
    BY DEF NodeOK
<1>3. n.snapshot # None => n.snapshot.last_included_index \in Nat
    BY DEF NodeOK, Optional, Snapshot
<1>4. n.first_log_index \in Nat \ {0} /\ n.last_applied \in Nat /\ n.commit_index \in Nat
    BY DEF NodeOK
<1> QED BY <1>1, <1>2, <1>3, <1>4

\* Where the entries of a log are in the history.
LEMMA TrackedLog ==
    ASSUME NEW T, NEW n, NodeOK(n, T), NEW h \in Seq(LogEntry(T)), Tracks(n, h)
    PROVE  /\ last_log_index(n) = End(n)
           /\ End(n) \in Nat
           /\ n.first_log_index - 1 <= End(n)
           /\ \A k \in Int : has_entry(n, k) <=> k \in n.first_log_index..End(n)
           /\ \A k \in n.first_log_index..End(n) :
                  k \in DOMAIN h /\ get_entry(n, k) = h[k]
<1>1. /\ n.log \in Seq(LogEntry(T)) /\ Len(n.log) \in Nat /\ DOMAIN n.log = 1..Len(n.log)
      /\ n.first_log_index \in Nat \ {0} /\ Len(h) \in Nat /\ DOMAIN h = 1..Len(h)
      /\ n.snapshot # None => n.snapshot.last_included_index \in Nat
    BY DEF NodeOK, Optional, Snapshot
<1>2. n.log = <<>> <=> Len(n.log) = 0
    BY <1>1
<1>3. last_log_index(n) = End(n)
    BY <1>1, <1>2 DEF last_log_index, End, Tracks
<1>4. \A k \in Int : has_entry(n, k) <=> k \in n.first_log_index..End(n)
    BY <1>1 DEF has_entry, End
<1>5. ASSUME NEW k \in n.first_log_index..End(n)
      PROVE  k \in DOMAIN h /\ get_entry(n, k) = h[k]
    <2> DEFINE j == k - n.first_log_index + 1
    <2>1. j \in DOMAIN n.log /\ n.first_log_index + j - 1 = k /\ k \in DOMAIN h
        <3>1. n.first_log_index + Len(n.log) - 1 <= Len(h)
            BY DEF End, Tracks
        <3>2. k \in Int /\ n.first_log_index <= k /\ k <= n.first_log_index + Len(n.log) - 1
            BY <1>1 DEF End
        <3>3. j \in 1..Len(n.log)
            BY <1>1, <3>1, <3>2
        <3>4. n.first_log_index + j - 1 = k
            BY <1>1, <3>1, <3>2
        <3>5. k \in 1..Len(h)
            BY <1>1, <3>1, <3>2
        <3> QED BY <1>1, <3>3, <3>4, <3>5
    <2> HIDE DEF j
    <2>2. n.log[j] = h[k]
        BY <2>1 DEF Tracks
    <2> QED BY <2>1, <2>2 DEF get_entry, j
<1> QED BY <1>1, <1>3, <1>4, <1>5 DEF End

\* The history may get longer.
LEMMA TracksLonger ==
    ASSUME NEW T, NEW n, NodeOK(n, T), NEW h \in Seq(LogEntry(T)),
           NEW g \in Seq(LogEntry(T)), Len(h) <= Len(g),
           \A k \in DOMAIN h : g[k] = h[k], Tracks(n, h)
    PROVE  Tracks(n, g)
<1>1. /\ n.log \in Seq(LogEntry(T)) /\ Len(n.log) \in Nat /\ DOMAIN n.log = 1..Len(n.log)
      /\ n.first_log_index \in Nat \ {0} /\ Len(h) \in Nat /\ DOMAIN h = 1..Len(h)
      /\ n.snapshot # None => n.snapshot.last_included_index \in Nat
      /\ Len(g) \in Nat /\ n.last_applied \in Nat
    BY HistoryTypes
<1>2. ASSUME NEW k \in 0..Len(h) PROVE Applied(g, k) = Applied(h, k)
    <2>1. \A l \in 1..k : l \in DOMAIN h
        BY <1>1
    <2>2. \A l \in 1..k : g[l] = h[l]
        BY <2>1
    <2> QED BY <2>2 DEF Applied
<1>3. \A k \in DOMAIN n.log : n.first_log_index + k - 1 \in DOMAIN h
    <2>1. n.first_log_index + Len(n.log) - 1 <= Len(h)
        BY DEF End, Tracks
    <2>2. \A k \in 1..Len(n.log) : n.first_log_index + k - 1 \in 1..Len(h)
        BY <1>1, <2>1
    <2> QED BY <1>1, <2>2
<1>4. n.snapshot # None => n.snapshot.last_included_index \in DOMAIN h
    <2>1. n.last_applied \in (n.first_log_index - 1)..Len(h)
          /\ (n.snapshot # None => n.first_log_index = n.snapshot.last_included_index + 1
                                  /\ n.snapshot.last_included_index > 0)
        BY DEF Tracks
    <2> QED BY <1>1, <2>1
<1>5. n.last_applied \in 0..Len(h) /\ n.last_applied \in (n.first_log_index - 1)..Len(g)
    BY <1>1 DEF Tracks
<1>6. End(n) <= Len(g)
    BY <1>1 DEF Tracks, End
<1>7. n.snapshot # None => n.snapshot.last_included_index \in 0..Len(h)
    BY <1>1, <1>4
<1> QED BY <1>2, <1>3, <1>4, <1>5, <1>6, <1>7 DEF Tracks

\* So may what the configuration comes from.
LEMMA ConfiguredLonger ==
    ASSUME NEW T, NEW n, NodeOK(n, T), NEW h \in Seq(LogEntry(T)), NEW g,
           \A k \in DOMAIN h : g[k] = h[k], n.last_applied <= Len(h), Configured(n, h)
    PROVE  Configured(n, g)
<1>1. \A k \in 1..n.last_applied : g[k] = h[k]
    BY DEF NodeOK
<1>2. \A p : MembersAt(g, n.last_applied, p) = MembersAt(h, n.last_applied, p)
    <2> SUFFICES ASSUME NEW p
                 PROVE  MembersAt(g, n.last_applied, p) = MembersAt(h, n.last_applied, p)
        OBVIOUS
    <2>1. \A e : {l \in 1..n.last_applied : g[l].entry_type = e}
               = {l \in 1..n.last_applied : h[l].entry_type = e}
        BY <1>1
    <2> QED BY <2>1 DEF MembersAt
<1> QED BY <1>2 DEF Configured

\* Where a change is among the entries of h after the first j, up to k.
Between(h, j, k, change) == {l \in (j + 1)..k : h[l].entry_type = change}

\* The changes at indices in added that no change in removed follows.
Lasting(added, removed) == {l \in added : l > Max(removed)}

\* What the entries after the first j, up to k, make of the copies of p.
MembersFrom(h, j, k, p) ==
    LET adds    == Between(h, j, k, AddServer(p))
        removes == Between(h, j, k, RemoveServer(p))
    IN  IF removes = {} THEN MembersAt(h, j, p) + Cardinality(adds)
        ELSE Cardinality(Lasting(adds, removes))

\* The configuration after k entries comes from the one after the first j.
LEMMA MembersStep ==
    ASSUME NEW h, NEW j \in Nat, NEW k \in Nat, j <= k, NEW p
    PROVE  MembersAt(h, k, p) = MembersFrom(h, j, k, p)
<1> DEFINE a(i) == {l \in 1..i : h[l].entry_type = AddServer(p)}
           r(i) == {l \in 1..i : h[l].entry_type = RemoveServer(p)}
           na == {l \in (j + 1)..k : h[l].entry_type = AddServer(p)}
           nr == {l \in (j + 1)..k : h[l].entry_type = RemoveServer(p)}
           first == IF p \in InitialMembers THEN 1 ELSE 0
           later(i) == {l \in a(i) : l > Max(r(i))}
<1>1. \A i \in Nat : MembersAt(h, i, p) = IF r(i) = {} THEN first + Cardinality(a(i))
                                          ELSE Cardinality(later(i))
    BY DEF MembersAt
<1>2. a(k) = a(j) \cup na /\ a(j) \cap na = {} /\ r(k) = r(j) \cup nr
    <2>1. 1..k = 1..j \cup (j + 1)..k /\ (1..j) \cap ((j + 1)..k) = {}
        OBVIOUS
    <2> QED BY <2>1
<1>3. IsFiniteSet(a(j)) /\ IsFiniteSet(na) /\ IsFiniteSet(r(j)) /\ IsFiniteSet(nr)
    <2>1. IsFiniteSet(1..j) /\ IsFiniteSet((j + 1)..k)
        <3>1. 1 \in Int /\ j \in Int /\ j + 1 \in Int /\ k \in Int
            OBVIOUS
        <3> QED BY <3>1, FS_Interval, Zenon
    <2>2. a(j) \in SUBSET (1..j) /\ r(j) \in SUBSET (1..j)
          /\ na \in SUBSET ((j + 1)..k) /\ nr \in SUBSET ((j + 1)..k)
        OBVIOUS
    <2> HIDE DEF a, r, na, nr
    <2> QED BY <2>1, <2>2, FS_Subset, Zenon
<1>4. /\ \A l \in a(j) \cup r(j) : l \in Nat /\ l <= j
      /\ \A l \in na \cup nr : l \in Nat /\ l > j
    OBVIOUS
<1>5. first \in Nat
    OBVIOUS
<1> HIDE DEF a, r, na, nr, first
<1>6. \A S : IsFiniteSet(S) => Cardinality(S) \in Nat
    BY FS_CardinalityType
<1>7. \A S, U : IsFiniteSet(S) /\ IsFiniteSet(U) /\ S \cap U = {} =>
          Cardinality(S \cup U) = Cardinality(S) + Cardinality(U)
    <2> SUFFICES ASSUME NEW S, NEW U, IsFiniteSet(S), IsFiniteSet(U), S \cap U = {}
                 PROVE  Cardinality(S \cup U) = Cardinality(S) + Cardinality(U)
        OBVIOUS
    <2>1. Cardinality(S \cup U) = Cardinality(S) + Cardinality(U) - Cardinality(S \cap U)
        BY FS_Union
    <2>2. Cardinality({}) = 0
        BY FS_EmptySet
    <2> QED BY <1>6, <2>1, <2>2
<1>8. CASE nr # {}
    <2>1. r(k) # {} /\ Max(r(k)) = Max(nr)
        <3>1. PICK m \in nr : \A l \in nr : l <= m
            <4>1. nr \subseteq Nat
                BY <1>4
            <4> QED BY <1>3, <1>8, <4>1, GreatestExists
        <3>2. m \in r(k) /\ \A l \in r(k) : l <= m
            BY <1>2, <1>4, <3>1
        <3>3. \A x \in r(k) : (\A y \in r(k) : x >= y) => x = m
            BY <1>2, <1>4, <3>2
        <3>4. \A x \in nr : (\A y \in nr : x >= y) => x = m
            BY <1>4, <3>1
        <3>5. \A y \in r(k) : m >= y
            BY <1>2, <1>4, <3>2
        <3>6. \A y \in nr : m >= y
            BY <1>4, <3>1
        <3>7. Max(r(k)) = m
            BY <3>2, <3>3, <3>5 DEF Max
        <3>8. Max(nr) = m
            BY <3>1, <3>4, <3>6 DEF Max
        <3> QED BY <3>2, <3>7, <3>8
    <2>2. Max(nr) \in nr
        <3>1. nr \subseteq Nat
            BY <1>4
        <3> QED BY <1>3, <1>8, <3>1, MinMaxType
    <2>3. later(k) = {l \in na : l > Max(nr)}
        BY <1>2, <1>4, <2>1, <2>2
    <2> QED BY <1>1, <1>8, <2>1, <2>3 DEF na, nr, Between, Lasting, MembersFrom
<1>9. CASE nr = {}
    <2>1. r(k) = r(j)
        BY <1>2, <1>9
    <2>2. CASE r(j) = {}
        <3>1. MembersAt(h, k, p) = first + Cardinality(a(k))
              /\ MembersAt(h, j, p) = first + Cardinality(a(j))
            BY <1>1, <2>1, <2>2
        <3>2. Cardinality(a(k)) = Cardinality(a(j)) + Cardinality(na)
            BY <1>2, <1>3, <1>7
        <3>3. MembersAt(h, k, p) = MembersAt(h, j, p) + Cardinality(na)
            BY <1>3, <1>5, <1>6, <3>1, <3>2
        <3> QED BY <1>9, <3>3 DEF na, nr, Between, MembersFrom
    <2>3. CASE r(j) # {}
        <3>1. MembersAt(h, k, p) = Cardinality(later(k))
              /\ MembersAt(h, j, p) = Cardinality(later(j))
            BY <1>1, <2>1, <2>3
        <3>2. Max(r(j)) \in r(j)
            <4>1. r(j) \subseteq Nat
                BY <1>4
            <4> QED BY <1>3, <2>3, <4>1, MinMaxType
        <3>3. later(k) = later(j) \cup na /\ later(j) \cap na = {}
              /\ later(j) \in SUBSET a(j)
            BY <1>2, <1>4, <2>1, <3>2
        <3>4. IsFiniteSet(later(j))
            BY <1>3, <3>3, FS_Subset
        <3>5. MembersAt(h, k, p) = MembersAt(h, j, p) + Cardinality(na)
            BY <1>3, <1>7, <3>1, <3>3, <3>4
        <3> QED BY <1>9, <3>5 DEF na, nr, Between, MembersFrom
    <2> QED BY <2>2, <2>3
<1> QED BY <1>8, <1>9

-----------------------------------------------------------------------------
(* Applying what is committed                                              *)

\* The log and what goes with it, the term and the messages do not differ.
SameLog(a, b) ==
    /\ b.id = a.id
    /\ b.current_term = a.current_term
    /\ b.log = a.log
    /\ b.first_log_index = a.first_log_index
    /\ b.snapshot = a.snapshot
    /\ b.commit_index = a.commit_index
    /\ b.outbox = a.outbox

\* Neither do the configuration and what a leader knows of the others.
SameLead(a, b) ==
    /\ b.role = a.role
    /\ b.members = a.members
    /\ b.catching_up_servers = a.catching_up_servers
    /\ b.next_index = a.next_index
    /\ b.match_index = a.match_index

\* The configuration changes of a history take a node from the configuration
\* after j entries to the one after k.
LEMMA ApplyChangesConfigures ==
    ASSUME NEW n, DOMAIN n = NodeFields, NEW h, NEW j \in Nat, NEW k \in Nat, j <= k,
           n.last_applied = k,
           \A p \in Node \ {n.id} : n.members[p] = MembersAt(h, j, p),
           NEW changes,
           DOMAIN changes = {l \in (j + 1)..k : h[l].entry_type \in ConfigurationChange},
           \A l \in DOMAIN changes : changes[l] = h[l].entry_type
    PROVE  Configured(apply_changes(n, changes), h)
<1> DEFINE b == apply_changes(n, changes)
           adds(p)    == {l \in DOMAIN changes : changes[l] = AddServer(p)}
           removes(p) == {l \in DOMAIN changes : changes[l] = RemoveServer(p)}
           na(p) == Between(h, j, k, AddServer(p))
           nr(p) == Between(h, j, k, RemoveServer(p))
<1>1. b.members = [p \in Node |->
                      IF removes(p) = {} THEN n.members[p] + Cardinality(adds(p))
                      ELSE Cardinality(Lasting(adds(p), removes(p)))]
    BY DEF apply_changes, NodeFields, Lasting
<1>2. b.id = n.id /\ b.last_applied = k
    BY DEF apply_changes, NodeFields
<1> HIDE DEF b
<1>3. ASSUME NEW p \in Node \ {n.id} PROVE b.members[p] = MembersAt(h, k, p)
    <2>1. AddServer(p) \in ConfigurationChange /\ RemoveServer(p) \in ConfigurationChange
        BY DEF AddServer, RemoveServer, ConfigurationChange
    <2>2. adds(p) = na(p) /\ removes(p) = nr(p)
        BY <2>1 DEF Between
    <2>3. /\ nr(p) = {} => MembersAt(h, k, p) = MembersAt(h, j, p) + Cardinality(na(p))
          /\ nr(p) # {} => MembersAt(h, k, p) = Cardinality(Lasting(na(p), nr(p)))
        BY MembersStep DEF MembersFrom
    <2> HIDE DEF adds, removes, na, nr
    <2>4. /\ nr(p) = {} => b.members[p] = n.members[p] + Cardinality(na(p))
          /\ nr(p) # {} => b.members[p] = Cardinality(Lasting(na(p), nr(p)))
        BY <1>1, <2>2
    <2> QED BY <2>3, <2>4
<1>4. Configured(b, h)
    BY <1>2, <1>3 DEF Configured
<1> QED BY <1>4 DEF b

\* Without changes nothing about the cluster changes.
LEMMA NoChanges ==
    ASSUME NEW T, NEW n, NodeOK(n, T), NEW changes, DOMAIN changes = {}
    PROVE  SameLead(n, apply_changes(n, changes))
<1> DEFINE b == apply_changes(n, changes)
           adds(p)    == {k \in DOMAIN changes : changes[k] = AddServer(p)}
           removes(p) == {k \in DOMAIN changes : changes[k] = RemoveServer(p)}
           asLeader   == {k \in DOMAIN changes :
                             /\ n.role = Leader
                             /\ \A r \in removes(n.id) : k <= r}
           about(p)   == asLeader \cap (adds(p) \cup removes(p))
           added(p)   == about(p) # {} /\ Max(about(p)) \in adds(p)
           removed(p) == about(p) # {} /\ Max(about(p)) \in removes(p)
           update(map, v) ==
               [p \in (DOMAIN map \cup {q \in Node : added(q)})
                          \ {q \in Node : removed(q)} |->
                   IF added(p) THEN v ELSE map[p]]
<1>1. /\ b.next_index = update(n.next_index, last_log_index(n) + 1)
      /\ b.match_index = update(n.match_index, 0)
      /\ b.catching_up_servers = n.catching_up_servers
                                     \cup {p \in Node : adds(p) \cap asLeader # {}}
      /\ b.role = IF removes(n.id) # {} THEN Follower ELSE n.role
    BY DEF apply_changes, NodeOK, NodeFields
<1>2. /\ {q \in Node : added(q)} = {} /\ {q \in Node : removed(q)} = {}
      /\ \A p : ~added(p)
      /\ removes(n.id) = {} /\ {p \in Node : adds(p) \cap asLeader # {}} = {}
    OBVIOUS
<1>3. ASSUME NEW map, IsMap(map), NEW v PROVE update(map, v) = map
    <2>1. map = [p \in DOMAIN map |-> map[p]]
        BY <1>3 DEF IsMap
    <2>2. (DOMAIN map \cup {q \in Node : added(q)}) \ {q \in Node : removed(q)} = DOMAIN map
        BY <1>2
    <2>3. update(map, v) = [p \in DOMAIN map |-> IF added(p) THEN v ELSE map[p]]
        BY <2>2
    <2> HIDE DEF added, update
    <2>4. update(map, v) = [p \in DOMAIN map |-> map[p]]
        BY <1>2, <2>3
    <2> QED BY <2>1, <2>4
<1> HIDE DEF b, update
<1>4. b.next_index = n.next_index /\ b.match_index = n.match_index
    BY <1>1, <1>3 DEF NodeOK
<1>5. b.members = n.members
    <2>1. Kept(n, b, Command)
        BY ApplyChangesKept DEF b, NodeOK
    <2> QED BY <2>1 DEF Kept, SameMembers
<1>6. b.catching_up_servers = n.catching_up_servers /\ b.role = n.role
    BY <1>1, <1>2
<1> QED BY <1>4, <1>5, <1>6 DEF SameLead, b

\* A node applies what is committed: the entries of the history that it has,
\* in the places that they have there.
LEMMA ApplyTracks ==
    ASSUME NEW T \in EntryTypes, NEW n, NodeOK(n, T), NEW h \in Seq(LogEntry(T)),
           Tracks(n, h), n.commit_index <= End(n)
    PROVE  LET b == apply_committed_entries(n)
           IN  /\ Tracks(b, h)
               /\ b.last_applied = IF n.last_applied >= n.commit_index
                                   THEN n.last_applied ELSE n.commit_index
               /\ SameLog(n, b)
               /\ b.role \in {n.role, Follower}
               /\ Configured(n, h) => Configured(b, h)
               /\ T = Command => SameLead(n, b)
<1> DEFINE new     == {k \in (n.last_applied + 1)..n.commit_index : has_entry(n, k)}
           entry   == [k \in new |-> get_entry(n, k).entry_type]
           changes == {k \in new : entry[k] \in ConfigurationChange}
           applied(k) == IF k \in new THEN IF k \in changes THEN None ELSE entry[k]
                         ELSE IF k \in DOMAIN n.state_machine
                         THEN n.state_machine[k] ELSE None
           upTo    == Max({Len(n.state_machine), n.commit_index})
           machine == [k \in 1..upTo |-> applied(k)]
           a       == [n EXCEPT !.last_applied = n.commit_index,
                                !.state_machine = machine]
           config  == [k \in changes |-> entry[k]]
           b       == apply_changes(a, config)
<1>1. apply_committed_entries(n) = IF n.last_applied >= n.commit_index THEN n ELSE b
    BY DEF apply_committed_entries
<1>2. CASE n.last_applied >= n.commit_index
    BY <1>1, <1>2 DEF SameLog, SameLead
<1>3. CASE ~(n.last_applied >= n.commit_index)
    <2> DEFINE j == n.last_applied
               c == n.commit_index
    <2>1. /\ j \in Nat /\ c \in Nat /\ j < c /\ c <= End(n) /\ End(n) \in Nat
          /\ End(n) <= Len(h) /\ Len(h) \in Nat /\ n.first_log_index \in Nat
          /\ n.first_log_index - 1 <= j
        <3>1. n.last_applied \in (n.first_log_index - 1)..Len(h) /\ End(n) <= Len(h)
            BY DEF Tracks
        <3>2. j \in Nat /\ c \in Nat /\ Len(h) \in Nat /\ n.first_log_index \in Nat
            BY HistoryTypes
        <3>3. End(n) \in Nat
            BY TrackedLog
        <3> QED BY <1>3, <3>1, <3>2, <3>3
    <2>2. ASSUME NEW k \in (j + 1)..c
          PROVE  k \in new /\ entry[k] = h[k].entry_type
        <3>1. k \in n.first_log_index..End(n) /\ k \in Int
            BY <2>1
        <3>2. has_entry(n, k) /\ get_entry(n, k) = h[k]
            BY <3>1, TrackedLog
        <3> QED BY <3>2
    <2>3. new = (j + 1)..c
        BY <2>2
    <2>4. changes = {k \in (j + 1)..c : h[k].entry_type \in ConfigurationChange}
        <3> HIDE DEF entry, new
        <3> QED BY <2>2, <2>3
    <2>5. DOMAIN config = changes /\ \A k \in changes : config[k] = h[k].entry_type
        <3>1. DOMAIN config = changes /\ \A k \in changes : k \in new /\ config[k] = entry[k]
            OBVIOUS
        <3> HIDE DEF config, changes, new, entry
        <3> QED BY <2>2, <2>3, <3>1
    <2>6. n.state_machine = [l \in 1..j |-> Shown(h[l])]
        BY DEF Tracks, Applied
    <2>7. DOMAIN n.state_machine = 1..j /\ Len(n.state_machine) = j
        <3>1. DOMAIN n.state_machine = 1..j
            BY <2>6
        <3>2. n.state_machine \in Seq(Command \cup {None})
            BY DEF NodeOK, StateMachine
        <3> HIDE DEF j
        <3> QED BY <2>1, <3>1, <3>2, LenProperties
    <2>8. upTo = c
        <3>1. Len(n.state_machine) \in Int /\ c \in Int
            BY <2>1, <2>7
        <3>2. upTo = IF Len(n.state_machine) >= c THEN Len(n.state_machine) ELSE c
            BY <3>1, MaxOfTwo, Zenon
        <3> QED BY <2>1, <2>7, <3>2
    <2>9. machine = Applied(h, c)
        <3>1. ASSUME NEW k \in 1..c PROVE applied(k) = Shown(h[k])
            <4>1. CASE k > j
                <5>1. k \in (j + 1)..c
                    BY <2>1, <4>1
                <5>2. k \in new /\ entry[k] = h[k].entry_type
                    BY <2>2, <5>1
                <5> HIDE DEF entry, new
                <5> QED BY <5>2 DEF Shown
            <4>2. CASE ~(k > j)
                <5>1. k \notin new /\ k \in 1..j
                    BY <2>1, <2>3, <4>2
                <5> HIDE DEF new, j
                <5> QED BY <2>6, <2>7, <5>1
            <4> QED BY <4>1, <4>2
        <3>2. machine = [k \in 1..c |-> applied(k)]
            <4> HIDE DEF applied, upTo, c
            <4> QED BY <2>8
        <3> HIDE DEF applied, machine
        <3> QED BY <3>1, <3>2 DEF Applied
    <2> HIDE DEF machine, config, changes
    <2>10. /\ a.id = n.id /\ a.current_term = n.current_term /\ a.log = n.log
           /\ a.first_log_index = n.first_log_index /\ a.snapshot = n.snapshot
           /\ a.commit_index = n.commit_index /\ a.outbox = n.outbox
           /\ a.last_applied = c /\ a.state_machine = machine
           /\ DOMAIN a = NodeFields
        BY DEF NodeOK, NodeFields
    <2>11. SameLead(n, a)
        BY DEF NodeOK, NodeFields, SameLead
    <2> HIDE DEF a
    <2>12. /\ b.id = a.id /\ b.current_term = a.current_term /\ b.log = a.log
           /\ b.first_log_index = a.first_log_index /\ b.snapshot = a.snapshot
           /\ b.commit_index = a.commit_index /\ b.outbox = a.outbox
           /\ b.last_applied = a.last_applied /\ b.state_machine = a.state_machine
        BY <2>10 DEF apply_changes, NodeFields
    <2>13. b.role \in {a.role, Follower}
        BY <2>10 DEF apply_changes, NodeFields
    <2>14. ASSUME Configured(n, h) PROVE Configured(b, h)
        <3>1. \A p \in Node \ {a.id} : a.members[p] = MembersAt(h, j, p)
            BY <2>10, <2>11, <2>14 DEF Configured, SameLead
        <3>2. a.last_applied = c /\ j \in Nat /\ c \in Nat /\ j <= c
            BY <2>1, <2>10
        <3>3. DOMAIN config = {l \in (j + 1)..c : h[l].entry_type \in ConfigurationChange}
              /\ \A l \in DOMAIN config : config[l] = h[l].entry_type
            BY <2>4, <2>5
        <3> HIDE DEF j, c
        <3> QED BY <2>10, <3>1, <3>2, <3>3, ApplyChangesConfigures, Zenon
    <2>15. ASSUME T = Command PROVE SameLead(a, b)
        <3>1. changes = {}
            <4> SUFFICES ASSUME NEW k \in changes PROVE FALSE
                OBVIOUS
            <4>1. k \in Int /\ k \in n.first_log_index..End(n)
                  /\ h[k].entry_type \in ConfigurationChange
                BY <2>1, <2>4
            <4>2. has_entry(n, k) /\ get_entry(n, k) = h[k]
                BY <4>1, TrackedLog
            <4>3. h[k] \in LogEntry(Command)
                BY <2>15, <4>1, <4>2, GetEntryType
            <4>4. h[k].entry_type \in Command \cap ConfigurationChange
                BY <4>1, <4>3 DEF LogEntry
            <4> QED BY <4>4, ContextAssumption
        <3>2. NodeOK(a, T)
            <4>1. machine \in StateMachine
                <5>1. \A k \in 1..c : k \in Int /\ Shown(h[k]) \in Command \cup {None}
                    <6> SUFFICES ASSUME NEW k \in 1..c
                                 PROVE  Shown(h[k]) \in Command \cup {None}
                        OBVIOUS
                    <6>1. k \in DOMAIN h
                        BY <2>1, HistoryTypes
                    <6>2. h[k] \in LogEntry(T)
                        BY <6>1
                    <6>3. h[k].entry_type \in Command
                        BY <2>15, <6>2 DEF LogEntry
                    <6> QED BY <6>3 DEF Shown
                <5> HIDE DEF c
                <5> QED BY <2>1, <2>9, <5>1 DEF Applied, StateMachine
            <4> QED BY <2>1, <4>1 DEF NodeOK, NodeFields, a
        <3>3. DOMAIN config = {}
            BY <2>5, <3>1
        <3> HIDE DEF b
        <3> QED BY <3>2, <3>3, NoChanges DEF b
    <2> HIDE DEF b
    <2>16. SameLog(n, b)
        BY <2>10, <2>12 DEF SameLog
    <2>17. b.last_applied = c /\ b.state_machine = Applied(h, c)
        BY <2>9, <2>10, <2>12
    <2>18. Tracks(b, h)
        <3>1. End(b) = End(n)
            BY <2>16 DEF SameLog, End
        <3>2. c \in (n.first_log_index - 1)..Len(h)
            BY <2>1
        <3> HIDE DEF c
        <3> QED BY <2>16, <2>17, <3>1, <3>2 DEF SameLog, Tracks
    <2>19. T = Command => SameLead(n, b)
        BY <2>11, <2>15 DEF SameLead
    <2>20. b.role \in {n.role, Follower}
        BY <2>11, <2>13 DEF SameLead
    <2> QED BY <1>1, <1>3, <2>14, <2>16, <2>17, <2>18, <2>19, <2>20
<1> QED BY <1>2, <1>3

-----------------------------------------------------------------------------
(* Appending a leader's entries                                            *)

\* The entries are those that follow index prev in the history.
Follows(h, prev, es) ==
    \A k \in DOMAIN es : prev + k \in DOMAIN h /\ es[k] = h[prev + k]

\* Nothing but the log differs, as far as the log and its leader go.
OnlyLog(a, b) ==
    /\ b.id = a.id
    /\ b.current_term = a.current_term
    /\ b.first_log_index = a.first_log_index
    /\ b.snapshot = a.snapshot
    /\ b.commit_index = a.commit_index
    /\ b.last_applied = a.last_applied
    /\ b.state_machine = a.state_machine
    /\ b.outbox = a.outbox
    /\ SameLead(a, b)

\* The log of n up to index k.
LEMMA TruncatedAt ==
    ASSUME NEW T, NEW n, NodeOK(n, T), NEW k \in (n.first_log_index - 1)..End(n)
    PROVE  LET t == IF End(n) > k THEN truncate_after(n, k) ELSE n
           IN  /\ NodeOK(t, T)
               /\ OnlyLog(n, t)
               /\ Len(t.log) = k - n.first_log_index + 1
               /\ Len(t.log) <= Len(n.log)
               /\ \A l \in DOMAIN t.log : l \in DOMAIN n.log /\ t.log[l] = n.log[l]
<1> DEFINE f == n.first_log_index
           t == truncate_after(n, k)
           c == k - f + 1
<1>1. n.log \in Seq(LogEntry(T)) /\ Len(n.log) \in Nat /\ DOMAIN n.log = 1..Len(n.log)
      /\ f \in Nat \ {0}
    BY DEF NodeOK
<1>2. /\ k \in Nat /\ c \in Nat /\ c <= Len(n.log)
      /\ End(n) > k <=> c < Len(n.log)
      /\ End(n) = f + Len(n.log) - 1
    BY <1>1 DEF End
<1>3. CASE End(n) > k
    <2>1. NodeOK(t, T)
        BY <1>2, TruncateAfterType
    <2>2. /\ t.log = IF k < f THEN <<>> ELSE SubSeq(n.log, 1, Min({Len(n.log), c}))
          /\ OnlyLog(n, t)
        BY DEF truncate_after, NodeOK, NodeFields, OnlyLog, SameLead
    <2>3. Min({Len(n.log), c}) = c
        <3>1. Len(n.log) \in Int /\ c \in Int
            BY <1>1, <1>2
        <3>2. Min({Len(n.log), c}) = IF Len(n.log) <= c THEN Len(n.log) ELSE c
            BY <3>1, MinOfTwo, Zenon
        <3> QED BY <1>1, <1>2, <1>3, <3>2
    <2>4. c \in 0..Len(n.log)
        BY <1>1, <1>2
    <2>5. k < f => c = 0
        BY <1>1, <1>2
    <2> HIDE DEF t, c
    <2>6. LET u == SubSeq(n.log, 1, c)
          IN  u \in Seq(LogEntry(T)) /\ Len(u) = c /\ \A l \in 1..c : u[l] = n.log[l]
        BY <1>1, <2>4, PrefixProperties, Zenon
    <2>7. t.log \in Seq(LogEntry(T)) /\ Len(t.log) = c /\ \A l \in 1..c : t.log[l] = n.log[l]
        <3>1. CASE k < f
            <4>1. t.log = <<>> /\ c = 0
                BY <2>2, <2>5, <3>1
            <4> QED BY <4>1
        <3>2. CASE ~(k < f)
            <4>1. t.log = SubSeq(n.log, 1, c)
                BY <2>2, <2>3, <3>2
            <4> QED BY <2>6, <4>1
        <3> QED BY <3>1, <3>2
    <2>8. \A l \in DOMAIN t.log : l \in DOMAIN n.log /\ t.log[l] = n.log[l]
        <3>1. DOMAIN t.log = 1..c
            BY <2>7
        <3>2. \A l \in 1..c : l \in 1..Len(n.log)
            BY <1>1, <2>4
        <3> QED BY <1>1, <2>7, <3>1, <3>2
    <2>9. Len(t.log) = k - n.first_log_index + 1 /\ Len(t.log) <= Len(n.log)
        BY <1>2, <2>7 DEF c
    <2> QED BY <1>3, <2>1, <2>2, <2>8, <2>9 DEF t
<1>4. CASE ~(End(n) > k)
    <2>1. c = Len(n.log)
        BY <1>1, <1>2, <1>4
    <2>2. OnlyLog(n, n)
        BY DEF OnlyLog, SameLead
    <2>3. (IF End(n) > k THEN truncate_after(n, k) ELSE n) = n
        BY <1>4
    <2> QED BY <1>1, <2>1, <2>2, <2>3
<1> QED BY <1>3, <1>4

\* A log stays a part of the history when entries of the history take the
\* place of what it has after prev.
LEMMA ReplaceTracks ==
    ASSUME NEW T, NEW n, NodeOK(n, T), NEW h \in Seq(LogEntry(T)), Tracks(n, h),
           NEW prev \in (n.first_log_index - 1)..End(n),
           NEW es \in Seq(LogEntry(T)), Follows(h, prev, es)
    PROVE  LET b == replace_suffix(n, prev, es)
           IN  /\ NodeOK(b, T)
               /\ Tracks(b, h)
               /\ OnlyLog(n, b)
               /\ \/ End(b) = End(n)
                  \/ es # <<>> /\ End(b) = prev + Len(es)
                  \/ es # <<>> /\ End(b) = n.first_log_index + LogCapacity - 1
               /\ End(n) <= prev + Len(es) => End(n) <= End(b)
               /\ End(b) = End(n) \/ End(b) <= prev + Len(es)
<1> DEFINE f == n.first_log_index
           t == IF End(n) > prev THEN truncate_after(n, prev) ELSE n
           b == append_entries(t, es)
<1>1. /\ Len(n.log) \in Nat /\ DOMAIN n.log = 1..Len(n.log)
      /\ f \in Nat \ {0} /\ Len(h) \in Nat /\ DOMAIN h = 1..Len(h)
      /\ Len(n.log) <= LogCapacity /\ LogCapacity \in Nat
      /\ Len(es) \in Nat /\ DOMAIN es = 1..Len(es)
      /\ End(n) = f + Len(n.log) - 1
    <2>1. Len(n.log) <= LogCapacity /\ End(n) = f + Len(n.log) - 1
        BY DEF Tracks, End
    <2>2. LogCapacity \in Nat /\ Len(es) \in Nat /\ DOMAIN es = 1..Len(es)
        BY ContextAssumption
    <2>3. /\ Len(n.log) \in Nat /\ DOMAIN n.log = 1..Len(n.log)
          /\ f \in Nat \ {0} /\ Len(h) \in Nat /\ DOMAIN h = 1..Len(h)
        BY HistoryTypes
    <2> QED BY <2>1, <2>2, <2>3
<1>2. last_log_index(n) = End(n) /\ End(n) \in Nat /\ End(n) <= Len(h)
    <2>1. last_log_index(n) = End(n) /\ End(n) \in Nat
        BY TrackedLog
    <2> QED BY <2>1 DEF Tracks
<1>3. prev \in Nat /\ f - 1 <= prev /\ prev <= End(n)
    BY <1>1, <1>2
<1>4. CASE es = <<>>
    <2>1. replace_suffix(n, prev, es) = n
        BY <1>4 DEF replace_suffix
    <2> QED BY <1>2, <2>1 DEF OnlyLog, SameLead
<1>5. CASE es # <<>>
    <2>1. replace_suffix(n, prev, es) = b
        BY <1>2, <1>5 DEF replace_suffix
    <2>2. /\ NodeOK(t, T)
          /\ OnlyLog(n, t)
          /\ Len(t.log) = prev - n.first_log_index + 1
          /\ Len(t.log) <= Len(n.log)
          /\ \A l \in DOMAIN t.log : l \in DOMAIN n.log /\ t.log[l] = n.log[l]
        BY TruncatedAt
    <2> HIDE DEF t
    <2>3. NodeOK(b, T)
        BY <2>2, AppendEntriesType
    <2>4. Len(t.log) \in Nat /\ Len(t.log) <= LogCapacity /\ f + Len(t.log) = prev + 1
          /\ DOMAIN t.log = 1..Len(t.log)
        <3>1. t.log \in Seq(LogEntry(T))
            BY <2>2 DEF NodeOK
        <3>2. Len(t.log) \in Nat /\ DOMAIN t.log = 1..Len(t.log)
            BY <3>1
        <3>3. Len(t.log) <= LogCapacity
            BY <1>1, <2>2, <3>2
        <3>4. f + Len(t.log) = prev + 1
            BY <1>1, <1>3, <2>2
        <3> QED BY <3>2, <3>3, <3>4
    <2>5. /\ b.log \in Seq(LogEntry(T))
          /\ Len(b.log) = IF Len(t.log) + Len(es) <= LogCapacity
                          THEN Len(t.log) + Len(es) ELSE LogCapacity
          /\ \A k \in DOMAIN b.log :
                 IF k <= Len(t.log) THEN b.log[k] = t.log[k]
                 ELSE /\ k - Len(t.log) \in DOMAIN es
                      /\ b.log[k] = es[k - Len(t.log)]
        BY <2>2, <2>4, AppendedLog
    <2>6. OnlyLog(t, b)
        BY <2>2 DEF append_entries, NodeOK, NodeFields, OnlyLog, SameLead
    <2> HIDE DEF b
    <2>7. OnlyLog(n, b)
        BY <2>2, <2>6 DEF OnlyLog, SameLead
    <2>8. Len(b.log) \in Nat /\ DOMAIN b.log = 1..Len(b.log) /\ Len(b.log) <= LogCapacity
          /\ Len(b.log) <= Len(t.log) + Len(es)
        <3>1. Len(b.log) \in Nat /\ DOMAIN b.log = 1..Len(b.log)
            BY <2>5
        <3> QED BY <1>1, <2>4, <2>5, <3>1
    <2>9. End(b) = f + Len(b.log) - 1
        BY <2>7 DEF OnlyLog, End
    <2>10. ASSUME NEW k \in DOMAIN b.log
           PROVE  f + k - 1 <= Len(h) /\ b.log[k] = h[f + k - 1]
        <3>1. k \in Nat /\ k >= 1 /\ k <= Len(b.log)
            BY <2>8
        <3>2. CASE k <= Len(t.log)
            <4>1. k \in DOMAIN t.log
                BY <2>4, <3>1, <3>2
            <4>2. k \in DOMAIN n.log /\ b.log[k] = n.log[k]
                BY <2>2, <2>5, <3>2, <4>1
            <4>3. n.log[k] = h[f + k - 1]
                BY <4>2 DEF Tracks
            <4>4. f + k - 1 <= Len(h)
                <5>1. k <= Len(n.log)
                    BY <1>1, <4>2
                <5>2. f + Len(n.log) - 1 <= Len(h)
                    BY <1>1, <1>2
                <5>3. f \in Int /\ k \in Int /\ Len(n.log) \in Int /\ Len(h) \in Int
                    BY <1>1, <3>1
                <5> HIDE DEF f
                <5> QED BY <5>1, <5>2, <5>3
            <4> QED BY <4>2, <4>3, <4>4
        <3>3. CASE ~(k <= Len(t.log))
            <4> DEFINE l == k - Len(t.log)
            <4>1. l \in DOMAIN es /\ b.log[k] = es[l]
                BY <2>5, <3>3
            <4>2. prev + l = f + k - 1
                <5>1. prev \in Int /\ k \in Int /\ f \in Int /\ Len(t.log) \in Int
                    BY <1>1, <1>3, <2>4, <3>1
                <5>2. f + Len(t.log) = prev + 1
                    BY <2>4
                <5>3. l = k - Len(t.log)
                    OBVIOUS
                <5> HIDE DEF f, l
                <5> QED BY <5>1, <5>2, <5>3
            <4> HIDE DEF l
            <4>3. prev + l \in DOMAIN h /\ es[l] = h[prev + l]
                BY <4>1 DEF Follows
            <4> QED BY <1>1, <4>1, <4>2, <4>3
        <3> QED BY <3>2, <3>3
    <2>11. End(b) <= Len(h)
        <3>1. CASE Len(b.log) = 0
            <4>1. End(b) = f - 1
                BY <1>1, <2>9, <3>1
            <4> QED BY <1>1, <1>2, <1>3, <4>1
        <3>2. CASE Len(b.log) # 0
            <4>1. Len(b.log) \in DOMAIN b.log
                BY <2>8, <3>2
            <4> QED BY <2>9, <2>10, <4>1
        <3> QED BY <3>1, <3>2
    <2>12. Tracks(b, h)
        <3>1. \A k \in DOMAIN b.log : b.log[k] = h[b.first_log_index + k - 1]
            BY <2>7, <2>10 DEF OnlyLog
        <3> QED BY <2>7, <2>8, <2>11, <3>1 DEF OnlyLog, Tracks
    <2>13. End(b) = prev + Len(es) \/ End(b) = f + LogCapacity - 1
        <3>1. CASE Len(t.log) + Len(es) <= LogCapacity
            <4>1. Len(b.log) = Len(t.log) + Len(es)
                BY <2>5, <3>1, Zenon
            <4>2. prev \in Int /\ f \in Int /\ Len(t.log) \in Int /\ Len(es) \in Int
                BY <1>1, <1>3, <2>4
            <4>3. f + Len(t.log) = prev + 1 /\ End(b) = f + Len(b.log) - 1
                BY <2>4, <2>9
            <4> DEFINE u == Len(t.log)
                       v == Len(es)
                       w == Len(b.log)
                       p == prev
                       e == End(b)
            <4>4. /\ p \in Int /\ f \in Int /\ u \in Int /\ v \in Int
                  /\ w = u + v /\ f + u = p + 1 /\ e = f + w - 1
                BY <4>1, <4>2, <4>3
            <4>5. e = p + v
                <5> HIDE DEF f, u, v, w, p, e
                <5> QED BY <4>4
            <4> QED BY <4>5
        <3>2. CASE ~(Len(t.log) + Len(es) <= LogCapacity)
            <4>1. Len(b.log) = LogCapacity
                BY <2>5, <3>2, Zenon
            <4>2. End(b) = f + Len(b.log) - 1
                BY <2>9
            <4> HIDE DEF f
            <4> QED BY <4>1, <4>2
        <3> QED BY <3>1, <3>2
    <2>14. End(n) <= f + LogCapacity - 1
        BY <1>1
    <2>15. End(n) <= prev + Len(es) => End(n) <= End(b)
        BY <2>13, <2>14
    <2>16. End(b) <= prev + Len(es)
        <3>1. /\ prev \in Int /\ f \in Int
              /\ Len(t.log) \in Int /\ Len(es) \in Int /\ Len(b.log) \in Int
            BY <1>1, <1>3, <2>4, <2>8
        <3>2. f + Len(t.log) = prev + 1 /\ Len(b.log) <= Len(t.log) + Len(es)
            BY <2>4, <2>8
        <3>3. End(b) = f + Len(b.log) - 1
            BY <2>9
        <3> HIDE DEF f
        <3> QED BY <3>1, <3>2, <3>3
    <2> QED BY <1>5, <2>1, <2>3, <2>7, <2>12, <2>13, <2>15, <2>16
<1> QED BY <1>4, <1>5

\* A follower appends a leader's entries and applies what is committed.
LEMMA TryAppendTracks ==
    ASSUME NEW T \in EntryTypes, NEW n, NodeOK(n, T), NEW h \in Seq(LogEntry(T)),
           Tracks(n, h), NEW m \in AppendEntriesMsg(T),
           m.prev_log_index \in (n.first_log_index - 1)..End(n),
           Follows(h, m.prev_log_index, m.entries)
    PROVE  LET b == try_append_entries(n, m)
               a == replace_suffix(n, m.prev_log_index, m.entries)
           IN  /\ Tracks(b, h)
               /\ b.id = n.id
               /\ b.current_term = n.current_term
               /\ b.first_log_index = n.first_log_index
               /\ b.snapshot = n.snapshot
               /\ b.outbox = n.outbox
               /\ End(b) = End(a)
               /\ b.commit_index \in {n.commit_index, m.leader_commit, End(b)}
               /\ b.commit_index # n.commit_index =>
                      /\ b.commit_index <= m.leader_commit
                      /\ b.commit_index <= End(b)
                      /\ n.commit_index < m.leader_commit
               /\ n.commit_index = n.last_applied /\ n.commit_index <= End(a) =>
                      b.commit_index = b.last_applied /\ n.commit_index <= b.commit_index
               /\ b.role \in {n.role, Follower}
               /\ Configured(n, h) => Configured(b, h)
               /\ T = Command => SameLead(n, b)
<1> DEFINE a == replace_suffix(n, m.prev_log_index, m.entries)
           c == Min({m.leader_commit, last_log_index(a)})
           d == [a EXCEPT !.commit_index = c]
           b == apply_committed_entries(d)
<1>1. m.entries \in Seq(LogEntry(T)) /\ m.leader_commit \in Nat
    BY DEF AppendEntriesMsg
<1>2. NodeOK(a, T) /\ Tracks(a, h) /\ OnlyLog(n, a)
    BY <1>1, ReplaceTracks
<1>3. try_append_entries(n, m) = IF m.leader_commit > a.commit_index THEN b ELSE a
    BY DEF try_append_entries
<1> HIDE DEF a
<1>4. a.commit_index = n.commit_index /\ n.commit_index \in Nat /\ n.last_applied \in Nat
    BY <1>2 DEF OnlyLog, NodeOK
<1>5. c = (IF m.leader_commit <= End(a) THEN m.leader_commit ELSE End(a))
      /\ c \in Nat /\ c <= End(a) /\ c <= m.leader_commit /\ End(a) \in Nat
    <2>1. last_log_index(a) = End(a) /\ End(a) \in Nat
        BY <1>2, TrackedLog
    <2>2. m.leader_commit \in Int /\ End(a) \in Int
        BY <1>1, <2>1
    <2>3. c = IF m.leader_commit <= End(a) THEN m.leader_commit ELSE End(a)
        BY <2>1, <2>2, MinOfTwo, Zenon
    <2> HIDE DEF c
    <2> QED BY <1>1, <2>1, <2>3
<1> HIDE DEF c
<1>6. CASE ~(m.leader_commit > a.commit_index)
    <2>1. try_append_entries(n, m) = a
        BY <1>3, <1>6
    <2>2. Configured(n, h) => Configured(a, h)
        BY <1>2 DEF OnlyLog, SameLead, Configured
    <2>3. a.commit_index = n.commit_index /\ (n.commit_index = n.last_applied =>
              a.commit_index = a.last_applied /\ n.commit_index <= a.commit_index)
        BY <1>2, <1>4 DEF OnlyLog
    <2>4. /\ a.id = n.id /\ a.current_term = n.current_term
          /\ a.first_log_index = n.first_log_index /\ a.snapshot = n.snapshot
          /\ a.outbox = n.outbox /\ SameLead(n, a) /\ a.role = n.role
        BY <1>2 DEF OnlyLog, SameLead
    <2> QED BY <1>2, <2>1, <2>2, <2>3, <2>4 DEF a
<1>7. CASE m.leader_commit > a.commit_index
    <2>1. try_append_entries(n, m) = b
        BY <1>3, <1>7
    <2>2. NodeOK(d, T) /\ d.commit_index = c /\ d.log = a.log /\ d.id = a.id
          /\ d.current_term = a.current_term /\ d.first_log_index = a.first_log_index
          /\ d.snapshot = a.snapshot /\ d.outbox = a.outbox
          /\ d.last_applied = a.last_applied /\ d.state_machine = a.state_machine
          /\ SameLead(a, d)
        BY <1>2, <1>5 DEF NodeOK, NodeFields, SameLead
    <2> HIDE DEF d
    <2>3. Tracks(d, h) /\ End(d) = End(a)
        <3>1. End(d) = End(a)
            BY <2>2 DEF End
        <3> QED BY <1>2, <2>2, <3>1 DEF Tracks
    <2>4. d.commit_index <= End(d)
        BY <1>5, <2>2, <2>3
    <2>5. /\ Tracks(b, h)
          /\ b.last_applied = IF d.last_applied >= d.commit_index
                              THEN d.last_applied ELSE d.commit_index
          /\ SameLog(d, b)
          /\ b.role \in {d.role, Follower}
          /\ Configured(d, h) => Configured(b, h)
          /\ T = Command => SameLead(d, b)
        BY <2>2, <2>3, <2>4, ApplyTracks
    <2> HIDE DEF b
    <2>6. Configured(n, h) => Configured(d, h)
        BY <1>2, <2>2 DEF OnlyLog, SameLead, Configured
    <2>7. /\ b.id = n.id /\ b.current_term = n.current_term
          /\ b.first_log_index = n.first_log_index /\ b.snapshot = n.snapshot
          /\ b.outbox = n.outbox /\ b.commit_index = c /\ b.log = a.log
        BY <1>2, <2>2, <2>5 DEF OnlyLog, SameLog
    <2>8. End(b) = End(a)
        BY <1>2, <2>7 DEF OnlyLog, End
    <2>9. b.role \in {n.role, Follower} /\ (T = Command => SameLead(n, b))
        BY <1>2, <2>2, <2>5 DEF OnlyLog, SameLead
    <2>10. ASSUME n.commit_index = n.last_applied, n.commit_index <= End(a)
           PROVE  b.commit_index = b.last_applied /\ n.commit_index <= b.commit_index
        <3>1. n.commit_index <= c
            BY <1>1, <1>4, <1>5, <1>7, <2>10
        <3>2. d.last_applied = n.commit_index
            BY <1>2, <2>2, <2>10 DEF OnlyLog
        <3>3. b.last_applied = c
            BY <1>4, <1>5, <2>2, <2>5, <3>1, <3>2
        <3> QED BY <2>7, <3>1, <3>3
    <2>11. c \in {m.leader_commit, End(b)}
        BY <1>5, <2>8
    <2>12. c <= m.leader_commit /\ c <= End(b) /\ n.commit_index < m.leader_commit
        BY <1>1, <1>4, <1>5, <1>7, <2>8
    <2> QED BY <2>1, <2>5, <2>6, <2>7, <2>8, <2>9, <2>10, <2>11, <2>12 DEF a
<1> QED BY <1>6, <1>7

-----------------------------------------------------------------------------
(* Elections and timers                                                    *)

\* What a node has of the history does not differ.
SameHistory(a, b) ==
    /\ b.id = a.id
    /\ b.log = a.log
    /\ b.first_log_index = a.first_log_index
    /\ b.snapshot = a.snapshot
    /\ b.commit_index = a.commit_index
    /\ b.last_applied = a.last_applied
    /\ b.state_machine = a.state_machine
    /\ b.members = a.members
    /\ b.catching_up_servers = a.catching_up_servers

\* Nor does what it knows of the others.
Stays(a, b) ==
    /\ SameHistory(a, b)
    /\ b.next_index = a.next_index
    /\ b.match_index = a.match_index

\* The messages that have nothing to do with replication.
Plain(m) == m.type \in {"PreVoteRequest", "PreVoteResponse",
                        "RequestVote", "RequestVoteResponse"}

Plainly(n) == \A p \in Node : \A k \in DOMAIN n.outbox[p] : Plain(n.outbox[p][k])

\* Otherwise a node sends what it has for another one.
Spoken(n) ==
    \A p \in Node : \A k \in DOMAIN n.outbox[p] :
        \/ Plain(n.outbox[p][k])
        \/ p # n.id /\ n.outbox[p][k] = get_append_entries_for_peer(n, p)

\* Nothing that is relevant here differs but the messages.
Still(a, b) == Stays(a, b) /\ b.outbox = a.outbox

\* What a node has for a peer does not depend on anything else.
LEMMA SameMail ==
    ASSUME NEW a, NEW b, Stays(a, b), b.current_term = a.current_term
    PROVE  /\ \A p : get_append_entries_for_peer(b, p) = get_append_entries_for_peer(a, p)
           /\ b.outbox = a.outbox => (Spoken(a) <=> Spoken(b))
<1>1. /\ b.log = a.log /\ b.first_log_index = a.first_log_index /\ b.snapshot = a.snapshot
      /\ b.commit_index = a.commit_index /\ b.next_index = a.next_index /\ b.id = a.id
    BY DEF Stays, SameHistory
<1>2. \A k : /\ has_entry(b, k) <=> has_entry(a, k)
             /\ get_entry(b, k) = get_entry(a, k)
             /\ get_entries(b, k) = get_entries(a, k)
    BY <1>1 DEF has_entry, get_entry, get_entries
<1>3. has_snapshot_chunk(b) <=> has_snapshot_chunk(a)
    BY <1>1 DEF has_snapshot_chunk
<1>4. \A p : get_append_entries_for_follower(b, p) = get_append_entries_for_follower(a, p)
    BY <1>1, <1>2 DEF get_append_entries_for_follower
<1>5. \A p : get_append_entries_for_peer(b, p) = get_append_entries_for_peer(a, p)
    BY <1>1, <1>3, <1>4 DEF get_append_entries_for_peer
<1>6. b.outbox = a.outbox => (Spoken(a) <=> Spoken(b))
    BY <1>1, <1>5 DEF Spoken
<1> QED BY <1>5, <1>6

\* Terms, roles, votes, timers and the lease are no part of it.
LEMMA UpdatesStill ==
    ASSUME NEW T, NEW n, NodeOK(n, T)
    PROVE  /\ Still(n, n)
           /\ \A t : Still(n, step_down(n, t)) /\ step_down(n, t).current_term = t
                     /\ step_down(n, t).role = Follower
           /\ Still(n, reset_election_timer(n))
           /\ Still(n, reset_heartbeat_timer(n))
           /\ Still(n, stop_timers(n))
           /\ Still(n, grant(n))
           /\ \A t : Still(n, reset_election_timer_if_valid_term(n, t))
           /\ \A r : Still(n, [n EXCEPT !.role = r])
           /\ \A p : Still(n, [n EXCEPT !.current_leader = p])
           /\ \A p : Still(n, [n EXCEPT !.voted_for = p])
           /\ \A c : Still(n, [n EXCEPT !.votes_received = c])
           /\ \A c : Still(n, [n EXCEPT !.pre_votes_received = c])
           /\ \A f : Still(n, [n EXCEPT !.in_pre_vote = f])
           /\ \A k : Still(n, [n EXCEPT !.pending_change = k])
           /\ \A c, f : Still(n, [n EXCEPT !.pre_votes_received = c, !.in_pre_vote = f])
           /\ \A t, v, r : Still(n, [n EXCEPT !.current_term = t, !.voted_for = v, !.role = r])
           /\ \A t, v, c, f, r : Still(n, [n EXCEPT !.current_term = t, !.voted_for = v,
                                                    !.votes_received = c,
                                                    !.in_pre_vote = f, !.role = r])
<1>1. \A t : Still(n, step_down(n, t)) /\ step_down(n, t).current_term = t
             /\ step_down(n, t).role = Follower
    BY DEF NodeOK, NodeFields, Still, Stays, SameHistory, step_down, revoke,
           reset_election_timer
<1>2. /\ Still(n, n)
      /\ Still(n, reset_election_timer(n))
      /\ Still(n, reset_heartbeat_timer(n))
      /\ Still(n, stop_timers(n))
      /\ Still(n, grant(n))
    BY DEF NodeOK, NodeFields, Still, Stays, SameHistory, reset_election_timer,
           reset_heartbeat_timer, stop_timers, grant
<1>3. \A t : Still(n, reset_election_timer_if_valid_term(n, t))
    BY <1>2 DEF reset_election_timer_if_valid_term
<1>4. /\ \A r : Still(n, [n EXCEPT !.role = r])
      /\ \A p : Still(n, [n EXCEPT !.current_leader = p])
      /\ \A p : Still(n, [n EXCEPT !.voted_for = p])
      /\ \A c : Still(n, [n EXCEPT !.votes_received = c])
      /\ \A c : Still(n, [n EXCEPT !.pre_votes_received = c])
      /\ \A f : Still(n, [n EXCEPT !.in_pre_vote = f])
      /\ \A k : Still(n, [n EXCEPT !.pending_change = k])
    BY DEF NodeOK, NodeFields, Still, Stays, SameHistory
<1>5. /\ \A c, f : Still(n, [n EXCEPT !.pre_votes_received = c, !.in_pre_vote = f])
      /\ \A t, v, r : Still(n, [n EXCEPT !.current_term = t, !.voted_for = v, !.role = r])
    BY DEF NodeOK, NodeFields, Still, Stays, SameHistory
<1>6. \A t, v, c, f, r : Still(n, [n EXCEPT !.current_term = t, !.voted_for = v,
                                            !.votes_received = c,
                                            !.in_pre_vote = f, !.role = r])
    BY DEF NodeOK, NodeFields, Still, Stays, SameHistory
<1> QED BY <1>1, <1>2, <1>3, <1>4, <1>5, <1>6

\* A node that is still says what it has said.
LEMMA StillPlainly ==
    ASSUME NEW a, NEW b, Still(a, b), Plainly(a)
    PROVE  Plainly(b)
BY DEF Still, Plainly

\* What is in the outbox after a message was sent.
LEMMA SentTo ==
    ASSUME NEW T, NEW n, NodeOK(n, T), NEW p \in Node, NEW m \in RaftMsg(T)
    PROVE  LET b == send(n, p, m)
           IN  /\ Stays(n, b)
               /\ b.role = n.role
               /\ b.current_term = n.current_term
               /\ \A q \in Node : \A k \in DOMAIN b.outbox[q] :
                      \/ k \in DOMAIN n.outbox[q] /\ b.outbox[q][k] = n.outbox[q][k]
                      \/ q = p /\ b.outbox[q][k] = m
<1> DEFINE b == send(n, p, m)
<1>1. n.outbox \in [Node -> Seq(RaftMsg(T))]
    BY DEF NodeOK
<1>2. b.outbox = [n.outbox EXCEPT ![p] = Append(@, m)]
    BY DEF send, NodeOK, NodeFields
<1>3. Stays(n, b) /\ b.role = n.role /\ b.current_term = n.current_term
    BY DEF send, NodeOK, NodeFields, Stays, SameHistory
<1> HIDE DEF b
<1>4. ASSUME NEW q \in Node, NEW k \in DOMAIN b.outbox[q]
      PROVE  \/ k \in DOMAIN n.outbox[q] /\ b.outbox[q][k] = n.outbox[q][k]
             \/ q = p /\ b.outbox[q][k] = m
    <2>1. CASE q # p
        BY <1>1, <1>2, <2>1
    <2>2. CASE q = p
        <3> DEFINE old == n.outbox[p]
        <3>1. old \in Seq(RaftMsg(T)) /\ b.outbox[q] = Append(old, m)
            BY <1>1, <1>2, <2>2
        <3> HIDE DEF old
        <3>2. k \in 1..(Len(old) + 1) /\ DOMAIN old = 1..Len(old)
            BY <1>4, <3>1
        <3>3. k # Len(old) + 1 => k \in DOMAIN old /\ Append(old, m)[k] = old[k]
            BY <3>1, <3>2
        <3>4. k = Len(old) + 1 => Append(old, m)[k] = m
            BY <3>1
        <3>5. CASE k = Len(old) + 1
            BY <2>2, <3>1, <3>4, <3>5
        <3>6. CASE k # Len(old) + 1
            BY <2>2, <3>1, <3>3, <3>6 DEF old
        <3> QED BY <3>5, <3>6
    <2> QED BY <2>1, <2>2
<1> QED BY <1>3, <1>4 DEF b

\* A vote, a request for votes, and the log to the others.
LEMMA SendPlain ==
    ASSUME NEW T, NEW n, NodeOK(n, T), Plainly(n)
    PROVE  /\ \A p \in Node : \A m \in RaftMsg(T) : Plain(m) =>
                  LET b == send(n, p, m)
                  IN  Stays(n, b) /\ Plainly(b) /\ b.role = n.role
                      /\ b.current_term = n.current_term
           /\ \A m \in RaftMsg(T) : Plain(m) =>
                  LET b == broadcast(n, m)
                  IN  Stays(n, b) /\ Plainly(b) /\ b.role = n.role
                      /\ b.current_term = n.current_term
           /\ LET b == send_append_entries_to_followers(n)
              IN  Stays(n, b) /\ Spoken(b) /\ b.role = n.role
                  /\ b.current_term = n.current_term
<1>1. ASSUME NEW p \in Node, NEW m \in RaftMsg(T), Plain(m)
      PROVE  LET b == send(n, p, m)
             IN  Stays(n, b) /\ Plainly(b) /\ b.role = n.role
                 /\ b.current_term = n.current_term
    <2> DEFINE b == send(n, p, m)
    <2>1. /\ Stays(n, b)
          /\ b.role = n.role
          /\ b.current_term = n.current_term
          /\ \A q \in Node : \A k \in DOMAIN b.outbox[q] :
                 \/ k \in DOMAIN n.outbox[q] /\ b.outbox[q][k] = n.outbox[q][k]
                 \/ q = p /\ b.outbox[q][k] = m
        BY SentTo
    <2> HIDE DEF b
    <2>2. Plainly(b)
        BY <1>1, <2>1 DEF Plainly
    <2> QED BY <2>1, <2>2 DEF b
<1>2. ASSUME NEW msg \in [Node -> RaftMsg(T)]
      PROVE  LET b == send_to_peers(n, msg)
             IN  /\ Stays(n, b) /\ b.role = n.role /\ b.current_term = n.current_term
                 /\ \A q \in Node : \A k \in DOMAIN b.outbox[q] :
                        Plain(b.outbox[q][k]) \/ (q # n.id /\ b.outbox[q][k] = msg[q])
    <2> DEFINE b == send_to_peers(n, msg)
    <2>1. /\ b = [n EXCEPT !.outbox = b.outbox]
          /\ \A q \in Node : \A k \in DOMAIN b.outbox[q] :
                 \/ k \in DOMAIN n.outbox[q] /\ b.outbox[q][k] = n.outbox[q][k]
                 \/ q # n.id /\ b.outbox[q][k] = msg[q]
        BY SentToPeers
    <2> HIDE DEF b
    <2>2. Stays(n, b) /\ b.role = n.role /\ b.current_term = n.current_term
        BY <2>1 DEF NodeOK, NodeFields, Stays, SameHistory
    <2>3. \A q \in Node : \A k \in DOMAIN b.outbox[q] :
              Plain(b.outbox[q][k]) \/ (q # n.id /\ b.outbox[q][k] = msg[q])
        BY <2>1 DEF Plainly
    <2> QED BY <2>2, <2>3 DEF b
<1>3. ASSUME NEW m \in RaftMsg(T), Plain(m)
      PROVE  LET b == broadcast(n, m)
             IN  Stays(n, b) /\ Plainly(b) /\ b.role = n.role
                 /\ b.current_term = n.current_term
    <2> DEFINE msg == [p \in Node |-> m]
               b == send_to_peers(n, msg)
    <2>1. msg \in [Node -> RaftMsg(T)] /\ \A p \in Node : msg[p] = m
        OBVIOUS
    <2>2. broadcast(n, m) = b
        BY DEF broadcast
    <2> HIDE DEF msg
    <2>3. /\ Stays(n, b) /\ b.role = n.role /\ b.current_term = n.current_term
          /\ \A q \in Node : \A k \in DOMAIN b.outbox[q] :
                 Plain(b.outbox[q][k]) \/ (q # n.id /\ b.outbox[q][k] = msg[q])
        BY <1>2, <2>1
    <2> HIDE DEF b
    <2>4. Plainly(b)
        BY <1>3, <2>1, <2>3 DEF Plainly
    <2> QED BY <2>2, <2>3, <2>4
<1>4. LET b == send_append_entries_to_followers(n)
      IN  Stays(n, b) /\ Spoken(b) /\ b.role = n.role /\ b.current_term = n.current_term
    <2> DEFINE msg == [p \in Node |-> get_append_entries_for_peer(n, p)]
               b == send_to_peers(n, msg)
    <2>1. msg \in [Node -> RaftMsg(T)]
        BY MessageForPeerType
    <2>2. \A p \in Node : msg[p] = get_append_entries_for_peer(n, p)
        OBVIOUS
    <2>3. send_append_entries_to_followers(n) = b
        BY DEF send_append_entries_to_followers
    <2> HIDE DEF msg
    <2>4. /\ Stays(n, b) /\ b.role = n.role /\ b.current_term = n.current_term
          /\ \A q \in Node : \A k \in DOMAIN b.outbox[q] :
                 Plain(b.outbox[q][k]) \/ (q # n.id /\ b.outbox[q][k] = msg[q])
        BY <1>2, <2>1
    <2> HIDE DEF b
    <2>5. \A p : get_append_entries_for_peer(b, p) = get_append_entries_for_peer(n, p)
        BY <2>4, SameMail
    <2>6. b.id = n.id
        BY <2>4 DEF Stays, SameHistory
    <2>7. Spoken(b)
        BY <2>2, <2>4, <2>5, <2>6 DEF Spoken
    <2> QED BY <2>3, <2>4, <2>7
<1> QED BY <1>1, <1>3, <1>4

\* A node has begun to lead, and sends its log to all others.
Installed(a, b) ==
    /\ b.role = Leader
    /\ a.role = Leader => b.current_term > a.current_term
    /\ b.next_index = initialize_leader_state(a).next_index
    /\ b.match_index = initialize_leader_state(a).match_index
    /\ Spoken(b)

\* A node has gone on as it was, or has ceased to lead.
Remained(a, b) ==
    /\ Stays(a, b)
    /\ Plainly(b)
    /\ b.role = Leader => a.role = Leader /\ b.current_term = a.current_term

\* What an event of an election does.
Voting(a, b) ==
    /\ SameHistory(a, b)
    /\ b.current_term >= a.current_term
    /\ a.role = Leader /\ b.current_term = a.current_term => b.role = Leader
    /\ Remained(a, b) \/ Installed(a, b)

\* The indices a leader begins with depend only on its history.
LEMMA SameLeaderState ==
    ASSUME NEW T, NEW a, NodeOK(a, T), NEW b, NodeOK(b, T), Stays(a, b)
    PROVE  /\ initialize_leader_state(b).next_index = initialize_leader_state(a).next_index
           /\ initialize_leader_state(b).match_index = initialize_leader_state(a).match_index
<1> DEFINE known(n) == {p \in Node : contains(n.members, p)}
           all(n, map, v) == [p \in DOMAIN map \cup known(n) |->
                                 IF p \in known(n) THEN v ELSE map[p]]
<1>1. /\ b.members = a.members /\ b.next_index = a.next_index
      /\ b.match_index = a.match_index
    BY DEF Stays, SameHistory
<1>2. last_log_index(b) = last_log_index(a)
    BY DEF last_log_index, Stays, SameHistory
<1>3. \A n : NodeOK(n, T) =>
          /\ initialize_leader_state(n).next_index = all(n, n.next_index, last_log_index(n) + 1)
          /\ initialize_leader_state(n).match_index = all(n, n.match_index, 0)
    BY DEF initialize_leader_state, NodeOK, NodeFields
<1>4. all(b, b.next_index, last_log_index(b) + 1) = all(a, a.next_index, last_log_index(a) + 1)
      /\ all(b, b.match_index, 0) = all(a, a.match_index, 0)
    BY <1>1, <1>2
<1> HIDE DEF all
<1> QED BY <1>3, <1>4

\* A node that becomes leader.
LEMMA BecomeLeaderInstalled ==
    ASSUME NEW T, NEW n, NodeOK(n, T), Plainly(n)
    PROVE  LET b == become_leader(n)
           IN  /\ SameHistory(n, b)
               /\ b.current_term = n.current_term
               /\ b.role = Leader
               /\ b.next_index = initialize_leader_state(n).next_index
               /\ b.match_index = initialize_leader_state(n).match_index
               /\ Spoken(b)
<1> DEFINE a == [n EXCEPT !.role = Leader]
           c == initialize_leader_state(a)
           d == stop_timers(c)
           e == reset_heartbeat_timer(d)
           b == send_append_entries_to_followers(e)
<1>1. NodeOK(a, T) /\ a.role = Leader /\ a.current_term = n.current_term
    BY DEF NodeOK, NodeFields
<1>2. Still(n, a)
    BY UpdatesStill
<1>3. become_leader(n) = b
    BY DEF become_leader
<1> HIDE DEF a
<1>4. NodeOK(c, T)
    BY <1>1, InitializeLeaderStateType
<1>5. /\ SameHistory(a, c) /\ c.outbox = a.outbox
      /\ c.role = a.role /\ c.current_term = a.current_term
    BY <1>1 DEF initialize_leader_state, NodeOK, NodeFields, SameHistory
<1>6. c.next_index = initialize_leader_state(n).next_index
      /\ c.match_index = initialize_leader_state(n).match_index
    BY <1>1, <1>2, SameLeaderState DEF Still
<1> HIDE DEF c
<1>7. NodeOK(d, T) /\ Still(c, d)
    BY <1>4, TimerType, UpdatesStill
<1>8. d.role = c.role /\ d.current_term = c.current_term
    BY <1>4 DEF stop_timers, NodeOK, NodeFields
<1> HIDE DEF d
<1>9. NodeOK(e, T) /\ Still(d, e)
    BY <1>7, TimerType, UpdatesStill
<1>10. e.role = d.role /\ e.current_term = d.current_term
    BY <1>7 DEF reset_heartbeat_timer, NodeOK, NodeFields
<1> HIDE DEF e
<1>11. Plainly(e)
    BY <1>2, <1>5, <1>7, <1>9 DEF Still, Plainly
<1>12. Stays(e, b) /\ Spoken(b) /\ b.role = e.role /\ b.current_term = e.current_term
    BY <1>9, <1>11, SendPlain
<1> HIDE DEF b
<1>13. SameHistory(n, b)
    BY <1>2, <1>5, <1>7, <1>9, <1>12 DEF Still, Stays, SameHistory
<1>14. b.next_index = c.next_index /\ b.match_index = c.match_index
    BY <1>7, <1>9, <1>12 DEF Still, Stays
<1> QED BY <1>1, <1>3, <1>5, <1>6, <1>8, <1>10, <1>12, <1>13, <1>14

\* A node that asks for pre-votes.
LEMMA StartPreVoteRemains ==
    ASSUME NEW T, NEW n, NodeOK(n, T), Plainly(n)
    PROVE  LET b == start_pre_vote(n)
           IN  Stays(n, b) /\ Plainly(b) /\ b.role = n.role /\ b.current_term = n.current_term
<1> DEFINE a == [n EXCEPT !.pre_votes_received = push(new_collection, n.id),
                          !.in_pre_vote = TRUE]
           r == reset_election_timer(a)
           m == VoteRequestMsg("PreVoteRequest", n.current_term,
                               last_log_index(n), last_log_term(n))
           b == broadcast(r, m)
<1>1. n.id \in Node /\ n.current_term \in Nat
    BY DEF NodeOK
<1>2. NodeOK(a, T) /\ a.role = n.role /\ a.current_term = n.current_term
    BY <1>1, PushType DEF NodeOK, NodeFields
<1>3. Still(n, a)
    BY UpdatesStill
<1>4. start_pre_vote(n) = b
    BY DEF start_pre_vote
<1> HIDE DEF a
<1>5. NodeOK(r, T) /\ Still(a, r)
    BY <1>2, TimerType, UpdatesStill
<1>6. r.role = a.role /\ r.current_term = a.current_term
    BY <1>2 DEF reset_election_timer, NodeOK, NodeFields
<1>7. m \in RaftMsg(T) /\ Plain(m)
    BY <1>1, VoteRequestType DEF VoteRequestMsg, Plain
<1> HIDE DEF r, m
<1>8. Plainly(r)
    BY <1>3, <1>5, StillPlainly
<1>9. Stays(r, b) /\ Plainly(b) /\ b.role = r.role /\ b.current_term = r.current_term
    BY <1>5, <1>7, <1>8, SendPlain
<1> HIDE DEF b
<1>10. Stays(n, b)
    BY <1>3, <1>5, <1>9 DEF Still, Stays, SameHistory
<1> QED BY <1>2, <1>4, <1>6, <1>9, <1>10

\* A node that asks for votes may lead at once.
LEMMA StartElectionVoting ==
    ASSUME NEW T, NEW n, NodeOK(n, T), Plainly(n)
    PROVE  Voting(n, start_election(n))
<1> DEFINE term == n.current_term + 1
           a == [n EXCEPT !.current_term = term, !.voted_for = n.id,
                          !.votes_received = push(new_collection, n.id),
                          !.in_pre_vote = FALSE, !.role = Candidate]
           r == reset_election_timer(a)
           m == VoteRequestMsg("RequestVote", term, last_log_index(n), last_log_term(n))
           b == broadcast(r, m)
           c == become_leader(b)
<1>1. n.id \in Node /\ term \in Nat /\ n.current_term \in Nat /\ term > n.current_term
    BY DEF NodeOK
<1> HIDE DEF term
<1>2. NodeOK(a, T) /\ a.role = Candidate /\ a.current_term = term
    BY <1>1, PushType DEF NodeOK, NodeFields, Optional
<1>3. Still(n, a)
    BY UpdatesStill
<1>4. start_election(n) = IF size(n.members) <= 1 THEN c ELSE b
    BY DEF start_election, r, a, m, term
<1> HIDE DEF a
<1>5. NodeOK(r, T) /\ Still(a, r)
    BY <1>2, TimerType, UpdatesStill
<1>6. r.role = a.role /\ r.current_term = a.current_term
    BY <1>2 DEF reset_election_timer, NodeOK, NodeFields
<1>7. m \in RaftMsg(T) /\ Plain(m)
    BY <1>1, VoteRequestType DEF VoteRequestMsg, Plain
<1> HIDE DEF r, m
<1>8. Plainly(r)
    BY <1>3, <1>5, StillPlainly
<1>9. Stays(r, b) /\ Plainly(b) /\ b.role = r.role /\ b.current_term = r.current_term
    BY <1>5, <1>7, <1>8, SendPlain
<1>10. NodeOK(b, T)
    BY <1>5, <1>7, BroadcastType, Zenon
<1> HIDE DEF b
<1>11. Stays(n, b) /\ b.role = Candidate /\ b.current_term = term
    BY <1>2, <1>3, <1>5, <1>6, <1>9 DEF Still, Stays, SameHistory
<1>12. /\ SameHistory(b, c)
       /\ c.current_term = b.current_term
       /\ c.role = Leader
       /\ c.next_index = initialize_leader_state(b).next_index
       /\ c.match_index = initialize_leader_state(b).match_index
       /\ Spoken(c)
    BY <1>9, <1>10, BecomeLeaderInstalled
<1>13. /\ initialize_leader_state(b).next_index = initialize_leader_state(n).next_index
       /\ initialize_leader_state(b).match_index = initialize_leader_state(n).match_index
    BY <1>10, <1>11, SameLeaderState
<1> HIDE DEF c
<1>14. Candidate # Leader
    BY DEF Candidate, Leader
<1>15. Voting(n, b)
    BY <1>1, <1>9, <1>11, <1>14 DEF Voting, Remained, Stays
<1>16. SameHistory(n, c)
    BY <1>11, <1>12 DEF Stays, SameHistory
<1>17. Voting(n, c)
    BY <1>1, <1>11, <1>12, <1>13, <1>16 DEF Voting, Installed
<1> QED BY <1>4, <1>15, <1>17

\* A node that is still, with the role and the term it had, has remained.
LEMMA StillVoting ==
    ASSUME NEW T, NEW a, NodeOK(a, T), Plainly(a), NEW b, Stays(a, b), Plainly(b),
           \/ b.role = a.role /\ b.current_term = a.current_term
           \/ /\ b.role = Follower
              /\ b.current_term \in Nat
              /\ b.current_term > a.current_term
    PROVE  Voting(a, b)
<1>1. a.current_term \in Nat
    BY DEF NodeOK
<1>2. Follower # Leader
    BY DEF Follower, Leader
<1> QED BY <1>1, <1>2 DEF Voting, Remained, Stays

\* After a node that was still another event of the election follows.
LEMMA VotingAfter ==
    ASSUME NEW T, NEW a, NodeOK(a, T), NEW b, NodeOK(b, T), NEW c,
           Stays(a, b), b.role = a.role, b.current_term = a.current_term, Voting(b, c)
    PROVE  Voting(a, c)
<1>1. SameHistory(a, c)
    BY DEF Voting, Stays, SameHistory
<1>2. Remained(b, c) => Remained(a, c)
    BY DEF Remained, Stays, SameHistory
<1>3. /\ initialize_leader_state(b).next_index = initialize_leader_state(a).next_index
      /\ initialize_leader_state(b).match_index = initialize_leader_state(a).match_index
    BY SameLeaderState
<1>4. Installed(b, c) => Installed(a, c)
    BY <1>3 DEF Installed
<1> QED BY <1>1, <1>2, <1>4 DEF Voting

\* An answer to a request for a pre-vote or a vote.
LEMMA VoteRequestVoting ==
    ASSUME NEW T, NEW n, NodeOK(n, T), Plainly(n), NEW from \in Node, NEW m,
           m.term \in Nat
    PROVE  /\ Voting(n, handle_pre_vote_request(n, from, m))
           /\ Voting(n, handle_vote_request(n, from, m))
<1>1. ASSUME NEW b, NodeOK(b, T), Plainly(b), NEW g \in BOOLEAN,
             NEW type \in {"PreVoteResponse", "RequestVoteResponse"}
      PROVE  LET c == send(b, from, VoteResponseMsg(type, b.current_term, g))
             IN  Stays(b, c) /\ Plainly(c) /\ c.role = b.role
                 /\ c.current_term = b.current_term
    <2> DEFINE answer == VoteResponseMsg(type, b.current_term, g)
    <2>1. b.current_term \in Nat
        BY <1>1 DEF NodeOK
    <2>2. answer \in RaftMsg(T) /\ Plain(answer)
        BY <2>1 DEF VoteResponseMsg, RaftMsg, Plain
    <2> HIDE DEF answer
    <2>3. LET c == send(b, from, answer)
          IN  Stays(b, c) /\ Plainly(c) /\ c.role = b.role
              /\ c.current_term = b.current_term
        BY <1>1, <2>2, SendPlain
    <2> QED BY <2>3 DEF answer
<1> DEFINE a == IF m.term > n.current_term THEN step_down(n, m.term) ELSE n
           granted == should_grant_vote(a, from, m)
           c == [a EXCEPT !.voted_for = from]
           b == IF granted THEN reset_election_timer(c) ELSE a
           d == send(b, from, VoteResponseMsg("RequestVoteResponse", b.current_term, granted))
           pre == m.term >= n.current_term /\ is_log_up_to_date(n, m)
           e == send(n, from, VoteResponseMsg("PreVoteResponse", n.current_term, pre))
<1>2. Voting(n, handle_pre_vote_request(n, from, m))
    <2>1. pre \in BOOLEAN
        OBVIOUS
    <2>2. handle_pre_vote_request(n, from, m) = e
        BY DEF handle_pre_vote_request
    <2> HIDE DEF pre
    <2>3. Stays(n, e) /\ Plainly(e) /\ e.role = n.role /\ e.current_term = n.current_term
        BY <1>1, <2>1
    <2> HIDE DEF e
    <2> QED BY <2>2, <2>3, StillVoting
<1>3. NodeOK(a, T) /\ Still(n, a)
    <2>1. NodeOK(step_down(n, m.term), T)
        BY StepDownType, Zenon
    <2>2. Still(n, n) /\ Still(n, step_down(n, m.term))
        BY UpdatesStill, Zenon
    <2> QED BY <2>1, <2>2
<1>4. \/ a.role = n.role /\ a.current_term = n.current_term
      \/ a.role = Follower /\ a.current_term \in Nat /\ a.current_term > n.current_term
    <2>1. step_down(n, m.term).current_term = m.term /\ step_down(n, m.term).role = Follower
        BY UpdatesStill, Zenon
    <2> QED BY <2>1
<1>5. granted \in BOOLEAN
    BY DEF should_grant_vote
<1>6. handle_vote_request(n, from, m) = d
    BY DEF handle_vote_request
<1> HIDE DEF a, granted
<1>7. NodeOK(c, T) /\ c.role = a.role /\ c.current_term = a.current_term
    BY <1>3 DEF NodeOK, NodeFields, Optional
<1>8. Still(a, c)
    BY <1>3, UpdatesStill, Zenon
<1> HIDE DEF c
<1>9. NodeOK(b, T) /\ Still(a, b) /\ b.role = a.role /\ b.current_term = a.current_term
    <2>1. NodeOK(reset_election_timer(c), T) /\ Still(c, reset_election_timer(c))
        BY <1>7, TimerType, UpdatesStill, Zenon
    <2>2. /\ reset_election_timer(c).role = c.role
          /\ reset_election_timer(c).current_term = c.current_term
        BY <1>7 DEF NodeOK, NodeFields, reset_election_timer
    <2>3. Still(a, reset_election_timer(c))
        BY <1>8, <2>1 DEF Still, Stays, SameHistory
    <2>4. Still(a, a)
        BY <1>3, UpdatesStill, Zenon
    <2> QED BY <1>3, <1>7, <2>1, <2>2, <2>3, <2>4
<1> HIDE DEF b
<1>10. Plainly(b)
    BY <1>3, <1>9 DEF Still, Plainly
<1>11. Stays(b, d) /\ Plainly(d) /\ d.role = b.role /\ d.current_term = b.current_term
    BY <1>1, <1>5, <1>9, <1>10
<1> HIDE DEF d
<1>12. Stays(n, d)
    BY <1>3, <1>9, <1>11 DEF Still, Stays, SameHistory
<1>13. Voting(n, d)
    BY <1>4, <1>9, <1>11, <1>12, StillVoting
<1> QED BY <1>2, <1>6, <1>13

\* A pre-vote may start an election, a vote may decide one.
LEMMA VoteResponseVoting ==
    ASSUME NEW T, NEW n, NodeOK(n, T), Plainly(n), NEW from \in Node, NEW m,
           m.term \in Nat
    PROVE  /\ Voting(n, handle_pre_vote_response(n, from, m))
           /\ Voting(n, handle_vote_response(n, from, m))
<1> DEFINE a == [n EXCEPT !.pre_votes_received = push(@, from)]
           b == [a EXCEPT !.in_pre_vote = FALSE]
           c == [n EXCEPT !.votes_received = push(@, from)]
           d == step_down(n, m.term)
           e == become_leader(c)
<1>1. NodeOK(a, T) /\ NodeOK(b, T) /\ NodeOK(c, T)
    BY PushType DEF NodeOK, NodeFields
<1>2. /\ a.role = n.role /\ a.current_term = n.current_term
      /\ b.role = n.role /\ b.current_term = n.current_term
      /\ c.role = n.role /\ c.current_term = n.current_term
    BY DEF NodeOK, NodeFields
<1>3. Still(n, a) /\ Still(a, b) /\ Still(n, c)
    BY <1>1, UpdatesStill
<1>4. handle_pre_vote_response(n, from, m) \in {n, a, start_election(b)}
    BY DEF handle_pre_vote_response
<1>5. \/ handle_vote_response(n, from, m) \in {n, c}
      \/ m.term > n.current_term /\ handle_vote_response(n, from, m) = d
      \/ n.role = Candidate /\ handle_vote_response(n, from, m) = e
    BY DEF handle_vote_response
<1> HIDE DEF a, b, c
<1>6. Still(n, n) /\ Still(n, b)
    BY <1>3, UpdatesStill DEF Still, Stays, SameHistory
<1>7. Plainly(a) /\ Plainly(b) /\ Plainly(c)
    BY <1>3, <1>6, StillPlainly
<1>8. Voting(n, n) /\ Voting(n, a) /\ Voting(n, c)
    BY <1>2, <1>3, <1>6, <1>7, StillVoting DEF Still
<1>9. Voting(n, start_election(b))
    <2>1. Voting(b, start_election(b))
        BY <1>1, <1>7, StartElectionVoting
    <2> QED BY <1>1, <1>2, <1>6, <2>1, VotingAfter DEF Still
<1>10. ASSUME m.term > n.current_term PROVE Voting(n, d)
    <2>1. Still(n, d) /\ d.current_term = m.term /\ d.role = Follower
        BY UpdatesStill
    <2> HIDE DEF d
    <2>2. Plainly(d)
        BY <2>1, StillPlainly
    <2> QED BY <1>10, <2>1, <2>2, StillVoting DEF Still
<1>11. ASSUME n.role = Candidate PROVE Voting(n, e)
    <2>1. /\ SameHistory(c, e)
          /\ e.current_term = c.current_term
          /\ e.role = Leader
          /\ e.next_index = initialize_leader_state(c).next_index
          /\ e.match_index = initialize_leader_state(c).match_index
          /\ Spoken(e)
        BY <1>1, <1>7, BecomeLeaderInstalled
    <2> HIDE DEF e
    <2>2. Voting(c, e)
        <3>1. c.role # Leader /\ c.current_term \in Nat
            BY <1>1, <1>2, <1>11 DEF Candidate, Leader, NodeOK
        <3> QED BY <2>1, <3>1 DEF Voting, Installed
    <2> QED BY <1>1, <1>2, <1>3, <2>2, VotingAfter DEF Still
<1> HIDE DEF d, e
<1>12. Voting(n, handle_pre_vote_response(n, from, m))
    BY <1>4, <1>8, <1>9
<1>13. Voting(n, handle_vote_response(n, from, m))
    BY <1>5, <1>8, <1>10, <1>11
<1> QED BY <1>12, <1>13

\* The election timer of a node that does not lead.
LEMMA ElectionTimerVoting ==
    ASSUME NEW T, NEW n, NodeOK(n, T), Plainly(n)
    PROVE  Voting(n, handle_election_timer(n))
<1> DEFINE a == start_pre_vote(n)
<1>1. NodeOK(a, T)
    BY StartPreVoteType, Zenon
<1>2. Stays(n, a) /\ Plainly(a) /\ a.role = n.role /\ a.current_term = n.current_term
    BY StartPreVoteRemains
<1>3. handle_election_timer(n) \in {n, a, start_election(a)}
    BY DEF handle_election_timer
<1> HIDE DEF a
<1>4. Voting(n, a)
    BY <1>2, StillVoting
<1>5. Voting(n, start_election(a))
    <2>1. Voting(a, start_election(a))
        BY <1>1, <1>2, StartElectionVoting
    <2> QED BY <1>1, <1>2, <2>1, VotingAfter
<1>6. Voting(n, n)
    <2>1. Stays(n, n)
        BY DEF Stays, SameHistory
    <2> QED BY <2>1, StillVoting
<1> QED BY <1>3, <1>4, <1>5, <1>6

\* The heartbeat timer of a leader.
LEMMA HeartbeatSpoken ==
    ASSUME NEW T, NEW n, NodeOK(n, T), Plainly(n), n.role = Leader
    PROVE  LET b == handle_heartbeat_timer(n)
           IN  Stays(n, b) /\ Spoken(b) /\ b.role = Leader /\ b.current_term = n.current_term
<1> DEFINE c == send_append_entries_to_followers(n)
           d == reset_heartbeat_timer(c)
<1>1. handle_heartbeat_timer(n) = d
    BY DEF handle_heartbeat_timer, send_heartbeats
<1>2. NodeOK(c, T)
    BY SendAppendEntriesType, Zenon
<1>3. Stays(n, c) /\ Spoken(c) /\ c.role = n.role /\ c.current_term = n.current_term
    BY SendPlain
<1> HIDE DEF c
<1>4. Still(c, d)
    BY <1>2, UpdatesStill
<1>5. d.role = c.role /\ d.current_term = c.current_term
    BY <1>2 DEF reset_heartbeat_timer, NodeOK, NodeFields
<1> HIDE DEF d
<1>6. Spoken(d)
    BY <1>3, <1>4, <1>5, SameMail DEF Still
<1>7. Stays(n, d)
    BY <1>3, <1>4 DEF Still, Stays, SameHistory
<1> QED BY <1>1, <1>3, <1>5, <1>6, <1>7

-----------------------------------------------------------------------------
(* AppendEntries                                                           *)

\* How a node answers AppendEntries.
AppendAnswer(n, ok, index) ==
    [type |-> "AppendEntriesResponse", term |-> n.current_term,
     success |-> ok, match_index |-> index]

\* A node that has sent m to p and nothing else.
Told(a, b, p, m) == b.outbox = [a.outbox EXCEPT ![p] = Append(@, m)]

\* AppendEntries, up to what a term and a timer make of it.
LEMMA AppendEntriesParts ==
    ASSUME NEW T \in EntryTypes, NEW n, NodeOK(n, T), NEW from \in Node,
           NEW m \in AppendEntriesMsg(T)
    PROVE  \/ /\ m.term > n.current_term
              /\ handle_append_entries(n, from, m) = step_down(n, m.term)
           \/ /\ m.term <= n.current_term
              /\ \E a : \E ok \in BOOLEAN :
                    /\ NodeOK(a, T)
                    /\ Still(n, a)
                    /\ a.current_term = n.current_term
                    /\ a.role \in {n.role, Follower}
                    /\ T = Command /\ n.role = Leader => a.role = Leader
                    /\ ok <=> /\ m.term = n.current_term
                              /\ check_log_consistency(n, m.prev_log_index, m.prev_log_term)
                    /\ LET c == IF ok THEN try_append_entries(a, m) ELSE a
                       IN  handle_append_entries(n, from, m) =
                               send(c, from, AppendAnswer(c, ok, last_log_index(c)))
<1> DEFINE r == reset_election_timer_if_valid_term(n, m.term)
           h == [r EXCEPT !.current_leader = from]
           a == IF m.term = h.current_term /\ h.role = Candidate
                THEN [h EXCEPT !.role = Follower] ELSE h
           ok == /\ m.term >= h.current_term
                 /\ check_log_consistency(a, m.prev_log_index, m.prev_log_term)
           c == IF ok THEN try_append_entries(a, m) ELSE a
<1>1. m.term \in Nat /\ n.current_term \in Nat
    BY DEF AppendEntriesMsg, NodeOK
<1>2. NodeOK(r, T) /\ Still(n, r) /\ r.current_term = n.current_term /\ r.role = n.role
    <2>1. NodeOK(r, T)
        BY <1>1, ResetIfValidType, Zenon
    <2>2. r.current_term = n.current_term /\ r.role = n.role
        BY DEF reset_election_timer_if_valid_term, reset_election_timer, NodeOK, NodeFields
    <2> QED BY <2>1, <2>2, UpdatesStill
<1>3. handle_append_entries(n, from, m) =
          IF m.term > n.current_term THEN step_down(n, m.term)
          ELSE send(c, from, AppendAnswer(c, ok, last_log_index(c)))
    BY DEF handle_append_entries, replication_handle_append_entries, AppendAnswer
<1> HIDE DEF r
<1>4. NodeOK(h, T) /\ h.current_term = r.current_term /\ h.role = r.role
    BY <1>2 DEF NodeOK, NodeFields, Optional
<1>5. Still(r, h)
    BY <1>2, UpdatesStill
<1> HIDE DEF h
<1>6. /\ NodeOK(a, T) /\ a.current_term = h.current_term /\ a.role \in {h.role, Follower}
      /\ h.role = Leader => a.role = Leader
    BY <1>4 DEF NodeOK, NodeFields, Candidate, Leader, Follower
<1>7. Still(h, a)
    BY <1>4, UpdatesStill
<1> HIDE DEF a
<1>8. Still(n, a)
    BY <1>2, <1>5, <1>7 DEF Still, Stays, SameHistory
<1>9. check_log_consistency(a, m.prev_log_index, m.prev_log_term)
          <=> check_log_consistency(n, m.prev_log_index, m.prev_log_term)
    BY <1>8 DEF Still, Stays, SameHistory, check_log_consistency, has_entry, get_entry
<1>10. CASE m.term > n.current_term
    BY <1>3, <1>10
<1>11. CASE ~(m.term > n.current_term)
    <2>1. ok <=> /\ m.term = n.current_term
                 /\ check_log_consistency(n, m.prev_log_index, m.prev_log_term)
        BY <1>1, <1>2, <1>4, <1>9, <1>11
    <2>2. m.term <= n.current_term
        BY <1>1, <1>11
    <2>3. ok \in BOOLEAN
        OBVIOUS
    <2>4. handle_append_entries(n, from, m) =
              send(c, from, AppendAnswer(c, ok, last_log_index(c)))
        BY <1>3, <1>11
    <2>5. a.current_term = n.current_term /\ a.role \in {n.role, Follower}
          /\ (n.role = Leader => a.role = Leader)
        BY <1>2, <1>4, <1>6
    <2> HIDE DEF ok
    <2> QED BY <1>6, <1>8, <2>1, <2>2, <2>3, <2>4, <2>5
<1> QED BY <1>10, <1>11

\* What passes the check begins at an index the log has.
LEMMA ConsistentPlace ==
    ASSUME NEW T, NEW n, NodeOK(n, T), NEW h \in Seq(LogEntry(T)), Tracks(n, h),
           NEW prev \in Nat, prev >= n.first_log_index - 1, NEW term,
           check_log_consistency(n, prev, term)
    PROVE  prev \in (n.first_log_index - 1)..End(n)
<1>1. /\ n.first_log_index \in Nat \ {0} /\ End(n) \in Nat
      /\ n.first_log_index - 1 <= End(n)
      /\ \A k \in Int : has_entry(n, k) <=> k \in n.first_log_index..End(n)
    BY TrackedLog, HistoryTypes
<1>2. prev \in Int
    OBVIOUS
<1>3. CASE prev = 0
    BY <1>1, <1>3
<1>4. CASE has_entry(n, prev)
    BY <1>1, <1>2, <1>4
<1>5. CASE n.snapshot # None /\ prev = n.snapshot.last_included_index
    <2>1. n.first_log_index = n.snapshot.last_included_index + 1
        BY <1>5 DEF Tracks
    <2>2. n.snapshot.last_included_index \in Nat
        BY <1>5, HistoryTypes
    <2>3. prev = n.first_log_index - 1
        BY <1>5, <2>1, <2>2
    <2> QED BY <1>1, <2>3
<1> QED BY <1>3, <1>4, <1>5 DEF check_log_consistency

\* What a node has of the history and what it sends depend on nothing else.
LEMMA SameTracks ==
    ASSUME NEW a, NEW b, SameHistory(a, b), NEW h
    PROVE  /\ Tracks(a, h) <=> Tracks(b, h)
           /\ Configured(a, h) <=> Configured(b, h)
           /\ End(b) = End(a)
BY DEF SameHistory, Tracks, Configured, End

\* A node whose log follows m, with what it has come to know as committed.
Grown(a, b, m) ==
    /\ End(a) <= m.prev_log_index + Len(m.entries) => End(a) <= End(b)
    /\ End(b) = End(a) \/ End(b) <= m.prev_log_index + Len(m.entries)
    /\ b.commit_index # a.commit_index =>
           /\ b.commit_index <= m.leader_commit
           /\ b.commit_index <= End(b)
           /\ a.commit_index < m.leader_commit
    /\ a.commit_index = a.last_applied /\ a.commit_index <= End(b) =>
           b.commit_index = b.last_applied /\ a.commit_index <= b.commit_index

\* What a node does with entries of the history.
LEMMA AppendEntriesTracks ==
    ASSUME NEW T \in EntryTypes, NEW n, NodeOK(n, T), NEW h \in Seq(LogEntry(T)),
           Tracks(n, h), NEW from \in Node, NEW m \in AppendEntriesMsg(T),
           m.prev_log_index >= n.first_log_index - 1,
           Follows(h, m.prev_log_index, m.entries)
    PROVE  LET b == handle_append_entries(n, from, m)
           IN  /\ Tracks(b, h)
               /\ b.id = n.id
               /\ b.first_log_index = n.first_log_index
               /\ b.snapshot = n.snapshot
               /\ b.current_term \in {n.current_term, m.term}
               /\ b.current_term >= n.current_term
               /\ b.role \in {n.role, Follower}
               /\ Configured(n, h) => Configured(b, h)
               /\ T = Command => /\ b.members = n.members
                                 /\ b.catching_up_servers = n.catching_up_servers
               /\ \/ m.term > n.current_term /\ Still(n, b)
                  \/ /\ m.term <= n.current_term
                     /\ b.current_term = n.current_term
                     /\ \E ok \in BOOLEAN :
                           /\ ok <=> /\ m.term = n.current_term
                                     /\ check_log_consistency(n, m.prev_log_index, m.prev_log_term)
                           /\ Told(n, b, from, AppendAnswer(n, ok, End(b)))
                           /\ ~ok => Stays(n, b)
                           /\ ok => Grown(n, b, m)
<1> DEFINE b == handle_append_entries(n, from, m)
<1>1. /\ m.term \in Nat /\ n.current_term \in Nat /\ m.prev_log_index \in Nat
      /\ m.entries \in Seq(LogEntry(T))
    BY DEF AppendEntriesMsg, NodeOK
<1>2. CASE m.term > n.current_term /\ b = step_down(n, m.term)
    <2>1. Still(n, b) /\ b.current_term = m.term /\ b.role = Follower
        <3> DEFINE c == step_down(n, m.term)
        <3>1. Still(n, c) /\ c.current_term = m.term /\ c.role = Follower
            BY UpdatesStill, Zenon
        <3> HIDE DEF b, c
        <3> QED BY <1>2, <3>1 DEF c
    <2> HIDE DEF b
    <2>2. SameHistory(n, b)
        BY <2>1 DEF Still, Stays
    <2>3. Tracks(b, h) /\ (Configured(n, h) => Configured(b, h))
        BY <2>2, SameTracks
    <2> QED BY <1>1, <1>2, <2>1, <2>2, <2>3 DEF SameHistory, b
<1>3. ASSUME m.term <= n.current_term,
             NEW a, NEW ok \in BOOLEAN,
             NodeOK(a, T), Still(n, a),
             a.current_term = n.current_term, a.role \in {n.role, Follower},
             ok <=> /\ m.term = n.current_term
                    /\ check_log_consistency(n, m.prev_log_index, m.prev_log_term),
             LET c == IF ok THEN try_append_entries(a, m) ELSE a
             IN  b = send(c, from, AppendAnswer(c, ok, last_log_index(c)))
      PROVE  /\ Tracks(b, h)
             /\ b.id = n.id
             /\ b.first_log_index = n.first_log_index
             /\ b.snapshot = n.snapshot
             /\ b.current_term = n.current_term
             /\ b.role \in {n.role, Follower}
             /\ Configured(n, h) => Configured(b, h)
             /\ T = Command => /\ b.members = n.members
                               /\ b.catching_up_servers = n.catching_up_servers
             /\ Told(n, b, from, AppendAnswer(n, ok, End(b)))
             /\ ~ok => Stays(n, b)
             /\ ok => Grown(n, b, m)
    <2> DEFINE c == IF ok THEN try_append_entries(a, m) ELSE a
               answer == AppendAnswer(c, ok, last_log_index(c))
    <2>1. b = send(c, from, answer)
        BY <1>3
    <2>2. SameHistory(n, a) /\ a.outbox = n.outbox
        BY <1>3 DEF Still, Stays
    <2>3. Tracks(a, h) /\ (Configured(a, h) <=> Configured(n, h)) /\ End(a) = End(n)
        BY <2>2, SameTracks
    <2>4. NodeOK(c, T)
        <3>1. NodeOK(try_append_entries(a, m), T)
            BY <1>3, TryAppendType, Zenon
        <3> QED BY <1>3, <3>1
    <2>5. /\ Tracks(c, h)
          /\ c.id = n.id
          /\ c.first_log_index = n.first_log_index
          /\ c.snapshot = n.snapshot
          /\ c.current_term = n.current_term
          /\ c.role \in {n.role, Follower}
          /\ c.outbox = n.outbox
          /\ Configured(n, h) => Configured(c, h)
          /\ T = Command => /\ c.members = n.members
                            /\ c.catching_up_servers = n.catching_up_servers
          /\ ~ok => Stays(n, c)
          /\ ok => Grown(n, c, m)
        <3>1. CASE ~ok
            <4>1. c = a
                BY <3>1
            <4> HIDE DEF c
            <4> QED BY <1>3, <2>2, <2>3, <3>1, <4>1 DEF Still, Stays, SameHistory
        <3>2. CASE ok
            <4> DEFINE d == try_append_entries(a, m)
                       e == replace_suffix(a, m.prev_log_index, m.entries)
            <4>1. a.first_log_index = n.first_log_index /\ a.log = n.log
                  /\ a.snapshot = n.snapshot /\ a.commit_index = n.commit_index
                  /\ a.last_applied = n.last_applied /\ a.id = n.id
                  /\ a.members = n.members /\ a.catching_up_servers = n.catching_up_servers
                BY <2>2 DEF SameHistory
            <4>2. m.prev_log_index \in (n.first_log_index - 1)..End(n)
                BY <1>1, <1>3, <3>2, ConsistentPlace
            <4>3. m.prev_log_index \in (a.first_log_index - 1)..End(a)
                BY <2>3, <4>1, <4>2
            <4>4. /\ Tracks(d, h)
                  /\ d.id = a.id
                  /\ d.current_term = a.current_term
                  /\ d.first_log_index = a.first_log_index
                  /\ d.snapshot = a.snapshot
                  /\ d.outbox = a.outbox
                  /\ End(d) = End(e)
                  /\ d.commit_index # a.commit_index =>
                         /\ d.commit_index <= m.leader_commit
                         /\ d.commit_index <= End(d)
                         /\ a.commit_index < m.leader_commit
                  /\ a.commit_index = a.last_applied /\ a.commit_index <= End(e) =>
                         d.commit_index = d.last_applied /\ a.commit_index <= d.commit_index
                  /\ d.role \in {a.role, Follower}
                  /\ Configured(a, h) => Configured(d, h)
                  /\ T = Command => SameLead(a, d)
                BY <1>3, <2>3, <4>3, TryAppendTracks
            <4>5. /\ End(a) <= m.prev_log_index + Len(m.entries) => End(a) <= End(e)
                  /\ End(e) = End(a) \/ End(e) <= m.prev_log_index + Len(m.entries)
                BY <1>1, <1>3, <2>3, <4>3, ReplaceTracks
            <4>6. c = d
                BY <3>2
            <4> HIDE DEF c, d, e
            <4>7. Grown(n, d, m)
                BY <2>3, <4>1, <4>4, <4>5 DEF Grown
            <4>8. d.role \in {n.role, Follower}
                BY <1>3, <4>4
            <4> QED BY <1>3, <2>2, <2>3, <3>2, <4>1, <4>4, <4>6, <4>7, <4>8 DEF SameLead
        <3> QED BY <3>1, <3>2
    <2> HIDE DEF c
    <2>6. last_log_index(c) = End(c) /\ End(c) \in Nat
        BY <2>4, <2>5, TrackedLog
    <2>7. answer = AppendAnswer(n, ok, End(c))
        BY <2>5, <2>6 DEF AppendAnswer
    <2>8. answer \in RaftMsg(T)
        BY <1>1, <2>6, <2>7 DEF AppendAnswer, RaftMsg
    <2> HIDE DEF answer
    <2>9. Stays(c, b) /\ b.role = c.role /\ b.current_term = c.current_term
        BY <2>1, <2>4, <2>8, SentTo
    <2>10. b.outbox = [c.outbox EXCEPT ![from] = Append(@, answer)]
        BY <2>1, <2>4 DEF send, NodeOK, NodeFields
    <2> HIDE DEF b
    <2>11. SameHistory(c, b)
        BY <2>9 DEF Stays
    <2>12. Tracks(b, h) /\ (Configured(c, h) => Configured(b, h)) /\ End(b) = End(c)
        BY <2>5, <2>11, SameTracks
    <2>13. Told(n, b, from, AppendAnswer(n, ok, End(b)))
        BY <2>5, <2>7, <2>10, <2>12 DEF Told
    <2>14. Stays(n, c) => Stays(n, b)
        BY <2>9 DEF Stays, SameHistory
    <2>15. Grown(n, c, m) => Grown(n, b, m)
        BY <2>11, <2>12 DEF Grown, SameHistory
    <2> QED BY <2>5, <2>9, <2>11, <2>12, <2>13, <2>14, <2>15 DEF SameHistory
<1> DEFINE P(a, ok) ==
               /\ NodeOK(a, T)
               /\ Still(n, a)
               /\ a.current_term = n.current_term
               /\ a.role \in {n.role, Follower}
               /\ ok <=> /\ m.term = n.current_term
                         /\ check_log_consistency(n, m.prev_log_index, m.prev_log_term)
               /\ LET c == IF ok THEN try_append_entries(a, m) ELSE a
                  IN  b = send(c, from, AppendAnswer(c, ok, last_log_index(c)))
<1>4. \/ m.term > n.current_term /\ b = step_down(n, m.term)
      \/ /\ m.term <= n.current_term
         /\ \E a : \E ok \in BOOLEAN : P(a, ok)
    BY AppendEntriesParts
<1> HIDE DEF b
<1>5. CASE /\ m.term <= n.current_term
           /\ \E a : \E ok \in BOOLEAN : P(a, ok)
    <2>0. PICK a : \E ok \in BOOLEAN : P(a, ok)
        BY <1>5
    <2>1. PICK ok \in BOOLEAN : P(a, ok)
        BY <2>0
    <2>2. /\ Tracks(b, h)
          /\ b.id = n.id
          /\ b.first_log_index = n.first_log_index
          /\ b.snapshot = n.snapshot
          /\ b.current_term = n.current_term
          /\ b.role \in {n.role, Follower}
          /\ Configured(n, h) => Configured(b, h)
          /\ T = Command => /\ b.members = n.members
                            /\ b.catching_up_servers = n.catching_up_servers
          /\ Told(n, b, from, AppendAnswer(n, ok, End(b)))
          /\ ~ok => Stays(n, b)
          /\ ok => Grown(n, b, m)
        BY <1>3, <1>5, <2>1
    <2>3. b.current_term >= n.current_term /\ b.current_term \in {n.current_term, m.term}
        BY <1>1, <2>2
    <2> QED BY <1>5, <2>1, <2>2, <2>3 DEF b
<1> QED BY <1>2, <1>4, <1>5 DEF b

-----------------------------------------------------------------------------
(* Answers and requests                                                    *)

\* The log and the messages stay; more of it may be committed and applied.
LogStays(a, b) ==
    /\ b.id = a.id
    /\ b.current_term = a.current_term
    /\ b.log = a.log
    /\ b.first_log_index = a.first_log_index
    /\ b.snapshot = a.snapshot
    /\ b.outbox = a.outbox
    /\ b.role \in {a.role, Follower}

\* The index up to which a leader may commit.
Median(n) == compute_median(n.match_index, last_log_index(n),
                            n.members, n.catching_up_servers, n.id)

\* A leader commits and applies what a majority has.
LEMMA AdvanceTracks ==
    ASSUME NEW T \in EntryTypes, NEW n, NodeOK(n, T), NEW h \in Seq(LogEntry(T)),
           Tracks(n, h)
    PROVE  LET b == advance_commit_index(n)
           IN  /\ Tracks(b, h)
               /\ LogStays(n, b)
               /\ Configured(n, h) => Configured(b, h)
               /\ T = Command => SameLead(n, b)
               /\ \/ b = n
                  \/ /\ b.commit_index = Median(n)
                     /\ b.commit_index > n.commit_index
                     /\ b.commit_index \in n.first_log_index..End(n)
                     /\ b.last_applied = IF n.last_applied >= b.commit_index
                                         THEN n.last_applied ELSE b.commit_index
<1> DEFINE c == Median(n)
           a == [n EXCEPT !.commit_index = c]
           b == apply_committed_entries(a)
<1>1. c \in Nat /\ n.commit_index \in Nat
    <2>1. n.id \in Node /\ IsMap(n.match_index) /\ n.members \in NodeCollections
          /\ n.catching_up_servers \in SUBSET Node /\ n.commit_index \in Nat
        BY DEF NodeOK
    <2>2. last_log_index(n) \in Nat
        BY LastLogType
    <2> QED BY <2>1, <2>2, MedianType DEF Median
<1>2. \/ advance_commit_index(n) = n
      \/ c > n.commit_index /\ has_entry(n, c) /\ advance_commit_index(n) = b
    BY DEF advance_commit_index, Median
<1>3. CASE advance_commit_index(n) = n
    <2>1. LogStays(n, n) /\ SameLead(n, n)
        BY DEF LogStays, SameLead
    <2> QED BY <1>3, <2>1
<1>4. CASE c > n.commit_index /\ has_entry(n, c) /\ advance_commit_index(n) = b
    <2> HIDE DEF c
    <2>1. c \in n.first_log_index..End(n)
        <3>1. c \in Int
            BY <1>1
        <3> QED BY <1>4, <3>1, TrackedLog
    <2>2. NodeOK(a, T)
        BY <1>1 DEF NodeOK, NodeFields
    <2>3. /\ a.id = n.id /\ a.current_term = n.current_term /\ a.log = n.log
          /\ a.first_log_index = n.first_log_index /\ a.snapshot = n.snapshot
          /\ a.outbox = n.outbox /\ a.last_applied = n.last_applied
          /\ a.state_machine = n.state_machine /\ a.commit_index = c
          /\ SameLead(n, a)
        BY DEF NodeOK, NodeFields, SameLead
    <2> HIDE DEF a
    <2>4. Tracks(a, h) /\ End(a) = End(n)
        BY <2>3 DEF Tracks, End
    <2>5. Configured(n, h) => Configured(a, h)
        BY <2>3 DEF Configured, SameLead
    <2>6. a.commit_index <= End(a)
        BY <1>1, <2>1, <2>3, <2>4
    <2>7. /\ Tracks(b, h)
          /\ b.last_applied = IF a.last_applied >= a.commit_index
                              THEN a.last_applied ELSE a.commit_index
          /\ SameLog(a, b)
          /\ b.role \in {a.role, Follower}
          /\ Configured(a, h) => Configured(b, h)
          /\ T = Command => SameLead(a, b)
        BY <2>2, <2>4, <2>6, ApplyTracks
    <2> HIDE DEF b
    <2>8. LogStays(n, b)
        BY <2>3, <2>7 DEF LogStays, SameLog, SameLead
    <2>9. T = Command => SameLead(n, b)
        BY <2>3, <2>7 DEF SameLead
    <2>10. b.commit_index = c
        BY <2>3, <2>7 DEF SameLog
    <2> QED BY <1>4, <2>1, <2>3, <2>5, <2>7, <2>8, <2>9, <2>10 DEF c
<1> QED BY <1>2, <1>3, <1>4

\* A node with the log, the machine and the members of another one.
LEMMA LogStaysTracks ==
    ASSUME NEW a, NEW b, LogStays(a, b), b.last_applied = a.last_applied,
           b.state_machine = a.state_machine, b.members = a.members, NEW h
    PROVE  /\ Tracks(a, h) <=> Tracks(b, h)
           /\ Configured(a, h) <=> Configured(b, h)
           /\ End(b) = End(a)
BY DEF LogStays, Tracks, Configured, End

\* A leader has noted that p has its log up to index.
Noted(n, a, p, index) ==
    /\ LogStays(n, a)
    /\ a.role = n.role
    /\ a.commit_index = n.commit_index
    /\ a.last_applied = n.last_applied
    /\ a.state_machine = n.state_machine
    /\ a.members = n.members
    /\ a.match_index = insert(n.match_index, p, index)
    /\ a.next_index = insert(n.next_index, p, index + 1)
    /\ a.catching_up_servers \subseteq n.catching_up_servers

\* A leader has committed what a majority has.
Committed(a, b) ==
    /\ b.commit_index = Median(a)
    /\ b.commit_index > a.commit_index
    /\ b.commit_index \in a.first_log_index..End(a)
    /\ b.last_applied = IF a.last_applied >= b.commit_index
                        THEN a.last_applied ELSE b.commit_index

\* A leader counts an answer to AppendEntries.
LEMMA ResponseTracks ==
    ASSUME NEW T \in EntryTypes, NEW n, NodeOK(n, T), NEW h \in Seq(LogEntry(T)),
           Tracks(n, h), NEW from \in Node, NEW m \in AppendEntriesResponseMsg
    PROVE  LET b == replication_handle_append_entries_response(n, from, m)
           IN  /\ NodeOK(b, T)
               /\ Tracks(b, h)
               /\ LogStays(n, b)
               /\ Configured(n, h) => Configured(b, h)
               /\ \/ ~m.success /\ b.commit_index = n.commit_index
                  \/ m.success /\ b = n /\ m.match_index <= get(n.match_index, from, 0)
                  \/ /\ m.success /\ m.match_index > get(n.match_index, from, 0)
                     /\ \E a : /\ NodeOK(a, T)
                               /\ Noted(n, a, from, m.match_index)
                               /\ T = Command => SameLead(a, b)
                               /\ b = a \/ Committed(a, b)
<1>1. m.term \in Nat /\ m.match_index \in Nat /\ m.match_index + 1 \in Nat
      /\ m.success \in BOOLEAN
    BY DEF AppendEntriesResponseMsg
<1> DEFINE next == get(n.next_index, from, 1)
           s == [n EXCEPT !.match_index = insert(@, from, m.match_index),
                          !.next_index = insert(@, from, m.match_index + 1)]
           p == check_and_promote_caught_up_server(s, from)
           q == advance_commit_index(p)
           o == [n EXCEPT !.next_index = insert(@, from, next - 1)]
           b == replication_handle_append_entries_response(n, from, m)
<1>2. NodeOK(s, T) /\ LogStays(n, s) /\ s.commit_index = n.commit_index
      /\ s.last_applied = n.last_applied /\ s.state_machine = n.state_machine
      /\ s.members = n.members /\ s.match_index = insert(n.match_index, from, m.match_index)
      /\ s.next_index = insert(n.next_index, from, m.match_index + 1)
      /\ s.catching_up_servers = n.catching_up_servers /\ s.role = n.role
    <2>1. NodeOK(s, T)
        BY <1>1, SetIndicesType, Zenon
    <2> QED BY <2>1 DEF NodeOK, NodeFields, LogStays
<1>3. CASE m.success /\ m.match_index > get(n.match_index, from, 0)
    <2>1. b = q
        BY <1>3 DEF replication_handle_append_entries_response
    <2> HIDE DEF s
    <2>2. NodeOK(p, T) /\ LogStays(s, p) /\ p.commit_index = s.commit_index
          /\ p.last_applied = s.last_applied /\ p.state_machine = s.state_machine
          /\ p.members = s.members /\ p.match_index = s.match_index
          /\ p.next_index = s.next_index /\ p.role = s.role
          /\ p.catching_up_servers \subseteq s.catching_up_servers
        <3>1. NodeOK(p, T)
            BY <1>2, PromoteType, Zenon
        <3> QED BY <1>2, <3>1 DEF NodeOK, NodeFields, LogStays,
                                 check_and_promote_caught_up_server
    <2> HIDE DEF p
    <2>3. Noted(n, p, from, m.match_index)
        BY <1>2, <2>2 DEF Noted, LogStays
    <2>4. Tracks(p, h) /\ (Configured(n, h) <=> Configured(p, h))
        BY <2>3, LogStaysTracks DEF Noted
    <2>5. NodeOK(q, T)
        BY <2>2, AdvanceCommitType, Zenon
    <2>6. /\ Tracks(q, h)
          /\ LogStays(p, q)
          /\ Configured(p, h) => Configured(q, h)
          /\ T = Command => SameLead(p, q)
          /\ q = p \/ Committed(p, q)
        BY <2>2, <2>4, AdvanceTracks DEF Committed
    <2> HIDE DEF q
    <2>7. LogStays(n, q)
        BY <2>3, <2>6 DEF Noted, LogStays
    <2> HIDE DEF b
    <2> QED BY <1>3, <2>1, <2>2, <2>3, <2>4, <2>5, <2>6, <2>7 DEF b
<1>4. CASE ~m.success
    <2>1. next \in Nat
        BY DEF NodeOK, IsMap, get
    <2>2. b = (IF next > 1 THEN o ELSE n)
        BY <1>4 DEF replication_handle_append_entries_response
    <2> HIDE DEF next
    <2>3. next > 1 => NodeOK(o, T)
        <3>1. ASSUME next > 1 PROVE NodeOK(o, T)
            <4>1. next - 1 \in Nat /\ m.match_index \in Nat
                BY <1>1, <2>1, <3>1
            <4> QED BY <4>1, SetIndicesType, Zenon
        <3> QED BY <3>1
    <2>4. /\ LogStays(n, o) /\ o.last_applied = n.last_applied
          /\ o.state_machine = n.state_machine /\ o.members = n.members
          /\ o.commit_index = n.commit_index
        BY DEF NodeOK, NodeFields, LogStays
    <2> HIDE DEF o
    <2>5. Tracks(o, h) /\ (Configured(n, h) => Configured(o, h))
        BY <2>4, LogStaysTracks
    <2>6. LogStays(n, n)
        BY DEF LogStays
    <2> HIDE DEF b
    <2> QED BY <1>4, <2>2, <2>3, <2>4, <2>5, <2>6 DEF b
<1>5. CASE m.success /\ ~(m.match_index > get(n.match_index, from, 0))
    <2>1. b = n
        BY <1>5 DEF replication_handle_append_entries_response
    <2>2. get(n.match_index, from, 0) \in Nat
        BY DEF NodeOK, IsMap, get
    <2>3. m.match_index <= get(n.match_index, from, 0)
        BY <1>1, <1>5, <2>2
    <2>4. LogStays(n, n)
        BY DEF LogStays
    <2> HIDE DEF b
    <2> QED BY <1>5, <2>1, <2>3, <2>4 DEF b
<1> QED BY <1>1, <1>3, <1>4, <1>5

\* A history with one more entry, or the same where a log is full.
Lengthened(h, g, e) == g = h \/ g = Append(h, e)

\* What a longer history is.
LEMMA LengthenedProperties ==
    ASSUME NEW T, NEW h \in Seq(LogEntry(T)), NEW e \in LogEntry(T), NEW g,
           Lengthened(h, g, e)
    PROVE  /\ g \in Seq(LogEntry(T))
           /\ Len(g) \in {Len(h), Len(h) + 1}
           /\ Len(h) <= Len(g)
           /\ \A k \in DOMAIN h : k \in DOMAIN g /\ g[k] = h[k]
<1>1. Len(h) \in Nat /\ DOMAIN h = 1..Len(h)
    OBVIOUS
<1>2. CASE g = h
    BY <1>1, <1>2
<1>3. CASE g = Append(h, e)
    <2>1. g \in Seq(LogEntry(T)) /\ Len(g) = Len(h) + 1 /\ DOMAIN g = 1..(Len(h) + 1)
        BY <1>3
    <2>2. \A k \in 1..Len(h) : g[k] = h[k]
        BY <1>1, <1>3
    <2> QED BY <1>1, <2>1, <2>2
<1> QED BY <1>2, <1>3 DEF Lengthened

\* The leader adds an entry to its log, and so to the history.
LEMMA AppendTracks ==
    ASSUME NEW T, NEW n, NodeOK(n, T), NEW h \in Seq(LogEntry(T)), Tracks(n, h),
           End(n) = Len(h), NEW e \in LogEntry(T)
    PROVE  LET a == append_entries(n, <<e>>)
           IN  /\ NodeOK(a, T)
               /\ OnlyLog(n, a)
               /\ \E g : /\ Lengthened(h, g, e)
                         /\ Tracks(a, g)
                         /\ End(a) = Len(g)
                         /\ Configured(n, h) => Configured(a, g)
<1> DEFINE es == <<e>>
           a == append_entries(n, es)
           f == n.first_log_index
<1>1. es \in Seq(LogEntry(T)) /\ Len(es) = 1 /\ es[1] = e
    OBVIOUS
<1> HIDE DEF es
<1>2. /\ n.log \in Seq(LogEntry(T)) /\ Len(n.log) \in Nat /\ DOMAIN n.log = 1..Len(n.log)
      /\ f \in Nat \ {0} /\ Len(h) \in Nat /\ DOMAIN h = 1..Len(h)
      /\ n.last_applied \in Nat
    BY HistoryTypes
<1>3. /\ Len(n.log) <= LogCapacity /\ LogCapacity \in Nat
      /\ \A k \in DOMAIN n.log : n.log[k] = h[f + k - 1]
      /\ n.last_applied <= Len(h)
    <2>1. n.last_applied \in (f - 1)..Len(h)
        BY DEF Tracks
    <2>2. n.last_applied <= Len(h)
        BY <1>2, <2>1
    <2> QED BY <2>2, ContextAssumption DEF Tracks
<1>4. f + Len(n.log) - 1 = Len(h)
    BY DEF End
<1>5. NodeOK(a, T)
    BY <1>1, AppendEntriesType, Zenon
<1>6. OnlyLog(n, a)
    BY DEF append_entries, OnlyLog, SameLead, NodeOK, NodeFields
<1>7. /\ a.log \in Seq(LogEntry(T))
      /\ Len(a.log) = IF Len(n.log) + 1 <= LogCapacity THEN Len(n.log) + 1 ELSE LogCapacity
      /\ \A k \in DOMAIN a.log :
             IF k <= Len(n.log) THEN a.log[k] = n.log[k]
             ELSE /\ k - Len(n.log) \in DOMAIN es
                  /\ a.log[k] = es[k - Len(n.log)]
    <2>1. LET log == append_entries(n, es).log
          IN  /\ log \in Seq(LogEntry(T))
              /\ Len(log) = IF Len(n.log) + Len(es) <= LogCapacity
                            THEN Len(n.log) + Len(es) ELSE LogCapacity
              /\ \A k \in DOMAIN log :
                     IF k <= Len(n.log) THEN log[k] = n.log[k]
                     ELSE /\ k - Len(n.log) \in DOMAIN es
                          /\ log[k] = es[k - Len(n.log)]
        BY <1>1, <1>3, AppendedLog, Zenon
    <2> QED BY <1>1, <2>1, Zenon
<1> HIDE DEF a
<1>8. /\ a.first_log_index = f /\ a.snapshot = n.snapshot
      /\ a.last_applied = n.last_applied /\ a.state_machine = n.state_machine
      /\ a.id = n.id /\ a.members = n.members
    BY <1>6 DEF OnlyLog, SameLead
<1>9. \E g : /\ Lengthened(h, g, e)
             /\ Tracks(a, g)
             /\ End(a) = Len(g)
             /\ Configured(n, h) => Configured(a, g)
    <2>1. CASE ~(Len(n.log) + 1 <= LogCapacity)
        <3>1. Len(a.log) = Len(n.log)
            BY <1>2, <1>3, <1>7, <2>1
        <3>2. \A k \in 1..Len(n.log) : a.log[k] = n.log[k]
            BY <1>2, <1>7, <3>1
        <3>3. a.log = n.log
            BY <1>2, <1>7, <3>1, <3>2, SeqEqual
        <3>4. Tracks(a, h) /\ End(a) = Len(h) /\ (Configured(n, h) => Configured(a, h))
            BY <1>8, <3>3 DEF Tracks, End, Configured
        <3> QED BY <3>4 DEF Lengthened
    <2>2. CASE Len(n.log) + 1 <= LogCapacity
        <3> DEFINE g == Append(h, e)
        <3>1. g \in Seq(LogEntry(T)) /\ Len(g) = Len(h) + 1 /\ g[Len(h) + 1] = e
            BY <1>2
        <3>2. \A k \in DOMAIN h : g[k] = h[k]
            BY <1>2
        <3> HIDE DEF g
        <3>3. Len(h) <= Len(g)
            BY <1>2, <3>1
        <3>4. Tracks(n, g)
            BY <3>1, <3>2, <3>3, TracksLonger
        <3>5. Configured(n, h) => Configured(n, g)
            BY <1>3, <3>2, ConfiguredLonger
        <3>6. Len(a.log) = Len(n.log) + 1 /\ DOMAIN a.log = 1..(Len(n.log) + 1)
            BY <1>2, <1>7, <2>2
        <3>7. End(a) = Len(g)
            BY <1>2, <1>4, <1>8, <3>1, <3>6 DEF End
        <3>8. \A k \in DOMAIN a.log : a.log[k] = g[f + k - 1]
            <4> SUFFICES ASSUME NEW k \in DOMAIN a.log PROVE a.log[k] = g[f + k - 1]
                OBVIOUS
            <4>1. k \in 1..(Len(n.log) + 1)
                BY <3>6
            <4>2. CASE k <= Len(n.log)
                <5>1. k \in DOMAIN n.log
                    BY <1>2, <4>1, <4>2
                <5>2. \A l \in DOMAIN n.log : n.log[l] = g[n.first_log_index + l - 1]
                    BY <3>4 DEF Tracks
                <5>3. n.log[k] = g[f + k - 1]
                    BY <5>1, <5>2
                <5> QED BY <1>7, <4>2, <5>3
            <4>3. CASE ~(k <= Len(n.log))
                <5> HIDE DEF f
                <5>1. k = Len(n.log) + 1
                    BY <1>2, <4>1, <4>3
                <5>2. k - Len(n.log) = 1
                    BY <1>2, <5>1
                <5>3. f + k - 1 = Len(h) + 1
                    BY <1>2, <1>4, <5>1
                <5> QED BY <1>1, <1>7, <3>1, <4>3, <5>2, <5>3
            <4> QED BY <4>2, <4>3
        <3>9. Tracks(a, g)
            <4>1. Len(a.log) <= LogCapacity
                BY <2>2, <3>6
            <4>2. End(a) <= Len(g)
                BY <3>1, <3>7
            <4> QED BY <1>8, <3>4, <3>8, <4>1, <4>2 DEF Tracks
        <3>10. Configured(n, h) => Configured(a, g)
            BY <1>8, <3>5 DEF Configured
        <3> QED BY <3>7, <3>9, <3>10 DEF Lengthened, g
    <2> QED BY <2>1, <2>2
<1> QED BY <1>5, <1>6, <1>9 DEF a, es

\* The entry a leader appends for a request.
Entry(n, type) == [term |-> n.current_term, entry_type |-> type]

\* A leader has appended an entry and sent its log to all others.
Submitted(T, n, b, h, g) ==
    /\ Tracks(b, g)
    /\ End(b) = Len(g)
    /\ Configured(n, h) => Configured(b, g)
    /\ Spoken(b)
    /\ b.id = n.id
    /\ b.current_term = n.current_term
    /\ b.first_log_index = n.first_log_index
    /\ b.snapshot = n.snapshot
    /\ b.role \in {n.role, Follower}
    /\ T = Command => SameLead(n, b)
    /\ \/ b.commit_index = n.commit_index /\ b.last_applied = n.last_applied
       \/ \E a : /\ NodeOK(a, T)
                 /\ OnlyLog(n, a)
                 /\ Tracks(a, g)
                 /\ End(a) = Len(g)
                 /\ Committed(a, b)

\* A request that a leader accepts.
LEMMA SubmitTracks ==
    ASSUME NEW T \in EntryTypes, NEW n, NodeOK(n, T), Plainly(n),
           NEW h \in Seq(LogEntry(T)), Tracks(n, h), End(n) = Len(h), NEW type \in T
    PROVE  /\ NodeOK(submit_entry(n, type), T)
           /\ \E g : /\ Lengthened(h, g, Entry(n, type))
                     /\ Submitted(T, n, submit_entry(n, type), h, g)
<1> DEFINE e == Entry(n, type)
           a == append_entries(n, <<e>>)
           d == IF size(a.members) <= 1 THEN advance_commit_index(a) ELSE a
           b == send_append_entries_to_followers(d)
<1>1. e \in LogEntry(T)
    BY DEF NodeOK, LogEntry, Entry
<1>2. submit_entry(n, type) = b
    BY DEF submit_entry, Entry
<1> HIDE DEF e
<1>3. /\ NodeOK(a, T)
      /\ OnlyLog(n, a)
      /\ \E g : /\ Lengthened(h, g, e)
                /\ Tracks(a, g)
                /\ End(a) = Len(g)
                /\ Configured(n, h) => Configured(a, g)
    BY <1>1, AppendTracks
<1> HIDE DEF a
<1>4. PICK g : /\ Lengthened(h, g, e)
               /\ Tracks(a, g)
               /\ End(a) = Len(g)
               /\ Configured(n, h) => Configured(a, g)
    BY <1>3
<1>5. g \in Seq(LogEntry(T))
    BY <1>1, <1>4, LengthenedProperties
<1>6. /\ NodeOK(d, T)
      /\ Tracks(d, g)
      /\ LogStays(a, d)
      /\ Configured(a, g) => Configured(d, g)
      /\ T = Command => SameLead(a, d)
      /\ d = a \/ Committed(a, d)
    <2> DEFINE c == advance_commit_index(a)
    <2>1. /\ Tracks(c, g)
          /\ LogStays(a, c)
          /\ Configured(a, g) => Configured(c, g)
          /\ T = Command => SameLead(a, c)
          /\ c = a \/ Committed(a, c)
        BY <1>3, <1>4, <1>5, AdvanceTracks DEF Committed
    <2>2. NodeOK(c, T)
        BY <1>3, AdvanceCommitType, Zenon
    <2>3. d = c \/ d = a
        BY DEF c
    <2>4. LogStays(a, a) /\ SameLead(a, a)
        BY DEF LogStays, SameLead
    <2> HIDE DEF c, d
    <2> QED BY <1>3, <1>4, <2>1, <2>2, <2>3, <2>4
<1> HIDE DEF d
<1>7. Plainly(d)
    BY <1>3, <1>6 DEF OnlyLog, LogStays, Plainly
<1>8. NodeOK(b, T)
    BY <1>6, SendAppendEntriesType, Zenon
<1>9. Stays(d, b) /\ Spoken(b) /\ b.role = d.role /\ b.current_term = d.current_term
    BY <1>6, <1>7, SendPlain
<1> HIDE DEF b
<1>10. SameHistory(d, b)
    BY <1>9 DEF Stays
<1>11. Tracks(b, g) /\ (Configured(d, g) => Configured(b, g)) /\ End(b) = End(d)
    BY <1>6, <1>10, SameTracks
<1>12. End(d) = End(a)
    BY <1>6 DEF LogStays, End
<1>13. /\ b.id = n.id /\ b.current_term = n.current_term
       /\ b.first_log_index = n.first_log_index /\ b.snapshot = n.snapshot
    BY <1>3, <1>6, <1>9, <1>10 DEF OnlyLog, LogStays, SameHistory
<1>14. b.role \in {n.role, Follower}
    BY <1>3, <1>6, <1>9 DEF OnlyLog, SameLead, LogStays
<1>15. ASSUME T = Command PROVE SameLead(n, b)
    <2>1. SameLead(n, a) /\ SameLead(a, d)
        BY <1>3, <1>6, <1>15 DEF OnlyLog
    <2> QED BY <1>9, <2>1 DEF SameLead, Stays, SameHistory
<1>16. b.commit_index = d.commit_index /\ b.last_applied = d.last_applied
    BY <1>10 DEF SameHistory
<1>17. d = a => b.commit_index = n.commit_index /\ b.last_applied = n.last_applied
    BY <1>3, <1>16 DEF OnlyLog
<1>18. Committed(a, d) => Committed(a, b)
    BY <1>16 DEF Committed
<1>19. Submitted(T, n, b, h, g)
    BY <1>3, <1>4, <1>6, <1>9, <1>11, <1>12, <1>13, <1>14, <1>15, <1>17, <1>18 DEF Submitted
<1> QED BY <1>2, <1>4, <1>8, <1>19 DEF e

-----------------------------------------------------------------------------
(* What a leader sends                                                     *)

\* The entries from an index on, as they are in the history.
LEMMA EntriesFollow ==
    ASSUME NEW T, NEW n, NodeOK(n, T), NEW h \in Seq(LogEntry(T)), Tracks(n, h),
           NEW next \in Nat, NEW prev \in Nat, next = prev + 1 \/ next = 0
    PROVE  LET es == get_entries(n, next)
           IN  /\ es \in Seq(LogEntry(T))
               /\ Follows(h, prev, es)
               /\ next \in n.first_log_index..(End(n) + 1) => prev + Len(es) = End(n)
               /\ next \notin n.first_log_index..End(n) => es = <<>>
<1> DEFINE es == get_entries(n, next)
           f == n.first_log_index
           c == next - f + 1
           s == SubSeq(n.log, c, Len(n.log))
<1>1. /\ n.log \in Seq(LogEntry(T)) /\ Len(n.log) \in Nat /\ DOMAIN n.log = 1..Len(n.log)
      /\ f \in Nat \ {0} /\ Len(h) \in Nat /\ DOMAIN h = 1..Len(h)
    BY HistoryTypes
<1>2. End(n) = f + Len(n.log) - 1 /\ End(n) <= Len(h)
      /\ \A k \in DOMAIN n.log : n.log[k] = h[f + k - 1]
    BY DEF Tracks, End
<1>3. End(n) \in Int
    BY <1>1, <1>2
<1>4. c \in Int /\ c = next - f + 1
    BY <1>1
<1>5. es = IF next < f THEN <<>> ELSE s
    BY DEF get_entries
<1> HIDE DEF f, c
<1>6. CASE next \notin f..End(n)
    <2>1. es = <<>>
        <3>1. CASE next < f
            BY <1>5, <3>1
        <3>2. CASE ~(next < f)
            <4>1. next > End(n)
                BY <1>1, <1>3, <1>6, <3>2
            <4>2. c > Len(n.log)
                BY <1>1, <1>2, <1>4, <4>1
            <4>3. c \in Int /\ Len(n.log) \in Int
                BY <1>1, <1>4
            <4>4. s = <<>>
                BY <1>1, <4>2, <4>3, SubSeqEmpty
            <4> QED BY <1>5, <3>2, <4>4
        <3> QED BY <3>1, <3>2
    <2> HIDE DEF es
    <2>2. es \in Seq(LogEntry(T)) /\ Len(es) = 0 /\ DOMAIN es = {}
        BY <2>1
    <2>3. Follows(h, prev, es)
        BY <2>2 DEF Follows
    <2>4. next \in f..(End(n) + 1) => prev + Len(es) = End(n)
        <3>1. next \in f..(End(n) + 1) => next = End(n) + 1
            BY <1>1, <1>3, <1>6
        <3>2. next = End(n) + 1 /\ next >= f => prev = End(n)
            BY <1>1, <1>2, <1>3
        <3> QED BY <1>1, <1>3, <2>2, <3>1, <3>2
    <2> QED BY <2>1, <2>2, <2>3, <2>4 DEF es, f
<1>7. CASE next \in f..End(n)
    <2>1. next >= f /\ next <= End(n) /\ next = prev + 1
        BY <1>1, <1>3, <1>7
    <2>2. c \in 1..Len(n.log)
        BY <1>1, <1>2, <1>4, <2>1
    <2>3. es = s
        <3>1. ~(next < f)
            BY <1>1, <2>1
        <3> HIDE DEF s, es
        <3> QED BY <1>5, <3>1
    <2>4. /\ s \in Seq(LogEntry(T))
          /\ Len(s) = Len(n.log) - c + 1
          /\ \A k \in 1..Len(s) : s[k] = n.log[c + k - 1]
        BY <1>1, <2>2, SuffixProperties, Zenon
    <2> HIDE DEF s, es
    <2>5. prev + Len(es) = End(n)
        <3>1. Len(es) = Len(n.log) - c + 1
            BY <2>3, <2>4
        <3>2. Len(es) = Len(n.log) + f - next
            BY <1>1, <1>4, <3>1
        <3> HIDE DEF End
        <3> QED BY <1>1, <1>2, <1>3, <2>1, <3>2
    <2>6. Follows(h, prev, es)
        <3> SUFFICES ASSUME NEW k \in DOMAIN es
                     PROVE  prev + k \in DOMAIN h /\ es[k] = h[prev + k]
            BY DEF Follows
        <3>1. k \in 1..Len(s)
            BY <2>3, <2>4
        <3>2. c + k - 1 \in 1..Len(n.log)
            BY <1>1, <1>4, <2>2, <2>4, <3>1
        <3>3. f + (c + k - 1) - 1 = prev + k
            BY <1>1, <1>4, <2>1, <3>1
        <3>4. n.log[c + k - 1] = h[f + (c + k - 1) - 1]
            BY <1>1, <1>2, <3>2
        <3>5. prev + k <= prev + Len(es)
            BY <2>3, <2>4, <3>1
        <3>6. prev + k \in 1..Len(h)
            <4>1. prev + k <= End(n) /\ End(n) <= Len(h)
                BY <1>2, <2>5, <3>5
            <4>2. k \in Nat /\ k >= 1 /\ prev \in Nat
                BY <2>4, <3>1
            <4>3. End(n) \in Int /\ Len(h) \in Int
                BY <1>1, <1>3
            <4> QED BY <4>1, <4>2, <4>3
        <3> QED BY <1>1, <2>3, <2>4, <3>1, <3>3, <3>4, <3>6
    <2> QED BY <1>7, <2>3, <2>4, <2>5, <2>6 DEF es, f
<1> QED BY <1>6, <1>7 DEF f

\* What a node sends a peer: its snapshot, or a part of the history.
LEMMA PeerMail ==
    ASSUME NEW T, NEW n, NodeOK(n, T), NEW h \in Seq(LogEntry(T)), Tracks(n, h),
           NEW p \in Node
    PROVE  LET m == get_append_entries_for_peer(n, p)
               next == get(n.next_index, p, 1)
           IN  /\ m.term = n.current_term
               /\ \/ /\ m.type = "InstallSnapshot"
                     /\ next < n.first_log_index
                     /\ n.snapshot # None
                     /\ m.last_included_index = n.snapshot.last_included_index
                     /\ m.last_included_term = n.snapshot.last_included_term
                     /\ m.data = n.snapshot.data
                  \/ /\ m.type = "AppendEntries"
                     /\ next < n.first_log_index => ~has_snapshot_chunk(n)
                     /\ m.prev_log_index = IF next = 0 THEN 0 ELSE next - 1
                     /\ m.leader_commit = n.commit_index
                     /\ m.entries \in Seq(LogEntry(T))
                     /\ Follows(h, m.prev_log_index, m.entries)
                     /\ next \in n.first_log_index..(End(n) + 1) =>
                            m.prev_log_index + Len(m.entries) = End(n)
                     /\ m.prev_log_index = 0 => m.prev_log_term = 0
                     /\ m.prev_log_index \in n.first_log_index..End(n) =>
                            m.prev_log_term = h[m.prev_log_index].term
                     /\ /\ n.snapshot # None
                        /\ m.prev_log_index = n.snapshot.last_included_index
                        /\ m.prev_log_index # 0
                        => m.prev_log_term = n.snapshot.last_included_term
<1> DEFINE next == get(n.next_index, p, 1)
           prev == IF next = 0 THEN 0 ELSE next - 1
           prevTerm == IF prev = 0 THEN 0
                       ELSE IF has_entry(n, prev) THEN get_entry(n, prev).term
                       ELSE IF n.snapshot # None /\ prev = n.snapshot.last_included_index
                       THEN n.snapshot.last_included_term
                       ELSE 0
           es == get_entries(n, next)
           m == get_append_entries_for_peer(n, p)
<1>1. next \in Nat
    BY DEF NodeOK, IsMap, get
<1>2. CASE next < n.first_log_index /\ has_snapshot_chunk(n)
    <2>1. m = [type |-> "InstallSnapshot", term |-> n.current_term,
               last_included_index |-> n.snapshot.last_included_index,
               last_included_term |-> n.snapshot.last_included_term,
               data |-> n.snapshot.data]
        BY <1>2 DEF get_append_entries_for_peer
    <2>2. n.snapshot # None
        BY <1>2 DEF has_snapshot_chunk
    <2> HIDE DEF m, next
    <2> QED BY <1>2, <2>1, <2>2 DEF m, next
<1>3. CASE ~(next < n.first_log_index /\ has_snapshot_chunk(n))
    <2>1. m = [type |-> "AppendEntries", term |-> n.current_term,
               prev_log_index |-> prev, prev_log_term |-> prevTerm,
               entries |-> es, leader_commit |-> n.commit_index]
        BY <1>3 DEF get_append_entries_for_peer, get_append_entries_for_follower
    <2> HIDE DEF next
    <2>2. prev \in Nat /\ (next = prev + 1 \/ next = 0)
        BY <1>1
    <2>3. prev = IF next = 0 THEN 0 ELSE next - 1
        OBVIOUS
    <2> HIDE DEF prev
    <2>4. /\ es \in Seq(LogEntry(T))
          /\ Follows(h, prev, es)
          /\ next \in n.first_log_index..(End(n) + 1) => prev + Len(es) = End(n)
        BY <1>1, <2>2, EntriesFollow
    <2>5. prev = 0 => prevTerm = 0
        OBVIOUS
    <2>6. /\ n.first_log_index \in Nat \ {0} /\ End(n) \in Nat
          /\ \A k \in Int : has_entry(n, k) <=> k \in n.first_log_index..End(n)
          /\ \A k \in n.first_log_index..End(n) : get_entry(n, k) = h[k]
        BY TrackedLog, HistoryTypes
    <2>7. prev \in n.first_log_index..End(n) => prevTerm = h[prev].term
        <3>1. prev \in Int /\ (prev \in n.first_log_index..End(n) => prev # 0)
            BY <2>2, <2>6
        <3> QED BY <2>6, <3>1
    <2>8. n.snapshot # None /\ prev = n.snapshot.last_included_index /\ prev # 0
              => prevTerm = n.snapshot.last_included_term
        <3>1. ASSUME n.snapshot # None, prev = n.snapshot.last_included_index
              PROVE  ~has_entry(n, prev)
            <4>1. n.first_log_index = n.snapshot.last_included_index + 1
                BY <3>1 DEF Tracks
            <4>2. prev < n.first_log_index
                BY <2>2, <3>1, <4>1
            <4> QED BY <2>2, <2>6, <4>2
        <3> QED BY <3>1
    <2> HIDE DEF m, prevTerm, es
    <2>9. /\ m.type = "AppendEntries" /\ m.term = n.current_term /\ m.prev_log_index = prev
          /\ m.prev_log_term = prevTerm /\ m.entries = es /\ m.leader_commit = n.commit_index
        BY <2>1
    <2> QED BY <1>3, <2>3, <2>4, <2>5, <2>7, <2>8, <2>9 DEF m, next
<1> QED BY <1>2, <1>3

-----------------------------------------------------------------------------
(* Nodes that compact nothing                                              *)

\* A node that follows the history h.
Following(n, h) == n.snapshot = None /\ Tracks(n, h) /\ Configured(n, h)

\* The outbox holds no part of a log.
NoPart(n) ==
    \A p \in Node : \A k \in DOMAIN n.outbox[p] :
        n.outbox[p][k].type \notin {"AppendEntries", "InstallSnapshot"}

\* The outbox holds parts of h, for others.
LogMail(n, h) ==
    \A p \in Node : \A k \in DOMAIN n.outbox[p] :
        /\ n.outbox[p][k].type # "InstallSnapshot"
        /\ n.outbox[p][k].type = "AppendEntries" => p # n.id /\ PartOf(n.outbox[p][k], h)

\* An event that leaves the log as it is; parts of it are sent by a leader.
Followup(a, b, h) ==
    /\ Following(b, h)
    /\ b.log = a.log
    /\ NoPart(b) \/ (LogMail(b, h) /\ Leader \in {a.role, b.role})

\* A node that follows has everything from the first index on.
LEMMA FollowingFirst ==
    ASSUME NEW T, NEW n, NodeOK(n, T), NEW h \in Seq(LogEntry(T)), Following(n, h)
    PROVE  n.first_log_index = 1 /\ End(n) = Len(n.log) /\ last_log_index(n) = Len(n.log)
<1>1. n.first_log_index = 1 /\ Len(n.log) \in Nat
    BY HistoryTypes DEF Following, Tracks
<1>2. End(n) = Len(n.log)
    BY <1>1 DEF End
<1> QED BY <1>1, <1>2, TrackedLog DEF Following

\* Pre-votes and votes are no part of a log.
LEMMA PlainlyNoPart ==
    ASSUME NEW n, Plainly(n)
    PROVE  NoPart(n)
BY DEF Plainly, Plain, NoPart

\* What a follower of h sends as a leader is a part of h.
LEMMA SpokenMail ==
    ASSUME NEW T, NEW n, NodeOK(n, T), NEW h \in Seq(LogEntry(T)), Following(n, h), Spoken(n)
    PROVE  LogMail(n, h)
<1> SUFFICES ASSUME NEW p \in Node, NEW k \in DOMAIN n.outbox[p]
             PROVE  /\ n.outbox[p][k].type # "InstallSnapshot"
                    /\ n.outbox[p][k].type = "AppendEntries" =>
                           p # n.id /\ PartOf(n.outbox[p][k], h)
    BY DEF LogMail
<1> DEFINE m == n.outbox[p][k]
<1>1. CASE Plain(m)
    BY <1>1 DEF Plain
<1>2. CASE p # n.id /\ m = get_append_entries_for_peer(n, p)
    <2> DEFINE l == get_append_entries_for_peer(n, p)
    <2>1. l.type = "AppendEntries" /\ Follows(h, l.prev_log_index, l.entries)
        BY PeerMail DEF Following
    <2> HIDE DEF l
    <2> QED BY <1>2, <2>1 DEF Follows, PartOf, l
<1> QED BY <1>1, <1>2 DEF Spoken

\* The same history, and an outbox without parts of it.
LEMMA SameFollowing ==
    ASSUME NEW a, NEW b, SameHistory(a, b), NEW h, Following(a, h)
    PROVE  Following(b, h) /\ b.log = a.log
BY SameTracks DEF Following, SameHistory

\* Events of elections.
LEMMA VotingFollows ==
    ASSUME NEW T, NEW a, NodeOK(a, T), NEW b, NodeOK(b, T), NEW h \in Seq(LogEntry(T)),
           Following(a, h), Voting(a, b)
    PROVE  Followup(a, b, h)
<1>1. Following(b, h) /\ b.log = a.log
    BY SameFollowing DEF Voting
<1>2. CASE Remained(a, b)
    BY <1>1, <1>2, PlainlyNoPart DEF Remained, Followup
<1>3. CASE Installed(a, b)
    BY <1>1, <1>3, SpokenMail DEF Installed, Followup
<1> QED BY <1>2, <1>3 DEF Voting

\* An answer to AppendEntries: the leader commits, but not to where a snapshot
\* is due.
LEMMA AppendEntriesResponseFollows ==
    ASSUME NEW T \in EntryTypes, NEW n, NodeOK(n, T), NEW h \in Seq(LogEntry(T)),
           Following(n, h), NoPart(n), Len(h) < SnapshotThreshold,
           NEW from \in Node, NEW m \in AppendEntriesResponseMsg
    PROVE  Followup(n, handle_append_entries_response(n, from, m), h)
<1> DEFINE a == replication_handle_append_entries_response(n, from, m)
           s == step_down(n, m.term)
           g == grant(a)
<1>1. /\ NodeOK(a, T)
      /\ Tracks(a, h)
      /\ LogStays(n, a)
      /\ Configured(n, h) => Configured(a, h)
      /\ a.commit_index = n.commit_index \/ a.commit_index \in n.first_log_index..End(n)
    <2> DEFINE P(c) == /\ NodeOK(c, T)
                       /\ Noted(n, c, from, m.match_index)
                       /\ T = Command => SameLead(c, a)
                       /\ a = c \/ Committed(c, a)
    <2>1. /\ NodeOK(a, T)
          /\ Tracks(a, h)
          /\ LogStays(n, a)
          /\ Configured(n, h) => Configured(a, h)
          /\ \/ ~m.success /\ a.commit_index = n.commit_index
             \/ m.success /\ a = n /\ m.match_index <= get(n.match_index, from, 0)
             \/ m.success /\ \E c : P(c)
        BY ResponseTracks DEF Following
    <2>2. ASSUME NEW c, P(c)
          PROVE  a.commit_index = n.commit_index \/ a.commit_index \in n.first_log_index..End(n)
        <3>1. c.commit_index = n.commit_index /\ c.first_log_index = n.first_log_index
              /\ End(c) = End(n)
            BY <2>2 DEF Noted, LogStays, End
        <3> HIDE DEF a
        <3> QED BY <2>2, <3>1 DEF Committed
    <2> HIDE DEF a, P
    <2> QED BY <2>1, <2>2
<1>2. SnapshotThreshold \in Nat /\ End(n) \in Nat /\ End(n) <= Len(h) /\ Len(h) \in Nat
      /\ n.first_log_index \in Nat
    BY ContextAssumption, TrackedLog, HistoryTypes DEF Following, Tracks
<1>3. handle_append_entries_response(n, from, m) \in {s, n, a, g}
    <2> HIDE DEF a, g, s
    <2>1. a.commit_index \in Nat /\ n.commit_index \in Nat
        BY <1>1 DEF NodeOK
    <2>2. ~(a.commit_index <= n.commit_index) => ~should_create(a)
        <3>1. ~(a.commit_index <= n.commit_index) => a.commit_index < SnapshotThreshold
            BY <1>1, <1>2, <2>1
        <3> QED BY <1>2, <2>1, <3>1 DEF should_create
    <2> QED BY <2>2 DEF handle_append_entries_response, a, g, s
<1>4. Still(n, n) /\ Still(n, s)
    BY UpdatesStill, Zenon
<1>5. Still(a, g)
    BY <1>1, UpdatesStill, Zenon
<1> HIDE DEF s, a, g
<1>6. Following(n, h) /\ n.log = n.log /\ NoPart(n)
    OBVIOUS
<1>7. Following(s, h) /\ s.log = n.log /\ NoPart(s)
    BY <1>4, SameFollowing DEF Still, Stays, NoPart
<1>8. Following(a, h) /\ a.log = n.log /\ NoPart(a)
    BY <1>1 DEF Following, LogStays, NoPart
<1>9. Following(g, h) /\ g.log = n.log /\ NoPart(g)
    BY <1>5, <1>8, SameFollowing DEF Still, Stays, NoPart
<1> QED BY <1>3, <1>6, <1>7, <1>8, <1>9 DEF Followup

\* Without a snapshot an answer to InstallSnapshot is about nothing.
LEMMA InstallSnapshotResponseFollows ==
    ASSUME NEW T, NEW n, NodeOK(n, T), NEW h, Following(n, h), NoPart(n), NEW from \in Node, NEW m
    PROVE  Followup(n, handle_install_snapshot_response(n, from, m), h)
<1>1. handle_install_snapshot_response(n, from, m) \in {step_down(n, m.term), n}
    BY DEF handle_install_snapshot_response, Following
<1>2. Still(n, step_down(n, m.term))
    BY UpdatesStill, Zenon
<1>3. Following(step_down(n, m.term), h) /\ step_down(n, m.term).log = n.log
      /\ NoPart(step_down(n, m.term))
    BY <1>2, SameFollowing DEF Still, Stays, NoPart
<1> QED BY <1>1, <1>3 DEF Followup

\* AppendEntries with a part of the history.
LEMMA AppendEntriesFollows ==
    ASSUME NEW T \in EntryTypes, NEW n, NodeOK(n, T), NEW h \in Seq(LogEntry(T)),
           Following(n, h), NoPart(n), NEW from \in Node, NEW m \in AppendEntriesMsg(T),
           PartOf(m, h)
    PROVE  LET b == handle_append_entries(n, from, m)
           IN  Following(b, h) /\ NoPart(b)
<1> DEFINE b == handle_append_entries(n, from, m)
<1>1. m.prev_log_index \in Nat /\ n.first_log_index = 1
      /\ Follows(h, m.prev_log_index, m.entries)
    BY FollowingFirst DEF AppendEntriesMsg, PartOf, Follows
<1>2. m.prev_log_index >= n.first_log_index - 1
    BY <1>1
<1>3. /\ Tracks(b, h)
      /\ b.snapshot = n.snapshot
      /\ Configured(n, h) => Configured(b, h)
      /\ \/ Still(n, b)
         \/ \E ok : Told(n, b, from, AppendAnswer(n, ok, End(b)))
    BY <1>1, <1>2, AppendEntriesTracks DEF Following
<1> HIDE DEF b
<1>4. Following(b, h)
    BY <1>3 DEF Following
<1>5. NoPart(b)
    <2>1. CASE Still(n, b)
        BY <2>1 DEF Still, NoPart
    <2>2. ASSUME NEW ok, Told(n, b, from, AppendAnswer(n, ok, End(b))) PROVE NoPart(b)
        <3> DEFINE l == AppendAnswer(n, ok, End(b))
                   old == n.outbox[from]
        <3>1. l.type = "AppendEntriesResponse"
            BY DEF AppendAnswer
        <3> HIDE DEF l
        <3>2. n.outbox \in [Node -> Seq(RaftMsg(T))] /\ old \in Seq(RaftMsg(T))
            BY DEF NodeOK
        <3>3. \A p \in Node : b.outbox[p] = IF p = from THEN Append(old, l) ELSE n.outbox[p]
            BY <2>2, <3>2 DEF Told, l
        <3> HIDE DEF old
        <3>4. ASSUME NEW p \in Node, NEW k \in DOMAIN b.outbox[p]
              PROVE  b.outbox[p][k].type \notin {"AppendEntries", "InstallSnapshot"}
            <4>1. CASE p # from
                BY <3>3, <3>4, <4>1 DEF NoPart
            <4>2. CASE p = from
                <5>1. b.outbox[p] = Append(old, l)
                    BY <3>3, <4>2
                <5>2. k \in 1..(Len(old) + 1) /\ DOMAIN old = 1..Len(old)
                    BY <3>2, <3>4, <5>1
                <5>3. k # Len(old) + 1 => k \in DOMAIN old /\ Append(old, l)[k] = old[k]
                    BY <3>2, <5>2
                <5>4. k = Len(old) + 1 => Append(old, l)[k] = l
                    BY <3>2
                <5>5. CASE k = Len(old) + 1
                    BY <3>1, <5>1, <5>4, <5>5
                <5>6. CASE k # Len(old) + 1
                    BY <4>2, <5>1, <5>3, <5>6 DEF NoPart, old
                <5> QED BY <5>5, <5>6
            <4> QED BY <4>1, <4>2
        <3> QED BY <3>4 DEF NoPart
    <2> QED BY <1>3, <2>1, <2>2
<1> QED BY <1>4, <1>5 DEF b

\* Every message that a follower of the history may receive.
LEMMA HandleFollows ==
    ASSUME NEW T \in EntryTypes, NEW n, NodeOK(n, T), NEW h \in Seq(LogEntry(T)),
           Following(n, h), n.outbox = no_messages, Len(h) < SnapshotThreshold,
           NEW from \in Node, NEW m \in RaftMsg(T), m.type # "InstallSnapshot",
           m.type = "AppendEntries" => PartOf(m, h)
    PROVE  LET b == handle_message(n, from, m)
           IN  \/ Followup(n, b, h)
               \/ m.type = "AppendEntries" /\ Following(b, h) /\ NoPart(b)
<1> DEFINE b == handle_message(n, from, m)
<1>1. m.term \in Nat
    BY DEF RaftMsg
<1>2. Plainly(n) /\ NoPart(n)
    BY DEF Plainly, NoPart, no_messages
<1>3. NodeOK(b, T)
    BY HandleMessageType, Zenon
<1>4. CASE m.type = "PreVoteRequest"
    <2>1. b = handle_pre_vote_request(n, from, m)
        BY <1>4 DEF handle_message
    <2>2. Voting(n, handle_pre_vote_request(n, from, m))
        BY <1>1, <1>2, VoteRequestVoting
    <2> HIDE DEF b
    <2> QED BY <1>3, <2>1, <2>2, VotingFollows DEF b
<1>5. CASE m.type = "RequestVote"
    <2>1. b = handle_vote_request(n, from, m)
        BY <1>5 DEF handle_message
    <2>2. Voting(n, handle_vote_request(n, from, m))
        BY <1>1, <1>2, VoteRequestVoting
    <2> HIDE DEF b
    <2> QED BY <1>3, <2>1, <2>2, VotingFollows DEF b
<1>6. CASE m.type = "PreVoteResponse"
    <2>1. b = handle_pre_vote_response(n, from, m)
        BY <1>6 DEF handle_message
    <2>2. Voting(n, handle_pre_vote_response(n, from, m))
        BY <1>1, <1>2, VoteResponseVoting
    <2> HIDE DEF b
    <2> QED BY <1>3, <2>1, <2>2, VotingFollows DEF b
<1>7. CASE m.type = "RequestVoteResponse"
    <2>1. b = handle_vote_response(n, from, m)
        BY <1>7 DEF handle_message
    <2>2. Voting(n, handle_vote_response(n, from, m))
        BY <1>1, <1>2, VoteResponseVoting
    <2> HIDE DEF b
    <2> QED BY <1>3, <2>1, <2>2, VotingFollows DEF b
<1>8. CASE m.type = "AppendEntries"
    <2>1. b = handle_append_entries(n, from, m)
        BY <1>8 DEF handle_message
    <2>2. m \in AppendEntriesMsg(T)
        BY <1>8 DEF RaftMsg, AppendEntriesMsg
    <2>3. /\ Following(handle_append_entries(n, from, m), h)
          /\ NoPart(handle_append_entries(n, from, m))
        BY <1>2, <1>8, <2>2, AppendEntriesFollows
    <2> HIDE DEF b
    <2> QED BY <1>8, <2>1, <2>3 DEF b
<1>9. CASE m.type = "AppendEntriesResponse"
    <2>1. b = handle_append_entries_response(n, from, m)
        BY <1>9 DEF handle_message
    <2>2. m \in AppendEntriesResponseMsg
        BY <1>9 DEF RaftMsg, AppendEntriesResponseMsg
    <2>3. Followup(n, handle_append_entries_response(n, from, m), h)
        BY <1>2, <2>2, AppendEntriesResponseFollows
    <2> HIDE DEF b
    <2> QED BY <2>1, <2>3 DEF b
<1>10. CASE m.type = "InstallSnapshotResponse"
    <2>1. b = handle_install_snapshot_response(n, from, m)
        BY <1>10 DEF handle_message
    <2>2. Followup(n, handle_install_snapshot_response(n, from, m), h)
        BY <1>2, InstallSnapshotResponseFollows
    <2> HIDE DEF b
    <2> QED BY <2>1, <2>2 DEF b
<1>11. m.type \in {"PreVoteRequest", "RequestVote", "PreVoteResponse",
                   "RequestVoteResponse", "AppendEntries", "AppendEntriesResponse",
                   "InstallSnapshotResponse"}
    BY DEF RaftMsg
<1> QED BY <1>4, <1>5, <1>6, <1>7, <1>8, <1>9, <1>10, <1>11

\* The timers.
LEMMA TimersFollow ==
    ASSUME NEW T, NEW n, NodeOK(n, T), NEW h \in Seq(LogEntry(T)), Following(n, h),
           n.outbox = no_messages
    PROVE  /\ Followup(n, handle_election_timer(n), h)
           /\ n.role = Leader => Followup(n, handle_heartbeat_timer(n), h)
<1>1. Plainly(n)
    BY DEF Plainly, no_messages
<1>2. Followup(n, handle_election_timer(n), h)
    <2>1. NodeOK(handle_election_timer(n), T)
        BY ElectionTimerType, Zenon
    <2> QED BY <1>1, <2>1, ElectionTimerVoting, VotingFollows
<1>3. ASSUME n.role = Leader PROVE Followup(n, handle_heartbeat_timer(n), h)
    <2> DEFINE b == handle_heartbeat_timer(n)
    <2>1. NodeOK(b, T)
        BY HeartbeatType, Zenon
    <2>2. Stays(n, b) /\ Spoken(b)
        BY <1>1, <1>3, HeartbeatSpoken
    <2> HIDE DEF b
    <2>3. Following(b, h) /\ b.log = n.log
        BY <2>2, SameFollowing DEF Stays
    <2>4. LogMail(b, h)
        BY <2>1, <2>2, <2>3, SpokenMail
    <2> QED BY <1>3, <2>3, <2>4 DEF Followup, b
<1> QED BY <1>2, <1>3

\* A leader whose log is the history has one entry more, and sends it.
Lengthens(a, b) ==
    /\ b.log \in Seq(LogEntry(EntryType))
    /\ Len(b.log) \in {Len(a.log), Len(a.log) + 1}
    /\ \A k \in DOMAIN a.log : b.log[k] = a.log[k]
    /\ Following(b, b.log)
    /\ LogMail(b, b.log)

\* A request to the leader.
LEMMA SubmitFollows ==
    ASSUME NEW n, NodeOK(n, EntryType), Following(n, n.log), n.outbox = no_messages,
           NEW type \in EntryType
    PROVE  LET b == submit_entry(n, type)
           IN  /\ Lengthens(n, b)
               /\ Lengthens(n, [b EXCEPT !.pending_change = last_log_index(b)])
<1> DEFINE b == submit_entry(n, type)
           c == [b EXCEPT !.pending_change = last_log_index(b)]
           h == n.log
           e == Entry(n, type)
<1>1. h \in Seq(LogEntry(EntryType)) /\ e \in LogEntry(EntryType)
    <2>1. h \in Seq(LogEntry(EntryType)) /\ n.current_term \in Nat
        BY DEF NodeOK
    <2>2. e \in LogEntry(EntryType)
        BY <2>1 DEF Entry, LogEntry
    <2> QED BY <2>1, <2>2
<1>2. EntryType \in EntryTypes
    BY DEF EntryTypes, EntryType
<1>3. n.first_log_index = 1 /\ End(n) = Len(h)
    BY <1>1, FollowingFirst
<1>4. Plainly(n)
    BY DEF Plainly, no_messages
<1>5. NodeOK(b, EntryType) /\ \E g : Lengthened(h, g, e) /\ Submitted(EntryType, n, b, h, g)
    BY <1>1, <1>2, <1>3, <1>4, SubmitTracks DEF Following
<1> HIDE DEF b, h, e
<1>6. PICK g : Lengthened(h, g, e) /\ Submitted(EntryType, n, b, h, g)
    BY <1>5
<1>7. /\ g \in Seq(LogEntry(EntryType))
      /\ Len(g) \in {Len(h), Len(h) + 1}
      /\ \A k \in DOMAIN h : g[k] = h[k]
    BY <1>1, <1>6, LengthenedProperties
<1>8. Following(b, g) /\ Spoken(b) /\ End(b) = Len(g)
    BY <1>6 DEF Submitted, Following, h
<1>9. b.log = g
    <2>1. b.log \in Seq(LogEntry(EntryType))
        BY <1>5 DEF NodeOK
    <2>2. b.first_log_index = 1 /\ Len(b.log) = Len(g)
        BY <1>5, <1>7, <1>8, FollowingFirst
    <2>3. \A k \in DOMAIN b.log : b.log[k] = g[b.first_log_index + k - 1]
        BY <1>8 DEF Following, Tracks
    <2>4. \A k \in 1..Len(g) : 1 + k - 1 = k
        OBVIOUS
    <2>5. \A k \in 1..Len(g) : b.log[k] = g[k]
        BY <2>1, <2>2, <2>3, <2>4
    <2> QED BY <1>7, <2>1, <2>2, <2>5, SeqEqual
<1>10. LogMail(b, g)
    BY <1>5, <1>7, <1>8, SpokenMail
<1>11. Lengthens(n, b)
    BY <1>7, <1>8, <1>9, <1>10 DEF Lengthens, h
<1>12. Still(b, c)
    BY <1>5, UpdatesStill, Zenon
<1> HIDE DEF c
<1>13. Following(c, g) /\ c.log = b.log
    BY <1>8, <1>12, SameFollowing DEF Still, Stays
<1>14. LogMail(c, g)
    BY <1>10, <1>12 DEF LogMail, Still, Stays, SameHistory
<1>15. Lengthens(n, c)
    BY <1>7, <1>9, <1>13, <1>14 DEF Lengthens, h
<1> QED BY <1>11, <1>15 DEF b, c

\* A node that starts has applied nothing of the history.
LEMMA StartFollows ==
    ASSUME NEW T, NEW n, NodeOK(n, T), NEW h \in Seq(LogEntry(T)), Following(n, h), NEW i
    PROVE  LET b == start_node(i, storage(n))
           IN  Following(b, h) /\ b.log = n.log
<1> DEFINE b == start_node(i, storage(n))
<1>1. /\ b.id = i
      /\ b.log = n.log
      /\ b.first_log_index = n.first_log_index
      /\ b.snapshot = n.snapshot
      /\ n.snapshot = None => b.last_applied = 0 /\ b.state_machine = <<>>
      /\ b.members = [p \in Node |-> IF p \in InitialMembers \cup {i} THEN 1 ELSE 0]
    BY DEF start_node, new_from_builder, storage
<1>2. b.snapshot = None /\ b.last_applied = 0 /\ b.state_machine = <<>>
    BY <1>1 DEF Following
<1> HIDE DEF b
<1>3. \A l \in 1..0 : FALSE
    OBVIOUS
<1>4. Applied(h, 0) = <<>>
    <2>1. 1..0 = {}
        BY <1>3
    <2> QED BY <2>1 DEF Applied
<1>5. Tracks(b, h)
    <2>1. n.first_log_index = 1 /\ Len(h) \in Nat
        BY FollowingFirst
    <2>2. 0 \in (b.first_log_index - 1)..Len(h)
        BY <1>1, <2>1
    <2> QED BY <1>1, <1>2, <1>4, <2>2 DEF Tracks, Following, End
<1>6. Configured(b, h)
    <2> SUFFICES ASSUME NEW p \in Node \ {i} PROVE b.members[p] = MembersAt(h, 0, p)
        BY <1>1, <1>2 DEF Configured
    <2>1. b.members[p] = IF p \in InitialMembers THEN 1 ELSE 0
        BY <1>1
    <2>2. \A x : {l \in 1..0 : h[l].entry_type = x} = {}
        BY <1>3
    <2>3. Cardinality({}) = 0
        BY FS_EmptySet
    <2>4. MembersAt(h, 0, p) = (IF p \in InitialMembers THEN 1 ELSE 0) + 0
        BY <2>2, <2>3 DEF MembersAt
    <2> QED BY <2>1, <2>4
<1>7. Following(b, h)
    BY <1>2, <1>5, <1>6 DEF Following
<1> QED BY <1>1, <1>7 DEF b

\* A node that has nothing yet has the beginning of any log, also of none.
LEMMA FreshTracks ==
    ASSUME NEW i
    PROVE  Tracks(start_node(i, new_storage), <<>>) /\ End(start_node(i, new_storage)) = 0
<1> DEFINE n == start_node(i, new_storage)
<1>1. /\ n.log = <<>>
      /\ n.first_log_index = 1
      /\ n.snapshot = None
      /\ n.last_applied = 0
      /\ n.state_machine = <<>>
    BY DEF start_node, new_from_builder, new_storage
<1> HIDE DEF n
<1>2. \A l \in 1..0 : FALSE
    OBVIOUS
<1>3. Applied(<<>>, 0) = <<>>
    <2>1. 1..0 = {}
        BY <1>2
    <2> QED BY <2>1 DEF Applied
<1>4. LogCapacity \in Nat /\ Len(<<>>) = 0
    BY ContextAssumption
<1>5. End(n) = 0
    BY <1>1, <1>4 DEF End
<1>6. n.last_applied \in (n.first_log_index - 1)..Len(<<>>)
    BY <1>1, <1>4
<1>7. Len(n.log) <= LogCapacity /\ End(n) <= Len(<<>>)
    BY <1>1, <1>4, <1>5
<1>8. \A k \in DOMAIN n.log : FALSE
    BY <1>1
<1>9. Tracks(n, <<>>)
    BY <1>1, <1>3, <1>6, <1>7, <1>8 DEF Tracks
<1> QED BY <1>5, <1>9 DEF n
=============================================================================

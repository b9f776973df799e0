--------------------------- MODULE RaftNodeProofs ---------------------------
(***************************************************************************)
(* What the collections compute (lengths, quorums and the median), that    *)
(* every handler of the core preserves the types of the node it works on,  *)
(* and what it does to the part of a node that elections depend on.  The   *)
(* lemmas on types hold for any set T of entry types that has the commands *)
(* and nothing but entry types, so that they serve a cluster with a fixed  *)
(* configuration (T = Command) as well as one that changes it.             *)
(***************************************************************************)
EXTENDS RaftNode, TLAPS, FiniteSetTheorems, SequenceTheorems, WellFoundedInduction

-----------------------------------------------------------------------------
(* Finite sets of natural numbers                                          *)

\* A nonempty set of natural numbers has a least element.
LEMMA LeastExists ==
    ASSUME NEW S, S \subseteq Nat, S # {}
    PROVE  \E x \in S : \A y \in S : x <= y
<1> DEFINE less == OpToRel(<, Nat)
<1>1. \A x, y \in Nat : y < x => <<y, x>> \in less
    BY Zenon DEF OpToRel
<1>2. IsWellFoundedOn(less, Nat)
    BY NatLessThanWellFounded, Zenon
<1> HIDE DEF less
<1>3. \E x \in S : \A y \in S : ~(<<y, x>> \in less)
    BY <1>2, WFMin, Zenon
<1>4. PICK x \in S : \A y \in S : ~(<<y, x>> \in less)
    BY <1>3
<1>5. \A y \in S : ~(y < x)
    BY <1>1, <1>4
<1>6. \A y \in S : x <= y
    BY <1>5
<1> QED BY <1>6

\* A nonempty finite set of natural numbers has a greatest element.  A least
\* counterexample would, less one of its elements, be a smaller one.
LEMMA GreatestExists ==
    ASSUME NEW S, S \subseteq Nat, S # {}, IsFiniteSet(S)
    PROVE  \E x \in S : \A y \in S : y <= x
<1> DEFINE Unbounded == {A \in SUBSET S : A # {} /\ \A x \in A : \E y \in A : ~(y <= x)}
           Sizes == {Cardinality(A) : A \in Unbounded}
<1> SUFFICES ASSUME S \in Unbounded PROVE FALSE
    OBVIOUS
<1>1. \A A \in SUBSET S : IsFiniteSet(A) /\ Cardinality(A) \in Nat
    BY FS_Subset, FS_CardinalityType
<1>2. Sizes \subseteq Nat /\ Sizes # {}
    BY <1>1
<1>3. PICK least \in Sizes : \A other \in Sizes : least <= other
    BY <1>2, LeastExists
<1>4. PICK A \in Unbounded : Cardinality(A) = least
    BY <1>3
<1>5. PICK a \in A : TRUE
    BY <1>4
<1> DEFINE B == A \ {a}
<1>6. IsFiniteSet(A) /\ Cardinality(B) = Cardinality(A) - 1 /\ Cardinality(A) \in Nat
    <2>1. A \in SUBSET S /\ IsFiniteSet(A) /\ Cardinality(A) \in Nat
        BY <1>1, <1>4
    <2>2. Cardinality(A \ {a}) = IF a \in A THEN Cardinality(A) - 1 ELSE Cardinality(A)
        BY <2>1, FS_RemoveElement, Zenon
    <2> QED BY <1>5, <2>1, <2>2
<1>7. B \notin Unbounded
    <2>1. B \in Unbounded => Cardinality(B) \in Sizes
        OBVIOUS
    <2>2. ~(Cardinality(A) <= Cardinality(B))
        BY <1>6
    <2> HIDE DEF Sizes, Unbounded, B
    <2> QED BY <1>3, <1>4, <2>1, <2>2
<1>8. B # {}
    BY <1>4, <1>5
<1>9. PICK b \in B : \A y \in B : y <= b
    BY <1>7, <1>8
<1>10. a \in Nat /\ b \in Nat /\ \A y \in A : y = a \/ y \in B
    BY <1>4, <1>5, <1>9
<1>11. (\A y \in A : y <= a) \/ (\A y \in A : y <= b)
    BY <1>9, <1>10
<1> QED BY <1>4, <1>5, <1>9, <1>11

\* Min and Max pick an element of the set.
LEMMA MinMaxType ==
    ASSUME NEW S, S \subseteq Nat, S # {}
    PROVE  /\ Min(S) \in S
           /\ IsFiniteSet(S) => Max(S) \in S /\ \A y \in S : y <= Max(S)
<1>1. Min(S) \in S
    BY LeastExists DEF Min
<1>2. ASSUME IsFiniteSet(S) PROVE Max(S) \in S /\ \A y \in S : y <= Max(S)
    <2>1. \E x \in S : \A y \in S : x >= y
        BY <1>2, GreatestExists
    <2>2. Max(S) \in S /\ \A y \in S : Max(S) >= y
        BY <2>1 DEF Max
    <2> QED BY <2>2
<1> QED BY <1>1, <1>2

\* Min is a lower bound.
LEMMA MinIsLeast ==
    ASSUME NEW S, S \subseteq Nat, NEW x \in S
    PROVE  Min(S) <= x
<1>1. \E y \in S : \A z \in S : y <= z
    BY LeastExists
<1> QED BY <1>1 DEF Min

-----------------------------------------------------------------------------
(* Lengths                                                                 *)

\* A collection is finite, and holds the slots of its ids.
LEMMA LenType ==
    ASSUME NEW c \in NodeCollections
    PROVE  /\ IsFiniteSet(Slots(c))
           /\ len(c) \in Nat
           /\ (\E p \in Node : c[p] > 0) => len(c) > 0
<1> DEFINE slot == [p \in Node |-> {p} \X (1..c[p])]
           slots == {slot[p] : p \in Node}
<1>1. IsFiniteSet(slots)
    <2>1. slot \in Surjection(Node, slots)
        BY DEF Surjection
    <2> HIDE DEF slot, slots
    <2> QED BY <2>1, NodeAssumption, FS_Surjection, Zenon
<1>2. \A s \in slots : IsFiniteSet(s)
    <2>1. ASSUME NEW p \in Node PROVE IsFiniteSet({p} \X (1..c[p]))
        <3>1. IsFiniteSet({p})
            BY FS_Singleton, Zenon
        <3>2. 1 \in Int /\ c[p] \in Int
            BY DEF NodeCollections
        <3>3. IsFiniteSet(1..c[p])
            BY <3>2, FS_Interval, Zenon
        <3> QED BY <3>1, <3>3, FS_Product, Zenon
    <2> QED BY <2>1
<1>3. IsFiniteSet(Slots(c))
    <2>1. Slots(c) = UNION slots
        BY DEF Slots
    <2> HIDE DEF slots
    <2> QED BY <1>1, <1>2, <2>1, FS_UNION, Zenon
<1>4. len(c) \in Nat /\ (Slots(c) # {} => len(c) # 0)
    BY <1>3, FS_CardinalityType, FS_EmptySet, Zenon DEF len
<1>5. ASSUME NEW p \in Node, c[p] > 0 PROVE <<p, 1>> \in Slots(c)
    BY <1>5 DEF Slots, NodeCollections
<1>6. (\E p \in Node : c[p] > 0) => len(c) # 0
    BY <1>4, <1>5, Zenon
<1> QED BY <1>3, <1>4, <1>6

\* The length of a collection without repetitions is the number of its ids.
LEMMA LenOfSet ==
    ASSUME NEW c \in [Node -> {0, 1}]
    PROVE  len(c) = Cardinality({p \in Node : c[p] = 1})
<1> DEFINE ids == {p \in Node : c[p] = 1}
           f == [p \in ids |-> <<p, 1>>]
<1>1. Slots(c) = {<<p, 1>> : p \in ids}
    BY DEF Slots
<1>2. IsFiniteSet(ids)
    BY NodeAssumption, FS_Subset
<1>3. f \in Bijection(ids, Slots(c))
    <2>1. f \in [ids -> Slots(c)]
        BY <1>1
    <2>2. \A p, q \in ids : f[p] = f[q] => p = q
        OBVIOUS
    <2>3. \A s \in Slots(c) : \E p \in ids : f[p] = s
        BY <1>1
    <2> QED BY <2>1, <2>2, <2>3 DEF Bijection, Injection, Surjection, IsInjective
<1>4. ExistsBijection(ids, Slots(c))
    BY <1>3, Zenon DEF ExistsBijection
<1> QED BY <1>2, <1>4, FS_Bijection, Zenon DEF len

-----------------------------------------------------------------------------
(* compute_median                                                          *)

\* compute_median always finds an index.
LEMMA MedianType ==
    ASSUME NEW match, IsMap(match), NEW last \in Nat, NEW members \in NodeCollections,
           NEW catching, NEW leader \in Node
    PROVE  compute_median(match, last, members, catching, leader) \in Nat
<1> DEFINE voters   == Voters(members, catching, leader)
           index(p) == IF p = leader THEN last ELSE get(match, p, 0)
           at       == [p \in {q \in Node : voters[q] > 0} |-> index(p)]
           below(x) == [p \in Node |-> IF index(p) <= x THEN voters[p] ELSE 0]
           position == (len(voters) - 1) \div 2
           ids      == {q \in Node : voters[q] > 0}
           values   == {index(p) : p \in ids}
           found    == {x \in values : len(below(x)) > position}
<1>1. voters \in NodeCollections /\ voters[leader] = 1
    BY DEF Voters, NodeCollections
<1>2. \A p \in Node : index(p) \in Nat
    BY DEF get, IsMap
<1>3. values \subseteq Nat /\ values # {} /\ IsFiniteSet(values)
    <2>1. IsFiniteSet(ids)
        BY NodeAssumption, FS_Subset
    <2>2. IsFiniteSet(values)
        <3>1. at \in Surjection(ids, values)
            BY DEF Surjection
        <3> HIDE DEF at, ids, values
        <3> QED BY <2>1, <3>1, FS_Surjection, Zenon
    <2>3. values \subseteq Nat /\ values # {}
        BY <1>1, <1>2
    <2> QED BY <2>2, <2>3
<1>4. PICK top \in values : \A y \in values : y <= top
    BY <1>3, GreatestExists
<1>5. below(top) = voters
    BY <1>1, <1>4 DEF NodeCollections
<1>6. len(voters) \in Nat /\ len(voters) > 0
    BY <1>1, LenType
<1>7. top \in found
    BY <1>4, <1>5, <1>6
<1>8. Min(found) \in found
    BY <1>3, <1>7, MinMaxType
<1>9. compute_median(match, last, members, catching, leader) = Min(found)
    BY DEF compute_median
<1> QED BY <1>3, <1>8, <1>9

\* The copies of the ids in A make up a part of the array, the others the rest.
LEMMA LenSplit ==
    ASSUME NEW c \in NodeCollections, NEW A
    PROVE  LET in  == [p \in Node |-> IF p \in A THEN c[p] ELSE 0]
               out == [p \in Node |-> IF p \in A THEN 0 ELSE c[p]]
           IN  len(c) = len(in) + len(out)
<1> DEFINE in  == [p \in Node |-> IF p \in A THEN c[p] ELSE 0]
           out == [p \in Node |-> IF p \in A THEN 0 ELSE c[p]]
<1>1. in \in NodeCollections /\ out \in NodeCollections
    BY DEF NodeCollections
<1>2. Slots(c) = Slots(in) \cup Slots(out)
    <2>1. ASSUME NEW p \in Node
          PROVE  {p} \X (1..c[p]) = ({p} \X (1..in[p])) \cup ({p} \X (1..out[p]))
        BY DEF NodeCollections
    <2> HIDE DEF in, out
    <2> QED BY <2>1 DEF Slots
<1>3. Slots(in) \cap Slots(out) = {}
    BY DEF Slots
<1> HIDE DEF in, out
<1>4. IsFiniteSet(Slots(in)) /\ IsFiniteSet(Slots(out))
    BY <1>1, LenType
<1>5. Cardinality(Slots(in) \cup Slots(out)) = Cardinality(Slots(in)) + Cardinality(Slots(out))
    <2>1. Cardinality(Slots(in) \cup Slots(out)) =
              Cardinality(Slots(in)) + Cardinality(Slots(out))
                  - Cardinality(Slots(in) \cap Slots(out))
        BY <1>4, FS_Union, Zenon
    <2>2. Cardinality(Slots(in) \cap Slots(out)) = 0
        BY <1>3, FS_EmptySet, Zenon
    <2>3. len(in) \in Nat /\ len(out) \in Nat
        BY <1>1, LenType
    <2> QED BY <2>1, <2>2, <2>3 DEF len
<1>6. len(c) = len(in) + len(out)
    BY <1>2, <1>5 DEF len
<1> QED BY <1>6 DEF in, out

(***************************************************************************)
(* What compute_median returns is at most the index of a majority of those *)
(* it counts, an even number of them included: fewer than half of the      *)
(* array lies below it.                                                    *)
(***************************************************************************)
THEOREM MajorityReachesMedian ==
    ASSUME NEW match, IsMap(match), NEW last \in Nat, NEW members \in NodeCollections,
           NEW catching, NEW leader \in Node
    PROVE  LET voters   == Voters(members, catching, leader)
               index(p) == IF p = leader THEN last ELSE get(match, p, 0)
               median   == compute_median(match, last, members, catching, leader)
               reach    == [p \in Node |-> IF index(p) >= median THEN voters[p] ELSE 0]
           IN  has_quorum(voters, len(reach))
<1> DEFINE voters   == Voters(members, catching, leader)
           index(p) == IF p = leader THEN last ELSE get(match, p, 0)
           median   == compute_median(match, last, members, catching, leader)
           reach    == [p \in Node |-> IF index(p) >= median THEN voters[p] ELSE 0]
           behind   == [p \in Node |-> IF index(p) >= median THEN 0 ELSE voters[p]]
           upTo(x)  == [p \in Node |-> IF index(p) <= x THEN voters[p] ELSE 0]
           position == (len(voters) - 1) \div 2
           ids      == {q \in Node : voters[q] > 0}
           at       == [p \in ids |-> index(p)]
           values   == {index(p) : p \in ids}
           found    == {x \in values : len(upTo(x)) > position}
           lower    == {x \in values : x < median}
<1>1. voters \in NodeCollections /\ voters[leader] = 1
    BY DEF Voters, NodeCollections
<1>2. \A p \in Node : index(p) \in Nat
    BY DEF get, IsMap
<1>3. median \in Nat
    BY MedianType
<1>4. len(voters) \in Nat /\ len(voters) > 0
    BY <1>1, LenType
<1>5. len(voters) = len(reach) + len(behind)
    <2> DEFINE A == {p \in Node : index(p) >= median}
    <2>1. reach = [p \in Node |-> IF p \in A THEN voters[p] ELSE 0]
        OBVIOUS
    <2>2. behind = [p \in Node |-> IF p \in A THEN 0 ELSE voters[p]]
        OBVIOUS
    <2> HIDE DEF voters, reach, behind, A
    <2> QED BY <1>1, <2>1, <2>2, LenSplit
<1>6. reach \in NodeCollections /\ behind \in NodeCollections
    BY <1>1 DEF NodeCollections
<1>7. len(reach) \in Nat /\ len(behind) \in Nat
    BY <1>6, LenType
<1>8. len(behind) <= position
    <2>1. CASE lower = {}
        <3>1. \A p \in Node : behind[p] = 0
            BY <1>1, <1>2, <1>3, <2>1 DEF NodeCollections
        <3>2. Slots(behind) = {}
            <4> HIDE DEF behind
            <4> QED BY <3>1 DEF Slots
        <3>3. len(behind) = 0
            BY <3>2, FS_EmptySet, Zenon DEF len
        <3> HIDE DEF behind, voters
        <3> QED BY <1>4, <3>3
    <2>2. CASE lower # {}
        <3>1. IsFiniteSet(lower) /\ lower \subseteq Nat
            <4>1. IsFiniteSet(ids)
                BY NodeAssumption, FS_Subset
            <4>2. at \in Surjection(ids, values)
                BY DEF Surjection
            <4>3. IsFiniteSet(values)
                <5> HIDE DEF at, ids, values
                <5> QED BY <4>1, <4>2, FS_Surjection, Zenon
            <4>4. lower \in SUBSET values
                OBVIOUS
            <4>5. values \subseteq Nat
                BY <1>2
            <4> HIDE DEF lower, values
            <4> QED BY <4>3, <4>4, <4>5, FS_Subset
        <3>2. PICK x \in lower : \A y \in lower : y <= x
            BY <2>2, <3>1, GreatestExists
        <3>3. x \in values /\ x < median /\ x \in Nat
            BY <3>1, <3>2
        <3>4. behind = upTo(x)
            <4>1. ASSUME NEW p \in Node PROVE behind[p] = upTo(x)[p]
                <5>1. CASE voters[p] = 0
                    BY <5>1
                <5>2. CASE voters[p] # 0
                    <6>1. index(p) \in values
                        BY <1>1, <5>2 DEF NodeCollections
                    <6>2. index(p) < median => index(p) <= x
                        BY <3>2, <6>1
                    <6> HIDE DEF voters, median, index, values, lower
                    <6> QED BY <1>2, <1>3, <3>3, <6>2
                <5> QED BY <5>1, <5>2
            <4> QED BY <4>1
        <3>5. x \notin found
            <4>1. median = Min(found)
                BY DEF compute_median
            <4>2. found \subseteq Nat
                BY <1>2
            <4>3. x \in found => Min(found) <= x
                <5> HIDE DEF found
                <5> QED BY <4>2, MinIsLeast
            <4> HIDE DEF found, median
            <4> QED BY <1>3, <3>3, <4>1, <4>3
        <3>6. ~(len(upTo(x)) > position)
            BY <3>3, <3>5
        <3>7. position \in Int
            <4> HIDE DEF voters
            <4> QED BY <1>4
        <3> HIDE DEF position, behind, upTo
        <3> QED BY <1>7, <3>4, <3>6, <3>7
    <2> QED BY <2>1, <2>2
<1> HIDE DEF voters, reach, behind
<1>9. len(reach) >= (len(voters) \div 2) + 1
    BY <1>4, <1>5, <1>7, <1>8
<1>10. has_quorum(voters, len(reach))
    BY <1>4, <1>9 DEF has_quorum, quorum_size, size
<1> QED BY <1>10 DEF voters, reach, median, index

-----------------------------------------------------------------------------
(* Entry types                                                             *)

EntryTypes == {T \in SUBSET EntryType : Command \subseteq T}

-----------------------------------------------------------------------------
(* RaftContext                                                             *)

\* The last index and the last term of a log are natural numbers.
LEMMA LastLogType ==
    ASSUME NEW T, NEW n, NodeOK(n, T)
    PROVE  last_log_index(n) \in Nat /\ last_log_term(n) \in Nat
<1>1. n.log \in Seq(LogEntry(T)) /\ n.first_log_index \in Nat \ {0}
      /\ (n.snapshot # None => n.snapshot \in Snapshot)
    BY DEF NodeOK, Optional
<1>2. CASE n.log # <<>>
    <2>1. Len(n.log) \in Nat \ {0} /\ n.log[Len(n.log)] \in LogEntry(T)
        BY <1>1, <1>2
    <2> QED BY <1>1, <1>2, <2>1 DEF last_log_index, last_log_term, LogEntry
<1>3. CASE n.log = <<>>
    BY <1>1, <1>3 DEF last_log_index, last_log_term, Snapshot
<1> QED BY <1>2, <1>3

\* get_entry returns an entry wherever has_entry holds.
LEMMA GetEntryType ==
    ASSUME NEW T, NEW n, NodeOK(n, T), NEW k \in Int, has_entry(n, k)
    PROVE  get_entry(n, k) \in LogEntry(T)
BY DEF NodeOK, has_entry, get_entry

\* Any part of a sequence that does not reach beyond its ends is a sequence.
LEMMA SubSeqType ==
    ASSUME NEW S, NEW s \in Seq(S), NEW a \in Int, NEW b \in Int,
           1 <= a, b <= Len(s)
    PROVE  SubSeq(s, a, b) \in Seq(S)
<1>1. CASE b < a
    BY <1>1, SubSeqEmpty, EmptySeq
<1>2. CASE a <= b
    <2>1. a \in 1..Len(s)+1 /\ b \in (a-1)..Len(s)
        BY <1>2, LenProperties
    <2> QED BY <2>1, SubSeqProperties
<1> QED BY <1>1, <1>2

\* get_entries returns a sequence of entries.
LEMMA GetEntriesType ==
    ASSUME NEW T, NEW n, NodeOK(n, T), NEW k \in Nat
    PROVE  get_entries(n, k) \in Seq(LogEntry(T))
BY DEF NodeOK, get_entries

\* The least of two integers is one of them and at most each.
LEMMA MinOfTwo ==
    ASSUME NEW a \in Int, NEW b \in Int
    PROVE  Min({a, b}) = IF a <= b THEN a ELSE b
<1>1. CASE a <= b
    <2>1. \A x \in {a, b} : (\A y \in {a, b} : x <= y) => x = a
        BY <1>1
    <2>2. \A y \in {a, b} : a <= y
        BY <1>1
    <2> QED BY <1>1, <2>1, <2>2 DEF Min
<1>2. CASE ~(a <= b)
    <2>1. \A x \in {a, b} : (\A y \in {a, b} : x <= y) => x = b
        BY <1>2
    <2>2. \A y \in {a, b} : b <= y
        BY <1>2
    <2> QED BY <1>2, <2>1, <2>2 DEF Min
<1> QED BY <1>1, <1>2

\* The greatest of two integers is one of them and at least each.
LEMMA MaxOfTwo ==
    ASSUME NEW a \in Int, NEW b \in Int
    PROVE  Max({a, b}) = IF a >= b THEN a ELSE b
<1>1. CASE a >= b
    <2>1. \A x \in {a, b} : (\A y \in {a, b} : x >= y) => x = a
        BY <1>1
    <2>2. \A y \in {a, b} : a >= y
        BY <1>1
    <2> QED BY <1>1, <2>1, <2>2 DEF Max
<1>2. CASE ~(a >= b)
    <2>1. \A x \in {a, b} : (\A y \in {a, b} : x >= y) => x = b
        BY <1>2
    <2>2. \A y \in {a, b} : b >= y
        BY <1>2
    <2> QED BY <1>2, <2>1, <2>2 DEF Max
<1> QED BY <1>1, <1>2

\* A prefix of a sequence is a sequence.
LEMMA PrefixType ==
    ASSUME NEW S, NEW s \in Seq(S), NEW b \in Int, b <= Len(s)
    PROVE  SubSeq(s, 1, b) \in Seq(S)
BY SubSeqType

\* append_entries keeps the types of a node.
LEMMA AppendEntriesType ==
    ASSUME NEW T, NEW n, NodeOK(n, T), NEW es \in Seq(LogEntry(T))
    PROVE  NodeOK(append_entries(n, es), T)
<1> DEFINE all == n.log \o es
           cut == Min({Len(all), LogCapacity})
<1>1. all \in Seq(LogEntry(T)) /\ Len(all) \in Int /\ LogCapacity \in Int
    BY ContextAssumption DEF NodeOK
<1>2. cut = IF Len(all) <= LogCapacity THEN Len(all) ELSE LogCapacity
    BY <1>1, MinOfTwo, Zenon
<1>3. cut \in Int /\ cut <= Len(all)
    BY <1>1, <1>2
<1>4. SubSeq(all, 1, cut) \in Seq(LogEntry(T))
    BY <1>1, <1>3, PrefixType, Zenon
<1> QED BY <1>4 DEF NodeOK, NodeFields, append_entries

\* truncate_after keeps the types of a node.
LEMMA TruncateAfterType ==
    ASSUME NEW T, NEW n, NodeOK(n, T), NEW k \in Nat
    PROVE  NodeOK(truncate_after(n, k), T)
<1> DEFINE rest == k - n.first_log_index + 1
           cut == Min({Len(n.log), rest})
<1>1. n.log \in Seq(LogEntry(T)) /\ rest \in Int /\ Len(n.log) \in Int
    BY DEF NodeOK
<1>2. cut = IF Len(n.log) <= rest THEN Len(n.log) ELSE rest
    BY <1>1, MinOfTwo, Zenon
<1>3. cut \in Int /\ cut <= Len(n.log)
    BY <1>1, <1>2
<1>4. SubSeq(n.log, 1, cut) \in Seq(LogEntry(T)) /\ <<>> \in Seq(LogEntry(T))
    BY <1>1, <1>3, PrefixType, EmptySeq, Zenon
<1> QED BY <1>4 DEF NodeOK, NodeFields, truncate_after

\* discard_entries_before keeps the types of a node.
LEMMA DiscardType ==
    ASSUME NEW T, NEW n, NodeOK(n, T), NEW k \in Nat
    PROVE  NodeOK(discard_entries_before(n, k), T)
BY DEF NodeOK, NodeFields, discard_entries_before

\* The timers and the lease keep the types of a node.
LEMMA TimerType ==
    ASSUME NEW T, NEW n, NodeOK(n, T)
    PROVE  /\ NodeOK(reset_election_timer(n), T)
           /\ NodeOK(reset_heartbeat_timer(n), T)
           /\ NodeOK(stop_timers(n), T)
           /\ NodeOK(grant(n), T)
           /\ NodeOK(revoke(n), T)
BY ContextAssumption
   DEF NodeOK, NodeFields, Optional, reset_election_timer, reset_heartbeat_timer,
       stop_timers, grant, revoke

\* send keeps the types of a node.
LEMMA SendType ==
    ASSUME NEW T, NEW n, NodeOK(n, T), NEW p \in Node, NEW m \in RaftMsg(T)
    PROVE  NodeOK(send(n, p, m), T)
<1>1. n.outbox \in [Node -> Seq(RaftMsg(T))]
    BY DEF NodeOK
<1>2. Append(n.outbox[p], m) \in Seq(RaftMsg(T))
    BY <1>1
<1> QED BY <1>1, <1>2 DEF NodeOK, NodeFields, send

\* Sending each peer its message keeps the types of a node.
LEMMA SendToPeersType ==
    ASSUME NEW T, NEW n, NodeOK(n, T), NEW msg \in [Node -> RaftMsg(T)]
    PROVE  NodeOK(send_to_peers(n, msg), T)
<1>1. n.outbox \in [Node -> Seq(RaftMsg(T))] /\ n.members \in [Node -> Nat]
    BY DEF NodeOK, NodeCollections
<1>2. ASSUME NEW p \in Node
      PROVE  n.outbox[p] \o [k \in 1..n.members[p] |-> msg[p]] \in Seq(RaftMsg(T))
    <2>1. [k \in 1..n.members[p] |-> msg[p]] \in Seq(RaftMsg(T))
        BY <1>1
    <2> QED BY <1>1, <2>1, ConcatProperties
<1> DEFINE out == [p \in Node |->
                IF p \in peers(n.members, n.id)
                THEN n.outbox[p] \o [k \in 1..n.members[p] |-> msg[p]]
                ELSE n.outbox[p]]
<1>3. out \in [Node -> Seq(RaftMsg(T))]
    BY <1>1, <1>2
<1> HIDE DEF out
<1>4. NodeOK([n EXCEPT !.outbox = out], T)
    BY <1>3 DEF NodeOK, NodeFields
<1> QED BY <1>4 DEF out, send_to_peers

\* broadcast keeps the types of a node.
LEMMA BroadcastType ==
    ASSUME NEW T, NEW n, NodeOK(n, T), NEW m \in RaftMsg(T)
    PROVE  NodeOK(broadcast(n, m), T)
BY SendToPeersType DEF broadcast

\* step_down to a term keeps the types of a node.
LEMMA StepDownType ==
    ASSUME NEW T, NEW n, NodeOK(n, T), NEW t \in Nat
    PROVE  NodeOK(step_down(n, t), T)
BY ContextAssumption
   DEF NodeOK, NodeFields, Optional, step_down, revoke, reset_election_timer

\* reset_election_timer_if_valid_term keeps the types of a node.
LEMMA ResetIfValidType ==
    ASSUME NEW T, NEW n, NodeOK(n, T), NEW t \in Nat
    PROVE  NodeOK(reset_election_timer_if_valid_term(n, t), T)
BY TimerType DEF reset_election_timer_if_valid_term

-----------------------------------------------------------------------------
(* ConfigChange                                                            *)

\* apply_changes keeps the types of a node, whatever the changes are.
LEMMA ApplyChangesType ==
    ASSUME NEW T, NEW n, NodeOK(n, T),
           NEW changes, DOMAIN changes \subseteq Nat, IsFiniteSet(DOMAIN changes)
    PROVE  NodeOK(apply_changes(n, changes), T)
<1> DEFINE adds(p)    == {k \in DOMAIN changes : changes[k] = AddServer(p)}
           removes(p) == {k \in DOMAIN changes : changes[k] = RemoveServer(p)}
           asLeader   == {k \in DOMAIN changes :
                             /\ n.role = Leader
                             /\ \A r \in removes(n.id) : k <= r}
           about(p)   == asLeader \cap (adds(p) \cup removes(p))
           added(p)   == about(p) # {} /\ Max(about(p)) \in adds(p)
           removed(p) == about(p) # {} /\ Max(about(p)) \in removes(p)
           update(map, v) ==
               [p \in (DOMAIN map \cup {q \in Node : added(q)})
                          \ {q \in Node : removed(q)} |->
                   IF added(p) THEN v ELSE map[p]]
           later(p)   == {k \in adds(p) : k > Max(removes(p))}
           mem        == [p \in Node |->
                            IF removes(p) = {} THEN n.members[p] + Cardinality(adds(p))
                            ELSE Cardinality(later(p))]
           next       == update(n.next_index, last_log_index(n) + 1)
           match      == update(n.match_index, 0)
           catching   == n.catching_up_servers
                             \cup {p \in Node : adds(p) \cap asLeader # {}}
<1>1. ASSUME NEW p \in Node
      PROVE  Cardinality(adds(p)) \in Nat /\ Cardinality(later(p)) \in Nat
    <2>1. adds(p) \in SUBSET DOMAIN changes /\ later(p) \in SUBSET DOMAIN changes
        OBVIOUS
    <2> HIDE DEF adds, later
    <2> QED BY <2>1, FS_Subset, FS_CardinalityType, Zenon
<1> HIDE DEF adds, removes, asLeader, added, removed, later
<1>2. mem \in NodeCollections
    <2>1. n.members \in [Node -> Nat]
        BY DEF NodeOK, NodeCollections
    <2>2. ASSUME NEW p \in Node PROVE mem[p] \in Nat
        BY <1>1, <2>1
    <2> QED BY <2>2 DEF NodeCollections
<1>3. last_log_index(n) + 1 \in Nat
    BY LastLogType
<1>4. IsMap(next)
    BY <1>3 DEF NodeOK, IsMap
<1>5. IsMap(match)
    BY DEF NodeOK, IsMap
<1>6. catching \in SUBSET Node
    BY DEF NodeOK
<1> DEFINE role    == IF removes(n.id) # {} THEN Follower ELSE n.role
           pending == IF n.pending_change \in DOMAIN changes THEN None
                      ELSE n.pending_change
<1>7. role \in {Follower, Candidate, Leader} /\ pending \in Optional(Nat)
    BY DEF NodeOK, Optional
<1> HIDE DEF mem, next, match, catching, role, pending
<1>8. NodeOK([n EXCEPT !.members = mem, !.next_index = next, !.match_index = match,
                       !.catching_up_servers = catching, !.role = role,
                       !.pending_change = pending], T)
    BY <1>2, <1>4, <1>5, <1>6, <1>7 DEF NodeOK, NodeFields
<1>9. apply_changes(n, changes) =
         [n EXCEPT !.members = mem, !.next_index = next, !.match_index = match,
                   !.catching_up_servers = catching, !.role = role,
                   !.pending_change = pending]
    BY DEF apply_changes, mem, next, match, catching, role, pending, update, about,
           adds, removes, asLeader, added, removed, later, NodeOK, NodeFields
<1> QED BY <1>8, <1>9

-----------------------------------------------------------------------------
(* LogReplication                                                          *)

\* initialize_leader_state keeps the types of a node.
LEMMA InitializeLeaderStateType ==
    ASSUME NEW T, NEW n, NodeOK(n, T)
    PROVE  NodeOK(initialize_leader_state(n), T)
<1> DEFINE known == {p \in Node : contains(n.members, p)}
           next  == [p \in DOMAIN n.next_index \cup known |->
                        IF p \in known THEN last_log_index(n) + 1 ELSE n.next_index[p]]
           match == [p \in DOMAIN n.match_index \cup known |->
                        IF p \in known THEN 0 ELSE n.match_index[p]]
<1>1. last_log_index(n) + 1 \in Nat
    BY LastLogType
<1>2. IsMap(next) /\ IsMap(match)
    BY <1>1 DEF NodeOK, IsMap
<1>3. initialize_leader_state(n) = [n EXCEPT !.next_index = next, !.match_index = match]
    BY DEF initialize_leader_state
<1> HIDE DEF next, match
<1> QED BY <1>2, <1>3 DEF NodeOK, NodeFields

\* Whatever the maps say, a peer is sent a well-formed message.
LEMMA MessageForPeerType ==
    ASSUME NEW T, NEW n, NodeOK(n, T), NEW p \in Node
    PROVE  get_append_entries_for_peer(n, p) \in RaftMsg(T)
<1> DEFINE next == get(n.next_index, p, 1)
           prev == IF next = 0 THEN 0 ELSE next - 1
           prevTerm == IF prev = 0 THEN 0
                       ELSE IF has_entry(n, prev) THEN get_entry(n, prev).term
                       ELSE IF n.snapshot # None /\ prev = n.snapshot.last_included_index
                       THEN n.snapshot.last_included_term
                       ELSE 0
<1>1. next \in Nat /\ prev \in Nat
    BY DEF NodeOK, IsMap, get
<1>2. n.snapshot # None => n.snapshot \in Snapshot
    BY DEF NodeOK, Optional
<1>3. prevTerm \in Nat
    <2>1. has_entry(n, prev) => get_entry(n, prev).term \in Nat
        BY <1>1, GetEntryType DEF LogEntry
    <2> HIDE DEF prev
    <2> QED BY <1>2, <2>1 DEF Snapshot
<1>4. get_entries(n, next) \in Seq(LogEntry(T))
    BY <1>1, GetEntriesType
<1>5. n.current_term \in Nat /\ n.commit_index \in Nat
    BY DEF NodeOK
<1>6. get_append_entries_for_follower(n, p) \in RaftMsg(T)
    <2>1. get_append_entries_for_follower(n, p) =
             [type |-> "AppendEntries", term |-> n.current_term,
              prev_log_index |-> prev, prev_log_term |-> prevTerm,
              entries |-> get_entries(n, next), leader_commit |-> n.commit_index]
        BY DEF get_append_entries_for_follower
    <2> HIDE DEF next, prev, prevTerm
    <2> QED BY <2>1, <1>1, <1>3, <1>4, <1>5 DEF RaftMsg
<1>7. ASSUME n.snapshot # None
      PROVE  [type |-> "InstallSnapshot", term |-> n.current_term,
              last_included_index |-> n.snapshot.last_included_index,
              last_included_term |-> n.snapshot.last_included_term,
              data |-> n.snapshot.data] \in RaftMsg(T)
    BY <1>2, <1>5, <1>7 DEF RaftMsg, Snapshot
<1> QED BY <1>6, <1>7 DEF get_append_entries_for_peer, has_snapshot_chunk

\* Replicating to the followers keeps the types of the leader.
LEMMA SendAppendEntriesType ==
    ASSUME NEW T, NEW n, NodeOK(n, T)
    PROVE  NodeOK(send_append_entries_to_followers(n), T)
<1> DEFINE msg == [p \in Node |-> get_append_entries_for_peer(n, p)]
<1>1. msg \in [Node -> RaftMsg(T)]
    BY MessageForPeerType
<1> HIDE DEF msg
<1>2. NodeOK(send_to_peers(n, msg), T)
    BY <1>1, SendToPeersType
<1> QED BY <1>2 DEF msg, send_append_entries_to_followers

\* The heartbeat timer keeps the types of a node.
LEMMA HeartbeatType ==
    ASSUME NEW T, NEW n, NodeOK(n, T)
    PROVE  NodeOK(handle_heartbeat_timer(n), T)
BY SendAppendEntriesType, TimerType DEF handle_heartbeat_timer, send_heartbeats

\* apply_committed_entries keeps the types of a node.
LEMMA ApplyCommittedType ==
    ASSUME NEW T \in EntryTypes, NEW n, NodeOK(n, T)
    PROVE  NodeOK(apply_committed_entries(n), T)
<1> DEFINE new     == {k \in (n.last_applied + 1)..n.commit_index : has_entry(n, k)}
           entry   == [k \in new |-> get_entry(n, k).entry_type]
           changes == {k \in new : entry[k] \in ConfigurationChange}
           applied(k) == IF k \in new THEN IF k \in changes THEN None ELSE entry[k]
                         ELSE IF k \in DOMAIN n.state_machine
                         THEN n.state_machine[k] ELSE None
           upTo    == Max({Len(n.state_machine), n.commit_index})
           machine == [k \in 1..upTo |-> applied(k)]
           a       == [n EXCEPT !.last_applied = n.commit_index,
                                !.state_machine = machine]
           config  == [k \in changes |-> entry[k]]
<1>1. n.last_applied \in Nat /\ n.commit_index \in Nat
      /\ n.state_machine \in Seq(Command \cup {None})
    BY DEF NodeOK, StateMachine
<1>2. upTo \in Nat
    <2>1. Len(n.state_machine) \in Int /\ n.commit_index \in Int
        BY <1>1
    <2>2. upTo = IF Len(n.state_machine) >= n.commit_index
                 THEN Len(n.state_machine) ELSE n.commit_index
        BY <2>1, MaxOfTwo, Zenon
    <2> QED BY <1>1, <2>2
<1>3. \A k \in new : k \in Nat /\ entry[k] \in T
    <2>1. ASSUME NEW k \in new PROVE k \in Nat /\ entry[k] \in T
        <3>1. k \in Nat /\ k \in Int /\ has_entry(n, k)
            BY <1>1
        <3>2. get_entry(n, k) \in LogEntry(T)
            BY <3>1, GetEntryType
        <3> QED BY <3>1, <3>2 DEF LogEntry
    <2> QED BY <2>1
<1>4. \A k \in new \ changes : entry[k] \in Command
    BY <1>3 DEF EntryTypes, EntryType
<1>5. \A k \in 1..upTo : applied(k) \in Command \cup {None}
    <2> HIDE DEF new, changes, entry, upTo
    <2> QED BY <1>1, <1>4
<1>6. machine \in StateMachine
    <2> HIDE DEF upTo, applied
    <2> QED BY <1>2, <1>5 DEF StateMachine
<1>7. NodeOK(a, T)
    <2> HIDE DEF machine
    <2> QED BY <1>1, <1>6 DEF NodeOK, NodeFields
<1>8. DOMAIN config \subseteq Nat /\ IsFiniteSet(DOMAIN config)
    <2>1. n.last_applied + 1 \in Int /\ n.commit_index \in Int
        BY <1>1
    <2>2. IsFiniteSet((n.last_applied + 1)..n.commit_index)
        BY <2>1, FS_Interval, Zenon
    <2>3. DOMAIN config \in SUBSET ((n.last_applied + 1)..n.commit_index)
        OBVIOUS
    <2>4. DOMAIN config \subseteq Nat
        BY <1>3
    <2> HIDE DEF config
    <2> QED BY <2>2, <2>3, <2>4, FS_Subset, Zenon
<1>9. NodeOK(apply_changes(a, config), T)
    <2> HIDE DEF a, config
    <2> QED BY <1>7, <1>8, ApplyChangesType, Zenon
<1>10. apply_committed_entries(n) = IF n.last_applied >= n.commit_index THEN n
                                    ELSE apply_changes(a, config)
    BY DEF apply_committed_entries
<1> HIDE DEF a, config
<1> QED BY <1>9, <1>10

\* advance_commit_index keeps the types of a node.
LEMMA AdvanceCommitType ==
    ASSUME NEW T \in EntryTypes, NEW n, NodeOK(n, T)
    PROVE  NodeOK(advance_commit_index(n), T)
<1> DEFINE new_commit == compute_median(n.match_index, last_log_index(n),
                                        n.members, n.catching_up_servers, n.id)
           a == [n EXCEPT !.commit_index = new_commit]
<1>1. new_commit \in Nat
    <2>1. IsMap(n.match_index) /\ n.members \in NodeCollections /\ n.id \in Node
          /\ last_log_index(n) \in Nat
        BY LastLogType DEF NodeOK
    <2> QED BY <2>1, MedianType, Zenon
<1> HIDE DEF new_commit
<1>2. NodeOK(a, T)
    BY <1>1 DEF NodeOK, NodeFields
<1>3. NodeOK(apply_committed_entries(a), T)
    <2> HIDE DEF a
    <2> QED BY <1>2, ApplyCommittedType, Zenon
<1> QED BY <1>3 DEF advance_commit_index, new_commit

\* create_snapshot keeps the types of a node.
LEMMA CreateSnapshotType ==
    ASSUME NEW T, NEW n, NodeOK(n, T)
    PROVE  NodeOK(create_snapshot(n), T)
<1> SUFFICES ASSUME has_entry(n, n.commit_index)
             PROVE  NodeOK(discard_entries_before(
                        [n EXCEPT !.snapshot =
                            [last_included_index |-> n.commit_index,
                             last_included_term |-> get_entry(n, n.commit_index).term,
                             data |-> n.state_machine]],
                        n.commit_index + 1), T)
    BY DEF create_snapshot
<1>1. n.commit_index \in Nat /\ n.state_machine \in StateMachine
    BY DEF NodeOK
<1>2. get_entry(n, n.commit_index).term \in Nat
    BY <1>1, GetEntryType DEF LogEntry
<1> DEFINE snap == [last_included_index |-> n.commit_index,
                    last_included_term |-> get_entry(n, n.commit_index).term,
                    data |-> n.state_machine]
<1>3. snap \in Snapshot
    BY <1>1, <1>2 DEF Snapshot
<1> HIDE DEF snap
<1>4. NodeOK([n EXCEPT !.snapshot = snap], T)
    BY <1>3 DEF NodeOK, NodeFields, Optional
<1>5. n.commit_index + 1 \in Nat
    BY <1>1
<1>6. NodeOK(discard_entries_before([n EXCEPT !.snapshot = snap], n.commit_index + 1), T)
    BY <1>4, <1>5, DiscardType, Zenon
<1> QED BY <1>6 DEF snap

\* replace_suffix keeps the types of a node.
LEMMA ReplaceSuffixType ==
    ASSUME NEW T, NEW n, NodeOK(n, T), NEW k \in Nat, NEW es \in Seq(LogEntry(T))
    PROVE  NodeOK(replace_suffix(n, k, es), T)
<1>1. NodeOK(truncate_after(n, k), T)
    BY TruncateAfterType, Zenon
<1>2. NodeOK(append_entries(n, es), T) /\ NodeOK(append_entries(truncate_after(n, k), es), T)
    BY <1>1, AppendEntriesType, Zenon
<1> QED BY <1>2 DEF replace_suffix

AppendEntriesMsg(T) ==
    [type : {"AppendEntries"}, term : Nat, prev_log_index : Nat,
     prev_log_term : Nat, entries : Seq(LogEntry(T)), leader_commit : Nat]

\* try_append_entries keeps the types of a node.
LEMMA TryAppendType ==
    ASSUME NEW T \in EntryTypes, NEW n, NodeOK(n, T), NEW m \in AppendEntriesMsg(T)
    PROVE  NodeOK(try_append_entries(n, m), T)
<1> DEFINE a == replace_suffix(n, m.prev_log_index, m.entries)
           c == Min({m.leader_commit, last_log_index(a)})
           b == [a EXCEPT !.commit_index = c]
<1>1. m.prev_log_index \in Nat /\ m.entries \in Seq(LogEntry(T)) /\ m.leader_commit \in Nat
    BY DEF AppendEntriesMsg
<1>2. NodeOK(a, T)
    BY <1>1, ReplaceSuffixType, Zenon
<1> HIDE DEF a
<1>3. last_log_index(a) \in Nat
    BY <1>2, LastLogType, Zenon
<1>4. c \in Nat
    <2>1. m.leader_commit \in Int /\ last_log_index(a) \in Int
        BY <1>1, <1>3
    <2>2. c = IF m.leader_commit <= last_log_index(a) THEN m.leader_commit
              ELSE last_log_index(a)
        BY <2>1, MinOfTwo, Zenon
    <2> QED BY <1>1, <1>3, <2>2
<1> HIDE DEF c
<1>5. NodeOK(b, T)
    BY <1>2, <1>4 DEF NodeOK, NodeFields
<1>6. NodeOK(apply_committed_entries(b), T)
    <2> HIDE DEF b
    <2> QED BY <1>5, ApplyCommittedType, Zenon
<1>7. try_append_entries(n, m) = IF m.leader_commit > a.commit_index
                                 THEN apply_committed_entries(b) ELSE a
    BY DEF try_append_entries, a, b, c
<1> QED BY <1>2, <1>6, <1>7

\* AppendEntries keeps the types of the receiver.
LEMMA AppendEntriesHandlerType ==
    ASSUME NEW T \in EntryTypes, NEW n, NodeOK(n, T), NEW from \in Node,
           NEW m \in AppendEntriesMsg(T)
    PROVE  NodeOK(handle_append_entries(n, from, m), T)
<1>1. m.term \in Nat
    BY DEF AppendEntriesMsg
<1>2. NodeOK(step_down(n, m.term), T)
    BY <1>1, StepDownType, Zenon
<1> DEFINE r == reset_election_timer_if_valid_term(n, m.term)
           h == [r EXCEPT !.current_leader = from]
           a == IF m.term = h.current_term /\ h.role = Candidate
                THEN [h EXCEPT !.role = Follower] ELSE h
           success == /\ m.term >= h.current_term
                      /\ check_log_consistency(a, m.prev_log_index, m.prev_log_term)
           b == IF success THEN try_append_entries(a, m) ELSE a
           answer == [type |-> "AppendEntriesResponse", term |-> b.current_term,
                      success |-> success, match_index |-> last_log_index(b)]
<1>3. NodeOK(r, T)
    BY <1>1, ResetIfValidType, Zenon
<1> HIDE DEF r
<1>4. NodeOK(h, T)
    BY <1>3 DEF NodeOK, NodeFields, Optional
<1> HIDE DEF h
<1>5. NodeOK(a, T)
    BY <1>4 DEF NodeOK, NodeFields
<1> HIDE DEF a
<1>6. NodeOK(try_append_entries(a, m), T)
    BY <1>5, TryAppendType, Zenon
<1>7. NodeOK(b, T)
    BY <1>5, <1>6
<1>8. success \in BOOLEAN
    OBVIOUS
<1> HIDE DEF b, success
<1>9. b.current_term \in Nat /\ last_log_index(b) \in Nat
    BY <1>7, LastLogType DEF NodeOK
<1>10. answer \in RaftMsg(T)
    BY <1>8, <1>9 DEF RaftMsg
<1> HIDE DEF answer
<1>11. NodeOK(send(b, from, answer), T)
    BY <1>7, <1>10, SendType, Zenon
<1>12. handle_append_entries(n, from, m) =
           IF m.term > n.current_term THEN step_down(n, m.term) ELSE send(b, from, answer)
    BY DEF handle_append_entries, replication_handle_append_entries, answer, b, success,
           a, h, r
<1> QED BY <1>2, <1>11, <1>12

\* Recording an index for a peer keeps a map a map.
LEMMA InsertType ==
    ASSUME NEW map, IsMap(map), NEW p \in Node, NEW v \in Nat
    PROVE  IsMap(insert(map, p, v))
BY DEF IsMap, insert

\* check_and_promote_caught_up_server keeps the types of a node.
LEMMA PromoteType ==
    ASSUME NEW T, NEW n, NodeOK(n, T), NEW p \in Node
    PROVE  NodeOK(check_and_promote_caught_up_server(n, p), T)
BY DEF NodeOK, NodeFields, check_and_promote_caught_up_server

\* Setting the replication indices of a peer keeps the types of a node.
LEMMA SetIndicesType ==
    ASSUME NEW T, NEW n, NodeOK(n, T), NEW p \in Node, NEW v \in Nat, NEW w \in Nat
    PROVE  /\ NodeOK([n EXCEPT !.match_index = insert(@, p, v),
                               !.next_index = insert(@, p, w)], T)
           /\ NodeOK([n EXCEPT !.next_index = insert(@, p, w),
                               !.match_index = insert(@, p, v)], T)
           /\ NodeOK([n EXCEPT !.next_index = insert(@, p, w)], T)
<1>1. IsMap(insert(n.match_index, p, v)) /\ IsMap(insert(n.next_index, p, w))
    BY InsertType DEF NodeOK
<1> QED BY <1>1 DEF NodeOK, NodeFields

AppendEntriesResponseMsg ==
    [type : {"AppendEntriesResponse"}, term : Nat, success : BOOLEAN, match_index : Nat]

\* An answer to AppendEntries keeps the types of the receiver.
LEMMA AppendEntriesResponseHandlerType ==
    ASSUME NEW T \in EntryTypes, NEW n, NodeOK(n, T), NEW from \in Node,
           NEW m \in AppendEntriesResponseMsg
    PROVE  NodeOK(handle_append_entries_response(n, from, m), T)
<1>1. m.term \in Nat /\ m.match_index \in Nat /\ m.match_index + 1 \in Nat
      /\ m.success \in BOOLEAN
    BY DEF AppendEntriesResponseMsg
<1>2. NodeOK(step_down(n, m.term), T)
    BY <1>1, StepDownType, Zenon
<1> DEFINE next == get(n.next_index, from, 1)
           s == [n EXCEPT !.match_index = insert(@, from, m.match_index),
                          !.next_index = insert(@, from, m.match_index + 1)]
           p == check_and_promote_caught_up_server(s, from)
           a == replication_handle_append_entries_response(n, from, m)
<1>3. NodeOK(s, T)
    BY <1>1, SetIndicesType, Zenon
<1> HIDE DEF s
<1>4. NodeOK(p, T)
    BY <1>3, PromoteType, Zenon
<1> HIDE DEF p
<1>5. NodeOK(advance_commit_index(p), T)
    BY <1>4, AdvanceCommitType, Zenon
<1>6. next \in Nat
    BY DEF NodeOK, IsMap, get
<1>7. ASSUME next > 1
      PROVE  NodeOK([n EXCEPT !.next_index = insert(@, from, next - 1)], T)
    <2>1. next - 1 \in Nat
        BY <1>6, <1>7
    <2> HIDE DEF next
    <2> QED BY <2>1, <1>1, SetIndicesType, Zenon
<1> HIDE DEF next
<1>8. NodeOK(a, T)
    <2>1. CASE m.success /\ m.match_index > get(n.match_index, from, 0)
        <3>1. a = advance_commit_index(p)
            BY <2>1 DEF replication_handle_append_entries_response, p, s
        <3> QED BY <3>1, <1>5
    <2>2. CASE ~m.success /\ next > 1
        <3>1. a = [n EXCEPT !.next_index = insert(@, from, next - 1)]
            BY <2>2 DEF replication_handle_append_entries_response, next
        <3> QED BY <3>1, <1>7, <2>2
    <2>3. CASE ~(m.success /\ m.match_index > get(n.match_index, from, 0))
               /\ ~(~m.success /\ next > 1)
        <3>1. a = n
            BY <2>3 DEF replication_handle_append_entries_response, next
        <3> QED BY <3>1
    <2> QED BY <2>1, <2>2, <2>3
<1> HIDE DEF a
<1>9. NodeOK(grant(a), T)
    BY <1>8, TimerType, Zenon
<1>10. NodeOK(create_snapshot(grant(a)), T)
    BY <1>9, CreateSnapshotType, Zenon
<1>11. handle_append_entries_response(n, from, m) \in
           {step_down(n, m.term), n, a, grant(a), create_snapshot(grant(a))}
    BY DEF handle_append_entries_response, a
<1> QED BY <1>2, <1>8, <1>9, <1>10, <1>11

SnapshotMsg ==
    [type : {"InstallSnapshot"}, term : Nat, last_included_index : Nat,
     last_included_term : Nat, data : StateMachine]

\* Installing a snapshot keeps the types of a node.
LEMMA InstallType ==
    ASSUME NEW T, NEW n, NodeOK(n, T), NEW m \in SnapshotMsg
    PROVE  NodeOK(install(n, m), T)
<1> DEFINE snap == [last_included_index |-> m.last_included_index,
                    last_included_term |-> m.last_included_term,
                    data |-> m.data]
           a == [n EXCEPT !.snapshot = snap]
           d == discard_entries_before(a, m.last_included_index + 1)
           commit == Max({d.commit_index, m.last_included_index})
           applied == Max({d.last_applied, m.last_included_index})
<1>1. m.last_included_index \in Nat /\ m.last_included_index + 1 \in Nat
      /\ m.data \in StateMachine /\ snap \in Snapshot
    BY DEF SnapshotMsg, Snapshot
<1> HIDE DEF snap
<1>2. NodeOK(a, T)
    BY <1>1 DEF NodeOK, NodeFields, Optional
<1> HIDE DEF a
<1>3. NodeOK(d, T)
    BY <1>1, <1>2, DiscardType, Zenon
<1> HIDE DEF d
<1>4. commit \in Nat /\ applied \in Nat
    <2>1. d.commit_index \in Nat /\ d.last_applied \in Nat
        BY <1>3 DEF NodeOK
    <2>2. d.commit_index \in Int /\ d.last_applied \in Int /\ m.last_included_index \in Int
        BY <2>1, <1>1
    <2>3. commit \in {d.commit_index, m.last_included_index}
          /\ applied \in {d.last_applied, m.last_included_index}
        BY <2>2, MaxOfTwo, Zenon
    <2> QED BY <1>1, <2>1, <2>3
<1> HIDE DEF commit, applied
<1>5. NodeOK([d EXCEPT !.state_machine = m.data, !.commit_index = commit,
                       !.last_applied = applied], T)
    BY <1>1, <1>3, <1>4 DEF NodeOK, NodeFields
<1> QED BY <1>5 DEF install, commit, applied, d, a, snap

\* InstallSnapshot keeps the types of the receiver.
LEMMA InstallSnapshotHandlerType ==
    ASSUME NEW T, NEW n, NodeOK(n, T), NEW from \in Node, NEW m \in SnapshotMsg
    PROVE  NodeOK(handle_install_snapshot(n, from, m), T)
<1>1. m.term \in Nat
    BY DEF SnapshotMsg
<1> DEFINE r == reset_election_timer_if_valid_term(n, m.term)
           a == IF m.term > r.current_term
                THEN [r EXCEPT !.current_term = m.term, !.voted_for = None, !.role = Follower]
                ELSE IF r.role = Candidate THEN [r EXCEPT !.role = Follower]
                ELSE r
<1>2. NodeOK(r, T)
    BY <1>1, ResetIfValidType, Zenon
<1> HIDE DEF r
<1>3. NodeOK(a, T)
    <2>1. NodeOK([r EXCEPT !.current_term = m.term, !.voted_for = None,
                           !.role = Follower], T)
        BY <1>1, <1>2 DEF NodeOK, NodeFields, Optional
    <2>2. NodeOK([r EXCEPT !.role = Follower], T)
        BY <1>2 DEF NodeOK, NodeFields
    <2> QED BY <1>2, <2>1, <2>2
<1> HIDE DEF a
<1>4. NodeOK(install(a, m), T)
    BY <1>3, InstallType, Zenon
<1>5. /\ InstallSnapshotResponse(r, FALSE) \in RaftMsg(T)
      /\ InstallSnapshotResponse(a, FALSE) \in RaftMsg(T)
      /\ InstallSnapshotResponse(a, TRUE) \in RaftMsg(T)
    BY <1>2, <1>3 DEF NodeOK, RaftMsg, InstallSnapshotResponse
<1>6. /\ NodeOK(send(r, from, InstallSnapshotResponse(r, FALSE)), T)
      /\ NodeOK(send(a, from, InstallSnapshotResponse(a, FALSE)), T)
      /\ NodeOK(send(install(a, m), from, InstallSnapshotResponse(a, TRUE)), T)
    BY <1>2, <1>3, <1>4, <1>5, SendType, Zenon
<1>7. handle_install_snapshot(n, from, m) \in
          {send(r, from, InstallSnapshotResponse(r, FALSE)),
           send(a, from, InstallSnapshotResponse(a, FALSE)),
           send(install(a, m), from, InstallSnapshotResponse(a, TRUE))}
    BY DEF handle_install_snapshot, replication_handle_install_snapshot, a, r
<1> QED BY <1>6, <1>7

\* An answer to InstallSnapshot keeps the types of the receiver.
LEMMA InstallSnapshotResponseHandlerType ==
    ASSUME NEW T, NEW n, NodeOK(n, T), NEW from \in Node, NEW m, m.term \in Nat
    PROVE  NodeOK(handle_install_snapshot_response(n, from, m), T)
<1> DEFINE index == n.snapshot.last_included_index
           s == [n EXCEPT !.next_index = insert(@, from, index + 1),
                          !.match_index = insert(@, from, index)]
<1>1. NodeOK(step_down(n, m.term), T)
    BY StepDownType, Zenon
<1>2. ASSUME n.snapshot # None
      PROVE  NodeOK(check_and_promote_caught_up_server(s, from), T)
    <2>1. index \in Nat /\ index + 1 \in Nat
        BY <1>2 DEF NodeOK, Optional, Snapshot
    <2>2. NodeOK(s, T)
        BY <2>1, SetIndicesType, Zenon
    <2> HIDE DEF s
    <2> QED BY <2>2, PromoteType, Zenon
<1> QED BY <1>1, <1>2 DEF handle_install_snapshot_response

-----------------------------------------------------------------------------
(* Election                                                                *)

\* Becoming the leader keeps the types of a node.
LEMMA BecomeLeaderType ==
    ASSUME NEW T, NEW n, NodeOK(n, T)
    PROVE  NodeOK(become_leader(n), T)
<1> DEFINE a == [n EXCEPT !.role = Leader]
           b == initialize_leader_state(a)
<1>1. NodeOK(a, T)
    BY DEF NodeOK, NodeFields
<1> HIDE DEF a
<1>2. NodeOK(b, T)
    BY <1>1, InitializeLeaderStateType, Zenon
<1> HIDE DEF b
<1>3. NodeOK(reset_heartbeat_timer(stop_timers(b)), T)
    BY <1>2, TimerType
<1>4. NodeOK(send_append_entries_to_followers(reset_heartbeat_timer(stop_timers(b))), T)
    BY <1>3, SendAppendEntriesType, Zenon
<1> QED BY <1>4 DEF become_leader, a, b

\* A collection with one more id is a collection.
LEMMA PushType ==
    ASSUME NEW p \in Node
    PROVE  /\ push(new_collection, p) \in NodeCollections
           /\ \A c \in NodeCollections : push(c, p) \in NodeCollections
BY DEF push, new_collection, NodeCollections

\* A request for votes is a well-formed message.
LEMMA VoteRequestType ==
    ASSUME NEW T, NEW n, NodeOK(n, T), NEW t \in Nat,
           NEW type \in {"PreVoteRequest", "RequestVote"}
    PROVE  VoteRequestMsg(type, t, last_log_index(n), last_log_term(n)) \in RaftMsg(T)
BY LastLogType DEF RaftMsg, VoteRequestMsg

\* Starting a pre-vote keeps the types of a node.
LEMMA StartPreVoteType ==
    ASSUME NEW T, NEW n, NodeOK(n, T)
    PROVE  NodeOK(start_pre_vote(n), T)
<1> DEFINE a == [n EXCEPT !.pre_votes_received = push(new_collection, n.id),
                          !.in_pre_vote = TRUE]
           m == VoteRequestMsg("PreVoteRequest", n.current_term,
                               last_log_index(n), last_log_term(n))
<1>1. n.id \in Node /\ n.current_term \in Nat
    BY DEF NodeOK
<1>2. NodeOK(a, T)
    BY <1>1, PushType DEF NodeOK, NodeFields
<1>3. m \in RaftMsg(T)
    BY <1>1, VoteRequestType
<1> HIDE DEF a, m
<1>4. NodeOK(reset_election_timer(a), T)
    BY <1>2, TimerType
<1>5. NodeOK(broadcast(reset_election_timer(a), m), T)
    BY <1>3, <1>4, BroadcastType, Zenon
<1> QED BY <1>5 DEF start_pre_vote, a, m

\* Starting an election keeps the types of a node.
LEMMA StartElectionType ==
    ASSUME NEW T, NEW n, NodeOK(n, T)
    PROVE  NodeOK(start_election(n), T)
<1> DEFINE term == n.current_term + 1
           a == [n EXCEPT !.current_term = term, !.voted_for = n.id,
                          !.votes_received = push(new_collection, n.id),
                          !.in_pre_vote = FALSE, !.role = Candidate]
           m == VoteRequestMsg("RequestVote", term, last_log_index(n), last_log_term(n))
           b == broadcast(reset_election_timer(a), m)
<1>1. n.id \in Node /\ term \in Nat
    BY DEF NodeOK
<1> HIDE DEF term
<1>2. NodeOK(a, T)
    BY <1>1, PushType DEF NodeOK, NodeFields, Optional
<1>3. m \in RaftMsg(T)
    BY <1>1, VoteRequestType
<1> HIDE DEF a, m
<1>4. NodeOK(reset_election_timer(a), T)
    BY <1>2, TimerType
<1>5. NodeOK(b, T)
    BY <1>3, <1>4, BroadcastType, Zenon
<1> HIDE DEF b
<1>6. NodeOK(become_leader(b), T)
    BY <1>5, BecomeLeaderType, Zenon
<1> QED BY <1>5, <1>6 DEF start_election, b, a, m, term

\* An election timeout keeps the types of a node.
LEMMA ElectionTimerType ==
    ASSUME NEW T, NEW n, NodeOK(n, T)
    PROVE  NodeOK(handle_election_timer(n), T)
<1>1. NodeOK(start_pre_vote(n), T)
    BY StartPreVoteType, Zenon
<1>2. NodeOK(start_election(start_pre_vote(n)), T)
    BY <1>1, StartElectionType, Zenon
<1> QED BY <1>1, <1>2 DEF handle_election_timer

\* A request for a pre-vote keeps the types of the receiver.
LEMMA PreVoteRequestType ==
    ASSUME NEW T, NEW n, NodeOK(n, T), NEW from \in Node, NEW m
    PROVE  NodeOK(handle_pre_vote_request(n, from, m), T)
<1> DEFINE granted == m.term >= n.current_term /\ is_log_up_to_date(n, m)
           answer == VoteResponseMsg("PreVoteResponse", n.current_term, granted)
<1>1. granted \in BOOLEAN
    OBVIOUS
<1> HIDE DEF granted
<1>2. answer \in RaftMsg(T)
    BY <1>1 DEF NodeOK, RaftMsg, VoteResponseMsg
<1> HIDE DEF answer
<1>3. NodeOK(send(n, from, answer), T)
    BY <1>2, SendType, Zenon
<1> QED BY <1>3 DEF handle_pre_vote_request, answer, granted

\* A pre-vote keeps the types of the receiver.
LEMMA PreVoteResponseType ==
    ASSUME NEW T, NEW n, NodeOK(n, T), NEW from \in Node, NEW m
    PROVE  NodeOK(handle_pre_vote_response(n, from, m), T)
<1> DEFINE a == [n EXCEPT !.pre_votes_received = push(@, from)]
           b == [a EXCEPT !.in_pre_vote = FALSE]
<1>1. NodeOK(a, T) /\ NodeOK(b, T)
    BY PushType DEF NodeOK, NodeFields
<1> HIDE DEF b
<1>2. NodeOK(start_election(b), T)
    BY <1>1, StartElectionType, Zenon
<1>3. handle_pre_vote_response(n, from, m) \in {n, a, start_election(b)}
    BY DEF handle_pre_vote_response, b
<1> QED BY <1>1, <1>2, <1>3

\* A request for a vote keeps the types of the receiver.
LEMMA VoteRequestHandlerType ==
    ASSUME NEW T, NEW n, NodeOK(n, T), NEW from \in Node, NEW m, m.term \in Nat
    PROVE  NodeOK(handle_vote_request(n, from, m), T)
<1> DEFINE a == IF m.term > n.current_term THEN step_down(n, m.term) ELSE n
           granted == should_grant_vote(a, from, m)
           c == [a EXCEPT !.voted_for = from]
           b == IF granted THEN reset_election_timer(c) ELSE a
           answer == VoteResponseMsg("RequestVoteResponse", b.current_term, granted)
<1>1. NodeOK(a, T)
    BY StepDownType
<1> HIDE DEF a
<1>2. NodeOK(c, T)
    BY <1>1 DEF NodeOK, NodeFields, Optional
<1> HIDE DEF c
<1>3. NodeOK(b, T) /\ granted \in BOOLEAN
    BY <1>1, <1>2, TimerType DEF should_grant_vote
<1> HIDE DEF b, granted
<1>4. answer \in RaftMsg(T)
    BY <1>3 DEF NodeOK, RaftMsg, VoteResponseMsg
<1> HIDE DEF answer
<1>5. NodeOK(send(b, from, answer), T)
    BY <1>3, <1>4, SendType, Zenon
<1> QED BY <1>5 DEF handle_vote_request, answer, granted, b, c, a

\* A vote keeps the types of the receiver.
LEMMA VoteResponseHandlerType ==
    ASSUME NEW T, NEW n, NodeOK(n, T), NEW from \in Node, NEW m, m.term \in Nat
    PROVE  NodeOK(handle_vote_response(n, from, m), T)
<1> DEFINE a == [n EXCEPT !.votes_received = push(@, from)]
<1>1. NodeOK(a, T)
    BY PushType DEF NodeOK, NodeFields
<1>2. NodeOK(step_down(n, m.term), T)
    BY StepDownType, Zenon
<1>3. NodeOK(become_leader(a), T)
    <2> HIDE DEF a
    <2> QED BY <1>1, BecomeLeaderType, Zenon
<1>4. handle_vote_response(n, from, m) \in {step_down(n, m.term), n, a, become_leader(a)}
    BY DEF handle_vote_response
<1> QED BY <1>1, <1>2, <1>3, <1>4

-----------------------------------------------------------------------------
(* RaftNode                                                                *)

\* Submitting an entry keeps the types of the leader.
LEMMA SubmitEntryType ==
    ASSUME NEW T \in EntryTypes, NEW n, NodeOK(n, T), NEW e \in T
    PROVE  NodeOK(submit_entry(n, e), T)
<1> DEFINE es == <<[term |-> n.current_term, entry_type |-> e]>>
           a == append_entries(n, es)
           b == IF size(a.members) <= 1 THEN advance_commit_index(a) ELSE a
<1>1. es \in Seq(LogEntry(T))
    BY DEF NodeOK, LogEntry
<1> HIDE DEF es
<1>2. NodeOK(a, T)
    BY <1>1, AppendEntriesType, Zenon
<1> HIDE DEF a
<1>3. NodeOK(advance_commit_index(a), T)
    BY <1>2, AdvanceCommitType, Zenon
<1>4. NodeOK(b, T)
    BY <1>2, <1>3
<1> HIDE DEF b
<1>5. NodeOK(send_append_entries_to_followers(b), T)
    BY <1>4, SendAppendEntriesType, Zenon
<1> QED BY <1>5 DEF submit_entry, b, a, es

\* Client commands and membership requests keep the types of a node.
LEMMA SubmitType ==
    ASSUME NEW T \in EntryTypes, NEW n, NodeOK(n, T)
    PROVE  /\ \A c \in Command : NodeOK(submit_client_command(n, c), T)
           /\ \A e \in T : NodeOK(submit_config_change(n, e), T)
           /\ \A p \in Node : /\ AddServer(p) \in T => NodeOK(add_server(n, p), T)
                              /\ RemoveServer(p) \in T => NodeOK(remove_server(n, p), T)
<1>1. \A e \in T : NodeOK(submit_entry(n, e), T)
    BY SubmitEntryType, Zenon
<1>2. \A e \in T : NodeOK(submit_config_change(n, e), T)
    BY <1>1 DEF submit_config_change
<1>3. ASSUME NEW a, NodeOK(a, T)
      PROVE  NodeOK([a EXCEPT !.pending_change = last_log_index(a)], T)
    <2>1. last_log_index(a) \in Nat
        BY <1>3, LastLogType, Zenon
    <2> QED BY <1>3, <2>1 DEF NodeOK, NodeFields, Optional
<1>4. \A c \in Command : NodeOK(submit_client_command(n, c), T)
    BY <1>1 DEF submit_client_command, EntryTypes
<1>5. \A p \in Node : /\ AddServer(p) \in T => NodeOK(add_server(n, p), T)
                      /\ RemoveServer(p) \in T => NodeOK(remove_server(n, p), T)
    BY <1>2, <1>3 DEF add_server, remove_server
<1> QED BY <1>2, <1>4, <1>5

\* A node starts well-typed from any storage a well-typed node can leave.
LEMMA NewNodeType ==
    ASSUME NEW T, NEW i \in Node, NEW peerIds
    PROVE  /\ NodeOK(new_from_builder(i, new_storage, peerIds), T)
           /\ \A n : NodeOK(n, T) =>
                  NodeOK(new_from_builder(i, storage(n), peerIds), T)
<1>1. ASSUME NEW st, st.current_term \in Nat, st.voted_for \in Optional(Node),
             st.log \in Seq(LogEntry(T)), st.first_log_index \in Nat \ {0},
             st.snapshot \in Optional(Snapshot)
      PROVE  NodeOK(new_from_builder(i, st, peerIds), T)
    <2> DEFINE members == [p \in Node |-> IF p \in peerIds \cup {i} THEN 1 ELSE 0]
               applied == IF st.snapshot = None THEN 0 ELSE st.snapshot.last_included_index
               machine == IF st.snapshot = None THEN <<>> ELSE st.snapshot.data
    <2>1. members \in NodeCollections /\ new_collection \in NodeCollections
        BY DEF NodeCollections, new_collection
    <2>2. IsMap(new_map)
        BY DEF IsMap, new_map
    <2>3. no_messages \in [Node -> Seq(RaftMsg(T))]
        BY DEF no_messages
    <2>4. applied \in Nat /\ machine \in StateMachine
        BY <1>1 DEF Optional, Snapshot, StateMachine
    <2>5. ElectionTimeout \in Nat
        BY ContextAssumption
    <2> HIDE DEF members, applied, machine
    <2> DEFINE f == [id |-> i, role |-> Follower, current_leader |-> None,
         current_term |-> st.current_term, voted_for |-> st.voted_for, log |-> st.log,
         first_log_index |-> st.first_log_index, snapshot |-> st.snapshot,
         votes_received |-> new_collection, pre_votes_received |-> new_collection,
         in_pre_vote |-> FALSE, election_deadline |-> ElectionTimeout,
         heartbeat_deadline |-> None, next_index |-> new_map, match_index |-> new_map,
         catching_up_servers |-> {}, commit_index |-> 0, last_applied |-> applied,
         members |-> members, pending_change |-> None, state_machine |-> machine,
         lease |-> 0, outbox |-> no_messages]
    <2>6. DOMAIN f = NodeFields
        BY DEF NodeFields
    <2>7. NodeOK(f, T)
        BY <1>1, <2>1, <2>2, <2>3, <2>4, <2>5, <2>6 DEF NodeOK, Optional
    <2> QED BY <2>7 DEF new_from_builder, members, applied, machine
<1>2. NodeOK(new_from_builder(i, new_storage, peerIds), T)
    <2> DEFINE st == new_storage
    <2>1. st.current_term \in Nat /\ st.voted_for \in Optional(Node)
          /\ st.log \in Seq(LogEntry(T)) /\ st.first_log_index \in Nat \ {0}
          /\ st.snapshot \in Optional(Snapshot)
        BY DEF new_storage, Optional
    <2> QED BY <1>1, <2>1, Zenon
<1>3. ASSUME NEW n, NodeOK(n, T) PROVE NodeOK(new_from_builder(i, storage(n), peerIds), T)
    <2> DEFINE st == storage(n)
    <2>1. st.current_term \in Nat /\ st.voted_for \in Optional(Node)
          /\ st.log \in Seq(LogEntry(T)) /\ st.first_log_index \in Nat \ {0}
          /\ st.snapshot \in Optional(Snapshot)
        BY <1>3 DEF storage, NodeOK
    <2> QED BY <1>1, <2>1, Zenon
<1> QED BY <1>2, <1>3

\* Every message keeps the types of its receiver.
LEMMA HandleMessageType ==
    ASSUME NEW T \in EntryTypes, NEW n, NodeOK(n, T), NEW from \in Node,
           NEW m \in RaftMsg(T)
    PROVE  NodeOK(handle_message(n, from, m), T)
<1>1. m.term \in Nat
    BY DEF RaftMsg
<1>2. CASE m.type = "PreVoteRequest"
    BY <1>2, PreVoteRequestType DEF handle_message
<1>3. CASE m.type = "PreVoteResponse"
    BY <1>3, PreVoteResponseType DEF handle_message
<1>4. CASE m.type = "RequestVote"
    BY <1>1, <1>4, VoteRequestHandlerType DEF handle_message
<1>5. CASE m.type = "RequestVoteResponse"
    BY <1>1, <1>5, VoteResponseHandlerType DEF handle_message
<1>6. CASE m.type = "AppendEntries"
    <2>1. m \in AppendEntriesMsg(T)
        BY <1>6 DEF RaftMsg, AppendEntriesMsg
    <2>2. NodeOK(handle_append_entries(n, from, m), T)
        BY <2>1, AppendEntriesHandlerType, Zenon
    <2> QED BY <1>6, <2>2 DEF handle_message
<1>7. CASE m.type = "AppendEntriesResponse"
    <2>1. m \in AppendEntriesResponseMsg
        BY <1>7 DEF RaftMsg, AppendEntriesResponseMsg
    <2>2. NodeOK(handle_append_entries_response(n, from, m), T)
        BY <2>1, AppendEntriesResponseHandlerType, Zenon
    <2> QED BY <1>7, <2>2 DEF handle_message
<1>8. CASE m.type = "InstallSnapshot"
    <2>1. m \in SnapshotMsg
        BY <1>8 DEF RaftMsg, SnapshotMsg
    <2>2. NodeOK(handle_install_snapshot(n, from, m), T)
        BY <2>1, InstallSnapshotHandlerType, Zenon
    <2> QED BY <1>8, <2>2 DEF handle_message
<1>9. CASE m.type = "InstallSnapshotResponse"
    BY <1>1, <1>9, InstallSnapshotResponseHandlerType DEF handle_message
<1>10. m.type \in {"PreVoteRequest", "RequestVote", "PreVoteResponse",
                   "RequestVoteResponse", "AppendEntries", "AppendEntriesResponse",
                   "InstallSnapshot", "InstallSnapshotResponse"}
    BY DEF RaftMsg
<1> QED BY <1>2, <1>3, <1>4, <1>5, <1>6, <1>7, <1>8, <1>9, <1>10

-----------------------------------------------------------------------------
(* Sequences and outboxes                                                  *)

\* The entries of a sequence from position k on.
LEMMA SuffixProperties ==
    ASSUME NEW S, NEW s \in Seq(S), NEW k \in 1..Len(s)
    PROVE  /\ SubSeq(s, k, Len(s)) \in Seq(S)
           /\ Len(SubSeq(s, k, Len(s))) = Len(s) - k + 1
           /\ \A h \in 1..Len(SubSeq(s, k, Len(s))) :
                  SubSeq(s, k, Len(s))[h] = s[k + h - 1]
<1>1. k \in 1..Len(s) + 1 /\ Len(s) \in (k - 1)..Len(s)
    BY LenProperties
<1> QED BY <1>1, SubSeqProperties

\* The part of a sequence up to position k.
LEMMA PrefixProperties ==
    ASSUME NEW S, NEW s \in Seq(S), NEW k \in 0..Len(s)
    PROVE  /\ SubSeq(s, 1, k) \in Seq(S)
           /\ Len(SubSeq(s, 1, k)) = k
           /\ \A h \in 1..k : SubSeq(s, 1, k)[h] = s[h]
<1>1. k \in Int /\ \A i \in 1..k : s[i] \in S
    BY LenProperties
<1>2. /\ SubSeq(s, 1, k) \in Seq(S)
      /\ Len(SubSeq(s, 1, k)) = IF 1 <= k THEN k - 1 + 1 ELSE 0
      /\ \A i \in 1..k - 1 + 1 : SubSeq(s, 1, k)[i] = s[1 + i - 1]
    BY <1>1, SubSeqProperties
<1>3. \A i \in Int : 1 + i - 1 = i
    OBVIOUS
<1>4. k - 1 + 1 = k
    BY <1>1
<1> QED BY <1>1, <1>2, <1>3, <1>4

\* Entries follow those of the log, as many as the storage can hold.
LEMMA AppendedLog ==
    ASSUME NEW T, NEW n, NodeOK(n, T), NEW es \in Seq(LogEntry(T)),
           Len(n.log) <= LogCapacity
    PROVE  LET log == append_entries(n, es).log
           IN  /\ log \in Seq(LogEntry(T))
               /\ Len(log) = IF Len(n.log) + Len(es) <= LogCapacity
                             THEN Len(n.log) + Len(es) ELSE LogCapacity
               /\ \A k \in DOMAIN log :
                      IF k <= Len(n.log) THEN log[k] = n.log[k]
                      ELSE /\ k - Len(n.log) \in DOMAIN es
                           /\ log[k] = es[k - Len(n.log)]
<1> DEFINE all == n.log \o es
           cut == Min({Len(all), LogCapacity})
           log == append_entries(n, es).log
<1>1. /\ n.log \in Seq(LogEntry(T)) /\ Len(n.log) \in Nat /\ Len(es) \in Nat
      /\ DOMAIN es = 1..Len(es)
      /\ LogCapacity \in Nat
    BY ContextAssumption DEF NodeOK
<1>2. all \in Seq(LogEntry(T)) /\ Len(all) = Len(n.log) + Len(es)
      /\ \A k \in 1..Len(all) : all[k] = IF k <= Len(n.log) THEN n.log[k]
                                         ELSE es[k - Len(n.log)]
    BY <1>1, ConcatProperties
<1> HIDE DEF all
<1>3. cut = IF Len(all) <= LogCapacity THEN Len(all) ELSE LogCapacity
    <2>1. Len(all) \in Int /\ LogCapacity \in Int
        BY <1>1, <1>2
    <2> QED BY <2>1, MinOfTwo, Zenon
<1>4. log = SubSeq(all, 1, cut)
    BY DEF append_entries, NodeOK, NodeFields, all
<1> HIDE DEF cut, log
<1>5. cut \in 0..Len(all)
    BY <1>1, <1>2, <1>3
<1>6. log \in Seq(LogEntry(T)) /\ Len(log) = cut /\ \A k \in 1..cut : log[k] = all[k]
    BY <1>2, <1>4, <1>5, PrefixProperties
<1>7. ASSUME NEW k \in DOMAIN log
      PROVE  IF k <= Len(n.log) THEN log[k] = n.log[k]
             ELSE k - Len(n.log) \in DOMAIN es /\ log[k] = es[k - Len(n.log)]
    <2>1. k \in 1..cut
        BY <1>6
    <2>2. k \in 1..Len(all) /\ log[k] = all[k]
        BY <1>2, <1>5, <1>6, <2>1
    <2>3. k > Len(n.log) => k - Len(n.log) \in 1..Len(es)
        BY <1>1, <1>2, <2>2
    <2> QED BY <1>1, <1>2, <2>2, <2>3
<1>8. Len(log) = IF Len(n.log) + Len(es) <= LogCapacity
                 THEN Len(n.log) + Len(es) ELSE LogCapacity
    BY <1>2, <1>3, <1>6
<1> QED BY <1>6, <1>7, <1>8 DEF log

\* What is in the outbox after a message was sent to every peer.
LEMMA SentToPeers ==
    ASSUME NEW T, NEW n, NodeOK(n, T), NEW msg \in [Node -> RaftMsg(T)]
    PROVE  LET b == send_to_peers(n, msg)
           IN  /\ b = [n EXCEPT !.outbox = b.outbox]
               /\ \A q \in Node : \A k \in DOMAIN b.outbox[q] :
                      \/ k \in DOMAIN n.outbox[q] /\ b.outbox[q][k] = n.outbox[q][k]
                      \/ q # n.id /\ b.outbox[q][k] = msg[q]
<1> DEFINE b == send_to_peers(n, msg)
<1>1. n.outbox \in [Node -> Seq(RaftMsg(T))] /\ n.members \in [Node -> Nat]
    BY DEF NodeOK, NodeCollections
<1> DEFINE out == [q \in Node |-> IF q \in peers(n.members, n.id)
                                  THEN n.outbox[q] \o [k \in 1..n.members[q] |-> msg[q]]
                                  ELSE n.outbox[q]]
<1>2. b.outbox = out /\ b = [n EXCEPT !.outbox = out]
    <2>1. b = [n EXCEPT !.outbox = out]
        BY DEF send_to_peers
    <2> HIDE DEF out, b
    <2> QED BY <2>1 DEF NodeOK, NodeFields
<1> HIDE DEF b
<1>3. ASSUME NEW q \in Node, NEW k \in DOMAIN b.outbox[q]
      PROVE  \/ k \in DOMAIN n.outbox[q] /\ b.outbox[q][k] = n.outbox[q][k]
             \/ q # n.id /\ b.outbox[q][k] = msg[q]
    <2>1. CASE q \notin peers(n.members, n.id)
        BY <1>2, <1>3, <2>1
    <2>2. CASE q \in peers(n.members, n.id)
        <3> DEFINE old == n.outbox[q]
                   add == [j \in 1..n.members[q] |-> msg[q]]
        <3>1. b.outbox[q] = old \o add
            BY <1>2, <2>2
        <3>2. old \in Seq(RaftMsg(T)) /\ add \in Seq(RaftMsg(T)) /\ Len(add) = n.members[q]
            <4>1. n.members[q] \in Nat /\ msg[q] \in RaftMsg(T) /\ old \in Seq(RaftMsg(T))
                BY <1>1
            <4> HIDE DEF old
            <4> QED BY <4>1
        <3>3. \A j \in 1..Len(add) : add[j] = msg[q]
            BY <3>2
        <3> HIDE DEF old, add
        <3>4. k \in 1..(Len(old) + Len(add)) /\ DOMAIN old = 1..Len(old)
            BY <1>3, <3>1, <3>2
        <3>5. CASE k \in 1..Len(old)
            <4>1. (old \o add)[k] = old[k]
                BY <3>2, <3>5
            <4> QED BY <3>1, <3>4, <3>5, <4>1 DEF old
        <3>6. CASE k \notin 1..Len(old)
            <4>1. k - Len(old) \in 1..Len(add) /\ (old \o add)[k] = add[k - Len(old)]
                <5>1. Len(old) \in Nat /\ Len(add) \in Nat
                    BY <3>2
                <5>2. k \in Int /\ k > Len(old) /\ k - Len(old) \in 1..Len(add)
                    BY <3>4, <3>6, <5>1
                <5> QED BY <3>2, <3>4, <5>1, <5>2
            <4>2. q # n.id
                BY <2>2 DEF peers
            <4>3. b.outbox[q][k] = msg[q]
                BY <3>1, <3>3, <4>1
            <4> QED BY <4>2, <4>3
        <3> QED BY <3>5, <3>6
    <2> QED BY <2>1, <2>2
<1>4. b = [n EXCEPT !.outbox = b.outbox]
    BY <1>2
<1> QED BY <1>3, <1>4 DEF b

-----------------------------------------------------------------------------
(* Elections: every handler is Quiet as far as a node's term, its vote, its *)
(* role, the votes it has counted and the election messages it sends go,    *)
(* except that an election may start, a vote be given and a vote counted.   *)

\* The election messages in the outbox of b were there in a.
NothingElectoral(a, b) ==
    \A p \in Node : \A k \in DOMAIN b.outbox[p] :
        Electoral(b.outbox[p][k]) =>
            k \in DOMAIN a.outbox[p] /\ b.outbox[p][k] = a.outbox[p][k]

\* With entries that are all commands, the configuration is the same.
SameMembers(a, b, T) == T = Command => b.members = a.members

\* Nothing about elections changes, except that b may have stopped to stand.
Kept(a, b, T) ==
    /\ b.id = a.id
    /\ b.current_term = a.current_term
    /\ b.voted_for = a.voted_for
    /\ b.votes_received = a.votes_received
    /\ b.role \in {a.role, Follower}
    /\ SameMembers(a, b, T)
    /\ NothingElectoral(a, b)

\* The node may also have adopted a higher term, as a follower.
Quiet(a, b, T) ==
    /\ b.id = a.id
    /\ b.current_term >= a.current_term
    /\ b.current_term = a.current_term =>
           /\ b.voted_for = a.voted_for
           /\ b.role # Follower => b.role = a.role /\ b.votes_received = a.votes_received
    /\ b.current_term > a.current_term => b.role = Follower
    /\ SameMembers(a, b, T)
    /\ NothingElectoral(a, b)

\* Kept composes with itself.
LEMMA KeptKept ==
    ASSUME NEW T, NEW a, NEW b, NEW c, Kept(a, b, T), Kept(b, c, T)
    PROVE  Kept(a, c, T)
<1>1. NothingElectoral(a, c)
    BY DEF Kept, NothingElectoral
<1> QED BY <1>1 DEF Kept, SameMembers

\* A node that is kept after a quiet step, or before it, is quiet.
LEMMA QuietKept ==
    ASSUME NEW T, NEW a, NEW b, NEW c, Quiet(a, b, T), Kept(b, c, T)
    PROVE  Quiet(a, c, T)
<1>1. NothingElectoral(a, c)
    BY DEF Quiet, Kept, NothingElectoral
<1>2. SameMembers(a, c, T)
    BY DEF Quiet, Kept, SameMembers
<1> QED BY <1>1, <1>2 DEF Quiet, Kept

\* Keeping everything is quiet.
LEMMA KeptIsQuiet ==
    ASSUME NEW T, NEW a, NEW b, NodeOK(a, T), Kept(a, b, T)
    PROVE  Quiet(a, b, T)
BY DEF NodeOK, Kept, Quiet, Follower, Candidate, Leader

\* A node keeps itself.
LEMMA KeptRefl ==
    ASSUME NEW T, NEW a
    PROVE  Kept(a, a, T)
BY DEF Kept, SameMembers, NothingElectoral

-----------------------------------------------------------------------------
(* RaftContext                                                             *)

\* Storage, timers and lease are no part of an election.
LEMMA StorageKept ==
    ASSUME NEW T, NEW n, NodeOK(n, T)
    PROVE  /\ \A es : Kept(n, append_entries(n, es), T)
           /\ \A k : Kept(n, truncate_after(n, k), T)
           /\ \A k : Kept(n, discard_entries_before(n, k), T)
           /\ \A k, es : Kept(n, replace_suffix(n, k, es), T)
           /\ Kept(n, reset_election_timer(n), T)
           /\ Kept(n, reset_heartbeat_timer(n), T)
           /\ Kept(n, stop_timers(n), T)
           /\ Kept(n, grant(n), T)
           /\ Kept(n, revoke(n), T)
           /\ \A t : Kept(n, reset_election_timer_if_valid_term(n, t), T)
<1>1. \A log : Kept(n, [n EXCEPT !.log = log], T)
    BY DEF NodeOK, NodeFields, Kept, SameMembers, NothingElectoral
<1>2. \A log, k : Kept(n, [n EXCEPT !.log = log, !.first_log_index = k], T)
    BY DEF NodeOK, NodeFields, Kept, SameMembers, NothingElectoral
<1>3. \A es : Kept(n, append_entries(n, es), T)
    BY <1>1 DEF append_entries
<1>4. \A k : Kept(n, truncate_after(n, k), T)
    BY <1>1 DEF truncate_after
<1>5. \A k : Kept(n, discard_entries_before(n, k), T)
    BY <1>2, KeptRefl DEF discard_entries_before
<1>6. \A k, es : Kept(n, replace_suffix(n, k, es), T)
    <2>1. ASSUME NEW log, NEW other
          PROVE  Kept(n, [[n EXCEPT !.log = log] EXCEPT !.log = other], T)
        BY DEF NodeOK, NodeFields, Kept, SameMembers, NothingElectoral
    <2>2. \A k, es : Kept(n, append_entries(truncate_after(n, k), es), T)
        BY <2>1 DEF append_entries, truncate_after
    <2> QED BY <1>3, <2>2, KeptRefl DEF replace_suffix
<1>7. /\ Kept(n, reset_election_timer(n), T)
      /\ Kept(n, reset_heartbeat_timer(n), T)
      /\ Kept(n, stop_timers(n), T)
      /\ Kept(n, grant(n), T)
      /\ Kept(n, revoke(n), T)
    BY DEF NodeOK, NodeFields, Kept, SameMembers, NothingElectoral, reset_election_timer,
           reset_heartbeat_timer, stop_timers, grant, revoke
<1>8. \A t : Kept(n, reset_election_timer_if_valid_term(n, t), T)
    BY <1>7, KeptRefl DEF reset_election_timer_if_valid_term
<1> QED BY <1>3, <1>4, <1>5, <1>6, <1>7, <1>8

\* A message that is no election message may be sent.
LEMMA SendKept ==
    ASSUME NEW T, NEW n, NodeOK(n, T), NEW p \in Node, NEW m \in RaftMsg(T),
           ~Electoral(m)
    PROVE  Kept(n, send(n, p, m), T)
<1> DEFINE b == send(n, p, m)
<1>1. n.outbox \in [Node -> Seq(RaftMsg(T))]
    BY DEF NodeOK
<1>2. b.outbox = [n.outbox EXCEPT ![p] = Append(@, m)]
    BY DEF send, NodeOK, NodeFields
<1>3. ASSUME NEW q \in Node, NEW k \in DOMAIN b.outbox[q], Electoral(b.outbox[q][k])
      PROVE  k \in DOMAIN n.outbox[q] /\ b.outbox[q][k] = n.outbox[q][k]
    <2>1. CASE q # p
        BY <1>1, <1>2, <2>1
    <2>2. CASE q = p
        <3>1. b.outbox[q] = Append(n.outbox[q], m) /\ n.outbox[q] \in Seq(RaftMsg(T))
            BY <1>1, <1>2, <2>2
        <3>2. DOMAIN Append(n.outbox[q], m) = 1..(Len(n.outbox[q]) + 1)
              /\ DOMAIN n.outbox[q] = 1..Len(n.outbox[q])
            BY <3>1
        <3>3. k \in 1..(Len(n.outbox[q]) + 1)
            BY <3>1, <3>2, <1>3
        <3>4. CASE k = Len(n.outbox[q]) + 1
            <4>1. b.outbox[q][k] = m
                BY <3>1, <3>4
            <4> QED BY <4>1, <1>3
        <3>5. CASE k # Len(n.outbox[q]) + 1
            BY <3>1, <3>2, <3>3, <3>5
        <3> QED BY <3>4, <3>5
    <2> QED BY <2>1, <2>2
<1>4. NothingElectoral(n, b)
    BY <1>3 DEF NothingElectoral
<1>5. b.id = n.id /\ b.current_term = n.current_term /\ b.voted_for = n.voted_for
      /\ b.votes_received = n.votes_received /\ b.role = n.role /\ b.members = n.members
    BY DEF send, NodeOK, NodeFields
<1> HIDE DEF b
<1>6. Kept(n, b, T)
    BY <1>4, <1>5 DEF Kept, SameMembers
<1> QED BY <1>6 DEF b

\* Messages that are no election messages may be sent to the peers.
LEMMA SendToPeersKept ==
    ASSUME NEW T, NEW n, NodeOK(n, T), NEW msg \in [Node -> RaftMsg(T)],
           \A p \in Node : ~Electoral(msg[p])
    PROVE  Kept(n, send_to_peers(n, msg), T) /\ send_to_peers(n, msg).role = n.role
<1> DEFINE b == send_to_peers(n, msg)
<1>1. n.outbox \in [Node -> Seq(RaftMsg(T))] /\ n.members \in [Node -> Nat]
    BY DEF NodeOK, NodeCollections
<1> DEFINE out == [q \in Node |-> IF q \in peers(n.members, n.id)
                                  THEN n.outbox[q] \o [k \in 1..n.members[q] |-> msg[q]]
                                  ELSE n.outbox[q]]
<1>2. b.outbox = out /\ b = [n EXCEPT !.outbox = out]
    <2>1. b = [n EXCEPT !.outbox = out]
        BY DEF send_to_peers
    <2> HIDE DEF out, b
    <2> QED BY <2>1 DEF NodeOK, NodeFields
<1>3. ASSUME NEW q \in Node, NEW k \in DOMAIN b.outbox[q], Electoral(b.outbox[q][k])
      PROVE  k \in DOMAIN n.outbox[q] /\ b.outbox[q][k] = n.outbox[q][k]
    <2>1. CASE q \notin peers(n.members, n.id)
        BY <1>2, <1>3, <2>1
    <2>2. CASE q \in peers(n.members, n.id)
        <3> DEFINE old == n.outbox[q]
                   add == [j \in 1..n.members[q] |-> msg[q]]
        <3>1. b.outbox[q] = old \o add
            BY <1>2, <2>2
        <3>2. old \in Seq(RaftMsg(T)) /\ add \in Seq(RaftMsg(T)) /\ Len(add) = n.members[q]
            <4>1. n.members[q] \in Nat /\ msg[q] \in RaftMsg(T) /\ old \in Seq(RaftMsg(T))
                BY <1>1
            <4> HIDE DEF old
            <4> QED BY <4>1
        <3>3. \A j \in 1..Len(add) : add[j] = msg[q]
            BY <3>2
        <3> HIDE DEF old, add
        <3>4. k \in 1..(Len(old) + Len(add)) /\ DOMAIN old = 1..Len(old)
            BY <1>3, <3>1, <3>2
        <3>5. CASE k \in 1..Len(old)
            <4>1. (old \o add)[k] = old[k]
                BY <3>2, <3>5
            <4> QED BY <3>1, <3>4, <3>5, <4>1 DEF old
        <3>6. CASE k \notin 1..Len(old)
            <4>1. k - Len(old) \in 1..Len(add) /\ (old \o add)[k] = add[k - Len(old)]
                BY <3>2, <3>4, <3>6
            <4> QED BY <1>3, <3>1, <3>3, <4>1
        <3> QED BY <3>5, <3>6
    <2> QED BY <2>1, <2>2
<1>4. NothingElectoral(n, b)
    BY <1>3 DEF NothingElectoral
<1>5. b.id = n.id /\ b.current_term = n.current_term /\ b.voted_for = n.voted_for
      /\ b.votes_received = n.votes_received /\ b.role = n.role /\ b.members = n.members
    <2> HIDE DEF out, b
    <2> QED BY <1>2 DEF NodeOK, NodeFields
<1> HIDE DEF b
<1>6. Kept(n, b, T) /\ b.role = n.role
    BY <1>4, <1>5 DEF Kept, SameMembers
<1> QED BY <1>6 DEF b

\* step_down to a higher term is quiet.
LEMMA StepDownQuiet ==
    ASSUME NEW T, NEW n, NodeOK(n, T), NEW t \in Nat, t > n.current_term
    PROVE  Quiet(n, step_down(n, t), T)
BY DEF NodeOK, NodeFields, Quiet, SameMembers, NothingElectoral, step_down, revoke,
       reset_election_timer

-----------------------------------------------------------------------------
(* ConfigChange and LogReplication                                         *)

\* apply_changes takes the node off the configuration at most: it may lose
\* its role, and without changes it keeps its configuration.
LEMMA ApplyChangesKept ==
    ASSUME NEW T, NEW n, DOMAIN n = NodeFields, n.members \in NodeCollections,
           NEW changes, T = Command => DOMAIN changes = {}
    PROVE  Kept(n, apply_changes(n, changes), T)
<1> DEFINE b == apply_changes(n, changes)
           adds(p)    == {k \in DOMAIN changes : changes[k] = AddServer(p)}
           removes(p) == {k \in DOMAIN changes : changes[k] = RemoveServer(p)}
<1>1. b.members = [p \in Node |->
                      IF removes(p) = {} THEN n.members[p] + Cardinality(adds(p))
                      ELSE Cardinality({k \in adds(p) : k > Max(removes(p))})]
    BY DEF apply_changes, NodeFields
<1>2. b.id = n.id /\ b.current_term = n.current_term /\ b.voted_for = n.voted_for
      /\ b.votes_received = n.votes_received /\ b.outbox = n.outbox
      /\ b.role = IF removes(n.id) # {} THEN Follower ELSE n.role
    BY DEF apply_changes, NodeFields
<1> HIDE DEF b
<1>3. ASSUME T = Command PROVE b.members = n.members
    <2>1. n.members \in [Node -> Nat]
        BY DEF NodeCollections
    <2>2. \A p \in Node : removes(p) = {} /\ adds(p) = {}
        BY <1>3
    <2>3. Cardinality({}) = 0
        BY FS_EmptySet
    <2>4. \A p \in Node : b.members[p] = n.members[p] + Cardinality({})
        BY <1>1, <2>2
    <2>5. \A p \in Node : b.members[p] = n.members[p]
        BY <2>1, <2>3, <2>4
    <2>6. DOMAIN b.members = Node /\ b.members = [p \in Node |-> b.members[p]]
        BY <1>1
    <2>7. b.members = [p \in Node |-> n.members[p]]
        BY <2>5, <2>6
    <2> QED BY <2>1, <2>7
<1>4. Kept(n, b, T)
    BY <1>2, <1>3 DEF Kept, SameMembers, NothingElectoral
<1> QED BY <1>4 DEF b

\* Applying committed entries is no part of an election.
LEMMA ApplyCommittedKept ==
    ASSUME NEW T \in EntryTypes, NEW n, NodeOK(n, T)
    PROVE  Kept(n, apply_committed_entries(n), T)
<1> DEFINE new     == {k \in (n.last_applied + 1)..n.commit_index : has_entry(n, k)}
           entry   == [k \in new |-> get_entry(n, k).entry_type]
           changes == {k \in new : entry[k] \in ConfigurationChange}
           applied(k) == IF k \in new THEN IF k \in changes THEN None ELSE entry[k]
                         ELSE IF k \in DOMAIN n.state_machine
                         THEN n.state_machine[k] ELSE None
           upTo    == Max({Len(n.state_machine), n.commit_index})
           machine == [k \in 1..upTo |-> applied(k)]
           a       == [n EXCEPT !.last_applied = n.commit_index,
                                !.state_machine = machine]
           config  == [k \in changes |-> entry[k]]
<1>1. ASSUME n.last_applied < n.commit_index PROVE Kept(n, apply_changes(a, config), T)
    <2>1. T = Command => DOMAIN config = {}
        <3> SUFFICES ASSUME T = Command, NEW k \in changes PROVE FALSE
            OBVIOUS
        <3>1. k \in Int /\ has_entry(n, k)
            BY DEF NodeOK
        <3>2. get_entry(n, k) \in LogEntry(T)
            BY <3>1, GetEntryType
        <3>3. get_entry(n, k).entry_type \in Command \cap ConfigurationChange
            BY <3>2 DEF LogEntry
        <3> QED BY <3>3, ContextAssumption
    <2> HIDE DEF machine, config
    <2>2. Kept(n, a, T)
        BY DEF NodeOK, NodeFields, Kept, SameMembers, NothingElectoral
    <2>3. DOMAIN a = NodeFields /\ a.members \in NodeCollections
        BY DEF NodeOK, NodeFields
    <2> HIDE DEF a
    <2>4. Kept(a, apply_changes(a, config), T)
        BY <2>1, <2>3, ApplyChangesKept, Zenon
    <2> QED BY <2>2, <2>4, KeptKept, Zenon
<1>2. apply_committed_entries(n) = IF n.last_applied >= n.commit_index THEN n
                                    ELSE apply_changes(a, config)
    BY DEF apply_committed_entries
<1> HIDE DEF a, config
<1> QED BY <1>1, <1>2, KeptRefl DEF NodeOK

\* The indices and the snapshot of a node are no part of an election.
LEMMA IndicesKept ==
    ASSUME NEW T, NEW n, NodeOK(n, T)
    PROVE  /\ \A k : Kept(n, [n EXCEPT !.commit_index = k], T)
           /\ \A s : Kept(n, [n EXCEPT !.snapshot = s], T)
           /\ \A s, c, l : Kept(n, [n EXCEPT !.state_machine = s, !.commit_index = c,
                                             !.last_applied = l], T)
           /\ \A p, v, w : /\ Kept(n, [n EXCEPT !.match_index = insert(@, p, v),
                                                !.next_index = insert(@, p, w)], T)
                           /\ Kept(n, [n EXCEPT !.next_index = insert(@, p, w),
                                                !.match_index = insert(@, p, v)], T)
                           /\ Kept(n, [n EXCEPT !.next_index = insert(@, p, w)], T)
           /\ \A p : Kept(n, check_and_promote_caught_up_server(n, p), T)
           /\ \A p : Kept(n, [n EXCEPT !.current_leader = p], T)
           /\ \A k : Kept(n, [n EXCEPT !.pending_change = k], T)
           /\ Kept(n, [n EXCEPT !.role = Follower], T)
BY DEF NodeOK, NodeFields, Kept, SameMembers, NothingElectoral,
       check_and_promote_caught_up_server

\* Advancing the commit index is no part of an election.
LEMMA AdvanceCommitKept ==
    ASSUME NEW T \in EntryTypes, NEW n, NodeOK(n, T)
    PROVE  Kept(n, advance_commit_index(n), T)
<1> DEFINE new_commit == compute_median(n.match_index, last_log_index(n),
                                        n.members, n.catching_up_servers, n.id)
           a == [n EXCEPT !.commit_index = new_commit]
<1>1. new_commit \in Nat
    <2>1. IsMap(n.match_index) /\ n.members \in NodeCollections /\ n.id \in Node
          /\ last_log_index(n) \in Nat
        BY LastLogType DEF NodeOK
    <2> QED BY <2>1, MedianType, Zenon
<1> HIDE DEF new_commit
<1>2. NodeOK(a, T) /\ Kept(n, a, T)
    BY <1>1, IndicesKept DEF NodeOK, NodeFields
<1> HIDE DEF a
<1>3. Kept(a, apply_committed_entries(a), T)
    BY <1>2, ApplyCommittedKept, Zenon
<1>4. Kept(n, apply_committed_entries(a), T)
    BY <1>2, <1>3, KeptKept, Zenon
<1>5. advance_commit_index(n) \in {n, apply_committed_entries(a)}
    BY DEF advance_commit_index, a, new_commit
<1> QED BY <1>4, <1>5, KeptRefl

\* Taking a snapshot is no part of an election.
LEMMA CreateSnapshotKept ==
    ASSUME NEW T, NEW n, NodeOK(n, T)
    PROVE  Kept(n, create_snapshot(n), T)
BY DEF NodeOK, NodeFields, Kept, SameMembers, NothingElectoral, create_snapshot,
       discard_entries_before

\* Appending a leader's entries is no part of an election.
LEMMA TryAppendKept ==
    ASSUME NEW T \in EntryTypes, NEW n, NodeOK(n, T), NEW m \in AppendEntriesMsg(T)
    PROVE  Kept(n, try_append_entries(n, m), T)
<1> DEFINE a == replace_suffix(n, m.prev_log_index, m.entries)
           c == Min({m.leader_commit, last_log_index(a)})
           b == [a EXCEPT !.commit_index = c]
<1>1. m.prev_log_index \in Nat /\ m.entries \in Seq(LogEntry(T)) /\ m.leader_commit \in Nat
    BY DEF AppendEntriesMsg
<1>2. NodeOK(a, T) /\ Kept(n, a, T)
    BY <1>1, ReplaceSuffixType, StorageKept, Zenon
<1> HIDE DEF a
<1>3. last_log_index(a) \in Nat
    BY <1>2, LastLogType, Zenon
<1>4. c \in Nat
    <2>1. m.leader_commit \in Int /\ last_log_index(a) \in Int
        BY <1>1, <1>3
    <2>2. c = IF m.leader_commit <= last_log_index(a) THEN m.leader_commit
              ELSE last_log_index(a)
        BY <2>1, MinOfTwo, Zenon
    <2> QED BY <1>1, <1>3, <2>2
<1> HIDE DEF c
<1>5. NodeOK(b, T)
    BY <1>2, <1>4 DEF NodeOK, NodeFields
<1>6. Kept(a, b, T)
    BY <1>2, IndicesKept, Zenon
<1> HIDE DEF b
<1>7. Kept(b, apply_committed_entries(b), T)
    BY <1>5, ApplyCommittedKept, Zenon
<1>8. Kept(n, apply_committed_entries(b), T)
    BY <1>2, <1>6, <1>7, KeptKept, Zenon
<1>9. try_append_entries(n, m) \in {apply_committed_entries(b), a}
    BY DEF try_append_entries, a, b, c
<1> QED BY <1>2, <1>8, <1>9

\* Replicating to the followers is no part of an election.
LEMMA SendAppendEntriesKept ==
    ASSUME NEW T, NEW n, NodeOK(n, T)
    PROVE  /\ Kept(n, send_append_entries_to_followers(n), T)
           /\ send_append_entries_to_followers(n).role = n.role
<1> DEFINE msg == [p \in Node |-> get_append_entries_for_peer(n, p)]
<1>1. msg \in [Node -> RaftMsg(T)]
    BY MessageForPeerType
<1>2. \A p \in Node : ~Electoral(msg[p])
    BY DEF Electoral, get_append_entries_for_peer, get_append_entries_for_follower
<1> HIDE DEF msg
<1>3. Kept(n, send_to_peers(n, msg), T) /\ send_to_peers(n, msg).role = n.role
    BY <1>1, <1>2, SendToPeersKept, Zenon
<1> QED BY <1>3 DEF msg, send_append_entries_to_followers

\* A heartbeat is quiet.
LEMMA HeartbeatQuiet ==
    ASSUME NEW T, NEW n, NodeOK(n, T)
    PROVE  Quiet(n, handle_heartbeat_timer(n), T)
<1> DEFINE a == send_append_entries_to_followers(n)
<1>1. NodeOK(a, T) /\ Kept(n, a, T)
    BY SendAppendEntriesType, SendAppendEntriesKept, Zenon
<1> HIDE DEF a
<1>2. Kept(a, reset_heartbeat_timer(a), T)
    BY <1>1, StorageKept, Zenon
<1>3. Kept(n, reset_heartbeat_timer(a), T)
    BY <1>1, <1>2, KeptKept, Zenon
<1>4. handle_heartbeat_timer(n) \in {n, reset_heartbeat_timer(a)}
    BY DEF handle_heartbeat_timer, send_heartbeats, a
<1>5. Kept(n, handle_heartbeat_timer(n), T)
    BY <1>3, <1>4, KeptRefl
<1> QED BY <1>5, KeptIsQuiet, Zenon

\* AppendEntries is quiet.
LEMMA AppendEntriesQuiet ==
    ASSUME NEW T \in EntryTypes, NEW n, NodeOK(n, T), NEW from \in Node,
           NEW m \in AppendEntriesMsg(T)
    PROVE  Quiet(n, handle_append_entries(n, from, m), T)
<1>1. m.term \in Nat
    BY DEF AppendEntriesMsg
<1>2. m.term > n.current_term => Quiet(n, step_down(n, m.term), T)
    BY <1>1, StepDownQuiet, Zenon
<1> DEFINE r == reset_election_timer_if_valid_term(n, m.term)
           h == [r EXCEPT !.current_leader = from]
           a == IF m.term = h.current_term /\ h.role = Candidate
                THEN [h EXCEPT !.role = Follower] ELSE h
           success == /\ m.term >= h.current_term
                      /\ check_log_consistency(a, m.prev_log_index, m.prev_log_term)
           b == IF success THEN try_append_entries(a, m) ELSE a
           answer == [type |-> "AppendEntriesResponse", term |-> b.current_term,
                      success |-> success, match_index |-> last_log_index(b)]
<1>3. NodeOK(r, T) /\ Kept(n, r, T)
    BY <1>1, ResetIfValidType, StorageKept, Zenon
<1> HIDE DEF r
<1>4. NodeOK(h, T)
    BY <1>3 DEF NodeOK, NodeFields, Optional
<1>5. Kept(r, h, T)
    BY <1>3, IndicesKept, Zenon
<1> HIDE DEF h
<1>6. NodeOK(a, T)
    BY <1>4 DEF NodeOK, NodeFields
<1>7. Kept(h, a, T)
    BY <1>4, IndicesKept, KeptRefl
<1> HIDE DEF a
<1>8. NodeOK(try_append_entries(a, m), T) /\ Kept(a, try_append_entries(a, m), T)
    BY <1>6, TryAppendType, TryAppendKept, Zenon
<1>9. NodeOK(b, T) /\ Kept(a, b, T) /\ success \in BOOLEAN
    BY <1>6, <1>8, KeptRefl
<1> HIDE DEF b, success
<1>10. b.current_term \in Nat /\ last_log_index(b) \in Nat
    BY <1>9, LastLogType DEF NodeOK
<1>11. answer \in RaftMsg(T) /\ ~Electoral(answer)
    BY <1>9, <1>10 DEF RaftMsg, Electoral
<1> HIDE DEF answer
<1>12. Kept(b, send(b, from, answer), T)
    BY <1>9, <1>11, SendKept, Zenon
<1>13. Kept(n, h, T)
    BY <1>3, <1>5, KeptKept, Zenon
<1>14. Kept(n, a, T)
    BY <1>13, <1>7, KeptKept, Zenon
<1>15. Kept(n, b, T)
    BY <1>14, <1>9, KeptKept, Zenon
<1>16. Kept(n, send(b, from, answer), T)
    BY <1>15, <1>12, KeptKept, Zenon
<1>17. Quiet(n, send(b, from, answer), T)
    BY <1>16, KeptIsQuiet, Zenon
<1>18. handle_append_entries(n, from, m) =
           IF m.term > n.current_term THEN step_down(n, m.term) ELSE send(b, from, answer)
    BY DEF handle_append_entries, replication_handle_append_entries, answer, b, success,
           a, h, r
<1> QED BY <1>2, <1>17, <1>18

\* An answer to AppendEntries is quiet.
LEMMA AppendEntriesResponseQuiet ==
    ASSUME NEW T \in EntryTypes, NEW n, NodeOK(n, T), NEW from \in Node,
           NEW m \in AppendEntriesResponseMsg
    PROVE  Quiet(n, handle_append_entries_response(n, from, m), T)
<1>1. m.term \in Nat /\ m.match_index \in Nat /\ m.match_index + 1 \in Nat
      /\ m.success \in BOOLEAN
    BY DEF AppendEntriesResponseMsg
<1>2. m.term > n.current_term => Quiet(n, step_down(n, m.term), T)
    BY <1>1, StepDownQuiet, Zenon
<1> DEFINE next == get(n.next_index, from, 1)
           s == [n EXCEPT !.match_index = insert(@, from, m.match_index),
                          !.next_index = insert(@, from, m.match_index + 1)]
           p == check_and_promote_caught_up_server(s, from)
           d == [n EXCEPT !.next_index = insert(@, from, next - 1)]
           a == replication_handle_append_entries_response(n, from, m)
<1>3. NodeOK(s, T) /\ Kept(n, s, T)
    BY <1>1, SetIndicesType, IndicesKept, Zenon
<1> HIDE DEF s
<1>4. NodeOK(p, T) /\ Kept(s, p, T)
    BY <1>3, PromoteType, IndicesKept, Zenon
<1> HIDE DEF p
<1>5. NodeOK(advance_commit_index(p), T) /\ Kept(p, advance_commit_index(p), T)
    BY <1>4, AdvanceCommitType, AdvanceCommitKept, Zenon
<1>6. Kept(n, advance_commit_index(p), T)
    BY <1>3, <1>4, <1>5, KeptKept, Zenon
<1>7. next \in Nat
    BY DEF NodeOK, IsMap, get
<1>8. Kept(n, d, T) /\ (next > 1 => NodeOK(d, T))
    <2>1. next > 1 => next - 1 \in Nat
        BY <1>7
    <2> HIDE DEF next
    <2> QED BY <2>1, <1>1, SetIndicesType, IndicesKept, Zenon
<1> HIDE DEF next, d
<1>9. NodeOK(a, T) /\ Kept(n, a, T)
    <2>1. CASE m.success /\ m.match_index > get(n.match_index, from, 0)
        <3>1. a = advance_commit_index(p)
            BY <2>1 DEF replication_handle_append_entries_response, p, s
        <3> QED BY <3>1, <1>5, <1>6
    <2>2. CASE ~m.success /\ next > 1
        <3>1. a = d
            BY <2>2 DEF replication_handle_append_entries_response, next, d
        <3> QED BY <3>1, <1>8, <2>2
    <2>3. CASE ~(m.success /\ m.match_index > get(n.match_index, from, 0))
               /\ ~(~m.success /\ next > 1)
        <3>1. a = n
            BY <2>3 DEF replication_handle_append_entries_response, next
        <3> QED BY <3>1, KeptRefl
    <2> QED BY <2>1, <2>2, <2>3
<1> HIDE DEF a
<1>10. NodeOK(grant(a), T) /\ Kept(a, grant(a), T)
    BY <1>9, TimerType, StorageKept, Zenon
<1>11. Kept(grant(a), create_snapshot(grant(a)), T)
    BY <1>10, CreateSnapshotKept, Zenon
<1>12. Kept(n, grant(a), T) /\ Kept(n, create_snapshot(grant(a)), T)
    BY <1>9, <1>10, <1>11, KeptKept, Zenon
<1>13. Quiet(n, n, T) /\ Quiet(n, a, T) /\ Quiet(n, grant(a), T)
       /\ Quiet(n, create_snapshot(grant(a)), T)
    BY <1>9, <1>12, KeptRefl, KeptIsQuiet, Zenon
<1>14. IF m.term > n.current_term
       THEN handle_append_entries_response(n, from, m) = step_down(n, m.term)
       ELSE handle_append_entries_response(n, from, m) \in
                {n, a, grant(a), create_snapshot(grant(a))}
    BY DEF handle_append_entries_response, a
<1> QED BY <1>2, <1>13, <1>14

\* Installing a snapshot is no part of an election.
LEMMA InstallKept ==
    ASSUME NEW T, NEW n, NodeOK(n, T), NEW m
    PROVE  Kept(n, install(n, m), T)
BY DEF NodeOK, NodeFields, Kept, SameMembers, NothingElectoral, install,
       discard_entries_before

\* InstallSnapshot is quiet.
LEMMA InstallSnapshotQuiet ==
    ASSUME NEW T, NEW n, NodeOK(n, T), NEW from \in Node, NEW m \in SnapshotMsg
    PROVE  Quiet(n, handle_install_snapshot(n, from, m), T)
<1>1. m.term \in Nat
    BY DEF SnapshotMsg
<1> DEFINE r == reset_election_timer_if_valid_term(n, m.term)
           a == IF m.term > r.current_term
                THEN [r EXCEPT !.current_term = m.term, !.voted_for = None, !.role = Follower]
                ELSE IF r.role = Candidate THEN [r EXCEPT !.role = Follower]
                ELSE r
<1>2. NodeOK(r, T) /\ Kept(n, r, T)
    BY <1>1, ResetIfValidType, StorageKept, Zenon
<1> HIDE DEF r
<1>3. NodeOK(a, T) /\ Quiet(n, a, T)
    <2> DEFINE up == [r EXCEPT !.current_term = m.term, !.voted_for = None,
                               !.role = Follower]
               down == [r EXCEPT !.role = Follower]
    <2>1. NodeOK(up, T)
        BY <1>1, <1>2 DEF NodeOK, NodeFields, Optional
    <2>2. m.term > r.current_term => Quiet(r, up, T)
        <3>1. r.current_term \in Nat /\ up.id = r.id /\ up.current_term = m.term
              /\ up.role = Follower /\ up.members = r.members /\ up.outbox = r.outbox
            BY <1>2 DEF NodeOK, NodeFields
        <3> HIDE DEF up
        <3> QED BY <1>1, <3>1 DEF Quiet, SameMembers, NothingElectoral
    <2>3. m.term > r.current_term => Quiet(n, up, T)
        <3> HIDE DEF up
        <3> QED BY <1>2, <2>2 DEF Quiet, Kept, SameMembers, NothingElectoral
    <2>4. NodeOK(down, T)
        BY <1>2 DEF NodeOK, NodeFields
    <2>5. Kept(r, down, T)
        BY <1>2, IndicesKept, Zenon
    <2>6. Quiet(n, down, T) /\ Quiet(n, r, T)
        <3> HIDE DEF down
        <3> QED BY <1>2, <2>5, KeptKept, KeptIsQuiet, Zenon
    <2> HIDE DEF up, down
    <2>7. a = IF m.term > r.current_term THEN up
              ELSE IF r.role = Candidate THEN down ELSE r
        BY DEF up, down
    <2> QED BY <1>2, <2>1, <2>3, <2>4, <2>6, <2>7
<1> HIDE DEF a
<1>4. NodeOK(install(a, m), T) /\ Kept(a, install(a, m), T)
    BY <1>3, InstallType, InstallKept, Zenon
<1>5. ASSUME NEW b, NodeOK(b, T), NEW granted \in BOOLEAN
      PROVE  /\ InstallSnapshotResponse(b, granted) \in RaftMsg(T)
             /\ ~Electoral(InstallSnapshotResponse(b, granted))
    BY <1>5 DEF NodeOK, RaftMsg, InstallSnapshotResponse, Electoral
<1>6. /\ Kept(r, send(r, from, InstallSnapshotResponse(r, FALSE)), T)
      /\ Kept(a, send(a, from, InstallSnapshotResponse(a, FALSE)), T)
      /\ Kept(install(a, m), send(install(a, m), from, InstallSnapshotResponse(a, TRUE)), T)
    BY <1>2, <1>3, <1>4, <1>5, SendKept, Zenon
<1>7. Quiet(n, send(r, from, InstallSnapshotResponse(r, FALSE)), T)
    BY <1>2, <1>6, KeptKept, KeptIsQuiet, Zenon
<1>8. Quiet(n, send(a, from, InstallSnapshotResponse(a, FALSE)), T)
    BY <1>3, <1>6, QuietKept, Zenon
<1>9. Quiet(n, send(install(a, m), from, InstallSnapshotResponse(a, TRUE)), T)
    BY <1>3, <1>4, <1>6, QuietKept, Zenon
<1>10. handle_install_snapshot(n, from, m) \in
          {send(r, from, InstallSnapshotResponse(r, FALSE)),
           send(a, from, InstallSnapshotResponse(a, FALSE)),
           send(install(a, m), from, InstallSnapshotResponse(a, TRUE))}
    BY DEF handle_install_snapshot, replication_handle_install_snapshot, a, r
<1> QED BY <1>7, <1>8, <1>9, <1>10

\* An answer to InstallSnapshot is quiet.
LEMMA InstallSnapshotResponseQuiet ==
    ASSUME NEW T, NEW n, NodeOK(n, T), NEW from \in Node, NEW m, m.term \in Nat
    PROVE  Quiet(n, handle_install_snapshot_response(n, from, m), T)
<1> DEFINE index == n.snapshot.last_included_index
           s == [n EXCEPT !.next_index = insert(@, from, index + 1),
                          !.match_index = insert(@, from, index)]
<1>1. m.term > n.current_term => Quiet(n, step_down(n, m.term), T)
    BY StepDownQuiet, Zenon
<1>2. n.snapshot # None => Kept(n, check_and_promote_caught_up_server(s, from), T)
    <2> SUFFICES ASSUME n.snapshot # None
                 PROVE  Kept(n, check_and_promote_caught_up_server(s, from), T)
        OBVIOUS
    <2>1. index \in Nat /\ index + 1 \in Nat
        BY DEF NodeOK, Optional, Snapshot
    <2>2. NodeOK(s, T) /\ Kept(n, s, T)
        BY <2>1, SetIndicesType, IndicesKept, Zenon
    <2> HIDE DEF s
    <2>3. Kept(s, check_and_promote_caught_up_server(s, from), T)
        BY <2>2, IndicesKept, Zenon
    <2> QED BY <2>2, <2>3, KeptKept, Zenon
<1>3. n.snapshot # None => Quiet(n, check_and_promote_caught_up_server(s, from), T)
    BY <1>2, KeptIsQuiet, Zenon
<1>4. Quiet(n, n, T)
    BY KeptRefl, KeptIsQuiet, Zenon
<1> QED BY <1>1, <1>3, <1>4 DEF handle_install_snapshot_response

\* Client commands and membership requests are quiet.
LEMMA SubmitQuiet ==
    ASSUME NEW T \in EntryTypes, NEW n, NodeOK(n, T)
    PROVE  /\ \A c \in Command : Quiet(n, submit_client_command(n, c), T)
           /\ \A e \in T : Quiet(n, submit_config_change(n, e), T)
           /\ \A p \in Node : /\ AddServer(p) \in T => Quiet(n, add_server(n, p), T)
                              /\ RemoveServer(p) \in T => Quiet(n, remove_server(n, p), T)
<1>1. ASSUME NEW e \in T PROVE Quiet(n, submit_entry(n, e), T)
    <2> DEFINE es == <<[term |-> n.current_term, entry_type |-> e]>>
               a == append_entries(n, es)
               b == IF size(a.members) <= 1 THEN advance_commit_index(a) ELSE a
    <2>1. es \in Seq(LogEntry(T))
        BY DEF NodeOK, LogEntry
    <2> HIDE DEF es
    <2>2. NodeOK(a, T) /\ Kept(n, a, T)
        BY <2>1, AppendEntriesType, StorageKept, Zenon
    <2> HIDE DEF a
    <2>3. NodeOK(advance_commit_index(a), T) /\ Kept(a, advance_commit_index(a), T)
        BY <2>2, AdvanceCommitType, AdvanceCommitKept, Zenon
    <2>4. NodeOK(b, T) /\ Kept(a, b, T)
        BY <2>2, <2>3, KeptRefl
    <2> HIDE DEF b
    <2>5. Kept(b, send_append_entries_to_followers(b), T)
        BY <2>4, SendAppendEntriesKept, Zenon
    <2>6. Kept(n, send_append_entries_to_followers(b), T)
        BY <2>2, <2>4, <2>5, KeptKept, Zenon
    <2>7. Quiet(n, send_append_entries_to_followers(b), T)
        BY <2>6, KeptIsQuiet, Zenon
    <2> QED BY <2>7 DEF submit_entry, b, a, es
<1>2. Quiet(n, n, T)
    BY KeptRefl, KeptIsQuiet, Zenon
<1>3. \A e \in T : Quiet(n, submit_config_change(n, e), T)
    BY <1>1, <1>2 DEF submit_config_change
<1>4. ASSUME NEW e \in T
      PROVE  LET a == submit_config_change(n, e)
             IN  Quiet(n, [a EXCEPT !.pending_change = last_log_index(a)], T)
    <2> DEFINE a == submit_config_change(n, e)
    <2>1. NodeOK(a, T) /\ Quiet(n, a, T)
        BY <1>3, SubmitType, Zenon
    <2> HIDE DEF a
    <2>2. Kept(a, [a EXCEPT !.pending_change = last_log_index(a)], T)
        BY <2>1, IndicesKept, Zenon
    <2>3. Quiet(n, [a EXCEPT !.pending_change = last_log_index(a)], T)
        BY <2>1, <2>2, QuietKept, Zenon
    <2> QED BY <2>3 DEF a
<1>5. \A c \in Command : Quiet(n, submit_client_command(n, c), T)
    BY <1>1, <1>2 DEF submit_client_command, EntryTypes
<1>6. \A p \in Node : /\ AddServer(p) \in T => Quiet(n, add_server(n, p), T)
                      /\ RemoveServer(p) \in T => Quiet(n, remove_server(n, p), T)
    BY <1>2, <1>4 DEF add_server, remove_server
<1> QED BY <1>3, <1>5, <1>6

\* A restarted node has kept its term and its vote, and stands no more.
LEMMA RestartQuiet ==
    ASSUME NEW T, NEW n, NodeOK(n, T), NEW peerIds,
           n.members = [p \in Node |-> IF p \in peerIds \cup {n.id} THEN 1 ELSE 0]
               \/ T # Command
    PROVE  Quiet(n, new_from_builder(n.id, storage(n), peerIds), T)
BY DEF NodeOK, new_from_builder, storage, Quiet, SameMembers, NothingElectoral, no_messages

-----------------------------------------------------------------------------
(* Election                                                                *)

\* No election message is waiting to be sent.
Silent(n) == \A p \in Node : \A k \in DOMAIN n.outbox[p] : ~Electoral(n.outbox[p][k])

(***************************************************************************)
(* The three steps that are not quiet.  In each the election messages of   *)
(* the outbox are described: at most one to a node.                        *)
(***************************************************************************)
AsksOnce(b) ==
    \A p \in Node : \A k \in DOMAIN b.outbox[p] :
        Electoral(b.outbox[p][k]) =>
            /\ p # b.id
            /\ b.outbox[p][k].type = "RequestVote"
            /\ b.outbox[p][k].term = b.current_term
            /\ (\A q \in Node : b.members[q] <= 1) =>
                   \A l \in DOMAIN b.outbox[p] : Electoral(b.outbox[p][l]) => l = k

\* The node has started an election for the next term.
Starts(a, b, T) ==
    /\ b.id = a.id
    /\ b.current_term = a.current_term + 1
    /\ b.voted_for = b.id
    /\ b.votes_received = push(new_collection, b.id)
    /\ b.role \in {Candidate, Leader}
    /\ b.role = Leader => size(b.members) <= 1
    /\ SameMembers(a, b, T)
    /\ AsksOnce(b)

\* The node has given its vote to c in the term t of the request.
Votes(a, b, c, t) ==
    /\ b.id = a.id
    /\ t >= a.current_term
    /\ b.current_term = t
    /\ b.voted_for = c
    /\ t = a.current_term =>
           /\ a.voted_for \in {None, c}
           /\ b.role = a.role
           /\ b.votes_received = a.votes_received
    /\ t > a.current_term => b.role = Follower
    /\ b.members = a.members
    /\ \A p \in Node : \A k \in DOMAIN b.outbox[p] :
           Electoral(b.outbox[p][k]) =>
               /\ p = c
               /\ b.outbox[p][k] = Grant(t)
               /\ \A l \in DOMAIN b.outbox[p] : l = k

\* The node has counted the vote of v, for the term t.
Counts(a, b, v, t) ==
    /\ b.id = a.id
    /\ t = a.current_term
    /\ b.current_term = a.current_term
    /\ b.voted_for = a.voted_for
    /\ a.role = Candidate
    /\ b.votes_received = push(a.votes_received, v)
    /\ b.role \in {Candidate, Leader}
    /\ b.role = Leader => has_quorum(b.members, len(b.votes_received))
    /\ b.members = a.members
    /\ NothingElectoral(a, b)

\* Becoming the leader changes the role and nothing else of an election.
LEMMA BecomeLeaderStep ==
    ASSUME NEW T, NEW n, NodeOK(n, T)
    PROVE  LET b == become_leader(n)
           IN  /\ b.id = n.id /\ b.current_term = n.current_term
               /\ b.voted_for = n.voted_for /\ b.votes_received = n.votes_received
               /\ b.members = n.members /\ b.role = Leader
               /\ NothingElectoral(n, b)
<1> DEFINE a == reset_heartbeat_timer(stop_timers(
                    initialize_leader_state([n EXCEPT !.role = Leader])))
           b == send_append_entries_to_followers(a)
<1>1. NodeOK(a, T)
    <2>1. NodeOK([n EXCEPT !.role = Leader], T)
        BY DEF NodeOK, NodeFields
    <2>2. NodeOK(initialize_leader_state([n EXCEPT !.role = Leader]), T)
        BY <2>1, InitializeLeaderStateType, Zenon
    <2> QED BY <2>2, TimerType, Zenon
<1>2. a.id = n.id /\ a.current_term = n.current_term /\ a.voted_for = n.voted_for
      /\ a.votes_received = n.votes_received /\ a.members = n.members
      /\ a.role = Leader /\ a.outbox = n.outbox
    BY DEF NodeOK, NodeFields, reset_heartbeat_timer, stop_timers, initialize_leader_state
<1> HIDE DEF a
<1>3. Kept(a, b, T) /\ b.role = a.role
    BY <1>1, SendAppendEntriesKept, Zenon
<1>4. b.members = a.members
    BY <1>1 DEF send_append_entries_to_followers, send_to_peers, NodeOK, NodeFields
<1> HIDE DEF b
<1>5. /\ b.id = n.id /\ b.current_term = n.current_term
      /\ b.voted_for = n.voted_for /\ b.votes_received = n.votes_received
      /\ b.members = n.members /\ b.role = Leader
      /\ NothingElectoral(n, b)
    BY <1>2, <1>3, <1>4 DEF Kept, NothingElectoral
<1> QED BY <1>5 DEF b, a, become_leader

\* A pre-vote is quiet.
LEMMA StartPreVoteKept ==
    ASSUME NEW T, NEW n, NodeOK(n, T)
    PROVE  /\ Kept(n, start_pre_vote(n), T)
           /\ start_pre_vote(n).members = n.members
<1> DEFINE a == reset_election_timer(
                    [n EXCEPT !.pre_votes_received = push(new_collection, n.id),
                              !.in_pre_vote = TRUE])
           m == VoteRequestMsg("PreVoteRequest", n.current_term,
                               last_log_index(n), last_log_term(n))
           msg == [p \in Node |-> m]
<1>1. n.id \in Node /\ n.current_term \in Nat
    BY DEF NodeOK
<1>2. NodeOK(a, T)
    <2>1. NodeOK([n EXCEPT !.pre_votes_received = push(new_collection, n.id),
                           !.in_pre_vote = TRUE], T)
        BY <1>1, PushType DEF NodeOK, NodeFields
    <2> QED BY <2>1, TimerType, Zenon
<1>3. Kept(n, a, T) /\ a.members = n.members
    BY DEF NodeOK, NodeFields, Kept, SameMembers, NothingElectoral, reset_election_timer
<1>4. m \in RaftMsg(T)
    BY <1>1, VoteRequestType
<1>5. ~Electoral(m)
    BY DEF Electoral, VoteRequestMsg
<1> HIDE DEF a, m
<1>6. msg \in [Node -> RaftMsg(T)] /\ \A p \in Node : ~Electoral(msg[p])
    BY <1>4, <1>5
<1> HIDE DEF msg
<1>7. Kept(a, send_to_peers(a, msg), T)
    BY <1>2, <1>6, SendToPeersKept, Zenon
<1>8. Kept(n, send_to_peers(a, msg), T)
    BY <1>3, <1>7, KeptKept, Zenon
<1>9. send_to_peers(a, msg).members = a.members
    BY <1>2 DEF send_to_peers, NodeOK, NodeFields
<1>10. start_pre_vote(n) = send_to_peers(a, msg)
    BY DEF start_pre_vote, broadcast, a, m, msg
<1> QED BY <1>3, <1>8, <1>9, <1>10

\* start_election starts one.
LEMMA StartElectionStep ==
    ASSUME NEW T, NEW n, NodeOK(n, T), Silent(n)
    PROVE  Starts(n, start_election(n), T)
<1> DEFINE term == n.current_term + 1
           a == reset_election_timer(
                    [n EXCEPT !.current_term = term, !.voted_for = n.id,
                              !.votes_received = push(new_collection, n.id),
                              !.in_pre_vote = FALSE, !.role = Candidate])
           m == VoteRequestMsg("RequestVote", term, last_log_index(n), last_log_term(n))
           b == broadcast(a, m)
<1>1. n.id \in Node /\ term \in Nat
    BY DEF NodeOK
<1>2. NodeOK(a, T)
    <2> HIDE DEF term
    <2>1. NodeOK([n EXCEPT !.current_term = term, !.voted_for = n.id,
                           !.votes_received = push(new_collection, n.id),
                           !.in_pre_vote = FALSE, !.role = Candidate], T)
        BY <1>1, PushType DEF NodeOK, NodeFields, Optional
    <2> QED BY <2>1, TimerType, Zenon
<1>3. a.id = n.id /\ a.current_term = term /\ a.voted_for = n.id
      /\ a.votes_received = push(new_collection, n.id) /\ a.role = Candidate
      /\ a.members = n.members /\ a.outbox = n.outbox
    BY DEF NodeOK, NodeFields, reset_election_timer
<1>4. m \in RaftMsg(T) /\ m.type = "RequestVote" /\ m.term = term
    BY <1>1, VoteRequestType DEF VoteRequestMsg
<1> HIDE DEF a, m
<1>5. NodeOK(b, T)
    BY <1>2, <1>4, BroadcastType, Zenon
<1> DEFINE out == [q \in Node |-> IF q \in peers(a.members, a.id)
                                  THEN a.outbox[q] \o [k \in 1..a.members[q] |-> m]
                                  ELSE a.outbox[q]]
<1>6. b = [a EXCEPT !.outbox = out]
    BY DEF broadcast, send_to_peers
<1>7. b.id = n.id /\ b.current_term = term /\ b.voted_for = n.id
      /\ b.votes_received = push(new_collection, n.id) /\ b.role = Candidate
      /\ b.members = n.members /\ b.outbox = out
    <2> HIDE DEF b, out
    <2> QED BY <1>2, <1>3, <1>6 DEF NodeOK, NodeFields
<1>8. AsksOnce(b)
    <2> SUFFICES ASSUME NEW p \in Node, NEW k \in DOMAIN b.outbox[p],
                        Electoral(b.outbox[p][k])
                 PROVE  /\ p # b.id
                        /\ b.outbox[p][k].type = "RequestVote"
                        /\ b.outbox[p][k].term = b.current_term
                        /\ (\A q \in Node : b.members[q] <= 1) =>
                               \A l \in DOMAIN b.outbox[p] :
                                   Electoral(b.outbox[p][l]) => l = k
        BY DEF AsksOnce
    <2> DEFINE old == n.outbox[p]
               add == [j \in 1..n.members[p] |-> m]
    <2>1. n.members[p] \in Nat /\ old \in Seq(RaftMsg(T))
        BY DEF NodeOK, NodeCollections
    <2>2. \A j \in DOMAIN old : ~Electoral(old[j])
        BY DEF Silent
    <2>3. p \in peers(n.members, n.id) /\ b.outbox[p] = old \o add
        <3>1. b.outbox[p] = IF p \in peers(n.members, n.id) THEN old \o add ELSE old
            BY <1>3, <1>7
        <3> QED BY <3>1, <2>2
    <2>4. add \in Seq(RaftMsg(T)) /\ Len(add) = n.members[p]
          /\ \A j \in 1..Len(add) : add[j] = m
        BY <1>4, <2>1
    <2> HIDE DEF old, add
    <2>5. ASSUME NEW l \in DOMAIN b.outbox[p], Electoral(b.outbox[p][l])
          PROVE  /\ l \in Int
                 /\ l - Len(old) \in 1..n.members[p]
                 /\ b.outbox[p][l] = m
        <3>1. l \in 1..(Len(old) + Len(add)) /\ DOMAIN old = 1..Len(old)
            BY <2>1, <2>3, <2>4
        <3>2. l \notin 1..Len(old)
            <4> SUFFICES ASSUME l \in 1..Len(old) PROVE FALSE
                OBVIOUS
            <4>1. (old \o add)[l] = old[l]
                BY <2>1, <2>4
            <4> QED BY <2>2, <2>3, <2>5, <3>1, <4>1
        <3>3. l - Len(old) \in 1..Len(add) /\ (old \o add)[l] = add[l - Len(old)]
            BY <2>1, <2>4, <3>1, <3>2
        <3> QED BY <2>3, <2>4, <3>1, <3>3
    <2>6. p # b.id
        BY <1>7, <2>3 DEF peers
    <2>7. b.outbox[p][k] = m
        BY <2>5
    <2>8. ASSUME \A q \in Node : b.members[q] <= 1,
                 NEW l \in DOMAIN b.outbox[p], Electoral(b.outbox[p][l])
          PROVE  l = k
        <3>1. n.members[p] <= 1
            BY <1>7, <2>8
        <3>2. l \in Int /\ l - Len(old) \in 1..n.members[p]
            BY <2>5, <2>8
        <3>3. k \in Int /\ k - Len(old) \in 1..n.members[p]
            BY <2>5
        <3>4. Len(old) \in Nat
            BY <2>1
        <3> QED BY <2>1, <3>1, <3>2, <3>3, <3>4
    <2> QED BY <1>4, <1>7, <2>6, <2>7, <2>8
<1>9. start_election(n) = IF size(n.members) <= 1 THEN become_leader(b) ELSE b
    BY DEF start_election, a, b, m
<1> HIDE DEF b, out
<1> DEFINE l == become_leader(b)
<1>10. /\ l.id = b.id /\ l.current_term = b.current_term
       /\ l.voted_for = b.voted_for /\ l.votes_received = b.votes_received
       /\ l.members = b.members /\ l.role = Leader
       /\ NothingElectoral(b, l)
    BY <1>5, BecomeLeaderStep
<1> HIDE DEF l
<1>11. AsksOnce(l)
    BY <1>8, <1>10 DEF AsksOnce, NothingElectoral
<1>12. Starts(n, b, T)
    BY <1>7, <1>8 DEF Starts, SameMembers, Candidate, Leader
<1>13. size(n.members) <= 1 => Starts(n, l, T)
    BY <1>7, <1>10, <1>11 DEF Starts, SameMembers
<1> QED BY <1>9, <1>12, <1>13 DEF l

\* An election timeout is quiet, or starts an election where there is nobody
\* to ask for a pre-vote.
LEMMA ElectionTimerStep ==
    ASSUME NEW T, NEW n, NodeOK(n, T), Silent(n)
    PROVE  \/ Quiet(n, handle_election_timer(n), T)
           \/ Starts(n, handle_election_timer(n), T)
<1> DEFINE a == start_pre_vote(n)
<1>1. NodeOK(a, T) /\ Kept(n, a, T)
    BY StartPreVoteType, StartPreVoteKept, Zenon
<1> HIDE DEF a
<1>2. Silent(a)
    BY <1>1 DEF Kept, NothingElectoral, Silent
<1>3. Starts(a, start_election(a), T)
    BY <1>1, <1>2, StartElectionStep, Zenon
<1>4. Starts(n, start_election(a), T)
    BY <1>1, <1>3 DEF Starts, Kept, SameMembers
<1>5. Quiet(n, a, T) /\ Quiet(n, n, T)
    BY <1>1, KeptRefl, KeptIsQuiet, Zenon
<1> QED BY <1>4, <1>5 DEF handle_election_timer, a

\* A pre-vote is quiet, or the one that starts the election.
LEMMA PreVoteResponseStep ==
    ASSUME NEW T, NEW n, NodeOK(n, T), Silent(n), NEW from \in Node, NEW m
    PROVE  \/ Quiet(n, handle_pre_vote_response(n, from, m), T)
           \/ Starts(n, handle_pre_vote_response(n, from, m), T)
<1> DEFINE a == [n EXCEPT !.pre_votes_received = push(@, from)]
           b == [a EXCEPT !.in_pre_vote = FALSE]
<1>1. NodeOK(a, T) /\ NodeOK(b, T)
    BY PushType DEF NodeOK, NodeFields
<1>2. Kept(n, a, T) /\ Kept(n, b, T)
    BY DEF NodeOK, NodeFields, Kept, SameMembers, NothingElectoral
<1> HIDE DEF b
<1>3. Silent(b)
    BY <1>2 DEF Kept, NothingElectoral, Silent
<1>4. Starts(b, start_election(b), T)
    BY <1>1, <1>3, StartElectionStep, Zenon
<1>5. Starts(n, start_election(b), T)
    BY <1>2, <1>4 DEF Starts, Kept, SameMembers
<1>6. handle_pre_vote_response(n, from, m) \in {n, a, start_election(b)}
    BY DEF handle_pre_vote_response, b
<1> HIDE DEF a
<1>7. Quiet(n, n, T) /\ Quiet(n, a, T)
    BY <1>2, KeptRefl, KeptIsQuiet, Zenon
<1> QED BY <1>5, <1>6, <1>7

\* A request for a pre-vote is quiet.
LEMMA PreVoteRequestQuiet ==
    ASSUME NEW T, NEW n, NodeOK(n, T), NEW from \in Node, NEW m
    PROVE  Quiet(n, handle_pre_vote_request(n, from, m), T)
<1> DEFINE granted == m.term >= n.current_term /\ is_log_up_to_date(n, m)
           answer == VoteResponseMsg("PreVoteResponse", n.current_term, granted)
<1>1. granted \in BOOLEAN
    OBVIOUS
<1> HIDE DEF granted
<1>2. answer \in RaftMsg(T) /\ ~Electoral(answer)
    BY <1>1 DEF NodeOK, RaftMsg, VoteResponseMsg, Electoral
<1> HIDE DEF answer
<1>3. Kept(n, send(n, from, answer), T)
    BY <1>2, SendKept, Zenon
<1>4. Quiet(n, send(n, from, answer), T)
    BY <1>3, KeptIsQuiet, Zenon
<1> QED BY <1>4 DEF handle_pre_vote_request, answer, granted

\* A request for a vote is quiet, or the vote is given in the term asked for.
LEMMA VoteRequestStep ==
    ASSUME NEW T, NEW n, NodeOK(n, T), n.outbox = no_messages, NEW from \in Node,
           NEW m, m.term \in Nat
    PROVE  \/ Quiet(n, handle_vote_request(n, from, m), T)
           \/ Votes(n, handle_vote_request(n, from, m), from, m.term)
<1> DEFINE a == IF m.term > n.current_term THEN step_down(n, m.term) ELSE n
           granted == should_grant_vote(a, from, m)
           c == reset_election_timer([a EXCEPT !.voted_for = from])
           yes == Grant(c.current_term)
           no == VoteResponseMsg("RequestVoteResponse", a.current_term, FALSE)
<1>1. NodeOK(a, T) /\ Quiet(n, a, T)
    BY StepDownType, StepDownQuiet, KeptRefl, KeptIsQuiet
<1>2. /\ a.id = n.id /\ a.outbox = n.outbox /\ a.members = n.members
      /\ a.current_term = IF m.term > n.current_term THEN m.term ELSE n.current_term
      /\ m.term > n.current_term => a.role = Follower
      /\ ~(m.term > n.current_term) => a = n
    BY DEF NodeOK, NodeFields, step_down, revoke, reset_election_timer
<1> HIDE DEF a
<1>3. CASE ~granted
    <2>1. no \in RaftMsg(T) /\ ~Electoral(no)
        BY <1>1 DEF NodeOK, RaftMsg, VoteResponseMsg, Electoral
    <2> HIDE DEF no
    <2>2. Kept(a, send(a, from, no), T)
        BY <1>1, <2>1, SendKept, Zenon
    <2>3. Quiet(n, send(a, from, no), T)
        BY <1>1, <2>2, QuietKept, Zenon
    <2>4. granted = FALSE
        BY <1>3 DEF should_grant_vote
    <2>5. handle_vote_request(n, from, m) = send(a, from, no)
        BY <2>4 DEF handle_vote_request, no, a
    <2> QED BY <2>3, <2>5
<1>4. CASE granted
    <2> DEFINE b == send(c, from, yes)
    <2>1. NodeOK(c, T)
        <3>1. NodeOK([a EXCEPT !.voted_for = from], T)
            BY <1>1 DEF NodeOK, NodeFields, Optional
        <3> QED BY <3>1, TimerType, Zenon
    <2>2. /\ c.id = a.id /\ c.outbox = a.outbox /\ c.members = a.members
          /\ c.current_term = a.current_term /\ c.voted_for = from
          /\ c.role = a.role /\ c.votes_received = a.votes_received
        BY <1>1 DEF NodeOK, NodeFields, reset_election_timer
    <2>3. m.term >= a.current_term /\ a.voted_for \in {None, from}
        BY <1>4 DEF should_grant_vote
    <2>4. handle_vote_request(n, from, m) = b
        BY <1>4 DEF handle_vote_request, Grant, VoteResponseMsg, a
    <2> HIDE DEF c, granted
    <2>5. n.current_term \in Nat /\ a.current_term = m.term /\ m.term >= n.current_term
        BY <1>2, <2>3 DEF NodeOK
    <2>6. /\ b.id = c.id /\ b.members = c.members /\ b.current_term = c.current_term
          /\ b.voted_for = c.voted_for /\ b.role = c.role
          /\ b.votes_received = c.votes_received
          /\ b.outbox = [c.outbox EXCEPT ![from] = Append(@, yes)]
        BY <2>1 DEF send, NodeOK, NodeFields
    <2>7. \A p \in Node : b.outbox[p] = IF p = from THEN <<yes>> ELSE <<>>
        BY <1>2, <2>2, <2>6 DEF no_messages
    <2>8. yes = Grant(m.term)
        BY <2>2, <2>5
    <2> HIDE DEF b, yes
    <2>9. ASSUME NEW p \in Node, NEW k \in DOMAIN b.outbox[p]
          PROVE  /\ p = from
                 /\ b.outbox[p][k] = Grant(m.term)
                 /\ \A l \in DOMAIN b.outbox[p] : l = k
        <3>1. p = from /\ b.outbox[p] = <<yes>>
            BY <2>7
        <3>2. DOMAIN <<yes>> = {1} /\ <<yes>>[1] = yes
            OBVIOUS
        <3> QED BY <2>8, <3>1, <3>2
    <2>10. m.term = n.current_term =>
               /\ n.voted_for \in {None, from}
               /\ b.role = n.role
               /\ b.votes_received = n.votes_received
        BY <1>2, <2>2, <2>3, <2>5, <2>6
    <2>11. Votes(n, b, from, m.term)
        BY <1>2, <2>2, <2>5, <2>6, <2>9, <2>10 DEF Votes
    <2> QED BY <2>4, <2>11
<1> QED BY <1>3, <1>4

\* A vote is quiet, or counted.
LEMMA VoteResponseStep ==
    ASSUME NEW T, NEW n, NodeOK(n, T), NEW from \in Node, NEW m, m.term \in Nat
    PROVE  \/ Quiet(n, handle_vote_response(n, from, m), T)
           \/ m.vote_granted /\ Counts(n, handle_vote_response(n, from, m), from, m.term)
<1> DEFINE a == [n EXCEPT !.votes_received = push(@, from)]
           l == become_leader(a)
<1>1. NodeOK(a, T)
    BY PushType DEF NodeOK, NodeFields
<1>2. /\ a.id = n.id /\ a.current_term = n.current_term /\ a.voted_for = n.voted_for
      /\ a.votes_received = push(n.votes_received, from)
      /\ a.members = n.members /\ a.role = n.role /\ a.outbox = n.outbox
    BY DEF NodeOK, NodeFields
<1>3. m.term > n.current_term => Quiet(n, step_down(n, m.term), T)
    BY StepDownQuiet, Zenon
<1>4. Quiet(n, n, T)
    BY KeptRefl, KeptIsQuiet, Zenon
<1>5. /\ l.id = a.id /\ l.current_term = a.current_term
      /\ l.voted_for = a.voted_for /\ l.votes_received = a.votes_received
      /\ l.members = a.members /\ l.role = Leader
      /\ NothingElectoral(a, l)
    <2> HIDE DEF a
    <2> QED BY <1>1, BecomeLeaderStep
<1>6. CASE m.term > n.current_term \/ n.role # Candidate \/ m.term # n.current_term
           \/ ~m.vote_granted
    BY <1>3, <1>4, <1>6 DEF handle_vote_response
<1>7. CASE ~(m.term > n.current_term) /\ n.role = Candidate /\ m.term = n.current_term
           /\ m.vote_granted
    <2>1. handle_vote_response(n, from, m) =
              IF has_quorum(n.members, len(a.votes_received)) THEN l ELSE a
        BY <1>7 DEF handle_vote_response
    <2> HIDE DEF a, l
    <2>2. Counts(n, a, from, m.term)
        BY <1>2, <1>7 DEF Counts, NothingElectoral, Candidate, Leader
    <2>3. has_quorum(n.members, len(a.votes_received)) => Counts(n, l, from, m.term)
        BY <1>2, <1>5, <1>7 DEF Counts, NothingElectoral
    <2> QED BY <1>7, <2>1, <2>2, <2>3
<1> QED BY <1>6, <1>7

\* What a message does to the receiver, as far as elections go.
LEMMA HandleMessageStep ==
    ASSUME NEW T \in EntryTypes, NEW n, NodeOK(n, T), n.outbox = no_messages,
           NEW from \in Node, NEW m \in RaftMsg(T)
    PROVE  LET b == handle_message(n, from, m)
           IN  \/ Quiet(n, b, T)
               \/ Starts(n, b, T)
               \/ m.type = "RequestVote" /\ Votes(n, b, from, m.term)
               \/ m = Grant(m.term) /\ Counts(n, b, from, m.term)
<1>1. m.term \in Nat
    BY DEF RaftMsg
<1>2. Silent(n)
    BY DEF Silent, no_messages
<1>3. CASE m.type = "PreVoteRequest"
    BY <1>3, PreVoteRequestQuiet DEF handle_message
<1>4. CASE m.type = "PreVoteResponse"
    BY <1>2, <1>4, PreVoteResponseStep DEF handle_message
<1>5. CASE m.type = "RequestVote"
    BY <1>1, <1>5, VoteRequestStep DEF handle_message
<1>6. CASE m.type = "RequestVoteResponse"
    <2>1. handle_message(n, from, m) = handle_vote_response(n, from, m)
        BY <1>6 DEF handle_message
    <2>2. m.vote_granted => m = Grant(m.term)
        BY <1>6 DEF RaftMsg, Grant, VoteResponseMsg
    <2> QED BY <1>1, <2>1, <2>2, VoteResponseStep
<1>7. CASE m.type = "AppendEntries"
    <2>1. m \in AppendEntriesMsg(T)
        BY <1>7 DEF RaftMsg, AppendEntriesMsg
    <2>2. Quiet(n, handle_append_entries(n, from, m), T)
        BY <2>1, AppendEntriesQuiet, Zenon
    <2> QED BY <1>7, <2>2 DEF handle_message
<1>8. CASE m.type = "AppendEntriesResponse"
    <2>1. m \in AppendEntriesResponseMsg
        BY <1>8 DEF RaftMsg, AppendEntriesResponseMsg
    <2>2. Quiet(n, handle_append_entries_response(n, from, m), T)
        BY <2>1, AppendEntriesResponseQuiet, Zenon
    <2> QED BY <1>8, <2>2 DEF handle_message
<1>9. CASE m.type = "InstallSnapshot"
    <2>1. m \in SnapshotMsg
        BY <1>9 DEF RaftMsg, SnapshotMsg
    <2>2. Quiet(n, handle_install_snapshot(n, from, m), T)
        BY <2>1, InstallSnapshotQuiet, Zenon
    <2> QED BY <1>9, <2>2 DEF handle_message
<1>10. CASE m.type = "InstallSnapshotResponse"
    BY <1>1, <1>10, InstallSnapshotResponseQuiet DEF handle_message
<1>11. m.type \in {"PreVoteRequest", "RequestVote", "PreVoteResponse",
                   "RequestVoteResponse", "AppendEntries", "AppendEntriesResponse",
                   "InstallSnapshot", "InstallSnapshotResponse"}
    BY DEF RaftMsg
<1> QED BY <1>3, <1>4, <1>5, <1>6, <1>7, <1>8, <1>9, <1>10, <1>11
=============================================================================

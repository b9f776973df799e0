--------------------------- MODULE NodeCollection ---------------------------
(***************************************************************************)
(* The collections of core/src/collections that Raft decides with: the     *)
(* NodeCollection (votes received, members of a configuration), the        *)
(* Configuration built on it, the MapCollection (next_index, match_index)  *)
(* and its compute_median.                                                 *)
(*                                                                         *)
(* A NodeCollection is a growable array of ids to which push appends       *)
(* without looking for duplicates.  The code only counts, searches and     *)
(* filters it, never uses positions, so it is modelled as the number of    *)
(* copies it holds of every id.                                            *)
(***************************************************************************)
EXTENDS Integers, FiniteSets, FiniteSetsExt

CONSTANT Node      \* the ids of all nodes, configured or not

ASSUME NodeAssumption == IsFiniteSet(Node) /\ Node # {}

NodeCollections == [Node -> Nat]

new_collection == [p \in Node |-> 0]

push(c, p) == [c EXCEPT ![p] = @ + 1]

\* One element per array slot, so that its cardinality is the array's length.
Slots(c) == UNION {{p} \X (1..c[p]) : p \in Node}

len(c) == Cardinality(Slots(c))

-----------------------------------------------------------------------------
(* Configuration: members is a NodeCollection.                             *)

contains(members, p) == members[p] > 0

size(members) == len(members)

quorum_size(members) ==
    IF size(members) = 0 THEN 0 ELSE (size(members) \div 2) + 1

has_quorum(members, count) == count >= quorum_size(members)

\* The ids other than self that appear in the configuration.
peers(members, self) == {p \in Node \ {self} : contains(members, p)}

-----------------------------------------------------------------------------
(* MapCollection: a finite map from ids to log indices.                    *)

IsMap(map) == DOMAIN map \subseteq Node /\ map \in [DOMAIN map -> Nat]

new_map == [p \in {} |-> 0]

insert(map, p, v) == [q \in DOMAIN map \cup {p} |-> IF q = p THEN v ELSE map[q]]

get(map, p, default) == IF p \in DOMAIN map THEN map[p] ELSE default

(***************************************************************************)
(* compute_median collects the leader's last index and the match index of  *)
(* every member that is neither the leader nor catching up, sorts the      *)
(* values and takes the one at position (len - 1) / 2.  With k values at   *)
(* most x, the sorted array holds a value at most x at every position      *)
(* below k, so the element at position j is the least x with k > j.        *)
(***************************************************************************)
Voters(members, catching_up, leader) ==
    [p \in Node |-> IF p = leader THEN 1
                    ELSE IF p \in catching_up THEN 0 ELSE members[p]]

\* Mutant: the highest value is taken, not the one in the middle.
compute_median_highest(match, leader_last_index, members, catching_up, leader) ==
    LET voters   == Voters(members, catching_up, leader)
        index(p) == IF p = leader THEN leader_last_index ELSE get(match, p, 0)
    IN  Max({index(p) : p \in {q \in Node : voters[q] > 0}})

compute_median(match, leader_last_index, members, catching_up, leader) ==
    LET voters   == Voters(members, catching_up, leader)
        index(p) == IF p = leader THEN leader_last_index ELSE get(match, p, 0)
        upTo(x)  == len([p \in Node |-> IF index(p) <= x THEN voters[p] ELSE 0])
        position == (len(voters) - 1) \div 2
    IN  Min({x \in {index(p) : p \in {q \in Node : voters[q] > 0}} :
                 upTo(x) > position})
=============================================================================

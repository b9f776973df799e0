------------------------------ MODULE MCStorage ------------------------------
(***************************************************************************)
(* The storage of one node.  The third committed command finds the map     *)
(* full and the fourth overwrites a key; a stray entry belongs to a term   *)
(* between theirs.                                                         *)
(***************************************************************************)
EXTENDS SemihostingStorage

CONSTANTS n1, n2, a, b, c, u, v

MCCommitted ==
    << [term |-> 1, entry_type |-> [key |-> a, value |-> u]],
       [term |-> 1, entry_type |-> [key |-> b, value |-> u]],
       [term |-> 3, entry_type |-> [key |-> c, value |-> u]],
       [term |-> 3, entry_type |-> [key |-> a, value |-> v]] >>

MCStray == {[term |-> 2, entry_type |-> Malformed]}

\* What StorageProofs takes for granted of the state machine holds here.
ASSUME MachineAssumption == SnapshotsRestore

MCNode == {n1, n2}
MCKey == {a, b, c}
MCValue == {u, v}
=============================================================================

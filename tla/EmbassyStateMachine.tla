------------------------ MODULE EmbassyStateMachine ------------------------
(***************************************************************************)
(* The key-value state machine of the Embassy nodes and the byte format of *)
(* its snapshots.  The data is an FnvIndexMap, which iterates in insertion *)
(* order: a sequence of pairs with distinct keys.  A snapshot is the text  *)
(* "key=value\n..." in a vector of bounded length; a key and a value count *)
(* as one byte each, which leaves every place where the text can be cut.   *)
(***************************************************************************)
EXTENDS Naturals, Sequences, SequencesExt

CONSTANTS
    Key, Value,
    Malformed,        \* a payload without '='
    NoText,           \* the empty string
    MapCapacity,      \* capacity of the index map (16)
    SnapshotCapacity  \* capacity of the serialized data (512)

ASSUME StateMachineAssumption ==
    /\ {MapCapacity, SnapshotCapacity} \subseteq Nat
    /\ {"=", "\n"} \cap (Key \cup Value \cup {NoText}) = {}

Pair == [key : Key, value : Value \cup {NoText}]

Payload == [key : Key, value : Value] \cup {Malformed}

-----------------------------------------------------------------------------
\* FnvIndexMap::insert: a key that is present keeps its place, a new one is
\* refused when the map is full.
insert_pair(data, pair) ==
    IF \E k \in DOMAIN data : data[k].key = pair.key
    THEN [k \in DOMAIN data |-> IF data[k].key = pair.key THEN pair ELSE data[k]]
    ELSE IF Len(data) < MapCapacity THEN Append(data, pair) ELSE data

apply(data, payload) ==
    IF payload = Malformed THEN data ELSE insert_pair(data, payload)

\* The text of all pairs; what exceeds the vector is dropped.
create_snapshot(data) ==
    LET text == FlattenSeq([k \in DOMAIN data |->
                    <<data[k].key, "=", data[k].value, "\n">>])
    IN  SubSeq(text, 1, IF Len(text) < SnapshotCapacity THEN Len(text)
                        ELSE SnapshotCapacity)

\* The lines of the text: the runs of bytes between line feeds.
lines(text) ==
    FoldLeft(LAMBDA found, byte :
                 IF byte = "\n" THEN Append(found, <<>>)
                 ELSE [found EXCEPT ![Len(found)] = Append(@, byte)],
             << <<>> >>, text)

\* split_once('=') of a line: the key before the first '=' and what follows,
\* which is empty when the text was cut there.
split_once(line) ==
    [key |-> line[1], value |-> IF Len(line) = 2 THEN NoText ELSE line[3]]

restore_from_snapshot(text) ==
    FoldLeft(LAMBDA data, line :
                 IF Len(line) >= 2 THEN insert_pair(data, split_once(line)) ELSE data,
             <<>>, lines(text))
=============================================================================

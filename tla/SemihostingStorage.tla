------------------------- MODULE SemihostingStorage -------------------------
(***************************************************************************)
(* SemihostingStorage: the Storage of a node kept in memory and written to *)
(* four files through the host, driven by the calls the core makes of it.  *)
(*                                                                         *)
(* An event of the core is a sequence of storage calls; a call changes the *)
(* memory and then writes its files one after the other.  The node may     *)
(* crash between any two of these steps and start again from the files.    *)
(* What the core decides is modelled in Election and LogReplication; here  *)
(* it is the environment, which knows the entries the cluster commits.     *)
(***************************************************************************)
EXTENDS EmbassyStateMachine, Integers, FiniteSets

CONSTANTS
    Node, None,
    Self,             \* the node whose storage it is
    ConfigChange,     \* the configuration entries that may be in the log
    Committed,        \* the entries the cluster commits, in order
    Stray,            \* entries a leader appends that are never committed
    SnapshotThreshold,
    SnapshotCrashes,  \* may a crash fall inside an event that saves a snapshot?
    TornWrites,       \* may a crash fall between OPEN and WRITE of a file?
    MaxTerm,          \* bound on terms
    MaxCrashes        \* bound on crashes

Entry == [term : 1..MaxTerm, entry_type : Payload \cup ConfigChange]

ASSUME StorageAssumption ==
    /\ Committed \in Seq(Entry)
    /\ Stray \subseteq Entry
    /\ {e.term : e \in Stray} \cap {Committed[k].term : k \in DOMAIN Committed} = {}
    /\ Self \in Node
    /\ None \notin Node
    /\ {SnapshotCrashes, TornWrites} \subseteq BOOLEAN
    /\ {SnapshotThreshold, MaxTerm, MaxCrashes} \subseteq Nat

VARIABLES
    memory,   \* the fields of SemihostingStorage
    disk,     \* the contents of the files
    calls,    \* the storage calls the event in progress has yet to make
    writes,   \* the file contents the call in progress has yet to write
    before,   \* memory when the event in progress, or the last one, began
    base,     \* memory when the event in progress began to save a snapshot
    machine,  \* the state machine: its data and last_applied
    crashes   \* crashes that may still happen

vars == <<memory, disk, calls, writes, before, base, machine, crashes>>

-----------------------------------------------------------------------------
(* Files.  A file that was opened for writing and not written is empty.    *)

File == {"metadata", "log", "snapshot_meta", "snapshot"}

Missing == [is |-> "missing"]
Empty == [is |-> "empty"]
Written(content) == [is |-> "written", content |-> content]

\* Tag 0 for a command with its payload, tag 1 for a configuration change,
\* which is written without its content.
serialize_log(log) ==
    [k \in 1..Len(log) |->
        IF log[k].entry_type \in Payload
        THEN [term |-> log[k].term, tag |-> 0, payload |-> log[k].entry_type]
        ELSE [term |-> log[k].term, tag |-> 1]]

\* Configuration changes are skipped.
deserialize_log(file) ==
    LET commands == {k \in DOMAIN file : file[k].tag = 0}
        nth(k)   == CHOOSE j \in commands : Cardinality({i \in commands : i <= j}) = k
    IN  [k \in 1..Cardinality(commands) |->
            [term |-> file[nth(k)].term, entry_type |-> file[nth(k)].payload]]

\* write_file: the host empties the file when it is opened.
write_file(file, content) ==
    IF TornWrites THEN <<[file |-> file, state |-> Empty],
                         [file |-> file, state |-> Written(content)]>>
    ELSE <<[file |-> file, state |-> Written(content)]>>

persist_metadata(m) ==
    write_file("metadata", [current_term |-> m.current_term, voted_for |-> m.voted_for])

persist_log(m) == write_file("log", serialize_log(m.log))

persist_snapshot(m) ==
    write_file("snapshot_meta",
               [last_included_index |-> m.snapshot.last_included_index,
                last_included_term |-> m.snapshot.last_included_term])
    \o write_file("snapshot", m.snapshot.data)

\* SemihostingStorage::new: a missing or short file leaves the defaults.
load_from_disk(d) ==
    LET metadata == IF d["metadata"].is = "written" THEN d["metadata"].content
                    ELSE [current_term |-> 0, voted_for |-> None]
        found    == d["snapshot_meta"].is = "written" /\ d["snapshot"].is # "missing"
        meta     == d["snapshot_meta"].content
    IN  [current_term |-> metadata.current_term,
         voted_for    |-> metadata.voted_for,
         log          |-> IF d["log"].is = "written" THEN deserialize_log(d["log"].content)
                          ELSE <<>>,
         snapshot     |->
             IF ~found THEN None
             ELSE [last_included_index |-> meta.last_included_index,
                   last_included_term |-> meta.last_included_term,
                   data |-> IF d["snapshot"].is = "empty" THEN <<>>
                            ELSE d["snapshot"].content],
         first_log_index |-> IF found THEN meta.last_included_index + 1 ELSE 1]

-----------------------------------------------------------------------------
(* Storage: queries                                                        *)

last_log_index(m) ==
    IF m.log # <<>> THEN m.first_log_index + Len(m.log) - 1
    ELSE IF m.snapshot # None THEN m.snapshot.last_included_index ELSE 0

has_entry(m, index) ==
    index >= m.first_log_index /\ index < m.first_log_index + Len(m.log)

get_entry(m, index) == m.log[index - m.first_log_index + 1]

(* Storage: calls, each the memory after it.  Every one persists what it   *)
(* changed; discard_entries_before does nothing at all when it returns     *)
(* early.                                                                  *)

append_entries(m, entries) == [m EXCEPT !.log = @ \o entries]

truncate_after(m, index) ==
    [m EXCEPT !.log =
        IF index < m.first_log_index THEN <<>>
        ELSE SubSeq(@, 1, IF Len(@) < index - m.first_log_index + 1 THEN Len(@)
                          ELSE index - m.first_log_index + 1)]

save_snapshot(m, snapshot) == [m EXCEPT !.snapshot = snapshot]

\* The chunk of a transfer is its only one, offset 0 and done.
apply_snapshot_chunk(m, snapshot) == [m EXCEPT !.snapshot = snapshot]

\* Mutant: the entry at index is discarded too.
discard_entries_before_and_at(m, index) ==
    IF index <= m.first_log_index THEN m
    ELSE [m EXCEPT !.log = SubSeq(@, index - m.first_log_index + 2, Len(@)),
                   !.first_log_index = index]

discard_entries_before(m, index) ==
    IF index <= m.first_log_index THEN m
    ELSE [m EXCEPT !.log = SubSeq(@, index - m.first_log_index + 1, Len(@)),
                   !.first_log_index = index]

\* The memory after a call.
Effect(m, call) ==
    CASE call.op = "set_current_term" -> [m EXCEPT !.current_term = call.arg]
      [] call.op = "set_voted_for"    -> [m EXCEPT !.voted_for = call.arg]
      [] call.op = "append_entries"   -> append_entries(m, call.arg)
      [] call.op = "truncate_after"   -> truncate_after(m, call.arg)
      [] call.op = "save_snapshot"    -> save_snapshot(m, call.arg)
      [] call.op = "apply_snapshot_chunk" -> apply_snapshot_chunk(m, call.arg)
      [] call.op = "discard_entries_before" -> discard_entries_before(m, call.arg)

SnapshotCall == {"save_snapshot", "apply_snapshot_chunk"}

\* Mutant: a vote is written with the next term only.
Persist_without_vote(m, call) ==
    LET after == Effect(m, call)
    IN  CASE call.op = "set_current_term" -> persist_metadata(after)
          [] call.op = "set_voted_for" -> <<>>
          [] call.op \in {"append_entries", "truncate_after"} -> persist_log(after)
          [] call.op \in SnapshotCall -> persist_snapshot(after)
          [] call.op = "discard_entries_before" ->
                 IF call.arg <= m.first_log_index THEN <<>> ELSE persist_log(after)

\* Mutant: the log is not written again when a snapshot shortens it.
Persist_without_discard(m, call) ==
    LET after == Effect(m, call)
    IN  CASE call.op \in {"set_current_term", "set_voted_for"} -> persist_metadata(after)
          [] call.op \in {"append_entries", "truncate_after"} -> persist_log(after)
          [] call.op \in SnapshotCall -> persist_snapshot(after)
          [] call.op = "discard_entries_before" -> <<>>

\* What the call writes when it is made with the memory m.
Persist(m, call) ==
    LET after == Effect(m, call)
    IN  CASE call.op \in {"set_current_term", "set_voted_for"} -> persist_metadata(after)
          [] call.op \in {"append_entries", "truncate_after"} -> persist_log(after)
          [] call.op \in SnapshotCall -> persist_snapshot(after)
          [] call.op = "discard_entries_before" ->
                 IF call.arg <= m.first_log_index THEN <<>> ELSE persist_log(after)

Call(op, arg) == [op |-> op, arg |-> arg]

-----------------------------------------------------------------------------
Init ==
    /\ disk = [f \in File |-> Missing]
    /\ memory = load_from_disk(disk)
    /\ before = memory
    /\ calls = <<>>
    /\ writes = <<>>
    /\ base = None
    /\ machine = [data |-> <<>>, last_applied |-> 0]
    /\ crashes = MaxCrashes

Idle == calls = <<>> /\ writes = <<>>

\* The core takes an event, in which it makes the calls todo.
Begin(todo) ==
    /\ calls' = todo
    /\ before' = memory
    /\ base' = None
    /\ UNCHANGED <<memory, disk, writes, crashes>>

\* A message of term t: a newer term is adopted without a vote.
AdoptTerm(t) ==
    IF t > memory.current_term
    THEN <<Call("set_current_term", t), Call("set_voted_for", None)>> ELSE <<>>

NewerTerm(t) ==
    /\ t > memory.current_term
    /\ Begin(AdoptTerm(t))
    /\ UNCHANGED machine

StartElection ==
    /\ memory.current_term < MaxTerm
    /\ Begin(<<Call("set_current_term", memory.current_term + 1),
               Call("set_voted_for", Self)>>)
    /\ UNCHANGED machine

\* handle_vote_request, the vote granted.
GrantVote(t, i) ==
    /\ \/ t > memory.current_term
       \/ t = memory.current_term /\ memory.voted_for \in {None, i}
    /\ Begin(AdoptTerm(t) \o <<Call("set_voted_for", i)>>)
    /\ UNCHANGED machine

\* submit_client_command, on a leader whose entry is not going to stay.
AppendStray(e) ==
    /\ memory.voted_for = Self
    /\ e.term = memory.current_term
    /\ last_log_index(memory) \in machine.last_applied .. Len(Committed) - 1
    /\ \A k \in 1..Len(memory.log) : memory.log[k].term <= e.term
    /\ Begin(<<Call("append_entries", <<e>>)>>)
    /\ UNCHANGED machine

\* check_log_consistency for the entry that the leader has at prev.
Consistent(prev) ==
    \/ prev = 0
    \/ IF has_entry(memory, prev)
       THEN get_entry(memory, prev).term = Committed[prev].term
       ELSE /\ memory.snapshot # None
            /\ memory.snapshot.last_included_index = prev
            /\ memory.snapshot.last_included_term = Committed[prev].term

\* The state machine is given the commands among the entries.
ApplyEntry(data, entry_type) ==
    IF entry_type \in Payload THEN apply(data, entry_type) ELSE data

ApplyEntries(data, entry_types) == FoldLeft(ApplyEntry, data, entry_types)

\* The state machine after the entries of the log m up to index to.
ApplyCommitted(m, to) ==
    LET from     == machine.last_applied + 1
        entries  == [k \in 1..(to - from + 1) |-> get_entry(m, from + k - 1).entry_type]
    IN  [data |-> ApplyEntries(machine.data, entries),
         last_applied |-> to]

\* Mutant: the last entry applied is kept in the log, and applied again.
SnapshotCalls_one_less(m, sm) ==
    IF \/ sm.last_applied < SnapshotThreshold
       \/ m.snapshot # None /\ m.snapshot.last_included_index >= SnapshotThreshold
       \/ ~has_entry(m, sm.last_applied)
    THEN <<>>
    ELSE <<Call("save_snapshot",
                [last_included_index |-> sm.last_applied - 1,
                 last_included_term |-> get_entry(m, sm.last_applied).term,
                 data |-> create_snapshot(sm.data)]),
           Call("discard_entries_before", sm.last_applied)>>

\* should_create and SnapshotManager::create.
SnapshotCalls(m, sm) ==
    IF \/ sm.last_applied < SnapshotThreshold
       \/ m.snapshot # None /\ m.snapshot.last_included_index >= SnapshotThreshold
       \/ ~has_entry(m, sm.last_applied)
    THEN <<>>
    ELSE <<Call("save_snapshot",
                [last_included_index |-> sm.last_applied,
                 last_included_term |-> get_entry(m, sm.last_applied).term,
                 data |-> create_snapshot(sm.data)]),
           Call("discard_entries_before", sm.last_applied + 1)>>

\* try_append_entries: the entries prev+1..last, from the leader of the node's
\* own term (a message of a newer one is only NewerTerm), which knows those up
\* to commit to be committed.  The leader itself appends its clients' entries
\* by the same call.  A message that is late, and ends before what is applied
\* here, is left to RaftCluster.
AppendCommitted(prev, last, commit) ==
    /\ last > prev
    /\ memory.current_term >= Committed[last].term
    /\ Consistent(prev)
    /\ prev >= memory.first_log_index - 1
    /\ last >= machine.last_applied
    /\ commit \in machine.last_applied .. last
    /\ LET entries == SubSeq(Committed, prev + 1, last)
           after   == append_entries(truncate_after(memory, prev), entries)
       IN  /\ machine' = ApplyCommitted(after, commit)
           /\ Begin((IF last_log_index(memory) > prev
                     THEN <<Call("truncate_after", prev)>> ELSE <<>>)
                    \o <<Call("append_entries", entries)>>)

\* The commit index rises to commit, over entries that are in the log.
CommitTo(commit) ==
    /\ commit > machine.last_applied
    /\ \A k \in machine.last_applied + 1 .. commit :
           has_entry(memory, k) /\ get_entry(memory, k) = Committed[k]
    /\ machine' = ApplyCommitted(memory, commit)

\* handle_append_entries_response, by which the commit index of a leader, which
\* has voted for itself, rises to an entry of its term.  Only a leader makes
\* snapshots, and only here.
CommitAdvances(commit) ==
    /\ memory.voted_for = Self
    /\ Committed[commit].term = memory.current_term
    /\ CommitTo(commit)
    /\ Begin(SnapshotCalls(memory, machine'))

\* try_append_entries without entries: no storage call at all.
CommitLearned(commit) ==
    /\ CommitTo(commit)
    /\ Begin(<<>>)

\* What the first k committed entries leave in the state machine.
CommittedData(k) == ApplyEntries(<<>>, [j \in 1..k |-> Committed[j].entry_type])

\* handle_install_snapshot with the chunk of a leader of term t whose snapshot
\* is at index.
InstallSnapshot(t, index) ==
    LET data == create_snapshot(CommittedData(index))
    IN  /\ t >= memory.current_term
        /\ t >= Committed[index].term
        /\ index > machine.last_applied
        /\ memory.snapshot # None => index > memory.snapshot.last_included_index
        /\ data # <<>>
        /\ machine' = [data |-> restore_from_snapshot(data), last_applied |-> index]
        /\ Begin(AdoptTerm(t)
                 \o <<Call("apply_snapshot_chunk", [last_included_index |-> index,
                                                    last_included_term |-> Committed[index].term,
                                                    data |-> data]),
                      Call("discard_entries_before", index + 1)>>)

-----------------------------------------------------------------------------
MakeCall ==
    /\ writes = <<>>
    /\ calls # <<>>
    /\ memory' = Effect(memory, Head(calls))
    /\ writes' = Persist(memory, Head(calls))
    /\ calls' = Tail(calls)
    /\ base' = IF Head(calls).op \in SnapshotCall THEN memory ELSE base
    /\ UNCHANGED <<disk, before, machine, crashes>>

WriteFile ==
    /\ writes # <<>>
    /\ disk' = [disk EXCEPT ![Head(writes).file] = Head(writes).state]
    /\ writes' = Tail(writes)
    /\ UNCHANGED <<memory, calls, before, base, machine, crashes>>

\* The node is built again from the files; the state machine starts from the
\* snapshot.
Crash ==
    /\ crashes > 0
    /\ Idle \/ base = None \/ SnapshotCrashes
    /\ memory' = load_from_disk(disk)
    /\ calls' = <<>>
    /\ writes' = <<>>
    /\ machine' = IF memory'.snapshot = None THEN [data |-> <<>>, last_applied |-> 0]
                  ELSE [data |-> restore_from_snapshot(memory'.snapshot.data),
                        last_applied |-> memory'.snapshot.last_included_index]
    /\ crashes' = crashes - 1
    /\ UNCHANGED <<disk, before, base>>

Event ==
    \/ StartElection
    \/ \E t \in 1..MaxTerm :
           \/ NewerTerm(t)
           \/ \E i \in Node : GrantVote(t, i)
           \/ \E index \in 1..Len(Committed) : InstallSnapshot(t, index)
    \/ \E e \in Stray : AppendStray(e)
    \/ \E prev, last, commit \in 0..Len(Committed) : AppendCommitted(prev, last, commit)
    \/ \E commit \in 1..Len(Committed) : CommitAdvances(commit) \/ CommitLearned(commit)

Next == (Idle /\ Event) \/ MakeCall \/ WriteFile \/ Crash

Spec == Init /\ [][Next]_vars

-----------------------------------------------------------------------------
(* Properties                                                              *)

\* What the core was told is written is what a restart finds: once an event is
\* over, load_from_disk returns the storage as it is in memory.
MemoryIsDurable == Idle => load_from_disk(disk) = memory

\* However an event is cut short, the node that starts again has not forgotten
\* a term, nor a vote it may already have answered in its term.
VoteSurvives ==
    /\ memory.current_term >= before.current_term
    /\ memory.current_term = before.current_term /\ before.voted_for # None =>
           memory.voted_for = before.voted_for

\* Whatever snapshots, crashes and restarts lie behind it, the state machine is
\* that of a node which has applied the committed entries one by one.
MachineMatchesCommitted ==
    machine.data = CommittedData(machine.last_applied)

\* The text of a snapshot has room for all that the committed entries leave in
\* the state machine, and is read back as it was written.
SnapshotsRestore ==
    \A k \in 1..Len(Committed) :
        LET data == CommittedData(k)
        IN  restore_from_snapshot(create_snapshot(data)) = data

\* The committed entries that a storage holds, in its log or its snapshot.
Held(m) ==
    {k \in 1..Len(Committed) :
        \/ m.snapshot # None /\ k <= m.snapshot.last_included_index
        \/ has_entry(m, k) /\ get_entry(m, k) = Committed[k]}

\* No event, cut short by a crash or not, costs the node a committed entry
\* that it held before.
CommittedEntriesSurvive == Idle => Held(before) \subseteq Held(memory)

\* What a crash at this moment would leave, an event that saves a snapshot
\* counting as a whole.
Recoverable == IF Idle \/ base = None THEN load_from_disk(disk) ELSE base

Durable == INSTANCE DurableStorage
    WITH storage <- Recoverable, Term <- 1..MaxTerm, Vote <- Node,
         NoSnapshot <- None, NoVote <- None

\* The four files together behave like a storage whose calls are atomic and
\* durable: what a crash leaves is always the state after some call.
ImplementsDurableStorage == Durable!DurableSpec
=============================================================================

---------------------------- MODULE StorageProofs ----------------------------
(***************************************************************************)
(* What SemihostingStorage promises, for every log, every vote, any number *)
(* of crashes and any events: no term and no vote is forgotten, what an    *)
(* event has written is what a restart finds, the files together are one   *)
(* storage whose calls are atomic and durable, and the state machine is    *)
(* what the committed entries make of it.                                  *)
(***************************************************************************)
EXTENDS SemihostingStorage, FiniteSetTheorems, SequenceTheorems, WellFoundedInduction, TLAPS

-----------------------------------------------------------------------------
(* Sequences                                                               *)

IsSeq(s) == s \in Seq(Range(s))

\* A sequence over any set is one.
LEMMA AnySeq == ASSUME NEW S, NEW s \in Seq(S) PROVE IsSeq(s)
BY SeqOfRange DEF IsSeq

\* The tuples of calls and of writes are sequences.
LEMMA Tuples ==
    /\ IsSeq(<<>>)
    /\ \A a : IsSeq(<<a>>)
    /\ \A a, b : IsSeq(<<a, b>>)
<1>1. ASSUME NEW a, NEW b PROVE IsSeq(<<>>) /\ IsSeq(<<a>>) /\ IsSeq(<<a, b>>)
    <2>1. <<>> \in Seq({a, b}) /\ <<a>> \in Seq({a, b}) /\ <<a, b>> \in Seq({a, b})
        OBVIOUS
    <2> QED BY <2>1, AnySeq
<1> QED BY <1>1

\* What is at which place of a tail.
LEMMA TailOf ==
    ASSUME NEW s, IsSeq(s)
    PROVE  /\ Len(s) \in Nat /\ DOMAIN s = 1..Len(s)
           /\ s # <<>> =>
                  /\ Len(s) > 0 /\ Head(s) = s[1]
                  /\ IsSeq(Tail(s))
                  /\ Len(Tail(s)) = Len(s) - 1
                  /\ DOMAIN Tail(s) = 1..(Len(s) - 1)
                  /\ \A k \in 1..(Len(s) - 1) : Tail(s)[k] = s[k + 1]
<1>1. Len(s) \in Nat /\ DOMAIN s = 1..Len(s)
    BY DEF IsSeq
<1>2. s # <<>> => /\ Len(s) > 0 /\ Head(s) = s[1]
                  /\ Tail(s) \in Seq(Range(s))
                  /\ Len(Tail(s)) = Len(s) - 1
                  /\ \A k \in 1..(Len(s) - 1) : Tail(s)[k] = s[k + 1]
    BY DEF IsSeq
<1>3. s # <<>> => IsSeq(Tail(s))
    BY <1>2, AnySeq
<1> QED BY <1>1, <1>2, <1>3 DEF IsSeq

\* What is at which place of a concatenation.
LEMMA ConcatOf ==
    ASSUME NEW s, NEW t, IsSeq(s), IsSeq(t)
    PROVE  /\ IsSeq(s \o t)
           /\ Len(s \o t) = Len(s) + Len(t)
           /\ \A k \in 1..(Len(s) + Len(t)) :
                  (s \o t)[k] = IF k <= Len(s) THEN s[k] ELSE t[k - Len(s)]
<1> DEFINE S == Range(s) \cup Range(t)
<1>1. s \in Seq(S) /\ t \in Seq(S)
    BY SeqMonotonic DEF IsSeq
<1> HIDE DEF S
<1>2. s \o t \in Seq(S)
    BY <1>1
<1>3. IsSeq(s \o t)
    BY <1>2, AnySeq
<1> QED BY <1>1, <1>3

\* Two writes, one after the other.
LEMMA TwoOf == \A a, b : <<a>> \o <<b>> = <<a, b>>
<1> SUFFICES ASSUME NEW a, NEW b PROVE <<a>> \o <<b>> = <<a, b>>
    OBVIOUS
<1> DEFINE S == {a, b}
           c == <<a>> \o <<b>>
           d == <<a, b>>
<1>1. <<a>> \in Seq(S) /\ <<b>> \in Seq(S) /\ d \in Seq(S)
    OBVIOUS
<1>2. c \in Seq(S) /\ Len(c) = 2 /\ c[1] = a /\ c[2] = b
    BY <1>1
<1>3. Len(d) = 2 /\ d[1] = a /\ d[2] = b
    OBVIOUS
<1> HIDE DEF c, d
<1>4. Len(c) = Len(d) /\ \A k \in 1..Len(c) : c[k] = d[k]
    BY <1>2, <1>3
<1>5. c = d
    BY <1>1, <1>2, <1>4, SeqEqual
<1> QED BY <1>5 DEF c, d

-----------------------------------------------------------------------------
(* Terms and votes                                                         *)

Operation ==
    {"set_current_term", "set_voted_for", "append_entries", "truncate_after",
     "save_snapshot", "apply_snapshot_chunk", "discard_entries_before"}

Fields == {"current_term", "voted_for", "log", "snapshot", "first_log_index"}

\* A storage in which term and vote are those of the storage b, or newer.
Kept(b, term, vote) ==
    /\ term >= b.current_term
    /\ term = b.current_term /\ b.voted_for # None => vote = b.voted_for

\* What the file of the metadata holds.
Metadata(d) ==
    IF d["metadata"].is = "written" THEN d["metadata"].content
    ELSE [current_term |-> 0, voted_for |-> None]

\* A call that is still to be made, the k-th, forgets nothing: a term comes
\* first and is newer, and a vote follows a newer term or is the first one,
\* or the same one, of its term.
KeepsVote(k) ==
    /\ calls[k].op \in Operation
    /\ calls[k].op = "set_current_term" =>
           k = 1 /\ calls[k].arg \in Nat /\ calls[k].arg > memory.current_term
    /\ calls[k].op = "set_voted_for" =>
           \/ memory.current_term > before.current_term
           \/ k > 1 /\ calls[1].op = "set_current_term"
           \/ before.voted_for \in {None, calls[k].arg}

\* The inductive invariant of VoteSurvives: memory and file are both such that
\* no vote is forgotten, and so is what is still to be called and written.
VotesDurable ==
    /\ DOMAIN memory = Fields
    /\ DOMAIN disk = File
    /\ memory.current_term \in Nat /\ before.current_term \in Nat
    /\ Metadata(disk).current_term \in Nat
    /\ Kept(before, memory.current_term, memory.voted_for)
    /\ Kept(before, Metadata(disk).current_term, Metadata(disk).voted_for)
    /\ IsSeq(writes)
    /\ \A k \in DOMAIN writes :
           /\ writes[k].file \in File
           /\ writes[k].file = "metadata" =>
                  writes[k].state = Written([current_term |-> memory.current_term,
                                             voted_for    |-> memory.voted_for])
    /\ (\A k \in DOMAIN writes : writes[k].file # "metadata") =>
           /\ Metadata(disk).current_term = memory.current_term
           /\ Metadata(disk).voted_for = memory.voted_for
    /\ IsSeq(calls)
    /\ \A k \in DOMAIN calls : KeepsVote(k)

\* The calls of an event, none made yet, forget nothing.
Keeping(todo) ==
    /\ IsSeq(todo)
    /\ \A k \in DOMAIN todo :
           /\ todo[k].op \in Operation
           /\ todo[k].op = "set_current_term" =>
                  k = 1 /\ todo[k].arg \in Nat /\ todo[k].arg > memory.current_term
           /\ todo[k].op = "set_voted_for" =>
                  \/ k > 1 /\ todo[1].op = "set_current_term"
                  \/ memory.voted_for \in {None, todo[k].arg}

\* Calls that have nothing to do with terms and votes.
Plain(todo) ==
    /\ IsSeq(todo)
    /\ \A k \in DOMAIN todo :
           todo[k].op \in Operation \ {"set_current_term", "set_voted_for"}

\* Such calls can follow, and a vote behind a term.
LEMMA KeepingThen ==
    ASSUME NEW a, NEW b, Keeping(a), IsSeq(b),
           \A j \in DOMAIN b :
               /\ b[j].op \in Operation \ {"set_current_term"}
               /\ b[j].op = "set_voted_for" =>
                      \/ Len(a) > 0 /\ a[1].op = "set_current_term"
                      \/ memory.voted_for \in {None, b[j].arg}
    PROVE  Keeping(a \o b)
<1>1. IsSeq(a) /\ IsSeq(b)
    BY DEF Keeping, Operation
<1>2. /\ Len(a) \in Nat /\ DOMAIN a = 1..Len(a)
      /\ Len(b) \in Nat /\ DOMAIN b = 1..Len(b)
    BY <1>1, TailOf
<1>3. IsSeq(a \o b) /\ DOMAIN (a \o b) = 1..(Len(a) + Len(b))
    BY <1>1, <1>2, ConcatOf, TailOf
<1>4. ASSUME NEW k \in 1..(Len(a) + Len(b))
      PROVE  \/ k \in DOMAIN a /\ (a \o b)[k] = a[k] /\ (a \o b)[1] = a[1]
             \/ \E j \in DOMAIN b :
                    /\ (a \o b)[k] = b[j]
                    /\ Len(a) > 0 => k > 1 /\ (a \o b)[1] = a[1]
    <2>1. (a \o b)[k] = IF k <= Len(a) THEN a[k] ELSE b[k - Len(a)]
        BY <1>1, ConcatOf
    <2>2. Len(a) > 0 => (a \o b)[1] = a[1]
        BY <1>1, <1>2, ConcatOf
    <2> QED BY <1>2, <2>1, <2>2
<1> QED BY <1>3, <1>4 DEF Keeping, Operation

\* Plain calls ask nothing of those before them.
LEMMA KeepingThenPlain == \A a, b : Keeping(a) /\ Plain(b) => Keeping(a \o b)
BY KeepingThen DEF Plain, Operation

\* A newer term is adopted without a vote.
LEMMA AdoptKeeps ==
    ASSUME NEW t \in 1..MaxTerm, memory.current_term \in Nat
    PROVE  Keeping(AdoptTerm(t))
<1>1. t \in Nat
    BY StorageAssumption
<1> DEFINE a == Call("set_current_term", t)
           b == Call("set_voted_for", None)
<1>2. a.op = "set_current_term" /\ a.arg = t /\ b.op = "set_voted_for"
    BY DEF Call
<1>3. AdoptTerm(t) = IF t > memory.current_term THEN <<a, b>> ELSE <<>>
    BY DEF AdoptTerm
<1> HIDE DEF a, b
<1>4. CASE t > memory.current_term
    BY <1>1, <1>2, <1>3, <1>4, Tuples DEF Keeping, Operation
<1>5. CASE ~(t > memory.current_term)
    BY <1>3, <1>5, Tuples DEF Keeping, Operation
<1> QED BY <1>4, <1>5

\* And a vote may be given in it, or the first one, or the same one, in the
\* current term.
LEMMA GrantKeeps ==
    ASSUME NEW t \in 1..MaxTerm, NEW i, memory.current_term \in Nat,
           \/ t > memory.current_term
           \/ t = memory.current_term /\ memory.voted_for \in {None, i}
    PROVE  Keeping(AdoptTerm(t) \o <<Call("set_voted_for", i)>>)
<1>1. t \in Nat
    BY StorageAssumption
<1> DEFINE a == Call("set_current_term", t)
           b == Call("set_voted_for", None)
           c == Call("set_voted_for", i)
<1>2. a.op = "set_current_term" /\ c.op = "set_voted_for" /\ c.arg = i
    BY DEF Call
<1>3. AdoptTerm(t) = IF t > memory.current_term THEN <<a, b>> ELSE <<>>
    BY DEF AdoptTerm
<1> HIDE DEF a, b, c
<1>4. \/ Len(AdoptTerm(t)) > 0 /\ AdoptTerm(t)[1].op = "set_current_term"
      \/ memory.voted_for \in {None, i}
    BY <1>1, <1>2, <1>3
<1>5. \A j \in DOMAIN <<c>> :
          /\ <<c>>[j].op \in Operation \ {"set_current_term"}
          /\ <<c>>[j].op = "set_voted_for" =>
                 \/ Len(AdoptTerm(t)) > 0 /\ AdoptTerm(t)[1].op = "set_current_term"
                 \/ memory.voted_for \in {None, <<c>>[j].arg}
    BY <1>2, <1>4 DEF Operation
<1>6. Keeping(AdoptTerm(t) \o <<c>>)
    BY <1>5, AdoptKeeps, KeepingThen, Tuples
<1> QED BY <1>6 DEF c

\* The calls that save a snapshot are plain.
LEMMA SnapshotCallsPlain == \A m, sm : Plain(SnapshotCalls(m, sm))
<1> SUFFICES ASSUME NEW m, NEW sm PROVE Plain(SnapshotCalls(m, sm))
    OBVIOUS
<1>1. PICK a, b : /\ SnapshotCalls(m, sm) = <<>> \/ SnapshotCalls(m, sm) = <<a, b>>
                  /\ a.op = "save_snapshot" /\ b.op = "discard_entries_before"
    <2> DEFINE a == Call("save_snapshot",
                         [last_included_index |-> sm.last_applied,
                          last_included_term |-> get_entry(m, sm.last_applied).term,
                          data |-> create_snapshot(sm.data)])
               b == Call("discard_entries_before", sm.last_applied + 1)
    <2>1. SnapshotCalls(m, sm) = <<>> \/ SnapshotCalls(m, sm) = <<a, b>>
        BY DEF SnapshotCalls
    <2>2. a.op = "save_snapshot" /\ b.op = "discard_entries_before"
        BY DEF Call
    <2> HIDE DEF a, b
    <2> QED BY <2>1, <2>2
<1> QED BY <1>1, Tuples DEF Plain, Operation

\* Every event of the core keeps the votes: handle_vote_request grants one in
\* a newer term, or the first or the same one in the current term.
LEMMA EventKeeps ==
    ASSUME memory.current_term \in Nat, Event
    PROVE  \E todo : Keeping(todo) /\ Begin(todo)
<1>1. CASE StartElection
    <2> DEFINE a == Call("set_current_term", memory.current_term + 1)
               b == Call("set_voted_for", Self)
    <2>1. a.op = "set_current_term" /\ a.arg = memory.current_term + 1
        BY DEF Call
    <2>2. b.op = "set_voted_for"
        BY DEF Call
    <2>3. Begin(<<a, b>>)
        BY <1>1 DEF StartElection
    <2> HIDE DEF a, b
    <2>4. Keeping(<<a, b>>)
        BY <2>1, <2>2, Tuples DEF Keeping, Operation
    <2> QED BY <2>3, <2>4
<1>2. ASSUME NEW t \in 1..MaxTerm, NewerTerm(t)
      PROVE  \E todo : Keeping(todo) /\ Begin(todo)
    BY <1>2, AdoptKeeps DEF NewerTerm
<1>3. ASSUME NEW t \in 1..MaxTerm, NEW i \in Node, GrantVote(t, i)
      PROVE  \E todo : Keeping(todo) /\ Begin(todo)
    BY <1>3, GrantKeeps DEF GrantVote
<1>4. ASSUME NEW prev, NEW last, NEW commit, AppendCommitted(prev, last, commit)
      PROVE  \E todo : Keeping(todo) /\ Begin(todo)
    <2> DEFINE entries == SubSeq(Committed, prev + 1, last)
               x == IF last_log_index(memory) > prev
                    THEN <<Call("truncate_after", prev)>> ELSE <<>>
               y == <<Call("append_entries", entries)>>
    <2>1. Begin(x \o y)
        BY <1>4 DEF AppendCommitted
    <2>2. Plain(x) /\ Plain(y)
        <3> DEFINE p == Call("truncate_after", prev)
                   q == Call("append_entries", entries)
        <3>1. p.op = "truncate_after" /\ q.op = "append_entries"
            BY DEF Call
        <3> HIDE DEF p, q
        <3>2. Plain(<<>>) /\ Plain(<<p>>) /\ Plain(<<q>>)
            BY <3>1, Tuples DEF Plain, Operation
        <3> QED BY <3>2 DEF p, q
    <2> HIDE DEF x, y
    <2>3. Keeping(x)
        BY <2>2 DEF Plain, Keeping, Operation
    <2>4. Keeping(x \o y)
        BY <2>2, <2>3, KeepingThenPlain
    <2> QED BY <2>1, <2>4
<1>5. ASSUME NEW t \in 1..MaxTerm, NEW index, InstallSnapshot(t, index)
      PROVE  \E todo : Keeping(todo) /\ Begin(todo)
    <2> DEFINE text == create_snapshot(CommittedData(index))
               p == Call("apply_snapshot_chunk",
                         [last_included_index |-> index,
                          last_included_term |-> Committed[index].term,
                          data |-> text])
               q == Call("discard_entries_before", index + 1)
    <2>1. Begin(AdoptTerm(t) \o <<p, q>>)
        BY <1>5 DEF InstallSnapshot
    <2>2. p.op = "apply_snapshot_chunk" /\ q.op = "discard_entries_before"
        BY DEF Call
    <2> HIDE DEF p, q
    <2>3. Plain(<<p, q>>)
        BY <2>2, Tuples DEF Plain, Operation
    <2>4. Keeping(AdoptTerm(t) \o <<p, q>>)
        BY <2>3, AdoptKeeps, KeepingThenPlain
    <2> QED BY <2>1, <2>4
<1>6. ASSUME NEW e \in Stray, AppendStray(e)
      PROVE  \E todo : Keeping(todo) /\ Begin(todo)
    <2> DEFINE p == Call("append_entries", <<e>>)
    <2>1. p.op = "append_entries" /\ Begin(<<p>>)
        BY <1>6 DEF AppendStray, Call
    <2> HIDE DEF p
    <2>2. Keeping(<<p>>)
        BY <2>1, Tuples DEF Keeping, Operation
    <2> QED BY <2>1, <2>2
<1>7. ASSUME NEW commit, CommitAdvances(commit)
      PROVE  \E todo : Keeping(todo) /\ Begin(todo)
    <2>1. Begin(SnapshotCalls(memory, machine'))
        BY <1>7 DEF CommitAdvances
    <2>2. Plain(SnapshotCalls(memory, machine'))
        BY SnapshotCallsPlain
    <2>3. \A todo : Plain(todo) => Keeping(todo)
        BY DEF Plain, Keeping, Operation
    <2> QED BY <2>1, <2>2, <2>3
<1>8. ASSUME NEW commit, CommitLearned(commit)
      PROVE  \E todo : Keeping(todo) /\ Begin(todo)
    <2>1. Begin(<<>>)
        BY <1>8 DEF CommitLearned
    <2>2. Keeping(<<>>)
        BY Tuples DEF Keeping
    <2> QED BY <2>1, <2>2
<1> QED BY <1>1, <1>2, <1>3, <1>4, <1>5, <1>6, <1>7, <1>8 DEF Event

\* A write to a file, all of it at once.
LEMMA WholeWrite ==
    ASSUME TornWrites = FALSE
    PROVE  \A f, c : write_file(f, c) = <<[file |-> f, state |-> Written(c)]>>
BY DEF write_file

\* The term and the vote after a call.
LEMMA EffectOnVote ==
    ASSUME NEW m, NEW c, DOMAIN m = Fields, c.op \in Operation
    PROVE  LET after == Effect(m, c)
           IN  /\ DOMAIN after = Fields
               /\ after.current_term =
                      IF c.op = "set_current_term" THEN c.arg ELSE m.current_term
               /\ after.voted_for =
                      IF c.op = "set_voted_for" THEN c.arg ELSE m.voted_for
<1> USE DEF Operation, Fields
<1>1. CASE c.op = "set_current_term"
    BY <1>1 DEF Effect
<1>2. CASE c.op = "set_voted_for"
    BY <1>2 DEF Effect
<1>3. CASE c.op = "append_entries"
    BY <1>3 DEF Effect, append_entries
<1>4. CASE c.op = "truncate_after"
    BY <1>4 DEF Effect, truncate_after
<1>5. CASE c.op = "save_snapshot"
    BY <1>5 DEF Effect, save_snapshot
<1>6. CASE c.op = "apply_snapshot_chunk"
    BY <1>6 DEF Effect, apply_snapshot_chunk
<1>7. CASE c.op = "discard_entries_before"
    BY <1>7 DEF Effect, discard_entries_before
<1> QED BY <1>1, <1>2, <1>3, <1>4, <1>5, <1>6, <1>7

\* What a call writes of the metadata.
LEMMA PersistsVote ==
    ASSUME TornWrites = FALSE, NEW m, NEW c, c.op \in Operation
    PROVE  LET after == Effect(m, c)
               made  == Persist(m, c)
               state == Written([current_term |-> after.current_term,
                                 voted_for |-> after.voted_for])
           IN  /\ IsSeq(made)
               /\ \A k \in DOMAIN made : made[k].file \in File
               /\ IF c.op \in {"set_current_term", "set_voted_for"}
                  THEN made = <<[file |-> "metadata", state |-> state]>>
                  ELSE \A k \in DOMAIN made : made[k].file # "metadata"
<1> DEFINE after == Effect(m, c)
           made  == Persist(m, c)
           state == Written([current_term |-> after.current_term,
                             voted_for |-> after.voted_for])
           log   == [file |-> "log", state |-> Written(serialize_log(after.log))]
           meta  == [file |-> "snapshot_meta", state |->
                        Written([last_included_index |-> after.snapshot.last_included_index,
                                 last_included_term |-> after.snapshot.last_included_term])]
           text  == [file |-> "snapshot", state |-> Written(after.snapshot.data)]
<1> SUFFICES /\ IsSeq(made)
             /\ \A k \in DOMAIN made : made[k].file \in File
             /\ IF c.op \in {"set_current_term", "set_voted_for"}
                THEN made = <<[file |-> "metadata", state |-> state]>>
                ELSE \A k \in DOMAIN made : made[k].file # "metadata"
    OBVIOUS
<1> HIDE DEF after
<1>1. /\ persist_metadata(after) = <<[file |-> "metadata", state |-> state]>>
      /\ persist_log(after) = <<log>>
      /\ persist_snapshot(after) = <<meta>> \o <<text>>
    BY WholeWrite DEF persist_metadata, persist_log, persist_snapshot
<1>2. \/ c.op \in {"set_current_term", "set_voted_for"} /\ made = persist_metadata(after)
      \/ /\ c.op \notin {"set_current_term", "set_voted_for"}
         /\ made \in {<<>>, persist_log(after), persist_snapshot(after)}
    BY DEF Persist, after, Operation, SnapshotCall
<1>3. /\ log.file = "log" /\ meta.file = "snapshot_meta" /\ text.file = "snapshot"
      /\ [file |-> "metadata", state |-> state].file = "metadata"
    OBVIOUS
<1> HIDE DEF made, state, log, meta, text
<1>4. <<meta>> \o <<text>> = <<meta, text>>
    BY TwoOf
<1> QED BY <1>1, <1>2, <1>3, <1>4, Tuples DEF File

\* A call keeps what is due.
LEMMA MakeCallKeeps ==
    ASSUME TornWrites = FALSE, VotesDurable, MakeCall
    PROVE  VotesDurable'
<1> DEFINE c == calls[1]
<1>1. /\ writes = <<>> /\ calls # <<>> /\ Head(calls) = c
      /\ memory' = Effect(memory, c) /\ writes' = Persist(memory, c)
      /\ calls' = Tail(calls)
      /\ disk' = disk /\ before' = before
    BY TailOf DEF MakeCall, VotesDurable
<1>2. /\ IsSeq(calls') /\ Len(calls) \in Nat /\ DOMAIN calls = 1..Len(calls)
      /\ Len(calls) > 0
      /\ DOMAIN calls' = 1..(Len(calls) - 1)
      /\ \A k \in 1..(Len(calls) - 1) : calls'[k] = calls[k + 1]
    BY <1>1, TailOf DEF VotesDurable
<1>3. KeepsVote(1) /\ c.op \in Operation
    BY <1>2 DEF VotesDurable, KeepsVote
<1>4. /\ DOMAIN memory' = Fields
      /\ memory'.current_term =
             IF c.op = "set_current_term" THEN c.arg ELSE memory.current_term
      /\ memory'.voted_for =
             IF c.op = "set_voted_for" THEN c.arg ELSE memory.voted_for
    BY <1>1, <1>3, EffectOnVote DEF VotesDurable
<1> DEFINE state == Written([current_term |-> memory'.current_term,
                             voted_for |-> memory'.voted_for])
<1>5. /\ IsSeq(writes')
      /\ \A k \in DOMAIN writes' : writes'[k].file \in File
      /\ IF c.op \in {"set_current_term", "set_voted_for"}
         THEN writes' = <<[file |-> "metadata", state |-> state]>>
         ELSE \A k \in DOMAIN writes' : writes'[k].file # "metadata"
    BY <1>1, <1>3, PersistsVote
<1>6. memory.current_term \in Nat /\ before.current_term \in Nat
    BY DEF VotesDurable
<1>7. memory'.current_term \in Nat /\ memory'.current_term >= memory.current_term
    BY <1>3, <1>4, <1>6 DEF KeepsVote
<1>8. Kept(before, memory'.current_term, memory'.voted_for)
    BY <1>3, <1>4, <1>6, <1>7 DEF KeepsVote, Kept, VotesDurable
<1>9. \A k \in DOMAIN writes' : writes'[k].file = "metadata" => writes'[k].state = state
    <2> HIDE DEF state, c
    <2> QED BY <1>5
<1>10. (\A k \in DOMAIN writes' : writes'[k].file # "metadata") =>
           /\ Metadata(disk).current_term = memory'.current_term
           /\ Metadata(disk).voted_for = memory'.voted_for
    <2>1. Metadata(disk).current_term = memory.current_term
          /\ Metadata(disk).voted_for = memory.voted_for
        <3>1. \A k \in DOMAIN writes : writes[k].file # "metadata"
            BY <1>1
        <3> QED BY <3>1 DEF VotesDurable
    <2>2. CASE c.op \in {"set_current_term", "set_voted_for"}
        <3>1. writes'[1].file = "metadata" /\ 1 \in DOMAIN writes'
            BY <1>5, <2>2
        <3> QED BY <3>1
    <2>3. CASE c.op \notin {"set_current_term", "set_voted_for"}
        BY <1>4, <2>1, <2>3
    <2> QED BY <2>2, <2>3
<1>11. ASSUME NEW k \in DOMAIN calls' PROVE KeepsVote(k)'
    <2>1. k + 1 \in DOMAIN calls /\ calls'[k] = calls[k + 1] /\ k \in Nat \ {0}
        BY <1>2
    <2>2. KeepsVote(k + 1)
        BY <2>1 DEF VotesDurable
    <2>3. calls'[k].op # "set_current_term" /\ calls'[k].op \in Operation
        BY <2>1, <2>2 DEF KeepsVote
    <2>4. ASSUME calls'[k].op = "set_voted_for"
          PROVE  \/ memory'.current_term > before.current_term
                 \/ before.voted_for \in {None, calls'[k].arg}
        <3>1. CASE memory.current_term > before.current_term
            BY <1>6, <1>7, <3>1
        <3>2. CASE calls[1].op = "set_current_term"
            <4>1. memory'.current_term > memory.current_term
                BY <1>3, <1>4, <3>2 DEF KeepsVote
            <4>2. memory.current_term >= before.current_term
                BY DEF VotesDurable, Kept
            <4> QED BY <1>6, <1>7, <4>1, <4>2
        <3>3. CASE before.voted_for \in {None, calls'[k].arg}
            BY <3>3
        <3> QED BY <2>1, <2>2, <2>4, <3>1, <3>2, <3>3 DEF KeepsVote
    <2> QED BY <1>1, <2>3, <2>4 DEF KeepsVote
<1> HIDE DEF c
<1> QED BY <1>1, <1>2, <1>4, <1>5, <1>6, <1>7, <1>8, <1>9, <1>10, <1>11 DEF VotesDurable

\* So does a write.
LEMMA WriteFileKeeps ==
    ASSUME VotesDurable, WriteFile
    PROVE  VotesDurable'
<1> DEFINE w == writes[1]
<1>1. /\ writes # <<>> /\ Head(writes) = w
      /\ disk' = [disk EXCEPT ![w.file] = w.state]
      /\ writes' = Tail(writes)
      /\ UNCHANGED <<memory, calls, before>>
    BY TailOf DEF WriteFile, VotesDurable
<1>2. /\ IsSeq(writes') /\ Len(writes) \in Nat /\ DOMAIN writes = 1..Len(writes)
      /\ Len(writes) > 0
      /\ DOMAIN writes' = 1..(Len(writes) - 1)
      /\ \A k \in 1..(Len(writes) - 1) : writes'[k] = writes[k + 1]
    BY <1>1, TailOf DEF VotesDurable
<1>3. \A k \in DOMAIN writes' : k + 1 \in DOMAIN writes /\ writes'[k] = writes[k + 1]
    BY <1>2
<1>4. w.file \in File /\ DOMAIN disk = File /\ DOMAIN disk' = File
    BY <1>1, <1>2 DEF VotesDurable
<1>5. CASE w.file = "metadata"
    <2>1. disk'["metadata"] = Written([current_term |-> memory.current_term,
                                       voted_for    |-> memory.voted_for])
        BY <1>1, <1>2, <1>4, <1>5 DEF VotesDurable, File
    <2>2. Metadata(disk') = [current_term |-> memory.current_term,
                             voted_for    |-> memory.voted_for]
        BY <2>1 DEF Metadata, Written
    <2>3. /\ Metadata(disk').current_term = memory.current_term
          /\ Metadata(disk').voted_for = memory.voted_for
        BY <2>2
    <2> QED BY <1>1, <1>2, <1>3, <1>4, <2>3 DEF VotesDurable, KeepsVote
<1>6. CASE w.file # "metadata"
    <2>1. Metadata(disk') = Metadata(disk)
        BY <1>1, <1>4, <1>6 DEF Metadata, File
    <2>2. (\A k \in DOMAIN writes' : writes'[k].file # "metadata") =>
              \A k \in DOMAIN writes : writes[k].file # "metadata"
        <3> SUFFICES ASSUME \A k \in DOMAIN writes' : writes'[k].file # "metadata",
                            NEW k \in DOMAIN writes
                     PROVE  writes[k].file # "metadata"
            OBVIOUS
        <3>1. CASE k = 1
            BY <1>6, <3>1
        <3>2. CASE k # 1
            <4>1. k - 1 \in DOMAIN writes' /\ writes'[k - 1] = writes[k]
                BY <1>2, <3>2
            <4> QED BY <4>1
        <3> QED BY <3>1, <3>2
    <2> QED BY <1>1, <1>2, <1>3, <1>4, <2>1, <2>2 DEF VotesDurable, KeepsVote
<1> QED BY <1>5, <1>6

(***************************************************************************)
(* With files of which a crash leaves the old content or the new one, a    *)
(* node that starts again, wherever in an event the crash fell, snapshots  *)
(* included, is in no earlier term and has given away no vote that it had  *)
(* given in its term: set_current_term and set_voted_for write the         *)
(* metadata before the event goes on to answer.                            *)
(***************************************************************************)
THEOREM VotesSurvive ==
    ASSUME TornWrites = FALSE
    PROVE  Spec => []VoteSurvives
<1>1. Init => VotesDurable
    <2> SUFFICES ASSUME Init PROVE VotesDurable
        OBVIOUS
    <2>1. /\ disk["metadata"] = Missing /\ DOMAIN disk = File
          /\ memory = load_from_disk(disk) /\ before = memory
          /\ calls = <<>> /\ writes = <<>>
        BY DEF Init, File
    <2>2. Metadata(disk) = [current_term |-> 0, voted_for |-> None]
        BY <2>1 DEF Metadata, Missing
    <2>3. /\ DOMAIN memory = Fields
          /\ memory.current_term = Metadata(disk).current_term
          /\ memory.voted_for = Metadata(disk).voted_for
        BY <2>1 DEF load_from_disk, Metadata, Fields
    <2> QED BY <2>1, <2>2, <2>3, Tuples DEF VotesDurable, Kept
<1>2. VotesDurable /\ [Next]_vars => VotesDurable'
    <2> SUFFICES ASSUME VotesDurable, [Next]_vars PROVE VotesDurable'
        OBVIOUS
    <2>1. CASE Idle /\ Event
        <3>1. PICK todo : Keeping(todo) /\ Begin(todo)
            BY <2>1, EventKeeps DEF VotesDurable
        <3>2. \A k \in DOMAIN calls' : KeepsVote(k)'
            BY <3>1 DEF Keeping, KeepsVote, Begin
        <3>3. Kept(memory, memory.current_term, memory.voted_for)
            BY DEF Kept, VotesDurable
        <3> QED BY <2>1, <3>1, <3>2, <3>3 DEF VotesDurable, Begin, Keeping, Idle
    <2>2. CASE MakeCall
        BY <2>2, MakeCallKeeps
    <2>3. CASE WriteFile
        BY <2>3, WriteFileKeeps
    <2>4. CASE Crash
        <3>1. /\ memory' = load_from_disk(disk) /\ calls' = <<>> /\ writes' = <<>>
              /\ UNCHANGED <<disk, before>>
            BY <2>4 DEF Crash
        <3>2. /\ DOMAIN memory' = Fields
              /\ memory'.current_term = Metadata(disk).current_term
              /\ memory'.voted_for = Metadata(disk).voted_for
            BY <3>1 DEF load_from_disk, Metadata, Fields
        <3> QED BY <3>1, <3>2, Tuples DEF VotesDurable
    <2>5. CASE UNCHANGED vars
        BY <2>5 DEF vars, VotesDurable, KeepsVote
    <2> QED BY <2>1, <2>2, <2>3, <2>4, <2>5 DEF Next
<1>3. VotesDurable => VoteSurvives
    BY DEF VotesDurable, VoteSurvives, Kept
<1> QED BY <1>1, <1>2, <1>3, PTL DEF Spec

-----------------------------------------------------------------------------
(* Memory and files                                                        *)

\* None is Option::None: neither a snapshot nor a storage.
NoneIsNothing ==
    /\ \A index, term, data :
           None # [last_included_index |-> index, last_included_term |-> term, data |-> data]
    /\ \A term, vote, log, snapshot, first :
           None # [current_term |-> term, voted_for |-> vote, log |-> log,
                   snapshot |-> snapshot, first_log_index |-> first]

IsSnapshot(s) ==
    /\ s # None
    /\ s = [last_included_index |-> s.last_included_index,
            last_included_term  |-> s.last_included_term,
            data                |-> s.data]
    /\ s.last_included_index \in Nat

IsStorage(m) ==
    /\ m = [current_term |-> m.current_term, voted_for |-> m.voted_for, log |-> m.log,
            snapshot |-> m.snapshot, first_log_index |-> m.first_log_index]
    /\ m.current_term \in Nat
    /\ m.voted_for \in Node \cup {None}
    /\ m.log \in Seq(Entry)
    /\ m.first_log_index \in Nat \ {0}
    /\ m.snapshot = None \/ IsSnapshot(m.snapshot)

\* The log begins where the snapshot ends.
Aligned(m) ==
    m.first_log_index =
        IF m.snapshot = None THEN 1 ELSE m.snapshot.last_included_index + 1

\* What each file holds of a storage, once it was written.
Content(m, f) ==
    CASE f = "metadata" -> Written([current_term |-> m.current_term, voted_for |-> m.voted_for])
      [] f = "log" -> Written(serialize_log(m.log))
      [] f = "snapshot_meta" ->
             Written([last_included_index |-> m.snapshot.last_included_index,
                      last_included_term  |-> m.snapshot.last_included_term])
      [] f = "snapshot" -> Written(m.snapshot.data)

\* The storage needs no such file.
Default(m, f) ==
    CASE f = "metadata" -> m.current_term = 0 /\ m.voted_for = None
      [] f = "log" -> m.log = <<>>
      [] f \in {"snapshot_meta", "snapshot"} -> m.snapshot = None

OnDisk(m, d, f) ==
    \/ d[f] = Missing /\ Default(m, f)
    \/ /\ d[f] = Content(m, f)
       /\ f \in {"snapshot_meta", "snapshot"} => m.snapshot # None

\* The files d hold the storage m.
Represents(m, d) == DOMAIN d = File /\ \A f \in File : OnDisk(m, d, f)

\* The storage m is one durable call ahead of r.
Moved(r, m) ==
    \/ \E t \in 1..MaxTerm :
           t > r.current_term /\ m = [r EXCEPT !.current_term = t]
    \/ \E v \in Node \cup {None} : m = [r EXCEPT !.voted_for = v]
    \/ /\ Len(m.log) > Len(r.log)
       /\ SubSeq(m.log, 1, Len(r.log)) = r.log
       /\ m = [r EXCEPT !.log = m.log]
    \/ \E k \in 0..Len(r.log) : m = [r EXCEPT !.log = SubSeq(@, 1, k)]

\* The storage m is r after it was compacted up to the snapshot of m.
Compacted(r, m) ==
    /\ IsSnapshot(m.snapshot)
    /\ m.snapshot.last_included_index >= r.first_log_index
    /\ m = [r EXCEPT !.snapshot = m.snapshot,
                     !.log = SubSeq(@, m.snapshot.last_included_index + 2 - r.first_log_index,
                                    Len(@)),
                     !.first_log_index = m.snapshot.last_included_index + 1]

\* The k-th of the calls s can be made of the storage m when its turn comes.
Callable(s, k, m) ==
    /\ s[k].op \in Operation
    /\ s[k].op = "set_current_term" =>
           k = 1 /\ s[k].arg \in 1..MaxTerm /\ s[k].arg > m.current_term
    /\ s[k].op = "set_voted_for" => s[k].arg \in Node \cup {None}
    /\ s[k].op = "append_entries" => s[k].arg \in Seq(Entry) /\ s[k].arg # <<>>
    /\ s[k].op = "truncate_after" => s[k].arg \in Nat
    /\ s[k].op \in SnapshotCall =>
           /\ IsSnapshot(s[k].arg)
           /\ s[k].arg.last_included_index >= m.first_log_index
           /\ k = Len(s) - 1
           /\ s[k + 1] = Call("discard_entries_before", s[k].arg.last_included_index + 1)
    /\ s[k].op = "discard_entries_before" => k > 1 /\ s[k - 1].op \in SnapshotCall

CallableAll(s, m) == IsSeq(s) /\ \A k \in DOMAIN s : Callable(s, k, m)

Update(m, f) == [file |-> f, state |-> Content(m, f)]

\* Outside of an event that saves a snapshot: the files hold the memory, or
\* what the memory was before the call in progress, which writes one file.
Following ==
    /\ Aligned(memory)
    /\ CallableAll(calls, memory)
    /\ \/ writes = <<>> /\ Represents(memory, disk)
       \/ LET old == load_from_disk(disk)
          IN  /\ IsStorage(old) /\ Aligned(old) /\ Represents(old, disk)
              /\ Moved(old, memory)
              /\ \E f \in {"metadata", "log"} :
                     /\ writes = <<Update(memory, f)>>
                     /\ Represents(memory, [disk EXCEPT ![f] = Content(memory, f)])

\* The snapshot is in memory and its files are being written.
Saving ==
    /\ calls = <<Call("discard_entries_before", memory.snapshot.last_included_index + 1)>>
    /\ memory = [base EXCEPT !.snapshot = memory.snapshot]
    /\ DOMAIN disk = File /\ OnDisk(memory, disk, "metadata") /\ OnDisk(memory, disk, "log")
    /\ \/ writes = <<Update(memory, "snapshot_meta"), Update(memory, "snapshot")>>
       \/ /\ writes = <<Update(memory, "snapshot")>>
          /\ OnDisk(memory, disk, "snapshot_meta")
       \/ writes = <<>> /\ Represents(memory, disk)

\* The log was shortened and its file is being written.
Discarding ==
    /\ calls = <<>>
    /\ writes = <<Update(memory, "log")>>
    /\ Compacted(base, memory)
    /\ Represents(memory, [disk EXCEPT !["log"] = Content(memory, "log")])

\* The inductive invariant of MemoryIsDurable and of the refinement.
Durability ==
    /\ IsStorage(memory)
    /\ Idle \/ base = None => Following
    /\ ~(Idle \/ base = None) =>
           /\ IsStorage(base) /\ Aligned(base)
           /\ IsSnapshot(memory.snapshot)
           /\ memory.snapshot.last_included_index >= base.first_log_index
           /\ Saving \/ Discarding

\* A log of commands is read back as it was written.
LEMMA RoundTrip ==
    ASSUME ConfigChange = {}, NEW log \in Seq(Entry)
    PROVE  deserialize_log(serialize_log(log)) = log
<1> DEFINE n == Len(log)
           file == serialize_log(log)
           commands == {k \in DOMAIN file : file[k].tag = 0}
           nth(k) == CHOOSE j \in commands : Cardinality({i \in commands : i <= j}) = k
<1>1. n \in Nat /\ DOMAIN log = 1..n
    OBVIOUS
<1>2. \A k \in 1..n :
          /\ log[k] = [term |-> log[k].term, entry_type |-> log[k].entry_type]
          /\ log[k].entry_type \in Payload
    <2>1. \A e \in Entry : /\ e = [term |-> e.term, entry_type |-> e.entry_type]
                           /\ e.entry_type \in Payload
        BY DEF Entry
    <2>2. \A k \in 1..n : log[k] \in Entry
        OBVIOUS
    <2> QED BY <2>1, <2>2
<1>3. /\ DOMAIN file = 1..n
      /\ \A k \in 1..n : file[k] = [term |-> log[k].term, tag |-> 0,
                                    payload |-> log[k].entry_type]
    <2>1. file = [k \in 1..n |->
                     IF log[k].entry_type \in Payload
                     THEN [term |-> log[k].term, tag |-> 0, payload |-> log[k].entry_type]
                     ELSE [term |-> log[k].term, tag |-> 1]]
        BY DEF serialize_log
    <2> HIDE DEF file
    <2> QED BY <1>2, <2>1
<1> HIDE DEF file
<1>4. commands = 1..n
    BY <1>3
<1>5. \A k \in 1..n : nth(k) = k
    <2> SUFFICES ASSUME NEW k \in 1..n PROVE nth(k) = k
        OBVIOUS
    <2>1. \A j \in commands : {i \in commands : i <= j} = 1..j
        BY <1>1, <1>4
    <2>2. \A j \in 1..n : Cardinality(1..j) = j
        <3> SUFFICES ASSUME NEW j \in 1..n PROVE Cardinality(1..j) = j
            OBVIOUS
        <3>1. 1 \in Int /\ j \in Int /\ ~(1 > j) /\ j - 1 + 1 = j
            BY <1>1
        <3> QED BY <3>1, FS_Interval
    <2>3. \A j \in commands : Cardinality({i \in commands : i <= j}) = j
        BY <1>4, <2>1, <2>2
    <2> HIDE DEF commands
    <2> QED BY <1>4, <2>3
<1>6. Cardinality(commands) = n
    <2>1. 1 \in Int /\ n \in Int /\ (1 > n => n = 0) /\ n - 1 + 1 = n
        BY <1>1
    <2>2. Cardinality(1..n) = IF 1 > n THEN 0 ELSE n - 1 + 1
        BY <2>1, FS_Interval
    <2> QED BY <1>4, <2>1, <2>2
<1>7. deserialize_log(file) = [k \in 1..Cardinality(commands) |->
          [term |-> file[nth(k)].term, entry_type |-> file[nth(k)].payload]]
    BY DEF deserialize_log
<1>8. ASSUME NEW k \in 1..n
      PROVE  [term |-> file[nth(k)].term, entry_type |-> file[nth(k)].payload] = log[k]
    <2>1. file[nth(k)] = [term |-> log[k].term, tag |-> 0, payload |-> log[k].entry_type]
        BY <1>3, <1>5
    <2>2. file[nth(k)].term = log[k].term /\ file[nth(k)].payload = log[k].entry_type
        BY <2>1
    <2> HIDE DEF nth
    <2> QED BY <1>2, <2>2
<1> HIDE DEF commands, nth
<1>9. deserialize_log(file) = [k \in 1..n |-> log[k]]
    BY <1>6, <1>7, <1>8
<1>10. [k \in 1..n |-> log[k]] = log
    BY <1>1
<1> QED BY <1>9, <1>10 DEF file

\* load_from_disk finds the storage that the files hold.
LEMMA Loads ==
    ASSUME ConfigChange = {}, NEW m, NEW d, IsStorage(m), Aligned(m), Represents(m, d)
    PROVE  load_from_disk(d) = m
<1> DEFINE metadata == IF d["metadata"].is = "written" THEN d["metadata"].content
                       ELSE [current_term |-> 0, voted_for |-> None]
           found == d["snapshot_meta"].is = "written" /\ d["snapshot"].is # "missing"
           meta == d["snapshot_meta"].content
           log == IF d["log"].is = "written" THEN deserialize_log(d["log"].content) ELSE <<>>
           snapshot == IF ~found THEN None
                       ELSE [last_included_index |-> meta.last_included_index,
                             last_included_term |-> meta.last_included_term,
                             data |-> IF d["snapshot"].is = "empty" THEN <<>>
                                      ELSE d["snapshot"].content]
           first == IF found THEN meta.last_included_index + 1 ELSE 1
<1>1. metadata.current_term = m.current_term /\ metadata.voted_for = m.voted_for
    <2>1. OnDisk(m, d, "metadata")
        BY DEF Represents, File
    <2>2. CASE d["metadata"] = Missing /\ m.current_term = 0 /\ m.voted_for = None
        BY <2>2 DEF Missing
    <2>3. CASE d["metadata"] = Written([current_term |-> m.current_term,
                                        voted_for |-> m.voted_for])
        BY <2>3 DEF Written
    <2> QED BY <2>1, <2>2, <2>3 DEF OnDisk, Default, Content
<1>2. log = m.log
    <2>1. OnDisk(m, d, "log")
        BY DEF Represents, File
    <2>2. CASE d["log"] = Missing /\ m.log = <<>>
        BY <2>2 DEF Missing
    <2>3. CASE d["log"] = Written(serialize_log(m.log))
        <3>1. log = deserialize_log(serialize_log(m.log))
            BY <2>3 DEF Written
        <3> QED BY <3>1, RoundTrip DEF IsStorage
    <2> QED BY <2>1, <2>2, <2>3 DEF OnDisk, Default, Content
<1>3. snapshot = m.snapshot /\ first = m.first_log_index
    <2>1. OnDisk(m, d, "snapshot_meta") /\ OnDisk(m, d, "snapshot")
        BY DEF Represents, File
    <2>2. CASE m.snapshot = None
        <3>1. d["snapshot_meta"] = Missing
            BY <2>1, <2>2 DEF OnDisk
        <3> QED BY <2>2, <3>1 DEF Missing, Aligned
    <2>3. CASE m.snapshot # None
        <3>1. /\ d["snapshot_meta"] =
                     Written([last_included_index |-> m.snapshot.last_included_index,
                              last_included_term  |-> m.snapshot.last_included_term])
              /\ d["snapshot"] = Written(m.snapshot.data)
            BY <2>1, <2>3 DEF OnDisk, Default, Content
        <3>2. /\ found /\ d["snapshot"].is # "empty"
              /\ meta.last_included_index = m.snapshot.last_included_index
              /\ meta.last_included_term = m.snapshot.last_included_term
              /\ d["snapshot"].content = m.snapshot.data
            BY <3>1 DEF Written
        <3>3. first = m.first_log_index
            BY <2>3, <3>2 DEF Aligned
        <3>4. m.snapshot = [last_included_index |-> m.snapshot.last_included_index,
                            last_included_term  |-> m.snapshot.last_included_term,
                            data                |-> m.snapshot.data]
            BY <2>3 DEF IsStorage, IsSnapshot
        <3> HIDE DEF found, meta
        <3>5. snapshot = m.snapshot
            BY <3>2, <3>4
        <3> QED BY <3>3, <3>5
    <2> QED BY <2>2, <2>3
<1>4. load_from_disk(d) = [current_term |-> metadata.current_term,
                           voted_for |-> metadata.voted_for, log |-> log,
                           snapshot |-> snapshot, first_log_index |-> first]
    BY DEF load_from_disk
<1> HIDE DEF metadata, log, snapshot, first
<1> QED BY <1>1, <1>2, <1>3, <1>4 DEF IsStorage

\* Calls before a snapshot is saved, and calls behind a new term.
Lead(s) == CallableAll(s, memory) /\ \A k \in DOMAIN s : s[k].op \notin SnapshotCall
Rest(s) == CallableAll(s, memory) /\ \A k \in DOMAIN s : s[k].op # "set_current_term"

\* The calls of an event can be put together of such parts.
LEMMA LeadThen ==
    ASSUME NEW a, NEW b, Lead(a), Rest(b)
    PROVE  /\ CallableAll(a \o b, memory)
           /\ Lead(b) => Lead(a \o b)
<1> DEFINE s == a \o b
<1>1. IsSeq(a) /\ IsSeq(b)
    BY DEF Lead, Rest, CallableAll
<1>2. /\ Len(a) \in Nat /\ DOMAIN a = 1..Len(a)
      /\ Len(b) \in Nat /\ DOMAIN b = 1..Len(b)
    BY <1>1, TailOf
<1>3. /\ IsSeq(s) /\ Len(s) = Len(a) + Len(b) /\ DOMAIN s = 1..Len(s)
      /\ \A k \in 1..(Len(a) + Len(b)) :
             s[k] = IF k <= Len(a) THEN a[k] ELSE b[k - Len(a)]
    BY <1>1, ConcatOf, TailOf
<1> HIDE DEF s
<1>4. ASSUME NEW k \in 1..Len(a)
      PROVE  Callable(s, k, memory) /\ s[k].op \notin SnapshotCall
    <2>1. s[k] = a[k]
        BY <1>2, <1>3
    <2>2. Callable(a, k, memory) /\ a[k].op \notin SnapshotCall
        BY <1>2 DEF Lead, CallableAll
    <2>3. a[k].op # "discard_entries_before"
        BY <1>2, <2>2 DEF Lead, Callable
    <2> QED BY <2>1, <2>2, <2>3 DEF Callable
<1>5. ASSUME NEW j \in 1..Len(b)
      PROVE  Callable(s, j + Len(a), memory) /\ s[j + Len(a)] = b[j]
    <2>1. s[j + Len(a)] = b[j]
        BY <1>2, <1>3
    <2>2. Callable(b, j, memory) /\ b[j].op # "set_current_term"
        BY <1>2 DEF Rest, CallableAll
    <2>3. ASSUME b[j].op \in SnapshotCall
          PROVE  j + Len(a) = Len(s) - 1 /\ s[j + Len(a) + 1] = b[j + 1]
        <3>1. j = Len(b) - 1
            BY <2>2, <2>3 DEF Callable
        <3> QED BY <1>2, <1>3, <3>1
    <2>4. ASSUME b[j].op = "discard_entries_before"
          PROVE  j + Len(a) > 1 /\ s[j + Len(a) - 1] = b[j - 1]
        <3>1. j > 1
            BY <2>2, <2>4 DEF Callable
        <3> QED BY <1>2, <1>3, <3>1
    <2> QED BY <2>1, <2>2, <2>3, <2>4 DEF Callable
<1>6. ASSUME NEW k \in DOMAIN s
      PROVE  /\ Callable(s, k, memory)
             /\ Lead(b) => s[k].op \notin SnapshotCall
    <2>1. CASE k <= Len(a)
        BY <1>2, <1>3, <1>4, <2>1
    <2>2. CASE k > Len(a)
        <3>1. k - Len(a) \in 1..Len(b) /\ (k - Len(a)) + Len(a) = k
            BY <1>2, <1>3, <2>2
        <3>2. Callable(s, k, memory) /\ s[k] = b[k - Len(a)]
            BY <1>5, <3>1
        <3> QED BY <1>2, <3>1, <3>2 DEF Lead
    <2> QED BY <1>2, <1>3, <2>1, <2>2
<1>7. CallableAll(s, memory) /\ (Lead(b) => Lead(s))
    BY <1>3, <1>6 DEF CallableAll, Lead
<1> QED BY <1>7 DEF s

\* A newer term is adopted first.
LEMMA AdoptLeads == \A t \in 1..MaxTerm : Lead(AdoptTerm(t))
<1> SUFFICES ASSUME NEW t \in 1..MaxTerm PROVE Lead(AdoptTerm(t))
    OBVIOUS
<1> DEFINE a == Call("set_current_term", t)
           b == Call("set_voted_for", None)
<1>1. a.op = "set_current_term" /\ a.arg = t /\ b.op = "set_voted_for" /\ b.arg = None
    BY DEF Call
<1>2. AdoptTerm(t) = IF t > memory.current_term THEN <<a, b>> ELSE <<>>
    BY DEF AdoptTerm
<1> HIDE DEF a, b
<1>3. CASE t > memory.current_term
    <2>1. Callable(<<a, b>>, 1, memory) /\ Callable(<<a, b>>, 2, memory)
        BY <1>1, <1>3 DEF Callable, Operation, SnapshotCall
    <2> QED BY <1>1, <1>2, <1>3, <2>1, Tuples DEF Lead, CallableAll, SnapshotCall
<1>4. CASE ~(t > memory.current_term)
    BY <1>2, <1>4, Tuples DEF Lead, CallableAll
<1> QED BY <1>3, <1>4

\* A single call of the log or of the vote.
LEMMA OneCall ==
    /\ \A e \in Seq(Entry) : e # <<>> =>
           Lead(<<Call("append_entries", e)>>) /\ Rest(<<Call("append_entries", e)>>)
    /\ \A n \in Nat : Lead(<<Call("truncate_after", n)>>) /\ Rest(<<Call("truncate_after", n)>>)
    /\ \A v \in Node : Rest(<<Call("set_voted_for", v)>>)
    /\ Lead(<<>>) /\ Rest(<<>>)
<1> USE Tuples DEF Lead, Rest, CallableAll, Callable, Operation, SnapshotCall
<1>1. ASSUME NEW e \in Seq(Entry), e # <<>>
      PROVE  Lead(<<Call("append_entries", e)>>) /\ Rest(<<Call("append_entries", e)>>)
    <2> DEFINE c == Call("append_entries", e)
    <2>1. c.op = "append_entries" /\ c.arg = e
        BY DEF Call
    <2> HIDE DEF c
    <2>2. Lead(<<c>>) /\ Rest(<<c>>)
        BY <1>1, <2>1
    <2> QED BY <2>2 DEF c
<1>2. ASSUME NEW n \in Nat
      PROVE  Lead(<<Call("truncate_after", n)>>) /\ Rest(<<Call("truncate_after", n)>>)
    <2> DEFINE c == Call("truncate_after", n)
    <2>1. c.op = "truncate_after" /\ c.arg = n
        BY DEF Call
    <2> HIDE DEF c
    <2>2. Lead(<<c>>) /\ Rest(<<c>>)
        BY <2>1
    <2> QED BY <2>2 DEF c
<1>3. ASSUME NEW v \in Node PROVE Rest(<<Call("set_voted_for", v)>>)
    <2> DEFINE c == Call("set_voted_for", v)
    <2>1. c.op = "set_voted_for" /\ c.arg = v
        BY DEF Call
    <2> HIDE DEF c
    <2>2. Rest(<<c>>)
        BY <2>1
    <2> QED BY <2>2 DEF c
<1>4. Lead(<<>>) /\ Rest(<<>>)
    OBVIOUS
<1> QED BY <1>1, <1>2, <1>3, <1>4

\* Saving a snapshot and discarding what it covers.
LEMMA SnapshotPair ==
    ASSUME NoneIsNothing, NEW op \in SnapshotCall, NEW index \in Nat,
           index >= memory.first_log_index, NEW term, NEW data
    PROVE  Rest(<<Call(op, [last_included_index |-> index, last_included_term |-> term,
                            data |-> data]),
                  Call("discard_entries_before", index + 1)>>)
<1> DEFINE snap == [last_included_index |-> index, last_included_term |-> term,
                    data |-> data]
           a == Call(op, snap)
           b == Call("discard_entries_before", index + 1)
<1>1. snap # None
    BY DEF NoneIsNothing
<1>2. IsSnapshot(snap) /\ snap.last_included_index = index
    BY <1>1 DEF IsSnapshot
<1>3. a.op = op /\ a.arg = snap /\ b.op = "discard_entries_before"
    BY DEF Call
<1>4. b = Call("discard_entries_before", snap.last_included_index + 1)
    BY <1>2
<1> HIDE DEF snap, a, b
<1>5. Callable(<<a, b>>, 1, memory) /\ Callable(<<a, b>>, 2, memory)
    BY <1>2, <1>3, <1>4 DEF Callable, Operation, SnapshotCall
<1>6. Rest(<<a, b>>)
    BY <1>3, <1>5, Tuples DEF Rest, CallableAll, SnapshotCall
<1> QED BY <1>6 DEF a, b, snap

\* should_create asks for the entry that the snapshot is to end with.
LEMMA SnapshotCallsFollow ==
    ASSUME NoneIsNothing, NEW m, NEW sm, sm.last_applied \in Nat,
           memory.first_log_index \in Nat, m.first_log_index = memory.first_log_index
    PROVE  Rest(SnapshotCalls(m, sm))
<1> DEFINE index == sm.last_applied
           a == Call("save_snapshot",
                     [last_included_index |-> index,
                      last_included_term |-> get_entry(m, index).term,
                      data |-> create_snapshot(sm.data)])
           b == Call("discard_entries_before", index + 1)
<1>1. \/ SnapshotCalls(m, sm) = <<>>
      \/ SnapshotCalls(m, sm) = <<a, b>> /\ has_entry(m, index)
    BY DEF SnapshotCalls
<1>2. ASSUME has_entry(m, index) PROVE Rest(<<a, b>>)
    <2>1. index >= memory.first_log_index
        BY <1>2 DEF has_entry
    <2>2. "save_snapshot" \in SnapshotCall
        BY DEF SnapshotCall
    <2> QED BY <2>1, <2>2, SnapshotPair
<1> HIDE DEF a, b
<1> QED BY <1>1, <1>2, OneCall

\* What an event of the core calls can be called.
LEMMA EventCallable ==
    ASSUME NoneIsNothing, IsStorage(memory), Aligned(memory), Event
    PROVE  \E todo : CallableAll(todo, memory) /\ Begin(todo)
<1>1. /\ memory.current_term \in Nat /\ memory.first_log_index \in Nat
      /\ memory.log \in Seq(Entry)
    BY DEF IsStorage
<1>2. \A s : Lead(s) \/ Rest(s) => CallableAll(s, memory)
    BY DEF Lead, Rest
<1>3. Committed \in Seq(Entry) /\ Len(Committed) \in Nat /\ MaxTerm \in Nat
    BY StorageAssumption
<1>4. CASE StartElection
    <2> DEFINE a == Call("set_current_term", memory.current_term + 1)
               b == Call("set_voted_for", Self)
    <2>1. /\ a.op = "set_current_term" /\ a.arg = memory.current_term + 1
          /\ b.op = "set_voted_for" /\ b.arg = Self
        BY DEF Call
    <2>2. Begin(<<a, b>>) /\ memory.current_term + 1 \in 1..MaxTerm
        BY <1>1, <1>3, <1>4 DEF StartElection
    <2>3. Self \in Node
        BY StorageAssumption
    <2> HIDE DEF a, b
    <2>4. Callable(<<a, b>>, 1, memory) /\ Callable(<<a, b>>, 2, memory)
        BY <1>1, <2>1, <2>2, <2>3 DEF Callable, Operation, SnapshotCall
    <2>5. CallableAll(<<a, b>>, memory)
        BY <2>4, Tuples DEF CallableAll
    <2> QED BY <2>2, <2>5
<1>5. ASSUME NEW t \in 1..MaxTerm, NewerTerm(t)
      PROVE  \E todo : CallableAll(todo, memory) /\ Begin(todo)
    BY <1>2, <1>5, AdoptLeads DEF NewerTerm
<1>6. ASSUME NEW t \in 1..MaxTerm, NEW i \in Node, GrantVote(t, i)
      PROVE  \E todo : CallableAll(todo, memory) /\ Begin(todo)
    <2>1. CallableAll(AdoptTerm(t) \o <<Call("set_voted_for", i)>>, memory)
        BY AdoptLeads, OneCall, LeadThen
    <2> QED BY <1>6, <2>1 DEF GrantVote
<1>7. ASSUME NEW prev \in 0..Len(Committed), NEW last \in 0..Len(Committed),
             NEW commit \in 0..Len(Committed), AppendCommitted(prev, last, commit)
      PROVE  \E todo : CallableAll(todo, memory) /\ Begin(todo)
    <2> DEFINE entries == SubSeq(Committed, prev + 1, last)
               x == IF last_log_index(memory) > prev
                    THEN <<Call("truncate_after", prev)>> ELSE <<>>
               y == <<Call("append_entries", entries)>>
    <2>1. Begin(x \o y)
        BY <1>7 DEF AppendCommitted
    <2>2. entries \in Seq(Entry) /\ entries # <<>>
        <3>1. last > prev /\ last \in Nat /\ prev \in Nat /\ last <= Len(Committed)
            BY <1>3, <1>7 DEF AppendCommitted
        <3>2. entries \in Seq(Entry) /\ Len(entries) = last - prev
            BY <1>3, <3>1
        <3> HIDE DEF entries
        <3> QED BY <3>1, <3>2
    <2>3. Lead(x)
        BY <1>3, OneCall
    <2>4. Rest(y)
        BY <2>2, OneCall
    <2> HIDE DEF x, y
    <2>5. CallableAll(x \o y, memory)
        BY <2>3, <2>4, LeadThen
    <2> QED BY <2>1, <2>5
<1>8. ASSUME NEW t \in 1..MaxTerm, NEW index \in 1..Len(Committed), InstallSnapshot(t, index)
      PROVE  \E todo : CallableAll(todo, memory) /\ Begin(todo)
    <2> DEFINE text == create_snapshot(CommittedData(index))
               pair == <<Call("apply_snapshot_chunk",
                              [last_included_index |-> index,
                               last_included_term |-> Committed[index].term,
                               data |-> text]),
                         Call("discard_entries_before", index + 1)>>
    <2>1. /\ Begin(AdoptTerm(t) \o pair)
          /\ memory.snapshot # None => index > memory.snapshot.last_included_index
        BY <1>8 DEF InstallSnapshot
    <2>2. index \in Nat /\ index >= memory.first_log_index
        BY <1>3, <2>1 DEF Aligned, IsStorage, IsSnapshot
    <2>3. "apply_snapshot_chunk" \in SnapshotCall
        BY DEF SnapshotCall
    <2>4. Rest(pair)
        BY <2>2, <2>3, SnapshotPair
    <2> HIDE DEF pair
    <2>5. CallableAll(AdoptTerm(t) \o pair, memory)
        BY <2>4, AdoptLeads, LeadThen
    <2> QED BY <2>1, <2>5
<1>9. ASSUME NEW e \in Stray, AppendStray(e)
      PROVE  \E todo : CallableAll(todo, memory) /\ Begin(todo)
    <2>1. <<e>> \in Seq(Entry) /\ <<e>> # <<>>
        BY StorageAssumption
    <2>2. CallableAll(<<Call("append_entries", <<e>>)>>, memory)
        BY <1>2, <2>1, OneCall
    <2> QED BY <1>9, <2>2 DEF AppendStray
<1>10. ASSUME NEW commit \in 1..Len(Committed), CommitAdvances(commit)
       PROVE  \E todo : CallableAll(todo, memory) /\ Begin(todo)
    <2>1. Begin(SnapshotCalls(memory, machine')) /\ machine' = ApplyCommitted(memory, commit)
        BY <1>10 DEF CommitAdvances, CommitTo
    <2>2. machine'.last_applied = commit /\ commit \in Nat
        BY <1>3, <2>1 DEF ApplyCommitted
    <2>3. CallableAll(SnapshotCalls(memory, machine'), memory)
        BY <1>1, <1>2, <2>2, SnapshotCallsFollow
    <2> QED BY <2>1, <2>3
<1>11. ASSUME NEW commit, CommitLearned(commit)
       PROVE  \E todo : CallableAll(todo, memory) /\ Begin(todo)
    BY <1>2, <1>11, OneCall DEF CommitLearned
<1> QED BY <1>4, <1>5, <1>6, <1>7, <1>8, <1>9, <1>10, <1>11 DEF Event

\* One file written over, the others hold what did not change.
LEMMA Rewritten ==
    ASSUME NEW m, NEW n, NEW d, Represents(m, d), n.snapshot = m.snapshot,
           NEW f \in {"metadata", "log"},
           f = "metadata" => n.log = m.log,
           f = "log" => n.current_term = m.current_term /\ n.voted_for = m.voted_for
    PROVE  Represents(n, [d EXCEPT ![f] = Content(n, f)])
<1> DEFINE e == [d EXCEPT ![f] = Content(n, f)]
<1>1. DOMAIN d = File /\ f \in File
    BY DEF Represents, File
<1>2. DOMAIN e = File /\ e[f] = Content(n, f) /\ \A g \in File \ {f} : e[g] = d[g]
    BY <1>1
<1> HIDE DEF e
<1>3. OnDisk(n, e, f)
    BY <1>2 DEF OnDisk
<1>4. ASSUME NEW g \in File \ {f} PROVE OnDisk(n, e, g)
    <2>1. OnDisk(m, d, g) /\ e[g] = d[g]
        BY <1>2 DEF Represents
    <2>2. Content(n, g) = Content(m, g) /\ (Default(n, g) <=> Default(m, g))
        BY <1>4 DEF Content, Default, File
    <2> QED BY <2>1, <2>2 DEF OnDisk
<1>5. Represents(n, e)
    BY <1>2, <1>3, <1>4 DEF Represents
<1> QED BY <1>5 DEF e

\* A snapshot is written to two files.
LEMMA TwoWrites ==
    ASSUME TornWrites = FALSE
    PROVE  \A m : persist_snapshot(m) = <<Update(m, "snapshot_meta"), Update(m, "snapshot")>>
<1> SUFFICES ASSUME NEW m
             PROVE  persist_snapshot(m) = <<Update(m, "snapshot_meta"), Update(m, "snapshot")>>
    OBVIOUS
<1> DEFINE x == Update(m, "snapshot_meta")
           y == Update(m, "snapshot")
<1>1. /\ x = [file |-> "snapshot_meta", state |->
                 Written([last_included_index |-> m.snapshot.last_included_index,
                          last_included_term  |-> m.snapshot.last_included_term])]
      /\ y = [file |-> "snapshot", state |-> Written(m.snapshot.data)]
    BY DEF Update, Content
<1>2. persist_snapshot(m) = <<x>> \o <<y>>
    BY <1>1, WholeWrite DEF persist_snapshot
<1> HIDE DEF x, y
<1> QED BY <1>2, TwoOf DEF x, y

\* The calls one by one, and what they write.
LEMMA CallDoes ==
    ASSUME NEW m, NEW c
    PROVE  /\ c.op = "set_current_term" =>
                  Effect(m, c) = [m EXCEPT !.current_term = c.arg]
           /\ c.op = "set_voted_for" => Effect(m, c) = [m EXCEPT !.voted_for = c.arg]
           /\ c.op = "append_entries" => Effect(m, c) = append_entries(m, c.arg)
           /\ c.op = "truncate_after" => Effect(m, c) = truncate_after(m, c.arg)
           /\ c.op \in SnapshotCall => Effect(m, c) = [m EXCEPT !.snapshot = c.arg]
           /\ c.op = "discard_entries_before" =>
                  Effect(m, c) = discard_entries_before(m, c.arg)
           /\ c.op \in {"set_current_term", "set_voted_for"} =>
                  Persist(m, c) = persist_metadata(Effect(m, c))
           /\ c.op \in {"append_entries", "truncate_after"} =>
                  Persist(m, c) = persist_log(Effect(m, c))
           /\ c.op \in SnapshotCall => Persist(m, c) = persist_snapshot(Effect(m, c))
           /\ c.op = "discard_entries_before" /\ ~(c.arg <= m.first_log_index) =>
                  Persist(m, c) = persist_log(Effect(m, c))
<1>1. c.op = "set_current_term" => Effect(m, c) = [m EXCEPT !.current_term = c.arg]
    BY DEF Effect
<1>2. c.op = "set_voted_for" => Effect(m, c) = [m EXCEPT !.voted_for = c.arg]
    BY DEF Effect
<1>3. c.op = "append_entries" => Effect(m, c) = append_entries(m, c.arg)
    BY DEF Effect
<1>4. c.op = "truncate_after" => Effect(m, c) = truncate_after(m, c.arg)
    BY DEF Effect
<1>5. c.op \in SnapshotCall => Effect(m, c) = [m EXCEPT !.snapshot = c.arg]
    BY DEF Effect, SnapshotCall, save_snapshot, apply_snapshot_chunk
<1>6. c.op = "discard_entries_before" => Effect(m, c) = discard_entries_before(m, c.arg)
    BY DEF Effect
<1>7. c.op \in {"set_current_term", "set_voted_for"} =>
          Persist(m, c) = persist_metadata(Effect(m, c))
    BY DEF Persist, SnapshotCall
<1>8. c.op \in {"append_entries", "truncate_after"} =>
          Persist(m, c) = persist_log(Effect(m, c))
    BY DEF Persist, SnapshotCall
<1>9. c.op \in SnapshotCall => Persist(m, c) = persist_snapshot(Effect(m, c))
    BY DEF Persist, SnapshotCall
<1>10. c.op = "discard_entries_before" /\ ~(c.arg <= m.first_log_index) =>
          Persist(m, c) = persist_log(Effect(m, c))
    BY DEF Persist, SnapshotCall
<1> QED BY <1>1, <1>2, <1>3, <1>4, <1>5, <1>6, <1>7, <1>8, <1>9, <1>10

\* A call on the term, the vote or the log moves the storage by one step and
\* writes the one file that holds what it changed.
LEMMA SimpleCall ==
    ASSUME TornWrites = FALSE,
           NEW m, NEW d, NEW s, IsStorage(m), Aligned(m), Represents(m, d),
           Callable(s, 1, m),
           s[1].op \notin SnapshotCall
    PROVE  LET after == Effect(m, s[1])
           IN  /\ IsStorage(after) /\ Aligned(after) /\ Moved(m, after)
               /\ after.first_log_index = m.first_log_index
               /\ \E f \in {"metadata", "log"} :
                      /\ Persist(m, s[1]) = <<Update(after, f)>>
                      /\ Represents(after, [d EXCEPT ![f] = Content(after, f)])
<1> DEFINE c == s[1]
           after == Effect(m, c)
           Good(f) == /\ IsStorage(after) /\ Aligned(after) /\ Moved(m, after)
                      /\ after.first_log_index = m.first_log_index
                      /\ Persist(m, c) = <<Update(after, f)>>
                      /\ Represents(after, [d EXCEPT ![f] = Content(after, f)])
<1> SUFFICES \E f \in {"metadata", "log"} : Good(f)
    OBVIOUS
<1>1. /\ c.op \in Operation /\ c.op # "discard_entries_before"
      /\ c.op = "set_current_term" => c.arg \in 1..MaxTerm /\ c.arg > m.current_term
      /\ c.op = "set_voted_for" => c.arg \in Node \cup {None}
      /\ c.op = "append_entries" => c.arg \in Seq(Entry) /\ c.arg # <<>>
      /\ c.op = "truncate_after" => c.arg \in Nat
    BY DEF Callable
<1>2. /\ m = [current_term |-> m.current_term, voted_for |-> m.voted_for, log |-> m.log,
              snapshot |-> m.snapshot, first_log_index |-> m.first_log_index]
      /\ m.current_term \in Nat /\ m.voted_for \in Node \cup {None} /\ m.log \in Seq(Entry)
      /\ m.first_log_index \in Nat \ {0}
      /\ m.snapshot = None \/ IsSnapshot(m.snapshot)
    BY DEF IsStorage
<1>3. MaxTerm \in Nat
    BY StorageAssumption
<1>4. /\ persist_metadata(after) = <<Update(after, "metadata")>>
      /\ persist_log(after) = <<Update(after, "log")>>
    BY WholeWrite DEF persist_metadata, persist_log, Update, Content
<1> HIDE DEF c
<1>5. ASSUME NEW t, NEW v,
             after = [current_term |-> t, voted_for |-> v, log |-> m.log,
                      snapshot |-> m.snapshot, first_log_index |-> m.first_log_index],
             t \in Nat, v \in Node \cup {None}
      PROVE  /\ IsStorage(after) /\ Aligned(after)
             /\ after.first_log_index = m.first_log_index
             /\ Represents(after, [d EXCEPT !["metadata"] = Content(after, "metadata")])
    <2> HIDE DEF after
    <2>1. /\ after.current_term = t /\ after.voted_for = v /\ after.log = m.log
          /\ after.snapshot = m.snapshot /\ after.first_log_index = m.first_log_index
        BY <1>5
    <2>2. IsStorage(after) /\ Aligned(after)
        BY <1>2, <1>5, <2>1 DEF IsStorage, Aligned
    <2> QED BY <2>1, <2>2, Rewritten
<1>6. ASSUME NEW l \in Seq(Entry),
             after = [current_term |-> m.current_term, voted_for |-> m.voted_for, log |-> l,
                      snapshot |-> m.snapshot, first_log_index |-> m.first_log_index]
      PROVE  /\ IsStorage(after) /\ Aligned(after) /\ after.log = l
             /\ after.first_log_index = m.first_log_index
             /\ Represents(after, [d EXCEPT !["log"] = Content(after, "log")])
    <2> HIDE DEF after
    <2>1. /\ after.current_term = m.current_term /\ after.voted_for = m.voted_for
          /\ after.log = l
          /\ after.snapshot = m.snapshot /\ after.first_log_index = m.first_log_index
        BY <1>6
    <2>2. IsStorage(after) /\ Aligned(after)
        BY <1>2, <1>6, <2>1 DEF IsStorage, Aligned
    <2> QED BY <2>1, <2>2, Rewritten
<1>7. CASE c.op = "set_current_term"
    <2>1. after = [m EXCEPT !.current_term = c.arg] /\ Persist(m, c) = persist_metadata(after)
        BY <1>7, CallDoes
    <2> HIDE DEF after
    <2>2. after = [current_term |-> c.arg, voted_for |-> m.voted_for, log |-> m.log,
                   snapshot |-> m.snapshot, first_log_index |-> m.first_log_index]
        BY <1>2, <2>1
    <2>3. Moved(m, after)
        BY <1>1, <1>7, <2>1 DEF Moved
    <2>4. c.arg \in Nat
        BY <1>1, <1>3, <1>7
    <2>5. Good("metadata")
        BY <1>2, <1>4, <1>5, <2>1, <2>2, <2>3, <2>4
    <2> QED BY <2>5
<1>8. CASE c.op = "set_voted_for"
    <2>1. after = [m EXCEPT !.voted_for = c.arg] /\ Persist(m, c) = persist_metadata(after)
        BY <1>8, CallDoes
    <2> HIDE DEF after
    <2>2. after = [current_term |-> m.current_term, voted_for |-> c.arg, log |-> m.log,
                   snapshot |-> m.snapshot, first_log_index |-> m.first_log_index]
        BY <1>2, <2>1
    <2>3. Moved(m, after)
        BY <1>1, <1>8, <2>1 DEF Moved
    <2>4. Good("metadata")
        BY <1>1, <1>2, <1>4, <1>5, <1>8, <2>1, <2>2, <2>3
    <2> QED BY <2>4
<1>9. CASE c.op = "append_entries"
    <2> DEFINE l == m.log \o c.arg
    <2>1. after = [m EXCEPT !.log = l] /\ Persist(m, c) = persist_log(after)
        BY <1>9, CallDoes DEF append_entries
    <2>2. l \in Seq(Entry) /\ Len(l) > Len(m.log) /\ SubSeq(l, 1, Len(m.log)) = m.log
        BY <1>1, <1>2, <1>9, SubSeqOfConcat1, SubSeqFull
    <2> HIDE DEF after, l
    <2>3. after = [current_term |-> m.current_term, voted_for |-> m.voted_for, log |-> l,
                   snapshot |-> m.snapshot, first_log_index |-> m.first_log_index]
        BY <1>2, <2>1
    <2>4. after.log = l
        BY <2>3
    <2>5. Moved(m, after)
        BY <2>1, <2>2, <2>4 DEF Moved
    <2>6. Good("log")
        BY <1>4, <1>6, <2>1, <2>2, <2>3, <2>5
    <2> QED BY <2>6
<1>10. CASE c.op = "truncate_after"
    <2> DEFINE k == IF c.arg < m.first_log_index THEN 0
                    ELSE IF Len(m.log) < c.arg - m.first_log_index + 1 THEN Len(m.log)
                    ELSE c.arg - m.first_log_index + 1
               l == SubSeq(m.log, 1, k)
    <2>1. k \in 0..Len(m.log)
        BY <1>1, <1>2, <1>10
    <2>2. after = [m EXCEPT !.log = l] /\ Persist(m, c) = persist_log(after)
        <3>1. after = truncate_after(m, c.arg) /\ Persist(m, c) = persist_log(after)
            BY <1>10, CallDoes
        <3>2. SubSeq(m.log, 1, 0) = <<>>
            BY <1>2
        <3> QED BY <3>1, <3>2 DEF truncate_after
    <2> HIDE DEF k
    <2>3. l \in Seq(Entry)
        BY <1>2, <2>1
    <2>4. Moved(m, after)
        BY <2>1, <2>2 DEF Moved
    <2> HIDE DEF after, l
    <2>5. after = [current_term |-> m.current_term, voted_for |-> m.voted_for, log |-> l,
                   snapshot |-> m.snapshot, first_log_index |-> m.first_log_index]
        BY <1>2, <2>2
    <2>6. Good("log")
        BY <1>4, <1>6, <2>2, <2>3, <2>4, <2>5
    <2> QED BY <2>6
<1> QED BY <1>1, <1>7, <1>8, <1>9, <1>10 DEF Operation, SnapshotCall, c

-----------------------------------------------------------------------------
(* Steps                                                                   *)

\* What a crash would leave stays as it is or moves by one call.
Refines ==
    \/ Recoverable' = Recoverable
    \/ Moved(Recoverable, Recoverable')
    \/ Compacted(Recoverable, Recoverable')

\* Between two calls the files hold the memory.
LEMMA BetweenCalls ==
    ASSUME ConfigChange = {}, Durability, Idle \/ base = None, writes = <<>>
    PROVE  /\ Aligned(memory) /\ Represents(memory, disk) /\ CallableAll(calls, memory)
           /\ load_from_disk(disk) = memory
<1>1. Following /\ IsStorage(memory)
    BY DEF Durability
<1>2. \A a : writes # <<a>>
    OBVIOUS
<1>3. Aligned(memory) /\ Represents(memory, disk) /\ CallableAll(calls, memory)
    BY <1>1, <1>2 DEF Following
<1> QED BY <1>1, <1>3, Loads

\* An event begins.
LEMMA EventStep ==
    ASSUME NoneIsNothing, ConfigChange = {}, Durability, Idle, Event
    PROVE  Durability' /\ Refines
<1>1. writes = <<>> /\ Aligned(memory) /\ Represents(memory, disk) /\ IsStorage(memory)
    BY BetweenCalls DEF Idle, Durability
<1>2. PICK todo : CallableAll(todo, memory) /\ Begin(todo)
    BY <1>1, EventCallable
<1>3. /\ calls' = todo /\ memory' = memory /\ disk' = disk /\ writes' = writes
      /\ base' = None
    BY <1>2 DEF Begin
<1>4. Following'
    BY <1>1, <1>2, <1>3 DEF Following
<1>5. Durability'
    BY <1>1, <1>3, <1>4 DEF Durability
<1>6. Recoverable' = Recoverable
    BY <1>3 DEF Recoverable
<1> QED BY <1>5, <1>6 DEF Refines

\* The calls behind the one that was made.
LEMMA NextCalls ==
    ASSUME NEW s, NEW m, NEW n, CallableAll(s, m), s # <<>>, s[1].op \notin SnapshotCall,
           n.first_log_index = m.first_log_index
    PROVE  CallableAll(Tail(s), n)
<1>1. /\ Len(s) \in Nat /\ DOMAIN s = 1..Len(s) /\ Len(s) > 0 /\ IsSeq(Tail(s))
      /\ Len(Tail(s)) = Len(s) - 1 /\ DOMAIN Tail(s) = 1..(Len(s) - 1)
      /\ \A k \in 1..(Len(s) - 1) : Tail(s)[k] = s[k + 1]
    BY TailOf DEF CallableAll
<1> DEFINE r == Tail(s)
<1> HIDE DEF r
<1>2. ASSUME NEW k \in 1..(Len(s) - 1) PROVE Callable(r, k, n)
    <2>1. r[k] = s[k + 1] /\ k + 1 \in DOMAIN s /\ k \in Nat \ {0}
        BY <1>1 DEF r
    <2>2. Callable(s, k + 1, m)
        BY <2>1 DEF CallableAll
    <2>3. ASSUME r[k].op \in SnapshotCall
          PROVE  /\ k = Len(r) - 1 /\ r[k + 1] = s[k + 1 + 1]
        <3>1. k + 1 = Len(s) - 1
            BY <2>1, <2>2, <2>3 DEF Callable
        <3>2. k = Len(r) - 1
            BY <1>1, <2>1, <3>1 DEF r
        <3>3. k + 1 \in 1..(Len(s) - 1)
            BY <1>1, <2>1, <3>1
        <3> QED BY <1>1, <3>2, <3>3 DEF r
    <2>4. ASSUME r[k].op = "discard_entries_before"
          PROVE  k > 1 /\ r[k - 1].op \in SnapshotCall
        <3>1. s[k + 1 - 1].op \in SnapshotCall /\ k + 1 - 1 = k
            BY <2>1, <2>2, <2>4 DEF Callable
        <3>2. k > 1
            BY <2>1, <3>1
        <3>3. k - 1 \in 1..(Len(s) - 1) /\ k - 1 + 1 = k
            BY <1>1, <2>1, <3>2
        <3>4. r[k - 1] = s[k]
            BY <1>1, <3>3 DEF r
        <3> QED BY <3>1, <3>2, <3>4
    <2>5. r[k].op # "set_current_term"
        BY <2>1, <2>2 DEF Callable
    <2> QED BY <2>1, <2>2, <2>3, <2>4, <2>5 DEF Callable
<1> QED BY <1>1, <1>2 DEF CallableAll, r

\* The first call that is left, in an event that does not save a snapshot yet.
LEMMA MakeCallFollowing ==
    ASSUME TornWrites = FALSE, NoneIsNothing, ConfigChange = {}, Durability,
           Idle \/ base = None, MakeCall
    PROVE  Durability' /\ Refines
<1> DEFINE c == calls[1]
<1>1. /\ writes = <<>> /\ calls # <<>>
      /\ memory' = Effect(memory, Head(calls)) /\ writes' = Persist(memory, Head(calls))
      /\ calls' = Tail(calls) /\ disk' = disk
      /\ base' = IF Head(calls).op \in SnapshotCall THEN memory ELSE base
    BY DEF MakeCall
<1>2. /\ base = None /\ IsStorage(memory) /\ Aligned(memory) /\ Represents(memory, disk)
      /\ CallableAll(calls, memory) /\ load_from_disk(disk) = memory
    BY <1>1, BetweenCalls DEF Idle, Durability
<1>3. /\ Head(calls) = c /\ Len(calls) \in Nat /\ Len(calls) > 0
      /\ DOMAIN calls = 1..Len(calls)
      /\ Len(calls') = Len(calls) - 1
      /\ \A k \in 1..(Len(calls) - 1) : calls'[k] = calls[k + 1]
      /\ IsSeq(calls')
    BY <1>1, <1>2, TailOf DEF CallableAll
<1>4. Callable(calls, 1, memory)
    BY <1>2, <1>3 DEF CallableAll
<1>5. Recoverable = memory
    BY <1>2 DEF Recoverable
<1>6. CASE c.op \notin SnapshotCall
    <2>1. /\ IsStorage(memory') /\ Aligned(memory') /\ Moved(memory, memory')
          /\ memory'.first_log_index = memory.first_log_index
          /\ \E f \in {"metadata", "log"} :
                 /\ writes' = <<Update(memory', f)>>
                 /\ Represents(memory', [disk EXCEPT ![f] = Content(memory', f)])
        <3>1. LET after == Effect(memory, calls[1])
              IN  /\ IsStorage(after) /\ Aligned(after) /\ Moved(memory, after)
                  /\ after.first_log_index = memory.first_log_index
                  /\ \E f \in {"metadata", "log"} :
                         /\ Persist(memory, calls[1]) = <<Update(after, f)>>
                         /\ Represents(after, [disk EXCEPT ![f] = Content(after, f)])
            <4>1. IsStorage(memory) /\ Aligned(memory) /\ Represents(memory, disk)
                BY <1>2
            <4>2. calls[1].op \notin SnapshotCall
                BY <1>6
            <4> QED BY <1>4, <4>1, <4>2, SimpleCall, Zenon
        <3>2. memory' = Effect(memory, calls[1]) /\ writes' = Persist(memory, calls[1])
            BY <1>1, <1>3
        <3> QED BY <3>1, <3>2, Zenon
    <2>2. CallableAll(calls', memory')
        BY <1>1, <1>2, <1>6, <2>1, NextCalls
    <2>3. base' = None
        BY <1>1, <1>2, <1>3, <1>6
    <2>4. Following'
        BY <1>1, <1>2, <2>1, <2>2 DEF Following, Update, Content
    <2>5. Durability'
        BY <2>1, <2>3, <2>4 DEF Durability
    <2>6. Recoverable' = memory
        BY <1>1, <1>2, <2>3 DEF Recoverable
    <2> QED BY <1>5, <2>5, <2>6 DEF Refines
<1>7. CASE c.op \in SnapshotCall
    <2>1. /\ IsSnapshot(c.arg) /\ c.arg.last_included_index >= memory.first_log_index
          /\ 1 = Len(calls) - 1
          /\ calls[2] = Call("discard_entries_before", c.arg.last_included_index + 1)
        BY <1>4, <1>7 DEF Callable
    <2>2. /\ memory' = [memory EXCEPT !.snapshot = c.arg]
          /\ writes' = persist_snapshot(memory') /\ base' = memory
        BY <1>1, <1>3, <1>7, CallDoes
    <2>3. memory' = [current_term |-> memory.current_term, voted_for |-> memory.voted_for,
                     log |-> memory.log, snapshot |-> c.arg,
                     first_log_index |-> memory.first_log_index]
        BY <1>2, <2>2 DEF IsStorage
    <2> HIDE DEF c
    <2>4. /\ memory'.current_term = memory.current_term
          /\ memory'.voted_for = memory.voted_for
          /\ memory'.log = memory.log /\ memory'.snapshot = c.arg
          /\ memory'.first_log_index = memory.first_log_index
        BY <2>3
    <2>5. IsStorage(memory')
        BY <1>2, <2>1, <2>3, <2>4 DEF IsStorage
    <2>6. base' # None /\ IsStorage(base') /\ Aligned(base')
        BY <1>2, <2>2 DEF NoneIsNothing, IsStorage
    <2>7. calls' = <<Call("discard_entries_before", memory'.snapshot.last_included_index + 1)>>
        <3> DEFINE b == Call("discard_entries_before", memory'.snapshot.last_included_index + 1)
        <3>1. Len(calls') = 1 /\ calls'[1] = b
            <4>1. Len(calls) = 2 /\ 1 \in 1..(Len(calls) - 1) /\ 1 + 1 = 2
                <5>1. Len(calls) \in Nat
                    BY <1>3
                <5>2. 1 = Len(calls) - 1
                    BY <2>1
                <5> QED BY <5>1, <5>2
            <4>2. Len(calls') = 1 /\ calls'[1] = calls[2]
                BY <1>3, <4>1
            <4> QED BY <2>1, <2>4, <4>2
        <3> HIDE DEF b
        <3>2. calls' \in Seq(Range(calls')) /\ <<b>> \in Seq({b})
            BY <1>3 DEF IsSeq
        <3>3. Len(<<b>>) = 1 /\ <<b>>[1] = b
            OBVIOUS
        <3>4. calls' = <<b>>
            BY <3>1, <3>2, <3>3, SeqEqual
        <3> QED BY <3>4 DEF b
    <2>8. writes' = <<Update(memory', "snapshot_meta"), Update(memory', "snapshot")>>
        BY <2>2, TwoWrites
    <2>9. OnDisk(memory', disk, "metadata") /\ OnDisk(memory', disk, "log") /\ DOMAIN disk = File
        <3>1. OnDisk(memory, disk, "metadata") /\ OnDisk(memory, disk, "log")
            BY <1>2 DEF Represents, File
        <3> QED BY <1>2, <2>4, <3>1 DEF OnDisk, Content, Default, Represents
    <2>10. memory' = [base' EXCEPT !.snapshot = memory'.snapshot]
        BY <2>2, <2>4
    <2>11. Saving'
        BY <1>1, <2>7, <2>8, <2>9, <2>10 DEF Saving, Update, Content
    <2>12. ~Idle'
        BY <2>7 DEF Idle
    <2>13. Durability'
        BY <2>1, <2>2, <2>4, <2>5, <2>6, <2>11, <2>12 DEF Durability
    <2>14. Recoverable' = memory
        BY <2>2, <2>6, <2>12 DEF Recoverable
    <2> QED BY <1>5, <2>13, <2>14 DEF Refines
<1> QED BY <1>6, <1>7

\* What the entries of a snapshot are discarded to.
LEMMA DiscardStep ==
    ASSUME TornWrites = FALSE, Durability, ~(Idle \/ base = None), MakeCall
    PROVE  Durability' /\ Refines
<1> DEFINE index == memory.snapshot.last_included_index
           b == Call("discard_entries_before", index + 1)
<1>1. /\ writes = <<>> /\ calls # <<>>
      /\ memory' = Effect(memory, Head(calls)) /\ writes' = Persist(memory, Head(calls))
      /\ calls' = Tail(calls) /\ disk' = disk
      /\ base' = IF Head(calls).op \in SnapshotCall THEN memory ELSE base
    BY DEF MakeCall
<1>2. /\ IsStorage(memory) /\ IsStorage(base) /\ Aligned(base)
      /\ IsSnapshot(memory.snapshot) /\ index >= base.first_log_index /\ Saving
    BY <1>1 DEF Durability, Discarding
<1>3. b.op = "discard_entries_before" /\ b.arg = index + 1
    BY DEF Call
<1>4. calls = <<b>> /\ memory = [base EXCEPT !.snapshot = memory.snapshot]
    BY <1>2 DEF Saving
<1>5. Represents(memory, disk)
    BY <1>1, <1>2 DEF Saving
<1>6. /\ base = [current_term |-> base.current_term, voted_for |-> base.voted_for,
                 log |-> base.log, snapshot |-> base.snapshot,
                 first_log_index |-> base.first_log_index]
      /\ base.log \in Seq(Entry) /\ Len(base.log) \in Nat
      /\ base.first_log_index \in Nat \ {0}
    BY <1>2 DEF IsStorage
<1>7. memory = [current_term |-> base.current_term, voted_for |-> base.voted_for,
                log |-> base.log, snapshot |-> memory.snapshot,
                first_log_index |-> base.first_log_index]
    BY <1>4, <1>6
<1>8. memory.log = base.log /\ memory.first_log_index = base.first_log_index
    BY <1>7
<1>9. index \in Nat
    BY <1>2 DEF IsSnapshot
<1> HIDE DEF b
<1>10. Head(calls) = b /\ calls' = <<>>
    BY <1>1, <1>4
<1>11. ~(b.arg <= memory.first_log_index)
    BY <1>2, <1>3, <1>6, <1>8, <1>9
<1> DEFINE log == SubSeq(base.log, index + 2 - base.first_log_index, Len(base.log))
<1>12. /\ memory' = [memory EXCEPT !.log = log, !.first_log_index = index + 1]
       /\ writes' = persist_log(memory')
    <2>1. memory' = discard_entries_before(memory, b.arg) /\ writes' = persist_log(memory')
        BY <1>1, <1>3, <1>10, <1>11, CallDoes
    <2>2. memory' = [memory EXCEPT !.log = SubSeq(memory.log, b.arg - memory.first_log_index + 1,
                                                  Len(memory.log)),
                                   !.first_log_index = b.arg]
        BY <1>11, <2>1 DEF discard_entries_before
    <2>3. b.arg - memory.first_log_index + 1 = index + 2 - base.first_log_index
        BY <1>3, <1>6, <1>8, <1>9
    <2> QED BY <1>3, <1>8, <2>1, <2>2, <2>3
<1>13. log \in Seq(Entry)
    <2>1. index + 2 - base.first_log_index \in Nat \ {0}
        BY <1>2, <1>6, <1>9
    <2> QED BY <1>6, <2>1
<1> HIDE DEF log
<1>14. memory' = [current_term |-> base.current_term, voted_for |-> base.voted_for,
                  log |-> log, snapshot |-> memory.snapshot, first_log_index |-> index + 1]
    <2> DEFINE snap == memory.snapshot
               first == index + 1
    <2>1. memory = [current_term |-> base.current_term, voted_for |-> base.voted_for,
                    log |-> base.log, snapshot |-> snap,
                    first_log_index |-> base.first_log_index]
        BY <1>7
    <2>2. memory' = [memory EXCEPT !.log = log, !.first_log_index = first]
        BY <1>12
    <2> HIDE DEF snap, first
    <2>3. memory' = [current_term |-> base.current_term, voted_for |-> base.voted_for,
                     log |-> log, snapshot |-> snap, first_log_index |-> first]
        BY <2>1, <2>2
    <2> QED BY <2>3 DEF snap, first
<1>15. /\ memory'.current_term = base.current_term /\ memory'.voted_for = base.voted_for
       /\ memory'.log = log /\ memory'.snapshot = memory.snapshot
       /\ memory'.first_log_index = index + 1
    BY <1>14
<1>16. /\ memory.current_term = base.current_term /\ memory.voted_for = base.voted_for
    BY <1>7
<1>17. IsStorage(memory')
    BY <1>2, <1>9, <1>13, <1>14, <1>15, <1>16 DEF IsStorage
<1>18. writes' = <<Update(memory', "log")>>
    <2>1. \A m : persist_log(m) = <<Update(m, "log")>>
        BY WholeWrite DEF persist_log, Update, Content
    <2> QED BY <1>12, <2>1
<1>19. base' = base
    BY <1>1, <1>3, <1>10 DEF SnapshotCall
<1>20. Compacted(base, memory')
    <2>1. memory'.snapshot.last_included_index = index
        BY <1>15
    <2>2. memory' = [base EXCEPT !.snapshot = memory'.snapshot, !.log = log,
                                 !.first_log_index = index + 1]
        BY <1>6, <1>14, <1>15
    <2> QED BY <1>2, <1>15, <2>1, <2>2 DEF Compacted, log
<1>21. Represents(memory', [disk EXCEPT !["log"] = Content(memory', "log")])
    <2>1. /\ memory'.snapshot = memory.snapshot
          /\ memory'.current_term = memory.current_term
          /\ memory'.voted_for = memory.voted_for
        BY <1>15, <1>16
    <2>2. "log" \in {"metadata", "log"} /\ "log" # "metadata"
        OBVIOUS
    <2> QED BY <1>5, <2>1, <2>2, Rewritten
<1>22. Discarding'
    BY <1>1, <1>10, <1>18, <1>19, <1>20, <1>21 DEF Discarding, Update, Content
<1>23. ~Idle' /\ base' # None
    BY <1>18, <1>19 DEF Idle
<1>24. Durability'
    BY <1>2, <1>15, <1>17, <1>19, <1>22, <1>23 DEF Durability
<1>25. Recoverable' = Recoverable
    BY <1>19, <1>23 DEF Recoverable
<1> QED BY <1>24, <1>25 DEF Refines

\* A file is written.
LEMMA WriteStep ==
    ASSUME ConfigChange = {}, Durability, WriteFile
    PROVE  Durability' /\ Refines
<1>1. /\ writes # <<>>
      /\ disk' = [disk EXCEPT ![Head(writes).file] = Head(writes).state]
      /\ writes' = Tail(writes) /\ UNCHANGED <<memory, calls, base>>
    BY DEF WriteFile
<1>2. \A m, f : Update(m, f).file = f /\ Update(m, f).state = Content(m, f)
    BY DEF Update
<1>3. IsStorage(memory)
    BY DEF Durability
<1>4. CASE Idle \/ base = None
    <2>1. base = None /\ Following
        BY <1>1, <1>4 DEF Idle, Durability
    <2>2. Moved(load_from_disk(disk), memory)
        BY <1>1, <2>1 DEF Following
    <2>3. PICK f \in {"metadata", "log"} :
              /\ writes = <<Update(memory, f)>>
              /\ Represents(memory, [disk EXCEPT ![f] = Content(memory, f)])
        BY <1>1, <2>1 DEF Following
    <2>4. Head(writes) = Update(memory, f) /\ writes' = <<>>
        BY <1>1, <2>3
    <2>5. disk' = [disk EXCEPT ![f] = Content(memory, f)]
        BY <1>1, <1>2, <2>4
    <2>6. Represents(memory, disk')
        BY <2>3, <2>5
    <2>7. Aligned(memory) /\ CallableAll(calls, memory)
        BY <2>1 DEF Following
    <2>8. Following'
        BY <1>1, <2>4, <2>6, <2>7 DEF Following
    <2>9. Durability'
        BY <1>1, <1>3, <2>1, <2>8 DEF Durability
    <2>10. load_from_disk(disk') = memory
        BY <1>3, <2>6, <2>7, Loads
    <2>11. Recoverable = load_from_disk(disk) /\ Recoverable' = memory
        BY <1>1, <2>1, <2>10 DEF Recoverable
    <2> QED BY <2>2, <2>9, <2>11 DEF Refines
<1>5. CASE ~(Idle \/ base = None)
    <2>1. /\ IsStorage(base) /\ Aligned(base) /\ IsSnapshot(memory.snapshot)
          /\ memory.snapshot.last_included_index >= base.first_log_index
          /\ base # None
        BY <1>5 DEF Durability
    <2>2. memory.snapshot # None
        BY <2>1 DEF IsSnapshot
    <2>3. CASE Saving
        <3>1. calls' # <<>> /\ ~Idle' /\ base' # None
            BY <1>1, <2>1, <2>3 DEF Saving, Idle
        <3>2. /\ DOMAIN disk = File /\ OnDisk(memory, disk, "metadata")
              /\ OnDisk(memory, disk, "log")
            BY <2>3 DEF Saving
        <3>3. Saving'
            <4>1. CASE writes = <<Update(memory, "snapshot_meta"), Update(memory, "snapshot")>>
                <5>1. /\ Head(writes) = Update(memory, "snapshot_meta")
                      /\ writes' = <<Update(memory, "snapshot")>>
                    BY <1>1, <4>1
                <5>2. disk' = [disk EXCEPT !["snapshot_meta"] = Content(memory, "snapshot_meta")]
                    BY <1>1, <1>2, <5>1
                <5>3. /\ DOMAIN disk' = File
                      /\ disk'["snapshot_meta"] = Content(memory, "snapshot_meta")
                      /\ disk'["metadata"] = disk["metadata"] /\ disk'["log"] = disk["log"]
                    BY <3>2, <5>2 DEF File
                <5>4. /\ OnDisk(memory, disk', "snapshot_meta")
                      /\ OnDisk(memory, disk', "metadata") /\ OnDisk(memory, disk', "log")
                    BY <2>2, <3>2, <5>3 DEF OnDisk
                <5> QED BY <1>1, <2>3, <5>1, <5>3, <5>4
                        DEF Saving, OnDisk, Update, Content, Default
            <4>2. CASE /\ writes = <<Update(memory, "snapshot")>>
                       /\ OnDisk(memory, disk, "snapshot_meta")
                <5>1. Head(writes) = Update(memory, "snapshot") /\ writes' = <<>>
                    BY <1>1, <4>2
                <5>2. disk' = [disk EXCEPT !["snapshot"] = Content(memory, "snapshot")]
                    BY <1>1, <1>2, <5>1
                <5>3. /\ DOMAIN disk' = File
                      /\ disk'["snapshot"] = Content(memory, "snapshot")
                      /\ \A f \in File \ {"snapshot"} : disk'[f] = disk[f]
                    BY <3>2, <5>2 DEF File
                <5>4. \A f \in File : OnDisk(memory, disk', f)
                    BY <2>2, <3>2, <4>2, <5>3 DEF OnDisk, File
                <5>5. Represents(memory, disk')
                    BY <5>3, <5>4 DEF Represents
                <5>6. OnDisk(memory, disk', "metadata") /\ OnDisk(memory, disk', "log")
                    BY <5>4 DEF File
                <5> QED BY <1>1, <2>3, <5>1, <5>3, <5>5, <5>6
                        DEF Saving, Represents, OnDisk, Update, Content, Default
            <4> QED BY <1>1, <2>3, <4>1, <4>2 DEF Saving
        <3>4. Durability'
            BY <1>1, <1>3, <2>1, <3>1, <3>3 DEF Durability
        <3>5. Recoverable' = Recoverable
            BY <1>1, <1>5, <3>1 DEF Recoverable
        <3> QED BY <3>4, <3>5 DEF Refines
    <2>4. CASE Discarding
        <3>1. /\ calls = <<>> /\ writes = <<Update(memory, "log")>> /\ Compacted(base, memory)
              /\ Represents(memory, [disk EXCEPT !["log"] = Content(memory, "log")])
            BY <2>4 DEF Discarding
        <3>2. Head(writes) = Update(memory, "log") /\ writes' = <<>>
            BY <1>1, <3>1
        <3>3. Represents(memory, disk')
            BY <1>1, <1>2, <3>1, <3>2
        <3>4. Aligned(memory)
            <4>1. memory.first_log_index = memory.snapshot.last_included_index + 1
                <5> DEFINE log == SubSeq(base.log, memory.snapshot.last_included_index + 2
                                                       - base.first_log_index, Len(base.log))
                <5>1. memory = [base EXCEPT !.snapshot = memory.snapshot, !.log = log,
                            !.first_log_index = memory.snapshot.last_included_index + 1]
                    BY <3>1 DEF Compacted
                <5> HIDE DEF log
                <5> QED BY <2>1, <5>1 DEF IsStorage
            <4> QED BY <2>2, <4>1 DEF Aligned
        <3>5. CallableAll(<<>>, memory)
            BY Tuples DEF CallableAll
        <3>6. Idle' /\ Following'
            BY <1>1, <3>1, <3>2, <3>3, <3>4, <3>5 DEF Idle, Following
        <3>7. Durability'
            BY <1>1, <1>3, <3>6 DEF Durability
        <3>8. Recoverable = base /\ Recoverable' = memory
            BY <1>3, <1>5, <3>3, <3>4, <3>6, Loads DEF Recoverable
        <3> QED BY <3>1, <3>7, <3>8 DEF Refines
    <2> QED BY <1>5, <2>3, <2>4 DEF Durability
<1> QED BY <1>4, <1>5

\* A restart finds what the files hold.
LEMMA CrashStep ==
    ASSUME ConfigChange = {}, SnapshotCrashes = FALSE, Durability, Crash
    PROVE  Durability' /\ Refines
<1>1. /\ Idle \/ base = None
      /\ memory' = load_from_disk(disk) /\ calls' = <<>> /\ writes' = <<>>
      /\ UNCHANGED <<disk, base>>
    BY DEF Crash
<1>2. IsStorage(memory') /\ Aligned(memory') /\ Represents(memory', disk)
    <2>1. CASE writes = <<>>
        BY <1>1, <2>1, BetweenCalls DEF Durability
    <2>2. CASE writes # <<>>
        BY <1>1, <2>2 DEF Durability, Following
    <2> QED BY <2>1, <2>2
<1>3. CallableAll(<<>>, memory')
    BY Tuples DEF CallableAll
<1>4. Idle' /\ Following'
    BY <1>1, <1>2, <1>3 DEF Idle, Following
<1>5. Durability'
    BY <1>2, <1>4 DEF Durability
<1>6. Recoverable' = Recoverable
    BY <1>1, <1>4 DEF Recoverable
<1> QED BY <1>5, <1>6 DEF Refines

\* Every step keeps files and memory together.
LEMMA StorageStep ==
    ASSUME NoneIsNothing, ConfigChange = {}, SnapshotCrashes = FALSE, TornWrites = FALSE,
           Durability, [Next]_vars
    PROVE  Durability' /\ Refines
<1>1. CASE Idle /\ Event
    BY <1>1, EventStep
<1>2. CASE MakeCall
    BY <1>2, MakeCallFollowing, DiscardStep
<1>3. CASE WriteFile
    BY <1>3, WriteStep
<1>4. CASE Crash
    BY <1>4, CrashStep
<1>5. CASE UNCHANGED vars
    BY <1>5 DEF vars, Durability, Following, Saving, Discarding, Idle, Refines, Recoverable
<1> QED BY <1>1, <1>2, <1>3, <1>4, <1>5 DEF Next

\* The storage of a node that starts for the first time.
LEMMA FirstStart ==
    ASSUME Init
    PROVE  /\ Durability
           /\ Recoverable = [current_term |-> 0, voted_for |-> None, log |-> <<>>,
                             first_log_index |-> 1, snapshot |-> None]
<1> DEFINE m == [current_term |-> 0, voted_for |-> None, log |-> <<>>, snapshot |-> None,
                 first_log_index |-> 1]
<1>1. /\ disk = [f \in File |-> Missing] /\ memory = load_from_disk(disk)
      /\ calls = <<>> /\ writes = <<>> /\ base = None
    BY DEF Init
<1>2. Missing.is = "missing"
    BY DEF Missing
<1>3. \A f \in File : disk[f].is = "missing"
    BY <1>1, <1>2
<1>4. load_from_disk(disk) = m
    BY <1>3 DEF load_from_disk, File
<1>5. /\ m.current_term = 0 /\ m.voted_for = None /\ m.log = <<>> /\ m.snapshot = None
      /\ m.first_log_index = 1
    OBVIOUS
<1> HIDE DEF m
<1>6. IsStorage(m) /\ Aligned(m)
    BY <1>5 DEF IsStorage, Aligned, m
<1>7. Represents(m, disk)
    BY <1>1, <1>5 DEF Represents, OnDisk, Default, File
<1>8. CallableAll(calls, m)
    BY <1>1, Tuples DEF CallableAll
<1>9. Following /\ Idle
    BY <1>1, <1>4, <1>6, <1>7, <1>8 DEF Following, Idle
<1> QED BY <1>1, <1>4, <1>6, <1>9 DEF Durability, Recoverable, m

(***************************************************************************)
(* Once an event is over, load_from_disk would return the storage as it is *)
(* in memory: for every sequence of events, wherever a crash has cut one   *)
(* short, as long as a crash leaves the old content of a file or the new   *)
(* one, none falls into the saving of a snapshot, and the log holds        *)
(* commands only.                                                          *)
(***************************************************************************)
THEOREM MemoryDurable ==
    ASSUME NoneIsNothing, ConfigChange = {}, SnapshotCrashes = FALSE, TornWrites = FALSE
    PROVE  Spec => []MemoryIsDurable
<1>1. Init => Durability
    BY FirstStart
<1>2. Durability /\ [Next]_vars => Durability'
    BY StorageStep
<1>3. Durability => MemoryIsDurable
    BY BetweenCalls DEF MemoryIsDurable, Idle
<1> QED BY <1>1, <1>2, <1>3, PTL DEF Spec

-----------------------------------------------------------------------------
(* Refinement                                                              *)

\* What a crash would leave is a storage.
LEMMA RecoverableIsStorage ==
    ConfigChange = {} /\ Durability => IsStorage(Recoverable)
<1> SUFFICES ASSUME ConfigChange = {}, Durability PROVE IsStorage(Recoverable)
    OBVIOUS
<1>1. CASE Idle \/ base = None
    <2>1. Recoverable = load_from_disk(disk)
        BY <1>1 DEF Recoverable
    <2>2. CASE writes = <<>>
        BY <1>1, <2>1, <2>2, BetweenCalls DEF Durability
    <2>3. CASE writes # <<>>
        BY <1>1, <2>1, <2>3 DEF Durability, Following
    <2> QED BY <2>2, <2>3
<1>2. CASE ~(Idle \/ base = None)
    BY <1>2 DEF Durability, Recoverable
<1> QED BY <1>1, <1>2

\* Entries that were added are the end of the log.
LEMMA AddedEntries ==
    ASSUME NEW r, NEW m, IsStorage(r), IsStorage(m),
           Len(m.log) > Len(r.log),
           SubSeq(m.log, 1, Len(r.log)) = r.log,
           m = [r EXCEPT !.log = m.log]
    PROVE  \E k \in 1 .. Len(m.log) :
               /\ SubSeq(m.log, Len(m.log) - k + 1, Len(m.log)) \in Seq(Entry)
               /\ m = [r EXCEPT !.log =
                      @ \o SubSeq(m.log, Len(m.log) - k + 1, Len(m.log))]
<1> DEFINE a == r.log
           b == m.log
           k == Len(b) - Len(a)
           c == SubSeq(b, Len(a) + 1, Len(b))
<1>1. a \in Seq(Entry) /\ b \in Seq(Entry) /\ Len(a) \in Nat /\ Len(b) \in Nat
    BY DEF IsStorage
<1>2. k \in 1..Len(b) /\ Len(b) - k + 1 = Len(a) + 1
    BY <1>1
<1>3. c \in Seq(Entry)
    BY <1>1
<1>4. a \o c = b
    <2>1. SubSeq(b, 1, Len(a)) \o SubSeq(b, Len(a) + 1, Len(b)) = SubSeq(b, 1, Len(b))
        <3>1. /\ 1 \in 1..(Len(b) + 1) /\ Len(a) \in (1 - 1)..Len(b)
              /\ Len(b) \in Len(a)..Len(b)
            BY <1>1
        <3> HIDE DEF a, b
        <3> QED BY <1>1, <3>1, ConcatAdjacentSubSeq
    <2>2. SubSeq(b, 1, Len(b)) = b
        BY <1>1, SubSeqFull
    <2> QED BY <2>1, <2>2
<1>5. m = [r EXCEPT !.log = a \o c]
    BY <1>4
<1> QED BY <1>2, <1>3, <1>5

\* What is left of the log keeps its index.
LEMMA LeftEntries ==
    ASSUME NEW r, NEW m, IsStorage(r), Compacted(r, m)
    PROVE  LET covered == m.first_log_index - 1
               old == r.first_log_index .. (r.first_log_index + Len(r.log) - 1)
               new == m.first_log_index .. (m.first_log_index + Len(m.log) - 1)
           IN  /\ m.snapshot # None
               /\ m.snapshot.last_included_index = covered
               /\ covered >= r.first_log_index
               /\ new = {i \in old : i > covered}
               /\ \A i \in new : m.log[i - m.first_log_index + 1] =
                                 r.log[i - r.first_log_index + 1]
               /\ m.current_term = r.current_term
               /\ m.voted_for = r.voted_for
<1> DEFINE index == m.snapshot.last_included_index
           j == index + 2 - r.first_log_index
           log == SubSeq(r.log, j, Len(r.log))
           snap == m.snapshot
           first == index + 1
<1>1. /\ r = [current_term |-> r.current_term, voted_for |-> r.voted_for, log |-> r.log,
              snapshot |-> r.snapshot, first_log_index |-> r.first_log_index]
      /\ r.log \in Seq(Entry) /\ Len(r.log) \in Nat /\ r.first_log_index \in Nat \ {0}
    BY DEF IsStorage
<1>2. /\ index >= r.first_log_index /\ index \in Nat /\ snap # None
      /\ m = [r EXCEPT !.snapshot = snap, !.log = log, !.first_log_index = first]
    BY DEF Compacted, IsSnapshot
<1>3. j \in Nat \ {0}
    BY <1>1, <1>2
<1>4. /\ Len(log) = IF j > Len(r.log) THEN 0 ELSE Len(r.log) - j + 1
      /\ \A i \in 1..Len(log) : log[i] = r.log[j + i - 1]
    BY <1>1, <1>3
<1>5. /\ m.first_log_index = first /\ m.log = log
      /\ m.current_term = r.current_term /\ m.voted_for = r.voted_for
    <2> HIDE DEF snap, log, first
    <2> QED BY <1>1, <1>2
<1> DEFINE f == r.first_log_index
           n == Len(r.log)
           l == Len(log)
<1>6. /\ f \in Nat \ {0} /\ n \in Nat /\ index \in Nat /\ index >= f
      /\ j = index + 2 - f /\ first = index + 1
      /\ l = IF j > n THEN 0 ELSE n - j + 1
    BY <1>1, <1>2, <1>4
<1> HIDE DEF log, f, n, l, j, first, index
<1>7. first..(first + l - 1) = {i \in f..(f + n - 1) : i > index}
    BY <1>6
<1>8. ASSUME NEW i \in first..(first + l - 1)
      PROVE  log[i - first + 1] = r.log[i - f + 1]
    <2>1. i - first + 1 \in 1..l /\ j + (i - first + 1) - 1 = i - f + 1
        BY <1>6
    <2> QED BY <1>4, <2>1 DEF l
<1>9. first - 1 = index
    BY <1>6
<1> QED BY <1>2, <1>5, <1>6, <1>7, <1>8, <1>9 DEF f, n, l, index, snap

(***************************************************************************)
(* Under the same conditions the four files together implement the storage *)
(* that the core takes for granted: its calls are atomic and there after   *)
(* a crash, which is no step of it at all.  This is the specification of   *)
(* DurableStorage, with what load_from_disk would return as its state.     *)
(***************************************************************************)
THEOREM StorageImplements ==
    ASSUME NoneIsNothing, ConfigChange = {}, SnapshotCrashes = FALSE, TornWrites = FALSE
    PROVE  Spec => ImplementsDurableStorage
<1>1. Init => Durability /\ Durable!DurableInit
    BY FirstStart DEF Durable!DurableInit
<1>2. Durability /\ [Next]_vars => Durability'
    BY StorageStep
<1>3. Durability => IsStorage(Recoverable)
    BY RecoverableIsStorage
<1>4. ASSUME IsStorage(Recoverable), IsStorage(Recoverable'), Refines
      PROVE  [Durable!DurableNext]_Recoverable
    <2> DEFINE r == Recoverable
               m == Recoverable'
    <2>1. CASE \E t \in 1..MaxTerm : t > r.current_term /\ m = [r EXCEPT !.current_term = t]
        BY <2>1 DEF Durable!DurableNext, Durable!SetTerm
    <2>2. CASE \E v \in Node \cup {None} : m = [r EXCEPT !.voted_for = v]
        BY <2>2 DEF Durable!DurableNext, Durable!SetVote
    <2>3. CASE /\ Len(m.log) > Len(r.log)
               /\ SubSeq(m.log, 1, Len(r.log)) = r.log
               /\ m = [r EXCEPT !.log = m.log]
        <3>1. Durable!AppendDurably
            BY <1>4, <2>3, AddedEntries DEF Durable!AppendDurably
        <3> QED BY <3>1 DEF Durable!DurableNext
    <2>4. CASE \E k \in 0..Len(r.log) : m = [r EXCEPT !.log = SubSeq(@, 1, k)]
        BY <2>4 DEF Durable!DurableNext, Durable!TruncateDurably
    <2>5. CASE Compacted(r, m)
        <3>1. Durable!CompactDurably
            BY <1>4, <2>5, LeftEntries
            DEF Durable!CompactDurably, Durable!Indices, Durable!EntryAt
        <3> QED BY <3>1 DEF Durable!DurableNext
    <2>6. CASE m = r
        BY <2>6
    <2> QED BY <1>4, <2>1, <2>2, <2>3, <2>4, <2>5, <2>6 DEF Refines, Moved
<1>5. Durability /\ [Next]_vars => Refines
    BY StorageStep
<1>6. /\ Durability /\ [Next]_vars
      /\ IsStorage(Recoverable) /\ IsStorage(Recoverable)'
      => [Durable!DurableNext]_Recoverable
    BY <1>4, <1>5
<1> QED BY <1>1, <1>2, <1>3, <1>6, PTL DEF Spec, ImplementsDurableStorage, Durable!DurableSpec

-----------------------------------------------------------------------------
(* Applying entries one by one                                             *)

\* A set of natural numbers that has 0, and with each number the next, has all
\* of them: the least one missing would follow one that is not.
LEMMA ByInduction ==
    ASSUME NEW S, 0 \in S, \A n \in Nat : n \in S => n + 1 \in S
    PROVE  Nat \subseteq S
<1> DEFINE less == OpToRel(<, Nat)
           missing == Nat \ S
<1> SUFFICES ASSUME missing # {} PROVE FALSE
    OBVIOUS
<1>1. \A x, y \in Nat : y < x => <<y, x>> \in less
    BY Zenon DEF OpToRel
<1>2. IsWellFoundedOn(less, Nat)
    BY NatLessThanWellFounded, Zenon
<1>3. missing \subseteq Nat
    OBVIOUS
<1> HIDE DEF less, missing
<1>4. PICK x \in missing : \A y \in missing : ~(<<y, x>> \in less)
    BY <1>2, <1>3, WFMin, Zenon
<1>5. x \in Nat /\ x \notin S
    BY <1>4 DEF missing
<1>6. x # 0 /\ x - 1 \in Nat /\ x - 1 < x /\ x - 1 + 1 = x
    BY <1>5
<1>7. x - 1 \notin missing
    BY <1>1, <1>4, <1>5, <1>6
<1>8. x - 1 \in S
    BY <1>6, <1>7 DEF missing
<1> QED BY <1>5, <1>6, <1>8

\* The function g holds what the entries e at the places of each part of D make
\* of data.
Folds(g, D, data, e) ==
    g = [s \in SUBSET D |-> IF s = {} THEN data
                            ELSE ApplyEntry(g[s \ {Max(s)}], e[Max(s)])]

\* That is how the fold of the sequences is defined.
LEMMA AppliesByFold ==
    ASSUME NEW data, NEW e
    PROVE  ApplyEntries(data, e) = (CHOOSE g : Folds(g, DOMAIN e, data, e))[DOMAIN e]
BY DEF ApplyEntries, FoldLeft, MapThenFoldSet, Folds

\* The greatest element is the maximum.
LEMMA MaxIs ==
    ASSUME NEW s, s \subseteq Nat, NEW x \in s, \A y \in s : x >= y
    PROVE  Max(s) = x
<1>1. \A z \in s : (\A y \in s : z >= y) => z = x
    OBVIOUS
<1>2. Max(s) \in s /\ \A y \in s : Max(s) >= y
    BY DEF Max
<1> QED BY <1>1, <1>2

\* There is such a function for every number of entries.
LEMMA FoldExists ==
    ASSUME NEW data, NEW e, NEW n \in Nat
    PROVE  \E g : Folds(g, 1..n, data, e)
<1> DEFINE S == {k \in Nat : \E g : Folds(g, 1..k, data, e)}
<1>1. 0 \in S
    <2> DEFINE D == 1..0
               h == [s \in SUBSET D |-> data]
    <2>1. \A s \in SUBSET D : s = {}
        OBVIOUS
    <2>2. Folds(h, D, data, e)
        BY <2>1 DEF Folds
    <2> HIDE DEF h
    <2> QED BY <2>2
<1>2. ASSUME NEW k \in Nat, k \in S PROVE k + 1 \in S
    <2>1. PICK g : Folds(g, 1..k, data, e)
        BY <1>2
    <2> DEFINE m == k + 1
               D == 1..k
               E == 1..m
               h == [s \in SUBSET E |-> IF m \in s THEN ApplyEntry(g[s \ {m}], e[m]) ELSE g[s]]
    <2>2. m \in Nat /\ E \subseteq Nat /\ D \subseteq E /\ m \notin D /\ E \ {m} = D
        OBVIOUS
    <2>3. \A y \in E : m >= y
        OBVIOUS
    <2>4. \A s \in SUBSET D : g[s] = IF s = {} THEN data
                                     ELSE ApplyEntry(g[s \ {Max(s)}], e[Max(s)])
        BY <2>1 DEF Folds
    <2> HIDE DEF m, D, E
    <2>5. ASSUME NEW s \in SUBSET E
          PROVE  h[s] = IF s = {} THEN data ELSE ApplyEntry(h[s \ {Max(s)}], e[Max(s)])
        <3>1. CASE m \in s
            <4>1. Max(s) = m
                BY <2>2, <2>3, <3>1, MaxIs
            <4>2. s \ {m} \in SUBSET E /\ m \notin s \ {m} /\ s # {}
                BY <3>1
            <4>3. h[s] = ApplyEntry(g[s \ {m}], e[m]) /\ h[s \ {m}] = g[s \ {m}]
                BY <3>1, <4>2
            <4> HIDE DEF h
            <4> QED BY <4>1, <4>2, <4>3
        <3>2. CASE m \notin s
            <4>1. s \in SUBSET D
                BY <2>2, <3>2
            <4> DEFINE t == s \ {Max(s)}
            <4>2. t \in SUBSET E /\ m \notin t
                BY <3>2
            <4> HIDE DEF t
            <4>3. h[s] = g[s] /\ h[t] = g[t]
                BY <3>2, <4>2
            <4> HIDE DEF h
            <4> QED BY <2>4, <4>1, <4>3 DEF t
        <3> QED BY <3>1, <3>2
    <2>6. h = [s \in SUBSET E |-> h[s]]
        OBVIOUS
    <2> HIDE DEF h
    <2>7. Folds(h, E, data, e)
        BY <2>5, <2>6 DEF Folds
    <2>8. \E f : Folds(f, 1..(k + 1), data, e)
        BY <2>7 DEF E, m
    <2> QED BY <2>8
<1>3. Nat \subseteq S
    <2> HIDE DEF S
    <2> QED BY <1>1, <1>2, ByInduction
<1> QED BY <1>3

\* The function g goes from entry to entry.
Chain(g, n, data, e) ==
    /\ g[1..0] = data
    /\ \A k \in Nat : k + 1 <= n => g[1..(k + 1)] = ApplyEntry(g[1..k], e[k + 1])

\* A fold does.
LEMMA FoldChain ==
    ASSUME NEW data, NEW e, NEW n \in Nat, NEW g, Folds(g, 1..n, data, e)
    PROVE  Chain(g, n, data, e)
<1> DEFINE D == 1..n
<1>1. \A s \in SUBSET D : g[s] = IF s = {} THEN data
                                 ELSE ApplyEntry(g[s \ {Max(s)}], e[Max(s)])
    BY DEF Folds
<1>2. g[1..0] = data
    <2>1. 1..0 = {} /\ {} \in SUBSET D
        OBVIOUS
    <2> HIDE DEF D
    <2> QED BY <1>1, <2>1
<1>3. ASSUME NEW k \in Nat, k + 1 <= n PROVE g[1..(k + 1)] = ApplyEntry(g[1..k], e[k + 1])
    <2> DEFINE m == k + 1
               s == 1..m
    <2>1. /\ s \in SUBSET D /\ m \in s /\ s \subseteq Nat /\ s \ {m} = 1..k
          /\ \A y \in s : m >= y
        BY <1>3
    <2> HIDE DEF D, m, s
    <2>2. Max(s) = m /\ s # {}
        BY <2>1, MaxIs
    <2>3. g[s] = ApplyEntry(g[1..k], e[m])
        BY <1>1, <2>1, <2>2
    <2> QED BY <2>3 DEF s, m
<1> QED BY <1>2, <1>3 DEF Chain

\* No entries change nothing.
LEMMA AppliesNone ==
    ASSUME NEW data, NEW e, DOMAIN e = 1..0
    PROVE  ApplyEntries(data, e) = data
<1> DEFINE g == CHOOSE f : Folds(f, 1..0, data, e)
<1>1. \E f : Folds(f, 1..0, data, e)
    BY FoldExists
<1>2. Folds(g, 1..0, data, e)
    BY <1>1
<1>3. ApplyEntries(data, e) = g[1..0]
    BY AppliesByFold
<1> HIDE DEF g
<1>4. Chain(g, 0, data, e)
    BY <1>2, FoldChain
<1> QED BY <1>3, <1>4 DEF Chain

\* One entry more is applied to what those before it have made.
LEMMA AppliesNext ==
    ASSUME NEW data, NEW n \in Nat, NEW d, NEW e, DOMAIN d = 1..n, DOMAIN e = 1..(n + 1),
           \A k \in 1..n : e[k] = d[k]
    PROVE  ApplyEntries(data, e) = ApplyEntry(ApplyEntries(data, d), e[n + 1])
<1> DEFINE g == CHOOSE f : Folds(f, 1..(n + 1), data, e)
           h == CHOOSE f : Folds(f, 1..n, data, d)
           S == {k \in Nat : k <= n => g[1..k] = h[1..k]}
<1>1. n + 1 \in Nat
    OBVIOUS
<1>2. Folds(g, 1..(n + 1), data, e)
    <2>1. \E f : Folds(f, 1..(n + 1), data, e)
        BY <1>1, FoldExists
    <2> QED BY <2>1
<1>3. Folds(h, 1..n, data, d)
    <2>1. \E f : Folds(f, 1..n, data, d)
        BY FoldExists
    <2> QED BY <2>1
<1>4. ApplyEntries(data, e) = g[1..(n + 1)] /\ ApplyEntries(data, d) = h[1..n]
    BY AppliesByFold
<1> HIDE DEF g, h
<1>5. /\ g[1..0] = data
      /\ \A k \in Nat : k + 1 <= n + 1 => g[1..(k + 1)] = ApplyEntry(g[1..k], e[k + 1])
    <2>1. Chain(g, n + 1, data, e)
        BY <1>1, <1>2, FoldChain
    <2> QED BY <2>1 DEF Chain
<1>6. /\ h[1..0] = data
      /\ \A k \in Nat : k + 1 <= n => h[1..(k + 1)] = ApplyEntry(h[1..k], d[k + 1])
    <2>1. Chain(h, n, data, d)
        BY <1>3, FoldChain
    <2> QED BY <2>1 DEF Chain
<1>7. 0 \in S
    BY <1>5, <1>6
<1>8. ASSUME NEW k \in Nat, k \in S PROVE k + 1 \in S
    <2> SUFFICES ASSUME k + 1 <= n PROVE g[1..(k + 1)] = h[1..(k + 1)]
        OBVIOUS
    <2>1. k <= n /\ k + 1 <= n + 1 /\ k + 1 \in 1..n
        OBVIOUS
    <2>2. g[1..k] = h[1..k] /\ e[k + 1] = d[k + 1]
        BY <1>8, <2>1
    <2> QED BY <1>5, <1>6, <2>1, <2>2
<1>9. n \in S
    <2> HIDE DEF S
    <2> QED BY <1>7, <1>8, ByInduction
<1>10. g[1..n] = h[1..n]
    BY <1>9
<1>11. g[1..(n + 1)] = ApplyEntry(g[1..n], e[n + 1])
    BY <1>1, <1>5
<1> QED BY <1>4, <1>10, <1>11

\* The entries from i + 1, d of them.
Part(i, d) == [l \in 1..d |-> Committed[i + l].entry_type]

\* Committed entries that are applied in two parts are applied.
LEMMA AppliedInParts ==
    ASSUME NEW j \in Nat, NEW d \in Nat
    PROVE  ApplyEntries(CommittedData(j), Part(j, d)) = CommittedData(j + d)
<1> DEFINE from == CommittedData(j)
           S == {k \in Nat : ApplyEntries(from, Part(j, k)) = CommittedData(j + k)}
<1>1. \A i : CommittedData(i) = ApplyEntries(<<>>, [k \in 1..i |-> Committed[k].entry_type])
    BY DEF CommittedData
<1> HIDE DEF from
<1>2. 0 \in S
    <2>1. DOMAIN Part(j, 0) = 1..0
        BY DEF Part
    <2>2. ApplyEntries(from, Part(j, 0)) = from
        BY <2>1, AppliesNone
    <2>3. j + 0 = j
        OBVIOUS
    <2> QED BY <2>2, <2>3 DEF from
<1>3. ASSUME NEW k \in Nat, k \in S PROVE k + 1 \in S
    <2> DEFINE p == Part(j, k)
               q == Part(j, k + 1)
               b == [l \in 1..(j + k) |-> Committed[l].entry_type]
               c == [l \in 1..(j + k + 1) |-> Committed[l].entry_type]
               x == Committed[j + k + 1].entry_type
    <2>1. j + k \in Nat /\ j + (k + 1) = j + k + 1
        OBVIOUS
    <2>2. /\ DOMAIN p = 1..k /\ DOMAIN q = 1..(k + 1) /\ \A l \in 1..k : q[l] = p[l]
          /\ q[k + 1] = x
        BY <2>1 DEF Part
    <2>3. /\ DOMAIN b = 1..(j + k) /\ DOMAIN c = 1..(j + k + 1)
          /\ \A l \in 1..(j + k) : c[l] = b[l]
          /\ c[j + k + 1] = x
        BY <2>1
    <2>4. CommittedData(j + k) = ApplyEntries(<<>>, b)
          /\ CommittedData(j + k + 1) = ApplyEntries(<<>>, c)
        BY <1>1
    <2>5. ApplyEntries(from, p) = CommittedData(j + k)
        BY <1>3
    <2> HIDE DEF p, q, b, c, x
    <2>6. ApplyEntries(from, q) = ApplyEntry(ApplyEntries(from, p), x)
        BY <2>2, AppliesNext
    <2>7. ApplyEntries(<<>>, c) = ApplyEntry(ApplyEntries(<<>>, b), x)
        <3> DEFINE n == j + k
        <3>1. /\ n \in Nat /\ DOMAIN b = 1..n /\ DOMAIN c = 1..(n + 1)
              /\ \A l \in 1..n : c[l] = b[l]
              /\ c[n + 1] = x
            BY <2>1, <2>3
        <3> HIDE DEF n
        <3> QED BY <3>1, AppliesNext
    <2>8. ApplyEntries(from, q) = CommittedData(j + (k + 1))
        BY <2>1, <2>4, <2>5, <2>6, <2>7
    <2> QED BY <2>8 DEF q
<1>4. d \in S
    <2> HIDE DEF S
    <2> QED BY <1>2, <1>3, ByInduction
<1> QED BY <1>4 DEF from

\* A machine that has applied nothing is empty.
LEMMA NothingApplied == CommittedData(0) = <<>>
<1> DEFINE e == [j \in 1..0 |-> Committed[j].entry_type]
<1>1. CommittedData(0) = ApplyEntries(<<>>, e) /\ DOMAIN e = 1..0
    BY DEF CommittedData
<1> QED BY <1>1, AppliesNone

-----------------------------------------------------------------------------
(* The state machine                                                       *)

\* A log with the given first index holds committed entries, in their places,
\* up to some entry and stray ones from there.
Genuine(log, first) ==
    \A k \in DOMAIN log :
        \/ log[k] \in Stray
        \/ \A l \in 1..k : /\ first + l - 1 \in DOMAIN Committed
                           /\ log[l] = Committed[first + l - 1]

\* The snapshot s shows what the committed entries up to its index make, which
\* have been applied up to the index applied.
Shows(s, applied) ==
    s # None =>
        /\ s.last_included_index \in 1..Len(Committed)
        /\ s.last_included_index <= applied
        /\ s.data = create_snapshot(CommittedData(s.last_included_index))

\* The log of m that the k-th of the calls s will find.
Found(s, k, m) ==
    IF k > 1 /\ s[k - 1].op = "truncate_after" THEN truncate_after(m, s[k - 1].arg).log
    ELSE m.log

\* The k-th of the calls s leaves the log and the snapshot of m as they ought
\* to be.
Honest(s, k, m, applied) ==
    /\ s[k].op \in SnapshotCall => Shows(s[k].arg, applied)
    /\ s[k].op = "truncate_after" => k + 1 \in DOMAIN s /\ s[k + 1].op = "append_entries"
    /\ s[k].op = "append_entries" =>
           /\ \A j \in DOMAIN s : s[j].op = "append_entries" => j = k
           /\ Genuine(Found(s, k, m) \o s[k].arg, m.first_log_index)

Sound(m) ==
    Genuine(m.log, m.first_log_index) /\ Shows(m.snapshot, machine.last_applied)

\* With Durability, the inductive invariant of MachineMatchesCommitted.
Applying ==
    /\ machine.last_applied \in 0..Len(Committed)
    /\ machine.data = CommittedData(machine.last_applied)
    /\ Sound(memory)
    /\ Sound(Recoverable)
    /\ \A k \in DOMAIN calls : Honest(calls, k, memory, machine.last_applied)

\* The beginning of a genuine log.
LEMMA GenuineTruncated ==
    ASSUME NEW m, IsStorage(m), Genuine(m.log, m.first_log_index), NEW i \in Nat
    PROVE  Genuine(truncate_after(m, i).log, m.first_log_index)
<1> DEFINE log == m.log
           first == m.first_log_index
           n == IF Len(log) < i - first + 1 THEN Len(log) ELSE i - first + 1
<1>1. log \in Seq(Entry) /\ first \in Nat \ {0} /\ Len(log) \in Nat /\ DOMAIN log = 1..Len(log)
    BY DEF IsStorage
<1>2. truncate_after(m, i).log = IF i < first THEN <<>> ELSE SubSeq(log, 1, n)
    BY DEF truncate_after, IsStorage
<1>3. Genuine(log, first)
    OBVIOUS
<1> HIDE DEF log, first
<1>4. CASE i < first
    BY <1>2, <1>4 DEF Genuine, first
<1>5. CASE ~(i < first)
    <2>1. n \in Nat /\ n <= Len(log)
        BY <1>1, <1>5
    <2> HIDE DEF n
    <2> DEFINE s == SubSeq(log, 1, n)
    <2>2. DOMAIN s = 1..n /\ \A k \in 1..n : s[k] = log[k]
        BY <1>1, <2>1
    <2> HIDE DEF s
    <2>3. Genuine(s, first)
        <3> SUFFICES ASSUME NEW k \in 1..n, s[k] \notin Stray, NEW l \in 1..k
                     PROVE  first + l - 1 \in DOMAIN Committed /\ s[l] = Committed[first + l - 1]
            BY <2>2 DEF Genuine
        <3>1. k \in DOMAIN log /\ l \in 1..n
            BY <1>1, <2>1
        <3> QED BY <1>3, <2>2, <3>1 DEF Genuine
    <2> QED BY <1>2, <1>5, <2>3 DEF s, first
<1> QED BY <1>4, <1>5

\* The end of a genuine log.
LEMMA GenuineDiscarded ==
    ASSUME NEW log \in Seq(Entry), NEW first \in Nat, Genuine(log, first),
           NEW index \in Nat, index >= first
    PROVE  Genuine(SubSeq(log, index - first + 1, Len(log)), index)
<1> DEFINE d == index - first
           s == SubSeq(log, d + 1, Len(log))
<1>1. d \in Nat /\ Len(log) \in Nat /\ DOMAIN log = 1..Len(log)
    OBVIOUS
<1>2. index = first + d
    BY <1>1
<1> HIDE DEF d
<1>3. /\ \A k \in DOMAIN s : k \in Nat \ {0} /\ k + d \in DOMAIN log
      /\ \A k \in DOMAIN s : s[k] = log[k + d]
    <2>1. CASE d + 1 > Len(log)
        <3>1. s = <<>>
            BY <1>1, <2>1
        <3> HIDE DEF s
        <3> QED BY <3>1
    <2>2. CASE d + 1 <= Len(log)
        <3>1. DOMAIN s = 1..(Len(log) - d) /\ \A k \in 1..(Len(log) - d) : s[k] = log[k + d]
            BY <1>1, <2>2
        <3> QED BY <1>1, <2>2, <3>1
    <2> QED BY <1>1, <2>1, <2>2
<1>4. \A k \in DOMAIN s : \A l \in 1..k : l \in DOMAIN s
    <2>1. s \in Seq(Entry)
        BY <1>1
    <2> HIDE DEF s
    <2> QED BY <2>1
<1> HIDE DEF s
<1>5. Genuine(s, index)
    <2> SUFFICES ASSUME NEW k \in DOMAIN s, s[k] \notin Stray, NEW l \in 1..k
                 PROVE  index + l - 1 \in DOMAIN Committed /\ s[l] = Committed[index + l - 1]
        BY DEF Genuine
    <2>1. k + d \in DOMAIN log /\ log[k + d] \notin Stray
        BY <1>3
    <2>2. l \in DOMAIN s /\ s[l] = log[l + d]
        BY <1>3, <1>4
    <2>3. l + d \in 1..(k + d) /\ first + (l + d) - 1 = index + l - 1
        BY <1>1, <1>2, <1>3
    <2>4. /\ first + (l + d) - 1 \in DOMAIN Committed
          /\ log[l + d] = Committed[first + (l + d) - 1]
        BY <2>1, <2>3 DEF Genuine
    <2> QED BY <2>2, <2>3, <2>4
<1> QED BY <1>5 DEF s, d

\* A stray entry may follow any.
LEMMA GenuineWithStray ==
    ASSUME NEW log \in Seq(Entry), NEW first, Genuine(log, first), NEW e \in Stray
    PROVE  Genuine(log \o <<e>>, first)
<1> DEFINE s == log \o <<e>>
<1>1. e \in Entry
    BY StorageAssumption
<1>2. /\ Len(log) \in Nat /\ DOMAIN log = 1..Len(log)
      /\ DOMAIN s = 1..(Len(log) + 1)
      /\ s[Len(log) + 1] = e
      /\ \A k \in 1..Len(log) : s[k] = log[k]
    BY <1>1
<1> HIDE DEF s
<1>3. Genuine(s, first)
    <2> SUFFICES ASSUME NEW k \in DOMAIN s, s[k] \notin Stray, NEW l \in 1..k
                 PROVE  first + l - 1 \in DOMAIN Committed /\ s[l] = Committed[first + l - 1]
        BY DEF Genuine
    <2>1. k \in 1..Len(log)
        BY <1>2
    <2>2. l \in 1..Len(log)
        BY <1>2, <2>1
    <2> QED BY <1>2, <2>1, <2>2 DEF Genuine
<1> QED BY <1>3 DEF s

\* After try_append_entries the log is the committed entries up to the last.
LEMMA Rebuilt ==
    ASSUME IsStorage(memory), Aligned(memory),
           Genuine(memory.log, memory.first_log_index),
           NEW prev \in 0..Len(Committed), NEW last \in 0..Len(Committed), last > prev,
           Consistent(prev), prev >= memory.first_log_index - 1
    PROVE  LET first == memory.first_log_index
               log   == truncate_after(memory, prev).log
               all   == log \o SubSeq(Committed, prev + 1, last)
           IN  /\ all \in Seq(Entry)
               /\ Len(all) = last - first + 1
               /\ \A k \in 1..Len(all) : all[k] = Committed[first + k - 1]
               /\ Genuine(all, first)
               /\ ~(last_log_index(memory) > prev) => log = memory.log
<1> DEFINE old == memory.log
           first == memory.first_log_index
           log == truncate_after(memory, prev).log
           entries == SubSeq(Committed, prev + 1, last)
           all == log \o entries
           n == prev - first + 1
           Restored == /\ log \in Seq(Entry) /\ Len(log) = n
                       /\ \A k \in 1..n : log[k] = Committed[first + k - 1]
                       /\ ~(last_log_index(memory) > prev) => log = old
<1>1. /\ old \in Seq(Entry) /\ Len(old) \in Nat /\ DOMAIN old = 1..Len(old)
      /\ first \in Nat \ {0}
    BY DEF IsStorage
<1>2. /\ Committed \in Seq(Entry) /\ Len(Committed) \in Nat
      /\ DOMAIN Committed = 1..Len(Committed)
      /\ \A e \in Stray : \A k \in DOMAIN Committed : e.term # Committed[k].term
    <2>1. \A e \in Stray : \A k \in DOMAIN Committed : e.term # Committed[k].term
        BY StorageAssumption
    <2> QED BY <2>1, StorageAssumption
<1>3. prev \in Nat /\ last \in Nat /\ last <= Len(Committed) /\ n \in Nat
    BY <1>1, <1>2
<1>4. log = IF prev < first THEN <<>>
            ELSE SubSeq(old, 1, IF Len(old) < n THEN Len(old) ELSE n)
    BY DEF truncate_after, IsStorage
<1>5. entries \in Seq(Entry) /\ Len(entries) = last - prev
      /\ \A k \in 1..(last - prev) : entries[k] = Committed[prev + k]
    BY <1>2, <1>3
<1>6. ASSUME prev < first PROVE Restored
    <2>1. n = 0 /\ log = <<>>
        BY <1>1, <1>3, <1>4, <1>6
    <2>2. ~(last_log_index(memory) > prev) => old = <<>>
        BY <1>1, <1>3, <1>6 DEF last_log_index
    <2>3. log \in Seq(Entry) /\ Len(log) = n /\ \A k \in 1..n : log[k] = Committed[first + k - 1]
        <3> HIDE DEF log, n
        <3> QED BY <2>1
    <2> QED BY <2>1, <2>2, <2>3
<1>7. ASSUME ~(prev < first) PROVE Restored
    <2>1. has_entry(memory, prev) /\ get_entry(memory, prev).term = Committed[prev].term
        <3>1. prev # 0
            BY <1>1, <1>3, <1>7
        <3>2. memory.snapshot # None => first = memory.snapshot.last_included_index + 1
            BY DEF Aligned
        <3>3. ~(memory.snapshot # None /\ memory.snapshot.last_included_index = prev)
            BY <1>1, <1>3, <1>7, <3>2
        <3> QED BY <3>1, <3>3 DEF Consistent
    <2>2. n \in 1..Len(old) /\ old[n].term = Committed[prev].term
        BY <1>1, <1>3, <1>7, <2>1 DEF has_entry, get_entry
    <2>3. old[n] \notin Stray
        <3>1. prev \in DOMAIN Committed
            BY <1>1, <1>2, <1>3, <1>7
        <3> QED BY <1>2, <2>2, <3>1
    <2>4. \A l \in 1..n : old[l] = Committed[first + l - 1]
        BY <1>1, <2>2, <2>3 DEF Genuine
    <2>5. log = SubSeq(old, 1, n)
        BY <1>1, <1>3, <1>4, <1>7, <2>2
    <2> HIDE DEF log, n
    <2>6. log \in Seq(Entry) /\ Len(log) = n /\ \A k \in 1..n : log[k] = old[k]
        BY <1>1, <1>3, <2>2, <2>5
    <2>7. ~(last_log_index(memory) > prev) => log = old
        <3> SUFFICES ASSUME ~(last_log_index(memory) > prev) PROVE log = old
            OBVIOUS
        <3>1. old # <<>>
            BY <1>1, <2>2
        <3>2. first + Len(old) - 1 <= prev
            BY <1>1, <1>3, <3>1 DEF last_log_index
        <3>3. Len(old) = n
            BY <1>1, <1>3, <2>2, <3>2 DEF n
        <3> QED BY <1>1, <2>6, <3>3, SeqEqual
    <2> QED BY <2>4, <2>6, <2>7
<1>8. Restored
    BY <1>6, <1>7
<1>9. n + (last - prev) = last - first + 1
    BY <1>1, <1>3
<1> HIDE DEF old, first, log, entries, n
<1>10. /\ all \in Seq(Entry) /\ Len(all) = n + (last - prev)
       /\ \A k \in 1..(n + (last - prev)) :
              all[k] = IF k <= n THEN log[k] ELSE entries[k - n]
    <2>1. log \in Seq(Entry) /\ Len(log) = n /\ entries \in Seq(Entry)
          /\ Len(entries) = last - prev
        BY <1>5, <1>8
    <2> HIDE DEF Restored
    <2> QED BY <2>1
<1>11. \A k \in 1..n : log[k] = Committed[first + k - 1]
    BY <1>8
<1> HIDE DEF Restored
<1> HIDE DEF all
<1>12. ASSUME NEW k \in 1..Len(all)
       PROVE  first + k - 1 \in DOMAIN Committed /\ all[k] = Committed[first + k - 1]
    <2>1. k \in 1..(n + (last - prev))
        BY <1>10
    <2>2. first + k - 1 \in DOMAIN Committed
        BY <1>1, <1>2, <1>3, <1>9, <2>1
    <2>3. CASE k <= n
        <3>1. k \in 1..n
            BY <1>3, <2>1, <2>3
        <3> QED BY <1>10, <1>11, <2>1, <2>2, <2>3, <3>1
    <2>4. CASE k > n
        <3>1. k - n \in 1..(last - prev) /\ prev + (k - n) = first + k - 1
            BY <1>1, <1>3, <1>9, <2>1, <2>4 DEF n
        <3>2. all[k] = entries[k - n]
            BY <1>3, <1>10, <2>1, <2>4
        <3> QED BY <1>5, <2>2, <3>1, <3>2
    <2> QED BY <1>3, <2>1, <2>3, <2>4
<1>13. Genuine(all, first)
    <2>1. Len(all) \in Nat /\ DOMAIN all = 1..Len(all)
        BY <1>10
    <2>2. \A k \in 1..Len(all) : \A l \in 1..k : l \in 1..Len(all)
        BY <2>1
    <2> QED BY <1>12, <2>1, <2>2 DEF Genuine
<1>14. Len(all) = last - first + 1
    BY <1>9, <1>10
<1>15. ~(last_log_index(memory) > prev) => log = old
    BY <1>8 DEF Restored
<1>16. \A k \in 1..Len(all) : all[k] = Committed[first + k - 1]
    BY <1>12
<1> QED BY <1>10, <1>13, <1>14, <1>15, <1>16, Zenon DEF all, log, entries, first, old

\* What is committed, applied to what was.
LEMMA AppliesCommitted ==
    ASSUME NEW m, NEW to \in 0..Len(Committed),
           machine.last_applied \in 0..Len(Committed), machine.last_applied <= to,
           machine.data = CommittedData(machine.last_applied),
           \A i \in (machine.last_applied + 1)..to : get_entry(m, i) = Committed[i]
    PROVE  /\ ApplyCommitted(m, to).last_applied = to
           /\ ApplyCommitted(m, to).data = CommittedData(to)
<1> DEFINE j == machine.last_applied
           from == j + 1
           entries == [k \in 1..(to - from + 1) |-> get_entry(m, from + k - 1).entry_type]
<1>1. j \in 0..Len(Committed) /\ to \in j..Len(Committed) /\ Len(Committed) \in Nat
    BY StorageAssumption
<1>2. j \in Nat /\ to \in Nat
    BY <1>1
<1>3. ApplyCommitted(m, to) = [data |-> ApplyEntries(machine.data, entries),
                               last_applied |-> to]
    BY DEF ApplyCommitted
<1>4. \A i \in (j + 1)..to : get_entry(m, i) = Committed[i]
    OBVIOUS
<1> HIDE DEF j
<1>5. entries = Part(j, to - j)
    <2>1. to - from + 1 = to - j
        BY <1>2
    <2>2. \A k \in 1..(to - j) : from + k - 1 = j + k /\ j + k \in (j + 1)..to
        BY <1>2
    <2>3. \A k \in 1..(to - j) : get_entry(m, from + k - 1).entry_type = Committed[j + k].entry_type
        BY <1>4, <2>2
    <2> HIDE DEF from
    <2> QED BY <2>1, <2>3 DEF Part
<1>6. to - j \in Nat /\ j + (to - j) = to
    BY <1>1
<1>7. ApplyEntries(CommittedData(j), Part(j, to - j)) = CommittedData(to)
    BY <1>2, <1>6, AppliedInParts
<1> HIDE DEF entries
<1> QED BY <1>3, <1>5, <1>7 DEF j

\* SnapshotManager::create has a snapshot of what was applied.
LEMMA SnapshotCallsShow ==
    ASSUME NEW m, NEW sm, sm.last_applied \in 0..Len(Committed),
           sm.data = CommittedData(sm.last_applied),
           m.first_log_index \in Nat \ {0},
           NEW k \in DOMAIN SnapshotCalls(m, sm)
    PROVE  LET c == SnapshotCalls(m, sm)[k]
           IN  /\ c.op \in SnapshotCall => Shows(c.arg, sm.last_applied)
               /\ c.op \notin {"truncate_after", "append_entries"}
<1> DEFINE index == sm.last_applied
           snap == [last_included_index |-> index,
                    last_included_term |-> get_entry(m, index).term,
                    data |-> create_snapshot(sm.data)]
           a == Call("save_snapshot", snap)
           b == Call("discard_entries_before", index + 1)
<1>1. SnapshotCalls(m, sm) = <<a, b>> /\ has_entry(m, index)
    BY DEF SnapshotCalls
<1>2. index \in 1..Len(Committed)
    BY <1>1, StorageAssumption DEF has_entry
<1>3. Shows(snap, index)
    BY <1>2, StorageAssumption DEF Shows
<1>4. a.op = "save_snapshot" /\ a.arg = snap /\ b.op = "discard_entries_before"
    BY DEF Call
<1> HIDE DEF a, b, snap
<1>5. SnapshotCalls(m, sm)[k] \in {a, b}
    BY <1>1
<1> QED BY <1>3, <1>4, <1>5 DEF SnapshotCall

\* A call that leaves the log alone.
Harmless(c, applied) ==
    /\ c.op \in SnapshotCall => Shows(c.arg, applied)
    /\ c.op \notin {"truncate_after", "append_entries"}

\* The calls of try_append_entries.
LEMMA AppendHonest ==
    ASSUME NEW m, NEW applied, NEW i, NEW e, NEW x,
           \/ x = <<>> /\ Genuine(m.log \o e, m.first_log_index)
           \/ /\ x = <<Call("truncate_after", i)>>
              /\ Genuine(truncate_after(m, i).log \o e, m.first_log_index)
    PROVE  LET s == x \o <<Call("append_entries", e)>>
           IN  \A k \in DOMAIN s : Honest(s, k, m, applied)
<1> DEFINE T == Call("truncate_after", i)
           A == Call("append_entries", e)
<1>1. /\ T.op = "truncate_after" /\ T.arg = i /\ A.op = "append_entries" /\ A.arg = e
      /\ T.op \notin SnapshotCall /\ A.op \notin SnapshotCall
    BY DEF Call, SnapshotCall
<1>2. \/ x = <<>> /\ Genuine(m.log \o e, m.first_log_index)
      \/ x = <<T>> /\ Genuine(truncate_after(m, i).log \o e, m.first_log_index)
    OBVIOUS
<1> HIDE DEF T, A
<1>3. CASE x = <<>> /\ Genuine(m.log \o e, m.first_log_index)
    <2> DEFINE s == <<A>>
    <2>1. x \o <<A>> = s
        <3>1. <<A>> \in Seq({A})
            OBVIOUS
        <3> QED BY <1>3, <3>1
    <2>2. s[1] = A /\ DOMAIN s = {1}
        OBVIOUS
    <2> HIDE DEF s
    <2>3. Found(s, 1, m) = m.log
        BY DEF Found
    <2>4. \A k \in DOMAIN s : Honest(s, k, m, applied)
        BY <1>1, <1>3, <2>2, <2>3 DEF Honest
    <2> QED BY <2>1, <2>4 DEF A
<1>4. CASE x = <<T>> /\ Genuine(truncate_after(m, i).log \o e, m.first_log_index)
    <2> DEFINE s == <<T, A>>
    <2>1. x \o <<A>> = s
        BY <1>4, TwoOf
    <2>2. s[1] = T /\ s[2] = A /\ DOMAIN s = {1, 2}
        OBVIOUS
    <2> HIDE DEF s
    <2>3. Found(s, 2, m) = truncate_after(m, i).log
        BY <1>1, <2>2 DEF Found
    <2>4. Honest(s, 1, m, applied)
        BY <1>1, <2>2 DEF Honest
    <2>5. Honest(s, 2, m, applied)
        <3>1. \A k \in DOMAIN s : s[k].op = "append_entries" => k = 2
            BY <1>1, <2>2
        <3> QED BY <1>1, <1>4, <2>2, <2>3, <3>1 DEF Honest
    <2>6. \A k \in DOMAIN s : Honest(s, k, m, applied)
        BY <2>2, <2>4, <2>5
    <2> QED BY <2>1, <2>6 DEF A
<1> QED BY <1>2, <1>3, <1>4

\* Calls that leave the log alone.
LEMMA PlainHonest ==
    ASSUME NEW m, NEW applied, NEW a, NEW z, IsSeq(a), IsSeq(z),
           \A k \in DOMAIN a : Harmless(a[k], applied),
           \A k \in DOMAIN z : Harmless(z[k], applied)
    PROVE  \A k \in DOMAIN (a \o z) : Honest(a \o z, k, m, applied)
<1> DEFINE s == a \o z
<1>1. Len(a) \in Nat /\ DOMAIN a = 1..Len(a) /\ Len(z) \in Nat /\ DOMAIN z = 1..Len(z)
    BY TailOf
<1>2. /\ IsSeq(s) /\ Len(s) = Len(a) + Len(z) /\ DOMAIN s = 1..Len(s)
      /\ \A k \in 1..(Len(a) + Len(z)) : s[k] = IF k <= Len(a) THEN a[k] ELSE z[k - Len(a)]
    BY ConcatOf, TailOf
<1> HIDE DEF s
<1>3. ASSUME NEW k \in DOMAIN s PROVE Honest(s, k, m, applied)
    <2>1. CASE k <= Len(a)
        <3>1. k \in DOMAIN a /\ s[k] = a[k]
            BY <1>1, <1>2, <2>1
        <3> QED BY <3>1 DEF Harmless, Honest
    <2>2. CASE k > Len(a)
        <3>1. k - Len(a) \in DOMAIN z /\ s[k] = z[k - Len(a)]
            BY <1>1, <1>2, <2>2
        <3> QED BY <3>1 DEF Harmless, Honest
    <2> QED BY <1>1, <1>2, <2>1, <2>2
<1> QED BY <1>3 DEF s

\* A storage call that saves no snapshot leaves a genuine log, and honest calls
\* behind it.
LEMMA HonestNext ==
    ASSUME NEW s, NEW m, NEW applied, IsStorage(m), CallableAll(s, m),
           \A k \in DOMAIN s : Honest(s, k, m, applied),
           s # <<>>, s[1].op \notin SnapshotCall, Genuine(m.log, m.first_log_index),
           NEW n, n = Effect(m, s[1]), IsStorage(n)
    PROVE  /\ Genuine(n.log, n.first_log_index) /\ n.snapshot = m.snapshot
           /\ \A k \in DOMAIN Tail(s) : Honest(Tail(s), k, n, applied)
<1> DEFINE r == Tail(s)
           op == s[1].op
           arg == s[1].arg
<1>1. /\ Len(s) \in Nat /\ DOMAIN s = 1..Len(s) /\ Len(s) > 0
      /\ Len(r) = Len(s) - 1 /\ DOMAIN r = 1..(Len(s) - 1)
      /\ \A k \in 1..(Len(s) - 1) : r[k] = s[k + 1]
    BY TailOf DEF CallableAll
<1> HIDE DEF r
<1>2. Callable(s, 1, m) /\ Honest(s, 1, m, applied) /\ 1 \in DOMAIN s
    BY <1>1 DEF CallableAll
<1>3. op \in {"set_current_term", "set_voted_for", "append_entries", "truncate_after"}
    <2>1. op # "discard_entries_before"
        BY <1>2 DEF Callable
    <2> QED BY <1>2, <2>1 DEF Callable, Operation, SnapshotCall
<1>4. \A i : truncate_after(m, i).log =
                IF i < m.first_log_index THEN <<>>
                ELSE SubSeq(m.log, 1, IF Len(m.log) < i - m.first_log_index + 1 THEN Len(m.log)
                                      ELSE i - m.first_log_index + 1)
    BY DEF truncate_after, IsStorage
<1>5. \A i : truncate_after(n, i).log =
                IF i < n.first_log_index THEN <<>>
                ELSE SubSeq(n.log, 1, IF Len(n.log) < i - n.first_log_index + 1 THEN Len(n.log)
                                      ELSE i - n.first_log_index + 1)
    BY DEF truncate_after, IsStorage
<1>6. n.first_log_index = m.first_log_index /\ n.snapshot = m.snapshot
    <2>1. /\ op = "set_current_term" => n = [m EXCEPT !.current_term = arg]
          /\ op = "set_voted_for" => n = [m EXCEPT !.voted_for = arg]
          /\ op = "append_entries" => n = append_entries(m, arg)
          /\ op = "truncate_after" => n = truncate_after(m, arg)
        BY CallDoes
    <2> HIDE DEF op, arg
    <2> QED BY <1>3, <2>1 DEF IsStorage, append_entries, truncate_after
<1>7. ASSUME op \in {"set_current_term", "set_voted_for"}
      PROVE  n.log = m.log /\ \A i : truncate_after(n, i).log = truncate_after(m, i).log
    <2>1. \/ n = [m EXCEPT !.current_term = arg]
          \/ n = [m EXCEPT !.voted_for = arg]
        BY <1>7, CallDoes
    <2>2. n.log = m.log
        BY <2>1 DEF IsStorage
    <2> QED BY <1>4, <1>5, <1>6, <2>2
<1>8. ASSUME op = "truncate_after"
      PROVE  /\ n.log = truncate_after(m, arg).log /\ arg \in Nat
             /\ 2 \in DOMAIN s /\ s[2].op = "append_entries"
    <2>1. n = truncate_after(m, arg)
        BY <1>8, CallDoes
    <2>2. 1 + 1 \in DOMAIN s /\ s[1 + 1].op = "append_entries" /\ arg \in Nat
        BY <1>2, <1>8 DEF Honest, Callable
    <2> QED BY <2>1, <2>2
<1>9. ASSUME op = "append_entries"
      PROVE  /\ n.log = m.log \o arg /\ Genuine(m.log \o arg, m.first_log_index)
             /\ \A j \in DOMAIN s : s[j].op = "append_entries" => j = 1
    <2>1. n = append_entries(m, arg)
        BY <1>9, CallDoes
    <2>2. n.log = m.log \o arg
        BY <2>1 DEF append_entries, IsStorage
    <2>3. Found(s, 1, m) = m.log
        BY DEF Found
    <2> QED BY <1>2, <1>9, <2>2, <2>3 DEF Honest
<1>10. Genuine(n.log, n.first_log_index)
    <2>1. CASE op \in {"set_current_term", "set_voted_for"}
        BY <1>6, <1>7, <2>1
    <2>2. CASE op = "truncate_after"
        BY <1>6, <1>8, <2>2, GenuineTruncated
    <2>3. CASE op = "append_entries"
        BY <1>6, <1>9, <2>3
    <2> QED BY <1>3, <2>1, <2>2, <2>3
<1>11. ASSUME NEW k \in DOMAIN r PROVE Honest(r, k, n, applied)
    <2>1. k \in Nat \ {0} /\ k + 1 \in DOMAIN s /\ r[k] = s[k + 1]
        BY <1>1
    <2>2. Honest(s, k + 1, m, applied)
        BY <2>1
    <2>3. ASSUME r[k].op = "truncate_after"
          PROVE  k + 1 \in DOMAIN r /\ r[k + 1].op = "append_entries"
        <3>1. k + 1 + 1 \in DOMAIN s /\ s[k + 1 + 1].op = "append_entries"
            BY <2>1, <2>2, <2>3 DEF Honest
        <3>2. k + 1 \in 1..(Len(s) - 1)
            BY <1>1, <2>1, <3>1
        <3> QED BY <1>1, <3>1, <3>2
    <2>4. ASSUME r[k].op = "append_entries"
          PROVE  /\ \A j \in DOMAIN r : r[j].op = "append_entries" => j = k
                 /\ Genuine(Found(r, k, n) \o r[k].arg, n.first_log_index)
        <3>1. /\ \A j \in DOMAIN s : s[j].op = "append_entries" => j = k + 1
              /\ Genuine(Found(s, k + 1, m) \o r[k].arg, n.first_log_index)
            BY <1>6, <2>1, <2>2, <2>4 DEF Honest
        <3>2. \A j \in DOMAIN r : r[j].op = "append_entries" => j = k
            <4> SUFFICES ASSUME NEW j \in DOMAIN r, r[j].op = "append_entries" PROVE j = k
                OBVIOUS
            <4>1. j + 1 \in DOMAIN s /\ s[j + 1].op = "append_entries" /\ j \in Nat
                BY <1>1
            <4>2. j + 1 = k + 1
                BY <3>1, <4>1
            <4> QED BY <2>1, <4>1, <4>2
        <3>3. op # "append_entries"
            <4>1. k + 1 # 1
                BY <2>1
            <4> QED BY <1>2, <3>1, <4>1
        <3>4. k + 1 > 1 /\ k + 1 - 1 = k
            BY <2>1
        <3>5. Found(s, k + 1, m) =
                  IF s[k].op = "truncate_after" THEN truncate_after(m, s[k].arg).log ELSE m.log
            <4> DEFINE j == k + 1
            <4>1. j > 1 /\ j - 1 = k
                BY <3>4
            <4> HIDE DEF j
            <4>2. Found(s, j, m) =
                      IF j > 1 /\ s[j - 1].op = "truncate_after"
                      THEN truncate_after(m, s[j - 1].arg).log ELSE m.log
                BY DEF Found
            <4>3. Found(s, j, m) =
                      IF s[k].op = "truncate_after" THEN truncate_after(m, s[k].arg).log
                      ELSE m.log
                BY <4>1, <4>2
            <4> QED BY <4>3 DEF j
        <3>6. k > 1 => r[k - 1] = s[k]
            <4> SUFFICES ASSUME k > 1 PROVE r[k - 1] = s[k]
                OBVIOUS
            <4>1. k - 1 \in 1..(Len(s) - 1) /\ k - 1 + 1 = k
                BY <1>1, <2>1
            <4> QED BY <1>1, <4>1
        <3>7. Found(r, k, n) = Found(s, k + 1, m)
            <4>1. CASE op = "truncate_after"
                <5>1. 2 = k + 1
                    BY <1>8, <3>1, <4>1
                <5>2. k = 1
                    BY <2>1, <5>1
                <5>3. Found(r, k, n) = n.log
                    BY <5>2 DEF Found
                <5> QED BY <1>8, <3>5, <4>1, <5>2, <5>3
            <4>2. CASE op \in {"set_current_term", "set_voted_for"}
                <5>1. CASE k = 1
                    BY <1>7, <3>5, <4>2, <5>1 DEF Found
                <5>2. CASE k > 1
                    BY <1>7, <3>5, <3>6, <4>2, <5>2 DEF Found
                <5> QED BY <2>1, <5>1, <5>2
            <4> QED BY <1>3, <3>3, <4>1, <4>2
        <3> QED BY <3>1, <3>2, <3>7
    <2>5. r[k].op \in SnapshotCall => Shows(r[k].arg, applied)
        BY <2>1, <2>2 DEF Honest
    <2> QED BY <2>3, <2>4, <2>5 DEF Honest
<1> QED BY <1>6, <1>10, <1>11 DEF r

\* Between two calls the files hold the memory, after a step as before it.
LEMMA LoadedNext ==
    ASSUME ConfigChange = {}, Durability', (Idle \/ base = None)', writes' = <<>>
    PROVE  load_from_disk(disk)' = memory'
<1>1. Following' /\ IsStorage(memory')
    BY DEF Durability
<1>2. \A a : writes' # <<a>>
    OBVIOUS
<1>3. Aligned(memory') /\ Represents(memory', disk')
    BY <1>1, <1>2 DEF Following
<1> QED BY <1>1, <1>3, Loads

\* What a crash would leave after a step is what it would have left before it,
\* or the memory; and a crash leaves it.
LEMMA Leaves ==
    ASSUME NoneIsNothing, ConfigChange = {}, SnapshotCrashes = FALSE, TornWrites = FALSE,
           Durability, [Next]_vars
    PROVE  /\ Recoverable' \in {Recoverable, memory'}
           /\ Crash => memory' = Recoverable
<1>1. Durability' /\ IsStorage(memory)
    BY StorageStep DEF Durability
<1>2. Idle' => Recoverable' = memory'
    BY <1>1, LoadedNext DEF Idle, Recoverable
<1>3. Crash => memory' = Recoverable
    BY DEF Crash, Recoverable
<1>4. CASE Idle /\ Event
    <2>1. Aligned(memory)
        BY <1>4, BetweenCalls DEF Idle
    <2>2. disk' = disk /\ base' = None
        BY <1>1, <1>4, <2>1, EventCallable DEF Begin
    <2> QED BY <1>3, <1>4, <2>2 DEF Recoverable
<1>5. CASE MakeCall
    <2>1. /\ writes = <<>> /\ calls # <<>> /\ disk' = disk /\ crashes' = crashes
          /\ base' = IF Head(calls).op \in SnapshotCall THEN memory ELSE base
        BY <1>5 DEF MakeCall
    <2>2. CASE base = None
        <3>1. Recoverable = memory /\ load_from_disk(disk) = memory
            BY <2>1, <2>2, BetweenCalls DEF Recoverable
        <3>2. /\ Recoverable' \in {load_from_disk(disk), base'}
              /\ base' = None => Recoverable' = load_from_disk(disk)
            BY <2>1 DEF Recoverable
        <3> QED BY <1>3, <2>1, <2>2, <3>1, <3>2
    <2>3. CASE base # None
        <3>1. ~Idle /\ Recoverable = base
            BY <2>1, <2>3 DEF Idle, Recoverable
        <3>2. calls = <<Call("discard_entries_before", memory.snapshot.last_included_index + 1)>>
            BY <2>1, <2>3, <3>1 DEF Durability, Saving, Discarding
        <3>3. Head(calls).op = "discard_entries_before"
            BY <3>2 DEF Call
        <3>4. base' = base
            BY <2>1, <3>3 DEF SnapshotCall
        <3>5. ~Idle' => Recoverable' = base
            BY <2>3, <3>4 DEF Recoverable
        <3> QED BY <1>2, <1>3, <3>1, <3>5
    <2> QED BY <2>2, <2>3
<1>6. CASE WriteFile
    <2>1. writes # <<>> /\ writes' = Tail(writes) /\ base' = base /\ calls' = calls
        BY <1>6 DEF WriteFile
    <2>2. CASE base = None
        <3>1. PICK f : writes = <<Update(memory, f)>>
            BY <2>1, <2>2 DEF Durability, Following
        <3>2. writes' = <<>>
            BY <2>1, <3>1
        <3>3. Recoverable' = memory'
            BY <1>1, <2>1, <2>2, <3>2, LoadedNext DEF Recoverable
        <3> QED BY <1>3, <3>3
    <2>3. CASE base # None
        <3>1. ~Idle /\ Recoverable = base
            BY <2>1, <2>3 DEF Idle, Recoverable
        <3>2. ~Idle' => Recoverable' = base
            BY <2>1, <2>3 DEF Recoverable
        <3> QED BY <1>2, <1>3, <3>1, <3>2
    <2> QED BY <2>2, <2>3
<1>7. CASE Crash
    BY <1>2, <1>7 DEF Crash, Recoverable, Idle
<1>8. CASE UNCHANGED vars
    <2>1. Recoverable' = Recoverable
        BY <1>8 DEF vars, Recoverable, Idle
    <2> QED BY <1>8, <2>1 DEF Crash, Recoverable, vars
<1> QED BY <1>4, <1>5, <1>6, <1>7, <1>8 DEF Next

\* Nor does a newer term concern the log.
LEMMA AdoptHarmless ==
    ASSUME NEW t, NEW applied
    PROVE  IsSeq(AdoptTerm(t)) /\ \A k \in DOMAIN AdoptTerm(t) : Harmless(AdoptTerm(t)[k], applied)
<1> DEFINE a == Call("set_current_term", t)
           b == Call("set_voted_for", None)
<1>1. a.op = "set_current_term" /\ b.op = "set_voted_for"
    BY DEF Call
<1>2. AdoptTerm(t) = <<a, b>> \/ AdoptTerm(t) = <<>>
    BY DEF AdoptTerm
<1> HIDE DEF a, b
<1>3. Harmless(a, applied) /\ Harmless(b, applied)
    BY <1>1 DEF Harmless, SnapshotCall
<1> QED BY <1>2, <1>3, Tuples

\* An event of the core brings the state machine forward by committed entries,
\* and has the calls made that go with it.
EventDoes ==
    /\ memory' = memory
    /\ machine'.last_applied \in 0..Len(Committed)
    /\ machine.last_applied <= machine'.last_applied
    /\ machine'.data = CommittedData(machine'.last_applied)
    /\ \A k \in DOMAIN calls' : Honest(calls', k, memory, machine'.last_applied)

\* An event that is about terms and votes only.
LEMMA VoteEvents ==
    ASSUME Applying, NEW a, NEW z, IsSeq(a), IsSeq(z), Begin(a \o z), machine' = machine,
           \A k \in DOMAIN a : Harmless(a[k], machine.last_applied),
           \A k \in DOMAIN z : Harmless(z[k], machine.last_applied)
    PROVE  EventDoes
<1>1. calls' = a \o z /\ memory' = memory
    BY DEF Begin
<1>2. \A k \in DOMAIN calls' : Honest(calls', k, memory, machine.last_applied)
    BY <1>1, PlainHonest
<1>3. machine.last_applied <= machine.last_applied
    BY StorageAssumption DEF Applying
<1> QED BY <1>1, <1>2, <1>3 DEF EventDoes, Applying

\* try_append_entries.
LEMMA AppendCommittedDoes ==
    ASSUME IsStorage(memory), Aligned(memory), Applying,
           NEW prev \in 0..Len(Committed), NEW last \in 0..Len(Committed),
           NEW commit \in 0..Len(Committed), AppendCommitted(prev, last, commit)
    PROVE  EventDoes
<1> DEFINE first == memory.first_log_index
           entries == SubSeq(Committed, prev + 1, last)
           old == truncate_after(memory, prev)
           after == append_entries(old, entries)
           all == old.log \o entries
           x == IF last_log_index(memory) > prev
                THEN <<Call("truncate_after", prev)>> ELSE <<>>
           s == x \o <<Call("append_entries", entries)>>
<1>1. /\ Begin(s)
      /\ machine' = ApplyCommitted(after, commit)
      /\ last > prev /\ Consistent(prev) /\ prev >= first - 1
      /\ commit \in machine.last_applied .. last
    BY DEF AppendCommitted
<1>2. /\ Len(all) = last - first + 1
      /\ \A k \in 1..Len(all) : all[k] = Committed[first + k - 1]
      /\ Genuine(all, first)
      /\ ~(last_log_index(memory) > prev) => old.log = memory.log
    <2>1. Genuine(memory.log, memory.first_log_index)
        BY DEF Applying, Sound
    <2> QED BY <1>1, <2>1, Rebuilt
<1>3. after.log = all /\ after.first_log_index = first
    BY DEF append_entries, truncate_after, IsStorage
<1>4. /\ machine.last_applied \in Nat /\ first \in Nat \ {0} /\ commit \in Nat /\ last \in Nat
      /\ machine.last_applied <= commit /\ commit <= last
      /\ machine.last_applied \in 0..Len(Committed)
      /\ machine.data = CommittedData(machine.last_applied)
    BY <1>1, StorageAssumption DEF IsStorage, Applying
<1>5. first - 1 <= machine.last_applied
    BY <1>4 DEF Aligned, Applying, Sound, Shows, IsStorage, IsSnapshot
<1> HIDE DEF first, entries, old, after, all
<1>6. ASSUME NEW i \in (machine.last_applied + 1)..commit
      PROVE  get_entry(after, i) = Committed[i]
    <2>1. i - first + 1 \in 1..Len(all) /\ first + (i - first + 1) - 1 = i
        <3> DEFINE n == Len(all)
                   j == machine.last_applied
        <3>1. n = last - first + 1
            BY <1>2
        <3>2. /\ j \in Nat /\ first \in Nat /\ commit \in Nat /\ last \in Nat
              /\ j <= commit /\ commit <= last /\ first - 1 <= j /\ i \in (j + 1)..commit
            BY <1>4, <1>5
        <3> HIDE DEF n, j, s, x
        <3>3. i - first + 1 \in 1..n /\ first + (i - first + 1) - 1 = i
            BY <3>1, <3>2
        <3> QED BY <3>3 DEF n
    <2>2. all[i - first + 1] = Committed[i]
        BY <1>2, <2>1
    <2> QED BY <1>3, <2>2 DEF get_entry
<1>7. /\ machine'.last_applied = commit
      /\ machine'.data = CommittedData(commit)
    BY <1>1, <1>4, <1>6, AppliesCommitted
<1>8. \/ x = <<>> /\ Genuine(memory.log \o entries, memory.first_log_index)
      \/ /\ x = <<Call("truncate_after", prev)>>
         /\ Genuine(truncate_after(memory, prev).log \o entries, memory.first_log_index)
    BY <1>2 DEF all, old, first
<1> HIDE DEF x
<1>9. \A k \in DOMAIN s : Honest(s, k, memory, commit)
    BY <1>8, AppendHonest
<1>10. calls' = s /\ memory' = memory
    BY <1>1 DEF Begin
<1> HIDE DEF s
<1> QED BY <1>4, <1>7, <1>9, <1>10 DEF EventDoes

\* Every event of the core.
LEMMA EventApplies ==
    ASSUME SnapshotsRestore, IsStorage(memory), Aligned(memory),
           Applying, Event
    PROVE  EventDoes
<1> DEFINE applied == machine.last_applied
<1>1. /\ Len(Committed) \in Nat /\ applied \in 0..Len(Committed) /\ applied \in Nat
      /\ machine.data = CommittedData(applied)
      /\ Genuine(memory.log, memory.first_log_index)
      /\ memory.log \in Seq(Entry) /\ memory.first_log_index \in Nat \ {0}
    BY StorageAssumption DEF Applying, Sound, IsStorage
<1>2. \A v : Call("set_voted_for", v).op = "set_voted_for"
    BY DEF Call
<1>3. \A v : /\ IsSeq(<<Call("set_voted_for", v)>>)
             /\ \A k \in DOMAIN <<Call("set_voted_for", v)>> :
                    Harmless(<<Call("set_voted_for", v)>>[k], applied)
    BY <1>2, Tuples DEF Harmless, SnapshotCall
<1>4. CASE StartElection
    <2> DEFINE a == Call("set_current_term", memory.current_term + 1)
               b == Call("set_voted_for", Self)
    <2>1. a.op = "set_current_term"
        BY DEF Call
    <2>2. Begin(<<a, b>>) /\ machine' = machine
        BY <1>4 DEF StartElection
    <2>3. IsSeq(<<a>>) /\ \A k \in DOMAIN <<a>> : Harmless(<<a>>[k], applied)
        <3> HIDE DEF a
        <3> QED BY <2>1, Tuples DEF Harmless, SnapshotCall
    <2>4. IsSeq(<<b>>) /\ \A k \in DOMAIN <<b>> : Harmless(<<b>>[k], applied)
        BY <1>3
    <2> HIDE DEF a, b
    <2>5. Begin(<<a>> \o <<b>>)
        BY <2>2, TwoOf
    <2> QED BY <2>2, <2>3, <2>4, <2>5, VoteEvents
<1>5. ASSUME NEW t \in 1..MaxTerm, NewerTerm(t) PROVE EventDoes
    <2> DEFINE a == AdoptTerm(t)
    <2>1. Begin(a) /\ machine' = machine
        BY <1>5 DEF NewerTerm
    <2>2. IsSeq(a) /\ \A k \in DOMAIN a : Harmless(a[k], applied)
        BY AdoptHarmless
    <2> HIDE DEF a
    <2>3. a \o <<>> = a
        BY <2>2 DEF IsSeq
    <2>4. Begin(a \o <<>>)
        BY <2>1, <2>3
    <2>5. IsSeq(<<>>) /\ \A k \in DOMAIN <<>> : Harmless(<<>>[k], applied)
        BY Tuples
    <2> QED BY <2>1, <2>2, <2>4, <2>5, VoteEvents
<1>6. ASSUME NEW t \in 1..MaxTerm, NEW i \in Node, GrantVote(t, i) PROVE EventDoes
    <2>1. Begin(AdoptTerm(t) \o <<Call("set_voted_for", i)>>) /\ machine' = machine
        BY <1>6 DEF GrantVote
    <2> QED BY <1>3, <2>1, AdoptHarmless, VoteEvents
<1>7. ASSUME NEW prev \in 0..Len(Committed), NEW last \in 0..Len(Committed),
             NEW commit \in 0..Len(Committed), AppendCommitted(prev, last, commit)
      PROVE  EventDoes
    BY <1>7, AppendCommittedDoes
<1>8. ASSUME NEW t \in 1..MaxTerm, NEW index \in 1..Len(Committed), InstallSnapshot(t, index)
      PROVE  EventDoes
    <2> DEFINE made == CommittedData(index)
               snap == [last_included_index |-> index,
                        last_included_term |-> Committed[index].term,
                        data |-> create_snapshot(made)]
               a == Call("apply_snapshot_chunk", snap)
               b == Call("discard_entries_before", index + 1)
               s == AdoptTerm(t) \o <<a, b>>
    <2>1. /\ Begin(s) /\ index > applied
          /\ machine' = [data |-> restore_from_snapshot(create_snapshot(made)),
                         last_applied |-> index]
        BY <1>8 DEF InstallSnapshot
    <2>2. restore_from_snapshot(create_snapshot(made)) = made
        BY DEF SnapshotsRestore
    <2> HIDE DEF made
    <2>3. machine'.last_applied = index /\ machine'.data = made
        BY <2>1, <2>2
    <2>4. Shows(snap, index)
        BY <1>1 DEF Shows, made
    <2>5. a.op = "apply_snapshot_chunk" /\ a.arg = snap /\ b.op = "discard_entries_before"
        BY DEF Call
    <2> HIDE DEF a, b, snap
    <2>6. Harmless(a, index) /\ Harmless(b, index)
        BY <2>4, <2>5 DEF Harmless, SnapshotCall
    <2>7. IsSeq(<<a, b>>) /\ \A k \in DOMAIN <<a, b>> : Harmless(<<a, b>>[k], index)
        BY <2>6, Tuples
    <2>8. \A k \in DOMAIN s : Honest(s, k, memory, index)
        BY <2>7, AdoptHarmless, PlainHonest
    <2>9. calls' = s /\ memory' = memory
        BY <2>1 DEF Begin
    <2>10. index \in 0..Len(Committed) /\ applied <= index
        BY <1>1, <2>1
    <2> HIDE DEF s
    <2> QED BY <2>3, <2>8, <2>9, <2>10 DEF EventDoes, made
<1>9. ASSUME NEW e \in Stray, AppendStray(e) PROVE EventDoes
    <2> DEFINE a == Call("append_entries", <<e>>)
    <2>1. Begin(<<a>>) /\ machine' = machine
        BY <1>9 DEF AppendStray
    <2>2. a.op = "append_entries" /\ a.arg = <<e>>
        BY DEF Call
    <2>3. Genuine(memory.log \o <<e>>, memory.first_log_index)
        BY <1>1, GenuineWithStray
    <2> HIDE DEF a
    <2>4. Found(<<a>>, 1, memory) = memory.log
        BY DEF Found
    <2>5. Honest(<<a>>, 1, memory, applied)
        BY <2>2, <2>3, <2>4 DEF Honest, SnapshotCall
    <2>6. DOMAIN <<a>> = {1}
        OBVIOUS
    <2>7. calls' = <<a>> /\ memory' = memory
        BY <2>1 DEF Begin
    <2>8. applied <= applied
        BY <1>1
    <2> QED BY <1>1, <2>1, <2>5, <2>6, <2>7, <2>8 DEF EventDoes
<1>10. ASSUME NEW commit \in 1..Len(Committed), CommitTo(commit)
       PROVE  /\ commit \in 0..Len(Committed) /\ applied <= commit
              /\ machine'.last_applied = commit
              /\ machine'.data = CommittedData(commit)
    <2>1. /\ machine' = ApplyCommitted(memory, commit) /\ commit > applied
          /\ \A k \in applied + 1 .. commit : get_entry(memory, k) = Committed[k]
        BY <1>10 DEF CommitTo
    <2>2. commit \in 0..Len(Committed) /\ applied <= commit
        BY <1>1, <2>1
    <2>3. /\ machine'.last_applied = commit
          /\ machine'.data = CommittedData(commit)
        BY <1>1, <2>1, <2>2, AppliesCommitted
    <2> QED BY <2>2, <2>3
<1>11. ASSUME NEW commit \in 1..Len(Committed), CommitAdvances(commit) PROVE EventDoes
    <2> DEFINE z == SnapshotCalls(memory, machine')
    <2>1. Begin(z) /\ CommitTo(commit)
        BY <1>11 DEF CommitAdvances
    <2>2. /\ commit \in 0..Len(Committed) /\ applied <= commit
          /\ machine'.last_applied = commit
          /\ machine'.data = CommittedData(commit)
        BY <1>10, <2>1
    <2>3. ASSUME NEW k \in DOMAIN z PROVE Honest(z, k, memory, commit)
        <3>1. Harmless(z[k], commit)
            BY <1>1, <2>2, SnapshotCallsShow DEF Harmless
        <3> QED BY <3>1 DEF Harmless, Honest
    <2>4. calls' = z /\ memory' = memory
        BY <2>1 DEF Begin
    <2> HIDE DEF z
    <2> QED BY <2>2, <2>3, <2>4 DEF EventDoes
<1>12. ASSUME NEW commit \in 1..Len(Committed), CommitLearned(commit) PROVE EventDoes
    <2>1. Begin(<<>>) /\ CommitTo(commit)
        BY <1>12 DEF CommitLearned
    <2>2. calls' = <<>> /\ memory' = memory
        BY <2>1 DEF Begin
    <2>3. DOMAIN calls' = {}
        BY <2>2
    <2> QED BY <1>10, <2>1, <2>2, <2>3 DEF EventDoes
<1> QED BY <1>4, <1>5, <1>6, <1>7, <1>8, <1>9, <1>11, <1>12 DEF Event

\* Every storage call leaves a log and a snapshot as they ought to be.
LEMMA CallApplies ==
    ASSUME NoneIsNothing, ConfigChange = {}, SnapshotCrashes = FALSE, TornWrites = FALSE,
           Durability, Applying, MakeCall
    PROVE  /\ Genuine(memory'.log, memory'.first_log_index)
           /\ Shows(memory'.snapshot, machine.last_applied)
           /\ \A k \in DOMAIN calls' : Honest(calls', k, memory', machine.last_applied)
<1> DEFINE c == calls[1]
           applied == machine.last_applied
<1>1. /\ writes = <<>> /\ calls # <<>> /\ ~Idle
      /\ memory' = Effect(memory, Head(calls)) /\ calls' = Tail(calls)
    BY DEF MakeCall, Idle
<1>2. /\ IsStorage(memory) /\ IsStorage(memory')
      /\ Genuine(memory.log, memory.first_log_index)
      /\ Shows(memory.snapshot, applied)
      /\ \A k \in DOMAIN calls : Honest(calls, k, memory, applied)
    <2>1. Durability'
        BY StorageStep DEF Next
    <2> QED BY <2>1 DEF Durability, Applying, Sound
<1>3. CASE base = None
    <2>1. CallableAll(calls, memory)
        BY <1>1, <1>3, BetweenCalls
    <2>2. /\ Head(calls) = c /\ Len(calls) \in Nat /\ Len(calls) > 0
          /\ DOMAIN calls = 1..Len(calls) /\ DOMAIN calls' = 1..(Len(calls) - 1)
          /\ \A k \in 1..(Len(calls) - 1) : calls'[k] = calls[k + 1]
        BY <1>1, <2>1, TailOf DEF CallableAll
    <2>3. CASE c.op \notin SnapshotCall
        <3>1. memory' = Effect(memory, calls[1]) /\ calls[1].op \notin SnapshotCall
            BY <1>1, <2>2, <2>3
        <3> QED BY <1>1, <1>2, <2>1, <3>1, HonestNext
    <2>4. CASE c.op \in SnapshotCall
        <3>1. Callable(calls, 1, memory) /\ Honest(calls, 1, memory, applied)
            BY <1>2, <2>1, <2>2 DEF CallableAll
        <3>2. memory' = [memory EXCEPT !.snapshot = c.arg] /\ Shows(c.arg, applied)
            BY <1>1, <2>2, <2>4, <3>1, CallDoes DEF Honest
        <3>3. /\ memory'.log = memory.log /\ memory'.first_log_index = memory.first_log_index
              /\ memory'.snapshot = c.arg
            <4> HIDE DEF c
            <4> QED BY <1>2, <3>2 DEF IsStorage
        <3>4. 1 = Len(calls) - 1 /\ calls[1 + 1].op = "discard_entries_before"
            <4>1. /\ 1 = Len(calls) - 1
                  /\ calls[1 + 1] = Call("discard_entries_before",
                                         calls[1].arg.last_included_index + 1)
                BY <2>4, <3>1 DEF Callable
            <4>2. \A v : Call("discard_entries_before", v).op = "discard_entries_before"
                BY DEF Call
            <4> QED BY <4>1, <4>2
        <3>5. DOMAIN calls' = {1} /\ calls'[1].op = "discard_entries_before"
            <4>1. Len(calls) - 1 = 1 /\ 1 \in 1..1 /\ 1..1 = {1}
                BY <3>4
            <4> QED BY <2>2, <3>4, <4>1
        <3>6. \A k \in DOMAIN calls' : Honest(calls', k, memory', applied)
            BY <3>5 DEF Honest, SnapshotCall
        <3> QED BY <1>2, <3>2, <3>3, <3>6
    <2> QED BY <2>3, <2>4
<1>4. CASE base # None
    <2> DEFINE index == memory.snapshot.last_included_index + 1
               first == memory.first_log_index
               b == Call("discard_entries_before", index)
    <2>1. /\ IsSnapshot(memory.snapshot) /\ IsStorage(base)
          /\ memory.snapshot.last_included_index >= base.first_log_index
          /\ Saving
        BY <1>1, <1>4 DEF Durability, Discarding
    <2>2. calls = <<b>> /\ memory = [base EXCEPT !.snapshot = memory.snapshot]
        BY <2>1 DEF Saving
    <2>3. b.op = "discard_entries_before" /\ b.arg = index
        BY DEF Call
    <2>4. memory.first_log_index = base.first_log_index
        BY <2>1, <2>2 DEF IsStorage
    <2>5. index \in Nat /\ index >= first /\ first \in Nat
        BY <1>2, <2>1, <2>4 DEF IsSnapshot, IsStorage
    <2> HIDE DEF b
    <2>6. Head(calls) = b /\ calls' = <<>>
        BY <1>1, <2>2
    <2>7. memory' = discard_entries_before(memory, index)
        BY <1>1, <2>3, <2>6, CallDoes
    <2> HIDE DEF index
    <2>8. CASE index <= first
        <3>1. memory' = memory
            BY <2>7, <2>8 DEF discard_entries_before
        <3> QED BY <1>2, <2>6, <3>1
    <2>9. CASE ~(index <= first)
        <3>1. memory' = [memory EXCEPT !.log = SubSeq(@, index - first + 1, Len(@)),
                                       !.first_log_index = index]
            BY <2>7, <2>9 DEF discard_entries_before
        <3>2. /\ memory'.log = SubSeq(memory.log, index - first + 1, Len(memory.log))
              /\ memory'.first_log_index = index /\ memory'.snapshot = memory.snapshot
            BY <1>2, <3>1 DEF IsStorage
        <3>3. memory.log \in Seq(Entry)
            BY <1>2 DEF IsStorage
        <3>4. Genuine(SubSeq(memory.log, index - first + 1, Len(memory.log)), index)
            BY <1>2, <2>5, <3>3, GenuineDiscarded
        <3> QED BY <1>2, <2>6, <3>2, <3>4
    <2> QED BY <2>8, <2>9
<1> QED BY <1>3, <1>4

\* A snapshot shows no less when more has been applied.
LEMMA ShowsOn ==
    ASSUME NEW s, NEW i \in Nat, NEW j \in Nat, i <= j, Shows(s, i)
    PROVE  Shows(s, j)
BY StorageAssumption DEF Shows

\* Every step keeps the state machine, the log and the snapshots together.
LEMMA ApplyingStep ==
    ASSUME NoneIsNothing, ConfigChange = {}, SnapshotCrashes = FALSE, TornWrites = FALSE,
           SnapshotsRestore, Durability, Applying, [Next]_vars
    PROVE  Applying'
<1> DEFINE Good(m) == Genuine(m.log, m.first_log_index)
<1>1. /\ Recoverable' \in {Recoverable, memory'} /\ (Crash => memory' = Recoverable)
      /\ Durability' /\ IsStorage(memory)
    BY Leaves, StorageStep DEF Durability
<1>2. /\ machine.last_applied \in 0..Len(Committed) /\ machine.last_applied \in Nat
      /\ machine.data = CommittedData(machine.last_applied)
      /\ Good(memory) /\ Shows(memory.snapshot, machine.last_applied)
      /\ Good(Recoverable) /\ Shows(Recoverable.snapshot, machine.last_applied)
      /\ \A k \in DOMAIN calls : Honest(calls, k, memory, machine.last_applied)
    BY StorageAssumption DEF Applying, Sound
<1>3. SUFFICES /\ machine'.last_applied \in 0..Len(Committed)
               /\ machine'.data = CommittedData(machine'.last_applied)
               /\ Good(memory') /\ Shows(memory'.snapshot, machine'.last_applied)
               /\ \/ Recoverable' = memory'
                  \/ /\ Recoverable' = Recoverable
                     /\ Shows(Recoverable.snapshot, machine'.last_applied)
               /\ \A k \in DOMAIN calls' : Honest(calls', k, memory', machine'.last_applied)
    BY <1>1, <1>2 DEF Applying, Sound
<1>4. CASE Idle /\ Event
    <2>1. Aligned(memory)
        BY <1>4, BetweenCalls DEF Idle
    <2>2. EventDoes
        BY <1>1, <1>4, <2>1, EventApplies
    <2>3. machine'.last_applied \in Nat /\ machine.last_applied <= machine'.last_applied
        BY <2>2, StorageAssumption DEF EventDoes
    <2>4. /\ Shows(memory.snapshot, machine'.last_applied)
          /\ Shows(Recoverable.snapshot, machine'.last_applied)
        BY <1>2, <2>3, ShowsOn
    <2> HIDE DEF Good
    <2> QED BY <1>1, <1>2, <2>2, <2>4 DEF EventDoes
<1>5. CASE MakeCall
    <2>1. machine' = machine
        BY <1>5 DEF MakeCall
    <2> QED BY <1>1, <1>2, <1>5, <2>1, CallApplies
<1>6. CASE WriteFile
    <2>1. machine' = machine /\ memory' = memory /\ calls' = calls
        BY <1>6 DEF WriteFile
    <2> QED BY <1>1, <1>2, <2>1
<1>7. CASE Crash
    <2> DEFINE s == memory'.snapshot
    <2>1. /\ calls' = <<>>
          /\ machine' = IF s = None THEN [data |-> <<>>, last_applied |-> 0]
                        ELSE [data |-> restore_from_snapshot(s.data),
                              last_applied |-> s.last_included_index]
        BY <1>7 DEF Crash
    <2>2. Good(memory') /\ Shows(s, machine.last_applied) /\ Recoverable' = memory'
        <3>1. memory' = Recoverable
            BY <1>1, <1>7
        <3> HIDE DEF Good
        <3> QED BY <1>1, <1>2, <3>1
    <2> HIDE DEF s, Good
    <2>3. CASE s = None
        <3>1. machine'.last_applied = 0 /\ machine'.data = <<>>
            BY <2>1, <2>3
        <3>2. CommittedData(0) = <<>>
            BY NothingApplied
        <3>3. Shows(s, 0)
            BY <2>3 DEF Shows
        <3> QED BY <2>1, <2>2, <3>1, <3>2, <3>3, StorageAssumption DEF s
    <2>4. CASE s # None
        <3> DEFINE i == s.last_included_index
        <3>1. i \in 1..Len(Committed) /\ s.data = create_snapshot(CommittedData(i))
            BY <2>2, <2>4 DEF Shows
        <3>2. restore_from_snapshot(s.data) = CommittedData(i)
            BY <3>1 DEF SnapshotsRestore
        <3>3. machine'.last_applied = i /\ machine'.data = CommittedData(i)
            BY <2>1, <2>4, <3>2
        <3>4. i \in 0..Len(Committed) /\ i <= i
            BY <3>1, StorageAssumption
        <3>5. Shows(s, i)
            BY <3>1, <3>4 DEF Shows
        <3> HIDE DEF i
        <3> QED BY <2>1, <2>2, <3>3, <3>4, <3>5 DEF s
    <2> QED BY <2>3, <2>4
<1>8. CASE UNCHANGED vars
    <2>1. machine' = machine /\ memory' = memory /\ calls' = calls
        BY <1>8 DEF vars
    <2> QED BY <1>1, <1>2, <2>1
<1> QED BY <1>4, <1>5, <1>6, <1>7, <1>8 DEF Next

(***************************************************************************)
(* Whatever snapshots, crashes and restarts lie behind it, the state       *)
(* machine holds what the committed entries up to last_applied make when   *)
(* apply_committed_entries applies them one by one: for every sequence of  *)
(* committed and of stray entries, under the conditions of MemoryDurable   *)
(* and as long as the text of a snapshot has room for the state machine.   *)
(***************************************************************************)
THEOREM MachineMatches ==
    ASSUME NoneIsNothing, ConfigChange = {}, SnapshotCrashes = FALSE, TornWrites = FALSE,
           SnapshotsRestore
    PROVE  Spec => []MachineMatchesCommitted
<1>1. Init => Durability /\ Applying
    <2> SUFFICES ASSUME Init PROVE Durability /\ Applying
        OBVIOUS
    <2>1. /\ Durability /\ Recoverable.log = <<>> /\ Recoverable.snapshot = None
          /\ Recoverable.first_log_index = 1
        BY FirstStart
    <2>2. /\ Recoverable = memory /\ calls = <<>>
          /\ machine.last_applied = 0 /\ machine.data = <<>>
        BY DEF Init, Recoverable
    <2>3. 0 \in 0..Len(Committed) /\ machine.data = CommittedData(0)
        BY <2>2, NothingApplied, StorageAssumption
    <2>4. Sound(memory)
        BY <2>1, <2>2 DEF Sound, Genuine, Shows
    <2> QED BY <2>1, <2>2, <2>3, <2>4 DEF Applying
<1>2. Durability /\ Applying /\ [Next]_vars => Durability' /\ Applying'
    BY StorageStep, ApplyingStep
<1>3. Applying => MachineMatchesCommitted
    BY DEF Applying, MachineMatchesCommitted
<1> QED BY <1>1, <1>2, <1>3, PTL DEF Spec
=============================================================================

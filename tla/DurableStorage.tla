--------------------------- MODULE DurableStorage ---------------------------
(***************************************************************************)
(* What the core takes a Storage for: every call takes effect at once and  *)
(* is there after a crash, so that a crash is no step at all.  A snapshot  *)
(* replaces the entries it covers in one step.                             *)
(***************************************************************************)
EXTENDS Integers, Sequences

CONSTANTS Term, Vote, Entry, NoSnapshot, NoVote

VARIABLE storage

\* The log indices that the entries occupy.
Indices(s) == s.first_log_index .. (s.first_log_index + Len(s.log) - 1)

EntryAt(s, index) == s.log[index - s.first_log_index + 1]

DurableInit ==
    storage = [current_term |-> 0, voted_for |-> NoVote, log |-> <<>>,
               first_log_index |-> 1, snapshot |-> NoSnapshot]

\* A term is never taken back.
SetTerm ==
    \E t \in Term :
        /\ t > storage.current_term
        /\ storage' = [storage EXCEPT !.current_term = t]

SetVote ==
    \E v \in Vote \cup {NoVote} : storage' = [storage EXCEPT !.voted_for = v]

\* One entry or more are added behind the entries there are.
AppendDurably ==
    \E k \in 1 .. Len(storage'.log) :
        /\ SubSeq(storage'.log, Len(storage'.log) - k + 1, Len(storage'.log)) \in Seq(Entry)
        /\ storage' = [storage EXCEPT !.log =
               @ \o SubSeq(storage'.log, Len(storage'.log) - k + 1, Len(storage'.log))]

\* The entries that stay keep their index.
TruncateDurably ==
    \E k \in 0 .. Len(storage.log) :
        storage' = [storage EXCEPT !.log = SubSeq(@, 1, k)]

\* The entries behind the snapshot stay, at their index.
CompactDurably ==
    LET covered == storage'.first_log_index - 1
    IN  /\ storage'.snapshot # NoSnapshot
        /\ storage'.snapshot.last_included_index = covered
        /\ covered >= storage.first_log_index
        /\ Indices(storage') = {i \in Indices(storage) : i > covered}
        /\ \A i \in Indices(storage') : EntryAt(storage', i) = EntryAt(storage, i)
        /\ storage'.current_term = storage.current_term
        /\ storage'.voted_for = storage.voted_for

DurableNext ==
    SetTerm \/ SetVote \/ AppendDurably \/ TruncateDurably \/ CompactDurably

DurableSpec == DurableInit /\ [][DurableNext]_storage
=============================================================================

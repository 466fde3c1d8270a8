----------------------------- MODULE OffsetManager -----------------------------
(***************************************************************************)
(* OffsetManager (src/consumer/offset_manager.rs): the offsets marked for  *)
(* commit, the offsets it believes committed, and, at the broker, the      *)
(* position of the consumer group.  commit_offsets() keeps the lock of the *)
(* pending map over a synchronous commit, so that a mark waits for it and  *)
(* each operation is one step.                                             *)
(***************************************************************************)
EXTENDS Integers

CONSTANTS Partitions, LogEnd    \* partitions, and offsets 0..LogEnd-1 of each

VARIABLES
  pending,     \* pending_offsets: partition -> offset, or None
  committed,   \* committed_offsets: partition -> offset, or None
  group        \* at the broker: partition -> next offset for the group

None == -1
Offset == 0..(LogEnd - 1)

OffsetsTypeOK ==
  /\ pending \in [Partitions -> Offset \cup {None}]
  /\ committed \in [Partitions -> Offset \cup {None}]
  /\ group \in [Partitions -> 0..LogEnd]

OffsetsInit ==
  /\ pending = [p \in Partitions |-> None]
  /\ committed = [p \in Partitions |-> None]
  /\ group = [p \in Partitions |-> 0]

Marked == {p \in Partitions : pending[p] # None}

\* mark_offset(): the last mark wins, whatever it replaces.
MarkOffset(p, o) ==
  /\ pending' = [pending EXCEPT ![p] = o]
  /\ UNCHANGED <<committed, group>>

\* Mutant of GroupAfterCommit: the + 1 is there twice.
GroupTwoAfterCommit == [p \in Partitions |-> IF p \in Marked THEN pending[p] + 2 ELSE group[p]]

\* What the broker holds after it applied a commit of every pending offset.
GroupAfterCommit == [p \in Partitions |-> IF p \in Marked THEN pending[p] + 1 ELSE group[p]]

\* commit_offsets() returning Ok: pending moves to committed.
CommitSucceeds ==
  /\ group' = GroupAfterCommit
  /\ committed' = [p \in Partitions |-> IF p \in Marked THEN pending[p] ELSE committed[p]]
  /\ pending' = [p \in Partitions |-> None]

\* commit_offsets() returning Err: pending is kept; the broker may have
\* applied the commit all the same.
CommitFails ==
  /\ Marked # {}
  /\ group' \in {group, GroupAfterCommit}
  /\ UNCHANGED <<pending, committed>>

CommitOffsets == CommitSucceeds \/ CommitFails

\* A restart of the process: the maps are gone, the broker's positions stay.
OffsetsLost ==
  /\ pending' = [p \in Partitions |-> None]
  /\ committed' = [p \in Partitions |-> None]
  /\ UNCHANGED group
==============================================================================

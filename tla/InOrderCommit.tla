----------------------------- MODULE InOrderCommit -----------------------------
(***************************************************************************)
(* What committing offsets must mean for a consumer group: a message is    *)
(* settled once the consumer has succeeded on it or knowingly given it up, *)
(* and the group's position only moves forward, over settled messages.     *)
(* Restarting from the position then skips nothing and replays only        *)
(* messages whose settling was not yet committed.                          *)
(***************************************************************************)
EXTENDS Integers

CONSTANTS Partitions, LogEnd

VARIABLES position, settled

Message == Partitions \X (0..(LogEnd - 1))

Init == position = [p \in Partitions |-> 0] /\ settled = {}

Settle ==
  /\ settled \subseteq settled' /\ settled' \subseteq Message
  /\ UNCHANGED position

Advance ==
  /\ position' \in [Partitions -> 0..LogEnd]
  /\ \A p \in Partitions :
       /\ position'[p] >= position[p]
       /\ \A o \in 0..(position'[p] - 1) : <<p, o>> \in settled
  /\ UNCHANGED settled

Spec == Init /\ [][Settle \/ Advance]_<<position, settled>>
==============================================================================

----------------------------- MODULE MCAggregation -----------------------------
(* Instances of the two parts of src/aggregation for TLC.  They share nothing, *)
(* so a behaviour is one of the evaluator or one of a window.                  *)
EXTENDS AggregationEvaluator, SlidingWindow, TLC

VARIABLE subject

Init == EvaluatorInit /\ WindowInit /\ subject \in {"evaluator", "window"}
Next ==
  \/ subject = "evaluator" /\ EvaluatorNext /\ UNCHANGED <<window, subject>>
  \/ subject = "window" /\ WindowNext /\ UNCHANGED <<aggregation, subject>>
Spec == Init /\ [][Next]_<<aggregation, window, subject>>

Node(f, op, by, n) == [function |-> f, comparison |-> op, by_field |-> by, threshold |-> n]
Event(u, a, ts) == [user |-> u, amount |-> a, timestamp |-> ts]

\* Every function and comparison, with and without a group.
MCNodes == {Node("Count", ">", TRUE, 1), Node("Sum", "<=", TRUE, 2), Node("Average", ">=", TRUE, 1),
            Node("Min", "<", TRUE, 0), Node("Max", "!=", TRUE, 2), Node("Count", "==", FALSE, 2)}
\* A user, a user called "unknown" and none; an amount of either sign and none.
MCEvents == {Event("alice", 2, 0), Event("unknown", -1, 1), Event(Missing, Missing, 3)}

\* A sum that leaves the range of F64Max on either side.
MCValues == {-2, 1, 3}

CountNodes == {Node("Count", ">", TRUE, 2)}
AliceEvents == {Event("alice", 0, 0), Event("alice", 0, 30), Event("alice", 0, 65)}
==============================================================================

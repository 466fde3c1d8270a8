------------------------------- MODULE MatchTree -------------------------------
(***************************************************************************)
(* The answers of the match tree (src/ast/mod.rs, src/ast/nodes.rs): how   *)
(* each kind of node combines the answers of its branches to one event.    *)
(* Evaluation stops early, so that which branch comes first can show in    *)
(* `applicable`; a Vec of branches is a sequence of their answers.         *)
(***************************************************************************)
EXTENDS Integers, Sequences, FiniteSetsExt

MatchResult == [matched : BOOLEAN, applicable : BOOLEAN]
Answer(m, a) == [matched |-> m, applicable |-> a]

Matched == Answer(TRUE, TRUE)
NotMatched == Answer(FALSE, TRUE)
NotApplicable == Answer(FALSE, FALSE)

\* What a FieldRule answers: not applicable when the event lacks the field,
\* otherwise what its pattern says of the value.
FieldAnswer == {Matched, NotMatched, NotApplicable}

NodeAnd(left, right) ==
  IF ~left.matched THEN Answer(FALSE, left.applicable)
  ELSE Answer(left.matched /\ right.matched, left.applicable /\ right.applicable)

NodeOr(left, right) ==
  IF left.matched THEN Answer(TRUE, left.applicable)
  ELSE Answer(left.matched \/ right.matched, left.applicable \/ right.applicable)

NodeNot(branch) ==
  IF branch.applicable THEN Answer(~branch.matched, branch.applicable) ELSE branch

\* The first branch that does not match, or does not apply, answers for all.
NodeSimpleAnd(branches) ==
  LET Stops == {i \in DOMAIN branches : ~branches[i].matched \/ ~branches[i].applicable}
  IN IF Stops = {} THEN Matched ELSE branches[Min(Stops)]

NodeSimpleOr(branches) ==
  IF \E i \in DOMAIN branches : branches[i].matched THEN Matched
  ELSE Answer(FALSE, \E i \in DOMAIN branches : branches[i].applicable)

\* reduce(): one branch stands for itself and two get a node without a list.
\* The empty list, an error there, is excluded where this is used.
ReduceAnd(branches) ==
  CASE Len(branches) = 1 -> branches[1]
    [] Len(branches) = 2 -> NodeAnd(branches[1], branches[2])
    [] OTHER -> NodeSimpleAnd(branches)

ReduceOr(branches) ==
  CASE Len(branches) = 1 -> branches[1]
    [] Len(branches) = 2 -> NodeOr(branches[1], branches[2])
    [] OTHER -> NodeSimpleOr(branches)
==============================================================================

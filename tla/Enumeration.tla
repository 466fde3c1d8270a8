------------------------------ MODULE Enumeration ------------------------------
(***************************************************************************)
(* The order in which a loop goes through the places of a sequence that it *)
(* picks: filter() of an iterator, as a sequence.                          *)
(***************************************************************************)
EXTENDS Integers, FiniteSets

\* The places of a finite set from the first to the last.
InOrder(places) ==
  CHOOSE f \in [1..Cardinality(places) -> places] : \A j, k \in DOMAIN f : j < k => f[j] < f[k]
================================================================================

-------------------------- MODULE MCConsumerPipeline --------------------------
(* Instances of ConsumerPipeline for TLC. *)
EXTENDS ConsumerPipeline, TLC

Symmetry == Permutations(Partitions)
==============================================================================

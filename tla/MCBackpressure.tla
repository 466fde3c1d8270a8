---------------------------- MODULE MCBackpressure ----------------------------
(* Instances of Backpressure for TLC.  With an average of 1 and payloads of   *)
(* 11 bytes the moving average goes from 1 to 2 and stays there.              *)
EXTENDS Backpressure, TLC

Symmetry == Permutations(Callers)
==============================================================================

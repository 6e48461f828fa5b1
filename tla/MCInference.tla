---------------------------- MODULE MCInference ----------------------------
(* Instance of Inference for TLC: two requests over a store that holds one  *)
(* trace, so that it is evicted while its request still runs.               *)
EXTENDS Inference, TLC

Symmetry == Permutations(Traces) \cup Permutations(Words)
=============================================================================

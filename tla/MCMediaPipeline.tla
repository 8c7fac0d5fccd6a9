--------------------------- MODULE MCMediaPipeline ---------------------------
(* Instances of MediaPipeline for TLC. *)
EXTENDS MediaPipeline, TLC

CONSTANTS a1, a2, c1, c2, w1, w2

SlotSymmetry == Permutations({c1, c2}) \union Permutations({w1, w2})

=============================================================================

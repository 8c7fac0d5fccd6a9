----------------------------- MODULE MCViewings -----------------------------
(* Instances of Viewings for TLC. *)
EXTENDS Viewings, TLC

CONSTANTS a1, a2, l1, c1, c2

CallSymmetry == Permutations({c1, c2})

=============================================================================

-------------------------- MODULE MCSupportThreads --------------------------
(* Instances of SupportThreads for TLC. *)
EXTENDS SupportThreads, TLC

CONSTANTS b1, u1, s1, s2, c1, c2, none

CallSymmetry == Permutations({c1, c2}) \union Permutations({s1, s2})

=============================================================================

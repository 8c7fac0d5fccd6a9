---------------------------- MODULE MCStaffAccess ----------------------------
(* Instances of StaffAccess for TLC. *)
EXTENDS StaffAccess, TLC

CONSTANTS o, s, v, r1, r2, manage, other, n1, n2, i1, i2, c1, c2

AccessSymmetry == Permutations({n1, n2})
                  \union Permutations({c1, c2})

=============================================================================

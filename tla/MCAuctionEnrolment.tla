------------------------- MODULE MCAuctionEnrolment -------------------------
(* Instances of AuctionEnrolment for TLC. *)
EXTENDS AuctionEnrolment, TLC

CONSTANTS u1, u2, r1, r2, r3, r4

CallSymmetry == Permutations({r1, r2, r3, r4})

=============================================================================

----------------------------- MODULE MCAuction -----------------------------
(* Instances of Auction for TLC. *)
EXTENDS Auction, TLC

CONSTANTS seller, u1, u2, r1, r2, w1, k1, k2

\* Requests are told apart by nothing but their slot, bidders and keys by nothing
\* but their name; the seller is not one of the symmetric users.
BidSymmetry == Permutations({r1, r2}) \union Permutations({u1, u2})
               \union Permutations({k1, k2})

=============================================================================

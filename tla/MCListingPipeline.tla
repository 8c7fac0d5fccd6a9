------------------------- MODULE MCListingPipeline -------------------------
(* Instances of ListingPipeline for TLC. *)
EXTENDS ListingPipeline, TLC

CONSTANTS l1, a1, c1, c2

\* An idle call holds a fixed listing and agent, so only calls are symmetric.
CallSymmetry == Permutations({c1, c2})

=============================================================================

-------------------------- MODULE MCAuctionClient --------------------------
(* Instances of AuctionClient for TLC. *)
EXTENDS AuctionClient

=============================================================================

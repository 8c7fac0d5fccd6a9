------------------------- MODULE MCOutboxPublisher -------------------------
(* Instances of OutboxPublisher for TLC. *)
EXTENDS OutboxPublisher, TLC

CONSTANTS w1, w2

=============================================================================

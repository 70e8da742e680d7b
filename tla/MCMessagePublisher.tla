------------------------- MODULE MCMessagePublisher -------------------------
(* MessagePublisher for TLC: four requests against a buffer of two events. *)
EXTENDS MessagePublisher, TLC

CONSTANTS r1, r2, r3, r4

MCRequests == {r1, r2, r3, r4}

=============================================================================

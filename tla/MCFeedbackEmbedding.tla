------------------------- MODULE MCFeedbackEmbedding -------------------------
(* FeedbackEmbedding for TLC. *)
EXTENDS FeedbackEmbedding

CONSTANTS r1, A, B
=============================================================================

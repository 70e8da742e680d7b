------------------------ MODULE MCKeysetPagination ------------------------
(* KeysetPagination for TLC: five rows on two timestamps, pages of two. *)
EXTENDS KeysetPagination

MCIds == 1..5
MCCollectedAt == <<2, 1, 2, 1, 1>>

===========================================================================

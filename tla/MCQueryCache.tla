----------------------------- MODULE MCQueryCache -----------------------------
(* QueryCache for TLC. *)
EXTENDS QueryCache
=============================================================================

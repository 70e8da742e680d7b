--------------------------- MODULE MCAppLifecycle ---------------------------
(* AppLifecycle for TLC. *)
EXTENDS AppLifecycle

CONSTANTS r1, r2, r3
=============================================================================

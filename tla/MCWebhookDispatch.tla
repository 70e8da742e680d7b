------------------------- MODULE MCWebhookDispatch -------------------------
(* WebhookDispatch for TLC. *)
EXTENDS WebhookDispatch

CONSTANTS e1, e2, url1, url2
=============================================================================

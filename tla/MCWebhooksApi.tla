---------------------------- MODULE MCWebhooksApi ----------------------------
(* WebhooksApi for TLC. The requests are alike: permuting them changes no   *)
(* property. The ids are not, the fan-out goes in their order.              *)
EXTENDS WebhooksApi, TLC

CONSTANTS r1, r2, r3, url1

MCRequests == {r1, r2, r3}
MCSymmetry == Permutations(MCRequests)
=============================================================================

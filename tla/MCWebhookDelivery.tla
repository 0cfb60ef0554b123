------------------------- MODULE MCWebhookDelivery -------------------------
(***************************************************************************)
(* Instances of WebhookDelivery for TLC: two deliveries that compete for   *)
(* one worker.                                                             *)
(***************************************************************************)
EXTENDS WebhookDelivery, TLC
=============================================================================

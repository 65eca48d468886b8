-------------------------- MODULE MCWebhookDelivery --------------------------
(* The whole delivery on small instances. *)
EXTENDS WebhookDelivery, TLC

(* Requests are interchangeable. *)
Alike == Permutations(Request)
=============================================================================

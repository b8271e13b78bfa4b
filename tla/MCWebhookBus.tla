---------------------------- MODULE MCWebhookBus ----------------------------
(* WebhookBus on a small instance. *)
EXTENDS WebhookBus

MCMaxAttempts == [e \in Endpoint |-> 2]
=============================================================================

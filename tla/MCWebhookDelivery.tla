------------------------- MODULE MCWebhookDelivery -------------------------
(* Small instances of WebhookDelivery. *)
EXTENDS WebhookDelivery, TLC

CONSTANTS d1

MCDestOf == [e \in Envelopes |-> d1]


=============================================================================

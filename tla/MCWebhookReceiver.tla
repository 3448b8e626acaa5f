-------------------------- MODULE MCWebhookReceiver -------------------------
(* Small instances of WebhookReceiver: the deliveries of one event overlap, *)
(* those of the other do not.                                               *)
EXTENDS WebhookReceiver

CONSTANTS e1, e2

OnlyFirst == {e1}
=============================================================================

-------------------------- MODULE MCWebhookChannel --------------------------
(* Small instances of WebhookChannel: every subscription matches.            *)
EXTENDS WebhookChannel
MCMatches == [n \in Notes |-> Subs]
=============================================================================

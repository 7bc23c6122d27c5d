---------------------------- MODULE MCWebhookDelivery ----------------------------
(* WebhookDelivery for TLC: all servers deliver to some endpoints, or some   *)
(* servers deliver to all of them.                                           *)
EXTENDS WebhookDelivery

CONSTANTS SomeServers, SomeHooks   \* bounds

MCInit ==
    /\ WebhookInit
    /\ \/ deployed = Servers /\ registered = SomeHooks
       \/ deployed = SomeServers /\ registered = Hooks
MCSpec == MCInit /\ [][WebhookNext]_webhookVars /\ WebhookFairness
=============================================================================

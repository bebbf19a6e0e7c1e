------------------------- MODULE MCWebhookDelivery -------------------------
(* Small instances of WebhookDelivery for TLC.                             *)
EXTENDS WebhookDelivery

CONSTANTS u1, u2, d1, d2, l1, s1, s2

\* The app has registered one endpoint.
OneHook == {<<[url |-> u1, secret |-> s1]>>}
=============================================================================

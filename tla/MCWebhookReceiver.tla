------------------------- MODULE MCWebhookReceiver -------------------------
\* Small instances of WebhookReceiver for TLC.
EXTENDS WebhookReceiver

CONSTANTS r1, r2, bad, probe
=============================================================================

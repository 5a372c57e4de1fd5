----------------------------- MODULE MCWebhooks -----------------------------
\* Small instances of Webhooks at the code's proportions: one request fits a
\* lease (10 s in 60 s) and a batch of slow ones does not (20 x 10 s; here two
\* requests of two units and a lease of three).
EXTENDS Webhooks

CONSTANTS v1, v2, p1, p2, w1, w2

MCSubscribed == Event \X Endpoint
=============================================================================

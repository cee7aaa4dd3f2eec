----------------------------- MODULE MCConnection -----------------------------
EXTENDS Connection, TLC

\* The client sends one stream message and calls send_unreliable once.
MCMessages == (Client :> [stream |-> 1, reliable |-> 0]) @@ (Server :> [stream |-> 0, reliable |-> 0])

MCRaw == (Client :> 1) @@ (Server :> 0)
=============================================================================

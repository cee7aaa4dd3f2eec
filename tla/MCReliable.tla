----------------------------- MODULE MCReliable -----------------------------
EXTENDS ReliableMessenger, TLC

\* One busy direction, whose numbers wrap and whose statuses have gaps, and a
\* quiet one whose packets carry acknowledgements.
MCMessages == (Client :> 7) @@ (Server :> 1)

\* Loss multiplies the states: fewer messages where Lose is a step.
MCFewMessages == (Client :> 3) @@ (Server :> 0)

\* The first message of the client is one byte too long for the other end.
MCOversized == {<<Client, 0>>}
=============================================================================

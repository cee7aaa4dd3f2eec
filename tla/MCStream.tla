------------------------------ MODULE MCStream ------------------------------
EXTENDS StreamMessenger, TLC

\* One busy direction, so that the numbers wrap, and a quiet one whose packets
\* carry acknowledgements.
MCMessages == (Client :> 6) @@ (Server :> 1)

\* Loss multiplies the states: fewer messages where Lose is a step.
MCFewMessages == (Client :> 3) @@ (Server :> 0)
=============================================================================

------------------------------ MODULE MCSession ------------------------------
EXTENDS NetworkSession, TLC

CONSTANTS A, B, C, Right, Wrong

MCPassword == [n \in Node |-> Right]

MCOne == [n \in Node |-> 1]

\* A is a server and asks no one; B and C ask it, or each other.
MCCalls == [n \in Node |-> IF n = A THEN 0 ELSE 1]

Symmetry == Permutations(Node \ {A})
=============================================================================

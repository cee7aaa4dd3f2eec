----------------------------- MODULE MCAllocator -----------------------------
EXTENDS CircularAllocator

\* Blocks of which one to five fit, one longer than half the buffer, and ends
\* too short for a header.
MCSizes == {1, 3, 8}
=============================================================================

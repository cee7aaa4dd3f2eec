---------------------------- MODULE MCApplications ----------------------------
EXTENDS Applications, TLC

\* One stress client names two servers, the other one.
CONSTANTS First, Second

MCMaxAsks == (First :> 2) @@ (Second :> 1)

\* Each chat client joins and types a text, or leaves, or joins again.  The copies
\* of the reader's text do not arrive.  (The first line of either can only be a
\* connect: a text is for nobody then, and its length is of no account.)
CONSTANTS Author, Reader

MCMaxLines == (Author :> 2) @@ (Reader :> 2)
MCMaxJoins == (Author :> 2) @@ (Reader :> 2)
MCLength ==
  [t \in UNION {{c} \X (0 .. MCMaxLines[c] - 1) : c \in {Author, Reader}} |->
     IF t[1] = Author THEN 754 ELSE 755]
=============================================================================

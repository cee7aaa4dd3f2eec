----------------------------- MODULE FifoChannel -----------------------------
(***************************************************************************)
(* What the stream messenger promises the application on each end of a     *)
(* connection: the messages of one end are handed to the application of    *)
(* the other end once each and in the order they were sent, and the memory *)
(* of a message is given up only after it was handed over.                 *)
(***************************************************************************)
EXTENDS Integers, Sequences

CONSTANTS Client, Server

Peer == {Client, Server}
Other(p) == IF p = Client THEN Server ELSE Client

VARIABLES
  submitted,  \* [Peer -> Nat] messages the application has sent
  delivered,  \* [Peer -> Seq(Nat)] messages handed to the application
  released    \* [Peer -> Nat] messages whose memory was given up

channelVars == <<submitted, delivered, released>>

Init ==
  /\ submitted = [p \in Peer |-> 0]
  /\ delivered = [p \in Peer |-> <<>>]
  /\ released = [p \in Peer |-> 0]

Submit(p) ==
  /\ submitted' = [submitted EXCEPT ![p] = @ + 1]
  /\ UNCHANGED <<delivered, released>>

\* p hands over the next message of the other end, if there is one.
Deliver(p) ==
  /\ Len(delivered[p]) < submitted[Other(p)]
  /\ delivered' = [delivered EXCEPT ![p] = Append(@, Len(@))]

\* p gives up the memory of messages the other end has handed over.
Release(p) ==
  \E n \in released[p] .. Len(delivered[Other(p)]) :
    released' = [released EXCEPT ![p] = n]

\* One packet can bring both a message and an acknowledgement.
Exchange(p) ==
  /\ Deliver(p) \/ UNCHANGED delivered
  /\ Release(p)
  /\ UNCHANGED submitted

Next == \E p \in Peer : Submit(p) \/ Exchange(p)

Spec == Init /\ [][Next]_channelVars
=============================================================================

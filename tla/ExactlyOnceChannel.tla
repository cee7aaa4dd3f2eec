-------------------------- MODULE ExactlyOnceChannel --------------------------
(***************************************************************************)
(* What the reliable messenger promises the application on each end of a   *)
(* connection: the messages of one end are handed to the application of    *)
(* the other end once each, in any order, and the memory of a message is   *)
(* given up only after it and all earlier ones were handed over.           *)
(***************************************************************************)
EXTENDS Integers

CONSTANTS Client, Server

Peer == {Client, Server}
Other(p) == IF p = Client THEN Server ELSE Client

VARIABLES
  submitted,  \* [Peer -> Nat] messages the application has sent
  delivered,  \* [Peer -> SUBSET Nat] messages handed to the application
  calls,      \* [Peer -> Nat] times the application was handed a message
  released    \* [Peer -> Nat] messages whose memory was given up

channelVars == <<submitted, delivered, calls, released>>

Init ==
  /\ submitted = [p \in Peer |-> 0]
  /\ delivered = [p \in Peer |-> {}]
  /\ calls = [p \in Peer |-> 0]
  /\ released = [p \in Peer |-> 0]

Submit(p) ==
  /\ submitted' = [submitted EXCEPT ![p] = @ + 1]
  /\ UNCHANGED <<delivered, calls, released>>

\* p hands over a message of the other end that it has not handed over yet.
Deliver(p) ==
  \E m \in (0 .. submitted[Other(p)] - 1) \ delivered[p] :
    /\ delivered' = [delivered EXCEPT ![p] = @ \cup {m}]
    /\ calls' = [calls EXCEPT ![p] = @ + 1]

\* p gives up the memory of messages the other end has handed over.
Release(p) ==
  \E n \in released[p] .. submitted[p] :
    /\ 0 .. n - 1 \subseteq delivered[Other(p)]
    /\ released' = [released EXCEPT ![p] = n]

\* One packet can bring both a message and an acknowledgement.
Exchange(p) ==
  /\ Deliver(p) \/ UNCHANGED <<delivered, calls>>
  /\ Release(p)
  /\ UNCHANGED submitted

Next == \E p \in Peer : Submit(p) \/ Exchange(p)

Spec == Init /\ [][Next]_channelVars
=============================================================================

------------------------------ MODULE StressTest ------------------------------
(***************************************************************************)
(* stress_client and stress_server.  A client has a main thread, which     *)
(* connects and then sends one burst of messages, and a background thread, *)
(* which calls update; a lock keeps update out of the burst and out of     *)
(* nothing else.  The user may name another server at each attempt.  A     *)
(* server ticks off the numbers it receives and starts again when it has   *)
(* them all.                                                               *)
(*                                                                         *)
(* The sessions are abstract, as in Chat, for a client and a server at a   *)
(* time: a pair <<c, s>>.  A message is taken once with each connection of *)
(* the server, whatever connection of the client it was accepted for,      *)
(* because the client's session sends it again until it is acknowledged.   *)
(***************************************************************************)
EXTENDS Integers, FiniteSets

CONSTANTS
  Client,    \* the uuids of the clients
  Server,    \* the uuids of the servers
  Nil,       \* the nil uuid
  Numbers,   \* the messages of a burst; each stands for the numbers in it
  Attempts,  \* attempts_left for each address the user enters
  MaxAsks    \* [Client -> Nat] bound: addresses each user enters

ASSUME StressAssumption ==
  /\ Nil \notin Server
  /\ Numbers \in Nat \ {0}
  /\ Attempts \in Nat
  /\ MaxAsks \in [Client -> Nat]

Pair == Client \X Server

Number == 0 .. Numbers - 1

\* max_connections in the create call of the server
MaxConnections == 1

VARIABLES
  served,    \* SUBSET Pair: the server's session has a connection
  linked,    \* SUBSET Pair: the client's session has a connection
  requests,  \* SUBSET Pair: a connection_request is in transit
  answers,   \* SUBSET Pair: a connection_accepted is in transit
  remote,    \* [Client -> Server or Nil] shared by the threads of the client
  main,      \* [Client -> Place] where the main thread is
  host,      \* [Client -> Server or Nil] the address the user entered last
  asks,      \* [Client -> Nat] addresses entered so far
  attempts,  \* [Client -> Nat] attempts_left
  next,      \* [Client -> 0 .. Numbers] i, the messages of the burst sent so far
  received,  \* [Server -> SUBSET Number] the numbers ticked off
  accepted,  \* SUBSET (Pair \X Number) accepted by send_reliable: they may
             \* arrive, and arrive again
  taken,     \* SUBSET (Pair \X Number) by the server's last connection of a pair
  joins,     \* [Pair -> Nat] history: connections the server has made
  resets     \* [Server -> Nat] history: "all the numbers are in!" so far

sessions == <<served, linked, requests, answers, taken, joins>>
mainThread == <<main, host, asks, attempts, next, accepted>>
serverThread == <<received, resets>>
vars == <<sessions, remote, mainThread, serverThread>>

(***************************************************************************)
(* Where update can find the main thread: before the test of the outer or  *)
(* the inner loop (which the prompt and the second of sleep follow), in    *)
(* the burst with the lock, behind it, or terminated.                      *)
(***************************************************************************)
Place == {"ask", "try", "burst", "done", "dead"}

Go(c, place) == main' = [main EXCEPT ![c] = place]

Init ==
  /\ served = {} /\ linked = {}
  /\ requests = {} /\ answers = {}
  /\ taken = {}
  /\ joins = [p \in Pair |-> 0]
  /\ remote = [c \in Client |-> Nil]
  /\ main = [c \in Client |-> "ask"]
  /\ host = [c \in Client |-> Nil]
  /\ asks = [c \in Client |-> 0]
  /\ attempts = [c \in Client |-> 0]
  /\ next = [c \in Client |-> 0]
  /\ received = [s \in Server |-> {}]
  /\ resets = [s \in Server |-> 0]
  /\ accepted = {}

-----------------------------------------------------------------------------
(***************************************************************************)
(* The main thread of a client: do_stress_test.                            *)
(***************************************************************************)
\* The outer loop, without the lock: another address, or on to the lock.
enter_address(c) ==
  /\ main[c] = "ask"
  /\ IF remote[c] = Nil
       THEN /\ asks[c] < MaxAsks[c]
            /\ asks' = [asks EXCEPT ![c] = @ + 1]
            /\ \E s \in Server : host' = [host EXCEPT ![c] = s]
            /\ attempts' = [attempts EXCEPT ![c] = Attempts]
            /\ Go(c, "try")
       ELSE /\ Go(c, "burst")
            /\ UNCHANGED <<host, asks, attempts>>
  /\ UNCHANGED <<sessions, remote, next, accepted, serverThread>>

\* The inner loop, without the lock.
try_connect(c) ==
  /\ main[c] = "try"
  /\ IF attempts[c] > 0 /\ remote[c] = Nil
       THEN /\ requests' = requests \cup {<<c, host[c]>>}
            /\ attempts' = [attempts EXCEPT ![c] = @ - 1]
            /\ UNCHANGED main
       ELSE /\ Go(c, "ask")
            /\ UNCHANGED <<requests, attempts>>
  /\ UNCHANGED <<served, linked, answers, taken, joins, remote, host, asks,
                 next, accepted, serverThread>>

\* send_reliable of the next message to remote, which it drops if the session
\* has no connection with it; the lock is released after the last one.
send_reliable(c) ==
  LET m == <<<<c, remote[c]>>, next[c]>>
  IN  /\ main[c] = "burst"
      /\ accepted' = IF m[1] \in linked THEN accepted \cup {m} ELSE accepted
      /\ next' = [next EXCEPT ![c] = @ + 1]
      /\ IF next[c] + 1 = Numbers THEN Go(c, "done") ELSE UNCHANGED main
      /\ UNCHANGED <<sessions, remote, host, asks, attempts, serverThread>>

\* The process ends, with the background thread still running: normally behind
\* the burst.  try_connect may meet an update, which has no defined behaviour:
\* either both take effect, or this.
terminates(c) ==
  /\ main[c] \in {"try", "done"}
  /\ Go(c, "dead")
  /\ linked' = {p \in linked : p[1] # c}
  /\ UNCHANGED <<served, requests, answers, taken, joins, remote, host, asks,
                 attempts, next, accepted, serverThread>>

-----------------------------------------------------------------------------
(***************************************************************************)
(* The background thread: update, under the lock, and its callbacks.       *)
(***************************************************************************)
\* Mutant: update does not take the lock.
MayUpdate_Unlocked(c) == main[c] # "dead"

MayUpdate(c) == main[c] \notin {"burst", "dead"}

on_peer_joined(c, s) ==
  /\ MayUpdate(c)
  /\ <<c, s>> \in answers \ linked
  /\ answers' = answers \ {<<c, s>>}
  /\ linked' = linked \cup {<<c, s>>}
  /\ remote' = [remote EXCEPT ![c] = IF @ = Nil THEN s ELSE @]
  /\ UNCHANGED <<served, requests, taken, joins, mainThread, serverThread>>

\* Mutant: the callback leaves remote as it is.
Cleared_Not(c, s) == remote

Cleared(c, s) == [remote EXCEPT ![c] = IF @ = s THEN Nil ELSE @]

\* A disconnecting was received or the connection timed out.
on_peer_disconnected(c, s) ==
  /\ MayUpdate(c)
  /\ <<c, s>> \in linked
  /\ linked' = linked \ {<<c, s>>}
  /\ remote' = Cleared(c, s)
  /\ UNCHANGED <<served, requests, answers, taken, joins, mainThread, serverThread>>

-----------------------------------------------------------------------------
(***************************************************************************)
(* The server: update and its callbacks.                                   *)
(***************************************************************************)
HasRoom(s) == Cardinality({p \in served : p[2] = s}) < MaxConnections

\* A request is answered, or rejected, which changes neither side.
server_on_peer_joined(c, s) ==
  /\ <<c, s>> \in requests \ served
  /\ requests' = requests \ {<<c, s>>}
  /\ IF HasRoom(s)
       THEN /\ answers' = answers \cup {<<c, s>>}
            /\ served' = served \cup {<<c, s>>}
            /\ taken' = {m \in taken : m[1] # <<c, s>>}
            /\ joins' = [joins EXCEPT ![<<c, s>>] = @ + 1]
       ELSE UNCHANGED <<answers, served, taken, joins>>
  /\ UNCHANGED <<linked, remote, mainThread, serverThread>>

server_on_peer_disconnected(c, s) ==
  /\ <<c, s>> \in served
  /\ served' = served \ {<<c, s>>}
  /\ UNCHANGED <<linked, requests, answers, taken, joins, remote, mainThread, serverThread>>

\* Mutant: reset_received only prints.
AfterReset_Kept(ticked) == ticked

\* received after reset_received
AfterReset(ticked) == {}

\* The numbers are ticked off, and check_received starts again after the last.
server_on_message_received(c, s, i) ==
  LET m == <<<<c, s>>, i>>
      ticked == received[s] \cup {i}
  IN  /\ <<c, s>> \in served
      /\ m \in accepted \ taken
      /\ taken' = taken \cup {m}
      /\ IF ticked = Number
           THEN /\ received' = [received EXCEPT ![s] = AfterReset(ticked)]
                /\ resets' = [resets EXCEPT ![s] = @ + 1]
           ELSE /\ received' = [received EXCEPT ![s] = ticked]
                /\ UNCHANGED resets
      /\ UNCHANGED <<served, linked, requests, answers, joins, remote, mainThread>>

-----------------------------------------------------------------------------
Main(c) ==
  \/ enter_address(c)
  \/ try_connect(c)
  \/ send_reliable(c)
  \/ terminates(c)

Background(c) == \E s \in Server : on_peer_joined(c, s) \/ on_peer_disconnected(c, s)

ServerLoop(s) ==
  \E c \in Client :
    \/ server_on_peer_joined(c, s)
    \/ server_on_peer_disconnected(c, s)
    \/ \E i \in Number : server_on_message_received(c, s, i)

Next ==
  \/ \E c \in Client : Main(c) \/ Background(c)
  \/ \E s \in Server : ServerLoop(s)

Spec == Init /\ [][Next]_vars

-----------------------------------------------------------------------------
(***************************************************************************)
(* Properties.                                                             *)
(***************************************************************************)
\* Every variable holds values of its kind.
TypeOK ==
  /\ served \cup linked \cup requests \cup answers \subseteq Pair
  /\ taken \subseteq accepted
  /\ joins \in [Pair -> Nat]
  /\ accepted \subseteq Pair \X Number
  /\ remote \in [Client -> Server \cup {Nil}]
  /\ main \in [Client -> Place]
  /\ host \in [Client -> Server \cup {Nil}]
  /\ asks \in [Client -> Nat]
  /\ attempts \in [Client -> 0 .. Attempts]
  /\ next \in [Client -> 0 .. Numbers]
  /\ received \in [Server -> SUBSET Number]
  /\ resets \in [Server -> Nat]

\* A client's remote is a server it has a connection with, whichever of the
\* servers it asked answered, in whatever order, and whichever left.
RemoteIsConnected ==
  \A c \in Client : remote[c] # Nil => <<c, remote[c]>> \in linked \/ main[c] = "dead"

\* The messages of a burst all go to one server or all to none, although the
\* loops before it test remote without the lock: a burst is not cut by a
\* disconnection nor continued with another server.
BurstIsWhole ==
  \A c \in Client : next[c] = Numbers =>
    LET burst == {m \in accepted : m[1][1] = c}
    IN  burst = {} \/ \E s \in Server : burst = {<<c, s>>} \X Number

\* A server reports all the numbers only as often as that many messages were
\* sent to it, whichever clients they came from and in whatever order: none is
\* counted for two reports, as long as the server has made one connection with
\* each client.  (With a second one it may take the same messages again.)
NothingCountedTwice ==
  \A s \in Server : (\A c \in Client : joins[<<c, s>>] <= 1) =>
    Numbers * resets[s] + Cardinality(received[s])
      <= Cardinality({m \in accepted : m[1][2] = s})
=============================================================================

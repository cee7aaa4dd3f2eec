---------------------------- MODULE NetworkSession ----------------------------
(***************************************************************************)
(* network_session and the connections of several processes: the handshake *)
(* (request, accepted or rejected), pings, timeouts, disconnects, and the  *)
(* callbacks to the application.  The messengers inside a connection are   *)
(* modules of their own; here only the time of their last acknowledgement  *)
(* matters.                                                                *)
(***************************************************************************)
EXTENDS Integers, FiniteSets, Sequences

CONSTANTS
  Node,            \* the addresses; one session is created on each at a time
  Passwords,       \* passwords an application may try
  Password,        \* [Node -> Passwords] _password
  MaxConnections,  \* [Node -> Nat] _max_connections
  Timeout,         \* timeout_time, in ticks
  Lifetime,        \* the network drops a packet after this many ticks
  MaxRuns,         \* bound: create calls per node
  MaxCalls         \* [Node -> Nat] bound: try_connect calls of each node

ASSUME SessionAssumption ==
  /\ Password \in [Node -> Passwords]
  /\ MaxConnections \in [Node -> Nat]
  /\ MaxCalls \in [Node -> Nat]
  /\ Timeout \in Nat \ {0}
  /\ Lifetime \in Nat
  /\ MaxRuns \in Nat \ {0}

VARIABLES
  run,           \* [Node -> Nat] create calls so far; <<n, run[n]>> is n's _uuid
  up,            \* [Node -> BOOLEAN] the session is created and not destroyed
  _connections,  \* [Node -> Seq(connection)] the vector
  peers,         \* [Node -> [Uuid -> Nat]] on_peer_joined calls not yet followed
                 \* by on_peer_disconnected or the application's own disconnect
  calls,         \* [Node -> Nat] try_connect calls so far
  asked,         \* history: <<n, m, password>> of every try_connect call
  net            \* packets in transit, with the ticks each has left

vars == <<run, up, _connections, peers, calls, asked, net>>

Uuid == Node \X (1 .. MaxRuns)

\* silence: ticks since the last acknowledgement any messenger accepted.
\* pinged: ping_time has not passed since the last ping.
Connection == [remote_address : Node, remote_uuid : Uuid,
               silence : 0 .. Timeout + 1, pinged : BOOLEAN]

\* connection::create
NewConnection(addr, id) ==
  [remote_address |-> addr, remote_uuid |-> id, silence |-> 0, pinged |-> TRUE]

-----------------------------------------------------------------------------
\* The indices of the vector's connections with an address, or with a uuid.
At(n, addr) == {i \in DOMAIN _connections[n] : _connections[n][i].remote_address = addr}
With(n, id) == {i \in DOMAIN _connections[n] : _connections[n][i].remote_uuid = id}

Connected(n, addr) == At(n, addr) # {}

\* find_connection returns the first one it meets.
First(indices) == CHOOSE i \in indices : \A j \in indices : i <= j

\* The k-th of some indices: there are k of them up to it.
Ranked(indices, k) == CHOOSE i \in indices : Cardinality(indices \cap 1 .. i) = k

\* The vector without the connections at some indices: the others move up.
Without(n, indices) ==
  LET kept == DOMAIN _connections[n] \ indices
  IN  [k \in 1 .. Cardinality(kept) |-> _connections[n][Ranked(kept, k)]]

CurrentUuid(n) == <<n, run[n]>>

-----------------------------------------------------------------------------
(***************************************************************************)
(* The network.  A packet can be received any number of times, in any      *)
(* order, or never, while it lives: a loss needs no step of its own.       *)
(***************************************************************************)
Request(n, m, password) ==
  [kind |-> "connection_request", from |-> n, to |-> m,
   password |-> password, uuid |-> CurrentUuid(n)]

Accepted(n, m) ==
  [kind |-> "connection_accepted", from |-> n, to |-> m, uuid |-> CurrentUuid(n)]

\* connection_rejected, disconnecting, ping and ping_response.
Plain(kind, n, m) == [kind |-> kind, from |-> n, to |-> m]

Packet ==
       [kind : {"connection_request"}, from : Node, to : Node,
        password : Passwords, uuid : Uuid]
  \cup [kind : {"connection_accepted"}, from : Node, to : Node, uuid : Uuid]
  \cup [kind : {"connection_rejected", "disconnecting", "ping", "ping_response"},
        from : Node, to : Node]

InTransit == {entry.packet : entry \in net}

\* A packet sent again lives as long as the younger copy.
Sent(packets) ==
  {entry \in net : entry.packet \notin packets}
    \cup {[packet |-> pkt, left |-> Lifetime] : pkt \in packets}

-----------------------------------------------------------------------------
NoPeers == [id \in Uuid |-> 0]

Init ==
  /\ run = [n \in Node |-> 1]
  /\ up = [n \in Node |-> TRUE]
  /\ _connections = [n \in Node |-> <<>>]
  /\ peers = [n \in Node |-> NoPeers]
  /\ calls = [n \in Node |-> 0]
  /\ asked = {}
  /\ net = {}

-----------------------------------------------------------------------------
(***************************************************************************)
(* Calls of the application.                                               *)
(***************************************************************************)
\* create on an address where a session was destroyed or its process died.
create(n) ==
  /\ ~up[n]
  /\ run[n] < MaxRuns
  /\ run' = [run EXCEPT ![n] = @ + 1]
  /\ up' = [up EXCEPT ![n] = TRUE]
  /\ UNCHANGED <<_connections, peers, calls, asked, net>>

\* destroy, or the death of the process.  destroy closes the socket before it
\* sends the disconnecting messages, so none of them leaves.
destroy(n) ==
  /\ up[n]
  /\ up' = [up EXCEPT ![n] = FALSE]
  /\ _connections' = [_connections EXCEPT ![n] = <<>>]
  /\ peers' = [peers EXCEPT ![n] = NoPeers]
  /\ UNCHANGED <<run, calls, asked, net>>

\* With a connection to the address or without.
try_connect(n, m, password) ==
  /\ up[n]
  /\ calls[n] < MaxCalls[n]
  /\ m # n
  /\ calls' = [calls EXCEPT ![n] = @ + 1]
  /\ asked' = asked \cup {<<n, m, password>>}
  /\ net' = Sent({Request(n, m, password)})
  /\ UNCHANGED <<run, up, _connections, peers>>

\* disconnect(id): there is no callback for the application's own call.
disconnect(n, id) ==
  /\ With(n, id) # {}
  /\ LET i == First(With(n, id))
     IN  /\ net' = Sent({Plain("disconnecting", n, _connections[n][i].remote_address)})
         /\ _connections' = [_connections EXCEPT ![n] = Without(n, {i})]
  /\ peers' = [peers EXCEPT ![n][id] = @ - 1]
  /\ UNCHANGED <<run, up, calls, asked>>

-----------------------------------------------------------------------------
(***************************************************************************)
(* receive_packets: a packet from an address with a connection goes to the *)
(* connection, any other to handle_unconnected_packet.                     *)
(***************************************************************************)
\* Mutant: a packet that opens a connection is taken from a connected peer too.
Unconnected_Always(n, pkt) == up[n] /\ pkt.to = n

Unconnected(n, pkt) == up[n] /\ pkt.to = n /\ ~Connected(n, pkt.from)

FromConnection(n, pkt) == up[n] /\ pkt.to = n /\ Connected(n, pkt.from)

\* A connection is added to the vector and the application told.
Join(n, addr, id) ==
  /\ _connections' = [_connections EXCEPT ![n] = Append(@, NewConnection(addr, id))]
  /\ peers' = [peers EXCEPT ![n][id] = @ + 1]

HasRoom(n) == Len(_connections[n]) < MaxConnections[n]

\* Mutant: the password is not looked at.
Admits_Anyone(n, pkt) == HasRoom(n)

Admits(n, pkt) == pkt.password = Password[n] /\ HasRoom(n)

receive_connection_request(n, pkt) ==
  /\ pkt.kind = "connection_request"
  /\ Unconnected(n, pkt)
  /\ IF Admits(n, pkt)
       THEN /\ net' = Sent({Accepted(n, pkt.from)})
            /\ Join(n, pkt.from, pkt.uuid)
       ELSE /\ net' = Sent({Plain("connection_rejected", n, pkt.from)})
            /\ UNCHANGED <<_connections, peers>>
  /\ UNCHANGED <<run, up, calls, asked>>

\* Nothing is tested: neither that a request is outstanding nor HasRoom.
receive_connection_accepted(n, pkt) ==
  /\ pkt.kind = "connection_accepted"
  /\ Unconnected(n, pkt)
  /\ Join(n, pkt.from, pkt.uuid)
  /\ UNCHANGED <<run, up, calls, asked, net>>

\* Mutant: the connection is erased and the application not told.
Left_Silently(n, indices) == peers[n]

\* Mutant: the application is told when a connection is found disconnected and
\* again when it is erased.
Left_Twice(n, indices) ==
  [id \in Uuid |->
     peers[n][id]
       - 2 * Cardinality({i \in indices : _connections[n][i].remote_uuid = id})]

\* The peers after on_peer_disconnected for the connections at some indices.
Left(n, indices) ==
  [id \in Uuid |->
     peers[n][id] - Cardinality({i \in indices : _connections[n][i].remote_uuid = id})]

receive_disconnecting(n, pkt) ==
  /\ pkt.kind = "disconnecting"
  /\ FromConnection(n, pkt)
  /\ LET i == First(At(n, pkt.from))
     IN  /\ peers' = [peers EXCEPT ![n] = Left(n, {i})]
         /\ _connections' = [_connections EXCEPT ![n] = Without(n, {i})]
  /\ UNCHANGED <<run, up, calls, asked, net>>

receive_ping(n, pkt) ==
  /\ pkt.kind = "ping"
  /\ FromConnection(n, pkt)
  /\ net' = Sent({Plain("ping_response", n, pkt.from)})
  /\ UNCHANGED <<run, up, _connections, peers, calls, asked>>

receive_ping_response(n, pkt) ==
  /\ pkt.kind = "ping_response"
  /\ FromConnection(n, pkt)
  /\ _connections' = [_connections EXCEPT ![n][First(At(n, pkt.from))].silence = 0]
  /\ UNCHANGED <<run, up, peers, calls, asked, net>>

-----------------------------------------------------------------------------
(***************************************************************************)
(* update_connections: connection::update of each connection, which pings  *)
(* when ping_time has passed, unless it finds the connection timed out;    *)
(* then the ones that timed out are erased and the application is told.    *)
(***************************************************************************)
\* Mutant: no connection ever times out.
TimedOut_Never(n) == {}

TimedOut(n) == {i \in DOMAIN _connections[n] : _connections[n][i].silence > Timeout}

PingDue(n) == {i \in DOMAIN _connections[n] \ TimedOut(n) : ~_connections[n][i].pinged}

update_connections(n) ==
  /\ up[n]
  /\ TimedOut(n) # {} \/ PingDue(n) # {}
  /\ net' = Sent({Plain("ping", n, _connections[n][i].remote_address) : i \in PingDue(n)})
  /\ peers' = [peers EXCEPT ![n] = Left(n, TimedOut(n))]
  /\ LET kept == Without(n, TimedOut(n))
     IN  _connections' = [_connections EXCEPT ![n] =
                            [k \in DOMAIN kept |-> [kept[k] EXCEPT !.pinged = TRUE]]]
  /\ UNCHANGED <<run, up, calls, asked>>

\* More than ping_time passes, and packets grow older.
Tick ==
  /\ _connections' =
       [n \in Node |->
          [i \in DOMAIN _connections[n] |->
             [_connections[n][i] EXCEPT !.silence = IF @ > Timeout THEN @ ELSE @ + 1,
                                        !.pinged = FALSE]]]
  /\ net' = {[packet |-> entry.packet, left |-> entry.left - 1] :
               entry \in {e \in net : e.left > 0}}
  /\ UNCHANGED <<run, up, peers, calls, asked>>

-----------------------------------------------------------------------------
Application(n) ==
  \/ create(n)
  \/ destroy(n)
  \/ \E m \in Node, password \in Passwords : try_connect(n, m, password)
  \/ \E id \in Uuid : disconnect(n, id)

receive_packets(n) ==
  \E pkt \in InTransit :
    \/ receive_connection_request(n, pkt)
    \/ receive_connection_accepted(n, pkt)
    \/ receive_disconnecting(n, pkt)
    \/ receive_ping(n, pkt)
    \/ receive_ping_response(n, pkt)

Next ==
  \/ \E n \in Node : Application(n) \/ receive_packets(n) \/ update_connections(n)
  \/ Tick

Spec == Init /\ [][Next]_vars

-----------------------------------------------------------------------------
(***************************************************************************)
(* Properties.                                                             *)
(***************************************************************************)
\* Every variable holds values of its kind.
TypeOK ==
  /\ run \in [Node -> 1 .. MaxRuns]
  /\ up \in [Node -> BOOLEAN]
  /\ _connections \in [Node -> Seq(Connection)]
  /\ peers \in [Node -> [Uuid -> Nat]]
  /\ calls \in [Node -> Nat]
  /\ asked \subseteq Node \X Node \X Passwords
  /\ net \subseteq [packet : Packet, left : 0 .. Lifetime]

\* A session has at most one connection with an address and one with a uuid,
\* so that each find_connection finds the connection meant: duplicated
\* requests and answers, and crossing ones, make no second one.
OneConnectionPerPeer ==
  \A n \in Node : \A i, j \in DOMAIN _connections[n] :
    \/ i = j
    \/ /\ _connections[n][i].remote_address # _connections[n][j].remote_address
       /\ _connections[n][i].remote_uuid # _connections[n][j].remote_uuid

\* What an application was told by callbacks is what its session has: for each
\* uuid joined and disconnected alternate, and a peer it was not told about
\* (or was told is gone) has no connection.
PeersAreConnected ==
  \A n \in Node : \A id \in Uuid :
    peers[n][id] = IF \E i \in DOMAIN _connections[n] :
                        _connections[n][i].remote_uuid = id
                     THEN 1 ELSE 0

\* Two sessions are connected only if the application of one of them called
\* try_connect with the other one's password: no packet, however late, and no
\* restart of either side, makes a connection out of less.
AdmittedByPassword ==
  \A n, m \in Node : Connected(n, m) =>
    \/ <<n, m, Password[m]>> \in asked
    \/ <<m, n, Password[n]>> \in asked

-----------------------------------------------------------------------------
(***************************************************************************)
(* What the proofs need besides: a uuid names the address it comes from,   *)
(* and a request or an answer in transit goes back to a try_connect.       *)
(***************************************************************************)
UuidsNameAddresses ==
  \A n \in Node : \A i \in DOMAIN _connections[n] :
    _connections[n][i].remote_uuid[1] = _connections[n][i].remote_address

PacketOK(pkt) ==
  /\ pkt.kind = "connection_request" =>
       pkt.uuid[1] = pkt.from /\ <<pkt.from, pkt.to, pkt.password>> \in asked
  /\ pkt.kind = "connection_accepted" =>
       pkt.uuid[1] = pkt.from /\ <<pkt.to, pkt.from, Password[pkt.from]>> \in asked

\* The inductive invariant of the proofs.
IInv ==
  /\ TypeOK
  /\ OneConnectionPerPeer
  /\ UuidsNameAddresses
  /\ PeersAreConnected
  /\ AdmittedByPassword
  /\ \A pkt \in InTransit : PacketOK(pkt)
=============================================================================

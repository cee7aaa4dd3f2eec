------------------------------ MODULE Connection ------------------------------
(***************************************************************************)
(* Two sessions and the connection between them, with both messengers in   *)
(* it: the handshake, which starts the numbers the messengers count with,  *)
(* the two silences that together make a timeout, and what either end does *)
(* with each packet of a connection.                                       *)
(*                                                                         *)
(* No packet says which connection it belongs to, and each end makes its   *)
(* side of a connection on its own.  The questions here are when the two   *)
(* ends can be ends of different connections, and what becomes of an end   *)
(* without another one.  What the messengers do with many messages is in   *)
(* modules of their own: here a connection sends one message by each at    *)
(* most, and no number wraps.                                              *)
(***************************************************************************)
EXTENDS Integers, FiniteSets

CONSTANTS
  Client, Server,  \* the two addresses
  Askers,          \* the addresses whose applications call try_connect
  MaxMessages,     \* [Node -> [Kind -> 0 .. 1]] bound: messages per connection
  MaxRaw,          \* [Node -> Nat] bound: calls of send_unreliable
  Timeout,         \* timeout_time, in ticks
  MaxEra,          \* bound: no connection is made in later eras of the two ends
  NoConnection     \* find_connection returns nullptr

Node == {Client, Server}

Other(n) == IF n = Client THEN Server ELSE Client

Kind == {"stream", "reliable"}

ASSUME ConnectionAssumption ==
  /\ Client # Server
  /\ Askers \subseteq Node
  /\ MaxMessages \in [Node -> [Kind -> 0 .. 1]]
  /\ MaxRaw \in [Node -> Nat]
  /\ Timeout \in Nat \ {0}
  /\ MaxEra \in Nat

VARIABLES
  con,    \* [Node -> connection or NoConnection] the connection with Other(n)
  net,    \* the packets in transit
  raw,    \* [Node -> Nat] calls of send_unreliable so far
  era,    \* [Node -> Nat] history: how often the connection was made or lost
  quiet   \* history: whether the last connection was made in quiet (InQuiet)

vars == <<con, net, raw, era, quiet>>

(***************************************************************************)
(* The numbers of a connection are counts of messages: queued by send,     *)
(* sent by update, acked by the remote, received from it.  silence is, for *)
(* each messenger, the ticks since it accepted an acknowledgement; pinged: *)
(* ping_time has not passed since the last ping.                           *)
(* History: heard is the eras of the remote in which it sent what this     *)
(* connection took; handed counts the messages of this connection that     *)
(* were handed to the remote's application.                                *)
(***************************************************************************)
Counts == [Kind -> 0 .. 1]

ConnectionState ==
  [queued : Counts, sent : Counts, acked : Counts, received : Counts,
   silence : [Kind -> 0 .. Timeout + 1], pinged : BOOLEAN,
   heard : SUBSET Nat, handed : [Kind -> Nat]]

ASSUME NoConnectionAssumption == NoConnection \notin ConnectionState

Zero == [k \in Kind |-> 0]

\* connection::create and the create of both messengers.
NewConnection ==
  [queued |-> Zero, sent |-> Zero, acked |-> Zero, received |-> Zero,
   silence |-> Zero, pinged |-> TRUE, heard |-> {}, handed |-> Zero]

Connected(n) == con[n] # NoConnection

-----------------------------------------------------------------------------
(***************************************************************************)
(* Packets.  era, the sender's when it sent what its connection says, is   *)
(* not on the wire.                                                        *)
(***************************************************************************)
Openings == {"connection_request", "connection_accepted"}

Opening(kind, n) == [kind |-> kind, from |-> n]

\* disconnecting and ping.
Plain(kind, n) == [kind |-> kind, from |-> n, era |-> era[n]]

\* The id-th message of messenger k, and in its header the number next wanted.
Message(k, n, id) ==
  [kind |-> k, from |-> n, era |-> era[n], id |-> id, next |-> con[n].received[k]]

\* stream_ack, reliable_ack or ping_response, with the numbers of some messengers.
Ack(n, next) == [kind |-> "ack", from |-> n, era |-> era[n], next |-> next]

Numbers == UNION {[kinds -> 0 .. 1] : kinds \in {{"stream"}, {"reliable"}, Kind}}

Packet ==
       [kind : Openings, from : Node]
  \cup [kind : {"disconnecting", "ping"}, from : Node, era : Nat]
  \cup [kind : Kind, from : Node, era : Nat, id : {0}, next : 0 .. 1]
  \cup [kind : {"ack"}, from : Node, era : Nat, next : Numbers]

\* What its first byte can make of a buffer passed to send_unreliable.
Raw(n) ==
       {Opening(kind, n) : kind \in Openings}
  \cup {Plain(kind, n) : kind \in {"disconnecting", "ping"}}
  \cup [kind : Kind, from : {n}, era : {era[n]}, id : {0}, next : 0 .. 1]
  \cup {Ack(n, next) : next \in Numbers}

-----------------------------------------------------------------------------
Init ==
  /\ con = [n \in Node |-> NoConnection]
  /\ net = {}
  /\ raw = [n \in Node |-> 0]
  /\ era = [n \in Node |-> 0]
  /\ quiet = TRUE

\* The connection of n is lost, by whatever end.
Lost(n) ==
  /\ con' = [con EXCEPT ![n] = NoConnection]
  /\ era' = [era EXCEPT ![n] = @ + 1]
  /\ UNCHANGED quiet

-----------------------------------------------------------------------------
(***************************************************************************)
(* Calls of the applications.                                              *)
(***************************************************************************)
\* The process dies or destroys the session, and a session is created again.
\* No message leaves the closed socket.  Packets that arrive in between are
\* ignored, which is what a lost packet amounts to.
restart(n) ==
  /\ Connected(n)
  /\ Lost(n)
  /\ UNCHANGED <<net, raw>>

\* With a connection or without.
try_connect(n) ==
  /\ n \in Askers
  /\ net' = net \cup {Opening("connection_request", n)}
  /\ UNCHANGED <<con, raw, era, quiet>>

disconnect(n) ==
  /\ Connected(n)
  /\ Lost(n)
  /\ net' = net \cup {Plain("disconnecting", n)}
  /\ UNCHANGED raw

\* send_stream and send_reliable
send(n, k) ==
  /\ Connected(n)
  /\ con[n].queued[k] < MaxMessages[n][k]
  /\ con' = [con EXCEPT ![n].queued[k] = @ + 1]
  /\ UNCHANGED <<net, raw, era, quiet>>

\* The bytes go out as they are, without a message_type, so that the first one
\* is taken for it.
send_unreliable(n) ==
  /\ Connected(n)
  /\ raw[n] < MaxRaw[n]
  /\ \E pkt \in Raw(n) : net' = net \cup {pkt}
  /\ raw' = [raw EXCEPT ![n] = @ + 1]
  /\ UNCHANGED <<con, era, quiet>>

-----------------------------------------------------------------------------
(***************************************************************************)
(* receive_packets without a connection: handle_unconnected_packet.        *)
(***************************************************************************)
\* What its sender said with a connection it no longer has.
Late(pkt) == pkt.kind \notin Openings /\ pkt.era # era[pkt.from]

\* Of the connection of n nothing was taken, by it or by the other end.
Unused(n) == con[n].heard = {} /\ con[n].handed = Zero

\* History: an end that makes a connection now finds nothing of an earlier one,
\* neither in transit nor at the other end.
InQuiet(n) ==
  /\ \A pkt \in net : ~Late(pkt)
  /\ Connected(Other(n)) => Unused(Other(n))

\* Mutant: an answer is taken with a connection too, which starts it afresh.
Opens_Always(n, pkt) == pkt.kind \in Openings

\* The packet makes a connection: there is none yet.
Opens(n, pkt) == ~Connected(n) /\ pkt.kind \in Openings

receive_opening(n, pkt) ==
  /\ Opens(n, pkt)
  /\ era[Client] + era[Server] < MaxEra
  /\ con' = [con EXCEPT ![n] = NewConnection]
  /\ era' = [era EXCEPT ![n] = @ + 1]
  /\ quiet' = InQuiet(n)
  /\ net' = IF pkt.kind = "connection_request"
               THEN net \cup {Opening("connection_accepted", n)}
               ELSE net
  /\ UNCHANGED raw

-----------------------------------------------------------------------------
(***************************************************************************)
(* receive_packets with a connection: connection::receive_message.         *)
(***************************************************************************)
\* receive_ack of messenger k: nothing from outside what is unacknowledged.
Acknowledged(c, k, next) ==
  IF next \in c.acked[k] .. c.sent[k]
    THEN [c EXCEPT !.acked[k] = next, !.silence[k] = 0]
    ELSE c

\* The connection of n once it has taken a packet.
Heard(n, pkt) == [con[n] EXCEPT !.heard = @ \cup {pkt.era}]

receive_disconnecting(n, pkt) ==
  /\ pkt.kind = "disconnecting"
  /\ Lost(n)
  /\ UNCHANGED net

receive_ping(n, pkt) ==
  /\ pkt.kind = "ping"
  /\ con' = [con EXCEPT ![n] = Heard(n, pkt)]
  /\ net' = net \cup {Ack(n, con[n].received)}
  /\ UNCHANGED <<era, quiet>>

receive_ack(n, pkt) ==
  /\ pkt.kind = "ack"
  /\ LET Take(c, k) == IF k \in DOMAIN pkt.next THEN Acknowledged(c, k, pkt.next[k]) ELSE c
     IN  con' = [con EXCEPT ![n] = Take(Take(Heard(n, pkt), "stream"), "reliable")]
  /\ UNCHANGED <<net, era, quiet>>

\* Mutant: a message is taken whatever its number.
IsNew_Always(n, pkt) == TRUE

\* The message is the next one: with one message that is the test of both.
IsNew(n, pkt) == pkt.id = con[n].received[pkt.kind]

\* History: a message of this connection of the sender was handed over.
HandedOver(c, k) == [c EXCEPT !.handed[k] = @ + 1]

receive_message(n, pkt) ==
  LET k == pkt.kind
      m == Other(n)
      c == Acknowledged(Heard(n, pkt), k, pkt.next)
      next == c.received[k] + 1
  IN  /\ k \in Kind
      /\ IF IsNew(n, pkt)
           THEN /\ con' = [con EXCEPT
                             ![n] = [c EXCEPT !.received[k] = next],
                             ![m] = IF pkt.era = era[m] THEN HandedOver(@, k) ELSE @]
                /\ net' = net \cup {Ack(n, [kind \in {k} |-> next])}
           ELSE /\ con' = [con EXCEPT ![n] = c]
                /\ UNCHANGED net
      /\ UNCHANGED <<era, quiet>>

receive_connected(n, pkt) ==
  /\ Connected(n)
  /\ \/ receive_disconnecting(n, pkt)
     \/ receive_ping(n, pkt)
     \/ receive_ack(n, pkt)
     \/ receive_message(n, pkt)
  /\ UNCHANGED raw

receive_packet(n, pkt) ==
  /\ pkt.from = Other(n)
  /\ receive_opening(n, pkt) \/ receive_connected(n, pkt)

-----------------------------------------------------------------------------
(***************************************************************************)
(* connection::update and update_connections.                              *)
(***************************************************************************)
\* Neither messenger has accepted an acknowledgement for timeout_time.
TimedOut(c) == \A k \in Kind : c.silence[k] > Timeout

update_TimedOut(n) ==
  /\ Connected(n)
  /\ TimedOut(con[n])
  /\ Lost(n)
  /\ UNCHANGED <<net, raw>>

\* The messages of messenger k that update sends, for the first time or again.
Unacknowledged(c, k) == c.acked[k] .. c.queued[k] - 1

Outgoing(n, k) == {Message(k, n, id) : id \in Unacknowledged(con[n], k)}

\* Mutant: sending counts as a sign of life.
Updated_Renewed(c) == [c EXCEPT !.sent = c.queued, !.pinged = TRUE, !.silence = Zero]

\* The connection after update.
Updated(c) == [c EXCEPT !.sent = c.queued, !.pinged = TRUE]

update(n) ==
  /\ Connected(n)
  /\ ~TimedOut(con[n])
  /\ con' = [con EXCEPT ![n] = Updated(@)]
  /\ net' = net
       \cup (UNION {Outgoing(n, k) : k \in Kind})
       \cup (IF con[n].pinged THEN {} ELSE {Plain("ping", n)})
  /\ UNCHANGED <<raw, era, quiet>>

\* The connection after a tick.  Bound: beyond Timeout ticks nothing is counted,
\* because the times are only compared with timeout_time.
Aged(c) ==
  [c EXCEPT !.silence = [k \in Kind |-> IF @[k] > Timeout THEN @[k] ELSE @[k] + 1],
            !.pinged = FALSE]

\* More than ping_time passes; what is in transit arrives before or not at all.
Tick ==
  /\ con' = [n \in Node |-> IF Connected(n) THEN Aged(con[n]) ELSE NoConnection]
  /\ net' = {}
  /\ UNCHANGED <<raw, era, quiet>>

-----------------------------------------------------------------------------
Step(n) ==
  \/ restart(n)
  \/ try_connect(n)
  \/ disconnect(n)
  \/ \E k \in Kind : send(n, k)
  \/ send_unreliable(n)
  \/ \E pkt \in net : receive_packet(n, pkt)
  \/ update(n)
  \/ update_TimedOut(n)

Next == (\E n \in Node : Step(n)) \/ Tick

Spec == Init /\ [][Next]_vars

(***************************************************************************)
(* Fairness.  Time passes, and both processes call update in a loop, so    *)
(* that a timeout that has come is noticed.  No packet needs to arrive.    *)
(***************************************************************************)
Fairness ==
  /\ WF_vars(Tick)
  /\ \A n \in Node : WF_vars(update_TimedOut(n))

FairSpec == Spec /\ Fairness

-----------------------------------------------------------------------------
(***************************************************************************)
(* Properties.                                                             *)
(***************************************************************************)
\* Every variable holds values of its kind; in particular no message is counted
\* twice by an end that received it, whatever the other end has lost.
TypeOK ==
  /\ con \in [Node -> ConnectionState \cup {NoConnection}]
  /\ net \subseteq Packet
  /\ raw \in [Node -> Nat]
  /\ era \in [Node -> Nat]
  /\ quiet \in BOOLEAN

\* After a connection was made in quiet, it converses with one connection of the
\* other end until the next one is made: whatever is repeated, lost, or sent
\* without a header, and whichever end is lost in between, it never takes a
\* message, an acknowledgement or a ping of an earlier connection, and two ends
\* that are both connected count from the same beginning.
OneConversation ==
  quiet =>
    \A n \in Node : Connected(n) =>
      /\ Cardinality(con[n].heard) <= 1
      /\ Connected(Other(n)) => con[n].heard \subseteq {era[Other(n)]}

NoRaw == \A n \in Node : raw[n] = 0

\* If moreover nobody calls send_unreliable, a message is handed to the other
\* application once at most, and its memory is not freed before that, although
\* the other end may lose its side of the connection, and make it again.
HandedOnce ==
  quiet /\ NoRaw =>
    \A n \in Node : Connected(n) =>
      \A k \in Kind : con[n].handed[k] \in con[n].acked[k] .. con[n].sent[k]

\* What an application is handed as a stream or reliable message was passed to
\* send_stream or send_reliable: what is passed to send_unreliable has a header
\* of its own (network_session.h:76-80).
OnlyWhatWasSent ==
  \A n \in Node : Connected(n) =>
    \A k \in Kind : con[n].handed[k] > 0 => con[n].queued[k] > 0

\* An end alone does not last: again and again both have a connection or neither
\* has, because the connection of the one is given up, although it may just have
\* been answered, or the other makes one.
HalfOpenEnds == []<>(Connected(Client) <=> Connected(Server))

-----------------------------------------------------------------------------
(***************************************************************************)
(* What the proofs need besides.                                           *)
(***************************************************************************)
\* Eras do not lie ahead, and an end that spoke in its present era is connected.
PacketOK(pkt) ==
  pkt.kind \notin Openings =>
    /\ pkt.era <= era[pkt.from]
    /\ pkt.era = era[pkt.from] => Connected(pkt.from)

\* The packet acknowledges the messages of messenger k before next.
Acks(pkt, k, next) ==
  \/ pkt.kind = k /\ next = pkt.next
  \/ pkt.kind = "ack" /\ k \in DOMAIN pkt.next /\ next = pkt.next[k]

\* What an end said in its present era agrees with its counts.
SaidOK(pkt) ==
  (pkt.kind \notin Openings /\ pkt.era = era[pkt.from]) =>
    /\ \A k \in Kind : pkt.kind = k => pkt.id < con[pkt.from].sent[k]
    /\ \A k \in Kind, next \in 0 .. 1 :
         Acks(pkt, k, next) => next <= con[pkt.from].received[k]

\* An end counts no more sent than queued, and nothing before it has heard something.
OwnOK(n) ==
  /\ \A k \in Kind : con[n].sent[k] <= con[n].queued[k]
  /\ con[n].heard = {} => con[n].received = Zero /\ con[n].acked = Zero

\* The eras of what the connection of n took and of what is in transit to it.
Spoken(n) ==
  con[n].heard \cup
    {pkt.era : pkt \in {p \in net : p.from = Other(n) /\ p.kind \notin Openings}}

\* They are one era, the present one of the other end if that is connected.
EraOK(n) ==
  /\ \A e1, e2 \in Spoken(n) : e1 = e2
  /\ Connected(Other(n)) => Spoken(n) \subseteq {era[Other(n)]}

\* What was handed over is between what is acknowledged, here or in transit, and
\* what was sent, and it is what the other end received.
HandedOK(n) ==
  /\ \A k \in Kind : con[n].handed[k] \in con[n].acked[k] .. con[n].sent[k]
  /\ \A pkt \in net : pkt.from = Other(n) =>
       \A k \in Kind, next \in 0 .. 1 :
         Acks(pkt, k, next) => next <= con[n].handed[k]
  /\ Connected(Other(n)) => con[n].handed = con[Other(n)].received

\* The inductive invariant of the proofs.
IInv ==
  /\ TypeOK
  /\ \A pkt \in net : PacketOK(pkt) /\ (NoRaw => SaidOK(pkt))
  /\ \A n \in Node : Connected(n) =>
       OwnOK(n) /\ (quiet => EraOK(n)) /\ (quiet /\ NoRaw => HandedOK(n))
=============================================================================

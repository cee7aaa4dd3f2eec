--------------------------- MODULE StreamMessenger ---------------------------
(***************************************************************************)
(* The stream messenger (ordered, reliable messages) of a connection, on   *)
(* both of its ends, over UDP.  Each end sends and receives; acks ride on  *)
(* data packets, on stream_ack and on ping_response.                       *)
(*                                                                         *)
(* Message k of an end is the k-th one its application passed to send,     *)
(* counted from 0: payloads are their own numbers.                         *)
(***************************************************************************)
EXTENDS SeqNum, Sequences

CONSTANTS
  Client, Server,  \* the two ends of the connection
  Capacity,        \* blocks the circular_allocator of one end can hold
  MaxMessages,     \* bound: messages each end's application sends
  Lifetime,        \* the network drops a packet once it is this many messages old
  NoPacket         \* an empty window slot, packet()

Peer == {Client, Server}

Other(p) == IF p = Client THEN Server ELSE Client

\* A packet must live long enough for a window of messages to be in transit.
ASSUME StreamAssumption ==
  /\ Client # Server
  /\ Capacity \in Nat
  /\ MaxMessages \in [Peer -> Nat]
  /\ Lifetime \in Nat
  /\ WindowSize < Lifetime
  /\ NoPacket \notin Nat

(***************************************************************************)
(* An 8-bit number cannot tell a packet from one sent 256 messages later.  *)
(* Safety holds if the network has dropped a packet by then: the theorems  *)
(* and the runs assume it.                                                 *)
(***************************************************************************)
PacketsExpireInTime == Lifetime <= Modulus

VARIABLES
  local_low_n_sent,      \* [Peer -> SeqNumber] the next number to send
  local_low_n_received,  \* [Peer -> SeqNumber] the next number to receive
  remote_low_n_received, \* [Peer -> SeqNumber] the remote's last acknowledgement
  window,                \* [Peer -> [SlotIndex -> message or NoPacket]] _window
  queue,                 \* [Peer -> Seq(message)] _queue
  allocator,             \* [Peer -> Seq(message)] live blocks, oldest first
  running,               \* [Peer -> BOOLEAN] FALSE once the process has crashed
  submitted,             \* [Peer -> Nat] history: messages accepted by send
  delivered,             \* [Peer -> Seq(message)] history: on_message_received calls
  net                    \* the packets in transit

vars == <<local_low_n_sent, local_low_n_received, remote_low_n_received,
          window, queue, allocator, running, submitted, delivered, net>>

-----------------------------------------------------------------------------
(***************************************************************************)
(* Packets.  id and rnd are the bytes of the header.  data names the       *)
(* payload; upto is the number of messages the sender of the packet had    *)
(* received when it wrote rnd: it is not on the wire and only dates the    *)
(* packet for Lifetime.                                                    *)
(***************************************************************************)
StreamPacket(p, id, rnd, data, upto) ==
  [kind |-> "stream", from |-> p, id |-> id, rnd |-> rnd, data |-> data, upto |-> upto]

\* stream_ack and ping_response: to the messenger they are the same.
AckPacket(p, rnd, upto) == [kind |-> "ack", from |-> p, rnd |-> rnd, upto |-> upto]

PingPacket(p) == [kind |-> "ping", from |-> p]

Packet ==
       [kind : {"stream"}, from : Peer, id : SeqNumber, rnd : SeqNumber,
        data : Nat, upto : Nat]
  \cup [kind : {"ack"}, from : Peer, rnd : SeqNumber, upto : Nat]
  \cup [kind : {"ping"}, from : Peer]

\* Messages of p moved to the window so far, and those acknowledged and freed.
Sent(p) == submitted[p] - Len(queue[p])
Acked(p) == submitted[p] - Len(allocator[p])

\* A packet is dropped by the network once its data, or the acknowledgement
\* it carries, is Lifetime messages behind what its subject's sender has sent.
Fresh(pkt, sent) ==
  /\ pkt.kind = "stream" => sent[pkt.from] - pkt.data < Lifetime
  /\ pkt.kind # "ping" => sent[Other(pkt.from)] - pkt.upto < Lifetime

-----------------------------------------------------------------------------
Init ==
  /\ local_low_n_sent = [p \in Peer |-> 0]
  /\ local_low_n_received = [p \in Peer |-> 0]
  /\ remote_low_n_received = [p \in Peer |-> 0]
  /\ window = [p \in Peer |-> [i \in SlotIndex |-> NoPacket]]
  /\ queue = [p \in Peer |-> <<>>]
  /\ allocator = [p \in Peer |-> <<>>]
  /\ running = [p \in Peer |-> TRUE]
  /\ submitted = [p \in Peer |-> 0]
  /\ delivered = [p \in Peer |-> <<>>]
  /\ net = {}

-----------------------------------------------------------------------------
(***************************************************************************)
(* send: a block is allocated, the payload copied into it and the packet   *)
(* queued for the next update.                                             *)
(***************************************************************************)
send(p) ==
  /\ running[p]
  /\ submitted[p] < MaxMessages[p]
  /\ Len(allocator[p]) < Capacity
  /\ allocator' = [allocator EXCEPT ![p] = Append(@, submitted[p])]
  /\ queue' = [queue EXCEPT ![p] = Append(@, submitted[p])]
  /\ submitted' = [submitted EXCEPT ![p] = @ + 1]
  /\ UNCHANGED <<local_low_n_sent, local_low_n_received, remote_low_n_received,
                 window, running, delivered, net>>

\* push_back returned nullptr, which send does not test: the memcpy writes
\* through a null pointer and the process dies.
send_NoRoom(p) ==
  /\ running[p]
  /\ submitted[p] < MaxMessages[p]
  /\ Len(allocator[p]) >= Capacity
  /\ running' = [running EXCEPT ![p] = FALSE]
  /\ UNCHANGED <<local_low_n_sent, local_low_n_received, remote_low_n_received,
                 window, queue, allocator, submitted, delivered, net>>

-----------------------------------------------------------------------------
(***************************************************************************)
(* update.  First the queue is drained into the window while the window    *)
(* has room.  Only if that sent nothing can the resend timer (which a send *)
(* resets) have run out, and then everything unacknowledged is sent again. *)
(* An update that does neither changes nothing.                            *)
(***************************************************************************)
InFlight(p) == modulus_distance(local_low_n_sent[p], remote_low_n_received[p])

\* Mutant: one message more than the window has slots.
Room_OffByOne(p) == WindowSize + 1 - InFlight(p)

Room(p) == WindowSize - InFlight(p)

\* How many queued messages the drain loop moves to the window.
Drained(p) == IF Len(queue[p]) <= Room(p) THEN Len(queue[p]) ELSE Room(p)

update_Drain(p) ==
  LET n == Drained(p)
      lls == local_low_n_sent[p]
      fresh == {StreamPacket(p, Advance(lls, j), local_low_n_received[p],
                             queue[p][j + 1], Len(delivered[p])) : j \in 0 .. n - 1}
      sent == [q \in Peer |-> IF q = p THEN Sent(p) + n ELSE Sent(q)]
  IN  /\ running[p]
      /\ n > 0
      /\ window' = [window EXCEPT ![p] =
                      [i \in SlotIndex |-> IF StepsTo(i, lls) < n
                                             THEN queue[p][StepsTo(i, lls) + 1]
                                             ELSE @[i]]]
      /\ queue' = [queue EXCEPT ![p] = SubSeq(@, n + 1, Len(@))]
      /\ local_low_n_sent' = [local_low_n_sent EXCEPT ![p] = Advance(@, n)]
      /\ net' = {pkt \in net \cup fresh : Fresh(pkt, sent)}
      /\ UNCHANGED <<local_low_n_received, remote_low_n_received, allocator,
                     running, submitted, delivered>>

\* resend_message for the j-th unacknowledged number: the packet of its slot,
\* with the acknowledgement in the header brought up to date.
resent(p, j) ==
  StreamPacket(p, Advance(remote_low_n_received[p], j), local_low_n_received[p],
               window[p][Slot(Advance(remote_low_n_received[p], j))],
               Len(delivered[p]))

\* Mutant: the loop starts one number late.
Unacknowledged_SkipsFirst(p) == 1 .. InFlight(p) - 1

\* The unacknowledged numbers, counted from the oldest.
Unacknowledged(p) == 0 .. InFlight(p) - 1

update_Resend(p) ==
  /\ running[p]
  /\ Drained(p) = 0
  /\ InFlight(p) > 0
  /\ net' = net \cup {resent(p, j) : j \in Unacknowledged(p)}
  /\ UNCHANGED <<local_low_n_sent, local_low_n_received, remote_low_n_received,
                 window, queue, allocator, running, submitted, delivered>>

-----------------------------------------------------------------------------
(***************************************************************************)
(* receive_ack: an acknowledgement from outside the unacknowledged range   *)
(* is ignored; otherwise the blocks and slots it covers are freed.         *)
(***************************************************************************)
\* Mutant: any acknowledgement is taken for a new one.
Acceptable_Always(p, new_rnd) == TRUE

Acceptable(p, new_rnd) ==
  modulus_distance(local_low_n_sent[p], new_rnd)
    <= modulus_distance(local_low_n_sent[p], remote_low_n_received[p])

\* Mutant: the acknowledged packets stay in their slots.
Cleared_Not(w, rlr, n) == w

\* The window after the n slots from number rlr on were reset to packet().
Cleared(w, rlr, n) == [i \in SlotIndex |-> IF StepsTo(i, rlr) < n THEN NoPacket ELSE w[i]]

\* Mutant: one pop_front too few when several messages are acknowledged.
Popped_OneLess(blocks, n) == SubSeq(blocks, IF n > 1 THEN n ELSE n + 1, Len(blocks))

\* n calls of pop_front.
Popped(blocks, n) == SubSeq(blocks, n + 1, Len(blocks))

receive_ack(p, new_rnd) ==
  LET n == modulus_distance(new_rnd, remote_low_n_received[p])
  IN  IF Acceptable(p, new_rnd)
        THEN /\ allocator' = [allocator EXCEPT ![p] = Popped(@, n)]
             /\ window' = [window EXCEPT ![p] = Cleared(@, remote_low_n_received[p], n)]
             /\ remote_low_n_received' = [remote_low_n_received EXCEPT ![p] = new_rnd]
        ELSE UNCHANGED <<allocator, window, remote_low_n_received>>

-----------------------------------------------------------------------------
(***************************************************************************)
(* Handlers.  Receiving a packet leaves it in the network, which may       *)
(* deliver it again, at any time and after later ones; Lose takes it out.  *)
(***************************************************************************)
Arrives(p, pkt) ==
  /\ pkt.from = Other(p)
  /\ running[p]

\* Mutant: a message is accepted whenever it is not behind.
InOrder_Lax(p, id) == modulus_distance(id, local_low_n_received[p]) < WindowSize

InOrder(p, id) == id = local_low_n_received[p]

\* receive_message: first the acknowledgement in the header, then the message,
\* taken and acknowledged only if it is the next one in order.
receive_message(p, pkt) ==
  /\ pkt.kind = "stream"
  /\ Arrives(p, pkt)
  /\ receive_ack(p, pkt.rnd)
  /\ IF InOrder(p, pkt.id)
       THEN LET low == Advance(local_low_n_received[p], 1)
            IN  /\ local_low_n_received' = [local_low_n_received EXCEPT ![p] = low]
                /\ delivered' = [delivered EXCEPT ![p] = Append(@, pkt.data)]
                /\ net' = net \cup {AckPacket(p, low, Len(delivered[p]) + 1)}
       ELSE UNCHANGED <<local_low_n_received, delivered, net>>
  /\ UNCHANGED <<local_low_n_sent, queue, running, submitted>>

\* connection::receive_message, cases stream_ack and ping_response.
receive_AckPacket(p, pkt) ==
  /\ pkt.kind = "ack"
  /\ Arrives(p, pkt)
  /\ receive_ack(p, pkt.rnd)
  /\ UNCHANGED <<local_low_n_sent, local_low_n_received, queue, running,
                 submitted, delivered, net>>

\* Mutant: a ping is answered with the number of the last message received.
PingAnswer_Last(p) ==
  AckPacket(p, Advance(local_low_n_received[p], MaxSeq), Len(delivered[p]))

PingAnswer(p) ==
  AckPacket(p, local_low_n_received[p], Len(delivered[p]))

\* connection::receive_message, case ping.
receive_Ping(p, pkt) ==
  /\ pkt.kind = "ping"
  /\ Arrives(p, pkt)
  /\ net' = net \cup {PingAnswer(p)}
  /\ UNCHANGED <<local_low_n_sent, local_low_n_received, remote_low_n_received,
                 window, queue, allocator, running, submitted, delivered>>

\* connection::update pings the remote when ping_time has passed.
Ping(p) ==
  /\ running[p]
  /\ net' = net \cup {PingPacket(p)}
  /\ UNCHANGED <<local_low_n_sent, local_low_n_received, remote_low_n_received,
                 window, queue, allocator, running, submitted, delivered>>

\* The network loses a packet.
Lose(pkt) ==
  /\ net' = net \ {pkt}
  /\ UNCHANGED <<local_low_n_sent, local_low_n_received, remote_low_n_received,
                 window, queue, allocator, running, submitted, delivered>>

-----------------------------------------------------------------------------
Step(p) ==
  \/ send(p)
  \/ send_NoRoom(p)
  \/ update_Drain(p)
  \/ update_Resend(p)
  \/ Ping(p)
  \/ \E pkt \in net :
       \/ receive_message(p, pkt)
       \/ receive_AckPacket(p, pkt)
       \/ receive_Ping(p, pkt)

Next ==
  \/ \E p \in Peer : Step(p)
  \/ \E pkt \in net : Lose(pkt)

Spec == Init /\ [][Next]_vars

(***************************************************************************)
(* The same without Lose.  A packet that is never received is as good as   *)
(* lost and no step is prevented by a packet too many, so the other        *)
(* variables take the same values, in far fewer states.                    *)
(***************************************************************************)
SpecNoLose == Init /\ [][\E p \in Peer : Step(p)]_vars

(***************************************************************************)
(* Fairness.  Both ends call session.update() in a loop that never ends,   *)
(* so an update that has something to do, and a ping that is due, happen.  *)
(* The network is lossy but fair: the packet an end waits for is received  *)
(* if it is in transit again and again.  Nothing makes applications send.  *)
(***************************************************************************)
NextData(p) ==
  \E pkt \in net : /\ pkt.kind = "stream"
                   /\ pkt.data = Len(delivered[p])
                   /\ receive_message(p, pkt)

LatestAck(p) ==
  \E pkt \in net : /\ pkt.kind = "ack"
                   /\ pkt.upto = Len(delivered[Other(p)])
                   /\ receive_AckPacket(p, pkt)

AnyPing(p) == \E pkt \in net : receive_Ping(p, pkt)

Fairness ==
  \A p \in Peer :
    /\ WF_vars(update_Drain(p))
    /\ WF_vars(update_Resend(p))
    /\ WF_vars(Ping(p))
    /\ SF_vars(NextData(p))
    /\ SF_vars(LatestAck(p))
    /\ SF_vars(AnyPing(p))

FairSpec == Spec /\ Fairness

-----------------------------------------------------------------------------
(***************************************************************************)
(* Properties.                                                             *)
(***************************************************************************)
\* Every variable holds values of its kind.
TypeOK ==
  /\ local_low_n_sent \in [Peer -> SeqNumber]
  /\ local_low_n_received \in [Peer -> SeqNumber]
  /\ remote_low_n_received \in [Peer -> SeqNumber]
  /\ window \in [Peer -> [SlotIndex -> Nat \cup {NoPacket}]]
  /\ queue \in [Peer -> Seq(Nat)]
  /\ allocator \in [Peer -> Seq(Nat)]
  /\ running \in [Peer -> BOOLEAN]
  /\ submitted \in [Peer -> Nat]
  /\ delivered \in [Peer -> Seq(Nat)]
  /\ net \subseteq Packet

\* The application of an end sees the messages the other end sent, each once,
\* in order and without a gap, whatever UDP does to the packets.
InOrderOnce ==
  \A p \in Peer :
    /\ Len(delivered[p]) <= Sent(Other(p))
    /\ \A i \in 1 .. Len(delivered[p]) : delivered[p][i] = i - 1

\* receive_ack frees the memory of a message only when the other end's
\* application has it: a message that can still be needed is never freed.
FreedWereDelivered == \A p \in Peer : Acked(p) <= Len(delivered[Other(p)])

\* pop_front frees blocks by their age and receive_ack clears slots by their
\* number; the two agree: the live blocks are, in order, those of the
\* unacknowledged packets of the window followed by those of the queue.
BlocksAreThePackets ==
  \A p \in Peer :
    allocator[p] =
      [j \in 1 .. InFlight(p) |->
         window[p][Slot(Advance(remote_low_n_received[p], j - 1))]] \o queue[p]

\* An acknowledgement moves remote_low_n_received forward and not beyond what
\* was sent, also across the wrap of the numbers and for late packets.
AckMovesForward ==
  [][\A p \in Peer :
       modulus_distance(remote_low_n_received'[p], remote_low_n_received[p])
         <= InFlight(p)]_vars

\* The messenger implements an ordered exactly-once channel.
Channel == INSTANCE FifoChannel WITH released <- [p \in Peer |-> Acked(p)]
ImplementsFifoChannel == Channel!Spec

\* Every message accepted by send reaches the other end's application,
\* although any packet may be lost.
EventuallyDelivered ==
  \A p \in Peer : \A n \in 1 .. MaxMessages[p] :
    submitted[p] >= n ~> Len(delivered[Other(p)]) >= n

\* The memory of every message is freed in the end.  A duplicate is not
\* acknowledged again, so when a stream_ack is lost only a ping frees it.
EventuallyFreed ==
  \A p \in Peer : \A n \in 1 .. MaxMessages[p] :
    submitted[p] >= n ~> Acked(p) >= n

-----------------------------------------------------------------------------
(***************************************************************************)
(* The inductive invariant: it counts messages without wrapping and says   *)
(* which count every number, slot, block and packet stands for.            *)
(***************************************************************************)
\* What an end knows of the messages it sends.
SenderOK(p) ==
  /\ local_low_n_sent[p] = Sent(p) % Modulus
  /\ remote_low_n_received[p] = Acked(p) % Modulus
  /\ Acked(p) >= 0
  /\ Sent(p) - Acked(p) \in 0 .. WindowSize
  /\ \A i \in 1 .. Len(queue[p]) : queue[p][i] = Sent(p) + i - 1
  /\ \A i \in 1 .. Len(allocator[p]) : allocator[p][i] = Acked(p) + i - 1
  /\ \A i \in SlotIndex :
       LET k == StepsTo(i, remote_low_n_received[p])
       IN  window[p][i] = IF k < Sent(p) - Acked(p) THEN Acked(p) + k ELSE NoPacket

\* What an end knows of the messages it receives.
ReceiverOK(p) ==
  /\ local_low_n_received[p] = Len(delivered[p]) % Modulus
  /\ \A i \in 1 .. Len(delivered[p]) : delivered[p][i] = i - 1

\* p's messages: acknowledged ones were received, received ones were sent.
LinkOK(p) ==
  /\ Acked(p) <= Len(delivered[Other(p)])
  /\ Len(delivered[Other(p)]) <= Sent(p)

\* A packet's numbers stand for what the packet was made from, not long ago.
PacketOK(pkt) ==
  /\ pkt.kind = "stream" =>
       /\ pkt.id = pkt.data % Modulus
       /\ pkt.data < Sent(pkt.from)
       /\ Sent(pkt.from) - pkt.data < Lifetime
  /\ pkt.kind # "ping" =>
       /\ pkt.rnd = pkt.upto % Modulus
       /\ pkt.upto <= Len(delivered[pkt.from])
       /\ Sent(Other(pkt.from)) - pkt.upto < Lifetime

\* Both ends and every packet agree on which message each number stands for.
NumbersStandForCounts ==
  /\ \A p \in Peer : SenderOK(p) /\ ReceiverOK(p) /\ LinkOK(p)
  /\ \A pkt \in net : PacketOK(pkt)

IInv == TypeOK /\ NumbersStandForCounts
=============================================================================

-------------------------- MODULE ReliableMessenger --------------------------
(***************************************************************************)
(* The reliable messenger (messages in any order, once each) of a          *)
(* connection, on both of its ends, over UDP.  Next to the number of the   *)
(* next message in order an end keeps, and sends, the set of later ones it *)
(* has: bit b of the status is the message b numbers further on.           *)
(*                                                                         *)
(* Message k of an end is the k-th one its application passed to send,     *)
(* counted from 0: payloads are their own numbers.                         *)
(***************************************************************************)
EXTENDS SeqNum, Sequences, FiniteSets

CONSTANTS
  Client, Server,  \* the two ends of the connection
  Capacity,        \* blocks the circular_allocator of one end can hold
  MaxMessages,     \* bound: messages each end's application sends
  Oversized,       \* <<end, message>> whose datagram is longer than the MTU
  Lifetime,        \* the network drops a packet once it is this many messages old
  NoPacket         \* an empty window slot, packet()

Peer == {Client, Server}

Other(p) == IF p = Client THEN Server ELSE Client

\* A packet must live long enough for a window of messages to be in transit.
ASSUME ReliableAssumption ==
  /\ Client # Server
  /\ Capacity \in Nat
  /\ MaxMessages \in [Peer -> Nat]
  /\ Oversized \subseteq Peer \X Nat
  /\ Lifetime \in Nat
  /\ WindowSize < Lifetime
  /\ NoPacket \notin Nat

(***************************************************************************)
(* The receiver takes every number of the window ahead of it for new, so a *)
(* packet must be gone before its number is in the receiver's window again.*)
(***************************************************************************)
PacketsExpireInTime == Lifetime <= Modulus - WindowSize + 1

VARIABLES
  local_low_n_sent,         \* [Peer -> SeqNumber] the next number to send
  local_low_n_received,     \* [Peer -> SeqNumber] the first number not received
  local_messages_received,  \* [Peer -> SUBSET SlotIndex] bits of later ones received
  remote_low_n_received,    \* [Peer -> SeqNumber] the remote's acknowledgement
  remote_messages_received, \* [Peer -> SUBSET SlotIndex] the remote's status bits
  window,                   \* [Peer -> [SlotIndex -> message or NoPacket]] _window
  queue,                    \* [Peer -> Seq(message)] _queue
  allocator,                \* [Peer -> Seq(message)] live blocks, oldest first
  running,                  \* [Peer -> BOOLEAN] FALSE once the process has crashed
  submitted,                \* [Peer -> Nat] history: messages accepted by send
  delivered,                \* [Peer -> SUBSET message] history: messages received
  calls,                    \* [Peer -> Nat] history: on_message_received calls
  net                       \* the packets in transit

ackVars == <<remote_low_n_received, remote_messages_received, window, allocator>>
receiveVars == <<local_low_n_received, local_messages_received, delivered, calls>>
sendVars == <<local_low_n_sent, queue, submitted>>
vars == <<ackVars, receiveVars, sendVars, running, net>>

-----------------------------------------------------------------------------
\* The first of 0 .. n that is not in S.
FirstMissing(S, n) == CHOOSE k \in 0 .. n : k \notin S /\ 0 .. k - 1 \subseteq S

\* Messages of p moved to the window so far, and those acknowledged and freed.
Sent(p) == submitted[p] - Len(queue[p])
Acked(p) == submitted[p] - Len(allocator[p])

\* The messages p has received without a gap.
Received(p) == FirstMissing(delivered[p], submitted[Other(p)])

(***************************************************************************)
(* Packets.  id, rnd and status are the header.  data names the payload;   *)
(* upto is the number rnd stands for, not wrapped: it is not on the wire   *)
(* and only dates the packet for Lifetime.                                 *)
(***************************************************************************)
ReliablePacket(p, id, data) ==
  [kind |-> "reliable", from |-> p, id |-> id, data |-> data,
   rnd |-> local_low_n_received[p], status |-> local_messages_received[p],
   upto |-> Received(p)]

\* reliable_ack and ping_response: to the messenger they are the same.
AckPacket(p, rnd, status, upto) ==
  [kind |-> "ack", from |-> p, rnd |-> rnd, status |-> status, upto |-> upto]

PingPacket(p) == [kind |-> "ping", from |-> p]

Packet ==
       [kind : {"reliable"}, from : Peer, id : SeqNumber, data : Nat,
        rnd : SeqNumber, status : SUBSET SlotIndex, upto : Nat]
  \cup [kind : {"ack"}, from : Peer, rnd : SeqNumber, status : SUBSET SlotIndex,
        upto : Nat]
  \cup [kind : {"ping"}, from : Peer]

\* A packet is dropped by the network once its data, or the acknowledgement
\* it carries, is Lifetime messages behind what its subject's sender has sent.
Fresh(pkt, sent) ==
  /\ pkt.kind = "reliable" => sent[pkt.from] - pkt.data < Lifetime
  /\ pkt.kind # "ping" => sent[Other(pkt.from)] - pkt.upto < Lifetime

-----------------------------------------------------------------------------
Init ==
  /\ local_low_n_sent = [p \in Peer |-> 0]
  /\ local_low_n_received = [p \in Peer |-> 0]
  /\ local_messages_received = [p \in Peer |-> {}]
  /\ remote_low_n_received = [p \in Peer |-> 0]
  /\ remote_messages_received = [p \in Peer |-> {}]
  /\ window = [p \in Peer |-> [i \in SlotIndex |-> NoPacket]]
  /\ queue = [p \in Peer |-> <<>>]
  /\ allocator = [p \in Peer |-> <<>>]
  /\ running = [p \in Peer |-> TRUE]
  /\ submitted = [p \in Peer |-> 0]
  /\ delivered = [p \in Peer |-> {}]
  /\ calls = [p \in Peer |-> 0]
  /\ net = {}

-----------------------------------------------------------------------------
\* send: a block is allocated and the packet queued for the next update.
send(p) ==
  /\ running[p]
  /\ submitted[p] < MaxMessages[p]
  /\ Len(allocator[p]) < Capacity
  /\ allocator' = [allocator EXCEPT ![p] = Append(@, submitted[p])]
  /\ queue' = [queue EXCEPT ![p] = Append(@, submitted[p])]
  /\ submitted' = [submitted EXCEPT ![p] = @ + 1]
  /\ UNCHANGED <<local_low_n_sent, remote_low_n_received, remote_messages_received,
                 window, receiveVars, running, net>>

\* push_back returned nullptr, which send does not test: the memcpy writes
\* through a null pointer and the process dies.
send_NoRoom(p) ==
  /\ running[p]
  /\ submitted[p] < MaxMessages[p]
  /\ Len(allocator[p]) >= Capacity
  /\ running' = [running EXCEPT ![p] = FALSE]
  /\ UNCHANGED <<ackVars, receiveVars, sendVars, net>>

-----------------------------------------------------------------------------
(***************************************************************************)
(* update: the queue is drained into the window while the window has room; *)
(* if that sent nothing, the resend timer may have run out, and then what  *)
(* is neither acknowledged nor in the remote's status is sent again.       *)
(***************************************************************************)
InFlight(p) == modulus_distance(local_low_n_sent[p], remote_low_n_received[p])

\* Mutant: one message more than the window has slots.
Room_OffByOne(p) == WindowSize + 1 - InFlight(p)

Room(p) == WindowSize - InFlight(p)

\* How many queued messages the drain loop moves to the window.
Drained(p) == IF Len(queue[p]) <= Room(p) THEN Len(queue[p]) ELSE Room(p)

update_Drain(p) ==
  LET n == Drained(p)
      lls == local_low_n_sent[p]
      fresh == {ReliablePacket(p, Advance(lls, j), queue[p][j + 1]) : j \in 0 .. n - 1}
      sent == [q \in Peer |-> IF q = p THEN Sent(p) + n ELSE Sent(q)]
  IN  /\ running[p]
      /\ n > 0
      /\ window' = [window EXCEPT ![p] =
                      [i \in SlotIndex |-> IF StepsTo(i, lls) < n
                                             THEN queue[p][StepsTo(i, lls) + 1]
                                             ELSE @[i]]]
      /\ queue' = [queue EXCEPT ![p] = SubSeq(@, n + 1, Len(@))]
      /\ local_low_n_sent' = [local_low_n_sent EXCEPT ![p] = Advance(@, n)]
      /\ net' = {pkt \in net \cup fresh : Fresh(pkt, sent)}
      /\ UNCHANGED <<remote_low_n_received, remote_messages_received, allocator,
                     receiveVars, running, submitted>>

\* resend_message for the j-th unacknowledged number.
resent(p, j) ==
  LET id == Advance(remote_low_n_received[p], j)
  IN  ReliablePacket(p, id, window[p][Slot(id)])

\* Mutant: message_flag is not shifted for the first number.
NotReceived_Unshifted(p) ==
  {j \in 0 .. InFlight(p) - 1 : j + 1 \notin remote_messages_received[p]}

\* The unacknowledged numbers whose bit of the remote's status is not set.
NotReceived(p) == {j \in 0 .. InFlight(p) - 1 : j \notin remote_messages_received[p]}

update_Resend(p) ==
  /\ running[p]
  /\ Drained(p) = 0
  /\ NotReceived(p) # {}
  /\ net' = net \cup {resent(p, j) : j \in NotReceived(p)}
  /\ UNCHANGED <<ackVars, receiveVars, sendVars, running>>

-----------------------------------------------------------------------------
\* Mutant: any acknowledgement is taken for a new one.
Acceptable_Always(p, new_rnd) == TRUE

\* Not from outside the unacknowledged range.
Acceptable(p, new_rnd) ==
  modulus_distance(local_low_n_sent[p], new_rnd)
    <= modulus_distance(local_low_n_sent[p], remote_low_n_received[p])

\* The window after the n slots from number rlr on were reset to packet().
Cleared(w, rlr, n) == [i \in SlotIndex |-> IF StepsTo(i, rlr) < n THEN NoPacket ELSE w[i]]

\* n calls of pop_front.
Popped(blocks, n) == SubSeq(blocks, n + 1, Len(blocks))

\* Mutant: the status bits are kept although rnd has moved under them.
Status_Kept(p, new_rnd, new_status) == remote_messages_received[p] \cup new_status

\* The status that replaces the one before, whatever its age.
Status(p, new_rnd, new_status) == new_status

\* receive_ack: frees what is acknowledged and takes over the status.
receive_ack(p, new_rnd, new_status) ==
  LET n == modulus_distance(new_rnd, remote_low_n_received[p])
  IN  IF Acceptable(p, new_rnd)
        THEN /\ allocator' = [allocator EXCEPT ![p] = Popped(@, n)]
             /\ window' = [window EXCEPT ![p] = Cleared(@, remote_low_n_received[p], n)]
             /\ remote_low_n_received' = [remote_low_n_received EXCEPT ![p] = new_rnd]
             /\ remote_messages_received' =
                  [remote_messages_received EXCEPT ![p] = Status(p, new_rnd, new_status)]
        ELSE UNCHANGED ackVars

-----------------------------------------------------------------------------
(***************************************************************************)
(* Handlers.  Receiving a packet leaves it in the network, which may       *)
(* deliver it again, at any time and after later ones; Lose takes it out.  *)
(***************************************************************************)
Arrives(p, pkt) ==
  /\ pkt.from = Other(p)
  /\ running[p]

\* Mutant: messages already received in the window are taken again.
IsNew_NoBit(p, b) == b < WindowSize

\* Mutant: a message is taken from any distance.
IsNew_AnyDistance(p, b) == b \notin local_messages_received[p]

\* message_index b is in the window and its bit is not set.
IsNew(p, b) == b < WindowSize /\ b \notin local_messages_received[p]

\* Mutant: the low number moves by one only, the loop is an if.
Run_One(bits) == IF 0 \in bits THEN 1 ELSE 0

\* The length of the run of bits from bit 0: the iterations of the while loop.
Run(bits) == FirstMissing(bits, WindowSize)

receive_message(p, pkt) ==
  LET b == modulus_distance(pkt.id, local_low_n_received[p])
      bits == local_messages_received[p] \cup {b}
      k == Run(bits)
      low == Advance(local_low_n_received[p], k)
      later == {i - k : i \in {i \in bits : i >= k}}
  IN  /\ pkt.kind = "reliable"
      /\ <<pkt.from, pkt.data>> \notin Oversized
      /\ Arrives(p, pkt)
      /\ UNCHANGED <<sendVars, running>>
      /\ receive_ack(p, pkt.rnd, pkt.status)
      /\ IF IsNew(p, b)
           THEN /\ local_low_n_received' = [local_low_n_received EXCEPT ![p] = low]
                /\ local_messages_received' = [local_messages_received EXCEPT ![p] = later]
                /\ delivered' = [delivered EXCEPT ![p] = @ \cup {pkt.data}]
                /\ calls' = [calls EXCEPT ![p] = @ + 1]
                /\ net' = net \cup {AckPacket(p, low, later, Received(p)')}
           ELSE UNCHANGED <<receiveVars, net>>

\* connection::receive_message, cases reliable_ack and ping_response.
receive_AckPacket(p, pkt) ==
  /\ pkt.kind = "ack"
  /\ Arrives(p, pkt)
  /\ receive_ack(p, pkt.rnd, pkt.status)
  /\ UNCHANGED <<receiveVars, sendVars, running, net>>

\* connection::receive_message, case ping.
receive_Ping(p, pkt) ==
  /\ pkt.kind = "ping"
  /\ Arrives(p, pkt)
  /\ net' = net \cup {AckPacket(p, local_low_n_received[p],
                                local_messages_received[p], Received(p))}
  /\ UNCHANGED <<ackVars, receiveVars, sendVars, running>>

\* connection::update pings the remote when ping_time has passed.
Ping(p) ==
  /\ running[p]
  /\ net' = net \cup {PingPacket(p)}
  /\ UNCHANGED <<ackVars, receiveVars, sendVars, running>>

\* The network loses a packet.
Lose(pkt) ==
  /\ net' = net \ {pkt}
  /\ UNCHANGED <<ackVars, receiveVars, sendVars, running>>

-----------------------------------------------------------------------------
Step(p) ==
  \/ send(p)
  \/ send_NoRoom(p)
  \/ update_Drain(p)
  \/ update_Resend(p)
  \/ Ping(p)
  \/ \E pkt \in net :
       \/ receive_message(p, pkt)
       \/ receive_AckPacket(p, pkt)
       \/ receive_Ping(p, pkt)

Next ==
  \/ \E p \in Peer : Step(p)
  \/ \E pkt \in net : Lose(pkt)

Spec == Init /\ [][Next]_vars

\* Without Lose: a packet that is never received is as good as lost, and no
\* step is prevented by a packet too many.
SpecNoLose == Init /\ [][\E p \in Peer : Step(p)]_vars

(***************************************************************************)
(* Fairness.  session.update() is called in a loop that never ends; the    *)
(* network is lossy but fair: the packet an end waits for is received if   *)
(* it is in transit again and again.  Nothing makes applications send.     *)
(***************************************************************************)
NextData(p) ==
  \E pkt \in net : /\ pkt.kind = "reliable"
                   /\ pkt.data = Received(p)
                   /\ receive_message(p, pkt)

LatestAck(p) ==
  \E pkt \in net : /\ pkt.kind = "ack"
                   /\ pkt.upto = Received(Other(p))
                   /\ receive_AckPacket(p, pkt)

AnyPing(p) == \E pkt \in net : receive_Ping(p, pkt)

Fairness ==
  \A p \in Peer :
    /\ WF_vars(update_Drain(p))
    /\ WF_vars(update_Resend(p))
    /\ WF_vars(Ping(p))
    /\ SF_vars(NextData(p))
    /\ SF_vars(LatestAck(p))
    /\ SF_vars(AnyPing(p))

FairSpec == Spec /\ Fairness

-----------------------------------------------------------------------------
(***************************************************************************)
(* Properties.                                                             *)
(***************************************************************************)
\* Every variable holds values of its kind.
TypeOK ==
  /\ local_low_n_sent \in [Peer -> SeqNumber]
  /\ local_low_n_received \in [Peer -> SeqNumber]
  /\ local_messages_received \in [Peer -> SUBSET SlotIndex]
  /\ remote_low_n_received \in [Peer -> SeqNumber]
  /\ remote_messages_received \in [Peer -> SUBSET SlotIndex]
  /\ window \in [Peer -> [SlotIndex -> Nat \cup {NoPacket}]]
  /\ queue \in [Peer -> Seq(Nat)]
  /\ allocator \in [Peer -> Seq(Nat)]
  /\ running \in [Peer -> BOOLEAN]
  /\ submitted \in [Peer -> Nat]
  /\ delivered \in [Peer -> SUBSET Nat]
  /\ calls \in [Peer -> Nat]
  /\ net \subseteq Packet

\* The application of an end is handed only messages the other end sent, and
\* none of them twice, whatever UDP does to the packets.
AtMostOnce ==
  \A p \in Peer :
    /\ delivered[p] \subseteq 0 .. Sent(Other(p)) - 1
    /\ calls[p] = Cardinality(delivered[p])

\* receive_ack frees the memory of a message only when the other end's
\* application has it: a message that can still be needed is never freed.
FreedWereDelivered == \A p \in Peer : 0 .. Acked(p) - 1 \subseteq delivered[Other(p)]

\* update leaves out of a retransmission only messages the other end has, even
\* when the status it goes by came in a packet older than the latest one.
SkippedWereDelivered ==
  \A p \in Peer : \A b \in remote_messages_received[p] :
    Acked(p) + b \in delivered[Other(p)]

\* The live blocks are, in order, those of the unacknowledged packets of the
\* window followed by those of the queue, although messages are received, and
\* their bits set, in any order.
BlocksAreThePackets ==
  \A p \in Peer :
    allocator[p] =
      [j \in 1 .. InFlight(p) |->
         window[p][Slot(Advance(remote_low_n_received[p], j - 1))]] \o queue[p]

\* The messenger implements an unordered exactly-once channel.
Channel == INSTANCE ExactlyOnceChannel WITH released <- [p \in Peer |-> Acked(p)]
ImplementsExactlyOnceChannel == Channel!Spec

\* Every message accepted by send reaches the other end's application,
\* although any packet may be lost.
EventuallyDelivered ==
  \A p \in Peer : \A m \in 0 .. MaxMessages[p] - 1 :
    submitted[p] > m ~> m \in delivered[Other(p)]

\* The memory of every message is freed in the end.
EventuallyFreed ==
  \A p \in Peer : \A n \in 1 .. MaxMessages[p] :
    submitted[p] >= n ~> Acked(p) >= n

-----------------------------------------------------------------------------
(***************************************************************************)
(* What every number, bit, slot, block and packet stands for, counting     *)
(* messages without wrapping.                                              *)
(***************************************************************************)
SenderOK(p) ==
  /\ local_low_n_sent[p] = Sent(p) % Modulus
  /\ remote_low_n_received[p] = Acked(p) % Modulus
  /\ Acked(p) >= 0
  /\ Sent(p) - Acked(p) \in 0 .. WindowSize
  /\ \A i \in 1 .. Len(queue[p]) : queue[p][i] = Sent(p) + i - 1
  /\ \A i \in 1 .. Len(allocator[p]) : allocator[p][i] = Acked(p) + i - 1
  /\ \A i \in SlotIndex :
       LET k == StepsTo(i, remote_low_n_received[p])
       IN  window[p][i] = IF k < Sent(p) - Acked(p) THEN Acked(p) + k ELSE NoPacket

ReceiverOK(p) ==
  /\ local_low_n_received[p] = Received(p) % Modulus
  /\ local_messages_received[p] =
       {m - Received(p) : m \in {m \in delivered[p] : m > Received(p)}}

LinkOK(p) ==
  /\ Acked(p) <= Received(Other(p))
  /\ delivered[Other(p)] \subseteq 0 .. Sent(p) - 1

PacketOK(pkt) ==
  /\ pkt.kind = "reliable" =>
       /\ pkt.id = pkt.data % Modulus
       /\ pkt.data < Sent(pkt.from)
       /\ Sent(pkt.from) - pkt.data < Lifetime
  /\ pkt.kind # "ping" =>
       /\ pkt.rnd = pkt.upto % Modulus
       /\ pkt.upto <= Received(pkt.from)
       /\ {pkt.upto + b : b \in pkt.status} \subseteq delivered[pkt.from]
       /\ Sent(Other(pkt.from)) - pkt.upto < Lifetime

\* Both ends and every packet agree on which message each number and each
\* status bit stands for: bits keep their meaning when rnd moves under them.
NumbersStandForCounts ==
  /\ \A p \in Peer : SenderOK(p) /\ ReceiverOK(p) /\ LinkOK(p)
  /\ \A pkt \in net : PacketOK(pkt)

\* The inductive invariant of the proofs.
IInv == TypeOK /\ NumbersStandForCounts /\ SkippedWereDelivered /\ AtMostOnce
=============================================================================

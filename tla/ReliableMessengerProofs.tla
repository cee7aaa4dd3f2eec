----------------------- MODULE ReliableMessengerProofs -----------------------
(***************************************************************************)
(* Safety of the reliable messenger for every number space, window, number *)
(* of blocks and number of messages, if the network does not keep packets  *)
(* so long that their number is in the receiver's window again             *)
(* (PacketsExpireInTime).                                                  *)
(***************************************************************************)
EXTENDS ReliableMessenger, SeqNumProofs, SequenceTheorems, FiniteSetTheorems,
        WellFoundedInduction

\* FirstMissing is what its definition says: there is such a number.
LEMMA FirstMissingIs ==
  ASSUME NEW n \in Nat, NEW S, S \subseteq 0 .. n - 1
  PROVE  /\ FirstMissing(S, n) \in 0 .. n
         /\ FirstMissing(S, n) \notin S
         /\ 0 .. FirstMissing(S, n) - 1 \subseteq S
  <1>. DEFINE T == (0 .. n) \ S
              R == OpToRel(<, Nat)
  <1>1. T \subseteq Nat /\ T # {}
    <2>1. n \in T
      OBVIOUS
    <2>. QED  BY <2>1
  <1>2. \E k \in T : \A i \in T : <<i, k>> \notin R
    <2>. HIDE DEF T, R
    <2>. QED  BY <1>1, NatLessThanWellFounded, WFMin DEF R
  <1>3. PICK k \in T : \A i \in T : <<i, k>> \notin R
    BY <1>2
  <1>4. \A i \in T : ~ (i < k)
    BY <1>1, <1>3 DEF OpToRel
  <1>5. k \in 0 .. n /\ k \notin S /\ 0 .. k - 1 \subseteq S
    BY <1>4
  <1>. QED  BY <1>5 DEF FirstMissing

\* ... and only one.
LEMMA FirstMissingUnique ==
  ASSUME NEW n \in Nat, NEW S, S \subseteq 0 .. n - 1,
         NEW k \in Nat, k \notin S, 0 .. k - 1 \subseteq S
  PROVE  FirstMissing(S, n) = k
  <1>. DEFINE f == FirstMissing(S, n)
  <1>1. f \in 0 .. n /\ f \notin S /\ 0 .. f - 1 \subseteq S
    BY FirstMissingIs
  <1>. HIDE DEF f
  <1>2. ~ (f < k)
    <2>1. f < k => f \in 0 .. k - 1
      BY <1>1
    <2>. QED  BY <1>1, <2>1
  <1>3. ~ (k < f)
    <2>1. k < f => k \in 0 .. f - 1
      BY <1>1
    <2>. QED  BY <1>1, <2>1
  <1>. QED  BY <1>1, <1>2, <1>3 DEF f

\* Nothing that was received is missing later.
LEMMA FirstMissingGrows ==
  ASSUME NEW n \in Nat, NEW S, S \subseteq 0 .. n - 1,
         NEW m \in Nat, NEW T, T \subseteq 0 .. m - 1, S \subseteq T
  PROVE  FirstMissing(S, n) <= FirstMissing(T, m)
  <1>. DEFINE f == FirstMissing(S, n)
              g == FirstMissing(T, m)
  <1>1. f \in 0 .. n /\ 0 .. f - 1 \subseteq S
    BY FirstMissingIs
  <1>2. g \in 0 .. m /\ g \notin T
    BY FirstMissingIs
  <1>. HIDE DEF f, g
  <1>3. g < f => g \in 0 .. f - 1
    BY <1>1, <1>2
  <1>4. f <= g
    BY <1>1, <1>2, <1>3
  <1>. QED  BY <1>4 DEF f, g

-----------------------------------------------------------------------------
\* The two ends are each other's other end.
LEMMA Ends ==
  ASSUME NEW p \in Peer
  PROVE  /\ Other(p) \in Peer
         /\ Other(p) # p
         /\ Other(Other(p)) = p
         /\ \A r \in Peer : r = p \/ r = Other(p)
  BY ReliableAssumption DEF Peer, Other

\* What the invariant says of the counts and distances of a sending end.
LEMMA Counts ==
  ASSUME IInv, NEW p \in Peer
  PROVE  /\ Sent(p) \in Int /\ Acked(p) \in Nat
         /\ Sent(p) - Acked(p) \in 0 .. WindowSize
         /\ submitted[p] \in Nat /\ Len(queue[p]) \in Nat
         /\ submitted[p] = Sent(p) + Len(queue[p])
         /\ Len(allocator[p]) = Sent(p) - Acked(p) + Len(queue[p])
         /\ InFlight(p) = Sent(p) - Acked(p)
         /\ Room(p) = WindowSize - (Sent(p) - Acked(p))
  <1>1. /\ Sent(p) \in Int /\ Acked(p) \in Nat
        /\ Sent(p) - Acked(p) \in 0 .. WindowSize
        /\ submitted[p] \in Nat /\ Len(queue[p]) \in Nat
        /\ submitted[p] = Sent(p) + Len(queue[p])
        /\ Len(allocator[p]) = Sent(p) - Acked(p) + Len(queue[p])
    <2>1. submitted[p] \in Nat /\ Len(queue[p]) \in Nat /\ Len(allocator[p]) \in Nat
      BY DEF IInv, TypeOK
    <2>2. Acked(p) >= 0 /\ Sent(p) - Acked(p) \in 0 .. WindowSize
      BY DEF IInv, NumbersStandForCounts, SenderOK
    <2>3. /\ Sent(p) = submitted[p] - Len(queue[p])
          /\ Acked(p) = submitted[p] - Len(allocator[p])
      BY DEF Sent, Acked
    <2>4. Sent(p) \in Int /\ Acked(p) \in Int
      BY <2>1, <2>3
    <2>5. /\ Len(allocator[p]) = Sent(p) - Acked(p) + Len(queue[p])
          /\ submitted[p] = Sent(p) + Len(queue[p])
      BY <2>1, <2>3
    <2>6. Acked(p) \in Nat
      BY <2>2, <2>4
    <2>. QED  BY <2>1, <2>2, <2>4, <2>5, <2>6
  <1>2. /\ local_low_n_sent[p] = Sent(p) % Modulus
        /\ remote_low_n_received[p] = Acked(p) % Modulus
    BY DEF IInv, NumbersStandForCounts, SenderOK
  <1>3. InFlight(p) = Sent(p) - Acked(p)
    <2>1. Sent(p) - Acked(p) \in 0 .. Modulus - 1
      BY <1>1, Parameters
    <2>2. modulus_distance(Sent(p) % Modulus, Acked(p) % Modulus) = Sent(p) - Acked(p)
      BY <1>1, <2>1, DistanceNear
    <2>. QED  BY <1>2, <2>2 DEF InFlight
  <1>4. Room(p) = WindowSize - (Sent(p) - Acked(p))
    BY <1>3 DEF Room
  <1>. QED  BY <1>1, <1>3, <1>4

\* What the invariant says of a receiving end, and of the end that sends to it.
LEMMA ReceiverCounts ==
  ASSUME IInv, NEW p \in Peer
  PROVE  /\ delivered[p] \subseteq 0 .. Sent(Other(p)) - 1
         /\ delivered[p] \subseteq 0 .. submitted[Other(p)] - 1
         /\ Received(p) \in Nat /\ Received(p) \notin delivered[p]
         /\ 0 .. Received(p) - 1 \subseteq delivered[p]
         /\ Acked(Other(p)) <= Received(p) /\ Received(p) <= Sent(Other(p))
  <1>. DEFINE q == Other(p)
              k == Received(p)
  <1>1. q \in Peer /\ Other(q) = p
    BY Ends
  <1>2. /\ Sent(q) \in Int /\ Acked(q) \in Nat /\ submitted[q] \in Nat
        /\ Sent(q) - Acked(q) \in 0 .. WindowSize
        /\ submitted[q] = Sent(q) + Len(queue[q]) /\ Len(queue[q]) \in Nat
        /\ WindowSize \in Nat
    BY <1>1, Counts, Parameters
  <1>3. LinkOK(q)
    BY <1>1 DEF IInv, NumbersStandForCounts
  <1>4. delivered[p] \subseteq 0 .. Sent(q) - 1 /\ Acked(q) <= k
    BY <1>1, <1>3 DEF LinkOK
  <1>5. Sent(q) <= submitted[q] /\ Sent(q) >= 0
    BY <1>2
  <1>. HIDE DEF q
  <1>6. delivered[p] \subseteq 0 .. submitted[q] - 1
    BY <1>2, <1>4, <1>5
  <1>7. k \in 0 .. submitted[q] /\ k \notin delivered[p] /\ 0 .. k - 1 \subseteq delivered[p]
    BY <1>2, <1>6, FirstMissingIs DEF Received, q
  <1>. HIDE DEF k
  <1>8. k <= Sent(q)
    <2>1. k > Sent(q) => Sent(q) \in 0 .. k - 1
      BY <1>2, <1>5, <1>7
    <2>2. Sent(q) \notin 0 .. Sent(q) - 1
      BY <1>2
    <2>. QED  BY <1>2, <1>4, <1>7, <2>1, <2>2
  <1>. QED  BY <1>4, <1>6, <1>7, <1>8 DEF k, q

\* More messages of its remote do not change what an end has received.
LEMMA ReceivedFrame ==
  ASSUME IInv, NEW p \in Peer, delivered'[p] = delivered[p],
         submitted'[Other(p)] \in Nat, submitted[Other(p)] <= submitted'[Other(p)]
  PROVE  Received(p)' = Received(p)
  <1>1. /\ delivered[p] \subseteq 0 .. submitted[Other(p)] - 1
        /\ Received(p) \in Nat /\ Received(p) \notin delivered[p]
        /\ 0 .. Received(p) - 1 \subseteq delivered[p]
        /\ submitted[Other(p)] \in Nat
    BY Ends, Counts, ReceiverCounts
  <1>2. delivered[p] \subseteq 0 .. submitted'[Other(p)] - 1
    BY <1>1
  <1>3. FirstMissing(delivered[p], submitted'[Other(p)]) = Received(p)
    BY <1>1, <1>2, FirstMissingUnique
  <1>. QED  BY <1>3 DEF Received
\* The numbers are in range at the start and nothing is in flight.
LEMMA InitInv == Init => IInv
  <1>. SUFFICES ASSUME Init PROVE IInv
    OBVIOUS
  <1>1. 0 \in SeqNumber /\ 0 % Modulus = 0
    <2>1. Modulus \in Nat \ {0} /\ 0 \in 0 .. Modulus - 1
      BY Parameters
    <2>2. 0 % Modulus = 0
      BY <2>1, SmallMod
    <2>. QED  BY <2>2, SeqNumAssumption DEF SeqNumber
  <1>2. TypeOK
    BY <1>1 DEF Init, TypeOK
  <1>3. ASSUME NEW p \in Peer
        PROVE  Sent(p) = 0 /\ Acked(p) = 0 /\ Received(p) = 0
    <2>1. submitted[Other(p)] = 0 /\ delivered[p] = {}
      BY <1>3, Ends DEF Init
    <2>2. FirstMissing({}, 0) = 0
      <3>1. 0 \in Nat /\ {} \subseteq 0 .. 0 - 1 /\ 0 \notin {} /\ 0 .. 0 - 1 \subseteq {}
        OBVIOUS
      <3>. QED  BY <3>1, FirstMissingUnique
    <2>. QED  BY <1>3, <2>1, <2>2 DEF Init, Sent, Acked, Received
  <1>4. ASSUME NEW p \in Peer
        PROVE  SenderOK(p) /\ ReceiverOK(p) /\ LinkOK(p)
    <2>1. /\ Sent(p) = 0 /\ Acked(p) = 0 /\ Received(p) = 0 /\ Received(Other(p)) = 0
          /\ delivered[p] = {} /\ delivered[Other(p)] = {}
      BY <1>3, Ends DEF Init
    <2>2. ASSUME NEW i \in SlotIndex
          PROVE  ~ (StepsTo(i, remote_low_n_received[p]) < 0)
      <3>1. i \in Int /\ remote_low_n_received[p] \in Int
        BY <1>4 DEF Init, SlotIndex
      <3>2. StepsTo(i, remote_low_n_received[p]) \in 0 .. WindowSize - 1
        BY <3>1, StepsToType
      <3>. QED  BY <3>2, Parameters
    <2>3. SenderOK(p)
      BY <1>1, <1>4, <2>1, <2>2, Parameters DEF Init, SenderOK
    <2>4. ReceiverOK(p)
      <3>1. {m - 0 : m \in {m \in {} : m > 0}} = {}
        OBVIOUS
      <3>2. local_low_n_received[p] = 0 /\ local_messages_received[p] = {}
        BY <1>4 DEF Init
      <3>. QED  BY <1>1, <2>1, <3>1, <3>2 DEF ReceiverOK
    <2>5. LinkOK(p)
      BY <2>1 DEF LinkOK
    <2>. QED  BY <2>3, <2>4, <2>5
  <1>5. \A pkt \in net : PacketOK(pkt)
    BY DEF Init
  <1>6. SkippedWereDelivered
    BY DEF Init, SkippedWereDelivered
  <1>7. AtMostOnce
    BY FS_EmptySet, Ends DEF Init, AtMostOnce
  <1>. QED  BY <1>2, <1>4, <1>5, <1>6, <1>7 DEF IInv, NumbersStandForCounts

-----------------------------------------------------------------------------
\* An end whose sending state a step leaves alone.
LEMMA SenderFrame ==
  ASSUME NEW r \in Peer, SenderOK(r),
         local_low_n_sent'[r] = local_low_n_sent[r],
         remote_low_n_received'[r] = remote_low_n_received[r],
         window'[r] = window[r], queue'[r] = queue[r],
         allocator'[r] = allocator[r], submitted'[r] = submitted[r]
  PROVE  SenderOK(r)' /\ Sent(r)' = Sent(r) /\ Acked(r)' = Acked(r)
  <1>1. Sent(r)' = Sent(r) /\ Acked(r)' = Acked(r)
    BY DEF Sent, Acked
  <1>. QED  BY <1>1 DEF SenderOK

\* An end whose receiving state a step leaves alone.
LEMMA ReceiverFrame ==
  ASSUME NEW r \in Peer, ReceiverOK(r), Received(r)' = Received(r),
         local_low_n_received'[r] = local_low_n_received[r],
         local_messages_received'[r] = local_messages_received[r],
         delivered'[r] = delivered[r]
  PROVE  ReceiverOK(r)'
  BY DEF ReceiverOK

\* A packet stays as good as it was while nothing new is sent and what its
\* sender has received only grows.
LEMMA PacketFrame ==
  ASSUME NEW pkt \in Packet, PacketOK(pkt),
         \A r \in Peer : Sent(r)' = Sent(r),
         \A r \in Peer : delivered[r] \subseteq delivered'[r],
         \A r \in Peer : /\ Received(r) \in Nat /\ Received(r)' \in Nat
                         /\ Received(r) <= Received(r)'
  PROVE  PacketOK(pkt)'
  <1>1. pkt.from \in Peer /\ Other(pkt.from) \in Peer
    BY Ends DEF Packet
  <1>2. /\ Sent(pkt.from)' = Sent(pkt.from)
        /\ Sent(Other(pkt.from))' = Sent(Other(pkt.from))
        /\ delivered[pkt.from] \subseteq delivered'[pkt.from]
    BY <1>1
  <1>3. pkt.kind # "ping" => pkt.upto <= Received(pkt.from)'
    <2>1. pkt.kind # "ping" => pkt.upto \in Nat /\ pkt.upto <= Received(pkt.from)
      BY DEF Packet, PacketOK
    <2>. QED  BY <1>1, <2>1
  <1>. QED  BY <1>2, <1>3 DEF PacketOK

\* The header an end puts on its packets tells what it has received.
LEMMA HeaderOK ==
  ASSUME IInv, NEW p \in Peer
  PROVE  /\ local_low_n_received[p] \in SeqNumber
         /\ local_messages_received[p] \subseteq SlotIndex
         /\ local_low_n_received[p] = Received(p) % Modulus
         /\ Received(p) \in Nat
         /\ {Received(p) + b : b \in local_messages_received[p]} \subseteq delivered[p]
         /\ Sent(Other(p)) - Received(p) < Lifetime
  <1>1. /\ local_low_n_received[p] \in SeqNumber
        /\ local_messages_received[p] \subseteq SlotIndex
        /\ delivered[p] \subseteq Nat
    BY DEF IInv, TypeOK
  <1>2. /\ local_low_n_received[p] = Received(p) % Modulus
        /\ local_messages_received[p] =
             {m - Received(p) : m \in {m \in delivered[p] : m > Received(p)}}
    BY DEF IInv, NumbersStandForCounts, ReceiverOK
  <1>3. Received(p) \in Nat /\ Acked(Other(p)) <= Received(p)
    BY ReceiverCounts
  <1>4. ASSUME NEW b \in local_messages_received[p] PROVE Received(p) + b \in delivered[p]
    <2>1. PICK m \in delivered[p] : b = m - Received(p)
      BY <1>2
    <2>2. m \in Int
      BY <1>1
    <2>3. Received(p) + (m - Received(p)) = m
      BY <1>3, <2>2
    <2>. QED  BY <2>1, <2>3
  <1>5. Sent(Other(p)) - Received(p) < Lifetime
    <2>1. /\ Sent(Other(p)) \in Int /\ Acked(Other(p)) \in Nat
          /\ Sent(Other(p)) - Acked(Other(p)) \in 0 .. WindowSize
          /\ WindowSize \in Nat
      BY Ends, Counts, Parameters
    <2>2. WindowSize < Lifetime /\ Lifetime \in Nat
      BY ReliableAssumption
    <2>. QED  BY <1>3, <2>1, <2>2
  <1>. QED  BY <1>1, <1>2, <1>3, <1>4, <1>5
-----------------------------------------------------------------------------
\* receive_ack, for any acknowledgement the network can still deliver: one of
\* messages that were freed already is ignored, any other frees exactly the
\* messages it covers, and its status is about the messages behind those.
LEMMA ReceiveAck ==
  ASSUME IInv, PacketsExpireInTime, NEW p \in Peer,
         NEW u \in Nat, NEW rnd, rnd = u % Modulus, NEW st \in SUBSET SlotIndex,
         u <= Received(Other(p)), {u + b : b \in st} \subseteq delivered[Other(p)],
         Sent(p) - u < Lifetime,
         receive_ack(p, rnd, st), UNCHANGED <<local_low_n_sent, queue, submitted>>
  PROVE  /\ allocator' \in [Peer -> Seq(Nat)]
         /\ window' \in [Peer -> [SlotIndex -> Nat \cup {NoPacket}]]
         /\ remote_low_n_received' \in [Peer -> SeqNumber]
         /\ remote_messages_received' \in [Peer -> SUBSET SlotIndex]
         /\ \A r \in Peer : SenderOK(r)' /\ Sent(r)' = Sent(r)
         /\ \A r \in Peer : Acked(r) <= Acked(r)' /\ Acked(r)' <= Received(Other(r))
         /\ \A r \in Peer \ {p} : Acked(r)' = Acked(r)
         /\ \A r \in Peer : \A b \in remote_messages_received'[r] :
              Acked(r)' + b \in delivered[Other(r)]
  <1>. DEFINE a == Acked(p)
              f == Sent(p) - Acked(p)
              rlr == remote_low_n_received[p]
  <1>1. /\ Sent(p) \in Int /\ a \in Nat /\ f \in 0 .. WindowSize
        /\ Received(Other(p)) \in Nat /\ submitted[p] \in Nat
        /\ Len(queue[p]) \in Nat /\ Len(allocator[p]) = f + Len(queue[p])
        /\ InFlight(p) = f /\ WindowSize \in Nat /\ Modulus \in Nat
        /\ WindowSize < Modulus
    BY Counts, ReceiverCounts, Ends, Parameters
  <1>2. a <= Received(Other(p)) /\ Received(Other(p)) <= Sent(p)
    BY Ends, ReceiverCounts
  <1>3. /\ local_low_n_sent[p] = Sent(p) % Modulus
        /\ rlr = a % Modulus
    BY DEF IInv, NumbersStandForCounts, SenderOK
  <1>4. \A r \in Peer : SenderOK(r) /\ Acked(r) <= Received(Other(r)) /\ Acked(r) \in Nat
    BY Counts DEF IInv, NumbersStandForCounts, LinkOK
  <1>5. \A r \in Peer : \A b \in remote_messages_received[r] :
          Acked(r) + b \in delivered[Other(r)]
    BY DEF IInv, SkippedWereDelivered
  <1>6. /\ allocator \in [Peer -> Seq(Nat)]
        /\ window \in [Peer -> [SlotIndex -> Nat \cup {NoPacket}]]
        /\ remote_low_n_received \in [Peer -> SeqNumber]
        /\ remote_messages_received \in [Peer -> SUBSET SlotIndex]
    BY DEF IInv, TypeOK
  <1>. HIDE DEF a, f, rlr
  <1>7. Acceptable(p, rnd) <=> a <= u
    <2>1. Sent(p) - u \in 0 .. Modulus - 1 /\ u \in Int
      <3>1. Lifetime \in Int /\ Modulus \in Int
        BY <1>1, ReliableAssumption
      <3>2. u <= Sent(p)
        BY <1>1, <1>2
      <3>3. Lifetime <= Modulus
        BY <1>1, <3>1, Parameters DEF PacketsExpireInTime
      <3>. QED  BY <1>1, <3>1, <3>2, <3>3
    <2>2. modulus_distance(Sent(p) % Modulus, u % Modulus) = Sent(p) - u
      BY <1>1, <2>1, DistanceNear
    <2>3. Acceptable(p, rnd) <=> Sent(p) - u <= InFlight(p)
      BY <1>3, <2>2 DEF Acceptable, InFlight
    <2>4. InFlight(p) = Sent(p) - a /\ Sent(p) \in Int /\ a \in Int /\ u \in Int
      BY <1>1 DEF f, a
    <2>. QED  BY <2>3, <2>4
  <1>8. CASE ~ (a <= u)
    <2>1. UNCHANGED ackVars
      BY <1>7, <1>8 DEF receive_ack
    <2>2. UNCHANGED <<allocator, window, remote_low_n_received, remote_messages_received>>
      BY <2>1 DEF ackVars
    <2>3. \A r \in Peer : SenderOK(r)' /\ Sent(r)' = Sent(r) /\ Acked(r)' = Acked(r)
      BY <1>4, <2>2, SenderFrame
    <2>. QED  BY <1>4, <1>5, <1>6, <2>2, <2>3
  <1>9. CASE a <= u
    <2>. DEFINE n == u - a
    <2>1. n \in 0 .. f /\ n \in 0 .. WindowSize /\ n \in Int /\ a + n = u
      <3>1. /\ Sent(p) \in Int /\ a \in Nat /\ f \in Int /\ f <= WindowSize /\ WindowSize \in Nat
            /\ f = Sent(p) - a
        BY <1>1 DEF f, a
      <3>2. u <= Sent(p)
        BY <1>1, <1>2, <3>1
      <3>. QED  BY <1>9, <3>1, <3>2
    <2>2. modulus_distance(rnd, rlr) = n
      <3>1. u - a \in 0 .. Modulus - 1 /\ u \in Int /\ a \in Int
        BY <1>1, <2>1
      <3>. QED  BY <1>3, <3>1, DistanceNear
    <2>. HIDE DEF n
    <2>3. /\ allocator' = [allocator EXCEPT ![p] = SubSeq(@, n + 1, Len(@))]
          /\ window' = [window EXCEPT ![p] = Cleared(@, rlr, n)]
          /\ remote_low_n_received' = [remote_low_n_received EXCEPT ![p] = rnd]
          /\ remote_messages_received' = [remote_messages_received EXCEPT ![p] = st]
      BY <1>7, <1>9, <2>2 DEF receive_ack, Popped, Status, rlr
    <2>4. /\ allocator'[p] \in Seq(Nat)
          /\ Len(allocator'[p]) = Len(allocator[p]) - n
          /\ \A i \in 1 .. Len(allocator'[p]) : allocator'[p][i] = u + i - 1
      <3>1. allocator'[p] = SubSeq(allocator[p], n + 1, Len(allocator[p]))
        BY <1>6, <2>3
      <3>2. n \in 0 .. Len(allocator[p]) /\ allocator[p] \in Seq(Nat) /\ a \in Int
        BY <1>1, <1>6, <2>1
      <3>3. \A i \in 1 .. Len(allocator[p]) : allocator[p][i] = a + i - 1
        BY <1>4 DEF SenderOK, a
      <3>. DEFINE t == SubSeq(allocator[p], n + 1, Len(allocator[p]))
      <3>4. /\ t \in Seq(Nat) /\ Len(t) = Len(allocator[p]) - n
            /\ \A i \in 1 .. Len(allocator[p]) - n : t[i] = (a + n) + i - 1
        BY <3>2, <3>3, CountingSuffix
      <3>. HIDE DEF t
      <3>5. allocator'[p] = t
        BY <3>1 DEF t
      <3>. QED  BY <2>1, <3>4, <3>5
    <2>5. window'[p] = [i \in SlotIndex |-> IF StepsTo(i, rlr) < n THEN NoPacket
                                                                  ELSE window[p][i]]
      BY <1>6, <2>3 DEF Cleared
    <2>6. /\ remote_low_n_received'[p] = rnd /\ rnd = Advance(rlr, n)
          /\ rnd \in SeqNumber /\ rlr \in Int
      <3>1. a \in Int /\ n \in Int /\ rlr = a % Modulus
        BY <1>1, <1>3, <2>1
      <3>2. /\ Advance(rlr, n) = (a + n) % Modulus /\ Advance(rlr, n) \in SeqNumber
            /\ rlr \in Int
        BY <3>1, NextNumber
      <3>. QED  BY <1>6, <2>1, <2>3, <3>2
    <2>7. Sent(p)' = Sent(p) /\ Acked(p)' = u
      <3>1. submitted[p] - Len(allocator[p]) = a
        BY DEF Acked, a
      <3>2. submitted[p] - (Len(allocator[p]) - n) = u
        <4>1. Len(allocator[p]) \in Int /\ submitted[p] \in Int /\ a \in Int
          BY <1>1
        <4>. QED  BY <2>1, <3>1, <4>1
      <3>. QED  BY <2>4, <3>2 DEF Sent, Acked
    <2>8. ASSUME NEW i \in SlotIndex
          PROVE  window'[p][i] = IF StepsTo(i, rnd) < Sent(p) - u
                                   THEN u + StepsTo(i, rnd) ELSE NoPacket
      <3>. DEFINE k == StepsTo(i, rlr)
                  l == StepsTo(i, Advance(rlr, n))
      <3>1. window[p][i] = IF k < f THEN a + k ELSE NoPacket
        BY <1>4 DEF SenderOK, rlr, a, f
      <3>2. window'[p][i] = IF k < n THEN NoPacket ELSE window[p][i]
        BY <2>5
      <3>3. f \in 0 .. WindowSize /\ n \in 0 .. f
        BY <1>1, <2>1
      <3>4. k \in Nat /\ l \in Nat
        BY <2>6, <3>3, ClearedSlots
      <3>5. l < f - n <=> ~ (k < n) /\ k < f
        BY <2>6, <3>3, ClearedSlots
      <3>6. ~ (k < n) => n + l = k
        BY <2>6, <3>3, ClearedSlots
      <3>7. Sent(p) - u = f - n /\ a \in Int
        BY <1>1, <2>1 DEF f, a
      <3>. HIDE DEF k, l
      <3>8. window'[p][i] = IF l < f - n THEN (a + n) + l ELSE NoPacket
        <4>1. CASE k < n
          BY <3>2, <3>5, <4>1
        <4>2. CASE ~ (k < n)
          <5>1. a + k = (a + n) + l
            BY <2>1, <3>4, <3>6, <3>7, <4>2
          <5>. QED  BY <3>1, <3>2, <3>5, <4>2, <5>1
        <4>. QED  BY <4>1, <4>2
      <3>. QED  BY <2>1, <2>6, <3>7, <3>8 DEF l
    <2>9. SenderOK(p)'
      <3>1. /\ local_low_n_sent'[p] = Sent(p) % Modulus
            /\ \A i \in 1 .. Len(queue'[p]) : queue'[p][i] = Sent(p) + i - 1
        BY <1>3, <1>4 DEF SenderOK
      <3>2. u >= 0 /\ Sent(p) - u \in 0 .. WindowSize
        <4>1. Sent(p) - u = f - n
          BY <1>1, <2>1 DEF f, a
        <4>2. f - n \in 0 .. WindowSize
          <5>1. f \in Nat /\ f <= WindowSize /\ WindowSize \in Nat
            BY <1>1
          <5>. QED  BY <2>1, <5>1
        <4>. QED  BY <4>1, <4>2
      <3>. QED  BY <2>4, <2>6, <2>7, <2>8, <3>1, <3>2 DEF SenderOK
    <2>10. ASSUME NEW r \in Peer, r # p
           PROVE  SenderOK(r)' /\ Sent(r)' = Sent(r) /\ Acked(r)' = Acked(r)
      BY <1>4, <1>6, <2>3, <2>10, SenderFrame
    <2>11. /\ allocator' \in [Peer -> Seq(Nat)]
           /\ remote_low_n_received' \in [Peer -> SeqNumber]
           /\ remote_messages_received' \in [Peer -> SUBSET SlotIndex]
      <3>1. SubSeq(allocator[p], n + 1, Len(allocator[p])) \in Seq(Nat)
        BY <1>6, <2>3, <2>4
      <3>2. allocator' \in [Peer -> Seq(Nat)]
        BY <1>6, <2>3, <3>1
      <3>. QED  BY <1>6, <2>3, <2>6, <3>2
    <2>12. window' \in [Peer -> [SlotIndex -> Nat \cup {NoPacket}]]
      <3>1. Cleared(window[p], rlr, n) \in [SlotIndex -> Nat \cup {NoPacket}]
        BY <1>6 DEF Cleared
      <3>. QED  BY <1>6, <2>3, <3>1
    <2>13. ASSUME NEW r \in Peer
           PROVE  Acked(r) <= Acked(r)' /\ Acked(r)' <= Received(Other(r))
      <3>1. CASE r = p
        BY <1>9, <2>7, <3>1 DEF a
      <3>2. CASE r # p
        BY <1>4, <2>10, <3>2
      <3>. QED  BY <3>1, <3>2
    <2>14. ASSUME NEW r \in Peer, NEW b \in remote_messages_received'[r]
           PROVE  Acked(r)' + b \in delivered[Other(r)]
      <3>1. CASE r = p
        BY <1>6, <2>3, <2>7, <2>14, <3>1
      <3>2. CASE r # p
        BY <1>5, <1>6, <2>3, <2>10, <2>14, <3>2
      <3>. QED  BY <3>1, <3>2
    <2>. QED  BY <2>7, <2>9, <2>10, <2>11, <2>12, <2>13, <2>14
  <1>. QED  BY <1>8, <1>9
-----------------------------------------------------------------------------
\* The steps that change nothing an end knows of its messages: the packets
\* they add must be good ones.
LEMMA NetOnly ==
  ASSUME IInv, UNCHANGED <<ackVars, receiveVars, sendVars>>,
         running' \in [Peer -> BOOLEAN],
         \A pkt \in net' : pkt \in net \/ (pkt \in Packet /\ PacketOK(pkt))
  PROVE  IInv'
  <1>0. UNCHANGED <<local_low_n_sent, local_low_n_received, local_messages_received,
                    remote_low_n_received, remote_messages_received, window, queue,
                    allocator, submitted, delivered, calls>>
    BY DEF ackVars, receiveVars, sendVars
  <1>1. net' \subseteq Packet
    BY DEF IInv, TypeOK
  <1>2. TypeOK'
    BY <1>0, <1>1 DEF IInv, TypeOK
  <1>3. \A r \in Peer : /\ Sent(r)' = Sent(r) /\ Acked(r)' = Acked(r)
                        /\ Received(r)' = Received(r)
    BY <1>0 DEF Sent, Acked, Received
  <1>4. ASSUME NEW r \in Peer PROVE SenderOK(r)' /\ ReceiverOK(r)' /\ LinkOK(r)'
    <2>1. SenderOK(r) /\ ReceiverOK(r) /\ LinkOK(r)
      BY DEF IInv, NumbersStandForCounts
    <2>2. SenderOK(r)'
      BY <1>0, <2>1, SenderFrame
    <2>3. ReceiverOK(r)'
      BY <1>0, <1>3, <2>1, ReceiverFrame
    <2>4. LinkOK(r)'
      BY <1>0, <1>3, <2>1, Ends DEF LinkOK
    <2>. QED  BY <2>2, <2>3, <2>4
  <1>5. ASSUME NEW pkt \in net' PROVE PacketOK(pkt)'
    <2>1. pkt \in Packet /\ PacketOK(pkt)
      BY <1>1 DEF IInv, NumbersStandForCounts
    <2>2. pkt.from \in Peer /\ Other(pkt.from) \in Peer
      BY <2>1, Ends DEF Packet
    <2>. QED  BY <1>0, <1>3, <2>1, <2>2 DEF PacketOK
  <1>6. SkippedWereDelivered' /\ AtMostOnce'
    BY <1>0, <1>3, Ends DEF IInv, SkippedWereDelivered, AtMostOnce
  <1>. QED  BY <1>2, <1>4, <1>5, <1>6 DEF IInv, NumbersStandForCounts

\* What an end sends of a message in its window, and in answer to a ping.
LEMMA GoodPackets ==
  ASSUME IInv, NEW p \in Peer
  PROVE  /\ AckPacket(p, local_low_n_received[p], local_messages_received[p], Received(p))
              \in Packet
         /\ PacketOK(AckPacket(p, local_low_n_received[p], local_messages_received[p],
                               Received(p)))
         /\ \A data \in Nat :
              data < Sent(p) /\ Sent(p) - data < Lifetime =>
                /\ ReliablePacket(p, data % Modulus, data) \in Packet
                /\ PacketOK(ReliablePacket(p, data % Modulus, data))
  <1>1. /\ local_low_n_received[p] \in SeqNumber
        /\ local_messages_received[p] \in SUBSET SlotIndex
        /\ local_low_n_received[p] = Received(p) % Modulus
        /\ Received(p) \in Nat
        /\ {Received(p) + b : b \in local_messages_received[p]} \subseteq delivered[p]
        /\ Sent(Other(p)) - Received(p) < Lifetime
        /\ Received(p) <= Received(p)
    BY HeaderOK
  <1>2. ASSUME NEW data \in Nat, data < Sent(p), Sent(p) - data < Lifetime
        PROVE  /\ ReliablePacket(p, data % Modulus, data) \in Packet
               /\ PacketOK(ReliablePacket(p, data % Modulus, data))
    <2>1. data % Modulus \in SeqNumber
      BY <1>2, AdvanceType
    <2>2. ReliablePacket(p, data % Modulus, data) \in Packet
      BY <1>1, <2>1 DEF ReliablePacket, Packet
    <2>3. PacketOK(ReliablePacket(p, data % Modulus, data))
      BY <1>1, <1>2 DEF ReliablePacket, PacketOK
    <2>. QED  BY <2>2, <2>3
  <1>3. AckPacket(p, local_low_n_received[p], local_messages_received[p], Received(p))
          \in Packet
    BY <1>1 DEF AckPacket, Packet
  <1>4. PacketOK(AckPacket(p, local_low_n_received[p], local_messages_received[p],
                           Received(p)))
    BY <1>1 DEF AckPacket, PacketOK
  <1>. QED  BY <1>2, <1>3, <1>4

LEMMA SendStep ==
  ASSUME IInv, NEW p \in Peer, send(p)
  PROVE  IInv'
  <1>1. /\ queue \in [Peer -> Seq(Nat)] /\ allocator \in [Peer -> Seq(Nat)]
        /\ submitted \in [Peer -> Nat]
    BY DEF IInv, TypeOK
  <1>2. /\ queue' = [queue EXCEPT ![p] = Append(@, submitted[p])]
        /\ allocator' = [allocator EXCEPT ![p] = Append(@, submitted[p])]
        /\ submitted' = [submitted EXCEPT ![p] = @ + 1]
        /\ UNCHANGED <<local_low_n_sent, local_low_n_received, local_messages_received,
                       remote_low_n_received, remote_messages_received, window, running,
                       delivered, calls, net>>
    BY DEF send, receiveVars
  <1>3. TypeOK'
    <2>1. /\ queue' \in [Peer -> Seq(Nat)] /\ allocator' \in [Peer -> Seq(Nat)]
          /\ submitted' \in [Peer -> Nat]
      BY <1>1, <1>2
    <2>. QED  BY <1>2, <2>1 DEF IInv, TypeOK
  <1>4. ASSUME NEW r \in Peer
        PROVE  /\ SenderOK(r) /\ ReceiverOK(r) /\ LinkOK(r)
               /\ Sent(r) \in Int /\ Acked(r) \in Nat
    BY Counts DEF IInv, NumbersStandForCounts
  <1>5. /\ Sent(p)' = Sent(p) /\ Acked(p)' = Acked(p)
        /\ \A i \in 1 .. Len(queue'[p]) : queue'[p][i] = Sent(p) + i - 1
        /\ \A i \in 1 .. Len(allocator'[p]) : allocator'[p][i] = Acked(p) + i - 1
    <2>1. /\ queue[p] \in Seq(Nat) /\ queue'[p] = Append(queue[p], submitted[p])
          /\ allocator[p] \in Seq(Nat)
          /\ allocator'[p] = Append(allocator[p], submitted[p])
          /\ submitted[p] \in Nat /\ submitted'[p] = submitted[p] + 1
      BY <1>1, <1>2
    <2>2. /\ \A i \in 1 .. Len(queue[p]) : queue[p][i] = Sent(p) + i - 1
          /\ \A i \in 1 .. Len(allocator[p]) : allocator[p][i] = Acked(p) + i - 1
      BY <1>4 DEF SenderOK
    <2>3. submitted[p] = Sent(p) + Len(queue[p]) /\ submitted[p] = Acked(p) + Len(allocator[p])
      BY <2>1 DEF Sent, Acked
    <2>4. Sent(p) \in Int /\ Acked(p) \in Int
      BY <1>4
    <2>. DEFINE m == submitted[p]
                qs == queue[p]
                bs == allocator[p]
                qa == Append(qs, m)
                ba == Append(bs, m)
    <2>. HIDE DEF m, qs, bs
    <2>5. /\ Len(qa) = Len(qs) + 1
          /\ \A i \in 1 .. Len(qs) + 1 : qa[i] = Sent(p) + i - 1
      BY <2>1, <2>2, <2>3, <2>4, CountingAppend DEF m, qs
    <2>6. /\ Len(ba) = Len(bs) + 1
          /\ \A i \in 1 .. Len(bs) + 1 : ba[i] = Acked(p) + i - 1
      BY <2>1, <2>2, <2>3, <2>4, CountingAppend DEF m, bs
    <2>7. queue'[p] = qa /\ allocator'[p] = ba /\ Len(qs) \in Nat /\ Len(bs) \in Nat
      BY <2>1 DEF m, qs, bs
    <2>. HIDE DEF qa, ba
    <2>8. Sent(p)' = Sent(p) /\ Acked(p)' = Acked(p)
      <3>1. m \in Nat /\ submitted'[p] = m + 1
        BY <2>1 DEF m
      <3>2. /\ submitted'[p] - Len(queue'[p]) = m - Len(qs)
            /\ submitted'[p] - Len(allocator'[p]) = m - Len(bs)
        <4>1. Len(queue'[p]) = Len(qs) + 1 /\ Len(allocator'[p]) = Len(bs) + 1
          BY <2>5, <2>6, <2>7
        <4>2. m + 1 - (Len(qs) + 1) = m - Len(qs) /\ m + 1 - (Len(bs) + 1) = m - Len(bs)
          BY <2>7, <3>1
        <4>. QED  BY <3>1, <4>1, <4>2
      <3>3. Sent(p) = m - Len(qs) /\ Acked(p) = m - Len(bs)
        BY DEF Sent, Acked, m, qs, bs
      <3>4. /\ Sent(p)' = submitted'[p] - Len(queue'[p])
            /\ Acked(p)' = submitted'[p] - Len(allocator'[p])
        BY DEF Sent, Acked
      <3>. QED  BY <3>2, <3>3, <3>4
    <2>. QED  BY <2>5, <2>6, <2>7, <2>8
  <1>6. SenderOK(p)'
    BY <1>2, <1>4, <1>5 DEF SenderOK
  <1>7. ASSUME NEW r \in Peer, r # p
        PROVE  SenderOK(r)' /\ Sent(r)' = Sent(r) /\ Acked(r)' = Acked(r)
    BY <1>1, <1>2, <1>4, <1>7, SenderFrame
  <1>8. \A r \in Peer : SenderOK(r)' /\ Sent(r)' = Sent(r) /\ Acked(r)' = Acked(r)
    BY <1>5, <1>6, <1>7
  <1>9. \A r \in Peer : submitted'[r] \in Nat /\ submitted[r] <= submitted'[r]
    BY <1>1, <1>2
  <1>10. \A r \in Peer : Received(r)' = Received(r)
    BY <1>2, <1>9, Ends, ReceivedFrame
  <1>11. \A r \in Peer : ReceiverOK(r)' /\ LinkOK(r)'
    <2>1. \A r \in Peer : ReceiverOK(r)'
      BY <1>2, <1>4, <1>10, ReceiverFrame
    <2>2. \A r \in Peer : LinkOK(r)'
      BY <1>2, <1>4, <1>8, <1>10, Ends DEF LinkOK
    <2>. QED  BY <2>1, <2>2
  <1>12. ASSUME NEW pkt \in net' PROVE PacketOK(pkt)'
    <2>1. pkt \in Packet /\ PacketOK(pkt)
      BY <1>2 DEF IInv, TypeOK, NumbersStandForCounts
    <2>2. pkt.from \in Peer /\ Other(pkt.from) \in Peer
      BY <2>1, Ends DEF Packet
    <2>. QED  BY <1>2, <1>8, <1>10, <2>1, <2>2 DEF PacketOK
  <1>13. SkippedWereDelivered' /\ AtMostOnce'
    BY <1>2, <1>8, Ends DEF IInv, SkippedWereDelivered, AtMostOnce
  <1>. QED  BY <1>3, <1>8, <1>11, <1>12, <1>13 DEF IInv, NumbersStandForCounts

LEMMA ResendStep ==
  ASSUME IInv, NEW p \in Peer, update_Resend(p)
  PROVE  IInv'
  <1>. DEFINE a == Acked(p)
  <1>1. /\ a \in Nat /\ Sent(p) \in Int /\ InFlight(p) = Sent(p) - a
        /\ InFlight(p) \in 0 .. WindowSize /\ WindowSize \in Nat
    BY Counts, Parameters
  <1>2. WindowSize < Lifetime /\ Lifetime \in Nat
    BY ReliableAssumption
  <1>3. SenderOK(p)
    BY DEF IInv, NumbersStandForCounts
  <1>4. ASSUME NEW j \in 0 .. InFlight(p) - 1
        PROVE  resent(p, j) \in Packet /\ PacketOK(resent(p, j))
    <2>. DEFINE rlr == remote_low_n_received[p]
                i == Slot(Advance(rlr, j))
    <2>1. j \in 0 .. WindowSize - 1 /\ j \in Int /\ a \in Int /\ rlr = a % Modulus
      BY <1>1, <1>3 DEF SenderOK
    <2>2. Advance(rlr, j) = (a + j) % Modulus /\ rlr \in Int
      BY <2>1, NextNumber
    <2>3. i \in SlotIndex /\ StepsTo(i, rlr) = j
      BY <2>1, <2>2, StepsToSlot
    <2>4. window[p][i] = a + j
      BY <1>1, <1>3, <2>3 DEF SenderOK
    <2>. HIDE DEF rlr, i, a
    <2>5. resent(p, j) = ReliablePacket(p, (a + j) % Modulus, a + j)
      BY <2>2, <2>4 DEF resent, rlr, i
    <2>6. a + j \in Nat /\ a + j < Sent(p) /\ Sent(p) - (a + j) < Lifetime
      <3>1. Sent(p) \in Int /\ a \in Nat /\ j \in Nat /\ WindowSize \in Int
        BY <1>1, <2>1
      <3>2. j < Sent(p) - a /\ Sent(p) - a <= WindowSize
        BY <1>1, <2>1
      <3>. QED  BY <1>2, <3>1, <3>2
    <2>. QED  BY <2>5, <2>6, GoodPackets
  <1>5. /\ net' = net \cup {resent(p, j) : j \in NotReceived(p)}
        /\ UNCHANGED <<ackVars, receiveVars, sendVars, running>>
        /\ NotReceived(p) \subseteq 0 .. InFlight(p) - 1
    BY DEF update_Resend, NotReceived
  <1>6. running' \in [Peer -> BOOLEAN]
    BY <1>5 DEF IInv, TypeOK
  <1>7. \A pkt \in net' : pkt \in net \/ (pkt \in Packet /\ PacketOK(pkt))
    BY <1>4, <1>5
  <1>. QED  BY <1>5, <1>6, <1>7, NetOnly

\* ping, ping_response, a lost packet and a crash.
LEMMA PingStep ==
  ASSUME IInv, NEW p \in Peer, Ping(p) \/ \E pkt \in net : receive_Ping(p, pkt)
  PROVE  IInv'
  <1>. DEFINE ack == AckPacket(p, local_low_n_received[p], local_messages_received[p],
                               Received(p))
  <1>1. ack \in Packet /\ PacketOK(ack)
    BY GoodPackets
  <1>2. PingPacket(p) \in Packet /\ PacketOK(PingPacket(p))
    BY DEF PingPacket, Packet, PacketOK
  <1>3. /\ UNCHANGED <<ackVars, receiveVars, sendVars, running>>
        /\ net' \subseteq net \cup {PingPacket(p), ack}
    BY DEF Ping, receive_Ping
  <1>4. running' \in [Peer -> BOOLEAN]
    BY <1>3 DEF IInv, TypeOK
  <1>5. \A pkt \in net' : pkt \in net \/ (pkt \in Packet /\ PacketOK(pkt))
    BY <1>1, <1>2, <1>3
  <1>. QED  BY <1>3, <1>4, <1>5, NetOnly

LEMMA LoseStep ==
  ASSUME IInv, NEW pkt \in net, Lose(pkt)
  PROVE  IInv'
  <1>1. UNCHANGED <<ackVars, receiveVars, sendVars, running>> /\ net' \subseteq net
    BY DEF Lose
  <1>2. running' \in [Peer -> BOOLEAN]
    BY <1>1 DEF IInv, TypeOK
  <1>. QED  BY <1>1, <1>2, NetOnly

LEMMA CrashStep ==
  ASSUME IInv, NEW p \in Peer, send_NoRoom(p)
  PROVE  IInv'
  <1>1. /\ UNCHANGED <<ackVars, receiveVars, sendVars, net>>
        /\ running' = [running EXCEPT ![p] = FALSE]
    BY DEF send_NoRoom
  <1>2. running' \in [Peer -> BOOLEAN]
    BY <1>1 DEF IInv, TypeOK
  <1>. QED  BY <1>1, <1>2, NetOnly
-----------------------------------------------------------------------------
\* Draining the queue fills the free slots of the window in order; packets
\* that are too old by now have left the network.
LEMMA DrainStep ==
  ASSUME IInv, NEW p \in Peer, update_Drain(p)
  PROVE  IInv'
  <1>. DEFINE n == Drained(p)
              lls == local_low_n_sent[p]
              rlr == remote_low_n_received[p]
              a == Acked(p)
              f == Sent(p) - Acked(p)
              fresh == {ReliablePacket(p, Advance(lls, j), queue[p][j + 1]) : j \in 0 .. n - 1}
              sent == [q \in Peer |-> IF q = p THEN Sent(p) + n ELSE Sent(q)]
  <1>1. /\ window' = [window EXCEPT ![p] =
                        [i \in SlotIndex |-> IF StepsTo(i, lls) < n
                                               THEN queue[p][StepsTo(i, lls) + 1]
                                               ELSE @[i]]]
        /\ queue' = [queue EXCEPT ![p] = SubSeq(@, n + 1, Len(@))]
        /\ local_low_n_sent' = [local_low_n_sent EXCEPT ![p] = Advance(@, n)]
        /\ net' = {pkt \in net \cup fresh : Fresh(pkt, sent)}
        /\ UNCHANGED <<local_low_n_received, local_messages_received,
                       remote_low_n_received, remote_messages_received, allocator,
                       running, submitted, delivered, calls>>
        /\ n > 0
    BY DEF update_Drain, receiveVars
  <1>2. /\ queue \in [Peer -> Seq(Nat)] /\ allocator \in [Peer -> Seq(Nat)]
        /\ submitted \in [Peer -> Nat] /\ local_low_n_sent \in [Peer -> SeqNumber]
        /\ window \in [Peer -> [SlotIndex -> Nat \cup {NoPacket}]]
        /\ rlr \in SeqNumber
    BY DEF IInv, TypeOK
  <1>3. /\ Sent(p) \in Int /\ a \in Nat /\ f \in 0 .. WindowSize
        /\ Len(queue[p]) \in Nat
        /\ Room(p) = WindowSize - f /\ WindowSize \in Nat /\ Sent(p) = a + f
    BY Counts, Parameters
  <1>4. \A r \in Peer : SenderOK(r) /\ ReceiverOK(r) /\ LinkOK(r)
    BY DEF IInv, NumbersStandForCounts
  <1>5. lls = Sent(p) % Modulus /\ rlr = a % Modulus
    BY <1>4 DEF SenderOK
  <1>6. n \in 0 .. WindowSize - f /\ n <= Len(queue[p]) /\ n \in Nat
    BY <1>3 DEF Drained
  <1>. HIDE DEF n, lls, rlr, a, f, fresh, sent
  <1>7. \A i \in 1 .. Len(queue[p]) : queue[p][i] = Sent(p) + i - 1
    BY <1>4 DEF SenderOK
  <1>8. /\ queue'[p] \in Seq(Nat) /\ Len(queue'[p]) = Len(queue[p]) - n
        /\ \A i \in 1 .. Len(queue'[p]) : queue'[p][i] = (Sent(p) + n) + i - 1
    <2>1. n \in 0 .. Len(queue[p]) /\ queue[p] \in Seq(Nat) /\ Sent(p) \in Int
      BY <1>2, <1>3, <1>6
    <2>2. queue'[p] = SubSeq(queue[p], n + 1, Len(queue[p]))
      BY <1>1, <1>2
    <2>. DEFINE t == SubSeq(queue[p], n + 1, Len(queue[p]))
    <2>3. /\ t \in Seq(Nat) /\ Len(t) = Len(queue[p]) - n
          /\ \A i \in 1 .. Len(queue[p]) - n : t[i] = (Sent(p) + n) + i - 1
      BY <1>7, <2>1, CountingSuffix
    <2>. HIDE DEF t
    <2>4. queue'[p] = t
      BY <2>2 DEF t
    <2>. QED  BY <2>3, <2>4
  <1>9. Sent(p)' = Sent(p) + n /\ Acked(p)' = a
    <2>1. submitted'[p] - Len(queue'[p]) = submitted[p] - (Len(queue[p]) - n)
      BY <1>1, <1>8
    <2>2. submitted[p] - Len(queue[p]) = Sent(p) /\ submitted[p] \in Nat
      BY <1>2 DEF Sent
    <2>3. submitted[p] - (Len(queue[p]) - n) = Sent(p) + n
      BY <1>3, <1>6, <2>2
    <2>4. submitted'[p] - Len(allocator'[p]) = a
      BY <1>1 DEF Acked, a
    <2>. QED  BY <2>1, <2>3, <2>4 DEF Sent, Acked
  <1>10. /\ local_low_n_sent'[p] = (Sent(p) + n) % Modulus
         /\ local_low_n_sent'[p] \in SeqNumber
    <2>1. n \in Int
      BY <1>6
    <2>2. Advance(lls, n) = (Sent(p) + n) % Modulus /\ Advance(lls, n) \in SeqNumber
      BY <1>3, <1>5, <2>1, NextNumber
    <2>. QED  BY <1>1, <1>2, <2>2 DEF lls
  <1>11. rlr \in Int /\ lls = Advance(rlr, f) /\ lls \in Int
    <2>1. f \in Int /\ a \in Int /\ a + f = Sent(p)
      BY <1>3
    <2>2. Advance(rlr, f) = (a + f) % Modulus /\ rlr \in Int
      BY <1>5, <2>1, NextNumber
    <2>3. lls \in Int
      BY <1>3, <1>5, <2>1, NextNumber
    <2>. QED  BY <1>5, <2>1, <2>2, <2>3
  <1>12. ASSUME NEW i \in SlotIndex
         PROVE  window'[p][i] = IF StepsTo(i, rlr) < f + n
                                  THEN a + StepsTo(i, rlr) ELSE NoPacket
    <2>. DEFINE k == StepsTo(i, rlr)
                l == StepsTo(i, lls)
    <2>1. window[p][i] = IF k < f THEN a + k ELSE NoPacket
      BY <1>4 DEF SenderOK, a, f, rlr
    <2>2. window'[p][i] = IF l < n THEN queue[p][l + 1] ELSE window[p][i]
      BY <1>1, <1>2 DEF lls
    <2>3. /\ k \in Nat /\ l \in Nat
          /\ l < n <=> ~ (k < f) /\ k < f + n
          /\ ~ (k < f) => f + l = k
      <3>1. rlr \in Int /\ lls = Advance(rlr, f) /\ f \in 0 .. WindowSize /\ n \in 0 .. WindowSize - f
        BY <1>3, <1>6, <1>11
      <3>. QED  BY <3>1, FilledSlots
    <2>. HIDE DEF k, l
    <2>4. l < n => queue[p][l + 1] = a + f + l
      <3>1. ASSUME l < n PROVE l + 1 \in 1 .. Len(queue[p]) /\ Sent(p) + (l + 1) - 1 = a + f + l
        BY <1>3, <1>6, <2>3, <3>1
      <3>. QED  BY <1>7, <3>1
    <2>5. window'[p][i] = IF k < f + n THEN a + k ELSE NoPacket
      BY <1>3, <1>6, <2>1, <2>2, <2>3, <2>4
    <2>. QED  BY <2>5 DEF k
  <1>13. SenderOK(p)'
    <2>1. \A i \in 1 .. Len(allocator'[p]) : allocator'[p][i] = a + i - 1
      BY <1>1, <1>4 DEF SenderOK, a
    <2>2. (Sent(p) + n) - a = f + n /\ f + n \in 0 .. WindowSize /\ a >= 0
      BY <1>3, <1>6
    <2>3. remote_low_n_received'[p] = rlr
      BY <1>1 DEF rlr
    <2>. QED  BY <1>5, <1>8, <1>9, <1>10, <1>12, <2>1, <2>2, <2>3 DEF SenderOK
  <1>14. ASSUME NEW r \in Peer, r # p
         PROVE  SenderOK(r)' /\ Sent(r)' = Sent(r) /\ Acked(r)' = Acked(r)
    BY <1>1, <1>2, <1>4, <1>14, SenderFrame
  <1>15. \A r \in Peer : /\ Sent(r) <= Sent(r)' /\ Sent(r)' = sent[r]
                         /\ Sent(r) \in Int /\ Sent(r)' \in Int
                         /\ Acked(r)' = Acked(r) /\ Received(r)' = Received(r)
    <2>1. \A r \in Peer : Sent(r) \in Int
      BY Counts
    <2>2. Sent(p) <= Sent(p)' /\ Sent(p)' \in Int
      BY <1>3, <1>6, <1>9
    <2>3. \A r \in Peer : Sent(r) <= Sent(r)' /\ Sent(r)' = sent[r] /\ Sent(r)' \in Int
      BY <1>9, <1>14, <2>1, <2>2 DEF sent
    <2>4. \A r \in Peer : Acked(r)' = Acked(r)
      BY <1>9, <1>14 DEF a
    <2>5. \A r \in Peer : Received(r)' = Received(r)
      BY <1>1 DEF Received
    <2>. QED  BY <2>1, <2>3, <2>4, <2>5
  <1>16. ASSUME NEW r \in Peer PROVE ReceiverOK(r)' /\ LinkOK(r)'
    <2>1. ReceiverOK(r)'
      BY <1>1, <1>4, <1>15, ReceiverFrame
    <2>2. /\ Acked(r) <= Received(Other(r)) /\ delivered[Other(r)] \subseteq 0 .. Sent(r) - 1
          /\ Other(r) \in Peer
      BY <1>4, Ends DEF LinkOK
    <2>3. delivered[Other(r)] \subseteq 0 .. Sent(r)' - 1
      BY <1>15, <2>2
    <2>. QED  BY <1>1, <1>15, <2>1, <2>2, <2>3 DEF LinkOK
  <1>17. ASSUME NEW pkt \in fresh
         PROVE  /\ pkt \in Packet
                /\ Fresh(pkt, sent) => PacketOK(pkt)'
    <2>1. PICK j \in 0 .. n - 1 :
            pkt = ReliablePacket(p, Advance(lls, j), queue[p][j + 1])
      BY DEF fresh
    <2>2. j \in Int /\ j < n /\ j >= 0 /\ j + 1 \in 1 .. Len(queue[p])
      BY <1>3, <1>6
    <2>3. queue[p][j + 1] = Sent(p) + j /\ queue[p][j + 1] \in Nat
      <3>1. queue[p][j + 1] = Sent(p) + (j + 1) - 1
        BY <1>7, <2>2
      <3>2. Sent(p) + j \in Nat
        BY <1>3, <2>2
      <3>. QED  BY <1>3, <2>2, <3>1, <3>2
    <2>4. /\ Advance(lls, j) = (Sent(p) + j) % Modulus
          /\ Advance(lls, j) \in SeqNumber
      BY <1>3, <1>5, <2>2, NextNumber
    <2>5. /\ local_low_n_received[p] \in SeqNumber
          /\ local_messages_received[p] \in SUBSET SlotIndex
          /\ local_low_n_received[p] = Received(p) % Modulus
          /\ Received(p) \in Nat /\ Received(p) <= Received(p)
          /\ {Received(p) + b : b \in local_messages_received[p]} \subseteq delivered[p]
      BY HeaderOK
    <2>6. /\ pkt.kind = "reliable" /\ pkt.from = p
          /\ pkt.id = (Sent(p) + j) % Modulus /\ pkt.data = Sent(p) + j
          /\ pkt.rnd = local_low_n_received[p] /\ pkt.upto = Received(p)
          /\ pkt.status = local_messages_received[p]
      BY <2>1, <2>3, <2>4 DEF ReliablePacket
    <2>7. pkt \in Packet
      BY <2>1, <2>3, <2>4, <2>5 DEF ReliablePacket, Packet
    <2>8. SUFFICES ASSUME Fresh(pkt, sent) PROVE PacketOK(pkt)'
      BY <2>7
    <2>9. Other(p) \in Peer
      BY Ends
    <2>10. sent[p] - pkt.data < Lifetime /\ sent[Other(p)] - pkt.upto < Lifetime
      BY <2>6, <2>8 DEF Fresh
    <2>11. Sent(p) + j < Sent(p) + n
      BY <1>3, <1>6, <2>2
    <2>12. /\ pkt.id = pkt.data % Modulus /\ pkt.data < Sent(p)'
           /\ Sent(p)' - pkt.data < Lifetime
      BY <1>9, <1>15, <2>6, <2>10, <2>11
    <2>13. /\ pkt.rnd = pkt.upto % Modulus
           /\ pkt.upto <= Received(p)'
           /\ {pkt.upto + b : b \in pkt.status} \subseteq delivered'[p]
           /\ Sent(Other(p))' - pkt.upto < Lifetime
      BY <1>1, <1>15, <2>5, <2>6, <2>9, <2>10
    <2>. QED  BY <2>6, <2>12, <2>13 DEF PacketOK
  <1>18. ASSUME NEW pkt \in net, Fresh(pkt, sent)
         PROVE  PacketOK(pkt)'
    <2>1. pkt \in Packet /\ PacketOK(pkt)
      BY DEF IInv, TypeOK, NumbersStandForCounts
    <2>2. pkt.from \in Peer /\ Other(pkt.from) \in Peer
      BY <2>1, Ends DEF Packet
    <2>3. /\ Sent(pkt.from)' = sent[pkt.from]
          /\ Sent(Other(pkt.from))' = sent[Other(pkt.from)]
          /\ Received(pkt.from)' = Received(pkt.from)
      BY <1>15, <2>2
    <2>4. pkt.kind = "reliable" => pkt.data < Sent(pkt.from)'
      <3>1. pkt.kind = "reliable" => pkt.data \in Nat /\ pkt.data < Sent(pkt.from)
        BY <2>1 DEF Packet, PacketOK
      <3>. QED  BY <1>15, <2>2, <3>1
    <2>. QED  BY <1>1, <1>18, <2>1, <2>3, <2>4 DEF PacketOK, Fresh
  <1>19. net' \subseteq Packet /\ \A pkt \in net' : PacketOK(pkt)'
    <2>1. net \subseteq Packet
      BY DEF IInv, TypeOK
    <2>. QED  BY <1>1, <1>17, <1>18, <2>1
  <1>20. TypeOK'
    <2>1. window' \in [Peer -> [SlotIndex -> Nat \cup {NoPacket}]]
      <3>1. ASSUME NEW i \in SlotIndex
            PROVE  (IF StepsTo(i, lls) < n THEN queue[p][StepsTo(i, lls) + 1]
                      ELSE window[p][i]) \in Nat \cup {NoPacket}
        <4>1. i \in Int
          BY <1>3 DEF SlotIndex
        <4>2. StepsTo(i, lls) \in Nat
          BY <1>11, <4>1, StepsToType
        <4>3. StepsTo(i, lls) < n => queue[p][StepsTo(i, lls) + 1] \in Nat
          BY <1>2, <1>3, <1>6, <4>2
        <4>. QED  BY <1>2, <4>3
      <3>. QED  BY <1>1, <1>2, <3>1
    <2>2. queue' \in [Peer -> Seq(Nat)] /\ local_low_n_sent' \in [Peer -> SeqNumber]
      <3>1. /\ DOMAIN queue' = Peer /\ queue' = [r \in Peer |-> queue'[r]]
            /\ \A r \in Peer : r # p => queue'[r] = queue[r]
        BY <1>1, <1>2
      <3>2. /\ local_low_n_sent' = [r \in Peer |-> local_low_n_sent'[r]]
            /\ \A r \in Peer : r # p => local_low_n_sent'[r] = local_low_n_sent[r]
        BY <1>1, <1>2
      <3>3. \A r \in Peer : queue'[r] \in Seq(Nat)
        BY <1>2, <1>8, <3>1
      <3>4. \A r \in Peer : local_low_n_sent'[r] \in SeqNumber
        BY <1>2, <1>10, <3>2
      <3>. QED  BY <3>1, <3>2, <3>3, <3>4
    <2>. QED  BY <1>1, <1>19, <2>1, <2>2 DEF IInv, TypeOK
  <1>21. SkippedWereDelivered' /\ AtMostOnce'
    <2>1. SkippedWereDelivered'
      BY <1>1, <1>15 DEF IInv, SkippedWereDelivered
    <2>2. ASSUME NEW r \in Peer PROVE delivered[r] \subseteq 0 .. Sent(Other(r))' - 1
      <3>1. delivered[r] \subseteq 0 .. Sent(Other(r)) - 1 /\ Other(r) \in Peer
        BY ReceiverCounts, Ends
      <3>. QED  BY <1>15, <3>1
    <2>3. AtMostOnce'
      BY <1>1, <2>2 DEF IInv, AtMostOnce
    <2>. QED  BY <2>1, <2>3
  <1>. QED
    BY <1>13, <1>14, <1>16, <1>19, <1>20, <1>21 DEF IInv, NumbersStandForCounts
-----------------------------------------------------------------------------
\* What receive_message takes for new is new: a packet so late that its number
\* is in the receiver's window again does not exist.
LEMMA NewMessage ==
  ASSUME IInv, PacketsExpireInTime, NEW p \in Peer, NEW pkt \in net,
         pkt.kind = "reliable", pkt.from = Other(p),
         IsNew(p, modulus_distance(pkt.id, local_low_n_received[p]))
  PROVE  /\ modulus_distance(pkt.id, local_low_n_received[p]) = pkt.data - Received(p)
         /\ pkt.data - Received(p) \in SlotIndex
         /\ pkt.data \notin delivered[p]
         /\ pkt.data \in Nat /\ pkt.data < Sent(Other(p))
  <1>. DEFINE d == pkt.data
              R == Received(p)
              s == Sent(Other(p))
              b == modulus_distance(pkt.id, local_low_n_received[p])
  <1>1. /\ d \in Nat /\ pkt.id = d % Modulus /\ d < s /\ s - d < Lifetime
    BY DEF IInv, TypeOK, NumbersStandForCounts, Packet, PacketOK
  <1>2. /\ R \in Nat /\ R \notin delivered[p] /\ Acked(Other(p)) <= R /\ R <= s
        /\ s \in Int /\ s - Acked(Other(p)) \in 0 .. WindowSize /\ Acked(Other(p)) \in Nat
    BY Ends, ReceiverCounts, Counts
  <1>3. /\ local_low_n_received[p] = R % Modulus
        /\ local_messages_received[p] = {m - R : m \in {m \in delivered[p] : m > R}}
    BY DEF IInv, NumbersStandForCounts, ReceiverOK
  <1>4. /\ WindowSize \in Nat /\ Modulus \in Nat \ {0} /\ WindowSize < Modulus
        /\ Lifetime \in Nat /\ Lifetime <= Modulus - WindowSize + 1
    BY Parameters, ReliableAssumption DEF PacketsExpireInTime
  <1>5. b < WindowSize /\ b \notin local_messages_received[p]
    BY DEF IsNew
  <1>6. b = (d - R) % Modulus
    <2>1. d \in Int /\ R \in Int
      BY <1>1, <1>2
    <2>2. b = modulus_distance(d % Modulus, R % Modulus)
      BY <1>1, <1>3
    <2>. HIDE DEF d, R, b
    <2>. QED  BY <2>1, <2>2, DistanceCount
  <1>. HIDE DEF d, R, s, b
  <1>7. d - R \in Int /\ d - R < WindowSize /\ - (Modulus - WindowSize) <= d - R
    BY <1>1, <1>2, <1>4
  <1>8. d - R >= 0
    <2>1. SUFFICES ASSUME d - R < 0 PROVE FALSE
      BY <1>7
    <2>2. d - R + Modulus \in 0 .. Modulus - 1 /\ d - R + Modulus >= WindowSize
      BY <1>4, <1>7, <2>1
    <2>3. d - R = Modulus * (-1) + (d - R + Modulus)
      BY <1>4, <1>7
    <2>4. (d - R) % Modulus = d - R + Modulus
      BY <1>4, <1>7, <2>2, <2>3, Remainder
    <2>. QED  BY <1>4, <1>5, <1>6, <1>7, <2>2, <2>4
  <1>9. b = d - R /\ d - R \in 0 .. WindowSize - 1
    <2>1. d - R \in 0 .. Modulus - 1
      BY <1>4, <1>7, <1>8
    <2>2. (d - R) % Modulus = d - R
      BY <1>4, <2>1, SmallMod
    <2>. QED  BY <1>4, <1>6, <1>7, <1>8, <2>2
  <1>10. d \notin delivered[p]
    <2>1. SUFFICES ASSUME d \in delivered[p] PROVE FALSE
      OBVIOUS
    <2>2. d # R
      BY <1>2, <2>1
    <2>3. d > R
      BY <1>1, <1>2, <1>8, <2>2
    <2>4. d - R \in local_messages_received[p]
      BY <1>3, <2>1, <2>3
    <2>. QED  BY <1>5, <1>9, <2>4
  <1>. QED  BY <1>1, <1>9, <1>10 DEF SlotIndex, d, R, s, b

\* The status bits of the messages of D behind number R, and the bits that are
\* left of bits when the first k are shifted out.
BitsBehind(D, R) == {j - R : j \in {j \in D : j > R}}
ShiftedOut(bits, k) == {i - k : i \in {i \in bits : i >= k}}

\* With message m come, the run of bits from the first number on takes the
\* window to the next number that is missing, and the bits behind the run are
\* those of the messages behind that one.
Slides(R, D, bits, m) ==
  LET all == bits \cup {m - R}
      k == Run(all)
  IN  /\ k \in Nat
      /\ R + k \notin D \cup {m} /\ 0 .. (R + k) - 1 \subseteq D \cup {m}
      /\ ShiftedOut(all, k) = BitsBehind(D \cup {m}, R + k)
      /\ ShiftedOut(all, k) \in SUBSET SlotIndex

\* The while loop of receive_message.
LEMMA Slide ==
  ASSUME NEW R \in Nat, NEW D \in SUBSET Nat, R \notin D, 0 .. R - 1 \subseteq D,
         NEW bits \in SUBSET SlotIndex, bits = BitsBehind(D, R),
         NEW m \in Nat, m - R \in SlotIndex
  PROVE  Slides(R, D, bits, m)
  <1>. DEFINE all == bits \cup {m - R}
              k == Run(all)
              later == ShiftedOut(all, k)
  <1>0. all = bits \cup {m - R} /\ k = Run(all) /\ later = ShiftedOut(all, k)
    OBVIOUS
  <1>. HIDE DEF k, later
  <1>1. WindowSize \in Nat \ {0} /\ SlotIndex = 0 .. WindowSize - 1
    BY Parameters DEF SlotIndex
  <1>2. all \subseteq 0 .. WindowSize - 1
    BY <1>1
  <1>3. k \in 0 .. WindowSize /\ k \notin all /\ 0 .. k - 1 \subseteq all
    BY <1>1, <1>2, FirstMissingIs DEF Run, k
  <1>. HIDE DEF all
  <1>4. ASSUME NEW j \in Nat, j >= R
        PROVE  j \in D \cup {m} <=> j - R \in all
    <2>1. j \in D => j - R \in all
      <3>1. j \in D => j = R \/ j > R
        BY <1>4
      <3>. QED  BY <1>0, <3>1 DEF BitsBehind
    <2>2. j = m => j - R \in all
      BY <1>0
    <2>3. j - R \in bits => j \in D
      <3>1. SUFFICES ASSUME NEW i \in D, i > R, j - R = i - R PROVE j \in D
        BY DEF BitsBehind
      <3>2. i = j
        BY <3>1
      <3>. QED  BY <3>2
    <2>4. j - R = m - R => j = m
      OBVIOUS
    <2>. QED  BY <1>0, <2>1, <2>2, <2>3, <2>4
  <1>5. k \in Nat /\ R + k \in Nat /\ R + k >= R
    BY <1>1, <1>3
  <1>6. R + k \notin D \cup {m}
    <2>1. (R + k) - R = k
      BY <1>5
    <2>. QED  BY <1>3, <1>4, <1>5, <2>1
  <1>7. ASSUME NEW j \in 0 .. (R + k) - 1 PROVE j \in D \cup {m}
    <2>1. CASE j < R
      <3>1. j \in 0 .. R - 1
        BY <1>5, <2>1
      <3>. QED  BY <3>1
    <2>2. CASE j >= R
      <3>1. j - R \in 0 .. k - 1 /\ j \in Nat
        BY <1>5, <2>2
      <3>. QED  BY <1>3, <1>4, <2>2, <3>1
    <2>. QED  BY <1>5, <2>1, <2>2
  <1>8. ASSUME NEW x \in later
        PROVE  x \in BitsBehind(D \cup {m}, R + k) /\ x \in SlotIndex
    <2>1. PICK i \in all : i >= k /\ x = i - k
      BY <1>0 DEF ShiftedOut
    <2>2. i \in Nat /\ i # k /\ i <= WindowSize - 1
      <3>1. i \in 0 .. WindowSize - 1
        BY <1>2
      <3>2. i # k
        BY <1>3
      <3>. QED  BY <1>1, <3>1, <3>2
    <2>3. R + i \in Nat /\ R + i >= R /\ (R + i) - R = i /\ R + i > R + k
          /\ (R + i) - (R + k) = x
      BY <1>5, <2>1, <2>2
    <2>4. R + i \in D \cup {m}
      BY <1>4, <2>3
    <2>5. x \in SlotIndex
      BY <1>1, <1>5, <2>1, <2>2
    <2>. QED  BY <2>3, <2>4, <2>5 DEF BitsBehind
  <1>9. ASSUME NEW j \in D \cup {m}, j > R + k PROVE j - (R + k) \in later
    <2>1. j \in Nat /\ j >= R
      BY <1>5, <1>9
    <2>2. j - R \in all
      BY <1>4, <2>1
    <2>3. j - R >= k /\ (j - R) - k = j - (R + k)
      BY <1>5, <1>9, <2>1
    <2>. QED  BY <1>0, <2>2, <2>3 DEF ShiftedOut
  <1>10. later = BitsBehind(D \cup {m}, R + k)
    <2>1. \A y \in BitsBehind(D \cup {m}, R + k) : y \in later
      BY <1>9 DEF BitsBehind
    <2>. QED  BY <1>8, <2>1
  <1>11. 0 .. (R + k) - 1 \subseteq D \cup {m}
    BY <1>7
  <1>12. later \in SUBSET SlotIndex
    BY <1>8
  <1>. QED  BY <1>5, <1>6, <1>10, <1>11, <1>12 DEF Slides, all, k, later

-----------------------------------------------------------------------------
\* What a packet in transit does to the sending side of the end it arrives at.
LEMMA PacketAcks ==
  ASSUME IInv, PacketsExpireInTime, NEW p \in Peer, NEW pkt \in net,
         pkt.kind # "ping", pkt.from = Other(p),
         receive_ack(p, pkt.rnd, pkt.status), UNCHANGED sendVars
  PROVE  /\ allocator' \in [Peer -> Seq(Nat)]
         /\ window' \in [Peer -> [SlotIndex -> Nat \cup {NoPacket}]]
         /\ remote_low_n_received' \in [Peer -> SeqNumber]
         /\ remote_messages_received' \in [Peer -> SUBSET SlotIndex]
         /\ \A r \in Peer : SenderOK(r)' /\ Sent(r)' = Sent(r)
         /\ \A r \in Peer : Acked(r) <= Acked(r)' /\ Acked(r)' <= Received(Other(r))
         /\ \A r \in Peer \ {p} : Acked(r)' = Acked(r)
         /\ \A r \in Peer : \A b \in remote_messages_received'[r] :
              Acked(r)' + b \in delivered[Other(r)]
         /\ \A r \in Peer : Acked(r)' \in Nat
  <1>1. /\ pkt \in Packet /\ PacketOK(pkt)
        /\ UNCHANGED <<local_low_n_sent, queue, submitted>>
    BY DEF IInv, TypeOK, NumbersStandForCounts, sendVars
  <1>2. /\ pkt.upto \in Nat /\ pkt.rnd = pkt.upto % Modulus
        /\ pkt.status \in SUBSET SlotIndex
        /\ pkt.upto <= Received(Other(p))
        /\ {pkt.upto + b : b \in pkt.status} \subseteq delivered[Other(p)]
        /\ Sent(p) - pkt.upto < Lifetime
    BY <1>1, Ends DEF Packet, PacketOK
  <1>3. /\ allocator' \in [Peer -> Seq(Nat)]
        /\ window' \in [Peer -> [SlotIndex -> Nat \cup {NoPacket}]]
        /\ remote_low_n_received' \in [Peer -> SeqNumber]
        /\ remote_messages_received' \in [Peer -> SUBSET SlotIndex]
        /\ \A r \in Peer : SenderOK(r)' /\ Sent(r)' = Sent(r)
        /\ \A r \in Peer : Acked(r) <= Acked(r)' /\ Acked(r)' <= Received(Other(r))
        /\ \A r \in Peer \ {p} : Acked(r)' = Acked(r)
        /\ \A r \in Peer : \A b \in remote_messages_received'[r] :
             Acked(r)' + b \in delivered[Other(r)]
    BY <1>1, <1>2, ReceiveAck
  <1>4. ASSUME NEW r \in Peer PROVE Acked(r)' \in Nat
    <2>1. submitted'[r] \in Nat /\ Len(allocator'[r]) \in Nat
      BY <1>1, <1>3 DEF IInv, TypeOK
    <2>2. Acked(r)' \in Int
      BY <2>1 DEF Acked
    <2>. QED  BY <1>3, <2>2, Counts
  <1>. QED  BY <1>3, <1>4

\* A packet whose message, if it has one, is not new.
LEMMA AckOnlyStep ==
  ASSUME IInv, PacketsExpireInTime, NEW p \in Peer, NEW pkt \in net,
         pkt.kind # "ping", pkt.from = Other(p),
         receive_ack(p, pkt.rnd, pkt.status),
         UNCHANGED <<receiveVars, sendVars, running, net>>
  PROVE  IInv'
  <1>1. UNCHANGED <<local_low_n_sent, queue, submitted, local_low_n_received,
                    local_messages_received, delivered, calls, running, net>>
    BY DEF receiveVars, sendVars
  <1>2. /\ allocator' \in [Peer -> Seq(Nat)]
        /\ window' \in [Peer -> [SlotIndex -> Nat \cup {NoPacket}]]
        /\ remote_low_n_received' \in [Peer -> SeqNumber]
        /\ remote_messages_received' \in [Peer -> SUBSET SlotIndex]
        /\ \A r \in Peer : SenderOK(r)' /\ Sent(r)' = Sent(r)
        /\ \A r \in Peer : Acked(r)' <= Received(Other(r))
        /\ \A r \in Peer : \A b \in remote_messages_received'[r] :
             Acked(r)' + b \in delivered[Other(r)]
    BY PacketAcks
  <1>3. TypeOK'
    BY <1>1, <1>2 DEF IInv, TypeOK
  <1>4. \A r \in Peer : Received(r)' = Received(r) /\ Received(r) \in Nat
    BY <1>1, ReceiverCounts DEF Received
  <1>5. \A r \in Peer : ReceiverOK(r)' /\ LinkOK(r)'
    <2>1. \A r \in Peer : ReceiverOK(r) /\ LinkOK(r) /\ Other(r) \in Peer
      BY Ends DEF IInv, NumbersStandForCounts
    <2>2. \A r \in Peer : ReceiverOK(r)'
      BY <1>1, <1>4, <2>1, ReceiverFrame
    <2>3. \A r \in Peer : LinkOK(r)'
      BY <1>1, <1>2, <1>4, <2>1 DEF LinkOK
    <2>. QED  BY <2>2, <2>3
  <1>6. ASSUME NEW k \in net' PROVE PacketOK(k)'
    <2>1. k \in Packet /\ PacketOK(k)
      BY <1>1 DEF IInv, TypeOK, NumbersStandForCounts
    <2>2. \A r \in Peer : /\ Received(r) \in Nat /\ Received(r)' \in Nat
                          /\ Received(r) <= Received(r)'
      BY <1>4
    <2>. QED  BY <1>1, <1>2, <2>1, <2>2, PacketFrame
  <1>7. SkippedWereDelivered' /\ AtMostOnce'
    BY <1>1, <1>2, Ends DEF IInv, SkippedWereDelivered, AtMostOnce
  <1>. QED  BY <1>2, <1>3, <1>5, <1>6, <1>7 DEF IInv, NumbersStandForCounts

LEMMA AckPacketStep ==
  ASSUME IInv, PacketsExpireInTime, NEW p \in Peer, NEW pkt \in net,
         receive_AckPacket(p, pkt)
  PROVE  IInv'
  BY AckOnlyStep DEF receive_AckPacket, Arrives

\* What a new message does to the receiving side: its count moves on over the
\* run of messages that have come, and nothing else changes.
LEMMA MessageArrives ==
  ASSUME IInv, PacketsExpireInTime, NEW p \in Peer, NEW pkt \in net,
         receive_message(p, pkt),
         IsNew(p, modulus_distance(pkt.id, local_low_n_received[p]))
  PROVE  /\ delivered' = [delivered EXCEPT ![p] = @ \cup {pkt.data}]
         /\ calls' = [calls EXCEPT ![p] = @ + 1]
         /\ delivered'[p] \subseteq 0 .. Sent(Other(p)) - 1
         /\ Received(p)' \in Nat /\ Received(p) <= Received(p)'
         /\ local_low_n_received' \in [Peer -> SeqNumber]
         /\ local_messages_received' \in [Peer -> SUBSET SlotIndex]
         /\ ReceiverOK(p)'
         /\ net' = net \cup {AckPacket(p, local_low_n_received'[p],
                                       local_messages_received'[p], Received(p)')}
         /\ \A r \in Peer : r # p =>
              /\ local_low_n_received'[r] = local_low_n_received[r]
              /\ local_messages_received'[r] = local_messages_received[r]
  <1>. DEFINE D == delivered[p]
              R == Received(p)
              m == pkt.data
              bits == local_messages_received[p]
              b == modulus_distance(pkt.id, local_low_n_received[p])
              all == bits \cup {b}
              k == Run(all)
              low == Advance(local_low_n_received[p], k)
              later == {i - k : i \in {i \in all : i >= k}}
  <1>1. /\ pkt.kind = "reliable" /\ pkt.from = Other(p)
        /\ submitted' = submitted
        /\ local_low_n_received' = [local_low_n_received EXCEPT ![p] = low]
        /\ local_messages_received' = [local_messages_received EXCEPT ![p] = later]
        /\ delivered' = [delivered EXCEPT ![p] = @ \cup {m}]
        /\ calls' = [calls EXCEPT ![p] = @ + 1]
        /\ net' = net \cup {AckPacket(p, low, later, Received(p)')}
    BY DEF receive_message, Arrives, sendVars
  <1>2. /\ b = m - R /\ m - R \in SlotIndex /\ m \notin D
        /\ m \in Nat /\ m < Sent(Other(p))
    BY <1>1, NewMessage
  <1>3. /\ D \subseteq 0 .. Sent(Other(p)) - 1
        /\ D \subseteq 0 .. submitted[Other(p)] - 1
        /\ R \in Nat /\ R \notin D /\ 0 .. R - 1 \subseteq D
        /\ submitted[Other(p)] \in Nat /\ Sent(Other(p)) \in Int
        /\ m < Sent(Other(p)) => m < submitted[Other(p)]
    <2>1. /\ Sent(Other(p)) \in Int /\ submitted[Other(p)] = Sent(Other(p)) + Len(queue[Other(p)])
          /\ Len(queue[Other(p)]) \in Nat /\ submitted[Other(p)] \in Nat
      BY Counts, Ends
    <2>2. m < Sent(Other(p)) => m < submitted[Other(p)]
      BY <1>2, <2>1
    <2>. HIDE DEF m
    <2>. QED  BY <2>1, <2>2, ReceiverCounts
  <1>4. /\ local_low_n_received[p] = R % Modulus
        /\ bits = {j - R : j \in {j \in D : j > R}}
    BY DEF IInv, NumbersStandForCounts, ReceiverOK
  <1>5. /\ delivered \in [Peer -> SUBSET Nat] /\ D \in SUBSET Nat
        /\ local_low_n_received \in [Peer -> SeqNumber]
        /\ local_messages_received \in [Peer -> SUBSET SlotIndex]
        /\ bits \in SUBSET SlotIndex
    BY DEF IInv, TypeOK
  <1>. HIDE DEF D, R, m, bits, b
  <1>6. /\ all = bits \cup {m - R} /\ k = Run(all) /\ later = ShiftedOut(all, k)
        /\ bits = BitsBehind(D, R)
    BY <1>2, <1>4 DEF ShiftedOut, BitsBehind
  <1>. HIDE DEF all, k, later
  <1>7. /\ k \in Nat
        /\ R + k \notin D \cup {m} /\ 0 .. (R + k) - 1 \subseteq D \cup {m}
        /\ later = BitsBehind(D \cup {m}, R + k)
        /\ later \in SUBSET SlotIndex
    <2>1. /\ R \in Nat /\ D \in SUBSET Nat /\ R \notin D /\ 0 .. R - 1 \subseteq D
          /\ bits \in SUBSET SlotIndex /\ m \in Nat /\ m - R \in SlotIndex
      BY <1>2, <1>3, <1>5
    <2>. HIDE DEF D, R, m, bits
    <2>2. /\ bits = BitsBehind(D, R)
          /\ all = bits \cup {m - R} /\ k = Run(all) /\ later = ShiftedOut(all, k)
      BY <1>6
    <2>3. Slides(R, D, bits, m)
      BY <2>1, <2>2, Slide, Zenon
    <2>. QED  BY <2>2, <2>3 DEF Slides
  <1>8. delivered'[p] = D \cup {m} /\ D \cup {m} \subseteq 0 .. Sent(Other(p)) - 1
    BY <1>1, <1>2, <1>3, <1>5 DEF D
  <1>9. Received(p)' = R + k
    <2>1. D \cup {m} \subseteq 0 .. submitted[Other(p)] - 1 /\ R + k \in Nat
      BY <1>2, <1>3, <1>7
    <2>2. FirstMissing(D \cup {m}, submitted[Other(p)]) = R + k
      BY <1>3, <1>7, <2>1, FirstMissingUnique
    <2>3. Received(p)' = FirstMissing(delivered'[p], submitted'[Other(p)])
      BY DEF Received
    <2>. QED  BY <1>1, <1>8, <2>2, <2>3
  <1>10. low = (R + k) % Modulus /\ low \in SeqNumber
    <2>1. R \in Int /\ k \in Int
      BY <1>3, <1>7
    <2>. QED  BY <1>4, <2>1, NextNumber
  <1>. HIDE DEF low
  <1>11. local_low_n_received'[p] = low /\ local_messages_received'[p] = later
    BY <1>1, <1>5
  <1>12. ReceiverOK(p)'
    BY <1>7, <1>8, <1>9, <1>10, <1>11 DEF ReceiverOK, BitsBehind
  <1>13. Received(p)' \in Nat /\ R <= Received(p)'
    BY <1>3, <1>7, <1>9
  <1>14. /\ local_low_n_received' \in [Peer -> SeqNumber]
         /\ local_messages_received' \in [Peer -> SUBSET SlotIndex]
         /\ \A r \in Peer : r # p =>
              /\ local_low_n_received'[r] = local_low_n_received[r]
              /\ local_messages_received'[r] = local_messages_received[r]
    BY <1>1, <1>5, <1>7, <1>10
  <1>. QED  BY <1>1, <1>8, <1>11, <1>12, <1>13, <1>14 DEF R, m

\* The acknowledgement that tells what p has received.
Answer(p) ==
  AckPacket(p, local_low_n_received[p], local_messages_received[p], Received(p))

\* The acknowledgement an end answers a message with is true of what it has
\* received then.
LEMMA AnswerOK ==
  ASSUME IInv, NEW p \in Peer, ReceiverOK(p)', Sent(Other(p))' = Sent(Other(p)),
         local_low_n_received'[p] \in SeqNumber,
         local_messages_received'[p] \in SUBSET SlotIndex, delivered'[p] \subseteq Nat,
         Received(p)' \in Nat, Received(p) <= Received(p)'
  PROVE  Answer(p)' \in Packet /\ PacketOK(Answer(p))'
  <1>. DEFINE ack == Answer(p)'
  <1>1. /\ ack.kind = "ack" /\ ack.from = p /\ ack.upto = Received(p)'
        /\ ack.rnd = local_low_n_received'[p] /\ ack.status = local_messages_received'[p]
        /\ ack \in Packet
    BY DEF Answer, AckPacket, Packet
  <1>2. /\ local_low_n_received'[p] = Received(p)' % Modulus
        /\ local_messages_received'[p] =
             {m - Received(p)' : m \in {m \in delivered'[p] : m > Received(p)'}}
    BY DEF ReceiverOK
  <1>3. ASSUME NEW b \in ack.status PROVE ack.upto + b \in delivered'[p]
    <2>1. PICK m \in delivered'[p] : b = m - Received(p)'
      BY <1>1, <1>2
    <2>2. m \in Int
      OBVIOUS
    <2>3. Received(p)' + (m - Received(p)') = m
      BY <2>2
    <2>. QED  BY <1>1, <2>1, <2>3
  <1>4. Sent(Other(p))' - ack.upto < Lifetime
    <2>1. /\ Sent(Other(p)) - Received(p) < Lifetime /\ Received(p) \in Nat
          /\ Sent(Other(p)) \in Int /\ Lifetime \in Nat
      BY HeaderOK, Ends, Counts, ReliableAssumption
    <2>. QED  BY <1>1, <2>1
  <1>5. ack.rnd = ack.upto % Modulus /\ ack.upto <= Received(p)'
    BY <1>1, <1>2
  <1>6. PacketOK(Answer(p))'
    BY <1>1, <1>3, <1>4, <1>5 DEF PacketOK
  <1>. QED  BY <1>1, <1>6

LEMMA NewMessageStep ==
  ASSUME IInv, PacketsExpireInTime, NEW p \in Peer, NEW pkt \in net,
         receive_message(p, pkt),
         IsNew(p, modulus_distance(pkt.id, local_low_n_received[p]))
  PROVE  IInv'
  <1>1. /\ delivered' = [delivered EXCEPT ![p] = @ \cup {pkt.data}]
        /\ calls' = [calls EXCEPT ![p] = @ + 1]
        /\ delivered'[p] \subseteq 0 .. Sent(Other(p)) - 1
        /\ Received(p)' \in Nat /\ Received(p) <= Received(p)'
        /\ local_low_n_received' \in [Peer -> SeqNumber]
        /\ local_messages_received' \in [Peer -> SUBSET SlotIndex]
        /\ ReceiverOK(p)'
        /\ net' = net \cup {Answer(p)'}
        /\ \A r \in Peer : r # p =>
             /\ local_low_n_received'[r] = local_low_n_received[r]
             /\ local_messages_received'[r] = local_messages_received[r]
    BY MessageArrives DEF Answer
  <1>2. /\ pkt.kind = "reliable" /\ pkt.kind # "ping" /\ pkt.from = Other(p)
        /\ UNCHANGED sendVars /\ running' = running
        /\ receive_ack(p, pkt.rnd, pkt.status)
    BY DEF receive_message, Arrives
  <1>3. UNCHANGED <<local_low_n_sent, queue, submitted>>
    BY <1>2 DEF sendVars
  <1>4. /\ allocator' \in [Peer -> Seq(Nat)]
        /\ window' \in [Peer -> [SlotIndex -> Nat \cup {NoPacket}]]
        /\ remote_low_n_received' \in [Peer -> SeqNumber]
        /\ remote_messages_received' \in [Peer -> SUBSET SlotIndex]
        /\ \A r \in Peer : SenderOK(r)' /\ Sent(r)' = Sent(r)
        /\ \A r \in Peer : Acked(r)' <= Received(Other(r)) /\ Acked(r)' \in Nat
        /\ \A r \in Peer : \A b \in remote_messages_received'[r] :
             Acked(r)' + b \in delivered[Other(r)]
    BY <1>2, PacketAcks
  <1>5. pkt.data \in Nat /\ pkt.data \notin delivered[p]
    BY <1>2, NewMessage
  <1>6. /\ delivered \in [Peer -> SUBSET Nat] /\ calls \in [Peer -> Nat]
        /\ delivered' \in [Peer -> SUBSET Nat] /\ calls' \in [Peer -> Nat]
        /\ delivered'[p] = delivered[p] \cup {pkt.data} /\ calls'[p] = calls[p] + 1
        /\ \A r \in Peer : r # p => delivered'[r] = delivered[r] /\ calls'[r] = calls[r]
    BY <1>1, <1>5 DEF IInv, TypeOK
  <1>7. ASSUME NEW r \in Peer, r # p PROVE Received(r)' = Received(r)
    BY <1>3, <1>6, <1>7 DEF Received
  <1>8. \A r \in Peer : /\ delivered[r] \subseteq delivered'[r]
                        /\ Received(r) \in Nat /\ Received(r)' \in Nat
                        /\ Received(r) <= Received(r)'
    <2>1. \A r \in Peer : Received(r) \in Nat
      BY ReceiverCounts
    <2>. QED  BY <1>1, <1>6, <1>7, <2>1
  <1>9. Answer(p)' \in Packet /\ PacketOK(Answer(p))'
    <2>1. /\ local_low_n_received'[p] \in SeqNumber /\ delivered'[p] \subseteq Nat
          /\ local_messages_received'[p] \in SUBSET SlotIndex
          /\ Sent(Other(p))' = Sent(Other(p))
      BY <1>1, <1>4, <1>6, Ends
    <2>. QED  BY <1>1, <2>1, AnswerOK
  <1>10. ASSUME NEW k \in net' PROVE k \in Packet /\ PacketOK(k)'
    <2>1. CASE k = Answer(p)'
      BY <1>9, <2>1
    <2>2. CASE k \in net
      <3>1. k \in Packet /\ PacketOK(k)
        BY <2>2 DEF IInv, TypeOK, NumbersStandForCounts
      <3>. QED  BY <1>4, <1>8, <3>1, PacketFrame
    <2>. QED  BY <1>1, <2>1, <2>2
  <1>11. TypeOK'
    <2>1. /\ local_low_n_sent' \in [Peer -> SeqNumber] /\ queue' \in [Peer -> Seq(Nat)]
          /\ submitted' \in [Peer -> Nat] /\ running' \in [Peer -> BOOLEAN]
      BY <1>2, <1>3 DEF IInv, TypeOK
    <2>2. net' \subseteq Packet
      BY <1>10
    <2>. QED  BY <1>1, <1>4, <1>6, <2>1, <2>2 DEF TypeOK
  <1>12. ASSUME NEW r \in Peer PROVE ReceiverOK(r)' /\ LinkOK(r)'
    <2>1. ReceiverOK(r) /\ LinkOK(r) /\ Other(r) \in Peer
      BY Ends DEF IInv, NumbersStandForCounts
    <2>2. ReceiverOK(r)'
      <3>1. CASE r = p
        BY <1>1, <3>1
      <3>2. CASE r # p
        BY <1>1, <1>6, <1>7, <2>1, <3>2, ReceiverFrame
      <3>. QED  BY <3>1, <3>2
    <2>3. Acked(r)' <= Received(Other(r))'
      <3>1. /\ Acked(r)' <= Received(Other(r)) /\ Acked(r)' \in Nat
            /\ Received(Other(r)) <= Received(Other(r))'
            /\ Received(Other(r)) \in Nat /\ Received(Other(r))' \in Nat
        BY <1>4, <1>8, <2>1
      <3>. QED  BY <3>1
    <2>4. delivered'[Other(r)] \subseteq 0 .. Sent(r)' - 1
      <3>1. CASE Other(r) = p
        <4>1. Other(p) = r
          BY <3>1, Ends
        <4>. QED  BY <1>1, <1>4, <3>1, <4>1
      <3>2. CASE Other(r) # p
        BY <1>4, <1>6, <2>1, <3>2 DEF LinkOK
      <3>. QED  BY <3>1, <3>2
    <2>. QED  BY <2>2, <2>3, <2>4 DEF LinkOK
  <1>13. SkippedWereDelivered'
    <2>1. ASSUME NEW r \in Peer, NEW b \in remote_messages_received'[r]
          PROVE  Acked(r)' + b \in delivered'[Other(r)]
      BY <1>4, <1>8, <2>1, Ends
    <2>. QED  BY <2>1 DEF SkippedWereDelivered
  <1>14. AtMostOnce'
    <2>1. ASSUME NEW r \in Peer PROVE delivered'[r] \subseteq 0 .. Sent(Other(r))' - 1
      <3>1. Other(r) \in Peer /\ Other(Other(r)) = r
        BY Ends
      <3>. QED  BY <1>12, <3>1 DEF LinkOK
    <2>2. \A r \in Peer : calls[r] = Cardinality(delivered[r])
      BY DEF IInv, AtMostOnce
    <2>3. Cardinality(delivered'[p]) = Cardinality(delivered[p]) + 1
      <3>1. delivered[p] \subseteq 0 .. submitted[Other(p)] - 1
        BY ReceiverCounts
      <3>2. submitted[Other(p)] \in Nat
        BY Ends DEF IInv, TypeOK
      <3>3. IsFiniteSet(0 .. submitted[Other(p)] - 1)
        BY <3>2, FS_Interval
      <3>4. IsFiniteSet(delivered[p])
        BY <3>1, <3>3, FS_Subset
      <3>5. Cardinality(delivered[p] \cup {pkt.data}) = Cardinality(delivered[p]) + 1
        BY <1>5, <3>4, FS_AddElement
      <3>. QED  BY <1>6, <3>5
    <2>4. \A r \in Peer : calls'[r] = Cardinality(delivered'[r])
      BY <1>6, <2>2, <2>3
    <2>. QED  BY <2>1, <2>4 DEF AtMostOnce
  <1>. QED  BY <1>4, <1>10, <1>11, <1>12, <1>13, <1>14 DEF IInv, NumbersStandForCounts

LEMMA MessageStep ==
  ASSUME IInv, PacketsExpireInTime, NEW p \in Peer, NEW pkt \in net,
         receive_message(p, pkt)
  PROVE  IInv'
  <1>. DEFINE b == modulus_distance(pkt.id, local_low_n_received[p])
  <1>1. CASE IsNew(p, b)
    BY <1>1, NewMessageStep
  <1>2. CASE ~ IsNew(p, b)
    <2>1. /\ pkt.kind # "ping" /\ pkt.from = Other(p)
          /\ receive_ack(p, pkt.rnd, pkt.status)
          /\ UNCHANGED <<receiveVars, sendVars, running, net>>
      BY <1>2 DEF receive_message, Arrives
    <2>. QED  BY <2>1, AckOnlyStep
  <1>. QED  BY <1>1, <1>2

-----------------------------------------------------------------------------
\* Every step keeps the invariant.
LEMMA StepInv ==
  ASSUME IInv, PacketsExpireInTime, [Next]_vars
  PROVE  IInv'
  <1>1. ASSUME NEW p \in Peer, Step(p) PROVE IInv'
    <2>1. CASE send(p)
      BY <2>1, SendStep
    <2>2. CASE send_NoRoom(p)
      BY <2>2, CrashStep
    <2>3. CASE update_Drain(p)
      BY <2>3, DrainStep
    <2>4. CASE update_Resend(p)
      BY <2>4, ResendStep
    <2>5. CASE Ping(p)
      BY <2>5, PingStep
    <2>6. CASE \E pkt \in net : receive_message(p, pkt)
      BY <2>6, MessageStep
    <2>7. CASE \E pkt \in net : receive_AckPacket(p, pkt)
      BY <2>7, AckPacketStep
    <2>8. CASE \E pkt \in net : receive_Ping(p, pkt)
      BY <2>8, PingStep
    <2>. QED  BY <1>1, <2>1, <2>2, <2>3, <2>4, <2>5, <2>6, <2>7, <2>8 DEF Step
  <1>2. ASSUME NEW pkt \in net, Lose(pkt) PROVE IInv'
    BY <1>2, LoseStep
  <1>3. CASE UNCHANGED vars
    <2>1. /\ UNCHANGED <<ackVars, receiveVars, sendVars>>
          /\ running' = running /\ net' = net
      BY <1>3 DEF vars
    <2>2. running' \in [Peer -> BOOLEAN]
      BY <2>1 DEF IInv, TypeOK
    <2>. QED  BY <2>1, <2>2, NetOnly
  <1>. QED  BY <1>1, <1>2, <1>3 DEF Next

\* The inductive invariant holds of every behaviour in which a packet leaves
\* the network before its number is in the receiver's window again.
THEOREM Invariance == PacketsExpireInTime /\ Spec => []IInv
  <1>. SUFFICES ASSUME PacketsExpireInTime PROVE Spec => []IInv
    OBVIOUS
  <1>1. Init => IInv
    BY InitInv
  <1>2. IInv /\ [Next]_vars => IInv'
    BY StepInv
  <1>. QED  BY <1>1, <1>2, PTL DEF Spec

\* Every variable holds values of its kind: the numbers of both ends stay in
\* the number space and the status bits in the window.
THEOREM TypeCorrect == PacketsExpireInTime /\ Spec => []TypeOK
  BY Invariance, PTL DEF IInv

\* Both ends and every packet agree, for any number of messages, on which one
\* each number, slot, block and status bit stands for.
THEOREM NumbersKeepTheirMeaning ==
  PacketsExpireInTime /\ Spec => []NumbersStandForCounts
  BY Invariance, PTL DEF IInv

\* An application is handed only messages the other end sent, each at most
\* once (reliable_messenger::receive_message), whatever the network loses,
\* repeats or reorders and however often the numbers wrap.
THEOREM DeliversAtMostOnce == PacketsExpireInTime /\ Spec => []AtMostOnce
  BY Invariance, PTL DEF IInv

\* update leaves out of a retransmission only messages the other end has,
\* although the status it goes by can be of an old packet.
THEOREM SkipsOnlyDelivered == PacketsExpireInTime /\ Spec => []SkippedWereDelivered
  BY Invariance, PTL DEF IInv

\* The messages acknowledged to an end are all with the other end.
LEMMA AckedAreDelivered ==
  ASSUME IInv, NEW p \in Peer
  PROVE  0 .. Acked(p) - 1 \subseteq delivered[Other(p)]
  <1>1. /\ 0 .. Received(Other(p)) - 1 \subseteq delivered[Other(p)]
        /\ Received(Other(p)) \in Nat
    BY Ends, ReceiverCounts
  <1>2. Acked(p) <= Received(Other(p)) /\ Acked(p) \in Nat
    BY Counts DEF IInv, NumbersStandForCounts, LinkOK
  <1>3. 0 .. Acked(p) - 1 \subseteq 0 .. Received(Other(p)) - 1
    BY <1>1, <1>2
  <1>. QED  BY <1>1, <1>3

\* receive_ack frees the memory of a message only when the application of the
\* other end has the message.
THEOREM FreesOnlyDelivered == PacketsExpireInTime /\ Spec => []FreedWereDelivered
  <1>1. IInv => FreedWereDelivered
    BY AckedAreDelivered DEF FreedWereDelivered
  <1>. QED  BY <1>1, Invariance, PTL

\* The blocks pop_front frees by age are those of the slots receive_ack clears
\* by number, although the messages in them arrive in any order.
THEOREM BlocksMatchPackets == PacketsExpireInTime /\ Spec => []BlocksAreThePackets
  <1>1. ASSUME IInv, NEW p \in Peer
        PROVE  allocator[p] =
                 [j \in 1 .. InFlight(p) |->
                    window[p][Slot(Advance(remote_low_n_received[p], j - 1))]] \o queue[p]
    <2>. DEFINE f == InFlight(p)
                a == Acked(p)
    <2>1. /\ f \in 0 .. WindowSize /\ f = Sent(p) - a /\ a \in Nat /\ Sent(p) \in Int
          /\ Len(allocator[p]) = f + Len(queue[p])
      BY <1>1, Counts
    <2>2. /\ allocator[p] \in Seq(Nat) /\ queue[p] \in Seq(Nat)
      BY <1>1 DEF IInv, TypeOK
    <2>3. SenderOK(p)
      BY <1>1 DEF IInv, NumbersStandForCounts
    <2>4. a + f = Sent(p)
      BY <2>1
    <2>5. AllCount(allocator[p], window[p], remote_low_n_received[p], f, queue[p], a)
      <3>1. \A i \in SlotIndex :
              StepsTo(i, remote_low_n_received[p]) < f =>
                window[p][i] = a + StepsTo(i, remote_low_n_received[p])
        BY <2>1, <2>3 DEF SenderOK
      <3>. HIDE DEF f
      <3>2. \A i \in 1 .. Len(queue[p]) : queue[p][i] = (a + f) + i - 1
        BY <2>3, <2>4 DEF SenderOK
      <3>. QED  BY <2>1, <2>2, <2>3, <3>1, <3>2 DEF AllCount, SenderOK
    <2>. HIDE DEF f
    <2>6. allocator[p] = WindowThenQueue(window[p], remote_low_n_received[p], f, queue[p])
      BY <2>5, CountingWindow
    <2>. QED  BY <2>6 DEF f, WindowThenQueue
  <1>2. IInv => BlocksAreThePackets
    BY <1>1 DEF BlocksAreThePackets
  <1>. QED  BY <1>2, Invariance, PTL

-----------------------------------------------------------------------------
\* The messenger implements an unordered exactly-once channel that gives up
\* the memory of a message only after that message and all earlier ones were
\* handed over: every step is one of ExactlyOnceChannel or changes nothing of it.
THEOREM Implements == PacketsExpireInTime /\ Spec => ImplementsExactlyOnceChannel
  <1>. DEFINE released == [p \in Peer |-> Acked(p)]
  <1>. SUFFICES ASSUME PacketsExpireInTime PROVE Spec => Channel!Spec
    BY DEF ImplementsExactlyOnceChannel
  <1>1. Init => Channel!Init
    <2>. SUFFICES ASSUME Init PROVE Channel!Init
      OBVIOUS
    <2>1. \A p \in Peer : Acked(p) = 0
      BY DEF Init, Acked
    <2>. QED  BY <2>1 DEF Init, Channel!Init, Channel!Peer, Peer
  <1>2. ASSUME IInv, Next PROVE Channel!Next \/ UNCHANGED Channel!channelVars
    <2>1. /\ delivered \in [Peer -> SUBSET Nat] /\ submitted \in [Peer -> Nat]
          /\ allocator \in [Peer -> Seq(Nat)]
      BY <1>2 DEF IInv, TypeOK
    <2>2. CASE UNCHANGED <<submitted, allocator, delivered, calls>>
      BY <2>2 DEF Channel!channelVars, Acked
    <2>3. ASSUME NEW p \in Peer, send(p) PROVE Channel!Submit(p)
      <3>1. /\ submitted' = [submitted EXCEPT ![p] = @ + 1]
            /\ allocator' = [allocator EXCEPT ![p] = Append(@, submitted[p])]
            /\ delivered' = delivered /\ calls' = calls
        BY <2>3 DEF send, receiveVars
      <3>2. ASSUME NEW r \in Peer PROVE Acked(r)' = Acked(r)
        <4>1. allocator[r] \in Seq(Nat) /\ submitted[r] \in Nat
          BY <2>1
        <4>2. CASE r = p
          <5>1. Len(allocator'[r]) = Len(allocator[r]) + 1
            BY <2>1, <3>1, <4>1, <4>2
          <5>2. submitted'[r] = submitted[r] + 1
            BY <2>1, <3>1, <4>2
          <5>3. submitted[r] \in Int /\ Len(allocator[r]) \in Int
            BY <4>1
          <5>4. /\ Acked(r)' = (submitted[r] + 1) - (Len(allocator[r]) + 1)
                /\ Acked(r) = submitted[r] - Len(allocator[r])
            BY <5>1, <5>2 DEF Acked
          <5>. QED  BY <5>3, <5>4
        <4>3. CASE r # p
          BY <2>1, <3>1, <4>3 DEF Acked
        <4>. QED  BY <4>2, <4>3
      <3>3. released' = released
        BY <3>2
      <3>. QED  BY <3>1, <3>3 DEF Channel!Submit
    <2>4. ASSUME NEW p \in Peer, NEW pkt \in net,
                 receive_message(p, pkt) \/ receive_AckPacket(p, pkt)
          PROVE  Channel!Exchange(p)
      <3>1. /\ pkt.kind # "ping" /\ pkt.from = Other(p)
            /\ receive_ack(p, pkt.rnd, pkt.status)
            /\ UNCHANGED sendVars /\ submitted' = submitted
        BY <2>4 DEF receive_message, receive_AckPacket, Arrives, sendVars
      <3>2. /\ Acked(p) <= Acked(p)' /\ Acked(p)' <= Received(Other(p))
            /\ Acked(p)' \in Nat
            /\ \A r \in Peer \ {p} : Acked(r)' = Acked(r)
        BY <1>2, <3>1, PacketAcks
      <3>3. Channel!Release(p)
        <4>1. /\ Acked(p) \in Nat /\ Received(Other(p)) \in Nat /\ submitted[p] \in Nat
              /\ Received(Other(p)) <= submitted[p]
              /\ 0 .. Received(Other(p)) - 1 \subseteq delivered[Other(p)]
          <5>1. /\ Received(Other(p)) \in Nat /\ Received(Other(p)) <= Sent(p)
                /\ 0 .. Received(Other(p)) - 1 \subseteq delivered[Other(p)]
            BY <1>2, Ends, ReceiverCounts
          <5>2. /\ Acked(p) \in Nat /\ Sent(p) \in Int /\ submitted[p] \in Nat
                /\ submitted[p] = Sent(p) + Len(queue[p]) /\ Len(queue[p]) \in Nat
            BY <1>2, Counts
          <5>. QED  BY <5>1, <5>2
        <4>2. Acked(p)' \in released[p] .. submitted[p]
          BY <3>2, <4>1
        <4>3. 0 .. Acked(p)' - 1 \subseteq delivered[Other(p)]
          BY <3>2, <4>1
        <4>4. released' = [released EXCEPT ![p] = Acked(p)']
          BY <3>2
        <4>. QED  BY <4>2, <4>3, <4>4 DEF Channel!Release, Channel!Other, Other
      <3>4. Channel!Deliver(p) \/ UNCHANGED <<delivered, calls>>
        <4>1. CASE UNCHANGED <<delivered, calls>>
          BY <4>1
        <4>2. CASE /\ receive_message(p, pkt)
                   /\ IsNew(p, modulus_distance(pkt.id, local_low_n_received[p]))
          <5>1. /\ delivered' = [delivered EXCEPT ![p] = @ \cup {pkt.data}]
                /\ calls' = [calls EXCEPT ![p] = @ + 1]
                /\ pkt.kind = "reliable"
            BY <4>2 DEF receive_message
          <5>2. /\ pkt.data \in Nat /\ pkt.data < Sent(Other(p))
                /\ pkt.data \notin delivered[p]
            BY <1>2, <3>1, <4>2, <5>1, NewMessage
          <5>3. /\ Sent(Other(p)) \in Int /\ submitted[Other(p)] \in Nat
                /\ submitted[Other(p)] = Sent(Other(p)) + Len(queue[Other(p)])
                /\ Len(queue[Other(p)]) \in Nat
            BY <1>2, Counts, Ends
          <5>4. pkt.data \in (0 .. submitted[Other(p)] - 1) \ delivered[p]
            BY <5>2, <5>3
          <5>. QED  BY <5>1, <5>4 DEF Channel!Deliver, Channel!Other, Other
        <4>. QED  BY <2>4, <4>1, <4>2 DEF receive_message, receive_AckPacket, receiveVars
      <3>. QED  BY <3>1, <3>3, <3>4 DEF Channel!Exchange
    <2>. QED
      BY <1>2, <2>2, <2>3, <2>4
      DEF Next, Step, send_NoRoom, update_Drain, update_Resend, Ping, receive_Ping,
          Lose, ackVars, receiveVars, sendVars, Channel!Next, Channel!Peer, Peer
  <1>3. UNCHANGED vars => UNCHANGED Channel!channelVars
    BY DEF vars, ackVars, receiveVars, sendVars, Channel!channelVars, Acked
  <1>4. IInv /\ [Next]_vars => [Channel!Next]_(Channel!channelVars)
    BY <1>2, <1>3
  <1>. QED  BY <1>1, <1>4, Invariance, PTL DEF Spec, Channel!Spec
=============================================================================

------------------------ MODULE StreamMessengerProofs ------------------------
(***************************************************************************)
(* Safety of the stream messenger for every number space, window, queue    *)
(* and number of messages, if the network does not keep packets for longer *)
(* than the number space lasts (PacketsExpireInTime).                      *)
(***************************************************************************)
EXTENDS StreamMessenger, SeqNumProofs, SequenceTheorems

\* The two ends are each other's other end.
LEMMA Ends ==
  ASSUME NEW p \in Peer
  PROVE  /\ Other(p) \in Peer
         /\ Other(p) # p
         /\ Other(Other(p)) = p
         /\ \A r \in Peer : r = p \/ r = Other(p)
  BY StreamAssumption DEF Peer, Other

\* What the invariant says of the counts and distances of an end.
LEMMA Counts ==
  ASSUME IInv, NEW p \in Peer
  PROVE  /\ Sent(p) \in Int /\ Acked(p) \in Nat
         /\ Sent(p) - Acked(p) \in 0 .. WindowSize
         /\ Len(delivered[p]) \in Nat /\ Len(queue[p]) \in Nat
         /\ Len(allocator[p]) = Sent(p) - Acked(p) + Len(queue[p])
         /\ InFlight(p) = Sent(p) - Acked(p)
         /\ Room(p) = WindowSize - (Sent(p) - Acked(p))
  <1>1. /\ Sent(p) \in Int /\ Acked(p) \in Nat
        /\ Sent(p) - Acked(p) \in 0 .. WindowSize
        /\ Len(delivered[p]) \in Nat /\ Len(queue[p]) \in Nat
        /\ Len(allocator[p]) = Sent(p) - Acked(p) + Len(queue[p])
    <2>1. /\ submitted[p] \in Nat /\ Len(delivered[p]) \in Nat
          /\ Len(queue[p]) \in Nat /\ Len(allocator[p]) \in Nat
      BY DEF IInv, TypeOK
    <2>2. Acked(p) >= 0 /\ Sent(p) - Acked(p) \in 0 .. WindowSize
      BY DEF IInv, NumbersStandForCounts, SenderOK
    <2>3. /\ Sent(p) = submitted[p] - Len(queue[p])
          /\ Acked(p) = submitted[p] - Len(allocator[p])
      BY DEF Sent, Acked
    <2>4. Sent(p) \in Int /\ Acked(p) \in Int
      BY <2>1, <2>3
    <2>5. Len(allocator[p]) = Sent(p) - Acked(p) + Len(queue[p])
      BY <2>1, <2>3
    <2>6. Acked(p) \in Nat
      BY <2>2, <2>4
    <2>. QED  BY <2>1, <2>2, <2>4, <2>5, <2>6
  <1>2. /\ local_low_n_sent[p] = Sent(p) % Modulus
        /\ remote_low_n_received[p] = Acked(p) % Modulus
    BY DEF IInv, NumbersStandForCounts, SenderOK
  <1>3. InFlight(p) = Sent(p) - Acked(p)
    <2>1. Sent(p) - Acked(p) \in 0 .. Modulus - 1
      BY <1>1, Parameters
    <2>2. modulus_distance(Sent(p) % Modulus, Acked(p) % Modulus) = Sent(p) - Acked(p)
      BY <1>1, <2>1, DistanceNear
    <2>. QED  BY <1>2, <2>2 DEF InFlight
  <1>4. Room(p) = WindowSize - (Sent(p) - Acked(p))
    BY <1>3 DEF Room
  <1>. QED  BY <1>1, <1>3, <1>4

\* The numbers are in range at the start and nothing is in flight.
LEMMA InitInv == Init => IInv
  <1>. SUFFICES ASSUME Init PROVE IInv
    OBVIOUS
  <1>1. 0 \in SeqNumber /\ 0 % Modulus = 0
    <2>1. Modulus \in Nat \ {0} /\ 0 \in 0 .. Modulus - 1
      BY Parameters
    <2>2. 0 % Modulus = 0
      BY <2>1, SmallMod
    <2>. QED  BY <2>2, SeqNumAssumption DEF SeqNumber
  <1>2. TypeOK
    BY <1>1 DEF Init, TypeOK
  <1>3. ASSUME NEW p \in Peer
        PROVE  SenderOK(p) /\ ReceiverOK(p) /\ LinkOK(p)
    <2>1. Sent(p) = 0 /\ Acked(p) = 0 /\ Len(delivered[p]) = 0
          /\ Len(delivered[Other(p)]) = 0
      BY <1>3, Ends DEF Init, Sent, Acked
    <2>2. ASSUME NEW i \in SlotIndex
          PROVE  ~ (StepsTo(i, remote_low_n_received[p]) < 0)
      <3>1. i \in Int /\ remote_low_n_received[p] \in Int
        BY <1>3 DEF Init, SlotIndex
      <3>2. StepsTo(i, remote_low_n_received[p]) \in 0 .. WindowSize - 1
        BY <3>1, StepsToType
      <3>. QED  BY <3>2, Parameters
    <2>3. SenderOK(p)
      BY <1>1, <1>3, <2>1, <2>2, Parameters DEF Init, SenderOK
    <2>4. ReceiverOK(p) /\ LinkOK(p)
      BY <1>1, <1>3, <2>1 DEF Init, ReceiverOK, LinkOK
    <2>. QED  BY <2>3, <2>4
  <1>4. \A pkt \in net : PacketOK(pkt)
    BY DEF Init
  <1>. QED  BY <1>2, <1>3, <1>4 DEF IInv, NumbersStandForCounts

-----------------------------------------------------------------------------
\* An end whose sending state a step leaves alone.
LEMMA SenderFrame ==
  ASSUME NEW r \in Peer, SenderOK(r),
         local_low_n_sent'[r] = local_low_n_sent[r],
         remote_low_n_received'[r] = remote_low_n_received[r],
         window'[r] = window[r], queue'[r] = queue[r],
         allocator'[r] = allocator[r], submitted'[r] = submitted[r]
  PROVE  SenderOK(r)' /\ Sent(r)' = Sent(r) /\ Acked(r)' = Acked(r)
  <1>1. Sent(r)' = Sent(r) /\ Acked(r)' = Acked(r)
    BY DEF Sent, Acked
  <1>. QED  BY <1>1 DEF SenderOK

\* A packet stays as good as it was while its sender's counts of received
\* messages only grow and nothing new is sent.
LEMMA PacketFrame ==
  ASSUME TypeOK, NEW pkt \in Packet, PacketOK(pkt),
         \A r \in Peer : Sent(r)' = Sent(r),
         \A r \in Peer : Len(delivered'[r]) >= Len(delivered[r]),
         delivered' \in [Peer -> Seq(Nat)]
  PROVE  PacketOK(pkt)'
  <1>1. pkt.from \in Peer /\ Other(pkt.from) \in Peer
    BY Ends DEF Packet
  <1>2. /\ Len(delivered[pkt.from]) \in Nat
        /\ Len(delivered'[pkt.from]) \in Nat
        /\ Len(delivered'[pkt.from]) >= Len(delivered[pkt.from])
    <2>1. delivered[pkt.from] \in Seq(Nat) /\ delivered'[pkt.from] \in Seq(Nat)
      BY <1>1 DEF TypeOK
    <2>. QED  BY <1>1, <2>1
  <1>3. /\ Sent(pkt.from)' = Sent(pkt.from)
        /\ Sent(Other(pkt.from))' = Sent(Other(pkt.from))
    BY <1>1
  <1>4. pkt.kind # "ping" => pkt.upto \in Nat
    BY DEF Packet
  <1>5. pkt.kind # "ping" => pkt.upto <= Len(delivered'[pkt.from])
    BY <1>2, <1>4 DEF PacketOK
  <1>. QED  BY <1>3, <1>5 DEF PacketOK

-----------------------------------------------------------------------------
\* receive_ack, for any acknowledgement the network can still deliver: one of
\* messages that were freed already is ignored, any other frees exactly the
\* messages it covers.
LEMMA ReceiveAck ==
  ASSUME IInv, PacketsExpireInTime, NEW p \in Peer,
         NEW u \in Nat, NEW rnd, rnd = u % Modulus,
         u <= Len(delivered[Other(p)]), Sent(p) - u < Lifetime,
         receive_ack(p, rnd), UNCHANGED <<local_low_n_sent, queue, submitted>>
  PROVE  /\ allocator' \in [Peer -> Seq(Nat)]
         /\ window' \in [Peer -> [SlotIndex -> Nat \cup {NoPacket}]]
         /\ remote_low_n_received' \in [Peer -> SeqNumber]
         /\ \A r \in Peer : SenderOK(r)' /\ Sent(r)' = Sent(r)
         /\ \A r \in Peer : Acked(r) <= Acked(r)' /\ Acked(r)' <= Len(delivered[Other(r)])
         /\ \A r \in Peer \ {p} : /\ Acked(r)' = Acked(r)
                                  /\ remote_low_n_received'[r] = remote_low_n_received[r]
         /\ modulus_distance(remote_low_n_received'[p], remote_low_n_received[p])
              \in 0 .. InFlight(p)
  <1>. DEFINE a == Acked(p)
              f == Sent(p) - Acked(p)
              rlr == remote_low_n_received[p]
  <1>1. /\ Sent(p) \in Int /\ a \in Nat /\ f \in 0 .. WindowSize
        /\ Len(delivered[Other(p)]) \in Nat
        /\ Len(queue[p]) \in Nat /\ Len(allocator[p]) = f + Len(queue[p])
        /\ InFlight(p) = f /\ WindowSize \in Nat /\ Modulus \in Nat
        /\ WindowSize < Modulus
    BY Counts, Ends, Parameters
  <1>2. a <= Len(delivered[Other(p)]) /\ Len(delivered[Other(p)]) <= Sent(p)
    BY DEF IInv, NumbersStandForCounts, LinkOK
  <1>3. /\ local_low_n_sent[p] = Sent(p) % Modulus
        /\ rlr = a % Modulus
    BY DEF IInv, NumbersStandForCounts, SenderOK
  <1>4. \A r \in Peer : SenderOK(r) /\ Acked(r) <= Len(delivered[Other(r)])
    BY DEF IInv, NumbersStandForCounts, LinkOK
  <1>5. \A r \in Peer : Acked(r) \in Nat
    BY Counts
  <1>. HIDE DEF a, f, rlr
  <1>6. modulus_distance(local_low_n_sent[p], rnd) = Sent(p) - u
    <2>2. Sent(p) \in Int /\ u \in Int /\ Lifetime \in Int /\ Modulus \in Int
      BY <1>1, StreamAssumption
    <2>0. u <= Sent(p)
      BY <1>1, <1>2
    <2>1. Sent(p) - u \in 0 .. Modulus - 1
      BY <2>0, <2>2 DEF PacketsExpireInTime
    <2>3. modulus_distance(Sent(p) % Modulus, u % Modulus) = Sent(p) - u
      BY <2>1, <2>2, DistanceNear
    <2>. QED  BY <1>3, <2>3
  <1>7. Acceptable(p, rnd) <=> a <= u
    <2>1. Acceptable(p, rnd) <=> Sent(p) - u <= InFlight(p)
      BY <1>6 DEF Acceptable, InFlight
    <2>2. InFlight(p) = Sent(p) - a /\ Sent(p) \in Int /\ a \in Int /\ u \in Int
      BY <1>1 DEF f, a
    <2>. QED  BY <2>1, <2>2
  <1>8. CASE ~ (a <= u)
    <2>1. UNCHANGED <<allocator, window, remote_low_n_received>>
      BY <1>7, <1>8 DEF receive_ack
    <2>2. \A r \in Peer : SenderOK(r)' /\ Sent(r)' = Sent(r) /\ Acked(r)' = Acked(r)
      BY <1>4, <2>1, SenderFrame
    <2>3. modulus_distance(rlr, rlr) = 0
      <3>1. a - a \in 0 .. Modulus - 1 /\ a \in Int
        BY <1>1
      <3>. QED  BY <1>3, <3>1, DistanceNear
    <2>4. /\ allocator \in [Peer -> Seq(Nat)]
          /\ window \in [Peer -> [SlotIndex -> Nat \cup {NoPacket}]]
          /\ remote_low_n_received \in [Peer -> SeqNumber]
      BY DEF IInv, TypeOK
    <2>. QED  BY <1>1, <1>4, <1>5, <2>1, <2>2, <2>3, <2>4 DEF rlr
  <1>9. CASE a <= u
    <2>. DEFINE n == u - a
    <2>1. n \in 0 .. f /\ n \in 0 .. WindowSize /\ n \in Int
      BY <1>1, <1>2, <1>9 DEF f, a
    <2>2. modulus_distance(rnd, rlr) = n
      <3>1. u - a \in 0 .. Modulus - 1 /\ u \in Int /\ a \in Int
        BY <1>1, <2>1
      <3>. QED  BY <1>3, <3>1, DistanceNear
    <2>. HIDE DEF n
    <2>3. /\ allocator' = [allocator EXCEPT ![p] = SubSeq(@, n + 1, Len(@))]
          /\ window' = [window EXCEPT ![p] = Cleared(@, rlr, n)]
          /\ remote_low_n_received' = [remote_low_n_received EXCEPT ![p] = rnd]
      BY <1>7, <1>9, <2>2 DEF receive_ack, Popped, rlr
    <2>4. /\ allocator \in [Peer -> Seq(Nat)]
          /\ window \in [Peer -> [SlotIndex -> Nat \cup {NoPacket}]]
          /\ remote_low_n_received \in [Peer -> SeqNumber]
          /\ submitted[p] \in Nat
      BY DEF IInv, TypeOK
    <2>5. /\ allocator'[p] \in Seq(Nat)
          /\ Len(allocator'[p]) = Len(allocator[p]) - n
          /\ \A i \in 1 .. Len(allocator'[p]) : allocator'[p][i] = allocator[p][n + i]
      <3>1. allocator'[p] = SubSeq(allocator[p], n + 1, Len(allocator[p]))
        BY <2>3, <2>4
      <3>2. n \in 0 .. Len(allocator[p]) /\ allocator[p] \in Seq(Nat)
        BY <1>1, <2>1, <2>4
      <3>. DEFINE t == SubSeq(allocator[p], n + 1, Len(allocator[p]))
      <3>3. /\ t \in Seq(Nat)
            /\ Len(t) = Len(allocator[p]) - n
            /\ \A i \in 1 .. Len(allocator[p]) - n : t[i] = allocator[p][n + i]
        BY <3>2, Suffix
      <3>. HIDE DEF t
      <3>4. allocator'[p] = t
        BY <3>1 DEF t
      <3>. QED  BY <3>3, <3>4
    <2>6. window'[p] = [i \in SlotIndex |-> IF StepsTo(i, rlr) < n THEN NoPacket
                                                                  ELSE window[p][i]]
      BY <2>3, <2>4 DEF Cleared
    <2>7. remote_low_n_received'[p] = rnd /\ rnd = Advance(rlr, n) /\ rnd \in SeqNumber
      <3>0. a \in Int /\ rlr = a % Modulus
        BY <1>1, <1>3
      <3>1. Advance(rlr, n) = (a + n) % Modulus /\ Advance(rlr, n) \in SeqNumber
        BY <2>1, <3>0, NextNumber
      <3>2. a + n = u
        BY <1>1 DEF n
      <3>. QED  BY <2>3, <2>4, <3>1, <3>2
    <2>8. Sent(p)' = Sent(p) /\ Acked(p)' = u
      <3>1. /\ submitted'[p] - Len(queue'[p]) = submitted[p] - Len(queue[p])
            /\ submitted'[p] - Len(allocator'[p]) = submitted[p] - (Len(allocator[p]) - n)
        BY <2>5
      <3>2. submitted[p] - Len(allocator[p]) = a
        BY DEF Acked, a
      <3>3. submitted[p] - (Len(allocator[p]) - n) = u
        <4>1. Len(allocator[p]) \in Int /\ submitted[p] \in Int
          BY <2>4
        <4>2. u \in Int /\ a \in Int /\ n \in Int
          BY <1>1, <2>1
        <4>3. n = u - a
          BY DEF n
        <4>. HIDE DEF n
        <4>. QED  BY <3>2, <4>1, <4>2, <4>3
      <3>. QED  BY <3>1, <3>3 DEF Sent, Acked
    <2>9. ASSUME NEW i \in SlotIndex
          PROVE  window'[p][i] = IF StepsTo(i, rnd) < Sent(p) - u
                                   THEN u + StepsTo(i, rnd) ELSE NoPacket
      <3>1. window[p][i] = IF StepsTo(i, rlr) < f THEN a + StepsTo(i, rlr) ELSE NoPacket
        BY <1>4 DEF SenderOK, rlr, a, f
      <3>2. window'[p][i] = IF StepsTo(i, rlr) < n THEN NoPacket ELSE window[p][i]
        BY <2>6
      <3>3. Sent(p) - u = f - n /\ u = a + n
        BY <1>1 DEF f, a, n
      <3>4. a \in Int /\ f \in 0 .. WindowSize /\ n \in 0 .. f /\ rlr \in Int
        BY <1>1, <1>3, <2>1
      <3>. HIDE DEF n
      <3>5. /\ StepsTo(i, rlr) \in Nat /\ StepsTo(i, rnd) \in Nat
            /\ StepsTo(i, rnd) < f - n <=> ~ (StepsTo(i, rlr) < n) /\ StepsTo(i, rlr) < f
            /\ ~ (StepsTo(i, rlr) < n) => n + StepsTo(i, rnd) = StepsTo(i, rlr)
        <4>1. rnd = Advance(rlr, n)
          BY <2>7
        <4>2. StepsTo(i, rlr) \in Nat /\ StepsTo(i, Advance(rlr, n)) \in Nat
          BY <3>4, ClearedSlots
        <4>3. StepsTo(i, Advance(rlr, n)) < f - n <=>
                ~ (StepsTo(i, rlr) < n) /\ StepsTo(i, rlr) < f
          BY <3>4, ClearedSlots
        <4>4. ~ (StepsTo(i, rlr) < n) => n + StepsTo(i, Advance(rlr, n)) = StepsTo(i, rlr)
          BY <3>4, ClearedSlots
        <4>. QED  BY <4>1, <4>2, <4>3, <4>4
      <3>. DEFINE k == StepsTo(i, rlr)
                  l == StepsTo(i, rnd)
      <3>. HIDE DEF k, l
      <3>6. window'[p][i] = IF l < Sent(p) - u THEN u + l ELSE NoPacket
        BY <3>1, <3>2, <3>3, <3>4, <3>5 DEF k, l
      <3>. QED  BY <3>6 DEF l
    <2>10. SenderOK(p)'
      <3>1. \A i \in 1 .. Len(allocator[p]) : allocator[p][i] = a + i - 1
        BY <1>4 DEF SenderOK, a
      <3>2. ASSUME NEW i \in 1 .. Len(allocator'[p]) PROVE allocator'[p][i] = u + i - 1
        <4>1. Len(allocator[p]) \in Nat /\ Len(allocator'[p]) = Len(allocator[p]) - n
          BY <2>4, <2>5
        <4>2. n + i \in 1 .. Len(allocator[p]) /\ i \in Int
          BY <2>1, <4>1
        <4>3. allocator'[p][i] = a + (n + i) - 1
          BY <2>5, <3>1, <4>2
        <4>4. a + (n + i) - 1 = u + i - 1
          <5>1. a \in Int /\ u \in Int /\ n \in Int /\ i \in Int
            BY <1>1, <2>1, <4>2
          <5>2. n = u - a
            BY DEF n
          <5>. QED  BY <5>1, <5>2
        <4>. QED  BY <4>3, <4>4
      <3>3. /\ local_low_n_sent'[p] = Sent(p) % Modulus
            /\ \A i \in 1 .. Len(queue'[p]) : queue'[p][i] = Sent(p) + i - 1
        BY <1>3, <1>4 DEF SenderOK
      <3>4. u >= 0 /\ Sent(p) - u \in 0 .. WindowSize
        <4>1. Sent(p) - u = f - n /\ Sent(p) \in Int /\ a \in Int /\ u \in Int
          BY <1>1 DEF f, a, n
        <4>2. n \in 0 .. f /\ f \in 0 .. WindowSize /\ WindowSize \in Int
          BY <1>1, <2>1
        <4>. QED  BY <4>1, <4>2
      <3>. QED  BY <2>7, <2>8, <2>9, <3>2, <3>3, <3>4 DEF SenderOK
    <2>11. ASSUME NEW r \in Peer, r # p
           PROVE  SenderOK(r)' /\ Sent(r)' = Sent(r) /\ Acked(r)' = Acked(r)
      BY <1>4, <2>3, <2>4, <2>11, SenderFrame
    <2>12. /\ allocator' \in [Peer -> Seq(Nat)]
           /\ remote_low_n_received' \in [Peer -> SeqNumber]
      <3>1. allocator' \in [Peer -> Seq(Nat)]
        <4>1. SubSeq(allocator[p], n + 1, Len(allocator[p])) \in Seq(Nat)
          BY <2>3, <2>4, <2>5
        <4>. QED  BY <2>3, <2>4, <4>1
      <3>2. remote_low_n_received' \in [Peer -> SeqNumber]
        BY <2>3, <2>4, <2>7
      <3>. QED  BY <3>1, <3>2
    <2>13. window' \in [Peer -> [SlotIndex -> Nat \cup {NoPacket}]]
      <3>1. Cleared(window[p], rlr, n) \in [SlotIndex -> Nat \cup {NoPacket}]
        BY <2>4 DEF Cleared
      <3>. QED  BY <2>3, <2>4, <3>1
    <2>14. \A r \in Peer : SenderOK(r)' /\ Sent(r)' = Sent(r)
      BY <2>8, <2>10, <2>11
    <2>15. ASSUME NEW r \in Peer
           PROVE  Acked(r) <= Acked(r)' /\ Acked(r)' <= Len(delivered[Other(r)])
      <3>1. CASE r = p
        BY <2>8, <1>9, <3>1 DEF a
      <3>2. CASE r # p
        BY <2>11, <3>2, <1>4, <1>5
      <3>. QED  BY <3>1, <3>2
    <2>16. modulus_distance(remote_low_n_received'[p], rlr) = n /\ n <= f
      BY <2>1, <2>2, <2>7, <1>1
    <2>17. \A r \in Peer \ {p} : /\ Acked(r)' = Acked(r)
                                 /\ remote_low_n_received'[r] = remote_low_n_received[r]
      BY <2>3, <2>4, <2>11
    <2>. QED  BY <1>1, <2>1, <2>12, <2>13, <2>14, <2>15, <2>16, <2>17 DEF rlr
  <1>. QED  BY <1>8, <1>9

-----------------------------------------------------------------------------
\* The steps that change nothing an end knows of its messages: the packets
\* they add must be good ones.
LEMMA NetOnly ==
  ASSUME IInv,
         UNCHANGED <<local_low_n_sent, local_low_n_received, remote_low_n_received,
                     window, queue, allocator, submitted, delivered>>,
         running' \in [Peer -> BOOLEAN],
         \A pkt \in net' : pkt \in net \/ (pkt \in Packet /\ PacketOK(pkt))
  PROVE  IInv'
  <1>1. net' \subseteq Packet
    BY DEF IInv, TypeOK
  <1>2. TypeOK'
    BY <1>1 DEF IInv, TypeOK
  <1>3. \A r \in Peer : /\ SenderOK(r)' /\ ReceiverOK(r)' /\ LinkOK(r)'
                        /\ Sent(r)' = Sent(r)
    BY DEF IInv, NumbersStandForCounts, SenderOK, ReceiverOK, LinkOK, Sent, Acked
  <1>4. ASSUME NEW pkt \in net' PROVE PacketOK(pkt)'
    <2>1. pkt \in Packet /\ PacketOK(pkt)
      BY <1>1 DEF IInv, NumbersStandForCounts
    <2>2. pkt.from \in Peer /\ Other(pkt.from) \in Peer
      BY <2>1, Ends DEF Packet
    <2>. QED  BY <1>3, <2>1, <2>2 DEF PacketOK
  <1>. QED  BY <1>2, <1>3, <1>4 DEF IInv, NumbersStandForCounts

LEMMA SendStep ==
  ASSUME IInv, NEW p \in Peer, send(p)
  PROVE  IInv'
  <1>1. /\ queue \in [Peer -> Seq(Nat)] /\ allocator \in [Peer -> Seq(Nat)]
        /\ submitted \in [Peer -> Nat]
    BY DEF IInv, TypeOK
  <1>2. /\ queue' = [queue EXCEPT ![p] = Append(@, submitted[p])]
        /\ allocator' = [allocator EXCEPT ![p] = Append(@, submitted[p])]
        /\ submitted' = [submitted EXCEPT ![p] = @ + 1]
        /\ UNCHANGED <<local_low_n_sent, local_low_n_received, remote_low_n_received,
                       window, running, delivered, net>>
    BY DEF send
  <1>3. TypeOK'
    BY <1>1, <1>2 DEF IInv, TypeOK
  <1>4. ASSUME NEW r \in Peer
        PROVE  /\ SenderOK(r) /\ ReceiverOK(r) /\ LinkOK(r)
               /\ Sent(r) \in Int /\ Acked(r) \in Nat
    BY Counts DEF IInv, NumbersStandForCounts
  <1>5. Sent(p)' = Sent(p) /\ Acked(p)' = Acked(p)
    BY <1>1, <1>2 DEF Sent, Acked
  <1>6. SenderOK(p)'
    <2>1. ASSUME NEW i \in 1 .. Len(queue'[p]) PROVE queue'[p][i] = Sent(p) + i - 1
      <3>1. \A j \in 1 .. Len(queue[p]) : queue[p][j] = Sent(p) + j - 1
        BY <1>4 DEF SenderOK
      <3>2. /\ queue[p] \in Seq(Nat) /\ Len(queue[p]) \in Nat
            /\ queue'[p] = Append(queue[p], submitted[p]) /\ submitted[p] \in Nat
        BY <1>1, <1>2
      <3>3. /\ Len(queue'[p]) = Len(queue[p]) + 1
            /\ queue'[p][i] = IF i <= Len(queue[p]) THEN queue[p][i] ELSE submitted[p]
        BY <3>2
      <3>4. Sent(p) \in Int /\ submitted[p] = Sent(p) + (Len(queue[p]) + 1) - 1
        BY <3>2 DEF Sent
      <3>5. CASE i <= Len(queue[p])
        BY <3>1, <3>2, <3>3, <3>5
      <3>6. CASE ~ (i <= Len(queue[p]))
        <4>1. i = Len(queue[p]) + 1
          BY <3>2, <3>3, <3>6
        <4>. QED  BY <3>3, <3>4, <3>6, <4>1
      <3>. QED  BY <3>5, <3>6
    <2>2. ASSUME NEW i \in 1 .. Len(allocator'[p])
          PROVE  allocator'[p][i] = Acked(p) + i - 1
      <3>1. \A j \in 1 .. Len(allocator[p]) : allocator[p][j] = Acked(p) + j - 1
        BY <1>4 DEF SenderOK
      <3>2. /\ allocator[p] \in Seq(Nat) /\ Len(allocator[p]) \in Nat
            /\ allocator'[p] = Append(allocator[p], submitted[p]) /\ submitted[p] \in Nat
        BY <1>1, <1>2
      <3>3. /\ Len(allocator'[p]) = Len(allocator[p]) + 1
            /\ allocator'[p][i] = IF i <= Len(allocator[p]) THEN allocator[p][i] ELSE submitted[p]
        BY <3>2
      <3>4. Acked(p) \in Int /\ submitted[p] = Acked(p) + (Len(allocator[p]) + 1) - 1
        BY <3>2 DEF Acked
      <3>5. CASE i <= Len(allocator[p])
        BY <3>1, <3>2, <3>3, <3>5
      <3>6. CASE ~ (i <= Len(allocator[p]))
        <4>1. i = Len(allocator[p]) + 1
          BY <3>2, <3>3, <3>6
        <4>. QED  BY <3>3, <3>4, <3>6, <4>1
      <3>. QED  BY <3>5, <3>6
    <2>. QED  BY <1>2, <1>4, <1>5, <2>1, <2>2 DEF SenderOK
  <1>7. ASSUME NEW r \in Peer, r # p
        PROVE  SenderOK(r)' /\ Sent(r)' = Sent(r) /\ Acked(r)' = Acked(r)
    BY <1>1, <1>2, <1>4, <1>7, SenderFrame
  <1>8. \A r \in Peer : SenderOK(r)' /\ Sent(r)' = Sent(r) /\ Acked(r)' = Acked(r)
    BY <1>5, <1>6, <1>7
  <1>9. \A r \in Peer : ReceiverOK(r)' /\ LinkOK(r)'
    BY <1>2, <1>4, <1>8 DEF ReceiverOK, LinkOK
  <1>10. ASSUME NEW pkt \in net' PROVE PacketOK(pkt)'
    <2>1. pkt \in Packet /\ PacketOK(pkt)
      BY <1>2 DEF IInv, TypeOK, NumbersStandForCounts
    <2>2. pkt.from \in Peer /\ Other(pkt.from) \in Peer
      BY <2>1, Ends DEF Packet
    <2>. QED  BY <1>2, <1>8, <2>1, <2>2 DEF PacketOK
  <1>. QED  BY <1>3, <1>8, <1>9, <1>10 DEF IInv, NumbersStandForCounts

LEMMA ResendStep ==
  ASSUME IInv, NEW p \in Peer, update_Resend(p)
  PROVE  IInv'
  <1>. DEFINE q == Other(p)
              a == Acked(p)
  <1>1. /\ a \in Nat /\ Sent(p) \in Int /\ InFlight(p) = Sent(p) - a
        /\ InFlight(p) \in 0 .. WindowSize /\ WindowSize \in Nat
        /\ Len(delivered[p]) \in Nat /\ Sent(q) \in Int /\ Acked(q) \in Nat
        /\ Sent(q) - Acked(q) \in 0 .. WindowSize
        /\ p \in Peer /\ q \in Peer /\ Other(q) = p
    BY Counts, Ends, Parameters
  <1>2. /\ SenderOK(p) /\ local_low_n_received[p] = Len(delivered[p]) % Modulus
        /\ Acked(q) <= Len(delivered[p])
        /\ local_low_n_received[p] \in SeqNumber
    BY <1>1 DEF IInv, TypeOK, NumbersStandForCounts, ReceiverOK, LinkOK
  <1>3. WindowSize < Lifetime /\ Lifetime \in Nat
    BY StreamAssumption
  <1>4. ASSUME NEW j \in 0 .. InFlight(p) - 1
        PROVE  resent(p, j) \in Packet /\ PacketOK(resent(p, j))
    <2>. DEFINE rlr == remote_low_n_received[p]
                i == Slot(Advance(rlr, j))
    <2>1. j \in 0 .. WindowSize - 1 /\ j \in Int /\ a \in Int /\ rlr = a % Modulus
      BY <1>1, <1>2 DEF SenderOK
    <2>2. /\ Advance(rlr, j) = (a + j) % Modulus /\ Advance(rlr, j) \in SeqNumber
          /\ rlr \in Int
      BY <2>1, NextNumber
    <2>3. i \in SlotIndex /\ StepsTo(i, rlr) = j
      BY <2>1, <2>2, StepsToSlot
    <2>4. window[p][i] = a + j
      BY <1>1, <1>2, <2>3 DEF SenderOK
    <2>. HIDE DEF rlr, i, a, q
    <2>5. resent(p, j) = StreamPacket(p, (a + j) % Modulus, local_low_n_received[p],
                                      a + j, Len(delivered[p]))
      BY <2>2, <2>4 DEF resent, rlr, i
    <2>6. a + j \in Nat /\ (a + j) % Modulus \in SeqNumber
      BY <1>1, <2>1, <2>2
    <2>7. resent(p, j) \in Packet
      BY <1>1, <1>2, <2>5, <2>6 DEF StreamPacket, Packet
    <2>8. a + j < Sent(p) /\ Sent(p) - (a + j) < Lifetime
      <3>1. Sent(p) \in Int /\ a \in Int /\ j \in Int /\ WindowSize \in Int
        BY <1>1, <2>1
      <3>2. 0 <= j /\ j < Sent(p) - a /\ Sent(p) - a <= WindowSize
        BY <1>1, <2>1
      <3>. QED  BY <1>3, <3>1, <3>2
    <2>9. Sent(q) - Len(delivered[p]) < Lifetime
      <3>1. Sent(q) - Acked(q) <= WindowSize /\ Acked(q) <= Len(delivered[p])
        BY <1>1, <1>2
      <3>2. /\ Sent(q) \in Int /\ Acked(q) \in Int /\ Len(delivered[p]) \in Int
            /\ WindowSize \in Int
        BY <1>1
      <3>. QED  BY <1>3, <3>1, <3>2
    <2>10. PacketOK(resent(p, j))
      <3>1. local_low_n_received[p] = Len(delivered[p]) % Modulus
        BY <1>2
      <3>. QED  BY <2>5, <2>8, <2>9, <3>1 DEF StreamPacket, PacketOK, q
    <2>. QED  BY <2>7, <2>10
  <1>5. /\ net' = net \cup {resent(p, j) : j \in 0 .. InFlight(p) - 1}
        /\ UNCHANGED <<local_low_n_sent, local_low_n_received, remote_low_n_received,
                       window, queue, allocator, running, submitted, delivered>>
    BY DEF update_Resend, Unacknowledged
  <1>6. running' \in [Peer -> BOOLEAN]
    BY <1>5 DEF IInv, TypeOK
  <1>7. \A pkt \in net' : pkt \in net \/ (pkt \in Packet /\ PacketOK(pkt))
    BY <1>4, <1>5
  <1>. QED  BY <1>5, <1>6, <1>7, NetOnly

\* ping, ping_response, a lost packet and a crash.
LEMMA PingStep ==
  ASSUME IInv, NEW p \in Peer, Ping(p) \/ \E pkt \in net : receive_Ping(p, pkt)
  PROVE  IInv'
  <1>. DEFINE q == Other(p)
  <1>1. /\ Len(delivered[p]) \in Nat /\ Sent(q) \in Int /\ Acked(q) \in Nat
        /\ Sent(q) - Acked(q) \in 0 .. WindowSize /\ WindowSize \in Nat
        /\ q \in Peer /\ Other(q) = p
    BY Counts, Ends, Parameters
  <1>2. /\ local_low_n_received[p] = Len(delivered[p]) % Modulus
        /\ Acked(q) <= Len(delivered[p]) /\ local_low_n_received[p] \in SeqNumber
    BY <1>1 DEF IInv, TypeOK, NumbersStandForCounts, ReceiverOK, LinkOK
  <1>3. WindowSize < Lifetime /\ Lifetime \in Nat
    BY StreamAssumption
  <1>4. PingAnswer(p) \in Packet
    BY <1>1, <1>2 DEF PingAnswer, AckPacket, Packet
  <1>5. PacketOK(PingAnswer(p))
    BY <1>1, <1>2, <1>3 DEF PingAnswer, AckPacket, PacketOK
  <1>6. PingPacket(p) \in Packet /\ PacketOK(PingPacket(p))
    BY DEF PingPacket, Packet, PacketOK
  <1>7. /\ UNCHANGED <<local_low_n_sent, local_low_n_received, remote_low_n_received,
                       window, queue, allocator, running, submitted, delivered>>
        /\ net' \subseteq net \cup {PingPacket(p), PingAnswer(p)}
    BY DEF Ping, receive_Ping
  <1>8. running' \in [Peer -> BOOLEAN]
    BY <1>7 DEF IInv, TypeOK
  <1>9. \A pkt \in net' : pkt \in net \/ (pkt \in Packet /\ PacketOK(pkt))
    BY <1>4, <1>5, <1>6, <1>7
  <1>. QED  BY <1>7, <1>8, <1>9, NetOnly

LEMMA LoseStep ==
  ASSUME IInv, NEW pkt \in net, Lose(pkt)
  PROVE  IInv'
  <1>1. /\ UNCHANGED <<local_low_n_sent, local_low_n_received, remote_low_n_received,
                       window, queue, allocator, running, submitted, delivered>>
        /\ net' \subseteq net
    BY DEF Lose
  <1>2. running' \in [Peer -> BOOLEAN]
    BY <1>1 DEF IInv, TypeOK
  <1>. QED  BY <1>1, <1>2, NetOnly

LEMMA CrashStep ==
  ASSUME IInv, NEW p \in Peer, send_NoRoom(p)
  PROVE  IInv'
  <1>1. /\ UNCHANGED <<local_low_n_sent, local_low_n_received, remote_low_n_received,
                       window, queue, allocator, submitted, delivered>>
        /\ net' = net
        /\ running' = [running EXCEPT ![p] = FALSE]
    BY DEF send_NoRoom
  <1>2. running' \in [Peer -> BOOLEAN]
    BY <1>1 DEF IInv, TypeOK
  <1>. QED  BY <1>1, <1>2, NetOnly

-----------------------------------------------------------------------------
\* Draining the queue fills the free slots of the window in order; packets
\* that are too old by now have left the network.
LEMMA DrainStep ==
  ASSUME IInv, NEW p \in Peer, update_Drain(p)
  PROVE  IInv'
  <1>. DEFINE n == Drained(p)
              lls == local_low_n_sent[p]
              rlr == remote_low_n_received[p]
              a == Acked(p)
              f == Sent(p) - Acked(p)
              fresh == {StreamPacket(p, Advance(lls, j), local_low_n_received[p],
                                     queue[p][j + 1], Len(delivered[p])) : j \in 0 .. n - 1}
              sent == [q \in Peer |-> IF q = p THEN Sent(p) + n ELSE Sent(q)]
  <1>1. /\ window' = [window EXCEPT ![p] =
                        [i \in SlotIndex |-> IF StepsTo(i, lls) < n
                                               THEN queue[p][StepsTo(i, lls) + 1]
                                               ELSE @[i]]]
        /\ queue' = [queue EXCEPT ![p] = SubSeq(@, n + 1, Len(@))]
        /\ local_low_n_sent' = [local_low_n_sent EXCEPT ![p] = Advance(@, n)]
        /\ net' = {pkt \in net \cup fresh : Fresh(pkt, sent)}
        /\ UNCHANGED <<local_low_n_received, remote_low_n_received, allocator,
                       running, submitted, delivered>>
        /\ n > 0
    BY DEF update_Drain
  <1>2. /\ queue \in [Peer -> Seq(Nat)] /\ allocator \in [Peer -> Seq(Nat)]
        /\ submitted \in [Peer -> Nat] /\ local_low_n_sent \in [Peer -> SeqNumber]
        /\ window \in [Peer -> [SlotIndex -> Nat \cup {NoPacket}]]
        /\ local_low_n_received[p] \in SeqNumber
    BY DEF IInv, TypeOK
  <1>3. /\ Sent(p) \in Int /\ a \in Nat /\ f \in 0 .. WindowSize
        /\ Len(delivered[p]) \in Nat /\ Len(queue[p]) \in Nat
        /\ Room(p) = WindowSize - f /\ WindowSize \in Nat
    BY Counts, Parameters
  <1>4. \A r \in Peer : SenderOK(r) /\ ReceiverOK(r) /\ LinkOK(r)
    BY DEF IInv, NumbersStandForCounts
  <1>5. lls = Sent(p) % Modulus /\ rlr = a % Modulus
    BY <1>4 DEF SenderOK
  <1>6. n \in 0 .. WindowSize - f /\ n <= Len(queue[p]) /\ n \in Int
    BY <1>3 DEF Drained
  <1>. HIDE DEF n, lls, rlr, a, f, fresh, sent
  <1>7. \A i \in 1 .. Len(queue[p]) : queue[p][i] = Sent(p) + i - 1
    BY <1>4 DEF SenderOK
  <1>8. /\ queue'[p] \in Seq(Nat) /\ Len(queue'[p]) = Len(queue[p]) - n
        /\ \A i \in 1 .. Len(queue[p]) - n : queue'[p][i] = queue[p][n + i]
    <2>1. n \in 0 .. Len(queue[p]) /\ queue[p] \in Seq(Nat)
      BY <1>2, <1>3, <1>6
    <2>2. queue'[p] = SubSeq(queue[p], n + 1, Len(queue[p]))
      BY <1>1, <1>2
    <2>3. /\ SubSeq(queue[p], n + 1, Len(queue[p])) \in Seq(Nat)
          /\ Len(SubSeq(queue[p], n + 1, Len(queue[p]))) = Len(queue[p]) - n
          /\ \A i \in 1 .. Len(queue[p]) - n :
               SubSeq(queue[p], n + 1, Len(queue[p]))[i] = queue[p][n + i]
      BY <2>1, Suffix
    <2>. QED  BY <2>2, <2>3
  <1>9. Sent(p)' = Sent(p) + n /\ Acked(p)' = a
    <2>1. submitted'[p] - Len(queue'[p]) = submitted[p] - (Len(queue[p]) - n)
      BY <1>1, <1>8
    <2>2. submitted[p] - Len(queue[p]) = Sent(p) /\ submitted[p] \in Nat
      BY <1>2 DEF Sent
    <2>3. submitted[p] - (Len(queue[p]) - n) = Sent(p) + n
      BY <1>3, <1>6, <2>2
    <2>4. submitted'[p] - Len(allocator'[p]) = a
      BY <1>1 DEF Acked, a
    <2>. QED  BY <2>1, <2>3, <2>4 DEF Sent, Acked
  <1>10. /\ local_low_n_sent'[p] = (Sent(p) + n) % Modulus
         /\ local_low_n_sent'[p] \in SeqNumber
    <2>1. Advance(lls, n) = (Sent(p) + n) % Modulus /\ Advance(lls, n) \in SeqNumber
      BY <1>3, <1>5, <1>6, NextNumber
    <2>. QED  BY <1>1, <1>2, <2>1 DEF lls
  <1>11. /\ rlr \in Int /\ rlr \in SeqNumber /\ lls = Advance(rlr, f) /\ lls \in Int
    <2>1. f \in Int /\ a \in Int /\ a + f = Sent(p)
      BY <1>3 DEF a, f
    <2>2. Advance(rlr, f) = (a + f) % Modulus /\ rlr \in Int
      BY <1>5, <2>1, NextNumber
    <2>3. lls \in Int
      BY <1>3, <1>5, <1>6, NextNumber
    <2>4. rlr \in SeqNumber
      BY DEF IInv, TypeOK, rlr
    <2>. QED  BY <1>5, <2>1, <2>2, <2>3, <2>4
  <1>12. ASSUME NEW i \in SlotIndex
         PROVE  window'[p][i] = IF StepsTo(i, rlr) < f + n
                                  THEN a + StepsTo(i, rlr) ELSE NoPacket
    <2>. DEFINE k == StepsTo(i, rlr)
                l == StepsTo(i, lls)
    <2>1. window[p][i] = IF k < f THEN a + k ELSE NoPacket
      BY <1>4 DEF SenderOK, a, f, rlr
    <2>2. window'[p][i] = IF l < n THEN queue[p][l + 1] ELSE window[p][i]
      BY <1>1, <1>2 DEF lls
    <2>3. /\ k \in Nat /\ l \in Nat
          /\ l < n <=> ~ (k < f) /\ k < f + n
          /\ ~ (k < f) => f + l = k
      BY <1>3, <1>6, <1>11, FilledSlots
    <2>. HIDE DEF k, l
    <2>4. Sent(p) = a + f
      BY <1>3 DEF a, f
    <2>5. l < n => queue[p][l + 1] = a + f + l
      <3>1. ASSUME l < n PROVE l + 1 \in 1 .. Len(queue[p]) /\ Sent(p) + (l + 1) - 1 = a + f + l
        BY <1>3, <1>6, <2>3, <2>4, <3>1
      <3>. QED  BY <1>7, <3>1
    <2>6. window'[p][i] = IF k < f + n THEN a + k ELSE NoPacket
      BY <1>3, <1>6, <2>1, <2>2, <2>3, <2>5
    <2>. QED  BY <2>6 DEF k
  <1>13. SenderOK(p)'
    <2>1. ASSUME NEW i \in 1 .. Len(queue'[p])
          PROVE  queue'[p][i] = (Sent(p) + n) + i - 1
      <3>1. n + i \in 1 .. Len(queue[p]) /\ i \in 1 .. Len(queue[p]) - n /\ i \in Int
        BY <1>3, <1>6, <1>8
      <3>2. queue'[p][i] = Sent(p) + (n + i) - 1
        BY <1>7, <1>8, <3>1
      <3>. QED  BY <1>3, <1>6, <3>1, <3>2
    <2>2. \A i \in 1 .. Len(allocator'[p]) : allocator'[p][i] = a + i - 1
      BY <1>1, <1>4 DEF SenderOK, a
    <2>3. (Sent(p) + n) - a = f + n /\ f + n \in 0 .. WindowSize /\ a >= 0
      BY <1>3, <1>6 DEF f, a
    <2>4. remote_low_n_received'[p] = rlr
      BY <1>1 DEF rlr
    <2>. QED  BY <1>5, <1>9, <1>10, <1>12, <2>1, <2>2, <2>3, <2>4 DEF SenderOK
  <1>14. ASSUME NEW r \in Peer, r # p
         PROVE  SenderOK(r)' /\ Sent(r)' = Sent(r) /\ Acked(r)' = Acked(r)
    BY <1>1, <1>2, <1>4, <1>14, SenderFrame
  <1>15. ASSUME NEW r \in Peer PROVE ReceiverOK(r)' /\ LinkOK(r)'
    <2>1. ReceiverOK(r)'
      BY <1>1, <1>4 DEF ReceiverOK
    <2>2. Acked(r) <= Len(delivered[Other(r)]) /\ Len(delivered[Other(r)]) <= Sent(r)
      BY <1>4 DEF LinkOK
    <2>3. Len(delivered[Other(r)]) \in Nat /\ Sent(r) \in Int
      BY Ends, Counts
    <2>4. Acked(r)' = Acked(r) /\ Sent(r)' >= Sent(r) /\ Sent(r)' \in Int
      BY <1>3, <1>6, <1>9, <1>14, <2>3 DEF a
    <2>5. LinkOK(r)'
      BY <1>1, <2>2, <2>3, <2>4 DEF LinkOK
    <2>. QED  BY <2>1, <2>5
  <1>16. \A r \in Peer : Sent(r)' = sent[r]
    BY <1>9, <1>14 DEF sent
  <1>17. ASSUME NEW pkt \in fresh
         PROVE  /\ pkt \in Packet
                /\ Fresh(pkt, sent) => PacketOK(pkt)'
    <2>1. PICK j \in 0 .. n - 1 :
            pkt = StreamPacket(p, Advance(lls, j), local_low_n_received[p],
                               queue[p][j + 1], Len(delivered[p]))
      BY DEF fresh
    <2>2. j \in Int /\ j < n /\ j >= 0 /\ j + 1 \in 1 .. Len(queue[p])
      BY <1>3, <1>6
    <2>3. queue[p][j + 1] = Sent(p) + j /\ queue[p][j + 1] \in Nat
      <3>1. queue[p][j + 1] = Sent(p) + (j + 1) - 1
        BY <1>7, <2>2
      <3>2. Sent(p) + j \in Nat
        BY <1>3, <2>2 DEF f, a
      <3>. QED  BY <1>3, <2>2, <3>1, <3>2
    <2>4. /\ Advance(lls, j) = (Sent(p) + j) % Modulus
          /\ Advance(lls, j) \in SeqNumber
      BY <1>3, <1>5, <2>2, NextNumber
    <2>5. /\ pkt.kind = "stream" /\ pkt.from = p
          /\ pkt.id = (Sent(p) + j) % Modulus /\ pkt.data = Sent(p) + j
          /\ pkt.rnd = local_low_n_received[p] /\ pkt.upto = Len(delivered[p])
      BY <2>1, <2>3, <2>4 DEF StreamPacket
    <2>6. pkt \in Packet
      BY <1>2, <1>3, <2>1, <2>3, <2>4 DEF StreamPacket, Packet
    <2>7. Sent(p) + j < Sent(p) + n
      BY <1>3, <1>6, <2>2
    <2>8. Other(p) \in Peer
      BY Ends
    <2>9. local_low_n_received[p] = Len(delivered[p]) % Modulus
      BY <1>4 DEF ReceiverOK
    <2>10. SUFFICES ASSUME Fresh(pkt, sent) PROVE PacketOK(pkt)'
      BY <2>6
    <2>11. sent[p] - pkt.data < Lifetime /\ sent[Other(p)] - pkt.upto < Lifetime
      BY <2>5, <2>10 DEF Fresh
    <2>12. /\ pkt.id = pkt.data % Modulus /\ pkt.data < Sent(p)'
           /\ Sent(p)' - pkt.data < Lifetime
      BY <1>9, <1>16, <2>5, <2>7, <2>11
    <2>13. Len(delivered'[p]) = Len(delivered[p])
      BY <1>1
    <2>14. /\ pkt.rnd = pkt.upto % Modulus
           /\ pkt.upto <= Len(delivered'[p])
           /\ Sent(Other(p))' - pkt.upto < Lifetime
      BY <1>3, <1>16, <2>5, <2>8, <2>9, <2>11, <2>13
    <2>. QED  BY <2>5, <2>12, <2>14 DEF PacketOK
  <1>18. ASSUME NEW pkt \in net, Fresh(pkt, sent)
         PROVE  PacketOK(pkt)'
    <2>1. pkt \in Packet /\ PacketOK(pkt)
      BY DEF IInv, TypeOK, NumbersStandForCounts
    <2>2. pkt.from \in Peer /\ Other(pkt.from) \in Peer
      BY <2>1, Ends DEF Packet
    <2>3. /\ Sent(pkt.from)' = sent[pkt.from]
          /\ Sent(Other(pkt.from))' = sent[Other(pkt.from)]
      BY <1>16, <2>2
    <2>4. pkt.kind = "stream" => pkt.data \in Nat
      BY <2>1 DEF Packet
    <2>5. \A r \in Peer : Sent(r)' >= Sent(r) /\ Sent(r) \in Int /\ Sent(r)' \in Int
      <3>1. \A r \in Peer : Sent(r) \in Int
        BY Counts
      <3>2. Sent(p)' >= Sent(p) /\ Sent(p)' \in Int
        BY <1>3, <1>6, <1>9
      <3>. QED  BY <1>14, <3>1, <3>2
    <2>6. pkt.kind = "stream" => pkt.data < Sent(pkt.from)'
      BY <2>1, <2>2, <2>4, <2>5 DEF PacketOK
    <2>. QED  BY <1>1, <1>18, <2>1, <2>3, <2>6 DEF PacketOK, Fresh
  <1>19. net' \subseteq Packet /\ \A pkt \in net' : PacketOK(pkt)'
    <2>1. net \subseteq Packet
      BY DEF IInv, TypeOK
    <2>. QED  BY <1>1, <1>17, <1>18, <2>1
  <1>20. TypeOK'
    <2>1. window' \in [Peer -> [SlotIndex -> Nat \cup {NoPacket}]]
      <3>1. ASSUME NEW i \in SlotIndex
            PROVE  (IF StepsTo(i, lls) < n THEN queue[p][StepsTo(i, lls) + 1]
                      ELSE window[p][i]) \in Nat \cup {NoPacket}
        <4>1. i \in Int
          BY <1>3 DEF SlotIndex
        <4>2. StepsTo(i, lls) \in Nat
          BY <1>11, <4>1, StepsToType
        <4>3. StepsTo(i, lls) < n => queue[p][StepsTo(i, lls) + 1] \in Nat
          BY <1>2, <1>3, <1>6, <4>2
        <4>. QED  BY <1>2, <4>3
      <3>. QED  BY <1>1, <1>2, <3>1
    <2>2. queue' \in [Peer -> Seq(Nat)] /\ local_low_n_sent' \in [Peer -> SeqNumber]
      <3>1. /\ DOMAIN queue' = Peer /\ queue' = [r \in Peer |-> queue'[r]]
            /\ \A r \in Peer : r # p => queue'[r] = queue[r]
        BY <1>1, <1>2
      <3>2. /\ local_low_n_sent' = [r \in Peer |-> local_low_n_sent'[r]]
            /\ \A r \in Peer : r # p => local_low_n_sent'[r] = local_low_n_sent[r]
        BY <1>1, <1>2
      <3>3. \A r \in Peer : queue'[r] \in Seq(Nat)
        BY <1>2, <1>8, <3>1
      <3>4. \A r \in Peer : local_low_n_sent'[r] \in SeqNumber
        BY <1>2, <1>10, <3>2
      <3>. QED  BY <3>1, <3>2, <3>3, <3>4
    <2>. QED  BY <1>1, <1>19, <2>1, <2>2 DEF IInv, TypeOK
  <1>. QED
    BY <1>13, <1>14, <1>15, <1>19, <1>20 DEF IInv, NumbersStandForCounts

-----------------------------------------------------------------------------
\* The number the receiver waits for is that of the next message, never of one
\* sent a whole number space of messages before it.
LEMMA NextInOrder ==
  ASSUME IInv, PacketsExpireInTime, NEW p \in Peer, NEW pkt \in net,
         pkt.kind = "stream", pkt.from = Other(p), InOrder(p, pkt.id)
  PROVE  pkt.data = Len(delivered[p]) /\ pkt.data < Sent(Other(p))
  <1>. DEFINE q == Other(p)
              len == Len(delivered[p])
  <1>1. /\ pkt.data \in Nat /\ pkt.id = pkt.data % Modulus
        /\ pkt.data < Sent(q) /\ Sent(q) - pkt.data < Lifetime
    BY DEF IInv, TypeOK, NumbersStandForCounts, Packet, PacketOK
  <1>2. /\ q \in Peer /\ Other(q) = p
    BY Ends
  <1>3. /\ len \in Nat /\ Sent(q) \in Int /\ Acked(q) \in Nat
        /\ Sent(q) - Acked(q) \in 0 .. WindowSize /\ WindowSize \in Nat
        /\ Modulus \in Nat /\ WindowSize < Modulus /\ Lifetime <= Modulus
        /\ Lifetime \in Nat
    BY <1>2, Counts, Parameters, StreamAssumption DEF PacketsExpireInTime
  <1>4. /\ Acked(q) <= len /\ len <= Sent(q)
        /\ local_low_n_received[p] = len % Modulus
    BY <1>2 DEF IInv, NumbersStandForCounts, LinkOK, ReceiverOK
  <1>. HIDE DEF q, len
  <1>5. pkt.data % Modulus = len % Modulus
    BY <1>1, <1>4 DEF InOrder
  <1>6. pkt.data - len < Modulus /\ len - pkt.data < Modulus
    BY <1>1, <1>3, <1>4
  <1>7. pkt.data \in Int /\ len \in Int
    BY <1>1, <1>3
  <1>8. pkt.data = len
    BY <1>5, <1>6, <1>7, SameNumber
  <1>. QED  BY <1>1, <1>8 DEF q, len

\* A data packet brings its acknowledgement and, if it is the next in order,
\* its message: a late packet whose number has come round again does not exist.
LEMMA MessageStep ==
  ASSUME IInv, PacketsExpireInTime, NEW p \in Peer, NEW pkt \in net,
         receive_message(p, pkt)
  PROVE  IInv'
  <1>. DEFINE q == Other(p)
              len == Len(delivered[p])
              low == Advance(local_low_n_received[p], 1)
  <1>1. /\ pkt \in Packet /\ PacketOK(pkt) /\ pkt.kind = "stream" /\ pkt.from = q
        /\ receive_ack(p, pkt.rnd)
        /\ UNCHANGED <<local_low_n_sent, queue, running, submitted>>
    BY DEF IInv, TypeOK, NumbersStandForCounts, receive_message, Arrives
  <1>2. /\ q \in Peer /\ q # p /\ Other(q) = p /\ p \in Peer
        /\ \A r \in Peer : r = p \/ r = q
    BY Ends
  <1>3. /\ pkt.upto \in Nat /\ pkt.data \in Nat
        /\ pkt.id = pkt.data % Modulus /\ pkt.data < Sent(q)
        /\ Sent(q) - pkt.data < Lifetime
        /\ pkt.rnd = pkt.upto % Modulus /\ pkt.upto <= Len(delivered[q])
        /\ Sent(p) - pkt.upto < Lifetime
    BY <1>1, <1>2 DEF Packet, PacketOK
  <1>4. /\ allocator' \in [Peer -> Seq(Nat)]
        /\ window' \in [Peer -> [SlotIndex -> Nat \cup {NoPacket}]]
        /\ remote_low_n_received' \in [Peer -> SeqNumber]
        /\ \A r \in Peer : SenderOK(r)' /\ Sent(r)' = Sent(r)
        /\ \A r \in Peer : Acked(r)' <= Len(delivered[Other(r)])
    BY <1>1, <1>3, ReceiveAck
  <1>5. /\ len \in Nat /\ Sent(q) \in Int /\ Acked(q) \in Nat
        /\ Sent(q) - Acked(q) \in 0 .. WindowSize /\ WindowSize \in Nat
        /\ Modulus \in Nat /\ WindowSize < Modulus /\ Lifetime <= Modulus
        /\ Lifetime \in Nat
    BY <1>2, Counts, Parameters, StreamAssumption DEF PacketsExpireInTime
  <1>6. /\ Acked(q) <= len /\ len <= Sent(q)
        /\ local_low_n_received[p] = len % Modulus
        /\ \A i \in 1 .. len : delivered[p][i] = i - 1
    BY <1>2 DEF IInv, NumbersStandForCounts, LinkOK, ReceiverOK
  <1>7. \A r \in Peer : ReceiverOK(r) /\ LinkOK(r)
    BY DEF IInv, NumbersStandForCounts
  <1>8. \A r \in Peer : /\ Acked(r)' \in Int /\ Sent(r) \in Int
                        /\ Len(delivered[r]) \in Nat
    <2>1. ASSUME NEW r \in Peer PROVE Acked(r)' \in Int
      BY <1>1, <1>4 DEF IInv, TypeOK, Acked
    <2>. QED  BY <2>1, Counts
  <1>9. /\ delivered \in [Peer -> Seq(Nat)]
        /\ local_low_n_received \in [Peer -> SeqNumber]
        /\ net \subseteq Packet
    BY DEF IInv, TypeOK
  <1>10. CASE ~ InOrder(p, pkt.id)
    <2>1. UNCHANGED <<local_low_n_received, delivered, net>>
      BY <1>10 DEF receive_message
    <2>2. TypeOK'
      BY <1>1, <1>4, <2>1 DEF IInv, TypeOK
    <2>3. \A r \in Peer : ReceiverOK(r)' /\ LinkOK(r)'
      BY <1>4, <1>7, <2>1 DEF ReceiverOK, LinkOK
    <2>4. ASSUME NEW k \in net' PROVE PacketOK(k)'
      <3>1. k \in Packet /\ PacketOK(k) /\ TypeOK
        BY <2>1 DEF IInv, TypeOK, NumbersStandForCounts
      <3>2. \A r \in Peer : Len(delivered'[r]) >= Len(delivered[r])
        BY <1>8, <2>1
      <3>. QED  BY <1>4, <1>9, <2>1, <3>1, <3>2, PacketFrame
    <2>. QED  BY <1>4, <2>2, <2>3, <2>4 DEF IInv, NumbersStandForCounts
  <1>11. CASE InOrder(p, pkt.id)
    <2>1. /\ local_low_n_received' = [local_low_n_received EXCEPT ![p] = low]
          /\ delivered' = [delivered EXCEPT ![p] = Append(@, pkt.data)]
          /\ net' = net \cup {AckPacket(p, low, len + 1)}
      BY <1>11 DEF receive_message
    <2>. HIDE DEF len, low, q
    <2>2. pkt.data = len
      BY <1>1, <1>11, NextInOrder DEF q, len
    <2>3. low = (len + 1) % Modulus /\ low \in SeqNumber
      <3>1. len \in Int /\ 1 \in Int
        BY <1>5
      <3>. QED  BY <1>6, <3>1, NextNumber DEF low
    <2>4. /\ delivered' \in [Peer -> Seq(Nat)]
          /\ local_low_n_received' \in [Peer -> SeqNumber]
      BY <1>3, <1>9, <2>1, <2>3
    <2>5. /\ delivered'[p] = Append(delivered[p], pkt.data)
          /\ delivered'[q] = delivered[q]
          /\ local_low_n_received'[p] = low
          /\ local_low_n_received'[q] = local_low_n_received[q]
      BY <1>2, <1>9, <2>1
    <2>6. /\ Len(delivered'[p]) = len + 1
          /\ \A i \in 1 .. len : delivered'[p][i] = delivered[p][i]
          /\ delivered'[p][len + 1] = len
      <3>1. delivered[p] \in Seq(Nat) /\ pkt.data \in Nat
        BY <1>3, <1>9
      <3>. QED  BY <2>2, <2>5, <3>1 DEF len
    <2>7. ReceiverOK(p)'
      <3>1. ASSUME NEW i \in 1 .. len + 1 PROVE delivered'[p][i] = i - 1
        <4>1. CASE i \in 1 .. len
          BY <1>6, <2>6, <4>1
        <4>2. CASE i = len + 1
          BY <1>5, <2>6, <4>2
        <4>. QED  BY <1>5, <4>1, <4>2
      <3>. QED  BY <2>3, <2>5, <2>6, <3>1 DEF ReceiverOK
    <2>8. ReceiverOK(q)'
      BY <1>2, <1>7, <2>5 DEF ReceiverOK
    <2>9. LinkOK(q)'
      <3>1. Acked(q)' <= len /\ Acked(q)' \in Int
        BY <1>2, <1>4, <1>8 DEF len
      <3>2. Acked(q)' <= len + 1 /\ len + 1 <= Sent(q)
        BY <1>3, <1>5, <2>2, <3>1
      <3>. QED  BY <1>2, <1>4, <2>6, <3>2 DEF LinkOK
    <2>10. LinkOK(p)'
      <3>1. Acked(p)' <= Len(delivered[q]) /\ Len(delivered[q]) <= Sent(p)
        BY <1>2, <1>4, <1>7 DEF LinkOK, q
      <3>. QED  BY <1>2, <1>4, <2>5, <3>1 DEF LinkOK, q
    <2>11. \A r \in Peer : Len(delivered'[r]) >= Len(delivered[r])
      <3>1. Len(delivered'[p]) >= Len(delivered[p])
        BY <1>5, <2>6 DEF len
      <3>2. Len(delivered'[q]) >= Len(delivered[q])
        BY <1>2, <1>8, <2>5
      <3>. QED  BY <1>2, <3>1, <3>2
    <2>12. AckPacket(p, low, len + 1) \in Packet
      BY <1>2, <1>5, <2>3 DEF AckPacket, Packet
    <2>13. Sent(q)' - (len + 1) < Lifetime
      BY <1>2, <1>4, <1>5, <1>6, StreamAssumption
    <2>14. ASSUME NEW k \in net' PROVE PacketOK(k)'
      <3>1. CASE k \in net
        <4>1. k \in Packet /\ PacketOK(k) /\ TypeOK
          BY <3>1 DEF IInv, TypeOK, NumbersStandForCounts
        <4>. QED  BY <1>4, <2>4, <2>11, <4>1, PacketFrame
      <3>2. CASE k = AckPacket(p, low, len + 1)
        <4>1. /\ k.kind = "ack" /\ k.from = p
              /\ k.rnd = low /\ k.upto = len + 1
          BY <3>2 DEF AckPacket
        <4>2. k.rnd = k.upto % Modulus /\ k.upto <= Len(delivered'[p])
          BY <1>5, <2>3, <2>6, <4>1
        <4>. QED  BY <2>13, <4>1, <4>2 DEF PacketOK, q
      <3>. QED  BY <2>1, <3>1, <3>2
    <2>15. TypeOK'
      BY <1>1, <1>4, <1>9, <2>1, <2>4, <2>12 DEF IInv, TypeOK
    <2>16. \A r \in Peer : ReceiverOK(r)' /\ LinkOK(r)'
      BY <1>2, <2>7, <2>8, <2>9, <2>10
    <2>. QED  BY <1>4, <2>14, <2>15, <2>16 DEF IInv, NumbersStandForCounts
  <1>. QED  BY <1>10, <1>11

LEMMA AckPacketStep ==
  ASSUME IInv, PacketsExpireInTime, NEW p \in Peer, NEW pkt \in net,
         receive_AckPacket(p, pkt)
  PROVE  IInv'
  <1>1. /\ pkt \in Packet /\ PacketOK(pkt) /\ pkt.kind = "ack" /\ pkt.from = Other(p)
        /\ receive_ack(p, pkt.rnd)
        /\ UNCHANGED <<local_low_n_sent, local_low_n_received, queue, running,
                       submitted, delivered, net>>
    BY DEF IInv, TypeOK, NumbersStandForCounts, receive_AckPacket, Arrives
  <1>2. /\ pkt.upto \in Nat /\ pkt.rnd = pkt.upto % Modulus
        /\ pkt.upto <= Len(delivered[Other(p)]) /\ Sent(p) - pkt.upto < Lifetime
    BY <1>1, Ends DEF Packet, PacketOK
  <1>3. /\ allocator' \in [Peer -> Seq(Nat)]
        /\ window' \in [Peer -> [SlotIndex -> Nat \cup {NoPacket}]]
        /\ remote_low_n_received' \in [Peer -> SeqNumber]
        /\ \A r \in Peer : SenderOK(r)' /\ Sent(r)' = Sent(r)
        /\ \A r \in Peer : Acked(r)' <= Len(delivered[Other(r)])
    BY <1>1, <1>2, ReceiveAck
  <1>4. TypeOK'
    BY <1>1, <1>3 DEF IInv, TypeOK
  <1>5. \A r \in Peer : ReceiverOK(r)' /\ LinkOK(r)'
    BY <1>1, <1>3 DEF IInv, NumbersStandForCounts, ReceiverOK, LinkOK
  <1>6. ASSUME NEW k \in net' PROVE PacketOK(k)'
    <2>1. k \in Packet /\ PacketOK(k) /\ TypeOK
      BY <1>1 DEF IInv, TypeOK, NumbersStandForCounts
    <2>2. /\ \A r \in Peer : Len(delivered'[r]) >= Len(delivered[r])
          /\ delivered' \in [Peer -> Seq(Nat)]
      BY <1>1, Counts DEF IInv, TypeOK
    <2>. QED  BY <1>3, <2>1, <2>2, PacketFrame
  <1>. QED  BY <1>3, <1>4, <1>5, <1>6 DEF IInv, NumbersStandForCounts

-----------------------------------------------------------------------------
LEMMA Stutter == IInv /\ UNCHANGED vars => IInv'
  <1>. SUFFICES ASSUME IInv, UNCHANGED vars PROVE IInv'
    OBVIOUS
  <1>1. running' \in [Peer -> BOOLEAN]
    BY DEF IInv, TypeOK, vars
  <1>. QED  BY <1>1, NetOnly DEF vars

LEMMA StepInv ==
  ASSUME IInv, PacketsExpireInTime, [Next]_vars
  PROVE  IInv'
  <1>1. ASSUME NEW p \in Peer, Step(p) PROVE IInv'
    <2>1. CASE send(p)
      BY <2>1, SendStep
    <2>2. CASE send_NoRoom(p)
      BY <2>2, CrashStep
    <2>3. CASE update_Drain(p)
      BY <2>3, DrainStep
    <2>4. CASE update_Resend(p)
      BY <2>4, ResendStep
    <2>5. CASE Ping(p)
      BY <2>5, PingStep
    <2>6. CASE \E pkt \in net : receive_message(p, pkt)
      BY <2>6, MessageStep
    <2>7. CASE \E pkt \in net : receive_AckPacket(p, pkt)
      BY <2>7, AckPacketStep
    <2>8. CASE \E pkt \in net : receive_Ping(p, pkt)
      BY <2>8, PingStep
    <2>. QED  BY <1>1, <2>1, <2>2, <2>3, <2>4, <2>5, <2>6, <2>7, <2>8 DEF Step
  <1>2. ASSUME NEW pkt \in net, Lose(pkt) PROVE IInv'
    BY <1>2, LoseStep
  <1>3. CASE UNCHANGED vars
    BY <1>3, Stutter
  <1>. QED  BY <1>1, <1>2, <1>3 DEF Next

THEOREM Invariance == PacketsExpireInTime /\ Spec => []IInv
  <1>. SUFFICES ASSUME PacketsExpireInTime PROVE Spec => []IInv
    OBVIOUS
  <1>1. Init => IInv
    BY InitInv
  <1>2. IInv /\ [Next]_vars => IInv'
    BY StepInv
  <1>. QED  BY <1>1, <1>2, PTL DEF Spec

\* Every variable holds values of its kind: the counters of both ends stay
\* 8-bit numbers and a packet is only ever sent from a slot that holds one.
THEOREM TypeCorrect == PacketsExpireInTime /\ Spec => []TypeOK
  BY Invariance, PTL DEF IInv

\* Both ends and every packet agree, for any number of messages, on which one
\* each 8-bit number, slot and block stands for.
THEOREM NumbersKeepTheirMeaning ==
  PacketsExpireInTime /\ Spec => []NumbersStandForCounts
  BY Invariance, PTL DEF IInv

\* An application sees the messages of the other end once each and in order
\* (stream_messenger::receive_message), whatever the network loses, repeats
\* or reorders, for any number of messages.
THEOREM DeliversInOrder == PacketsExpireInTime /\ Spec => []InOrderOnce
  <1>1. ASSUME IInv, NEW p \in Peer
        PROVE  /\ Len(delivered[p]) <= Sent(Other(p))
               /\ \A i \in 1 .. Len(delivered[p]) : delivered[p][i] = i - 1
    <2>1. Other(p) \in Peer /\ Other(Other(p)) = p
      BY Ends
    <2>. QED  BY <2>1, <1>1 DEF IInv, NumbersStandForCounts, LinkOK, ReceiverOK
  <1>2. IInv => InOrderOnce
    BY <1>1 DEF InOrderOnce
  <1>. QED  BY <1>2, Invariance, PTL

\* receive_ack frees the memory of a message only when the application of the
\* other end has the message.
THEOREM FreesOnlyDelivered == PacketsExpireInTime /\ Spec => []FreedWereDelivered
  <1>1. IInv => FreedWereDelivered
    BY DEF IInv, NumbersStandForCounts, LinkOK, FreedWereDelivered
  <1>. QED  BY <1>1, Invariance, PTL

\* The blocks pop_front frees by age are those of the slots receive_ack clears
\* by number: block, slot and queue never get out of step.
THEOREM BlocksMatchPackets == PacketsExpireInTime /\ Spec => []BlocksAreThePackets
  <1>1. ASSUME IInv, NEW p \in Peer
        PROVE  allocator[p] =
                 [j \in 1 .. InFlight(p) |->
                    window[p][Slot(Advance(remote_low_n_received[p], j - 1))]] \o queue[p]
    <2>. DEFINE f == InFlight(p)
                a == Acked(p)
    <2>1. /\ f \in 0 .. WindowSize /\ f = Sent(p) - a /\ a \in Nat /\ Sent(p) \in Int
          /\ Len(allocator[p]) = f + Len(queue[p])
      BY <1>1, Counts
    <2>2. /\ allocator[p] \in Seq(Nat) /\ queue[p] \in Seq(Nat)
      BY <1>1 DEF IInv, TypeOK
    <2>3. SenderOK(p)
      BY <1>1 DEF IInv, NumbersStandForCounts
    <2>4. a + f = Sent(p)
      BY <2>1
    <2>5. AllCount(allocator[p], window[p], remote_low_n_received[p], f, queue[p], a)
      <3>1. \A i \in SlotIndex :
              StepsTo(i, remote_low_n_received[p]) < f =>
                window[p][i] = a + StepsTo(i, remote_low_n_received[p])
        BY <2>1, <2>3 DEF SenderOK
      <3>. HIDE DEF f
      <3>2. \A i \in 1 .. Len(queue[p]) : queue[p][i] = (a + f) + i - 1
        BY <2>3, <2>4 DEF SenderOK
      <3>. QED  BY <2>1, <2>2, <2>3, <3>1, <3>2 DEF AllCount, SenderOK
    <2>. HIDE DEF f
    <2>6. allocator[p] = WindowThenQueue(window[p], remote_low_n_received[p], f, queue[p])
      BY <2>5, CountingWindow
    <2>. QED  BY <2>6 DEF f, WindowThenQueue
  <1>2. IInv => BlocksAreThePackets
    BY <1>1 DEF BlocksAreThePackets
  <1>. QED  BY <1>2, Invariance, PTL

-----------------------------------------------------------------------------
\* An acknowledgement never moves remote_low_n_received past local_low_n_sent
\* (stream_messenger::receive_ack), also across the wrap of the numbers.
THEOREM AcksMoveForward == PacketsExpireInTime /\ Spec => AckMovesForward
  <1>. SUFFICES ASSUME PacketsExpireInTime PROVE Spec => AckMovesForward
    OBVIOUS
  <1>1. ASSUME IInv, [Next]_vars, NEW r \in Peer
        PROVE  modulus_distance(remote_low_n_received'[r], remote_low_n_received[r])
                 <= InFlight(r)
    <2>1. CASE remote_low_n_received'[r] = remote_low_n_received[r]
      <3>1. remote_low_n_received[r] = Acked(r) % Modulus
        BY <1>1 DEF IInv, NumbersStandForCounts, SenderOK
      <3>2. /\ Acked(r) \in Int /\ Acked(r) - Acked(r) \in 0 .. Modulus - 1
            /\ InFlight(r) >= Acked(r) - Acked(r)
        BY <1>1, Counts, Parameters
      <3>. QED  BY <2>1, <3>1, <3>2, DistanceNear
    <2>2. ASSUME NEW p \in Peer, NEW pkt \in net,
                 receive_message(p, pkt) \/ receive_AckPacket(p, pkt)
          PROVE  modulus_distance(remote_low_n_received'[r], remote_low_n_received[r])
                   <= InFlight(r)
      <3>1. /\ pkt \in Packet /\ PacketOK(pkt) /\ pkt.kind # "ping"
            /\ pkt.from = Other(p) /\ receive_ack(p, pkt.rnd)
            /\ UNCHANGED <<local_low_n_sent, queue, submitted>>
        BY <1>1, <2>2 DEF IInv, TypeOK, NumbersStandForCounts, receive_message,
                          receive_AckPacket, Arrives
      <3>2. /\ pkt.upto \in Nat /\ pkt.rnd = pkt.upto % Modulus
            /\ pkt.upto <= Len(delivered[Other(p)]) /\ Sent(p) - pkt.upto < Lifetime
        BY <3>1, Ends DEF Packet, PacketOK
      <3>3. /\ \A k \in Peer \ {p} : remote_low_n_received'[k] = remote_low_n_received[k]
            /\ modulus_distance(remote_low_n_received'[p], remote_low_n_received[p])
                 \in 0 .. InFlight(p)
        BY <1>1, <3>1, <3>2, ReceiveAck
      <3>4. InFlight(p) \in Int
        BY <1>1, Counts
      <3>. QED  BY <2>1, <3>3, <3>4
    <2>. QED
      BY <1>1, <2>1, <2>2 DEF Next, Step, vars, send, send_NoRoom, update_Drain,
                              update_Resend, Ping, receive_Ping, Lose
  <1>2. IInv /\ [Next]_vars =>
          [\A p \in Peer :
             modulus_distance(remote_low_n_received'[p], remote_low_n_received[p])
               <= InFlight(p)]_vars
    BY <1>1
  <1>. QED  BY <1>2, Invariance, PTL DEF Spec, AckMovesForward

\* The messenger implements an ordered exactly-once channel that gives up the
\* memory of a message only after handing it over: every step is a step of
\* FifoChannel or changes nothing of it.
THEOREM Implements == PacketsExpireInTime /\ Spec => ImplementsFifoChannel
  <1>. DEFINE released == [p \in Peer |-> Acked(p)]
  <1>. SUFFICES ASSUME PacketsExpireInTime PROVE Spec => Channel!Spec
    BY DEF ImplementsFifoChannel
  <1>1. Init => Channel!Init
    <2>. SUFFICES ASSUME Init PROVE Channel!Init
      OBVIOUS
    <2>1. \A p \in Peer : Acked(p) = 0
      BY DEF Init, Acked
    <2>. QED  BY <2>1 DEF Init, Channel!Init, Channel!Peer, Peer
  <1>2. ASSUME IInv, Next PROVE Channel!Next \/ UNCHANGED Channel!channelVars
    <2>1. /\ delivered \in [Peer -> Seq(Nat)] /\ submitted \in [Peer -> Nat]
          /\ allocator \in [Peer -> Seq(Nat)]
      BY <1>2 DEF IInv, TypeOK
    <2>2. CASE UNCHANGED <<submitted, allocator, delivered>>
      BY <2>2 DEF Channel!channelVars, Acked
    <2>3. ASSUME NEW p \in Peer, send(p) PROVE Channel!Submit(p)
      <3>1. /\ submitted' = [submitted EXCEPT ![p] = @ + 1]
            /\ allocator' = [allocator EXCEPT ![p] = Append(@, submitted[p])]
            /\ delivered' = delivered
        BY <2>3 DEF send
      <3>2. ASSUME NEW r \in Peer PROVE Acked(r)' = Acked(r)
        <4>1. allocator[r] \in Seq(Nat) /\ submitted[r] \in Nat
          BY <2>1
        <4>2. CASE r = p
          <5>1. Len(allocator'[r]) = Len(allocator[r]) + 1
            BY <2>1, <3>1, <4>1, <4>2
          <5>2. submitted'[r] = submitted[r] + 1
            BY <2>1, <3>1, <4>2
          <5>. QED  BY <4>1, <5>1, <5>2 DEF Acked
        <4>3. CASE r # p
          BY <2>1, <3>1, <4>3 DEF Acked
        <4>. QED  BY <4>2, <4>3
      <3>3. released' = released
        BY <3>2
      <3>. QED  BY <3>1, <3>3 DEF Channel!Submit
    <2>4. ASSUME NEW p \in Peer, NEW pkt \in net,
                 receive_message(p, pkt) \/ receive_AckPacket(p, pkt)
          PROVE  Channel!Exchange(p)
      <3>1. /\ pkt \in Packet /\ PacketOK(pkt) /\ pkt.kind # "ping"
            /\ pkt.from = Other(p) /\ receive_ack(p, pkt.rnd)
            /\ UNCHANGED <<local_low_n_sent, queue, submitted>>
        BY <1>2, <2>4 DEF IInv, TypeOK, NumbersStandForCounts, receive_message,
                          receive_AckPacket, Arrives
      <3>2. /\ pkt.upto \in Nat /\ pkt.rnd = pkt.upto % Modulus
            /\ pkt.upto <= Len(delivered[Other(p)]) /\ Sent(p) - pkt.upto < Lifetime
        BY <3>1, Ends DEF Packet, PacketOK
      <3>3. /\ Acked(p) <= Acked(p)' /\ Acked(p)' <= Len(delivered[Other(p)])
            /\ \A r \in Peer \ {p} : Acked(r)' = Acked(r)
            /\ allocator' \in [Peer -> Seq(Nat)]
        BY <1>2, <3>1, <3>2, ReceiveAck
      <3>4. Channel!Release(p)
        <4>1. Acked(p) \in Int /\ Acked(p)' \in Int /\ Len(delivered[Other(p)]) \in Int
          <5>1. Acked(p) \in Int /\ Len(delivered[Other(p)]) \in Int
            BY <1>2, Counts, Ends
          <5>2. submitted'[p] \in Int /\ Len(allocator'[p]) \in Int
            BY <2>1, <3>1, <3>3
          <5>. QED  BY <5>1, <5>2 DEF Acked
        <4>2. Acked(p)' \in released[p] .. Len(delivered[Other(p)])
          BY <3>3, <4>1
        <4>3. released' = [released EXCEPT ![p] = Acked(p)']
          BY <3>3
        <4>. QED  BY <4>2, <4>3 DEF Channel!Release, Channel!Other, Other
      <3>5. Channel!Deliver(p) \/ UNCHANGED delivered
        <4>1. CASE UNCHANGED delivered
          BY <4>1
        <4>2. CASE pkt.kind = "stream" /\ InOrder(p, pkt.id) /\ receive_message(p, pkt)
          <5>1. delivered' = [delivered EXCEPT ![p] = Append(@, pkt.data)]
            BY <4>2 DEF receive_message
          <5>2. pkt.data = Len(delivered[p]) /\ pkt.data < Sent(Other(p))
            BY <1>2, <3>1, <4>2, NextInOrder
          <5>3. /\ Sent(Other(p)) = submitted[Other(p)] - Len(queue[Other(p)])
                /\ Len(queue[Other(p)]) \in Nat /\ submitted[Other(p)] \in Nat
                /\ Len(delivered[p]) \in Nat
            BY <1>2, <2>1, Counts, Ends DEF Sent
          <5>4. Len(delivered[p]) < submitted[Other(p)]
            BY <5>2, <5>3
          <5>. QED  BY <2>1, <5>1, <5>2, <5>4 DEF Channel!Deliver, Channel!Other, Other
        <4>. QED  BY <2>4, <4>1, <4>2 DEF receive_message, receive_AckPacket
      <3>. QED  BY <3>1, <3>4, <3>5 DEF Channel!Exchange
    <2>. QED
      BY <1>2, <2>2, <2>3, <2>4
      DEF Next, Step, send_NoRoom, update_Drain, update_Resend, Ping, receive_Ping,
          Lose, Channel!Next, Channel!Peer, Peer
  <1>3. UNCHANGED vars => UNCHANGED Channel!channelVars
    BY DEF vars, Channel!channelVars, Acked
  <1>4. IInv /\ [Next]_vars => [Channel!Next]_(Channel!channelVars)
    BY <1>2, <1>3
  <1>. QED  BY <1>1, <1>4, Invariance, PTL DEF Spec, Channel!Spec
=============================================================================

--------------------------- MODULE ConnectionProofs ---------------------------
(***************************************************************************)
(* From a connection that was made in quiet on, the two ends converse with *)
(* each other and with nobody else, whatever send_unreliable sends, and    *)
(* without it each message is handed over once: for any number of eras and *)
(* any timeout, and whoever is lost.  When connections are made is left to *)
(* the applications and the network.                                       *)
(***************************************************************************)
EXTENDS Connection, FiniteSetTheorems, TLAPS

-----------------------------------------------------------------------------
(***************************************************************************)
(* Ends, connections and packets.                                          *)
(***************************************************************************)
LEMMA Ends ==
  \A n \in Node :
    /\ Other(n) \in Node
    /\ Other(n) # n
    /\ Other(Other(n)) = n
    /\ \A m \in Node : m = n \/ m = Other(n)
  BY ConnectionAssumption DEF Node, Other

LEMMA Fields ==
  ASSUME NEW c \in ConnectionState
  PROVE  /\ c.queued \in Counts /\ c.sent \in Counts
         /\ c.acked \in Counts /\ c.received \in Counts
         /\ c.silence \in [Kind -> 0 .. Timeout + 1]
         /\ c.pinged \in BOOLEAN
         /\ c.heard \in SUBSET Nat
         /\ c.handed \in [Kind -> Nat]
         /\ c # NoConnection
  BY NoConnectionAssumption DEF ConnectionState

LEMMA Numbered ==
  ASSUME NEW c \in ConnectionState, NEW k \in Kind
  PROVE  /\ c.queued[k] \in 0 .. 1 /\ c.sent[k] \in 0 .. 1
         /\ c.acked[k] \in 0 .. 1 /\ c.received[k] \in 0 .. 1
         /\ c.handed[k] \in Nat
  BY Fields DEF Counts

LEMMA Built ==
  ASSUME NEW c,
         NEW queued \in Counts, NEW sent \in Counts, NEW acked \in Counts,
         NEW received \in Counts, NEW silence \in [Kind -> 0 .. Timeout + 1],
         NEW pinged \in BOOLEAN, NEW heard \in SUBSET Nat,
         NEW handed \in [Kind -> Nat],
         c = [queued |-> queued, sent |-> sent, acked |-> acked,
              received |-> received, silence |-> silence, pinged |-> pinged,
              heard |-> heard, handed |-> handed]
  PROVE  c \in ConnectionState
  BY DEF ConnectionState

LEMMA Present ==
  ASSUME TypeOK, NEW n \in Node
  PROVE  Connected(n) <=> con[n] \in ConnectionState
  BY Fields DEF TypeOK, Connected

LEMMA Fresh ==
  /\ NewConnection \in ConnectionState
  /\ NewConnection # NoConnection
  <1>1. Zero \in Counts /\ Zero \in [Kind -> 0 .. Timeout + 1] /\ Zero \in [Kind -> Nat]
    BY ConnectionAssumption DEF Zero, Counts
  <1>2. NewConnection \in ConnectionState
    BY <1>1, Built DEF NewConnection
  <1>. QED  BY <1>2, Fields

LEMMA Kinds ==
  ASSUME NEW pkt \in Packet
  PROVE  /\ pkt.from \in Node
         /\ pkt.kind \notin Openings => pkt.era \in Nat
         /\ pkt.kind \in {"disconnecting", "ping", "ack"} \cup Openings \cup Kind
         /\ pkt.kind \in Kind => pkt.id = 0 /\ pkt.next \in 0 .. 1
         /\ pkt.kind = "ack" =>
              /\ DOMAIN pkt.next \subseteq Kind
              /\ \A k \in DOMAIN pkt.next : pkt.next[k] \in 0 .. 1
  <1>1. CASE pkt \in [kind : {"ack"}, from : Node, era : Nat, next : Numbers]
    <2>1. PICK kinds \in SUBSET Kind : pkt.next \in [kinds -> 0 .. 1]
      BY <1>1 DEF Numbers, Kind
    <2>2. pkt.kind = "ack" /\ pkt.from \in Node /\ pkt.era \in Nat
      BY <1>1
    <2>. QED  BY <2>1, <2>2 DEF Kind
  <1>2. CASE pkt \notin [kind : {"ack"}, from : Node, era : Nat, next : Numbers]
    BY <1>2 DEF Packet, Kind, Openings
  <1>. QED  BY <1>1, <1>2

\* Only messages and answers to them carry numbers.
LEMMA Silent ==
  ASSUME NEW pkt, NEW k \in Kind, NEW next,
         pkt.kind \in {"disconnecting", "ping"} \cup Openings
  PROVE  ~Acks(pkt, k, next)
  BY DEF Acks, Kind, Openings

\* The parts of the invariant for the ends a step leaves alone.
LEMMA Members ==
  ASSUME IInv
  PROVE  /\ con \in [Node -> ConnectionState \cup {NoConnection}]
         /\ net \subseteq Packet
         /\ raw \in [Node -> Nat]
         /\ era \in [Node -> Nat]
         /\ quiet \in BOOLEAN
         /\ TypeOK
         /\ \A pkt \in net : PacketOK(pkt) /\ (NoRaw => SaidOK(pkt)) /\ pkt \in Packet
         /\ \A n \in Node : Connected(n) =>
              /\ con[n] \in ConnectionState
              /\ OwnOK(n)
              /\ quiet => EraOK(n)
              /\ quiet /\ NoRaw => HandedOK(n)
  BY Present DEF IInv, TypeOK

\* What an end heard is part of what is spoken to it.
LEMMA HeardIsSpoken == \A n : con[n].heard \subseteq Spoken(n)
  BY DEF Spoken

-----------------------------------------------------------------------------
(***************************************************************************)
(* An end loses its connection: restart, disconnect, a disconnecting, or a *)
(* timeout.                                                                *)
(***************************************************************************)
LEMMA Losing ==
  ASSUME IInv, NEW n \in Node, Connected(n), Lost(n), raw' = raw,
         net' = net \/ net' = net \cup {Plain("disconnecting", n)}
  PROVE  IInv'
  <1>m. PICK m \in Node : m = Other(n)
    BY Ends
  <1>0. /\ m # n /\ Other(m) = n /\ Other(n) = m
        /\ \A i \in Node : i = n \/ i = m
    BY <1>m, Ends
  <1>1. /\ con'[n] = NoConnection /\ con'[m] = con[m]
        /\ era'[n] = era[n] + 1 /\ era'[m] = era[m]
        /\ era[n] \in Nat /\ era[m] \in Nat
        /\ ~Connected(n)' /\ (Connected(m)' <=> Connected(m))
        /\ quiet' = quiet /\ (NoRaw' <=> NoRaw)
    BY <1>0, Members DEF Lost, Connected, NoRaw
  <1>2. PICK r : r = Plain("disconnecting", n)
    OBVIOUS
  <1>3. /\ r \in Packet /\ r.from = n /\ r.era = era[n]
        /\ r.kind = "disconnecting" /\ r.kind \notin Openings
        /\ \A pkt \in net' : pkt \in net \/ pkt = r
    BY <1>1, <1>2 DEF Plain, Packet, Openings
  <1>4. TypeOK'
    BY <1>1, <1>3, Members DEF TypeOK, Lost
  <1>5. ASSUME NEW pkt \in net'  PROVE PacketOK(pkt)' /\ (NoRaw' => SaidOK(pkt)')
    <2>1. CASE pkt \in net
      <3>1. PacketOK(pkt) /\ (NoRaw => SaidOK(pkt)) /\ pkt.from \in Node
            /\ (pkt.kind \notin Openings => pkt.era \in Nat)
        BY <2>1, Members, Kinds
      <3>2. CASE pkt.from = n
        BY <3>1, <3>2, <1>1 DEF PacketOK, SaidOK
      <3>3. CASE pkt.from = m
        BY <3>1, <3>3, <1>1 DEF PacketOK, SaidOK, Acks
      <3>. QED  BY <3>1, <3>2, <3>3, <1>0
    <2>2. CASE pkt = r
      BY <2>2, <1>1, <1>3 DEF PacketOK, SaidOK
    <2>. QED  BY <2>1, <2>2, <1>3
  <1>6. ASSUME Connected(m)
        PROVE  OwnOK(m)' /\ (quiet' => EraOK(m)') /\ (quiet' /\ NoRaw' => HandedOK(m)')
    <2>1. OwnOK(m) /\ (quiet => EraOK(m)) /\ (quiet /\ NoRaw => HandedOK(m))
      BY <1>6, Members
    <2>2. OwnOK(m)'
      BY <2>1, <1>1 DEF OwnOK
    <2>3. ASSUME quiet  PROVE EraOK(m)'
      <3>1. Spoken(m) \subseteq {era[n]}
        BY <2>1, <2>3, <1>0 DEF EraOK
      <3>2. \A e \in Spoken(m)' : e \in Spoken(m) \/ e = era[n]
        BY <1>0, <1>1, <1>3 DEF Spoken
      <3>. QED  BY <3>1, <3>2, <1>0, <1>1 DEF EraOK
    <2>4. ASSUME quiet, NoRaw  PROVE HandedOK(m)'
      <3>1. \A k \in Kind, next \in 0 .. 1 : ~Acks(r, k, next)
        BY <1>3, Silent
      <3>. QED  BY <2>1, <2>4, <3>1, <1>0, <1>1, <1>3 DEF HandedOK, Acks
    <2>. QED  BY <2>2, <2>3, <2>4, <1>1
  <1>. QED  BY <1>0, <1>1, <1>4, <1>5, <1>6 DEF IInv

-----------------------------------------------------------------------------
(***************************************************************************)
(* A connected end sends, and takes what changes no count of messages      *)
(* received.                                                               *)
(***************************************************************************)
\* What the connection of n can be after it took acknowledgements.
Continues(n, c) ==
  /\ c \in ConnectionState
  /\ con[n].heard \subseteq c.heard
  /\ c.heard \subseteq Spoken(n)
  /\ c.received = con[n].received
  /\ c.handed = con[n].handed
  /\ \A k \in Kind : con[n].sent[k] <= c.sent[k] /\ c.sent[k] <= c.queued[k]
  /\ c.heard = {} => c.acked = Zero
  /\ quiet /\ NoRaw => \A k \in Kind : c.acked[k] <= c.handed[k]

\* The packets are openings, or of the present connection c of n, and then tell
\* its counts unless they are raw.
SaidBy(n, c, said) ==
  \A pkt \in said :
    /\ pkt \in Packet
    /\ pkt.from = n
    /\ pkt.kind \notin Openings => pkt.era = era[n]
    /\ NoRaw' =>
         /\ \A k \in Kind : pkt.kind = k => pkt.id < c.sent[k]
         /\ \A k \in Kind, next \in 0 .. 1 : Acks(pkt, k, next) => next <= c.received[k]

LEMMA Speaking ==
  ASSUME IInv, NEW n \in Node, Connected(n), NEW c, NEW said,
         Continues(n, c), SaidBy(n, c, said),
         con' = [con EXCEPT ![n] = c], net' = net \cup said, era' = era, quiet' = quiet,
         raw' \in [Node -> Nat], NoRaw' => NoRaw
  PROVE  IInv'
  <1>m. PICK m \in Node : m = Other(n)
    BY Ends
  <1>0. /\ m # n /\ Other(m) = n /\ Other(n) = m
        /\ \A i \in Node : i = n \/ i = m
    BY <1>m, Ends
  <1>c. c \in ConnectionState /\ c # NoConnection
    BY Fields DEF Continues
  <1>1. /\ con'[n] = c /\ con'[m] = con[m]
        /\ Connected(n)' /\ (Connected(m)' <=> Connected(m))
        /\ era[n] \in Nat
    BY <1>0, <1>c, Members DEF Connected
  <1>n. con[n] \in ConnectionState /\ OwnOK(n)
    BY Members
  <1>k. \A k \in Kind : con[n].sent[k] \in 0 .. 1 /\ c.sent[k] \in 0 .. 1
                        /\ con[n].received[k] \in 0 .. 1
    BY <1>n, <1>c, Numbered
  <1>2. TypeOK'
    BY <1>c, Members DEF TypeOK, SaidBy
  <1>3. \A pkt \in net' : pkt \in net \/ pkt \in said
    OBVIOUS
  <1>4. \A e \in Spoken(n)' : e \in Spoken(n)
    BY <1>0, <1>1, <1>3 DEF Spoken, SaidBy, Continues
  <1>5. \A e \in Spoken(m)' : e \in Spoken(m) \/ e = era[n]
    BY <1>0, <1>1, <1>3 DEF Spoken, SaidBy
  <1>6. ASSUME NEW pkt \in net'  PROVE PacketOK(pkt)' /\ (NoRaw' => SaidOK(pkt)')
    <2>1. CASE pkt \in net
      <3>1. PacketOK(pkt) /\ (NoRaw => SaidOK(pkt)) /\ pkt \in Packet /\ pkt.from \in Node
        BY <2>1, Members, Kinds
      <3>2. PacketOK(pkt)'
        BY <3>1, <1>0, <1>1 DEF PacketOK
      <3>3. CASE pkt.from = n
        <4>1. \A k \in Kind : pkt.kind = k => pkt.id = 0
          BY <3>1, Kinds
        <4>2. NoRaw' => SaidOK(pkt)'
          BY <3>1, <3>3, <4>1, <1>1, <1>k DEF SaidOK, Continues, Acks
        <4>. QED  BY <3>2, <4>2
      <3>4. CASE pkt.from = m
        BY <3>1, <3>2, <3>4, <1>1 DEF SaidOK, Acks
      <3>. QED  BY <3>1, <3>3, <3>4, <1>0
    <2>2. CASE pkt \in said
      BY <2>2, <1>1 DEF PacketOK, SaidOK, SaidBy, Acks
    <2>. QED  BY <2>1, <2>2, <1>3
  <1>7. OwnOK(n)'
    BY <1>1, <1>n DEF OwnOK, Continues
  <1>8. quiet => EraOK(n)'
    <2>1. quiet => EraOK(n)
      BY Members
    <2>. QED  BY <2>1, <1>0, <1>1, <1>4 DEF EraOK
  <1>9. quiet /\ NoRaw' => HandedOK(n)'
    <2>. SUFFICES ASSUME quiet, NoRaw'  PROVE HandedOK(n)'
      OBVIOUS
    <2>1. HandedOK(n)
      BY Members
    <2>2. \A k \in Kind : c.handed[k] \in c.acked[k] .. c.sent[k]
      <3>. TAKE k \in Kind
      <3>1. /\ con[n].acked[k] \in Nat /\ con[n].sent[k] \in Nat /\ con[n].handed[k] \in Nat
            /\ c.acked[k] \in Nat /\ c.sent[k] \in Nat
        BY <1>n, <1>c, Numbered
      <3>2. con[n].handed[k] \in con[n].acked[k] .. con[n].sent[k]
        BY <2>1 DEF HandedOK
      <3>3. c.handed[k] = con[n].handed[k] /\ con[n].sent[k] <= c.sent[k]
            /\ c.acked[k] <= c.handed[k]
        BY DEF Continues
      <3>. QED  BY <3>1, <3>2, <3>3
    <2>3. ASSUME NEW pkt \in net', pkt.from = m, NEW k \in Kind, NEW next \in 0 .. 1,
                 Acks(pkt, k, next)
          PROVE  next <= c.handed[k]
      <3>1. pkt \in net
        BY <2>3, <1>0, <1>3 DEF SaidBy
      <3>. QED  BY <3>1, <2>1, <2>3, <1>0 DEF HandedOK, Continues
    <2>4. Connected(m) => c.handed = con[m].received
      BY <2>1, <1>0 DEF HandedOK, Continues
    <2>. QED  BY <2>2, <2>3, <2>4, <1>0, <1>1 DEF HandedOK, Acks
  <1>10. ASSUME Connected(m)
         PROVE  OwnOK(m)' /\ (quiet' => EraOK(m)') /\ (quiet' /\ NoRaw' => HandedOK(m)')
    <2>1. OwnOK(m) /\ (quiet => EraOK(m)) /\ (quiet /\ NoRaw => HandedOK(m))
      BY <1>10, Members
    <2>2. OwnOK(m)'
      BY <2>1, <1>1 DEF OwnOK
    <2>3. quiet => EraOK(m)'
      BY <2>1, <1>0, <1>1, <1>5 DEF EraOK
    <2>4. ASSUME quiet, NoRaw'  PROVE HandedOK(m)'
      <3>0. HandedOK(m)
        BY <2>1, <2>4
      <3>1. ASSUME NEW pkt \in net', pkt.from = n, NEW k \in Kind, NEW next \in 0 .. 1,
                   Acks(pkt, k, next)
            PROVE  next <= con[m].handed[k]
        <4>1. CASE pkt \in net
          BY <4>1, <3>0, <3>1, <1>0 DEF HandedOK
        <4>2. CASE pkt \in said
          BY <4>2, <2>4, <3>0, <3>1, <1>0 DEF HandedOK, SaidBy, Continues
        <4>. QED  BY <4>1, <4>2, <1>3
      <3>2. con[m].handed = c.received
        BY <3>0, <1>0 DEF HandedOK, Continues
      <3>. QED  BY <3>0, <3>1, <3>2, <1>0, <1>1 DEF HandedOK, Acks
    <2>. QED  BY <2>2, <2>3, <2>4
  <1>. QED  BY <1>0, <1>1, <1>2, <1>6, <1>7, <1>8, <1>9, <1>10 DEF IInv

-----------------------------------------------------------------------------
(***************************************************************************)
(* A connected end takes a new message.  It is handed over in the other    *)
(* end's present connection, if that one sent it.                          *)
(***************************************************************************)
LEMMA Taking ==
  ASSUME IInv, NEW n \in Node, Connected(n), NEW c, NEW pkt \in net,
         pkt.from = Other(n), pkt.kind \in Kind, pkt.id = con[n].received[pkt.kind],
         Continues(n, c), c.heard # {},
         con' = [con EXCEPT ![n] = [c EXCEPT !.received[pkt.kind] = 1],
                            ![Other(n)] =
                              IF pkt.era = era[Other(n)] THEN HandedOver(@, pkt.kind) ELSE @],
         net' = net \cup {Ack(n, [kind \in {pkt.kind} |-> 1])},
         UNCHANGED <<raw, era, quiet>>
  PROVE  IInv'
  <1>m. PICK m \in Node : m = Other(n)
    BY Ends
  <1>a. PICK k \in Kind : k = pkt.kind
    OBVIOUS
  <1>d. PICK d : d = [c EXCEPT !.received[k] = 1]
    OBVIOUS
  <1>g. PICK g : g = con'[m]
    OBVIOUS
  <1>r. PICK r : r = Ack(n, [kind \in {k} |-> 1])
    OBVIOUS
  <1>0. /\ m # n /\ Other(m) = n /\ Other(n) = m
        /\ \A i \in Node : i = n \/ i = m
    BY <1>m, Ends
  <1>t. /\ con \in [Node -> ConnectionState \cup {NoConnection}]
        /\ era \in [Node -> Nat] /\ net \subseteq Packet /\ (NoRaw' <=> NoRaw)
    BY Members DEF NoRaw
  <1>n. /\ con[n] \in ConnectionState /\ c \in ConnectionState
        /\ OwnOK(n) /\ (quiet => EraOK(n)) /\ (quiet /\ NoRaw => HandedOK(n))
    BY Members DEF Continues
  <1>p. /\ pkt \in Packet /\ pkt.id = 0 /\ con[n].received[k] = 0
        /\ PacketOK(pkt) /\ (NoRaw => SaidOK(pkt)) /\ pkt.from = m /\ pkt.kind = k
        /\ pkt.kind \notin Openings
    BY <1>a, <1>m, Members, Kinds DEF Kind, Openings
  <1>1. /\ d \in ConnectionState
        /\ d.received = [con[n].received EXCEPT ![k] = 1]
        /\ d.heard = c.heard /\ d.handed = con[n].handed
        /\ d.sent = c.sent /\ d.queued = c.queued /\ d.acked = c.acked
    <2>1. PICK rec \in Counts : rec = [c.received EXCEPT ![k] = 1]
      <3>1. c.received \in [Kind -> 0 .. 1]
        BY <1>n, Fields DEF Counts
      <3>2. [c.received EXCEPT ![k] = 1] \in Counts
        BY <3>1, <1>a DEF Counts
      <3>. QED  BY <3>2
    <2>2. d = [c EXCEPT !.received = rec]
      BY <1>d, <2>1
    <2>3. d \in ConnectionState /\ d.received = rec
          /\ d.heard = c.heard /\ d.handed = c.handed
          /\ d.sent = c.sent /\ d.queued = c.queued /\ d.acked = c.acked
      BY <1>n, <2>2 DEF ConnectionState
    <2>. QED  BY <2>1, <2>3 DEF Continues
  <1>2. /\ con'[n] = d /\ era' = era /\ Connected(n)'
        /\ con'[m] = IF pkt.era = era[m] THEN HandedOver(con[m], k) ELSE con[m]
    <2>1. con' = [con EXCEPT ![n] = d,
                             ![m] = IF pkt.era = era[m] THEN HandedOver(@, k) ELSE @]
      BY <1>m, <1>a, <1>d
    <2>2. con'[n] = d
      BY <2>1, <1>0, <1>t
    <2>3. con'[m] = IF pkt.era = era[m] THEN HandedOver(con[m], k) ELSE con[m]
      BY <2>1, <1>0, <1>t
    <2>. QED  BY <2>2, <2>3, <1>1, Fields DEF Connected
  <1>3. /\ Connected(m)' <=> Connected(m)
        /\ Connected(m) =>
             /\ g \in ConnectionState /\ con[m] \in ConnectionState
             /\ g.heard = con[m].heard /\ g.received = con[m].received
             /\ g.sent = con[m].sent /\ g.queued = con[m].queued
             /\ g.acked = con[m].acked
             /\ pkt.era = era[m] => g.handed = [con[m].handed EXCEPT ![k] = @ + 1]
        /\ ~Connected(m) => g = con[m]
    <2>1. CASE ~Connected(m)
      BY <2>1, <1>2, <1>g, <1>p DEF PacketOK, Connected
    <2>2. CASE Connected(m)
      <3>1. con[m] \in ConnectionState /\ con[m].handed \in [Kind -> Nat]
        BY <2>2, Members, Fields
      <3>2. PICK h \in [Kind -> Nat] : h = [con[m].handed EXCEPT ![k] = @ + 1]
        <4>1. [con[m].handed EXCEPT ![k] = @ + 1] \in [Kind -> Nat]
          BY <3>1, <1>a
        <4>. QED  BY <4>1
      <3>3. CASE pkt.era = era[m]
        <4>1. g = [con[m] EXCEPT !.handed = h]
          BY <3>2, <3>3, <1>2, <1>g DEF HandedOver
        <4>2. /\ g \in ConnectionState /\ g.handed = h
              /\ g.heard = con[m].heard /\ g.received = con[m].received
              /\ g.sent = con[m].sent /\ g.queued = con[m].queued
              /\ g.acked = con[m].acked
          BY <3>1, <4>1 DEF ConnectionState
        <4>. QED  BY <2>2, <3>1, <3>2, <4>2, <1>g, Fields DEF Connected
      <3>4. CASE pkt.era # era[m]
        BY <2>2, <3>1, <3>4, <1>2, <1>g DEF Connected
      <3>. QED  BY <3>3, <3>4
    <2>. QED  BY <2>1, <2>2
  <1>4. /\ r \in Packet /\ r.from = n /\ r.era = era[n] /\ r.kind = "ack"
        /\ r.kind \notin Openings /\ \A j \in Kind : r.kind # j
        /\ net' = net \cup {r}
        /\ \A j \in Kind, next \in 0 .. 1 : Acks(r, j, next) => j = k /\ next = 1
    <2>1. r = [kind |-> "ack", from |-> n, era |-> era[n], next |-> [kind \in {k} |-> 1]]
      BY <1>r DEF Ack
    <2>2. [kind \in {k} |-> 1] \in [{k} -> 0 .. 1] /\ {k} \in {{"stream"}, {"reliable"}, Kind}
      BY <1>a DEF Kind
    <2>3. [kind \in {k} |-> 1] \in Numbers
      BY <2>2 DEF Numbers
    <2>4. r \in Packet
      BY <2>1, <2>3, <1>t DEF Packet
    <2>5. \A j \in Kind, next \in 0 .. 1 : Acks(r, j, next) => j = k /\ next = 1
      BY <2>1 DEF Acks, Kind
    <2>. QED  BY <2>1, <2>4, <2>5, <1>a, <1>r DEF Kind, Openings
  <1>5. TypeOK'
    <2>1. con' \in [Node -> ConnectionState \cup {NoConnection}]
      <3>1. con' = [con EXCEPT ![n] = d, ![m] = g]
        BY <1>0, <1>2, <1>g, <1>t, <1>m
      <3>2. g \in ConnectionState \cup {NoConnection}
        BY <1>3 DEF Connected
      <3>. QED  BY <3>1, <3>2, <1>1, <1>t
    <2>. QED  BY <2>1, <1>4, Members DEF TypeOK
  <1>6. \A x \in net' : x \in net \/ x = r
    BY <1>4
  <1>7. \A e \in Spoken(n)' : e \in Spoken(n)
    BY <1>0, <1>1, <1>2, <1>4, <1>6 DEF Spoken, Continues
  <1>8. Connected(m) => \A e \in Spoken(m)' : e \in Spoken(m) \/ e = era[n]
    BY <1>0, <1>3, <1>g, <1>4, <1>6 DEF Spoken
  <1>9. /\ con[n].received \in [Kind -> 0 .. 1]
        /\ d.received \in [Kind -> 0 .. 1]
        /\ d.received[k] = 1
        /\ \A j \in Kind : con[n].received[j] <= d.received[j]
    <2>1. con[n].received \in [Kind -> 0 .. 1] /\ d.received \in [Kind -> 0 .. 1]
      BY <1>n, <1>1, Fields DEF Counts
    <2>. QED  BY <2>1, <1>1, <1>a, <1>p
  <1>10. ASSUME NEW x \in net'  PROVE PacketOK(x)' /\ (NoRaw' => SaidOK(x)')
    <2>1. CASE x \in net
      <3>1. PacketOK(x) /\ (NoRaw => SaidOK(x)) /\ x \in Packet /\ x.from \in Node
        BY <2>1, Members, Kinds
      <3>2. PacketOK(x)'
        BY <3>1, <1>0, <1>2, <1>3, Members DEF PacketOK
      <3>3. CASE x.from = n
        <4>1. \A j \in Kind : x.kind = j => x.id = 0
          BY <3>1, Kinds
        <4>2. \A j \in Kind : con[n].sent[j] \in 0 .. 1 /\ c.sent[j] \in 0 .. 1
          BY <1>n, Numbered
        <4>3. \A j \in Kind : x.kind = j => (x.id < con[n].sent[j] => x.id < c.sent[j])
          BY <4>1, <4>2 DEF Continues
        <4>4. \A j \in Kind, next \in 0 .. 1 :
                next <= con[n].received[j] => next <= d.received[j]
          BY <1>9
        <4>5. NoRaw' => SaidOK(x)'
          BY <3>1, <3>3, <4>3, <4>4, <1>t, <1>1, <1>2 DEF SaidOK, Acks
        <4>. QED  BY <3>2, <4>5
      <3>4. CASE x.from = m
        <4>1. x.kind \notin Openings /\ x.era = era[m] => Connected(m)
          BY <3>1, <3>4 DEF PacketOK
        <4>2. NoRaw' => SaidOK(x)'
          BY <3>1, <3>4, <4>1, <1>t, <1>0, <1>2, <1>3, <1>g DEF SaidOK, Acks
        <4>. QED  BY <3>2, <4>2
      <3>. QED  BY <3>1, <3>3, <3>4, <1>0
    <2>2. CASE x = r
      <3>1. \A j \in Kind, next \in 0 .. 1 : Acks(r, j, next) => next <= d.received[j]
        BY <1>4, <1>9
      <3>2. PacketOK(r)'
        BY <1>2, <1>4, <1>t DEF PacketOK
      <3>3. SaidOK(r)'
        BY <3>1, <1>2, <1>4 DEF SaidOK, Acks
      <3>. QED  BY <2>2, <3>2, <3>3
    <2>. QED  BY <2>1, <2>2, <1>6
  <1>11. OwnOK(n)'
    BY <1>1, <1>2 DEF OwnOK, Continues
  <1>12. quiet => EraOK(n)'
    BY <1>n, <1>0, <1>2, <1>3, <1>7 DEF EraOK
  <1>13. ASSUME quiet, NoRaw  PROVE HandedOK(n)'
    <2>1. HandedOK(n)
      BY <1>13, <1>n
    <2>2. ASSUME NEW x \in net', x.from = m, NEW j \in Kind, NEW next \in 0 .. 1,
                 Acks(x, j, next)
          PROVE  next <= d.handed[j]
      <3>1. x \in net
        BY <2>2, <1>0, <1>4, <1>6
      <3>. QED  BY <3>1, <2>1, <2>2, <1>0, <1>1 DEF HandedOK
    <2>3. \A j \in Kind : d.handed[j] \in d.acked[j] .. d.sent[j]
      <3>. TAKE j \in Kind
      <3>1. /\ con[n].acked[j] \in 0 .. 1 /\ con[n].sent[j] \in 0 .. 1
            /\ con[n].handed[j] \in Nat
            /\ c.acked[j] \in 0 .. 1 /\ c.sent[j] \in 0 .. 1
        BY <1>n, Numbered
      <3>2. con[n].handed[j] \in con[n].acked[j] .. con[n].sent[j]
        BY <2>1 DEF HandedOK
      <3>3. d.handed[j] = con[n].handed[j] /\ con[n].sent[j] <= d.sent[j]
            /\ d.acked[j] <= con[n].handed[j] /\ d.acked[j] = c.acked[j]
            /\ d.sent[j] = c.sent[j]
        BY <1>13, <1>1 DEF Continues
      <3>. QED  BY <3>1, <3>2, <3>3
    <2>4. Connected(m)' => d.handed = g.received
      BY <2>1, <1>0, <1>1, <1>3 DEF HandedOK
    <2>5. \A x \in net' : x.from = Other(n) =>
            \A j \in Kind, next \in 0 .. 1 : Acks(x, j, next) => next <= d.handed[j]
      BY <2>2, <1>0
    <2>. QED  BY <2>3, <2>4, <2>5, <1>0, <1>2, <1>g DEF HandedOK, Acks
  <1>14. ASSUME Connected(m)
         PROVE  OwnOK(m)' /\ (quiet => EraOK(m)') /\ (quiet /\ NoRaw => HandedOK(m)')
    <2>1. OwnOK(m) /\ (quiet => EraOK(m)) /\ (quiet /\ NoRaw => HandedOK(m))
      BY <1>14, Members
    <2>2. OwnOK(m)'
      BY <2>1, <1>14, <1>3, <1>g DEF OwnOK
    <2>3. quiet => EraOK(m)'
      BY <2>1, <1>14, <1>0, <1>2, <1>8 DEF EraOK
    <2>4. ASSUME quiet, NoRaw  PROVE HandedOK(m)'
      <3>0. HandedOK(m) /\ HandedOK(n) /\ EraOK(n) /\ SaidOK(pkt)
        BY <2>1, <2>4, <1>n, <1>p
      <3>1. pkt.era = era[m] /\ con[m].handed = con[n].received
        <4>1. pkt.era \in Spoken(n)
          BY <1>0, <1>p DEF Spoken
        <4>2. pkt.era = era[m]
          BY <4>1, <3>0, <1>14, <1>0 DEF EraOK
        <4>3. con[m].handed = con[n].received
          BY <3>0, <1>0 DEF HandedOK
        <4>. QED  BY <4>2, <4>3
      <3>2. g.handed = d.received
        BY <3>1, <1>14, <1>1, <1>3, <1>9, <1>p
      <3>3. \A j \in Kind : g.handed[j] \in g.acked[j] .. g.sent[j]
        <4>. TAKE j \in Kind
        <4>1. /\ con[m].acked[j] \in 0 .. 1 /\ con[m].sent[j] \in 0 .. 1
              /\ con[m].handed[j] \in Nat
              /\ g.acked[j] = con[m].acked[j] /\ g.sent[j] = con[m].sent[j]
          BY <1>14, <1>3, Numbered
        <4>2. con[m].handed[j] \in con[m].acked[j] .. con[m].sent[j]
          BY <3>0 DEF HandedOK
        <4>3. CASE j = k
          <5>1. 0 < con[m].sent[k]
            BY <3>0, <3>1, <1>p, <1>a DEF SaidOK
          <5>. QED  BY <4>1, <4>3, <5>1, <3>2, <1>9
        <4>4. CASE j # k
          <5>1. g.handed[j] = con[m].handed[j]
            BY <4>4, <3>1, <3>2, <1>1, <1>9
          <5>. QED  BY <4>1, <4>2, <5>1
        <4>. QED  BY <4>3, <4>4
      <3>4. ASSUME NEW x \in net', x.from = n, NEW j \in Kind, NEW next \in 0 .. 1,
                   Acks(x, j, next)
            PROVE  next <= g.handed[j]
        <4>1. CASE x \in net
          <5>1. next <= con[n].received[j]
            BY <4>1, <3>0, <3>1, <3>4, <1>0 DEF HandedOK
          <5>. QED  BY <5>1, <3>2, <1>9
        <4>2. CASE x = r
          BY <4>2, <3>2, <3>4, <1>4, <1>9
        <4>. QED  BY <4>1, <4>2, <1>6
      <3>. QED  BY <3>2, <3>3, <3>4, <1>0, <1>2, <1>g DEF HandedOK, Acks
    <2>. QED  BY <2>2, <2>3, <2>4
  <1>. QED  BY <1>0, <1>t, <1>3, <1>5, <1>10, <1>11, <1>12, <1>13, <1>14 DEF IInv

-----------------------------------------------------------------------------
(***************************************************************************)
(* A connection is made.  If that is in quiet, what is in transit the      *)
(* other end said in its present connection, of which nothing was taken.   *)
(***************************************************************************)
LEMMA Making ==
  ASSUME IInv, NEW n \in Node, ~Connected(n), NEW said \in SUBSET Packet,
         \A p \in said : p.kind \in Openings /\ p.from = n,
         con' = [con EXCEPT ![n] = NewConnection],
         era' = [era EXCEPT ![n] = @ + 1],
         quiet' = InQuiet(n), net' = net \cup said, raw' = raw
  PROVE  IInv'
  <1>m. PICK m \in Node : m = Other(n)
    BY Ends
  <1>c. PICK c : c = NewConnection
    OBVIOUS
  <1>0. /\ m # n /\ Other(m) = n /\ Other(n) = m
        /\ \A i \in Node : i = n \/ i = m
    BY <1>m, Ends
  <1>t. /\ con \in [Node -> ConnectionState \cup {NoConnection}]
        /\ era \in [Node -> Nat] /\ net \subseteq Packet /\ (NoRaw' <=> NoRaw)
    BY Members DEF NoRaw
  <1>1. /\ c \in ConnectionState /\ c # NoConnection
        /\ c.heard = {} /\ c.received = Zero /\ c.handed = Zero
        /\ c.acked = Zero /\ c.sent = Zero /\ c.queued = Zero
    BY <1>c, Fresh DEF NewConnection
  <1>2. /\ con'[n] = c /\ con'[m] = con[m]
        /\ era'[n] = era[n] + 1 /\ era'[m] = era[m]
        /\ era[n] \in Nat /\ era[m] \in Nat
        /\ Connected(n)' /\ (Connected(m)' <=> Connected(m))
    BY <1>0, <1>1, <1>c, <1>t DEF Connected
  <1>3. \A k \in Kind : Zero[k] = 0
    BY DEF Zero
  <1>4. TypeOK'
    BY <1>1, <1>c, <1>t, Members DEF TypeOK, InQuiet
  <1>5. ASSUME NEW p \in net'  PROVE PacketOK(p)' /\ (NoRaw' => SaidOK(p)')
    <2>1. CASE p \in net
      <3>1. /\ PacketOK(p) /\ (NoRaw => SaidOK(p)) /\ p.from \in Node
            /\ p.kind \notin Openings => p.era \in Nat
        BY <2>1, Members, Kinds
      <3>2. CASE p.from = n
        BY <3>1, <3>2, <1>2 DEF PacketOK, SaidOK
      <3>3. CASE p.from = m
        BY <3>1, <3>3, <1>t, <1>2 DEF PacketOK, SaidOK, Acks
      <3>. QED  BY <3>1, <3>2, <3>3, <1>0
    <2>2. CASE p \in said
      BY <2>2 DEF PacketOK, SaidOK
    <2>. QED  BY <2>1, <2>2
  <1>6. OwnOK(n)'
    BY <1>1, <1>2, <1>3 DEF OwnOK
  <1>7. Connected(m) => OwnOK(m) /\ con[m] \in ConnectionState /\ OwnOK(m)'
    BY <1>2, Members DEF OwnOK
  <1>8. ASSUME quiet'
        PROVE  /\ EraOK(n)' /\ (NoRaw => HandedOK(n)')
               /\ Connected(m) => EraOK(m)' /\ (NoRaw => HandedOK(m)')
    <2>1. InQuiet(n)
      BY <1>8
    <2>2. ASSUME NEW p \in net', p.kind \notin Openings
          PROVE  /\ p \in net /\ p.from = m /\ p.era = era[m] /\ Connected(m)
                 /\ NoRaw => SaidOK(p)
      <3>1. p \in net
        BY <2>2
      <3>2. PacketOK(p) /\ (NoRaw => SaidOK(p)) /\ p.from \in Node
        BY <3>1, Members, Kinds
      <3>3. p.era = era[p.from]
        BY <2>1, <2>2, <3>1 DEF InQuiet, Late
      <3>. QED  BY <2>2, <3>1, <3>2, <3>3, <1>0 DEF PacketOK
    <2>3. Connected(m) =>
            /\ con[m].heard = {} /\ con[m].handed = Zero
            /\ con[m].received = Zero /\ con[m].acked = Zero
      BY <2>1, <1>0, <1>7 DEF InQuiet, Unused, OwnOK
    <2>4. EraOK(n)'
      <3>1. \A e \in Spoken(n)' : e = era[m]
        BY <2>2, <1>0, <1>1, <1>2 DEF Spoken
      <3>. QED  BY <3>1, <1>0, <1>2 DEF EraOK
    <2>5. ASSUME NoRaw  PROVE HandedOK(n)'
      <3>1. ASSUME NEW p \in net', NEW k \in Kind, NEW next \in 0 .. 1, Acks(p, k, next)
            PROVE  next <= c.handed[k]
        <4>1. p.kind \notin Openings
          BY <3>1, Silent
        <4>2. next <= con[m].received[k] /\ Connected(m)
          BY <3>1, <4>1, <2>2, <2>5 DEF SaidOK
        <4>. QED  BY <4>2, <2>3, <1>1
      <3>2. \A k \in Kind : c.handed[k] \in c.acked[k] .. c.sent[k]
        BY <1>1, <1>3
      <3>. QED  BY <3>1, <3>2, <2>3, <1>0, <1>1, <1>2 DEF HandedOK, Acks
    <2>6. ASSUME Connected(m)  PROVE EraOK(m)'
      <3>1. Spoken(m)' = {}
        BY <2>2, <2>3, <2>6, <1>0, <1>2 DEF Spoken
      <3>. QED  BY <3>1 DEF EraOK
    <2>7. ASSUME Connected(m), NoRaw  PROVE HandedOK(m)'
      <3>1. \A p \in net', k \in Kind, next \in 0 .. 1 : Acks(p, k, next) => p.from = m
        BY <2>2, Silent
      <3>2. \A k \in Kind : con[m].handed[k] \in con[m].acked[k] .. con[m].sent[k]
        <4>. TAKE k \in Kind
        <4>1. con[m].sent[k] \in 0 .. 1
          BY <1>7, <2>7, Numbered
        <4>. QED  BY <4>1, <2>3, <2>7, <1>3
      <3>. QED  BY <3>1, <3>2, <2>3, <2>7, <1>0, <1>1, <1>2 DEF HandedOK, Acks
    <2>. QED  BY <2>4, <2>5, <2>6, <2>7
  <1>. QED  BY <1>0, <1>t, <1>2, <1>4, <1>5, <1>6, <1>7, <1>8 DEF IInv

LEMMA StepOpening ==
  ASSUME IInv, NEW n \in Node, NEW pkt \in net, receive_opening(n, pkt)
  PROVE  IInv'
  <1>1. PICK r : r = Opening("connection_accepted", n)
    OBVIOUS
  <1>2. r \in Packet /\ r.kind \in Openings /\ r.from = n
    BY <1>1 DEF Opening, Packet, Openings
  <1>3. PICK said \in {{}, {r}} : net' = net \cup said
    BY <1>1 DEF receive_opening
  <1>4. said \in SUBSET Packet /\ \A p \in said : p.kind \in Openings /\ p.from = n
    BY <1>2, <1>3
  <1>5. /\ ~Connected(n)
        /\ con' = [con EXCEPT ![n] = NewConnection]
        /\ era' = [era EXCEPT ![n] = @ + 1]
        /\ quiet' = InQuiet(n) /\ raw' = raw
    BY DEF receive_opening, Opens
  <1>. QED  BY <1>3, <1>4, <1>5, Making

-----------------------------------------------------------------------------
(***************************************************************************)
(* The steps that make, lose and use no connection.                        *)
(***************************************************************************)
LEMMA Ageing ==
  ASSUME NEW c \in ConnectionState
  PROVE  /\ Aged(c) \in ConnectionState
         /\ Aged(c).heard = c.heard /\ Aged(c).received = c.received
         /\ Aged(c).handed = c.handed /\ Aged(c).acked = c.acked
         /\ Aged(c).sent = c.sent /\ Aged(c).queued = c.queued
  <1>1. PICK silence : silence = [k \in Kind |-> IF c.silence[k] > Timeout
                                                   THEN c.silence[k] ELSE c.silence[k] + 1]
    OBVIOUS
  <1>2. silence \in [Kind -> 0 .. Timeout + 1]
    BY <1>1, ConnectionAssumption, Fields
  <1>3. Aged(c) = [c EXCEPT !.silence = silence, !.pinged = FALSE]
    BY <1>1 DEF Aged
  <1>. QED  BY <1>2, <1>3 DEF ConnectionState

LEMMA Ticking ==
  ASSUME IInv, Tick
  PROVE  IInv'
  <1>1. ASSUME NEW n \in Node
        PROVE  /\ Connected(n) => /\ con'[n] = Aged(con[n]) /\ con[n] \in ConnectionState
                                  /\ Connected(n)'
               /\ ~Connected(n) => ~Connected(n)' /\ con'[n] = NoConnection
    <2>1. con'[n] = IF Connected(n) THEN Aged(con[n]) ELSE NoConnection
      BY DEF Tick
    <2>2. Connected(n) => con[n] \in ConnectionState
      BY Members
    <2>. QED  BY <2>1, <2>2, Ageing, Fields DEF Connected
  <1>2. net' = {} /\ era' = era /\ raw' = raw /\ quiet' = quiet /\ (NoRaw' <=> NoRaw)
    BY DEF Tick, NoRaw
  <1>3. \A n \in Node : con'[n] \in ConnectionState \cup {NoConnection}
    BY <1>1, Ageing
  <1>4. TypeOK'
    BY <1>2, <1>3, Members DEF Tick, TypeOK
  <1>5. ASSUME NEW n \in Node, Connected(n)
        PROVE  OwnOK(n)' /\ (quiet => EraOK(n)') /\ (quiet /\ NoRaw => HandedOK(n)')
    <2>1. OwnOK(n) /\ (quiet => EraOK(n)) /\ (quiet /\ NoRaw => HandedOK(n))
      BY <1>5, Members
    <2>2. Other(n) \in Node
      BY Ends
    <2>3. Spoken(n)' \subseteq Spoken(n)
      BY <1>1, <1>2, <1>5, Ageing DEF Spoken
    <2>4. OwnOK(n)'
      BY <2>1, <1>1, <1>5, Ageing DEF OwnOK
    <2>5. quiet => EraOK(n)'
      BY <2>1, <2>2, <2>3, <1>1, <1>2 DEF EraOK
    <2>6. quiet /\ NoRaw => HandedOK(n)'
      BY <2>1, <2>2, <1>1, <1>2, <1>5, Ageing DEF HandedOK
    <2>. QED  BY <2>4, <2>5, <2>6
  <1>. QED  BY <1>1, <1>2, <1>4, <1>5 DEF IInv

LEMMA Asking ==
  ASSUME IInv, NEW n \in Node, try_connect(n)
  PROVE  IInv'
  <1>r. PICK r : r = Opening("connection_request", n)
    OBVIOUS
  <1>1. /\ net' = net \cup {r} /\ con' = con /\ era' = era /\ raw' = raw /\ quiet' = quiet
        /\ \A i \in Node : Connected(i)' <=> Connected(i)
        /\ NoRaw' <=> NoRaw
    BY <1>r DEF try_connect, Connected, NoRaw
  <1>2. r \in Packet /\ r.kind \in Openings
    BY <1>r DEF Opening, Packet, Openings
  <1>3. TypeOK'
    BY <1>1, <1>2, Members DEF TypeOK
  <1>4. ASSUME NEW p \in net'  PROVE PacketOK(p)' /\ (NoRaw' => SaidOK(p)')
    <2>1. CASE p \in net
      <3>1. PacketOK(p) /\ (NoRaw => SaidOK(p)) /\ p.from \in Node
        BY <2>1, Members, Kinds
      <3>. QED  BY <3>1, <1>1 DEF PacketOK, SaidOK, Acks
    <2>2. CASE p = r
      BY <2>2, <1>2 DEF PacketOK, SaidOK
    <2>. QED  BY <2>1, <2>2, <1>1
  <1>5. ASSUME NEW i \in Node, Connected(i)
        PROVE  OwnOK(i)' /\ (quiet => EraOK(i)') /\ (quiet /\ NoRaw => HandedOK(i)')
    <2>1. OwnOK(i) /\ (quiet => EraOK(i)) /\ (quiet /\ NoRaw => HandedOK(i))
          /\ Other(i) \in Node
      BY <1>5, Members, Ends
    <2>2. Spoken(i)' = Spoken(i)
      BY <1>1, <1>2 DEF Spoken
    <2>3. \A k \in Kind, next \in 0 .. 1 : ~Acks(r, k, next)
      BY <1>2, Silent
    <2>4. OwnOK(i)'
      BY <2>1, <1>1 DEF OwnOK
    <2>5. quiet => EraOK(i)'
      BY <2>1, <2>2, <1>1 DEF EraOK
    <2>6. quiet /\ NoRaw => HandedOK(i)'
      BY <2>1, <2>3, <1>1 DEF HandedOK, Acks
    <2>. QED  BY <2>4, <2>5, <2>6
  <1>. QED  BY <1>1, <1>3, <1>4, <1>5 DEF IInv

-----------------------------------------------------------------------------
(***************************************************************************)
(* Taking acknowledgements.                                                *)
(***************************************************************************)
LEMMA Standing ==
  ASSUME IInv, NEW n \in Node, Connected(n)
  PROVE  con[n] \in ConnectionState /\ Continues(n, con[n])
  <1>1. con[n] \in ConnectionState /\ OwnOK(n) /\ (quiet /\ NoRaw => HandedOK(n))
    BY Members
  <1>2. \A k \in Kind : con[n].sent[k] \in 0 .. 1 /\ con[n].acked[k] \in 0 .. 1
                        /\ con[n].handed[k] \in Nat
    BY <1>1, Numbered
  <1>3. quiet /\ NoRaw => \A k \in Kind : con[n].acked[k] <= con[n].handed[k]
    BY <1>1, <1>2 DEF HandedOK
  <1>4. \A k \in Kind : con[n].sent[k] <= con[n].sent[k]
    BY <1>2
  <1>. QED  BY <1>1, <1>3, <1>4, HeardIsSpoken DEF Continues, OwnOK

LEMMA Hearing ==
  ASSUME IInv, NEW n \in Node, Connected(n), NEW pkt \in net,
         pkt.from = Other(n), pkt.kind \notin Openings
  PROVE  Continues(n, Heard(n, pkt)) /\ Heard(n, pkt).heard # {}
  <1>1. /\ con[n] \in ConnectionState /\ Continues(n, con[n]) /\ pkt.era \in Nat
        /\ con[n].heard \in SUBSET Nat /\ OwnOK(n)
    BY Standing, Members, Kinds, Fields
  <1>2. PICK heard \in SUBSET Nat : heard = con[n].heard \cup {pkt.era}
    BY <1>1
  <1>3. Heard(n, pkt) = [con[n] EXCEPT !.heard = heard]
    BY <1>2 DEF Heard
  <1>4. PICK c : c = Heard(n, pkt)
    OBVIOUS
  <1>5. /\ c \in ConnectionState /\ c.heard = heard
        /\ c.received = con[n].received /\ c.handed = con[n].handed
        /\ c.sent = con[n].sent /\ c.queued = con[n].queued
        /\ c.acked = con[n].acked
    BY <1>1, <1>3, <1>4 DEF ConnectionState
  <1>6. heard \subseteq Spoken(n)
    BY <1>2 DEF Spoken
  <1>. QED  BY <1>1, <1>2, <1>4, <1>5, <1>6 DEF Continues

LEMMA Acknowledging ==
  ASSUME IInv, NEW n \in Node, Connected(n), NEW c, Continues(n, c), c.heard # {},
         NEW k \in Kind, NEW next \in 0 .. 1,
         quiet /\ NoRaw => next <= con[n].handed[k]
  PROVE  /\ Continues(n, Acknowledged(c, k, next))
         /\ Acknowledged(c, k, next).heard # {}
  <1>1. c \in ConnectionState /\ c.acked \in [Kind -> 0 .. 1]
        /\ c.silence \in [Kind -> 0 .. Timeout + 1]
    BY Fields DEF Continues, Counts
  <1>2. CASE next \in c.acked[k] .. c.sent[k]
    <2>1. [c.acked EXCEPT ![k] = next] \in Counts
          /\ [c.silence EXCEPT ![k] = 0] \in [Kind -> 0 .. Timeout + 1]
      BY <1>1, ConnectionAssumption DEF Counts
    <2>2. PICK acked \in Counts : acked = [c.acked EXCEPT ![k] = next]
      BY <2>1
    <2>3. PICK silence \in [Kind -> 0 .. Timeout + 1] :
            silence = [c.silence EXCEPT ![k] = 0]
      BY <2>1
    <2>4. Acknowledged(c, k, next) = [c EXCEPT !.acked = acked, !.silence = silence]
      BY <1>2, <2>2, <2>3 DEF Acknowledged
    <2>5. PICK d : d = Acknowledged(c, k, next)
      OBVIOUS
    <2>6. /\ d \in ConnectionState /\ d.heard = c.heard
          /\ d.received = c.received /\ d.handed = c.handed
          /\ d.sent = c.sent /\ d.queued = c.queued /\ d.acked = acked
      BY <1>1, <2>4, <2>5 DEF ConnectionState
    <2>7. quiet /\ NoRaw => \A j \in Kind : acked[j] <= c.handed[j]
      BY <1>1, <2>2 DEF Continues
    <2>. QED  BY <2>5, <2>6, <2>7 DEF Continues
  <1>3. CASE next \notin c.acked[k] .. c.sent[k]
    BY <1>3 DEF Acknowledged
  <1>. QED  BY <1>2, <1>3

\* No acknowledgement is ahead of what the other end took.
LEMMA Owed ==
  ASSUME IInv, NEW n \in Node, Connected(n), NEW pkt \in net, pkt.from = Other(n),
         quiet, NoRaw
  PROVE  \A k \in Kind, next \in 0 .. 1 : Acks(pkt, k, next) => next <= con[n].handed[k]
  BY Members DEF HandedOK

-----------------------------------------------------------------------------
(***************************************************************************)
(* The steps of a connected end.                                           *)
(***************************************************************************)
\* A step that sends nothing by send_unreliable.
LEMMA Saying ==
  ASSUME IInv, NEW n \in Node, Connected(n), NEW c, NEW said,
         Continues(n, c), SaidBy(n, c, said),
         con' = [con EXCEPT ![n] = c], net' = net \cup said, UNCHANGED <<raw, era, quiet>>
  PROVE  IInv'
  <1>1. raw' \in [Node -> Nat] /\ (NoRaw' => NoRaw)
    BY Members DEF NoRaw
  <1>. QED  BY <1>1, Speaking

LEMMA SaysPlain ==
  ASSUME IInv, NEW n \in Node, NEW c, NEW kind \in {"disconnecting", "ping"}
  PROVE  SaidBy(n, c, {Plain(kind, n)})
  <1>1. era[n] \in Nat
    BY Members
  <1>2. PICK r : r = Plain(kind, n)
    OBVIOUS
  <1>3. r \in Packet /\ r.from = n /\ r.era = era[n] /\ r.kind = kind
    BY <1>1, <1>2 DEF Plain, Packet
  <1>4. \A k \in Kind, next \in 0 .. 1 : ~Acks(r, k, next)
    BY <1>3, Silent
  <1>. QED  BY <1>2, <1>3, <1>4 DEF SaidBy, Kind

LEMMA SaysAck ==
  ASSUME IInv, NEW n \in Node, NEW c, NEW next \in Numbers,
         \A k \in DOMAIN next : next[k] <= c.received[k]
  PROVE  SaidBy(n, c, {Ack(n, next)})
  <1>1. era[n] \in Nat
    BY Members
  <1>2. PICK r : r = Ack(n, next)
    OBVIOUS
  <1>3. r = [kind |-> "ack", from |-> n, era |-> era[n], next |-> next]
    BY <1>2 DEF Ack
  <1>4. r \in Packet
    BY <1>1, <1>3 DEF Packet
  <1>. QED  BY <1>2, <1>3, <1>4 DEF SaidBy, Kind, Acks

LEMMA StepSend ==
  ASSUME IInv, NEW n \in Node, NEW k \in Kind, send(n, k)
  PROVE  IInv'
  <1>1. con[n] \in ConnectionState /\ Continues(n, con[n]) /\ Connected(n)
    BY Standing DEF send
  <1>2. \A j \in Kind : con[n].queued[j] \in 0 .. 1 /\ con[n].sent[j] \in 0 .. 1
    BY <1>1, Numbered
  <1>3. con[n].queued[k] < MaxMessages[n][k] /\ MaxMessages[n][k] \in 0 .. 1
    BY ConnectionAssumption DEF send
  <1>4. con[n].queued[k] + 1 \in 0 .. 1
    BY <1>2, <1>3
  <1>5. con[n].queued \in [Kind -> 0 .. 1]
    BY <1>1, Fields DEF Counts
  <1>6. PICK queued \in Counts : queued = [con[n].queued EXCEPT ![k] = con[n].queued[k] + 1]
    <2>1. [con[n].queued EXCEPT ![k] = con[n].queued[k] + 1] \in Counts
      BY <1>4, <1>5 DEF Counts
    <2>. QED  BY <2>1
  <1>7. PICK c : c = [con[n] EXCEPT !.queued = queued]
    OBVIOUS
  <1>8. /\ c \in ConnectionState /\ c.heard = con[n].heard
        /\ c.received = con[n].received /\ c.handed = con[n].handed
        /\ c.sent = con[n].sent /\ c.queued = queued
        /\ c.acked = con[n].acked
    BY <1>1, <1>7 DEF ConnectionState
  <1>9. \A j \in Kind : con[n].queued[j] <= queued[j] /\ queued[j] \in 0 .. 1
    BY <1>2, <1>5, <1>6 DEF Counts
  <1>10. Continues(n, c)
    BY <1>1, <1>2, <1>8, <1>9 DEF Continues
  <1>11. con' = [con EXCEPT ![n] = c]
    BY <1>6, <1>7 DEF send
  <1>12. SaidBy(n, c, {}) /\ net' = net \cup {} /\ UNCHANGED <<raw, era, quiet>>
    BY DEF SaidBy, send
  <1>. QED  BY <1>1, <1>10, <1>11, <1>12, Saying

LEMMA StepSendUnreliable ==
  ASSUME IInv, NEW n \in Node, send_unreliable(n)
  PROVE  IInv'
  <1>1. Connected(n) /\ Continues(n, con[n])
    BY Standing DEF send_unreliable
  <1>2. PICK pkt \in Raw(n) : net' = net \cup {pkt}
    BY DEF send_unreliable
  <1>3. raw' \in [Node -> Nat] /\ ~NoRaw'
    <2>1. raw \in [Node -> Nat] /\ raw' = [raw EXCEPT ![n] = @ + 1]
      BY Members DEF send_unreliable
    <2>2. raw' \in [Node -> Nat] /\ raw'[n] # 0
      BY <2>1
    <2>. QED  BY <2>2 DEF NoRaw
  <1>4. pkt \in Packet /\ pkt.from = n /\ (pkt.kind \notin Openings => pkt.era = era[n])
    <2>1. era[n] \in Nat
      BY Members
    <2>2. CASE pkt \in {Opening(kind, n) : kind \in Openings}
      BY <2>2 DEF Opening, Openings, Packet
    <2>3. CASE pkt \in {Plain(kind, n) : kind \in {"disconnecting", "ping"}}
      BY <2>1, <2>3 DEF Plain, Packet
    <2>4. CASE pkt \in [kind : Kind, from : {n}, era : {era[n]}, id : {0}, next : 0 .. 1]
      BY <2>1, <2>4 DEF Packet
    <2>5. CASE pkt \in {Ack(n, next) : next \in Numbers}
      BY <2>1, <2>5 DEF Ack, Packet
    <2>. QED  BY <1>2, <2>2, <2>3, <2>4, <2>5 DEF Raw
  <1>5. SaidBy(n, con[n], {pkt})
    BY <1>3, <1>4 DEF SaidBy
  <1>6. con' = [con EXCEPT ![n] = con[n]] /\ era' = era /\ quiet' = quiet
    BY Members DEF send_unreliable
  <1>. QED  BY <1>1, <1>2, <1>3, <1>5, <1>6, Speaking

LEMMA StepPing ==
  ASSUME IInv, NEW n \in Node, NEW pkt \in net, pkt.from = Other(n), Connected(n),
         receive_ping(n, pkt), UNCHANGED raw
  PROVE  IInv'
  <1>1. Continues(n, Heard(n, pkt))
    BY Hearing DEF receive_ping, Openings
  <1>2. con[n].received \in [Kind -> 0 .. 1]
    BY Members, Fields DEF Counts
  <1>3. con[n].received \in Numbers
    BY <1>2 DEF Numbers
  <1>4. \A k \in Kind : con[n].received[k] <= Heard(n, pkt).received[k]
    BY <1>1, <1>2 DEF Continues
  <1>5. SaidBy(n, Heard(n, pkt), {Ack(n, con[n].received)})
    BY <1>2, <1>3, <1>4, SaysAck
  <1>. QED  BY <1>1, <1>5, Saying DEF receive_ping

LEMMA StepAck ==
  ASSUME IInv, NEW n \in Node, NEW pkt \in net, pkt.from = Other(n), Connected(n),
         receive_ack(n, pkt), UNCHANGED raw
  PROVE  IInv'
  <1>. DEFINE Take(c, k) == IF k \in DOMAIN pkt.next THEN Acknowledged(c, k, pkt.next[k]) ELSE c
  <1>1. pkt.kind = "ack"
    BY DEF receive_ack
  <1>2. Continues(n, Heard(n, pkt)) /\ Heard(n, pkt).heard # {}
    BY <1>1, Hearing DEF Openings
  <1>3. ASSUME NEW c, NEW k \in Kind, Continues(n, c), c.heard # {}
        PROVE  Continues(n, Take(c, k)) /\ Take(c, k).heard # {}
    <2>1. CASE k \in DOMAIN pkt.next
      <3>1. pkt.next[k] \in 0 .. 1
        BY <1>1, <2>1, Members, Kinds
      <3>2. quiet /\ NoRaw => pkt.next[k] <= con[n].handed[k]
        BY <1>1, <2>1, <3>1, Owed DEF Acks
      <3>. QED  BY <2>1, <3>1, <3>2, <1>3, Acknowledging
    <2>2. CASE k \notin DOMAIN pkt.next
      BY <2>2, <1>3
    <2>. QED  BY <2>1, <2>2
  <1>4. PICK c : c = Take(Heard(n, pkt), "stream")
    OBVIOUS
  <1>5. PICK d : d = Take(c, "reliable")
    OBVIOUS
  <1>6. con' = [con EXCEPT ![n] = d] /\ UNCHANGED <<era, net, quiet>>
    BY <1>4, <1>5 DEF receive_ack
  <1>. HIDE DEF Take
  <1>7. "stream" \in Kind /\ "reliable" \in Kind
    BY DEF Kind
  <1>8. Continues(n, c) /\ c.heard # {}
    BY <1>2, <1>3, <1>4, <1>7
  <1>9. Continues(n, d)
    BY <1>3, <1>5, <1>7, <1>8
  <1>10. SaidBy(n, d, {}) /\ net' = net \cup {}
    BY <1>6 DEF SaidBy
  <1>. QED  BY <1>6, <1>9, <1>10, Saying

LEMMA StepMessage ==
  ASSUME IInv, NEW n \in Node, NEW pkt \in net, pkt.from = Other(n), Connected(n),
         receive_message(n, pkt), UNCHANGED raw
  PROVE  IInv'
  <1>1. PICK k : k = pkt.kind
    OBVIOUS
  <1>2. PICK c : c = Acknowledged(Heard(n, pkt), k, pkt.next)
    OBVIOUS
  <1>3. k \in Kind /\ UNCHANGED <<era, quiet>>
    BY <1>1 DEF receive_message
  <1>4. pkt.id = 0 /\ pkt.next \in 0 .. 1 /\ pkt.kind \notin Openings
    BY <1>1, <1>3, Members, Kinds DEF Kind, Openings
  <1>5. quiet /\ NoRaw => pkt.next <= con[n].handed[k]
    BY <1>1, <1>3, <1>4, Owed DEF Acks
  <1>6. Continues(n, Heard(n, pkt)) /\ Heard(n, pkt).heard # {}
    BY <1>4, Hearing
  <1>7. Continues(n, c) /\ c.heard # {}
    BY <1>2, <1>3, <1>4, <1>5, <1>6, Acknowledging
  <1>8. CASE IsNew(n, pkt)
    <2>1. con[n].received[k] = 0 /\ c.received[k] + 1 = 1
      BY <1>1, <1>4, <1>7, <1>8 DEF IsNew, Continues
    <2>2. con' = [con EXCEPT ![n] = [c EXCEPT !.received[k] = 1],
                             ![Other(n)] = IF pkt.era = era[Other(n)]
                                             THEN HandedOver(@, k) ELSE @]
          /\ net' = net \cup {Ack(n, [kind \in {k} |-> 1])}
      BY <1>1, <1>2, <1>8, <2>1 DEF receive_message
    <2>. QED  BY <1>1, <1>3, <1>4, <1>7, <2>1, <2>2, Taking
  <1>9. CASE ~IsNew(n, pkt)
    <2>1. con' = [con EXCEPT ![n] = c] /\ net' = net \cup {}
      BY <1>1, <1>2, <1>9 DEF receive_message
    <2>2. SaidBy(n, c, {})
      BY DEF SaidBy
    <2>. QED  BY <1>3, <1>7, <2>1, <2>2, Saying
  <1>. QED  BY <1>8, <1>9

LEMMA StepUpdate ==
  ASSUME IInv, NEW n \in Node, update(n)
  PROVE  IInv'
  <1>1. /\ Connected(n) /\ con[n] \in ConnectionState /\ Continues(n, con[n])
        /\ con[n].queued \in Counts /\ OwnOK(n)
    BY Standing, Members, Fields DEF update
  <1>2. PICK c : c = Updated(con[n])
    OBVIOUS
  <1>3. /\ c \in ConnectionState /\ c.heard = con[n].heard
        /\ c.received = con[n].received /\ c.handed = con[n].handed
        /\ c.sent = con[n].queued /\ c.queued = con[n].queued
        /\ c.acked = con[n].acked
    BY <1>1, <1>2 DEF ConnectionState, Updated
  <1>4. \A k \in Kind : con[n].queued[k] \in 0 .. 1 /\ con[n].sent[k] <= con[n].queued[k]
    BY <1>1, Numbered DEF OwnOK
  <1>5. Continues(n, c)
    BY <1>1, <1>3, <1>4 DEF Continues
  <1>6. con' = [con EXCEPT ![n] = c] /\ UNCHANGED <<raw, era, quiet>>
    BY <1>1, <1>2, Members DEF update
  <1>7. PICK said : said = (UNION {Outgoing(n, k) : k \in Kind})
                             \cup (IF con[n].pinged THEN {} ELSE {Plain("ping", n)})
    OBVIOUS
  <1>8. net' = net \cup said
    BY <1>7 DEF update
  <1>9. ASSUME NEW k \in Kind, NEW id \in Unacknowledged(con[n], k)
        PROVE  SaidBy(n, c, {Message(k, n, id)})
    <2>1. con[n].acked[k] \in 0 .. 1 /\ con[n].queued[k] \in 0 .. 1
          /\ con[n].received[k] \in 0 .. 1
      BY <1>1, Numbered
    <2>2. id = 0 /\ id < con[n].queued[k]
      BY <1>9, <2>1 DEF Unacknowledged
    <2>3. PICK r : r = Message(k, n, id)
      OBVIOUS
    <2>4. r = [kind |-> k, from |-> n, era |-> era[n], id |-> id, next |-> con[n].received[k]]
      BY <2>3 DEF Message
    <2>5. era[n] \in Nat
      BY Members
    <2>6. r \in Packet
      BY <2>1, <2>2, <2>4, <2>5 DEF Packet
    <2>7. k # "ack"
      BY DEF Kind
    <2>8. \A j \in Kind, next \in 0 .. 1 : Acks(r, j, next) => next <= c.received[j]
      BY <2>1, <2>4, <2>7, <1>3 DEF Acks
    <2>. QED  BY <2>2, <2>3, <2>4, <2>6, <2>8, <1>3 DEF SaidBy
  <1>10. SaidBy(n, c, {Plain("ping", n)})
    BY SaysPlain
  <1>11. ASSUME NEW pkt \in said  PROVE SaidBy(n, c, {pkt})
    <2>1. CASE pkt = Plain("ping", n)
      BY <2>1, <1>10
    <2>2. CASE pkt # Plain("ping", n)
      <3>1. PICK k \in Kind : pkt \in Outgoing(n, k)
        BY <2>2, <1>7
      <3>2. PICK id \in Unacknowledged(con[n], k) : pkt = Message(k, n, id)
        BY <3>1 DEF Outgoing
      <3>. QED  BY <3>2, <1>9
    <2>. QED  BY <2>1, <2>2
  <1>12. SaidBy(n, c, said)
    BY <1>11 DEF SaidBy
  <1>. QED  BY <1>1, <1>5, <1>6, <1>8, <1>12, Saying

-----------------------------------------------------------------------------
(***************************************************************************)
(* The inductive invariant.                                                *)
(***************************************************************************)
LEMMA StepInit ==
  ASSUME Init
  PROVE  IInv
  <1>1. TypeOK
    BY DEF Init, TypeOK
  <1>2. \A n \in Node : ~Connected(n)
    BY DEF Init, Connected
  <1>. QED  BY <1>1, <1>2 DEF Init, IInv

LEMMA StepPacket ==
  ASSUME IInv, NEW n \in Node, NEW pkt \in net, receive_packet(n, pkt)
  PROVE  IInv'
  <1>1. pkt.from = Other(n)
    BY DEF receive_packet
  <1>2. CASE receive_opening(n, pkt)
    BY <1>2, StepOpening
  <1>3. CASE receive_connected(n, pkt)
    <2>1. Connected(n) /\ UNCHANGED raw
      BY <1>3 DEF receive_connected
    <2>2. CASE receive_disconnecting(n, pkt)
      <3>1. Lost(n) /\ net' = net
        BY <2>2 DEF receive_disconnecting
      <3>. QED  BY <2>1, <3>1, Losing
    <2>. QED  BY <1>1, <1>3, <2>1, <2>2, StepPing, StepAck, StepMessage DEF receive_connected
  <1>. QED  BY <1>2, <1>3 DEF receive_packet

LEMMA StepInv ==
  ASSUME IInv, [Next]_vars
  PROVE  IInv'
  <1>1. ASSUME NEW n \in Node, restart(n)  PROVE IInv'
    BY <1>1, Losing DEF restart
  <1>2. ASSUME NEW n \in Node, try_connect(n)  PROVE IInv'
    BY <1>2, Asking
  <1>3. ASSUME NEW n \in Node, disconnect(n)  PROVE IInv'
    BY <1>3, Losing DEF disconnect
  <1>4. ASSUME NEW n \in Node, NEW k \in Kind, send(n, k)  PROVE IInv'
    BY <1>4, StepSend
  <1>5. ASSUME NEW n \in Node, send_unreliable(n)  PROVE IInv'
    BY <1>5, StepSendUnreliable
  <1>6. ASSUME NEW n \in Node, NEW pkt \in net, receive_packet(n, pkt)  PROVE IInv'
    BY <1>6, StepPacket
  <1>7. ASSUME NEW n \in Node, update(n)  PROVE IInv'
    BY <1>7, StepUpdate
  <1>8. ASSUME NEW n \in Node, update_TimedOut(n)  PROVE IInv'
    BY <1>8, Losing DEF update_TimedOut
  <1>9. ASSUME Tick  PROVE IInv'
    BY <1>9, Ticking
  <1>10. ASSUME UNCHANGED vars  PROVE IInv'
    <2>1. con' = con /\ net' = net /\ raw' = raw /\ era' = era /\ quiet' = quiet
      BY <1>10 DEF vars
    <2>2. /\ \A n : (Connected(n)' <=> Connected(n)) /\ Spoken(n)' = Spoken(n)
          /\ NoRaw' <=> NoRaw
      BY <2>1 DEF Connected, Spoken, NoRaw
    <2>3. \A p : (PacketOK(p)' <=> PacketOK(p)) /\ (SaidOK(p)' <=> SaidOK(p))
      BY <2>1, <2>2 DEF PacketOK, SaidOK
    <2>4. \A n : (OwnOK(n)' <=> OwnOK(n)) /\ (EraOK(n)' <=> EraOK(n))
                 /\ (HandedOK(n)' <=> HandedOK(n))
      BY <2>1, <2>2 DEF OwnOK, EraOK, HandedOK
    <2>5. TypeOK' <=> TypeOK
      BY <2>1 DEF TypeOK
    <2>. QED  BY <2>1, <2>2, <2>3, <2>4, <2>5 DEF IInv
  <1>. QED  BY <1>1, <1>2, <1>3, <1>4, <1>5, <1>6, <1>7, <1>8, <1>9, <1>10 DEF Next, Step

\* The inductive invariant holds of every behaviour: connections may be made
\* at any time, by requests of either end, late or repeated packets and whatever
\* send_unreliable sends.
THEOREM Invariance == Spec => []IInv
  <1>1. Init => IInv
    BY StepInit
  <1>2. IInv /\ [Next]_vars => IInv'
    BY StepInv
  <1>. QED  BY <1>1, <1>2, PTL DEF Spec

\* Every variable holds values of its kind: no count of a connection passes
\* the one message sent (connection::receive_message), in any behaviour.
THEOREM TypeCorrect == Spec => []TypeOK
  BY Invariance, PTL DEF IInv

\* From a connection made in quiet to the next one that is made, an end takes
\* messages, acknowledgements and pings of one connection of the other end only
\* (connection::receive_message, which no packet tells which connection it
\* belongs to), and of the present one when there is one.
THEOREM ConversesWithOne == Spec => []OneConversation
  <1>1. ASSUME IInv, quiet, NEW n \in Node, Connected(n)
        PROVE  /\ Cardinality(con[n].heard) <= 1
               /\ Connected(Other(n)) => con[n].heard \subseteq {era[Other(n)]}
    <2>1. EraOK(n) /\ con[n].heard \subseteq Spoken(n)
      BY <1>1, Members, HeardIsSpoken
    <2>2. Connected(Other(n)) => con[n].heard \subseteq {era[Other(n)]}
      BY <1>1, <2>1 DEF EraOK
    <2>3. CASE con[n].heard = {}
      BY <2>2, <2>3, FS_EmptySet
    <2>4. CASE con[n].heard # {}
      <3>1. PICK e : con[n].heard = {e}
        BY <2>1, <2>4 DEF EraOK
      <3>2. Cardinality(con[n].heard) = 1
        BY <3>1, FS_Singleton
      <3>. QED  BY <2>2, <3>2
    <2>. QED  BY <2>3, <2>4
  <1>2. IInv => OneConversation
    BY <1>1 DEF OneConversation
  <1>. QED  BY <1>2, Invariance, PTL

\* In the same stretch, and without send_unreliable, a message is handed to the
\* other application at most once, and before its memory is freed
\* (receive_message, receive_ack), although either end may be lost at any time.
THEOREM HandsOverOnce == Spec => []HandedOnce
  <1>1. IInv => HandedOnce
    BY Members DEF HandedOnce, HandedOK
  <1>. QED  BY <1>1, Invariance, PTL
=============================================================================

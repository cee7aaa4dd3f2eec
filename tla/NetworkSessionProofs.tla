------------------------- MODULE NetworkSessionProofs -------------------------
(***************************************************************************)
(* Proofs about NetworkSession: for any number of addresses, passwords,    *)
(* connections, restarts and ticks, a session has at most one connection   *)
(* with a peer, its application was told exactly what it has, and nobody   *)
(* is connected whose application, or whose peer's, did not know a         *)
(* password.                                                               *)
(***************************************************************************)
EXTENDS NetworkSession, SequenceTheorems, FiniteSetTheorems, WellFoundedInduction, TLAPS

(***************************************************************************)
(* The vector.                                                             *)
(***************************************************************************)
\* Each number up to the size of a set of indices ranks exactly one of them.
LEMMA Ranks ==
  ASSUME NEW n \in Nat, NEW kept \in SUBSET (1 .. n)
  PROVE  /\ Cardinality(kept) \in Nat
         /\ \A k \in 1 .. Cardinality(kept) :
              Ranked(kept, k) \in kept /\ Cardinality(kept \cap 1 .. Ranked(kept, k)) = k
         /\ \A i \in kept : \E k \in 1 .. Cardinality(kept) : Ranked(kept, k) = i
  <1>. DEFINE c == Cardinality(kept)
              rank == [i \in kept |-> Cardinality(kept \cap 1 .. i)]
  <1>1. IsFiniteSet(kept) /\ c \in Nat
    <2>1. IsFiniteSet(1 .. n)
      BY FS_Interval
    <2>2. IsFiniteSet(kept)
      BY <2>1, FS_Subset
    <2>. QED  BY <2>2, FS_CardinalityType
  <1>2. ASSUME NEW i \in kept
        PROVE  /\ IsFiniteSet(kept \cap 1 .. i)
               /\ Cardinality(kept \cap 1 .. i) \in 1 .. c
    <2>1. IsFiniteSet(kept \cap 1 .. i) /\ Cardinality(kept \cap 1 .. i) <= c
      BY <1>1, FS_Subset
    <2>2. Cardinality(kept \cap 1 .. i) \in Nat
      BY <2>1, FS_CardinalityType
    <2>3. i \in kept \cap 1 .. i
      OBVIOUS
    <2>4. Cardinality(kept \cap 1 .. i) # 0
      BY <2>1, <2>3, FS_EmptySet
    <2>. QED  BY <1>1, <2>1, <2>2, <2>4
  <1>3. ASSUME NEW i \in kept, NEW j \in kept, i < j
        PROVE  Cardinality(kept \cap 1 .. i) # Cardinality(kept \cap 1 .. j)
    <2>1. kept \cap 1 .. i \in SUBSET (kept \cap 1 .. j)
      BY <1>3
    <2>2. j \in kept \cap 1 .. j /\ j \notin kept \cap 1 .. i
      BY <1>3
    <2>3. IsFiniteSet(kept \cap 1 .. j)
      BY <1>2
    <2>. QED  BY <2>1, <2>2, <2>3, FS_Subset
  <1>4. \A i, j \in kept :
          Cardinality(kept \cap 1 .. i) = Cardinality(kept \cap 1 .. j) => i = j
    BY <1>3
  <1>5. rank \in Injection(kept, 1 .. c)
    BY <1>2, <1>4 DEF Injection, IsInjective
  <1>6. rank \in Surjection(kept, 1 .. c)
    <2>1. IsFiniteSet(1 .. c) /\ Cardinality(1 .. c) = c
      BY <1>1, FS_Interval
    <2>. QED  BY <1>1, <1>5, <2>1, FS_Injection
  <1>7. ASSUME NEW k \in 1 .. c
        PROVE  Ranked(kept, k) \in kept /\ Cardinality(kept \cap 1 .. Ranked(kept, k)) = k
    <2>1. \E i \in kept : Cardinality(kept \cap 1 .. i) = k
      BY <1>6 DEF Surjection
    <2>. QED  BY <2>1 DEF Ranked
  <1>8. ASSUME NEW i \in kept PROVE \E k \in 1 .. c : Ranked(kept, k) = i
    <2>. DEFINE k == Cardinality(kept \cap 1 .. i)
    <2>1. k \in 1 .. c
      BY <1>2
    <2>2. Ranked(kept, k) = i
      BY <1>4, <1>7, <2>1
    <2>. QED  BY <2>1, <2>2
  <1>. QED  BY <1>1, <1>7, <1>8

\* w is what is left of v at the indices in kept, up to the times of the
\* connections: from[k] is the index in v of the k-th connection of w.
Remains(v, kept, w) ==
  \E from \in [DOMAIN w -> kept] :
    /\ \A k, l \in DOMAIN w : from[k] = from[l] => k = l
    /\ \A i \in kept : \E k \in DOMAIN w : from[k] = i
    /\ \A k \in DOMAIN w : /\ w[k].remote_address = v[from[k]].remote_address
                           /\ w[k].remote_uuid = v[from[k]].remote_uuid

\* Erasing the connections at some indices leaves the others.
LEMMA WithoutRemains ==
  ASSUME NEW n \in Node, _connections[n] \in Seq(Connection),
         NEW indices
  PROVE  /\ Without(n, indices) \in Seq(Connection)
         /\ Remains(_connections[n], DOMAIN _connections[n] \ indices, Without(n, indices))
  <1>. DEFINE v == _connections[n]
              kept == DOMAIN v \ indices
              c == Cardinality(kept)
              w == Without(n, indices)
              from == [k \in 1 .. c |-> Ranked(kept, k)]
  <1>1. Len(v) \in Nat /\ DOMAIN v = 1 .. Len(v) /\ kept \in SUBSET (1 .. Len(v))
    OBVIOUS
  <1>. HIDE DEF kept
  <1>2. /\ c \in Nat
        /\ \A k \in 1 .. c : Ranked(kept, k) \in kept
        /\ \A k \in 1 .. c : Cardinality(kept \cap 1 .. Ranked(kept, k)) = k
        /\ \A i \in kept : \E k \in 1 .. c : Ranked(kept, k) = i
    BY <1>1, Ranks
  <1>3. w = [k \in 1 .. c |-> v[Ranked(kept, k)]]
    BY DEF Without, kept
  <1>. HIDE DEF w, c
  <1>4. \A k \in 1 .. c : v[Ranked(kept, k)] \in Connection
    <2>1. \A i \in 1 .. Len(v) : v[i] \in Connection
      OBVIOUS
    <2>. QED  BY <1>1, <1>2, <2>1
  <1>5. w \in Seq(Connection) /\ DOMAIN w = 1 .. c
    <2>1. w \in [1 .. c -> Connection]
      BY <1>3, <1>4
    <2>. QED  BY <1>2, <2>1
  <1>6. /\ from \in [DOMAIN w -> kept]
        /\ \A k, l \in DOMAIN w : from[k] = from[l] => k = l
        /\ \A i \in kept : \E k \in DOMAIN w : from[k] = i
        /\ \A k \in DOMAIN w : w[k] = v[from[k]]
    BY <1>2, <1>3, <1>5
  <1>. HIDE DEF from
  <1>7. Remains(v, kept, w)
    BY <1>6 DEF Remains
  <1>. QED  BY <1>5, <1>7 DEF kept, w

-----------------------------------------------------------------------------
(***************************************************************************)
(* A session and its application.                                          *)
(***************************************************************************)
\* The vector of n has one connection per address, each with a uuid of that
\* address, and the application of n was told of exactly those.
VectorOK(n) ==
  /\ \A i, j \in DOMAIN _connections[n] :
       _connections[n][i].remote_address = _connections[n][j].remote_address => i = j
  /\ \A i \in DOMAIN _connections[n] :
       _connections[n][i].remote_uuid[1] = _connections[n][i].remote_address
  /\ \A id \in Uuid :
       peers[n][id] = IF \E i \in DOMAIN _connections[n] :
                           _connections[n][i].remote_uuid = id
                        THEN 1 ELSE 0

LEMMA Vectors ==
  (\A n \in Node : VectorOK(n))
    <=> OneConnectionPerPeer /\ UuidsNameAddresses /\ PeersAreConnected
  BY DEF VectorOK, OneConnectionPerPeer, UuidsNameAddresses, PeersAreConnected

\* Connections are erased, of none in particular when only times change, and
\* the application is told of each.
LEMMA Erased ==
  ASSUME NEW n \in Node, VectorOK(n), peers[n] \in [Uuid -> Nat],
         NEW indices \in SUBSET DOMAIN _connections[n],
         Remains(_connections[n], DOMAIN _connections[n] \ indices, _connections'[n]),
         peers'[n] = Left(n, indices)
  PROVE  /\ VectorOK(n)' /\ peers'[n] \in [Uuid -> Nat]
         /\ \A m \in Node : Connected(n, m)' => Connected(n, m)
  <1>. DEFINE v == _connections[n]
              w == _connections'[n]
              kept == DOMAIN v \ indices
              gone(id) == {i \in indices : v[i].remote_uuid = id}
  <1>1. PICK from \in [DOMAIN w -> kept] :
          /\ \A k, l \in DOMAIN w : from[k] = from[l] => k = l
          /\ \A i \in kept : \E k \in DOMAIN w : from[k] = i
          /\ \A k \in DOMAIN w : /\ w[k].remote_address = v[from[k]].remote_address
                                 /\ w[k].remote_uuid = v[from[k]].remote_uuid
    BY DEF Remains
  <1>2. \A k \in DOMAIN w : from[k] \in kept /\ from[k] \in DOMAIN v
    BY <1>1
  <1>3. /\ \A i, j \in DOMAIN v : v[i].remote_address = v[j].remote_address => i = j
        /\ \A i \in DOMAIN v : v[i].remote_uuid[1] = v[i].remote_address
        /\ \A id \in Uuid :
             peers[n][id] = IF \E i \in DOMAIN v : v[i].remote_uuid = id THEN 1 ELSE 0
    BY DEF VectorOK
  <1>4. \A i, j \in DOMAIN v : v[i].remote_uuid = v[j].remote_uuid => i = j
    BY <1>3
  <1>. HIDE DEF v, w, kept
  <1>5. /\ \A k, l \in DOMAIN w : w[k].remote_address = w[l].remote_address => k = l
        /\ \A k \in DOMAIN w : w[k].remote_uuid[1] = w[k].remote_address
    BY <1>1, <1>2, <1>3
  <1>6. peers'[n] = [id \in Uuid |-> peers[n][id] - Cardinality(gone(id))]
    BY DEF Left, v
  <1>7. ASSUME NEW id \in Uuid
        PROVE  peers'[n][id] = IF \E k \in DOMAIN w : w[k].remote_uuid = id THEN 1 ELSE 0
    <2>1. CASE \E i \in indices : v[i].remote_uuid = id
      <3>1. PICK i \in indices : v[i].remote_uuid = id
        BY <2>1
      <3>2. i \in DOMAIN v /\ i \notin kept
        BY DEF v, kept
      <3>3. gone(id) = {i}
        <4>1. \A j \in indices : j \in DOMAIN v
          BY DEF v
        <4>. QED  BY <1>4, <3>1, <3>2, <4>1
      <3>4. Cardinality(gone(id)) = 1
        BY <3>3, FS_Singleton
      <3>5. peers[n][id] = 1
        BY <1>3, <3>1, <3>2
      <3>6. \A k \in DOMAIN w : w[k].remote_uuid # id
        BY <1>1, <1>2, <1>4, <3>1, <3>2
      <3>. QED  BY <1>6, <3>4, <3>5, <3>6
    <2>2. CASE ~ \E i \in indices : v[i].remote_uuid = id
      <3>1. gone(id) = {}
        BY <2>2
      <3>2. Cardinality(gone(id)) = 0
        BY <3>1, FS_EmptySet
      <3>3. \A i \in DOMAIN v : v[i].remote_uuid = id => i \in kept
        BY <2>2 DEF v, kept
      <3>4. (\E k \in DOMAIN w : w[k].remote_uuid = id)
              <=> (\E i \in DOMAIN v : v[i].remote_uuid = id)
        BY <1>1, <1>2, <3>3
      <3>5. peers'[n][id] = peers[n][id]
        BY <1>6, <3>2
      <3>. QED  BY <1>3, <3>4, <3>5
    <2>. QED  BY <2>1, <2>2
  <1>8. peers'[n] \in [Uuid -> Nat]
    <2>1. \A id \in Uuid : peers'[n][id] \in Nat
      BY <1>7
    <2>. QED  BY <1>6, <2>1
  <1>9. ASSUME NEW m \in Node, Connected(n, m)' PROVE Connected(n, m)
    <2>1. PICK k \in DOMAIN w : w[k].remote_address = m
      BY <1>9 DEF Connected, At, w
    <2>2. from[k] \in DOMAIN v /\ v[from[k]].remote_address = m
      BY <1>1, <1>2, <2>1
    <2>. QED  BY <2>2 DEF Connected, At, v
  <1>10. VectorOK(n)'
    BY <1>5, <1>7 DEF VectorOK, w
  <1>. QED  BY <1>8, <1>9, <1>10

\* A connection with an address that had none is added, and the application
\* told.
LEMMA Joined ==
  ASSUME NEW n \in Node, VectorOK(n), peers[n] \in [Uuid -> Nat],
         _connections[n] \in Seq(Connection),
         NEW addr \in Node, NEW id \in Uuid, id[1] = addr, ~ Connected(n, addr),
         _connections'[n] = Append(_connections[n], NewConnection(addr, id)),
         peers'[n] = [peers[n] EXCEPT ![id] = @ + 1]
  PROVE  /\ VectorOK(n)' /\ peers'[n] \in [Uuid -> Nat]
         /\ _connections'[n] \in Seq(Connection)
         /\ \A m \in Node : Connected(n, m)' => m = addr \/ Connected(n, m)
  <1>. DEFINE v == _connections[n]
              w == _connections'[n]
              new == NewConnection(addr, id)
  <1>1. new \in Connection /\ new.remote_address = addr /\ new.remote_uuid = id
    <2>1. 0 \in 0 .. Timeout + 1
      BY SessionAssumption
    <2>. QED  BY <2>1 DEF NewConnection, Connection
  <1>. HIDE DEF new
  <1>2. w = Append(v, new) /\ v \in Seq(Connection)
    BY DEF new
  <1>3. /\ \A i, j \in DOMAIN v : v[i].remote_address = v[j].remote_address => i = j
        /\ \A i \in DOMAIN v : v[i].remote_uuid[1] = v[i].remote_address
        /\ \A i \in DOMAIN v : v[i].remote_address # addr
        /\ \A d \in Uuid :
             peers[n][d] = IF \E i \in DOMAIN v : v[i].remote_uuid = d THEN 1 ELSE 0
    BY DEF VectorOK, Connected, At
  <1>. HIDE DEF v, w
  <1>4. /\ w \in Seq(Connection)
        /\ DOMAIN w = DOMAIN v \cup {Len(v) + 1} /\ Len(v) + 1 \notin DOMAIN v
        /\ w[Len(v) + 1] = new /\ \A i \in DOMAIN v : w[i] = v[i]
    BY <1>1, <1>2
  <1>5. /\ \A i, j \in DOMAIN w : w[i].remote_address = w[j].remote_address => i = j
        /\ \A i \in DOMAIN w : w[i].remote_uuid[1] = w[i].remote_address
    BY <1>1, <1>3, <1>4
  <1>6. ASSUME NEW d \in Uuid
        PROVE  peers'[n][d] = IF \E i \in DOMAIN w : w[i].remote_uuid = d THEN 1 ELSE 0
    <2>1. CASE d = id
      <3>1. ~ \E i \in DOMAIN v : v[i].remote_uuid = id
        BY <1>3
      <3>2. peers[n][d] = 0 /\ peers'[n][d] = peers[n][d] + 1
        BY <1>3, <2>1, <3>1
      <3>. QED  BY <1>1, <1>4, <2>1, <3>2
    <2>2. CASE d # id
      <3>1. peers'[n][d] = peers[n][d]
        BY <2>2
      <3>2. (\E i \in DOMAIN w : w[i].remote_uuid = d)
              <=> (\E i \in DOMAIN v : v[i].remote_uuid = d)
        BY <1>1, <1>4, <2>2
      <3>. QED  BY <1>3, <3>1, <3>2
    <2>. QED  BY <2>1, <2>2
  <1>7. VectorOK(n)'
    BY <1>5, <1>6 DEF VectorOK, w
  <1>8. ASSUME NEW m \in Node, Connected(n, m)', m # addr PROVE Connected(n, m)
    <2>1. PICK i \in DOMAIN w : w[i].remote_address = m
      BY <1>8 DEF Connected, At, w
    <2>2. i \in DOMAIN v /\ v[i].remote_address = m
      BY <1>1, <1>4, <1>8, <2>1
    <2>. QED  BY <2>2 DEF Connected, At, v
  <1>9. peers'[n] \in [Uuid -> Nat]
    OBVIOUS
  <1>. QED  BY <1>4, <1>7, <1>8, <1>9 DEF w

\* Nothing is erased, or one connection.
LEMMA LeftNone ==
  ASSUME NEW n \in Node, peers[n] \in [Uuid -> Nat]
  PROVE  Left(n, {}) = peers[n]
  <1>1. \A id \in Uuid : {i \in {} : _connections[n][i].remote_uuid = id} = {}
    OBVIOUS
  <1>2. Left(n, {}) = [id \in Uuid |-> peers[n][id] - 0]
    BY <1>1, FS_EmptySet DEF Left
  <1>. QED  BY <1>2

LEMMA LeftOne ==
  ASSUME NEW n \in Node, peers[n] \in [Uuid -> Nat], NEW i
  PROVE  Left(n, {i}) = [peers[n] EXCEPT ![_connections[n][i].remote_uuid] = @ - 1]
  <1>. DEFINE gone(id) == {j \in {i} : _connections[n][j].remote_uuid = id}
              d == _connections[n][i].remote_uuid
  <1>1. ASSUME NEW id \in Uuid PROVE Cardinality(gone(id)) = IF id = d THEN 1 ELSE 0
    <2>1. gone(id) = IF id = d THEN {i} ELSE {}
      OBVIOUS
    <2>. QED  BY <2>1, FS_Singleton, FS_EmptySet
  <1>2. Left(n, {i}) = [id \in Uuid |-> peers[n][id] - Cardinality(gone(id))]
    BY DEF Left
  <1>. HIDE DEF gone
  <1>3. Left(n, {i}) = [id \in Uuid |-> IF id = d THEN peers[n][id] - 1 ELSE peers[n][id]]
    BY <1>1, <1>2
  <1>. QED  BY <1>3

\* Connections whose times change are the same connections.
LEMMA Aged ==
  ASSUME NEW v, NEW w, DOMAIN w = DOMAIN v,
         \A i \in DOMAIN v : /\ w[i].remote_address = v[i].remote_address
                             /\ w[i].remote_uuid = v[i].remote_uuid
  PROVE  Remains(v, DOMAIN v \ {}, w)
  <1>. DEFINE from == [i \in DOMAIN w |-> i]
  <1>1. /\ from \in [DOMAIN w -> DOMAIN v \ {}]
        /\ \A k, l \in DOMAIN w : from[k] = from[l] => k = l
        /\ \A i \in DOMAIN v \ {} : \E k \in DOMAIN w : from[k] = i
        /\ \A k \in DOMAIN w : /\ w[k].remote_address = v[from[k]].remote_address
                               /\ w[k].remote_uuid = v[from[k]].remote_uuid
    OBVIOUS
  <1>. HIDE DEF from
  <1>. QED  BY <1>1 DEF Remains

\* What the invariant says of one session.
LEMMA OneOf ==
  ASSUME IInv, NEW n \in Node
  PROVE  /\ VectorOK(n) /\ peers[n] \in [Uuid -> Nat]
         /\ _connections[n] \in Seq(Connection)
         /\ \A i \in DOMAIN _connections[n] : _connections[n][i] \in Connection
         /\ \A i, j \in DOMAIN _connections[n] :
              _connections[n][i].remote_uuid = _connections[n][j].remote_uuid => i = j
         /\ DOMAIN _connections[n] \subseteq Nat
         /\ CurrentUuid(n) \in Uuid
  <1>1. VectorOK(n)
    BY Vectors DEF IInv
  <1>2. /\ peers[n] \in [Uuid -> Nat] /\ _connections[n] \in Seq(Connection)
        /\ run[n] \in 1 .. MaxRuns
    BY DEF IInv, TypeOK
  <1>3. \A i \in DOMAIN _connections[n] : _connections[n][i] \in Connection /\ i \in Nat
    BY <1>2
  <1>4. CurrentUuid(n) \in Uuid
    BY <1>2 DEF CurrentUuid, Uuid
  <1>. QED  BY <1>1, <1>2, <1>3, <1>4 DEF VectorOK

\* find_connection finds the connection with an address, or a uuid, if there
\* is one.
LEMMA Found ==
  ASSUME IInv, NEW n \in Node
  PROVE  /\ \A addr \in Node :
              Connected(n, addr) => /\ First(At(n, addr)) \in DOMAIN _connections[n]
                                    /\ First(At(n, addr)) \in At(n, addr)
         /\ \A id \in Uuid :
              With(n, id) # {} => /\ First(With(n, id)) \in DOMAIN _connections[n]
                                  /\ First(With(n, id)) \in With(n, id)
  <1>1. ASSUME NEW S \in SUBSET Nat, S # {}, \A i, j \in S : i = j PROVE First(S) \in S
    <2>1. PICK i \in S : TRUE
      BY <1>1
    <2>2. i \in Nat /\ \A j \in S : i <= j
      BY <1>1
    <2>. QED  BY <2>2 DEF First
  <1>2. ASSUME NEW addr \in Node, Connected(n, addr) PROVE First(At(n, addr)) \in At(n, addr)
    <2>1. /\ At(n, addr) \in SUBSET Nat /\ At(n, addr) # {}
          /\ \A i, j \in At(n, addr) : i = j
      BY <1>2, OneOf DEF At, Connected, VectorOK
    <2>. QED  BY <1>1, <2>1
  <1>3. ASSUME NEW id \in Uuid, With(n, id) # {} PROVE First(With(n, id)) \in With(n, id)
    <2>1. With(n, id) \in SUBSET Nat /\ \A i, j \in With(n, id) : i = j
      BY OneOf DEF With
    <2>. QED  BY <1>1, <1>3, <2>1
  <1>. QED  BY <1>2, <1>3 DEF At, With

-----------------------------------------------------------------------------
(***************************************************************************)
(* The invariant.                                                          *)
(***************************************************************************)
LEMMA InitInv == Init => IInv
  <1>. SUFFICES ASSUME Init PROVE IInv
    OBVIOUS
  <1>1. /\ run = [n \in Node |-> 1] /\ up = [n \in Node |-> TRUE]
        /\ _connections = [n \in Node |-> <<>>] /\ peers = [n \in Node |-> NoPeers]
        /\ calls = [n \in Node |-> 0] /\ asked = {} /\ net = {}
    BY DEF Init
  <1>2. TypeOK
    <2>1. 1 \in 1 .. MaxRuns
      BY SessionAssumption
    <2>. QED  BY <1>1, <2>1 DEF TypeOK, NoPeers
  <1>3. \A n \in Node : DOMAIN _connections[n] = {}
    BY <1>1
  <1>4. \A n \in Node : VectorOK(n)
    BY <1>1, <1>3 DEF VectorOK, NoPeers
  <1>5. AdmittedByPassword
    BY <1>3 DEF AdmittedByPassword, Connected, At
  <1>6. InTransit = {}
    BY <1>1 DEF InTransit
  <1>. QED  BY <1>2, <1>4, <1>5, <1>6, Vectors DEF IInv

\* Packets that were sent are of their kind and were in transit before or are
\* among the new ones.
LEMMA SentPackets ==
  ASSUME IInv, NEW packets \in SUBSET Packet, net' = Sent(packets)
  PROVE  /\ net' \subseteq [packet : Packet, left : 0 .. Lifetime]
         /\ \A entry \in net' : entry.packet \in InTransit \/ entry.packet \in packets
  <1>1. net \subseteq [packet : Packet, left : 0 .. Lifetime]
    BY DEF IInv, TypeOK
  <1>2. Lifetime \in 0 .. Lifetime
    BY SessionAssumption
  <1>. QED  BY <1>1, <1>2 DEF Sent, InTransit

\* A step keeps the invariant if it keeps every vector right, connects only by
\* password and sends only packets that are true.
LEMMA Keeps ==
  ASSUME IInv,
         run' \in [Node -> 1 .. MaxRuns], up' \in [Node -> BOOLEAN],
         calls' \in [Node -> Nat],
         _connections' \in [Node -> Seq(Connection)],
         peers' \in [Node -> [Uuid -> Nat]],
         asked' \subseteq Node \X Node \X Passwords, asked \subseteq asked',
         net' \subseteq [packet : Packet, left : 0 .. Lifetime],
         \A n \in Node : VectorOK(n)',
         \A n, m \in Node : Connected(n, m)' =>
           \/ Connected(n, m)
           \/ <<n, m, Password[m]>> \in asked'
           \/ <<m, n, Password[n]>> \in asked',
         \A entry \in net' : entry.packet \in InTransit \/ PacketOK(entry.packet)'
  PROVE  IInv'
  <1>1. TypeOK'
    BY DEF TypeOK
  <1>2. OneConnectionPerPeer' /\ UuidsNameAddresses' /\ PeersAreConnected'
    <2>1. UuidsNameAddresses' /\ PeersAreConnected'
      BY DEF VectorOK, UuidsNameAddresses, PeersAreConnected
    <2>2. \A n \in Node : \A i, j \in DOMAIN _connections'[n] :
            _connections'[n][i].remote_address = _connections'[n][j].remote_address
              => i = j
      BY DEF VectorOK
    <2>3. \A n \in Node : \A i \in DOMAIN _connections'[n] :
            _connections'[n][i].remote_uuid[1] = _connections'[n][i].remote_address
      BY DEF VectorOK
    <2>4. ASSUME NEW n \in Node, NEW i \in DOMAIN _connections'[n],
                 NEW j \in DOMAIN _connections'[n], i # j
          PROVE  /\ _connections'[n][i].remote_address # _connections'[n][j].remote_address
                 /\ _connections'[n][i].remote_uuid # _connections'[n][j].remote_uuid
      <3>. DEFINE a == _connections'[n][i]
                  b == _connections'[n][j]
      <3>1. a.remote_address # b.remote_address
        BY <2>2, <2>4, Zenon
      <3>2. a.remote_uuid[1] = a.remote_address /\ b.remote_uuid[1] = b.remote_address
        BY <2>3, Zenon
      <3>. QED  BY <3>1, <3>2
    <2>. QED  BY <2>1, <2>4 DEF OneConnectionPerPeer
  <1>3. AdmittedByPassword'
    BY DEF IInv, AdmittedByPassword
  <1>4. ASSUME NEW pkt \in InTransit' PROVE PacketOK(pkt)'
    <2>1. pkt \in InTransit \/ PacketOK(pkt)'
      BY DEF InTransit
    <2>2. pkt \in InTransit => PacketOK(pkt)
      BY DEF IInv
    <2>. QED  BY <2>1, <2>2 DEF PacketOK
  <1>. QED  BY <1>1, <1>2, <1>3, <1>4 DEF IInv

\* Only the session of n changes.
LEMMA OneSession ==
  ASSUME IInv, NEW n \in Node, VectorOK(n)',
         \A r \in Node : r # n => _connections'[r] = _connections[r] /\ peers'[r] = peers[r]
  PROVE  /\ \A r \in Node : VectorOK(r)'
         /\ \A r, m \in Node : r # n /\ Connected(r, m)' => Connected(r, m)
  <1>1. ASSUME NEW r \in Node, r # n PROVE VectorOK(r)'
    <2>1. VectorOK(r) /\ _connections'[r] = _connections[r] /\ peers'[r] = peers[r]
      BY <1>1, OneOf
    <2>. QED  BY <2>1 DEF VectorOK
  <1>2. ASSUME NEW r \in Node, r # n, NEW m \in Node, Connected(r, m)' PROVE Connected(r, m)
    <2>1. _connections'[r] = _connections[r]
      BY <1>2
    <2>. QED  BY <1>2, <2>1 DEF Connected, At
  <1>. QED  BY <1>1, <1>2

\* No session changes its connections.
LEMMA NoSession ==
  ASSUME IInv, UNCHANGED <<_connections, peers>>,
         run' \in [Node -> 1 .. MaxRuns], up' \in [Node -> BOOLEAN],
         calls' \in [Node -> Nat],
         asked' \subseteq Node \X Node \X Passwords, asked \subseteq asked',
         net' \subseteq [packet : Packet, left : 0 .. Lifetime],
         \A entry \in net' : entry.packet \in InTransit \/ PacketOK(entry.packet)'
  PROVE  IInv'
  <1>1. \A n \in Node : VectorOK(n)'
    <2>1. \A n \in Node : VectorOK(n)
      BY OneOf
    <2>. QED  BY <2>1 DEF VectorOK
  <1>2. \A n, m \in Node : Connected(n, m)' => Connected(n, m)
    BY DEF Connected, At
  <1>3. /\ _connections' \in [Node -> Seq(Connection)]
        /\ peers' \in [Node -> [Uuid -> Nat]]
    BY DEF IInv, TypeOK
  <1>. QED  BY <1>1, <1>2, <1>3, Keeps

LEMMA CreateStep ==
  ASSUME IInv, NEW n \in Node, create(n)
  PROVE  IInv'
  <1>1. /\ run[n] < MaxRuns /\ run' = [run EXCEPT ![n] = @ + 1]
        /\ up' = [up EXCEPT ![n] = TRUE]
        /\ UNCHANGED <<_connections, peers>> /\ calls' = calls /\ asked' = asked
        /\ net' = net
    BY DEF create
  <1>2. /\ run \in [Node -> 1 .. MaxRuns] /\ up \in [Node -> BOOLEAN]
        /\ calls \in [Node -> Nat] /\ asked \subseteq Node \X Node \X Passwords
        /\ net \subseteq [packet : Packet, left : 0 .. Lifetime]
    BY DEF IInv, TypeOK
  <1>3. run' \in [Node -> 1 .. MaxRuns]
    <2>1. run[n] + 1 \in 1 .. MaxRuns
      BY <1>1, <1>2, SessionAssumption
    <2>. QED  BY <1>1, <1>2, <2>1
  <1>4. \A entry \in net' : entry.packet \in InTransit
    BY <1>1 DEF InTransit
  <1>. QED  BY <1>1, <1>2, <1>3, <1>4, NoSession

LEMMA DestroyStep ==
  ASSUME IInv, NEW n \in Node, destroy(n)
  PROVE  IInv'
  <1>1. /\ up' = [up EXCEPT ![n] = FALSE]
        /\ _connections' = [_connections EXCEPT ![n] = <<>>]
        /\ peers' = [peers EXCEPT ![n] = NoPeers]
        /\ run' = run /\ calls' = calls /\ asked' = asked /\ net' = net
    BY DEF destroy
  <1>2. TypeOK
    BY DEF IInv
  <1>3. /\ run' \in [Node -> 1 .. MaxRuns] /\ up' \in [Node -> BOOLEAN]
        /\ calls' \in [Node -> Nat] /\ asked' \subseteq Node \X Node \X Passwords
        /\ net' \subseteq [packet : Packet, left : 0 .. Lifetime]
        /\ _connections' \in [Node -> Seq(Connection)]
        /\ peers' \in [Node -> [Uuid -> Nat]]
    BY <1>1, <1>2 DEF TypeOK, NoPeers
  <1>4. DOMAIN _connections'[n] = {} /\ peers'[n] = NoPeers
    BY <1>1, <1>2 DEF TypeOK
  <1>5. VectorOK(n)' /\ \A m \in Node : ~ Connected(n, m)'
    BY <1>4 DEF VectorOK, NoPeers, Connected, At
  <1>6. \A r \in Node : r # n => _connections'[r] = _connections[r] /\ peers'[r] = peers[r]
    BY <1>1, <1>2 DEF TypeOK
  <1>7. /\ \A r \in Node : VectorOK(r)'
        /\ \A r, m \in Node : Connected(r, m)' => Connected(r, m)
    BY <1>5, <1>6, OneSession
  <1>8. \A entry \in net' : entry.packet \in InTransit
    BY <1>1 DEF InTransit
  <1>. QED  BY <1>1, <1>3, <1>7, <1>8, Keeps

LEMMA TryConnectStep ==
  ASSUME IInv, NEW n \in Node, NEW m \in Node, NEW password \in Passwords,
         try_connect(n, m, password)
  PROVE  IInv'
  <1>0. PICK request : request = Request(n, m, password)
    OBVIOUS
  <1>1. /\ calls' = [calls EXCEPT ![n] = @ + 1]
        /\ asked' = asked \cup {<<n, m, password>>}
        /\ net' = Sent({request})
        /\ run' = run /\ up' = up /\ UNCHANGED <<_connections, peers>>
    BY <1>0 DEF try_connect
  <1>2. /\ run' \in [Node -> 1 .. MaxRuns] /\ up' \in [Node -> BOOLEAN]
        /\ calls' \in [Node -> Nat]
        /\ asked' \subseteq Node \X Node \X Passwords /\ asked \subseteq asked'
    <2>1. /\ run \in [Node -> 1 .. MaxRuns] /\ up \in [Node -> BOOLEAN]
          /\ calls \in [Node -> Nat] /\ asked \subseteq Node \X Node \X Passwords
      BY DEF IInv, TypeOK
    <2>2. run' \in [Node -> 1 .. MaxRuns] /\ up' \in [Node -> BOOLEAN]
      BY <1>1, <2>1
    <2>3. calls' \in [Node -> Nat]
      BY <1>1, <2>1
    <2>4. <<n, m, password>> \in Node \X Node \X Passwords
      OBVIOUS
    <2>5. asked' \subseteq Node \X Node \X Passwords /\ asked \subseteq asked'
      BY <1>1, <2>1, <2>4
    <2>. QED  BY <2>2, <2>3, <2>5
  <1>3. request \in Packet
    BY <1>0, OneOf DEF Request, Packet
  <1>4. PacketOK(request)'
    BY <1>0, <1>1 DEF PacketOK, Request, CurrentUuid
  <1>5. /\ net' \subseteq [packet : Packet, left : 0 .. Lifetime]
        /\ \A entry \in net' : entry.packet \in InTransit \/ entry.packet = request
    BY <1>1, <1>3, SentPackets
  <1>. QED  BY <1>1, <1>2, <1>4, <1>5, NoSession

\* n erases its connections at some indices, tells its application and sends
\* packets that are true.
LEMMA EraseStep ==
  ASSUME IInv, NEW n \in Node, NEW indices \in SUBSET DOMAIN _connections[n], NEW w,
         w \in Seq(Connection),
         Remains(_connections[n], DOMAIN _connections[n] \ indices, w),
         _connections' = [_connections EXCEPT ![n] = w],
         peers' = [peers EXCEPT ![n] = Left(n, indices)],
         UNCHANGED <<run, up, calls, asked>>,
         net' \subseteq [packet : Packet, left : 0 .. Lifetime],
         \A entry \in net' : entry.packet \in InTransit \/ PacketOK(entry.packet)'
  PROVE  IInv'
  <1>1. TypeOK /\ VectorOK(n) /\ peers[n] \in [Uuid -> Nat]
    BY OneOf DEF IInv
  <1>2. /\ _connections'[n] = w /\ peers'[n] = Left(n, indices)
        /\ \A r \in Node : r # n => _connections'[r] = _connections[r] /\ peers'[r] = peers[r]
    BY <1>1 DEF TypeOK
  <1>3. /\ VectorOK(n)' /\ peers'[n] \in [Uuid -> Nat]
        /\ \A m \in Node : Connected(n, m)' => Connected(n, m)
    BY <1>1, <1>2, Erased
  <1>4. /\ \A r \in Node : VectorOK(r)'
        /\ \A r, m \in Node : Connected(r, m)' => Connected(r, m)
    BY <1>2, <1>3, OneSession
  <1>5. /\ run' \in [Node -> 1 .. MaxRuns] /\ up' \in [Node -> BOOLEAN]
        /\ calls' \in [Node -> Nat] /\ asked' \subseteq Node \X Node \X Passwords
        /\ asked \subseteq asked'
        /\ _connections' \in [Node -> Seq(Connection)]
        /\ peers' \in [Node -> [Uuid -> Nat]]
    BY <1>1, <1>2, <1>3 DEF TypeOK
  <1>. QED  BY <1>4, <1>5, Keeps

LEMMA DisconnectStep ==
  ASSUME IInv, NEW n \in Node, NEW id \in Uuid, disconnect(n, id)
  PROVE  IInv'
  <1>0. PICK i, bye : /\ i = First(With(n, id))
                      /\ bye = Plain("disconnecting", n, _connections[n][i].remote_address)
    OBVIOUS
  <1>1. /\ With(n, id) # {} /\ net' = Sent({bye})
        /\ _connections' = [_connections EXCEPT ![n] = Without(n, {i})]
        /\ peers' = [peers EXCEPT ![n][id] = @ - 1]
        /\ UNCHANGED <<run, up, calls, asked>>
    BY <1>0 DEF disconnect
  <1>2. /\ i \in DOMAIN _connections[n] /\ _connections[n][i].remote_uuid = id
        /\ _connections[n][i] \in Connection
    <2>1. i \in DOMAIN _connections[n] /\ i \in With(n, id)
      BY <1>0, <1>1, Found
    <2>. QED  BY <2>1, OneOf DEF With
  <1>3. bye \in Packet /\ PacketOK(bye)'
    BY <1>0, <1>2 DEF Plain, Packet, PacketOK, Connection
  <1>4. peers' = [peers EXCEPT ![n] = Left(n, {i})]
    <2>1. Left(n, {i}) = [peers[n] EXCEPT ![id] = @ - 1]
      BY <1>2, OneOf, LeftOne
    <2>. QED  BY <1>1, <2>1
  <1>5. /\ net' \subseteq [packet : Packet, left : 0 .. Lifetime]
        /\ \A entry \in net' : entry.packet \in InTransit \/ entry.packet = bye
    BY <1>1, <1>3, SentPackets
  <1>6. /\ Without(n, {i}) \in Seq(Connection)
        /\ Remains(_connections[n], DOMAIN _connections[n] \ {i}, Without(n, {i}))
    BY OneOf, WithoutRemains
  <1>7. {i} \in SUBSET DOMAIN _connections[n]
    BY <1>2
  <1>8. \A entry \in net' : entry.packet \in InTransit \/ PacketOK(entry.packet)'
    BY <1>3, <1>5
  <1>. QED  BY <1>1, <1>4, <1>5, <1>6, <1>7, <1>8, EraseStep

LEMMA DisconnectingStep ==
  ASSUME IInv, NEW n \in Node, NEW pkt \in InTransit, receive_disconnecting(n, pkt)
  PROVE  IInv'
  <1>. DEFINE i == First(At(n, pkt.from))
  <1>1. /\ Connected(n, pkt.from)
        /\ _connections' = [_connections EXCEPT ![n] = Without(n, {i})]
        /\ peers' = [peers EXCEPT ![n] = Left(n, {i})]
        /\ UNCHANGED <<run, up, calls, asked>> /\ net' = net
    BY DEF receive_disconnecting, FromConnection
  <1>2. pkt.from \in Node
    BY DEF IInv, TypeOK, InTransit, Packet
  <1>3. i \in DOMAIN _connections[n]
    BY <1>1, <1>2, Found
  <1>. HIDE DEF i
  <1>4. /\ net' \subseteq [packet : Packet, left : 0 .. Lifetime]
        /\ \A entry \in net' : entry.packet \in InTransit
    BY <1>1 DEF IInv, TypeOK, InTransit
  <1>5. /\ Without(n, {i}) \in Seq(Connection)
        /\ Remains(_connections[n], DOMAIN _connections[n] \ {i}, Without(n, {i}))
    BY OneOf, WithoutRemains
  <1>. QED  BY <1>1, <1>3, <1>4, <1>5, EraseStep

LEMMA PingStep ==
  ASSUME IInv, NEW n \in Node, NEW pkt \in InTransit, receive_ping(n, pkt)
  PROVE  IInv'
  <1>0. PICK pong : pong = Plain("ping_response", n, pkt.from)
    OBVIOUS
  <1>1. net' = Sent({pong}) /\ UNCHANGED <<run, up, _connections, peers, calls, asked>>
    BY <1>0 DEF receive_ping
  <1>2. pkt.from \in Node
    BY DEF IInv, TypeOK, InTransit, Packet
  <1>3. pong \in Packet /\ PacketOK(pong)'
    BY <1>0, <1>2 DEF Plain, Packet, PacketOK
  <1>4. /\ net' \subseteq [packet : Packet, left : 0 .. Lifetime]
        /\ \A entry \in net' : entry.packet \in InTransit \/ entry.packet = pong
    BY <1>1, <1>3, SentPackets
  <1>5. /\ run' \in [Node -> 1 .. MaxRuns] /\ up' \in [Node -> BOOLEAN]
        /\ calls' \in [Node -> Nat]
        /\ asked' \subseteq Node \X Node \X Passwords /\ asked \subseteq asked'
    BY <1>1 DEF IInv, TypeOK
  <1>. QED  BY <1>1, <1>3, <1>4, <1>5, NoSession

\* The connection stays, with its timer set back.
LEMMA PongStep ==
  ASSUME IInv, NEW n \in Node, NEW pkt \in InTransit, receive_ping_response(n, pkt)
  PROVE  IInv'
  <1>. DEFINE i == First(At(n, pkt.from))
              v == _connections[n]
              w == [v EXCEPT ![i].silence = 0]
  <1>1. /\ Connected(n, pkt.from)
        /\ _connections' = [_connections EXCEPT ![n][i].silence = 0]
        /\ UNCHANGED <<run, up, peers, calls, asked>> /\ net' = net
    BY DEF receive_ping_response, FromConnection
  <1>2. TypeOK /\ v \in Seq(Connection) /\ peers[n] \in [Uuid -> Nat]
    BY OneOf DEF IInv
  <1>3. _connections' = [_connections EXCEPT ![n] = w]
    BY <1>1, <1>2 DEF TypeOK
  <1>4. peers' = [peers EXCEPT ![n] = Left(n, {})]
    <2>1. Left(n, {}) = peers[n]
      BY <1>2, LeftNone
    <2>. QED  BY <1>1, <1>2, <2>1 DEF TypeOK
  <1>5. /\ net' \subseteq [packet : Packet, left : 0 .. Lifetime]
        /\ \A entry \in net' : entry.packet \in InTransit
    BY <1>1, <1>2 DEF TypeOK, InTransit
  <1>6. \A j \in DOMAIN v : v[j] \in Connection
    BY OneOf
  <1>. HIDE DEF i, v
  <1>7. \A j \in DOMAIN v : /\ w[j] \in Connection
                            /\ w[j].remote_address = v[j].remote_address
                            /\ w[j].remote_uuid = v[j].remote_uuid
    <2>1. 0 \in 0 .. Timeout + 1
      BY SessionAssumption
    <2>2. ASSUME NEW c \in Connection
          PROVE  /\ [c EXCEPT !.silence = 0] \in Connection
                 /\ [c EXCEPT !.silence = 0].remote_address = c.remote_address
                 /\ [c EXCEPT !.silence = 0].remote_uuid = c.remote_uuid
      BY <2>1 DEF Connection
    <2>3. \A j \in DOMAIN v : w[j] = IF j = i THEN [v[j] EXCEPT !.silence = 0] ELSE v[j]
      OBVIOUS
    <2>. QED  BY <1>6, <2>2, <2>3
  <1>8. DOMAIN w = DOMAIN v /\ w \in Seq(Connection)
    <2>1. Len(v) \in Nat /\ DOMAIN v = 1 .. Len(v) /\ DOMAIN w = DOMAIN v
      BY <1>2
    <2>2. w \in [1 .. Len(v) -> Connection]
      BY <1>7, <2>1
    <2>. HIDE DEF w
    <2>. QED  BY <2>1, <2>2
  <1>. HIDE DEF w
  <1>9. Remains(v, DOMAIN v \ {}, w)
    BY <1>7, <1>8, Aged
  <1>. QED  BY <1>1, <1>3, <1>4, <1>5, <1>8, <1>9, EraseStep DEF v

\* n adds a connection with an address that had none, because of a try_connect
\* with the password of one of the two.
LEMMA JoinStep ==
  ASSUME IInv, NEW n \in Node, NEW addr \in Node, NEW id \in Uuid, id[1] = addr,
         ~ Connected(n, addr), Join(n, addr, id),
         \/ <<n, addr, Password[addr]>> \in asked
         \/ <<addr, n, Password[n]>> \in asked,
         UNCHANGED <<run, up, calls, asked>>,
         net' \subseteq [packet : Packet, left : 0 .. Lifetime],
         \A entry \in net' : entry.packet \in InTransit \/ PacketOK(entry.packet)'
  PROVE  IInv'
  <1>1. /\ _connections' = [_connections EXCEPT ![n] = Append(@, NewConnection(addr, id))]
        /\ peers' = [peers EXCEPT ![n][id] = @ + 1]
    BY DEF Join
  <1>2. /\ TypeOK /\ VectorOK(n) /\ peers[n] \in [Uuid -> Nat]
        /\ _connections[n] \in Seq(Connection)
    BY OneOf DEF IInv
  <1>3. /\ _connections'[n] = Append(_connections[n], NewConnection(addr, id))
        /\ peers'[n] = [peers[n] EXCEPT ![id] = @ + 1]
        /\ \A r \in Node : r # n => _connections'[r] = _connections[r] /\ peers'[r] = peers[r]
    BY <1>1, <1>2 DEF TypeOK
  <1>4. /\ VectorOK(n)' /\ peers'[n] \in [Uuid -> Nat]
        /\ _connections'[n] \in Seq(Connection)
        /\ \A m \in Node : Connected(n, m)' => m = addr \/ Connected(n, m)
    BY <1>2, <1>3, Joined
  <1>5. /\ \A r \in Node : VectorOK(r)'
        /\ \A r, m \in Node : r # n /\ Connected(r, m)' => Connected(r, m)
    BY <1>3, <1>4, OneSession
  <1>6. /\ run' \in [Node -> 1 .. MaxRuns] /\ up' \in [Node -> BOOLEAN]
        /\ calls' \in [Node -> Nat] /\ asked' \subseteq Node \X Node \X Passwords
        /\ asked \subseteq asked' /\ asked' = asked
    BY <1>2 DEF TypeOK
  <1>7. /\ _connections' \in [Node -> Seq(Connection)]
        /\ peers' \in [Node -> [Uuid -> Nat]]
    BY <1>1, <1>2, <1>4 DEF TypeOK
  <1>8. \A r, m \in Node : Connected(r, m)' =>
          \/ Connected(r, m)
          \/ <<r, m, Password[m]>> \in asked'
          \/ <<m, r, Password[r]>> \in asked'
    BY <1>4, <1>5, <1>6
  <1>. QED  BY <1>5, <1>6, <1>7, <1>8, Keeps

\* What is known of a packet that opens a connection.
LEMMA Opening ==
  ASSUME IInv, NEW n \in Node, NEW pkt \in InTransit, pkt.to = n
  PROVE  /\ pkt.from \in Node
         /\ pkt.kind = "connection_request" =>
              /\ pkt.uuid \in Uuid /\ pkt.uuid[1] = pkt.from
              /\ <<pkt.from, n, pkt.password>> \in asked
         /\ pkt.kind = "connection_accepted" =>
              /\ pkt.uuid \in Uuid /\ pkt.uuid[1] = pkt.from
              /\ <<n, pkt.from, Password[pkt.from]>> \in asked
  <1>1. pkt \in Packet
    BY DEF IInv, TypeOK, InTransit
  <1>2. PacketOK(pkt)
    BY DEF IInv
  <1>. QED  BY <1>1, <1>2 DEF Packet, PacketOK

LEMMA RequestStep ==
  ASSUME IInv, NEW n \in Node, NEW pkt \in InTransit, receive_connection_request(n, pkt)
  PROVE  IInv'
  <1>1. /\ pkt.kind = "connection_request" /\ pkt.to = n /\ ~ Connected(n, pkt.from)
        /\ UNCHANGED <<run, up, calls, asked>>
    BY DEF receive_connection_request, Unconnected
  <1>2. /\ pkt.from \in Node /\ pkt.uuid \in Uuid /\ pkt.uuid[1] = pkt.from
        /\ <<pkt.from, n, pkt.password>> \in asked
    BY <1>1, Opening
  <1>3. CASE Admits(n, pkt)
    <2>1. PICK answer : answer = Accepted(n, pkt.from)
      OBVIOUS
    <2>2. net' = Sent({answer}) /\ Join(n, pkt.from, pkt.uuid)
      BY <1>3, <2>1 DEF receive_connection_request
    <2>3. <<pkt.from, n, Password[n]>> \in asked
      BY <1>2, <1>3 DEF Admits
    <2>4. answer \in Packet
      BY <1>2, <2>1, OneOf DEF Accepted, Packet
    <2>5. PacketOK(answer)'
      BY <1>1, <2>1, <2>3 DEF PacketOK, Accepted, CurrentUuid
    <2>6. /\ net' \subseteq [packet : Packet, left : 0 .. Lifetime]
          /\ \A entry \in net' : entry.packet \in InTransit \/ entry.packet = answer
      BY <2>2, <2>4, SentPackets
    <2>. QED  BY <1>1, <1>2, <2>2, <2>3, <2>5, <2>6, JoinStep
  <1>4. CASE ~ Admits(n, pkt)
    <2>1. PICK answer : answer = Plain("connection_rejected", n, pkt.from)
      OBVIOUS
    <2>2. net' = Sent({answer}) /\ UNCHANGED <<_connections, peers>>
      BY <1>4, <2>1 DEF receive_connection_request
    <2>3. answer \in Packet /\ PacketOK(answer)'
      BY <1>2, <2>1 DEF Plain, Packet, PacketOK
    <2>4. /\ net' \subseteq [packet : Packet, left : 0 .. Lifetime]
          /\ \A entry \in net' : entry.packet \in InTransit \/ entry.packet = answer
      BY <2>2, <2>3, SentPackets
    <2>5. /\ run' \in [Node -> 1 .. MaxRuns] /\ up' \in [Node -> BOOLEAN]
          /\ calls' \in [Node -> Nat]
          /\ asked' \subseteq Node \X Node \X Passwords /\ asked \subseteq asked'
      BY <1>1 DEF IInv, TypeOK
    <2>. QED  BY <2>2, <2>3, <2>4, <2>5, NoSession
  <1>. QED  BY <1>3, <1>4

LEMMA AcceptedStep ==
  ASSUME IInv, NEW n \in Node, NEW pkt \in InTransit, receive_connection_accepted(n, pkt)
  PROVE  IInv'
  <1>1. /\ pkt.kind = "connection_accepted" /\ pkt.to = n /\ ~ Connected(n, pkt.from)
        /\ Join(n, pkt.from, pkt.uuid)
        /\ UNCHANGED <<run, up, calls, asked>> /\ net' = net
    BY DEF receive_connection_accepted, Unconnected
  <1>2. /\ pkt.from \in Node /\ pkt.uuid \in Uuid /\ pkt.uuid[1] = pkt.from
        /\ <<n, pkt.from, Password[pkt.from]>> \in asked
    BY <1>1, Opening
  <1>3. /\ net' \subseteq [packet : Packet, left : 0 .. Lifetime]
        /\ \A entry \in net' : entry.packet \in InTransit
    BY <1>1 DEF IInv, TypeOK, InTransit
  <1>. QED  BY <1>1, <1>2, <1>3, JoinStep

\* What is left is the same when times change.
LEMMA RemainsAged ==
  ASSUME NEW v, NEW kept, NEW u, Remains(v, kept, u), NEW w, DOMAIN w = DOMAIN u,
         \A k \in DOMAIN u : /\ w[k].remote_address = u[k].remote_address
                             /\ w[k].remote_uuid = u[k].remote_uuid
  PROVE  Remains(v, kept, w)
  BY DEF Remains

\* Connections that timed out are erased, the others ping their peers.
LEMMA UpdateStep ==
  ASSUME IInv, NEW n \in Node, update_connections(n)
  PROVE  IInv'
  <1>0. PICK u, w, pings :
          /\ u = Without(n, TimedOut(n))
          /\ w = [k \in DOMAIN u |-> [u[k] EXCEPT !.pinged = TRUE]]
          /\ pings = {Plain("ping", n, _connections[n][i].remote_address) : i \in PingDue(n)}
    OBVIOUS
  <1>1. /\ net' = Sent(pings)
        /\ _connections' = [_connections EXCEPT ![n] = w]
        /\ peers' = [peers EXCEPT ![n] = Left(n, TimedOut(n))]
        /\ UNCHANGED <<run, up, calls, asked>>
    BY <1>0 DEF update_connections
  <1>2. TimedOut(n) \in SUBSET DOMAIN _connections[n]
    BY DEF TimedOut
  <1>3. /\ u \in Seq(Connection)
        /\ Remains(_connections[n], DOMAIN _connections[n] \ TimedOut(n), u)
    BY <1>0, OneOf, WithoutRemains
  <1>4. ASSUME NEW c \in Connection
        PROVE  /\ [c EXCEPT !.pinged = TRUE] \in Connection
               /\ [c EXCEPT !.pinged = TRUE].remote_address = c.remote_address
               /\ [c EXCEPT !.pinged = TRUE].remote_uuid = c.remote_uuid
    BY DEF Connection
  <1>5. /\ DOMAIN w = DOMAIN u
        /\ \A k \in DOMAIN u : /\ w[k] \in Connection
                               /\ w[k].remote_address = u[k].remote_address
                               /\ w[k].remote_uuid = u[k].remote_uuid
    <2>1. \A k \in DOMAIN u : u[k] \in Connection
      BY <1>3
    <2>. QED  BY <1>0, <1>4, <2>1
  <1>6. w \in Seq(Connection)
    <2>1. Len(u) \in Nat /\ DOMAIN u = 1 .. Len(u)
      BY <1>3
    <2>2. w \in [1 .. Len(u) -> Connection]
      BY <1>0, <1>5, <2>1
    <2>. QED  BY <2>1, <2>2
  <1>7. Remains(_connections[n], DOMAIN _connections[n] \ TimedOut(n), w)
    BY <1>3, <1>5, RemainsAged
  <1>8. ASSUME NEW pkt \in pings PROVE pkt \in Packet /\ PacketOK(pkt)'
    <2>1. PICK i \in DOMAIN _connections[n] :
            pkt = Plain("ping", n, _connections[n][i].remote_address)
      BY <1>0 DEF PingDue
    <2>2. _connections[n][i].remote_address \in Node
      BY OneOf DEF Connection
    <2>. QED  BY <2>1, <2>2 DEF Plain, Packet, PacketOK
  <1>9. /\ net' \subseteq [packet : Packet, left : 0 .. Lifetime]
        /\ \A entry \in net' : entry.packet \in InTransit \/ entry.packet \in pings
    <2>1. pings \in SUBSET Packet
      BY <1>8
    <2>. QED  BY <1>1, <2>1, SentPackets
  <1>10. \A entry \in net' : entry.packet \in InTransit \/ PacketOK(entry.packet)'
    BY <1>8, <1>9
  <1>. QED  BY <1>1, <1>2, <1>6, <1>7, <1>9, <1>10, EraseStep

\* Time passes for every connection and every packet.
LEMMA TickStep ==
  ASSUME IInv, Tick
  PROVE  IInv'
  <1>. DEFINE aged(c) == [c EXCEPT !.silence = IF @ > Timeout THEN @ ELSE @ + 1,
                                   !.pinged = FALSE]
  <1>1. /\ _connections' =
             [n \in Node |-> [i \in DOMAIN _connections[n] |-> aged(_connections[n][i])]]
        /\ net' = {[packet |-> entry.packet, left |-> entry.left - 1] :
                     entry \in {e \in net : e.left > 0}}
        /\ UNCHANGED <<run, up, peers, calls, asked>>
    BY DEF Tick
  <1>2. ASSUME NEW c \in Connection
        PROVE  /\ aged(c) \in Connection /\ aged(c).remote_address = c.remote_address
               /\ aged(c).remote_uuid = c.remote_uuid
    <2>1. PICK s : s = IF c.silence > Timeout THEN c.silence ELSE c.silence + 1
      OBVIOUS
    <2>2. c.silence \in 0 .. Timeout + 1 /\ Timeout \in Nat
      BY SessionAssumption DEF Connection
    <2>3. s \in 0 .. Timeout + 1
      BY <2>1, <2>2
    <2>4. aged(c) = [c EXCEPT !.silence = s, !.pinged = FALSE]
      BY <2>1 DEF Connection
    <2>. HIDE DEF aged
    <2>. QED  BY <2>3, <2>4 DEF Connection
  <1>. HIDE DEF aged
  <1>3. ASSUME NEW n \in Node
        PROVE  /\ VectorOK(n)' /\ _connections'[n] \in Seq(Connection)
               /\ \A m \in Node : Connected(n, m)' => Connected(n, m)
    <2>. DEFINE v == _connections[n]
                w == [i \in DOMAIN v |-> aged(v[i])]
    <2>1. /\ VectorOK(n) /\ peers[n] \in [Uuid -> Nat] /\ v \in Seq(Connection)
          /\ \A i \in DOMAIN v : v[i] \in Connection
      BY OneOf
    <2>2. _connections'[n] = w
      BY <1>1
    <2>3. /\ DOMAIN w = DOMAIN v
          /\ \A i \in DOMAIN v : /\ w[i] \in Connection
                                 /\ w[i].remote_address = v[i].remote_address
                                 /\ w[i].remote_uuid = v[i].remote_uuid
      BY <1>2, <2>1
    <2>4. w \in Seq(Connection)
      <3>1. Len(v) \in Nat /\ DOMAIN v = 1 .. Len(v)
        BY <2>1
      <3>2. w \in [1 .. Len(v) -> Connection]
        BY <2>3, <3>1
      <3>. HIDE DEF w
      <3>. QED  BY <3>1, <3>2
    <2>. HIDE DEF w
    <2>5. Remains(v, DOMAIN v \ {}, w)
      BY <2>3, Aged
    <2>6. peers'[n] = Left(n, {})
      BY <1>1, <2>1, LeftNone
    <2>. QED  BY <2>1, <2>2, <2>4, <2>5, <2>6, Erased
  <1>4. /\ run' \in [Node -> 1 .. MaxRuns] /\ up' \in [Node -> BOOLEAN]
        /\ calls' \in [Node -> Nat] /\ peers' \in [Node -> [Uuid -> Nat]]
        /\ asked' \subseteq Node \X Node \X Passwords /\ asked \subseteq asked'
        /\ _connections' \in [Node -> Seq(Connection)]
    BY <1>1, <1>3 DEF IInv, TypeOK
  <1>5. /\ net' \subseteq [packet : Packet, left : 0 .. Lifetime]
        /\ \A entry \in net' : entry.packet \in InTransit
    <2>1. net \subseteq [packet : Packet, left : 0 .. Lifetime] /\ Lifetime \in Nat
      BY SessionAssumption DEF IInv, TypeOK
    <2>2. ASSUME NEW entry \in net'
          PROVE  entry \in [packet : Packet, left : 0 .. Lifetime] /\ entry.packet \in InTransit
      <3>1. PICK e \in net : e.left > 0 /\ entry = [packet |-> e.packet, left |-> e.left - 1]
        BY <1>1
      <3>2. e.packet \in Packet /\ e.left \in 0 .. Lifetime
        BY <2>1
      <3>3. e.left - 1 \in 0 .. Lifetime
        BY <2>1, <3>1, <3>2
      <3>. QED  BY <3>1, <3>2, <3>3 DEF InTransit
    <2>. QED  BY <2>2
  <1>. QED  BY <1>3, <1>4, <1>5, Keeps

LEMMA StepInv ==
  ASSUME IInv, [Next]_vars
  PROVE  IInv'
  <1>1. ASSUME NEW n \in Node, Application(n) PROVE IInv'
    BY <1>1, CreateStep, DestroyStep, TryConnectStep, DisconnectStep DEF Application
  <1>2. ASSUME NEW n \in Node, receive_packets(n) PROVE IInv'
    <2>1. PICK pkt \in InTransit :
            \/ receive_connection_request(n, pkt)
            \/ receive_connection_accepted(n, pkt)
            \/ receive_disconnecting(n, pkt)
            \/ receive_ping(n, pkt)
            \/ receive_ping_response(n, pkt)
      BY <1>2 DEF receive_packets
    <2>. QED  BY <2>1, RequestStep, AcceptedStep, DisconnectingStep, PingStep, PongStep
  <1>3. ASSUME NEW n \in Node, update_connections(n) PROVE IInv'
    BY <1>3, UpdateStep
  <1>4. CASE Tick
    BY <1>4, TickStep
  <1>5. CASE UNCHANGED vars
    <2>1. UNCHANGED <<run, up, _connections, peers, calls, asked, net>>
      BY <1>5 DEF vars
    <2>2. /\ run' \in [Node -> 1 .. MaxRuns] /\ up' \in [Node -> BOOLEAN]
          /\ calls' \in [Node -> Nat]
          /\ asked' \subseteq Node \X Node \X Passwords /\ asked \subseteq asked'
          /\ net' \subseteq [packet : Packet, left : 0 .. Lifetime]
          /\ \A entry \in net' : entry.packet \in InTransit
      BY <2>1 DEF IInv, TypeOK, InTransit
    <2>. QED  BY <2>1, <2>2, NoSession
  <1>. QED  BY <1>1, <1>2, <1>3, <1>4, <1>5 DEF Next

\* The inductive invariant holds of every behaviour.
THEOREM Invariance == Spec => []IInv
  <1>1. Init => IInv
    BY InitInv
  <1>2. IInv /\ [Next]_vars => IInv'
    BY StepInv
  <1>. QED  BY <1>1, <1>2, PTL DEF Spec

\* Every variable holds values of its kind; in particular an application is
\* never told that a peer left more often than that it joined.
THEOREM TypeCorrect == Spec => []TypeOK
  BY Invariance, PTL DEF IInv

\* No handshake, repeated, crossing or late, gives a session a second
\* connection with an address or a uuid, so that find_connection and
\* disconnect act on the connection meant (network_session::receive_packets).
THEOREM OneConnectionEach == Spec => []OneConnectionPerPeer
  BY Invariance, PTL DEF IInv

\* The callbacks on_peer_joined and on_peer_disconnected tell an application
\* exactly the connections its session has, whichever way they end
\* (network_session::update_connections, receive_packets, disconnect).
THEOREM CallbacksTellConnections == Spec => []PeersAreConnected
  BY Invariance, PTL DEF IInv

\* A connection goes back to a try_connect with the password of the session
\* that admits (network_session::handle_unconnected_packet).
THEOREM NobodyWithoutPassword == Spec => []AdmittedByPassword
  BY Invariance, PTL DEF IInv
=============================================================================

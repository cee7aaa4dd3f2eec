-------------------------- MODULE ApplicationsProofs --------------------------
(***************************************************************************)
(* The applications.  First the stress test, for any number of clients and *)
(* servers, bursts of any length and any number of attempts.               *)
(*                                                                         *)
(* BurstIsWhole rests on the lock: while a client is in its burst nothing  *)
(* writes its remote and its session keeps the connection, so that what it *)
(* has sent so far is all with the same server (BurstSoFar).               *)
(* NothingCountedTwice rests on a connection taking no message twice: what *)
(* a server has counted is never more than what its connections have taken *)
(* while each of them is the first with its client (Counted).              *)
(*                                                                         *)
(* Then both pairs of programs as Applications puts them together; what    *)
(* ChatProofs says of Chat is carried over to its instance Talk (Same).    *)
(***************************************************************************)
EXTENDS Applications, FiniteSetTheorems, TLAPS

\* The messages of a client that its session has accepted.
Burst(c) == {m \in accepted : m[1][1] = c}

\* What they must be while the client is in its burst.
Expected(c) ==
  IF remote[c] = Nil THEN {} ELSE {<<c, remote[c]>>} \X (0 .. next[c] - 1)

BurstSoFar ==
  \A c \in Client :
    /\ main[c] \in {"ask", "try"} => next[c] = 0 /\ Burst(c) = {}
    /\ main[c] = "burst" => next[c] < Numbers /\ Burst(c) = Expected(c)

\* The user has entered an address before the client tries one.
Asking == \A c \in Client : main[c] = "try" => host[c] \in Server

\* The messages for a server.
At(messages, s) == {m \in messages : m[1][2] = s}

Counted ==
  /\ IsFiniteSet(accepted)
  /\ \A p \in Pair : joins[p] = 0 => p \notin served /\ \A m \in taken : m[1] # p
  /\ \A s \in Server : (\A c \in Client : joins[<<c, s>>] <= 1) =>
       Numbers * resets[s] + Cardinality(received[s]) <= Cardinality(At(taken, s))

IInv == TypeOK /\ Asking /\ RemoteIsConnected /\ BurstSoFar /\ BurstIsWhole

-----------------------------------------------------------------------------
(***************************************************************************)
(* Types.                                                                  *)
(***************************************************************************)
LEMMA InitTypeOK == Init => TypeOK
  BY StressAssumption DEF Init, TypeOK, Place, Pair, Number

LEMMA NextTypeOK == IInv /\ [Next]_vars => TypeOK'
  <1>. SUFFICES ASSUME IInv, [Next]_vars
                PROVE  TypeOK'
    OBVIOUS
  <1>0. TypeOK /\ Asking /\ BurstSoFar
    BY DEF IInv
  <1>. USE <1>0, StressAssumption DEF TypeOK, Place, sessions, serverThread, mainThread
  <1>1. ASSUME NEW c \in Client, enter_address(c)
        PROVE  TypeOK'
    BY <1>1 DEF enter_address, Go
  <1>2. ASSUME NEW c \in Client, try_connect(c)
        PROVE  TypeOK'
    <2>1. host[c] \in Server
      BY <1>2 DEF Asking, try_connect
    <2>2. CASE attempts[c] > 0 /\ remote[c] = Nil
      BY <1>2, <2>1, <2>2 DEF try_connect, Pair
    <2>3. CASE ~(attempts[c] > 0 /\ remote[c] = Nil)
      BY <1>2, <2>3 DEF try_connect, Go
    <2>. QED  BY <2>2, <2>3
  <1>3. ASSUME NEW c \in Client, send_reliable(c)
        PROVE  TypeOK'
    <2>. DEFINE m == <<<<c, remote[c]>>, next[c]>>
    <2>1. next[c] \in 0 .. Numbers - 1
      BY <1>3 DEF BurstSoFar, send_reliable
    <2>2. main' \in [Client -> Place] /\ next' \in [Client -> 0 .. Numbers]
      BY <1>3, <2>1 DEF send_reliable, Go
    <2>3. m[1] \in linked => m \in Pair \X Number
      BY <2>1 DEF Number
    <2>4. accepted' \subseteq Pair \X Number /\ taken' \subseteq accepted'
      BY <1>3, <2>3 DEF send_reliable
    <2>. QED  BY <1>3, <2>2, <2>4 DEF send_reliable
  <1>4. ASSUME NEW c \in Client, terminates(c)
        PROVE  TypeOK'
    BY <1>4 DEF terminates, Go
  <1>5. ASSUME NEW c \in Client, NEW s \in Server, on_peer_joined(c, s)
        PROVE  TypeOK'
    BY <1>5 DEF on_peer_joined, Pair
  <1>6. ASSUME NEW c \in Client, NEW s \in Server, on_peer_disconnected(c, s)
        PROVE  TypeOK'
    BY <1>6 DEF on_peer_disconnected, Cleared
  <1>7. ASSUME NEW c \in Client, NEW s \in Server, server_on_peer_joined(c, s)
        PROVE  TypeOK'
    <2>1. <<c, s>> \in Pair
      BY DEF Pair
    <2>2. \/ joins' = joins /\ taken' = taken
          \/ /\ joins' = [joins EXCEPT ![<<c, s>>] = joins[<<c, s>>] + 1]
             /\ taken' = {m \in taken : m[1] # <<c, s>>}
      BY <1>7 DEF server_on_peer_joined
    <2>3. joins' \in [Pair -> Nat]
      BY <2>1, <2>2
    <2>4. taken' \subseteq taken
      BY <2>2
    <2>. QED  BY <1>7, <2>1, <2>3, <2>4 DEF server_on_peer_joined
  <1>8. ASSUME NEW c \in Client, NEW s \in Server, server_on_peer_disconnected(c, s)
        PROVE  TypeOK'
    BY <1>8 DEF server_on_peer_disconnected
  <1>9. ASSUME NEW c \in Client, NEW s \in Server, NEW i \in Number,
               server_on_message_received(c, s, i)
        PROVE  TypeOK'
    BY <1>9 DEF server_on_message_received, AfterReset
  <1>10. CASE UNCHANGED vars
    BY <1>10 DEF vars
  <1>. QED
    BY <1>1, <1>2, <1>3, <1>4, <1>5, <1>6, <1>7, <1>8, <1>9, <1>10
    DEF Next, Main, Background, ServerLoop

-----------------------------------------------------------------------------
(***************************************************************************)
(* remote and the burst.                                                   *)
(***************************************************************************)
\* A step that leaves the main thread of every client in its part of the
\* program, and the remote of those in the burst, keeps what the burst needs.
LEMMA QuietSteps ==
  ASSUME IInv, UNCHANGED <<main, host, next, accepted>>,
         \A c \in Client : main[c] = "burst" => remote'[c] = remote[c]
  PROVE  Asking' /\ BurstSoFar' /\ BurstIsWhole'
  BY DEF IInv, Asking, BurstSoFar, BurstIsWhole, Burst, Expected

\* What was accepted from a client is what a burst makes it.
LEMMA SendGrowsBurst ==
  ASSUME IInv, NEW c \in Client, send_reliable(c)
  PROVE  /\ next'[c] = next[c] + 1
         /\ Burst(c)' = IF remote[c] = Nil THEN {} ELSE {<<c, remote[c]>>} \X (0 .. next[c])
         /\ \A d \in Client \ {c} : Burst(d)' = Burst(d)
  <1>. DEFINE p == <<c, remote[c]>>
              m == <<p, next[c]>>
  <1>1. /\ main[c] = "burst"
        /\ next' = [next EXCEPT ![c] = @ + 1]
        /\ accepted' = IF p \in linked THEN accepted \cup {m} ELSE accepted
    BY DEF send_reliable
  <1>2. /\ next \in [Client -> 0 .. Numbers] /\ Burst(c) = Expected(c)
        /\ linked \subseteq Pair
        /\ remote[c] # Nil => p \in linked
    BY <1>1 DEF IInv, TypeOK, BurstSoFar, RemoteIsConnected
  <1>3. next'[c] = next[c] + 1 /\ next[c] \in Nat
    BY <1>1, <1>2
  <1>4. remote[c] = Nil => p \notin linked
    BY <1>2, StressAssumption DEF Pair
  <1>5. CASE remote[c] = Nil
    <2>1. accepted' = accepted
      BY <1>1, <1>4, <1>5
    <2>. QED  BY <1>2, <1>3, <1>5, <2>1 DEF Burst, Expected
  <1>6. CASE remote[c] # Nil
    <2>1. accepted' = accepted \cup {m}
      BY <1>1, <1>2, <1>6
    <2>2. Burst(c)' = Burst(c) \cup {m}
      BY <2>1 DEF Burst
    <2>3. Burst(c) = {p} \X (0 .. next[c] - 1)
      BY <1>2, <1>6 DEF Expected
    <2>4. 0 .. next[c] = (0 .. next[c] - 1) \cup {next[c]}
      BY <1>3
    <2>5. {p} \X (0 .. next[c]) = ({p} \X (0 .. next[c] - 1)) \cup {m}
      BY <2>4
    <2>6. \A d \in Client \ {c} : Burst(d)' = Burst(d)
      BY <2>1 DEF Burst
    <2>. QED  BY <1>3, <1>6, <2>2, <2>3, <2>5, <2>6
  <1>. QED  BY <1>5, <1>6

LEMMA InitIInv == Init => IInv
  <1>. SUFFICES ASSUME Init PROVE IInv
    OBVIOUS
  <1>1. TypeOK
    BY InitTypeOK
  <1>2. Asking /\ RemoteIsConnected
    BY DEF Init, Asking, RemoteIsConnected
  <1>3. BurstSoFar /\ BurstIsWhole
    BY StressAssumption DEF Init, BurstSoFar, BurstIsWhole, Burst
  <1>. QED  BY <1>1, <1>2, <1>3 DEF IInv

LEMMA NextIInv == IInv /\ [Next]_vars => IInv'
  <1>. SUFFICES ASSUME IInv, [Next]_vars
                PROVE  IInv'
    OBVIOUS
  <1>0. /\ TypeOK /\ Asking /\ RemoteIsConnected /\ BurstSoFar /\ BurstIsWhole
        /\ TypeOK'
        /\ main \in [Client -> Place] /\ next \in [Client -> 0 .. Numbers]
        /\ remote \in [Client -> Server \cup {Nil}] /\ host \in [Client -> Server \cup {Nil}]
    BY NextTypeOK DEF IInv, TypeOK
  <1>. USE DEF sessions, serverThread, mainThread
  <1>1. ASSUME NEW c \in Client, enter_address(c)
        PROVE  IInv'
    <2>1. /\ UNCHANGED <<linked, remote, next, accepted>>
          /\ \A d \in Client \ {c} : main'[d] = main[d] /\ host'[d] = host[d]
          /\ main[c] = "ask"
          /\ \/ main'[c] = "try" /\ host'[c] \in Server
             \/ main'[c] = "burst"
      BY <1>0, <1>1 DEF enter_address, Go
    <2>2. next[c] = 0 /\ Burst(c) = {}
      BY <1>0, <2>1 DEF BurstSoFar
    <2>3. Expected(c) = {}
      BY <2>2 DEF Expected
    <2>4. Asking' /\ RemoteIsConnected'
      BY <1>0, <2>1 DEF Asking, RemoteIsConnected
    <2>5. \A d \in Client : Burst(d)' = Burst(d) /\ Expected(d)' = Expected(d)
      BY <2>1 DEF Burst, Expected
    <2>6. BurstSoFar'
      <3>. SUFFICES ASSUME NEW d \in Client
                    PROVE  /\ main'[d] \in {"ask", "try"} => next[d] = 0 /\ Burst(d) = {}
                           /\ main'[d] = "burst" => next[d] < Numbers /\ Burst(d) = Expected(d)
        BY <2>1, <2>5 DEF BurstSoFar
      <3>1. CASE d = c
        BY <2>2, <2>3, <3>1, StressAssumption
      <3>2. CASE d # c
        BY <1>0, <2>1, <3>2 DEF BurstSoFar
      <3>. QED  BY <3>1, <3>2
    <2>7. BurstIsWhole'
      BY <1>0, <2>1 DEF BurstIsWhole
    <2>. QED  BY <1>0, <2>4, <2>6, <2>7 DEF IInv
  <1>2. ASSUME NEW c \in Client, try_connect(c)
        PROVE  IInv'
    <2>1. /\ UNCHANGED <<linked, remote, host, next, accepted>>
          /\ \A d \in Client \ {c} : main'[d] = main[d]
          /\ main[c] = "try" /\ main'[c] \in {"try", "ask"}
      BY <1>0, <1>2 DEF try_connect, Go
    <2>2. Asking' /\ RemoteIsConnected'
      BY <1>0, <2>1 DEF Asking, RemoteIsConnected
    <2>3. \A d \in Client : Burst(d)' = Burst(d) /\ Expected(d)' = Expected(d)
      BY <2>1 DEF Burst, Expected
    <2>4. BurstSoFar'
      BY <1>0, <2>1, <2>3 DEF BurstSoFar
    <2>5. BurstIsWhole'
      BY <1>0, <2>1 DEF BurstIsWhole
    <2>. QED  BY <1>0, <2>2, <2>4, <2>5 DEF IInv
  <1>3. ASSUME NEW c \in Client, send_reliable(c)
        PROVE  IInv'
    <2>1. /\ UNCHANGED <<linked, remote, host>>
          /\ \A d \in Client \ {c} : main'[d] = main[d] /\ next'[d] = next[d]
          /\ main[c] = "burst"
          /\ IF next[c] + 1 = Numbers THEN main'[c] = "done" ELSE main'[c] = "burst"
      BY <1>0, <1>3 DEF send_reliable, Go
    <2>2. next[c] \in Nat /\ next[c] < Numbers /\ Numbers \in Nat
      BY <1>0, <2>1, StressAssumption DEF BurstSoFar
    <2>3. /\ next'[c] = next[c] + 1
          /\ Burst(c)' = IF remote[c] = Nil THEN {} ELSE {<<c, remote[c]>>} \X (0 .. next[c])
          /\ \A d \in Client \ {c} : Burst(d)' = Burst(d)
      BY <1>3, SendGrowsBurst
    <2>4. Asking' /\ RemoteIsConnected'
      BY <1>0, <2>1 DEF Asking, RemoteIsConnected
    <2>5. Burst(c)' = Expected(c)'
      <3>1. next'[c] - 1 = next[c] /\ remote' = remote
        BY <2>1, <2>2, <2>3
      <3>2. Expected(c)' = IF remote'[c] = Nil THEN {}
                                             ELSE {<<c, remote'[c]>>} \X (0 .. next'[c] - 1)
        BY DEF Expected
      <3>. QED  BY <2>3, <3>1, <3>2
    <2>6. \A d \in Client \ {c} : Expected(d)' = Expected(d)
      BY <2>1 DEF Expected
    <2>7. BurstSoFar'
      <3>1. next[c] + 1 # Numbers => next'[c] < Numbers
        BY <2>2, <2>3
      <3>. QED  BY <1>0, <2>1, <2>3, <2>5, <2>6, <3>1 DEF BurstSoFar
    <2>8. next'[c] = Numbers =>
            Burst(c)' = {} \/ \E s \in Server : Burst(c)' = {<<c, s>>} \X Number
      BY <1>0, <2>2, <2>3 DEF Number
    <2>9. BurstIsWhole'
      <3>. SUFFICES ASSUME NEW d \in Client, next'[d] = Numbers
                    PROVE  Burst(d)' = {} \/ \E s \in Server : Burst(d)' = {<<d, s>>} \X Number
        BY DEF BurstIsWhole, Burst
      <3>1. CASE d = c
        BY <2>8, <3>1
      <3>2. CASE d # c
        <4>1. next[d] = Numbers
          BY <2>1, <3>2
        <4>2. Burst(d) = {} \/ \E s \in Server : Burst(d) = {<<d, s>>} \X Number
          BY <1>0, <4>1 DEF BurstIsWhole, Burst
        <4>. QED  BY <2>3, <3>2, <4>2
      <3>. QED  BY <3>1, <3>2
    <2>. QED  BY <1>0, <2>4, <2>7, <2>9 DEF IInv
  <1>4. ASSUME NEW c \in Client, terminates(c)
        PROVE  IInv'
    <2>1. /\ UNCHANGED <<remote, host, next, accepted>>
          /\ \A d \in Client \ {c} : main'[d] = main[d]
          /\ main'[c] = "dead"
          /\ linked' = {p \in linked : p[1] # c}
      BY <1>0, <1>4 DEF terminates, Go
    <2>2. Asking' /\ RemoteIsConnected'
      BY <1>0, <2>1 DEF Asking, RemoteIsConnected
    <2>3. \A d \in Client : Burst(d)' = Burst(d) /\ Expected(d)' = Expected(d)
      BY <2>1 DEF Burst, Expected
    <2>4. BurstSoFar'
      BY <1>0, <2>1, <2>3 DEF BurstSoFar
    <2>5. BurstIsWhole'
      BY <1>0, <2>1 DEF BurstIsWhole
    <2>. QED  BY <1>0, <2>2, <2>4, <2>5 DEF IInv
  <1>5. ASSUME NEW c \in Client, NEW s \in Server, on_peer_joined(c, s)
        PROVE  IInv'
    <2>1. /\ UNCHANGED <<main, host, next, accepted>>
          /\ main[c] # "burst"
          /\ linked' = linked \cup {<<c, s>>}
          /\ \A d \in Client \ {c} : remote'[d] = remote[d]
          /\ remote'[c] = IF remote[c] = Nil THEN s ELSE remote[c]
      BY <1>0, <1>5 DEF on_peer_joined, MayUpdate
    <2>2. RemoteIsConnected'
      BY <1>0, <2>1 DEF RemoteIsConnected
    <2>3. Asking' /\ BurstSoFar' /\ BurstIsWhole'
      BY <2>1, QuietSteps
    <2>. QED  BY <1>0, <2>2, <2>3 DEF IInv
  <1>6. ASSUME NEW c \in Client, NEW s \in Server, on_peer_disconnected(c, s)
        PROVE  IInv'
    <2>1. /\ UNCHANGED <<main, host, next, accepted>>
          /\ main[c] # "burst"
          /\ linked' = linked \ {<<c, s>>}
          /\ \A d \in Client \ {c} : remote'[d] = remote[d]
          /\ remote'[c] = IF remote[c] = s THEN Nil ELSE remote[c]
      BY <1>0, <1>6 DEF on_peer_disconnected, Cleared, MayUpdate
    <2>2. RemoteIsConnected'
      BY <1>0, <2>1 DEF RemoteIsConnected
    <2>3. Asking' /\ BurstSoFar' /\ BurstIsWhole'
      BY <2>1, QuietSteps
    <2>. QED  BY <1>0, <2>2, <2>3 DEF IInv
  <1>7. CASE UNCHANGED <<linked, remote, main, host, next, accepted>>
    <2>1. Asking' /\ BurstSoFar' /\ BurstIsWhole'
      BY <1>7, QuietSteps
    <2>2. RemoteIsConnected'
      BY <1>0, <1>7 DEF RemoteIsConnected
    <2>. QED  BY <1>0, <2>1, <2>2 DEF IInv
  <1>8. ASSUME NEW s \in Server, ServerLoop(s)
        PROVE  UNCHANGED <<linked, remote, main, host, next, accepted>>
    BY <1>8 DEF ServerLoop, server_on_peer_joined, server_on_peer_disconnected,
                server_on_message_received
  <1>9. CASE UNCHANGED vars
    BY <1>7, <1>9 DEF vars
  <1>. QED
    BY <1>1, <1>2, <1>3, <1>4, <1>5, <1>6, <1>7, <1>8, <1>9
    DEF Next, Main, Background

\* The messages of a burst go to one server or to none: the lock is enough,
\* although the loops before the burst read remote without it.
THEOREM BurstsAreWhole == Spec => []BurstIsWhole
  <1>1. IInv => BurstIsWhole
    BY DEF IInv
  <1>. QED  BY <1>1, InitIInv, NextIInv, PTL DEF Spec

\* A client's remote is a server that its session has a connection with.
THEOREM RemotesAreConnected == Spec => []RemoteIsConnected
  <1>1. IInv => RemoteIsConnected
    BY DEF IInv
  <1>. QED  BY <1>1, InitIInv, NextIInv, PTL DEF Spec

\* Every variable keeps its type.
THEOREM TypeCorrect == Spec => []TypeOK
  <1>1. IInv => TypeOK
    BY DEF IInv
  <1>. QED  BY <1>1, InitIInv, NextIInv, PTL DEF Spec
-----------------------------------------------------------------------------
(***************************************************************************)
(* The reports of the server.                                              *)
(***************************************************************************)
\* What is counted are numbers.
LEMMA Sizes ==
  ASSUME IInv, IsFiniteSet(accepted), NEW s \in Server
  PROVE  /\ IsFiniteSet(At(accepted, s)) /\ Cardinality(At(accepted, s)) \in Nat
         /\ IsFiniteSet(At(taken, s)) /\ Cardinality(At(taken, s)) \in Nat
         /\ Cardinality(At(taken, s)) <= Cardinality(At(accepted, s))
         /\ IsFiniteSet(received[s]) /\ Cardinality(received[s]) \in Nat
         /\ Numbers * resets[s] \in Nat
  <1>1. /\ At(accepted, s) \in SUBSET accepted /\ At(taken, s) \in SUBSET At(accepted, s)
        /\ received[s] \in SUBSET Number /\ resets[s] \in Nat
    BY DEF IInv, TypeOK, At
  <1>2. IsFiniteSet(Number) /\ Cardinality(Number) = Numbers
    BY StressAssumption, FS_Interval DEF Number
  <1>3. IsFiniteSet(At(accepted, s)) /\ IsFiniteSet(received[s])
    BY <1>1, <1>2, FS_Subset
  <1>4. IsFiniteSet(At(taken, s)) /\ Cardinality(At(taken, s)) <= Cardinality(At(accepted, s))
    BY <1>1, <1>3, FS_Subset
  <1>5. Numbers * resets[s] \in Nat
    BY <1>1, StressAssumption
  <1>. QED  BY <1>3, <1>4, <1>5, FS_CardinalityType

\* Steps that no server takes a message or a client with, and that keep what
\* has been accepted finite.
LEMMA OthersKeepCount ==
  ASSUME Counted, IsFiniteSet(accepted'), served' \subseteq served,
         UNCHANGED <<taken, joins, serverThread>>
  PROVE  Counted'
  BY DEF Counted, At, serverThread

LEMMA SendKeepsCount ==
  ASSUME Counted, NEW c \in Client, send_reliable(c)
  PROVE  Counted'
  <1>1. accepted' = accepted \/ accepted' = accepted \cup {<<<<c, remote[c]>>, next[c]>>}
    BY DEF send_reliable
  <1>2. IsFiniteSet(accepted')
    BY <1>1, FS_AddElement DEF Counted
  <1>3. served' \subseteq served /\ UNCHANGED <<taken, joins, serverThread>>
    BY DEF send_reliable, sessions
  <1>. QED  BY <1>2, <1>3, OthersKeepCount

\* As long as the new connection is the first one of the pair, it makes the
\* server forget nothing that it has taken.
LEMMA JoinKeepsCount ==
  ASSUME IInv, Counted, NEW c \in Client, NEW s \in Server, server_on_peer_joined(c, s)
  PROVE  Counted'
  <1>1. UNCHANGED <<accepted, received, resets>> /\ joins \in [Pair -> Nat] /\ <<c, s>> \in Pair
    BY DEF server_on_peer_joined, mainThread, serverThread, IInv, TypeOK, Pair
  <1>2. CASE ~HasRoom(s)
    <2>1. UNCHANGED <<served, taken, joins>>
      BY <1>2 DEF server_on_peer_joined
    <2>. QED  BY <1>1, <2>1 DEF Counted, At
  <1>3. CASE HasRoom(s)
    <2>1. /\ served' = served \cup {<<c, s>>}
          /\ taken' = {m \in taken : m[1] # <<c, s>>}
          /\ \A p \in Pair : joins'[p] = IF p = <<c, s>> THEN joins[p] + 1 ELSE joins[p]
      BY <1>1, <1>3 DEF server_on_peer_joined
    <2>2. \A p \in Pair : joins[p] \in Nat
      BY <1>1
    <2>3. ASSUME NEW p \in Pair, joins'[p] = 0
          PROVE  p \notin served' /\ \A m \in taken' : m[1] # p
      <3>1. p # <<c, s>> /\ joins[p] = 0
        BY <2>1, <2>2, <2>3
      <3>. QED  BY <2>1, <3>1 DEF Counted
    <2>4. ASSUME NEW r \in Server, \A d \in Client : joins'[<<d, r>>] <= 1
          PROVE  Numbers * resets[r] + Cardinality(received[r]) <= Cardinality(At(taken', r))
      <3>1. \A d \in Client : <<d, r>> \in Pair /\ joins[<<d, r>>] <= joins'[<<d, r>>]
        BY <2>1, <2>2 DEF Pair
      <3>2. \A d \in Client : joins[<<d, r>>] <= 1
        BY <2>2, <2>4, <3>1, <2>1
      <3>3. At(taken', r) = At(taken, r)
        <4>1. CASE r = s
          <5>1. joins[<<c, s>>] = 0
            BY <1>1, <2>1, <2>2, <2>4, <4>1
          <5>2. taken' = taken
            BY <1>1, <2>1, <5>1 DEF Counted
          <5>. QED  BY <5>2
        <4>2. CASE r # s
          BY <2>1, <4>2 DEF At
        <4>. QED  BY <4>1, <4>2
      <3>. QED  BY <3>2, <3>3 DEF Counted
    <2>. QED  BY <1>1, <2>3, <2>4 DEF Counted, At
  <1>. QED  BY <1>2, <1>3

LEMMA ReceiveKeepsCount ==
  ASSUME IInv, Counted, NEW c \in Client, NEW s \in Server, NEW i \in Number,
         server_on_message_received(c, s, i)
  PROVE  Counted'
  <1>. DEFINE m == <<<<c, s>>, i>>
              ticked == received[s] \cup {i}
  <1>1. /\ m \notin taken /\ taken' = taken \cup {m} /\ <<c, s>> \in served
        /\ UNCHANGED <<accepted, served, joins>>
        /\ \A t \in Server \ {s} : received'[t] = received[t] /\ resets'[t] = resets[t]
        /\ \/ ticked = Number /\ received'[s] = {} /\ resets'[s] = resets[s] + 1
           \/ received'[s] = ticked /\ resets'[s] = resets[s]
    BY DEF server_on_message_received, AfterReset, IInv, TypeOK, mainThread
  <1>2. IsFiniteSet(accepted)
    BY DEF Counted
  <1>3. ASSUME NEW p \in Pair, joins[p] = 0
        PROVE  p \notin served /\ \A n \in taken' : n[1] # p
    BY <1>1, <1>3 DEF Counted
  <1>4. ASSUME NEW t \in Server, \A d \in Client : joins[<<d, t>>] <= 1
        PROVE  Numbers * resets'[t] + Cardinality(received'[t]) <= Cardinality(At(taken', t))
    <2>1. /\ IsFiniteSet(At(taken, t)) /\ Cardinality(At(taken, t)) \in Nat
          /\ IsFiniteSet(received[t]) /\ Cardinality(received[t]) \in Nat
          /\ Numbers * resets[t] \in Nat
          /\ Numbers * resets[t] + Cardinality(received[t]) <= Cardinality(At(taken, t))
      BY <1>2, <1>4, Sizes DEF Counted
    <2>2. CASE t # s
      <3>1. At(taken', t) = At(taken, t)
        BY <1>1, <2>2 DEF At
      <3>. QED  BY <1>1, <2>1, <2>2, <3>1
    <2>3. CASE t = s
      <3>1. At(taken', s) = At(taken, s) \cup {m} /\ m \notin At(taken, s)
        BY <1>1 DEF At
      <3>2. Cardinality(At(taken', s)) = Cardinality(At(taken, s)) + 1
        BY <2>1, <2>3, <3>1, FS_AddElement
      <3>3. Cardinality(ticked) \in Nat /\ Cardinality(ticked) <= Cardinality(received[s]) + 1
        <4>1. IsFiniteSet(received[s]) /\ Cardinality(received[s]) \in Nat
          BY <2>1, <2>3
        <4>2. Cardinality(ticked) = IF i \in received[s] THEN Cardinality(received[s])
                                                        ELSE Cardinality(received[s]) + 1
          BY <4>1, FS_AddElement
        <4>. QED  BY <4>1, <4>2
      <3>4. CASE received'[s] = ticked /\ resets'[s] = resets[s]
        BY <2>1, <2>3, <3>2, <3>3, <3>4
      <3>5. CASE ticked = Number /\ received'[s] = {} /\ resets'[s] = resets[s] + 1
        <4>1. Cardinality(ticked) = Numbers /\ Cardinality(received'[s]) = 0
          <5>1. Cardinality(Number) = Numbers
            BY StressAssumption, FS_Interval DEF Number
          <5>2. Cardinality({}) = 0
            BY FS_EmptySet
          <5>. QED  BY <3>5, <5>1, <5>2
        <4>2. Numbers \in Nat /\ resets[s] \in Nat
          BY StressAssumption DEF IInv, TypeOK
        <4>3. Numbers * resets'[s] = Numbers * resets[s] + Numbers
          BY <3>5, <4>2
        <4>. QED  BY <2>1, <2>3, <3>2, <3>3, <4>1, <4>2, <4>3
      <3>. QED  BY <1>1, <3>4, <3>5
    <2>. QED  BY <2>2, <2>3
  <1>. QED  BY <1>1, <1>2, <1>3, <1>4 DEF Counted, At

LEMMA InitCounted == Init => Counted
  <1>. SUFFICES ASSUME Init PROVE Counted
    OBVIOUS
  <1>1. /\ accepted = {} /\ taken = {} /\ served = {}
        /\ \A s \in Server : received[s] = {} /\ resets[s] = 0
    BY DEF Init
  <1>2. \A s \in Server : At(taken, s) = {}
    BY <1>1 DEF At
  <1>3. IsFiniteSet({}) /\ Cardinality({}) = 0
    BY FS_EmptySet
  <1>4. Numbers * 0 + 0 <= 0
    BY StressAssumption
  <1>. QED  BY <1>1, <1>2, <1>3, <1>4 DEF Counted

LEMMA NextCounted == IInv /\ Counted /\ [Next]_vars => Counted'
  <1>. SUFFICES ASSUME IInv, Counted, [Next]_vars
                PROVE  Counted'
    OBVIOUS
  <1>0. IsFiniteSet(accepted)
    BY DEF Counted
  <1>1. ASSUME NEW c \in Client, Main(c) \/ Background(c)
        PROVE  Counted'
    <2>1. CASE send_reliable(c)
      BY <2>1, SendKeepsCount
    <2>2. CASE ~send_reliable(c)
      <3>1. served' \subseteq served /\ UNCHANGED <<accepted, taken, joins, serverThread>>
        BY <1>1, <2>2 DEF Main, Background, enter_address, try_connect, terminates,
             on_peer_joined, on_peer_disconnected, sessions, mainThread
      <3>. QED  BY <1>0, <3>1, OthersKeepCount
    <2>. QED  BY <2>1, <2>2
  <1>2. ASSUME NEW c \in Client, NEW s \in Server, server_on_peer_joined(c, s)
        PROVE  Counted'
    BY <1>2, JoinKeepsCount
  <1>3. ASSUME NEW c \in Client, NEW s \in Server, server_on_peer_disconnected(c, s)
        PROVE  Counted'
    <2>1. served' \subseteq served /\ UNCHANGED <<accepted, taken, joins, serverThread>>
      BY <1>3 DEF server_on_peer_disconnected, mainThread
    <2>. QED  BY <1>0, <2>1, OthersKeepCount
  <1>4. ASSUME NEW c \in Client, NEW s \in Server, NEW i \in Number,
               server_on_message_received(c, s, i)
        PROVE  Counted'
    BY <1>4, ReceiveKeepsCount
  <1>5. CASE UNCHANGED vars
    <2>1. served' \subseteq served /\ UNCHANGED <<accepted, taken, joins, serverThread>>
      BY <1>5 DEF vars, sessions, mainThread
    <2>. QED  BY <1>0, <2>1, OthersKeepCount
  <1>. QED  BY <1>1, <1>2, <1>3, <1>4, <1>5 DEF Next, ServerLoop

\* A server reports all the numbers no more often than that many messages were
\* accepted for it, from whichever clients and in whatever order, as long as it
\* has made one connection with each client at most.
THEOREM NumbersCountedOnce == Spec => []NothingCountedTwice
  <1>1. IInv /\ Counted => NothingCountedTwice
    <2>. SUFFICES ASSUME IInv, Counted, NEW s \in Server,
                         \A c \in Client : joins[<<c, s>>] <= 1
                  PROVE  Numbers * resets[s] + Cardinality(received[s])
                           <= Cardinality({m \in accepted : m[1][2] = s})
      BY DEF NothingCountedTwice
    <2>1. /\ Cardinality(At(taken, s)) \in Nat /\ Cardinality(At(accepted, s)) \in Nat
          /\ Cardinality(At(taken, s)) <= Cardinality(At(accepted, s))
          /\ Cardinality(received[s]) \in Nat /\ Numbers * resets[s] \in Nat
          /\ Numbers * resets[s] + Cardinality(received[s]) <= Cardinality(At(taken, s))
      BY Sizes DEF Counted
    <2>. QED  BY <2>1 DEF At
  <1>2. Init => IInv /\ Counted
    BY InitIInv, InitCounted
  <1>3. IInv /\ Counted /\ [Next]_vars => (IInv /\ Counted)'
    BY NextIInv, NextCounted
  <1>. QED  BY <1>1, <1>2, <1>3, PTL DEF Spec
-----------------------------------------------------------------------------
(***************************************************************************)
(* Both pairs of programs.                                                 *)
(***************************************************************************)
Chats == INSTANCE ChatProofs WITH
  Client <- ChatClient, Server <- ChatServer,
  served <- chatServed, linked <- chatLinked, taken <- chatTaken,
  requests <- chatRequests, answers <- chatAnswers,
  remote <- chatRemote, main <- chatMain, attempts <- chatAttempts

\* The theorems of ChatProofs are about the programs of Talk.
LEMMA Same ==
  /\ Talk!ChatAssumption <=> Chats!ChatAssumption
  /\ Talk!Init <=> Chats!Init
  /\ Talk!Next <=> Chats!Next
  /\ Talk!TypeOK <=> Chats!TypeOK
  /\ Talk!ChatRemoteIsConnected <=> Chats!ChatRemoteIsConnected
  /\ Talk!HeardOnce <=> Chats!HeardOnce
  <1>1. Talk!ChatAssumption <=> Chats!ChatAssumption
    BY DEF Talk!ChatAssumption, Chats!ChatAssumption, Talk!Text, Chats!Text
  <1>2. /\ Talk!Text = Chats!Text
        /\ Talk!NoCopies = Chats!NoCopies
        /\ Talk!Place = Chats!Place
    BY DEF Talk!Text, Chats!Text, Talk!NoCopies, Chats!NoCopies, Talk!Place,
           Chats!Place
  <1>3. ASSUME NEW c
       PROVE  Talk!Joins(c) = Chats!Joins(c)
    BY DEF Talk!Joins, Chats!Joins, Talk!Cardinality, Chats!Cardinality,
           Talk!IsFiniteSet, Chats!IsFiniteSet
  <1>4. Talk!Init <=> Chats!Init
    BY <1>2
    DEF Talk!Init, Chats!Init
  <1>5. ASSUME NEW c
       PROVE  /\ Talk!command(c) <=> Chats!command(c)
              /\ Talk!text(c) <=> Chats!text(c)
              /\ Talk!send_reliable(c) <=> Chats!send_reliable(c)
    BY <1>2, <1>3
    DEF Talk!command, Chats!command, Talk!text, Chats!text, Talk!send_reliable,
        Chats!send_reliable, Talk!Typed, Chats!Typed, Talk!Arrives, Chats!Arrives,
        Talk!maximum_transmission_unit, Chats!maximum_transmission_unit, Talk!At,
        Chats!At, Talk!Go, Chats!Go, Talk!channels, Chats!channels, Talk!pairing,
        Chats!pairing, Talk!handshakes, Chats!handshakes, Talk!server, Chats!server,
        Talk!client, Chats!client
  <1>6. ASSUME NEW c
       PROVE  /\ Talk!do_disconnect_Test(c) <=> Chats!do_disconnect_Test(c)
              /\ Talk!do_disconnect_Call(c) <=> Chats!do_disconnect_Call(c)
              /\ Talk!do_disconnect_Forget(c) <=> Chats!do_disconnect_Forget(c)
    BY <1>2, <1>3
    DEF Talk!do_disconnect_Test, Chats!do_disconnect_Test, Talk!do_disconnect_Call,
        Chats!do_disconnect_Call, Talk!do_disconnect_Forget,
        Chats!do_disconnect_Forget, Talk!At, Chats!At, Talk!Go, Chats!Go, Talk!Stay,
        Chats!Stay, Talk!Unlink, Chats!Unlink, Talk!channels, Chats!channels,
        Talk!pairing, Chats!pairing, Talk!handshakes, Chats!handshakes, Talk!server,
        Chats!server, Talk!client, Chats!client
  <1>7. ASSUME NEW c
       PROVE  /\ Talk!do_connect(c) <=> Chats!do_connect(c)
              /\ Talk!dies(c) <=> Chats!dies(c)
    BY <1>2, <1>3
    DEF Talk!do_connect, Chats!do_connect, Talk!dies, Chats!dies, Talk!TriesAgain,
        Chats!TriesAgain, Talk!At, Chats!At, Talk!Go, Chats!Go, Talk!Unlink,
        Chats!Unlink, Talk!channels, Chats!channels, Talk!pairing, Chats!pairing,
        Talk!handshakes, Chats!handshakes, Talk!server, Chats!server, Talk!client,
        Chats!client
  <1>8. ASSUME NEW c
       PROVE  /\ Talk!on_peer_joined(c) <=> Chats!on_peer_joined(c)
              /\ Talk!on_peer_disconnected(c) <=> Chats!on_peer_disconnected(c)
    BY <1>2, <1>3
    DEF Talk!on_peer_joined, Chats!on_peer_joined, Talk!on_peer_disconnected,
        Chats!on_peer_disconnected, Talk!Cleared, Chats!Cleared, Talk!At, Chats!At,
        Talk!Unlink, Chats!Unlink, Talk!channels, Chats!channels, Talk!pairing,
        Chats!pairing, Talk!handshakes, Chats!handshakes, Talk!server, Chats!server,
        Talk!client, Chats!client
  <1>9. ASSUME NEW c
       PROVE  /\ Talk!server_on_peer_joined(c) <=> Chats!server_on_peer_joined(c)
              /\ Talk!server_on_peer_disconnected(c) <=> Chats!server_on_peer_disconnected(c)
    BY <1>2, <1>3
    DEF Talk!server_on_peer_joined, Chats!server_on_peer_joined,
        Talk!server_on_peer_disconnected, Chats!server_on_peer_disconnected,
        Talk!Listed, Chats!Listed, Talk!channels, Chats!channels, Talk!pairing,
        Chats!pairing, Talk!handshakes, Chats!handshakes, Talk!server, Chats!server,
        Talk!client, Chats!client
  <1>10. ASSUME NEW c, NEW t
       PROVE  /\ Talk!on_message_received(c, t) <=> Chats!on_message_received(c, t)
              /\ Talk!server_on_message_received(c, t) <=> Chats!server_on_message_received(c, t)
              /\ Talk!Copies(c, t) = Chats!Copies(c, t)
    BY <1>3
    DEF Talk!on_message_received, Chats!on_message_received,
        Talk!server_on_message_received, Chats!server_on_message_received,
        Talk!Untaken, Chats!Untaken, Talk!Copies, Chats!Copies, Talk!channels,
        Chats!channels, Talk!pairing, Chats!pairing, Talk!handshakes, Chats!handshakes,
        Talk!server, Chats!server, Talk!client, Chats!client
  <1>11. ASSUME NEW t
         PROVE  /\ Talk!Arrives(Talk!Broadcast(t)) <=> Chats!Arrives(Chats!Broadcast(t))
                /\ Talk!Accepts(Talk!Broadcast(t)) <=> Chats!Accepts(Chats!Broadcast(t))
    BY DEF Talk!Arrives, Chats!Arrives, Talk!Accepts, Chats!Accepts, Talk!Broadcast,
           Chats!Broadcast, Talk!maximum_transmission_unit, Chats!maximum_transmission_unit
  <1>12. Talk!broadcast <=> Chats!broadcast
    BY <1>2, <1>10, <1>11
    DEF Talk!broadcast, Chats!broadcast, Talk!channels, Chats!channels, Talk!pairing,
        Chats!pairing, Talk!handshakes, Chats!handshakes, Talk!server, Chats!server,
        Talk!client, Chats!client
  <1>13. Talk!Next <=> Chats!Next
    BY <1>2, <1>5, <1>6, <1>7, <1>8, <1>9, <1>10, <1>12
    DEF Talk!Next, Chats!Next, Talk!Main, Chats!Main, Talk!Background,
        Chats!Background, Talk!ServerLoop, Chats!ServerLoop
  <1>14. Talk!TypeOK <=> Chats!TypeOK
    BY <1>2
    DEF Talk!TypeOK, Chats!TypeOK
  <1>15. Talk!ChatRemoteIsConnected <=> Chats!ChatRemoteIsConnected
    BY DEF Talk!ChatRemoteIsConnected, Chats!ChatRemoteIsConnected, Talk!At, Chats!At
  <1>16. Talk!HeardOnce <=> Chats!HeardOnce
    BY <1>2, <1>3
    DEF Talk!HeardOnce, Chats!HeardOnce
  <1>. QED  BY <1>1, <1>4, <1>13, <1>14, <1>15, <1>16

\* The invariants of both pairs hold together: while one pair runs nothing
\* changes of the other.
LEMMA BothInvariants == DemoSpec => [](IInv /\ Chats!IInv)
  <1>1. DemoInit => IInv /\ Chats!IInv
    BY InitIInv, TalkAssumption, Same, Chats!StepInit DEF DemoInit
  <1>2. IInv /\ Chats!IInv /\ [DemoNext]_demoVars => IInv' /\ Chats!IInv'
    <2>1. [DemoNext]_demoVars => [Next]_vars /\ [Chats!Next]_(Chats!vars)
      <3>1. UNCHANGED chatVars => UNCHANGED Chats!vars
        BY DEF chatVars, Chats!vars, Chats!channels, Chats!pairing, Chats!handshakes,
               Chats!server, Chats!client
      <3>. QED  BY <3>1, Same DEF DemoNext, StressStep, ChatStep, demoVars
    <2>. QED  BY <2>1, TalkAssumption, Same, NextIInv, Chats!StepInv
  <1>. QED  BY <1>1, <1>2, PTL DEF DemoSpec

\* Every variable of both pairs of programs keeps its type.
THEOREM AllTypesCorrect == DemoSpec => []AllTypeOK
  <1>1. IInv /\ Chats!IInv => AllTypeOK
    BY Same DEF IInv, Chats!IInv, AllTypeOK
  <1>. QED  BY <1>1, BothInvariants, PTL

\* However the two threads of a chat_client interleave, a remote that is set is
\* one the session has a connection with, except between the disconnect and the
\* memset of do_disconnect.
THEOREM ChatRemotesAreConnected == DemoSpec => []ChatRemoteIsConnected
  <1>1. Chats!IInv => ChatRemoteIsConnected
    BY Same DEF Chats!IInv, ChatRemoteIsConnected
  <1>. QED  BY <1>1, BothInvariants, PTL

\* A chat_client gets its own text never, and a text of another once at most as
\* long as the chat_server has made one connection with either.
THEOREM TextsComeOnce == DemoSpec => []HeardOnce
  <1>1. Chats!IInv => HeardOnce
    BY TalkAssumption, Same, Chats!InvHearsOnce DEF HeardOnce
  <1>. QED  BY <1>1, BothInvariants, PTL
=============================================================================

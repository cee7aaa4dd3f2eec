------------------------------ MODULE ChatProofs ------------------------------
(***************************************************************************)
(* For any number of chat_clients, texts and connections: a client's       *)
(* remote is a server it is connected with, and a text comes once at most  *)
(* while chat_server has made one connection with its author and one with  *)
(* the client.                                                             *)
(***************************************************************************)
EXTENDS Chat, FiniteSetTheorems, TLAPS

-----------------------------------------------------------------------------
(***************************************************************************)
(* The inductive invariant.                                                *)
(***************************************************************************)
\* Nobody is sent a copy of the text.
Uncopied(t) == \A c \in Client : toClient[c][t] = 0

\* While the server has made no connection with the client, or its first one
\* waits for the client's side, the client has got nothing; with the first one
\* it gets no copy that was not sent, and none twice.
FirstJoin(c) ==
  /\ Joins(c) = 0 => c \notin served \cup linked \cup answers /\ heard[c] = {}
  /\ Joins(c) <= 1 =>
       /\ Joins(c) = 0 \/ c \in answers => c \notin linked /\ got[c] = NoCopies
       /\ \A t \in Text : got[c][t] <= taken[c][t] /\ got[c][t] <= toClient[c][t]

\* While the server has made one connection with the author at most, it queues
\* the text once at most, and broadcasts it then for the first time.
QueuedOnce(t) ==
  Joins(t[1]) <= 1 =>
    /\ outgoing[t] <= 1
    /\ t \notin heard[t[1]] => outgoing[t] = 0 /\ Uncopied(t)
    /\ outgoing[t] > 0 => Uncopied(t)
    /\ \A c \in Client : Joins(c) <= 1 => toClient[c][t] <= 1

\* The author gets no copy.
NotToAuthor(t) == toClient[t[1]][t] = 0 /\ got[t[1]][t] = 0

LinesOK(c) ==
  /\ lines[c] <= MaxLines[c]
  /\ At(c, "send") => lines[c] > 0
  /\ \A t \in toServer[c] \cup heard[c] : t[1] = c

CopiesOK ==
  /\ \A c \in Client : FirstJoin(c)
  /\ \A t \in Text : QueuedOnce(t) /\ NotToAuthor(t)

\* Together.
IInv ==
  /\ TypeOK
  /\ ChatRemoteIsConnected
  /\ \A c \in Client : LinesOK(c)
  /\ CopiesOK
-----------------------------------------------------------------------------
(***************************************************************************)
(* Texts, places and the list.                                             *)
(***************************************************************************)
LEMMA Texts ==
  ASSUME ChatAssumption, NEW t \in Text
  PROVE  t[1] \in Client /\ t[2] \in Nat /\ t[2] < MaxLines[t[1]] /\ t = <<t[1], t[2]>>
  <1>1. PICK c \in Client : t \in {c} \X (0 .. MaxLines[c] - 1)
    BY DEF Text
  <1>2. MaxLines[c] \in Nat
    BY DEF ChatAssumption
  <1>. QED  BY <1>1, <1>2

LEMMA IsText ==
  ASSUME ChatAssumption, NEW c \in Client, NEW i \in Nat, i < MaxLines[c]
  PROVE  <<c, i>> \in Text
  <1>1. MaxLines[c] \in Nat
    BY DEF ChatAssumption
  <1>2. <<c, i>> \in {c} \X (0 .. MaxLines[c] - 1)
    BY <1>1
  <1>. QED  BY <1>2 DEF Text

LEMMA Going ==
  ASSUME TypeOK, NEW c \in Client, NEW place \in {"prompt", "connect", "send", "dead"},
         Go(c, place)
  PROVE  /\ main' \in [Client -> Place]
         /\ \A x \in Client : \A p : At(x, p)' <=> IF x = c THEN place = p ELSE At(x, p)
  <1>1. [at |-> place] \in Place
    BY DEF Place
  <1>2. main' = [main EXCEPT ![c] = [at |-> place]] /\ main \in [Client -> Place]
    BY DEF Go, TypeOK
  <1>3. \A x \in Client : main'[x] = IF x = c THEN [at |-> place] ELSE main[x]
    BY <1>2
  <1>. QED  BY <1>1, <1>2, <1>3 DEF At

\* do_disconnect knows where it goes on.
LEMMA Thens ==
  ASSUME TypeOK, NEW c \in Client, At(c, "test") \/ At(c, "disconnect") \/ At(c, "forget")
  PROVE  /\ main[c].then \in {"prompt", "connect"}
         /\ main[c] = [at |-> main[c].at, then |-> main[c].then]
  <1>1. main[c] \in [at : {"test", "disconnect", "forget"}, then : {"prompt", "connect"}]
    BY DEF TypeOK, Place, At
  <1>. QED  BY <1>1

LEMMA Staying ==
  ASSUME TypeOK, NEW c \in Client, At(c, "test") \/ At(c, "disconnect"),
         NEW place \in {"disconnect", "forget"}, Stay(c, place)
  PROVE  /\ main' \in [Client -> Place]
         /\ \A x \in Client : \A p : At(x, p)' <=> IF x = c THEN place = p ELSE At(x, p)
  <1>1. PICK there : there = [main[c] EXCEPT !.at = place]
    OBVIOUS
  <1>2. there = [at |-> place, then |-> main[c].then] /\ there \in Place
    <2>1. PICK then \in {"prompt", "connect"} : then = main[c].then
      BY Thens
    <2>2. main[c] = [at |-> main[c].at, then |-> then]
      BY <2>1, Thens
    <2>3. there = [at |-> place, then |-> then]
      BY <1>1, <2>2
    <2>. QED  BY <2>1, <2>3 DEF Place
  <1>3. main' = [main EXCEPT ![c] = there] /\ main \in [Client -> Place]
    BY <1>1 DEF Stay, TypeOK
  <1>4. \A x \in Client : main'[x] = IF x = c THEN there ELSE main[x]
    BY <1>3
  <1>. QED  BY <1>2, <1>3, <1>4 DEF At

LEMMA EntriesCount ==
  ASSUME NEW list \in Seq(Client), NEW c
  PROVE  Cardinality({i \in DOMAIN list : list[i] = c}) \in Nat
  <1>1. Len(list) \in Nat /\ DOMAIN list = 1 .. Len(list)
    OBVIOUS
  <1>2. IsFiniteSet(1 .. Len(list))
    BY <1>1, FS_Interval
  <1>3. IsFiniteSet({i \in DOMAIN list : list[i] = c})
    BY <1>1, <1>2, FS_Subset
  <1>. QED  BY <1>3, FS_CardinalityType

LEMMA JoinsType ==
  ASSUME TypeOK
  PROVE  \A c \in Client : Joins(c) \in Nat
  BY EntriesCount DEF Joins, TypeOK

\* Whoever joins is listed once more.
LEMMA Listing ==
  ASSUME TypeOK, NEW c \in Client, remotes' = Append(remotes, c)
  PROVE  /\ remotes' \in Seq(Client)
         /\ \A x \in Client : Joins(x)' = IF x = c THEN Joins(x) + 1 ELSE Joins(x)
  <1>1. /\ Len(remotes) \in Nat /\ DOMAIN remotes = 1 .. Len(remotes)
        /\ remotes' \in Seq(Client)
        /\ DOMAIN remotes' = 1 .. (Len(remotes) + 1)
        /\ \A i \in 1 .. Len(remotes) : remotes'[i] = remotes[i]
    BY DEF TypeOK
  <1>2. remotes'[Len(remotes) + 1] = c
    BY DEF TypeOK
  <1>3. ASSUME NEW x \in Client
        PROVE  Joins(x)' = IF x = c THEN Joins(x) + 1 ELSE Joins(x)
    <2>1. PICK before : before = {i \in DOMAIN remotes : remotes[i] = x}
      OBVIOUS
    <2>2. PICK after : after = {i \in DOMAIN remotes' : remotes'[i] = x}
      OBVIOUS
    <2>3. before \subseteq 1 .. Len(remotes) /\ Len(remotes) + 1 \notin before
      BY <1>1, <2>1
    <2>4. IsFiniteSet(before)
      <3>1. IsFiniteSet(1 .. Len(remotes))
        BY <1>1, FS_Interval
      <3>. QED  BY <2>3, <3>1, FS_Subset
    <2>5. after = IF x = c THEN before \cup {Len(remotes) + 1} ELSE before
      <3>1. DOMAIN remotes' = DOMAIN remotes \cup {Len(remotes) + 1}
        BY <1>1
      <3>2. \A i \in DOMAIN remotes : remotes'[i] = remotes[i]
        BY <1>1
      <3>. QED  BY <3>1, <3>2, <1>2, <2>1, <2>2
    <2>6. Cardinality(after) = IF x = c THEN Cardinality(before) + 1 ELSE Cardinality(before)
      BY <2>3, <2>4, <2>5, FS_AddElement
    <2>. QED  BY <2>1, <2>2, <2>6 DEF Joins
  <1>. QED  BY <1>1, <1>3

LEMMA AtOnePlace ==
  \A c \in Client : \A p, q : At(c, p) /\ At(c, q) => p = q
  BY DEF At

LEMMA Parts ==
  ASSUME IInv
  PROVE  /\ TypeOK /\ ChatRemoteIsConnected /\ CopiesOK
         /\ \A c \in Client : LinesOK(c)
  BY DEF IInv

-----------------------------------------------------------------------------
(***************************************************************************)
(* Steps that send nothing to a client and make no connection.             *)
(***************************************************************************)
LEMMA Untouched ==
  ASSUME ChatAssumption, CopiesOK,
         UNCHANGED <<remotes, outgoing, toClient, heard, taken, got>>,
         served' \subseteq served, linked' \subseteq linked, answers' \subseteq answers
  PROVE  CopiesOK'
  <1>1. \A c \in Client : Joins(c)' = Joins(c)
    BY DEF Joins
  <1>2. ASSUME NEW c \in Client  PROVE FirstJoin(c)'
    <2>1. FirstJoin(c)
      BY DEF CopiesOK
    <2>. QED  BY <1>1, <2>1 DEF FirstJoin
  <1>3. ASSUME NEW t \in Text  PROVE QueuedOnce(t)' /\ NotToAuthor(t)'
    <2>1. QueuedOnce(t) /\ NotToAuthor(t) /\ t[1] \in Client
      BY Texts DEF CopiesOK
    <2>. QED  BY <1>1, <2>1 DEF QueuedOnce, NotToAuthor, Uncopied
  <1>. QED  BY <1>2, <1>3 DEF CopiesOK

-----------------------------------------------------------------------------
(***************************************************************************)
(* The main thread of a client.                                            *)
(***************************************************************************)
\* A step of the main thread that goes on to another place.
LEMMA Walking ==
  ASSUME ChatAssumption, IInv, NEW c \in Client, NEW place,
         main' \in [Client -> Place],
         \A x \in Client : \A p : At(x, p)' <=> IF x = c THEN place = p ELSE At(x, p),
         UNCHANGED <<channels, pairing, answers, server, linked, taken, remote, got>>,
         requests' \subseteq Client, attempts' \in [Client -> Nat],
         lines' \in [Client -> Nat],
         \A x \in Client : lines'[x] = lines[x] \/ (x = c /\ lines'[x] <= MaxLines[x]),
         place = "send" => lines'[c] > 0,
         ~At(c, "forget"), ~At(c, "dead")
  PROVE  IInv'
  <1>0. TypeOK /\ ChatRemoteIsConnected /\ CopiesOK /\ \A x \in Client : LinesOK(x)
    BY Parts
  <1>1. UNCHANGED <<toServer, toClient, offered, paired, answers, remotes, outgoing,
                    served, blocked, heard, linked, taken, remote, got>>
    BY DEF channels, pairing, server
  <1>2. TypeOK'
    BY <1>0, <1>1 DEF TypeOK
  <1>3. CopiesOK'
    BY <1>0, <1>1, Untouched
  <1>4. ChatRemoteIsConnected'
    BY <1>0, <1>1 DEF ChatRemoteIsConnected
  <1>5. \A x \in Client : LinesOK(x)'
    BY <1>0, <1>1 DEF LinesOK
  <1>. QED  BY <1>2, <1>3, <1>4, <1>5 DEF IInv

LEMMA StepCommand ==
  ASSUME ChatAssumption, IInv, NEW c \in Client, command(c)
  PROVE  IInv'
  <1>1. PICK then \in {"prompt", "connect"} :
          main' = [main EXCEPT ![c] = [at |-> "test", then |-> then]]
    BY DEF command
  <1>2. [at |-> "test", then |-> then] \in Place
    BY DEF Place
  <1>3. \A x \in Client : main'[x] = IF x = c THEN [at |-> "test", then |-> then] ELSE main[x]
    BY <1>1 DEF IInv, TypeOK
  <1>4. main' \in [Client -> Place]
    BY <1>1, <1>2 DEF IInv, TypeOK
  <1>5. \A x \in Client : \A p : At(x, p)' <=> IF x = c THEN "test" = p ELSE At(x, p)
    BY <1>3 DEF At
  <1>6. attempts' \in [Client -> Nat] /\ requests' \subseteq Client
    BY DEF command, ChatAssumption, IInv, TypeOK, handshakes
  <1>7. ~At(c, "forget") /\ ~At(c, "dead")
    <2>1. At(c, "prompt")
      BY Zenon DEF command
    <2>. QED  BY <2>1, AtOnePlace
  <1>8. /\ UNCHANGED <<channels, pairing, answers, server, linked, taken, remote, got>>
        /\ lines[c] < MaxLines[c] /\ lines' = [lines EXCEPT ![c] = @ + 1]
    BY DEF command, handshakes
  <1>9. /\ lines' \in [Client -> Nat]
        /\ \A x \in Client : lines'[x] = lines[x] \/ (x = c /\ lines'[x] <= MaxLines[x])
    BY <1>8 DEF IInv, TypeOK, ChatAssumption
  <1>10. PICK place : place = "test"
    OBVIOUS
  <1>11. /\ place # "send"
         /\ \A x \in Client : \A p : At(x, p)' <=> IF x = c THEN place = p ELSE At(x, p)
    BY <1>5, <1>10
  <1>. QED  BY <1>4, <1>6, <1>7, <1>8, <1>9, <1>11, Walking

LEMMA StepText ==
  ASSUME ChatAssumption, IInv, NEW c \in Client, text(c)
  PROVE  IInv'
  <1>1. PICK place \in {"prompt", "send"} :
          /\ main' \in [Client -> Place]
          /\ \A x \in Client : \A p : At(x, p)' <=> IF x = c THEN place = p ELSE At(x, p)
    BY Parts, Going DEF text
  <1>2. attempts' \in [Client -> Nat] /\ requests' \subseteq Client
    BY DEF text, IInv, TypeOK, handshakes
  <1>3. ~At(c, "forget") /\ ~At(c, "dead")
    BY AtOnePlace DEF text
  <1>4. /\ UNCHANGED <<channels, pairing, answers, server, linked, taken, remote, got>>
        /\ lines[c] < MaxLines[c] /\ lines' = [lines EXCEPT ![c] = @ + 1]
    BY DEF text, handshakes
  <1>5. /\ lines' \in [Client -> Nat] /\ lines'[c] > 0
        /\ \A x \in Client : lines'[x] = lines[x] \/ (x = c /\ lines'[x] <= MaxLines[x])
    BY <1>4 DEF IInv, TypeOK, ChatAssumption
  <1>. QED  BY <1>1, <1>2, <1>3, <1>4, <1>5, Walking

LEMMA StepTest ==
  ASSUME ChatAssumption, IInv, NEW c \in Client, do_disconnect_Test(c)
  PROVE  IInv'
  <1>1. PICK place \in {"prompt", "connect", "disconnect"} :
          /\ main' \in [Client -> Place]
          /\ \A x \in Client : \A p : At(x, p)' <=> IF x = c THEN place = p ELSE At(x, p)
    <2>0. TypeOK /\ At(c, "test")
      BY DEF IInv, do_disconnect_Test
    <2>1. CASE remote[c] = Nil
      <3>1. main[c].then \in {"prompt", "connect"} /\ Go(c, main[c].then)
        BY <2>0, <2>1, Thens DEF do_disconnect_Test
      <3>. QED  BY <2>0, <3>1, Going
    <2>2. CASE remote[c] # Nil
      BY <2>0, <2>2, Staying DEF do_disconnect_Test
    <2>. QED  BY <2>1, <2>2
  <1>2. attempts' \in [Client -> Nat] /\ requests' \subseteq Client
        /\ lines' = lines /\ lines' \in [Client -> Nat]
    BY DEF do_disconnect_Test, IInv, TypeOK, handshakes
  <1>3. ~At(c, "forget") /\ ~At(c, "dead")
    BY AtOnePlace DEF do_disconnect_Test
  <1>4. UNCHANGED <<channels, pairing, answers, server, linked, taken, remote, got>>
    BY DEF do_disconnect_Test, handshakes
  <1>5. place # "send"
    BY <1>1
  <1>. QED  BY <1>1, <1>2, <1>3, <1>4, <1>5, Walking

LEMMA StepConnect ==
  ASSUME ChatAssumption, IInv, NEW c \in Client, do_connect(c)
  PROVE  IInv'
  <1>1. PICK place \in {"prompt", "connect"} :
          /\ main' \in [Client -> Place]
          /\ \A x \in Client : \A p : At(x, p)' <=> IF x = c THEN place = p ELSE At(x, p)
    <2>0. TypeOK /\ At(c, "connect")
      BY DEF IInv, do_connect
    <2>1. CASE TriesAgain(c)
      <3>1. main' = main
        BY <2>1 DEF do_connect
      <3>2. \A x \in Client : \A p : At(x, p)' <=> IF x = c THEN "connect" = p ELSE At(x, p)
        BY <2>0, <3>1, AtOnePlace DEF At
      <3>. QED  BY <2>0, <3>1, <3>2 DEF TypeOK
    <2>2. CASE ~TriesAgain(c)
      BY <2>0, <2>2, Going DEF do_connect
    <2>. QED  BY <2>1, <2>2
  <1>2. attempts' \in [Client -> Nat]
    <2>1. CASE TriesAgain(c)
      <3>1. attempts[c] \in Nat /\ attempts[c] > 0 /\ attempts \in [Client -> Nat]
        BY <2>1 DEF TriesAgain, IInv, TypeOK
      <3>2. attempts' = [attempts EXCEPT ![c] = @ - 1]
        BY <2>1 DEF do_connect
      <3>3. attempts[c] - 1 \in Nat
        BY <3>1
      <3>. QED  BY <3>1, <3>2, <3>3
    <2>2. CASE ~TriesAgain(c)
      <3>1. attempts \in [Client -> Nat]
        BY DEF IInv, TypeOK
      <3>2. attempts' = [attempts EXCEPT ![c] = 0]
        BY <2>2 DEF do_connect
      <3>. QED  BY <3>1, <3>2
    <2>. QED  BY <2>1, <2>2
  <1>3. requests' \subseteq Client /\ lines' = lines /\ lines' \in [Client -> Nat]
    BY DEF do_connect, IInv, TypeOK
  <1>4. ~At(c, "forget") /\ ~At(c, "dead")
    BY AtOnePlace DEF do_connect
  <1>5. UNCHANGED <<channels, pairing, answers, server, linked, taken, remote, got>>
    BY DEF do_connect
  <1>. QED  BY <1>1, <1>2, <1>3, <1>4, <1>5, Walking

LEMMA StepForget ==
  ASSUME ChatAssumption, IInv, NEW c \in Client, do_disconnect_Forget(c)
  PROVE  IInv'
  <1>0. /\ TypeOK /\ ChatRemoteIsConnected /\ CopiesOK /\ At(c, "forget")
        /\ \A x \in Client : LinesOK(x)
    BY DEF IInv, do_disconnect_Forget
  <1>1. PICK place \in {"prompt", "connect"} :
          /\ main' \in [Client -> Place]
          /\ \A x \in Client : \A p : At(x, p)' <=> IF x = c THEN place = p ELSE At(x, p)
    <2>1. main[c].then \in {"prompt", "connect"} /\ Go(c, main[c].then)
      BY <1>0, Thens DEF do_disconnect_Forget
    <2>. QED  BY <1>0, <2>1, Going
  <1>2. /\ UNCHANGED <<toServer, toClient, offered, paired, requests, answers, remotes,
                       outgoing, served, blocked, heard, linked, taken, attempts, lines, got>>
        /\ remote' = [remote EXCEPT ![c] = Nil]
    BY DEF do_disconnect_Forget, channels, pairing, handshakes, server
  <1>3. TypeOK'
    BY <1>0, <1>1, <1>2 DEF TypeOK
  <1>4. CopiesOK'
    BY <1>0, <1>2, Untouched
  <1>5. ChatRemoteIsConnected'
    BY <1>0, <1>1, <1>2 DEF ChatRemoteIsConnected, TypeOK, ChatAssumption
  <1>6. \A x \in Client : LinesOK(x)'
    BY <1>0, <1>1, <1>2 DEF LinesOK
  <1>. QED  BY <1>3, <1>4, <1>5, <1>6 DEF IInv

LEMMA StepCall ==
  ASSUME ChatAssumption, IInv, NEW c \in Client, do_disconnect_Call(c)
  PROVE  IInv'
  <1>0. /\ TypeOK /\ ChatRemoteIsConnected /\ CopiesOK /\ At(c, "disconnect")
        /\ \A x \in Client : LinesOK(x)
    BY DEF IInv, do_disconnect_Call
  <1>1. /\ main' \in [Client -> Place]
        /\ \A x \in Client : \A p : At(x, p)' <=> IF x = c THEN "forget" = p ELSE At(x, p)
    BY <1>0, Staying DEF do_disconnect_Call
  <1>2. UNCHANGED <<toServer, toClient, offered, requests, answers, remotes, outgoing,
                    served, blocked, heard, taken, remote, attempts, lines, got>>
    BY DEF do_disconnect_Call, channels, handshakes, server
  <1>3. \/ remote[c] = Server /\ linked' = linked \ {c} /\ paired' = paired \ {c}
        \/ remote[c] # Server /\ linked' = linked /\ paired' = paired
    BY DEF do_disconnect_Call, Unlink
  <1>4. TypeOK'
    BY <1>0, <1>1, <1>2, <1>3 DEF TypeOK
  <1>5. CopiesOK'
    BY <1>0, <1>2, <1>3, Untouched
  <1>6. ChatRemoteIsConnected'
    BY <1>0, <1>1, <1>2, <1>3, AtOnePlace DEF ChatRemoteIsConnected
  <1>7. \A x \in Client : LinesOK(x)'
    BY <1>0, <1>1, <1>2 DEF LinesOK
  <1>. QED  BY <1>4, <1>5, <1>6, <1>7 DEF IInv

LEMMA StepDies ==
  ASSUME ChatAssumption, IInv, NEW c \in Client, dies(c)
  PROVE  IInv'
  <1>0. TypeOK /\ ChatRemoteIsConnected /\ CopiesOK /\ \A x \in Client : LinesOK(x)
    BY DEF IInv
  <1>1. /\ main' \in [Client -> Place]
        /\ \A x \in Client : \A p : At(x, p)' <=> IF x = c THEN "dead" = p ELSE At(x, p)
    BY <1>0, Going DEF dies
  <1>2. /\ UNCHANGED <<toServer, toClient, offered, requests, answers, remotes, outgoing,
                       served, blocked, heard, taken, remote, attempts, lines, got>>
        /\ linked' = linked \ {c} /\ paired' = paired \ {c}
    BY DEF dies, channels, handshakes, server, Unlink
  <1>3. TypeOK'
    BY <1>0, <1>1, <1>2 DEF TypeOK
  <1>4. CopiesOK'
    BY <1>0, <1>2, Untouched
  <1>5. ChatRemoteIsConnected'
    BY <1>0, <1>1, <1>2 DEF ChatRemoteIsConnected
  <1>6. \A x \in Client : LinesOK(x)'
    BY <1>0, <1>1, <1>2 DEF LinesOK
  <1>. QED  BY <1>3, <1>4, <1>5, <1>6 DEF IInv

LEMMA StepSendReliable ==
  ASSUME ChatAssumption, IInv, NEW c \in Client, send_reliable(c)
  PROVE  IInv'
  <1>0. /\ TypeOK /\ ChatRemoteIsConnected /\ CopiesOK /\ At(c, "send")
        /\ \A x \in Client : LinesOK(x)
    BY DEF IInv, send_reliable
  <1>1. /\ main' \in [Client -> Place]
        /\ \A x \in Client : \A p : At(x, p)' <=> IF x = c THEN "prompt" = p ELSE At(x, p)
    BY <1>0, Going DEF send_reliable
  <1>2. UNCHANGED <<toClient, offered, paired, requests, answers, remotes, outgoing,
                    served, blocked, heard, linked, taken, remote, attempts, lines, got>>
    BY DEF send_reliable, pairing, handshakes, server
  <1>3. PICK u : u = <<c, lines[c] - 1>>
    OBVIOUS
  <1>4. u \in Text /\ u[1] = c
    <2>1. lines[c] \in Nat /\ lines[c] > 0 /\ lines[c] <= MaxLines[c]
          /\ MaxLines[c] \in Nat
      BY <1>0 DEF TypeOK, LinesOK, ChatAssumption
    <2>2. lines[c] - 1 \in Nat /\ lines[c] - 1 < MaxLines[c]
      BY <2>1
    <2>. QED  BY <2>2, <1>3, IsText
  <1>5. /\ toServer' \in [Client -> SUBSET Text]
        /\ \A x \in Client : \A t \in toServer'[x] : t \in toServer[x] \/ (x = c /\ t = u)
    <2>1. toServer \in [Client -> SUBSET Text]
      BY <1>0 DEF TypeOK
    <2>2. \/ toServer' = toServer
          \/ toServer' = [toServer EXCEPT ![c] = @ \cup {u}]
      BY <1>3 DEF send_reliable
    <2>. QED  BY <2>1, <2>2, <1>4
  <1>6. TypeOK'
    BY <1>0, <1>1, <1>2, <1>5 DEF TypeOK
  <1>7. CopiesOK'
    BY <1>0, <1>2, Untouched
  <1>8. ChatRemoteIsConnected'
    BY <1>0, <1>1, <1>2, AtOnePlace DEF ChatRemoteIsConnected
  <1>9. \A x \in Client : LinesOK(x)'
    BY <1>0, <1>1, <1>2, <1>4, <1>5 DEF LinesOK
  <1>. QED  BY <1>6, <1>7, <1>8, <1>9 DEF IInv

-----------------------------------------------------------------------------
(***************************************************************************)
(* The background thread of a client.                                      *)
(***************************************************************************)
LEMMA StepJoined ==
  ASSUME ChatAssumption, IInv, NEW c \in Client, on_peer_joined(c)
  PROVE  IInv'
  <1>0. TypeOK /\ ChatRemoteIsConnected /\ CopiesOK /\ \A x \in Client : LinesOK(x)
    BY DEF IInv
  <1>1. /\ UNCHANGED <<toServer, toClient, requests, remotes, outgoing, served, blocked,
                       heard, main, attempts, lines, got>>
        /\ answers' = answers \ {c} /\ linked' = linked \cup {c} /\ c \in answers
        /\ offered' = offered \ {c} /\ paired' = paired \cup ({c} \cap offered)
        /\ taken' = [taken EXCEPT ![c] = NoCopies]
        /\ remote' = [remote EXCEPT ![c] = Server]
    BY DEF on_peer_joined, channels, server
  <1>2. NoCopies \in [Text -> Nat] /\ taken' \in [Client -> [Text -> Nat]]
    BY <1>0, <1>1 DEF NoCopies, TypeOK
  <1>3. TypeOK'
    BY <1>0, <1>1, <1>2 DEF TypeOK
  <1>4. \A x \in Client : \A p : At(x, p)' <=> At(x, p)
    BY <1>1 DEF At
  <1>5. ASSUME NEW x \in Client  PROVE FirstJoin(x)'
    <2>1. FirstJoin(x) /\ Joins(x)' = Joins(x) /\ Joins(x) \in Nat
      BY <1>0, <1>1, JoinsType DEF CopiesOK, Joins
    <2>2. CASE x # c
      BY <1>0, <1>1, <2>1, <2>2 DEF FirstJoin, TypeOK
    <2>3. CASE x = c
      <3>1. Joins(c) # 0
        BY <1>1, <2>1, <2>3 DEF FirstJoin
      <3>2. taken'[c] = NoCopies
        BY <1>0, <1>1 DEF TypeOK
      <3>3. Joins(c) <= 1 => got[c] = NoCopies
        BY <1>1, <2>1, <2>3 DEF FirstJoin
      <3>4. Joins(c) <= 1 => \A t \in Text : got[c][t] <= taken'[c][t] /\ got[c][t] <= toClient[c][t]
        BY <2>1, <2>3, <3>2, <3>3 DEF FirstJoin, NoCopies
      <3>. QED  BY <1>1, <2>1, <2>3, <3>1, <3>4 DEF FirstJoin
    <2>. QED  BY <2>2, <2>3
  <1>6. ASSUME NEW t \in Text  PROVE QueuedOnce(t)' /\ NotToAuthor(t)'
    BY <1>0, <1>1 DEF CopiesOK, QueuedOnce, NotToAuthor, Uncopied, Joins
  <1>7. ChatRemoteIsConnected'
    BY <1>0, <1>1, <1>4 DEF ChatRemoteIsConnected, TypeOK
  <1>8. \A x \in Client : LinesOK(x)'
    BY <1>0, <1>1, <1>4 DEF LinesOK
  <1>. QED  BY <1>3, <1>5, <1>6, <1>7, <1>8 DEF IInv, CopiesOK

LEMMA StepDisconnected ==
  ASSUME ChatAssumption, IInv, NEW c \in Client, on_peer_disconnected(c)
  PROVE  IInv'
  <1>0. TypeOK /\ ChatRemoteIsConnected /\ CopiesOK /\ \A x \in Client : LinesOK(x)
    BY DEF IInv
  <1>1. /\ UNCHANGED <<toServer, toClient, offered, requests, answers, remotes, outgoing,
                       served, blocked, heard, taken, main, attempts, lines, got>>
        /\ linked' = linked \ {c} /\ paired' = paired \ {c}
        /\ remote' = [remote EXCEPT ![c] = Nil]
    BY DEF on_peer_disconnected, channels, handshakes, server, Unlink, Cleared
  <1>2. TypeOK'
    BY <1>0, <1>1 DEF TypeOK
  <1>3. \A x \in Client : \A p : At(x, p)' <=> At(x, p)
    BY <1>1 DEF At
  <1>4. CopiesOK'
    BY <1>0, <1>1, Untouched
  <1>5. ChatRemoteIsConnected'
    BY <1>0, <1>1, <1>3 DEF ChatRemoteIsConnected, TypeOK, ChatAssumption
  <1>6. \A x \in Client : LinesOK(x)'
    BY <1>0, <1>1, <1>3 DEF LinesOK
  <1>. QED  BY <1>2, <1>4, <1>5, <1>6 DEF IInv

LEMMA StepReceived ==
  ASSUME ChatAssumption, IInv, NEW c \in Client, NEW t \in Text, on_message_received(c, t)
  PROVE  IInv'
  <1>0. TypeOK /\ ChatRemoteIsConnected /\ CopiesOK /\ \A x \in Client : LinesOK(x)
    BY DEF IInv
  <1>1. /\ UNCHANGED <<toServer, toClient, offered, paired, requests, answers, remotes,
                       outgoing, served, blocked, heard, linked, remote, main, attempts,
                       lines>>
        /\ taken[c][t] < toClient[c][t] /\ c \in linked
    BY DEF on_message_received, channels, pairing, handshakes, server, Untaken
  <1>2. /\ taken' = [taken EXCEPT ![c][t] = taken[c][t] + 1]
        /\ got' = [got EXCEPT ![c][t] = got[c][t] + 1]
        /\ taken \in [Client -> [Text -> Nat]] /\ got \in [Client -> [Text -> Nat]]
        /\ toClient \in [Client -> [Text -> Nat]]
    BY <1>0 DEF on_message_received, TypeOK
  <1>3. taken[c][t] + 1 \in Nat /\ got[c][t] + 1 \in Nat
    BY <1>2
  <1>4. taken' \in [Client -> [Text -> Nat]] /\ got' \in [Client -> [Text -> Nat]]
    BY <1>2, <1>3
  <1>5. /\ \A x \in Client : x # c => taken'[x] = taken[x] /\ got'[x] = got[x]
        /\ \A v \in Text : v # t => taken'[c][v] = taken[c][v] /\ got'[c][v] = got[c][v]
        /\ taken'[c][t] = taken[c][t] + 1 /\ got'[c][t] = got[c][t] + 1
    BY <1>2
  <1>6. TypeOK'
    BY <1>0, <1>1, <1>4 DEF TypeOK
  <1>7. \A x \in Client : \A p : At(x, p)' <=> At(x, p)
    BY <1>1 DEF At
  <1>8. \A x \in Client : Joins(x)' = Joins(x)
    BY <1>1 DEF Joins
  <1>9. ASSUME NEW x \in Client  PROVE FirstJoin(x)'
    <2>1. FirstJoin(x)
      BY <1>0 DEF CopiesOK
    <2>2. CASE x # c
      BY <1>1, <1>5, <1>8, <2>1, <2>2 DEF FirstJoin
    <2>3. CASE x = c
      <3>1. ~(Joins(c) <= 1 /\ (Joins(c) = 0 \/ c \in answers)) /\ ~(Joins(c) = 0)
        BY <1>1, <2>1, <2>3 DEF FirstJoin
      <3>2. ASSUME Joins(c) <= 1, NEW v \in Text
            PROVE  got'[c][v] <= taken'[c][v] /\ got'[c][v] <= toClient[c][v]
        <4>1. got[c][v] <= taken[c][v] /\ got[c][v] <= toClient[c][v]
          BY <2>1, <2>3, <3>2 DEF FirstJoin
        <4>2. /\ got[c][t] \in Nat /\ taken[c][t] \in Nat /\ toClient[c][t] \in Nat
          BY <1>2
        <4>. QED  BY <1>1, <1>5, <4>1, <4>2
      <3>. QED  BY <1>1, <1>8, <2>3, <3>1, <3>2 DEF FirstJoin
    <2>. QED  BY <2>2, <2>3
  <1>10. ASSUME NEW v \in Text  PROVE QueuedOnce(v)' /\ NotToAuthor(v)'
    <2>1. QueuedOnce(v) /\ NotToAuthor(v) /\ v[1] \in Client /\ NotToAuthor(t)
      BY <1>0, Texts DEF CopiesOK
    <2>2. QueuedOnce(v)'
      BY <1>1, <1>8, <2>1 DEF QueuedOnce, Uncopied
    <2>3. c # t[1]
      BY <1>1, <1>2, <2>1 DEF NotToAuthor
    <2>. QED  BY <1>1, <1>5, <2>1, <2>2, <2>3 DEF NotToAuthor
  <1>11. ChatRemoteIsConnected'
    BY <1>0, <1>1, <1>7 DEF ChatRemoteIsConnected
  <1>12. \A x \in Client : LinesOK(x)'
    BY <1>0, <1>1, <1>7 DEF LinesOK
  <1>. QED  BY <1>6, <1>9, <1>10, <1>11, <1>12 DEF IInv, CopiesOK

-----------------------------------------------------------------------------
(***************************************************************************)
(* The server.                                                             *)
(***************************************************************************)
LEMMA StepServerJoined ==
  ASSUME ChatAssumption, IInv, NEW c \in Client, server_on_peer_joined(c)
  PROVE  IInv'
  <1>0. TypeOK /\ ChatRemoteIsConnected /\ CopiesOK /\ \A x \in Client : LinesOK(x)
    BY DEF IInv
  <1>1. /\ UNCHANGED <<outgoing, blocked, paired, linked, taken, remote, main, attempts,
                       lines, got>>
        /\ remotes' = Append(remotes, c) /\ served' = served \cup {c}
        /\ requests' = requests \ {c} /\ answers' = answers \cup {c}
        /\ heard' = [heard EXCEPT ![c] = {}]
    BY DEF server_on_peer_joined, client, Listed
  <1>2. \/ /\ c \notin linked /\ offered' = offered \cup {c}
           /\ toServer' = [toServer EXCEPT ![c] = {}]
           /\ toClient' = [toClient EXCEPT ![c] = NoCopies]
        \/ UNCHANGED <<offered, toServer, toClient>>
    BY DEF server_on_peer_joined, channels
  <1>3. /\ toServer' \in [Client -> SUBSET Text]
        /\ \A x \in Client : toServer'[x] \subseteq toServer[x]
    BY <1>0, <1>2 DEF TypeOK
  <1>4. NoCopies \in [Text -> Nat] /\ \A t \in Text : NoCopies[t] = 0
    BY DEF NoCopies
  <1>5. /\ toClient' \in [Client -> [Text -> Nat]]
        /\ \A x \in Client : x # c => toClient'[x] = toClient[x]
        /\ toClient'[c] = toClient[c] \/ toClient'[c] = NoCopies
    <2>1. toClient \in [Client -> [Text -> Nat]]
      BY <1>0 DEF TypeOK
    <2>2. CASE toClient' = [toClient EXCEPT ![c] = NoCopies]
      BY <1>4, <2>1, <2>2
    <2>3. CASE toClient' = toClient
      BY <2>1, <2>3
    <2>. QED  BY <1>2, <2>2, <2>3
  <1>6. /\ heard' \in [Client -> SUBSET Text]
        /\ \A x \in Client : heard'[x] = IF x = c THEN {} ELSE heard[x]
    BY <1>0, <1>1 DEF TypeOK
  <1>7. /\ remotes' \in Seq(Client)
        /\ \A x \in Client : Joins(x)' = IF x = c THEN Joins(x) + 1 ELSE Joins(x)
        /\ \A x \in Client : Joins(x) \in Nat
    BY <1>0, <1>1, Listing, JoinsType
  <1>8. TypeOK'
    <2>1. /\ blocked' \subseteq served'
          /\ offered' \subseteq served' \ linked'
          /\ paired' \subseteq served' \cap linked'
          /\ served' \cup linked' \cup requests' \cup answers' \subseteq Client
      BY <1>0, <1>1, <1>2 DEF TypeOK
    <2>2. /\ outgoing' \in [Text -> Nat]
          /\ taken' \in [Client -> [Text -> Nat]]
          /\ remote' \in [Client -> {Server, Nil}]
          /\ main' \in [Client -> Place]
          /\ attempts' \in [Client -> Nat]
          /\ lines' \in [Client -> Nat]
          /\ got' \in [Client -> [Text -> Nat]]
      BY <1>0, <1>1 DEF TypeOK
    <2>. QED  BY <1>3, <1>5, <1>6, <1>7, <2>1, <2>2 DEF TypeOK
  <1>9. \A x \in Client : \A p : At(x, p)' <=> At(x, p)
    BY <1>1 DEF At
  <1>10. ASSUME NEW x \in Client, NEW t \in Text
         PROVE  /\ toClient[x][t] \in Nat /\ toClient'[x][t] \in Nat
                /\ toClient'[x][t] = toClient[x][t] \/ (x = c /\ toClient'[x][t] = 0)
    <2>1. toClient \in [Client -> [Text -> Nat]]
      BY <1>0 DEF TypeOK
    <2>2. toClient[x][t] \in Nat /\ toClient'[x][t] \in Nat
      BY <1>5, <2>1
    <2>3. CASE toClient'[x] = toClient[x]
      BY <2>2, <2>3
    <2>4. CASE x = c /\ toClient'[c] = NoCopies
      BY <1>4, <2>2, <2>4
    <2>. QED  BY <1>5, <2>3, <2>4
  <1>11. ASSUME NEW x \in Client  PROVE FirstJoin(x)'
    <2>1. FirstJoin(x)
      BY <1>0 DEF CopiesOK
    <2>2. CASE x # c
      BY <1>1, <1>5, <1>6, <1>7, <2>1, <2>2 DEF FirstJoin
    <2>3. CASE x = c
      <3>1. Joins(c)' # 0 /\ (Joins(c)' <= 1 => Joins(c) = 0)
        BY <1>7
      <3>2. Joins(c) = 0 => c \notin linked /\ got[c] = NoCopies
        BY <2>1, <2>3 DEF FirstJoin
      <3>3. ASSUME Joins(c) = 0, NEW t \in Text
            PROVE  got[c][t] <= taken[c][t] /\ got[c][t] <= toClient'[c][t]
        BY <1>4, <1>10, <2>1, <2>3, <3>2, <3>3 DEF FirstJoin
      <3>. QED  BY <1>1, <2>3, <3>1, <3>2, <3>3 DEF FirstJoin
    <2>. QED  BY <2>2, <2>3
  <1>12. ASSUME NEW t \in Text  PROVE QueuedOnce(t)' /\ NotToAuthor(t)'
    <2>1. QueuedOnce(t) /\ NotToAuthor(t) /\ t[1] \in Client /\ FirstJoin(t[1])
      BY <1>0, Texts DEF CopiesOK
    <2>2. NotToAuthor(t)'
      BY <1>1, <1>10, <2>1 DEF NotToAuthor
    <2>3. Uncopied(t) => Uncopied(t)'
      BY <1>10 DEF Uncopied
    <2>4. ASSUME Joins(t[1])' <= 1  PROVE QueuedOnce(t)'
      <3>1. Joins(t[1]) <= 1
        BY <1>7, <2>1, <2>4
      <3>2. t \notin heard'[t[1]] => t \notin heard[t[1]]
        BY <1>6, <1>7, <2>1, <2>4 DEF FirstJoin
      <3>3. ASSUME NEW x \in Client, Joins(x)' <= 1  PROVE toClient'[x][t] <= 1
        <4>1. Joins(x) <= 1
          BY <1>7, <3>3
        <4>. QED  BY <1>10, <2>1, <3>1, <4>1 DEF QueuedOnce
      <3>. QED  BY <1>1, <2>1, <2>3, <3>1, <3>2, <3>3 DEF QueuedOnce
    <2>. QED  BY <2>2, <2>4 DEF QueuedOnce
  <1>13. ChatRemoteIsConnected'
    BY <1>0, <1>1, <1>9 DEF ChatRemoteIsConnected
  <1>14. \A x \in Client : LinesOK(x)'
    BY <1>0, <1>1, <1>3, <1>6, <1>9 DEF LinesOK
  <1>. QED  BY <1>8, <1>11, <1>12, <1>13, <1>14 DEF IInv, CopiesOK

LEMMA StepServerDisconnected ==
  ASSUME ChatAssumption, IInv, NEW c \in Client, server_on_peer_disconnected(c)
  PROVE  IInv'
  <1>0. TypeOK /\ ChatRemoteIsConnected /\ CopiesOK /\ \A x \in Client : LinesOK(x)
    BY DEF IInv
  <1>1. /\ UNCHANGED <<toServer, toClient, requests, answers, remotes, outgoing, heard,
                       linked, taken, remote, main, attempts, lines, got>>
        /\ served' = served \ {c} /\ blocked' = blocked \ {c}
        /\ offered' = offered \ {c} /\ paired' = paired \ {c}
    BY DEF server_on_peer_disconnected, channels, client, handshakes
  <1>2. TypeOK'
    BY <1>0, <1>1 DEF TypeOK
  <1>3. \A x \in Client : \A p : At(x, p)' <=> At(x, p)
    BY <1>1 DEF At
  <1>4. CopiesOK'
    BY <1>0, <1>1, Untouched
  <1>5. ChatRemoteIsConnected'
    BY <1>0, <1>1, <1>3 DEF ChatRemoteIsConnected
  <1>6. \A x \in Client : LinesOK(x)'
    BY <1>0, <1>1, <1>3 DEF LinesOK
  <1>. QED  BY <1>2, <1>4, <1>5, <1>6 DEF IInv

LEMMA StepServerReceived ==
  ASSUME ChatAssumption, IInv, NEW c \in Client, NEW t \in Text,
         server_on_message_received(c, t)
  PROVE  IInv'
  <1>0. TypeOK /\ ChatRemoteIsConnected /\ CopiesOK /\ \A x \in Client : LinesOK(x)
    BY DEF IInv
  <1>1. /\ UNCHANGED <<toServer, toClient, offered, paired, requests, answers, remotes,
                       served, blocked, linked, taken, remote, main, attempts, lines, got>>
        /\ t \in toServer[c] /\ t \notin heard[c] /\ c \in served
        /\ heard' = [heard EXCEPT ![c] = heard[c] \cup {t}]
        /\ outgoing' = [outgoing EXCEPT ![t] = outgoing[t] + 1]
    BY DEF server_on_message_received, channels, client, handshakes, pairing
  <1>2. t[1] = c
    BY <1>0, <1>1 DEF LinesOK
  <1>3. /\ heard' \in [Client -> SUBSET Text]
        /\ \A x \in Client : heard'[x] = IF x = c THEN heard[c] \cup {t} ELSE heard[x]
        /\ outgoing' \in [Text -> Nat] /\ outgoing[t] \in Nat
        /\ \A v \in Text : outgoing'[v] = IF v = t THEN outgoing[t] + 1 ELSE outgoing[v]
    BY <1>0, <1>1 DEF TypeOK
  <1>4. TypeOK'
    BY <1>0, <1>1, <1>3 DEF TypeOK
  <1>5. /\ \A x \in Client : \A p : At(x, p)' <=> At(x, p)
        /\ \A x \in Client : Joins(x)' = Joins(x)
    BY <1>1 DEF At, Joins
  <1>6. ASSUME NEW x \in Client  PROVE FirstJoin(x)'
    <2>1. FirstJoin(x) /\ FirstJoin(c)
      BY <1>0 DEF CopiesOK
    <2>2. Joins(c) # 0
      BY <1>1, <2>1 DEF FirstJoin
    <2>. QED  BY <1>1, <1>3, <1>5, <2>1, <2>2 DEF FirstJoin
  <1>7. ASSUME NEW v \in Text  PROVE QueuedOnce(v)' /\ NotToAuthor(v)'
    <2>1. QueuedOnce(v) /\ NotToAuthor(v) /\ v[1] \in Client
      BY <1>0, Texts DEF CopiesOK
    <2>2. NotToAuthor(v)'
      BY <1>1, <2>1 DEF NotToAuthor
    <2>3. Joins(v[1])' = Joins(v[1]) /\ (Uncopied(v)' <=> Uncopied(v))
      BY <1>1, <1>5, <2>1 DEF Uncopied
    <2>4. ASSUME Joins(v[1])' <= 1
          PROVE  /\ outgoing'[v] <= 1
                 /\ v \notin heard'[v[1]] => outgoing'[v] = 0 /\ Uncopied(v)'
                 /\ outgoing'[v] > 0 => Uncopied(v)'
                 /\ \A x \in Client : Joins(x)' <= 1 => toClient'[x][v] <= 1
      <3>1. /\ outgoing[v] <= 1
            /\ v \notin heard[v[1]] => outgoing[v] = 0 /\ Uncopied(v)
            /\ outgoing[v] > 0 => Uncopied(v)
            /\ \A x \in Client : Joins(x) <= 1 => toClient[x][v] <= 1
        BY <2>1, <2>3, <2>4 DEF QueuedOnce
      <3>2. \A x \in Client : Joins(x)' <= 1 => toClient'[x][v] <= 1
        BY <1>1, <1>5, <3>1
      <3>3. CASE v = t
        <4>1. outgoing[v] = 0 /\ Uncopied(v)
          BY <1>1, <1>2, <3>1, <3>3
        <4>2. outgoing'[v] = 1 /\ v \in heard'[v[1]]
          BY <1>2, <1>3, <3>3, <4>1
        <4>. QED  BY <2>3, <3>2, <4>1, <4>2
      <3>4. CASE v # t
        <4>1. outgoing'[v] = outgoing[v] /\ (v \notin heard'[v[1]] => v \notin heard[v[1]])
          BY <1>3, <2>1, <3>4
        <4>. QED  BY <2>3, <3>1, <3>2, <4>1
      <3>. QED  BY <3>3, <3>4
    <2>. QED  BY <2>2, <2>4 DEF QueuedOnce
  <1>8. ChatRemoteIsConnected'
    BY <1>0, <1>1, <1>5 DEF ChatRemoteIsConnected
  <1>9. \A x \in Client : LinesOK(x)'
    BY <1>0, <1>1, <1>2, <1>3, <1>5 DEF LinesOK
  <1>. QED  BY <1>4, <1>6, <1>7, <1>8, <1>9 DEF IInv, CopiesOK

LEMMA Products ==
  ASSUME NEW a \in Nat, NEW b \in Nat
  PROVE  /\ a * b \in Nat
         /\ b = 0 => a * b = 0
         /\ a = 0 => a * b = 0
         /\ a <= 1 /\ b <= 1 => a * b <= 1
  <1>1. a * b \in Nat /\ a * 0 = 0 /\ 0 * b = 0 /\ 1 * b = b
    OBVIOUS
  <1>2. a <= 1 => a = 0 \/ a = 1
    OBVIOUS
  <1>. QED  BY <1>1, <1>2

LEMMA StepBroadcast ==
  ASSUME ChatAssumption, IInv, broadcast
  PROVE  IInv'
  <1>0. TypeOK /\ ChatRemoteIsConnected /\ CopiesOK /\ \A x \in Client : LinesOK(x)
    BY DEF IInv
  <1>1. /\ UNCHANGED <<toServer, offered, paired, requests, answers, remotes, served,
                       heard, linked, taken, remote, main, attempts, lines, got>>
        /\ outgoing' = NoCopies /\ outgoing' \in [Text -> Nat]
        /\ \A t \in Text : outgoing'[t] = 0
    BY DEF broadcast, client, handshakes, pairing, NoCopies
  <1>2. \A x \in Client, t \in Text :
          /\ Copies(x, t) \in Nat /\ outgoing[t] \in Nat /\ toClient[x][t] \in Nat
          /\ Copies(x, t) > 0 => x \in served /\ x # t[1]
          /\ Copies(x, t) = 0 \/ Copies(x, t) = Joins(x)
    <2>1. outgoing \in [Text -> Nat] /\ toClient \in [Client -> [Text -> Nat]]
      BY <1>0 DEF TypeOK
    <2>2. \A x \in Client : Joins(x) \in Nat
      BY <1>0, JoinsType
    <2>3. ASSUME NEW x \in Client, NEW t \in Text
          PROVE  /\ Copies(x, t) \in Nat
                 /\ Copies(x, t) > 0 => x \in served /\ x # t[1]
                 /\ Copies(x, t) = 0 \/ Copies(x, t) = Joins(x)
      BY <2>2 DEF Copies
    <2>. QED  BY <2>1, <2>3
  <1>3. \A x \in Client, t \in Text :
          /\ outgoing[t] * Copies(x, t) \in Nat
          /\ Copies(x, t) = 0 => outgoing[t] * Copies(x, t) = 0
          /\ outgoing[t] = 0 => outgoing[t] * Copies(x, t) = 0
          /\ outgoing[t] <= 1 /\ Copies(x, t) <= 1 => outgoing[t] * Copies(x, t) <= 1
    <2>. SUFFICES ASSUME NEW x \in Client, NEW t \in Text
                  PROVE  /\ outgoing[t] * Copies(x, t) \in Nat
                         /\ Copies(x, t) = 0 => outgoing[t] * Copies(x, t) = 0
                         /\ outgoing[t] = 0 => outgoing[t] * Copies(x, t) = 0
                         /\ outgoing[t] <= 1 /\ Copies(x, t) <= 1
                              => outgoing[t] * Copies(x, t) <= 1
      OBVIOUS
    <2>1. outgoing[t] \in Nat /\ Copies(x, t) \in Nat
      BY <1>2
    <2>. QED  BY <2>1, Products
  <1>4. ASSUME NEW x \in Client, NEW t \in Text
        PROVE  /\ toClient'[x][t] \in Nat
               /\ \/ toClient'[x][t] = toClient[x][t]
                  \/ toClient'[x][t] = toClient[x][t] + outgoing[t] * Copies(x, t)
    BY <1>2, <1>3 DEF broadcast
  <1>5. toClient' \in [Client -> [Text -> Nat]]
    <2>1. \A x \in Client, t \in Text :
            toClient[x][t] + (IF Arrives(Broadcast(t)) THEN outgoing[t] * Copies(x, t) ELSE 0)
              \in Nat
      BY <1>2, <1>3
    <2>. QED  BY <2>1 DEF broadcast
  <1>6. blocked' \subseteq served
    <2>1. blocked' = blocked \cup
            {x \in Client : \E t \in Text :
               /\ outgoing[t] * Copies(x, t) > 0
               /\ Accepts(Broadcast(t)) /\ ~Arrives(Broadcast(t))}
      BY DEF broadcast
    <2>2. ASSUME NEW x \in Client, NEW t \in Text, outgoing[t] * Copies(x, t) > 0
          PROVE  x \in served
      BY <1>2, <1>3, <2>2
    <2>. QED  BY <1>0, <2>1, <2>2 DEF TypeOK
  <1>7. TypeOK'
    BY <1>0, <1>1, <1>5, <1>6 DEF TypeOK
  <1>8. /\ \A x \in Client : \A p : At(x, p)' <=> At(x, p)
        /\ \A x \in Client : Joins(x)' = Joins(x) /\ Joins(x) \in Nat
    BY <1>0, <1>1, JoinsType DEF At, Joins
  <1>9. ASSUME NEW x \in Client, NEW t \in Text
        PROVE  toClient[x][t] \in Nat /\ toClient'[x][t] >= toClient[x][t]
    BY <1>2, <1>3, <1>4
  <1>10. ASSUME NEW x \in Client  PROVE FirstJoin(x)'
    <2>1. FirstJoin(x)
      BY <1>0 DEF CopiesOK
    <2>2. \A t \in Text : got[x][t] \in Nat
      BY <1>0 DEF TypeOK
    <2>3. ASSUME NEW t \in Text, got[x][t] <= toClient[x][t]
          PROVE  got[x][t] <= toClient'[x][t]
      BY <1>4, <1>9, <2>2, <2>3
    <2>. QED  BY <1>1, <1>8, <2>1, <2>3 DEF FirstJoin
  <1>11. ASSUME NEW t \in Text  PROVE QueuedOnce(t)' /\ NotToAuthor(t)'
    <2>1. QueuedOnce(t) /\ NotToAuthor(t) /\ t[1] \in Client
      BY <1>0, Texts DEF CopiesOK
    <2>2. NotToAuthor(t)'
      BY <1>1, <1>2, <1>3, <1>4, <2>1 DEF NotToAuthor
    <2>3. outgoing[t] = 0 => \A x \in Client : toClient'[x][t] = toClient[x][t]
      BY <1>2, <1>3, <1>4
    <2>4. ASSUME Joins(t[1]) <= 1  PROVE QueuedOnce(t)'
      <3>1. ASSUME NEW x \in Client, Joins(x) <= 1  PROVE toClient'[x][t] <= 1
        <4>1. CASE outgoing[t] = 0
          BY <2>1, <2>3, <2>4, <3>1, <4>1 DEF QueuedOnce
        <4>2. CASE outgoing[t] # 0
          <5>1. outgoing[t] > 0 /\ outgoing[t] <= 1 /\ toClient[x][t] = 0
            BY <1>2, <2>1, <2>4, <4>2 DEF QueuedOnce, Uncopied
          <5>2. Copies(x, t) <= 1
            BY <1>2, <3>1
          <5>. QED  BY <1>2, <1>3, <1>4, <5>1, <5>2
        <4>. QED  BY <4>1, <4>2
      <3>2. t \notin heard[t[1]] => Uncopied(t)'
        BY <2>1, <2>3, <2>4 DEF QueuedOnce, Uncopied
      <3>. QED  BY <1>1, <1>8, <3>1, <3>2 DEF QueuedOnce
    <2>. QED  BY <1>8, <2>1, <2>2, <2>4 DEF QueuedOnce
  <1>12. ChatRemoteIsConnected'
    BY <1>0, <1>1, <1>8 DEF ChatRemoteIsConnected
  <1>13. \A x \in Client : LinesOK(x)'
    BY <1>0, <1>1, <1>8 DEF LinesOK
  <1>. QED  BY <1>7, <1>10, <1>11, <1>12, <1>13 DEF IInv, CopiesOK

-----------------------------------------------------------------------------
(***************************************************************************)
(* The theorems.                                                           *)
(***************************************************************************)
LEMMA StepInit ==
  ASSUME ChatAssumption, Init
  PROVE  IInv
  <1>1. /\ NoCopies \in [Text -> Nat] /\ [at |-> "prompt"] \in Place
        /\ \A t \in Text : NoCopies[t] = 0
    BY DEF NoCopies, Place
  <1>2. TypeOK
    BY <1>1 DEF Init, TypeOK
  <1>3. ChatRemoteIsConnected
    BY DEF Init, ChatRemoteIsConnected, ChatAssumption
  <1>4. \A c \in Client, t \in Text :
          got[c][t] = 0 /\ taken[c][t] = 0 /\ toClient[c][t] = 0 /\ outgoing[t] = 0
    BY <1>1 DEF Init
  <1>5. \A c \in Client : FirstJoin(c)
    BY <1>4 DEF Init, FirstJoin
  <1>6. \A t \in Text : QueuedOnce(t) /\ NotToAuthor(t)
    BY <1>4, Texts DEF QueuedOnce, NotToAuthor, Uncopied
  <1>7. \A c \in Client : LinesOK(c)
    BY DEF Init, LinesOK, At, ChatAssumption
  <1>. QED  BY <1>2, <1>3, <1>5, <1>6, <1>7 DEF IInv, CopiesOK

LEMMA StepStutter ==
  ASSUME ChatAssumption, IInv, UNCHANGED vars
  PROVE  IInv'
  <1>1. UNCHANGED <<toServer, toClient, offered, paired, requests, answers, remotes,
                    outgoing, served, blocked, heard, linked, taken, remote, main,
                    attempts, lines, got>>
    BY DEF vars, channels, pairing, handshakes, server, client
  <1>2. TypeOK'
    BY <1>1 DEF IInv, TypeOK
  <1>3. CopiesOK'
    BY <1>1, Parts, Untouched
  <1>4. ChatRemoteIsConnected' /\ \A c \in Client : LinesOK(c)'
    BY <1>1 DEF IInv, ChatRemoteIsConnected, LinesOK, At
  <1>. QED  BY <1>2, <1>3, <1>4 DEF IInv

LEMMA StepInv ==
  ASSUME ChatAssumption, IInv, [Next]_vars
  PROVE  IInv'
  <1>1. ASSUME NEW c \in Client, Main(c)  PROVE IInv'
    BY <1>1, StepCommand, StepText, StepSendReliable, StepTest, StepCall, StepForget,
       StepConnect, StepDies DEF Main
  <1>2. ASSUME NEW c \in Client, Background(c)  PROVE IInv'
    BY <1>2, StepJoined, StepDisconnected, StepReceived DEF Background
  <1>3. ASSUME ServerLoop  PROVE IInv'
    BY <1>3, StepBroadcast, StepServerJoined, StepServerDisconnected, StepServerReceived
       DEF ServerLoop
  <1>. QED  BY <1>1, <1>2, <1>3, StepStutter DEF Next

\* With one connection each, no more copies are sent to a client than one, and
\* it takes none twice.
LEMMA InvHearsOnce ==
  ASSUME ChatAssumption, IInv
  PROVE  HeardOnce
  <1>. SUFFICES ASSUME NEW c \in Client, NEW t \in Text
                PROVE  IF c = t[1] THEN got[c][t] = 0
                       ELSE Joins(c) <= 1 /\ Joins(t[1]) <= 1 => got[c][t] <= 1
    BY DEF HeardOnce
  <1>1. FirstJoin(c) /\ QueuedOnce(t) /\ NotToAuthor(t) /\ t[1] \in Client
    BY Texts DEF IInv, CopiesOK
  <1>2. got[c][t] \in Nat /\ toClient[c][t] \in Nat
    BY DEF IInv, TypeOK
  <1>. QED  BY <1>1, <1>2 DEF FirstJoin, QueuedOnce, NotToAuthor

\* The inductive invariant holds of every behaviour.
THEOREM Invariance == ChatAssumption /\ Spec => []IInv
  <1>. SUFFICES ASSUME ChatAssumption PROVE Spec => []IInv
    OBVIOUS
  <1>1. Init => IInv
    BY StepInit
  <1>2. IInv /\ [Next]_vars => IInv'
    BY StepInv
  <1>. QED  BY <1>1, <1>2, PTL DEF Spec

\* Every variable holds values of its kind, and no end is paired that either
\* side has lost.
THEOREM TypeCorrect == ChatAssumption /\ Spec => []TypeOK
  BY Invariance, PTL DEF IInv

\* However the two threads of a chat_client interleave, a remote that is set is
\* one the session has a connection with, except between the disconnect and the
\* memset of do_disconnect.
THEOREM RemotesAreConnected == ChatAssumption /\ Spec => []ChatRemoteIsConnected
  BY Invariance, PTL DEF IInv

\* A client gets its own text never, and a text of another (the loop of
\* chat_server that sends to every remote) once at most as long as the server
\* has made one connection with either.
THEOREM TextsComeOnce == ChatAssumption /\ Spec => []HeardOnce
  <1>. SUFFICES ASSUME ChatAssumption PROVE Spec => []HeardOnce
    OBVIOUS
  <1>1. IInv => HeardOnce
    BY InvHearsOnce
  <1>. QED  BY <1>1, Invariance, PTL
=============================================================================

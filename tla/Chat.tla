--------------------------------- MODULE Chat ---------------------------------
(***************************************************************************)
(* chat_server and its chat_clients.  A client has two threads on one      *)
(* session and no lock: main takes commands, background calls update.  The *)
(* server is one thread, with a list of remotes and a queue of texts.      *)
(*                                                                         *)
(* The sessions are abstract.  Each side has a connection with the other   *)
(* or has not, and takes each reliable message of the other once with each *)
(* connection: one that it took before it lost its connection, too,        *)
(* because the other side sends it again until it is acknowledged.  While  *)
(* the two have ends of one connection that was made in quiet (paired, see *)
(* Connection), what they send arrives.                                    *)
(***************************************************************************)
EXTENDS Integers, Sequences, FiniteSets

CONSTANTS
  Client,    \* the clients, by the uuid of their session
  Server,    \* the uuid of the server's session
  Nil,       \* the nil uuid
  Attempts,  \* attempts_left at the start of do_connect
  MaxLines,  \* [Client -> Nat] bound: lines each user types
  MaxJoins,  \* [Client -> Nat] bound: connections the server makes with each
  Length     \* [Text -> Nat] the characters of each text

\* A text is its author and the number of the line.
Text == UNION {{c} \X (0 .. MaxLines[c] - 1) : c \in Client}

\* Assumed by the modules that give the constants their values.
ChatAssumption ==
  /\ Nil # Server
  /\ Attempts \in Nat
  /\ MaxLines \in [Client -> Nat]
  /\ MaxJoins \in [Client -> Nat]
  /\ Length \in [Text -> Nat]

VARIABLES
  remotes,   \* Seq(Client) the server's list
  outgoing,  \* [Text -> Nat] the server's queue; the order of it is not observed
  served,    \* the clients that the server's session has a connection with
  blocked,   \* the ones whose connection holds a message that cannot arrive
  linked,    \* the clients whose session has a connection with the server
  offered,   \* the clients whose connection at the server was made in quiet and
             \* waits for the client's side
  paired,    \* the clients for which both sides are ends of such a connection
  requests,  \* the clients whose connection_request is in transit
  answers,   \* the clients to whom a connection_accepted is in transit
  toServer,  \* [Client -> SUBSET Text] what may arrive at the server
  toClient,  \* [Client -> [Text -> Nat]] copies that may arrive at the client
  heard,     \* [Client -> SUBSET Text] taken by the server's last connection
  taken,     \* [Client -> [Text -> Nat]] copies taken by the client's last one
  remote,    \* [Client -> {Server, Nil}] shared by the threads of the client
  main,      \* [Client -> Place] where the main thread is
  attempts,  \* [Client -> Nat] attempts_left, 0 outside do_connect
  lines,     \* [Client -> Nat] lines typed so far
  got        \* [Client -> [Text -> Nat]] history: copies received

channels == <<toServer, toClient>>
pairing == <<offered, paired>>
handshakes == <<requests, answers>>
server == <<remotes, outgoing, served, blocked, heard>>
client == <<linked, taken, remote, main, attempts, lines, got>>
vars == <<channels, pairing, handshakes, server, client>>

NoCopies == [t \in Text |-> 0]

(***************************************************************************)
(* Where the other thread can find the main thread: at the prompt, in      *)
(* do_disconnect before the test of remote, in the disconnect of the       *)
(* session or before the memset, in the loop of do_connect, or in          *)
(* send_reliable.  do_disconnect goes on to the prompt or to the loop.     *)
(***************************************************************************)
Place ==
       [at : {"prompt", "connect", "send", "dead"}]
  \cup [at : {"test", "disconnect", "forget"}, then : {"prompt", "connect"}]

At(c, place) == main[c].at = place

Go(c, place) == main' = [main EXCEPT ![c] = [at |-> place]]

Stay(c, place) == main' = [main EXCEPT ![c].at = place]

Joins(c) == Cardinality({i \in DOMAIN remotes : remotes[i] = c})

-----------------------------------------------------------------------------
(***************************************************************************)
(* Sizes.  A text is sent with its final zero.  The server sends it as     *)
(* "[uuid] text\n", which is 40 characters more.                           *)
(***************************************************************************)
maximum_transmission_unit == 800

Typed(t) == Length[t] + 1

Broadcast(t) == Length[t] + 41

\* Otherwise send_reliable returns and says nothing.
Accepts(bytes) == bytes + 3 <= maximum_transmission_unit

\* Otherwise the message with its header is larger than any packet received,
\* and is sent again for ever (see ReliableMessenger).
Arrives(bytes) == bytes + 5 <= maximum_transmission_unit

Init ==
  /\ remotes = <<>>
  /\ outgoing = NoCopies
  /\ served = {} /\ blocked = {} /\ linked = {}
  /\ offered = {} /\ paired = {}
  /\ requests = {} /\ answers = {}
  /\ toServer = [c \in Client |-> {}]
  /\ toClient = [c \in Client |-> NoCopies]
  /\ heard = [c \in Client |-> {}]
  /\ taken = [c \in Client |-> NoCopies]
  /\ remote = [c \in Client |-> Nil]
  /\ main = [c \in Client |-> [at |-> "prompt"]]
  /\ attempts = [c \in Client |-> 0]
  /\ lines = [c \in Client |-> 0]
  /\ got = [c \in Client |-> NoCopies]

\* The session of c has no connection any more.  The server's goes on, and what
\* either has sent may still arrive at the next connection of the other.
Unlink(c) ==
  /\ linked' = linked \ {c}
  /\ paired' = paired \ {c}

-----------------------------------------------------------------------------
(***************************************************************************)
(* The main thread of a client.                                            *)
(***************************************************************************)
\* The user types connect or disconnect.
command(c) ==
  /\ At(c, "prompt")
  /\ lines[c] < MaxLines[c]
  /\ lines' = [lines EXCEPT ![c] = @ + 1]
  /\ \E then \in {"prompt", "connect"} :
       /\ main' = [main EXCEPT ![c] = [at |-> "test", then |-> then]]
       /\ attempts' = [attempts EXCEPT ![c] = IF then = "connect" THEN Attempts ELSE 0]
  /\ UNCHANGED <<channels, pairing, handshakes, server, linked, taken, remote, got>>

\* The user types a text, which is for nobody if remote is nil.
text(c) ==
  /\ At(c, "prompt")
  /\ lines[c] < MaxLines[c]
  /\ lines' = [lines EXCEPT ![c] = @ + 1]
  /\ Go(c, IF remote[c] = Nil THEN "prompt" ELSE "send")
  /\ UNCHANGED <<channels, pairing, handshakes, server, linked, taken, remote, attempts, got>>

\* send_reliable to what remote is by now; find_connection may find nothing.
send_reliable(c) ==
  LET t == <<c, lines[c] - 1>>
  IN  /\ At(c, "send")
      /\ toServer' = IF remote[c] = Server /\ c \in linked /\ Arrives(Typed(t))
                       THEN [toServer EXCEPT ![c] = @ \cup {t}]
                       ELSE toServer
      /\ Go(c, "prompt")
      /\ UNCHANGED <<toClient, pairing, handshakes, server, linked, taken, remote,
                     attempts, lines, got>>

\* do_disconnect tests remote ...
do_disconnect_Test(c) ==
  /\ At(c, "test")
  /\ IF remote[c] = Nil THEN Go(c, main[c].then) ELSE Stay(c, "disconnect")
  /\ UNCHANGED <<channels, pairing, handshakes, server, linked, taken, remote,
                 attempts, lines, got>>

\* ... calls disconnect with what it is by now ...
do_disconnect_Call(c) ==
  /\ At(c, "disconnect")
  /\ IF remote[c] = Server THEN Unlink(c) ELSE UNCHANGED <<linked, paired>>
  /\ Stay(c, "forget")
  /\ UNCHANGED <<channels, offered, handshakes, server, taken, remote, attempts, lines, got>>

\* ... and sets it to nil, whatever it is by now.
do_disconnect_Forget(c) ==
  /\ At(c, "forget")
  /\ remote' = [remote EXCEPT ![c] = Nil]
  /\ Go(c, main[c].then)
  /\ UNCHANGED <<channels, pairing, handshakes, server, linked, taken, attempts, lines, got>>

\* Mutant: attempts_left is not tested.
TriesAgain_Always(c) == remote[c] = Nil

TriesAgain(c) == attempts[c] > 0 /\ remote[c] = Nil

\* The loop of do_connect: a try_connect, or the end of it.
do_connect(c) ==
  /\ At(c, "connect")
  /\ IF TriesAgain(c)
       THEN /\ requests' = requests \cup {c}
            /\ attempts' = [attempts EXCEPT ![c] = @ - 1]
            /\ UNCHANGED main
       ELSE /\ Go(c, "prompt")
            /\ attempts' = [attempts EXCEPT ![c] = 0]
            /\ UNCHANGED requests
  /\ UNCHANGED <<channels, pairing, answers, server, linked, taken, remote, lines, got>>

\* exit leaves loop with the background thread running, and the process ends.
\* So it may end where both threads are in the session at once: there the code
\* has no defined behaviour, and either a call takes effect as above, or this.
dies(c) ==
  /\ At(c, "prompt") \/ At(c, "disconnect") \/ At(c, "send")
  /\ Go(c, "dead")
  /\ Unlink(c)
  /\ UNCHANGED <<channels, offered, handshakes, server, taken, remote, attempts, lines, got>>

-----------------------------------------------------------------------------
(***************************************************************************)
(* The background thread: session.update and the callbacks it makes.       *)
(***************************************************************************)
on_peer_joined(c) ==
  /\ ~At(c, "dead")
  /\ c \in answers \ linked
  /\ answers' = answers \ {c}
  /\ linked' = linked \cup {c}
  /\ offered' = offered \ {c}
  /\ paired' = paired \cup ({c} \cap offered)
  /\ taken' = [taken EXCEPT ![c] = NoCopies]
  /\ remote' = [remote EXCEPT ![c] = Server]
  /\ UNCHANGED <<channels, requests, server, main, attempts, lines, got>>

\* Mutant: the callback leaves remote as it is.
Cleared_Not(c) == remote

Cleared(c) == [remote EXCEPT ![c] = Nil]

\* A disconnecting was received or the connection timed out.
on_peer_disconnected(c) ==
  /\ ~At(c, "dead")
  /\ c \in linked
  /\ Unlink(c)
  /\ remote' = Cleared(c)
  /\ UNCHANGED <<channels, offered, handshakes, server, taken, main, attempts, lines, got>>

\* Mutant: a connection takes what it took before.
Untaken_Always(c, t) == toClient[c][t] > 0

\* A copy of t may arrive that the connection of c has not taken.
Untaken(c, t) == taken[c][t] < toClient[c][t]

on_message_received(c, t) ==
  /\ c \in linked
  /\ Untaken(c, t)
  /\ taken' = [taken EXCEPT ![c][t] = @ + 1]
  /\ got' = [got EXCEPT ![c][t] = @ + 1]
  /\ UNCHANGED <<channels, pairing, handshakes, server, linked, remote, main, attempts, lines>>

-----------------------------------------------------------------------------
(***************************************************************************)
(* The server: the callbacks of its update, and the rest of its loop.      *)
(***************************************************************************)
\* Mutant: the server, like a client, has only the last one that joined.
Listed_Last(c) == <<c>>

Listed(c) == Append(remotes, c)

\* In quiet nothing that was sent before can arrive any more.
server_on_peer_joined(c) ==
  /\ c \in requests \ served
  /\ Joins(c) < MaxJoins[c]
  /\ requests' = requests \ {c}
  /\ answers' = answers \cup {c}
  /\ served' = served \cup {c}
  /\ remotes' = Listed(c)
  /\ heard' = [heard EXCEPT ![c] = {}]
  /\ \/ /\ c \notin linked
        /\ offered' = offered \cup {c}
        /\ toServer' = [toServer EXCEPT ![c] = {}]
        /\ toClient' = [toClient EXCEPT ![c] = NoCopies]
     \/ UNCHANGED <<offered, channels>>
  /\ UNCHANGED <<outgoing, blocked, paired, client>>

\* remotes is not touched.
server_on_peer_disconnected(c) ==
  /\ c \in served
  /\ served' = served \ {c}
  /\ blocked' = blocked \ {c}
  /\ offered' = offered \ {c}
  /\ paired' = paired \ {c}
  /\ UNCHANGED <<channels, handshakes, remotes, outgoing, heard, client>>

server_on_message_received(c, t) ==
  /\ c \in served
  /\ t \in toServer[c] \ heard[c]
  /\ heard' = [heard EXCEPT ![c] = @ \cup {t}]
  /\ outgoing' = [outgoing EXCEPT ![t] = @ + 1]
  /\ UNCHANGED <<channels, pairing, handshakes, remotes, served, blocked, client>>

\* Mutant: the author gets its text back.
Copies_Echo(c, t) == IF c \in served THEN Joins(c) ELSE 0

\* How often t is passed to send_reliable for a connection with c: for every
\* entry of remotes but the author's.
Copies(c, t) == IF c \in served /\ c # t[1] THEN Joins(c) ELSE 0

\* The queue is emptied before update is called again.
broadcast ==
  /\ outgoing # NoCopies
  /\ outgoing' = NoCopies
  /\ toClient' = [c \in Client |-> [t \in Text |->
       toClient[c][t] + (IF Arrives(Broadcast(t)) THEN outgoing[t] * Copies(c, t) ELSE 0)]]
  /\ blocked' = blocked \cup
       {c \in Client : \E t \in Text :
          /\ outgoing[t] * Copies(c, t) > 0
          /\ Accepts(Broadcast(t)) /\ ~Arrives(Broadcast(t))}
  /\ UNCHANGED <<toServer, pairing, handshakes, remotes, served, heard, client>>

-----------------------------------------------------------------------------
Main(c) ==
  \/ command(c)
  \/ text(c)
  \/ send_reliable(c)
  \/ do_disconnect_Test(c)
  \/ do_disconnect_Call(c)
  \/ do_disconnect_Forget(c)
  \/ do_connect(c)
  \/ dies(c)

Background(c) ==
  \/ on_peer_joined(c)
  \/ on_peer_disconnected(c)
  \/ \E t \in Text : on_message_received(c, t)

ServerLoop ==
  \/ broadcast
  \/ \E c \in Client :
       \/ server_on_peer_joined(c)
       \/ server_on_peer_disconnected(c)
       \/ \E t \in Text : server_on_message_received(c, t)

Next == ServerLoop \/ \E c \in Client : Main(c) \/ Background(c)

\* What is sent to c arrives.
Reached(c) == c \in paired \ blocked

(***************************************************************************)
(* Fairness: the loops of the server and of the background threads never   *)
(* stop, and what is sent on a connection that lasts, with a window that   *)
(* no message stays in for ever, arrives.                                  *)
(***************************************************************************)
Fairness ==
  /\ WF_vars(broadcast)
  /\ \A c \in Client : WF_vars(Reached(c) /\ \E t \in Text : on_message_received(c, t))

Spec == Init /\ [][Next]_vars /\ Fairness

-----------------------------------------------------------------------------
(***************************************************************************)
(* Properties.                                                             *)
(***************************************************************************)
\* Every variable holds values of its kind.
TypeOK ==
  /\ remotes \in Seq(Client)
  /\ outgoing \in [Text -> Nat]
  /\ blocked \subseteq served
  /\ offered \subseteq served \ linked
  /\ paired \subseteq served \cap linked
  /\ served \cup linked \cup requests \cup answers \subseteq Client
  /\ toServer \in [Client -> SUBSET Text]
  /\ toClient \in [Client -> [Text -> Nat]]
  /\ heard \in [Client -> SUBSET Text]
  /\ taken \in [Client -> [Text -> Nat]]
  /\ remote \in [Client -> {Server, Nil}]
  /\ main \in [Client -> Place]
  /\ attempts \in [Client -> Nat]
  /\ lines \in [Client -> Nat]
  /\ got \in [Client -> [Text -> Nat]]

\* A client whose remote is set has a connection with it, however its threads
\* interleave, except between the disconnect and the memset of do_disconnect.
\* (The converse fails: the memset may hit a remote that was set in between.)
ChatRemoteIsConnected ==
  \A c \in Client :
    remote[c] = Server => c \in linked \/ At(c, "forget") \/ At(c, "dead")

\* A client never gets its own text, and a text of another once at most as long
\* as the server has made one connection with either.  (Else the client may be
\* listed twice, and what one end lost before it was acknowledged comes again.)
HeardOnce ==
  \A c \in Client, t \in Text :
    IF c = t[1] THEN got[c][t] = 0
                ELSE Joins(c) <= 1 /\ Joins(t[1]) <= 1 => got[c][t] <= 1

\* A text the server has received reaches every other client that it has a
\* lasting connection with, however often that client joined and left before,
\* if it fits into a packet with what the server adds to it, and no text that
\* did not fit was sent to that client before.
EveryoneHears ==
  \A c \in Client : \A t \in Text :
    c # t[1] /\ Arrives(Broadcast(t)) =>
      ((outgoing[t] > 0 /\ Reached(c)) ~> (got[c][t] > 0 \/ ~Reached(c)))
=============================================================================

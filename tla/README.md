# Verification of netmod

netmod is a small C++ library (about 2,900 lines) for exchanging messages over
UDP: sessions that connect to each other, and two kinds of reliable messages
per connection, with two pairs of programs that use it. This directory holds
TLA+ models of the library and the programs, the TLC runs that check them, and
TLAPS proofs about every part.

## 1. Inventory

| Part | Source | State | Operations | Status |
|---|---|---|---|---|
| sequence numbers | `network_session.h:218-231, 271-284` | none | `modulus_distance`, `% window_size`, `uint8_t` increments | modelled |
| `stream_messenger` | `stream_messenger.cpp` | three 8-bit numbers, 16 window slots, a queue, an allocator, two times | `send`, `update`, `receive_message`, `receive_ack` | modelled, proved |
| `reliable_messenger` | `reliable_messenger.cpp` | as above and two 16-bit statuses | as above | modelled, proved |
| `circular_allocator` | `circular_allocator.h` | a byte buffer, two offsets, a byte count | `create`, `destroy`, `push_back`, `pop_front`, `reset`, copy | modelled except moves, proved |
| `connection` | `connection.cpp` | address and uuid of the remote, its two messengers, ping time, `_disconnected` | `receive_message` (dispatch), `update` (timeout, messengers, ping), `send_*` | modelled except copies, proved |
| `network_session` | `network_session.cpp` | uuid, password, limit, the vector of connections, a socket | `create`, `destroy`, `try_connect`, `disconnect`, `send_*`, `query`, `update` | modelled, proved |
| `udp_socket`, the network | `network.h` | - | `send` (may drop), `try_receive` | as an environment |
| `bit_stream` | `bit_stream.h` | a buffer, `_seek`, `_bit_offset` | `attach`, `write_uint`, `read_uint`, `fast_write`, `fast_read` | modelled, proved |
| `uuid`, `ip_address`, timer | `uuid.h`, `network.h` | - | random ids, sockaddr, clock | not modelled |
| `chat_server`, `chat_client` | `chat_*.cpp` | a list of remotes and a queue; one remote and two threads | callbacks, the main loops | modelled, proved |
| `stress_server`, `stress_client` | `stress_*.cpp` | the numbers received; one remote, two threads and a lock | callbacks, the burst | modelled, proved |

How they interact. An application calls `network_session::update` in a loop.
`receive_packets` reads every datagram that has arrived and hands it to the
connection with its sender's address, or to `handle_unconnected_packet` if there
is none. A connection hands it to one of its messengers or answers it. Then
`update_connections` runs `connection::update` on each, which times out, drains
queues, resends and pings, and erases the connections that are disconnected.
The application hears of all of this by callbacks, on the same thread. A messenger
keeps the bytes of its packets in a circular allocator: `send` takes a block at
the back, `receive_ack` frees blocks at the front, once for every message that
is acknowledged. Nothing is persistent.

What is hard. UDP loses, repeats and reorders; the numbers are 8 bits wide and
wrap; acknowledgements ride on several kinds of packets and may be older than what is
known; a lost acknowledgement is not repeated except by a ping; the allocator
frees by age, the window by number; the ring of bytes has gaps at its end and
is full or empty at the same offsets; a connection is made by each side on its
own, so one side may have it and the other not; a session may come back under
the same address with another uuid; packets do not say which connection they
belong to. The client programs share a session and `remote` between two
threads, chat_client without any lock, stress_client with one that covers only the
burst and `update`.

What makes each part correct: the messengers deliver once (and in order), in the
end everything, and free nothing too early; the allocator's blocks stay apart and
are found again; sessions have at most one connection with a peer, admitted by
password, tell the application exactly what they have and, when a connection is made
in quiet, converse with one connection of the other side; an end that is alone is given
up; a program's `remote` is a peer it is connected with, and what fits into a packet
reaches everyone who stays.

## 2. Modules

| Module | Models | Composes |
|---|---|---|
| `SeqNum` | numbers modulo `MaxSeq + 1`, slots, distances | |
| `FifoChannel` | what a stream promises: in order, once, memory released after delivery | |
| `StreamMessenger` | the stream messengers of both ends and the network between them | `SeqNum`, implements `FifoChannel` |
| `ExactlyOnceChannel` | what a reliable messenger promises: once, in any order | |
| `ReliableMessenger` | the reliable messengers of both ends and the network | `SeqNum`, implements `ExactlyOnceChannel` |
| `CircularAllocator` | one allocator, byte by byte | |
| `NetworkSession` | the sessions of several processes, the handshake, pings, timeouts, callbacks | |
| `Connection` | two sessions and the connection between them: the handshake, the counts of both messengers, both silences | what `NetworkSession` and the messengers do for one pair |
| `BitStream` | a stream that writes fields into a buffer and one that reads them | |
| `Chat` | chat_server and chat_clients over abstract sessions | |
| `StressTest` | stress_servers and stress_clients over abstract sessions | |
| `Applications` | either pair of programs, and the properties of both | extends `StressTest`, instantiates `Chat` |
| `SeqNumProofs` | lemmas on numbers and distances | `SeqNum` |
| `StreamMessengerProofs`, `ReliableMessengerProofs`, `NetworkSessionProofs`, `ConnectionProofs`, `ChatProofs`, `ApplicationsProofs` | theorems about the module of that name | `ApplicationsProofs` also proves those of `StressTest` and instantiates `ChatProofs` |
| `BufferProofs` | theorems about the memory of packets | extends `CircularAllocator`, instantiates `BitStream` |
| `MCStream`, `MCReliable`, `MCAllocator`, `MCSession`, `MCConnection`, `MCApplications` | instances for TLC | |

### The messengers

Names of variables and actions are those of the code. One action is one call:
`send`, `receive_message`, `receive_ack` (as part of the handlers that call it),
`receive_Ping`; `update` is two actions, because it either drains the queue
(`update_Drain`, which resets the resend timer) or, the timer having run out,
resends (`update_Resend`); it never does both. Timers are free choices: a
resend or a ping may come at any time the code could do it at some speed. `send`
with no room in the allocator is `send_NoRoom`: the code writes through a null
pointer, so the process stops.

Payloads are numbered; `data` in a packet is the payload. `upto` is not on the wire:
it says how many messages the sender of a packet had received when it wrote its
acknowledgement, and serves to expire packets. The network is a set: receiving
leaves a packet in it, so that it may come again, early, late or never; `Lose`
removes it. A packet whose data or acknowledgement is `Lifetime` messages old is
dropped by `update_Drain`. The assumption `PacketsExpireInTime` bounds `Lifetime`
by what 8-bit numbers can tell apart (256 messages for streams, 256 - 16 + 1 for
reliable messages); it is about the network, the code does nothing to ensure it.

The allocator is a sequence of live blocks here; that the ring of bytes behaves
like one is what `CircularAllocator` checks.

### The allocator

Pointers are offsets. `header` is the content of the buffer as far as it holds
header words; whatever a block's owner writes over a header is `Unwritten`
afterwards. `blocks` is what the messenger was given, with the offset of the
header of each as history (`at`): `pop_front` does not look at it, and that it finds every `at`
by the headers in the buffer is `PopsFindEveryBlock`. `Used` is the set of bytes in use. `push_back` has the code's
cases: forward, wrapping (with the end marked and the separate branch for an
exact fit) and refusal, which may mark the end as well. `reset` leaves the old
headers and markers in the buffer; `recreate` is `destroy` and `create`. `WrappedResult` is the
exact-fit branch as it is in the code: its block lies beyond the buffer, so
writing it damages no header and what the ring itself keeps stays right. Header
writes of the code need not be aligned; no alignment is modelled. `copy` is
taken only under `SpecWithCopies`.

### Sessions

`Node` is the set of addresses. A uuid is an address and the number of its
`create`, so uuids are unique. `_connections` is the vector; `At` is
`find_connection`. `peers` counts join and disconnect callbacks. A tick is a time
longer than `ping_time`; `silence` counts ticks since the later of the two messengers'
last acknowledgements, so `silence > Timeout` is the code's double condition.
The application's data is not in this module: pings alone keep a connection
alive, and every `ping_response` is taken for an acceptable acknowledgement, as
it is while both sides have sent nothing. Receiving one packet is an action and so is
`update_connections`: more interleavings with the application than one thread has, and all
of those it has. `update_connections` with nothing to do is no step.

`connection_rejected` only leads to a callback and is not received; the protocol
version is the same for all sessions of this code, so it is no part of a request.
`destroy` stands for a crash too: it closes its socket first, so its disconnecting
messages are never sent. `try_connect` may be called with a connection or without, as in
the code; the session it is sent to answers only if it has no connection with the address.

### One connection

`Connection` asks what no single module can: whether the numbers that the two ends compare
belong to the same connection. Each node has one connection or none
(`NoConnection`); making or losing it begins a new `era` of the node, a history
variable that packets carry along, and `heard` collects the eras of what a
connection took. A messenger is reduced to its counts `queued`, `sent`, `acked`
and `received` of at most one message; with one message the tests of both
messengers on a number are the same. `Acknowledged` is `receive_ack`: a number
outside `acked .. sent` changes nothing, not even the silence, so that an end
whose numbers are those of another connection times out although it is answered.
A timeout needs both silences, as in the code. `handed` counts, at the sender, how often
the receiver took the message of the present connection.

`send_unreliable` sends the application's bytes as they are, so that the first one is
taken for a message type: `Raw` is what it can be taken for, with the numbers of this
module. `restart` is a crash or `destroy`, and `create`.

Nothing in the code keeps packets of an earlier connection out of a later one, or a
connection that one end makes anew apart from the one the other end still has: a server
that restarted accepts a request of a client that is connected, which keeps its numbers,
and a repeated `connection_accepted` does the same the other way round. From then on the
numbers of two connections are compared, and there is nothing to be promised: messages are
skipped, handed over again, or freed before they arrive. `Connection` allows all of this. The
history variable `quiet` says whether the connection made last found nothing of an earlier
one (`InQuiet`): no late packet in transit, and at the other end either no connection or
one of which nothing was taken.
`OneConversation` and `HandedOnce` say what holds from there to the next
connection that is made, whatever is lost, repeated, or half lost in between.
Either part of `InQuiet` is needed: without it TLC finds both violated.

### Bit streams

A buffer is the set of its bits that are 1, so `|` is a union. `write_uint` and
`read_uint` go on at the next byte when the 32 bits from `_seek` do not hold the
field; `fast_write` and `fast_read` start at `_seek` and forget the offset without
moving on. A `fast_write` in the middle of a byte would therefore overwrite
fields written before: `fast_write` is guarded by an offset of 0, an obligation of
its callers, which all writers in `src/` meet because they use nothing else. `skip`, which
`resend_message` uses to pass over two bytes and write numbers anew in a packet that is
already complete, is left to `resent` of the messengers. That
the buffer is zero first is another (packets are filled by `fast_write`, which does
not need it). Fields come back in the order and with the types they were written.

### The programs

In `Chat` and `StressTest` sessions are abstract: `linked` and `served` say on each side
whether it has a connection with the other. What was accepted for a connection is not lost
with it: the sender repeats it until it is acknowledged or its own side is gone, also into
the next connection with the same address, which knows nothing of what an earlier one took. So a
message stays in `toServer`, `toClient` or `accepted`, a connection takes each of them once
(`heard`, `taken`, empty at first), and may take what an earlier one took. That it comes
at all is claimed only for two ends of one connection that was made in quiet (`paired`;
`offered` is the server's end while the client's is still to come), where `Connection` and the
messengers show it; a server's connection made in quiet begins with nothing in transit.

Sizes are those of the code: a client sends a text with its zero (`Typed`), the server 40 characters
more (`Broadcast`). `send_reliable` drops silently what has more than 797 bytes (`Accepts`),
and a message of 796 or 797 bytes is sent and never received (`Arrives`): it stays in the window,
and everything behind it waits (`blocked`). `EveryoneHears` is therefore about texts of
up to 754 characters, and about clients that were sent no text of 755 or 756.

An action is what one thread does between
two reads or writes that the other can see. `do_disconnect` is three: the test
of `remote`, the call of `disconnect` with what `remote` is by then, and the
`memset`. A call of the session is one step. Two threads in one session at once are undefined
behaviour: the model lets both calls take effect, in either order, or the process end (`dies`,
`terminates`; both stand for the normal end too), and does not look inside: a
`disconnect` between the `push_back` of a connection and its callback, for example,
is not covered. In `StressTest` `update` needs the
lock (`MayUpdate`), the loops that read `remote` do not; the user may name a
different server each time, so a client may be connected to two of them. A message
stands for the hundred numbers in it.

## 3. Runs

| Run | Question | Bounds |
|---|---|---|
| `stream` | order, exactly once, memory and numbers over a network that repeats and reorders; `FifoChannel` | modulus 4, window 2, 6 messages one way and 1 the other, 3 blocks, `Lifetime` 4 |
| `stream_live` | is everything delivered and freed when packets are lost | 3 messages |
| `reliable` | the same for reliable messages, with gaps in the window; `ExactlyOnceChannel` | modulus 6, window 3, 7 and 1 messages, 4 blocks, `Lifetime` 4 |
| `reliable_live` | delivery and freeing when packets are lost | 3 messages |
| `reliable_oversized` | finding: a message `send_reliable` accepts and the receiver cannot take | one such message |
| `allocator` | blocks, headers, order, refusals | buffer 17, word 2, blocks of 1, 3 and 8 bytes |
| `allocator_exact_fit` | finding: where a wrapped allocation is | same |
| `allocator_copy` | finding: what a copy is worth | same |
| `session` | callbacks, one connection per peer, passwords; crossing requests, crashes | 3 nodes, each creating twice, B and C asking A or each other; 2 passwords; room for one connection |
| `connection` | when do the two ends converse on one connection and is a message handed on once; does an end that is alone end | one stream message, one call of `send_unreliable`, one side asks, `Timeout` 1, connections are made up to a sum of 4 eras |
| `connection_unreliable` | finding: what becomes of a buffer passed to `send_unreliable` | same |
| `applications` | `remote` and connections, broadcast and sizes, the burst, the numbers | 2 chat clients, each of which joins twice or types a text, one that fits and one that does not; 2 stress clients, 2 servers, bursts of 2 messages |

Why the bounds are enough. With modulus 4 (6), six (seven) messages wrap every
number and use every slot more than once, and `Lifetime` equal to its limit makes the oldest
packet the receiver may see the one next to ambiguous; the allocator's capacity is
reached, so the crash in `send` happens. A window of three has statuses with
gaps. In 17 bytes one to five blocks fit, with ends of the buffer
both too short for a header and longer, and an exact fit; one size is more than half
of the buffer, so that it may fit on neither side of a hole. Two ticks of silence
are enough for a timeout to race an answer that is still on its way. Three
nodes let two clients compete for the one place of a server and ask each other
at once. `MaxEra` bounds the sum of both ends' eras when a connection is made (each making and each
loss is one): enough for both ends to have a connection, for either to lose its end and
make it again in quiet or not, and for late packets to arrive in it. One message one way leaves
out nothing that `OneConversation` tells apart, because the two messengers and the two directions
share only the silence; the theorems are about all. A chat client that joins twice is listed twice; two stress
clients and two servers make bursts that end at, or come from, the wrong one.
`SpecNoLose` leaves out `Lose`, which changes none of the other variables and
enables nothing: a packet that is lost behaves like one that is never received.
`MCSession.cfg` uses the symmetry of B and C, and states only invariants.

Deadlock is not checked where bounds on calls let the system come to rest: the
messengers, the sessions and the programs. The allocator never stops.

Fairness. Applications call `update` in an endless loop, so an enabled drain,
resend, ping or timeout that stays enabled happens (weak fairness),
and time passes. In `Connection` that is all: no packet needs to arrive for an end that
is alone to time out (`HalfOpenEnds`). In the messengers the network is fair as far as they need it: a packet that is
sent again and again is received (strong fairness on the next message, on an
acknowledgement that frees something, and on pings). No fairness makes an
application send, connect or disconnect. In `Chat` the server empties its queue, and
what is in transit on a paired connection that lasts and is not blocked arrives.

Packets do not outlive a tick in `Connection`, as in `session` (`Lifetime` 0): within a
tick they come late, again and in any order.

Findings (the four violation runs, details in `PROJECT.json`):

- `circular_allocator.h:108`: an exact-fit wrap returns a block behind the end of
  the buffer.
- `circular_allocator.h:190, 205`: copies negate the offsets and are not filled.
- `network_session.cpp:88`: `send_reliable` reckons with a header of 3 bytes, it has 5.
- `connection.cpp:170`: `send_unreliable` sends no header although `network_session.h:76-80`
  lists one: what it sends may be handed on as a stream or reliable message.

Other differences between comments and code, met while reading and not in a run:
`ping_response` is documented as one byte and has five
(`network_session.h:71-74`, `connection.cpp:93-99`); `query_response` lists 10 bytes
and has 14; `stream` and `stream_ack` list a status field they do not have;
two `connection_result`s have the value 2; `stress_server` announces the numbers up
to 99999 and waits for 10000 of them.

## 4. Proofs

`StreamMessengerProofs` proves, for every modulus and window satisfying
`SeqNumAssumption` (the code's 256 and 16 do), every capacity, any number of
messages and any `Lifetime` with `PacketsExpireInTime`:

- `Invariance`: `IInv`, the conjunction of the types and `NumbersStandForCounts`;
- `TypeCorrect`, `NumbersKeepTheirMeaning`, `DeliversInOrder`, `FreesOnlyDelivered`,
  `BlocksMatchPackets`: the invariants of run `stream`;
- `AcksMoveForward`: its action property;
- `Implements`: the refinement of `FifoChannel`.

The safety properties are not inductive: that a number is accepted says nothing
unless it is known which message it stands for. `IInv` counts messages without
wrapping (`Sent`, `Acked`, the length of `delivered`) and says that each 8-bit number,
slot, block and packet stands for one such count, that counts of one direction
are ordered (acknowledged <= received <= sent <= acknowledged + window), and that
packets are not older than `Lifetime`. The step that matters is `ReceiveAck`: an
acknowledgement whose number passes the code's test stands for a count between the
last one and what was received, because all candidates lie within less than a
modulus (`SeqNumProofs!DistanceCount`). There is one lemma per action; `SeqNumProofs`
has the arithmetic of `%`.

`ReliableMessengerProofs` proves under the same assumptions `Invariance`, `TypeCorrect`,
`NumbersKeepTheirMeaning`, `DeliversAtMostOnce`, `SkipsOnlyDelivered`,
`FreesOnlyDelivered`, `BlocksMatchPackets` (the invariants of run `reliable`) and `Implements`,
the refinement of `ExactlyOnceChannel`. What a receiver has is now a set with gaps, and
counts are ordered around its first missing message (`Received`): acknowledged <= first
missing <= sent <= acknowledged + window. `IInv` adds that status bit `b` of the receiver is
set exactly if message first missing + `b` was delivered, that the bits in a packet
and those the sender goes by (`SkippedWereDelivered`) name delivered messages of their own `rnd`,
and that nothing is delivered twice. Two steps matter: `Slide` moves the receiver's status by
the run of messages that became complete, and `ReceiveAck` advances `rnd` and replaces
the status together, so that the bits keep their meaning even when both are older than others
still on the way.

`NetworkSessionProofs` proves without any hypothesis, for any number of nodes, passwords,
limits and `Timeout`s, `TypeCorrect`, `OneConnectionEach`, `CallbacksTellConnections`
and `NobodyWithoutPassword`. The properties support each other: a packet of a peer is
handed to the connection of its address, a disconnect is told for the uuid kept with it,
so the callbacks are right only if there is one connection per address and per uuid.
`IInv` adds that a uuid names its address (`UuidsNameAddresses`) and, of packets in
transit (`PacketOK`), that requests and acceptances go back to a `try_connect` with the
password they carry. The vector of connections loses elements at any place; `Ranks` and
`WithoutRemains` say what remains and in which order.

`ConnectionProofs` proves `TypeCorrect`, `ConversesWithOne` and `HandsOverOnce` for `Spec`, which
restricts neither when a connection is made nor what `send_unreliable` sends. Packets do not say
which connection they belong to, so `IInv` says it for them, after a connection made in quiet: what
an end has heard or may still hear (`Spoken`) is all of one era, and of the
present one if the other end is connected (`EraOK`); and, while nobody calls
`send_unreliable`, no acknowledgement in transit is ahead of what was handed over, which
is what the other end has received (`HandedOK`). Three parts hold always, and are what
makes a connection in quiet start well: no packet is of an era that is still to come
(`PacketOK`), what an end said in its present era agrees with its counts (`SaidOK`), and an end
that has heard nothing has counted nothing (`OwnOK`), so that two ends that have taken nothing
begin from the same numbers although one is older. The lemmas about `receive_opening` use
`InQuiet`; those about all other steps keep `IInv` whether `quiet` or not. Eras and
`Timeout` are unbounded here; one message per messenger is how the module is built.

`ChatProofs` proves, for any number of clients and texts of any lengths, `TypeCorrect`,
`RemotesAreConnected` and `TextsComeOnce`. `IInv` says that while the server has made one
connection with the author, a text is queued once and copied afterwards (`QueuedOnce`), and that
while it has made one with a client, this client has got nothing before its side was made and then
no copy that was not sent, none twice (`FirstJoin`): it is there that the client's `taken`, which a second
connection forgets, is all it ever took.

`BufferProofs` proves of `CircularAllocator`, for buffers, words and requests of any size,
`TypeCorrect`, `AllocatedIsRight`, `PopsFindBlocks`, `BlocksKeepApart`,
`RefusesOnlyWithoutRoom` and `AllocationsValid`, all the invariants of run `allocator`. None of
them says where the free bytes are, which is what makes the next `push_back` harmless; `IInv`
does. The extents of the live blocks make up one run of bytes from
`_alloc_begin` to `_alloc_end` (`InOneRun`) or, when the ring has wrapped, two
(`InTwoRuns(e)`): what is left of a run that ends at some `e`, and one from the beginning. At `e`
there is a marker or no room for one. `push_back` therefore writes only where no
byte is in use (`Pushing`), from `WrappingStep` on in the second run, and no header or marker on
the way of `pop_front` is lost. `pop_front` shortens the first run, or ends it and goes on
with the second one (`PopStep`): there `e` is forgotten, and headers and markers that
stay in the buffer do not matter. The block of an exact fit has its header at the beginning and its
bytes behind `e`; `Placed` says that these bytes are then in no other block, whatever else is wrong with
them. `AllocatedIsLive` counts bytes as the cardinality of `Used`, and each step adds or
removes one extent.

Of `BitStream` it proves `FieldsReadBack` (`ReadsBack` for any number of fields of any lengths
and values) and `PositionsValid`. `StreamInv` says of each field that the buffer
still holds it where it was put, that it ends where the next one begins
(`End`), that nothing is set behind the writer (`Clean`, without which `|` would
mix bits), and that the reader is where the writer was before the next field. The
module is proved and not run by TLC: its lengths and values are unbounded.

`ApplicationsProofs` proves of `StressTest`, for any number of clients and servers, bursts
of any length and any number of attempts, `TypeCorrect`, `RemotesAreConnected`, `BurstsAreWhole` and
`NumbersCountedOnce`. A whole burst is seen only when it is over; `BurstSoFar` says
what the session has accepted while it lasts: nothing if `remote` is nil, and else the
numbers below `next`, all for `remote`. It is inductive because the lock keeps
`update`, the only code that writes `remote` or removes the connection, out of the
burst (`QuietSteps`). `Counted` bounds what a server has counted by what its connections have
`taken`, which is part of what was accepted: with one connection each, nothing is forgotten and
taken again. Of `DemoSpec`, the specification of run `applications`, it proves
`AllTypesCorrect`, `ChatRemotesAreConnected` and `TextsComeOnce`: a behaviour of
either pair of programs leaves the variables of the other pair alone (`BothInvariants`).

The assumptions are `SeqNumAssumption`, `StreamAssumption`, `ReliableAssumption`,
`AllocatorAssumption`, `SessionAssumption`, `ConnectionAssumption`, `NoConnectionAssumption`,
`StressAssumption` and `TalkAssumption`, which TLC evaluates in every run of the modules;
`PacketsExpireInTime` and, in `ChatProofs`, `ChatAssumption` (which `TalkAssumption` says of
`Applications`) are stated in the theorems that need them.

Only model-checked: the liveness properties, which are out of TLAPS's reach. The findings
are counterexamples of TLC.

## 5. Not modelled

`query`, its answer and `connection_rejected` change no state. Moves and swaps exchange all
members of two objects. The copies of a connection when the vector grows are
modelled for its allocators (`copy`) and not for the packets that point into them: what
follows is undefined. Wording, sockets, uuids (taken to be unique), address
resolution and the clock. `write_int` and `read_int` do not compile when they are
used. chat_server's limit of four connections and the rejection it leads to are in
`NetworkSession`, not in `Chat`.

What no property covers, because the code does not promise it. A client that asks a
restarted server while it still has its old connection keeps the old uuid of the server: the
`connection_accepted` is ignored, pings keep the connection alive, and what the client's
application addresses to the new uuid finds no connection. Two ends whose numbers are those of
different connections may go on like this for as long as each accepts the other's answers; a
message that is never acknowledged does not end a connection, because answers to pings are
accepted, too. A client whose `disconnecting` was lost and that asks again within the
timeout is not answered.

A reader should know what the programs do not promise. `ChatRemoteIsConnected`
has no converse in chat_client: the `memset` of `do_disconnect` may hit a
`remote` that a callback has just set, and the client then has a connection it knows
nothing of. In stress_client the converse fails with two servers: when the one
it took first leaves, `remote` is nil and the other connection unused. `exit` in
chat_client destroys a running `std::thread`, which ends the process at once.

## 6. Plan

Done, in this order: `SeqNum`, `StreamMessenger` with `FifoChannel` and their proofs,
`ReliableMessenger` with `ExactlyOnceChannel`, `CircularAllocator`,
`NetworkSession`, `Connection`, `Chat`, then `StressTest` and `BitStream` with their
proofs, then the proofs about `ReliableMessenger`, `NetworkSession`, `Connection`, `Chat` and
`CircularAllocator`.

Left: the refinement of the ring by the sequence of blocks that the messengers use (a mapping
to `blocks`), the action properties that liveness rests on (what a resend or a ping
may never undo) as theorems of `ReliableMessenger`, and calls of the session that overlap
in chat_client in smaller steps.

# espMqttClient in TLA+

A model of [espMqttClient](../src/README.md), an MQTT 3.1.1 client for ESP8266,
ESP32 and Linux, with TLC runs and TLAPS proofs. Line numbers refer to
`src/src/` unless a path is given.

## The system

| component | state | operations |
|---|---|---|
| **Outbox** (`Outbox.h`) | singly linked list of nodes, `_first`, `_last`, a send cursor `_current` and its predecessor `_prev` | `emplace`, `emplaceFront`, `remove(it)`, `removeCurrent`, `next`, `resetCurrent`, `front`, iterator |
| **MqttClient** (`MqttClient.cpp/.h`) | `_state`, `_outbox`, `_bytesSent`, `_packetId`, `_pingSent`, `_disconnectReason`, the times of the last activity | `loop()` with its branches, ten packet handlers and two timers; `connect`, `disconnect`, `publish`, `subscribe`, `unsubscribe`, `clearQueue` |
| **Packet** (`Packets/Packet.cpp`) | type, id, bytes of an outgoing packet, dup flag | nine constructors, `available`, `removable`, `setDup`, payloads fetched in chunks |
| **Parser** (`Packets/Parser.cpp`) | position in an incoming packet | one byte at a time, `parse`, `reset` |
| **RemainingLength**, **StringUtil** | none | encode and decode |
| **MemoryPool** (`MemoryPool/`) | free list of a static buffer | `malloc`, `free` (fixed and variable size) |
| **Transports** (`Transport/`) | a socket | `connect`, `write`, `read`, `stop`, `connected`, `disconnected` |
| **Asynchronous client** (`espMqttClientAsync.cpp`) | – | callbacks of AsyncTCP that set the state and call `loop()` |
| **Set-up** (`MqttClientSetup.h`, `TypeDefs.cpp`, `Config.h`, ...) | configuration, lists of callbacks | setters before `connect()`; `onX`, `removeOnX`, passing on of an event |

How they interact. The public calls put packets into the outbox. `loop()`, which
is called by the application or by a task of its own, walks a state machine; in
the connected states a pass sends what is behind the cursor (`_checkOutbox`),
reads and parses what arrived (`_checkIncoming`, one handler for each packet
type), and looks at two timers (`_checkPing`, `_checkTimeout`). Packets that need
an answer stay in the outbox, before the cursor, until a handler removes them.
The outbox thereby is the session: PUBLISH, PUBREL and PUBREC survive the end of a
connection (`_clearQueue(0)`). Handlers call the application back with the mutex
released, and the application may call the client again from there.

What is hard:

- `loop()` and the calls of other threads share `_state` without a lock: a call
  tests it before it takes the mutex, `disconnect()` sets it without, and a
  branch of `loop()` sets the state that follows the one it read.
- Answers arrive after retransmissions, lost connections and lost sessions, and
  must find the packet they answer; the broker chooses packet ids too.
- The linked list keeps `_prev` only where it is needed.
- A write may be partial, and the packet under way may be removed.
- Packets cannot be created when memory is short, in the middle of a handler; node and
  bytes of a packet come from two allocators, and clients share one of them.
- Payloads that are fetched in chunks are fetched again in a retransmission.
- Callbacks add and remove callbacks.
- Whether a connect or disconnect ends depends on timers and on the other side.

What makes each component correct: the outbox is a queue with a cursor and touches
no dead node. The client sends whole packets, CONNECT first and DISCONNECT last;
answers each `connect()` by one `onDisconnect`; keeps an exchange until it is
finished; has a QoS 2 message passed on once in each direction and a QoS 1 or 2
message at least once; marks retransmissions; and ends every connect and disconnect
when keep-alive is on. The parser gives out what was sent, whatever
the cuts between reads; a decoded remaining length is the encoded one. A packet stays
in its memory and says what was asked for, in whatever pieces it is sent. Blocks of the
pool never overlap, and none is lost. An event reaches each callback once.

## Modules

| module | what it is |
|---|---|
| `OutboxOps` | the operations of the outbox on a sequence with a cursor, as operators |
| `Filter` | a sequence walked once by a loop that drops some of its items |
| `Facts` | proofs about the operators of both, the principle of induction, and numbers to a base |
| `OutboxQueue` | the abstract specification of `Outbox.h`: a queue with a cursor and one iterator |
| `Outbox` | `Outbox.h` at pointer level; `ImplementsQueue` is the refinement |
| `OutboxProofs` | proofs about `Outbox` |
| `MqttClient` | `MqttClient.cpp`, with the socket as three variables |
| `Broker` | a broker and a network that loses connections (external) |
| `MqttSystem` | both together; all properties of the client |
| `ExchangeProofs` | proofs about `MqttSystem`: its types, the kinds of steps there are, exchanges of QoS 1 and 2 |
| `MqttProofs` | proofs about `MqttSystem`: the order of a connection, pings |
| `RemainingLength` | `RemainingLength.cpp`: encode, decode, length |
| `Parser` | `Parser.cpp`, with the reads that feed it and a broker's packets as bytes |
| `ParserProofs` | proofs about `RemainingLength` and `Parser` |
| `PacketBytes` | what the constructors of `Packet.cpp` write and reserve; how a broker reads it |
| `Packet` | one outgoing packet from its constructor to the last time it is sent |
| `PacketProofs` | proofs about `PacketBytes` and `Packet` |
| `Allocator` | the abstract specification of the pool: first fit |
| `VariablePool` | `Variable.h`: free list in the buffer, walks of `malloc` and `free`; `ImplementsAllocator` is the refinement |
| `PacketMemory` | the clients on top: nodes from `Fixed.h`, bytes from `VariablePool` |
| `PoolProofs` | proofs about `VariablePool` and `PacketMemory` |
| `Callbacks` | callbacks of `MqttClientSetup.h` |
| `CallbackProofs` | proofs about `Callbacks` |
| `MCOutbox`, `MCMqtt`, `MCParser`, `MCPacket` | instances for TLC |

An operator whose comment begins with "Mutant" is a bug one could make in the
definition below it. Nothing uses it; it is there to see that a property fails
with it.

### Outbox

Addresses are the set `Node`; a freed one may be handed out again. One action for
each operation of the class; those that the client undoes when a packet turns out
to be broken (`MqttClient.h:151-173`) are actions as well. `fault` records a write
through a pointer to no live node. An operation is one step, as the client's
mutex guards the list. The one iterator is that of the handler that walks the list;
while it is in use, the handler only appends and removes through it, as in the code.

### MqttClient

| variable | code |
|---|---|
| `state`, `outbox`, `bytesSent`, `packetId`, `pingSent`, `reason` | the members of the class |
| `idle` | how many keep-alive times passed since `_lastServerActivity` (up to 2) and `_lastClientActivity` (up to 1) |
| `lpc`, `branch`, `rx` | where `loop()` is, which branch of the switch it runs, and the packets of its receive buffer that are still to be parsed |
| `apc`, `left` | what each thread has checked and is about to do; calls it may still make |
| `tcp`, `wire`, `s2c` | the socket, what was written (whole packets, a partial one, and whether the bytes fit together), what can be read |
| `hist` | what the application saw: connects not answered yet, packets accepted, ids acknowledged, how often each message arrived with each QoS |

`loop()` is a sequential process. Its steps are the pieces between which other
threads, a callback or the other side can do something: the test of the state,
the connect of the transport, `connected()`, each write, the read, each handler,
each callback, each timer. `_state` is read once (`Dispatch`), and the branch goes
on with what it read, whatever another thread does. A public call has two steps,
the unlocked test of the state (`Call`) and the rest, under the mutex except in
`disconnect()`. With `Threaded` the calls run beside `loop()` (internal task of the
ESP32, a thread on Linux); without, they are made by the program that calls
`loop()`, between two passes or in a callback.

Handlers are translated whole. `_clearQueue` is `KeepOnly`, which drops all at
once; its loop with an iterator is `Swept`, one `Round` for each item, and that it
comes to the same is `ClearsAsSwept` of `Outbox`.

Abstractions:

- A packet is its type, id, QoS and dup flag. A PUBLISH or CONNECT has `PubSize`
  units of bytes, another packet one; a write takes any number of units. That the dup flag
  is set in the bytes is part of `Advanced`. The wire keeps packets that the broker
  has not taken yet, at most `WireCap`.
- Time is `TimePasses`: a keep-alive time goes by, which sees at least
  `MinPasses` passes of `loop()`. The time to retransmit may always have run out
  when `Retry`.
- The blocking `connect` of the transport is one step that succeeds or fails; the
  transport is open, closed or reset by the peer, and a loss becomes visible to
  `connected()` at any time.
- With `Posix` the transport is `ClientPosix`: `connected()` is that there is a
  descriptor, so that it stays true when the connection is lost and when `connect()`
  has failed, unless the host was not found or there was no socket; `send()` waits until it can write something (its step is not enabled
  before), and on a broken connection returns -1, which `_bytesSent` adds as a
  `size_t` (`SizeMax` stands for the largest one). The other transports notice a
  loss and take what fits, or nothing.
- The ids are `1 .. MaxId`. `MayFail` lets any packet fail to be created.
- A message of the broker arrives in one piece (the parser hands long payloads to
  `onMessage` in several), and `MALFORMED` stands for what the parser rejects.
- `onError` callbacks do not call the client. The end of `disconnectingTcp2`
  (clear the queue under the mutex, then set the state) is one step, as nothing
  that another thread can do in between differs from doing it before or after.
- The mutex is that of ESP32 and Linux. The one of the ESP8266 build spins on a
  flag (`Helpers.h:26`), and is listed under hazards.

### Broker

The other side follows MQTT 3.1.1: it answers each packet in order, keeps a session
with the ids received and the messages not finished, sends these again when the
session is resumed, and closes a connection whose client breaks the protocol. It
may close or lose a connection `MaxDrops` times, with all that is under way;
refuse a connection (`Refuses`); and forget the session (`LosesSession`). Ids of its
messages are new for each message or the lowest free one (`ReusesIds`).

### Parser and RemainingLength

| variable | code |
|---|---|
| `fn`, `bytePos`, `pk` | `_parse`, `_bytePos`, `_packet` (with the codes of `_payloadBuffer`) |
| `stream`, `pos`, `avail` | what the broker sent, how much of it is parsed, how much was read: `_rxBuffer` is what lies between the last two |
| `got`, `error` | packets returned by `parse()`, with the payload put together from the pieces of `onMessage`; `protocolError` was returned |
| `sent`, `conns` | the packets behind `stream`; connections still to come |

One action for each function of the parser, which takes one byte, or for
`_payloadPublish` all there is. `Read` takes any number of bytes up to the receive
buffer, and `Reconnect` may come at any byte. `Bytes` is the grammar of MQTT 3.1.1 for
the packets a broker sends, written without a look at the parser; the properties
compare what comes out with what went in. After its good packets a broker may send
one that is `Nonsense`: the beginning of a packet, a byte that cannot stand there, as in the
parser's own tests, and anything behind it. `WrongHeader`, `WrongLength` and `WrongBody` say which
bytes cannot: unknown types and flags, lengths that do not fit the type or the buffer for codes, a fifth
byte of the length, unknown codes, packet id 0, a topic longer than its packet. What the parser does not
look at is no nonsense here: reserved flags 14 and 15, the bytes of a topic, and a PUBLISH too short for
the length of its topic, which `maxTopicLength` takes for a long one (`Parser.cpp:252`).

`Radix` stands for the 128 of the remaining length, so that with 3 a packet of 27
bytes has a length of four bytes; `MaxTopic`, `PayloadBuffer` and `RxBuffer` are the
limits of `Config.h`. Lengths are unsigned (`SizeT`). The union of the raw and the decoded
length, and that of the packet id and the fields of CONNACK, are fields of their own:
each is written before it is read. `_checkIncoming` returns after a CONNACK whose
`onConnect` calls `disconnect()` and drops the rest of its buffer; this belongs to the
composition of the parser with the client, which is planned.

### PacketBytes and Packet

A constructor is given a record, and a string is the sequence of its bytes. `Written`
and `Reserved` are the bytes written and the memory reserved; they are reckoned
separately in the code, and `InsideMemory` compares them. `Meaning` is how a broker
reads the bytes, by MQTT 3.1.1, and does not look at the constructors.

| variable | code |
|---|---|
| `data`, `size`, `payloadIndex`, `payloadStartIndex`, `payloadEndIndex` | members of `Packet` |
| `bytesSent`, `pc`, `wire` | the client's position in the packet and in `_checkOutbox()`, and what it has written |
| `dup`, `left`, `fault` | `setDup()` was called; retries left; an access outside of `data` |

`Available` and `Write` alternate as in `_sendPacket()`. The socket takes any part of what
is offered, the application's callback writes any part of what is wanted (it is given
the index in the packet, header included, and reckons the index in the payload).
A packet that needs an answer may be sent again, on the same connection or on the next.
With `Radix` 5 the length of a packet has one to three bytes; a chunk is 3 bytes.

### Allocator, VariablePool, PacketMemory

The buffer is an array of units of the size of a block header. A unit is a header
(`next`, `size`) or `Data`: what an application writes, which is no link. `malloc`
and `free` take the mutex, walk one block in a step, and change the buffer in one step;
`walk` has the locals of each thread. `free` reads `head` with the mutex held
and goes on only if there is a list. `Allocator` knows the blocks as sets of units, and
nothing of a list; each step of the pool is a step of it or a stutter.

A client is one user of the pool: its own mutex orders what it does, so that clients
meet in the pool only. `EmplaceNode`, `AllocateData`, then `KeepPacket` or
`DropPacket` are `_addPacket`; `RemovePacket`, the walk of `free`, `FreeNode` are
`Outbox::_remove`. The pool is static, so there is one for all clients.

### Callbacks

One list for one kind of event, as the six are alike. A node of the `std::list` is known
by a key that is not used again; `at` is the iterator's node and `running` the copy
that is being called. `multiple` is `EMC_MULTIPLE_CALLBACKS`, chosen in `Init`; without,
the list is the one function. The application acts between events and in callbacks.
`fault` is an iterator advanced, or a function replaced, whose node is gone.

## Runs

Deadlock is not checked in the runs: the calls of the application are limited, and
a disconnected client with none left stops. In `Outbox` an application stops as
well when the addresses are used up and nothing is left to do.

| run | question | bounds |
|---|---|---|
| `Outbox` | Is the linked list a queue with a cursor, and does it touch no dead node? | 4 addresses, 2 items: cursor, tail, head and iterator on four different nodes or on the same, and every order of removal |
| `Outgoing` | Are exchanges of the client kept until they are finished, passed on once, marked as duplicates when sent again, and does DISCONNECT wait for them and come last? | 1 message of QoS 1, 2 of QoS 2, a clean disconnect, a lost connection, retransmission at any time; the calls by a thread beside `loop()` |
| `Reconnects` | With the POSIX transport, are whole packets sent, and is each accepted message delivered or kept, when memory is short and the broker refuses or forgets the session? | messages of QoS 1 and 2, of 2 units each, a SUBSCRIBE, a socket that takes 1 packet, writes that fail, 2 connections, of which one is lost and one closed; a thread beside `loop()` |
| `Incoming` | Is a QoS 2 message of the broker given to the application once, and each one at least once before the broker forgets it? | 2 messages in any mixture of QoS 1 and 2, 3 connections, one `clearQueue(false)` and one `clearQueue(true)` |
| `Lifecycle` | One `onDisconnect` for each `connect()`, CONNECT first, no stuck ping, no abandoned teardown? Does each connect, disconnect and forced disconnect end, and is everything acknowledged on a connection that lasts? | 2 connects, a clean and a forced disconnect, keep-alive, retransmissions, a message of QoS 2, calls from callbacks, one lost connection |
| `Parser` | Does the parser give out what was sent, and report nothing but nonsense, however the stream is cut? Are the lengths decoded that were encoded? | `Radix` 3, topics of 3 bytes, payloads of up to 25 bytes, SUBACK of 3 codes, reads of 1 to 6 bytes, 2 connections, 15 kinds of nonsense; all 81 lengths |
| `Memory` | Is the pool a first-fit allocator, do blocks never overlap, and is no unit, node or block lost? | 2 clients, 3 nodes each, a pool of 6 units, packets of 1, 3 and 5 bytes (2, 3 and 4 units with their header) |
| `Packet` | Do bytes stay in the memory reserved, does a broker read what was asked for, and is what is begun finished? | 19 packets, one or more for each constructor; every cut, chunks of 0 to 3 bytes, 2 retransmissions or lost connections |
| `Callbacks` | Is each callback called once and in order, with no use of a dead node? | 4 callbacks added, with 2 ids, empty or not, any number removed, 2 events |

Why the bounds are enough: the handlers look at the first packet of a type, at one
id or at all packets, so two exchanges of the same kind and one of another show
what a third would; a session has to survive one lost connection while an exchange
is in each of its phases, and `Incoming` has two for what is repeated a second
time. `WireCap` 1 or 2 lets every write be refused or cut. The
cursor has a packet before, at and behind it. `MaxId` is the number of requests, so
that ids do not come round. For the parser, payloads are longer than four reads, each
function meets a cut before and after its byte, and every number of bytes of a
length occurs; a second connection meets whatever the first has left, and a third
could meet no more. In the pool of 6 units a block may have a free or a taken neighbour
on either side or none, fit exactly, be split or be refused, while another client
walks. A chunked payload takes three fetches, with the first chunk gone when
it is needed again. Four callbacks leave one on each side of the iterator when one is
added and one removed.

The application calls from one thread, either the one of `loop()` or one beside it.
With two more threads `Framing` and `ConnectFirst` do not hold, as both may get
through `connect()` (see below), and what follows from that hides everything else.

In `Lifecycle` `WireCap` is 2: a socket that one PINGREQ fills would let PINGREQ
keep DISCONNECT out of the outbox for ever, as at least `MinPasses` passes go by between
two of them; buffers of sockets hold more than the two bytes of a PINGREQ.

Fairness. `FairSpec` has weak fairness of `loop()`, which the application or its
task calls again and again (docs/index.md:334-337; the pass from one step to the
next depends on nobody else), of the transport's `connect`, which returns, and of
calls that have begun. Time passes (strong fairness, because its step is enabled
between passes only). Nothing is assumed of the broker, the network, the
application's decision to call, or the outcome of a choice. `AllIsAcked` has
`BrokerFairness` as its hypothesis: a broker that answers and a socket that does not
refuse bytes for ever (strong fairness of a write that takes something, as a pass may find the
buffer full), on a connection that lasts. `FairSpec` of `Packet` assumes that
`_checkOutbox()` is called again, and, for the same reason, that a socket that is asked again
and again takes a byte and a payload callback gives one (strong fairness of both).

## Where the code differs from what it promises

Three runs expect a violation:

- `FramingRetry`: a retransmission is half written when the PUBACK of the first
  transmission removes its packet. `_bytesSent` stays, and the next packet is sent
  from its middle.
- `UnsubackCollision`: `_onUnsuback` compares ids only. It removes a PUBREC whose
  id the broker chose, and the QoS 2 message is delivered again.
- `LongTopic`: a topic longer than `EMC_MAX_TOPIC_LENGTH` is not only truncated: the
  rest of it is taken for the packet id or the payload, and the end of the packet for
  a new one.

More were seen while the model was written, and can be had by other constants.
Most are listed under hazards, with what the runs leave out because of them:

- `disconnect(true)` of another thread sets `_state` while `loop()` is in
  `connectingTcp1`; the branch then sets `connectingTcp2`, and the client connects
  although the call returned true (`ForcedDisconnectEnds` with `Threaded`);
- each duplicate of a QoS 2 message adds a PUBREC, and PUBREL removes one; when the
  broker uses the id again, the new message is taken for a duplicate and never
  delivered (`FinishedWasReceived` with `ReusesIds` and lost connections);
- keep-alive off, clean disconnect, connection lost while an answer is due: the
  client never gets out of `disconnectingMqtt1`, which does not look at the
  transport (`DisconnectEnds` with `KeepAlive = FALSE`);
- `clearQueue()` in `disconnectingMqtt2` removes DISCONNECT, and the client stays
  there while pings are answered (`DisconnectEnds` with a `clear`);
- `clearQueue()` while connecting removes CONNECT (`ConnectFirst` with a `clear`);
- `clearQueue()` while connected removes a PINGREQ that is not yet written and leaves
  `_pingSent` set, and the client then closes the connection for want of a PINGRESP
  (`PingIsPending` with a `clear`);
- two threads in `connect()` queue two CONNECTs (`ConnectFirst`, `Threaded`);
- PINGREQ is queued behind DISCONNECT in `disconnectingMqtt2`
  (`NothingAfterDisconnect` with `KeepAlive`);
- `publish()` of one thread goes through after `disconnect()` of another;
- `_clearQueue(1)` keeps QoS 0 too, which its comment denies;
- the POSIX transport: a disconnect does not end while `send()` blocks with the mutex
  held, nor, without keep-alive, when the connection is lost (`DisconnectEnds` and
  `ForcedDisconnectEnds` with `Posix`); README.md:38 aims at being non-blocking;
- a SUBACK with as many codes as the payload buffer has room for ends the connection
  (`Parser.cpp:160`; `ErrorsAreRight` with four codes);
- a chunked packet is reserved with the header of one chunk and gets that of the whole
  payload, which from 16 KB on is a byte longer (`InsideMemory` with a payload of 22 bytes);
  chunks may be `EMC_TX_BUFFER_SIZE` long in memory of `EMC_RX_BUFFER_SIZE`;
- a chunked packet with an empty payload: `_chunkedAvailable` (`Packet.cpp:424-445`) counts
  `_payloadEndIndex` as a byte of it and gives out one more than the packet has; a socket that takes
  it gets a byte from behind the memory, and `_bytesSent` never equals the size (`InsideMemory`
  with such a request);
- a will with a topic and no payload counts in the length of CONNECT and is not written
  (`SaysWhatWasAsked`);
- the pool is shared by all clients and may be fragmented, so that the minimum of
  docs/index.md:429 is not guaranteed (`MinimumFits` of `PacketMemory`);
- a callback that removes itself (`NoDeadNode` with `RemovesRunning`);
- ids come round to one that is in use (`ExchangeIsKept` with a small `MaxId`).

## Proofs

Each theorem holds for every value of the constants that the named assumptions of the
modules allow: switches are Booleans, sizes and counts are naturals, `nullptr` is no
address, addresses are finitely many, a name is not that of something else. What a theorem
needs beyond that is a hypothesis in its statement; the hypotheses are those
without which TLC finds a counterexample, and most are entries of the list above.

### The outbox: `OutboxProofs`, `Facts`

- `TypeCorrect`, `NeverFaults`, `EndsStaySound`: the invariants of run `Outbox`;
- `ListAlways`: the pointers lay out a list;
- `ListIsQueue`: the list implements `OutboxQueue` (`ImplementsQueue`);
- `SweepsKeep`: the loop of `_clearQueue` leaves what `KeepOnly` says (`ClearsAsSwept`).

The invariants are not inductive: that no write goes through a dead pointer depends
on where `_prev` points, which depends on the shape of the list. `IInv` says that
there are distinct nodes `q[1] .. q[n]`, exactly the live ones, linked in this
order; that the cursor is at one of them or behind the last; and that `_prev` is
the node before the cursor *unless the cursor is at the front*. There it may be
anything: `resetCurrent()` and some removals leave it stale, and it does not matter,
because a removal at the front does not look at it and `next()` sets it. One lemma
for each operation says what list it makes of a list; `StepList` combines them.

For the refinement, the chain of links from `_first` is shown to be `q` (`LinksLayOut`,
by induction on its length; there are at most as many nodes as addresses), so
that the queue represented is the data of `q[1] .. q[n]` with cursor `c`
(`ListQueue`). `EmplaceQueue`, `EmplaceFrontQueue`, `RemoveQueue` and `SameQueue` say that
an operation on the list is the one on the queue, and `StepQueue` goes through the
actions. An `emplace` that is undone is a stutter; an `emplaceFront` that is undone has moved
the cursor to the front.

`ClearsAsSwept` compares a loop with a definition, so its invariant is one of the loop: after
`k` rounds the queue is what is left of its first `k` items, followed by the others; the
iterator is at the first of the others, and the cursor has moved back by the items removed
before it (`AfterRounds` of `Facts`). `RoundsOf` shows that each round keeps it,
`RoundsAreUnique` that nothing else does.

`Facts` has what the proofs about the client need of `OutboxOps`: which packets are
left by each operation, that none is left twice, that the cursor stays a position of the
queue. `Filtered`, by which `_clearQueue` is described, is recursive. Facts about
recursive functions are proved by `SetInduction`: a set of numbers that has 0 and
with each number the next one has all. The set is a parameter, which the provers can
instantiate where they cannot take a predicate.

### The client: `ExchangeProofs`, `MqttProofs`

All of it is for any broker, network, transport, budget of calls and number of ids, and for
any number of threads unless `~Threaded` or `OneThread` is said.

- `TypeCorrect`: `TypeOK`. `TypeInv` adds the types of what is under way:
  ids of requests are the client's, ids of PUBACK, PUBREC and PUBCOMP the broker's.
- `StepKinds`: a step adds no packet with an id and drops none that belongs to an exchange, or
  it is one of a few that do, and then which. The proofs about exchanges go over these kinds
  instead of over all actions.

| theorem | property | hypotheses |
|---|---|---|
| `MessagesAreKept` | `NoMessageLost` | `UnsubIdsOwn`, `~SessionDeleted` |
| `ExchangesAreKept` | `ExchangeIsKept` | the same, `SessionKept`, `~MayFail` |
| `DisconnectFlushes` | `CleanDisconnectFlushes` | as before |
| `PassedOnOnce` | `AtMostOnceOut` | `SessionKept`, ids have not come round, `MaxId > 1` |
| `FinishedWereReceived` | `FinishedWasReceived` | `SessionKept`, `~ReusesIds`, no broker's message of QoS 0 |
| `ReceivedOnce` | `AtMostOnceIn` | `SessionKept`, `~MayFail`, `~ReusesIds`, `UnsubIdsForeign` |
| `EveryConnectIsAnswered` | `Balanced` | `~Threaded` |
| `TeardownEnds` | `TeardownIsFinal` | `~Threaded` |
| `ConnectOpens` | `ConnectFirst` | `~Threaded`, no `clearQueue()` while connecting |
| `ConnectLeadsBeside` | `ConnectFirst` | `OneThread`, no `clearQueue()` while CONNECT is in the outbox |
| `WholePackets` | `Framing`, `DupMarksRetransmission` | the same, `~Retry`, no `clearQueue()` while a packet is half sent, ids have not come round, `MaxId > 1` |
| `DupsAreMarked` | `DupMarksRetransmission` | as `ConnectLeadsBeside`, packets arrive whole, ids have not come round, `MaxId > 1` |
| `DisconnectIsLast` | `NothingAfterDisconnect` | `~Threaded`, `~KeepAlive` |
| `PingsArePending` | `PingIsPending` | packets arrive whole, no `clearQueue()` while connected |

Why the hypotheses are there:

- `SessionKept` (no clean session, and a broker that forgets none): otherwise `_onConnack`
  drops PUBREL and PUBREC on purpose. `~SessionDeleted`: the application did not call
  `clearQueue(true)`.
- `UnsubIdsOwn`, `UnsubIdsForeign`: no UNSUBSCRIBE has the id of a message, of the client or
  of the broker. The UNSUBACK would take that message's packet (`MqttClient.cpp:693-707`).
  The client's own ids differ until 65535 requests have been made; those of the broker are
  its own choice, and run `UnsubackCollision` shows the loss.
- `~MayFail`: a handler that cannot create its answer has already removed the packet
  answered, and what remembers the exchange is gone. Messages are not lost by it, so
  `MessagesAreKept` does without.
- `~ReusesIds`: a PUBREC left behind makes a new message with its id look like a duplicate.
- Ids have not come round (`packetId <= packetId'`): the 65536th request may have the id
  of one that is in use. With `MaxId = 1` they come round at once.
- QoS 0 in `FinishedWereReceived`: the broker finishes a message of QoS 0 when it has sent it.
- `~Threaded`: a `disconnect()` that has tested the state can bring a client to life
  again that has disconnected in between; two `connect()` queue two CONNECTs.
- `OneThread` (all calls come from one thread, that of `loop()` or one beside it): two
  `connect()` queue two CONNECTs.
- `~KeepAlive`: PINGREQ may be queued behind DISCONNECT.
- `clearQueue()` removes a CONNECT or a PINGREQ that is not written yet, and leaves
  `_bytesSent` behind when it removes a packet that is half sent.
- `~Retry`, and packets arrive whole (`wire.ok`): run `FramingRetry` shows when they do not,
  and then the broker reads neither a PINGREQ nor the packet that follows. `WholePackets`
  gives `wire.ok` to `DupsAreMarked` where nothing is sent again on the same connection.

The invariants. For messages and exchanges (`NotLost`, `Known`, `ReleasesKnown`,
`ExchangesKept`): an answer under way belongs to something the broker has passed on in the
session it has, and a CONNACK that would drop a PUBREL cannot come. `OnceOut`: of
the places where a PUBLISH can be (outbox, wire, the broker) at most one can still make it pass
the message on, and behind PUBREL there is no PUBLISH. `AnswersKnown`: whatever
acknowledges a message, in the outbox, on the wire or at the broker, comes from a
handler that gave it to `onMessage`. `InOrder` and `OnceIn`: a message delivered has its PUBREC in
the outbox until the PUBREL, and no PUBLISH of it is behind that PUBREL.

For the order of a connection: a call and each branch of `loop()` act on a state read
earlier. `IInv` says that only one call is under way and that the state it checked has not
changed; `Placed` and `AtWork`, which state each branch can meet; `Handshake`, that
CONNACK, which comes once and first, has been handled; `Opened`, that CONNECT leads the outbox
or is already written; `Goodbye`, that DISCONNECT is alone in the outbox. `PingKept` speaks of the
outbox, the wire and what is coming at once, and needs `StepKinds` to see that nobody
else takes a packet without an id.

With calls beside the loop `IInv` and `Placed` do not hold. `Dials` says what is left of
them: `loop()` may be in a branch of an earlier state, but the branches that connect have a
CONNECT in the outbox, and while there is one it is at the front and no other branch sends;
`Mute`, that a CONNECT not yet written has a silent connection; `Heard`, that
without one CONNACK has come. `MarkInv` adds what DUP depends on: a request is once in
the outbox, its id is new (`Fresh`, `One`), and each PUBLISH there is marked exactly if it was
written (`Marked`). `Elements` says of every packet of the next outbox where it comes from, so
that each of these is shown packet by packet. `FrameInv` adds `NotSent`, that without a
retransmission what the cursor has before it was not written on this connection, so that
nothing under way can answer it. Hence the packet that `_bytesSent` counts stays where it is
(`CurrentStays`), which is all there is to `Framed`.

### The parser: `ParserProofs`

- `Decodes`: `DecodesWhatIsEncoded`, to any base, hence to 128, and for every length.
  `encodeRemainingLength` is recursive: that its recursion ends is proved by `SetInduction`
  (`FourDigits` of `Facts`, to any base).
- `StaysWithin`: `WithinBuffers`, for buffers of any size and any bytes in any pieces.
- `Delivers`, `KeepsInStep`, `ErrorsAreReported`: `DeliversWhatWasSent`, `InStep`,
  `ErrorsAreRight`. Whatever packets a server sends, any number of them with
  topics, payloads, ids and codes of any value, on any number of connections and in reads of any
  size: the parser gives out exactly these packets, each field as it was sent and a payload as far as it
  has come; it never takes a byte of one packet for a byte of another; it rejects none. And when
  nonsense comes behind them, with its wrong byte wherever it may be, it gives out nothing of it and
  reports it before the end.

The last three assume `Sent \subseteq Said` and `SizeWidth >= Radix4`. The second says
that `size_t` holds every length of four bytes, as it does from 32 bits on. The first says what a server
sends, packets and at most one piece of nonsense, the last: `Packets` are the packets of MQTT 3.1.1 that fit the buffers of `Config.h`, by their fields alone, with
nothing of the parser in it. A longer topic is left out because the code drops its message
and its QoS 2 exchange (run `LongTopic`), more codes than the payload buffer holds are
refused (`Parser.cpp:160`). QoS 3 and empty topics no server may send; the parser refuses flags 6 to 9,
lets 14 and 15 through (`Parser.cpp:75-97`) and does not look at the length of a topic but for
its limit. `MCParser` assumes `Ordinary \subseteq Said`, so that TLC checks what is sent
in the run, nonsense included, against the hypothesis of the theorems.

`WithinBuffers` is not inductive: the codes of a SUBACK are written without a test; there is
room because the length was checked four functions earlier. `Course` says which
functions the parser can be in for a packet's type, and what was checked on the way.
`SentAssumption`: what is sent is bytes.

That the right packets come out says nothing about the middle of one, so `InOrder` says where
the parser is for each of its functions. Either it is behind the first `n` packets and
waits for a header (`Behind`), or it is inside the next (`Inside`): the header is that
of this packet, and `Amid`, with one predicate per function, gives the number of bytes taken and what
`pk` holds of each field that lies before that byte. Where the fields of a packet lie follows
from `Body` (`PublishBody`, `IdBytes`), where a packet lies in the stream from `StreamedFirst`
(`InPlace`), and that a length comes out of its digits as it went in from `Spells`. Each
function has a lemma (`OrderFixedHeader` to `OrderPayloadPublish`): from its predicate and its byte follow
the predicate of the function it goes on with, that no check on the way fails, or that the packet is complete.
`PiecesJoin` says that the pieces of a payload make up a prefix of it. A read changes nothing that `InOrder`
speaks of, and a new connection starts behind no packet, whatever the last one left in `pk`.

For nonsense `Meant` puts the packet that it begins like in its place, and `Sense` counts the bytes up to
the wrong one: as long as the parser has not taken more, its bytes are those of `Meant`,
and `InOrder` holds as it does for packets. At the wrong byte (`AtWrong`, `WrongThere`) the place of
the byte and `Amid` leave one function for each kind of wrong byte, and this function refuses it
(`Refuses`; for a length that was spoilt, `SameLength` says what is decoded). Afterwards nothing changes
until the next connection (`Refused`). So `Told`, which is `InOrder` or `Refused`, is kept by
every step (`OrderKept`); `Passed` counts the packets that were given out.

### The packets: `PacketProofs`

- `StaysInMemory`: `InsideMemory`, for requests of every type, with strings, payloads and lists of
  any length, for any sizes of the buffers and any number of retransmissions;
- `SaysWhatItShould`: `SaysWhatWasAsked`, the meaning of what was sent, for the same requests.

They assume `Requests \subseteq Proper`, `MaxString >= 4` (the name of the protocol is a string too)
and `TxBuffer <= RxBuffer`. `Proper` says what may be asked for, by the fields of a request
and not by what is written: the length can be encoded, no string is longer than
`MaxString`, a will has a payload as long as it says, a payload to be fetched is not
empty, and the length of the whole has as many digits as the one reserved for. What it leaves
out is in the list above. Lists may be empty here, and bytes any numbers.

The constructors add up sizes first and write afterwards, in two loops that have to agree.
`ListSize` proves it for the two loops over a list (`TotalAdds` and `FlattenJoins` unfold
`Total` and `FlattenSeq` by one item, by `SetInduction`), `StringSized` for a string,
`WillFits` for a will, `CodeSized` for the digits of a length; `ConnectSized`, `PublishSized`,
`SubscribeSized`, `UnsubscribeSized` and `ShortSized` put them together
and `FillsReserved` says it of all. For the sending, `MemInv` adds to the absence of faults what
`_chunkedAvailable` relies on: `Laid`, the memory has the size reserved and `_payloadIndex` is the
length of the header; `Window`, the indices of a chunk span no more than the room behind
the header and end before the packet; `Asked`, between `available()` and `data()` the next
byte lies in the header or behind the start of the chunk. It says nothing of a byte
beyond the end of the chunk because `available()` counts from the same end.

For the meaning the reader of the model, which follows MQTT 3.1.1 and knows nothing of the
constructors, is run on what the constructors write. `Holds(b, k, s)` says that the bytes `s` lie in
`b` behind the first `k`. A string that lies there is read back (`StringHeld`), so is a
row of strings (`Strung`, `TextsRead`: the optional fields of CONNECT) and a list of topics
(`ListRead`, `ItemsRead`); the length comes out of its digits (`CodeRead`, `FrameRead`, by
`Spells`), the flags out of their byte (`PublishBits`, `ConnectBits`). One lemma for each type
(`SaysShort`, `SaysPublish`, `SaysSubscribe`, `SaysUnsubscribe`, `SaysConnect`) puts them
together, and `SaysAll` is all of them: the *image* of a request, which is all it should send, means what was
asked for. That the image is what is sent is an invariant, `WireInv`, beside `MemInv`:
`BeginningIs`, what lies in front of a chunk is the beginning of the image; `ChunkIs`, what
lies behind the header is the part of the payload that the indices name, once a chunk was
fetched; `WireIs`, the wire is a prefix of the image. `NextBytes` is the key: whatever the
indices are, the bytes `data()` shows are the next ones of the image. `setDup` changes memory and
image alike; of the last sending, which is then on the wire, `WireIs` speaks no more.

### The pool: `PoolProofs`

For any size of the buffer, of headers and of requests, and any number of threads or clients:

- `PoolTypes`, `PoolSafe`: `PoolTypeOK` and `BlocksDisjoint` of `VariablePool`;
- `NoUnitLost`: while nobody is at work the free list, which is sorted and whose blocks are
  merged, and the blocks handed out make up the buffer (`NothingLost`);
- `PoolIsFirstFit`: the pool implements `Allocator` (`ImplementsAllocator`);
- `MemorySafe`, `MemoryOwned`: `BlocksDisjoint` and `DataHasOneOwner` of `PacketMemory`;
- `MemoryIsFirstFit`: `ImplementsAllocator`, under the clients;
- `NodesAreKept`: `NodesConserved`, the nodes of the outboxes.

That two blocks do not overlap says nothing about the free list, from which the next block
is cut, so `IInv` describes the buffer as a whole. There are sets `F` of free blocks and
`H` of blocks handed out or about to be freed that *tile* it: they lie side by
side, each as long as its header says. `Chain`: from `head` the links go through `F` in
the order of addresses. `Apart`: no free block ends where the next one begins. `Held`: `H` is what
is owned or being freed. `Walks`: the holder of the mutex stands at two successive
blocks of `F`, all free blocks before it being too short (`malloc`) or below the
block (`free`). `malloc` moves a block from `F` to `H`, whole or in part (`TakenWhole`,
`TakenSplit`); `free` moves it back, and merges it with its neighbours (`GivenFirst`,
`GivenBehind`, `MergeNeighbours`). For the clients `Owners` adds which packet, or which
`malloc` that has returned, a block is of; that their steps are steps of the
pool is `MemoryUsesPool`.

For the refinement a walk of `malloc` is a stutter until it ends. `FitsHere` and
`NothingFits` turn what is known of headers into runs of free units: a free block is a run
that ends at a unit in use or the end of the buffer, since free blocks are not neighbours, so a
run that is long enough starts in a block that is. `TakeAllocates` and `FailureRefuses` follow with
`Walks`: every block passed was too short, so the block taken is the lowest that
fits, and at the end none does. `FreeGivesBack` is the step of `free`.

The free nodes of an outbox are those the links lead to, that is, the least set with the
first node that is closed under the links (`Reached`). `NodesInv` adds to
`NodesConserved` that no node of the list is the next of two and none leads back to the first: without
this a node taken from the front could still be reached. Behind it are `TakeFirst`
and `PutFirst`, for `malloc` and `free` of `Fixed.h`.

### The callbacks: `CallbackProofs`

`NodesAreAlive`, `CallsInOrder`, `EveryoneIsCalled` (`NoDeadNode`, `CalledInOrder`,
`NoneMissed`), for any number of callbacks, events and changes while an event is passed on,
under `~RemovesRunning`: a callback that removes itself erases the node at which the
iterator stands. The inductive invariant says that the keys of the list increase, that the
iterator is at a node of the list or at its end, and that what was called, or passed, lies before it.

### Only model-checked

- Liveness under fairness, which is out of the provers' reach.
- `Framing` with retransmissions on one connection: the code breaks it (run `FramingRetry`).

## Not modelled

The synchronous transports of WiFi libraries beyond what a socket does, the asynchronous
client (its behaviour depends on the moments and threads in which AsyncTCP, which is not
part of the repository, makes its callbacks: whether `stop()` calls `onDisconnectCb`
decides whether `onDisconnect` is called twice), the ESP8266 spin lock, the ESP32 task and its
watchdog, logging, the setters (plain assignments before `connect()`), names of codes. Two switches of
`Config.h` keep their default 1: with `EMC_WAIT_FOR_CONNACK` 0 a client in `connectingMqtt` runs the
branch of the connected one and sends packets behind CONNECT before CONNACK is there
(`MqttClient.cpp:247`); with `EMC_ALLOW_NOT_CONNECTED_PUBLISH` 0 `publish()` is refused until
the client is connected.
The destructor (`disconnect(true)`, then all is dropped) ends the object. Two threads in
one list of callbacks are undefined behaviour. Strings that are too long for MQTT are in
`encodeString`, but in no run.

## Plan

Done: the outbox, the client with all its handlers, the broker, the lifecycle,
exchanges and liveness, the POSIX transport, the parser, the packets, the memory pool and
its users, the callbacks. Next, in this order:

1. `Parser` under `MqttClient`: the bytes of the broker go through the parser, a
   buffer is dropped behind CONNACK, and `_onPublish` gets long payloads in pieces.
2. `KeepAlive`: `_checkPing` and `_checkTimeout` on a clock of finite width, to
   check the abstraction `TimePasses` and the comparison of `millis()` with a
   narrower `timeSent`.

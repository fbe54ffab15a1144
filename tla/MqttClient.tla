------------------------------ MODULE MqttClient ------------------------------
(****************************************************************************)
(* The MQTT 3.1.1 client of src/src/MqttClient.cpp on a byte stream: its    *)
(* connection state machine, its outbox, its handlers for packets of the    *)
(* broker, and the public calls.                                            *)
(*                                                                          *)
(* loop() is one sequential process with the program counter lpc.  The      *)
(* public calls are made by Thread.  With Threaded they run beside the      *)
(* loop (ESP32 task, Linux thread); without, they come from the program     *)
(* that calls loop() itself, between two calls or from a callback.  A call  *)
(* has the two steps of the code: it reads the state, then acts on what it  *)
(* read; all but disconnect() act under the mutex that the loop holds.      *)
(*                                                                          *)
(* Abstracted: contents of packets other than type, id, qos and dup; time   *)
(* (idle says which timers have run out); a packet is PubSize or one unit   *)
(* of bytes, and a write takes any number of units.                         *)
(****************************************************************************)
EXTENDS Integers, FiniteSets, OutboxOps

CONSTANTS Thread,       \* callers of the public functions
          Threaded,     \* they run beside the loop
          KeepAlive,    \* _keepAlive # 0
          Retry,        \* the time to retransmit (_timeout) may run out
          MayFail,      \* a packet may not be created for lack of memory
          Posix,        \* the transport is ClientPosix
          MaxId,        \* packet ids are 1 .. MaxId (65535 in the code)
          PubSize,      \* units of bytes in a PUBLISH or CONNECT
          WireCap,      \* packets that fit the send buffer of the socket
          Msg,          \* identities of the messages the broker publishes
          Budget,       \* how often each call may be made
          None

ASSUME ClientAssumption ==
  /\ {Threaded, KeepAlive, Retry, MayFail, Posix} \subseteq BOOLEAN
  /\ MaxId \in Nat \ {0} /\ PubSize \in Nat \ {0} /\ WireCap \in Nat \ {0}
  /\ Thread # {}

VARIABLES state,        \* _state
          outbox,       \* _outbox, with its cursor _current
          bytesSent,    \* _bytesSent: units sent of the current packet
          packetId,     \* _packetId
          pingSent,     \* _pingSent
          reason,       \* _disconnectReason
          idle,         \* time since _lastServer/ClientActivity, in _keepAlive
          lpc,          \* where loop() is
          branch,       \* the case of its switch: "mqtt" (connectingMqtt) or "full"
          rx,           \* packets of _rxBuffer still to be handled
          apc,          \* what each thread has checked and is about to do
          left,         \* calls left
          tcp,          \* the socket: "closed", "open" or "reset" by the peer
          wire,         \* what was written: whole packets, half a packet, ok
          s2c,          \* packets that arrived and were not read
          hist          \* what the application saw

\* passes through loop() for each _keepAlive, at least
MinPasses == 2

client == <<state, outbox, bytesSent, packetId, pingSent, reason, idle>>
control == <<lpc, branch, rx>>
net == <<tcp, wire, s2c>>
app == <<apc, left, hist>>
clientVars == <<client, control, net, app>>

Teardown == {"disconnectingTcp1", "disconnectingTcp2"}
Leaving == Teardown \cup {"disconnectingMqtt1", "disconnectingMqtt2"}
State == Leaving \cup
  {"disconnected", "connectingTcp1", "connectingTcp2", "connectingMqtt", "connected"}

\* packets: a control packet with an id, and a PUBLISH
Ctl(t, i) == [type |-> t, id |-> i, qos |-> 0, dup |-> FALSE]
Pub(i, q) == [type |-> "PUBLISH", id |-> i, qos |-> q, dup |-> FALSE]

\* The largest size_t, which is no size of a packet.
SizeMax == PubSize + 1

Size(p) == IF p.type \in {"PUBLISH", "CONNECT"} THEN PubSize ELSE 1

\* Mutant: PUBREL is not kept until PUBCOMP.
RemovablePubrel(p) == p.id = 0 \/ p.type \in {"PUBACK", "PUBREL", "PUBCOMP"}

Removable(p) == p.id = 0 \/ p.type \in {"PUBACK", "PUBCOMP"}

\* 16 bit counter that skips 0 and does not look at the ids in use
NextPacketId == IF packetId = MaxId THEN 1 ELSE packetId + 1

\* Mutants: one of the types of mode 0 is forgotten.
KeptWithoutPublish(mode, p) ==
  IF mode = 0 THEN p.type \in {"PUBREC", "PUBREL"}
              ELSE mode = 1 /\ p.type = "PUBLISH"
KeptWithoutPubrec(mode, p) ==
  IF mode = 0 THEN p.type = "PUBREL" \/ (p.type = "PUBLISH" /\ p.id # 0)
              ELSE mode = 1 /\ p.type = "PUBLISH"

\* _clearQueue(mode)
Kept(mode, p) ==
  CASE mode = 0 -> \/ p.type \in {"PUBREC", "PUBREL"}
                   \/ p.type = "PUBLISH" /\ p.id # 0
    [] mode = 1 -> p.type = "PUBLISH"
    [] mode = 2 -> FALSE

ClearQueue(o, mode) == KeepOnly(o, {p \in Range(o.q) : Kept(mode, p)})

\* _addPacket: what the outbox may be afterwards; a packet that cannot be
\* created leaves it as it was.
AddPacket(o, p) == {Emplace(o, p)} \cup IF MayFail THEN {o} ELSE {}

\* _addPacketFront: the node may not be created, or be removed again because
\* of an error in the packet, which has moved the cursor to the front.
AddPacketFrontFails(o) == IF MayFail THEN {o, ResetCurrent(o)} ELSE {}

\* Writing k units of p from offset off to the socket.  The stream is in
\* order (ok) while each packet is continued where it was left.
\* once holds the ids of the PUBLISH packets ever written as a whole.
NewWire(ids) == [sent |-> <<>>, part |-> None, ok |-> TRUE, once |-> ids]

Write(w, p, off, k) ==
  LET fits == w.part = IF off = 0 THEN None ELSE [pkt |-> p, off |-> off]
  IN  CASE k = 0                       -> w
        [] k > 0 /\ ~fits              -> [w EXCEPT !.ok = FALSE]
        [] k > 0 /\ fits /\ off + k < Size(p) ->
             [w EXCEPT !.part = [pkt |-> p, off |-> off + k]]
        [] OTHER -> [w EXCEPT !.sent = Append(@, p), !.part = None,
                              !.once = IF p.type = "PUBLISH" THEN @ \cup {p.id} ELSE @]
-----------------------------------------------------------------------------
(* The public calls *)

Locked == lpc \in {"send", "read", "parse", "ping", "timeout"}
InCallback == lpc \in {"cb", "cbConnect", "cbDisconnect"}
CallsIdle == \A t \in Thread : apc[t] = None

\* The loop's own thread makes a call while it runs no loop() code.
MayCall == Threaded \/ (CallsIdle /\ (lpc = "idle" \/ InCallback))
LoopMayStep == Threaded \/ CallsIdle

Calls == {"connect", "disconnect", "force", "publish0", "publish1", "publish2",
          "subscribe", "unsubscribe", "clear", "clearAll"}

ASSUME NoneAssumption == None \notin Calls

ASSUME BudgetAssumption == Budget \in [Calls -> Nat]

\* The unlocked test of _state with which the call begins.
Accepts(call) ==
  CASE call = "connect"    -> state = "disconnected"
    [] call = "disconnect" -> state = "connected"
    [] call = "force"      -> state \notin Teardown \cup {"disconnected"}
    [] call \in {"publish0", "publish1", "publish2"} -> state \notin Leaving
    [] call \in {"subscribe", "unsubscribe"} -> state = "connected"
    [] call \in {"clear", "clearAll"} -> TRUE

\* A call that is refused changes nothing.
Call(t, call) ==
  /\ MayCall
  /\ apc[t] = None
  /\ left[call] > 0
  /\ Accepts(call)
  /\ apc' = [apc EXCEPT ![t] = call]
  /\ left' = [left EXCEPT ![call] = @ - 1]
  /\ UNCHANGED <<client, control, net, hist>>

Return(t, call) == apc[t] = call /\ apc' = [apc EXCEPT ![t] = None]

Connect(t) ==
  /\ Return(t, "connect")
  /\ ~Locked
  /\ \/ /\ outbox' = EmplaceFront(outbox, Ctl("CONNECT", 0))
        /\ state' = "connectingTcp1"
        /\ hist' = [hist EXCEPT !.owed = @ + 1]
     \/ /\ outbox' \in AddPacketFrontFails(outbox)
        /\ UNCHANGED <<state, hist>>
  /\ UNCHANGED <<bytesSent, packetId, pingSent, reason, idle, control, net, left>>

\* disconnect() takes no lock.
Disconnect(t) ==
  /\ \/ Return(t, "disconnect") /\ state' = "disconnectingMqtt1"
     \/ Return(t, "force") /\ state' = "disconnectingTcp1"
  /\ UNCHANGED <<outbox, bytesSent, packetId, pingSent, reason, idle,
                 control, net, left, hist>>

\* publish, subscribe and unsubscribe: the packet p gets a new id, if it has one,
\* and goes to the back.
Request(t, call, p) ==
  /\ Return(t, call)
  /\ ~Locked
  /\ packetId' = IF call = "publish0" THEN packetId ELSE NextPacketId
  /\ LET r == IF call = "publish0" THEN p ELSE [p EXCEPT !.id = NextPacketId]
     IN  /\ outbox' \in AddPacket(outbox, r)
         /\ hist' = [hist EXCEPT !.asked =
                       IF outbox' = outbox THEN @ ELSE @ \cup {r}]
  /\ UNCHANGED <<state, bytesSent, pingSent, reason, idle, control, net, left>>

Publish(t) == \/ Request(t, "publish0", Pub(0, 0))
              \/ Request(t, "publish1", Pub(0, 1))
              \/ Request(t, "publish2", Pub(0, 2))

Subscribe(t) == Request(t, "subscribe", Ctl("SUBSCRIBE", 0))

Unsubscribe(t) == Request(t, "unsubscribe", Ctl("UNSUBSCRIBE", 0))

ClearQueueCall(t) ==
  /\ ~Locked
  /\ \/ Return(t, "clear") /\ outbox' = ClearQueue(outbox, 0)
     \/ Return(t, "clearAll") /\ outbox' = ClearQueue(outbox, 2)
  /\ UNCHANGED <<state, bytesSent, packetId, pingSent, reason, idle,
                 control, net, left, hist>>

\* What a call does once it has checked the state.
Act(t) ==
  \/ Connect(t) \/ Disconnect(t) \/ Publish(t) \/ Subscribe(t)
  \/ Unsubscribe(t) \/ ClearQueueCall(t)

AppNext == \E t \in Thread : (\E call \in Calls : Call(t, call)) \/ Act(t)
-----------------------------------------------------------------------------
(* loop(): connecting and disconnecting *)

At(pc) == lpc = pc /\ LoopMayStep
Goto(pc) == lpc' = pc

\* switch (_state): the branch that was read is run whatever the state becomes.
Dispatch ==
  /\ At("idle")
  /\ state # "disconnected"
  /\ Goto(CASE state = "connectingTcp1" -> "tcp1"
            [] state = "connectingTcp2" -> "tcp2"
            [] state \in {"connectingMqtt", "connected", "disconnectingMqtt2"} -> "check"
            [] state = "disconnectingMqtt1" -> "bye"
            [] state = "disconnectingTcp1" -> "stop"
            [] state = "disconnectingTcp2" -> "stopped")
  /\ branch' = IF state = "connectingMqtt" THEN "mqtt" ELSE "full"
  /\ idle' = IF KeepAlive /\ idle.passes < MinPasses
             THEN [idle EXCEPT !.passes = @ + 1] ELSE idle
  /\ UNCHANGED <<state, outbox, bytesSent, packetId, pingSent, reason,
                 rx, net, app>>

\* connected() of the transport.  That of ClientPosix does not notice a connection
\* that is lost, and disconnected() is its negation.
TransportConnected == IF Posix THEN tcp # "closed" ELSE tcp = "open"

\* The blocking connect of the transport.
TcpConnect ==
  /\ At("tcp1")
  /\ tcp' = "open" /\ wire' = NewWire(wire.once) /\ s2c' = <<>>
  /\ state' = "connectingTcp2"
  /\ Goto("tcp2")
  /\ UNCHANGED <<outbox, bytesSent, packetId, pingSent, reason, idle, branch, rx, app>>

Fails(r) == state' = "disconnectingTcp1" /\ reason' = r

\* Mutant: without the detour through disconnectingTcp1.
TcpConnectGivesUp ==
  /\ At("tcp1")
  /\ state' = "disconnected" /\ reason' = "TCP_DISCONNECTED"
  /\ Goto("idle")
  /\ UNCHANGED <<outbox, bytesSent, packetId, pingSent, idle, branch, rx, net, app>>

\* ClientPosix keeps the socket of a connect that fails; without an address or a
\* socket there is none.
TcpConnectFails ==
  /\ At("tcp1")
  /\ tcp' \in IF Posix THEN {tcp, "reset"} ELSE {tcp}
  /\ Fails("TCP_DISCONNECTED")
  /\ Goto("idle")
  /\ UNCHANGED <<outbox, bytesSent, packetId, pingSent, idle, branch, rx, wire, s2c, app>>

TcpConnected ==
  /\ At("tcp2")
  /\ IF TransportConnected
     THEN /\ state' = "connectingMqtt"
          /\ idle' = [srv |-> 0, cli |-> 0, passes |-> idle.passes]
          /\ UNCHANGED reason
     ELSE Fails("TCP_DISCONNECTED") /\ UNCHANGED idle
  /\ Goto("idle")
  /\ UNCHANGED <<outbox, bytesSent, packetId, pingSent, branch, rx, net, app>>

\* _transport->connected(), then the mutex is taken.
CheckTransport ==
  /\ At("check")
  /\ Goto(IF TransportConnected THEN "send" ELSE "lost")
  /\ UNCHANGED <<client, branch, rx, net, app>>

TransportLost ==
  /\ At("lost")
  /\ Fails("TCP_DISCONNECTED")
  /\ Goto("idle")
  /\ UNCHANGED <<outbox, bytesSent, packetId, pingSent, idle, branch, rx, net, app>>

\* Mutants: the goodbye does not wait, or not for acknowledgements.
SayGoodbyeIf(ready) ==
  /\ At("bye")
  /\ IF ready
     THEN /\ outbox' = Emplace(outbox, Ctl("DISCONNECT", 0))
          /\ state' = "disconnectingMqtt2"
     ELSE UNCHANGED <<outbox, state>>
  /\ Goto("send")
  /\ UNCHANGED <<bytesSent, packetId, pingSent, reason, idle, branch, rx, net, app>>
SayGoodbyeAtOnce == SayGoodbyeIf(TRUE)
SayGoodbyeWhenSent == SayGoodbyeIf(~HasCurrent(outbox))

\* disconnectingMqtt1: DISCONNECT goes into an outbox that has run empty.
SayGoodbye ==
  /\ At("bye")
  /\ IF outbox.q = <<>>
     THEN /\ outbox' \in AddPacket(outbox, Ctl("DISCONNECT", 0))
          /\ state' = IF outbox'.q = <<>> THEN state ELSE "disconnectingMqtt2"
     ELSE UNCHANGED <<outbox, state>>
  /\ Goto("send")
  /\ UNCHANGED <<bytesSent, packetId, pingSent, reason, idle, branch, rx, net, app>>

\* Mutant: the socket is not closed.
StopTransportLeftOpen ==
  /\ At("stop")
  /\ state' = "disconnectingTcp2"
  /\ Goto("idle")
  /\ UNCHANGED <<outbox, bytesSent, packetId, pingSent, reason, idle,
                 branch, rx, net, app>>

StopTransport ==
  /\ At("stop")
  /\ tcp' = "closed"
  /\ state' = "disconnectingTcp2"
  /\ Goto("idle")
  /\ UNCHANGED <<outbox, bytesSent, packetId, pingSent, reason, idle,
                 branch, rx, wire, s2c, app>>

\* Mutant: _bytesSent is not reset.
DisconnectedMidPacket ==
  /\ At("stopped")
  /\ ~TransportConnected
  /\ outbox' = ClearQueue(outbox, 0)
  /\ state' = "disconnected"
  /\ hist' = [hist EXCEPT !.owed = @ - 1, !.told = reason]
  /\ Goto("cbDisconnect")
  /\ UNCHANGED <<bytesSent, packetId, pingSent, reason, idle, branch, rx, net, apc, left>>

\* disconnectingTcp2, and the call of onDisconnect.
Disconnected ==
  /\ At("stopped")
  /\ ~TransportConnected
  /\ outbox' = ClearQueue(outbox, 0)
  /\ bytesSent' = 0
  /\ state' = "disconnected"
  /\ hist' = [hist EXCEPT !.owed = @ - 1, !.told = reason]
  /\ Goto("cbDisconnect")
  /\ UNCHANGED <<packetId, pingSent, reason, idle, branch, rx, net, apc, left>>

-----------------------------------------------------------------------------
(* loop(): sending, under the mutex *)

\* _advanceOutbox(): once the current packet is written as a whole, the cursor
\* leaves it, and packets that need no answer are dropped.
FullySent(o, n) == HasCurrent(o) /\ n = Size(Current(o))

\* Mutant: setDup is not called.
AdvancedWithoutDup(o, n) ==
  CASE ~FullySent(o, n)                            -> o
    [] FullySent(o, n) /\ Removable(Current(o))  -> RemoveCurrent(o)
    [] FullySent(o, n) /\ ~Removable(Current(o)) -> NextItem(o)

Advanced(o, n) ==
  IF ~FullySent(o, n) THEN o
  ELSE IF Removable(Current(o)) THEN RemoveCurrent(o)
  ELSE NextItem([o EXCEPT !.q[o.c].dup = Current(o).type = "PUBLISH"])

\* ... DISCONNECT being the last one.
AdvanceState(s, o, n) ==
  IF FullySent(o, n) /\ Current(o).type = "DISCONNECT"
  THEN state' = "disconnectingTcp1" /\ reason' = "USER_OK"
  ELSE state' = s /\ UNCHANGED reason

\* What the socket may take: nothing only if it is not open or its buffer is
\* full, between two packets or in the middle of one.
Writable(k) ==
  IF k = 0 THEN ~Posix /\ (tcp # "open" \/ Len(wire.sent) >= WireCap \/ wire.part # None)
           ELSE tcp = "open" /\ Len(wire.sent) < WireCap

WantToWrite == IF HasCurrent(outbox) /\ bytesSent < Size(Current(outbox))
               THEN Size(Current(outbox)) - bytesSent ELSE 0

\* _sendPacket() once while CONNACK is awaited, else _checkOutbox(): packets
\* are sent until the socket takes no more.
SendPacket ==
  /\ At("send")
  /\ WantToWrite > 0
  /\ \E k \in 0 .. WantToWrite :
       /\ Writable(k)
       /\ wire' = Write(wire, Current(outbox), bytesSent, k)
       /\ idle' = [idle EXCEPT !.cli = 0]
       /\ IF branch = "mqtt" \/ k = 0
          THEN /\ bytesSent' = bytesSent + k
               /\ Goto("read")
               /\ UNCHANGED <<state, reason, outbox>>
          ELSE /\ AdvanceState(state, outbox, bytesSent + k)
               /\ outbox' = Advanced(outbox, bytesSent + k)
               /\ bytesSent' = IF FullySent(outbox, bytesSent + k)
                               THEN 0 ELSE bytesSent + k
               /\ Goto(IF HasCurrent(outbox') THEN "send" ELSE "read")
  /\ UNCHANGED <<packetId, pingSent, branch, rx, tcp, s2c, app>>

\* send() of ClientPosix waits until it can write something.  On a broken
\* connection it returns -1, which is added to _bytesSent as a size_t.
SendFails ==
  /\ Posix
  /\ At("send")
  /\ WantToWrite > 0 /\ tcp # "open"
  /\ bytesSent' = IF bytesSent = 0 THEN SizeMax ELSE bytesSent - 1
  /\ idle' = [idle EXCEPT !.cli = 0]
  /\ Goto("read")
  /\ UNCHANGED <<state, outbox, packetId, pingSent, reason, branch, rx, net, app>>

NothingToSend ==
  /\ At("send")
  /\ WantToWrite = 0
  /\ Goto("read")
  /\ UNCHANGED <<client, branch, rx, net, app>>
-----------------------------------------------------------------------------
(* loop(): receiving, under the mutex except in callbacks *)

\* _checkIncoming(): one read takes all that has arrived.
Read ==
  /\ At("read")
  /\ rx' = s2c
  /\ s2c' = <<>>
  /\ idle' = IF s2c = <<>> THEN idle ELSE [idle EXCEPT !.srv = 0]
  /\ Goto(IF s2c = <<>> THEN "ping" ELSE "parse")
  /\ UNCHANGED <<state, outbox, bytesSent, packetId, pingSent, reason, branch,
                 tcp, wire, app>>

Continue(rest) == rx' = rest /\ Goto(IF rest = <<>> THEN "ping" ELSE "parse")
\* return: the rest of the buffer is dropped.
StopReceiving == Continue(<<>>)
\* The callback is called with the mutex released.
CallBack == rx' = Tail(rx) /\ Goto("cb")

\* The packet being handled.
Incoming(type) == At("parse") /\ Head(rx).type = type
\* A packet of the broker that is no CONNACK is taken for one that is due.
Unexpected == state = "connectingMqtt" /\ Head(rx).type # "CONNACK"

ExpectedConnack ==
  /\ At("parse")
  /\ Head(rx).type # "MALFORMED"
  /\ Unexpected
  /\ state' = "disconnectingTcp1"
  /\ StopReceiving
  /\ UNCHANGED <<outbox, bytesSent, packetId, pingSent, reason, idle,
                 branch, net, app>>

ProtocolError ==
  /\ Incoming("MALFORMED")
  /\ Fails("TCP_DISCONNECTED")
  /\ StopReceiving
  /\ UNCHANGED <<outbox, bytesSent, packetId, pingSent, idle, branch, net, app>>

\* Mutant: _pingSent outlives the connection.
OnConnackPingKept ==
  /\ Incoming("CONNACK")
  /\ Head(rx).ok
  /\ AdvanceState("connected", outbox, bytesSent)
  /\ bytesSent' = IF FullySent(outbox, bytesSent) THEN 0 ELSE bytesSent
  /\ outbox' = LET o == Advanced(outbox, bytesSent)
               IN  IF Head(rx).sessionPresent THEN o ELSE ClearQueue(o, 1)
  /\ rx' = Tail(rx)
  /\ Goto("cbConnect")
  /\ UNCHANGED <<packetId, pingSent, idle, branch, net, app>>

OnConnack ==
  /\ Incoming("CONNACK")
  /\ Head(rx).ok
  /\ pingSent' = FALSE
  /\ AdvanceState("connected", outbox, bytesSent)
  /\ bytesSent' = IF FullySent(outbox, bytesSent) THEN 0 ELSE bytesSent
  /\ outbox' = LET o == Advanced(outbox, bytesSent)
               IN  IF Head(rx).sessionPresent THEN o ELSE ClearQueue(o, 1)
  /\ rx' = Tail(rx)
  /\ Goto("cbConnect")
  /\ UNCHANGED <<packetId, idle, branch, net, app>>

OnConnackRefused ==
  /\ Incoming("CONNACK")
  /\ ~Head(rx).ok
  /\ Fails("REFUSED")
  /\ StopReceiving
  /\ UNCHANGED <<outbox, bytesSent, packetId, pingSent, idle, branch, net, app>>

Notify(seen) == hist' = seen /\ CallBack /\ UNCHANGED <<apc, left>>
Received(p) == [hist EXCEPT !.got[<<p.msg, p.qos>>] = @ + 1]

\* The part of a handler that only changes the outbox.
OutboxOnly ==
  UNCHANGED <<state, bytesSent, packetId, pingSent, reason, idle, branch, net>>

\* Mutant: the dup flag is trusted.
DeliveredIfDup(p) == p.dup

\* A QoS 2 message whose PUBREC is still in the outbox was delivered before.
Delivered(p) == \E k \in 1 .. Len(outbox.q) :
  outbox.q[k].type = "PUBREC" /\ outbox.q[k].id = p.id

OnPublish ==
  /\ Incoming("PUBLISH")
  /\ ~Unexpected
  /\ OutboxOnly
  /\ LET p == Head(rx)
     IN  IF state \in Leaving
         THEN Continue(Tail(rx)) /\ UNCHANGED <<outbox, app>>
         ELSE /\ outbox' \in CASE p.qos = 0 -> {outbox}
                              [] p.qos = 1 -> AddPacket(outbox, Ctl("PUBACK", p.id))
                              [] p.qos = 2 -> AddPacket(outbox, Ctl("PUBREC", p.id))
              /\ IF p.qos = 2 /\ Delivered(p)
                 THEN Continue(Tail(rx)) /\ UNCHANGED app
                 ELSE Notify(Received(p))

\* Mutant: the id is not compared.
FirstIsAnyId(type, i, k) ==
  /\ k \in 1 .. Len(outbox.q)
  /\ outbox.q[k].type = type
  /\ \A j \in 1 .. k - 1 : outbox.q[j].type # type

\* The handlers of acknowledgements look at the first packet of the type they
\* answer, and at no other.
FirstIs(type, i, k) ==
  /\ k \in 1 .. Len(outbox.q)
  /\ outbox.q[k].type = type /\ outbox.q[k].id = i
  /\ \A j \in 1 .. k - 1 : outbox.q[j].type # type

Matches(type, i) == \E k \in 1 .. Len(outbox.q) : FirstIs(type, i, k)

\* An answer that ends an exchange: the packet leaves the outbox and the
\* application is told; without a match nothing happens.
Finish(answer, type) ==
  /\ Incoming(answer)
  /\ ~Unexpected
  /\ OutboxOnly
  /\ LET i == Head(rx).id
     IN  \/ \E k \in 1 .. Len(outbox.q) :
              /\ FirstIs(type, i, k)
              /\ outbox' = RemoveItem(outbox, k)
              /\ Notify([hist EXCEPT !.acked = @ \cup {i}])
         \/ ~Matches(type, i) /\ Continue(Tail(rx)) /\ UNCHANGED <<outbox, app>>

OnPuback == Finish("PUBACK", "PUBLISH")
OnPubcomp == Finish("PUBCOMP", "PUBREL")

\* Mutant: the answered packet is not removed.
ReplyOnly(answer, type, reply) ==
  /\ Incoming(answer)
  /\ ~Unexpected
  /\ OutboxOnly
  /\ outbox' \in IF Matches(type, Head(rx).id)
                 THEN AddPacket(outbox, Ctl(reply, Head(rx).id)) ELSE {outbox}
  /\ Continue(Tail(rx))
  /\ UNCHANGED app

\* An answer that continues an exchange: the reply is appended, then the
\* packet removed, even when the reply could not be created.
Reply(answer, type, reply) ==
  /\ Incoming(answer)
  /\ ~Unexpected
  /\ OutboxOnly
  /\ LET i == Head(rx).id
     IN  \/ \E k \in 1 .. Len(outbox.q) :
              /\ FirstIs(type, i, k)
              /\ \E o \in AddPacket(outbox, Ctl(reply, i)) : outbox' = RemoveItem(o, k)
         \/ ~Matches(type, i) /\ UNCHANGED outbox
  /\ Continue(Tail(rx))
  /\ UNCHANGED app

OnPubrec == Reply("PUBREC", "PUBLISH", "PUBREL")
OnPubrel == Reply("PUBREL", "PUBREC", "PUBCOMP")

\* SUBACK ends the SUBSCRIBE with its id, UNSUBACK the first packet with its
\* id whatever its type.
Answered(k, i, types) ==
  /\ k \in 1 .. Len(outbox.q)
  /\ outbox.q[k].type \in types /\ outbox.q[k].id = i

Settle(answer, types) ==
  /\ Incoming(answer)
  /\ ~Unexpected
  /\ OutboxOnly
  /\ LET i == Head(rx).id
     IN  \/ \E k \in 1 .. Len(outbox.q) :
              /\ Answered(k, i, types)
              /\ \A j \in 1 .. k - 1 : ~Answered(j, i, types)
              /\ outbox' = RemoveItem(outbox, k)
              /\ Notify([hist EXCEPT !.acked = @ \cup {i}])
         \/ /\ \A k \in 1 .. Len(outbox.q) : ~Answered(k, i, types)
            /\ Continue(Tail(rx)) /\ UNCHANGED <<outbox, app>>

AllTypes == {"CONNECT", "PUBLISH", "PUBACK", "PUBREC", "PUBREL", "PUBCOMP",
             "SUBSCRIBE", "UNSUBSCRIBE", "PINGREQ", "DISCONNECT"}

OnSuback == Settle("SUBACK", {"SUBSCRIBE"})
OnUnsuback == Settle("UNSUBACK", AllTypes)

OnPingresp ==
  /\ Incoming("PINGRESP")
  /\ ~Unexpected
  /\ pingSent' = FALSE
  /\ Continue(Tail(rx))
  /\ UNCHANGED <<state, outbox, bytesSent, packetId, reason, idle, branch, net, app>>

\* The mutex is taken again.
CallbackReturns ==
  /\ At("cb")
  /\ Continue(rx)
  /\ UNCHANGED <<client, branch, net, app>>

\* Mutant: the state is set when onConnect has returned.
ConnectCallbackReturnsFirst ==
  /\ At("cbConnect")
  /\ state' = "connected"
  /\ Continue(rx)
  /\ UNCHANGED <<outbox, bytesSent, packetId, pingSent, reason, idle, branch, net, app>>

\* onConnect may have left the state "connected".
ConnectCallbackReturns ==
  /\ At("cbConnect")
  /\ IF state = "connected" THEN Continue(rx) ELSE StopReceiving
  /\ UNCHANGED <<client, branch, net, app>>

DisconnectCallbackReturns ==
  /\ At("cbDisconnect")
  /\ Goto("idle")
  /\ UNCHANGED <<client, branch, rx, net, app>>
-----------------------------------------------------------------------------
(* loop(): timers, under the mutex *)

\* _checkTimeout() is skipped while CONNACK is awaited.
AfterPing == Goto(IF branch = "mqtt" THEN "idle" ELSE "timeout")

PingDue == ~pingSent /\ (idle.srv > 0 \/ idle.cli > 0)

\* Mutants: the timeout is looked at in some states only.
TimedOutNotConnecting == KeepAlive /\ idle.srv = 2 /\ branch = "full"
TimedOutConnected == KeepAlive /\ idle.srv = 2 /\ state = "connected"

\* The server was silent for twice the keep-alive time.
TimedOut == KeepAlive /\ idle.srv = 2

\* _checkPing()
CheckPing ==
  /\ At("ping")
  /\ IF TimedOut
     THEN Fails("TCP_DISCONNECTED") /\ UNCHANGED <<outbox, pingSent>>
     ELSE /\ UNCHANGED <<state, reason>>
          /\ IF KeepAlive /\ PingDue
             THEN \E o \in AddPacket(outbox, Ctl("PINGREQ", 0)) :
                    outbox' = o /\ pingSent' = (o # outbox)
             ELSE UNCHANGED <<outbox, pingSent>>
  /\ AfterPing
  /\ UNCHANGED <<bytesSent, packetId, idle, branch, rx, net, app>>

\* _checkTimeout(): the answer to the first packet is late, all are sent again.
RetryDue == Retry /\ outbox.q # <<>> /\ bytesSent = 0 /\ outbox.c # 1

Retransmit ==
  /\ At("timeout")
  /\ RetryDue
  /\ outbox' = ResetCurrent(outbox)
  /\ Goto("idle")
  /\ UNCHANGED <<state, bytesSent, packetId, pingSent, reason, idle,
                 branch, rx, net, app>>

NoRetransmit ==
  /\ At("timeout")
  /\ Goto("idle")
  /\ UNCHANGED <<client, branch, rx, net, app>>
-----------------------------------------------------------------------------
Connecting == TcpConnectFails \/ TcpConnected \/ CheckTransport \/ TransportLost
Disconnecting == SayGoodbye \/ StopTransport \/ Disconnected
Sending == SendPacket \/ SendFails \/ NothingToSend
Receiving ==
  \/ Read \/ ExpectedConnack \/ ProtocolError \/ OnConnack \/ OnConnackRefused
  \/ OnPublish \/ OnPuback \/ OnPubrec \/ OnPubrel \/ OnPubcomp
  \/ OnSuback \/ OnUnsuback \/ OnPingresp
Callbacks == CallbackReturns \/ ConnectCallbackReturns \/ DisconnectCallbackReturns
Timers == CheckPing \/ Retransmit \/ NoRetransmit

\* All of loop() but TcpConnect, which the broker takes part in.
LoopNext == Dispatch \/ Connecting \/ Disconnecting \/ Sending \/ Receiving
            \/ Callbacks \/ Timers

\* _keepAlive goes by.  It is long against a pass through loop(), of which it
\* sees MinPasses, except where that waits for the application (or connects,
\* and then sets the timers anew).
TimePasses ==
  /\ KeepAlive
  /\ lpc = "idle" \/ InCallback
  /\ idle.passes = MinPasses
  /\ state # "disconnected"
  /\ idle' = [srv |-> IF idle.srv < 2 THEN idle.srv + 1 ELSE 2, cli |-> 1,
              passes |-> 0]
  /\ UNCHANGED <<state, outbox, bytesSent, packetId, pingSent, reason,
                 control, net, app>>

ClientInit ==
  /\ state = "disconnected" /\ outbox = EmptyOutbox /\ bytesSent = 0
  /\ packetId = 0 /\ pingSent = FALSE /\ reason = "TCP_DISCONNECTED"
  /\ idle = [srv |-> 0, cli |-> 0, passes |-> 0]
  /\ lpc = "idle" /\ branch = "full" /\ rx = <<>>
  /\ apc = [t \in Thread |-> None] /\ left = Budget
  /\ tcp = "closed" /\ wire = NewWire({}) /\ s2c = <<>>
  /\ hist = [owed |-> 0, asked |-> {}, acked |-> {}, told |-> None,
             got |-> [x \in Msg \X (0 .. 2) |-> 0]]
=============================================================================

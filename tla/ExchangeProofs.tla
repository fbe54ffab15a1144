---------------------------- MODULE ExchangeProofs ----------------------------
(****************************************************************************)
(* What client and broker promise together about a message of QoS 1 or 2:   *)
(* it is not lost, its exchange is not dropped, and it arrives at most once *)
(* where the session is kept.                                               *)
(*                                                                          *)
(* The first part is what the variables of MqttSystem hold, and what one    *)
(* step of it can do to the packets under way: those of the outbox, those   *)
(* written to the wire and those on the way to the client.  It holds for    *)
(* any number of threads, with or without the lack of memory,               *)
(* retransmissions and lost sessions.  Every proof goes over these kinds of *)
(* steps, in any order of client, broker, network and threads.              *)
(****************************************************************************)
EXTENDS MqttSystem, Facts

\* Requests of the client and PUBREL have one of its packet ids; what answers the
\* broker has one of the broker's.
ClientPacket ==
  {p \in Packet :
     /\ p.type \in {"SUBSCRIBE", "UNSUBSCRIBE", "PUBREL"} => p.id \in 1 .. MaxId
     /\ p.type = "PUBLISH" => IF p.qos = 0 THEN p.id = 0 ELSE p.id \in 1 .. MaxId
     /\ p.type \in {"PUBACK", "PUBREC", "PUBCOMP"} => p.id \in BrokerMsg
     /\ p.type \in {"CONNECT", "PINGREQ", "DISCONNECT"} => p.id = 0}

BrokerPacket ==
  [type : {"PUBACK", "PUBREC", "PUBCOMP", "SUBACK", "UNSUBACK"}, id : 1 .. MaxId]
  \cup [type : {"PINGRESP", "MALFORMED"}, id : {0}]
  \cup [type : {"PUBREL"}, id : BrokerMsg]
  \cup [type : {"CONNACK"}, ok : BOOLEAN, sessionPresent : BOOLEAN]
  \cup {p \in [type : {"PUBLISH"}, id : {0} \cup BrokerMsg, qos : 0 .. 2,
               msg : BrokerMsg, dup : BOOLEAN] : p.qos = 0 <=> p.id = 0}

\* A message of the broker that is not finished.
Flight == [id : BrokerMsg, qos : 1 .. 2, msg : BrokerMsg, released : BOOLEAN]

Reasons == {"TCP_DISCONNECTED", "USER_OK", "REFUSED"}
Places == {"idle", "tcp1", "tcp2", "check", "lost", "bye", "stop", "stopped", "send",
           "read", "parse", "cb", "cbConnect", "cbDisconnect", "ping", "timeout"}

ClientTyped ==
  /\ state \in State
  /\ bytesSent \in (0 .. PubSize) \cup {SizeMax} /\ packetId \in 0 .. MaxId
  /\ pingSent \in BOOLEAN /\ reason \in Reasons
  /\ idle \in [srv : 0 .. 2, cli : 0 .. 1, passes : 0 .. MinPasses]
ControlTyped ==
  /\ lpc \in Places /\ branch \in {"mqtt", "full"}
  /\ apc \in [Thread -> Calls \cup {None}] /\ left \in [Calls -> Nat]
  /\ tcp \in {"closed", "open", "reset"}
OutboxTyped == outbox \in Box(ClientPacket)
WireTyped ==
  /\ wire.sent \in Seq(ClientPacket)
  /\ DOMAIN wire = {"sent", "part", "ok", "once"}
\* Packets are left in the buffer only while one of them is being handled.
IncomingTyped ==
  /\ rx \in Seq(BrokerPacket) /\ s2c \in Seq(BrokerPacket)
  /\ rx # <<>> => lpc \in {"parse", "cb", "cbConnect"}
  /\ lpc = "parse" => rx # <<>>
HistTyped ==
  /\ hist \in [owed : Int, asked : SUBSET ClientPacket, acked : SUBSET (0 .. MaxId),
               told : Reasons \cup {None}, got : [Msg \X (0 .. 2) -> Nat]]
  /\ \A p \in hist.asked : p.type \in {"PUBLISH", "SUBSCRIBE", "UNSUBSCRIBE"}
BrokerTyped ==
  /\ bConn \in {"down", "wait", "up", "refused"}
  /\ session \in [present : BOOLEAN, recv : SUBSET (1 .. MaxId), out : Seq(Flight)]
  /\ unsent \subseteq BrokerMsg
  /\ passedOn \in [1 .. MaxId -> 0 .. 2]
  /\ drops \in Nat

TypeInv == /\ ClientTyped /\ ControlTyped /\ OutboxTyped /\ WireTyped
           /\ IncomingTyped /\ HistTyped /\ BrokerTyped

-----------------------------------------------------------------------------
(* The operators of MqttClient on typed values *)

LEMMA CtlTyped ==
  /\ \A t \in {"CONNECT", "PINGREQ", "DISCONNECT"} : Ctl(t, 0) \in ClientPacket
  /\ \A t \in {"SUBSCRIBE", "UNSUBSCRIBE", "PUBREL"} : \A i \in 1 .. MaxId : Ctl(t, i) \in ClientPacket
  /\ \A t \in {"PUBACK", "PUBREC", "PUBCOMP"} : \A i \in BrokerMsg : Ctl(t, i) \in ClientPacket
  /\ \A i \in 1 .. MaxId : \A q \in 1 .. 2 : Pub(i, q) \in ClientPacket
  /\ Pub(0, 0) \in ClientPacket
BY BrokerAssumption, ClientAssumption DEF Ctl, Pub, ClientPacket, Packet, AllTypes

LEMMA WithNewId ==
  ASSUME NEW p \in Packet, NEW i \in 0 .. MaxId
  PROVE  LET r == [p EXCEPT !.id = i]
         IN  /\ r \in Packet /\ r.id = i
             /\ r.type = p.type /\ r.qos = p.qos /\ r.dup = p.dup
BY DEF Packet

LEMMA AddPacketBox ==
  ASSUME NEW o \in Box(ClientPacket), NEW x \in ClientPacket, NEW r \in AddPacket(o, x)
  PROVE  r \in Box(ClientPacket) /\ (r = o \/ (r = Emplace(o, x) /\ r.q = Append(o.q, x)))
BY EmplaceBox DEF AddPacket

LEMMA ClearQueueBox ==
  ASSUME NEW o \in Box(ClientPacket), NEW mode
  PROVE  /\ ClearQueue(o, mode) \in Box(ClientPacket)
         /\ Within(ClearQueue(o, mode).q, o.q)
         /\ \A j \in 1 .. Len(o.q) : Kept(mode, o.q[j]) =>
              \E k \in 1 .. Len(ClearQueue(o, mode).q) : ClearQueue(o, mode).q[k] = o.q[j]
         /\ \A k \in 1 .. Len(ClearQueue(o, mode).q) : Kept(mode, ClearQueue(o, mode).q[k])
<1> DEFINE kept == {p \in Range(o.q) : Kept(mode, p)}
<1>1. ClearQueue(o, mode) = KeepOnly(o, kept)
  BY DEF ClearQueue
<1>2. \A j \in 1 .. Len(o.q) : Kept(mode, o.q[j]) => o.q[j] \in kept
  BY DEF Range, Box
<1>3. \A p \in kept : Kept(mode, p)
  OBVIOUS
<1> HIDE DEF kept
<1>4. o.q \in Seq(ClientPacket)
  BY DEF Box
<1>5. KeepOnly(o, kept) \in Box(ClientPacket) /\ KeepOnly(o, kept).q = Filter(o.q, kept)
  BY KeepOnlyBox
<1> QED BY <1>1, <1>2, <1>3, <1>4, <1>5, FilterHas

\* setDup changes the mark of one packet and nothing else.
LEMMA MarkBox ==
  ASSUME NEW o \in Box(ClientPacket), HasCurrent(o),
         NEW b \in BOOLEAN
  PROVE  LET r == [o EXCEPT !.q[o.c].dup = b]
         IN  /\ r \in Box(ClientPacket) /\ Len(r.q) = Len(o.q) /\ r.c = o.c
             /\ \A k \in 1 .. Len(o.q) : Same(r.q[k], o.q[k])
<1> DEFINE p == o.q[o.c]
           x == [p EXCEPT !.dup = b]
           r == [o EXCEPT !.q[o.c].dup = b]
<1>1. o.q \in Seq(ClientPacket) /\ o.c \in 1 .. Len(o.q) /\ p \in ClientPacket
  BY ElementOfSeq DEF Box, HasCurrent
<1>2. x \in ClientPacket /\ Same(x, p)
  BY <1>1 DEF ClientPacket, Packet, Same
<1>3. r = [o EXCEPT !.q = [o.q EXCEPT ![o.c] = x]]
  BY <1>1 DEF Box
<1> HIDE DEF x
<1>4. /\ [o.q EXCEPT ![o.c] = x] \in Seq(ClientPacket)
      /\ Len([o.q EXCEPT ![o.c] = x]) = Len(o.q)
      /\ \A j \in 1 .. Len(o.q) : [o.q EXCEPT ![o.c] = x][j] = IF j = o.c THEN x ELSE o.q[j]
  BY <1>1, <1>2, ExceptSeq
<1>5. r.q = [o.q EXCEPT ![o.c] = x] /\ r.c = o.c
  BY <1>3 DEF Box
<1>6. \A k \in 1 .. Len(o.q) : Same(r.q[k], o.q[k])
  BY <1>2, <1>4, <1>5 DEF Same
<1>7. r \in Box(ClientPacket)
  <2> HIDE DEF r
  <2>1. r = [q |-> [o.q EXCEPT ![o.c] = x], c |-> o.c]
    BY <1>3 DEF Box
  <2> QED BY <1>4, <2>1 DEF Box
<1> QED BY <1>4, <1>5, <1>6, <1>7 DEF r

\* Each packet of s with one of the types and an id is still in t.
Keeps(s, t, types) ==
  \A type \in types : \A i : i # 0 /\ Has(s, {type}, i) => Has(t, {type}, i)

Exchange == {"PUBLISH", "PUBREC", "PUBREL"}

LEMMA KeepsItself == ASSUME NEW s, NEW types PROVE Keeps(s, s, types)
BY DEF Keeps

LEMMA SameHas ==
  ASSUME NEW S, NEW s \in Seq(S), NEW t \in Seq(S), Len(s) = Len(t),
         \A k \in 1 .. Len(s) : Same(t[k], s[k]), NEW types
  PROVE  Within(t, s) /\ Keeps(s, t, types)
<1> DEFINE e == [k \in 1 .. Len(s) |-> k]
<1>1. /\ e \in [1 .. Len(t) -> 1 .. Len(s)]
      /\ \A j, k \in 1 .. Len(t) : j < k => e[j] < e[k]
      /\ \A k \in 1 .. Len(t) : Same(t[k], s[e[k]])
  OBVIOUS
<1>2. Keeps(s, t, types)
  BY DEF Keeps, Has, Same
<1> QED BY <1>1, <1>2 DEF Within

LEMMA ClearQueueKeeps ==
  ASSUME NEW o \in Box(ClientPacket)
  PROVE  /\ Keeps(o.q, ClearQueue(o, 0).q, Exchange)
         /\ Keeps(o.q, ClearQueue(o, 1).q, {"PUBLISH"})
<1>1. ASSUME NEW type \in Exchange, NEW i, i # 0, Has(o.q, {type}, i)
      PROVE  Has(ClearQueue(o, 0).q, {type}, i)
  <2>1. PICK j \in 1 .. Len(o.q) : o.q[j].type = type /\ o.q[j].id = i
    BY <1>1 DEF Has
  <2>2. Kept(0, o.q[j])
    BY <1>1, <2>1 DEF Kept, Exchange
  <2>3. PICK k \in 1 .. Len(ClearQueue(o, 0).q) : ClearQueue(o, 0).q[k] = o.q[j]
    BY <2>2, ClearQueueBox
  <2> QED BY <2>1, <2>3 DEF Has
<1>2. ASSUME NEW i, i # 0, Has(o.q, {"PUBLISH"}, i)
      PROVE  Has(ClearQueue(o, 1).q, {"PUBLISH"}, i)
  <2>1. PICK j \in 1 .. Len(o.q) : o.q[j].type = "PUBLISH" /\ o.q[j].id = i
    BY <1>2 DEF Has
  <2>2. Kept(1, o.q[j])
    BY <2>1 DEF Kept
  <2>3. PICK k \in 1 .. Len(ClearQueue(o, 1).q) : ClearQueue(o, 1).q[k] = o.q[j]
    BY <2>2, ClearQueueBox
  <2> QED BY <2>1, <2>3 DEF Has
<1> QED BY <1>1, <1>2 DEF Keeps

LEMMA RemoveItemKeeps ==
  ASSUME NEW o \in Box(ClientPacket), NEW j \in 1 .. Len(o.q), NEW types,
         o.q[j].type \notin types \/ o.q[j].id = 0
  PROVE  Keeps(o.q, RemoveItem(o, j).q, types)
<1>1. ASSUME NEW type \in types, NEW i, i # 0, Has(o.q, {type}, i)
      PROVE  Has(RemoveItem(o, j).q, {type}, i)
  <2>1. ~(o.q[j].type \in {type} /\ o.q[j].id = i)
    BY <1>1
  <2> QED BY <1>1, <2>1, RemoveItemHas
<1> QED BY <1>1 DEF Keeps

LEMMA AppendKeeps ==
  ASSUME NEW S, NEW s \in Seq(S), NEW x \in S, NEW types
  PROVE  Keeps(s, Append(s, x), types) /\ Keeps(s, <<x>> \o s, types)
<1>1. ASSUME NEW type \in types, NEW i, Has(s, {type}, i)
      PROVE  Has(Append(s, x), {type}, i) /\ Has(<<x>> \o s, {type}, i)
  BY <1>1, AppendHas, FrontHas
<1> QED BY <1>1 DEF Keeps

\* _advanceOutbox() drops no packet that waits for an answer.
LEMMA AdvancedBox ==
  ASSUME NEW o \in Box(ClientPacket), NEW n
  PROVE  /\ Advanced(o, n) \in Box(ClientPacket)
         /\ Within(Advanced(o, n).q, o.q)
         /\ Keeps(o.q, Advanced(o, n).q, Exchange)
<1>0. o.q \in Seq(ClientPacket) /\ Len(o.q) \in Nat
  BY DEF Box
<1>1. CASE ~FullySent(o, n)
  BY <1>0, <1>1, WithinItself, KeepsItself DEF Advanced
<1>2. CASE FullySent(o, n) /\ Removable(Current(o))
  <2>1. HasCurrent(o) /\ o.c \in 1 .. Len(o.q)
    BY <1>2 DEF FullySent, HasCurrent, Box
  <2>2. Advanced(o, n) = RemoveItem(o, o.c)
    BY <1>2, <2>1 DEF Advanced, RemoveCurrent
  <2>3. o.q[o.c].type \notin Exchange \/ o.q[o.c].id = 0
    BY <1>2 DEF Removable, Current, Exchange
  <2> QED BY <2>1, <2>2, <2>3, RemoveItemBox, RemoveItemKeeps
<1>3. CASE FullySent(o, n) /\ ~Removable(Current(o))
  <2> DEFINE b == Current(o).type = "PUBLISH"
             r == [o EXCEPT !.q[o.c].dup = b]
  <2>1. HasCurrent(o) /\ b \in BOOLEAN
    BY <1>3 DEF FullySent
  <2>2. Advanced(o, n) = NextItem(r)
    BY <1>3 DEF Advanced
  <2> HIDE DEF b
  <2>3. r \in Box(ClientPacket) /\ Len(r.q) = Len(o.q)
        /\ \A k \in 1 .. Len(o.q) : Same(r.q[k], o.q[k])
    BY <2>1, MarkBox
  <2> HIDE DEF r
  <2>4. NextItem(r) \in Box(ClientPacket) /\ NextItem(r).q = r.q /\ r.q \in Seq(ClientPacket)
    BY <2>3, NextItemBox DEF Box
  <2> QED BY <1>0, <2>2, <2>3, <2>4, SameHas
<1> QED BY <1>1, <1>2, <1>3

\* A write adds at most the packet it finishes.
LEMMA WriteSent ==
  ASSUME NEW w, w.sent \in Seq(ClientPacket), DOMAIN w = {"sent", "part", "ok", "once"},
         NEW p \in ClientPacket, NEW off, NEW k
  PROVE  /\ DOMAIN Write(w, p, off, k) = {"sent", "part", "ok", "once"}
         /\ Write(w, p, off, k).sent \in {w.sent, Append(w.sent, p)}
<1> DEFINE fits == w.part = IF off = 0 THEN None ELSE [pkt |-> p, off |-> off]
<1>1. Write(w, p, off, k) \in
        {w, [w EXCEPT !.ok = FALSE], [w EXCEPT !.part = [pkt |-> p, off |-> off + k]],
         [w EXCEPT !.sent = Append(@, p), !.part = None,
                   !.once = IF p.type = "PUBLISH" THEN @ \cup {p.id} ELSE @]}
  BY DEF Write
<1> QED BY <1>1
-----------------------------------------------------------------------------
(* Type correctness *)

LEMMA InitTyped == Init => TypeInv
<1> SUFFICES ASSUME Init PROVE TypeInv
  OBVIOUS
<1> USE DEF Init, ClientInit, BrokerInit
<1>1. ClientTyped
  <2>1. state \in State /\ reason \in Reasons /\ pingSent \in BOOLEAN
    BY DEF State, Reasons
  <2>2. idle \in [srv : 0 .. 2, cli : 0 .. 1, passes : 0 .. MinPasses]
    BY DEF MinPasses
  <2>3. bytesSent \in 0 .. PubSize /\ packetId \in 0 .. MaxId
    BY ClientAssumption
  <2> QED BY <2>1, <2>2, <2>3 DEF ClientTyped
<1>2. ControlTyped
  BY BudgetAssumption DEF ControlTyped, Places
<1>3. OutboxTyped
  BY DEF OutboxTyped, Box, EmptyOutbox
<1>4. WireTyped
  BY DEF WireTyped, NewWire
<1>5. IncomingTyped
  BY DEF IncomingTyped
<1>6. HistTyped
  BY DEF HistTyped
<1>7. BrokerTyped
  BY BrokerAssumption DEF BrokerTyped, NoSession
<1> QED BY <1>1, <1>2, <1>3, <1>4, <1>5, <1>6, <1>7 DEF TypeInv

\* The calls of the application.
LEMMA AppTyped ==
  ASSUME TypeInv, AppNext, UNCHANGED brokerVars
  PROVE  TypeInv'
<1>0. BrokerTyped'
  BY DEF TypeInv, BrokerTyped, brokerVars
<1>1. ASSUME NEW t \in Thread, NEW call \in Calls, Call(t, call) PROVE TypeInv'
  <2>1. UNCHANGED <<client, control, net, hist>>
    BY <1>1 DEF Call
  <2>2. ControlTyped'
    <3>1. /\ apc' = [apc EXCEPT ![t] = call] /\ left' = [left EXCEPT ![call] = @ - 1]
          /\ left[call] > 0
      BY <1>1 DEF Call
    <3>2. left' \in [Calls -> Nat] /\ apc' \in [Thread -> Calls \cup {None}]
      BY <3>1 DEF TypeInv, ControlTyped
    <3> QED BY <2>1, <3>2 DEF TypeInv, ControlTyped, control, net
  <2> QED BY <1>0, <2>1, <2>2 DEF TypeInv, ClientTyped, OutboxTyped, WireTyped,
            IncomingTyped, HistTyped, client, control, net
\* what the second step of a call does besides its outbox and history
<1>2. ASSUME NEW t \in Thread, NEW call, Return(t, call), OutboxTyped', HistTyped',
             state' \in State, packetId' \in 0 .. MaxId,
             UNCHANGED <<bytesSent, pingSent, reason, idle, control, net, left>>
      PROVE  TypeInv'
  <2>1. apc' \in [Thread -> Calls \cup {None}]
    BY <1>2 DEF Return, TypeInv, ControlTyped
  <2>2. ControlTyped' /\ ClientTyped' /\ WireTyped' /\ IncomingTyped'
    BY <1>2, <2>1 DEF TypeInv, ControlTyped, ClientTyped, WireTyped, IncomingTyped,
                      control, net
  <2> QED BY <1>0, <1>2, <2>2 DEF TypeInv
<1>3. ASSUME NEW t \in Thread, Connect(t) PROVE TypeInv'
  <2>1. OutboxTyped'
    BY <1>3, CtlTyped, EmplaceFrontBox, ResetBox
    DEF Connect, AddPacketFrontFails, TypeInv, OutboxTyped
  <2>2. HistTyped'
    BY <1>3 DEF Connect, TypeInv, HistTyped
  <2>3. state' \in State
    BY <1>3 DEF Connect, TypeInv, ClientTyped, State
  <2> QED BY <1>2, <1>3, <2>1, <2>2, <2>3 DEF Connect, TypeInv, ClientTyped
<1>4. ASSUME NEW t \in Thread, Disconnect(t) PROVE TypeInv'
  <2>1. OutboxTyped' /\ HistTyped' /\ state' \in State
    BY <1>4 DEF Disconnect, TypeInv, OutboxTyped, HistTyped, State, Leaving, Teardown
  <2>2. PICK call : Return(t, call)
    BY <1>4 DEF Disconnect
  <2> QED BY <1>2, <1>4, <2>1, <2>2 DEF Disconnect, TypeInv, ClientTyped
<1>5. NextPacketId \in 1 .. MaxId
  BY ClientAssumption DEF NextPacketId, TypeInv, ClientTyped
<1>6. ASSUME NEW t \in Thread, NEW call, NEW p, Request(t, call, p),
             p.type \in {"PUBLISH", "SUBSCRIBE", "UNSUBSCRIBE"},
             IF call = "publish0" THEN p \in ClientPacket
             ELSE [p EXCEPT !.id = NextPacketId] \in ClientPacket,
             [p EXCEPT !.id = NextPacketId].type = p.type
      PROVE  TypeInv'
  <2> DEFINE r == IF call = "publish0" THEN p ELSE [p EXCEPT !.id = NextPacketId]
  <2>1. r \in ClientPacket /\ r.type \in {"PUBLISH", "SUBSCRIBE", "UNSUBSCRIBE"}
    BY <1>6
  <2>2. /\ outbox' \in AddPacket(outbox, r)
        /\ hist' = [hist EXCEPT !.asked = IF outbox' = outbox THEN @ ELSE @ \cup {r}]
    BY <1>6 DEF Request
  <2> HIDE DEF r
  <2>3. OutboxTyped'
    BY <2>1, <2>2, AddPacketBox DEF TypeInv, OutboxTyped
  <2>4. HistTyped'
    BY <2>1, <2>2 DEF TypeInv, HistTyped
  <2>5. packetId' \in 0 .. MaxId
    BY <1>5, <1>6 DEF Request, TypeInv, ClientTyped
  <2> QED BY <1>2, <1>6, <2>3, <2>4, <2>5 DEF Request, TypeInv, ClientTyped
<1>7. ASSUME NEW t \in Thread, Publish(t) PROVE TypeInv'
  <2>1. ASSUME NEW q \in 0 .. 2
        PROVE  LET r == [Pub(0, q) EXCEPT !.id = NextPacketId]
               IN  r.type = "PUBLISH" /\ Pub(0, q).type = "PUBLISH"
                   /\ (q # 0 => r \in ClientPacket)
    <3>1. Pub(0, q) \in Packet /\ Pub(0, q).type = "PUBLISH" /\ Pub(0, q).qos = q
      BY ClientAssumption DEF Pub, Packet, AllTypes
    <3>2. NextPacketId \in 0 .. MaxId
      BY <1>5
    <3> HIDE DEF NextPacketId
    <3> DEFINE r == [Pub(0, q) EXCEPT !.id = NextPacketId]
    <3>3. r \in Packet /\ r.id = NextPacketId /\ r.type = Pub(0, q).type /\ r.qos = Pub(0, q).qos
      BY <3>1, <3>2, WithNewId
    <3> HIDE DEF r
    <3>4. q # 0 => r \in ClientPacket
      BY <1>5, <3>1, <3>3 DEF ClientPacket
    <3> QED BY <3>1, <3>3, <3>4 DEF r
  <2>2. CASE Request(t, "publish0", Pub(0, 0))
    <3>1. /\ Pub(0, 0).type = "PUBLISH" /\ Pub(0, 0) \in ClientPacket
          /\ [Pub(0, 0) EXCEPT !.id = NextPacketId].type = "PUBLISH"
      BY <2>1, CtlTyped
    <3> QED BY <1>6, <2>2, <3>1
  <2>3. CASE Request(t, "publish1", Pub(0, 1))
    BY <1>6, <2>1, <2>3
  <2>4. CASE Request(t, "publish2", Pub(0, 2))
    BY <1>6, <2>1, <2>4
  <2> QED BY <1>7, <2>2, <2>3, <2>4 DEF Publish
<1>8. ASSUME NEW t \in Thread, Subscribe(t) \/ Unsubscribe(t) PROVE TypeInv'
  <2>1. ASSUME NEW type \in {"SUBSCRIBE", "UNSUBSCRIBE"}
        PROVE  LET r == [Ctl(type, 0) EXCEPT !.id = NextPacketId]
               IN  r.type = type /\ Ctl(type, 0).type = type /\ r \in ClientPacket
    <3>1. Ctl(type, 0) \in Packet /\ Ctl(type, 0).type = type
      BY ClientAssumption DEF Ctl, Packet, AllTypes
    <3>2. NextPacketId \in 0 .. MaxId
      BY <1>5
    <3> HIDE DEF NextPacketId
    <3> DEFINE r == [Ctl(type, 0) EXCEPT !.id = NextPacketId]
    <3>3. r \in Packet /\ r.id = NextPacketId /\ r.type = Ctl(type, 0).type /\ r.qos = Ctl(type, 0).qos
      BY <3>1, <3>2, WithNewId
    <3> HIDE DEF r
    <3>4. r \in ClientPacket
      BY <1>5, <3>1, <3>3 DEF ClientPacket
    <3> QED BY <3>1, <3>3, <3>4 DEF r
  <2>2. CASE Request(t, "subscribe", Ctl("SUBSCRIBE", 0))
    BY <1>6, <2>1, <2>2
  <2>3. CASE Request(t, "unsubscribe", Ctl("UNSUBSCRIBE", 0))
    BY <1>6, <2>1, <2>3
  <2> QED BY <1>8, <2>2, <2>3 DEF Subscribe, Unsubscribe
<1>9. ASSUME NEW t \in Thread, ClearQueueCall(t) PROVE TypeInv'
  <2>1. OutboxTyped'
    BY <1>9, ClearQueueBox DEF ClearQueueCall, TypeInv, OutboxTyped
  <2>2. HistTyped'
    BY <1>9 DEF ClearQueueCall, TypeInv, HistTyped
  <2>3. PICK call : Return(t, call)
    BY <1>9 DEF ClearQueueCall
  <2> QED BY <1>2, <1>9, <2>1, <2>2, <2>3 DEF ClearQueueCall, TypeInv, ClientTyped
<1> QED BY <1>1, <1>3, <1>4, <1>7, <1>8, <1>9 DEF AppNext, Act

\* Steps of loop() between connect and the handlers: no history, no packets read.
LEMMA PassageTyped ==
  ASSUME TypeInv, UNCHANGED <<brokerVars, app, rx>>, lpc \notin {"parse", "cb", "cbConnect"},
         lpc' \in Places \ {"parse"}, branch' \in {"mqtt", "full"},
         OutboxTyped', ClientTyped', WireTyped', tcp' \in {"closed", "open", "reset"},
         s2c' \in Seq(BrokerPacket)
  PROVE  TypeInv'
<1>1. BrokerTyped' /\ HistTyped'
  BY DEF TypeInv, BrokerTyped, HistTyped, brokerVars, app
<1>2. ControlTyped'
  BY DEF TypeInv, ControlTyped, app
<1>3. IncomingTyped'
  BY DEF TypeInv, IncomingTyped
<1> QED BY <1>1, <1>2, <1>3 DEF TypeInv

LEMMA ConnectingTyped ==
  ASSUME TypeInv, UNCHANGED brokerVars, Dispatch \/ Connecting \/ TcpConnect
  PROVE  TypeInv'
<1> USE DEF At, Goto, Fails, net, client, app
<1>0. /\ s2c \in Seq(BrokerPacket) /\ OutboxTyped /\ WireTyped /\ ClientTyped
      /\ branch \in {"mqtt", "full"} /\ tcp \in {"closed", "open", "reset"}
      /\ <<>> \in Seq(BrokerPacket)
  BY DEF TypeInv, IncomingTyped, ControlTyped
<1>1. ASSUME UNCHANGED outbox PROVE OutboxTyped'
  BY <1>0, <1>1 DEF OutboxTyped
<1>2. ASSUME UNCHANGED wire PROVE WireTyped'
  BY <1>0, <1>2 DEF WireTyped
<1>3. CASE Dispatch
  <2>1. lpc' \in Places \ {"parse"}
    BY <1>0, <1>3 DEF Dispatch, Places, State, Leaving, Teardown, ClientTyped
  <2>2. ClientTyped'
    BY <1>0, <1>3 DEF Dispatch, ClientTyped, MinPasses
  <2>3. branch' \in {"mqtt", "full"} /\ lpc = "idle" /\ UNCHANGED <<outbox, rx, app, net>>
    BY <1>3 DEF Dispatch
  <2> QED BY <1>0, <1>1, <1>2, <2>1, <2>2, <2>3, PassageTyped
<1>4. CASE TcpConnectFails
  <2>1. ClientTyped' /\ tcp' \in {"closed", "open", "reset"}
    BY <1>0, <1>4 DEF TcpConnectFails, ClientTyped, State, Leaving, Teardown, Reasons
  <2>2. lpc = "tcp1" /\ lpc' = "idle" /\ UNCHANGED <<outbox, rx, app, wire, s2c, branch>>
    BY <1>4 DEF TcpConnectFails
  <2> QED BY <1>0, <1>1, <1>2, <2>1, <2>2, PassageTyped DEF Places
<1>5. CASE TcpConnected
  <2>1. ClientTyped'
    <3> DEFINE Idle == [srv : 0 .. 2, cli : 0 .. 1, passes : 0 .. MinPasses]
    <3>1. idle' = idle \/ idle' = [srv |-> 0, cli |-> 0, passes |-> idle.passes]
      BY <1>5 DEF TcpConnected
    <3>2. idle \in Idle
      BY <1>0 DEF ClientTyped
    <3>4. [srv |-> 0, cli |-> 0, passes |-> idle.passes] \in Idle
      BY <3>2
    <3>5. idle' \in Idle
      BY <3>1, <3>2, <3>4
    <3> HIDE DEF Idle
    <3>3. state' \in State /\ reason' \in Reasons
      BY <1>0, <1>5 DEF TcpConnected, ClientTyped, State, Leaving, Teardown, Reasons
    <3> QED BY <1>0, <1>5, <3>3, <3>5 DEF TcpConnected, ClientTyped, Idle
  <2>2. lpc = "tcp2" /\ lpc' = "idle" /\ UNCHANGED <<outbox, rx, app, net, branch>>
    BY <1>5 DEF TcpConnected
  <2> QED BY <1>0, <1>1, <1>2, <2>1, <2>2, PassageTyped DEF Places
<1>6. CASE CheckTransport
  <2>1. ClientTyped'
    BY <1>0, <1>6 DEF CheckTransport, ClientTyped
  <2>2. lpc = "check" /\ lpc' \in {"send", "lost"} /\ UNCHANGED <<outbox, rx, app, net, branch>>
    BY <1>6 DEF CheckTransport
  <2> QED BY <1>0, <1>1, <1>2, <2>1, <2>2, PassageTyped DEF Places
<1>7. CASE TransportLost
  <2>1. ClientTyped'
    BY <1>0, <1>7 DEF TransportLost, ClientTyped, State, Leaving, Teardown, Reasons
  <2>2. lpc = "lost" /\ lpc' = "idle" /\ UNCHANGED <<outbox, rx, app, net, branch>>
    BY <1>7 DEF TransportLost
  <2> QED BY <1>0, <1>1, <1>2, <2>1, <2>2, PassageTyped DEF Places
<1>8. CASE TcpConnect
  <2>1. ClientTyped' /\ WireTyped'
    BY <1>0, <1>8 DEF TcpConnect, ClientTyped, State, WireTyped, NewWire
  <2>2. /\ lpc = "tcp1" /\ lpc' = "tcp2" /\ tcp' = "open" /\ s2c' = <<>>
        /\ UNCHANGED <<outbox, rx, app, branch>>
    BY <1>8 DEF TcpConnect
  <2> QED BY <1>0, <1>1, <2>1, <2>2, PassageTyped DEF Places
<1> QED BY <1>3, <1>4, <1>5, <1>6, <1>7, <1>8 DEF Connecting

\* _bytesSent stays within the current packet, or is the largest size_t.
LEMMA SendPacketTyped ==
  ASSUME TypeInv, UNCHANGED brokerVars, Sending
  PROVE  TypeInv'
<1> USE DEF At, Goto, net, client, app
<1>0. /\ s2c \in Seq(BrokerPacket) /\ OutboxTyped /\ WireTyped /\ ClientTyped
      /\ branch \in {"mqtt", "full"} /\ tcp \in {"closed", "open", "reset"}
      /\ outbox \in Box(ClientPacket) /\ PubSize \in Nat \ {0}
  BY ClientAssumption DEF TypeInv, IncomingTyped, ControlTyped, OutboxTyped
<1>1. \A p : Size(p) \in 1 .. PubSize
  BY <1>0 DEF Size
<1>2. CASE SendPacket
  <2>0. HasCurrent(outbox) /\ bytesSent < Size(Current(outbox))
        /\ WantToWrite = Size(Current(outbox)) - bytesSent
    BY <1>2 DEF SendPacket, WantToWrite
  <2>1. PICK k \in 0 .. WantToWrite :
          /\ wire' = Write(wire, Current(outbox), bytesSent, k)
          /\ idle' = [idle EXCEPT !.cli = 0]
          /\ IF branch = "mqtt" \/ k = 0
             THEN /\ bytesSent' = bytesSent + k
                  /\ lpc' = "read"
                  /\ UNCHANGED <<state, reason, outbox>>
             ELSE /\ AdvanceState(state, outbox, bytesSent + k)
                  /\ outbox' = Advanced(outbox, bytesSent + k)
                  /\ bytesSent' = IF FullySent(outbox, bytesSent + k)
                                  THEN 0 ELSE bytesSent + k
                  /\ lpc' = IF HasCurrent(outbox') THEN "send" ELSE "read"
    BY <1>2 DEF SendPacket
  <2>2. bytesSent \in 0 .. PubSize
    BY <1>0, <1>1, <2>0 DEF ClientTyped, SizeMax
  <2>3. bytesSent + k \in 0 .. PubSize
    <3>1. Size(Current(outbox)) \in 1 .. PubSize /\ k <= Size(Current(outbox)) - bytesSent
      BY <1>1, <2>0, <2>2
    <3> QED BY <1>0, <2>2, <3>1
  <2>4. bytesSent' \in 0 .. PubSize
    BY <1>0, <2>1, <2>3
  <2>5. outbox' \in Box(ClientPacket)
    BY <1>0, <2>1, AdvancedBox
  <2>6. Current(outbox) \in ClientPacket
    BY <1>0, <2>0, ElementOfSeq DEF Box, HasCurrent, Current
  <2>7. WireTyped'
    <3>1. wire.sent \in Seq(ClientPacket) /\ DOMAIN wire = {"sent", "part", "ok", "once"}
      BY <1>0 DEF WireTyped
    <3>2. /\ DOMAIN wire' = {"sent", "part", "ok", "once"}
          /\ wire'.sent \in {wire.sent, Append(wire.sent, Current(outbox))}
      BY <2>1, <2>6, <3>1, WriteSent
    <3> QED BY <2>6, <3>1, <3>2 DEF WireTyped
  <2>8. state' \in State /\ reason' \in Reasons
    BY <1>0, <2>1 DEF AdvanceState, ClientTyped, State, Leaving, Teardown, Reasons
  <2>9. ClientTyped'
    BY <1>0, <1>2, <2>1, <2>4, <2>8 DEF SendPacket, ClientTyped
  <2>10. /\ lpc = "send" /\ lpc' \in {"send", "read"}
         /\ UNCHANGED <<rx, app, tcp, s2c, branch>>
    BY <1>2, <2>1 DEF SendPacket
  <2> QED BY <1>0, <2>5, <2>7, <2>9, <2>10, PassageTyped DEF Places, OutboxTyped
<1>3. CASE SendFails
  <2>0. bytesSent < Size(Current(outbox))
    BY <1>3 DEF SendFails, WantToWrite
  <2>1. bytesSent \in 0 .. PubSize
    BY <1>0, <1>1, <2>0 DEF ClientTyped, SizeMax
  <2>2. bytesSent' \in (0 .. PubSize) \cup {SizeMax}
    <3>1. bytesSent' = IF bytesSent = 0 THEN SizeMax ELSE bytesSent - 1
      BY <1>3 DEF SendFails
    <3> QED BY <1>0, <2>1, <3>1
  <2>3. ClientTyped'
    BY <1>0, <1>3, <2>2 DEF SendFails, ClientTyped
  <2>4. /\ lpc = "send" /\ lpc' = "read"
        /\ UNCHANGED <<outbox, wire, rx, app, tcp, s2c, branch>>
    BY <1>3 DEF SendFails
  <2> QED BY <1>0, <2>3, <2>4, PassageTyped DEF Places, OutboxTyped, WireTyped
<1>4. CASE NothingToSend
  <2>1. /\ lpc = "send" /\ lpc' = "read" /\ ClientTyped'
        /\ UNCHANGED <<outbox, wire, rx, app, tcp, s2c, branch>>
    BY <1>0, <1>4 DEF NothingToSend, ClientTyped
  <2> QED BY <1>0, <2>1, PassageTyped DEF Places, OutboxTyped, WireTyped
<1> QED BY <1>2, <1>3, <1>4 DEF Sending

LEMMA DisconnectingTyped ==
  ASSUME TypeInv, UNCHANGED brokerVars, SayGoodbye \/ StopTransport
  PROVE  TypeInv'
<1> USE DEF At, Goto, net, app
<1>0. /\ s2c \in Seq(BrokerPacket) /\ OutboxTyped /\ WireTyped /\ ClientTyped
      /\ branch \in {"mqtt", "full"} /\ tcp \in {"closed", "open", "reset"}
      /\ outbox \in Box(ClientPacket)
  BY DEF TypeInv, IncomingTyped, ControlTyped, OutboxTyped
<1>1. CASE SayGoodbye
  <2>1. outbox' \in AddPacket(outbox, Ctl("DISCONNECT", 0)) \/ UNCHANGED outbox
    BY <1>1 DEF SayGoodbye
  <2>2. OutboxTyped'
    BY <1>0, <2>1, CtlTyped, AddPacketBox DEF OutboxTyped
  <2>3. ClientTyped'
    BY <1>0, <1>1 DEF SayGoodbye, ClientTyped, State, Leaving
  <2>4. lpc = "bye" /\ lpc' = "send" /\ UNCHANGED <<rx, app, net, branch>>
    BY <1>1 DEF SayGoodbye
  <2> QED BY <1>0, <2>2, <2>3, <2>4, PassageTyped DEF Places, WireTyped
<1>2. CASE StopTransport
  <2>1. ClientTyped'
    BY <1>0, <1>2 DEF StopTransport, ClientTyped, State, Leaving, Teardown
  <2>2. /\ lpc = "stop" /\ lpc' = "idle" /\ tcp' = "closed"
        /\ UNCHANGED <<outbox, rx, app, wire, s2c, branch>>
    BY <1>2 DEF StopTransport
  <2> QED BY <1>0, <2>1, <2>2, PassageTyped DEF Places, WireTyped, OutboxTyped
<1> QED BY <1>1, <1>2

LEMMA DisconnectedTyped ==
  ASSUME TypeInv, UNCHANGED brokerVars, Disconnected
  PROVE  TypeInv'
<1>1. OutboxTyped'
  BY ClearQueueBox DEF Disconnected, TypeInv, OutboxTyped
<1>2. ClientTyped'
  BY ClientAssumption DEF Disconnected, TypeInv, ClientTyped, State
<1>3. /\ lpc = "stopped" /\ lpc' = "cbDisconnect"
      /\ hist' = [hist EXCEPT !.owed = @ - 1, !.told = reason]
      /\ UNCHANGED <<branch, rx, net, apc, left>>
  BY DEF Disconnected, At, Goto
<1>4. ControlTyped' /\ WireTyped' /\ IncomingTyped' /\ BrokerTyped'
  BY <1>3 DEF TypeInv, ControlTyped, WireTyped, IncomingTyped, BrokerTyped, brokerVars,
              Places, net
<1>5. HistTyped'
  <2>1. DOMAIN hist' = DOMAIN hist /\ hist'.owed = hist.owed - 1 /\ hist'.told = reason
        /\ hist'.asked = hist.asked /\ hist'.acked = hist.acked /\ hist'.got = hist.got
    BY <1>3 DEF TypeInv, HistTyped
  <2>2. hist' = [owed |-> hist.owed - 1, asked |-> hist.asked, acked |-> hist.acked,
                 told |-> reason, got |-> hist.got]
    BY <1>3 DEF TypeInv, HistTyped
  <2>3. reason \in Reasons
    BY DEF TypeInv, ClientTyped
  <2> QED BY <2>2, <2>3 DEF TypeInv, HistTyped
<1> QED BY <1>1, <1>2, <1>4, <1>5 DEF TypeInv

\* What all handlers have in common.
LEMMA HandlerTyped ==
  ASSUME TypeInv, UNCHANGED <<brokerVars, net, branch, apc, left>>, At("parse"),
         OutboxTyped', ClientTyped', HistTyped',
         \/ Continue(Tail(rx)) \/ StopReceiving \/ CallBack
         \/ rx' = Tail(rx) /\ Goto("cbConnect")
  PROVE  TypeInv'
<1>1. /\ lpc = "parse" /\ rx \in Seq(BrokerPacket) /\ rx # <<>>
      /\ Tail(rx) \in Seq(BrokerPacket) /\ <<>> \in Seq(BrokerPacket)
  BY TailHas DEF TypeInv, IncomingTyped, At
<1>2. /\ rx' \in {Tail(rx), <<>>}
      /\ lpc' \in {"cb", "cbConnect"} \/ lpc' = (IF rx' = <<>> THEN "ping" ELSE "parse")
  BY DEF Continue, StopReceiving, CallBack, Goto
<1>3. IncomingTyped'
  BY <1>1, <1>2 DEF TypeInv, IncomingTyped, net
<1>4. ControlTyped' /\ WireTyped' /\ BrokerTyped'
  BY <1>2 DEF TypeInv, ControlTyped, WireTyped, BrokerTyped, brokerVars, Places, net
<1> QED BY <1>3, <1>4 DEF TypeInv

LEMMA HeadTyped ==
  ASSUME TypeInv, At("parse")
  PROVE  Head(rx) \in BrokerPacket /\ rx # <<>> /\ rx \in Seq(BrokerPacket)
BY TailHas DEF TypeInv, IncomingTyped, At

LEMMA BrokerPacketParts ==
  ASSUME NEW p \in BrokerPacket
  PROVE  /\ p.type \in {"PUBACK", "PUBREC", "PUBCOMP", "SUBACK", "UNSUBACK"} => p.id \in 1 .. MaxId
         /\ p.type = "PUBREL" => p.id \in BrokerMsg
         /\ p.type = "PUBLISH" => /\ p.qos \in 0 .. 2 /\ p.msg \in BrokerMsg
                                  /\ p.qos # 0 => p.id \in BrokerMsg
         /\ p.type = "CONNACK" => p.ok \in BOOLEAN /\ p.sessionPresent \in BOOLEAN
BY DEF BrokerPacket

LEMMA FinishTyped ==
  ASSUME TypeInv, UNCHANGED brokerVars, NEW type,
         NEW answer \in {"PUBACK", "PUBCOMP"}, Finish(answer, type)
  PROVE  TypeInv'
<1>0. /\ At("parse") /\ Head(rx).type = answer /\ OutboxOnly
      /\ outbox \in Box(ClientPacket)
  BY DEF Finish, Incoming, TypeInv, OutboxTyped
<1> DEFINE i == Head(rx).id
<1>1. i \in 1 .. MaxId
  BY <1>0, HeadTyped, BrokerPacketParts
<1>2. ClientTyped'
  BY <1>0 DEF OutboxOnly, TypeInv, ClientTyped
<1>3. CASE \E k \in 1 .. Len(outbox.q) :
             /\ FirstIs(type, i, k)
             /\ outbox' = RemoveItem(outbox, k)
             /\ Notify([hist EXCEPT !.acked = @ \cup {i}])
  <2>1. OutboxTyped'
    BY <1>0, <1>3, RemoveItemBox DEF OutboxTyped
  <2>2. hist' = [hist EXCEPT !.acked = @ \cup {i}] /\ CallBack /\ UNCHANGED <<apc, left>>
    BY <1>3 DEF Notify
  <2>3. HistTyped'
    BY <1>1, <2>2 DEF TypeInv, HistTyped
  <2> QED BY <1>0, <1>2, <2>1, <2>2, <2>3, HandlerTyped DEF OutboxOnly
<1>4. CASE Continue(Tail(rx)) /\ UNCHANGED <<outbox, app>>
  <2>1. HistTyped' /\ OutboxTyped'
    BY <1>4 DEF TypeInv, HistTyped, OutboxTyped, app
  <2> QED BY <1>0, <1>2, <1>4, <2>1, HandlerTyped DEF OutboxOnly, app
<1> QED BY <1>3, <1>4 DEF Finish

LEMMA SettleTyped ==
  ASSUME TypeInv, UNCHANGED brokerVars, NEW types,
         NEW answer \in {"SUBACK", "UNSUBACK"}, Settle(answer, types)
  PROVE  TypeInv'
<1>0. /\ At("parse") /\ Head(rx).type = answer /\ OutboxOnly
      /\ outbox \in Box(ClientPacket)
  BY DEF Settle, Incoming, TypeInv, OutboxTyped
<1> DEFINE i == Head(rx).id
<1>1. i \in 1 .. MaxId
  BY <1>0, HeadTyped, BrokerPacketParts
<1>2. ClientTyped'
  BY <1>0 DEF OutboxOnly, TypeInv, ClientTyped
<1>3. CASE \E k \in 1 .. Len(outbox.q) :
             /\ outbox' = RemoveItem(outbox, k)
             /\ Notify([hist EXCEPT !.acked = @ \cup {i}])
  <2>1. OutboxTyped'
    BY <1>0, <1>3, RemoveItemBox DEF OutboxTyped
  <2>2. hist' = [hist EXCEPT !.acked = @ \cup {i}] /\ CallBack /\ UNCHANGED <<apc, left>>
    BY <1>3 DEF Notify
  <2>3. HistTyped'
    BY <1>1, <2>2 DEF TypeInv, HistTyped
  <2> QED BY <1>0, <1>2, <2>1, <2>2, <2>3, HandlerTyped DEF OutboxOnly
<1>4. CASE Continue(Tail(rx)) /\ UNCHANGED <<outbox, app>>
  <2>1. HistTyped' /\ OutboxTyped'
    BY <1>4 DEF TypeInv, HistTyped, OutboxTyped, app
  <2> QED BY <1>0, <1>2, <1>4, <2>1, HandlerTyped DEF OutboxOnly, app
<1> QED BY <1>3, <1>4 DEF Settle

LEMMA ReplyTyped ==
  ASSUME TypeInv, UNCHANGED brokerVars,
         Reply("PUBREC", "PUBLISH", "PUBREL") \/ Reply("PUBREL", "PUBREC", "PUBCOMP")
  PROVE  TypeInv'
<1> PICK answer, type, reply :
      /\ \/ answer = "PUBREC" /\ type = "PUBLISH" /\ reply = "PUBREL"
         \/ answer = "PUBREL" /\ type = "PUBREC" /\ reply = "PUBCOMP"
      /\ Reply(answer, type, reply)
  OBVIOUS
<1>0. /\ At("parse") /\ Head(rx).type = answer /\ OutboxOnly /\ UNCHANGED app
      /\ Continue(Tail(rx)) /\ outbox \in Box(ClientPacket)
  BY DEF Reply, Incoming, TypeInv, OutboxTyped
<1> DEFINE i == Head(rx).id
<1>1. Ctl(reply, i) \in ClientPacket
  <2>1. Head(rx) \in BrokerPacket
    BY <1>0, HeadTyped
  <2>2. CASE answer = "PUBREC" /\ reply = "PUBREL"
    <3>1. i \in 1 .. MaxId
      BY <1>0, <2>1, <2>2, BrokerPacketParts
    <3> QED BY <2>2, <3>1, CtlTyped
  <2>3. CASE answer = "PUBREL" /\ reply = "PUBCOMP"
    <3>1. i \in BrokerMsg
      BY <1>0, <2>1, <2>3, BrokerPacketParts
    <3> QED BY <2>3, <3>1, CtlTyped
  <2> QED BY <2>2, <2>3
<1>2. ClientTyped' /\ HistTyped'
  BY <1>0 DEF OutboxOnly, TypeInv, ClientTyped, HistTyped, app
<1>3. CASE \E k \in 1 .. Len(outbox.q) :
             \E o \in AddPacket(outbox, Ctl(reply, i)) : outbox' = RemoveItem(o, k)
  <2>1. PICK k \in 1 .. Len(outbox.q), o \in AddPacket(outbox, Ctl(reply, i)) :
               outbox' = RemoveItem(o, k)
    BY <1>3
  <2>2. o \in Box(ClientPacket) /\ (o = outbox \/ o.q = Append(outbox.q, Ctl(reply, i)))
    BY <1>0, <1>1, <2>1, AddPacketBox
  <2>3. k \in 1 .. Len(o.q)
    BY <1>0, <1>1, <2>1, <2>2 DEF Box
  <2>4. outbox' \in Box(ClientPacket)
    BY <2>1, <2>2, <2>3, RemoveItemBox
  <2> QED BY <1>0, <1>2, <2>4, HandlerTyped DEF OutboxOnly, app, OutboxTyped
<1>4. CASE UNCHANGED outbox
  BY <1>0, <1>2, <1>4, HandlerTyped DEF OutboxOnly, app, OutboxTyped
<1> QED BY <1>3, <1>4 DEF Reply

LEMMA OnPublishTyped ==
  ASSUME TypeInv, UNCHANGED brokerVars, OnPublish
  PROVE  TypeInv'
<1> DEFINE p == Head(rx)
<1>0. /\ At("parse") /\ p.type = "PUBLISH" /\ OutboxOnly
      /\ outbox \in Box(ClientPacket)
  BY DEF OnPublish, Incoming, TypeInv, OutboxTyped
<1>1. p.qos \in 0 .. 2 /\ p.msg \in BrokerMsg /\ (p.qos # 0 => p.id \in BrokerMsg)
  BY <1>0, HeadTyped, BrokerPacketParts
<1> HIDE DEF p
<1>2. ClientTyped'
  BY <1>0 DEF OutboxOnly, TypeInv, ClientTyped
<1>3. ASSUME UNCHANGED app PROVE HistTyped'
  BY <1>3 DEF app, TypeInv, HistTyped
<1>4. CASE Continue(Tail(rx)) /\ UNCHANGED <<outbox, app>>
  BY <1>0, <1>2, <1>3, <1>4, HandlerTyped DEF OutboxOnly, app, OutboxTyped
<1>5. CASE /\ outbox' \in CASE p.qos = 0 -> {outbox}
                            [] p.qos = 1 -> AddPacket(outbox, Ctl("PUBACK", p.id))
                            [] p.qos = 2 -> AddPacket(outbox, Ctl("PUBREC", p.id))
           /\ \/ Continue(Tail(rx)) /\ UNCHANGED app
              \/ Notify(Received(p))
  <2>1. outbox' \in Box(ClientPacket)
    <3>1. CASE p.qos = 0
      BY <1>0, <1>5, <3>1
    <3>2. CASE p.qos = 1
      BY <1>0, <1>1, <1>5, <3>2, CtlTyped, AddPacketBox
    <3>3. CASE p.qos = 2
      BY <1>0, <1>1, <1>5, <3>3, CtlTyped, AddPacketBox
    <3> QED BY <1>1, <3>1, <3>2, <3>3
  <2>2. ASSUME Notify(Received(p)) PROVE HistTyped' /\ CallBack /\ UNCHANGED <<apc, left>>
    <3>1. hist' = [hist EXCEPT !.got[<<p.msg, p.qos>>] = @ + 1]
      BY <2>2 DEF Notify, Received
    <3>2. <<p.msg, p.qos>> \in Msg \X (0 .. 2)
      BY <1>1, BrokerAssumption
    <3>3. HistTyped'
      BY <3>1, <3>2 DEF TypeInv, HistTyped
    <3> QED BY <2>2, <3>3 DEF Notify
  <2> QED BY <1>0, <1>2, <1>3, <1>5, <2>1, <2>2, HandlerTyped
          DEF OutboxOnly, app, OutboxTyped
<1> QED BY <1>4, <1>5 DEF OnPublish, p

LEMMA OnConnackTyped ==
  ASSUME TypeInv, UNCHANGED brokerVars, OnConnack
  PROVE  TypeInv'
<1> DEFINE o == Advanced(outbox, bytesSent)
<1>0. /\ At("parse") /\ outbox \in Box(ClientPacket) /\ ClientTyped
      /\ UNCHANGED <<packetId, idle, branch, net, app>>
      /\ rx' = Tail(rx) /\ Goto("cbConnect") /\ pingSent' = FALSE
      /\ AdvanceState("connected", outbox, bytesSent)
      /\ bytesSent' = IF FullySent(outbox, bytesSent) THEN 0 ELSE bytesSent
      /\ outbox' = o \/ outbox' = ClearQueue(o, 1)
  BY DEF OnConnack, Incoming, TypeInv, OutboxTyped
<1>1. o \in Box(ClientPacket)
  BY <1>0, AdvancedBox
<1> HIDE DEF o
<1>2. outbox' \in Box(ClientPacket)
  BY <1>0, <1>1, ClearQueueBox
<1>3. state' \in State /\ reason' \in Reasons
  BY <1>0 DEF AdvanceState, ClientTyped, State, Leaving, Teardown, Reasons
<1>4. bytesSent' \in (0 .. PubSize) \cup {SizeMax}
  BY <1>0, ClientAssumption DEF ClientTyped
<1>5. ClientTyped'
  BY <1>0, <1>3, <1>4 DEF ClientTyped
<1>6. HistTyped'
  BY <1>0 DEF app, TypeInv, HistTyped
<1> QED BY <1>0, <1>2, <1>5, <1>6, HandlerTyped DEF OutboxTyped, app

LEMMA ReceivingTyped ==
  ASSUME TypeInv, UNCHANGED brokerVars, Receiving
  PROVE  TypeInv'
<1>1. CASE Read
  <2>1. lpc = "read" /\ rx = <<>> /\ s2c \in Seq(BrokerPacket)
    BY <1>1 DEF Read, At, TypeInv, IncomingTyped
  <2>2. idle' = idle \/ idle' = [idle EXCEPT !.srv = 0]
    BY <1>1 DEF Read
  <2>3. ClientTyped'
    BY <1>1, <2>2 DEF Read, TypeInv, ClientTyped
  <2>4. /\ rx' = s2c /\ s2c' = <<>> /\ lpc' = (IF s2c = <<>> THEN "ping" ELSE "parse")
        /\ UNCHANGED <<outbox, branch, tcp, wire, app>>
    BY <1>1 DEF Read, Goto
  <2>5. IncomingTyped'
    BY <2>1, <2>4 DEF IncomingTyped
  <2>6. ControlTyped' /\ OutboxTyped' /\ WireTyped' /\ HistTyped' /\ BrokerTyped'
    BY <2>4 DEF TypeInv, ControlTyped, OutboxTyped, WireTyped, HistTyped, BrokerTyped,
                brokerVars, app, Places
  <2> QED BY <2>3, <2>5, <2>6 DEF TypeInv
\* the handlers that only change the state or the flags
<1>2. ASSUME At("parse"), UNCHANGED <<outbox, bytesSent, packetId, idle, branch, net, app>>,
             state' \in State, reason' \in Reasons, pingSent' \in BOOLEAN,
             Continue(Tail(rx)) \/ StopReceiving
      PROVE  TypeInv'
  <2>1. ClientTyped' /\ OutboxTyped' /\ HistTyped'
    BY <1>2 DEF TypeInv, ClientTyped, OutboxTyped, HistTyped, app
  <2> QED BY <1>2, <2>1, HandlerTyped DEF app
<1>3. /\ state \in State /\ reason \in Reasons /\ pingSent \in BOOLEAN
      /\ "disconnectingTcp1" \in State /\ {"TCP_DISCONNECTED", "REFUSED"} \subseteq Reasons
  BY DEF TypeInv, ClientTyped, State, Leaving, Teardown, Reasons
<1>4. CASE ExpectedConnack
  BY <1>2, <1>3, <1>4 DEF ExpectedConnack
<1>5. CASE ProtocolError
  BY <1>2, <1>3, <1>5 DEF ProtocolError, Incoming, Fails
<1>6. CASE OnConnackRefused
  BY <1>2, <1>3, <1>6 DEF OnConnackRefused, Incoming, Fails
<1>7. CASE OnPingresp
  BY <1>2, <1>3, <1>7 DEF OnPingresp, Incoming
<1>8. CASE OnConnack
  BY <1>8, OnConnackTyped
<1>9. CASE OnPublish
  BY <1>9, OnPublishTyped
<1>10. CASE OnPuback \/ OnPubcomp
  BY <1>10, FinishTyped DEF OnPuback, OnPubcomp
<1>11. CASE OnPubrec \/ OnPubrel
  BY <1>11, ReplyTyped DEF OnPubrec, OnPubrel
<1>12. CASE OnSuback \/ OnUnsuback
  BY <1>12, SettleTyped DEF OnSuback, OnUnsuback
<1> QED BY <1>1, <1>4, <1>5, <1>6, <1>7, <1>8, <1>9, <1>10, <1>11, <1>12 DEF Receiving

\* Callbacks return, timers run out and time passes.
LEMMA CallbacksTyped ==
  ASSUME TypeInv, UNCHANGED brokerVars, Callbacks
  PROVE  TypeInv'
<1>1. /\ lpc \in {"cb", "cbConnect", "cbDisconnect"} /\ UNCHANGED <<client, branch, net, app>>
      /\ \/ rx' \in {rx, <<>>} /\ lpc' = (IF rx' = <<>> THEN "ping" ELSE "parse")
         \/ lpc = "cbDisconnect" /\ UNCHANGED rx /\ lpc' = "idle"
  BY DEF Callbacks, CallbackReturns, ConnectCallbackReturns, DisconnectCallbackReturns,
         Continue, StopReceiving, Goto, At
<1>2. IncomingTyped'
  <2>1. /\ rx \in Seq(BrokerPacket) /\ s2c' \in Seq(BrokerPacket) /\ <<>> \in Seq(BrokerPacket)
        /\ rx # <<>> => lpc \in {"parse", "cb", "cbConnect"}
    BY <1>1 DEF TypeInv, IncomingTyped, net
  <2>2. CASE rx' \in {rx, <<>>} /\ lpc' = (IF rx' = <<>> THEN "ping" ELSE "parse")
    BY <2>1, <2>2 DEF IncomingTyped
  <2>3. CASE lpc = "cbDisconnect" /\ UNCHANGED rx /\ lpc' = "idle"
    BY <2>1, <2>3 DEF IncomingTyped
  <2> QED BY <1>1, <2>2, <2>3
<1>3. ControlTyped' /\ ClientTyped' /\ OutboxTyped' /\ WireTyped' /\ HistTyped' /\ BrokerTyped'
  BY <1>1 DEF TypeInv, ControlTyped, ClientTyped, OutboxTyped, WireTyped, HistTyped,
              BrokerTyped, brokerVars, client, net, app, Places
<1> QED BY <1>2, <1>3 DEF TypeInv

LEMMA TimersTyped ==
  ASSUME TypeInv, UNCHANGED brokerVars, Timers
  PROVE  TypeInv'
<1> USE DEF At, Goto, net, app
<1>0. /\ s2c \in Seq(BrokerPacket) /\ OutboxTyped /\ WireTyped /\ ClientTyped
      /\ branch \in {"mqtt", "full"} /\ tcp \in {"closed", "open", "reset"}
      /\ outbox \in Box(ClientPacket)
  BY DEF TypeInv, IncomingTyped, ControlTyped, OutboxTyped
<1>1. CASE CheckPing
  <2>1. outbox' \in AddPacket(outbox, Ctl("PINGREQ", 0)) \/ UNCHANGED outbox
    BY <1>1 DEF CheckPing
  <2>2. OutboxTyped'
    BY <1>0, <2>1, CtlTyped, AddPacketBox DEF OutboxTyped
  <2>3. state' \in State /\ reason' \in Reasons
    BY <1>0, <1>1 DEF CheckPing, Fails, ClientTyped, State, Leaving, Teardown, Reasons
  <2>4. pingSent' \in BOOLEAN
    BY <1>0, <1>1 DEF CheckPing, ClientTyped
  <2>5. ClientTyped'
    BY <1>0, <1>1, <2>3, <2>4 DEF CheckPing, ClientTyped
  <2>6. lpc = "ping" /\ lpc' \in {"idle", "timeout"} /\ UNCHANGED <<rx, app, net, branch>>
    BY <1>1 DEF CheckPing, AfterPing
  <2> QED BY <1>0, <2>2, <2>5, <2>6, PassageTyped DEF Places, WireTyped
<1>2. CASE Retransmit
  <2>1. OutboxTyped' /\ ClientTyped'
    BY <1>0, <1>2, ResetBox DEF Retransmit, OutboxTyped, ClientTyped
  <2>2. lpc = "timeout" /\ lpc' = "idle" /\ UNCHANGED <<rx, app, net, branch>>
    BY <1>2 DEF Retransmit
  <2> QED BY <1>0, <2>1, <2>2, PassageTyped DEF Places, WireTyped
<1>3. CASE NoRetransmit
  <2>1. OutboxTyped' /\ ClientTyped'
    BY <1>0, <1>3 DEF NoRetransmit, OutboxTyped, ClientTyped, client
  <2>2. lpc = "timeout" /\ lpc' = "idle" /\ UNCHANGED <<rx, app, net, branch>>
    BY <1>3 DEF NoRetransmit
  <2> QED BY <1>0, <2>1, <2>2, PassageTyped DEF Places, WireTyped
<1> QED BY <1>1, <1>2, <1>3 DEF Timers

LEMMA TimeTyped ==
  ASSUME TypeInv, UNCHANGED brokerVars, TimePasses
  PROVE  TypeInv'
<1>1. /\ idle' = [srv |-> IF idle.srv < 2 THEN idle.srv + 1 ELSE 2, cli |-> 1, passes |-> 0]
      /\ UNCHANGED <<state, outbox, bytesSent, packetId, pingSent, reason, control, net, app>>
  BY DEF TimePasses
<1>2. idle.srv \in 0 .. 2
  BY DEF TypeInv, ClientTyped
<1>3. idle' \in [srv : 0 .. 2, cli : 0 .. 1, passes : 0 .. MinPasses]
  BY <1>1, <1>2 DEF MinPasses
<1>4. ClientTyped' /\ ControlTyped' /\ IncomingTyped' /\ OutboxTyped' /\ WireTyped' /\ HistTyped' /\ BrokerTyped'
  BY <1>1, <1>3 DEF TypeInv, ClientTyped, ControlTyped, IncomingTyped, OutboxTyped, WireTyped, HistTyped,
              BrokerTyped, brokerVars, control, net, app
<1> QED BY <1>4 DEF TypeInv
-----------------------------------------------------------------------------
(* Type correctness: the broker and the network *)

\* What a step of the broker leaves alone.
LEMMA BrokerSideTyped ==
  ASSUME TypeInv, UNCHANGED <<client, control, app>>, BrokerTyped', WireTyped',
         tcp' \in {"closed", "open", "reset"}, s2c' \in Seq(BrokerPacket)
  PROVE  TypeInv'
BY DEF TypeInv, ClientTyped, ControlTyped, OutboxTyped, IncomingTyped, HistTyped,
       client, control, app

LEMMA SendTyped ==
  ASSUME TypeInv, NEW packets \in Seq(BrokerPacket), Send(packets)
  PROVE  s2c' \in Seq(BrokerPacket)
BY DEF Send, TypeInv, IncomingTyped

LEMMA AnswerTyped ==
  ASSUME TypeInv, wire.sent # <<>>
  PROVE  /\ Next1 \in ClientPacket
         /\ Take => WireTyped'
         /\ Next1.type = "PUBLISH" /\ Next1.qos # 0 =>
              /\ Next1.id \in 1 .. MaxId
              /\ <<Answer("PUBACK", Next1.id)>> \in Seq(BrokerPacket)
              /\ <<Answer("PUBREC", Next1.id)>> \in Seq(BrokerPacket)
         /\ Next1.type = "PUBREL" => <<Answer("PUBCOMP", Next1.id)>> \in Seq(BrokerPacket)
         /\ Next1.type = "PUBREC" => <<Answer("PUBREL", Next1.id)>> \in Seq(BrokerPacket)
         /\ Next1.type = "SUBSCRIBE" => <<Answer("SUBACK", Next1.id)>> \in Seq(BrokerPacket)
         /\ Next1.type = "UNSUBSCRIBE" => <<Answer("UNSUBACK", Next1.id)>> \in Seq(BrokerPacket)
         /\ Next1.type = "PINGREQ" => <<Answer("PINGRESP", Next1.id)>> \in Seq(BrokerPacket)
<1>1. wire.sent \in Seq(ClientPacket) /\ DOMAIN wire = {"sent", "part", "ok", "once"}
  BY DEF TypeInv, WireTyped
<1>2. Next1 \in ClientPacket /\ Tail(wire.sent) \in Seq(ClientPacket)
  BY <1>1, TailHas DEF Next1
<1>3. Take => WireTyped'
  BY <1>1, <1>2 DEF Take, WireTyped
<1> HIDE DEF Next1
<1>4. \A i \in 1 .. MaxId : \A t \in {"PUBACK", "PUBREC", "PUBCOMP", "SUBACK", "UNSUBACK"} :
        Answer(t, i) \in BrokerPacket
  BY DEF Answer, BrokerPacket
<1>5. \A i \in BrokerMsg : Answer("PUBREL", i) \in BrokerPacket
  BY DEF Answer, BrokerPacket
<1>6. Answer("PINGRESP", 0) \in BrokerPacket
  BY DEF Answer, BrokerPacket
<1>7. \A b \in BrokerPacket : <<b>> \in Seq(BrokerPacket)
  OBVIOUS
<1>8. /\ Next1.type = "PUBLISH" /\ Next1.qos # 0 => Next1.id \in 1 .. MaxId
      /\ Next1.type \in {"SUBSCRIBE", "UNSUBSCRIBE", "PUBREL"} => Next1.id \in 1 .. MaxId
      /\ Next1.type = "PUBREC" => Next1.id \in BrokerMsg
      /\ Next1.type = "PINGREQ" => Next1.id = 0
  BY <1>2 DEF ClientPacket
<1> QED BY <1>2, <1>3, <1>4, <1>5, <1>6, <1>7, <1>8

\* The end of a connection.
LEMMA CloseTyped ==
  ASSUME TypeInv, Close
  PROVE  /\ WireTyped' /\ tcp' \in {"closed", "open", "reset"} /\ s2c' \in Seq(BrokerPacket)
         /\ bConn' = "down"
BY DEF Close, TypeInv, WireTyped, ControlTyped

\* What is sent of the unfinished messages of a session.
LEMMA ResentPacket ==
  ASSUME NEW out \in Seq(Flight), NEW k \in 1 .. Len(out)
  PROVE  Resent(out[k]) \in BrokerPacket
<1>1. out[k] \in Flight
  BY ElementOfSeq
<1>2. Answer("PUBREL", out[k].id) \in BrokerPacket
  BY <1>1 DEF Flight, Answer, BrokerPacket
<1>3. Message(out[k], TRUE) \in BrokerPacket
  <2>1. 0 \notin BrokerMsg
    BY BrokerAssumption
  <2> QED BY <1>1, <2>1 DEF Flight, Message, BrokerPacket
<1> QED BY <1>2, <1>3 DEF Resent

LEMMA ResentTyped ==
  ASSUME NEW out \in Seq(Flight), NEW b \in BOOLEAN
  PROVE  /\ <<Connack(TRUE, b)>> \o [k \in 1 .. Len(out) |-> Resent(out[k])] \in Seq(BrokerPacket)
         /\ Len([k \in 1 .. Len(out) |-> Resent(out[k])]) = Len(out)
<1> DEFINE s == [k \in 1 .. Len(out) |-> Resent(out[k])]
<1>1. \A k \in 1 .. Len(out) : Resent(out[k]) \in BrokerPacket
  BY ResentPacket
<1>2. s \in [1 .. Len(out) -> BrokerPacket] /\ Len(out) \in Nat
  BY <1>1
<1>3. s \in Seq(BrokerPacket) /\ Len(s) = Len(out)
  BY <1>2, SeqDef
<1>4. Connack(TRUE, b) \in BrokerPacket
  BY DEF Connack, BrokerPacket
<1> HIDE DEF s
<1>5. <<Connack(TRUE, b)>> \o s \in Seq(BrokerPacket)
  <2> DEFINE c == Connack(TRUE, b)
  <2>1. c \in BrokerPacket
    BY <1>4
  <2> HIDE DEF c
  <2>2. <<c>> \in Seq(BrokerPacket)
    BY <2>1
  <2>3. <<c>> \o s \in Seq(BrokerPacket)
    BY <1>3, <2>2, ConcatProperties
  <2> QED BY <2>3 DEF c
<1> QED BY <1>3, <1>5 DEF s

LEMMA GetConnectTyped ==
  ASSUME TypeInv, UNCHANGED <<client, control, app>>, GetConnect
  PROVE  TypeInv'
<1>0. /\ wire.sent # <<>> /\ bConn' = "up" /\ Take /\ UNCHANGED <<tcp, unsent, passedOn, drops>>
  BY DEF GetConnect
<1>1. PICK forget \in {FALSE, LosesSession} :
        LET resumed == session.present /\ ~CleanSession /\ ~forget
        IN  /\ session' = IF resumed THEN session ELSE [NoSession EXCEPT !.present = TRUE]
            /\ Send(<<Connack(TRUE, resumed)>> \o
                    [k \in 1 .. Len(session'.out) |-> Resent(session'.out[k])])
  BY DEF GetConnect
<1> DEFINE resumed == session.present /\ ~CleanSession /\ ~forget
<1>2. session' \in [present : BOOLEAN, recv : SUBSET (1 .. MaxId), out : Seq(Flight)]
  <2>1. session' \in {session, [NoSession EXCEPT !.present = TRUE]}
    BY <1>1
  <2> DEFINE S == [present : BOOLEAN, recv : SUBSET (1 .. MaxId), out : Seq(Flight)]
  <2>2. NoSession \in S
    BY DEF NoSession
  <2>3. [NoSession EXCEPT !.present = TRUE] \in S
    BY <2>2
  <2>4. session \in S
    BY DEF TypeInv, BrokerTyped
  <2> QED BY <2>1, <2>3, <2>4
<1>3. resumed \in BOOLEAN /\ session'.out \in Seq(Flight)
  BY <1>2
<1>4. Send(<<Connack(TRUE, resumed)>> \o
             [k \in 1 .. Len(session'.out) |-> Resent(session'.out[k])])
  BY <1>1
<1> HIDE DEF resumed
<1>5. s2c' \in Seq(BrokerPacket)
  BY <1>3, <1>4, ResentTyped, SendTyped
<1>6. WireTyped'
  BY <1>0, AnswerTyped
<1>7. BrokerTyped'
  BY <1>0, <1>2 DEF TypeInv, BrokerTyped
<1> QED BY <1>0, <1>5, <1>6, <1>7, BrokerSideTyped DEF TypeInv, ControlTyped

LEMMA RefuseTyped ==
  ASSUME TypeInv, UNCHANGED <<client, control, app>>, Refuse
  PROVE  TypeInv'
<1>0. /\ wire.sent # <<>> /\ bConn' = "refused" /\ Take
      /\ UNCHANGED <<tcp, session, unsent, passedOn, drops>>
  BY DEF Refuse
<1>1. PICK p \in {Connack(FALSE, FALSE), Answer("MALFORMED", 0), Answer("PINGRESP", 0)} :
        Send(<<p>>)
  BY DEF Refuse
<1>2. p \in BrokerPacket
  <2>1. CASE p = Connack(FALSE, FALSE)
    BY <2>1 DEF Connack, BrokerPacket
  <2>2. CASE p \in {Answer("MALFORMED", 0), Answer("PINGRESP", 0)}
    BY <2>2 DEF Answer, BrokerPacket
  <2> QED BY <2>1, <2>2
<1>3. s2c' \in Seq(BrokerPacket)
  <2>1. <<p>> \in Seq(BrokerPacket)
    BY <1>2
  <2> QED BY <1>1, <2>1, SendTyped
<1>4. WireTyped'
  BY <1>0, AnswerTyped
<1>5. BrokerTyped'
  BY <1>0 DEF TypeInv, BrokerTyped
<1> QED BY <1>0, <1>3, <1>4, <1>5, BrokerSideTyped DEF TypeInv, ControlTyped

LEMMA GetPublishTyped ==
  ASSUME TypeInv, UNCHANGED <<client, control, app>>, GetPublish
  PROVE  TypeInv'
<1> DEFINE i == Next1.id
<1>0. /\ wire.sent # <<>> /\ Take /\ UNCHANGED <<tcp, bConn, unsent, drops>>
      /\ Next1.type = "PUBLISH"
  BY DEF GetPublish, Gets
<1>1. WireTyped'
  BY <1>0, AnswerTyped
<1>2. ASSUME NEW j, PassOn(j) \/ UNCHANGED passedOn PROVE passedOn' \in [1 .. MaxId -> 0 .. 2]
  <2>1. passedOn \in [1 .. MaxId -> 0 .. 2]
    BY DEF TypeInv, BrokerTyped
  <2>2. CASE PassOn(j)
    <3> DEFINE x == IF passedOn[j] < 2 THEN passedOn[j] + 1 ELSE 2
    <3>1. passedOn' = [passedOn EXCEPT ![j] = x]
      BY <2>2 DEF PassOn
    <3>2. j \in 1 .. MaxId => x \in 0 .. 2
      BY <2>1
    <3> HIDE DEF x
    <3> QED BY <2>1, <3>1, <3>2
  <2> QED BY <1>2, <2>1, <2>2
<1>3. CASE Next1.qos = 0 /\ UNCHANGED <<s2c, session, passedOn>>
  <2>1. BrokerTyped' /\ s2c' \in Seq(BrokerPacket)
    BY <1>0, <1>3 DEF TypeInv, BrokerTyped, IncomingTyped
  <2> QED BY <1>0, <1>1, <2>1, BrokerSideTyped DEF TypeInv, ControlTyped
<1>4. CASE Next1.qos = 1 /\ PassOn(i) /\ Send(<<Answer("PUBACK", i)>>) /\ UNCHANGED session
  <2>1. <<Answer("PUBACK", i)>> \in Seq(BrokerPacket)
    BY <1>0, <1>4, AnswerTyped
  <2>2. s2c' \in Seq(BrokerPacket)
    BY <1>4, <2>1, SendTyped
  <2>3. BrokerTyped'
    BY <1>0, <1>2, <1>4 DEF TypeInv, BrokerTyped
  <2> QED BY <1>0, <1>1, <2>2, <2>3, BrokerSideTyped DEF TypeInv, ControlTyped
<1>5. CASE /\ Next1.qos = 2
           /\ IF i \in session.recv THEN UNCHANGED passedOn ELSE PassOn(i)
           /\ session' = [session EXCEPT !.recv = @ \cup {i}]
           /\ Send(<<Answer("PUBREC", i)>>)
  <2>1. i \in 1 .. MaxId /\ <<Answer("PUBREC", i)>> \in Seq(BrokerPacket)
    BY <1>0, <1>5, AnswerTyped
  <2>2. s2c' \in Seq(BrokerPacket)
    BY <1>5, <2>1, SendTyped
  <2>3. session' \in [present : BOOLEAN, recv : SUBSET (1 .. MaxId), out : Seq(Flight)]
    BY <1>5, <2>1 DEF TypeInv, BrokerTyped
  <2>4. passedOn' \in [1 .. MaxId -> 0 .. 2]
    BY <1>2, <1>5
  <2>5. BrokerTyped'
    BY <1>0, <2>3, <2>4 DEF TypeInv, BrokerTyped
  <2> QED BY <1>0, <1>1, <2>2, <2>5, BrokerSideTyped DEF TypeInv, ControlTyped
<1> QED BY <1>3, <1>4, <1>5 DEF GetPublish

LEMMA AnswersTyped ==
  ASSUME TypeInv, UNCHANGED <<client, control, app>>,
         GetPubrel \/ GetRequest \/ GetAnswer \/ GetPubrec
  PROVE  TypeInv'
<1> DEFINE S == [present : BOOLEAN, recv : SUBSET (1 .. MaxId), out : Seq(Flight)]
<1>0. /\ wire.sent # <<>> /\ Take /\ UNCHANGED <<tcp, bConn, unsent, passedOn, drops>>
  BY DEF GetPubrel, GetRequest, GetAnswer, GetPubrec, Gets
<1>1. WireTyped' /\ session \in S
  BY <1>0, AnswerTyped DEF TypeInv, BrokerTyped
\* what the four have in common
<1>2. ASSUME session' \in S, s2c' \in Seq(BrokerPacket) PROVE TypeInv'
  <2>1. BrokerTyped'
    BY <1>0, <1>2 DEF TypeInv, BrokerTyped
  <2> QED BY <1>0, <1>1, <1>2, <2>1, BrokerSideTyped DEF TypeInv, ControlTyped
<1>3. CASE GetPubrel
  <2>1. /\ Next1.type = "PUBREL" /\ Send(<<Answer("PUBCOMP", Next1.id)>>)
        /\ session' = [session EXCEPT !.recv = @ \ {Next1.id}]
    BY <1>3 DEF GetPubrel, Gets
  <2>2. s2c' \in Seq(BrokerPacket)
    BY <1>0, <2>1, AnswerTyped, SendTyped
  <2>3. session' \in S
    BY <1>1, <2>1
  <2> QED BY <1>2, <2>2, <2>3
<1>4. CASE GetRequest
  <2>1. PICK r \in {<<"SUBSCRIBE", "SUBACK">>, <<"UNSUBSCRIBE", "UNSUBACK">>,
                    <<"PINGREQ", "PINGRESP">>} :
          Next1.type = r[1] /\ Send(<<Answer(r[2], Next1.id)>>)
    BY <1>4 DEF GetRequest, Gets
  <2>2. <<Answer(r[2], Next1.id)>> \in Seq(BrokerPacket)
    BY <1>0, <2>1, AnswerTyped
  <2>3. s2c' \in Seq(BrokerPacket)
    BY <2>1, <2>2, SendTyped
  <2>4. session' \in S
    BY <1>1, <1>4 DEF GetRequest
  <2> QED BY <1>2, <2>3, <2>4
<1>5. CASE GetAnswer
  <2>1. session' = [session EXCEPT !.out = Unfinished(Next1.id)] /\ UNCHANGED s2c
    BY <1>5 DEF GetAnswer
  <2>2. Unfinished(Next1.id) \in Seq(Flight)
    BY <1>1, FilterHas DEF Unfinished
  <2>3. session' \in S
    BY <1>1, <2>1, <2>2
  <2> QED BY <1>2, <2>1, <2>3 DEF TypeInv, IncomingTyped
<1>6. CASE GetPubrec
  <2> DEFINE i == Next1.id
             out == Released(i)
  <2>0. Next1.type = "PUBREC" /\ Send(<<Answer("PUBREL", i)>>)
    BY <1>6 DEF GetPubrec, Gets
  <2>1. session' = [session EXCEPT !.out = out]
    BY <1>6 DEF GetPubrec
  <2>2. s2c' \in Seq(BrokerPacket)
    BY <1>0, <2>0, AnswerTyped, SendTyped
  <2>3. DOMAIN session.out = 1 .. Len(session.out) /\ Len(session.out) \in Nat
        /\ \A k \in 1 .. Len(session.out) : session.out[k] \in Flight
    BY <1>1, ElementOfSeq
  <2>4. out \in [1 .. Len(session.out) -> Flight]
    BY <2>3 DEF Flight, Released
  <2>5. out \in Seq(Flight)
    BY <2>3, <2>4, SeqDef
  <2>6. session' \in S
    <3> HIDE DEF out
    <3> QED BY <1>1, <2>1, <2>5
  <2> QED BY <1>2, <2>2, <2>6
<1> QED BY <1>3, <1>4, <1>5, <1>6

LEMMA NewIdTyped ==
  ASSUME NEW m \in BrokerMsg, ReusesIds => BrokerMsg \ InUse # {}
  PROVE  /\ NewId(m) \in BrokerMsg
         /\ ReusesIds => NewId(m) \notin InUse
         /\ ~ReusesIds => NewId(m) = m
<1>1. CASE ReusesIds
  <2> DEFINE free == BrokerMsg \ InUse
  <2>1. \E i \in free : \A j \in free : i <= j
    <3>1. free \subseteq Nat /\ free # {}
      BY <1>1, BrokerAssumption
    <3> HIDE DEF free
    <3> QED BY <3>1, LeastNat
  <2>2. NewId(m) \in free
    BY <1>1, <2>1 DEF NewId
  <2> QED BY <1>1, <2>2
<1>2. CASE ~ReusesIds
  BY <1>2 DEF NewId
<1> QED BY <1>1, <1>2

LEMMA PublishMessageTyped ==
  ASSUME TypeInv, UNCHANGED <<client, control, app>>, PublishMessage
  PROVE  TypeInv'
<1> DEFINE S == [present : BOOLEAN, recv : SUBSET (1 .. MaxId), out : Seq(Flight)]
<1>0. /\ UNCHANGED <<tcp, wire, bConn, passedOn, drops>>
  BY DEF PublishMessage
<1>1. PICK m \in unsent, q \in OutQos :
        /\ q # 0 /\ ReusesIds => BrokerMsg \ InUse # {}
        /\ LET f == [id |-> IF q = 0 THEN 0 ELSE NewId(m), qos |-> q, msg |-> m,
                     released |-> FALSE]
           IN  /\ session' = IF q = 0 THEN session ELSE [session EXCEPT !.out = Append(@, f)]
               /\ IF bConn = "up" THEN Send(<<Message(f, FALSE)>>) ELSE UNCHANGED s2c
        /\ unsent' = unsent \ {m}
  BY DEF PublishMessage
<1> DEFINE f == [id |-> IF q = 0 THEN 0 ELSE NewId(m), qos |-> q, msg |-> m,
                 released |-> FALSE]
<1>2. m \in BrokerMsg /\ q \in 0 .. 2 /\ session \in S /\ 0 \notin BrokerMsg
  BY BrokerAssumption DEF TypeInv, BrokerTyped
<1>3. /\ f.id = (IF q = 0 THEN 0 ELSE NewId(m)) /\ f.qos = q /\ f.msg = m
      /\ f.released = FALSE
      /\ q # 0 => NewId(m) \in BrokerMsg
  BY <1>1, <1>2, NewIdTyped
<1>4. q # 0 => f \in Flight
  BY <1>2, <1>3 DEF Flight
<1>5. /\ session' = IF q = 0 THEN session ELSE [session EXCEPT !.out = Append(@, f)]
      /\ IF bConn = "up" THEN Send(<<Message(f, FALSE)>>) ELSE UNCHANGED s2c
  BY <1>1
<1> HIDE DEF f
<1>6. session' \in S
  <2>1. CASE q = 0
    BY <1>2, <1>5, <2>1
  <2>2. CASE q # 0
    <3>1. f \in Flight /\ session.out \in Seq(Flight)
      BY <1>2, <1>4, <2>2
    <3>2. Append(session.out, f) \in Seq(Flight)
      BY <3>1
    <3> QED BY <1>2, <1>5, <2>2, <3>2
  <2> QED BY <2>1, <2>2
<1>7. Message(f, FALSE) \in BrokerPacket
  BY <1>2, <1>3 DEF Message, BrokerPacket
<1>8. <<Message(f, FALSE)>> \in Seq(BrokerPacket)
  <2> DEFINE b == Message(f, FALSE)
  <2>1. b \in BrokerPacket
    BY <1>7
  <2> HIDE DEF b
  <2>2. <<b>> \in Seq(BrokerPacket)
    BY <2>1
  <2> QED BY <2>2 DEF b
<1>9. s2c' \in Seq(BrokerPacket)
  BY <1>5, <1>8, SendTyped DEF TypeInv, IncomingTyped
<1>10. BrokerTyped' /\ WireTyped'
  BY <1>0, <1>1, <1>6 DEF TypeInv, BrokerTyped, WireTyped
<1> QED BY <1>0, <1>9, <1>10, BrokerSideTyped DEF TypeInv, ControlTyped

LEMMA ClosingTyped ==
  ASSUME TypeInv, UNCHANGED <<client, control, app>>,
         ProtocolViolation \/ GetDisconnect \/ ConnectionLost
  PROVE  TypeInv'
<1>1. /\ Close /\ session' = session /\ unsent' = unsent /\ passedOn' = passedOn
      /\ drops' = drops \/ (drops > 0 /\ drops' = drops - 1)
  <2>1. CASE ProtocolViolation
    BY <2>1 DEF ProtocolViolation
  <2>2. CASE GetDisconnect
    BY <2>2 DEF GetDisconnect
  <2>3. CASE ConnectionLost
    BY <2>3 DEF ConnectionLost
  <2> QED BY <2>1, <2>2, <2>3
<1>2. BrokerTyped'
  BY <1>1, CloseTyped DEF TypeInv, BrokerTyped
<1> QED BY <1>1, <1>2, CloseTyped, BrokerSideTyped

LEMMA StepTyped == TypeInv /\ [Next]_vars => TypeInv'
<1> SUFFICES ASSUME TypeInv, [Next]_vars PROVE TypeInv'
  OBVIOUS
<1>1. CASE ClientStep
  BY <1>1, AppTyped, ConnectingTyped, DisconnectingTyped, DisconnectedTyped,
     SendPacketTyped, ReceivingTyped, CallbacksTyped, TimersTyped, TimeTyped
  DEF ClientStep, LoopNext, Disconnecting
<1>2. CASE ConnectStep
  <2>1. TcpConnect /\ bConn' = "wait" /\ UNCHANGED <<session, unsent, passedOn, drops>>
    BY <1>2 DEF ConnectStep, Accept
  <2>2. BrokerTyped'
    BY <2>1 DEF TypeInv, BrokerTyped
  <2>3. /\ lpc = "tcp1" /\ lpc' = "tcp2" /\ tcp' = "open" /\ s2c' = <<>>
        /\ wire' = NewWire(wire.once) /\ state' = "connectingTcp2"
        /\ UNCHANGED <<outbox, bytesSent, packetId, pingSent, reason, idle, branch, rx, app>>
    BY <2>1 DEF TcpConnect, At, Goto
  <2>4. ClientTyped' /\ OutboxTyped' /\ HistTyped' /\ IncomingTyped' /\ ControlTyped'
    BY <2>3 DEF TypeInv, ClientTyped, OutboxTyped, HistTyped, IncomingTyped, ControlTyped,
                State, app, Places
  <2>5. WireTyped'
    BY <2>3 DEF WireTyped, NewWire
  <2> QED BY <2>2, <2>4, <2>5 DEF TypeInv
<1>3. CASE BrokerStep
  BY <1>3, GetConnectTyped, RefuseTyped, ClosingTyped, GetPublishTyped, AnswersTyped,
     PublishMessageTyped
  DEF BrokerStep, Answers
<1>4. CASE LossStep
  BY <1>4, ClosingTyped DEF LossStep
<1>5. CASE UNCHANGED vars
  BY <1>5 DEF vars, clientVars, brokerVars, client, control, net, app, TypeInv, ClientTyped,
     ControlTyped, OutboxTyped, WireTyped, IncomingTyped, HistTyped, BrokerTyped
<1> QED BY <1>1, <1>2, <1>3, <1>4, <1>5 DEF Next

LEMMA TypeInvariant == Spec => []TypeInv
BY InitTyped, StepTyped, PTL DEF Spec

LEMMA TypedOK == TypeInv => TypeOK
<1> SUFFICES ASSUME TypeInv PROVE TypeOK
  OBVIOUS
<1>1. outbox.q \in Seq(Packet) /\ outbox.c \in 1 .. Len(outbox.q) + 1
  <2>1. outbox.q \in Seq(ClientPacket) /\ ClientPacket \subseteq Packet
    BY DEF TypeInv, OutboxTyped, Box, ClientPacket
  <2> QED BY <2>1, SeqMonotonic DEF TypeInv, OutboxTyped, Box
<1>2. wire.sent \in Seq(Packet)
  <2>1. wire.sent \in Seq(ClientPacket) /\ ClientPacket \subseteq Packet
    BY DEF TypeInv, WireTyped, ClientPacket
  <2> QED BY <2>1, SeqMonotonic
<1>3. \A s \in Seq(Packet) : Range(s) \subseteq Packet
  <2> TAKE s \in Seq(Packet)
  <2>1. DOMAIN s = 1 .. Len(s) /\ \A k \in 1 .. Len(s) : s[k] \in Packet
    BY ElementOfSeq
  <2> QED BY <2>1 DEF Range
<1>4. Range(outbox.q) \subseteq Packet /\ Range(wire.sent) \subseteq Packet
  BY <1>1, <1>2, <1>3
<1> QED BY <1>1, <1>4 DEF TypeInv, TypeOK, ClientTyped, ControlTyped, IncomingTyped, Reasons

\* The variables of the client have their types and the cursor of the outbox is
\* one of its positions, with any number of threads and for every broker: also
\* while _clearQueue() or a handler removes packets on both sides of the cursor
\* (Outbox.h:129-249, MqttClient.cpp:718-734).
THEOREM TypeCorrect == Spec => []TypeOK
BY TypeInvariant, TypedOK, PTL

-----------------------------------------------------------------------------
(* Kinds of steps: most steps of the client are calm, which is to say that no  *)
(* packet with an id is new, and none that belongs to an exchange disappears   *)
(* from the outbox.  Each other kind says which packet comes or goes.          *)
(* StepKinds: there are no other steps.                                        *)

\* Packets on their way to the client, in the order in which it handles them.
Coming == rx \o s2c

\* t is a contiguous piece of s.
Piece(t, s) ==
  \E d \in Nat : d + Len(t) <= Len(s) /\ \A k \in 1 .. Len(t) : t[k] = s[k + d]

\* The broker has no part in the step.
Held == UNCHANGED <<session, passedOn, unsent>>
\* The application asks for nothing and gets no message of QoS 1 or 2.
Told ==
  /\ hist'.asked = hist.asked /\ hist.acked \subseteq hist'.acked
  /\ \A m \in Msg : \A q \in 1 .. 2 : hist'.got[<<m, q>>] = hist.got[<<m, q>>]

Calm ==
  /\ Fewer(outbox'.q, outbox.q) /\ Keeps(outbox.q, outbox'.q, Exchange)
  /\ Piece(wire'.sent, wire.sent) /\ Piece(Coming', Coming)
  /\ packetId' \in {packetId, NextPacketId}
  /\ Held /\ Told

\* A packet of the outbox was written as a whole.
Writes ==
  /\ \E k \in 1 .. Len(outbox.q) : wire'.sent = Append(wire.sent, outbox.q[k])
  /\ Fewer(outbox'.q, outbox.q) /\ Keeps(outbox.q, outbox'.q, Exchange)
  /\ Coming' = Coming /\ packetId' = packetId
  /\ Held /\ Told

\* publish(), subscribe() or unsubscribe() with the packet r.
Asks(r) ==
  /\ r.type \in {"PUBLISH", "SUBSCRIBE", "UNSUBSCRIBE"}
  /\ outbox'.q = Append(outbox.q, r) /\ hist'.asked = hist.asked \cup {r}
  /\ hist'.acked = hist.acked /\ hist'.got = hist.got
  /\ \/ r.type = "PUBLISH" /\ r.qos = 0 /\ r.id = 0 /\ packetId' = packetId
     \/ r.id = NextPacketId /\ packetId' = NextPacketId
  /\ wire'.sent = wire.sent /\ Coming' = Coming /\ Held

\* clearQueue(true)
ClearsAll ==
  /\ \E t \in Thread : apc[t] = "clearAll"
  /\ outbox'.q = <<>>
  /\ wire'.sent = wire.sent /\ Coming' = Coming /\ hist' = hist
  /\ packetId' = packetId /\ Held

\* The client handles the packet p.
Handles(p) ==
  /\ Coming # <<>> /\ p = Head(Coming) /\ Coming' = Tail(Coming)
  /\ wire'.sent = wire.sent /\ packetId' = packetId /\ Held

\* CONNACK says that the broker has no session.
NewSession ==
  /\ \E p \in BrokerPacket : Handles(p) /\ p.type = "CONNACK" /\ p.ok /\ ~p.sessionPresent
  /\ Fewer(outbox'.q, outbox.q) /\ Keeps(outbox.q, outbox'.q, {"PUBLISH"})
  /\ Told

\* A message of QoS 1 or 2, which onMessage has not seen before.
Delivering(p) ==
  /\ Handles(p) /\ p.type = "PUBLISH" /\ p.qos \in 1 .. 2
  /\ LET answer == IF p.qos = 1 THEN "PUBACK" ELSE "PUBREC"
     IN  \/ outbox'.q = Append(outbox.q, Ctl(answer, p.id))
         \/ MayFail /\ outbox'.q = outbox.q
  /\ hist'.asked = hist.asked /\ hist'.acked = hist.acked
  /\ IF p.qos = 2 /\ Has(outbox.q, {"PUBREC"}, p.id)
     THEN hist'.got = hist.got
     ELSE hist'.got = [hist.got EXCEPT ![<<p.msg, p.qos>>] = @ + 1]
Delivers == \E p \in BrokerPacket : Delivering(p)

\* answer takes a packet of the type out of the outbox and puts reply there.
Continues(answer, type, reply) ==
  \E p \in BrokerPacket, t \in Seq(ClientPacket) :
    /\ Handles(p) /\ p.type = answer
    /\ Has(outbox.q, {type}, p.id) /\ Drops(t, outbox.q, type, p.id)
    /\ outbox'.q = Append(t, Ctl(reply, p.id)) \/ (MayFail /\ outbox'.q = t)
    /\ hist' = hist

\* answer ends an exchange.
Completes(answer, type) ==
  \E p \in BrokerPacket :
    /\ Handles(p) /\ p.type = answer
    /\ Has(outbox.q, {type}, p.id) /\ Drops(outbox'.q, outbox.q, type, p.id)
    /\ hist'.asked = hist.asked /\ hist'.got = hist.got
    /\ hist'.acked = hist.acked \cup {p.id}

\* UNSUBACK removes a packet of any type.
Unsubscribed ==
  \E p \in BrokerPacket, type \in AllTypes :
    /\ Handles(p) /\ p.type = "UNSUBACK"
    /\ Drops(outbox'.q, outbox.q, type, p.id)
    /\ Told

\* Steps of the broker.
AtBroker == UNCHANGED <<client, control, app>>
Serves ==
  /\ AtBroker
  /\ \/ GetConnect \/ Refuse \/ GetPublish \/ GetPubrel \/ GetRequest
     \/ GetAnswer \/ GetPubrec \/ PublishMessage

ClientKinds ==
  \/ Calm \/ Writes \/ (\E r \in ClientPacket : Asks(r)) \/ ClearsAll
  \/ NewSession \/ Delivers
  \/ Continues("PUBREC", "PUBLISH", "PUBREL") \/ Continues("PUBREL", "PUBREC", "PUBCOMP")
  \/ Completes("PUBACK", "PUBLISH") \/ Completes("PUBCOMP", "PUBREL")
  \/ Unsubscribed
Kinds == ClientKinds \/ Serves
-----------------------------------------------------------------------------
(* Pieces of a sequence *)

LEMMA PieceItself == ASSUME NEW S, NEW s \in Seq(S) PROVE Piece(s, s)
<1>1. 0 + Len(s) <= Len(s) /\ \A k \in 1 .. Len(s) : s[k] = s[k + 0]
  OBVIOUS
<1> QED BY <1>1 DEF Piece

LEMMA PieceEmpty == ASSUME NEW S, NEW s \in Seq(S) PROVE Piece(<<>>, s)
<1>1. 0 + Len(<<>>) <= Len(s) /\ \A k \in 1 .. Len(<<>>) : <<>>[k] = s[k + 0]
  OBVIOUS
<1> QED BY <1>1 DEF Piece

LEMMA PieceTail == ASSUME NEW S, NEW s \in Seq(S), s # <<>> PROVE Piece(Tail(s), s)
<1>1. 1 + Len(Tail(s)) <= Len(s) /\ \A k \in 1 .. Len(Tail(s)) : Tail(s)[k] = s[k + 1]
  BY TailHas
<1> QED BY <1>1 DEF Piece

LEMMA PieceParts ==
  ASSUME NEW S, NEW s \in Seq(S), NEW t \in Seq(S)
  PROVE  Piece(s, s \o t) /\ Piece(t, s \o t)
<1> DEFINE u == s \o t
<1>1. /\ Len(s) \in Nat /\ Len(t) \in Nat /\ Len(u) = Len(s) + Len(t)
      /\ \A k \in 1 .. Len(s) + Len(t) : u[k] = IF k <= Len(s) THEN s[k] ELSE t[k - Len(s)]
  BY ConcatProperties
<1> HIDE DEF u
<1>2. 0 + Len(s) <= Len(u) /\ \A k \in 1 .. Len(s) : s[k] = u[k + 0]
  BY <1>1
<1>3. Len(s) + Len(t) <= Len(u) /\ \A k \in 1 .. Len(t) : t[k] = u[k + Len(s)]
  BY <1>1
<1>4. Piece(s, u)
  BY <1>2 DEF Piece
<1>5. Piece(t, u)
  BY <1>1, <1>3 DEF Piece
<1> QED BY <1>4, <1>5 DEF u

LEMMA PieceHas ==
  ASSUME NEW S, NEW s \in Seq(S), NEW t \in Seq(S), Piece(t, s)
  PROVE  /\ \A types : \A i : Has(t, types, i) => Has(s, types, i)
         /\ \A k \in 1 .. Len(t) : \E j \in 1 .. Len(s) : j >= k /\ t[k] = s[j]
         /\ Within(t, s)
<1>1. PICK d \in Nat : d + Len(t) <= Len(s) /\ \A k \in 1 .. Len(t) : t[k] = s[k + d]
  BY DEF Piece
<1> DEFINE e == [k \in 1 .. Len(t) |-> k + d]
<1>2. /\ e \in [1 .. Len(t) -> 1 .. Len(s)]
      /\ \A j, k \in 1 .. Len(t) : j < k => e[j] < e[k]
      /\ \A k \in 1 .. Len(t) : e[k] = k + d /\ e[k] >= k
  BY <1>1
<1> HIDE DEF e
<1>3. \A k \in 1 .. Len(t) : t[k] = s[e[k]] /\ Same(t[k], s[e[k]])
  BY <1>1, <1>2 DEF Same
<1>4. Within(t, s)
  BY <1>2, <1>3 DEF Within
<1>5. ASSUME NEW types, NEW i, Has(t, types, i) PROVE Has(s, types, i)
  BY <1>2, <1>3, <1>5 DEF Has
<1> QED BY <1>2, <1>3, <1>4, <1>5

LEMMA HeadOfConcat ==
  ASSUME NEW S, NEW s \in Seq(S), NEW t \in Seq(S), s # <<>>
  PROVE  s \o t # <<>> /\ Head(s \o t) = Head(s) /\ Tail(s \o t) = Tail(s) \o t
<1>1. /\ Len(s) \in Nat \ {0} /\ Len(t) \in Nat /\ Len(s \o t) = Len(s) + Len(t)
      /\ s \o t \in Seq(S)
      /\ \A k \in 1 .. Len(s) + Len(t) :
           (s \o t)[k] = IF k <= Len(s) THEN s[k] ELSE t[k - Len(s)]
  BY ConcatProperties, TailHas
<1> DEFINE u == s \o t
           v == Tail(s) \o t
           w == Tail(u)
<1> HIDE DEF u
<1>2. /\ u # <<>> /\ u \in Seq(S) /\ Len(u) = Len(s) + Len(t)
      /\ \A k \in 1 .. Len(s) + Len(t) : u[k] = IF k <= Len(s) THEN s[k] ELSE t[k - Len(s)]
  BY <1>1 DEF u
<1>3. Head(u) = Head(s)
  <2>1. Head(u) = u[1] /\ Head(s) = s[1]
    BY <1>2, TailHas
  <2> QED BY <1>1, <1>2, <2>1
<1>4. /\ Tail(s) \in Seq(S) /\ Len(Tail(s)) = Len(s) - 1
      /\ \A k \in 1 .. Len(s) - 1 : Tail(s)[k] = s[k + 1]
  BY TailHas
<1>5. /\ v \in Seq(S) /\ Len(v) = Len(s) - 1 + Len(t)
      /\ \A k \in 1 .. Len(s) - 1 + Len(t) :
           v[k] = IF k <= Len(s) - 1 THEN Tail(s)[k] ELSE t[k - (Len(s) - 1)]
  BY <1>1, <1>4, ConcatProperties
<1>6. /\ w \in Seq(S) /\ Len(w) = Len(s) + Len(t) - 1
      /\ \A k \in 1 .. Len(s) + Len(t) - 1 : w[k] = u[k + 1]
  BY <1>2, TailHas
<1> HIDE DEF v, w
<1>7. ASSUME NEW k \in 1 .. Len(w) PROVE w[k] = v[k]
  <2>1. CASE k <= Len(s) - 1
    <3>0. /\ k \in 1 .. Len(s) - 1 /\ k \in 1 .. Len(s) + Len(t) - 1
          /\ k \in 1 .. Len(s) - 1 + Len(t)
          /\ k + 1 \in 1 .. Len(s) + Len(t) /\ k + 1 <= Len(s)
      BY <1>1, <1>6, <2>1
    <3>1. w[k] = u[k + 1] /\ u[k + 1] = s[k + 1]
      BY <1>2, <1>6, <3>0
    <3>2. v[k] = Tail(s)[k] /\ Tail(s)[k] = s[k + 1]
      BY <1>4, <1>5, <3>0, <2>1
    <3> QED BY <3>1, <3>2
  <2>2. CASE ~(k <= Len(s) - 1)
    <3>1. ~(k + 1 <= Len(s)) /\ (k + 1) - Len(s) = k - (Len(s) - 1)
      BY <1>1, <1>6, <2>2
    <3>2. /\ k \in 1 .. Len(s) + Len(t) - 1 /\ k \in 1 .. Len(s) - 1 + Len(t)
          /\ k + 1 \in 1 .. Len(s) + Len(t)
      BY <1>1, <1>6
    <3>3. w[k] = u[k + 1] /\ u[k + 1] = t[(k + 1) - Len(s)]
      BY <1>2, <1>6, <3>1, <3>2
    <3>4. v[k] = t[k - (Len(s) - 1)]
      BY <1>5, <2>2, <3>2
    <3> QED BY <3>1, <3>3, <3>4
  <2> QED BY <1>1, <1>6, <2>1, <2>2
<1>8. w = v
  <2>1. Len(w) = Len(v)
    BY <1>1, <1>5, <1>6
  <2>2. w \in Seq(S) /\ v \in Seq(S)
    BY <1>5, <1>6
  <2> QED BY <1>7, <2>1, <2>2, SeqEqual
<1> QED BY <1>2, <1>3, <1>8 DEF u, v, w

LEMMA AppendConcat ==
  ASSUME NEW S, NEW s \in Seq(S), NEW t \in Seq(S), NEW x \in S
  PROVE  s \o (t \o <<x>>) = Append(s \o t, x)
<1>1. <<x>> \in Seq(S) /\ s \o t \in Seq(S)
  BY ConcatProperties
<1>2. s \o (t \o <<x>>) = (s \o t) \o <<x>>
  BY <1>1, ConcatAssociative
<1>3. \A u \in Seq(S) : u \o <<x>> = Append(u, x)
  OBVIOUS
<1> QED BY <1>1, <1>2, <1>3
-----------------------------------------------------------------------------
(* The steps of the client *)

LEMMA Sequences ==
  ASSUME TypeInv
  PROVE  /\ outbox \in Box(ClientPacket) /\ outbox.q \in Seq(ClientPacket)
         /\ wire.sent \in Seq(ClientPacket)
         /\ rx \in Seq(BrokerPacket) /\ s2c \in Seq(BrokerPacket)
         /\ Coming \in Seq(BrokerPacket)
BY ConcatProperties DEF TypeInv, OutboxTyped, Box, WireTyped, IncomingTyped, Coming

\* Nothing but the outbox changes, and it loses nothing that matters.
LEMMA CalmOutbox ==
  ASSUME TypeInv, Fewer(outbox'.q, outbox.q), Keeps(outbox.q, outbox'.q, Exchange),
         Piece(wire'.sent, wire.sent), Piece(Coming', Coming),
         UNCHANGED <<session, passedOn, unsent>>, Told,
         packetId' \in {packetId, NextPacketId}
  PROVE  Calm
BY DEF Calm, Held

LEMMA CalmStep ==
  ASSUME TypeInv, outbox' \in {outbox, ResetCurrent(outbox)} \/ outbox'.q = outbox.q,
         wire' = wire \/ wire'.sent = <<>>,
         Piece(Coming', Coming),
         UNCHANGED <<session, passedOn, unsent>>, UNCHANGED hist \/ Told,
         packetId' \in {packetId, NextPacketId}
  PROVE  Calm
<1>1. /\ outbox.q \in Seq(ClientPacket) /\ wire.sent \in Seq(ClientPacket)
      /\ outbox \in Box(ClientPacket)
  BY Sequences
<1>2. outbox'.q = outbox.q
  BY <1>1, ResetBox
<1>3. Fewer(outbox'.q, outbox.q) /\ Keeps(outbox.q, outbox'.q, Exchange)
  BY <1>1, <1>2, FewerItself, KeepsItself
<1>4. Piece(wire'.sent, wire.sent)
  BY <1>1, PieceItself, PieceEmpty
<1>5. Told
  BY DEF Told
<1> QED BY <1>3, <1>4, <1>5, CalmOutbox

\* A packet without an id is added.
LEMMA CalmAdded ==
  ASSUME TypeInv, NEW type \in {"CONNECT", "PINGREQ", "DISCONNECT"},
         \/ outbox' \in AddPacket(outbox, Ctl(type, 0))
         \/ outbox' = EmplaceFront(outbox, Ctl(type, 0)),
         wire' = wire, Coming' = Coming,
         UNCHANGED <<session, passedOn, unsent>>, Told, packetId' = packetId
  PROVE  Calm
<1> DEFINE x == Ctl(type, 0)
<1>1. /\ outbox.q \in Seq(ClientPacket) /\ outbox \in Box(ClientPacket)
      /\ wire.sent \in Seq(ClientPacket) /\ Coming \in Seq(BrokerPacket)
  BY Sequences
<1>2. x \in ClientPacket /\ x.id = 0
  BY CtlTyped DEF Ctl
<1> HIDE DEF x
<1>3. outbox'.q \in {outbox.q, Append(outbox.q, x), <<x>> \o outbox.q}
  BY <1>1, <1>2, AddPacketBox, EmplaceFrontBox DEF x
<1>4. Fewer(outbox'.q, outbox.q)
  BY <1>1, <1>2, <1>3, FewerItself, AddedFewer
<1>5. Keeps(outbox.q, outbox'.q, Exchange)
  BY <1>1, <1>2, <1>3, KeepsItself, AppendKeeps
<1>6. Piece(wire'.sent, wire.sent) /\ Piece(Coming', Coming)
  BY <1>1, PieceItself
<1> QED BY <1>4, <1>5, <1>6, CalmOutbox

LEMMA AppKinds ==
  ASSUME TypeInv, AppNext, UNCHANGED brokerVars
  PROVE  Calm \/ ClearsAll \/ \E r \in ClientPacket : Asks(r)
<1>0. /\ outbox.q \in Seq(ClientPacket) /\ outbox \in Box(ClientPacket)
      /\ wire.sent \in Seq(ClientPacket) /\ Coming \in Seq(BrokerPacket)
      /\ Piece(Coming, Coming) /\ Piece(wire.sent, wire.sent)
      /\ UNCHANGED <<session, passedOn, unsent>>
  BY Sequences, PieceItself DEF brokerVars
<1>1. ASSUME NEW t \in Thread, NEW call \in Calls, Call(t, call) PROVE Calm
  <2>1. outbox' = outbox /\ wire' = wire /\ Coming' = Coming /\ hist' = hist /\ packetId' = packetId
    BY <1>1 DEF Call, client, control, net, Coming
  <2> QED BY <1>0, <2>1, CalmStep
<1>2. ASSUME NEW t \in Thread, Connect(t) PROVE Calm
  <2>1. /\ wire' = wire /\ Coming' = Coming /\ packetId' = packetId
        /\ hist' = hist \/ hist' = [hist EXCEPT !.owed = @ + 1]
        /\ \/ outbox' = EmplaceFront(outbox, Ctl("CONNECT", 0))
           \/ outbox' \in {outbox, ResetCurrent(outbox)}
    BY <1>2 DEF Connect, AddPacketFrontFails, control, net, Coming
  <2>2. Told
    BY <2>1 DEF Told, TypeInv, HistTyped
  <2> QED BY <1>0, <2>1, <2>2, CalmStep, CalmAdded
<1>3. ASSUME NEW t \in Thread, Disconnect(t) PROVE Calm
  <2>1. outbox' = outbox /\ wire' = wire /\ Coming' = Coming /\ hist' = hist /\ packetId' = packetId
    BY <1>3 DEF Disconnect, control, net, Coming
  <2> QED BY <1>0, <2>1, CalmStep
<1>4. NextPacketId \in 1 .. MaxId
  BY ClientAssumption DEF NextPacketId, TypeInv, ClientTyped
<1>5. ASSUME NEW t \in Thread, NEW call, NEW p \in Packet, Request(t, call, p),
             p.type \in {"PUBLISH", "SUBSCRIBE", "UNSUBSCRIBE"},
             p.type = "PUBLISH" => p.qos \in 1 .. 2 \/ (call = "publish0" /\ p.qos = 0),
             call = "publish0" => p.type = "PUBLISH" /\ p.qos = 0 /\ p.id = 0
      PROVE  Calm \/ \E r \in ClientPacket : Asks(r)
  <2> DEFINE r == IF call = "publish0" THEN p ELSE [p EXCEPT !.id = NextPacketId]
  <2>1. /\ outbox' \in AddPacket(outbox, r)
        /\ hist' = [hist EXCEPT !.asked = IF outbox' = outbox THEN @ ELSE @ \cup {r}]
        /\ packetId' = (IF call = "publish0" THEN packetId ELSE NextPacketId)
        /\ wire' = wire /\ Coming' = Coming
    BY <1>5 DEF Request, control, net, Coming
  <2>2. /\ r \in Packet /\ r.type = p.type /\ r.qos = p.qos
        /\ r.id = IF call = "publish0" THEN 0 ELSE NextPacketId
    <3>1. CASE call = "publish0"
      BY <1>5, <3>1
    <3>2. CASE call # "publish0"
      <4>1. NextPacketId \in 0 .. MaxId
        BY <1>4
      <4> HIDE DEF NextPacketId
      <4> QED BY <3>2, <4>1, WithNewId
    <3> QED BY <3>1, <3>2
  <2> HIDE DEF r
  <2>3. r \in ClientPacket
    BY <1>4, <1>5, <2>2 DEF ClientPacket
  <2>4. CASE outbox' = outbox
    <3>1. Told
      BY <2>1, <2>4 DEF Told, TypeInv, HistTyped
    <3> QED BY <1>0, <2>1, <2>4, <3>1, CalmStep
  <2>5. CASE outbox' # outbox
    <3>1. outbox'.q = Append(outbox.q, r)
      BY <1>0, <2>1, <2>3, <2>5, AddPacketBox
    <3>2. hist'.asked = hist.asked \cup {r} /\ hist'.acked = hist.acked /\ hist'.got = hist.got
      BY <2>1, <2>5 DEF TypeInv, HistTyped
    <3>3. \/ r.type = "PUBLISH" /\ r.qos = 0 /\ r.id = 0 /\ packetId' = packetId
          \/ r.id = NextPacketId /\ packetId' = NextPacketId
      BY <1>5, <2>1, <2>2
    <3>4. Asks(r)
      BY <1>0, <1>5, <2>1, <2>2, <3>1, <3>2, <3>3 DEF Asks, Held
    <3> QED BY <2>3, <3>4
  <2> QED BY <2>4, <2>5
<1>6. ASSUME NEW t \in Thread, Publish(t) PROVE Calm \/ \E r \in ClientPacket : Asks(r)
  <2>1. \A q \in 0 .. 2 : Pub(0, q) \in Packet /\ Pub(0, q).type = "PUBLISH"
                         /\ Pub(0, q).qos = q /\ Pub(0, q).id = 0
    BY ClientAssumption DEF Pub, Packet, AllTypes
  <2>2. CASE Request(t, "publish0", Pub(0, 0))
    BY <1>5, <2>1, <2>2
  <2>3. CASE Request(t, "publish1", Pub(0, 1))
    BY <1>5, <2>1, <2>3
  <2>4. CASE Request(t, "publish2", Pub(0, 2))
    BY <1>5, <2>1, <2>4
  <2> QED BY <1>6, <2>2, <2>3, <2>4 DEF Publish
<1>7. ASSUME NEW t \in Thread, Subscribe(t) \/ Unsubscribe(t)
      PROVE  Calm \/ \E r \in ClientPacket : Asks(r)
  <2>1. \A type \in {"SUBSCRIBE", "UNSUBSCRIBE"} :
          Ctl(type, 0) \in Packet /\ Ctl(type, 0).type = type
    BY ClientAssumption DEF Ctl, Packet, AllTypes
  <2>2. CASE Request(t, "subscribe", Ctl("SUBSCRIBE", 0))
    BY <1>5, <2>1, <2>2
  <2>3. CASE Request(t, "unsubscribe", Ctl("UNSUBSCRIBE", 0))
    BY <1>5, <2>1, <2>3
  <2> QED BY <1>7, <2>2, <2>3 DEF Subscribe, Unsubscribe
<1>8. ASSUME NEW t \in Thread, ClearQueueCall(t) PROVE Calm \/ ClearsAll
  <2>1. /\ wire' = wire /\ Coming' = Coming /\ packetId' = packetId /\ hist' = hist
        /\ \/ outbox' = ClearQueue(outbox, 0)
           \/ apc[t] = "clearAll" /\ outbox' = ClearQueue(outbox, 2)
    BY <1>8 DEF ClearQueueCall, Return, control, net, Coming
  <2>2. CASE outbox' = ClearQueue(outbox, 0)
    <3>1. outbox' \in Box(ClientPacket) /\ Within(outbox'.q, outbox.q)
      BY <1>0, <2>2, ClearQueueBox
    <3>2. Fewer(outbox'.q, outbox.q)
      BY <1>0, <3>1, WithinFewer DEF Box
    <3>3. Keeps(outbox.q, outbox'.q, Exchange)
      BY <1>0, <2>2, ClearQueueKeeps
    <3>4. Told
      BY <2>1 DEF Told
    <3> QED BY <1>0, <2>1, <3>2, <3>3, <3>4, CalmOutbox
  <2>3. CASE apc[t] = "clearAll" /\ outbox' = ClearQueue(outbox, 2)
    <3>1. \A k \in 1 .. Len(outbox'.q) : Kept(2, outbox'.q[k])
      BY <1>0, <2>3, ClearQueueBox
    <3>2. outbox'.q \in Seq(ClientPacket)
      BY <1>0, <2>3, ClearQueueBox DEF Box
    <3>3. ~(1 \in 1 .. Len(outbox'.q))
      BY <3>1 DEF Kept
    <3>4. outbox'.q = <<>>
      BY <3>2, <3>3, EmptySeq
    <3> QED BY <1>0, <2>1, <2>3, <3>4 DEF ClearsAll, Held
  <2> QED BY <2>1, <2>2, <2>3
<1> QED BY <1>1, <1>2, <1>3, <1>6, <1>7, <1>8 DEF AppNext, Act

LEMMA PassageKinds ==
  ASSUME TypeInv, UNCHANGED <<session, passedOn, unsent>>,
         \/ Dispatch \/ Connecting \/ TcpConnect \/ StopTransport \/ SendFails \/ NothingToSend
         \/ Retransmit \/ NoRetransmit \/ TimePasses
  PROVE  Calm
<1>0. /\ outbox.q \in Seq(ClientPacket) /\ wire.sent \in Seq(ClientPacket)
      /\ rx \in Seq(BrokerPacket) /\ s2c \in Seq(BrokerPacket) /\ Coming \in Seq(BrokerPacket)
      /\ Piece(Coming, Coming)
  BY Sequences, PieceItself
<1>1. CASE TcpConnect
  <2>1. outbox' = outbox /\ wire'.sent = <<>> /\ rx' = rx /\ s2c' = <<>> /\ hist' = hist /\ packetId' = packetId
    BY <1>1 DEF TcpConnect, NewWire, app
  <2>2. Coming' = rx
    BY <1>0, <2>1, ConcatProperties DEF Coming
  <2>3. Piece(Coming', Coming)
    BY <1>0, <2>2, PieceParts DEF Coming
  <2> QED BY <2>1, <2>3, CalmStep
<1>2. CASE Dispatch \/ Connecting \/ StopTransport \/ SendFails \/ NothingToSend
           \/ Retransmit \/ NoRetransmit \/ TimePasses
  <2>1. /\ outbox' \in {outbox, ResetCurrent(outbox)} /\ wire' = wire /\ rx' = rx /\ s2c' = s2c
        /\ hist' = hist /\ packetId' = packetId
    <3>1. CASE Dispatch
      BY <3>1 DEF Dispatch, net, app
    <3>2. CASE Connecting
      BY <3>2 DEF Connecting, TcpConnectFails, TcpConnected, CheckTransport, TransportLost,
                  client, net, app
    <3>3. CASE StopTransport \/ SendFails \/ NothingToSend
      BY <3>3 DEF StopTransport, SendFails, NothingToSend, client, net, app
    <3>4. CASE Retransmit \/ NoRetransmit \/ TimePasses
      BY <3>4 DEF Retransmit, NoRetransmit, TimePasses, client, control, net, app
    <3> QED BY <1>2, <3>1, <3>2, <3>3, <3>4
  <2>2. Coming' = Coming
    BY <2>1 DEF Coming
  <2> QED BY <1>0, <2>1, <2>2, CalmStep
<1> QED BY <1>1, <1>2

LEMMA OtherKinds ==
  ASSUME TypeInv, UNCHANGED <<session, passedOn, unsent>>,
         SayGoodbye \/ Disconnected \/ CheckPing \/ Callbacks \/ Read
  PROVE  Calm
<1>0. /\ outbox.q \in Seq(ClientPacket) /\ wire.sent \in Seq(ClientPacket)
      /\ outbox \in Box(ClientPacket)
      /\ rx \in Seq(BrokerPacket) /\ s2c \in Seq(BrokerPacket) /\ Coming \in Seq(BrokerPacket)
      /\ Piece(Coming, Coming) /\ Piece(wire.sent, wire.sent)
  BY Sequences, PieceItself
<1>1. CASE SayGoodbye
  <2>1. /\ wire' = wire /\ Coming' = Coming /\ hist' = hist /\ packetId' = packetId
        /\ outbox' \in AddPacket(outbox, Ctl("DISCONNECT", 0)) \/ outbox' = outbox
    BY <1>1 DEF SayGoodbye, net, app, Coming
  <2>2. Told
    BY <2>1 DEF Told
  <2> QED BY <1>0, <2>1, <2>2, CalmStep, CalmAdded
<1>2. CASE CheckPing
  <2>1. /\ wire' = wire /\ Coming' = Coming /\ hist' = hist /\ packetId' = packetId
        /\ outbox' \in AddPacket(outbox, Ctl("PINGREQ", 0)) \/ outbox' = outbox
    BY <1>2 DEF CheckPing, net, app, Coming
  <2>2. Told
    BY <2>1 DEF Told
  <2> QED BY <1>0, <2>1, <2>2, CalmStep, CalmAdded
<1>3. CASE Disconnected
  <2>1. /\ wire' = wire /\ Coming' = Coming /\ packetId' = packetId
        /\ outbox' = ClearQueue(outbox, 0)
        /\ hist' = [hist EXCEPT !.owed = @ - 1, !.told = reason]
    BY <1>3 DEF Disconnected, net, Coming
  <2>2. outbox' \in Box(ClientPacket) /\ Within(outbox'.q, outbox.q)
    BY <1>0, <2>1, ClearQueueBox
  <2>3. Fewer(outbox'.q, outbox.q) /\ Keeps(outbox.q, outbox'.q, Exchange)
    BY <1>0, <2>1, <2>2, WithinFewer, ClearQueueKeeps DEF Box
  <2>4. hist'.asked = hist.asked /\ hist'.acked = hist.acked /\ hist'.got = hist.got
    BY <2>1 DEF TypeInv, HistTyped
  <2>5. Told
    BY <2>4 DEF Told
  <2> QED BY <1>0, <2>1, <2>3, <2>5, CalmOutbox
<1>4. CASE Callbacks
  <2>1. /\ UNCHANGED <<client, net, app>> /\ rx' \in {rx, <<>>}
    BY <1>4 DEF Callbacks, CallbackReturns, ConnectCallbackReturns, DisconnectCallbackReturns,
       Continue, StopReceiving
  <2>2. Coming' \in {Coming, s2c}
    <3>1. s2c' = s2c
      BY <2>1 DEF net
    <3>2. <<>> \o s2c = s2c
      BY <1>0, ConcatProperties
    <3> QED BY <2>1, <3>1, <3>2 DEF Coming
  <2>3. Piece(Coming', Coming)
    BY <1>0, <2>2, PieceParts DEF Coming
  <2> QED BY <2>1, <2>3, CalmStep DEF client, net, app
<1>5. CASE Read
  <2>1. rx = <<>>
    BY <1>5 DEF Read, At, TypeInv, IncomingTyped
  <2>2. rx' = s2c /\ s2c' = <<>> /\ outbox' = outbox /\ wire' = wire /\ hist' = hist /\ packetId' = packetId
    BY <1>5 DEF Read, app
  <2>3. Coming' = Coming
    BY <1>0, <2>1, <2>2, ConcatProperties DEF Coming
  <2> QED BY <1>0, <2>2, <2>3, CalmStep
<1> QED BY <1>1, <1>2, <1>3, <1>4, <1>5

LEMMA SendPacketKinds ==
  ASSUME TypeInv, UNCHANGED <<session, passedOn, unsent>>, SendPacket
  PROVE  Calm \/ Writes
<1>0. /\ outbox.q \in Seq(ClientPacket) /\ wire.sent \in Seq(ClientPacket)
      /\ outbox \in Box(ClientPacket) /\ Coming \in Seq(BrokerPacket)
      /\ Piece(Coming, Coming) /\ Piece(wire.sent, wire.sent)
      /\ DOMAIN wire = {"sent", "part", "ok", "once"}
  BY Sequences, PieceItself DEF TypeInv, WireTyped
<1>1. HasCurrent(outbox)
  BY DEF SendPacket, WantToWrite
<1>2. outbox.c \in 1 .. Len(outbox.q) /\ Current(outbox) \in ClientPacket
  BY <1>0, <1>1, ElementOfSeq DEF HasCurrent, Box, Current
<1>3. PICK k \in 0 .. WantToWrite :
        /\ wire' = Write(wire, Current(outbox), bytesSent, k)
        /\ outbox' = outbox \/ outbox' = Advanced(outbox, bytesSent + k)
  BY DEF SendPacket
<1>4. wire'.sent \in {wire.sent, Append(wire.sent, outbox.q[outbox.c])}
  BY <1>0, <1>2, <1>3, WriteSent DEF Current
<1>5. Fewer(outbox'.q, outbox.q) /\ Keeps(outbox.q, outbox'.q, Exchange)
  <2>1. CASE outbox' = outbox
    BY <1>0, <2>1, FewerItself, KeepsItself
  <2>2. CASE outbox' = Advanced(outbox, bytesSent + k)
    <3>1. outbox' \in Box(ClientPacket) /\ Within(outbox'.q, outbox.q)
      BY <1>0, <2>2, AdvancedBox
    <3>2. Keeps(outbox.q, outbox'.q, Exchange)
      BY <1>0, <2>2, AdvancedBox
    <3> QED BY <1>0, <3>1, <3>2, WithinFewer DEF Box
  <2> QED BY <1>3, <2>1, <2>2
<1>6. Coming' = Coming /\ packetId' = packetId /\ hist' = hist
  BY DEF SendPacket, app, Coming
<1>7. Told
  BY <1>6 DEF Told
<1>8. CASE wire'.sent = wire.sent
  BY <1>0, <1>5, <1>6, <1>7, <1>8, CalmOutbox
<1>9. CASE wire'.sent = Append(wire.sent, outbox.q[outbox.c])
  BY <1>2, <1>5, <1>6, <1>7, <1>9 DEF Writes, Held
<1> QED BY <1>4, <1>8, <1>9
-----------------------------------------------------------------------------
(* The handlers of the client *)

\* The packet being handled is the first one on its way.
LEMMA Handling ==
  ASSUME TypeInv, At("parse"), UNCHANGED <<session, passedOn, unsent, packetId, wire, s2c>>
  PROVE  /\ Head(rx) \in BrokerPacket
         /\ rx' = Tail(rx) => Handles(Head(rx))
         /\ rx' \in {Tail(rx), <<>>} => Piece(Coming', Coming)
<1>0. /\ rx \in Seq(BrokerPacket) /\ s2c \in Seq(BrokerPacket) /\ Coming \in Seq(BrokerPacket)
      /\ rx # <<>> /\ Head(rx) \in BrokerPacket
  BY Sequences, HeadTyped
<1>1. Coming # <<>> /\ Head(Coming) = Head(rx) /\ Tail(Coming) = Tail(rx) \o s2c
  BY <1>0, HeadOfConcat DEF Coming
<1>2. CASE rx' = Tail(rx)
  <2>1. Coming' = Tail(Coming)
    BY <1>1, <1>2 DEF Coming
  <2>2. Handles(Head(rx))
    BY <1>1, <2>1 DEF Handles, Held
  <2>3. Piece(Coming', Coming)
    BY <1>0, <1>1, <2>1, PieceTail
  <2> QED BY <1>0, <2>2, <2>3
<1>3. CASE rx' = <<>>
  <2>1. Coming' = s2c
    BY <1>0, <1>3, ConcatProperties DEF Coming
  <2>2. Piece(Coming', Coming)
    BY <1>0, <2>1, PieceParts DEF Coming
  <2> QED BY <1>0, <1>2, <2>2
<1> QED BY <1>0, <1>2, <1>3

\* Handlers that leave the outbox alone.
LEMMA ReadingKinds ==
  ASSUME TypeInv, UNCHANGED <<session, passedOn, unsent>>, outbox' = outbox, hist' = hist,
         UNCHANGED <<packetId, wire, s2c>>, At("parse"), rx' \in {Tail(rx), <<>>}
  PROVE  Calm
BY Handling, CalmStep

LEMMA OnConnackKinds ==
  ASSUME TypeInv, UNCHANGED <<session, passedOn, unsent>>, OnConnack
  PROVE  Calm \/ NewSession
<1> DEFINE o == Advanced(outbox, bytesSent)
           p == Head(rx)
<1>0. /\ At("parse") /\ p.type = "CONNACK" /\ p.ok
      /\ UNCHANGED <<packetId, wire, s2c, hist>> /\ rx' = Tail(rx)
      /\ outbox' = IF p.sessionPresent THEN o ELSE ClearQueue(o, 1)
  BY DEF OnConnack, Incoming, net, app
<1>1. outbox \in Box(ClientPacket) /\ outbox.q \in Seq(ClientPacket) /\ wire.sent \in Seq(ClientPacket)
  BY Sequences
<1>2. /\ o \in Box(ClientPacket) /\ Within(o.q, outbox.q) /\ o.q \in Seq(ClientPacket)
      /\ Keeps(outbox.q, o.q, Exchange)
  BY <1>1, AdvancedBox DEF Box
<1> HIDE DEF o
<1>3. Handles(p) /\ p \in BrokerPacket /\ Piece(Coming', Coming)
  BY <1>0, Handling
<1>4. Told
  BY <1>0 DEF Told
<1> HIDE DEF p
<1>5. CASE p.sessionPresent
  <2>1. Fewer(outbox'.q, outbox.q) /\ Keeps(outbox.q, outbox'.q, Exchange)
    BY <1>0, <1>1, <1>2, <1>5, WithinFewer
  <2>2. Piece(wire'.sent, wire.sent)
    BY <1>0, <1>1, PieceItself
  <2> QED BY <1>0, <1>3, <1>4, <2>1, <2>2, CalmOutbox
<1>6. CASE ~p.sessionPresent
  <2>1. outbox' = ClearQueue(o, 1)
    BY <1>0, <1>6
  <2>2. Within(outbox'.q, o.q) /\ outbox'.q \in Seq(ClientPacket)
    BY <1>2, <2>1, ClearQueueBox DEF Box
  <2>3. Fewer(outbox'.q, outbox.q)
    BY <1>1, <1>2, <2>2, WithinTrans, WithinFewer
  <2>4. Keeps(o.q, outbox'.q, {"PUBLISH"})
    BY <1>2, <2>1, ClearQueueKeeps
  <2>5. Keeps(outbox.q, outbox'.q, {"PUBLISH"})
    BY <1>2, <2>4 DEF Keeps, Exchange
  <2> QED BY <1>0, <1>3, <1>4, <1>6, <2>3, <2>5 DEF NewSession
<1> QED BY <1>5, <1>6

LEMMA OnPublishKinds ==
  ASSUME TypeInv, UNCHANGED <<session, passedOn, unsent>>, OnPublish
  PROVE  Calm \/ Delivers
<1> DEFINE p == Head(rx)
<1>0. /\ At("parse") /\ p.type = "PUBLISH" /\ UNCHANGED <<packetId, wire, s2c>>
  BY DEF OnPublish, Incoming, OutboxOnly, net
<1>1. /\ p \in BrokerPacket /\ p.qos \in 0 .. 2 /\ p.msg \in Msg
      /\ p.qos # 0 => p.id \in BrokerMsg
  BY <1>0, Handling, BrokerPacketParts, BrokerAssumption
<1>2. outbox \in Box(ClientPacket) /\ outbox.q \in Seq(ClientPacket)
  BY Sequences
<1>3. CASE Continue(Tail(rx)) /\ UNCHANGED <<outbox, app>>
  BY <1>0, <1>3, ReadingKinds DEF Continue, app
<1>4. CASE /\ outbox' \in CASE p.qos = 0 -> {outbox}
                            [] p.qos = 1 -> AddPacket(outbox, Ctl("PUBACK", p.id))
                            [] p.qos = 2 -> AddPacket(outbox, Ctl("PUBREC", p.id))
           /\ IF p.qos = 2 /\ Delivered(p)
              THEN Continue(Tail(rx)) /\ UNCHANGED app
              ELSE Notify(Received(p))
  <2>1. rx' = Tail(rx) /\ Handles(p) /\ Piece(Coming', Coming)
    BY <1>0, <1>4, Handling DEF Continue, Notify, CallBack
  <2>2. Delivered(p) <=> Has(outbox.q, {"PUBREC"}, p.id)
    BY DEF Delivered, Has
  <2>3. /\ hist'.asked = hist.asked /\ hist'.acked = hist.acked
        /\ IF p.qos = 2 /\ Has(outbox.q, {"PUBREC"}, p.id)
           THEN hist'.got = hist.got
           ELSE hist'.got = [hist.got EXCEPT ![<<p.msg, p.qos>>] = @ + 1]
    <3>1. CASE p.qos = 2 /\ Delivered(p)
      BY <1>4, <2>2, <3>1 DEF app
    <3>2. CASE ~(p.qos = 2 /\ Delivered(p))
      <4>1. hist' = [hist EXCEPT !.got[<<p.msg, p.qos>>] = @ + 1]
        BY <1>4, <3>2 DEF Notify, Received
      <4> HIDE DEF p
      <4>2. /\ hist'.asked = hist.asked /\ hist'.acked = hist.acked
            /\ hist'.got = [hist.got EXCEPT ![<<p.msg, p.qos>>] = @ + 1]
        BY <4>1 DEF TypeInv, HistTyped
      <4> QED BY <2>2, <3>2, <4>2
    <3> QED BY <3>1, <3>2
  <2> HIDE DEF p
  <2>4. CASE p.qos = 0
    <3>1. outbox' = outbox /\ hist'.got = [hist.got EXCEPT ![<<p.msg, p.qos>>] = @ + 1]
      BY <1>4, <2>3, <2>4
    <3>2. \A m \in Msg : \A q \in 1 .. 2 : <<m, q>> # <<p.msg, p.qos>> /\ <<m, q>> \in Msg \X (0 .. 2)
      BY <2>4
    <3>3. hist.got \in [Msg \X (0 .. 2) -> Nat]
      BY DEF TypeInv, HistTyped
    <3>4. Told
      BY <2>3, <3>1, <3>2, <3>3 DEF Told
    <3> QED BY <1>0, <2>1, <3>1, <3>4, CalmStep
  <2>5. CASE p.qos = 1
    <3>1. Ctl("PUBACK", p.id) \in ClientPacket
      BY <1>1, <2>5, CtlTyped
    <3>2. outbox' \in AddPacket(outbox, Ctl("PUBACK", p.id))
      BY <1>4, <2>5
    <3>3. \/ outbox' = Emplace(outbox, Ctl("PUBACK", p.id))
          \/ MayFail /\ outbox' = outbox
      BY <3>2 DEF AddPacket
    <3>4. outbox'.q = Append(outbox.q, Ctl("PUBACK", p.id)) \/ (MayFail /\ outbox'.q = outbox.q)
      BY <1>2, <3>1, <3>3, EmplaceBox
    <3>5. p.type = "PUBLISH" /\ p.qos \in 1 .. 2 /\ p \in BrokerPacket
      BY <1>0, <1>1, <2>5 DEF p
    <3>6. Delivering(p)
      BY <2>1, <2>3, <2>5, <3>4, <3>5 DEF Delivering
    <3> QED BY <3>5, <3>6 DEF Delivers
  <2>6. CASE p.qos = 2
    <3>1. Ctl("PUBREC", p.id) \in ClientPacket
      BY <1>1, <2>6, CtlTyped
    <3>2. outbox' \in AddPacket(outbox, Ctl("PUBREC", p.id))
      BY <1>4, <2>6
    <3>3. \/ outbox' = Emplace(outbox, Ctl("PUBREC", p.id))
          \/ MayFail /\ outbox' = outbox
      BY <3>2 DEF AddPacket
    <3>4. outbox'.q = Append(outbox.q, Ctl("PUBREC", p.id)) \/ (MayFail /\ outbox'.q = outbox.q)
      BY <1>2, <3>1, <3>3, EmplaceBox
    <3>5. p.type = "PUBLISH" /\ p.qos \in 1 .. 2 /\ p \in BrokerPacket
      BY <1>0, <1>1, <2>6 DEF p
    <3>6. Delivering(p)
      BY <2>1, <2>3, <2>6, <3>4, <3>5 DEF Delivering
    <3> QED BY <3>5, <3>6 DEF Delivers
  <2> QED BY <1>1, <2>4, <2>5, <2>6 DEF p
<1> QED BY <1>3, <1>4 DEF OnPublish

LEMMA FinishKinds ==
  ASSUME TypeInv, UNCHANGED <<session, passedOn, unsent>>,
         NEW answer, NEW type, Finish(answer, type)
  PROVE  Calm \/ Completes(answer, type)
<1> DEFINE p == Head(rx)
<1>0. /\ At("parse") /\ p.type = answer /\ UNCHANGED <<packetId, wire, s2c>>
  BY DEF Finish, Incoming, OutboxOnly, net
<1>1. outbox \in Box(ClientPacket)
  BY Sequences
<1>2. CASE Continue(Tail(rx)) /\ UNCHANGED <<outbox, app>>
  BY <1>0, <1>2, ReadingKinds DEF Continue, app
<1>3. ASSUME NEW k \in 1 .. Len(outbox.q), FirstIs(type, p.id, k),
             outbox' = RemoveItem(outbox, k), Notify([hist EXCEPT !.acked = @ \cup {p.id}])
      PROVE  Completes(answer, type)
  <2>1. outbox.q[k].type = type /\ outbox.q[k].id = p.id
    BY <1>3 DEF FirstIs
  <2>2. Drops(outbox'.q, outbox.q, type, p.id)
    BY <1>1, <1>3, <2>1, RemoveItemDrops
  <2>3. Has(outbox.q, {type}, p.id)
    BY <2>1 DEF Has
  <2>4. Handles(p) /\ p \in BrokerPacket
    BY <1>0, <1>3, Handling DEF Notify, CallBack
  <2> HIDE DEF p
  <2>5. /\ hist'.asked = hist.asked /\ hist'.got = hist.got
        /\ hist'.acked = hist.acked \cup {p.id}
    BY <1>3 DEF Notify, TypeInv, HistTyped
  <2> QED BY <1>0, <2>2, <2>3, <2>4, <2>5 DEF Completes, p
<1> QED BY <1>2, <1>3 DEF Finish

LEMMA SettleKinds ==
  ASSUME TypeInv, UNCHANGED <<session, passedOn, unsent>>, OnSuback \/ OnUnsuback
  PROVE  Calm \/ Unsubscribed
<1> DEFINE p == Head(rx)
<1>0. /\ At("parse") /\ p.type \in {"SUBACK", "UNSUBACK"} /\ UNCHANGED <<packetId, wire, s2c>>
  BY DEF OnSuback, OnUnsuback, Settle, Incoming, OutboxOnly, net
<1>1. outbox \in Box(ClientPacket) /\ wire.sent \in Seq(ClientPacket)
  BY Sequences
<1>2. CASE Continue(Tail(rx)) /\ UNCHANGED <<outbox, app>>
  BY <1>0, <1>2, ReadingKinds DEF Continue, app
<1>3. ASSUME NEW k \in 1 .. Len(outbox.q), outbox.q[k].id = p.id,
             outbox.q[k].type \in AllTypes,
             p.type = "SUBACK" => outbox.q[k].type = "SUBSCRIBE",
             outbox' = RemoveItem(outbox, k), Notify([hist EXCEPT !.acked = @ \cup {p.id}])
      PROVE  Calm \/ Unsubscribed
  <2>1. Drops(outbox'.q, outbox.q, outbox.q[k].type, p.id)
    BY <1>1, <1>3, RemoveItemDrops
  <2>2. Handles(p) /\ p \in BrokerPacket /\ Piece(Coming', Coming)
    BY <1>0, <1>3, Handling DEF Notify, CallBack
  <2> HIDE DEF p
  <2>3. Told
    <3>1. /\ hist'.asked = hist.asked /\ hist'.got = hist.got
          /\ hist'.acked = hist.acked \cup {p.id}
      BY <1>3 DEF Notify, TypeInv, HistTyped
    <3> QED BY <3>1 DEF Told
  <2>4. CASE p.type = "UNSUBACK"
    BY <1>3, <2>1, <2>2, <2>3, <2>4 DEF Unsubscribed
  <2>5. CASE p.type = "SUBACK"
    <3>1. outbox.q[k].type \notin Exchange
      BY <1>3, <2>5 DEF Exchange
    <3>2. Keeps(outbox.q, outbox'.q, Exchange)
      BY <1>1, <1>3, <3>1, RemoveItemKeeps
    <3>3. Fewer(outbox'.q, outbox.q)
      BY <2>1 DEF Drops
    <3>4. Piece(wire'.sent, wire.sent)
      BY <1>0, <1>1, PieceItself
    <3> QED BY <1>0, <2>2, <2>3, <3>2, <3>3, <3>4, CalmOutbox
  <2> QED BY <1>0, <2>4, <2>5 DEF p
<1>4. CASE OnSuback
  BY <1>2, <1>3, <1>4 DEF OnSuback, Settle, Answered, Incoming, AllTypes
<1>5. CASE OnUnsuback
  <2>1. p.type = "UNSUBACK"
    BY <1>5 DEF OnUnsuback, Settle, Incoming
  <2> QED BY <1>2, <1>3, <1>5, <2>1 DEF OnUnsuback, Settle, Answered
<1> QED BY <1>4, <1>5

LEMMA ReplyKinds ==
  ASSUME TypeInv, UNCHANGED <<session, passedOn, unsent>>,
         NEW answer \in {"PUBREC", "PUBREL"}, NEW type, NEW reply,
         Reply(answer, type, reply),
         answer = "PUBREC" => reply = "PUBREL", answer = "PUBREL" => reply = "PUBCOMP"
  PROVE  Calm \/ Continues(answer, type, reply)
<1> DEFINE p == Head(rx)
           x == Ctl(reply, p.id)
<1>0. /\ At("parse") /\ p.type = answer /\ UNCHANGED <<packetId, wire, s2c>>
      /\ rx' = Tail(rx) /\ hist' = hist
  BY DEF Reply, Incoming, OutboxOnly, net, Continue, app
<1>1. outbox \in Box(ClientPacket)
  BY Sequences
<1>2. p \in BrokerPacket /\ Handles(p)
  BY <1>0, Handling
<1>3. CASE UNCHANGED outbox
  BY <1>0, <1>3, ReadingKinds
<1>4. ASSUME NEW k \in 1 .. Len(outbox.q), FirstIs(type, p.id, k),
             NEW o \in AddPacket(outbox, x), outbox' = RemoveItem(o, k)
      PROVE  Continues(answer, type, reply)
  <2>1. x \in ClientPacket
    <3>1. CASE answer = "PUBREC" /\ reply = "PUBREL"
      <4>1. p.id \in 1 .. MaxId
        BY <1>0, <1>2, <3>1, BrokerPacketParts
      <4> QED BY <3>1, <4>1, CtlTyped
    <3>2. CASE answer = "PUBREL" /\ reply = "PUBCOMP"
      <4>1. p.id \in BrokerMsg
        BY <1>0, <1>2, <3>2, BrokerPacketParts
      <4> QED BY <3>2, <4>1, CtlTyped
    <3> QED BY <3>1, <3>2
  <2> HIDE DEF x, p
  <2>2. outbox.q[k].type = type /\ outbox.q[k].id = p.id
    BY <1>4 DEF FirstIs
  <2> DEFINE t == RemoveItem(outbox, k).q
  <2>3. Drops(t, outbox.q, type, p.id) /\ t \in Seq(ClientPacket)
    BY <1>1, <2>2, RemoveItemDrops
  <2>4. Has(outbox.q, {type}, p.id)
    BY <2>2 DEF Has
  <2>5. outbox'.q = Append(t, x) \/ (MayFail /\ outbox'.q = t)
    <3>1. CASE o = Emplace(outbox, x)
      BY <1>1, <1>4, <2>1, <3>1, RemoveEmplaced
    <3>2. CASE MayFail /\ o = outbox
      BY <1>4, <3>2
    <3> QED BY <1>4, <3>1, <3>2 DEF AddPacket
  <2> HIDE DEF t
  <2> QED BY <1>0, <1>2, <2>3, <2>4, <2>5 DEF Continues, x, p
<1> QED BY <1>3, <1>4 DEF Reply

LEMMA ReceivingKinds ==
  ASSUME TypeInv, UNCHANGED <<session, passedOn, unsent>>, Receiving
  PROVE  Kinds
<1>1. CASE Read
  BY <1>1, OtherKinds DEF Kinds, ClientKinds
<1>2. CASE ExpectedConnack \/ ProtocolError \/ OnConnackRefused
  <2>1. outbox' = outbox /\ UNCHANGED <<packetId, wire, s2c, hist>> /\ At("parse") /\ rx' = <<>>
    BY <1>2 DEF ExpectedConnack, ProtocolError, OnConnackRefused, Incoming, StopReceiving,
                Continue, net, app
  <2> QED BY <2>1, ReadingKinds DEF Kinds, ClientKinds
<1>3. CASE OnPingresp
  <2>1. outbox' = outbox /\ UNCHANGED <<packetId, wire, s2c, hist>> /\ At("parse") /\ rx' = Tail(rx)
    BY <1>3 DEF OnPingresp, Incoming, Continue, net, app
  <2> QED BY <2>1, ReadingKinds DEF Kinds, ClientKinds
<1>4. CASE OnConnack
  BY <1>4, OnConnackKinds DEF Kinds, ClientKinds
<1>5. CASE OnPublish
  BY <1>5, OnPublishKinds DEF Kinds, ClientKinds
<1>6. CASE OnPuback
  <2>1. Calm \/ Completes("PUBACK", "PUBLISH")
    BY <1>6, FinishKinds DEF OnPuback
  <2> QED BY <2>1 DEF Kinds, ClientKinds
<1>7. CASE OnPubcomp
  <2>1. Calm \/ Completes("PUBCOMP", "PUBREL")
    BY <1>7, FinishKinds DEF OnPubcomp
  <2> QED BY <2>1 DEF Kinds, ClientKinds
<1>8. CASE OnPubrec
  <2>1. Reply("PUBREC", "PUBLISH", "PUBREL")
    BY <1>8 DEF OnPubrec
  <2>2. Calm \/ Continues("PUBREC", "PUBLISH", "PUBREL")
    BY <2>1, ReplyKinds
  <2> QED BY <2>2 DEF Kinds, ClientKinds
<1>9. CASE OnPubrel
  <2>1. Reply("PUBREL", "PUBREC", "PUBCOMP")
    BY <1>9 DEF OnPubrel
  <2>2. Calm \/ Continues("PUBREL", "PUBREC", "PUBCOMP")
    BY <2>1, ReplyKinds
  <2> QED BY <2>2 DEF Kinds, ClientKinds
<1>10. CASE OnSuback \/ OnUnsuback
  BY <1>10, SettleKinds DEF Kinds, ClientKinds
<1> QED BY <1>1, <1>2, <1>3, <1>4, <1>5, <1>6, <1>7, <1>8, <1>9, <1>10 DEF Receiving

\* The end of a connection is calm.
LEMMA ClosingKinds ==
  ASSUME TypeInv, AtBroker, ProtocolViolation \/ GetDisconnect \/ ConnectionLost
  PROVE  Calm
<1>0. rx \in Seq(BrokerPacket) /\ s2c \in Seq(BrokerPacket)
  BY Sequences
<1>1. Close /\ UNCHANGED <<session, unsent, passedOn>>
  BY DEF ProtocolViolation, GetDisconnect, ConnectionLost
<1>2. wire'.sent = <<>> /\ s2c' = <<>>
  BY <1>1 DEF Close, TypeInv, WireTyped
<1>3. outbox' = outbox /\ hist' = hist /\ packetId' = packetId /\ rx' = rx
  BY DEF AtBroker, client, control, app
<1>4. Coming' = rx
  BY <1>0, <1>2, <1>3, ConcatProperties DEF Coming
<1>5. Piece(Coming', Coming)
  BY <1>0, <1>4, PieceParts DEF Coming
<1> QED BY <1>1, <1>2, <1>3, <1>5, CalmStep

LEMMA StepKinds ==
  ASSUME TypeInv, [Next]_vars
  PROVE  Kinds
<1>1. CASE ClientStep
  <2>1. UNCHANGED brokerVars /\ UNCHANGED <<session, passedOn, unsent>>
    BY <1>1 DEF ClientStep, brokerVars
  <2>2. CASE AppNext
    BY <2>1, <2>2, AppKinds DEF Kinds, ClientKinds
  <2>3. CASE Dispatch \/ Connecting \/ StopTransport \/ SendFails \/ NothingToSend
             \/ Retransmit \/ NoRetransmit \/ TimePasses
    BY <2>1, <2>3, PassageKinds DEF Kinds, ClientKinds
  <2>4. CASE SayGoodbye \/ Disconnected \/ CheckPing \/ Callbacks
    BY <2>1, <2>4, OtherKinds DEF Kinds, ClientKinds
  <2>5. CASE SendPacket
    BY <2>1, <2>5, SendPacketKinds DEF Kinds, ClientKinds
  <2>6. CASE Receiving
    BY <2>1, <2>6, ReceivingKinds
  <2> QED BY <1>1, <2>2, <2>3, <2>4, <2>5, <2>6
          DEF ClientStep, LoopNext, Disconnecting, Sending, Timers
<1>2. CASE ConnectStep
  BY <1>2, PassageKinds DEF ConnectStep, Accept, Kinds, ClientKinds
<1>3. CASE BrokerStep
  BY <1>3, ClosingKinds DEF BrokerStep, Answers, AtBroker, Serves, Kinds, ClientKinds
<1>4. CASE LossStep
  BY <1>4, ClosingKinds DEF LossStep, AtBroker, Kinds, ClientKinds
<1>5. CASE UNCHANGED vars
  <2>1. /\ outbox' = outbox /\ wire' = wire /\ hist' = hist /\ packetId' = packetId
        /\ rx' = rx /\ s2c' = s2c /\ UNCHANGED <<session, passedOn, unsent>>
    BY <1>5 DEF vars, clientVars, brokerVars, client, control, net, app
  <2>2. Coming' = Coming
    BY <2>1 DEF Coming
  <2>3. Piece(Coming', Coming)
    BY <2>2, Sequences, PieceItself
  <2> QED BY <2>1, <2>3, CalmStep DEF Kinds, ClientKinds
<1> QED BY <1>1, <1>2, <1>3, <1>4, <1>5 DEF Next
-----------------------------------------------------------------------------
(* The steps of the broker *)

\* CONNACK is the first packet of a connection, and a session exists once it
\* is sent.
ConnackFirst ==
  /\ bConn = "wait" => Coming = <<>>
  /\ bConn = "up" => session.present
  /\ \A k \in 1 .. Len(Coming) : Coming[k].type = "CONNACK" => k = 1

\* The client has no part in the step, in which x may come on its way.
Untouched == outbox' = outbox /\ hist' = hist /\ packetId' = packetId
Brings(x) == x \in BrokerPacket /\ Coming' \in {Coming, Append(Coming, x)}
\* The broker takes p from the wire.
Takes(p) ==
  /\ wire.sent # <<>> /\ p = Head(wire.sent) /\ wire'.sent = Tail(wire.sent)
  /\ p \in ClientPacket

\* CONNACK and the packets of a session that is resumed (present), or a new one.
Greets ==
  \E present \in BOOLEAN :
    /\ Untouched /\ UNCHANGED <<passedOn, unsent>>
    /\ Piece(wire'.sent, wire.sent)
    /\ IF present THEN session.present /\ session' = session
       ELSE /\ ~session.present \/ CleanSession \/ LosesSession
            /\ session'.present /\ session'.recv = {} /\ session'.out = <<>>
    /\ \A k \in 1 .. Len(Coming') :
         \/ k = 1 /\ Coming'[k] = Connack(TRUE, present)
         \/ k > 1 /\ k - 1 \in 1 .. Len(session'.out) /\ Coming'[k] = Resent(session'.out[k - 1])

\* Answers that have no part in an exchange.
Chats ==
  \E x \in BrokerPacket :
    /\ Untouched /\ Held /\ Brings(x) /\ Piece(wire'.sent, wire.sent)
    /\ x.type \in {"CONNACK", "MALFORMED", "PINGRESP", "SUBACK", "UNSUBACK"}
    /\ x.type = "CONNACK" => ~x.ok /\ Coming = <<>>
    /\ x.type = "UNSUBACK" => Has(wire.sent, {"UNSUBSCRIBE"}, x.id)

TakesPublish ==
  \E p \in ClientPacket :
    /\ Untouched /\ Takes(p) /\ p.type = "PUBLISH" /\ session.present /\ unsent' = unsent
    /\ \/ p.qos = 0 /\ Coming' = Coming /\ UNCHANGED <<session, passedOn>>
       \/ /\ p.qos = 1 /\ Brings(Answer("PUBACK", p.id))
          /\ PassOn(p.id) /\ session' = session
       \/ /\ p.qos = 2 /\ Brings(Answer("PUBREC", p.id))
          /\ IF p.id \in session.recv THEN passedOn' = passedOn ELSE PassOn(p.id)
          /\ session' = [session EXCEPT !.recv = @ \cup {p.id}]

TakesPubrel ==
  \E p \in ClientPacket :
    /\ Untouched /\ Takes(p) /\ p.type = "PUBREL" /\ UNCHANGED <<passedOn, unsent>>
    /\ Brings(Answer("PUBCOMP", p.id))
    /\ session' = [session EXCEPT !.recv = @ \ {p.id}]

TakesAnswer ==
  \E p \in ClientPacket :
    /\ Untouched /\ Takes(p) /\ p.type \in {"PUBACK", "PUBCOMP"} /\ UNCHANGED <<passedOn, unsent>>
    /\ Coming' = Coming
    /\ session' = [session EXCEPT !.out = Unfinished(p.id)]

TakesPubrec ==
  \E p \in ClientPacket :
    /\ Untouched /\ Takes(p) /\ p.type = "PUBREC" /\ UNCHANGED <<passedOn, unsent>>
    /\ Brings(Answer("PUBREL", p.id))
    /\ session' = [session EXCEPT !.out = Released(p.id)]

\* A message is sent, if the client is connected, and kept, if its QoS is not 0.
PublishesAs(m, q, f) ==
  /\ Untouched /\ session.present /\ passedOn' = passedOn /\ wire' = wire
  /\ unsent' = unsent \ {m} /\ f.qos = q /\ f.msg = m /\ f.released = FALSE
  /\ Brings(Message(f, FALSE))
  /\ IF q = 0 THEN session' = session
     ELSE /\ f \in Flight /\ session' = [session EXCEPT !.out = Append(@, f)]
          /\ ReusesIds \/ f.id = m
Publishes == \E m \in unsent, q \in OutQos : \E f : PublishesAs(m, q, f)

BrokerKinds ==
  Greets \/ Chats \/ TakesPublish \/ TakesPubrel \/ TakesAnswer \/ TakesPubrec \/ Publishes

LEMMA SendBrings ==
  ASSUME TypeInv, AtBroker, NEW x \in BrokerPacket, Send(<<x>>)
  PROVE  Brings(x)
<1>1. rx \in Seq(BrokerPacket) /\ s2c \in Seq(BrokerPacket) /\ rx' = rx
  BY Sequences DEF AtBroker, control
<1>2. s2c' \in {s2c, s2c \o <<x>>}
  BY DEF Send
<1>3. rx \o (s2c \o <<x>>) = Append(rx \o s2c, x)
  BY <1>1, AppendConcat
<1> QED BY <1>1, <1>2, <1>3 DEF Brings, Coming

LEMMA NoSend ==
  ASSUME AtBroker, UNCHANGED s2c
  PROVE  Coming' = Coming
BY DEF AtBroker, control, Coming

LEMMA TakeTakes ==
  ASSUME TypeInv, wire.sent # <<>>, Take
  PROVE  Takes(Next1) /\ Next1 \in ClientPacket /\ Piece(wire'.sent, wire.sent)
<1>1. wire.sent \in Seq(ClientPacket) /\ DOMAIN wire = {"sent", "part", "ok", "once"}
  BY Sequences DEF TypeInv, WireTyped
<1>2. wire'.sent = Tail(wire.sent)
  BY <1>1 DEF Take
<1>3. Head(wire.sent) \in ClientPacket
  BY <1>1, TailHas
<1>4. Piece(Tail(wire.sent), wire.sent)
  BY <1>1, PieceTail
<1> QED BY <1>2, <1>3, <1>4 DEF Takes, Next1

LEMMA GreetsKind ==
  ASSUME TypeInv, TypeInv', ConnackFirst, AtBroker, GetConnect
  PROVE  Greets
<1>0. /\ wire.sent # <<>> /\ Take /\ UNCHANGED <<unsent, passedOn>> /\ bConn = "wait"
      /\ rx' = rx /\ Untouched
  BY DEF GetConnect, AtBroker, client, control, app, Untouched
<1>1. PICK forget \in {FALSE, LosesSession} :
        LET resumed == session.present /\ ~CleanSession /\ ~forget
        IN  /\ session' = IF resumed THEN session ELSE [NoSession EXCEPT !.present = TRUE]
            /\ Send(<<Connack(TRUE, resumed)>> \o
                    [k \in 1 .. Len(session'.out) |-> Resent(session'.out[k])])
  BY DEF GetConnect
<1> DEFINE resumed == session.present /\ ~CleanSession /\ ~forget
           c == Connack(TRUE, resumed)
           r == [k \in 1 .. Len(session'.out) |-> Resent(session'.out[k])]
<1>2. /\ session' = IF resumed THEN session ELSE [NoSession EXCEPT !.present = TRUE]
      /\ Send(<<c>> \o r)
  BY <1>1
<1>3. resumed \in BOOLEAN /\ (resumed => session.present)
  BY DEF TypeInv, BrokerTyped
<1>4. ~resumed => ~session.present \/ CleanSession \/ LosesSession
  BY BrokerAssumption
<1>5. session'.out \in Seq(Flight)
  BY DEF TypeInv, BrokerTyped
<1>6. /\ <<c>> \o r \in Seq(BrokerPacket) /\ Len(r) = Len(session'.out)
  BY <1>3, <1>5, ResentTyped
<1>7. \A k \in 1 .. Len(session'.out) : r[k] = Resent(session'.out[k])
  OBVIOUS
<1>8. r \in Seq(BrokerPacket) /\ c \in BrokerPacket
  <2>1. c \in BrokerPacket
    BY <1>3 DEF Connack, BrokerPacket
  <2>2. Len(session'.out) \in Nat
    BY <1>5
  <2>3. \A k \in 1 .. Len(session'.out) : Resent(session'.out[k]) \in BrokerPacket
    BY <1>5, ResentPacket
  <2>4. r \in [1 .. Len(session'.out) -> BrokerPacket]
    BY <2>3
  <2>5. r \in Seq(BrokerPacket)
    BY <2>2, <2>4, SeqDef
  <2> QED BY <2>1, <2>5
<1> HIDE DEF r, c
<1>9. IF resumed THEN session' = session
      ELSE session'.present /\ session'.recv = {} /\ session'.out = <<>>
  <2>1. CASE resumed
    BY <1>2, <2>1
  <2>2. CASE ~resumed
    <3>1. session' = [NoSession EXCEPT !.present = TRUE]
      BY <1>2, <2>2
    <3>2. session'.recv = {} /\ session'.out = <<>>
      BY <3>1 DEF NoSession
    <3>3. session'.present
      BY <3>1, Zenon DEF NoSession
    <3> QED BY <2>2, <3>2, <3>3
  <2> QED BY <2>1, <2>2
<1> HIDE DEF resumed
<1>10. /\ rx = <<>> /\ s2c = <<>>
  <2>1. Coming = <<>> /\ rx \in Seq(BrokerPacket) /\ s2c \in Seq(BrokerPacket)
    BY <1>0, Sequences DEF ConnackFirst
  <2>2. Len(rx \o s2c) = Len(rx) + Len(s2c) /\ Len(rx) \in Nat /\ Len(s2c) \in Nat
    BY <2>1, ConcatProperties
  <2>3. Len(rx) = 0 /\ Len(s2c) = 0
    BY <2>1, <2>2 DEF Coming
  <2> QED BY <2>1, <2>3, EmptySeq
<1> DEFINE g == <<c>> \o r
<1>11. Coming' \in {<<>>, g}
  <2>0. g \in Seq(BrokerPacket) /\ <<>> \in Seq(BrokerPacket)
    BY <1>8
  <2> HIDE DEF g
  <2>1. s2c' \in {s2c, s2c \o g}
    BY <1>2 DEF Send, g
  <2>2. <<>> \o g = g /\ <<>> \o <<>> = <<>>
    BY <2>0, ConcatProperties
  <2> QED BY <1>0, <1>10, <2>1, <2>2 DEF Coming
<1>12. /\ Len(g) = 1 + Len(session'.out) /\ g[1] = c /\ Len(session'.out) \in Nat
       /\ \A k \in 2 .. 1 + Len(session'.out) : g[k] = Resent(session'.out[k - 1])
  <2>1. <<c>> \in Seq(BrokerPacket) /\ Len(<<c>>) = 1 /\ <<c>>[1] = c
    BY <1>8
  <2>2. /\ Len(g) = 1 + Len(r) /\ Len(r) \in Nat
        /\ \A k \in 1 .. 1 + Len(r) : g[k] = IF k <= 1 THEN <<c>>[k] ELSE r[k - 1]
    BY <1>8, <2>1, ConcatProperties
  <2>3. ASSUME NEW k \in 2 .. 1 + Len(session'.out) PROVE g[k] = Resent(session'.out[k - 1])
    <3>1. k - 1 \in 1 .. Len(session'.out) /\ ~(k <= 1) /\ k \in 1 .. 1 + Len(r)
      BY <1>6, <2>2
    <3> QED BY <1>7, <2>2, <3>1
  <2> QED BY <1>6, <2>1, <2>2, <2>3
<1> HIDE DEF g
<1>13. ASSUME NEW k \in 1 .. Len(Coming')
       PROVE  \/ k = 1 /\ Coming'[k] = Connack(TRUE, resumed)
              \/ k > 1 /\ k - 1 \in 1 .. Len(session'.out) /\ Coming'[k] = Resent(session'.out[k - 1])
  <2>1. Coming' = g
    BY <1>11, <1>13
  <2>2. CASE k = 1
    BY <1>12, <2>1, <2>2 DEF c
  <2>3. CASE k # 1
    <3>1. k \in 2 .. 1 + Len(session'.out)
      BY <1>12, <2>1, <2>3
    <3>2. g[k] = Resent(session'.out[k - 1])
      BY <1>12, <3>1
    <3>3. k > 1 /\ k - 1 \in 1 .. Len(session'.out)
      BY <1>12, <3>1
    <3> QED BY <2>1, <3>2, <3>3
  <2> QED BY <2>2, <2>3
<1>14. Piece(wire'.sent, wire.sent)
  BY <1>0, TakeTakes
<1> QED BY <1>0, <1>3, <1>4, <1>9, <1>13, <1>14 DEF Greets

LEMMA ChatsKind ==
  ASSUME TypeInv, ConnackFirst, AtBroker, Refuse \/ GetRequest
  PROVE  Chats
<1>0. /\ wire.sent # <<>> /\ Take /\ Held /\ Untouched /\ Piece(wire'.sent, wire.sent)
      /\ wire.sent \in Seq(ClientPacket)
  BY TakeTakes, Sequences
  DEF Refuse, GetRequest, Gets, AtBroker, client, control, app, Untouched, Held
<1>1. CASE Refuse
  <2>1. PICK p \in {Connack(FALSE, FALSE), Answer("MALFORMED", 0), Answer("PINGRESP", 0)} :
          Send(<<p>>)
    BY <1>1 DEF Refuse
  <2>2. /\ p \in BrokerPacket /\ p.type \in {"CONNACK", "MALFORMED", "PINGRESP"}
        /\ p.type = "CONNACK" => ~p.ok
    <3>1. CASE p = Connack(FALSE, FALSE)
      BY <3>1 DEF Connack, BrokerPacket
    <3>2. CASE p \in {Answer("MALFORMED", 0), Answer("PINGRESP", 0)}
      BY <3>2 DEF Answer, BrokerPacket
    <3> QED BY <2>1, <3>1, <3>2
  <2>3. Coming = <<>>
    BY <1>1 DEF Refuse, ConnackFirst
  <2>4. Brings(p)
    BY <2>1, <2>2, SendBrings
  <2> QED BY <1>0, <2>2, <2>3, <2>4 DEF Chats
<1>2. CASE GetRequest
  <2>1. PICK r \in {<<"SUBSCRIBE", "SUBACK">>, <<"UNSUBSCRIBE", "UNSUBACK">>,
                    <<"PINGREQ", "PINGRESP">>} :
          Next1.type = r[1] /\ Send(<<Answer(r[2], Next1.id)>>)
    BY <1>2 DEF GetRequest, Gets
  <2> DEFINE x == Answer(r[2], Next1.id)
  <2>2. x \in BrokerPacket /\ x.type = r[2] /\ x.id = Next1.id
    <3>1. Next1 \in ClientPacket
      BY <1>0, TakeTakes
    <3> QED BY <2>1, <3>1 DEF Answer, BrokerPacket, ClientPacket
  <2>3. Send(<<x>>)
    BY <2>1
  <2> HIDE DEF x
  <2>4. Brings(x)
    BY <2>2, <2>3, SendBrings
  <2>5. x.type = "UNSUBACK" => Has(wire.sent, {"UNSUBSCRIBE"}, x.id)
    <3>1. Next1 = wire.sent[1] /\ 1 \in 1 .. Len(wire.sent)
      BY <1>0, TailHas DEF Next1
    <3>2. r[2] = "UNSUBACK" => r[1] = "UNSUBSCRIBE"
      BY <2>1
    <3>3. HAVE x.type = "UNSUBACK"
    <3>4. wire.sent[1].type = "UNSUBSCRIBE" /\ wire.sent[1].id = x.id
      BY <2>1, <2>2, <3>1, <3>2, <3>3
    <3> QED BY <3>1, <3>4 DEF Has
  <2>6. x.type \in {"PINGRESP", "SUBACK", "UNSUBACK"}
    BY <2>1, <2>2
  <2> QED BY <1>0, <2>2, <2>4, <2>5, <2>6 DEF Chats
<1> QED BY <1>1, <1>2

LEMMA TakesKinds ==
  ASSUME TypeInv, ConnackFirst, AtBroker,
         GetPublish \/ GetPubrel \/ GetAnswer \/ GetPubrec
  PROVE  TakesPublish \/ TakesPubrel \/ TakesAnswer \/ TakesPubrec
<1> DEFINE p == Next1
<1>0. /\ wire.sent # <<>> /\ Take /\ Untouched /\ unsent' = unsent /\ session.present
  BY DEF GetPublish, GetPubrel, GetAnswer, GetPubrec, Gets, AtBroker, client, control, app,
         Untouched, ConnackFirst
<1>1. Takes(p) /\ p \in ClientPacket
  BY <1>0, TakeTakes
<1> HIDE DEF p
<1>2. /\ p.type = "PUBLISH" /\ p.qos # 0 => p.id \in 1 .. MaxId
      /\ p.type = "PUBREL" => p.id \in 1 .. MaxId
      /\ p.type = "PUBREC" => p.id \in BrokerMsg
      /\ \A t \in {"PUBACK", "PUBREC", "PUBCOMP"} : \A i \in 1 .. MaxId : Answer(t, i) \in BrokerPacket
      /\ \A i \in BrokerMsg : Answer("PUBREL", i) \in BrokerPacket
  BY <1>1 DEF ClientPacket, Answer, BrokerPacket
<1>3. CASE GetPublish
  <2>1. p.type = "PUBLISH"
    BY <1>3 DEF GetPublish, Gets, p
  <2>2. CASE p.qos = 0 /\ UNCHANGED <<s2c, session, passedOn>>
    BY <1>0, <1>1, <2>1, <2>2, NoSend DEF TakesPublish
  <2>3. CASE p.qos = 1 /\ PassOn(p.id) /\ Send(<<Answer("PUBACK", p.id)>>) /\ UNCHANGED session
    <3>1. Brings(Answer("PUBACK", p.id))
      BY <1>2, <2>1, <2>3, SendBrings
    <3> QED BY <1>0, <1>1, <2>1, <2>3, <3>1 DEF TakesPublish
  <2>4. CASE /\ p.qos = 2
             /\ IF p.id \in session.recv THEN UNCHANGED passedOn ELSE PassOn(p.id)
             /\ session' = [session EXCEPT !.recv = @ \cup {p.id}]
             /\ Send(<<Answer("PUBREC", p.id)>>)
    <3>1. Brings(Answer("PUBREC", p.id))
      BY <1>2, <2>1, <2>4, SendBrings
    <3> QED BY <1>0, <1>1, <2>1, <2>4, <3>1 DEF TakesPublish
  <2> QED BY <1>3, <2>2, <2>3, <2>4 DEF GetPublish, p
<1>4. CASE GetPubrel
  <2>1. /\ p.type = "PUBREL" /\ Send(<<Answer("PUBCOMP", p.id)>>)
        /\ session' = [session EXCEPT !.recv = @ \ {p.id}] /\ passedOn' = passedOn
    BY <1>4 DEF GetPubrel, Gets, p
  <2>2. Brings(Answer("PUBCOMP", p.id))
    BY <1>2, <2>1, SendBrings
  <2> QED BY <1>0, <1>1, <2>1, <2>2 DEF TakesPubrel
<1>5. CASE GetAnswer
  <2>1. /\ p.type \in {"PUBACK", "PUBCOMP"} /\ UNCHANGED <<s2c, passedOn>>
        /\ session' = [session EXCEPT !.out = Unfinished(p.id)]
    BY <1>5 DEF GetAnswer, Gets, p
  <2> QED BY <1>0, <1>1, <2>1, NoSend DEF TakesAnswer
<1>6. CASE GetPubrec
  <2>1. /\ p.type = "PUBREC" /\ Send(<<Answer("PUBREL", p.id)>>)
        /\ session' = [session EXCEPT !.out = Released(p.id)] /\ passedOn' = passedOn
    BY <1>6 DEF GetPubrec, Gets, p
  <2>2. Brings(Answer("PUBREL", p.id))
    BY <1>2, <2>1, SendBrings
  <2> QED BY <1>0, <1>1, <2>1, <2>2 DEF TakesPubrec
<1> QED BY <1>3, <1>4, <1>5, <1>6

LEMMA PublishesKind ==
  ASSUME TypeInv, AtBroker, PublishMessage
  PROVE  Publishes
<1>0. /\ Untouched /\ session.present /\ passedOn' = passedOn /\ wire' = wire
  BY DEF PublishMessage, AtBroker, client, control, app, Untouched
<1>1. PICK m \in unsent, q \in OutQos :
        /\ q # 0 /\ ReusesIds => BrokerMsg \ InUse # {}
        /\ LET f == [id |-> IF q = 0 THEN 0 ELSE NewId(m), qos |-> q, msg |-> m,
                     released |-> FALSE]
           IN  /\ session' = IF q = 0 THEN session ELSE [session EXCEPT !.out = Append(@, f)]
               /\ IF bConn = "up" THEN Send(<<Message(f, FALSE)>>) ELSE UNCHANGED s2c
        /\ unsent' = unsent \ {m}
  BY DEF PublishMessage
<1> DEFINE f == [id |-> IF q = 0 THEN 0 ELSE NewId(m), qos |-> q, msg |-> m,
                 released |-> FALSE]
<1>2. m \in BrokerMsg /\ q \in 0 .. 2 /\ 0 \notin BrokerMsg
  BY BrokerAssumption DEF TypeInv, BrokerTyped
<1>3. /\ f.id = (IF q = 0 THEN 0 ELSE NewId(m)) /\ f.qos = q /\ f.msg = m
      /\ f.released = FALSE
      /\ q # 0 => NewId(m) \in BrokerMsg /\ (ReusesIds \/ NewId(m) = m)
  BY <1>1, <1>2, NewIdTyped
<1>4. q # 0 => f \in Flight
  BY <1>2, <1>3 DEF Flight
<1>5. /\ session' = IF q = 0 THEN session ELSE [session EXCEPT !.out = Append(@, f)]
      /\ IF bConn = "up" THEN Send(<<Message(f, FALSE)>>) ELSE UNCHANGED s2c
      /\ unsent' = unsent \ {m}
  BY <1>1
<1> HIDE DEF f
<1>6. Message(f, FALSE) \in BrokerPacket
  BY <1>2, <1>3 DEF Message, BrokerPacket
<1>7. Brings(Message(f, FALSE))
  <2>1. CASE bConn = "up"
    BY <1>5, <1>6, <2>1, SendBrings
  <2>2. CASE bConn # "up"
    BY <1>5, <1>6, <2>2, NoSend DEF Brings
  <2> QED BY <2>1, <2>2
<1>8. PublishesAs(m, q, f)
  BY <1>0, <1>3, <1>4, <1>5, <1>7 DEF PublishesAs
<1> QED BY <1>8 DEF Publishes

LEMMA ServesKinds ==
  ASSUME TypeInv, TypeInv', ConnackFirst, Serves
  PROVE  BrokerKinds
BY GreetsKind, ChatsKind, TakesKinds, PublishesKind DEF Serves, BrokerKinds
-----------------------------------------------------------------------------
(* What the kinds of steps have in common *)

\* Calls are made within the budget; the one that a thread is in was counted.
BudgetKept ==
  \A c \in Calls : left[c] <= Budget[c] /\ \A t \in Thread : apc[t] = c => left[c] < Budget[c]

Base == TypeInv /\ ConnackFirst /\ BudgetKept

\* The client handles a packet of the type with the id.
Arrives(type, i) == \E p \in BrokerPacket : Handles(p) /\ p.type = type /\ p.id = i

\* The packet x is new in the outbox.
Comes(x) ==
  \/ x \in ClientPacket /\ Asks(x)
  \/ \E p \in BrokerPacket :
       /\ Delivering(p) /\ x.id = p.id
       /\ x.type = IF p.qos = 1 THEN "PUBACK" ELSE "PUBREC"
  \/ x.type = "PUBREL" /\ Arrives("PUBREC", x.id) /\ Has(outbox.q, {"PUBLISH"}, x.id)
  \/ x.type = "PUBCOMP" /\ Arrives("PUBREL", x.id) /\ Has(outbox.q, {"PUBREC"}, x.id)

\* A packet of an exchange disappears from the outbox.
Gone(type, i) ==
  \/ ClearsAll
  \/ NewSession /\ type # "PUBLISH"
  \/ type = "PUBLISH" /\ Arrives("PUBREC", i) /\ (MayFail \/ Has(outbox'.q, {"PUBREL"}, i))
  \/ type = "PUBLISH" /\ Arrives("PUBACK", i) /\ i \in hist'.acked
  \/ type = "PUBREL" /\ Arrives("PUBCOMP", i) /\ i \in hist'.acked
  \/ type = "PUBREC" /\ Arrives("PUBREL", i)
  \/ Arrives("UNSUBACK", i)

-----------------------------------------------------------------------------
(* Consequences of the kinds of steps *)

LEMMA AppendElements ==
  ASSUME NEW S, NEW s \in Seq(S), NEW x \in S
  PROVE  /\ Append(s, x) \in Seq(S) /\ Len(Append(s, x)) = Len(s) + 1 /\ Len(s) \in Nat
         /\ Append(s, x)[Len(s) + 1] = x
         /\ \A k \in 1 .. Len(s) : Append(s, x)[k] = s[k]
         /\ \A k \in 1 .. Len(Append(s, x)) : k = Len(s) + 1 \/ k \in 1 .. Len(s)
OBVIOUS

LEMMA SameItself == \A p : Same(p, p)
BY DEF Same

\* A packet of the outbox was there before, or it comes.
LEMMA OutboxComes ==
  ASSUME TypeInv, TypeInv', ClientKinds, NEW k \in 1 .. Len(outbox'.q), outbox'.q[k].id # 0
  PROVE  (\E j \in 1 .. Len(outbox.q) : Same(outbox'.q[k], outbox.q[j])) \/ Comes(outbox'.q[k])
<1> DEFINE Old == \E j \in 1 .. Len(outbox.q) : Same(outbox'.q[k], outbox.q[j])
<1>0. outbox.q \in Seq(ClientPacket) /\ outbox'.q \in Seq(ClientPacket)
  BY Sequences DEF TypeInv, OutboxTyped, Box
<1>1. Fewer(outbox'.q, outbox.q) => Old
  BY DEF Fewer
<1>2. outbox'.q = outbox.q => Old
  BY SameItself
<1>3. ASSUME NEW x \in ClientPacket, NEW t \in Seq(ClientPacket), outbox'.q = Append(t, x),
             t = outbox.q \/ Fewer(t, outbox.q)
      PROVE  Old \/ outbox'.q[k] = x
  <2>1. k = Len(t) + 1 => outbox'.q[k] = x
    BY <1>3, AppendElements
  <2>2. k \in 1 .. Len(t) => outbox'.q[k] = t[k]
    BY <1>3, AppendElements
  <2>3. k = Len(t) + 1 \/ k \in 1 .. Len(t)
    BY <1>3, AppendElements
  <2>4. k \in 1 .. Len(t) => Old
    BY <1>3, <2>2, SameItself DEF Fewer
  <2> QED BY <2>1, <2>3, <2>4
<1>4. outbox'.q[k] \in ClientPacket
  BY <1>0
<1> HIDE DEF Old
<1>5. CASE Calm \/ Writes \/ NewSession \/ Unsubscribed
  BY <1>1, <1>5 DEF Calm, Writes, NewSession, Unsubscribed, Drops, Old
<1>6. ASSUME NEW r \in ClientPacket, Asks(r) PROVE Old \/ Comes(outbox'.q[k])
  <2>1. outbox'.q = Append(outbox.q, r)
    BY <1>6 DEF Asks
  <2> QED BY <1>0, <1>3, <1>6, <2>1 DEF Comes
<1>7. CASE ClearsAll
  BY <1>7 DEF ClearsAll
<1>8. ASSUME NEW p \in BrokerPacket, Delivering(p) PROVE Old \/ Comes(outbox'.q[k])
  <2> DEFINE answer == IF p.qos = 1 THEN "PUBACK" ELSE "PUBREC"
             x == Ctl(answer, p.id)
  <2>1. outbox'.q = Append(outbox.q, x) \/ outbox'.q = outbox.q
    BY <1>8 DEF Delivering
  <2>2. x.id = p.id /\ x.type = answer /\ x \in ClientPacket
    <3>1. p.id \in BrokerMsg
      BY <1>8 DEF Delivering, BrokerPacket
    <3> QED BY <3>1, CtlTyped DEF Ctl
  <2> HIDE DEF x
  <2>3. Old \/ outbox'.q[k] = x
    BY <1>0, <1>2, <1>3, <2>1, <2>2
  <2> QED BY <1>8, <2>2, <2>3 DEF Comes
<1>9. ASSUME NEW a, NEW type, NEW reply, Continues(a, type, reply),
             <<a, type, reply>> \in {<<"PUBREC", "PUBLISH", "PUBREL">>,
                                     <<"PUBREL", "PUBREC", "PUBCOMP">>}
      PROVE  Old \/ Comes(outbox'.q[k])
  <2>1. PICK p \in BrokerPacket, t \in Seq(ClientPacket) :
          /\ Handles(p) /\ p.type = a
          /\ Has(outbox.q, {type}, p.id) /\ Drops(t, outbox.q, type, p.id)
          /\ outbox'.q = Append(t, Ctl(reply, p.id)) \/ outbox'.q = t
    BY <1>9 DEF Continues
  <2> DEFINE x == Ctl(reply, p.id)
  <2>2. x.id = p.id /\ x.type = reply /\ x \in ClientPacket
    <3>1. a = "PUBREC" => p.id \in 1 .. MaxId
      BY <2>1 DEF BrokerPacket
    <3>2. a = "PUBREL" => p.id \in BrokerMsg
      BY <2>1 DEF BrokerPacket
    <3> QED BY <1>9, <3>1, <3>2, CtlTyped DEF Ctl
  <2>3. Fewer(t, outbox.q)
    BY <2>1 DEF Drops
  <2>4. outbox'.q = Append(t, x) \/ outbox'.q = t
    BY <2>1
  <2> HIDE DEF x
  <2>5. Old \/ outbox'.q[k] = x
    BY <1>1, <1>3, <2>2, <2>3, <2>4
  <2>6. Arrives(a, p.id)
    BY <2>1 DEF Arrives
  <2> QED BY <1>9, <2>1, <2>2, <2>5, <2>6 DEF Comes
<1>10. ASSUME NEW a, NEW type, Completes(a, type) PROVE Old
  BY <1>1, <1>10 DEF Completes, Drops
<1> QED BY <1>5, <1>6, <1>7, <1>8, <1>9, <1>10 DEF ClientKinds, Delivers, Old

\* A packet of an exchange stays in the outbox, or it is gone for a reason.
LEMMA OutboxKeeps ==
  ASSUME TypeInv, TypeInv', ClientKinds, NEW type \in Exchange, NEW i, i # 0,
         Has(outbox.q, {type}, i)
  PROVE  Has(outbox'.q, {type}, i) \/ Gone(type, i)
<1>0. outbox.q \in Seq(ClientPacket) /\ outbox'.q \in Seq(ClientPacket)
  BY Sequences DEF TypeInv, OutboxTyped, Box
<1>1. CASE Calm \/ Writes
  BY <1>1 DEF Calm, Writes, Keeps
<1>2. ASSUME NEW r \in ClientPacket, Asks(r) PROVE Has(outbox'.q, {type}, i)
  BY <1>0, <1>2, AppendHas DEF Asks
<1>3. CASE ClearsAll
  BY <1>3 DEF Gone
<1>4. CASE NewSession
  BY <1>4 DEF NewSession, Gone, Keeps
<1>5. ASSUME NEW p \in BrokerPacket, Delivering(p) PROVE Has(outbox'.q, {type}, i)
  <2> DEFINE x == Ctl(IF p.qos = 1 THEN "PUBACK" ELSE "PUBREC", p.id)
  <2>1. outbox'.q = Append(outbox.q, x) \/ outbox'.q = outbox.q
    BY <1>5 DEF Delivering
  <2>2. x \in ClientPacket
    <3>1. p.id \in BrokerMsg
      BY <1>5 DEF Delivering, BrokerPacket
    <3> QED BY <3>1, CtlTyped
  <2> HIDE DEF x
  <2>3. Has(Append(outbox.q, x), {type}, i)
    BY <1>0, <2>2, AppendHas
  <2> QED BY <2>1, <2>3
<1>6. ASSUME NEW a, NEW from, NEW reply, Continues(a, from, reply),
             <<a, from, reply>> \in {<<"PUBREC", "PUBLISH", "PUBREL">>,
                                     <<"PUBREL", "PUBREC", "PUBCOMP">>}
      PROVE  Has(outbox'.q, {type}, i) \/ Gone(type, i)
  <2>1. PICK p \in BrokerPacket, t \in Seq(ClientPacket) :
          /\ Handles(p) /\ p.type = a
          /\ Has(outbox.q, {from}, p.id) /\ Drops(t, outbox.q, from, p.id)
          /\ outbox'.q = Append(t, Ctl(reply, p.id)) \/ (MayFail /\ outbox'.q = t)
    BY <1>6 DEF Continues
  <2> DEFINE x == Ctl(reply, p.id)
  <2>2. x.id = p.id /\ x.type = reply /\ x \in ClientPacket
    <3>1. a = "PUBREC" => p.id \in 1 .. MaxId
      BY <2>1 DEF BrokerPacket
    <3>2. a = "PUBREL" => p.id \in BrokerMsg
      BY <2>1 DEF BrokerPacket
    <3> QED BY <1>6, <3>1, <3>2, CtlTyped DEF Ctl
  <2>3. outbox'.q = Append(t, x) \/ (MayFail /\ outbox'.q = t)
    BY <2>1
  <2> HIDE DEF x
  <2>9. \A types : \A j : Has(Append(t, x), types, j) <=>
                              Has(t, types, j) \/ (x.type \in types /\ x.id = j)
    BY <2>2, AppendHas
  <2>4. Has(t, {type}, i) => Has(outbox'.q, {type}, i)
    BY <2>3, <2>9
  <2>5. MayFail \/ Has(outbox'.q, {reply}, p.id)
    BY <2>2, <2>3, <2>9
  <2>6. p.id # i \/ from # type => Has(t, {type}, i)
    BY <2>1 DEF Drops
  <2>7. Arrives(a, p.id)
    BY <2>1 DEF Arrives
  <2> QED BY <1>6, <2>4, <2>5, <2>6, <2>7 DEF Gone
<1>7. ASSUME NEW a, NEW from, Completes(a, from),
             <<a, from>> \in {<<"PUBACK", "PUBLISH">>, <<"PUBCOMP", "PUBREL">>}
      PROVE  Has(outbox'.q, {type}, i) \/ Gone(type, i)
  <2>1. PICK p \in BrokerPacket :
          /\ Handles(p) /\ p.type = a /\ Drops(outbox'.q, outbox.q, from, p.id)
          /\ hist'.acked = hist.acked \cup {p.id}
    BY <1>7 DEF Completes
  <2>2. p.id # i \/ from # type => Has(outbox'.q, {type}, i)
    BY <2>1 DEF Drops
  <2>3. Arrives(a, p.id) /\ p.id \in hist'.acked
    BY <2>1 DEF Arrives
  <2> QED BY <1>7, <2>2, <2>3 DEF Gone
<1>8. CASE Unsubscribed
  <2>1. PICK p \in BrokerPacket, from \in AllTypes :
          Handles(p) /\ p.type = "UNSUBACK" /\ Drops(outbox'.q, outbox.q, from, p.id)
    BY <1>8 DEF Unsubscribed
  <2>2. p.id # i => Has(outbox'.q, {type}, i)
    BY <2>1 DEF Drops
  <2>3. Arrives("UNSUBACK", p.id)
    BY <2>1 DEF Arrives
  <2> QED BY <2>2, <2>3 DEF Gone
<1> QED BY <1>1, <1>2, <1>3, <1>4, <1>5, <1>6, <1>7, <1>8 DEF ClientKinds, Delivers

\* What the client does to the packets on their way and to what was reported.
LEMMA ClientEffects ==
  ASSUME TypeInv, TypeInv', ClientKinds
  PROVE  /\ Held /\ Piece(Coming', Coming)
         /\ \A k \in 1 .. Len(wire'.sent) :
              \/ \E j \in 1 .. Len(wire.sent) : wire'.sent[k] = wire.sent[j]
              \/ \E j \in 1 .. Len(outbox.q) : wire'.sent[k] = outbox.q[j]
         /\ hist.acked \subseteq hist'.acked
         /\ hist'.asked = hist.asked \/ \E r \in ClientPacket : Asks(r)
         /\ packetId' \in {packetId, NextPacketId}
<1>0. /\ Coming \in Seq(BrokerPacket) /\ wire.sent \in Seq(ClientPacket)
      /\ outbox.q \in Seq(ClientPacket)
  BY Sequences
<1> DEFINE Wired == \A k \in 1 .. Len(wire'.sent) :
              \/ \E j \in 1 .. Len(wire.sent) : wire'.sent[k] = wire.sent[j]
              \/ \E j \in 1 .. Len(outbox.q) : wire'.sent[k] = outbox.q[j]
<1>1. Piece(wire'.sent, wire.sent) => Wired
  BY <1>0, PieceHas DEF TypeInv, WireTyped
<1>2. wire'.sent = wire.sent => Wired
  OBVIOUS
<1>3. Writes => Wired
  <2> SUFFICES ASSUME Writes PROVE Wired
    OBVIOUS
  <2>1. PICK j \in 1 .. Len(outbox.q) : wire'.sent = Append(wire.sent, outbox.q[j])
    BY DEF Writes
  <2> QED BY <1>0, <2>1
<1>4. Coming' = Coming => Piece(Coming', Coming)
  BY <1>0, PieceItself
<1>5. ASSUME NEW p, Handles(p)
      PROVE  Piece(Coming', Coming) /\ Held /\ wire'.sent = wire.sent /\ packetId' = packetId
  BY <1>0, <1>5, PieceTail DEF Handles
<1>6. ASSUME NEW r \in ClientPacket, Asks(r) PROVE packetId' \in {packetId, NextPacketId}
  BY <1>6 DEF Asks
<1> HIDE DEF Wired
<1>7. CASE Calm
  BY <1>1, <1>7 DEF Calm, Told, Wired
<1>12. CASE NewSession \/ Unsubscribed
  <2>1. PICK p : Handles(p)
    BY <1>12 DEF NewSession, Unsubscribed
  <2>2. hist'.asked = hist.asked /\ hist.acked \subseteq hist'.acked
    BY <1>12 DEF NewSession, Unsubscribed, Told
  <2> QED BY <1>2, <1>5, <2>1, <2>2
<1>8. CASE Writes
  BY <1>3, <1>4, <1>8 DEF Writes, Told
<1>9. CASE ClearsAll \/ \E r \in ClientPacket : Asks(r)
  BY <1>2, <1>4, <1>6, <1>9 DEF ClearsAll, Asks
<1>10. CASE Delivers
  BY <1>2, <1>5, <1>10 DEF Delivers, Delivering
<1>11. CASE (\E a, type, reply : Continues(a, type, reply)) \/ \E a, type : Completes(a, type)
  BY <1>2, <1>5, <1>11 DEF Continues, Completes
<1> QED BY <1>7, <1>8, <1>9, <1>10, <1>11, <1>12 DEF ClientKinds, Wired

\* The broker takes packets from the wire and leaves outbox and hist alone.
LEMMA BrokerEffects ==
  ASSUME TypeInv, TypeInv', BrokerKinds
  PROVE  /\ Untouched /\ Piece(wire'.sent, wire.sent)
         /\ session.present => session'.present
<1>0. wire.sent \in Seq(ClientPacket)
  BY Sequences
<1>1. ASSUME NEW p, Takes(p) PROVE Piece(wire'.sent, wire.sent)
  BY <1>0, <1>1, PieceTail DEF Takes
<1>2. wire' = wire => Piece(wire'.sent, wire.sent)
  BY <1>0, PieceItself
<1>3. session \in [present : BOOLEAN, recv : SUBSET (1 .. MaxId), out : Seq(Flight)]
  BY DEF TypeInv, BrokerTyped
<1>4. CASE Greets \/ Chats
  BY <1>4 DEF Greets, Chats, Held
<1>5. CASE TakesPublish
  BY <1>1, <1>3, <1>5 DEF TakesPublish
<1>6. CASE TakesPubrel \/ TakesAnswer \/ TakesPubrec
  BY <1>1, <1>3, <1>6 DEF TakesPubrel, TakesAnswer, TakesPubrec
<1>7. CASE Publishes
  BY <1>2, <1>3, <1>7 DEF Publishes, PublishesAs
<1> QED BY <1>4, <1>5, <1>6, <1>7 DEF BrokerKinds

\* passedOn only grows; it does so for a PUBLISH that the broker takes.
LEMMA PassedOnGrows ==
  ASSUME TypeInv, ClientKinds \/ BrokerKinds
  PROVE  \A i \in 1 .. MaxId : passedOn[i] > 0 => passedOn'[i] > 0
<1>1. passedOn \in [1 .. MaxId -> 0 .. 2]
  BY DEF TypeInv, BrokerTyped
<1>2. passedOn' = passedOn \/ \E i : PassOn(i)
  <2>1. CASE ClientKinds
    BY <2>1 DEF ClientKinds, Calm, Writes, Asks, ClearsAll, NewSession, Delivers, Delivering,
       Continues, Completes, Unsubscribed, Handles, Held
  <2>2. CASE BrokerKinds
    BY <2>2 DEF BrokerKinds, Greets, Chats, TakesPublish, TakesPubrel, TakesAnswer,
       TakesPubrec, Publishes, PublishesAs, Held
  <2> QED BY <2>1, <2>2
<1>3. ASSUME NEW i, PassOn(i), NEW j \in 1 .. MaxId, passedOn[j] > 0 PROVE passedOn'[j] > 0
  BY <1>1, <1>3 DEF PassOn
<1> QED BY <1>2, <1>3

\* The packet that is handled was on its way, and those behind it are no CONNACK.
LEMMA Handled ==
  ASSUME TypeInv, ConnackFirst, NEW p \in BrokerPacket, Handles(p)
  PROVE  /\ 1 \in 1 .. Len(Coming) /\ Coming[1] = p /\ Has(Coming, {p.type}, p.id)
         /\ Len(Coming') = Len(Coming) - 1 /\ Len(Coming) \in Nat
         /\ \A k \in 1 .. Len(Coming') :
              /\ k + 1 \in 2 .. Len(Coming) /\ Coming'[k] = Coming[k + 1]
              /\ Coming'[k].type # "CONNACK"
<1>0. Coming \in Seq(BrokerPacket) /\ Coming # <<>>
  BY Sequences DEF Handles
<1>1. /\ Head(Coming) = Coming[1] /\ Len(Tail(Coming)) = Len(Coming) - 1
      /\ Len(Coming) \in Nat \ {0} /\ \A k \in 1 .. Len(Coming) - 1 : Tail(Coming)[k] = Coming[k + 1]
  BY <1>0, TailHas
<1>2. p = Coming[1] /\ Coming' = Tail(Coming)
  BY <1>1 DEF Handles
<1>3. 1 \in 1 .. Len(Coming) /\ Has(Coming, {p.type}, p.id)
  BY <1>1, <1>2 DEF Has
<1>4. ASSUME NEW k \in 1 .. Len(Coming')
      PROVE  /\ k + 1 \in 2 .. Len(Coming) /\ Coming'[k] = Coming[k + 1]
             /\ Coming'[k].type # "CONNACK"
  <2>1. k + 1 \in 2 .. Len(Coming) /\ Coming'[k] = Coming[k + 1]
    BY <1>1, <1>2
  <2>2. Coming[k + 1].type # "CONNACK"
    BY <1>1, <2>1 DEF ConnackFirst
  <2> QED BY <2>1, <2>2
<1> QED BY <1>1, <1>2, <1>3, <1>4

LEMMA ArrivesHas ==
  ASSUME TypeInv, ConnackFirst, NEW type, NEW i, Arrives(type, i)
  PROVE  Has(Coming, {type}, i)
BY Handled DEF Arrives
-----------------------------------------------------------------------------
(* CONNACK comes first, and calls are made within the budget *)

LEMMA PieceFirst ==
  ASSUME TypeInv, TypeInv', ConnackFirst, Piece(Coming', Coming)
  PROVE  \A k \in 1 .. Len(Coming') : Coming'[k].type = "CONNACK" => k = 1
<1>0. Coming \in Seq(BrokerPacket) /\ Coming' \in Seq(BrokerPacket)
  BY Sequences, ConcatProperties DEF TypeInv, IncomingTyped, Coming
<1>1. \A k \in 1 .. Len(Coming') : \E j \in 1 .. Len(Coming) : j >= k /\ Coming'[k] = Coming[j]
  BY <1>0, PieceHas
<1> QED BY <1>1 DEF ConnackFirst

\* What a packet of the broker leaves of the order.
LEMMA BringsElements ==
  ASSUME TypeInv, NEW x, Brings(x)
  PROVE  \A k \in 1 .. Len(Coming') :
           \/ k \in 1 .. Len(Coming) /\ Coming'[k] = Coming[k]
           \/ k = Len(Coming) + 1 /\ Coming'[k] = x /\ Coming' = Append(Coming, x)
<1>1. Coming \in Seq(BrokerPacket) /\ x \in BrokerPacket
  BY Sequences DEF Brings
<1>2. CASE Coming' = Append(Coming, x)
  BY <1>1, <1>2, AppendElements
<1>3. CASE Coming' = Coming
  BY <1>3
<1> QED BY <1>2, <1>3 DEF Brings

LEMMA ResentType == \A f \in Flight : Resent(f).type \in {"PUBREL", "PUBLISH"}
BY DEF Resent, Answer, Message

LEMMA ServesFirst ==
  ASSUME TypeInv, TypeInv', ConnackFirst, Serves
  PROVE  ConnackFirst'
<1> DEFINE Order == \A k \in 1 .. Len(Coming') : Coming'[k].type = "CONNACK" => k = 1
<1>0. BrokerKinds /\ (session.present => session'.present)
  BY ServesKinds, BrokerEffects
<1>1. ASSUME NEW x, Brings(x), x.type = "CONNACK" => Coming = <<>> PROVE Order
  <2>1. ASSUME NEW k \in 1 .. Len(Coming'), Coming'[k].type = "CONNACK" PROVE k = 1
    <3>1. CASE k \in 1 .. Len(Coming) /\ Coming'[k] = Coming[k]
      BY <2>1, <3>1 DEF ConnackFirst
    <3>2. CASE k = Len(Coming) + 1 /\ Coming'[k] = x
      BY <1>1, <2>1, <3>2
    <3> QED BY <1>1, <3>1, <3>2, BringsElements
  <2> QED BY <2>1
<1>2. Coming' = Coming => Order
  BY DEF ConnackFirst
<1>3. Greets => Order /\ session'.present
  <2> SUFFICES ASSUME Greets PROVE Order /\ session'.present
    OBVIOUS
  <2>1. session'.out \in Seq(Flight)
    BY DEF TypeInv, BrokerTyped
  <2>2. \A k \in 1 .. Len(Coming') :
          k = 1 \/ (k - 1 \in 1 .. Len(session'.out) /\ Coming'[k] = Resent(session'.out[k - 1]))
    BY DEF Greets
  <2>3. Order
    BY <2>1, <2>2, ResentType
  <2> QED BY <2>3 DEF Greets
<1>4. BrokerKinds => Order
  <2>1. Chats => Order
    BY <1>1 DEF Chats
  <2>2. TakesPublish => Order
    <3>1. \A i : Answer("PUBACK", i).type # "CONNACK" /\ Answer("PUBREC", i).type # "CONNACK"
      BY DEF Answer
    <3> QED BY <1>1, <1>2, <3>1 DEF TakesPublish
  <2>3. TakesPubrel \/ TakesPubrec => Order
    <3>1. \A i : Answer("PUBCOMP", i).type # "CONNACK" /\ Answer("PUBREL", i).type # "CONNACK"
      BY DEF Answer
    <3> QED BY <1>1, <3>1 DEF TakesPubrel, TakesPubrec
  <2>4. TakesAnswer => Order
    BY <1>2 DEF TakesAnswer
  <2>5. Publishes => Order
    <3>1. \A f : Message(f, FALSE).type # "CONNACK"
      BY DEF Message
    <3> QED BY <1>1, <3>1 DEF Publishes, PublishesAs
  <2> QED BY <1>3, <2>1, <2>2, <2>3, <2>4, <2>5 DEF BrokerKinds
<1> HIDE DEF Order
<1>5. bConn' = "up" => session'.present
  <2>1. GetConnect => Greets
    BY GreetsKind DEF Serves
  <2>2. Serves => GetConnect \/ bConn' \in {"refused", bConn}
    BY DEF Serves, Refuse, GetPublish, GetPubrel, GetRequest, GetAnswer, GetPubrec,
           PublishMessage
  <2> QED BY <1>0, <1>3, <2>1, <2>2 DEF ConnackFirst
<1>6. bConn' = "wait" => Coming' = <<>>
  <2>1. bConn' = "wait" => PublishMessage /\ bConn = "wait"
    BY DEF Serves, GetConnect, Refuse, GetPublish, GetPubrel, GetRequest, GetAnswer, GetPubrec,
           PublishMessage, Gets
  <2>2. bConn' = "wait" => UNCHANGED s2c
    BY <2>1 DEF PublishMessage
  <2> QED BY <2>1, <2>2, NoSend DEF ConnackFirst, Serves
<1> QED BY <1>0, <1>4, <1>5, <1>6 DEF ConnackFirst, Order

LEMMA StepFirst ==
  ASSUME TypeInv, TypeInv', ConnackFirst, [Next]_vars
  PROVE  ConnackFirst'
<1>1. CASE Serves
  BY <1>1, ServesFirst
<1>2. CASE ~Serves
  <2>1. ClientKinds
    BY <1>2, StepKinds DEF Kinds
  <2>2. Piece(Coming', Coming) /\ session' = session
    BY <2>1, ClientEffects DEF Held
  <2>3. \A k \in 1 .. Len(Coming') : Coming'[k].type = "CONNACK" => k = 1
    BY <2>2, PieceFirst
  <2>4. bConn' = bConn \/ bConn' = "down" \/ (bConn' = "wait" /\ Coming' = <<>>)
    <3>1. CASE ClientStep \/ UNCHANGED vars
      BY <3>1 DEF ClientStep, vars, brokerVars
    <3>2. CASE ConnectStep
      <4>1. rx = <<>> /\ rx' = rx /\ s2c' = <<>> /\ bConn' = "wait"
        BY <3>2 DEF ConnectStep, Accept, TcpConnect, At, TypeInv, IncomingTyped
      <4> QED BY <4>1, ConcatProperties DEF Coming
    <3>3. CASE BrokerStep
      BY <1>2, <3>3 DEF BrokerStep, Serves, AtBroker, Answers, ProtocolViolation, GetDisconnect,
                        Close
    <3>4. CASE LossStep
      BY <3>4 DEF LossStep, ConnectionLost, Close
    <3> QED BY <3>1, <3>2, <3>3, <3>4 DEF Next
  <2>5. bConn' = "wait" => Coming' = <<>>
    <3>1. Coming = <<>> => Coming' = <<>>
      <4>1. Coming' \in Seq(BrokerPacket) /\ Coming \in Seq(BrokerPacket)
        BY Sequences, ConcatProperties DEF TypeInv, IncomingTyped, Coming
      <4>2. \A k \in 1 .. Len(Coming') : \E j \in 1 .. Len(Coming) : TRUE
        BY <2>2, <4>1, PieceHas
      <4>3. ASSUME Coming = <<>> PROVE Len(Coming') = 0
        BY <4>1, <4>2, <4>3
      <4> QED BY <4>1, <4>3, EmptySeq
    <3> QED BY <2>4, <3>1 DEF ConnackFirst
  <2> QED BY <2>2, <2>3, <2>4, <2>5 DEF ConnackFirst
<1> QED BY <1>1, <1>2

\* What a step does to the calls.
LEMMA StepCalls ==
  ASSUME [Next]_vars
  PROVE  \/ UNCHANGED <<apc, left>>
         \/ \E t \in Thread : \E call \in Calls : Call(t, call)
         \/ left' = left /\ \E t \in Thread : \E call : Return(t, call)
<1>1. CASE ClientStep
  <2>1. CASE Dispatch \/ Connecting \/ Disconnecting \/ Sending
    BY <2>1 DEF Dispatch, Connecting, Disconnecting, Sending, TcpConnectFails, TcpConnected,
       CheckTransport, TransportLost, SayGoodbye, StopTransport, Disconnected, SendPacket,
       SendFails, NothingToSend, app
  <2>2. CASE Callbacks \/ Timers \/ TimePasses
    BY <2>2 DEF Callbacks, Timers, TimePasses, CallbackReturns, ConnectCallbackReturns,
       DisconnectCallbackReturns, CheckPing, Retransmit, NoRetransmit, app
  <2>3. CASE Receiving
    <3>1. CASE Read \/ ExpectedConnack \/ ProtocolError \/ OnConnack \/ OnConnackRefused
               \/ OnPingresp
      BY <3>1 DEF Read, ExpectedConnack, ProtocolError, OnConnack, OnConnackRefused, OnPingresp, app
    <3>2. CASE OnPublish
      BY <3>2 DEF OnPublish, Notify, app
    <3>3. CASE \E a, type : Finish(a, type)
      BY <3>3 DEF Finish, Notify, app
    <3>4. CASE \E a, type, reply : Reply(a, type, reply)
      BY <3>4 DEF Reply, app
    <3>5. CASE \E a, types : Settle(a, types)
      BY <3>5 DEF Settle, Notify, app
    <3> QED BY <2>3, <3>1, <3>2, <3>3, <3>4, <3>5
            DEF Receiving, OnPuback, OnPubcomp, OnPubrec, OnPubrel, OnSuback, OnUnsuback
  <2>4. CASE AppNext
    <3>1. PICK t \in Thread : (\E call \in Calls : Call(t, call)) \/ Act(t)
      BY <2>4 DEF AppNext
    <3>2. Act(t) => left' = left /\ \E call : Return(t, call)
      BY DEF Act, Connect, Disconnect, Publish, Subscribe, Unsubscribe, ClearQueueCall, Request
    <3> QED BY <3>1, <3>2
  <2> QED BY <1>1, <2>1, <2>2, <2>3, <2>4 DEF ClientStep, LoopNext
<1>2. CASE ConnectStep \/ BrokerStep \/ LossStep \/ UNCHANGED vars
  BY <1>2 DEF ConnectStep, BrokerStep, LossStep, TcpConnect, vars, clientVars, app
<1> QED BY <1>1, <1>2 DEF Next

LEMMA StepBudget ==
  ASSUME TypeInv, TypeInv', BudgetKept, [Next]_vars
  PROVE  BudgetKept' /\ \A c \in Calls : left'[c] <= left[c]
<1>0. /\ apc \in [Thread -> Calls \cup {None}] /\ left \in [Calls -> Nat]
      /\ Budget \in [Calls -> Nat] /\ None \notin Calls
  BY BudgetAssumption, NoneAssumption DEF TypeInv, ControlTyped
<1>1. CASE UNCHANGED <<apc, left>>
  BY <1>0, <1>1 DEF BudgetKept
<1>2. ASSUME NEW t \in Thread, NEW call \in Calls, Call(t, call)
      PROVE  BudgetKept' /\ \A c \in Calls : left'[c] <= left[c]
  <2>1. /\ left[call] > 0 /\ apc' = [apc EXCEPT ![t] = call]
        /\ left' = [left EXCEPT ![call] = @ - 1]
    BY <1>2 DEF Call
  <2>2. ASSUME NEW c \in Calls
        PROVE  /\ left'[c] <= left[c] /\ left'[c] <= Budget[c]
               /\ \A u \in Thread : apc'[u] = c => left'[c] < Budget[c]
    <3>1. left'[c] = IF c = call THEN left[c] - 1 ELSE left[c]
      BY <1>0, <2>1
    <3>2. left[c] \in Nat /\ left[c] <= Budget[c] /\ Budget[c] \in Nat
      BY <1>0 DEF BudgetKept
    <3>3. \A u \in Thread : apc'[u] = IF u = t THEN call ELSE apc[u]
      BY <1>0, <2>1
    <3> QED BY <3>1, <3>2, <3>3 DEF BudgetKept
  <2> QED BY <2>2 DEF BudgetKept
<1>3. ASSUME NEW t \in Thread, NEW call, left' = left, Return(t, call)
      PROVE  BudgetKept' /\ \A c \in Calls : left'[c] <= left[c]
  <2>1. \A u \in Thread : apc'[u] \in {None, apc[u]}
    BY <1>0, <1>3 DEF Return
  <2>2. ASSUME NEW c \in Calls
        PROVE  /\ left'[c] <= left[c] /\ left'[c] <= Budget[c]
               /\ \A u \in Thread : apc'[u] = c => left'[c] < Budget[c]
    BY <1>0, <1>3, <2>1 DEF BudgetKept
  <2> QED BY <2>2 DEF BudgetKept
<1> QED BY <1>1, <1>2, <1>3, StepCalls

LEMMA InitBase == Init => Base
<1> SUFFICES ASSUME Init PROVE Base
  OBVIOUS
<1>1. rx = <<>> /\ s2c = <<>> /\ bConn = "down" /\ left = Budget
      /\ \A t \in Thread : apc[t] = None
  BY DEF Init, ClientInit, BrokerInit
<1>2. Coming = <<>> /\ Len(Coming) = 0
  BY <1>1, ConcatProperties DEF Coming
<1>3. ConnackFirst
  BY <1>1, <1>2 DEF ConnackFirst
<1>4. BudgetKept
  BY <1>1, BudgetAssumption, NoneAssumption DEF BudgetKept
<1> QED BY <1>3, <1>4, InitTyped DEF Base

LEMMA StepBase == Base /\ [Next]_vars => Base'
BY StepTyped, StepFirst, StepBudget DEF Base

LEMMA BaseInvariant == Spec => []Base
BY InitBase, StepBase, PTL DEF Spec

LEMMA StepIs ==
  ASSUME Base, Base', [Next]_vars
  PROVE  ClientKinds \/ BrokerKinds
BY StepKinds, ServesKinds DEF Base, Kinds

\* If clearQueue(true) is not called at all.
LEMMA NothingCleared ==
  ASSUME Base, left["clearAll"] = Budget["clearAll"]
  PROVE  ~ClearsAll
<1>1. \A t \in Thread : apc[t] # "clearAll"
  BY BudgetAssumption DEF Base, BudgetKept, Calls
<1> QED BY <1>1 DEF ClearsAll

\* A packet of the outbox with the type was there before, or it comes.
LEMMA OutboxHas ==
  ASSUME TypeInv, TypeInv', ClientKinds, NEW types, NEW i, i # 0, Has(outbox'.q, types, i)
  PROVE  Has(outbox.q, types, i) \/ \E x : Comes(x) /\ x.type \in types /\ x.id = i
<1>1. PICK k \in 1 .. Len(outbox'.q) : outbox'.q[k].type \in types /\ outbox'.q[k].id = i
  BY DEF Has
<1> QED BY <1>1, OutboxComes DEF Same, Has

LEMMA WireHas ==
  ASSUME TypeInv, TypeInv', ClientKinds \/ BrokerKinds, NEW types, NEW i,
         Has(wire'.sent, types, i)
  PROVE  Has(wire.sent, types, i) \/ (ClientKinds /\ Has(outbox.q, types, i))
<1>0. wire.sent \in Seq(ClientPacket) /\ wire'.sent \in Seq(ClientPacket)
  BY DEF TypeInv, WireTyped
<1>1. CASE ClientKinds
  <2>1. PICK k \in 1 .. Len(wire'.sent) : wire'.sent[k].type \in types /\ wire'.sent[k].id = i
    BY DEF Has
  <2> QED BY <1>1, <2>1, ClientEffects DEF Has
<1>2. CASE BrokerKinds
  BY <1>0, <1>2, BrokerEffects, PieceHas
<1> QED BY <1>1, <1>2

\* getNextPacketId() has not started again: no packet id is used twice
\* (MqttClient.cpp:348-352).
IdsRise == [][packetId <= packetId']_vars

\* The packet r of publish() has an id that was not in use.
LEMMA AskedFresh ==
  ASSUME Base, Base', MaxId > 1, packetId <= packetId', NEW r, Asks(r), r.id # 0
  PROVE  r.id \in 1 .. MaxId /\ r.id > packetId /\ r.id = packetId'
<1>1. r.id = NextPacketId /\ packetId' = NextPacketId
  BY DEF Asks
<1>2. packetId \in 0 .. MaxId /\ MaxId \in Nat
  BY ClientAssumption DEF Base, TypeInv, ClientTyped
<1> QED BY <1>1, <1>2 DEF NextPacketId

-----------------------------------------------------------------------------
(* No message is lost *)

\* The application has asked to unsubscribe with the id i.
HasUnsubscribe(i) == \E p \in hist.asked : p.type = "UNSUBSCRIBE" /\ p.id = i

\* Packet ids come around after 65535 requests.  Until then no message has the
\* id of an UNSUBSCRIBE, whose UNSUBACK takes any packet with its id out of the
\* outbox (MqttClient.cpp:693-707).
UnsubIdsOwn == \A p \in Published : ~HasUnsubscribe(p.id)

\* The broker answers what it has passed on.
PassedOnKnown ==
  /\ \A i \in 1 .. MaxId : Has(Coming, {"PUBACK", "PUBREC"}, i) => passedOn[i] > 0
  /\ \A i \in session.recv : passedOn[i] > 0

\* It answers an UNSUBSCRIBE that the application asked for.
UnsubKnown ==
  \A i \in 1 .. MaxId :
    (Has(Coming, {"UNSUBACK"}, i) \/ Has(outbox.q, {"UNSUBSCRIBE"}, i)
     \/ Has(wire.sent, {"UNSUBSCRIBE"}, i)) => HasUnsubscribe(i)

Known == PassedOnKnown /\ UnsubKnown

LEMMA PieceKeepsHas ==
  ASSUME TypeInv, TypeInv', Piece(Coming', Coming)
  PROVE  \A types : \A i : Has(Coming', types, i) => Has(Coming, types, i)
<1>1. Coming \in Seq(BrokerPacket) /\ Coming' \in Seq(BrokerPacket)
  BY Sequences, ConcatProperties DEF TypeInv, IncomingTyped, Coming
<1> QED BY <1>1, PieceHas

LEMMA BringsHas ==
  ASSUME TypeInv, NEW x, Brings(x)
  PROVE  \A types : \A i : Has(Coming', types, i) =>
           Has(Coming, types, i) \/ (x.type \in types /\ x.id = i)
<1>1. ASSUME NEW types, NEW i, NEW k \in 1 .. Len(Coming'),
             Coming'[k].type \in types, Coming'[k].id = i
      PROVE  Has(Coming, types, i) \/ (x.type \in types /\ x.id = i)
  BY <1>1, BringsElements DEF Has
<1> QED BY <1>1 DEF Has

\* What the broker may put on the way, but for the start of a connection.
LEMMA GreetsHas ==
  ASSUME TypeInv, TypeInv', Greets, NEW types, NEW i, Has(Coming', types, i)
  PROVE  \/ "CONNACK" \in types
         \/ \E k \in 1 .. Len(session'.out) :
              Resent(session'.out[k]).type \in types /\ Resent(session'.out[k]).id = i
<1>1. PICK k \in 1 .. Len(Coming') : Coming'[k].type \in types /\ Coming'[k].id = i
  BY DEF Has
<1>2. \/ \E present \in BOOLEAN : Coming'[k] = Connack(TRUE, present)
      \/ k - 1 \in 1 .. Len(session'.out) /\ Coming'[k] = Resent(session'.out[k - 1])
  BY DEF Greets
<1>3. \A present : Connack(TRUE, present).type = "CONNACK"
  BY DEF Connack
<1> QED BY <1>1, <1>2, <1>3

LEMMA StepPassedOnKnown ==
  ASSUME Base, Base', PassedOnKnown, ClientKinds \/ BrokerKinds
  PROVE  PassedOnKnown'
<1> USE DEF Base
<1>0. /\ \A i \in 1 .. MaxId : passedOn[i] > 0 => passedOn'[i] > 0
      /\ session.recv \subseteq 1 .. MaxId
      /\ session \in [present : BOOLEAN, recv : SUBSET (1 .. MaxId), out : Seq(Flight)]
      /\ passedOn \in [1 .. MaxId -> 0 .. 2]
  BY PassedOnGrows DEF TypeInv, BrokerTyped
<1> DEFINE H(i) == Has(Coming, {"PUBACK", "PUBREC"}, i)
           H1(i) == Has(Coming', {"PUBACK", "PUBREC"}, i)
<1> SUFFICES /\ \A i \in 1 .. MaxId : H1(i) => H(i) \/ passedOn'[i] > 0
             /\ \A i \in session'.recv : i \in session.recv \/ (i \in 1 .. MaxId /\ passedOn'[i] > 0)
  BY <1>0 DEF PassedOnKnown
<1>1. CASE ClientKinds
  BY <1>1, ClientEffects, PieceKeepsHas DEF Held
<1>2. ASSUME NEW x, Brings(x), NEW i, H1(i), x.id # i \/ x.type \notin {"PUBACK", "PUBREC"}
      PROVE  H(i)
  BY <1>2, BringsHas
<1>3. CASE Greets
  <2>1. session'.recv \subseteq session.recv
    BY <1>3 DEF Greets
  <2>2. session'.out \in Seq(Flight)
    BY DEF TypeInv, BrokerTyped
  <2>3. \A i : ~H1(i)
    <3>1. \A k \in 1 .. Len(session'.out) :
            Resent(session'.out[k]).type \notin {"PUBACK", "PUBREC"}
      BY <2>2, ResentType
    <3> QED BY <1>3, <3>1, GreetsHas
  <2> QED BY <2>1, <2>3
<1> HIDE DEF H, H1
<1>4. CASE Chats
  BY <1>2, <1>4 DEF Chats, Held
<1>5. CASE TakesPublish
  <2>1. PICK p \in ClientPacket :
          /\ Takes(p) /\ p.type = "PUBLISH"
          /\ \/ p.qos = 0 /\ Coming' = Coming /\ session' = session
             \/ /\ p.qos = 1 /\ Brings(Answer("PUBACK", p.id))
                /\ PassOn(p.id) /\ session' = session
             \/ /\ p.qos = 2 /\ Brings(Answer("PUBREC", p.id))
                /\ IF p.id \in session.recv THEN passedOn' = passedOn ELSE PassOn(p.id)
                /\ session' = [session EXCEPT !.recv = @ \cup {p.id}]
    BY <1>5 DEF TakesPublish
  <2>2. p.qos # 0 => p.id \in 1 .. MaxId
    BY <2>1 DEF ClientPacket
  <2>3. p.qos # 0 => passedOn'[p.id] > 0
    <3>1. p.qos # 0 /\ PassOn(p.id) => passedOn'[p.id] > 0
      BY <1>0, <2>2 DEF PassOn
    <3>2. p.id \in session.recv => passedOn'[p.id] > 0
      BY <1>0 DEF PassedOnKnown
    <3> QED BY <2>1, <3>1, <3>2
  <2>4. session'.recv \subseteq session.recv \cup IF p.qos # 0 THEN {p.id} ELSE {}
    BY <1>0, <2>1
  <2>5. \A t, i : Answer(t, i).id = i
    BY DEF Answer
  <2>6. \A i : H1(i) => H(i) \/ (p.qos # 0 /\ i = p.id)
    BY <1>2, <2>1, <2>5 DEF H, H1
  <2> QED BY <2>2, <2>3, <2>4, <2>6
<1>6. CASE TakesPubrel \/ TakesPubrec \/ TakesAnswer
  <2>1. session'.recv \subseteq session.recv
    BY <1>0, <1>6 DEF TakesPubrel, TakesPubrec, TakesAnswer
  <2>2. \A i, j : ~(Answer("PUBCOMP", j).type \in {"PUBACK", "PUBREC"})
                  /\ ~(Answer("PUBREL", j).type \in {"PUBACK", "PUBREC"})
    BY DEF Answer
  <2>3. \A i : H1(i) => H(i)
    BY <1>2, <1>6, <2>2 DEF TakesPubrel, TakesPubrec, TakesAnswer, H, H1
  <2> QED BY <2>1, <2>3
<1>7. CASE Publishes
  <2>1. session'.recv = session.recv
    BY <1>0, <1>7 DEF Publishes, PublishesAs
  <2>2. PICK f : Brings(Message(f, FALSE))
    BY <1>7 DEF Publishes, PublishesAs
  <2>3. Message(f, FALSE).type = "PUBLISH"
    BY DEF Message
  <2>4. \A i : H1(i) => H(i)
    BY <1>2, <2>2, <2>3
  <2> QED BY <2>1, <2>4
<1> QED BY <1>1, <1>3, <1>4, <1>5, <1>6, <1>7 DEF BrokerKinds

LEMMA AskedGrows ==
  ASSUME TypeInv, TypeInv', ClientKinds \/ BrokerKinds
  PROVE  /\ hist.asked \subseteq hist'.asked /\ hist.acked \subseteq hist'.acked
         /\ \A i : HasUnsubscribe(i) => HasUnsubscribe(i)'
         /\ UnsubIdsOwn' => UnsubIdsOwn
<1>1. hist.asked \subseteq hist'.asked /\ hist.acked \subseteq hist'.acked
  BY ClientEffects, BrokerEffects DEF Untouched, Asks
<1> QED BY <1>1 DEF HasUnsubscribe, UnsubIdsOwn, Published

LEMMA StepUnsubKnown ==
  ASSUME Base, Base', UnsubKnown, ClientKinds \/ BrokerKinds
  PROVE  UnsubKnown'
<1> USE DEF Base
<1> DEFINE U == {"UNSUBSCRIBE"}
<1> SUFFICES ASSUME NEW i \in 1 .. MaxId,
                    Has(Coming', {"UNSUBACK"}, i) \/ Has(outbox'.q, U, i) \/ Has(wire'.sent, U, i)
             PROVE  HasUnsubscribe(i)'
  BY DEF UnsubKnown
<1>1. SUFFICES \/ Has(Coming, {"UNSUBACK"}, i) \/ Has(outbox.q, U, i) \/ Has(wire.sent, U, i)
               \/ HasUnsubscribe(i)'
  <2>1. HasUnsubscribe(i) => HasUnsubscribe(i)'
    BY AskedGrows DEF HasUnsubscribe
  <2>2. Has(Coming, {"UNSUBACK"}, i) \/ Has(outbox.q, U, i) \/ Has(wire.sent, U, i)
          => HasUnsubscribe(i)
    BY DEF UnsubKnown
  <2> QED BY <2>1, <2>2
<1>2. Has(wire'.sent, U, i) => Has(outbox.q, U, i) \/ Has(wire.sent, U, i)
  BY WireHas
<1>3. Has(outbox'.q, U, i) => Has(outbox.q, U, i) \/ HasUnsubscribe(i)'
  <2>1. CASE ClientKinds
    <3>1. ASSUME NEW x, Comes(x), x.type = "UNSUBSCRIBE", x.id = i PROVE HasUnsubscribe(i)'
      <4>1. Asks(x)
        BY <3>1 DEF Comes
      <4> QED BY <3>1, <4>1 DEF Asks, HasUnsubscribe
    <3> QED BY <2>1, <3>1, OutboxHas
  <2>2. CASE BrokerKinds
    BY <2>2, BrokerEffects DEF Untouched
  <2> QED BY <2>1, <2>2
<1>4. Has(Coming', {"UNSUBACK"}, i) => Has(Coming, {"UNSUBACK"}, i) \/ Has(wire.sent, U, i)
  <2> SUFFICES ASSUME Has(Coming', {"UNSUBACK"}, i)
               PROVE  Has(Coming, {"UNSUBACK"}, i) \/ Has(wire.sent, U, i)
    OBVIOUS
  <2>1. CASE ClientKinds
    BY <2>1, ClientEffects, PieceKeepsHas
  <2>2. CASE Greets
    <3>1. session'.out \in Seq(Flight)
      BY DEF TypeInv, BrokerTyped
    <3>2. \A k \in 1 .. Len(session'.out) : Resent(session'.out[k]).type # "UNSUBACK"
      BY <3>1, ResentType
    <3> QED BY <2>2, <3>2, GreetsHas
  <2>3. CASE Chats
    BY <2>3, BringsHas DEF Chats
  <2>4. ASSUME NEW x, Brings(x), x.type # "UNSUBACK" PROVE Has(Coming, {"UNSUBACK"}, i)
    BY <2>4, BringsHas
  <2>5. \A t, j : Answer(t, j).type = t
    BY DEF Answer
  <2>6. \A f : Message(f, FALSE).type = "PUBLISH"
    BY DEF Message
  <2>7. CASE TakesPublish
    BY <2>4, <2>5, <2>7 DEF TakesPublish
  <2>8. CASE TakesPubrel \/ TakesPubrec \/ TakesAnswer
    BY <2>4, <2>5, <2>8 DEF TakesPubrel, TakesPubrec, TakesAnswer
  <2>9. CASE Publishes
    BY <2>4, <2>6, <2>9 DEF Publishes, PublishesAs
  <2> QED BY <2>1, <2>2, <2>3, <2>7, <2>8, <2>9 DEF BrokerKinds
<1> QED BY <1>1, <1>2, <1>3, <1>4

LEMMA InitKnown == Init => Known
<1> SUFFICES ASSUME Init PROVE Known
  OBVIOUS
<1>1. /\ rx = <<>> /\ s2c = <<>> /\ session = NoSession /\ outbox = EmptyOutbox
      /\ wire = NewWire({})
  BY DEF Init, ClientInit, BrokerInit
<1>2. Coming = <<>> /\ outbox.q = <<>> /\ wire.sent = <<>> /\ session.recv = {}
  BY <1>1, ConcatProperties DEF Coming, EmptyOutbox, NewWire, NoSession
<1>3. \A types, i : ~Has(<<>>, types, i)
  BY DEF Has
<1> QED BY <1>2, <1>3 DEF Known, PassedOnKnown, UnsubKnown

LEMMA StepKnown == Base /\ Base' /\ Known /\ [Next]_vars => Known'
BY StepIs, StepPassedOnKnown, StepUnsubKnown DEF Known

LEMMA KnownInvariant == Spec => [](Base /\ Known)
BY InitBase, StepBase, InitKnown, StepKnown, PTL DEF Spec

\* Until clearQueue(true) is called, a packet of a message or of its release is
\* gone only for a reason.
LEMMA PacketGone ==
  ASSUME Base, Base', Known, ClientKinds, left["clearAll"] = Budget["clearAll"],
         UnsubIdsOwn', NEW p \in Published, NEW type \in {"PUBLISH", "PUBREL"},
         Has(outbox.q, {type}, p.id)
  PROVE  \/ Has(outbox'.q, {type}, p.id)
         \/ NewSession /\ type = "PUBREL"
         \/ /\ type = "PUBLISH" /\ passedOn[p.id] > 0
            /\ \/ Has(outbox'.q, {"PUBREL"}, p.id) \/ MayFail
               \/ p.id \in hist'.acked
         \/ type = "PUBREL" /\ p.id \in hist'.acked
<1> USE DEF Base
<1>1. p \in ClientPacket /\ p.type = "PUBLISH" /\ p.qos > 0 /\ p.id \in 1 .. MaxId
  BY DEF Published, TypeInv, HistTyped, ClientPacket
<1>2. Has(outbox'.q, {type}, p.id) \/ Gone(type, p.id)
  BY <1>1, OutboxKeeps DEF Exchange
<1>3. ~ClearsAll
  BY NothingCleared
<1>4. ~Arrives("UNSUBACK", p.id)
  <2>1. UnsubIdsOwn
    BY AskedGrows
  <2>2. ~HasUnsubscribe(p.id)
    BY <2>1 DEF UnsubIdsOwn
  <2>3. Arrives("UNSUBACK", p.id) => Has(Coming, {"UNSUBACK"}, p.id)
    BY ArrivesHas
  <2> QED BY <1>1, <2>2, <2>3 DEF Known, UnsubKnown
<1>5. Arrives("PUBACK", p.id) \/ Arrives("PUBREC", p.id) => passedOn[p.id] > 0
  <2>1. Arrives("PUBACK", p.id) \/ Arrives("PUBREC", p.id) => Has(Coming, {"PUBACK", "PUBREC"}, p.id)
    BY ArrivesHas DEF Has
  <2> QED BY <1>1, <2>1 DEF Known, PassedOnKnown
<1> QED BY <1>2, <1>3, <1>4, <1>5 DEF Gone

\* The conditions hold before a step if they do after it.
LEMMA StillAllowed ==
  ASSUME Base, Base', [Next]_vars, ~SessionDeleted'
  PROVE  ~SessionDeleted /\ left["clearAll"] = Budget["clearAll"]
<1>1. /\ left \in [Calls -> Nat] /\ left' \in [Calls -> Nat] /\ Budget \in [Calls -> Nat]
      /\ "clearAll" \in Calls
  BY BudgetAssumption DEF Base, TypeInv, ControlTyped, Calls
<1>2. left'["clearAll"] <= left["clearAll"]
  BY <1>1, StepBudget DEF Base
<1>3. left["clearAll"] <= Budget["clearAll"]
  BY <1>1 DEF Base, BudgetKept
<1>4. ~(left'["clearAll"] < Budget["clearAll"])
  BY DEF SessionDeleted
<1> QED BY <1>1, <1>2, <1>3, <1>4 DEF SessionDeleted

\* What publish() accepts is in the outbox.
LEMMA NewlyPublished ==
  ASSUME Base, Base', ClientKinds \/ BrokerKinds, NEW p \in Published'
  PROVE  /\ p.type = "PUBLISH" /\ p.qos \in 1 .. 2 /\ p.id \in 1 .. MaxId
         /\ \/ p \in Published
            \/ /\ Has(outbox'.q, {"PUBLISH"}, p.id)
               /\ Asks(p) /\ p.id = NextPacketId /\ packetId' = NextPacketId
<1>1. p \in hist'.asked /\ p.type = "PUBLISH" /\ p.qos > 0
  BY DEF Published
<1>2. p \in ClientPacket
  BY <1>1 DEF Base, TypeInv, HistTyped
<1>3. p.qos \in 1 .. 2 /\ p.id \in 1 .. MaxId
  BY <1>1, <1>2 DEF ClientPacket, Packet
<1>4. p \in hist.asked \/ Asks(p)
  <2>1. hist'.asked = hist.asked \/ \E r : Asks(r)
    BY ClientEffects, BrokerEffects DEF Base, Untouched
  <2>2. ASSUME NEW r, Asks(r) PROVE p \in hist.asked \/ p = r
    BY <1>1, <2>2 DEF Asks
  <2> QED BY <1>1, <2>1, <2>2
<1>5. Asks(p) => Has(outbox'.q, {"PUBLISH"}, p.id) /\ p.id = NextPacketId /\ packetId' = NextPacketId
  <2> SUFFICES ASSUME Asks(p)
               PROVE  Has(outbox'.q, {"PUBLISH"}, p.id) /\ p.id = NextPacketId
                      /\ packetId' = NextPacketId
    OBVIOUS
  <2>1. outbox'.q = Append(outbox.q, p) /\ outbox.q \in Seq(ClientPacket)
    BY Sequences DEF Base, Asks
  <2>2. Has(Append(outbox.q, p), {"PUBLISH"}, p.id)
    BY <1>1, <1>2, <2>1, AppendHas
  <2> QED BY <1>1, <2>1, <2>2 DEF Asks
<1> QED BY <1>1, <1>3, <1>4, <1>5 DEF Published

NotLost == UnsubIdsOwn /\ ~SessionDeleted => NoMessageLost

LEMMA StepNotLost == Base /\ Base' /\ Known /\ NotLost /\ [Next]_vars => NotLost'
<1> SUFFICES ASSUME Base, Base', Known, NotLost, [Next]_vars, UnsubIdsOwn', ~SessionDeleted',
                    NEW p \in Published'
             PROVE  passedOn'[p.id] > 0 \/ Has(outbox'.q, {"PUBLISH"}, p.id)
  BY DEF NotLost, NoMessageLost, Has
<1>0. ClientKinds \/ BrokerKinds
  BY StepIs
<1>1. p.id \in 1 .. MaxId /\ (p \in Published \/ Has(outbox'.q, {"PUBLISH"}, p.id))
  BY <1>0, NewlyPublished
<1>2. SUFFICES ASSUME p \in Published
               PROVE  passedOn'[p.id] > 0 \/ Has(outbox'.q, {"PUBLISH"}, p.id)
  BY <1>1
<1>3. UnsubIdsOwn /\ ~SessionDeleted /\ left["clearAll"] = Budget["clearAll"]
  BY <1>0, AskedGrows, StillAllowed DEF Base
<1>4. passedOn[p.id] > 0 \/ Has(outbox.q, {"PUBLISH"}, p.id)
  BY <1>2, <1>3 DEF NotLost, NoMessageLost, Has
<1>5. passedOn[p.id] > 0 => passedOn'[p.id] > 0
  BY <1>0, <1>1, PassedOnGrows DEF Base
<1>6. Has(outbox.q, {"PUBLISH"}, p.id) => Has(outbox'.q, {"PUBLISH"}, p.id) \/ passedOn[p.id] > 0
  <2>1. CASE ClientKinds
    BY <1>2, <1>3, <2>1, PacketGone
  <2>2. CASE BrokerKinds
    BY <2>2, BrokerEffects DEF Untouched, Base
  <2> QED BY <1>0, <2>1, <2>2
<1> QED BY <1>4, <1>5, <1>6

LEMMA InitPublished == Init => Published = {}
BY DEF Init, ClientInit, Published

\* A QoS 1 or 2 message that publish() accepted is passed on by the broker or
\* still in the outbox, whatever becomes of connections, sessions and memory, as
\* long as the application does not delete the session by clearQueue(true) and
\* no message has the id of an UNSUBSCRIBE (MqttClient.cpp:591, 718).
THEOREM MessagesAreKept == Spec => [](UnsubIdsOwn /\ ~SessionDeleted => NoMessageLost)
<1>1. Init => NotLost
  BY InitPublished DEF NotLost, NoMessageLost
<1>2. Spec => [](Base /\ Known)
  BY KnownInvariant
<1>3. Base /\ Base' /\ Known /\ NotLost /\ [Next]_vars => NotLost'
  BY StepNotLost
<1>4. NotLost <=> (UnsubIdsOwn /\ ~SessionDeleted => NoMessageLost)
  BY DEF NotLost
<1> QED BY <1>1, <1>2, <1>3, <1>4, PTL DEF Spec
-----------------------------------------------------------------------------
(* No exchange is dropped *)

\* Neither side gives the session up.
SessionKept == ~CleanSession /\ ~LosesSession

\* A CONNACK without a session is on its way.
NewSessionComes ==
  \E k \in 1 .. Len(Coming) :
    Coming[k].type = "CONNACK" /\ ~Coming[k].sessionPresent /\ Coming[k].ok

\* PUBREL stands for a message that the broker has passed on in its session, and no
\* CONNACK that would drop it can come.
ReleasesKnown ==
  /\ \A i \in 1 .. MaxId : Has(outbox.q, {"PUBREL"}, i) => passedOn[i] > 0 /\ session.present
  /\ \A i \in 1 .. MaxId : Has(Coming, {"PUBREC"}, i) => session.present
  /\ NewSessionComes => \A i \in 1 .. MaxId : ~Has(outbox.q, {"PUBREL"}, i)

\* A CONNACK without a session comes only from a broker that has none.
LEMMA NewSessionFrom ==
  ASSUME SessionKept, Base, Base', ClientKinds \/ BrokerKinds, NewSessionComes'
  PROVE  \/ NewSessionComes /\ ~(\E p \in BrokerPacket : Handles(p))
         \/ /\ ~session.present /\ Greets
            /\ ~(\E types : \E i : Has(Coming', types, i) /\ "CONNACK" \notin types)
<1> USE DEF Base
<1>1. PICK k \in 1 .. Len(Coming') :
        Coming'[k].type = "CONNACK" /\ ~Coming'[k].sessionPresent /\ Coming'[k].ok
  BY DEF NewSessionComes
<1>2. CASE ClientKinds
  <2>1. ~(\E p \in BrokerPacket : Handles(p))
    BY <1>1, Handled
  <2>2. \E j \in 1 .. Len(Coming) : Coming'[k] = Coming[j]
    <3>1. Coming \in Seq(BrokerPacket) /\ Coming' \in Seq(BrokerPacket)
      BY Sequences, ConcatProperties DEF TypeInv, IncomingTyped, Coming
    <3>2. Piece(Coming', Coming)
      BY <1>2, ClientEffects
    <3>3. \A n \in 1 .. Len(Coming') : \E j \in 1 .. Len(Coming) : Coming'[n] = Coming[j]
      BY <3>1, <3>2, PieceHas
    <3> QED BY <3>3
  <2> QED BY <1>1, <2>1, <2>2 DEF NewSessionComes
<1>3. CASE Greets
  <2>1. PICK present \in BOOLEAN :
          /\ IF present THEN session.present /\ session' = session
             ELSE /\ ~session.present \/ CleanSession \/ LosesSession
                  /\ session'.present /\ session'.recv = {} /\ session'.out = <<>>
          /\ \A n \in 1 .. Len(Coming') :
               \/ n = 1 /\ Coming'[n] = Connack(TRUE, present)
               \/ n > 1 /\ n - 1 \in 1 .. Len(session'.out)
                  /\ Coming'[n] = Resent(session'.out[n - 1])
    BY <1>3 DEF Greets
  <2>2. k = 1
    BY <1>1 DEF ConnackFirst
  <2>3. Connack(TRUE, present).sessionPresent = present
    BY DEF Connack
  <2>4. present = FALSE
    <3>1. 1 \in 1 .. Len(Coming') /\ ~(1 > 1)
      BY <1>1, <2>2
    <3>2. Coming'[1] = Connack(TRUE, present)
      BY <2>1, <3>1
    <3>3. ~Connack(TRUE, present).sessionPresent
      BY <1>1, <2>2, <3>2, Zenon
    <3>4. ~present
      BY <2>3, <3>3, Zenon
    <3> QED BY <2>1, <3>4
  <2>5. ~session.present /\ session'.out = <<>>
    BY <2>1, <2>4 DEF SessionKept
  <2>6. ASSUME NEW types, NEW i, Has(Coming', types, i), "CONNACK" \notin types PROVE FALSE
    BY <1>3, <2>5, <2>6, GreetsHas
  <2> QED BY <1>3, <2>5, <2>6
<1>4. ASSUME NEW x, Brings(x), x.type = "CONNACK" => ~x.ok,
             \A p \in BrokerPacket : Handles(p) => Coming' = Tail(Coming)
      PROVE  NewSessionComes /\ ~(\E p \in BrokerPacket : Handles(p))
  <2>1. ~(\E p \in BrokerPacket : Handles(p))
    BY <1>1, Handled
  <2>2. k \in 1 .. Len(Coming) /\ Coming'[k] = Coming[k]
    BY <1>1, <1>4, BringsElements
  <2> QED BY <1>1, <2>1, <2>2 DEF NewSessionComes
<1>5. CASE BrokerKinds /\ ~Greets
  <2>1. \A p \in BrokerPacket : Handles(p) => Coming' = Tail(Coming)
    BY DEF Handles
  <2>2. \A t, i : Answer(t, i).type = t
    BY DEF Answer
  <2>3. \A f : Message(f, FALSE).type = "PUBLISH"
    BY DEF Message
  <2>4. \/ Coming' = Coming
        \/ \E x : Brings(x) /\ (x.type = "CONNACK" => ~x.ok)
    <3>1. CASE Chats
      BY <3>1 DEF Chats
    <3>2. CASE TakesPublish
      BY <2>2, <3>2 DEF TakesPublish
    <3>3. CASE TakesPubrel \/ TakesAnswer \/ TakesPubrec
      BY <2>2, <3>3 DEF TakesPubrel, TakesAnswer, TakesPubrec
    <3>4. CASE Publishes
      BY <2>3, <3>4 DEF Publishes, PublishesAs
    <3> QED BY <1>5, <3>1, <3>2, <3>3, <3>4 DEF BrokerKinds
  <2>5. Coming' = Coming => NewSessionComes /\ ~(\E p \in BrokerPacket : Handles(p))
    BY <1>1, Handled DEF NewSessionComes
  <2> QED BY <1>4, <2>1, <2>4, <2>5
<1> QED BY <1>2, <1>3, <1>5

LEMMA StepReleasesKnown ==
  ASSUME SessionKept, Base, Base', Known, ReleasesKnown, ClientKinds \/ BrokerKinds
  PROVE  ReleasesKnown'
<1> USE DEF Base
<1>0. session.present => session'.present
  BY ClientEffects, BrokerEffects DEF Held
<1>1. ASSUME NEW i \in 1 .. MaxId, Has(outbox'.q, {"PUBREL"}, i)
      PROVE  \/ Has(outbox.q, {"PUBREL"}, i)
             \/ Has(Coming, {"PUBREC"}, i) /\ \E p \in BrokerPacket : Handles(p)
  <2>1. CASE ClientKinds
    <3>1. ASSUME NEW x, Comes(x), x.type = "PUBREL", x.id = i
          PROVE  Has(Coming, {"PUBREC"}, i) /\ \E p \in BrokerPacket : Handles(p)
      <4>1. Arrives("PUBREC", i)
        BY <3>1 DEF Comes, Asks
      <4> QED BY <4>1, ArrivesHas DEF Arrives
    <3> QED BY <1>1, <2>1, <3>1, OutboxHas
  <2>2. CASE BrokerKinds
    BY <1>1, <2>2, BrokerEffects DEF Untouched
  <2> QED BY <2>1, <2>2
<1>2. ASSUME NEW i \in 1 .. MaxId, Has(outbox'.q, {"PUBREL"}, i)
      PROVE  passedOn'[i] > 0 /\ session'.present
  <2>1. Has(Coming, {"PUBREC"}, i) => Has(Coming, {"PUBACK", "PUBREC"}, i)
    BY DEF Has
  <2>2. passedOn[i] > 0 /\ session.present
    BY <1>1, <1>2, <2>1 DEF ReleasesKnown, Known, PassedOnKnown
  <2> QED BY <1>0, <2>2, PassedOnGrows
<1>3. ASSUME NEW i \in 1 .. MaxId, Has(Coming', {"PUBREC"}, i) PROVE session'.present
  <2>1. CASE ClientKinds
    <3>1. Has(Coming, {"PUBREC"}, i)
      BY <1>3, <2>1, ClientEffects, PieceKeepsHas
    <3> QED BY <1>0, <3>1 DEF ReleasesKnown
  <2>2. CASE Greets \/ TakesPublish \/ Publishes
    BY <1>0, <2>2 DEF Greets, TakesPublish, Publishes, PublishesAs
  <2>3. CASE Chats \/ TakesPubrel \/ TakesAnswer \/ TakesPubrec
    <3>1. \A t, j : Answer(t, j).type = t
      BY DEF Answer
    <3>2. Coming' = Coming \/ \E x : Brings(x) /\ x.type # "PUBREC"
      BY <2>3, <3>1 DEF Chats, TakesPubrel, TakesAnswer, TakesPubrec
    <3>3. Has(Coming, {"PUBREC"}, i)
      BY <1>3, <3>2, BringsHas
    <3> QED BY <1>0, <3>3 DEF ReleasesKnown
  <2> QED BY <2>1, <2>2, <2>3 DEF BrokerKinds
<1>4. ASSUME NewSessionComes', NEW i \in 1 .. MaxId, Has(outbox'.q, {"PUBREL"}, i) PROVE FALSE
  <2>1. CASE NewSessionComes /\ ~(\E p \in BrokerPacket : Handles(p))
    BY <1>1, <1>4, <2>1 DEF ReleasesKnown
  <2>2. CASE ~session.present
    BY <1>1, <1>4, <2>2 DEF ReleasesKnown
  <2> QED BY <1>4, <2>1, <2>2, NewSessionFrom
<1> QED BY <1>2, <1>3, <1>4 DEF ReleasesKnown

ExchangesKept == UnsubIdsOwn /\ ~SessionDeleted => ExchangeIsKept

LEMMA StepExchangesKept ==
  ASSUME SessionKept, ~MayFail, Base, Base', Known, ReleasesKnown, ExchangesKept, [Next]_vars
  PROVE  ExchangesKept'
<1> DEFINE Kept1(p) == Has(outbox.q, {"PUBLISH"}, p.id) \/ Has(outbox.q, {"PUBREL"}, p.id)
           Kept2(p) == Has(outbox'.q, {"PUBLISH"}, p.id) \/ Has(outbox'.q, {"PUBREL"}, p.id)
<1>1. SUFFICES ASSUME UnsubIdsOwn', ~SessionDeleted', NEW p \in Published'
               PROVE  (p.id \in hist'.acked /\ passedOn'[p.id] > 0) \/ Kept2(p)
  <2>1. \A p : Kept2(p) => \E r \in Range(outbox'.q) : r.type \in {"PUBLISH", "PUBREL"} /\ r.id = p.id
    <3>1. \A k \in 1 .. Len(outbox'.q) : outbox'.q[k] \in Range(outbox'.q)
      BY DEF Base, TypeInv, OutboxTyped, Box, Range
    <3> QED BY <3>1 DEF Has
  <2> QED BY <2>1 DEF ExchangesKept, ExchangeIsKept
<1>2. ClientKinds \/ BrokerKinds
  BY StepIs
<1>3. p.id \in 1 .. MaxId /\ (p \in Published \/ Kept2(p))
  BY <1>2, NewlyPublished
<1>4. SUFFICES ASSUME p \in Published
               PROVE  (p.id \in hist'.acked /\ passedOn'[p.id] > 0) \/ Kept2(p)
  BY <1>3
<1>5. UnsubIdsOwn /\ ~SessionDeleted /\ left["clearAll"] = Budget["clearAll"]
  BY <1>1, <1>2, AskedGrows, StillAllowed DEF Base
<1>6. (p.id \in hist.acked /\ passedOn[p.id] > 0) \/ Kept1(p)
  <2>1. \A r \in Range(outbox.q) : \E k \in 1 .. Len(outbox.q) : r = outbox.q[k]
    BY DEF Base, TypeInv, OutboxTyped, Box, Range
  <2> QED BY <1>4, <1>5, <2>1 DEF ExchangesKept, ExchangeIsKept, Has
<1>7. p.id \in hist.acked /\ passedOn[p.id] > 0 => p.id \in hist'.acked /\ passedOn'[p.id] > 0
  BY <1>2, <1>3, PassedOnGrows, AskedGrows DEF Base
<1>8. Kept1(p) => (p.id \in hist'.acked /\ passedOn'[p.id] > 0) \/ Kept2(p)
  <2> SUFFICES ASSUME Kept1(p)
               PROVE  (p.id \in hist'.acked /\ passedOn'[p.id] > 0) \/ Kept2(p)
    OBVIOUS
  <2>1. CASE ClientKinds
    <3>1. passedOn[p.id] > 0 => passedOn'[p.id] > 0
      BY <1>2, <1>3, PassedOnGrows DEF Base
    <3>2. Has(outbox.q, {"PUBREL"}, p.id) => ~NewSession /\ passedOn'[p.id] > 0
      <4> SUFFICES ASSUME Has(outbox.q, {"PUBREL"}, p.id) PROVE ~NewSession /\ passedOn'[p.id] > 0
        OBVIOUS
      <4>1. passedOn[p.id] > 0 /\ ~NewSessionComes
        BY <1>3 DEF ReleasesKnown
      <4>2. NewSession => NewSessionComes
        BY Handled DEF NewSession, NewSessionComes, Base
      <4> QED BY <3>1, <4>1, <4>2
    <3>3. Has(outbox.q, {"PUBLISH"}, p.id) =>
            Kept2(p) \/ (p.id \in hist'.acked /\ passedOn'[p.id] > 0)
      BY <1>1, <1>4, <1>5, <2>1, <3>1, PacketGone
    <3>4. Has(outbox.q, {"PUBREL"}, p.id) =>
            Kept2(p) \/ (p.id \in hist'.acked /\ passedOn'[p.id] > 0)
      BY <1>1, <1>4, <1>5, <2>1, <3>2, PacketGone
    <3> QED BY <3>3, <3>4
  <2>2. CASE BrokerKinds
    BY <2>2, BrokerEffects DEF Untouched, Base
  <2> QED BY <1>2, <2>1, <2>2
<1> QED BY <1>6, <1>7, <1>8

LEMMA InitReleasesKnown == Init => ReleasesKnown /\ ExchangesKept
<1> SUFFICES ASSUME Init PROVE ReleasesKnown /\ ExchangesKept
  OBVIOUS
<1>1. rx = <<>> /\ s2c = <<>> /\ outbox = EmptyOutbox
  BY DEF Init, ClientInit
<1>2. Coming = <<>> /\ outbox.q = <<>>
  BY <1>1, ConcatProperties DEF Coming, EmptyOutbox
<1>3. \A types, i : ~Has(<<>>, types, i)
  BY DEF Has
<1>4. ~NewSessionComes
  BY <1>2 DEF NewSessionComes
<1> QED BY <1>2, <1>3, <1>4, InitPublished DEF ReleasesKnown, ExchangesKept, ExchangeIsKept

\* Where both sides keep the session and memory suffices, an exchange that publish()
\* has begun stays in the outbox, as PUBLISH or PUBREL, until it is reported by
\* onPublish, and it is reported only when the broker has passed the message on
\* (MqttClient.cpp:562-615, 643-670, 718-734).
THEOREM ExchangesAreKept ==
  ASSUME SessionKept, ~MayFail
  PROVE  Spec => [](UnsubIdsOwn /\ ~SessionDeleted => ExchangeIsKept)
<1>1. Init => ReleasesKnown /\ ExchangesKept
  BY InitReleasesKnown
<1>2. Spec => [](Base /\ Known)
  BY KnownInvariant
<1>3. Base /\ Base' /\ Known /\ ReleasesKnown /\ ExchangesKept /\ [Next]_vars
        => ReleasesKnown' /\ ExchangesKept'
  BY StepIs, StepReleasesKnown, StepExchangesKept
<1>4. ExchangesKept <=> (UnsubIdsOwn /\ ~SessionDeleted => ExchangeIsKept)
  BY DEF ExchangesKept
<1> QED BY <1>1, <1>2, <1>3, <1>4, PTL DEF Spec

\* Only the case disconnectingMqtt1 of loop() says goodbye, with an empty outbox.
LEMMA GoodbyeWhenEmpty ==
  ASSUME Base, [Next]_vars, state # state', state' = "disconnectingMqtt2"
  PROVE  outbox.q = <<>>
<1>1. CASE ClientStep
  <2>1. CASE AppNext
    <3>1. state' \in {state, "connectingTcp1", "disconnectingMqtt1", "disconnectingTcp1"}
      BY <2>1 DEF AppNext, Call, Act, Connect, Disconnect, Publish, Subscribe, Unsubscribe,
                  ClearQueueCall, Request, client
    <3> QED BY <3>1
  <2>2. CASE Dispatch \/ Connecting \/ TimePasses \/ Callbacks \/ Timers
    <3>1. state' \in {state, "connectingMqtt", "disconnectingTcp1"}
      BY <2>2 DEF Dispatch, Connecting, TcpConnectFails, TcpConnected, CheckTransport,
         TransportLost, TimePasses, Callbacks, CallbackReturns, ConnectCallbackReturns,
         DisconnectCallbackReturns, Timers, CheckPing, Retransmit, NoRetransmit, Fails, client
    <3> QED BY <3>1
  <2>3. CASE SayGoodbye
    BY <2>3 DEF SayGoodbye
  <2>4. CASE StopTransport \/ Disconnected
    BY <2>4 DEF StopTransport, Disconnected
  <2>5. CASE Sending
    BY <2>5 DEF Sending, SendPacket, SendFails, NothingToSend, AdvanceState, client
  <2>6. CASE Receiving
    <3>1. state' \in {state, "connected", "disconnectingTcp1"}
      <4>1. CASE Read \/ ExpectedConnack \/ ProtocolError \/ OnConnack \/ OnConnackRefused
                 \/ OnPingresp
        BY <4>1 DEF Read, ExpectedConnack, ProtocolError, OnConnack, OnConnackRefused,
                    OnPingresp, Fails, AdvanceState
      <4>2. OutboxOnly => state' = state
        BY DEF OutboxOnly
      <4> QED BY <2>6, <4>1, <4>2 DEF Receiving, OnPublish, OnPuback, OnPubcomp, OnPubrec,
              OnPubrel, OnSuback, OnUnsuback, Finish, Reply, Settle
    <3> QED BY <3>1
  <2> QED BY <1>1, <2>1, <2>2, <2>3, <2>4, <2>5, <2>6
          DEF ClientStep, LoopNext, Disconnecting
<1>2. CASE ConnectStep \/ BrokerStep \/ LossStep \/ UNCHANGED vars
  BY <1>2 DEF ConnectStep, TcpConnect, BrokerStep, LossStep, vars, clientVars, client
<1> QED BY <1>1, <1>2 DEF Next

LEMMA FlushedBeforeGoodbye ==
  ASSUME Base, ExchangesKept, UnsubIdsOwn, ~SessionDeleted, [Next]_vars,
         state # state', state' = "disconnectingMqtt2"
  PROVE  \A p \in Published : p.id \in hist.acked
<1>1. outbox.q = <<>>
  BY GoodbyeWhenEmpty
<1>2. Range(outbox.q) = {}
  BY <1>1 DEF Range
<1> QED BY <1>2 DEF ExchangesKept, ExchangeIsKept

\* Under the same conditions disconnect() says goodbye only when all that was
\* published is acknowledged (MqttClient.cpp:281-292).
THEOREM DisconnectFlushes ==
  ASSUME SessionKept, ~MayFail
  PROVE  Spec /\ [](UnsubIdsOwn /\ ~SessionDeleted) => CleanDisconnectFlushes
<1> DEFINE Flush == state # state' /\ state' = "disconnectingMqtt2" =>
                      \A p \in Published : p.id \in hist.acked
<1>1. Base /\ ExchangesKept /\ UnsubIdsOwn /\ ~SessionDeleted /\ [Next]_vars => Flush
  BY FlushedBeforeGoodbye
<1>2. Spec => []ExchangesKept
  BY ExchangesAreKept DEF ExchangesKept
<1>3. Spec => []Base
  BY BaseInvariant
<1> HIDE DEF Flush
<1>4. Spec /\ [](UnsubIdsOwn /\ ~SessionDeleted) => [][Flush]_vars
  BY <1>1, <1>2, <1>3, PTL DEF Spec
<1> QED BY <1>4 DEF CleanDisconnectFlushes, Flush
-----------------------------------------------------------------------------
(* What the broker considers finished was received *)

Answers1 == {"PUBACK", "PUBREC", "PUBCOMP"}
WasReceived(m) == \E q \in 1 .. 2 : hist.got[<<m, q>>] > 0

\* Answers are given to messages that onMessage has seen; ids are those of messages.
AnswersKnown ==
  /\ \A m \in BrokerMsg :
       Has(outbox.q, Answers1, m) \/ Has(wire.sent, Answers1, m) => WasReceived(m)
  /\ \A k \in 1 .. Len(Coming) :
       Coming[k].type = "PUBLISH" /\ Coming[k].qos > 0 => Coming[k].id = Coming[k].msg
  /\ \A k \in 1 .. Len(session.out) : session.out[k].id = session.out[k].msg
  /\ ~session.present => session.out = <<>>

\* onMessage gets a message of QoS 1 or 2 only by handling it.
LEMMA GotSame ==
  ASSUME TypeInv, TypeInv', ClientKinds \/ BrokerKinds
  PROVE  \/ \A m \in Msg : \A q \in 1 .. 2 : hist'.got[<<m, q>>] = hist.got[<<m, q>>]
         \/ Delivers
<1> DEFINE Same1 == \A m \in Msg : \A q \in 1 .. 2 : hist'.got[<<m, q>>] = hist.got[<<m, q>>]
<1>1. BrokerKinds => Same1
  BY BrokerEffects DEF Untouched
<1>2. hist'.got = hist.got => Same1
  OBVIOUS
<1>3. Told => Same1
  BY DEF Told
<1> HIDE DEF Same1
<1>4. ClientKinds => Same1 \/ Delivers
  BY <1>2, <1>3 DEF ClientKinds, Calm, Writes, Asks, ClearsAll, NewSession, Continues,
                    Completes, Unsubscribed
<1> QED BY <1>1, <1>4 DEF Same1

LEMMA GotGrows ==
  ASSUME TypeInv, TypeInv', ClientKinds \/ BrokerKinds
  PROVE  \A m \in Msg : \A q \in 1 .. 2 : hist'.got[<<m, q>>] >= hist.got[<<m, q>>]
<1>0. hist.got \in [Msg \X (0 .. 2) -> Nat]
  BY DEF TypeInv, HistTyped
<1>1. CASE \A m \in Msg : \A q \in 1 .. 2 : hist'.got[<<m, q>>] = hist.got[<<m, q>>]
  <2>1. \A m \in Msg : \A q \in 1 .. 2 : hist.got[<<m, q>>] \in Nat
    BY <1>0
  <2>2. \A n \in Nat : n >= n
    OBVIOUS
  <2> QED BY <1>1, <2>1, <2>2
<1>2. ASSUME NEW p \in BrokerPacket, Delivering(p)
      PROVE  \A m \in Msg : \A q \in 1 .. 2 : hist'.got[<<m, q>>] >= hist.got[<<m, q>>]
  <2>1. hist'.got = hist.got \/ hist'.got = [hist.got EXCEPT ![<<p.msg, p.qos>>] = @ + 1]
    BY <1>2 DEF Delivering
  <2> QED BY <1>0, <2>1
<1> QED BY <1>1, <1>2, GotSame DEF Delivers

LEMMA ReceivedStays ==
  ASSUME TypeInv, TypeInv', ClientKinds \/ BrokerKinds, NEW m \in BrokerMsg, WasReceived(m)
  PROVE  WasReceived(m)'
<1>1. m \in Msg
  BY BrokerAssumption
<1>2. \A q \in 1 .. 2 : hist'.got[<<m, q>>] >= hist.got[<<m, q>>]
  BY <1>1, GotGrows
<1>3. \A q \in 1 .. 2 : hist.got[<<m, q>>] \in Nat /\ hist'.got[<<m, q>>] \in Nat
  BY <1>1 DEF TypeInv, HistTyped
<1> QED BY <1>2, <1>3 DEF WasReceived

\* A packet of the broker that it did not resend.
LEMMA BrokerBrings ==
  ASSUME BrokerKinds, ~Greets
  PROVE  \/ Coming' = Coming
         \/ \E x \in BrokerPacket : Brings(x) /\ x.type # "PUBLISH"
         \/ \E m \in unsent, q \in OutQos : \E f :
              PublishesAs(m, q, f) /\ Brings(Message(f, FALSE))
<1>1. \A t, i : Answer(t, i).type = t
  BY DEF Answer
<1>6. \A x : Brings(x) /\ x.type # "PUBLISH" =>
        \E y \in BrokerPacket : Brings(y) /\ y.type # "PUBLISH"
  BY DEF Brings
<1>7. \A i : /\ Answer("PUBACK", i).type # "PUBLISH" /\ Answer("PUBREC", i).type # "PUBLISH"
             /\ Answer("PUBCOMP", i).type # "PUBLISH" /\ Answer("PUBREL", i).type # "PUBLISH"
  BY <1>1
<1>2. CASE Chats
  BY <1>2 DEF Chats, Brings
<1>3. CASE TakesPublish
  <2>1. \/ Coming' = Coming
        \/ \E i : Brings(Answer("PUBACK", i)) \/ Brings(Answer("PUBREC", i))
    BY <1>3 DEF TakesPublish
  <2> QED BY <1>6, <1>7, <2>1
<1>4. CASE TakesPubrel \/ TakesAnswer \/ TakesPubrec
  <2>1. \/ Coming' = Coming
        \/ \E i : Brings(Answer("PUBCOMP", i)) \/ Brings(Answer("PUBREL", i))
    BY <1>4 DEF TakesPubrel, TakesAnswer, TakesPubrec
  <2> QED BY <1>6, <1>7, <2>1
<1>5. CASE Publishes
  BY <1>5 DEF Publishes, PublishesAs
<1> QED BY <1>2, <1>3, <1>4, <1>5 DEF BrokerKinds

\* The messages of the session after a step of the broker.
LEMMA SessionOut ==
  ASSUME SessionKept, TypeInv, TypeInv', BrokerKinds, ~session.present => session.out = <<>>
  PROVE  \/ session'.out = session.out
         \/ \E p \in ClientPacket :
              /\ Takes(p) /\ p.type \in {"PUBACK", "PUBCOMP"}
              /\ session'.out = Unfinished(p.id)
         \/ \E p \in ClientPacket :
              /\ Takes(p) /\ p.type = "PUBREC"
              /\ session'.out = Released(p.id)
         \/ \E m \in unsent, q \in 1 .. 2, f \in Flight :
              /\ PublishesAs(m, q, f) /\ session'.out = Append(session.out, f)
              /\ session.present
<1>0. session \in [present : BOOLEAN, recv : SUBSET (1 .. MaxId), out : Seq(Flight)]
  BY DEF TypeInv, BrokerTyped
<1>1. CASE Greets
  BY <1>1 DEF Greets, SessionKept
<1>2. CASE Chats
  BY <1>2 DEF Chats, Held
<1>3. CASE TakesPublish \/ TakesPubrel
  BY <1>0, <1>3 DEF TakesPublish, TakesPubrel
<1>4. CASE TakesAnswer
  BY <1>0, <1>4 DEF TakesAnswer
<1>5. CASE TakesPubrec
  BY <1>0, <1>5 DEF TakesPubrec
<1>6. CASE Publishes
  <2>1. PICK m \in unsent, q \in OutQos : \E f : PublishesAs(m, q, f)
    BY <1>6 DEF Publishes
  <2>4. PICK f : PublishesAs(m, q, f)
    BY <2>1
  <2>2. CASE q = 0
    BY <2>4, <2>2 DEF PublishesAs
  <2>3. CASE q # 0
    <3>3. q \in 1 .. 2
      BY <2>3, BrokerAssumption
    <3>1. f \in Flight /\ session' = [session EXCEPT !.out = Append(@, f)] /\ session.present
      BY <2>4, <2>3 DEF PublishesAs
    <3>2. session'.out = Append(session.out, f)
      <4> DEFINE a == Append(session.out, f)
      <4>1. session' = [session EXCEPT !.out = a]
        BY <3>1
      <4> HIDE DEF a
      <4>2. session'.out = a
        BY <1>0, <4>1
      <4> QED BY <4>2 DEF a
    <3> QED BY <2>4, <3>1, <3>2, <3>3
  <2> QED BY <2>2, <2>3
<1> QED BY <1>1, <1>2, <1>3, <1>4, <1>5, <1>6 DEF BrokerKinds

\* Unfinished drops the messages with the id and no others; Released marks them.
LEMMA UnfinishedOut ==
  ASSUME TypeInv, NEW i
  PROVE  /\ \A k \in 1 .. Len(Unfinished(i)) :
              \E j \in 1 .. Len(session.out) : Unfinished(i)[k] = session.out[j]
         /\ \A j \in 1 .. Len(session.out) : session.out[j].id # i =>
              \E k \in 1 .. Len(Unfinished(i)) : Unfinished(i)[k] = session.out[j]
<1> DEFINE kept == {session.out[k] : k \in {n \in 1 .. Len(session.out) : session.out[n].id # i}}
<1>1. session.out \in Seq(Flight)
  BY DEF TypeInv, BrokerTyped
<1>2. Unfinished(i) = Filter(session.out, kept)
  BY DEF Unfinished
<1>3. /\ \A x \in kept : \E j \in 1 .. Len(session.out) : x = session.out[j]
      /\ \A j \in 1 .. Len(session.out) : session.out[j].id # i => session.out[j] \in kept
  OBVIOUS
<1> HIDE DEF kept
<1>4. /\ \A k \in 1 .. Len(Filter(session.out, kept)) : Filter(session.out, kept)[k] \in kept
      /\ \A j \in 1 .. Len(session.out) : session.out[j] \in kept =>
           \E k \in 1 .. Len(Filter(session.out, kept)) : Filter(session.out, kept)[k] = session.out[j]
  BY <1>1, FilterHas
<1> QED BY <1>2, <1>3, <1>4

LEMMA ReleasedOut ==
  ASSUME TypeInv, NEW i
  PROVE  /\ Len(Released(i)) = Len(session.out)
         /\ \A k \in 1 .. Len(session.out) :
              Released(i)[k] = [session.out[k] EXCEPT !.released = @ \/ session.out[k].id = i]
<1>1. session.out \in Seq(Flight)
  BY DEF TypeInv, BrokerTyped
<1>2. Released(i) = [k \in 1 .. Len(session.out) |->
                       [session.out[k] EXCEPT !.released = @ \/ session.out[k].id = i]]
  BY <1>1 DEF Released
<1> QED BY <1>1, <1>2

LEMMA ReleasedSame ==
  ASSUME TypeInv, NEW i
  PROVE  /\ Len(Released(i)) = Len(session.out)
         /\ \A k \in 1 .. Len(session.out) :
              /\ Released(i)[k].id = session.out[k].id
              /\ Released(i)[k].msg = session.out[k].msg
              /\ Released(i)[k].qos = session.out[k].qos
              /\ session.out[k].released \/ session.out[k].id = i => Released(i)[k].released
<1>1. ASSUME NEW k \in 1 .. Len(session.out)
      PROVE  /\ Released(i)[k].id = session.out[k].id
             /\ Released(i)[k].msg = session.out[k].msg
             /\ Released(i)[k].qos = session.out[k].qos
             /\ session.out[k].released \/ session.out[k].id = i => Released(i)[k].released
  <2> DEFINE f == session.out[k]
             b == f.released \/ f.id = i
             g == [f EXCEPT !.released = b]
  <2>1. f \in Flight
    BY DEF TypeInv, BrokerTyped
  <2>2. Released(i)[k] = g
    BY ReleasedOut
  <2> HIDE DEF f
  <2>3. g.id = f.id /\ g.msg = f.msg /\ g.qos = f.qos
    BY <2>1 DEF Flight
  <2>4. g.released = b
    <3> HIDE DEF b
    <3> QED BY <2>1 DEF Flight
  <2>5. b => Released(i)[k].released
    <3> HIDE DEF g
    <3> QED BY <2>2, <2>4, Zenon
  <2> QED BY <2>2, <2>3, <2>5 DEF f
<1> QED BY <1>1, ReleasedOut

LEMMA StepAnswersKnown ==
  ASSUME SessionKept, ~ReusesIds, Base, Base', AnswersKnown, ClientKinds \/ BrokerKinds
  PROVE  AnswersKnown'
<1> USE DEF Base
<1>0. /\ session.out \in Seq(Flight) /\ session'.out \in Seq(Flight)
      /\ Coming \in Seq(BrokerPacket) /\ Coming' \in Seq(BrokerPacket)
  BY Sequences, ConcatProperties DEF TypeInv, BrokerTyped, IncomingTyped, Coming
<1>1. ASSUME NEW m \in BrokerMsg,
             Has(outbox'.q, Answers1, m) \/ Has(wire'.sent, Answers1, m)
      PROVE  WasReceived(m)'
  <2>0. m # 0 /\ m \in Msg
    BY BrokerAssumption
  <2>1. Has(outbox.q, Answers1, m) \/ Has(wire.sent, Answers1, m) => WasReceived(m)'
    BY ReceivedStays DEF AnswersKnown
  <2>2. ASSUME NEW p \in BrokerPacket, Delivering(p), p.id = m PROVE WasReceived(m)'
    <3>1. p.type = "PUBLISH" /\ p.qos \in 1 .. 2 /\ Handles(p)
      BY <2>2 DEF Delivering
    <3>2. p.msg = m
      <4>1. 1 \in 1 .. Len(Coming) /\ Coming[1] = p
        BY <3>1, Handled
      <4>2. p.qos > 0
        BY <3>1
      <4> QED BY <2>2, <3>1, <4>1, <4>2 DEF AnswersKnown
    <3>3. CASE p.qos = 2 /\ Has(outbox.q, {"PUBREC"}, p.id)
      BY <2>1, <2>2, <3>3 DEF Has, Answers1
    <3>4. CASE ~(p.qos = 2 /\ Has(outbox.q, {"PUBREC"}, p.id))
      <4>1. hist'.got = [hist.got EXCEPT ![<<p.msg, p.qos>>] = @ + 1]
        BY <2>2, <3>4 DEF Delivering
      <4>2. hist.got \in [Msg \X (0 .. 2) -> Nat]
        BY DEF TypeInv, HistTyped
      <4>3. hist'.got[<<m, p.qos>>] > 0
        BY <2>0, <3>1, <3>2, <4>1, <4>2
      <4> QED BY <3>1, <4>3 DEF WasReceived
    <3> QED BY <3>3, <3>4
  <2>3. ASSUME ClientKinds, Has(outbox'.q, Answers1, m)
        PROVE  Has(outbox.q, Answers1, m) \/ WasReceived(m)'
    <3>1. ASSUME NEW x, Comes(x), x.type \in Answers1, x.id = m
          PROVE  Has(outbox.q, Answers1, m) \/ WasReceived(m)'
      <4>1. x.type = "PUBCOMP" /\ Has(outbox.q, {"PUBREC"}, m) => Has(outbox.q, Answers1, m)
        BY DEF Has, Answers1
      <4>2. \/ \E p \in BrokerPacket : Delivering(p) /\ x.id = p.id
            \/ x.type = "PUBCOMP" /\ Has(outbox.q, {"PUBREC"}, x.id)
        BY <3>1 DEF Comes, Asks, Answers1
      <4> QED BY <2>2, <3>1, <4>1, <4>2
    <3> QED BY <2>0, <2>3, <3>1, OutboxHas
  <2>4. BrokerKinds => outbox' = outbox
    BY BrokerEffects DEF Untouched
  <2>5. Has(wire'.sent, Answers1, m) => Has(outbox.q, Answers1, m) \/ Has(wire.sent, Answers1, m)
    BY WireHas
  <2> QED BY <1>1, <2>1, <2>3, <2>4, <2>5
<1>2. ASSUME NEW k \in 1 .. Len(session'.out) PROVE session'.out[k].id = session'.out[k].msg
  <2>1. \A j \in 1 .. Len(session.out) : session.out[j].id = session.out[j].msg
    BY DEF AnswersKnown
  <2>2. CASE ClientKinds
    BY <2>1, <2>2, ClientEffects DEF Held
  <2>3. CASE session'.out = session.out
    BY <2>1, <2>3
  <2>4. ASSUME NEW i, session'.out = Unfinished(i) PROVE session'.out[k].id = session'.out[k].msg
    BY <2>1, <2>4, UnfinishedOut
  <2>5. ASSUME NEW i, session'.out = Released(i) PROVE session'.out[k].id = session'.out[k].msg
    <3>1. Len(session'.out) = Len(session.out)
      BY <2>5, ReleasedSame
    <3>2. /\ session'.out[k].id = session.out[k].id
          /\ session'.out[k].msg = session.out[k].msg
      BY <2>5, <3>1, ReleasedSame
    <3> QED BY <2>1, <3>1, <3>2
  <2>6. ASSUME NEW m, NEW q \in 1 .. 2, NEW f \in Flight, PublishesAs(m, q, f),
               session'.out = Append(session.out, f)
        PROVE  session'.out[k].id = session'.out[k].msg
    <3>1. f.id = m /\ f.msg = m
      BY <2>6 DEF PublishesAs
    <3>2. session'.out[k] = f \/ (k \in 1 .. Len(session.out) /\ session'.out[k] = session.out[k])
      BY <1>0, <2>6, AppendElements
    <3> QED BY <2>1, <3>1, <3>2
  <2>7. CASE BrokerKinds
    BY <2>3, <2>4, <2>5, <2>6, <2>7, SessionOut DEF AnswersKnown
  <2> QED BY <2>2, <2>7
<1>3. ASSUME NEW k \in 1 .. Len(Coming'), Coming'[k].type = "PUBLISH", Coming'[k].qos > 0
      PROVE  Coming'[k].id = Coming'[k].msg
  <2>1. ASSUME NEW j \in 1 .. Len(Coming), Coming'[k] = Coming[j]
        PROVE  Coming'[k].id = Coming'[k].msg
    BY <1>3, <2>1 DEF AnswersKnown
  <2>2. CASE ClientKinds
    BY <1>0, <2>1, <2>2, ClientEffects, PieceHas
  <2>3. CASE Greets
    <3>1. \/ Coming'[k].type = "CONNACK"
          \/ k - 1 \in 1 .. Len(session'.out) /\ Coming'[k] = Resent(session'.out[k - 1])
      BY <2>3 DEF Greets, Connack
    <3>2. \A f : Resent(f).type = "PUBLISH" => Resent(f).id = f.id /\ Resent(f).msg = f.msg
      BY DEF Resent, Answer, Message
    <3> QED BY <1>2, <1>3, <3>1, <3>2
  <2>4. ASSUME NEW m, NEW q, NEW f, PublishesAs(m, q, f), Brings(Message(f, FALSE))
        PROVE  Coming'[k].id = Coming'[k].msg
    <3>1. /\ Message(f, FALSE).qos = q /\ Message(f, FALSE).msg = m
          /\ Message(f, FALSE).id = f.id /\ (q = 0 \/ f.id = m)
      BY <2>4 DEF PublishesAs, Message
    <3>2. CASE k \in 1 .. Len(Coming) /\ Coming'[k] = Coming[k]
      BY <2>1, <3>2
    <3>3. CASE Coming'[k] = Message(f, FALSE)
      <4>1. q # 0
        <5>1. Coming'[k].qos = q
          BY <3>1, <3>3, Zenon
        <5> QED BY <1>3, <5>1
      <4> QED BY <3>1, <3>3, <4>1
    <3> QED BY <2>4, <3>2, <3>3, BringsElements
  <2>5. ASSUME NEW x, Brings(x), x.type # "PUBLISH" PROVE Coming'[k].id = Coming'[k].msg
    BY <1>3, <2>1, <2>5, BringsElements
  <2>6. CASE BrokerKinds /\ ~Greets
    BY <2>1, <2>4, <2>5, <2>6, BrokerBrings
  <2> QED BY <2>2, <2>3, <2>6
<1>4. ASSUME ~session'.present PROVE session'.out = <<>>
  <2>1. ~session.present /\ session.out = <<>>
    BY <1>4, ClientEffects, BrokerEffects DEF Held, AnswersKnown
  <2>2. \A i : session'.out = Unfinished(i) => Len(session'.out) = 0
    <3>1. ASSUME NEW i, session'.out = Unfinished(i) PROVE Len(session'.out) = 0
      <4>1. ~ \E k \in 1 .. Len(session'.out) : TRUE
        BY <2>1, <3>1, UnfinishedOut
      <4> QED BY <1>0, <4>1
    <3> QED BY <3>1
  <2>3. \A i : session'.out = Released(i) => Len(session'.out) = 0
    BY <2>1, ReleasedOut
  <2>4. CASE ClientKinds
    BY <2>1, <2>4, ClientEffects DEF Held
  <2>5. CASE BrokerKinds
    BY <1>0, <2>1, <2>2, <2>3, <2>5, SessionOut, EmptySeq
  <2> QED BY <2>4, <2>5
<1> QED BY <1>1, <1>2, <1>3, <1>4 DEF AnswersKnown

LEMMA StepFinished ==
  ASSUME SessionKept, ~ReusesIds, 0 \notin OutQos, Base, Base', AnswersKnown,
         FinishedWasReceived, ClientKinds \/ BrokerKinds
  PROVE  FinishedWasReceived'
<1> USE DEF Base
<1> SUFFICES ASSUME NEW m \in BrokerMsg, m \notin unsent',
                    ~ \E k \in 1 .. Len(session'.out) : session'.out[k].msg = m
             PROVE  WasReceived(m)'
  <2>1. ASSUME NEW m \in BrokerMsg, WasReceived(m)' PROVE \E q \in 1 .. 2 : hist'.got[<<m, q>>] > 0
    BY <2>1 DEF WasReceived
  <2> QED BY <2>1 DEF FinishedWasReceived
<1>0. session.out \in Seq(Flight) /\ session'.out \in Seq(Flight)
  BY DEF TypeInv, BrokerTyped
<1>1. m \notin unsent => WasReceived(m) \/ \E k \in 1 .. Len(session.out) : session.out[k].msg = m
  BY DEF FinishedWasReceived, WasReceived
<1>2. SUFFICES WasReceived(m) \/
               (m \notin unsent /\ ~ \E k \in 1 .. Len(session.out) : session.out[k].msg = m)
  BY <1>1, ReceivedStays
<1>3. CASE ClientKinds
  BY <1>3, ClientEffects DEF Held
<1>4. CASE BrokerKinds
  <2>1. CASE m \in unsent
    <3>1. unsent' = unsent \/ Publishes
      BY <1>4 DEF BrokerKinds, Greets, Chats, TakesPublish, TakesPubrel, TakesAnswer, TakesPubrec,
                  Held
    <3>2. PICK q \in OutQos : \E f : PublishesAs(m, q, f)
      <4>1. PICK n \in unsent, q \in OutQos : \E f : PublishesAs(n, q, f)
        BY <2>1, <3>1 DEF Publishes
      <4>2. unsent' = unsent \ {n}
        BY <4>1 DEF PublishesAs
      <4> QED BY <2>1, <4>1, <4>2
    <3>3. PICK f : PublishesAs(m, q, f)
      BY <3>2
    <3>4. f \in Flight /\ session' = [session EXCEPT !.out = Append(@, f)] /\ f.msg = m
      BY <3>3 DEF PublishesAs
    <3>5. session'.out = Append(session.out, f)
      <4> DEFINE a == Append(session.out, f)
      <4>1. session' = [session EXCEPT !.out = a]
        BY <3>4
      <4> HIDE DEF a
      <4>2. session'.out = a
        BY <4>1 DEF TypeInv, BrokerTyped
      <4> QED BY <4>2 DEF a
    <3>6. Len(session.out) + 1 \in 1 .. Len(session'.out)
          /\ session'.out[Len(session.out) + 1] = f
      BY <1>0, <3>4, <3>5, AppendElements
    <3> QED BY <3>4, <3>6
  <2>2. CASE m \notin unsent
    <3> SUFFICES ASSUME NEW k \in 1 .. Len(session.out), session.out[k].msg = m
                 PROVE  WasReceived(m)
      BY <2>2
    <3>1. session'.out # session.out
      OBVIOUS
    <3>2. ASSUME NEW p \in ClientPacket, Takes(p), p.type \in {"PUBACK", "PUBCOMP"},
                 session'.out = Unfinished(p.id)
          PROVE  WasReceived(m)
      <4>1. p.id = m
        <5>1. session.out[k].id = p.id
          BY <3>2, UnfinishedOut
        <5> QED BY <5>1 DEF AnswersKnown
      <4>2. Has(wire.sent, Answers1, m)
        <5>1. 1 \in 1 .. Len(wire.sent) /\ wire.sent[1] = p
          BY <3>2, Sequences, TailHas DEF Takes
        <5> QED BY <3>2, <4>1, <5>1 DEF Has, Answers1
      <4> QED BY <4>2 DEF AnswersKnown
    <3>3. ASSUME NEW i, session'.out = Released(i) PROVE FALSE
      <4>1. Len(session'.out) = Len(session.out) /\ session'.out[k].msg = session.out[k].msg
        BY <3>3, ReleasedSame
      <4> QED BY <4>1
    <3>4. ASSUME NEW f \in Flight, session'.out = Append(session.out, f) PROVE FALSE
      <4>1. k \in 1 .. Len(session'.out) /\ session'.out[k] = session.out[k]
        BY <1>0, <3>4, AppendElements
      <4> QED BY <4>1
    <3> QED BY <1>4, <3>1, <3>2, <3>3, <3>4, SessionOut DEF AnswersKnown
  <2> QED BY <2>1, <2>2
<1> QED BY <1>3, <1>4

\* While the broker uses no id twice and the session is kept, every message that it
\* has finished with was given to onMessage before: PUBACK, PUBREC and PUBCOMP
\* answer only what _onPublish or _onPubrel handled (MqttClient.cpp:521-560, 617-635).
THEOREM FinishedWereReceived ==
  ASSUME SessionKept, ~ReusesIds, 0 \notin OutQos
  PROVE  Spec => []FinishedWasReceived
<1> DEFINE FinishedInv == AnswersKnown /\ FinishedWasReceived
<1>1. Init => FinishedInv
  <2> SUFFICES ASSUME Init PROVE FinishedInv
    OBVIOUS
  <2>1. outbox.q = <<>> /\ wire.sent = <<>> /\ Coming = <<>>
    <3>1. outbox = EmptyOutbox /\ wire = NewWire({}) /\ rx = <<>> /\ s2c = <<>>
      BY DEF Init, ClientInit
    <3>2. Coming = <<>>
      BY <3>1 DEF Coming
    <3> QED BY <3>1, <3>2 DEF EmptyOutbox, NewWire
  <2>2. session.out = <<>> /\ unsent = BrokerMsg
    <3>1. session = NoSession /\ unsent = BrokerMsg
      BY DEF Init, BrokerInit
    <3> QED BY <3>1 DEF NoSession
  <2>3. AnswersKnown
    BY <2>1, <2>2 DEF AnswersKnown, Has
  <2>4. FinishedWasReceived
    BY <2>2 DEF FinishedWasReceived
  <2> QED BY <2>3, <2>4
<1>2. FinishedInv /\ Base /\ Base' /\ [Next]_vars => FinishedInv'
  <2> SUFFICES ASSUME FinishedInv, Base, Base', [Next]_vars PROVE FinishedInv'
    OBVIOUS
  <2>1. CASE UNCHANGED vars
    <3>1. outbox' = outbox /\ wire' = wire /\ session' = session /\ unsent' = unsent
          /\ hist' = hist /\ Coming' = Coming
      BY <2>1 DEF vars, clientVars, brokerVars, client, control, net, app, Coming
    <3> QED BY <3>1 DEF AnswersKnown, WasReceived, Has, FinishedWasReceived
  <2>2. CASE Next
    <3>1. ClientKinds \/ BrokerKinds
      BY <2>2, StepIs DEF Base
    <3> QED BY <3>1, StepAnswersKnown, StepFinished
  <2> QED BY <2>1, <2>2
<1> QED BY <1>1, <1>2, BaseInvariant, PTL DEF Spec
-----------------------------------------------------------------------------
(* The subscribers get a message of QoS 2 at most once *)

Uses == {"PUBLISH", "PUBREL"}
HasQ(s, i, q) ==
  \E k \in 1 .. Len(s) : s[k].type = "PUBLISH" /\ s[k].id = i /\ s[k].qos = q

\* An id above _packetId is not in use.
FreshIds ==
  \A i \in 1 .. MaxId : i > packetId =>
    /\ ~Has(outbox.q, Uses, i) /\ ~Has(wire.sent, Uses, i)
    /\ \A p \in Published : p.id # i
    /\ i \notin session.recv /\ passedOn[i] = 0
\* An exchange has one packet in the outbox, and PUBREL is written after PUBLISH.
OneStage == \A i \in 1 .. MaxId : AtMostOne(outbox.q, Uses, i)
ReleaseIsLast ==
  \A i \in 1 .. MaxId :
    /\ Has(outbox.q, {"PUBLISH"}, i) => ~Has(wire.sent, {"PUBREL"}, i)
    /\ \A j, k \in 1 .. Len(wire.sent) :
         wire.sent[j].type = "PUBREL" /\ wire.sent[j].id = i
         /\ wire.sent[k].type = "PUBLISH" /\ wire.sent[k].id = i => k < j
\* A PUBLISH of QoS 2 that may still arrive is new to the broker, or its id is kept.
NewOrKept ==
  \A i \in 1 .. MaxId :
    HasQ(outbox.q, i, 2) \/ HasQ(wire.sent, i, 2) => passedOn[i] = 0 \/ i \in session.recv
\* The QoS belongs to the id.
OneQos ==
  /\ \A i \in 1 .. MaxId : \A q \in 1 .. 2 :
       HasQ(outbox.q, i, q) \/ HasQ(wire.sent, i, q) => \E p \in Published : p.id = i /\ p.qos = q
  /\ \A p, r \in Published : p.id = r.id => p.qos = r.qos
EmptySession == ~session.present => session.recv = {}

OnceOut ==
  FreshIds /\ OneStage /\ ReleaseIsLast /\ NewOrKept /\ OneQos /\ EmptySession /\ AtMostOnceOut

\* A PUBLISH of the outbox after a step, and one on the wire.
LEMMA OutboxHasQ ==
  ASSUME TypeInv, TypeInv', ClientKinds, NEW i, i # 0, NEW q, HasQ(outbox'.q, i, q)
  PROVE  \/ HasQ(outbox.q, i, q)
         \/ \E r \in ClientPacket : Asks(r) /\ r.type = "PUBLISH" /\ r.id = i /\ r.qos = q
<1>1. PICK k \in 1 .. Len(outbox'.q) :
        outbox'.q[k].type = "PUBLISH" /\ outbox'.q[k].id = i /\ outbox'.q[k].qos = q
  BY DEF HasQ
<1>2. (\E j \in 1 .. Len(outbox.q) : Same(outbox'.q[k], outbox.q[j])) \/ Comes(outbox'.q[k])
  BY <1>1, OutboxComes
<1>3. Comes(outbox'.q[k]) => outbox'.q[k] \in ClientPacket /\ Asks(outbox'.q[k])
  BY <1>1 DEF Comes
<1>4. (\E j \in 1 .. Len(outbox.q) : Same(outbox'.q[k], outbox.q[j])) => HasQ(outbox.q, i, q)
  BY <1>1 DEF Same, HasQ
<1> QED BY <1>1, <1>2, <1>3, <1>4

LEMMA WireHasQ ==
  ASSUME TypeInv, TypeInv', ClientKinds \/ BrokerKinds, NEW i, NEW q, HasQ(wire'.sent, i, q)
  PROVE  HasQ(wire.sent, i, q) \/ (ClientKinds /\ HasQ(outbox.q, i, q))
<1>0. wire.sent \in Seq(ClientPacket) /\ wire'.sent \in Seq(ClientPacket)
  BY DEF TypeInv, WireTyped
<1>1. PICK k \in 1 .. Len(wire'.sent) :
        wire'.sent[k].type = "PUBLISH" /\ wire'.sent[k].id = i /\ wire'.sent[k].qos = q
  BY DEF HasQ
<1>2. CASE ClientKinds
  BY <1>1, <1>2, ClientEffects DEF HasQ
<1>3. CASE BrokerKinds
  <2>1. \E j \in 1 .. Len(wire.sent) : wire'.sent[k] = wire.sent[j]
    BY <1>0, <1>3, BrokerEffects, PieceHas
  <2> QED BY <1>1, <2>1 DEF HasQ
<1> QED BY <1>2, <1>3

\* A packet of an exchange of the client, after a step of the client.
LEMMA UsesComes ==
  ASSUME TypeInv, TypeInv', ClientKinds, NEW i, i # 0
  PROVE  /\ Has(outbox'.q, {"PUBLISH"}, i) =>
              \/ Has(outbox.q, {"PUBLISH"}, i)
              \/ \E r \in ClientPacket : Asks(r) /\ r.type = "PUBLISH" /\ r.id = i
         /\ Has(outbox'.q, Uses, i) =>
              \/ Has(outbox.q, Uses, i)
              \/ \E r \in ClientPacket : Asks(r) /\ r.type = "PUBLISH" /\ r.id = i
<1>1. ASSUME Has(outbox'.q, {"PUBLISH"}, i)
      PROVE  \/ Has(outbox.q, {"PUBLISH"}, i)
             \/ \E r \in ClientPacket : Asks(r) /\ r.type = "PUBLISH" /\ r.id = i
  <2>1. \/ Has(outbox.q, {"PUBLISH"}, i)
        \/ \E x : Comes(x) /\ x.type \in {"PUBLISH"} /\ x.id = i
    BY <1>1, OutboxHas
  <2>2. ASSUME NEW x, Comes(x), x.type = "PUBLISH" PROVE x \in ClientPacket /\ Asks(x)
    BY <2>2 DEF Comes
  <2> QED BY <2>1, <2>2
<1>2. ASSUME Has(outbox'.q, Uses, i)
      PROVE  \/ Has(outbox.q, Uses, i)
             \/ \E r \in ClientPacket : Asks(r) /\ r.type = "PUBLISH" /\ r.id = i
  <2>1. Has(outbox.q, Uses, i) \/ \E x : Comes(x) /\ x.type \in Uses /\ x.id = i
    BY <1>2, OutboxHas
  <2>2. ASSUME NEW x, Comes(x), x.type \in Uses
        PROVE  (x \in ClientPacket /\ Asks(x) /\ x.type = "PUBLISH") \/ Has(outbox.q, Uses, x.id)
    <3>1. Has(outbox.q, {"PUBLISH"}, x.id) => Has(outbox.q, Uses, x.id)
      BY DEF Has, Uses
    <3>2. Asks(x) => x.type # "PUBREL"
      BY DEF Asks
    <3> QED BY <2>2, <3>1, <3>2 DEF Comes, Uses
  <2> QED BY <2>1, <2>2
<1> QED BY <1>1, <1>2

\* What the broker adds to its session and passes on was a PUBLISH on the wire.
LEMMA PassedOnFrom ==
  ASSUME SessionKept, TypeInv, TypeInv', EmptySession, BrokerKinds, NEW i \in 1 .. MaxId
  PROVE  \/ passedOn'[i] = passedOn[i] /\ (i \in session'.recv <=> i \in session.recv)
         \/ /\ HasQ(wire.sent, i, 1) /\ passedOn'[i] <= passedOn[i] + 1
            /\ i \in session'.recv <=> i \in session.recv
         \/ /\ HasQ(wire.sent, i, 2) /\ i \in session'.recv
            /\ passedOn'[i] = passedOn[i] \/ (i \notin session.recv /\ passedOn'[i] <= passedOn[i] + 1)
         \/ /\ passedOn'[i] = passedOn[i] /\ i \notin session'.recv
            /\ \E p \in ClientPacket : Takes(p) /\ p.type = "PUBREL" /\ p.id = i
<1>0. /\ session \in [present : BOOLEAN, recv : SUBSET (1 .. MaxId), out : Seq(Flight)]
      /\ passedOn \in [1 .. MaxId -> 0 .. 2]
  BY DEF TypeInv, BrokerTyped
<1>1. CASE Greets
  BY <1>1 DEF Greets, SessionKept, EmptySession
<1>2. CASE Chats
  BY <1>2 DEF Chats, Held
<1>3. CASE TakesPublish
  <2>1. PICK p \in ClientPacket :
          /\ Takes(p) /\ p.type = "PUBLISH"
          /\ \/ p.qos = 0 /\ UNCHANGED <<session, passedOn>>
             \/ p.qos = 1 /\ PassOn(p.id) /\ session' = session
             \/ /\ p.qos = 2
                /\ IF p.id \in session.recv THEN passedOn' = passedOn ELSE PassOn(p.id)
                /\ session' = [session EXCEPT !.recv = @ \cup {p.id}]
    BY <1>3 DEF TakesPublish
  <2>2. HasQ(wire.sent, p.id, p.qos)
    <3>1. 1 \in 1 .. Len(wire.sent) /\ wire.sent[1] = p
      BY <2>1, Sequences, TailHas DEF Takes
    <3> QED BY <2>1, <3>1 DEF HasQ
  <2>3. PassOn(p.id) => /\ p.id # i => passedOn'[i] = passedOn[i]
                        /\ passedOn'[i] <= passedOn[i] + 1
    BY <1>0 DEF PassOn
  <2>4. CASE p.qos = 0
    BY <2>1, <2>4
  <2>5. CASE p.qos = 1
    BY <2>1, <2>2, <2>3, <2>5
  <2>6. CASE p.qos = 2
    <3>1. session'.recv = session.recv \cup {p.id}
      BY <1>0, <2>1, <2>6
    <3> QED BY <2>1, <2>2, <2>3, <2>6, <3>1
  <2> QED BY <2>1, <2>4, <2>5, <2>6
<1>4. CASE TakesPubrel
  <2>1. PICK p \in ClientPacket :
          /\ Takes(p) /\ p.type = "PUBREL" /\ passedOn' = passedOn
          /\ session' = [session EXCEPT !.recv = @ \ {p.id}]
    BY <1>4 DEF TakesPubrel
  <2>2. session'.recv = session.recv \ {p.id}
    BY <1>0, <2>1
  <2> QED BY <2>1, <2>2
<1>5. CASE TakesAnswer \/ TakesPubrec
  BY <1>0, <1>5 DEF TakesAnswer, TakesPubrec
<1>6. CASE Publishes
  BY <1>0, <1>6 DEF Publishes, PublishesAs
<1> QED BY <1>1, <1>2, <1>3, <1>4, <1>5, <1>6 DEF BrokerKinds

LEMMA HasUses ==
  /\ \A s, i, q : HasQ(s, i, q) => Has(s, {"PUBLISH"}, i)
  /\ \A s, i : Has(s, {"PUBLISH"}, i) => Has(s, Uses, i)
  /\ \A s, i : Has(s, {"PUBREL"}, i) => Has(s, Uses, i)
  /\ \A s, i : Has(s, Uses, i) => Has(s, {"PUBLISH"}, i) \/ Has(s, {"PUBREL"}, i)
BY DEF Has, HasQ, Uses

LEMMA StepFreshIds ==
  ASSUME SessionKept, MaxId > 1, Base, Base', OnceOut, ClientKinds \/ BrokerKinds,
         packetId <= packetId'
  PROVE  FreshIds'
<1> USE DEF Base
<1>0. packetId \in Nat /\ packetId' \in Nat
  BY DEF TypeInv, ClientTyped
<1> SUFFICES ASSUME NEW i \in 1 .. MaxId, i > packetId'
             PROVE  /\ ~Has(outbox'.q, Uses, i) /\ ~Has(wire'.sent, Uses, i)
                    /\ \A p \in Published' : p.id # i
                    /\ i \notin session'.recv /\ passedOn'[i] = 0
  BY DEF FreshIds
<1>1. i # 0 /\ i > packetId
  BY <1>0
<1>2. /\ ~Has(outbox.q, Uses, i) /\ ~Has(wire.sent, Uses, i)
      /\ \A p \in Published : p.id # i
      /\ i \notin session.recv /\ passedOn[i] = 0
  BY <1>1 DEF OnceOut, FreshIds
<1>3. ASSUME NEW r, Asks(r) PROVE r.id # i
  BY <1>0, <1>1, <1>3, AskedFresh
<1>4. ~Has(outbox'.q, Uses, i)
  <2>1. CASE ClientKinds
    BY <1>1, <1>2, <1>3, <2>1, UsesComes
  <2>2. CASE BrokerKinds
    BY <1>2, <2>2, BrokerEffects DEF Untouched
  <2> QED BY <2>1, <2>2
<1>5. ~Has(wire'.sent, Uses, i)
  BY <1>2, WireHas
<1>6. \A p \in Published' : p.id # i
  BY <1>2, <1>3, NewlyPublished
<1>7. i \notin session'.recv /\ passedOn'[i] = 0
  <2>1. CASE ClientKinds
    BY <1>2, <2>1, ClientEffects DEF Held
  <2>2. CASE BrokerKinds
    <3>1. ~HasQ(wire.sent, i, 1) /\ ~HasQ(wire.sent, i, 2)
      BY <1>2, HasUses
    <3> QED BY <1>2, <2>2, <3>1, PassedOnFrom DEF OnceOut
  <2> QED BY <2>1, <2>2
<1> QED BY <1>4, <1>5, <1>6, <1>7

LEMMA StepOneStage ==
  ASSUME MaxId > 1, Base, Base', OnceOut, ClientKinds \/ BrokerKinds, packetId <= packetId'
  PROVE  OneStage'
<1> USE DEF Base
<1> SUFFICES ASSUME NEW i \in 1 .. MaxId PROVE AtMostOne(outbox'.q, Uses, i)
  BY DEF OneStage
<1>0. i # 0 /\ AtMostOne(outbox.q, Uses, i) /\ outbox.q \in Seq(ClientPacket)
  BY Sequences DEF OnceOut, OneStage
<1>1. Fewer(outbox'.q, outbox.q) => AtMostOne(outbox'.q, Uses, i)
  BY <1>0 DEF Fewer
<1>2. CASE Calm \/ Writes \/ NewSession \/ Unsubscribed
  BY <1>1, <1>2 DEF Calm, Writes, NewSession, Unsubscribed, Drops
<1>3. ASSUME NEW r \in ClientPacket, Asks(r) PROVE AtMostOne(outbox'.q, Uses, i)
  <2>1. outbox'.q = Append(outbox.q, r)
    BY <1>3 DEF Asks
  <2>2. CASE r.id = i
    <3>1. r.id > packetId
      BY <1>0, <1>3, <2>2, AskedFresh
    <3>2. ~Has(outbox.q, Uses, i)
      BY <2>2, <3>1 DEF OnceOut, FreshIds
    <3> QED BY <1>0, <2>1, <3>2, AppendHas
  <2>3. CASE r.id # i
    BY <1>0, <2>1, <2>3, AppendHas
  <2> QED BY <2>2, <2>3
<1>4. CASE ClearsAll
  BY <1>4 DEF ClearsAll, AtMostOne
<1>5. ASSUME NEW p \in BrokerPacket, Delivering(p) PROVE AtMostOne(outbox'.q, Uses, i)
  <2> DEFINE x == Ctl(IF p.qos = 1 THEN "PUBACK" ELSE "PUBREC", p.id)
  <2>1. outbox'.q = Append(outbox.q, x) \/ outbox'.q = outbox.q
    BY <1>5 DEF Delivering
  <2>2. x \in ClientPacket /\ x.type \notin Uses
    <3>1. p.id \in BrokerMsg
      BY <1>5 DEF Delivering, BrokerPacket
    <3> QED BY <3>1, CtlTyped DEF Ctl, Uses
  <2> HIDE DEF x
  <2>3. AtMostOne(Append(outbox.q, x), Uses, i)
    BY <1>0, <2>2, AppendHas
  <2> QED BY <1>0, <2>1, <2>3
<1>6. ASSUME Continues("PUBREC", "PUBLISH", "PUBREL") PROVE AtMostOne(outbox'.q, Uses, i)
  <2>1. PICK p \in BrokerPacket, t \in Seq(ClientPacket) :
          /\ Handles(p) /\ p.type = "PUBREC" /\ Drops(t, outbox.q, "PUBLISH", p.id)
          /\ outbox'.q = Append(t, Ctl("PUBREL", p.id)) \/ outbox'.q = t
    BY <1>6 DEF Continues
  <2> DEFINE x == Ctl("PUBREL", p.id)
  <2>2. x.id = p.id /\ x \in ClientPacket
    <3>1. p.id \in 1 .. MaxId
      BY <2>1 DEF BrokerPacket
    <3> QED BY <3>1, CtlTyped DEF Ctl
  <2>3. outbox'.q = Append(t, x) \/ outbox'.q = t
    BY <2>1
  <2> HIDE DEF x
  <2>4. AtMostOne(t, Uses, i)
    BY <1>0, <2>1 DEF Drops, Fewer
  <2>5. p.id = i => ~Has(t, Uses, i)
    <3>1. "PUBLISH" \in Uses
      BY DEF Uses
    <3> QED BY <1>0, <2>1, <3>1 DEF Drops
  <2>6. AtMostOne(Append(t, x), Uses, i)
    <3>1. CASE p.id = i
      BY <2>2, <2>4, <2>5, <3>1, AppendHas
    <3>2. CASE p.id # i
      BY <2>2, <2>4, <3>2, AppendHas
    <3> QED BY <3>1, <3>2
  <2> QED BY <2>3, <2>4, <2>6
<1>7. ASSUME Continues("PUBREL", "PUBREC", "PUBCOMP") PROVE AtMostOne(outbox'.q, Uses, i)
  <2>1. PICK p \in BrokerPacket, t \in Seq(ClientPacket) :
          /\ Handles(p) /\ p.type = "PUBREL" /\ Drops(t, outbox.q, "PUBREC", p.id)
          /\ outbox'.q = Append(t, Ctl("PUBCOMP", p.id)) \/ outbox'.q = t
    BY <1>7 DEF Continues
  <2> DEFINE x == Ctl("PUBCOMP", p.id)
  <2>2. x.type \notin Uses /\ x \in ClientPacket
    <3>1. p.id \in BrokerMsg
      BY <2>1 DEF BrokerPacket
    <3> QED BY <3>1, CtlTyped DEF Ctl, Uses
  <2>3. outbox'.q = Append(t, x) \/ outbox'.q = t
    BY <2>1
  <2> HIDE DEF x
  <2>4. AtMostOne(t, Uses, i)
    BY <1>0, <2>1 DEF Drops, Fewer
  <2>5. AtMostOne(Append(t, x), Uses, i)
    BY <2>2, <2>4, AppendHas
  <2> QED BY <2>3, <2>4, <2>5
<1>8. ASSUME NEW a, NEW type, Completes(a, type) PROVE AtMostOne(outbox'.q, Uses, i)
  BY <1>1, <1>8 DEF Completes, Drops
<1>9. CASE ClientKinds
  BY <1>2, <1>3, <1>4, <1>5, <1>6, <1>7, <1>8, <1>9 DEF ClientKinds, Delivers
<1>10. CASE BrokerKinds
  BY <1>0, <1>10, BrokerEffects DEF Untouched
<1> QED BY <1>9, <1>10

\* The order of the wire is that of the wire before and of the outbox behind it.
LEMMA WireOrder ==
  ASSUME TypeInv, TypeInv', ClientKinds \/ BrokerKinds,
         NEW j \in 1 .. Len(wire'.sent), NEW k \in 1 .. Len(wire'.sent), j < k
  PROVE  \E m \in 1 .. Len(wire.sent) :
           /\ wire'.sent[j] = wire.sent[m]
           /\ \/ \E n \in 1 .. Len(wire.sent) : m < n /\ wire'.sent[k] = wire.sent[n]
              \/ ClientKinds /\ \E n \in 1 .. Len(outbox.q) : wire'.sent[k] = outbox.q[n]
<1>0. /\ wire.sent \in Seq(ClientPacket) /\ wire'.sent \in Seq(ClientPacket)
      /\ outbox.q \in Seq(ClientPacket) /\ j \in Nat /\ k \in Nat
  BY Sequences DEF TypeInv, WireTyped
<1>1. CASE Piece(wire'.sent, wire.sent)
  <2>1. PICK d \in Nat : /\ d + Len(wire'.sent) <= Len(wire.sent)
                         /\ \A n \in 1 .. Len(wire'.sent) : wire'.sent[n] = wire.sent[n + d]
    BY <1>1 DEF Piece
  <2>2. /\ j + d \in 1 .. Len(wire.sent) /\ k + d \in 1 .. Len(wire.sent) /\ j + d < k + d
        /\ wire'.sent[j] = wire.sent[j + d] /\ wire'.sent[k] = wire.sent[k + d]
    BY <1>0, <2>1
  <2> QED BY <2>2
<1>2. CASE Writes
  <2>1. PICK n \in 1 .. Len(outbox.q) : wire'.sent = Append(wire.sent, outbox.q[n])
    BY <1>2 DEF Writes
  <2>2. /\ Len(wire'.sent) = Len(wire.sent) + 1 /\ Len(wire.sent) \in Nat
        /\ wire'.sent[Len(wire.sent) + 1] = outbox.q[n]
        /\ \A m \in 1 .. Len(wire.sent) : wire'.sent[m] = wire.sent[m]
    BY <1>0, <2>1, AppendElements
  <2>3. j \in 1 .. Len(wire.sent) /\ wire'.sent[j] = wire.sent[j]
    BY <1>0, <2>2
  <2>4. CASE k = Len(wire.sent) + 1
    BY <1>2, <2>2, <2>3, <2>4 DEF ClientKinds
  <2>5. CASE k # Len(wire.sent) + 1
    <3>1. k \in 1 .. Len(wire.sent) /\ wire'.sent[k] = wire.sent[k]
      BY <2>2, <2>5
    <3> QED BY <2>3, <3>1
  <2> QED BY <2>4, <2>5
<1>3. Piece(wire.sent, wire.sent)
  BY <1>0, PieceItself
<1>4. ClientKinds => Piece(wire'.sent, wire.sent) \/ Writes
  BY <1>3 DEF ClientKinds, Calm, Asks, ClearsAll, NewSession, Delivers, Delivering, Continues,
              Completes, Unsubscribed, Handles
<1>5. BrokerKinds => Piece(wire'.sent, wire.sent)
  BY BrokerEffects
<1> QED BY <1>1, <1>2, <1>4, <1>5

LEMMA StepReleaseIsLast ==
  ASSUME MaxId > 1, Base, Base', OnceOut, ClientKinds \/ BrokerKinds, packetId <= packetId'
  PROVE  ReleaseIsLast'
<1> USE DEF Base
<1>1. ASSUME NEW i \in 1 .. MaxId, Has(outbox'.q, {"PUBLISH"}, i)
      PROVE  ~Has(wire'.sent, {"PUBREL"}, i)
  <2>1. \/ Has(outbox.q, {"PUBLISH"}, i)
        \/ \E r \in ClientPacket : Asks(r) /\ r.type = "PUBLISH" /\ r.id = i
    BY <1>1, UsesComes, BrokerEffects DEF Untouched
  <2>2. Has(wire'.sent, {"PUBREL"}, i) => Has(wire.sent, {"PUBREL"}, i) \/ Has(outbox.q, {"PUBREL"}, i)
    BY WireHas
  <2>3. CASE Has(outbox.q, {"PUBLISH"}, i)
    <3>1. ~Has(wire.sent, {"PUBREL"}, i)
      BY <2>3 DEF OnceOut, ReleaseIsLast
    <3>2. ~Has(outbox.q, {"PUBREL"}, i)
      BY <2>3 DEF OnceOut, OneStage, AtMostOne, Has, Uses
    <3> QED BY <2>2, <3>1, <3>2
  <2>4. ASSUME NEW r \in ClientPacket, Asks(r), r.id = i PROVE ~Has(wire'.sent, {"PUBREL"}, i)
    <3>1. i > packetId
      BY <2>4, AskedFresh
    <3>2. ~Has(outbox.q, Uses, i) /\ ~Has(wire.sent, Uses, i)
      BY <3>1 DEF OnceOut, FreshIds
    <3> QED BY <2>2, <3>2, HasUses
  <2> QED BY <2>1, <2>3, <2>4
<1>2. ASSUME NEW i \in 1 .. MaxId, NEW j \in 1 .. Len(wire'.sent), NEW k \in 1 .. Len(wire'.sent),
             wire'.sent[j].type = "PUBREL", wire'.sent[j].id = i,
             wire'.sent[k].type = "PUBLISH", wire'.sent[k].id = i
      PROVE  k < j
  <2>1. j # k /\ j \in Nat /\ k \in Nat
    BY <1>2
  <2>2. ASSUME j < k PROVE FALSE
    <3>1. PICK m \in 1 .. Len(wire.sent) :
            /\ wire'.sent[j] = wire.sent[m]
            /\ \/ \E n \in 1 .. Len(wire.sent) : m < n /\ wire'.sent[k] = wire.sent[n]
               \/ \E n \in 1 .. Len(outbox.q) : wire'.sent[k] = outbox.q[n]
      BY <2>2, WireOrder
    <3>2. ASSUME NEW n \in 1 .. Len(wire.sent), m < n, wire'.sent[k] = wire.sent[n] PROVE FALSE
      <4>1. n < m
        BY <1>2, <3>1, <3>2 DEF OnceOut, ReleaseIsLast
      <4> QED BY <3>2, <4>1
    <3>3. ASSUME NEW n \in 1 .. Len(outbox.q), wire'.sent[k] = outbox.q[n] PROVE FALSE
      <4>1. Has(outbox.q, {"PUBLISH"}, i) /\ Has(wire.sent, {"PUBREL"}, i)
        BY <1>2, <3>1, <3>3 DEF Has
      <4> QED BY <4>1 DEF OnceOut, ReleaseIsLast
    <3> QED BY <3>1, <3>2, <3>3
  <2> QED BY <2>1, <2>2
<1>3. \A i \in 1 .. MaxId : Has(outbox'.q, {"PUBLISH"}, i) => ~Has(wire'.sent, {"PUBREL"}, i)
  BY <1>1
<1>4. \A i \in 1 .. MaxId : \A j, k \in 1 .. Len(wire'.sent) :
        wire'.sent[j].type = "PUBREL" /\ wire'.sent[j].id = i
        /\ wire'.sent[k].type = "PUBLISH" /\ wire'.sent[k].id = i => k < j
  BY <1>2
<1> QED BY <1>3, <1>4 DEF ReleaseIsLast

LEMMA StepOneQos ==
  ASSUME MaxId > 1, Base, Base', OnceOut, ClientKinds \/ BrokerKinds, packetId <= packetId'
  PROVE  OneQos'
<1> USE DEF Base
<1>1. ASSUME NEW i \in 1 .. MaxId, NEW q \in 1 .. 2, HasQ(outbox'.q, i, q) \/ HasQ(wire'.sent, i, q)
      PROVE  \E p \in Published' : p.id = i /\ p.qos = q
  <2>1. HasQ(outbox.q, i, q) \/ HasQ(wire.sent, i, q) => \E p \in Published : p.id = i /\ p.qos = q
    BY DEF OnceOut, OneQos
  <2>2. Published \subseteq Published'
    BY AskedGrows DEF Published
  <2>3. HasQ(outbox'.q, i, q) =>
          \/ HasQ(outbox.q, i, q)
          \/ \E r \in ClientPacket : Asks(r) /\ r.type = "PUBLISH" /\ r.id = i /\ r.qos = q
    BY OutboxHasQ, BrokerEffects DEF Untouched
  <2>4. HasQ(wire'.sent, i, q) => HasQ(wire.sent, i, q) \/ HasQ(outbox.q, i, q)
    BY WireHasQ
  <2>5. ASSUME NEW r, Asks(r), r.type = "PUBLISH", r.qos = q PROVE r \in Published'
    BY <2>5 DEF Asks, Published
  <2> QED BY <1>1, <2>1, <2>2, <2>3, <2>4, <2>5
<1>2. ASSUME NEW p \in Published', NEW r \in Published', p.id = r.id PROVE p.qos = r.qos
  <2>1. ASSUME NEW x \in Published', x \notin Published
        PROVE  Asks(x) /\ x.id > packetId /\ x.id \in 1 .. MaxId
    <3>1. Asks(x) /\ x.id \in 1 .. MaxId
      BY <2>1, NewlyPublished
    <3> QED BY <3>1, AskedFresh
  <2>2. ASSUME NEW x \in Published', x \notin Published, NEW y \in Published, x.id = y.id PROVE FALSE
    BY <2>1, <2>2 DEF OnceOut, FreshIds
  <2>3. CASE p \in Published /\ r \in Published
    BY <1>2, <2>3 DEF OnceOut, OneQos
  <2>4. CASE p \notin Published /\ r \notin Published
    <3>1. Asks(p) /\ Asks(r)
      BY <2>1, <2>4
    <3>2. \A x \in {p, r} : outbox'.q = Append(outbox.q, x) /\ x \in ClientPacket
      BY <3>1 DEF Asks, Published, TypeInv, HistTyped
    <3>3. \A x \in ClientPacket : Append(outbox.q, x)[Len(outbox.q) + 1] = x
      BY Sequences, AppendElements
    <3>4. \A x \in {p, r} : outbox'.q[Len(outbox.q) + 1] = x
      BY <3>2, <3>3, Zenon
    <3> QED BY <3>4
  <2> QED BY <1>2, <2>2, <2>3, <2>4
<1> QED BY <1>1, <1>2 DEF OneQos

LEMMA StepNewOrKept ==
  ASSUME SessionKept, MaxId > 1, Base, Base', OnceOut, ClientKinds \/ BrokerKinds,
         packetId <= packetId'
  PROVE  NewOrKept' /\ AtMostOnceOut' /\ EmptySession'
<1> USE DEF Base
<1>0. /\ passedOn \in [1 .. MaxId -> 0 .. 2] /\ passedOn' \in [1 .. MaxId -> 0 .. 2]
      /\ session \in [present : BOOLEAN, recv : SUBSET (1 .. MaxId), out : Seq(Flight)]
  BY DEF TypeInv, BrokerTyped
\* A message of QoS 2 is not taken for one of QoS 1.
<1>1. ASSUME NEW i \in 1 .. MaxId, HasQ(wire.sent, i, 1),
             \/ HasQ(outbox.q, i, 2) \/ HasQ(wire.sent, i, 2)
             \/ \E p \in Published : p.id = i /\ p.qos = 2
      PROVE  FALSE
  <2>1. \E p \in Published : p.id = i /\ p.qos = 1
    BY <1>1 DEF OnceOut, OneQos
  <2>2. \E p \in Published : p.id = i /\ p.qos = 2
    BY <1>1 DEF OnceOut, OneQos
  <2> QED BY <2>1, <2>2 DEF OnceOut, OneQos
<1>2. ASSUME NEW i \in 1 .. MaxId, HasQ(outbox'.q, i, 2) \/ HasQ(wire'.sent, i, 2)
      PROVE  passedOn'[i] = 0 \/ i \in session'.recv
  <2>1. HasQ(wire'.sent, i, 2) => HasQ(wire.sent, i, 2) \/ HasQ(outbox.q, i, 2)
    BY WireHasQ
  <2>2. CASE ClientKinds
    <3>1. passedOn' = passedOn /\ session' = session
      BY <2>2, ClientEffects DEF Held
    <3>2. \/ HasQ(outbox.q, i, 2) \/ HasQ(wire.sent, i, 2)
          \/ \E r : Asks(r) /\ r.id = i
      BY <1>2, <2>1, <2>2, OutboxHasQ
    <3>3. ASSUME NEW r, Asks(r), r.id = i PROVE passedOn[i] = 0
      <4>1. i > packetId
        BY <3>3, AskedFresh
      <4> QED BY <4>1 DEF OnceOut, FreshIds
    <3> QED BY <3>1, <3>2, <3>3 DEF OnceOut, NewOrKept
  <2>3. CASE BrokerKinds
    <3>1. HasQ(outbox.q, i, 2) \/ HasQ(wire.sent, i, 2)
      BY <1>2, <2>1, <2>3, BrokerEffects DEF Untouched
    <3>2. passedOn[i] = 0 \/ i \in session.recv
      BY <3>1 DEF OnceOut, NewOrKept
    <3>3. ~HasQ(wire.sent, i, 1)
      BY <1>1, <3>1
    <3>4. ASSUME NEW p \in ClientPacket, Takes(p), p.type = "PUBREL", p.id = i PROVE FALSE
      <4>1. /\ wire.sent \in Seq(ClientPacket) /\ Len(wire.sent) \in Nat
            /\ 1 \in 1 .. Len(wire.sent) /\ wire.sent[1] = p
            /\ Len(wire'.sent) = Len(wire.sent) - 1
            /\ \A k \in 1 .. Len(wire.sent) - 1 : wire'.sent[k] = wire.sent[k + 1]
        BY <3>4, Sequences, TailHas DEF Takes
      <4>2. ASSUME NEW k \in 1 .. Len(wire'.sent), wire'.sent[k].type = "PUBLISH", wire'.sent[k].id = i
            PROVE  FALSE
        <5>1. /\ k + 1 \in 1 .. Len(wire.sent) /\ wire.sent[k + 1].type = "PUBLISH"
              /\ wire.sent[k + 1].id = i
          BY <4>1, <4>2
        <5>2. k + 1 < 1
          BY <3>4, <4>1, <5>1 DEF OnceOut, ReleaseIsLast
        <5> QED BY <5>2
      <4>3. HasQ(outbox.q, i, 2)
        <5>1. ~HasQ(wire'.sent, i, 2)
          BY <4>2 DEF HasQ
        <5> QED BY <1>2, <2>3, <5>1, BrokerEffects DEF Untouched
      <4>4. Has(wire.sent, {"PUBREL"}, i)
        BY <3>4, <4>1 DEF Has
      <4> QED BY <4>3, <4>4, HasUses DEF OnceOut, ReleaseIsLast
    <3> QED BY <2>3, <3>2, <3>3, <3>4, PassedOnFrom DEF OnceOut
  <2> QED BY <2>2, <2>3
<1>3. ASSUME NEW p \in Published', p.qos = 2 PROVE passedOn'[p.id] <= 1
  <2>0. p.id \in 1 .. MaxId /\ (p \in Published \/ Asks(p))
    BY NewlyPublished
  <2>1. ASSUME p \notin Published PROVE passedOn[p.id] = 0 /\ passedOn' = passedOn
    <3>1. Asks(p) /\ p.id > packetId
      BY <2>0, <2>1, AskedFresh
    <3>2. passedOn[p.id] = 0
      BY <2>0, <3>1 DEF OnceOut, FreshIds
    <3> QED BY <3>1, <3>2 DEF Asks, Held
  <2>2. CASE p \in Published
    <3>1. passedOn[p.id] <= 1 /\ ~HasQ(wire.sent, p.id, 1)
      BY <1>1, <1>3, <2>0, <2>2 DEF OnceOut, AtMostOnceOut
    <3>2. HasQ(wire.sent, p.id, 2) /\ p.id \notin session.recv => passedOn[p.id] = 0
      BY <2>0 DEF OnceOut, NewOrKept
    <3>3. CASE ClientKinds
      BY <3>1, <3>3, ClientEffects DEF Held
    <3>4. CASE BrokerKinds
      <4>1. passedOn'[p.id] = passedOn[p.id]
            \/ (HasQ(wire.sent, p.id, 2) /\ p.id \notin session.recv
                /\ passedOn'[p.id] <= passedOn[p.id] + 1)
        BY <2>0, <3>1, <3>4, PassedOnFrom DEF OnceOut
      <4> QED BY <1>0, <2>0, <3>1, <3>2, <4>1
    <3> QED BY <3>3, <3>4
  <2> QED BY <2>1, <2>2
<1>4. ASSUME ~session'.present PROVE session'.recv = {}
  <2>1. ~session.present
    BY <1>4, ClientEffects, BrokerEffects DEF Held
  <2>2. session.recv = {}
    BY <2>1 DEF OnceOut, EmptySession
  <2>3. CASE ClientKinds
    BY <2>2, <2>3, ClientEffects DEF Held
  <2>4. CASE BrokerKinds
    BY <1>0, <1>4, <2>1, <2>2, <2>4 DEF BrokerKinds, Greets, Chats, TakesPublish, TakesPubrel,
       TakesAnswer, TakesPubrec, Publishes, PublishesAs, Held
  <2> QED BY <2>3, <2>4
<1>5. NewOrKept'
  BY <1>2 DEF NewOrKept
<1>6. AtMostOnceOut'
  BY <1>3 DEF AtMostOnceOut
<1>7. EmptySession'
  BY <1>4 DEF EmptySession
<1> QED BY <1>5, <1>6, <1>7

LEMMA InitOnceOut == Init => OnceOut
<1> SUFFICES ASSUME Init PROVE OnceOut
  OBVIOUS
<1>1. /\ session = NoSession /\ outbox = EmptyOutbox /\ wire = NewWire({})
      /\ passedOn = [i \in 1 .. MaxId |-> 0]
  BY DEF Init, ClientInit, BrokerInit
<1>2. outbox.q = <<>> /\ wire.sent = <<>> /\ session.recv = {}
  BY <1>1 DEF EmptyOutbox, NewWire, NoSession
<1>3. /\ \A types, i : ~Has(<<>>, types, i) /\ AtMostOne(<<>>, types, i)
      /\ \A i, q : ~HasQ(<<>>, i, q)
  BY DEF Has, AtMostOne, HasQ
<1>4. Published = {}
  BY InitPublished
<1>5. FreshIds /\ OneStage
  BY <1>1, <1>2, <1>3, <1>4 DEF FreshIds, OneStage
<1>6. ReleaseIsLast
  BY <1>2, <1>3 DEF ReleaseIsLast
<1>7. NewOrKept /\ OneQos /\ EmptySession /\ AtMostOnceOut
  BY <1>2, <1>3, <1>4 DEF NewOrKept, OneQos, EmptySession, AtMostOnceOut
<1> QED BY <1>5, <1>6, <1>7 DEF OnceOut

\* While the session is kept and the packet ids have not come around, a message
\* that publish() sent with QoS 2 reaches the subscribers at most once, through
\* every loss and retransmission: the id is new, PUBLISH is not written again
\* once PUBREC was handled, and PUBREL follows it (MqttClient.cpp:591-615, 718-734).
THEOREM PassedOnOnce ==
  ASSUME SessionKept, MaxId > 1
  PROVE  Spec /\ IdsRise => []AtMostOnceOut
<1>1. Init => OnceOut
  BY InitOnceOut
<1>2. OnceOut /\ Base /\ Base' /\ [Next]_vars /\ [packetId <= packetId']_vars => OnceOut'
  <2> SUFFICES ASSUME OnceOut, Base, Base', [Next]_vars, [packetId <= packetId']_vars
               PROVE  OnceOut'
    OBVIOUS
  <2>1. CASE UNCHANGED vars
    <3>1. /\ outbox' = outbox /\ wire' = wire /\ session' = session /\ hist' = hist
          /\ packetId' = packetId /\ passedOn' = passedOn
      BY <2>1 DEF vars, clientVars, brokerVars, client, control, net, app
    <3>2. Published' = Published
      BY <3>1 DEF Published
    <3> QED BY <3>1, <3>2 DEF OnceOut, FreshIds, OneStage, ReleaseIsLast, NewOrKept, OneQos,
                              EmptySession, AtMostOnceOut
  <2>2. CASE packetId <= packetId'
    <3>1. ClientKinds \/ BrokerKinds
      BY StepIs
    <3> QED BY <2>2, <3>1, StepFreshIds, StepOneStage, StepReleaseIsLast, StepOneQos,
               StepNewOrKept DEF OnceOut
  <2> QED BY <2>1, <2>2
<1>3. OnceOut => AtMostOnceOut
  BY DEF OnceOut
<1> QED BY <1>1, <1>2, <1>3, BaseInvariant, PTL DEF Spec, IdsRise
-----------------------------------------------------------------------------
(* onMessage gets a message of QoS 2 at most once *)

\* A message that the broker has not published is nowhere, and was not received.
UnsentIsNew ==
  /\ \A k \in 1 .. Len(session.out) : session.out[k].msg \notin unsent
  /\ \A k \in 1 .. Len(Coming) :
       /\ Coming[k].type = "PUBLISH" /\ Coming[k].qos > 0 => Coming[k].msg \notin unsent
       /\ Coming[k].type = "PUBREL" => Coming[k].id \notin unsent
  /\ \A m \in unsent : ~WasReceived(m)
OneFlight ==
  \A j, k \in 1 .. Len(session.out) :
    session.out[j].id = session.out[k].id => session.out[j] = session.out[k]
\* PUBREL follows PUBLISH, and is sent for what is released.
ReleasesInOrder ==
  /\ \A j, k \in 1 .. Len(Coming) :
       j < k /\ Coming[j].type = "PUBREL" /\ Coming[k].type = "PUBLISH" => Coming[j].id # Coming[k].id
  /\ \A j \in 1 .. Len(Coming) : \A k \in 1 .. Len(session.out) :
       Coming[j].type = "PUBREL" /\ Coming[j].id = session.out[k].id => session.out[k].released
\* PUBREC is kept for a message of a session that the broker still has.
PubrecInSession ==
  /\ \A k \in 1 .. Len(Coming) :
       Coming[k].type = "PUBLISH" /\ Coming[k].qos > 0 => session.present
  /\ \A m \in BrokerMsg : Has(outbox.q, {"PUBREC"}, m) => session.present
  /\ NewSessionComes => \A m \in BrokerMsg : ~Has(outbox.q, {"PUBREC"}, m)
Got2(h, m) == h.got[<<m, 2>>]
\* What onMessage got and may come again is noted by PUBREC.
ReceivedIsNoted ==
  /\ \A k \in 1 .. Len(Coming) :
       Coming[k].type = "PUBLISH" /\ Coming[k].qos = 2 /\ Got2(hist, Coming[k].msg) > 0
       => Has(outbox.q, {"PUBREC"}, Coming[k].id)
  /\ \A k \in 1 .. Len(session.out) :
       ~session.out[k].released /\ session.out[k].qos = 2 /\ Got2(hist, session.out[k].msg) > 0
       => Has(outbox.q, {"PUBREC"}, session.out[k].id)
  /\ \A m \in Msg : Got2(hist, m) <= 1

\* Where a PUBLISH or PUBREL on its way to the client comes from.
LEMMA ComingFrom ==
  ASSUME TypeInv, TypeInv', SessionKept, ClientKinds \/ BrokerKinds,
         NEW k \in 1 .. Len(Coming'), Coming'[k].type \in Uses
  PROVE  \/ \E j \in 1 .. Len(Coming) : Coming'[k] = Coming[j]
         \/ /\ Greets /\ k - 1 \in 1 .. Len(session'.out)
            /\ Coming'[k] = Resent(session'.out[k - 1])
         \/ /\ k = Len(Coming) + 1 /\ Coming'[k].type = "PUBLISH"
            /\ \E m \in unsent, q \in OutQos : \E f :
                 PublishesAs(m, q, f) /\ Coming'[k] = Message(f, FALSE)
         \/ /\ k = Len(Coming) + 1 /\ Coming'[k].type = "PUBREL" /\ unsent' = unsent
            /\ \E p \in ClientPacket :
                 /\ Takes(p) /\ p.type = "PUBREC" /\ p.id = Coming'[k].id
                 /\ session'.out = Released(p.id)
<1>0. /\ Coming \in Seq(BrokerPacket) /\ Coming' \in Seq(BrokerPacket)
      /\ session \in [present : BOOLEAN, recv : SUBSET (1 .. MaxId), out : Seq(Flight)]
  BY Sequences, ConcatProperties DEF TypeInv, IncomingTyped, Coming, BrokerTyped
<1>1. CASE ClientKinds
  <2>1. Piece(Coming', Coming)
    BY <1>1, ClientEffects
  <2>2. \A n \in 1 .. Len(Coming') : \E j \in 1 .. Len(Coming) : j >= n /\ Coming'[n] = Coming[j]
    BY <1>0, <2>1, PieceHas
  <2> QED BY <2>2
<1>2. CASE Greets
  <2>1. Coming'[k].type # "CONNACK"
    BY DEF Uses
  <2>2. \A present : Connack(TRUE, present).type = "CONNACK"
    BY DEF Connack
  <2> QED BY <1>2, <2>1, <2>2 DEF Greets
<1>3. ASSUME NEW x, Brings(x)
      PROVE  \/ \E j \in 1 .. Len(Coming) : Coming'[k] = Coming[j]
             \/ k = Len(Coming) + 1 /\ Coming'[k] = x
  BY <1>3, BringsElements
<1>4. ASSUME NEW t, NEW i, Brings(Answer(t, i)), t \notin Uses
      PROVE  \E j \in 1 .. Len(Coming) : Coming'[k] = Coming[j]
  <2>1. Answer(t, i).type = t
    BY DEF Answer
  <2> QED BY <1>3, <1>4, <2>1
<1>5. CASE Chats
  <2>1. PICK x : Brings(x) /\ x.type \in {"CONNACK", "MALFORMED", "PINGRESP", "SUBACK", "UNSUBACK"}
    BY <1>5 DEF Chats
  <2> QED BY <1>3, <2>1 DEF Uses
<1>6. CASE TakesPublish
  <2>1. \/ Coming' = Coming
        \/ \E i : Brings(Answer("PUBACK", i)) \/ Brings(Answer("PUBREC", i))
    BY <1>6 DEF TakesPublish
  <2> QED BY <1>4, <2>1 DEF Uses
<1>7. CASE TakesPubrel \/ TakesAnswer
  <2>1. Coming' = Coming \/ \E i : Brings(Answer("PUBCOMP", i))
    BY <1>7 DEF TakesPubrel, TakesAnswer
  <2> QED BY <1>4, <2>1 DEF Uses
<1>8. CASE TakesPubrec
  <2>1. PICK p \in ClientPacket :
          /\ Takes(p) /\ p.type = "PUBREC" /\ unsent' = unsent
          /\ Brings(Answer("PUBREL", p.id))
          /\ session' = [session EXCEPT !.out = Released(p.id)]
    BY <1>8 DEF TakesPubrec
  <2>2. session'.out = Released(p.id)
    BY <1>0, <2>1
  <2>3. Answer("PUBREL", p.id).type = "PUBREL" /\ Answer("PUBREL", p.id).id = p.id
    BY DEF Answer
  <2>4. \/ \E j \in 1 .. Len(Coming) : Coming'[k] = Coming[j]
        \/ k = Len(Coming) + 1 /\ Coming'[k] = Answer("PUBREL", p.id)
    BY <1>3, <2>1
  <2> QED BY <2>1, <2>2, <2>3, <2>4
<1>9. CASE Publishes
  <2>1. PICK m \in unsent, q \in OutQos : \E f : PublishesAs(m, q, f)
    BY <1>9 DEF Publishes
  <2>2. PICK f : PublishesAs(m, q, f)
    BY <2>1
  <2>3. Brings(Message(f, FALSE)) /\ Message(f, FALSE).type = "PUBLISH"
    BY <2>2 DEF PublishesAs, Message
  <2> QED BY <1>3, <2>2, <2>3
<1> QED BY <1>1, <1>2, <1>5, <1>6, <1>7, <1>8, <1>9 DEF BrokerKinds

\* Two packets on their way were in the same order before the step.
LEMMA ComingOrder ==
  ASSUME TypeInv, TypeInv', ClientKinds \/ BrokerKinds, ~Greets,
         NEW j \in 1 .. Len(Coming'), NEW k \in 1 .. Len(Coming'), j < k
  PROVE  \E a \in 1 .. Len(Coming) :
           /\ Coming'[j] = Coming[a]
           /\ \/ \E b \in 1 .. Len(Coming) : a < b /\ Coming'[k] = Coming[b]
              \/ k = Len(Coming) + 1 /\ BrokerKinds
<1>0. /\ Coming \in Seq(BrokerPacket) /\ Coming' \in Seq(BrokerPacket) /\ j \in Nat /\ k \in Nat
  BY Sequences, ConcatProperties DEF TypeInv, IncomingTyped, Coming
<1>1. CASE Piece(Coming', Coming)
  <2>1. PICK d \in Nat : /\ d + Len(Coming') <= Len(Coming)
                         /\ \A n \in 1 .. Len(Coming') : Coming'[n] = Coming[n + d]
    BY <1>1 DEF Piece
  <2>2. /\ j + d \in 1 .. Len(Coming) /\ k + d \in 1 .. Len(Coming) /\ j + d < k + d
        /\ Coming'[j] = Coming[j + d] /\ Coming'[k] = Coming[k + d]
    BY <1>0, <2>1
  <2> QED BY <2>2
<1>2. ASSUME BrokerKinds, NEW x, Brings(x)
      PROVE  \E a \in 1 .. Len(Coming) :
               /\ Coming'[j] = Coming[a]
               /\ \/ \E b \in 1 .. Len(Coming) : a < b /\ Coming'[k] = Coming[b]
                  \/ k = Len(Coming) + 1 /\ BrokerKinds
  <2>1. \A n \in 1 .. Len(Coming') :
          (n \in 1 .. Len(Coming) /\ Coming'[n] = Coming[n]) \/ n = Len(Coming) + 1
    BY <1>2, BringsElements
  <2>2. Len(Coming) \in Nat /\ Len(Coming') \in Nat
    BY <1>0
  <2>3. Len(Coming') <= Len(Coming) + 1
    BY <1>0, <1>2 DEF Brings
  <2>4. j \in 1 .. Len(Coming) /\ Coming'[j] = Coming[j]
    BY <1>0, <2>1, <2>2, <2>3
  <2> QED BY <1>2, <2>1, <2>4
<1>3. ClientKinds => Piece(Coming', Coming)
  BY ClientEffects
<1>4. Coming' = Coming => Piece(Coming', Coming)
  BY <1>0, PieceItself
<1> QED BY <1>1, <1>2, <1>3, <1>4, BrokerBrings

\* The messages of the session after a step: those before, and what is published.
LEMMA FlightFrom ==
  ASSUME SessionKept, ~ReusesIds, Base, Base', AnswersKnown, ClientKinds \/ BrokerKinds,
         NEW k \in 1 .. Len(session'.out)
  PROVE  \/ \E j \in 1 .. Len(session.out) :
              /\ session'.out[k].id = session.out[j].id /\ session'.out[k].msg = session.out[j].msg
              /\ session'.out[k].qos = session.out[j].qos
              /\ session.out[j].released => session'.out[k].released
         \/ \E m \in unsent, q \in 1 .. 2 : \E f \in Flight :
              /\ PublishesAs(m, q, f) /\ session'.out[k] = f /\ f.id = m
              /\ k = Len(session.out) + 1 /\ session'.out = Append(session.out, f)
<1> USE DEF Base
<1> DEFINE Old == \E j \in 1 .. Len(session.out) :
              /\ session'.out[k].id = session.out[j].id /\ session'.out[k].msg = session.out[j].msg
              /\ session'.out[k].qos = session.out[j].qos
              /\ session.out[j].released => session'.out[k].released
<1>0. session.out \in Seq(Flight) /\ session'.out \in Seq(Flight)
  BY DEF TypeInv, BrokerTyped
<1>1. (\E j \in 1 .. Len(session.out) : session'.out[k] = session.out[j]) => Old
  OBVIOUS
<1>2. session'.out = session.out => Old
  BY <1>1
<1>3. ASSUME NEW i, session'.out = Unfinished(i) PROVE Old
  BY <1>1, <1>3, UnfinishedOut
<1>4. ASSUME NEW i, session'.out = Released(i) PROVE Old
  <2>1. k \in 1 .. Len(session.out)
    BY <1>4, ReleasedSame
  <2>2. /\ session'.out[k].id = session.out[k].id /\ session'.out[k].msg = session.out[k].msg
        /\ session'.out[k].qos = session.out[k].qos
    BY <1>4, <2>1, ReleasedSame
  <2>4. session.out[k].released => session'.out[k].released
    BY <1>4, <2>1, ReleasedSame
  <2> QED BY <2>1, <2>2, <2>4
<1> HIDE DEF Old
<1>5. ASSUME NEW m \in unsent, NEW q \in 1 .. 2, NEW f \in Flight, PublishesAs(m, q, f),
             session'.out = Append(session.out, f)
      PROVE  Old \/ (session'.out[k] = f /\ f.id = m /\ k = Len(session.out) + 1)
  <2>1. f.id = m
    BY <1>5 DEF PublishesAs
  <2>2. CASE k \in 1 .. Len(session.out)
    BY <1>0, <1>1, <1>5, <2>2, AppendElements
  <2>3. CASE k = Len(session.out) + 1
    BY <1>0, <1>5, <2>1, <2>3, AppendElements
  <2>4. k = Len(session.out) + 1 \/ k \in 1 .. Len(session.out)
    BY <1>0, <1>5, AppendElements
  <2> QED BY <2>2, <2>3, <2>4
<1>6. CASE ClientKinds
  BY <1>2, <1>6, ClientEffects DEF Held, Old
<1>7. CASE BrokerKinds
  <2>1. \/ session'.out = session.out
        \/ \E i : session'.out = Unfinished(i) \/ session'.out = Released(i)
        \/ \E m \in unsent, q \in 1 .. 2, f \in Flight :
             PublishesAs(m, q, f) /\ session'.out = Append(session.out, f)
    BY <1>7, SessionOut DEF AnswersKnown
  <2> QED BY <1>2, <1>3, <1>4, <1>5, <2>1 DEF Old
<1> QED BY <1>6, <1>7

LEMMA StepUnsentIsNew ==
  ASSUME SessionKept, ~ReusesIds, Base, Base', AnswersKnown, UnsentIsNew, ClientKinds \/ BrokerKinds
  PROVE  UnsentIsNew'
<1> USE DEF Base
<1>0. unsent' \subseteq unsent /\ unsent \subseteq BrokerMsg
      /\ \A m, q, f : PublishesAs(m, q, f) => m \notin unsent'
  <2>1. ClientKinds => unsent' = unsent
    BY ClientEffects DEF Held
  <2>2. BrokerKinds => unsent' \subseteq unsent
    BY DEF BrokerKinds, Greets, Chats, TakesPublish, TakesPubrel, TakesAnswer, TakesPubrec,
           Publishes, PublishesAs, Held
  <2>3. \A m, q, f : PublishesAs(m, q, f) => m \notin unsent'
    BY DEF PublishesAs
  <2> QED BY <2>1, <2>2, <2>3 DEF TypeInv, BrokerTyped
<1>1. ASSUME NEW k \in 1 .. Len(session'.out) PROVE session'.out[k].msg \notin unsent'
  <2>1. ASSUME NEW j \in 1 .. Len(session.out), session'.out[k].msg = session.out[j].msg
        PROVE  session'.out[k].msg \notin unsent'
    BY <1>0, <2>1 DEF UnsentIsNew
  <2>2. ASSUME NEW m, NEW q, NEW f, PublishesAs(m, q, f), session'.out[k] = f
        PROVE  session'.out[k].msg \notin unsent'
    <3>1. f.msg = m
      BY <2>2 DEF PublishesAs
    <3> QED BY <1>0, <2>2, <3>1
  <2> QED BY <2>1, <2>2, FlightFrom
<1>2. ASSUME NEW k \in 1 .. Len(Coming'), Coming'[k].type \in Uses,
             Coming'[k].type = "PUBLISH" => Coming'[k].qos > 0
      PROVE  /\ Coming'[k].type = "PUBLISH" => Coming'[k].msg \notin unsent'
             /\ Coming'[k].type = "PUBREL" => Coming'[k].id \notin unsent'
  <2>1. ASSUME NEW j \in 1 .. Len(Coming), Coming'[k] = Coming[j]
        PROVE  /\ Coming'[k].type = "PUBLISH" => Coming'[k].msg \notin unsent'
               /\ Coming'[k].type = "PUBREL" => Coming'[k].id \notin unsent'
    BY <1>0, <1>2, <2>1 DEF UnsentIsNew
  <2>2. ASSUME k - 1 \in 1 .. Len(session'.out), Coming'[k] = Resent(session'.out[k - 1])
        PROVE  /\ Coming'[k].type = "PUBLISH" => Coming'[k].msg \notin unsent'
               /\ Coming'[k].type = "PUBREL" => Coming'[k].id \notin unsent'
    <3>1. session'.out[k - 1].id = session'.out[k - 1].msg
      BY <2>2, StepAnswersKnown DEF AnswersKnown
    <3>2. \A f : /\ Resent(f).id = f.id
                 /\ Resent(f).type = "PUBLISH" => Resent(f).msg = f.msg
      BY DEF Resent, Answer, Message
    <3> QED BY <1>1, <2>2, <3>1, <3>2
  <2>3. ASSUME NEW m, NEW q, NEW f, PublishesAs(m, q, f), Coming'[k] = Message(f, FALSE)
        PROVE  /\ Coming'[k].type = "PUBLISH" => Coming'[k].msg \notin unsent'
               /\ Coming'[k].type = "PUBREL" => Coming'[k].id \notin unsent'
    <3>1. Message(f, FALSE).msg = m /\ Message(f, FALSE).type = "PUBLISH"
      BY <2>3 DEF PublishesAs, Message
    <3> QED BY <1>0, <2>3, <3>1
  <2>4. ASSUME NEW p \in ClientPacket, Takes(p), p.type = "PUBREC", p.id = Coming'[k].id
        PROVE  p.id \notin unsent'
    <3>1. Has(wire.sent, Answers1, p.id)
      <4>1. 1 \in 1 .. Len(wire.sent) /\ wire.sent[1] = p
        BY <2>4, Sequences, TailHas DEF Takes
      <4> QED BY <2>4, <4>1 DEF Has, Answers1
    <3>2. p.id \in BrokerMsg
      BY <2>4 DEF ClientPacket
    <3>3. WasReceived(p.id)
      BY <3>1, <3>2 DEF AnswersKnown
    <3> QED BY <1>0, <3>3 DEF UnsentIsNew
  <2>5. Coming'[k].type = "PUBLISH" => Coming'[k].type # "PUBREL"
    OBVIOUS
  <2> QED BY <1>2, <2>1, <2>2, <2>3, <2>4, <2>5, ComingFrom
<1>3. ASSUME NEW m \in unsent', WasReceived(m)' PROVE FALSE
  <2>0. m \in unsent /\ m \in Msg /\ ~WasReceived(m)
    BY <1>0, BrokerAssumption DEF UnsentIsNew
  <2>1. hist.got \in [Msg \X (0 .. 2) -> Nat] /\ hist'.got \in [Msg \X (0 .. 2) -> Nat]
    BY DEF TypeInv, HistTyped
  <2>2. ASSUME NEW q \in 1 .. 2, hist'.got[<<m, q>>] = hist.got[<<m, q>>] PROVE hist'.got[<<m, q>>] = 0
    BY <2>0, <2>1, <2>2 DEF WasReceived
  <2>3. ASSUME NEW q \in 1 .. 2 PROVE hist'.got[<<m, q>>] = hist.got[<<m, q>>]
    <3>1. ASSUME NEW p \in BrokerPacket, Delivering(p) PROVE hist'.got[<<m, q>>] = hist.got[<<m, q>>]
      <4>1. 1 \in 1 .. Len(Coming) /\ Coming[1] = p
        BY <3>1, Handled DEF Delivering
      <4>2. p.msg # m
        <5>1. p.type = "PUBLISH" /\ p.qos > 0
          BY <3>1 DEF Delivering
        <5> QED BY <2>0, <4>1, <5>1 DEF UnsentIsNew
      <4>3. hist'.got = hist.got \/ hist'.got = [hist.got EXCEPT ![<<p.msg, p.qos>>] = @ + 1]
        BY <3>1 DEF Delivering
      <4> QED BY <2>0, <2>1, <4>2, <4>3
    <3>2. \/ \A n \in Msg : \A r \in 1 .. 2 : hist'.got[<<n, r>>] = hist.got[<<n, r>>]
          \/ Delivers
      BY GotSame
    <3> QED BY <2>0, <3>1, <3>2 DEF Delivers
  <2> QED BY <1>3, <2>2, <2>3 DEF WasReceived
<1> QED BY <1>1, <1>2, <1>3 DEF UnsentIsNew, Uses

LEMMA StepOneFlight ==
  ASSUME SessionKept, ~ReusesIds, Base, Base', AnswersKnown, UnsentIsNew, OneFlight,
         ClientKinds \/ BrokerKinds
  PROVE  OneFlight'
<1> USE DEF Base
<1> SUFFICES ASSUME NEW j \in 1 .. Len(session'.out), NEW k \in 1 .. Len(session'.out),
                    session'.out[j].id = session'.out[k].id
             PROVE  session'.out[j] = session'.out[k]
  BY DEF OneFlight
<1>0. session.out \in Seq(Flight) /\ session'.out \in Seq(Flight)
  BY DEF TypeInv, BrokerTyped
<1>1. CASE session'.out = session.out
  BY <1>1 DEF OneFlight
<1>2. ASSUME NEW i, session'.out = Unfinished(i) PROVE session'.out[j] = session'.out[k]
  <2>1. PICK a \in 1 .. Len(session.out) : session'.out[j] = session.out[a]
    BY <1>2, UnfinishedOut
  <2>2. PICK b \in 1 .. Len(session.out) : session'.out[k] = session.out[b]
    BY <1>2, UnfinishedOut
  <2> QED BY <2>1, <2>2 DEF OneFlight
<1>3. ASSUME NEW i, session'.out = Released(i) PROVE session'.out[j] = session'.out[k]
  <2>1. j \in 1 .. Len(session.out) /\ k \in 1 .. Len(session.out)
    BY <1>3, ReleasedSame
  <2>2. session.out[j].id = session.out[k].id
    BY <1>3, <2>1, ReleasedSame
  <2>3. session.out[j] = session.out[k]
    BY <2>1, <2>2 DEF OneFlight
  <2>4. /\ session'.out[j] = [session.out[j] EXCEPT !.released = @ \/ session.out[j].id = i]
        /\ session'.out[k] = [session.out[k] EXCEPT !.released = @ \/ session.out[k].id = i]
    BY <1>3, <2>1, ReleasedOut
  <2> QED BY <2>3, <2>4
<1>4. ASSUME NEW m \in unsent, NEW q, NEW f \in Flight, PublishesAs(m, q, f), q # 0,
             session'.out = Append(session.out, f)
      PROVE  session'.out[j] = session'.out[k]
  <2>1. f.id = m
    BY <1>4 DEF PublishesAs
  <2>2. \A n \in 1 .. Len(session.out) : session.out[n].id # m
    BY DEF UnsentIsNew, AnswersKnown
  <2>3. \A n \in 1 .. Len(session'.out) :
          \/ session'.out[n] = f
          \/ n \in 1 .. Len(session.out) /\ session'.out[n] = session.out[n]
    BY <1>0, <1>4, AppendElements
  <2>4. CASE session'.out[j] = f
    <3>1. session'.out[k] = f
      BY <2>1, <2>2, <2>3, <2>4
    <3> QED BY <2>4, <3>1
  <2>5. CASE j \in 1 .. Len(session.out) /\ session'.out[j] = session.out[j]
    <3>1. k \in 1 .. Len(session.out) /\ session'.out[k] = session.out[k]
      BY <2>1, <2>2, <2>3, <2>5
    <3> QED BY <2>5, <3>1 DEF OneFlight
  <2> QED BY <2>3, <2>4, <2>5
<1>5. CASE ClientKinds
  BY <1>1, <1>5, ClientEffects DEF Held
<1>6. CASE BrokerKinds
  BY <1>1, <1>2, <1>3, <1>4, <1>6, SessionOut DEF AnswersKnown
<1> QED BY <1>5, <1>6

LEMMA StepReleasesInOrder ==
  ASSUME SessionKept, ~ReusesIds, Base, Base', AnswersKnown, AnswersKnown', UnsentIsNew, UnsentIsNew',
         OneFlight', ReleasesInOrder, ClientKinds \/ BrokerKinds
  PROVE  ReleasesInOrder'
<1> USE DEF Base
<1>0. \A f : /\ Resent(f).id = f.id
             /\ Resent(f).type = "PUBREL" => f.released
             /\ Resent(f).type = "PUBLISH" => ~f.released
  BY DEF Resent, Answer, Message
<1>1. ASSUME NEW j \in 1 .. Len(Coming'), NEW k \in 1 .. Len(Coming'), j < k,
             Coming'[j].type = "PUBREL", Coming'[k].type = "PUBLISH", Coming'[j].id = Coming'[k].id
      PROVE  FALSE
  <2>1. CASE Greets
    <3>1. \A n \in 1 .. Len(Coming') : Coming'[n].type \in Uses =>
            n - 1 \in 1 .. Len(session'.out) /\ Coming'[n] = Resent(session'.out[n - 1])
      <4>1. \A present : Connack(TRUE, present).type \notin Uses
        BY DEF Connack, Uses
      <4> QED BY <2>1, <4>1 DEF Greets
    <3>2. /\ j - 1 \in 1 .. Len(session'.out) /\ Coming'[j] = Resent(session'.out[j - 1])
          /\ k - 1 \in 1 .. Len(session'.out) /\ Coming'[k] = Resent(session'.out[k - 1])
      BY <1>1, <3>1 DEF Uses
    <3>3. session'.out[j - 1] = session'.out[k - 1]
      BY <1>0, <1>1, <3>2 DEF OneFlight
    <3> QED BY <1>1, <3>2, <3>3
  <2>2. CASE ~Greets
    <3>1. PICK a \in 1 .. Len(Coming) :
            /\ Coming'[j] = Coming[a]
            /\ \/ \E b \in 1 .. Len(Coming) : a < b /\ Coming'[k] = Coming[b]
               \/ k = Len(Coming) + 1 /\ BrokerKinds
      BY <1>1, <2>2, ComingOrder
    <3>2. ASSUME NEW b \in 1 .. Len(Coming), a < b, Coming'[k] = Coming[b] PROVE FALSE
      BY <1>1, <3>1, <3>2 DEF ReleasesInOrder
    <3>3. CASE k = Len(Coming) + 1 /\ BrokerKinds
      <4>1. \/ Coming' = Coming
            \/ \E x \in BrokerPacket : Brings(x) /\ x.type # "PUBLISH"
            \/ \E m \in unsent, q \in OutQos : \E f :
                 PublishesAs(m, q, f) /\ Brings(Message(f, FALSE))
        BY <2>2, <3>3, BrokerBrings
      <4>2. Len(Coming) \in Nat
        BY Sequences
      <4>3. Coming' # Coming
        BY <3>3, <4>2
      <4>4. ASSUME NEW x, Brings(x) PROVE Coming'[k] = x
        <5>1. k \notin 1 .. Len(Coming)
          BY <3>3, <4>2
        <5> QED BY <4>4, <5>1, BringsElements
      <4>5. ASSUME NEW m \in unsent, NEW q \in OutQos, NEW f, PublishesAs(m, q, f),
                   Brings(Message(f, FALSE))
            PROVE  FALSE
        <5>1. Coming'[k] = Message(f, FALSE)
          BY <4>4, <4>5
        <5>2. Message(f, FALSE).id = f.id /\ Message(f, FALSE).qos = q
          BY <4>5 DEF PublishesAs, Message
        <5>3. Coming[a].id \in BrokerMsg /\ Coming[a].id \notin unsent
          <6>1. Coming[a] \in BrokerPacket /\ Coming[a].type = "PUBREL"
            BY <1>1, <3>1, Sequences
          <6> QED BY <6>1 DEF BrokerPacket, UnsentIsNew
        <5>4. f.id = Coming[a].id
          BY <1>1, <3>1, <5>1, <5>2
        <5>5. Coming'[k] \in BrokerPacket
          BY <1>1, Sequences, ConcatProperties DEF TypeInv, IncomingTyped, Coming
        <5>6. q # 0
          <6>1. Coming'[k].qos = q
            BY <5>1, <5>2, Zenon
          <6>2. Coming'[k].id # 0
            BY <1>1, <3>1, <5>3, BrokerAssumption
          <6> QED BY <1>1, <5>5, <6>1, <6>2 DEF BrokerPacket
        <5> QED BY <4>5, <5>3, <5>4, <5>6 DEF PublishesAs
      <4> QED BY <1>1, <4>1, <4>3, <4>4, <4>5
    <3> QED BY <3>1, <3>2, <3>3
  <2> QED BY <2>1, <2>2
<1>2. ASSUME NEW j \in 1 .. Len(Coming'), NEW k \in 1 .. Len(session'.out),
             Coming'[j].type = "PUBREL", Coming'[j].id = session'.out[k].id
      PROVE  session'.out[k].released
  <2>1. ASSUME NEW i \in 1 .. Len(Coming), Coming'[j] = Coming[i] PROVE session'.out[k].released
    <3>1. ASSUME NEW n \in 1 .. Len(session.out), session'.out[k].id = session.out[n].id,
                 session.out[n].released => session'.out[k].released
          PROVE  session'.out[k].released
      BY <1>2, <2>1, <3>1 DEF ReleasesInOrder
    <3>2. ASSUME NEW m \in unsent, NEW f, session'.out[k] = f, f.id = m PROVE FALSE
      BY <1>2, <2>1, <3>2 DEF UnsentIsNew
    <3> QED BY <3>1, <3>2, FlightFrom
  <2>2. ASSUME j - 1 \in 1 .. Len(session'.out), Coming'[j] = Resent(session'.out[j - 1])
        PROVE  session'.out[k].released
    <3>1. session'.out[j - 1].id = session'.out[k].id
      BY <1>0, <1>2, <2>2
    <3>2. session'.out[j - 1] = session'.out[k]
      BY <2>2, <3>1 DEF OneFlight
    <3> QED BY <1>0, <1>2, <2>2, <3>2
  <2>3. ASSUME NEW p, p.id = Coming'[j].id, session'.out = Released(p.id)
        PROVE  session'.out[k].released
    <3>1. k \in 1 .. Len(session.out)
      BY <2>3, ReleasedSame
    <3>2. session.out[k].id = p.id
      BY <1>2, <2>3, <3>1, ReleasedSame
    <3> QED BY <2>3, <3>1, <3>2, ReleasedSame
  <2> QED BY <1>2, <2>1, <2>2, <2>3, ComingFrom DEF Uses
<1>3. \A j, k \in 1 .. Len(Coming') :
        j < k /\ Coming'[j].type = "PUBREL" /\ Coming'[k].type = "PUBLISH"
        => Coming'[j].id # Coming'[k].id
  BY <1>1
<1>4. \A j \in 1 .. Len(Coming') : \A k \in 1 .. Len(session'.out) :
        Coming'[j].type = "PUBREL" /\ Coming'[j].id = session'.out[k].id => session'.out[k].released
  BY <1>2
<1> QED BY <1>3, <1>4 DEF ReleasesInOrder

LEMMA StepPubrecInSession ==
  ASSUME SessionKept, Base, Base', PubrecInSession, ClientKinds \/ BrokerKinds
  PROVE  PubrecInSession'
<1> USE DEF Base
<1>0. session.present => session'.present
  BY ClientEffects, BrokerEffects DEF Held
<1>1. ASSUME NEW k \in 1 .. Len(Coming'), Coming'[k].type = "PUBLISH", Coming'[k].qos > 0
      PROVE  session'.present
  <2>1. ASSUME NEW j \in 1 .. Len(Coming), Coming'[k] = Coming[j] PROVE session'.present
    BY <1>0, <1>1, <2>1 DEF PubrecInSession
  <2>2. Greets => session'.present
    BY <1>0 DEF Greets
  <2>3. \A m, q, f : PublishesAs(m, q, f) => session.present
    BY DEF PublishesAs
  <2> QED BY <1>0, <1>1, <2>1, <2>2, <2>3, ComingFrom DEF Uses
<1>2. ASSUME NEW m \in BrokerMsg, Has(outbox'.q, {"PUBREC"}, m)
      PROVE  \/ Has(outbox.q, {"PUBREC"}, m)
             \/ session.present /\ \E p \in BrokerPacket : Handles(p)
  <2>1. CASE ClientKinds
    <3>1. ASSUME NEW x, Comes(x), x.type = "PUBREC"
          PROVE  session.present /\ \E p \in BrokerPacket : Handles(p)
      <4>1. PICK p \in BrokerPacket : Delivering(p)
        BY <3>1 DEF Comes, Asks
      <4>2. Handles(p) /\ p.type = "PUBLISH" /\ p.qos > 0
        BY <4>1 DEF Delivering
      <4>3. 1 \in 1 .. Len(Coming) /\ Coming[1] = p
        BY <4>2, Handled
      <4> QED BY <4>2, <4>3 DEF PubrecInSession
    <3>2. m # 0
      BY BrokerAssumption
    <3> QED BY <1>2, <2>1, <3>1, <3>2, OutboxHas
  <2>2. CASE BrokerKinds
    BY <1>2, <2>2, BrokerEffects DEF Untouched
  <2> QED BY <2>1, <2>2
<1>3. ASSUME NewSessionComes', NEW m \in BrokerMsg, Has(outbox'.q, {"PUBREC"}, m) PROVE FALSE
  <2>1. CASE NewSessionComes /\ ~(\E p \in BrokerPacket : Handles(p))
    BY <1>2, <1>3, <2>1 DEF PubrecInSession
  <2>2. CASE ~session.present
    BY <1>2, <1>3, <2>2 DEF PubrecInSession
  <2> QED BY <1>3, <2>1, <2>2, NewSessionFrom
<1> QED BY <1>0, <1>1, <1>2, <1>3 DEF PubrecInSession

\* Packet ids of both sides are independent.  An UNSUBACK takes any packet with its id
\* out of the outbox, the PUBREC that stands for a message of the broker too
\* (MqttClient.cpp:693-707), so no UNSUBSCRIBE may have the id of such a message.
UnsubIdsForeign == \A i \in BrokerMsg : ~HasUnsubscribe(i)

\* What onMessage gets first is noted.
LEMMA NewlyGot ==
  ASSUME ~MayFail, Base, Base', AnswersKnown, ClientKinds \/ BrokerKinds,
         NEW m \in BrokerMsg, Got2(hist, m) = 0, Got2(hist', m) # 0
  PROVE  Has(outbox'.q, {"PUBREC"}, m)
<1> USE DEF Base
<1>0. m \in Msg /\ hist.got \in [Msg \X (0 .. 2) -> Nat]
  BY BrokerAssumption DEF TypeInv, HistTyped
<1>1. Delivers
  <2> SUFFICES ASSUME \A n \in Msg : \A q \in 1 .. 2 : hist'.got[<<n, q>>] = hist.got[<<n, q>>]
               PROVE  FALSE
    BY GotSame
  <2>1. 2 \in 1 .. 2
    OBVIOUS
  <2>2. hist'.got[<<m, 2>>] = hist.got[<<m, 2>>]
    BY <1>0, <2>1, Zenon
  <2> QED BY <2>2 DEF Got2
<1>2. PICK p \in BrokerPacket : Delivering(p)
  BY <1>1 DEF Delivers
<1>3. hist'.got = [hist.got EXCEPT ![<<p.msg, p.qos>>] = @ + 1]
  BY <1>2 DEF Delivering, Got2
<1>4. p.msg = m /\ p.qos = 2
  BY <1>0, <1>3 DEF Got2
<1>5. p.id = m
  <2>1. Handles(p) /\ p.type = "PUBLISH"
    BY <1>2 DEF Delivering
  <2>2. 1 \in 1 .. Len(Coming) /\ Coming[1] = p
    BY <2>1, Handled
  <2> QED BY <1>4, <2>1, <2>2 DEF AnswersKnown
<1>6. outbox'.q = Append(outbox.q, Ctl("PUBREC", p.id))
  BY <1>2, <1>4 DEF Delivering
<1>7. Ctl("PUBREC", p.id) \in ClientPacket
  BY <1>5, CtlTyped
<1>8. Ctl("PUBREC", p.id).type = "PUBREC" /\ Ctl("PUBREC", p.id).id = m
  BY <1>5 DEF Ctl
<1> DEFINE x == Ctl("PUBREC", p.id)
<1> HIDE DEF x
<1>9. x \in ClientPacket /\ x.type = "PUBREC" /\ x.id = m /\ outbox'.q = Append(outbox.q, x)
  BY <1>6, <1>7, <1>8 DEF x
<1> QED BY <1>9, Sequences, AppendHas

\* PUBREC leaves the outbox only for the PUBREL of the broker.
LEMMA KeepsPubrec ==
  ASSUME Base, Base', Known, PubrecInSession, ClientKinds, left["clearAll"] = Budget["clearAll"],
         UnsubIdsForeign, NEW m \in BrokerMsg, Has(outbox.q, {"PUBREC"}, m)
  PROVE  Has(outbox'.q, {"PUBREC"}, m) \/ Arrives("PUBREL", m)
<1> USE DEF Base
<1>1. m # 0
  BY BrokerAssumption
<1>2. Has(outbox'.q, {"PUBREC"}, m) \/ Gone("PUBREC", m)
  BY <1>1, OutboxKeeps DEF Exchange
<1>3. ~ClearsAll
  BY NothingCleared
<1>4. ~NewSession
  <2>1. ASSUME NEW p \in BrokerPacket, Handles(p), p.type = "CONNACK", p.ok, ~p.sessionPresent
        PROVE  NewSessionComes
    <3>1. 1 \in 1 .. Len(Coming) /\ Coming[1] = p
      BY <2>1, Handled
    <3> QED BY <2>1, <3>1 DEF NewSessionComes
  <2> QED BY <2>1 DEF NewSession, PubrecInSession
<1>5. ~Arrives("UNSUBACK", m)
  <2> SUFFICES ASSUME Arrives("UNSUBACK", m) PROVE FALSE
    OBVIOUS
  <2>1. m \in 1 .. MaxId
    BY DEF Arrives, BrokerPacket
  <2>2. Has(Coming, {"UNSUBACK"}, m)
    BY ArrivesHas
  <2> QED BY <2>1, <2>2 DEF Known, UnsubKnown, UnsubIdsForeign
<1> QED BY <1>2, <1>3, <1>4, <1>5 DEF Gone

LEMMA StepReceivedIsNoted ==
  ASSUME SessionKept, ~MayFail, ~ReusesIds, Base, Base', Known, AnswersKnown, AnswersKnown',
         UnsentIsNew, ReleasesInOrder, PubrecInSession, ReceivedIsNoted, ClientKinds \/ BrokerKinds,
         left["clearAll"] = Budget["clearAll"], UnsubIdsForeign
  PROVE  ReceivedIsNoted'
<1> USE DEF Base
<1>0. /\ hist.got \in [Msg \X (0 .. 2) -> Nat] /\ hist'.got \in [Msg \X (0 .. 2) -> Nat]
      /\ \A m \in Msg : Got2(hist, m) \in Nat /\ Got2(hist', m) \in Nat
      /\ BrokerMsg \subseteq Msg
  BY BrokerAssumption DEF TypeInv, HistTyped, Got2
<1>1. /\ session.out \in Seq(Flight) /\ session'.out \in Seq(Flight)
      /\ Coming \in Seq(BrokerPacket) /\ Coming' \in Seq(BrokerPacket)
  BY Sequences, ConcatProperties DEF TypeInv, BrokerTyped, IncomingTyped, Coming
<1>2. BrokerKinds => outbox' = outbox /\ hist' = hist
  BY BrokerEffects DEF Untouched
\* A message that was noted still is, unless its PUBREL arrives.
<1>3. ASSUME NEW m \in BrokerMsg, Got2(hist', m) > 0,
             Got2(hist, m) > 0 => Has(outbox.q, {"PUBREC"}, m),
             ClientKinds => ~Arrives("PUBREL", m)
      PROVE  Has(outbox'.q, {"PUBREC"}, m)
  <2>1. CASE Got2(hist, m) = 0
    BY <1>0, <1>3, <2>1, NewlyGot
  <2>2. CASE Got2(hist, m) > 0
    BY <1>2, <1>3, <2>2, KeepsPubrec
  <2> QED BY <1>0, <2>1, <2>2
<1>4. ASSUME NEW k \in 1 .. Len(session'.out), ~session'.out[k].released, session'.out[k].qos = 2,
             Got2(hist', session'.out[k].msg) > 0
      PROVE  Has(outbox'.q, {"PUBREC"}, session'.out[k].id)
  <2>1. session'.out[k].id = session'.out[k].msg /\ session'.out[k].msg \in BrokerMsg
    <3>1. session'.out[k] \in Flight
      BY <1>1
    <3>2. session'.out[k].id = session'.out[k].msg
      BY DEF AnswersKnown
    <3> QED BY <3>1, <3>2 DEF Flight
  <2>2. ASSUME NEW j \in 1 .. Len(session.out),
               session'.out[k].id = session.out[j].id, session'.out[k].msg = session.out[j].msg,
               session'.out[k].qos = session.out[j].qos, ~session.out[j].released
        PROVE  Has(outbox'.q, {"PUBREC"}, session'.out[k].id)
    <3>1. Got2(hist, session'.out[k].msg) > 0 => Has(outbox.q, {"PUBREC"}, session'.out[k].id)
      BY <1>4, <2>2 DEF ReceivedIsNoted
    <3>2. ASSUME NEW p \in BrokerPacket, Handles(p), p.type = "PUBREL", p.id = session'.out[k].id
          PROVE  FALSE
      <4>1. 1 \in 1 .. Len(Coming) /\ Coming[1] = p
        BY <3>2, Handled
      <4> QED BY <2>2, <3>2, <4>1 DEF ReleasesInOrder
    <3> QED BY <1>3, <1>4, <2>1, <3>1, <3>2 DEF Arrives
  <2>3. ASSUME NEW m \in unsent, NEW q, NEW f, PublishesAs(m, q, f), session'.out[k] = f PROVE FALSE
    <3>1. f.msg = m /\ hist' = hist
      BY <2>3 DEF PublishesAs, Untouched
    <3>2. ~WasReceived(m)
      BY DEF UnsentIsNew
    <3>3. Got2(hist', m) = Got2(hist, m) /\ m \in BrokerMsg
      BY <2>1, <2>3, <3>1 DEF Got2
    <3>4. Got2(hist, m) > 0
      BY <1>4, <2>3, <3>1, <3>3
    <3> QED BY <3>2, <3>4 DEF WasReceived, Got2
  <2> QED BY <1>4, <2>2, <2>3, FlightFrom
<1>5. ASSUME NEW k \in 1 .. Len(Coming'), Coming'[k].type = "PUBLISH", Coming'[k].qos = 2,
             Got2(hist', Coming'[k].msg) > 0
      PROVE  Has(outbox'.q, {"PUBREC"}, Coming'[k].id)
  <2>1. Coming'[k].id = Coming'[k].msg /\ Coming'[k].msg \in BrokerMsg
    <3>1. Coming'[k] \in BrokerPacket
      BY <1>1
    <3> QED BY <1>5, <3>1 DEF AnswersKnown, BrokerPacket
  <2>2. ASSUME NEW j \in 1 .. Len(Coming), Coming'[k] = Coming[j],
               ClientKinds => ~Arrives("PUBREL", Coming[j].id)
        PROVE  Has(outbox'.q, {"PUBREC"}, Coming'[k].id)
    <3>1. Got2(hist, Coming'[k].msg) > 0 => Has(outbox.q, {"PUBREC"}, Coming'[k].id)
      BY <1>5, <2>2 DEF ReceivedIsNoted
    <3> QED BY <1>3, <1>5, <2>1, <2>2, <3>1
  <2>3. ClientKinds => \E j \in 1 .. Len(Coming) :
                         Coming'[k] = Coming[j] /\ ~Arrives("PUBREL", Coming[j].id)
    <3> SUFFICES ASSUME ClientKinds
                 PROVE  \E j \in 1 .. Len(Coming) :
                          Coming'[k] = Coming[j] /\ ~Arrives("PUBREL", Coming[j].id)
      OBVIOUS
    <3>1. CASE \E p \in BrokerPacket : Handles(p) /\ p.type = "PUBREL"
      <4>1. PICK p \in BrokerPacket : Handles(p) /\ p.type = "PUBREL"
        BY <3>1
      <4>2. 1 \in 1 .. Len(Coming) /\ Coming[1] = p
            /\ k + 1 \in 2 .. Len(Coming) /\ Coming'[k] = Coming[k + 1]
        BY <4>1, Handled
      <4>3. Coming[1].id # Coming[k + 1].id
        BY <1>5, <4>1, <4>2 DEF ReleasesInOrder
      <4>4. \A r : Handles(r) => r = p
        BY <4>1 DEF Handles
      <4> QED BY <4>2, <4>3, <4>4 DEF Arrives
    <3>2. CASE ~ \E p \in BrokerPacket : Handles(p) /\ p.type = "PUBREL"
      <4>1. \E j \in 1 .. Len(Coming) : Coming'[k] = Coming[j]
        <5>1. Piece(Coming', Coming)
          BY ClientEffects
        <5>2. \A n \in 1 .. Len(Coming') : \E j \in 1 .. Len(Coming) : j >= n /\ Coming'[n] = Coming[j]
          BY <1>1, <5>1, PieceHas
        <5> QED BY <5>2
      <4> QED BY <3>2, <4>1 DEF Arrives
    <3> QED BY <3>1, <3>2
  <2>4. ASSUME BrokerKinds, Greets, k - 1 \in 1 .. Len(session'.out),
               Coming'[k] = Resent(session'.out[k - 1])
        PROVE  Has(outbox'.q, {"PUBREC"}, Coming'[k].id)
    <3>1. \A f : Resent(f).type = "PUBLISH" =>
            ~f.released /\ Resent(f).id = f.id /\ Resent(f).qos = f.qos /\ Resent(f).msg = f.msg
      BY DEF Resent, Answer, Message
    <3> QED BY <1>4, <1>5, <2>4, <3>1
  <2>5. ASSUME NEW m \in unsent, NEW q, NEW f, PublishesAs(m, q, f), Coming'[k] = Message(f, FALSE)
        PROVE  FALSE
    <3>1. Message(f, FALSE).msg = m /\ hist' = hist
      BY <2>5 DEF PublishesAs, Untouched, Message
    <3>2. ~WasReceived(m)
      BY DEF UnsentIsNew
    <3>3. Got2(hist', m) = Got2(hist, m)
      BY <3>1 DEF Got2
    <3>4. Got2(hist, m) > 0
      BY <1>5, <2>5, <3>1, <3>3
    <3> QED BY <3>2, <3>4 DEF WasReceived, Got2
  <2>6. ClientKinds \/ (BrokerKinds /\ ~ClientKinds)
    OBVIOUS
  <2>7. Coming'[k].type \in Uses /\ Coming'[k].type # "PUBREL"
    BY <1>5 DEF Uses
  <2>8. CASE BrokerKinds /\ ~ClientKinds
    BY <2>2, <2>4, <2>5, <2>7, <2>8, ComingFrom
  <2> QED BY <2>2, <2>3, <2>6, <2>8
<1>6. ASSUME NEW m \in Msg PROVE Got2(hist', m) <= 1
  <2>0. Got2(hist, m) <= 1
    BY DEF ReceivedIsNoted
  <2>1. ASSUME NEW p \in BrokerPacket, Delivering(p) PROVE Got2(hist', m) <= 1
    <3>1. Handles(p) /\ p.type = "PUBLISH" /\ p.qos \in 1 .. 2
      BY <2>1 DEF Delivering
    <3>2. 1 \in 1 .. Len(Coming) /\ Coming[1] = p
      BY <3>1, Handled
    <3>3. CASE p.qos = 2 /\ p.msg = m /\ ~Has(outbox.q, {"PUBREC"}, p.id)
      <4>1. ~(Got2(hist, m) > 0)
        BY <3>1, <3>2, <3>3 DEF ReceivedIsNoted
      <4>2. hist'.got = [hist.got EXCEPT ![<<p.msg, p.qos>>] = @ + 1]
        BY <2>1, <3>3 DEF Delivering
      <4>3. Got2(hist', m) = Got2(hist, m) + 1
        BY <1>0, <3>3, <4>2 DEF Got2
      <4> QED BY <1>0, <4>1, <4>3
    <3>4. CASE ~(p.qos = 2 /\ p.msg = m /\ ~Has(outbox.q, {"PUBREC"}, p.id))
      <4>1. \/ hist'.got = hist.got
            \/ ~(p.qos = 2 /\ p.msg = m) /\ hist'.got = [hist.got EXCEPT ![<<p.msg, p.qos>>] = @ + 1]
        BY <2>1, <3>4 DEF Delivering
      <4>2. Got2(hist', m) = Got2(hist, m)
        BY <1>0, <4>1 DEF Got2
      <4> QED BY <2>0, <4>2
    <3> QED BY <3>3, <3>4
  <2>2. CASE \A n \in Msg : \A q \in 1 .. 2 : hist'.got[<<n, q>>] = hist.got[<<n, q>>]
    <3>1. 2 \in 1 .. 2
      OBVIOUS
    <3>2. hist'.got[<<m, 2>>] = hist.got[<<m, 2>>]
      BY <2>2, <3>1, Zenon
    <3> QED BY <2>0, <3>2 DEF Got2
  <2> QED BY <2>1, <2>2, GotSame DEF Delivers
<1>7. \A k \in 1 .. Len(Coming') :
        Coming'[k].type = "PUBLISH" /\ Coming'[k].qos = 2 /\ Got2(hist', Coming'[k].msg) > 0
        => Has(outbox'.q, {"PUBREC"}, Coming'[k].id)
  BY <1>5
<1>8. \A k \in 1 .. Len(session'.out) :
        ~session'.out[k].released /\ session'.out[k].qos = 2 /\ Got2(hist', session'.out[k].msg) > 0
        => Has(outbox'.q, {"PUBREC"}, session'.out[k].id)
  BY <1>4
<1> QED BY <1>6, <1>7, <1>8 DEF ReceivedIsNoted

OnceIn == ~SessionDeleted /\ UnsubIdsForeign => ReceivedIsNoted
InOrder == UnsentIsNew /\ OneFlight /\ ReleasesInOrder /\ PubrecInSession

LEMMA InitOnceIn == Init => InOrder /\ OnceIn /\ AnswersKnown
<1> SUFFICES ASSUME Init PROVE InOrder /\ OnceIn /\ AnswersKnown
  OBVIOUS
<1>1. /\ session = NoSession /\ outbox = EmptyOutbox /\ wire = NewWire({})
      /\ rx = <<>> /\ s2c = <<>> /\ hist.got = [x \in Msg \X (0 .. 2) |-> 0]
      /\ unsent = BrokerMsg
  BY DEF Init, ClientInit, BrokerInit
<1>2. outbox.q = <<>> /\ wire.sent = <<>> /\ session.out = <<>> /\ Coming = <<>>
  BY <1>1, ConcatProperties DEF EmptyOutbox, NewWire, NoSession, Coming
<1>3. \A types, i : ~Has(<<>>, types, i)
  BY DEF Has
<1>4. \A m \in Msg : \A q \in 1 .. 2 : hist.got[<<m, q>>] = 0
  BY <1>1
<1>5. UnsentIsNew
  BY <1>1, <1>2, <1>4, BrokerAssumption DEF UnsentIsNew, WasReceived
<1>6. OneFlight /\ ReleasesInOrder
  BY <1>2 DEF OneFlight, ReleasesInOrder
<1>7. PubrecInSession
  BY <1>2, <1>3 DEF PubrecInSession, NewSessionComes
<1>8. ReceivedIsNoted
  <2>1. 2 \in 1 .. 2
    OBVIOUS
  <2>2. \A m \in Msg : hist.got[<<m, 2>>] = 0
    BY <1>4, <2>1, Zenon
  <2> QED BY <1>2, <2>2 DEF ReceivedIsNoted, Got2
<1>9. AnswersKnown
  BY <1>2, <1>3 DEF AnswersKnown
<1> QED BY <1>5, <1>6, <1>7, <1>8, <1>9 DEF InOrder, OnceIn

LEMMA StepOnceIn ==
  ASSUME SessionKept, ~MayFail, ~ReusesIds, Base, Base', Known, AnswersKnown, InOrder, OnceIn,
         [Next]_vars
  PROVE  AnswersKnown' /\ InOrder' /\ OnceIn'
<1>1. ClientKinds \/ BrokerKinds
  BY StepIs
<1>2. AnswersKnown'
  BY <1>1, StepAnswersKnown
<1>3. UnsentIsNew'
  BY <1>1, StepUnsentIsNew DEF InOrder
<1>4. OneFlight'
  BY <1>1, StepOneFlight DEF InOrder
<1>5. ReleasesInOrder'
  BY <1>1, <1>2, <1>3, <1>4, StepReleasesInOrder DEF InOrder
<1>6. PubrecInSession'
  BY <1>1, StepPubrecInSession DEF InOrder
<1>7. OnceIn'
  <2> SUFFICES ASSUME ~SessionDeleted', UnsubIdsForeign' PROVE ReceivedIsNoted'
    BY DEF OnceIn
  <2>1. ~SessionDeleted /\ left["clearAll"] = Budget["clearAll"]
    BY StillAllowed
  <2>2. UnsubIdsForeign
    BY <1>1, AskedGrows DEF Base, UnsubIdsForeign
  <2> QED BY <1>1, <1>2, <2>1, <2>2, StepReceivedIsNoted DEF InOrder, OnceIn
<1> QED BY <1>2, <1>3, <1>4, <1>5, <1>6, <1>7 DEF InOrder

\* While the session is kept and memory suffices, onMessage is called at most once
\* for a QoS 2 message of a broker that uses no id twice: PUBREC stands for the id
\* in the outbox until PUBREL arrives, through lost connections, retransmissions and
\* clearQueue(false), unless the application deletes the session or sends UNSUBSCRIBE
\* with an id that the broker uses too (MqttClient.cpp:521-560, 617-635, 693-734).
THEOREM ReceivedOnce ==
  ASSUME SessionKept, ~MayFail, ~ReusesIds
  PROVE  Spec => [](UnsubIdsForeign => AtMostOnceIn)
<1> DEFINE Inv == AnswersKnown /\ InOrder /\ OnceIn
<1>1. Init => Inv
  BY InitOnceIn
<1>2. Inv /\ Base /\ Base' /\ Known /\ [Next]_vars => Inv'
  BY StepOnceIn
<1>3. Spec => [](Base /\ Known)
  BY KnownInvariant
<1>4. Inv => (UnsubIdsForeign => AtMostOnceIn)
  BY DEF OnceIn, ReceivedIsNoted, AtMostOnceIn, Got2
<1> HIDE DEF Inv
<1> QED BY <1>1, <1>2, <1>3, <1>4, PTL DEF Spec
=============================================================================

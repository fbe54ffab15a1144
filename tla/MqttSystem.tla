------------------------------ MODULE MqttSystem ------------------------------
(****************************************************************************)
(* The client and a broker on one TCP connection at a time, and what they   *)
(* promise together.                                                        *)
(****************************************************************************)
EXTENDS MqttClient

CONSTANTS CleanSession, OutQos, ReusesIds, Refuses, LosesSession, MaxDrops,
          BrokerMsg

ASSUME BrokerAssumption ==
  /\ {CleanSession, ReusesIds, Refuses, LosesSession} \subseteq BOOLEAN
  /\ OutQos \subseteq 0 .. 2 /\ MaxDrops \in Nat
  /\ BrokerMsg \subseteq Msg /\ Msg \subseteq Nat \ {0}

VARIABLES bConn, session, unsent, passedOn, drops

INSTANCE Broker

brokerVars == <<bConn, session, unsent, passedOn, drops>>
vars == <<clientVars, brokerVars>>

Init == ClientInit /\ BrokerInit(1 .. MaxId)

ClientStep == (LoopNext \/ AppNext \/ TimePasses) /\ UNCHANGED brokerVars
ConnectStep == TcpConnect /\ Accept
BrokerStep == (Answers \/ PublishMessage) /\ UNCHANGED <<client, control, app>>
LossStep == ConnectionLost /\ UNCHANGED <<client, control, app>>

Next == ClientStep \/ ConnectStep \/ BrokerStep \/ LossStep

Spec == Init /\ [][Next]_vars

\* loop() is called again and again (docs/index.md, Code samples), a call
\* returns, and time passes.  Nothing is assumed of the broker or the network.
Fairness ==
  /\ WF_vars(LoopNext /\ UNCHANGED brokerVars)
  /\ WF_vars(ConnectStep)
  /\ SF_vars(TimePasses /\ UNCHANGED brokerVars)
  /\ \A t \in Thread : WF_vars(Act(t) /\ UNCHANGED brokerVars)

FairSpec == Spec /\ Fairness

\* A broker that answers what it gets, and a socket that does not refuse bytes
\* for ever.
BrokerFairness ==
  /\ WF_vars(Answers /\ UNCHANGED <<client, control, app>>)
  /\ SF_vars(SendPacket /\ wire' # wire /\ UNCHANGED brokerVars)
-----------------------------------------------------------------------------
Packet == [type : AllTypes, id : (0 .. MaxId) \cup Msg, qos : 0 .. 2, dup : BOOLEAN]

\* None is no half a packet on the wire either.
ASSUME PartAssumption == None \notin [pkt : Packet, off : 0 .. PubSize]

\* The variables of the client have their types and the cursor is a position
\* of the outbox (MqttClient.h:102-147).
TypeOK ==
  /\ state \in State
  /\ Range(outbox.q) \subseteq Packet /\ outbox.c \in 1 .. Len(outbox.q) + 1
  /\ bytesSent \in (0 .. PubSize) \cup {SizeMax} /\ packetId \in 0 .. MaxId
  /\ pingSent \in BOOLEAN
  /\ reason \in {"TCP_DISCONNECTED", "USER_OK", "REFUSED"}
  /\ idle \in [srv : 0 .. 2, cli : 0 .. 1, passes : 0 .. MinPasses]
  /\ branch \in {"mqtt", "full"} /\ (lpc = "parse" => rx # <<>>)
  /\ apc \in [Thread -> Calls \cup {None}]
  /\ tcp \in {"closed", "open", "reset"}
  /\ Range(wire.sent) \subseteq Packet

Published == {p \in hist.asked : p.type = "PUBLISH" /\ p.qos > 0}

\* A QoS 1 or 2 message that publish() accepted is delivered or still in the
\* outbox, through lost connections, lost sessions, retransmissions and
\* _clearQueue(0) (MqttClient.cpp:591, 718).
NoMessageLost ==
  \A p \in Published :
    passedOn[p.id] > 0 \/ \E k \in 1 .. Len(outbox.q) :
                             outbox.q[k].type = "PUBLISH" /\ outbox.q[k].id = p.id

\* While the session is kept, an exchange begun by publish() stays in the outbox
\* as PUBLISH or PUBREL until onPublish reports it, which it does only for what
\* the broker has passed on: no answer to another message and no lost
\* connection drops it (MqttClient.cpp:562-615, 643-670, 718-734).
ExchangeIsKept ==
  \A p \in Published :
    \/ p.id \in hist.acked /\ passedOn[p.id] > 0
    \/ \E r \in Range(outbox.q) : r.type \in {"PUBLISH", "PUBREL"} /\ r.id = p.id

\* A QoS 2 message of the client reaches the subscribers at most once while
\* the session is kept: PUBLISH is never sent again once PUBREC was handled
\* and the id is released only after that (MqttClient.cpp:591-615, 718-734).
AtMostOnceOut == \A p \in Published : p.qos = 2 => passedOn[p.id] <= 1

\* onMessage is called at most once for a QoS 2 message of a kept session, which
\* the application has not deleted by clearQueue(true) (MqttClient.cpp:534-548;
\* PUBREC stands for the id, 722-724).
SessionDeleted == left["clearAll"] < Budget["clearAll"]
AtMostOnceIn == ~SessionDeleted => \A m \in Msg : hist.got[<<m, 2>>] <= 1

\* A QoS 1 or 2 message that the broker considers finished was given to
\* onMessage (MqttClient.cpp:521-560).
FinishedWasReceived ==
  \A m \in BrokerMsg \ unsent :
    (\E q \in 1 .. 2 : hist.got[<<m, q>>] > 0) \/ \E k \in 1 .. Len(session.out) : session.out[k].msg = m

\* The bytes on the wire are whole packets one after the other, and _bytesSent
\* always counts bytes of the current packet (MqttClient.cpp:362-398).
Framing ==
  /\ wire.ok
  /\ tcp = "open" =>
       IF wire.part = None
       THEN bytesSent = 0 \/ FullySent(outbox, bytesSent)
       ELSE HasCurrent(outbox) /\ wire.part = [pkt |-> Current(outbox), off |-> bytesSent]

\* The first packet of a connection is CONNECT and no other one is
\* (MqttClient.cpp:108-138, 246-258).
ConnectFirst ==
  \A k \in 1 .. Len(wire.sent) :
    wire.sent[k].type = "CONNECT" <=> (bConn = "wait" /\ k = 1)

\* Each accepted connect() is answered by one call of onDisconnect, made when
\* the client gets back to "disconnected" (MqttClient.cpp:303-314).
Balanced == hist.owed = IF state = "disconnected" THEN 0 ELSE 1

\* Once the socket is being closed, the client becomes disconnected before it
\* does anything else (MqttClient.cpp:299-314).
TeardownIsFinal ==
  [][(state \in Teardown) => (state' \in Teardown \cup {"disconnected"})]_vars

\* A PUBLISH is marked as duplicate exactly when it was sent before
\* (MqttClient.cpp:390-391).
DupMarksRetransmission ==
  [][\A k \in Len(wire.sent) + 1 .. Len(wire'.sent) :
       LET p == wire'.sent[k]
       IN  p.type = "PUBLISH" /\ p.id # 0 => (p.dup <=> p.id \in wire.once)]_vars

\* A clean disconnect waits until all that was published is acknowledged
\* (MqttClient.cpp:281-292, docs/index.md:255).
CleanDisconnectFlushes ==
  [][state # state' /\ state' = "disconnectingMqtt2" =>
       \A p \in Published : p.id \in hist.acked]_vars

\* Nothing follows DISCONNECT on a connection (MqttClient.cpp:354-398).
NothingAfterDisconnect ==
  \A k \in 1 .. Len(wire.sent) - 1 : wire.sent[k].type # "DISCONNECT"

\* While connected, a ping that was sent is still in the outbox, on its way, or its
\* answer is: _pingSent never stays set without reason (MqttClient.cpp:445, 478).
PingIsPending ==
  pingSent /\ tcp = "open" /\ state = "connected" =>
    \/ \E p \in Range(outbox.q) \cup Range(wire.sent) : p.type = "PINGREQ"
    \/ \E p \in Range(s2c) \cup Range(rx) : p.type = "PINGRESP"

\* connect() ends in a connection or in onDisconnect (docs/index.md:47).
ConnectEnds == state = "connectingTcp1" ~> state \in {"connected", "disconnected"}

\* disconnect() ends in "disconnected" (docs/index.md:59).
DisconnectEnds == state = "disconnectingMqtt1" ~> state = "disconnected"

\* A forced disconnect does too (docs/index.md:254).
ForcedDisconnectEnds == state = "disconnectingTcp1" ~> state = "disconnected"

\* On a connection that lasts, to a broker that answers, all that was published is
\* acknowledged, whatever is sent twice on the way (MqttClient.cpp:354-398, 489-499,
\* 562-615).
AllIsAcked ==
  BrokerFairness /\ <>[](state = "connected" /\ tcp = "open") =>
    <>[](\A p \in Published : p.id \in hist.acked)
=============================================================================

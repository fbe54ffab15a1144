-------------------------------- MODULE Broker --------------------------------
(****************************************************************************)
(* A broker that follows MQTT 3.1.1, as the client of src/src relies on it: *)
(* it answers every packet, keeps the session of a client that asks for it, *)
(* sends unfinished PUBLISH and PUBREL again when a session is resumed,     *)
(* passes each QoS 2 message on once, and closes a connection that breaks   *)
(* the protocol.                                                            *)
(****************************************************************************)
EXTENDS Naturals, FiniteSets, Sequences, Filter

CONSTANTS CleanSession,   \* the client asks for a new session
          OutQos,         \* QoS of what it publishes
          ReusesIds,      \* it takes the lowest free packet id, else a new one
          Refuses,        \* it may refuse a connection or answer nonsense
          LosesSession,   \* it may forget the session while disconnected
          MaxDrops,       \* how often the connection breaks
          BrokerMsg       \* messages it publishes, also used as new packet ids

VARIABLES bConn,     \* "down", "wait" for CONNECT, "up", "refused"
          session,   \* kept for the client
          unsent,    \* messages not published yet
          passedOn,  \* how often each PUBLISH (by id) was passed on, 2 at most
          drops,     \* times the connection may still break
          tcp, wire, s2c

NoSession == [present |-> FALSE, recv |-> {}, out |-> <<>>]

BrokerInit(ids) ==
  /\ bConn = "down" /\ session = NoSession /\ unsent = BrokerMsg
  /\ passedOn = [i \in ids |-> 0] /\ drops = MaxDrops

Answer(t, i) == [type |-> t, id |-> i]
Connack(ok, present) == [type |-> "CONNACK", ok |-> ok, sessionPresent |-> present]
Message(f, dup) ==
  [type |-> "PUBLISH", id |-> f.id, qos |-> f.qos, msg |-> f.msg, dup |-> dup]

\* What is sent of an unfinished message when the session is resumed.
Resent(f) == IF f.released THEN Answer("PUBREL", f.id) ELSE Message(f, TRUE)

Send(packets) == s2c' = IF tcp = "open" THEN s2c \o packets ELSE s2c

Take == wire' = [wire EXCEPT !.sent = Tail(@)]

\* The connection ends at the side of the broker.
Close ==
  /\ tcp' = IF tcp = "open" THEN "reset" ELSE tcp
  /\ wire' = [wire EXCEPT !.sent = <<>>]
  /\ s2c' = <<>>
  /\ bConn' = "down"

\* The next packet on the wire.
Next1 == Head(wire.sent)
Gets(type) == bConn = "up" /\ wire.sent # <<>> /\ Next1.type = type

\* A new TCP connection.
Accept == bConn' = "wait" /\ UNCHANGED <<session, unsent, passedOn, drops>>

GetConnect ==
  /\ bConn = "wait" /\ wire.sent # <<>> /\ Next1.type = "CONNECT"
  /\ \E forget \in {FALSE, LosesSession} :
       LET resumed == session.present /\ ~CleanSession /\ ~forget
       IN  /\ session' = IF resumed THEN session ELSE [NoSession EXCEPT !.present = TRUE]
           /\ Send(<<Connack(TRUE, resumed)>> \o
                   [k \in 1 .. Len(session'.out) |-> Resent(session'.out[k])])
  /\ bConn' = "up"
  /\ Take
  /\ UNCHANGED <<tcp, unsent, passedOn, drops>>

Refuse ==
  /\ Refuses
  /\ bConn = "wait" /\ wire.sent # <<>> /\ Next1.type = "CONNECT"
  /\ \E p \in {Connack(FALSE, FALSE), Answer("MALFORMED", 0), Answer("PINGRESP", 0)} :
        Send(<<p>>)
  /\ bConn' = "refused"
  /\ Take
  /\ UNCHANGED <<tcp, session, unsent, passedOn, drops>>

\* No CONNECT first, a second one, or bytes that are no packets.
ProtocolViolation ==
  /\ bConn \in {"wait", "up"}
  /\ \/ ~wire.ok
     \/ wire.sent # <<>> /\ (bConn = "up" <=> Next1.type = "CONNECT")
  /\ Close
  /\ UNCHANGED <<session, unsent, passedOn, drops>>

PassOn(i) == passedOn' = [passedOn EXCEPT ![i] = IF @ < 2 THEN @ + 1 ELSE 2]

GetPublish ==
  /\ Gets("PUBLISH")
  /\ Take
  /\ LET i == Next1.id
     IN  \/ Next1.qos = 0 /\ UNCHANGED <<s2c, session, passedOn>>
         \/ Next1.qos = 1 /\ PassOn(i) /\ Send(<<Answer("PUBACK", i)>>)
            /\ UNCHANGED session
         \/ /\ Next1.qos = 2
            /\ IF i \in session.recv THEN UNCHANGED passedOn ELSE PassOn(i)
            /\ session' = [session EXCEPT !.recv = @ \cup {i}]
            /\ Send(<<Answer("PUBREC", i)>>)
  /\ UNCHANGED <<tcp, bConn, unsent, drops>>

GetPubrel ==
  /\ Gets("PUBREL")
  /\ Take
  /\ session' = [session EXCEPT !.recv = @ \ {Next1.id}]
  /\ Send(<<Answer("PUBCOMP", Next1.id)>>)
  /\ UNCHANGED <<tcp, bConn, unsent, passedOn, drops>>

\* SUBSCRIBE, UNSUBSCRIBE and PINGREQ are answered.
GetRequest ==
  /\ \E r \in {<<"SUBSCRIBE", "SUBACK">>, <<"UNSUBSCRIBE", "UNSUBACK">>,
               <<"PINGREQ", "PINGRESP">>} :
       Gets(r[1]) /\ Send(<<Answer(r[2], Next1.id)>>)
  /\ Take
  /\ UNCHANGED <<tcp, bConn, session, unsent, passedOn, drops>>

\* The client's answers: PUBACK and PUBCOMP finish a message, PUBREC releases
\* it.  Each PUBREC is answered, also one that is no longer expected.
Unfinished(i) ==
  Filter(session.out, {session.out[k] : k \in {n \in 1 .. Len(session.out) : session.out[n].id # i}})

GetAnswer ==
  /\ Gets("PUBACK") \/ Gets("PUBCOMP")
  /\ Take
  /\ session' = [session EXCEPT !.out = Unfinished(Next1.id)]
  /\ UNCHANGED <<tcp, s2c, bConn, unsent, passedOn, drops>>

Released(i) ==
  [k \in DOMAIN session.out |->
     [session.out[k] EXCEPT !.released = @ \/ session.out[k].id = i]]

GetPubrec ==
  /\ Gets("PUBREC")
  /\ Take
  /\ session' = [session EXCEPT !.out = Released(Next1.id)]
  /\ Send(<<Answer("PUBREL", Next1.id)>>)
  /\ UNCHANGED <<tcp, bConn, unsent, passedOn, drops>>

GetDisconnect ==
  /\ Gets("DISCONNECT")
  /\ Close
  /\ UNCHANGED <<session, unsent, passedOn, drops>>

\* A message for the client; it is kept in the session until it is finished.
InUse == {session.out[k].id : k \in 1 .. Len(session.out)}

NewId(m) == IF ReusesIds
            THEN CHOOSE i \in BrokerMsg \ InUse :
                   \A j \in BrokerMsg \ InUse : i <= j
            ELSE m

PublishMessage ==
  /\ session.present
  /\ \E m \in unsent, q \in OutQos :
       /\ \A n \in unsent : m <= n
       /\ q = 0 => bConn = "up"
       /\ q # 0 /\ ReusesIds => BrokerMsg \ InUse # {}
       /\ LET f == [id |-> IF q = 0 THEN 0 ELSE NewId(m), qos |-> q, msg |-> m,
                    released |-> FALSE]
          IN  /\ session' = IF q = 0 THEN session
                            ELSE [session EXCEPT !.out = Append(@, f)]
              /\ IF bConn = "up" THEN Send(<<Message(f, FALSE)>>) ELSE UNCHANGED s2c
       /\ unsent' = unsent \ {m}
  /\ UNCHANGED <<tcp, wire, bConn, passedOn, drops>>

Answers ==
  \/ GetConnect \/ Refuse \/ ProtocolViolation \/ GetPublish \/ GetPubrel
  \/ GetRequest \/ GetAnswer \/ GetPubrec \/ GetDisconnect

\* The network loses the connection, with all that is under way.
ConnectionLost ==
  /\ tcp = "open" /\ drops > 0
  /\ drops' = drops - 1
  /\ Close
  /\ UNCHANGED <<session, unsent, passedOn>>
=============================================================================

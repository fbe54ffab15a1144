------------------------------- MODULE MCPacket -------------------------------
(****************************************************************************)
(* Packets for Packet: one or more of each constructor.  With Radix = 5 the *)
(* remaining length takes one to three bytes.                               *)
(****************************************************************************)
EXTENDS Packet

NoWill == [topic |-> None, payload |-> None, length |-> 0, qos |-> 0, retain |-> FALSE]
Will(topic, payload, length, qos, retain) ==
  [topic |-> topic, payload |-> payload, length |-> length, qos |-> qos, retain |-> retain]

Connect(clean, keepAlive, clientId, will, username, password) ==
  [type |-> CONNECT, clean |-> clean, keepAlive |-> keepAlive, clientId |-> clientId,
   will |-> will, username |-> username, password |-> password]
Publish(id, topic, payload, qos, retain, chunked) ==
  [type |-> PUBLISH, id |-> id, topic |-> topic, payload |-> payload, qos |-> qos,
   retain |-> retain, chunked |-> chunked]
Ack(type, id) == [type |-> type, id |-> id]
Bare(type) == [type |-> type]

Payload(n) == [k \in 1 .. n |-> k]

AllRequests ==
  {Connect(TRUE, 300, <<99>>, NoWill, None, None),
   Connect(TRUE, 0, <<>>, NoWill, None, None),
   Connect(FALSE, 10, <<99, 108>>, Will(<<119>>, <<7, 0, 8>>, 3, 2, TRUE), <<117, 115>>, <<>>),
   Connect(TRUE, 0, <<99>>, Will(<<119, 116>>, <<7, 8, 0, 9>>, 0, 1, FALSE), None, <<112>>),
   Connect(TRUE, 0, <<99>>, Will(<<119>>, <<0>>, 0, 0, TRUE), <<117>>, None),
   Publish(0, <<97>>, <<>>, 0, TRUE, FALSE),
   Publish(513, <<97, 98>>, Payload(3), 1, FALSE, FALSE),
   Publish(7, <<>>, Payload(1), 2, TRUE, FALSE),
   Publish(0, <<97>>, Payload(5), 0, FALSE, TRUE),
   Publish(258, <<97>>, Payload(7), 2, TRUE, TRUE),
   [type |-> SUBSCRIBE, id |-> 258, list |-> <<[topic |-> <<97>>, qos |-> 1]>>],
   [type |-> SUBSCRIBE, id |-> 3, list |-> <<[topic |-> <<97>>, qos |-> 2],
      [topic |-> <<98, 99>>, qos |-> 0], [topic |-> <<>>, qos |-> 1]>>],
   [type |-> UNSUBSCRIBE, id |-> 256, list |-> <<<<97>>, <<98, 99>>>>],
   Ack(PUBACK, 1), Ack(PUBREC, 65535), Ack(PUBREL, 258), Ack(PUBCOMP, 256),
   Bare(PINGREQ), Bare(DISCONNECT)}
=============================================================================

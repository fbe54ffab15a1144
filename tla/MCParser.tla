------------------------------- MODULE MCParser -------------------------------
(****************************************************************************)
(* What a broker may send to Parser, after CONNACK.  A topic has at most    *)
(* MaxTopic = 3 bytes, a SUBACK less than PayloadBuffer = 4 codes, and with *)
(* Radix = 3 the remaining length takes up to four bytes.                   *)
(****************************************************************************)
EXTENDS Parser

Message(flags, topic, id, payload) == Publish(flags, topic, id, payload, Len(payload))

Payload(n) == [k \in 1 .. n |-> k]

Accepted == Connack(0, 0)

Good == {
  <<Connack(1, 5), Pingresp, Ack(PUBACK, 258), Ack(UNSUBACK, 2)>>,
  <<Accepted, Message(0, <<97>>, 0, <<>>), Message(2, <<97, 98, 99>>, 1, Payload(4)),
    Ack(PUBREC, 1)>>,
  <<Accepted, Message(13, <<97, 98>>, 300, <<>>), Ack(PUBREL, 300), Pingresp>>,
  <<Accepted, Suback(1, <<0, 128, 2>>), Message(1, <<97>>, 0, Payload(3)),
    Ack(PUBCOMP, 7)>>,
  <<Accepted, Message(10, <<98>>, 513, Payload(25)), Suback(3, <<1>>)>> }

Id1 == Ack(PUBACK, 1)

\* wrong: header, flags, lengths, ids, codes, a topic longer than the packet
Bad == {<<Accepted, w>> : w \in {
  Nonsense(Pingresp, 0, 16, <<0>>), Nonsense(Pingresp, 0, 54, <<5>>),
  Nonsense(Pingresp, 0, 65, <<2>>), Nonsense(Pingresp, 1, 1, <<>>),
  Nonsense(Id1, 1, 1, <<>>), Nonsense(Id1, 3, 0, <<>>),
  Nonsense(Accepted, 2, 2, <<>>), Nonsense(Accepted, 3, 6, <<>>),
  Nonsense(Suback(1, <<0>>), 1, 2, <<>>), Nonsense(Suback(1, <<0>>), 2, 2, <<0, 1>>),
  Nonsense(Suback(1, <<0>>), 4, 0, <<1>>), Nonsense(Suback(256, <<1, 1>>), 6, 3, <<>>),
  Nonsense(Message(0, <<97>>, 0, Payload(24)), 4, 3, <<>>),
  Nonsense(Message(2, <<97>>, 1, <<>>), 4, 2, <<98>>),
  Nonsense(Message(2, <<97>>, 1, <<>>), 7, 0, <<>>) }}

Ordinary == Good \cup Bad

ASSUME OrdinaryAssumption == Ordinary \subseteq Said

LongTopics == {<<Accepted, Message(0, <<97, 98, 99, 100>>, 0, <<1>>), Pingresp>>}
=============================================================================

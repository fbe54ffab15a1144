------------------------------ MODULE MqttProofs ------------------------------
(****************************************************************************)
(* The order of a connection when the calls come from the thread of loop(), *)
(* for any broker, network, budget of calls and lack of memory: each        *)
(* accepted connect() is answered by exactly one onDisconnect; a client     *)
(* that closes the socket does nothing else first; DISCONNECT is the last   *)
(* packet of a connection and CONNECT the first.  A ping is under way until *)
(* it is answered, which holds with other threads as well.  So does what    *)
(* the last part shows: a PUBLISH is marked as a duplicate exactly if it    *)
(* was sent before, and without a retransmission only whole packets are     *)
(* written, one after the other (MarkInv, FrameInv).                        *)
(*                                                                          *)
(* A call and each branch of loop() act on a state that was read earlier.   *)
(* The inductive invariants say what is still true of that state: without   *)
(* other threads nothing comes between the two steps of a call (IInv), the  *)
(* branch that is run is that of the state (Placed, AtWork), and CONNACK,   *)
(* which the broker sends once and first, was handled before (Handshake).   *)
(****************************************************************************)
EXTENDS ExchangeProofs

\* The calls, and what they have checked, are those of the code.
CallsTyped == apc \in [Thread -> Calls \cup {None}]

\* A thread that has checked the state is the only one.
OneCall == \A t, u \in Thread : apc[t] # None /\ apc[u] # None => t = u

\* The checked state has not changed.
CheckStillHolds == \A t \in Thread : \A call \in Calls : apc[t] = call => Accepts(call)

\* Calls are made between two calls of loop() and in callbacks.
CallPlace == CallsIdle \/ lpc = "idle" \/ InCallback

\* While loop() is at work the client is not disconnected.
WorkMeansConnection == lpc \notin {"idle", "cbDisconnect"} => state # "disconnected"

IInv ==
  /\ "owed" \in DOMAIN hist
  /\ CallsTyped /\ OneCall /\ CheckStillHolds /\ CallPlace
  /\ WorkMeansConnection /\ Balanced

-----------------------------------------------------------------------------
LEMMA InitIInv == Init => IInv
<1> SUFFICES ASSUME Init PROVE IInv
  OBVIOUS
<1>1. state = "disconnected" /\ lpc = "idle" /\ apc = [t \in Thread |-> None]
      /\ hist = [owed |-> 0, asked |-> {}, acked |-> {}, told |-> None,
                 got |-> [x \in Msg \X (0 .. 2) |-> 0]]
  BY DEF Init, ClientInit
<1>2. "owed" \in DOMAIN hist /\ hist.owed = 0
  BY <1>1
<1>3. \A t \in Thread : apc[t] = None
  BY <1>1
<1> QED BY <1>1, <1>2, <1>3, NoneAssumption
        DEF IInv, CallsTyped, OneCall, CheckStillHolds, CallPlace, CallsIdle,
            WorkMeansConnection, Balanced

\* A step of loop(), during which no thread is in a call.
LEMMA QuietStep ==
  ASSUME IInv, CallsIdle, UNCHANGED apc, hist'.owed = hist.owed,
         DOMAIN hist' = DOMAIN hist,
         UNCHANGED state \/ (state # "disconnected" /\ state' # "disconnected"),
         lpc' \in {"idle", "cbDisconnect"} \/ state # "disconnected"
  PROVE  IInv'
<1>1. \A t \in Thread : apc'[t] = None
  BY DEF CallsIdle
<1> QED BY <1>1, NoneAssumption
        DEF IInv, CallsTyped, OneCall, CheckStillHolds, CallPlace, CallsIdle,
            WorkMeansConnection, Balanced

\* A step of the calls: who made it is the only one who was about to.
LEMMA ReturnStep ==
  ASSUME IInv, NEW t \in Thread, NEW call \in Calls, Return(t, call),
         UNCHANGED lpc, DOMAIN hist' = DOMAIN hist, Balanced',
         WorkMeansConnection'
  PROVE  IInv'
<1>1. /\ apc' = [apc EXCEPT ![t] = None] /\ apc[t] # None
      /\ apc \in [Thread -> Calls \cup {None}]
  BY NoneAssumption DEF Return, IInv, CallsTyped
<1>2. \A u \in Thread : apc'[u] = None
  BY <1>1 DEF IInv, OneCall
<1> QED BY <1>1, <1>2, NoneAssumption
        DEF IInv, CallsTyped, OneCall, CheckStillHolds, CallPlace, CallsIdle

LEMMA CallStep ==
  ASSUME ~Threaded, IInv, NEW t \in Thread, NEW call \in Calls, Call(t, call)
  PROVE  IInv'
<1>1. /\ apc' = [apc EXCEPT ![t] = call] /\ CallsIdle /\ Accepts(call)
      /\ UNCHANGED <<state, lpc, hist>>
  BY DEF Call, MayCall, client, control
<1>2. \A u \in Thread : u # t => apc'[u] = None
  BY <1>1 DEF CallsIdle, IInv, CallsTyped
<1>3. apc'[t] = call /\ apc' \in [Thread -> Calls \cup {None}]
  BY <1>1 DEF IInv, CallsTyped
<1>4. CheckStillHolds'
  <2>1. \A c \in Calls : Accepts(c)' <=> Accepts(c)
    BY <1>1 DEF Accepts
  <2> QED BY <1>1, <1>2, <1>3, <2>1, NoneAssumption DEF CheckStillHolds
<1>5. CallPlace'
  BY <1>1 DEF Call, MayCall, CallPlace, InCallback
<1> QED BY <1>1, <1>2, <1>3, <1>4, <1>5
        DEF IInv, CallsTyped, OneCall, WorkMeansConnection, Balanced

LEMMA AppKeepsIInv == ASSUME ~Threaded, IInv, AppNext PROVE IInv'
<1> PICK t \in Thread :
      \/ \E call \in Calls : Call(t, call)
      \/ Connect(t) \/ Disconnect(t) \/ Publish(t) \/ Subscribe(t)
      \/ Unsubscribe(t) \/ ClearQueueCall(t)
  BY DEF AppNext, Act
<1>1. CASE \E call \in Calls : Call(t, call)
  BY <1>1, CallStep
<1>2. CASE Connect(t)
  <2>1. Return(t, "connect") /\ state = "disconnected" /\ UNCHANGED lpc
    BY <1>2 DEF Connect, Return, IInv, CheckStillHolds, Accepts, Calls, control
  <2>2. hist.owed = 0
    BY <2>1 DEF IInv, Balanced
  <2>3. \/ /\ state' = "connectingTcp1"
           /\ hist' = [hist EXCEPT !.owed = @ + 1]
        \/ UNCHANGED <<state, hist>>
    BY <1>2 DEF Connect
  <2>4. DOMAIN hist' = DOMAIN hist /\ Balanced'
    BY <2>1, <2>2, <2>3 DEF IInv, Balanced
  <2>5. WorkMeansConnection'
    BY <2>1, <2>3 DEF IInv, WorkMeansConnection
  <2> QED BY <2>1, <2>4, <2>5, ReturnStep DEF Calls
<1>3. CASE Disconnect(t)
  <2>1. PICK call \in {"disconnect", "force"} : Return(t, call)
    BY <1>3 DEF Disconnect
  <2>2. state # "disconnected" /\ state' # "disconnected" /\ UNCHANGED <<lpc, hist>>
    BY <1>3, <2>1 DEF Disconnect, Return, IInv, CheckStillHolds, Accepts, Calls, control
  <2>3. Balanced' /\ WorkMeansConnection'
    BY <2>2 DEF IInv, Balanced, WorkMeansConnection
  <2> QED BY <2>1, <2>2, <2>3, ReturnStep DEF Calls
\* the calls that only use the outbox
<1>4. ASSUME NEW call \in Calls, Return(t, call), UNCHANGED <<state, lpc>>,
             DOMAIN hist' = DOMAIN hist, hist'.owed = hist.owed
      PROVE  IInv'
  <2>1. Balanced' /\ WorkMeansConnection'
    BY <1>4 DEF IInv, Balanced, WorkMeansConnection
  <2> QED BY <1>4, <2>1, ReturnStep
<1>5. ASSUME NEW call \in Calls, NEW p, Request(t, call, p)
      PROVE  IInv'
  <2>1. \E a : hist' = [hist EXCEPT !.asked = a]
    BY <1>5 DEF Request
  <2>2. DOMAIN hist' = DOMAIN hist /\ hist'.owed = hist.owed
    BY <2>1 DEF IInv
  <2> QED BY <1>4, <1>5, <2>2 DEF Request, control
<1>6. CASE Publish(t)
  BY <1>5, <1>6 DEF Publish, Calls
<1>7. CASE Subscribe(t)
  BY <1>5, <1>7 DEF Subscribe, Calls
<1>8. CASE Unsubscribe(t)
  BY <1>5, <1>8 DEF Unsubscribe, Calls
<1>9. CASE ClearQueueCall(t)
  BY <1>4, <1>9 DEF ClearQueueCall, Calls, control
<1> QED BY <1>1, <1>2, <1>3, <1>6, <1>7, <1>8, <1>9
-----------------------------------------------------------------------------
\* Steps of loop() that neither change the state nor call the application back
\* with something new to count.
LEMMA LoopStep ==
  ASSUME IInv, ~Threaded, NEW pc, At(pc), pc # "idle", pc # "cbDisconnect",
         UNCHANGED apc, hist'.owed = hist.owed, DOMAIN hist' = DOMAIN hist,
         UNCHANGED state \/ state' # "disconnected"
  PROVE  IInv'
<1>1. CallsIdle /\ lpc = pc /\ state # "disconnected"
  BY DEF At, LoopMayStep, IInv, WorkMeansConnection
<1> QED BY <1>1, QuietStep

\* The same where the history is left alone as well.
LEMMA PlainLoopStep ==
  ASSUME IInv, ~Threaded, NEW pc, At(pc), pc # "idle", pc # "cbDisconnect",
         UNCHANGED <<apc, hist>>,
         UNCHANGED state \/ state' # "disconnected"
  PROVE  IInv'
BY LoopStep

LEMMA ConnectingKeepsIInv == ASSUME ~Threaded, IInv, Connecting PROVE IInv'
<1>1. CASE TcpConnectFails
  BY <1>1, PlainLoopStep DEF TcpConnectFails, Fails, app
<1>2. CASE TcpConnected
  BY <1>2, PlainLoopStep DEF TcpConnected, Fails, app
<1>3. CASE CheckTransport
  BY <1>3, PlainLoopStep DEF CheckTransport, client, app
<1>4. CASE TransportLost
  BY <1>4, PlainLoopStep DEF TransportLost, Fails, app
<1> QED BY <1>1, <1>2, <1>3, <1>4 DEF Connecting

LEMMA DisconnectingKeepsIInv == ASSUME ~Threaded, IInv, Disconnecting PROVE IInv'
<1>1. CASE SayGoodbye
  BY <1>1, PlainLoopStep DEF SayGoodbye, app
<1>2. CASE StopTransport
  BY <1>2, PlainLoopStep DEF StopTransport, app
<1>3. CASE Disconnected
  <2>1. /\ CallsIdle /\ state # "disconnected" /\ state' = "disconnected"
        /\ lpc' = "cbDisconnect" /\ UNCHANGED apc
        /\ hist' = [hist EXCEPT !.owed = @ - 1, !.told = reason]
    BY <1>3 DEF Disconnected, At, Goto, LoopMayStep, IInv, WorkMeansConnection
  <2>2. \A t \in Thread : apc'[t] = None
    BY <2>1 DEF CallsIdle
  <2>3. hist'.owed = 0 /\ DOMAIN hist' = DOMAIN hist
    BY <2>1 DEF IInv, Balanced
  <2> QED BY <2>1, <2>2, <2>3, NoneAssumption
          DEF IInv, CallsTyped, OneCall, CheckStillHolds, CallPlace, CallsIdle,
              WorkMeansConnection, Balanced
<1> QED BY <1>1, <1>2, <1>3 DEF Disconnecting

LEMMA SendingKeepsIInv == ASSUME ~Threaded, IInv, Sending PROVE IInv'
<1>1. CASE SendPacket
  BY <1>1, PlainLoopStep DEF SendPacket, AdvanceState, app
<1>2. CASE NothingToSend
  BY <1>2, PlainLoopStep DEF NothingToSend, client, app
<1>3. CASE SendFails
  BY <1>3, PlainLoopStep DEF SendFails, client, app
<1> QED BY <1>1, <1>2, <1>3 DEF Sending

LEMMA ReceivingKeepsIInv == ASSUME ~Threaded, IInv, Receiving PROVE IInv'
<1>1. CASE Read
  BY <1>1, PlainLoopStep DEF Read, app
\* what the handlers of packets have in common
<1>2. ASSUME NEW type, Incoming(type), UNCHANGED app,
             UNCHANGED state \/ state' # "disconnected"
      PROVE  IInv'
  BY <1>2, PlainLoopStep DEF Incoming, app
<1>3. ASSUME NEW type, Incoming(type), OutboxOnly,
             UNCHANGED app \/ \E seen : /\ Notify(seen)
                                        /\ seen.owed = hist.owed
                                        /\ DOMAIN seen = DOMAIN hist
      PROVE  IInv'
  BY <1>2, <1>3, LoopStep DEF Incoming, OutboxOnly, Notify
<1>4. CASE ExpectedConnack
  BY <1>4, PlainLoopStep DEF ExpectedConnack, app
<1>5. CASE ProtocolError
  BY <1>2, <1>5 DEF ProtocolError, Fails
<1>6. CASE OnConnack
  BY <1>2, <1>6 DEF OnConnack, AdvanceState
<1>7. CASE OnConnackRefused
  BY <1>2, <1>7 DEF OnConnackRefused, Fails
<1>8. CASE OnPublish
  <2>1. \A p : Received(p).owed = hist.owed /\ DOMAIN Received(p) = DOMAIN hist
    BY DEF Received, IInv
  <2>2. UNCHANGED app \/ Notify(Received(Head(rx)))
    BY <1>8 DEF OnPublish
  <2>3. Incoming("PUBLISH") /\ OutboxOnly
    BY <1>8 DEF OnPublish
  <2> QED BY <1>3, <2>1, <2>2, <2>3
<1>9. \A a : /\ [hist EXCEPT !.acked = a].owed = hist.owed
             /\ DOMAIN [hist EXCEPT !.acked = a] = DOMAIN hist
  BY DEF IInv
<1>10. ASSUME NEW answer, NEW type, Finish(answer, type)
       PROVE  IInv'
  <2>1. Incoming(answer) /\ OutboxOnly
    BY <1>10 DEF Finish
  <2>2. UNCHANGED app \/ \E a : Notify([hist EXCEPT !.acked = a])
    BY <1>10 DEF Finish
  <2> QED BY <1>3, <1>9, <2>1, <2>2
<1>11. ASSUME NEW answer, NEW types, Settle(answer, types)
       PROVE  IInv'
  <2>1. Incoming(answer) /\ OutboxOnly
    BY <1>11 DEF Settle
  <2>2. UNCHANGED app \/ \E a : Notify([hist EXCEPT !.acked = a])
    BY <1>11 DEF Settle
  <2> QED BY <1>3, <1>9, <2>1, <2>2
<1>12. ASSUME NEW answer, NEW type, NEW reply, Reply(answer, type, reply)
       PROVE  IInv'
  BY <1>3, <1>12 DEF Reply
<1>13. CASE OnPingresp
  BY <1>2, <1>13 DEF OnPingresp
<1> QED BY <1>1, <1>4, <1>5, <1>6, <1>7, <1>8, <1>10, <1>11, <1>12, <1>13
        DEF Receiving, OnPuback, OnPubcomp, OnPubrec, OnPubrel, OnSuback, OnUnsuback

LEMMA CallbacksKeepIInv == ASSUME ~Threaded, IInv, Callbacks PROVE IInv'
<1>1. CASE CallbackReturns
  BY <1>1, PlainLoopStep DEF CallbackReturns, client, app
<1>2. CASE ConnectCallbackReturns
  BY <1>2, PlainLoopStep DEF ConnectCallbackReturns, client, app
<1>3. CASE DisconnectCallbackReturns
  BY <1>3, QuietStep DEF DisconnectCallbackReturns, At, LoopMayStep, client, app, Goto
<1> QED BY <1>1, <1>2, <1>3 DEF Callbacks

LEMMA TimersKeepIInv == ASSUME ~Threaded, IInv, Timers PROVE IInv'
<1>1. CASE CheckPing
  BY <1>1, PlainLoopStep DEF CheckPing, Fails, app
<1>2. CASE Retransmit
  BY <1>2, PlainLoopStep DEF Retransmit, app
<1>3. CASE NoRetransmit
  BY <1>3, PlainLoopStep DEF NoRetransmit, client, app
<1> QED BY <1>1, <1>2, <1>3 DEF Timers

LEMMA LoopKeepsIInv == ASSUME ~Threaded, IInv, LoopNext PROVE IInv'
<1>1. CASE Dispatch
  BY <1>1, QuietStep DEF Dispatch, At, LoopMayStep, app
<1> QED BY <1>1, ConnectingKeepsIInv, DisconnectingKeepsIInv, SendingKeepsIInv,
           ReceivingKeepsIInv, CallbacksKeepIInv, TimersKeepIInv DEF LoopNext

\* Time, broker and network leave everything alone that IInv is about, and a TCP
\* connection is opened in the middle of loop().
LEMMA StepIInv == ~Threaded /\ IInv /\ [Next]_vars => IInv'
<1> SUFFICES ASSUME ~Threaded, IInv, [Next]_vars PROVE IInv'
  OBVIOUS
<1>1. ASSUME UNCHANGED <<state, lpc, apc, hist>>
      PROVE  IInv'
  <2>1. \A c \in Calls : Accepts(c)' <=> Accepts(c)
    BY <1>1 DEF Accepts
  <2> QED BY <1>1, <2>1 DEF IInv, CallsTyped, OneCall, CheckStillHolds, CallPlace,
          CallsIdle, InCallback, WorkMeansConnection, Balanced
<1>2. CASE ClientStep
  <2>1. CASE TimePasses
    BY <1>1, <2>1 DEF TimePasses, control, app
  <2> QED BY <1>2, <2>1, LoopKeepsIInv, AppKeepsIInv DEF ClientStep
<1>3. CASE ConnectStep
  BY <1>3, PlainLoopStep DEF ConnectStep, TcpConnect, app
<1>4. CASE BrokerStep \/ LossStep \/ UNCHANGED vars
  BY <1>1, <1>4 DEF BrokerStep, LossStep, vars, clientVars, client, control, app
<1> QED BY <1>2, <1>3, <1>4 DEF Next
-----------------------------------------------------------------------------
\* Called from its own thread, the client answers each accepted connect() by
\* one call of onDisconnect, made when it gets back to "disconnected", and by no
\* other (MqttClient.cpp:108-150, 303-314).
THEOREM EveryConnectIsAnswered == ASSUME ~Threaded PROVE Spec => []Balanced
<1>1. IInv => Balanced
  BY DEF IInv
<1>2. IInv /\ [Next]_vars => IInv'
  BY StepIInv
<1> QED BY <1>1, <1>2, InitIInv, PTL DEF Spec
-----------------------------------------------------------------------------
(* The states of a connection come in their order *)

Without(s, type) == \A k \in 1 .. Len(s) : s[k].type # type

\* The branch of loop() that is run is that of the state.
Placed ==
  /\ lpc = "tcp1" => state = "connectingTcp1"
  /\ lpc = "tcp2" => state = "connectingTcp2"
  /\ lpc \in {"check", "lost"} => state \in {"connectingMqtt", "connected", "disconnectingMqtt2"}
  /\ lpc \in {"check", "lost", "bye", "send"} => (branch = "mqtt" <=> state = "connectingMqtt")
  /\ lpc = "bye" => state = "disconnectingMqtt1"
  /\ lpc = "stop" => state = "disconnectingTcp1"
  /\ lpc = "stopped" => state = "disconnectingTcp2"

\* The client is past CONNACK, or is in a pass through loop() that began so.
Greeted ==
  \/ state \in {"connected", "disconnectingMqtt1", "disconnectingMqtt2"}
  \/ lpc \in {"cb", "cbConnect"}
  \/ lpc \in {"send", "read", "parse"} /\ state # "connectingMqtt"

\* No CONNACK is to come on this connection.
ConnackTaken == bConn # "wait" /\ Without(Coming, "CONNACK")

Handshake == Greeted => ConnackTaken

\* A call acts where the application runs, on a state that it has checked.
LEMMA ActChecks ==
  ASSUME ~Threaded, IInv, NEW t \in Thread, NEW call \in Calls, Return(t, call)
  PROVE  Accepts(call) /\ (lpc = "idle" \/ InCallback)
<1>1. apc[t] = call /\ call # None
  BY NoneAssumption DEF Return
<1>2. Accepts(call)
  BY <1>1 DEF IInv, CheckStillHolds
<1>3. ~CallsIdle
  BY <1>1 DEF CallsIdle
<1> QED BY <1>2, <1>3 DEF IInv, CallPlace

LEMMA CallsAtRest ==
  ASSUME ~Threaded, IInv, AppNext
  PROVE  /\ lpc = "idle" \/ InCallback
         /\ UNCHANGED control
         /\ \/ UNCHANGED state
            \/ state = "disconnected" /\ state' = "connectingTcp1"
            \/ state = "connected" /\ state' = "disconnectingMqtt1"
            \/ state \notin Teardown \cup {"disconnected"} /\ state' = "disconnectingTcp1"
<1> PICK t \in Thread : (\E call \in Calls : Call(t, call)) \/ Act(t)
  BY DEF AppNext
<1>1. CASE \E call \in Calls : Call(t, call)
  BY <1>1 DEF Call, MayCall, client
<1>2. CASE Connect(t)
  <2>1. Return(t, "connect") /\ "connect" \in Calls
    BY <1>2 DEF Connect, Calls
  <2>2. Accepts("connect") /\ (lpc = "idle" \/ InCallback)
    BY <2>1, ActChecks
  <2> QED BY <1>2, <2>2 DEF Connect, Accepts
<1>3. CASE Disconnect(t)
  <2>1. CASE Return(t, "disconnect") /\ state' = "disconnectingMqtt1"
    <3>1. "disconnect" \in Calls
      BY DEF Calls
    <3>2. Accepts("disconnect") /\ (lpc = "idle" \/ InCallback)
      BY <2>1, <3>1, ActChecks
    <3> QED BY <1>3, <2>1, <3>2 DEF Disconnect, Accepts
  <2>2. CASE Return(t, "force") /\ state' = "disconnectingTcp1"
    <3>1. "force" \in Calls
      BY DEF Calls
    <3>2. Accepts("force") /\ (lpc = "idle" \/ InCallback)
      BY <2>2, <3>1, ActChecks
    <3> QED BY <1>3, <2>2, <3>2 DEF Disconnect, Accepts
  <2> QED BY <1>3, <2>1, <2>2 DEF Disconnect
<1>4. CASE Publish(t) \/ Subscribe(t) \/ Unsubscribe(t) \/ ClearQueueCall(t)
  <2>1. PICK call \in Calls : Return(t, call)
    BY <1>4 DEF Publish, Subscribe, Unsubscribe, Request, ClearQueueCall, Calls
  <2>2. lpc = "idle" \/ InCallback
    BY <2>1, ActChecks
  <2> QED BY <1>4, <2>2 DEF Publish, Subscribe, Unsubscribe, Request, ClearQueueCall
<1> QED BY <1>1, <1>2, <1>3, <1>4 DEF Act

\* What the handlers of packets do to place and state.
LEMMA HandlersGo ==
  ASSUME Receiving, ~Read, ~OnConnack
  PROVE  /\ lpc = "parse"
         /\ \/ UNCHANGED state /\ lpc' \in {"parse", "ping"}
            \/ state' = "disconnectingTcp1" /\ lpc' = "ping"
            \/ UNCHANGED state /\ lpc' = "cb" /\ state # "connectingMqtt"
<1>1. CASE ExpectedConnack
  BY <1>1 DEF ExpectedConnack, At, StopReceiving, Continue, Goto
<1>2. CASE ProtocolError \/ OnConnackRefused
  BY <1>2 DEF ProtocolError, OnConnackRefused, Incoming, At, Fails, StopReceiving, Continue, Goto
\* the other handlers
<1>3. ASSUME NEW type \in {"PUBLISH", "PUBACK", "PUBREC", "PUBREL", "PUBCOMP", "SUBACK",
                           "UNSUBACK", "PINGRESP"},
             Incoming(type), ~Unexpected, UNCHANGED state,
             Continue(Tail(rx)) \/ CallBack
      PROVE  /\ lpc = "parse"
             /\ \/ UNCHANGED state /\ lpc' \in {"parse", "ping"}
                \/ UNCHANGED state /\ lpc' = "cb" /\ state # "connectingMqtt"
  BY <1>3 DEF Incoming, At, Unexpected, Continue, CallBack, Goto
<1>4. CASE OnPublish
  BY <1>3, <1>4 DEF OnPublish, OutboxOnly, Notify
<1>5. CASE OnPuback \/ OnPubcomp
  BY <1>3, <1>5 DEF OnPuback, OnPubcomp, Finish, OutboxOnly, Notify
<1>6. CASE OnPubrec \/ OnPubrel
  BY <1>3, <1>6 DEF OnPubrec, OnPubrel, Reply, OutboxOnly
<1>7. CASE OnSuback \/ OnUnsuback
  BY <1>3, <1>7 DEF OnSuback, OnUnsuback, Settle, OutboxOnly, Notify
<1>8. CASE OnPingresp
  BY <1>3, <1>8 DEF OnPingresp
<1> QED BY <1>1, <1>2, <1>4, <1>5, <1>6, <1>7, <1>8 DEF Receiving

\* A step of loop() and what it does to place, branch and state.
LEMMA LoopMoves ==
  ASSUME TypeInv, LoopNext
  PROVE  /\ ~Threaded => CallsIdle
         /\ \/ /\ lpc = "idle" /\ UNCHANGED state /\ state # "disconnected"
               /\ branch' = (IF state = "connectingMqtt" THEN "mqtt" ELSE "full")
               /\ \/ lpc' = "tcp1" /\ state = "connectingTcp1"
                  \/ lpc' = "tcp2" /\ state = "connectingTcp2"
                  \/ /\ lpc' = "check"
                     /\ state \in {"connectingMqtt", "connected", "disconnectingMqtt2"}
                  \/ lpc' = "bye" /\ state = "disconnectingMqtt1"
                  \/ lpc' = "stop" /\ state = "disconnectingTcp1"
                  \/ lpc' = "stopped" /\ state = "disconnectingTcp2"
            \/ /\ branch' = branch
               /\ \/ lpc = "tcp1" /\ lpc' = "idle" /\ state' = "disconnectingTcp1"
                  \/ /\ lpc = "tcp2" /\ lpc' = "idle"
                     /\ state' \in {"connectingMqtt", "disconnectingTcp1"}
                  \/ lpc = "check" /\ lpc' \in {"send", "lost"} /\ UNCHANGED state
                  \/ lpc = "lost" /\ lpc' = "idle" /\ state' = "disconnectingTcp1"
                  \/ /\ lpc = "bye" /\ lpc' = "send"
                     /\ state' \in {state, "disconnectingMqtt2"}
                  \/ lpc = "stop" /\ lpc' = "idle" /\ state' = "disconnectingTcp2"
                  \/ /\ Disconnected /\ lpc = "stopped"
                     /\ lpc' = "cbDisconnect" /\ state' = "disconnected"
                  \/ /\ lpc = "send" /\ lpc' \in {"send", "read"}
                     /\ \/ UNCHANGED state
                        \/ branch # "mqtt" /\ state' = "disconnectingTcp1"
                  \/ lpc = "read" /\ lpc' \in {"parse", "ping"} /\ UNCHANGED state
                  \/ /\ lpc = "parse" /\ ~OnConnack
                     /\ \/ UNCHANGED state /\ lpc' \in {"parse", "ping"}
                        \/ state' = "disconnectingTcp1" /\ lpc' = "ping"
                        \/ UNCHANGED state /\ lpc' = "cb" /\ state # "connectingMqtt"
                  \/ /\ OnConnack /\ lpc = "parse" /\ lpc' = "cbConnect"
                     /\ state' \in {"connected", "disconnectingTcp1"}
                  \/ lpc \in {"cb", "cbConnect"} /\ lpc' \in {"parse", "ping"} /\ UNCHANGED state
                  \/ lpc = "cbDisconnect" /\ lpc' = "idle" /\ UNCHANGED state
                  \/ /\ lpc = "ping" /\ lpc' \in {"idle", "timeout"}
                     /\ state' \in {state, "disconnectingTcp1"}
                  \/ lpc = "timeout" /\ lpc' = "idle" /\ UNCHANGED state
<1>1. CASE Dispatch
  <2>1. /\ state \in State /\ state # "disconnected" /\ lpc = "idle" /\ (~Threaded => CallsIdle)
        /\ UNCHANGED state
        /\ branch' = IF state = "connectingMqtt" THEN "mqtt" ELSE "full"
        /\ lpc' = CASE state = "connectingTcp1" -> "tcp1"
                    [] state = "connectingTcp2" -> "tcp2"
                    [] state \in {"connectingMqtt", "connected", "disconnectingMqtt2"} -> "check"
                    [] state = "disconnectingMqtt1" -> "bye"
                    [] state = "disconnectingTcp1" -> "stop"
                    [] state = "disconnectingTcp2" -> "stopped"
    BY <1>1 DEF Dispatch, At, LoopMayStep, Goto, TypeInv, ClientTyped
  <2>2. state \in {"connectingTcp1", "connectingTcp2", "connectingMqtt", "connected",
                   "disconnectingMqtt1", "disconnectingMqtt2", "disconnectingTcp1",
                   "disconnectingTcp2"}
    BY <2>1 DEF State, Leaving, Teardown
  <2> QED BY <2>1, <2>2
<1>2. CASE Connecting
  BY <1>2 DEF Connecting, TcpConnectFails, TcpConnected, CheckTransport, TransportLost, At,
     LoopMayStep, Goto, Fails, client
<1>3. CASE Disconnecting
  BY <1>3 DEF Disconnecting, SayGoodbye, StopTransport, Disconnected, At, LoopMayStep, Goto
<1>4. CASE Sending
  <2>1. CASE SendPacket
    <3>1. lpc = "send" /\ (~Threaded => CallsIdle) /\ branch' = branch
      BY <2>1 DEF SendPacket, At, LoopMayStep
    <3>2. \/ lpc' = "read" /\ UNCHANGED state
          \/ /\ branch # "mqtt" /\ lpc' \in {"send", "read"}
             /\ UNCHANGED state \/ state' = "disconnectingTcp1"
      BY <2>1 DEF SendPacket, AdvanceState, Goto
    <3> QED BY <3>1, <3>2
  <2>2. CASE SendFails \/ NothingToSend
    BY <2>2 DEF SendFails, NothingToSend, At, LoopMayStep, Goto, client
  <2> QED BY <1>4, <2>1, <2>2 DEF Sending
<1>5. CASE Read
  BY <1>5 DEF Read, At, LoopMayStep, Goto
<1>6. CASE OnConnack
  BY <1>6 DEF OnConnack, Incoming, At, LoopMayStep, Goto, AdvanceState
<1>7. CASE Receiving /\ ~Read /\ ~OnConnack
  <2>1. (~Threaded => CallsIdle) /\ branch' = branch
    <3>1. CASE ExpectedConnack \/ ProtocolError \/ OnConnackRefused \/ OnPublish \/ OnPingresp
      BY <3>1 DEF ExpectedConnack, ProtocolError, OnConnackRefused, OnPublish, OnPingresp,
         Incoming, At, LoopMayStep, OutboxOnly
    <3>2. CASE OnPuback \/ OnPubcomp \/ OnPubrec \/ OnPubrel \/ OnSuback \/ OnUnsuback
      BY <3>2 DEF OnPuback, OnPubcomp, OnPubrec, OnPubrel, OnSuback, OnUnsuback, Finish, Reply,
         Settle, Incoming, At, LoopMayStep, OutboxOnly
    <3> QED BY <1>7, <3>1, <3>2 DEF Receiving
  <2> QED BY <1>7, <2>1, HandlersGo
<1>8. CASE Callbacks
  BY <1>8 DEF Callbacks, CallbackReturns, ConnectCallbackReturns, DisconnectCallbackReturns,
     StopReceiving, Continue, At, LoopMayStep, Goto, client
<1>9. CASE Timers
  BY <1>9 DEF Timers, CheckPing, Retransmit, NoRetransmit, AfterPing, Fails, At, LoopMayStep,
     Goto, client
<1> QED BY <1>1, <1>2, <1>3, <1>4, <1>5, <1>6, <1>7, <1>8, <1>9 DEF LoopNext

\* The steps that loop() and the application have no part in.
LEMMA OutsideMoves ==
  ASSUME [Next]_vars, ~(ClientStep /\ (LoopNext \/ AppNext)), ~ConnectStep
  PROVE  UNCHANGED <<state, lpc, branch>>
<1>1. CASE ClientStep
  BY <1>1 DEF ClientStep, TimePasses, control
<1>2. CASE BrokerStep \/ LossStep \/ UNCHANGED vars
  BY <1>2 DEF BrokerStep, LossStep, vars, clientVars, client, control
<1> QED BY <1>1, <1>2 DEF Next

LEMMA StepPlaced ==
  ASSUME ~Threaded, TypeInv, IInv, Placed, [Next]_vars
  PROVE  Placed'
<1>1. CASE LoopNext
  BY <1>1, LoopMoves DEF Placed
<1>2. CASE AppNext
  BY <1>2, CallsAtRest DEF Placed, InCallback, control
<1>3. CASE ConnectStep
  BY <1>3 DEF ConnectStep, TcpConnect, Goto, Placed
<1>4. CASE UNCHANGED <<state, lpc, branch>>
  BY <1>4 DEF Placed
<1> QED BY <1>1, <1>2, <1>3, <1>4, OutsideMoves

\* A client that goes on as connected was greeted, or CONNACK greets it.
LEMMA GreetedBefore ==
  ASSUME ~Threaded, TypeInv, IInv, Placed, [Next]_vars, Greeted'
  PROVE  ~ConnectStep /\ (Greeted \/ (ClientStep /\ OnConnack))
<1>1. CASE ClientStep /\ LoopNext
  <2>1. ~ConnectStep
    <3>1. ConnectStep => lpc = "tcp1" /\ lpc' = "tcp2"
      BY DEF ConnectStep, TcpConnect, At, Goto
    <3> QED BY <1>1, <3>1, LoopMoves
  <2> QED BY <1>1, <2>1, LoopMoves DEF Placed, Greeted
<1>2. CASE AppNext
  <2>1. ~ConnectStep
    <3>1. ConnectStep => lpc = "tcp1"
      BY DEF ConnectStep, TcpConnect, At
    <3> QED BY <1>2, <3>1, CallsAtRest DEF InCallback
  <2> QED BY <1>2, <2>1, CallsAtRest DEF Greeted, InCallback, control
<1>3. CASE ConnectStep
  BY <1>3 DEF ConnectStep, TcpConnect, Goto, Greeted
<1>4. CASE UNCHANGED <<state, lpc, branch>> /\ ~ConnectStep
  BY <1>4 DEF Greeted
<1> QED BY <1>1, <1>2, <1>3, <1>4, OutsideMoves

LEMMA ConnackStaysTaken ==
  ASSUME Base, Base', [Next]_vars, ~ConnectStep, ConnackTaken
  PROVE  ConnackTaken'
<1>1. CASE Serves
  <2>0. /\ TypeInv /\ TypeInv' /\ ConnackFirst /\ AtBroker /\ bConn # "wait"
        /\ Without(Coming, "CONNACK")
    BY <1>1 DEF Base, Serves, ConnackTaken
  <2>1. ~GetConnect /\ ~Refuse
    BY <2>0 DEF GetConnect, Refuse
  <2>2. bConn' = bConn
    BY <1>1, <2>1 DEF Serves, GetPublish, GetPubrel, GetRequest, GetAnswer, GetPubrec,
       PublishMessage
  <2>3. ASSUME NEW x, Brings(x), x.type # "CONNACK" PROVE Without(Coming', "CONNACK")
    <3>1. \A k \in 1 .. Len(Coming') :
            \/ k \in 1 .. Len(Coming) /\ Coming'[k] = Coming[k]
            \/ Coming'[k] = x
      BY <2>0, <2>3, BringsElements
    <3> QED BY <2>0, <2>3, <3>1 DEF Without
  <2>4. CASE GetPublish \/ GetPubrel \/ GetAnswer \/ GetPubrec
    <3>1. \A i : /\ Answer("PUBACK", i).type # "CONNACK" /\ Answer("PUBREC", i).type # "CONNACK"
                 /\ Answer("PUBCOMP", i).type # "CONNACK" /\ Answer("PUBREL", i).type # "CONNACK"
      BY DEF Answer
    <3>2. Coming' = Coming \/ \E x : Brings(x) /\ x.type # "CONNACK"
      <4>1. TakesPublish \/ TakesPubrel \/ TakesAnswer \/ TakesPubrec
        BY <2>0, <2>4, TakesKinds
      <4> QED BY <3>1, <4>1 DEF TakesPublish, TakesPubrel, TakesAnswer, TakesPubrec
    <3> QED BY <2>0, <2>2, <2>3, <3>2 DEF ConnackTaken, Without
  <2>5. CASE GetRequest
    <3>1. PICK r \in {<<"SUBSCRIBE", "SUBACK">>, <<"UNSUBSCRIBE", "UNSUBACK">>,
                      <<"PINGREQ", "PINGRESP">>} :
            Gets(r[1]) /\ Send(<<Answer(r[2], Next1.id)>>)
      BY <2>5 DEF GetRequest
    <3> DEFINE x == Answer(r[2], Next1.id)
    <3>2. Next1 \in ClientPacket /\ Next1.type = r[1]
      BY <2>0, <2>5, <3>1, TakeTakes DEF GetRequest, Gets
    <3>3. x \in BrokerPacket /\ x.type # "CONNACK"
      BY <3>1, <3>2 DEF Answer, BrokerPacket, ClientPacket
    <3>4. Send(<<x>>)
      BY <3>1
    <3> HIDE DEF x
    <3>5. Brings(x)
      BY <2>0, <3>3, <3>4, SendBrings
    <3> QED BY <2>0, <2>2, <2>3, <3>3, <3>5 DEF ConnackTaken
  <2>6. CASE PublishMessage
    <3>1. \A f : Message(f, FALSE).type # "CONNACK"
      BY DEF Message
    <3>2. \E x : Brings(x) /\ x.type # "CONNACK"
      BY <2>0, <2>6, <3>1, PublishesKind DEF Publishes, PublishesAs
    <3> QED BY <2>0, <2>2, <2>3, <3>2 DEF ConnackTaken
  <2> QED BY <1>1, <2>1, <2>4, <2>5, <2>6 DEF Serves
<1>2. CASE ~Serves
  <2>1. Piece(Coming', Coming)
    BY <1>2, StepKinds, ClientEffects DEF Base, Kinds
  <2>2. Coming \in Seq(BrokerPacket) /\ Coming' \in Seq(BrokerPacket)
    BY Sequences, ConcatProperties DEF Base, TypeInv, IncomingTyped, Coming
  <2>3. \A k \in 1 .. Len(Coming') : \E j \in 1 .. Len(Coming) : Coming'[k] = Coming[j]
    BY <2>1, <2>2, PieceHas
  <2>4. bConn' \in {bConn, "down"}
    <3>1. CASE ClientStep \/ UNCHANGED vars
      BY <3>1 DEF ClientStep, vars, brokerVars
    <3>2. CASE BrokerStep
      BY <1>2, <3>2 DEF BrokerStep, Serves, AtBroker, Answers, ProtocolViolation, GetDisconnect,
                        Close
    <3>3. CASE LossStep
      BY <3>3 DEF LossStep, ConnectionLost, Close
    <3> QED BY <3>1, <3>2, <3>3 DEF Next
  <2> QED BY <2>3, <2>4 DEF ConnackTaken, Without
<1> QED BY <1>1, <1>2

\* The packet being handled is the first one on its way.
LEMMA HeadIsFirst ==
  ASSUME TypeInv, At("parse")
  PROVE  /\ Coming # <<>> /\ 1 \in 1 .. Len(Coming) /\ Coming[1] = Head(rx)
         /\ Head(rx) \in BrokerPacket
<1>1. /\ rx \in Seq(BrokerPacket) /\ s2c \in Seq(BrokerPacket) /\ Coming \in Seq(BrokerPacket)
      /\ rx # <<>> /\ Head(rx) \in BrokerPacket
  BY Sequences, HeadTyped
<1>2. Coming # <<>> /\ Head(Coming) = Head(rx)
  BY <1>1, HeadOfConcat DEF Coming
<1> QED BY <1>1, <1>2, TailHas

LEMMA StepHandshake ==
  ASSUME ~Threaded, Base, Base', IInv, Placed, Handshake, [Next]_vars
  PROVE  Handshake'
<1> SUFFICES ASSUME Greeted' PROVE ConnackTaken'
  BY DEF Handshake
<1>1. ~ConnectStep /\ (Greeted \/ (ClientStep /\ OnConnack))
  BY GreetedBefore DEF Base
<1>2. CASE Greeted
  BY <1>1, <1>2, ConnackStaysTaken DEF Handshake
<1>3. CASE ClientStep /\ OnConnack
  <2>1. /\ At("parse") /\ UNCHANGED <<packetId, wire, s2c>> /\ rx' = Tail(rx)
        /\ UNCHANGED <<session, passedOn, unsent, bConn>>
    BY <1>3 DEF OnConnack, Incoming, net, ClientStep, brokerVars
  <2>2. Handles(Head(rx)) /\ Head(rx) \in BrokerPacket
    BY <2>1, Handling DEF Base
  <2>3. Without(Coming', "CONNACK")
    BY <2>2, Handled DEF Base, Without
  <2>4. bConn # "wait"
    BY <2>1, HeadIsFirst DEF Base, ConnackFirst
  <2> QED BY <2>1, <2>3, <2>4 DEF ConnackTaken
<1> QED BY <1>1, <1>2, <1>3

OrderInv == Base /\ IInv /\ Placed /\ Handshake

LEMMA InitOrder == Init => OrderInv
<1> SUFFICES ASSUME Init PROVE OrderInv
  OBVIOUS
<1>1. lpc = "idle" /\ state = "disconnected"
  BY DEF Init, ClientInit
<1> QED BY <1>1, InitBase, InitIInv DEF OrderInv, Placed, Handshake, Greeted

LEMMA StepOrder == ~Threaded /\ OrderInv /\ [Next]_vars => OrderInv'
<1> SUFFICES ASSUME ~Threaded, OrderInv, [Next]_vars PROVE OrderInv'
  OBVIOUS
<1>1. Base' /\ IInv'
  BY StepBase, StepIInv DEF OrderInv
<1> QED BY <1>1, StepPlaced, StepHandshake DEF OrderInv, Base

\* CONNACK is not handled while the socket is being closed: it is the first packet
\* of its connection, and the client awaits it in "connectingMqtt".
LEMMA TeardownStep ==
  ASSUME ~Threaded, OrderInv, [Next]_vars, state \in Teardown
  PROVE  state' \in Teardown \cup {"disconnected"}
<1>1. TypeInv /\ IInv /\ Placed
  BY DEF OrderInv, Base
<1>2. CASE LoopNext
  <2>1. ~OnConnack
    <3> SUFFICES ASSUME OnConnack PROVE FALSE
      OBVIOUS
    <3>1. At("parse") /\ Head(rx).type = "CONNACK"
      BY DEF OnConnack, Incoming
    <3>2. 1 \in 1 .. Len(Coming) /\ Coming[1].type = "CONNACK"
      BY <1>1, <3>1, HeadIsFirst
    <3>3. Greeted
      BY <3>1 DEF At, Greeted, Teardown
    <3> QED BY <3>2, <3>3 DEF OrderInv, Handshake, ConnackTaken, Without
  <2> QED BY <1>1, <1>2, <2>1, LoopMoves DEF Placed, Teardown
<1>3. CASE AppNext
  BY <1>1, <1>3, CallsAtRest DEF Teardown
<1>4. CASE ConnectStep
  BY <1>1, <1>4 DEF ConnectStep, TcpConnect, At, Placed, Teardown
<1>5. CASE UNCHANGED <<state, lpc, branch>>
  BY <1>5
<1> QED BY <1>2, <1>3, <1>4, <1>5, OutsideMoves

\* Called from its own thread, the client becomes "disconnected" before it does
\* anything else once it closes the socket (MqttClient.cpp:299-314), whatever
\* the broker and the network do and the application calls.
THEOREM TeardownEnds == ASSUME ~Threaded PROVE Spec => TeardownIsFinal
<1>1. OrderInv /\ [Next]_vars => OrderInv'
  BY StepOrder
<1>2. OrderInv /\ [Next]_vars =>
        [(state \in Teardown) => (state' \in Teardown \cup {"disconnected"})]_vars
  BY TeardownStep
<1> QED BY <1>1, <1>2, InitOrder, PTL DEF Spec, TeardownIsFinal
-----------------------------------------------------------------------------
(* Where the packets of the outbox come from *)

\* The packets of t have the types of packets of s, or are of the types.
AddsOnly(t, s, types) ==
  \A k \in 1 .. Len(t) : t[k].type \in types \/ \E j \in 1 .. Len(s) : s[j].type = t[k].type

\* Packets that may be anywhere in a connection.
Ordinary == AllTypes \ {"CONNECT", "DISCONNECT"}

LEMMA WithinAdds ==
  ASSUME NEW s, NEW t, Within(t, s), NEW types
  PROVE  AddsOnly(t, s, types)
<1> SUFFICES ASSUME NEW k \in 1 .. Len(t)
             PROVE  \E j \in 1 .. Len(s) : s[j].type = t[k].type
  BY DEF AddsOnly
<1> PICK e \in [1 .. Len(t) -> 1 .. Len(s)] : \A n \in 1 .. Len(t) : Same(t[n], s[e[n]])
  BY DEF Within
<1>1. e[k] \in 1 .. Len(s) /\ Same(t[k], s[e[k]])
  OBVIOUS
<1> QED BY <1>1 DEF Same

LEMMA AppendAdds ==
  ASSUME NEW S, NEW s, NEW t \in Seq(S), Within(t, s), NEW x \in S, NEW types, x.type \in types
  PROVE  AddsOnly(Append(t, x), s, types)
<1>1. AddsOnly(t, s, types)
  BY WithinAdds
<1> SUFFICES ASSUME NEW k \in 1 .. Len(Append(t, x))
             PROVE  \/ Append(t, x)[k].type \in types
                    \/ \E j \in 1 .. Len(s) : s[j].type = Append(t, x)[k].type
  BY DEF AddsOnly
<1>2. CASE k = Len(t) + 1
  <2>1. Append(t, x)[k] = x
    BY <1>2, AppendElements
  <2> QED BY <2>1
<1>3. CASE k \in 1 .. Len(t)
  <2>1. Append(t, x)[k] = t[k]
    BY <1>3, AppendElements
  <2> QED BY <1>1, <1>3, <2>1 DEF AddsOnly
<1> QED BY <1>2, <1>3, AppendElements

LEMMA WithinWithout ==
  ASSUME NEW s, NEW t, NEW type, NEW types, AddsOnly(t, s, types), type \notin types,
         Without(s, type)
  PROVE  Without(t, type)
BY DEF AddsOnly, Without

\* Why a packet may be appended.
MayAdd ==
  \/ state \notin Leaving
  \/ KeepAlive
  \/ \E k \in 1 .. Len(outbox.q) : outbox.q[k].type \in {"PUBLISH", "PUBREC"}

\* An ordinary packet is appended, perhaps with another one removed.
Adds ==
  \E t \in Seq(ClientPacket), x \in ClientPacket :
    /\ Within(t, outbox.q) /\ outbox'.q = Append(t, x)
    /\ x.type \in Ordinary /\ MayAdd

Shrinks == Within(outbox'.q, outbox.q)

\* connect() puts CONNECT first.
Leads ==
  /\ state = "disconnected" /\ state' = "connectingTcp1" /\ UNCHANGED <<bytesSent, wire, control>>
  /\ outbox' = EmplaceFront(outbox, Ctl("CONNECT", 0))

\* DISCONNECT goes into an outbox that has run empty.
TakesLeave ==
  /\ state' = "disconnectingMqtt2" /\ outbox.q = <<>>
  /\ outbox'.q = <<Ctl("DISCONNECT", 0)>>

LEMMA Stays ==
  ASSUME TypeInv, outbox' = outbox \/ outbox' = ResetCurrent(outbox)
  PROVE  Shrinks
<1>1. outbox'.q = outbox.q /\ outbox.q \in Seq(ClientPacket)
  BY Sequences, ResetBox
<1> QED BY <1>1, WithinItself DEF Shrinks

LEMMA Grows ==
  ASSUME TypeInv, NEW x \in ClientPacket, x.type \in Ordinary, MayAdd,
         outbox' \in AddPacket(outbox, x)
  PROVE  Shrinks \/ Adds
<1>1. outbox \in Box(ClientPacket) /\ outbox.q \in Seq(ClientPacket)
  BY Sequences
<1>2. outbox' = outbox \/ outbox'.q = Append(outbox.q, x)
  BY <1>1, AddPacketBox
<1>3. Within(outbox.q, outbox.q)
  BY <1>1, WithinItself
<1> QED BY <1>1, <1>2, <1>3, Stays DEF Adds

\* publish, subscribe and unsubscribe append an ordinary packet.
LEMMA RequestsAdd ==
  ASSUME ~Threaded, TypeInv, IInv, NEW t \in Thread,
         Publish(t) \/ Subscribe(t) \/ Unsubscribe(t)
  PROVE  /\ state \notin Leaving
         /\ \E x \in ClientPacket : x.type \in Ordinary /\ outbox' \in AddPacket(outbox, x)
<1> DEFINE Goal == /\ state \notin Leaving
                   /\ \E x \in ClientPacket : x.type \in Ordinary /\ outbox' \in AddPacket(outbox, x)
<1>1. ASSUME NEW call \in Calls, call \notin {"connect", "disconnect", "force", "clear", "clearAll"},
             NEW p, Request(t, call, p), p.type \in {"PUBLISH", "SUBSCRIBE", "UNSUBSCRIBE"},
             IF call = "publish0" THEN p \in ClientPacket
             ELSE [p EXCEPT !.id = NextPacketId] \in ClientPacket,
             [p EXCEPT !.id = NextPacketId].type = p.type
      PROVE  Goal
  <2> DEFINE r == IF call = "publish0" THEN p ELSE [p EXCEPT !.id = NextPacketId]
  <2>1. r \in ClientPacket /\ r.type \in Ordinary
    BY <1>1 DEF Ordinary, AllTypes
  <2>2. outbox' \in AddPacket(outbox, r) /\ Return(t, call)
    BY <1>1 DEF Request
  <2> HIDE DEF r
  <2>3. Accepts(call)
    BY <2>2, ActChecks
  <2>4. state \notin Leaving
    BY <1>1, <2>3 DEF Accepts, Calls, Leaving, Teardown
  <2> QED BY <2>1, <2>2, <2>4
<1>2. NextPacketId \in 1 .. MaxId
  BY ClientAssumption DEF NextPacketId, TypeInv, ClientTyped
<1>3. ASSUME NEW p \in Packet, NEW type, p.type = type,
             type \in {"PUBLISH", "SUBSCRIBE", "UNSUBSCRIBE"}, type = "PUBLISH" => p.qos # 0
      PROVE  LET r == [p EXCEPT !.id = NextPacketId] IN r \in ClientPacket /\ r.type = p.type
  <2> HIDE DEF NextPacketId
  <2> DEFINE r == [p EXCEPT !.id = NextPacketId]
  <2>0. NextPacketId \in 0 .. MaxId
    BY <1>2
  <2>1. r \in Packet /\ r.id = NextPacketId /\ r.type = p.type /\ r.qos = p.qos
    BY <2>0, WithNewId
  <2> HIDE DEF r
  <2>2. r \in ClientPacket
    BY <1>2, <1>3, <2>1 DEF ClientPacket
  <2> QED BY <2>1, <2>2 DEF r
<1>4. \A q \in 0 .. 2 : Pub(0, q) \in Packet /\ Pub(0, q).type = "PUBLISH" /\ Pub(0, q).qos = q
  BY ClientAssumption DEF Pub, Packet, AllTypes
<1>5. \A type \in {"SUBSCRIBE", "UNSUBSCRIBE"} : Ctl(type, 0) \in Packet /\ Ctl(type, 0).type = type
  BY ClientAssumption DEF Ctl, Packet, AllTypes
<1>6. ASSUME Request(t, "publish0", Pub(0, 0)) PROVE Goal
  <2>1. Pub(0, 0) \in ClientPacket /\ "publish0" \in Calls
    BY CtlTyped DEF Calls
  <2>2. [Pub(0, 0) EXCEPT !.id = NextPacketId].type = Pub(0, 0).type /\ Pub(0, 0).type = "PUBLISH"
    BY DEF Pub
  <2> QED BY <1>1, <1>6, <2>1, <2>2
<1>7. ASSUME NEW q \in 1 .. 2, NEW call \in {"publish1", "publish2"}, Request(t, call, Pub(0, q))
      PROVE  Goal
  <2>1. Pub(0, q) \in Packet /\ Pub(0, q).type = "PUBLISH" /\ Pub(0, q).qos # 0
    BY <1>4
  <2>2. [Pub(0, q) EXCEPT !.id = NextPacketId] \in ClientPacket
        /\ [Pub(0, q) EXCEPT !.id = NextPacketId].type = Pub(0, q).type
    BY <1>3, <2>1
  <2>3. call \in Calls
    BY DEF Calls
  <2> QED BY <1>1, <1>7, <2>1, <2>2, <2>3
<1>8. ASSUME NEW type \in {"SUBSCRIBE", "UNSUBSCRIBE"}, NEW call \in {"subscribe", "unsubscribe"},
             Request(t, call, Ctl(type, 0))
      PROVE  Goal
  <2>1. Ctl(type, 0) \in Packet /\ Ctl(type, 0).type = type
    BY <1>5
  <2>2. [Ctl(type, 0) EXCEPT !.id = NextPacketId] \in ClientPacket
        /\ [Ctl(type, 0) EXCEPT !.id = NextPacketId].type = Ctl(type, 0).type
    BY <1>3, <2>1
  <2>3. call \in Calls
    BY DEF Calls
  <2> QED BY <1>1, <1>8, <2>1, <2>2, <2>3
<1> HIDE DEF Goal
<1>9. Goal
  <2>1. CASE Publish(t)
    <3>1. Request(t, "publish1", Pub(0, 1)) => Goal
      BY <1>7
    <3>2. Request(t, "publish2", Pub(0, 2)) => Goal
      BY <1>7
    <3> QED BY <1>6, <2>1, <3>1, <3>2 DEF Publish
  <2>2. CASE Subscribe(t)
    BY <1>8, <2>2 DEF Subscribe
  <2>3. CASE Unsubscribe(t)
    BY <1>8, <2>3 DEF Unsubscribe
  <2> QED BY <2>1, <2>2, <2>3
<1> QED BY <1>9 DEF Goal

LEMMA CallsMove ==
  ASSUME ~Threaded, TypeInv, IInv, AppNext
  PROVE  Shrinks \/ Adds \/ Leads
<1> PICK t \in Thread : (\E call \in Calls : Call(t, call)) \/ Act(t)
  BY DEF AppNext
<1>0. outbox \in Box(ClientPacket)
  BY Sequences
<1>1. CASE \E call \in Calls : Call(t, call)
  BY <1>1, Stays DEF Call, client
<1>2. CASE Connect(t)
  <2>1. Return(t, "connect") /\ "connect" \in Calls
    BY <1>2 DEF Connect, Calls
  <2>2. Accepts("connect")
    BY <2>1, ActChecks
  <2>3. \/ outbox' = EmplaceFront(outbox, Ctl("CONNECT", 0)) /\ state' = "connectingTcp1"
        \/ outbox' \in AddPacketFrontFails(outbox)
    BY <1>2 DEF Connect
  <2> QED BY <1>2, <2>2, <2>3, Stays DEF Accepts, AddPacketFrontFails, Leads, Connect, net
<1>3. CASE Disconnect(t)
  BY <1>3, Stays DEF Disconnect
<1>4. CASE Publish(t) \/ Subscribe(t) \/ Unsubscribe(t)
  BY <1>4, RequestsAdd, Grows DEF MayAdd
<1>5. CASE ClearQueueCall(t)
  BY <1>0, <1>5, ClearQueueBox DEF ClearQueueCall, Shrinks
<1> QED BY <1>1, <1>2, <1>3, <1>4, <1>5 DEF Act

LEMMA HandlersMove ==
  ASSUME TypeInv, Receiving
  PROVE  Shrinks \/ Adds
<1>0. outbox \in Box(ClientPacket) /\ outbox.q \in Seq(ClientPacket)
  BY Sequences
<1>1. CASE Read \/ ExpectedConnack \/ ProtocolError \/ OnConnackRefused \/ OnPingresp
  BY <1>1, Stays DEF Read, ExpectedConnack, ProtocolError, OnConnackRefused, OnPingresp
<1>2. CASE OnConnack
  <2> DEFINE o == Advanced(outbox, bytesSent)
  <2>1. outbox' = o \/ outbox' = ClearQueue(o, 1)
    BY <1>2 DEF OnConnack
  <2>2. o \in Box(ClientPacket) /\ Within(o.q, outbox.q)
    BY <1>0, AdvancedBox
  <2> HIDE DEF o
  <2>3. ClearQueue(o, 1) \in Box(ClientPacket) /\ Within(ClearQueue(o, 1).q, o.q)
    BY <2>2, ClearQueueBox
  <2>4. Within(ClearQueue(o, 1).q, outbox.q)
    BY <1>0, <2>2, <2>3, WithinTrans DEF Box
  <2> QED BY <2>1, <2>2, <2>4 DEF Shrinks
<1>3. CASE OnPublish
  <2> DEFINE p == Head(rx)
  <2>1. p \in BrokerPacket /\ p.type = "PUBLISH"
    BY <1>3, HeadTyped DEF OnPublish, Incoming
  <2>2. CASE state \in Leaving
    BY <1>3, <2>2, Stays DEF OnPublish
  <2>3. CASE state \notin Leaving
    <3>1. outbox' \in CASE p.qos = 0 -> {outbox}
                        [] p.qos = 1 -> AddPacket(outbox, Ctl("PUBACK", p.id))
                        [] p.qos = 2 -> AddPacket(outbox, Ctl("PUBREC", p.id))
      BY <1>3, <2>3 DEF OnPublish
    <3>2. p.qos \in 0 .. 2 /\ (p.qos # 0 => p.id \in BrokerMsg)
      BY <2>1, BrokerPacketParts
    <3>3. ASSUME NEW type \in {"PUBACK", "PUBREC"}, p.id \in BrokerMsg,
                 outbox' \in AddPacket(outbox, Ctl(type, p.id))
          PROVE  Shrinks \/ Adds
      <4>1. Ctl(type, p.id) \in ClientPacket /\ Ctl(type, p.id).type \in Ordinary
        BY <3>3, CtlTyped DEF Ctl, Ordinary, AllTypes
      <4> QED BY <2>3, <3>3, <4>1, Grows DEF MayAdd
    <3> QED BY <3>1, <3>2, <3>3, Stays
  <2> QED BY <2>2, <2>3
<1>4. ASSUME NEW answer, NEW type, Finish(answer, type)
      PROVE  Shrinks
  BY <1>0, <1>4, RemoveItemBox, Stays DEF Finish, Shrinks
<1>5. ASSUME NEW answer, NEW types, Settle(answer, types)
      PROVE  Shrinks
  BY <1>0, <1>5, RemoveItemBox, Stays DEF Settle, Shrinks
<1>6. ASSUME NEW answer \in {"PUBREC", "PUBREL"}, NEW type \in {"PUBLISH", "PUBREC"}, NEW reply,
             Reply(answer, type, reply),
             answer = "PUBREC" => reply = "PUBREL", answer = "PUBREL" => reply = "PUBCOMP"
      PROVE  Shrinks \/ Adds
  <2> DEFINE x == Ctl(reply, Head(rx).id)
  <2>1. Head(rx) \in BrokerPacket /\ Head(rx).type = answer
    BY <1>6, HeadTyped DEF Reply, Incoming
  <2>2. x \in ClientPacket /\ x.type \in Ordinary
    <3>1. answer = "PUBREC" => Head(rx).id \in 1 .. MaxId
      BY <2>1, BrokerPacketParts
    <3>2. answer = "PUBREL" => Head(rx).id \in BrokerMsg
      BY <2>1, BrokerPacketParts
    <3>3. x.type = reply
      BY DEF Ctl
    <3>4. x \in ClientPacket
      BY <1>6, <3>1, <3>2, CtlTyped
    <3> QED BY <1>6, <3>3, <3>4 DEF Ordinary, AllTypes
  <2>3. CASE \E k \in 1 .. Len(outbox.q) :
               /\ FirstIs(type, Head(rx).id, k)
               /\ \E o \in AddPacket(outbox, x) : outbox' = RemoveItem(o, k)
    <3>1. PICK k \in 1 .. Len(outbox.q), o \in AddPacket(outbox, x) :
             outbox.q[k].type = type /\ outbox' = RemoveItem(o, k)
      BY <2>3 DEF FirstIs
    <3>2. MayAdd
      BY <3>1 DEF MayAdd
    <3>3. RemoveItem(outbox, k).q \in Seq(ClientPacket) /\ Within(RemoveItem(outbox, k).q, outbox.q)
      BY <1>0, RemoveItemBox DEF Box
    <3>4. o = outbox \/ o = Emplace(outbox, x)
      BY <1>0, <2>2, <3>1, AddPacketBox
    <3>5. o = Emplace(outbox, x) => outbox'.q = Append(RemoveItem(outbox, k).q, x)
      BY <1>0, <2>2, <3>1, RemoveEmplaced
    <3> QED BY <2>2, <3>1, <3>2, <3>3, <3>4, <3>5 DEF Shrinks, Adds
  <2>4. CASE outbox' = outbox
    BY <2>4, Stays
  <2> QED BY <1>6, <2>3, <2>4 DEF Reply
<1> QED BY <1>1, <1>2, <1>3, <1>4, <1>5, <1>6
        DEF Receiving, OnPuback, OnPubcomp, OnPubrec, OnPubrel, OnSuback, OnUnsuback

\* What a step does to the packets of the outbox.
LEMMA OutboxMoves ==
  ASSUME ~Threaded, TypeInv, IInv, [Next]_vars
  PROVE  Shrinks \/ Adds \/ Leads \/ (SayGoodbye /\ TakesLeave)
<1>0. outbox \in Box(ClientPacket) /\ outbox.q \in Seq(ClientPacket)
  BY Sequences
<1>1. CASE AppNext
  BY <1>1, CallsMove
<1>2. CASE LoopNext
  <2>1. CASE Dispatch \/ Connecting \/ StopTransport \/ SendFails \/ NothingToSend \/ Callbacks
             \/ Retransmit \/ NoRetransmit
    <3>1. outbox' = outbox \/ outbox' = ResetCurrent(outbox)
      BY <2>1 DEF Dispatch, Connecting, TcpConnectFails, TcpConnected, CheckTransport,
         TransportLost, StopTransport, SendFails, NothingToSend, Callbacks, CallbackReturns,
         ConnectCallbackReturns, DisconnectCallbackReturns, Retransmit, NoRetransmit, client
    <3> QED BY <3>1, Stays
  <2>2. CASE SayGoodbye
    <3> DEFINE x == Ctl("DISCONNECT", 0)
    <3>1. x \in ClientPacket
      BY CtlTyped
    <3> HIDE DEF x
    <3>2. CASE outbox' = outbox
      BY <3>2, Stays
    <3>3. CASE outbox' # outbox
      <4>1. /\ outbox.q = <<>> /\ outbox' \in AddPacket(outbox, x)
            /\ state' = IF outbox'.q = <<>> THEN state ELSE "disconnectingMqtt2"
        BY <2>2, <3>3 DEF SayGoodbye, x
      <4>2. outbox'.q = Append(outbox.q, x)
        BY <1>0, <3>1, <3>3, <4>1, AddPacketBox
      <4>3. outbox'.q = <<x>>
        BY <4>1, <4>2
      <4> QED BY <2>2, <4>1, <4>3 DEF TakesLeave, x
    <3> QED BY <3>2, <3>3
  <2>3. CASE Disconnected
    BY <1>0, <2>3, ClearQueueBox DEF Disconnected, Shrinks
  <2>4. CASE SendPacket
    <3>1. outbox' = outbox \/ \E n : outbox' = Advanced(outbox, n)
      BY <2>4 DEF SendPacket
    <3> QED BY <1>0, <3>1, AdvancedBox, Stays DEF Shrinks
  <2>5. CASE CheckPing
    <3>1. outbox' = outbox \/ (KeepAlive /\ outbox' \in AddPacket(outbox, Ctl("PINGREQ", 0)))
      BY <2>5 DEF CheckPing
    <3>2. Ctl("PINGREQ", 0) \in ClientPacket /\ Ctl("PINGREQ", 0).type \in Ordinary
      BY CtlTyped DEF Ctl, Ordinary, AllTypes
    <3> QED BY <3>1, <3>2, Stays, Grows DEF MayAdd
  <2> QED BY <1>2, <2>1, <2>2, <2>3, <2>4, <2>5, HandlersMove
          DEF LoopNext, Disconnecting, Sending, Timers
<1>3. CASE outbox' = outbox
  BY <1>3, Stays
<1> QED BY <1>1, <1>2, <1>3
        DEF Next, ClientStep, ConnectStep, BrokerStep, LossStep, TimePasses, TcpConnect, vars,
            clientVars, client

\* A pass through loop() is at work on a TCP connection.
AtWork ==
  lpc \notin {"idle", "cbDisconnect", "tcp1", "tcp2"} =>
    state \notin {"disconnected", "connectingTcp1", "connectingTcp2"}

LEMMA StepAtWork ==
  ASSUME ~Threaded, TypeInv, IInv, Placed, AtWork, [Next]_vars
  PROVE  AtWork'
<1>1. CASE LoopNext
  BY <1>1, LoopMoves DEF Placed, AtWork
<1>2. CASE AppNext
  BY <1>2, CallsAtRest DEF AtWork, InCallback, control, IInv, WorkMeansConnection
<1>3. CASE ConnectStep
  BY <1>3 DEF ConnectStep, TcpConnect, Goto, AtWork
<1>4. CASE UNCHANGED <<state, lpc, branch>>
  BY <1>4 DEF AtWork
<1> QED BY <1>1, <1>2, <1>3, <1>4, OutsideMoves

\* The current packet is written to its end.
Finishes ==
  LET n == Size(Current(outbox))
  IN  /\ HasCurrent(outbox) /\ Current(outbox) \in ClientPacket
      /\ bytesSent < n /\ tcp = "open"
      /\ wire'.sent = Append(wire.sent, Current(outbox))
      /\ IF branch = "mqtt" THEN bytesSent' = n /\ UNCHANGED <<state, outbox>>
         ELSE /\ AdvanceState(state, outbox, n)
              /\ outbox' = Advanced(outbox, n)
              /\ lpc' = IF HasCurrent(outbox') THEN "send" ELSE "read"

LEMMA SendMoves ==
  ASSUME TypeInv, SendPacket
  PROVE  /\ lpc = "send" /\ UNCHANGED <<s2c, rx, tcp>> /\ HasCurrent(outbox)
         /\ bytesSent < Size(Current(outbox))
         /\ wire'.sent = wire.sent \/ Finishes
<1>0. /\ outbox \in Box(ClientPacket) /\ wire.sent \in Seq(ClientPacket)
      /\ DOMAIN wire = {"sent", "part", "ok", "once"}
  BY Sequences DEF TypeInv, WireTyped
<1>1. HasCurrent(outbox) /\ bytesSent < Size(Current(outbox))
      /\ WantToWrite = Size(Current(outbox)) - bytesSent
  BY DEF SendPacket, WantToWrite
<1>2. bytesSent \in Nat /\ Size(Current(outbox)) \in Nat
  <2>1. Size(Current(outbox)) \in 1 .. PubSize
    BY ClientAssumption DEF Size
  <2> QED BY <1>1, <2>1, ClientAssumption DEF TypeInv, ClientTyped, SizeMax
<1>3. Current(outbox) \in ClientPacket
  BY <1>0, <1>1, ElementOfSeq DEF Box, HasCurrent, Current
<1>4. PICK k \in 0 .. WantToWrite :
        /\ Writable(k)
        /\ wire' = Write(wire, Current(outbox), bytesSent, k)
        /\ IF branch = "mqtt" \/ k = 0
           THEN /\ bytesSent' = bytesSent + k
                /\ UNCHANGED <<state, reason, outbox>>
           ELSE /\ AdvanceState(state, outbox, bytesSent + k)
                /\ outbox' = Advanced(outbox, bytesSent + k)
                /\ lpc' = IF HasCurrent(outbox') THEN "send" ELSE "read"
  BY DEF SendPacket, Goto
<1>5. wire'.sent = wire.sent \/ (k > 0 /\ bytesSent + k = Size(Current(outbox))
                                 /\ wire'.sent = Append(wire.sent, Current(outbox)))
  <2> DEFINE p == Current(outbox)
             w == wire
  <2>1. wire' \in {w, [w EXCEPT !.ok = FALSE], [w EXCEPT !.part = [pkt |-> p, off |-> bytesSent + k]]}
        \/ (k > 0 /\ ~(bytesSent + k < Size(p)))
    BY <1>1, <1>2, <1>4 DEF Write
  <2>2. k > 0 /\ ~(bytesSent + k < Size(p)) => bytesSent + k = Size(p)
    BY <1>1, <1>2, <1>4
  <2>3. wire'.sent \in {wire.sent, Append(wire.sent, p)}
    BY <1>0, <1>3, <1>4, WriteSent
  <2>4. wire' \in {w, [w EXCEPT !.ok = FALSE], [w EXCEPT !.part = [pkt |-> p, off |-> bytesSent + k]]}
        => wire'.sent = wire.sent
    BY <1>0
  <2> QED BY <2>1, <2>2, <2>3, <2>4
<1>6. ASSUME k > 0, bytesSent + k = Size(Current(outbox)),
             wire'.sent = Append(wire.sent, Current(outbox))
      PROVE  Finishes
  BY <1>1, <1>2, <1>3, <1>4, <1>6 DEF Finishes, Writable
<1> QED BY <1>1, <1>5, <1>6 DEF SendPacket, At

\* What a step does to the packets on the wire.
LEMMA WireMoves ==
  ASSUME TypeInv, TypeInv', [Next]_vars
  PROVE  \/ Piece(wire'.sent, wire.sent)
         \/ SendPacket /\ Finishes
<1>0. wire.sent \in Seq(ClientPacket) /\ Piece(wire.sent, wire.sent)
  BY Sequences, PieceItself
<1>1. CASE wire'.sent = wire.sent
  BY <1>0, <1>1
<1>2. CASE SendPacket
  BY <1>1, <1>2, SendMoves
<1>3. CASE wire'.sent = <<>>
  BY <1>0, <1>3, PieceEmpty
<1>4. CASE wire.sent # <<>> /\ Take
  <2>1. wire'.sent = Tail(wire.sent)
    BY <1>4, TakeTakes DEF Takes
  <2> QED BY <1>4, TakeTakes
<1>5. CASE ClientStep
  <2>1. UNCHANGED wire \/ SendPacket
    <3>1. CASE AppNext
      BY <3>1 DEF AppNext, Act, Call, Connect, Disconnect, Publish, Subscribe, Unsubscribe,
         Request, ClearQueueCall, net
    <3>2. CASE TimePasses
      BY <3>2 DEF TimePasses, net
    <3>3. CASE LoopNext
      <4>1. CASE Dispatch \/ Connecting \/ Disconnecting \/ Sending \/ Callbacks \/ Timers
        BY <4>1 DEF Dispatch, Connecting, TcpConnectFails, TcpConnected, CheckTransport,
           TransportLost, Disconnecting, SayGoodbye, StopTransport, Disconnected, Sending, SendFails,
           NothingToSend, Callbacks, CallbackReturns, ConnectCallbackReturns,
           DisconnectCallbackReturns, Timers, CheckPing, Retransmit, NoRetransmit, net
      <4>2. CASE Receiving
        BY <4>2 DEF Receiving, Read, ExpectedConnack, ProtocolError, OnConnack, OnConnackRefused,
           OnPublish, OnPuback, OnPubrec, OnPubrel, OnPubcomp, OnSuback, OnUnsuback, OnPingresp,
           Finish, Reply, Settle, OutboxOnly, net
      <4> QED BY <3>3, <4>1, <4>2 DEF LoopNext
    <3> QED BY <1>5, <3>1, <3>2, <3>3 DEF ClientStep
  <2> QED BY <1>1, <1>2, <2>1
<1>6. CASE ConnectStep
  BY <1>3, <1>6 DEF ConnectStep, TcpConnect, NewWire
<1>7. CASE UNCHANGED vars
  BY <1>1, <1>7 DEF vars, clientVars, net
<1>8. CASE BrokerStep \/ LossStep
  <2>1. CASE Close
    BY <1>0, <1>3, <2>1 DEF Close, TypeInv, WireTyped
  <2>2. CASE UNCHANGED wire
    BY <1>1, <2>2
  <2>3. Close \/ UNCHANGED wire \/ (wire.sent # <<>> /\ Take)
    BY <1>8 DEF BrokerStep, LossStep, Answers, GetConnect, Refuse, ProtocolViolation, GetPublish,
       GetPubrel, GetRequest, GetAnswer, GetPubrec, GetDisconnect, PublishMessage, Gets,
       ConnectionLost
  <2> QED BY <1>4, <2>1, <2>2, <2>3
<1> QED BY <1>5, <1>6, <1>7, <1>8 DEF Next
-----------------------------------------------------------------------------
(* Nothing follows DISCONNECT *)

\* DISCONNECT is alone in the outbox, from the goodbye until it is written.
Goodbye ==
  /\ state = "disconnectingMqtt2" =>
       Len(outbox.q) <= 1 /\ \A k \in 1 .. Len(outbox.q) : outbox.q[k].type = "DISCONNECT"
  /\ state \notin Teardown \cup {"disconnectingMqtt2"} => Without(outbox.q, "DISCONNECT")
  /\ lpc = "send" => state \notin Teardown
  /\ state \notin Teardown \cup {"disconnected", "connectingTcp1"} =>
       Without(wire.sent, "DISCONNECT")

LEMMA WithinShort ==
  ASSUME NEW S, NEW s \in Seq(S), NEW t \in Seq(S), Within(t, s), Len(s) <= 1
  PROVE  Len(t) <= 1
<1> PICK e \in [1 .. Len(t) -> 1 .. Len(s)] : \A j, k \in 1 .. Len(t) : j < k => e[j] < e[k]
  BY DEF Within
<1> SUFFICES ASSUME Len(t) > 1 PROVE FALSE
  OBVIOUS
<1>1. 1 \in 1 .. Len(t) /\ 2 \in 1 .. Len(t)
  OBVIOUS
<1>2. e[1] \in 1 .. Len(s) /\ e[2] \in 1 .. Len(s) /\ e[1] < e[2]
  BY <1>1
<1> QED BY <1>2

\* No handler of CONNACK runs once the client is leaving.
LEMMA NoLateConnack ==
  ASSUME ~Threaded, OrderInv, state \in Leaving \cup {"connected"}
  PROVE  ~OnConnack
<1> SUFFICES ASSUME OnConnack PROVE FALSE
  OBVIOUS
<1>1. At("parse") /\ Head(rx).type = "CONNACK"
  BY DEF OnConnack, Incoming
<1>2. 1 \in 1 .. Len(Coming) /\ Coming[1].type = "CONNACK"
  BY <1>1, HeadIsFirst DEF OrderInv, Base
<1>3. Greeted
  BY <1>1 DEF At, Greeted, Leaving, Teardown
<1> QED BY <1>2, <1>3 DEF OrderInv, Handshake, ConnackTaken, Without

\* How the client gets to leave, and where a step leads that has left.
LEMMA LeavingMoves ==
  ASSUME ~Threaded, OrderInv, AtWork, [Next]_vars
  PROVE  /\ state = "disconnectingMqtt2" => state' \in {"disconnectingMqtt2", "disconnectingTcp1"}
         /\ state \in Teardown => state' \in Teardown \/ (Disconnected /\ state' = "disconnected")
         /\ state = "disconnected" => state' \in {"disconnected", "connectingTcp1"}
         /\ state = "connectingTcp1" => state' \in {"connectingTcp1", "disconnectingTcp1"} \/ ConnectStep
         /\ state' \in {"disconnectingMqtt2", "disconnected"} /\ state' # state =>
              SayGoodbye \/ Disconnected
<1>0. TypeInv /\ IInv /\ Placed
  BY DEF OrderInv, Base
<1>1. CASE LoopNext
  <2>1. state \in Leaving \cup {"connected"} => ~OnConnack
    BY NoLateConnack
  <2>2. OnConnack => state' \in {"connected", "disconnectingTcp1"}
    BY DEF OnConnack, AdvanceState
  <2>3. SayGoodbye => lpc = "bye"
    BY DEF SayGoodbye, At
  <2>4. lpc = "bye" => SayGoodbye
    <3> SUFFICES ASSUME lpc = "bye" PROVE SayGoodbye
      OBVIOUS
    <3>1. ~Dispatch /\ ~Connecting /\ ~Sending /\ ~Callbacks /\ ~Timers
      BY DEF Dispatch, Connecting, TcpConnectFails, TcpConnected, CheckTransport,
         TransportLost, Sending, SendPacket, SendFails,
         NothingToSend, Callbacks, CallbackReturns, ConnectCallbackReturns,
         DisconnectCallbackReturns, Timers, CheckPing, Retransmit, NoRetransmit, At
    <3>2. ~Receiving
      BY DEF Receiving, Read, ExpectedConnack, ProtocolError, OnConnack, OnConnackRefused,
         OnPublish, OnPuback, OnPubrec, OnPubrel, OnPubcomp, OnSuback, OnUnsuback, OnPingresp,
         Finish, Reply, Settle, Incoming, At
    <3> QED BY <1>1, <3>1, <3>2 DEF LoopNext, Disconnecting, StopTransport, Disconnected, At
  <2>5. lpc = "stopped" => Disconnected
    <3> SUFFICES ASSUME lpc = "stopped" PROVE Disconnected
      OBVIOUS
    <3>1. ~Dispatch /\ ~Connecting /\ ~Sending /\ ~Callbacks /\ ~Timers
      BY DEF Dispatch, Connecting, TcpConnectFails, TcpConnected, CheckTransport,
         TransportLost, Sending, SendPacket, SendFails,
         NothingToSend, Callbacks, CallbackReturns, ConnectCallbackReturns,
         DisconnectCallbackReturns, Timers, CheckPing, Retransmit, NoRetransmit, At
    <3>2. ~Receiving
      BY DEF Receiving, Read, ExpectedConnack, ProtocolError, OnConnack, OnConnackRefused,
         OnPublish, OnPuback, OnPubrec, OnPubrel, OnPubcomp, OnSuback, OnUnsuback, OnPingresp,
         Finish, Reply, Settle, Incoming, At
    <3> QED BY <1>1, <3>1, <3>2 DEF LoopNext, Disconnecting, StopTransport, SayGoodbye, At
  <2>6. lpc \notin {"idle", "cbDisconnect"} => state # "disconnected"
    BY <1>0 DEF IInv, WorkMeansConnection
  <2>7. state = "connectingTcp1" /\ OnConnack => FALSE
    <3>1. OnConnack => lpc = "parse"
      BY DEF OnConnack, Incoming, At
    <3> QED BY <3>1 DEF AtWork
  <2>8. state = "disconnected" => lpc \in {"idle", "cbDisconnect"}
    BY <2>6
  <2>9. state = "connectingTcp1" => lpc \in {"idle", "cbDisconnect", "tcp1"}
    BY <1>0 DEF AtWork, Placed
  <2> QED BY <1>0, <1>1, <2>1, <2>2, <2>3, <2>4, <2>5, <2>7, <2>8, <2>9, LoopMoves
          DEF Placed, Teardown, Leaving
<1>2. CASE AppNext
  BY <1>0, <1>2, CallsAtRest DEF Teardown
<1>3. CASE ConnectStep
  BY <1>0, <1>3 DEF ConnectStep, TcpConnect, At, Placed, Teardown
<1>4. CASE UNCHANGED <<state, lpc, branch>>
  BY <1>4
<1> QED BY <1>1, <1>2, <1>3, <1>4, OutsideMoves

LEMMA PieceWithout ==
  ASSUME NEW S, NEW s \in Seq(S), NEW t \in Seq(S), Piece(t, s), NEW type, Without(s, type)
  PROVE  Without(t, type)
<1>1. \A k \in 1 .. Len(t) : \E j \in 1 .. Len(s) : t[k] = s[j]
  BY PieceHas
<1> QED BY <1>1 DEF Without

\* The outbox of a client that has said goodbye.
LEMMA OnlyGoodbye ==
  ASSUME ~Threaded, ~KeepAlive, OrderInv, OrderInv', AtWork, Goodbye, [Next]_vars,
         state' = "disconnectingMqtt2"
  PROVE  Len(outbox'.q) <= 1
         /\ \A k \in 1 .. Len(outbox'.q) : outbox'.q[k].type = "DISCONNECT"
<1>0. /\ TypeInv /\ IInv /\ Placed
      /\ outbox.q \in Seq(ClientPacket) /\ outbox'.q \in Seq(ClientPacket)
  BY DEF OrderInv, Base, TypeInv, OutboxTyped, Box
<1>1. CASE state = "disconnectingMqtt2"
  <2>1. Len(outbox.q) <= 1 /\ \A k \in 1 .. Len(outbox.q) : outbox.q[k].type = "DISCONNECT"
    BY <1>1 DEF Goodbye
  <2>2. ~MayAdd
    BY <1>1, <2>1 DEF MayAdd, Leaving
  <2>3. ~SayGoodbye
    BY <1>0, <1>1 DEF SayGoodbye, At, Placed
  <2>4. Within(outbox'.q, outbox.q)
    BY <1>0, <1>1, <2>2, <2>3, OutboxMoves DEF Adds, Leads, Shrinks
  <2>5. Len(outbox'.q) <= 1
    BY <1>0, <2>1, <2>4, WithinShort
  <2>6. AddsOnly(outbox'.q, outbox.q, {})
    BY <2>4, WithinAdds
  <2> QED BY <2>1, <2>5, <2>6 DEF AddsOnly
<1>2. CASE state # "disconnectingMqtt2"
  <2>1. SayGoodbye
    <3>1. Disconnected => state' = "disconnected"
      BY DEF Disconnected
    <3> QED BY <1>2, <3>1, LeavingMoves
  <2> DEFINE x == Ctl("DISCONNECT", 0)
  <2>2. outbox.q = <<>> /\ outbox' \in AddPacket(outbox, x) /\ outbox'.q # <<>>
    <3>1. CASE outbox.q = <<>>
      BY <1>2, <2>1, <3>1 DEF SayGoodbye
    <3>2. CASE outbox.q # <<>>
      BY <1>2, <2>1, <3>2 DEF SayGoodbye
    <3> QED BY <3>1, <3>2
  <2>3. x \in ClientPacket /\ x.type = "DISCONNECT"
    BY CtlTyped DEF Ctl
  <2> HIDE DEF x
  <2>4. outbox' = outbox \/ outbox'.q = Append(outbox.q, x)
    BY <1>0, <2>2, <2>3, AddPacketBox, Sequences
  <2>5. outbox'.q = <<x>>
    BY <2>2, <2>4
  <2> QED BY <2>3, <2>5
<1> QED BY <1>1, <1>2

\* Elsewhere there is no DISCONNECT in the outbox.
LEMMA NoGoodbye ==
  ASSUME ~Threaded, OrderInv, AtWork, Goodbye, [Next]_vars,
         state' \notin Teardown \cup {"disconnectingMqtt2"}
  PROVE  Without(outbox'.q, "DISCONNECT")
<1>0. /\ TypeInv /\ IInv /\ Placed
      /\ outbox \in Box(ClientPacket) /\ outbox.q \in Seq(ClientPacket)
  BY Sequences DEF OrderInv, Base
<1>1. CASE state \notin Teardown \cup {"disconnectingMqtt2"}
  <2>0. Without(outbox.q, "DISCONNECT")
    BY <1>1 DEF Goodbye
  <2>1. CASE Shrinks
    <3>1. AddsOnly(outbox'.q, outbox.q, {})
      BY <2>1, WithinAdds DEF Shrinks
    <3> QED BY <2>0, <3>1, WithinWithout
  <2>2. CASE Adds
    <3>1. PICK t \in Seq(ClientPacket), x \in ClientPacket :
            Within(t, outbox.q) /\ outbox'.q = Append(t, x) /\ x.type \in Ordinary
      BY <2>2 DEF Adds
    <3>2. AddsOnly(outbox'.q, outbox.q, Ordinary)
      BY <3>1, AppendAdds
    <3>3. "DISCONNECT" \notin Ordinary
      BY DEF Ordinary
    <3> QED BY <2>0, <3>2, <3>3, WithinWithout
  <2>3. CASE Leads
    <3> DEFINE x == Ctl("CONNECT", 0)
    <3>1. x \in ClientPacket /\ x.type = "CONNECT"
      BY CtlTyped DEF Ctl
    <3>2. outbox' = EmplaceFront(outbox, x)
      BY <2>3 DEF Leads
    <3> HIDE DEF x
    <3>3. outbox'.q = <<x>> \o outbox.q
      BY <1>0, <3>1, <3>2, EmplaceFrontBox
    <3>4. \A k \in 1 .. Len(outbox'.q) :
            outbox'.q[k] = x \/ \E j \in 1 .. Len(outbox.q) : outbox'.q[k] = outbox.q[j]
      BY <1>0, <3>1, <3>3
    <3> QED BY <2>0, <3>1, <3>4 DEF Without
  <2>4. ~TakesLeave
    BY DEF TakesLeave
  <2> QED BY <1>0, <2>1, <2>2, <2>3, <2>4, OutboxMoves
<1>2. CASE state \in Teardown \cup {"disconnectingMqtt2"}
  <2>1. Disconnected
    BY <1>2, LeavingMoves DEF Teardown
  <2>2. outbox' = ClearQueue(outbox, 0)
    BY <2>1 DEF Disconnected
  <2>3. \A k \in 1 .. Len(outbox'.q) : Kept(0, outbox'.q[k])
    BY <1>0, <2>2, ClearQueueBox
  <2> QED BY <2>3 DEF Without, Kept
<1> QED BY <1>1, <1>2

\* Once DISCONNECT is written nothing is left to send.
LEMMA GoodbyeIsLast ==
  ASSUME ~Threaded, OrderInv, OrderInv', AtWork, Goodbye, [Next]_vars, lpc' = "send"
  PROVE  state' \notin Teardown
<1>0. /\ TypeInv /\ IInv /\ Placed
      /\ outbox \in Box(ClientPacket) /\ outbox.q \in Seq(ClientPacket)
      /\ outbox'.q \in Seq(ClientPacket) /\ outbox'.c \in Nat \ {0}
  BY DEF OrderInv, Base, TypeInv, OutboxTyped, Box
<1>1. CASE LoopNext
  <2>1. CASE lpc = "send"
    <3>0. state \notin Teardown
      BY <2>1 DEF Goodbye
    <3>1. CASE SendPacket
      <4> SUFFICES ASSUME state' \in Teardown PROVE FALSE
        OBVIOUS
      <4>1. PICK k \in 0 .. WantToWrite :
              /\ AdvanceState(state, outbox, bytesSent + k)
              /\ outbox' = Advanced(outbox, bytesSent + k)
              /\ lpc' = IF HasCurrent(outbox') THEN "send" ELSE "read"
        BY <3>0, <3>1 DEF SendPacket, Goto
      <4>2. FullySent(outbox, bytesSent + k) /\ Current(outbox).type = "DISCONNECT"
        BY <3>0, <4>1 DEF AdvanceState
      <4>3. /\ HasCurrent(outbox) /\ outbox.c \in 1 .. Len(outbox.q)
            /\ outbox.q[outbox.c] = Current(outbox) /\ Current(outbox) \in ClientPacket
        BY <1>0, <4>2 DEF FullySent, HasCurrent, Current, Box
      <4>4. Removable(Current(outbox))
        BY <4>2, <4>3 DEF Removable, ClientPacket
      <4>5. Len(outbox.q) <= 1
        BY <3>0, <4>2, <4>3 DEF Goodbye, Without
      <4>6. outbox' = RemoveItem(outbox, outbox.c)
        BY <4>1, <4>2, <4>3, <4>4 DEF Advanced, RemoveCurrent
      <4>7. Len(outbox'.q) = Len(outbox.q) - 1
        BY <1>0, <4>3, <4>6, RemoveItemBox
      <4>8. Len(outbox'.q) = 0 /\ outbox'.c >= 1
        <5> DEFINE n == Len(outbox.q)
                   m == Len(outbox'.q)
        <5>1. n \in Nat /\ n >= 1
          BY <4>3
        <5>2. n <= 1 /\ m = n - 1
          BY <4>5, <4>7
        <5> HIDE DEF n, m
        <5>3. m = 0
          BY <5>1, <5>2
        <5>4. outbox'.c >= 1
          BY <1>0
        <5> QED BY <5>3, <5>4 DEF m
      <4>9. ~HasCurrent(outbox')
        BY <1>0, <4>8 DEF HasCurrent
      <4> QED BY <4>1, <4>9
    <3>2. CASE ~SendPacket
      <4>1. SendFails \/ NothingToSend => lpc' = "read"
        BY DEF SendFails, NothingToSend, Goto
      <4>2. Sending
        <5>1. ~Dispatch /\ ~Connecting /\ ~Disconnecting /\ ~Callbacks /\ ~Timers
          BY <2>1 DEF Dispatch, Connecting, TcpConnectFails, TcpConnected, CheckTransport,
             TransportLost, Disconnecting, SayGoodbye, StopTransport, Disconnected, Callbacks,
             CallbackReturns, ConnectCallbackReturns, DisconnectCallbackReturns, Timers,
             CheckPing, Retransmit, NoRetransmit, At
        <5>2. ~Receiving
          BY <2>1 DEF Receiving, Read, ExpectedConnack, ProtocolError, OnConnack,
             OnConnackRefused, OnPublish, OnPuback, OnPubrec, OnPubrel, OnPubcomp, OnSuback,
             OnUnsuback, OnPingresp, Finish, Reply, Settle, Incoming, At
        <5> QED BY <1>1, <5>1, <5>2 DEF LoopNext
      <4> QED BY <3>2, <4>1, <4>2 DEF Sending
    <3> QED BY <3>1, <3>2
  <2>2. CASE lpc # "send"
    BY <1>0, <1>1, <2>2, LoopMoves DEF Placed, Teardown
  <2> QED BY <2>1, <2>2
<1>2. CASE AppNext
  BY <1>0, <1>2, CallsAtRest DEF InCallback, control
<1>3. CASE ConnectStep
  BY <1>3 DEF ConnectStep, TcpConnect, Goto
<1>4. CASE UNCHANGED <<state, lpc, branch>>
  BY <1>4 DEF Goodbye
<1> QED BY <1>1, <1>2, <1>3, <1>4, OutsideMoves

\* DISCONNECT is written when the client turns to closing the socket.
LEMMA GoodbyeWritten ==
  ASSUME ~Threaded, OrderInv, OrderInv', AtWork, Goodbye, [Next]_vars, SendPacket, Finishes
  PROVE  /\ Without(wire.sent, "DISCONNECT")
         /\ Current(outbox).type = "DISCONNECT" => state' = "disconnectingTcp1"
<1>0. lpc = "send" /\ TypeInv /\ Placed /\ outbox \in Box(ClientPacket)
  BY Sequences DEF SendPacket, At, OrderInv, Base
<1>1. state \notin Teardown \cup {"disconnected", "connectingTcp1"}
  BY <1>0 DEF Goodbye, AtWork
<1>2. Without(wire.sent, "DISCONNECT")
  BY <1>1 DEF Goodbye
<1>3. ASSUME Current(outbox).type = "DISCONNECT" PROVE state' = "disconnectingTcp1"
  <2>1. CASE branch = "mqtt"
    <3>1. state = "connectingMqtt"
      BY <1>0, <2>1 DEF Placed
    <3>2. Without(outbox.q, "DISCONNECT")
      BY <3>1 DEF Goodbye, Teardown
    <3>3. outbox.c \in 1 .. Len(outbox.q) /\ outbox.q[outbox.c] = Current(outbox)
      BY <1>0 DEF Finishes, HasCurrent, Current, Box
    <3> QED BY <1>3, <3>2, <3>3 DEF Without
  <2>2. CASE branch # "mqtt"
    BY <1>3, <2>2 DEF Finishes, AdvanceState, FullySent
  <2> QED BY <2>1, <2>2
<1> QED BY <1>2, <1>3

LEMMA StepGoodbye ==
  ASSUME ~Threaded, ~KeepAlive, OrderInv, OrderInv', AtWork, Goodbye, NothingAfterDisconnect,
         [Next]_vars
  PROVE  Goodbye' /\ NothingAfterDisconnect'
<1>0. /\ TypeInv /\ TypeInv' /\ wire.sent \in Seq(ClientPacket)
      /\ wire'.sent \in Seq(ClientPacket)
  BY Sequences DEF OrderInv, Base, TypeInv, WireTyped
<1>1. ASSUME state' \notin Teardown \cup {"disconnected", "connectingTcp1"}
      PROVE  Without(wire'.sent, "DISCONNECT")
  <2>1. CASE state \notin Teardown \cup {"disconnected", "connectingTcp1"}
    <3>1. Without(wire.sent, "DISCONNECT")
      BY <2>1 DEF Goodbye
    <3>2. CASE Piece(wire'.sent, wire.sent)
      BY <1>0, <3>1, <3>2, PieceWithout
    <3>3. CASE SendPacket /\ Finishes
      <4>1. Current(outbox).type # "DISCONNECT"
        BY <1>1, <3>3, GoodbyeWritten DEF Teardown
      <4>2. wire'.sent = Append(wire.sent, Current(outbox))
        BY <3>3 DEF Finishes
      <4> QED BY <1>0, <3>1, <4>1, <4>2 DEF Without
    <3> QED BY <1>0, <3>2, <3>3, WireMoves
  <2>2. CASE state \in Teardown \cup {"disconnected", "connectingTcp1"}
    <3>1. ConnectStep
      <4>1. CASE state \in Teardown
        BY <1>1, <4>1, LeavingMoves
      <4>2. CASE state = "disconnected"
        BY <1>1, <4>2, LeavingMoves
      <4>3. CASE state = "connectingTcp1"
        BY <1>1, <4>3, LeavingMoves DEF Teardown
      <4> QED BY <2>2, <4>1, <4>2, <4>3
    <3>2. wire'.sent = <<>>
      BY <3>1 DEF ConnectStep, TcpConnect, NewWire
    <3> QED BY <3>2 DEF Without
  <2> QED BY <2>1, <2>2
<1>2. NothingAfterDisconnect'
  <2>1. CASE Piece(wire'.sent, wire.sent)
    <3>1. PICK d \in Nat : /\ d + Len(wire'.sent) <= Len(wire.sent)
                           /\ \A k \in 1 .. Len(wire'.sent) : wire'.sent[k] = wire.sent[k + d]
      BY <2>1 DEF Piece
    <3>2. ASSUME NEW k \in 1 .. Len(wire'.sent) - 1
          PROVE  wire'.sent[k].type # "DISCONNECT"
      <4>1. Len(wire.sent) \in Nat /\ Len(wire'.sent) \in Nat
        BY <1>0
      <4>2. k + d \in 1 .. Len(wire.sent) - 1 /\ wire'.sent[k] = wire.sent[k + d]
        BY <3>1, <4>1
      <4> QED BY <4>2 DEF NothingAfterDisconnect
    <3> QED BY <3>2 DEF NothingAfterDisconnect
  <2>2. CASE SendPacket /\ Finishes
    <3>1. Without(wire.sent, "DISCONNECT")
      BY <2>2, GoodbyeWritten
    <3>2. wire'.sent = Append(wire.sent, Current(outbox))
      BY <2>2 DEF Finishes
    <3>3. \A k \in 1 .. Len(wire'.sent) - 1 :
            k \in 1 .. Len(wire.sent) /\ wire'.sent[k] = wire.sent[k]
      BY <1>0, <3>2
    <3> QED BY <3>1, <3>3 DEF NothingAfterDisconnect, Without
  <2> QED BY <1>0, <2>1, <2>2, WireMoves
<1> QED BY <1>1, <1>2, OnlyGoodbye, NoGoodbye, GoodbyeIsLast DEF Goodbye

\* Without pings, which may come behind it, DISCONNECT is the last packet of its
\* connection: it goes into an empty outbox, to which a client that is leaving adds
\* nothing, and is never written twice (MqttClient.cpp:281-292, 354-398, 424).
THEOREM DisconnectIsLast ==
  ASSUME ~Threaded, ~KeepAlive PROVE Spec => []NothingAfterDisconnect
<1> DEFINE Inv == OrderInv /\ AtWork /\ Goodbye /\ NothingAfterDisconnect
<1>1. Init => Inv
  <2> SUFFICES ASSUME Init PROVE Inv
    OBVIOUS
  <2>1. /\ lpc = "idle" /\ state = "disconnected" /\ outbox.q = <<>>
        /\ wire.sent = <<>>
    BY DEF Init, ClientInit, EmptyOutbox, NewWire
  <2> QED BY <2>1, InitOrder DEF AtWork, Goodbye, NothingAfterDisconnect, Without
<1>2. Inv /\ [Next]_vars => Inv'
  <2> SUFFICES ASSUME Inv, [Next]_vars PROVE Inv'
    OBVIOUS
  <2>1. OrderInv'
    BY StepOrder
  <2>2. AtWork'
    BY StepAtWork DEF OrderInv, Base
  <2> QED BY <2>1, <2>2, StepGoodbye
<1> QED BY <1>1, <1>2, PTL DEF Spec
-----------------------------------------------------------------------------
(* CONNECT opens each connection *)

\* The states from connect() to CONNACK.
Opening == {"connectingTcp1", "connectingTcp2", "connectingMqtt"}

\* clearQueue(), which would remove CONNECT, is not called meanwhile.
NoClearWhileOpening ==
  [][(state \in Opening) => \A t \in Thread : ~ClearQueueCall(t)]_vars

\* CONNECT is the first packet of the outbox and the one to send.
ConnectLeads ==
  /\ outbox.q # <<>> /\ outbox.c = 1 /\ outbox.q[1].type = "CONNECT"
  /\ \A k \in 2 .. Len(outbox.q) : outbox.q[k].type # "CONNECT"

\* Nothing was exchanged on the connection.
Silent == wire.sent = <<>> /\ Coming = <<>> /\ bConn \in {"wait", "down"}

Opened ==
  /\ state \in Opening => ConnectLeads
  /\ state \in {"disconnected", "connectingTcp1", "connectingTcp2"} => bytesSent = 0
  /\ state \in {"disconnected", "connected", "disconnectingMqtt1", "disconnectingMqtt2"}
       \/ (lpc = "send" /\ state # "connectingMqtt") => Without(outbox.q, "CONNECT")
  /\ state \in {"connectingTcp2", "connectingMqtt"} /\ bytesSent # PubSize => Silent

\* What the broker has still to read.
Unread ==
  /\ bConn = "wait" =>
       Len(wire.sent) <= 1 /\ \A k \in 1 .. Len(wire.sent) : wire.sent[k].type = "CONNECT"
  /\ bConn # "wait" => Without(wire.sent, "CONNECT")
  /\ tcp = "open" => bConn # "down"

\* How a connection comes to be opened.
LEMMA OpeningComes ==
  ASSUME ~Threaded, OrderInv, [Next]_vars, state' \in Opening, state' # state
  PROVE  \/ AppNext /\ state = "disconnected" /\ state' = "connectingTcp1" /\ UNCHANGED bytesSent
            /\ outbox' = EmplaceFront(outbox, Ctl("CONNECT", 0))
         \/ ConnectStep /\ state = "connectingTcp1" /\ state' = "connectingTcp2"
         \/ /\ ClientStep /\ state = "connectingTcp2" /\ state' = "connectingMqtt"
            /\ UNCHANGED <<outbox, bytesSent, wire, rx, s2c, bConn>>
<1>0. TypeInv /\ IInv /\ Placed
  BY DEF OrderInv, Base
<1>1. CASE LoopNext
  <2>1. lpc = "tcp2" /\ state' = "connectingMqtt"
    BY <1>0, <1>1, LoopMoves DEF Opening
  <2>2. TcpConnected
    <3>1. ~Dispatch /\ ~Disconnecting /\ ~Sending /\ ~Callbacks /\ ~Timers
      BY <2>1 DEF Dispatch, Disconnecting, SayGoodbye, StopTransport, Disconnected, Sending,
         SendPacket, SendFails, NothingToSend, Callbacks, CallbackReturns,
         ConnectCallbackReturns, DisconnectCallbackReturns, Timers, CheckPing, Retransmit,
         NoRetransmit, At
    <3>2. ~Receiving
      BY <2>1 DEF Receiving, Read, ExpectedConnack, ProtocolError, OnConnack, OnConnackRefused,
         OnPublish, OnPuback, OnPubrec, OnPubrel, OnPubcomp, OnSuback, OnUnsuback, OnPingresp,
         Finish, Reply, Settle, Incoming, At
    <3> QED BY <1>1, <2>1, <3>1, <3>2 DEF LoopNext, Connecting, TcpConnectFails, CheckTransport,
               TransportLost, At
  <2>3. ClientStep
    <3>1. ~ConnectStep /\ ~BrokerStep /\ ~LossStep /\ ~UNCHANGED vars
      BY <2>1 DEF ConnectStep, TcpConnect, At, BrokerStep, LossStep, vars, clientVars, client
    <3> QED BY <3>1 DEF Next
  <2>4. state = "connectingTcp2"
    BY <1>0, <2>1 DEF Placed
  <2> QED BY <2>1, <2>2, <2>3, <2>4 DEF TcpConnected, net, ClientStep, brokerVars
<1>2. CASE AppNext
  <2>1. state = "disconnected" /\ state' = "connectingTcp1"
    BY <1>0, <1>2, CallsAtRest DEF Opening, Teardown
  <2>2. PICK t \in Thread : (\E call \in Calls : Call(t, call)) \/ Act(t)
    BY <1>2 DEF AppNext
  <2>3. Connect(t)
    BY <2>1, <2>2 DEF Act, Call, client, Disconnect, Publish, Subscribe, Unsubscribe, Request,
       ClearQueueCall
  <2> QED BY <1>2, <2>1, <2>3 DEF Connect
<1>3. CASE ConnectStep
  BY <1>0, <1>3 DEF ConnectStep, TcpConnect, At, Placed
<1>4. CASE UNCHANGED <<state, lpc, branch>>
  BY <1>4
<1> QED BY <1>1, <1>2, <1>3, <1>4, OutsideMoves

\* While a connection is opened ordinary packets may come behind CONNECT.
LEMMA OpeningMoves ==
  ASSUME ~Threaded, OrderInv, AtWork, [Next]_vars, state \in Opening, state' \in Opening,
         \A t \in Thread : ~ClearQueueCall(t)
  PROVE  \/ outbox' = outbox \/ outbox' = ResetCurrent(outbox)
         \/ \E x \in ClientPacket : x.type \in Ordinary /\ outbox' = Emplace(outbox, x)
<1>0. /\ TypeInv /\ IInv /\ Placed /\ outbox \in Box(ClientPacket)
  BY Sequences DEF OrderInv, Base
<1> DEFINE Goal == \/ outbox' = outbox \/ outbox' = ResetCurrent(outbox)
                   \/ \E x \in ClientPacket : x.type \in Ordinary /\ outbox' = Emplace(outbox, x)
<1>1. ASSUME NEW x \in ClientPacket, x.type \in Ordinary, outbox' \in AddPacket(outbox, x)
      PROVE  Goal
  BY <1>0, <1>1, AddPacketBox
<1>2. ASSUME AppNext PROVE Goal
  <2> PICK t \in Thread : (\E call \in Calls : Call(t, call)) \/ Act(t)
    BY <1>2 DEF AppNext
  <2>1. ~Connect(t)
    <3> SUFFICES ASSUME Connect(t) PROVE FALSE
      OBVIOUS
    <3>1. Return(t, "connect") /\ "connect" \in Calls
      BY DEF Connect, Calls
    <3>2. Accepts("connect")
      BY <1>0, <3>1, ActChecks
    <3> QED BY <3>2 DEF Accepts, Opening
  <2>2. Disconnect(t) \/ (\E call \in Calls : Call(t, call)) => outbox' = outbox
    BY DEF Disconnect, Call, client
  <2>3. Publish(t) \/ Subscribe(t) \/ Unsubscribe(t) => Goal
    BY <1>0, <1>1, RequestsAdd
  <2> QED BY <2>1, <2>2, <2>3 DEF Act
<1>3. ASSUME LoopNext PROVE Goal
  <2>1. ASSUME Dispatch \/ Connecting \/ StopTransport \/ SendFails \/ NothingToSend \/ Callbacks
               \/ NoRetransmit
        PROVE  outbox' = outbox
    BY <2>1 DEF Dispatch, Connecting, TcpConnectFails, TcpConnected, CheckTransport,
       TransportLost, StopTransport, SendFails, NothingToSend, Callbacks, CallbackReturns,
       ConnectCallbackReturns, DisconnectCallbackReturns, NoRetransmit, client
  <2>2. ~SayGoodbye /\ ~Disconnected
    BY <1>0 DEF SayGoodbye, Disconnected, At, Placed, Opening
  <2>3. SendPacket => outbox' = outbox
    <3> SUFFICES ASSUME SendPacket PROVE outbox' = outbox
      OBVIOUS
    <3>1. lpc = "send"
      BY DEF SendPacket, At
    <3>2. state = "connectingMqtt"
      BY <3>1 DEF AtWork, Opening
    <3>3. branch = "mqtt"
      BY <1>0, <3>1, <3>2 DEF Placed
    <3> QED BY <3>3 DEF SendPacket
  <2>4. Retransmit => outbox' = ResetCurrent(outbox)
    BY DEF Retransmit
  <2>5. CheckPing => Goal
    <3>1. CheckPing => outbox' = outbox \/ outbox' \in AddPacket(outbox, Ctl("PINGREQ", 0))
      BY DEF CheckPing
    <3>2. Ctl("PINGREQ", 0) \in ClientPacket /\ Ctl("PINGREQ", 0).type \in Ordinary
      BY CtlTyped DEF Ctl, Ordinary, AllTypes
    <3> QED BY <1>1, <3>1, <3>2
  <2>6. Receiving => outbox' = outbox
    <3> SUFFICES ASSUME Receiving PROVE outbox' = outbox
      OBVIOUS
    <3>1. Read \/ ExpectedConnack \/ ProtocolError \/ OnConnackRefused \/ OnPingresp
          => outbox' = outbox
      BY DEF Read, ExpectedConnack, ProtocolError, OnConnackRefused, OnPingresp
    <3>2. ~OnConnack
      BY DEF OnConnack, AdvanceState, Opening
    <3>3. ASSUME NEW type, type # "CONNACK", Incoming(type), ~Unexpected
          PROVE  FALSE
      <4>1. lpc = "parse" /\ Head(rx).type = type
        BY <3>3 DEF Incoming, At
      <4>2. state = "connectingMqtt"
        BY <4>1 DEF AtWork, Opening
      <4> QED BY <3>3, <4>1, <4>2 DEF Unexpected
    <3>4. ~OnPublish
      BY <3>3 DEF OnPublish
    <3>5. ~OnPuback /\ ~OnPubcomp
      BY <3>3 DEF OnPuback, OnPubcomp, Finish
    <3>6. ~OnPubrec /\ ~OnPubrel
      BY <3>3 DEF OnPubrec, OnPubrel, Reply
    <3>7. ~OnSuback /\ ~OnUnsuback
      BY <3>3 DEF OnSuback, OnUnsuback, Settle
    <3> QED BY <3>1, <3>2, <3>4, <3>5, <3>6, <3>7 DEF Receiving
  <2> QED BY <1>3, <2>1, <2>2, <2>3, <2>4, <2>5, <2>6 DEF LoopNext, Disconnecting, Sending, Timers
<1>4. ASSUME outbox' = outbox PROVE Goal
  BY <1>4
<1>5. Goal
  <2> HIDE DEF Goal
  <2> QED BY <1>2, <1>3, <1>4 DEF Next, ClientStep, ConnectStep, BrokerStep, LossStep, TimePasses,
             TcpConnect, vars, clientVars, client
<1> QED BY <1>5

LEMMA StepLeads ==
  ASSUME ~Threaded, OrderInv, AtWork, Opened, [Next]_vars, state' \in Opening,
         state \in Opening => \A t \in Thread : ~ClearQueueCall(t)
  PROVE  ConnectLeads'
<1>0. outbox \in Box(ClientPacket) /\ outbox.q \in Seq(ClientPacket) /\ Len(outbox.q) \in Nat
  BY Sequences DEF OrderInv, Base
<1>1. CASE state \in Opening
  <2>0. ConnectLeads
    BY <1>1 DEF Opened
  <2>1. CASE outbox' = outbox
    BY <2>0, <2>1 DEF ConnectLeads
  <2>2. CASE outbox' = ResetCurrent(outbox)
    <3>1. outbox'.q = outbox.q /\ outbox'.c = 1
      BY <1>0, <2>2 DEF ResetCurrent, Box
    <3> QED BY <2>0, <3>1 DEF ConnectLeads
  <2>3. ASSUME NEW x \in ClientPacket, x.type \in Ordinary, outbox' = Emplace(outbox, x)
        PROVE  ConnectLeads'
    <3>1. outbox'.q = Append(outbox.q, x) /\ outbox'.c = outbox.c
      BY <1>0, <2>3, EmplaceBox
    <3>2. /\ Len(outbox'.q) = Len(outbox.q) + 1 /\ outbox'.q[Len(outbox.q) + 1] = x
          /\ \A k \in 1 .. Len(outbox.q) : outbox'.q[k] = outbox.q[k]
      BY <1>0, <3>1, AppendElements
    <3>3. 1 \in 1 .. Len(outbox.q) /\ outbox'.q # <<>>
      BY <1>0, <2>0, <3>1 DEF ConnectLeads
    <3>4. \A k \in 2 .. Len(outbox'.q) : k = Len(outbox.q) + 1 \/ k \in 2 .. Len(outbox.q)
      BY <1>0, <3>2
    <3>5. x.type # "CONNECT"
      BY <2>3 DEF Ordinary
    <3> QED BY <1>0, <2>0, <3>1, <3>2, <3>3, <3>4, <3>5 DEF ConnectLeads
  <2> QED BY <1>1, <2>1, <2>2, <2>3, OpeningMoves
<1>2. CASE state \notin Opening
  <2> DEFINE x == Ctl("CONNECT", 0)
  <2>1. outbox' = EmplaceFront(outbox, x) /\ state = "disconnected"
    <3>1. state' # state
      BY <1>2
    <3> QED BY <1>2, <3>1, OpeningComes DEF Opening
  <2>2. Without(outbox.q, "CONNECT")
    BY <2>1 DEF Opened
  <2>3. x \in ClientPacket /\ x.type = "CONNECT"
    BY CtlTyped DEF Ctl
  <2> HIDE DEF x
  <2>4. outbox'.q = <<x>> \o outbox.q /\ outbox'.c = 1
    BY <1>0, <2>1, <2>3, EmplaceFrontBox
  <2>5. /\ Len(outbox'.q) = Len(outbox.q) + 1 /\ outbox'.q[1] = x
        /\ \A k \in 2 .. Len(outbox'.q) :
             k - 1 \in 1 .. Len(outbox.q) /\ outbox'.q[k] = outbox.q[k - 1]
    BY <1>0, <2>3, <2>4
  <2>6. outbox'.q # <<>>
    BY <1>0, <2>3, <2>4
  <2> QED BY <2>2, <2>3, <2>4, <2>5, <2>6 DEF ConnectLeads, Without
<1> QED BY <1>1, <1>2

\* Where CONNECT may not be, it does not come to be.
LEMMA StepWithoutConnect ==
  ASSUME ~Threaded, OrderInv, AtWork, Opened, [Next]_vars,
         \/ state' \in {"disconnected", "connected", "disconnectingMqtt1", "disconnectingMqtt2"}
         \/ lpc' = "send" /\ state' # "connectingMqtt"
  PROVE  Without(outbox'.q, "CONNECT")
<1>0. /\ TypeInv /\ IInv /\ Placed
      /\ outbox \in Box(ClientPacket) /\ outbox.q \in Seq(ClientPacket)
  BY Sequences DEF OrderInv, Base
<1> DEFINE Free == \/ state \in {"disconnected", "connected", "disconnectingMqtt1",
                                 "disconnectingMqtt2"}
                   \/ lpc = "send" /\ state # "connectingMqtt"
<1>1. CASE Free /\ state' # "connectingTcp1"
  <2>0. Without(outbox.q, "CONNECT")
    BY <1>1 DEF Opened
  <2>1. CASE Shrinks
    <3>1. AddsOnly(outbox'.q, outbox.q, {})
      BY <2>1, WithinAdds DEF Shrinks
    <3> QED BY <2>0, <3>1, WithinWithout
  <2>2. CASE Adds
    <3>1. PICK t \in Seq(ClientPacket), x \in ClientPacket :
            Within(t, outbox.q) /\ outbox'.q = Append(t, x) /\ x.type \in Ordinary
      BY <2>2 DEF Adds
    <3>2. AddsOnly(outbox'.q, outbox.q, Ordinary)
      BY <3>1, AppendAdds
    <3>3. "CONNECT" \notin Ordinary
      BY DEF Ordinary
    <3> QED BY <2>0, <3>2, <3>3, WithinWithout
  <2>3. ~Leads
    BY <1>1 DEF Leads
  <2>4. CASE TakesLeave
    <3>1. outbox'.q = <<Ctl("DISCONNECT", 0)>> /\ Ctl("DISCONNECT", 0).type = "DISCONNECT"
      BY <2>4 DEF TakesLeave, Ctl
    <3> QED BY <3>1 DEF Without
  <2> QED BY <1>0, <2>1, <2>2, <2>3, <2>4, OutboxMoves
<1>2. CASE state' = "connectingTcp1"
  <2>1. lpc' = "send"
    BY <1>2
  <2>2. CASE LoopNext
    BY <1>0, <1>2, <2>1, <2>2, LoopMoves DEF Placed, AtWork
  <2>3. CASE AppNext
    BY <1>0, <2>1, <2>3, CallsAtRest DEF InCallback, control
  <2>4. CASE ConnectStep
    BY <2>1, <2>4 DEF ConnectStep, TcpConnect, Goto
  <2>5. CASE UNCHANGED <<state, lpc, branch>>
    BY <1>2, <2>1, <2>5 DEF AtWork
  <2> QED BY <2>2, <2>3, <2>4, <2>5, OutsideMoves
<1>3. CASE ~Free
  <2>1. LoopNext
    <3>1. CASE AppNext
      BY <1>0, <1>3, <3>1, CallsAtRest DEF InCallback, control, Teardown
    <3>2. CASE ConnectStep
      BY <3>2 DEF ConnectStep, TcpConnect, Goto
    <3>3. CASE UNCHANGED <<state, lpc, branch>>
      BY <1>3, <3>3
    <3> QED BY <3>1, <3>2, <3>3, OutsideMoves
  <2>2. (lpc = "stopped" /\ state' = "disconnected") \/ OnConnack
    BY <1>0, <1>3, <2>1, LoopMoves DEF Placed
  <2>3. CASE lpc = "stopped" /\ state' = "disconnected"
    <3>1. state \in Teardown
      BY <1>0, <2>3 DEF Placed, Teardown
    <3>2. Disconnected
      BY <2>3, <3>1, LeavingMoves DEF Teardown
    <3>3. outbox' = ClearQueue(outbox, 0)
      BY <3>2 DEF Disconnected
    <3>4. \A k \in 1 .. Len(outbox'.q) : Kept(0, outbox'.q[k])
      BY <1>0, <3>3, ClearQueueBox
    <3> QED BY <3>4 DEF Without, Kept
  <2>4. CASE OnConnack
    <3>1. At("parse") /\ Head(rx).type = "CONNACK"
      BY <2>4 DEF OnConnack, Incoming
    <3>2. 1 \in 1 .. Len(Coming) /\ Coming[1].type = "CONNACK" /\ Coming # <<>>
      BY <1>0, <3>1, HeadIsFirst
    <3>3. ~Greeted
      BY <3>2 DEF OrderInv, Handshake, ConnackTaken, Without
    <3>4. lpc = "parse" /\ state = "connectingMqtt"
      BY <3>1, <3>3 DEF At, Greeted
    <3>5. ConnectLeads /\ bytesSent = PubSize
      BY <3>2, <3>4 DEF Opened, Opening, Silent
    <3>6. /\ HasCurrent(outbox) /\ Current(outbox) = outbox.q[1] /\ outbox.c = 1
          /\ 1 \in 1 .. Len(outbox.q) /\ outbox.q[1] \in ClientPacket
      BY <1>0, <3>5 DEF ConnectLeads, HasCurrent, Current
    <3>7. FullySent(outbox, bytesSent)
      BY <3>5, <3>6 DEF ConnectLeads, FullySent, Size
    <3>8. Removable(Current(outbox))
      BY <3>5, <3>6 DEF ConnectLeads, Removable, ClientPacket
    <3> DEFINE o == RemoveItem(outbox, 1)
    <3>9. Advanced(outbox, bytesSent) = o
      BY <3>6, <3>7, <3>8 DEF Advanced, RemoveCurrent
    <3>10. outbox' = o \/ outbox' = ClearQueue(o, 1)
      BY <2>4, <3>9 DEF OnConnack
    <3>11. /\ o \in Box(ClientPacket) /\ Len(o.q) = Len(outbox.q) - 1
           /\ \A k \in 1 .. Len(outbox.q) - 1 : o.q[k] = outbox.q[k + 1]
      BY <1>0, <3>6, RemoveItemBox
    <3> HIDE DEF o
    <3>12. Len(outbox.q) \in Nat
      BY <1>0
    <3>13. Without(o.q, "CONNECT")
      <4> SUFFICES ASSUME NEW k \in 1 .. Len(o.q) PROVE o.q[k].type # "CONNECT"
        BY DEF Without
      <4>1. k \in 1 .. Len(outbox.q) - 1 /\ k + 1 \in 2 .. Len(outbox.q)
        BY <3>11, <3>12
      <4> QED BY <3>5, <3>11, <4>1 DEF ConnectLeads
    <3>14. AddsOnly(ClearQueue(o, 1).q, o.q, {})
      BY <3>11, ClearQueueBox, WithinAdds
    <3>15. Without(ClearQueue(o, 1).q, "CONNECT")
      BY <3>13, <3>14, WithinWithout
    <3> QED BY <3>10, <3>13, <3>15
  <2> QED BY <2>2, <2>3, <2>4
<1> QED BY <1>1, <1>2, <1>3

\* When the count of sent bytes changes.
LEMMA SentMoves ==
  ASSUME TypeInv, [Next]_vars
  PROVE  \/ UNCHANGED bytesSent
         \/ Disconnected /\ bytesSent' = 0
         \/ OnConnack
         \/ /\ lpc = "send" /\ HasCurrent(outbox) /\ bytesSent < Size(Current(outbox))
            /\ SendPacket \/ SendFails
<1>1. ASSUME SendPacket \/ SendFails
      PROVE  lpc = "send" /\ HasCurrent(outbox) /\ bytesSent < Size(Current(outbox))
  <2>1. lpc = "send" /\ WantToWrite > 0
    BY <1>1 DEF SendPacket, SendFails, At
  <2> QED BY <2>1 DEF WantToWrite
<1>2. CASE AppNext
  BY <1>2 DEF AppNext, Act, Call, Connect, Disconnect, Publish, Subscribe, Unsubscribe, Request,
     ClearQueueCall, client
<1>3. CASE LoopNext
  <2>1. CASE Dispatch \/ Connecting \/ Disconnecting \/ Sending \/ Callbacks \/ Timers
    BY <1>1, <2>1 DEF Dispatch, Connecting, TcpConnectFails, TcpConnected, CheckTransport,
       TransportLost, Disconnecting, SayGoodbye, StopTransport, Disconnected, Sending,
       NothingToSend, Callbacks, CallbackReturns, ConnectCallbackReturns,
       DisconnectCallbackReturns, Timers, CheckPing, Retransmit, NoRetransmit, client
  <2>2. CASE Receiving
    BY <2>2 DEF Receiving, Read, ExpectedConnack, ProtocolError, OnConnackRefused,
       OnPublish, OnPuback, OnPubrec, OnPubrel, OnPubcomp, OnSuback, OnUnsuback, OnPingresp,
       Finish, Reply, Settle, OutboxOnly
  <2> QED BY <1>3, <2>1, <2>2 DEF LoopNext
<1> QED BY <1>2, <1>3 DEF Next, ClientStep, ConnectStep, BrokerStep, LossStep, TimePasses,
           TcpConnect, vars, clientVars, client

LEMMA StepUnsent ==
  ASSUME ~Threaded, OrderInv, AtWork, Opened, [Next]_vars,
         state' \in {"disconnected", "connectingTcp1", "connectingTcp2"}
  PROVE  bytesSent' = 0
<1>0. TypeInv /\ IInv /\ Placed
  BY DEF OrderInv, Base
<1>1. CASE Disconnected
  BY <1>1 DEF Disconnected
<1>2. CASE ~Disconnected
  <2>1. state \in {"disconnected", "connectingTcp1", "connectingTcp2"}
    <3>1. CASE state' = "disconnected" /\ state' # state
      <4>1. SayGoodbye
        BY <1>2, <3>1, LeavingMoves
      <4>2. state = "disconnectingMqtt1" /\ state' \in {state, "disconnectingMqtt2"}
        BY <1>0, <4>1 DEF SayGoodbye, At, Placed
      <4> QED BY <3>1, <4>2
    <3>2. CASE state' \in Opening /\ state' # state
      BY <3>2, OpeningComes
    <3>3. CASE state' = state
      BY <3>3
    <3> QED BY <3>1, <3>2, <3>3 DEF Opening
  <2>2. bytesSent = 0
    BY <2>1 DEF Opened
  <2>3. lpc \in {"idle", "cbDisconnect", "tcp1", "tcp2"}
    BY <2>1 DEF AtWork
  <2>4. ~OnConnack
    BY <2>3 DEF OnConnack, Incoming, At
  <2> QED BY <1>0, <1>2, <2>2, <2>3, <2>4, SentMoves
<1> QED BY <1>1, <1>2

\* A new connection is empty and the broker waits for CONNECT.
LEMMA ConnectStepOpens ==
  ASSUME ConnectStep
  PROVE  bConn' = "wait" /\ wire'.sent = <<>> /\ s2c' = <<>> /\ UNCHANGED rx
         /\ lpc = "tcp1" /\ lpc' = "tcp2" /\ UNCHANGED outbox
BY DEF ConnectStep, TcpConnect, Accept, NewWire, At, Goto

\* The client opens no connection but by ConnectStep.
LEMMA ClientOpensNone ==
  ASSUME ClientStep, tcp' = "open"
  PROVE  tcp = "open"
<1>1. CASE AppNext
  BY <1>1 DEF AppNext, Act, Call, Connect, Disconnect, Publish, Subscribe, Unsubscribe,
     Request, ClearQueueCall, net
<1>2. CASE TimePasses
  BY <1>2 DEF TimePasses, net
<1>3. CASE LoopNext
  <2>1. CASE Dispatch \/ Connecting \/ Disconnecting \/ Sending \/ Callbacks \/ Timers
    BY <2>1 DEF Dispatch, Connecting, TcpConnectFails, TcpConnected, CheckTransport,
       TransportLost, Disconnecting, SayGoodbye, StopTransport, Disconnected, Sending,
       SendPacket, SendFails, NothingToSend, Callbacks, CallbackReturns,
       ConnectCallbackReturns, DisconnectCallbackReturns, Timers, CheckPing, Retransmit,
       NoRetransmit, net
  <2>2. CASE Receiving
    BY <2>2 DEF Receiving, Read, ExpectedConnack, ProtocolError, OnConnack, OnConnackRefused,
       OnPublish, OnPuback, OnPubrec, OnPubrel, OnPubcomp, OnSuback, OnUnsuback, OnPingresp,
       Finish, Reply, Settle, OutboxOnly, net
  <2> QED BY <1>3, <2>1, <2>2 DEF LoopNext
<1> QED BY <1>1, <1>2, <1>3 DEF ClientStep

\* How the broker comes to read from a connection, or stops.
LEMMA ConnMoves ==
  ASSUME TypeInv, [Next]_vars
  PROVE  /\ \/ bConn' = bConn
            \/ wire'.sent = <<>>
            \/ bConn = "wait" /\ wire.sent # <<>> /\ wire'.sent = Tail(wire.sent)
         /\ bConn' = "down" => bConn = "down" \/ tcp' # "open"
         /\ tcp' = "open" => tcp = "open" \/ ConnectStep
<1>0. DOMAIN wire = {"sent", "part", "ok", "once"}
  BY DEF TypeInv, WireTyped
<1>1. CASE ConnectStep
  BY <1>1, ConnectStepOpens
<1>2. CASE ClientStep \/ UNCHANGED vars
  BY <1>2, ClientOpensNone DEF ClientStep, brokerVars, vars, clientVars, net
<1>3. CASE Close
  <2>1. wire'.sent = <<>> /\ tcp' # "open"
    BY <1>0, <1>3 DEF Close
  <2> QED BY <2>1
<1>4. CASE GetConnect \/ Refuse
  BY <1>0, <1>4 DEF GetConnect, Refuse, Take
<1>5. CASE GetPublish \/ GetPubrel \/ GetRequest \/ GetAnswer \/ GetPubrec \/ PublishMessage
  BY <1>5 DEF GetPublish, GetPubrel, GetRequest, GetAnswer, GetPubrec, PublishMessage
<1>6. BrokerStep \/ LossStep => Close \/ GetConnect \/ Refuse \/ GetPublish \/ GetPubrel
        \/ GetRequest \/ GetAnswer \/ GetPubrec \/ PublishMessage
  BY DEF BrokerStep, LossStep, Answers, ProtocolViolation, GetDisconnect, ConnectionLost
<1> QED BY <1>1, <1>2, <1>3, <1>4, <1>5, <1>6 DEF Next

\* Without a packet on its way nothing comes of a connection by itself.
LEMMA SilenceStays ==
  ASSUME Base, Base', [Next]_vars, ~ConnectStep, Silent
  PROVE  Coming' = <<>> /\ bConn' \in {"wait", "down"}
<1>0. TypeInv /\ TypeInv' /\ wire.sent = <<>> /\ Coming = <<>> /\ bConn \in {"wait", "down"}
  BY DEF Base, Silent
<1>1. CASE Serves
  <2>1. PublishMessage /\ UNCHANGED control
    BY <1>0, <1>1 DEF Serves, AtBroker, GetConnect, Refuse, GetPublish, GetPubrel, GetRequest,
       GetAnswer, GetPubrec, Gets
  <2>2. UNCHANGED <<s2c, bConn, rx>>
    BY <1>0, <2>1 DEF PublishMessage, control
  <2> QED BY <1>0, <2>2 DEF Coming
<1>2. CASE ~Serves
  <2>1. Piece(Coming', Coming)
    BY <1>0, <1>2, StepKinds, ClientEffects DEF Base, Kinds
  <2>2. Coming' \in Seq(BrokerPacket)
    BY ConcatProperties DEF Base, TypeInv, IncomingTyped, Coming
  <2>3. Coming' = <<>>
    <3>1. Len(Coming') <= Len(Coming)
      <4>1. PICK d \in Nat : d + Len(Coming') <= Len(Coming)
        BY <2>1 DEF Piece
      <4>2. Len(Coming) = 0 /\ Len(Coming') \in Nat
        BY <1>0, <2>2
      <4> QED BY <4>1, <4>2
    <3>2. Len(Coming') = 0
      BY <1>0, <2>2, <3>1
    <3> QED BY <2>2, <3>2
  <2>4. bConn' \in {bConn, "down"}
    <3>1. CASE ClientStep \/ UNCHANGED vars
      BY <3>1 DEF ClientStep, vars, brokerVars
    <3>2. CASE BrokerStep
      BY <1>2, <3>2 DEF BrokerStep, Serves, AtBroker, Answers, ProtocolViolation, GetDisconnect,
                        Close
    <3>3. CASE LossStep
      BY <3>3 DEF LossStep, ConnectionLost, Close
    <3> QED BY <3>1, <3>2, <3>3 DEF Next
  <2> QED BY <1>0, <2>3, <2>4
<1> QED BY <1>1, <1>2

\* Until CONNECT is sent as a whole there is nothing on the connection.
LEMMA StepSilent ==
  ASSUME ~Threaded, OrderInv, OrderInv', AtWork, Opened, [Next]_vars,
         state' \in {"connectingTcp2", "connectingMqtt"}, bytesSent' # PubSize
  PROVE  Silent'
<1>0. /\ TypeInv /\ TypeInv' /\ IInv /\ Placed /\ Base /\ Base'
      /\ wire.sent \in Seq(ClientPacket) /\ wire'.sent \in Seq(ClientPacket)
  BY Sequences DEF OrderInv, Base, TypeInv, WireTyped
<1>1. CASE ConnectStep
  <2>1. /\ bConn' = "wait" /\ wire'.sent = <<>> /\ s2c' = <<>> /\ rx' = rx
        /\ lpc = "tcp1"
    BY <1>1, ConnectStepOpens
  <2>2. rx = <<>>
    BY <1>0, <2>1 DEF TypeInv, IncomingTyped
  <2>3. rx' \o s2c' = <<>>
    BY <2>1, <2>2
  <2> QED BY <2>1, <2>3 DEF Silent, Coming
<1>2. CASE ~ConnectStep
  <2>1. state \in {"connectingTcp2", "connectingMqtt"}
    BY <1>2, OpeningComes DEF Opening
  <2>2. CASE UNCHANGED bytesSent
    <3>1. Silent
      BY <2>1, <2>2 DEF Opened
    <3>2. Coming' = <<>> /\ bConn' \in {"wait", "down"}
      BY <1>0, <1>2, <3>1, SilenceStays
    <3>3. ~(SendPacket /\ Finishes)
      <4> SUFFICES ASSUME SendPacket, Finishes PROVE FALSE
        OBVIOUS
      <4>1. lpc = "send"
        BY DEF SendPacket, At
      <4>2. state = "connectingMqtt"
        BY <2>1, <4>1 DEF AtWork
      <4>3. branch = "mqtt"
        BY <1>0, <4>1, <4>2 DEF Placed
      <4>4. bytesSent < Size(Current(outbox)) /\ bytesSent' = Size(Current(outbox))
        BY <4>3 DEF Finishes
      <4>5. bytesSent \in Nat
        BY <1>0, ClientAssumption DEF TypeInv, ClientTyped, SizeMax
      <4> QED BY <2>2, <4>4, <4>5
    <3>4. Piece(wire'.sent, wire.sent)
      BY <1>0, <3>3, WireMoves
    <3>5. wire'.sent = <<>>
      <4>1. PICK d \in Nat : d + Len(wire'.sent) <= Len(wire.sent)
        BY <3>4 DEF Piece
      <4>2. Len(wire.sent) = 0 /\ Len(wire'.sent) \in Nat
        BY <1>0, <3>1 DEF Silent
      <4>3. Len(wire'.sent) = 0
        BY <4>1, <4>2
      <4> QED BY <1>0, <4>3
    <3> QED BY <3>2, <3>5 DEF Silent
  <2>3. CASE ~UNCHANGED bytesSent
    <3>1. ~Disconnected /\ ~OnConnack
      <4>1. Disconnected => state' = "disconnected"
        BY DEF Disconnected
      <4>2. OnConnack => state' \in {"connected", "disconnectingTcp1"}
        BY DEF OnConnack, AdvanceState
      <4> QED BY <4>1, <4>2
    <3>2. /\ lpc = "send" /\ HasCurrent(outbox) /\ bytesSent < Size(Current(outbox))
          /\ SendPacket \/ SendFails
      BY <1>0, <2>3, <3>1, SentMoves
    <3>3. state = "connectingMqtt"
      BY <2>1, <3>2 DEF AtWork
    <3>4. branch = "mqtt"
      BY <1>0, <3>2, <3>3 DEF Placed
    <3>5. Size(Current(outbox)) = PubSize
      <4>1. Current(outbox).type = "CONNECT"
        BY <3>3 DEF Opened, Opening, ConnectLeads, Current
      <4> QED BY <4>1 DEF Size
    <3>6. Silent
      <4>1. bytesSent # PubSize
        BY <1>0, <3>2, <3>5, ClientAssumption
      <4> QED BY <3>3, <4>1 DEF Opened
    <3>7. wire'.sent = wire.sent
      <4>1. SendFails => wire' = wire
        BY DEF SendFails, net
      <4>2. SendPacket => wire'.sent = wire.sent \/ Finishes
        BY <1>0, SendMoves
      <4>3. ~Finishes
        BY <3>4, <3>5 DEF Finishes
      <4> QED BY <3>2, <4>1, <4>2, <4>3
    <3>8. Coming' = <<>> /\ bConn' \in {"wait", "down"}
      BY <1>0, <1>2, <3>6, SilenceStays
    <3> QED BY <3>6, <3>7, <3>8 DEF Silent
  <2> QED BY <2>2, <2>3
<1> QED BY <1>1, <1>2

\* Only CONNECT is written while the broker waits for it, and only then.
InTurn ==
  IF bConn = "wait" THEN wire.sent = <<>> /\ Current(outbox).type = "CONNECT"
  ELSE Current(outbox).type # "CONNECT"

LEMMA WritesConnect ==
  ASSUME ~Threaded, OrderInv, AtWork, Opened, Unread, SendPacket, Finishes
  PROVE  InTurn
<1> USE DEF InTurn
<1>0. /\ TypeInv /\ Placed /\ Handshake /\ outbox \in Box(ClientPacket) /\ lpc = "send"
  BY Sequences DEF OrderInv, Base, SendPacket, At
<1>1. /\ outbox.c \in 1 .. Len(outbox.q) /\ outbox.q[outbox.c] = Current(outbox)
      /\ tcp = "open" /\ bytesSent < Size(Current(outbox))
  BY <1>0 DEF Finishes, HasCurrent, Current, Box
<1>2. CASE state = "connectingMqtt"
  <2>1. Current(outbox).type = "CONNECT"
    BY <1>2 DEF Opened, Opening, ConnectLeads, Current
  <2>2. bytesSent # PubSize
    BY <1>0, <1>1, <2>1, ClientAssumption DEF Size
  <2>3. Silent
    BY <1>2, <2>2 DEF Opened
  <2>4. bConn = "wait"
    BY <1>1, <2>3 DEF Silent, Unread
  <2> QED BY <2>1, <2>3, <2>4 DEF Silent
<1>3. CASE state # "connectingMqtt"
  <2>1. Greeted
    BY <1>0, <1>3 DEF Greeted
  <2>2. bConn # "wait"
    BY <1>0, <2>1 DEF Handshake, ConnackTaken
  <2>3. Without(outbox.q, "CONNECT")
    BY <1>0, <1>3 DEF Opened
  <2> QED BY <1>1, <2>2, <2>3 DEF Without
<1> QED BY <1>2, <1>3

LEMMA StepUnread ==
  ASSUME TypeInv, TypeInv', Unread, [Next]_vars, SendPacket /\ Finishes => InTurn
  PROVE  Unread'
<1>0. wire.sent \in Seq(ClientPacket) /\ wire'.sent \in Seq(ClientPacket)
  BY DEF TypeInv, WireTyped
<1>1. tcp' = "open" => bConn' # "down"
  <2> SUFFICES ASSUME tcp' = "open", bConn' = "down" PROVE FALSE
    OBVIOUS
  <2>1. ConnectStep => bConn' = "wait"
    BY ConnectStepOpens
  <2>2. tcp = "open" /\ bConn = "down"
    BY <1>0, <2>1, ConnMoves
  <2> QED BY <2>2 DEF Unread
<1>2. CASE wire'.sent = <<>>
  BY <1>1, <1>2 DEF Unread, Without
<1>3. CASE bConn = "wait" /\ wire.sent # <<>> /\ wire'.sent = Tail(wire.sent)
  <2>1. Len(wire.sent) <= 1
    BY <1>3 DEF Unread
  <2>2. Len(wire'.sent) = Len(wire.sent) - 1 /\ Len(wire.sent) \in Nat \ {0}
    BY <1>0, <1>3, TailHas
  <2>3. wire'.sent = <<>>
    BY <1>0, <2>1, <2>2
  <2> QED BY <1>2, <2>3
<1>4. CASE bConn' = bConn /\ Piece(wire'.sent, wire.sent)
  <2>1. \A k \in 1 .. Len(wire'.sent) : \E j \in 1 .. Len(wire.sent) : wire'.sent[k] = wire.sent[j]
    BY <1>0, <1>4, PieceHas
  <2>2. Len(wire'.sent) <= Len(wire.sent)
    <3>1. PICK d \in Nat : d + Len(wire'.sent) <= Len(wire.sent)
      BY <1>4 DEF Piece
    <3>2. Len(wire.sent) \in Nat /\ Len(wire'.sent) \in Nat
      BY <1>0
    <3> QED BY <3>1, <3>2
  <2>3. Len(wire.sent) <= 1 => Len(wire'.sent) <= 1
    <3>1. Len(wire.sent) \in Nat /\ Len(wire'.sent) \in Nat
      BY <1>0
    <3> QED BY <2>2, <3>1
  <2> QED BY <1>1, <1>4, <2>1, <2>3 DEF Unread, Without
<1>5. CASE bConn' = bConn /\ SendPacket /\ Finishes
  <2> DEFINE p == Current(outbox)
  <2>1. IF bConn = "wait" THEN wire.sent = <<>> /\ p.type = "CONNECT" ELSE p.type # "CONNECT"
    BY <1>5 DEF InTurn
  <2>2. wire'.sent = Append(wire.sent, p) /\ p \in ClientPacket
    BY <1>5 DEF Finishes
  <2> HIDE DEF p
  <2>3. CASE bConn = "wait"
    <3>0. Append(<<>>, p) = <<p>>
      OBVIOUS
    <3>1. wire'.sent = <<p>>
      BY <2>1, <2>2, <2>3, <3>0
    <3>2. Len(wire'.sent) = 1 /\ \A k \in 1 .. Len(wire'.sent) : wire'.sent[k] = p
      BY <3>1
    <3> QED BY <1>1, <1>5, <2>1, <2>3, <3>2 DEF Unread
  <2>4. CASE bConn # "wait"
    <3>1. Without(wire.sent, "CONNECT")
      BY <2>4 DEF Unread
    <3>2. Without(wire'.sent, "CONNECT")
      BY <1>0, <2>1, <2>2, <2>4, <3>1 DEF Without
    <3> QED BY <1>1, <1>5, <2>4, <3>2 DEF Unread
  <2> QED BY <2>3, <2>4
<1> QED BY <1>0, <1>2, <1>3, <1>4, <1>5, WireMoves, ConnMoves

LEMMA UnreadFirst == ASSUME TypeInv, Unread PROVE ConnectFirst
<1>1. wire.sent \in Seq(ClientPacket) /\ Len(wire.sent) \in Nat
  BY DEF TypeInv, WireTyped
<1> QED BY <1>1 DEF Unread, Without, ConnectFirst

\* On a connection of which the application does not clear the outbox before CONNACK,
\* the first packet is CONNECT, and no other one is, after whatever number of
\* connections, lost halfway through a packet or not (MqttClient.cpp:108-138,
\* 246-258, 362-398).
THEOREM ConnectOpens ==
  ASSUME ~Threaded PROVE Spec /\ NoClearWhileOpening => []ConnectFirst
<1> DEFINE Inv == OrderInv /\ AtWork /\ Opened /\ Unread
           Step == (state \in Opening) => \A t \in Thread : ~ClearQueueCall(t)
<1>1. Init => Inv
  <2> SUFFICES ASSUME Init PROVE Inv
    OBVIOUS
  <2>1. /\ lpc = "idle" /\ state = "disconnected" /\ outbox.q = <<>> /\ bytesSent = 0
        /\ wire.sent = <<>> /\ tcp = "closed" /\ bConn = "down"
    BY DEF Init, ClientInit, EmptyOutbox, NewWire, BrokerInit
  <2> QED BY <2>1, InitOrder DEF AtWork, Opened, Opening, Unread, Without
<1>2. Inv /\ [Next]_vars /\ [Step]_vars => Inv'
  <2> SUFFICES ASSUME Inv, [Next]_vars, [Step]_vars PROVE Inv'
    OBVIOUS
  <2>1. OrderInv'
    BY StepOrder
  <2>2. AtWork'
    BY StepAtWork DEF OrderInv, Base
  <2>3. Unread'
    <3>1. TypeInv /\ TypeInv'
      BY <2>1 DEF OrderInv, Base
    <3> QED BY <3>1, StepUnread, WritesConnect
  <2>4. CASE Step
    <3>1. state' \in Opening => ConnectLeads'
      BY <2>4, StepLeads
    <3>2. state' \in {"disconnected", "connectingTcp1", "connectingTcp2"} => bytesSent' = 0
      BY StepUnsent
    <3>3. \/ state' \in {"disconnected", "connected", "disconnectingMqtt1", "disconnectingMqtt2"}
          \/ lpc' = "send" /\ state' # "connectingMqtt"
          => Without(outbox'.q, "CONNECT")
      BY StepWithoutConnect
    <3>4. state' \in {"connectingTcp2", "connectingMqtt"} /\ bytesSent' # PubSize => Silent'
      BY <2>1, StepSilent
    <3> QED BY <2>1, <2>2, <2>3, <3>1, <3>2, <3>3, <3>4 DEF Opened
  <2>5. CASE UNCHANGED vars
    <3>1. UNCHANGED <<state, lpc, bytesSent, outbox, wire, rx, s2c, bConn>>
      BY <2>5 DEF vars, clientVars, client, control, net, brokerVars
    <3>2. Opened'
      BY <3>1 DEF Opened, ConnectLeads, Silent, Coming, Without
    <3> QED BY <2>1, <2>2, <2>3, <3>2
  <2> QED BY <2>4, <2>5
<1>3. Inv => ConnectFirst
  BY UnreadFirst DEF OrderInv, Base
<1> QED BY <1>1, <1>2, <1>3, PTL DEF Spec, NoClearWhileOpening

-----------------------------------------------------------------------------
(* A ping that was sent is under way *)

\* clearQueue(), which would remove PINGREQ, is not called while connected.
NoClearWhileConnected ==
  [][(state = "connected") => \A t \in Thread : ~ClearQueueCall(t)]_vars

Pinged(s) == Has(s, {"PINGREQ"}, 0)
Ponged(s) == Has(s, {"PINGRESP"}, 0)

PingUnderWay == Pinged(outbox.q) \/ Pinged(wire.sent) \/ Ponged(Coming)

PingKept == pingSent /\ tcp = "open" /\ state = "connected" => PingUnderWay

LEMMA AppendPinged ==
  ASSUME NEW o \in Box(ClientPacket), NEW x, NEW r \in AddPacket(o, x), Pinged(o.q)
  PROVE  Pinged(r.q)
<1>1. CASE r = o
  BY <1>1
<1>2. CASE r = Emplace(o, x)
  <2> DEFINE S == ClientPacket \cup {x}
  <2>1. o.q \in Seq(S) /\ o.c \in Nat \ {0} /\ o.c <= Len(o.q) + 1
    BY DEF Box
  <2>2. r.q = Append(o.q, x)
    BY <1>2 DEF Emplace, Box
  <2>3. x \in S
    OBVIOUS
  <2> HIDE DEF S
  <2> QED BY <2>1, <2>2, <2>3, AppendHas DEF Pinged
<1> QED BY <1>1, <1>2 DEF AddPacket

LEMMA AdvancedPinged ==
  ASSUME NEW o \in Box(ClientPacket), NEW n, Pinged(o.q),
         ~(FullySent(o, n) /\ Current(o).type = "PINGREQ")
  PROVE  Pinged(Advanced(o, n).q)
<1>1. CASE ~FullySent(o, n)
  BY <1>1 DEF Advanced
<1>2. CASE FullySent(o, n) /\ Removable(Current(o))
  <2>1. HasCurrent(o) /\ o.c \in 1 .. Len(o.q)
    BY <1>2 DEF FullySent, HasCurrent, Box
  <2>2. Advanced(o, n) = RemoveItem(o, o.c)
    BY <1>2, <2>1 DEF Advanced, RemoveCurrent
  <2>3. o.q[o.c].type \notin {"PINGREQ"}
    BY <1>2 DEF Current
  <2> QED BY <2>1, <2>2, <2>3, RemoveItemHas DEF Pinged
<1>3. CASE FullySent(o, n) /\ ~Removable(Current(o))
  <2> DEFINE b == Current(o).type = "PUBLISH"
             r == [o EXCEPT !.q[o.c].dup = b]
  <2>1. HasCurrent(o) /\ b \in BOOLEAN
    BY <1>3 DEF FullySent
  <2>2. Advanced(o, n) = NextItem(r)
    BY <1>3 DEF Advanced
  <2> HIDE DEF b
  <2>3. r \in Box(ClientPacket) /\ Len(r.q) = Len(o.q)
        /\ \A k \in 1 .. Len(o.q) : Same(r.q[k], o.q[k])
    BY <2>1, MarkBox
  <2> HIDE DEF r
  <2>4. NextItem(r).q = r.q
    BY <2>3, NextItemBox
  <2> QED BY <2>2, <2>3, <2>4 DEF Pinged, Has, Same
<1> QED BY <1>1, <1>2, <1>3

\* A packet of another kind is handled.
LEMMA OthersHandled ==
  ASSUME TypeInv, NEW p, Handles(p), p.type # "PINGRESP", Ponged(Coming)
  PROVE  Ponged(Coming')
<1> DEFINE c == Coming
           d == Coming'
<1>1. c \in Seq(BrokerPacket) /\ c # <<>> /\ p = Head(c) /\ d = Tail(c)
  BY Sequences DEF Handles
<1> HIDE DEF c, d
<1>2. /\ Head(c) = c[1] /\ Len(Tail(c)) = Len(c) - 1 /\ Len(c) \in Nat
      /\ \A k \in 1 .. Len(c) - 1 : Tail(c)[k] = c[k + 1]
  BY <1>1, TailHas
<1>3. PICK k \in 1 .. Len(c) : c[k].type = "PINGRESP" /\ c[k].id = 0
  BY DEF Ponged, Has, c
<1>4. k - 1 \in 1 .. Len(d) /\ d[k - 1] = c[k]
  BY <1>1, <1>2, <1>3
<1>5. Has(d, {"PINGRESP"}, 0)
  BY <1>3, <1>4 DEF Has
<1> QED BY <1>5 DEF Ponged, d

\* The calls of the application.
LEMMA AppPings ==
  ASSUME TypeInv, PingUnderWay, AppNext, state' = "connected", state = "connected",
         \A t \in Thread : ~ClearQueueCall(t)
  PROVE  PingUnderWay'
<1> PICK t \in Thread : (\E call \in Calls : Call(t, call)) \/ Act(t)
  BY DEF AppNext
<1>0. outbox \in Box(ClientPacket)
  BY Sequences
<1>1. wire' = wire /\ Coming' = Coming
  BY DEF Act, Call, Connect, Disconnect, Publish, Subscribe, Unsubscribe, Request,
         ClearQueueCall, net, control, Coming
<1>2. CASE outbox'.q = outbox.q
  BY <1>1, <1>2 DEF PingUnderWay
<1>3. CASE \E x : outbox' \in AddPacket(outbox, x)
  BY <1>0, <1>1, <1>3, AppendPinged DEF PingUnderWay
<1>4. CASE Connect(t)
  <2>1. outbox' = outbox \/ outbox' = ResetCurrent(outbox)
    BY <1>4 DEF Connect, AddPacketFrontFails
  <2> QED BY <1>0, <1>2, <2>1, ResetBox
<1>5. CASE \E call \in Calls : Call(t, call)
  BY <1>2, <1>5 DEF Call, client
<1>6. CASE Disconnect(t)
  BY <1>2, <1>6 DEF Disconnect
<1>7. CASE Publish(t) \/ Subscribe(t) \/ Unsubscribe(t)
  <2>1. \E call, p : Request(t, call, p)
    BY <1>7 DEF Publish, Subscribe, Unsubscribe
  <2> QED BY <1>3, <2>1 DEF Request
<1> QED BY <1>4, <1>5, <1>6, <1>7 DEF Act

\* A whole packet: PINGREQ goes from the outbox to the wire.
LEMMA SendPings ==
  ASSUME TypeInv, PingUnderWay, SendPacket, wire'.ok
  PROVE  PingUnderWay'
<1>0. /\ outbox \in Box(ClientPacket) /\ outbox.q \in Seq(ClientPacket)
      /\ wire.sent \in Seq(ClientPacket) /\ DOMAIN wire = {"sent", "part", "ok", "once"}
  BY Sequences DEF TypeInv, WireTyped
<1> DEFINE p == Current(outbox)
<1>1. Coming' = Coming
  BY DEF SendPacket, Coming
<1>2. HasCurrent(outbox) /\ bytesSent < Size(p) /\ WantToWrite = Size(p) - bytesSent
  BY DEF SendPacket, WantToWrite
<1>3. Size(p) \in 1 .. PubSize /\ bytesSent \in Nat
  <2>1. Size(p) \in 1 .. PubSize
    BY ClientAssumption DEF Size
  <2> QED BY <1>2, <2>1, ClientAssumption DEF TypeInv, ClientTyped, SizeMax
<1>4. p \in ClientPacket
  BY <1>0, <1>2, ElementOfSeq DEF Box, HasCurrent, Current
<1>5. PICK k \in 0 .. WantToWrite :
        /\ wire' = Write(wire, p, bytesSent, k)
        /\ outbox' = outbox \/ (k > 0 /\ outbox' = Advanced(outbox, bytesSent + k))
  BY <1>2, <1>3 DEF SendPacket
<1>6. wire'.sent \in {wire.sent, Append(wire.sent, p)}
  BY <1>0, <1>4, <1>5, WriteSent
<1>7. Pinged(wire.sent) => Pinged(wire'.sent)
  <2>1. Pinged(wire.sent) => Pinged(Append(wire.sent, p))
    BY <1>0, <1>4, AppendHas DEF Pinged
  <2> QED BY <1>6, <2>1
<1>8. CASE outbox' = outbox
  BY <1>1, <1>7, <1>8 DEF PingUnderWay
<1>9. CASE k > 0 /\ outbox' = Advanced(outbox, bytesSent + k)
  <2>1. CASE ~(FullySent(outbox, bytesSent + k) /\ p.type = "PINGREQ")
    BY <1>0, <1>1, <1>7, <1>9, <2>1, AdvancedPinged DEF PingUnderWay
  <2>2. CASE FullySent(outbox, bytesSent + k) /\ p.type = "PINGREQ"
    <3>1. bytesSent + k = Size(p)
      BY <2>2 DEF FullySent
    <3>2. ~(bytesSent + k < Size(p))
      BY <1>3, <3>1
    <3>3. CASE wire.part # IF bytesSent = 0 THEN None ELSE [pkt |-> p, off |-> bytesSent]
      <4>1. wire' = [wire EXCEPT !.ok = FALSE]
        BY <1>5, <1>9, <3>3 DEF Write
      <4>2. wire'.ok = FALSE
        BY <1>0, <4>1
      <4> QED BY <4>2
    <3>4. CASE wire.part = IF bytesSent = 0 THEN None ELSE [pkt |-> p, off |-> bytesSent]
      <4>1. wire' = [wire EXCEPT !.sent = Append(@, p), !.part = None,
                              !.once = IF p.type = "PUBLISH" THEN @ \cup {p.id} ELSE @]
        BY <1>3, <1>5, <1>9, <3>2, <3>4 DEF Write
      <4>2. wire'.sent = Append(wire.sent, p)
        BY <1>0, <4>1
      <4>3. p.id = 0
        BY <1>4, <2>2 DEF ClientPacket
      <4> QED BY <1>0, <1>4, <2>2, <4>2, <4>3, AppendHas DEF Pinged, PingUnderWay
    <3> QED BY <3>3, <3>4
  <2> QED BY <2>1, <2>2
<1> QED BY <1>5, <1>8, <1>9

\* The handlers.
LEMMA ReceivingPings ==
  ASSUME TypeInv, PingUnderWay, Receiving, pingSent', state' = "connected", state = "connected",
         UNCHANGED <<session, passedOn, unsent>>
  PROVE  PingUnderWay'
<1>0. outbox \in Box(ClientPacket)
  BY Sequences
<1>1. CASE Read
  <2>1. rx = <<>> /\ rx' = s2c /\ s2c' = <<>> /\ UNCHANGED <<outbox, wire>>
        /\ s2c \in Seq(BrokerPacket)
    BY <1>1 DEF Read, At, TypeInv, IncomingTyped
  <2>2. Coming' = s2c /\ Coming = s2c
    BY <2>1, ConcatProperties DEF Coming
  <2> QED BY <2>1, <2>2 DEF PingUnderWay
<1>2. CASE ExpectedConnack \/ ProtocolError \/ OnConnackRefused \/ OnConnack \/ OnPingresp
  BY <1>2 DEF ExpectedConnack, ProtocolError, OnConnackRefused, OnConnack, OnPingresp, Fails
<1>3. ASSUME At("parse"), UNCHANGED <<packetId, wire, s2c>>, Head(rx).type # "PINGRESP",
             rx' = Tail(rx), Pinged(outbox.q) => Pinged(outbox'.q)
      PROVE  PingUnderWay'
  <2>1. Handles(Head(rx))
    BY <1>3, Handling
  <2> QED BY <1>3, <2>1, OthersHandled DEF PingUnderWay
<1>4. CASE OnPublish
  <2>1. /\ At("parse") /\ UNCHANGED <<packetId, wire, s2c>> /\ Head(rx).type = "PUBLISH"
        /\ rx' = Tail(rx)
    BY <1>4 DEF OnPublish, Incoming, OutboxOnly, net, Continue, Notify, CallBack
  <2>2. outbox' = outbox \/ \E x : outbox' \in AddPacket(outbox, x)
    <3> DEFINE q == Head(rx).qos
               i == Head(rx).id
    <3>1. Head(rx) \in BrokerPacket
      BY <2>1, HeadTyped
    <3>2. q \in 0 .. 2
      BY <2>1, <3>1, BrokerPacketParts
    <3>3. \/ outbox' = outbox
          \/ outbox' \in CASE q = 0 -> {outbox}
                            [] q = 1 -> AddPacket(outbox, Ctl("PUBACK", i))
                            [] q = 2 -> AddPacket(outbox, Ctl("PUBREC", i))
      BY <1>4 DEF OnPublish
    <3> QED BY <3>2, <3>3
  <2> QED BY <1>0, <1>3, <2>1, <2>2, AppendPinged
<1>5. ASSUME NEW k \in 1 .. Len(outbox.q), outbox.q[k].type # "PINGREQ" \/ outbox.q[k].id # 0,
             NEW o, o = outbox \/ \E x : o \in AddPacket(outbox, x), outbox' = RemoveItem(o, k),
             Pinged(outbox.q)
      PROVE  Pinged(outbox'.q)
  <2>1. CASE o = outbox
    BY <1>0, <1>5, <2>1, RemoveItemHas DEF Pinged
  <2>2. CASE o # outbox
    <3>1. PICK x : o = Emplace(outbox, x)
      BY <1>5, <2>2 DEF AddPacket
    <3> DEFINE S == ClientPacket \cup {x}
    <3>2. outbox \in Box(S) /\ x \in S
      BY <1>0 DEF Box
    <3> HIDE DEF S
    <3>3. o \in Box(S) /\ o.q = Append(outbox.q, x)
      BY <3>1, <3>2, EmplaceBox
    <3>4. outbox.q \in Seq(S)
      BY <3>2 DEF Box
    <3>5. Has(o.q, {"PINGREQ"}, 0) /\ k \in 1 .. Len(o.q) /\ o.q[k] = outbox.q[k]
      BY <1>5, <3>2, <3>3, <3>4, AppendHas DEF Pinged
    <3> QED BY <1>5, <3>3, <3>5, RemoveItemHas DEF Pinged
  <2> QED BY <2>1, <2>2
<1>6. ASSUME NEW answer, NEW type, Finish(answer, type), answer # "PINGRESP", type # "PINGREQ"
      PROVE  PingUnderWay'
  <2>1. /\ At("parse") /\ UNCHANGED <<packetId, wire, s2c>> /\ Head(rx).type = answer
        /\ rx' = Tail(rx)
    BY <1>6 DEF Finish, Incoming, OutboxOnly, net, Continue, Notify, CallBack
  <2>2. \/ outbox' = outbox
        \/ \E k \in 1 .. Len(outbox.q) : outbox.q[k].type = type /\ outbox' = RemoveItem(outbox, k)
    BY <1>6 DEF Finish, FirstIs
  <2>3. Pinged(outbox.q) => Pinged(outbox'.q)
    BY <1>5, <1>6, <2>2
  <2> QED BY <1>3, <1>6, <2>1, <2>3
<1>7. ASSUME NEW answer, NEW types, Settle(answer, types), answer \in {"SUBACK", "UNSUBACK"}
      PROVE  PingUnderWay'
  <2>1. /\ At("parse") /\ UNCHANGED <<packetId, wire, s2c>> /\ Head(rx).type = answer
        /\ rx' = Tail(rx)
    BY <1>7 DEF Settle, Incoming, OutboxOnly, net, Continue, Notify, CallBack
  <2>2. Head(rx) \in BrokerPacket
    BY <2>1, HeadTyped
  <2>3. Head(rx).id # 0
    <3>1. Head(rx).id \in 1 .. MaxId
      BY <1>7, <2>1, <2>2, BrokerPacketParts
    <3> QED BY <3>1, ClientAssumption
  <2>4. \/ outbox' = outbox
        \/ \E k \in 1 .. Len(outbox.q) : outbox.q[k].id = Head(rx).id /\ outbox' = RemoveItem(outbox, k)
    BY <1>7 DEF Settle, Answered
  <2>5. Pinged(outbox.q) => Pinged(outbox'.q)
    BY <1>5, <2>3, <2>4
  <2> QED BY <1>3, <1>7, <2>1, <2>5
<1>8. ASSUME NEW answer, NEW type, NEW reply, Reply(answer, type, reply),
             answer # "PINGRESP", type # "PINGREQ"
      PROVE  PingUnderWay'
  <2>1. /\ At("parse") /\ UNCHANGED <<packetId, wire, s2c>> /\ Head(rx).type = answer
        /\ rx' = Tail(rx)
    BY <1>8 DEF Reply, Incoming, OutboxOnly, net, Continue
  <2>2. \/ outbox' = outbox
        \/ \E k \in 1 .. Len(outbox.q), o \in AddPacket(outbox, Ctl(reply, Head(rx).id)) :
              outbox.q[k].type = type /\ outbox' = RemoveItem(o, k)
    BY <1>8 DEF Reply, FirstIs
  <2>3. Pinged(outbox.q) => Pinged(outbox'.q)
    <3>1. CASE outbox' = outbox
      BY <3>1
    <3>2. ASSUME NEW k \in 1 .. Len(outbox.q), NEW o \in AddPacket(outbox, Ctl(reply, Head(rx).id)),
                 outbox.q[k].type = type, outbox' = RemoveItem(o, k)
          PROVE  Pinged(outbox.q) => Pinged(outbox'.q)
      <4>1. \E x : o \in AddPacket(outbox, x)
        BY <3>2
      <4> QED BY <1>5, <1>8, <3>2, <4>1
    <3> QED BY <2>2, <3>1, <3>2
  <2> QED BY <1>3, <1>8, <2>1, <2>3
<1>9. CASE OnPuback \/ OnPubcomp
  BY <1>6, <1>9 DEF OnPuback, OnPubcomp
<1>10. CASE OnPubrec \/ OnPubrel
  BY <1>8, <1>10 DEF OnPubrec, OnPubrel
<1>11. CASE OnSuback \/ OnUnsuback
  BY <1>7, <1>11 DEF OnSuback, OnUnsuback
<1> QED BY <1>1, <1>2, <1>4, <1>9, <1>10, <1>11 DEF Receiving

\* The broker answers PINGREQ.
LEMMA BrokerPings ==
  ASSUME Base, PingUnderWay, BrokerStep, tcp = "open", tcp' = "open"
  PROVE  PingUnderWay'
<1>0. /\ AtBroker /\ outbox' = outbox /\ wire.sent \in Seq(ClientPacket)
      /\ Coming \in Seq(BrokerPacket) /\ TypeInv /\ ConnackFirst
  BY Sequences DEF BrokerStep, AtBroker, client, Base
<1>1. ASSUME NEW x, Brings(x), Ponged(Coming) PROVE Ponged(Coming')
  <2>1. Has(Append(Coming, x), {"PINGRESP"}, 0)
    BY <1>0, <1>1, AppendHas DEF Brings, Ponged
  <2>2. Coming' = Coming \/ Coming' = Append(Coming, x)
    BY <1>1 DEF Brings
  <2>3. CASE Coming' = Coming
    BY <1>1, <2>3
  <2>4. CASE Coming' = Append(Coming, x)
    BY <2>1, <2>4 DEF Ponged
  <2> QED BY <2>2, <2>3, <2>4
<1>2. ASSUME NEW p, Takes(p), p.type # "PINGREQ", Pinged(wire.sent) PROVE Pinged(wire'.sent)
  <2> DEFINE s == wire.sent
  <2>1. /\ s # <<>> /\ p = s[1] /\ wire'.sent = Tail(s) /\ Len(Tail(s)) = Len(s) - 1
        /\ Len(s) \in Nat /\ \A k \in 1 .. Len(s) - 1 : Tail(s)[k] = s[k + 1]
    BY <1>0, <1>2, TailHas DEF Takes
  <2>2. PICK k \in 1 .. Len(s) : s[k].type = "PINGREQ" /\ s[k].id = 0
    BY <1>2 DEF Pinged, Has
  <2>3. k - 1 \in 1 .. Len(Tail(s)) /\ Tail(s)[k - 1] = s[k]
    BY <1>2, <2>1, <2>2
  <2> QED BY <2>1, <2>2, <2>3 DEF Pinged, Has
<1>3. CASE GetConnect \/ Refuse
  <2>1. bConn = "wait" /\ Takes(Next1) /\ Next1.type = "CONNECT"
    BY <1>0, <1>3, TakeTakes DEF GetConnect, Refuse
  <2>2. Coming = <<>>
    BY <1>0, <2>1 DEF ConnackFirst
  <2>3. ~Ponged(Coming)
    BY <2>2 DEF Ponged, Has
  <2> QED BY <1>0, <1>2, <2>1, <2>3 DEF PingUnderWay
<1>4. CASE ProtocolViolation \/ GetDisconnect
  BY <1>4 DEF ProtocolViolation, GetDisconnect, Close
<1>5. CASE GetPublish \/ GetPubrel \/ GetAnswer \/ GetPubrec
  <2>1. TakesPublish \/ TakesPubrel \/ TakesAnswer \/ TakesPubrec
    BY <1>0, <1>5, TakesKinds
  <2>2. /\ Coming' = Coming \/ \E x : Brings(x)
        /\ \E p \in ClientPacket : Takes(p) /\ p.type # "PINGREQ"
    BY <2>1 DEF TakesPublish, TakesPubrel, TakesAnswer, TakesPubrec
  <2> QED BY <1>0, <1>1, <1>2, <2>2 DEF PingUnderWay
<1>6. CASE PublishMessage
  <2>1. wire' = wire /\ \E x : Brings(x)
    BY <1>0, <1>6, PublishesKind DEF Publishes, PublishesAs
  <2> QED BY <1>0, <1>1, <2>1 DEF PingUnderWay
<1>7. CASE GetRequest
  <2>1. PICK r \in {<<"SUBSCRIBE", "SUBACK">>, <<"UNSUBSCRIBE", "UNSUBACK">>,
                    <<"PINGREQ", "PINGRESP">>} :
          Gets(r[1]) /\ Send(<<Answer(r[2], Next1.id)>>)
    BY <1>7 DEF GetRequest
  <2>2. Takes(Next1) /\ Next1 \in ClientPacket /\ Next1.type = r[1]
    BY <1>0, <1>7, <2>1, TakeTakes DEF GetRequest, Gets
  <2>3. CASE r[1] = "PINGREQ"
    <3>1. Next1.id = 0 /\ r[2] = "PINGRESP"
      BY <2>2, <2>3 DEF ClientPacket
    <3> DEFINE x == Answer("PINGRESP", 0)
    <3>2. x \in BrokerPacket /\ x.type = "PINGRESP" /\ x.id = 0
      BY DEF Answer, BrokerPacket
    <3>3. s2c' = s2c \o <<x>> /\ rx' = rx
      BY <1>0, <2>1, <3>1 DEF Send, AtBroker, control
    <3> HIDE DEF x
    <3>4. Coming' = Append(Coming, x)
      BY <1>0, <3>2, <3>3, Sequences, AppendConcat DEF Coming
    <3>5. Ponged(Coming')
      BY <1>0, <3>2, <3>4, AppendHas DEF Ponged
    <3> QED BY <3>5 DEF PingUnderWay
  <2>4. CASE r[1] # "PINGREQ"
    <3>1. PICK x : Brings(x)
      BY <1>0, <1>7, ChatsKind DEF Chats
    <3> QED BY <1>0, <1>1, <1>2, <2>2, <2>4, <3>1 DEF PingUnderWay
  <2> QED BY <2>3, <2>4
<1> QED BY <1>3, <1>4, <1>5, <1>6, <1>7 DEF BrokerStep, Answers

\* A step that leaves the state "connected", the socket open and _pingSent set begins
\* so, or sends the ping.
LEMMA PingBefore ==
  ASSUME [Next]_vars, pingSent', tcp' = "open", state' = "connected"
  PROVE  (pingSent /\ tcp = "open" /\ state = "connected") \/ CheckPing
<1>1. CASE AppNext
  BY <1>1 DEF AppNext, Act, Call, Connect, Disconnect, Publish, Subscribe, Unsubscribe, Request,
     ClearQueueCall, net, client
<1>2. CASE LoopNext
  <2>1. CASE Dispatch \/ Connecting \/ Disconnecting
    BY <2>1 DEF Dispatch, Connecting, TcpConnectFails, TcpConnected, CheckTransport, TransportLost,
       Fails, Disconnecting, SayGoodbye, StopTransport, Disconnected, net, client
  <2>2. CASE Sending
    BY <2>2 DEF Sending, SendPacket, SendFails, NothingToSend, AdvanceState, net, client
  <2>3. CASE Receiving
    BY <2>3 DEF Receiving, Read, ExpectedConnack, ProtocolError, OnConnack, OnConnackRefused, Fails,
       OnPublish, OnPuback, OnPubrec, OnPubrel, OnPubcomp, OnSuback, OnUnsuback, OnPingresp, Finish,
       Reply, Settle, OutboxOnly, net
  <2>4. CASE Callbacks \/ Retransmit \/ NoRetransmit
    BY <2>4 DEF Callbacks, CallbackReturns, ConnectCallbackReturns, DisconnectCallbackReturns,
       Retransmit, NoRetransmit, net, client
  <2> QED BY <1>2, <2>1, <2>2, <2>3, <2>4 DEF LoopNext, Timers
<1>3. CASE ConnectStep \/ TimePasses
  BY <1>3 DEF ConnectStep, TcpConnect, TimePasses, net
<1>4. CASE BrokerStep \/ LossStep
  BY <1>4 DEF BrokerStep, LossStep, client, Answers, GetConnect, Refuse, ProtocolViolation, Close,
     GetPublish, GetPubrel, GetRequest, GetAnswer, GetPubrec, GetDisconnect, PublishMessage,
     ConnectionLost
<1>5. CASE UNCHANGED vars
  BY <1>5 DEF vars, clientVars, client, net
<1> QED BY <1>1, <1>2, <1>3, <1>4, <1>5 DEF Next, ClientStep

LEMMA StepPing ==
  ASSUME Base, wire'.ok, PingKept, [Next]_vars,
         state = "connected" => \A t \in Thread : ~ClearQueueCall(t)
  PROVE  PingKept'
<1> SUFFICES ASSUME pingSent', tcp' = "open", state' = "connected"
             PROVE  PingUnderWay'
  BY DEF PingKept
<1>0. /\ TypeInv /\ outbox \in Box(ClientPacket) /\ outbox.q \in Seq(ClientPacket)
  BY Sequences DEF Base
<1>1. CASE CheckPing
  <2> DEFINE x == Ctl("PINGREQ", 0)
  <2>0. wire' = wire /\ Coming' = Coming
    BY <1>1 DEF CheckPing, net, Coming
  <2>1. CASE outbox' # outbox
    <3>1. outbox' \in AddPacket(outbox, x) /\ x \in ClientPacket
      BY <1>1, <2>1, CtlTyped DEF CheckPing
    <3>2. outbox'.q = Append(outbox.q, x) /\ x.type = "PINGREQ" /\ x.id = 0
      BY <1>0, <2>1, <3>1, AddPacketBox DEF Ctl
    <3> HIDE DEF x
    <3> QED BY <1>0, <3>1, <3>2, AppendHas DEF Pinged, PingUnderWay
  <2>2. CASE outbox' = outbox
    <3>1. pingSent /\ state = "connected" /\ tcp = "open"
      BY <1>1, <2>2 DEF CheckPing, Fails, net
    <3> QED BY <2>0, <2>2, <3>1 DEF PingKept, PingUnderWay
  <2> QED BY <2>1, <2>2
<1>2. CASE pingSent /\ tcp = "open" /\ state = "connected" /\ ~CheckPing
  <2>0. PingUnderWay
    BY <1>2 DEF PingKept
  <2>1. CASE outbox'.q = outbox.q /\ wire' = wire /\ Coming' = Coming
    BY <2>0, <2>1 DEF PingUnderWay
  <2>2. CASE AppNext
    BY <1>0, <1>2, <2>0, <2>2, AppPings
  <2>3. CASE SendPacket
    BY <1>0, <2>0, <2>3, SendPings
  <2>4. CASE Receiving /\ UNCHANGED brokerVars
    BY <1>0, <1>2, <2>0, <2>4, ReceivingPings DEF brokerVars
  <2>5. CASE BrokerStep
    BY <1>2, <2>0, <2>5, BrokerPings
  <2>6. CASE ConnectStep \/ LossStep \/ Disconnected \/ StopTransport
    BY <2>6 DEF ConnectStep, TcpConnect, LossStep, ConnectionLost, Close, Disconnected, StopTransport
  <2>7. CASE SayGoodbye
    <3>1. \/ outbox' = outbox /\ wire' = wire /\ rx' = rx /\ s2c' = s2c
          \/ outbox' \in AddPacket(outbox, Ctl("DISCONNECT", 0)) /\ wire' = wire /\ rx' = rx /\ s2c' = s2c
      BY <2>7 DEF SayGoodbye, net
    <3> QED BY <1>0, <2>0, <3>1, AppendPinged DEF PingUnderWay, Coming
  <2>8. CASE Dispatch \/ Connecting \/ SendFails \/ NothingToSend \/ Callbacks
             \/ Retransmit \/ NoRetransmit \/ TimePasses \/ UNCHANGED vars
    <3>1. outbox' = outbox \/ outbox' = ResetCurrent(outbox)
      BY <2>8 DEF Dispatch, Connecting, TcpConnectFails, TcpConnected, CheckTransport,
         TransportLost, SendFails, NothingToSend, Callbacks, CallbackReturns,
         ConnectCallbackReturns, DisconnectCallbackReturns, Retransmit, NoRetransmit, TimePasses,
         client, vars, clientVars
    <3>2. wire' = wire /\ s2c' = s2c
      BY <2>8 DEF Dispatch, Connecting, TcpConnectFails, TcpConnected, CheckTransport,
         TransportLost, SendFails, NothingToSend, Callbacks, CallbackReturns,
         ConnectCallbackReturns, DisconnectCallbackReturns, Retransmit, NoRetransmit, TimePasses,
         net, vars, clientVars
    <3>3. rx' = rx
      BY <1>2, <2>8 DEF Dispatch, Connecting, TcpConnectFails, TcpConnected, CheckTransport,
         TransportLost, SendFails, NothingToSend, Callbacks, CallbackReturns, Continue,
         ConnectCallbackReturns, DisconnectCallbackReturns, Retransmit, NoRetransmit, TimePasses,
         control, vars, clientVars
    <3>4. outbox'.q = outbox.q
      BY <1>0, <3>1, ResetBox
    <3> QED BY <2>1, <3>2, <3>3, <3>4 DEF Coming
  <2> QED BY <1>2, <2>2, <2>3, <2>4, <2>5, <2>6, <2>7, <2>8
          DEF Next, ClientStep, LoopNext, Disconnecting, Sending, Timers
<1> QED BY <1>1, <1>2, PingBefore

LEMMA KeptIsPending == Base /\ PingKept => PingIsPending
<1> SUFFICES ASSUME Base, PingKept, pingSent, tcp = "open", state = "connected"
             PROVE  \/ \E p \in Range(outbox.q) \cup Range(wire.sent) : p.type = "PINGREQ"
                    \/ \E p \in Range(s2c) \cup Range(rx) : p.type = "PINGRESP"
  BY DEF PingIsPending
<1>0. /\ outbox.q \in Seq(ClientPacket) /\ wire.sent \in Seq(ClientPacket)
      /\ rx \in Seq(BrokerPacket) /\ s2c \in Seq(BrokerPacket)
  BY Sequences DEF Base
<1>1. CASE Pinged(outbox.q) \/ Pinged(wire.sent)
  BY <1>0, <1>1 DEF Pinged, Has, Range
<1>2. CASE Ponged(Coming)
  <2>1. PICK k \in 1 .. Len(rx \o s2c) : (rx \o s2c)[k].type = "PINGRESP"
    BY <1>2 DEF Ponged, Has, Coming
  <2>2. (rx \o s2c)[k] \in Range(s2c) \cup Range(rx)
    BY <1>0, ConcatProperties DEF Range
  <2> QED BY <2>1, <2>2
<1> QED BY <1>1, <1>2 DEF PingKept, PingUnderWay

\* A ping that was sent is in the outbox, on the wire or answered as long as the
\* client is connected, with any number of threads: PINGREQ is removed only when it
\* is written, _pingSent is reset by each CONNACK, and no UNSUBACK has its id, 0
\* (MqttClient.cpp:380-398, 445, 463-487, 501-519).  Packets must arrive whole
\* (wire.ok, the part of Framing on them), and clearQueue() must not take
\* PINGREQ away.
THEOREM PingsArePending ==
  Spec /\ []wire.ok /\ NoClearWhileConnected => []PingIsPending
<1> DEFINE NotCleared == (state = "connected") => \A t \in Thread : ~ClearQueueCall(t)
<1>1. Init => PingKept
  BY DEF Init, ClientInit, PingKept
<1>2. Base /\ PingKept /\ (wire.ok)' /\ [Next]_vars /\ [NotCleared]_vars => PingKept'
  <2> SUFFICES ASSUME Base, PingKept, (wire.ok)', [Next]_vars, [NotCleared]_vars
               PROVE  PingKept'
    OBVIOUS
  <2>1. CASE NotCleared
    BY <2>1, StepPing
  <2>2. CASE UNCHANGED vars
    <3>1. /\ pingSent' = pingSent /\ tcp' = tcp /\ state' = state /\ outbox' = outbox
          /\ wire' = wire /\ rx' = rx /\ s2c' = s2c
      BY <2>2 DEF vars, clientVars, client, control, net
    <3> QED BY <3>1 DEF PingKept, PingUnderWay, Coming
  <2> QED BY <2>1, <2>2
<1>3. Spec => []Base
  BY BaseInvariant
<1>4. Base /\ PingKept => PingIsPending
  BY KeptIsPending
<1> QED BY <1>1, <1>2, <1>3, <1>4, PTL DEF Spec, NoClearWhileConnected

-----------------------------------------------------------------------------
(* What a step does to the outbox, calls beside the loop or not *)

\* Packets with which the broker answers a request, and such requests that the
\* answer to another one may end.
Requests == {"PUBLISH", "UNSUBSCRIBE"}
Acks == {"PUBACK", "PUBREC", "UNSUBACK"}

\* The packet x may be appended: a PUBLISH with an id has a new one.
Appends(x) ==
  /\ x \in ClientPacket /\ x.type # "CONNECT"
  /\ x.type = "PUBLISH" /\ x.id # 0 =>
       x.id = NextPacketId /\ packetId' = NextPacketId /\ ~x.dup

\* A packet is appended, or one is removed that was answered, or both.
Edits ==
  \E o : /\ o = outbox \/ \E x : Appends(x) /\ o = Emplace(outbox, x)
         /\ \/ outbox' = o
            \/ \E k \in 1 .. Len(outbox.q) :
                 /\ outbox.q[k].id # 0
                 /\ outbox.q[k].type = "PUBLISH" => Has(Coming, Acks, outbox.q[k].id)
                 /\ outbox' = RemoveItem(o, k)

LEMMA SameEdits == outbox' = outbox => Edits
BY DEF Edits

LEMMA AppendEdits ==
  ASSUME TypeInv, NEW x, Appends(x), outbox' \in AddPacket(outbox, x)
  PROVE  Edits
<1>1. outbox' = outbox \/ outbox' = Emplace(outbox, x)
  BY DEF AddPacket
<1> QED BY <1>1 DEF Edits

LEMMA OtherAppends ==
  ASSUME NEW x \in ClientPacket, x.type \notin {"CONNECT", "PUBLISH"}
  PROVE  Appends(x)
BY DEF Appends

LEMMA RequestsEdit ==
  ASSUME TypeInv, NEW t \in Thread, Publish(t) \/ Subscribe(t) \/ Unsubscribe(t)
  PROVE  \E x : Appends(x) /\ x.type \in {"PUBLISH", "SUBSCRIBE", "UNSUBSCRIBE"}
                /\ outbox' \in AddPacket(outbox, x)
<1> DEFINE Goal == \E x : Appends(x) /\ x.type \in {"PUBLISH", "SUBSCRIBE", "UNSUBSCRIBE"}
                          /\ outbox' \in AddPacket(outbox, x)
<1>1. NextPacketId \in 1 .. MaxId
  BY ClientAssumption DEF NextPacketId, TypeInv, ClientTyped
<1>2. ASSUME NEW p \in Packet, p.type \in {"PUBLISH", "SUBSCRIBE", "UNSUBSCRIBE"},
             p.type = "PUBLISH" => p.qos # 0, ~p.dup,
             NEW call, call # "publish0", Request(t, call, p)
      PROVE  Goal
  <2>1. /\ packetId' = NextPacketId
        /\ outbox' \in AddPacket(outbox, [p EXCEPT !.id = NextPacketId])
    BY <1>2 DEF Request
  <2> HIDE DEF NextPacketId
  <2> DEFINE r == [p EXCEPT !.id = NextPacketId]
  <2>2. NextPacketId \in 0 .. MaxId
    BY <1>1
  <2>3. /\ r \in Packet /\ r.id = NextPacketId /\ r.type = p.type
        /\ r.qos = p.qos /\ r.dup = p.dup
    BY <2>2, WithNewId
  <2>4. outbox' \in AddPacket(outbox, r)
    BY <2>1
  <2> HIDE DEF r
  <2>5. r \in ClientPacket
    BY <1>1, <1>2, <2>3 DEF ClientPacket
  <2>6. Appends(r)
    BY <1>2, <2>1, <2>3, <2>5 DEF Appends
  <2> QED BY <1>2, <2>3, <2>4, <2>6
<1>3. CASE Request(t, "publish0", Pub(0, 0))
  <2>1. outbox' \in AddPacket(outbox, Pub(0, 0))
    BY <1>3 DEF Request
  <2>2. Pub(0, 0) \in ClientPacket /\ Pub(0, 0).type = "PUBLISH" /\ Pub(0, 0).id = 0
    BY CtlTyped DEF Pub
  <2> QED BY <2>1, <2>2 DEF Appends
<1>4. \A q \in 0 .. 2 : Pub(0, q) \in Packet /\ Pub(0, q).type = "PUBLISH"
                         /\ Pub(0, q).qos = q /\ ~Pub(0, q).dup
  BY ClientAssumption DEF Pub, Packet, AllTypes
<1>5. \A type \in {"SUBSCRIBE", "UNSUBSCRIBE"} : 
                         Ctl(type, 0) \in Packet /\ Ctl(type, 0).type = type /\ ~Ctl(type, 0).dup
  BY ClientAssumption DEF Ctl, Packet, AllTypes
<1>6. ASSUME NEW q \in 1 .. 2, NEW call, call # "publish0", Request(t, call, Pub(0, q))
      PROVE  Goal
  BY <1>2, <1>4, <1>6
<1>7. ASSUME NEW type \in {"SUBSCRIBE", "UNSUBSCRIBE"}, NEW call, call # "publish0",
             Request(t, call, Ctl(type, 0))
      PROVE  Goal
  BY <1>2, <1>5, <1>7
<1> HIDE DEF Goal
<1>8. Request(t, "publish1", Pub(0, 1)) \/ Request(t, "publish2", Pub(0, 2)) => Goal
  <2>1. Request(t, "publish1", Pub(0, 1)) => Goal
    BY <1>6
  <2>2. Request(t, "publish2", Pub(0, 2)) => Goal
    BY <1>6
  <2> QED BY <2>1, <2>2
<1>9. Goal
  BY <1>3, <1>7, <1>8 DEF Publish, Subscribe, Unsubscribe, Goal
<1> QED BY <1>9 DEF Goal

LEMMA HandlersEdit ==
  ASSUME TypeInv, Receiving, ~OnConnack
  PROVE  Edits
<1>0. outbox \in Box(ClientPacket) /\ outbox.q \in Seq(ClientPacket)
  BY Sequences
<1>1. CASE Read \/ ExpectedConnack \/ ProtocolError \/ OnConnackRefused \/ OnPingresp
  BY <1>1, SameEdits DEF Read, ExpectedConnack, ProtocolError, OnConnackRefused, OnPingresp
<1>2. ASSUME At("parse")
      PROVE  Head(rx) \in BrokerPacket /\ Has(Coming, {Head(rx).type}, Head(rx).id)
  <2>1. /\ Coming # <<>> /\ 1 \in 1 .. Len(Coming) /\ Coming[1] = Head(rx)
        /\ Head(rx) \in BrokerPacket
    BY <1>2, HeadIsFirst
  <2> QED BY <2>1 DEF Has
<1>3. ASSUME At("parse"), NEW k \in 1 .. Len(outbox.q), outbox.q[k].id = Head(rx).id,
             Head(rx).type \in {"PUBACK", "PUBREC", "PUBCOMP", "SUBACK", "UNSUBACK", "PUBREL"},
             outbox.q[k].type = "PUBLISH" => Head(rx).type \in Acks
      PROVE  /\ outbox.q[k].id # 0
             /\ outbox.q[k].type = "PUBLISH" => Has(Coming, Acks, outbox.q[k].id)
  <2>1. Head(rx).id # 0
    <3>1. /\ Head(rx).type # "PUBREL" => Head(rx).id \in 1 .. MaxId
          /\ Head(rx).type = "PUBREL" => Head(rx).id \in BrokerMsg
      BY <1>2, <1>3, BrokerPacketParts
    <3> QED BY <3>1, BrokerAssumption
  <2>2. Head(rx).type \in Acks => Has(Coming, Acks, Head(rx).id)
    BY <1>2, <1>3 DEF Has
  <2> QED BY <1>3, <2>1, <2>2
<1>4. CASE OnPublish
  <2> DEFINE p == Head(rx)
  <2>1. p \in BrokerPacket /\ p.type = "PUBLISH"
    BY <1>4, HeadTyped DEF OnPublish, Incoming
  <2>2. CASE state \in Leaving
    BY <1>4, <2>2, SameEdits DEF OnPublish
  <2>3. CASE state \notin Leaving
    <3>1. outbox' \in CASE p.qos = 0 -> {outbox}
                        [] p.qos = 1 -> AddPacket(outbox, Ctl("PUBACK", p.id))
                        [] p.qos = 2 -> AddPacket(outbox, Ctl("PUBREC", p.id))
      BY <1>4, <2>3 DEF OnPublish
    <3>2. p.qos \in 0 .. 2 /\ (p.qos # 0 => p.id \in BrokerMsg)
      BY <2>1, BrokerPacketParts
    <3>3. ASSUME NEW type \in {"PUBACK", "PUBREC"}, p.id \in BrokerMsg,
                 outbox' \in AddPacket(outbox, Ctl(type, p.id))
          PROVE  Edits
      <4>1. Ctl(type, p.id) \in ClientPacket /\ Ctl(type, p.id).type = type
        BY <3>3, CtlTyped DEF Ctl
      <4>2. Appends(Ctl(type, p.id))
        BY <4>1, OtherAppends
      <4> QED BY <3>3, <4>2, AppendEdits
    <3> QED BY <3>1, <3>2, <3>3, SameEdits
  <2> QED BY <2>2, <2>3
<1>5. ASSUME NEW answer \in {"PUBACK", "PUBCOMP"}, NEW type, Finish(answer, type),
             type = "PUBLISH" => answer = "PUBACK"
      PROVE  Edits
  <2>1. At("parse") /\ Head(rx).type = answer
    BY <1>5 DEF Finish, Incoming
  <2>2. CASE outbox' = outbox
    BY <2>2, SameEdits
  <2>3. CASE \E k \in 1 .. Len(outbox.q) : FirstIs(type, Head(rx).id, k) /\ outbox' = RemoveItem(outbox, k)
    <3>1. PICK k \in 1 .. Len(outbox.q) : FirstIs(type, Head(rx).id, k) /\ outbox' = RemoveItem(outbox, k)
      BY <2>3
    <3>2. outbox.q[k].type = type /\ outbox.q[k].id = Head(rx).id
      BY <3>1 DEF FirstIs
    <3>3. type = "PUBLISH" => Head(rx).type \in Acks
      BY <1>5, <2>1 DEF Acks
    <3>4. outbox.q[k].id # 0 /\ (outbox.q[k].type = "PUBLISH" => Has(Coming, Acks, outbox.q[k].id))
      BY <1>3, <1>5, <2>1, <3>2, <3>3
    <3> QED BY <3>1, <3>4 DEF Edits
  <2> QED BY <1>5, <2>2, <2>3 DEF Finish
<1>6. ASSUME NEW answer \in {"SUBACK", "UNSUBACK"}, NEW types, Settle(answer, types),
             "PUBLISH" \in types => answer = "UNSUBACK"
      PROVE  Edits
  <2>1. At("parse") /\ Head(rx).type = answer
    BY <1>6 DEF Settle, Incoming
  <2>2. CASE outbox' = outbox
    BY <2>2, SameEdits
  <2>3. CASE \E k \in 1 .. Len(outbox.q) : Answered(k, Head(rx).id, types) /\ outbox' = RemoveItem(outbox, k)
    <3>1. PICK k \in 1 .. Len(outbox.q) : Answered(k, Head(rx).id, types) /\ outbox' = RemoveItem(outbox, k)
      BY <2>3
    <3>2. outbox.q[k].type \in types /\ outbox.q[k].id = Head(rx).id
      BY <3>1 DEF Answered
    <3>3. outbox.q[k].type = "PUBLISH" => Head(rx).type \in Acks
      BY <1>6, <2>1, <3>2 DEF Acks
    <3>4. outbox.q[k].id # 0 /\ (outbox.q[k].type = "PUBLISH" => Has(Coming, Acks, outbox.q[k].id))
      BY <1>3, <1>6, <2>1, <3>2, <3>3
    <3> QED BY <3>1, <3>4 DEF Edits
  <2> QED BY <1>6, <2>2, <2>3 DEF Settle
<1>7. ASSUME NEW answer \in {"PUBREC", "PUBREL"}, NEW type, NEW reply, Reply(answer, type, reply),
             IF answer = "PUBREC" THEN type = "PUBLISH" /\ reply = "PUBREL"
             ELSE type = "PUBREC" /\ reply = "PUBCOMP"
      PROVE  Edits
  <2> DEFINE x == Ctl(reply, Head(rx).id)
  <2>1. At("parse") /\ Head(rx).type = answer /\ Head(rx) \in BrokerPacket
    BY <1>7, HeadTyped DEF Reply, Incoming
  <2>2. Appends(x)
    <3>1. answer = "PUBREC" => Head(rx).id \in 1 .. MaxId
      BY <2>1, BrokerPacketParts
    <3>2. answer = "PUBREL" => Head(rx).id \in BrokerMsg
      BY <2>1, BrokerPacketParts
    <3>3. x.type = reply
      BY DEF Ctl
    <3>4. x \in ClientPacket
      BY <1>7, <3>1, <3>2, CtlTyped
    <3> QED BY <1>7, <3>3, <3>4, OtherAppends
  <2>3. CASE outbox' = outbox
    BY <2>3, SameEdits
  <2>4. CASE \E k \in 1 .. Len(outbox.q) :
               /\ FirstIs(type, Head(rx).id, k)
               /\ \E o \in AddPacket(outbox, x) : outbox' = RemoveItem(o, k)
    <3> HIDE DEF x
    <3>1. PICK k \in 1 .. Len(outbox.q), o \in AddPacket(outbox, x) :
             FirstIs(type, Head(rx).id, k) /\ outbox' = RemoveItem(o, k)
      BY <2>4
    <3>2. outbox.q[k].type = type /\ outbox.q[k].id = Head(rx).id
      BY <3>1 DEF FirstIs
    <3>3. type = "PUBLISH" => Head(rx).type \in Acks
      BY <1>7, <2>1 DEF Acks
    <3>4. outbox.q[k].id # 0 /\ (outbox.q[k].type = "PUBLISH" => Has(Coming, Acks, outbox.q[k].id))
      BY <1>3, <1>7, <2>1, <3>2, <3>3
    <3>5. o = outbox \/ o = Emplace(outbox, x)
      BY DEF AddPacket
    <3> QED BY <2>2, <3>1, <3>4, <3>5 DEF Edits
  <2> QED BY <1>7, <2>3, <2>4 DEF Reply
<1>8. CASE OnPuback \/ OnPubcomp
  BY <1>5, <1>8 DEF OnPuback, OnPubcomp
<1>9. CASE OnPubrec \/ OnPubrel
  BY <1>7, <1>9 DEF OnPubrec, OnPubrel
<1>10. CASE OnSuback \/ OnUnsuback
  BY <1>6, <1>10 DEF OnSuback, OnUnsuback
<1> QED BY <1>1, <1>4, <1>8, <1>9, <1>10 DEF Receiving

\* The outbox is edited but by connect(), clearQueue(), the end of a connection, CONNACK,
\* sending and retransmission.
LEMMA OutboxEdits ==
  ASSUME TypeInv, [Next]_vars,
         ~Disconnected, ~OnConnack, ~SendPacket, ~Retransmit,
         \A t \in Thread : ~Connect(t) /\ ~ClearQueueCall(t)
  PROVE  Edits
<1>1. CASE AppNext
  <2> PICK t \in Thread : (\E call \in Calls : Call(t, call)) \/ Act(t)
    BY <1>1 DEF AppNext
  <2>1. CASE \E call \in Calls : Call(t, call)
    BY <2>1, SameEdits DEF Call, client
  <2>2. CASE Disconnect(t)
    BY <2>2, SameEdits DEF Disconnect
  <2>3. CASE Publish(t) \/ Subscribe(t) \/ Unsubscribe(t)
    BY <2>3, RequestsEdit, AppendEdits
  <2> QED BY <2>1, <2>2, <2>3 DEF Act
<1>2. CASE LoopNext
  <2>1. CASE Dispatch \/ Connecting \/ StopTransport \/ SendFails \/ NothingToSend \/ Callbacks
             \/ NoRetransmit
    BY <2>1, SameEdits DEF Dispatch, Connecting, TcpConnectFails, TcpConnected, CheckTransport,
       TransportLost, StopTransport, SendFails, NothingToSend, Callbacks, CallbackReturns,
       ConnectCallbackReturns, DisconnectCallbackReturns, NoRetransmit, client
  <2>2. CASE SayGoodbye
    <3>1. outbox' = outbox \/ outbox' \in AddPacket(outbox, Ctl("DISCONNECT", 0))
      BY <2>2 DEF SayGoodbye
    <3>2. Ctl("DISCONNECT", 0) \in ClientPacket /\ Ctl("DISCONNECT", 0).type = "DISCONNECT"
      BY CtlTyped DEF Ctl
    <3>3. Appends(Ctl("DISCONNECT", 0))
      BY <3>2, OtherAppends
    <3> QED BY <3>1, <3>3, SameEdits, AppendEdits
  <2>3. CASE CheckPing
    <3>1. outbox' = outbox \/ outbox' \in AddPacket(outbox, Ctl("PINGREQ", 0))
      BY <2>3 DEF CheckPing
    <3>2. Ctl("PINGREQ", 0) \in ClientPacket /\ Ctl("PINGREQ", 0).type = "PINGREQ"
      BY CtlTyped DEF Ctl
    <3>3. Appends(Ctl("PINGREQ", 0))
      BY <3>2, OtherAppends
    <3> QED BY <3>1, <3>3, SameEdits, AppendEdits
  <2> QED BY <1>2, <2>1, <2>2, <2>3, HandlersEdit
          DEF LoopNext, Disconnecting, Sending, Timers
<1>3. CASE outbox' = outbox
  BY <1>3, SameEdits
<1> QED BY <1>1, <1>2, <1>3
        DEF Next, ClientStep, ConnectStep, BrokerStep, LossStep, TimePasses, TcpConnect, vars,
            clientVars, client

\* The packet at k of the outbox t was at j in s, not nearer to the front, and
\* still to be sent if it is to be sent in t.
From(t, k, s, j) ==
  /\ j \in 1 .. Len(s.q) /\ t.q[k] = s.q[j] /\ j >= k
  /\ k >= t.c => j >= s.c

\* t goes on with the packet that s is about to send.
SameCurrent(t, s) == HasCurrent(s) /\ HasCurrent(t) /\ Current(t) = Current(s)

LEMMA RemovedElements ==
  ASSUME NEW S, NEW o \in Box(S), NEW r \in 1 .. Len(o.q)
  PROVE  LET t == RemoveItem(o, r)
         IN  /\ t \in Box(S)
             /\ \A k \in 1 .. Len(t.q) : \E j : From(t, k, o, j) /\ j # r
             /\ o.c = 1 => t.c = 1
             /\ HasCurrent(o) /\ r # o.c => SameCurrent(t, o)
<1> DEFINE t == RemoveItem(o, r)
<1>0. /\ t \in Box(S) /\ Len(t.q) = Len(o.q) - 1
      /\ \A k \in 1 .. r - 1 : t.q[k] = o.q[k]
      /\ \A k \in r .. Len(o.q) - 1 : t.q[k] = o.q[k + 1]
  BY RemoveItemBox
<1>1. t.c = IF r < o.c THEN o.c - 1 ELSE o.c
  BY DEF RemoveItem
<1>2. Len(o.q) \in Nat /\ o.c \in Nat \ {0} /\ o.c <= Len(o.q) + 1
  BY DEF Box
<1> HIDE DEF t
<1>3. ASSUME NEW k \in 1 .. Len(t.q) PROVE \E j : From(t, k, o, j) /\ j # r
  <2>1. CASE k < r
    <3>1. t.q[k] = o.q[k] /\ k \in 1 .. Len(o.q) /\ (k >= t.c => k >= o.c) /\ k # r
      BY <1>0, <1>1, <1>2, <2>1
    <3> QED BY <3>1 DEF From
  <2>2. CASE k >= r
    <3>1. /\ t.q[k] = o.q[k + 1] /\ k + 1 \in 1 .. Len(o.q) /\ (k >= t.c => k + 1 >= o.c)
          /\ k + 1 # r /\ k + 1 >= k
      BY <1>0, <1>1, <1>2, <2>2
    <3> QED BY <3>1 DEF From
  <2> QED BY <1>2, <2>1, <2>2
<1>4. o.c = 1 => t.c = 1
  BY <1>1, <1>2
<1>5. ASSUME HasCurrent(o), r # o.c PROVE SameCurrent(t, o)
  <2>1. o.c \in 1 .. Len(o.q)
    BY <1>2, <1>5 DEF HasCurrent
  <2>2. t.c \in 1 .. Len(t.q) /\ t.q[t.c] = o.q[o.c]
    BY <1>0, <1>1, <1>2, <1>5, <2>1
  <2> QED BY <1>5, <2>2 DEF SameCurrent, HasCurrent, Current
<1> QED BY <1>0, <1>3, <1>4, <1>5 DEF t

LEMMA EmplacedElements ==
  ASSUME NEW S, NEW o \in Box(S), NEW x \in S
  PROVE  LET t == Emplace(o, x)
         IN  /\ t \in Box(S) /\ Len(t.q) = Len(o.q) + 1 /\ t.c = o.c
             /\ \A k \in 1 .. Len(t.q) : From(t, k, o, k) \/ t.q[k] = x
             /\ \A k \in 1 .. Len(o.q) : t.q[k] = o.q[k]
             /\ HasCurrent(o) => SameCurrent(t, o)
<1> DEFINE t == Emplace(o, x)
<1>1. t \in Box(S) /\ t.q = Append(o.q, x) /\ t.c = o.c
  BY EmplaceBox
<1>2. o.q \in Seq(S) /\ Len(o.q) \in Nat /\ o.c \in Nat \ {0}
  BY DEF Box
<1> HIDE DEF t
<1>3. Len(t.q) = Len(o.q) + 1 /\ t.q[Len(o.q) + 1] = x /\ \A k \in 1 .. Len(o.q) : t.q[k] = o.q[k]
  BY <1>1, <1>2, AppendElements
<1>4. ASSUME NEW k \in 1 .. Len(t.q) PROVE From(t, k, o, k) \/ t.q[k] = x
  <2>1. k \in 1 .. Len(o.q) \/ k = Len(o.q) + 1
    BY <1>2, <1>3
  <2>2. k \in 1 .. Len(o.q) => From(t, k, o, k)
    BY <1>1, <1>3 DEF From
  <2> QED BY <1>3, <2>1, <2>2
<1>5. HasCurrent(o) => SameCurrent(t, o)
  <2> SUFFICES ASSUME HasCurrent(o) PROVE SameCurrent(t, o)
    OBVIOUS
  <2>1. o.c \in 1 .. Len(o.q)
    BY <1>2 DEF HasCurrent
  <2>2. t.c <= Len(t.q) /\ t.q[t.c] = o.q[o.c]
    BY <1>1, <1>2, <1>3, <2>1
  <2> QED BY <2>2 DEF SameCurrent, HasCurrent, Current
<1> QED BY <1>1, <1>3, <1>4, <1>5 DEF t

LEMMA EditElements ==
  ASSUME TypeInv, Edits
  PROVE  /\ \A k \in 1 .. Len(outbox'.q) :
              (\E j : From(outbox', k, outbox, j)) \/ Appends(outbox'.q[k])
         /\ outbox.c = 1 => outbox'.c = 1
         /\ HasCurrent(outbox) => \/ SameCurrent(outbox', outbox)
                                  \/ Current(outbox).id # 0 /\ (Current(outbox).type = "PUBLISH" =>
                                       Has(Coming, Acks, Current(outbox).id))
<1> DEFINE Source(t, k) == (\E j : From(t, k, outbox, j)) \/ Appends(t.q[k])
<1>0. outbox \in Box(ClientPacket)
  BY Sequences
<1>1. PICK o : /\ o = outbox \/ \E x : Appends(x) /\ o = Emplace(outbox, x)
               /\ \/ outbox' = o
                  \/ \E k \in 1 .. Len(outbox.q) :
                       /\ outbox.q[k].id # 0
                       /\ outbox.q[k].type = "PUBLISH" => Has(Coming, Acks, outbox.q[k].id)
                       /\ outbox' = RemoveItem(o, k)
  BY DEF Edits
<1>2. /\ o \in Box(ClientPacket) /\ o.c = outbox.c /\ Len(o.q) >= Len(outbox.q)
      /\ HasCurrent(outbox) => SameCurrent(o, outbox)
      /\ \A k \in 1 .. Len(outbox.q) : o.q[k] = outbox.q[k]
      /\ \A k \in 1 .. Len(o.q) : Source(o, k)
  <2>1. CASE o = outbox
    <3>1. \A k \in 1 .. Len(outbox.q) : From(outbox, k, outbox, k)
      BY <1>0 DEF From, Box
    <3> QED BY <1>0, <2>1, <3>1 DEF SameCurrent, Box
  <2>2. CASE \E x : Appends(x) /\ o = Emplace(outbox, x)
    <3>1. PICK x : Appends(x) /\ o = Emplace(outbox, x)
      BY <2>2
    <3>2. x \in ClientPacket
      BY <3>1 DEF Appends
    <3>3. /\ o \in Box(ClientPacket) /\ Len(o.q) = Len(outbox.q) + 1 /\ o.c = outbox.c
          /\ \A k \in 1 .. Len(o.q) : From(o, k, outbox, k) \/ o.q[k] = x
          /\ \A k \in 1 .. Len(outbox.q) : o.q[k] = outbox.q[k]
          /\ HasCurrent(outbox) => SameCurrent(o, outbox)
      BY <1>0, <3>1, <3>2, EmplacedElements
    <3>4. Len(outbox.q) \in Nat
      BY <1>0 DEF Box
    <3>5. Len(o.q) >= Len(outbox.q)
      BY <3>3, <3>4
    <3> QED BY <3>1, <3>3, <3>5
  <2> QED BY <1>1, <2>1, <2>2
<1>3. CASE outbox' = o
  BY <1>2, <1>3
<1>4. CASE outbox' # o
  <2>1. PICK r \in 1 .. Len(outbox.q) :
          /\ outbox.q[r].id # 0
          /\ outbox.q[r].type = "PUBLISH" => Has(Coming, Acks, outbox.q[r].id)
          /\ outbox' = RemoveItem(o, r)
    BY <1>1, <1>4
  <2>2. r \in 1 .. Len(o.q)
    BY <1>0, <1>2 DEF Box
  <2>3. /\ \A k \in 1 .. Len(outbox'.q) : \E j : From(outbox', k, o, j) /\ j # r
        /\ o.c = 1 => outbox'.c = 1
        /\ HasCurrent(o) /\ r # o.c => SameCurrent(outbox', o)
        /\ outbox' \in Box(ClientPacket)
    BY <1>2, <2>1, <2>2, RemovedElements
  <2>4. ASSUME NEW k \in 1 .. Len(outbox'.q) PROVE Source(outbox', k)
    <3>1. PICK j : From(outbox', k, o, j)
      BY <2>3
    <3>2. j \in 1 .. Len(o.q) /\ outbox'.q[k] = o.q[j] /\ j >= k /\ (k >= outbox'.c => j >= o.c)
      BY <3>1 DEF From
    <3>3. CASE Appends(o.q[j])
      BY <3>2, <3>3
    <3>4. CASE \E i : From(o, j, outbox, i)
      <4>1. PICK i : i \in 1 .. Len(outbox.q) /\ o.q[j] = outbox.q[i] /\ i >= j /\ (j >= o.c => i >= outbox.c)
        BY <3>4 DEF From
      <4>2. i >= k /\ (k >= outbox'.c => i >= outbox.c)
        BY <3>2, <4>1, <1>0 DEF Box
      <4> QED BY <3>2, <4>1, <4>2 DEF From
    <3> QED BY <1>2, <3>2, <3>3, <3>4
  <2>5. ASSUME HasCurrent(outbox)
        PROVE  \/ SameCurrent(outbox', outbox)
               \/ Current(outbox).id # 0 /\ (Current(outbox).type = "PUBLISH" =>
                                       Has(Coming, Acks, Current(outbox).id))
    <3>1. SameCurrent(o, outbox)
      BY <1>2, <2>5
    <3>2. r = outbox.c => Current(outbox) = outbox.q[r]
      BY DEF Current
    <3>3. r # outbox.c => SameCurrent(outbox', outbox)
      BY <1>2, <2>3, <3>1 DEF SameCurrent
    <3> QED BY <2>1, <3>2, <3>3
  <2> QED BY <1>2, <2>3, <2>4, <2>5
<1> QED BY <1>3, <1>4

-----------------------------------------------------------------------------
(* CONNECT waits first in the outbox, calls beside the loop or not *)

\* All calls are made by one thread.
OneThread == \A t, u \in Thread : t = u

HasConnect == ~Without(outbox.q, "CONNECT")

\* loop() has a CONNECT to deal with.
Trying ==
  \/ state \in Opening \/ lpc \in {"tcp1", "tcp2"}
  \/ lpc \in {"check", "lost", "send"} /\ branch = "mqtt"

\* CONNECT may be in the outbox: only the branches that connect look at it.
MayTry ==
  /\ state \in Opening \cup Teardown /\ lpc # "bye"
  /\ lpc \in {"check", "lost", "send"} => branch = "mqtt"

Dials ==
  /\ state = "disconnected" =>
       tcp # "open" /\ lpc \in {"idle", "cbDisconnect"} /\ bytesSent = 0
  /\ state = "connectingTcp1" => lpc \in {"idle", "cbDisconnect", "tcp1"}
  /\ state = "connectingTcp1" \/ lpc = "tcp1" => bytesSent = 0
  /\ lpc = "bye" => branch = "full"
  /\ \A t \in Thread : /\ apc[t] = "connect" => state = "disconnected"
                       /\ apc[t] = "disconnect" => ~HasConnect
  /\ Trying => HasConnect
  /\ HasConnect => ConnectLeads /\ MayTry

\* CONNECT was not sent as a whole on the connection at hand.
OnLine ==
  \/ state \in {"connectingTcp2", "connectingMqtt"}
  \/ lpc \in {"tcp2", "check", "lost", "send", "read", "parse", "ping", "timeout", "cb", "cbConnect"}
Mute == HasConnect /\ OnLine /\ bytesSent # PubSize => Silent

\* Without a CONNECT in the outbox, it was answered.
Heard == tcp = "open" /\ ~HasConnect => ConnackTaken

LEMMA EditsLead ==
  ASSUME TypeInv, TypeInv', Edits, HasConnect => ConnectLeads
  PROVE  HasConnect' = HasConnect /\ (HasConnect' => ConnectLeads')
<1>0. outbox.q \in Seq(ClientPacket) /\ outbox'.q \in Seq(ClientPacket)
  BY Sequences DEF TypeInv, OutboxTyped, Box
<1>1. ASSUME HasConnect'
      PROVE  HasConnect
  <2>1. PICK k \in 1 .. Len(outbox'.q) : outbox'.q[k].type = "CONNECT"
    BY <1>1 DEF HasConnect, Without
  <2>2. \E j : From(outbox', k, outbox, j)
    BY <2>1, EditElements DEF Appends
  <2> QED BY <2>1, <2>2 DEF From, HasConnect, Without
<1>2. ASSUME HasConnect
      PROVE  HasConnect' /\ ConnectLeads'
  <2>1. /\ outbox.q # <<>> /\ outbox.c = 1 /\ outbox.q[1].type = "CONNECT"
        /\ \A k \in 2 .. Len(outbox.q) : outbox.q[k].type # "CONNECT"
    BY <1>2 DEF ConnectLeads
  <2>2. 1 \in 1 .. Len(outbox.q)
    BY <1>0, <2>1
  <2>3. HasCurrent(outbox) /\ Current(outbox) = outbox.q[1] /\ outbox.q[1] \in ClientPacket
    BY <1>0, <2>1, <2>2 DEF HasCurrent, Current
  <2>4. Current(outbox).id = 0
    BY <2>1, <2>3 DEF ClientPacket
  <2>5. SameCurrent(outbox', outbox) /\ outbox'.c = 1
    BY <2>1, <2>3, <2>4, EditElements
  <2>6. outbox'.q[1].type = "CONNECT" /\ 1 <= Len(outbox'.q)
    BY <2>1, <2>3, <2>5 DEF SameCurrent, HasCurrent, Current
  <2>7. ASSUME NEW k \in 2 .. Len(outbox'.q) PROVE outbox'.q[k].type # "CONNECT"
    <3>0. k \in 1 .. Len(outbox'.q)
      BY <1>0
    <3>1. (\E j : From(outbox', k, outbox, j)) \/ Appends(outbox'.q[k])
      BY <3>0, EditElements
    <3>2. ASSUME NEW j, From(outbox', k, outbox, j) PROVE outbox'.q[k].type # "CONNECT"
      <4>1. j \in 1 .. Len(outbox.q) /\ outbox'.q[k] = outbox.q[j] /\ j >= k
        BY <3>2 DEF From
      <4>2. j \in 2 .. Len(outbox.q)
        BY <4>1
      <4> QED BY <2>1, <4>1, <4>2
    <3> QED BY <3>1, <3>2 DEF Appends
  <2>8. outbox'.q # <<>> /\ 1 \in 1 .. Len(outbox'.q)
    BY <1>0, <2>6
  <2> QED BY <2>5, <2>6, <2>7, <2>8 DEF HasConnect, Without, ConnectLeads
<1>3. HasConnect \in BOOLEAN /\ HasConnect' \in BOOLEAN
  BY DEF HasConnect, Without
<1> QED BY <1>1, <1>2, <1>3

LEMMA ResetLeads ==
  ASSUME outbox' = ResetCurrent(outbox), TypeInv, HasConnect => ConnectLeads
  PROVE  HasConnect' = HasConnect /\ (HasConnect' => ConnectLeads')
<1>1. outbox'.q = outbox.q /\ outbox'.c = 1
  <2>1. outbox \in Box(ClientPacket)
    BY Sequences
  <2> QED BY <2>1, ResetBox DEF ResetCurrent, Box
<1> QED BY <1>1 DEF HasConnect, ConnectLeads, Without

LEMMA ClearedWithout ==
  ASSUME NEW s, NEW t, Within(t, s), Without(s, "CONNECT")
  PROVE  Without(t, "CONNECT")
<1>1. AddsOnly(t, s, {})
  BY WithinAdds
<1> QED BY <1>1, WithinWithout

\* CONNACK is handled when CONNECT is sent as a whole, and takes it from the outbox.
LEMMA ConnackTakesConnect ==
  ASSUME TypeInv, HasConnect => ConnectLeads, Mute, OnConnack
  PROVE  ~HasConnect'
<1>0. outbox \in Box(ClientPacket) /\ outbox.q \in Seq(ClientPacket) /\ Len(outbox.q) \in Nat
  BY Sequences
<1> DEFINE o == Advanced(outbox, bytesSent)
<1>1. outbox' = o \/ outbox' = ClearQueue(o, 1)
  BY DEF OnConnack
<1>2. o \in Box(ClientPacket) /\ Within(o.q, outbox.q)
  BY <1>0, AdvancedBox
<1>3. Without(o.q, "CONNECT")
  <2>1. CASE ~HasConnect
    BY <1>2, <2>1, ClearedWithout DEF HasConnect
  <2>2. CASE HasConnect
    <3>1. /\ outbox.q # <<>> /\ outbox.c = 1 /\ outbox.q[1].type = "CONNECT"
          /\ \A k \in 2 .. Len(outbox.q) : outbox.q[k].type # "CONNECT"
      BY <2>2 DEF ConnectLeads
    <3>2. 1 \in 1 .. Len(outbox.q) /\ HasCurrent(outbox) /\ Current(outbox) = outbox.q[1]
      BY <1>0, <3>1 DEF HasCurrent, Current
    <3>3. lpc = "parse" /\ Coming # <<>>
      BY HeadIsFirst DEF OnConnack, Incoming, At
    <3>4. bytesSent = PubSize
      BY <2>2, <3>3 DEF Mute, OnLine, Silent
    <3>5. FullySent(outbox, bytesSent)
      BY <3>1, <3>2, <3>4 DEF FullySent, Size
    <3>6. Removable(Current(outbox))
      <4>1. outbox.q[1] \in ClientPacket
        BY <1>0, <3>2
      <4>2. Current(outbox).id = 0
        BY <3>1, <3>2, <4>1 DEF ClientPacket
      <4> QED BY <4>2 DEF Removable
    <3>7. o = RemoveItem(outbox, 1)
      BY <3>1, <3>2, <3>5, <3>6 DEF Advanced, RemoveCurrent
    <3>8. ASSUME NEW k \in 1 .. Len(o.q) PROVE o.q[k].type # "CONNECT"
      <4>1. \E j : From(o, k, outbox, j) /\ j # 1
        BY <1>0, <3>2, <3>7, RemovedElements
      <4>2. PICK j : j \in 1 .. Len(outbox.q) /\ o.q[k] = outbox.q[j] /\ j # 1
        BY <4>1 DEF From
      <4>3. j \in 2 .. Len(outbox.q)
        BY <1>0, <4>2
      <4> QED BY <3>1, <4>2, <4>3
    <3> QED BY <3>8 DEF Without
  <2> QED BY <2>1, <2>2
<1> HIDE DEF o
<1>4. Without(ClearQueue(o, 1).q, "CONNECT")
  BY <1>2, <1>3, ClearQueueBox, ClearedWithout
<1> QED BY <1>1, <1>3, <1>4 DEF HasConnect

LEMMA ConnectLeadsFirst ==
  ASSUME TypeInv, ~HasConnect, outbox' = EmplaceFront(outbox, Ctl("CONNECT", 0))
  PROVE  HasConnect' /\ ConnectLeads'
<1> DEFINE x == Ctl("CONNECT", 0)
<1>0. outbox.q \in Seq(ClientPacket) /\ outbox \in Box(ClientPacket) /\ Len(outbox.q) \in Nat
  BY Sequences
<1>1. x \in ClientPacket /\ x.type = "CONNECT"
  BY CtlTyped DEF Ctl
<1> HIDE DEF x
<1>2. outbox'.q = <<x>> \o outbox.q /\ outbox'.c = 1
  BY <1>0, <1>1, EmplaceFrontBox DEF x
<1>3. /\ Len(outbox'.q) = Len(outbox.q) + 1 /\ outbox'.q[1] = x
      /\ \A k \in 2 .. Len(outbox'.q) : outbox'.q[k] = outbox.q[k - 1] /\ k - 1 \in 1 .. Len(outbox.q)
  BY <1>0, <1>1, <1>2
<1>4. outbox'.q # <<>> /\ 1 \in 1 .. Len(outbox'.q)
  BY <1>0, <1>2, <1>3
<1>5. \A k \in 2 .. Len(outbox'.q) : outbox'.q[k].type # "CONNECT"
  BY <1>3 DEF HasConnect, Without
<1> QED BY <1>1, <1>2, <1>3, <1>4, <1>5 DEF HasConnect, ConnectLeads, Without

\* clearQueue(0) at the end of a connection takes CONNECT from the outbox.
LEMMA EndTakesConnect ==
  ASSUME TypeInv, Disconnected
  PROVE  ~HasConnect'
<1>1. outbox' = ClearQueue(outbox, 0) /\ outbox \in Box(ClientPacket)
  BY Sequences DEF Disconnected
<1>2. \A k \in 1 .. Len(outbox'.q) : Kept(0, outbox'.q[k])
  BY <1>1, ClearQueueBox
<1>3. \A p : Kept(0, p) => p.type # "CONNECT"
  BY DEF Kept
<1> QED BY <1>2, <1>3 DEF HasConnect, Without

\* A step that is no part of a call keeps what the calls know.
LEMMA LoopKeepsCalls == ASSUME LoopNext PROVE UNCHANGED apc
<1>1. CASE Dispatch \/ Connecting \/ Disconnecting \/ Sending \/ Callbacks \/ Timers
  BY <1>1 DEF Dispatch, Connecting, TcpConnectFails, TcpConnected, CheckTransport, TransportLost,
     Disconnecting, SayGoodbye, StopTransport, Disconnected, Sending, SendPacket, SendFails,
     NothingToSend, Callbacks, CallbackReturns, ConnectCallbackReturns, DisconnectCallbackReturns,
     Timers, CheckPing, Retransmit, NoRetransmit, app
<1>2. CASE Receiving
  BY <1>2 DEF Receiving, Read, ExpectedConnack, ProtocolError, OnConnack, OnConnackRefused,
     OnPublish, OnPuback, OnPubrec, OnPubrel, OnPubcomp, OnSuback, OnUnsuback, OnPingresp,
     Finish, Reply, Settle, Notify, app
<1> QED BY <1>1, <1>2 DEF LoopNext

LEMMA CallsDial ==
  ASSUME OneThread, TypeInv, TypeInv', Dials, AppNext,
         HasConnect => \A t \in Thread : ~ClearQueueCall(t)
  PROVE  Dials'
<1> PICK t \in Thread : (\E call \in Calls : Call(t, call)) \/ Act(t)
  BY DEF AppNext
<1>0. HasConnect => ConnectLeads
  BY DEF Dials
<1>1. CASE \E call \in Calls : Call(t, call)
  <2>1. PICK call \in Calls : Call(t, call)
    BY <1>1
  <2>2. /\ UNCHANGED <<state, outbox, bytesSent, lpc, branch, tcp>>
        /\ apc \in [Thread -> Calls \cup {None}] /\ apc' = [apc EXCEPT ![t] = call] /\ Accepts(call)
    BY <2>1 DEF Call, client, control, net, TypeInv, ControlTyped
  <2>3. call = "connect" => state = "disconnected"
    BY <2>2 DEF Accepts
  <2>4. call = "disconnect" => ~HasConnect
    <3>1. call = "disconnect" => state = "connected"
      BY <2>2 DEF Accepts
    <3> QED BY <3>1 DEF Dials, MayTry, Opening, Teardown
  <2>5. HasConnect' = HasConnect /\ ConnectLeads' = ConnectLeads
    BY <2>2 DEF HasConnect, ConnectLeads, Without
  <2>6. \A u \in Thread : apc'[u] = IF u = t THEN call ELSE apc[u]
    BY <2>2
  <2> QED BY <2>2, <2>3, <2>4, <2>5, <2>6 DEF Dials, Trying, MayTry
<1>2. ASSUME NEW call \in Calls, Return(t, call)
      PROVE  \A u \in Thread : apc'[u] \notin {"connect", "disconnect"} /\ apc[u] = call
  <2>1. \A u \in Thread : u = t
    BY DEF OneThread
  <2>2. apc'[t] = None /\ apc[t] = call
    BY <1>2 DEF Return, TypeInv, ControlTyped
  <2>3. None \notin {"connect", "disconnect"}
    BY NoneAssumption DEF Calls
  <2> QED BY <2>1, <2>2, <2>3
<1>3. CASE Connect(t)
  <2>0. Return(t, "connect") /\ UNCHANGED <<bytesSent, lpc, branch, tcp>>
    BY <1>3 DEF Connect, control, net
  <2>1. \A u \in Thread : apc'[u] \notin {"connect", "disconnect"} /\ apc[u] = "connect"
    BY <1>2, <2>0 DEF Calls
  <2>2. state = "disconnected"
    BY <2>1 DEF Dials
  <2>3. ~HasConnect
    BY <2>2 DEF Dials, MayTry, Opening, Teardown
  <2>4. CASE outbox' = EmplaceFront(outbox, Ctl("CONNECT", 0)) /\ state' = "connectingTcp1"
    <3>1. HasConnect' /\ ConnectLeads'
      BY <2>3, <2>4, ConnectLeadsFirst
    <3> QED BY <2>0, <2>1, <2>2, <2>4, <3>1 DEF Dials, Trying, MayTry, Opening
  <2>5. CASE outbox' \in AddPacketFrontFails(outbox) /\ UNCHANGED state
    <3>1. outbox' = outbox \/ outbox' = ResetCurrent(outbox)
      BY <2>5 DEF AddPacketFrontFails
    <3>2. HasConnect' = HasConnect
      BY <1>0, <3>1, SameEdits, EditsLead, ResetLeads
    <3> QED BY <2>0, <2>1, <2>2, <2>3, <2>5, <3>2 DEF Dials, Trying, MayTry, Opening
  <2> QED BY <1>3, <2>4, <2>5 DEF Connect
<1>4. CASE Disconnect(t)
  <2>0. UNCHANGED <<outbox, bytesSent, lpc, branch, tcp>>
    BY <1>4 DEF Disconnect, control, net
  <2>1. HasConnect' = HasConnect /\ ConnectLeads' = ConnectLeads
    BY <2>0 DEF HasConnect, ConnectLeads, Without
  <2>2. CASE Return(t, "disconnect") /\ state' = "disconnectingMqtt1"
    <3>1. \A u \in Thread : apc'[u] \notin {"connect", "disconnect"} /\ apc[u] = "disconnect"
      BY <1>2, <2>2 DEF Calls
    <3>2. ~HasConnect
      BY <3>1 DEF Dials
    <3> QED BY <2>0, <2>1, <2>2, <3>1, <3>2 DEF Dials, Trying, MayTry, Opening
  <2>3. CASE Return(t, "force") /\ state' = "disconnectingTcp1"
    <3>1. \A u \in Thread : apc'[u] \notin {"connect", "disconnect"}
      BY <1>2, <2>3 DEF Calls
    <3> QED BY <2>0, <2>1, <2>3, <3>1 DEF Dials, Trying, MayTry, Opening, Teardown
  <2> QED BY <1>4, <2>2, <2>3 DEF Disconnect
<1>5. ASSUME NEW call \in Calls, Return(t, call), UNCHANGED <<state, bytesSent, lpc, branch, tcp>>,
             HasConnect' = HasConnect, HasConnect' => ConnectLeads'
      PROVE  Dials'
  <2>1. \A u \in Thread : apc'[u] \notin {"connect", "disconnect"}
    BY <1>2, <1>5
  <2> QED BY <1>5, <2>1 DEF Dials, Trying, MayTry
<1>6. CASE Publish(t) \/ Subscribe(t) \/ Unsubscribe(t)
  <2>1. Edits
    BY <1>6, RequestsEdit, AppendEdits
  <2>2. HasConnect' = HasConnect /\ (HasConnect' => ConnectLeads')
    BY <1>0, <2>1, EditsLead
  <2>3. /\ UNCHANGED <<state, bytesSent, lpc, branch, tcp>>
        /\ \E call \in Calls : Return(t, call)
    BY <1>6 DEF Publish, Subscribe, Unsubscribe, Request, control, net, Calls
  <2> QED BY <1>5, <2>2, <2>3
<1>7. CASE ClearQueueCall(t)
  <2>1. ~HasConnect
    BY <1>7
  <2>2. outbox' = ClearQueue(outbox, 0) \/ outbox' = ClearQueue(outbox, 2)
    BY <1>7 DEF ClearQueueCall
  <2>3. ~HasConnect'
    BY <2>1, <2>2, Sequences, ClearQueueBox, ClearedWithout DEF HasConnect
  <2>4. /\ UNCHANGED <<state, bytesSent, lpc, branch, tcp>>
        /\ \E call \in Calls : Return(t, call)
    BY <1>7 DEF ClearQueueCall, control, net, Calls
  <2>5. HasConnect' = HasConnect
    BY <2>1, <2>3 DEF HasConnect, Without
  <2> QED BY <1>5, <2>3, <2>4, <2>5
<1> QED BY <1>1, <1>3, <1>4, <1>6, <1>7 DEF Act

\* What loop() does to CONNECT.
LEMMA LoopLeads ==
  ASSUME TypeInv, TypeInv', Dials, Mute, [Next]_vars, LoopNext
  PROVE  \/ HasConnect' = HasConnect /\ (HasConnect' => ConnectLeads')
         \/ (Disconnected \/ OnConnack) /\ ~HasConnect'
<1>0. HasConnect => ConnectLeads
  BY DEF Dials
<1>1. CASE Disconnected
  BY <1>1, EndTakesConnect
<1>2. CASE OnConnack
  BY <1>0, <1>2, ConnackTakesConnect
<1>3. CASE Retransmit
  BY <1>0, <1>3, ResetLeads DEF Retransmit
<1>4. CASE SendPacket
  <2>1. CASE outbox' = outbox
    BY <1>0, <2>1, SameEdits, EditsLead
  <2>2. CASE outbox' # outbox
    <3>1. PICK n : outbox' = Advanced(outbox, n) /\ branch # "mqtt"
      BY <1>4, <2>2 DEF SendPacket
    <3>2. ~HasConnect
      BY <1>4, <3>1 DEF SendPacket, At, Dials, MayTry
    <3>3. ~HasConnect'
      BY <3>1, <3>2, Sequences, AdvancedBox, ClearedWithout DEF HasConnect
    <3>4. HasConnect' = HasConnect
      BY <3>2, <3>3 DEF HasConnect, Without
    <3> QED BY <3>3, <3>4
  <2> QED BY <2>1, <2>2
<1>5. CASE ~Disconnected /\ ~OnConnack /\ ~Retransmit /\ ~SendPacket
  <2>1. CASE \A t \in Thread : ~Connect(t) /\ ~ClearQueueCall(t)
    BY <1>0, <1>5, <2>1, OutboxEdits, EditsLead
  <2>2. CASE \E t \in Thread : Connect(t) \/ ClearQueueCall(t)
    <3>1. PICK t \in Thread, call \in Calls : Return(t, call)
      BY <2>2 DEF Connect, ClearQueueCall, Calls
    <3>2. apc[t] = call /\ apc'[t] = None
      BY <3>1 DEF Return, TypeInv, ControlTyped
    <3>3. apc' = apc
      BY LoopKeepsCalls
    <3> QED BY <3>2, <3>3, NoneAssumption
  <2> QED BY <2>1, <2>2
<1> QED BY <1>1, <1>2, <1>3, <1>4, <1>5

LEMMA LoopDials ==
  ASSUME TypeInv, TypeInv', Dials, Mute, [Next]_vars, ClientStep, LoopNext
  PROVE  Dials'
<1>1. /\ \/ HasConnect' = HasConnect /\ (HasConnect' => ConnectLeads')
         \/ (Disconnected \/ OnConnack) /\ ~HasConnect'
      /\ UNCHANGED apc
  BY LoopLeads, LoopKeepsCalls
<1>2. \/ UNCHANGED bytesSent
      \/ Disconnected /\ bytesSent' = 0
      \/ OnConnack
      \/ lpc = "send"
  BY SentMoves
<1>3. tcp' = "open" => tcp = "open"
  BY ClientOpensNone
<1>4. Disconnected => lpc = "stopped" /\ tcp' # "open" /\ bytesSent' = 0
  BY DEF Disconnected, At, TransportConnected, net
<1>5. OnConnack => lpc = "parse"
  BY DEF OnConnack, Incoming, At
<1>6. \A t \in Thread : apc'[t] = apc[t]
  BY <1>1
<1>7. state' = "disconnected" =>
        tcp' # "open" /\ lpc' \in {"idle", "cbDisconnect"} /\ bytesSent' = 0
  BY <1>2, <1>3, <1>4, <1>5, LoopMoves DEF Dials
<1>8. /\ state' = "connectingTcp1" => lpc' \in {"idle", "cbDisconnect", "tcp1"}
      /\ state' = "connectingTcp1" \/ lpc' = "tcp1" => bytesSent' = 0
      /\ lpc' = "bye" => branch' = "full"
  BY <1>2, <1>4, <1>5, LoopMoves DEF Dials
<1>9. \A t \in Thread : /\ apc'[t] = "connect" => state' = "disconnected"
                        /\ apc'[t] = "disconnect" => ~HasConnect'
  <2>1. state = "disconnected" => state' = "disconnected"
    BY LoopMoves DEF Dials
  <2>2. ~HasConnect => ~HasConnect'
    BY <1>1
  <2> QED BY <1>6, <2>1, <2>2 DEF Dials
<1>10. HasConnect' = HasConnect \/ ((Disconnected \/ OnConnack) /\ ~HasConnect')
  BY <1>1
<1>11. HasConnect' => ConnectLeads'
  BY <1>1
<1>12. Trying' => Trying /\ ~Disconnected /\ ~OnConnack
  <2>1. lpc = "bye" => branch = "full"
    BY DEF Dials
  <2>2. ASSUME Disconnected \/ OnConnack PROVE ~Trying'
    BY <1>4, <1>5, <2>2, LoopMoves DEF Trying, Opening
  <2>3. ASSUME lpc = "idle", Trying' PROVE Trying
    BY <2>3, LoopMoves DEF Trying, Opening
  <2>4. ASSUME lpc # "idle", Trying' PROVE Trying
    BY <2>1, <2>4, LoopMoves DEF Trying, Opening
  <2> QED BY <2>2, <2>3, <2>4
<1>13. HasConnect' => MayTry'
  <2>1. HasConnect => ConnectLeads
    BY DEF Dials
  <2>2. ~HasConnect' \/ (~Disconnected /\ ~OnConnack /\ HasConnect)
    BY <1>1, <2>1, EndTakesConnect, ConnackTakesConnect DEF HasConnect, Without
  <2>3. HasConnect => MayTry
    BY DEF Dials
  <2>4. ASSUME lpc = "idle", MayTry, ~Disconnected, ~OnConnack PROVE MayTry'
    BY <2>4, LoopMoves DEF MayTry, Opening, Teardown
  <2>5. ASSUME lpc # "idle", MayTry, ~Disconnected, ~OnConnack PROVE MayTry'
    BY <2>5, LoopMoves DEF MayTry, Opening, Teardown
  <2> QED BY <2>2, <2>3, <2>4, <2>5
<1>14. Trying' => HasConnect'
  BY <1>10, <1>12 DEF Dials, HasConnect, Without
<1> QED BY <1>7, <1>8, <1>9, <1>11, <1>13, <1>14 DEF Dials

\* What a call does to CONNECT.
LEMMA CallsLead ==
  ASSUME TypeInv, TypeInv', Dials, AppNext,
         HasConnect => \A t \in Thread : ~ClearQueueCall(t)
  PROVE  \/ HasConnect' = HasConnect
         \/ ~HasConnect /\ state = "disconnected" /\ state' = "connectingTcp1" /\ UNCHANGED lpc
<1> PICK t \in Thread : (\E call \in Calls : Call(t, call)) \/ Act(t)
  BY DEF AppNext
<1>0. HasConnect => ConnectLeads
  BY DEF Dials
<1>1. CASE (\E call \in Calls : Call(t, call)) \/ Disconnect(t)
  <2>1. outbox' = outbox
    BY <1>1 DEF Call, Disconnect, client
  <2> QED BY <2>1 DEF HasConnect, Without
<1>2. CASE Connect(t)
  <2>1. state = "disconnected"
    <3>1. apc[t] = "connect"
      BY <1>2 DEF Connect, Return
    <3> QED BY <3>1 DEF Dials
  <2>2. ~HasConnect
    BY <2>1 DEF Dials, MayTry, Opening, Teardown
  <2>3. CASE state' = "connectingTcp1"
    BY <1>2, <2>1, <2>2, <2>3 DEF Connect, control
  <2>4. CASE outbox' \in AddPacketFrontFails(outbox)
    <3>1. outbox' = outbox \/ outbox' = ResetCurrent(outbox)
      BY <2>4 DEF AddPacketFrontFails
    <3> QED BY <1>0, <3>1, SameEdits, EditsLead, ResetLeads
  <2> QED BY <1>2, <2>3, <2>4 DEF Connect
<1>3. CASE Publish(t) \/ Subscribe(t) \/ Unsubscribe(t)
  BY <1>0, <1>3, RequestsEdit, AppendEdits, EditsLead
<1>4. CASE ClearQueueCall(t)
  <2>1. ~HasConnect
    BY <1>4
  <2>2. outbox' = ClearQueue(outbox, 0) \/ outbox' = ClearQueue(outbox, 2)
    BY <1>4 DEF ClearQueueCall
  <2>3. ~HasConnect'
    BY <2>1, <2>2, Sequences, ClearQueueBox, ClearedWithout DEF HasConnect
  <2> QED BY <2>1, <2>3 DEF HasConnect, Without
<1> QED BY <1>1, <1>2, <1>3, <1>4 DEF Act

\* Steps of the broker and the network, and the connect of the transport.
LEMMA OtherDials ==
  ASSUME TypeInv, TypeInv', Dials, [Next]_vars, ~(ClientStep /\ (LoopNext \/ AppNext))
  PROVE  Dials' /\ HasConnect' = HasConnect /\ UNCHANGED <<outbox, bytesSent>>
<1>1. UNCHANGED <<outbox, bytesSent, branch, apc>>
  BY DEF Next, ClientStep, TimePasses, ConnectStep, TcpConnect, BrokerStep, LossStep, vars,
         clientVars, client, control, app
<1>2. HasConnect' = HasConnect /\ ConnectLeads' = ConnectLeads
  BY <1>1 DEF HasConnect, ConnectLeads, Without
<1>3. CASE ConnectStep
  <2>1. lpc = "tcp1" /\ lpc' = "tcp2" /\ state' = "connectingTcp2"
    BY <1>3 DEF ConnectStep, TcpConnect, At, Goto
  <2>2. HasConnect /\ state # "disconnected" /\ bytesSent = 0 /\ ConnectLeads
    BY <2>1 DEF Dials, Trying
  <2> QED BY <1>1, <1>2, <2>1, <2>2 DEF Dials, Trying, MayTry, Opening
<1>4. CASE ~ConnectStep
  <2>1. UNCHANGED <<state, lpc, branch>>
    BY <1>4, OutsideMoves
  <2>2. tcp' = "open" => tcp = "open"
    BY <1>4, ConnMoves
  <2>3. Trying' = Trying /\ MayTry' = MayTry
    BY <2>1 DEF Trying, MayTry
  <2> QED BY <1>1, <1>2, <2>1, <2>2, <2>3 DEF Dials
<1> QED BY <1>1, <1>2, <1>3, <1>4

LEMMA StepDials ==
  ASSUME OneThread, TypeInv, TypeInv', Dials, Mute, [Next]_vars,
         HasConnect => \A t \in Thread : ~ClearQueueCall(t)
  PROVE  Dials'
<1>1. CASE ClientStep /\ LoopNext
  BY <1>1, LoopDials
<1>2. CASE ClientStep /\ AppNext
  BY <1>2, CallsDial
<1> QED BY <1>1, <1>2, OtherDials

\* Only connect() puts CONNECT into the outbox; CONNACK and the end of a connection
\* take it out.
LEMMA ConnectMoves ==
  ASSUME TypeInv, TypeInv', Dials, Mute, [Next]_vars,
         HasConnect => \A t \in Thread : ~ClearQueueCall(t)
  PROVE  \/ HasConnect' = HasConnect
         \/ ~HasConnect /\ state = "disconnected" /\ state' = "connectingTcp1" /\ UNCHANGED lpc
         \/ ClientStep /\ (Disconnected \/ OnConnack) /\ ~HasConnect'
<1>1. CASE ClientStep /\ LoopNext
  BY <1>1, LoopLeads
<1>2. CASE ClientStep /\ AppNext
  BY <1>2, CallsLead
<1> QED BY <1>1, <1>2, OtherDials

\* While CONNECT is to be sent, only it is.
LEMMA SendsConnect ==
  ASSUME TypeInv, Dials, HasConnect, lpc = "send"
  PROVE  branch = "mqtt" /\ HasCurrent(outbox) /\ Size(Current(outbox)) = PubSize
<1>1. ConnectLeads /\ branch = "mqtt"
  BY DEF Dials, MayTry
<1>2. outbox.c = 1 /\ outbox.q[1].type = "CONNECT" /\ outbox.q # <<>>
  BY <1>1 DEF ConnectLeads
<1>3. outbox.q \in Seq(ClientPacket)
  BY Sequences
<1> QED BY <1>1, <1>2, <1>3 DEF HasCurrent, Current, Size

LEMMA StepMute ==
  ASSUME Base, Base', Dials, Dials', Mute, [Next]_vars,
         HasConnect => \A t \in Thread : ~ClearQueueCall(t)
  PROVE  Mute'
<1>0. TypeInv /\ TypeInv' /\ wire.sent \in Seq(ClientPacket) /\ wire'.sent \in Seq(ClientPacket)
  BY Sequences DEF Base, TypeInv, WireTyped
<1> SUFFICES ASSUME HasConnect', OnLine', bytesSent' # PubSize PROVE Silent'
  BY DEF Mute
<1>1. CASE ConnectStep
  <2>1. /\ bConn' = "wait" /\ wire'.sent = <<>> /\ s2c' = <<>> /\ rx' = rx
        /\ lpc = "tcp1"
    BY <1>1, ConnectStepOpens
  <2>2. rx = <<>>
    BY <1>0, <2>1 DEF TypeInv, IncomingTyped
  <2>3. rx' \o s2c' = <<>>
    BY <2>1, <2>2
  <2> QED BY <2>1, <2>3 DEF Silent, Coming
<1>2. CASE ~ConnectStep
  <2>1. HasConnect /\ ~(ClientStep /\ (Disconnected \/ OnConnack))
    <3>1. ~(state = "disconnected" /\ state' = "connectingTcp1" /\ UNCHANGED lpc)
      BY DEF OnLine, Dials
    <3> QED BY <1>0, <3>1, ConnectMoves, EndTakesConnect, ConnackTakesConnect DEF Dials, HasConnect, Without
  <2>2. ~Disconnected /\ ~OnConnack
    BY <1>0, EndTakesConnect, ConnackTakesConnect DEF Dials
  <2>3. OnLine
    <3>1. CASE ClientStep /\ LoopNext
      <4>1. MayTry
        BY <2>1 DEF Dials
      <4>2. CASE lpc = "idle"
        BY <1>0, <2>2, <3>1, <4>1, <4>2, LoopMoves DEF OnLine, MayTry, Opening, Teardown
      <4>3. CASE lpc # "idle"
        BY <1>0, <2>2, <3>1, <4>1, <4>3, LoopMoves DEF OnLine, MayTry
      <4> QED BY <4>2, <4>3
    <3>2. CASE ClientStep /\ AppNext
      <4>1. UNCHANGED lpc /\ (UNCHANGED state \/ state' \in {"connectingTcp1", "disconnectingMqtt1", "disconnectingTcp1"})
        BY <3>2 DEF AppNext, Act, Call, Connect, Disconnect, Publish, Subscribe, Unsubscribe, Request,
                    ClearQueueCall, control, client
      <4> QED BY <4>1 DEF OnLine
    <3>3. CASE ~(ClientStep /\ (LoopNext \/ AppNext))
      <4>1. UNCHANGED <<state, lpc, branch>>
        BY <1>2, <3>3, OutsideMoves
      <4> QED BY <4>1 DEF OnLine
    <3> QED BY <3>1, <3>2, <3>3
  <2>4. lpc = "send" => branch = "mqtt" /\ HasCurrent(outbox) /\ Size(Current(outbox)) = PubSize
    BY <1>0, <2>1, SendsConnect
  <2>5. UNCHANGED bytesSent \/ (lpc = "send" /\ bytesSent < Size(Current(outbox)))
    BY <1>0, <2>2, SentMoves
  <2>6. bytesSent # PubSize
    BY <1>0, <2>4, <2>5, ClientAssumption
  <2>7. Silent
    BY <2>1, <2>3, <2>6 DEF Mute
  <2>8. Coming' = <<>> /\ bConn' \in {"wait", "down"}
    BY <1>2, <2>7, SilenceStays
  <2>9. ~(SendPacket /\ Finishes)
    <3>1. SendPacket => lpc = "send"
      BY DEF SendPacket, At
    <3> QED BY <2>4, <3>1 DEF Finishes
  <2>10. Piece(wire'.sent, wire.sent)
    BY <1>0, <2>9, WireMoves
  <2>11. wire'.sent = <<>>
    <3>1. PICK d \in Nat : d + Len(wire'.sent) <= Len(wire.sent)
      BY <2>10 DEF Piece
    <3>2. Len(wire.sent) = 0 /\ Len(wire'.sent) \in Nat
      BY <1>0, <2>7 DEF Silent
    <3>3. Len(wire'.sent) = 0
      BY <3>1, <3>2
    <3> QED BY <1>0, <3>3
  <2> QED BY <2>8, <2>11 DEF Silent
<1> QED BY <1>1, <1>2

LEMMA StepHeard ==
  ASSUME Base, Base', Dials, Mute, Heard, [Next]_vars,
         HasConnect => \A t \in Thread : ~ClearQueueCall(t)
  PROVE  Heard'
<1>0. TypeInv /\ TypeInv'
  BY DEF Base
<1> SUFFICES ASSUME tcp' = "open", ~HasConnect' PROVE ConnackTaken'
  BY DEF Heard
<1>1. ~ConnectStep
  <2>1. ConnectStep => lpc = "tcp1" /\ UNCHANGED outbox
    BY ConnectStepOpens
  <2>2. lpc = "tcp1" => HasConnect
    BY DEF Dials, Trying
  <2>3. UNCHANGED outbox => HasConnect' = HasConnect
    BY DEF HasConnect, Without
  <2> QED BY <2>1, <2>2, <2>3
<1>2. tcp = "open"
  BY <1>0, <1>1, ConnMoves
<1>3. CASE ~HasConnect
  BY <1>1, <1>2, <1>3, ConnackStaysTaken DEF Heard
<1>4. CASE HasConnect
  <2>1. ClientStep /\ (Disconnected \/ OnConnack)
    BY <1>0, <1>4, ConnectMoves DEF HasConnect, Without
  <2>2. ~Disconnected
    BY <1>2 DEF Disconnected, TransportConnected, net
  <2>3. /\ At("parse") /\ UNCHANGED <<packetId, wire, s2c>> /\ rx' = Tail(rx)
        /\ UNCHANGED <<session, passedOn, unsent, bConn>>
    BY <2>1, <2>2 DEF OnConnack, Incoming, net, ClientStep, brokerVars
  <2>4. Handles(Head(rx)) /\ Head(rx) \in BrokerPacket
    BY <2>3, Handling DEF Base
  <2>5. Without(Coming', "CONNACK")
    BY <2>4, Handled DEF Base, Without
  <2>6. bConn # "wait"
    BY <2>3, HeadIsFirst DEF Base, ConnackFirst
  <2> QED BY <2>3, <2>5, <2>6 DEF ConnackTaken
<1> QED BY <1>3, <1>4

\* The calls of one thread and loop() agree about CONNECT.
DialInv == Base /\ Dials /\ Mute /\ Heard

LEMMA InitDialInv == Init => DialInv
<1> SUFFICES ASSUME Init PROVE DialInv
  OBVIOUS
<1>1. /\ lpc = "idle" /\ state = "disconnected" /\ bytesSent = 0 /\ tcp = "closed"
      /\ outbox.q = <<>> /\ apc = [t \in Thread |-> None]
  BY DEF Init, ClientInit, EmptyOutbox
<1>2. ~HasConnect
  BY <1>1 DEF HasConnect, Without
<1>3. \A t \in Thread : apc[t] \notin {"connect", "disconnect"}
  BY <1>1, NoneAssumption DEF Calls
<1>4. ~Trying
  BY <1>1 DEF Trying, Opening
<1> QED BY <1>1, <1>2, <1>3, <1>4, InitBase DEF DialInv, Dials, Mute, Heard

LEMMA StepDialInv ==
  ASSUME OneThread, DialInv, [Next]_vars, HasConnect => \A t \in Thread : ~ClearQueueCall(t)
  PROVE  DialInv'
<1>1. Base' /\ TypeInv /\ TypeInv'
  BY StepBase DEF DialInv, Base
<1>2. Dials'
  BY <1>1, StepDials DEF DialInv
<1> QED BY <1>1, <1>2, StepMute, StepHeard DEF DialInv

-----------------------------------------------------------------------------
(* Where the packets of the outbox come from *)

\* What is left of the items after the first m comes from these.
LEMMA FilteredAfter ==
  ASSUME NEW S, NEW s \in Seq(S), NEW kept, NEW m \in 0 .. Len(s)
  PROVE  \A k \in Len(Filtered(s, kept)[m]) + 1 .. Len(Filter(s, kept)) :
           \E j \in m + 1 .. Len(s) : Filter(s, kept)[k] = s[j]
<1> DEFINE F == Filtered(s, kept)
           After(n) == \A k \in Len(F[m]) + 1 .. Len(F[n]) : \E j \in m + 1 .. n : F[n][k] = s[j]
           T == {n \in Nat : m + n <= Len(s) => After(m + n)}
<1>1. /\ Steps(s, kept, Len(s), F) /\ Len(s) \in Nat
      /\ \A n \in 0 .. Len(s) : F[n] \in Seq(S)
  BY FilteredSteps, FilteredPicks
<1> HIDE DEF F
<1>2. 0 \in T
  BY <1>1
<1>3. ASSUME NEW n \in Nat, n \in T PROVE n + 1 \in T
  <2> SUFFICES ASSUME m + (n + 1) <= Len(s) PROVE After(m + (n + 1))
    OBVIOUS
  <2> DEFINE j == m + n
  <2>1. j \in Nat /\ j + 1 \in 1 .. Len(s) /\ m + (n + 1) = j + 1 /\ j \in 0 .. Len(s) /\ m <= j
    BY <1>1
  <2>2. After(j)
    <3>1. m + n <= Len(s)
      BY <1>1
    <3> HIDE DEF After
    <3> QED BY <1>3, <3>1
  <2> HIDE DEF j
  <2>3. F[j + 1] = IF s[j + 1] \in kept THEN Append(F[(j + 1) - 1], s[j + 1])
                                        ELSE F[(j + 1) - 1]
    BY <1>1, <2>1, Zenon DEF Steps
  <2>4. (j + 1) - 1 = j /\ F[j] \in Seq(S) /\ F[m] \in Seq(S) /\ s[j + 1] \in S
    BY <1>1, <2>1, ElementOfSeq
  <2>6. F[j + 1] \in Seq(S) /\ Len(F[m]) \in Nat /\ Len(F[j + 1]) \in Nat
    BY <1>1, <2>1, <2>4
  <2>5. ASSUME NEW k \in Len(F[m]) + 1 .. Len(F[j + 1])
        PROVE  \E i \in m + 1 .. j + 1 : F[j + 1][k] = s[i]
    <3>1. CASE k \in Len(F[m]) + 1 .. Len(F[j])
      <4>1. F[j + 1][k] = F[j][k]
        BY <2>3, <2>4, <3>1
      <4>2. \E i \in m + 1 .. j : F[j][k] = s[i]
        BY <2>2, <3>1
      <4> QED BY <2>1, <4>1, <4>2
    <3>2. CASE k \notin Len(F[m]) + 1 .. Len(F[j])
      <4>0. k \in 1 .. Len(F[j + 1]) /\ k \notin 1 .. Len(F[j])
        BY <2>4, <2>6, <3>2
      <4>1. F[j + 1] = Append(F[j], s[j + 1])
        BY <2>3, <2>4, <4>0
      <4>2. k = Len(F[j]) + 1
        BY <2>4, <4>0, <4>1, AppendElements
      <4>3. F[j + 1][k] = s[j + 1]
        BY <2>4, <4>1, <4>2, AppendElements
      <4> QED BY <2>1, <4>3
    <3> QED BY <3>1, <3>2
  <2> QED BY <2>1, <2>5
<1> HIDE DEF T, After
<1>4. Nat \subseteq T
  BY <1>2, <1>3, SetInduction
<1>5. Len(s) - m \in Nat /\ m + (Len(s) - m) = Len(s)
  BY <1>1
<1>6. Len(s) - m \in T
  BY <1>4, <1>5
<1>7. After(m + (Len(s) - m))
  BY <1>1, <1>5, <1>6 DEF T
<1>8. After(Len(s))
  BY <1>5, <1>7
<1> QED BY <1>8 DEF After, F, Filter

\* The packet at k of the outbox t was at j in s, still to be sent if it is to be
\* sent in t.
Was(t, k, s, j) ==
  j \in 1 .. Len(s.q) /\ t.q[k] = s.q[j] /\ (k >= t.c => j >= s.c)

LEMMA ClearedElements ==
  ASSUME NEW o \in Box(ClientPacket), NEW mode, NEW k \in 1 .. Len(ClearQueue(o, mode).q)
  PROVE  \E j : Was(ClearQueue(o, mode), k, o, j)
<1> DEFINE kept == {p \in Range(o.q) : Kept(mode, p)}
           t == ClearQueue(o, mode)
<1>1. t = KeepOnly(o, kept)
  BY DEF ClearQueue
<1> HIDE DEF kept, t
<1>2. o.q \in Seq(ClientPacket) /\ o.c - 1 \in 0 .. Len(o.q) /\ Len(o.q) \in Nat
  BY DEF Box
<1>3. t.q = Filter(o.q, kept) /\ t.c = 1 + Len(Filtered(o.q, kept)[o.c - 1])
  BY <1>1 DEF KeepOnly
<1>4. k \in 1 .. Len(Filter(o.q, kept))
  BY <1>3 DEF t
<1>5. Filter(o.q, kept) \in Seq(ClientPacket) /\ Filtered(o.q, kept)[o.c - 1] \in Seq(ClientPacket)
  BY <1>2, FilterHas, FilteredPicks
<1>6. CASE k >= t.c
  <2>1. k \in Len(Filtered(o.q, kept)[o.c - 1]) + 1 .. Len(Filter(o.q, kept))
    BY <1>3, <1>4, <1>5, <1>6
  <2>2. PICK j \in o.c - 1 + 1 .. Len(o.q) : Filter(o.q, kept)[k] = o.q[j]
    BY <1>2, <2>1, FilteredAfter
  <2>3. Was(t, k, o, j)
    BY <1>2, <1>3, <2>2 DEF Was, Box
  <2> QED BY <2>3 DEF t
<1>7. CASE ~(k >= t.c)
  <2>0. Len(o.q) \in 0 .. Len(o.q)
    BY <1>2
  <2>1. \E e : Picks(Filtered(o.q, kept)[Len(o.q)], o.q, Len(o.q), kept, e)
    BY <1>2, <2>0, FilteredPicks
  <2>2. PICK e : Picks(Filter(o.q, kept), o.q, Len(o.q), kept, e)
    BY <2>1 DEF Filter
  <2>3. e[k] \in 1 .. Len(o.q) /\ Filter(o.q, kept)[k] = o.q[e[k]]
    BY <1>4, <2>2 DEF Picks
  <2>4. Was(t, k, o, e[k])
    BY <1>3, <1>7, <2>3 DEF Was
  <2> QED BY <2>4 DEF t
<1> QED BY <1>6, <1>7

\* _advanceOutbox() with a packet sent as a whole: what is still to be sent was behind
\* that packet, which stays marked or goes.
LEMMA AdvancedElements ==
  ASSUME NEW o \in Box(ClientPacket), NEW n, FullySent(o, n),
         NEW k \in 1 .. Len(Advanced(o, n).q)
  PROVE  \/ \E j : Was(Advanced(o, n), k, o, j) /\ j # o.c
         \/ /\ k = o.c /\ k < Advanced(o, n).c /\ ~Removable(Current(o))
            /\ Advanced(o, n).q[k] = [Current(o) EXCEPT !.dup = Current(o).type = "PUBLISH"]
<1> DEFINE t == Advanced(o, n)
           p == Current(o)
<1>0. /\ o.q \in Seq(ClientPacket) /\ o.c \in 1 .. Len(o.q) /\ Len(o.q) \in Nat /\ p = o.q[o.c]
      /\ HasCurrent(o)
  BY DEF Box, FullySent, HasCurrent, Current
<1>1. CASE Removable(p)
  <2>1. t = RemoveItem(o, o.c)
    BY <1>0, <1>1 DEF Advanced, RemoveCurrent
  <2>2. k \in 1 .. Len(RemoveItem(o, o.c).q)
    BY <2>1
  <2>3. \E j : From(RemoveItem(o, o.c), k, o, j) /\ j # o.c
    BY <1>0, <2>2, RemovedElements
  <2> QED BY <2>1, <2>3 DEF From, Was
<1>2. CASE ~Removable(p)
  <2> DEFINE b == p.type = "PUBLISH"
             r == [o EXCEPT !.q[o.c].dup = b]
             x == [p EXCEPT !.dup = b]
  <2>1. b \in BOOLEAN
    OBVIOUS
  <2>2. r \in Box(ClientPacket) /\ Len(r.q) = Len(o.q) /\ r.c = o.c
    BY <1>0, <2>1, MarkBox
  <2>3. r.q = [o.q EXCEPT ![o.c] = x]
    BY <1>0 DEF Box
  <2>4. t = NextItem(r)
    BY <1>2 DEF Advanced
  <2> HIDE DEF r, x, b
  <2>5. t.q = r.q /\ t.c = o.c + 1
    BY <1>0, <2>2, <2>4 DEF NextItem, HasCurrent, Box
  <2>6. k \in 1 .. Len(o.q)
    BY <2>2, <2>5
  <2> HIDE DEF t
  <2>7. CASE k = o.c
    <3>1. t.q[k] = x
      BY <1>0, <2>3, <2>5, <2>6, <2>7
    <3> QED BY <1>0, <1>2, <2>5, <2>7, <3>1 DEF x, b, t
  <2>8. CASE k # o.c
    <3>1. t.q[k] = o.q[k]
      BY <1>0, <2>3, <2>5, <2>6, <2>8
    <3>2. Was(t, k, o, k)
      BY <1>0, <2>5, <2>6, <3>1 DEF Was
    <3> QED BY <2>8, <3>2 DEF t
  <2> QED BY <2>7, <2>8
<1> QED BY <1>1, <1>2

-----------------------------------------------------------------------------
(* What writing does *)

\* The bytes at the offset off of p continue what was written.
Fits(w, p, off) == w.part = IF off = 0 THEN None ELSE [pkt |-> p, off |-> off]

\* What k bytes of p from the offset off make of w, when all of it fits.
Written(v, w, p, off, k) ==
  /\ w.ok = v.ok
  /\ k = 0 => v = w
  /\ k > 0 => Fits(w, p, off)
  /\ k > 0 /\ off + k < Size(p) =>
       v.sent = w.sent /\ v.once = w.once /\ v.part = [pkt |-> p, off |-> off + k]
  /\ k > 0 /\ off + k = Size(p) =>
       /\ v.sent = Append(w.sent, p) /\ v.part = None
       /\ v.once = IF p.type = "PUBLISH" THEN w.once \cup {p.id} ELSE w.once

LEMMA WriteParts ==
  ASSUME NEW w, DOMAIN w = {"sent", "part", "ok", "once"}, NEW p, NEW off \in Nat, NEW k \in Nat,
         off + k <= Size(p), Write(w, p, off, k).ok
  PROVE  Written(Write(w, p, off, k), w, p, off, k)
<1> DEFINE v == Write(w, p, off, k)
<1>0. Size(p) \in Nat
  BY ClientAssumption DEF Size
<1>1. CASE k = 0
  <2>1. v = w /\ ~(k > 0)
    BY <1>1 DEF Write
  <2> HIDE DEF v
  <2>2. Written(v, w, p, off, k)
    BY <2>1 DEF Written
  <2> QED BY <2>2 DEF v
<1>2. CASE k > 0 /\ ~Fits(w, p, off)
  <2>1. v = [w EXCEPT !.ok = FALSE]
    BY <1>2 DEF Write, Fits
  <2> QED BY <2>1
<1>3. CASE k > 0 /\ Fits(w, p, off) /\ off + k < Size(p)
  <2>1. v = [w EXCEPT !.part = [pkt |-> p, off |-> off + k]]
    BY <1>3 DEF Write, Fits
  <2> HIDE DEF v
  <2>2. /\ v.sent = w.sent /\ v.once = w.once /\ v.ok = w.ok
        /\ v.part = [pkt |-> p, off |-> off + k]
    BY <2>1
  <2>3. k # 0 /\ off + k # Size(p)
    BY <1>0, <1>3
  <2>4. Written(v, w, p, off, k)
    BY <1>3, <2>2, <2>3 DEF Written
  <2> QED BY <2>4 DEF v
<1>4. CASE k > 0 /\ Fits(w, p, off) /\ off + k = Size(p)
  <2>0. ~(off + k < Size(p)) /\ ~(k = 0)
    BY <1>0, <1>4
  <2>1. v = [w EXCEPT !.sent = Append(@, p), !.part = None,
                      !.once = IF p.type = "PUBLISH" THEN @ \cup {p.id} ELSE @]
    BY <1>4, <2>0 DEF Write, Fits
  <2> HIDE DEF v
  <2>2. /\ v.sent = Append(w.sent, p) /\ v.part = None /\ v.ok = w.ok
        /\ v.once = IF p.type = "PUBLISH" THEN w.once \cup {p.id} ELSE w.once
    BY <2>1
  <2>3. Written(v, w, p, off, k)
    BY <1>4, <2>0, <2>2 DEF Written
  <2> QED BY <2>3 DEF v
<1>5. k = 0 \/ (k > 0 /\ (off + k < Size(p) \/ off + k = Size(p)))
  BY <1>0
<1> QED BY <1>1, <1>2, <1>3, <1>4, <1>5

\* The current packet is written to an offset m before its end, or to its end.
WritesPart ==
  \E m \in bytesSent + 1 .. Size(Current(outbox)) - 1 :
    /\ bytesSent' = m /\ outbox' = outbox
    /\ wire'.part = [pkt |-> Current(outbox), off |-> m]
    /\ wire'.sent = wire.sent /\ wire'.once = wire.once
WritesEnd ==
  /\ wire'.part = None /\ wire'.sent = Append(wire.sent, Current(outbox))
  /\ wire'.once = IF Current(outbox).type = "PUBLISH" THEN wire.once \cup {Current(outbox).id}
                  ELSE wire.once
  /\ IF branch = "mqtt" THEN bytesSent' = Size(Current(outbox)) /\ outbox' = outbox
     ELSE /\ bytesSent' = 0 /\ outbox' = Advanced(outbox, Size(Current(outbox)))
          /\ FullySent(outbox, Size(Current(outbox)))

LEMMA SendParts ==
  ASSUME TypeInv, SendPacket, wire'.ok
  PROVE  /\ HasCurrent(outbox) /\ bytesSent \in Nat /\ bytesSent < Size(Current(outbox))
         /\ wire.ok = wire'.ok
         /\ \/ UNCHANGED <<wire, outbox, bytesSent>>
            \/ tcp = "open" /\ Fits(wire, Current(outbox), bytesSent) /\ (WritesPart \/ WritesEnd)
<1> DEFINE p == Current(outbox)
           n == Size(p)
<1>0. DOMAIN wire = {"sent", "part", "ok", "once"}
  BY DEF TypeInv, WireTyped
<1>1. HasCurrent(outbox) /\ bytesSent < n /\ WantToWrite = n - bytesSent
  BY DEF SendPacket, WantToWrite
<1>2. bytesSent \in Nat /\ n \in Nat
  <2>1. n \in 1 .. PubSize
    BY ClientAssumption DEF Size
  <2> QED BY <1>1, <2>1, ClientAssumption DEF TypeInv, ClientTyped, SizeMax
<1>3. PICK k \in 0 .. WantToWrite :
        /\ Writable(k)
        /\ wire' = Write(wire, p, bytesSent, k)
        /\ IF branch = "mqtt" \/ k = 0
           THEN bytesSent' = bytesSent + k /\ UNCHANGED outbox
           ELSE /\ outbox' = Advanced(outbox, bytesSent + k)
                /\ bytesSent' = IF FullySent(outbox, bytesSent + k) THEN 0 ELSE bytesSent + k
  BY DEF SendPacket
<1>4. k \in Nat /\ bytesSent + k <= n /\ (k > 0 => tcp = "open")
  BY <1>1, <1>2, <1>3 DEF Writable
<1>5. FullySent(outbox, bytesSent + k) <=> bytesSent + k = n
  BY <1>1 DEF FullySent
<1> HIDE DEF p, n
<1>6. Written(wire', wire, p, bytesSent, k)
  BY <1>0, <1>2, <1>3, <1>4, WriteParts DEF n
<1>7. wire.ok = wire'.ok
  BY <1>6 DEF Written
<1>8. CASE k = 0
  <2>1. bytesSent' = bytesSent /\ outbox' = outbox
    BY <1>2, <1>3, <1>8
  <2>2. wire' = wire
    BY <1>6, <1>8 DEF Written
  <2> QED BY <1>1, <1>2, <1>7, <2>1, <2>2 DEF n, p
<1>9. CASE k > 0 /\ bytesSent + k < n
  <2>1. outbox' = outbox /\ bytesSent' = bytesSent + k
    <3>1. ~FullySent(outbox, bytesSent + k)
      BY <1>2, <1>4, <1>5, <1>9
    <3> QED BY <1>3, <3>1 DEF Advanced
  <2>2. bytesSent + k \in bytesSent + 1 .. n - 1
    BY <1>2, <1>4, <1>9
  <2>3. /\ wire'.sent = wire.sent /\ wire'.once = wire.once /\ Fits(wire, p, bytesSent)
        /\ wire'.part = [pkt |-> p, off |-> bytesSent + k]
    BY <1>6, <1>9 DEF Written, n
  <2>4. WritesPart
    BY <2>1, <2>2, <2>3 DEF WritesPart, n, p
  <2> QED BY <1>1, <1>2, <1>4, <1>7, <1>9, <2>3, <2>4 DEF n, p
<1>10. CASE k > 0 /\ bytesSent + k = n
  <2>1. /\ wire'.sent = Append(wire.sent, p) /\ wire'.part = None /\ Fits(wire, p, bytesSent)
        /\ wire'.once = IF p.type = "PUBLISH" THEN wire.once \cup {p.id} ELSE wire.once
    BY <1>6, <1>10 DEF Written, n
  <2>2. WritesEnd
    <3>1. k # 0
      BY <1>4, <1>10
    <3> QED BY <1>3, <1>5, <1>10, <2>1, <3>1 DEF WritesEnd, n, p
  <2> QED BY <1>1, <1>2, <1>4, <1>7, <1>10, <2>1, <2>2 DEF n, p
<1>11. k = 0 \/ (k > 0 /\ (bytesSent + k < n \/ bytesSent + k = n))
  BY <1>2, <1>4
<1> QED BY <1>8, <1>9, <1>10, <1>11

\* Other steps neither break what is written nor write.
LEMMA WireRests ==
  ASSUME TypeInv, [Next]_vars, ~SendPacket
  PROVE  /\ wire'.once = wire.once
         /\ ConnectStep \/ (wire'.ok = wire.ok /\ wire'.part = wire.part)
         /\ ConnectStep => wire'.ok = TRUE /\ wire'.part = None
<1>0. DOMAIN wire = {"sent", "part", "ok", "once"}
  BY DEF TypeInv, WireTyped
<1>1. CASE ConnectStep
  BY <1>1 DEF ConnectStep, TcpConnect, NewWire
<1>2. CASE BrokerStep \/ LossStep
  <2>1. Close \/ UNCHANGED wire \/ Take
    BY <1>2 DEF BrokerStep, LossStep, Answers, GetConnect, Refuse, ProtocolViolation, GetPublish,
       GetPubrel, GetRequest, GetAnswer, GetPubrec, GetDisconnect, PublishMessage, ConnectionLost
  <2>2. \E s : wire' = wire \/ wire' = [wire EXCEPT !.sent = s]
    BY <2>1 DEF Close, Take
  <2>3. wire'.once = wire.once /\ wire'.ok = wire.ok /\ wire'.part = wire.part
    BY <1>0, <2>2
  <2>4. ~ConnectStep
    BY <1>2 DEF BrokerStep, LossStep, ConnectStep, TcpConnect, client, control, At, Goto
  <2> QED BY <2>3, <2>4
<1>3. CASE ClientStep /\ ~ConnectStep
  <2>1. UNCHANGED wire
    <3>1. CASE AppNext
      BY <3>1 DEF AppNext, Act, Call, Connect, Disconnect, Publish, Subscribe, Unsubscribe,
         Request, ClearQueueCall, net
    <3>2. CASE TimePasses
      BY <3>2 DEF TimePasses, net
    <3>3. CASE LoopNext
      <4>1. CASE Dispatch \/ Connecting \/ Disconnecting \/ Sending \/ Callbacks \/ Timers
        BY <4>1 DEF Dispatch, Connecting, TcpConnectFails, TcpConnected, CheckTransport,
           TransportLost, Disconnecting, SayGoodbye, StopTransport, Disconnected, Sending, SendFails,
           NothingToSend, Callbacks, CallbackReturns, ConnectCallbackReturns,
           DisconnectCallbackReturns, Timers, CheckPing, Retransmit, NoRetransmit, net
      <4>2. CASE Receiving
        BY <4>2 DEF Receiving, Read, ExpectedConnack, ProtocolError, OnConnack, OnConnackRefused,
           OnPublish, OnPuback, OnPubrec, OnPubrel, OnPubcomp, OnSuback, OnUnsuback, OnPingresp,
           Finish, Reply, Settle, OutboxOnly, net
      <4> QED BY <3>3, <4>1, <4>2 DEF LoopNext
    <3> QED BY <1>3, <3>1, <3>2, <3>3 DEF ClientStep
  <2> QED BY <1>3, <2>1
<1>4. CASE UNCHANGED vars /\ ~ConnectStep
  BY <1>4 DEF vars, clientVars, net
<1> QED BY <1>1, <1>2, <1>3, <1>4 DEF Next

-----------------------------------------------------------------------------
(* Where each PUBLISH of the outbox comes from *)

\* Only CONNECT is sent as a whole and left in the outbox.
Whole == bytesSent = PubSize => HasConnect

LEMMA SendsOf ==
  ASSUME TypeInv, Dials, lpc = "send"
  PROVE  IF branch = "mqtt" THEN HasConnect /\ Current(outbox).type = "CONNECT" ELSE ~HasConnect
<1>1. CASE HasConnect
  <2>1. ConnectLeads /\ branch = "mqtt"
    BY <1>1 DEF Dials, MayTry
  <2> QED BY <1>1, <2>1 DEF ConnectLeads, Current
<1>2. CASE ~HasConnect
  BY <1>2 DEF Dials, Trying
<1> QED BY <1>1, <1>2

\* CONNACK finds CONNECT sent as a whole, or no CONNECT.
LEMMA ConnackFinds ==
  ASSUME TypeInv, Dials, Mute, OnConnack, HasConnect
  PROVE  /\ FullySent(outbox, bytesSent) /\ outbox.c = 1 /\ 1 \in 1 .. Len(outbox.q)
         /\ Advanced(outbox, bytesSent) = RemoveItem(outbox, 1)
<1>0. outbox \in Box(ClientPacket) /\ outbox.q \in Seq(ClientPacket) /\ Len(outbox.q) \in Nat
  BY Sequences
<1>1. /\ outbox.q # <<>> /\ outbox.c = 1 /\ outbox.q[1].type = "CONNECT"
  BY DEF Dials, ConnectLeads
<1>2. 1 \in 1 .. Len(outbox.q) /\ HasCurrent(outbox) /\ Current(outbox) = outbox.q[1]
  BY <1>0, <1>1 DEF HasCurrent, Current
<1>3. lpc = "parse" /\ Coming # <<>>
  BY HeadIsFirst DEF OnConnack, Incoming, At
<1>4. bytesSent = PubSize
  BY <1>3 DEF Mute, OnLine, Silent
<1>5. FullySent(outbox, bytesSent)
  BY <1>1, <1>2, <1>4 DEF FullySent, Size
<1>6. outbox.q[1] \in ClientPacket
  BY <1>0, <1>2
<1>7. Current(outbox).id = 0
  BY <1>1, <1>2, <1>6 DEF ClientPacket
<1>8. Removable(Current(outbox))
  BY <1>7 DEF Removable
<1>9. Advanced(outbox, bytesSent) = RemoveItem(outbox, 1)
  BY <1>1, <1>2, <1>5, <1>8 DEF Advanced, RemoveCurrent
<1> QED BY <1>1, <1>2, <1>5, <1>9

LEMMA StepWhole ==
  ASSUME TypeInv, TypeInv', Dials, Mute, Whole, [Next]_vars,
         HasConnect => \A t \in Thread : ~ClearQueueCall(t)
  PROVE  Whole'
<1> SUFFICES ASSUME bytesSent' = PubSize PROVE HasConnect'
  BY DEF Whole
<1>0. PubSize \in Nat \ {0}
  BY ClientAssumption
<1>1. ~Disconnected
  BY <1>0 DEF Disconnected
<1>2. OnConnack => ~HasConnect
  <2>1. OnConnack /\ HasConnect => bytesSent' = 0
    BY ConnackFinds DEF OnConnack
  <2> QED BY <1>0, <2>1
<1>3. HasConnect => HasConnect'
  BY <1>1, <1>2, ConnectMoves DEF HasConnect, Without
<1>4. CASE bytesSent' = bytesSent
  BY <1>3, <1>4 DEF Whole
<1>5. CASE OnConnack
  <2>1. bytesSent' = 0 \/ bytesSent' = bytesSent
    BY <1>5 DEF OnConnack
  <2> QED BY <1>0, <1>4, <2>1
<1>6. CASE lpc = "send" /\ HasCurrent(outbox) /\ bytesSent < Size(Current(outbox))
           /\ (SendPacket \/ SendFails)
  <2>1. Size(Current(outbox)) \in 1 .. PubSize
    BY <1>0 DEF Size
  <2>2. bytesSent \in 0 .. PubSize - 1
    BY <1>0, <1>6, <2>1 DEF TypeInv, ClientTyped, SizeMax
  <2>3. ~SendFails
    BY <1>0, <2>2 DEF SendFails, SizeMax
  <2>4. PICK k \in 0 .. WantToWrite :
          IF branch = "mqtt" \/ k = 0
          THEN bytesSent' = bytesSent + k
          ELSE bytesSent' = IF FullySent(outbox, bytesSent + k) THEN 0 ELSE bytesSent + k
    BY <1>6, <2>3 DEF SendPacket
  <2>5. branch = "mqtt" => HasConnect
    BY <1>6, SendsOf
  <2>6. WantToWrite = Size(Current(outbox)) - bytesSent
    BY <1>6 DEF WantToWrite
  <2>7. CASE branch # "mqtt"
    <3>1. k # 0
      BY <2>2, <2>4, <2>7
    <3>2. ~FullySent(outbox, bytesSent + k) /\ bytesSent' = bytesSent + k
      BY <1>0, <2>4, <2>7, <3>1
    <3>3. bytesSent + k # Size(Current(outbox))
      BY <1>6, <3>2 DEF FullySent
    <3> QED BY <1>0, <2>1, <2>2, <2>4, <2>6, <3>2, <3>3
  <2> QED BY <1>3, <2>5, <2>7
<1> QED BY <1>1, <1>4, <1>5, <1>6, SentMoves

\* The packet at k was there, behind the cursor if it is to be sent on this connection
\* and not again, and it is not the one that was sent.
Kin(k) ==
  \E j \in 1 .. Len(outbox.q) :
    /\ outbox'.q[k] = outbox.q[j]
    /\ k >= outbox'.c => j >= outbox.c \/ Retransmit \/ tcp # "open"
    /\ SendPacket /\ WritesEnd => j # outbox.c

\* It is the PUBLISH that was sent.
Marks(k) ==
  /\ SendPacket /\ WritesEnd /\ branch # "mqtt" /\ k < outbox'.c
  /\ outbox'.q[k] = [Current(outbox) EXCEPT !.dup = TRUE]
  /\ Current(outbox).type = "PUBLISH"

LEMMA WasKin ==
  ASSUME ~SendPacket, NEW k, NEW j, Was(outbox', k, outbox, j)
  PROVE  Kin(k)
BY DEF Was, Kin

LEMMA SendElements ==
  ASSUME TypeInv, Dials, SendPacket, wire'.ok,
         NEW k \in 1 .. Len(outbox'.q), outbox'.q[k].type = "PUBLISH"
  PROVE  Kin(k) \/ Marks(k)
<1>0. outbox \in Box(ClientPacket) /\ lpc = "send"
  BY Sequences DEF SendPacket, At
<1>1. CASE outbox' = outbox /\ ~(WritesEnd /\ branch # "mqtt")
  <2>1. WritesEnd => k # outbox.c
    <3>1. branch = "mqtt" => Current(outbox).type = "CONNECT"
      BY <1>0, SendsOf
    <3> QED BY <1>1, <3>1 DEF Current
  <2> QED BY <1>1, <2>1 DEF Kin
<1>2. CASE WritesEnd /\ branch # "mqtt"
  <2> DEFINE n == Size(Current(outbox))
  <2>1. FullySent(outbox, n) /\ outbox' = Advanced(outbox, n)
    BY <1>2 DEF WritesEnd
  <2> HIDE DEF n
  <2>2. \/ \E j : Was(outbox', k, outbox, j) /\ j # outbox.c
        \/ /\ k = outbox.c /\ k < outbox'.c
           /\ outbox'.q[k] = [Current(outbox) EXCEPT !.dup = Current(outbox).type = "PUBLISH"]
    BY <1>0, <2>1, AdvancedElements
  <2>3. CASE \E j : Was(outbox', k, outbox, j) /\ j # outbox.c
    BY <2>3 DEF Was, Kin
  <2>4. CASE /\ k = outbox.c /\ k < outbox'.c
             /\ outbox'.q[k] = [Current(outbox) EXCEPT !.dup = Current(outbox).type = "PUBLISH"]
    <3>1. Current(outbox) \in ClientPacket
      BY <1>0, <2>1, ElementOfSeq DEF FullySent, HasCurrent, Box, Current
    <3>2. DOMAIN Current(outbox) = {"type", "id", "qos", "dup"}
      BY <3>1 DEF ClientPacket, Packet
    <3>3. Current(outbox).type = "PUBLISH"
      <4>1. outbox'.q[k].type = Current(outbox).type
        BY <2>4, <3>2
      <4> QED BY <4>1
    <3>4. (Current(outbox).type = "PUBLISH") = TRUE
      BY <3>3
    <3>5. outbox'.q[k] = [Current(outbox) EXCEPT !.dup = TRUE]
      BY <2>4, <3>4
    <3> QED BY <1>2, <2>4, <3>3, <3>5 DEF Marks
  <2> QED BY <2>2, <2>3, <2>4
<1> QED BY <1>1, <1>2, SendParts DEF WritesPart, WritesEnd

LEMMA ConnackElements ==
  ASSUME TypeInv, Dials, Mute, Whole, OnConnack,
         NEW k \in 1 .. Len(outbox'.q), outbox'.q[k].type = "PUBLISH"
  PROVE  Kin(k)
<1>0. outbox \in Box(ClientPacket) /\ ~SendPacket /\ Len(outbox.q) \in Nat
  BY Sequences DEF OnConnack, Incoming, SendPacket, At
<1> DEFINE o == Advanced(outbox, bytesSent)
<1>1. o \in Box(ClientPacket)
  BY <1>0, AdvancedBox
<1>2. outbox' = o \/ outbox' = ClearQueue(o, 1)
  BY DEF OnConnack
<1>3. ASSUME NEW i \in 1 .. Len(o.q), o.q[i].type = "PUBLISH"
      PROVE  \E j : Was(o, i, outbox, j)
  <2>1. CASE ~FullySent(outbox, bytesSent)
    <3>1. o = outbox
      BY <2>1 DEF Advanced
    <3> QED BY <3>1 DEF Was
  <2>2. CASE FullySent(outbox, bytesSent) /\ HasConnect
    <3>1. o = RemoveItem(outbox, 1) /\ 1 \in 1 .. Len(outbox.q)
      BY <2>2, ConnackFinds
    <3>2. i \in 1 .. Len(RemoveItem(outbox, 1).q)
      BY <3>1
    <3>3. \E j : From(RemoveItem(outbox, 1), i, outbox, j)
      BY <1>0, <3>1, <3>2, RemovedElements
    <3> QED BY <3>1, <3>3 DEF From, Was
  <2>3. CASE FullySent(outbox, bytesSent) /\ ~HasConnect
    <3>1. i \in 1 .. Len(Advanced(outbox, bytesSent).q)
      OBVIOUS
    <3> HIDE DEF o
    <3>2. \/ \E j : Was(Advanced(outbox, bytesSent), i, outbox, j)
          \/ Advanced(outbox, bytesSent).q[i] =
               [Current(outbox) EXCEPT !.dup = Current(outbox).type = "PUBLISH"]
      BY <1>0, <2>3, <3>1, AdvancedElements
    <3>3. Current(outbox).type # "PUBLISH"
      BY <2>3 DEF FullySent, Size, Whole
    <3>4. DOMAIN Current(outbox) = {"type", "id", "qos", "dup"}
      <4>1. Current(outbox) \in ClientPacket
        BY <1>0, <2>3, ElementOfSeq DEF FullySent, HasCurrent, Box, Current
      <4> QED BY <4>1 DEF ClientPacket, Packet
    <3>5. [Current(outbox) EXCEPT !.dup = Current(outbox).type = "PUBLISH"].type # "PUBLISH"
      BY <3>3, <3>4
    <3> QED BY <1>3, <3>2, <3>5 DEF o
  <2> QED BY <2>1, <2>2, <2>3
<1> HIDE DEF o
<1>4. \E i \in 1 .. Len(o.q) : Was(outbox', k, o, i)
  <2>1. CASE outbox' = o
    BY <2>1 DEF Was
  <2>2. CASE outbox' = ClearQueue(o, 1)
    <3>1. k \in 1 .. Len(ClearQueue(o, 1).q)
      BY <2>2
    <3>2. \E i : Was(ClearQueue(o, 1), k, o, i)
      BY <1>1, <3>1, ClearedElements
    <3> QED BY <2>2, <3>2 DEF Was
  <2> QED BY <1>2, <2>1, <2>2
<1>5. PICK i \in 1 .. Len(o.q) : Was(outbox', k, o, i)
  BY <1>4
<1>6. o.q[i].type = "PUBLISH"
  BY <1>5 DEF Was
<1>7. PICK j : Was(o, i, outbox, j)
  BY <1>3, <1>6
<1>8. Was(outbox', k, outbox, j)
  BY <1>5, <1>7 DEF Was
<1> QED BY <1>0, <1>8, WasKin

LEMMA CallElements ==
  ASSUME TypeInv, Dials, ~SendPacket, NEW t \in Thread, Connect(t) \/ ClearQueueCall(t),
         NEW k \in 1 .. Len(outbox'.q), outbox'.q[k].type = "PUBLISH"
  PROVE  Kin(k)
<1>0. outbox \in Box(ClientPacket) /\ outbox.q \in Seq(ClientPacket) /\ Len(outbox.q) \in Nat
  BY Sequences
<1>1. CASE ClearQueueCall(t)
  <2>1. PICK mode \in {0, 2} : outbox' = ClearQueue(outbox, mode)
    BY <1>1 DEF ClearQueueCall
  <2>2. k \in 1 .. Len(ClearQueue(outbox, mode).q)
    BY <2>1
  <2>3. \E j : Was(ClearQueue(outbox, mode), k, outbox, j)
    BY <1>0, <2>2, ClearedElements
  <2>4. \E j : Was(outbox', k, outbox, j)
    BY <2>1, <2>3
  <2> QED BY <2>4, WasKin
<1>2. CASE Connect(t)
  <2>1. tcp # "open"
    BY <1>2 DEF Connect, Return, Dials
  <2>2. \E j \in 1 .. Len(outbox.q) : outbox'.q[k] = outbox.q[j]
    <3>1. CASE outbox' = EmplaceFront(outbox, Ctl("CONNECT", 0))
      <4> DEFINE x == Ctl("CONNECT", 0)
      <4>1. x \in ClientPacket /\ x.type = "CONNECT"
        BY CtlTyped DEF Ctl
      <4> HIDE DEF x
      <4>2. outbox'.q = <<x>> \o outbox.q
        BY <1>0, <3>1, <4>1, EmplaceFrontBox DEF x
      <4>3. /\ Len(outbox'.q) = Len(outbox.q) + 1 /\ outbox'.q[1] = x
            /\ \A i \in 2 .. Len(outbox'.q) : outbox'.q[i] = outbox.q[i - 1] /\ i - 1 \in 1 .. Len(outbox.q)
        BY <1>0, <4>1, <4>2
      <4>4. k \in 2 .. Len(outbox'.q)
        <5>1. k # 1
          BY <4>1, <4>3
        <5> QED BY <1>0, <4>3, <5>1
      <4> QED BY <4>3, <4>4
    <3>2. CASE outbox' = outbox \/ outbox' = ResetCurrent(outbox)
      <4>1. outbox'.q = outbox.q
        BY <1>0, <3>2, ResetBox
      <4> QED BY <4>1
    <3> QED BY <1>2, <3>1, <3>2 DEF Connect, AddPacketFrontFails
  <2> QED BY <2>1, <2>2 DEF Kin
<1> QED BY <1>1, <1>2

LEMMA Elements ==
  ASSUME TypeInv, Dials, Mute, Whole, [Next]_vars, wire'.ok,
         NEW k \in 1 .. Len(outbox'.q), outbox'.q[k].type = "PUBLISH"
  PROVE  Kin(k) \/ Marks(k) \/ (Appends(outbox'.q[k]) /\ ~SendPacket)
<1>0. outbox \in Box(ClientPacket)
  BY Sequences
<1>1. CASE SendPacket
  BY <1>1, SendElements
<1>2. CASE OnConnack
  BY <1>2, ConnackElements
<1>3. CASE ~SendPacket /\ \E t \in Thread : Connect(t) \/ ClearQueueCall(t)
  BY <1>3, CallElements
<1>4. CASE ~SendPacket /\ Disconnected
  <2>1. outbox' = ClearQueue(outbox, 0)
    BY <1>4 DEF Disconnected
  <2>2. k \in 1 .. Len(ClearQueue(outbox, 0).q)
    BY <2>1
  <2>3. \E j : Was(ClearQueue(outbox, 0), k, outbox, j)
    BY <1>0, <2>2, ClearedElements
  <2>4. \E j : Was(outbox', k, outbox, j)
    BY <2>1, <2>3
  <2> QED BY <1>4, <2>4, WasKin
<1>5. CASE ~SendPacket /\ Retransmit
  <2>1. outbox'.q = outbox.q
    BY <1>0, <1>5, ResetBox DEF Retransmit
  <2> QED BY <1>5, <2>1 DEF Kin
<1>6. CASE /\ ~SendPacket /\ ~OnConnack /\ ~Disconnected /\ ~Retransmit
           /\ \A t \in Thread : ~Connect(t) /\ ~ClearQueueCall(t)
  <2>1. (\E j : From(outbox', k, outbox, j)) \/ Appends(outbox'.q[k])
    BY <1>6, OutboxEdits, EditElements
  <2>2. ASSUME NEW j, From(outbox', k, outbox, j) PROVE Kin(k)
    BY <1>6, <2>2, WasKin DEF From, Was
  <2> QED BY <1>6, <2>1, <2>2
<1> QED BY <1>1, <1>2, <1>3, <1>4, <1>5, <1>6

-----------------------------------------------------------------------------
(* Packet ids of requests, while the counter has not wrapped *)

\* No id beyond the counter is in use.
Fresh ==
  \A i \in 1 .. MaxId : i > packetId =>
    /\ ~Has(outbox.q, Requests, i) /\ ~Has(wire.sent, Requests, i)
    /\ ~Has(Coming, Acks, i)

\* The ids of the PUBLISH packets that were sent are not beyond it.
Old == wire.once \subseteq 0 .. packetId

\* A request is in the outbox once.
One == \A i \in 1 .. MaxId : AtMostOne(outbox.q, Requests, i)

IdInv == Fresh /\ Old /\ One

LEMMA BroughtAck ==
  ASSUME TypeInv, NEW x, Brings(x), NEW i, Has(Coming', Acks, i),
         x.type \in Acks /\ x.id = i => Has(wire.sent, Requests, i)
  PROVE  Has(Coming, Acks, i) \/ Has(wire.sent, Requests, i)
<1>1. PICK k \in 1 .. Len(Coming') : Coming'[k].type \in Acks /\ Coming'[k].id = i
  BY DEF Has
<1>2. (k \in 1 .. Len(Coming) /\ Coming'[k] = Coming[k]) \/ Coming'[k] = x
  BY BringsElements
<1>3. CASE k \in 1 .. Len(Coming) /\ Coming'[k] = Coming[k]
  BY <1>1, <1>3 DEF Has
<1> QED BY <1>1, <1>2, <1>3

\* The broker answers the requests it takes.
LEMMA AcksCome ==
  ASSUME TypeInv, TypeInv', ClientKinds \/ BrokerKinds, NEW i, Has(Coming', Acks, i)
  PROVE  Has(Coming, Acks, i) \/ Has(wire.sent, Requests, i)
<1>0. Coming \in Seq(BrokerPacket) /\ Coming' \in Seq(BrokerPacket)
  <2>1. Coming \in Seq(BrokerPacket)
    BY Sequences
  <2>2. rx' \in Seq(BrokerPacket) /\ s2c' \in Seq(BrokerPacket)
    BY DEF TypeInv, IncomingTyped
  <2> QED BY <2>1, <2>2 DEF Coming
<1>1. CASE Piece(Coming', Coming)
  BY <1>0, <1>1, PieceHas
<1>2. CASE Greets
  <2>1. PICK present \in BOOLEAN : \A k \in 1 .. Len(Coming') :
          \/ k = 1 /\ Coming'[k] = Connack(TRUE, present)
          \/ k > 1 /\ k - 1 \in 1 .. Len(session'.out) /\ Coming'[k] = Resent(session'.out[k - 1])
    BY <1>2 DEF Greets
  <2>2. session'.out \in Seq(Flight)
    BY DEF TypeInv, BrokerTyped
  <2>3. ASSUME NEW k \in 1 .. Len(Coming') PROVE Coming'[k].type \notin Acks
    <3>1. CASE Coming'[k] = Connack(TRUE, present)
      BY <3>1 DEF Connack, Acks
    <3>2. CASE k - 1 \in 1 .. Len(session'.out) /\ Coming'[k] = Resent(session'.out[k - 1])
      <4>1. session'.out[k - 1] \in Flight
        BY <2>2, <3>2, ElementOfSeq
      <4> QED BY <3>2, <4>1, ResentType DEF Acks
    <3> QED BY <2>1, <3>1, <3>2
  <2> QED BY <2>3 DEF Has
<1>3. ASSUME NEW p, Takes(p), p.type = "PUBLISH" PROVE Has(wire.sent, Requests, p.id)
  <2>1. wire.sent \in Seq(ClientPacket)
    BY Sequences
  <2>2. wire.sent # <<>> /\ p = Head(wire.sent)
    BY <1>3 DEF Takes
  <2>3. 1 \in 1 .. Len(wire.sent) /\ wire.sent[1] = p
    BY <2>1, <2>2
  <2> QED BY <1>3, <2>3 DEF Has, Requests
<1>4. CASE TakesPublish
  <2>1. PICK p \in ClientPacket :
          /\ Takes(p) /\ p.type = "PUBLISH"
          /\ \/ Coming' = Coming
             \/ \E type : Brings(Answer(type, p.id))
    BY <1>4 DEF TakesPublish
  <2>2. CASE Coming' = Coming
    BY <2>2
  <2>3. ASSUME NEW type, Brings(Answer(type, p.id))
        PROVE  Has(Coming, Acks, i) \/ Has(wire.sent, Requests, i)
    <3>1. Answer(type, p.id).id = p.id
      BY DEF Answer
    <3> QED BY <1>3, <2>1, <2>3, <3>1, BroughtAck
  <2> QED BY <2>1, <2>2, <2>3
<1>5. CASE Chats
  <2>1. PICK x \in BrokerPacket :
          /\ Brings(x) /\ x.type \in {"CONNACK", "MALFORMED", "PINGRESP", "SUBACK", "UNSUBACK"}
          /\ x.type = "UNSUBACK" => Has(wire.sent, {"UNSUBSCRIBE"}, x.id)
    BY <1>5 DEF Chats
  <2>2. x.type \in Acks => Has(wire.sent, Requests, x.id)
    BY <2>1 DEF Acks, Requests, Has
  <2> QED BY <2>1, <2>2, BroughtAck
<1>6. ASSUME NEW x, Brings(x), x.type \notin Acks PROVE Has(Coming, Acks, i)
  BY <1>6, BringsElements DEF Has
<1>7. CASE TakesPubrel \/ TakesPubrec \/ Publishes
  <2>1. \A j : Answer("PUBCOMP", j).type \notin Acks /\ Answer("PUBREL", j).type \notin Acks
    BY DEF Answer, Acks
  <2>2. \A f : Message(f, FALSE).type \notin Acks
    BY DEF Message, Acks
  <2>3. CASE TakesPubrel
    <3>1. \E j : Brings(Answer("PUBCOMP", j))
      BY <2>3 DEF TakesPubrel
    <3> QED BY <1>6, <2>1, <3>1
  <2>4. CASE TakesPubrec
    <3>1. \E j : Brings(Answer("PUBREL", j))
      BY <2>4 DEF TakesPubrec
    <3> QED BY <1>6, <2>1, <3>1
  <2>5. CASE Publishes
    <3>1. \E f : Brings(Message(f, FALSE))
      BY <2>5 DEF Publishes, PublishesAs
    <3> QED BY <1>6, <2>2, <3>1
  <2> QED BY <1>7, <2>3, <2>4, <2>5
<1>8. CASE TakesAnswer
  BY <1>8 DEF TakesAnswer
<1>9. ClientKinds => Piece(Coming', Coming)
  BY ClientEffects
<1> QED BY <1>1, <1>2, <1>4, <1>5, <1>7, <1>8, <1>9 DEF BrokerKinds

LEMMA RequestsAreAsked ==
  ASSUME NEW x, Comes(x), x.type \in Requests
  PROVE  Asks(x)
BY DEF Comes, Requests

LEMMA StepFresh ==
  ASSUME Base, Base', MaxId > 1, packetId <= packetId', [Next]_vars, IdInv
  PROVE  Fresh'
<1>0. /\ TypeInv /\ TypeInv' /\ packetId \in Nat /\ packetId' \in Nat
      /\ ClientKinds \/ BrokerKinds
  BY StepIs DEF Base, TypeInv, ClientTyped
<1> SUFFICES ASSUME NEW i \in 1 .. MaxId, i > packetId'
             PROVE  /\ ~Has(outbox'.q, Requests, i) /\ ~Has(wire'.sent, Requests, i)
                    /\ ~Has(Coming', Acks, i)
  BY DEF Fresh
<1>1. i # 0 /\ i > packetId
  BY <1>0
<1>2. ~Has(outbox.q, Requests, i) /\ ~Has(wire.sent, Requests, i) /\ ~Has(Coming, Acks, i)
  BY <1>1 DEF IdInv, Fresh
<1>3. ASSUME NEW r, Asks(r) PROVE r.id # i
  BY <1>0, <1>1, <1>3, AskedFresh
<1>4. ~Has(outbox'.q, Requests, i)
  <2>1. CASE ClientKinds
    BY <1>0, <1>1, <1>2, <1>3, <2>1, OutboxHas, RequestsAreAsked
  <2>2. CASE BrokerKinds
    BY <1>0, <1>2, <2>2, BrokerEffects DEF Untouched
  <2> QED BY <1>0, <2>1, <2>2
<1>5. ~Has(wire'.sent, Requests, i)
  BY <1>0, <1>2, WireHas
<1>6. ~Has(Coming', Acks, i)
  BY <1>0, <1>2, AcksCome
<1> QED BY <1>4, <1>5, <1>6

LEMMA StepOne ==
  ASSUME Base, Base', MaxId > 1, packetId <= packetId', [Next]_vars, IdInv
  PROVE  One'
<1>0. TypeInv /\ TypeInv' /\ (ClientKinds \/ BrokerKinds) /\ outbox.q \in Seq(ClientPacket)
  BY StepIs, Sequences DEF Base
<1> SUFFICES ASSUME NEW i \in 1 .. MaxId PROVE AtMostOne(outbox'.q, Requests, i)
  BY DEF One
<1>1. i # 0 /\ AtMostOne(outbox.q, Requests, i)
  BY DEF IdInv, One
<1>2. ASSUME NEW t, Fewer(t, outbox.q) PROVE AtMostOne(t, Requests, i)
  BY <1>1, <1>2 DEF Fewer
<1>3. CASE Calm \/ Writes \/ NewSession \/ Unsubscribed \/ \E a, type : Completes(a, type)
  BY <1>2, <1>3 DEF Calm, Writes, NewSession, Unsubscribed, Completes, Drops
<1>4. ASSUME NEW r \in ClientPacket, Asks(r) PROVE AtMostOne(outbox'.q, Requests, i)
  <2>1. outbox'.q = Append(outbox.q, r)
    BY <1>4 DEF Asks
  <2>2. CASE r.id = i
    <3>1. r.id > packetId
      BY <1>1, <1>4, <2>2, AskedFresh
    <3>2. ~Has(outbox.q, Requests, i)
      BY <2>2, <3>1 DEF IdInv, Fresh
    <3> QED BY <1>0, <1>1, <2>1, <3>2, AppendHas
  <2>3. CASE r.id # i
    BY <1>0, <1>1, <2>1, <2>3, AppendHas
  <2> QED BY <2>2, <2>3
<1>5. CASE ClearsAll
  BY <1>5 DEF ClearsAll, AtMostOne
<1>6. ASSUME NEW t \in Seq(ClientPacket), Fewer(t, outbox.q), NEW x \in ClientPacket,
             x.type \notin Requests, outbox'.q = Append(t, x) \/ outbox'.q = t
      PROVE  AtMostOne(outbox'.q, Requests, i)
  <2>1. AtMostOne(t, Requests, i)
    BY <1>2, <1>6
  <2>2. AtMostOne(Append(t, x), Requests, i)
    BY <1>6, <2>1, AppendHas
  <2> QED BY <1>6, <2>1, <2>2
<1>7. CASE Delivers
  <2>1. PICK p \in BrokerPacket : Delivering(p)
    BY <1>7 DEF Delivers
  <2> DEFINE x == Ctl(IF p.qos = 1 THEN "PUBACK" ELSE "PUBREC", p.id)
  <2>2. outbox'.q = Append(outbox.q, x) \/ outbox'.q = outbox.q
    BY <2>1 DEF Delivering
  <2>3. x \in ClientPacket /\ x.type \notin Requests
    <3>1. p.id \in BrokerMsg
      BY <2>1 DEF Delivering, BrokerPacket
    <3> QED BY <3>1, CtlTyped DEF Ctl, Requests
  <2> HIDE DEF x
  <2> QED BY <1>0, <1>6, <2>2, <2>3, FewerItself
<1>8. ASSUME NEW answer \in {"PUBREC", "PUBREL"}, NEW type, NEW reply,
             Continues(answer, type, reply),
             answer = "PUBREC" => reply = "PUBREL", answer = "PUBREL" => reply = "PUBCOMP"
      PROVE  AtMostOne(outbox'.q, Requests, i)
  <2>1. PICK p \in BrokerPacket, t \in Seq(ClientPacket) :
          /\ p.type = answer /\ Drops(t, outbox.q, type, p.id)
          /\ outbox'.q = Append(t, Ctl(reply, p.id)) \/ outbox'.q = t
    BY <1>8 DEF Continues
  <2>2. Ctl(reply, p.id) \in ClientPacket
    <3>1. /\ answer = "PUBREC" => p.id \in 1 .. MaxId
          /\ answer = "PUBREL" => p.id \in BrokerMsg
      BY <2>1, BrokerPacketParts
    <3> QED BY <1>8, <3>1, CtlTyped
  <2>3. Ctl(reply, p.id).type \notin Requests
    BY <1>8 DEF Ctl, Requests
  <2>4. Fewer(t, outbox.q)
    BY <2>1 DEF Drops
  <2> QED BY <1>6, <2>1, <2>2, <2>3, <2>4
<1>9. CASE Continues("PUBREC", "PUBLISH", "PUBREL") \/ Continues("PUBREL", "PUBREC", "PUBCOMP")
  <2>1. Continues("PUBREC", "PUBLISH", "PUBREL") => AtMostOne(outbox'.q, Requests, i)
    BY <1>8
  <2>2. Continues("PUBREL", "PUBREC", "PUBCOMP") => AtMostOne(outbox'.q, Requests, i)
    BY <1>8
  <2> QED BY <1>9, <2>1, <2>2
<1>10. CASE BrokerKinds
  BY <1>0, <1>1, <1>10, BrokerEffects DEF Untouched
<1>11. CASE ClientKinds
  BY <1>3, <1>4, <1>5, <1>7, <1>9, <1>11 DEF ClientKinds
<1> QED BY <1>0, <1>10, <1>11

\* The id of a PUBLISH of the outbox is not beyond the counter.
LEMMA UsedIds ==
  ASSUME TypeInv, IdInv, HasCurrent(outbox), Current(outbox).type = "PUBLISH"
  PROVE  /\ Current(outbox) \in ClientPacket /\ outbox.c \in 1 .. Len(outbox.q)
         /\ Current(outbox).id \in 0 .. packetId
<1>0. outbox \in Box(ClientPacket) /\ packetId \in 0 .. MaxId /\ MaxId \in Nat
  BY Sequences, ClientAssumption DEF TypeInv, ClientTyped
<1>1. outbox.c \in 1 .. Len(outbox.q) /\ Current(outbox) = outbox.q[outbox.c]
  BY <1>0 DEF Box, HasCurrent, Current
<1>2. Current(outbox) \in ClientPacket
  BY <1>0, <1>1, ElementOfSeq DEF Box
<1>3. Current(outbox).id = 0 \/ Current(outbox).id \in 1 .. MaxId
  BY <1>2 DEF ClientPacket
<1>4. Has(outbox.q, Requests, Current(outbox).id)
  BY <1>1 DEF Has, Requests
<1>5. ~(Current(outbox).id \in 1 .. MaxId /\ Current(outbox).id > packetId)
  BY <1>4 DEF IdInv, Fresh
<1> QED BY <1>0, <1>1, <1>2, <1>3, <1>5

LEMMA StepOld ==
  ASSUME Base, Base', packetId <= packetId', [Next]_vars, IdInv, wire'.ok
  PROVE  Old'
<1>0. TypeInv /\ packetId \in Nat /\ packetId' \in Nat
  BY DEF Base, TypeInv, ClientTyped
<1> SUFFICES ASSUME NEW i \in wire'.once PROVE i \in 0 .. packetId'
  BY DEF Old
<1>1. CASE i \in wire.once
  <2>1. i \in 0 .. packetId
    BY <1>1 DEF IdInv, Old
  <2> QED BY <1>0, <2>1
<1>2. CASE i \notin wire.once
  <2>1. SendPacket /\ WritesEnd /\ HasCurrent(outbox)
    <3>1. SendPacket
      BY <1>0, <1>2, WireRests
    <3>2. HasCurrent(outbox) /\ (UNCHANGED wire \/ WritesPart \/ WritesEnd)
      BY <1>0, <3>1, SendParts
    <3>3. ~UNCHANGED wire
      BY <1>2
    <3>4. ~WritesPart
      BY <1>2 DEF WritesPart
    <3> QED BY <3>1, <3>2, <3>3, <3>4
  <2>2. Current(outbox).type = "PUBLISH" /\ i = Current(outbox).id
    BY <1>2, <2>1 DEF WritesEnd
  <2>3. i \in 0 .. packetId
    BY <1>0, <2>1, <2>2, UsedIds
  <2> QED BY <1>0, <2>3
<1> QED BY <1>1, <1>2

LEMMA OnceMoves ==
  ASSUME TypeInv, [Next]_vars, wire'.ok
  PROVE  \/ wire'.once = wire.once
         \/ /\ SendPacket /\ WritesEnd /\ HasCurrent(outbox) /\ Current(outbox).type = "PUBLISH"
            /\ wire'.once = wire.once \cup {Current(outbox).id}
<1>1. CASE ~SendPacket
  BY <1>1, WireRests
<1>2. CASE SendPacket
  <2>1. HasCurrent(outbox) /\ (UNCHANGED wire \/ WritesPart \/ WritesEnd)
    BY <1>2, SendParts
  <2> QED BY <1>2, <2>1 DEF WritesPart, WritesEnd
<1> QED BY <1>1, <1>2

\* A PUBLISH of the outbox is marked exactly if it was sent before.
Marked ==
  \A k \in 1 .. Len(outbox.q) :
    outbox.q[k].type = "PUBLISH" /\ outbox.q[k].id # 0 =>
      (outbox.q[k].dup <=> outbox.q[k].id \in wire.once)

LEMMA StepMarked ==
  ASSUME Base, Base', Dials, Mute, Whole, IdInv, Marked, MaxId > 1, packetId <= packetId',
         [Next]_vars, wire'.ok
  PROVE  Marked'
<1>0. /\ TypeInv /\ outbox \in Box(ClientPacket) /\ outbox.q \in Seq(ClientPacket)
      /\ packetId \in 0 .. MaxId /\ packetId' \in 0 .. MaxId /\ MaxId \in Nat
  BY Sequences, ClientAssumption DEF Base, TypeInv, ClientTyped
<1> SUFFICES ASSUME NEW k \in 1 .. Len(outbox'.q),
                    outbox'.q[k].type = "PUBLISH", outbox'.q[k].id # 0
             PROVE  outbox'.q[k].dup <=> outbox'.q[k].id \in wire'.once
  BY DEF Marked
<1>1. CASE Kin(k)
  <2>1. PICK j \in 1 .. Len(outbox.q) :
          outbox'.q[k] = outbox.q[j] /\ (SendPacket /\ WritesEnd => j # outbox.c)
    BY <1>1 DEF Kin
  <2>2. outbox.q[j].dup <=> outbox.q[j].id \in wire.once
    BY <2>1 DEF Marked
  <2>3. CASE wire'.once = wire.once
    BY <2>1, <2>2, <2>3
  <2>4. CASE /\ SendPacket /\ WritesEnd /\ HasCurrent(outbox) /\ Current(outbox).type = "PUBLISH"
             /\ wire'.once = wire.once \cup {Current(outbox).id}
    <3>1. outbox.c \in 1 .. Len(outbox.q) /\ Current(outbox) = outbox.q[outbox.c]
      BY <1>0, <2>4 DEF Box, HasCurrent, Current
    <3>2. outbox.q[j].id \in 1 .. MaxId
      <4>1. outbox.q[j] \in ClientPacket
        BY <1>0, <2>1
      <4> QED BY <2>1, <4>1 DEF ClientPacket
    <3>3. AtMostOne(outbox.q, Requests, outbox.q[j].id)
      BY <3>2 DEF IdInv, One
    <3>4. outbox.q[j].id # outbox.q[outbox.c].id
      BY <2>1, <2>4, <3>1, <3>3 DEF AtMostOne, Requests
    <3> QED BY <2>1, <2>2, <2>4, <3>1, <3>4
  <2> QED BY <1>0, <2>3, <2>4, OnceMoves
<1>2. CASE Marks(k)
  <2>1. /\ WritesEnd /\ Current(outbox).type = "PUBLISH"
        /\ outbox'.q[k] = [Current(outbox) EXCEPT !.dup = TRUE]
    BY <1>2 DEF Marks
  <2>2. HasCurrent(outbox)
    BY <1>2 DEF Marks, SendPacket, WantToWrite
  <2>3. Current(outbox) \in ClientPacket
    BY <1>0, <2>1, <2>2, UsedIds
  <2>4. DOMAIN Current(outbox) = {"type", "id", "qos", "dup"}
    BY <2>3 DEF ClientPacket, Packet
  <2>5. outbox'.q[k].dup = TRUE /\ outbox'.q[k].id = Current(outbox).id
    BY <2>1, <2>4
  <2>6. Current(outbox).id \in wire'.once
    BY <2>1 DEF WritesEnd
  <2> QED BY <2>5, <2>6
<1>3. CASE Appends(outbox'.q[k]) /\ ~SendPacket
  <2>1. /\ ~outbox'.q[k].dup
        /\ outbox'.q[k].id = NextPacketId /\ packetId' = NextPacketId
    BY <1>3 DEF Appends
  <2>2. NextPacketId > packetId
    BY <1>0, <2>1 DEF NextPacketId
  <2>3. outbox'.q[k].id \notin 0 .. packetId
    BY <1>0, <2>1, <2>2
  <2>4. wire'.once = wire.once
    BY <1>0, <1>3, WireRests
  <2> QED BY <2>1, <2>3, <2>4 DEF IdInv, Old
<1> QED BY <1>0, <1>1, <1>2, <1>3, Elements

-----------------------------------------------------------------------------
(* DUP on the wire *)

MarkInv == DialInv /\ Whole /\ IdInv /\ Marked

LEMMA ClearMoves ==
  ASSUME TypeInv, NEW t \in Thread, ClearQueueCall(t)
  PROVE  ~UNCHANGED vars
<1>1. apc \in [Thread -> Calls \cup {None}]
  BY DEF TypeInv, ControlTyped
<1>2. apc[t] # None /\ apc' = [apc EXCEPT ![t] = None]
  BY NoneAssumption DEF ClearQueueCall, Return, Calls
<1>3. apc' # apc
  BY <1>1, <1>2
<1> QED BY <1>3 DEF vars, clientVars, app

LEMMA InitMarkInv == Init => MarkInv
<1> SUFFICES ASSUME Init PROVE MarkInv
  OBVIOUS
<1>1. /\ outbox.q = <<>> /\ bytesSent = 0 /\ packetId = 0 /\ PubSize # 0
      /\ wire.sent = <<>> /\ wire.once = {} /\ rx = <<>> /\ s2c = <<>>
  BY ClientAssumption DEF Init, ClientInit, EmptyOutbox, NewWire
<1>2. Coming = <<>>
  BY <1>1 DEF Coming
<1>3. Fresh /\ Old /\ One /\ Marked
  BY <1>1, <1>2 DEF Fresh, Old, One, Marked, Has, AtMostOne
<1> QED BY <1>1, <1>3, InitDialInv DEF MarkInv, Whole, IdInv

LEMMA StepMarkInv ==
  ASSUME OneThread, MaxId > 1, MarkInv, [Next]_vars, packetId <= packetId', wire'.ok,
         HasConnect => \A t \in Thread : ~ClearQueueCall(t)
  PROVE  MarkInv'
<1>1. DialInv'
  BY StepDialInv DEF MarkInv
<1>2. Base /\ Base' /\ TypeInv /\ TypeInv' /\ Dials /\ Mute /\ Whole /\ IdInv /\ Marked
  BY <1>1 DEF MarkInv, DialInv, Base
<1>3. Whole'
  BY <1>2, StepWhole
<1>4. IdInv'
  BY <1>2, StepFresh, StepOld, StepOne DEF IdInv
<1>5. Marked'
  BY <1>2, StepMarked
<1> QED BY <1>1, <1>3, <1>4, <1>5 DEF MarkInv

\* What reaches the wire is marked as it was in the outbox.
LEMMA WrittenMarked ==
  ASSUME MarkInv, [Next]_vars, TypeInv', wire'.ok,
         NEW k \in Len(wire.sent) + 1 .. Len(wire'.sent),
         wire'.sent[k].type = "PUBLISH", wire'.sent[k].id # 0
  PROVE  wire'.sent[k].dup <=> wire'.sent[k].id \in wire.once
<1>0. /\ TypeInv /\ outbox \in Box(ClientPacket) /\ outbox.q \in Seq(ClientPacket)
      /\ wire.sent \in Seq(ClientPacket) /\ wire'.sent \in Seq(ClientPacket)
      /\ Len(wire.sent) \in Nat /\ Len(wire'.sent) \in Nat
  BY Sequences DEF MarkInv, DialInv, Base, TypeInv, WireTyped
<1>1. Len(wire'.sent) > Len(wire.sent)
  BY <1>0
<1>2. ~Piece(wire'.sent, wire.sent)
  BY <1>0, <1>1 DEF Piece
<1>3. SendPacket
  BY <1>0, <1>2, WireMoves
<1>4. HasCurrent(outbox) /\ WritesEnd
  <2>1. HasCurrent(outbox) /\ (UNCHANGED wire \/ WritesPart \/ WritesEnd)
    BY <1>0, <1>3, SendParts
  <2>2. wire'.sent # wire.sent
    BY <1>0, <1>1
  <2> QED BY <2>1, <2>2 DEF WritesPart
<1>5. outbox.c \in 1 .. Len(outbox.q) /\ Current(outbox) = outbox.q[outbox.c]
  BY <1>0, <1>4 DEF Box, HasCurrent, Current
<1>6. Current(outbox) \in ClientPacket
  BY <1>0, <1>5
<1>7. wire'.sent[k] = Current(outbox)
  BY <1>0, <1>4, <1>6 DEF WritesEnd
<1> QED BY <1>5, <1>7 DEF MarkInv, Marked

\* clearQueue(), which would remove CONNECT, is not called while it is in the outbox.
NoClearOfConnect == [][HasConnect => \A t \in Thread : ~ClearQueueCall(t)]_vars

\* A PUBLISH is marked as a duplicate exactly when it was written before, also when
\* another thread makes the calls, over losses and reconnections and with _checkTimeout()
\* moving the cursor back at any time, while the bytes on the wire belong together:
\* setDup() marks what was sent as a whole, _clearQueue() and remove() never bring an
\* unmarked one back before the cursor (MqttClient.cpp:379-398, 490-497).
THEOREM DupsAreMarked ==
  ASSUME OneThread, MaxId > 1
  PROVE  Spec /\ NoClearOfConnect /\ IdsRise /\ []wire.ok => DupMarksRetransmission
<1> DEFINE Step == HasConnect => \A t \in Thread : ~ClearQueueCall(t)
           Rise == packetId <= packetId'
           Marks1 == \A k \in Len(wire.sent) + 1 .. Len(wire'.sent) :
             LET p == wire'.sent[k]
             IN  p.type = "PUBLISH" /\ p.id # 0 => (p.dup <=> p.id \in wire.once)
           Ok == wire.ok
<1>1. Init => MarkInv
  BY InitMarkInv
<1>2. MarkInv /\ [Next]_vars /\ [Step]_vars /\ [Rise]_vars /\ Ok' => MarkInv' /\ [Marks1]_vars
  <2> SUFFICES ASSUME MarkInv, [Next]_vars, [Step]_vars, [Rise]_vars, wire'.ok
               PROVE  MarkInv' /\ Marks1
    OBVIOUS
  <2>1. TypeInv /\ packetId \in Nat
    BY DEF MarkInv, DialInv, Base, TypeInv, ClientTyped
  <2>2. Step
    BY <2>1, ClearMoves
  <2>3. packetId <= packetId'
    BY <2>1 DEF vars, clientVars, client
  <2>4. MarkInv'
    BY <2>2, <2>3, StepMarkInv
  <2>5. TypeInv'
    BY <2>4 DEF MarkInv, DialInv, Base
  <2>6. Marks1
    BY <2>5, WrittenMarked
  <2> QED BY <2>4, <2>6
<1> QED BY <1>1, <1>2, PTL DEF Spec, NoClearOfConnect, IdsRise, DupMarksRetransmission

-----------------------------------------------------------------------------
(* CONNECT comes first, calls beside the loop or not *)

LEMMA WritesInTurn ==
  ASSUME DialInv, Unread, SendPacket, Finishes
  PROVE  InTurn
<1>0. /\ TypeInv /\ Dials /\ Mute /\ Heard /\ outbox \in Box(ClientPacket)
      /\ lpc = "send" /\ PubSize \in Nat
  BY Sequences, ClientAssumption DEF DialInv, Base, SendPacket, At
<1>1. /\ outbox.c \in 1 .. Len(outbox.q) /\ outbox.q[outbox.c] = Current(outbox)
      /\ tcp = "open" /\ bytesSent < Size(Current(outbox))
  BY <1>0 DEF Finishes, HasCurrent, Current, Box
<1>2. CASE HasConnect
  <2>1. Current(outbox).type = "CONNECT"
    BY <1>0, <1>2, SendsOf
  <2>2. bytesSent # PubSize
    BY <1>0, <1>1, <2>1 DEF Size
  <2>3. Silent
    BY <1>0, <1>2, <2>2 DEF Mute, OnLine
  <2> QED BY <1>1, <2>1, <2>3 DEF Silent, Unread, InTurn
<1>3. CASE ~HasConnect
  <2>1. bConn # "wait"
    BY <1>0, <1>1, <1>3 DEF Heard, ConnackTaken
  <2>2. Current(outbox).type # "CONNECT"
    BY <1>1, <1>3 DEF HasConnect, Without
  <2> QED BY <2>1, <2>2 DEF InTurn
<1> QED BY <1>2, <1>3

\* CONNECT is the first packet of a connection also when another thread makes the calls:
\* connect() puts it before whatever publish() has queued, only the branches that
\* connect write it, and CONNACK removes it (MqttClient.cpp:108-138, 246-258, 503-507).
THEOREM ConnectLeadsBeside ==
  ASSUME OneThread PROVE Spec /\ NoClearOfConnect => []ConnectFirst
<1> DEFINE Inv == DialInv /\ Unread
           Step == HasConnect => \A t \in Thread : ~ClearQueueCall(t)
<1>1. Init => Inv
  <2> SUFFICES ASSUME Init PROVE Unread
    BY InitDialInv
  <2>1. wire.sent = <<>> /\ tcp = "closed"
    BY DEF Init, ClientInit, NewWire
  <2> QED BY <2>1 DEF Unread, Without
<1>2. Inv /\ [Next]_vars /\ [Step]_vars => Inv'
  <2> SUFFICES ASSUME Inv, [Next]_vars, [Step]_vars PROVE Inv'
    OBVIOUS
  <2>1. TypeInv
    BY DEF DialInv, Base
  <2>2. Step
    BY <2>1, ClearMoves
  <2>3. DialInv'
    BY <2>2, StepDialInv
  <2>4. TypeInv'
    BY <2>3 DEF DialInv, Base
  <2>5. Unread'
    BY <2>1, <2>4, StepUnread, WritesInTurn
  <2> QED BY <2>3, <2>5
<1>3. Inv => ConnectFirst
  BY UnreadFirst DEF DialInv, Base
<1> QED BY <1>1, <1>2, <1>3, PTL DEF Spec, NoClearOfConnect

-----------------------------------------------------------------------------
(* Without a retransmission, what is to be sent was not sent on this connection *)

Ahead(i) ==
  \E k \in outbox.c .. Len(outbox.q) : outbox.q[k].type = "PUBLISH" /\ outbox.q[k].id = i

NotSent ==
  tcp = "open" => \A i \in 1 .. MaxId :
    Ahead(i) => ~Has(wire.sent, Requests, i) /\ ~Has(Coming, Acks, i)

\* What is written next to the packets of id i is not one of them.
LEMMA OthersWritten ==
  ASSUME TypeInv, TypeInv', [Next]_vars, wire'.ok, NEW i, ~Has(wire.sent, Requests, i),
         SendPacket /\ WritesEnd => ~(Current(outbox).type \in Requests /\ Current(outbox).id = i)
  PROVE  ~Has(wire'.sent, Requests, i)
<1>0. wire.sent \in Seq(ClientPacket) /\ wire'.sent \in Seq(ClientPacket)
  BY Sequences DEF TypeInv, WireTyped
<1>1. CASE Piece(wire'.sent, wire.sent)
  BY <1>0, <1>1, PieceHas
<1>2. CASE SendPacket /\ ~Piece(wire'.sent, wire.sent)
  <2>1. HasCurrent(outbox) /\ (wire'.sent = wire.sent \/ WritesEnd)
    BY <1>2, SendParts DEF WritesPart
  <2>2. CASE wire'.sent = wire.sent
    BY <2>2
  <2>3. CASE WritesEnd
    <3>1. wire'.sent = Append(wire.sent, Current(outbox))
      BY <2>3 DEF WritesEnd
    <3>2. Current(outbox) \in ClientPacket
      BY <2>1, Sequences, ElementOfSeq DEF Box, HasCurrent, Current
    <3> QED BY <1>0, <1>2, <2>3, <3>1, <3>2, AppendHas
  <2> QED BY <2>1, <2>2, <2>3
<1> QED BY <1>1, <1>2, WireMoves

LEMMA StepNotSent ==
  ASSUME Base, Base', Dials, Mute, Whole, IdInv, NotSent, MaxId > 1, packetId <= packetId',
         [Next]_vars, wire'.ok, ~Retry
  PROVE  NotSent'
<1>0. /\ TypeInv /\ TypeInv' /\ outbox \in Box(ClientPacket) /\ outbox' \in Box(ClientPacket)
      /\ packetId \in 0 .. MaxId /\ packetId' \in 0 .. MaxId /\ MaxId \in Nat
      /\ ClientKinds \/ BrokerKinds
  BY Sequences, StepIs, ClientAssumption DEF Base, TypeInv, ClientTyped, OutboxTyped
<1> SUFFICES ASSUME tcp' = "open", NEW i \in 1 .. MaxId, NEW k \in outbox'.c .. Len(outbox'.q),
                    outbox'.q[k].type = "PUBLISH", outbox'.q[k].id = i
             PROVE  ~Has(wire'.sent, Requests, i) /\ ~Has(Coming', Acks, i)
  BY DEF NotSent, Ahead
<1>1. CASE ConnectStep
  <2>1. lpc = "tcp1" /\ wire'.sent = <<>> /\ s2c' = <<>> /\ rx' = rx
    BY <1>1, ConnectStepOpens
  <2>2. rx = <<>>
    BY <1>0, <2>1 DEF TypeInv, IncomingTyped
  <2>3. Coming' = <<>>
    BY <2>1, <2>2 DEF Coming
  <2> QED BY <2>1, <2>3 DEF Has
<1>2. CASE ~ConnectStep
  <2>1. tcp = "open"
    BY <1>0, <1>2, ConnMoves
  <2>2. k \in 1 .. Len(outbox'.q) /\ ~(k < outbox'.c)
    BY <1>0 DEF Box
  <2>3. ~Retransmit
    BY DEF Retransmit, RetryDue
  <2>4. /\ ~Has(wire.sent, Requests, i) /\ ~Has(Coming, Acks, i)
        /\ SendPacket /\ WritesEnd => ~(Current(outbox).type \in Requests /\ Current(outbox).id = i)
    <3>1. CASE Kin(k)
      <4>1. PICK j \in 1 .. Len(outbox.q) :
              /\ outbox'.q[k] = outbox.q[j] /\ j >= outbox.c
              /\ SendPacket /\ WritesEnd => j # outbox.c
        BY <2>1, <2>2, <2>3, <3>1 DEF Kin
      <4>2. Ahead(i)
        BY <4>1 DEF Ahead
      <4>3. ~Has(wire.sent, Requests, i) /\ ~Has(Coming, Acks, i)
        BY <2>1, <4>2 DEF NotSent
      <4>4. ASSUME SendPacket, WritesEnd PROVE ~(Current(outbox).type \in Requests /\ Current(outbox).id = i)
        <5>1. HasCurrent(outbox)
          BY <4>4 DEF SendPacket, WantToWrite
        <5>2. outbox.c \in 1 .. Len(outbox.q) /\ Current(outbox) = outbox.q[outbox.c]
          BY <1>0, <5>1 DEF Box, HasCurrent, Current
        <5>3. AtMostOne(outbox.q, Requests, i)
          BY DEF IdInv, One
        <5>4. outbox.q[j].type \in Requests /\ outbox.q[j].id = i /\ j # outbox.c
          BY <4>1, <4>4 DEF Requests
        <5> QED BY <4>1, <5>2, <5>3, <5>4 DEF AtMostOne
      <4> QED BY <4>3, <4>4
    <3>2. CASE Marks(k)
      BY <2>2, <3>2 DEF Marks
    <3>3. CASE Appends(outbox'.q[k]) /\ ~SendPacket
      <4>1. i = NextPacketId /\ packetId' = NextPacketId
        BY <3>3 DEF Appends
      <4>2. i > packetId
        BY <1>0, <4>1 DEF NextPacketId
      <4> QED BY <3>3, <4>2 DEF IdInv, Fresh
    <3> QED BY <1>0, <2>2, <3>1, <3>2, <3>3, Elements
  <2>5. ~Has(wire'.sent, Requests, i)
    BY <1>0, <2>4, OthersWritten
  <2>6. ~Has(Coming', Acks, i)
    BY <1>0, <2>4, AcksCome
  <2> QED BY <2>5, <2>6
<1> QED BY <1>1, <1>2

-----------------------------------------------------------------------------
(* The bytes on the wire belong together *)

\* _bytesSent counts bytes of the current packet, and they are what is on the wire.
Counts ==
  IF wire.part = None
  THEN bytesSent = 0 \/ (FullySent(outbox, bytesSent) /\ Current(outbox).type = "CONNECT")
  ELSE /\ HasCurrent(outbox) /\ wire.part = [pkt |-> Current(outbox), off |-> bytesSent]
       /\ bytesSent \in 1 .. Size(Current(outbox)) - 1

Framed == wire.ok /\ (tcp = "open" => Counts)

LEMMA WireStaysOk ==
  ASSUME TypeInv, [Next]_vars, Framed
  PROVE  wire'.ok
<1>1. CASE ~SendPacket
  BY <1>1, WireRests DEF Framed
<1>2. CASE SendPacket
  <2> DEFINE p == Current(outbox)
  <2>0. DOMAIN wire = {"sent", "part", "ok", "once"}
    BY DEF TypeInv, WireTyped
  <2>1. PICK k \in 0 .. WantToWrite :
          Writable(k) /\ wire' = Write(wire, p, bytesSent, k)
    BY <1>2 DEF SendPacket
  <2>2. HasCurrent(outbox) /\ bytesSent < Size(p)
    BY <1>2 DEF SendPacket, WantToWrite
  <2>3. CASE k = 0
    <3>1. wire' = wire
      BY <2>1, <2>3 DEF Write
    <3> QED BY <3>1 DEF Framed
  <2>4. CASE k > 0
    <3>1. Counts
      <4>1. k # 0
        BY <2>4
      <4> QED BY <2>1, <4>1 DEF Writable, Framed
    <3>2. bytesSent # Size(p)
      <4>1. Size(p) \in 1 .. PubSize
        BY ClientAssumption DEF Size
      <4> QED BY <2>2, <4>1, ClientAssumption DEF TypeInv, ClientTyped, SizeMax
    <3>3. wire.part = IF bytesSent = 0 THEN None ELSE [pkt |-> p, off |-> bytesSent]
      BY <3>1, <3>2 DEF Counts, FullySent
    <3>4. \E v : wire' = [wire EXCEPT !.part = v]
               \/ \E s, o : wire' = [wire EXCEPT !.sent = s, !.part = None, !.once = o]
      <4>1. CASE bytesSent + k < Size(p)
        <5>1. wire' = [wire EXCEPT !.part = [pkt |-> p, off |-> bytesSent + k]]
          BY <2>1, <2>4, <3>3, <4>1 DEF Write
        <5> QED BY <5>1
      <4>2. CASE ~(bytesSent + k < Size(p))
        <5>1. ~(k = 0)
          BY <2>4
        <5>2. wire' = [wire EXCEPT !.sent = Append(@, p), !.part = None,
                         !.once = IF p.type = "PUBLISH" THEN @ \cup {p.id} ELSE @]
          BY <2>1, <2>4, <3>3, <4>2, <5>1 DEF Write
        <5> QED BY <5>2
      <4> QED BY <4>1, <4>2
    <3>5. wire'.ok = wire.ok
      BY <2>0, <3>4
    <3> QED BY <3>5 DEF Framed
  <2>5. k = 0 \/ k > 0
    OBVIOUS
  <2> QED BY <2>3, <2>4, <2>5
<1> QED BY <1>1, <1>2

LEMMA SendCounts ==
  ASSUME TypeInv, Dials, SendPacket, wire'.ok, Counts
  PROVE  Counts'
<1>0. outbox \in Box(ClientPacket) /\ lpc = "send" /\ ClientPacket \subseteq Packet
  BY Sequences DEF SendPacket, At, ClientPacket
<1>1. CASE UNCHANGED <<wire, outbox, bytesSent>>
  BY <1>1 DEF Counts
<1>2. CASE WritesPart /\ HasCurrent(outbox)
  <2>1. PICK m \in bytesSent + 1 .. Size(Current(outbox)) - 1 :
          /\ bytesSent' = m /\ outbox' = outbox
          /\ wire'.part = [pkt |-> Current(outbox), off |-> m]
    BY <1>2 DEF WritesPart
  <2>2. bytesSent \in Nat /\ Size(Current(outbox)) \in 1 .. PubSize /\ PubSize \in Nat
    BY <1>2, ClientAssumption, SendParts DEF Size
  <2>3. m \in 1 .. Size(Current(outbox)) - 1 /\ m \in 0 .. PubSize
    BY <2>1, <2>2
  <2>4. Current(outbox) \in Packet
    BY <1>0, <1>2, ElementOfSeq DEF Box, HasCurrent, Current
  <2>5. wire'.part \in [pkt : Packet, off : 0 .. PubSize]
    BY <2>1, <2>3, <2>4
  <2>6. wire'.part # None
    BY <2>5, PartAssumption
  <2>7. HasCurrent(outbox') /\ Current(outbox') = Current(outbox)
    BY <1>2, <2>1
  <2> QED BY <2>1, <2>3, <2>6, <2>7 DEF Counts
<1>3. CASE WritesEnd /\ HasCurrent(outbox)
  <2>1. wire'.part = None
    BY <1>3 DEF WritesEnd
  <2>2. CASE branch = "mqtt"
    <3>1. bytesSent' = Size(Current(outbox)) /\ outbox' = outbox
      BY <1>3, <2>2 DEF WritesEnd
    <3>2. Current(outbox).type = "CONNECT"
      BY <1>0, <2>2, SendsOf
    <3> QED BY <1>3, <2>1, <3>1, <3>2 DEF Counts, FullySent
  <2>3. CASE branch # "mqtt"
    <3>1. bytesSent' = 0
      BY <1>3, <2>3 DEF WritesEnd
    <3> QED BY <2>1, <3>1 DEF Counts
  <2> QED BY <2>2, <2>3
<1> QED BY <1>1, <1>2, <1>3, SendParts

\* The packet that is being sent is not removed.
LEMMA CurrentStays ==
  ASSUME TypeInv, NotSent, Edits, tcp = "open", HasCurrent(outbox),
         Current(outbox).type \in {"PUBLISH", "CONNECT"}
  PROVE  SameCurrent(outbox', outbox)
<1>0. outbox \in Box(ClientPacket)
  BY Sequences
<1>1. outbox.c \in outbox.c .. Len(outbox.q) /\ Current(outbox) = outbox.q[outbox.c]
  BY <1>0 DEF Box, HasCurrent, Current
<1>2. Current(outbox) \in ClientPacket
  BY <1>0, <1>1, ElementOfSeq DEF Box
<1>3. CASE Current(outbox).id # 0
  <2>1. Current(outbox).type = "PUBLISH" /\ Current(outbox).id \in 1 .. MaxId
    BY <1>2, <1>3 DEF ClientPacket
  <2>2. Ahead(Current(outbox).id)
    BY <1>1, <2>1 DEF Ahead
  <2>3. ~Has(Coming, Acks, Current(outbox).id)
    BY <2>1, <2>2 DEF NotSent
  <2> QED BY <2>1, <2>3, EditElements
<1>4. CASE Current(outbox).id = 0
  BY <1>4, EditElements
<1> QED BY <1>3, <1>4

LEMMA OtherCounts ==
  ASSUME TypeInv, TypeInv', Dials, Mute, Heard, NotSent, Counts, [Next]_vars, ~Retry,
         ~SendPacket, tcp = "open", tcp' = "open", wire'.part = wire.part,
         bytesSent # 0 => \A t \in Thread : ~ClearQueueCall(t)
  PROVE  Counts'
<1>0. PubSize \in Nat \ {0}
  BY ClientAssumption
<1>1. ~SendFails /\ ~Disconnected
  BY DEF SendFails, Disconnected, TransportConnected
<1>2. ~Retransmit
  BY DEF Retransmit, RetryDue
<1>3. \A t \in Thread : ~Connect(t)
  BY DEF Connect, Return, Dials
<1>4. CASE bytesSent = 0
  <2>1. wire.part = None
    BY <1>4 DEF Counts
  <2>2. bytesSent' = 0
    <3>1. OnConnack => bytesSent' = 0 \/ bytesSent' = bytesSent
      BY DEF OnConnack
    <3> QED BY <1>1, <1>4, <3>1, SentMoves
  <2> QED BY <2>1, <2>2 DEF Counts
<1>5. CASE bytesSent # 0 /\ OnConnack
  <2>1. ~Without(Coming, "CONNACK")
    <3>1. At("parse") /\ Head(rx).type = "CONNACK"
      BY <1>5 DEF OnConnack, Incoming
    <3>2. 1 \in 1 .. Len(Coming) /\ Coming[1] = Head(rx)
      BY <3>1, HeadIsFirst
    <3> QED BY <3>1, <3>2 DEF Without
  <2>2. HasConnect
    BY <2>1 DEF Heard, ConnackTaken
  <2>3. FullySent(outbox, bytesSent)
    BY <1>5, <2>2, ConnackFinds
  <2>4. wire.part = None
    <3>1. bytesSent = Size(Current(outbox)) /\ Size(Current(outbox)) \in Nat
      BY <1>0, <2>3 DEF FullySent, Size
    <3>2. bytesSent \notin 1 .. Size(Current(outbox)) - 1
      BY <3>1
    <3> QED BY <3>2 DEF Counts
  <2>5. bytesSent' = 0
    BY <1>5, <2>3 DEF OnConnack
  <2> QED BY <2>4, <2>5 DEF Counts
<1>6. CASE bytesSent # 0 /\ ~OnConnack
  <2>1. bytesSent' = bytesSent
    BY <1>1, <1>6, SentMoves
  <2>2. Edits
    BY <1>1, <1>2, <1>3, <1>6, OutboxEdits
  <2>3. HasCurrent(outbox)
    BY <1>6 DEF Counts, FullySent
  <2>4. Current(outbox).type \in {"PUBLISH", "CONNECT"}
    <3>1. CASE wire.part = None
      BY <1>6, <3>1 DEF Counts
    <3>2. CASE wire.part # None
      <4>1. bytesSent \in 1 .. Size(Current(outbox)) - 1
        BY <3>2 DEF Counts
      <4>2. Size(Current(outbox)) # 1
        BY <4>1
      <4> QED BY <4>2 DEF Size
    <3> QED BY <3>1, <3>2
  <2>5. SameCurrent(outbox', outbox)
    BY <2>2, <2>3, <2>4, CurrentStays
  <2> QED BY <2>1, <2>5 DEF Counts, SameCurrent, FullySent
<1> QED BY <1>4, <1>5, <1>6

LEMMA StepFramed ==
  ASSUME DialInv, DialInv', NotSent, Framed, [Next]_vars, ~Retry,
         tcp = "open" /\ bytesSent # 0 => \A t \in Thread : ~ClearQueueCall(t)
  PROVE  Framed'
<1>0. TypeInv /\ TypeInv' /\ Dials /\ Mute /\ Heard
  BY DEF DialInv, Base
<1>1. wire'.ok
  BY <1>0, WireStaysOk
<1> SUFFICES ASSUME tcp' = "open" PROVE Counts'
  BY <1>1 DEF Framed
<1>2. CASE ConnectStep
  <2>1. wire'.part = None /\ lpc = "tcp1"
    BY <1>0, <1>2, WireRests, ConnectStepOpens DEF SendPacket, At
  <2>2. bytesSent' = 0
    BY <1>0, <1>2, <2>1 DEF Dials, ConnectStep, TcpConnect
  <2> QED BY <2>1, <2>2 DEF Counts
<1>3. CASE SendPacket
  <2>1. tcp = "open"
    BY <1>3 DEF SendPacket
  <2> QED BY <1>0, <1>1, <1>3, <2>1, SendCounts DEF Framed
<1>4. CASE ~ConnectStep /\ ~SendPacket
  <2>1. tcp = "open"
    BY <1>0, <1>4, ConnMoves
  <2>2. wire'.part = wire.part
    BY <1>0, <1>4, WireRests
  <2> QED BY <1>0, <1>4, <2>1, <2>2, OtherCounts DEF Framed
<1> QED BY <1>2, <1>3, <1>4

FrameInv == MarkInv /\ NotSent /\ Framed

LEMMA InitFrameInv == Init => FrameInv
<1> SUFFICES ASSUME Init PROVE FrameInv
  OBVIOUS
<1>1. tcp = "closed" /\ wire.ok
  BY DEF Init, ClientInit, NewWire
<1> QED BY <1>1, InitMarkInv DEF FrameInv, NotSent, Framed

LEMMA StepFrameInv ==
  ASSUME OneThread, ~Retry, MaxId > 1, FrameInv, [Next]_vars, packetId <= packetId',
         HasConnect => \A t \in Thread : ~ClearQueueCall(t),
         tcp = "open" /\ bytesSent # 0 => \A t \in Thread : ~ClearQueueCall(t)
  PROVE  FrameInv'
<1>1. MarkInv /\ NotSent /\ Framed
  BY DEF FrameInv
<1>2. DialInv /\ TypeInv
  BY <1>1 DEF MarkInv, DialInv, Base
<1>3. wire'.ok
  BY <1>1, <1>2, WireStaysOk
<1>4. MarkInv'
  BY <1>1, <1>3, StepMarkInv
<1>5. DialInv'
  BY <1>4 DEF MarkInv
<1>6. Framed'
  BY <1>1, <1>2, <1>5, StepFramed
<1>7. NotSent'
  BY <1>1, <1>3, <1>5, StepNotSent DEF MarkInv, DialInv
<1> QED BY <1>4, <1>6, <1>7 DEF FrameInv

\* clearQueue() is not called while _bytesSent counts bytes of a packet, which it may
\* remove without resetting the counter (MqttClient.cpp:199-203, 718-750).
NoClearMidPacket ==
  [][tcp = "open" /\ bytesSent # 0 => \A t \in Thread : ~ClearQueueCall(t)]_vars

LEMMA Frames ==
  ASSUME OneThread, ~Retry, MaxId > 1
  PROVE  Spec /\ NoClearOfConnect /\ NoClearMidPacket /\ IdsRise => []FrameInv
<1> DEFINE Step == HasConnect => \A t \in Thread : ~ClearQueueCall(t)
           Mid == tcp = "open" /\ bytesSent # 0 => \A t \in Thread : ~ClearQueueCall(t)
           Rise == packetId <= packetId'
<1>1. FrameInv /\ [Next]_vars /\ [Step]_vars /\ [Mid]_vars /\ [Rise]_vars => FrameInv'
  <2> SUFFICES ASSUME FrameInv, [Next]_vars, [Step]_vars, [Mid]_vars, [Rise]_vars
               PROVE  FrameInv'
    OBVIOUS
  <2>1. TypeInv /\ packetId \in Nat
    BY DEF FrameInv, MarkInv, DialInv, Base, TypeInv, ClientTyped
  <2>2. Step /\ Mid
    BY <2>1, ClearMoves
  <2>3. packetId <= packetId'
    BY <2>1 DEF vars, clientVars, client
  <2> QED BY <2>2, <2>3, StepFrameInv
<1> QED BY <1>1, InitFrameInv, PTL DEF Spec, NoClearOfConnect, NoClearMidPacket, IdsRise

\* Without retransmission, what is on the wire are whole packets one after the other,
\* and _bytesSent always counts bytes of the current one, also when another thread makes
\* the calls and the socket takes any part of a packet: a handler removes packets
\* that were answered, and what is half sent on a connection is not answered on it
\* (MqttClient.cpp:354-398, 591-643).  So DUP is right without a further condition.
THEOREM WholePackets ==
  ASSUME OneThread, ~Retry, MaxId > 1
  PROVE  Spec /\ NoClearOfConnect /\ NoClearMidPacket /\ IdsRise =>
           []Framing /\ DupMarksRetransmission
<1>1. FrameInv => Framing /\ wire.ok
  BY DEF FrameInv, Framed, Counts, Framing
<1>2. Spec /\ NoClearOfConnect /\ IdsRise /\ []wire.ok => DupMarksRetransmission
  BY DupsAreMarked
<1> QED BY <1>1, <1>2, Frames, PTL
=============================================================================

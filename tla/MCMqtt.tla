-------------------------------- MODULE MCMqtt --------------------------------
(****************************************************************************)
(* Instances of MqttSystem: which calls the application makes in each run.   *)
(****************************************************************************)
EXTENDS MqttSystem

Make(connect, disconnect, force, pub0, pub1, pub2, sub, unsub, clear, all) ==
  [c \in Calls |->
    CASE c = "connect"  -> connect [] c = "disconnect" -> disconnect
      [] c = "force"    -> force   [] c = "publish0"   -> pub0
      [] c = "publish1" -> pub1    [] c = "publish2"   -> pub2
      [] c = "subscribe" -> sub    [] c = "unsubscribe" -> unsub
      [] c = "clear"    -> clear   [] c = "clearAll"   -> all]

\*                          con dis frc p0 p1 p2 sub uns clr all
OutgoingCalls          == Make(2, 1, 0, 0, 1, 2, 0, 0, 0, 0)
ReconnectsCalls        == Make(2, 0, 1, 0, 1, 1, 1, 0, 0, 0)
IncomingCalls          == Make(3, 0, 0, 0, 0, 0, 0, 0, 1, 1)
LifecycleCalls         == Make(2, 1, 1, 0, 0, 1, 0, 0, 0, 0)
FramingRetryCalls      == Make(1, 0, 0, 0, 2, 0, 0, 0, 0, 0)
UnsubackCollisionCalls == Make(2, 0, 0, 0, 0, 0, 0, 1, 0, 0)
=============================================================================

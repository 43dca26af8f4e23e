---------------------------- MODULE MCPushServer ----------------------------
(* TLC instance of PushServer: two devices in one shard, and an FCM client   *)
(* that subscribes a token to the default topic, named or not, and takes it  *)
(* off again, with requests the handlers refuse.                             *)
EXTENDS PushServer

CONSTANTS d1, d2, s1, t1, news

OneShard  == [d \in Devices |-> s1]

OneClientAsks ==
  {[kind |-> "subscribe", tokens |-> {t1, Empty}, topic |-> NoTopic, complete |-> TRUE],
   [kind |-> "unsubscribe", tokens |-> {t1}, topic |-> news, complete |-> TRUE],
   [kind |-> "subscribe", tokens |-> {Empty}, topic |-> news, complete |-> TRUE],
   [kind |-> "topic", tokens |-> {}, topic |-> news, complete |-> TRUE]}

=============================================================================

--------------------------- MODULE MCPushLimiter ---------------------------
(* TLC instance of PushLimiter on its own: one device in one shard.          *)
EXTENDS PushLimiter

CONSTANTS d1, s1

OneShard  == [d \in Devices |-> s1]

=============================================================================

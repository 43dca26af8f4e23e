--------------------------- MODULE MCMemoryQueue ---------------------------
(* TLC instances of MemoryQueue: relays, consumers and events are model      *)
(* values.                                                                   *)
EXTENDS MemoryQueue

=============================================================================

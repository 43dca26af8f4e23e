\* Two relays deliver one event again and again; a queue and a channel smaller
\* than the number of messages, a cleanup that trims, a consumer that joins at
\* any time, and a shutdown at any time.
SPECIFICATION FairSpec
CONSTANTS
  Relays = {r1, r2}
  Consumers = {c1}
  Events = {e1}
  NoEvent = NoEvent
  MaxSize = 2
  BufferSize = 2
  KeepLast = 1
  BatchCount = 2
  MaxMessages = 3
INVARIANTS TypeOK DedupPerRelay OrderedFromJoin NoSilentLoss BoundedShutdownLoss
PROPERTIES EventuallyProcessed StopsAfterCancel KeepsMailbox
CHECK_DEADLOCK FALSE

\* Two relays deliver the same event at the same time.
SPECIFICATION Spec
CONSTANTS
  Relays = {r1, r2}
  Consumers = {c1}
  Events = {e1}
  NoEvent = NoEvent
  MaxSize = 2
  BufferSize = 2
  KeepLast = 2
  BatchCount = 2
  MaxMessages = 2
INVARIANT EnqueuedOnce
CHECK_DEADLOCK FALSE

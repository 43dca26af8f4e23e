\* Group events, connections and pushes around a worker that forwards events.
SPECIFICATION ForwardingSpec
CONSTANTS
  alice = alice
  c1 = c1
  e1 = e1
  s1 = s1
  s2 = s2
  empty = empty
  m1 = m1
  d1 = d1
  d2 = d2
  w1 = w1
  Groups <- OneGroup
  Events <- OneEvent
  Subs <- TwoSubs
  NoREQ <- Empty
  NoGroup = NoGroup
  Failed = Failed
  Loader = Loader
  None = None
  Keys <- OneGroup
  Conns <- OneConn
  Member <- Own
  Messages <- OneMessage
  Wants <- WantsAll
  Devices <- TwoDevices
  NoDevice = NoDevice
  TokenOf <- Tokens
  Workers <- OneWorker
  MaxJobs = 2
  Shards <- OneShard
  ShardOf <- SameShard
  Late = Late
  Limit = 1
  Retention = 0
  MaxTime = 1
  MaxPushes = 2
INVARIANTS
  ForwardingTypeOK
  FreshUnlessSkipped
  PushesToCurrentDevice
  HeldBackByOwnPush
PROPERTY
  KeepsDelivery
CHECK_DEADLOCK FALSE

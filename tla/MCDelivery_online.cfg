\* The group has an id of its own, and its client is connected.
SPECIFICATION DeliverySpec
CONSTANTS
  bob = bob
  c1 = c1
  c2 = c2
  alice = alice
  other = other
  s1 = s1
  s2 = s2
  d1 = d1
  d2 = d2
  e1 = e1
  w1 = w1
  None = None
  NoDevice = NoDevice
  Keys <- OneKey
  Member <- AllAlice
  Events <- OneEvent
  Wants <- WantsAll
  Devices <- TwoDevices
  TokenOf <- Tokens
  Conns <- OneConn
  ReqsOf <- OwnReq
  Groups <- OtherGroup
  Subs <- TwoSubs
  Workers <- OneWorker
  MaxJobs = 1
PROPERTY
  PushOnlyToOffline
CHECK_DEADLOCK FALSE

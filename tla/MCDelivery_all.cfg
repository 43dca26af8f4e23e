\* Connections come and go and REQs change while one event after another is forwarded.
SPECIFICATION DeliverySpec
CONSTANTS
  bob = bob
  c1 = c1
  c2 = c2
  alice = alice
  other = other
  s1 = s1
  s2 = s2
  d1 = d1
  d2 = d2
  e1 = e1
  w1 = w1
  None = None
  NoDevice = NoDevice
  Keys <- TwoKeys
  Member <- AllAlice
  Events <- OneEvent
  Wants <- WantsAll
  Devices <- TwoDevices
  TokenOf <- Tokens
  Conns <- TwoConns
  ReqsOf <- OwnReq
  Groups <- BothGroups
  Subs <- TwoSubs
  Workers <- OneWorker
  MaxJobs = 1
SYMMETRY Symmetry
INVARIANTS
  CountExact
  DeliveryTypeOK
  EachMatchAnswered
  RightDevice
PROPERTY
  ForwardFollowsPresence
CHECK_DEADLOCK FALSE

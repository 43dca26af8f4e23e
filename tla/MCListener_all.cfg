\* Two relays that fail in every way, with and without a retry limit.
SPECIFICATION FairSpec
CONSTANTS
  r1 = r1
  r2 = r2
  e1 = e1
  Relays <- TwoRelays
  Events <- OneEvent
  RetryLimits <- Limits
  RetryBound = 3
INVARIANTS
  TypeOK
  NoLeakedConnection
  GivesUpAtLimit
PROPERTIES
  ManagersStop
  Reconnects
  EventsHeard
CHECK_DEADLOCK FALSE

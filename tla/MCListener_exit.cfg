\* A signal does not end the process.
SPECIFICATION FairSpec
CONSTANTS
  r1 = r1
  r2 = r2
  e1 = e1
  Relays <- OneRelay
  Events <- OneEvent
  RetryLimits <- Limits
  RetryBound = 3
PROPERTY
  ExitsAfterSignal
CHECK_DEADLOCK FALSE

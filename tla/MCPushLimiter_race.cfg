\* Two callers check before either records.
SPECIFICATION Spec
CONSTANTS
  d1 = d1
  s1 = s1
  Callers = {p1, p2}
  Devices = {d1}
  Shards = {s1}
  ShardOf <- OneShard
  Late = Late
  Limit = 2
  Retention = 2
  MaxTime = 1
  MaxPushes = 2
INVARIANT MinInterval
CHECK_DEADLOCK FALSE

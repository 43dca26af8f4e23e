\* Two callers, two devices of one shard and one FCM client share a push server
\* that may be shut down at any moment; a record is forgotten as soon as it does
\* not hold its device back any more.
SPECIFICATION ServerFairSpec
CONSTANTS
  d1 = d1
  d2 = d2
  s1 = s1
  t1 = t1
  news = news
  Callers = {p1, p2}
  Devices = {d1, d2}
  Shards = {s1}
  ShardOf <- OneShard
  Late = Late
  Limit = 1
  Retention = 0
  MaxTime = 1
  MaxPushes = 2
  Apps = {a1}
  Tokens = {t1}
  Empty = Empty
  Topics = {news}
  NoTopic = NoTopic
  DefaultTopic = news
  Asks <- OneClientAsks
  MaxPosts = 2
INVARIANTS AckedSpacing ServerTypeOK AnswersAreTrue TopicsHonoured
PROPERTIES CallsReturn ServerExits
CHECK_DEADLOCK FALSE

SPECIFICATION DeliveryFairSpec
CONSTANTS
  t1 = t1  n1 = n1
  w1 = w1  w2 = w2  g1 = g1  g2 = g2
  Trade = {t1}
  Nack = {n1}
  Allocs = 1
  Limit = 4
  Shard = {s1}
  ResponseShard = {r1}
  SettlementShard = {p1}
  Worker = {w1, w2}
  GatewayTask = {g1, g2}
  NoWorker = NoWorker
  MaxCopies <- MCCopies
  MaxRecords = 2
  MaxCrash = 1
  MaxSteal = 1
  MaxFail = 1
CONSTRAINTS OneFault FirstTask Staged
INVARIANT RecentInv
INVARIANT NothingIsLost
INVARIANT SentIsStored
INVARIANT MatchedIsSettled
INVARIANT ItemIsRecent
INVARIANT AnswerIsRecent
PROPERTY EventuallyDelivered
CHECK_DEADLOCK FALSE

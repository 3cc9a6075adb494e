SPECIFICATION FairSpec
CONSTANTS
  t1 = t1  t2 = t2  junk = junk
  s1 = s1  w1 = w1  w2 = w2
  Message = {t1, t2, junk}
  Valid = {t1, t2}
  Incomplete = {}
  Limit = 2
  MaxCopies = 1
  Shard = {s1}
  Worker = {w1, w2}
  NoWorker = NoWorker
  MaxCrash = 1
  MaxSteal = 1
  MaxFail = 1
INVARIANT LossBound
PROPERTY ImplementsStage
PROPERTY EventuallyTaken
CHECK_DEADLOCK FALSE

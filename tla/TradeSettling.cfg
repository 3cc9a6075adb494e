SPECIFICATION Spec
CONSTANTS
  Trade = {block}
  Alloc = {1, 2}
  Outcome <- MCOutcome
  Shard = {s1, s2}
  Worker = {w1, w2}
  NoWorker = NoWorker
  MaxReturns = 1
  MaxCrash = 1
  MaxSteal = 1
  MaxDrop = 1
SYMMETRY Symmetry
INVARIANT SettledIsComplete
INVARIANT SettledIsAnnounced
CHECK_DEADLOCK FALSE

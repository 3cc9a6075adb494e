SPECIFICATION CoreSpec
CONSTANTS
  im = im  br = br
  Trade = {im, br}
  NoTrade = NoTrade
  Sender <- MCSender
  Block <- MCBlock
  Terms <- MCTerms
  Alloc = {1}
  Outcome <- MCOutcome
  TradeShard = {s1, s2}
  Shard = {r1}
  Worker = {w1, w2}
  NoWorker = NoWorker
  MaxBlocks = 1
  MaxCopies <- Once
  MaxReturns = 1
  MaxDrop = 0
  MaxCrash = 1
  MaxSteal = 0
  MaxTradeSteal = 0
SYMMETRY Symmetry
INVARIANT SettledIsMatched
PROPERTY SettledIsFinal
CHECK_DEADLOCK FALSE

SPECIFICATION FairSpec
CONSTANTS
  imA = imA  brA = brA  imB = imB  brB = brB
  Trade = {imA, brA, imB, brB}
  NoTrade = NoTrade
  Shard = {s1}
  Worker = {w1, w2}
  NoWorker = NoWorker
  Sender <- MCSender
  Block <- MCBlock
  Terms <- MCTerms
  MaxBlocks = 1
  MaxCopies <- Twice
  MaxCrash = 1
  MaxSteal = 1
  MaxDrop = 0
PROPERTY ImplementsPairMatching
PROPERTY EventuallyDrained
CHECK_DEADLOCK FALSE

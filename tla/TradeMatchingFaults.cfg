SPECIFICATION Spec
CONSTANTS
  imA = imA  brA = brA  imB = imB  brB = brB
  s1 = s1  s2 = s2  w1 = w1  w2 = w2
  Trade = {imA, brA, imB, brB}
  NoTrade = NoTrade
  Shard = {s1, s2}
  Worker = {w1, w2}
  NoWorker = NoWorker
  Sender <- MCSender
  Block <- MCBlock
  Terms <- MCTerms
  MaxBlocks = 1
  MaxCopies <- Once
  MaxCrash = 1
  MaxSteal = 1
  MaxDrop = 0
SYMMETRY Symmetry
INVARIANT NoDoublePublish
INVARIANT PublishedIsDurable
INVARIANT CheckpointedIsStored
INVARIANT VerdictIsJustified
INVARIANT VerdictsComeInPairs
INVARIANT FullInv
CHECK_DEADLOCK FALSE

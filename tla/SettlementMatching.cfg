SPECIFICATION Spec
CONSTANTS
  imA = imA  brA = brA  imB = imB  brB = brB
  Settlement = {imA, brA, imB, brB}
  NoSettlement = NoSettlement
  Shard = {s1, s2}
  Worker = {w1, w2}
  NoWorker = NoWorker
  Sender <- MCSender
  Deal <- MCDeal
  Terms <- MCTerms
  MaxDeals = 1
  MaxCopies <- Once
  MaxCrash = 1
  MaxSteal = 1
  MaxFail = 1
  MaxDraw = 1
SYMMETRY Symmetry
INVARIANT TwinsAgree
INVARIANT SentTwiceAtMost
INVARIANT SentIsStored
INVARIANT OnlySkippedIsLost
INVARIANT PairIsSent
CHECK_DEADLOCK FALSE

SPECIFICATION FairSpec
CONSTANTS
  trade = trade  settlement = settlement  junk = junk  g1 = g1  g2 = g2
  Message = {trade, settlement, junk}
  NoMessage = NoMessage
  Unreadable = {junk}
  Queue = {"trades", "settlements"}
  QueueOf <- MCQueueOf
  Guarded = {"trades"}
  Task = {g1, g2}
  MaxFail = 2
  MaxCrash = 1
  MaxSwitch = 2
INVARIANT PassiveIsQuiet
PROPERTY ImplementsStage
PROPERTY TurnsQuiet
PROPERTY StoredInTheEnd
CHECK_DEADLOCK FALSE

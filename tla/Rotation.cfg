SPECIFICATION MCSpec
CONSTANTS
  Execution = {1, 2, 3}
  Offered <- MCOffered
  MaxDisturb = 1
  MaxPlaces = 3
INVARIANT OneRegionServes
INVARIANT WriterFollows
INVARIANT DemandsAreMet
 
CONSTRAINT Bounded
CHECK_DEADLOCK FALSE

SPECIFICATION DashboardFairSpec
CONSTANTS
  Followed <- MCFollowed
  Initial <- MCInitial
  Changes <- MCChanges
  Load = {1, 2}
  MaxChange = 2
  MaxFail = 1
INVARIANT DashboardTypeOK
INVARIANT ShownWasTrue
INVARIANT SummaryIsSafe
PROPERTY PollingCatchesUp

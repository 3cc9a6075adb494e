SPECIFICATION ChaosSpec
CONSTANTS
  Deployed <- MCDeployed
  Desired <- MCDesired
  MaxExtra = 1
  OfferedRows <- MCOffered
  MaxClicks = 3
INVARIANT RowsKeepTheirWord
CHECK_DEADLOCK FALSE

SPECIFICATION FairSpec
CONSTANTS
  Deadline = 6
  Timeout = 5
  MaxForkFails = 2
  MaxDeaths = 4
CHECK_DEADLOCK FALSE
INVARIANTS AndroidOnlyOnEarlyFailure AndroidIsClean WatchdogFed
PROPERTY RescueReturns

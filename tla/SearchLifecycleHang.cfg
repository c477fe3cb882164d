SPECIFICATION FairSpec
CONSTANTS
  w1 = w1
  w2 = w2
  Workers <- MCWorkers
  MaxSearches = 2
  MaxItems = 0
PROPERTY FailureLeavesUsable
CHECK_DEADLOCK FALSE

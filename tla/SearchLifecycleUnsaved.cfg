SPECIFICATION Spec
CONSTANTS
  w1 = w1
  w2 = w2
  Workers <- MCWorkers
  MaxSearches = 1
  MaxItems = 0
INVARIANT SavedAfterWait
CHECK_DEADLOCK FALSE

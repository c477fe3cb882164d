SPECIFICATION Spec
CONSTANTS
  w1 = w1
  w2 = w2
  Workers <- MCWorkers
  MaxSearches = 2
  MaxItems = 1
INVARIANT OwnItemsOnly
CHECK_DEADLOCK FALSE

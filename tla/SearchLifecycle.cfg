SPECIFICATION FairSpec
CONSTANTS
  w1 = w1
  w2 = w2
  Workers <- MCWorkers
  MaxSearches = 3
  MaxItems = 1
INVARIANTS
  TypeOK
  OwedFinishes
  StoppedBeforeSwap
  ResultsComplete
PROPERTIES
  ImplementsRounds
  CallsReturn
CHECK_DEADLOCK FALSE

SPECIFICATION FairSpec
CONSTANTS
  w1 = w1
  w2 = w2
  Workers <- MCWorkers
  Sizes <- MCSizes
  SlotsPerWorker = 1
  SlotCap = 2
  OverflowCap = 7
  FlushBatch = 3
  IovMax = 2
  MaxRecords <- MCMaxRecords
  MaxSearches = 2
INVARIANTS
  TypeOK
  SlotOwnership
  PoolConserved
  InOrder
  RecordsWhole
  FlushedOnReturn
PROPERTIES
  FreshBufferComes
  WaitReturns

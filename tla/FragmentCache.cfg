SPECIFICATION Spec
CONSTANTS
  n1 = n1
  n2 = n2
  f1 = f1
  f2 = f2
  a = a
  b = b
  c = c
  Files = {f1}
  Names = {n1, n2}
  KeyOf <- MCLinked
  Words = {a, b, c}
  Lower <- MCLower
  Contents <- MCContents
  Queries <- MCQueries
  MaxFragments = 2
  MaxFiles = 2
  MaxVersions = 2
  MaxSearches = 2
SYMMETRY MCLinkedSymmetry
CHECK_DEADLOCK FALSE
INVARIANTS
  TypeOK
  ClaimsHold
  SkippedLacks
  BatchKept
  ColumnsDistinct
PROPERTIES
  LearnsOnlyTheBatch

SPECIFICATION Spec
CONSTANTS
  n1 = n1
  n2 = n2
  f1 = f1
  f2 = f2
  a = a
  b = b
  c = c
  Files = {f1, f2}
  Names = {n1, n2}
  KeyOf <- MCApart
  Words = {a, b}
  Lower <- MCLower
  Contents <- MCTextContents
  Queries <- MCAlternation
  MaxFragments = 2
  MaxFiles = 2
  MaxVersions = 1
  MaxSearches = 2
CHECK_DEADLOCK FALSE
INVARIANTS
  NoMatchSkipped

CONSTANTS
  Workers = {w1, w2, w3}
  w1 = w1
  w2 = w2
  w3 = w3
  r = r
  a = a
  b = b
  c = c
  h = h
  e = e
  f = f
  g = g
  Dirs = {r, a, b, c, e, f, g, h}
  Root = r
  Subdirs <- TreeSubdirs
  Depth <- TreeDepth
SPECIFICATION FairSpec
INVARIANTS TypeOK PlacedOnce ActiveCounts TakenIsDispatched SoloComplete
PROPERTIES ImplementsWalk Terminates

CONSTANTS
  Workers = {w1, w2}
  w1 = w1
  w2 = w2
  r = r
  a = a
  b = b
  c = c
  h = h
  e = e
  f = f
  g = g
  Dirs = {r, a, b, c, e, f, g, h}
  Root = r
  Subdirs <- TreeSubdirs
  Depth <- TreeDepth
SPECIFICATION Spec
INVARIANT Complete

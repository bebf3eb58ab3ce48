SPECIFICATION Spec
CONSTANTS
  NoName = NoName
  f = f
  g = g
  t1 = t1
  t2 = t2
  Features = {f}
  Getters = {t1, t2}
  Enumerators = {}
  Configurations <- Edits
  MaxVersion = 2
INVARIANTS LatestWhenIdle
SYMMETRY Threads2

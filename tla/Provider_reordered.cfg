SPECIFICATION Spec
CONSTANTS
  NoName = NoName
  f = f
  g = g
  t1 = t1
  t2 = t2
  Features = {f, g}
  Getters = {t1}
  Enumerators = {}
  Configurations <- Moves
  MaxVersion = 2
INVARIANTS OwnDefinition

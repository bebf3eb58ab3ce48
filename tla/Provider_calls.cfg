SPECIFICATION FairToOne
CONSTANTS
  NoName = NoName
  f = f
  g = g
  t1 = t1
  t2 = t2
  Features = {f, g}
  Getters = {t1, t2}
  Enumerators = {t1}
  Configurations <- Both
  MaxVersion = 3
INVARIANTS TypeOK SectionsReady QuietRefreshHolds CapturedOwnDefinition AlwaysDefinedIsFound OneThreadListsEverything ReloadNotLost
PROPERTY CallEnds

SPECIFICATION Spec
CONSTANTS
  a = a
  b = b
  Callers = {a, b}
  Flags = {"f", "g"}
  Asked = {"f"}
  NoFlag = NoFlag
  Ids = {1, 2, 3, 4, 5, 6}
  Values = {1, 2, 3, 4, 5, 6}
  Layouts <- Moves
  MaxFilters = 2
  MaxLoads = 2
  MaxEvictions = 1
  Live = TRUE
  HasCache = TRUE
  Missing = 0
  NoDefinition = NoDefinition
  NoItem = NoItem
  NoSettings = NoSettings
INVARIANTS TypeOK OwnSettings CurrentSettings

PROPERTY CacheSettles

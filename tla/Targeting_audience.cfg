SPECIFICATION Spec
CONSTANTS
  Users <- People
  Groups <- Teams
  Fold <- Folded
  Cultures <- ServerCultures
  IgnoreCase = TRUE
  Full = 2
  Hashes <- Spread
  NoUser = NoUser
  NoGroup = NoGroup
  MaxGroups = 2
  MaxEntries = 3
INVARIANTS TypeOK FullIsEverybody CaseDoesNotMatter OneShareEach
PROPERTY RampUpKeeps

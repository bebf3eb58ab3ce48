SPECIFICATION Spec
CONSTANTS
  a = a
  b = b
  Callers = {a, b}
  Names = {"big", "Big", "small", "lost"}
  Fold <- Cases
  Types = {"BigService", "SmallService", "SmallToo"}
  ServiceName <- Aliases
  Transient = {"BigService", "SmallToo"}
  Setups <- Registrations
  MaxMade = 3
  NoVariant = NoVariant
  NoType = NoType
  NoAnswer = NoAnswer
  Empty = Empty
  Null = Null
  Unasked = Unasked
INVARIANTS TypeOK OneServicePerName AnswerAgrees

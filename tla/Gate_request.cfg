SPECIFICATION Spec
CONSTANTS
  Features = {"F", "G"}
  Names = {"big", "small"}
  Users = {"nobody", "ann"}
  Rules <- Definitions
  Gates = {"both", "neither", "big", "other", "empty", "wrong"}
  Declared <- Declarations
  NoVariant = NoVariant
  NoValue = NoValue
  NoContext = NoContext
  NoGate = NoGate
  NoRule = NoRule
INVARIANTS TypeOK GatesAgree OneUser

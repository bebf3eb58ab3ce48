SPECIFICATION MCSpec
CONSTANTS
  a = a
  Callers = {a}
  MaxReloads = 1
  Managers = 2
  Names = {"f", "F"}
  Definitions <- StableDefinitions
  FilterNames <- AllNames
  OnNames = {"on"}
  Registered <- Filters
  ContextTypes <- Types
  Users = {"u", "v"}
  Args <- AllArgs
  Ambient <- AnyUser
  VariantNames = {"big", "small", "lost"}
  IgnoreMissingFeatures = TRUE
  IgnoreMissingFeatureFilters = TRUE
  Targeting = "targeting"
  NoDefinition = NoDefinition
  NoContext = NoContext
  NoUser = NoUser
  NoName = NoName
  NoAllocation = NoAllocation
  NoAnswer = NoAnswer
  Unset = Unset
INVARIANTS TypeOK VerdictMatchesRequirement VariantPrecedence SessionManagersAgree
  DisabledIsDisabled
PROPERTY SessionKeepsState

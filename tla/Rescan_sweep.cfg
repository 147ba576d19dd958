SPECIFICATION Spec
CONSTANTS
  u1 = u1
  u2 = u2
  u3 = u3
  NoVerdict = NoVerdict
  N = 4
  Url <- MCUrl
  PageSize = 2
  MaxChecks = 2
  StaleAfter = 2
  MaxFaults = 2
INVARIANTS
  WithinBudget
  CompleteUnlessWarned
PROPERTIES
  OnlyFlaggedDisabled
  SkippedUntouched
  FlaggedIsDisabledInTime

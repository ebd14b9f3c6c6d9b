SPECIFICATION Spec

CONSTANTS
  MaxVersions = 4
  Balance <- Credits
  Scale = 1
  Interleaved = FALSE
  AdjustmentsFail = FALSE
  IntegrationFails = FALSE
  WithUnits = FALSE
  NoRow = NoRow

INVARIANT OpenIsEarned

\* a report has a last version
CHECK_DEADLOCK FALSE

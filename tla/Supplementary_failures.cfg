SPECIFICATION Spec

CONSTANTS
  MaxVersions = 4
  Balance <- Mixed
  Scale = 1
  Interleaved = FALSE
  AdjustmentsFail = TRUE
  IntegrationFails = TRUE
  WithUnits = TRUE
  NoRow = NoRow

INVARIANT SupercededIsEmpty
PROPERTY ApprovedIsFinal

\* a report has a last version
CHECK_DEADLOCK FALSE

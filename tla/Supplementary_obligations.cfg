SPECIFICATION Spec

CONSTANTS
  MaxVersions = 4
  Balance <- Obligations
  Scale = 1
  Interleaved = FALSE
  AdjustmentsFail = TRUE
  IntegrationFails = TRUE
  WithUnits = TRUE
  NoRow = NoRow

INVARIANT TypeOK
 
INVARIANT ManualIsSticky
INVARIANT EveryVersionHasItsCRV

\* a report has a last version
CHECK_DEADLOCK FALSE

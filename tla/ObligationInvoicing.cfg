SPECIFICATION FairSpec

CONSTANTS
  Obligation = {o1, o2}
  Worker = Worker
  None = None
  MaxRetries = 1
  MaxFailures = 2
  MaxCrashes = 1

INVARIANT TypeOK
INVARIANT StatusAgrees
PROPERTY BilledAsPromised
PROPERTY SubmittedIsBilled

\* everything may be billed
CHECK_DEADLOCK FALSE

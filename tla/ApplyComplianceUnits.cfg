SPECIFICATION FairSpec

CONSTANTS
  Request = {r1, r2}
  Report = Report
  Worker = Worker
  Value = {2}
  Decrease = {5}
  Payment = {5}
  Fee = 8
  Usage = 50
  MaxRetries = 1
  MaxFailures = 2
  MaxCrashes = 1

INVARIANT TypeOK
INVARIANT WithinCap
PROPERTY CreditedAsTransferred
PROPERTY TransferIsCredited

\* everything may be applied
CHECK_DEADLOCK FALSE

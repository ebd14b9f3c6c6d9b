SPECIFICATION FairSpec

CONSTANTS
  Obligation = {o1}
  Payments = 1
  Deadline = 1
  Grace = 1
  MaxDay = 3
  Evening = {FALSE}
  MaxRetries = 1
  MaxFailures = 1
  MaxKills = 0
  None = None

PROPERTY LateIsEventuallyPenalised

\* everything may be paid
CHECK_DEADLOCK FALSE

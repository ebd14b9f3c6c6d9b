SPECIFICATION FairSpec

CONSTANTS
  Obligation = {o1}
  Payments = 2
  Deadline = 0
  Grace = 1
  MaxDay = 3
  Evening = {FALSE}
  MaxRetries = 1
  MaxFailures = 1
  MaxKills = 1
  None = None

INVARIANT TypeOK
INVARIANT BilledOnce
INVARIANT PenaltyIsDeserved
INVARIANT LateIsPenalised
PROPERTY PaidIsFinal
PROPERTY PaymentIsNoticed

\* everything may be paid
CHECK_DEADLOCK FALSE

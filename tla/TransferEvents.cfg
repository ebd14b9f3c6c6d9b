SPECIFICATION FairSpec

CONSTANTS
  A = A
  B = B
  o1 = o1
  o2 = o2
  f1 = f1
  u1 = u1
  u2 = u2
  Operator = {A, B}
  Operation = {o1, o2}
  Facility = {f1}
  Owner <- MCOwner
  Home <- MCHome
  Analyst = {u1, u2}
  MaxEvents = 2
  MaxRequests = 3
  LastDay = 1
  DaysPerYear = 1
  MaxKills = 1

INVARIANT TypeOK
INVARIANT OneHolder
INVARIANT TransferredAsRecorded
INVARIANT OneReporter
PROPERTY DueIsTransferred

\* everything may be transferred
CHECK_DEADLOCK FALSE

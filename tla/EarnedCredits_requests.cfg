SPECIFICATION Spec

CONSTANTS
  Industry = {i1}
  Analyst = {a1}
  Director = {d1}
  Submission = {s1}
  Account = {acct1, acct2}
  FirstAmount = 2
  Delta = {1}
  Crashes = TRUE
  MaxInFlight = 2
  MaxIssuances = 2
  None = None

INVARIANT TypeOK
INVARIANT ApprovedIsIssued
INVARIANT IssuedAsRecorded
INVARIANT RetriedOnce
INVARIANT ApprovedIsReviewed
PROPERTY FinalStays

\* a declined record stays as it is
CHECK_DEADLOCK FALSE

SPECIFICATION FairSpec
CONSTANTS
  Call = {c1, c2}
  Slot = {1, 2}
  Runner = {r1}
  Caller = {a1}
  MaxRetries = 2
  RetryDelay = 1
  LockTimeout = 2
  JobDeadline = 2
  MaxKills = 0
  NoRow = NoRow
  Never = Never
PROPERTY EventuallySettled
CHECK_DEADLOCK FALSE

SPECIFICATION Spec
CONSTANTS
  Call = {c1}
  Slot = {1, 2}
  Runner = {r1}
  Caller = {a1, a2}
  MaxRetries = 2
  RetryDelay = 1
  LockTimeout = 2
  JobDeadline = 2
  MaxKills = 1
  NoRow = NoRow
  Never = Never
INVARIANT TypeOK
INVARIANT RetryBudget
INVARIANT LockCoversExecution
PROPERTY CompletedIsFinal
CHECK_DEADLOCK FALSE

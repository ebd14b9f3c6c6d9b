SPECIFICATION FairSpec

CONSTANTS
  Schedule <- MCSchedule
  Beginning <- MCBeginning
  Slots = 3
  Offset = 1
  FirstYear = 2023
  LastYear = 2025
  FirstWeekday = 6
  MaxSlots = 7
  MaxChanges = 2
  MaxKills = 1

INVARIANT NextIsNext
PROPERTY OncePerOccurrence
PROPERTY DueIsRun

\* nothing happens after the last slot of a task that is not configured
CHECK_DEADLOCK FALSE

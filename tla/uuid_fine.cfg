\* The POSIX clock: fewer units between two readings than UUIDS_PER_TICK.
CONSTANTS
  UUIDS_PER_TICK = 2
  SavePeriod = 7
  Settings <- FineClock
  MaxTime = 6
  MaxUuids = 6
SPECIFICATION Spec
\* The bounds end every behaviour.
CHECK_DEADLOCK FALSE
INVARIANTS
  NeverTwice

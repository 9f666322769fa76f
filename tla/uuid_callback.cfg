\* State in callbacks; the clock is set back between two saves.
CONSTANTS
  UUIDS_PER_TICK = 2
  SavePeriod = 7
  Settings <- ClockBackWithCallbacks
  MaxTime = 15
  MaxUuids = 5
SPECIFICATION Spec
\* The bounds end every behaviour.
CHECK_DEADLOCK FALSE
PROPERTIES
  SequenceChangesWhenClockGoesBack

\* Ten units of time and five UUIDs; up to two dicts from p4, paths of five
\* names, lines of six characters, words of 32 values.
CONSTANTS
  UUIDS_PER_TICK = 2
  SavePeriod = 4
  Settings <- Supported
  MaxTime = 10
  MaxUuids = 5
  Printable <- MCPrintable
  Half = 16
SPECIFICATION LibrarySpec
\* The bounds end every behaviour: the clock's, or all is read, or a call returns.
CHECK_DEADLOCK FALSE
INVARIANTS
  Unique
  StoreLagsLessThanAPeriod
  ReadsWhatWasWritten
  ResolvedIsWhereItLeads
  ArgsAreTokens
  LinesAreSplit
  RangeIsFair
PROPERTIES
  SequenceChangesWhenClockGoesBack
  RepeatsOnlyTheLast

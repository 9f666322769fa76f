\* Both kinds of task, with and without subtasks, with every set of faults.
CONSTANTS
  NumAddrs = 2
SPECIFICATION TaskFairSpec
\* A task that was freed, or whose end was lost, has no next step.
CHECK_DEADLOCK FALSE
INVARIANTS
  NoUseAfterFree
  FinishedOnce
  AnswerIsWhole
PROPERTIES
  EndsAndIsFreed

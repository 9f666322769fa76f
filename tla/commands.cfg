\* Three commands, at most two at once; both stop modes and every set of faults.
CONSTANTS
  NumCommands = 3
  MaxTasks = 2
SPECIFICATION FairSpec
\* The call returns, and the program may crash.
CHECK_DEADLOCK FALSE
INVARIANTS
  ReturnIsClean
  OutputInOrder
  ResultIsExitCode
  ChildrenBounded
  CallbackOnce
PROPERTIES
  ImplementsJobRunner
  DispatchReturns

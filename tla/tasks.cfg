\* Every tree of a sequential and a parallel group, an own task and a leaf;
\* subtasks may come late, and s_tasks may fail to grow.
CONSTANTS
  g = g
  p = p
  o = o
  a = a
  Task = {g, p, o, a}
  Kind <- MCKind
  Parallel <- MCParallel
  Uses <- AnyUse
SPECIFICATION FairSpec
\* Every task may have been reset.
CHECK_DEADLOCK FALSE
INVARIANTS
  OneAtATime
  DoneOnce
PROPERTIES
  NoCallAfterReset
  GroupOutcome
  QueuedIsReset

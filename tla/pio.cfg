\* A child that writes more than a pipe holds, for every fault.
CONSTANTS
  MaxChunks = 3
  PipeSize = 2
  FaultSets <- FewFaults
SPECIFICATION FairSpec
\* A freed process has no next step.
CHECK_DEADLOCK FALSE
INVARIANTS
  IInv
  ExitCodeIsReal
  OneStreamComplete
PROPERTIES
  EndsAndIsFreed

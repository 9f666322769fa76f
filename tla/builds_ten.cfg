\* The builds after the ninth.
CONSTANTS
  First = 9
  MaxVersion = 12
  MaxTrees = 3
SPECIFICATION Spec
\* The bounds end every behaviour.
CHECK_DEADLOCK FALSE
INVARIANTS
  SmoothBuildSucceeds

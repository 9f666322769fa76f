\* Builds whose numbers have one digit.
CONSTANTS
  First = 6
  MaxVersion = 9
  MaxTrees = 3
SPECIFICATION Spec
\* The bounds end every behaviour.
CHECK_DEADLOCK FALSE
INVARIANTS
  SmoothBuildIsAnnounced
PROPERTIES
  AnnouncedIsFixed

\* Three runs of the updater, between two versions, anything may fail.
CONSTANTS
  TopFile <- MCTop
  SubFile <- MCSub
  Version <- MCVersion
  Content <- MCContent
  Archive <- MCArchive
  MaxRuns = 3
SPECIFICATION Spec
\* The bound on the runs ends every behaviour.
CHECK_DEADLOCK FALSE
INVARIANTS
  SmoothRunInstalls
PROPERTIES
  RecordedWhenInstalled
  WholeFilesStayWhole

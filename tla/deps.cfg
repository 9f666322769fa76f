\* Two sources and two headers.
CONSTANTS
  a = a
  b = b
  aObj = aObj
  bObj = bObj
  Exe = Exe
  h = h
  g = g
  Sources = {a, b}
  Headers = {h, g}
  Object <- MCObject
  Includes <- MCIncludes
  EndOfLine <- MCEndOfLine
  MaxTasks = 2
  MaxTime = 2
  MaxEdits = 2
SPECIFICATION Spec
\* The bounds end every behaviour.
CHECK_DEADLOCK FALSE
INVARIANTS
  TimesTell
PROPERTIES
  PassedOverIsCurrent
  NothingTwice
  GoodBuildIsCurrent

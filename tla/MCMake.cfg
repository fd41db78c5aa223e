SPECIFICATION FairMake
CONSTANTS
  A = A
  B = B
  C = C
  D = D
  Modules <- MCModules
  Graphs <- AllGraphs
  Foreign = {D}
  CommandLines <- SomeLines
  IgnoreTimeStamps = {FALSE, TRUE}
  Defects = {"none", "missing", "syntax", "semantic"}
  ToolsFail = {FALSE, TRUE}
  MaxClock = 2
INVARIANTS LinkInOrder LinkComplete LinkOnlyCorrect LinkedFresh ExeFresh CodeTellsErrors
PROPERTIES NoNeedlessWork RunEnds

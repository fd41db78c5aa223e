SPECIFICATION MakeSpec
CONSTANTS
  A = A
  B = B
  C = C
  D = D
  Modules <- MCModules
  Graphs <- OnlyMesh
  Foreign = {D}
  CommandLines <- TwoPrograms
  IgnoreTimeStamps = {FALSE}
  Defects = {"none"}
  ToolsFail = {FALSE}
  MaxClock = 3
INVARIANT LinkComplete

SPECIFICATION MakeSpec
CONSTANTS
  A = A
  B = B
  C = C
  D = D
  Modules <- MCModules
  Graphs <- OnlyMesh
  Foreign = {D}
  CommandLines <- OnePrograms
  IgnoreTimeStamps = {FALSE}
  Defects = {"none"}
  ToolsFail = {FALSE}
  MaxClock = 2
INVARIANT ObjectsFresh

SPECIFICATION FairProgram
CONSTANTS
  A = A
  B = B
  C = C
  StdExit = StdExit
  LinkList <- MCLinkList
  Codes = {0, 13}
  MaxHalts = 2
INVARIANTS GlobalsAreRoots DumpEnds ExitsReversed
PROPERTY ProgramEnds
\* The process ends.
CHECK_DEADLOCK FALSE

CONSTANTS
  HeapStart = 4
  InitialHeapSize = 24
  MaxHeapEnd = 72
  Requests <- MCRequests
  Changes <- MCChanges
  Vars = {p, q}
  Handlers <- MCHandlers
  Grow = 24
SPECIFICATION FairRuntime
CHECK_DEADLOCK FALSE
INVARIANTS RuntimeTypeOK NoDangling GivesUpLast
PROPERTIES CollectsAll NewEnds

CONSTANTS
  HeapStart = 4
  InitialHeapSize = 72
  MaxHeapEnd = 80
  Requests <- MCRequests
  Changes <- MCChanges
SPECIFICATION Spec
INVARIANTS NoOverlap NoLeak
PROPERTIES Steady SweepCoalesces

CONSTANTS
  HeapStart = 4
  InitialHeapSize = 48
  MaxHeapEnd = 64
  Requests <- MCRequests
  Changes <- MCChanges
  Clients = {"C", "Oberon"}
  SystemRequests <- MCSystemRequests
  Lengths <- MCLengths
  Text = 1000
  TDesc <- MCTDesc
SPECIFICATION Spec
\* A client that is halted does nothing more.
CHECK_DEADLOCK FALSE
INVARIANTS ContentsIntact ListOrdered InfoCorrect WalkComplete
PROPERTY ImplementsHeap

CONSTANTS
  HeapStart = 4
  InitialHeapSize = 64
  MaxHeapEnd = 80
  Requests <- MCRequests
  Changes <- SmallChanges
  Clients = {"C"}
  SystemRequests <- MCSystemRequests
  Lengths <- MCLengths
  Text = 1000
  TDesc <- MCTDesc
SPECIFICATION Spec
\* A client that is halted does nothing more.
CHECK_DEADLOCK FALSE
INVARIANT InfoCorrect

SPECIFICATION FairTI
CONSTANTS
  Types <- MCTypes
  Levels <- MCLevels
  MaxDecls = 2
  AllTypes <- MCAllTypes
  Depth = 9
  HeapTypes <- MCHeapTypes
  Counts = {1, 2, 3}
INVARIANTS TablesExact FrameTable InitExact SkipperAgrees LayoutRight
PROPERTY InitEnds
\* The initialiser returns.
CHECK_DEADLOCK FALSE

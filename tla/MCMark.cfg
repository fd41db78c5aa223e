SPECIFICATION FairMark
CONSTANTS
  r = r
  a = a
  s = s
  NIL = NIL
  Blocks <- MCBlocks
  Fields <- MCFields
  Elems <- MCElems
  Frames <- MCFrames
INVARIANTS Restored OnlyWayBackChanged
PROPERTIES ImplementsTrace MarkEnds
\* Mark ends when all is marked.
CHECK_DEADLOCK FALSE

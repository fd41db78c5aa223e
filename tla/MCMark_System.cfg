SPECIFICATION MarkSpec
CONSTANTS
  r = r
  a = a
  s = s
  NIL = NIL
  Blocks <- MCBlocks
  Fields <- MCFields
  Elems <- MCElems
  Frames <- MCFrames
INVARIANT StaysInTables
\* Mark ends when all is marked.
CHECK_DEADLOCK FALSE

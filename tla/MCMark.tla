------------------------------- MODULE MCMark -------------------------------
(* A record with two pointers, an open array of two elements with one      *)
(* pointer each and a block made by SYSTEM.NEW; two frames, the first with *)
(* an open-array parameter of two elements.                                *)
EXTENDS Mark, TLC

CONSTANTS r, a, s

MCBlocks == {r, a, s}
MCFields == (r :> 2) @@ (a :> 1)
MCElems  == (a :> 2)
MCFrames == <<[fixed |-> 0, open |-> <<[fields |-> 1, elems |-> 2]>>],
              [fixed |-> 1, open |-> <<>>]>>
=============================================================================

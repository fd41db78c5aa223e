------------------------------ MODULE MCTypes --------------------------------
(* Types of three levels, deeply nested arrays, and short scopes.          *)
EXTENDS TypeInit

Leaves == {Pointer, Procedure, Basic(1)}
Arrays(S) == {ArrayOf(len, t) : len \in 1 .. 3, t \in S}
Records(S, k) == {RecordOf(ts) : ts \in [1 .. k -> S]}

Level1 == Leaves \cup Arrays(Leaves) \cup Records(Leaves, 2) \cup Records(Leaves, 3)
Level2 == Arrays(Level1) \cup Records(Level1, 2)
Level3 == Arrays(Level2)

(* Records around arrays around records: the innermost loop counts in ecx  *)
(* and so does the fifth one around it, which has to save it.              *)
Nest1 == RecordOf(<<ArrayOf(3, RecordOf(<<ArrayOf(3, Pointer), Basic(1)>>)), Basic(1)>>)
Nest2 == RecordOf(<<ArrayOf(3, Nest1), Basic(1)>>)
Nest3 == RecordOf(<<ArrayOf(3, Nest2), Procedure>>)
Nest4 == ArrayOf(3, Nest3)

(* The height of the last field alone counts for an open array's loop. *)
Lopsided == RecordOf(<<ArrayOf(3, Nest1), ArrayOf(3, Pointer), Basic(1)>>)

OpenTypes ==
  {OpenOf(odim, t) : odim \in 1 .. 3, t \in Level1} \cup
  {OpenOf(1, t) : t \in {Nest1, Nest2, Lopsided, Basic(2), Basic(5), Basic(7), Basic(8), Basic(16)}}

TheHeapTypes == Level2 \cup Level3 \cup {Nest1, Nest2, Nest3, Nest4, Lopsided} \cup OpenTypes

(* Types of variables and parameters: of each size class and shape. *)
Element == RecordOf(<<Pointer, Basic(4)>>)
Clashing == ArrayOf(2, RecordOf(<<ArrayOf(3, Pointer), Basic(1)>>))
MCTypes == {Pointer, Procedure, Basic(1), Basic(2), RecordOf(<<Pointer>>), Element,
            ArrayOf(3, Element), Clashing, OpenOf(1, Pointer), OpenOf(1, Element),
            OpenOf(2, Element)}
MCLevels == {1, 2}

(* All of them, and what they consist of. *)
TheTypes ==
  MCTypes \cup TheHeapTypes \cup Level1 \cup {Basic(size) : size \in {2, 4, 5, 7, 8, 16}}
    \cup {t.fields[1].ty : t \in {Nest1, Nest2, Nest3, Lopsided}}
    \cup {Nest1.fields[1].ty.elem, Element, Clashing.elem}

MCHeapTypes == TheHeapTypes
MCAllTypes == TheTypes
=============================================================================

------------------------------- MODULE MCHeap -------------------------------
(* Heap on a heap of seven granules of 8 bytes that may grow to eight. *)
EXTENDS Heap

MCRequests == {3, 8, 16}
MCChanges == {8, 16, -5, -24}
=============================================================================

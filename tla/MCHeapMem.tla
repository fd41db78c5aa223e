------------------------------ MODULE MCHeapMem ------------------------------
(* HeapMem with four type descriptors: a record of 4 bytes, and open       *)
(* arrays of one to three dimensions with elements of 4 bytes.             *)
EXTENDS HeapMem, TLC

MCTDesc == 2000 :> [size |->  4, elemSize |-> 0]
        @@ 2002 :> [size |-> -1, elemSize |-> 4]
        @@ 2004 :> [size |-> -2, elemSize |-> 4]
        @@ 2006 :> [size |-> -3, elemSize |-> 4]

MCLengths == {<<0>>, <<1>>, <<2>>, <<1, 2>>, <<2, 2>>, <<1, 2, 1>>}

MCRequests == {5, 13, 24}
MCSystemRequests == {4}
MCChanges == {16, -5, -24}

\* ChangeHeapSize(1), as CTest/MemoryManagement/AllNew.ob2 grows the heap
SmallChanges == {1}
=============================================================================

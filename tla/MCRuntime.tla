------------------------------ MODULE MCRuntime ------------------------------
(* Runtime with two pointer variables; records of 4 and 12 bytes make      *)
(* blocks of 8 and 16.                                                     *)
EXTENDS Runtime

MCRequests == {12, 20}
MCChanges == {8, -16}
MCHandlers == {"Default", "GcFirst", "IncrFirst"}
=============================================================================

------------------------------ MODULE MCProgram ------------------------------
(* A program of three modules.                                             *)
EXTENDS Program

CONSTANTS A, B, C

MCLinkList == <<A, B, C>>
=============================================================================

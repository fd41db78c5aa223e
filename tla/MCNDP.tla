------------------------------- MODULE MCNDP -------------------------------
(* Two values, a negation and an operation that is not symmetric. *)
EXTENDS NDP

MCNegated(x) == 1 - x
MCCombined(x, y) == IF x > y THEN 1 ELSE 0
=============================================================================

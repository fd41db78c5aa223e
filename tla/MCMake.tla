------------------------------- MODULE MCMake -------------------------------
(* Programs of four modules, of which D is written in another language.    *)
EXTENDS Make, TLC

CONSTANTS A, B, C, D

None == << >>
MCModules == {A, B, C, D}
(* A tree with the foreign module inside, two clients of one module, and a *)
(* cycle.                                                                  *)
Tree  == (A :> <<D, B>>) @@ (B :> None) @@ (C :> None) @@ (D :> <<C>>)
Mesh  == (A :> <<C, B>>) @@ (B :> <<C>>) @@ (C :> <<D>>) @@ (D :> None)
Cycle == (A :> <<B>>) @@ (B :> <<C, D>>) @@ (C :> <<B>>) @@ (D :> None)

AllGraphs == {Tree, Mesh, Cycle}
OnlyMesh == {Mesh}

(* Two files are compiled one after the other, but not linked: see         *)
(* TwoPrograms, which are.                                                 *)
SomeLines ==
  {<<NoCodeGeneration, <<A>>>>, <<DontAssemble, <<D, A>>>>, <<MakeButDontLink, <<B, A>>>>,
   <<Make, <<A>>>>}
OnePrograms == {<<Make, <<A>>>>, <<Make, <<B>>>>}
TwoPrograms == {<<Make, <<A>>>>, <<Make, <<B, A>>>>}
=============================================================================

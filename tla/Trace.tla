-------------------------------- MODULE Trace --------------------------------
(***************************************************************************)
(* What marking promises (src/src/Storage.c, Mark): starting from the      *)
(* pointers in the stack frames, blocks are marked one at a time, each     *)
(* because a frame or a marked block points to it, until every marked      *)
(* block's pointers lead to marked blocks.  The order is left open; Mark,  *)
(* which follows the pointers depth first and keeps its way back in the    *)
(* blocks themselves, implements this module.                              *)
(***************************************************************************)

CONSTANT Blocks  \* the blocks in use

VARIABLES
  roots,   \* the blocks the stack frames point to
  edges,   \* the pairs <<a, b>> where block a holds a pointer to block b
  marked,  \* the blocks whose tag has the mark bit
  done     \* Mark has returned

tvars == <<roots, edges, marked, done>>

Closed(S) == roots \subseteq S /\ \A e \in edges : e[1] \in S => e[2] \in S

(* The blocks in every closed set: what the program can still reach. *)
Reachable == {b \in Blocks : \A S \in SUBSET Blocks : Closed(S) => b \in S}

-----------------------------------------------------------------------------
TraceInit ==
  /\ roots \in SUBSET Blocks
  /\ edges \in SUBSET (Blocks \X Blocks)
  /\ marked = {}
  /\ done = FALSE

(* A block is marked because a frame or a marked block points to it. *)
MarkOne(b) ==
  /\ ~done
  /\ b \in roots \/ \E a \in marked : <<a, b>> \in edges
  /\ marked' = marked \cup {b}
  /\ UNCHANGED <<roots, edges, done>>

Finish ==
  /\ ~done
  /\ Closed(marked)
  /\ done' = TRUE
  /\ UNCHANGED <<roots, edges, marked>>

TraceNext == (\E b \in Blocks : MarkOne(b)) \/ Finish

TraceSpec == TraceInit /\ [][TraceNext]_tvars

-----------------------------------------------------------------------------
TraceTypeOK ==
  /\ roots \subseteq Blocks /\ edges \subseteq Blocks \X Blocks
  /\ marked \subseteq Blocks /\ done \in BOOLEAN

(* When marking is over, exactly what the program can reach is marked: the *)
(* sweep that follows frees no block in use and keeps no garbage.          *)
MarksReachable == done => marked = Reachable
=============================================================================

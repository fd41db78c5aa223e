------------------------------- MODULE Runtime -------------------------------
(***************************************************************************)
(* An Oberon program on the heap: pointer variables and pointer fields,    *)
(* NEW with its loop of searches and calls of the fail handler             *)
(* (AllocAligned, AllocFail), the handlers of Storage.c and                *)
(* lib/VerboseGC.ob2, and the collector as a whole (GC = Mark; Sweep).      *)
(*                                                                         *)
(* Every block has one pointer field; the fields of a block and how Mark   *)
(* finds them are the business of Mark.  The program is sequential: what   *)
(* interleaves is the mutator between two calls of the run-time system,    *)
(* and the handler, which runs in the middle of a NEW and calls back.      *)
(***************************************************************************)
EXTENDS Heap

CONSTANTS
  Vars,       \* the program's pointer variables, all of them roots
  Handlers,   \* the fail handlers the program installs
  Grow        \* what the handlers of VerboseGC add to the heap

ASSUME RuntimeAssumption ==
  /\ Handlers \subseteq {"Default", "GcFirst", "IncrFirst"}
  /\ "Default" \in Handlers
  /\ Grow \in Nat \ {0}

VARIABLES
  var,      \* pointer variable |-> block or NIL
  fld,      \* block in use |-> the pointer in it
  handler,  \* AllocFailHandlerProc
  pc,       \* "run", "search", "handler" or "halted"
  req       \* the NEW that is under way: block size, variable, attempts

rvars == <<heapEnd, free, used, var, fld, handler, pc, req>>
program == <<var, fld>>

NIL == 0
NoRequest == [size |-> 0, dst |-> NIL, attempts |-> 0]

Fits(size) == \E b \in DOMAIN free : free[b] >= size

(* What Mark marks: the blocks in every set that holds the roots and is    *)
(* closed under the pointer fields.                                        *)
Closed(S) ==
  /\ \A v \in Vars : var[v] # NIL => var[v] \in S
  /\ \A b \in S : fld[b] # NIL => fld[b] \in S

\* Mutant: only what a variable points to is marked.
Reachable_Direct == {b \in DOMAIN used : \E v \in Vars : var[v] = b}
\* Mutant: whatever any block points to is marked, as if references were counted.
Reachable_Counted ==
  {b \in DOMAIN used : \/ \E v \in Vars : var[v] = b
                       \/ \E a \in DOMAIN used : fld[a] = b}

Reachable == {b \in DOMAIN used : \A S \in SUBSET DOMAIN used : Closed(S) => b \in S}

-----------------------------------------------------------------------------
RuntimeInit ==
  /\ Init
  /\ var = [v \in Vars |-> NIL]
  /\ fld = [b \in {} |-> NIL]
  /\ handler = "Default"
  /\ pc = "run"
  /\ req = NoRequest

(* The program moves pointers between its variables and its blocks. *)
Assign(v, w) ==
  /\ pc = "run"
  /\ var' = [var EXCEPT ![v] = var[w]]
  /\ UNCHANGED <<vars, fld, handler, pc, req>>

Clear(v) ==
  /\ pc = "run"
  /\ var' = [var EXCEPT ![v] = NIL]
  /\ UNCHANGED <<vars, fld, handler, pc, req>>

Load(v, w) ==
  /\ pc = "run" /\ var[w] # NIL
  /\ var' = [var EXCEPT ![v] = fld[var[w]]]
  /\ UNCHANGED <<vars, fld, handler, pc, req>>

Store(v, w) ==
  /\ pc = "run" /\ var[v] # NIL
  /\ fld' = [fld EXCEPT ![var[v]] = var[w]]
  /\ UNCHANGED <<vars, var, handler, pc, req>>

(* NEW(v): the block's size is rounded up and the search begins. *)
New(v, size) ==
  /\ pc = "run"
  /\ pc' = "search"
  /\ req' = [size |-> Align8(4 + size), dst |-> v, attempts |-> 0]
  /\ UNCHANGED <<vars, program, handler>>

\* Mutant: the request is not cleared.
Found_KeepsRequest ==
  /\ pc = "search"
  /\ \E b \in DOMAIN free :
       /\ AllocAt(b, req.size)
       /\ var' = [var EXCEPT ![req.dst] = b]
       /\ fld' = Put(fld, b, NIL)
  /\ pc' = "run"
  /\ UNCHANGED <<handler, req>>

(* The search ends with a block: it is tagged, its address goes into the   *)
(* variable and its pointers are set to NIL.                               *)
Found ==
  /\ pc = "search"
  /\ \E b \in DOMAIN free :
       /\ AllocAt(b, req.size)
       /\ var' = [var EXCEPT ![req.dst] = b]
       /\ fld' = Put(fld, b, NIL)
  /\ pc' = "run"
  /\ req' = NoRequest
  /\ UNCHANGED handler

(* The search ends without one: the handler is called. *)
AllocFail ==
  /\ pc = "search" /\ ~Fits(req.size)
  /\ pc' = "handler"
  /\ UNCHANGED <<vars, program, handler, req>>

\* Mutant: nofAttempts is not counted.
Return_NoCount ==
  /\ pc' = "search"
  /\ UNCHANGED <<handler, req>>

(* The handler returns: nofAttempts is counted up, the search starts again. *)
(* The handlers tell 0 from the rest only; the count stops at 2.            *)
Return ==
  /\ pc' = "search"
  /\ req' = [req EXCEPT !.attempts = IF @ < 2 THEN @ + 1 ELSE @]
  /\ UNCHANGED handler

Collect ==
  /\ Sweep(Reachable)
  /\ fld' = Restrict(fld, Reachable)
  /\ UNCHANGED var

CanGrow(change) == heapEnd + Align8(change) <= MaxHeapEnd

GiveUp == pc' = "halted" /\ UNCHANGED <<vars, program, handler, req>>

\* Mutant: the heap is only grown, never collected.
DefaultHandler_NoGC ==
  /\ pc = "handler" /\ handler = "Default"
  /\ IF CanGrow(req.size + InitialHeapSize)
     THEN IncreaseHeap(req.size + InitialHeapSize) /\ UNCHANGED program /\ Return
     ELSE GiveUp

(* DefaultAllocFailHandler collects first, then grows the heap by the      *)
(* request and the initial size, or halts.                                 *)
DefaultHandler ==
  /\ pc = "handler" /\ handler = "Default"
  /\ \/ req.attempts = 0 /\ Collect /\ Return
     \/ /\ req.attempts > 0
        /\ IF CanGrow(req.size + InitialHeapSize)
           THEN IncreaseHeap(req.size + InitialHeapSize) /\ UNCHANGED program /\ Return
           ELSE GiveUp

(* VerboseGC.GcFirstHandler grows by a fixed amount, whatever the request. *)
GcFirstHandler ==
  /\ pc = "handler" /\ handler = "GcFirst"
  /\ \/ req.attempts = 0 /\ Collect /\ Return
     \/ /\ req.attempts > 0
        /\ IF CanGrow(Grow)
           THEN IncreaseHeap(Grow) /\ UNCHANGED program /\ Return
           ELSE GiveUp

(* VerboseGC.IncrFirstHandler collects when the heap cannot grow, and      *)
(* never gives up.                                                         *)
IncrFirstHandler ==
  /\ pc = "handler" /\ handler = "IncrFirst"
  /\ IF CanGrow(Grow)
     THEN IncreaseHeap(Grow) /\ UNCHANGED program
     ELSE Collect
  /\ Return

(* Storage.GC, Storage.ChangeHeapSize and Storage.SetAllocFailHandler, as  *)
(* the program calls them between two NEWs.                                *)
GC ==
  /\ pc = "run"
  /\ Collect
  /\ UNCHANGED <<handler, pc, req>>

Resize(change) ==
  /\ pc = "run"
  /\ ChangeHeapSize(change)
  /\ UNCHANGED <<program, handler, pc, req>>

SetAllocFailHandler(h) ==
  /\ pc = "run"
  /\ handler' = h
  /\ UNCHANGED <<vars, program, pc, req>>

Mutate ==
  \/ \E v, w \in Vars : Assign(v, w) \/ Load(v, w) \/ Store(v, w)
  \/ \E v \in Vars : Clear(v)

NewSteps == Found \/ AllocFail \/ DefaultHandler \/ GcFirstHandler \/ IncrFirstHandler

RuntimeNext ==
  \/ Mutate
  \/ \E v \in Vars, size \in Requests : New(v, size)
  \/ NewSteps
  \/ GC
  \/ \E change \in Changes : Resize(change)
  \/ \E h \in Handlers : SetAllocFailHandler(h)

RuntimeSpec == RuntimeInit /\ [][RuntimeNext]_rvars

(* A call of NEW runs on until it returns or halts: the program has one    *)
(* thread.                                                                 *)
FairRuntime == RuntimeSpec /\ WF_rvars(NewSteps)

-----------------------------------------------------------------------------
RuntimeTypeOK ==
  /\ TypeOK
  /\ var \in [Vars -> Nat]
  /\ fld \in [DOMAIN used -> Nat]
  /\ handler \in Handlers
  /\ pc \in {"run", "search", "handler", "halted"}
  /\ \/ pc = "run" /\ req = NoRequest
     \/ /\ pc # "run"
        /\ req \in [size : Nat \ {0}, dst : Vars, attempts : 0 .. 2]
        /\ Aligned(req.size)

(* No pointer dangles: whatever sequence of NEWs, handlers, collections    *)
(* and changes of the heap has run, a pointer is NIL or the address of a   *)
(* block that is in use.                                                   *)
NoDangling ==
  /\ \A v \in Vars : var[v] \in DOMAIN used \cup {NIL}
  /\ \A b \in DOMAIN used : fld[b] \in DOMAIN used \cup {NIL}

(* A collection takes all the garbage: after a step that takes a block out *)
(* of use, no block in use is out of the program's reach.                  *)
CollectsAll ==
  [][~ (DOMAIN used \subseteq DOMAIN used') => DOMAIN used' = Reachable']_rvars

(* With the default handler NEW gives up only when nothing helps: all      *)
(* garbage has been collected, the free blocks have been joined, none of   *)
(* them is large enough, and the process cannot grow by what is asked.     *)
Joinable(size) ==
  \E a \in DOMAIN free : \E e \in Blocks \cup {heapEnd} :
    /\ e - a >= size
    /\ \A b \in DOMAIN used : b < a \/ b >= e
GivesUpLast ==
  pc = "halted" /\ handler = "Default" =>
    /\ DOMAIN used = Reachable
    /\ ~Joinable(req.size)
    /\ ~CanGrow(req.size + InitialHeapSize)

(* The end of the heap when it has been grown by Grow as often as possible.*)
LastEnd == heapEnd + Align8(Grow) * ((MaxHeapEnd - heapEnd) \div Align8(Grow))

(* The reachable blocks leave room for the request somewhere in that heap. *)
Servable ==
  \E a \in Blocks \cup {heapEnd}, e \in Reachable \cup {LastEnd} :
    /\ e - a >= req.size
    /\ \A b \in Reachable : b + Size(b) <= a \/ b >= e

(* Every NEW returns or halts the program.  IncrFirstHandler never gives   *)
(* up (VerboseGC.ob2:31-39): under it a NEW returns if there is any way to *)
(* serve it by growing and collecting.                                     *)
NewEnds ==
  (pc = "search" /\ (handler = "IncrFirst" => Servable)) ~> (pc \in {"run", "halted"})
=============================================================================

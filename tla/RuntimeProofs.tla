----------------------------- MODULE RuntimeProofs -----------------------------
(***************************************************************************)
(* The run-time system, in two parts: the memory of a program (Runtime)    *)
(* and its start and end (Program).                                        *)
(*                                                                         *)
(* No pointer of a program dangles, for every heap, every number of        *)
(* variables, all sizes of blocks and under each of the fail handlers.     *)
(* What the program does to its pointers and what the run-time system does *)
(* to the blocks meet in two places: NEW, whose block is in use before its *)
(* address is stored, and the collection, which keeps the least closed set *)
(* of blocks, so that every pointer that is left leads to a block kept.    *)
(*                                                                         *)
(* For every list of modules, every exit code and any number of HALTs the  *)
(* globals, whose pointers are roots of the collection, are on the chain   *)
(* of frames whenever a body runs, and the exit procedures run in reverse. *)
(***************************************************************************)
EXTENDS Runtime, HeapProofs, Program, SequenceTheorems

RuntimeInv == RuntimeTypeOK /\ HeapInv /\ NoDangling

(* The steps of the heap alone: no block goes out of use. *)
LEMMA SameBlocks ==
  ASSUME RuntimeInv, HeapInv', UNCHANGED <<used, var, fld>>
  PROVE  /\ TypeOK' /\ NoDangling'
         /\ var' \in [Vars -> Nat] /\ fld' \in [DOMAIN used' -> Nat]
BY DEF RuntimeInv, RuntimeTypeOK, HeapInv, NoDangling

(* A collection takes no block that a pointer left behind leads to. *)
LEMMA CollectInv ==
  ASSUME RuntimeInv, Collect
  PROVE  /\ HeapInv' /\ NoDangling'
         /\ var' \in [Vars -> Nat] /\ fld' \in [DOMAIN used' -> Nat]
<1>1. Reachable \subseteq DOMAIN used
  BY DEF Reachable
<1>2. /\ DOMAIN used' = Reachable /\ DOMAIN fld' = Reachable /\ var' = var
      /\ \A b \in Reachable : fld'[b] = fld[b]
      /\ fld' = [b \in Reachable |-> fld[b]]
  BY DEF Collect, Sweep, Restrict
<1>3. HeapInv'
  BY SweepInv DEF RuntimeInv, Collect
<1>4. ASSUME NEW v \in Vars, var[v] # NIL
      PROVE  var[v] \in Reachable
  <2>1. var[v] \in DOMAIN used
    BY <1>4 DEF RuntimeInv, NoDangling
  <2> QED
    BY <1>4, <2>1 DEF Reachable, Closed
<1>5. ASSUME NEW b \in Reachable, fld[b] # NIL
      PROVE  fld[b] \in Reachable
  <2>1. fld[b] \in DOMAIN used
    BY <1>1, <1>5 DEF RuntimeInv, NoDangling
  <2> QED
    BY <1>5, <2>1 DEF Reachable, Closed
<1>6. NoDangling'
  BY <1>2, <1>4, <1>5 DEF NoDangling
<1>7. var' \in [Vars -> Nat] /\ fld' \in [DOMAIN used' -> Nat]
  BY <1>1, <1>2 DEF RuntimeInv, RuntimeTypeOK
<1> QED
  BY <1>3, <1>6, <1>7

(* NEW's block is in use when its address goes into the variable. *)
LEMMA FoundInv == ASSUME RuntimeInv, Found PROVE RuntimeInv'
<1>1. /\ pc = "search" /\ req.size \in Nat \ {0} /\ Aligned(req.size) /\ req.dst \in Vars
  BY DEF Found, RuntimeInv, RuntimeTypeOK
<1>2. PICK b \in DOMAIN free :
        /\ AllocAt(b, req.size)
        /\ var' = [var EXCEPT ![req.dst] = b]
        /\ fld' = Put(fld, b, NIL)
  BY DEF Found
<1>3. HeapInv'
  BY <1>1, <1>2, AllocInv DEF RuntimeInv
<1>4. DOMAIN used' = DOMAIN used \cup {b} /\ b \in Nat
  BY <1>2 DEF AllocAt, Put, RuntimeInv, HeapInv, TypeOK
<1>5. var' \in [Vars -> Nat] /\ fld' \in [DOMAIN used' -> Nat]
  BY <1>1, <1>2, <1>4 DEF Put, NIL, RuntimeInv, RuntimeTypeOK
<1>6. NoDangling'
  <2>1. \A v \in Vars : var'[v] \in DOMAIN used' \cup {NIL}
    BY <1>1, <1>2, <1>4 DEF RuntimeInv, RuntimeTypeOK, NoDangling
  <2>2. \A c \in DOMAIN used' : fld'[c] \in DOMAIN used' \cup {NIL}
    BY <1>2, <1>4 DEF RuntimeInv, RuntimeTypeOK, NoDangling, Put
  <2> QED
    BY <2>1, <2>2 DEF NoDangling
<1>7. pc' = "run" /\ req' = NoRequest /\ handler' = handler
  BY DEF Found
<1> QED
  BY <1>3, <1>5, <1>6, <1>7 DEF RuntimeInv, RuntimeTypeOK, HeapInv

(* After a handler's work the search begins again. *)
LEMMA ReturnInv ==
  ASSUME RuntimeInv, pc = "handler", Return,
         HeapInv', NoDangling', var' \in [Vars -> Nat], fld' \in [DOMAIN used' -> Nat]
  PROVE  RuntimeInv'
<1>1. /\ req \in [size : Nat \ {0}, dst : Vars, attempts : 0 .. 2]
      /\ Aligned(req.size)
  BY DEF RuntimeInv, RuntimeTypeOK
<1>2. /\ req' \in [size : Nat \ {0}, dst : Vars, attempts : 0 .. 2]
      /\ req'.size = req.size
  BY <1>1 DEF Return
<1> QED
  BY <1>1, <1>2 DEF RuntimeInv, RuntimeTypeOK, HeapInv, Return, Aligned

LEMMA GrowInv ==
  ASSUME RuntimeInv, NEW change \in Int, IncreaseHeap(change), UNCHANGED program
  PROVE  /\ HeapInv' /\ NoDangling'
         /\ var' \in [Vars -> Nat] /\ fld' \in [DOMAIN used' -> Nat]
<1>1. HeapInv'
  BY IncreaseInv DEF RuntimeInv
<1>2. UNCHANGED <<used, var, fld>>
  BY DEF IncreaseHeap, program
<1> QED
  BY <1>1, <1>2, SameBlocks

LEMMA GiveUpInv == ASSUME RuntimeInv, pc = "handler", GiveUp PROVE RuntimeInv'
BY DEF GiveUp, RuntimeInv, RuntimeTypeOK, HeapInv, vars, program, TypeOK, InHeap,
       NoOverlap, NoLeak, Blocks, Size, First, NoDangling, Aligned

LEMMA HandlerInv ==
  ASSUME RuntimeInv, DefaultHandler \/ GcFirstHandler \/ IncrFirstHandler
  PROVE  RuntimeInv'
<1>1. pc = "handler" /\ req.size + InitialHeapSize \in Int /\ Grow \in Int
  BY HeapAssumption, RuntimeAssumption
  DEF DefaultHandler, GcFirstHandler, IncrFirstHandler, RuntimeInv, RuntimeTypeOK
<1>2. \/ Collect /\ Return
      \/ GiveUp
      \/ \E change \in Int : IncreaseHeap(change) /\ UNCHANGED program /\ Return
  BY <1>1 DEF DefaultHandler, GcFirstHandler, IncrFirstHandler
<1>3. CASE Collect /\ Return
  BY <1>1, <1>3, CollectInv, ReturnInv
<1>4. CASE GiveUp
  BY <1>1, <1>4, GiveUpInv
<1>5. ASSUME NEW change \in Int, IncreaseHeap(change), UNCHANGED program, Return
      PROVE  RuntimeInv'
  BY <1>1, <1>5, GrowInv, ReturnInv
<1> QED
  BY <1>2, <1>3, <1>4, <1>5

(* The program's own steps only copy pointers. *)
LEMMA MutateInv == ASSUME RuntimeInv, Mutate PROVE RuntimeInv'
<1> DEFINE Kept == NoDangling' /\ var' \in [Vars -> Nat] /\ fld' \in [DOMAIN used' -> Nat]
<1>1. UNCHANGED <<vars, handler, pc, req>>
  BY DEF Mutate, Assign, Clear, Load, Store
<1>2. HeapInv'
  BY <1>1 DEF RuntimeInv, HeapInv, vars, TypeOK, InHeap, NoOverlap, NoLeak, Blocks, Size, First
<1>3. Kept
  <2> USE <1>1 DEF RuntimeInv, RuntimeTypeOK, NoDangling, NIL, vars
  <2>1. ASSUME NEW v \in Vars, NEW w \in Vars, Assign(v, w)
        PROVE  Kept
    BY <2>1 DEF Assign
  <2>2. ASSUME NEW v \in Vars, NEW w \in Vars, Load(v, w)
        PROVE  Kept
    BY <2>2 DEF Load
  <2>3. ASSUME NEW v \in Vars, NEW w \in Vars, Store(v, w)
        PROVE  Kept
    BY <2>3 DEF Store
  <2>4. ASSUME NEW v \in Vars, Clear(v)
        PROVE  Kept
    BY <2>4 DEF Clear
  <2> QED
    BY <2>1, <2>2, <2>3, <2>4 DEF Mutate
<1> QED
  BY <1>1, <1>2, <1>3 DEF RuntimeInv, RuntimeTypeOK, HeapInv, Aligned

LEMMA RuntimeStep == ASSUME RuntimeInv, [RuntimeNext]_rvars PROVE RuntimeInv'
<1>1. CASE Mutate
  BY <1>1, MutateInv
<1>2. ASSUME NEW v \in Vars, NEW size \in Requests, New(v, size)
      PROVE  RuntimeInv'
  <2>1. /\ 4 + size \in Nat /\ 4 + size > 0
    BY HeapAssumption
  <2>2. Align8(4 + size) \in Nat \ {0} /\ Aligned(Align8(4 + size))
    BY <2>1, Align8Type
  <2>3. HeapInv' /\ NoDangling'
    BY <1>2 DEF New, program, vars, RuntimeInv, HeapInv, TypeOK, InHeap, NoOverlap, NoLeak,
                Blocks, Size, First, NoDangling
  <2>4. /\ req' = [size |-> Align8(4 + size), dst |-> v, attempts |-> 0]
        /\ pc' = "search" /\ UNCHANGED <<used, var, fld, handler>>
    BY <1>2 DEF New, program, vars
  <2> QED
    BY <2>2, <2>3, <2>4 DEF RuntimeInv, RuntimeTypeOK, HeapInv, Aligned
<1>3. CASE Found
  BY <1>3, FoundInv
<1>4. CASE AllocFail
  BY <1>4 DEF AllocFail, program, vars, RuntimeInv, RuntimeTypeOK, HeapInv, TypeOK, InHeap,
              NoOverlap, NoLeak, Blocks, Size, First, NoDangling, Aligned
<1>5. CASE DefaultHandler \/ GcFirstHandler \/ IncrFirstHandler
  BY <1>5, HandlerInv
<1>6. CASE GC
  BY <1>6, CollectInv DEF GC, RuntimeInv, RuntimeTypeOK, HeapInv, Aligned
<1>7. ASSUME NEW change \in Changes, Resize(change)
      PROVE  RuntimeInv'
  <2>1. change \in Int /\ -change \in Int
    BY HeapAssumption
  <2>2. HeapInv'
    BY <1>7, <2>1, IncreaseInv, DecreaseInv DEF Resize, ChangeHeapSize, RuntimeInv
  <2>3. UNCHANGED <<used, var, fld, handler, pc, req>>
    BY <1>7 DEF Resize, ChangeHeapSize, IncreaseHeap, DecreaseHeap, program
  <2> QED
    BY <2>2, <2>3, SameBlocks DEF RuntimeInv, RuntimeTypeOK, HeapInv, Aligned
<1>8. ASSUME NEW h \in Handlers, SetAllocFailHandler(h)
      PROVE  RuntimeInv'
  BY <1>8 DEF SetAllocFailHandler, program, vars, RuntimeInv, RuntimeTypeOK, HeapInv, TypeOK,
              InHeap, NoOverlap, NoLeak, Blocks, Size, First, NoDangling, Aligned
<1>9. CASE UNCHANGED rvars
  BY <1>9 DEF rvars, RuntimeInv, RuntimeTypeOK, HeapInv, TypeOK, InHeap,
              NoOverlap, NoLeak, Blocks, Size, First, NoDangling, Aligned
<1> QED
  BY <1>1, <1>2, <1>3, <1>4, <1>5, <1>6, <1>7, <1>8, <1>9 DEF RuntimeNext, NewSteps

LEMMA RuntimeStart == ASSUME RuntimeInit PROVE RuntimeInv
<1>1. HeapInv
  BY InitInv DEF RuntimeInit
<1>2. DOMAIN used = {} /\ DOMAIN fld = {}
  BY DEF RuntimeInit, Init
<1>3. NoDangling
  BY <1>2 DEF RuntimeInit, NoDangling
<1> QED
  BY <1>1, <1>2, <1>3, RuntimeAssumption
  DEF RuntimeInit, RuntimeInv, RuntimeTypeOK, HeapInv, NIL

(* The variables of the run-time system keep their types, under every      *)
(* handler and for every program (Storage.c, VerboseGC.ob2).               *)
THEOREM RuntimeTypes == RuntimeSpec => []RuntimeTypeOK
<1>1. RuntimeInv => RuntimeTypeOK
  BY DEF RuntimeInv
<1> QED
  BY <1>1, RuntimeStart, RuntimeStep, PTL DEF RuntimeSpec

(* Whatever sequence of NEWs, collections and changes of the heap a        *)
(* program and its fail handler bring about, each of its pointers is NIL   *)
(* or leads to a block in use (Storage.c: AllocAligned, GC).               *)
THEOREM PointersValid == RuntimeSpec => []NoDangling
<1>1. RuntimeInv => NoDangling
  BY DEF RuntimeInv
<1> QED
  BY <1>1, RuntimeStart, RuntimeStep, PTL DEF RuntimeSpec

(* The store stays tiled under the program: NEW with its handlers, the     *)
(* collections and resizings never hand out a byte twice or lose one.      *)
THEOREM RuntimeTiling == RuntimeSpec => [](InHeap /\ NoOverlap /\ NoLeak)
<1>1. RuntimeInv => InHeap /\ NoOverlap /\ NoLeak
  BY DEF RuntimeInv, HeapInv
<1> QED
  BY <1>1, RuntimeStart, RuntimeStep, PTL DEF RuntimeSpec

-----------------------------------------------------------------------------
(* What a collection leaves is what was reachable, and all of it still is. *)
LEMMA CollectLeaves ==
  ASSUME RuntimeInv, Collect
  PROVE  DOMAIN used' = Reachable /\ Reachable' = DOMAIN used'
<1>1. /\ Reachable \subseteq DOMAIN used /\ DOMAIN used' = Reachable
      /\ var' = var /\ fld' = [b \in Reachable |-> fld[b]]
  BY DEF Collect, Sweep, Restrict, Reachable
<1>2. ASSUME NEW b \in Reachable, NEW S \in SUBSET Reachable, Closed(S)'
      PROVE  b \in S
  <2>1. S \in SUBSET DOMAIN used /\ Closed(S)
    BY <1>1, <1>2 DEF Closed
  <2> QED
    BY <2>1 DEF Reachable
<1>3. Reachable \subseteq Reachable'
  BY <1>1, <1>2 DEF Reachable
<1>4. Reachable' \subseteq DOMAIN used'
  BY DEF Reachable
<1> QED
  BY <1>1, <1>3, <1>4

(* The collector is exact: a step that takes a block out of use leaves no  *)
(* block in use that the program cannot reach (Storage.c: Mark, Sweep).    *)
THEOREM CollectorExact == RuntimeSpec => CollectsAll
<1>1. ASSUME RuntimeInv, RuntimeNext, ~ (DOMAIN used \subseteq DOMAIN used')
      PROVE  DOMAIN used' = Reachable'
  <2>1. CASE Collect
    BY <1>1, <2>1, CollectLeaves
  <2>2. CASE Found
    BY <1>1, <2>2 DEF Found, AllocAt, Put
  <2>3. CASE UNCHANGED used
    BY <1>1, <2>3
  <2>4. Collect \/ Found \/ UNCHANGED used
    BY <1>1 DEF RuntimeNext, Mutate, Assign, Clear, Load, Store, New, NewSteps, AllocFail,
                DefaultHandler, GcFirstHandler, IncrFirstHandler, GiveUp, IncreaseHeap, GC, Resize,
                ChangeHeapSize, DecreaseHeap, SetAllocFailHandler, vars
  <2> QED
    BY <2>1, <2>2, <2>3, <2>4
<1>2. RuntimeSpec => []RuntimeInv
  BY RuntimeStart, RuntimeStep, PTL DEF RuntimeSpec
<1>3. ASSUME RuntimeInv, UNCHANGED rvars
      PROVE  DOMAIN used \subseteq DOMAIN used'
  BY <1>3 DEF rvars
<1> QED
  BY <1>1, <1>2, <1>3, PTL DEF RuntimeSpec, CollectsAll

-----------------------------------------------------------------------------
(* No block begins behind the end of the heap. *)
LEMMA BlockEnds ==
  ASSUME HeapInv
  PROVE  \A x \in Blocks : x <= heapEnd
<1>1. TAKE x \in Blocks
<1>2. x \in Nat /\ Size(x) \in Nat /\ heapEnd \in Nat
  BY BlockTypes DEF HeapInv
<1> QED
  BY <1>2 DEF HeapInv, InHeap

(* While NEW is on its second round under the default handler, all garbage *)
(* is gone, and what could be joined to be large enough has been joined.   *)
Joined ==
  /\ DOMAIN used = Reachable
  /\ Joinable(req.size) => Fits(req.size)

NewInv ==
  /\ pc = "handler" => ~Fits(req.size)
  /\ pc \in {"search", "handler"} /\ handler = "Default" /\ req.attempts > 0 => Joined
  /\ GivesUpLast

(* After a collection a run of bytes without a block in use lies in one    *)
(* free block.                                                             *)
LEMMA CollectJoins ==
  ASSUME RuntimeInv, Collect, NEW size \in Nat \ {0}, Joinable(size)'
  PROVE  Fits(size)'
<1>1. /\ Sweep(Reachable) /\ Reachable \subseteq DOMAIN used /\ DOMAIN used' = Reachable
      /\ DOMAIN free' = Heads(Reachable) /\ heapEnd' = heapEnd
      /\ \A h \in Heads(Reachable) : free'[h] = RunEnd(h, Reachable) - h
  BY DEF Collect, Sweep, Restrict, Reachable
<1>2. HeapInv /\ HeapInv'
  BY CollectInv DEF RuntimeInv
<1>3. PICK a \in DOMAIN free' : \E e \in (Blocks \cup {heapEnd})' :
        /\ e - a >= size
        /\ \A b \in DOMAIN used' : b < a \/ b >= e
  BY DEF Joinable
<1>4. PICK e \in (Blocks \cup {heapEnd})' :
        /\ e - a >= size
        /\ \A b \in DOMAIN used' : b < a \/ b >= e
  BY <1>3
<1>5. /\ a \in Heads(Reachable) /\ a \in Blocks /\ a \in Nat /\ e \in Nat
  BY <1>1, <1>2, <1>3, <1>4 DEF Heads, Unmarked, HeapInv, TypeOK, Blocks
<1>6. e <= heapEnd
  <2>1. e \in Blocks \cup {heapEnd}
    BY <1>1, <1>4 DEF Blocks, Heads, Unmarked
  <2>2. \A x \in Blocks : x <= heapEnd
    BY <1>2, BlockEnds
  <2> QED
    BY <1>5, <2>1, <2>2
<1>7. /\ RunEnd(a, Reachable) \in Reachable \cup {heapEnd}
      /\ RunEnd(a, Reachable) \in Nat /\ RunEnd(a, Reachable) > a
  BY <1>1, <1>2, <1>5, RunEndLeast
<1>8. RunEnd(a, Reachable) >= e
  BY <1>1, <1>4, <1>5, <1>6, <1>7
<1>9. free'[a] >= size
  BY <1>1, <1>4, <1>5, <1>7, <1>8
<1> QED
  BY <1>3, <1>9 DEF Fits

LEMMA NewStart == ASSUME RuntimeInit PROVE NewInv
BY DEF RuntimeInit, NewInv, GivesUpLast

(* The default handler collects at its first call, and what then does not  *)
(* fit is grown for at the second, or the program is halted.               *)
LEMMA DefaultNewInv == ASSUME RuntimeInv, NewInv, DefaultHandler PROVE NewInv'
<1>1. /\ pc = "handler" /\ handler = "Default" /\ handler' = handler
      /\ req.size \in Nat \ {0} /\ req.attempts \in 0 .. 2
      /\ heapEnd \in Nat /\ InitialHeapSize \in Nat
  BY HeapAssumption
  DEF DefaultHandler, Return, GiveUp, RuntimeInv, RuntimeTypeOK, TypeOK
<1>2. CASE req.attempts = 0 /\ Collect /\ Return
  <2>1. pc' = "search" /\ req'.size = req.size
    BY <1>1, <1>2 DEF Return, RuntimeInv, RuntimeTypeOK
  <2>2. Joinable(req.size)' => Fits(req.size)'
    BY <1>1, <1>2, <2>1, CollectJoins DEF Joinable, Fits
  <2>3. (DOMAIN used)' = Reachable'
    BY <1>2, CollectLeaves
  <2> QED
    BY <2>1, <2>2, <2>3 DEF NewInv, Joined, GivesUpLast
<1>3. CASE /\ req.attempts > 0 /\ CanGrow(req.size + InitialHeapSize)
           /\ IncreaseHeap(req.size + InitialHeapSize) /\ UNCHANGED program /\ Return
  <2> DEFINE change == req.size + InitialHeapSize
  <2>1. pc' = "search" /\ req'.size = req.size
    BY <1>1, <1>3 DEF Return, RuntimeInv, RuntimeTypeOK
  <2>2. change \in Nat /\ change > 0 /\ Align8(change) \in Nat /\ Align8(change) >= change
    BY <1>1, Align8Type
  <2>3. heapEnd \in DOMAIN free' /\ free'[heapEnd] = Align8(change)
    BY <1>3 DEF IncreaseHeap, Put
  <2>4. Fits(req.size)'
    BY <1>1, <2>1, <2>2, <2>3 DEF Fits
  <2>5. DOMAIN used = Reachable
    BY <1>1, <1>3 DEF NewInv, Joined
  <2>6. DOMAIN used' = Reachable'
    BY <1>3, <2>5 DEF IncreaseHeap, program, Reachable, Closed
  <2> QED
    BY <2>1, <2>4, <2>6 DEF NewInv, Joined, GivesUpLast
<1>4. CASE req.attempts > 0 /\ ~CanGrow(req.size + InitialHeapSize) /\ GiveUp
  <2>1. DOMAIN used = Reachable /\ ~Joinable(req.size)
    BY <1>1, <1>4 DEF NewInv, Joined
  <2> QED
    BY <1>1, <1>4, <2>1
    DEF GiveUp, NewInv, GivesUpLast, vars, program, Reachable, Closed, Joinable, Blocks, CanGrow, Align8
<1> QED
  BY <1>1, <1>2, <1>3, <1>4 DEF DefaultHandler

LEMMA NewStep == ASSUME RuntimeInv, NewInv, [RuntimeNext]_rvars PROVE NewInv'
<1> USE DEF NewInv, GivesUpLast
<1>1. CASE DefaultHandler
  BY <1>1, DefaultNewInv
<1>2. CASE GcFirstHandler \/ IncrFirstHandler
  <2>1. handler' = handler /\ handler # "Default" /\ pc' # "handler"
    BY <1>2 DEF GcFirstHandler, IncrFirstHandler, Return, GiveUp
  <2> QED
    BY <2>1
<1>3. CASE AllocFail
  <2>1. UNCHANGED <<vars, var, fld, handler, req>> /\ pc = "search" /\ pc' = "handler"
    BY <1>3 DEF AllocFail, program
  <2>2. ~Fits(req.size)'
    BY <1>3, <2>1 DEF AllocFail, Fits, vars
  <2> QED
    BY <2>1, <2>2 DEF Joined, Reachable, Closed, Joinable, Fits, Blocks, vars
<1>4. CASE pc' = "run"
  BY <1>4
<1>5. ASSUME NEW v \in Vars, NEW size \in Requests, New(v, size)
      PROVE  NewInv'
  BY <1>5 DEF New
<1>6. CASE UNCHANGED rvars
  BY <1>6 DEF rvars, Joined, Reachable, Closed, Joinable, Fits, Blocks, CanGrow
<1>7. \/ DefaultHandler \/ GcFirstHandler \/ IncrFirstHandler \/ AllocFail \/ pc' = "run"
      \/ \E v \in Vars, size \in Requests : New(v, size)
      \/ UNCHANGED rvars
  BY DEF RuntimeNext, NewSteps, Found, Mutate, Assign, Clear, Load, Store, GC, Resize,
         SetAllocFailHandler
<1> QED
  BY <1>1, <1>2, <1>3, <1>4, <1>5, <1>6, <1>7

(* Under the default handler a program is halted for want of memory only   *)
(* when its garbage has been collected, no run of free bytes is as long as *)
(* the request, and the process cannot grow by it (DefaultAllocFailHandler *)
(* of Storage.c).                                                          *)
THEOREM GiveUpIsRight == RuntimeSpec => []GivesUpLast
<1>1. NewInv => GivesUpLast
  BY DEF NewInv
<1>2. RuntimeSpec => []RuntimeInv
  BY RuntimeStart, RuntimeStep, PTL DEF RuntimeSpec
<1> QED
  BY <1>1, <1>2, NewStart, NewStep, PTL DEF RuntimeSpec


-----------------------------------------------------------------------------
(* The start and the end of a program. *)
Procs == Modules \cup {StdExit}
Frames == {"main", "root", "globals", "body", "halt", "exit"} \X Procs

Activation ==
  [who : {"main", "root", "body", "halt", "exit"}, mod : Procs,
   chain : Seq(Frames), called : BOOLEAN]

(* The root's chain before and after the globals have been linked. *)
ShortChain == <<RootFrame>>
GlobalFrames == Reverse([i \in DOMAIN LinkList |-> GlobalsOf(LinkList[i])])
FullChain == GlobalFrames \o <<RootFrame>>

(* The variables but the history of the exit procedures. *)
ProgramTypes ==
  /\ tagged \subseteq Modules /\ next \in Nat \ {0}
  /\ exitProc \in Procs /\ old \in [Modules -> Procs]
  /\ status \in {"runs", "exit", "assert"}
  /\ halts \in Nat /\ registered \in Seq(Modules) /\ ran \in Seq(Modules)

(* Who can have called whom: main is the outermost activation and no other,*)
(* a body was called by the root, Halt by main or by Oberon code, an exit  *)
(* procedure by Halt or another exit procedure.                            *)
Callers(s) ==
  /\ \A i \in DOMAIN s : s[i].who = "main" <=> i = Len(s)
  /\ \A i \in 1 .. Len(s) - 1 :
       /\ s[i].who = "root" => s[i+1].who = "main"
       /\ s[i].who = "body" => s[i+1].who = "root"
       /\ s[i].who = "exit" => s[i+1].who \in {"exit", "halt"}
       /\ s[i].who \in {"body", "exit"} => s[i].mod \in Modules

(* The root and what it called have the globals below them, whose TDescs   *)
(* have been set.                                                          *)
Chained(a, tags) ==
  /\ a.who = "root" => a.chain \in {ShortChain, FullChain}
  /\ a.who = "body" => a.chain = <<Frame("body", a.mod)>> \o FullChain
  /\ a.who \in {"root", "body"} => tags = Modules

Activations(s, tags) ==
  /\ s \in Seq(Activation) /\ s # << >>
  /\ Callers(s)
  /\ \A i \in DOMAIN s : Chained(s[i], tags)

(* Once Halt has been called, exit procedures run until the process ends.  *)
Halted ==
  /\ halts = 0 => /\ ran = << >> /\ status # "exit"
                  /\ \A i \in DOMAIN act : act[i].who \notin {"halt", "exit"}
  /\ halts # 0 /\ status = "runs" => act[1].who = "exit"

(* ExitProc and the variables OldExitProc lead through the modules in the  *)
(* reverse of the order in which they called Terminate.                    *)
ExitChain ==
  /\ exitProc = IF registered = << >> THEN StdExit ELSE registered[Len(registered)]
  /\ \A i \in DOMAIN registered :
       old[registered[i]] = IF i = 1 THEN StdExit ELSE registered[i-1]
  /\ IsInjective(registered)

(* During the first Halt those that have run are the latest of them; only  *)
(* the innermost can still call the one before it.                         *)
ExitsSoFar ==
  halts = 1 =>
    /\ Len(ran) <= Len(registered)
    /\ \A i \in DOMAIN ran : ran[i] = registered[Len(registered) - i + 1]
    /\ \A i \in DOMAIN act : act[i].who = "exit" /\ ~act[i].called =>
         i = 1 /\ Len(ran) > 0 /\ act[1].mod = ran[Len(ran)]
    /\ status = "exit" /\ act[1].who = "exit" => Len(ran) = Len(registered)

ProgramInv ==
  ProgramTypes /\ Activations(act, tagged) /\ Halted /\ ExitChain /\ ExitsSoFar

-----------------------------------------------------------------------------
(* Sequences: an element in front, and without the first. *)
LEMMA Pushed ==
  ASSUME NEW S, NEW s \in Seq(S), NEW e \in S
  PROVE  /\ <<e>> \o s \in Seq(S) /\ <<e>> \o s # << >>
         /\ Len(<<e>> \o s) = Len(s) + 1 /\ DOMAIN (<<e>> \o s) = 1 .. Len(s) + 1
         /\ (<<e>> \o s)[1] = e
         /\ \A i \in 1 .. Len(s) : (<<e>> \o s)[i+1] = s[i]
<1>1. <<e>> \in Seq(S) /\ Len(<<e>>) = 1 /\ <<e>>[1] = e
  OBVIOUS
<1>2. Len(s) \in Nat
  BY LenProperties
<1>3. /\ <<e>> \o s \in Seq(S) /\ Len(<<e>> \o s) = 1 + Len(s)
      /\ \A i \in 1 .. 1 + Len(s) : (<<e>> \o s)[i] = IF i <= 1 THEN <<e>>[i] ELSE s[i-1]
  BY <1>1, ConcatProperties
<1>4. (<<e>> \o s)[1] = e
  BY <1>1, <1>2, <1>3
<1>5. ASSUME NEW i \in 1 .. Len(s) PROVE (<<e>> \o s)[i+1] = s[i]
  BY <1>2, <1>3
<1>6. DOMAIN (<<e>> \o s) = 1 .. Len(s) + 1
  BY <1>2, <1>3, LenProperties
<1> QED
  BY <1>2, <1>3, <1>4, <1>5, <1>6

LEMMA Popped ==
  ASSUME NEW S, NEW s \in Seq(S), Len(s) > 1
  PROVE  /\ Tail(s) \in Seq(S) /\ Tail(s) # << >>
         /\ Len(Tail(s)) = Len(s) - 1 /\ DOMAIN Tail(s) = 1 .. Len(s) - 1
         /\ \A i \in 1 .. Len(s) - 1 : Tail(s)[i] = s[i+1]
<1>1. s # << >> /\ Len(s) \in Nat
  BY LenProperties, EmptySeq
<1>2. /\ Tail(s) \in Seq(S) /\ Len(Tail(s)) = Len(s) - 1
      /\ \A i \in 1 .. Len(Tail(s)) : Tail(s)[i] = s[i+1]
  BY <1>1, HeadTailProperties
<1>3. DOMAIN Tail(s) = 1 .. Len(Tail(s))
  BY <1>2, LenProperties
<1>4. Tail(s) # << >>
  <2>1. Len(Tail(s)) # 0 /\ Len(<< >>) = 0
    BY <1>1, <1>2
  <2> QED
    BY <2>1, Zenon
<1> QED
  BY <1>2, <1>3, <1>4

(* The last module's globals are the innermost of the globals' frames. *)
LEMMA ChainsAreFrames ==
  /\ ShortChain \in Seq(Frames) /\ FullChain \in Seq(Frames) /\ FullChain # ShortChain
  /\ Len(LinkList) \in Nat \ {0} /\ DOMAIN LinkList = 1 .. Len(LinkList)
  /\ \A i \in 1 .. Len(LinkList) :
       /\ LinkList[i] \in Modules
       /\ Len(FullChain) >= i
       /\ FullChain[i] = GlobalsOf(LinkList[Len(LinkList) - i + 1])
<1> DEFINE N == Len(LinkList)
           G == [i \in DOMAIN LinkList |-> GlobalsOf(LinkList[i])]
<1>1. /\ N \in Nat \ {0} /\ DOMAIN LinkList = 1 .. N
      /\ \A i \in 1 .. N : LinkList[i] \in Modules
  BY ProgramAssumption, LenProperties, EmptySeq
<1>2. G \in Seq(Frames) /\ Len(G) = N
  BY <1>1 DEF GlobalsOf, Frame, Frames, Procs
<1>3. /\ GlobalFrames \in Seq(Frames) /\ Len(GlobalFrames) = N
      /\ \A i \in 1 .. N : GlobalFrames[i] = GlobalsOf(LinkList[N - i + 1])
  <2>1. GlobalFrames = [i \in 1 .. N |-> G[N - i + 1]]
    BY <1>2 DEF GlobalFrames, Reverse
  <2>2. \A i \in 1 .. N : N - i + 1 \in 1 .. N
    BY <1>1
  <2>3. \A i \in 1 .. N : G[N - i + 1] \in Frames
    BY <1>1, <2>2 DEF GlobalsOf, Frame, Frames, Procs
  <2>4. \A i \in 1 .. N : G[N - i + 1] = GlobalsOf(LinkList[N - i + 1])
    BY <1>1, <2>2
  <2> HIDE DEF G, N
  <2>5. GlobalFrames \in [1 .. N -> Frames]
    BY <2>1, <2>3
  <2>6. GlobalFrames \in Seq(Frames) /\ Len(GlobalFrames) = N
    BY <2>5, <1>1
  <2> QED
    BY <2>1, <2>4, <2>6
<1>4. ShortChain \in Seq(Frames) /\ Len(ShortChain) = 1
  BY DEF ShortChain, RootFrame, Frame, Frames, Procs
<1>5. /\ FullChain \in Seq(Frames) /\ Len(FullChain) = N + 1
      /\ \A i \in 1 .. N + 1 : FullChain[i] =
           IF i <= N THEN GlobalFrames[i] ELSE ShortChain[i - N]
  BY <1>3, <1>4, ConcatProperties DEF FullChain, ShortChain
<1>6. FullChain # ShortChain
  <2>1. Len(FullChain) # Len(ShortChain)
    BY <1>1, <1>4, <1>5
  <2> QED
    BY <2>1
<1> QED
  BY <1>1, <1>3, <1>4, <1>5, <1>6

-----------------------------------------------------------------------------
(* A call, a return and a change of the innermost activation. *)
LEMMA CallKeeps ==
  ASSUME NEW s, NEW tags, NEW a \in Activation, s \in Seq(Activation), s # << >>,
         Callers(s), \A i \in DOMAIN s : Chained(s[i], tags),
         a.who # "main", a.who = "root" => s[1].who = "main",
         a.who = "body" => s[1].who = "root",
         a.who = "exit" => s[1].who \in {"exit", "halt"},
         a.who \in {"body", "exit"} => a.mod \in Modules, Chained(a, tags)
  PROVE  Activations(<<a>> \o s, tags)
<1> DEFINE t == <<a>> \o s
<1>1. Len(s) \in Nat \ {0} /\ DOMAIN s = 1 .. Len(s)
  BY LenProperties, EmptySeq
<1>2. /\ t \in Seq(Activation) /\ t # << >> /\ Len(t) = Len(s) + 1
      /\ DOMAIN t = 1 .. Len(s) + 1 /\ t[1] = a
      /\ \A i \in 1 .. Len(s) : t[i+1] = s[i]
  BY Pushed
<1> HIDE DEF t
<1>3. \A i \in 2 .. Len(s) + 1 : i - 1 \in 1 .. Len(s) /\ t[i] = s[i-1]
  BY <1>1, <1>2
<1>4. ASSUME NEW i \in DOMAIN t PROVE t[i].who = "main" <=> i = Len(t)
  <2>1. CASE i = 1
    BY <1>1, <1>2, <2>1
  <2>2. CASE i # 1
    <3>1. i - 1 \in DOMAIN s /\ t[i] = s[i-1]
      BY <1>1, <1>2, <1>3, <2>2
    <3>2. s[i-1].who = "main" <=> i - 1 = Len(s)
      BY <3>1 DEF Callers
    <3> QED
      BY <1>1, <1>2, <3>1, <3>2
  <2> QED
    BY <2>1, <2>2
<1>5. ASSUME NEW i \in 1 .. Len(t) - 1
      PROVE  /\ t[i].who = "root" => t[i+1].who = "main"
             /\ t[i].who = "body" => t[i+1].who = "root"
             /\ t[i].who = "exit" => t[i+1].who \in {"exit", "halt"}
             /\ t[i].who \in {"body", "exit"} => t[i].mod \in Modules
  <2>1. CASE i = 1
    <3>1. t[i+1] = s[1] /\ t[i] = a
      BY <1>1, <1>2, <2>1
    <3> QED
      BY <3>1
  <2>2. CASE i # 1
    <3>1. i - 1 \in 1 .. Len(s) - 1 /\ t[i] = s[i-1] /\ t[i+1] = s[(i-1)+1]
      BY <1>1, <1>2, <1>3, <2>2
    <3> QED
      BY <3>1 DEF Callers
  <2> QED
    BY <2>1, <2>2
<1>6. ASSUME NEW i \in DOMAIN t PROVE Chained(t[i], tags)
  <2>1. CASE i = 1
    BY <1>2, <2>1
  <2>2. CASE i # 1
    <3>1. i - 1 \in DOMAIN s /\ t[i] = s[i-1]
      BY <1>1, <1>2, <1>3, <2>2
    <3> QED
      BY <3>1
  <2> QED
    BY <2>1, <2>2
<1>7. Activations(t, tags)
  BY <1>2, <1>4, <1>5, <1>6 DEF Activations, Callers
<1> QED
  BY <1>7 DEF t

LEMMA ReturnKeeps ==
  ASSUME NEW s, NEW tags, Activations(s, tags), s[1].who # "main"
  PROVE  Len(s) > 1 /\ Activations(Tail(s), tags)
<1> DEFINE t == Tail(s)
<1>1. /\ s \in Seq(Activation) /\ Len(s) \in Nat \ {0} /\ DOMAIN s = 1 .. Len(s)
      /\ \A i \in DOMAIN s : Chained(s[i], tags)
      /\ \A i \in DOMAIN s : s[i].who = "main" <=> i = Len(s)
      /\ \A i \in 1 .. Len(s) - 1 :
           /\ s[i].who = "root" => s[i+1].who = "main"
           /\ s[i].who = "body" => s[i+1].who = "root"
           /\ s[i].who = "exit" => s[i+1].who \in {"exit", "halt"}
           /\ s[i].who \in {"body", "exit"} => s[i].mod \in Modules
  BY LenProperties, EmptySeq DEF Activations, Callers
<1>2. Len(s) > 1
  <2>1. 1 \in DOMAIN s
    BY <1>1
  <2> QED
    BY <1>1, <2>1
<1>3. /\ t \in Seq(Activation) /\ t # << >> /\ Len(t) = Len(s) - 1
      /\ DOMAIN t = 1 .. Len(s) - 1
      /\ \A i \in 1 .. Len(s) - 1 : t[i] = s[i+1]
  BY <1>1, <1>2, Popped
<1> HIDE DEF t
<1>4. \A i \in DOMAIN t : i + 1 \in DOMAIN s /\ t[i] = s[i+1] /\ (i = Len(t) <=> i + 1 = Len(s))
  BY <1>1, <1>3
<1>5. \A i \in 1 .. Len(t) - 1 : /\ i + 1 \in 1 .. Len(s) - 1
                                 /\ t[i] = s[i+1] /\ t[i+1] = s[(i+1)+1]
  BY <1>1, <1>3
<1>6. Callers(t)
  BY <1>1, <1>4, <1>5 DEF Callers
<1>7. \A i \in DOMAIN t : Chained(t[i], tags)
  BY <1>1, <1>4
<1> QED
  BY <1>2, <1>3, <1>6, <1>7 DEF Activations, t

LEMMA ChangeKeeps ==
  ASSUME NEW s, NEW tags, NEW a \in Activation, Activations(s, tags),
         a.who = s[1].who, a.mod = s[1].mod, Chained(a, tags)
  PROVE  Activations([s EXCEPT ![1] = a], tags)
<1> DEFINE t == [s EXCEPT ![1] = a]
<1>1. /\ s \in Seq(Activation) /\ s # << >> /\ Len(s) \in Nat \ {0}
      /\ DOMAIN s = 1 .. Len(s)
  BY LenProperties, EmptySeq DEF Activations
<1>2. /\ t \in Seq(Activation) /\ Len(t) = Len(s)
      /\ \A i \in 1 .. Len(s) : t[i] = IF i = 1 THEN a ELSE s[i]
  BY <1>1, ExceptSeq
<1>3. DOMAIN t = 1 .. Len(s) /\ t # << >>
  BY <1>1
<1> HIDE DEF t
<1>4. \A i \in DOMAIN s : t[i].who = s[i].who /\ t[i].mod = s[i].mod
  BY <1>1, <1>2
<1>5. Callers(t)
  BY <1>1, <1>2, <1>3, <1>4 DEF Callers, Activations
<1>6. \A i \in DOMAIN t : Chained(t[i], tags)
  BY <1>1, <1>2, <1>3 DEF Activations
<1> QED
  BY <1>2, <1>3, <1>5, <1>6 DEF Activations, t

-----------------------------------------------------------------------------
LEMMA ProgramInitInv == ASSUME ProgramInit PROVE ProgramInv
<1>1. /\ act \in Seq(Activation) /\ act # << >> /\ Len(act) = 1 /\ DOMAIN act = 1 .. 1
      /\ act[1].who = "main"
  BY DEF ProgramInit, Activation, Procs, Frames, MainFrame, Frame
<1>2. registered = << >> /\ ran = << >> /\ DOMAIN registered = {} /\ halts = 0
  BY DEF ProgramInit
<1>3. ProgramTypes
  BY DEF ProgramInit, ProgramTypes, Procs
<1>4. Activations(act, tagged)
  BY <1>1 DEF Activations, Callers, Chained
<1>5. Halted /\ ExitsSoFar
  BY <1>1, <1>2 DEF ProgramInit, Halted, ExitsSoFar
<1>6. ExitChain
  BY <1>2 DEF ProgramInit, ExitChain, IsInjective
<1> QED
  BY <1>3, <1>4, <1>5, <1>6 DEF ProgramInv

(* What the invariant says of the innermost activation. *)
LEMMA Innermost ==
  ASSUME ProgramInv
  PROVE  /\ act \in Seq(Activation) /\ act # << >> /\ Len(act) \in Nat \ {0}
         /\ DOMAIN act = 1 .. Len(act) /\ act[1] \in Activation /\ Chained(act[1], tagged)
         /\ status = "runs" /\ act[1].who # "exit" => halts = 0
         /\ act[1].who \in {"body", "exit"} => act[1].mod \in Modules
<1>1. /\ act \in Seq(Activation) /\ act # << >> /\ Len(act) \in Nat \ {0}
      /\ DOMAIN act = 1 .. Len(act)
  BY LenProperties, EmptySeq DEF ProgramInv, Activations
<1>2. 1 \in DOMAIN act
  BY <1>1
<1>3. act[1] \in Activation
  BY <1>1, <1>2, ElementOfSeq
<1>4. Chained(act[1], tagged)
  BY <1>2 DEF ProgramInv, Activations
<1>5. status = "runs" /\ act[1].who # "exit" => halts = 0
  BY DEF ProgramInv, Halted
<1>6. act[1].who \in {"body", "exit"} => act[1].mod \in Modules
  <2>1. SUFFICES ASSUME act[1].who \in {"body", "exit"} PROVE act[1].mod \in Modules
    OBVIOUS
  <2>2. act[1].who # "main"
    BY <2>1
  <2>3. 1 # Len(act)
    BY <1>2, <2>2 DEF ProgramInv, Activations, Callers
  <2>4. 1 \in 1 .. Len(act) - 1
    BY <1>1, <2>3
  <2> QED
    BY <2>1, <2>4 DEF ProgramInv, Activations, Callers
<1> QED
  BY <1>1, <1>3, <1>4, <1>5, <1>6

(* As long as Halt has not been called. *)
LEMMA BeforeHalt ==
  ASSUME ProgramInv, halts = 0, Activations(act', tagged'), tagged' \subseteq Modules,
         next' \in Nat \ {0}, \A i \in DOMAIN act' : act'[i].who \notin {"halt", "exit"},
         UNCHANGED <<exitProc, old, status, halts, registered, ran>>
  PROVE  ProgramInv'
<1>1. ProgramTypes'
  BY DEF ProgramInv, ProgramTypes
<1>2. Halted' /\ ExitsSoFar' /\ ExitChain'
  BY DEF ProgramInv, Halted, ExitsSoFar, ExitChain
<1> QED
  BY <1>1, <1>2 DEF ProgramInv

LEMMA RootCalled == ASSUME ProgramInv, CallRoot PROVE ProgramInv'
<1> DEFINE a == [who |-> "root", mod |-> StdExit, chain |-> <<RootFrame>>, called |-> FALSE]
<1>1. a \in Activation /\ Chained(a, Modules)
  BY ChainsAreFrames DEF Activation, Procs, Chained, ShortChain
<1>2. act[1].who = "main" /\ halts = 0 /\ act' = <<a>> \o act /\ tagged' = Modules
  BY Innermost DEF CallRoot, Running
<1>3. \A i \in DOMAIN act : act[i].who \notin {"halt", "exit"}
  BY <1>2 DEF ProgramInv, Halted
<1>4. Len(act) = 1
  BY <1>2, Innermost DEF ProgramInv, Activations, Callers
<1>5. \A i \in DOMAIN act : Chained(act[i], Modules)
  BY <1>2, <1>4, Innermost DEF Chained
<1>6. Activations(act', tagged')
  BY <1>1, <1>2, <1>5, CallKeeps, Innermost DEF ProgramInv, Activations
<1>7. \A i \in DOMAIN act' : act'[i].who \notin {"halt", "exit"}
  <2>1. DOMAIN act' = {1, 2} /\ act'[1] = a /\ act'[2] = act[1]
    BY <1>1, <1>2, <1>4, Pushed, Innermost
  <2> QED
    BY <1>2, <2>1
<1> QED
  BY <1>2, <1>6, <1>7, BeforeHalt DEF CallRoot, ProgramInv, ProgramTypes

LEMMA GlobalsLinked == ASSUME ProgramInv, LinkGlobals PROVE ProgramInv'
<1> DEFINE a == [act[1] EXCEPT !.chain = FullChain]
<1>1. act[1].who = "root" /\ halts = 0 /\ act' = [act EXCEPT ![1] = a] /\ tagged' = tagged
  BY Innermost DEF LinkGlobals, Running, FullChain, GlobalFrames
<1>2. a \in Activation /\ a.who = "root" /\ a.mod = act[1].mod /\ Chained(a, tagged)
  BY <1>1, Innermost, ChainsAreFrames DEF Activation, Chained
<1>3. Activations(act', tagged')
  BY <1>1, <1>2, ChangeKeeps DEF ProgramInv
<1>4. \A i \in DOMAIN act' : act'[i].who \notin {"halt", "exit"}
  BY <1>1, <1>2, Innermost DEF ProgramInv, Halted
<1> QED
  BY <1>1, <1>3, <1>4, BeforeHalt DEF LinkGlobals, ProgramInv, ProgramTypes

LEMMA BodyCalled == ASSUME ProgramInv, CallBody PROVE ProgramInv'
<1> DEFINE m == LinkList[next]
           a == [who |-> "body", mod |-> m, chain |-> <<Frame("body", m)>> \o act[1].chain,
                 called |-> FALSE]
<1>1. /\ act[1].who = "root" /\ halts = 0 /\ act' = <<a>> \o act
      /\ act[1].chain = FullChain /\ tagged' = tagged /\ tagged = Modules
  BY Innermost DEF CallBody, Running, Called, Chained, ShortChain
<1>2. m \in Modules
  BY ChainsAreFrames DEF CallBody, ProgramInv, ProgramTypes
<1>3. Frame("body", m) \in Frames
  BY <1>2 DEF Frame, Frames, Procs
<1>4. a \in Activation
  BY <1>1, <1>2, <1>3, ChainsAreFrames, Pushed DEF Activation, Procs
<1>5. Chained(a, tagged)
  BY <1>1 DEF Chained
<1>6. Activations(act', tagged')
  BY <1>1, <1>2, <1>4, <1>5, CallKeeps, Innermost DEF ProgramInv, Activations
<1>7. \A i \in DOMAIN act' : act'[i].who \notin {"halt", "exit"}
  <2>1. \A i \in DOMAIN act : act[i].who \notin {"halt", "exit"}
    BY <1>1 DEF ProgramInv, Halted
  <2>2. /\ DOMAIN act' = 1 .. Len(act) + 1 /\ act'[1] = a
        /\ \A i \in 1 .. Len(act) : act'[i+1] = act[i]
    BY <1>1, <1>4, Pushed, Innermost
  <2>3. \A i \in DOMAIN act' : i = 1 \/ (i - 1 \in DOMAIN act /\ act'[i] = act[i-1])
    BY <2>2, Innermost
  <2> QED
    BY <2>1, <2>2, <2>3
<1> QED
  BY <1>1, <1>6, <1>7, BeforeHalt DEF CallBody, ProgramInv, ProgramTypes

(* A body returns to the root, the root to main. *)
LEMMA Returned == ASSUME ProgramInv, BodyReturns \/ RootReturns PROVE ProgramInv'
<1>1. /\ act[1].who \in {"body", "root"} /\ halts = 0 /\ act' = Tail(act)
      /\ tagged' = tagged /\ next' \in Nat \ {0} /\ tagged \subseteq Modules
      /\ UNCHANGED <<exitProc, old, status, halts, registered, ran>>
  BY Innermost DEF BodyReturns, RootReturns, Running, ProgramInv, ProgramTypes
<1>2. act[1].who # "main"
  BY <1>1
<1>3. Len(act) > 1 /\ Activations(act', tagged')
  BY <1>1, <1>2, ReturnKeeps DEF ProgramInv
<1>4. \A i \in DOMAIN act : act[i].who \notin {"halt", "exit"}
  BY <1>1 DEF ProgramInv, Halted
<1>5. /\ DOMAIN act' = 1 .. Len(act) - 1
      /\ \A i \in 1 .. Len(act) - 1 : act'[i] = act[i+1]
  BY <1>1, <1>3, Popped, Innermost
<1>6. \A i \in DOMAIN act' : i + 1 \in DOMAIN act /\ act'[i] = act[i+1]
  BY <1>5, Innermost
<1>7. \A i \in DOMAIN act' : act'[i].who \notin {"halt", "exit"}
  BY <1>4, <1>6
<1> QED
  BY <1>1, <1>3, <1>7, BeforeHalt

(* The exit code does not occur in the invariant. *)
LEMMA Stopped == ASSUME ProgramInv, NEW code, AssertFail(code) PROVE ProgramInv'
<1>1. /\ status' = "assert"
      /\ UNCHANGED <<act, tagged, next, exitProc, old, halts, registered, ran>>
  BY DEF AssertFail
<1>2. ProgramTypes'
  BY <1>1 DEF ProgramInv, ProgramTypes
<1>3. Halted' /\ ExitsSoFar'
  BY <1>1 DEF ProgramInv, Halted, ExitsSoFar
<1>4. ExitChain' /\ Activations(act', tagged')
  BY <1>1 DEF ProgramInv, ExitChain
<1> QED
  BY <1>2, <1>3, <1>4 DEF ProgramInv

LEMMA ExitProcKept == ASSUME ProgramInv, Terminate PROVE ProgramInv'
<1> DEFINE m == act[1].mod
           R == Len(registered)
<1>1. m \in Modules /\ halts = 0
  BY Innermost DEF Terminate, Running
<1>2. /\ registered \in Seq(Modules) /\ R \in Nat /\ DOMAIN registered = 1 .. R
      /\ old \in [Modules -> Procs] /\ exitProc \in Procs
  BY LenProperties DEF ProgramInv, ProgramTypes
<1>3. /\ ~Contains(registered, m) /\ old' = [old EXCEPT ![m] = exitProc] /\ exitProc' = m
      /\ registered' = Append(registered, m)
      /\ UNCHANGED <<act, tagged, next, status, halts, ran>>
  BY DEF Terminate
<1>4. /\ registered' \in Seq(Modules) /\ Len(registered') = R + 1
      /\ \A i \in 1 .. R : registered'[i] = registered[i]
      /\ registered'[R + 1] = m
  BY <1>1, <1>2, <1>3, AppendProperties
<1>5. DOMAIN registered' = 1 .. R + 1 /\ registered' # << >>
  BY <1>2, <1>4, LenProperties
<1>6. \A i \in 1 .. R : registered[i] \in Modules /\ registered[i] # m
  BY <1>2, <1>3, ElementOfSeq DEF Contains
<1>7. ProgramTypes'
  BY <1>1, <1>2, <1>3, <1>4 DEF ProgramInv, ProgramTypes, Procs
<1> HIDE DEF R, m
<1>8. IsInjective(registered')
  <2>1. \A i, j \in 1 .. R : registered[i] = registered[j] => i = j
    BY <1>2 DEF ProgramInv, ExitChain, IsInjective
  <2>2. \A i \in 1 .. R + 1 : i \in 1 .. R \/ i = R + 1
    BY <1>2
  <2>3. ASSUME NEW i \in 1 .. R + 1, NEW j \in 1 .. R + 1, registered'[i] = registered'[j]
        PROVE  i = j
    BY <1>4, <1>6, <2>1, <2>2, <2>3
  <2> QED
    BY <1>5, <2>3 DEF IsInjective
<1>9. ASSUME NEW i \in 1 .. R + 1
      PROVE  old'[registered'[i]] = IF i = 1 THEN StdExit ELSE registered'[i-1]
  <2>1. CASE i = R + 1
    <3>1. old'[registered'[i]] = exitProc
      BY <1>1, <1>2, <1>3, <1>4, <2>1
    <3>2. exitProc = IF registered = << >> THEN StdExit ELSE registered[R]
      BY DEF ProgramInv, ExitChain, R
    <3>3. CASE R = 0
      <4>1. registered = << >>
        BY <1>2, <3>3, EmptySeq DEF R
      <4> QED
        BY <2>1, <3>1, <3>2, <3>3, <4>1
    <3>4. CASE R # 0
      <4>1. registered # << >>
        BY <3>4, EmptySeq DEF R
      <4>2. R \in 1 .. R /\ i # 1 /\ i - 1 = R
        BY <1>2, <2>1, <3>4
      <4> QED
        BY <1>4, <3>1, <3>2, <4>1, <4>2
    <3> QED
      BY <3>3, <3>4
  <2>2. CASE i # R + 1
    <3>1. i \in 1 .. R /\ (i # 1 => i - 1 \in 1 .. R)
      BY <1>2, <2>2
    <3>2. registered'[i] = registered[i] /\ old'[registered[i]] = old[registered[i]]
      BY <1>2, <1>3, <1>4, <1>6, <3>1
    <3>3. old[registered[i]] = IF i = 1 THEN StdExit ELSE registered[i-1]
      BY <1>2, <3>1 DEF ProgramInv, ExitChain
    <3> QED
      BY <1>4, <3>1, <3>2, <3>3
  <2> QED
    BY <2>1, <2>2
<1>10. ExitChain'
  BY <1>3, <1>4, <1>5, <1>8, <1>9 DEF ExitChain
<1>11. Halted' /\ ExitsSoFar' /\ Activations(act', tagged')
  BY <1>1, <1>3 DEF ProgramInv, Halted, ExitsSoFar
<1> QED
  BY <1>7, <1>10, <1>11 DEF ProgramInv

-----------------------------------------------------------------------------
(* Halt or an exit procedure goes on to the exit procedure proc. *)
LEMMA Entered ==
  ASSUME NEW proc \in Procs, NEW s, Activations(s, tagged), s[1].who \in {"halt", "exit"},
         Enter(proc, s), ran \in Seq(Modules)
  PROVE  /\ Activations(act', tagged) /\ ran' \in Seq(Modules)
         /\ proc = StdExit => status' = "exit" /\ act' = s /\ ran' = ran
         /\ proc # StdExit =>
              /\ status' = status /\ ran' = Append(ran, proc)
              /\ DOMAIN act' = 1 .. Len(s) + 1
              /\ act'[1].who = "exit" /\ act'[1].mod = proc
              /\ \A i \in 1 .. Len(s) : act'[i+1] = s[i]
<1>1. CASE proc = StdExit
  BY <1>1 DEF Enter
<1>2. CASE proc # StdExit
  <2> DEFINE a == [who |-> "exit", mod |-> proc, called |-> FALSE,
                   chain |-> <<Frame("exit", proc)>> \o s[1].chain]
  <2>1. act' = <<a>> \o s /\ ran' = Append(ran, proc) /\ status' = status
    BY <1>2 DEF Enter
  <2>2. /\ s \in Seq(Activation) /\ s # << >> /\ s[1] \in Activation
        /\ Callers(s) /\ \A i \in DOMAIN s : Chained(s[i], tagged)
    <3>1. s \in Seq(Activation) /\ s # << >>
      BY DEF Activations
    <3>2. 1 \in 1 .. Len(s)
      BY <3>1, LenProperties, EmptySeq
    <3> QED
      BY <3>1, <3>2, ElementOfSeq DEF Activations
  <2>3. proc \in Modules
    BY <1>2 DEF Procs
  <2>4. Frame("exit", proc) \in Frames
    BY DEF Frame, Frames
  <2>5. a \in Activation
    BY <2>2, <2>4, Pushed DEF Activation
  <2>6. Chained(a, tagged)
    BY DEF Chained
  <2>7. Activations(act', tagged)
    BY <2>1, <2>2, <2>3, <2>5, <2>6, CallKeeps
  <2>8. /\ DOMAIN act' = 1 .. Len(s) + 1 /\ act'[1] = a
        /\ \A i \in 1 .. Len(s) : act'[i+1] = s[i]
    BY <2>1, <2>2, <2>5, Pushed
  <2>9. ran' \in Seq(Modules)
    BY <2>1, <2>3, AppendProperties
  <2> QED
    BY <1>2, <2>1, <2>7, <2>8, <2>9
<1> QED
  BY <1>1, <1>2

(* The activation of Halt, which has neither a tag nor a module. *)
LEMMA HaltCalled ==
  ASSUME ProgramInv
  PROVE  LET s == Called("halt", StdExit)
         IN /\ Activations(s, tagged) /\ s[1].who = "halt" /\ Len(s) = Len(act) + 1
            /\ \A i \in 1 .. Len(act) : s[i+1] = act[i]
<1> DEFINE a == [who |-> "halt", mod |-> StdExit, called |-> FALSE,
                 chain |-> <<Frame("halt", StdExit)>> \o act[1].chain]
           s == Called("halt", StdExit)
<1>1. s = <<a>> \o act
  BY DEF Called
<1>2. Frame("halt", StdExit) \in Frames /\ StdExit \in Procs
  BY DEF Frame, Frames, Procs
<1>3. a \in Activation
  BY <1>2, Innermost, Pushed DEF Activation
<1>4. Chained(a, tagged)
  BY DEF Chained
<1>5. Activations(s, tagged)
  BY <1>1, <1>3, <1>4, CallKeeps, Innermost DEF ProgramInv, Activations
<1>6. a.who = "halt"
  OBVIOUS
<1> HIDE DEF a, s
<1>7. /\ s[1] = a /\ Len(s) = Len(act) + 1
      /\ \A i \in 1 .. Len(act) : s[i+1] = act[i]
  BY <1>1, <1>3, Pushed, Innermost
<1> QED
  BY <1>5, <1>6, <1>7 DEF s

(* The first call of Halt, or one from an exit procedure. *)
LEMMA HaltKeeps == ASSUME ProgramInv, status = "runs", NEW code, Halt(code) PROVE ProgramInv'
<1> DEFINE s == Called("halt", StdExit)
<1>1. /\ exitProc \in Procs /\ ran \in Seq(Modules) /\ halts \in Nat
      /\ registered \in Seq(Modules) /\ halts' = halts + 1 /\ Enter(exitProc, s)
      /\ UNCHANGED <<tagged, next, exitProc, old, registered>>
  BY DEF ProgramInv, ProgramTypes, Halt
<1>2. /\ Activations(s, tagged) /\ s[1].who = "halt" /\ Len(s) = Len(act) + 1
      /\ \A i \in 1 .. Len(act) : s[i+1] = act[i]
  BY HaltCalled
<1> HIDE DEF s
<1>3. /\ Activations(act', tagged) /\ ran' \in Seq(Modules)
      /\ exitProc = StdExit => status' = "exit" /\ act' = s /\ ran' = ran
      /\ exitProc # StdExit =>
           /\ status' = status /\ ran' = Append(ran, exitProc)
           /\ DOMAIN act' = 1 .. Len(s) + 1
           /\ act'[1].who = "exit" /\ act'[1].mod = exitProc
           /\ \A i \in 1 .. Len(s) : act'[i+1] = s[i]
  BY <1>1, <1>2, Entered
<1>4. ProgramTypes'
  BY <1>1, <1>3 DEF ProgramInv, ProgramTypes
<1>5. ExitChain'
  BY <1>1 DEF ProgramInv, ExitChain
<1>6. Halted'
  BY <1>1, <1>3 DEF Halted
<1>7. ASSUME halts' = 1 PROVE ExitsSoFar'
  <2>1. /\ halts = 0 /\ ran = << >> /\ Len(ran) = 0
        /\ \A i \in 1 .. Len(act) : act[i].who # "exit"
    BY <1>1, <1>7, Innermost DEF ProgramInv, Halted
  <2>2. /\ Len(act) \in Nat /\ s[1].who = "halt" /\ s \in Seq(Activation)
        /\ \A i \in 1 .. Len(s) : s[i].who # "exit"
    <3>1. \A i \in 1 .. Len(s) : i = 1 \/ (i - 1 \in 1 .. Len(act) /\ s[i] = act[i-1])
      BY <1>2, Innermost
    <3> QED
      BY <1>2, <2>1, <3>1, Innermost DEF Activations
  <2>3. CASE exitProc = StdExit
    <3>1. registered = << >>
      <4>1. SUFFICES ASSUME registered # << >> PROVE FALSE
        OBVIOUS
      <4>2. Len(registered) \in 1 .. Len(registered)
        BY <1>1, <4>1, LenProperties, EmptySeq
      <4>3. registered[Len(registered)] \in Modules
        BY <1>1, <4>2, ElementOfSeq
      <4> QED
        BY <2>3, <4>1, <4>3, ProgramAssumption DEF ProgramInv, ExitChain
    <3>2. ran' = << >> /\ act' = s /\ registered' = << >> /\ DOMAIN s = 1 .. Len(s)
      BY <1>1, <1>3, <2>1, <2>2, <2>3, <3>1, LenProperties
    <3> QED
      BY <1>2, <2>2, <3>2 DEF ExitsSoFar
  <2>4. CASE exitProc # StdExit
    <3>1. registered # << >> /\ exitProc = registered[Len(registered)]
      BY <2>4 DEF ProgramInv, ExitChain
    <3>2. Len(registered) \in Nat \ {0}
      BY <1>1, <3>1, LenProperties, EmptySeq
    <3>3. ran' = <<exitProc>> /\ Len(ran') = 1 /\ DOMAIN ran' = {1} /\ ran'[1] = exitProc
      BY <1>1, <1>3, <2>1, <2>4
    <3>4. \A i \in DOMAIN act' : i = 1 \/ act'[i].who # "exit"
      <4>1. \A i \in DOMAIN act' : i = 1 \/ (i - 1 \in 1 .. Len(s) /\ act'[i] = s[i-1])
        <5>1. Len(s) \in Nat
          BY <2>2, LenProperties
        <5>2. \A i \in DOMAIN act' : i \in 1 .. Len(s) + 1
          BY <1>3, <2>4
        <5>3. \A i \in 1 .. Len(s) + 1 : i = 1 \/ (i - 1 \in 1 .. Len(s) /\ i = (i - 1) + 1)
          BY <5>1
        <5> QED
          BY <1>3, <2>4, <5>2, <5>3
      <4> QED
        BY <2>2, <4>1
    <3>5. status' # "exit"
      BY <1>3, <2>4
    <3> QED
      BY <1>1, <1>3, <2>4, <3>1, <3>2, <3>3, <3>4, <3>5 DEF ExitsSoFar
  <2> QED
    BY <2>3, <2>4
<1>8. ExitsSoFar'
  BY <1>7 DEF ExitsSoFar
<1>9. Activations(act', tagged')
  BY <1>1, <1>3
<1> QED
  BY <1>4, <1>5, <1>6, <1>8, <1>9 DEF ProgramInv

LEMMA OldExitCalled == ASSUME ProgramInv, CallOldExit PROVE ProgramInv'
<1> DEFINE m == act[1].mod
           a == [act[1] EXCEPT !.called = TRUE]
           s == [act EXCEPT ![1] = a]
           n == Len(ran)
           R == Len(registered)
<1>1. /\ act[1].who = "exit" /\ ~act[1].called /\ status = "runs" /\ Enter(old[m], s)
      /\ UNCHANGED <<tagged, next, exitProc, old, halts, registered>>
  BY DEF CallOldExit, Running
<1>2. /\ act[1] \in Activation /\ DOMAIN act = 1 .. Len(act) /\ Len(act) \in Nat \ {0}
      /\ act \in Seq(Activation) /\ m \in Modules
  BY <1>1, Innermost
<1>3. a \in Activation /\ a.who = "exit" /\ a.mod = m /\ a.called /\ Chained(a, tagged)
  BY <1>1, <1>2 DEF Activation, Chained
<1>4. Activations(s, tagged)
  BY <1>1, <1>3, ChangeKeeps DEF ProgramInv
<1>5. /\ Len(s) = Len(act) /\ s[1] = a /\ DOMAIN s = 1 .. Len(act)
      /\ \A i \in 1 .. Len(act) : i # 1 => s[i] = act[i]
  <2> HIDE DEF a
  <2>1. /\ s \in Seq(Activation) /\ Len(s) = Len(act)
        /\ \A i \in 1 .. Len(act) : s[i] = IF i = 1 THEN a ELSE act[i]
    BY <1>2, <1>3, ExceptSeq
  <2>2. DOMAIN s = 1 .. Len(act) /\ 1 \in 1 .. Len(act)
    BY <1>2, <2>1, LenProperties
  <2> QED
    BY <2>1, <2>2
<1>6. /\ ran \in Seq(Modules) /\ registered \in Seq(Modules) /\ old[m] \in Procs
      /\ n \in Nat /\ R \in Nat /\ DOMAIN ran = 1 .. n /\ DOMAIN registered = 1 .. R
  BY <1>2, LenProperties DEF ProgramInv, ProgramTypes
<1> HIDE DEF a, s
<1>7. /\ Activations(act', tagged) /\ ran' \in Seq(Modules)
      /\ old[m] = StdExit => status' = "exit" /\ act' = s /\ ran' = ran
      /\ old[m] # StdExit =>
           /\ status' = status /\ ran' = Append(ran, old[m])
           /\ DOMAIN act' = 1 .. Len(act) + 1
           /\ act'[1].who = "exit" /\ act'[1].mod = old[m]
           /\ \A i \in 1 .. Len(act) : act'[i+1] = s[i]
  BY <1>1, <1>3, <1>4, <1>5, <1>6, Entered
<1>8. ProgramTypes'
  BY <1>1, <1>7 DEF ProgramInv, ProgramTypes
<1>9. ExitChain'
  BY <1>1 DEF ProgramInv, ExitChain
<1>10. halts # 0
  BY <1>1, <1>2 DEF ProgramInv, Halted
<1>11. Halted'
  BY <1>1, <1>7, <1>10 DEF Halted
<1>12. ASSUME halts = 1 PROVE ExitsSoFar'
  <2>1. /\ n <= R /\ \A i \in 1 .. n : ran[i] = registered[R - i + 1]
        /\ \A i \in 1 .. Len(act) : act[i].who = "exit" /\ ~act[i].called => i = 1
        /\ n > 0 /\ m = ran[n]
    <3>1. 1 \in DOMAIN act
      BY <1>2
    <3>2. /\ n <= R /\ \A i \in DOMAIN ran : ran[i] = registered[R - i + 1]
          /\ \A i \in DOMAIN act : act[i].who = "exit" /\ ~act[i].called =>
               i = 1 /\ n > 0 /\ m = ran[n]
      BY <1>12 DEF ProgramInv, ExitsSoFar
    <3> HIDE DEF n, R, m
    <3> QED
      BY <1>1, <1>2, <1>6, <3>1, <3>2
  <2> DEFINE k == R - n + 1
  <2>2. k \in 1 .. R /\ m = registered[k]
    BY <1>6, <2>1
  <2>3. old[m] = IF k = 1 THEN StdExit ELSE registered[k-1]
    BY <1>6, <2>2 DEF ProgramInv, ExitChain
  <2>4. \A i \in 1 .. Len(act) : ~(s[i].who = "exit" /\ ~s[i].called)
    BY <1>3, <1>5, <2>1
  <2>5. CASE k = 1
    <3>1. /\ ran' = ran /\ act' = s /\ registered' = registered /\ n = R
          /\ old[m] = StdExit
      <4> HIDE DEF n, R, m
      <4>1. n = R
        BY <1>6, <2>5
      <4> HIDE DEF k
      <4> QED
        BY <1>1, <1>7, <2>3, <2>5, <4>1
    <3> QED
      BY <1>1, <1>5, <1>6, <2>1, <2>4, <3>1 DEF ExitsSoFar
  <2>6. CASE k # 1
    <3>1. k - 1 \in 1 .. R /\ n + 1 <= R /\ R - (n + 1) + 1 = k - 1
      BY <1>6, <2>1, <2>2, <2>6
    <3>2. old[m] = registered[k-1] /\ old[m] # StdExit
      BY <1>6, <2>3, <2>6, <3>1, ElementOfSeq, ProgramAssumption
    <3>3. /\ Len(ran') = n + 1 /\ ran'[n+1] = registered[k-1]
          /\ \A i \in 1 .. n : ran'[i] = ran[i]
      <4>1. registered[k-1] \in Modules
        BY <1>6, <3>1, ElementOfSeq
      <4>2. ran' = Append(ran, registered[k-1])
        BY <1>7, <3>2
      <4> HIDE DEF k
      <4> QED
        BY <1>6, <4>1, <4>2, AppendProperties
    <3>4. DOMAIN ran' = 1 .. n + 1
      BY <1>7, <3>3, LenProperties
    <3>5. \A i \in 1 .. n + 1 : ran'[i] = registered[R - i + 1]
      <4>1. \A i \in 1 .. n + 1 : i \in 1 .. n \/ i = n + 1
        BY <1>6
      <4> QED
        BY <2>1, <3>1, <3>3, <4>1
    <3>6. \A i \in DOMAIN act' : act'[i].who = "exit" /\ ~act'[i].called => i = 1
      <4>1. \A i \in 1 .. Len(act) + 1 :
              i = 1 \/ (i - 1 \in 1 .. Len(act) /\ i = (i - 1) + 1)
        BY <1>2
      <4>2. ASSUME NEW i \in DOMAIN act', i # 1 PROVE ~(act'[i].who = "exit" /\ ~act'[i].called)
        <5> HIDE DEF m
        <5>1. i \in 1 .. Len(act) + 1
          BY <1>7, <3>2, <4>2
        <5>2. i - 1 \in 1 .. Len(act) /\ i = (i - 1) + 1
          BY <4>1, <4>2, <5>1
        <5>3. act'[(i - 1) + 1] = s[i-1]
          BY <1>7, <3>2, <5>2
        <5> QED
          BY <2>4, <5>2, <5>3
      <4> QED
        BY <4>2
    <3>7. status' # "exit" /\ act'[1].mod = ran'[n+1]
      BY <1>1, <1>7, <3>2, <3>3
    <3>8. registered' = registered /\ n + 1 > 0
      BY <1>1, <1>6
    <3> QED
      BY <3>1, <3>3, <3>4, <3>5, <3>6, <3>7, <3>8 DEF ExitsSoFar
  <2> QED
    BY <2>5, <2>6
<1>13. ExitsSoFar'
  BY <1>1, <1>12 DEF ExitsSoFar
<1>14. Activations(act', tagged')
  BY <1>1, <1>7
<1> QED
  BY <1>8, <1>9, <1>11, <1>13, <1>14 DEF ProgramInv

LEMMA ExitReturned == ASSUME ProgramInv, ExitProcReturns PROVE ProgramInv'
<1>1. /\ act[1].who = "exit" /\ status = "runs" /\ act' = Tail(act)
      /\ status' = IF act[2].who = "halt" THEN "exit" ELSE status
      /\ UNCHANGED <<tagged, next, exitProc, old, halts, registered, ran>>
  BY DEF ExitProcReturns, Running
<1>2. Len(act) > 1 /\ Activations(act', tagged')
  <2>1. act[1].who # "main"
    BY <1>1
  <2> QED
    BY <1>1, <2>1, ReturnKeeps DEF ProgramInv
<1>3. /\ Len(act) \in Nat /\ DOMAIN act = 1 .. Len(act) /\ DOMAIN act' = 1 .. Len(act) - 1
      /\ \A i \in 1 .. Len(act) - 1 : act'[i] = act[i+1]
  BY <1>1, <1>2, Popped, Innermost
<1>4. act'[1] = act[2] /\ act[2].who \in {"exit", "halt"}
  <2>1. 1 \in 1 .. Len(act) - 1
    BY <1>2, <1>3
  <2>2. act[1+1].who \in {"exit", "halt"}
    BY <1>1, <2>1 DEF ProgramInv, Activations, Callers
  <2> QED
    BY <1>3, <2>1, <2>2
<1>5. ProgramTypes' /\ ExitChain'
  BY <1>1 DEF ProgramInv, ProgramTypes, ExitChain
<1>6. halts # 0
  BY <1>1, <1>2, <1>3 DEF ProgramInv, Halted
<1>7. Halted'
  BY <1>1, <1>4, <1>6 DEF Halted
<1>8. ASSUME halts = 1 PROVE ExitsSoFar'
  <2>1. \A i \in DOMAIN act' :
          i + 1 \in DOMAIN act /\ act'[i] = act[i+1] /\ i + 1 # 1
    BY <1>3
  <2>2. \A i \in DOMAIN act' : ~(act'[i].who = "exit" /\ ~act'[i].called)
    BY <1>8, <2>1 DEF ProgramInv, ExitsSoFar
  <2>3. ~(status' = "exit" /\ act'[1].who = "exit")
    BY <1>1, <1>4
  <2> QED
    BY <1>1, <1>8, <2>2, <2>3 DEF ProgramInv, ExitsSoFar
<1>9. ExitsSoFar'
  BY <1>1, <1>8 DEF ExitsSoFar
<1> QED
  BY <1>2, <1>5, <1>7, <1>9 DEF ProgramInv

-----------------------------------------------------------------------------
LEMMA ProgramStep == ASSUME ProgramInv, [ProgramNext]_pvars PROVE ProgramInv'
<1>1. CASE CallRoot \/ LinkGlobals \/ CallBody
  BY <1>1, RootCalled, GlobalsLinked, BodyCalled
<1>2. CASE BodyReturns \/ RootReturns
  BY <1>2, Returned
<1>3. CASE Terminate
  BY <1>3, ExitProcKept
<1>4. ASSUME NEW code \in Codes, HALT(code) \/ AssertFail(code) PROVE ProgramInv'
  BY <1>4, HaltKeeps, Stopped DEF HALT, InOberon, Running
<1>5. CASE RtErr \/ MainHalts
  BY <1>5, HaltKeeps DEF RtErr, MainHalts, InOberon, Running
<1>6. CASE CallOldExit \/ ExitProcReturns
  BY <1>6, OldExitCalled, ExitReturned
<1>7. CASE UNCHANGED pvars
  BY <1>7 DEF pvars, ProgramInv, ProgramTypes, Halted, ExitChain, ExitsSoFar
<1> QED
  BY <1>1, <1>2, <1>3, <1>4, <1>5, <1>6, <1>7 DEF ProgramNext

LEMMA InvariantHolds == ProgramSpec => []ProgramInv
<1>1. ProgramInit => ProgramInv
  BY ProgramInitInv
<1>2. ProgramInv /\ [ProgramNext]_pvars => ProgramInv'
  BY ProgramStep
<1> QED
  BY <1>1, <1>2, PTL DEF ProgramSpec

(* The chain of a body, frame by frame. *)
LEMMA ChainOfBody ==
  ASSUME ProgramInv, Running("body")
  PROVE  /\ tagged = Modules /\ Len(act[1].chain) \in Nat
         /\ DOMAIN act[1].chain = 1 .. Len(act[1].chain)
         /\ act[1].chain[1] = Frame("body", act[1].mod)
         /\ \A i \in 1 .. Len(LinkList) :
              /\ i + 1 <= Len(act[1].chain)
              /\ act[1].chain[i+1] = GlobalsOf(LinkList[Len(LinkList) - i + 1])
<1> DEFINE f == Frame("body", act[1].mod)
<1>1. act[1].chain = <<f>> \o FullChain /\ tagged = Modules /\ act[1] \in Activation
  BY Innermost DEF Running, Chained
<1>2. f \in Frames
  BY <1>1 DEF Frame, Frames, Activation
<1>3. /\ DOMAIN act[1].chain = 1 .. Len(act[1].chain)
      /\ Len(act[1].chain) = Len(FullChain) + 1 /\ act[1].chain[1] = f
      /\ \A i \in 1 .. Len(FullChain) : act[1].chain[i+1] = FullChain[i]
  BY <1>1, <1>2, Pushed, ChainsAreFrames
<1>4. Len(FullChain) \in Nat /\ Len(LinkList) \in Nat
  BY ChainsAreFrames, LenProperties
<1>5. \A i \in 1 .. Len(LinkList) :
        /\ i \in 1 .. Len(FullChain)
        /\ FullChain[i] = GlobalsOf(LinkList[Len(LinkList) - i + 1])
  BY <1>4, ChainsAreFrames
<1>6. \A i \in 1 .. Len(LinkList) :
        /\ i + 1 <= Len(act[1].chain)
        /\ act[1].chain[i + 1] = GlobalsOf(LinkList[Len(LinkList) - i + 1])
  BY <1>3, <1>4, <1>5
<1>7. Len(act[1].chain) \in Nat
  BY <1>3, <1>4
<1> QED
  BY <1>1, <1>3, <1>6, <1>7

(* Whenever a module body runs, however it was reached, the collector      *)
(* finds the globals of every module of the link list on the chain it      *)
(* walks, and each has its TDesc (GenerateRootModule, Target.mi:202-224).  *)
THEOREM GlobalsStayRoots == ProgramSpec => []GlobalsAreRoots
<1>1. ASSUME ProgramInv, Running("body"), NEW m \in Modules
      PROVE  m \in tagged /\ Contains(act[1].chain, GlobalsOf(m))
  <2>1. m \in tagged
    BY <1>1, ChainOfBody
  <2>2. PICK i \in 1 .. Len(LinkList) : LinkList[i] = m
    BY ChainsAreFrames DEF Modules
  <2> DEFINE j == Len(LinkList) - i + 1
  <2>3. j \in 1 .. Len(LinkList) /\ Len(LinkList) - j + 1 = i
    BY ChainsAreFrames
  <2>4. j + 1 <= Len(act[1].chain) /\ act[1].chain[j+1] = GlobalsOf(m)
    <3> HIDE DEF j
    <3> QED
      BY <1>1, <2>2, <2>3, ChainOfBody
  <2>5. j + 1 \in 1 .. Len(act[1].chain)
    BY <1>1, <2>3, <2>4, ChainOfBody, ChainsAreFrames
  <2>6. Contains(act[1].chain, GlobalsOf(m))
    BY <1>1, <2>4, <2>5, ChainOfBody DEF Contains
  <2> QED
    BY <2>1, <2>6
<1>2. ProgramInv => GlobalsAreRoots
  BY <1>1 DEF GlobalsAreRoots
<1> QED
  BY <1>2, InvariantHolds, PTL

(* If a module body fails, DumpProcStack follows tagged frames only and    *)
(* stops at the globals of the module linked last (OB2RTS.as, _RtErr).     *)
THEOREM DumpStops == ProgramSpec => []DumpEnds
<1>1. ASSUME ProgramInv, Running("body")
      PROVE  \E i \in DOMAIN act[1].chain :
               /\ act[1].chain[i] = GlobalsOf(LinkList[Len(LinkList)])
               /\ \A j \in 1 .. i : HasTag(act[1].chain[j])
  <2> DEFINE c == act[1].chain
             N == Len(LinkList)
  <2>1. N \in Nat \ {0} /\ 1 \in 1 .. N
    BY ChainsAreFrames
  <2>2. /\ c[2] = GlobalsOf(LinkList[N]) /\ 2 \in DOMAIN c
        /\ c[1] = Frame("body", act[1].mod) /\ tagged = Modules
    BY <1>1, <2>1, ChainOfBody
  <2>3. LinkList[N] \in Modules
    BY <2>1, ChainsAreFrames
  <2>4. HasTag(c[1]) /\ HasTag(c[2])
    BY <2>2, <2>3 DEF HasTag, Frame, GlobalsOf
  <2>5. \A j \in 1 .. 2 : HasTag(c[j])
    BY <2>4
  <2> QED
    BY <2>2, <2>5
<1>2. ProgramInv => DumpEnds
  BY <1>1 DEF DumpEnds
<1> QED
  BY <1>2, InvariantHolds, PTL

(* In the reverse order of the calls of Terminate and each once, the exit  *)
(* procedures run, however the program comes to its end; if the last of    *)
(* them calls StdExit, all have run (_Halt, src/src/CTest/ExitProcs).      *)
THEOREM ExitsInReverse == ProgramSpec => []ExitsReversed
<1>1. ASSUME ProgramInv, halts = 1
      PROVE  /\ \E n \in 0 .. Len(registered) : ran = SubSeq(Reverse(registered), 1, n)
             /\ status = "exit" /\ act[1].who = "exit" => ran = Reverse(registered)
  <2> DEFINE n == Len(ran)
             R == Len(registered)
             r == Reverse(registered)
  <2>1. /\ ran \in Seq(Modules) /\ registered \in Seq(Modules)
        /\ n \in Nat /\ R \in Nat /\ DOMAIN ran = 1 .. n
        /\ n <= R /\ \A i \in 1 .. n : ran[i] = registered[R - i + 1]
        /\ status = "exit" /\ act[1].who = "exit" => n = R
    BY <1>1, LenProperties DEF ProgramInv, ProgramTypes, ExitsSoFar
  <2>2. r = [i \in 1 .. R |-> registered[R - i + 1]]
    BY DEF Reverse
  <2>3. \A i \in 1 .. R : R - i + 1 \in 1 .. R
    BY <2>1
  <2>4. \A i \in 1 .. R : registered[R - i + 1] \in Modules
    BY <2>1, <2>3, ElementOfSeq
  <2>5. ran = [i \in 1 .. n |-> registered[R - i + 1]]
    BY <2>1
  <2>6. r \in Seq(Modules) /\ Len(r) = R
    <3>1. r \in [1 .. R -> Modules]
      BY <2>2, <2>4
    <3> HIDE DEF r
    <3> QED
      BY <2>1, <3>1
  <2>7. SubSeq(r, 1, n) = [i \in 1 .. n |-> r[i]]
    BY <2>1, <2>6
  <2>8. \A i \in 1 .. n : r[i] = registered[R - i + 1]
    BY <2>1, <2>2
  <2>9. ran = SubSeq(r, 1, n)
    <3> HIDE DEF r, n, R
    <3> QED
      BY <2>5, <2>7, <2>8
  <2>10. n = R => ran = r
    BY <2>2, <2>5
  <2>11. n \in 0 .. R
    BY <2>1
  <2> HIDE DEF r, n, R
  <2>12. status = "exit" /\ act[1].who = "exit" => ran = r
    BY <2>1, <2>10
  <2>13. \E p \in 0 .. R : ran = SubSeq(r, 1, p)
    BY <2>9, <2>11
  <2> QED
    BY <2>12, <2>13 DEF r, R
<1>2. ProgramInv => ExitsReversed
  BY <1>1 DEF ExitsReversed
<1> QED
  BY <1>2, InvariantHolds, PTL
=============================================================================

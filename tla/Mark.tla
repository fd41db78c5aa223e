-------------------------------- MODULE Mark ---------------------------------
(***************************************************************************)
(* Mark (src/src/Storage.c), loop by loop.                                 *)
(*                                                                         *)
(* MarkIt visits the stack frames from root_ebp on and calls MarkABlock    *)
(* for each pointer that leads to an unmarked block.  MarkABlock goes      *)
(* through the block's offset table.  To come back from a deeper block it  *)
(* keeps no frame: it stores the way back (`last') in the very pointer it  *)
(* follows, and the place it has reached in the offset table in the        *)
(* block's tag.  Only return addresses, and for open arrays count, base    *)
(* and tag, go onto the machine stack.                                     *)
(*                                                                         *)
(* The offsets in a table are numbered from 1; place 0 is the triple that  *)
(* begins the table of an open array (-2, offset of the elements, element  *)
(* size).  The mark bit of a tag and its place are kept apart: a table     *)
(* stands one byte behind a word boundary (CODEf.pum.TDesc), so a tag with *)
(* bit 0 set addresses it and every place stored in a tag is odd.          *)
(***************************************************************************)
EXTENDS Integers, Sequences, FiniteSets

CONSTANTS
  Blocks,   \* the blocks in use
  NIL,
  Fields,   \* block made by NEW |-> number of pointers (in one element)
  Elems,    \* block that is an open array |-> number of its elements
  Frames    \* the stack frames, last call first, as [fixed, open]: a number
            \* of pointers, and the open-array parameters as [fields, elems]

ASSUME MarkAssumption ==
  /\ NIL \notin Blocks
  /\ DOMAIN Fields \subseteq Blocks /\ DOMAIN Elems \subseteq DOMAIN Fields
  /\ \A b \in DOMAIN Fields : Fields[b] \in Nat
  /\ \A b \in DOMAIN Elems : Elems[b] \in Nat \ {0}
  /\ Frames \in Seq([fixed : Nat, open : Seq([fields : Nat, elems : Nat \ {0}])])
  /\ Len(Frames) > 0
  /\ \A f \in DOMAIN Frames : <<"frame", f>> \notin Blocks

VARIABLES
  pc,      \* "root", "enter", "fixed", "elem", "return", "done" or "wild"
  act,     \* %ebp: the block or frame visited
  last,    \* %edx: where act was reached from
  desc,    \* %edi: <<part, place>> in act's offset table
  base,    \* %esi: the element of an open array visited
  count,   \* %ecx: how many of its elements are left
  stack,   \* the machine stack, top first
  marked,  \* the blocks whose tag has the mark bit
  place,   \* block |-> the place its tag addresses
  ptr,     \* block |-> slot |-> what the pointer there leads to
  root,    \* frame |-> slot |-> the same for the frames
  graph    \* ptr as it was when marking began (history)

mvars == <<pc, act, last, desc, base, count, stack, marked, place, ptr, root,
           graph>>

-----------------------------------------------------------------------------
(* Blocks made by SYSTEM.NEW have no offset table. *)
System == Blocks \ DOMAIN Fields
IsOpen(b) == b \in DOMAIN Elems

(* CodeBlocklists: an open array's table lists the offsets of one element. *)
Start(b) == IF IsOpen(b) THEN 0 ELSE 1
Slots(b) ==
  IF b \in System THEN {}
  ELSE (IF IsOpen(b) THEN 1 .. Elems[b] ELSE {0}) \X (1 .. Fields[b])
Pointers == UNION {{b} \X Slots(b) : b \in Blocks}

(* CodeLocalBlocklists: the fixed offsets are part 0 of a frame's table,   *)
(* part i belongs to the i-th open-array parameter.                        *)
PartFields(f, i) == IF i = 0 THEN Frames[f].fixed ELSE Frames[f].open[i].fields
PartElems(f, i) == IF i = 0 THEN 1 ELSE Frames[f].open[i].elems
PartPointers(f, i) == {f} \X {i} \X (1 .. PartElems(f, i)) \X (1 .. PartFields(f, i))
FramePointers ==
  UNION {UNION {PartPointers(f, i) : i \in 0 .. Len(Frames[f].open)} : f \in DOMAIN Frames}

-----------------------------------------------------------------------------
(* Every block is unmarked and its tag addresses the start of its table;   *)
(* where the pointers lead is up to the program.                           *)
MarkInit ==
  /\ pc = "root" /\ act = <<"frame", 1>> /\ last = NIL
  /\ desc = <<0, 1>> /\ base = 1 /\ count = 1
  /\ stack = <<>>
  /\ marked = {}
  /\ place = [b \in Blocks |-> Start(b)]
  /\ ptr \in [Pointers -> Blocks \cup {NIL}]
  /\ root \in [FramePointers -> Blocks \cup {NIL}]
  /\ graph = ptr

-----------------------------------------------------------------------------
(* MarkIt: the pointers of the frames.                                     *)
AtRoot == pc = "root" /\ desc[2] <= PartFields(act[2], desc[1])
RootPointer == root[<<act[2], desc[1], base, desc[2]>>]

Unmarked(p) == p # NIL /\ p \notin marked

SkipRoot ==
  /\ AtRoot /\ ~Unmarked(RootPointer)
  /\ desc' = <<desc[1], desc[2] + 1>>
  /\ UNCHANGED <<pc, act, last, base, count, stack, marked, place, ptr, root, graph>>

FollowRoot ==
  /\ AtRoot /\ Unmarked(RootPointer)
  /\ marked' = marked \cup {RootPointer}
  /\ stack' = <<<<"root", desc>>>> \o stack
  /\ last' = act
  /\ act' = RootPointer
  /\ pc' = "enter"
  /\ UNCHANGED <<desc, base, count, place, ptr, root, graph>>

(* The end of a part: on to the next element, the next open-array          *)
(* parameter, the calling frame (act := MEM(act)), or back to Mark.        *)
EndOfPart ==
  /\ pc = "root" /\ ~AtRoot
  /\ LET part == desc[1]
         next == part + 1
     IN \/ /\ count > 1
           /\ count' = count - 1 /\ base' = base + 1
           /\ desc' = <<part, 1>>
           /\ UNCHANGED <<pc, act>>
        \/ /\ count = 1 /\ next <= Len(Frames[act[2]].open)
           /\ count' = PartElems(act[2], next) /\ base' = 1
           /\ desc' = <<next, 1>>
           /\ UNCHANGED <<pc, act>>
        \/ /\ count = 1 /\ next > Len(Frames[act[2]].open) /\ act[2] < Len(Frames)
           /\ act' = <<"frame", act[2] + 1>>
           /\ count' = 1 /\ base' = 1
           /\ desc' = <<0, 1>>
           /\ UNCHANGED pc
        \/ /\ count = 1 /\ next > Len(Frames[act[2]].open) /\ act[2] = Len(Frames)
           /\ pc' = "done"
           /\ UNCHANGED <<act, count, base, desc>>
  /\ UNCHANGED <<last, stack, marked, place, ptr, root, graph>>

-----------------------------------------------------------------------------
(* MarkABlock.  The "table" of a SYSTEM.NEW block is the middle of its     *)
(* size word: whatever is read there is taken for an offset.               *)
EnterSystem ==
  /\ pc = "enter" /\ act \in System
  /\ pc' = "wild"
  /\ UNCHANGED <<act, last, desc, base, count, stack, marked, place, ptr, root, graph>>

EnterFixed ==
  /\ pc = "enter" /\ act \notin System /\ ~IsOpen(act)
  /\ desc' = <<0, place[act]>>
  /\ pc' = "fixed"
  /\ UNCHANGED <<act, last, base, count, stack, marked, place, ptr, root, graph>>

EnterOpen ==
  /\ pc = "enter" /\ IsOpen(act)
  /\ stack' = <<<<"saved", count, base, place[act]>>>> \o stack
  /\ count' = Elems[act] /\ base' = 1
  /\ desc' = <<0, place[act] + 1>>
  /\ pc' = "elem"
  /\ UNCHANGED <<act, last, marked, place, ptr, root, graph>>

AtField == pc \in {"fixed", "elem"} /\ desc[2] <= Fields[act]
SlotAt(kind, p) == <<IF kind = "fixed" THEN 0 ELSE base, p>>
Field == <<act, SlotAt(pc, desc[2])>>

\* Mutant: the table is left behind only when the pointer is not NIL.
SkipField_NotNil ==
  /\ AtField /\ ~Unmarked(ptr[Field])
  /\ desc' = IF ptr[Field] = NIL THEN desc ELSE <<0, desc[2] + 1>>
  /\ UNCHANGED <<pc, act, last, base, count, stack, marked, place, ptr, root, graph>>

SkipField ==
  /\ AtField /\ ~Unmarked(ptr[Field])
  /\ desc' = <<0, desc[2] + 1>>
  /\ UNCHANGED <<pc, act, last, base, count, stack, marked, place, ptr, root, graph>>

\* Mutant: a marked block is entered again.
FollowField_Marked ==
  /\ AtField /\ ptr[Field] \in Blocks
  /\ marked' = marked \cup {ptr[Field]}
  /\ ptr' = [ptr EXCEPT ![Field] = last]
  /\ place' = [place EXCEPT ![act] = desc[2]]
  /\ last' = act
  /\ act' = ptr[Field]
  /\ stack' = <<<<pc>>>> \o stack
  /\ pc' = "enter"
  /\ UNCHANGED <<desc, base, count, root, graph>>

(* The pointer followed takes the way back, the tag the place.             *)
FollowField ==
  /\ AtField /\ Unmarked(ptr[Field])
  /\ marked' = marked \cup {ptr[Field]}
  /\ ptr' = [ptr EXCEPT ![Field] = last]
  /\ place' = [place EXCEPT ![act] = desc[2]]
  /\ last' = act
  /\ act' = ptr[Field]
  /\ stack' = <<<<pc>>>> \o stack
  /\ pc' = "enter"
  /\ UNCHANGED <<desc, base, count, root, graph>>

\* Mutant: the tag is left at the place last reached.
EndFixed_KeepsPlace ==
  /\ pc = "fixed" /\ ~AtField
  /\ pc' = "return"
  /\ UNCHANGED <<act, last, desc, base, count, stack, marked, place, ptr, root, graph>>

(* The word behind a fixed table is the tag to restore. *)
EndFixed ==
  /\ pc = "fixed" /\ ~AtField
  /\ place' = [place EXCEPT ![act] = 1]
  /\ pc' = "return"
  /\ UNCHANGED <<act, last, desc, base, count, stack, marked, ptr, root, graph>>

\* Mutant: the next element is visited from the end of the table.
NextElem_KeepsDesc ==
  /\ pc = "elem" /\ ~AtField /\ count > 1
  /\ count' = count - 1 /\ base' = base + 1
  /\ UNCHANGED <<pc, act, last, desc, stack, marked, place, ptr, root, graph>>

NextElem ==
  /\ pc = "elem" /\ ~AtField /\ count > 1
  /\ count' = count - 1 /\ base' = base + 1
  /\ desc' = <<0, Head(stack)[4] + 1>>
  /\ UNCHANGED <<pc, act, last, stack, marked, place, ptr, root, graph>>

(* The last element: tag, base and count come back from the stack. *)
EndElem ==
  /\ pc = "elem" /\ ~AtField /\ count = 1
  /\ LET saved == Head(stack)
     IN /\ count' = saved[2] /\ base' = saved[3]
        /\ place' = [place EXCEPT ![act] = saved[4]]
  /\ stack' = Tail(stack)
  /\ pc' = "return"
  /\ UNCHANGED <<act, last, desc, marked, ptr, root, graph>>

(* RETURN to MarkIt. *)
ReturnToRoot ==
  /\ pc = "return" /\ Head(stack)[1] = "root"
  /\ act' = last
  /\ desc' = <<Head(stack)[2][1], Head(stack)[2][2] + 1>>
  /\ stack' = Tail(stack)
  /\ pc' = "root"
  /\ UNCHANGED <<last, base, count, marked, place, ptr, root, graph>>

(* RETURN to the block the pointer was followed from: the pointer gets its *)
(* value back, the way further back is taken out of it.                    *)
ReturnToBlock ==
  /\ pc = "return" /\ Head(stack)[1] \in {"fixed", "elem"}
  /\ LET slot == <<last, SlotAt(Head(stack)[1], place[last])>>
     IN /\ last' = ptr[slot]
        /\ ptr' = [ptr EXCEPT ![slot] = act]
  /\ desc' = <<0, place[last] + 1>>
  /\ act' = last
  /\ pc' = Head(stack)[1]
  /\ stack' = Tail(stack)
  /\ UNCHANGED <<base, count, marked, place, root, graph>>

MarkNext ==
  \/ SkipRoot \/ FollowRoot \/ EndOfPart
  \/ EnterSystem \/ EnterFixed \/ EnterOpen
  \/ SkipField \/ FollowField \/ EndFixed \/ NextElem \/ EndElem
  \/ ReturnToRoot \/ ReturnToBlock

MarkSpec == MarkInit /\ [][MarkNext]_mvars

(* The collector runs to its end: nothing else runs meanwhile. *)
FairMark == MarkSpec /\ WF_mvars(MarkNext)

-----------------------------------------------------------------------------
RootBlocks == {root[p] : p \in FramePointers} \ {NIL}
EdgeSet == {e \in Blocks \X Blocks : \E s \in Slots(e[1]) : graph[<<e[1], s>>] = e[2]}

Tracing == INSTANCE Trace WITH roots <- RootBlocks, edges <- EdgeSet,
                               done <- (pc = "done")

(* Marking marks what Trace marks, each block because something marked     *)
(* points to it, and ends only when nothing reachable is left unmarked.    *)
ImplementsTrace == Tracing!TraceSpec

(* When marking is over every pointer leads where it led before, every tag *)
(* addresses its table's start and exactly the reachable blocks are marked.*)
Restored ==
  pc = "done" => /\ ptr = graph
                 /\ \A b \in Blocks : place[b] = Start(b)
                 /\ marked = Tracing!Reachable

(* While a block is visited only the blocks on the way back to the frame   *)
(* are not as they were, each marked and with one pointer changed, at the  *)
(* place its tag addresses.  There are as many as there are returns into   *)
(* MarkABlock on the stack, which so never exceeds the number of blocks.   *)
Changed(b) == {s \in Slots(b) : ptr[<<b, s>>] # graph[<<b, s>>]}
Returns == {i \in DOMAIN stack : stack[i][1] \in {"fixed", "elem"}}

OnlyWayBackChanged ==
  LET pending == {b \in Blocks : Changed(b) # {}}
  IN /\ pending \subseteq marked
     /\ Cardinality(pending) = Cardinality(Returns)
     /\ \A b \in pending : \E e \in Slots(b) : Changed(b) = {e} /\ e[2] = place[b]

(* Marking ends (or loses its way in a block without a table, see below),  *)
(* whatever cycles the pointers form.                                      *)
MarkEnds == <>(pc \in {"done", "wild"})

(* The walk never takes other words for an offset table.                   *)
StaysInTables == pc # "wild"
=============================================================================

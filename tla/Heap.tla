-------------------------------- MODULE Heap --------------------------------
(***************************************************************************)
(* The heap of the JACOB run-time system (src/src/Storage.c) as a store of *)
(* blocks.  A block starts at an address divisible by 8 and its size is a  *)
(* multiple of 8; every block is free or in use.  What the blocks look     *)
(* like in memory (tags, free list, sentinel) is the business of HeapMem,  *)
(* which implements this module; who asks for blocks and which blocks a    *)
(* collection may take is the business of Runtime, which composes it.      *)
(*                                                                         *)
(* All sizes and addresses are bytes, as in the code.                      *)
(***************************************************************************)
EXTENDS Integers, FiniteSets, Functions

CONSTANTS
  HeapStart,        \* address of the anchor's tag, 4 modulo 8
  InitialHeapSize,  \* bytes asked of sbrk when Storage is initialised
  MaxHeapEnd,       \* sbrk fails when the heap would end beyond this address
  Requests,         \* the sizes (in bytes) the clients ask for
  Changes           \* the arguments of ChangeHeapSize

ASSUME HeapAssumption ==
  /\ HeapStart \in Nat /\ HeapStart % 8 = 4
  /\ InitialHeapSize \in Nat /\ InitialHeapSize % 8 = 0
  /\ InitialHeapSize >= 24
  /\ MaxHeapEnd \in Nat
  /\ Requests \subseteq Nat \ {0}
  /\ Changes \subseteq Int

VARIABLES
  heapEnd,  \* address of the sentinel
  free,     \* the free blocks: address |-> size
  used      \* the blocks handed out: address |-> size

vars == <<heapEnd, free, used>>

-----------------------------------------------------------------------------
\* ALIGN(8,X)
Align8(x) == ((x + 7) \div 8) * 8

\* The first block starts behind the anchor block.
First == HeapStart + 12

Blocks == DOMAIN free \cup DOMAIN used
Size(b) == IF b \in DOMAIN free THEN free[b] ELSE used[b]

\* f with x mapped to y, whether or not x is already in its domain
Put(f, x, y) == [z \in DOMAIN f \cup {x} |-> IF z = x THEN y ELSE f[z]]
Drop(f, S) == Restrict(f, DOMAIN f \ S)

-----------------------------------------------------------------------------
(* Storage$I: one free block between anchor and sentinel. *)
Init ==
  /\ heapEnd = HeapStart + InitialHeapSize - 4
  /\ free = [b \in {First} |-> heapEnd - First]
  /\ used = [b \in {} |-> 0]

(* AllocAligned, the search that succeeds: the free list is scanned in     *)
(* address order and the first block that is large enough is taken; what   *)
(* is left of it stays free behind the new block.                          *)
FirstFit(b, size) ==
  /\ b \in DOMAIN free
  /\ free[b] >= size
  /\ \A c \in DOMAIN free : free[c] >= size => b <= c

\* Mutant: the rest of a split block is not linked.
AllocAt_LosesRest(b, size) ==
  /\ FirstFit(b, size)
  /\ used' = Put(used, b, size)
  /\ free' = Drop(free, {b})
  /\ UNCHANGED heapEnd

AllocAt(b, size) ==
  /\ FirstFit(b, size)
  /\ used' = Put(used, b, size)
  /\ free' = IF free[b] = size
             THEN Drop(free, {b})
             ELSE Drop(Put(free, b + size, free[b] - size), {b})
  /\ UNCHANGED heapEnd

Alloc(size) == \E b \in DOMAIN free : AllocAt(b, Align8(size))

\* Mutant: the block behind is merged but stays in the list.
FreeBlock_KeepsNext(b) ==
  /\ b \in DOMAIN used
  /\ LET next  == b + used[b]
         grown == IF next \in DOMAIN free THEN used[b] + free[next] ELSE used[b]
     IN free' = Put(free, b, grown)
  /\ used' = Drop(used, {b})
  /\ UNCHANGED heapEnd

(* Free: the block is merged with the free blocks it touches. *)
FreeBlock(b) ==
  /\ b \in DOMAIN used
  /\ LET next   == b + used[b]
         grown  == IF next \in DOMAIN free THEN used[b] + free[next] ELSE used[b]
         before == {p \in DOMAIN free : p + free[p] = b}
         others == Drop(free, {next})
     IN free' = IF before = {}
                THEN Put(others, b, grown)
                ELSE LET p == CHOOSE p \in before : TRUE
                     IN  Put(others, p, free[p] + grown)
  /\ used' = Drop(used, {b})
  /\ UNCHANGED heapEnd

(* Sweep: every maximal run of blocks that are not marked becomes one free *)
(* block, from the run's first block to the next marked block or the       *)
(* sentinel.                                                               *)
Unmarked(marked) == Blocks \ marked

Heads(marked) ==
  {h \in Unmarked(marked) : \A a \in Unmarked(marked) : a + Size(a) # h}

RunEnds(h, marked) == {e \in marked \cup {heapEnd} : e > h}
RunEnd(h, marked) ==
  CHOOSE e \in RunEnds(h, marked) : \A x \in RunEnds(h, marked) : e <= x

\* Mutant: every unmarked block becomes a free block of its own.
Sweep_NoJoin(marked) ==
  /\ marked \subseteq DOMAIN used
  /\ free' = [h \in Unmarked(marked) |-> Size(h)]
  /\ used' = Restrict(used, marked)
  /\ UNCHANGED heapEnd

Sweep(marked) ==
  /\ marked \subseteq DOMAIN used
  /\ free' = [h \in Heads(marked) |-> RunEnd(h, marked) - h]
  /\ used' = Restrict(used, marked)
  /\ UNCHANGED heapEnd

(* IncreaseHeap: the old sentinel becomes a free block that reaches to the *)
(* new one; it is not merged with a free block in front of it.             *)
IncreaseHeap(change) ==
  /\ change > 0
  /\ heapEnd + Align8(change) <= MaxHeapEnd
  /\ heapEnd' = heapEnd + Align8(change)
  /\ free' = Put(free, heapEnd, Align8(change))
  /\ UNCHANGED used

\* Mutant: the last block is cut whether or not it is free.
DecreaseHeap_CutsUsed(change) ==
  /\ change > 0
  /\ \E b \in DOMAIN used :
       /\ b + used[b] = heapEnd
       /\ heapEnd' = IF heapEnd - Align8(change) < b + 8
                     THEN b + 8 ELSE heapEnd - Align8(change)
       /\ used' = Put(used, b, heapEnd' - b)
  /\ UNCHANGED free

(* DecreaseHeap: the block in front of the sentinel, if it is free, is cut *)
(* by at most its own size.                                                *)
DecreaseHeap(change) ==
  /\ change > 0
  /\ \E b \in DOMAIN free :
       /\ b + free[b] = heapEnd
       /\ heapEnd' = IF heapEnd - Align8(change) < b
                     THEN b ELSE heapEnd - Align8(change)
       /\ free' = IF heapEnd' = b THEN Drop(free, {b})
                                  ELSE Put(free, b, heapEnd' - b)
  /\ UNCHANGED used

ChangeHeapSize(change) == IncreaseHeap(change) \/ DecreaseHeap(-change)

Next ==
  \/ \E size \in Requests : Alloc(size)
  \/ \E b \in DOMAIN used : FreeBlock(b)
  \/ \E marked \in SUBSET DOMAIN used : Sweep(marked)
  \/ \E change \in Changes : ChangeHeapSize(change)

Spec == Init /\ [][Next]_vars

-----------------------------------------------------------------------------
Aligned(x) == x % 8 = 0

TypeOK ==
  /\ heapEnd \in Nat /\ Aligned(heapEnd)
  /\ DOMAIN free \subseteq Nat /\ DOMAIN used \subseteq Nat
  /\ free \in [DOMAIN free -> Nat \ {0}]
  /\ used \in [DOMAIN used -> Nat \ {0}]
  /\ \A b \in Blocks : Aligned(b) /\ Aligned(Size(b))
  /\ DOMAIN free \cap DOMAIN used = {}

(* Every block lies between the anchor and the sentinel. *)
InHeap ==
  /\ First <= heapEnd
  /\ \A b \in Blocks : First <= b /\ b + Size(b) <= heapEnd

(* No two blocks share a byte: neither a split, a merge, a sweep nor a     *)
(* change of the heap's size ever gives memory away twice.                 *)
NoOverlap ==
  \A a, b \in Blocks : a < b => a + Size(a) <= b

(* No memory is lost: every byte of the heap belongs to some block.  With  *)
(* NoOverlap this is what lets Sweep go from block to block by adding      *)
(* sizes and arrive at the sentinel.                                       *)
NoLeak ==
  \A x \in First .. heapEnd - 1 : \E b \in Blocks : b <= x /\ x < b + Size(b)

(* A block in use keeps its place and its size until it is given back, and *)
(* only two things give it back: a Free of that very block, and a sweep    *)
(* that did not find it marked.  No allocation, no Free of a neighbour and *)
(* no change of the heap's size touches it.                                *)
GivenBack(b) == FreeBlock(b) \/ \E marked \in SUBSET (DOMAIN used \ {b}) : Sweep(marked)

Steady ==
  [][\A b \in DOMAIN used :
       GivenBack(b) \/ (b \in DOMAIN used' /\ used'[b] = used[b])]_vars

(* A sweep leaves no two free blocks side by side. *)
SweepCoalesces ==
  [][(\E marked \in SUBSET DOMAIN used : Sweep(marked))
       => \A a, b \in DOMAIN free' : a + free'[a] # b]_vars
=============================================================================

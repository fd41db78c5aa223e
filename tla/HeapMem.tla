------------------------------- MODULE HeapMem -------------------------------
(***************************************************************************)
(* The heap of src/src/Storage.c as it lies in memory: 32-bit words between *)
(* HeapStart and the program break, a tag in front of every block, the     *)
(* address-ordered list of free blocks from the anchor to the sentinel, and *)
(* the client's data in the blocks it was given.  The module implements    *)
(* Heap: Blocks of Heap are what a walk along list and tags finds here.     *)
(*                                                                         *)
(* A block at address b owns the words b-4 .. b+size-8: its tag, then its  *)
(* contents.  The size of a free block stands at b+4, so that the smallest *)
(* block, of 8 bytes, has no room for it and gets a tag of its own; the    *)
(* word at b+4 is then the tag of the block behind it.                     *)
(***************************************************************************)
EXTENDS Integers, Sequences, FiniteSets, Functions

CONSTANTS
  HeapStart, InitialHeapSize, MaxHeapEnd, Requests, Changes,
  Clients,  \* "C": Alloc and Free, as in StorageTest.c;
            \* "Oberon": the three NEWs and the collector
  SystemRequests,   \* the sizes asked of SYSTEM.NEW
  Lengths,  \* the lengths asked of NEW for an open array, one per dimension;
            \* their product stays below 2^32, where the code's would wrap
  Text,     \* where the text segment begins
  TDesc     \* the compiler's type descriptors: tag |-> [size, elemSize],
            \* size < 0 for an open array of -size dimensions

VARIABLES
  mem,      \* word address |-> contents
  heapEnd,  \* HeapEnd
  arr,      \* what the client knows: address |-> [kind, tag, bytes, lens]
  halted,   \* Halt(1) was called
  client    \* who works on the heap, one of Clients

vars == <<mem, heapEnd, arr, halted, client>>

-----------------------------------------------------------------------------
(* Words.  Descriptors lie in the text segment, apart from the heap: their *)
(* addresses, from Text on, are numbers that no heap address or block size *)
(* reaches.  All of them are even; bit 0 of a tag is the mark.             *)
AB_D == Text        \* anchor
FB_D == Text + 2    \* free block
B8_D == Text + 4    \* free block of 8 bytes
ZB_D == Text + 6    \* sentinel
SB_S == Text + 8    \* skipper of the blocks of SYSTEM.NEW
DATA == -7      \* whatever the client stores

ASSUME HeapMemAssumption ==
  /\ HeapStart \in Nat /\ HeapStart % 8 = 4
  /\ InitialHeapSize \in Nat /\ InitialHeapSize % 8 = 0 /\ InitialHeapSize >= 32
  /\ Text \in Nat /\ Text % 2 = 0 /\ MaxHeapEnd \in HeapStart + InitialHeapSize .. Text - 1
  /\ Requests \subseteq Nat \ {0} /\ SystemRequests \subseteq Nat /\ Changes \subseteq Int
  /\ Lengths \subseteq Seq(Nat) \ {<<>>}
  /\ Clients \subseteq {"C", "Oberon"}
  /\ \A t \in DOMAIN TDesc :
       t \in Nat /\ t > SB_S /\ t % 2 = 0 /\ TDesc[t] \in [size : Int, elemSize : Nat]

Align8(x) == ((x + 7) \div 8) * 8
First     == HeapStart + 12
Anchor    == HeapStart + 4
Words     == {w \in HeapStart .. MaxHeapEnd : w % 4 = 0}

Marked(m, b) == m[b-4] % 2 = 1
Tag(m, b)    == m[b-4] - (m[b-4] % 2)
FreeSize(m, b) == IF Tag(m, b) = B8_D THEN 8 ELSE m[b+4]

\* The sizes of the blocks that NEW makes.
StaticBlockSize(size) == Align8(4 + size)
OpenBlockSize(odim, nofElems, elemSize) ==
  Align8(4 + 4 * ((IF odim > 1 THEN 1 ELSE 0) + odim) + nofElems * elemSize)

\* Mutant: the two words behind the data are not counted.
SystemBlockSize_NoTrailer(size) == Align8(4 + size)

SystemBlockSize(size) == Align8(4 + size + 8)

(* What a block's skipper adds to its address, by the kind of its tag. *)
BlockSize(m, b) ==
  LET t == Tag(m, b) IN
  CASE t = FB_D -> m[b+4]
    [] t \in {B8_D, AB_D} -> 8
    [] t \in Words -> m[t]
    [] t \in DOMAIN TDesc /\ TDesc[t].size >= 0 -> StaticBlockSize(TDesc[t].size)
    [] t \in DOMAIN TDesc /\ TDesc[t].size < 0 ->
         OpenBlockSize(-TDesc[t].size, m[b], TDesc[t].elemSize)

\* Write the header of a free block.
WriteFree(m, b, next, size) ==
  IF size = 8 THEN [m EXCEPT ![b-4] = B8_D, ![b] = next]
              ELSE [m EXCEPT ![b-4] = FB_D, ![b] = next, ![b+4] = size]

WriteSentinel(m, e) == [m EXCEPT ![e-4] = ZB_D, ![e] = 0]

\* The client stores its data in the words from lo up to hi.
Fill(m, lo, hi) == [w \in DOMAIN m |-> IF lo <= w /\ w < hi THEN DATA ELSE m[w]]

-----------------------------------------------------------------------------
(* A loop: F is applied until it changes nothing more.  No loop of the     *)
(* heap takes more than MaxSteps steps, as each one passes a block.        *)
MaxSteps == MaxHeapEnd \div 8

Loop(F, x) ==
  LET after[n \in Nat] == IF n = 0 THEN x ELSE F[after[n-1]]
  IN  after[MaxSteps]

(* The free list, from the anchor to the sentinel. *)
ListOf(m, end) ==
  Loop([s \in Seq(Words) \X Words |->
          IF s[2] = end THEN s ELSE <<Append(s[1], s[2]), m[s[2]]>>],
       <<<<>>, m[Anchor]>>)[1]
FreeList == ListOf(mem, heapEnd)

(* The blocks in the order of their addresses, as DumpHeap lists them. *)
Entry(b) ==
  [adr |-> b, size |-> BlockSize(mem, b),
   free |-> Tag(mem, b) \in {FB_D, B8_D}, marked |-> Marked(mem, b)]
Entries == [adr : Words, size : Nat, free : BOOLEAN, marked : BOOLEAN]
Walk ==
  Loop([s \in Seq(Entries) \X Words |->
          IF Tag(mem, s[2]) = ZB_D THEN s
          ELSE <<Append(s[1], Entry(s[2])), s[2] + BlockSize(mem, s[2])>>],
       <<<<>>, First>>)[1]

(* GetInfo *)
Counted ==
  Loop([s \in [block : Words, total : Nat, max : Nat, nof : Nat] |->
          LET size == FreeSize(mem, s.block) IN
          IF s.block = heapEnd THEN s
          ELSE [block |-> mem[s.block],
                total |-> s.total + size,
                max   |-> IF size > s.max THEN size ELSE s.max,
                nof   |-> s.nof + 1]],
       [block |-> mem[Anchor], total |-> 0, max |-> 0, nof |-> 0])
Info ==
  [TotalBytes     |-> heapEnd - HeapStart - 12,
   TotalFreeBytes |-> Counted.total,
   MaxFreeBytes   |-> Counted.max,
   NofFreeBlocks  |-> Counted.nof]

HeapAvail == Info.MaxFreeBytes

-----------------------------------------------------------------------------
(* AllocAligned: search the free list for the first block of at least size *)
(* bytes, unlink it, and link what is left of it in its place.  A place in *)
(* the list is a block and the one in front of it; none is found if the    *)
(* search ends at the sentinel.                                            *)
SearchEnd(size) ==
  Loop([s \in Words \X Words |->
          IF s[2] = heapEnd \/ size <= FreeSize(mem, s[2]) THEN s ELSE <<s[2], mem[s[2]]>>],
       <<Anchor, mem[Anchor]>>)
Found(size) == {place \in {SearchEnd(size)} : place[2] # heapEnd}

\* Mutant: a rest of 8 bytes is too small to be kept.
AllocAligned_DropsSmallRest(place, size) ==
  LET prv == place[1]
      act == place[2]
      rest == FreeSize(mem, act) - size
  IN IF rest <= 8
     THEN [mem EXCEPT ![prv] = mem[act]]
     ELSE WriteFree([mem EXCEPT ![prv] = act + size], act + size, mem[act], rest)

AllocAligned(place, size) ==
  LET prv == place[1]
      act == place[2]
      rest == FreeSize(mem, act) - size
  IN IF rest = 0
     THEN [mem EXCEPT ![prv] = mem[act]]
     ELSE WriteFree([mem EXCEPT ![prv] = act + size], act + size, mem[act], rest)

Give(b, block) == arr' = [x \in DOMAIN arr \cup {b} |-> IF x = b THEN block ELSE arr[x]]

(* A C client asks for what there is, and fills it, the tag included. *)
AllocElem(bytes) ==
  /\ ~halted /\ client = "C"
  /\ bytes <= HeapAvail
  /\ \E place \in Found(Align8(bytes)) :
       LET b == place[2] IN
       /\ Give(b, [kind |-> "raw", tag |-> 0, bytes |-> bytes, lens |-> <<>>])
       /\ mem' = Fill(AllocAligned(place, Align8(bytes)), b - 4, b - 4 + bytes)
  /\ UNCHANGED <<heapEnd, halted, client>>

(* $staticNEW: a record or an array of fixed length. *)
StaticNEW(t) ==
  /\ ~halted /\ client = "Oberon"
  /\ TDesc[t].size >= 0
  /\ LET size == StaticBlockSize(TDesc[t].size) IN
     \E place \in Found(size) :
       LET b == place[2] IN
       /\ Give(b, [kind |-> "static", tag |-> t, bytes |-> TDesc[t].size, lens |-> <<>>])
       /\ mem' = Fill([AllocAligned(place, size) EXCEPT ![b-4] = t], b, b + TDesc[t].size)
  /\ UNCHANGED <<heapEnd, halted, client>>

(* $openNEW: an open array; in front of the elements stand, with several   *)
(* dimensions, the number of elements and then the lengths.                *)
Product(lens) ==
  LET upTo[i \in 0 .. Len(lens)] == IF i = 0 THEN 1 ELSE upTo[i-1] * lens[i]
  IN  upTo[Len(lens)]

LensAt(lens, b) == IF Len(lens) > 1 THEN b + 4 ELSE b
StoreLens(m, lens, b) ==
  [w \in DOMAIN m |->
     IF \E i \in DOMAIN lens : w = LensAt(lens, b) + 4 * (i-1)
     THEN lens[(w - LensAt(lens, b)) \div 4 + 1]
     ELSE m[w]]

OpenNEW(t, lens) ==
  /\ ~halted /\ client = "Oberon"
  /\ TDesc[t].size = -Len(lens)
  /\ LET bytes == Product(lens) * TDesc[t].elemSize
         size == OpenBlockSize(Len(lens), Product(lens), TDesc[t].elemSize) IN
     \E place \in Found(size) :
       LET b == place[2]
           elems == LensAt(lens, b) + 4 * Len(lens)
           header == [AllocAligned(place, size) EXCEPT ![b-4] = t, ![b] = Product(lens)]
       IN /\ Give(b, [kind |-> "open", tag |-> t, bytes |-> bytes, lens |-> lens])
          /\ mem' = Fill(StoreLens(header, lens, b), elems, elems + bytes)
  /\ UNCHANGED <<heapEnd, halted, client>>

(* SYSTEM$NEW: the tag points to the block's own last word, which holds the *)
(* size and has the skipper's address in front of it.                       *)
SystemNEW(bytes) ==
  /\ ~halted /\ client = "Oberon"
  /\ LET size == SystemBlockSize(bytes) IN
     \E place \in Found(size) :
       LET b == place[2] IN
       /\ Give(b, [kind |-> "system", tag |-> 0, bytes |-> bytes, lens |-> <<>>])
       /\ mem' = Fill([AllocAligned(place, size) EXCEPT ![b+size-8] = size,
                                                        ![b+size-12] = SB_S,
                                                        ![b-4] = b + size - 8],
                      b, b + bytes)
  /\ UNCHANGED <<heapEnd, halted, client>>

-----------------------------------------------------------------------------
\* Mutant: the block is always linked behind the first free block.
Before_First(adr) == mem[Anchor]

(* Free: find the place of the block in the list, merge it with the free   *)
(* block in front of it and with the one behind it.                        *)
Before(adr) ==
  Loop([act \in Words |-> IF mem[act] > adr THEN act ELSE mem[act]], mem[Anchor])

CorruptPointer(adr) == adr < First \/ heapEnd - 16 < adr \/ adr % 8 # 0

Linked(adr, size) ==
  IF adr < mem[Anchor]
  THEN [m |-> [mem EXCEPT ![Anchor] = adr], act |-> adr, size |-> size,
        next |-> mem[Anchor]]
  ELSE LET act == Before(adr) IN
       IF act + FreeSize(mem, act) = adr
       THEN [m |-> mem, act |-> act, size |-> FreeSize(mem, act) + size,
             next |-> mem[act]]
       ELSE [m |-> [mem EXCEPT ![act] = adr], act |-> adr, size |-> size,
             next |-> mem[act]]

\* Mutant: no merging with the next free block.
Merged_Never(l) == l

Merged(l) ==
  IF l.next # heapEnd /\ l.act + l.size = l.next
  THEN [l EXCEPT !.size = l.size + FreeSize(l.m, l.next), !.next = l.m[l.next]]
  ELSE l

FreeElem(adr) ==
  /\ ~halted /\ client = "C"
  /\ adr \in DOMAIN arr
  /\ IF CorruptPointer(adr)
     THEN halted' = TRUE /\ UNCHANGED <<mem, arr>>
     ELSE /\ \E l \in {Linked(adr, Align8(arr[adr].bytes))} : \E r \in {Merged(l)} :
               mem' = WriteFree(r.m, r.act, r.next, r.size)
          /\ arr' = Restrict(arr, DOMAIN arr \ {adr})
          /\ UNCHANGED halted
  /\ UNCHANGED <<heapEnd, client>>

-----------------------------------------------------------------------------
\* Mutant: the sweep leaves the marks set.
Unmark_Never(m, b) == m

(* Sweep: one pass over all blocks by their skippers.  Marks are reset; a  *)
(* run of unmarked blocks that starts at head becomes one free block,      *)
(* linked behind last.  The sentinel carries no mark: it ends the last run *)
(* (or is a run of its own, of size 0) and is rebuilt at the end.          *)
Unmark(m, b) == [m EXCEPT ![b-4] = Tag(m, b)]

WriteRun(m, head, size) ==
  IF size > 8 THEN [m EXCEPT ![head-4] = FB_D, ![head+4] = size]
              ELSE [m EXCEPT ![head-4] = B8_D]

NoHead == 0
Sweeping == [m : [Words -> Int], b : Words, head : Words \cup {NoHead}, last : Words]

SweepBlock(s) ==
  LET next == s.b + BlockSize(s.m, s.b) IN
  IF Tag(s.m, s.b) = ZB_D THEN s
  ELSE IF ~Marked(s.m, s.b)
  THEN [s EXCEPT !.b = next, !.head = IF @ = NoHead THEN s.b ELSE @]
  ELSE IF s.head = NoHead
  THEN [s EXCEPT !.b = next, !.m = Unmark(@, s.b)]
  ELSE [m    |-> [WriteRun(Unmark(s.m, s.b), s.head, s.b - s.head) EXCEPT ![s.last] = s.head],
        b    |-> next,
        head |-> NoHead,
        last |-> s.head]

Sweep(m) ==
  LET s == Loop([s \in Sweeping |-> SweepBlock(s)],
                [m |-> m, b |-> First, head |-> NoHead, last |-> Anchor])
      head == IF s.head = NoHead THEN s.b ELSE s.head
  IN WriteSentinel([WriteRun(s.m, head, s.b - head) EXCEPT ![s.last] = head, ![head] = s.b],
                   heapEnd)

(* GC: Mark sets the mark of the blocks it reaches, Sweep takes the others. *)
GC(marked) ==
  /\ ~halted /\ client = "Oberon"
  /\ mem' = Sweep([w \in DOMAIN mem |->
                     IF w + 4 \in marked THEN mem[w] + 1 ELSE mem[w]])
  /\ arr' = Restrict(arr, marked)
  /\ UNCHANGED <<heapEnd, halted, client>>

-----------------------------------------------------------------------------
(* IncreaseHeap: the old sentinel becomes a free block, a new sentinel is  *)
(* written in front of the new break.                                      *)
IncreaseHeap(change) ==
  LET newEnd == heapEnd + Align8(change)
      asFree == [mem EXCEPT ![heapEnd-4] = FB_D, ![heapEnd] = newEnd,
                            ![heapEnd+4] = newEnd - heapEnd]
  IN /\ ~halted /\ change > 0
     /\ newEnd <= MaxHeapEnd
     /\ heapEnd' = newEnd
     /\ mem' = WriteSentinel(asFree, newEnd)
     /\ UNCHANGED <<arr, halted, client>>

(* DecreaseHeap: nothing happens unless the last block of the list touches *)
(* the sentinel; it gives up at most its own bytes.                        *)
LastFree ==
  Loop([b \in Words |-> IF mem[b] = heapEnd THEN b ELSE mem[b]], mem[Anchor])

DecreaseHeap(change) ==
  LET block  == LastFree
      wanted == heapEnd - Align8(change)
      newEnd == IF wanted < block THEN block ELSE wanted
      cut    == IF newEnd = block THEN mem
                ELSE WriteFree(mem, block, newEnd, newEnd - block)
  IN /\ ~halted /\ change > 0
     /\ mem[Anchor] # heapEnd
     /\ block + FreeSize(mem, block) = heapEnd
     /\ heapEnd' = newEnd
     /\ mem' = WriteSentinel(cut, newEnd)
     /\ UNCHANGED <<arr, halted, client>>

ChangeHeapSize(change) == IncreaseHeap(change) \/ DecreaseHeap(-change)

-----------------------------------------------------------------------------
(* Storage$I *)
Init ==
  /\ heapEnd = HeapStart + InitialHeapSize - 4
  /\ mem = WriteSentinel(
             [w \in Words |->
                CASE w = HeapStart      -> AB_D
                  [] w = HeapStart + 4  -> First
                  [] w = HeapStart + 8  -> FB_D
                  [] w = HeapStart + 12 -> heapEnd
                  [] w = HeapStart + 16 -> heapEnd - HeapStart - 12
                  [] OTHER              -> 0], heapEnd)
  /\ arr = [b \in {} |-> 0]
  /\ halted = FALSE
  /\ client \in Clients

(* Elements are allocated and freed in any order. *)
StressTest ==
  \/ \E bytes \in Requests : AllocElem(bytes)
  \/ \E adr \in DOMAIN arr : FreeElem(adr)

Next ==
  \/ StressTest
  \/ \E t \in DOMAIN TDesc : StaticNEW(t)
  \/ \E t \in DOMAIN TDesc, lens \in Lengths : OpenNEW(t, lens)
  \/ \E bytes \in SystemRequests : SystemNEW(bytes)
  \/ \E marked \in SUBSET DOMAIN arr : GC(marked)
  \/ \E change \in Changes : ChangeHeapSize(change)

Spec == Init /\ [][Next]_vars

-----------------------------------------------------------------------------
(* The abstract heap behind the words. *)
Footprint(b) ==
  CASE arr[b].kind = "raw"    -> Align8(arr[b].bytes)
    [] arr[b].kind = "system" -> SystemBlockSize(arr[b].bytes)
    [] arr[b].kind = "static" -> StaticBlockSize(arr[b].bytes)
    [] arr[b].kind = "open"   -> OpenBlockSize(Len(arr[b].lens), Product(arr[b].lens),
                                               TDesc[arr[b].tag].elemSize)

FreeBlocks == [b \in Range(FreeList) |-> FreeSize(mem, b)]
UsedBlocks == [b \in DOMAIN arr |-> Footprint(b)]
BlockSizes == {8 * k : k \in 1 .. MaxHeapEnd \div 8}

H == INSTANCE Heap WITH Requests <- BlockSizes, free <- FreeBlocks, used <- UsedBlocks

(* What the client stored in its blocks is still there, and so are the tag, *)
(* the lengths and the trailer the run-time system put there: no list       *)
(* pointer, size or sentinel is ever written into a block in use.  This is  *)
(* TestElem of StorageTest.c, for every block after every step.             *)
Intact(b) ==
  LET data(lo) == \A w \in lo .. lo + arr[b].bytes - 1 : w % 4 = 0 => mem[w] = DATA
      kind == arr[b].kind
      lens == arr[b].lens
  IN CASE kind = "raw"    -> data(b - 4)
       [] kind = "system" -> /\ mem[b-4] = b + Footprint(b) - 8
                             /\ mem[b+Footprint(b)-8] = Footprint(b)
                             /\ mem[b+Footprint(b)-12] = SB_S
                             /\ data(b)
       [] OTHER -> /\ mem[b-4] = arr[b].tag
                   /\ kind = "open" => mem[b] = Product(lens)
                   /\ \A i \in DOMAIN lens : mem[LensAt(lens, b) + 4*(i-1)] = lens[i]
                   /\ data(IF lens = <<>> THEN b
                           ELSE LensAt(lens, b) + 4 * Len(lens))

ContentsIntact == \A b \in DOMAIN arr : Intact(b)

(* The free list is in the order of the addresses, the anchor in front and *)
(* the sentinel behind it: what Free and the search rely on.               *)
ListOrdered ==
  /\ mem[HeapStart] = AB_D
  /\ mem[heapEnd - 4] = ZB_D /\ mem[heapEnd] = 0
  /\ \A i \in 1 .. Len(FreeList) - 1 : FreeList[i] < FreeList[i+1]

(* A walk by skippers meets every block of the Oberon program and every    *)
(* block of the free list with its size, no others, and no mark: the next  *)
(* Mark starts clean and the next Sweep sees the whole heap.               *)
WalkComplete ==
  client = "Oberon" =>
    {<<b.adr, b.size, b.free, b.marked>> : b \in Range(Walk)}
      = {<<b, FreeSize(mem, b), TRUE, FALSE>> : b \in Range(FreeList)}
        \cup {<<b, Footprint(b), FALSE, FALSE>> : b \in DOMAIN arr}

(* What GetInfo reports is what lib/Storage.ob2 says it is: all bytes of   *)
(* the heap that no client has are free bytes, counted once.               *)
InfoCorrect ==
  /\ Info.TotalFreeBytes
       = Info.TotalBytes - SumFunction([b \in DOMAIN arr |-> Footprint(b)])
  /\ Info.MaxFreeBytes <= Info.TotalFreeBytes
  /\ 8 * Info.NofFreeBlocks <= Info.TotalFreeBytes

(* The words implement the blocks. *)
ImplementsHeap == H!Spec

=============================================================================

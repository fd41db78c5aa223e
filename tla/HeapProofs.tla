------------------------------ MODULE HeapProofs ------------------------------
(***************************************************************************)
(* The heap stays tiled: for every heap, every set of requests and every   *)
(* sequence of allocations, frees, sweeps and resizings, each byte between *)
(* the anchor and the sentinel belongs to exactly one block.               *)
(*                                                                         *)
(* The inductive invariant is the conjunction of TypeOK, InHeap, NoOverlap *)
(* and NoLeak.  None of the last three is inductive by itself: a sweep     *)
(* joins what lies between two marked blocks, so that it keeps NoOverlap   *)
(* only because NoLeak leaves no gap in between, and the reverse.          *)
(***************************************************************************)
EXTENDS Heap, TLAPS, WellFoundedInduction

HeapInv == TypeOK /\ InHeap /\ NoOverlap /\ NoLeak

-----------------------------------------------------------------------------
(* Rounding up to a multiple of 8. *)
LEMMA Align8Type ==
  ASSUME NEW x \in Nat
  PROVE  /\ Align8(x) \in Nat /\ Aligned(Align8(x)) /\ Align8(x) >= x
         /\ x > 0 => Align8(x) > 0
BY DEF Align8, Aligned

(* Every set of natural numbers that has a member has a least one. *)
LEMMA LeastExists ==
  ASSUME NEW S \in SUBSET Nat, S # {}
  PROVE  \E m \in S : \A x \in S : m <= x
<1> DEFINE R == {ss \in Nat \X Nat : ss[1] < ss[2]}
<1>1. IsWellFoundedOn(R, Nat)
  BY NatLessThanWellFounded DEF OpToRel
<1>2. PICK m \in S : \A x \in S : ~ (<<x, m>> \in R)
  BY <1>1, WFMin
<1>3. \A x \in S : ~ (x < m)
  BY <1>2
<1> QED
  BY <1>3

-----------------------------------------------------------------------------
(* The initial heap is one free block. *)
LEMMA InitInv == ASSUME Init PROVE HeapInv
<1> USE HeapAssumption DEF Init, First
<1>1. /\ heapEnd \in Nat /\ First \in Nat /\ First < heapEnd
      /\ Aligned(heapEnd) /\ Aligned(First) /\ Aligned(heapEnd - First)
  BY DEF Aligned
<1>2. /\ Blocks = {First} /\ Size(First) = heapEnd - First
      /\ DOMAIN free = {First} /\ DOMAIN used = {}
  BY DEF Blocks, Size
<1>3. TypeOK
  BY <1>1, <1>2 DEF TypeOK
<1>4. InHeap
  BY <1>1, <1>2 DEF InHeap
<1>5. NoOverlap
  BY <1>2 DEF NoOverlap
<1>6. NoLeak
  BY <1>1, <1>2 DEF NoLeak
<1> QED
  BY <1>3, <1>4, <1>5, <1>6 DEF HeapInv

-----------------------------------------------------------------------------
(* An allocation only cuts one free block in two. *)
LEMMA AllocInv ==
  ASSUME HeapInv, NEW b, NEW size \in Nat \ {0}, Aligned(size), AllocAt(b, size)
  PROVE  HeapInv'
<1> USE DEF HeapInv
<1>1. /\ b \in DOMAIN free /\ b \notin DOMAIN used /\ free[b] >= size
      /\ b \in Nat /\ Aligned(b) /\ free[b] \in Nat \ {0} /\ Aligned(free[b])
      /\ heapEnd' = heapEnd /\ heapEnd \in Nat /\ First \in Nat
  BY HeapAssumption DEF AllocAt, FirstFit, TypeOK, Blocks, Size, First
<1>2. /\ DOMAIN used' = DOMAIN used \cup {b} /\ used'[b] = size
      /\ used' \in [DOMAIN used' -> Nat \ {0}]
      /\ \A x \in DOMAIN used : used'[x] = used[x]
  BY <1>1 DEF AllocAt, Put, TypeOK
<1>3. CASE free[b] = size
  <2>1. /\ DOMAIN free' = DOMAIN free \ {b}
        /\ free' \in [DOMAIN free' -> Nat \ {0}]
        /\ \A x \in DOMAIN free' : free'[x] = free[x]
    BY <1>1, <1>3 DEF AllocAt, Drop, Restrict, TypeOK
  <2>2. Blocks' = Blocks /\ \A x \in Blocks : Size(x)' = Size(x)
    BY <1>1, <1>2, <1>3, <2>1 DEF Blocks, Size, TypeOK
  <2>3. TypeOK'
    BY <1>1, <1>2, <2>1, <2>2 DEF TypeOK, Aligned, Blocks
  <2> QED
    BY <1>1, <2>2, <2>3 DEF InHeap, NoOverlap, NoLeak, First
<1>4. CASE free[b] # size
  <2> DEFINE r == b + size
  <2>1. /\ r \in Nat /\ Aligned(r) /\ r > b /\ r < b + free[b]
        /\ free[b] - size \in Nat \ {0} /\ Aligned(free[b] - size)
    BY <1>1, <1>4 DEF Aligned
  <2>2. r \notin Blocks
    BY <1>1, <2>1 DEF NoOverlap, Blocks, Size, TypeOK
  <2>3. /\ DOMAIN free' = (DOMAIN free \ {b}) \cup {r}
        /\ free'[r] = free[b] - size
        /\ \A x \in DOMAIN free \ {b} : free'[x] = free[x]
        /\ free' \in [DOMAIN free' -> Nat \ {0}]
    <3>1. free' = Drop(Put(free, r, free[b] - size), {b})
      BY <1>4 DEF AllocAt
    <3>2. DOMAIN Put(free, r, free[b] - size) = DOMAIN free \cup {r}
      BY DEF Put
    <3>3. free' = [x \in (DOMAIN free \cup {r}) \ {b} |->
                     IF x = r THEN free[b] - size ELSE free[x]]
      BY <3>1, <3>2 DEF Drop, Restrict, Put
    <3> QED
      BY <3>3, <2>1, <2>2, <1>1 DEF TypeOK, Blocks
  <2>4. /\ Blocks' = Blocks \cup {r}
        /\ Size(b)' = size /\ Size(r)' = free[b] - size
        /\ \A x \in Blocks \ {b} : Size(x)' = Size(x)
    BY <1>1, <1>2, <2>1, <2>2, <2>3 DEF Blocks, Size, TypeOK
  <2>5. /\ Size(b) = free[b] /\ b \in Blocks
        /\ \A x \in Blocks : x \in Nat /\ Size(x) \in Nat \ {0}
    BY <1>1 DEF Size, Blocks, TypeOK
  <2>6. TypeOK'
    <3>1. DOMAIN free' \cap DOMAIN used' = {}
      BY <1>1, <1>2, <2>2, <2>3, <2>1 DEF TypeOK, Blocks
    <3>2. \A x \in Blocks' : Aligned(x) /\ Aligned(Size(x)')
      BY <1>1, <2>1, <2>4 DEF TypeOK
    <3> QED
      BY <1>1, <1>2, <2>1, <2>3, <3>1, <3>2 DEF TypeOK
  <2>7. InHeap'
    BY <1>1, <2>1, <2>4, <2>5 DEF InHeap, First
  <2>8. NoOverlap'
    <3> SUFFICES ASSUME NEW x \in Blocks', NEW y \in Blocks', x < y
                 PROVE  x + Size(x)' <= y
      BY DEF NoOverlap
    <3>1. CASE x = r
      BY <3>1, <2>1, <2>4, <2>5, <1>1 DEF NoOverlap
    <3>2. CASE x # r /\ y = r
      BY <3>2, <2>1, <2>4, <2>5, <1>1 DEF NoOverlap
    <3>3. CASE x # r /\ y # r
      BY <3>3, <2>1, <2>4, <2>5, <1>1 DEF NoOverlap
    <3> QED
      BY <3>1, <3>2, <3>3
  <2>9. NoLeak'
    <3> SUFFICES ASSUME NEW x \in First .. heapEnd - 1
                 PROVE  \E c \in Blocks' : c <= x /\ x < c + Size(c)'
      BY <1>1 DEF NoLeak, First
    <3>1. PICK c \in Blocks : c <= x /\ x < c + Size(c)
      BY DEF NoLeak
    <3>2. CASE c = b /\ x >= r
      BY <3>1, <3>2, <2>1, <2>4, <2>5, <1>1
    <3>3. CASE ~ (c = b /\ x >= r)
      BY <3>1, <3>3, <2>1, <2>4, <2>5, <1>1
    <3> QED
      BY <3>2, <3>3
  <2> QED
    BY <2>6, <2>7, <2>8, <2>9
<1> QED
  BY <1>3, <1>4

-----------------------------------------------------------------------------
(* What TypeOK says of the blocks as a whole. *)
LEMMA BlockTypes ==
  ASSUME TypeOK
  PROVE  /\ heapEnd \in Nat /\ First \in Nat
         /\ \A x \in Blocks : /\ x \in Nat /\ Size(x) \in Nat \ {0}
                              /\ Aligned(x) /\ Aligned(Size(x))
         /\ \A x \in DOMAIN free : x \notin DOMAIN used /\ Size(x) = free[x]
         /\ \A x \in DOMAIN used : x \notin DOMAIN free /\ Size(x) = used[x]
BY HeapAssumption DEF TypeOK, Blocks, Size, First

(* Joining the blocks from s up to the boundary e into one block keeps the *)
(* heap tiled.                                                             *)
LEMMA JoinInv ==
  ASSUME HeapInv, NEW s \in Blocks, NEW e \in Nat, s < e, e <= heapEnd,
         \A x \in Blocks : x < e => x + Size(x) <= e,
         heapEnd' = heapEnd,
         Blocks' = {x \in Blocks : x <= s \/ x >= e},
         Size(s)' = e - s,
         \A x \in Blocks' \ {s} : Size(x)' = Size(x)
  PROVE  InHeap' /\ NoOverlap' /\ NoLeak'
<1>1. /\ heapEnd \in Nat /\ First \in Nat
      /\ \A x \in Blocks : x \in Nat /\ Size(x) \in Nat \ {0}
  BY BlockTypes DEF HeapInv
<1>2. InHeap'
  BY <1>1 DEF HeapInv, InHeap, First
<1>3. NoOverlap'
  <2> SUFFICES ASSUME NEW x \in Blocks', NEW y \in Blocks', x < y
               PROVE  x + Size(x)' <= y
    BY DEF NoOverlap
  <2>1. CASE x = s
    BY <2>1, <1>1
  <2>2. CASE x # s
    BY <2>2, <1>1 DEF HeapInv, NoOverlap
  <2> QED
    BY <2>1, <2>2
<1>4. NoLeak'
  <2> SUFFICES ASSUME NEW x \in First .. heapEnd - 1
               PROVE  \E c \in Blocks' : c <= x /\ x < c + Size(c)'
    BY <1>1 DEF NoLeak, First
  <2>1. PICK c \in Blocks : c <= x /\ x < c + Size(c)
    BY DEF HeapInv, NoLeak
  <2>2. CASE c < s \/ c >= e
    BY <2>1, <2>2, <1>1
  <2>3. CASE s <= c /\ c < e
    <3>1. s <= x /\ x < e
      BY <2>1, <2>3, <1>1
    <3> QED
      BY <3>1, <1>1
  <2> QED
    BY <2>2, <2>3, <1>1
<1> QED
  BY <1>2, <1>3, <1>4

(* Free joins the block with the free blocks on either side. *)
LEMMA FreeInv == ASSUME HeapInv, NEW b, FreeBlock(b) PROVE HeapInv'
<1> DEFINE next == b + used[b]
           grown == IF next \in DOMAIN free THEN used[b] + free[next] ELSE used[b]
           before == {p \in DOMAIN free : p + free[p] = b}
           others == Drop(free, {next})
           e == b + grown
<1>1. /\ b \in DOMAIN used /\ b \in Blocks /\ heapEnd' = heapEnd
      /\ used' = Restrict(used, DOMAIN used \ {b})
      /\ free' = IF before = {} THEN Put(others, b, grown)
                 ELSE LET p == CHOOSE p \in before : TRUE
                      IN  Put(others, p, free[p] + grown)
  BY DEF FreeBlock, Blocks, Drop
<1>2. /\ heapEnd \in Nat /\ First \in Nat
      /\ \A x \in Blocks : /\ x \in Nat /\ Size(x) \in Nat \ {0}
                           /\ Aligned(x) /\ Aligned(Size(x))
      /\ \A x \in DOMAIN free : x \notin DOMAIN used /\ Size(x) = free[x]
      /\ \A x \in DOMAIN used : x \notin DOMAIN free /\ Size(x) = used[x]
      /\ DOMAIN free \subseteq Blocks /\ DOMAIN used \subseteq Blocks
  BY BlockTypes DEF HeapInv, Blocks
<1>3. /\ DOMAIN used' = DOMAIN used \ {b}
      /\ \A x \in DOMAIN used' : used'[x] = used[x]
      /\ used' \in [DOMAIN used' -> Nat \ {0}]
  BY <1>1, <1>2 DEF Restrict, HeapInv, TypeOK
<1>4. /\ DOMAIN others = DOMAIN free \ {next}
      /\ \A x \in DOMAIN others : others[x] = free[x]
  BY DEF Drop, Restrict
<1>5. /\ next \in Nat /\ Aligned(next) /\ next > b /\ next <= heapEnd
      /\ grown \in Nat \ {0} /\ Aligned(grown)
      /\ e \in Nat /\ e > b /\ e <= heapEnd /\ e = b + grown
      /\ next \in DOMAIN free => e = next + free[next]
      /\ next \notin DOMAIN free => e = next
  <2>1. /\ next \in Nat /\ Aligned(next) /\ next > b /\ next <= heapEnd
        /\ used[b] \in Nat \ {0} /\ Aligned(used[b]) /\ b \in Nat
    BY <1>1, <1>2 DEF HeapInv, InHeap, Aligned
  <2>2. CASE next \in DOMAIN free
    <3>1. free[next] \in Nat \ {0} /\ Aligned(free[next]) /\ next + free[next] <= heapEnd
      BY <1>2, <2>2 DEF HeapInv, InHeap
    <3> QED
      BY <2>1, <2>2, <3>1 DEF Aligned
  <2>3. CASE next \notin DOMAIN free
    BY <2>1, <2>3
  <2> QED
    BY <2>2, <2>3
<1>6. \A x \in Blocks : x < e => x + Size(x) <= e
  <2> SUFFICES ASSUME NEW x \in Blocks, x < e PROVE x + Size(x) <= e
    OBVIOUS
  <2>1. CASE next \in DOMAIN free
    BY <2>1, <1>1, <1>2, <1>5 DEF HeapInv, NoOverlap
  <2>2. CASE next \notin DOMAIN free
    BY <2>2, <1>1, <1>2, <1>5 DEF HeapInv, NoOverlap
  <2> QED
    BY <2>1, <2>2
<1>7. \A x \in Blocks : b < x /\ x < e <=> x = next /\ next \in DOMAIN free
  <2> SUFFICES ASSUME NEW x \in Blocks
               PROVE  b < x /\ x < e <=> x = next /\ next \in DOMAIN free
    OBVIOUS
  <2>1. b < x => next <= x
    BY <1>1, <1>2 DEF HeapInv, NoOverlap
  <2>2. CASE next \in DOMAIN free
    <3>1. next < x => e <= x
      BY <2>2, <1>2, <1>5 DEF HeapInv, NoOverlap
    <3> QED
      BY <2>1, <2>2, <3>1, <1>2, <1>5
  <2>3. CASE next \notin DOMAIN free
    BY <2>1, <2>3, <1>2, <1>5
  <2> QED
    BY <2>2, <2>3
<1> HIDE DEF next, grown, others, e
<1>8. CASE before = {}
  <2>1. /\ DOMAIN free' = (DOMAIN free \ {next}) \cup {b}
        /\ free'[b] = grown
        /\ \A x \in DOMAIN free \ {next} : free'[x] = free[x]
        /\ free' \in [DOMAIN free' -> Nat \ {0}]
    BY <1>1, <1>2, <1>4, <1>5, <1>8 DEF Put
  <2>2. /\ Size(b)' = e - b
        /\ Blocks' = {x \in Blocks : x <= b \/ x >= e}
        /\ \A x \in Blocks' \ {b} : Size(x)' = Size(x)
    <3>1. Blocks' = IF next \in DOMAIN free THEN Blocks \ {next} ELSE Blocks
      <4>1. next # b
        BY <1>1, <1>2, <1>5
      <4>2. Blocks' = DOMAIN free' \cup DOMAIN used' /\ Blocks = DOMAIN free \cup DOMAIN used
        BY DEF Blocks
      <4> QED
        BY <4>1, <4>2, <1>1, <1>2, <1>3, <2>1
    <3>2. Blocks' = {x \in Blocks : x <= b \/ x >= e}
      BY <3>1, <1>1, <1>2, <1>5, <1>7
    <3>3. Size(b)' = e - b
      BY <2>1, <1>1, <1>2, <1>5 DEF Size
    <3>4. \A x \in Blocks' \ {b} : Size(x)' = Size(x)
      BY <2>1, <1>2, <1>3 DEF Size, Blocks
    <3> QED
      BY <3>2, <3>3, <3>4
  <2>3. InHeap' /\ NoOverlap' /\ NoLeak'
    BY <1>1, <1>5, <1>6, <2>2, JoinInv
  <2>4. \A x \in Blocks' : Aligned(x) /\ Aligned(Size(x)')
    BY <2>2, <1>2, <1>5
  <2>5. TypeOK'
    <3>1. DOMAIN free' \subseteq Nat /\ DOMAIN free' \cap DOMAIN used' = {}
      BY <1>1, <1>2, <1>3, <2>1 DEF TypeOK, HeapInv
    <3>2. heapEnd' \in Nat /\ Aligned(heapEnd') /\ DOMAIN used' \subseteq Nat
          /\ used' \in [DOMAIN used' -> Nat \ {0}]
      BY <1>1, <1>2, <1>3 DEF TypeOK, HeapInv
    <3> QED
      BY <2>1, <2>4, <3>1, <3>2 DEF TypeOK
  <2> QED
    BY <2>3, <2>5 DEF HeapInv
<1>9. CASE before # {}
  <2>1. PICK p \in DOMAIN free : /\ p + free[p] = b
                                 /\ free' = Put(others, p, free[p] + grown)
    BY <1>1, <1>9
  <2>2. /\ p \in Blocks /\ p \in Nat /\ free[p] \in Nat \ {0} /\ p < b
        /\ Aligned(p) /\ Aligned(free[p]) /\ p # next /\ Size(p) = free[p]
    BY <2>1, <1>1, <1>2, <1>5
  <2>3. /\ DOMAIN free' = DOMAIN free \ {next}
        /\ free'[p] = e - p
        /\ \A x \in DOMAIN free' \ {p} : free'[x] = free[x]
        /\ e - p \in Nat \ {0} /\ Aligned(e - p)
    <3>2. free[p] + grown = e - p
      BY <2>1, <2>2, <1>1, <1>2, <1>5
    <3>3. e - p \in Nat \ {0} /\ Aligned(e - p)
      BY <3>2, <2>2, <1>5 DEF Aligned
    <3> QED
      BY <3>2, <3>3, <1>4, <2>1, <2>2 DEF Put
  <2>4. \A x \in Blocks : p < x /\ x < b => FALSE
    BY <2>1, <2>2, <1>2 DEF HeapInv, NoOverlap
  <2>5. /\ Size(p)' = e - p
        /\ Blocks' = {x \in Blocks : x <= p \/ x >= e}
        /\ \A x \in Blocks' \ {p} : Size(x)' = Size(x)
    <3>1. Blocks' = IF next \in DOMAIN free THEN Blocks \ {b, next} ELSE Blocks \ {b}
      BY <1>1, <1>2, <1>3, <1>5, <2>3 DEF Blocks
    <3>2. \A x \in Blocks : x <= p \/ x >= e <=> x # b /\ ~ (x = next /\ next \in DOMAIN free)
      BY <1>1, <1>2, <1>5, <1>7, <2>2, <2>4
    <3>3. Size(p)' = e - p
      BY <2>1, <2>2, <2>3 DEF Size
    <3>4. \A x \in Blocks' \ {p} : Size(x)' = Size(x)
      BY <2>3, <1>2, <1>3 DEF Size, Blocks
    <3> QED
      BY <3>1, <3>2, <3>3, <3>4
  <2>6. InHeap' /\ NoOverlap' /\ NoLeak'
    BY <1>1, <1>2, <1>5, <1>6, <2>2, <2>5, JoinInv
  <2>7. free' \in [DOMAIN free' -> Nat \ {0}]
    <3>1. free[p] + grown \in Nat \ {0}
      BY <2>2, <1>5
    <3> QED
      BY <3>1, <2>1, <2>2, <1>2, <1>4, <1>5 DEF Put
  <2>8. \A x \in Blocks' : Aligned(x) /\ Aligned(Size(x)')
    BY <2>5, <2>3, <1>2
  <2>9. TypeOK'
    BY <1>1, <1>2, <1>3, <2>3, <2>7, <2>8 DEF TypeOK, HeapInv
  <2> QED
    BY <2>6, <2>9 DEF HeapInv
<1> QED
  BY <1>8, <1>9

-----------------------------------------------------------------------------
(* The end of a run of unmarked blocks: the first marked block behind it,  *)
(* or the sentinel.                                                        *)
LEMMA RunEndLeast ==
  ASSUME HeapInv, NEW marked, marked \subseteq DOMAIN used, NEW h \in Blocks
  PROVE  /\ RunEnd(h, marked) \in marked \cup {heapEnd}
         /\ RunEnd(h, marked) \in Nat /\ RunEnd(h, marked) > h
         /\ \A x \in marked \cup {heapEnd} : x > h => RunEnd(h, marked) <= x
<1>1. /\ RunEnds(h, marked) \subseteq Nat /\ heapEnd \in RunEnds(h, marked)
  <2>1. /\ heapEnd \in Nat /\ h \in Nat /\ Size(h) \in Nat \ {0}
        /\ h + Size(h) <= heapEnd /\ DOMAIN used \subseteq Nat
    BY BlockTypes DEF HeapInv, InHeap, TypeOK
  <2> QED
    BY <2>1 DEF RunEnds
<1>2. \E e \in RunEnds(h, marked) : \A x \in RunEnds(h, marked) : e <= x
  BY <1>1, LeastExists
<1>3. /\ RunEnd(h, marked) \in RunEnds(h, marked)
      /\ \A x \in RunEnds(h, marked) : RunEnd(h, marked) <= x
  BY <1>2 DEF RunEnd
<1> QED
  BY <1>1, <1>3 DEF RunEnds

(* The sweep joins what lies between two marked blocks, and only that. *)
LEMMA SweepInv == ASSUME HeapInv, NEW marked, Sweep(marked) PROVE HeapInv'
<1> DEFINE U == Unmarked(marked)
           End(h) == RunEnd(h, marked)
<1>1. /\ marked \subseteq DOMAIN used /\ heapEnd' = heapEnd
      /\ DOMAIN used' = marked /\ \A x \in marked : used'[x] = used[x]
      /\ used' = Restrict(used, marked)
      /\ DOMAIN free' = Heads(marked)
      /\ \A h \in Heads(marked) : free'[h] = End(h) - h
  BY DEF Sweep, Restrict
<1>2. /\ heapEnd \in Nat /\ First \in Nat /\ Aligned(heapEnd)
      /\ \A x \in Blocks : /\ x \in Nat /\ Size(x) \in Nat \ {0}
                           /\ Aligned(x) /\ Aligned(Size(x))
      /\ \A x \in DOMAIN used : x \notin DOMAIN free /\ Size(x) = used[x]
      /\ DOMAIN used \subseteq Blocks
  BY BlockTypes DEF HeapInv, TypeOK, Blocks
<1>3. /\ Heads(marked) \subseteq U /\ U \subseteq Blocks
      /\ marked \cap U = {} /\ Blocks = U \cup marked
  BY <1>1, <1>2 DEF Heads, Unmarked
<1>4. \A h \in Blocks : /\ End(h) \in marked \cup {heapEnd}
                        /\ End(h) \in Nat /\ End(h) > h
                        /\ \A x \in marked \cup {heapEnd} : x > h => End(h) <= x
  BY <1>1, RunEndLeast
<1> HIDE DEF U, End
<1>5. /\ Blocks' = Heads(marked) \cup marked
      /\ \A h \in Heads(marked) : Size(h)' = End(h) - h
      /\ \A m \in marked : Size(m)' = Size(m)
  <2>1. Blocks' = Heads(marked) \cup marked
    BY <1>1 DEF Blocks
  <2>2. \A h \in Heads(marked) : Size(h)' = End(h) - h
    BY <1>1 DEF Size
  <2>3. \A m \in marked : Size(m)' = Size(m)
    BY <1>1, <1>2, <1>3 DEF Size
  <2> QED
    BY <2>1, <2>2, <2>3
<1>6. \A h \in Heads(marked) : End(h) - h \in Nat \ {0} /\ Aligned(End(h) - h)
  <2> SUFFICES ASSUME NEW h \in Heads(marked)
               PROVE  End(h) - h \in Nat \ {0} /\ Aligned(End(h) - h)
    OBVIOUS
  <2>1. /\ h \in Nat /\ Aligned(h)
        /\ End(h) \in Nat /\ End(h) > h /\ Aligned(End(h))
    BY <1>1, <1>2, <1>3, <1>4
  <2> QED
    BY <2>1 DEF Aligned
<1>7. TypeOK'
  <2>1. used' \in [DOMAIN used' -> Nat \ {0}]
    BY <1>1, <1>2 DEF Restrict, HeapInv, TypeOK
  <2>2. free' \in [DOMAIN free' -> Nat \ {0}]
    BY <1>1, <1>6 DEF Sweep
  <2>3. \A x \in Blocks' : x \in Nat /\ Aligned(x) /\ Aligned(Size(x)')
    BY <1>1, <1>2, <1>3, <1>5, <1>6
  <2>4. DOMAIN free' \cap DOMAIN used' = {}
    BY <1>1, <1>3
  <2> QED
    BY <1>1, <1>2, <1>5, <2>1, <2>2, <2>3, <2>4 DEF TypeOK, Blocks
<1>8. InHeap'
  <2>1. First <= heapEnd /\ \A x \in Blocks : First <= x /\ x + Size(x) <= heapEnd
    BY DEF HeapInv, InHeap
  <2>2. \A h \in Heads(marked) : First <= h /\ h + (End(h) - h) <= heapEnd
    BY <1>1, <1>2, <1>3, <1>4, <2>1
  <2> QED
    BY <1>1, <1>2, <1>3, <1>5, <2>1, <2>2 DEF InHeap, First
<1>9. NoOverlap'
  <2> SUFFICES ASSUME NEW x \in Blocks', NEW y \in Blocks', x < y
               PROVE  x + Size(x)' <= y
    BY DEF NoOverlap
  <2>0. x \in Blocks /\ y \in Blocks
    BY <1>1, <1>2, <1>3, <1>5
  <2>1. CASE x \in marked
    BY <2>0, <2>1, <1>2, <1>5 DEF HeapInv, NoOverlap
  <2>2. CASE x \in Heads(marked) /\ y \in marked
    BY <2>0, <2>2, <1>2, <1>4, <1>5
  <2>3. CASE x \in Heads(marked) /\ y \in Heads(marked)
    <3>1. y - 1 \in First .. heapEnd - 1
      BY <2>0, <1>2 DEF HeapInv, InHeap
    <3>2. PICK c \in Blocks : c <= y - 1 /\ y - 1 < c + Size(c)
      BY <3>1 DEF HeapInv, NoLeak
    <3>3. c + Size(c) = y
      BY <3>2, <2>0, <1>2 DEF HeapInv, NoOverlap
    <3>4. c \in marked
      BY <3>3, <2>3, <1>3 DEF Heads, U
    <3>5. c > x
      BY <3>3, <3>4, <2>0, <2>3, <1>2, <1>3 DEF HeapInv, NoOverlap
    <3> QED
      BY <3>2, <3>4, <3>5, <2>0, <2>3, <1>2, <1>4, <1>5
  <2> QED
    BY <2>1, <2>2, <2>3, <1>5
<1>10. NoLeak'
  <2> SUFFICES ASSUME NEW x \in First .. heapEnd - 1
               PROVE  \E c \in Blocks' : c <= x /\ x < c + Size(c)'
    BY <1>1 DEF NoLeak, First
  <2>1. PICK a \in Blocks : a <= x /\ x < a + Size(a)
    BY DEF HeapInv, NoLeak
  <2>2. CASE a \in marked
    BY <2>1, <2>2, <1>5
  <2>3. CASE a \in U
    <3> DEFINE T == {b \in U : b <= a /\ \A m \in marked : ~ (b < m /\ m < a)}
    <3>1. T \subseteq Nat /\ a \in T
      BY <2>3, <1>2, <1>3
    <3>2. PICK h \in T : \A b \in T : h <= b
      BY <3>1, LeastExists
    <3>3. h \in Heads(marked)
      <4> SUFFICES ASSUME NEW c \in U, c + Size(c) = h PROVE FALSE
        BY <3>2 DEF Heads, U
      <4>1. c \in Nat /\ h \in Nat /\ a \in Nat /\ c < h
        BY <3>1, <1>2, <1>3
      <4>2. \A m \in marked : c < m => h <= m
        BY <4>1, <1>2, <1>3 DEF HeapInv, NoOverlap
      <4>3. \A m \in marked : m # h /\ m \in Nat
        BY <1>2, <1>3
      <4>4. c \in T
        BY <3>2, <4>1, <4>2, <4>3
      <4> QED
        BY <4>1, <4>4, <3>2
    <3>4. End(h) > x
      <4>1. h \in Blocks /\ a \in U /\ h <= a
        BY <3>2, <2>3, <1>3
      <4>2. CASE End(h) = heapEnd
        BY <4>2, <1>2
      <4>3. CASE End(h) \in marked
        <5>1. End(h) > a
          BY <4>1, <4>3, <3>2, <1>2, <1>3, <1>4
        <5>2. a + Size(a) <= End(h)
          BY <5>1, <4>3, <1>2, <1>3 DEF HeapInv, NoOverlap
        <5> QED
          BY <5>2, <2>1, <4>1, <1>2, <1>3, <1>4
      <4> QED
        BY <4>1, <4>2, <4>3, <1>4
    <3>5. h <= x /\ x < h + (End(h) - h)
      BY <3>1, <3>2, <3>3, <3>4, <2>1, <1>2, <1>3, <1>4
    <3> QED
      BY <3>3, <3>5, <1>5
  <2> QED
    BY <2>2, <2>3, <1>3
<1> QED
  BY <1>7, <1>8, <1>9, <1>10 DEF HeapInv

-----------------------------------------------------------------------------
(* Growing the heap adds a block behind all others. *)
LEMMA IncreaseInv ==
  ASSUME HeapInv, NEW change \in Int, IncreaseHeap(change)
  PROVE  HeapInv'
<1> DEFINE n == Align8(change)
<1>1. /\ n \in Nat \ {0} /\ Aligned(n)
      /\ heapEnd' = heapEnd + n /\ used' = used /\ free' = Put(free, heapEnd, n)
  BY Align8Type DEF IncreaseHeap
<1>2. /\ heapEnd \in Nat /\ First \in Nat /\ Aligned(heapEnd) /\ First <= heapEnd
      /\ \A x \in Blocks : /\ x \in Nat /\ Size(x) \in Nat \ {0}
                           /\ Aligned(x) /\ Aligned(Size(x))
                           /\ First <= x /\ x + Size(x) <= heapEnd
  BY BlockTypes DEF HeapInv, InHeap, TypeOK
<1> HIDE DEF n
<1>3. heapEnd \notin Blocks
  BY <1>2
<1>4. /\ DOMAIN free' = DOMAIN free \cup {heapEnd}
      /\ free'[heapEnd] = n
      /\ \A x \in DOMAIN free : free'[x] = free[x]
      /\ free' \in [DOMAIN free' -> Nat \ {0}]
  BY <1>1, <1>2, <1>3 DEF Put, Blocks, HeapInv, TypeOK
<1>5. \E e \in Nat : /\ e = heapEnd /\ Blocks' = Blocks \cup {e}
                     /\ Size(e)' = n
                     /\ \A x \in Blocks : Size(x)' = Size(x)
  <2>1. PICK e \in Nat : e = heapEnd
    BY <1>2
  <2>2. Blocks' = Blocks \cup {e}
    BY <2>1, <1>1, <1>4 DEF Blocks
  <2>3. Size(e)' = n /\ \A x \in Blocks : Size(x)' = Size(x)
    BY <2>1, <1>1, <1>3, <1>4 DEF Blocks, Size
  <2> QED
    BY <2>1, <2>2, <2>3
<1>6. PICK e \in Nat : /\ e = heapEnd /\ Blocks' = Blocks \cup {e}
                       /\ Size(e)' = n
                       /\ \A x \in Blocks : Size(x)' = Size(x)
  BY <1>5
<1>7. TypeOK'
  <2>1. heapEnd' \in Nat /\ Aligned(heapEnd')
    BY <1>1, <1>2 DEF Aligned
  <2>2. \A x \in Blocks' : x \in Nat /\ Aligned(x) /\ Aligned(Size(x)')
    BY <1>1, <1>2, <1>6
  <2>3. DOMAIN free' \cap DOMAIN used' = {}
    BY <1>1, <1>3, <1>4 DEF Blocks, HeapInv, TypeOK
  <2> QED
    BY <1>1, <1>4, <2>1, <2>2, <2>3 DEF TypeOK, HeapInv, Blocks
<1>8. InHeap'
  BY <1>1, <1>2, <1>6 DEF InHeap, First
<1>9. NoOverlap'
  BY <1>1, <1>2, <1>6 DEF NoOverlap, HeapInv
<1>10. NoLeak'
  <2> SUFFICES ASSUME NEW x \in First .. heapEnd' - 1
               PROVE  \E c \in Blocks' : c <= x /\ x < c + Size(c)'
    BY DEF NoLeak, First
  <2>1. CASE x < heapEnd
    <3>1. PICK c \in Blocks : c <= x /\ x < c + Size(c)
      BY <2>1, <1>2 DEF HeapInv, NoLeak
    <3> QED
      BY <3>1, <1>6
  <2>2. CASE x >= heapEnd
    BY <2>2, <1>1, <1>2, <1>6
  <2> QED
    BY <2>1, <2>2, <1>1, <1>2
<1> QED
  BY <1>7, <1>8, <1>9, <1>10 DEF HeapInv

(* Shrinking it cuts or removes the last block. *)
LEMMA DecreaseInv ==
  ASSUME HeapInv, NEW change \in Int, DecreaseHeap(change)
  PROVE  HeapInv'
<1>1. PICK b \in DOMAIN free :
        /\ b + free[b] = heapEnd
        /\ heapEnd' = IF heapEnd - Align8(change) < b
                      THEN b ELSE heapEnd - Align8(change)
        /\ free' = IF heapEnd' = b THEN Drop(free, {b})
                                   ELSE Put(free, b, heapEnd' - b)
  BY DEF DecreaseHeap
<1>2. /\ heapEnd \in Nat /\ First \in Nat /\ Aligned(heapEnd) /\ First <= heapEnd
      /\ \A x \in Blocks : /\ x \in Nat /\ Size(x) \in Nat \ {0}
                           /\ Aligned(x) /\ Aligned(Size(x))
                           /\ First <= x /\ x + Size(x) <= heapEnd
      /\ b \in Blocks /\ Size(b) = free[b] /\ b \notin DOMAIN used /\ used' = used
  BY BlockTypes DEF HeapInv, InHeap, TypeOK, Blocks, DecreaseHeap
<1>3. /\ heapEnd' \in Nat /\ Aligned(heapEnd') /\ b <= heapEnd' /\ heapEnd' < heapEnd
      /\ Aligned(heapEnd' - b)
  <2>1. Align8(change) \in Nat \ {0} /\ Aligned(Align8(change))
    BY Align8Type DEF DecreaseHeap
  <2> QED
    BY <2>1, <1>1, <1>2 DEF Aligned
<1>4. \A x \in Blocks \ {b} : x + Size(x) <= b
  BY <1>1, <1>2 DEF HeapInv, NoOverlap
<1>5. CASE heapEnd' = b
  <2>1. /\ DOMAIN free' = DOMAIN free \ {b}
        /\ \A x \in DOMAIN free' : free'[x] = free[x]
        /\ free' \in [DOMAIN free' -> Nat \ {0}]
    BY <1>1, <1>5 DEF Drop, Restrict, HeapInv, TypeOK
  <2>2. Blocks' = Blocks \ {b} /\ \A x \in Blocks' : Size(x)' = Size(x)
    BY <2>1, <1>2 DEF Blocks, Size, HeapInv, TypeOK
  <2>3. TypeOK'
    BY <2>1, <2>2, <1>2, <1>3 DEF HeapInv, TypeOK
  <2>4. InHeap' /\ NoOverlap'
    BY <2>2, <1>2, <1>4, <1>5 DEF HeapInv, InHeap, NoOverlap, First
  <2>5. NoLeak'
    BY <2>2, <1>2, <1>4, <1>5 DEF HeapInv, NoLeak, First
  <2> QED
    BY <2>3, <2>4, <2>5 DEF HeapInv
<1>6. CASE heapEnd' # b
  <2>1. /\ DOMAIN free' = DOMAIN free
        /\ free'[b] = heapEnd' - b /\ heapEnd' - b \in Nat \ {0}
        /\ \A x \in DOMAIN free \ {b} : free'[x] = free[x]
        /\ free' \in [DOMAIN free' -> Nat \ {0}]
    BY <1>1, <1>2, <1>3, <1>6 DEF Put, HeapInv, TypeOK
  <2>2. /\ Blocks' = Blocks /\ Size(b)' = heapEnd' - b
        /\ \A x \in Blocks \ {b} : Size(x)' = Size(x)
    BY <2>1, <1>2 DEF Blocks, Size
  <2>3. TypeOK'
    BY <2>1, <2>2, <1>2, <1>3 DEF HeapInv, TypeOK
  <2>4. InHeap' /\ NoOverlap'
    BY <2>1, <2>2, <1>2, <1>3, <1>4, <1>6 DEF HeapInv, InHeap, NoOverlap, First
  <2>5. NoLeak'
    <3>1. PICK e \in Nat : e = heapEnd'
      BY <1>3
    <3>2. ASSUME NEW x \in First .. e - 1
          PROVE  \E c \in Blocks' : c <= x /\ x < c + Size(c)'
      <4>0. First \in Int /\ heapEnd \in Int /\ e < heapEnd
        BY <3>1, <1>2, <1>3
      <4>1. x \in Int /\ First <= x /\ x < e
        BY <3>2, <4>0
      <4>5. x \in First .. heapEnd - 1
        BY <4>0, <4>1
      <4>2. PICK c \in Blocks : c <= x /\ x < c + Size(c)
        BY <4>5 DEF HeapInv, NoLeak
      <4>3. CASE c = b
        BY <4>1, <4>2, <4>3, <3>1, <2>1, <2>2, <1>2, <1>3
      <4>4. CASE c # b
        BY <4>2, <4>4, <2>2
      <4> QED
        BY <4>3, <4>4
    <3> QED
      BY <3>1, <3>2 DEF NoLeak, First
  <2> QED
    BY <2>3, <2>4, <2>5 DEF HeapInv
<1> QED
  BY <1>5, <1>6

-----------------------------------------------------------------------------
(* The invariant is inductive, and no step resizes a block in use. *)
LEMMA StepInv == ASSUME HeapInv, [Next]_vars PROVE HeapInv'
<1>1. CASE \E size \in Requests : Alloc(size)
  <2>1. PICK size \in Requests, b \in DOMAIN free : AllocAt(b, Align8(size))
    BY <1>1 DEF Alloc
  <2>2. Align8(size) \in Nat \ {0} /\ Aligned(Align8(size))
    BY HeapAssumption, Align8Type
  <2> QED
    BY <2>1, <2>2, AllocInv
<1>2. CASE \E b \in DOMAIN used : FreeBlock(b)
  BY <1>2, FreeInv
<1>3. CASE \E marked \in SUBSET DOMAIN used : Sweep(marked)
  BY <1>3, SweepInv
<1>4. CASE \E change \in Changes : ChangeHeapSize(change)
  <2>1. PICK change \in Int : IncreaseHeap(change) \/ DecreaseHeap(-change)
    BY <1>4, HeapAssumption DEF ChangeHeapSize
  <2> QED
    BY <2>1, IncreaseInv, DecreaseInv
<1>5. CASE UNCHANGED vars
  BY <1>5 DEF HeapInv, vars, TypeOK, InHeap, NoOverlap, NoLeak, Blocks, Size, First
<1> QED
  BY <1>1, <1>2, <1>3, <1>4, <1>5 DEF Next

(* For every heap and every sequence of calls: the state is well typed,    *)
(* every block lies in the heap, no two blocks overlap and no byte is lost *)
(* (Storage.c: AllocAligned, Free, Sweep, IncreaseHeap, DecreaseHeap).     *)
THEOREM Tiling == Spec => [](TypeOK /\ InHeap /\ NoOverlap /\ NoLeak)
<1>1. Init => HeapInv
  BY InitInv
<1>2. HeapInv /\ [Next]_vars => HeapInv'
  BY StepInv
<1>3. HeapInv => TypeOK /\ InHeap /\ NoOverlap /\ NoLeak
  BY DEF HeapInv
<1> QED
  BY <1>1, <1>2, <1>3, PTL DEF Spec

(* What the client holds is never taken away or resized under it: a block  *)
(* in use stays in use with its size through every allocation, through a   *)
(* Free of any other block, through a sweep that finds it marked and       *)
(* through every change of the heap's size (Storage.c: the same calls).    *)
THEOREM SteadyBlocks == Spec => Steady
<1> DEFINE Kept(x) == x \in DOMAIN used' /\ used'[x] = used[x]
<1>1. ASSUME HeapInv, Next, NEW x \in DOMAIN used
      PROVE  GivenBack(x) \/ Kept(x)
  <2>1. ASSUME NEW size \in Requests, Alloc(size)
        PROVE  Kept(x)
    BY <1>1, <2>1 DEF Alloc, AllocAt, FirstFit, Put, HeapInv, TypeOK
  <2>2. ASSUME NEW b \in DOMAIN used, FreeBlock(b)
        PROVE  GivenBack(x) \/ Kept(x)
    <3>1. CASE b = x
      BY <2>2, <3>1 DEF GivenBack
    <3>2. CASE b # x
      BY <1>1, <2>2, <3>2 DEF FreeBlock, Drop, Restrict
    <3> QED
      BY <3>1, <3>2
  <2>3. ASSUME NEW marked \in SUBSET DOMAIN used, Sweep(marked)
        PROVE  GivenBack(x) \/ Kept(x)
    <3>1. CASE x \in marked
      <4>1. used' = Restrict(used, marked)
        BY <2>3 DEF Sweep
      <4> QED
        BY <1>1, <2>3, <3>1, <4>1 DEF Restrict
    <3>2. CASE x \notin marked
      <4>1. marked \in SUBSET (DOMAIN used \ {x})
        BY <2>3, <3>2
      <4> QED
        BY <2>3, <4>1 DEF GivenBack
    <3> QED
      BY <3>1, <3>2
  <2>4. ASSUME NEW change, ChangeHeapSize(change)
        PROVE  Kept(x)
    BY <1>1, <2>4 DEF ChangeHeapSize, IncreaseHeap, DecreaseHeap
  <2> QED
    BY <1>1, <2>1, <2>2, <2>3, <2>4 DEF Next
<1>2. ASSUME UNCHANGED vars, NEW x \in DOMAIN used
      PROVE  GivenBack(x) \/ Kept(x)
  BY <1>2 DEF vars
<1>3. HeapInv /\ [Next]_vars
        => [\A b \in DOMAIN used :
              GivenBack(b) \/ (b \in DOMAIN used' /\ used'[b] = used[b])]_vars
  BY <1>1, <1>2
<1>4. Spec => []HeapInv
  BY InitInv, StepInv, PTL DEF Spec
<1> QED
  BY <1>3, <1>4, PTL DEF Spec, Steady

(* Every byte between the anchor and the sentinel belongs to a block, so   *)
(* that Sweep, going from block to block by adding sizes, arrives at the   *)
(* sentinel (Storage.c:970-1012, Sweep).   *)
THEOREM NothingLost == Spec => []NoLeak
BY Tiling, PTL

(* After a sweep no free block begins where another one ends: a run is     *)
(* joined up to the next marked block or the sentinel, and neither is free *)
(* (Storage.c: Sweep).                                                     *)
THEOREM SweepJoins == Spec => SweepCoalesces
<1>1. ASSUME HeapInv, NEW marked \in SUBSET DOMAIN used, Sweep(marked),
             NEW a \in DOMAIN free', NEW b \in DOMAIN free'
      PROVE  a + free'[a] # b
  <2>1. DOMAIN free' = Heads(marked) /\ free'[a] = RunEnd(a, marked) - a
    BY <1>1 DEF Sweep
  <2>2. a \in Blocks /\ b \in Blocks /\ b \notin marked
    BY <1>1, <2>1 DEF Heads, Unmarked
  <2>3. /\ RunEnd(a, marked) \in marked \cup {heapEnd} /\ RunEnd(a, marked) \in Nat
        /\ a \in Nat
    BY <1>1, <2>2, RunEndLeast, BlockTypes DEF HeapInv
  <2>4. b # heapEnd
    BY <1>1, <2>2, BlockTypes DEF HeapInv, InHeap
  <2> QED
    BY <2>1, <2>2, <2>3, <2>4
<1>2. HeapInv /\ [Next]_vars =>
        [(\E marked \in SUBSET DOMAIN used : Sweep(marked))
           => \A a, b \in DOMAIN free' : a + free'[a] # b]_vars
  BY <1>1
<1>3. Spec => []HeapInv
  BY InitInv, StepInv, PTL DEF Spec
<1> QED
  BY <1>2, <1>3, PTL DEF Spec, SweepCoalesces

=============================================================================

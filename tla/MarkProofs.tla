----------------------------- MODULE MarkProofs -----------------------------
(***************************************************************************)
(* Marking with the way back kept in the blocks themselves marks what      *)
(* Trace marks and leaves every pointer and every tag as it found them,    *)
(* for every number of blocks, every graph of pointers and every stack of  *)
(* frames.                                                                 *)
(*                                                                         *)
(* The invariant reconstructs the visits that are not finished: for every  *)
(* entry of the machine stack there is a visit, which tells what act, last,*)
(* base and count were when the entry was pushed.  Each entry, with the    *)
(* pointer and the tag that were changed when it was pushed, leads from    *)
(* its visit to the next one, and from the last one to the present state.  *)
(***************************************************************************)
EXTENDS Mark, SequenceTheorems, FunctionTheorems, FiniteSetTheorems, TLAPS

FrameIds == {<<"frame", f>> : f \in DOMAIN Frames}
Entries ==
  {<<"root", d>> : d \in Nat \X Nat} \cup {<<"fixed">>, <<"elem">>}
    \cup {<<"saved", v[1], v[2], v[3]>> : v \in Nat \X Nat \X Nat}

MarkTypes ==
  /\ pc \in {"root", "enter", "fixed", "elem", "return", "done", "wild"}
  /\ stack \in Seq(Entries) /\ marked \subseteq Blocks
  /\ base \in Nat /\ count \in Nat
  /\ place \in [Blocks -> Nat]
  /\ ptr \in [Pointers -> Blocks \cup {NIL} \cup FrameIds]
  /\ graph \in [Pointers -> Blocks \cup {NIL}]
  /\ root \in [FramePointers -> Blocks \cup {NIL}]

Visiting == pc \in {"enter", "wild", "fixed", "elem", "return"}

-----------------------------------------------------------------------------
(* What has been looked at: the pointers of the frames before a position,  *)
(* and the slots of a block before a place in an element.                  *)
Before(q, f, i, e, p) ==
  q[1] < f \/ (q[1] = f /\ (q[2] < i \/ (q[2] = i /\ (q[3] < e \/ (q[3] = e /\ q[4] < p)))))

FramePosition(a, d, e, c) ==
  /\ a \in FrameIds /\ d = <<d[1], d[2]>>
  /\ d[1] \in 0 .. Len(Frames[a[2]].open) /\ d[2] \in 1 .. PartFields(a[2], d[1]) + 1
  /\ e \in 1 .. PartElems(a[2], d[1]) /\ c = PartElems(a[2], d[1]) - e + 1

Seen(p, mk) == p = NIL \/ p \in mk

FramesScanned(a, d, e, mk) ==
  \A q \in FramePointers : Before(q, a[2], d[1], e, d[2]) => Seen(root[q], mk)

Scanned(b, e, p, mk) ==
  \A s \in Slots(b) : s[1] < e \/ (s[1] = e /\ s[2] < p) => Seen(graph[<<b, s>>], mk)

AllScanned(b, mk) == \A s \in Slots(b) : Seen(graph[<<b, s>>], mk)

-----------------------------------------------------------------------------
(* A visit w[k] that is not finished, the k-th from the bottom of the      *)
(* stack: [entry, act, last, base, count].                                 *)
Here == [act |-> act, last |-> last, base |-> base, count |-> count]
Follows(v) == v.entry[1] \in {"fixed", "elem"}
SlotOf(v, pl) == <<IF v.entry[1] = "fixed" THEN 0 ELSE v.base, pl[v.act]>>

FromFrame(v, y) ==
  /\ v.entry = <<"root", v.entry[2]>>
  /\ FramePosition(v.act, <<v.entry[2][1], v.entry[2][2] + 1>>, v.base, v.count)
  /\ y.last = v.act /\ y.base = v.base /\ y.count = v.count

IntoElements(v, y) ==
  /\ v.entry = <<"saved", v.count, v.base, 0>> /\ IsOpen(v.act)
  /\ y.act = v.act /\ y.last = v.last
  /\ y.base \in 1 .. Elems[v.act] /\ y.count = Elems[v.act] - y.base + 1

FromBlock(v, y, pl, pt) ==
  /\ v.entry = <<v.entry[1]>> /\ v.act \in DOMAIN Fields
  /\ v.entry[1] = "elem" <=> IsOpen(v.act)
  /\ SlotOf(v, pl) \in Slots(v.act)
  /\ pt[<<v.act, SlotOf(v, pl)>>] = v.last /\ graph[<<v.act, SlotOf(v, pl)>>] = y.act
  /\ y.act # v.last
  /\ y.last = v.act /\ y.base = v.base /\ y.count = v.count

Leads(v, y, pl, pt) ==
  /\ v.entry[1] = "root" => FromFrame(v, y)
  /\ v.entry[1] = "saved" => IntoElements(v, y)
  /\ Follows(v) => FromBlock(v, y, pl, pt)

(* The visits are in step with the stack; a block is visited only once.    *)
InStep(w, st) ==
  /\ DOMAIN w = 1 .. Len(st)
  /\ \A i \in 1 .. Len(st) : st[i] = w[Len(st) - i + 1].entry

NextIn(w, n, y, k) == IF k = n THEN y ELSE w[k+1]

Kinds(w, n, p) ==
  /\ \A k \in 1 .. n : w[k].entry[1] = "root" <=> k = 1
  /\ \A k \in 1 .. n :
       w[k].entry[1] = "saved" <=> (IF k = n THEN p ELSE w[k+1].entry[1]) = "elem"

Chain(w, n, y, pl, pt) == \A k \in 1 .. n : Leads(w[k], NextIn(w, n, y, k), pl, pt)

Once(w, n, mk) ==
  /\ \A k \in 1 .. n : Follows(w[k]) => w[k].act \in mk
  /\ \A j, k \in 1 .. n : Follows(w[j]) /\ Follows(w[k]) /\ w[j].act = w[k].act => j = k

OnWay(w, b) == \E k \in DOMAIN w : Follows(w[k]) /\ w[k].act = b

(* What is not on the way back is as it was, and scanned if it is marked.  *)
PointersKept(w, pl, pt) ==
  \A b \in Blocks : \A s \in Slots(b) :
    pt[<<b, s>>] = graph[<<b, s>>] \/ \E k \in DOMAIN w :
                                Follows(w[k]) /\ w[k].act = b /\ SlotOf(w[k], pl) = s

PlacesKept(w) ==
  \A b \in Blocks :
    place[b] = Start(b) \/ OnWay(w, b) \/ (b = act /\ pc \in {"fixed", "elem"})

ScannedBefore(v, pl, mk) ==
  /\ Follows(v) => Scanned(v.act, SlotOf(v, pl)[1], SlotOf(v, pl)[2] + 1, mk)
  /\ v.entry[1] = "root" =>
       FramesScanned(v.act, <<v.entry[2][1], v.entry[2][2] + 1>>, v.base, mk)

WayScanned(w) == \A k \in DOMAIN w : ScannedBefore(w[k], place, marked)

RestScanned(w) ==
  \A b \in marked : AllScanned(b, marked) \/ OnWay(w, b)
                      \/ (b = act /\ pc \in {"enter", "wild", "fixed", "elem"})

(* The position in the frame or the block being visited.                   *)
Position ==
  /\ pc = "root" => FramePosition(act, desc, base, count) /\ FramesScanned(act, desc, base, marked)
  /\ pc = "done" => \A q \in FramePointers : Seen(root[q], marked)
  /\ Visiting => act \in marked
  /\ pc = "fixed" => act \in DOMAIN Fields /\ ~IsOpen(act) /\ Scanned(act, 0, desc[2], marked)
  /\ pc = "elem" => IsOpen(act) /\ Scanned(act, base, desc[2], marked)
  /\ pc \in {"fixed", "elem"} => desc = <<0, desc[2]>> /\ desc[2] \in 1 .. Fields[act] + 1

WayBack(w) ==
  /\ InStep(w, stack)
  /\ Visiting <=> stack # << >>
  /\ Kinds(w, Len(stack), pc)
  /\ Chain(w, Len(stack), Here, place, ptr)
  /\ Once(w, Len(stack), marked)
  /\ Visiting => ~OnWay(w, act)
  /\ PointersKept(w, place, ptr) /\ PlacesKept(w)
  /\ WayScanned(w) /\ RestScanned(w)

MarkInv == MarkTypes /\ Position /\ \E w : WayBack(w)

-----------------------------------------------------------------------------
(* Frames and tables: what the constants make of them. *)
LEMMA FrameParts ==
  /\ Len(Frames) \in Nat \ {0} /\ DOMAIN Frames = 1 .. Len(Frames)
  /\ \A f \in DOMAIN Frames :
       /\ Len(Frames[f].open) \in Nat
       /\ \A i \in 0 .. Len(Frames[f].open) :
            PartFields(f, i) \in Nat /\ PartElems(f, i) \in Nat \ {0}
<1>1. /\ Len(Frames) \in Nat \ {0} /\ DOMAIN Frames = 1 .. Len(Frames)
      /\ \A f \in DOMAIN Frames :
           Frames[f] \in [fixed : Nat, open : Seq([fields : Nat, elems : Nat \ {0}])]
  <2> DEFINE R == [fixed : Nat, open : Seq([fields : Nat, elems : Nat \ {0}])]
  <2>1. Frames \in Seq(R) /\ Len(Frames) > 0
    BY MarkAssumption
  <2> HIDE DEF R
  <2>2. Len(Frames) \in Nat /\ DOMAIN Frames = 1 .. Len(Frames)
    BY <2>1, LenProperties
  <2>3. \A f \in DOMAIN Frames : Frames[f] \in R
    BY <2>1, <2>2, ElementOfSeq
  <2> QED
    BY <2>1, <2>2, <2>3 DEF R
<1>2. ASSUME NEW f \in DOMAIN Frames, NEW i \in 0 .. Len(Frames[f].open)
      PROVE  PartFields(f, i) \in Nat /\ PartElems(f, i) \in Nat \ {0}
  <2>1. /\ Frames[f].fixed \in Nat /\ Frames[f].open \in Seq([fields : Nat, elems : Nat \ {0}])
        /\ Len(Frames[f].open) \in Nat
    BY <1>1, LenProperties
  <2>2. CASE i = 0
    BY <2>1, <2>2 DEF PartFields, PartElems
  <2>3. CASE i # 0
    <3>1. i \in 1 .. Len(Frames[f].open)
      BY <1>2, <2>1, <2>3
    <3>2. Frames[f].open[i] \in [fields : Nat, elems : Nat \ {0}]
      BY <2>1, <3>1, ElementOfSeq
    <3> QED
      BY <2>3, <3>2 DEF PartFields, PartElems
  <2> QED
    BY <2>2, <2>3
<1>3. \A f \in DOMAIN Frames : Len(Frames[f].open) \in Nat
  BY <1>1, LenProperties
<1> QED
  BY <1>1, <1>2, <1>3

LEMMA FrameNumbers ==
  ASSUME NEW f \in DOMAIN Frames, NEW i \in 0 .. Len(Frames[f].open)
  PROVE  /\ f \in Nat /\ f >= 1 /\ f <= Len(Frames) /\ Len(Frames) \in Nat
         /\ i \in Nat /\ Len(Frames[f].open) \in Nat /\ i <= Len(Frames[f].open)
         /\ PartFields(f, i) \in Nat /\ PartElems(f, i) \in Nat \ {0}
<1>1. /\ DOMAIN Frames = 1 .. Len(Frames) /\ Len(Frames) \in Nat
      /\ Len(Frames[f].open) \in Nat
  BY FrameParts
<1>2. PartFields(f, i) \in Nat /\ PartElems(f, i) \in Nat \ {0}
  BY FrameParts
<1> QED
  BY <1>1, <1>2

LEMMA FramePointer ==
  ASSUME NEW q
  PROVE  q \in FramePointers <=>
           /\ q = <<q[1], q[2], q[3], q[4]>>
           /\ q[1] \in DOMAIN Frames /\ q[2] \in 0 .. Len(Frames[q[1]].open)
           /\ q[3] \in 1 .. PartElems(q[1], q[2]) /\ q[4] \in 1 .. PartFields(q[1], q[2])
<1>1. q \in FramePointers <=>
        \E f \in DOMAIN Frames : \E i \in 0 .. Len(Frames[f].open) : q \in PartPointers(f, i)
  BY DEF FramePointers
<1>2. ASSUME NEW f, NEW i
      PROVE  q \in PartPointers(f, i) <=>
               /\ q = <<q[1], q[2], q[3], q[4]>> /\ q[1] = f /\ q[2] = i
               /\ q[3] \in 1 .. PartElems(f, i) /\ q[4] \in 1 .. PartFields(f, i)
  BY DEF PartPointers
<1> QED
  BY <1>1, <1>2

LEMMA BlockSlots ==
  ASSUME NEW b \in DOMAIN Fields
  PROVE  /\ b \in Blocks /\ Fields[b] \in Nat
         /\ IsOpen(b) => Elems[b] \in Nat \ {0}
         /\ \A s : s \in Slots(b) <=>
              /\ s = <<s[1], s[2]>> /\ s[2] \in 1 .. Fields[b]
              /\ s[1] \in IF IsOpen(b) THEN 1 .. Elems[b] ELSE {0}
<1>1. b \in Blocks /\ b \notin System /\ Fields[b] \in Nat
  BY MarkAssumption DEF System
<1>2. Slots(b) = (IF IsOpen(b) THEN 1 .. Elems[b] ELSE {0}) \X (1 .. Fields[b])
  BY <1>1 DEF Slots
<1> QED
  BY <1>1, <1>2, MarkAssumption DEF IsOpen

LEMMA PointerOf ==
  ASSUME NEW b \in Blocks, NEW s \in Slots(b)
  PROVE  <<b, s>> \in Pointers /\ b \in DOMAIN Fields
<1>1. <<b, s>> \in {b} \X Slots(b)
  OBVIOUS
<1>2. b \in DOMAIN Fields
  BY DEF Slots, System
<1> QED
  BY <1>1, <1>2 DEF Pointers

LEMMA OpenIsBlock == \A b : IsOpen(b) => b \in DOMAIN Fields
BY MarkAssumption DEF IsOpen

-----------------------------------------------------------------------------
LEMMA MarkInitInv == ASSUME MarkInit PROVE MarkInv
<1>1. /\ 1 \in DOMAIN Frames /\ stack = << >> /\ stack \in Seq(Entries) /\ Len(stack) = 0
      /\ \A b \in Blocks : Start(b) \in Nat
  BY FrameParts DEF MarkInit, Start
<1>2. MarkTypes
  BY <1>1 DEF MarkInit, MarkTypes
<1>3. FramePosition(act, desc, base, count)
  <2>1. /\ act = <<"frame", 1>> /\ act \in FrameIds /\ act[2] = 1 /\ desc = <<0, 1>>
        /\ base = 1 /\ count = 1
    BY <1>1 DEF MarkInit, FrameIds
  <2>2. /\ PartElems(1, 0) = 1 /\ PartFields(1, 0) \in Nat /\ Len(Frames[1].open) \in Nat
    BY <1>1, FrameParts DEF PartElems
  <2> QED
    BY <2>1, <2>2 DEF FramePosition
<1>4. FramesScanned(act, desc, base, marked)
  <2>1. SUFFICES ASSUME NEW q \in FramePointers, Before(q, 1, 0, 1, 1) PROVE FALSE
    BY DEF MarkInit, FramesScanned
  <2>2. /\ q[1] \in DOMAIN Frames /\ q[2] \in 0 .. Len(Frames[q[1]].open)
        /\ q[3] \in 1 .. PartElems(q[1], q[2]) /\ q[4] \in 1 .. PartFields(q[1], q[2])
    BY FramePointer
  <2>3. q[1] \in Nat /\ q[1] >= 1 /\ q[2] >= 0 /\ q[3] >= 1 /\ q[4] >= 1
    BY <2>2, FrameParts
  <2>4. q[2] \in Nat /\ q[3] \in Nat /\ q[4] \in Nat
    BY <2>2, FrameParts
  <2> QED
    BY <2>1, <2>3, <2>4 DEF Before
<1>5. Position
  BY <1>3, <1>4 DEF MarkInit, Position, Visiting
<1>6. PICK w : w = [k \in {} |-> k]
  OBVIOUS
<1>7. DOMAIN w = {}
  BY <1>6
<1>8. WayBack(w)
  <2>1. InStep(w, stack) /\ (Visiting <=> stack # << >>) /\ ~Visiting
    BY <1>1, <1>7 DEF InStep, MarkInit, Visiting
  <2>2. /\ Kinds(w, Len(stack), pc) /\ Chain(w, Len(stack), Here, place, ptr)
        /\ Once(w, Len(stack), marked)
    BY <1>1 DEF Kinds, Chain, Once
  <2>3. PointersKept(w, place, ptr) /\ PlacesKept(w)
    BY DEF MarkInit, PointersKept, PlacesKept
  <2>4. WayScanned(w) /\ RestScanned(w)
    BY <1>7 DEF MarkInit, WayScanned, RestScanned
  <2> QED
    BY <2>1, <2>2, <2>3, <2>4 DEF WayBack
<1> QED
  BY <1>2, <1>5, <1>8 DEF MarkInv

-----------------------------------------------------------------------------
(* Between two visits that start from a frame: no pointer is changed. *)
LEMMA AtRest ==
  ASSUME MarkInv, ~Visiting
  PROVE  /\ stack = << >>
         /\ \A b \in Blocks : place[b] = Start(b) /\ \A s \in Slots(b) : ptr[<<b, s>>] = graph[<<b, s>>]
         /\ \A b \in marked : AllScanned(b, marked)
<1>1. PICK w : WayBack(w)
  BY DEF MarkInv
<1>2. stack = << >> /\ Len(stack) = 0
  BY <1>1 DEF WayBack
<1>3. DOMAIN w = {}
  BY <1>1, <1>2 DEF WayBack, InStep
<1>4. /\ \A b \in Blocks : place[b] = Start(b) /\ \A s \in Slots(b) : ptr[<<b, s>>] = graph[<<b, s>>]
      /\ \A b \in marked : AllScanned(b, marked)
  BY <1>1, <1>3 DEF WayBack, PointersKept, PlacesKept, RestScanned, OnWay, Visiting
<1> QED
  BY <1>2, <1>4

LEMMA Idle ==
  ASSUME MarkInv, pc = "root"
  PROVE  /\ stack = << >> /\ FramePosition(act, desc, base, count)
         /\ FramesScanned(act, desc, base, marked)
         /\ \A b \in Blocks : place[b] = Start(b) /\ \A s \in Slots(b) : ptr[<<b, s>>] = graph[<<b, s>>]
         /\ \A b \in marked : AllScanned(b, marked)
<1>1. ~Visiting
  BY DEF Visiting
<1>2. FramePosition(act, desc, base, count) /\ FramesScanned(act, desc, base, marked)
  BY DEF MarkInv, Position
<1> QED
  BY <1>1, <1>2, AtRest

LEMMA StaysIdle ==
  ASSUME MarkTypes', Position', stack' = << >>, ~Visiting',
         \A b \in Blocks : /\ place'[b] = Start(b)
                           /\ \A s \in Slots(b) : ptr'[<<b, s>>] = graph'[<<b, s>>],
         \A b \in marked' : AllScanned(b, marked)'
  PROVE  MarkInv'
<1>1. PICK w : w = [k \in {} |-> k]
  OBVIOUS
<1>2. DOMAIN w = {} /\ Len(stack') = 0
  BY <1>1
<1>3. InStep(w, stack)' /\ (Visiting <=> stack # << >>)'
  BY <1>2 DEF InStep
<1>4. /\ Kinds(w, Len(stack), pc)' /\ Chain(w, Len(stack), Here, place, ptr)'
      /\ Once(w, Len(stack), marked)'
  BY <1>2 DEF Kinds, Chain, Once
<1>5. PointersKept(w, place, ptr)' /\ PlacesKept(w)' /\ RestScanned(w)'
  BY DEF PointersKept, PlacesKept, RestScanned
<1>6. WayScanned(w)'
  BY <1>2 DEF WayScanned
<1>7. WayBack(w)'
  BY <1>3, <1>4, <1>5, <1>6 DEF WayBack
<1> QED
  BY <1>7 DEF MarkInv

(* The pointer at a position, and the next position in the part. *)
LEMMA FrameStep ==
  ASSUME NEW a, NEW d, NEW e, NEW c, FramePosition(a, d, e, c),
         d[2] <= PartFields(a[2], d[1])
  PROVE  /\ <<a[2], d[1], e, d[2]>> \in FramePointers
         /\ FramePosition(a, <<d[1], d[2] + 1>>, e, c)
         /\ \A q \in FramePointers : Before(q, a[2], d[1], e, d[2] + 1) =>
              Before(q, a[2], d[1], e, d[2]) \/ q = <<a[2], d[1], e, d[2]>>
<1> DEFINE f == a[2]
           i == d[1]
           p == d[2]
<1>1. /\ a \in FrameIds /\ f \in DOMAIN Frames /\ i \in 0 .. Len(Frames[f].open)
      /\ p \in 1 .. PartFields(f, i) + 1 /\ e \in 1 .. PartElems(f, i)
      /\ c = PartElems(f, i) - e + 1
  BY DEF FramePosition, FrameIds
<1>0. p <= PartFields(f, i)
  OBVIOUS
<1> HIDE DEF f, i, p
<1>2. /\ f \in Nat /\ i \in Nat /\ PartFields(f, i) \in Nat /\ PartElems(f, i) \in Nat
      /\ p \in 1 .. PartFields(f, i) /\ p + 1 \in 1 .. PartFields(f, i) + 1
      /\ e \in Nat /\ p \in Nat
  BY <1>0, <1>1, FrameNumbers
<1>3. <<f, i, e, p>> \in FramePointers
  BY <1>1, <1>2, FramePointer
<1>4. FramePosition(a, <<i, p + 1>>, e, c)
  BY <1>1, <1>2 DEF FramePosition, f
<1>5. ASSUME NEW q \in FramePointers, Before(q, f, i, e, p + 1)
      PROVE  Before(q, f, i, e, p) \/ q = <<f, i, e, p>>
  <2>1. /\ q = <<q[1], q[2], q[3], q[4]>>
        /\ q[1] \in DOMAIN Frames /\ q[2] \in 0 .. Len(Frames[q[1]].open)
        /\ q[3] \in 1 .. PartElems(q[1], q[2]) /\ q[4] \in 1 .. PartFields(q[1], q[2])
    BY FramePointer
  <2>2. q[1] \in Nat
    BY <2>1, FrameParts
  <2>3. q[2] \in Nat /\ q[3] \in Nat /\ q[4] \in Nat
    BY <2>1, FrameParts
  <2>4. Before(q, f, i, e, p) \/ (q[1] = f /\ q[2] = i /\ q[3] = e /\ q[4] = p)
    BY <1>2, <1>5, <2>2, <2>3 DEF Before
  <2> QED
    BY <2>1, <2>4
<1> QED
  BY <1>3, <1>4, <1>5 DEF f, i, p

LEMMA SkipRootInv == ASSUME MarkInv, SkipRoot PROVE MarkInv'
<1>1. /\ pc = "root" /\ pc' = "root" /\ stack' = stack /\ stack = << >>
      /\ FramePosition(act, desc, base, count) /\ FramesScanned(act, desc, base, marked)
      /\ desc[2] <= PartFields(act[2], desc[1])
      /\ ~Unmarked(root[<<act[2], desc[1], base, desc[2]>>]) /\ desc' = <<desc[1], desc[2] + 1>>
      /\ UNCHANGED <<act, last, base, count, marked, place, ptr, root, graph>>
  BY Idle DEF SkipRoot, AtRoot, RootPointer
<1>2. /\ FramePosition(act, <<desc[1], desc[2] + 1>>, base, count)
      /\ \A q \in FramePointers : Before(q, act[2], desc[1], base, desc[2] + 1) =>
           Before(q, act[2], desc[1], base, desc[2]) \/ q = <<act[2], desc[1], base, desc[2]>>
  BY <1>1, FrameStep
<1>3. FramePosition(act, desc, base, count)'
  BY <1>1, <1>2 DEF FramePosition
<1>4. FramesScanned(act, desc, base, marked)'
  BY <1>1, <1>2 DEF FramesScanned, Seen, Unmarked
<1>5. MarkTypes' /\ Position' /\ ~Visiting'
  BY <1>1, <1>3, <1>4 DEF MarkInv, MarkTypes, Position, Visiting
<1>6. \A b \in marked' : AllScanned(b, marked)'
  BY <1>1, Idle DEF AllScanned, Seen
<1>7. \A b \in Blocks : /\ place'[b] = Start(b)
                        /\ \A s \in Slots(b) : ptr'[<<b, s>>] = graph'[<<b, s>>]
  BY <1>1, Idle
<1> QED
  BY <1>1, <1>5, <1>6, <1>7, StaysIdle

(* At the end of a part all pointers before the next one have been seen. *)
LEMMA PartStep ==
  ASSUME NEW f \in DOMAIN Frames, NEW i \in 0 .. Len(Frames[f].open),
         NEW e \in 1 .. PartElems(f, i), NEW q \in FramePointers
  PROVE  LET ends == Before(q, f, i, e, PartFields(f, i) + 1)
         IN  /\ Before(q, f, i, e + 1, 1) => ends
             /\ e = PartElems(f, i) => /\ Before(q, f, i + 1, 1, 1) => ends
                                       /\ i = Len(Frames[f].open) =>
                                            /\ Before(q, f + 1, 0, 1, 1) => ends
                                            /\ f = Len(Frames) => ends
<1>1. /\ q[1] \in DOMAIN Frames /\ q[2] \in 0 .. Len(Frames[q[1]].open)
      /\ q[3] \in 1 .. PartElems(q[1], q[2]) /\ q[4] \in 1 .. PartFields(q[1], q[2])
  BY FramePointer
<1>2. /\ q[1] \in Nat /\ q[1] <= Len(Frames) /\ q[2] \in Nat
      /\ q[2] <= Len(Frames[q[1]].open)
      /\ PartFields(q[1], q[2]) \in Nat /\ PartElems(q[1], q[2]) \in Nat
  BY <1>1, FrameNumbers
<1>3. /\ q[3] \in Nat /\ q[4] \in Nat /\ q[3] >= 1 /\ q[4] >= 1
      /\ q[3] <= PartElems(q[1], q[2]) /\ q[4] <= PartFields(q[1], q[2])
  BY <1>1, <1>2
<1>4. /\ f \in Nat /\ i \in Nat /\ Len(Frames) \in Nat /\ Len(Frames[f].open) \in Nat
      /\ PartFields(f, i) \in Nat /\ PartElems(f, i) \in Nat
  BY FrameNumbers
<1>5. e \in Nat
  BY <1>4
<1> DEFINE F == PartFields(f, i)
           E == PartElems(f, i)
           L == Len(Frames[f].open)
<1>6. q[1] = f => q[2] <= L
  BY <1>2
<1>7. q[1] = f /\ q[2] = i => q[3] <= E /\ q[4] <= F
  BY <1>3
<1>8. F \in Nat /\ E \in Nat /\ L \in Nat
  BY <1>4
<1> HIDE DEF F, E, L
<1>9. /\ Before(q, f, i, e + 1, 1) => Before(q, f, i, e, F + 1)
      /\ e = E => /\ Before(q, f, i + 1, 1, 1) => Before(q, f, i, e, F + 1)
                  /\ i = L => /\ Before(q, f + 1, 0, 1, 1) => Before(q, f, i, e, F + 1)
                              /\ f = Len(Frames) => Before(q, f, i, e, F + 1)
  <2> DEFINE q1 == q[1]
             q2 == q[2]
             q3 == q[3]
             q4 == q[4]
             N == Len(Frames)
  <2>1. /\ q1 \in Nat /\ q2 \in Nat /\ q3 \in Nat /\ q4 \in Nat /\ N \in Nat
        /\ q1 <= N /\ q3 >= 1 /\ q4 >= 1
        /\ q1 = f => q2 <= L
        /\ q1 = f /\ q2 = i => q3 <= E /\ q4 <= F
        /\ f \in Nat /\ i \in Nat /\ e \in Nat
    BY <1>2, <1>3, <1>4, <1>5, <1>6, <1>7
  <2>2. \A ff, ii, ee, pp : Before(q, ff, ii, ee, pp) <=>
          q1 < ff \/ (q1 = ff /\ (q2 < ii \/ (q2 = ii /\ (q3 < ee \/ (q3 = ee /\ q4 < pp)))))
    BY DEF Before
  <2> HIDE DEF q1, q2, q3, q4, N
  <2>3. Before(q, f, i, e + 1, 1) => Before(q, f, i, e, F + 1)
    BY <1>8, <2>1, <2>2
  <2>4. ASSUME e = E, Before(q, f, i + 1, 1, 1) PROVE Before(q, f, i, e, F + 1)
    BY <1>8, <2>1, <2>2, <2>4
  <2>5. ASSUME e = E, i = L, Before(q, f + 1, 0, 1, 1) PROVE Before(q, f, i, e, F + 1)
    BY <1>8, <2>1, <2>2, <2>5
  <2>6. ASSUME e = E, i = L, f = N PROVE Before(q, f, i, e, F + 1)
    BY <1>8, <2>1, <2>2, <2>6
  <2> QED
    BY <2>3, <2>4, <2>5, <2>6 DEF N
<1> QED
  BY <1>9 DEF E, F, L

LEMMA EndOfPartInv == ASSUME MarkInv, EndOfPart PROVE MarkInv'
<1> DEFINE f == act[2]
           i == desc[1]
<1>1. /\ pc = "root" /\ stack' = stack /\ stack = << >>
      /\ FramePosition(act, desc, base, count) /\ FramesScanned(act, desc, base, marked)
      /\ ~(desc[2] <= PartFields(f, i))
      /\ UNCHANGED <<last, marked, place, ptr, root, graph>>
  BY Idle DEF EndOfPart, AtRoot
<1>2. /\ act \in FrameIds /\ act = <<"frame", f>> /\ f \in DOMAIN Frames
      /\ i \in 0 .. Len(Frames[f].open) /\ base \in 1 .. PartElems(f, i)
      /\ count = PartElems(f, i) - base + 1
      /\ desc[2] \in 1 .. PartFields(f, i) + 1
  BY <1>1 DEF FramePosition, FrameIds
<1>3. /\ f \in Nat /\ Len(Frames) \in Nat /\ DOMAIN Frames = 1 .. Len(Frames)
      /\ Len(Frames[f].open) \in Nat /\ PartFields(f, i) \in Nat
      /\ PartElems(f, i) \in Nat \ {0}
  BY <1>2, FrameParts
<1>4. \/ count > 1 /\ count' = count - 1 /\ base' = base + 1 /\ desc' = <<i, 1>>
         /\ UNCHANGED <<pc, act>>
      \/ count = 1 /\ i + 1 <= Len(Frames[f].open) /\ count' = PartElems(f, i + 1)
         /\ base' = 1 /\ desc' = <<i + 1, 1>> /\ UNCHANGED <<pc, act>>
      \/ count = 1 /\ i + 1 > Len(Frames[f].open) /\ f < Len(Frames)
         /\ act' = <<"frame", f + 1>> /\ count' = 1 /\ base' = 1 /\ desc' = <<0, 1>>
         /\ UNCHANGED pc
      \/ count = 1 /\ i + 1 > Len(Frames[f].open) /\ f = Len(Frames)
         /\ pc' = "done" /\ UNCHANGED <<act, count, base, desc>>
  BY DEF EndOfPart
<1>11. desc[2] = PartFields(f, i) + 1
  <2> DEFINE d == desc[2]
             n == PartFields(f, i)
  <2>1. d \in 1 .. n + 1 /\ n \in Nat /\ ~(d <= n)
    BY <1>1, <1>2, <1>3
  <2> HIDE DEF d, n
  <2>2. d = n + 1
    BY <2>1
  <2> QED
    BY <2>2 DEF d, n
<1> HIDE DEF f, i
<1>5. \A q \in FramePointers : Before(q, f, i, base, PartFields(f, i) + 1) => Seen(root[q], marked)
  BY <1>1, <1>11 DEF FramesScanned, Seen, f, i
<1>6. \A q \in FramePointers :
        LET ends == Before(q, f, i, base, PartFields(f, i) + 1)
        IN  /\ Before(q, f, i, base + 1, 1) => ends
            /\ base = PartElems(f, i) =>
                 /\ Before(q, f, i + 1, 1, 1) => ends
                 /\ i = Len(Frames[f].open) =>
                      /\ Before(q, f + 1, 0, 1, 1) => ends
                      /\ f = Len(Frames) => ends
  BY <1>2, PartStep
<1>7. ASSUME /\ pc' = "root"
             /\ FramePosition(act, desc, base, count)' /\ FramesScanned(act, desc, base, marked)'
             /\ base' \in Nat /\ count' \in Nat
      PROVE  MarkTypes' /\ Position' /\ ~Visiting'
  BY <1>1, <1>7 DEF MarkInv, MarkTypes, Position, Visiting
<1>8. MarkTypes' /\ Position' /\ ~Visiting'
  <2>1. CASE count > 1
    <3>1. /\ pc' = "root" /\ act' = act /\ count' = count - 1 /\ base' = base + 1
          /\ desc' = <<i, 1>>
      BY <1>4, <1>1, <2>1
    <3>2. /\ base + 1 \in 1 .. PartElems(f, i) /\ count' = PartElems(f, i) - (base + 1) + 1
          /\ 1 \in 1 .. PartFields(f, i) + 1 /\ base' \in Nat /\ count' \in Nat
      BY <1>2, <1>3, <2>1, <3>1, SMTT(30)
    <3>3. FramePosition(act, desc, base, count)'
      BY <1>2, <3>1, <3>2 DEF FramePosition, f
    <3>4. FramesScanned(act, desc, base, marked)'
      BY <1>1, <1>5, <1>6, <3>1 DEF FramesScanned, Seen, Unmarked, f
    <3> QED
      BY <1>7, <3>1, <3>2, <3>3, <3>4
  <2>2. CASE count = 1 /\ i + 1 <= Len(Frames[f].open)
    <3>1. /\ pc' = "root" /\ act' = act /\ count' = PartElems(f, i + 1) /\ base' = 1
          /\ desc' = <<i + 1, 1>>
      BY <1>1, <1>2, <1>3, <1>4, <2>2
    <3>2. i + 1 \in 0 .. Len(Frames[f].open) /\ base = PartElems(f, i)
      BY <1>2, <1>3, <2>2
    <3>3. PartFields(f, i + 1) \in Nat /\ PartElems(f, i + 1) \in Nat \ {0}
      BY <1>2, <3>2, FrameParts
    <3>4. FramePosition(act, desc, base, count)'
      <4>1. 1 \in 1 .. PartFields(f, i + 1) + 1 /\ 1 \in 1 .. PartElems(f, i + 1)
        BY <3>3
      <4>2. PartElems(f, i + 1) = PartElems(f, i + 1) - 1 + 1
        BY <3>3
      <4>3. desc' = <<desc'[1], desc'[2]>> /\ desc'[1] = i + 1 /\ desc'[2] = 1
        BY <3>1
      <4> QED
        BY <1>2, <3>1, <3>2, <4>1, <4>2, <4>3 DEF FramePosition, f
    <3>5. FramesScanned(act, desc, base, marked)'
      BY <1>1, <1>5, <1>6, <3>1, <3>2 DEF FramesScanned, Seen, Unmarked, f
    <3> QED
      BY <1>7, <3>1, <3>3, <3>4, <3>5
  <2>3. CASE count = 1 /\ i + 1 > Len(Frames[f].open)
    <3>1. i = Len(Frames[f].open) /\ base = PartElems(f, i)
      BY <1>2, <1>3, <2>3
    <3>2. CASE f < Len(Frames)
      <4>1. /\ pc' = "root" /\ act' = <<"frame", f + 1>> /\ count' = 1 /\ base' = 1
            /\ desc' = <<0, 1>>
        BY <1>1, <1>2, <1>3, <1>4, <2>3, <3>2
      <4>2. f + 1 \in DOMAIN Frames /\ PartElems(f + 1, 0) = 1
        BY <1>2, <1>3, <3>2 DEF PartElems
      <4>3. PartFields(f + 1, 0) \in Nat /\ Len(Frames[f + 1].open) \in Nat
        BY <4>2, FrameParts
      <4>4. FramePosition(act, desc, base, count)'
        BY <4>1, <4>2, <4>3 DEF FramePosition, FrameIds
      <4>5. FramesScanned(act, desc, base, marked)'
        BY <1>1, <1>5, <1>6, <3>1, <4>1 DEF FramesScanned, Seen, Unmarked
      <4> QED
        BY <1>7, <4>1, <4>4, <4>5
    <3>3. CASE f = Len(Frames)
      <4>1. pc' = "done" /\ UNCHANGED <<act, count, base, desc>>
        BY <1>2, <1>3, <1>4, <2>3, <3>3
      <4>2. \A q \in FramePointers : Seen(root[q], marked)
        BY <1>5, <1>6, <3>1, <3>3
      <4>3. \A q \in FramePointers : Seen(root[q], marked)'
        BY <1>1, <4>2 DEF Seen
      <4> QED
        BY <1>1, <4>1, <4>3 DEF MarkInv, MarkTypes, Position, Visiting
    <3> QED
      BY <1>2, <1>3, <3>2, <3>3
  <2> QED
    BY <1>2, <1>3, <2>1, <2>2, <2>3
<1>9. \A b \in marked' : AllScanned(b, marked)'
  BY <1>1, Idle DEF AllScanned, Seen
<1>10. \A b \in Blocks : /\ place'[b] = Start(b)
                         /\ \A s \in Slots(b) : ptr'[<<b, s>>] = graph'[<<b, s>>]
  BY <1>1, Idle
<1> QED
  BY <1>1, <1>8, <1>9, <1>10, StaysIdle

-----------------------------------------------------------------------------
(* The visits when an entry is pushed and when one is popped. *)
Grow(w, n, v) == [k \in 1 .. n + 1 |-> IF k <= n THEN w[k] ELSE v]
Cut(w, n) == [k \in 1 .. n - 1 |-> w[k]]

OneMore(st2, x, st) ==
  /\ Len(st) \in Nat /\ Len(st2) = Len(st) + 1
  /\ \A i \in 1 .. Len(st) + 1 : st2[i] = IF i = 1 THEN x ELSE st[i-1]

LEMMA Pushed ==
  ASSUME NEW st \in Seq(Entries), NEW x \in Entries
  PROVE  /\ <<x>> \o st \in Seq(Entries) /\ <<x>> \o st # << >>
         /\ OneMore(<<x>> \o st, x, st)
<1> DEFINE y == <<x>>
<1>1. y \in Seq(Entries) /\ Len(y) = 1 /\ y[1] = x /\ Len(st) \in Nat
  BY LenProperties
<1> HIDE DEF y
<1>2. /\ y \o st \in Seq(Entries) /\ Len(y \o st) = 1 + Len(st)
      /\ \A i \in 1 .. 1 + Len(st) : (y \o st)[i] = IF i <= 1 THEN y[i] ELSE st[i-1]
  <2>1. /\ y \o st \in Seq(Entries) /\ Len(y \o st) = Len(y) + Len(st)
        /\ \A i \in 1 .. Len(y) + Len(st) :
             (y \o st)[i] = IF i <= Len(y) THEN y[i] ELSE st[i - Len(y)]
    BY <1>1, ConcatProperties
  <2> QED
    BY <1>1, <2>1
<1>3. \A i \in 1 .. Len(st) + 1 : (y \o st)[i] = IF i = 1 THEN x ELSE st[i-1]
  BY <1>1, <1>2
<1>4. y \o st # << >>
  <2>1. Len(y \o st) # 0 /\ Len(<< >>) = 0
    BY <1>1, <1>2
  <2> QED
    BY <2>1, Zenon
<1> QED
  <2>1. OneMore(y \o st, x, st)
    BY <1>1, <1>2, <1>3 DEF OneMore
  <2> QED
    BY <1>2, <1>4, <2>1 DEF y

LEMMA Grown ==
  ASSUME NEW st, NEW w, NEW v, NEW st2, InStep(w, st), OneMore(st2, v.entry, st)
  PROVE  LET u == Grow(w, Len(st), v)
         IN  /\ DOMAIN u = 1 .. Len(st) + 1 /\ InStep(u, st2) /\ u[Len(st) + 1] = v
             /\ \A k \in 1 .. Len(st) : u[k] = w[k]
<1> DEFINE n == Len(st)
           u == Grow(w, n, v)
<1>1. n \in Nat /\ DOMAIN w = 1 .. n
  BY DEF InStep, OneMore
<1>2. /\ DOMAIN u = 1 .. n + 1 /\ u[n+1] = v
      /\ \A k \in 1 .. n : u[k] = w[k]
  BY <1>1 DEF Grow
<1>3. /\ Len(st2) = n + 1
      /\ \A i \in 1 .. n + 1 : st2[i] = IF i = 1 THEN v.entry ELSE st[i-1]
  BY DEF OneMore
<1>4. \A i \in 1 .. n : st[i] = w[n - i + 1].entry
  BY DEF InStep
<1> HIDE DEF n, u
<1>5. ASSUME NEW i \in 1 .. n + 1 PROVE st2[i] = u[n + 1 - i + 1].entry
  <2>1. CASE i = 1
    BY <1>1, <1>2, <1>3, <2>1
  <2>2. CASE i # 1
    <3>1. i - 1 \in 1 .. n /\ n + 1 - i + 1 = n - (i - 1) + 1 /\ n - (i - 1) + 1 \in 1 .. n
      BY <1>1, <2>2
    <3>2. st[i-1] = w[n - (i - 1) + 1].entry
      BY <1>4, <3>1
    <3> QED
      BY <1>2, <1>3, <2>2, <3>1, <3>2
  <2> QED
    BY <2>1, <2>2
<1>6. ASSUME NEW m, m = n + 1
      PROVE  DOMAIN u = 1 .. m /\ \A i \in 1 .. m : st2[i] = u[m - i + 1].entry
  BY <1>1, <1>2, <1>5, <1>6
<1>7. InStep(u, st2)
  BY <1>3, <1>6, Zenon DEF InStep
<1> QED
  BY <1>2, <1>7 DEF n, u

LEMMA CutShort ==
  ASSUME NEW st \in Seq(Entries), st # << >>, NEW w, NEW u,
         InStep(w, st), u = Cut(w, Len(st))
  PROVE  LET n == Len(st)
         IN  /\ n \in Nat \ {0} /\ DOMAIN w = 1 .. n /\ DOMAIN u = 1 .. n - 1
             /\ Tail(st) \in Seq(Entries) /\ Len(Tail(st)) = n - 1
             /\ Tail(st) # << >> <=> n # 1
             /\ InStep(u, Tail(st))
             /\ \A k \in 1 .. n - 1 : u[k] = w[k]
<1> DEFINE n == Len(st)
           t == Tail(st)
<1>1. n \in Nat \ {0} /\ DOMAIN w = 1 .. n
  BY LenProperties, EmptySeq DEF InStep
<1>2. /\ t \in Seq(Entries) /\ Len(t) = n - 1
      /\ \A i \in 1 .. n - 1 : t[i] = st[i+1]
  BY <1>1, HeadTailProperties
<1>4. DOMAIN u = 1 .. n - 1 /\ \A k \in 1 .. n - 1 : u[k] = w[k]
  BY DEF Cut
<1> HIDE DEF t, n
<1>3. t # << >> <=> n # 1
  <2>1. t = << >> <=> Len(t) = 0
    BY <1>2, EmptySeq
  <2> QED
    BY <1>1, <1>2, <2>1
<1>5. ASSUME NEW i \in 1 .. n - 1 PROVE t[i] = u[n - 1 - i + 1].entry
  <2>1. i + 1 \in 1 .. n /\ n - (i + 1) + 1 = n - 1 - i + 1 /\ n - 1 - i + 1 \in 1 .. n - 1
    BY <1>1
  <2>2. st[i+1] = w[n - (i + 1) + 1].entry
    BY <2>1 DEF InStep, n
  <2> QED
    BY <1>2, <1>4, <2>1, <2>2
<1>6. InStep(u, t)
  BY <1>2, <1>4, <1>5 DEF InStep
<1> QED
  BY <1>1, <1>2, <1>3, <1>4, <1>6 DEF t, n

(* What a visit leads to does not depend on the rest of the memory. *)
LEMMA LeadsKeeps ==
  ASSUME NEW v, NEW y, NEW pl, NEW pt, Leads(v, y, pl, pt),
         NEW y2, y2.act = y.act, y2.last = y.last, y2.base = y.base, y2.count = y.count,
         NEW pl2, NEW pt2,
         Follows(v) => /\ pl2[v.act] = pl[v.act]
                       /\ pt2[<<v.act, SlotOf(v, pl)>>] = pt[<<v.act, SlotOf(v, pl)>>]
  PROVE  Leads(v, y2, pl2, pt2)
<1>1. v.entry[1] = "root" => FromFrame(v, y2)
  BY DEF Leads, FromFrame
<1>2. v.entry[1] = "saved" => IntoElements(v, y2)
  BY DEF Leads, IntoElements
<1>3. ASSUME Follows(v) PROVE FromBlock(v, y2, pl2, pt2)
  <2>1. SlotOf(v, pl2) = SlotOf(v, pl)
    BY <1>3 DEF SlotOf
  <2> QED
    BY <1>3, <2>1 DEF Leads, FromBlock
<1> QED
  BY <1>1, <1>2, <1>3 DEF Leads

(* The visits from which the present one was reached. *)
LEMMA WayFacts ==
  ASSUME MarkTypes, Position, Visiting, NEW w, WayBack(w)
  PROVE  LET n == Len(stack)
         IN  /\ n \in Nat \ {0} /\ DOMAIN w = 1 .. n /\ n \in DOMAIN w
             /\ InStep(w, stack) /\ stack # << >> /\ Head(stack) = w[n].entry
             /\ \A k \in 1 .. n : /\ w[k].entry \in Entries
                                  /\ w[k].entry[1] = "root" <=> k = 1
                                  /\ w[k].entry[1] = "saved" \/ k = 1 \/ Follows(w[k])
             /\ w[n].entry[1] = "saved" <=> pc = "elem"
             /\ \A k \in 1 .. n - 1 : /\ w[k].entry[1] = "saved" <=> w[k+1].entry[1] = "elem"
                                      /\ Leads(w[k], w[k+1], place, ptr)
             /\ Leads(w[n], Here, place, ptr)
             /\ act \in marked /\ act \in Blocks
             /\ \A k \in 1 .. n : Follows(w[k]) => w[k].act \in marked /\ w[k].act # act
<1> DEFINE n == Len(stack)
<1>1. InStep(w, stack) /\ stack # << >> /\ stack \in Seq(Entries)
  BY DEF WayBack, MarkTypes
<1>2. n \in Nat \ {0} /\ DOMAIN w = 1 .. n /\ n \in 1 .. n /\ 1 \in 1 .. n
  BY <1>1, LenProperties, EmptySeq DEF InStep
<1>3. Head(stack) = w[n].entry
  <2>1. stack[1] = w[n - 1 + 1].entry /\ n - 1 + 1 = n
    BY <1>1, <1>2 DEF InStep
  <2> QED
    BY <1>1, <2>1, HeadTailProperties
<1>4. ASSUME NEW k \in 1 .. n
      PROVE  /\ w[k].entry \in Entries /\ (w[k].entry[1] = "root" <=> k = 1)
             /\ w[k].entry[1] = "saved" \/ k = 1 \/ Follows(w[k])
  <2>1. n - k + 1 \in 1 .. n /\ n - (n - k + 1) + 1 = k
    BY <1>2
  <2>2. stack[n - k + 1] = w[k].entry
    <3>1. stack[n - k + 1] = w[n - (n - k + 1) + 1].entry
      BY <1>1, <2>1 DEF InStep
    <3> QED
      BY <2>1, <3>1
  <2>3. w[k].entry \in Entries
    BY <1>1, <2>1, <2>2, ElementOfSeq
  <2>4. w[k].entry[1] = "root" <=> k = 1
    BY DEF WayBack, Kinds
  <2>5. w[k].entry[1] \in {"root", "saved", "fixed", "elem"}
    BY <2>3 DEF Entries
  <2> QED
    BY <2>3, <2>4, <2>5 DEF Follows
<1>5. w[n].entry[1] = "saved" <=> pc = "elem"
  BY <1>2 DEF WayBack, Kinds
<1>6. Leads(w[n], Here, place, ptr)
  BY <1>2 DEF WayBack, Chain, NextIn
<1>7. ASSUME NEW k \in 1 .. n - 1
      PROVE  /\ w[k].entry[1] = "saved" <=> w[k+1].entry[1] = "elem"
             /\ Leads(w[k], w[k+1], place, ptr)
  <2>1. k \in 1 .. n /\ k # n
    BY <1>2
  <2> HIDE DEF n
  <2> QED
    BY <2>1 DEF WayBack, Kinds, Chain, NextIn, n
<1>8. act \in marked /\ act \in Blocks
  BY DEF Position, MarkTypes
<1>9. \A k \in 1 .. n : Follows(w[k]) => w[k].act \in marked /\ w[k].act # act
  BY <1>2 DEF WayBack, Once, OnWay
<1> HIDE DEF n
<1>10. \A k \in 1 .. n : /\ w[k].entry \in Entries
                         /\ w[k].entry[1] = "root" <=> k = 1
                         /\ w[k].entry[1] = "saved" \/ k = 1 \/ Follows(w[k])
  BY <1>4
<1>11. \A k \in 1 .. n - 1 : /\ w[k].entry[1] = "saved" <=> w[k+1].entry[1] = "elem"
                             /\ Leads(w[k], w[k+1], place, ptr)
  BY <1>7
<1> QED
  BY <1>1, <1>2, <1>3, <1>5, <1>6, <1>8, <1>9, <1>10, <1>11 DEF n

(* Marking more keeps what has been scanned. *)
LEMMA ScannedKeeps ==
  ASSUME NEW mk, NEW mk2, mk \subseteq mk2, UNCHANGED <<root, graph>>
  PROVE  /\ \A b, e, p : Scanned(b, e, p, mk) => Scanned(b, e, p, mk2)
         /\ \A b : AllScanned(b, mk) => AllScanned(b, mk2)
         /\ \A a, d, e : FramesScanned(a, d, e, mk) => FramesScanned(a, d, e, mk2)
BY DEF Scanned, AllScanned, FramesScanned, Seen

-----------------------------------------------------------------------------
(* Steps inside a block: the stack, the pointers and the marks stay. *)
LEMMA SameWay ==
  ASSUME MarkTypes, Position, Visiting, NEW w, WayBack(w),
         Visiting', UNCHANGED <<stack, act, last, marked, ptr, root, graph>>,
         pc' = "elem" <=> pc = "elem",
         \A b \in Blocks : b # act => place'[b] = place[b],
         place'[act] = Start(act) \/ pc' \in {"fixed", "elem"},
         pc' = "return" => AllScanned(act, marked),
         Leads(w[Len(stack)], Here', place, ptr)
  PROVE  WayBack(w)'
<1> DEFINE n == Len(stack)
<1>1. /\ n \in Nat \ {0} /\ DOMAIN w = 1 .. n /\ InStep(w, stack) /\ stack # << >>
      /\ \A k \in 1 .. n - 1 : Leads(w[k], w[k+1], place, ptr)
      /\ act \in marked /\ marked \subseteq Blocks
      /\ \A k \in 1 .. n : Follows(w[k]) => w[k].act \in marked /\ w[k].act # act
  BY WayFacts DEF MarkTypes
<1>2. \A k \in 1 .. n : Follows(w[k]) =>
        place'[w[k].act] = place[w[k].act] /\ SlotOf(w[k], place') = SlotOf(w[k], place)
  BY <1>1 DEF SlotOf
<1>3. InStep(w, stack)' /\ (Visiting <=> stack # << >>)'
  BY <1>1 DEF InStep
<1>4. Kinds(w, Len(stack), pc)'
  BY DEF WayBack, Kinds
<1>5. Chain(w, Len(stack), Here, place, ptr)'
  <2>1. SUFFICES ASSUME NEW k \in 1 .. n
                 PROVE  Leads(w[k], NextIn(w, n, Here', k), place', ptr)
    BY DEF Chain, Leads, FromBlock, FromFrame, IntoElements
  <2>2. Leads(w[k], NextIn(w, n, Here', k), place, ptr)
    <3>1. k # n => k \in 1 .. n - 1
      BY <1>1, <2>1
    <3> HIDE DEF n
    <3> QED
      BY <1>1, <3>1 DEF NextIn, n
  <2>3. Follows(w[k]) => place'[w[k].act] = place[w[k].act]
    BY <1>2, <2>1
  <2> HIDE DEF n
  <2> QED
    BY <2>2, <2>3, LeadsKeeps
<1>6. Once(w, Len(stack), marked)' /\ ~OnWay(w, act)'
  BY DEF WayBack, Once, OnWay
<1>7. PointersKept(w, place, ptr)'
  <2>1. ASSUME NEW b \in Blocks, NEW s \in Slots(b), ptr[<<b, s>>] # graph[<<b, s>>]
        PROVE  \E k \in DOMAIN w : Follows(w[k]) /\ w[k].act = b /\ SlotOf(w[k], place') = s
    <3>1. PICK k \in DOMAIN w : Follows(w[k]) /\ w[k].act = b /\ SlotOf(w[k], place) = s
      BY <2>1 DEF WayBack, PointersKept
    <3>2. SlotOf(w[k], place') = s
      BY <1>1, <1>2, <3>1
    <3> QED
      BY <3>1, <3>2
  <2> QED
    BY <2>1 DEF PointersKept
<1>8. PlacesKept(w)'
  BY <1>1 DEF WayBack, PlacesKept, OnWay, Start
<1>9. WayScanned(w)'
  <2>1. \A k \in 1 .. n : ScannedBefore(w[k], place', marked)
    BY <1>1, <1>2 DEF WayBack, WayScanned, ScannedBefore
  <2> QED
    BY <1>1, <2>1 DEF WayScanned, ScannedBefore, Scanned, FramesScanned
<1>10. RestScanned(w)'
  <2>1. ASSUME NEW b \in marked
        PROVE  (AllScanned(b, marked) \/ OnWay(w, b)
                  \/ (b = act /\ pc \in {"enter", "wild", "fixed", "elem"}))'
    <3>1. AllScanned(b, marked) => AllScanned(b, marked)'
      BY DEF AllScanned
    <3>2. OnWay(w, b) => OnWay(w, b)'
      BY DEF OnWay
    <3>3. b = act => pc' \in {"enter", "wild", "fixed", "elem"} \/ AllScanned(b, marked)'
      BY <3>1 DEF Visiting
    <3> QED
      BY <3>1, <3>2, <3>3 DEF WayBack, RestScanned
  <2> QED
    BY <2>1 DEF RestScanned
<1> QED
  BY <1>3, <1>4, <1>5, <1>6, <1>7, <1>8, <1>9, <1>10 DEF WayBack

(* The last conjunct is the only one about the place in act's table. *)
LEMMA SameVisit ==
  ASSUME MarkInv, Visiting, Visiting',
         UNCHANGED <<stack, act, last, base, count, marked, ptr, root, graph>>,
         pc' = "elem" <=> pc = "elem",
         \A b \in Blocks : b # act => place'[b] = place[b],
         place'[act] = Start(act) \/ pc' \in {"fixed", "elem"},
         pc' = "return" => AllScanned(act, marked),
         MarkTypes', Position'
  PROVE  MarkInv'
<1>1. PICK w : WayBack(w)
  BY DEF MarkInv
<1>2. Leads(w[Len(stack)], Here, place, ptr)
  BY <1>1, WayFacts DEF MarkInv
<1>3. Here' = Here
  BY DEF Here
<1>4. WayBack(w)'
  BY <1>1, <1>2, <1>3, SameWay DEF MarkInv
<1> QED
  BY <1>4 DEF MarkInv

(* At the block: it is not on the way back, and its tag is as it was. *)
LEMMA AtBlock ==
  ASSUME MarkInv, Visiting
  PROVE  /\ act \in marked /\ act \in Blocks
         /\ pc \in {"enter", "wild", "return"} => place[act] = Start(act)
         /\ \A s \in Slots(act) : ptr[<<act, s>>] = graph[<<act, s>>]
<1>1. PICK w : WayBack(w)
  BY DEF MarkInv
<1>2. act \in marked /\ act \in Blocks /\ ~OnWay(w, act)
  BY <1>1 DEF MarkInv, MarkTypes, Position, WayBack
<1>3. pc \in {"enter", "wild", "return"} => place[act] = Start(act)
  BY <1>1, <1>2 DEF WayBack, PlacesKept
<1>4. \A s \in Slots(act) : ptr[<<act, s>>] = graph[<<act, s>>]
  BY <1>1, <1>2 DEF WayBack, PointersKept, OnWay
<1> QED
  BY <1>2, <1>3, <1>4

LEMMA EnterSystemInv == ASSUME MarkInv, EnterSystem PROVE MarkInv'
<1>1. /\ pc = "enter" /\ pc' = "wild" /\ act \in marked /\ place[act] = Start(act)
      /\ UNCHANGED <<act, last, desc, base, count, stack, marked, place, ptr, root, graph>>
  BY AtBlock DEF EnterSystem, Visiting
<1>2. MarkTypes' /\ Position' /\ Visiting /\ Visiting'
  BY <1>1 DEF MarkInv, MarkTypes, Position, Visiting
<1> QED
  BY <1>1, <1>2, SameVisit

LEMMA EnterFixedInv == ASSUME MarkInv, EnterFixed PROVE MarkInv'
<1>1. /\ pc = "enter" /\ pc' = "fixed" /\ act \in Blocks /\ act \in marked
      /\ act \notin System /\ ~IsOpen(act) /\ desc' = <<0, place[act]>> /\ place[act] = Start(act)
      /\ UNCHANGED <<act, last, base, count, stack, marked, place, ptr, root, graph>>
  BY AtBlock DEF EnterFixed, Visiting
<1>2. act \in DOMAIN Fields /\ desc' = <<0, 1>>
  BY <1>1 DEF System, Start
<1>3. Scanned(act, 0, 1, marked)
  <2>1. \A s \in Slots(act) : s[1] = 0 /\ s[2] \in 1 .. Fields[act]
    BY <1>1, <1>2, BlockSlots
  <2> QED
    BY <1>2, <2>1, BlockSlots DEF Scanned
<1>4. Scanned(act, 0, desc[2], marked)'
  BY <1>1, <1>2, <1>3 DEF Scanned
<1>5. desc' = <<0, desc'[2]>> /\ desc'[2] \in 1 .. Fields[act] + 1
  BY <1>2, BlockSlots
<1>6. MarkTypes' /\ Visiting /\ Visiting'
  BY <1>1 DEF MarkInv, MarkTypes, Visiting
<1>7. Position'
  BY <1>1, <1>2, <1>4, <1>5 DEF Position
<1> QED
  BY <1>1, <1>6, <1>7, SameVisit

(* The slot at the place reached, and what has been scanned behind it. *)
LEMMA FieldAt ==
  ASSUME MarkInv, AtField
  PROVE  LET e == IF pc = "fixed" THEN 0 ELSE base
             s == <<e, desc[2]>>
         IN  /\ Visiting /\ act \in DOMAIN Fields /\ desc = <<0, desc[2]>>
             /\ (pc = "elem" <=> IsOpen(act)) /\ Field = <<act, s>>
             /\ s \in Slots(act) /\ Field \in Pointers /\ ptr[Field] = graph[Field]
             /\ desc[2] \in Nat /\ desc[2] + 1 \in 1 .. Fields[act] + 1
             /\ Scanned(act, e, desc[2], marked)
             /\ \A x \in Slots(act) :
                  x[1] < e \/ (x[1] = e /\ x[2] < desc[2] + 1) =>
                    x[1] < e \/ (x[1] = e /\ x[2] < desc[2]) \/ x = s
<1> DEFINE e == IF pc = "fixed" THEN 0 ELSE base
           s == <<e, desc[2]>>
<1>1. /\ pc \in {"fixed", "elem"} /\ Visiting /\ act \in DOMAIN Fields
      /\ desc = <<0, desc[2]>> /\ desc[2] \in 1 .. Fields[act] + 1 /\ desc[2] <= Fields[act]
      /\ Scanned(act, e, desc[2], marked)
      /\ (pc = "elem" <=> IsOpen(act))
  BY OpenIsBlock DEF MarkInv, Position, AtField, Visiting
<1>2. Fields[act] \in Nat /\ desc[2] \in 1 .. Fields[act] /\ act \in Blocks
  BY <1>1, BlockSlots
<1>3. e \in IF IsOpen(act) THEN 1 .. Elems[act] ELSE {0}
  <2>1. CASE pc = "fixed"
    BY <1>1, <2>1
  <2>2. CASE pc = "elem"
    <3>1. PICK w : WayBack(w)
      BY DEF MarkInv
    <3>2. w[Len(stack)].entry[1] = "saved" /\ Leads(w[Len(stack)], Here, place, ptr)
      BY <1>1, <2>2, <3>1, WayFacts DEF MarkInv
    <3>3. IntoElements(w[Len(stack)], Here)
      BY <3>2 DEF Leads
    <3> QED
      BY <1>1, <2>2, <3>3 DEF IntoElements, Here
  <2> QED
    BY <1>1, <2>1, <2>2
<1>4. s \in Slots(act)
  <2>1. s = <<s[1], s[2]>> /\ s[1] = e /\ s[2] = desc[2]
    OBVIOUS
  <2> HIDE DEF s, e
  <2> QED
    BY <1>1, <1>2, <1>3, <2>1, BlockSlots
<1>5. Field = <<act, s>>
  BY DEF Field, SlotAt
<1>6. Field \in Pointers /\ ptr[Field] = graph[Field]
  BY <1>1, <1>2, <1>4, <1>5, PointerOf, AtBlock
<1>7. ASSUME NEW x \in Slots(act), x[1] < e \/ (x[1] = e /\ x[2] < desc[2] + 1)
      PROVE  x[1] < e \/ (x[1] = e /\ x[2] < desc[2]) \/ x = s
  <2>1. x = <<x[1], x[2]>> /\ x[2] \in Nat
    BY <1>1, BlockSlots
  <2> QED
    BY <1>2, <1>7, <2>1
<1>8. desc[2] \in Nat /\ desc[2] + 1 \in 1 .. Fields[act] + 1
  BY <1>2
<1> QED
  BY <1>1, <1>4, <1>5, <1>6, <1>7, <1>8

LEMMA SkipFieldInv == ASSUME MarkInv, SkipField PROVE MarkInv'
<1> DEFINE e == IF pc = "fixed" THEN 0 ELSE base
           s == <<e, desc[2]>>
<1>1. /\ Visiting /\ act \in DOMAIN Fields
      /\ (pc = "elem" <=> IsOpen(act)) /\ pc \in {"fixed", "elem"}
      /\ Field = <<act, s>> /\ ptr[Field] = graph[Field] /\ desc[2] \in Nat
      /\ desc[2] + 1 \in 1 .. Fields[act] + 1 /\ Scanned(act, e, desc[2], marked)
      /\ \A x \in Slots(act) :
           x[1] < e \/ (x[1] = e /\ x[2] < desc[2] + 1) =>
             x[1] < e \/ (x[1] = e /\ x[2] < desc[2]) \/ x = s
  BY FieldAt DEF SkipField, AtField
<1>2. /\ ~Unmarked(ptr[Field]) /\ desc' = <<0, desc[2] + 1>>
      /\ UNCHANGED <<pc, act, last, base, count, stack, marked, place, ptr, root, graph>>
  BY DEF SkipField
<1>3. Scanned(act, e, desc[2] + 1, marked)
  BY <1>1, <1>2 DEF Scanned, Unmarked, Seen
<1>4. /\ pc = "fixed" => Scanned(act, 0, desc[2], marked)'
      /\ pc = "elem" => Scanned(act, base, desc[2], marked)'
  BY <1>2, <1>3 DEF Scanned
<1>5. desc' = <<0, desc'[2]>> /\ desc'[2] \in 1 .. Fields[act] + 1
  BY <1>1, <1>2
<1>6. Position'
  BY <1>1, <1>2, <1>4, <1>5 DEF MarkInv, Position, Visiting
<1>7. MarkTypes' /\ Visiting'
  BY <1>1, <1>2 DEF MarkInv, MarkTypes, Visiting
<1>8. place'[act] = Start(act) \/ pc' \in {"fixed", "elem"}
  BY <1>1, <1>2
<1>9. pc' # "return"
  BY <1>1, <1>2
<1> QED
  BY <1>1, <1>2, <1>6, <1>7, <1>8, <1>9, SameVisit

LEMMA EndFixedInv == ASSUME MarkInv, EndFixed PROVE MarkInv'
<1>1. /\ pc = "fixed" /\ pc' = "return" /\ ~(desc[2] <= Fields[act])
      /\ place' = [place EXCEPT ![act] = 1]
      /\ UNCHANGED <<act, last, desc, base, count, stack, marked, ptr, root, graph>>
  BY DEF EndFixed, AtField
<1>2. /\ act \in DOMAIN Fields /\ ~IsOpen(act) /\ Scanned(act, 0, desc[2], marked)
      /\ desc[2] \in 1 .. Fields[act] + 1 /\ Visiting /\ Visiting'
  BY <1>1 DEF MarkInv, Position, Visiting
<1>3. AllScanned(act, marked)
  <2>1. \A s \in Slots(act) : s[1] = 0 /\ s[2] \in Nat /\ s[2] < desc[2]
    BY <1>1, <1>2, BlockSlots
  <2> QED
    BY <1>2, <2>1 DEF Scanned, AllScanned
<1>4. place \in [Blocks -> Nat] /\ act \in Blocks
  BY <1>2, BlockSlots DEF MarkInv, MarkTypes
<1>5. place'[act] = Start(act) /\ \A b \in Blocks : b # act => place'[b] = place[b]
  BY <1>1, <1>2, <1>4 DEF Start
<1>6. MarkTypes' /\ Position'
  BY <1>1, <1>2, <1>4 DEF MarkInv, MarkTypes, Position, Visiting
<1> QED
  BY <1>1, <1>2, <1>3, <1>5, <1>6, SameVisit

(* The entry on top of the stack while an open array is visited. *)
LEMMA SavedOnTop ==
  ASSUME MarkInv, pc = "elem", NEW w, WayBack(w)
  PROVE  LET v == w[Len(stack)]
         IN  /\ Head(stack) = <<"saved", v.count, v.base, 0>> /\ Head(stack) = v.entry
             /\ v.count \in Nat /\ v.base \in Nat /\ v.act = act /\ v.last = last
             /\ IsOpen(act) /\ act \in DOMAIN Fields /\ Elems[act] \in Nat
             /\ base \in 1 .. Elems[act] /\ count = Elems[act] - base + 1
<1> DEFINE v == w[Len(stack)]
<1>1. Visiting
  BY DEF Visiting
<1>2. /\ v.entry[1] = "saved" /\ Leads(v, Here, place, ptr)
      /\ Head(stack) = v.entry /\ v.entry \in Entries
  BY <1>1, WayFacts DEF MarkInv
<1>3. /\ v.entry = <<"saved", v.count, v.base, 0>> /\ v.act = act /\ v.last = last
      /\ IsOpen(act) /\ base \in 1 .. Elems[act] /\ count = Elems[act] - base + 1
  BY <1>2 DEF Leads, IntoElements, Here
<1> HIDE DEF v
<1>4. v.count \in Nat /\ v.base \in Nat
  <2>1. PICK z \in Nat \X Nat \X Nat : v.entry = <<"saved", z[1], z[2], z[3]>>
    BY <1>2 DEF Entries
  <2>2. v.entry[2] = v.count /\ v.entry[3] = v.base
    BY <1>3
  <2>3. v.entry[2] = z[1] /\ v.entry[3] = z[2]
    BY <2>1
  <2> QED
    BY <2>2, <2>3
<1>5. act \in DOMAIN Fields /\ Elems[act] \in Nat
  BY <1>3, OpenIsBlock, MarkAssumption DEF IsOpen
<1> QED
  BY <1>2, <1>3, <1>4, <1>5 DEF v

LEMMA NextElemInv == ASSUME MarkInv, NextElem PROVE MarkInv'
<1>1. /\ pc = "elem" /\ pc' = "elem" /\ ~(desc[2] <= Fields[act]) /\ count > 1
      /\ count' = count - 1 /\ base' = base + 1 /\ desc' = <<0, Head(stack)[4] + 1>>
      /\ UNCHANGED <<act, last, stack, marked, place, ptr, root, graph>>
      /\ Visiting /\ Visiting'
  BY DEF NextElem, AtField, Visiting
<1>2. PICK w : WayBack(w)
  BY DEF MarkInv
<1> DEFINE v == w[Len(stack)]
<1>3. /\ Head(stack) = <<"saved", v.count, v.base, 0>> /\ IsOpen(act) /\ act \in DOMAIN Fields
      /\ Elems[act] \in Nat /\ base \in 1 .. Elems[act] /\ count = Elems[act] - base + 1
  BY <1>1, <1>2, SavedOnTop
<1>4. desc' = <<0, 1>>
  BY <1>1, <1>3
<1>5. /\ base' \in 1 .. Elems[act] /\ count' = Elems[act] - base' + 1
      /\ base' \in Nat /\ count' \in Nat
  <2>1. base' = base + 1 /\ count' = count - 1 /\ count > 1
    BY <1>1
  <2>2. Elems[act] \in Nat /\ base \in 1 .. Elems[act] /\ count = Elems[act] - base + 1
    BY <1>3
  <2> QED
    BY <2>1, <2>2
<1>6. Scanned(act, base, desc[2], marked) /\ desc[2] \in 1 .. Fields[act] + 1
  BY <1>1 DEF MarkInv, Position
<1>7. Scanned(act, base + 1, 1, marked)
  <2>0. /\ Fields[act] \in Nat
        /\ \A s \in Slots(act) : s[1] \in 1 .. Elems[act] /\ s[2] \in 1 .. Fields[act]
    BY <1>3, BlockSlots
  <2>1. \A s \in Slots(act) : s[1] \in Nat /\ s[2] \in Nat /\ s[2] >= 1 /\ s[2] < desc[2]
    BY <1>1, <1>3, <1>6, <2>0, SMTT(30)
  <2> QED
    BY <1>3, <1>6, <2>1 DEF Scanned
<1>8. Scanned(act, base, desc[2], marked)'
  BY <1>1, <1>4, <1>7 DEF Scanned
<1>9. desc' = <<0, desc'[2]>> /\ desc'[2] \in 1 .. Fields[act] + 1
  BY <1>3, <1>4, BlockSlots
<1>10. MarkTypes' /\ Position'
  BY <1>1, <1>3, <1>5, <1>8, <1>9 DEF MarkInv, MarkTypes, Position, Visiting
<1>11. Leads(v, Here', place, ptr)
  <2>1. Leads(v, Here, place, ptr) /\ v.entry[1] = "saved"
    BY <1>1, <1>2, WayFacts DEF MarkInv
  <2>2. IntoElements(v, Here')
    BY <1>1, <1>5, <2>1 DEF Leads, IntoElements, Here
  <2> QED
    BY <2>1, <2>2 DEF Leads, Follows
<1>12. WayBack(w)'
  BY <1>1, <1>2, <1>10, <1>11, SameWay DEF MarkInv
<1> QED
  BY <1>10, <1>12 DEF MarkInv

-----------------------------------------------------------------------------
(* Steps into a block. *)
LEMMA FollowRootInv == ASSUME MarkInv, FollowRoot PROVE MarkInv'
<1> DEFINE p == <<act[2], desc[1], base, desc[2]>>
<1>1. /\ pc = "root" /\ pc' = "enter" /\ desc[2] <= PartFields(act[2], desc[1])
      /\ Unmarked(root[p]) /\ marked' = marked \cup {root[p]} /\ act' = root[p] /\ last' = act
      /\ stack' = <<<<"root", desc>>>> \o stack
      /\ UNCHANGED <<desc, base, count, place, ptr, root, graph>>
  BY DEF FollowRoot, AtRoot, RootPointer
<1>2. /\ stack = << >> /\ FramePosition(act, desc, base, count)
      /\ FramesScanned(act, desc, base, marked)
      /\ \A b \in Blocks : place[b] = Start(b) /\ \A s \in Slots(b) : ptr[<<b, s>>] = graph[<<b, s>>]
      /\ \A b \in marked : AllScanned(b, marked)
  BY <1>1, Idle
<1>3. /\ p \in FramePointers /\ FramePosition(act, <<desc[1], desc[2] + 1>>, base, count)
      /\ \A q \in FramePointers : Before(q, act[2], desc[1], base, desc[2] + 1) =>
           Before(q, act[2], desc[1], base, desc[2]) \/ q = p
  BY <1>1, <1>2, FrameStep
<1>4. /\ root[p] \in Blocks /\ marked \subseteq marked' /\ marked' \subseteq Blocks
      /\ act' \in marked'
  BY <1>1, <1>3 DEF MarkInv, MarkTypes, Unmarked
<1>5. /\ desc \in Nat \X Nat /\ <<"root", desc>> \in Entries
  <2>1. desc = <<desc[1], desc[2]>> /\ desc[1] \in Nat /\ desc[2] \in Nat
    <3>1. act \in FrameIds /\ act[2] \in DOMAIN Frames
      BY <1>2 DEF FramePosition, FrameIds
    <3>2. desc[1] \in 0 .. Len(Frames[act[2]].open) /\ desc = <<desc[1], desc[2]>>
      BY <1>2 DEF FramePosition
    <3>3. desc[1] \in Nat /\ PartFields(act[2], desc[1]) \in Nat
      BY <3>1, <3>2, FrameNumbers
    <3>4. desc[2] \in 1 .. PartFields(act[2], desc[1]) + 1
      BY <1>2 DEF FramePosition
    <3> QED
      BY <3>2, <3>3, <3>4
  <2> QED
    BY <2>1 DEF Entries
<1> HIDE DEF p
<1>6. PICK v : v = [entry |-> <<"root", desc>>, act |-> act, last |-> last, base |-> base,
                    count |-> count]
  OBVIOUS
<1>7. PICK w : w = [k \in {1} |-> v]
  OBVIOUS
<1>8. DOMAIN w = {1} /\ w[1] = v /\ v.entry = <<"root", desc>> /\ v.entry[1] = "root"
  BY <1>6, <1>7
<1>9. /\ stack' = <<v.entry>> /\ stack' \in Seq(Entries) /\ Len(stack') = 1 /\ stack' # << >>
      /\ stack'[1] = v.entry
  BY <1>1, <1>2, <1>5, <1>8
<1>10. MarkTypes'
  BY <1>1, <1>4, <1>9 DEF MarkInv, MarkTypes
<1>11. Position'
  BY <1>1, <1>4 DEF Position, Visiting
<1>12. InStep(w, stack)' /\ (Visiting <=> stack # << >>)'
  BY <1>1, <1>8, <1>9 DEF InStep, Visiting
<1>13. Kinds(w, Len(stack), pc)'
  BY <1>1, <1>8, <1>9 DEF Kinds
<1>14. ~Follows(v)
  BY <1>8 DEF Follows
<1>15. Chain(w, Len(stack), Here, place, ptr)'
  <2>1. /\ v.act = act /\ v.base = base /\ v.count = count /\ v.entry[2] = desc
        /\ v.entry = <<"root", v.entry[2]>>
    BY <1>6
  <2>2. FromFrame(v, Here')
    BY <1>1, <1>3, <2>1 DEF FromFrame, Here
  <2>3. Leads(v, Here', place', ptr')
    BY <1>8, <1>14, <2>2 DEF Leads
  <2>4. Leads(v, Here, place, ptr)'
    BY <1>1, <1>8, <1>14, <2>2 DEF Leads, FromFrame
  <2> QED
    BY <1>8, <1>9, <2>4 DEF Chain, NextIn
<1>16. Once(w, Len(stack), marked)' /\ ~OnWay(w, act)'
  BY <1>8, <1>9, <1>14 DEF Once, OnWay
<1>17. PointersKept(w, place, ptr)' /\ PlacesKept(w)'
  BY <1>1, <1>2 DEF PointersKept, PlacesKept
<1>18. WayScanned(w)'
  <2>1. FramesScanned(act, <<desc[1], desc[2] + 1>>, base, marked')
    BY <1>1, <1>2, <1>3 DEF FramesScanned, Seen
  <2>2. ScannedBefore(v, place', marked')
    BY <1>6, <1>8, <1>14, <2>1 DEF ScannedBefore
  <2> QED
    BY <1>1, <1>8, <2>2 DEF WayScanned, ScannedBefore, FramesScanned, Scanned
<1>19. RestScanned(w)'
  <2>1. \A b \in marked : AllScanned(b, marked')
    BY <1>1, <1>2, <1>4, ScannedKeeps
  <2> QED
    BY <1>1, <2>1 DEF RestScanned, AllScanned
<1>20. WayBack(w)'
  BY <1>12, <1>13, <1>15, <1>16, <1>17, <1>18, <1>19 DEF WayBack
<1> QED
  BY <1>10, <1>11, <1>20 DEF MarkInv

LEMMA EnterOpenInv == ASSUME MarkInv, EnterOpen PROVE MarkInv'
<1>1. /\ pc = "enter" /\ pc' = "elem" /\ IsOpen(act) /\ Visiting /\ Visiting'
      /\ stack' = <<<<"saved", count, base, place[act]>>>> \o stack
      /\ count' = Elems[act] /\ base' = 1 /\ desc' = <<0, place[act] + 1>>
      /\ UNCHANGED <<act, last, marked, place, ptr, root, graph>>
  BY DEF EnterOpen, Visiting
<1>2. place[act] = 0 /\ act \in marked /\ act \in DOMAIN Fields
  BY <1>1, AtBlock, OpenIsBlock DEF Start
<1>3. Elems[act] \in Nat \ {0} /\ Fields[act] \in Nat
  BY <1>1, <1>2, BlockSlots
<1>4. PICK w : WayBack(w)
  BY DEF MarkInv
<1> DEFINE n == Len(stack)
<1>5. /\ n \in Nat \ {0} /\ DOMAIN w = 1 .. n /\ InStep(w, stack)
      /\ \A k \in 1 .. n : /\ w[k].entry[1] = "root" <=> k = 1
      /\ ~(w[n].entry[1] = "saved")
      /\ \A k \in 1 .. n - 1 : /\ w[k].entry[1] = "saved" <=> w[k+1].entry[1] = "elem"
                               /\ Leads(w[k], w[k+1], place, ptr)
      /\ Leads(w[n], Here, place, ptr)
  BY <1>1, <1>4, WayFacts DEF MarkInv
<1>6. PICK v : v = [entry |-> <<"saved", count, base, 0>>, act |-> act, last |-> last,
                    base |-> base, count |-> count]
  OBVIOUS
<1>7. /\ v.entry = <<"saved", v.count, v.base, 0>> /\ v.entry \in Entries /\ ~Follows(v)
      /\ v.entry[1] = "saved" /\ v.act = act /\ v.last = last
      /\ v.base = base /\ v.count = count /\ stack' = <<v.entry>> \o stack
  <2>1. base \in Nat /\ count \in Nat
    BY DEF MarkInv, MarkTypes
  <2>2. <<count, base, 0>> \in Nat \X Nat \X Nat
    BY <2>1
  <2>3. v.entry \in Entries
    BY <1>6, <2>2 DEF Entries
  <2> QED
    BY <1>1, <1>2, <1>6, <2>3 DEF Follows
<1>8. PICK u : u = Grow(w, n, v)
  OBVIOUS
<1>9. /\ DOMAIN u = 1 .. n + 1 /\ stack' \in Seq(Entries) /\ stack' # << >>
      /\ Len(stack') = n + 1 /\ InStep(u, stack') /\ u[n+1] = v
      /\ \A k \in 1 .. n : u[k] = w[k]
  <2>1. stack \in Seq(Entries)
    BY DEF MarkInv, MarkTypes
  <2>2. /\ stack' \in Seq(Entries) /\ stack' # << >>
        /\ OneMore(stack', v.entry, stack)
    BY <1>7, <2>1, Pushed
  <2>3. InStep(w, stack) /\ u = Grow(w, Len(stack), v)
    BY <1>5, <1>8
  <2> HIDE DEF n
  <2>4. /\ DOMAIN Grow(w, Len(stack), v) = 1 .. Len(stack) + 1
        /\ InStep(Grow(w, Len(stack), v), stack') /\ Grow(w, Len(stack), v)[Len(stack)+1] = v
        /\ \A k \in 1 .. Len(stack) : Grow(w, Len(stack), v)[k] = w[k]
    BY <2>2, <2>3, Grown
  <2> QED
    BY <2>2, <2>3, <2>4 DEF n, OneMore
<1> HIDE DEF n
<1>10. \A k \in 1 .. n + 1 : k \in 1 .. n \/ k = n + 1
  BY <1>5
<1>11. MarkTypes'
  BY <1>1, <1>3, <1>9 DEF MarkInv, MarkTypes
<1>12. Position'
  <2>1. desc' = <<0, 1>> /\ desc'[2] \in 1 .. Fields[act] + 1
    BY <1>1, <1>2, <1>3
  <2>2. \A s \in Slots(act) : s[1] \in Nat /\ s[2] \in Nat /\ s[1] >= 1 /\ s[2] >= 1
    BY <1>1, <1>2, <1>3, BlockSlots
  <2>3. Scanned(act, base, desc[2], marked)'
    BY <1>1, <2>1, <2>2 DEF Scanned
  <2> QED
    BY <1>1, <1>2, <2>1, <2>3 DEF Position
<1>13. InStep(u, stack)' /\ (Visiting <=> stack # << >>)'
  BY <1>1, <1>9 DEF InStep
<1>14. Kinds(u, n + 1, pc')
  <2>1. ASSUME NEW k \in 1 .. n + 1
        PROVE  /\ u[k].entry[1] = "root" <=> k = 1
               /\ u[k].entry[1] = "saved" <=>
                    (IF k = n + 1 THEN pc' ELSE u[k+1].entry[1]) = "elem"
    <3>1. CASE k = n + 1
      BY <1>1, <1>5, <1>7, <1>9, <3>1
    <3>2. CASE k = n
      BY <1>5, <1>7, <1>9, <3>2
    <3>3. CASE k \in 1 .. n - 1
      <4>1. k + 1 \in 1 .. n /\ k \in 1 .. n /\ k # n + 1
        BY <1>5, <3>3
      <4> QED
        BY <1>5, <1>9, <3>3, <4>1
    <3> QED
      BY <1>5, <3>1, <3>2, <3>3
  <2> QED
    BY <2>1 DEF Kinds
<1>15. Chain(u, n + 1, Here', place', ptr')
  <2>1. ASSUME NEW k \in 1 .. n + 1 PROVE Leads(u[k], NextIn(u, n + 1, Here', k), place, ptr)
    <3>1. CASE k = n + 1
      <4>1. 1 \in 1 .. Elems[act] /\ Elems[act] = Elems[act] - 1 + 1
        BY <1>3
      <4>2. IntoElements(v, Here')
        BY <1>1, <1>7, <4>1 DEF IntoElements, Here
      <4> QED
        BY <1>7, <1>9, <3>1, <4>2 DEF Leads, NextIn
    <3>2. CASE k = n
      <4>1. Leads(w[n], v, place, ptr)
        <5>1. /\ v.act = Here.act /\ v.last = Here.last /\ v.base = Here.base
              /\ v.count = Here.count
          BY <1>7 DEF Here
        <5> QED
          BY <1>5, <5>1, LeadsKeeps
      <4> QED
        BY <1>5, <1>9, <3>2, <4>1 DEF NextIn
    <3>3. CASE k \in 1 .. n - 1
      <4>1. k + 1 \in 1 .. n /\ k \in 1 .. n /\ k # n + 1
        BY <1>5, <3>3
      <4> QED
        BY <1>5, <1>9, <3>3, <4>1 DEF NextIn
    <3> QED
      BY <1>5, <3>1, <3>2, <3>3
  <2> QED
    BY <1>1, <2>1 DEF Chain
<1>16. \A k \in DOMAIN u : Follows(u[k]) => k \in DOMAIN w /\ u[k] = w[k]
  BY <1>5, <1>7, <1>9, <1>10
<1>17. \A k \in DOMAIN w : k \in DOMAIN u /\ u[k] = w[k]
  BY <1>5, <1>9
<1>18. Once(u, n + 1, marked)
  BY <1>4, <1>5, <1>9, <1>16 DEF WayBack, Once, n
<1>19. \A b : OnWay(u, b) <=> OnWay(w, b)
  BY <1>16, <1>17 DEF OnWay
<1>20. PointersKept(u, place, ptr)
  <2>1. PointersKept(w, place, ptr)
    BY <1>4 DEF WayBack
  <2>2. ASSUME NEW b \in Blocks, NEW s \in Slots(b), ptr[<<b, s>>] # graph[<<b, s>>]
        PROVE  \E k \in DOMAIN u : Follows(u[k]) /\ u[k].act = b /\ SlotOf(u[k], place) = s
    <3>1. PICK k \in DOMAIN w : Follows(w[k]) /\ w[k].act = b /\ SlotOf(w[k], place) = s
      BY <2>1, <2>2 DEF PointersKept
    <3>2. k \in DOMAIN u /\ u[k] = w[k]
      BY <1>17
    <3> QED
      BY <3>1, <3>2
  <2> QED
    BY <2>2 DEF PointersKept
<1>21. PlacesKept(u)'
  BY <1>1, <1>4, <1>19 DEF WayBack, PlacesKept, OnWay
<1>22. WayScanned(u)'
  <2>1. \A k \in DOMAIN w : ScannedBefore(w[k], place, marked)
    BY <1>4 DEF WayBack, WayScanned
  <2>2. ScannedBefore(v, place, marked)
    BY <1>7 DEF ScannedBefore
  <2>3. \A k \in DOMAIN u : ScannedBefore(u[k], place, marked)
    BY <1>5, <1>9, <1>10, <2>1, <2>2
  <2> QED
    BY <1>1, <2>3 DEF WayScanned, ScannedBefore, Scanned, FramesScanned
<1>23. RestScanned(u)'
  BY <1>1, <1>4, <1>19 DEF WayBack, RestScanned, AllScanned, OnWay
<1>24. Kinds(u, Len(stack), pc)' /\ Chain(u, Len(stack), Here, place, ptr)'
  BY <1>1, <1>9, <1>14, <1>15 DEF Kinds, Chain, Leads, FromFrame, FromBlock, IntoElements
<1>25. Once(u, Len(stack), marked)' /\ PointersKept(u, place, ptr)' /\ ~OnWay(u, act)'
  <2>1. Once(u, Len(stack), marked)'
    BY <1>1, <1>9, <1>18 DEF Once
  <2>2. PointersKept(u, place, ptr)'
    BY <1>1, <1>20 DEF PointersKept
  <2>3. ~OnWay(u, act)
    BY <1>1, <1>4, <1>19 DEF WayBack
  <2>4. ~OnWay(u, act)'
    BY <1>1, <2>3 DEF OnWay
  <2> QED
    BY <2>1, <2>2, <2>4
<1>26. WayBack(u)'
  BY <1>13, <1>21, <1>22, <1>23, <1>24, <1>25 DEF WayBack
<1> QED
  BY <1>11, <1>12, <1>26 DEF MarkInv

(* What led to a block is a frame or a marked block. *)
LEMMA LastKnown ==
  ASSUME MarkInv, Visiting
  PROVE  last \in FrameIds \/ last \in marked
<1>1. PICK w : WayBack(w)
  BY DEF MarkInv
<1> DEFINE n == Len(stack)
<1>2. /\ n \in Nat \ {0}
      /\ \A k \in 1 .. n : /\ w[k].entry[1] = "root" <=> k = 1
                           /\ w[k].entry[1] = "saved" \/ k = 1 \/ Follows(w[k])
                           /\ Follows(w[k]) => w[k].act \in marked
      /\ \A k \in 1 .. n - 1 : /\ w[k].entry[1] = "saved" <=> w[k+1].entry[1] = "elem"
                               /\ Leads(w[k], w[k+1], place, ptr)
      /\ Leads(w[n], Here, place, ptr)
  BY <1>1, WayFacts DEF MarkInv
<1> HIDE DEF n
<1>3. ASSUME NEW k \in 1 .. n, NEW y, Leads(w[k], y, place, ptr), w[k].entry[1] # "saved"
      PROVE  y.last \in FrameIds \/ y.last \in marked
  BY <1>2, <1>3 DEF Leads, FromFrame, FromBlock, FramePosition
<1>4. Here.last = last
  BY DEF Here
<1>5. CASE w[n].entry[1] # "saved"
  BY <1>2, <1>3, <1>4, <1>5
<1>6. CASE w[n].entry[1] = "saved"
  <2>1. w[n].last = last
    BY <1>2, <1>4, <1>6 DEF Leads, IntoElements
  <2>2. n - 1 \in 1 .. n - 1 /\ n - 1 \in 1 .. n /\ n - 1 + 1 = n
    BY <1>2, <1>6
  <2>3. w[n-1].entry[1] # "saved" /\ Leads(w[n-1], w[n], place, ptr)
    BY <1>2, <1>6, <2>2
  <2> QED
    BY <1>3, <2>1, <2>2, <2>3
<1> QED
  BY <1>5, <1>6

LEMMA FollowFieldInv == ASSUME MarkInv, FollowField PROVE MarkInv'
<1> DEFINE e == IF pc = "fixed" THEN 0 ELSE base
           s == <<e, desc[2]>>
           t == ptr[Field]
           n == Len(stack)
<1>1. /\ pc \in {"fixed", "elem"} /\ Visiting /\ act \in DOMAIN Fields
      /\ (pc = "elem" <=> IsOpen(act))
      /\ Field = <<act, s>> /\ s \in Slots(act) /\ Field \in Pointers /\ t = graph[Field]
      /\ desc[2] \in Nat /\ Scanned(act, e, desc[2], marked)
      /\ \A x \in Slots(act) :
           x[1] < e \/ (x[1] = e /\ x[2] < desc[2] + 1) =>
             x[1] < e \/ (x[1] = e /\ x[2] < desc[2]) \/ x = s
  BY FieldAt DEF FollowField, AtField
<1>2. /\ t # NIL /\ t \notin marked
      /\ marked' = marked \cup {t} /\ ptr' = [ptr EXCEPT ![Field] = last]
      /\ place' = [place EXCEPT ![act] = desc[2]] /\ last' = act /\ act' = t
      /\ stack' = <<<<pc>>>> \o stack /\ pc' = "enter"
      /\ UNCHANGED <<desc, base, count, root, graph>>
  BY DEF FollowField, Unmarked
<1>3. /\ MarkTypes /\ graph[Field] \in Blocks \cup {NIL} /\ t \in Blocks
      /\ act \in marked /\ act \in Blocks /\ t # act
  BY <1>1, <1>2, AtBlock DEF MarkInv, MarkTypes
<1>4. last \in Blocks \cup {NIL} \cup FrameIds /\ t # last
  <2>1. \A x \in FrameIds : x \notin Blocks
    BY MarkAssumption DEF FrameIds
  <2>2. marked \subseteq Blocks
    BY <1>3 DEF MarkTypes
  <2> QED
    BY <1>1, <1>2, <1>3, <2>1, <2>2, LastKnown
<1> HIDE DEF t
<1>5. /\ place' \in [Blocks -> Nat] /\ place'[act] = desc[2]
      /\ \A b \in Blocks : b # act => place'[b] = place[b]
  BY <1>1, <1>2, <1>3 DEF MarkTypes
<1>6. /\ ptr' \in [Pointers -> Blocks \cup {NIL} \cup FrameIds] /\ ptr'[<<act, s>>] = last
      /\ \A q \in Pointers : q # <<act, s>> => ptr'[q] = ptr[q]
  BY <1>1, <1>2, <1>3, <1>4 DEF MarkTypes
<1>7. PICK w : WayBack(w)
  BY DEF MarkInv
<1>8. /\ n \in Nat \ {0} /\ DOMAIN w = 1 .. n /\ InStep(w, stack)
      /\ \A k \in 1 .. n : (w[k].entry[1] = "root" <=> k = 1)
      /\ w[n].entry[1] = "saved" <=> pc = "elem"
      /\ \A k \in 1 .. n - 1 : /\ w[k].entry[1] = "saved" <=> w[k+1].entry[1] = "elem"
                               /\ Leads(w[k], w[k+1], place, ptr)
      /\ Leads(w[n], Here, place, ptr)
      /\ \A k \in 1 .. n : Follows(w[k]) => w[k].act \in marked /\ w[k].act # act
  BY <1>1, <1>7, WayFacts DEF MarkInv
<1>9. PICK v : v = [entry |-> <<pc>>, act |-> act, last |-> last, base |-> base, count |-> count]
  OBVIOUS
<1>10. /\ v.entry = <<pc>> /\ v.entry[1] = pc /\ v.entry = <<v.entry[1]>>
       /\ v.act = act /\ v.last = last /\ v.base = base /\ v.count = count
       /\ v.entry \in Entries /\ Follows(v) /\ stack' = <<v.entry>> \o stack
  BY <1>1, <1>2, <1>9 DEF Entries, Follows
<1>11. PICK u : u = Grow(w, n, v)
  OBVIOUS
<1>12. /\ DOMAIN u = 1 .. n + 1 /\ stack' \in Seq(Entries) /\ stack' # << >>
       /\ Len(stack') = n + 1 /\ InStep(u, stack') /\ u[n+1] = v
       /\ \A k \in 1 .. n : u[k] = w[k]
  <2>1. stack \in Seq(Entries)
    BY DEF MarkInv, MarkTypes
  <2>2. stack' \in Seq(Entries) /\ stack' # << >> /\ OneMore(stack', v.entry, stack)
    BY <1>10, <2>1, Pushed
  <2>3. InStep(w, stack) /\ u = Grow(w, Len(stack), v)
    BY <1>8, <1>11
  <2> HIDE DEF n
  <2>4. /\ DOMAIN Grow(w, Len(stack), v) = 1 .. Len(stack) + 1
        /\ InStep(Grow(w, Len(stack), v), stack') /\ Grow(w, Len(stack), v)[Len(stack)+1] = v
        /\ \A k \in 1 .. Len(stack) : Grow(w, Len(stack), v)[k] = w[k]
    BY <2>2, <2>3, Grown
  <2> QED
    BY <2>2, <2>3, <2>4 DEF n, OneMore
<1> HIDE DEF n
<1>13. \A k \in 1 .. n + 1 : k \in 1 .. n - 1 \/ k = n \/ k = n + 1
  BY <1>8
<1>14. MarkTypes'
  BY <1>2, <1>3, <1>5, <1>6, <1>12 DEF MarkTypes
<1>15. Position'
  BY <1>2 DEF Position, Visiting
<1>16. SlotOf(v, place') = s
  BY <1>1, <1>5, <1>10 DEF SlotOf
<1>17. ASSUME NEW k \in 1 .. n, Follows(w[k])
       PROVE  /\ w[k].act \in Blocks /\ w[k].act # act /\ place'[w[k].act] = place[w[k].act]
              /\ SlotOf(w[k], place') = SlotOf(w[k], place)
  BY <1>3, <1>5, <1>8, <1>17 DEF MarkTypes, SlotOf
<1>18. Kinds(u, n + 1, pc')
  <2>1. ASSUME NEW k \in 1 .. n + 1
        PROVE  /\ u[k].entry[1] = "root" <=> k = 1
               /\ u[k].entry[1] = "saved" <=>
                    (IF k = n + 1 THEN pc' ELSE u[k+1].entry[1]) = "elem"
    <3>1. CASE k = n + 1
      BY <1>1, <1>2, <1>8, <1>10, <1>12, <3>1
    <3>2. CASE k = n
      BY <1>8, <1>10, <1>12, <3>2
    <3>3. CASE k \in 1 .. n - 1
      <4>1. k + 1 \in 1 .. n /\ k \in 1 .. n /\ k # n + 1
        BY <1>8, <3>3
      <4> QED
        BY <1>8, <1>12, <3>3, <4>1
    <3> QED
      BY <1>13, <3>1, <3>2, <3>3
  <2> QED
    BY <2>1 DEF Kinds
<1>19. ASSUME NEW k \in 1 .. n, NEW y, Leads(w[k], y, place, ptr), NEW z,
              z.act = y.act, z.last = y.last, z.base = y.base, z.count = y.count
       PROVE  Leads(w[k], z, place', ptr')
  <2>1. ASSUME Follows(w[k])
        PROVE  /\ place'[w[k].act] = place[w[k].act]
               /\ ptr'[<<w[k].act, SlotOf(w[k], place)>>] = ptr[<<w[k].act, SlotOf(w[k], place)>>]
    <3>1. /\ w[k].act \in Blocks /\ w[k].act # act /\ place'[w[k].act] = place[w[k].act]
      BY <1>17, <2>1
    <3>2. SlotOf(w[k], place) \in Slots(w[k].act)
      BY <1>19, <2>1 DEF Leads, FromBlock
    <3>3. <<w[k].act, SlotOf(w[k], place)>> \in Pointers
      BY <3>1, <3>2, PointerOf
    <3> QED
      BY <1>6, <3>1, <3>3
  <2> QED
    BY <1>19, <2>1, LeadsKeeps
<1>20. Chain(u, n + 1, Here', place', ptr')
  <2>1. ASSUME NEW k \in 1 .. n + 1 PROVE Leads(u[k], NextIn(u, n + 1, Here', k), place', ptr')
    <3>1. CASE k = n + 1
      <4>1. FromBlock(v, Here', place', ptr')
        <5>1. Here'.act = t /\ Here'.last = act /\ Here'.base = base /\ Here'.count = count
          BY <1>2 DEF Here
        <5>2. graph[<<act, s>>] = t /\ t # last
          BY <1>1, <1>4
        <5> QED
          BY <1>1, <1>6, <1>10, <1>16, <5>1, <5>2 DEF FromBlock
      <4>2. Leads(v, Here', place', ptr')
        BY <1>1, <1>10, <4>1 DEF Leads
      <4> QED
        BY <1>12, <3>1, <4>2 DEF NextIn
    <3>2. CASE k = n
      <4>1. Leads(w[n], v, place', ptr')
        <5>1. /\ v.act = Here.act /\ v.last = Here.last /\ v.base = Here.base
              /\ v.count = Here.count /\ n \in 1 .. n
          BY <1>8, <1>10 DEF Here
        <5> QED
          BY <1>8, <1>19, <5>1
      <4> QED
        BY <1>8, <1>12, <3>2, <4>1 DEF NextIn
    <3>3. CASE k \in 1 .. n - 1
      <4>1. k + 1 \in 1 .. n /\ k \in 1 .. n /\ k # n + 1
        BY <1>8, <3>3
      <4>2. Leads(w[k], w[k+1], place', ptr')
        BY <1>8, <1>19, <3>3, <4>1
      <4> QED
        BY <1>12, <4>1, <4>2 DEF NextIn
    <3> QED
      BY <1>13, <3>1, <3>2, <3>3
  <2> QED
    BY <2>1 DEF Chain
<1>21. \A k \in 1 .. n : k \in DOMAIN u /\ u[k] = w[k] /\ k # n + 1
  BY <1>8, <1>12
<1>22. n + 1 \in DOMAIN u /\ u[n+1] = v /\ \A k \in DOMAIN u : k \in 1 .. n \/ k = n + 1
  BY <1>8, <1>12, <1>13
<1>23. Once(u, n + 1, marked')
  <2>1. Once(w, n, marked)
    BY <1>7 DEF WayBack, n
  <2>2. \A k \in 1 .. n + 1 : Follows(u[k]) => u[k].act \in marked'
    BY <1>2, <1>3, <1>8, <1>10, <1>12, <1>21, <1>22
  <2>3. ASSUME NEW j \in 1 .. n + 1, NEW k \in 1 .. n + 1, Follows(u[j]), Follows(u[k]),
               u[j].act = u[k].act
        PROVE  j = k
    BY <1>8, <1>10, <1>12, <1>21, <1>22, <2>1, <2>3 DEF Once
  <2> QED
    BY <2>2, <2>3 DEF Once
<1>24. \A b : OnWay(u, b) <=> (OnWay(w, b) \/ b = act)
  <2>1. \A k \in DOMAIN w : k \in DOMAIN u /\ u[k] = w[k]
    BY <1>8, <1>21
  <2>2. \A k \in DOMAIN u : (k \in DOMAIN w /\ u[k] = w[k]) \/ u[k] = v
    BY <1>8, <1>21, <1>22
  <2> QED
    BY <1>10, <1>22, <2>1, <2>2 DEF OnWay
<1>25. ~OnWay(u, t)
  <2>1. \A b : OnWay(w, b) => b \in marked
    BY <1>8 DEF OnWay
  <2> QED
    BY <1>2, <1>3, <1>24, <2>1
<1>26. PointersKept(u, place', ptr')
  <2>1. PointersKept(w, place, ptr)
    BY <1>7 DEF WayBack
  <2>2. ASSUME NEW b \in Blocks, NEW x \in Slots(b), ptr'[<<b, x>>] # graph[<<b, x>>]
        PROVE  \E k \in DOMAIN u : Follows(u[k]) /\ u[k].act = b /\ SlotOf(u[k], place') = x
    <3>1. CASE b = act /\ x = s
      BY <1>10, <1>16, <1>22, <3>1
    <3>2. CASE ~(b = act /\ x = s)
      <4>1. <<b, x>> \in Pointers /\ <<b, x>> # <<act, s>>
        <5> HIDE DEF s
        <5> QED
          BY <3>2, PointerOf
      <4>2. ptr'[<<b, x>>] = ptr[<<b, x>>]
        BY <1>6, <4>1
      <4>3. PICK k \in DOMAIN w : Follows(w[k]) /\ w[k].act = b /\ SlotOf(w[k], place) = x
        BY <2>1, <2>2, <4>2 DEF PointersKept
      <4>4. SlotOf(w[k], place') = x /\ k \in DOMAIN u /\ u[k] = w[k]
        BY <1>8, <1>17, <1>21, <4>3
      <4> QED
        BY <4>3, <4>4
    <3> QED
      BY <3>1, <3>2
  <2>3. \A b \in Blocks : \A x \in Slots(b) :
          ptr'[<<b, x>>] = graph[<<b, x>>] \/ \E k \in DOMAIN u :
                Follows(u[k]) /\ u[k].act = b /\ SlotOf(u[k], place') = x
    BY <2>2
  <2> QED
    BY <2>3 DEF PointersKept
<1>27. PlacesKept(u)'
  <2>1. PlacesKept(w)
    BY <1>7 DEF WayBack
  <2>2. ASSUME NEW b \in Blocks PROVE place'[b] = Start(b) \/ OnWay(u, b)
    BY <1>5, <1>24, <2>1 DEF PlacesKept
  <2> QED
    BY <2>2 DEF PlacesKept, OnWay
<1>28. marked \subseteq marked'
  BY <1>2
<1>29. WayScanned(u)'
  <2>1. WayScanned(w)
    BY <1>7 DEF WayBack
  <2>2. ASSUME NEW k \in 1 .. n PROVE ScannedBefore(w[k], place', marked')
    <3>1. ScannedBefore(w[k], place, marked)
      BY <1>8, <2>1 DEF WayScanned
    <3>2. UNCHANGED <<root, graph>>
      BY <1>2
    <3> QED
      BY <1>17, <1>28, <3>1, <3>2, ScannedKeeps DEF ScannedBefore
  <2>3. ScannedBefore(v, place', marked')
    <3>1. Scanned(act, e, desc[2] + 1, marked')
      BY <1>1, <1>2 DEF Scanned, Seen
    <3>2. SlotOf(v, place')[1] = e /\ SlotOf(v, place')[2] = desc[2] /\ v.entry[1] # "root"
      BY <1>1, <1>10, <1>16
    <3> QED
      BY <1>10, <3>1, <3>2 DEF ScannedBefore
  <2>4. \A k \in DOMAIN u : ScannedBefore(u[k], place', marked')
    BY <1>21, <1>22, <2>2, <2>3
  <2> QED
    BY <1>2, <2>4 DEF WayScanned, ScannedBefore, Scanned, FramesScanned
<1>30. RestScanned(u)'
  <2>1. RestScanned(w)
    BY <1>7 DEF WayBack
  <2>2. ASSUME NEW b \in marked
        PROVE  AllScanned(b, marked') \/ OnWay(u, b)
    <3>1. AllScanned(b, marked) => AllScanned(b, marked')
      BY <1>2, <1>28, ScannedKeeps
    <3> QED
      BY <1>24, <2>1, <3>1 DEF RestScanned
  <2>3. \A b \in marked' : AllScanned(b, marked') \/ OnWay(u, b) \/ b = act'
    BY <1>2, <2>2
  <2> QED
    BY <1>2, <2>3 DEF RestScanned, AllScanned, OnWay
<1>31. InStep(u, stack)' /\ (Visiting <=> stack # << >>)'
  BY <1>2, <1>12 DEF InStep, Visiting
<1>32. Kinds(u, Len(stack), pc)' /\ Chain(u, Len(stack), Here, place, ptr)'
  <2>1. graph' = graph /\ Len(stack') = n + 1
    BY <1>2, <1>12
  <2>2. Kinds(u, Len(stack'), pc') /\ Chain(u, Len(stack'), Here', place', ptr')
    BY <1>18, <1>20, <2>1
  <2> QED
    BY <2>1, <2>2 DEF Kinds, Chain, Leads, FromFrame, FromBlock, IntoElements
<1>33. Once(u, Len(stack), marked)' /\ PointersKept(u, place, ptr)' /\ ~OnWay(u, act)'
  <2>1. Once(u, Len(stack), marked)'
    BY <1>12, <1>23 DEF Once
  <2>2. PointersKept(u, place, ptr)'
    <3>1. graph' = graph
      BY <1>2
    <3> QED
      BY <1>26, <3>1 DEF PointersKept
  <2>3. ~OnWay(u, act)'
    BY <1>2, <1>25 DEF OnWay
  <2> QED
    BY <2>1, <2>2, <2>3
<1>34. WayBack(u)'
  BY <1>27, <1>29, <1>30, <1>31, <1>32, <1>33 DEF WayBack
<1> QED
  BY <1>14, <1>15, <1>34 DEF MarkInv

-----------------------------------------------------------------------------
(* Steps that take an entry off the stack. *)
LEMMA EndElemInv == ASSUME MarkInv, EndElem PROVE MarkInv'
<1>1. PICK w : WayBack(w)
  BY DEF MarkInv
<1> DEFINE n == Len(stack)
           v == w[n]
<1>2. /\ pc = "elem" /\ pc' = "return" /\ ~(desc[2] <= Fields[act]) /\ count = 1
      /\ count' = Head(stack)[2] /\ base' = Head(stack)[3]
      /\ place' = [place EXCEPT ![act] = Head(stack)[4]]
      /\ stack' = Tail(stack) /\ UNCHANGED <<act, last, desc, marked, ptr, root, graph>>
      /\ Visiting /\ Visiting'
  BY DEF EndElem, AtField, Visiting
<1>3. /\ Head(stack) = <<"saved", v.count, v.base, 0>> /\ Head(stack) = v.entry
      /\ v.count \in Nat /\ v.base \in Nat /\ v.act = act /\ v.last = last
      /\ IsOpen(act) /\ act \in DOMAIN Fields /\ Elems[act] \in Nat
      /\ base \in 1 .. Elems[act] /\ count = Elems[act] - base + 1
  BY <1>1, <1>2, SavedOnTop
<1>4. /\ n \in Nat \ {0} /\ DOMAIN w = 1 .. n /\ InStep(w, stack) /\ stack # << >>
      /\ \A k \in 1 .. n : (w[k].entry[1] = "root" <=> k = 1)
      /\ v.entry[1] = "saved"
      /\ \A k \in 1 .. n - 1 : /\ w[k].entry[1] = "saved" <=> w[k+1].entry[1] = "elem"
                               /\ Leads(w[k], w[k+1], place, ptr)
      /\ \A k \in 1 .. n : Follows(w[k]) => w[k].act \in marked /\ w[k].act # act
  BY <1>1, <1>2, WayFacts DEF MarkInv
<1>5. /\ place \in [Blocks -> Nat] /\ stack \in Seq(Entries) /\ marked \subseteq Blocks
      /\ act \in Blocks /\ act \in marked
  BY <1>2, <1>3, AtBlock DEF MarkInv, MarkTypes
<1>6. /\ count' = v.count /\ base' = v.base /\ place' = [place EXCEPT ![act] = 0]
  <2>1. Head(stack)[2] = v.count /\ Head(stack)[3] = v.base /\ Head(stack)[4] = 0
    <3> HIDE DEF v
    <3> QED
      BY <1>3
  <2> QED
    BY <1>2, <2>1
<1>7. /\ place' \in [Blocks -> Nat] /\ place'[act] = Start(act)
      /\ \A b \in Blocks : b # act => place'[b] = place[b]
  BY <1>3, <1>5, <1>6 DEF Start
<1>8. PICK u : u = Cut(w, Len(stack))
  OBVIOUS
<1>9. /\ DOMAIN u = 1 .. n - 1 /\ stack' \in Seq(Entries) /\ Len(stack') = n - 1
      /\ stack' # << >> <=> n # 1
      /\ InStep(u, stack') /\ \A k \in 1 .. n - 1 : u[k] = w[k]
  BY <1>2, <1>4, <1>5, <1>8, CutShort
<1>10. n # 1
  <2>1. n \in 1 .. n
    BY <1>4
  <2> QED
    BY <1>4, <2>1
<1> HIDE DEF n, v
<1>11. /\ \A k \in 1 .. n - 1 : k \in 1 .. n /\ k + 1 \in 1 .. n /\ (k # n - 1 => k + 1 \in 1 .. n - 1)
       /\ n - 1 \in Nat \ {0} /\ n - 1 + 1 = n /\ n \in 1 .. n
       /\ \A k \in 1 .. n : k = n \/ k \in 1 .. n - 1
  BY <1>4, <1>10
<1>12. AllScanned(act, marked)
  <2>1. Scanned(act, base, desc[2], marked) /\ desc[2] \in 1 .. Fields[act] + 1
    BY <1>2 DEF MarkInv, Position
  <2>2. \A s \in Slots(act) : s[1] \in 1 .. Elems[act] /\ s[2] \in 1 .. Fields[act]
    BY <1>3, BlockSlots
  <2>3. Fields[act] \in Nat
    BY <1>3, BlockSlots
  <2>4. base = Elems[act] /\ desc[2] \in Nat /\ desc[2] > Fields[act]
    <3>1. desc[2] \in Nat /\ desc[2] > Fields[act]
      BY <1>2, <2>1, <2>3
    <3>2. Elems[act] - base + 1 = 1 /\ base \in Nat
      BY <1>2, <1>3
    <3>3. base = Elems[act]
      BY <1>3, <3>2
    <3> QED
      BY <3>1, <3>3
  <2>5. \A s \in Slots(act) : s[1] < base \/ (s[1] = base /\ s[2] < desc[2])
    BY <1>3, <2>2, <2>3, <2>4
  <2> QED
    BY <2>1, <2>5 DEF Scanned, AllScanned
<1>13. MarkTypes'
  BY <1>2, <1>3, <1>6, <1>7, <1>9 DEF MarkInv, MarkTypes
<1>14. Position'
  BY <1>2, <1>5 DEF Position
<1>15. ~Follows(v)
  BY <1>3 DEF Follows
<1>16. \A k \in 1 .. n - 1 : Follows(w[k]) =>
         place'[w[k].act] = place[w[k].act] /\ SlotOf(w[k], place') = SlotOf(w[k], place)
  BY <1>4, <1>5, <1>7, <1>11 DEF SlotOf
<1>17. Kinds(u, n - 1, pc')
  <2>1. ASSUME NEW k \in 1 .. n - 1
        PROVE  /\ u[k].entry[1] = "root" <=> k = 1
               /\ u[k].entry[1] = "saved" <=>
                    (IF k = n - 1 THEN pc' ELSE u[k+1].entry[1]) = "elem"
    <3>1. CASE k = n - 1
      BY <1>2, <1>4, <1>9, <1>11, <3>1 DEF v
    <3>2. CASE k # n - 1
      BY <1>4, <1>9, <1>11, <3>2
    <3> QED
      BY <3>1, <3>2
  <2> QED
    BY <2>1 DEF Kinds
<1>18. Chain(u, n - 1, Here', place', ptr')
  <2>1. ASSUME NEW k \in 1 .. n - 1 PROVE Leads(u[k], NextIn(u, n - 1, Here', k), place', ptr')
    <3>1. Leads(w[k], w[k+1], place, ptr) /\ u[k] = w[k]
      BY <1>4, <1>9
    <3>2. Follows(w[k]) =>
            /\ place'[w[k].act] = place[w[k].act]
            /\ ptr'[<<w[k].act, SlotOf(w[k], place)>>] = ptr[<<w[k].act, SlotOf(w[k], place)>>]
      BY <1>2, <1>16
    <3>3. CASE k = n - 1
      <4>1. w[k+1] = v
        BY <1>11, <3>3 DEF v
      <4>2. /\ Here'.act = v.act /\ Here'.last = v.last /\ Here'.base = v.base
            /\ Here'.count = v.count
        BY <1>2, <1>3, <1>6 DEF Here
      <4>3. Leads(w[k], Here', place', ptr')
        BY <3>1, <3>2, <4>1, <4>2, LeadsKeeps
      <4> QED
        BY <3>1, <3>3, <4>3 DEF NextIn
    <3>4. CASE k # n - 1
      <4>1. u[k+1] = w[k+1]
        BY <1>9, <1>11, <3>4
      <4>2. Leads(w[k], w[k+1], place', ptr')
        BY <3>1, <3>2, LeadsKeeps
      <4> QED
        BY <3>1, <3>4, <4>1, <4>2 DEF NextIn
    <3> QED
      BY <3>3, <3>4
  <2> QED
    BY <2>1 DEF Chain
<1>19. /\ \A k \in DOMAIN u : k \in DOMAIN w /\ k \in 1 .. n - 1 /\ u[k] = w[k]
       /\ \A k \in DOMAIN w : Follows(w[k]) => k \in DOMAIN u /\ u[k] = w[k] /\ k \in 1 .. n - 1
  BY <1>4, <1>9, <1>11, <1>15 DEF v
<1>20. \A b : OnWay(u, b) <=> OnWay(w, b)
  BY <1>19 DEF OnWay
<1>21. Once(u, n - 1, marked)
  <2>1. Once(w, n, marked)
    BY <1>1 DEF WayBack, n
  <2> QED
    BY <1>9, <1>11, <2>1 DEF Once
<1>22. PointersKept(u, place', ptr)
  <2>1. PointersKept(w, place, ptr)
    BY <1>1 DEF WayBack
  <2>2. ASSUME NEW b \in Blocks, NEW x \in Slots(b), ptr[<<b, x>>] # graph[<<b, x>>]
        PROVE  \E k \in DOMAIN u : Follows(u[k]) /\ u[k].act = b /\ SlotOf(u[k], place') = x
    <3>1. PICK k \in DOMAIN w : Follows(w[k]) /\ w[k].act = b /\ SlotOf(w[k], place) = x
      BY <2>1, <2>2 DEF PointersKept
    <3>2. k \in DOMAIN u /\ u[k] = w[k] /\ SlotOf(w[k], place') = x
      BY <1>16, <1>19, <3>1
    <3> QED
      BY <3>1, <3>2
  <2>3. \A b \in Blocks : \A x \in Slots(b) :
          ptr[<<b, x>>] = graph[<<b, x>>] \/ \E k \in DOMAIN u :
                Follows(u[k]) /\ u[k].act = b /\ SlotOf(u[k], place') = x
    BY <2>2
  <2> QED
    BY <2>3 DEF PointersKept
<1>23. PlacesKept(u)'
  <2>1. PlacesKept(w)
    BY <1>1 DEF WayBack
  <2>2. ASSUME NEW b \in Blocks PROVE place'[b] = Start(b) \/ OnWay(u, b)
    BY <1>7, <1>20, <2>1 DEF PlacesKept
  <2> QED
    BY <2>2 DEF PlacesKept, OnWay
<1>24. WayScanned(u)'
  <2>1. \A k \in DOMAIN w : ScannedBefore(w[k], place, marked)
    BY <1>1 DEF WayBack, WayScanned
  <2>2. \A k \in DOMAIN u : ScannedBefore(u[k], place', marked)
    BY <1>16, <1>19, <2>1 DEF ScannedBefore
  <2> QED
    BY <1>2, <2>2 DEF WayScanned, ScannedBefore, Scanned, FramesScanned
<1>25. RestScanned(u)'
  <2>1. RestScanned(w)
    BY <1>1 DEF WayBack
  <2>2. \A b \in marked : AllScanned(b, marked) \/ OnWay(u, b)
    BY <1>12, <1>20, <2>1 DEF RestScanned
  <2> QED
    BY <1>2, <2>2 DEF RestScanned, AllScanned, OnWay
<1>26. InStep(u, stack)' /\ (Visiting <=> stack # << >>)'
  BY <1>2, <1>9, <1>10 DEF InStep
<1>27. Kinds(u, Len(stack), pc)' /\ Chain(u, Len(stack), Here, place, ptr)'
  <2>1. graph' = graph /\ Len(stack') = n - 1
    BY <1>2, <1>9
  <2>2. Kinds(u, Len(stack'), pc') /\ Chain(u, Len(stack'), Here', place', ptr')
    BY <1>17, <1>18, <2>1
  <2> QED
    BY <2>1, <2>2 DEF Kinds, Chain, Leads, FromFrame, FromBlock, IntoElements
<1>28. Once(u, Len(stack), marked)' /\ PointersKept(u, place, ptr)' /\ ~OnWay(u, act)'
  <2>1. Once(u, Len(stack), marked)'
    BY <1>2, <1>9, <1>21 DEF Once
  <2>2. PointersKept(u, place, ptr)'
    BY <1>2, <1>22 DEF PointersKept
  <2>3. ~OnWay(u, act)
    BY <1>1, <1>2, <1>20 DEF WayBack
  <2>4. ~OnWay(u, act)'
    BY <1>2, <2>3 DEF OnWay
  <2> QED
    BY <2>1, <2>2, <2>4
<1>29. WayBack(u)'
  BY <1>23, <1>24, <1>25, <1>26, <1>27, <1>28 DEF WayBack
<1> QED
  BY <1>13, <1>14, <1>29 DEF MarkInv

LEMMA ReturnToRootInv == ASSUME MarkInv, ReturnToRoot PROVE MarkInv'
<1>1. PICK w : WayBack(w)
  BY DEF MarkInv
<1> DEFINE n == Len(stack)
           v == w[n]
<1>2. /\ pc = "return" /\ pc' = "root" /\ Head(stack)[1] = "root" /\ act' = last
      /\ desc' = <<Head(stack)[2][1], Head(stack)[2][2] + 1>> /\ stack' = Tail(stack)
      /\ UNCHANGED <<last, base, count, marked, place, ptr, root, graph>>
      /\ Visiting /\ ~Visiting'
  BY DEF ReturnToRoot, Visiting
<1>3. /\ n \in Nat \ {0} /\ DOMAIN w = 1 .. n /\ InStep(w, stack) /\ stack # << >>
      /\ Head(stack) = v.entry /\ n \in 1 .. n
      /\ \A k \in 1 .. n : (w[k].entry[1] = "root" <=> k = 1)
      /\ Leads(v, Here, place, ptr)
  BY <1>1, <1>2, WayFacts DEF MarkInv
<1>4. n = 1
  BY <1>2, <1>3
<1>5. stack \in Seq(Entries)
  BY DEF MarkInv, MarkTypes
<1>6. stack' \in Seq(Entries) /\ stack' = << >>
  BY <1>2, <1>3, <1>4, <1>5, CutShort
<1>7. FromFrame(v, Here) /\ ~Follows(v) /\ v.entry[1] = "root"
  BY <1>2, <1>3 DEF Leads, Follows
<1>8. /\ FramePosition(v.act, <<v.entry[2][1], v.entry[2][2] + 1>>, v.base, v.count)
      /\ last = v.act /\ base = v.base /\ count = v.count
      /\ desc' = <<v.entry[2][1], v.entry[2][2] + 1>>
  BY <1>2, <1>3, <1>7 DEF FromFrame, Here
<1>9. ScannedBefore(v, place, marked)
  BY <1>1, <1>3 DEF WayBack, WayScanned
<1> HIDE DEF n, v
<1>10. FramePosition(act, desc, base, count)' /\ FramesScanned(act, desc, base, marked)'
  BY <1>2, <1>7, <1>8, <1>9 DEF ScannedBefore, FramesScanned, FramePosition
<1>11. MarkTypes' /\ Position'
  BY <1>2, <1>6, <1>10 DEF MarkInv, MarkTypes, Position, Visiting
<1>12. \A b : ~OnWay(w, b)
  BY <1>3, <1>4, <1>7 DEF OnWay, v
<1>13. \A b \in Blocks : /\ place'[b] = Start(b)
                         /\ \A s \in Slots(b) : ptr'[<<b, s>>] = graph'[<<b, s>>]
  BY <1>1, <1>2, <1>12 DEF WayBack, PlacesKept, PointersKept, OnWay
<1>14. \A b \in marked : AllScanned(b, marked)
  BY <1>1, <1>2, <1>12 DEF WayBack, RestScanned
<1>15. \A b \in marked' : AllScanned(b, marked)'
  BY <1>2, <1>14 DEF AllScanned
<1> QED
  BY <1>2, <1>6, <1>11, <1>13, <1>15, StaysIdle

LEMMA ReturnToBlockInv == ASSUME MarkInv, ReturnToBlock PROVE MarkInv'
<1>1. PICK w : WayBack(w)
  BY DEF MarkInv
<1> DEFINE n == Len(stack)
           v == w[n]
           s == SlotOf(v, place)
<1>2. /\ pc = "return" /\ Head(stack)[1] \in {"fixed", "elem"} /\ Visiting
      /\ last' = ptr[<<last, SlotAt(Head(stack)[1], place[last])>>]
      /\ ptr' = [ptr EXCEPT ![<<last, SlotAt(Head(stack)[1], place[last])>>] = act]
      /\ desc' = <<0, place[last] + 1>> /\ act' = last /\ pc' = Head(stack)[1]
      /\ stack' = Tail(stack) /\ UNCHANGED <<base, count, marked, place, root, graph>>
  BY DEF ReturnToBlock, Visiting
<1>3. /\ n \in Nat \ {0} /\ DOMAIN w = 1 .. n /\ InStep(w, stack) /\ stack # << >>
      /\ Head(stack) = v.entry /\ n \in 1 .. n
      /\ \A k \in 1 .. n : (w[k].entry[1] = "root" <=> k = 1)
      /\ \A k \in 1 .. n - 1 : /\ w[k].entry[1] = "saved" <=> w[k+1].entry[1] = "elem"
                               /\ Leads(w[k], w[k+1], place, ptr)
      /\ Leads(v, Here, place, ptr)
      /\ \A k \in 1 .. n : Follows(w[k]) => w[k].act \in marked /\ w[k].act # act
  BY <1>1, <1>2, WayFacts DEF MarkInv
<1>4. /\ Follows(v) /\ FromBlock(v, Here, place, ptr) /\ v.entry[1] # "root"
      /\ v.entry[1] \in {"fixed", "elem"}
  BY <1>2, <1>3 DEF Leads, Follows
<1>5. n # 1
  BY <1>3, <1>4
<1>6. /\ v.act = last /\ v.base = base /\ v.count = count /\ v.act \in DOMAIN Fields
      /\ (v.entry[1] = "elem" <=> IsOpen(v.act))
      /\ s \in Slots(v.act) /\ ptr[<<v.act, s>>] = v.last /\ graph[<<v.act, s>>] = act
  BY <1>4 DEF FromBlock, Here
<1>7. /\ s = <<IF v.entry[1] = "fixed" THEN 0 ELSE base, place[v.act]>>
      /\ s = SlotAt(Head(stack)[1], place[last])
  BY <1>3, <1>6 DEF SlotOf, SlotAt
<1>8. /\ MarkTypes /\ stack \in Seq(Entries) /\ marked \subseteq Blocks /\ act \in Blocks
      /\ v.act \in marked /\ v.act \in Blocks /\ v.act # act
  <2>1. v.act \in marked /\ v.act # act
    BY <1>3, <1>4
  <2> QED
    BY <1>2, <2>1, AtBlock DEF MarkInv, MarkTypes
<1>9. PICK u : u = Cut(w, Len(stack))
  OBVIOUS
<1>10. /\ DOMAIN u = 1 .. n - 1 /\ stack' \in Seq(Entries) /\ Len(stack') = n - 1
       /\ stack' # << >> <=> n # 1
       /\ InStep(u, stack') /\ \A k \in 1 .. n - 1 : u[k] = w[k]
  BY <1>2, <1>3, <1>8, <1>9, CutShort
<1>11. Once(w, n, marked)
  BY <1>1 DEF WayBack
<1>12. ScannedBefore(v, place, marked)
  BY <1>1, <1>3 DEF WayBack, WayScanned
<1> HIDE DEF n, v, s
<1>13. /\ last' = v.last /\ act' = v.act /\ pc' = v.entry[1] /\ desc' = <<0, place[v.act] + 1>>
       /\ ptr' = [ptr EXCEPT ![<<v.act, s>>] = act]
  BY <1>2, <1>3, <1>6, <1>7
<1>14. <<v.act, s>> \in Pointers
  BY <1>6, <1>8, PointerOf
<1>15. /\ ptr' \in [Pointers -> Blocks \cup {NIL} \cup FrameIds] /\ ptr'[<<v.act, s>>] = act
       /\ \A q \in Pointers : q # <<v.act, s>> => ptr'[q] = ptr[q]
  BY <1>8, <1>13, <1>14 DEF MarkTypes
<1>16. /\ \A k \in 1 .. n - 1 : k \in 1 .. n /\ k # n /\ k + 1 \in 1 .. n
                                /\ (k # n - 1 => k + 1 \in 1 .. n - 1)
       /\ n - 1 \in Nat \ {0} /\ n - 1 + 1 = n
       /\ \A k \in 1 .. n : k = n \/ k \in 1 .. n - 1
  BY <1>3, <1>5
<1>17. \A k \in 1 .. n - 1 : Follows(w[k]) => w[k].act # v.act
  BY <1>3, <1>4, <1>11, <1>16 DEF Once, v
<1>18. MarkTypes'
  BY <1>2, <1>4, <1>8, <1>10, <1>13, <1>15 DEF MarkTypes
<1>19. Position'
  <2>1. place[v.act] \in 1 .. Fields[v.act] /\ Fields[v.act] \in Nat /\ s[2] = place[v.act]
    BY <1>6, <1>7, BlockSlots
  <2>2. desc' = <<0, desc'[2]>> /\ desc'[2] \in 1 .. Fields[v.act] + 1 /\ desc'[2] = s[2] + 1
    BY <1>13, <2>1
  <2>3. Scanned(v.act, s[1], s[2] + 1, marked)
    BY <1>4, <1>12 DEF ScannedBefore, s
  <2>4. /\ pc' = "fixed" => Scanned(v.act, 0, desc'[2], marked)
        /\ pc' = "elem" => Scanned(v.act, base', desc'[2], marked)
    BY <1>2, <1>7, <1>13, <2>2, <2>3
  <2>5. /\ pc' = "fixed" => Scanned(act, 0, desc[2], marked)'
        /\ pc' = "elem" => Scanned(act, base, desc[2], marked)'
    BY <1>2, <1>13, <2>4 DEF Scanned
  <2> QED
    BY <1>2, <1>4, <1>6, <1>8, <1>13, <2>2, <2>5 DEF Position
<1>20. Kinds(u, n - 1, pc')
  <2>1. ASSUME NEW k \in 1 .. n - 1
        PROVE  /\ u[k].entry[1] = "root" <=> k = 1
               /\ u[k].entry[1] = "saved" <=>
                    (IF k = n - 1 THEN pc' ELSE u[k+1].entry[1]) = "elem"
    <3>1. CASE k = n - 1
      BY <1>3, <1>10, <1>13, <1>16, <3>1 DEF v
    <3>2. CASE k # n - 1
      BY <1>3, <1>10, <1>16, <3>2
    <3> QED
      BY <3>1, <3>2
  <2> QED
    BY <2>1 DEF Kinds
<1>21. Chain(u, n - 1, Here', place', ptr')
  <2>1. ASSUME NEW k \in 1 .. n - 1 PROVE Leads(u[k], NextIn(u, n - 1, Here', k), place', ptr')
    <3>1. Leads(w[k], w[k+1], place, ptr) /\ u[k] = w[k]
      BY <1>3, <1>10
    <3>2. ASSUME Follows(w[k])
          PROVE  /\ place'[w[k].act] = place[w[k].act]
                 /\ ptr'[<<w[k].act, SlotOf(w[k], place)>>] = ptr[<<w[k].act, SlotOf(w[k], place)>>]
      <4>1. w[k].act # v.act /\ w[k].act \in Blocks
        BY <1>3, <1>8, <1>16, <1>17, <3>2
      <4>2. SlotOf(w[k], place) \in Slots(w[k].act)
        BY <3>1, <3>2 DEF Leads, FromBlock
      <4>3. <<w[k].act, SlotOf(w[k], place)>> \in Pointers
        BY <4>1, <4>2, PointerOf
      <4> QED
        BY <1>2, <1>15, <4>1, <4>3
    <3>3. CASE k = n - 1
      <4>1. w[k+1] = v
        BY <1>16, <3>3 DEF v
      <4>2. /\ Here'.act = v.act /\ Here'.last = v.last /\ Here'.base = v.base
            /\ Here'.count = v.count
        BY <1>2, <1>6, <1>13 DEF Here
      <4>3. Leads(w[k], Here', place', ptr')
        BY <3>1, <3>2, <4>1, <4>2, LeadsKeeps
      <4> QED
        BY <3>1, <3>3, <4>3 DEF NextIn
    <3>4. CASE k # n - 1
      <4>1. u[k+1] = w[k+1]
        BY <1>10, <1>16, <3>4
      <4>2. Leads(w[k], w[k+1], place', ptr')
        BY <3>1, <3>2, LeadsKeeps
      <4> QED
        BY <3>1, <3>4, <4>1, <4>2 DEF NextIn
    <3> QED
      BY <3>3, <3>4
  <2> QED
    BY <2>1 DEF Chain
<1>22. /\ \A k \in DOMAIN u : k \in DOMAIN w /\ k \in 1 .. n - 1 /\ u[k] = w[k]
       /\ \A k \in DOMAIN w : k = n \/ (k \in DOMAIN u /\ u[k] = w[k])
  BY <1>3, <1>10, <1>16
<1>23. \A b : OnWay(w, b) => OnWay(u, b) \/ b = v.act
  BY <1>22 DEF OnWay, v
<1>24. Once(u, n - 1, marked)
  BY <1>10, <1>11, <1>16 DEF Once
<1>25. ~OnWay(u, v.act)
  BY <1>17, <1>22 DEF OnWay
<1>26. PointersKept(u, place, ptr')
  <2>1. PointersKept(w, place, ptr)
    BY <1>1 DEF WayBack
  <2>2. ASSUME NEW b \in Blocks, NEW x \in Slots(b), ptr'[<<b, x>>] # graph[<<b, x>>]
        PROVE  \E k \in DOMAIN u : Follows(u[k]) /\ u[k].act = b /\ SlotOf(u[k], place) = x
    <3>1. ~(b = v.act /\ x = s)
      BY <1>6, <1>15, <2>2
    <3>2. <<b, x>> \in Pointers /\ <<b, x>> # <<v.act, s>>
      BY <3>1, PointerOf
    <3>3. ptr'[<<b, x>>] = ptr[<<b, x>>]
      BY <1>15, <3>2
    <3>4. PICK k \in DOMAIN w : Follows(w[k]) /\ w[k].act = b /\ SlotOf(w[k], place) = x
      BY <2>1, <2>2, <3>3 DEF PointersKept
    <3>5. k # n
      BY <3>1, <3>4 DEF v, s
    <3> QED
      BY <1>22, <3>4, <3>5
  <2>3. \A b \in Blocks : \A x \in Slots(b) :
          ptr'[<<b, x>>] = graph[<<b, x>>] \/ \E k \in DOMAIN u :
                Follows(u[k]) /\ u[k].act = b /\ SlotOf(u[k], place) = x
    BY <2>2
  <2> QED
    BY <2>3 DEF PointersKept
<1>27. PlacesKept(u)'
  <2>1. PlacesKept(w)
    BY <1>1 DEF WayBack
  <2>2. ASSUME NEW b \in Blocks PROVE place[b] = Start(b) \/ OnWay(u, b) \/ b = v.act
    BY <1>2, <1>23, <2>1 DEF PlacesKept
  <2> QED
    BY <1>2, <1>4, <1>13, <2>2 DEF PlacesKept, OnWay
<1>28. WayScanned(u)'
  <2>1. \A k \in DOMAIN w : ScannedBefore(w[k], place, marked)
    BY <1>1 DEF WayBack, WayScanned
  <2>2. \A k \in DOMAIN u : ScannedBefore(u[k], place, marked)
    BY <1>22, <2>1
  <2> QED
    BY <1>2, <2>2 DEF WayScanned, ScannedBefore, Scanned, FramesScanned
<1>29. RestScanned(u)'
  <2>1. RestScanned(w)
    BY <1>1 DEF WayBack
  <2>2. \A b \in marked : AllScanned(b, marked) \/ OnWay(u, b) \/ b = v.act
    BY <1>2, <1>23, <2>1 DEF RestScanned
  <2> QED
    BY <1>2, <1>4, <1>13, <2>2 DEF RestScanned, AllScanned, OnWay
<1>30. InStep(u, stack)' /\ (Visiting <=> stack # << >>)'
  BY <1>4, <1>5, <1>10, <1>13 DEF InStep, Visiting
<1>31. Kinds(u, Len(stack), pc)' /\ Chain(u, Len(stack), Here, place, ptr)'
  <2>1. graph' = graph /\ Len(stack') = n - 1
    BY <1>2, <1>10
  <2>2. Kinds(u, Len(stack'), pc') /\ Chain(u, Len(stack'), Here', place', ptr')
    BY <1>20, <1>21, <2>1
  <2> QED
    BY <2>1, <2>2 DEF Kinds, Chain, Leads, FromFrame, FromBlock, IntoElements
<1>32. Once(u, Len(stack), marked)' /\ PointersKept(u, place, ptr)' /\ ~OnWay(u, act)'
  <2>1. Once(u, Len(stack), marked)'
    BY <1>2, <1>10, <1>24 DEF Once
  <2>2. PointersKept(u, place, ptr)'
    <3>1. graph' = graph /\ place' = place
      BY <1>2
    <3> QED
      BY <1>26, <3>1 DEF PointersKept
  <2>3. ~OnWay(u, act)'
    BY <1>13, <1>25 DEF OnWay
  <2> QED
    BY <2>1, <2>2, <2>3
<1>33. WayBack(u)'
  BY <1>27, <1>28, <1>29, <1>30, <1>31, <1>32 DEF WayBack
<1> QED
  BY <1>18, <1>19, <1>33 DEF MarkInv

-----------------------------------------------------------------------------
LEMMA StutterInv == ASSUME MarkInv, UNCHANGED mvars PROVE MarkInv'
<1>1. MarkTypes' /\ Position'
  BY DEF MarkInv, mvars, MarkTypes, Position, Visiting, FramePosition, FramesScanned, Scanned,
         Seen
<1>2. CASE Visiting
  <2>1. /\ UNCHANGED <<pc, stack, act, last, base, count, marked, place, ptr, root, graph>>
        /\ Visiting' /\ act \in marked
        /\ pc \in {"enter", "wild", "return"} => place[act] = Start(act)
    BY <1>2, AtBlock DEF mvars, Visiting
  <2>2. pc = "return" => AllScanned(act, marked)
    <3>1. PICK w : WayBack(w)
      BY DEF MarkInv
    <3> QED
      BY <1>2, <2>1, <3>1 DEF WayBack, RestScanned
  <2>3. place'[act] = Start(act) \/ pc' \in {"fixed", "elem"}
    BY <1>2, <2>1 DEF Visiting
  <2>4. /\ pc' = "elem" <=> pc = "elem"
        /\ pc' = "return" => AllScanned(act, marked)
        /\ \A b \in Blocks : b # act => place'[b] = place[b]
    BY <2>1, <2>2
  <2>5. UNCHANGED <<stack, act, last, base, count, marked, ptr, root, graph>>
    BY <2>1
  <2> QED
    BY <1>1, <1>2, <2>1, <2>3, <2>4, <2>5, SameVisit
<1>3. CASE ~Visiting
  <2>1. /\ stack' = stack /\ stack = << >> /\ ~Visiting'
        /\ UNCHANGED <<marked, place, ptr, graph>>
    BY <1>3, AtRest DEF mvars, Visiting
  <2>2. \A b \in marked' : AllScanned(b, marked)'
    BY <1>3, <2>1, AtRest DEF AllScanned
  <2>3. \A b \in Blocks : /\ place'[b] = Start(b)
                          /\ \A s \in Slots(b) : ptr'[<<b, s>>] = graph'[<<b, s>>]
    BY <1>3, <2>1, AtRest
  <2> QED
    BY <1>1, <2>1, <2>2, <2>3, StaysIdle
<1> QED
  BY <1>2, <1>3

LEMMA StepInv == ASSUME MarkInv, [MarkNext]_mvars PROVE MarkInv'
<1>1. CASE SkipRoot
  BY <1>1, SkipRootInv
<1>2. CASE FollowRoot
  BY <1>2, FollowRootInv
<1>3. CASE EndOfPart
  BY <1>3, EndOfPartInv
<1>4. CASE EnterSystem
  BY <1>4, EnterSystemInv
<1>5. CASE EnterFixed
  BY <1>5, EnterFixedInv
<1>6. CASE EnterOpen
  BY <1>6, EnterOpenInv
<1>7. CASE SkipField
  BY <1>7, SkipFieldInv
<1>8. CASE FollowField
  BY <1>8, FollowFieldInv
<1>9. CASE EndFixed
  BY <1>9, EndFixedInv
<1>10. CASE NextElem
  BY <1>10, NextElemInv
<1>11. CASE EndElem
  BY <1>11, EndElemInv
<1>12. CASE ReturnToRoot
  BY <1>12, ReturnToRootInv
<1>13. CASE ReturnToBlock
  BY <1>13, ReturnToBlockInv
<1>14. CASE UNCHANGED mvars
  BY <1>14, StutterInv
<1> QED
  BY <1>1, <1>2, <1>3, <1>4, <1>5, <1>6, <1>7, <1>8, <1>9, <1>10, <1>11, <1>12, <1>13, <1>14
  DEF MarkNext

LEMMA InvariantHolds == MarkSpec => []MarkInv
<1> QED
  BY MarkInitInv, StepInv, PTL DEF MarkSpec

-----------------------------------------------------------------------------
(* The graph of the blocks, and what a step adds to the marked ones. *)
LEMMA EdgeOf ==
  ASSUME MarkTypes
  PROVE  /\ RootBlocks \subseteq Blocks /\ EdgeSet \subseteq Blocks \X Blocks
         /\ \A b \in Blocks : \A s \in Slots(b) :
              graph[<<b, s>>] \in Blocks => <<b, graph[<<b, s>>]>> \in EdgeSet
<1>1. RootBlocks \subseteq Blocks
  BY DEF MarkTypes, RootBlocks
<1>2. EdgeSet \subseteq Blocks \X Blocks
  BY DEF EdgeSet
<1>3. ASSUME NEW b \in Blocks, NEW s \in Slots(b), graph[<<b, s>>] \in Blocks
      PROVE  <<b, graph[<<b, s>>]>> \in EdgeSet
  <2> DEFINE e == <<b, graph[<<b, s>>]>>
  <2>1. e \in Blocks \X Blocks /\ e[1] = b /\ e[2] = graph[<<b, s>>]
    BY <1>3
  <2> HIDE DEF e
  <2>2. e \in EdgeSet
    BY <2>1 DEF EdgeSet
  <2> QED
    BY <2>2 DEF e
<1> QED
  BY <1>1, <1>2, <1>3

LEMMA GraphStays ==
  ASSUME UNCHANGED <<root, graph>>
  PROVE  RootBlocks' = RootBlocks /\ EdgeSet' = EdgeSet
BY DEF RootBlocks, EdgeSet

(* Only FollowRoot, FollowField and the end of the last frame show.        *)
LEMMA TraceStep ==
  ASSUME MarkInv, MarkInv', [MarkNext]_mvars
  PROVE  [Tracing!TraceNext]_(Tracing!tvars)
<1>1. ASSUME UNCHANGED <<marked, root, graph>>, (pc' = "done") = (pc = "done")
      PROVE  UNCHANGED Tracing!tvars
  BY <1>1, GraphStays DEF Tracing!tvars
<1>2. CASE FollowRoot
  <2> DEFINE q == <<act[2], desc[1], base, desc[2]>>
  <2>1. /\ pc = "root" /\ pc' = "enter" /\ desc[2] <= PartFields(act[2], desc[1])
        /\ root[q] # NIL /\ marked' = marked \cup {root[q]} /\ UNCHANGED <<root, graph>>
    BY <1>2 DEF FollowRoot, AtRoot, RootPointer, Unmarked
  <2>2. q \in FramePointers
    BY <2>1, Idle, FrameStep
  <2>3. root[q] \in RootBlocks /\ root[q] \in Blocks
    BY <2>1, <2>2 DEF RootBlocks, MarkInv, MarkTypes
  <2>4. (pc = "done") = FALSE /\ (pc' = "done") = (pc = "done")
    BY <2>1
  <2>5. Tracing!MarkOne(root[q])
    BY <2>1, <2>3, <2>4, GraphStays DEF Tracing!MarkOne
  <2> QED
    BY <2>3, <2>5 DEF Tracing!TraceNext
<1>3. CASE FollowField
  <2> DEFINE s == <<IF pc = "fixed" THEN 0 ELSE base, desc[2]>>
             t == ptr[Field]
  <2>1. /\ pc \in {"fixed", "elem"} /\ pc' = "enter" /\ t # NIL
        /\ marked' = marked \cup {t} /\ UNCHANGED <<root, graph>> /\ AtField
    BY <1>3 DEF FollowField, AtField, Unmarked
  <2>2. /\ Visiting /\ Field = <<act, s>> /\ s \in Slots(act) /\ Field \in Pointers
        /\ t = graph[Field]
    BY <2>1, FieldAt
  <2>3. act \in marked /\ act \in Blocks
    BY <2>2, AtBlock
  <2>4. t \in Blocks /\ t = graph[<<act, s>>]
    BY <2>1, <2>2 DEF MarkInv, MarkTypes
  <2> HIDE DEF t, s
  <2>5. <<act, t>> \in EdgeSet
    BY <2>2, <2>3, <2>4, EdgeOf DEF MarkInv
  <2>6. (pc = "done") = FALSE /\ (pc' = "done") = (pc = "done")
    BY <2>1
  <2>7. Tracing!MarkOne(t)
    BY <2>1, <2>3, <2>5, <2>6, GraphStays DEF Tracing!MarkOne
  <2> QED
    BY <2>4, <2>7 DEF Tracing!TraceNext
<1>4. CASE EndOfPart
  <2>1. /\ pc = "root" /\ UNCHANGED <<marked, root, graph>> /\ pc' \in {"root", "done"}
    BY <1>4 DEF EndOfPart
  <2>2. CASE pc' = "root"
    BY <1>1, <2>1, <2>2
  <2>3. CASE pc' = "done"
    <3>1. \A q \in FramePointers : root[q] = NIL \/ root[q] \in marked
      BY <2>1, <2>3 DEF MarkInv, Position, Seen
    <3>2. RootBlocks \subseteq marked
      BY <3>1 DEF RootBlocks
    <3>3. ASSUME NEW e \in EdgeSet, e[1] \in marked PROVE e[2] \in marked
      <4>1. PICK s \in Slots(e[1]) : graph[<<e[1], s>>] = e[2]
        BY DEF EdgeSet
      <4>2. AllScanned(e[1], marked) /\ e[2] \in Blocks
        BY <2>1, <3>3, Idle DEF EdgeSet
      <4> QED
        BY <4>1, <4>2, MarkAssumption DEF AllScanned, Seen
    <3>4. Tracing!Closed(marked)
      BY <3>2, <3>3 DEF Tracing!Closed
    <3>5. (pc = "done") = FALSE /\ (pc' = "done") = TRUE
      BY <2>1, <2>3
    <3>6. Tracing!Finish
      BY <2>1, <3>4, <3>5, GraphStays DEF Tracing!Finish
    <3> QED
      BY <3>6 DEF Tracing!TraceNext
  <2> QED
    BY <2>1, <2>2, <2>3
<1>5. CASE \/ SkipRoot \/ EnterSystem \/ EnterFixed \/ EnterOpen \/ SkipField \/ EndFixed
           \/ NextElem \/ EndElem
  <2>1. UNCHANGED <<marked, root, graph>> /\ pc # "done" /\ pc' # "done"
    BY <1>5 DEF SkipRoot, AtRoot, EnterSystem, EnterFixed, EnterOpen, SkipField, AtField,
                EndFixed, NextElem, EndElem
  <2> QED
    BY <1>1, <2>1
<1>6. CASE ReturnToRoot \/ ReturnToBlock
  <2>1. UNCHANGED <<marked, root, graph>> /\ pc # "done" /\ pc' # "done"
    BY <1>6 DEF ReturnToRoot, ReturnToBlock
  <2> QED
    BY <1>1, <2>1
<1>7. CASE UNCHANGED mvars
  BY <1>1, <1>7 DEF mvars
<1> QED
  BY <1>2, <1>3, <1>4, <1>5, <1>6, <1>7 DEF MarkNext

LEMMA TraceStart == MarkInit => Tracing!TraceInit
<1> SUFFICES ASSUME MarkInit PROVE Tracing!TraceInit
  OBVIOUS
<1>1. RootBlocks \subseteq Blocks /\ EdgeSet \subseteq Blocks \X Blocks
  BY MarkInitInv, EdgeOf DEF MarkInv
<1>2. marked = {} /\ (pc = "done") = FALSE
  BY DEF MarkInit
<1> QED
  BY <1>1, <1>2 DEF Tracing!TraceInit

(* Marking depth first, with the way back kept in the pointers followed,   *)
(* marks only what Trace would mark next, and MarkIt ends only when every  *)
(* pointer of a frame or a marked block leads to a marked block            *)
(* (Storage.c: MarkIt, MarkABlock).                                        *)
THEOREM MarkTraces == MarkSpec => ImplementsTrace
<1>1. MarkInv /\ MarkInv' /\ [MarkNext]_mvars => [Tracing!TraceNext]_(Tracing!tvars)
  BY TraceStep
<1> QED
  BY <1>1, InvariantHolds, TraceStart, PTL DEF MarkSpec, ImplementsTrace, Tracing!TraceSpec

-----------------------------------------------------------------------------
(* What is marked lies in every closed set, and at the end it is closed.   *)
TraceInv ==
  /\ Tracing!TraceTypeOK
  /\ \A S \in SUBSET Blocks : Tracing!Closed(S) => marked \subseteq S
  /\ pc = "done" => Tracing!Closed(marked)

LEMMA TraceInitInv == Tracing!TraceInit => TraceInv
  BY DEF Tracing!TraceInit, TraceInv, Tracing!TraceTypeOK

LEMMA TraceStepInv == TraceInv /\ [Tracing!TraceNext]_(Tracing!tvars) => TraceInv'
<1> SUFFICES ASSUME TraceInv, [Tracing!TraceNext]_(Tracing!tvars) PROVE TraceInv'
  OBVIOUS
<1>1. ASSUME NEW b \in Blocks, Tracing!MarkOne(b) PROVE TraceInv'
  <2>1. Tracing!TraceTypeOK'
    BY <1>1 DEF TraceInv, Tracing!TraceTypeOK, Tracing!MarkOne
  <2>2. ASSUME NEW S \in SUBSET Blocks, Tracing!Closed(S)' PROVE marked' \subseteq S
    <3>1. Tracing!Closed(S) /\ marked \subseteq S
      BY <1>1, <2>2 DEF TraceInv, Tracing!MarkOne, Tracing!Closed
    <3>2. b \in S
      <4>1. CASE b \in RootBlocks
        BY <3>1, <4>1 DEF Tracing!Closed
      <4>2. CASE \E a \in marked : <<a, b>> \in EdgeSet
        <5>1. PICK a \in marked : <<a, b>> \in EdgeSet
          BY <4>2
        <5>2. <<a, b>>[1] = a /\ <<a, b>>[2] = b
          OBVIOUS
        <5> QED
          BY <3>1, <5>1, <5>2 DEF Tracing!Closed
      <4> QED
        BY <1>1, <4>1, <4>2 DEF Tracing!MarkOne
    <3> QED
      BY <1>1, <3>1, <3>2 DEF Tracing!MarkOne
  <2>3. ~ (pc = "done")'
    BY <1>1 DEF Tracing!MarkOne
  <2> QED
    BY <2>1, <2>2, <2>3 DEF TraceInv
<1>2. ASSUME Tracing!Finish PROVE TraceInv'
  BY <1>2 DEF TraceInv, Tracing!TraceTypeOK, Tracing!Finish, Tracing!Closed
<1>3. ASSUME UNCHANGED Tracing!tvars PROVE TraceInv'
  BY <1>3 DEF TraceInv, Tracing!TraceTypeOK, Tracing!tvars, Tracing!Closed
<1> QED
  BY <1>1, <1>2, <1>3 DEF Tracing!TraceNext

LEMMA TraceInvReachable == TraceInv => Tracing!MarksReachable
<1> SUFFICES ASSUME TraceInv, pc = "done" PROVE marked = Tracing!Reachable
  BY DEF Tracing!MarksReachable
<1>1. Tracing!Closed(marked) /\ marked \in SUBSET Blocks
  BY DEF TraceInv, Tracing!TraceTypeOK
<1>2. ASSUME NEW b \in marked PROVE b \in Tracing!Reachable
  BY <1>1, <1>2 DEF TraceInv, Tracing!Reachable
<1>3. ASSUME NEW b \in Tracing!Reachable PROVE b \in marked
  BY <1>1, <1>3 DEF Tracing!Reachable
<1> QED
  BY <1>2, <1>3

(* Marking in any order, once it ends, has marked the blocks the program   *)
(* can still reach, no fewer and no more, whatever the roots and the       *)
(* pointers between the blocks (Storage.c: Mark), so the sweep frees       *)
(* exactly the garbage.                                                    *)
THEOREM MarkingCorrect == Tracing!TraceSpec => []Tracing!MarksReachable
<1> QED
  BY TraceInitInv, TraceStepInv, TraceInvReachable, PTL DEF Tracing!TraceSpec

(* When Mark returns, every pointer it changed has its value back, every   *)
(* tag addresses the start of its table, and the marked blocks are those   *)
(* the program can reach (Storage.c: MarkABlock; the sweep relies on all   *)
(* three).                                                                 *)
THEOREM MarkRestores == MarkSpec => []Restored
<1>1. MarkInv /\ Tracing!MarksReachable => Restored
  <2> SUFFICES ASSUME MarkInv, Tracing!MarksReachable, pc = "done"
               PROVE  /\ ptr = graph
                      /\ \A b \in Blocks : place[b] = Start(b)
                      /\ marked = Tracing!Reachable
    BY DEF Restored
  <2>1. ~Visiting
    BY DEF Visiting
  <2>2. \A b \in Blocks : place[b] = Start(b) /\ \A s \in Slots(b) : ptr[<<b, s>>] = graph[<<b, s>>]
    BY <2>1, AtRest
  <2>3. ASSUME NEW q \in Pointers PROVE ptr[q] = graph[q]
    <3>1. PICK b \in Blocks : q \in {b} \X Slots(b)
      BY DEF Pointers
    <3>2. q = <<b, q[2]>> /\ q[2] \in Slots(b)
      BY <3>1
    <3> QED
      BY <2>2, <3>2
  <2>4. ptr = graph
    BY <2>3 DEF MarkInv, MarkTypes
  <2>5. marked = Tracing!Reachable
    BY DEF Tracing!MarksReachable
  <2> QED
    BY <2>2, <2>4, <2>5
<1> QED
  BY <1>1, MarkingCorrect, MarkTraces, InvariantHolds, PTL DEF ImplementsTrace

-----------------------------------------------------------------------------
(* The entry at a place in the stack, and the visit it belongs to. *)
VisitAt(w, i) == w[Len(stack) - i + 1]

LEMMA EntryAt ==
  ASSUME MarkTypes, NEW w, InStep(w, stack)
  PROVE  /\ Len(stack) \in Nat /\ DOMAIN stack = 1 .. Len(stack)
         /\ DOMAIN w = 1 .. Len(stack)
         /\ \A i \in 1 .. Len(stack) : /\ VisitAt(w, i).entry = stack[i]
                                       /\ Len(stack) - i + 1 \in 1 .. Len(stack)
                                       /\ Len(stack) - (Len(stack) - i + 1) + 1 = i
<1> DEFINE n == Len(stack)
<1>1. stack \in Seq(Entries)
  BY DEF MarkTypes
<1>2. n \in Nat /\ DOMAIN stack = 1 .. n /\ DOMAIN w = 1 .. n
  BY <1>1, LenProperties DEF InStep
<1>3. \A i \in 1 .. n : VisitAt(w, i).entry = stack[i]
  BY DEF InStep, VisitAt
<1> HIDE DEF n
<1>4. \A i \in 1 .. n : n - i + 1 \in 1 .. n /\ n - (n - i + 1) + 1 = i
  BY <1>2
<1> QED
  BY <1>2, <1>3, <1>4 DEF n

(* The pointer that leads back out of a block that is not finished is the  *)
(* only one of the block's that is changed.                                *)
LEMMA OneChanged ==
  ASSUME MarkInv, NEW w, WayBack(w), NEW k \in DOMAIN w, Follows(w[k])
  PROVE  /\ w[k].act \in Blocks /\ w[k].act \in marked
         /\ SlotOf(w[k], place) \in Slots(w[k].act)
         /\ Changed(w[k].act) = {SlotOf(w[k], place)}
<1> DEFINE n == Len(stack)
           v == w[k]
           y == NextIn(w, n, Here, k)
<1>1. k \in 1 .. n /\ DOMAIN w = 1 .. n
  BY DEF WayBack, InStep
<1>2. FromBlock(v, y, place, ptr)
  BY <1>1 DEF WayBack, Chain, Leads
<1>3. /\ SlotOf(v, place) \in Slots(v.act) /\ ptr[<<v.act, SlotOf(v, place)>>] = v.last
      /\ graph[<<v.act, SlotOf(v, place)>>] = y.act /\ y.act # v.last
  BY <1>2 DEF FromBlock
<1>4. Once(w, n, marked)
  BY DEF WayBack
<1> HIDE DEF y, n
<1>5. v.act \in marked /\ v.act \in Blocks
  BY <1>1, <1>4 DEF Once, MarkInv, MarkTypes
<1>6. SlotOf(v, place) \in Changed(v.act)
  BY <1>3 DEF Changed
<1>7. ASSUME NEW s \in Changed(v.act) PROVE s = SlotOf(v, place)
  <2>1. s \in Slots(v.act) /\ ptr[<<v.act, s>>] # graph[<<v.act, s>>]
    BY DEF Changed
  <2>2. PICK j \in DOMAIN w : Follows(w[j]) /\ w[j].act = v.act /\ SlotOf(w[j], place) = s
    BY <1>5, <2>1 DEF WayBack, PointersKept
  <2>3. j = k
    BY <1>1, <1>4, <2>2 DEF Once
  <2> QED
    BY <2>2, <2>3
<1> QED
  BY <1>3, <1>5, <1>6, <1>7

(* While a block is visited, exactly the blocks MarkABlock will return to  *)
(* have a pointer changed, one each, at the place their tag addresses: the *)
(* stack never holds more returns than there are blocks (Storage.c:        *)
(* MarkABlock).                                                            *)
THEOREM ReversedOnWayBack == MarkSpec => []OnlyWayBackChanged
<1>1. MarkInv => OnlyWayBackChanged
  <2> SUFFICES ASSUME MarkInv PROVE OnlyWayBackChanged
    OBVIOUS
  <2> DEFINE pending == {b \in Blocks : Changed(b) # {}}
             n == Len(stack)
  <2>1. PICK w : WayBack(w)
    BY DEF MarkInv
  <2>2. /\ n \in Nat /\ DOMAIN stack = 1 .. n /\ DOMAIN w = 1 .. n
        /\ \A i \in 1 .. n : /\ VisitAt(w, i).entry = stack[i] /\ n - i + 1 \in 1 .. n
                             /\ n - (n - i + 1) + 1 = i
    BY <2>1, EntryAt DEF MarkInv, WayBack
  <2>3. \A k \in DOMAIN w : Follows(w[k]) =>
          /\ w[k].act \in pending /\ w[k].act \in marked
          /\ SlotOf(w[k], place) \in Slots(w[k].act)
          /\ Changed(w[k].act) = {SlotOf(w[k], place)}
    BY <2>1, OneChanged
  <2>4. ASSUME NEW b \in pending PROVE \E k \in DOMAIN w : Follows(w[k]) /\ w[k].act = b
    <3>1. PICK s \in Slots(b) : ptr[<<b, s>>] # graph[<<b, s>>]
      BY DEF Changed
    <3> QED
      BY <2>1, <3>1 DEF WayBack, PointersKept
  <2>5. pending \subseteq marked
    BY <2>3, <2>4
  <2>6. ASSUME NEW b \in pending
        PROVE  \E e \in Slots(b) : Changed(b) = {e} /\ e[2] = place[b]
    <3>1. PICK k \in DOMAIN w : Follows(w[k]) /\ w[k].act = b
      BY <2>4
    <3>2. SlotOf(w[k], place) \in Slots(b) /\ Changed(b) = {SlotOf(w[k], place)}
      BY <2>3, <3>1
    <3>3. SlotOf(w[k], place)[2] = place[b]
      BY <3>1 DEF SlotOf
    <3> QED
      BY <3>2, <3>3
  <2>7. Cardinality(pending) = Cardinality(Returns)
    <3> DEFINE back == [i \in Returns |-> VisitAt(w, i).act]
    <3> HIDE DEF n, pending
    <3>1. /\ Returns \subseteq 1 .. n
          /\ \A i \in 1 .. n : i \in Returns <=> Follows(VisitAt(w, i))
      BY <2>2 DEF Returns, Follows
    <3>2. \A i \in 1 .. n : VisitAt(w, i) = w[n-i+1]
      BY DEF VisitAt, n
    <3>3. IsFiniteSet(Returns)
      <4>1. IsFiniteSet(1 .. n)
        BY <2>2, FS_Interval
      <4>2. Returns \in SUBSET (1 .. n)
        BY <3>1
      <4> QED
        BY <4>1, <4>2, FS_Subset
    <3>4. back \in [Returns -> pending]
      BY <2>2, <2>3, <3>1, <3>2
    <3>5. ASSUME NEW i \in Returns, NEW j \in Returns, back[i] = back[j] PROVE i = j
      <4>1. i \in 1 .. n /\ j \in 1 .. n /\ n - i + 1 \in 1 .. n /\ n - j + 1 \in 1 .. n
        BY <2>2, <3>1
      <4>2. /\ Follows(w[n-i+1]) /\ Follows(w[n-j+1]) /\ w[n-i+1].act = w[n-j+1].act
        BY <3>1, <3>2, <3>5, <4>1
      <4>3. n - i + 1 = n - j + 1
        BY <2>1, <4>1, <4>2 DEF WayBack, Once, n
      <4> QED
        BY <2>2, <4>1, <4>3
    <3>6. ASSUME NEW b \in pending PROVE \E i \in Returns : back[i] = b
      <4>1. PICK k \in DOMAIN w : Follows(w[k]) /\ w[k].act = b
        BY <2>4 DEF pending
      <4>2. n - k + 1 \in 1 .. n /\ n - (n - k + 1) + 1 = k
        BY <2>2, <4>1
      <4>3. VisitAt(w, n - k + 1) = w[k]
        BY <3>2, <4>2
      <4>4. n - k + 1 \in Returns
        BY <3>1, <4>1, <4>2, <4>3
      <4> QED
        BY <4>1, <4>3, <4>4
    <3> HIDE DEF back
    <3>7. back \in Bijection(Returns, pending)
      BY <3>4, <3>5, <3>6, Fun_IsBij
    <3>8. ExistsBijection(Returns, pending)
      BY <3>7, Fun_ExistsBij
    <3> QED
      BY <3>3, <3>8, FS_Bijection
  <2> QED
    BY <2>5, <2>6, <2>7 DEF OnlyWayBackChanged
<1> QED
  BY <1>1, InvariantHolds, PTL
=============================================================================

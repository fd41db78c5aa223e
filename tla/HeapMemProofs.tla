---------------------------- MODULE HeapMemProofs ----------------------------
(***************************************************************************)
(* The memory of the heap implements the store of blocks, for every size   *)
(* of the heap, all requests and all type descriptors, as long as          *)
(* ChangeHeapSize never grows the heap by 8 bytes (Grown).                 *)
(*                                                                         *)
(* The invariant (MemInv) says that the free list leads from the anchor    *)
(* through its members in the order of their addresses to the sentinel     *)
(* (Linked8), that each of them has a header with its size (Headed), that  *)
(* these blocks and those in use tile the heap (HeapInv of Heap), and that *)
(* the blocks in use hold what was stored in them.  Every operation is     *)
(* shown to write only words of the list, of free blocks, or of the block  *)
(* it hands out; that these are not words of another block in use follows  *)
(* from the tiling, and the tiling from Heap, once the step is known to be *)
(* a step of Heap (Closing).                                               *)
(*                                                                         *)
(* The loops of the code are walks to the sentinel.  LoopEnds says of a    *)
(* loop that it keeps an invariant and comes to its end if each step gets  *)
(* nearer (Steps8).                                                        *)
(***************************************************************************)
EXTENDS HeapMem, SequenceTheorems, FiniteSetTheorems, WellFoundedInduction, TLAPS

(* Every set of natural numbers that has a member has a least one. *)
LEMMA LeastOf ==
  ASSUME NEW S \in SUBSET Nat, S # {}
  PROVE  \E m \in S : \A x \in S : m <= x
<1> DEFINE R == {ss \in Nat \X Nat : ss[1] < ss[2]}
<1>1. IsWellFoundedOn(R, Nat)
  BY NatLessThanWellFounded DEF OpToRel
<1>2. PICK m \in S : \A x \in S : ~ (<<x, m>> \in R)
  BY <1>1, WFMin
<1>3. \A x \in S : ~ (x < m)
  BY <1>2
<1> QED
  BY <1>3

(* Induction over the natural numbers, for a set. *)
LEMMA Induction ==
  ASSUME NEW S, 0 \in S, \A n \in Nat : n \in S => n + 1 \in S
  PROVE  Nat \subseteq S
<1> SUFFICES ASSUME ~ (Nat \subseteq S) PROVE FALSE
  OBVIOUS
<1>1. Nat \ S \in SUBSET Nat /\ Nat \ S # {}
  OBVIOUS
<1>2. PICK n \in Nat \ S : \A x \in Nat \ S : n <= x
  BY <1>1, LeastOf
<1>3. n \in Nat /\ n # 0
  BY <1>2
<1>4. n - 1 \in Nat /\ n - 1 \in S
  BY <1>2, <1>3
<1> QED
  BY <1>2, <1>4

-----------------------------------------------------------------------------
(* The values a loop passes through. *)
After(f, F, x, n) ==
  f = [k \in 0 .. n |-> f[k]] /\ f[0] = x /\ \A k \in 1 .. n : f[k] = F[f[k-1]]

(* The steps of a loop exist: each is defined from the one before. *)
LEMMA LoopSteps ==
  ASSUME NEW F, NEW x
  PROVE  \E f : f = [n \in Nat |-> IF n = 0 THEN x ELSE F[f[n-1]]]
<1> DEFINE S == {n \in Nat : \E f : After(f, F, x, n)}
           U == {n \in Nat : \A f, g, k : k \in Nat /\ n <= k /\ After(f, F, x, n) /\ After(g, F, x, k) => f[n] = g[n]}
<1>1. 0 \in S
  <2> DEFINE f == [k \in 0 .. 0 |-> x]
  <2>1. After(f, F, x, 0)
    BY DEF After
  <2> QED
    BY <2>1
<1>2. ASSUME NEW n \in Nat, n \in S PROVE n + 1 \in S
  <2>1. PICK f : After(f, F, x, n)
    BY <1>2
  <2> DEFINE g == [k \in 0 .. n + 1 |-> IF k = n + 1 THEN F[f[n]] ELSE f[k]]
  <2>2. After(g, F, x, n + 1)
    <3>1. g = [k \in 0 .. n + 1 |-> g[k]] /\ g[0] = x
      BY <2>1 DEF After
    <3>2. ASSUME NEW k \in 1 .. n + 1 PROVE g[k] = F[g[k-1]]
      <4>1. k - 1 \in 0 .. n + 1 /\ k - 1 # n + 1 /\ g[k-1] = f[k-1]
        BY <3>2
      <4>2. CASE k = n + 1
        BY <4>1, <4>2
      <4>3. CASE k # n + 1
        <5>1. k \in 1 .. n
          BY <3>2, <4>3
        <5>2. f[k] = F[f[k-1]]
          BY <2>1, <5>1 DEF After
        <5> QED
          BY <4>1, <4>3, <5>2
      <4> QED
        BY <4>2, <4>3
    <3> HIDE DEF g
    <3> QED
      BY <3>1, <3>2 DEF After
  <2> QED
    BY <2>2
<1>3. Nat \subseteq S
  <2> HIDE DEF S
  <2> QED
    BY <1>1, <1>2, Induction
<1> DEFINE p(n) == CHOOSE f : After(f, F, x, n)
           h == [n \in Nat |-> p(n)[n]]
<1>4. \A n \in Nat : After(p(n), F, x, n)
  BY <1>3
<1>5. Nat \subseteq U
  <2>1. 0 \in U
    BY DEF After
  <2>2. ASSUME NEW n \in Nat, n \in U PROVE n + 1 \in U
    <3> SUFFICES ASSUME NEW f, NEW g, NEW k, k \in Nat, n + 1 <= k,
                        After(f, F, x, n + 1), After(g, F, x, k)
                 PROVE  f[n+1] = g[n+1]
      OBVIOUS
    <3> DEFINE f2 == [i \in 0 .. n |-> f[i]]
    <3>1. After(f2, F, x, n)
      <4>1. f2 = [i \in 0 .. n |-> f2[i]] /\ f2[0] = x
        BY DEF After
      <4>2. ASSUME NEW i \in 1 .. n PROVE f2[i] = F[f2[i-1]]
        <5>1. i \in 1 .. n + 1 /\ i \in 0 .. n /\ i - 1 \in 0 .. n
          BY <4>2
        <5>2. f[i] = F[f[i-1]]
          BY <5>1 DEF After
        <5> QED
          BY <5>1, <5>2
      <4> HIDE DEF f2
      <4> QED
        BY <4>1, <4>2 DEF After
    <3>2. f2[n] = g[n]
      BY <2>2, <3>1
    <3>3. f[n+1] = F[f[n]] /\ g[n+1] = F[g[n]]
      <4>1. n + 1 \in 1 .. n + 1 /\ n + 1 \in 1 .. k /\ (n + 1) - 1 = n
        OBVIOUS
      <4> QED
        BY <4>1 DEF After
    <3>4. f2[n] = f[n]
      OBVIOUS
    <3> QED
      BY <3>2, <3>3, <3>4
  <2> HIDE DEF U
  <2> QED
    BY <2>1, <2>2, Induction
<1> HIDE DEF p, S
<1>6. ASSUME NEW n \in Nat, n # 0 PROVE p(n)[n-1] = p(n-1)[n-1]
  <2>1. n - 1 \in Nat /\ n - 1 <= n /\ After(p(n-1), F, x, n-1) /\ After(p(n), F, x, n)
    BY <1>4, <1>6
  <2>2. n - 1 \in U
    BY <1>5, <2>1
  <2> QED
    BY <2>1, <2>2
<1>7. h = [n \in Nat |-> IF n = 0 THEN x ELSE F[h[n-1]]]
  <2>1. ASSUME NEW n \in Nat PROVE h[n] = IF n = 0 THEN x ELSE F[h[n-1]]
    <3>1. CASE n = 0
      BY <1>4, <3>1 DEF After
    <3>2. CASE n # 0
      <4>1. n \in 1 .. n /\ n - 1 \in Nat
        BY <3>2
      <4>2. p(n)[n] = F[p(n)[n-1]]
        BY <1>4, <4>1 DEF After
      <4> QED
        BY <1>6, <3>2, <4>1, <4>2
    <3> QED
      BY <3>1, <3>2
  <2> HIDE DEF U
  <2> QED
    BY <2>1
<1> QED
  BY <1>7

(* What a loop leaves: an invariant I of its steps holds at the end, and   *)
(* it has come to its end, if each step makes V less.                      *)
LEMMA LoopEnds ==
  ASSUME NEW F, NEW x, NEW I, NEW V, x \in I,
         \A y \in I : F[y] \in I /\ V[y] \in Nat /\ (F[y] = y \/ V[F[y]] < V[y]),
         V[x] <= MaxSteps, MaxSteps \in Nat
  PROVE  Loop(F, x) \in I /\ F[Loop(F, x)] = Loop(F, x)
<1> DEFINE f == CHOOSE g : g = [n \in Nat |-> IF n = 0 THEN x ELSE F[g[n-1]]]
<1>1. f = [n \in Nat |-> IF n = 0 THEN x ELSE F[f[n-1]]]
  BY LoopSteps
<1>2. Loop(F, x) = f[MaxSteps]
  BY DEF Loop
<1> HIDE DEF f
<1>3. f[0] = x /\ \A n \in Nat : f[n+1] = F[f[n]]
  <2>1. ASSUME NEW n \in Nat PROVE f[n+1] = F[f[n]]
    <3>1. n + 1 \in Nat /\ n + 1 # 0 /\ (n + 1) - 1 = n
      OBVIOUS
    <3> QED
      BY <1>1, <3>1
  <2> QED
    BY <1>1, <2>1
<1> DEFINE S == {n \in Nat : f[n] \in I /\ (V[f[n]] + n <= V[x] \/ F[f[n]] = f[n])}
<1>4. 0 \in S
  BY <1>3
<1>5. ASSUME NEW n \in Nat, n \in S PROVE n + 1 \in S
  BY <1>3, <1>5
<1>6. MaxSteps \in S
  <2> HIDE DEF S
  <2> QED
    BY <1>4, <1>5, Induction
<1>7. f[MaxSteps] \in I /\ (V[f[MaxSteps]] + MaxSteps <= V[x] \/ F[f[MaxSteps]] = f[MaxSteps])
  BY <1>6
<1>8. F[f[MaxSteps]] = f[MaxSteps]
  BY <1>7
<1> QED
  BY <1>2, <1>7, <1>8

(* The same steps, one by one. *)
StepsOf(F, x) == CHOOSE g : g = [n \in Nat |-> IF n = 0 THEN x ELSE F[g[n-1]]]

LEMMA LoopPasses ==
  ASSUME NEW F, NEW x
  PROVE  StepsOf(F, x)[0] = x /\ \A n \in Nat : StepsOf(F, x)[n+1] = F[StepsOf(F, x)[n]]
<1> DEFINE f == CHOOSE g : g = [n \in Nat |-> IF n = 0 THEN x ELSE F[g[n-1]]]
<1>1. f = [n \in Nat |-> IF n = 0 THEN x ELSE F[f[n-1]]]
  BY LoopSteps
<1> HIDE DEF f
<1>2. ASSUME NEW n \in Nat PROVE f[n+1] = F[f[n]]
  <2>1. n + 1 \in Nat /\ n + 1 # 0 /\ (n + 1) - 1 = n
    OBVIOUS
  <2> QED
    BY <1>1, <2>1
<1>3. f[0] = x
  BY <1>1
<1>4. f = StepsOf(F, x)
  BY DEF StepsOf, f
<1> QED
  BY <1>2, <1>3, <1>4

(* The number of elements of an open array is a number; with one dimension *)
(* it is the length.                                                       *)
LEMMA ProductFacts ==
  ASSUME NEW lens \in Seq(Nat), lens # <<>>
  PROVE  Product(lens) \in Nat /\ (Len(lens) = 1 => Product(lens) = lens[1])
<1> DEFINE dim == Len(lens)
           D == 0 .. dim
           F == [s \in Nat \X Int |-> <<s[1] + 1, IF s[1] + 1 \in 1 .. dim THEN s[2] * lens[s[1] + 1] ELSE 1>>]
           p == CHOOSE g : g = [i \in D |-> IF i = 0 THEN 1 ELSE g[i-1] * lens[i]]
<1>1. dim \in Nat \ {0} /\ \A i \in 1 .. dim : lens[i] \in Nat
  OBVIOUS
<1>2. Product(lens) = p[dim]
  BY DEF Product
<1>3. \E g : g = [i \in D |-> IF i = 0 THEN 1 ELSE g[i-1] * lens[i]]
  <2> DEFINE f == StepsOf(F, <<0, 1>>)
  <2>1. f[0] = <<0, 1>> /\ \A n \in Nat : f[n+1] = F[f[n]]
    <3> DEFINE x == <<0, 1>>
    <3> HIDE DEF F, dim, x
    <3>1. StepsOf(F, x)[0] = x
      BY LoopPasses
    <3>2. \A n \in Nat : StepsOf(F, x)[n+1] = F[StepsOf(F, x)[n]]
      BY LoopPasses
    <3> QED
      BY <3>1, <3>2 DEF x
  <2> HIDE DEF f
  <2> DEFINE S == {k \in Nat : \E y \in Int : f[k] = <<k, y>>}
  <2>2. 0 \in S
    BY <2>1
  <2>3. ASSUME NEW k \in Nat, k \in S PROVE k + 1 \in S
    <3>1. PICK y \in Int : f[k] = <<k, y>>
      BY <2>3
    <3>2. k + 1 \in Nat /\ k + 1 # 0 /\ (k + 1) - 1 = k
      OBVIOUS
    <3> HIDE DEF F
    <3>3. f[k+1] = F[<<k, y>>]
      BY <2>1, <3>1, <3>2
    <3>4. F[<<k, y>>] = <<k + 1, IF k + 1 \in 1 .. dim THEN y * lens[k+1] ELSE 1>>
      BY DEF F
    <3>5. (IF k + 1 \in 1 .. dim THEN y * lens[k+1] ELSE 1) \in Int
      <4>1. CASE k + 1 \in 1 .. dim
        <5> DEFINE l == lens[k+1]
        <5>1. l \in Int
          BY <1>1, <4>1
        <5> HIDE DEF l
        <5>2. y * l \in Int
          BY <5>1
        <5> QED
          BY <4>1, <5>2 DEF l
      <4>2. CASE ~ (k + 1 \in 1 .. dim)
        BY <4>2
      <4> QED
        BY <4>1, <4>2
    <3> QED
      BY <3>2, <3>3, <3>4, <3>5
  <2>4. Nat \subseteq S
    <3> HIDE DEF S
    <3> QED
      BY <2>2, <2>3, Induction
  <2> DEFINE g == [i \in D |-> f[i][2]]
  <2>5. ASSUME NEW i \in D PROVE g[i] = IF i = 0 THEN 1 ELSE g[i-1] * lens[i]
    <3>1. CASE i = 0
      BY <2>1, <3>1
    <3>2. CASE i # 0
      <4>1. i \in Nat /\ i - 1 \in Nat /\ i - 1 \in D /\ (i - 1) + 1 = i /\ i \in 1 .. dim
        BY <1>1, <3>2
      <4>2. PICK y \in Int : f[i-1] = <<i - 1, y>>
        BY <2>4, <4>1
      <4>3. f[i] = F[f[i-1]]
        BY <2>1, <3>2, <4>1
      <4>4. F[<<i - 1, y>>] = <<(i - 1) + 1, IF (i - 1) + 1 \in 1 .. dim THEN y * lens[(i - 1) + 1] ELSE 1>>
        BY <4>1
      <4>5. f[i][2] = y * lens[i] /\ f[i-1][2] = y
        BY <4>1, <4>2, <4>3, <4>4
      <4> QED
        BY <3>2, <4>1, <4>5
    <3> QED
      BY <3>1, <3>2
  <2>6. g = [i \in D |-> IF i = 0 THEN 1 ELSE g[i-1] * lens[i]]
    <3>1. g = [i \in D |-> g[i]]
      OBVIOUS
    <3> HIDE DEF g, D
    <3> QED
      BY <2>5, <3>1
  <2> HIDE DEF g
  <2> QED
    BY <2>6
<1>4. p = [i \in D |-> IF i = 0 THEN 1 ELSE p[i-1] * lens[i]]
  BY <1>3
<1> HIDE DEF p
<1>5. p[0] = 1 /\ p[1] = p[0] * lens[1]
  BY <1>1, <1>4
<1> DEFINE T == {k \in Nat : k <= dim => p[k] \in Nat}
<1>6. 0 \in T
  BY <1>5
<1>7. ASSUME NEW k \in Nat, k \in T PROVE k + 1 \in T
  <2> SUFFICES ASSUME k + 1 <= dim PROVE p[k+1] \in Nat
    OBVIOUS
  <2> DEFINE x == p[k]
             l == lens[k+1]
  <2>1. x \in Nat /\ l \in Nat
    BY <1>1, <1>7
  <2>2. p[k+1] = x * l
    <3>1. k + 1 \in D /\ k + 1 # 0 /\ (k + 1) - 1 = k
      BY <1>1
    <3> QED
      BY <1>4, <3>1
  <2> HIDE DEF x, l
  <2>3. x * l \in Nat
    BY <2>1
  <2> QED
    BY <2>2, <2>3
<1>8. dim \in T
  <2> HIDE DEF T
  <2>1. Nat \subseteq T
    BY <1>6, <1>7, Induction
  <2> QED
    BY <1>1, <2>1
<1> QED
  <2>1. Product(lens) \in Nat
    BY <1>1, <1>2, <1>8
  <2>2. ASSUME Len(lens) = 1 PROVE Product(lens) = lens[1]
    BY <1>1, <1>2, <1>5, <2>2
  <2> QED
    BY <2>1, <2>2

(* Descriptors lie behind the heap, at even addresses. *)
LEMMA TextFacts ==
  Text \in Nat /\ Text % 2 = 0 /\ MaxHeapEnd < Text
BY HeapMemAssumption

-----------------------------------------------------------------------------
(* The addresses of the model. *)
LEMMA Places ==
  /\ MaxSteps \in Nat /\ MaxHeapEnd \in Nat /\ HeapStart \in Nat
  /\ Anchor = HeapStart + 4 /\ First = HeapStart + 12
  /\ Anchor % 8 = 0 /\ First % 8 = 0
  /\ Words \subseteq Nat /\ HeapStart \in Words /\ Anchor \in Words
  /\ \A w \in Words : w % 4 = 0 /\ HeapStart <= w /\ w <= MaxHeapEnd /\ w < AB_D
  /\ \A w \in Nat : HeapStart <= w /\ w <= MaxHeapEnd /\ w % 4 = 0 => w \in Words
BY HeapMemAssumption DEF MaxSteps, Anchor, First, Words, AB_D

(* The free list: the words of the blocks S lead from each to the next,    *)
(* from the anchor to the sentinel at e.                                   *)
Linked8(m, S, e) ==
  /\ S \subseteq Words /\ e \in Words /\ e % 8 = 0
  /\ \A b \in S : Anchor < b /\ b < e /\ b % 8 = 0
  /\ \A b \in S \cup {Anchor} : m[b] \in S \cup {e} /\ b < m[b]
  /\ \A b \in S \cup {Anchor} : \A x \in S : b < x => m[b] <= x

(* The granules from a block to the sentinel: they get fewer as a walk     *)
(* goes on.                                                                *)
Steps8(a, b) == (b - a) \div 8

LEMMA StepsDown ==
  ASSUME NEW a \in Nat, NEW b \in Nat, NEW e \in Nat, a % 8 = 0, b % 8 = 0, e % 8 = 0,
         a < b, b <= e
  PROVE  Steps8(a, e) \in Nat /\ Steps8(b, e) \in Nat /\ Steps8(b, e) < Steps8(a, e)
BY DEF Steps8

(* A walk is never further from the sentinel than a loop has steps. *)
LEMMA StepsBound ==
  ASSUME NEW a \in Nat, NEW e \in Words, a <= e
  PROVE  Steps8(a, e) \in Nat /\ Steps8(a, e) <= MaxSteps
<1>1. e \in Nat /\ e <= MaxHeapEnd /\ MaxHeapEnd \in Nat
  BY Places
<1> QED
  BY <1>1 DEF Steps8, MaxSteps

(* The loop that follows the list finds its members, in the order of their *)
(* addresses.                                                              *)
LEMMA ListOfNodes ==
  ASSUME NEW m, NEW S, NEW e, Linked8(m, S, e)
  PROVE  /\ ListOf(m, e) \in Seq(S)
         /\ \A x \in S : \E i \in 1 .. Len(ListOf(m, e)) : ListOf(m, e)[i] = x
         /\ \A i, j \in 1 .. Len(ListOf(m, e)) : i < j => ListOf(m, e)[i] < ListOf(m, e)[j]
<1> DEFINE L == Seq(Words) \X Words
           F == [s \in L |-> IF s[2] = e THEN s ELSE <<Append(s[1], s[2]), m[s[2]]>>]
           x0 == <<<<>>, m[Anchor]>>
           Met(l, b) == /\ l \in Seq(S) /\ b \in S \cup {e}
                        /\ \A i \in 1 .. Len(l) : l[i] < b
                        /\ \A x \in S : x < b => \E i \in 1 .. Len(l) : l[i] = x
                        /\ \A i, j \in 1 .. Len(l) : i < j => l[i] < l[j]
           I == {s \in L : Met(s[1], s[2])}
           V == [s \in L |-> Steps8(s[2], e)]
<1>1. /\ S \subseteq Words /\ S \subseteq Nat /\ e \in Words /\ e \in Nat /\ e % 8 = 0
      /\ \A b \in S : b < e /\ b % 8 = 0 /\ Anchor < b
      /\ m[Anchor] \in S \cup {e} /\ \A x \in S : m[Anchor] <= x
      /\ \A b \in S : m[b] \in S \cup {e} /\ b < m[b] /\ \A x \in S : b < x => m[b] <= x
  BY Places DEF Linked8
<1>a. /\ m[Anchor] \in Nat /\ m[Anchor] \in Words /\ m[Anchor] <= e
      /\ \A b \in S : /\ b \in Nat /\ m[b] \in Nat /\ m[b] \in Words /\ m[b] <= e /\ m[b] % 8 = 0
      /\ \A y \in S \cup {e} : y \in Nat /\ y \in Words /\ y <= e /\ y % 8 = 0
  <2>1. \A y \in S \cup {e} : y \in Nat /\ y \in Words /\ y <= e /\ y % 8 = 0
    <3> TAKE y \in S \cup {e}
    <3>1. CASE y \in S
      <4>1. y < e
        BY <1>1, <3>1
      <4> QED
        BY <1>1, <3>1, <4>1
    <3>2. CASE y = e
      BY <1>1, <3>2
    <3> QED
      BY <3>1, <3>2
  <2>2. \A b \in S : b \in Nat /\ m[b] \in S \cup {e}
    BY <1>1
  <2>3. m[Anchor] \in S \cup {e}
    BY <1>1
  <2> QED
    BY <2>1, <2>2, <2>3
<1>2. x0 \in I
  <2>1. Met(<<>>, m[Anchor])
    <3>1. <<>> \in Seq(S) /\ Len(<<>>) = 0 /\ 1 .. 0 = {}
      OBVIOUS
    <3>2. \A x \in S : ~ (x < m[Anchor])
      BY <1>1, <1>a
    <3> QED
      BY <1>1, <3>1, <3>2
  <2>2. x0 \in L
    <3>1. <<>> \in Seq(Words)
      OBVIOUS
    <3> QED
      BY <1>a, <3>1
  <2> QED
    BY <2>1, <2>2
<1>3. ASSUME NEW l \in Seq(Words), NEW b \in S, Met(l, b)
      PROVE  Met(Append(l, b), m[b]) /\ <<Append(l, b), m[b]>> \in L
  <2>1. /\ Append(l, b) \in Seq(S) /\ Len(Append(l, b)) = Len(l) + 1 /\ Len(l) \in Nat
        /\ \A i \in 1 .. Len(l) : Append(l, b)[i] = l[i]
        /\ Append(l, b)[Len(l) + 1] = b /\ Append(l, b) \in Seq(Words)
    BY <1>1, <1>3
  <2> DEFINE k == Append(l, b)
  <2>2. \A i \in 1 .. Len(l) : l[i] \in S
    BY <1>3
  <2>3. \A i \in 1 .. Len(k) : i = Len(l) + 1 \/ i \in 1 .. Len(l)
    BY <2>1
  <2> HIDE DEF k
  <2>4. \A i \in 1 .. Len(k) : k[i] < m[b]
    <3> TAKE i \in 1 .. Len(k)
    <3>1. b < m[b] /\ m[b] \in Nat /\ b \in Nat
      BY <1>1
    <3>2. CASE i = Len(l) + 1
      BY <3>1, <3>2, <2>1 DEF k
    <3>3. CASE i \in 1 .. Len(l)
      <4>1. k[i] = l[i] /\ l[i] < b /\ l[i] \in Nat
        BY <3>3, <2>1, <2>2, <1>1, <1>3 DEF k
      <4> QED
        BY <4>1, <3>1
    <3> QED
      BY <2>3, <3>2, <3>3
  <2>5. ASSUME NEW x \in S, x < m[b] PROVE \E i \in 1 .. Len(k) : k[i] = x
    <3>1. x <= b
      <4>1. b \in Nat /\ x \in Nat /\ m[b] \in Nat /\ (b < x => m[b] <= x)
        BY <1>1, <1>a
      <4> QED
        BY <4>1, <2>5
    <3>2. CASE x = b
      <4>1. Len(l) + 1 \in 1 .. Len(k) /\ k[Len(l) + 1] = b
        BY <2>1 DEF k
      <4> QED
        BY <3>2, <4>1
    <3>3. CASE x # b
      <4>1. x < b
        BY <3>1, <3>3, <1>1
      <4>2. PICK i \in 1 .. Len(l) : l[i] = x
        BY <4>1, <1>3
      <4>3. i \in 1 .. Len(k) /\ k[i] = x
        BY <4>2, <2>1 DEF k
      <4> QED
        BY <4>3
    <3> QED
      BY <3>2, <3>3
  <2>6. \A i, j \in 1 .. Len(k) : i < j => k[i] < k[j]
    <3> SUFFICES ASSUME NEW i \in 1 .. Len(k), NEW j \in 1 .. Len(k), i < j PROVE k[i] < k[j]
      OBVIOUS
    <3>1. i \in 1 .. Len(l) /\ k[i] = l[i]
      BY <2>1 DEF k
    <3>2. CASE j = Len(l) + 1
      BY <3>1, <3>2, <2>1, <1>3 DEF k
    <3>3. CASE j \in 1 .. Len(l)
      BY <3>1, <3>3, <2>1, <1>3 DEF k
    <3> QED
      BY <2>3, <3>2, <3>3
  <2>7. m[b] \in S \cup {e} /\ m[b] \in Words /\ k \in Seq(S) /\ k \in Seq(Words)
    BY <1>1, <2>1 DEF k
  <2>8. Met(k, m[b])
    BY <2>4, <2>5, <2>6, <2>7
  <2> QED
    BY <2>7, <2>8 DEF k
<1> HIDE DEF Met
<1>4. ASSUME NEW s \in I
      PROVE  F[s] \in I /\ V[s] \in Nat /\ (F[s] = s \/ V[F[s]] < V[s])
  <2>1. s \in L /\ Met(s[1], s[2]) /\ s[1] \in Seq(Words) /\ s[2] \in S \cup {e}
    BY DEF Met
  <2>a. s[2] \in Nat /\ s[2] <= e /\ s[2] \in Words
    BY <2>1, <1>a
  <2>2. V[s] \in Nat
    BY <2>1, <2>a, <1>1, StepsBound
  <2>3. CASE s[2] = e
    BY <2>1, <2>2, <2>3
  <2>4. CASE s[2] # e
    <3>1. s[2] \in S
      BY <2>1, <2>4
    <3>2. F[s] = <<Append(s[1], s[2]), m[s[2]]>>
      BY <2>1, <2>4
    <3>3. F[s] \in L /\ Met(F[s][1], F[s][2]) /\ F[s][2] = m[s[2]]
      <4>1. Met(Append(s[1], s[2]), m[s[2]]) /\ <<Append(s[1], s[2]), m[s[2]]>> \in L
        BY <3>1, <2>1, <1>3
      <4> HIDE DEF L, F
      <4> QED
        BY <3>2, <4>1
    <3>4. m[s[2]] \in Nat /\ m[s[2]] % 8 = 0 /\ m[s[2]] <= e /\ s[2] < m[s[2]] /\ s[2] \in Nat /\ s[2] % 8 = 0
      BY <3>1, <1>1, <1>a
    <3>5. Steps8(m[s[2]], e) < Steps8(s[2], e)
      BY <3>4, <1>1, StepsDown
    <3>6. V[F[s]] = Steps8(m[s[2]], e) /\ V[s] = Steps8(s[2], e)
      BY <3>3, <2>1
    <3> QED
      BY <2>2, <3>3, <3>5, <3>6
  <2> QED
    BY <2>3, <2>4
<1>5. V[x0] <= MaxSteps /\ MaxSteps \in Nat
  <2>1. V[x0] = Steps8(m[Anchor], e)
    BY <1>2
  <2> QED
    BY <2>1, <1>1, <1>a, StepsBound, Places
<1> DEFINE r == Loop(F, x0)
<1>6. r \in I /\ F[r] = r
  <2> HIDE DEF I, F, V, x0
  <2> QED
    BY <1>2, <1>4, <1>5, LoopEnds
<1>7. ListOf(m, e) = r[1]
  BY DEF ListOf
<1> HIDE DEF r
<1>8. r \in L /\ Met(r[1], r[2]) /\ r[1] \in Seq(Words)
  BY <1>6
<1>9. r[2] = e
  <2> SUFFICES ASSUME r[2] # e PROVE FALSE
    OBVIOUS
  <2>1. r = <<Append(r[1], r[2]), m[r[2]]>>
    BY <1>6, <1>8
  <2>2. r[1] = Append(r[1], r[2])
    <3> DEFINE k == Append(r[1], r[2])
    <3>1. r[1] = <<k, m[r[2]]>>[1]
      BY <2>1, Zenon
    <3> HIDE DEF k
    <3>2. r[1] = k
      BY <3>1
    <3> QED
      BY <3>2 DEF k
  <2>3. Len(Append(r[1], r[2])) = Len(r[1]) + 1 /\ Len(r[1]) \in Nat
    BY <1>8
  <2> QED
    BY <2>2, <2>3
<1> QED
  BY <1>1, <1>7, <1>8, <1>9 DEF Met

(* The types of what is linked. *)
LEMMA LinkTypes ==
  ASSUME NEW m, NEW S, NEW e, Linked8(m, S, e)
  PROVE  /\ e \in Nat /\ e \in Words /\ e % 8 = 0 /\ e \notin S /\ Anchor \notin S
         /\ Anchor \in Nat /\ Anchor % 8 = 0
         /\ \A b \in S : b \in Nat /\ b \in Words /\ b % 8 = 0 /\ Anchor < b /\ b < e
         /\ \A b \in S \cup {Anchor} :
              /\ b \in Nat /\ b \in Words /\ b % 8 = 0 /\ Anchor <= b
              /\ m[b] \in S \cup {e} /\ m[b] \in Nat /\ m[b] \in Words /\ m[b] % 8 = 0
              /\ b < m[b] /\ m[b] <= e /\ b < e
              /\ \A x \in S : b < x => m[b] <= x
<1>1. /\ S \subseteq Words /\ e \in Words /\ e % 8 = 0 /\ e \in Nat
      /\ \A b \in S : Anchor < b /\ b < e /\ b % 8 = 0 /\ b \in Nat
      /\ Anchor \in Nat /\ Anchor \in Words /\ Anchor % 8 = 0
  BY Places DEF Linked8
<1>2. \A y \in S \cup {e} : y \in Nat /\ y \in Words /\ y <= e /\ y % 8 = 0
  <2> TAKE y \in S \cup {e}
  <2>1. CASE y \in S
    <3>1. y < e /\ y \in Nat
      BY <1>1, <2>1
    <3>2. y <= e
      BY <1>1, <3>1
    <3> QED
      BY <1>1, <2>1, <3>2
  <2>2. CASE y = e
    BY <1>1, <2>2
  <2> QED
    BY <2>1, <2>2
<1>3. ASSUME NEW b \in S \cup {Anchor}
      PROVE  /\ b \in Nat /\ b \in Words /\ b % 8 = 0 /\ Anchor <= b
             /\ m[b] \in S \cup {e} /\ b < m[b]
             /\ \A x \in S : b < x => m[b] <= x
  <2>1. m[b] \in S \cup {e} /\ b < m[b] /\ \A x \in S : b < x => m[b] <= x
    BY DEF Linked8
  <2>2. CASE b \in S
    BY <1>1, <2>1, <2>2
  <2>3. CASE b = Anchor
    BY <1>1, <2>1, <2>3
  <2> QED
    BY <2>2, <2>3
<1>4. ASSUME NEW b \in S \cup {Anchor} PROVE b < e /\ m[b] <= e
  <2>1. m[b] <= e /\ m[b] \in Nat /\ b < m[b] /\ b \in Nat
    BY <1>2, <1>3
  <2> QED
    BY <1>1, <2>1
<1>5. e \notin S /\ Anchor \notin S
  BY <1>1
<1>6. ASSUME NEW b \in S \cup {Anchor} PROVE m[b] \in Nat /\ m[b] \in Words /\ m[b] % 8 = 0
  BY <1>2, <1>3
<1>7. \A b \in S : b \in Words
  BY <1>3
<1> QED
  BY <1>1, <1>3, <1>4, <1>5, <1>6, <1>7

(* A block's link leads further, past some blocks, which are taken out. *)
LEMMA Relink ==
  ASSUME NEW m, NEW S, NEW e, Linked8(m, S, e), NEW a \in S \cup {Anchor}, NEW n \in S \cup {e},
         a < n, NEW m2, m2[a] = n,
         \A b \in S \cup {Anchor} : b < a \/ b >= n => m2[b] = m[b]
  PROVE  Linked8(m2, {b \in S : b <= a \/ b >= n}, e)
<1> DEFINE T == {b \in S : b <= a \/ b >= n}
<1>1. a \in Nat /\ n \in Nat /\ e \in Nat /\ Anchor \in Nat /\ Anchor <= a /\ n <= e
  BY LinkTypes
<1>2. \A b \in S : b \in Nat
  BY LinkTypes
<1>3. n \in T \cup {e}
  BY <1>1, <1>2
<1>4. ASSUME NEW b \in T \cup {Anchor}
      PROVE  m2[b] \in T \cup {e} /\ b < m2[b] /\ \A x \in T : b < x => m2[b] <= x
  <2>1. /\ b \in S \cup {Anchor} /\ b \in Nat /\ m[b] \in S \cup {e} /\ m[b] \in Nat /\ b < m[b]
        /\ \A x \in S : b < x => m[b] <= x
    BY <1>4, LinkTypes
  <2>2. CASE b = a
    BY <1>1, <1>2, <1>3, <2>2
  <2>3. CASE b # a
    <3>1. b < a \/ b >= n
      BY <1>1, <1>4, <2>1, <2>3
    <3>2. m2[b] = m[b]
      BY <2>1, <3>1
    <3>3. m[b] <= a \/ m[b] >= n
      <4>1. CASE b < a
        <5>1. a \in S
          BY <1>1, <2>1, <4>1, <1>4, LinkTypes
        <5> QED
          BY <2>1, <4>1, <5>1
      <4>2. CASE b >= n
        BY <1>1, <2>1, <4>2
      <4> QED
        BY <3>1, <4>1, <4>2
    <3>4. m[b] \in T \cup {e}
      BY <2>1, <3>3
    <3> QED
      BY <2>1, <3>2, <3>4
  <2> QED
    BY <2>2, <2>3
<1>5. T \subseteq S
  OBVIOUS
<1> HIDE DEF T
<1>6. Linked8(m2, T, e)
  BY <1>4, <1>5 DEF Linked8
<1> QED
  BY <1>6 DEF T

(* A block is put between two others. *)
LEMMA Insert ==
  ASSUME NEW m, NEW S, NEW e, Linked8(m, S, e), NEW a \in S \cup {Anchor}, NEW n \in Words,
         n % 8 = 0, a < n, n < m[a], NEW m2, m2[a] = n, m2[n] = m[a],
         \A b \in S \cup {Anchor} : b # a => m2[b] = m[b]
  PROVE  Linked8(m2, S \cup {n}, e) /\ n \notin S
<1>1. /\ a \in Nat /\ n \in Nat /\ e \in Nat /\ Anchor \in Nat /\ Anchor <= a /\ n < e
      /\ m[a] \in Nat /\ m[a] \in S \cup {e} /\ m[a] <= e /\ \A x \in S : a < x => m[a] <= x
  BY LinkTypes, Places
<1>2. \A b \in S : b \in Nat
  BY LinkTypes
<1>3. ASSUME NEW b \in S PROVE b <= a \/ b >= m[a]
  BY <1>1, <1>2
<1>4. n \notin S
  <2> SUFFICES ASSUME n \in S PROVE FALSE
    OBVIOUS
  <2> QED
    BY <1>1, <1>3
<1>5. ASSUME NEW b \in S \cup {n, Anchor}
      PROVE  m2[b] \in S \cup {n, e} /\ b < m2[b] /\ \A x \in S \cup {n} : b < x => m2[b] <= x
  <2>1. CASE b = n
    BY <1>1, <1>2, <2>1
  <2>2. CASE b = a
    BY <1>1, <1>2, <1>3, <2>2
  <2>3. CASE b # n /\ b # a
    <3>1. /\ b \in S \cup {Anchor} /\ b \in Nat /\ m[b] \in S \cup {e} /\ m[b] \in Nat /\ b < m[b]
          /\ m2[b] = m[b] /\ \A x \in S : b < x => m[b] <= x
      BY <2>3, LinkTypes
    <3>2. ASSUME b < n PROVE m[b] <= n
      <4>1. b < a
        <5>1. CASE b \in S
          BY <1>1, <1>3, <2>3, <3>1, <3>2, <5>1
        <5>2. CASE b = Anchor
          BY <1>1, <2>3, <5>2
        <5> QED
          BY <3>1, <5>1, <5>2
      <4>2. a \in S
        <5>1. a # Anchor
          BY <4>1, <3>1, <1>1, LinkTypes
        <5> QED
          BY <5>1
      <4>3. m[b] <= a
        BY <3>1, <4>1, <4>2
      <4> QED
        BY <1>1, <3>1, <4>3
    <3> QED
      BY <3>1, <3>2
  <2> QED
    BY <2>1, <2>2, <2>3
<1>6. S \cup {n} \subseteq Words /\ \A b \in S \cup {n} : Anchor < b /\ b < e /\ b % 8 = 0
  <2>1. Anchor < n
    BY <1>1
  <2> QED
    BY <1>1, <2>1 DEF Linked8
<1> HIDE <1>3
<1>7. (S \cup {n}) \cup {Anchor} = S \cup {n, Anchor} /\ (S \cup {n}) \cup {e} = S \cup {n, e}
  OBVIOUS
<1> DEFINE T == S \cup {n}
<1>8. /\ T \subseteq Words /\ \A b \in T : Anchor < b /\ b < e /\ b % 8 = 0
      /\ \A b \in T \cup {Anchor} : m2[b] \in T \cup {e} /\ b < m2[b] /\ \A x \in T : b < x => m2[b] <= x
  BY <1>5, <1>6, <1>7
<1> HIDE DEF T
<1>9. Linked8(m2, T, e)
  BY <1>8 DEF Linked8
<1> QED
  BY <1>4, <1>9 DEF T

-----------------------------------------------------------------------------
(* The theorems about the store of blocks, for the blocks that lie here.   *)
Tiled == INSTANCE HeapProofs WITH Requests <- BlockSizes, free <- FreeBlocks, used <- UsedBlocks

(* The free blocks. *)
Nodes == Range(FreeList)

(* Each free block has a header with its size. *)
Headed(m, S) ==
  \A b \in S : m[b-4] = B8_D \/ (m[b-4] = FB_D /\ m[b+4] \in Nat /\ m[b+4] > 8 /\ m[b+4] % 8 = 0)

(* The descriptors of anchor and sentinel. *)
Ends(m, e) == m[HeapStart] = AB_D /\ m[e-4] = ZB_D /\ m[e] = 0

(* What the client knows of a block. *)
Lens == Seq(Nat) \ {<<>>}
Known(a, c) ==
  \/ /\ c = "C" /\ a.kind = "raw" /\ a.bytes \in Nat \ {0}
  \/ /\ c = "Oberon" /\ a.kind = "system" /\ a.bytes \in Nat
  \/ /\ c = "Oberon" /\ a.kind = "static" /\ a.lens = <<>>
     /\ a.tag \in DOMAIN TDesc /\ TDesc[a.tag].size = a.bytes /\ a.bytes \in Nat
  \/ /\ c = "Oberon" /\ a.kind = "open" /\ a.lens \in Lens
     /\ a.tag \in DOMAIN TDesc /\ TDesc[a.tag].size = -Len(a.lens)
     /\ a.bytes = Product(a.lens) * TDesc[a.tag].elemSize

(* The types of memory and client. *)
MemTypes ==
  /\ mem \in [Words -> Int] /\ client \in Clients
  /\ DOMAIN arr \subseteq Nat /\ \A b \in DOMAIN arr : Known(arr[b], client)

(* What every operation may rely on, and keeps. *)
MemInv ==
  /\ MemTypes
  /\ Linked8(mem, Nodes, heapEnd) /\ Headed(mem, Nodes) /\ Ends(mem, heapEnd)
  /\ Tiled!HeapInv
  /\ ContentsIntact

(* Sizes. *)
LEMMA Align8Facts ==
  ASSUME NEW x \in Nat
  PROVE  Align8(x) \in Nat /\ Align8(x) % 8 = 0 /\ Align8(x) >= x /\ Align8(x) < x + 8
         /\ (x % 8 = 0 => Align8(x) = x)
BY DEF Align8

(* The size a free block's header gives. *)
LEMMA HeaderSize ==
  ASSUME NEW m, NEW S, Headed(m, S), NEW b \in S
  PROVE  /\ FreeSize(m, b) \in Nat /\ FreeSize(m, b) >= 8 /\ FreeSize(m, b) % 8 = 0
         /\ Tag(m, b) = m[b-4] /\ m[b-4] \in {B8_D, FB_D} /\ ~Marked(m, b)
         /\ FreeSize(m, b) = IF m[b-4] = B8_D THEN 8 ELSE m[b+4]
         /\ FreeSize(m, b) > 8 => m[b-4] = FB_D /\ m[b+4] = FreeSize(m, b)
<1>1. CASE m[b-4] = B8_D
  BY TextFacts, <1>1 DEF FreeSize, Tag, Marked, B8_D, FB_D
<1>2. CASE m[b-4] = FB_D /\ m[b+4] \in Nat /\ m[b+4] > 8 /\ m[b+4] % 8 = 0
  BY TextFacts, <1>2 DEF FreeSize, Tag, Marked, B8_D, FB_D
<1> QED
  BY <1>1, <1>2 DEF Headed

(* The blocks tile the heap. *)
BSize(b) == IF b \in Nodes THEN FreeSize(mem, b) ELSE Footprint(b)

(* What HeapInv says of the blocks as they lie here: they cover the words   *)
(* from First to the sentinel, and no two overlap.                         *)
LEMMA Tiles ==
  ASSUME MemInv
  PROVE  /\ Nodes \cap DOMAIN arr = {}
         /\ \A b \in Nodes \cup DOMAIN arr :
              /\ b \in Nat /\ b % 8 = 0 /\ First <= b /\ b \in Words
              /\ BSize(b) \in Nat /\ BSize(b) % 8 = 0 /\ BSize(b) >= 8
              /\ b + BSize(b) <= heapEnd
         /\ \A a, b \in Nodes \cup DOMAIN arr : a < b => a + BSize(a) <= b
         /\ \A x \in First .. heapEnd - 1 : \E b \in Nodes \cup DOMAIN arr : b <= x /\ x < b + BSize(b)
         /\ \A b \in Nodes : BSize(b) = FreeSize(mem, b)
         /\ \A b \in DOMAIN arr : BSize(b) = Footprint(b)
<1>1. /\ DOMAIN FreeBlocks = Nodes /\ DOMAIN UsedBlocks = DOMAIN arr
      /\ \A b \in Nodes : FreeBlocks[b] = FreeSize(mem, b)
      /\ \A b \in DOMAIN arr : UsedBlocks[b] = Footprint(b)
  BY DEF FreeBlocks, UsedBlocks, Nodes
<1>2. Tiled!TypeOK /\ Tiled!InHeap /\ Tiled!NoOverlap /\ Tiled!NoLeak
  BY DEF MemInv, Tiled!HeapInv
<1>3. Tiled!Blocks = Nodes \cup DOMAIN arr
  BY <1>1 DEF Tiled!Blocks
<1>4. Nodes \cap DOMAIN arr = {}
  BY <1>1, <1>2 DEF Tiled!TypeOK
<1>5. \A b \in Nodes \cup DOMAIN arr : Tiled!Size(b) = BSize(b)
  BY <1>1, <1>4 DEF Tiled!Size, BSize
<1>6. /\ \A b \in Nodes : BSize(b) = FreeSize(mem, b)
      /\ \A b \in DOMAIN arr : BSize(b) = Footprint(b)
  BY <1>4 DEF BSize
<1>7. heapEnd \in Nat /\ heapEnd \in Words /\ First \in Nat /\ Tiled!First = First
  BY LinkTypes, Places DEF MemInv, Tiled!First, First
<1>8. ASSUME NEW b \in Nodes \cup DOMAIN arr
      PROVE  /\ b \in Nat /\ b % 8 = 0 /\ First <= b
             /\ BSize(b) \in Nat /\ BSize(b) % 8 = 0 /\ BSize(b) > 0 /\ b + BSize(b) <= heapEnd
  <2>1. b \in Nat /\ b % 8 = 0 /\ Tiled!Size(b) % 8 = 0
    BY <1>1, <1>2, <1>3 DEF Tiled!TypeOK, Tiled!Aligned
  <2>2. First <= b /\ b + BSize(b) <= heapEnd
    BY <1>2, <1>3, <1>5, <1>7 DEF Tiled!InHeap
  <2>3. BSize(b) \in Nat \ {0}
    <3>1. CASE b \in Nodes
      BY <3>1, <1>1, <1>2, <1>6 DEF Tiled!TypeOK
    <3>2. CASE b \in DOMAIN arr
      BY <3>2, <1>1, <1>2, <1>6 DEF Tiled!TypeOK
    <3> QED
      BY <3>1, <3>2
  <2> QED
    BY <1>5, <2>1, <2>2, <2>3
<1>9. ASSUME NEW b \in Nodes \cup DOMAIN arr PROVE b \in Words /\ BSize(b) >= 8
  <2>1. b <= heapEnd /\ heapEnd <= MaxHeapEnd /\ MaxHeapEnd \in Nat /\ HeapStart \in Nat
    BY <1>7, <1>8, Places
  <2>2. b % 4 = 0 /\ HeapStart <= b
    BY <1>8, Places
  <2>3. b \in Words
    <3>1. b \in Nat /\ HeapStart <= b /\ b <= MaxHeapEnd /\ b % 4 = 0
      <4> HIDE DEF BSize
      <4> QED
        BY <1>7, <1>8, <2>1, <2>2
    <3> QED
      BY <3>1, Places
  <2>4. BSize(b) >= 8
    <3>1. BSize(b) \in Nat /\ BSize(b) % 8 = 0 /\ BSize(b) > 0
      BY <1>8
    <3> HIDE DEF BSize
    <3> QED
      BY <3>1
  <2> QED
    BY <2>3, <2>4
<1>10. \A a, b \in Nodes \cup DOMAIN arr : a < b => a + BSize(a) <= b
  BY <1>2, <1>3, <1>5 DEF Tiled!NoOverlap
<1>11. \A x \in First .. heapEnd - 1 : \E b \in Nodes \cup DOMAIN arr : b <= x /\ x < b + BSize(b)
  BY <1>2, <1>3, <1>5, <1>7 DEF Tiled!NoLeak
<1> QED
  BY <1>4, <1>6, <1>8, <1>9, <1>10, <1>11

(* What a block has room for. *)
LEMMA Room ==
  ASSUME NEW b, Known(arr[b], client)
  PROVE  /\ Footprint(b) \in Nat /\ arr[b].bytes \in Nat
         /\ arr[b].kind = "raw" => Footprint(b) >= arr[b].bytes
         /\ arr[b].kind = "system" => Footprint(b) >= arr[b].bytes + 12
         /\ arr[b].kind = "static" => Footprint(b) >= arr[b].bytes + 4 /\ arr[b].lens = <<>>
         /\ arr[b].kind = "open" =>
              /\ Len(arr[b].lens) \in Nat \ {0} /\ Product(arr[b].lens) \in Nat
              /\ DOMAIN arr[b].lens = 1 .. Len(arr[b].lens) /\ arr[b].lens # <<>>
              /\ Footprint(b) >= 4 * (Len(arr[b].lens) + (IF Len(arr[b].lens) > 1 THEN 2 ELSE 1)) + arr[b].bytes
         /\ arr[b].kind \in {"raw", "system", "static", "open"}
<1>1. CASE arr[b].kind = "raw" /\ arr[b].bytes \in Nat
  BY <1>1, Align8Facts DEF Footprint
<1>2. CASE arr[b].kind = "system" /\ arr[b].bytes \in Nat
  <2>1. 4 + arr[b].bytes + 8 \in Nat
    BY <1>2
  <2> QED
    BY <1>2, <2>1, Align8Facts DEF Footprint, SystemBlockSize
<1>3. CASE arr[b].kind = "static" /\ arr[b].lens = <<>> /\ arr[b].bytes \in Nat
  <2>1. arr[b].kind = "static" /\ arr[b].bytes \in Nat
    BY <1>3
  <2>2. Footprint(b) = Align8(4 + arr[b].bytes)
    BY <2>1 DEF Footprint, StaticBlockSize
  <2>3. 4 + arr[b].bytes \in Nat
    BY <2>1
  <2>4. Footprint(b) \in Nat /\ Footprint(b) >= arr[b].bytes + 4
    BY <2>1, <2>2, <2>3, Align8Facts
  <2>5. arr[b].lens = <<>>
    BY <1>3
  <2>6. arr[b].kind # "raw" /\ arr[b].kind # "system" /\ arr[b].kind # "open"
    BY <2>1
  <2> QED
    BY <2>1, <2>4, <2>5, <2>6
<1>4. CASE arr[b].kind = "open" /\ Known(arr[b], client)
  <2> DEFINE l == arr[b].lens
             es == TDesc[arr[b].tag].elemSize
  <2>1. /\ l \in Lens /\ arr[b].tag \in DOMAIN TDesc /\ TDesc[arr[b].tag].size = -Len(l)
        /\ arr[b].bytes = Product(l) * es
    BY <1>4 DEF Known
  <2>2. es \in Nat
    BY <2>1, HeapMemAssumption
  <2>3. Len(l) \in Nat \ {0} /\ Product(l) \in Nat /\ DOMAIN l = 1 .. Len(l) /\ l # <<>>
    BY <2>1, ProductFacts DEF Lens
  <2> HIDE DEF l, es
  <2>4. Product(l) * es \in Nat
    BY <2>2, <2>3
  <2> DEFINE x == 4 + 4 * ((IF Len(l) > 1 THEN 1 ELSE 0) + Len(l)) + Product(l) * es
  <2>5. x \in Nat /\ Footprint(b) = Align8(x)
    <3>1. Footprint(b) = OpenBlockSize(Len(l), Product(l), es)
      BY <1>4 DEF Footprint, l, es
    <3>2. 4 * ((IF Len(l) > 1 THEN 1 ELSE 0) + Len(l)) \in Nat
      BY <2>3
    <3> QED
      BY <2>4, <3>1, <3>2 DEF OpenBlockSize
  <2>6. x >= 4 * (Len(l) + (IF Len(l) > 1 THEN 2 ELSE 1)) + Product(l) * es
    BY <2>3, <2>4
  <2> HIDE DEF x
  <2>7. Footprint(b) \in Nat /\ Footprint(b) >= x
    BY <2>5, Align8Facts
  <2>8. Footprint(b) >= 4 * (Len(l) + (IF Len(l) > 1 THEN 2 ELSE 1)) + Product(l) * es
    BY <2>3, <2>4, <2>5, <2>6, <2>7
  <2> QED
    BY <1>4, <2>1, <2>3, <2>4, <2>7, <2>8 DEF l
<1> QED
  BY <1>1, <1>2, <1>3, <1>4 DEF Known

(* The words of a block. *)
InBlock(w, b, size) == b - 4 <= w /\ w < b + size - 4

(* A block is intact as long as its words are left alone. *)
LEMMA IntactKept ==
  ASSUME MemInv, NEW b \in DOMAIN arr, arr'[b] = arr[b],
         \A w \in Words : InBlock(w, b, Footprint(b)) => mem'[w] = mem[w]
  PROVE  Intact(b)'
<1> DEFINE fp == Footprint(b)
<1>1. /\ Known(arr[b], client) /\ Intact(b) /\ b \in Nat /\ b % 8 = 0 /\ First <= b
      /\ fp \in Nat /\ fp % 8 = 0 /\ fp >= 8 /\ b + fp <= heapEnd
  BY Tiles DEF MemInv, MemTypes, ContentsIntact
<1>2. heapEnd \in Nat /\ heapEnd <= MaxHeapEnd /\ MaxHeapEnd \in Nat /\ HeapStart \in Nat /\ First = HeapStart + 12
  BY LinkTypes, Places DEF MemInv
<1>3. fp' = fp
  BY DEF Footprint
<1>4. ASSUME NEW w \in Int, w % 4 = 0, b - 4 <= w, w < b + fp - 4
      PROVE  mem'[w] = mem[w]
  <2>1. w \in Nat /\ HeapStart <= w /\ w <= MaxHeapEnd
    BY <1>1, <1>2, <1>4
  <2>2. w \in Words
    BY <1>4, <2>1, Places
  <2> QED
    BY <1>4, <2>2 DEF InBlock
<1> HIDE DEF fp
<1>5. CASE arr[b].kind = "raw"
  <2>1. fp >= arr[b].bytes /\ arr[b].bytes \in Nat
    BY <1>1, <1>5, Room DEF fp
  <2>2. \A w \in b - 4 .. b - 4 + arr[b].bytes - 1 : w % 4 = 0 => mem'[w] = mem[w]
    BY <1>1, <1>4, <2>1
  <2> QED
    BY <1>1, <1>5, <2>2 DEF Intact
<1>6. CASE arr[b].kind = "system"
  <2>1. fp >= arr[b].bytes + 12 /\ arr[b].bytes \in Nat
    BY <1>1, <1>6, Room DEF fp
  <2>2. \A w \in b .. b + arr[b].bytes - 1 : w % 4 = 0 => mem'[w] = mem[w]
    BY <1>1, <1>4, <2>1
  <2>3. mem'[b-4] = mem[b-4] /\ mem'[b+fp-8] = mem[b+fp-8] /\ mem'[b+fp-12] = mem[b+fp-12]
    BY <1>1, <1>4, <2>1
  <2> QED
    BY <1>1, <1>3, <1>6, <2>2, <2>3 DEF Intact, fp
<1>7. CASE arr[b].kind = "static"
  <2>0. arr[b].lens = <<>>
    BY <1>1, <1>7, Room
  <2>1. fp >= arr[b].bytes + 4 /\ arr[b].bytes \in Nat
    BY <1>1, <1>7, Room DEF fp
  <2>2. \A w \in b .. b + arr[b].bytes - 1 : w % 4 = 0 => mem'[w] = mem[w]
    BY <1>1, <1>4, <2>1
  <2>3. mem'[b-4] = mem[b-4]
    BY <1>1, <1>4, <2>1
  <2> QED
    <3>1. /\ Intact(b) <=> /\ mem[b-4] = arr[b].tag
                           /\ \A w \in b .. b + arr[b].bytes - 1 : w % 4 = 0 => mem[w] = DATA
          /\ Intact(b)' <=> /\ mem'[b-4] = arr[b].tag
                            /\ \A w \in b .. b + arr[b].bytes - 1 : w % 4 = 0 => mem'[w] = DATA
      <4>1. DOMAIN <<>> = {}
        OBVIOUS
      <4> QED
        BY <1>7, <2>0, <4>1 DEF Intact
    <3> QED
      BY <1>1, <2>2, <2>3, <3>1
<1>8. CASE arr[b].kind = "open"
  <2> DEFINE l == arr[b].lens
             n == Len(l)
             lo == LensAt(l, b)
             bytes == arr[b].bytes
  <2>1. /\ n \in Nat \ {0} /\ DOMAIN l = 1 .. n /\ bytes \in Nat /\ l # <<>>
        /\ fp >= 4 * (n + (IF n > 1 THEN 2 ELSE 1)) + bytes
    BY <1>1, <1>8, Room DEF fp
  <2>a. lo = IF n > 1 THEN b + 4 ELSE b
    BY DEF LensAt
  <2> HIDE DEF n, lo, bytes
  <2>2. /\ lo \in Nat /\ lo % 4 = 0 /\ b <= lo
        /\ lo + 4 * n + bytes <= b + fp - 4
    <3>0. b \in Nat /\ b % 4 = 0 /\ fp \in Nat /\ bytes \in Nat
      BY <1>1, <2>1
    <3>1. CASE n = 1
      <4>1. lo = b /\ fp >= 8 + bytes
        BY <3>1, <2>1, <2>a
      <4> QED
        BY <3>0, <3>1, <4>1
    <3>2. CASE n > 1
      <4>1. lo = b + 4 /\ fp >= 4 * (n + 2) + bytes
        BY <3>2, <2>1, <2>a
      <4>2. lo \in Nat /\ lo % 4 = 0 /\ b <= lo
        BY <3>0, <4>1
      <4> HIDE DEF l
      <4>3. lo + 4 * n + bytes <= b + fp - 4
        BY <2>1, <3>0, <4>1
      <4> QED
        BY <4>2, <4>3
    <3> QED
      BY <2>1, <3>1, <3>2
  <2>3. ASSUME NEW w \in lo + 4 * n .. lo + 4 * n + bytes - 1, w % 4 = 0
        PROVE  mem'[w] = mem[w]
    <3>0. b \in Nat /\ fp \in Nat /\ bytes \in Nat /\ n \in Nat
      BY <1>1, <2>1
    <3>1. w \in Int /\ b - 4 <= w /\ w < b + fp - 4
      BY <2>2, <3>0
    <3> QED
      BY <1>4, <2>3, <3>1
  <2>4. ASSUME NEW i \in DOMAIN l
        PROVE  mem'[lo + 4 * (i-1)] = mem[lo + 4 * (i-1)]
    <3>1. i \in Nat /\ 1 <= i /\ i <= n
      BY <2>1
    <3> DEFINE w == lo + 4 * (i-1)
    <3>2. w \in Int /\ w % 4 = 0 /\ b - 4 <= w /\ w < b + fp - 4
      <4>1. n \in Nat /\ lo \in Nat /\ lo % 4 = 0 /\ b \in Nat /\ fp \in Nat /\ bytes \in Nat
        BY <1>1, <2>1, <2>2
      <4>2. w \in Nat /\ lo <= w /\ w + 4 <= lo + 4 * n
        BY <3>1, <4>1
      <4>3. w % 4 = 0
        BY <3>1, <4>1
      <4> HIDE DEF w
      <4> QED
        BY <2>2, <4>1, <4>2, <4>3
    <3> HIDE DEF w
    <3>3. mem'[w] = mem[w]
      BY <1>4, <3>2
    <3> QED
      BY <3>3 DEF w
  <2>5. mem'[b-4] = mem[b-4]
    <3>1. b - 4 \in Int /\ (b - 4) % 4 = 0 /\ b - 4 < b + fp - 4 /\ b - 4 <= b - 4
      BY <1>1
    <3> QED
      BY <1>4, <3>1
  <2>6. /\ Intact(b) <=> /\ mem[b-4] = arr[b].tag
                         /\ mem[b] = Product(l)
                         /\ \A i \in DOMAIN l : mem[lo + 4 * (i-1)] = l[i]
                         /\ \A w \in lo + 4 * n .. lo + 4 * n + bytes - 1 : w % 4 = 0 => mem[w] = DATA
        /\ Intact(b)' <=> /\ mem'[b-4] = arr[b].tag
                          /\ mem'[b] = Product(l)
                          /\ \A i \in DOMAIN l : mem'[lo + 4 * (i-1)] = l[i]
                          /\ \A w \in lo + 4 * n .. lo + 4 * n + bytes - 1 : w % 4 = 0 => mem'[w] = DATA
    BY <1>8, <2>1 DEF Intact, lo, n, bytes
  <2>7. mem'[b] = mem[b]
    <3>1. b \in Int /\ b % 4 = 0 /\ b < b + fp - 4 /\ b - 4 <= b
      BY <1>1
    <3> QED
      BY <1>4, <3>1
  <2> QED
    BY <1>1, <2>3, <2>4, <2>5, <2>6, <2>7
<1> QED
  BY <1>1, <1>5, <1>6, <1>7, <1>8, Room

(* No word is in two blocks, and none of the heap's own words is in one. *)
LEMMA Apart ==
  ASSUME MemInv
  PROVE  /\ \A a, b \in Nodes \cup DOMAIN arr, w \in Int :
              InBlock(w, a, BSize(a)) /\ InBlock(w, b, BSize(b)) => a = b
         /\ \A b \in Nodes \cup DOMAIN arr, w \in Int :
              InBlock(w, b, BSize(b)) => w >= HeapStart + 8 /\ w < heapEnd - 4
<1>1. /\ \A b \in Nodes \cup DOMAIN arr :
           /\ b \in Nat /\ First <= b /\ BSize(b) \in Nat /\ b + BSize(b) <= heapEnd
      /\ \A a, b \in Nodes \cup DOMAIN arr : a < b => a + BSize(a) <= b
  BY Tiles
<1>2. heapEnd \in Nat /\ HeapStart \in Nat /\ First = HeapStart + 12
  BY LinkTypes, Places DEF MemInv
<1>3. ASSUME NEW a \in Nodes \cup DOMAIN arr, NEW b \in Nodes \cup DOMAIN arr, NEW w \in Int,
             InBlock(w, a, BSize(a)), InBlock(w, b, BSize(b))
      PROVE  a = b
  <2> DEFINE sa == BSize(a)
             sb == BSize(b)
  <2>1. a \in Nat /\ b \in Nat /\ sa \in Nat /\ sb \in Nat
    BY <1>1
  <2>2. (a < b => a + sa <= b) /\ (b < a => b + sb <= a)
    BY <1>1
  <2>3. a - 4 <= w /\ w < a + sa - 4 /\ b - 4 <= w /\ w < b + sb - 4
    BY <1>3 DEF InBlock
  <2> HIDE DEF sa, sb
  <2> QED
    BY <2>1, <2>2, <2>3
<1>4. ASSUME NEW b \in Nodes \cup DOMAIN arr, NEW w \in Int, InBlock(w, b, BSize(b))
      PROVE  w >= HeapStart + 8 /\ w < heapEnd - 4
  <2> DEFINE sb == BSize(b)
  <2>1. b \in Nat /\ sb \in Nat /\ First <= b /\ b + sb <= heapEnd
    BY <1>1
  <2>2. b - 4 <= w /\ w < b + sb - 4
    BY <1>4 DEF InBlock
  <2> HIDE DEF sb
  <2> QED
    BY <1>2, <2>1, <2>2
<1> QED
  BY <1>3, <1>4

(* The blocks after a step, when the free list is known. *)
LEMMA NodesNow ==
  ASSUME NEW T, Linked8(mem, T, heapEnd)
  PROVE  /\ Nodes = T /\ FreeBlocks = [b \in T |-> FreeSize(mem, b)]
         /\ DOMAIN FreeBlocks = T /\ \A b \in T : FreeBlocks[b] = FreeSize(mem, b)
<1>1. /\ FreeList \in Seq(T)
      /\ \A x \in T : \E i \in 1 .. Len(FreeList) : FreeList[i] = x
  BY ListOfNodes DEF FreeList
<1>2. Nodes = T
  <2>1. DOMAIN FreeList = 1 .. Len(FreeList)
    BY <1>1
  <2>2. ASSUME NEW x \in Nodes PROVE x \in T
    <3>1. PICK i \in DOMAIN FreeList : FreeList[i] = x
      BY <2>2 DEF Nodes, Range
    <3> QED
      BY <1>1, <2>1, <3>1
  <2>3. ASSUME NEW x \in T PROVE x \in Nodes
    BY <1>1, <2>1 DEF Nodes, Range
  <2> QED
    BY <2>2, <2>3
<1> QED
  BY <1>2 DEF Nodes, FreeBlocks

(* The same for the state after a step. *)
LEMMA NodesNext ==
  ASSUME NEW T, Linked8(mem', T, heapEnd')
  PROVE  /\ Nodes' = T /\ FreeBlocks' = [b \in T |-> FreeSize(mem', b)]
         /\ DOMAIN FreeBlocks' = T /\ \A b \in T : FreeBlocks'[b] = FreeSize(mem', b)
<1>1. /\ FreeList' \in Seq(T)
      /\ \A x \in T : \E i \in 1 .. Len(FreeList') : FreeList'[i] = x
  BY ListOfNodes DEF FreeList
<1>2. Nodes' = T
  <2>1. DOMAIN FreeList' = 1 .. Len(FreeList')
    BY <1>1
  <2>2. ASSUME NEW x \in Nodes' PROVE x \in T
    <3>1. PICK i \in DOMAIN FreeList' : FreeList'[i] = x
      BY <2>2 DEF Nodes, Range
    <3> QED
      BY <1>1, <2>1, <3>1
  <2>3. ASSUME NEW x \in T PROVE x \in Nodes'
    BY <1>1, <2>1 DEF Nodes, Range
  <2> QED
    BY <2>2, <2>3
<1> QED
  BY <1>2 DEF Nodes, FreeBlocks

(* The constants of Heap satisfy its assumption. *)
LEMMA TiledAssumption == Tiled!HeapAssumption
<1>1. BlockSizes \subseteq Nat \ {0}
  BY Places DEF BlockSizes
<1> QED
  BY <1>1, HeapMemAssumption, Places DEF Tiled!HeapAssumption

(* A step that takes the blocks to those of a step of the store keeps what *)
(* is known of the memory, if the words fit the new blocks.                *)
LEMMA Closing ==
  ASSUME MemInv, NEW T, Linked8(mem', T, heapEnd'), Headed(mem', T), Ends(mem', heapEnd'),
         mem' \in [Words -> Int], client' = client, DOMAIN arr' \subseteq Nat,
         \A b \in DOMAIN arr' : Known(arr'[b], client) /\ Intact(b)',
         [Tiled!Next]_(Tiled!vars)
  PROVE  MemInv'
<1>1. MemTypes'
  BY DEF MemTypes, MemInv
<1>2. Nodes' = T
  BY NodesNext
<1>3. Tiled!HeapInv'
  BY Tiled!StepInv, TiledAssumption DEF MemInv
<1>4. ContentsIntact'
  BY DEF ContentsIntact
<1> QED
  BY <1>1, <1>2, <1>3, <1>4 DEF MemInv

-----------------------------------------------------------------------------
(* The search stops at the first block of the list that is large enough,   *)
(* or at the sentinel.                                                     *)
LEMMA SearchFinds ==
  ASSUME NEW S, Linked8(mem, S, heapEnd), Headed(mem, S), NEW size \in Nat
  PROVE  /\ SearchEnd(size)[1] \in S \cup {Anchor}
         /\ SearchEnd(size)[2] = mem[SearchEnd(size)[1]]
         /\ SearchEnd(size)[2] \in S \cup {heapEnd}
         /\ SearchEnd(size)[2] # heapEnd => size <= FreeSize(mem, SearchEnd(size)[2])
         /\ \A c \in S : c <= SearchEnd(size)[1] => FreeSize(mem, c) < size
<1> DEFINE e == heapEnd
           F == [s \in Words \X Words |->
                   IF s[2] = e \/ size <= FreeSize(mem, s[2]) THEN s ELSE <<s[2], mem[s[2]]>>]
           x0 == <<Anchor, mem[Anchor]>>
           Passed(a, b) == /\ a \in S \cup {Anchor} /\ b = mem[a]
                           /\ \A c \in S : c <= a => FreeSize(mem, c) < size
           I == {s \in Words \X Words : Passed(s[1], s[2])}
           V == [s \in Words \X Words |-> Steps8(s[2], e)]
<1>1. /\ e \in Nat /\ e \in Words /\ e % 8 = 0 /\ Anchor \in Nat /\ Anchor \in Words
      /\ \A b \in S : b \in Nat /\ Anchor < b /\ b < e
      /\ \A b \in S \cup {Anchor} :
           /\ b \in Nat /\ b \in Words /\ b % 8 = 0
           /\ mem[b] \in S \cup {e} /\ mem[b] \in Nat /\ mem[b] \in Words /\ mem[b] % 8 = 0
           /\ b < mem[b] /\ mem[b] <= e
           /\ \A x \in S : b < x => mem[b] <= x
  BY LinkTypes, Places
<1>2. \A c \in S : FreeSize(mem, c) \in Nat
  BY HeaderSize
<1>3. x0 \in I
  BY <1>1
<1>4. ASSUME NEW s \in I
      PROVE  F[s] \in I /\ V[s] \in Nat /\ (F[s] = s \/ V[F[s]] < V[s])
  <2> DEFINE a == s[1]
             b == s[2]
  <2>1. s \in Words \X Words /\ s = <<a, b>> /\ Passed(a, b)
    BY <1>4
  <2>2. a \in S \cup {Anchor} /\ b = mem[a] /\ b \in S \cup {e} /\ b \in Nat /\ b <= e /\ a < b /\ b % 8 = 0
    BY <1>1, <2>1
  <2>3. V[s] = Steps8(b, e) /\ V[s] \in Nat
    BY <1>1, <2>1, <2>2, StepsBound
  <2>4. CASE b = e \/ size <= FreeSize(mem, b)
    BY <2>1, <2>3, <2>4
  <2>5. CASE ~ (b = e \/ size <= FreeSize(mem, b))
    <3>1. b \in S /\ FreeSize(mem, b) < size
      BY <1>2, <2>2, <2>5
    <3>2. F[s] = <<b, mem[b]>>
      BY <2>1, <2>5
    <3>3. mem[b] \in Nat /\ mem[b] \in Words /\ b \in Words /\ b < mem[b] /\ mem[b] <= e /\ mem[b] % 8 = 0
      BY <1>1, <3>1
    <3>4. \A c \in S : c <= b => FreeSize(mem, c) < size
      <4> SUFFICES ASSUME NEW c \in S, c <= b PROVE FreeSize(mem, c) < size
        OBVIOUS
      <4>1. CASE c <= a
        BY <2>1, <4>1
      <4>2. CASE c > a
        BY <1>1, <2>2, <3>1, <4>2
      <4> QED
        BY <1>1, <2>2, <4>1, <4>2
    <3>5. Passed(b, mem[b])
      BY <3>1, <3>4
    <3>6. F[s] \in I
      <4> HIDE DEF Passed, F
      <4> QED
        BY <3>2, <3>3, <3>5
    <3>7. V[F[s]] = Steps8(mem[b], e)
      BY <3>2, <3>3
    <3>8. Steps8(mem[b], e) < Steps8(b, e)
      BY <1>1, <2>2, <3>3, StepsDown
    <3> QED
      BY <2>3, <3>6, <3>7, <3>8
  <2> QED
    BY <2>4, <2>5
<1>5. V[x0] <= MaxSteps /\ MaxSteps \in Nat
  <2>1. V[x0] = Steps8(mem[Anchor], e)
    BY <1>1
  <2> QED
    BY <2>1, <1>1, StepsBound, Places
<1> DEFINE r == Loop(F, x0)
<1>6. r \in I /\ F[r] = r
  <2> HIDE DEF I, F, V, x0
  <2> QED
    BY <1>3, <1>4, <1>5, LoopEnds
<1>7. SearchEnd(size) = r
  BY DEF SearchEnd
<1> HIDE DEF r
<1>8. r \in Words \X Words /\ Passed(r[1], r[2])
  BY <1>6
<1>9. r[2] \in S \cup {e}
  BY <1>1, <1>8
<1>10. r[2] # e => size <= FreeSize(mem, r[2])
  <2> SUFFICES ASSUME r[2] # e, ~ (size <= FreeSize(mem, r[2])) PROVE FALSE
    OBVIOUS
  <2>1. r = <<r[2], mem[r[2]]>>
    BY <1>6, <1>8
  <2>2. r[2] \in S
    BY <1>9
  <2>3. r[2] = <<r[2], mem[r[2]]>>[2]
    BY <2>1, Zenon
  <2> DEFINE next == mem[r[2]]
             here == r[2]
  <2> HIDE DEF next, here
  <2>4. <<here, next>>[2] = next
    OBVIOUS
  <2>5. here = next
    BY <2>3, <2>4, Zenon DEF here, next
  <2> QED
    BY <1>1, <2>2, <2>5 DEF here, next
<1> QED
  BY <1>7, <1>8, <1>9, <1>10

(* Writing the header of a free block. *)
LEMMA FreeWritten ==
  ASSUME NEW m \in [Words -> Int], NEW b \in Nat, NEW next \in Int, NEW size \in Nat,
         b - 4 \in Words, b \in Words, size # 8 => b + 4 \in Words
  PROVE  /\ WriteFree(m, b, next, size) \in [Words -> Int]
         /\ WriteFree(m, b, next, size)[b] = next
         /\ WriteFree(m, b, next, size)[b-4] = IF size = 8 THEN B8_D ELSE FB_D
         /\ size # 8 => WriteFree(m, b, next, size)[b+4] = size
         /\ \A w \in Words : w # b - 4 /\ w # b /\ (w = b + 4 => size = 8)
                               => WriteFree(m, b, next, size)[w] = m[w]
<1>1. b # b - 4 /\ b + 4 # b /\ b + 4 # b - 4 /\ B8_D \in Int /\ FB_D \in Int
  BY TextFacts DEF B8_D, FB_D
<1> HIDE DEF B8_D, FB_D
<1>2. CASE size = 8
  BY <1>1, <1>2 DEF WriteFree
<1>3. CASE size # 8
  BY <1>1, <1>3 DEF WriteFree
<1> QED
  BY <1>2, <1>3

(* A header whose words are left alone. *)
LEMMA HeadKept ==
  ASSUME NEW m, NEW m2, NEW S, Headed(m, S), NEW b \in S,
         m2[b-4] = m[b-4], FreeSize(m, b) > 8 => m2[b+4] = m[b+4]
  PROVE  /\ m2[b-4] = B8_D \/ (m2[b-4] = FB_D /\ m2[b+4] \in Nat /\ m2[b+4] > 8 /\ m2[b+4] % 8 = 0)
         /\ FreeSize(m2, b) = FreeSize(m, b)
<1>1. CASE m[b-4] = B8_D
  BY TextFacts, <1>1 DEF FreeSize, Tag, B8_D, FB_D
<1>2. CASE m[b-4] = FB_D /\ m[b+4] \in Nat /\ m[b+4] > 8 /\ m[b+4] % 8 = 0
  BY TextFacts, <1>2 DEF FreeSize, Tag, B8_D, FB_D
<1> QED
  BY <1>1, <1>2 DEF Headed

(* A header that has been written. *)
LEMMA HeadWritten ==
  ASSUME NEW m, NEW b, NEW size \in Nat, size >= 8, size % 8 = 0,
         m[b-4] = IF size = 8 THEN B8_D ELSE FB_D, size # 8 => m[b+4] = size
  PROVE  /\ m[b-4] = B8_D \/ (m[b-4] = FB_D /\ m[b+4] \in Nat /\ m[b+4] > 8 /\ m[b+4] % 8 = 0)
         /\ FreeSize(m, b) = size
<1>1. CASE size = 8
  BY TextFacts, <1>1 DEF FreeSize, Tag, B8_D, FB_D
<1>2. CASE size # 8
  BY TextFacts, <1>2 DEF FreeSize, Tag, B8_D, FB_D
<1> QED
  BY <1>1, <1>2

(* The words of the blocks are words of the heap. *)
LEMMA BlockWords ==
  ASSUME MemInv, NEW b \in Nodes \cup DOMAIN arr
  PROVE  /\ b - 4 \in Words /\ b \in Words /\ b + 4 \in Words /\ b \in Nat
         /\ \A w \in Int : w % 4 = 0 /\ b - 4 <= w /\ w <= b + BSize(b) => w \in Words
<1> DEFINE size == BSize(b)
<1>1. b \in Nat /\ b % 8 = 0 /\ First <= b /\ size \in Nat /\ size >= 8 /\ b + size <= heapEnd
  BY Tiles
<1>2. heapEnd \in Nat /\ heapEnd <= MaxHeapEnd /\ HeapStart \in Nat /\ MaxHeapEnd \in Nat /\ First = HeapStart + 12
  BY LinkTypes, Places DEF MemInv
<1> HIDE DEF size
<1>3. ASSUME NEW w \in Int, w % 4 = 0, b - 4 <= w, w <= b + size
      PROVE  w \in Words
  <2>1. w \in Nat /\ HeapStart <= w /\ w <= MaxHeapEnd
    BY <1>1, <1>2, <1>3
  <2> QED
    BY <1>3, <2>1, Places
<1>4. b - 4 \in Words /\ b \in Words /\ b + 4 \in Words
  <2>1. (b - 4) % 4 = 0 /\ b % 4 = 0 /\ (b + 4) % 4 = 0 /\ b + 4 <= b + size
    BY <1>1
  <2> QED
    BY <1>1, <1>3, <2>1
<1> QED
  BY <1>1, <1>3, <1>4 DEF size

(* What AllocAligned does to the words. *)
CutOff(prv, act, size, rest, m1) ==
  /\ act \in Nodes /\ prv \in Nodes \cup {Anchor} /\ mem[prv] = act
  /\ rest \in Nat /\ rest % 8 = 0
  /\ \A c \in Nodes : FreeSize(mem, c) >= size => act <= c
  /\ m1 \in [Words -> Int]
  /\ rest = 0 => /\ m1[prv] = mem[act]
                 /\ \A w \in Words : w # prv => m1[w] = mem[w]
  /\ rest # 0 =>
       /\ m1[prv] = act + size /\ m1[act+size] = mem[act]
       /\ m1[act+size-4] = IF rest = 8 THEN B8_D ELSE FB_D
       /\ rest # 8 => m1[act+size+4] = rest
       /\ \A w \in Words : /\ w # prv /\ w # act + size /\ w # act + size - 4
                           /\ (w = act + size + 4 => rest = 8)
                           => m1[w] = mem[w]

(* AllocAligned does just that. *)
LEMMA Cut ==
  ASSUME MemInv, NEW size \in Nat \ {0}, size % 8 = 0, NEW place \in Found(size)
  PROVE  CutOff(place[1], place[2], size, FreeSize(mem, place[2]) - size, AllocAligned(place, size))
<1> DEFINE prv == place[1]
           act == place[2]
           rest == FreeSize(mem, act) - size
           m1 == AllocAligned(place, size)
<1>a. prv = place[1] /\ act = place[2] /\ rest = FreeSize(mem, act) - size /\ m1 = AllocAligned(place, size)
  OBVIOUS
<1> SUFFICES CutOff(prv, act, size, rest, m1)
  OBVIOUS
<1> HIDE DEF prv, act, rest, m1
<1>1. /\ act \in Nodes /\ prv \in Nodes \cup {Anchor} /\ mem[prv] = act
      /\ size <= FreeSize(mem, act) /\ \A c \in Nodes : c <= prv => FreeSize(mem, c) < size
  <2>1. place = SearchEnd(size) /\ place[2] # heapEnd
    BY DEF Found
  <2> QED
    BY <1>a, <2>1, SearchFinds DEF MemInv
<1>2. FreeSize(mem, act) \in Nat /\ FreeSize(mem, act) % 8 = 0 /\ \A c \in Nodes : FreeSize(mem, c) \in Nat
  BY <1>1, HeaderSize DEF MemInv
<1>3. rest \in Nat /\ rest % 8 = 0
  BY <1>a, <1>1, <1>2
<1>4. /\ prv \in Nat /\ prv \in Words /\ prv % 8 = 0 /\ act \in Nat /\ act % 8 = 0 /\ prv < act /\ mem[act] \in Int
      /\ \A c \in Nodes : c \in Nat /\ (prv < c => act <= c)
  BY <1>1, LinkTypes DEF MemInv
<1>5. \A c \in Nodes : FreeSize(mem, c) >= size => act <= c
  <2> TAKE c \in Nodes
  <2> HAVE FreeSize(mem, c) >= size
  <2>1. ~ (FreeSize(mem, c) < size)
    BY <1>2
  <2>2. ~ (c <= prv)
    BY <1>1, <2>1
  <2> QED
    BY <1>4, <2>2
<1>6. mem \in [Words -> Int]
  BY DEF MemInv, MemTypes
<1>7. BSize(act) = FreeSize(mem, act) /\ act + BSize(act) <= heapEnd
  BY <1>1, Tiles
<1>8. ASSUME rest # 0
      PROVE  act + size - 4 \in Words /\ act + size \in Words /\ act + size + 4 \in Words
             /\ act + size \in Nat
  <2> DEFINE r == act + size
  <2>1. r \in Nat /\ r % 8 = 0 /\ r + 8 <= act + FreeSize(mem, act) /\ act < r
    BY <1>a, <1>2, <1>3, <1>4, <1>8
  <2> HIDE DEF r
  <2>2. /\ (r - 4) % 4 = 0 /\ r % 4 = 0 /\ (r + 4) % 4 = 0 /\ act - 4 <= r - 4 /\ act - 4 <= r /\ act - 4 <= r + 4
        /\ r - 4 <= act + FreeSize(mem, act) /\ r <= act + FreeSize(mem, act)
        /\ r + 4 <= act + FreeSize(mem, act) /\ r - 4 \in Int /\ r + 4 \in Int
    <3> DEFINE fs == FreeSize(mem, act)
    <3>1. fs \in Nat /\ r + 8 <= act + fs
      BY <1>2, <2>1
    <3> HIDE DEF fs
    <3>2. (r - 4) % 4 = 0 /\ r % 4 = 0 /\ (r + 4) % 4 = 0
      BY <2>1
    <3> QED
      BY <1>4, <2>1, <3>1, <3>2 DEF fs
  <2>3. r - 4 \in Words /\ r \in Words /\ r + 4 \in Words
    BY <1>1, <1>7, <2>1, <2>2, BlockWords
  <2> QED
    BY <1>4, <2>1, <2>3 DEF r
<1>9. CASE rest = 0
  <2>1. m1 = [mem EXCEPT ![prv] = mem[act]]
    BY <1>a, <1>9 DEF AllocAligned
  <2>2. m1 \in [Words -> Int] /\ m1[prv] = mem[act] /\ \A w \in Words : w # prv => m1[w] = mem[w]
    BY <2>1, <1>4, <1>6
  <2> QED
    BY <1>1, <1>3, <1>5, <1>9, <2>2 DEF CutOff
<1>10. CASE rest # 0
  <2> DEFINE r == act + size
             m0 == [mem EXCEPT ![prv] = r]
  <2>1. m1 = WriteFree(m0, r, mem[act], rest)
    BY <1>a, <1>10 DEF AllocAligned
  <2>2. m0 \in [Words -> Int] /\ m0[prv] = r /\ \A w \in Words : w # prv => m0[w] = mem[w]
    BY <1>4, <1>6, <1>8, <1>10
  <2>3. prv # r /\ prv # r - 4 /\ prv # r + 4
    BY <1>4
  <2>4. r \in Nat /\ r - 4 \in Words /\ r \in Words /\ r + 4 \in Words
    BY <1>4, <1>8, <1>10
  <2> HIDE DEF m0, r
  <2>5. /\ m1 \in [Words -> Int] /\ m1[r] = mem[act] /\ m1[r-4] = IF rest = 8 THEN B8_D ELSE FB_D
        /\ rest # 8 => m1[r+4] = rest
        /\ \A w \in Words : w # r - 4 /\ w # r /\ (w = r + 4 => rest = 8) => m1[w] = m0[w]
    BY <1>3, <1>4, <2>1, <2>2, <2>4, FreeWritten
  <2>6. m1[prv] = r
    BY <1>4, <2>2, <2>3, <2>5
  <2>7. \A w \in Words : w # prv /\ w # r - 4 /\ w # r /\ (w = r + 4 => rest = 8) => m1[w] = mem[w]
    BY <2>2, <2>5
  <2> QED
    BY <1>1, <1>3, <1>4, <1>5, <1>10, <2>5, <2>6, <2>7 DEF r, CutOff
<1> QED
  BY <1>9, <1>10

(* A block has been cut off and given to the client: whatever was written  *)
(* into it, the rest of the memory is in order.                            *)
LEMMA Taken ==
  ASSUME MemInv, NEW size \in Nat \ {0}, size % 8 = 0, NEW place \in Found(size),
         NEW act, act = place[2], mem' \in [Words -> Int],
         \A w \in Words : ~InBlock(w, act, size) => mem'[w] = AllocAligned(place, size)[w],
         heapEnd' = heapEnd, client' = client,
         NEW block, Give(act, block), Known(block, client), Footprint(act)' = size, Intact(act)'
  PROVE  MemInv'
         /\ Tiled!Next
<1> DEFINE prv == place[1]
           fs == FreeSize(mem, act)
           rest == fs - size
           r == act + size
           T == IF rest = 0 THEN Nodes \ {act} ELSE (Nodes \ {act}) \cup {r}
           m1 == AllocAligned(place, size)
<1>1. /\ act \in Nodes /\ prv \in Nodes \cup {Anchor} /\ mem[prv] = act
      /\ rest \in Nat /\ rest % 8 = 0
      /\ \A c \in Nodes : FreeSize(mem, c) >= size => act <= c
      /\ rest = 0 => /\ m1[prv] = mem[act]
                     /\ \A w \in Words : w # prv => m1[w] = mem[w]
      /\ rest # 0 =>
           /\ m1[prv] = r /\ m1[r] = mem[act]
           /\ m1[r-4] = IF rest = 8 THEN B8_D ELSE FB_D
           /\ rest # 8 => m1[r+4] = rest
           /\ \A w \in Words : w # prv /\ w # r /\ w # r - 4 /\ (w = r + 4 => rest = 8)
                               => m1[w] = mem[w]
  <2>1. CutOff(prv, act, size, rest, m1)
    BY Cut
  <2>2. r = act + size
    BY DEF r
  <2> HIDE DEF r, m1, rest, prv
  <2>3. act \in Nat
    BY <2>1, LinkTypes DEF MemInv, CutOff
  <2> QED
    BY <2>1, <2>2, <2>3 DEF CutOff
<1>2. /\ prv \in Nat /\ prv \in Words /\ prv % 8 = 0 /\ prv < act /\ act \in Nat /\ act % 8 = 0
      /\ mem[act] \in Nodes \cup {heapEnd} /\ mem[act] \in Nat /\ act < mem[act]
      /\ \A c \in Nodes : c \in Nat /\ c % 8 = 0 /\ (prv < c => act <= c) /\ (act < c => mem[act] <= c)
      /\ heapEnd \in Nat /\ act < heapEnd /\ Anchor \in Nat /\ Anchor \notin Nodes
  BY <1>1, LinkTypes DEF MemInv
<1>3. /\ fs \in Nat /\ fs >= 8 /\ fs % 8 = 0 /\ BSize(act) = fs /\ act + fs <= heapEnd /\ act + fs <= mem[act]
  <2>1. fs \in Nat /\ fs >= 8 /\ fs % 8 = 0 /\ BSize(act) = fs /\ act + fs <= heapEnd
    BY <1>1, HeaderSize, Tiles DEF MemInv
  <2>2. CASE mem[act] \in Nodes
    <3>1. act + BSize(act) <= mem[act]
      BY <1>1, <1>2, <2>2, Tiles
    <3> QED
      BY <2>1, <3>1
  <2>3. CASE mem[act] = heapEnd
    BY <2>1, <2>3
  <2> QED
    BY <1>2, <2>1, <2>2, <2>3
<1>4. size <= fs /\ size \in Nat /\ size >= 8 /\ fs = size + rest
  <2> HIDE DEF fs
  <2>1. size >= 8
    OBVIOUS
  <2> QED
    BY <1>1, <1>3, <2>1
<1>5. r \in Nat /\ r % 8 = 0 /\ act < r /\ prv < r /\ (rest # 0 => r < act + fs /\ r + 8 <= act + fs /\ r < mem[act] /\ rest >= 8)
  <2> HIDE DEF fs, rest
  <2> QED
    BY <1>1, <1>2, <1>3, <1>4
<1>6. /\ prv # r /\ prv # r - 4 /\ prv # r + 4 /\ ~InBlock(prv, act, size)
      /\ ~InBlock(r - 4, act, size) /\ ~InBlock(r, act, size) /\ ~InBlock(r + 4, act, size)
  <2>1. ~InBlock(prv, act, size)
    BY <1>2 DEF InBlock
  <2>2. ~InBlock(r - 4, act, size) /\ ~InBlock(r, act, size) /\ ~InBlock(r + 4, act, size)
    BY <1>2, <1>4 DEF InBlock
  <2>3. prv # r /\ prv # r - 4 /\ prv # r + 4
    <3> HIDE DEF r
    <3> QED
      BY <1>2, <1>5
  <2> QED
    BY <2>1, <2>2, <2>3
<1>7. rest # 0 => r - 4 \in Words /\ r \in Words /\ r + 4 \in Words
  <2> SUFFICES ASSUME rest # 0 PROVE r - 4 \in Words /\ r \in Words /\ r + 4 \in Words
    OBVIOUS
  <2> HIDE DEF r, fs, rest
  <2>1. /\ (r - 4) % 4 = 0 /\ r % 4 = 0 /\ (r + 4) % 4 = 0
        /\ r - 4 \in Int /\ r \in Int /\ r + 4 \in Int
    BY <1>5
  <2>2. act - 4 <= r - 4 /\ act - 4 <= r /\ act - 4 <= r + 4
    BY <1>2, <1>5
  <2>3. r - 4 <= act + fs /\ r <= act + fs /\ r + 4 <= act + fs
    BY <1>2, <1>3, <1>5
  <2> QED
    BY <1>1, <1>3, <2>1, <2>2, <2>3, BlockWords
\* The words outside the block and the link to it are as they were.
<1>8. ASSUME NEW w \in Words, w # prv, ~InBlock(w, act, fs)
      PROVE  mem'[w] = mem[w]
  <2>1. ~InBlock(w, act, size)
    <3>1. w \in Nat
      BY Places
    <3> HIDE DEF fs
    <3> QED
      BY <1>2, <1>3, <1>4, <1>8, <3>1 DEF InBlock
  <2>2. mem'[w] = m1[w]
    BY <2>1
  <2>3. CASE rest = 0
    BY <1>1, <1>8, <2>2, <2>3
  <2>4. CASE rest # 0
    <3>1. w # r /\ w # r - 4 /\ (w = r + 4 => rest = 8)
      <4>1. w < act - 4 \/ w >= act + fs - 4
        BY <1>8, Places, <1>2, <1>3 DEF InBlock
      <4>2. w \in Nat
        BY Places
      <4>3. rest # 8 => rest >= 16
        <5> HIDE DEF rest
        <5> QED
          BY <1>1, <1>5, <2>4
      <4>4. act + fs = r + rest
        <5> HIDE DEF fs, rest
        <5> QED
          BY <1>1, <1>2, <1>3, <1>4
      <4> HIDE DEF r, fs, rest
      <4> QED
        BY <1>1, <1>2, <1>3, <1>5, <2>4, <4>1, <4>2, <4>3, <4>4
    <3> QED
      BY <1>1, <1>8, <2>2, <2>4, <3>1
  <2> QED
    BY <2>3, <2>4
<1>9. mem'[prv] = IF rest = 0 THEN mem[act] ELSE r
  BY <1>1, <1>2, <1>6
<1>10. rest # 0 => /\ mem'[r] = mem[act] /\ mem'[r-4] = IF rest = 8 THEN B8_D ELSE FB_D
                   /\ rest # 8 => mem'[r+4] = rest
  BY <1>1, <1>6, <1>7
<1> HIDE DEF prv, rest, r, T, m1
\* No other free block and no block in use has lost a word.
<1>11. ASSUME NEW b \in Nodes \cup DOMAIN arr, b # act, NEW w \in Words, InBlock(w, b, BSize(b)), w # b \/ b \in DOMAIN arr
       PROVE  mem'[w] = mem[w]
  <2>1. w \in Int
    BY Places
  <2>2. ~InBlock(w, act, fs)
    BY <1>1, <1>3, <1>11, <2>1, Apart
  <2>3. w # prv
    <3>1. CASE prv = Anchor
      BY <1>11, <2>1, <3>1, Apart, Places
    <3>2. CASE prv \in Nodes
      <4>1. InBlock(prv, prv, BSize(prv))
        BY <1>2, <3>2, Tiles DEF InBlock
      <4>2. w = prv => b = prv
        BY <1>11, <2>1, <3>2, <4>1, Apart
      <4>3. b = prv => b \notin DOMAIN arr
        BY <3>2, Tiles
      <4> QED
        BY <1>11, <4>2, <4>3
    <3> QED
      BY <1>1, <3>1, <3>2
  <2> QED
    BY <1>8, <2>2, <2>3
<1>12. ASSUME NEW c \in Nodes, c # act
       PROVE  /\ mem'[c-4] = mem[c-4] /\ (FreeSize(mem, c) > 8 => mem'[c+4] = mem[c+4])
              /\ c # prv => mem'[c] = mem[c]
  <2>1. c \in Nat /\ c - 4 \in Words /\ c \in Words /\ c + 4 \in Words
    BY <1>12, BlockWords
  <2>2. BSize(c) = FreeSize(mem, c) /\ BSize(c) \in Nat /\ BSize(c) >= 8 /\ BSize(c) % 8 = 0
    BY <1>12, Tiles
  <2>3. InBlock(c - 4, c, BSize(c)) /\ InBlock(c, c, BSize(c)) /\ (BSize(c) > 8 => InBlock(c + 4, c, BSize(c)))
    <3> DEFINE sc == BSize(c)
    <3> HIDE DEF sc
    <3>1. InBlock(c - 4, c, sc) /\ InBlock(c, c, sc) /\ (sc > 8 => InBlock(c + 4, c, sc))
      BY <2>1, <2>2 DEF InBlock, sc
    <3> QED
      BY <3>1 DEF sc
  <2>4. c - 4 # c /\ c + 4 # c
    BY <2>1
  <2>5. mem'[c-4] = mem[c-4] /\ (FreeSize(mem, c) > 8 => mem'[c+4] = mem[c+4])
    BY <1>11, <1>12, <2>1, <2>2, <2>3, <2>4
  <2>6. ASSUME c # prv PROVE mem'[c] = mem[c]
    <3>1. ~InBlock(c, act, fs)
      BY <1>1, <1>3, <1>12, <2>1, <2>3, Apart
    <3> QED
      BY <1>8, <2>1, <2>6, <3>1
  <2> QED
    BY <2>5, <2>6
<1>13. Headed(mem', T) /\ (\A c \in Nodes \ {act} : FreeSize(mem', c) = FreeSize(mem, c))
       /\ (rest # 0 => FreeSize(mem', r) = rest)
  <2>1. ASSUME NEW c \in Nodes \ {act}
        PROVE  /\ mem'[c-4] = B8_D \/ (mem'[c-4] = FB_D /\ mem'[c+4] \in Nat /\ mem'[c+4] > 8 /\ mem'[c+4] % 8 = 0)
               /\ FreeSize(mem', c) = FreeSize(mem, c)
    BY <1>12, HeadKept DEF MemInv
  <2>2. ASSUME rest # 0
        PROVE  /\ mem'[r-4] = B8_D \/ (mem'[r-4] = FB_D /\ mem'[r+4] \in Nat /\ mem'[r+4] > 8 /\ mem'[r+4] % 8 = 0)
               /\ FreeSize(mem', r) = rest
    BY <1>1, <1>5, <1>10, <2>2, HeadWritten
  <2> QED
    BY <2>1, <2>2 DEF Headed, T
<1>14. Linked8(mem', T, heapEnd)
  <2> DEFINE n == mem[act]
             m2 == [mem EXCEPT ![prv] = n]
             S2 == Nodes \ {act}
  <2>1. mem \in [Words -> Int] /\ Linked8(mem, Nodes, heapEnd)
    BY DEF MemInv, MemTypes
  <2>2. m2[prv] = n /\ \A b \in Words : b # prv => m2[b] = mem[b]
    BY <1>2, <2>1
  <2>3. \A b \in Nodes \cup {Anchor} : b \in Words /\ b \in Nat
    BY <1>2, <2>1, LinkTypes
  <2>4. {b \in Nodes : b <= prv \/ b >= n} = S2
    <3> SUFFICES ASSUME NEW b \in Nodes PROVE (b <= prv \/ b >= n) <=> b # act
      OBVIOUS
    <3>1. b \in Nat /\ (prv < b => act <= b) /\ (act < b => n <= b) /\ n \in Nat /\ act < n
      BY <1>2
    <3> HIDE DEF n
    <3> QED
      BY <1>2, <3>1
  <2> HIDE DEF m2
  <2>5. Linked8(m2, S2, heapEnd)
    <3>1. \A b \in Nodes \cup {Anchor} : b < prv \/ b >= n => m2[b] = mem[b]
      BY <1>2, <2>2, <2>3
    <3>2. n \in Nodes \cup {heapEnd} /\ prv < n
      BY <1>2
    <3> HIDE DEF n, S2
    <3> QED
      BY <1>1, <2>1, <2>2, <2>4, <3>1, <3>2, Relink
  <2>6. prv \in S2 \cup {Anchor}
    BY <1>1, <1>2
  <2>7. \A b \in S2 \cup {Anchor} : b # prv => mem'[b] = m2[b]
    <3> TAKE b \in S2 \cup {Anchor}
    <3> HAVE b # prv
    <3>1. CASE b \in Nodes
      <4>1. b # act
        BY <1>2, <3>1
      <4> QED
        BY <1>12, <2>2, <2>3, <3>1, <4>1
    <3>2. CASE b = Anchor
      <4>1. ~InBlock(Anchor, act, fs)
        BY <1>1, <1>2, <1>3, Apart, Places
      <4>2. Anchor \in Words
        BY Places
      <4> QED
        BY <1>8, <2>2, <3>2, <4>1, <4>2
    <3> QED
      BY <3>1, <3>2
  <2>8. CASE rest = 0
    <3>1. mem'[prv] = n
      BY <1>9, <2>8
    <3>2. T = S2
      BY <2>8 DEF T
    <3>3. {b \in S2 : b <= prv \/ b >= n} = S2
      BY <2>4
    <3>4. n \in S2 \cup {heapEnd} /\ prv < n
      BY <1>2
    <3> HIDE DEF n, S2
    <3>5. Linked8(mem', {b \in S2 : b <= prv \/ b >= n}, heapEnd)
      <4>1. \A b \in S2 \cup {Anchor} : b < prv \/ b >= n => mem'[b] = m2[b]
        <5>1. \A b \in S2 \cup {Anchor} : b \in Nat
          BY <2>3 DEF S2
        <5> QED
          BY <1>2, <2>7, <3>4, <5>1
      <4> QED
        BY <2>5, <2>6, <3>1, <3>4, <4>1, Relink
    <3> QED
      BY <3>2, <3>3, <3>5
  <2>9. CASE rest # 0
    <3>1. mem'[prv] = r /\ mem'[r] = m2[prv]
      BY <1>9, <1>10, <2>2, <2>9
    <3>2. T = S2 \cup {r}
      BY <2>9 DEF T
    <3>3. r \in Words /\ r % 8 = 0 /\ prv < r /\ r < m2[prv]
      BY <1>5, <1>7, <2>2, <2>9
    <3> HIDE DEF n, S2
    <3> QED
      BY <2>5, <2>6, <2>7, <3>1, <3>2, <3>3, Insert
  <2> QED
    BY <2>8, <2>9
<1>15. Ends(mem', heapEnd)
  <2>1. HeapStart \in Words /\ heapEnd - 4 \in Words /\ heapEnd \in Words
    <3>1. heapEnd \in Words /\ heapEnd % 8 = 0 /\ heapEnd <= MaxHeapEnd /\ Anchor < heapEnd /\ heapEnd \in Nat
      BY <1>2, LinkTypes, Places DEF MemInv
    <3>2. heapEnd - 4 \in Nat /\ HeapStart <= heapEnd - 4 /\ heapEnd - 4 <= MaxHeapEnd /\ (heapEnd - 4) % 4 = 0
      BY <3>1, Places
    <3> QED
      BY <3>1, <3>2, Places
  <2>2. ~InBlock(HeapStart, act, fs) /\ ~InBlock(heapEnd - 4, act, fs) /\ ~InBlock(heapEnd, act, fs)
    <3>1. HeapStart \in Int /\ heapEnd \in Int /\ heapEnd - 4 \in Int /\ ~(HeapStart >= HeapStart + 8)
          /\ ~(heapEnd - 4 < heapEnd - 4) /\ ~(heapEnd < heapEnd - 4)
      BY <1>2, Places
    <3> QED
      BY <1>1, <1>3, <3>1, Apart
  <2>3. HeapStart # prv /\ heapEnd - 4 # prv /\ heapEnd # prv
    <3>1. HeapStart % 8 = 4 /\ heapEnd % 8 = 0 /\ HeapStart \in Nat
      BY HeapMemAssumption, LinkTypes DEF MemInv
    <3> QED
      BY <1>2, <3>1
  <2> QED
    BY <1>8, <2>1, <2>2, <2>3 DEF MemInv, Ends
<1>16. /\ DOMAIN arr' = DOMAIN arr \cup {act} /\ arr'[act] = block /\ act \notin DOMAIN arr
       /\ \A b \in DOMAIN arr : b # act /\ arr'[b] = arr[b]
  <2>1. act \notin DOMAIN arr
    BY <1>1, Tiles
  <2> QED
    BY <2>1 DEF Give
<1>17. \A b \in DOMAIN arr : Intact(b)' /\ Footprint(b)' = Footprint(b)
  <2> TAKE b \in DOMAIN arr
  <2>1. arr'[b] = arr[b] /\ b # act /\ BSize(b) = Footprint(b)
    BY <1>16, Tiles
  <2>2. \A w \in Words : InBlock(w, b, Footprint(b)) => mem'[w] = mem[w]
    BY <1>11, <2>1
  <2>3. Intact(b)'
    BY <2>1, <2>2, IntactKept
  <2> QED
    BY <2>1, <2>3 DEF Footprint
<1>18. /\ DOMAIN FreeBlocks = Nodes /\ DOMAIN FreeBlocks' = T
       /\ \A c \in Nodes : FreeBlocks[c] = FreeSize(mem, c)
       /\ FreeBlocks' = [c \in T |-> FreeSize(mem', c)]
  <2>1. Linked8(mem', T, heapEnd')
    BY <1>14
  <2>2. Linked8(mem, Nodes, heapEnd)
    BY DEF MemInv
  <2> QED
    BY <2>1, <2>2, NodesNow, NodesNext
<1>19. UsedBlocks' = [b \in DOMAIN arr \cup {act} |-> IF b = act THEN size ELSE Footprint(b)]
  BY <1>16, <1>17 DEF UsedBlocks
<1>20. Tiled!AllocAt(act, size)
  <2>1. Tiled!FirstFit(act, size)
    BY <1>1, <1>3, <1>4, <1>18 DEF Tiled!FirstFit
  <2>2. UsedBlocks' = Tiled!Put(UsedBlocks, act, size)
    <3>1. DOMAIN UsedBlocks = DOMAIN arr /\ \A b \in DOMAIN arr : UsedBlocks[b] = Footprint(b)
      BY DEF UsedBlocks
    <3>2. Tiled!Put(UsedBlocks, act, size) = [b \in DOMAIN arr \cup {act} |-> IF b = act THEN size ELSE Footprint(b)]
      BY <3>1 DEF Tiled!Put
    <3> QED
      BY <1>19, <3>2
  <2>3. CASE rest = 0
    <3>1. FreeBlocks[act] = size /\ T = Nodes \ {act}
      BY <1>1, <1>3, <1>4, <1>18, <2>3 DEF T
    <3>2. FreeBlocks' = Tiled!Drop(FreeBlocks, {act})
      <4>1. FreeBlocks' = [c \in Nodes \ {act} |-> FreeSize(mem, c)]
        BY <1>13, <1>18, <3>1
      <4>2. Tiled!Drop(FreeBlocks, {act}) = [c \in Nodes \ {act} |-> FreeBlocks[c]]
        BY <1>18 DEF Tiled!Drop, Tiled!Restrict
      <4> QED
        BY <1>18, <4>1, <4>2
    <3> QED
      BY <2>1, <2>2, <3>1, <3>2 DEF Tiled!AllocAt
  <2>4. CASE rest # 0
    <3> DEFINE put == Tiled!Put(FreeBlocks, r, rest)
    <3>1. FreeBlocks[act] # size /\ T = (Nodes \ {act}) \cup {r} /\ FreeBlocks[act] - size = rest
      BY <1>1, <1>3, <1>4, <1>18, <2>4 DEF T
    <3>2. act # r /\ r = act + size
      BY <1>2, <1>5 DEF r
    <3>3. r \notin Nodes
      <4>1. prv < r /\ act < r /\ r < mem[act]
        BY <1>5, <2>4
      <4> QED
        BY <1>2, <1>5, <4>1
    <3>4. put = [c \in Nodes \cup {r} |-> IF c = r THEN rest ELSE FreeSize(mem, c)]
      BY <1>18 DEF Tiled!Put
    <3>5. Tiled!Drop(put, {act}) = [c \in (Nodes \cup {r}) \ {act} |-> IF c = r THEN rest ELSE FreeSize(mem, c)]
      <4>1. DOMAIN put = Nodes \cup {r}
        BY <3>4
      <4> HIDE DEF put
      <4> QED
        BY <3>4, <4>1 DEF Tiled!Drop, Tiled!Restrict
    <3>6. (Nodes \cup {r}) \ {act} = T
      BY <3>1, <3>2
    <3>7. FreeBlocks' = [c \in T |-> IF c = r THEN rest ELSE FreeSize(mem, c)]
      BY <1>13, <1>18, <2>4, <3>1, <3>3
    <3>8. FreeBlocks' = Tiled!Drop(put, {act})
      BY <3>5, <3>6, <3>7
    <3> QED
      BY <2>1, <2>2, <3>1, <3>2, <3>8 DEF Tiled!AllocAt
  <2> QED
    BY <2>3, <2>4
<1>21. size <= MaxHeapEnd
  BY <1>2, <1>3, <1>4, Places, LinkTypes DEF MemInv
<1>22. Tiled!Next
  <2>1. size \in BlockSizes
    <3>1. size \div 8 \in 1 .. MaxHeapEnd \div 8 /\ size = 8 * (size \div 8)
      BY <1>4, <1>21, Places
    <3> QED
      BY <3>1 DEF BlockSizes
  <2>2. Tiled!Align8(size) = size
    BY DEF Tiled!Align8
  <2>3. Tiled!Alloc(size)
    BY <1>1, <1>18, <1>20, <2>2 DEF Tiled!Alloc
  <2> QED
    BY <2>1, <2>3 DEF Tiled!Next
<1>23. MemInv'
  <2>1. DOMAIN arr' \subseteq Nat /\ \A b \in DOMAIN arr' : Known(arr'[b], client) /\ Intact(b)'
    BY <1>2, <1>16, <1>17 DEF MemInv, MemTypes
  <2> QED
    BY <1>13, <1>14, <1>15, <1>22, <2>1, Closing
<1> QED
  BY <1>22, <1>23

-----------------------------------------------------------------------------
(* The words a new block has. *)
LEMMA Given ==
  ASSUME MemInv, NEW size \in Nat \ {0}, size % 8 = 0, NEW place \in Found(size)
  PROVE  /\ place[2] \in Nat /\ place[2] % 8 = 0
         /\ AllocAligned(place, size) \in [Words -> Int]
         /\ \A w \in Int : w % 4 = 0 /\ place[2] - 4 <= w /\ w <= place[2] + size => w \in Words
<1> DEFINE act == place[2]
           fs == FreeSize(mem, act)
<1>1. act \in Nodes /\ fs - size \in Nat /\ AllocAligned(place, size) \in [Words -> Int]
  BY Cut DEF CutOff
<1>2. act \in Nat /\ act % 8 = 0 /\ BSize(act) = fs /\ fs \in Nat
  BY <1>1, Tiles
<1> HIDE DEF act, fs
<1>3. size <= fs
  BY <1>1, <1>2
<1>4. \A w \in Int : w % 4 = 0 /\ act - 4 <= w /\ w <= act + size => w \in Words
  <2> SUFFICES ASSUME NEW w \in Int, w % 4 = 0, act - 4 <= w, w <= act + size PROVE w \in Words
    OBVIOUS
  <2>1. w <= act + fs
    BY <1>2, <1>3
  <2> QED
    BY <1>1, <1>2, <2>1, BlockWords
<1> QED
  BY <1>1, <1>2, <1>4 DEF act

(* What a client stores stays within its bounds. *)
LEMMA Filled ==
  ASSUME NEW m \in [Words -> Int], NEW lo \in Int, NEW hi \in Int
  PROVE  /\ Fill(m, lo, hi) \in [Words -> Int]
         /\ \A w \in Words : lo <= w /\ w < hi => Fill(m, lo, hi)[w] = DATA
         /\ \A w \in Words : w < lo \/ w >= hi => Fill(m, lo, hi)[w] = m[w]
<1>1. DATA \in Int
  BY DEF DATA
<1>2. \A w \in Words : w \in Nat
  BY Places
<1> HIDE DEF DATA
<1> QED
  BY <1>1, <1>2 DEF Fill

(* The four ways to take a block. *)
LEMMA AllocElemStep ==
  ASSUME MemInv, NEW bytes \in Requests, AllocElem(bytes)
  PROVE  MemInv' /\ Tiled!Next
<1> DEFINE size == Align8(bytes)
           block == [kind |-> "raw", tag |-> 0, bytes |-> bytes, lens |-> <<>>]
<1>1. bytes \in Nat \ {0} /\ client = "C" /\ heapEnd' = heapEnd /\ client' = client
  BY HeapMemAssumption DEF AllocElem
<1>2. size \in Nat \ {0} /\ size % 8 = 0 /\ size >= bytes
  BY <1>1, Align8Facts
<1>3. PICK place \in Found(size) :
        /\ Give(place[2], block)
        /\ mem' = Fill(AllocAligned(place, size), place[2] - 4, place[2] - 4 + bytes)
  BY DEF AllocElem
<1> HIDE DEF size
<1> DEFINE b == place[2]
           m1 == AllocAligned(place, size)
<1>4. /\ b \in Nat /\ b % 8 = 0 /\ m1 \in [Words -> Int]
      /\ \A w \in Int : w % 4 = 0 /\ b - 4 <= w /\ w <= b + size => w \in Words
  BY <1>2, Given
<1>5. b = place[2] /\ m1 = AllocAligned(place, size)
  OBVIOUS
<1> HIDE DEF b, m1
<1>6. b - 4 \in Int /\ b - 4 + bytes \in Int /\ mem' = Fill(m1, b - 4, b - 4 + bytes)
  BY <1>1, <1>3, <1>4, <1>5
<1>7. /\ mem' \in [Words -> Int]
      /\ \A w \in Words : b - 4 <= w /\ w < b - 4 + bytes => mem'[w] = DATA
      /\ \A w \in Words : w < b - 4 \/ w >= b - 4 + bytes => mem'[w] = m1[w]
  BY <1>4, <1>6, Filled
<1>8. \A w \in Words : ~InBlock(w, b, size) => mem'[w] = m1[w]
  <2> TAKE w \in Words
  <2> HAVE ~InBlock(w, b, size)
  <2>1. w \in Nat
    BY Places
  <2>2. w < b - 4 \/ w >= b - 4 + bytes
    BY <1>1, <1>2, <1>4, <2>1 DEF InBlock
  <2> QED
    BY <1>7, <2>2
<1>9. Give(b, block) /\ arr'[b] = block
  BY <1>3, <1>5 DEF Give
<1>10. block.kind = "raw" /\ block.bytes = bytes
  OBVIOUS
<1> HIDE DEF block
<1>11. Known(block, client)
  BY <1>1, <1>10 DEF Known
<1>12. Footprint(b)' = size
  BY <1>9, <1>10 DEF Footprint, size
<1>13. Intact(b)'
  <2>1. ASSUME NEW w \in b - 4 .. b - 4 + bytes - 1, w % 4 = 0 PROVE mem'[w] = DATA
    <3>1. w \in Int /\ b - 4 <= w /\ w <= b + size /\ w < b - 4 + bytes
      BY <1>1, <1>2, <1>4
    <3>2. w \in Words
      BY <1>4, <2>1, <3>1
    <3> QED
      BY <1>7, <3>1, <3>2
  <2> QED
    BY <1>9, <1>10, <2>1 DEF Intact
<1> QED
  BY <1>1, <1>2, <1>5, <1>7, <1>8, <1>9, <1>11, <1>12, <1>13, Taken

(* $staticNEW takes a block and writes its tag; the client fills it. *)
LEMMA StaticStep ==
  ASSUME MemInv, NEW t \in DOMAIN TDesc, StaticNEW(t)
  PROVE  MemInv' /\ Tiled!Next
<1> DEFINE bytes == TDesc[t].size
           size == StaticBlockSize(bytes)
           block == [kind |-> "static", tag |-> t, bytes |-> bytes, lens |-> <<>>]
<1>1. bytes \in Nat /\ client = "Oberon" /\ heapEnd' = heapEnd /\ client' = client /\ t \in Nat
  BY HeapMemAssumption DEF StaticNEW
<1>2. size \in Nat \ {0} /\ size % 8 = 0 /\ size >= bytes + 4
  <2> HIDE DEF bytes
  <2>1. 4 + bytes \in Nat
    BY <1>1
  <2> QED
    BY <1>1, <2>1, Align8Facts DEF StaticBlockSize
<1>3. PICK place \in Found(size) :
        /\ Give(place[2], block)
        /\ mem' = Fill([AllocAligned(place, size) EXCEPT ![place[2]-4] = t], place[2], place[2] + bytes)
  BY DEF StaticNEW
<1>a. bytes = TDesc[t].size /\ size = StaticBlockSize(bytes)
  OBVIOUS
<1> HIDE DEF size, bytes
<1> DEFINE b == place[2]
           m0 == AllocAligned(place, size)
           m1 == [m0 EXCEPT ![b-4] = t]
<1>4. /\ b \in Nat /\ b % 8 = 0 /\ m0 \in [Words -> Int]
      /\ \A w \in Int : w % 4 = 0 /\ b - 4 <= w /\ w <= b + size => w \in Words
  BY <1>2, Given
<1>5. b = place[2] /\ m0 = AllocAligned(place, size) /\ mem' = Fill(m1, b, b + bytes)
  BY <1>3
<1> HIDE DEF b, m0
<1>6. b \in Int /\ b + bytes \in Int /\ b - 4 \in Words
  BY <1>1, <1>2, <1>4
<1>b. m1 \in [Words -> Int] /\ m1[b-4] = t /\ \A w \in Words : w # b - 4 => m1[w] = m0[w]
  BY <1>1, <1>4, <1>6
<1> HIDE DEF m1
<1>7. /\ mem' \in [Words -> Int]
      /\ \A w \in Words : b <= w /\ w < b + bytes => mem'[w] = DATA
      /\ \A w \in Words : w < b \/ w >= b + bytes => mem'[w] = m1[w]
  BY <1>b, <1>5, <1>6, Filled
<1>8. \A w \in Words : ~InBlock(w, b, size) => mem'[w] = m0[w]
  <2> TAKE w \in Words
  <2> HAVE ~InBlock(w, b, size)
  <2>1. w \in Nat
    BY Places
  <2>2. (w < b \/ w >= b + bytes) /\ w # b - 4
    BY <1>1, <1>2, <1>4, <2>1 DEF InBlock
  <2> QED
    BY <1>7, <1>b, <2>2
<1>9. Give(b, block) /\ arr'[b] = block
  BY <1>3, <1>5 DEF Give
<1>10. block.kind = "static" /\ block.bytes = bytes /\ block.tag = t /\ block.lens = <<>>
  OBVIOUS
<1> HIDE DEF block
<1>11. Known(block, client)
  BY <1>a, <1>1, <1>10 DEF Known
<1>12. Footprint(b)' = size
  BY <1>a, <1>9, <1>10 DEF Footprint
<1>13. Intact(b)'
  <2>1. ASSUME NEW w \in b .. b + bytes - 1, w % 4 = 0 PROVE mem'[w] = DATA
    <3>1. w \in Int /\ b <= w /\ b - 4 <= w /\ w <= b + size /\ w < b + bytes
      BY <1>1, <1>2, <1>4
    <3>2. w \in Words
      BY <1>4, <2>1, <3>1
    <3> QED
      BY <1>7, <3>1, <3>2
  <2>2. mem'[b-4] = t
    <3>1. b - 4 < b
      BY <1>4
    <3> QED
      BY <1>6, <1>7, <1>b, <3>1
  <2>3. DOMAIN <<>> = {}
    OBVIOUS
  <2> QED
    BY <1>9, <1>10, <2>1, <2>2, <2>3 DEF Intact
<1> QED
  BY <1>1, <1>2, <1>5, <1>7, <1>8, <1>9, <1>11, <1>12, <1>13, Taken

(* SYSTEM$NEW takes a block and writes tag and trailer; the client fills   *)
(* what lies between.                                                      *)
LEMMA SystemStep ==
  ASSUME MemInv, NEW bytes \in SystemRequests, SystemNEW(bytes)
  PROVE  MemInv' /\ Tiled!Next
<1> DEFINE size == SystemBlockSize(bytes)
           block == [kind |-> "system", tag |-> 0, bytes |-> bytes, lens |-> <<>>]
<1>1. bytes \in Nat /\ client = "Oberon" /\ heapEnd' = heapEnd /\ client' = client
  BY HeapMemAssumption DEF SystemNEW
<1>2. size \in Nat \ {0} /\ size % 8 = 0 /\ size >= bytes + 12 /\ size >= 16
  <2>1. 4 + bytes + 8 \in Nat
    BY <1>1
  <2>2. size = Align8(4 + bytes + 8)
    BY DEF SystemBlockSize
  <2>3. size \in Nat /\ size % 8 = 0 /\ size >= bytes + 12
    BY <1>1, <2>1, <2>2, Align8Facts
  <2> HIDE DEF size
  <2> QED
    BY <1>1, <2>3
<1>3. PICK place \in Found(size) :
        /\ Give(place[2], block)
        /\ mem' = Fill([AllocAligned(place, size) EXCEPT ![place[2]+size-8] = size,
                                                         ![place[2]+size-12] = SB_S,
                                                         ![place[2]-4] = place[2] + size - 8],
                       place[2], place[2] + bytes)
  BY DEF SystemNEW
<1>a. size = SystemBlockSize(bytes)
  OBVIOUS
<1> HIDE DEF size
<1> DEFINE b == place[2]
           m0 == AllocAligned(place, size)
           m1 == [m0 EXCEPT ![b+size-8] = size, ![b+size-12] = SB_S, ![b-4] = b + size - 8]
<1>4. /\ b \in Nat /\ b % 8 = 0 /\ m0 \in [Words -> Int]
      /\ \A w \in Int : w % 4 = 0 /\ b - 4 <= w /\ w <= b + size => w \in Words
  BY <1>2, Given
<1>5. b = place[2] /\ m0 = AllocAligned(place, size) /\ mem' = Fill(m1, b, b + bytes)
  BY <1>3
<1> HIDE DEF b, m0
<1>6. b \in Int /\ b + bytes \in Int /\ b - 4 \in Words /\ b + size - 8 \in Words /\ b + size - 12 \in Words
  <2>1. /\ (b - 4) % 4 = 0 /\ (b + size - 8) % 4 = 0 /\ (b + size - 12) % 4 = 0
        /\ b - 4 <= b + size /\ b - 4 <= b + size - 8 /\ b - 4 <= b + size - 12
        /\ b + size - 8 <= b + size /\ b + size - 12 <= b + size
    BY <1>2, <1>4
  <2> QED
    BY <1>1, <1>2, <1>4, <2>1
<1>c. b - 4 # b + size - 8 /\ b - 4 # b + size - 12 /\ b + size - 8 # b + size - 12
      /\ b + size - 8 \in Int /\ size \in Int /\ SB_S \in Int
  BY TextFacts, <1>2, <1>4 DEF SB_S
<1>b. /\ m1 \in [Words -> Int] /\ m1[b-4] = b + size - 8 /\ m1[b+size-8] = size /\ m1[b+size-12] = SB_S
      /\ \A w \in Words : w # b - 4 /\ w # b + size - 8 /\ w # b + size - 12 => m1[w] = m0[w]
  <2> DEFINE p == b - 4
             q == b + size - 8
             r == b + size - 12
  <2>1. p \in Words /\ q \in Words /\ r \in Words /\ p # q /\ p # r /\ q # r /\ q \in Int
    BY <1>6, <1>c
  <2>2. m1 = [m0 EXCEPT ![q] = size, ![r] = SB_S, ![p] = q]
    OBVIOUS
  <2> HIDE DEF p, q, r, SB_S, m1
  <2>3. m1 \in [Words -> Int] /\ m1[p] = q /\ m1[q] = size /\ m1[r] = SB_S
        /\ \A w \in Words : w # p /\ w # q /\ w # r => m1[w] = m0[w]
    BY <1>4, <1>c, <2>1, <2>2
  <2> QED
    BY <2>3 DEF p, q, r
<1> HIDE DEF m1
<1>7. /\ mem' \in [Words -> Int]
      /\ \A w \in Words : b <= w /\ w < b + bytes => mem'[w] = DATA
      /\ \A w \in Words : w < b \/ w >= b + bytes => mem'[w] = m1[w]
  BY <1>b, <1>5, <1>6, Filled
<1>8. \A w \in Words : ~InBlock(w, b, size) => mem'[w] = m0[w]
  <2> TAKE w \in Words
  <2> HAVE ~InBlock(w, b, size)
  <2>1. w \in Nat
    BY Places
  <2>2. (w < b \/ w >= b + bytes) /\ w # b - 4 /\ w # b + size - 8 /\ w # b + size - 12
    BY <1>1, <1>2, <1>4, <2>1 DEF InBlock
  <2> QED
    BY <1>7, <1>b, <2>2
<1>9. Give(b, block) /\ arr'[b] = block
  BY <1>3, <1>5 DEF Give
<1>10. block.kind = "system" /\ block.bytes = bytes
  OBVIOUS
<1> HIDE DEF block
<1>11. Known(block, client)
  BY <1>1, <1>10 DEF Known
<1>12. Footprint(b)' = size
  BY <1>a, <1>9, <1>10 DEF Footprint
<1>13. Intact(b)'
  <2>1. ASSUME NEW w \in b .. b + bytes - 1, w % 4 = 0 PROVE mem'[w] = DATA
    <3>1. w \in Int /\ b <= w /\ b - 4 <= w /\ w <= b + size /\ w < b + bytes
      BY <1>1, <1>2, <1>4
    <3>2. w \in Words
      BY <1>4, <2>1, <3>1
    <3> QED
      BY <1>7, <3>1, <3>2
  <2>2. mem'[b-4] = b + size - 8
    <3>1. b - 4 < b
      BY <1>4
    <3> QED
      BY <1>6, <1>7, <1>b, <3>1
  <2>3. mem'[b+size-8] = size /\ mem'[b+size-12] = SB_S
    <3>1. b + size - 8 >= b + bytes /\ b + size - 12 >= b + bytes
      BY <1>1, <1>2, <1>4
    <3> QED
      BY <1>6, <1>7, <1>b, <3>1
  <2> QED
    BY <1>9, <1>10, <1>12, <2>1, <2>2, <2>3 DEF Intact
<1> QED
  BY <1>1, <1>2, <1>5, <1>7, <1>8, <1>9, <1>11, <1>12, <1>13, Taken

(* $openNEW takes a block and writes tag, number of elements and lengths;  *)
(* the client fills the elements.                                          *)
LEMMA OpenStep ==
  ASSUME MemInv, NEW t \in DOMAIN TDesc, NEW lens \in Lens, OpenNEW(t, lens)
  PROVE  MemInv' /\ Tiled!Next
<1> DEFINE n == Len(lens)
           prod == Product(lens)
           bytes == prod * TDesc[t].elemSize
           size == OpenBlockSize(n, prod, TDesc[t].elemSize)
           block == [kind |-> "open", tag |-> t, bytes |-> bytes, lens |-> lens]
<1>1. /\ TDesc[t].size = -n /\ client = "Oberon" /\ heapEnd' = heapEnd /\ client' = client /\ t \in Nat
      /\ TDesc[t].elemSize \in Nat
  BY HeapMemAssumption DEF OpenNEW
<1>2. /\ n \in Nat \ {0} /\ prod \in Nat /\ DOMAIN lens = 1 .. n /\ lens # <<>>
      /\ \A i \in 1 .. n : lens[i] \in Nat
      /\ n = 1 => prod = lens[1]
  BY ProductFacts DEF Lens
<1>a. size = OpenBlockSize(n, prod, TDesc[t].elemSize) /\ bytes = prod * TDesc[t].elemSize
      /\ n = Len(lens) /\ prod = Product(lens)
  OBVIOUS
<1>3. PICK place \in Found(size) :
        /\ Give(place[2], block)
        /\ mem' = Fill(StoreLens([AllocAligned(place, size) EXCEPT ![place[2]-4] = t, ![place[2]] = prod],
                                 lens, place[2]),
                       LensAt(lens, place[2]) + 4 * n, LensAt(lens, place[2]) + 4 * n + bytes)
  BY DEF OpenNEW
<1> HIDE DEF prod, n, bytes, size
<1>b. bytes \in Nat
  BY <1>1, <1>2, <1>a
<1>c. size \in Nat \ {0} /\ size % 8 = 0 /\ size >= 4 * n + (IF n > 1 THEN 8 ELSE 4) + bytes
  <2> DEFINE x == 4 + 4 * ((IF n > 1 THEN 1 ELSE 0) + n) + bytes
  <2>1. x \in Nat /\ size = Align8(x) /\ x >= 4 * n + (IF n > 1 THEN 8 ELSE 4) + bytes
    <3>1. CASE n = 1
      BY <3>1, <1>a, <1>b DEF OpenBlockSize
    <3>2. CASE n > 1
      BY <1>2, <3>2, <1>a, <1>b DEF OpenBlockSize
    <3> QED
      BY <1>2, <3>1, <3>2
  <2> HIDE DEF x
  <2>2. size \in Nat /\ size % 8 = 0 /\ size >= x
    BY <2>1, Align8Facts
  <2> QED
    BY <1>2, <1>b, <2>1, <2>2
<1> DEFINE b == place[2]
           m0 == AllocAligned(place, size)
           m1 == [m0 EXCEPT ![b-4] = t, ![b] = prod]
           lo == LensAt(lens, b)
           m2 == StoreLens(m1, lens, b)
<1>4. /\ b \in Nat /\ b % 8 = 0 /\ m0 \in [Words -> Int]
      /\ \A w \in Int : w % 4 = 0 /\ b - 4 <= w /\ w <= b + size => w \in Words
  BY <1>c, Given
<1>5. b = place[2] /\ m0 = AllocAligned(place, size) /\ mem' = Fill(m2, lo + 4 * n, lo + 4 * n + bytes)
  BY <1>3
<1> HIDE DEF b, m0
<1>d. lo = IF n > 1 THEN b + 4 ELSE b
  BY <1>a DEF LensAt
<1>e. /\ lo \in Nat /\ lo % 4 = 0 /\ b <= lo /\ lo + 4 * n + bytes <= b + size - 4
      /\ lo + 4 * n \in Int /\ lo + 4 * n + bytes \in Int
      /\ n = 1 => lo = b
      /\ n > 1 => lo = b + 4
  <2> HIDE DEF lo
  <2>1. CASE n = 1
    BY <2>1, <1>4, <1>b, <1>c, <1>d
  <2>2. CASE n > 1
    BY <2>2, <1>2, <1>4, <1>b, <1>c, <1>d
  <2> QED
    BY <1>2, <2>1, <2>2
<1>6. b \in Int /\ b - 4 \in Words /\ b \in Words /\ b - 4 # b
  BY <1>4, <1>c
<1>f. m1 \in [Words -> Int] /\ m1[b-4] = t /\ m1[b] = prod /\ \A w \in Words : w # b - 4 /\ w # b => m1[w] = m0[w]
  BY <1>1, <1>2, <1>4, <1>6
<1>g. lo = LensAt(lens, b) /\ m2 = StoreLens(m1, lens, b)
  OBVIOUS
<1> HIDE DEF m1, lo, m2
<1>i. ASSUME NEW i \in 1 .. n
      PROVE  /\ lo + 4 * (i-1) \in Words /\ lo <= lo + 4 * (i-1)
             /\ lo + 4 * (i-1) < lo + 4 * n /\ ((lo + 4 * (i-1)) - lo) \div 4 + 1 = i
  <2>1. i \in Nat /\ 1 <= i /\ i <= n /\ n \in Nat
    BY <1>2
  <2> DEFINE w == lo + 4 * (i-1)
  <2>2. w \in Int /\ w % 4 = 0 /\ b - 4 <= w /\ w <= b + size
    BY <2>1, <1>4, <1>b, <1>c, <1>e
  <2>3. w \in Words
    <3> HIDE DEF w
    <3> QED
      BY <1>4, <2>2
  <2>4. lo <= w /\ w < lo + 4 * n /\ (w - lo) \div 4 + 1 = i
    BY <2>1, <1>e
  <2> QED
    BY <2>3, <2>4
<1>h. /\ m2 \in [Words -> Int] /\ \A i \in 1 .. n : m2[lo + 4 * (i-1)] = lens[i]
      /\ \A w \in Words : w < lo \/ w >= lo + 4 * n => m2[w] = m1[w]
  <2> DEFINE At(w) == \E i \in DOMAIN lens : w = lo + 4 * (i-1)
  <2>1. m2 = [w \in Words |-> IF At(w) THEN lens[(w - lo) \div 4 + 1] ELSE m1[w]]
    BY <1>f, <1>g DEF StoreLens
  <2>2. ASSUME NEW w \in Words, At(w)
        PROVE  /\ lens[(w - lo) \div 4 + 1] \in Nat /\ lo <= w /\ w < lo + 4 * n
    <3>1. PICK i \in 1 .. n : w = lo + 4 * (i-1)
      BY <1>2, <2>2
    <3> QED
      BY <1>2, <1>i, <3>1
  <2>3. ASSUME NEW i \in 1 .. n PROVE m2[lo + 4 * (i-1)] = lens[i]
    <3> DEFINE w == lo + 4 * (i-1)
    <3>1. w \in Words /\ (w - lo) \div 4 + 1 = i
      BY <1>i
    <3>2. At(w)
      BY <1>2
    <3> HIDE DEF w, At
    <3>3. m2[w] = lens[i]
      BY <2>1, <3>1, <3>2
    <3> QED
      BY <3>3 DEF w
  <2> HIDE DEF At
  <2>6. m2 \in [Words -> Int]
    <3>1. \A w \in Words : (IF At(w) THEN lens[(w - lo) \div 4 + 1] ELSE m1[w]) \in Int
      BY <1>f, <2>2
    <3> QED
      BY <2>1, <3>1
  <2>9. ASSUME NEW w \in Words, w < lo \/ w >= lo + 4 * n PROVE m2[w] = m1[w]
    <3>1. ~At(w)
      <4>1. w \in Nat /\ lo + 4 * n \in Int
        BY <1>e, Places
      <4> QED
        BY <1>e, <2>2, <2>9, <4>1
    <3> QED
      BY <2>1, <3>1
  <2> QED
    BY <2>3, <2>6, <2>9
<1>7. /\ mem' \in [Words -> Int]
      /\ \A w \in Words : lo + 4 * n <= w /\ w < lo + 4 * n + bytes => mem'[w] = DATA
      /\ \A w \in Words : w < lo + 4 * n \/ w >= lo + 4 * n + bytes => mem'[w] = m2[w]
  BY <1>5, <1>e, <1>h, Filled
<1>8. \A w \in Words : ~InBlock(w, b, size) => mem'[w] = m0[w]
  <2> TAKE w \in Words
  <2> HAVE ~InBlock(w, b, size)
  <2>1. w \in Nat
    BY Places
  <2>2. w < b - 4 \/ w >= b + size - 4
    BY <1>4, <1>c, <2>1 DEF InBlock
  <2>3. w # b - 4 /\ w # b /\ (w < lo \/ w >= lo + 4 * n + bytes)
    BY <1>4, <1>b, <1>c, <1>e, <1>2, <2>1, <2>2
  <2>4. w < lo \/ w >= lo + 4 * n
    BY <1>2, <1>b, <1>e, <2>1, <2>3
  <2>5. w < lo + 4 * n \/ w >= lo + 4 * n + bytes
    BY <1>2, <1>b, <1>e, <2>1, <2>3
  <2> QED
    BY <1>7, <1>f, <1>h, <2>3, <2>4, <2>5
<1>9. Give(b, block) /\ arr'[b] = block
  BY <1>3, <1>5 DEF Give
<1>10. block.kind = "open" /\ block.bytes = bytes /\ block.tag = t /\ block.lens = lens
  OBVIOUS
<1> HIDE DEF block
<1>11. Known(block, client)
  BY <1>a, <1>1, <1>10 DEF Known
<1>12. Footprint(b)' = size
  BY <1>a, <1>9, <1>10 DEF Footprint
<1>13. Intact(b)'
  <2>1. ASSUME NEW w \in lo + 4 * n .. lo + 4 * n + bytes - 1, w % 4 = 0 PROVE mem'[w] = DATA
    <3>1. w \in Int /\ lo + 4 * n <= w /\ b - 4 <= w /\ w <= b + size /\ w < lo + 4 * n + bytes
      BY <1>2, <1>4, <1>b, <1>c, <1>e
    <3>2. w \in Words
      BY <1>4, <2>1, <3>1
    <3> QED
      BY <1>7, <3>1, <3>2
  <2>2. mem'[b-4] = t
    <3>1. b - 4 < lo /\ b - 4 < lo + 4 * n
      BY <1>2, <1>4, <1>e
    <3> QED
      BY <1>6, <1>7, <1>f, <1>h, <3>1
  <2>5. \A i \in DOMAIN lens : mem'[lo + 4 * (i-1)] = lens[i]
    <3> TAKE i \in DOMAIN lens
    <3>1. i \in 1 .. n
      BY <1>2
    <3> DEFINE w == lo + 4 * (i-1)
    <3>2. w \in Words /\ w < lo + 4 * n /\ m2[w] = lens[i]
      BY <1>h, <1>i, <3>1
    <3> HIDE DEF w
    <3>3. mem'[w] = lens[i]
      BY <1>7, <3>2
    <3> QED
      BY <3>3 DEF w
  <2>6. mem'[b] = prod
    <3>1. CASE n = 1
      <4>1. 1 \in DOMAIN lens /\ lo + 4 * (1 - 1) = b
        BY <1>2, <1>e, <3>1
      <4> QED
        BY <1>2, <2>5, <3>1, <4>1
    <3>2. CASE n > 1
      <4>1. b < lo /\ b < lo + 4 * n
        BY <1>2, <1>4, <1>e, <3>2
      <4> QED
        BY <1>6, <1>7, <1>f, <1>h, <4>1
    <3> QED
      BY <1>2, <3>1, <3>2
  <2> QED
    BY <1>2, <1>9, <1>10, <1>a, <1>g, <2>1, <2>2, <2>5, <2>6 DEF Intact
<1> QED
  BY <1>1, <1>5, <1>7, <1>8, <1>9, <1>11, <1>12, <1>13, <1>c, Taken

-----------------------------------------------------------------------------
(* The last free block in front of an address, if there is one. *)
LEMMA BeforeFinds ==
  ASSUME NEW S, Linked8(mem, S, heapEnd), NEW adr \in Nat, adr < heapEnd, adr \notin S, mem[Anchor] < adr
  PROVE  Before(adr) \in S /\ Before(adr) < adr /\ adr < mem[Before(adr)]
<1> DEFINE e == heapEnd
           F == [act \in Words |-> IF mem[act] > adr THEN act ELSE mem[act]]
           x0 == mem[Anchor]
           I == {a \in S : a < adr}
           V == [a \in Words |-> Steps8(a, e)]
<1>1. /\ e \in Nat /\ e \in Words /\ e % 8 = 0 /\ x0 \in S \cup {e} /\ x0 \in Nat
      /\ \A a \in S : /\ a \in Nat /\ a \in Words /\ a % 8 = 0 /\ a < e
                      /\ mem[a] \in S \cup {e} /\ mem[a] \in Nat /\ mem[a] \in Words /\ mem[a] % 8 = 0
                      /\ a < mem[a] /\ mem[a] <= e
  BY LinkTypes
<1>2. x0 \in I
  BY <1>1
<1>3. ASSUME NEW a \in I
      PROVE  F[a] \in I /\ V[a] \in Nat /\ (F[a] = a \/ V[F[a]] < V[a])
  <2>1. /\ a \in S /\ a < adr /\ a \in Nat /\ a \in Words /\ a % 8 = 0 /\ a < e /\ a <= e
        /\ mem[a] \in S \cup {e} /\ mem[a] \in Nat /\ mem[a] \in Words /\ mem[a] % 8 = 0
        /\ a < mem[a] /\ mem[a] <= e
    BY <1>1
  <2>2. V[a] = Steps8(a, e) /\ V[a] \in Nat
    BY <1>1, <2>1, StepsBound
  <2>3. CASE mem[a] > adr
    BY <2>1, <2>2, <2>3
  <2>4. CASE ~ (mem[a] > adr)
    <3>1. F[a] = mem[a]
      BY <2>1, <2>4
    <3>2. mem[a] \in S /\ mem[a] < adr
      BY <1>1, <2>1, <2>4
    <3>3. V[mem[a]] = Steps8(mem[a], e)
      BY <2>1
    <3>4. Steps8(mem[a], e) < Steps8(a, e)
      BY <1>1, <2>1, StepsDown
    <3>5. F[a] \in I
      BY <3>1, <3>2
    <3> QED
      BY <2>2, <3>1, <3>3, <3>4, <3>5
  <2> QED
    BY <2>3, <2>4
<1>4. V[x0] <= MaxSteps /\ MaxSteps \in Nat
  <2>1. x0 \in Words /\ x0 <= e
    BY <1>1, <1>2
  <2>2. V[x0] = Steps8(x0, e)
    BY <2>1
  <2> QED
    BY <1>1, <2>1, <2>2, StepsBound, Places
<1> DEFINE r == Loop(F, x0)
<1>5. r \in I /\ F[r] = r
  <2> HIDE DEF I, F, V, x0
  <2> QED
    BY <1>2, <1>3, <1>4, LoopEnds
<1>6. Before(adr) = r
  BY DEF Before
<1> HIDE DEF r
<1>7. r \in S /\ r < adr /\ r \in Nat /\ r < mem[r] /\ r \in Words
  BY <1>1, <1>5
<1>8. mem[r] > adr
  BY <1>5, <1>7
<1> QED
  BY <1>6, <1>7, <1>8

(* Where Free links a block in. *)
LinkedIn(adr, size, a) ==
  IF a \in Nodes /\ a + FreeSize(mem, a) = adr
  THEN [m |-> mem, act |-> a, size |-> FreeSize(mem, a) + size, next |-> mem[a]]
  ELSE [m |-> [mem EXCEPT ![a] = adr], act |-> adr, size |-> size, next |-> mem[a]]

(* Free finds the block in front, or the anchor, and links or extends there. *)
LEMMA LinkedAt ==
  ASSUME MemInv, NEW adr \in DOMAIN arr, NEW size
  PROVE  \E a \in Nodes \cup {Anchor} : a < adr /\ adr < mem[a] /\ Linked(adr, size) = LinkedIn(adr, size, a)
<1>1. /\ adr \in Nat /\ adr \notin Nodes /\ adr < heapEnd /\ Anchor < adr /\ Anchor \notin Nodes
      /\ Linked8(mem, Nodes, heapEnd)
  <2>1. adr \in Nat /\ adr \notin Nodes /\ First <= adr /\ adr + BSize(adr) <= heapEnd /\ BSize(adr) >= 8 /\ BSize(adr) \in Nat
    BY Tiles
  <2>2. Linked8(mem, Nodes, heapEnd) /\ heapEnd \in Nat /\ Anchor \notin Nodes
    BY LinkTypes DEF MemInv
  <2> DEFINE sz == BSize(adr)
  <2>3. sz \in Nat /\ sz >= 8 /\ adr + sz <= heapEnd
    BY <2>1
  <2> HIDE DEF sz
  <2>4. adr < heapEnd
    BY <2>1, <2>2, <2>3
  <2>5. Anchor < adr
    BY <2>1, Places
  <2> QED
    BY <2>1, <2>2, <2>4, <2>5
<1>2. mem[Anchor] \in Nodes \cup {heapEnd} /\ mem[Anchor] \in Nat /\ heapEnd \in Nat
  BY <1>1, LinkTypes
<1>3. CASE adr < mem[Anchor]
  <2>1. Linked(adr, size) = LinkedIn(adr, size, Anchor)
    BY <1>1, <1>3 DEF Linked, LinkedIn
  <2> QED
    BY <1>1, <1>3, <2>1
<1>4. CASE ~ (adr < mem[Anchor])
  <2>1. mem[Anchor] < adr
    BY <1>1, <1>2, <1>4
  <2>2. Before(adr) \in Nodes /\ Before(adr) < adr /\ adr < mem[Before(adr)]
    BY <1>1, <2>1, BeforeFinds
  <2>3. Linked(adr, size) = LinkedIn(adr, size, Before(adr))
    BY <1>4, <2>2 DEF Linked, LinkedIn
  <2> QED
    BY <2>2, <2>3
<1> QED
  BY <1>3, <1>4

(* A step that changes nothing. *)
LEMMA Unchanged ==
  ASSUME MemInv, UNCHANGED <<mem, heapEnd, arr, client>>
  PROVE  MemInv' /\ UNCHANGED Tiled!vars
<1>1. FreeBlocks' = FreeBlocks /\ UsedBlocks' = UsedBlocks /\ Nodes' = Nodes
  BY DEF FreeBlocks, UsedBlocks, Nodes, FreeList, Footprint
<1>2. UNCHANGED Tiled!vars
  BY <1>1 DEF Tiled!vars
<1>3. Tiled!HeapInv'
  BY <1>2, Tiled!StepInv, TiledAssumption DEF MemInv
<1>4. MemTypes'
  BY DEF MemInv, MemTypes
<1>5. ContentsIntact'
  BY DEF MemInv, ContentsIntact, Intact, Footprint
<1> QED
  BY <1>1, <1>2, <1>3, <1>4, <1>5 DEF MemInv

(* Free: the block becomes free, or part of the free blocks it touches. *)
LEMMA FreeStep ==
  ASSUME MemInv, NEW adr \in DOMAIN arr, FreeElem(adr), ~CorruptPointer(adr)
  PROVE  MemInv' /\ Tiled!Next
<1> DEFINE size == Align8(arr[adr].bytes)
           fs(x) == FreeSize(mem, x)
<1>1. /\ client = "C" /\ heapEnd' = heapEnd /\ client' = client
      /\ mem' = WriteFree(Merged(Linked(adr, size)).m, Merged(Linked(adr, size)).act,
                          Merged(Linked(adr, size)).next, Merged(Linked(adr, size)).size)
      /\ arr' = Restrict(arr, DOMAIN arr \ {adr})
  BY DEF FreeElem
<1>2. /\ size = Footprint(adr) /\ size \in Nat /\ size >= 8 /\ size % 8 = 0 /\ BSize(adr) = size
      /\ adr \in Nat /\ adr % 8 = 0 /\ adr \notin Nodes /\ adr + size <= heapEnd
      /\ adr - 4 \in Words /\ adr \in Words /\ adr + 4 \in Words /\ heapEnd \in Nat
  <2>1. arr[adr].kind = "raw"
    BY <1>1 DEF MemInv, MemTypes, Known
  <2>2. size = Footprint(adr)
    BY <2>1 DEF Footprint
  <2> HIDE DEF size
  <2>3. /\ size \in Nat /\ size >= 8 /\ size % 8 = 0 /\ BSize(adr) = size
        /\ adr \in Nat /\ adr % 8 = 0 /\ adr \notin Nodes /\ adr + size <= heapEnd
    BY <2>2, Tiles
  <2> QED
    BY <2>2, <2>3, BlockWords, LinkTypes DEF MemInv
<1> HIDE DEF size
<1>3. PICK a \in Nodes \cup {Anchor} : a < adr /\ adr < mem[a] /\ Linked(adr, size) = LinkedIn(adr, size, a)
  BY LinkedAt
<1> DEFINE n  == mem[a]
           joinsPrev == a \in Nodes /\ a + fs(a) = adr
           joinsNext == n # heapEnd /\ adr + size = n
           st == IF joinsPrev THEN a ELSE adr
           s0 == IF joinsPrev THEN fs(a) + size ELSE size
           m0 == IF joinsPrev THEN mem ELSE [mem EXCEPT ![a] = adr]
           nx == IF joinsNext THEN mem[n] ELSE n
           sz == IF joinsNext THEN s0 + fs(n) ELSE s0
           T  == (IF joinsPrev THEN Nodes ELSE Nodes \cup {adr}) \ (IF joinsNext THEN {n} ELSE {})
<1>4. /\ a \in Nat /\ a \in Words /\ a % 8 = 0 /\ n \in Nodes \cup {heapEnd} /\ n \in Nat /\ n % 8 = 0 /\ n \in Words
      /\ \A c \in Nodes : /\ c \in Nat /\ c % 8 = 0 /\ (a < c => n <= c)
                          /\ mem[c] \in Nodes \cup {heapEnd} /\ mem[c] \in Nat /\ c < mem[c]
                          /\ \A x \in Nodes : c < x => mem[c] <= x
      /\ Anchor \notin Nodes /\ heapEnd \notin Nodes /\ mem \in [Words -> Int]
  BY <1>3, LinkTypes DEF MemInv, MemTypes
<1>5. \A c \in Nodes : /\ fs(c) \in Nat /\ fs(c) >= 8 /\ fs(c) % 8 = 0 /\ BSize(c) = fs(c)
                       /\ c + fs(c) <= heapEnd /\ c - 4 \in Words /\ c \in Words /\ c + 4 \in Words
                       /\ \A d \in Nodes \cup DOMAIN arr : c < d => c + fs(c) <= d
  <2> TAKE c \in Nodes
  <2>1. fs(c) \in Nat /\ fs(c) >= 8 /\ fs(c) % 8 = 0
    BY HeaderSize DEF MemInv
  <2>2. BSize(c) = fs(c) /\ c + BSize(c) <= heapEnd /\ \A d \in Nodes \cup DOMAIN arr : c < d => c + BSize(c) <= d
    BY Tiles
  <2> QED
    BY <2>1, <2>2, BlockWords
<1> HIDE DEF fs
<1>6. /\ adr + size <= n
      /\ \A c \in Nodes : c + fs(c) = adr => c = a
      /\ adr + size \in Nodes => adr + size = n
  <2>1. adr + size <= n
    <3>1. CASE n \in Nodes
      <4>1. adr + BSize(adr) <= n
        BY <1>3, <3>1, Tiles
      <4> QED
        BY <1>2, <4>1
    <3>2. CASE n = heapEnd
      BY <1>2, <3>2
    <3> QED
      BY <1>4, <3>1, <3>2
  <2>2. ASSUME NEW c \in Nodes, c + fs(c) = adr PROVE c = a
    <3>1. c \in Nat /\ fs(c) \in Nat /\ fs(c) >= 8
      BY <1>4, <1>5
    <3>2. c < adr
      BY <1>2, <2>2, <3>1
    <3>3. ~ (a < c)
      BY <1>2, <1>3, <1>4, <3>1, <3>2
    <3>4. CASE c < a
      <4>1. a \in Nodes
        BY <1>4, <3>1, <3>4, <1>3, LinkTypes DEF MemInv
      <4>2. c + fs(c) <= a
        BY <1>5, <3>4, <4>1
      <4> QED
        BY <1>3, <1>4, <2>2, <4>2, <1>2
    <3> QED
      BY <1>4, <3>1, <3>3, <3>4
  <2>3. ASSUME adr + size \in Nodes PROVE adr + size = n
    <3>1. a < adr + size
      BY <1>2, <1>3, <1>4
    <3>2. n <= adr + size
      BY <1>4, <2>3, <3>1
    <3> QED
      BY <1>2, <1>4, <2>1, <3>2
  <2> QED
    BY <2>1, <2>2, <2>3
<1>7. joinsNext => n \in Nodes
  BY <1>4
<1>8. /\ st \in Nat /\ st % 8 = 0 /\ st - 4 \in Words /\ st \in Words /\ st + 4 \in Words
      /\ s0 \in Nat /\ s0 >= 8 /\ s0 % 8 = 0 /\ st + s0 = adr + size /\ st <= adr
      /\ a <= st /\ (~joinsPrev => a # st /\ st = adr)
  <2>1. CASE joinsPrev
    <3> DEFINE fa == fs(a)
    <3>1. fa \in Nat /\ fa >= 8 /\ fa % 8 = 0 /\ st = a /\ s0 = fa + size /\ a + fa = adr
          /\ st - 4 \in Words /\ st \in Words /\ st + 4 \in Words
      BY <1>5, <2>1
    <3> HIDE DEF fa, st, s0
    <3>2. s0 \in Nat /\ s0 >= 8 /\ s0 % 8 = 0 /\ st + s0 = adr + size
      BY <1>2, <1>4, <3>1
    <3> HIDE DEF joinsPrev
    <3> QED
      BY <1>3, <1>4, <2>1, <3>1, <3>2, <1>2
  <2>2. CASE ~joinsPrev
    <3>1. st = adr /\ s0 = size
      BY <2>2
    <3> HIDE DEF st, s0, joinsPrev
    <3> QED
      BY <1>2, <1>3, <1>4, <2>2, <3>1
  <2> QED
    BY <2>1, <2>2
<1>9. /\ sz \in Nat /\ sz >= 8 /\ sz % 8 = 0
      /\ joinsNext => sz = s0 + fs(n) /\ adr + size = n /\ st + sz = n + fs(n)
      /\ ~joinsNext => sz = s0
      /\ st + sz <= nx /\ nx \in Nat /\ nx \in Nodes \cup {heapEnd} /\ nx \in Int /\ n <= nx
  <2>1. CASE joinsNext
    <3> DEFINE fn == fs(n)
    <3>1. fn \in Nat /\ fn >= 8 /\ fn % 8 = 0 /\ sz = s0 + fn /\ nx = mem[n] /\ adr + size = n /\ n < nx
          /\ nx \in Nat /\ nx \in Nodes \cup {heapEnd} /\ n + fn <= nx
      <4>1. fn \in Nat /\ fn >= 8 /\ fn % 8 = 0 /\ nx = mem[n] /\ adr + size = n
        BY <1>5, <1>7, <2>1
      <4>2. n < nx /\ nx \in Nat /\ nx \in Nodes \cup {heapEnd}
        BY <1>4, <1>7, <2>1
      <4>3. n + fn <= nx
        BY <1>5, <1>7, <2>1, <4>2
      <4> QED
        BY <2>1, <4>1, <4>2, <4>3
    <3> HIDE DEF fn, sz, nx, s0, st, n
    <3>2. sz \in Nat /\ sz >= 8 /\ sz % 8 = 0 /\ st + sz = n + fn /\ n <= nx
      <4>1. st \in Nat /\ s0 \in Nat /\ s0 >= 8 /\ s0 % 8 = 0 /\ st + s0 = n /\ n \in Nat
        BY <1>4, <1>8, <3>1
      <4>2. fn \in Nat /\ fn >= 8 /\ fn % 8 = 0 /\ sz = s0 + fn /\ n < nx /\ nx \in Nat
        BY <3>1
      <4> QED
        BY <4>1, <4>2
    <3> HIDE DEF joinsNext
    <3> QED
      BY <2>1, <3>1, <3>2 DEF fn
  <2>2. CASE ~joinsNext
    <3>1. sz = s0 /\ nx = n
      BY <2>2
    <3> HIDE DEF sz, nx, s0, st, n, joinsNext
    <3> QED
      BY <1>2, <1>4, <1>6, <1>8, <2>2, <3>1
  <2> QED
    BY <2>1, <2>2
<1>10. mem' = WriteFree(m0, st, nx, sz)
  <2> DEFINE l == Linked(adr, size)
  <2>1. l = [m |-> m0, act |-> st, size |-> s0, next |-> n]
    BY <1>3 DEF LinkedIn, fs
  <2>2. l.m = m0 /\ l.act = st /\ l.size = s0 /\ l.next = n
    BY <2>1
  <2>3. (l.next # heapEnd /\ l.act + l.size = l.next) <=> joinsNext
    BY <1>8, <2>2
  <2>4. CASE joinsNext
    <3>1. Merged(l) = [l EXCEPT !.size = l.size + FreeSize(l.m, l.next), !.next = l.m[l.next]]
      BY <2>3, <2>4 DEF Merged
    <3>2. m0[n] = mem[n] /\ FreeSize(m0, n) = FreeSize(mem, n)
      <4>1. n # a /\ n - 4 # a /\ n + 4 # a /\ n \in Words /\ n - 4 \in Words /\ n + 4 \in Words
        BY <1>2, <1>3, <1>4, <1>5, <1>7, <2>4
      <4>2. m0[n] = mem[n] /\ m0[n-4] = mem[n-4] /\ m0[n+4] = mem[n+4]
        BY <1>4, <4>1
      <4> QED
        BY <4>2 DEF FreeSize, Tag
    <3>3. Merged(l) = [m |-> m0, act |-> st, size |-> sz, next |-> nx]
      <4>1. sz = s0 + FreeSize(mem, n) /\ nx = mem[n]
        BY <2>4 DEF fs
      <4> HIDE DEF sz, nx, l, m0, st, s0, n
      <4> QED
        BY <2>1, <2>2, <3>1, <3>2, <4>1
    <3> HIDE DEF l, m0, st, sz, nx
    <3>4. Merged(l).m = m0 /\ Merged(l).act = st /\ Merged(l).next = nx /\ Merged(l).size = sz
      BY <3>3
    <3> QED
      BY <1>1, <3>4 DEF l
  <2>5. CASE ~joinsNext
    <3>1. Merged(l) = l
      BY <2>3, <2>5 DEF Merged
    <3>2. sz = s0 /\ nx = n
      BY <2>5
    <3> HIDE DEF m0, st, sz, nx, s0, n
    <3> QED
      BY <1>1, <2>2, <3>1, <3>2
  <2> QED
    BY <2>4, <2>5
<1>11. /\ m0 \in [Words -> Int] /\ \A w \in Words : w # a => m0[w] = mem[w]
       /\ ~joinsPrev => m0[a] = adr
  BY <1>2, <1>4
<1> HIDE DEF m0
<1>12. /\ mem' \in [Words -> Int] /\ mem'[st] = nx
       /\ mem'[st-4] = (IF sz = 8 THEN B8_D ELSE FB_D) /\ (sz # 8 => mem'[st+4] = sz)
       /\ \A w \in Words : w # st - 4 /\ w # st /\ (w = st + 4 => sz = 8) => mem'[w] = m0[w]
  <2> HIDE DEF st, sz, nx
  <2> QED
    BY <1>8, <1>9, <1>10, <1>11, FreeWritten
<1>13. ASSUME NEW w \in Words, w # a, ~InBlock(w, st, sz) PROVE mem'[w] = mem[w]
  <2>1. w \in Nat
    BY Places
  <2>2. w # st - 4 /\ w # st /\ (w = st + 4 => sz = 8)
    <3> HIDE DEF st, sz
    <3>1. sz = 8 \/ sz >= 16
      BY <1>9
    <3> QED
      BY <1>8, <1>9, <1>13, <2>1, <3>1 DEF InBlock
  <2> QED
    BY <1>11, <1>12, <1>13, <2>2
<1>14. st < nx /\ \A w \in Int : InBlock(w, st, sz) =>
         \/ InBlock(w, adr, size)
         \/ a \in Nodes /\ joinsPrev /\ InBlock(w, a, fs(a))
         \/ joinsNext /\ InBlock(w, n, fs(n))
  <2> SUFFICES ASSUME NEW w \in Int, InBlock(w, st, sz), ~InBlock(w, adr, size),
                      ~ (joinsNext /\ InBlock(w, n, fs(n)))
               PROVE  joinsPrev /\ InBlock(w, a, fs(a))
    <3>1. st < nx
      <4> HIDE DEF st, sz, nx
      <4> QED
        BY <1>8, <1>9
    <3> HIDE DEF st, sz, nx, n
    <3> QED
      BY <3>1
  <2>1. st - 4 <= w /\ w < st + sz - 4 /\ (w < adr - 4 \/ w >= adr + size - 4)
    <3> HIDE DEF st, sz
    <3> QED
      BY <1>2, <1>8, <1>9 DEF InBlock
  <2>2. w < adr + size - 4
    <3>1. CASE joinsNext
      <4> DEFINE fn == fs(n)
      <4>1. n = adr + size /\ st + sz = n + fn /\ fn \in Nat
        BY <1>5, <1>7, <1>9, <3>1
      <4>2. w < n - 4 \/ w >= n + fn - 4
        <5>1. ~InBlock(w, n, fn)
          BY <3>1
        <5> HIDE DEF fn, n
        <5> QED
          BY <1>4, <4>1, <5>1 DEF InBlock
      <4> HIDE DEF fn, st, sz, n, joinsNext
      <4> QED
        BY <1>2, <1>4, <1>8, <1>9, <2>1, <4>1, <4>2
    <3>2. CASE ~joinsNext
      <4>1. st + sz = adr + size
        BY <1>8, <1>9, <3>2
      <4> HIDE DEF st, sz
      <4> QED
        BY <1>2, <1>8, <1>9, <2>1, <4>1
    <3> QED
      BY <3>1, <3>2
  <2>3. w < adr - 4
    <3> HIDE DEF st, sz
    <3> QED
      BY <2>1, <2>2, <1>2
  <2>4. joinsPrev
    <3> SUFFICES ASSUME ~joinsPrev PROVE FALSE
      OBVIOUS
    <3>1. st = adr
      BY <1>8
    <3> HIDE DEF st, sz
    <3> QED
      BY <1>2, <2>1, <2>3, <3>1
  <2>5. st = a /\ a + fs(a) = adr /\ fs(a) \in Nat
    BY <1>5, <2>4
  <2> HIDE DEF st, sz, joinsPrev
  <2> QED
    BY <1>2, <1>4, <2>1, <2>3, <2>4, <2>5 DEF InBlock
<1>15. joinsPrev => a \in Nodes
  OBVIOUS
<1>a. /\ st = IF joinsPrev THEN a ELSE adr
      /\ sz = IF joinsNext THEN s0 + fs(n) ELSE s0
      /\ s0 = IF joinsPrev THEN fs(a) + size ELSE size
      /\ nx = IF joinsNext THEN mem[n] ELSE n
      /\ joinsPrev <=> (a \in Nodes /\ a + fs(a) = adr)
      /\ joinsNext <=> (n # heapEnd /\ adr + size = n)
      /\ n = mem[a]
      /\ T = (IF joinsPrev THEN Nodes ELSE Nodes \cup {adr}) \ (IF joinsNext THEN {n} ELSE {})
  OBVIOUS
<1> HIDE DEF st, sz, s0, nx, joinsPrev, joinsNext, n, T
\* No block that stays has lost a word.
<1> DEFINE Stays(b) == b # adr /\ (joinsPrev => b # a) /\ (joinsNext => b # n)
<1>16. ASSUME NEW b \in Nodes \cup DOMAIN arr, Stays(b), NEW w \in Words, InBlock(w, b, BSize(b)), w # a
       PROVE  mem'[w] = mem[w]
  <2>1. w \in Int
    BY Places
  <2>2. ~InBlock(w, adr, size)
    BY <1>2, <1>16, <2>1, Apart
  <2>3. ~ (joinsPrev /\ InBlock(w, a, fs(a)))
    BY <1>5, <1>15, <1>16, <2>1, Apart
  <2>4. ~ (joinsNext /\ InBlock(w, n, fs(n)))
    BY <1>5, <1>7, <1>16, <2>1, Apart
  <2>5. ~InBlock(w, st, sz)
    BY <1>14, <2>1, <2>2, <2>3, <2>4
  <2> QED
    BY <1>13, <1>16, <2>5
<1>17. \A b \in DOMAIN arr \ {adr} : Intact(b)' /\ Footprint(b)' = Footprint(b) /\ arr'[b] = arr[b]
  <2> TAKE b \in DOMAIN arr \ {adr}
  <2>1. BSize(b) = Footprint(b) /\ b \notin Nodes /\ arr'[b] = arr[b] /\ b \in DOMAIN arr
    BY <1>1, Tiles DEF Restrict
  <2>2. Stays(b)
    BY <1>7, <1>15, <2>1
  <2>3. ASSUME NEW w \in Words, InBlock(w, b, Footprint(b)) PROVE mem'[w] = mem[w]
    <3>1. w # a
      <4>1. w \in Int
        BY Places
      <4>2. CASE a = Anchor
        <5>1. w >= HeapStart + 8
          BY <2>1, <2>3, <4>1, Apart
        <5> QED
          BY <4>1, <4>2, <5>1, Places
      <4>3. CASE a \in Nodes
        <5>1. InBlock(a, a, BSize(a))
          BY <1>4, <1>5, <4>3 DEF InBlock
        <5> QED
          BY <2>1, <2>3, <4>1, <4>3, <5>1, Apart
      <4> QED
        BY <4>2, <4>3
    <3> QED
      BY <1>16, <2>1, <2>2, <2>3, <3>1
  <2>4. Intact(b)'
    BY <2>1, <2>3, IntactKept
  <2> QED
    BY <2>1, <2>4 DEF Footprint
<1>18. ASSUME NEW c \in Nodes, Stays(c)
       PROVE  /\ mem'[c-4] = mem[c-4] /\ (FreeSize(mem, c) > 8 => mem'[c+4] = mem[c+4])
              /\ c # a => mem'[c] = mem[c]
  <2> DEFINE sc == fs(c)
  <2>1. /\ c \in Nat /\ c % 8 = 0 /\ c - 4 \in Words /\ c \in Words /\ c + 4 \in Words
        /\ sc \in Nat /\ sc >= 8 /\ sc % 8 = 0 /\ BSize(c) = sc /\ sc = FreeSize(mem, c)
    BY <1>4, <1>5 DEF fs
  <2> HIDE DEF sc
  <2>2. InBlock(c - 4, c, sc) /\ InBlock(c, c, sc) /\ (sc > 8 => InBlock(c + 4, c, sc))
    BY <2>1 DEF InBlock
  <2>3. c - 4 # a /\ c + 4 # a
    BY <1>4, <2>1
  <2> QED
    BY <1>16, <1>18, <2>1, <2>2, <2>3
<1>19. T = {c \in Nodes : Stays(c)} \cup {st} /\ \A c \in Nodes : Stays(c) => c # st
  <2>1. adr \notin Nodes /\ adr # n
    BY <1>2, <1>4
  <2>2. CASE joinsPrev
    <3>1. a # n /\ a \in Nodes /\ st = a
      BY <1>3, <1>15, <1>a, <1>2, <1>4, <2>2
    <3> QED
      BY <1>a, <2>1, <2>2, <3>1
  <2>3. CASE ~joinsPrev
    BY <1>a, <2>1, <2>3
  <2> QED
    BY <2>2, <2>3
<1>20. /\ Headed(mem', T) /\ FreeSize(mem', st) = sz
       /\ \A c \in Nodes : Stays(c) => FreeSize(mem', c) = fs(c)
  <2> HIDE DEF Stays
  <2>1. ASSUME NEW c \in Nodes, Stays(c)
        PROVE  /\ mem'[c-4] = B8_D \/ (mem'[c-4] = FB_D /\ mem'[c+4] \in Nat /\ mem'[c+4] > 8 /\ mem'[c+4] % 8 = 0)
               /\ FreeSize(mem', c) = fs(c)
    BY <1>18, <2>1, HeadKept DEF MemInv, fs
  <2>2. /\ mem'[st-4] = B8_D \/ (mem'[st-4] = FB_D /\ mem'[st+4] \in Nat /\ mem'[st+4] > 8 /\ mem'[st+4] % 8 = 0)
        /\ FreeSize(mem', st) = sz
    BY <1>9, <1>12, HeadWritten
  <2> QED
    BY <1>19, <2>1, <2>2 DEF Headed
<1>21. Linked8(mem', T, heapEnd)
  <2> DEFINE S1 == IF joinsPrev THEN Nodes ELSE Nodes \cup {adr}
             m1 == IF joinsPrev THEN mem ELSE [mem EXCEPT ![a] = adr, ![adr] = n]
  <2>1. Linked8(mem, Nodes, heapEnd) /\ \A b \in Nodes \cup {Anchor} : b \in Nat /\ b \in Words
    BY LinkTypes DEF MemInv
  <2>2. ASSUME NEW b \in Nodes \cup {Anchor}, b # a, b # st, joinsNext => b # n PROVE mem'[b] = mem[b]
    <3>1. CASE b \in Nodes
      <4>1. Stays(b)
        BY <1>2, <2>2, <3>1
      <4> QED
        BY <1>18, <2>2, <3>1, <4>1
    <3>2. CASE b = Anchor
      <4>1. ~InBlock(Anchor, adr, size) /\ (a \in Nodes => ~InBlock(Anchor, a, fs(a)))
            /\ (joinsNext => ~InBlock(Anchor, n, fs(n)))
        <5>1. Anchor \in Int /\ ~ (Anchor >= HeapStart + 8)
          BY Places
        <5> QED
          BY <1>2, <1>5, <1>7, <5>1, Apart
      <4>2. Anchor \in Int /\ Anchor \in Words
        BY Places
      <4>3. ~InBlock(Anchor, st, sz)
        BY <1>14, <4>1, <4>2
      <4> QED
        BY <1>13, <2>2, <3>2, <4>2, <4>3
    <3> QED
      BY <3>1, <3>2
  <2>3. /\ Linked8(m1, S1, heapEnd) /\ st \in S1 \cup {Anchor} /\ m1[st] = n
        /\ \A b \in S1 \cup {Anchor} : b # st /\ (joinsNext => b # n) => mem'[b] = m1[b]
    <3>1. CASE joinsPrev
      <4>1. m1 = mem /\ S1 = Nodes /\ st = a /\ a \in Nodes
        BY <1>a, <3>1
      <4> QED
        BY <1>a, <2>1, <2>2, <4>1
    <3>2. CASE ~joinsPrev
      <4>1. m1 = [mem EXCEPT ![a] = adr, ![adr] = n] /\ S1 = Nodes \cup {adr} /\ st = adr /\ a # adr
        BY <1>a, <1>2, <1>3, <1>4, <3>2
      <4> HIDE DEF m1, S1
      <4>2. m1[a] = adr /\ m1[adr] = n /\ \A b \in Words : b # a /\ b # adr => m1[b] = mem[b]
        BY <1>2, <1>4, <4>1
      <4>3. Linked8(m1, S1, heapEnd)
        <5>1. \A b \in Nodes \cup {Anchor} : b # a => m1[b] = mem[b]
          <6>1. Anchor # adr
            BY <1>3, <1>4, LinkTypes DEF MemInv
          <6> QED
            BY <1>2, <2>1, <4>2, <6>1
        <5>2. a < adr /\ adr < mem[a]
          BY <1>3
        <5>3. m1[a] = adr /\ m1[adr] = mem[a] /\ adr \in Words /\ adr % 8 = 0
          BY <1>2, <1>a, <4>2
        <5>4. Linked8(m1, Nodes \cup {adr}, heapEnd)
          BY <2>1, <5>1, <5>2, <5>3, Insert
        <5> QED
          BY <4>1, <5>4
      <4>4. ASSUME NEW b \in S1 \cup {Anchor}, b # st, joinsNext => b # n PROVE mem'[b] = m1[b]
        <5>1. b \in Nodes \cup {Anchor} /\ b \in Words
          BY <2>1, <4>1, <4>4
        <5>2. CASE b = a
          <6>1. a # st - 4 /\ a # st /\ a # st + 4
            <7> HIDE DEF st
            <7> QED
              BY <1>4, <1>8, <4>1
          <6>2. mem'[a] = m0[a]
            BY <1>4, <1>12, <6>1
          <6> QED
            BY <1>11, <3>2, <4>2, <5>2, <6>2
        <5>3. CASE b # a
          BY <2>2, <4>1, <4>2, <4>4, <5>1, <5>3
        <5> QED
          BY <5>2, <5>3
      <4> QED
        BY <4>1, <4>2, <4>3, <4>4
    <3> QED
      BY <3>1, <3>2
  <2>a. S1 = IF joinsPrev THEN Nodes ELSE Nodes \cup {adr}
    OBVIOUS
  <2> HIDE DEF m1, S1
  <2>4. nx \in S1 \cup {heapEnd} /\ st < nx /\ mem'[st] = nx
    BY <1>9, <1>12, <1>14, <2>a
  <2>5. /\ \A b \in S1 \cup {Anchor} : b \in Nat
        /\ \A b \in S1 : st < b => n <= b
        /\ joinsNext => n \in S1 /\ st < n /\ n < nx /\ \A b \in S1 : n < b => nx <= b
    <3>1. n \in Nat /\ st < n
      <4> HIDE DEF st, n
      <4> QED
        BY <1>2, <1>4, <1>6, <1>8
    <3>2. \A b \in S1 \cup {Anchor} : b \in Nat
      BY <1>2, <2>1, <2>a
    <3>3. ASSUME NEW b \in S1, st < b PROVE n <= b
      <4>1. b \in Nodes \/ (b = adr /\ st = adr)
        BY <1>8, <2>a, <3>3
      <4>2. b \in Nodes /\ a < b
        BY <1>4, <1>8, <3>2, <3>3, <4>1
      <4> QED
        BY <1>4, <4>2
    <3>4. ASSUME joinsNext PROVE n \in S1 /\ n < nx /\ \A b \in S1 : n < b => nx <= b
      <4>1. n \in Nodes /\ nx = mem[n] /\ n < nx /\ \A b \in Nodes : n < b => nx <= b
        BY <1>4, <1>7, <1>a, <3>4
      <4>2. ~ (n < adr)
        BY <1>2, <1>3, <1>4, <1>a
      <4> QED
        BY <2>a, <4>1, <4>2
    <3> QED
      BY <3>1, <3>2, <3>3, <3>4
  <2>6. \A b \in S1 \cup {Anchor} : b < st \/ b >= nx => mem'[b] = m1[b]
    <3> TAKE b \in S1 \cup {Anchor}
    <3> HAVE b < st \/ b >= nx
    <3>1. b # st /\ (joinsNext => b # n)
      BY <1>8, <1>9, <2>4, <2>5
    <3> QED
      BY <2>3, <3>1
  <2>7. {b \in S1 : b <= st \/ b >= nx} = T
    <3>1. T = S1 \ (IF joinsNext THEN {n} ELSE {})
      BY <1>a, <2>a
    <3>2. ASSUME NEW b \in S1 PROVE (b <= st \/ b >= nx) <=> (joinsNext => b # n)
      <4>1. CASE joinsNext
        BY <1>4, <1>8, <1>9, <2>5, <4>1
      <4>2. CASE ~joinsNext
        <5>1. nx = n
          BY <1>a, <4>2
        <5> QED
          BY <1>8, <1>9, <2>5, <4>2, <5>1
      <4> QED
        BY <4>1, <4>2
    <3> QED
      BY <3>1, <3>2
  <2>8. Linked8(mem', {b \in S1 : b <= st \/ b >= nx}, heapEnd)
    BY <2>3, <2>4, <2>6, Relink
  <2> QED
    BY <2>7, <2>8
<1>22. Ends(mem', heapEnd')
  <2>1. /\ HeapStart \in Words /\ heapEnd - 4 \in Words /\ heapEnd \in Words
        /\ HeapStart # a /\ heapEnd - 4 # a /\ heapEnd # a
    <3>1. heapEnd \in Words /\ heapEnd % 8 = 0 /\ heapEnd <= MaxHeapEnd /\ adr < heapEnd /\ heapEnd \in Nat
      BY <1>2, LinkTypes, Places DEF MemInv
    <3>2. HeapStart <= adr - 4 /\ HeapStart \in Nat /\ HeapStart % 8 = 4 /\ MaxHeapEnd \in Nat
      BY <1>2, Places, HeapMemAssumption
    <3>3. heapEnd - 4 \in Nat /\ HeapStart <= heapEnd - 4 /\ heapEnd - 4 <= MaxHeapEnd /\ (heapEnd - 4) % 4 = 0
      BY <1>2, <3>1, <3>2
    <3> QED
      BY <1>3, <1>4, <1>2, <3>1, <3>2, <3>3, Places
  <2>2. \A b \in Nodes \cup DOMAIN arr :
          ~InBlock(HeapStart, b, BSize(b)) /\ ~InBlock(heapEnd - 4, b, BSize(b)) /\ ~InBlock(heapEnd, b, BSize(b))
    <3>1. HeapStart \in Int /\ heapEnd \in Int /\ heapEnd - 4 \in Int /\ ~(HeapStart >= HeapStart + 8)
          /\ ~(heapEnd - 4 < heapEnd - 4) /\ ~(heapEnd < heapEnd - 4)
      BY <1>2, Places
    <3> QED
      BY <3>1, Apart
  <2>3. HeapStart \in Int /\ heapEnd - 4 \in Int /\ heapEnd \in Int
    BY <2>1, Places
  <2>4. ~InBlock(HeapStart, st, sz) /\ ~InBlock(heapEnd - 4, st, sz) /\ ~InBlock(heapEnd, st, sz)
    <3>1. ASSUME NEW w \in {HeapStart, heapEnd - 4, heapEnd} PROVE ~InBlock(w, st, sz)
      <4>1. ~InBlock(w, adr, size) /\ (a \in Nodes => ~InBlock(w, a, fs(a))) /\ (joinsNext => ~InBlock(w, n, fs(n)))
        BY <1>2, <1>5, <1>7, <2>2, <3>1
      <4> QED
        BY <1>14, <2>3, <4>1
    <3> QED
      BY <3>1
  <2>5. mem'[HeapStart] = mem[HeapStart] /\ mem'[heapEnd-4] = mem[heapEnd-4] /\ mem'[heapEnd] = mem[heapEnd]
    BY <1>13, <2>1, <2>4
  <2> QED
    BY <1>1, <2>5 DEF MemInv, Ends
<1>23. /\ DOMAIN FreeBlocks = Nodes /\ \A c \in Nodes : FreeBlocks[c] = fs(c)
       /\ FreeBlocks' = [c \in T |-> IF c = st THEN sz ELSE fs(c)]
       /\ DOMAIN UsedBlocks = DOMAIN arr /\ UsedBlocks[adr] = size
       /\ UsedBlocks' = [b \in DOMAIN arr \ {adr} |-> UsedBlocks[b]]
  <2>1. Linked8(mem', T, heapEnd')
    BY <1>1, <1>21
  <2>2. DOMAIN FreeBlocks = Nodes /\ \A c \in Nodes : FreeBlocks[c] = fs(c)
    BY NodesNow DEF MemInv, fs
  <2>3. FreeBlocks' = [c \in T |-> FreeSize(mem', c)]
    BY <2>1, NodesNext
  <2>4. \A c \in T : FreeSize(mem', c) = IF c = st THEN sz ELSE fs(c)
    <3> HIDE DEF Stays
    <3> QED
      BY <1>19, <1>20
  <2>5. DOMAIN UsedBlocks = DOMAIN arr /\ UsedBlocks[adr] = size /\ \A b \in DOMAIN arr : UsedBlocks[b] = Footprint(b)
    BY <1>2 DEF UsedBlocks
  <2>6. DOMAIN arr' = DOMAIN arr \ {adr}
    BY <1>1 DEF Restrict
  <2>7. UsedBlocks' = [b \in DOMAIN arr \ {adr} |-> UsedBlocks[b]]
    BY <1>17, <2>5, <2>6 DEF UsedBlocks
  <2> QED
    BY <2>2, <2>3, <2>4, <2>5, <2>7
<1>24. Tiled!FreeBlock(adr)
  <2> DEFINE next   == adr + UsedBlocks[adr]
             grown  == IF next \in DOMAIN FreeBlocks THEN UsedBlocks[adr] + FreeBlocks[next] ELSE UsedBlocks[adr]
             before == {p \in DOMAIN FreeBlocks : p + FreeBlocks[p] = adr}
             others == Tiled!Drop(FreeBlocks, {next})
  <2>1. next \in Nodes <=> joinsNext
    <3>1. next = adr + size
      BY <1>23
    <3>2. heapEnd \notin Nodes
      BY <1>4
    <3> HIDE DEF next
    <3>3. joinsNext => next \in Nodes
      BY <1>7, <1>9, <3>1
    <3>4. next \in Nodes => joinsNext
      BY <1>6, <1>a, <3>1, <3>2
    <3> QED
      BY <3>3, <3>4
  <2>2. joinsNext => next = n
    BY <1>9, <1>23
  <2>3. grown = IF joinsNext THEN size + fs(n) ELSE size
    <3> HIDE DEF next
    <3> QED
      BY <1>7, <1>23, <2>1, <2>2
  <2>4. before = IF joinsPrev THEN {a} ELSE {}
    <3>1. before = {p \in Nodes : p + fs(p) = adr}
      BY <1>23
    <3> HIDE DEF before
    <3>2. CASE joinsPrev
      BY <1>6, <1>a, <3>1, <3>2
    <3>3. CASE ~joinsPrev
      BY <1>6, <1>a, <3>1, <3>3
    <3> QED
      BY <3>2, <3>3
  <2>5. others = [c \in Nodes \ (IF joinsNext THEN {n} ELSE {}) |-> fs(c)]
    <3>1. others = [c \in Nodes \ {next} |-> FreeBlocks[c]]
      BY <1>23 DEF Tiled!Drop, Tiled!Restrict
    <3>2. Nodes \ {next} = Nodes \ (IF joinsNext THEN {n} ELSE {})
      <4> HIDE DEF next
      <4> QED
        BY <2>1, <2>2
    <3> HIDE DEF others, next
    <3> QED
      BY <1>23, <3>1, <3>2
  <2> HIDE DEF grown, before, others, next
  <2>6. FreeBlocks' = IF before = {} THEN Tiled!Put(others, adr, grown)
                      ELSE LET p == CHOOSE p \in before : TRUE
                           IN  Tiled!Put(others, p, FreeBlocks[p] + grown)
    <3>1. CASE joinsPrev
      <4>1. before = {a} /\ before # {} /\ (CHOOSE p \in before : TRUE) = a
        BY <2>4, <3>1
      <4>2. st = a /\ a \in Nodes /\ FreeBlocks[a] = fs(a)
        BY <1>15, <1>23, <1>a, <3>1
      <4>3. fs(a) + grown = sz
        <5>1. fs(a) \in Nat /\ (joinsNext => fs(n) \in Nat)
          BY <1>5, <1>7, <4>2
        <5> QED
          BY <1>2, <1>a, <2>3, <3>1, <5>1
      <4>4. Tiled!Put(others, a, sz) = [c \in T |-> IF c = st THEN sz ELSE fs(c)]
        <5>1. DOMAIN others \cup {a} = T
          <6>1. joinsNext => a # n
            BY <1>3, <1>2, <1>4, <1>a, <4>2
          <6> QED
            BY <1>a, <2>5, <3>1, <4>2, <6>1
        <5> QED
          BY <2>5, <4>2, <5>1 DEF Tiled!Put
      <4> QED
        BY <1>23, <4>1, <4>2, <4>3, <4>4
    <3>2. CASE ~joinsPrev
      <4>1. before = {} /\ st = adr
        BY <1>a, <2>4, <3>2
      <4>2. grown = sz
        BY <1>a, <2>3, <3>2
      <4>3. Tiled!Put(others, adr, sz) = [c \in T |-> IF c = st THEN sz ELSE fs(c)]
        <5>1. DOMAIN others \cup {adr} = T
          <6>1. joinsNext => adr # n
            BY <1>2, <1>7
          <6> QED
            BY <1>a, <2>5, <3>2, <6>1
        <5> QED
          BY <2>5, <4>1, <5>1 DEF Tiled!Put
      <4> QED
        BY <1>23, <4>1, <4>2, <4>3
    <3> QED
      BY <3>1, <3>2
  <2>7. UsedBlocks' = Tiled!Drop(UsedBlocks, {adr})
    BY <1>23 DEF Tiled!Drop, Tiled!Restrict
  <2>8. adr \in DOMAIN UsedBlocks
    BY <1>23
  <2> QED
    BY <1>1, <2>6, <2>7, <2>8 DEF Tiled!FreeBlock, grown, before, others, next
<1>25. Tiled!Next
  <2>1. adr \in DOMAIN UsedBlocks
    BY <1>23
  <2> QED
    BY <1>24, <2>1 DEF Tiled!Next
<1>26. MemInv'
  <2>1. /\ DOMAIN arr' = DOMAIN arr \ {adr}
        /\ \A b \in DOMAIN arr' : Known(arr'[b], client) /\ Intact(b)'
    <3>1. DOMAIN arr' = DOMAIN arr \ {adr}
      BY <1>1 DEF Restrict
    <3> QED
      BY <1>17, <3>1 DEF MemInv, MemTypes
  <2>2. DOMAIN arr' \subseteq Nat
    BY <2>1 DEF MemInv, MemTypes
  <2>3. Linked8(mem', T, heapEnd')
    BY <1>1, <1>21
  <2> QED
    BY <1>1, <1>12, <1>20, <1>22, <1>25, <2>1, <2>2, <2>3, Closing
<1> QED
  BY <1>25, <1>26

-----------------------------------------------------------------------------
(* The sentinel moves. *)
LEMMA EndMoved ==
  ASSUME NEW m, NEW S, NEW e, Linked8(m, S, e), NEW last \in S \cup {Anchor}, m[last] = e,
         NEW e2 \in Words, e2 % 8 = 0, \A b \in S \cup {Anchor} : b < e2,
         NEW m2, m2[last] = e2, \A b \in S \cup {Anchor} : b # last => m2[b] = m[b]
  PROVE  Linked8(m2, S, e2)
<1>1. /\ last \in Nat /\ last < e /\ e \in Nat /\ e2 \in Nat
      /\ \A b \in S : b \in Nat /\ b < e /\ Anchor < b
      /\ Anchor \in Nat
      /\ \A b \in S \cup {Anchor} : /\ b \in Nat /\ m[b] \in S \cup {e} /\ m[b] \in Nat /\ b < m[b]
                                    /\ \A x \in S : b < x => m[b] <= x
  BY LinkTypes, Places
<1>2. ASSUME NEW b \in S \cup {Anchor}, m[b] = e PROVE b = last
  <2>1. \A x \in S : ~ (b < x)
    BY <1>1, <1>2
  <2>2. \A x \in S : ~ (last < x)
    BY <1>1
  <2> QED
    BY <1>1, <2>1, <2>2
<1>3. \A x \in S : ~ (last < x)
  BY <1>1
<1>4. ASSUME NEW b \in S \cup {Anchor}
      PROVE  m2[b] \in S \cup {e2} /\ b < m2[b] /\ \A x \in S : b < x => m2[b] <= x
  <2>1. CASE b = last
    BY <1>3, <2>1
  <2>2. CASE b # last
    <3>1. m2[b] = m[b] /\ m[b] \in S
      BY <1>1, <1>2, <2>2
    <3> QED
      BY <1>1, <3>1
  <2> QED
    BY <2>1, <2>2
<1>5. S \subseteq Words /\ \A b \in S : Anchor < b /\ b < e2 /\ b % 8 = 0
  BY DEF Linked8
<1> QED
  BY <1>4, <1>5 DEF Linked8

(* The last block becomes the sentinel. *)
LEMMA LastDropped ==
  ASSUME NEW m, NEW S, NEW e, Linked8(m, S, e), NEW last \in S, m[last] = e,
         NEW m2, \A b \in S \cup {Anchor} : b # last => m2[b] = m[b]
  PROVE  Linked8(m2, S \ {last}, last)
<1>1. /\ last \in Nat /\ last < e /\ e \in Nat /\ last \in Words /\ last % 8 = 0
      /\ \A b \in S : b \in Nat /\ b < e /\ Anchor < b /\ b \in Words /\ b % 8 = 0
      /\ Anchor \in Nat /\ Anchor \notin S
      /\ \A b \in S \cup {Anchor} : /\ b \in Nat /\ m[b] \in S \cup {e} /\ m[b] \in Nat /\ b < m[b]
                                    /\ \A x \in S : b < x => m[b] <= x
  BY LinkTypes, Places
<1>2. \A x \in S : ~ (last < x)
  BY <1>1
<1>3. ASSUME NEW b \in (S \ {last}) \cup {Anchor}
      PROVE  m2[b] \in S /\ b < m2[b] /\ \A x \in S : b < x => m2[b] <= x
  <2>1. b \in S \cup {Anchor} /\ b # last
    BY <1>1
  <2>2. b < last
    BY <1>1, <1>2, <2>1
  <2>3. m[b] # e
    BY <1>1, <2>1, <2>2
  <2> QED
    BY <1>1, <2>1, <2>3
<1>4. \A b \in S \ {last} : b < last
  BY <1>1, <1>2
<1> DEFINE T == S \ {last}
<1>5. \A b \in T : b \in Words /\ Anchor < b /\ b < last /\ b % 8 = 0
  BY <1>1, <1>4
<1>6. \A b \in T \cup {Anchor} : m2[b] \in T \cup {last} /\ b < m2[b]
  BY <1>3
<1>7. \A b \in T \cup {Anchor} : \A x \in T : b < x => m2[b] <= x
  BY <1>3
<1> HIDE DEF T
<1>8. Linked8(m2, T, last)
  BY <1>1, <1>5, <1>6, <1>7 DEF Linked8
<1> QED
  BY <1>8 DEF T

(* The last free block. *)
LEMMA LastFinds ==
  ASSUME NEW S, Linked8(mem, S, heapEnd), mem[Anchor] # heapEnd
  PROVE  LastFree \in S /\ mem[LastFree] = heapEnd
<1> DEFINE e == heapEnd
           F == [b \in Words |-> IF mem[b] = e THEN b ELSE mem[b]]
           x0 == mem[Anchor]
           V == [b \in Words |-> Steps8(b, e)]
<1>1. /\ e \in Nat /\ e \in Words /\ e % 8 = 0 /\ x0 \in S
      /\ \A a \in S : /\ a \in Nat /\ a \in Words /\ a % 8 = 0 /\ a < e /\ a <= e
                      /\ mem[a] \in S \cup {e} /\ mem[a] \in Nat /\ mem[a] \in Words /\ mem[a] % 8 = 0
                      /\ a < mem[a] /\ mem[a] <= e
  BY LinkTypes
<1>2. ASSUME NEW b \in S
      PROVE  F[b] \in S /\ V[b] \in Nat /\ (F[b] = b \/ V[F[b]] < V[b])
  <2>1. V[b] = Steps8(b, e) /\ V[b] \in Nat
    BY <1>1, StepsBound
  <2>2. CASE mem[b] = e
    BY <1>1, <2>1, <2>2
  <2>3. CASE mem[b] # e
    <3>1. F[b] = mem[b] /\ mem[b] \in S
      BY <1>1, <2>3
    <3>2. V[mem[b]] = Steps8(mem[b], e)
      BY <1>1
    <3>3. Steps8(mem[b], e) < Steps8(b, e)
      BY <1>1, StepsDown
    <3> QED
      BY <2>1, <3>1, <3>2, <3>3
  <2> QED
    BY <2>2, <2>3
<1>3. V[x0] <= MaxSteps /\ MaxSteps \in Nat
  <2>1. V[x0] = Steps8(x0, e)
    BY <1>1
  <2> QED
    BY <1>1, <2>1, StepsBound, Places
<1> DEFINE r == Loop(F, x0)
<1>4. r \in S /\ F[r] = r
  <2> HIDE DEF F, V, x0
  <2> QED
    BY <1>1, <1>2, <1>3, LoopEnds
<1>5. LastFree = r
  BY DEF LastFree
<1> HIDE DEF r
<1>6. mem[r] = e
  <2>1. F[r] = IF mem[r] = e THEN r ELSE mem[r]
    BY <1>1, <1>4
  <2> QED
    BY <1>1, <1>4, <2>1
<1> QED
  BY <1>4, <1>5, <1>6

(* The words of the sentinel. *)
LEMMA SentinelWritten ==
  ASSUME NEW m \in [Words -> Int], NEW e \in Nat, e - 4 \in Words, e \in Words
  PROVE  /\ WriteSentinel(m, e) \in [Words -> Int]
         /\ WriteSentinel(m, e)[e-4] = ZB_D /\ WriteSentinel(m, e)[e] = 0
         /\ \A w \in Words : w # e - 4 /\ w # e => WriteSentinel(m, e)[w] = m[w]
<1>1. e - 4 # e /\ ZB_D \in Int
  BY TextFacts DEF ZB_D
<1> HIDE DEF ZB_D
<1> QED
  BY <1>1 DEF WriteSentinel

(* A heap that grows.  The old sentinel has room for the header of a free  *)
(* block in front of the new one if it grows by 16 bytes or more.          *)
LEMMA IncreaseStep ==
  ASSUME MemInv, NEW change \in Changes, change \notin 1 .. 8, IncreaseHeap(change)
  PROVE  MemInv' /\ Tiled!Next
<1> DEFINE grow == Align8(change)
           e == heapEnd
           e2 == e + grow
           m1 == [mem EXCEPT ![e-4] = FB_D, ![e] = e2, ![e+4] = e2 - e]
           T == Nodes \cup {e}
<1>1. /\ change > 0 /\ e2 <= MaxHeapEnd /\ heapEnd' = e2 /\ mem' = WriteSentinel(m1, e2)
      /\ arr' = arr /\ client' = client
  BY DEF IncreaseHeap
<1>2. grow \in Nat /\ grow % 8 = 0 /\ grow >= 16
  <2>1. change \in Nat /\ change >= 9
    BY <1>1, HeapMemAssumption
  <2>2. grow \in Nat /\ grow % 8 = 0 /\ grow >= change
    BY <2>1, Align8Facts
  <2> HIDE DEF grow
  <2> QED
    BY <2>1, <2>2
<1>3. /\ e \in Nat /\ e % 8 = 0 /\ e \in Words /\ e \notin Nodes /\ mem \in [Words -> Int]
      /\ Linked8(mem, Nodes, e) /\ HeapStart \in Nat /\ HeapStart + 4 <= e - 4 /\ MaxHeapEnd \in Nat
  <2>1. Anchor < e
    BY LinkTypes DEF MemInv
  <2>2. e \in Nat /\ e % 8 = 0 /\ Anchor \in Nat /\ Anchor % 8 = 0
    BY LinkTypes, Places DEF MemInv
  <2> QED
    BY <2>1, <2>2, LinkTypes, Places DEF MemInv, MemTypes
<1>4. /\ e2 \in Nat /\ e2 % 8 = 0 /\ e + 16 <= e2 /\ e2 - e = grow
      /\ e - 4 \in Words /\ e + 4 \in Words /\ e2 - 4 \in Words /\ e2 \in Words
  <2> HIDE DEF grow, e2, e
  <2>1. e2 = e + grow
    BY DEF e2
  <2>2. e2 \in Nat /\ e2 % 8 = 0 /\ e + 16 <= e2 /\ e2 - e = grow
    BY <1>2, <1>3, <2>1
  <2>3. /\ e - 4 \in Nat /\ e + 4 \in Nat /\ e2 - 4 \in Nat
        /\ (e - 4) % 4 = 0 /\ (e + 4) % 4 = 0 /\ (e2 - 4) % 4 = 0 /\ e2 % 4 = 0
        /\ HeapStart <= e - 4 /\ HeapStart <= e + 4 /\ HeapStart <= e2 - 4 /\ HeapStart <= e2
        /\ e - 4 <= MaxHeapEnd /\ e + 4 <= MaxHeapEnd /\ e2 - 4 <= MaxHeapEnd /\ e2 <= MaxHeapEnd
    BY <1>1, <1>3, <2>2
  <2> QED
    BY <2>2, <2>3, Places
<1> HIDE DEF grow, e2
<1>5. /\ mem' \in [Words -> Int] /\ mem'[e-4] = FB_D /\ mem'[e] = e2 /\ mem'[e+4] = grow
      /\ mem'[e2-4] = ZB_D /\ mem'[e2] = 0
      /\ \A w \in Words : w < e - 4 => mem'[w] = mem[w]
  <2>1. /\ m1 \in [Words -> Int] /\ m1[e-4] = FB_D /\ m1[e] = e2 /\ m1[e+4] = grow
        /\ \A w \in Words : w # e - 4 /\ w # e /\ w # e + 4 => m1[w] = mem[w]
    <3> DEFINE p == e - 4
               q == e + 4
    <3>1. p # e /\ p # q /\ q # e /\ p \in Words /\ q \in Words /\ FB_D \in Int /\ e2 \in Int /\ grow \in Int
      BY TextFacts, <1>2, <1>3, <1>4 DEF FB_D
    <3>2. m1 = [mem EXCEPT ![p] = FB_D, ![e] = e2, ![q] = grow]
      BY <1>4
    <3> HIDE DEF p, q, m1, FB_D, e
    <3>3. /\ m1 \in [Words -> Int] /\ m1[p] = FB_D /\ m1[e] = e2 /\ m1[q] = grow
          /\ \A w \in Words : w # p /\ w # e /\ w # q => m1[w] = mem[w]
      BY <1>3, <3>1, <3>2
    <3> QED
      BY <3>3 DEF p, q
  <2> HIDE DEF m1, e
  <2>2. /\ mem' \in [Words -> Int] /\ mem'[e2-4] = ZB_D /\ mem'[e2] = 0
        /\ \A w \in Words : w # e2 - 4 /\ w # e2 => mem'[w] = m1[w]
    BY <1>1, <1>4, <2>1, SentinelWritten
  <2>3. /\ e - 4 # e2 - 4 /\ e - 4 # e2 /\ e # e2 - 4 /\ e # e2 /\ e + 4 # e2 - 4 /\ e + 4 # e2
    BY <1>3, <1>4
  <2>4. ASSUME NEW w \in Words, w < e - 4 PROVE mem'[w] = mem[w]
    <3>1. w # e - 4 /\ w # e /\ w # e + 4 /\ w # e2 - 4 /\ w # e2 /\ w \in Nat
      BY <1>3, <1>4, <2>4, Places
    <3> QED
      BY <2>1, <2>2, <3>1
  <2> QED
    BY <1>3, <1>4, <2>1, <2>2, <2>3, <2>4
<1> HIDE DEF m1
<1>6. ASSUME NEW b \in Nodes \cup DOMAIN arr, NEW w \in Words, InBlock(w, b, BSize(b)) PROVE mem'[w] = mem[w]
  <2>1. w \in Int
    BY Places
  <2>2. w < e - 4
    BY <1>6, <2>1, Apart
  <2> QED
    BY <1>5, <2>2
<1>7. \A b \in Nodes \cup {Anchor} : mem'[b] = mem[b] /\ b < e - 4 /\ b \in Words
  <2> TAKE b \in Nodes \cup {Anchor}
  <2>1. b \in Words /\ b \in Nat /\ b % 8 = 0 /\ b < e
    BY <1>3, LinkTypes
  <2>2. b < e - 4
    <3> HIDE DEF e
    <3> QED
      BY <1>3, <2>1
  <2> QED
    BY <1>5, <2>1, <2>2
<1>8. Linked8(mem', T, e2)
  <2>1. PICK last \in Nodes \cup {Anchor} : mem[last] = e
    BY <1>3, LastFinds
  <2> DEFINE ma == [mem EXCEPT ![last] = e2]
  <2>2. ma[last] = e2 /\ \A b \in Words : b # last => ma[b] = mem[b]
    BY <1>3, <1>7
  <2> HIDE DEF ma
  <2>3. Linked8(ma, Nodes, e2)
    <3>1. \A b \in Nodes \cup {Anchor} : b < e2 /\ (b # last => ma[b] = mem[b])
      <4> TAKE b \in Nodes \cup {Anchor}
      <4>1. b \in Nat /\ b < e - 4 /\ b \in Words
        BY <1>7, Places
      <4> HIDE DEF e
      <4>2. b < e2
        BY <1>3, <1>4, <4>1
      <4> QED
        BY <2>2, <4>1, <4>2
    <3> HIDE DEF e
    <3> QED
      BY <1>3, <1>4, <2>1, <2>2, <3>1, EndMoved
  <2>4. last < e
    BY <1>3, LinkTypes
  <2>5. /\ mem'[last] = e /\ mem'[e] = ma[last] /\ e < ma[last]
        /\ \A b \in Nodes \cup {Anchor} : b # last => mem'[b] = ma[b]
    <3>1. mem'[last] = e
      BY <1>7, <2>1
    <3>2. mem'[e] = ma[last]
      BY <1>5, <2>2
    <3>3. e < e2
      <4> HIDE DEF e
      <4> QED
        BY <1>3, <1>4
    <3>4. e < ma[last]
      BY <2>2, <3>3
    <3>5. \A b \in Nodes \cup {Anchor} : b # last => mem'[b] = ma[b]
      BY <1>7, <2>2
    <3> QED
      BY <3>1, <3>2, <3>4, <3>5
  <2> HIDE DEF e
  <2>6. Linked8(mem', Nodes \cup {e}, e2)
    BY <1>3, <2>1, <2>3, <2>4, <2>5, Insert
  <2> QED
    BY <2>6
<1>9. /\ Headed(mem', T) /\ FreeSize(mem', e) = grow
      /\ \A c \in Nodes : FreeSize(mem', c) = FreeSize(mem, c)
  <2>1. ASSUME NEW c \in Nodes
        PROVE  /\ mem'[c-4] = B8_D \/ (mem'[c-4] = FB_D /\ mem'[c+4] \in Nat /\ mem'[c+4] > 8 /\ mem'[c+4] % 8 = 0)
               /\ FreeSize(mem', c) = FreeSize(mem, c)
    <3> DEFINE sc == BSize(c)
    <3>1. c \in Nat /\ sc \in Nat /\ sc >= 8 /\ sc % 8 = 0 /\ sc = FreeSize(mem, c)
      BY Tiles
    <3>2. c - 4 \in Words /\ c + 4 \in Words
      BY BlockWords
    <3>3. \A w \in Words : InBlock(w, c, sc) => mem'[w] = mem[w]
      BY <1>6
    <3> HIDE DEF sc
    <3>4. InBlock(c - 4, c, sc) /\ (sc > 8 => InBlock(c + 4, c, sc))
      BY <3>1 DEF InBlock
    <3>5. mem'[c-4] = mem[c-4] /\ (FreeSize(mem, c) > 8 => mem'[c+4] = mem[c+4])
      BY <3>1, <3>2, <3>3, <3>4
    <3> QED
      BY <3>5, HeadKept DEF MemInv
  <2>2. /\ mem'[e-4] = B8_D \/ (mem'[e-4] = FB_D /\ mem'[e+4] \in Nat /\ mem'[e+4] > 8 /\ mem'[e+4] % 8 = 0)
        /\ FreeSize(mem', e) = grow
    BY <1>2, <1>5, HeadWritten
  <2> QED
    BY <2>1, <2>2 DEF Headed
<1>10. Ends(mem', heapEnd')
  <2>1. HeapStart \in Words /\ HeapStart < e - 4
    BY <1>3, Places
  <2> QED
    BY <1>1, <1>5, <2>1 DEF MemInv, Ends
<1>11. \A b \in DOMAIN arr : Intact(b)' /\ Footprint(b)' = Footprint(b)
  <2> TAKE b \in DOMAIN arr
  <2>1. arr'[b] = arr[b] /\ BSize(b) = Footprint(b)
    BY <1>1, Tiles
  <2>2. \A w \in Words : InBlock(w, b, Footprint(b)) => mem'[w] = mem[w]
    BY <1>6, <2>1
  <2>3. Intact(b)'
    BY <2>1, <2>2, IntactKept
  <2> QED
    BY <2>1, <2>3 DEF Footprint
<1>12. Tiled!IncreaseHeap(change)
  <2>1. DOMAIN FreeBlocks = Nodes /\ \A c \in Nodes : FreeBlocks[c] = FreeSize(mem, c)
    BY <1>3, NodesNow
  <2>2. FreeBlocks' = [c \in T |-> FreeSize(mem', c)]
    BY <1>1, <1>8, NodesNext
  <2>3. FreeBlocks' = Tiled!Put(FreeBlocks, e, grow)
    BY <1>3, <1>9, <2>1, <2>2 DEF Tiled!Put
  <2>4. UsedBlocks' = UsedBlocks
    BY <1>1, <1>11 DEF UsedBlocks
  <2>5. Tiled!Align8(change) = grow
    BY DEF Tiled!Align8, Align8, grow
  <2> QED
    BY <1>1, <2>3, <2>4, <2>5 DEF Tiled!IncreaseHeap, e2
<1>13. Tiled!Next
  BY <1>12 DEF Tiled!Next, Tiled!ChangeHeapSize
<1>14. MemInv'
  <2>1. DOMAIN arr' \subseteq Nat /\ \A b \in DOMAIN arr' : Known(arr'[b], client) /\ Intact(b)'
    BY <1>1, <1>11 DEF MemInv, MemTypes
  <2>2. Linked8(mem', T, heapEnd')
    BY <1>1, <1>8
  <2> QED
    BY <1>1, <1>5, <1>9, <1>10, <1>13, <2>1, <2>2, Closing
<1> QED
  BY <1>13, <1>14

(* A heap that shrinks: only words of the last block are written. *)
LEMMA DecreaseStep ==
  ASSUME MemInv, NEW change \in Changes, DecreaseHeap(-change)
  PROVE  MemInv' /\ Tiled!Next
<1> DEFINE down   == Align8(-change)
           e      == heapEnd
           block  == LastFree
           size   == FreeSize(mem, block)
           wanted == e - down
           e2     == IF wanted < block THEN block ELSE wanted
           cut    == IF e2 = block THEN mem ELSE WriteFree(mem, block, e2, e2 - block)
           T      == IF e2 = block THEN Nodes \ {block} ELSE Nodes
<1>1. /\ -change > 0 /\ mem[Anchor] # e /\ block + size = e /\ heapEnd' = e2
      /\ mem' = WriteSentinel(cut, e2) /\ arr' = arr /\ client' = client
  BY DEF DecreaseHeap
<1>2. down \in Nat /\ down % 8 = 0 /\ down >= 8
  <2>1. -change \in Nat /\ -change >= 1
    BY <1>1, HeapMemAssumption
  <2> DEFINE x == -change
  <2> HIDE DEF x
  <2>2. x \in Nat /\ x >= 1
    BY <2>1 DEF x
  <2>3. Align8(x) \in Nat /\ Align8(x) % 8 = 0 /\ Align8(x) >= x
    BY <2>2, Align8Facts
  <2> DEFINE a == Align8(x)
  <2>4. a \in Nat /\ a % 8 = 0 /\ a >= x
    BY <2>3
  <2>5. down = a
    BY DEF x
  <2> HIDE DEF a, down
  <2> QED
    BY <2>2, <2>4, <2>5
<1>3. /\ e \in Nat /\ e % 8 = 0 /\ e \in Words /\ mem \in [Words -> Int]
      /\ Linked8(mem, Nodes, e) /\ Headed(mem, Nodes) /\ HeapStart \in Nat /\ MaxHeapEnd \in Nat
  BY LinkTypes, Places DEF MemInv, MemTypes
<1>4. block \in Nodes /\ mem[block] = e
  BY <1>1, <1>3, LastFinds
<1>5. /\ block \in Nat /\ block % 8 = 0 /\ HeapStart + 12 <= block /\ block \in Words
      /\ size \in Nat /\ size % 8 = 0 /\ size >= 8 /\ BSize(block) = size
      /\ block - 4 \in Words /\ block + 4 \in Words
  <2>1. /\ block \in Nat /\ block % 8 = 0 /\ First <= block /\ block \in Words
        /\ BSize(block) \in Nat /\ BSize(block) % 8 = 0 /\ BSize(block) >= 8
        /\ BSize(block) = size
    BY <1>4, Tiles
  <2> QED
    BY <1>4, <2>1, BlockWords, Places
<1> HIDE DEF down, block, size, e
<1>6. /\ e2 \in Nat /\ e2 % 8 = 0 /\ block <= e2 /\ e2 + 8 <= e
      /\ (e2 # block => block + 8 <= e2)
      /\ e2 = IF e - down < block THEN block ELSE e - down
  <2>1. CASE wanted < block
    BY <1>1, <1>2, <1>3, <1>5, <2>1
  <2>2. CASE ~ (wanted < block)
    BY <1>1, <1>2, <1>3, <1>5, <2>2
  <2> QED
    BY <2>1, <2>2
<1> HIDE DEF e2
<1>7. e2 - 4 \in Words /\ e2 \in Words
  <2>1. /\ e2 - 4 \in Nat /\ (e2 - 4) % 4 = 0 /\ e2 % 4 = 0 /\ HeapStart <= e2 - 4 /\ HeapStart <= e2
        /\ e2 <= e /\ e2 - 4 <= e
    BY <1>3, <1>5, <1>6
  <2>2. e <= MaxHeapEnd
    BY <1>3, Places
  <2>3. e2 - 4 <= MaxHeapEnd /\ e2 <= MaxHeapEnd
    BY <1>3, <1>6, <2>1, <2>2
  <2> QED
    BY <1>6, <2>1, <2>3, Places
<1>8. /\ cut \in [Words -> Int]
      /\ \A w \in Words : ~InBlock(w, block, size) => cut[w] = mem[w]
      /\ e2 # block => /\ cut[block] = e2
                       /\ cut[block-4] = IF e2 - block = 8 THEN B8_D ELSE FB_D
                       /\ e2 - block # 8 => cut[block+4] = e2 - block
  <2>1. CASE e2 = block
    BY <1>3, <2>1
  <2>2. CASE e2 # block
    <3> DEFINE n == e2 - block
    <3>1. n \in Nat /\ n >= 8 /\ cut = WriteFree(mem, block, e2, n) /\ e2 \in Int
      BY <1>5, <1>6, <2>2
    <3>2. n # 8 => size > 8
      <4>1. n = e2 - block
        OBVIOUS
      <4> HIDE DEF n
      <4> QED
        BY <1>1, <1>3, <1>5, <1>6, <3>1, <4>1
    <3> HIDE DEF n, cut
    <3>3. /\ cut \in [Words -> Int] /\ cut[block] = e2
          /\ cut[block-4] = IF n = 8 THEN B8_D ELSE FB_D
          /\ n # 8 => cut[block+4] = n
          /\ \A w \in Words : w # block - 4 /\ w # block /\ (w = block + 4 => n = 8) => cut[w] = mem[w]
      BY <1>3, <1>5, <3>1, FreeWritten
    <3>4. ASSUME NEW w \in Words, ~InBlock(w, block, size) PROVE cut[w] = mem[w]
      <4>1. InBlock(block - 4, block, size) /\ InBlock(block, block, size)
            /\ (n # 8 => InBlock(block + 4, block, size))
        BY <1>5, <3>2 DEF InBlock
      <4> QED
        BY <3>3, <3>4, <4>1
    <3> QED
      BY <2>2, <3>3, <3>4 DEF n
  <2> QED
    BY <2>1, <2>2
<1> HIDE DEF cut
<1>9. /\ mem' \in [Words -> Int] /\ mem'[e2-4] = ZB_D /\ mem'[e2] = 0
      /\ \A w \in Words : w # e2 - 4 /\ w # e2 => mem'[w] = cut[w]
  BY <1>1, <1>6, <1>7, <1>8, SentinelWritten
<1>10. \A w \in Words : ~InBlock(w, block, size) => mem'[w] = mem[w]
  <2>1. InBlock(e2 - 4, block, size) /\ InBlock(e2, block, size)
    BY <1>1, <1>3, <1>5, <1>6 DEF InBlock
  <2> QED
    BY <1>8, <1>9, <2>1
<1>11. ASSUME NEW b \in (Nodes \cup DOMAIN arr) \ {block}, NEW w \in Words, InBlock(w, b, BSize(b))
       PROVE  mem'[w] = mem[w]
  <2>1. w \in Int
    BY Places
  <2>2. ~InBlock(w, block, size)
    BY <1>4, <1>5, <1>11, <2>1, Apart
  <2> QED
    BY <1>10, <2>2
<1>12. \A b \in (Nodes \cup {Anchor}) \ {block} : mem'[b] = mem[b] /\ b \in Words /\ b < block
  <2> TAKE b \in (Nodes \cup {Anchor}) \ {block}
  <2>1. b \in Nat /\ b \in Words /\ \A x \in Nodes : b < x => mem[b] <= x
    BY <1>3, LinkTypes
  <2>2. b < block
    <3>1. CASE b = Anchor
      BY <1>5, <3>1, Places
    <3>2. CASE b \in Nodes
      <4>1. ~ (block < b)
        <5>1. block < b => e <= b
          BY <1>3, <1>4, <3>2, LinkTypes
        <5>2. b < e
          BY <1>3, <3>2, LinkTypes
        <5> QED
          BY <1>3, <2>1, <5>1, <5>2
      <4> QED
        BY <1>5, <2>1, <4>1
    <3> QED
      BY <3>1, <3>2
  <2>3. ~InBlock(b, block, size)
    <3>1. b % 8 = 0
      BY <1>3, LinkTypes
    <3>2. ~ (block - 4 <= b)
      BY <1>5, <2>1, <2>2, <3>1
    <3> QED
      BY <3>2 DEF InBlock
  <2> QED
    BY <1>10, <2>1, <2>2, <2>3
<1>13. Linked8(mem', T, e2)
  <2>1. CASE e2 = block
    <3>1. Linked8(mem', Nodes \ {block}, block)
      BY <1>3, <1>4, <1>12, LastDropped
    <3> QED
      BY <2>1, <3>1
  <2>2. CASE e2 # block
    <3>1. mem'[block] = e2
      <4>1. block # e2 - 4 /\ block # e2
        BY <1>5, <1>6, <2>2
      <4> QED
        BY <1>5, <1>8, <1>9, <2>2, <4>1
    <3>2. \A b \in Nodes \cup {Anchor} : b < e2
      <4> TAKE b \in Nodes \cup {Anchor}
      <4>1. CASE b = block
        BY <1>5, <1>6, <2>2, <4>1
      <4>2. CASE b # block
        <5>1. b < block /\ b \in Nat
          BY <1>12, <4>2, Places
        <5> QED
          BY <1>5, <1>6, <5>1
      <4> QED
        BY <4>1, <4>2
    <3>3. \A b \in Nodes \cup {Anchor} : b # block => mem'[b] = mem[b]
      BY <1>12
    <3>4. Linked8(mem', Nodes, e2)
      BY <1>3, <1>4, <1>6, <1>7, <3>1, <3>2, <3>3, EndMoved
    <3> QED
      BY <2>2, <3>4
  <2> QED
    BY <2>1, <2>2
<1>14. /\ Headed(mem', T) /\ (e2 # block => FreeSize(mem', block) = e2 - block)
       /\ \A c \in Nodes \ {block} : FreeSize(mem', c) = FreeSize(mem, c)
  <2>1. ASSUME NEW c \in Nodes \ {block}
        PROVE  /\ mem'[c-4] = B8_D \/ (mem'[c-4] = FB_D /\ mem'[c+4] \in Nat /\ mem'[c+4] > 8 /\ mem'[c+4] % 8 = 0)
               /\ FreeSize(mem', c) = FreeSize(mem, c)
    <3> DEFINE sc == BSize(c)
    <3>1. c \in Nat /\ sc \in Nat /\ sc >= 8 /\ sc % 8 = 0 /\ sc = FreeSize(mem, c)
      BY Tiles
    <3>2. c - 4 \in Words /\ c + 4 \in Words
      BY BlockWords
    <3>3. \A w \in Words : InBlock(w, c, sc) => mem'[w] = mem[w]
      BY <1>11
    <3> HIDE DEF sc
    <3>4. InBlock(c - 4, c, sc) /\ (sc > 8 => InBlock(c + 4, c, sc))
      BY <3>1 DEF InBlock
    <3>5. mem'[c-4] = mem[c-4] /\ (FreeSize(mem, c) > 8 => mem'[c+4] = mem[c+4])
      BY <3>1, <3>2, <3>3, <3>4
    <3> QED
      BY <1>3, <3>5, HeadKept
  <2>2. ASSUME e2 # block
        PROVE  /\ mem'[block-4] = B8_D \/ (mem'[block-4] = FB_D /\ mem'[block+4] \in Nat /\ mem'[block+4] > 8 /\ mem'[block+4] % 8 = 0)
               /\ FreeSize(mem', block) = e2 - block
    <3> DEFINE n == e2 - block
    <3>1. n \in Nat /\ n >= 8 /\ n % 8 = 0 /\ e2 = block + n
      BY <1>5, <1>6, <2>2
    <3> HIDE DEF n
    <3>2. block - 4 # e2 - 4 /\ block - 4 # e2 /\ (n # 8 => block + 4 # e2 - 4 /\ block + 4 # e2)
      BY <1>5, <3>1
    <3>3. mem'[block-4] = (IF n = 8 THEN B8_D ELSE FB_D) /\ (n # 8 => mem'[block+4] = n)
      BY <1>5, <1>8, <1>9, <2>2, <3>2 DEF n
    <3> QED
      BY <3>1, <3>3, HeadWritten DEF n
  <2> QED
    BY <2>1, <2>2 DEF Headed
<1>15. Ends(mem', heapEnd')
  <2>1. HeapStart \in Words /\ HeapStart \in Int /\ HeapStart < block - 4
    BY <1>5, Places
  <2>2. ~InBlock(HeapStart, block, size)
    BY <1>5, <2>1 DEF InBlock
  <2> QED
    BY <1>1, <1>9, <1>10, <2>1, <2>2 DEF MemInv, Ends
<1>16. \A b \in DOMAIN arr : Intact(b)' /\ Footprint(b)' = Footprint(b)
  <2> TAKE b \in DOMAIN arr
  <2>1. arr'[b] = arr[b] /\ BSize(b) = Footprint(b) /\ b # block
    BY <1>1, <1>4, Tiles
  <2>2. \A w \in Words : InBlock(w, b, Footprint(b)) => mem'[w] = mem[w]
    BY <1>11, <2>1
  <2>3. Intact(b)'
    BY <2>1, <2>2, IntactKept
  <2> QED
    BY <2>1, <2>3 DEF Footprint
<1>17. Tiled!DecreaseHeap(-change)
  <2>1. DOMAIN FreeBlocks = Nodes /\ \A c \in Nodes : FreeBlocks[c] = FreeSize(mem, c)
    BY NodesNow DEF MemInv
  <2>2. FreeBlocks' = [c \in T |-> FreeSize(mem', c)]
    BY <1>1, <1>13, NodesNext
  <2>3. FreeBlocks' = IF e2 = block THEN Tiled!Drop(FreeBlocks, {block})
                                    ELSE Tiled!Put(FreeBlocks, block, e2 - block)
    <3>1. CASE e2 = block
      BY <1>14, <2>1, <2>2, <3>1 DEF Tiled!Drop, Tiled!Restrict
    <3>2. CASE e2 # block
      <4>1. Nodes \cup {block} = Nodes
        BY <1>4
      <4> QED
        BY <1>14, <2>1, <2>2, <3>2, <4>1 DEF Tiled!Put
    <3> QED
      BY <3>1, <3>2
  <2>4. UsedBlocks' = UsedBlocks
    BY <1>1, <1>16 DEF UsedBlocks
  <2>5. Tiled!Align8(-change) = down
    BY DEF Tiled!Align8, Align8, down
  <2>6. block \in DOMAIN FreeBlocks /\ FreeBlocks[block] = size
    BY <1>4, <2>1 DEF size
  <2>7. heapEnd' = IF heapEnd - Tiled!Align8(-change) < block THEN block ELSE heapEnd - Tiled!Align8(-change)
    BY <1>1, <1>6, <2>5 DEF e
  <2> QED
    BY <1>1, <2>3, <2>4, <2>6, <2>7 DEF Tiled!DecreaseHeap, e
<1>18. Tiled!Next
  BY <1>17 DEF Tiled!Next, Tiled!ChangeHeapSize
<1>19. MemInv'
  <2>1. DOMAIN arr' \subseteq Nat /\ \A b \in DOMAIN arr' : Known(arr'[b], client) /\ Intact(b)'
    BY <1>1, <1>16 DEF MemInv, MemTypes
  <2>2. Linked8(mem', T, heapEnd')
    BY <1>1, <1>13
  <2> QED
    BY <1>1, <1>9, <1>14, <1>15, <1>18, <2>1, <2>2, Closing
<1> QED
  BY <1>18, <1>19

-----------------------------------------------------------------------------
(* The blocks in front of the sentinel, and the runs between marked blocks. *)
All == Nodes \cup DOMAIN arr

(* The block behind a block, and the one in front of it. *)
LEMMA NextBlock ==
  ASSUME MemInv, NEW b \in All
  PROVE  /\ b + BSize(b) \in All \cup {heapEnd}
         /\ \A c \in All \cup {heapEnd} : b < c => b + BSize(b) <= c
         /\ \A a \in All : a + BSize(a) = b + BSize(b) => a = b
         /\ b # First => \E a \in All : a + BSize(a) = b
<1> DEFINE next == b + BSize(b)
           e == heapEnd
<1>1. /\ \A c \in All : c \in Nat /\ First <= c /\ BSize(c) \in Nat /\ BSize(c) >= 8 /\ c + BSize(c) <= e
      /\ \A a, c \in All : a < c => a + BSize(a) <= c
      /\ \A x \in First .. e - 1 : \E c \in All : c <= x /\ x < c + BSize(c)
      /\ e \in Nat /\ First \in Nat
  BY Tiles, LinkTypes, Places DEF MemInv, All
<1>2. /\ b \in Nat /\ BSize(b) \in Nat /\ BSize(b) >= 8 /\ next <= e /\ First <= b
  BY <1>1
<1>3. next \in Nat /\ next > b /\ next = b + BSize(b)
  BY <1>2
<1> HIDE DEF next, e
<1>4. \A c \in All \cup {e} : b < c => next <= c
  BY <1>1, <1>2, <1>3
<1>5. next \in All \cup {e}
  <2> SUFFICES ASSUME next # e PROVE next \in All
    OBVIOUS
  <2>1. next \in First .. e - 1
    <3>1. First <= b /\ b \in Nat /\ b < next /\ next <= e /\ e \in Nat /\ First \in Nat
      BY <1>1, <1>2, <1>3
    <3> QED
      BY <3>1, <1>3
  <2>2. PICK c \in All : c <= next /\ next < c + BSize(c)
    BY <1>1, <2>1
  <2>3. c \in Nat /\ BSize(c) \in Nat /\ (c < b => c + BSize(c) <= b) /\ (b < c => next <= c)
    BY <1>1, <1>4
  <2>4. c # b
    BY <1>3, <2>2
  <2>5. ~ (c < b)
    <3> DEFINE x == c + BSize(c)
    <3>1. x \in Nat /\ next < x /\ (c < b => x <= b)
      BY <2>2, <2>3
    <3> HIDE DEF x
    <3> QED
      BY <1>2, <1>3, <3>1
  <2>6. c = next
    BY <1>2, <1>3, <2>2, <2>3, <2>4, <2>5
  <2> QED
    BY <2>6
<1>6. ASSUME NEW a \in All, a + BSize(a) = next PROVE a = b
  <2> DEFINE x == a + BSize(a)
  <2>1. a \in Nat /\ x \in Nat /\ a < x /\ x = next /\ (a < b => x <= b) /\ (b < a => next <= a)
    BY <1>1, <1>4, <1>6
  <2> HIDE DEF x
  <2> QED
    BY <1>2, <1>3, <2>1
<1>7. ASSUME b # First PROVE \E a \in All : a + BSize(a) = b
  <2>1. b - 1 \in First .. e - 1
    BY <1>1, <1>2, <1>3, <1>7
  <2>2. PICK a \in All : a <= b - 1 /\ b - 1 < a + BSize(a)
    BY <1>1, <2>1
  <2> DEFINE x == a + BSize(a)
  <2>3. a \in Nat /\ x \in Nat /\ b - 1 < x /\ (a < b => x <= b)
    BY <1>1, <2>2
  <2> HIDE DEF x
  <2>4. x = b
    BY <1>2, <2>2, <2>3
  <2> QED
    BY <2>4 DEF x
<1> QED
  BY <1>4, <1>5, <1>6, <1>7 DEF next, e

(* A run of unmarked blocks begins behind a marked one and ends at the next *)
(* marked one, or at the sentinel.                                          *)
Heads(marked) == Tiled!Heads(marked)
RunEnd(h, marked) == Tiled!RunEnd(h, marked)

(* The bounds of a run, and where runs begin. *)
LEMMA RunFacts ==
  ASSUME MemInv, NEW marked, marked \subseteq DOMAIN arr
  PROVE  /\ \A h \in Heads(marked) :
              /\ h \in All /\ h \notin marked /\ h \in Nat /\ h % 8 = 0
              /\ RunEnd(h, marked) \in marked \cup {heapEnd}
              /\ RunEnd(h, marked) \in Nat /\ RunEnd(h, marked) % 8 = 0
              /\ h + 8 <= RunEnd(h, marked) /\ RunEnd(h, marked) <= heapEnd
              /\ \A x \in marked \cup {heapEnd} : x > h => RunEnd(h, marked) <= x
         /\ \A h \in All \ marked :
              h \in Heads(marked) <=> \A a \in All \ marked : a + BSize(a) # h
<1>1. Tiled!HeapInv /\ Tiled!HeapAssumption
  BY TiledAssumption DEF MemInv
<1>2. Tiled!Blocks = All /\ DOMAIN UsedBlocks = DOMAIN arr
  BY DEF Tiled!Blocks, FreeBlocks, UsedBlocks, All, Nodes
<1>3. \A b \in All : Tiled!Size(b) = BSize(b)
  <2>1. Nodes \cap DOMAIN arr = {}
    BY Tiles
  <2> QED
    BY <2>1 DEF Tiled!Size, BSize, FreeBlocks, UsedBlocks, All, Nodes
<1>4. Tiled!Unmarked(marked) = All \ marked
  BY <1>2 DEF Tiled!Unmarked
<1>5. Heads(marked) = {h \in All \ marked : \A a \in All \ marked : a + BSize(a) # h}
  BY <1>3, <1>4 DEF Heads, Tiled!Heads
<1>6. ASSUME NEW h \in Heads(marked)
      PROVE  /\ h \in All /\ h \notin marked /\ h \in Nat /\ h % 8 = 0
             /\ RunEnd(h, marked) \in marked \cup {heapEnd}
             /\ RunEnd(h, marked) \in Nat /\ RunEnd(h, marked) % 8 = 0
             /\ h + 8 <= RunEnd(h, marked) /\ RunEnd(h, marked) <= heapEnd
             /\ \A x \in marked \cup {heapEnd} : x > h => RunEnd(h, marked) <= x
  <2> DEFINE r == RunEnd(h, marked)
  <2>1. h \in All /\ h \notin marked
    BY <1>5
  <2>2. /\ r \in marked \cup {heapEnd} /\ r \in Nat /\ r > h
        /\ \A x \in marked \cup {heapEnd} : x > h => r <= x
    BY <1>1, <1>2, <2>1, Tiled!RunEndLeast DEF RunEnd
  <2> HIDE DEF r
  <2>3. h \in Nat /\ h % 8 = 0 /\ h < heapEnd
    <3>1. h \in Nat /\ h % 8 = 0 /\ BSize(h) \in Nat /\ BSize(h) >= 8 /\ h + BSize(h) <= heapEnd
      BY <2>1, Tiles DEF All
    <3>2. heapEnd \in Nat
      BY LinkTypes DEF MemInv
    <3> QED
      BY <3>1, <3>2
  <2>4. r % 8 = 0 /\ r <= heapEnd
    <3>1. \A x \in marked : x % 8 = 0
      BY Tiles DEF All
    <3>2. heapEnd % 8 = 0
      BY LinkTypes DEF MemInv
    <3> QED
      BY <2>2, <2>3, <3>1, <3>2
  <2>5. h + 8 <= r
    BY <2>2, <2>3, <2>4
  <2> QED
    BY <2>1, <2>2, <2>3, <2>4, <2>5 DEF r
<1> QED
  BY <1>5, <1>6

(* A marked block lies behind a run or in front of it. *)
LEMMA RunsApart ==
  ASSUME MemInv, NEW marked, marked \subseteq DOMAIN arr, NEW h \in Heads(marked)
  PROVE  /\ \A c \in marked : c < RunEnd(h, marked) => c + BSize(c) <= h
         /\ \A g \in Heads(marked) : RunEnd(g, marked) < RunEnd(h, marked) => RunEnd(g, marked) < h
<1> DEFINE r == RunEnd(h, marked)
<1>1. /\ h \in All /\ h \notin marked /\ h \in Nat /\ r \in Nat
      /\ \A x \in marked \cup {heapEnd} : x > h => r <= x
      /\ r <= heapEnd /\ heapEnd \in Nat
  BY RunFacts, LinkTypes DEF MemInv
<1> HIDE DEF r
<1>2. ASSUME NEW c \in marked, c < r PROVE c + BSize(c) <= h
  <2>1. c \in All /\ c \in Nat
    BY Tiles DEF All
  <2>2. c < h
    BY <1>1, <1>2, <2>1
  <2> QED
    BY <1>1, <2>1, <2>2, Tiles DEF All
<1>3. ASSUME NEW g \in Heads(marked), RunEnd(g, marked) < r PROVE RunEnd(g, marked) < h
  <2> DEFINE q == RunEnd(g, marked)
  <2>1. q \in marked \cup {heapEnd} /\ q \in Nat
    BY RunFacts
  <2> HIDE DEF q
  <2>2. q < r
    BY <1>3 DEF q
  <2>3. q \in marked
    BY <1>1, <2>1, <2>2
  <2>4. q < h
    BY <1>1, <2>1, <2>2, <2>3
  <2> QED
    BY <2>4 DEF q
<1> QED
  BY <1>2, <1>3 DEF r

-----------------------------------------------------------------------------
(* The collector has set the mark of some blocks. *)
Marks(marked) == [w \in DOMAIN mem |-> IF w + 4 \in marked THEN mem[w] + 1 ELSE mem[w]]

(* Tags. *)
LEMMA TagWords ==
  ASSUME MemInv, client = "Oberon", NEW b \in All
  PROVE  /\ mem[b-4] \in Nat /\ mem[b-4] % 2 = 0 /\ mem[b-4] # ZB_D
         /\ b \in Nodes => mem[b-4] \in {B8_D, FB_D} /\ mem[b-4] = IF BSize(b) = 8 THEN B8_D ELSE FB_D
         /\ b \in Nodes /\ mem[b-4] = FB_D => mem[b+4] = BSize(b)
         /\ b \in DOMAIN arr =>
              \/ arr[b].kind = "system" /\ mem[b-4] = b + Footprint(b) - 8 /\ mem[b-4] \in Words
              \/ arr[b].kind \in {"static", "open"} /\ mem[b-4] = arr[b].tag /\ mem[b-4] \in DOMAIN TDesc
                 /\ mem[b-4] > SB_S
<1>1. CASE b \in Nodes
  <2>1. /\ mem[b-4] \in {B8_D, FB_D} /\ BSize(b) = FreeSize(mem, b) /\ FreeSize(mem, b) \in Nat
        /\ FreeSize(mem, b) = IF mem[b-4] = B8_D THEN 8 ELSE mem[b+4]
        /\ FreeSize(mem, b) > 8 => mem[b-4] = FB_D
        /\ b \notin DOMAIN arr
    BY <1>1, HeaderSize, Tiles DEF MemInv
  <2>2. mem[b-4] = FB_D => BSize(b) > 8 /\ mem[b+4] = BSize(b)
    <3>1. B8_D # FB_D
      BY TextFacts DEF B8_D, FB_D
    <3>2. mem[b-4] = B8_D \/ (mem[b-4] = FB_D /\ mem[b+4] \in Nat /\ mem[b+4] > 8 /\ mem[b+4] % 8 = 0)
      BY <1>1 DEF MemInv, Headed
    <3> QED
      BY <2>1, <3>1, <3>2
  <2>3. mem[b-4] = IF BSize(b) = 8 THEN B8_D ELSE FB_D
    <3>1. CASE mem[b-4] = B8_D
      BY <2>1, <3>1
    <3>2. CASE mem[b-4] = FB_D
      BY <2>1, <2>2, <3>2
    <3> QED
      BY <2>1, <3>1, <3>2
  <2>4. mem[b-4] \in Nat /\ mem[b-4] % 2 = 0 /\ mem[b-4] # ZB_D
    BY TextFacts, <2>1 DEF B8_D, FB_D, ZB_D
  <2> QED
    BY <1>1, <2>1, <2>2, <2>3, <2>4
<1>2. CASE b \in DOMAIN arr
  <2>1. b \notin Nodes /\ BSize(b) = Footprint(b)
    BY <1>2, Tiles
  <2>2. Known(arr[b], client) /\ Intact(b)
    BY <1>2 DEF MemInv, MemTypes, ContentsIntact
  <2>3. CASE arr[b].kind = "system"
    <3> DEFINE fp == Footprint(b)
    <3>1. b \in Nat /\ b % 8 = 0 /\ fp \in Nat /\ fp % 8 = 0 /\ fp >= 8 /\ fp = BSize(b)
      BY <1>2, Tiles
    <3>2. mem[b-4] = b + fp - 8
      BY <2>2, <2>3 DEF Intact
    <3> HIDE DEF fp
    <3>3. b + fp - 8 \in Nat /\ (b + fp - 8) % 2 = 0 /\ (b + fp - 8) % 4 = 0
          /\ b - 4 <= b + fp - 8 /\ b + fp - 8 <= b + fp /\ b + fp - 8 \in Int
      BY <3>1
    <3>4. b + fp - 8 \in Words
      BY <1>2, <3>1, <3>3, BlockWords
    <3>5. b + fp - 8 # ZB_D
      <4>1. b + fp - 8 < AB_D
        BY <3>4, Places
      <4> QED
        BY TextFacts, <3>3, <4>1 DEF AB_D, ZB_D
    <3> QED
      BY <1>2, <2>1, <2>3, <3>2, <3>3, <3>4, <3>5 DEF fp
  <2>4. CASE arr[b].kind \in {"static", "open"}
    <3>1. arr[b].tag \in DOMAIN TDesc
      BY <2>2, <2>4 DEF Known
    <3>2. mem[b-4] = arr[b].tag
      BY <2>2, <2>4 DEF Intact
    <3>3. arr[b].tag \in Nat /\ arr[b].tag > SB_S /\ arr[b].tag % 2 = 0
      BY <3>1, HeapMemAssumption
    <3>4. arr[b].tag # ZB_D
      BY TextFacts, <3>3 DEF ZB_D, SB_S
    <3> QED
      BY <1>2, <2>1, <2>4, <3>1, <3>2, <3>3, <3>4
  <2> QED
    BY <2>2, <2>3, <2>4 DEF Known
<1> QED
  BY <1>1, <1>2 DEF All

(* A block's skipper finds its size as long as its words are kept; a mark  *)
(* does not mislead it.                                                    *)
LEMMA SkipperSize ==
  ASSUME MemInv, client = "Oberon", NEW b \in All, NEW m, Tag(m, b) = mem[b-4],
         \A w \in Words : InBlock(w, b, BSize(b)) /\ w # b - 4 => m[w] = mem[w]
  PROVE  BlockSize(m, b) = BSize(b) /\ Tag(m, b) # ZB_D
<1> DEFINE t == mem[b-4]
           size == BSize(b)
<1>1. t \in Nat /\ t # ZB_D /\ Tag(m, b) = t
  BY TagWords
<1>2. \A w \in Words : w < AB_D /\ w \in Nat
  BY Places
<1>a. /\ FB_D \notin Words /\ B8_D \notin Words
      /\ FB_D \notin DOMAIN TDesc /\ B8_D \notin DOMAIN TDesc
  BY <1>2, HeapMemAssumption DEF FB_D, B8_D, AB_D, SB_S
<1>b. \A w \in Words : w \notin DOMAIN TDesc
  BY <1>2, HeapMemAssumption DEF AB_D, SB_S
<1>3. /\ b \in Nat /\ b % 8 = 0 /\ size \in Nat /\ size % 8 = 0 /\ size >= 8
      /\ b \in Words /\ b + 4 \in Words
  BY Tiles, BlockWords DEF All
<1>4. CASE b \in Nodes
  <2>1. t \in {B8_D, FB_D} /\ t = IF size = 8 THEN B8_D ELSE FB_D
    BY <1>4, TagWords
  <2>2. CASE t = B8_D
    <3>1. size = 8
      BY TextFacts, <2>1, <2>2 DEF B8_D, FB_D
    <3>2. B8_D # FB_D
      BY TextFacts DEF B8_D, FB_D
    <3> HIDE DEF t
    <3>3. BlockSize(m, b) = 8
      BY <1>1, <1>a, <2>2, <3>2 DEF BlockSize
    <3> QED
      BY <1>1, <3>1, <3>3
  <2>3. CASE t = FB_D
    <3>1. mem[b+4] = size
      BY <1>4, <2>3, TagWords
    <3>2. m[b+4] = size
      <4>1. size # 8
        BY TextFacts, <2>1, <2>3 DEF B8_D, FB_D
      <4> HIDE DEF size
      <4>2. InBlock(b + 4, b, size) /\ b + 4 # b - 4
        BY <1>3, <4>1 DEF InBlock
      <4> QED
        BY <1>3, <3>1, <4>2 DEF size
    <3> HIDE DEF t
    <3>3. BlockSize(m, b) = m[b+4]
      <4>1. FB_D # B8_D /\ FB_D # AB_D
        BY TextFacts DEF AB_D, B8_D, FB_D
      <4> QED
        BY <1>1, <1>a, <2>3, <4>1 DEF BlockSize
    <3> QED
      BY <1>1, <3>2, <3>3
  <2> QED
    BY <1>1, <2>1, <2>2, <2>3
<1>5. CASE b \in DOMAIN arr
  <2>1. size = Footprint(b) /\ Known(arr[b], client) /\ Intact(b)
    BY <1>5, Tiles DEF MemInv, MemTypes, ContentsIntact
  <2>2. CASE arr[b].kind = "system"
    <3>1. t = b + Footprint(b) - 8 /\ t \in Words /\ mem[b+Footprint(b)-8] = Footprint(b)
      <4>1. t \notin DOMAIN TDesc \/ ~ (t > SB_S) \/ arr[b].kind = "system"
        BY <2>2
      <4>2. mem[b-4] = b + Footprint(b) - 8 /\ mem[b-4] \in Words
        BY <1>5, <2>2, TagWords
      <4> QED
        BY <2>1, <2>2, <4>2 DEF Intact
    <3>2. mem[t] = size /\ InBlock(t, b, size) /\ t # b - 4
      <4>1. t = b + size - 8 /\ mem[t] = size
        BY <2>1, <3>1
      <4> HIDE DEF size, t
      <4> QED
        BY <1>3, <4>1 DEF InBlock
    <3>3. m[t] = size
      BY <3>1, <3>2
    <3>4. t < AB_D
      BY <1>2, <3>1
    <3>5. t \notin {FB_D, B8_D, AB_D}
      BY TextFacts, <1>1, <3>4 DEF AB_D, FB_D, B8_D
    <3> HIDE DEF t, size
    <3>6. BlockSize(m, b) = m[t]
      BY <1>1, <1>b, <3>1, <3>5 DEF BlockSize
    <3> QED
      BY <1>1, <3>3, <3>6 DEF size
  <2>3. CASE arr[b].kind \in {"static", "open"}
    <3>1. t = arr[b].tag /\ t \in DOMAIN TDesc /\ t > SB_S
      BY <1>5, <2>3, TagWords
    <3>2. t \notin Words /\ t \notin {FB_D, B8_D, AB_D}
      BY TextFacts, <1>1, <1>2, <3>1 DEF AB_D, FB_D, B8_D, SB_S
    <3>3. TDesc[t].size \in Int
      BY <3>1, HeapMemAssumption
    <3>4. CASE arr[b].kind = "static"
      <4>1. TDesc[t].size >= 0 /\ ~ (TDesc[t].size < 0) /\ TDesc[t].size = arr[b].bytes
        BY <2>1, <3>1, <3>3, <3>4 DEF Known
      <4>2. BlockSize(m, b) = StaticBlockSize(TDesc[t].size)
        <5> HIDE DEF t
        <5> QED
          BY <1>1, <3>1, <3>2, <4>1 DEF BlockSize
      <4>3. Footprint(b) = StaticBlockSize(arr[b].bytes)
        BY <3>4 DEF Footprint
      <4> QED
        BY <1>1, <2>1, <4>1, <4>2, <4>3
    <3>5. CASE arr[b].kind = "open"
      <4> DEFINE l == arr[b].lens
      <4>1. TDesc[t].size = -Len(l) /\ l \in Lens
        BY <2>1, <3>1, <3>5 DEF Known
      <4>2. Len(l) \in Nat \ {0}
        BY <2>1, <3>5, Room
      <4>3. TDesc[t].size < 0 /\ ~ (TDesc[t].size >= 0) /\ -TDesc[t].size = Len(l)
        <5> DEFINE k == Len(l)
        <5>1. TDesc[t].size = -k /\ k \in Nat \ {0}
          BY <4>1, <4>2
        <5> HIDE DEF k
        <5>2. TDesc[t].size < 0 /\ ~ (TDesc[t].size >= 0) /\ -TDesc[t].size = k
          BY <5>1
        <5> QED
          BY <5>2 DEF k
      <4>4. BlockSize(m, b) = OpenBlockSize(-TDesc[t].size, m[b], TDesc[t].elemSize)
        <5> HIDE DEF t
        <5> QED
          BY <1>1, <3>1, <3>2, <4>3 DEF BlockSize
      <4>5. m[b] = Product(l)
        <5>1. mem[b] = Product(l)
          BY <2>1, <3>5 DEF Intact
        <5>2. InBlock(b, b, size) /\ b # b - 4
          <6> HIDE DEF size
          <6> QED
            BY <1>3 DEF InBlock
        <5> QED
          BY <1>3, <5>1, <5>2
      <4>6. Footprint(b) = OpenBlockSize(Len(l), Product(l), TDesc[arr[b].tag].elemSize)
        BY <3>5 DEF Footprint
      <4> QED
        BY <1>1, <2>1, <3>1, <4>3, <4>4, <4>5, <4>6
    <3> QED
      BY <2>3, <3>4, <3>5
  <2> QED
    BY <2>1, <2>2, <2>3 DEF Known
<1> QED
  BY <1>4, <1>5 DEF All

(* Marking changes tags, and only those of marked blocks. *)
LEMMA MarkedWords ==
  ASSUME MemInv, client = "Oberon", NEW marked, marked \subseteq DOMAIN arr
  PROVE  /\ Marks(marked) \in [Words -> Int]
         /\ \A b \in All : /\ Tag(Marks(marked), b) = mem[b-4]
                           /\ Marked(Marks(marked), b) <=> b \in marked
         /\ \A b \in All, w \in Words : InBlock(w, b, BSize(b)) /\ w # b - 4 => Marks(marked)[w] = mem[w]
         /\ \A w \in Words : w <= HeapStart + 4 \/ w >= heapEnd - 4 => Marks(marked)[w] = mem[w]
<1> DEFINE m0 == Marks(marked)
<1>1. mem \in [Words -> Int]
  BY DEF MemInv, MemTypes
<1>2. \A c \in All : /\ c \in Nat /\ c - 4 \in Words /\ First <= c /\ c % 8 = 0
                     /\ BSize(c) \in Nat /\ BSize(c) >= 8 /\ c + BSize(c) <= heapEnd
  BY Tiles, BlockWords DEF All
<1>3. \A w \in Words : w \in Nat /\ w - 4 + 4 = w /\ w + 4 - 4 = w
  BY Places
<1>4. \A w \in Words : m0[w] = IF w + 4 \in marked THEN mem[w] + 1 ELSE mem[w]
  BY <1>1 DEF Marks
<1>5. m0 \in [Words -> Int]
  BY <1>1 DEF Marks
<1> HIDE DEF m0
<1>6. \A b \in All : m0[b-4] = IF b \in marked THEN mem[b-4] + 1 ELSE mem[b-4]
  <2> TAKE b \in All
  <2>1. b - 4 + 4 = b
    BY <1>2
  <2> QED
    BY <1>2, <1>4, <2>1
<1>7. ASSUME NEW b \in All
      PROVE  Tag(m0, b) = mem[b-4] /\ (Marked(m0, b) <=> b \in marked)
  <2> DEFINE t == mem[b-4]
  <2>1. t \in Nat /\ t % 2 = 0
    BY TagWords
  <2>2. m0[b-4] = IF b \in marked THEN t + 1 ELSE t
    BY <1>6
  <2> HIDE DEF t
  <2>3. (t + 1) % 2 = 1 /\ t + 1 - 1 = t /\ t - 0 = t
    BY <2>1
  <2>4. Tag(m0, b) = t /\ (Marked(m0, b) <=> b \in marked)
    BY <2>1, <2>2, <2>3 DEF Tag, Marked
  <2> QED
    BY <2>4 DEF t
<1>8. ASSUME NEW b \in All, NEW w \in Words, InBlock(w, b, BSize(b)), w # b - 4
      PROVE  m0[w] = mem[w]
  <2>1. w + 4 \notin marked
    <3> SUFFICES ASSUME w + 4 \in marked PROVE FALSE
      OBVIOUS
    <3> DEFINE c == w + 4
    <3>1. c \in All /\ w = c - 4 /\ w \in Int
      BY <1>3 DEF All
    <3>2. InBlock(w, c, BSize(c))
      <4> DEFINE sc == BSize(c)
      <4>1. sc \in Nat /\ sc >= 8 /\ c \in Nat /\ w = c - 4
        BY <1>2, <3>1
      <4> HIDE DEF sc, c
      <4>2. InBlock(w, c, sc)
        BY <4>1 DEF InBlock
      <4> QED
        BY <4>2 DEF sc
    <3> HIDE DEF c
    <3>3. c = b
      BY <1>8, <3>1, <3>2, Apart DEF All
    <3> QED
      BY <1>8, <3>1, <3>3
  <2> QED
    BY <1>4, <2>1
<1>9. ASSUME NEW w \in Words, w <= HeapStart + 4 \/ w >= heapEnd - 4 PROVE m0[w] = mem[w]
  <2>1. w + 4 \notin marked
    <3> SUFFICES ASSUME w + 4 \in marked PROVE FALSE
      OBVIOUS
    <3> DEFINE c == w + 4
               sc == BSize(c)
    <3>1. c \in Nat /\ First <= c /\ sc \in Nat /\ sc >= 8 /\ c + sc <= heapEnd /\ w = c - 4
      BY <1>2, <1>3 DEF All
    <3>2. First = HeapStart + 12 /\ HeapStart \in Nat /\ heapEnd \in Nat
      BY Places, LinkTypes DEF MemInv
    <3> HIDE DEF c, sc
    <3> QED
      BY <1>9, <3>1, <3>2
  <2> QED
    BY <1>4, <2>1
<1> QED
  BY <1>5, <1>7, <1>8, <1>9 DEF m0

-----------------------------------------------------------------------------
(* The sweep has come to b: the runs that end in front of b are joined, one *)
(* may have been begun at head.                                             *)
Joined(b, marked) == {h \in Heads(marked) : RunEnd(h, marked) < b}

Running(b, head, marked) ==
  /\ b \in All \cup {heapEnd}
  /\ head = NoHead =>
       /\ \A h \in Heads(marked) : h < b => RunEnd(h, marked) < b
       /\ \A a \in All : a + BSize(a) = b => a \in marked
  /\ head # NoHead =>
       /\ head \in Heads(marked) /\ head < b /\ b <= RunEnd(head, marked)
       /\ \A h \in Heads(marked) : h < b /\ h # head => RunEnd(h, marked) < b

(* At the first block the sweep has passed no run. *)
LEMMA RunsStart ==
  ASSUME MemInv, NEW marked, marked \subseteq DOMAIN arr
  PROVE  Running(First, NoHead, marked) /\ Joined(First, marked) = {}
<1>1. /\ \A c \in All : c \in Nat /\ First <= c /\ BSize(c) \in Nat /\ BSize(c) >= 8
      /\ First \in Nat
  BY Tiles, Places DEF All
<1>2. First \in All \cup {heapEnd}
  <2>1. heapEnd \in Nat /\ Anchor < heapEnd /\ heapEnd % 8 = 0
    BY LinkTypes DEF MemInv
  <2>2. Anchor \in Nat /\ Anchor % 8 = 0 /\ First = Anchor + 8
    BY Places
  <2>3. CASE First = heapEnd
    BY <2>3
  <2>4. CASE First # heapEnd
    <3>1. First \in First .. heapEnd - 1
      BY <2>1, <2>2, <2>4
    <3>2. PICK c \in All : c <= First
      BY <3>1, Tiles DEF All
    <3>3. c = First
      BY <1>1, <3>2
    <3> QED
      BY <3>3
  <2> QED
    BY <2>3, <2>4
<1>3. \A h \in Heads(marked) : h \in All /\ RunEnd(h, marked) \in Nat /\ h + 8 <= RunEnd(h, marked)
  BY RunFacts
<1>4. \A h \in Heads(marked) : ~ (h < First) /\ ~ (RunEnd(h, marked) < First)
  <2> TAKE h \in Heads(marked)
  <2> DEFINE r == RunEnd(h, marked)
  <2>1. h \in Nat /\ First <= h /\ r \in Nat /\ h + 8 <= r
    BY <1>1, <1>3
  <2> HIDE DEF r
  <2>2. ~ (h < First) /\ ~ (r < First)
    BY <1>1, <2>1
  <2> QED
    BY <2>2 DEF r
<1>5. \A a \in All : a + BSize(a) # First
  BY <1>1
<1> QED
  BY <1>2, <1>4, <1>5 DEF Running, Joined

(* Passing an unmarked block begins a run or goes on with one. *)
LEMMA RunsPassUnmarked ==
  ASSUME MemInv, NEW marked, marked \subseteq DOMAIN arr, NEW b, NEW head, Running(b, head, marked),
         b \in All \ marked
  PROVE  /\ Running(b + BSize(b), IF head = NoHead THEN b ELSE head, marked)
         /\ Joined(b + BSize(b), marked) = Joined(b, marked)
<1> DEFINE next == b + BSize(b)
<1>1. /\ next \in All \cup {heapEnd} /\ \A c \in All \cup {heapEnd} : b < c => next <= c
      /\ \A a \in All : a + BSize(a) = next => a = b
      /\ b # First => \E a \in All : a + BSize(a) = b
  BY NextBlock
<1>2. /\ \A c \in All : c \in Nat /\ First <= c /\ BSize(c) \in Nat /\ BSize(c) >= 8
      /\ \A a, c \in All : a < c => a + BSize(a) <= c
      /\ heapEnd \in Nat /\ First \in Nat
  BY Tiles, LinkTypes, Places DEF MemInv, All
<1>3. b \in Nat /\ next \in Nat /\ b < next /\ b # NoHead
  BY <1>2, Places DEF NoHead
<1>4. \A h \in Heads(marked) :
        /\ h \in All /\ h \notin marked /\ h \in Nat
        /\ RunEnd(h, marked) \in marked \cup {heapEnd} /\ RunEnd(h, marked) \in Nat
        /\ h < RunEnd(h, marked)
        /\ \A x \in marked \cup {heapEnd} : x > h => RunEnd(h, marked) <= x
  <2> TAKE h \in Heads(marked)
  <2> DEFINE r == RunEnd(h, marked)
  <2>1. r \in Nat /\ h \in Nat /\ h + 8 <= r
    BY RunFacts
  <2> HIDE DEF r
  <2>2. h < r
    BY <2>1
  <2> QED
    BY <2>2, RunFacts DEF r
<1> HIDE DEF next
<1>5. marked \cup {heapEnd} \subseteq All \cup {heapEnd} /\ marked \cup {heapEnd} \subseteq Nat
  BY <1>2 DEF All
<1>6. \A x \in marked \cup {heapEnd} : x >= b => x >= next
  <2> SUFFICES ASSUME NEW x \in marked \cup {heapEnd}, x >= b PROVE x >= next
    OBVIOUS
  <2>1. x # b
    <3>1. b # heapEnd
      <4>1. b < next /\ next <= heapEnd
        <5>1. b + BSize(b) <= heapEnd
          BY Tiles DEF All
        <5> QED
          BY <1>3, <5>1 DEF next
      <4> QED
        BY <1>2, <1>3, <4>1
    <3> QED
      BY <3>1
  <2>2. x \in Nat /\ x > b
    BY <1>3, <1>5, <2>1
  <2> QED
    BY <1>1, <1>3, <1>5, <2>2
<1>7. Joined(next, marked) = Joined(b, marked)
  <2> SUFFICES ASSUME NEW h \in Heads(marked)
               PROVE  RunEnd(h, marked) < next <=> RunEnd(h, marked) < b
    BY DEF Joined
  <2> DEFINE r == RunEnd(h, marked)
  <2>1. r \in Nat /\ (r >= b => r >= next)
    BY <1>4, <1>6
  <2> HIDE DEF r
  <2>2. r < next <=> r < b
    BY <1>3, <2>1
  <2> QED
    BY <2>2 DEF r
<1>8. \A h \in Heads(marked) : h < next => h <= b
  <2> SUFFICES ASSUME NEW h \in Heads(marked), ~ (h <= b) PROVE ~ (h < next)
    OBVIOUS
  <2>1. h \in All /\ h \in Nat /\ b < h
    BY <1>3, <1>4
  <2>2. next <= h
    BY <1>1, <2>1
  <2> QED
    BY <1>3, <2>1, <2>2
<1>9. CASE head = NoHead
  <2>1. \A h \in Heads(marked) : h < b => RunEnd(h, marked) < b
    BY <1>9 DEF Running
  <2>2. b \in Heads(marked)
    <3>1. \A a \in All \ marked : a + BSize(a) # b
      BY <1>9 DEF Running
    <3> QED
      BY <3>1, RunFacts
  <2>3. next <= RunEnd(b, marked)
    <3> DEFINE r == RunEnd(b, marked)
    <3>1. r \in marked \cup {heapEnd} /\ r \in Nat /\ b < r
      BY <1>4, <2>2
    <3> HIDE DEF r
    <3>2. r >= next
      BY <1>3, <1>6, <3>1
    <3> QED
      BY <1>3, <3>1, <3>2 DEF r
  <2>4. ASSUME NEW h \in Heads(marked), h < next, h # b PROVE RunEnd(h, marked) < next
    <3> DEFINE r == RunEnd(h, marked)
    <3>1. h < b
      BY <1>3, <1>4, <1>8, <2>4
    <3>2. r \in Nat /\ r < b
      BY <1>4, <2>1, <3>1
    <3> HIDE DEF r
    <3>3. r < next
      BY <1>3, <3>2
    <3> QED
      BY <3>3 DEF r
  <2> QED
    BY <1>1, <1>3, <1>7, <1>9, <2>2, <2>3, <2>4 DEF Running, next
<1>10. CASE head # NoHead
  <2>1. /\ head \in Heads(marked) /\ head < b /\ b <= RunEnd(head, marked)
        /\ \A h \in Heads(marked) : h < b /\ h # head => RunEnd(h, marked) < b
    BY <1>10 DEF Running
  <2>2. head \in Nat /\ head \in All
    BY <1>4, <2>1
  <2>3. head < next
    BY <1>3, <2>1, <2>2
  <2>4. next <= RunEnd(head, marked)
    <3> DEFINE r == RunEnd(head, marked)
    <3>1. r \in marked \cup {heapEnd} /\ r \in Nat /\ b <= r
      BY <1>4, <2>1
    <3> HIDE DEF r
    <3>2. r >= next
      BY <1>3, <1>6, <3>1
    <3> QED
      BY <1>3, <3>1, <3>2 DEF r
  <2>5. b \notin Heads(marked)
    <3>1. b # First
      BY <1>2, <1>3, <2>1, <2>2
    <3>2. PICK a \in All : a + BSize(a) = b
      BY <1>1, <3>1
    <3> DEFINE x == a + BSize(a)
    <3>3. a \in Nat /\ x \in Nat /\ a < x /\ x = b /\ (a < head => x <= head)
      BY <1>2, <2>2, <3>2
    <3> HIDE DEF x
    <3>4. head <= a /\ a < b
      BY <1>3, <2>1, <2>2, <3>3
    <3>5. a \notin marked
      <4> SUFFICES ASSUME a \in marked PROVE FALSE
        OBVIOUS
      <4> DEFINE r == RunEnd(head, marked)
      <4>1. a # head
        BY <1>4, <2>1
      <4>2. a > head
        BY <2>2, <3>3, <3>4, <4>1
      <4>3. r <= a /\ r \in Nat /\ b <= r
        BY <1>4, <2>1, <4>2
      <4> HIDE DEF r
      <4> QED
        BY <1>3, <3>3, <3>4, <4>3
    <3>6. a \in All \ marked /\ a + BSize(a) = b
      BY <3>2, <3>5
    <3> QED
      BY <3>6, RunFacts
  <2>6. ASSUME NEW h \in Heads(marked), h < next, h # head PROVE RunEnd(h, marked) < next
    <3> DEFINE r == RunEnd(h, marked)
    <3>1. h < b
      BY <1>3, <1>4, <1>8, <2>5, <2>6
    <3>2. r \in Nat /\ r < b
      BY <1>4, <2>1, <2>6, <3>1
    <3> HIDE DEF r
    <3>3. r < next
      BY <1>3, <3>2
    <3> QED
      BY <3>3 DEF r
  <2> QED
    BY <1>1, <1>7, <1>10, <2>1, <2>3, <2>4, <2>6 DEF Running, next
<1> QED
  BY <1>9, <1>10

(* Passing a marked block ends the run in front of it, if there is one. *)
LEMMA RunsPassMarked ==
  ASSUME MemInv, NEW marked, marked \subseteq DOMAIN arr, NEW b, NEW head, Running(b, head, marked),
         b \in marked
  PROVE  /\ Running(b + BSize(b), NoHead, marked)
         /\ head = NoHead => Joined(b + BSize(b), marked) = Joined(b, marked)
         /\ head # NoHead => /\ RunEnd(head, marked) = b
                             /\ Joined(b + BSize(b), marked) = Joined(b, marked) \cup {head}
<1> DEFINE next == b + BSize(b)
<1>1. /\ next \in All \cup {heapEnd} /\ \A c \in All \cup {heapEnd} : b < c => next <= c
      /\ \A a \in All : a + BSize(a) = next => a = b
  BY NextBlock DEF All
<1>2. /\ b \in Nat /\ BSize(b) \in Nat /\ BSize(b) >= 8
  BY Tiles DEF All
<1>3. next \in Nat /\ b < next
  BY <1>2
<1>4. \A h \in Heads(marked) :
        /\ h \in All /\ h \notin marked /\ h \in Nat
        /\ RunEnd(h, marked) \in marked \cup {heapEnd} /\ RunEnd(h, marked) \in Nat
        /\ h < RunEnd(h, marked)
        /\ \A x \in marked \cup {heapEnd} : x > h => RunEnd(h, marked) <= x
  <2> TAKE h \in Heads(marked)
  <2> DEFINE r == RunEnd(h, marked)
  <2>1. r \in Nat /\ h \in Nat /\ h + 8 <= r
    BY RunFacts
  <2> HIDE DEF r
  <2>2. h < r
    BY <2>1
  <2> QED
    BY <2>2, RunFacts DEF r
<1>5. marked \subseteq All
  BY DEF All
<1> HIDE DEF next
<1>6. \A h \in Heads(marked) : RunEnd(h, marked) < next <=> RunEnd(h, marked) <= b
  <2> TAKE h \in Heads(marked)
  <2> DEFINE r == RunEnd(h, marked)
  <2>1. r \in All \cup {heapEnd} /\ r \in Nat
    BY <1>4, <1>5
  <2> HIDE DEF r
  <2>2. b < r => next <= r
    BY <1>1, <2>1
  <2>3. r < next <=> r <= b
    BY <1>2, <1>3, <2>1, <2>2
  <2> QED
    BY <2>3 DEF r
<1>7. \A h \in Heads(marked) : h < next => h < b
  <2> SUFFICES ASSUME NEW h \in Heads(marked), ~ (h < b) PROVE ~ (h < next)
    OBVIOUS
  <2>1. h \in All /\ h \in Nat /\ b < h
    BY <1>2, <1>4
  <2>2. next <= h
    BY <1>1, <2>1
  <2> QED
    BY <1>3, <2>1, <2>2
<1>8. CASE head = NoHead
  <2>1. \A h \in Heads(marked) : h < b => RunEnd(h, marked) < b
    BY <1>8 DEF Running
  <2>2. \A h \in Heads(marked) : RunEnd(h, marked) < b <=> RunEnd(h, marked) <= b
    <3> TAKE h \in Heads(marked)
    <3> DEFINE r == RunEnd(h, marked)
    <3>1. r \in Nat /\ h \in Nat /\ h < r /\ (h < b => r < b)
      BY <1>4, <2>1
    <3> HIDE DEF r
    <3>2. r < b <=> r <= b
      BY <1>2, <3>1
    <3> QED
      BY <3>2 DEF r
  <2>3. Joined(next, marked) = Joined(b, marked)
    BY <1>6, <2>2 DEF Joined
  <2>4. \A h \in Heads(marked) : h < next => RunEnd(h, marked) < next
    BY <1>6, <1>7, <2>1, <2>2
  <2>5. Running(next, NoHead, marked)
    BY <1>1, <2>4 DEF Running
  <2> QED
    BY <1>8, <2>3, <2>5 DEF next
<1>9. CASE head # NoHead
  <2>1. /\ head \in Heads(marked) /\ head < b /\ b <= RunEnd(head, marked)
        /\ \A h \in Heads(marked) : h < b /\ h # head => RunEnd(h, marked) < b
    BY <1>9 DEF Running
  <2>2. RunEnd(head, marked) = b
    <3> DEFINE r == RunEnd(head, marked)
    <3>1. r \in Nat /\ head \in Nat /\ \A x \in marked : x > head => r <= x
      BY <1>4, <2>1
    <3>2. b <= r
      BY <2>1
    <3> HIDE DEF r
    <3>3. r <= b
      BY <1>2, <2>1, <3>1
    <3>4. r = b
      BY <1>2, <3>1, <3>2, <3>3
    <3> QED
      BY <3>4 DEF r
  <2>3. \A h \in Heads(marked) : RunEnd(h, marked) <= b <=> (RunEnd(h, marked) < b \/ h = head)
    <3> TAKE h \in Heads(marked)
    <3> DEFINE r == RunEnd(h, marked)
    <3>1. r \in Nat /\ h \in Nat /\ h < r /\ (h < b /\ h # head => r < b) /\ (h = head => r = b)
      BY <1>4, <2>1, <2>2
    <3> HIDE DEF r
    <3>2. r <= b <=> (r < b \/ h = head)
      BY <1>2, <3>1
    <3> QED
      BY <3>2 DEF r
  <2>4. Joined(next, marked) = Joined(b, marked) \cup {head}
    BY <1>6, <2>1, <2>3 DEF Joined
  <2>5. \A h \in Heads(marked) : h < next => RunEnd(h, marked) < next
    BY <1>6, <1>7, <2>1, <2>3
  <2>6. Running(next, NoHead, marked)
    BY <1>1, <2>5 DEF Running
  <2> QED
    BY <1>9, <2>2, <2>4, <2>6 DEF next
<1> QED
  BY <1>8, <1>9

(* At the sentinel all runs are passed but the one it ends. *)
LEMMA RunsEnd ==
  ASSUME MemInv, NEW marked, marked \subseteq DOMAIN arr, NEW head, Running(heapEnd, head, marked)
  PROVE  /\ head = NoHead => Heads(marked) = Joined(heapEnd, marked)
         /\ head # NoHead => /\ head \in Heads(marked) /\ RunEnd(head, marked) = heapEnd
                             /\ Heads(marked) = Joined(heapEnd, marked) \cup {head}
<1>1. \A h \in Heads(marked) : /\ h \in Nat /\ RunEnd(h, marked) \in Nat /\ RunEnd(h, marked) <= heapEnd
                               /\ h + 8 <= RunEnd(h, marked)
  BY RunFacts
<1>2. heapEnd \in Nat
  BY LinkTypes DEF MemInv
<1>3. \A h \in Heads(marked) : h < heapEnd
  <2> TAKE h \in Heads(marked)
  <2> DEFINE r == RunEnd(h, marked)
  <2>1. h \in Nat /\ r \in Nat /\ r <= heapEnd /\ h + 8 <= r
    BY <1>1
  <2> HIDE DEF r
  <2> QED
    BY <1>2, <2>1
<1>4. CASE head = NoHead
  BY <1>3, <1>4 DEF Running, Joined
<1>5. CASE head # NoHead
  <2>1. /\ head \in Heads(marked) /\ heapEnd <= RunEnd(head, marked)
        /\ \A h \in Heads(marked) : h # head => RunEnd(h, marked) < heapEnd
    BY <1>3, <1>5 DEF Running
  <2>2. RunEnd(head, marked) = heapEnd
    <3> DEFINE r == RunEnd(head, marked)
    <3>1. r \in Nat /\ r <= heapEnd /\ heapEnd <= r
      BY <1>1, <2>1
    <3> HIDE DEF r
    <3>2. r = heapEnd
      BY <1>2, <3>1
    <3> QED
      BY <3>2 DEF r
  <2> QED
    BY <1>5, <2>1, <2>2 DEF Joined
<1> QED
  BY <1>4, <1>5

-----------------------------------------------------------------------------
(* What the sweep has written when it has come to b: the list of the runs  *)
(* it has joined, whose last link is still to be set.                      *)
RunHeader(m, h, size) ==
  /\ m[h-4] = IF size = 8 THEN B8_D ELSE FB_D
  /\ size # 8 => m[h+4] = size

Written(m, b, last, marked) ==
  /\ m \in [Words -> Int] /\ last \in Joined(b, marked) \cup {Anchor}
  /\ Linked8([m EXCEPT ![last] = b], Joined(b, marked), b)
  /\ \A h \in Joined(b, marked) : RunHeader(m, h, RunEnd(h, marked) - h)
  /\ \A w \in Words : w >= b - 4 => m[w] = Marks(marked)[w]
  /\ \A c \in marked, w \in Words : c < b /\ InBlock(w, c, BSize(c)) => m[w] = mem[w]
  /\ m[HeapStart] = AB_D

(* The runs behind the sweep: their places and bounds. *)
LEMMA JoinedFacts ==
  ASSUME MemInv, NEW marked, marked \subseteq DOMAIN arr, NEW b \in All \cup {heapEnd}
  PROVE  /\ b \in Nat /\ b % 8 = 0 /\ b \in Words /\ First <= b /\ b <= heapEnd
         /\ \A h \in Joined(b, marked) :
              /\ h \in Heads(marked) /\ h \in All /\ h \notin marked /\ h \in Nat /\ h % 8 = 0
              /\ First <= h /\ h - 4 \in Words /\ h \in Words /\ h + 4 \in Words
              /\ RunEnd(h, marked) \in Nat /\ RunEnd(h, marked) % 8 = 0
              /\ h + 8 <= RunEnd(h, marked) /\ RunEnd(h, marked) < b /\ h + 16 <= b
<1>1. /\ heapEnd \in Nat /\ heapEnd % 8 = 0 /\ heapEnd \in Words /\ Anchor < heapEnd
      /\ Anchor \in Nat /\ Anchor % 8 = 0 /\ First = Anchor + 8
  BY LinkTypes, Places DEF MemInv
<1>2. First <= heapEnd
  BY <1>1
<1>3. b \in Nat /\ b % 8 = 0 /\ b \in Words /\ First <= b /\ b <= heapEnd
  <2>1. CASE b \in All
    <3>1. b \in Nat /\ b % 8 = 0 /\ b \in Words /\ First <= b /\ BSize(b) \in Nat /\ b + BSize(b) <= heapEnd
      BY <2>1, Tiles DEF All
    <3> QED
      BY <1>1, <3>1
  <2>2. CASE b = heapEnd
    BY <1>1, <1>2, <2>2
  <2> QED
    BY <2>1, <2>2
<1>4. ASSUME NEW h \in Joined(b, marked)
      PROVE  /\ h \in Heads(marked) /\ h \in All /\ h \notin marked /\ h \in Nat /\ h % 8 = 0
             /\ First <= h /\ h - 4 \in Words /\ h \in Words /\ h + 4 \in Words
             /\ RunEnd(h, marked) \in Nat /\ RunEnd(h, marked) % 8 = 0
             /\ h + 8 <= RunEnd(h, marked) /\ RunEnd(h, marked) < b /\ h + 16 <= b
  <2> DEFINE r == RunEnd(h, marked)
  <2>1. h \in Heads(marked) /\ r < b
    BY DEF Joined
  <2>2. h \in All /\ h \notin marked /\ h \in Nat /\ h % 8 = 0 /\ r \in Nat /\ r % 8 = 0 /\ h + 8 <= r
    BY <2>1, RunFacts
  <2> HIDE DEF r
  <2>3. h + 16 <= b
    BY <1>3, <2>1, <2>2
  <2>4. First <= h /\ h - 4 \in Words /\ h \in Words /\ h + 4 \in Words
    BY <2>2, Tiles, BlockWords DEF All
  <2> QED
    BY <2>1, <2>2, <2>3, <2>4 DEF r
<1> QED
  BY <1>3, <1>4

(* Before its first step the sweep has written nothing. *)
LEMMA WrittenStart ==
  ASSUME MemInv, client = "Oberon", NEW marked, marked \subseteq DOMAIN arr
  PROVE  Written(Marks(marked), First, Anchor, marked)
<1> DEFINE m == Marks(marked)
           x == [m EXCEPT ![Anchor] = First]
<1>1. Joined(First, marked) = {} /\ First \in All \cup {heapEnd}
  BY RunsStart DEF Running
<1>2. m \in [Words -> Int] /\ \A w \in Words : w <= HeapStart + 4 \/ w >= heapEnd - 4 => m[w] = mem[w]
  BY MarkedWords
<1>3. First \in Words /\ First % 8 = 0 /\ Anchor < First /\ Anchor \in Words
      /\ HeapStart \in Words /\ HeapStart \in Nat
  BY <1>1, JoinedFacts, Places
<1>4. Linked8(x, {}, First)
  <2>1. x[Anchor] = First
    BY <1>2, <1>3
  <2> QED
    BY <1>3, <2>1 DEF Linked8
<1>5. m[HeapStart] = AB_D
  BY <1>2, <1>3 DEF MemInv, Ends
<1>6. ASSUME NEW c \in marked PROVE ~ (c < First)
  <2>1. c \in Nat /\ First <= c
    BY Tiles DEF All
  <2> QED
    BY <2>1, Places
<1> QED
  BY <1>1, <1>2, <1>4, <1>5, <1>6 DEF Written

(* The sweep passes a block: at most the block's tag is written. *)
LEMMA WrittenPass ==
  ASSUME MemInv, client = "Oberon", NEW marked, marked \subseteq DOMAIN arr,
         NEW m, NEW b \in All, NEW last, Written(m, b, last, marked),
         Joined(b + BSize(b), marked) = Joined(b, marked),
         NEW m2 \in [Words -> Int], \A w \in Words : w # b - 4 => m2[w] = m[w],
         m2[b-4] = IF b \in marked THEN mem[b-4] ELSE m[b-4]
  PROVE  Written(m2, b + BSize(b), last, marked)
<1> DEFINE next == b + BSize(b)
           C == Joined(b, marked)
<1>1. /\ next \in All \cup {heapEnd} /\ \A c \in All \cup {heapEnd} : b < c => next <= c
  BY NextBlock
<1>2. /\ b \in Nat /\ BSize(b) \in Nat /\ BSize(b) >= 8 /\ b - 4 \in Words /\ b % 8 = 0 /\ First <= b
  BY Tiles, BlockWords DEF All
<1>3. next \in Nat /\ b + 8 <= next /\ next \in Words /\ next % 8 = 0
  BY <1>1, <1>2, JoinedFacts
<1>4. /\ \A h \in C : /\ h \in All /\ h \notin marked /\ h \in Nat /\ h % 8 = 0 /\ h \in Words
                      /\ h - 4 \in Words /\ h + 4 \in Words /\ h + 16 <= b
                      /\ RunEnd(h, marked) \in Nat /\ RunEnd(h, marked) % 8 = 0
                      /\ h + 8 <= RunEnd(h, marked) /\ RunEnd(h, marked) < b
      /\ Anchor \in Nat /\ Anchor % 8 = 0 /\ Anchor \in Words /\ Anchor + 8 = First /\ First \in Nat
      /\ HeapStart \in Nat /\ HeapStart \in Words /\ Anchor = HeapStart + 4
      /\ \A w \in Words : w \in Nat
  <2>1. b \in All \cup {heapEnd}
    OBVIOUS
  <2>2. /\ Anchor \in Nat /\ Anchor % 8 = 0 /\ Anchor \in Words /\ Anchor + 8 = First /\ First \in Nat
        /\ HeapStart \in Nat /\ HeapStart \in Words /\ Anchor = HeapStart + 4
        /\ \A w \in Words : w \in Nat
    BY Places
  <2> QED
    BY <2>1, <2>2, JoinedFacts
<1>5. /\ m \in [Words -> Int] /\ last \in C \cup {Anchor} /\ Linked8([m EXCEPT ![last] = b], C, b)
      /\ \A h \in C : RunHeader(m, h, RunEnd(h, marked) - h)
      /\ \A w \in Words : w >= b - 4 => m[w] = Marks(marked)[w]
      /\ \A c \in marked, w \in Words : c < b /\ InBlock(w, c, BSize(c)) => m[w] = mem[w]
      /\ m[HeapStart] = AB_D
  BY DEF Written
<1> HIDE DEF next, C
<1>6. Linked8([m2 EXCEPT ![last] = next], C, next)
  <2> DEFINE x == [m EXCEPT ![last] = b]
             x2 == [m2 EXCEPT ![last] = next]
  <2>1. last \in Words /\ x[last] = b /\ x2[last] = next
    BY <1>4, <1>5
  <2>2. \A c \in C \cup {Anchor} : c \in Words /\ c # b - 4 /\ c < next
    BY <1>2, <1>3, <1>4
  <2>3. \A c \in C \cup {Anchor} : c # last => x2[c] = x[c]
    BY <1>5, <2>1, <2>2
  <2> HIDE DEF x, x2
  <2>4. Linked8(x, C, b)
    BY <1>5 DEF x
  <2>5. \A c \in C \cup {Anchor} : c < next
    BY <2>2
  <2>a. next \in Words /\ next % 8 = 0 /\ last \in C \cup {Anchor}
    BY <1>3, <1>5
  <2>6. Linked8(x2, C, next)
    BY <2>a, <2>1, <2>3, <2>4, <2>5, EndMoved
  <2> QED
    BY <2>6 DEF x2
<1>7. \A h \in C : RunHeader(m2, h, RunEnd(h, marked) - h)
  <2> TAKE h \in C
  <2> DEFINE s == RunEnd(h, marked) - h
  <2>1. RunHeader(m, h, s)
    BY <1>5
  <2>2. h - 4 \in Words /\ h + 4 \in Words /\ h - 4 # b - 4 /\ h + 4 # b - 4
    BY <1>2, <1>4
  <2>3. m2[h-4] = m[h-4] /\ m2[h+4] = m[h+4]
    BY <2>2
  <2> HIDE DEF s
  <2>4. RunHeader(m2, h, s)
    BY <2>1, <2>3 DEF RunHeader
  <2> QED
    BY <2>4 DEF s
<1>8. \A w \in Words : w >= next - 4 => m2[w] = Marks(marked)[w]
  <2> SUFFICES ASSUME NEW w \in Words, w >= next - 4 PROVE m2[w] = Marks(marked)[w]
    OBVIOUS
  <2>1. w # b - 4 /\ w >= b - 4
    BY <1>2, <1>3, <1>4
  <2> QED
    BY <1>5, <2>1
<1>9. ASSUME NEW c \in marked, NEW w \in Words, c < next, InBlock(w, c, BSize(c))
      PROVE  m2[w] = mem[w]
  <2>1. c \in All /\ c \in Nat /\ w \in Int
    BY <1>4, Tiles DEF All
  <2>2. c <= b
    BY <1>1, <1>2, <1>3, <1>9, <2>1
  <2>3. CASE c < b
    <3>1. w # b - 4
      <4> SUFFICES ASSUME w = b - 4 PROVE FALSE
        OBVIOUS
      <4> DEFINE sb == BSize(b)
      <4>1. sb \in Nat /\ sb >= 8
        BY <1>2
      <4> HIDE DEF sb
      <4>2. InBlock(w, b, sb)
        BY <1>2, <4>1 DEF InBlock
      <4>3. c = b
        BY <1>9, <2>1, <4>2, Apart DEF sb, All
      <4> QED
        BY <1>2, <2>3, <4>3
    <3> QED
      BY <1>5, <1>9, <2>3, <3>1
  <2>4. CASE c = b
    <3>1. CASE w = b - 4
      BY <1>9, <2>4, <3>1
    <3>2. CASE w # b - 4
      <4>1. w >= b - 4
        BY <1>9, <2>4 DEF InBlock
      <4>2. m[w] = Marks(marked)[w]
        BY <1>5, <4>1
      <4>3. Marks(marked)[w] = mem[w]
        BY <1>9, <2>4, <3>2, MarkedWords
      <4> QED
        BY <3>2, <4>2, <4>3
    <3> QED
      BY <3>1, <3>2
  <2> QED
    BY <1>2, <2>1, <2>2, <2>3, <2>4
<1>10. m2[HeapStart] = AB_D
  <2>1. HeapStart # b - 4
    BY <1>2, <1>4
  <2> QED
    BY <1>4, <1>5, <2>1
<1>11. Joined(next, marked) = C
  BY DEF next, C
<1>12. Written(m2, next, last, marked)
  BY <1>5, <1>6, <1>7, <1>8, <1>9, <1>10, <1>11 DEF Written
<1> QED
  BY <1>12 DEF next

(* A run that ends at b is joined: its header is written, and it is linked *)
(* behind the last one.                                                    *)
Spared(m, m2, b, head, last) ==
  \A w \in Words : w < b - 4 /\ w # head - 4 /\ w # last /\ w # head /\ w # head + 4 => m2[w] = m[w]

RunIn(m2, b, head, marked) ==
  /\ \A x \in Words : x % 8 = 0 /\ x >= b
                      => Linked8([m2 EXCEPT ![head] = x], Joined(b, marked) \cup {head}, x)
  /\ \A h \in Joined(b, marked) \cup {head} : RunHeader(m2, h, RunEnd(h, marked) - h)
  /\ \A c \in marked, w \in Words : c < b /\ InBlock(w, c, BSize(c)) => m2[w] = mem[w]
  /\ m2[HeapStart] = AB_D

(* A run that ends is written into the list behind the last one, and       *)
(* nothing else changes.                                                   *)
LEMMA WrittenRun ==
  ASSUME MemInv, client = "Oberon", NEW marked, marked \subseteq DOMAIN arr,
         NEW m, NEW b \in All \cup {heapEnd}, NEW last, Written(m, b, last, marked),
         NEW head \in Heads(marked), RunEnd(head, marked) = b,
         NEW m2 \in [Words -> Int], RunHeader(m2, head, b - head), m2[last] = head,
         Spared(m, m2, b, head, last)
  PROVE  RunIn(m2, b, head, marked)
<1> DEFINE C == Joined(b, marked)
<1>1. /\ \A h \in C : /\ h \in All /\ h \notin marked /\ h \in Nat /\ h % 8 = 0 /\ h \in Words
                      /\ h - 4 \in Words /\ h + 4 \in Words /\ First <= h
                      /\ RunEnd(h, marked) \in Nat /\ RunEnd(h, marked) % 8 = 0
                      /\ h + 8 <= RunEnd(h, marked) /\ RunEnd(h, marked) < b
                      /\ h \in Heads(marked)
      /\ Anchor \in Nat /\ Anchor % 8 = 0 /\ Anchor \in Words /\ Anchor + 8 = First /\ First \in Nat
      /\ HeapStart \in Nat /\ HeapStart \in Words /\ Anchor = HeapStart + 4
      /\ b \in Nat /\ b % 8 = 0 /\ \A w \in Words : w \in Nat
  BY JoinedFacts, Places
<1>2. /\ head \in All /\ head \notin marked /\ head \in Nat /\ head % 8 = 0 /\ head + 8 <= b
      /\ First <= head /\ head \in Words
  <2>1. /\ head \in All /\ head \notin marked /\ head \in Nat /\ head % 8 = 0 /\ head + 8 <= b
    BY RunFacts
  <2> QED
    BY <2>1, Tiles DEF All
<1>3. \A h \in C : RunEnd(h, marked) < head
  BY <1>1, RunsApart
<1>4. \A h \in C : h < head /\ h + 8 <= head
  <2> TAKE h \in C
  <2> DEFINE r == RunEnd(h, marked)
  <2>1. r \in Nat /\ h + 8 <= r /\ r < head /\ h \in Nat
    BY <1>1, <1>3
  <2> HIDE DEF r
  <2> QED
    BY <1>2, <2>1
<1>5. /\ m \in [Words -> Int] /\ last \in C \cup {Anchor} /\ Linked8([m EXCEPT ![last] = b], C, b)
      /\ \A h \in C : RunHeader(m, h, RunEnd(h, marked) - h)
      /\ \A c \in marked, w \in Words : c < b /\ InBlock(w, c, BSize(c)) => m[w] = mem[w]
      /\ m[HeapStart] = AB_D
  BY DEF Written
<1>a. \A w \in Words : w < b - 4 /\ w # head - 4 /\ w # last /\ w # head /\ w # head + 4 => m2[w] = m[w]
  BY DEF Spared
<1> HIDE DEF C
<1>6. last \in Nat /\ last % 8 = 0 /\ last \in Words /\ last < head /\ Anchor <= last
  <2>1. CASE last \in C
    <3>1. last \in Nat /\ last % 8 = 0 /\ last \in Words /\ last < head /\ First <= last
      BY <1>1, <1>4, <2>1
    <3> QED
      BY <1>1, <3>1
  <2>2. CASE last = Anchor
    BY <1>1, <1>2, <2>2
  <2> QED
    BY <1>5, <2>1, <2>2
<1>7. \A w \in C \cup {Anchor} : /\ w \in Words /\ w < b - 4 /\ w # head - 4 /\ w # head /\ w # head + 4
                                 /\ w < head /\ w < b
  BY <1>1, <1>2, <1>4
<1>8. ASSUME NEW x \in Words, x % 8 = 0, x >= b PROVE Linked8([m2 EXCEPT ![head] = x], C \cup {head}, x)
  <2> DEFINE m0 == [m EXCEPT ![last] = b]
             m1 == [m EXCEPT ![last] = x]
             m3 == [m2 EXCEPT ![head] = x]
  <2>1. m0[last] = b /\ m1[last] = x /\ \A w \in Words : w # last => m1[w] = m0[w] /\ m1[w] = m[w]
    BY <1>5, <1>6
  <2>2. m3[head] = x /\ \A w \in Words : w # head => m3[w] = m2[w]
    BY <1>2
  <2>3. Linked8(m0, C, b)
    BY <1>5
  <2> HIDE DEF m0, m1, m3
  <2>4. \A w \in C \cup {Anchor} : w < x
    BY <1>1, <1>7, <1>8
  <2>5. Linked8(m1, C, x)
    BY <1>5, <1>7, <1>8, <2>1, <2>3, <2>4, EndMoved
  <2>6. m3[last] = head /\ m3[head] = m1[last]
    BY <1>6, <1>a, <2>1, <2>2
  <2>7. \A w \in C \cup {Anchor} : w # last => m3[w] = m1[w]
    BY <1>7, <1>a, <2>1, <2>2
  <2>8. head < m1[last]
    BY <1>1, <1>2, <1>8, <2>1
  <2>9. Linked8(m3, C \cup {head}, x)
    <3>1. last \in C \cup {Anchor} /\ head \in Words /\ head % 8 = 0 /\ last < head
      BY <1>2, <1>5, <1>6
    <3> QED
      BY <3>1, <2>5, <2>6, <2>7, <2>8, Insert
  <2> QED
    BY <2>9 DEF m3
<1>9. ASSUME NEW h \in C \cup {head} PROVE RunHeader(m2, h, RunEnd(h, marked) - h)
  <2>1. CASE h = head
    BY <2>1
  <2>2. CASE h \in C
    <3> DEFINE r == RunEnd(h, marked)
               s == r - h
    <3>1. /\ RunHeader(m, h, s) /\ r \in Nat /\ r % 8 = 0 /\ h + 8 <= r /\ r < head /\ h \in Nat /\ h % 8 = 0
          /\ h - 4 \in Words /\ h + 4 \in Words /\ s = r - h
      BY <1>1, <1>3, <1>5, <2>2
    <3> HIDE DEF r, s
    <3>2. h - 4 < b - 4 /\ h - 4 # head - 4 /\ h - 4 # last /\ h - 4 # head /\ h - 4 # head + 4
      BY <1>2, <1>6, <1>1, <3>1
    <3>3. s # 8 => h + 4 < b - 4 /\ h + 4 # head - 4 /\ h + 4 # last /\ h + 4 # head /\ h + 4 # head + 4
      BY <1>2, <1>6, <1>1, <3>1
    <3>4. m2[h-4] = m[h-4] /\ (s # 8 => m2[h+4] = m[h+4])
      BY <3>1, <3>2, <3>3, <1>a
    <3>5. RunHeader(m2, h, s)
      BY <3>1, <3>4 DEF RunHeader
    <3> QED
      BY <3>5 DEF r, s
  <2> QED
    BY <2>1, <2>2
<1>10. ASSUME NEW c \in marked, NEW w \in Words, c < b, InBlock(w, c, BSize(c)) PROVE m2[w] = mem[w]
  <2>1. c + BSize(c) <= head /\ c \in All /\ c \in Nat /\ BSize(c) \in Nat /\ w \in Int
    <3>1. c < RunEnd(head, marked)
      BY <1>10
    <3>2. c + BSize(c) <= head
      BY <3>1, RunsApart
    <3>3. c \in All /\ c \in Nat /\ BSize(c) \in Nat
      BY Tiles DEF All
    <3> QED
      BY <1>1, <3>2, <3>3
  <2>2. w < head - 4
    <3> DEFINE sc == BSize(c)
    <3>1. sc \in Nat /\ c + sc <= head /\ w < c + sc - 4
      BY <1>10, <2>1 DEF InBlock
    <3> HIDE DEF sc
    <3> QED
      BY <1>2, <2>1, <3>1
  <2>3. w # last
    <3> SUFFICES ASSUME w = last PROVE FALSE
      OBVIOUS
    <3>1. CASE last = Anchor
      <4>1. w >= HeapStart + 8
        BY <1>10, <2>1, Apart DEF All
      <4> QED
        BY <1>1, <3>1, <4>1
    <3>2. CASE last \in C
      <4> DEFINE sl == BSize(last)
      <4>1. sl \in Nat /\ sl >= 8 /\ last \in All /\ last \notin marked
        BY <1>1, <3>2, Tiles DEF All
      <4> HIDE DEF sl
      <4>2. InBlock(w, last, sl)
        BY <1>6, <4>1 DEF InBlock
      <4>3. c = last
        BY <1>10, <2>1, <4>1, <4>2, Apart DEF sl, All
      <4> QED
        BY <4>1, <4>3
    <3> QED
      BY <1>5, <3>1, <3>2
  <2>4. w < b - 4 /\ w # head - 4 /\ w # head /\ w # head + 4
    BY <1>1, <1>2, <2>1, <2>2
  <2>5. m2[w] = m[w]
    BY <2>3, <2>4, <1>a
  <2> QED
    BY <1>5, <1>10, <2>5
<1>11. m2[HeapStart] = AB_D
  <2>1. HeapStart < b - 4 /\ HeapStart # head - 4 /\ HeapStart # last /\ HeapStart # head /\ HeapStart # head + 4
    BY <1>1, <1>2, <1>6
  <2> QED
    BY <1>1, <1>5, <1>a, <2>1
<1> QED
  BY <1>8, <1>9, <1>10, <1>11 DEF C, RunIn

(* The header of a run of at least 8 bytes. *)
LEMMA RunWritten ==
  ASSUME NEW m \in [Words -> Int], NEW head \in Nat, NEW size \in Nat, size >= 8,
         head - 4 \in Words, head + 4 \in Words
  PROVE  /\ WriteRun(m, head, size) \in [Words -> Int]
         /\ RunHeader(WriteRun(m, head, size), head, size)
         /\ \A w \in Words : w # head - 4 /\ w # head + 4 => WriteRun(m, head, size)[w] = m[w]
<1>1. head - 4 # head + 4 /\ B8_D \in Int /\ FB_D \in Int
  BY TextFacts DEF B8_D, FB_D
<1> HIDE DEF B8_D, FB_D
<1>2. CASE size > 8
  BY <1>1, <1>2 DEF WriteRun, RunHeader
<1>3. CASE size = 8
  BY <1>1, <1>3 DEF WriteRun, RunHeader
<1> QED
  BY <1>2, <1>3

(* The state of the sweep at a block. *)
SweptTo(s, marked) ==
  /\ s \in Sweeping
  /\ Running(s.b, s.head, marked)
  /\ Written(s.m, s.b, s.last, marked)

(* The words in front of the sweep are as Mark left them, so that it sees  *)
(* each block's mark and size, and the sentinel.                           *)
LEMMA SweepSees ==
  ASSUME MemInv, client = "Oberon", NEW marked, marked \subseteq DOMAIN arr,
         NEW s, SweptTo(s, marked)
  PROVE  /\ s.b = heapEnd => Tag(s.m, s.b) = ZB_D
         /\ s.b \in All => /\ Tag(s.m, s.b) = mem[s.b-4] /\ Tag(s.m, s.b) # ZB_D
                           /\ Marked(s.m, s.b) <=> s.b \in marked
                           /\ BlockSize(s.m, s.b) = BSize(s.b)
<1> DEFINE b == s.b
           m == s.m
<1>1. /\ b \in All \cup {heapEnd} /\ \A w \in Words : w >= b - 4 => m[w] = Marks(marked)[w]
      /\ \A w \in Words : w \in Nat
  BY Places DEF SweptTo, Running, Written
<1>2. ASSUME b = heapEnd PROVE Tag(m, b) = ZB_D
  <2>1. b - 4 \in Words /\ b - 4 >= heapEnd - 4 /\ b - 4 >= b - 4
    <3>1. b \in Nat /\ b % 8 = 0 /\ b <= MaxHeapEnd /\ Anchor < b /\ MaxHeapEnd \in Nat
          /\ Anchor \in Nat /\ Anchor = HeapStart + 4 /\ HeapStart \in Nat
      BY <1>2, LinkTypes, Places DEF MemInv
    <3>2. b - 4 \in Nat /\ (b - 4) % 4 = 0 /\ HeapStart <= b - 4 /\ b - 4 <= MaxHeapEnd
      <4> HIDE DEF b
      <4> QED
        BY <3>1
    <3> QED
      BY <1>2, <3>1, <3>2, Places
  <2>2. m[b-4] = mem[b-4] /\ mem[b-4] = ZB_D
    BY <1>1, <1>2, <2>1, MarkedWords DEF MemInv, Ends
  <2> QED
    BY TextFacts, <2>2 DEF Tag, ZB_D
<1>3. ASSUME b \in All
      PROVE  /\ Tag(m, b) = mem[b-4] /\ Tag(m, b) # ZB_D
             /\ Marked(m, b) <=> b \in marked
             /\ BlockSize(m, b) = BSize(b)
  <2>1. b - 4 \in Words /\ b - 4 >= b - 4 /\ b \in Nat
    BY <1>3, Tiles, BlockWords DEF All
  <2>2. m[b-4] = Marks(marked)[b-4]
    BY <1>1, <2>1
  <2>3. Tag(m, b) = Tag(Marks(marked), b) /\ (Marked(m, b) <=> Marked(Marks(marked), b))
    BY <2>2 DEF Tag, Marked
  <2>4. Tag(m, b) = mem[b-4] /\ (Marked(m, b) <=> b \in marked)
    BY <1>3, <2>3, MarkedWords
  <2>5. ASSUME NEW w \in Words, InBlock(w, b, BSize(b)), w # b - 4 PROVE m[w] = mem[w]
    <3>1. w >= b - 4
      BY <2>5 DEF InBlock
    <3>2. Marks(marked)[w] = mem[w]
      BY <1>3, <2>5, MarkedWords
    <3> QED
      BY <1>1, <3>1, <3>2
  <2>6. BlockSize(m, b) = BSize(b) /\ Tag(m, b) # ZB_D
    <3> HIDE DEF b, m
    <3> QED
      BY <1>3, <2>4, <2>5, SkipperSize
  <2> QED
    BY <2>4, <2>6
<1> QED
  BY <1>2, <1>3

(* Every step of the sweep passes one block and keeps what is known of the *)
(* blocks passed; at the sentinel it stops.                                *)
LEMMA SweepPasses ==
  ASSUME MemInv, client = "Oberon", NEW marked, marked \subseteq DOMAIN arr,
         NEW s, SweptTo(s, marked)
  PROVE  /\ SweptTo(SweepBlock(s), marked)
         /\ s.b = heapEnd => SweepBlock(s) = s
         /\ s.b # heapEnd => s.b \in All /\ SweepBlock(s).b = s.b + BSize(s.b)
<1> DEFINE b == s.b
           m == s.m
           head == s.head
           last == s.last
           next == b + BlockSize(m, b)
           r == SweepBlock(s)
           nh == IF head = NoHead THEN b ELSE head
<1>1. /\ s \in Sweeping /\ b \in All \cup {heapEnd} /\ m \in [Words -> Int] /\ b \in Words
      /\ head \in Words \cup {NoHead} /\ last \in Words
      /\ Running(b, head, marked) /\ Written(m, b, last, marked)
      /\ s = [m |-> m, b |-> b, head |-> head, last |-> last]
  <2>1. s \in Sweeping /\ Running(b, head, marked) /\ Written(m, b, last, marked)
    BY DEF SweptTo
  <2>2. b \in All \cup {heapEnd}
    BY <2>1 DEF Running
  <2> QED
    BY <2>1, <2>2 DEF Sweeping
<1>2. CASE b = heapEnd
  <2>1. r = s
    BY <1>2, SweepSees DEF SweepBlock
  <2> QED
    BY <1>2, <2>1
<1>3. CASE b # heapEnd
  <2>1. /\ b \in All /\ Tag(m, b) = mem[b-4] /\ Tag(m, b) # ZB_D /\ (Marked(m, b) <=> b \in marked)
        /\ BlockSize(m, b) = BSize(b) /\ next = b + BSize(b)
    BY <1>1, <1>3, SweepSees
  <2>2. next \in All \cup {heapEnd} /\ next \in Words /\ next % 8 = 0 /\ next \in Nat
    <3>1. next \in All \cup {heapEnd}
      BY <2>1, NextBlock
    <3> HIDE DEF next
    <3> QED
      BY <3>1, JoinedFacts
  <2>3. /\ b \in Nat /\ b % 8 = 0 /\ b - 4 \in Words /\ BSize(b) \in Nat /\ BSize(b) >= 8 /\ First <= b
        /\ b + 8 <= next /\ b # NoHead
    <3>1. /\ b \in Nat /\ b % 8 = 0 /\ b - 4 \in Words /\ BSize(b) \in Nat /\ BSize(b) >= 8 /\ First <= b
      BY <2>1, Tiles, BlockWords DEF All
    <3> DEFINE sb == BSize(b)
    <3>2. sb \in Nat /\ sb >= 8 /\ next = b + sb
      BY <2>1, <3>1
    <3> HIDE DEF sb, next
    <3>3. b + 8 <= next /\ b # NoHead
      BY <3>1, <3>2, Places DEF NoHead
    <3> QED
      BY <3>1, <3>3
  <2>4. CASE b \notin marked
    <3>1. r = [m |-> m, b |-> next, head |-> nh, last |-> last]
      <4>1. r = [s EXCEPT !.b = next, !.head = nh]
        <5>1. ~ Marked(m, b)
          BY <2>1, <2>4
        <5> QED
          BY <2>1, <5>1 DEF SweepBlock
      <4> HIDE DEF next, nh, r, b, m, head, last
      <4> QED
        BY <1>1, <4>1
    <3>2. Running(next, nh, marked) /\ Joined(next, marked) = Joined(b, marked)
      <4> HIDE DEF b, head
      <4> QED
        BY <1>1, <2>1, <2>4, RunsPassUnmarked
    <3>3. Written(m, next, last, marked)
      <4> HIDE DEF b, m, last
      <4>1. Joined(b + BSize(b), marked) = Joined(b, marked)
        BY <2>1, <3>2
      <4>2. Written(m, b + BSize(b), last, marked)
        BY <1>1, <2>1, <2>4, <4>1, WrittenPass
      <4> QED
        BY <2>1, <4>2
    <3> HIDE DEF next, nh, r, b, m, head, last
    <3>4. nh \in Words \cup {NoHead}
      BY <1>1 DEF nh
    <3>5. r \in Sweeping /\ r.b = next /\ r.head = nh /\ r.m = m /\ r.last = last
      BY <1>1, <2>2, <3>1, <3>4 DEF Sweeping
    <3>6. SweptTo(r, marked)
      BY <3>2, <3>3, <3>5 DEF SweptTo
    <3> QED
      BY <1>3, <2>1, <3>5, <3>6 DEF r, b
  <2>5. CASE b \in marked /\ head = NoHead
    <3> DEFINE m2 == [m EXCEPT ![b-4] = Tag(m, b)]
    <3>1. r = [m |-> m2, b |-> next, head |-> head, last |-> last]
      <4>1. r = [s EXCEPT !.b = next, !.m = m2]
        <5>1. Marked(m, b)
          BY <2>1, <2>5
        <5> QED
          BY <2>1, <2>5, <5>1 DEF SweepBlock, Unmark
      <4> HIDE DEF next, r, b, m, head, last, m2
      <4> QED
        BY <1>1, <4>1
    <3>2. Running(next, head, marked) /\ Joined(next, marked) = Joined(b, marked)
      <4> HIDE DEF b, head
      <4> QED
        BY <1>1, <2>1, <2>5, RunsPassMarked
    <3>3. m2 \in [Words -> Int] /\ m2[b-4] = mem[b-4] /\ \A w \in Words : w # b - 4 => m2[w] = m[w]
      <4>1. mem[b-4] \in Int
        BY <2>3 DEF MemInv, MemTypes
      <4> HIDE DEF b, m
      <4> QED
        BY <1>1, <2>1, <2>3, <4>1
    <3>4. Written(m2, next, last, marked)
      <4> HIDE DEF b, m, last, m2
      <4>1. Joined(b + BSize(b), marked) = Joined(b, marked)
        BY <2>1, <3>2
      <4>2. Written(m2, b + BSize(b), last, marked)
        BY <1>1, <2>1, <2>5, <3>3, <4>1, WrittenPass
      <4> QED
        BY <2>1, <4>2
    <3> HIDE DEF next, r, b, m, head, last, m2
    <3>5. r \in Sweeping /\ r.b = next /\ r.head = head /\ r.m = m2 /\ r.last = last
      BY <1>1, <2>2, <3>1, <3>3 DEF Sweeping
    <3>6. SweptTo(r, marked)
      BY <3>2, <3>4, <3>5 DEF SweptTo
    <3> QED
      BY <1>3, <2>1, <3>5, <3>6 DEF r, b
  <2>6. CASE b \in marked /\ head # NoHead
    <3> DEFINE size == b - head
               m1 == [m EXCEPT ![b-4] = Tag(m, b)]
               mr == WriteRun(m1, head, size)
               m2 == [mr EXCEPT ![last] = head]
               C == Joined(b, marked)
    <3>1. r = [m |-> m2, b |-> next, head |-> NoHead, last |-> head]
      <4>1. Marked(m, b)
        BY <2>1, <2>6
      <4> QED
        BY <2>1, <2>6, <4>1 DEF SweepBlock, Unmark
    <3>2. Running(next, NoHead, marked) /\ RunEnd(head, marked) = b /\ Joined(next, marked) = C \cup {head}
          /\ head \in Heads(marked)
      <4>1. head \in Heads(marked)
        BY <1>1, <2>6 DEF Running
      <4> HIDE DEF b, head
      <4> QED
        BY <1>1, <2>1, <2>6, <4>1, RunsPassMarked
    <3>3. /\ head \in All /\ head \in Nat /\ head % 8 = 0 /\ head + 8 <= b /\ head \in Words
          /\ head - 4 \in Words /\ head + 4 \in Words
      <4> HIDE DEF b, head
      <4>1. head \in All /\ head \in Nat /\ head % 8 = 0 /\ head + 8 <= b
        BY <3>2, RunFacts
      <4> QED
        BY <4>1, Tiles, BlockWords DEF All
    <3>4. last \in C \cup {Anchor} /\ last \in Nat /\ last % 8 = 0 /\ last < head
      <4> HIDE DEF b, head, last, m
      <4>1. last \in C \cup {Anchor}
        BY <1>1 DEF Written
      <4>2. CASE last = Anchor
        <5>1. First <= head
          BY <3>3, Tiles DEF All
        <5> QED
          BY <3>3, <4>1, <4>2, <5>1, Places
      <4>3. CASE last \in C
        <5>1. last \in Nat /\ last % 8 = 0 /\ last \in Heads(marked) /\ RunEnd(last, marked) < b
              /\ RunEnd(last, marked) \in Nat /\ last + 8 <= RunEnd(last, marked)
          BY <1>1, <4>3, JoinedFacts
        <5>2. RunEnd(last, marked) < head
          BY <3>2, <5>1, RunsApart
        <5> DEFINE q == RunEnd(last, marked)
        <5>3. q \in Nat /\ last + 8 <= q /\ q < head
          BY <5>1, <5>2
        <5> HIDE DEF q
        <5>4. last < head
          BY <3>3, <5>1, <5>3
        <5> QED
          BY <4>1, <5>1, <5>4
      <4> QED
        BY <4>1, <4>2, <4>3
    <3> HIDE DEF next, r, b, m, head, last
    <3>5. m1 \in [Words -> Int] /\ m1[b-4] = mem[b-4] /\ \A w \in Words : w # b - 4 => m1[w] = m[w]
      <4>1. mem[b-4] \in Int
        BY <2>3 DEF MemInv, MemTypes
      <4> QED
        BY <1>1, <2>1, <2>3, <4>1
    <3>6. size \in Nat /\ size >= 8 /\ size % 8 = 0 /\ size = b - head
      BY <2>3, <3>3
    <3> HIDE DEF m1, size
    <3>7. /\ mr \in [Words -> Int] /\ RunHeader(mr, head, size)
          /\ \A w \in Words : w # head - 4 /\ w # head + 4 => mr[w] = m1[w]
      BY <3>3, <3>5, <3>6, RunWritten
    <3> HIDE DEF mr
    <3>8. m2 \in [Words -> Int] /\ m2[last] = head /\ \A w \in Words : w # last => m2[w] = mr[w]
      BY <1>1, <3>3, <3>7
    <3> HIDE DEF m2
    <3>9. RunHeader(m2, head, size)
      <4>1. head - 4 # last /\ head + 4 # last
        BY <3>3, <3>4
      <4> QED
        BY <3>3, <3>7, <3>8, <4>1 DEF RunHeader
    <3>10. \A w \in Words : w # head - 4 /\ w # head + 4 /\ w # last /\ w # b - 4 => m2[w] = m[w]
      BY <3>5, <3>7, <3>8
    <3>11. /\ \A x \in Words : x % 8 = 0 /\ x >= b => Linked8([m2 EXCEPT ![head] = x], C \cup {head}, x)
           /\ \A h \in C \cup {head} : RunHeader(m2, h, RunEnd(h, marked) - h)
           /\ \A c \in marked, w \in Words : c < b /\ InBlock(w, c, BSize(c)) => m2[w] = mem[w]
           /\ m2[HeapStart] = AB_D
      <4>1. Spared(m, m2, b, head, last)
        <5> SUFFICES ASSUME NEW w \in Words
                     PROVE  w < b - 4 /\ w # head - 4 /\ w # last /\ w # head /\ w # head + 4 => m2[w] = m[w]
          BY DEF Spared
        <5>1. w \in Nat
          BY Places
        <5>2. w < b - 4 => w # b - 4
          BY <2>3, <5>1
        <5> QED
          BY <3>10, <5>2
      <4>2. RunHeader(m2, head, b - head)
        BY <3>6, <3>9
      <4>3. /\ b \in All \cup {heapEnd} /\ Written(m, b, last, marked) /\ head \in Heads(marked)
            /\ RunEnd(head, marked) = b /\ m2 \in [Words -> Int] /\ m2[last] = head
        BY <1>1, <3>2, <3>8
      <4>4. RunIn(m2, b, head, marked)
        BY <4>1, <4>2, <4>3, WrittenRun
      <4> QED
        BY <4>4 DEF RunIn
    <3>12. \A w \in Words : w >= b - 4 /\ w # b - 4 /\ w # head + 4 => m2[w] = m[w]
      <4> SUFFICES ASSUME NEW w \in Words, w >= b - 4, w # b - 4, w # head + 4 PROVE m2[w] = m[w]
        OBVIOUS
      <4>1. w \in Nat
        BY Places
      <4>2. w # head - 4 /\ w # last
        BY <2>3, <3>3, <3>4, <4>1
      <4> QED
        BY <3>10, <4>2
    <3>13. \A w \in Words : w >= b - 4 /\ w # b - 4 => w # head + 4
      <4> SUFFICES ASSUME NEW w \in Words, w >= b - 4, w = head + 4 PROVE w = b - 4
        OBVIOUS
      <4> QED
        BY <2>3, <3>3
    <3>14. Written(m2, next, head, marked)
      <4>1. Linked8([m2 EXCEPT ![head] = next], C \cup {head}, next)
        <5>1. next >= b
          BY <2>2, <2>3
        <5> QED
          BY <2>2, <3>11, <5>1
      <4>2. ASSUME NEW w \in Words, w >= next - 4 PROVE m2[w] = Marks(marked)[w]
        <5>1. w \in Nat
          BY Places
        <5>2. w >= b - 4 /\ w # b - 4
          BY <2>2, <2>3, <4>2, <5>1
        <5>3. m[w] = Marks(marked)[w]
          BY <1>1, <5>2 DEF Written
        <5> QED
          BY <3>12, <3>13, <5>2, <5>3
      <4>3. ASSUME NEW c \in marked, NEW w \in Words, c < next, InBlock(w, c, BSize(c)) PROVE m2[w] = mem[w]
        <5>1. c \in All /\ c \in Nat /\ w \in Nat
          BY Tiles, Places DEF All
        <5>2. c <= b
          <6>1. b < c => next <= c
            BY <2>1, <5>1, NextBlock
          <6> QED
            BY <2>2, <2>3, <4>3, <5>1, <6>1
        <5>3. CASE c < b
          BY <3>11, <4>3, <5>3
        <5>4. CASE c = b
          <6>1. CASE w = b - 4
            <7>1. b - 4 # last
              BY <2>3, <3>4
            <7>2. b - 4 # head - 4
              BY <2>3, <3>3
            <7>3. b - 4 # head + 4 \/ size = 8
              BY <2>3, <3>3, <3>6
            <7>4. CASE b - 4 # head + 4
              BY <2>3, <3>5, <3>7, <3>8, <6>1, <7>1, <7>2, <7>4
            <7>5. CASE size = 8
              <8>1. mr[b-4] = m1[b-4]
                <9>1. mr = [m1 EXCEPT ![head-4] = B8_D]
                  BY <7>5 DEF mr, WriteRun
                <9> QED
                  BY <2>3, <3>5, <7>2, <9>1
              <8> QED
                BY <2>3, <3>5, <3>8, <6>1, <7>1, <8>1
            <7> QED
              BY <7>3, <7>4, <7>5
          <6>2. CASE w # b - 4
            <7>1. w >= b - 4
              BY <4>3, <5>4 DEF InBlock
            <7>2. m[w] = Marks(marked)[w]
              BY <1>1, <7>1 DEF Written
            <7>3. Marks(marked)[w] = mem[w]
              BY <4>3, <5>1, <5>4, <6>2, MarkedWords
            <7> QED
              BY <3>12, <3>13, <6>2, <7>1, <7>2, <7>3
          <6> QED
            BY <6>1, <6>2
        <5> QED
          BY <2>3, <5>1, <5>2, <5>3, <5>4
      <4> QED
        BY <3>2, <3>8, <3>11, <4>1, <4>2, <4>3 DEF Written
    <3>15. r \in Sweeping /\ r.b = next /\ r.head = NoHead /\ r.m = m2 /\ r.last = head
      BY <2>2, <3>1, <3>3, <3>8 DEF Sweeping
    <3>16. SweptTo(r, marked)
      BY <3>2, <3>14, <3>15 DEF SweptTo
    <3> QED
      BY <1>3, <2>1, <3>15, <3>16 DEF r, b
  <2> QED
    BY <2>4, <2>5, <2>6
<1> QED
  BY <1>2, <1>3

(* The sweep comes to the sentinel. *)
SweepState(m) ==
  Loop([s \in Sweeping |-> SweepBlock(s)],
       [m |-> m, b |-> First, head |-> NoHead, last |-> Anchor])

(* So it arrives at the sentinel. *)
LEMMA SweepEnds ==
  ASSUME MemInv, client = "Oberon", NEW marked, marked \subseteq DOMAIN arr
  PROVE  SweptTo(SweepState(Marks(marked)), marked) /\ SweepState(Marks(marked)).b = heapEnd
<1> DEFINE F == [s \in Sweeping |-> SweepBlock(s)]
           x0 == [m |-> Marks(marked), b |-> First, head |-> NoHead, last |-> Anchor]
           I == {s \in Sweeping : SweptTo(s, marked)}
           V == [s \in Sweeping |-> Steps8(s.b, heapEnd)]
<1>1. x0 \in I
  <2>1. Running(First, NoHead, marked) /\ Written(Marks(marked), First, Anchor, marked)
    BY RunsStart, WrittenStart
  <2>2. First \in Words /\ Anchor \in Words /\ Marks(marked) \in [Words -> Int]
    <3>1. First \in All \cup {heapEnd}
      BY <2>1 DEF Running
    <3>2. First \in Words
      BY <3>1, JoinedFacts
    <3> QED
      BY <3>2, Places, MarkedWords
  <2>3. x0 \in Sweeping /\ x0.b = First /\ x0.head = NoHead /\ x0.m = Marks(marked) /\ x0.last = Anchor
    BY <2>2 DEF Sweeping
  <2> HIDE DEF x0
  <2> QED
    BY <2>1, <2>3 DEF SweptTo
<1>2. ASSUME NEW s \in I
      PROVE  /\ F[s] \in I /\ V[s] \in Nat /\ (F[s] = s \/ V[F[s]] < V[s])
             /\ F[s] = s => s.b = heapEnd
  <2>1. s \in Sweeping /\ SweptTo(s, marked) /\ F[s] = SweepBlock(s)
    OBVIOUS
  <2>2. s.b \in All \cup {heapEnd}
    BY <2>1 DEF SweptTo, Running
  <2>3. s.b \in Nat /\ s.b % 8 = 0 /\ s.b <= heapEnd /\ heapEnd \in Nat /\ heapEnd \in Words /\ heapEnd % 8 = 0
    <3>1. s.b \in Nat /\ s.b % 8 = 0 /\ s.b <= heapEnd
      BY <2>2, JoinedFacts
    <3>2. heapEnd \in Nat /\ heapEnd \in Words /\ heapEnd % 8 = 0
      BY LinkTypes DEF MemInv
    <3> QED
      BY <3>1, <3>2
  <2>4. /\ SweptTo(F[s], marked) /\ (s.b = heapEnd => F[s] = s)
        /\ s.b # heapEnd => s.b \in All /\ F[s].b = s.b + BSize(s.b)
    BY <2>1, SweepPasses
  <2>5. F[s] \in Sweeping
    BY <2>4 DEF SweptTo
  <2>6. V[s] = Steps8(s.b, heapEnd) /\ V[F[s]] = Steps8(F[s].b, heapEnd)
    <3> HIDE DEF F
    <3> QED
      BY <2>1, <2>5
  <2> HIDE DEF F, V
  <2>7. V[s] \in Nat
    BY <2>3, <2>6, StepsBound
  <2>8. CASE s.b = heapEnd
    BY <2>4, <2>5, <2>7, <2>8
  <2>9. CASE s.b # heapEnd
    <3>1. BSize(s.b) \in Nat /\ BSize(s.b) >= 8 /\ BSize(s.b) % 8 = 0 /\ s.b + BSize(s.b) <= heapEnd
      BY <2>4, <2>9, Tiles DEF All
    <3> DEFINE b == s.b
               sb == BSize(b)
               n == b + sb
    <3>2. /\ b \in Nat /\ b % 8 = 0 /\ sb \in Nat /\ sb >= 8 /\ sb % 8 = 0 /\ n <= heapEnd /\ n = b + sb
          /\ F[s].b = n
      BY <2>3, <2>4, <2>9, <3>1
    <3>3. V[s] = Steps8(b, heapEnd) /\ V[F[s]] = Steps8(n, heapEnd)
      BY <2>6, <3>2
    <3> HIDE DEF b, sb, n
    <3>4. n \in Nat /\ n % 8 = 0 /\ b < n
      BY <3>2
    <3>5. Steps8(n, heapEnd) < Steps8(b, heapEnd)
      BY <2>3, <3>2, <3>4, StepsDown
    <3>6. F[s] # s
      BY <3>2, <3>4 DEF b
    <3> QED
      BY <2>4, <2>5, <2>7, <3>3, <3>5, <3>6
  <2> QED
    BY <2>8, <2>9
<1>3. V[x0] <= MaxSteps /\ MaxSteps \in Nat
  <2>1. x0 \in Sweeping /\ x0.b = First
    BY <1>1
  <2>2. V[x0] = Steps8(First, heapEnd)
    <3> HIDE DEF x0
    <3> QED
      BY <2>1
  <2>3. First \in Nat /\ First <= heapEnd /\ heapEnd \in Words
    <3>1. First \in All \cup {heapEnd}
      BY RunsStart DEF Running
    <3> QED
      BY <3>1, JoinedFacts, LinkTypes DEF MemInv
  <2> HIDE DEF V, x0
  <2> QED
    BY <2>2, <2>3, StepsBound, Places
<1> DEFINE r == Loop(F, x0)
<1>4. r \in I /\ F[r] = r
  <2> HIDE DEF I, F, V, x0
  <2> QED
    BY <1>1, <1>2, <1>3, LoopEnds
<1>5. r.b = heapEnd
  <2> HIDE DEF I, F, V, r
  <2> QED
    BY <1>2, <1>4
<1>6. SweepState(Marks(marked)) = r
  BY DEF SweepState
<1> QED
  BY <1>4, <1>5, <1>6

(* The link behind the last run lies in no marked block. *)
LEMMA LastAside ==
  ASSUME MemInv, NEW marked, marked \subseteq DOMAIN arr, NEW b \in All \cup {heapEnd},
         NEW last \in Joined(b, marked) \cup {Anchor}, NEW c \in marked, NEW w \in Words,
         InBlock(w, c, BSize(c))
  PROVE  w # last
<1> SUFFICES ASSUME w = last PROVE FALSE
  OBVIOUS
<1>1. c \in All /\ w \in Int
  BY Places DEF All
<1>2. CASE last = Anchor
  <2>1. w >= HeapStart + 8
    BY <1>1, Apart DEF All
  <2> QED
    BY <1>2, <2>1, Places
<1>3. CASE last \in Joined(b, marked)
  <2> DEFINE sl == BSize(last)
  <2>1. last \in All /\ last \notin marked /\ last \in Nat
    BY <1>3, JoinedFacts
  <2>2. sl \in Nat /\ sl >= 8
    BY <2>1, Tiles DEF All
  <2> HIDE DEF sl
  <2>3. InBlock(w, last, sl)
    BY <2>1, <2>2 DEF InBlock
  <2>4. c = last
    BY <1>1, <2>1, <2>3, Apart DEF sl, All
  <2> QED
    BY <2>1, <2>4
<1> QED
  BY <1>2, <1>3

(* What the sweep leaves. *)
SweepDone(m, marked) ==
  /\ m \in [Words -> Int]
  /\ Linked8(m, Heads(marked), heapEnd)
  /\ \A h \in Heads(marked) : RunHeader(m, h, RunEnd(h, marked) - h)
  /\ Ends(m, heapEnd)
  /\ \A c \in marked, w \in Words : InBlock(w, c, BSize(c)) => m[w] = mem[w]

(* The sweep leaves the runs as the free list, the marked blocks without   *)
(* their marks and otherwise untouched, and the sentinel.                  *)
LEMMA SweepLeaves ==
  ASSUME MemInv, client = "Oberon", NEW marked, marked \subseteq DOMAIN arr
  PROVE  SweepDone(Sweep(Marks(marked)), marked)
<1> DEFINE e == heapEnd
           s == SweepState(Marks(marked))
           m == s.m
           last == s.last
           C == Joined(e, marked)
           res == Sweep(Marks(marked))
<1>1. /\ Running(e, s.head, marked) /\ Written(m, e, last, marked) /\ s.b = e
  BY SweepEnds DEF SweptTo
<1>2. /\ e \in Nat /\ e % 8 = 0 /\ e \in Words /\ e - 4 \in Words /\ First <= e
      /\ First = Anchor + 8 /\ Anchor \in Nat /\ Anchor = HeapStart + 4 /\ HeapStart \in Nat /\ HeapStart \in Words
      /\ Anchor % 8 = 0 /\ e \in All \cup {heapEnd} /\ Anchor \in Words
  <2>1. /\ e \in Nat /\ e % 8 = 0 /\ e \in Words /\ First <= e /\ e <= MaxHeapEnd /\ MaxHeapEnd \in Nat
        /\ First = Anchor + 8 /\ Anchor \in Nat /\ Anchor = HeapStart + 4 /\ HeapStart \in Nat /\ HeapStart \in Words
        /\ Anchor % 8 = 0 /\ e \in All \cup {heapEnd} /\ Anchor \in Words
    <3>1. heapEnd \in All \cup {heapEnd}
      OBVIOUS
    <3>2. e \in Nat /\ e % 8 = 0 /\ e \in Words /\ First <= e
      BY <3>1, JoinedFacts
    <3>3. e <= MaxHeapEnd
      BY <3>2, Places
    <3> QED
      BY <3>1, <3>2, <3>3, Places
  <2> HIDE DEF e
  <2>2. e - 4 \in Nat /\ (e - 4) % 4 = 0 /\ HeapStart <= e - 4 /\ e - 4 <= MaxHeapEnd
    BY <2>1
  <2>3. e - 4 \in Words
    BY <2>2, Places
  <2> QED
    BY <2>1, <2>3
<1>3. /\ m \in [Words -> Int] /\ last \in C \cup {Anchor} /\ Linked8([m EXCEPT ![last] = e], C, e)
      /\ \A h \in C : RunHeader(m, h, RunEnd(h, marked) - h)
      /\ \A c \in marked, w \in Words : c < e /\ InBlock(w, c, BSize(c)) => m[w] = mem[w]
      /\ m[HeapStart] = AB_D
  BY <1>1 DEF Written
<1>4. \A h \in C : /\ h \in Nat /\ h % 8 = 0 /\ h \in Words /\ h - 4 \in Words /\ h + 4 \in Words /\ h + 16 <= e
                   /\ h \in Heads(marked) /\ First <= h
  BY <1>2, JoinedFacts
<1>5. last \in Nat /\ last % 8 = 0 /\ last \in Words /\ last < e - 4
  BY <1>2, <1>3, <1>4
<1>6. \A c \in marked : c < e
  <2> TAKE c \in marked
  <2> DEFINE sc == BSize(c)
  <2>1. c \in Nat /\ sc \in Nat /\ sc >= 8 /\ c + sc <= e
    BY Tiles DEF All
  <2> HIDE DEF sc, e
  <2> QED
    BY <1>2, <2>1
<1>7. res = LET head == IF s.head = NoHead THEN s.b ELSE s.head
            IN  WriteSentinel([WriteRun(m, head, s.b - head) EXCEPT ![last] = head, ![head] = s.b], e)
  BY DEF Sweep, SweepState
<1> HIDE DEF res, m, last, C, e
<1>8. CASE s.head = NoHead
  <2> DEFINE m1 == [m EXCEPT ![e-4] = B8_D]
             m2 == [m1 EXCEPT ![last] = e, ![e] = e]
  <2>1. res = WriteSentinel(m2, e)
    <3>1. WriteRun(m, e, e - e) = m1
      <4>1. e - e = 0 /\ ~ (0 > 8)
        BY <1>2
      <4> QED
        BY <4>1 DEF WriteRun
    <3> QED
      BY <1>1, <1>7, <1>8, <3>1
  <2>2. m1 \in [Words -> Int] /\ \A w \in Words : w # e - 4 => m1[w] = m[w]
    <3>1. B8_D \in Int
      BY TextFacts DEF B8_D
    <3> HIDE DEF B8_D
    <3> QED
      BY <1>2, <1>3, <3>1
  <2> HIDE DEF m1
  <2>3. m2 \in [Words -> Int] /\ m2[last] = e /\ \A w \in Words : w # last /\ w # e => m2[w] = m1[w]
    BY <1>2, <1>5, <2>2
  <2> HIDE DEF m2
  <2>4. /\ res \in [Words -> Int] /\ res[e-4] = ZB_D /\ res[e] = 0
        /\ \A w \in Words : w # e - 4 /\ w # e => res[w] = m2[w]
    BY <1>2, <2>1, <2>3, SentinelWritten
  <2>5. res[last] = e /\ \A w \in Words : w # e - 4 /\ w # e /\ w # last => res[w] = m[w]
    <3>1. last # e - 4 /\ last # e
      BY <1>2, <1>5
    <3> QED
      BY <1>5, <2>2, <2>3, <2>4, <3>1
  <2>6. Linked8(res, C, e)
    <3> DEFINE x == [m EXCEPT ![last] = e]
    <3>1. x[last] = e /\ \A w \in Words : w # last => x[w] = m[w]
      BY <1>3, <1>5
    <3>2. Linked8(x, C, e)
      BY <1>3
    <3> HIDE DEF x
    <3>3. \A w \in C \cup {Anchor} : w \in Words /\ w < e /\ w # e - 4 /\ w # e
      BY <1>2, <1>4
    <3>4. \A w \in C \cup {Anchor} : w # last => res[w] = x[w]
      BY <2>5, <3>1, <3>3
    <3>5. \A w \in C \cup {Anchor} : w < e
      BY <3>3
    <3> QED
      BY <1>2, <1>3, <2>5, <3>1, <3>2, <3>4, <3>5, EndMoved
  <2>7. ASSUME NEW h \in C PROVE RunHeader(res, h, RunEnd(h, marked) - h)
    <3> DEFINE z == RunEnd(h, marked) - h
    <3>1. RunHeader(m, h, z) /\ h \in Nat /\ h % 8 = 0 /\ h - 4 \in Words /\ h + 4 \in Words /\ h + 16 <= e
      BY <1>3, <1>4
    <3> HIDE DEF z
    <3>2. h - 4 # e - 4 /\ h - 4 # e /\ h - 4 # last /\ h + 4 # e - 4 /\ h + 4 # e /\ h + 4 # last
      BY <1>2, <1>5, <3>1
    <3>3. res[h-4] = m[h-4] /\ res[h+4] = m[h+4]
      BY <2>5, <3>1, <3>2
    <3>4. RunHeader(res, h, z)
      BY <3>1, <3>3 DEF RunHeader
    <3> QED
      BY <3>4 DEF z
  <2>8. ASSUME NEW c \in marked, NEW w \in Words, InBlock(w, c, BSize(c)) PROVE res[w] = mem[w]
    <3>1. w < e - 4 /\ w \in Nat
      BY <2>8, Apart, Places DEF All, e
    <3>2. w # last
      BY <1>2, <1>3, <2>8, LastAside DEF C
    <3>3. w # e - 4 /\ w # e
      BY <1>2, <3>1
    <3>4. res[w] = m[w]
      BY <2>5, <3>2, <3>3
    <3> QED
      BY <1>3, <1>6, <2>8, <3>4
  <2>9. Ends(res, e)
    <3>1. HeapStart # e - 4 /\ HeapStart # e /\ HeapStart # last
      BY <1>2, <1>5
    <3>2. res[HeapStart] = AB_D
      BY <1>2, <1>3, <2>5, <3>1
    <3> QED
      BY <2>4, <3>2 DEF Ends
  <2>10. Heads(marked) = C
    <3> HIDE DEF s
    <3> QED
      BY <1>1, <1>8, RunsEnd DEF C, e
  <2> QED
    BY <2>4, <2>6, <2>7, <2>8, <2>9, <2>10 DEF SweepDone, e, res
<1>9. CASE s.head # NoHead
  <2> DEFINE head == s.head
             size == e - head
             mr == WriteRun(m, head, size)
             m2 == [mr EXCEPT ![last] = head, ![head] = e]
  <2>1. res = WriteSentinel(m2, e)
    BY <1>1, <1>7, <1>9
  <2>2. head \in Heads(marked) /\ RunEnd(head, marked) = e /\ Heads(marked) = C \cup {head}
    <3> HIDE DEF s
    <3> QED
      BY <1>1, <1>9, RunsEnd DEF C, e
  <2> HIDE DEF head
  <2>3. /\ head \in All /\ head \in Nat /\ head % 8 = 0 /\ head + 8 <= e /\ First <= head
        /\ head - 4 \in Words /\ head + 4 \in Words /\ head \in Words
    <3>1. head \in All /\ head \in Nat /\ head % 8 = 0 /\ head + 8 <= e
      BY <2>2, RunFacts
    <3> QED
      BY <3>1, Tiles, BlockWords DEF All
  <2>4. size \in Nat /\ size >= 8 /\ size % 8 = 0 /\ size = e - head
    BY <1>2, <2>3
  <2>5. last < head
    <3>1. CASE last = Anchor
      BY <1>2, <2>3, <3>1
    <3>2. CASE last \in C
      <4>1. last \in Heads(marked) /\ RunEnd(last, marked) < RunEnd(head, marked)
            /\ RunEnd(last, marked) \in Nat /\ last + 8 <= RunEnd(last, marked)
        BY <1>2, <2>2, <3>2, JoinedFacts DEF C
      <4>2. RunEnd(last, marked) < head
        BY <2>2, <4>1, RunsApart
      <4> DEFINE q == RunEnd(last, marked)
      <4>3. q \in Nat /\ last + 8 <= q /\ q < head
        BY <4>1, <4>2
      <4> HIDE DEF q
      <4> QED
        BY <1>5, <2>3, <4>3
    <3> QED
      BY <1>3, <3>1, <3>2
  <2> HIDE DEF size
  <2>6. /\ mr \in [Words -> Int] /\ RunHeader(mr, head, size)
        /\ \A w \in Words : w # head - 4 /\ w # head + 4 => mr[w] = m[w]
    BY <1>3, <2>3, <2>4, RunWritten
  <2> HIDE DEF mr
  <2>7. /\ m2 \in [Words -> Int] /\ m2[last] = head /\ m2[head] = e
        /\ \A w \in Words : w # last /\ w # head => m2[w] = mr[w]
    <3>1. last # head
      BY <1>5, <2>3, <2>5
    <3> QED
      BY <1>2, <1>5, <2>3, <2>6, <3>1
  <2> HIDE DEF m2
  <2>8. /\ res \in [Words -> Int] /\ res[e-4] = ZB_D /\ res[e] = 0
        /\ \A w \in Words : w # e - 4 /\ w # e => res[w] = m2[w]
    BY <1>2, <2>1, <2>7, SentinelWritten
  <2>9. res[last] = head /\ res[head] = e
    <3>1. last # e - 4 /\ last # e /\ head # e - 4 /\ head # e
      BY <1>2, <1>5, <2>3
    <3> QED
      BY <1>5, <2>3, <2>7, <2>8, <3>1
  <2>10. RunHeader(res, head, size)
    <3>1. /\ head - 4 # e - 4 /\ head - 4 # e /\ head - 4 # last /\ head - 4 # head
          /\ head + 4 # e /\ head + 4 # last /\ head + 4 # head
          /\ size # 8 => head + 4 # e - 4
      BY <1>2, <1>5, <2>3, <2>4
    <3>2. res[head-4] = mr[head-4] /\ (size # 8 => res[head+4] = mr[head+4])
      BY <2>3, <2>7, <2>8, <3>1
    <3> QED
      BY <2>6, <3>2 DEF RunHeader
  <2>11. Spared(m, res, e, head, last)
    <3> SUFFICES ASSUME NEW w \in Words, w < e - 4, w # head - 4, w # last, w # head, w # head + 4
                 PROVE  res[w] = m[w]
      BY DEF Spared
    <3>1. w # e - 4 /\ w # e
      <4>1. w \in Nat
        BY Places
      <4> QED
        BY <1>2, <4>1
    <3> QED
      BY <2>6, <2>7, <2>8, <3>1
  <2>12. RunIn(res, e, head, marked)
    <3>1. e \in All \cup {heapEnd} /\ Written(m, e, last, marked) /\ RunHeader(res, head, e - head)
      BY <1>1, <1>2, <2>4, <2>10
    <3> QED
      BY <2>2, <2>8, <2>9, <2>11, <3>1, WrittenRun
  <2>13. Linked8(res, C \cup {head}, e)
    <3>1. [res EXCEPT ![head] = e] = res
      BY <2>3, <2>8, <2>9
    <3>2. e % 8 = 0 /\ e >= e
      BY <1>2
    <3>3. Linked8([res EXCEPT ![head] = e], C \cup {head}, e)
      BY <1>2, <2>12, <3>2 DEF RunIn, C
    <3> QED
      BY <3>1, <3>3
  <2>14. \A h \in C \cup {head} : RunHeader(res, h, RunEnd(h, marked) - h)
    BY <2>12 DEF RunIn, C
  <2>15. \A c \in marked, w \in Words : InBlock(w, c, BSize(c)) => res[w] = mem[w]
    BY <1>6, <2>12 DEF RunIn
  <2>16. Ends(res, e)
    BY <2>8, <2>12 DEF RunIn, Ends
  <2> QED
    BY <2>2, <2>8, <2>13, <2>14, <2>15, <2>16 DEF SweepDone, e, res
<1> QED
  BY <1>8, <1>9

(* A collection joins the runs between the marked blocks. *)
LEMMA GCStep ==
  ASSUME MemInv, NEW marked \in SUBSET DOMAIN arr, GC(marked)
  PROVE  MemInv' /\ Tiled!Next
<1> DEFINE T == Heads(marked)
<1>1. /\ client = "Oberon" /\ mem' = Sweep(Marks(marked)) /\ arr' = Restrict(arr, marked)
      /\ heapEnd' = heapEnd /\ client' = client /\ marked \subseteq DOMAIN arr
  BY DEF GC, Marks
<1>2. SweepDone(mem', marked)
  BY <1>1, SweepLeaves
<1>3. /\ mem' \in [Words -> Int] /\ Linked8(mem', T, heapEnd) /\ Ends(mem', heapEnd)
      /\ \A h \in T : RunHeader(mem', h, RunEnd(h, marked) - h)
      /\ \A c \in marked, w \in Words : InBlock(w, c, BSize(c)) => mem'[w] = mem[w]
  BY <1>2 DEF SweepDone
<1>4. ASSUME NEW h \in T
      PROVE  /\ mem'[h-4] = B8_D \/ (mem'[h-4] = FB_D /\ mem'[h+4] \in Nat /\ mem'[h+4] > 8 /\ mem'[h+4] % 8 = 0)
             /\ FreeSize(mem', h) = RunEnd(h, marked) - h
  <2> DEFINE r == RunEnd(h, marked)
             z == r - h
  <2>1. h \in Nat /\ h % 8 = 0 /\ r \in Nat /\ r % 8 = 0 /\ h + 8 <= r
    BY <1>1, RunFacts
  <2>2. RunHeader(mem', h, z) /\ z = r - h
    BY <1>3
  <2> HIDE DEF r, z
  <2>3. z \in Nat /\ z >= 8 /\ z % 8 = 0
    BY <2>1, <2>2
  <2>4. /\ mem'[h-4] = B8_D \/ (mem'[h-4] = FB_D /\ mem'[h+4] \in Nat /\ mem'[h+4] > 8 /\ mem'[h+4] % 8 = 0)
        /\ FreeSize(mem', h) = z
    BY <2>2, <2>3, HeadWritten DEF RunHeader
  <2> QED
    BY <2>4 DEF r, z
<1>5. Headed(mem', T)
  BY <1>4 DEF Headed
<1>6. \A b \in marked : /\ b \in DOMAIN arr' /\ arr'[b] = arr[b] /\ Known(arr'[b], client)
                        /\ Intact(b)' /\ Footprint(b)' = Footprint(b)
  <2> TAKE b \in marked
  <2>1. b \in DOMAIN arr /\ b \in DOMAIN arr' /\ arr'[b] = arr[b] /\ BSize(b) = Footprint(b)
    BY <1>1, Tiles DEF Restrict
  <2>2. \A w \in Words : InBlock(w, b, Footprint(b)) => mem'[w] = mem[w]
    BY <1>3, <2>1
  <2>3. Intact(b)'
    BY <2>1, <2>2, IntactKept
  <2>4. Known(arr[b], client)
    BY <2>1 DEF MemInv, MemTypes
  <2> QED
    BY <2>1, <2>3, <2>4 DEF Footprint
<1>7. DOMAIN arr' = marked
  BY <1>1 DEF Restrict
<1>8. Tiled!Sweep(marked)
  <2>1. FreeBlocks' = [h \in T |-> FreeSize(mem', h)]
    BY <1>1, <1>3, NodesNext
  <2>2. FreeBlocks' = [h \in Tiled!Heads(marked) |-> Tiled!RunEnd(h, marked) - h]
    BY <1>4, <2>1 DEF Heads, RunEnd
  <2>3. UsedBlocks' = Tiled!Restrict(UsedBlocks, marked)
    BY <1>1, <1>6, <1>7 DEF UsedBlocks, Tiled!Restrict
  <2>4. marked \subseteq DOMAIN UsedBlocks
    BY <1>1 DEF UsedBlocks
  <2> QED
    BY <1>1, <2>2, <2>3, <2>4 DEF Tiled!Sweep
<1>9. Tiled!Next
  <2>1. marked \in SUBSET DOMAIN UsedBlocks
    BY DEF UsedBlocks
  <2> QED
    BY <1>8, <2>1 DEF Tiled!Next
<1>10. MemInv'
  <2>1. DOMAIN arr' \subseteq Nat /\ \A b \in DOMAIN arr' : Known(arr'[b], client) /\ Intact(b)'
    BY <1>1, <1>6, <1>7 DEF MemInv, MemTypes
  <2>2. Linked8(mem', T, heapEnd') /\ Ends(mem', heapEnd')
    BY <1>1, <1>3
  <2> QED
    BY <1>1, <1>3, <1>5, <1>9, <2>1, <2>2, Closing
<1> QED
  BY <1>9, <1>10

-----------------------------------------------------------------------------
(* The initial heap is one free block. *)
LEMMA InitMem ==
  ASSUME Init
  PROVE  MemInv /\ Tiled!Init
<1> DEFINE e == heapEnd
           m0 == [w \in Words |->
                    CASE w = HeapStart      -> AB_D
                      [] w = HeapStart + 4  -> First
                      [] w = HeapStart + 8  -> FB_D
                      [] w = HeapStart + 12 -> heapEnd
                      [] w = HeapStart + 16 -> heapEnd - HeapStart - 12
                      [] OTHER              -> 0]
           size == e - HeapStart - 12
<1>1. /\ e = HeapStart + InitialHeapSize - 4 /\ mem = WriteSentinel(m0, e) /\ arr = [b \in {} |-> 0]
      /\ client \in Clients
  BY DEF Init
<1>2. /\ HeapStart \in Nat /\ HeapStart % 8 = 4 /\ InitialHeapSize \in Nat /\ InitialHeapSize % 8 = 0
      /\ InitialHeapSize >= 32 /\ HeapStart + InitialHeapSize <= MaxHeapEnd /\ MaxHeapEnd \in Nat
      /\ Anchor = HeapStart + 4 /\ First = HeapStart + 12
  <2>1. MaxHeapEnd \in HeapStart + InitialHeapSize .. Text - 1
    BY HeapMemAssumption
  <2> QED
    BY <2>1, HeapMemAssumption, Places
<1> HIDE DEF e
<1>s. size = e - HeapStart - 12
  OBVIOUS
<1> HIDE DEF size
<1>3. /\ e \in Nat /\ e % 8 = 0 /\ size \in Nat /\ size >= 16 /\ size % 8 = 0 /\ First + size = e
      /\ First \in Nat /\ First % 8 = 0 /\ Anchor < First /\ First + 16 <= e
      /\ \A k \in {0, 4, 8, 12, 16} : HeapStart + k \in Words /\ HeapStart + k < e - 4
      /\ e - 4 \in Words /\ e \in Words
  <2>0. PICK hs \in Nat, is \in Nat : HeapStart = 8 * hs + 4 /\ InitialHeapSize = 8 * is
    <3>1. HeapStart = 8 * (HeapStart \div 8) + 4 /\ InitialHeapSize = 8 * (InitialHeapSize \div 8)
          /\ HeapStart \div 8 \in Nat /\ InitialHeapSize \div 8 \in Nat
      BY <1>2
    <3> QED
      BY <3>1
  <2>e. e = HeapStart + InitialHeapSize - 4
    BY <1>1
  <2>1. /\ e \in Nat /\ e = 8 * (hs + is) /\ size \in Nat /\ size = 8 * (is - 2) /\ is >= 4
        /\ First = 8 * (hs + 2) /\ Anchor = 8 * (hs + 1) /\ HeapStart = 8 * hs + 4
        /\ 8 * (hs + is) + 4 <= MaxHeapEnd /\ MaxHeapEnd \in Nat
    BY <1>2, <1>s, <2>0, <2>e
  <2>2. /\ e \in Nat /\ e % 8 = 0 /\ size \in Nat /\ size >= 16 /\ size % 8 = 0 /\ First + size = e
        /\ First \in Nat /\ First % 8 = 0 /\ Anchor < First /\ First + 16 <= e
    BY <2>0, <2>1
  <2>3. ASSUME NEW k \in {0, 4, 8, 12, 16} PROVE HeapStart + k \in Words /\ HeapStart + k < e - 4
    <3>1. PICK j \in 0 .. 4 : k = 4 * j
      <4>1. 0 = 4 * 0 /\ 4 = 4 * 1 /\ 8 = 4 * 2 /\ 12 = 4 * 3 /\ 16 = 4 * 4
        OBVIOUS
      <4> QED
        BY <4>1
    <3>2. HeapStart + k \in Nat /\ HeapStart + k = 4 * (2 * hs + 1 + j) /\ HeapStart <= HeapStart + k
          /\ HeapStart + k < e - 4 /\ HeapStart + k <= MaxHeapEnd
      BY <2>0, <2>1, <3>1
    <3>3. (HeapStart + k) % 4 = 0
      BY <2>0, <3>1, <3>2
    <3> QED
      BY <3>2, <3>3, Places
  <2>4. e - 4 \in Words /\ e \in Words
    <3>1. e - 4 \in Nat /\ HeapStart <= e - 4 /\ e - 4 <= MaxHeapEnd
          /\ HeapStart <= e /\ e <= MaxHeapEnd /\ e - 4 = 4 * (2 * (hs + is) - 1) /\ e = 4 * (2 * (hs + is))
      BY <2>0, <2>1
    <3>2. (e - 4) % 4 = 0 /\ e % 4 = 0
      BY <2>0, <3>1
    <3> QED
      BY <2>1, <3>1, <3>2, Places
  <2> QED
    BY <2>2, <2>3, <2>4
<1>4. /\ m0 \in [Words -> Int] /\ m0[HeapStart] = AB_D /\ m0[HeapStart+4] = First
      /\ m0[HeapStart+8] = FB_D /\ m0[HeapStart+12] = e /\ m0[HeapStart+16] = size
  <2>1. AB_D \in Int /\ FB_D \in Int
    BY TextFacts DEF AB_D, FB_D
  <2>2. HeapStart \in Words /\ HeapStart + 4 \in Words /\ HeapStart + 8 \in Words
        /\ HeapStart + 12 \in Words /\ HeapStart + 16 \in Words
    BY <1>2, <1>3
  <2>3. size = heapEnd - HeapStart - 12 /\ size \in Int /\ heapEnd \in Int /\ e = heapEnd /\ First \in Int
    BY <1>3, <1>s DEF e
  <2> HIDE DEF AB_D, FB_D
  <2>4. m0 \in [Words -> Int]
    <3> SUFFICES ASSUME NEW w \in Words PROVE m0[w] \in Int
      OBVIOUS
    <3>1. CASE w = HeapStart
      BY <1>2, <2>1, <2>3, <3>1
    <3>2. CASE w = HeapStart + 4
      BY <1>2, <2>1, <2>3, <3>2
    <3>3. CASE w = HeapStart + 8
      BY <1>2, <2>1, <2>3, <3>3
    <3>4. CASE w = HeapStart + 12
      BY <1>2, <2>1, <2>3, <3>4
    <3>5. CASE w = HeapStart + 16
      BY <1>2, <2>1, <2>3, <3>5
    <3>6. CASE w \notin {HeapStart, HeapStart + 4, HeapStart + 8, HeapStart + 12, HeapStart + 16}
      BY <1>2, <2>1, <2>3, <3>6
    <3> QED
      BY <3>1, <3>2, <3>3, <3>4, <3>5, <3>6
  <2> QED
    BY <1>2, <2>1, <2>2, <2>3, <2>4
<1> HIDE DEF m0
<1>5. /\ mem \in [Words -> Int] /\ mem[e-4] = ZB_D /\ mem[e] = 0
      /\ \A w \in Words : w # e - 4 /\ w # e => mem[w] = m0[w]
  BY <1>1, <1>3, <1>4, SentinelWritten
<1>6. /\ mem[HeapStart] = AB_D /\ mem[Anchor] = First /\ mem[First-4] = FB_D /\ mem[First] = e
      /\ mem[First+4] = size
  <2>1. \A k \in {0, 4, 8, 12, 16} : mem[HeapStart+k] = m0[HeapStart+k]
    <3> TAKE k \in {0, 4, 8, 12, 16}
    <3>1. HeapStart + k # e - 4 /\ HeapStart + k # e
      BY <1>2, <1>3
    <3> QED
      BY <1>3, <1>5, <3>1
  <2>2. HeapStart + 0 = HeapStart /\ First - 4 = HeapStart + 8 /\ First + 4 = HeapStart + 16
    BY <1>2
  <2> QED
    BY <1>2, <1>4, <2>1, <2>2
<1>7. Linked8(mem, {First}, e)
  <2>1. First \in Words
    BY <1>2, <1>3
  <2> QED
    BY <1>3, <1>6, <2>1 DEF Linked8
<1>8. Nodes = {First} /\ FreeBlocks = [b \in {First} |-> FreeSize(mem, b)]
  BY <1>7, NodesNow DEF e
<1>9. Headed(mem, {First}) /\ FreeSize(mem, First) = size
  <2>1. Headed(mem, {First})
    BY <1>3, <1>6 DEF Headed
  <2>2. FreeSize(mem, First) = size
    BY TextFacts, <1>6 DEF FreeSize, Tag, FB_D, B8_D
  <2> QED
    BY <2>1, <2>2
<1>10. MemTypes
  BY <1>1, <1>5 DEF MemTypes
<1>11. ContentsIntact
  BY <1>1 DEF ContentsIntact
<1>12. Tiled!Init
  <2>1. UsedBlocks = [b \in {} |-> 0]
    BY <1>1 DEF UsedBlocks
  <2>2. Tiled!First = First
    BY DEF Tiled!First, First
  <2>3. FreeBlocks = [b \in {First} |-> heapEnd - First]
    <3>1. size = heapEnd - First
      BY <1>2, <1>3 DEF e
    <3> QED
      BY <1>8, <1>9, <3>1
  <2> QED
    BY <1>1, <2>1, <2>2, <2>3 DEF Tiled!Init, e
<1>13. Tiled!HeapInv
  BY <1>12, Tiled!InitInv, TiledAssumption
<1> QED
  BY <1>5, <1>6, <1>7, <1>8, <1>9, <1>10, <1>11, <1>12, <1>13 DEF MemInv, Ends, e

-----------------------------------------------------------------------------
(* The heap grows by more than the 8 bytes that the new sentinel takes.    *)
Grown == \A change \in Changes : change \notin 1 .. 8

(* Every step of the words is a step of the blocks, or none of them sees   *)
(* it: a Halt, for a pointer that Free does not trust.                     *)
LEMMA StepMem ==
  ASSUME Grown, MemInv, [Next]_vars
  PROVE  MemInv' /\ [Tiled!Next]_(Tiled!vars)
<1>1. ASSUME NEW bytes \in Requests, AllocElem(bytes) PROVE MemInv' /\ Tiled!Next
  BY <1>1, AllocElemStep
<1>2. ASSUME NEW adr \in DOMAIN arr, FreeElem(adr)
      PROVE  MemInv' /\ [Tiled!Next]_(Tiled!vars)
  <2>1. CASE CorruptPointer(adr)
    BY <1>2, <2>1, Unchanged DEF FreeElem
  <2>2. CASE ~CorruptPointer(adr)
    BY <1>2, <2>2, FreeStep
  <2> QED
    BY <2>1, <2>2
<1>3. ASSUME NEW t \in DOMAIN TDesc, StaticNEW(t) PROVE MemInv' /\ Tiled!Next
  BY <1>3, StaticStep
<1>4. ASSUME NEW t \in DOMAIN TDesc, NEW lens \in Lengths, OpenNEW(t, lens)
      PROVE  MemInv' /\ Tiled!Next
  <2>1. lens \in Lens
    BY HeapMemAssumption DEF Lens
  <2> QED
    BY <1>4, <2>1, OpenStep
<1>5. ASSUME NEW bytes \in SystemRequests, SystemNEW(bytes) PROVE MemInv' /\ Tiled!Next
  BY <1>5, SystemStep
<1>6. ASSUME NEW marked \in SUBSET DOMAIN arr, GC(marked) PROVE MemInv' /\ Tiled!Next
  BY <1>6, GCStep
<1>7. ASSUME NEW change \in Changes, ChangeHeapSize(change) PROVE MemInv' /\ Tiled!Next
  <2>1. change \notin 1 .. 8
    BY DEF Grown
  <2>2. CASE IncreaseHeap(change)
    BY <2>1, <2>2, IncreaseStep
  <2>3. CASE DecreaseHeap(-change)
    BY <2>3, DecreaseStep
  <2> QED
    BY <1>7, <2>2, <2>3 DEF ChangeHeapSize
<1>8. ASSUME UNCHANGED vars PROVE MemInv' /\ [Tiled!Next]_(Tiled!vars)
  BY <1>8, Unchanged DEF vars
<1> QED
  BY <1>1, <1>2, <1>3, <1>4, <1>5, <1>6, <1>7, <1>8 DEF Next, StressTest

(* The invariant holds in every state. *)
LEMMA MemInvHolds ==
  ASSUME Grown
  PROVE  Spec => []MemInv
<1>1. Init => MemInv
  BY InitMem
<1>2. MemInv /\ [Next]_vars => MemInv'
  BY StepMem
<1> QED
  BY <1>1, <1>2, PTL DEF Spec

(* The memory of Storage.c implements the store of blocks: along list and  *)
(* tags every operation finds the blocks that Heap has, and leaves those   *)
(* that Heap's operation leaves.                                           *)
THEOREM MemImplements ==
  ASSUME Grown
  PROVE  Spec => ImplementsHeap
<1>1. Init => H!Init
  <2>1. Tiled!Init => H!Init
    BY DEF Tiled!Init, H!Init, Tiled!First, H!First
  <2> QED
    BY <2>1, InitMem
<1>2. MemInv /\ [Next]_vars => [H!Next]_(H!vars)
  <2>1. [Tiled!Next]_(Tiled!vars) => [H!Next]_(H!vars)
    <3>1. Tiled!vars = H!vars /\ (UNCHANGED Tiled!vars => UNCHANGED H!vars)
      BY DEF Tiled!vars, H!vars
    <3>2. Tiled!Next => H!Next
      BY DEF Tiled!Next, H!Next, Tiled!Alloc, H!Alloc, Tiled!AllocAt, H!AllocAt,
             Tiled!FirstFit, H!FirstFit, Tiled!FreeBlock, H!FreeBlock, Tiled!Sweep, H!Sweep,
             Tiled!ChangeHeapSize, H!ChangeHeapSize, Tiled!IncreaseHeap, H!IncreaseHeap,
             Tiled!DecreaseHeap, H!DecreaseHeap, Tiled!Align8, H!Align8, Tiled!Put, H!Put,
             Tiled!Drop, H!Drop, Tiled!Heads, H!Heads, Tiled!RunEnd, H!RunEnd,
             Tiled!RunEnds, H!RunEnds, Tiled!Unmarked, H!Unmarked,
             Tiled!Blocks, H!Blocks, Tiled!Size, H!Size, Tiled!Restrict, H!Restrict
    <3> QED
      BY <3>1, <3>2
  <2> QED
    BY <2>1, StepMem
<1> QED
  BY <1>1, <1>2, MemInvHolds, PTL DEF Spec, ImplementsHeap, H!Spec

(* No operation of the heap writes into a block in use.                    *)
THEOREM NothingOverwritten ==
  ASSUME Grown
  PROVE  Spec => []ContentsIntact
<1>1. MemInv => ContentsIntact
  BY DEF MemInv
<1> QED
  BY <1>1, MemInvHolds, PTL

(* The free list goes up from the anchor to the sentinel.                  *)
THEOREM FreeListOrdered ==
  ASSUME Grown
  PROVE  Spec => []ListOrdered
<1>1. ASSUME MemInv PROVE ListOrdered
  <2>1. mem[HeapStart] = AB_D /\ mem[heapEnd-4] = ZB_D /\ mem[heapEnd] = 0
    BY <1>1 DEF MemInv, Ends
  <2>2. /\ FreeList \in Seq(Nodes)
        /\ \A i, j \in 1 .. Len(FreeList) : i < j => FreeList[i] < FreeList[j]
    BY <1>1, ListOfNodes DEF MemInv, FreeList
  <2>3. ASSUME NEW i \in 1 .. Len(FreeList) - 1 PROVE FreeList[i] < FreeList[i+1]
    <3>1. i \in 1 .. Len(FreeList) /\ i + 1 \in 1 .. Len(FreeList) /\ i < i + 1
      BY <2>2, LenProperties
    <3> QED
      BY <2>2, <3>1
  <2> QED
    BY <2>1, <2>3 DEF ListOrdered
<1> QED
  BY <1>1, MemInvHolds, PTL

-----------------------------------------------------------------------------
(* What the walk by skippers finds at a block. *)
LEMMA EntryOf ==
  ASSUME MemInv, client = "Oberon", NEW b \in All
  PROVE  /\ Entry(b) \in Entries /\ Entry(b).adr = b /\ Entry(b).size = BSize(b)
         /\ Entry(b).free = (b \in Nodes) /\ Entry(b).marked = FALSE
         /\ BlockSize(mem, b) = BSize(b) /\ Tag(mem, b) # ZB_D
<1>1. mem[b-4] \in Nat /\ mem[b-4] % 2 = 0
  BY TagWords
<1>2. Tag(mem, b) = mem[b-4] /\ Marked(mem, b) = FALSE
  BY <1>1 DEF Tag, Marked
<1>3. BlockSize(mem, b) = BSize(b) /\ Tag(mem, b) # ZB_D
  BY <1>2, SkipperSize
<1>4. (Tag(mem, b) \in {FB_D, B8_D}) = (b \in Nodes)
  <2>1. CASE b \in Nodes
    BY <1>2, <2>1, TagWords
  <2>2. CASE b \in DOMAIN arr
    <3>1. b \notin Nodes
      BY <2>2, Tiles
    <3>2. mem[b-4] \in Words \/ mem[b-4] > SB_S
      BY <2>2, TagWords
    <3>3. mem[b-4] \in Words => mem[b-4] < AB_D
      BY Places
    <3>4. mem[b-4] \notin {FB_D, B8_D}
      BY TextFacts, <1>1, <3>2, <3>3 DEF FB_D, B8_D, AB_D, SB_S
    <3> QED
      BY <1>2, <3>1, <3>4
  <2> QED
    BY <2>1, <2>2 DEF All
<1>5. b \in Words /\ BSize(b) \in Nat
  BY Tiles DEF All
<1>6. Entry(b) = [adr |-> b, size |-> BSize(b), free |-> b \in Nodes, marked |-> FALSE]
  <2>1. Entry(b) = [adr |-> b, size |-> BlockSize(mem, b), free |-> Tag(mem, b) \in {FB_D, B8_D},
                    marked |-> Marked(mem, b)]
    BY DEF Entry
  <2> QED
    BY <1>2, <1>3, <1>4, <2>1, Zenon
<1>7. (b \in Nodes) \in BOOLEAN /\ FALSE \in BOOLEAN
  OBVIOUS
<1>8. [adr |-> b, size |-> BSize(b), free |-> b \in Nodes, marked |-> FALSE] \in Entries
  BY <1>5, <1>7 DEF Entries
<1> QED
  BY <1>3, <1>6, <1>8

(* The walk lists every block once it has passed it, and nothing else. *)
LEMMA WalkFinds ==
  ASSUME MemInv, client = "Oberon"
  PROVE  {Walk[i] : i \in 1 .. Len(Walk)} = {Entry(b) : b \in All} /\ Walk \in Seq(Entries)
<1> DEFINE e == heapEnd
           L == Seq(Entries) \X Words
           F == [s \in L |->
                   IF Tag(mem, s[2]) = ZB_D THEN s
                   ELSE <<Append(s[1], Entry(s[2])), s[2] + BlockSize(mem, s[2])>>]
           x0 == <<<<>>, First>>
           Met(l, b) == /\ l \in Seq(Entries) /\ b \in All \cup {e}
                        /\ \A i \in 1 .. Len(l) : \E x \in All : l[i] = Entry(x)
                        /\ \A x \in All : x < b => \E i \in 1 .. Len(l) : l[i] = Entry(x)
           I == {s \in L : Met(s[1], s[2])}
           V == [s \in L |-> Steps8(s[2], e)]
<1>1. /\ e \in Nat /\ e \in Words /\ e % 8 = 0 /\ First \in Nat /\ First % 8 = 0
      /\ \A b \in All : /\ b \in Nat /\ b \in Words /\ b % 8 = 0 /\ First <= b /\ BSize(b) \in Nat
                        /\ BSize(b) >= 8 /\ BSize(b) % 8 = 0 /\ b + BSize(b) <= e
  <2>1. e \in Nat /\ e \in Words /\ e % 8 = 0 /\ First \in Nat /\ First % 8 = 0
    BY LinkTypes, Places DEF MemInv, Linked8
  <2> QED
    BY <2>1, Tiles DEF All
<1>2. First \in All \cup {e} /\ First \in Words
  <2>1. First \in All \cup {e}
    BY RunsStart DEF Running
  <2> QED
    BY <1>1, <2>1
<1>3. Tag(mem, e) = ZB_D
  BY TextFacts DEF MemInv, Ends, Tag, ZB_D
<1>4. \A b \in All : /\ b # e /\ Tag(mem, b) # ZB_D /\ BlockSize(mem, b) = BSize(b) /\ Entry(b) \in Entries
                     /\ b + BSize(b) \in All \cup {e}
                     /\ \A c \in All : b < c => b + BSize(b) <= c
  <2> TAKE b \in All
  <2>1. b < e
    BY <1>1
  <2>2. Tag(mem, b) # ZB_D /\ BlockSize(mem, b) = BSize(b) /\ Entry(b) \in Entries
    BY EntryOf
  <2>3. b + BSize(b) \in All \cup {e} /\ \A c \in All : b < c => b + BSize(b) <= c
    BY NextBlock
  <2> QED
    BY <1>1, <2>1, <2>2, <2>3
<1>5. x0 \in I
  <2>1. <<>> \in Seq(Entries) /\ Len(<<>>) = 0 /\ 1 .. 0 = {}
    OBVIOUS
  <2>2. \A x \in All : ~ (x < First)
    BY <1>1
  <2>3. Met(<<>>, First)
    BY <1>2, <2>1, <2>2
  <2>4. x0 \in L
    BY <1>2, <2>1
  <2> HIDE DEF Met
  <2> QED
    BY <2>3, <2>4
<1>6. ASSUME NEW l \in Seq(Entries), NEW b \in All, Met(l, b)
      PROVE  Met(Append(l, Entry(b)), b + BSize(b))
  <2> DEFINE k == Append(l, Entry(b))
             next == b + BSize(b)
  <2>1. /\ k \in Seq(Entries) /\ Len(k) = Len(l) + 1 /\ Len(l) \in Nat
        /\ \A i \in 1 .. Len(l) : k[i] = l[i]
        /\ k[Len(l) + 1] = Entry(b)
    BY <1>4
  <2> HIDE DEF k
  <2>2. next \in All \cup {e} /\ next \in Nat /\ b \in Nat /\ next = b + BSize(b)
    BY <1>1, <1>4
  <2>3. \A x \in All : x < next => x <= b
    <3> SUFFICES ASSUME NEW x \in All, x < next, ~ (x <= b) PROVE FALSE
      OBVIOUS
    <3>1. x \in Nat /\ b < x
      BY <1>1, <2>2
    <3>2. next <= x
      BY <1>4, <3>1
    <3> HIDE DEF next
    <3> QED
      BY <2>2, <3>1, <3>2
  <2> HIDE DEF next
  <2>4. \A i \in 1 .. Len(k) : \E x \in All : k[i] = Entry(x)
    <3> TAKE i \in 1 .. Len(k)
    <3>1. CASE i = Len(l) + 1
      BY <2>1, <3>1
    <3>2. CASE i # Len(l) + 1
      <4>1. i \in 1 .. Len(l)
        BY <2>1, <3>2
      <4> QED
        BY <1>6, <2>1, <4>1
    <3> QED
      BY <3>1, <3>2
  <2>5. ASSUME NEW x \in All, x < next PROVE \E i \in 1 .. Len(k) : k[i] = Entry(x)
    <3>1. CASE x = b
      <4>1. Len(l) + 1 \in 1 .. Len(k)
        BY <2>1
      <4> QED
        BY <2>1, <3>1, <4>1
    <3>2. CASE x # b
      <4>1. x < b
        BY <1>1, <2>2, <2>3, <2>5, <3>2
      <4>2. PICK i \in 1 .. Len(l) : l[i] = Entry(x)
        BY <1>6, <4>1
      <4>3. i \in 1 .. Len(k) /\ k[i] = Entry(x)
        BY <2>1, <4>2
      <4> QED
        BY <4>3
    <3> QED
      BY <3>1, <3>2
  <2>6. Met(k, next)
    BY <2>1, <2>2, <2>4, <2>5
  <2> QED
    BY <2>6 DEF k, next
<1>7. \A l, b : Met(l, b) => l \in Seq(Entries) /\ b \in All \cup {e}
  OBVIOUS
<1>a. ASSUME NEW l, Met(l, e)
      PROVE  /\ \A i \in 1 .. Len(l) : \E x \in All : l[i] = Entry(x)
             /\ \A x \in All : \E i \in 1 .. Len(l) : l[i] = Entry(x)
  <2>1. \A x \in All : x < e
    BY <1>1
  <2> QED
    BY <1>a, <2>1
<1> HIDE DEF Met
<1>8. ASSUME NEW s \in I
      PROVE  F[s] \in I /\ V[s] \in Nat /\ (F[s] = s \/ V[F[s]] < V[s])
  <2>1. s \in L /\ Met(s[1], s[2]) /\ s[1] \in Seq(Entries) /\ s[2] \in All \cup {e}
    BY <1>7
  <2>2. s[2] \in Nat /\ s[2] <= e /\ s[2] \in Words
    <3>1. CASE s[2] = e
      BY <1>1, <3>1
    <3>2. CASE s[2] \in All
      BY <1>1, <3>2
    <3> QED
      BY <2>1, <3>1, <3>2
  <2>3. V[s] \in Nat
    BY <2>1, <2>2, <1>1, StepsBound
  <2>4. CASE s[2] = e
    BY <1>3, <2>1, <2>3, <2>4
  <2>5. CASE s[2] \in All
    <3> DEFINE next == s[2] + BSize(s[2])
    <3>1. F[s] = <<Append(s[1], Entry(s[2])), next>>
      BY <1>4, <2>1, <2>5
    <3>2. Met(Append(s[1], Entry(s[2])), next)
      BY <1>6, <2>1, <2>5
    <3>3. /\ next \in Nat /\ next % 8 = 0 /\ next <= e /\ s[2] < next /\ s[2] % 8 = 0 /\ next \in Words
      <4>1. next \in All \cup {e}
        BY <1>4, <2>5
      <4>2. s[2] \in Nat /\ BSize(s[2]) \in Nat /\ BSize(s[2]) >= 8 /\ s[2] % 8 = 0 /\ next <= e
        BY <1>1, <2>5
      <4>3. s[2] < next
        BY <4>2
      <4> HIDE DEF next
      <4> QED
        BY <1>1, <4>1, <4>2, <4>3
    <3> HIDE DEF next
    <3>4. <<Append(s[1], Entry(s[2])), next>> \in I
      <4>1. Append(s[1], Entry(s[2])) \in Seq(Entries)
        BY <1>7, <3>2
      <4> QED
        BY <3>2, <3>3, <4>1
    <3>5. Steps8(next, e) < Steps8(s[2], e)
      BY <1>1, <2>2, <3>3, StepsDown
    <3>6. F[s] \in I /\ F[s] \in L /\ F[s][2] = next
      <4> HIDE DEF F, Met
      <4> QED
        BY <3>1, <3>4
    <3>7. V[F[s]] = Steps8(next, e) /\ V[s] = Steps8(s[2], e)
      <4> HIDE DEF F
      <4> QED
        BY <2>1, <3>6
    <3> QED
      BY <2>3, <3>5, <3>6, <3>7
  <2> QED
    BY <2>1, <2>4, <2>5
<1>9. V[x0] <= MaxSteps /\ MaxSteps \in Nat
  <2>1. V[x0] = Steps8(First, e)
    BY <1>5
  <2>2. First <= e
    BY <1>1, <1>2
  <2> QED
    BY <2>1, <2>2, <1>1, StepsBound, Places
<1> DEFINE r == Loop(F, x0)
<1>10. r \in I /\ F[r] = r
  <2> HIDE DEF I, F, V, x0
  <2> QED
    BY <1>5, <1>8, <1>9, LoopEnds
<1>11. Walk = r[1]
  BY DEF Walk
<1> HIDE DEF r
<1>12. r \in L /\ Met(r[1], r[2]) /\ r[1] \in Seq(Entries) /\ r[2] \in All \cup {e}
  BY <1>7, <1>10
<1>13. r[2] = e
  <2> SUFFICES ASSUME r[2] # e PROVE FALSE
    OBVIOUS
  <2>1. r[2] \in All /\ Tag(mem, r[2]) # ZB_D
    BY <1>4, <1>12
  <2> DEFINE k == Append(r[1], Entry(r[2]))
  <2>2. r = <<k, r[2] + BlockSize(mem, r[2])>>
    BY <1>10, <1>12, <2>1
  <2>3. Len(k) = Len(r[1]) + 1 /\ Len(r[1]) \in Nat
    BY <1>4, <1>12, <2>1
  <2> HIDE DEF k
  <2>4. r[1] = <<k, r[2] + BlockSize(mem, r[2])>>[1]
    BY <2>2, Zenon
  <2>5. r[1] = k
    BY <2>4
  <2> QED
    BY <2>3, <2>5
<1>14. /\ \A i \in 1 .. Len(r[1]) : \E x \in All : r[1][i] = Entry(x)
       /\ \A x \in All : \E i \in 1 .. Len(r[1]) : r[1][i] = Entry(x)
  BY <1>a, <1>12, <1>13
<1>15. r[1] \in Seq(Entries)
  BY <1>12
<1> QED
  BY <1>11, <1>14, <1>15

(* DumpHeap and the sweep meet every block with its size, and no other, and *)
(* no mark is left.                                                        *)
THEOREM WalkSeesAll ==
  ASSUME Grown
  PROVE  Spec => []WalkComplete
<1>1. ASSUME MemInv PROVE WalkComplete
  <2> SUFFICES ASSUME client = "Oberon"
               PROVE  {<<b.adr, b.size, b.free, b.marked>> : b \in Range(Walk)}
                        = {<<b, FreeSize(mem, b), TRUE, FALSE>> : b \in Range(FreeList)}
                          \cup {<<b, Footprint(b), FALSE, FALSE>> : b \in DOMAIN arr}
    BY DEF WalkComplete
  <2>1. Range(Walk) = {Entry(b) : b \in All}
    <3>1. Range(Walk) = {Walk[i] : i \in 1 .. Len(Walk)}
      BY <1>1, WalkFinds, LenProperties DEF Range
    <3> QED
      BY <1>1, <3>1, WalkFinds
  <2> DEFINE line(x) == <<x.adr, x.size, x.free, x.marked>>
  <2>2. {line(x) : x \in Range(Walk)} = {line(Entry(b)) : b \in All}
    <3> HIDE DEF line
    <3> QED
      BY <2>1
  <2>3. \A b \in All : line(Entry(b)) = <<b, BSize(b), b \in Nodes, FALSE>>
    BY <1>1, EntryOf
  <2>4. \A b \in Nodes : line(Entry(b)) = <<b, FreeSize(mem, b), TRUE, FALSE>>
    <3> TAKE b \in Nodes
    <3>1. BSize(b) = FreeSize(mem, b) /\ (b \in Nodes) = TRUE /\ b \in All
      BY <1>1, Tiles DEF All
    <3> HIDE DEF line
    <3> QED
      BY <2>3, <3>1
  <2>5. \A b \in DOMAIN arr : line(Entry(b)) = <<b, Footprint(b), FALSE, FALSE>>
    <3> TAKE b \in DOMAIN arr
    <3>1. BSize(b) = Footprint(b) /\ (b \in Nodes) = FALSE /\ b \in All
      BY <1>1, Tiles DEF All
    <3> HIDE DEF line
    <3> QED
      BY <2>3, <3>1
  <2>6. {line(Entry(b)) : b \in All} = {line(Entry(b)) : b \in Nodes} \cup {line(Entry(b)) : b \in DOMAIN arr}
    BY DEF All
  <2>7. {line(x) : x \in Range(Walk)}
          = {<<b, FreeSize(mem, b), TRUE, FALSE>> : b \in Nodes}
            \cup {<<b, Footprint(b), FALSE, FALSE>> : b \in DOMAIN arr}
    <3> HIDE DEF line
    <3>1. {line(Entry(b)) : b \in Nodes} = {<<b, FreeSize(mem, b), TRUE, FALSE>> : b \in Nodes}
      BY <2>4
    <3>2. {line(Entry(b)) : b \in DOMAIN arr} = {<<b, Footprint(b), FALSE, FALSE>> : b \in DOMAIN arr}
      BY <2>5
    <3> QED
      BY <2>2, <2>6, <3>1, <3>2
  <2> QED
    BY <2>7 DEF Nodes, line
<1> QED
  BY <1>1, MemInvHolds, PTL

-----------------------------------------------------------------------------
(* The sum of a function's values, taken element by element. *)
One(s) == CHOOSE x \in s : TRUE
Summed(h, f, D) ==
  \A s \in D : h[s] = IF s = {} THEN 0 ELSE f[One(s)] + h[s \ {One(s)}]

(* The steps of the sum exist: each is defined from the sums of smaller    *)
(* sets.                                                                   *)
LEMMA SumSteps ==
  ASSUME NEW f, IsFiniteSet(DOMAIN f)
  PROVE  \E h : /\ h = [s \in SUBSET DOMAIN f |-> h[s]]
                /\ Summed(h, f, SUBSET DOMAIN f) /\ SumFunction(f) = h[DOMAIN f]
<1> DEFINE S == DOMAIN f
           Upto(n) == {s \in SUBSET S : Cardinality(s) <= n}
           N == {n \in Nat : \E h : h = [s \in Upto(n) |-> h[s]] /\ Summed(h, f, Upto(n))}
<1>1. \A s \in SUBSET S : /\ IsFiniteSet(s) /\ Cardinality(s) \in Nat /\ Cardinality(s) <= Cardinality(S)
                          /\ Cardinality(s) = 0 <=> s = {}
  BY FS_Subset, FS_CardinalityType, FS_EmptySet
<1>2. 0 \in N
  <2> DEFINE h == [s \in Upto(0) |-> 0]
  <2>1. \A s \in Upto(0) : s = {}
    BY <1>1
  <2>2. h = [s \in Upto(0) |-> h[s]] /\ Summed(h, f, Upto(0))
    BY <2>1 DEF Summed
  <2> QED
    BY <2>2
<1>3. ASSUME NEW n \in Nat, n \in N PROVE n + 1 \in N
  <2>1. PICK g : g = [s \in Upto(n) |-> g[s]] /\ Summed(g, f, Upto(n))
    BY <1>3
  <2> DEFINE h == [s \in Upto(n+1) |-> IF s = {} THEN 0 ELSE f[One(s)] + g[s \ {One(s)}]]
  <2>2. \A s \in Upto(n+1) : s # {} => s \ {One(s)} \in Upto(n)
    <3> SUFFICES ASSUME NEW s \in Upto(n+1), s # {} PROVE s \ {One(s)} \in Upto(n)
      OBVIOUS
    <3>1. One(s) \in s
      BY DEF One
    <3>2. Cardinality(s \ {One(s)}) = Cardinality(s) - 1
      BY <1>1, <3>1, FS_RemoveElement
    <3> QED
      BY <1>1, <3>2
  <2>3. \A s \in Upto(n) : s \in Upto(n+1) /\ h[s] = g[s]
    <3> TAKE s \in Upto(n)
    <3>1. s \in Upto(n+1)
      BY <1>1
    <3>2. g[s] = IF s = {} THEN 0 ELSE f[One(s)] + g[s \ {One(s)}]
      BY <2>1 DEF Summed
    <3> QED
      BY <3>1, <3>2
  <2>4. ASSUME NEW s \in Upto(n+1)
        PROVE  h[s] = IF s = {} THEN 0 ELSE f[One(s)] + h[s \ {One(s)}]
    <3>1. CASE s = {}
      BY <3>1
    <3>2. CASE s # {}
      <4>1. h[s \ {One(s)}] = g[s \ {One(s)}]
        BY <2>2, <2>3, <3>2
      <4>2. h[s] = f[One(s)] + g[s \ {One(s)}]
        BY <3>2
      <4> HIDE DEF h
      <4> QED
        BY <3>2, <4>1, <4>2
    <3> QED
      BY <3>1, <3>2
  <2>5. h = [s \in Upto(n+1) |-> h[s]]
    OBVIOUS
  <2> HIDE DEF h
  <2>6. Summed(h, f, Upto(n+1))
    BY <2>4 DEF Summed
  <2>7. n + 1 \in Nat
    OBVIOUS
  <2> HIDE DEF Upto
  <2> QED
    BY <2>5, <2>6, <2>7
<1>4. Cardinality(S) \in N
  <2> HIDE DEF N
  <2> QED
    BY <1>1, <1>2, <1>3, Induction
<1>5. Upto(Cardinality(S)) = SUBSET S
  BY <1>1
<1> DEFINE Sum(h) == h = [s \in SUBSET S |-> IF s = {} THEN 0 ELSE f[One(s)] + h[s \ {One(s)}]]
<1>6. PICK k : k = [s \in SUBSET S |-> k[s]] /\ Summed(k, f, SUBSET S)
  BY <1>4, <1>5
<1>7. Sum(k)
  <2>1. \A s \in SUBSET S : k[s] = IF s = {} THEN 0 ELSE f[One(s)] + k[s \ {One(s)}]
    BY <1>6 DEF Summed
  <2>2. [s \in SUBSET S |-> k[s]]
          = [s \in SUBSET S |-> IF s = {} THEN 0 ELSE f[One(s)] + k[s \ {One(s)}]]
    BY <2>1
  <2> QED
    BY <1>6, <2>2
<1> DEFINE h == CHOOSE g : Sum(g)
<1>8. Sum(h)
  BY <1>7
<1>9. SumFunction(f) = h[S]
  BY DEF SumFunction, SumFunctionOnSet, FoldFunctionOnSet, MapThenFoldSet, One
<1> HIDE DEF h
<1>10. Summed(h, f, SUBSET S) /\ h = [s \in SUBSET S |-> h[s]]
  BY <1>8 DEF Summed
<1> QED
  BY <1>9, <1>10

(* The numbers that the intervals at the members of s cover. *)
Bytes(f, s) == {x \in Nat : \E b \in s : b <= x /\ x < b + f[b]}

(* The intervals do not overlap. *)
Disjoint(f) ==
  /\ DOMAIN f \subseteq Nat /\ f \in [DOMAIN f -> Nat]
  /\ \A a, b \in DOMAIN f : a < b => a + f[a] <= b

(* One more interval adds its length. *)
LEMMA OneMore ==
  ASSUME NEW f, Disjoint(f), NEW s, s \subseteq DOMAIN f, NEW b \in DOMAIN f, b \notin s,
         IsFiniteSet(Bytes(f, s))
  PROVE  /\ IsFiniteSet(Bytes(f, s \cup {b}))
         /\ Cardinality(Bytes(f, s \cup {b})) = f[b] + Cardinality(Bytes(f, s))
<1> DEFINE I == b .. b + f[b] - 1
<1>1. b \in Nat /\ f[b] \in Nat /\ s \subseteq Nat /\ \A a \in s : a \in Nat /\ f[a] \in Nat
  BY DEF Disjoint
<1>2. IsFiniteSet(I) /\ Cardinality(I) = f[b]
  <2> DEFINE e == b + f[b] - 1
  <2>1. b \in Int /\ e \in Int
    BY <1>1
  <2>2. e = b + f[b] - 1
    OBVIOUS
  <2> HIDE DEF e
  <2>3. IsFiniteSet(b .. e) /\ Cardinality(b .. e) = IF b > e THEN 0 ELSE e - b + 1
    BY <2>1, FS_Interval
  <2>4. Cardinality(b .. e) = f[b]
    BY <1>1, <2>1, <2>2, <2>3
  <2> QED
    BY <2>3, <2>4 DEF e
<1>3. Bytes(f, s \cup {b}) = Bytes(f, s) \cup I
  <2>1. ASSUME NEW x \in Nat PROVE x \in I <=> b <= x /\ x < b + f[b]
    BY <1>1
  <2>2. I \subseteq Nat
    BY <1>1
  <2> HIDE DEF I
  <2> QED
    BY <2>1, <2>2 DEF Bytes
<1>4. Bytes(f, s) \cap I = {}
  <2> SUFFICES ASSUME NEW x \in Bytes(f, s), x \in I PROVE FALSE
    OBVIOUS
  <2>1. PICK a \in s : a <= x /\ x < a + f[a]
    BY DEF Bytes
  <2>2. x \in Nat /\ b <= x /\ x < b + f[b]
    BY <1>1
  <2>3. (a < b => a + f[a] <= b) /\ (b < a => b + f[b] <= a) /\ a # b
    BY <2>1 DEF Disjoint
  <2> QED
    BY <1>1, <2>1, <2>2, <2>3
<1>5. Cardinality({}) = 0 /\ Cardinality(Bytes(f, s)) \in Nat
  BY FS_EmptySet, FS_CardinalityType
<1> HIDE DEF I
<1>6. /\ IsFiniteSet(Bytes(f, s) \cup I)
      /\ Cardinality(Bytes(f, s) \cup I)
           = Cardinality(Bytes(f, s)) + Cardinality(I) - Cardinality(Bytes(f, s) \cap I)
  BY <1>2, FS_Union
<1>7. Cardinality(Bytes(f, s) \cap I) = 0
  BY <1>4, <1>5
<1>8. Cardinality(Bytes(f, s) \cup I) = f[b] + Cardinality(Bytes(f, s))
  BY <1>1, <1>2, <1>5, <1>6, <1>7
<1> QED
  BY <1>3, <1>6, <1>8

(* The sum of the lengths of intervals that do not overlap is the number of *)
(* the elements they have.                                                  *)
LEMMA SumOfBytes ==
  ASSUME NEW f, Disjoint(f), IsFiniteSet(DOMAIN f)
  PROVE  /\ IsFiniteSet(Bytes(f, DOMAIN f))
         /\ SumFunction(f) = Cardinality(Bytes(f, DOMAIN f))
<1> DEFINE S == DOMAIN f
<1>1. PICK h : Summed(h, f, SUBSET S) /\ SumFunction(f) = h[S]
  BY SumSteps
<1> DEFINE Good(s) == IsFiniteSet(Bytes(f, s)) /\ h[s] = Cardinality(Bytes(f, s))
           N == {n \in Nat : \A s \in SUBSET S : Cardinality(s) = n => Good(s)}
<1>2. \A s \in SUBSET S : IsFiniteSet(s) /\ Cardinality(s) \in Nat /\ (Cardinality(s) = 0 <=> s = {})
  BY FS_Subset, FS_CardinalityType, FS_EmptySet
<1>3. 0 \in N
  <2>1. Good({})
    <3>1. Bytes(f, {}) = {}
      BY DEF Bytes
    <3>2. h[{}] = 0
      BY <1>1 DEF Summed
    <3> QED
      BY <3>1, <3>2, FS_EmptySet
  <2> QED
    BY <1>2, <2>1
<1>4. ASSUME NEW n \in Nat, n \in N PROVE n + 1 \in N
  <2> SUFFICES ASSUME NEW s \in SUBSET S, Cardinality(s) = n + 1 PROVE Good(s)
    OBVIOUS
  <2> DEFINE b == One(s)
             t == s \ {b}
  <2>1. s # {}
    BY <1>2
  <2>2. b \in s
    BY <2>1 DEF One
  <2>3. t \in SUBSET S /\ Cardinality(t) = n /\ s = t \cup {b} /\ b \notin t /\ b \in S
    <3>1. IsFiniteSet(s)
      BY <1>2
    <3>2. Cardinality(t) = Cardinality(s) - 1
      BY <2>2, <3>1, FS_RemoveElement
    <3> QED
      BY <2>2, <3>2
  <2>4. h[s] = f[b] + h[t]
    BY <1>1, <2>1 DEF Summed
  <2>5. Good(t)
    BY <1>4, <2>3
  <2> HIDE DEF b, t
  <2>6. /\ IsFiniteSet(Bytes(f, t \cup {b}))
        /\ Cardinality(Bytes(f, t \cup {b})) = f[b] + Cardinality(Bytes(f, t))
    BY <2>3, <2>5, OneMore
  <2> QED
    BY <2>3, <2>4, <2>5, <2>6
<1>5. Cardinality(S) \in N
  <2> HIDE DEF N
  <2> QED
    BY <1>2, <1>3, <1>4, Induction
<1> QED
  BY <1>1, <1>5

(* The blocks as intervals. *)
LEMMA BlocksDisjoint ==
  ASSUME MemInv
  PROVE  /\ Disjoint(FreeBlocks) /\ DOMAIN FreeBlocks = Nodes
         /\ Disjoint(UsedBlocks) /\ DOMAIN UsedBlocks = DOMAIN arr /\ IsFiniteSet(DOMAIN arr)
         /\ \A b \in Nodes : FreeBlocks[b] = BSize(b) /\ FreeBlocks[b] = FreeSize(mem, b)
         /\ \A b \in DOMAIN arr : UsedBlocks[b] = BSize(b)
<1>1. /\ DOMAIN FreeBlocks = Nodes /\ DOMAIN UsedBlocks = DOMAIN arr
      /\ \A b \in Nodes : FreeBlocks[b] = BSize(b) /\ FreeBlocks[b] = FreeSize(mem, b)
      /\ \A b \in DOMAIN arr : UsedBlocks[b] = BSize(b)
  BY Tiles DEF FreeBlocks, UsedBlocks, Nodes
<1>2. /\ \A b \in All : b \in Nat /\ BSize(b) \in Nat /\ b \in Words
      /\ \A a, b \in All : a < b => a + BSize(a) <= b
  BY Tiles DEF All
<1>3. Disjoint(FreeBlocks)
  <2>1. FreeBlocks = [b \in Nodes |-> FreeBlocks[b]]
    BY <1>1 DEF FreeBlocks
  <2>2. FreeBlocks \in [Nodes -> Nat]
    BY <1>1, <1>2, <2>1 DEF All
  <2> QED
    BY <1>1, <1>2, <2>2 DEF Disjoint, All
<1>4. Disjoint(UsedBlocks)
  <2>1. UsedBlocks = [b \in DOMAIN arr |-> UsedBlocks[b]]
    BY <1>1 DEF UsedBlocks
  <2>2. UsedBlocks \in [DOMAIN arr -> Nat]
    BY <1>1, <1>2, <2>1 DEF All
  <2> QED
    BY <1>1, <1>2, <2>2 DEF Disjoint, All
<1>5. IsFiniteSet(DOMAIN arr)
  <2>1. DOMAIN arr \in SUBSET (0 .. MaxHeapEnd)
    BY <1>2, Places DEF All
  <2>2. IsFiniteSet(0 .. MaxHeapEnd)
    BY Places, FS_Interval
  <2> QED
    BY <2>1, <2>2, FS_Subset
<1> QED
  BY <1>1, <1>3, <1>4, <1>5

(* What GetInfo counts: the bytes of the free blocks, once each. *)
LEMMA InfoCounts ==
  ASSUME MemInv
  PROVE  /\ IsFiniteSet(Bytes(FreeBlocks, Nodes))
         /\ Counted.total = Cardinality(Bytes(FreeBlocks, Nodes)) /\ Counted.total \in Nat
         /\ Counted.max <= Counted.total /\ 8 * Counted.nof <= Counted.total
<1> DEFINE e == heapEnd
           L == [block : Words, total : Nat, max : Nat, nof : Nat]
           F == [s \in L |->
                   LET size == FreeSize(mem, s.block) IN
                   IF s.block = e THEN s
                   ELSE [block |-> mem[s.block],
                         total |-> s.total + size,
                         max   |-> IF size > s.max THEN size ELSE s.max,
                         nof   |-> s.nof + 1]]
           x0 == [block |-> mem[Anchor], total |-> 0, max |-> 0, nof |-> 0]
           Below(b) == Bytes(FreeBlocks, {x \in Nodes : x < b})
           Met(b, total, max, nof) ==
             /\ b \in Nodes \cup {e} /\ total \in Nat /\ max \in Nat /\ nof \in Nat
             /\ IsFiniteSet(Below(b)) /\ total = Cardinality(Below(b))
             /\ max <= total /\ 8 * nof <= total
           I == {s \in L : Met(s.block, s.total, s.max, s.nof)}
           V == [s \in L |-> Steps8(s.block, e)]
<1>1. /\ Nodes \subseteq Words /\ Nodes \subseteq Nat /\ e \in Words /\ e \in Nat /\ e % 8 = 0
      /\ \A b \in Nodes : b < e /\ b % 8 = 0
      /\ \A b \in Nodes : mem[b] \in Nodes \cup {e} /\ b < mem[b] /\ \A x \in Nodes : b < x => mem[b] <= x
  BY Places DEF MemInv, Linked8
<1>2. mem[Anchor] \in Nodes \cup {e} /\ \A x \in Nodes : mem[Anchor] <= x
  BY DEF MemInv, Linked8
<1>3. \A y \in Nodes \cup {e} : y \in Nat /\ y \in Words /\ y <= e /\ y % 8 = 0
  <2> TAKE y \in Nodes \cup {e}
  <2>1. CASE y \in Nodes
    <3>1. y < e
      BY <1>1, <2>1
    <3> QED
      BY <1>1, <2>1, <3>1
  <2>2. CASE y = e
    BY <1>1, <2>2
  <2> QED
    BY <2>1, <2>2
<1>4. x0 \in I
  <2>1. \A x \in Nodes : ~ (x < mem[Anchor])
    <3>1. mem[Anchor] \in Nat
      BY <1>2, <1>3
    <3>2. \A x \in Nodes : x \in Nat /\ mem[Anchor] <= x
      BY <1>1, <1>2
    <3> QED
      BY <3>1, <3>2
  <2>2. {x \in Nodes : x < mem[Anchor]} = {}
    BY <2>1
  <2>3. Below(mem[Anchor]) = {}
    BY <2>2 DEF Bytes
  <2>4. Met(mem[Anchor], 0, 0, 0)
    <3> HIDE DEF Below
    <3> QED
      BY <1>2, <2>3, FS_EmptySet
  <2>5. x0 \in L
    BY <1>2, <1>3
  <2> HIDE DEF Met
  <2> QED
    BY <2>4, <2>5
<1>5. \A b \in Nodes : FreeSize(mem, b) \in Nat /\ FreeSize(mem, b) >= 8 /\ FreeBlocks[b] = FreeSize(mem, b)
  BY Tiles, BlocksDisjoint
<1>6. ASSUME NEW b \in Nodes, NEW total, NEW max, NEW nof, Met(b, total, max, nof)
      PROVE  Met(mem[b], total + FreeSize(mem, b),
                 IF FreeSize(mem, b) > max THEN FreeSize(mem, b) ELSE max, nof + 1)
  <2> DEFINE size == FreeSize(mem, b)
  <2>1. {x \in Nodes : x < mem[b]} = {x \in Nodes : x < b} \cup {b}
    <3>1. b < mem[b] /\ mem[b] \in Nat
      BY <1>1, <1>3
    <3>2. ASSUME NEW x \in Nodes PROVE x < mem[b] <=> (x < b \/ x = b)
      BY <1>1, <3>1
    <3> QED
      BY <3>2
  <2>2. IsFiniteSet(Below(mem[b])) /\ Cardinality(Below(mem[b])) = FreeBlocks[b] + Cardinality(Below(b))
    <3> DEFINE s == {x \in Nodes : x < b}
    <3>1. s \subseteq DOMAIN FreeBlocks /\ b \in DOMAIN FreeBlocks /\ b \notin s /\ Disjoint(FreeBlocks)
      BY <1>1, BlocksDisjoint
    <3>2. IsFiniteSet(Bytes(FreeBlocks, s))
      BY <1>6
    <3> HIDE DEF s
    <3>3. /\ IsFiniteSet(Bytes(FreeBlocks, s \cup {b}))
          /\ Cardinality(Bytes(FreeBlocks, s \cup {b})) = FreeBlocks[b] + Cardinality(Bytes(FreeBlocks, s))
      BY <3>1, <3>2, OneMore
    <3> QED
      BY <2>1, <3>3 DEF s
  <2>3. size \in Nat /\ size >= 8 /\ FreeBlocks[b] = size /\ mem[b] \in Nodes \cup {e}
    BY <1>1, <1>5
  <2> HIDE DEF Below, size
  <2>4. total + size = Cardinality(Below(mem[b])) /\ total \in Nat /\ max \in Nat /\ nof \in Nat
        /\ max <= total /\ 8 * nof <= total
    BY <1>6, <2>2, <2>3
  <2>5. Met(mem[b], total + size, IF size > max THEN size ELSE max, nof + 1)
    BY <2>2, <2>3, <2>4
  <2> QED
    BY <2>5 DEF size
<1>7. \A b, t, m, n : Met(b, t, m, n) => b \in Nodes \cup {e} /\ t \in Nat /\ m \in Nat /\ n \in Nat
  OBVIOUS
<1>8. ASSUME NEW t, NEW m, NEW n, Met(e, t, m, n)
      PROVE  /\ IsFiniteSet(Bytes(FreeBlocks, Nodes)) /\ t = Cardinality(Bytes(FreeBlocks, Nodes))
             /\ t \in Nat /\ m <= t /\ 8 * n <= t
  <2>1. {x \in Nodes : x < e} = Nodes
    BY <1>1
  <2>2. Below(e) = Bytes(FreeBlocks, Nodes)
    BY <2>1
  <2> HIDE DEF Below
  <2> QED
    BY <1>8, <2>2
<1> HIDE DEF Met
<1>9. ASSUME NEW s \in I
      PROVE  F[s] \in I /\ V[s] \in Nat /\ (F[s] = s \/ V[F[s]] < V[s])
  <2>1. /\ s \in L /\ Met(s.block, s.total, s.max, s.nof) /\ s.block \in Nodes \cup {e}
        /\ s.total \in Nat /\ s.max \in Nat /\ s.nof \in Nat
    BY <1>7
  <2>2. s.block \in Nat /\ s.block <= e /\ s.block % 8 = 0
    BY <1>3, <2>1
  <2>3. V[s] \in Nat
    BY <2>1, <2>2, <1>1, StepsBound
  <2>4. CASE s.block = e
    BY <2>1, <2>3, <2>4
  <2>5. CASE s.block # e
    <3> DEFINE b == s.block
               size == FreeSize(mem, b)
               total == s.total + size
               max == IF size > s.max THEN size ELSE s.max
               nof == s.nof + 1
    <3>1. b \in Nodes
      BY <2>1, <2>5
    <3>2. F[s] = [block |-> mem[b], total |-> total, max |-> max, nof |-> nof]
      BY <2>1, <2>5
    <3>3. Met(mem[b], total, max, nof)
      BY <1>6, <2>1, <3>1
    <3>4. mem[b] \in Nat /\ mem[b] \in Words /\ mem[b] <= e /\ mem[b] % 8 = 0 /\ b < mem[b]
      BY <1>1, <1>3, <3>1
    <3>5. total \in Nat /\ max \in Nat /\ nof \in Nat
      BY <1>7, <3>3
    <3> HIDE DEF total, max, nof, F
    <3>6. F[s] \in L /\ F[s] \in I /\ F[s].block = mem[b]
      BY <3>2, <3>3, <3>4, <3>5
    <3>7. Steps8(mem[b], e) < Steps8(b, e)
      BY <1>1, <2>2, <3>4, StepsDown
    <3>8. V[F[s]] = Steps8(mem[b], e) /\ V[s] = Steps8(b, e)
      BY <2>1, <3>6
    <3> QED
      BY <2>3, <3>6, <3>7, <3>8
  <2> QED
    BY <2>4, <2>5
<1>10. V[x0] <= MaxSteps /\ MaxSteps \in Nat
  <2>1. V[x0] = Steps8(mem[Anchor], e)
    BY <1>4
  <2> QED
    BY <2>1, <1>1, <1>2, <1>3, StepsBound, Places
<1> DEFINE r == Loop(F, x0)
<1>11. r \in I /\ F[r] = r
  <2> HIDE DEF I, F, V, x0
  <2> QED
    BY <1>4, <1>9, <1>10, LoopEnds
<1>12. Counted = r
  BY DEF Counted
<1> HIDE DEF r
<1>13. r \in L /\ Met(r.block, r.total, r.max, r.nof) /\ r.block \in Nodes \cup {e}
  BY <1>7, <1>11
<1>14. r.block = e
  <2> SUFFICES ASSUME r.block # e PROVE FALSE
    OBVIOUS
  <2>1. r.block \in Nodes
    BY <1>13
  <2>2. F[r].block = mem[r.block]
    BY <1>13
  <2>3. mem[r.block] # r.block
    <3>1. r.block \in Nat /\ r.block < mem[r.block] /\ mem[r.block] \in Nodes \cup {e}
      BY <1>1, <2>1
    <3>2. mem[r.block] \in Nat
      BY <1>3, <3>1
    <3> QED
      BY <3>1, <3>2
  <2> QED
    BY <1>11, <2>2, <2>3
<1> QED
  BY <1>8, <1>12, <1>13, <1>14

(* GetInfo: what is not in use is free, and counted once.                  *)
THEOREM InfoExact ==
  ASSUME Grown
  PROVE  Spec => []InfoCorrect
<1>1. ASSUME MemInv PROVE InfoCorrect
  <2> DEFINE FB == Bytes(FreeBlocks, Nodes)
             UB == Bytes(UsedBlocks, DOMAIN arr)
             H0 == First .. heapEnd - 1
             fb == Cardinality(FB)
             ub == Cardinality(UB)
  <2>1. /\ IsFiniteSet(FB) /\ Counted.total = fb /\ Counted.total \in Nat
        /\ Counted.max <= Counted.total /\ 8 * Counted.nof <= Counted.total
    BY <1>1, InfoCounts
  <2>2. IsFiniteSet(UB) /\ SumFunction(UsedBlocks) = ub
    BY <1>1, BlocksDisjoint, SumOfBytes
  <2>3. /\ \A b \in All : b \in Nat /\ First <= b /\ BSize(b) \in Nat /\ b + BSize(b) <= heapEnd
        /\ \A a, b \in All : a < b => a + BSize(a) <= b
        /\ \A x \in First .. heapEnd - 1 : \E b \in All : b <= x /\ x < b + BSize(b)
        /\ Nodes \cap DOMAIN arr = {}
    BY <1>1, Tiles DEF All
  <2>4. heapEnd \in Nat /\ First \in Nat /\ First = HeapStart + 12 /\ HeapStart \in Nat
        /\ Anchor < heapEnd /\ heapEnd % 8 = 0 /\ Anchor = HeapStart + 4 /\ Anchor % 8 = 0
    BY <1>1, LinkTypes, Places DEF MemInv
  <2>5. FB = {x \in Nat : \E b \in Nodes : b <= x /\ x < b + BSize(b)}
    BY <1>1, BlocksDisjoint DEF Bytes
  <2>6. UB = {x \in Nat : \E b \in DOMAIN arr : b <= x /\ x < b + BSize(b)}
    BY <1>1, BlocksDisjoint DEF Bytes
  <2> HIDE DEF FB, UB
  <2>7. FB \cup UB = H0
    <3>1. ASSUME NEW x \in Nat, NEW b \in All, b <= x, x < b + BSize(b) PROVE x \in H0
      BY <2>3, <2>4, <3>1
    <3>2. FB \cup UB \subseteq H0
      BY <2>5, <2>6, <3>1 DEF All
    <3>3. ASSUME NEW x \in H0 PROVE x \in FB \cup UB
      <4>1. x \in Nat
        BY <2>4
      <4>2. PICK b \in All : b <= x /\ x < b + BSize(b)
        BY <2>3
      <4> QED
        BY <2>5, <2>6, <4>1, <4>2 DEF All
    <3> QED
      BY <3>2, <3>3
  <2>8. FB \cap UB = {}
    <3> SUFFICES ASSUME NEW x \in FB, x \in UB PROVE FALSE
      OBVIOUS
    <3>1. PICK a \in Nodes : x \in Nat /\ a <= x /\ x < a + BSize(a)
      BY <2>5
    <3>2. PICK b \in DOMAIN arr : b <= x /\ x < b + BSize(b)
      BY <2>6
    <3>3. a \in All /\ b \in All /\ a # b
      BY <2>3 DEF All
    <3>4. a \in Nat /\ b \in Nat /\ BSize(a) \in Nat /\ BSize(b) \in Nat
          /\ (a < b => a + BSize(a) <= b) /\ (b < a => b + BSize(b) <= a)
      BY <2>3, <3>3
    <3> QED
      BY <3>1, <3>2, <3>3, <3>4
  <2>9. Cardinality(H0) = heapEnd - First
    <3> DEFINE last == heapEnd - 1
    <3>1. last \in Int /\ First \in Int /\ last = heapEnd - 1
      BY <2>4
    <3> HIDE DEF last
    <3>2. Cardinality(First .. last) = IF First > last THEN 0 ELSE last - First + 1
      BY <3>1, FS_Interval
    <3>3. First <= heapEnd
      BY <2>4
    <3>4. Cardinality(First .. last) = heapEnd - First
      BY <2>4, <3>1, <3>2, <3>3
    <3> QED
      BY <3>4 DEF last
  <2>10. fb + ub = heapEnd - First /\ fb \in Nat /\ ub \in Nat
    <3>1. Cardinality(FB \cup UB) = fb + ub - Cardinality(FB \cap UB)
      BY <2>1, <2>2, FS_Union
    <3>2. Cardinality(FB \cap UB) = 0
      BY <2>8, FS_EmptySet
    <3>3. fb \in Nat /\ ub \in Nat
      BY <2>1, <2>2, FS_CardinalityType
    <3>4. Cardinality(FB \cup UB) = heapEnd - First
      BY <2>7, <2>9
    <3> HIDE DEF fb, ub
    <3> QED
      BY <2>4, <3>1, <3>2, <3>3, <3>4
  <2>11. SumFunction([b \in DOMAIN arr |-> Footprint(b)]) = ub
    BY <2>2 DEF UsedBlocks
  <2> HIDE DEF fb, ub
  <2>12. Counted.total = (heapEnd - HeapStart - 12) - ub
    BY <2>1, <2>4, <2>10
  <2> QED
    BY <2>1, <2>11, <2>12 DEF InfoCorrect, Info
<1> QED
  BY <1>1, MemInvHolds, PTL

=============================================================================

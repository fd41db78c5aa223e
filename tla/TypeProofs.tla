----------------------------- MODULE TypeProofs ------------------------------
(***************************************************************************)
(* For all types, scopes and numbers of elements: declarations lie apart,  *)
(* the skippers move by what NEW has allocated, and the tables made from   *)
(* block lists name the pointers of a heap block, of a module's globals    *)
(* and of a procedure's frame.                                             *)
(*                                                                         *)
(* Lists and types are trees, over which the model's functions recur: that *)
(* they exist is shown by induction on ListRank and on the depth of types  *)
(* (RecursionExists), and what they yield along their sequences.  A list   *)
(* spells offsets (CodeFixed), and the merging of rows in ConcatBlocklists *)
(* and BlocklistOfArrayType leaves what it spells as it is (ConcatOffsets, *)
(* ArrayOffsets); so the list of a type enumerates its pointers            *)
(* (TypeEnumerates), which the tables then repeat.                         *)
(***************************************************************************)
EXTENDS TypeInit, SequenceTheorems, WellFoundedInduction, TLAPS

-----------------------------------------------------------------------------
(* Induction over natural numbers and ranks, for sets. *)
(* Every set of natural numbers that has a member has a least one. *)
LEMMA LeastOf ==
  ASSUME NEW S \in SUBSET Nat, S # {}
  PROVE  \E m \in S : \A x \in S : m <= x
<1> DEFINE R == {ss \in Nat \X Nat : ss[1] < ss[2]}
<1>1. IsWellFoundedOn(R, Nat)
  BY NatLessThanWellFounded DEF OpToRel
<1>2. PICK m \in S : \A x \in S : ~ (<<x, m>> \in R)
  BY <1>1, WFMin
<1>3. \A x \in S : ~ (x < m)
  BY <1>2
<1> QED
  BY <1>3

(* Induction over the natural numbers, for a set. *)
LEMMA Induction ==
  ASSUME NEW S, 0 \in S, \A k \in Nat : k \in S => k + 1 \in S
  PROVE  Nat \subseteq S
<1> SUFFICES ASSUME ~ (Nat \subseteq S) PROVE FALSE
  OBVIOUS
<1>1. Nat \ S \in SUBSET Nat /\ Nat \ S # {}
  OBVIOUS
<1>2. PICK k \in Nat \ S : \A x \in Nat \ S : k <= x
  BY <1>1, LeastOf
<1>3. k \in Nat /\ k # 0
  BY <1>2
<1>4. k - 1 \in Nat /\ k - 1 \in S
  BY <1>2, <1>3
<1> QED
  BY <1>2, <1>4

(* Induction up to a bound. *)
LEMMA InductionUpto ==
  ASSUME NEW m \in Nat, NEW S, 0 \in S, \A k \in 0 .. m - 1 : k \in S => k + 1 \in S
  PROVE  0 .. m \subseteq S
<1> DEFINE T == {k \in Nat : k <= m => k \in S}
<1>1. 0 \in T
  OBVIOUS
<1>2. ASSUME NEW k \in Nat, k \in T PROVE k + 1 \in T
  BY <1>2
<1> HIDE DEF T
<1>3. Nat \subseteq T
  BY <1>1, <1>2, Induction
<1> QED
  BY <1>3 DEF T

(* Induction over what has a rank. *)
LEMMA RankInduction ==
  ASSUME NEW S, NEW rank \in [S -> Nat], NEW P,
         \A s \in S : (\A r \in S : rank[r] < rank[s] => r \in P) => s \in P
  PROVE  S \subseteq P
<1> DEFINE T == {k \in Nat : \A s \in S : rank[s] < k => s \in P}
<1>1. 0 \in T
  OBVIOUS
<1>2. ASSUME NEW k \in Nat, k \in T PROVE k + 1 \in T
  <2> SUFFICES ASSUME NEW s \in S, rank[s] < k + 1 PROVE s \in P
    OBVIOUS
  <2>1. ASSUME NEW r \in S, rank[r] < rank[s] PROVE r \in P
    BY <1>2, <2>1
  <2> QED
    BY <2>1
<1>3. Nat \subseteq T
  <2> HIDE DEF T
  <2> QED
    BY <1>1, <1>2, Induction
<1>4. ASSUME NEW s \in S PROVE s \in P
  <2>1. rank[s] + 1 \in T /\ rank[s] < rank[s] + 1
    BY <1>3
  <2> QED
    BY <2>1
<1> QED
  BY <1>4

(* A function on 0 .. m that is defined from the value before is there. *)
StepOn(G, m, V) == G \in [(1 .. m) \X V -> V]
IsUpto(f, m, V, x, G) ==
  /\ f \in [0 .. m -> V] /\ f[0] = x
  /\ \A i \in 1 .. m : f[i] = G[<<i, f[i - 1]>>]

LEMMA UptoExists ==
  ASSUME NEW m, m \in Nat, NEW V, NEW x, x \in V, NEW G, StepOn(G, m, V)
  PROVE  \E f : IsUpto(f, m, V, x, G)
<1> USE DEF StepOn
<1> DEFINE Is(f, k) == \A i \in 0 .. k : f[i] = IF i = 0 THEN x ELSE G[<<i, f[i - 1]>>]
           S == {k \in 0 .. m : \E f \in [0 .. k -> V] : Is(f, k)}
<1>1. 0 \in S
  <2> DEFINE f == [i \in 0 .. 0 |-> x]
  <2>1. f \in [0 .. 0 -> V] /\ Is(f, 0)
    OBVIOUS
  <2> HIDE DEF f, Is
  <2> QED
    BY <2>1
<1>2. ASSUME NEW k \in 0 .. m - 1, k \in S PROVE k + 1 \in S
  <2>1. PICK f \in [0 .. k -> V] : Is(f, k)
    BY <1>2
  <2> DEFINE g == [i \in 0 .. k + 1 |-> IF i = k + 1 THEN G[<<k + 1, f[k]>>] ELSE f[i]]
  <2>2. k + 1 \in 1 .. m /\ f[k] \in V
    OBVIOUS
  <2>3. g \in [0 .. k + 1 -> V]
    BY <2>2
  <2>4. ASSUME NEW i \in 0 .. k + 1 PROVE g[i] = IF i = 0 THEN x ELSE G[<<i, g[i - 1]>>]
    <3>1. CASE i = 0
      <4>1. 0 \in 0 .. k /\ 0 \in 0 .. k + 1 /\ 0 # k + 1
        OBVIOUS
      <4>2. g[0] = f[0]
        BY <4>1
      <4> HIDE DEF g
      <4> QED
        BY <2>1, <3>1, <4>1, <4>2
    <3>2. CASE i = k + 1
      <4>1. i # 0 /\ i - 1 = k /\ k \in 0 .. k + 1 /\ k # k + 1
        BY <3>2
      <4>2. g[i - 1] = f[k]
        BY <4>1
      <4>3. g[i] = G[<<k + 1, f[k]>>]
        BY <3>2
      <4> HIDE DEF g
      <4> QED
        BY <3>2, <4>1, <4>2, <4>3
    <3>3. CASE i # 0 /\ i # k + 1
      <4>1. i \in 0 .. k /\ i - 1 \in 0 .. k + 1 /\ i - 1 # k + 1
        BY <3>3
      <4>2. g[i] = f[i] /\ g[i - 1] = f[i - 1]
        BY <3>3, <4>1
      <4> HIDE DEF g
      <4> QED
        BY <2>1, <3>3, <4>1, <4>2
    <3> QED
      BY <3>1, <3>2, <3>3
  <2> HIDE DEF g
  <2>5. Is(g, k + 1)
    BY <2>4
  <2> HIDE DEF Is
  <2> QED
    BY <2>3, <2>5
<1>3. 0 .. m \subseteq S
  <2> HIDE DEF S
  <2> QED
    BY <1>1, <1>2, InductionUpto
<1>4. PICK f \in [0 .. m -> V] : Is(f, m)
  BY <1>3
<1>5. f[0] = x
  <2>1. 0 \in 0 .. m
    OBVIOUS
  <2> QED
    BY <1>4, <2>1
<1>6. ASSUME NEW i \in 1 .. m PROVE f[i] = G[<<i, f[i - 1]>>]
  <2>1. i \in 0 .. m /\ i # 0
    OBVIOUS
  <2> QED
    BY <1>4, <2>1
<1> QED
  BY <1>4, <1>5, <1>6 DEF IsUpto

(* A function that is defined from its values at what has a lower rank is  *)
(* there.                                                                  *)
Recursive(F, S, V, rank) ==
  /\ V # {} /\ rank \in [S -> Nat] /\ F \in [[S -> V] -> [S -> V]]
  /\ \A g, h \in [S -> V], s \in S :
       (\A r \in S : rank[r] < rank[s] => g[r] = h[r]) => F[g][s] = F[h][s]

LEMMA RecursionExists ==
  ASSUME NEW S, NEW V, NEW rank, NEW F, Recursive(F, S, V, rank)
  PROVE  \E f : f \in [S -> V] /\ f = F[f]
<1> USE DEF Recursive
<1> DEFINE W == [S -> V]
<1>1. PICK g0 \in W : TRUE
  <2>1. PICK v \in V : TRUE
    OBVIOUS
  <2>2. [s \in S |-> v] \in W
    OBVIOUS
  <2> QED
    BY <2>2
<1> DEFINE iter == CHOOSE it \in [Nat -> W] :
                     it[0] = g0 /\ \A k \in Nat : it[k + 1] = F[it[k]]
<1>2. iter \in [Nat -> W] /\ iter[0] = g0 /\ \A k \in Nat : iter[k + 1] = F[iter[k]]
  <2> DEFINE Is(f, k) == f \in [0 .. k -> W] /\ f[0] = g0 /\ \A i \in 1 .. k : f[i] = F[f[i - 1]]
             E == {k \in Nat : \E f : Is(f, k)}
             p(k) == CHOOSE f : Is(f, k)
             U == {k \in Nat : \A m \in Nat : k <= m => p(m)[k] = p(k)[k]}
  <2>1. ASSUME NEW k \in Nat PROVE Is(p(k), k)
    <3> DEFINE G == [z \in (1 .. k) \X W |-> F[z[2]]]
    <3>1. StepOn(G, k, W)
      BY DEF StepOn
    <3>2. PICK f \in [0 .. k -> W] : f[0] = g0 /\ \A i \in 1 .. k : f[i] = G[<<i, f[i - 1]>>]
      <4> HIDE DEF G, W
      <4>1. PICK f : IsUpto(f, k, W, g0, G)
        BY <3>1, UptoExists
      <4> QED
        BY <4>1 DEF IsUpto
    <3>3. ASSUME NEW i \in 1 .. k PROVE f[i] = F[f[i - 1]]
      <4>1. i \in 0 .. k /\ i # 0 /\ i - 1 \in 0 .. k /\ f[i - 1] \in W
        <5>1. i \in 0 .. k /\ i # 0 /\ i - 1 \in 0 .. k
          OBVIOUS
        <5> HIDE DEF W
        <5> QED
          BY <3>2, <5>1
      <4>2. f[i] = G[<<i, f[i - 1]>>]
        BY <3>2, <4>1
      <4>3. <<i, f[i - 1]>> \in (1 .. k) \X W
        BY <4>1
      <4>4. G[<<i, f[i - 1]>>] = F[f[i - 1]]
        BY <4>3
      <4> QED
        BY <4>2, <4>4
    <3>4. f[0] = g0
      BY <3>2
    <3> HIDE DEF G
    <3>5. Is(f, k)
      BY <3>2, <3>3, <3>4
    <3> HIDE DEF Is
    <3> QED
      BY <3>5
  <2>2. Nat \subseteq U
    <3>1. 0 \in U
      BY ZenonT(60), <2>1
    <3>2. ASSUME NEW k \in Nat, k \in U PROVE k + 1 \in U
      <4> HIDE DEF p, Is
      <4> SUFFICES ASSUME NEW m \in Nat, k + 1 <= m PROVE p(m)[k + 1] = p(k + 1)[k + 1]
        OBVIOUS
      <4>1. Is(p(m), m) /\ Is(p(k + 1), k + 1)
        BY <2>1
      <4>2. k + 1 \in 1 .. m /\ k + 1 \in 1 .. k + 1 /\ (k + 1) - 1 = k /\ k <= m /\ k <= k + 1
        OBVIOUS
      <4>3. p(m)[k + 1] = F[p(m)[k]] /\ p(k + 1)[k + 1] = F[p(k + 1)[k]]
        BY <4>1, <4>2 DEF Is
      <4>4. p(m)[k] = p(k)[k] /\ p(k + 1)[k] = p(k)[k]
        BY <3>2, <4>2
      <4> QED
        BY <4>3, <4>4
    <3> HIDE DEF U
    <3> QED
      BY <3>1, <3>2, Induction
  <2> DEFINE it == [k \in Nat |-> p(k)[k]]
  <2> HIDE DEF p
  <2>3. it \in [Nat -> W]
    <3> SUFFICES ASSUME NEW k \in Nat PROVE p(k)[k] \in W
      OBVIOUS
    <3>1. k \in 0 .. k
      OBVIOUS
    <3> QED
      BY <2>1, <3>1
  <2>4. it[0] = g0
    BY <2>1
  <2>5. ASSUME NEW k \in Nat PROVE it[k + 1] = F[it[k]]
    <3>1. k + 1 \in 1 .. k + 1 /\ (k + 1) - 1 = k /\ k <= k + 1 /\ k + 1 \in Nat
      OBVIOUS
    <3>2. p(k + 1)[k + 1] = F[p(k + 1)[k]]
      BY <2>1, <3>1
    <3>3. p(k + 1)[k] = p(k)[k]
      BY <2>2, <3>1
    <3> QED
      BY <3>1, <3>2, <3>3
  <2> HIDE DEF it, W
  <2> QED
    BY <2>3, <2>4, <2>5
<1> HIDE DEF iter
<1>3. \A k \in Nat : iter[k] \in W
  BY <1>2
<1> DEFINE T == {k \in Nat : \A s \in S : rank[s] < k => iter[k + 1][s] = iter[k][s]}
<1>4. Nat \subseteq T
  <2>1. 0 \in T
    OBVIOUS
  <2>2. ASSUME NEW k \in Nat, k \in T PROVE k + 1 \in T
    <3> SUFFICES ASSUME NEW s \in S, rank[s] < k + 1 PROVE iter[k + 1 + 1][s] = iter[k + 1][s]
      OBVIOUS
    <3>1. \A r \in S : rank[r] < rank[s] => iter[k + 1][r] = iter[k][r]
      BY <2>2
    <3>2. iter[k + 1 + 1] = F[iter[k + 1]] /\ iter[k + 1] = F[iter[k]]
      BY <1>2
    <3>3. iter[k + 1] \in W /\ iter[k] \in W
      BY <1>3
    <3> QED
      BY <3>1, <3>2, <3>3
  <2> HIDE DEF T
  <2> QED
    BY <2>1, <2>2, Induction
(* Once its rank is passed, a value stays. *)
<1>5. \A s \in S, j \in Nat : iter[rank[s] + 1 + j][s] = iter[rank[s] + 1][s]
  <2> TAKE s \in S
  <2> DEFINE J == {j \in Nat : iter[rank[s] + 1 + j][s] = iter[rank[s] + 1][s]}
  <2>1. 0 \in J
    OBVIOUS
  <2>2. ASSUME NEW j \in Nat, j \in J PROVE j + 1 \in J
    <3>1. rank[s] + 1 + j \in Nat /\ rank[s] < rank[s] + 1 + j
      OBVIOUS
    <3>2. iter[rank[s] + 1 + j + 1][s] = iter[rank[s] + 1 + j][s]
      BY <1>4, <3>1
    <3>3. rank[s] + 1 + j + 1 = rank[s] + 1 + (j + 1)
      <4> rank[s] \in Nat
        OBVIOUS
      <4> HIDE DEF J
      <4> QED
        OBVIOUS
    <3> QED
      BY <2>2, <3>2, <3>3
  <2>3. Nat \subseteq J
    <3> HIDE DEF J
    <3> QED
      BY <2>1, <2>2, Induction
  <2> QED
    BY <2>3
<1> DEFINE f == [s \in S |-> iter[rank[s] + 1][s]]
<1>6. f \in W
  <2> SUFFICES ASSUME NEW s \in S PROVE iter[rank[s] + 1][s] \in V
    OBVIOUS
  <2>1. iter[rank[s] + 1] \in W
    BY <1>3
  <2> QED
    BY <2>1
<1>7. ASSUME NEW s \in S PROVE f[s] = F[f][s]
  <2>1. \A r \in S : rank[r] < rank[s] => f[r] = iter[rank[s]][r]
    <3> SUFFICES ASSUME NEW r \in S, rank[r] < rank[s] PROVE iter[rank[r] + 1][r] = iter[rank[s]][r]
      OBVIOUS
    <3> DEFINE j == rank[s] - rank[r] - 1
    <3>1. j \in Nat /\ rank[r] + 1 + j = rank[s]
      OBVIOUS
    <3> HIDE DEF j
    <3> QED
      BY <1>5, <3>1
  <2>2. iter[rank[s]] \in W /\ iter[rank[s] + 1] = F[iter[rank[s]]]
    BY <1>2, <1>3
  <2>3. F[f][s] = F[iter[rank[s]]][s]
    <3> HIDE DEF f
    <3> QED
      BY <1>6, <2>1, <2>2
  <2> QED
    BY <2>2, <2>3
<1>8. f = F[f]
  <2>1. F[f] \in W
    BY <1>6
  <2> HIDE DEF f
  <2> QED
    BY <1>6, <1>7, <2>1
<1> QED
  BY <1>6, <1>8

-----------------------------------------------------------------------------
(* Sequences of sequences, put one after the other. *)
LEMMA FlattenIs ==
  ASSUME NEW X, NEW ss \in Seq(Seq(X))
  PROVE  \E f \in [0 .. Len(ss) -> Seq(X)] :
           /\ f[0] = << >> /\ \A i \in 1 .. Len(ss) : f[i] = f[i - 1] \o ss[i]
           /\ FlattenSeq(ss) = f[Len(ss)]
<1>0. PICK m \in Nat : m = Len(ss)
  OBVIOUS
<1> DEFINE G == [z \in (1 .. m) \X Seq(X) |-> z[2] \o ss[z[1]]]
<1>1. \A i \in 1 .. m : ss[i] \in Seq(X)
  BY <1>0
<1>2. PICK f \in [0 .. m -> Seq(X)] : f[0] = << >> /\ \A i \in 1 .. m : f[i] = f[i - 1] \o ss[i]
  <2>1. StepOn(G, m, Seq(X))
    BY <1>1 DEF StepOn
  <2>2. << >> \in Seq(X)
    OBVIOUS
  <2>3. ASSUME NEW i \in 1 .. m, NEW s \in Seq(X) PROVE G[<<i, s>>] = s \o ss[i]
    OBVIOUS
  <2> HIDE DEF G
  <2>4. PICK f : IsUpto(f, m, Seq(X), << >>, G)
    BY <1>1, <2>1, <2>2, UptoExists
  <2>5. ASSUME NEW i \in 1 .. m PROVE f[i] = f[i - 1] \o ss[i]
    <3>1. i - 1 \in 0 .. m
      BY <1>1
    <3> QED
      BY <2>3, <2>4, <3>1 DEF IsUpto
  <2> QED
    BY <2>4, <2>5 DEF IsUpto
<1> HIDE DEF G
<1>6. ASSUME NEW i \in 0 .. m - 1 PROVE i + 1 \in 1 .. m /\ f[i + 1] = f[i] \o ss[i + 1]
  <2>1. i + 1 \in 1 .. m /\ (i + 1) - 1 = i
    OBVIOUS
  <2> QED
    BY <1>2, <2>1
<1>7. m # 0 => f[1] = ss[1]
  <2> SUFFICES ASSUME m # 0 PROVE f[1] = ss[1]
    OBVIOUS
  <2>1. 0 \in 0 .. m - 1 /\ 1 \in 1 .. m
    OBVIOUS
  <2>2. f[0 + 1] = f[0] \o ss[0 + 1]
    BY <1>6, <2>1
  <2>3. f[0] = << >> /\ ss[1] \in Seq(X)
    BY <1>1, <1>2, <2>1
  <2> QED
    BY <2>2, <2>3
<1>3. CASE m = 0
  <2>1. ss = << >>
    BY <1>0, <1>3, EmptySeq
  <2> QED
    BY <1>0, <1>2, <1>3, <2>1 DEF FlattenSeq
<1>4. CASE m # 0
  <2> DEFINE fl == CHOOSE g : g = [i \in 1 .. m |-> IF i = 1 THEN ss[i] ELSE g[i - 1] \o ss[i]]
             h == [i \in 1 .. m |-> f[i]]
  <2>1. FlattenSeq(ss) = fl[m]
    BY <1>0, <1>4 DEF FlattenSeq
  <2>2. h = [i \in 1 .. m |-> IF i = 1 THEN ss[i] ELSE h[i - 1] \o ss[i]]
    <3> SUFFICES ASSUME NEW i \in 1 .. m PROVE f[i] = IF i = 1 THEN ss[i] ELSE h[i - 1] \o ss[i]
      OBVIOUS
    <3>1. CASE i = 1
      BY <1>4, <1>7, <3>1
    <3>2. CASE i # 1
      <4>1. i - 1 \in 1 .. m
        BY <1>1, <3>2
      <4> QED
        BY <1>2, <3>2, <4>1
    <3> QED
      BY <3>1, <3>2
  <2>3. fl = [i \in 1 .. m |-> IF i = 1 THEN ss[i] ELSE fl[i - 1] \o ss[i]]
    <3> HIDE DEF h
    <3> QED
      BY <2>2
  <2> HIDE DEF fl, h
  <2> DEFINE S == {i \in 0 .. m : i # 0 => fl[i] = f[i]}
  <2>4. 0 \in S
    BY <1>1
  <2>5. ASSUME NEW i \in 0 .. m - 1, i \in S PROVE i + 1 \in S
    <3> DEFINE i1 == i + 1
    <3>1. i1 \in 1 .. m /\ i1 \in 0 .. m /\ i1 # 0 /\ i1 - 1 = i /\ f[i1] = f[i] \o ss[i1]
      <4>1. i1 \in 0 .. m /\ i1 # 0 /\ i1 - 1 = i
        OBVIOUS
      <4> QED
        BY <1>6, <4>1
    <3> HIDE DEF i1
    <3>2. CASE i = 0
      BY <1>7, <2>3, <3>1, <3>2
    <3>3. CASE i # 0
      <4>1. fl[i] = f[i]
        BY <2>5, <3>3
      <4>2. fl[i1] = fl[i] \o ss[i1]
        <5>1. i1 # 1
          BY <3>1, <3>3
        <5>2. fl[i1] = fl[i1 - 1] \o ss[i1]
          BY <2>3, <3>1, <5>1
        <5> QED
          BY <3>1, <5>2
      <4>3. fl[i1] = f[i1]
        BY <3>1, <4>1, <4>2
      <4> QED
        BY <3>1, <4>3 DEF i1
    <3> QED
      BY <3>2, <3>3
  <2>6. m \in S
    <3> HIDE DEF S
    <3>1. 0 .. m \subseteq S
      BY <2>4, <2>5, InductionUpto
    <3> QED
      BY <3>1
  <2>7. FlattenSeq(ss) = f[m]
    BY <1>4, <2>1, <2>6
  <2> QED
    BY <1>0, <1>2, <2>7
<1> QED
  BY <1>3, <1>4

LEMMA FlattenTyped ==
  ASSUME NEW X, NEW ss \in Seq(Seq(X))
  PROVE  FlattenSeq(ss) \in Seq(X)
<1>1. PICK f \in [0 .. Len(ss) -> Seq(X)] : FlattenSeq(ss) = f[Len(ss)]
  BY FlattenIs
<1>2. Len(ss) \in 0 .. Len(ss)
  OBVIOUS
<1> QED
  BY <1>1, <1>2

LEMMA FlattenEmpty ==
  FlattenSeq(<< >>) = << >>
BY DEF FlattenSeq

LEMMA FlattenAppend ==
  ASSUME NEW X, NEW ss \in Seq(Seq(X)), NEW s \in Seq(X)
  PROVE  FlattenSeq(Append(ss, s)) = FlattenSeq(ss) \o s
<1>0. PICK m \in Nat : m = Len(ss)
  OBVIOUS
<1> DEFINE tt == Append(ss, s)
<1>1. tt \in Seq(Seq(X)) /\ Len(tt) = m + 1 /\ tt[m + 1] = s
      /\ \A i \in 1 .. m : tt[i] = ss[i]
  BY <1>0
<1> HIDE DEF tt
<1>2. PICK f \in [0 .. Len(ss) -> Seq(X)] :
        /\ f[0] = << >> /\ \A i \in 1 .. Len(ss) : f[i] = f[i - 1] \o ss[i]
        /\ FlattenSeq(ss) = f[Len(ss)]
  BY FlattenIs
<1>3. PICK g \in [0 .. Len(tt) -> Seq(X)] :
        /\ g[0] = << >> /\ \A i \in 1 .. Len(tt) : g[i] = g[i - 1] \o tt[i]
        /\ FlattenSeq(tt) = g[Len(tt)]
  BY <1>1, FlattenIs
<1> DEFINE S == {i \in 0 .. m : f[i] = g[i]}
<1>4. 0 \in S
  BY <1>1, <1>2, <1>3
<1>5. ASSUME NEW i \in 0 .. m - 1, i \in S PROVE i + 1 \in S
  <2>1. i + 1 \in 1 .. m /\ i + 1 \in 1 .. m + 1 /\ (i + 1) - 1 = i
    BY <1>1
  <2>2. f[i + 1] = f[i] \o ss[i + 1]
    BY <1>0, <1>2, <2>1
  <2>3. g[i + 1] = g[i] \o tt[i + 1] /\ tt[i + 1] = ss[i + 1]
    BY <1>1, <1>3, <2>1
  <2> QED
    <3>1. f[i] = g[i]
      BY <1>5
    <3>2. f[i + 1] = g[i + 1]
      BY <2>2, <2>3, <3>1
    <3> QED
      BY <2>1, <3>2
<1>6. m \in S
  <2> HIDE DEF S
  <2>1. 0 .. m \subseteq S
    BY <1>1, <1>4, <1>5, InductionUpto
  <2> QED
    BY <1>1, <2>1
<1>7. g[m + 1] = g[m] \o s
  <2>1. m + 1 \in 1 .. m + 1 /\ (m + 1) - 1 = m
    BY <1>1
  <2> QED
    BY <1>1, <1>3, <2>1
<1> QED
  BY <1>0, <1>1, <1>2, <1>3, <1>6, <1>7 DEF tt

LEMMA FlattenOne ==
  ASSUME NEW X, NEW s \in Seq(X)
  PROVE  FlattenSeq(<<s>>) = s
<1>1. << >> \in Seq(Seq(X)) /\ Append(<< >>, s) = <<s>> /\ << >> \o s = s
  OBVIOUS
<1> QED
  BY <1>1, FlattenAppend, FlattenEmpty

LEMMA FlattenConcat ==
  ASSUME NEW X, NEW ss \in Seq(Seq(X)), NEW tt \in Seq(Seq(X))
  PROVE  FlattenSeq(ss \o tt) = FlattenSeq(ss) \o FlattenSeq(tt)
<1>0. PICK m \in Nat : m = Len(tt)
  OBVIOUS
<1> DEFINE Y == Seq(X)
           S == {k \in 0 .. m :
                   FlattenSeq(ss \o SubSeq(tt, 1, k)) = FlattenSeq(ss) \o FlattenSeq(SubSeq(tt, 1, k))}
<1>a. ss \in Seq(Y) /\ tt \in Seq(Y) /\ FlattenSeq(ss) \in Seq(X)
  BY FlattenTyped
<1>1. 0 \in S
  <2>1. SubSeq(tt, 1, 0) = << >>
    BY <1>a
  <2>2. ss \o << >> = ss /\ FlattenSeq(ss) \o << >> = FlattenSeq(ss)
    BY <1>a, ConcatEmptySeq
  <2>3. FlattenSeq(ss \o SubSeq(tt, 1, 0)) = FlattenSeq(ss) \o FlattenSeq(SubSeq(tt, 1, 0))
    BY <2>1, <2>2, FlattenEmpty
  <2> QED
    BY <2>3
<1> HIDE DEF Y
<1>2. ASSUME NEW k \in 0 .. m - 1, k \in S PROVE k + 1 \in S
  <2>1. PICK u, x : u = SubSeq(tt, 1, k) /\ x = tt[k + 1]
    OBVIOUS
  <2>2. u \in Seq(Y) /\ x \in Y /\ SubSeq(tt, 1, k + 1) = Append(u, x)
    BY <1>0, <1>a, <2>1
  <2>3. ss \o Append(u, x) = Append(ss \o u, x) /\ ss \o u \in Seq(Y)
    BY <1>a, <2>2
  <2>4. FlattenSeq(Append(ss \o u, x)) = FlattenSeq(ss \o u) \o x
        /\ FlattenSeq(Append(u, x)) = FlattenSeq(u) \o x
        /\ FlattenSeq(u) \in Seq(X) /\ x \in Seq(X)
    BY <2>2, <2>3, FlattenAppend, FlattenTyped DEF Y
  <2>5. FlattenSeq(ss \o u) = FlattenSeq(ss) \o FlattenSeq(u)
    BY <1>2, <2>1
  <2>6. (FlattenSeq(ss) \o FlattenSeq(u)) \o x = FlattenSeq(ss) \o (FlattenSeq(u) \o x)
    BY <1>a, <2>4, ConcatAssociative
  <2>7. FlattenSeq(ss \o SubSeq(tt, 1, k + 1)) = FlattenSeq(ss) \o FlattenSeq(SubSeq(tt, 1, k + 1))
    BY <2>2, <2>3, <2>4, <2>5, <2>6
  <2> QED
    BY <2>7
<1>3. m \in S
  <2> HIDE DEF S
  <2>1. 0 .. m \subseteq S
    BY <1>1, <1>2, InductionUpto
  <2> QED
    BY <2>1
<1>4. SubSeq(tt, 1, m) = tt
  BY <1>0, <1>a
<1> QED
  BY <1>3, <1>4

-----------------------------------------------------------------------------
(* Offsets and rows of blocks. *)
LEMMA MovedIs ==
  ASSUME NEW s \in Seq(Int), NEW b \in Int
  PROVE  /\ Moved(s, b) \in Seq(Int) /\ Len(Moved(s, b)) = Len(s)
         /\ \A i \in 1 .. Len(s) : Moved(s, b)[i] = b + s[i]
BY SMTT(30) DEF Moved

LEMMA MovedEmpty ==
  ASSUME NEW b
  PROVE  Moved(<< >>, b) = << >>
BY DEF Moved

LEMMA MovedZero ==
  ASSUME NEW s \in Seq(Int)
  PROVE  Moved(s, 0) = s
<1>1. Moved(s, 0) \in Seq(Int) /\ Len(Moved(s, 0)) = Len(s)
      /\ \A i \in 1 .. Len(s) : Moved(s, 0)[i] = 0 + s[i]
  BY MovedIs
<1>2. \A i \in 1 .. Len(s) : s[i] \in Int
  OBVIOUS
<1>3. \A i \in 1 .. Len(s) : Moved(s, 0)[i] = s[i]
  BY <1>1, <1>2
<1> QED
  BY <1>1, <1>3, SeqEqual

LEMMA MovedMoved ==
  ASSUME NEW s \in Seq(Int), NEW a \in Int, NEW b \in Int
  PROVE  Moved(Moved(s, a), b) = Moved(s, a + b)
<1>1. Moved(s, a) \in Seq(Int) /\ Len(Moved(s, a)) = Len(s)
      /\ \A i \in 1 .. Len(s) : Moved(s, a)[i] = a + s[i]
  BY MovedIs
<1>2. Moved(Moved(s, a), b) \in Seq(Int) /\ Len(Moved(Moved(s, a), b)) = Len(s)
      /\ \A i \in 1 .. Len(s) : Moved(Moved(s, a), b)[i] = b + Moved(s, a)[i]
  BY <1>1, MovedIs
<1>3. Moved(s, a + b) \in Seq(Int) /\ Len(Moved(s, a + b)) = Len(s)
      /\ \A i \in 1 .. Len(s) : Moved(s, a + b)[i] = a + b + s[i]
  BY MovedIs
<1>4. \A i \in 1 .. Len(s) : Moved(Moved(s, a), b)[i] = Moved(s, a + b)[i]
  <2> TAKE i \in 1 .. Len(s)
  <2>1. s[i] \in Int
    OBVIOUS
  <2> QED
    BY SMTT(30), <1>1, <1>2, <1>3, <2>1
<1> QED
  BY <1>2, <1>3, <1>4, SeqEqual

LEMMA MovedConcat ==
  ASSUME NEW s \in Seq(Int), NEW t \in Seq(Int), NEW b \in Int
  PROVE  Moved(s \o t, b) = Moved(s, b) \o Moved(t, b)
<1>1. /\ Moved(s, b) \in Seq(Int) /\ Len(Moved(s, b)) = Len(s)
      /\ \A i \in 1 .. Len(s) : Moved(s, b)[i] = b + s[i]
      /\ Moved(t, b) \in Seq(Int) /\ Len(Moved(t, b)) = Len(t)
      /\ \A i \in 1 .. Len(t) : Moved(t, b)[i] = b + t[i]
  BY MovedIs
<1>2. PICK u \in Seq(Int) : u = s \o t
  BY ConcatProperties
<1>3. PICK v \in Seq(Int) : v = Moved(s, b) \o Moved(t, b)
  BY <1>1, ConcatProperties
<1>4. /\ Moved(u, b) \in Seq(Int) /\ Len(Moved(u, b)) = Len(u)
      /\ \A i \in 1 .. Len(u) : Moved(u, b)[i] = b + u[i]
  BY MovedIs
<1>5. Len(u) = Len(s) + Len(t) /\ Len(v) = Len(s) + Len(t)
  <2>1. PICK X, s1, t1 : X = Int /\ s1 = Moved(s, b) /\ t1 = Moved(t, b)
    OBVIOUS
  <2>2. s \in Seq(X) /\ t \in Seq(X) /\ s1 \in Seq(X) /\ t1 \in Seq(X)
    BY <1>1, <2>1
  <2>3. Len(s \o t) = Len(s) + Len(t) /\ Len(s1 \o t1) = Len(s1) + Len(t1)
    BY <2>2, ConcatProperties
  <2> QED
    BY <1>1, <1>2, <1>3, <2>1, <2>3
<1>a. \A i \in 1 .. Len(s) + Len(t) :
        /\ u[i] = IF i <= Len(s) THEN s[i] ELSE t[i - Len(s)]
        /\ v[i] = IF i <= Len(s) THEN Moved(s, b)[i] ELSE Moved(t, b)[i - Len(s)]
  <2>1. \A i \in 1 .. Len(s) + Len(t) : u[i] = IF i <= Len(s) THEN s[i] ELSE t[i - Len(s)]
    BY <1>2, ConcatProperties
  <2>2. PICK s1 \in Seq(Int), t1 \in Seq(Int) : s1 = Moved(s, b) /\ t1 = Moved(t, b)
    BY <1>1
  <2>3. \A i \in 1 .. Len(s1) + Len(t1) : v[i] = IF i <= Len(s1) THEN s1[i] ELSE t1[i - Len(s1)]
    BY <1>3, <2>2, ConcatProperties
  <2> QED
    BY <1>1, <2>1, <2>2, <2>3
<1>6. ASSUME NEW i \in 1 .. Len(s) + Len(t) PROVE Moved(u, b)[i] = v[i]
  <2>1. CASE i \in 1 .. Len(s)
    <3>1. u[i] = s[i] /\ v[i] = Moved(s, b)[i]
      BY <1>a, <2>1
    <3> QED
      BY <1>1, <1>4, <1>5, <2>1, <3>1
  <2>2. CASE i \notin 1 .. Len(s)
    <3>1. PICK j \in 1 .. Len(t) : i = Len(s) + j
      <4>1. i - Len(s) \in 1 .. Len(t) /\ i = Len(s) + (i - Len(s))
        BY <2>2
      <4> QED
        BY <4>1
    <3>2. u[i] = t[j] /\ v[i] = Moved(t, b)[j]
      <4>1. i \in 1 .. Len(s) + Len(t) /\ ~(i <= Len(s)) /\ i - Len(s) = j
        BY <2>2, <3>1
      <4> QED
        BY <1>a, <4>1
    <3> QED
      BY <1>1, <1>4, <1>5, <3>1, <3>2
  <2> QED
    BY <2>1, <2>2
<1>7. Moved(u, b) = v
  BY <1>4, <1>5, <1>6, SeqEqual
<1> QED
  BY <1>2, <1>3, <1>7

(* The blocks of a row, as the sequences FlattenSeq puts together. *)
LEMMA RowParts ==
  ASSUME NEW bk \in Seq(Int), NEW ofs \in Int, NEW incr \in Int, NEW count \in Int
  PROVE  /\ [j \in 1 .. count |-> Moved(bk, ofs + (j - 1) * incr)] \in Seq(Seq(Int))
         /\ Row(bk, ofs, incr, count) \in Seq(Int)
         /\ count <= 0 => Row(bk, ofs, incr, count) = << >>
<1> DEFINE parts == [j \in 1 .. count |-> Moved(bk, ofs + (j - 1) * incr)]
<1>1. CASE count > 0
  <2>1. \A j \in 1 .. count : Moved(bk, ofs + (j - 1) * incr) \in Seq(Int)
    <3> TAKE j \in 1 .. count
    <3>1. ofs + (j - 1) * incr \in Int
      OBVIOUS
    <3> QED
      BY <3>1, MovedIs
  <2>2. parts \in Seq(Seq(Int))
    BY <1>1, <2>1
  <2>3. Row(bk, ofs, incr, count) = FlattenSeq(parts)
    BY DEF Row
  <2> HIDE DEF parts
  <2>4. FlattenSeq(parts) \in Seq(Int)
    BY <2>2, FlattenTyped
  <2> QED
    BY <1>1, <2>2, <2>3, <2>4 DEF parts
<1>2. CASE count <= 0
  <2>1. 1 .. count = {}
    BY <1>2
  <2>2. parts = << >>
    BY <2>1
  <2> HIDE DEF parts
  <2>3. parts \in Seq(Seq(Int)) /\ FlattenSeq(parts) = << >>
    BY <2>2, FlattenEmpty
  <2> QED
    BY <1>2, <2>3 DEF Row, parts
<1> QED
  BY <1>1, <1>2

LEMMA RowNext ==
  ASSUME NEW bk \in Seq(Int), NEW ofs \in Int, NEW incr \in Int, NEW count \in Nat
  PROVE  Row(bk, ofs, incr, count + 1) = Row(bk, ofs, incr, count) \o Moved(bk, ofs + count * incr)
<1> DEFINE P(c) == [j \in 1 .. c |-> Moved(bk, ofs + (j - 1) * incr)]
           s == Moved(bk, ofs + count * incr)
<1>1. P(count) \in Seq(Seq(Int)) /\ P(count + 1) \in Seq(Seq(Int))
  <2>1. \A c \in Int : P(c) \in Seq(Seq(Int))
    BY RowParts
  <2> HIDE DEF P
  <2> QED
    BY <2>1
<1>2. s \in Seq(Int)
  <2>1. ofs + count * incr \in Int
    OBVIOUS
  <2> QED
    BY <2>1, MovedIs
<1>3. Len(P(count)) = count /\ Len(P(count + 1)) = count + 1
  OBVIOUS
<1>4. P(count + 1)[count + 1] = s
  OBVIOUS
<1>5. \A j \in 1 .. count : P(count + 1)[j] = P(count)[j]
  OBVIOUS
<1>6. Row(bk, ofs, incr, count) = FlattenSeq(P(count)) /\ Row(bk, ofs, incr, count + 1) = FlattenSeq(P(count + 1))
  BY DEF Row
<1> HIDE DEF P, s
<1>7. P(count + 1) = Append(P(count), s)
  <2>1. PICK X : X = Seq(Int)
    OBVIOUS
  <2>2. P(count) \in Seq(X) /\ P(count + 1) \in Seq(X) /\ s \in X
    BY <1>1, <1>2, <2>1
  <2>3. /\ Append(P(count), s) \in Seq(X) /\ Len(Append(P(count), s)) = count + 1
        /\ Append(P(count), s)[count + 1] = s
        /\ \A j \in 1 .. count : Append(P(count), s)[j] = P(count)[j]
    BY <1>3, <2>2, AppendProperties
  <2>4. \A j \in 1 .. count + 1 : P(count + 1)[j] = Append(P(count), s)[j]
    BY <1>4, <1>5, <2>3
  <2> QED
    BY <1>3, <2>2, <2>3, <2>4, SeqEqual
<1>8. FlattenSeq(Append(P(count), s)) = FlattenSeq(P(count)) \o s
  BY <1>1, <1>2, FlattenAppend
<1> QED
  BY <1>6, <1>7, <1>8 DEF s

LEMMA RowOne ==
  ASSUME NEW bk \in Seq(Int), NEW ofs \in Int, NEW incr \in Int
  PROVE  Row(bk, ofs, incr, 1) = Moved(bk, ofs)
<1>1. \A k \in Nat : Row(bk, ofs, incr, k + 1) = Row(bk, ofs, incr, k) \o Moved(bk, ofs + k * incr)
  BY RowNext
<1>2. Row(bk, ofs, incr, 0) = << >> /\ ofs + 0 * incr = ofs /\ 0 + 1 = 1
  BY RowParts
<1>3. Row(bk, ofs, incr, 0 + 1) = Row(bk, ofs, incr, 0) \o Moved(bk, ofs + 0 * incr)
  BY <1>1
<1>4. Row(bk, ofs, incr, 1) = << >> \o Moved(bk, ofs)
  BY <1>2, <1>3
<1>5. Moved(bk, ofs) \in Seq(Int)
  BY MovedIs
<1> QED
  BY <1>4, <1>5, ConcatEmptySeq

(* A row may be cut anywhere. *)
LEMMA RowSplit ==
  ASSUME NEW bk \in Seq(Int), NEW ofs \in Int, NEW incr \in Int, NEW c \in Nat, NEW d \in Nat
  PROVE  Row(bk, ofs, incr, c + d) = Row(bk, ofs, incr, c) \o Row(bk, ofs + c * incr, incr, d)
<1>0. PICK q \in Int : q = c * incr
  OBVIOUS
<1> DEFINE S == {k \in Nat : Row(bk, ofs, incr, c + k)
                               = Row(bk, ofs, incr, c) \o Row(bk, ofs + q, incr, k)}
<1>1. 0 \in S
  <2>1. Row(bk, ofs + q, incr, 0) = << >> /\ Row(bk, ofs, incr, c) \in Seq(Int) /\ c + 0 = c
    BY RowParts
  <2>2. Row(bk, ofs, incr, c + 0) = Row(bk, ofs, incr, c) \o Row(bk, ofs + q, incr, 0)
    BY <2>1, ConcatEmptySeq
  <2> QED
    BY <2>2
<1>2. ASSUME NEW k \in Nat, k \in S PROVE k + 1 \in S
  <2>1. PICK r \in Int : r = k * incr
    OBVIOUS
  <2>2. (c + k) * incr = q + r
    BY <1>0, <2>1
  <2>a. PICK ck \in Nat, oq \in Int : ck = c + k /\ oq = ofs + q
    OBVIOUS
  <2>3. Row(bk, ofs, incr, ck + 1) = Row(bk, ofs, incr, ck) \o Moved(bk, ofs + ck * incr)
    BY ZenonT(60), RowNext
  <2>4. Row(bk, oq, incr, k + 1) = Row(bk, oq, incr, k) \o Moved(bk, oq + k * incr)
    BY ZenonT(60), RowNext
  <2>5. PICK y \in Int : y = ofs + q + r
    OBVIOUS
  <2>6. ofs + ck * incr = y /\ oq + k * incr = y /\ ck + 1 = c + (k + 1)
    BY <2>1, <2>2, <2>5, <2>a
  <2>7. PICK rc \in Seq(Int), rk \in Seq(Int), my \in Seq(Int) :
          rc = Row(bk, ofs, incr, c) /\ rk = Row(bk, oq, incr, k) /\ my = Moved(bk, y)
    BY RowParts, MovedIs
  <2>8. Row(bk, ofs, incr, ck) = rc \o rk
    BY <1>2, <2>7, <2>a
  <2>9. Row(bk, ofs, incr, c + (k + 1)) = (rc \o rk) \o my
    BY <2>3, <2>6, <2>7, <2>8
  <2>10. Row(bk, oq, incr, k + 1) = rk \o my
    BY <2>4, <2>6, <2>7
  <2>b. (rc \o rk) \o my = rc \o (rk \o my)
    <3>1. PICK X : X = Int
      OBVIOUS
    <3>2. rc \in Seq(X) /\ rk \in Seq(X) /\ my \in Seq(X)
      BY <3>1
    <3> QED
      BY SMTT(30), <3>2, ConcatAssociative
  <2>11. Row(bk, ofs, incr, c + (k + 1)) = Row(bk, ofs, incr, c) \o Row(bk, ofs + q, incr, k + 1)
    BY <2>7, <2>9, <2>10, <2>a, <2>b
  <2> QED
    BY <2>11
<1>3. d \in S
  <2> HIDE DEF S
  <2> QED
    BY <1>1, <1>2, Induction
<1> QED
  BY <1>0, <1>3

LEMMA MovedRow ==
  ASSUME NEW bk \in Seq(Int), NEW ofs \in Int, NEW incr \in Int, NEW count \in Int, NEW b \in Int
  PROVE  Moved(Row(bk, ofs, incr, count), b) = Row(bk, b + ofs, incr, count)
<1> DEFINE S == {k \in Nat : Moved(Row(bk, ofs, incr, k), b) = Row(bk, b + ofs, incr, k)}
<1>1. 0 \in S
  <2>1. Row(bk, ofs, incr, 0) = << >> /\ Row(bk, b + ofs, incr, 0) = << >>
    BY RowParts
  <2>2. Moved(Row(bk, ofs, incr, 0), b) = Row(bk, b + ofs, incr, 0)
    BY <2>1, MovedEmpty
  <2> QED
    BY <2>2
<1>2. ASSUME NEW k \in Nat, k \in S PROVE k + 1 \in S
  <2>1. PICK r \in Int : r = k * incr
    OBVIOUS
  <2>2. Row(bk, ofs, incr, k + 1) = Row(bk, ofs, incr, k) \o Moved(bk, ofs + r)
    BY <2>1, RowNext
  <2>3. Row(bk, b + ofs, incr, k + 1) = Row(bk, b + ofs, incr, k) \o Moved(bk, (b + ofs) + r)
    <3>1. PICK bo \in Int : bo = b + ofs
      OBVIOUS
    <3> QED
      BY ZenonT(60), <2>1, <3>1, RowNext
  <2>4. Row(bk, ofs, incr, k) \in Seq(Int) /\ Moved(bk, ofs + r) \in Seq(Int)
    <3>1. PICK z \in Int : z = ofs + r
      OBVIOUS
    <3> QED
      BY <3>1, RowParts, MovedIs
  <2>5. Moved(Moved(bk, ofs + r), b) = Moved(bk, (ofs + r) + b) /\ (ofs + r) + b = (b + ofs) + r
    <3>1. PICK z \in Int : z = ofs + r
      OBVIOUS
    <3>2. Moved(Moved(bk, z), b) = Moved(bk, z + b)
      BY MovedMoved
    <3> QED
      BY <3>1, <3>2
  <2>6. Moved(Row(bk, ofs, incr, k), b) = Row(bk, b + ofs, incr, k)
    BY <1>2
  <2>a. Moved(Row(bk, ofs, incr, k) \o Moved(bk, ofs + r), b)
          = Moved(Row(bk, ofs, incr, k), b) \o Moved(Moved(bk, ofs + r), b)
    BY <2>4, MovedConcat
  <2>7. Moved(Row(bk, ofs, incr, k + 1), b) = Row(bk, b + ofs, incr, k + 1)
    BY <2>2, <2>3, <2>5, <2>6, <2>a
  <2> QED
    BY <2>7
<1>3. Nat \subseteq S
  <2> HIDE DEF S
  <2> QED
    BY <1>1, <1>2, Induction
<1>4. CASE count \in Nat
  BY <1>3, <1>4
<1>5. CASE count \notin Nat
  <2>1. Row(bk, ofs, incr, count) = << >> /\ Row(bk, b + ofs, incr, count) = << >>
    BY <1>5, RowParts
  <2> QED
    BY <2>1, MovedEmpty
<1> QED
  BY <1>4, <1>5

(* A row of rows without gaps is one row. *)
LEMMA RowOfRow ==
  ASSUME NEW bk \in Seq(Int), NEW ofs \in Int, NEW incr \in Int, NEW c \in Nat, NEW d \in Nat
  PROVE  Row(bk, ofs, incr, c * d) = Row(Row(bk, ofs, incr, c), 0, c * incr, d)
<1>0. PICK q \in Int : q = c * incr
  OBVIOUS
<1>a. PICK row \in Seq(Int) : row = Row(bk, ofs, incr, c)
  BY RowParts
<1> DEFINE S == {k \in Nat : Row(bk, ofs, incr, c * k) = Row(row, 0, q, k)}
<1>1. 0 \in S
  <2>1. c * 0 = 0 /\ Row(bk, ofs, incr, 0) = << >> /\ Row(row, 0, q, 0) = << >>
    BY RowParts
  <2>2. Row(bk, ofs, incr, c * 0) = Row(row, 0, q, 0)
    BY <2>1
  <2> QED
    BY <2>2
<1>2. ASSUME NEW k \in Nat, k \in S PROVE k + 1 \in S
  <2>1. PICK m \in Nat : m = c * k
    OBVIOUS
  <2>2. c * (k + 1) = m + c /\ m * incr = k * q
    <3>1. c * (k + 1) = c * k + c
      OBVIOUS
    <3>2. (c * k) * incr = k * (c * incr)
      OBVIOUS
    <3> QED
      BY <1>0, <2>1, <3>1, <3>2
  <2>3. Row(bk, ofs, incr, m + c) = Row(bk, ofs, incr, m) \o Row(bk, ofs + m * incr, incr, c)
    <3>1. \A x, z \in Nat : Row(bk, ofs, incr, x + z) = Row(bk, ofs, incr, x) \o Row(bk, ofs + x * incr, incr, z)
      BY ZenonT(60), RowSplit
    <3> QED
      BY <3>1
  <2>4. Row(row, 0, q, k + 1) = Row(row, 0, q, k) \o Moved(row, 0 + k * q)
    <3>1. PICK z \in Int : z = 0
      OBVIOUS
    <3>2. Row(row, z, q, k + 1) = Row(row, z, q, k) \o Moved(row, z + k * q)
      BY ZenonT(60), RowNext
    <3> QED
      BY <3>1, <3>2
  <2>5. PICK y \in Int : y = k * q
    OBVIOUS
  <2>6. ofs + m * incr = y + ofs /\ 0 + k * q = y
    BY <2>2, <2>5
  <2>7. Moved(row, y) = Row(bk, y + ofs, incr, c)
    BY <1>a, MovedRow
  <2>8. Row(bk, ofs, incr, m) = Row(row, 0, q, k)
    BY <1>2, <2>1
  <2>9. Row(bk, ofs, incr, c * (k + 1)) = Row(row, 0, q, k + 1)
    BY <2>2, <2>3, <2>4, <2>6, <2>7, <2>8
  <2> QED
    BY <2>9
<1>3. d \in S
  <2> HIDE DEF S
  <2> QED
    BY <1>1, <1>2, Induction
<1> QED
  BY <1>0, <1>a, <1>3

-----------------------------------------------------------------------------
(* Block lists. *)
EntriesOver(X) == [sub : X, ofs : Int, count : Int, incr : Int, height : Int]

LEMMA ListsAre ==
  /\ Lists[0] = {NoBlocklist}
  /\ \A d \in Nat : Lists[d + 1] = Seq(EntriesOver(Lists[d]))
<1> DEFINE Is(f, k) == f = [i \in 0 .. k |->
                              IF i = 0 THEN {NoBlocklist} ELSE Seq(EntriesOver(f[i - 1]))]
           S == {k \in Nat : \E f : Is(f, k)}
           p(k) == CHOOSE f : Is(f, k)
<1>1. 0 \in S
  <2> DEFINE f == [i \in 0 .. 0 |-> {NoBlocklist}]
  <2>1. Is(f, 0)
    OBVIOUS
  <2> QED
    BY <2>1
<1>2. ASSUME NEW k \in Nat, k \in S PROVE k + 1 \in S
  <2>1. PICK f : Is(f, k)
    BY <1>2
  <2>a. \A i \in 0 .. k : f[i] = IF i = 0 THEN {NoBlocklist} ELSE Seq(EntriesOver(f[i - 1]))
    BY <2>1
  <2> DEFINE g == [i \in 0 .. k + 1 |-> IF i <= k THEN f[i] ELSE Seq(EntriesOver(f[k]))]
  <2>2. \A i \in 0 .. k + 1 : g[i] = IF i = 0 THEN {NoBlocklist} ELSE Seq(EntriesOver(g[i - 1]))
    <3> TAKE i \in 0 .. k + 1
    <3>1. CASE i = 0
      BY <2>a, <3>1
    <3>2. CASE i \in 1 .. k
      <4>1. i - 1 \in 0 .. k + 1 /\ i - 1 <= k /\ i \in 0 .. k
        BY <3>2
      <4>2. g[i] = f[i] /\ g[i - 1] = f[i - 1]
        BY <4>1
      <4> QED
        BY <2>a, <3>2, <4>1, <4>2
    <3>3. CASE i = k + 1
      <4>1. i - 1 = k /\ k \in 0 .. k + 1 /\ ~(i <= k) /\ i # 0
        BY <3>3
      <4>2. g[k] = f[k] /\ g[i] = Seq(EntriesOver(f[k]))
        BY <4>1
      <4> QED
        BY <4>1, <4>2
    <3> QED
      BY <3>1, <3>2, <3>3
  <2>3. Is(g, k + 1)
    <3>1. g = [i \in 0 .. k + 1 |-> g[i]]
      OBVIOUS
    <3> HIDE DEF g
    <3> QED
      BY <2>2, <3>1
  <2> HIDE DEF Is, g
  <2>4. \E h : Is(h, k + 1)
    BY <2>3
  <2> QED
    BY <2>4
<1>3. \A k \in Nat : Is(p(k), k)
  <2> HIDE DEF Is
  <2>1. Nat \subseteq S
    BY <1>1, <1>2, Induction
  <2> QED
    BY <2>1
<1>4. \A k \in Nat : p(k)[0] = {NoBlocklist}
                     /\ \A i \in 1 .. k : p(k)[i] = Seq(EntriesOver(p(k)[i - 1]))
  <2> TAKE k \in Nat
  <2>1. PICK f : f = p(k)
    OBVIOUS
  <2>2. Is(f, k)
    BY <1>3, <2>1
  <2>a. \A i \in 0 .. k : f[i] = IF i = 0 THEN {NoBlocklist} ELSE Seq(EntriesOver(f[i - 1]))
    BY <2>2
  <2>3. f[0] = {NoBlocklist} /\ \A i \in 1 .. k : f[i] = Seq(EntriesOver(f[i - 1]))
    <3>1. 0 \in 0 .. k /\ \A i \in 1 .. k : i \in 0 .. k /\ i # 0
      OBVIOUS
    <3> QED
      BY <2>a, <3>1
  <2> QED
    BY <2>1, <2>3
<1> HIDE DEF Is, p
<1>5. \A k \in Nat : p(k + 1)[k] = p(k)[k]
  <2> TAKE k \in Nat
  <2> DEFINE T == {i \in 0 .. k : p(k + 1)[i] = p(k)[i]}
  <2>1. 0 \in T
    <3>1. k + 1 \in Nat /\ 0 \in 0 .. k
      OBVIOUS
    <3>2. p(k + 1)[0] = {NoBlocklist} /\ p(k)[0] = {NoBlocklist}
      BY <1>4, <3>1
    <3> QED
      BY <3>1, <3>2
  <2>2. ASSUME NEW i \in 0 .. k - 1, i \in T PROVE i + 1 \in T
    <3>1. i + 1 \in 1 .. k /\ i + 1 \in 1 .. k + 1 /\ (i + 1) - 1 = i /\ i + 1 \in 0 .. k
      OBVIOUS
    <3>2. p(k)[i + 1] = Seq(EntriesOver(p(k)[i])) /\ p(k + 1)[i + 1] = Seq(EntriesOver(p(k + 1)[i]))
      BY <1>4, <3>1
    <3> QED
      BY <2>2, <3>1, <3>2
  <2>3. 0 .. k \subseteq T
    <3> HIDE DEF T
    <3> QED
      BY <2>1, <2>2, InductionUpto
  <2> QED
    BY <2>3
<1> DEFINE L == [k \in Nat |-> p(k)[k]]
<1>6. L[0] = {NoBlocklist} /\ \A k \in Nat : L[k + 1] = Seq(EntriesOver(L[k]))
  <2>1. L[0] = {NoBlocklist}
    BY <1>4
  <2>2. ASSUME NEW k \in Nat PROVE L[k + 1] = Seq(EntriesOver(L[k]))
    <3>1. k + 1 \in 1 .. k + 1 /\ (k + 1) - 1 = k
      OBVIOUS
    <3>2. p(k + 1)[k + 1] = Seq(EntriesOver(p(k + 1)[k]))
      BY <1>4, <3>1
    <3>3. L[k + 1] = p(k + 1)[k + 1] /\ L[k] = p(k)[k]
      OBVIOUS
    <3> QED
      BY <1>5, <3>2, <3>3
  <2> QED
    BY <2>1, <2>2
<1> DEFINE Body(f) == [d \in Nat |->
             IF d = 0 THEN {NoBlocklist}
             ELSE Seq([sub : f[d - 1], ofs : Int, count : Int, incr : Int, height : Int])]
<1>7. L = Body(L)
  <2>1. \A d \in Nat : L[d] = Body(L)[d]
    <3> TAKE d \in Nat
    <3>1. CASE d = 0
      BY <1>6, <3>1
    <3>2. CASE d # 0
      <4>1. d - 1 \in Nat /\ (d - 1) + 1 = d
        BY <3>2
      <4>2. L[d] = Seq(EntriesOver(L[d - 1]))
        BY <1>6, <4>1
      <4> QED
        BY <3>2, <4>2 DEF EntriesOver
    <3> QED
      BY <3>1, <3>2
  <2>2. L = [d \in Nat |-> L[d]]
    OBVIOUS
  <2> HIDE DEF L
  <2> QED
    BY <2>1, <2>2
<1>8. Lists = Body(Lists)
  <2> HIDE DEF L
  <2> QED
    BY <1>7 DEF Lists
<1> HIDE DEF Body
<1>9. \A d \in Nat : Body(Lists)[d] = IF d = 0 THEN {NoBlocklist} ELSE Seq(EntriesOver(Lists[d - 1]))
  BY DEF Body, EntriesOver
<1> QED
  BY <1>8, <1>9

LEMMA ListsGrow ==
  ASSUME NEW d \in Nat
  PROVE  Lists[d] \subseteq Lists[d + 1]
<1> DEFINE S == {k \in Nat : Lists[k] \subseteq Lists[k + 1]}
<1>1. 0 \in S
  <2>1. << >> \in Seq(EntriesOver(Lists[0]))
    BY EmptySeq
  <2>2. Lists[0 + 1] = Seq(EntriesOver(Lists[0])) /\ Lists[0] = {<< >>}
    BY ListsAre DEF NoBlocklist
  <2> QED
    BY <2>1, <2>2
<1>2. ASSUME NEW k \in Nat, k \in S PROVE k + 1 \in S
  <2>1. EntriesOver(Lists[k]) \subseteq EntriesOver(Lists[k + 1])
    BY <1>2 DEF EntriesOver
  <2>2. Lists[k + 1] = Seq(EntriesOver(Lists[k])) /\ Lists[(k + 1) + 1] = Seq(EntriesOver(Lists[k + 1]))
    BY ListsAre
  <2>3. PICK X, Y : X = EntriesOver(Lists[k]) /\ Y = EntriesOver(Lists[k + 1])
    OBVIOUS
  <2>4. Seq(X) \subseteq Seq(Y)
    BY <2>1, <2>3, SeqMonotonic
  <2> QED
    BY <2>2, <2>3, <2>4
<1>3. d \in S
  <2> HIDE DEF S
  <2> QED
    BY <1>1, <1>2, Induction
<1> QED
  BY <1>3

LEMMA ListsMonotonic ==
  ASSUME NEW d \in Nat, NEW e \in Nat, d <= e
  PROVE  Lists[d] \subseteq Lists[e]
<1> DEFINE S == {k \in Nat : Lists[d] \subseteq Lists[d + k]}
<1>1. 0 \in S
  OBVIOUS
<1>2. ASSUME NEW k \in Nat, k \in S PROVE k + 1 \in S
  <2>1. PICK m \in Nat : m = d + k
    OBVIOUS
  <2>2. Lists[m] \subseteq Lists[m + 1] /\ m + 1 = d + (k + 1)
    BY <2>1, ListsGrow
  <2> QED
    BY <1>2, <2>1, <2>2
<1>3. e - d \in S
  <2>1. e - d \in Nat
    OBVIOUS
  <2> HIDE DEF S
  <2> QED
    BY <1>1, <1>2, <2>1, Induction
<1> QED
  BY <1>3

(* A list of the program is a sequence of entries, whose lists nest less. *)
ListRank == [bl \in AllLists |-> CHOOSE d \in Nat : bl \in Lists[d] /\ \A e \in Nat : bl \in Lists[e] => d <= e]

LEMMA ListRankIs ==
  ASSUME NEW bl \in AllLists
  PROVE  /\ ListRank[bl] \in Nat /\ bl \in Lists[ListRank[bl]]
         /\ \A e \in Nat : bl \in Lists[e] => ListRank[bl] <= e
<1> DEFINE S == {d \in Nat : bl \in Lists[d]}
<1>1. Depth + 1 \in S
  BY TypesAssumption DEF AllLists
<1>2. PICK m \in S : \A x \in S : m <= x
  BY <1>1, LeastOf
<1>3. m \in Nat /\ bl \in Lists[m] /\ \A e \in Nat : bl \in Lists[e] => m <= e
  BY <1>2
<1> QED
  BY <1>3 DEF ListRank

LEMMA EntriesOfLists ==
  ASSUME NEW bl \in AllLists
  PROVE  /\ bl \in Seq(EntriesOver(AllLists))
         /\ \A i \in DOMAIN bl : /\ bl[i] \in EntriesOver(AllLists) /\ bl[i].sub \in AllLists
                                 /\ ListRank[bl[i].sub] < ListRank[bl]
<1>a. Depth \in Nat
  BY TypesAssumption
<1>1. bl \in Seq(EntriesOver(AllLists))
  <2>1. AllLists = Seq(EntriesOver(Lists[Depth])) /\ Lists[Depth] \subseteq AllLists
    BY <1>a, ListsAre, ListsGrow DEF AllLists
  <2>2. EntriesOver(Lists[Depth]) \subseteq EntriesOver(AllLists)
    BY <2>1 DEF EntriesOver
  <2>3. PICK X, Y : X = EntriesOver(Lists[Depth]) /\ Y = EntriesOver(AllLists)
    OBVIOUS
  <2> QED
    BY <2>1, <2>2, <2>3, SeqMonotonic
<1>2. ASSUME NEW i \in DOMAIN bl PROVE bl[i].sub \in AllLists /\ ListRank[bl[i].sub] < ListRank[bl]
  <2>1. PICK d \in Nat : d = ListRank[bl] /\ bl \in Lists[d] /\ d <= Depth + 1
    BY <1>a, ListRankIs DEF AllLists
  <2>2. d # 0
    BY <1>2, <2>1, ListsAre DEF NoBlocklist
  <2>3. PICK e \in Nat : d = e + 1
    <3>1. d - 1 \in Nat /\ d = (d - 1) + 1
      BY <2>2
    <3> QED
      BY <3>1
  <2>4. bl \in Seq(EntriesOver(Lists[e]))
    BY <2>1, <2>3, ListsAre
  <2>5. bl[i] \in EntriesOver(Lists[e])
    BY <2>4
  <2>6. bl[i].sub \in Lists[e]
    BY <2>5 DEF EntriesOver
  <2>7. bl[i].sub \in AllLists
    <3>1. e <= Depth + 1 /\ Depth + 1 \in Nat
      BY <1>a, <2>1, <2>3
    <3>2. Lists[e] \subseteq Lists[Depth + 1]
      BY <3>1, ListsMonotonic
    <3> QED
      BY <2>6, <3>2 DEF AllLists
  <2>8. ListRank[bl[i].sub] <= e /\ ListRank[bl[i].sub] \in Nat
    BY <2>6, <2>7, ListRankIs
  <2> QED
    BY <2>1, <2>3, <2>7, <2>8
<1>3. \A i \in DOMAIN bl : bl[i] \in EntriesOver(AllLists)
  BY <1>1
<1> QED
  BY <1>1, <1>2, <1>3

LEMMA NoListIn ==
  /\ NoBlocklist \in AllLists /\ AllLists \subseteq Seq(EntriesOver(AllLists))
  /\ \A d \in Nat : NoBlocklist \in Lists[d]
<1>1. \A d \in Nat : NoBlocklist \in Lists[d]
  <2> TAKE d \in Nat
  <2>1. Lists[0] \subseteq Lists[d]
    BY ListsMonotonic
  <2> QED
    BY <2>1, ListsAre
<1>2. Depth + 1 \in Nat
  BY TypesAssumption
<1> QED
  BY <1>1, <1>2, EntriesOfLists DEF AllLists
-----------------------------------------------------------------------------
(* The offsets that a block list stands for. *)
LEMMA ZeroOffset == <<0>> \in Seq(Int)
OBVIOUS

EntryOffsets(b) ==
  Row(IF b.sub = NoBlocklist THEN <<0>> ELSE CodeFixed[b.sub], b.ofs, b.incr, b.count)

LEMMA CodeFixedIs ==
  /\ CodeFixed \in [AllLists -> Seq(Int)]
  /\ \A bl \in AllLists : CodeFixed[bl] = FlattenSeq([i \in DOMAIN bl |-> EntryOffsets(bl[i])])
<1> DEFINE Part(g, b) == Row(IF b.sub = NoBlocklist THEN <<0>> ELSE g[b.sub], b.ofs, b.incr, b.count)
           Parts(g, bl) == [i \in DOMAIN bl |-> Part(g, bl[i])]
           V == Seq(Int)
           Body(g) == [bl \in AllLists |-> FlattenSeq(Parts(g, bl))]
           F == [g \in [AllLists -> V] |-> Body(g)]
<1>1. ASSUME NEW g \in [AllLists -> V], NEW b \in EntriesOver(AllLists) PROVE Part(g, b) \in V
  <2>1. b.sub \in AllLists /\ b.ofs \in Int /\ b.count \in Int /\ b.incr \in Int
    BY DEF EntriesOver
  <2>2. PICK bk \in Seq(Int) : bk = IF b.sub = NoBlocklist THEN <<0>> ELSE g[b.sub]
    BY <2>1, ZeroOffset
  <2>3. Row(bk, b.ofs, b.incr, b.count) \in Seq(Int)
    BY <2>1, RowParts
  <2> QED
    BY <2>2, <2>3
<1>2. ASSUME NEW g \in [AllLists -> V], NEW bl \in AllLists PROVE FlattenSeq(Parts(g, bl)) \in V
  <2>1. bl \in Seq(EntriesOver(AllLists)) /\ \A i \in DOMAIN bl : bl[i] \in EntriesOver(AllLists)
    BY EntriesOfLists
  <2>2. Len(bl) \in Nat /\ DOMAIN bl = 1 .. Len(bl)
    BY <2>1, LenProperties
  <2>3. \A i \in 1 .. Len(bl) : Part(g, bl[i]) \in Seq(Int)
    BY <1>1, <2>1, <2>2
  <2> HIDE DEF Part
  <2>4. Parts(g, bl) \in Seq(Seq(Int))
    BY <2>2, <2>3
  <2> HIDE DEF Parts
  <2> QED
    BY <2>4, FlattenTyped
<1>3. Recursive(F, AllLists, V, ListRank)
  <2>1. V # {}
    BY ZeroOffset
  <2>2. ListRank \in [AllLists -> Nat]
    <3>1. \A bl \in AllLists : ListRank[bl] \in Nat
      BY ListRankIs
    <3> QED
      BY <3>1 DEF ListRank
  <2>3. F \in [[AllLists -> V] -> [AllLists -> V]]
    <3> HIDE DEF Parts, V
    <3> QED
      BY <1>2
  <2>4. ASSUME NEW g \in [AllLists -> V], NEW h \in [AllLists -> V], NEW bl \in AllLists,
               \A r \in AllLists : ListRank[r] < ListRank[bl] => g[r] = h[r]
        PROVE  F[g][bl] = F[h][bl]
    <3>1. \A i \in DOMAIN bl : g[bl[i].sub] = h[bl[i].sub]
      BY <2>4, EntriesOfLists
    <3>2. \A i \in DOMAIN bl : Part(g, bl[i]) = Part(h, bl[i])
      BY <3>1
    <3>3. Parts(g, bl) = Parts(h, bl)
      <4> HIDE DEF Part
      <4> QED
        BY <3>2
    <3> HIDE DEF Parts, V
    <3>4. F[g][bl] = FlattenSeq(Parts(g, bl)) /\ F[h][bl] = FlattenSeq(Parts(h, bl))
      OBVIOUS
    <3> QED
      BY <3>3, <3>4
  <2> HIDE DEF V, F
  <2> QED
    BY <2>1, <2>2, <2>3, <2>4 DEF Recursive
<1>4. PICK f : f \in [AllLists -> V] /\ f = F[f]
  <2> HIDE DEF V, F
  <2> QED
    BY <1>3, RecursionExists
<1>5. f = Body(f)
  <2> HIDE DEF V, Body
  <2> QED
    BY <1>4
<1>6. CodeFixed = Body(CodeFixed)
  <2> USE DEF Body, Parts, Part
  <2> QED
    BY <1>5 DEF CodeFixed
<1>7. \A bl \in AllLists : CodeFixed[bl] = FlattenSeq(Parts(CodeFixed, bl))
  <2>1. PICK c : c = CodeFixed
    OBVIOUS
  <2>2. c = Body(c)
    BY <1>6, <2>1
  <2> HIDE DEF Parts
  <2> QED
    BY <2>1, <2>2
<1>8. \A bl \in AllLists : CodeFixed[bl] = FlattenSeq([i \in DOMAIN bl |-> EntryOffsets(bl[i])])
  BY <1>7 DEF EntryOffsets
<1>9. CodeFixed = [bl \in AllLists |-> CodeFixed[bl]]
  <2>1. PICK c : c = CodeFixed
    OBVIOUS
  <2>2. c = Body(c)
    BY <1>6, <2>1
  <2>3. c = [bl \in AllLists |-> c[bl]]
    <3> HIDE DEF Parts
    <3> QED
      BY <2>2
  <2> QED
    BY <2>1, <2>3
<1> HIDE DEF Part, Parts, Body, F, V
<1> DEFINE P == {bl \in AllLists : CodeFixed[bl] \in Seq(Int)}
<1>10. ASSUME NEW bl \in AllLists, \A r \in AllLists : ListRank[r] < ListRank[bl] => r \in P
       PROVE  bl \in P
  <2>1. bl \in Seq(EntriesOver(AllLists))
    BY EntriesOfLists
  <2>2. Len(bl) \in Nat /\ DOMAIN bl = 1 .. Len(bl)
    BY <2>1, LenProperties
  <2>3. ASSUME NEW i \in 1 .. Len(bl) PROVE EntryOffsets(bl[i]) \in Seq(Int)
    <3>1. PICK b : b = bl[i] /\ b \in EntriesOver(AllLists) /\ b.sub \in AllLists /\ b.sub \in P
      BY <1>10, <2>2, EntriesOfLists
    <3>2. CodeFixed[b.sub] \in Seq(Int) /\ b.ofs \in Int /\ b.count \in Int /\ b.incr \in Int
      BY <3>1 DEF EntriesOver
    <3>3. PICK bk \in Seq(Int) : bk = IF b.sub = NoBlocklist THEN <<0>> ELSE CodeFixed[b.sub]
      BY <3>2, ZeroOffset
    <3>4. Row(bk, b.ofs, b.incr, b.count) \in Seq(Int)
      BY <3>2, RowParts
    <3> QED
      BY <3>1, <3>3, <3>4 DEF EntryOffsets
  <2>4. [i \in DOMAIN bl |-> EntryOffsets(bl[i])] \in Seq(Seq(Int))
    BY <2>2, <2>3
  <2>5. FlattenSeq([i \in DOMAIN bl |-> EntryOffsets(bl[i])]) \in Seq(Int)
    BY <2>4, FlattenTyped
  <2> QED
    BY <1>8, <2>5
<1>11. AllLists \subseteq P
  <2>1. ListRank \in [AllLists -> Nat]
    <3>1. \A bl \in AllLists : ListRank[bl] \in Nat
      BY ListRankIs
    <3> QED
      BY <3>1 DEF ListRank
  <2> HIDE DEF P
  <2> QED
    BY <1>10, <2>1, RankInduction
<1>12. \A bl \in AllLists : CodeFixed[bl] \in Seq(Int)
  BY <1>11
<1>13. CodeFixed \in [AllLists -> Seq(Int)]
  <2>1. PICK c : c = CodeFixed
    OBVIOUS
  <2>2. c = [bl \in AllLists |-> c[bl]] /\ \A bl \in AllLists : c[bl] \in Seq(Int)
    BY <1>9, <1>12, <2>1
  <2> QED
    BY <2>1, <2>2
<1> QED
  BY <1>8, <1>13

LEMMA EntryOffsetsTyped ==
  ASSUME NEW b \in EntriesOver(AllLists)
  PROVE  EntryOffsets(b) \in Seq(Int)
<1>1. b.sub \in AllLists /\ b.ofs \in Int /\ b.count \in Int /\ b.incr \in Int
  BY DEF EntriesOver
<1>2. PICK bk \in Seq(Int) : bk = IF b.sub = NoBlocklist THEN <<0>> ELSE CodeFixed[b.sub]
  BY <1>1, CodeFixedIs, ZeroOffset
<1>3. Row(bk, b.ofs, b.incr, b.count) \in Seq(Int)
  BY <1>1, RowParts
<1> QED
  BY <1>2, <1>3 DEF EntryOffsets

LEMMA CodeFixedParts ==
  ASSUME NEW bl \in AllLists
  PROVE  /\ [i \in DOMAIN bl |-> EntryOffsets(bl[i])] \in Seq(Seq(Int))
         /\ Len([i \in DOMAIN bl |-> EntryOffsets(bl[i])]) = Len(bl)
         /\ CodeFixed[bl] \in Seq(Int)
<1>1. bl \in Seq(EntriesOver(AllLists)) /\ Len(bl) \in Nat /\ DOMAIN bl = 1 .. Len(bl)
  BY EntriesOfLists, LenProperties
<1>2. \A i \in 1 .. Len(bl) : EntryOffsets(bl[i]) \in Seq(Int)
  BY <1>1, EntriesOfLists, EntryOffsetsTyped
<1> QED
  BY <1>1, <1>2, CodeFixedIs

LEMMA CodeFixedEmpty ==
  CodeFixed[NoBlocklist] = << >>
<1>1. CodeFixed[NoBlocklist] = FlattenSeq([i \in DOMAIN NoBlocklist |-> EntryOffsets(NoBlocklist[i])])
  BY CodeFixedIs, NoListIn
<1>2. PICK ss : ss = [i \in DOMAIN NoBlocklist |-> EntryOffsets(NoBlocklist[i])]
  OBVIOUS
<1>3. ss = << >>
  BY <1>2 DEF NoBlocklist
<1> QED
  BY <1>1, <1>2, <1>3, FlattenEmpty

LEMMA CodeFixedConcat ==
  ASSUME NEW s \in AllLists, NEW t \in AllLists, s \o t \in AllLists
  PROVE  CodeFixed[s \o t] = CodeFixed[s] \o CodeFixed[t]
<1> DEFINE P(bl) == [i \in DOMAIN bl |-> EntryOffsets(bl[i])]
<1>1. PICK X, u : X = EntriesOver(AllLists) /\ u = s \o t
  OBVIOUS
<1>2. s \in Seq(X) /\ t \in Seq(X) /\ u \in Seq(X)
  BY <1>1, EntriesOfLists
<1>3. /\ Len(u) = Len(s) + Len(t)
      /\ \A i \in 1 .. Len(s) + Len(t) : u[i] = IF i <= Len(s) THEN s[i] ELSE t[i - Len(s)]
  BY <1>1, <1>2, ConcatProperties
<1>4. /\ P(s) \in Seq(Seq(Int)) /\ P(t) \in Seq(Seq(Int)) /\ P(u) \in Seq(Seq(Int))
      /\ Len(P(s)) = Len(s) /\ Len(P(t)) = Len(t) /\ Len(P(u)) = Len(u)
  BY <1>1, CodeFixedParts
<1>5. /\ \A i \in 1 .. Len(s) : P(s)[i] = EntryOffsets(s[i])
      /\ \A i \in 1 .. Len(t) : P(t)[i] = EntryOffsets(t[i])
      /\ \A i \in 1 .. Len(u) : P(u)[i] = EntryOffsets(u[i])
  BY <1>2
<1>6. CodeFixed[s] = FlattenSeq(P(s)) /\ CodeFixed[t] = FlattenSeq(P(t)) /\ CodeFixed[u] = FlattenSeq(P(u))
  BY <1>1, CodeFixedIs
<1> HIDE DEF P
<1>7. P(u) = P(s) \o P(t)
  <2>1. PICK Y, ps, pt : Y = Seq(Int) /\ ps = P(s) /\ pt = P(t)
    OBVIOUS
  <2>2. ps \in Seq(Y) /\ pt \in Seq(Y) /\ P(u) \in Seq(Y)
    BY <1>4, <2>1
  <2>3. /\ ps \o pt \in Seq(Y) /\ Len(ps \o pt) = Len(ps) + Len(pt)
        /\ \A i \in 1 .. Len(ps) + Len(pt) : (ps \o pt)[i] = IF i <= Len(ps) THEN ps[i] ELSE pt[i - Len(ps)]
    BY <2>2, ConcatProperties
  <2>4. Len(s) \in Nat /\ Len(t) \in Nat
    BY <1>2
  <2>5. ASSUME NEW i \in 1 .. Len(u) PROVE P(u)[i] = (ps \o pt)[i]
    <3>1. CASE i <= Len(s)
      <4>1. i \in 1 .. Len(s)
        BY <2>4, <3>1
      <4> QED
        BY <1>3, <1>4, <1>5, <2>1, <2>3, <3>1, <4>1
    <3>2. CASE ~(i <= Len(s))
      <4>1. i - Len(s) \in 1 .. Len(t) /\ i \in 1 .. Len(s) + Len(t)
        BY <1>3, <2>4, <3>2
      <4> QED
        BY ZenonT(60), <1>3, <1>4, <1>5, <2>1, <2>3, <3>2, <4>1
    <3> QED
      BY <3>1, <3>2
  <2>6. P(u) = ps \o pt
    BY <1>3, <1>4, <2>1, <2>2, <2>3, <2>5, SeqEqual
  <2> QED
    BY <2>1, <2>6
<1> QED
  BY <1>1, <1>4, <1>6, <1>7, FlattenConcat

LEMMA CodeFixedOne ==
  ASSUME NEW b \in EntriesOver(AllLists), <<b>> \in AllLists
  PROVE  CodeFixed[<<b>>] = EntryOffsets(b)
<1>1. PICK bl : bl = <<b>>
  OBVIOUS
<1>2. [i \in DOMAIN bl |-> EntryOffsets(bl[i])] = <<EntryOffsets(b)>>
  BY <1>1
<1>3. CodeFixed[bl] = FlattenSeq([i \in DOMAIN bl |-> EntryOffsets(bl[i])])
  BY <1>1, CodeFixedIs
<1>4. CodeFixed[bl] = FlattenSeq(<<EntryOffsets(b)>>)
  BY <1>2, <1>3
<1> QED
  BY <1>1, <1>4, EntryOffsetsTyped, FlattenOne
LEMMA MovedFlatten ==
  ASSUME NEW ss \in Seq(Seq(Int)), NEW b \in Int
  PROVE  Moved(FlattenSeq(ss), b) = FlattenSeq([i \in DOMAIN ss |-> Moved(ss[i], b)])
<1>1. PICK tt : tt = [i \in DOMAIN ss |-> Moved(ss[i], b)]
  OBVIOUS
<1>0. PICK m \in Nat : m = Len(ss)
  OBVIOUS
<1>2. DOMAIN ss = 1 .. m /\ \A i \in 1 .. m : ss[i] \in Seq(Int)
  BY <1>0
<1>3. tt \in Seq(Seq(Int)) /\ Len(tt) = m /\ \A i \in 1 .. m : tt[i] = Moved(ss[i], b)
  <2>1. \A i \in 1 .. m : Moved(ss[i], b) \in Seq(Int)
    BY <1>2, MovedIs
  <2> QED
    BY <1>1, <1>2, <2>1
<1>4. PICK f \in [0 .. m -> Seq(Int)] :
        /\ f[0] = << >> /\ \A i \in 1 .. m : f[i] = f[i - 1] \o ss[i]
        /\ FlattenSeq(ss) = f[m]
  BY <1>0, FlattenIs
<1>5. PICK g \in [0 .. m -> Seq(Int)] :
        /\ g[0] = << >> /\ \A i \in 1 .. m : g[i] = g[i - 1] \o tt[i]
        /\ FlattenSeq(tt) = g[m]
  BY <1>3, FlattenIs
<1> DEFINE S == {k \in 0 .. m : Moved(f[k], b) = g[k]}
<1>6. 0 \in S
  BY <1>4, <1>5, MovedEmpty
<1>7. ASSUME NEW k \in 0 .. m - 1, k \in S PROVE k + 1 \in S
  <2>1. k + 1 \in 1 .. m /\ (k + 1) - 1 = k /\ k \in 0 .. m /\ k + 1 \in 0 .. m
    OBVIOUS
  <2>2. f[k + 1] = f[k] \o ss[k + 1] /\ g[k + 1] = g[k] \o tt[k + 1]
    BY <1>4, <1>5, <2>1
  <2>3. PICK u \in Seq(Int), v \in Seq(Int) : u = f[k] /\ v = ss[k + 1]
    BY <1>2, <2>1
  <2>4. Moved(u \o v, b) = Moved(u, b) \o Moved(v, b)
    BY MovedConcat
  <2>5. Moved(f[k + 1], b) = g[k + 1]
    BY <1>3, <1>7, <2>1, <2>2, <2>3, <2>4
  <2> QED
    BY <2>1, <2>5
<1>8. m \in S
  <2> HIDE DEF S
  <2>1. 0 .. m \subseteq S
    BY <1>6, <1>7, InductionUpto
  <2> QED
    BY <2>1
<1>9. Moved(f[m], b) = g[m]
  BY <1>8
<1> QED
  BY <1>1, <1>4, <1>5, <1>9

LEMMA ListsOfDepth ==
  ASSUME NEW d \in 0 .. Depth
  PROVE  /\ Lists[d + 1] = Seq(EntriesOver(Lists[d]))
         /\ Lists[d + 1] \subseteq AllLists /\ Lists[d] \subseteq AllLists
         /\ EntriesOver(Lists[d]) \subseteq EntriesOver(AllLists)
         /\ Lists[d] \subseteq Lists[d + 1]
<1>1. Depth \in Nat /\ d \in Nat /\ d + 1 \in Nat /\ Depth + 1 \in Nat /\ d <= Depth + 1 /\ d + 1 <= Depth + 1
  BY TypesAssumption
<1>2. Lists[d + 1] \subseteq AllLists /\ Lists[d] \subseteq AllLists
  BY <1>1, ListsMonotonic DEF AllLists
<1>3. EntriesOver(Lists[d]) \subseteq EntriesOver(AllLists)
  BY <1>2 DEF EntriesOver
<1> QED
  BY <1>1, <1>2, <1>3, ListsAre, ListsGrow

(* A list base bytes further. *)
ListAt(bl, base) == [i \in DOMAIN bl |-> [bl[i] EXCEPT !.ofs = base + @]]

LEMMA EntryAt ==
  ASSUME NEW X, NEW b \in EntriesOver(X), NEW base \in Int
  PROVE  /\ [b EXCEPT !.ofs = base + @] \in EntriesOver(X)
         /\ [b EXCEPT !.ofs = base + @].sub = b.sub
         /\ [b EXCEPT !.ofs = base + @].ofs = base + b.ofs
         /\ [b EXCEPT !.ofs = base + @].count = b.count
         /\ [b EXCEPT !.ofs = base + @].incr = b.incr
         /\ [b EXCEPT !.ofs = base + @].height = b.height
BY DEF EntriesOver

LEMMA ListAtTyped ==
  ASSUME NEW X, NEW bl \in Seq(EntriesOver(X)), NEW base \in Int
  PROVE  /\ ListAt(bl, base) \in Seq(EntriesOver(X)) /\ Len(ListAt(bl, base)) = Len(bl)
         /\ \A i \in 1 .. Len(bl) : ListAt(bl, base)[i] = [bl[i] EXCEPT !.ofs = base + @]
<1>1. \A i \in 1 .. Len(bl) : bl[i] \in EntriesOver(X)
  OBVIOUS
<1>2. \A i \in 1 .. Len(bl) : [bl[i] EXCEPT !.ofs = base + @] \in EntriesOver(X)
  BY <1>1, EntryAt
<1>3. PICK Y : Y = EntriesOver(X)
  OBVIOUS
<1>4. bl \in Seq(Y) /\ Len(bl) \in Nat /\ DOMAIN bl = 1 .. Len(bl)
  BY <1>3
<1>5. ListAt(bl, base) \in Seq(Y) /\ Len(ListAt(bl, base)) = Len(bl)
  BY <1>2, <1>3, <1>4 DEF ListAt
<1> QED
  BY <1>3, <1>4, <1>5 DEF ListAt

LEMMA EntryOffsetsAt ==
  ASSUME NEW b \in EntriesOver(AllLists), NEW base \in Int
  PROVE  EntryOffsets([b EXCEPT !.ofs = base + @]) = Moved(EntryOffsets(b), base)
<1>1. b.sub \in AllLists /\ b.ofs \in Int /\ b.count \in Int /\ b.incr \in Int
  BY DEF EntriesOver
<1>2. PICK bk \in Seq(Int) : bk = IF b.sub = NoBlocklist THEN <<0>> ELSE CodeFixed[b.sub]
  BY <1>1, CodeFixedIs, ZeroOffset
<1>3. PICK c : c = [b EXCEPT !.ofs = base + @]
  OBVIOUS
<1>4. c.sub = b.sub /\ c.ofs = base + b.ofs /\ c.count = b.count /\ c.incr = b.incr
  BY <1>3, EntryAt
<1>5. EntryOffsets(c) = Row(bk, base + b.ofs, b.incr, b.count) /\ EntryOffsets(b) = Row(bk, b.ofs, b.incr, b.count)
  BY <1>2, <1>4 DEF EntryOffsets
<1>6. Moved(Row(bk, b.ofs, b.incr, b.count), base) = Row(bk, base + b.ofs, b.incr, b.count)
  BY <1>1, MovedRow
<1> QED
  BY <1>3, <1>5, <1>6

LEMMA CodeFixedAt ==
  ASSUME NEW bl \in AllLists, NEW base \in Int, ListAt(bl, base) \in AllLists
  PROVE  CodeFixed[ListAt(bl, base)] = Moved(CodeFixed[bl], base)
<1>1. bl \in Seq(EntriesOver(AllLists)) /\ \A i \in DOMAIN bl : bl[i] \in EntriesOver(AllLists)
  BY EntriesOfLists
<1>2. PICK m \in Nat : m = Len(bl) /\ DOMAIN bl = 1 .. m
  BY <1>1
<1>a. PICK al : al = ListAt(bl, base)
  OBVIOUS
<1>3. /\ al = ListAt(bl, base) /\ DOMAIN al = 1 .. m
      /\ \A i \in 1 .. m : al[i] = [bl[i] EXCEPT !.ofs = base + @]
  BY <1>2, <1>a DEF ListAt
<1>4. PICK ps : ps = [i \in DOMAIN bl |-> EntryOffsets(bl[i])]
  OBVIOUS
<1>5. ps \in Seq(Seq(Int)) /\ DOMAIN ps = 1 .. m /\ CodeFixed[bl] = FlattenSeq(ps)
  BY <1>2, <1>4, CodeFixedIs, CodeFixedParts
<1>6. \A i \in 1 .. m : EntryOffsets(al[i]) = Moved(ps[i], base)
  BY <1>1, <1>2, <1>3, <1>4, EntryOffsetsAt
<1>7. [i \in DOMAIN al |-> EntryOffsets(al[i])] = [i \in DOMAIN ps |-> Moved(ps[i], base)]
  BY <1>3, <1>5, <1>6
<1>8. CodeFixed[al] = FlattenSeq([i \in DOMAIN al |-> EntryOffsets(al[i])])
  BY <1>3, CodeFixedIs
<1>9. Moved(FlattenSeq(ps), base) = FlattenSeq([i \in DOMAIN ps |-> Moved(ps[i], base)])
  BY <1>5, MovedFlatten
<1> QED
  BY <1>3, <1>5, <1>7, <1>8, <1>9
-----------------------------------------------------------------------------
(* ConcatBlocklists and BlocklistOfArrayType: what the lists they make     *)
(* stand for.                                                              *)
Joins(b1, b2, base) == b1 # NoBlocklist /\ b2 # NoBlocklist /\ Fit(Last(b1), b2[1], base)
Joined(e, f) == [f EXCEPT !.ofs = e.ofs, !.count = e.count + @]

LEMMA FrontLast ==
  ASSUME NEW X, NEW s \in Seq(X), s # << >>
  PROVE  /\ Front(s) \in Seq(X) /\ Last(s) \in X /\ Len(s) \in Nat \ {0} /\ Len(Front(s)) = Len(s) - 1
         /\ s = Append(Front(s), Last(s)) /\ s = Front(s) \o <<Last(s)>>
         /\ \A i \in 1 .. Len(s) - 1 : Front(s)[i] = s[i]
<1>0. PICK m \in Nat \ {0} : m = Len(s)
  BY EmptySeq
<1>1. PICK f : f = Front(s)
  OBVIOUS
<1>2. f = SubSeq(s, 1, m - 1)
  BY <1>0, <1>1 DEF Front
<1>3. f \in Seq(X) /\ Len(f) = m - 1 /\ \A i \in 1 .. m - 1 : f[i] = s[i]
  BY <1>0, <1>2, SubSeqProperties
<1>4. Last(s) = s[m] /\ s[m] \in X
  BY <1>0 DEF Last
<1>5. /\ Append(f, s[m]) \in Seq(X) /\ Len(Append(f, s[m])) = Len(f) + 1
      /\ \A i \in 1 .. Len(f) : Append(f, s[m])[i] = f[i]
      /\ Append(f, s[m])[Len(f) + 1] = s[m]
  BY <1>3, <1>4, AppendProperties
<1>6. \A i \in 1 .. m : Append(f, s[m])[i] = s[i]
  BY <1>0, <1>3, <1>5
<1>7. Append(f, s[m]) = s
  BY <1>0, <1>3, <1>5, <1>6, SeqEqual
<1>8. Append(f, s[m]) = f \o <<s[m]>>
  BY <1>3, <1>4, AppendIsConcat
<1> QED
  BY <1>0, <1>1, <1>3, <1>4, <1>7, <1>8

LEMMA HeadTail ==
  ASSUME NEW X, NEW s \in Seq(X), s # << >>
  PROVE  /\ s[1] \in X /\ Tail(s) \in Seq(X) /\ s = <<s[1]>> \o Tail(s)
         /\ Len(Tail(s)) = Len(s) - 1 /\ \A i \in 1 .. Len(s) - 1 : Tail(s)[i] = s[i + 1]
<1>0. PICK m \in Nat \ {0} : m = Len(s)
  BY EmptySeq
<1>1. PICK t : t = Tail(s)
  OBVIOUS
<1>2. t \in Seq(X) /\ Len(t) = m - 1 /\ \A i \in 1 .. m - 1 : t[i] = s[i + 1]
  BY <1>0, <1>1, HeadTailProperties
<1>3. s[1] \in X /\ <<s[1]>> \in Seq(X) /\ Len(<<s[1]>>) = 1
  BY <1>0
<1>4. PICK h \in Seq(X) : h = <<s[1]>> /\ Len(h) = 1 /\ h[1] = s[1]
  BY <1>3
<1>5. /\ h \o t \in Seq(X) /\ Len(h \o t) = Len(h) + Len(t)
      /\ \A i \in 1 .. Len(h) + Len(t) : (h \o t)[i] = IF i <= Len(h) THEN h[i] ELSE t[i - Len(h)]
  BY <1>2, <1>4, ConcatProperties
<1>6. \A i \in 1 .. m : (h \o t)[i] = s[i]
  <2> TAKE i \in 1 .. m
  <2>1. CASE i = 1
    BY <1>2, <1>4, <1>5, <2>1
  <2>2. CASE i # 1
    <3>1. i - 1 \in 1 .. m - 1 /\ (i - 1) + 1 = i /\ ~(i <= 1) /\ i \in 1 .. 1 + (m - 1)
      BY <2>2
    <3>2. t[i - 1] = s[i]
      BY <1>2, <3>1
    <3>3. (h \o t)[i] = t[i - 1]
      BY <1>2, <1>4, <1>5, <3>1
    <3> QED
      BY <3>2, <3>3
  <2> QED
    BY <2>1, <2>2
<1>7. h \o t = s
  BY <1>0, <1>2, <1>4, <1>5, <1>6, SeqEqual
<1> QED
  BY <1>0, <1>1, <1>2, <1>3, <1>4, <1>7

Regroups(s, t, u, v) == (s \o (t \o u)) \o v = (s \o t) \o (u \o v)

LEMMA RegroupsAll ==
  ASSUME NEW X, NEW s \in Seq(X), NEW t \in Seq(X), NEW u \in Seq(X), NEW v \in Seq(X)
  PROVE  Regroups(s, t, u, v)
<1>1. s \o t \in Seq(X) /\ u \o v \in Seq(X)
  BY ConcatProperties
<1>2. (s \o t) \o u = s \o (t \o u)
  BY ConcatAssociative
<1>3. ((s \o t) \o u) \o v = (s \o t) \o (u \o v)
  BY SMTT(30), <1>1, ConcatAssociative
<1> QED
  BY <1>2, <1>3 DEF Regroups

LEMMA JoinedEntry ==
  ASSUME NEW X, NEW e \in EntriesOver(X), NEW f \in EntriesOver(X)
  PROVE  /\ Joined(e, f) \in EntriesOver(X) /\ Joined(e, f).sub = f.sub /\ Joined(e, f).ofs = e.ofs
         /\ Joined(e, f).count = e.count + f.count /\ Joined(e, f).incr = f.incr
         /\ Joined(e, f).height = f.height
<1>1. /\ e.ofs \in Int /\ e.count \in Int /\ f.sub \in X /\ f.count \in Int /\ f.incr \in Int
      /\ f.height \in Int
      /\ f = [sub |-> f.sub, ofs |-> f.ofs, count |-> f.count, incr |-> f.incr, height |-> f.height]
  BY DEF EntriesOver
<1>2. Joined(e, f) = [sub |-> f.sub, ofs |-> e.ofs, count |-> e.count + f.count, incr |-> f.incr,
                      height |-> f.height]
  <2>1. PICK su, fo, co, ic, he :
          f = [sub |-> su, ofs |-> fo, count |-> co, incr |-> ic, height |-> he] /\ co \in Int
    BY <1>1
  <2>a. PICK ec \in Int : ec = e.count
    BY <1>1
  <2>2. [f EXCEPT !.ofs = e.ofs] = [sub |-> su, ofs |-> e.ofs, count |-> co, incr |-> ic, height |-> he]
    BY <2>1
  <2>3. PICK g : g = [f EXCEPT !.ofs = e.ofs] /\ g = [sub |-> su, ofs |-> e.ofs, count |-> co, incr |-> ic, height |-> he]
    BY <2>2
  <2>4. PICK z \in Int : z = e.count + g.count
    BY <1>1, <2>1, <2>3
  <2>5. [g EXCEPT !.count = z] = [sub |-> su, ofs |-> e.ofs, count |-> z, incr |-> ic, height |-> he]
    <3>1. PICK fo2 : fo2 = e.ofs
      OBVIOUS
    <3>2. g = [sub |-> su, ofs |-> fo2, count |-> co, incr |-> ic, height |-> he]
      BY <2>3, <3>1
    <3>3. [g EXCEPT !.count = z] = [sub |-> su, ofs |-> fo2, count |-> z, incr |-> ic, height |-> he]
      BY <3>2
    <3> QED
      BY <3>1, <3>3
  <2>6. Joined(e, f) = [g EXCEPT !.count = e.count + g.count]
    BY <2>3 DEF Joined
  <2>7. z = e.count + f.count /\ su = f.sub /\ ic = f.incr /\ he = f.height
    BY <2>1, <2>3, <2>4
  <2> QED
    BY <2>4, <2>5, <2>6, <2>7
<1>3. PICK c \in Int : c = e.count + f.count
  BY <1>1
<1> QED
  BY <1>1, <1>2, <1>3 DEF EntriesOver

LEMMA ConcatIs ==
  ASSUME NEW X, NEW b1 \in Seq(EntriesOver(X)), NEW b2 \in Seq(EntriesOver(X)), NEW base \in Int
  PROVE  /\ ~Joins(b1, b2, base) => ConcatBlocklists(b1, b2, base) = b1 \o ListAt(b2, base)
         /\ Joins(b1, b2, base) => ConcatBlocklists(b1, b2, base)
              = (Front(b1) \o <<Joined(Last(b1), b2[1])>>) \o Tail(ListAt(b2, base))
         /\ ConcatBlocklists(b1, b2, base) \in Seq(EntriesOver(X))
<1>0. PICK Y, al : Y = EntriesOver(X) /\ al = ListAt(b2, base)
  OBVIOUS
<1>a. b1 \in Seq(Y) /\ b2 \in Seq(Y) /\ al \in Seq(Y) /\ Len(al) = Len(b2)
  BY <1>0, ListAtTyped
<1>1. CASE ~Joins(b1, b2, base)
  <2>1. ConcatBlocklists(b1, b2, base) = b1 \o al
    BY <1>0, <1>1 DEF ConcatBlocklists, Joins, ListAt
  <2>2. b1 \o al \in Seq(Y)
    BY <1>a, ConcatProperties
  <2> QED
    BY <1>0, <1>1, <2>1, <2>2
<1>2. CASE Joins(b1, b2, base)
  <2>1. b1 # << >> /\ b2 # << >>
    BY <1>2 DEF Joins, NoBlocklist
  <2>2. al # << >>
    BY <1>a, <2>1
  <2>3. PICK fr \in Seq(Y), la \in Y, ta \in Seq(Y), e \in Y :
          fr = Front(b1) /\ la = Last(b1) /\ ta = Tail(al) /\ e = b2[1]
    BY <1>a, <2>1, <2>2, FrontLast, HeadTail
  <2>4. PICK j \in Y : j = Joined(la, e)
    BY <1>0, <2>3, JoinedEntry
  <2>5. ConcatBlocklists(b1, b2, base) = Append(fr, j) \o ta
    BY <1>0, <1>2, <2>3, <2>4 DEF ConcatBlocklists, Joins, ListAt, Joined
  <2>6. Append(fr, j) = fr \o <<j>> /\ Append(fr, j) \in Seq(Y)
    BY AppendIsConcat, AppendProperties
  <2>7. Append(fr, j) \o ta \in Seq(Y)
    BY <2>6, ConcatProperties
  <2> QED
    BY <1>0, <1>2, <2>3, <2>4, <2>5, <2>6, <2>7
<1> QED
  BY <1>1, <1>2

LEMMA JoinedOffsets ==
  ASSUME NEW e \in EntriesOver(AllLists), NEW f \in EntriesOver(AllLists), NEW base \in Int,
         Fit(e, f, base), e.count \in Nat, f.count \in Nat
  PROVE  EntryOffsets(Joined(e, f)) = EntryOffsets(e) \o EntryOffsets([f EXCEPT !.ofs = base + @])
<1>1. e.sub = f.sub /\ e.incr = f.incr /\ e.ofs + e.count * e.incr = base + f.ofs
  BY DEF Fit
<1>2. /\ e.sub \in AllLists /\ e.ofs \in Int /\ e.count \in Int /\ e.incr \in Int
      /\ f.sub \in AllLists /\ f.ofs \in Int /\ f.count \in Int /\ f.incr \in Int
  BY DEF EntriesOver
<1>3. PICK bk \in Seq(Int) : bk = IF e.sub = NoBlocklist THEN <<0>> ELSE CodeFixed[e.sub]
  BY <1>2, CodeFixedIs, ZeroOffset
<1>4. PICK o \in Int, r \in Int, c \in Nat, d \in Nat : o = e.ofs /\ r = e.incr /\ c = e.count /\ d = f.count
  BY <1>2
<1>5. Row(bk, o, r, c + d) = Row(bk, o, r, c) \o Row(bk, o + c * r, r, d)
  <2>1. \A x, z \in Nat : Row(bk, o, r, x + z) = Row(bk, o, r, x) \o Row(bk, o + x * r, r, z)
    BY RowSplit
  <2> QED
    BY <2>1
<1>6. EntryOffsets(Joined(e, f)) = Row(bk, o, r, c + d)
  BY <1>1, <1>3, <1>4, JoinedEntry DEF EntryOffsets
<1>7. EntryOffsets(e) = Row(bk, o, r, c)
  BY <1>3, <1>4 DEF EntryOffsets
<1>8. EntryOffsets([f EXCEPT !.ofs = base + @]) = Row(bk, base + f.ofs, r, d)
  <2>1. PICK g : g = [f EXCEPT !.ofs = base + @]
    OBVIOUS
  <2>2. g.sub = f.sub /\ g.ofs = base + f.ofs /\ g.count = f.count /\ g.incr = f.incr
    BY <2>1, EntryAt
  <2> QED
    BY <1>1, <1>3, <1>4, <2>1, <2>2 DEF EntryOffsets
<1>9. o + c * r = base + f.ofs
  BY <1>1, <1>4
<1> QED
  BY <1>5, <1>6, <1>7, <1>8, <1>9

(* The offsets of the first list, and those of the second base further. *)
LEMMA ConcatOffsets ==
  ASSUME NEW d \in 0 .. Depth, NEW b1 \in Lists[d + 1], NEW b2 \in Lists[d + 1], NEW base \in Int,
         Joins(b1, b2, base) => Last(b1).count \in Nat /\ b2[1].count \in Nat
  PROVE  /\ ConcatBlocklists(b1, b2, base) \in Lists[d + 1]
         /\ CodeFixed[ConcatBlocklists(b1, b2, base)] = CodeFixed[b1] \o Moved(CodeFixed[b2], base)
<1>0. PICK X, Y, bl, al : /\ X = Lists[d] /\ Y = EntriesOver(X) /\ bl = ConcatBlocklists(b1, b2, base)
                          /\ al = ListAt(b2, base)
  OBVIOUS
<1>1. /\ Lists[d + 1] = Seq(Y) /\ Seq(Y) \subseteq AllLists /\ Y \subseteq EntriesOver(AllLists)
      /\ b1 \in Seq(Y) /\ b2 \in Seq(Y)
  BY <1>0, ListsOfDepth
<1>2. bl \in Seq(Y) /\ al \in Seq(Y) /\ Len(al) = Len(b2)
  BY <1>0, <1>1, ConcatIs, ListAtTyped
<1>3. CodeFixed[al] = Moved(CodeFixed[b2], base)
  BY <1>0, <1>1, <1>2, CodeFixedAt
<1>4. CASE ~Joins(b1, b2, base)
  <2>1. bl = b1 \o al
    BY <1>0, <1>1, <1>4, ConcatIs
  <2>2. CodeFixed[bl] = CodeFixed[b1] \o CodeFixed[al]
    BY <1>1, <1>2, <2>1, CodeFixedConcat
  <2> QED
    BY <1>0, <1>1, <1>2, <1>3, <2>2
<1>5. CASE Joins(b1, b2, base)
  <2>1. b1 # << >> /\ b2 # << >>
    BY <1>5 DEF Joins, NoBlocklist
  <2>2. al # << >>
    BY <1>1, <1>2, <2>1
  <2>3. PICK fr \in Seq(Y), e \in Y, ta \in Seq(Y), f \in Y, g \in Y :
          /\ fr = Front(b1) /\ e = Last(b1) /\ ta = Tail(al) /\ f = b2[1] /\ g = al[1]
          /\ b1 = fr \o <<e>> /\ al = <<g>> \o ta
    <3>1. Front(b1) \in Seq(Y) /\ Last(b1) \in Y /\ b1 = Front(b1) \o <<Last(b1)>>
      BY <1>1, <2>1, FrontLast
    <3>2. Tail(al) \in Seq(Y) /\ al[1] \in Y /\ al = <<al[1]>> \o Tail(al)
      BY <1>2, <2>2, HeadTail
    <3>3. b2[1] \in Y
      BY <1>1, <2>1, HeadTail
    <3> QED
      BY <3>1, <3>2, <3>3
  <2>4. PICK j \in Y : j = Joined(e, f)
    BY <1>0, <2>3, JoinedEntry
  <2>5. bl = (fr \o <<j>>) \o ta
    BY <1>0, <1>1, <1>5, <2>3, <2>4, ConcatIs
  <2>6. /\ <<e>> \in Seq(Y) /\ <<j>> \in Seq(Y) /\ <<g>> \in Seq(Y)
        /\ fr \o <<j>> \in Seq(Y)
    <3>1. <<e>> \in Seq(Y) /\ <<j>> \in Seq(Y) /\ <<g>> \in Seq(Y)
      OBVIOUS
    <3> QED
      BY <3>1, ConcatProperties
  <2>7. /\ CodeFixed[<<e>>] = EntryOffsets(e) /\ CodeFixed[<<j>>] = EntryOffsets(j)
        /\ CodeFixed[<<g>>] = EntryOffsets(g)
    BY <1>1, <2>6, CodeFixedOne
  <2>8. /\ CodeFixed[b1] = CodeFixed[fr] \o EntryOffsets(e)
        /\ CodeFixed[al] = EntryOffsets(g) \o CodeFixed[ta]
        /\ CodeFixed[fr \o <<j>>] = CodeFixed[fr] \o EntryOffsets(j)
        /\ CodeFixed[bl] = CodeFixed[fr \o <<j>>] \o CodeFixed[ta]
    <3>1. CodeFixed[fr \o <<e>>] = CodeFixed[fr] \o CodeFixed[<<e>>]
      BY <1>1, <2>3, <2>6, CodeFixedConcat
    <3>2. CodeFixed[<<g>> \o ta] = CodeFixed[<<g>>] \o CodeFixed[ta]
      BY ZenonT(60), <1>1, <1>2, <2>3, <2>6, CodeFixedConcat
    <3>3. CodeFixed[fr \o <<j>>] = CodeFixed[fr] \o CodeFixed[<<j>>]
      BY <1>1, <2>6, CodeFixedConcat
    <3>4. CodeFixed[(fr \o <<j>>) \o ta] = CodeFixed[fr \o <<j>>] \o CodeFixed[ta]
      BY <1>1, <1>2, <2>5, <2>6, CodeFixedConcat
    <3> QED
      BY <2>3, <2>5, <2>7, <3>1, <3>2, <3>3, <3>4
  <2>9. g = [f EXCEPT !.ofs = base + @]
    <3>1. Len(b2) \in Nat /\ Len(b2) # 0
      BY <1>1, <2>1
    <3>2. 1 \in DOMAIN b2
      BY <1>1, <3>1
    <3>3. al[1] = [b2[1] EXCEPT !.ofs = base + @]
      BY <1>0, <3>2 DEF ListAt
    <3> QED
      BY <2>3, <3>3
  <2>10. EntryOffsets(j) = EntryOffsets(e) \o EntryOffsets(g)
    <3>1. Fit(e, f, base) /\ e.count \in Nat /\ f.count \in Nat
      BY <1>5, <2>3 DEF Joins
    <3> QED
      BY <1>1, <2>4, <2>9, <3>1, JoinedOffsets
  <2>11. /\ CodeFixed[fr] \in Seq(Int) /\ EntryOffsets(e) \in Seq(Int)
         /\ EntryOffsets(g) \in Seq(Int) /\ CodeFixed[ta] \in Seq(Int)
    BY <1>1, CodeFixedParts, EntryOffsetsTyped
  <2>14. CodeFixed[bl] = CodeFixed[b1] \o CodeFixed[al]
    <3>1. Regroups(CodeFixed[fr], EntryOffsets(e), EntryOffsets(g), CodeFixed[ta])
      BY <2>11, RegroupsAll
    <3>2. (CodeFixed[fr] \o (EntryOffsets(e) \o EntryOffsets(g))) \o CodeFixed[ta]
            = (CodeFixed[fr] \o EntryOffsets(e)) \o (EntryOffsets(g) \o CodeFixed[ta])
      BY <3>1 DEF Regroups
    <3> QED
      BY <2>8, <2>10, <3>2
  <2> QED
    BY <1>0, <1>1, <1>2, <1>3, <2>14
<1> QED
  BY <1>4, <1>5
(* Lists without an open array. *)
FixedList(bl) == \A i \in DOMAIN bl : bl[i].count \in Nat \ {0}

LEMMA FixedConcat ==
  ASSUME NEW X, NEW b1 \in Seq(EntriesOver(X)), NEW b2 \in Seq(EntriesOver(X)), NEW base \in Int,
         FixedList(b1), FixedList(b2)
  PROVE  FixedList(ConcatBlocklists(b1, b2, base))
<1>0. PICK Y, bl, al : Y = EntriesOver(X) /\ bl = ConcatBlocklists(b1, b2, base) /\ al = ListAt(b2, base)
  OBVIOUS
<1>1. b1 \in Seq(Y) /\ b2 \in Seq(Y) /\ al \in Seq(Y) /\ Len(al) = Len(b2)
  BY <1>0, ListAtTyped
<1>2. \A i \in 1 .. Len(al) : al[i].count \in Nat \ {0}
  <2> TAKE i \in 1 .. Len(al)
  <2>1. i \in DOMAIN b2 /\ b2[i] \in EntriesOver(X)
    BY <1>0, <1>1
  <2>2. al[i] = [b2[i] EXCEPT !.ofs = base + @]
    BY <1>0, <2>1 DEF ListAt
  <2>3. al[i].count = b2[i].count
    BY <2>1, <2>2, EntryAt
  <2> QED
    BY <2>1, <2>3 DEF FixedList
<1>3. ASSUME NEW s \in Seq(Y), NEW t \in Seq(Y), \A i \in 1 .. Len(s) : s[i].count \in Nat \ {0},
             \A i \in 1 .. Len(t) : t[i].count \in Nat \ {0}
      PROVE  \A i \in 1 .. Len(s \o t) : (s \o t)[i].count \in Nat \ {0}
  <2>1. /\ Len(s \o t) = Len(s) + Len(t)
        /\ \A i \in 1 .. Len(s) + Len(t) : (s \o t)[i] = IF i <= Len(s) THEN s[i] ELSE t[i - Len(s)]
    BY ConcatProperties
  <2> TAKE i \in 1 .. Len(s \o t)
  <2>2. Len(s) \in Nat /\ Len(t) \in Nat
    OBVIOUS
  <2>3. CASE i <= Len(s)
    <3>1. i \in 1 .. Len(s) /\ (s \o t)[i] = s[i]
      BY <2>1, <2>2, <2>3
    <3> QED
      BY <1>3, <3>1
  <2>4. CASE ~(i <= Len(s))
    <3>1. i - Len(s) \in 1 .. Len(t) /\ (s \o t)[i] = t[i - Len(s)]
      BY <2>1, <2>2, <2>4
    <3> QED
      BY <1>3, <3>1
  <2> QED
    BY <2>3, <2>4
<1>a. /\ \A i \in 1 .. Len(b1) : b1[i].count \in Nat \ {0}
      /\ \A i \in 1 .. Len(b2) : b2[i].count \in Nat \ {0}
  BY <1>1 DEF FixedList
<1>4. CASE ~Joins(b1, b2, base)
  <2>1. bl = b1 \o al /\ b1 \o al \in Seq(Y)
    BY ZenonT(60), <1>0, <1>1, <1>4, ConcatIs
  <2>2. \A i \in 1 .. Len(b1 \o al) : (b1 \o al)[i].count \in Nat \ {0}
    BY <1>1, <1>2, <1>3, <1>a
  <2>3. DOMAIN bl = 1 .. Len(bl)
    BY <2>1
  <2> QED
    BY <1>0, <2>1, <2>2, <2>3 DEF FixedList
<1>5. CASE Joins(b1, b2, base)
  <2>1. b1 # << >> /\ b2 # << >> /\ al # << >>
    <3>1. b1 # << >> /\ b2 # << >>
      BY <1>5 DEF Joins, NoBlocklist
    <3> QED
      BY <1>1, <3>1
  <2>2. PICK fr \in Seq(Y), e \in Y, ta \in Seq(Y), f \in Y :
          fr = Front(b1) /\ e = Last(b1) /\ ta = Tail(al) /\ f = b2[1]
    <3>1. Front(b1) \in Seq(Y) /\ Last(b1) \in Y
      BY <1>1, <2>1, FrontLast
    <3>2. Tail(al) \in Seq(Y) /\ b2[1] \in Y
      BY <1>1, <2>1, HeadTail
    <3> QED
      BY <3>1, <3>2
  <2>3. PICK j \in Y : j = Joined(e, f) /\ j.count = e.count + f.count
    BY <1>0, <2>2, JoinedEntry
  <2>4. bl = (fr \o <<j>>) \o ta
    BY <1>0, <1>1, <1>5, <2>2, <2>3, ConcatIs
  <2>5. e.count \in Nat \ {0} /\ f.count \in Nat \ {0}
    <3>1. Len(b1) \in 1 .. Len(b1) /\ 1 \in 1 .. Len(b2)
      BY <1>1, <2>1, EmptySeq
    <3> QED
      BY <1>a, <2>2, <3>1 DEF Last
  <2>6. j.count \in Nat \ {0}
    BY <2>3, <2>5
  <2>7. \A i \in 1 .. Len(fr) : fr[i].count \in Nat \ {0}
    <3>1. Len(fr) = Len(b1) - 1 /\ \A i \in 1 .. Len(b1) - 1 : fr[i] = b1[i]
      BY <1>1, <2>1, <2>2, FrontLast
    <3>2. Len(b1) \in Nat
      BY <1>1
    <3> QED
      BY <1>a, <3>1, <3>2
  <2>8. \A i \in 1 .. Len(ta) : ta[i].count \in Nat \ {0}
    <3>1. Len(ta) = Len(al) - 1 /\ \A i \in 1 .. Len(al) - 1 : ta[i] = al[i + 1]
      BY <1>1, <2>1, <2>2, HeadTail
    <3>2. Len(al) \in Nat
      BY <1>1
    <3> QED
      BY <1>2, <3>1, <3>2
  <2>9. PICK js \in Seq(Y) : js = <<j>> /\ Len(js) = 1 /\ js[1] = j
    <3>1. <<j>> \in Seq(Y) /\ Len(<<j>>) = 1 /\ <<j>>[1] = j
      OBVIOUS
    <3> QED
      BY <3>1
  <2>10. \A i \in 1 .. Len(js) : js[i].count \in Nat \ {0}
    BY <2>6, <2>9
  <2>11. PICK u \in Seq(Y) : u = fr \o js
    BY ConcatProperties
  <2>12. \A i \in 1 .. Len(u) : u[i].count \in Nat \ {0}
    BY <1>3, <2>7, <2>10, <2>11
  <2>13. \A i \in 1 .. Len(u \o ta) : (u \o ta)[i].count \in Nat \ {0}
    BY <1>3, <2>8, <2>12
  <2>14. u \o ta \in Seq(Y)
    BY ConcatProperties
  <2>15. bl = u \o ta /\ DOMAIN bl = 1 .. Len(bl)
    BY <2>4, <2>9, <2>11, <2>14
  <2> QED
    BY <1>0, <2>13, <2>15 DEF FixedList
<1> QED
  BY <1>4, <1>5

LEMMA HeightIs ==
  ASSUME NEW X, NEW bl \in Seq(EntriesOver(X))
  PROVE  /\ HeightOfBlocklist(bl) \in Nat
         /\ \A i \in DOMAIN bl : bl[i].height <= HeightOfBlocklist(bl)
<1>0. PICK m \in Nat : m = Len(bl)
  OBVIOUS
<1>1. DOMAIN bl = 1 .. m /\ \A i \in 1 .. m : bl[i].height \in Int
  <2>1. \A i \in 1 .. m : bl[i] \in EntriesOver(X)
    BY <1>0
  <2>2. DOMAIN bl = 1 .. m
    BY <1>0
  <2> QED
    BY <2>1, <2>2 DEF EntriesOver
<1> DEFINE H(k) == {0} \cup {bl[i].height : i \in 1 .. k}
           S == {k \in 0 .. m : \E x \in H(k) : x \in Nat /\ \A y \in H(k) : y <= x}
<1>2. 0 \in S
  OBVIOUS
<1>3. ASSUME NEW k \in 0 .. m - 1, k \in S PROVE k + 1 \in S
  <2>1. PICK x \in H(k) : x \in Nat /\ \A y \in H(k) : y <= x
    BY <1>3
  <2>2. PICK z \in Int : z = bl[k + 1].height
    BY <1>1
  <2>3. H(k + 1) = H(k) \cup {z}
    <3>1. 1 .. k + 1 = 1 .. k \cup {k + 1}
      OBVIOUS
    <3> QED
      BY <2>2, <3>1
  <2> HIDE DEF H
  <2>4. CASE z <= x
    <3>1. x \in H(k + 1) /\ \A y \in H(k + 1) : y <= x
      BY <2>1, <2>3, <2>4
    <3> QED
      BY <2>1, <3>1
  <2>5. CASE ~(z <= x)
    <3>1. H(k) \subseteq Int
      BY <1>1 DEF H
    <3>2. z \in Nat /\ z \in H(k + 1) /\ \A y \in H(k + 1) : y <= z
      BY <2>1, <2>2, <2>3, <2>5, <3>1
    <3> QED
      BY <3>2
  <2> QED
    BY <2>4, <2>5
<1>4. m \in S
  <2> HIDE DEF S
  <2>1. 0 .. m \subseteq S
    BY <1>2, <1>3, InductionUpto
  <2> QED
    BY <2>1
<1>5. PICK x \in H(m) : x \in Nat /\ \A y \in H(m) : y <= x
  BY <1>4
<1>6. H(m) = {0} \cup {b.height : b \in ToSet(bl)}
  <2>1. ToSet(bl) = {bl[i] : i \in 1 .. m}
    BY <1>1 DEF ToSet
  <2> QED
    BY <2>1
<1>7. H(m) \subseteq Int
  BY <1>1
<1>8. HeightOfBlocklist(bl) = CHOOSE y \in H(m) : \A w \in H(m) : y >= w
  <2>1. Max(H(m)) = CHOOSE y \in H(m) : \A w \in H(m) : y >= w
    BY DEF Max
  <2> QED
    BY <1>6, <2>1 DEF HeightOfBlocklist
<1> HIDE DEF H
<1>9. x \in Int /\ \A w \in H(m) : x >= w
  BY <1>5, <1>7
<1>10. HeightOfBlocklist(bl) \in H(m) /\ \A w \in H(m) : HeightOfBlocklist(bl) >= w
  BY <1>5, <1>8, <1>9
<1>11. 0 \in H(m) /\ \A i \in 1 .. m : bl[i].height \in H(m)
  BY DEF H
<1> QED
  BY <1>1, <1>7, <1>10, <1>11

LEMMA RowOfEmpty ==
  ASSUME NEW ofs \in Int, NEW incr \in Int, NEW count \in Nat
  PROVE  Row(<< >>, ofs, incr, count) = << >>
<1>0. PICK bk \in Seq(Int) : bk = << >>
  BY EmptySeq
<1> DEFINE S == {k \in Nat : Row(bk, ofs, incr, k) = << >>}
<1>1. 0 \in S
  BY RowParts
<1>2. ASSUME NEW k \in Nat, k \in S PROVE k + 1 \in S
  <2>1. Row(bk, ofs, incr, k + 1) = Row(bk, ofs, incr, k) \o Moved(bk, ofs + k * incr)
    BY RowNext
  <2>2. Moved(bk, ofs + k * incr) = << >>
    BY <1>0, MovedEmpty
  <2>3. Row(bk, ofs, incr, k + 1) = << >> \o << >>
    BY <1>2, <2>1, <2>2
  <2>4. << >> \o << >> = << >>
    BY <1>0, ConcatEmptySeq
  <2> QED
    BY <2>3, <2>4
<1>3. count \in S
  <2> HIDE DEF S
  <2> QED
    BY <1>1, <1>2, Induction
<1> QED
  BY <1>0, <1>3
LEMMA OneEntry ==
  ASSUME NEW X, NEW bl \in Seq(EntriesOver(X)), Len(bl) = 1
  PROVE  bl = <<bl[1]>> /\ bl[1] \in EntriesOver(X) /\ DOMAIN bl = {1} /\ bl # NoBlocklist
<1>1. PICK Y : Y = EntriesOver(X)
  OBVIOUS
<1>2. bl \in Seq(Y) /\ DOMAIN bl = 1 .. 1 /\ 1 .. 1 = {1}
  BY <1>1
<1>3. bl[1] \in Y
  BY <1>2
<1>4. bl # << >>
  BY EmptySeq
<1>5. <<bl[1]>> \in Seq(Y) /\ Len(<<bl[1]>>) = 1 /\ <<bl[1]>>[1] = bl[1]
  BY <1>3
<1>6. bl = <<bl[1]>>
  BY <1>2, <1>5, SeqEqual
<1> QED
  BY <1>1, <1>2, <1>3, <1>4, <1>6 DEF NoBlocklist

LEMMA AdjustIncrRight ==
  ASSUME NEW d \in 0 .. Depth, NEW bl \in Lists[d + 1], NEW size \in Int
  PROVE  /\ AdjustIncr(bl, size) \in Lists[d + 1]
         /\ CodeFixed[AdjustIncr(bl, size)] = CodeFixed[bl]
         /\ FixedList(bl) => FixedList(AdjustIncr(bl, size))
<1>0. PICK X, Y : X = Lists[d] /\ Y = EntriesOver(X)
  OBVIOUS
<1>1. Lists[d + 1] = Seq(Y) /\ Seq(Y) \subseteq AllLists /\ Y \subseteq EntriesOver(AllLists) /\ bl \in Seq(Y)
  BY <1>0, ListsOfDepth
<1>2. CASE ~(Len(bl) = 1 /\ bl[1].count = 1)
  BY <1>2 DEF AdjustIncr
<1>3. CASE Len(bl) = 1 /\ bl[1].count = 1
  <2>1. PICK e \in Y : bl = <<e>> /\ e = bl[1] /\ e.count = 1
    BY <1>0, <1>1, <1>3, OneEntry
  <2>2. PICK f : f = [e EXCEPT !.incr = size]
    OBVIOUS
  <2>3. f \in Y /\ f.sub = e.sub /\ f.ofs = e.ofs /\ f.count = 1
    BY <1>0, <2>1, <2>2 DEF EntriesOver
  <2>4. AdjustIncr(bl, size) = <<f>>
    BY <1>3, <2>1, <2>2 DEF AdjustIncr
  <2>5. <<e>> \in Seq(Y) /\ <<f>> \in Seq(Y)
    BY <2>3
  <2>6. CodeFixed[<<e>>] = EntryOffsets(e) /\ CodeFixed[<<f>>] = EntryOffsets(f)
    BY <1>1, <2>1, <2>3, <2>5, CodeFixedOne
  <2>7. EntryOffsets(e) = EntryOffsets(f)
    <3>1. e \in EntriesOver(AllLists) /\ f \in EntriesOver(AllLists)
      BY <1>1, <2>1, <2>3
    <3>2. e.sub \in AllLists /\ e.ofs \in Int /\ e.incr \in Int /\ f.incr \in Int
      BY <3>1 DEF EntriesOver
    <3>3. PICK bk \in Seq(Int) : bk = IF e.sub = NoBlocklist THEN <<0>> ELSE CodeFixed[e.sub]
      BY <3>2, CodeFixedIs, ZeroOffset
    <3>4. Row(bk, e.ofs, e.incr, 1) = Moved(bk, e.ofs) /\ Row(bk, e.ofs, f.incr, 1) = Moved(bk, e.ofs)
      BY <3>2, RowOne
    <3> QED
      BY <2>1, <2>3, <3>3, <3>4 DEF EntryOffsets
  <2>8. FixedList(<<f>>)
    BY <2>3 DEF FixedList
  <2> QED
    BY <1>1, <2>1, <2>4, <2>5, <2>6, <2>7, <2>8
<1> QED
  BY <1>2, <1>3

(* The elements of an array: size bytes apart, each with the offsets of    *)
(* the element's list.                                                     *)
LEMMA ArrayOffsets ==
  ASSUME NEW d \in 0 .. Depth, NEW bl \in Lists[d], NEW len \in Nat \ {0}, NEW size \in Int, FixedList(bl)
  PROVE  /\ BlocklistOfArrayType(bl, len, size) \in Lists[d + 1]
         /\ CodeFixed[BlocklistOfArrayType(bl, len, size)] = Row(CodeFixed[bl], 0, size, len)
         /\ FixedList(BlocklistOfArrayType(bl, len, size))
<1>0. PICK X, Y, al : X = Lists[d] /\ Y = EntriesOver(X) /\ al = BlocklistOfArrayType(bl, len, size)
  OBVIOUS
<1>1. /\ Lists[d + 1] = Seq(Y) /\ Seq(Y) \subseteq AllLists /\ Y \subseteq EntriesOver(AllLists)
      /\ bl \in Seq(Y) /\ bl \in X
  BY <1>0, ListsOfDepth
<1>2. CodeFixed[bl] \in Seq(Int)
  BY <1>1, CodeFixedParts
<1>3. CASE bl = NoBlocklist
  <2>1. al = NoBlocklist
    <3>1. Len(bl) # 1
      BY <1>3 DEF NoBlocklist
    <3> QED
      BY <1>0, <1>3, <3>1 DEF BlocklistOfArrayType
  <2>2. Row(<< >>, 0, size, len) = << >>
    BY RowOfEmpty
  <2> QED
    BY <1>0, <1>1, <1>3, <2>1, <2>2, CodeFixedEmpty
<1>4. CASE bl # NoBlocklist /\ Len(bl) = 1 /\ (bl[1].count = 1 \/ RowOfRows(bl[1], size))
  <2>1. PICK e \in Y : bl = <<e>> /\ e = bl[1]
    BY <1>0, <1>1, <1>4, OneEntry
  <2>2. PICK c \in Nat \ {0} : c = e.count
    BY <1>4, <2>1 DEF FixedList
  <2>a. /\ e \in EntriesOver(AllLists) /\ e.sub \in AllLists /\ e.ofs \in Int /\ e.incr \in Int
    BY <1>1, <2>1 DEF EntriesOver
  <2>3. PICK bk \in Seq(Int), o \in Int : o = e.ofs /\ bk = IF e.sub = NoBlocklist THEN <<0>> ELSE CodeFixed[e.sub]
    BY <2>a, CodeFixedIs, ZeroOffset
  <2>4. PICK r \in Int : c * r = size /\ al = <<[e EXCEPT !.count = c * len, !.incr = r]>>
                         /\ Row(bk, o, e.incr, c) = Row(bk, o, r, c)
    <3>1. CASE c = 1
      <4>1. al = <<[e EXCEPT !.count = len, !.incr = size]>>
        BY <1>0, <1>4, <2>1, <2>2, <3>1 DEF BlocklistOfArrayType
      <4>2. Row(bk, o, e.incr, 1) = Moved(bk, o) /\ Row(bk, o, size, 1) = Moved(bk, o)
        BY <2>a, RowOne
      <4>3. c * size = size /\ c * len = len
        BY <3>1
      <4> QED
        BY <3>1, <4>1, <4>2, <4>3
    <3>2. CASE c # 1
      <4>1. RowOfRows(e, size) /\ al = <<[e EXCEPT !.count = @ * len]>>
        <5>1. RowOfRows(e, size) /\ RowOfRows(bl[1], size) /\ bl[1].count # 1 /\ Len(bl) = 1
          BY <1>4, <2>1, <2>2, <3>2
        <5>2. PICK row : row = <<[e EXCEPT !.count = @ * len]>> /\ row = <<[bl[1] EXCEPT !.count = @ * len]>>
          BY <2>1
        <5>3. len = 1 => row = bl
          <6>1. ASSUME len = 1 PROVE [e EXCEPT !.count = @ * len] = e
            <7>1. PICK x : x = e.count * len
              OBVIOUS
            <7>2. x = e.count
              BY <2>2, <6>1, <7>1
            <7>3. [e EXCEPT !.count = @ * len] = [e EXCEPT !.count = x]
              BY <7>1
            <7>4. [e EXCEPT !.count = e.count] = e
              BY <2>a DEF EntriesOver
            <7> QED
              BY <7>2, <7>3, <7>4
          <6> QED
            BY <2>1, <5>2, <6>1
        <5>4. al = row
          BY <1>0, <1>4, <5>1, <5>2, <5>3 DEF BlocklistOfArrayType
        <5> QED
          BY <5>1, <5>2, <5>4
      <4>2. c * e.incr = size
        BY <2>2, <4>1 DEF RowOfRows
      <4>3. [e EXCEPT !.count = @ * len] = [e EXCEPT !.count = c * len, !.incr = e.incr]
        BY <2>2, <2>a DEF EntriesOver
      <4> QED
        BY <2>a, <4>1, <4>2, <4>3
    <3> QED
      BY <3>1, <3>2
  <2>5. PICK m \in Nat \ {0} : m = c * len
    OBVIOUS
  <2>6. PICK f : f = [e EXCEPT !.count = m, !.incr = r]
    OBVIOUS
  <2>7. f \in Y /\ f.sub = e.sub /\ f.ofs = o /\ f.count = m /\ f.incr = r
    <3>1. PICK su, of, co, ic, he : e = [sub |-> su, ofs |-> of, count |-> co, incr |-> ic, height |-> he]
                                    /\ su \in X /\ of \in Int /\ he \in Int
      BY <1>0 DEF EntriesOver
    <3>2. f = [sub |-> su, ofs |-> of, count |-> m, incr |-> r, height |-> he]
      BY <2>6, <3>1
    <3>3. f \in Y
      BY <1>0, <3>1, <3>2 DEF EntriesOver
    <3> QED
      BY <2>3, <3>1, <3>2, <3>3
  <2>8. al = <<f>> /\ <<e>> \in Seq(Y) /\ <<f>> \in Seq(Y)
    BY <2>4, <2>5, <2>6, <2>7
  <2>9. CodeFixed[bl] = Row(bk, o, r, c)
    <3>1. CodeFixed[<<e>>] = EntryOffsets(e)
      BY <1>1, <2>8, CodeFixedOne
    <3>2. EntryOffsets(e) = Row(bk, o, e.incr, c)
      BY <2>2, <2>3 DEF EntryOffsets
    <3> QED
      BY <2>1, <2>4, <3>1, <3>2
  <2>10. CodeFixed[al] = Row(bk, o, r, m)
    <3>1. CodeFixed[<<f>>] = EntryOffsets(f)
      BY <1>1, <2>7, <2>8, CodeFixedOne
    <3>2. EntryOffsets(f) = Row(bk, o, r, m)
      BY <2>3, <2>7 DEF EntryOffsets
    <3> QED
      BY <2>8, <3>1, <3>2
  <2>11. Row(bk, o, r, c * len) = Row(Row(bk, o, r, c), 0, c * r, len)
    BY RowOfRow
  <2>12. FixedList(al)
    BY <2>7, <2>8 DEF FixedList
  <2> QED
    BY <1>0, <1>1, <2>4, <2>5, <2>8, <2>9, <2>10, <2>11, <2>12
<1>5. CASE bl # NoBlocklist /\ ~(Len(bl) = 1 /\ (bl[1].count = 1 \/ RowOfRows(bl[1], size))) /\ len = 1
  <2>1. al = bl
    BY <1>0, <1>5 DEF BlocklistOfArrayType
  <2>2. Row(CodeFixed[bl], 0, size, 1) = Moved(CodeFixed[bl], 0)
    BY <1>2, RowOne
  <2>3. Moved(CodeFixed[bl], 0) = CodeFixed[bl]
    BY <1>2, MovedZero
  <2> QED
    BY <1>0, <1>1, <1>5, <2>1, <2>2, <2>3
<1>6. CASE bl # NoBlocklist /\ ~(Len(bl) = 1 /\ (bl[1].count = 1 \/ RowOfRows(bl[1], size))) /\ len # 1
  <2>1. PICK h : al = <<Entry(bl, 0, len, size, h)>> /\ h \in Int
    <3>1. HeightOfBlocklist(bl) \in Nat
      BY <1>0, <1>1, HeightIs
    <3> QED
      BY <1>0, <1>6, <3>1 DEF BlocklistOfArrayType
  <2>2. PICK f : f = Entry(bl, 0, len, size, h)
    OBVIOUS
  <2>3. f \in Y /\ f.sub = bl /\ f.ofs = 0 /\ f.count = len /\ f.incr = size
    BY <1>0, <1>1, <2>1, <2>2 DEF EntriesOver, Entry
  <2>4. <<f>> \in Seq(Y)
    BY <2>3
  <2>5. CodeFixed[<<f>>] = EntryOffsets(f)
    BY <1>1, <2>3, <2>4, CodeFixedOne
  <2>6. EntryOffsets(f) = Row(CodeFixed[bl], 0, size, len)
    BY <1>6, <2>3 DEF EntryOffsets
  <2>7. FixedList(<<f>>)
    BY <2>3 DEF FixedList
  <2> QED
    BY <1>0, <1>1, <2>1, <2>2, <2>4, <2>5, <2>6, <2>7
<1> QED
  BY <1>3, <1>4, <1>5, <1>6
-----------------------------------------------------------------------------
(* The types of the program and their lists. *)
TypeRank == [t \in AllTypes |-> t.depth]

LEMMA TypeParts ==
  ASSUME NEW t \in AllTypes
  PROVE  /\ t.depth \in 0 .. Depth /\ t.size \in Nat /\ TypeRank[t] = t.depth
         /\ t.form \in {"pointer", "procedure", "basic", "array", "record", "open"}
         /\ t.form \in {"pointer", "procedure"} => t.size = 4
         /\ t.form = "array" =>
              /\ t.elem \in AllTypes /\ t.elem.depth < t.depth /\ t.elem.form # "open"
              /\ t.len \in Nat \ {0} /\ t.size = t.len * t.elem.size
         /\ t.form = "open" =>
              /\ t.elem \in AllTypes /\ t.elem.depth < t.depth /\ t.elem.form # "open"
              /\ t.odim \in Nat \ {0} /\ t.elem.size \in Nat
         /\ t.form = "record" =>
              /\ t.fields \in Seq([ty : AllTypes, addr : Nat])
              /\ \A i \in DOMAIN t.fields :
                   LET fld == t.fields[i]
                   IN /\ fld.ty \in AllTypes /\ fld.ty.depth < t.depth /\ fld.ty.form # "open"
                      /\ fld.addr \in Nat /\ fld.addr + fld.ty.size <= t.size
              /\ \A i, j \in DOMAIN t.fields :
                   i # j => Apart(VarBytes(t.fields[i]), VarBytes(t.fields[j]))
BY TypesAssumption DEF Declared, WellFormed, PartOf, TypeRank

LEMMA TypeRankIs == TypeRank \in [AllTypes -> Nat]
BY TypeParts DEF TypeRank

(* The list of a declaration after the other. *)
ListsOfDecls(decls, bls, m, d) ==
  /\ m \in Nat /\ m = Len(decls)
  /\ \A i \in 1 .. m : bls[decls[i].ty] \in Lists[d + 1] /\ decls[i].addr \in Int

IsConcat(f, decls, bls, m, d) ==
  /\ f \in [0 .. m -> Lists[d + 1]]
  /\ f[0] = NoBlocklist
  /\ \A i \in 1 .. m : f[i] = ConcatBlocklists(f[i - 1], bls[decls[i].ty], decls[i].addr)
  /\ ConcatDecls(decls, bls) = f[m]

LEMMA ConcatDeclsIs ==
  ASSUME NEW d \in 0 .. Depth, NEW decls, NEW bls, NEW m, ListsOfDecls(decls, bls, m, d)
  PROVE  \E f : IsConcat(f, decls, bls, m, d)
<1>0. /\ m \in Nat /\ m = Len(decls)
      /\ \A i \in 1 .. m : bls[decls[i].ty] \in Lists[d + 1] /\ decls[i].addr \in Int
  BY DEF ListsOfDecls
<1> DEFINE V == Lists[d + 1]
           G == [p \in (1 .. m) \X V |-> ConcatBlocklists(p[2], bls[decls[p[1]].ty], decls[p[1]].addr)]
           Body(g) == [i \in 0 .. m |->
                         IF i = 0 THEN NoBlocklist
                         ELSE ConcatBlocklists(g[i - 1], bls[decls[i].ty], decls[i].addr)]
<1>1. \A i \in 1 .. m, bl \in V : ConcatBlocklists(bl, bls[decls[i].ty], decls[i].addr) \in V
  <2> TAKE i \in 1 .. m, bl \in V
  <2>1. PICK X : X = Lists[d]
    OBVIOUS
  <2>2. V = Seq(EntriesOver(X))
    BY <2>1, ListsOfDepth
  <2>3. PICK b2, a : b2 = bls[decls[i].ty] /\ a = decls[i].addr
    OBVIOUS
  <2>4. b2 \in V /\ a \in Int
    BY <1>0, <2>3
  <2> HIDE DEF V
  <2> QED
    BY <2>2, <2>3, <2>4, ConcatIs
<1>2. StepOn(G, m, V)
  <2> HIDE DEF V
  <2> QED
    BY <1>1 DEF StepOn
<1>3. NoBlocklist \in V
  <2>1. d + 1 \in Nat
    BY TypesAssumption
  <2> QED
    BY <2>1, NoListIn
<1>4. PICK f : IsUpto(f, m, V, NoBlocklist, G)
  <2> HIDE DEF V, G
  <2> QED
    BY <1>0, <1>2, <1>3, UptoExists
<1>5. \E g : g = Body(g)
  <2>1. f \in [0 .. m -> V] /\ f[0] = NoBlocklist /\ \A i \in 1 .. m : f[i] = G[<<i, f[i - 1]>>]
    BY <1>4 DEF IsUpto
  <2>2. \A i \in 1 .. m : f[i] = ConcatBlocklists(f[i - 1], bls[decls[i].ty], decls[i].addr)
    <3> TAKE i \in 1 .. m
    <3>1. i - 1 \in 0 .. m
      BY <1>0
    <3>2. f[i - 1] \in V
      BY <2>1, <3>1
    <3> HIDE DEF V
    <3>3. G[<<i, f[i - 1]>>] = ConcatBlocklists(f[i - 1], bls[decls[i].ty], decls[i].addr)
      BY <3>2
    <3> QED
      BY <2>1, <3>3
  <2>3. \A i \in 0 .. m : f[i] = IF i = 0 THEN NoBlocklist
                                 ELSE ConcatBlocklists(f[i - 1], bls[decls[i].ty], decls[i].addr)
    <3> TAKE i \in 0 .. m
    <3>1. i = 0 \/ i \in 1 .. m
      BY <1>0
    <3> QED
      BY <2>1, <2>2, <3>1
  <2>4. f = [i \in 0 .. m |-> f[i]]
    BY <2>1
  <2>5. f = Body(f)
    BY <2>3, <2>4
  <2> QED
    BY <2>5
<1>6. PICK g : g = Body(g) /\ ConcatDecls(decls, bls) = g[m]
  <2> DEFINE c == CHOOSE g : g = Body(g)
  <2>1. c = Body(c)
    <3> HIDE DEF Body
    <3> QED
      BY <1>5
  <2>2. ConcatDecls(decls, bls) = c[m]
    BY <1>0 DEF ConcatDecls
  <2> HIDE DEF c, Body
  <2> QED
    BY <2>1, <2>2
<1>7. \A i \in 0 .. m : g[i] = IF i = 0 THEN NoBlocklist
                               ELSE ConcatBlocklists(g[i - 1], bls[decls[i].ty], decls[i].addr)
  BY <1>6
<1>8. g[0] = NoBlocklist /\ \A i \in 1 .. m : g[i] = ConcatBlocklists(g[i - 1], bls[decls[i].ty], decls[i].addr)
  <2>1. 0 \in 0 .. m /\ \A i \in 1 .. m : i \in 0 .. m /\ i # 0
    BY <1>0
  <2> QED
    BY <1>7, <2>1
<1>9. g \in [0 .. m -> V]
  <2> DEFINE S == {k \in 0 .. m : g[k] \in V}
  <2>1. 0 \in S
    BY <1>0, <1>3, <1>8
  <2>2. ASSUME NEW k \in 0 .. m - 1, k \in S PROVE k + 1 \in S
    <3>1. k + 1 \in 1 .. m /\ (k + 1) - 1 = k /\ k + 1 \in 0 .. m
      BY <1>0
    <3>2. g[k + 1] = ConcatBlocklists(g[k], bls[decls[k + 1].ty], decls[k + 1].addr)
      BY <1>8, <3>1
    <3>3. g[k] \in V
      BY <2>2
    <3> HIDE DEF V
    <3>4. g[k + 1] \in V
      BY <1>1, <3>1, <3>2, <3>3
    <3> QED
      BY <3>1, <3>4
  <2>3. 0 .. m \subseteq S
    <3> HIDE DEF S
    <3> QED
      BY <1>0, <2>1, <2>2, InductionUpto
  <2>4. g = [i \in 0 .. m |-> g[i]]
    BY <1>6
  <2> QED
    BY <2>3, <2>4
<1> QED
  BY <1>6, <1>8, <1>9 DEF IsConcat
(* The list of a type, from those of its components. *)
TypeList(g, t, kind) ==
  CASE t.form = kind -> cPointerBlocklist
    [] t.form = "open" -> BlocklistOfOpenArrayType(t, g[t.elem], kind)
    [] t.form = "array" -> BlocklistOfArrayType(g[t.elem], t.len, t.elem.size)
    [] t.form = "record" -> AdjustIncr(ConcatDecls(t.fields, g), t.size)
    [] OTHER -> NoBlocklist

GoodList(bl, t) ==
  bl \in Lists[t.depth + 1] /\ (t.form # "open" => FixedList(bl))

LEMMA PointerListGood ==
  /\ \A d \in Nat : cPointerBlocklist \in Lists[d + 1]
  /\ FixedList(cPointerBlocklist) /\ FixedList(NoBlocklist)
<1>1. \A d \in Nat : cPointerBlocklist \in Lists[d + 1]
  <2> TAKE d \in Nat
  <2>1. PICK Y : Y = EntriesOver(Lists[d])
    OBVIOUS
  <2>2. Entry(NoBlocklist, 0, 1, 4, 0) \in Y
    BY <2>1, NoListIn DEF Entry, EntriesOver
  <2>3. <<Entry(NoBlocklist, 0, 1, 4, 0)>> \in Seq(Y)
    BY <2>2
  <2>4. Lists[d + 1] = Seq(Y)
    BY <2>1, ListsAre
  <2> QED
    BY <2>3, <2>4 DEF cPointerBlocklist
<1>2. FixedList(cPointerBlocklist)
  BY DEF FixedList, cPointerBlocklist, Entry
<1>3. FixedList(NoBlocklist)
  BY DEF FixedList, NoBlocklist
<1> QED
  BY <1>1, <1>2, <1>3

LEMMA ConcatDeclsFixed ==
  ASSUME NEW d \in 0 .. Depth, NEW decls, NEW bls, NEW m \in Nat, m = Len(decls),
         \A i \in 1 .. m : bls[decls[i].ty] \in Lists[d + 1] /\ decls[i].addr \in Int
                           /\ FixedList(bls[decls[i].ty])
  PROVE  ConcatDecls(decls, bls) \in Lists[d + 1] /\ FixedList(ConcatDecls(decls, bls))
<1>a. PICK f : IsConcat(f, decls, bls, m, d)
  <2>1. ListsOfDecls(decls, bls, m, d)
    BY DEF ListsOfDecls
  <2> QED
    BY <2>1, ConcatDeclsIs
<1>1. /\ f \in [0 .. m -> Lists[d + 1]] /\ f[0] = NoBlocklist
      /\ \A i \in 1 .. m : f[i] = ConcatBlocklists(f[i - 1], bls[decls[i].ty], decls[i].addr)
      /\ ConcatDecls(decls, bls) = f[m]
  BY <1>a DEF IsConcat
<1> DEFINE S == {k \in 0 .. m : FixedList(f[k])}
<1>2. 0 \in S
  BY <1>1, PointerListGood
<1>3. ASSUME NEW k \in 0 .. m - 1, k \in S PROVE k + 1 \in S
  <2>1. k + 1 \in 1 .. m /\ (k + 1) - 1 = k /\ k \in 0 .. m /\ k + 1 \in 0 .. m
    OBVIOUS
  <2>2. f[k + 1] = ConcatBlocklists(f[k], bls[decls[k + 1].ty], decls[k + 1].addr)
    BY <1>1, <2>1
  <2>3. PICK X, b1, b2, a : X = Lists[d] /\ b1 = f[k] /\ b2 = bls[decls[k + 1].ty] /\ a = decls[k + 1].addr
    OBVIOUS
  <2>4. Lists[d + 1] = Seq(EntriesOver(X))
    BY <2>3, ListsOfDepth
  <2>5. b1 \in Seq(EntriesOver(X)) /\ b2 \in Seq(EntriesOver(X)) /\ a \in Int /\ FixedList(b1) /\ FixedList(b2)
    BY <1>1, <1>3, <2>1, <2>3, <2>4
  <2>6. FixedList(ConcatBlocklists(b1, b2, a))
    BY <2>5, FixedConcat
  <2> QED
    BY <2>1, <2>2, <2>3, <2>6
<1>4. m \in S
  <2> HIDE DEF S
  <2>1. 0 .. m \subseteq S
    BY <1>2, <1>3, InductionUpto
  <2> QED
    BY <2>1
<1> QED
  BY <1>1, <1>4

LEMMA FieldsAre ==
  ASSUME NEW t \in AllTypes, t.form = "record"
  PROVE  Len(t.fields) \in Nat /\ DOMAIN t.fields = 1 .. Len(t.fields)
<1>1. PICK X : t.fields \in Seq(X)
  BY TypeParts
<1> QED
  BY <1>1

LEMMA TypeListGood ==
  ASSUME NEW kind \in Kinds, NEW g, NEW t \in AllTypes,
         \A r \in AllTypes : r.depth < t.depth => GoodList(g[r], r)
  PROVE  GoodList(TypeList(g, t, kind), t)
<1>0. PICK d \in 0 .. Depth : d = t.depth /\ d \in Nat
  BY TypeParts, TypesAssumption
<1>1. ASSUME NEW r \in AllTypes, r.depth < d, r.form # "open"
      PROVE  g[r] \in Lists[d] /\ g[r] \in Lists[d + 1] /\ FixedList(g[r])
  <2>1. r.depth + 1 \in Nat /\ r.depth + 1 <= d
    BY <1>0, <1>1, TypeParts
  <2>2. g[r] \in Lists[r.depth + 1] /\ FixedList(g[r])
    BY <1>0, <1>1 DEF GoodList
  <2>3. Lists[r.depth + 1] \subseteq Lists[d] /\ Lists[d] \subseteq Lists[d + 1]
    BY <1>0, <2>1, ListsMonotonic, ListsGrow
  <2> QED
    BY <2>2, <2>3
<1>2. CASE t.form = kind
  <2>1. TypeList(g, t, kind) = cPointerBlocklist
    BY <1>2 DEF TypeList, Kinds
  <2> QED
    BY <1>0, <2>1, PointerListGood DEF GoodList
<1>3. CASE t.form = "open"
  <2>1. TypeList(g, t, kind) = BlocklistOfOpenArrayType(t, g[t.elem], kind)
    BY <1>3 DEF TypeList, Kinds
  <2>2. /\ t.elem \in AllTypes /\ t.elem.depth < t.depth /\ t.elem.form # "open"
        /\ t.odim \in Nat \ {0} /\ t.elem.size \in Nat
    BY <1>3, TypeParts
  <2>3. g[t.elem] \in Lists[d]
    BY <1>0, <1>1, <2>2
  <2>4. PICK Y : Y = EntriesOver(Lists[d])
    OBVIOUS
  <2>5. Entry(g[t.elem], 0, -t.odim, t.elem.size, 0) \in Y
    BY <2>2, <2>3, <2>4 DEF Entry, EntriesOver
  <2>6. <<Entry(g[t.elem], 0, -t.odim, t.elem.size, 0)>> \in Seq(Y)
    BY <2>5
  <2>7. Lists[d + 1] = Seq(Y) /\ NoBlocklist \in Lists[d + 1]
    <3>1. d + 1 \in Nat
      BY <1>0
    <3> QED
      BY <1>0, <2>4, <3>1, ListsAre, NoListIn
  <2>8. BlocklistOfOpenArrayType(t, g[t.elem], kind) \in Lists[d + 1]
    BY <2>6, <2>7 DEF BlocklistOfOpenArrayType
  <2> QED
    BY <1>0, <1>3, <2>1, <2>8 DEF GoodList
<1>4. CASE t.form = "array"
  <2>1. TypeList(g, t, kind) = BlocklistOfArrayType(g[t.elem], t.len, t.elem.size)
    BY <1>4 DEF TypeList, Kinds
  <2>2. /\ t.elem \in AllTypes /\ t.elem.depth < t.depth /\ t.elem.form # "open"
        /\ t.len \in Nat \ {0} /\ t.elem.size \in Int
    BY <1>4, TypeParts
  <2>3. PICK bl, len, size : bl = g[t.elem] /\ len = t.len /\ size = t.elem.size
    OBVIOUS
  <2>4. bl \in Lists[d] /\ FixedList(bl) /\ len \in Nat \ {0} /\ size \in Int
    BY <1>0, <1>1, <2>2, <2>3
  <2>5. BlocklistOfArrayType(bl, len, size) \in Lists[d + 1] /\ FixedList(BlocklistOfArrayType(bl, len, size))
    BY <2>4, ArrayOffsets
  <2> QED
    BY <1>0, <2>1, <2>3, <2>5 DEF GoodList
<1>5. CASE t.form = "record"
  <2>1. TypeList(g, t, kind) = AdjustIncr(ConcatDecls(t.fields, g), t.size)
    BY <1>5 DEF TypeList, Kinds
  <2>2. PICK m, decls : m \in Nat /\ decls = t.fields /\ m = Len(decls) /\ DOMAIN decls = 1 .. m
    BY <1>5, FieldsAre
  <2>3. \A i \in 1 .. m : g[decls[i].ty] \in Lists[d + 1] /\ decls[i].addr \in Int /\ FixedList(g[decls[i].ty])
    <3> TAKE i \in 1 .. m
    <3>1. /\ decls[i].ty \in AllTypes /\ decls[i].ty.depth < t.depth /\ decls[i].ty.form # "open"
          /\ decls[i].addr \in Nat
      BY <1>5, <2>2, TypeParts
    <3> QED
      BY <1>0, <1>1, <3>1
  <2>4. PICK bl : bl = ConcatDecls(decls, g) /\ bl \in Lists[d + 1] /\ FixedList(bl)
    BY <2>2, <2>3, ConcatDeclsFixed
  <2>5. t.size \in Int
    BY TypeParts
  <2>6. AdjustIncr(bl, t.size) \in Lists[d + 1] /\ FixedList(AdjustIncr(bl, t.size))
    BY <2>4, <2>5, AdjustIncrRight
  <2> QED
    BY <1>0, <2>1, <2>2, <2>4, <2>6 DEF GoodList
<1>6. CASE t.form \notin {kind, "open", "array", "record"}
  <2>1. TypeList(g, t, kind) = NoBlocklist
    BY <1>6 DEF TypeList
  <2>2. d + 1 \in Nat
    BY <1>0
  <2> QED
    BY <1>0, <2>1, <2>2, NoListIn, PointerListGood DEF GoodList
<1> QED
  BY <1>2, <1>3, <1>4, <1>5, <1>6

(* What does not depend on the lists of other types than the components. *)
LEMMA TypeListLocal ==
  ASSUME NEW kind \in Kinds, NEW g \in [AllTypes -> AllLists], NEW h \in [AllTypes -> AllLists],
         NEW t \in AllTypes, \A r \in AllTypes : r.depth < t.depth => g[r] = h[r]
  PROVE  TypeList(g, t, kind) = TypeList(h, t, kind)
<1>2. CASE t.form = kind
  BY <1>2 DEF TypeList, Kinds
<1>3. CASE t.form = "open"
  <2>1. /\ TypeList(g, t, kind) = BlocklistOfOpenArrayType(t, g[t.elem], kind)
        /\ TypeList(h, t, kind) = BlocklistOfOpenArrayType(t, h[t.elem], kind)
    BY <1>3 DEF TypeList, Kinds
  <2>2. g[t.elem] = h[t.elem]
    BY <1>3, TypeParts
  <2> QED
    BY <2>1, <2>2
<1>4. CASE t.form = "array"
  <2>1. /\ TypeList(g, t, kind) = BlocklistOfArrayType(g[t.elem], t.len, t.elem.size)
        /\ TypeList(h, t, kind) = BlocklistOfArrayType(h[t.elem], t.len, t.elem.size)
    BY <1>4 DEF TypeList, Kinds
  <2>2. g[t.elem] = h[t.elem]
    BY <1>4, TypeParts
  <2> QED
    BY <2>1, <2>2
<1>5. CASE t.form = "record"
  <2>1. /\ TypeList(g, t, kind) = AdjustIncr(ConcatDecls(t.fields, g), t.size)
        /\ TypeList(h, t, kind) = AdjustIncr(ConcatDecls(t.fields, h), t.size)
    BY <1>5 DEF TypeList, Kinds
  <2>2. PICK m, decls : m \in Nat /\ decls = t.fields /\ m = Len(decls) /\ DOMAIN decls = 1 .. m
    BY <1>5, FieldsAre
  <2>3. \A i \in 1 .. m : /\ decls[i].ty \in AllTypes /\ decls[i].addr \in Int
                          /\ g[decls[i].ty] = h[decls[i].ty]
    <3> TAKE i \in 1 .. m
    <3>1. decls[i].ty \in AllTypes /\ decls[i].ty.depth < t.depth /\ decls[i].addr \in Nat
      BY <1>5, <2>2, TypeParts
    <3> QED
      BY <3>1
  <2>4. Depth \in 0 .. Depth /\ AllLists = Lists[Depth + 1]
    BY TypesAssumption DEF AllLists
  <2>5. \A i \in 1 .. m : g[decls[i].ty] \in Lists[Depth + 1] /\ h[decls[i].ty] \in Lists[Depth + 1]
    BY <2>3, <2>4
  <2>6. PICK u : IsConcat(u, decls, g, m, Depth)
    <3>1. ListsOfDecls(decls, g, m, Depth)
      BY <2>2, <2>3, <2>5 DEF ListsOfDecls
    <3> QED
      BY <2>4, <3>1, ConcatDeclsIs
  <2>7. PICK v : IsConcat(v, decls, h, m, Depth)
    <3>1. ListsOfDecls(decls, h, m, Depth)
      BY <2>2, <2>3, <2>5 DEF ListsOfDecls
    <3> QED
      BY <2>4, <3>1, ConcatDeclsIs
  <2> DEFINE S == {k \in 0 .. m : u[k] = v[k]}
  <2>8. 0 \in S
    BY <2>2, <2>6, <2>7 DEF IsConcat
  <2>9. ASSUME NEW k \in 0 .. m - 1, k \in S PROVE k + 1 \in S
    <3>1. k + 1 \in 1 .. m /\ (k + 1) - 1 = k /\ k + 1 \in 0 .. m
      BY <2>2
    <3>2. /\ u[k + 1] = ConcatBlocklists(u[k], g[decls[k + 1].ty], decls[k + 1].addr)
          /\ v[k + 1] = ConcatBlocklists(v[k], h[decls[k + 1].ty], decls[k + 1].addr)
      BY <2>6, <2>7, <3>1 DEF IsConcat
    <3>3. g[decls[k + 1].ty] = h[decls[k + 1].ty] /\ u[k] = v[k]
      BY <2>3, <2>9, <3>1
    <3> QED
      BY <3>1, <3>2, <3>3
  <2>10. m \in S
    <3> HIDE DEF S
    <3>1. 0 .. m \subseteq S
      BY <2>2, <2>8, <2>9, InductionUpto
    <3> QED
      BY <2>2, <3>1
  <2>11. ConcatDecls(decls, g) = ConcatDecls(decls, h)
    BY <2>6, <2>7, <2>10 DEF IsConcat
  <2> QED
    BY <2>1, <2>2, <2>11
<1>6. CASE t.form \notin {kind, "open", "array", "record"}
  BY <1>6 DEF TypeList
<1> QED
  BY <1>2, <1>3, <1>4, <1>5, <1>6
LEMMA BlocklistsAre ==
  ASSUME NEW kind \in Kinds
  PROVE  /\ \A t \in AllTypes : /\ BlocklistOfType(t, kind) = TypeList(BlocklistsOf(kind), t, kind)
                                /\ GoodList(BlocklistOfType(t, kind), t)
         /\ BlocklistsOf(kind) \in [AllTypes -> AllLists]
<1> DEFINE Body(g) == [t \in AllTypes |-> TypeList(g, t, kind)]
           F == [g \in [AllTypes -> AllLists] |->
                   [t \in AllTypes |-> IF TypeList(g, t, kind) \in AllLists THEN TypeList(g, t, kind)
                                       ELSE NoBlocklist]]
<1>a. \A t \in AllTypes : \A bl : GoodList(bl, t) => bl \in AllLists
  <2> TAKE t \in AllTypes
  <2> TAKE bl
  <2>1. Lists[t.depth + 1] \subseteq AllLists
    BY TypeParts, ListsOfDepth
  <2> QED
    BY <2>1 DEF GoodList
<1>1. Recursive(F, AllTypes, AllLists, TypeRank)
  <2>1. AllLists # {} /\ F \in [[AllTypes -> AllLists] -> [AllTypes -> AllLists]]
    BY NoListIn
  <2>2. ASSUME NEW g \in [AllTypes -> AllLists], NEW h \in [AllTypes -> AllLists], NEW t \in AllTypes,
               \A r \in AllTypes : TypeRank[r] < TypeRank[t] => g[r] = h[r]
        PROVE  F[g][t] = F[h][t]
    <3>1. \A r \in AllTypes : r.depth < t.depth => g[r] = h[r]
      BY <2>2, TypeParts
    <3>2. TypeList(g, t, kind) = TypeList(h, t, kind)
      BY <3>1, TypeListLocal
    <3> QED
      BY <3>2
  <2> HIDE DEF F
  <2> QED
    BY <2>1, <2>2, TypeRankIs DEF Recursive
<1>2. PICK f : f \in [AllTypes -> AllLists] /\ f = F[f]
  <2> HIDE DEF F
  <2> QED
    BY <1>1, RecursionExists
<1>3. \A t \in AllTypes : f[t] = IF TypeList(f, t, kind) \in AllLists THEN TypeList(f, t, kind) ELSE NoBlocklist
  BY <1>2
<1> HIDE DEF F
<1> DEFINE P == {t \in AllTypes : f[t] = TypeList(f, t, kind) /\ GoodList(f[t], t)}
<1>4. ASSUME NEW t \in AllTypes, \A r \in AllTypes : TypeRank[r] < TypeRank[t] => r \in P PROVE t \in P
  <2>1. \A r \in AllTypes : r.depth < t.depth => GoodList(f[r], r)
    BY <1>4, TypeParts
  <2>2. GoodList(TypeList(f, t, kind), t)
    BY <2>1, TypeListGood
  <2> QED
    BY <1>3, <1>a, <2>2
<1>5. AllTypes \subseteq P
  <2> HIDE DEF P
  <2> QED
    BY <1>4, TypeRankIs, RankInduction
<1>6. f = Body(f)
  <2>1. f = [t \in AllTypes |-> f[t]]
    BY <1>2
  <2> QED
    BY <1>5, <2>1
<1>7. BlocklistsOf(kind) = Body(BlocklistsOf(kind))
  <2> USE DEF Body, TypeList
  <2> QED
    BY <1>6 DEF BlocklistsOf
<1>8. PICK b : b = BlocklistsOf(kind)
  OBVIOUS
<1>9. b = Body(b)
  BY <1>7, <1>8
<1>10. \A t \in AllTypes : b[t] = TypeList(b, t, kind)
  BY <1>9
<1> DEFINE Q == {t \in AllTypes : GoodList(b[t], t)}
<1>11. ASSUME NEW t \in AllTypes, \A r \in AllTypes : TypeRank[r] < TypeRank[t] => r \in Q PROVE t \in Q
  <2>1. \A r \in AllTypes : r.depth < t.depth => GoodList(b[r], r)
    BY <1>11, TypeParts
  <2>2. GoodList(TypeList(b, t, kind), t)
    BY <2>1, TypeListGood
  <2> QED
    BY <1>10, <2>2
<1>12. AllTypes \subseteq Q
  <2> HIDE DEF Q
  <2> QED
    BY <1>11, TypeRankIs, RankInduction
<1>13. b \in [AllTypes -> AllLists]
  <2>1. b = [t \in AllTypes |-> b[t]]
    BY <1>9
  <2>2. \A t \in AllTypes : b[t] \in AllLists
    BY <1>12, <1>a
  <2> QED
    BY <2>1, <2>2
<1> QED
  BY <1>8, <1>10, <1>12, <1>13 DEF BlocklistOfType
-----------------------------------------------------------------------------
(* The pointers of a type. *)
TypeSlots(g, t, kind) ==
  CASE t.form = kind -> {0}
    [] t.form = "array" -> {i * t.elem.size + o : i \in 0 .. t.len - 1, o \in g[t.elem]}
    [] t.form = "record" -> Placed(t.fields, g)
    [] OTHER -> {}

(* They lie within it. *)
SlotsWithin(S, size) == \A o \in S : o \in Nat /\ o + 4 <= size

LEMMA PlacedIs ==
  ASSUME NEW decls, NEW m \in Nat, NEW slots, DOMAIN decls = 1 .. m
  PROVE  Placed(decls, slots) = UNION {{decls[i].addr + o : o \in slots[decls[i].ty]} : i \in 1 .. m}
BY DEF Placed, ToSet

LEMMA TypeSlotsWithin ==
  ASSUME NEW kind \in Kinds, NEW g, NEW t \in AllTypes,
         \A r \in AllTypes : r.depth < t.depth => SlotsWithin(g[r], r.size)
  PROVE  SlotsWithin(TypeSlots(g, t, kind), t.size)
<1>1. CASE t.form = kind
  <2>1. TypeSlots(g, t, kind) = {0} /\ t.size = 4
    BY <1>1, TypeParts DEF TypeSlots, Kinds
  <2> QED
    BY <2>1 DEF SlotsWithin
<1>2. CASE t.form = "array"
  <2>a. /\ t.elem \in AllTypes /\ t.elem.depth < t.depth /\ t.len \in Nat \ {0}
        /\ t.size = t.len * t.elem.size
    BY <1>2, TypeParts
  <2>b. t.elem.size \in Nat
    BY <2>a, TypeParts
  <2>c. PICK r, len, size : r = t.elem /\ len = t.len /\ size = r.size
    OBVIOUS
  <2>1. /\ r = t.elem /\ len = t.len /\ size = r.size /\ r \in AllTypes /\ r.depth < t.depth
        /\ t.size = len * size /\ len \in Nat \ {0} /\ size \in Nat
    BY <2>a, <2>b, <2>c
  <2>2. TypeSlots(g, t, kind) = {i * size + o : i \in 0 .. len - 1, o \in g[r]}
    BY <1>2, <2>1 DEF TypeSlots, Kinds
  <2>3. ASSUME NEW i \in 0 .. len - 1, NEW o \in g[r] PROVE i * size + o \in Nat /\ i * size + o + 4 <= len * size
    <3>1. o \in Nat /\ o + 4 <= size
      BY <2>1 DEF SlotsWithin
    <3>2. PICK k \in Nat, z \in Nat, i1 \in Nat : len = i1 + 1 + k /\ z = size /\ i1 = i
      <4>1. len - 1 - i \in Nat /\ len = i + 1 + (len - 1 - i) /\ i \in Nat
        BY <2>1
      <4> QED
        BY <2>1, <4>1
    <3>3. (i1 + 1 + k) * z = i1 * z + z + k * z
      OBVIOUS
    <3>4. k * z \in Nat /\ i1 * z \in Nat
      OBVIOUS
    <3> QED
      BY <3>1, <3>2, <3>3, <3>4
  <2> QED
    BY <2>1, <2>2, <2>3 DEF SlotsWithin
<1>3. CASE t.form = "record"
  <2>1. TypeSlots(g, t, kind) = Placed(t.fields, g)
    BY <1>3 DEF TypeSlots, Kinds
  <2>2. PICK m, decls : m \in Nat /\ decls = t.fields /\ m = Len(decls) /\ DOMAIN decls = 1 .. m
    BY <1>3, FieldsAre
  <2>3. ASSUME NEW i \in 1 .. m, NEW o \in g[decls[i].ty]
        PROVE  decls[i].addr + o \in Nat /\ decls[i].addr + o + 4 <= t.size
    <3>1. /\ decls[i].ty \in AllTypes /\ decls[i].ty.depth < t.depth
          /\ decls[i].addr \in Nat /\ decls[i].addr + decls[i].ty.size <= t.size
      BY <1>3, <2>2, TypeParts
    <3>2. o \in Nat /\ o + 4 <= decls[i].ty.size
      BY <3>1 DEF SlotsWithin
    <3>3. decls[i].ty.size \in Nat /\ t.size \in Nat
      BY <3>1, TypeParts
    <3> QED
      BY <3>1, <3>2, <3>3
  <2>4. Placed(decls, g) = UNION {{decls[i].addr + o : o \in g[decls[i].ty]} : i \in 1 .. m}
    BY <2>2, PlacedIs
  <2> QED
    BY <2>1, <2>2, <2>3, <2>4 DEF SlotsWithin
<1>4. CASE t.form \notin {kind, "array", "record"}
  <2>1. TypeSlots(g, t, kind) = {}
    BY <1>4 DEF TypeSlots
  <2> QED
    BY <2>1 DEF SlotsWithin
<1> QED
  BY <1>1, <1>2, <1>3, <1>4

LEMMA TypeSlotsLocal ==
  ASSUME NEW kind \in Kinds, NEW g, NEW h, NEW t \in AllTypes,
         \A r \in AllTypes : r.depth < t.depth => g[r] = h[r]
  PROVE  TypeSlots(g, t, kind) = TypeSlots(h, t, kind)
<1>1. CASE t.form = kind
  BY <1>1 DEF TypeSlots, Kinds
<1>2. CASE t.form = "array"
  <2>1. g[t.elem] = h[t.elem]
    BY <1>2, TypeParts
  <2> QED
    BY <1>2, <2>1 DEF TypeSlots, Kinds
<1>3. CASE t.form = "record"
  <2>1. TypeSlots(g, t, kind) = Placed(t.fields, g) /\ TypeSlots(h, t, kind) = Placed(t.fields, h)
    BY <1>3 DEF TypeSlots, Kinds
  <2>2. PICK m, decls : m \in Nat /\ decls = t.fields /\ m = Len(decls) /\ DOMAIN decls = 1 .. m
    BY <1>3, FieldsAre
  <2>3. \A i \in 1 .. m : g[decls[i].ty] = h[decls[i].ty]
    <3> TAKE i \in 1 .. m
    <3>1. decls[i].ty \in AllTypes /\ decls[i].ty.depth < t.depth
      BY <1>3, <2>2, TypeParts
    <3> QED
      BY <3>1
  <2>4. /\ Placed(decls, g) = UNION {{decls[i].addr + o : o \in g[decls[i].ty]} : i \in 1 .. m}
        /\ Placed(decls, h) = UNION {{decls[i].addr + o : o \in h[decls[i].ty]} : i \in 1 .. m}
    BY <2>2, PlacedIs
  <2> QED
    BY <2>1, <2>2, <2>3, <2>4
<1>4. CASE t.form \notin {kind, "array", "record"}
  BY <1>4 DEF TypeSlots
<1> QED
  BY <1>1, <1>2, <1>3, <1>4

LEMMA SlotsAre ==
  ASSUME NEW kind \in Kinds
  PROVE  \A t \in AllTypes : /\ Slots(t, kind) = TypeSlots(SlotsOf(kind), t, kind)
                             /\ SlotsWithin(Slots(t, kind), t.size)
<1> DEFINE V == SUBSET Int
           Body(g) == [t \in AllTypes |-> TypeSlots(g, t, kind)]
           F == [g \in [AllTypes -> V] |->
                   [t \in AllTypes |-> IF TypeSlots(g, t, kind) \in V THEN TypeSlots(g, t, kind) ELSE {}]]
<1>1. Recursive(F, AllTypes, V, TypeRank)
  <2>1. V # {} /\ F \in [[AllTypes -> V] -> [AllTypes -> V]]
    OBVIOUS
  <2> HIDE DEF V
  <2>2. ASSUME NEW g \in [AllTypes -> V], NEW h \in [AllTypes -> V], NEW t \in AllTypes,
               \A r \in AllTypes : TypeRank[r] < TypeRank[t] => g[r] = h[r]
        PROVE  F[g][t] = F[h][t]
    <3>1. \A r \in AllTypes : r.depth < t.depth => g[r] = h[r]
      BY <2>2, TypeParts
    <3>2. TypeSlots(g, t, kind) = TypeSlots(h, t, kind)
      BY <3>1, TypeSlotsLocal
    <3> QED
      BY <3>2
  <2> HIDE DEF F
  <2> QED
    BY <2>1, <2>2, TypeRankIs DEF Recursive
<1>2. PICK f : f \in [AllTypes -> V] /\ f = F[f]
  <2> HIDE DEF F, V
  <2> QED
    BY <1>1, RecursionExists
<1>3. \A t \in AllTypes : f[t] = IF TypeSlots(f, t, kind) \in V THEN TypeSlots(f, t, kind) ELSE {}
  BY <1>2
<1>a. \A S, size : SlotsWithin(S, size) => S \in V
  BY DEF SlotsWithin
<1> HIDE DEF F, V
<1> DEFINE P == {t \in AllTypes : f[t] = TypeSlots(f, t, kind) /\ SlotsWithin(f[t], t.size)}
<1>4. ASSUME NEW t \in AllTypes, \A r \in AllTypes : TypeRank[r] < TypeRank[t] => r \in P PROVE t \in P
  <2>1. \A r \in AllTypes : r.depth < t.depth => SlotsWithin(f[r], r.size)
    BY <1>4, TypeParts
  <2>2. SlotsWithin(TypeSlots(f, t, kind), t.size)
    BY <2>1, TypeSlotsWithin
  <2> QED
    BY <1>3, <1>a, <2>2
<1>5. AllTypes \subseteq P
  <2> HIDE DEF P
  <2> QED
    BY <1>4, TypeRankIs, RankInduction
<1>6. f = Body(f)
  <2>1. f = [t \in AllTypes |-> f[t]]
    BY <1>2
  <2> QED
    BY <1>5, <2>1
<1>7. SlotsOf(kind) = Body(SlotsOf(kind))
  <2> USE DEF Body, TypeSlots
  <2> QED
    BY <1>6 DEF SlotsOf
<1>8. PICK b : b = SlotsOf(kind)
  OBVIOUS
<1>9. b = Body(b)
  BY <1>7, <1>8
<1>10. \A t \in AllTypes : b[t] = TypeSlots(b, t, kind)
  BY <1>9
<1> DEFINE Q == {t \in AllTypes : SlotsWithin(b[t], t.size)}
<1>11. ASSUME NEW t \in AllTypes, \A r \in AllTypes : TypeRank[r] < TypeRank[t] => r \in Q PROVE t \in Q
  <2>1. \A r \in AllTypes : r.depth < t.depth => SlotsWithin(b[r], r.size)
    BY <1>11, TypeParts
  <2>2. SlotsWithin(TypeSlots(b, t, kind), t.size)
    BY <2>1, TypeSlotsWithin
  <2> QED
    BY <1>10, <2>2
<1>12. AllTypes \subseteq Q
  <2> HIDE DEF Q
  <2> QED
    BY <1>11, TypeRankIs, RankInduction
<1> QED
  BY <1>8, <1>10, <1>12 DEF Slots
-----------------------------------------------------------------------------
(* Sequences of offsets without repetition. *)
Enumerates(s, S) == s \in Seq(Int) /\ ToSet(s) = S /\ IsInjective(s)

LEMMA EnumeratesIs ==
  ASSUME NEW s \in Seq(Int), NEW S
  PROVE  Enumerates(s, S) <=> /\ \A i \in 1 .. Len(s) : s[i] \in S
                              /\ \A o \in S : \E i \in 1 .. Len(s) : s[i] = o
                              /\ \A i, j \in 1 .. Len(s) : s[i] = s[j] => i = j
<1>1. DOMAIN s = 1 .. Len(s)
  OBVIOUS
<1>2. ToSet(s) = S <=> /\ \A i \in 1 .. Len(s) : s[i] \in S
                       /\ \A o \in S : \E i \in 1 .. Len(s) : s[i] = o
  BY <1>1 DEF ToSet
<1>3. IsInjective(s) <=> \A i, j \in 1 .. Len(s) : s[i] = s[j] => i = j
  BY <1>1 DEF IsInjective
<1> QED
  BY <1>2, <1>3 DEF Enumerates

LEMMA EnumeratesEmpty == Enumerates(<< >>, {})
<1>1. << >> \in Seq(Int)
  BY EmptySeq
<1>2. ToSet(<< >>) = {} /\ IsInjective(<< >>)
  BY DEF ToSet, IsInjective
<1> QED
  BY <1>1, <1>2 DEF Enumerates

LEMMA EnumeratesConcat ==
  ASSUME NEW s, NEW S, NEW t, NEW T, Enumerates(s, S), Enumerates(t, T), S \cap T = {}
  PROVE  Enumerates(s \o t, S \cup T)
<1>0. PICK X : X = Int
  OBVIOUS
<1>1. s \in Seq(X) /\ t \in Seq(X) /\ s \in Seq(Int) /\ t \in Seq(Int)
  BY <1>0 DEF Enumerates
<1>2. PICK m \in Nat, k \in Nat : m = Len(s) /\ k = Len(t)
  BY <1>1
<1>3. PICK u : u = s \o t
  OBVIOUS
<1>4. /\ u \in Seq(X) /\ Len(u) = m + k
      /\ \A i \in 1 .. m + k : u[i] = IF i <= m THEN s[i] ELSE t[i - m]
  BY <1>1, <1>2, <1>3, ConcatProperties
<1>5. /\ \A i \in 1 .. m : s[i] \in S
      /\ \A o \in S : \E i \in 1 .. m : s[i] = o
      /\ \A i, j \in 1 .. m : s[i] = s[j] => i = j
  BY <1>1, <1>2, EnumeratesIs
<1>6. /\ \A i \in 1 .. k : t[i] \in T
      /\ \A o \in T : \E i \in 1 .. k : t[i] = o
      /\ \A i, j \in 1 .. k : t[i] = t[j] => i = j
  BY <1>1, <1>2, EnumeratesIs
<1>7. \A i \in 1 .. m + k : \/ i \in 1 .. m /\ u[i] = s[i] /\ u[i] \in S
                            \/ i \notin 1 .. m /\ i - m \in 1 .. k /\ u[i] = t[i - m] /\ u[i] \in T
  <2> TAKE i \in 1 .. m + k
  <2>1. CASE i <= m
    BY <1>4, <1>5, <2>1
  <2>2. CASE ~(i <= m)
    <3>1. i \notin 1 .. m /\ i - m \in 1 .. k
      BY <2>2
    <3> QED
      BY <1>4, <1>6, <2>2, <3>1
  <2> QED
    BY <2>1, <2>2
<1>8. \A i \in 1 .. m + k : u[i] \in S \cup T
  BY <1>7
<1>9. \A o \in S \cup T : \E i \in 1 .. m + k : u[i] = o
  <2> TAKE o \in S \cup T
  <2>1. CASE o \in S
    <3>1. PICK i \in 1 .. m : s[i] = o
      BY <1>5, <2>1
    <3>2. i \in 1 .. m + k /\ i <= m
      OBVIOUS
    <3> QED
      BY <1>4, <3>1, <3>2
  <2>2. CASE o \in T
    <3>1. PICK i \in 1 .. k : t[i] = o
      BY <1>6, <2>2
    <3>2. i + m \in 1 .. m + k /\ ~(i + m <= m) /\ (i + m) - m = i
      OBVIOUS
    <3> QED
      BY <1>4, <3>1, <3>2
  <2> QED
    BY <2>1, <2>2
<1>10. \A i, j \in 1 .. m + k : u[i] = u[j] => i = j
  <2> TAKE i, j \in 1 .. m + k
  <2> HAVE u[i] = u[j]
  <2>1. CASE i \in 1 .. m /\ j \in 1 .. m
    BY <1>5, <1>7, <2>1
  <2>2. CASE i \notin 1 .. m /\ j \notin 1 .. m
    <3>1. i - m \in 1 .. k /\ j - m \in 1 .. k /\ t[i - m] = t[j - m]
      BY <1>7, <2>2
    <3>2. i - m = j - m
      BY <1>6, <3>1
    <3> QED
      BY <3>2
  <2>3. CASE i \in 1 .. m /\ j \notin 1 .. m
    BY <1>7, <2>3
  <2>4. CASE i \notin 1 .. m /\ j \in 1 .. m
    BY <1>7, <2>4
  <2> QED
    BY <2>1, <2>2, <2>3, <2>4
<1>11. PICK U : U = S \cup T
  OBVIOUS
<1>12. /\ u \in Seq(Int) /\ \A i \in 1 .. Len(u) : u[i] \in U
       /\ \A o \in U : \E i \in 1 .. Len(u) : u[i] = o
       /\ \A i, j \in 1 .. Len(u) : u[i] = u[j] => i = j
  BY <1>0, <1>4, <1>8, <1>9, <1>10, <1>11
<1>13. Enumerates(u, U)
  BY <1>12, EnumeratesIs
<1> QED
  BY <1>3, <1>11, <1>13

LEMMA EnumeratesMoved ==
  ASSUME NEW s, NEW S, Enumerates(s, S), NEW b \in Int
  PROVE  Enumerates(Moved(s, b), {b + o : o \in S})
<1>1. s \in Seq(Int)
  BY DEF Enumerates
<1>2. /\ Moved(s, b) \in Seq(Int) /\ Len(Moved(s, b)) = Len(s)
      /\ \A i \in 1 .. Len(s) : Moved(s, b)[i] = b + s[i]
  BY <1>1, MovedIs
<1>3. /\ \A i \in 1 .. Len(s) : s[i] \in S
      /\ \A o \in S : \E i \in 1 .. Len(s) : s[i] = o
      /\ \A i, j \in 1 .. Len(s) : s[i] = s[j] => i = j
  BY <1>1, EnumeratesIs
<1>4. \A i \in 1 .. Len(s) : s[i] \in Int
  BY <1>1
<1>5. \A i \in 1 .. Len(s) : Moved(s, b)[i] \in {b + o : o \in S}
  BY <1>2, <1>3
<1>6. \A p \in {b + o : o \in S} : \E i \in 1 .. Len(s) : Moved(s, b)[i] = p
  BY <1>2, <1>3
<1>7. \A i, j \in 1 .. Len(s) : Moved(s, b)[i] = Moved(s, b)[j] => i = j
  BY <1>2, <1>3, <1>4
<1> QED
  BY <1>2, <1>5, <1>6, <1>7, EnumeratesIs

(* Blocks side by side, each with the offsets S. *)
BlockSlots(S, size, i) == {i * size + o : o \in S}
RowSlots(S, size, k) == UNION {BlockSlots(S, size, i) : i \in 0 .. k - 1}

LEMMA RowSlotsEmpty ==
  ASSUME NEW S, NEW size
  PROVE  RowSlots(S, size, 0) = {}
BY DEF RowSlots

LEMMA RowSlotsNext ==
  ASSUME NEW S, NEW size, NEW k \in Nat
  PROVE  RowSlots(S, size, k + 1) = RowSlots(S, size, k) \cup BlockSlots(S, size, k)
<1>1. 0 .. (k + 1) - 1 = (0 .. k - 1) \cup {k}
  OBVIOUS
<1> QED
  BY <1>1 DEF RowSlots

LEMMA RowSlotsApart ==
  ASSUME NEW S, NEW size \in Nat, NEW k \in Nat, \A o \in S : o \in Nat /\ o < size
  PROVE  RowSlots(S, size, k) \cap BlockSlots(S, size, k) = {}
<1>1. ASSUME NEW i \in 0 .. k - 1, NEW o \in S, NEW p \in S PROVE i * size + o # k * size + p
  <2>1. PICK j \in Nat : k = i + 1 + j
    <3>1. k - 1 - i \in Nat /\ k = i + 1 + (k - 1 - i)
      OBVIOUS
    <3> QED
      BY <3>1
  <2>2. (i + 1 + j) * size = i * size + size + j * size
    OBVIOUS
  <2>3. j * size \in Nat /\ i * size \in Nat
    OBVIOUS
  <2>4. o \in Nat /\ o < size /\ p \in Nat
    OBVIOUS
  <2> QED
    BY <2>1, <2>2, <2>3, <2>4
<1>2. ASSUME NEW x \in RowSlots(S, size, k), x \in BlockSlots(S, size, k) PROVE FALSE
  <2>1. PICK i \in 0 .. k - 1 : x \in BlockSlots(S, size, i)
    BY DEF RowSlots
  <2>2. PICK o \in S : x = i * size + o
    BY <2>1 DEF BlockSlots
  <2>3. PICK p \in S : x = k * size + p
    BY <1>2 DEF BlockSlots
  <2> QED
    BY <1>1, <2>2, <2>3
<1> QED
  BY <1>2

LEMMA RowSlotsAre ==
  ASSUME NEW S, NEW size, NEW count
  PROVE  RowSlots(S, size, count) = {i * size + o : i \in 0 .. count - 1, o \in S}
<1> DEFINE R == {i * size + o : i \in 0 .. count - 1, o \in S}
<1>1. ASSUME NEW x \in RowSlots(S, size, count) PROVE x \in R
  <2>1. PICK i \in 0 .. count - 1 : x \in BlockSlots(S, size, i)
    BY DEF RowSlots
  <2>2. PICK o \in S : x = i * size + o
    BY <2>1 DEF BlockSlots
  <2> QED
    BY <2>2
<1>2. ASSUME NEW x \in R PROVE x \in RowSlots(S, size, count)
  <2>1. PICK i \in 0 .. count - 1, o \in S : x = i * size + o
    OBVIOUS
  <2>2. x \in BlockSlots(S, size, i)
    BY <2>1 DEF BlockSlots
  <2> QED
    BY <2>2 DEF RowSlots
<1> QED
  BY <1>1, <1>2

LEMMA EnumeratesRow ==
  ASSUME NEW s, NEW S, Enumerates(s, S), NEW size \in Nat, NEW count \in Nat,
         \A o \in S : o \in Nat /\ o < size
  PROVE  Enumerates(Row(s, 0, size, count), RowSlots(S, size, count))
<1>0. PICK bk \in Seq(Int), sz \in Int, z \in Int : bk = s /\ sz = size /\ z = 0
  BY DEF Enumerates
<1> DEFINE P == {k \in Nat : Enumerates(Row(bk, z, sz, k), RowSlots(S, size, k))}
<1>1. 0 \in P
  <2>1. Row(bk, z, sz, 0) = << >>
    BY RowParts
  <2> QED
    BY <2>1, EnumeratesEmpty, RowSlotsEmpty
<1>2. ASSUME NEW k \in Nat, k \in P PROVE k + 1 \in P
  <2>0. PICK q \in Int : q = k * size
    OBVIOUS
  <2>1. Row(bk, z, sz, k + 1) = Row(bk, z, sz, k) \o Moved(bk, z + k * sz)
    BY RowNext
  <2>2. z + k * sz = q
    BY <1>0, <2>0
  <2>3. PICK One : One = {q + o : o \in S} /\ One = BlockSlots(S, size, k)
    BY <2>0 DEF BlockSlots
  <2>4. Enumerates(Moved(bk, q), One)
    BY <1>0, <2>3, EnumeratesMoved
  <2>5. RowSlots(S, size, k + 1) = RowSlots(S, size, k) \cup One
    BY <2>3, RowSlotsNext
  <2>6. RowSlots(S, size, k) \cap One = {}
    BY <2>3, RowSlotsApart
  <2>7. Enumerates(Row(bk, z, sz, k), RowSlots(S, size, k))
    BY <1>2
  <2>8. Enumerates(Row(bk, z, sz, k) \o Moved(bk, q), RowSlots(S, size, k) \cup One)
    BY <2>4, <2>6, <2>7, EnumeratesConcat
  <2>9. Enumerates(Row(bk, z, sz, k + 1), RowSlots(S, size, k + 1))
    BY <2>1, <2>2, <2>5, <2>8
  <2> QED
    BY <2>9
<1>3. count \in P
  <2> HIDE DEF P
  <2> QED
    BY <1>1, <1>2, Induction
<1>4. Enumerates(Row(bk, z, sz, count), RowSlots(S, size, count))
  BY <1>3
<1> QED
  BY <1>0, <1>4

(* The lists of declarations that lie apart. *)
ListsEnumerate(decls, bls, slots, m) ==
  /\ DOMAIN decls = 1 .. m
  /\ \A i \in 1 .. m : /\ Enumerates(CodeFixed[bls[decls[i].ty]], slots[decls[i].ty])
                        /\ FixedList(bls[decls[i].ty])
SlotsApart(decls, slots, m) ==
  \A i, j \in 1 .. m : i # j =>
    \A o \in slots[decls[i].ty], p \in slots[decls[j].ty] : decls[i].addr + o # decls[j].addr + p

LEMMA EnumeratesDecls ==
  ASSUME NEW d \in 0 .. Depth, NEW decls, NEW bls, NEW slots, NEW m, ListsOfDecls(decls, bls, m, d),
         ListsEnumerate(decls, bls, slots, m), SlotsApart(decls, slots, m)
  PROVE  Enumerates(CodeFixed[ConcatDecls(decls, bls)], Placed(decls, slots))
<1>0. m \in Nat /\ \A i \in 1 .. m : bls[decls[i].ty] \in Lists[d + 1] /\ decls[i].addr \in Int
  BY DEF ListsOfDecls
<1>a. /\ DOMAIN decls = 1 .. m
      /\ \A i \in 1 .. m : /\ Enumerates(CodeFixed[bls[decls[i].ty]], slots[decls[i].ty])
                            /\ FixedList(bls[decls[i].ty])
  BY DEF ListsEnumerate
<1>1. PICK f : IsConcat(f, decls, bls, m, d)
  BY ConcatDeclsIs
<1>2. /\ f \in [0 .. m -> Lists[d + 1]] /\ f[0] = NoBlocklist
      /\ \A i \in 1 .. m : f[i] = ConcatBlocklists(f[i - 1], bls[decls[i].ty], decls[i].addr)
      /\ ConcatDecls(decls, bls) = f[m]
  BY <1>1 DEF IsConcat
<1> DEFINE One(i) == {decls[i].addr + o : o \in slots[decls[i].ty]}
           U(k) == UNION {One(i) : i \in 1 .. k}
           S == {k \in 0 .. m : Enumerates(CodeFixed[f[k]], U(k)) /\ FixedList(f[k])}
<1>3. 0 \in S
  <2>1. U(0) = {}
    OBVIOUS
  <2> HIDE DEF U
  <2>2. Enumerates(CodeFixed[f[0]], U(0)) /\ FixedList(f[0])
    BY <1>2, <2>1, CodeFixedEmpty, EnumeratesEmpty, PointerListGood
  <2> QED
    BY <1>0, <2>2
<1>4. ASSUME NEW k \in 0 .. m - 1, k \in S PROVE k + 1 \in S
  <2>1. k + 1 \in 1 .. m /\ (k + 1) - 1 = k /\ k \in 0 .. m /\ k + 1 \in 0 .. m
    BY <1>0
  <2>2. PICK b1, b2, a : b1 = f[k] /\ b2 = bls[decls[k + 1].ty] /\ a = decls[k + 1].addr
    OBVIOUS
  <2>3. f[k + 1] = ConcatBlocklists(b1, b2, a)
    BY <1>2, <2>1, <2>2
  <2>4. b1 \in Lists[d + 1] /\ b2 \in Lists[d + 1] /\ a \in Int /\ FixedList(b1) /\ FixedList(b2)
    BY <1>0, <1>2, <1>4, <1>a, <2>1, <2>2
  <2>5. Joins(b1, b2, a) => Last(b1).count \in Nat /\ b2[1].count \in Nat
    <3>1. PICK Y : b1 \in Seq(Y) /\ b2 \in Seq(Y)
      BY <2>4, ListsOfDepth
    <3>2. SUFFICES ASSUME Joins(b1, b2, a) PROVE Last(b1).count \in Nat /\ b2[1].count \in Nat
      OBVIOUS
    <3>3. Len(b1) \in DOMAIN b1 /\ 1 \in DOMAIN b2
      BY <3>1, <3>2, EmptySeq DEF Joins, NoBlocklist
    <3> QED
      BY <2>4, <3>3 DEF FixedList, Last
  <2>6. CodeFixed[ConcatBlocklists(b1, b2, a)] = CodeFixed[b1] \o Moved(CodeFixed[b2], a)
    BY <2>4, <2>5, ConcatOffsets
  <2>7. Enumerates(CodeFixed[b1], U(k))
    BY <1>4, <2>2
  <2>8. Enumerates(CodeFixed[b2], slots[decls[k + 1].ty])
    BY <1>a, <2>1, <2>2
  <2>9. Enumerates(Moved(CodeFixed[b2], a), One(k + 1))
    BY <2>2, <2>4, <2>8, EnumeratesMoved
  <2>10. U(k) \cap One(k + 1) = {}
    <3>1. SUFFICES ASSUME NEW i \in 1 .. k, NEW x, x \in One(i), x \in One(k + 1) PROVE FALSE
      OBVIOUS
    <3>2. i \in 1 .. m /\ i # k + 1
      BY <1>0
    <3>3. PICK o \in slots[decls[i].ty], p \in slots[decls[k + 1].ty] :
            x = decls[i].addr + o /\ x = decls[k + 1].addr + p
      BY <3>1
    <3> QED
      BY <2>1, <3>2, <3>3 DEF SlotsApart
  <2>11. U(k + 1) = U(k) \cup One(k + 1)
    <3>1. 1 .. k + 1 = (1 .. k) \cup {k + 1}
      BY <1>0
    <3> HIDE DEF One
    <3> QED
      BY <3>1
  <2> HIDE DEF U, One
  <2>12. Enumerates(CodeFixed[f[k + 1]], U(k + 1))
    BY <2>3, <2>6, <2>7, <2>9, <2>10, <2>11, EnumeratesConcat
  <2>13. FixedList(f[k + 1])
    <3>1. PICK X : Lists[d + 1] = Seq(EntriesOver(X))
      BY ListsOfDepth
    <3> QED
      BY <2>3, <2>4, <3>1, FixedConcat
  <2> QED
    BY <2>1, <2>12, <2>13
<1>5. m \in S
  <2> HIDE DEF S
  <2>1. 0 .. m \subseteq S
    BY <1>0, <1>3, <1>4, InductionUpto
  <2> QED
    BY <1>0, <2>1
<1>6. Placed(decls, slots) = U(m)
  BY <1>0, <1>a, PlacedIs
<1> HIDE DEF U
<1> QED
  BY <1>2, <1>5, <1>6
-----------------------------------------------------------------------------
(* Offsets in declarations that lie apart. *)
LEMMA ApartOffsets ==
  ASSUME NEW v, NEW w, NEW S, NEW T, v.addr \in Int, w.addr \in Int,
         v.ty.size \in Nat, w.ty.size \in Nat, Apart(VarBytes(v), VarBytes(w)),
         SlotsWithin(S, v.ty.size), SlotsWithin(T, w.ty.size), NEW o \in S, NEW p \in T
  PROVE  v.addr + o # w.addr + p
<1>1. o \in Nat /\ o + 4 <= v.ty.size /\ p \in Nat /\ p + 4 <= w.ty.size
  BY DEF SlotsWithin
<1>2. v.addr + v.ty.size <= w.addr \/ w.addr + w.ty.size <= v.addr
  BY DEF Apart, VarBytes
<1> QED
  BY <1>1, <1>2

(* The list of a type enumerates its pointers. *)
LEMMA TypeListEnumerates ==
  ASSUME NEW kind \in Kinds, NEW b, NEW s, NEW t \in AllTypes, t.form # "open",
         \A r \in AllTypes : r.depth < t.depth /\ r.form # "open" =>
           GoodList(b[r], r) /\ SlotsWithin(s[r], r.size) /\ Enumerates(CodeFixed[b[r]], s[r])
  PROVE  Enumerates(CodeFixed[TypeList(b, t, kind)], TypeSlots(s, t, kind))
<1>0. PICK d \in 0 .. Depth : d = t.depth /\ d \in Nat
  BY TypeParts, TypesAssumption
<1>1. ASSUME NEW r \in AllTypes, r.depth < d, r.form # "open"
      PROVE  /\ b[r] \in Lists[d] /\ b[r] \in Lists[d + 1] /\ FixedList(b[r])
             /\ SlotsWithin(s[r], r.size) /\ Enumerates(CodeFixed[b[r]], s[r]) /\ r.size \in Nat
  <2>1. r.depth + 1 \in Nat /\ r.depth + 1 <= d /\ r.size \in Nat
    BY <1>0, <1>1, TypeParts
  <2>2. /\ b[r] \in Lists[r.depth + 1] /\ FixedList(b[r])
        /\ SlotsWithin(s[r], r.size) /\ Enumerates(CodeFixed[b[r]], s[r])
    BY <1>0, <1>1 DEF GoodList
  <2>3. Lists[r.depth + 1] \subseteq Lists[d] /\ Lists[d] \subseteq Lists[d + 1]
    BY <1>0, <2>1, ListsMonotonic, ListsGrow
  <2> QED
    BY <2>1, <2>2, <2>3
<1>2. CASE t.form = kind
  <2>1. TypeList(b, t, kind) = cPointerBlocklist /\ TypeSlots(s, t, kind) = {0}
    BY <1>2 DEF TypeList, TypeSlots, Kinds
  <2>2. CodeFixed[cPointerBlocklist] = <<0>>
    <3>1. PICK e : e = Entry(NoBlocklist, 0, 1, 4, 0)
      OBVIOUS
    <3>2. /\ e \in EntriesOver(AllLists) /\ e.sub = NoBlocklist
          /\ e.ofs = 0 /\ e.incr = 4 /\ e.count = 1
      BY <3>1, NoListIn DEF Entry, EntriesOver
    <3>3. <<e>> \in AllLists /\ cPointerBlocklist = <<e>>
      <4>1. Lists[Depth + 1] = AllLists /\ Depth \in Nat
        BY TypesAssumption DEF AllLists
      <4> QED
        BY <3>1, <4>1, PointerListGood DEF cPointerBlocklist
    <3>4. CodeFixed[<<e>>] = EntryOffsets(e)
      BY <3>2, <3>3, CodeFixedOne
    <3>a. PICK u, z, f : u = <<0>> /\ z = 0 /\ f = 4
      OBVIOUS
    <3>5. u = <<0>> /\ z = 0 /\ f = 4 /\ u \in Seq(Int) /\ z \in Int /\ f \in Int
      BY <3>a, ZeroOffset
    <3>6. EntryOffsets(e) = Row(u, z, f, 1)
      BY <3>2, <3>5 DEF EntryOffsets
    <3>7. Row(u, z, f, 1) = Moved(u, z)
      BY <3>5, RowOne
    <3>8. Moved(u, z) = u
      BY <3>5, MovedZero
    <3> QED
      BY <3>3, <3>4, <3>5, <3>6, <3>7, <3>8
  <2>3. Enumerates(<<0>>, {0})
    <3>1. <<0>> \in Seq(Int) /\ ToSet(<<0>>) = {0} /\ IsInjective(<<0>>)
      BY ZeroOffset DEF ToSet, IsInjective
    <3> QED
      BY <3>1 DEF Enumerates
  <2> QED
    BY <2>1, <2>2, <2>3
<1>3. CASE t.form = "array"
  <2>1. /\ TypeList(b, t, kind) = BlocklistOfArrayType(b[t.elem], t.len, t.elem.size)
        /\ TypeSlots(s, t, kind) = {i * t.elem.size + o : i \in 0 .. t.len - 1, o \in s[t.elem]}
    BY <1>3 DEF TypeList, TypeSlots, Kinds
  <2>2. /\ t.elem \in AllTypes /\ t.elem.depth < t.depth /\ t.elem.form # "open"
        /\ t.len \in Nat \ {0}
    BY <1>3, TypeParts
  <2>3. PICK bl, len, size, S : bl = b[t.elem] /\ len = t.len /\ size = t.elem.size /\ S = s[t.elem]
    OBVIOUS
  <2>4. /\ bl \in Lists[d] /\ FixedList(bl) /\ len \in Nat \ {0} /\ size \in Int /\ size \in Nat
        /\ len \in Nat /\ SlotsWithin(S, size) /\ Enumerates(CodeFixed[bl], S)
    BY <1>0, <1>1, <2>2, <2>3
  <2>5. CodeFixed[BlocklistOfArrayType(bl, len, size)] = Row(CodeFixed[bl], 0, size, len)
    BY <2>4, ArrayOffsets
  <2>6. \A o \in S : o \in Nat /\ o < size
    BY <2>4 DEF SlotsWithin
  <2>7. Enumerates(Row(CodeFixed[bl], 0, size, len), RowSlots(S, size, len))
    BY <2>4, <2>6, EnumeratesRow
  <2>8. RowSlots(S, size, len) = {i * size + o : i \in 0 .. len - 1, o \in S}
    BY RowSlotsAre
  <2> QED
    BY <2>1, <2>3, <2>5, <2>7, <2>8
<1>4. CASE t.form = "record"
  <2>1. /\ TypeList(b, t, kind) = AdjustIncr(ConcatDecls(t.fields, b), t.size)
        /\ TypeSlots(s, t, kind) = Placed(t.fields, s)
    BY <1>4 DEF TypeList, TypeSlots, Kinds
  <2>2. PICK m, decls : m \in Nat /\ decls = t.fields /\ m = Len(decls) /\ DOMAIN decls = 1 .. m
    BY <1>4, FieldsAre
  <2>3. \A i \in 1 .. m : /\ decls[i].ty \in AllTypes /\ decls[i].ty.depth < d
                          /\ decls[i].ty.form # "open" /\ decls[i].addr \in Int
    BY <1>0, <1>4, <2>2, TypeParts
  <2>4. \A i \in 1 .. m : /\ b[decls[i].ty] \in Lists[d + 1] /\ FixedList(b[decls[i].ty])
                          /\ SlotsWithin(s[decls[i].ty], decls[i].ty.size) /\ decls[i].ty.size \in Nat
                          /\ Enumerates(CodeFixed[b[decls[i].ty]], s[decls[i].ty])
    BY <1>1, <2>3
  <2>5. ListsOfDecls(decls, b, m, d)
    BY <2>2, <2>3, <2>4 DEF ListsOfDecls
  <2>6. \A i, j \in 1 .. m : i # j => Apart(VarBytes(decls[i]), VarBytes(decls[j]))
    BY <1>4, <2>2, TypeParts
  <2>7. SlotsApart(decls, s, m)
    <3> USE DEF SlotsApart
    <3> TAKE i, j \in 1 .. m
    <3> HAVE i # j
    <3> TAKE o \in s[decls[i].ty], p \in s[decls[j].ty]
    <3> QED
      BY <2>3, <2>4, <2>6, ApartOffsets
  <2>8. PICK bl : bl = ConcatDecls(decls, b) /\ bl \in Lists[d + 1]
    BY <2>2, <2>3, <2>4, ConcatDeclsFixed
  <2>9. Enumerates(CodeFixed[bl], Placed(decls, s))
    <3>1. ListsEnumerate(decls, b, s, m)
      BY <2>2, <2>4 DEF ListsEnumerate
    <3> QED
      BY <2>5, <2>7, <2>8, <3>1, EnumeratesDecls
  <2>10. CodeFixed[AdjustIncr(bl, t.size)] = CodeFixed[bl]
    <3>1. t.size \in Int
      BY TypeParts
    <3> QED
      BY <2>8, <3>1, AdjustIncrRight
  <2> QED
    BY <2>1, <2>2, <2>8, <2>9, <2>10
<1>5. CASE t.form \notin {kind, "open", "array", "record"}
  <2>1. TypeList(b, t, kind) = NoBlocklist /\ TypeSlots(s, t, kind) = {}
    BY <1>5 DEF TypeList, TypeSlots
  <2> QED
    BY <2>1, CodeFixedEmpty, EnumeratesEmpty
<1> QED
  BY <1>2, <1>3, <1>4, <1>5

LEMMA TypeEnumerates ==
  ASSUME NEW kind \in Kinds, NEW t \in AllTypes, t.form # "open"
  PROVE  Enumerates(CodeFixed[BlocklistOfType(t, kind)], Slots(t, kind))
<1>1. PICK b, s : b = BlocklistsOf(kind) /\ s = SlotsOf(kind)
  OBVIOUS
<1>2. \A r \in AllTypes : b[r] = TypeList(b, r, kind) /\ GoodList(b[r], r)
  BY <1>1, BlocklistsAre DEF BlocklistOfType
<1>3. \A r \in AllTypes : s[r] = TypeSlots(s, r, kind) /\ SlotsWithin(s[r], r.size)
  BY <1>1, SlotsAre DEF Slots
<1> DEFINE P == {r \in AllTypes : r.form # "open" => Enumerates(CodeFixed[b[r]], s[r])}
<1>4. ASSUME NEW r \in AllTypes, \A q \in AllTypes : TypeRank[q] < TypeRank[r] => q \in P PROVE r \in P
  <2>1. SUFFICES ASSUME r.form # "open" PROVE Enumerates(CodeFixed[b[r]], s[r])
    OBVIOUS
  <2>2. \A q \in AllTypes : q.depth < r.depth /\ q.form # "open" =>
          GoodList(b[q], q) /\ SlotsWithin(s[q], q.size) /\ Enumerates(CodeFixed[b[q]], s[q])
    BY <1>2, <1>3, <1>4, TypeParts
  <2>3. Enumerates(CodeFixed[TypeList(b, r, kind)], TypeSlots(s, r, kind))
    BY <2>1, <2>2, TypeListEnumerates
  <2> QED
    BY <1>2, <1>3, <2>3
<1>5. AllTypes \subseteq P
  <2> HIDE DEF P
  <2> QED
    BY <1>4, TypeRankIs, RankInduction
<1> QED
  BY <1>1, <1>5 DEF BlocklistOfType, Slots

-----------------------------------------------------------------------------
(* The declarations of a scope lie apart: each is put behind all earlier   *)
(* ones.  The addresses of a module's variables and of parameters only     *)
(* grow, those of locals only fall, so that the present address bounds     *)
(* everything declared so far.                                             *)
Modes == {"VALPAR", "REFPAR"}

(* Each parameter as DeclarePar makes it, below parAddr. *)
ParamsPlaced ==
  /\ parAddr \in Nat /\ parAddr >= ProcParBase /\ parAddr % 4 = 0
  /\ params \in Seq([ty : Types, mode : Modes, addr : Nat, ref : Modes])
  /\ \A i \in DOMAIN params :
       /\ params[i].addr % 4 = 0
       /\ ParBytes(params[i]).from >= ProcParBase
       /\ ParBytes(params[i]).upto <= parAddr

(* Each variable is aligned and lies between the scope's base and varAddr. *)
VarsPlaced ==
  /\ varAddr \in Int
  /\ vars \in Seq([ty : Types, addr : Int])
  /\ IF level = MODULELEVEL THEN varAddr >= GlobalVarBase ELSE varAddr <= LocalVarBase(level)
  /\ \A i \in DOMAIN vars :
       /\ vars[i].addr % Unit(vars[i].ty.size) = 0
       /\ IF level = MODULELEVEL
          THEN GlobalVarBase <= vars[i].addr /\ VarBytes(vars[i]).upto <= varAddr
          ELSE varAddr <= vars[i].addr /\ VarBytes(vars[i]).upto <= LocalVarBase(level)

ScopeInv ==
  /\ level \in Nat \ {0}
  /\ ParamsPlaced /\ VarsPlaced
  /\ \A i, j \in DOMAIN vars : i # j => Apart(VarBytes(vars[i]), VarBytes(vars[j]))
  /\ \A i, j \in DOMAIN params : i # j => Apart(ParBytes(params[i]), ParBytes(params[j]))

-----------------------------------------------------------------------------
(* Rounding down reaches the next multiple. *)
LEMMA DownRounds ==
  ASSUME NEW a \in Int, NEW k \in {1, 2, 4, 8}
  PROVE  /\ Down(a, k) \in Int /\ Down(a, k) % k = 0
         /\ Down(a, k) <= a /\ a < Down(a, k) + k
<1>1. CASE k = 1
  BY <1>1 DEF Down
<1>2. CASE k = 2
  BY <1>2 DEF Down
<1>3. CASE k = 4
  BY <1>3 DEF Down
<1>4. CASE k = 8
  BY <1>4 DEF Down
<1> QED
  BY <1>1, <1>2, <1>3, <1>4

(* Alignment is to bytes, half words or words. *)
LEMMA UnitIs ==
  ASSUME NEW size \in Nat
  PROVE  Unit(size) \in {1, 2, 4}
BY DEF Unit

(* The words before an open array's elements are counted without a rest. *)
LEMMA DimsOfOpen ==
  ASSUME NEW odim \in Nat \ {0}
  PROVE  /\ ArrayOfsFromODim(odim) \in Nat /\ (4 + ArrayOfsFromODim(odim)) % 4 = 0
         /\ 4 * (1 + ArrayOfsFromODim(odim) \div 4) = 4 + ArrayOfsFromODim(odim)
BY DEF ArrayOfsFromODim

(* A value parameter's words hold its bytes. *)
LEMMA Align4Up ==
  ASSUME NEW v \in Nat
  PROVE  Align4(v) \in Nat /\ Align4(v) % 4 = 0 /\ Align4(v) >= v /\ 4 * (Align4(v) \div 4) = Align4(v)
BY DEF Align4, Down

-----------------------------------------------------------------------------
(* The bytes of a new parameter begin at parAddr, or after the tag, and    *)
(* end where the words counted for it do.                                  *)
LEMMA ParFits ==
  ASSUME ParamsPlaced, NEW t \in Types, NEW mode \in Modes,
         NEW p, p = [ty |-> t, mode |-> mode, addr |-> ParAddrOf(t, mode),
                     ref |-> RefMode(t, mode)]
  PROVE  /\ p \in [ty : Types, mode : Modes, addr : Nat, ref : Modes]
         /\ p.addr % 4 = 0
         /\ ParBytes(p).from = parAddr
         /\ ParBytes(p).upto \in Int /\ ParBytes(p).upto <= parAddr + 4 * ParWords(t, mode)
         /\ 4 * ParWords(t, mode) \in Nat /\ 4 * ParWords(t, mode) % 4 = 0
<1>1. WellFormed(t) /\ parAddr \in Nat
  BY LayoutAssumption DEF ParamsPlaced
<1>2. p \in [ty : Types, mode : Modes, addr : Nat, ref : Modes] /\ p.addr % 4 = 0
      /\ ParBytes(p).from = parAddr
  <2>1. ParAddrOf(t, mode) \in Nat /\ ParAddrOf(t, mode) % 4 = 0
    <3>1. parAddr \in Nat /\ parAddr % 4 = 0
      BY DEF ParamsPlaced
    <3>2. parAddr + 4 \in Nat /\ (parAddr + 4) % 4 = 0
      BY <3>1
    <3> QED
      BY <3>1, <3>2 DEF ParAddrOf
  <2>2. RefMode(t, mode) \in Modes
    BY DEF RefMode, Modes
  <2>3. ParBytes(p).from = parAddr
    BY <1>1 DEF ParBytes, ParAddrOf
  <2> QED
    BY <2>1, <2>2, <2>3
<1>3. ParBytes(p).upto \in Int /\ ParBytes(p).upto <= parAddr + 4 * ParWords(t, mode)
      /\ 4 * ParWords(t, mode) \in Nat /\ 4 * ParWords(t, mode) % 4 = 0
  <2>1. CASE t.form = "open"
    <3>1. ~HasTag(t, mode) /\ t.odim \in Nat \ {0}
      BY <1>1, <2>1 DEF HasTag, WellFormed
    <3>2. 4 * ParWords(t, mode) = 4 + ArrayOfsFromODim(t.odim) /\ ArrayOfsFromODim(t.odim) \in Nat
          /\ (4 + ArrayOfsFromODim(t.odim)) % 4 = 0
      BY <2>1, <3>1, DimsOfOpen DEF ParWords
    <3>3. ParBytes(p).upto = parAddr + 4 + ArrayOfsFromODim(t.odim)
      BY <2>1, <3>1 DEF ParBytes, ParAddrOf
    <3> QED
      BY <1>1, <3>2, <3>3
  <2>2. CASE HasTag(t, mode)
    <3>1. t.form = "record" /\ RefMode(t, mode) = "REFPAR"
      BY <2>2 DEF HasTag, RefMode
    <3>2. ParWords(t, mode) = 2
      BY <2>2, <3>1 DEF ParWords
    <3>3. ParBytes(p).upto = parAddr + 8
      BY <1>1, <2>2, <3>1 DEF ParBytes, ParAddrOf
    <3> QED
      BY <1>1, <3>2, <3>3
  <2>3. CASE t.form # "open" /\ ~HasTag(t, mode) /\ RefMode(t, mode) = "REFPAR"
    <3>1. ParWords(t, mode) = 1
      BY <2>3 DEF ParWords
    <3>2. ParBytes(p).upto = parAddr + 4
      BY <2>3 DEF ParBytes, ParAddrOf
    <3> QED
      BY <1>1, <3>1, <3>2
  <2>4. CASE RefMode(t, mode) = "VALPAR"
    <3>1. t.form # "open" /\ ~HasTag(t, mode) /\ t.size \in Nat
      BY <1>1, <2>4 DEF RefMode, HasTag, WellFormed
    <3>2. ParWords(t, mode) = Align4(t.size) \div 4
      BY <2>4, <3>1 DEF ParWords
    <3>3. ParBytes(p).upto = parAddr + t.size
      BY <2>4, <3>1 DEF ParBytes, ParAddrOf
    <3>4. 4 * ParWords(t, mode) = Align4(t.size) /\ Align4(t.size) >= t.size
          /\ Align4(t.size) \in Nat /\ Align4(t.size) % 4 = 0
      BY <3>1, <3>2, Align4Up
    <3> QED
      BY <1>1, <3>1, <3>3, <3>4
  <2> QED
    BY <2>1, <2>2, <2>3, <2>4 DEF RefMode
<1> QED
  BY <1>2, <1>3

(* A new parameter leaves what is known of the parameters true. *)
LEMMA DeclareParPlaces ==
  ASSUME ScopeInv, NEW t \in Types, NEW mode \in Modes, DeclarePar(t, mode)
  PROVE  ScopeInv'
<1> DEFINE p == [ty |-> t, mode |-> mode, addr |-> ParAddrOf(t, mode), ref |-> RefMode(t, mode)]
<1>1. /\ p \in [ty : Types, mode : Modes, addr : Nat, ref : Modes] /\ p.addr % 4 = 0
      /\ ParBytes(p).from = parAddr
      /\ ParBytes(p).upto \in Int /\ ParBytes(p).upto <= parAddr + 4 * ParWords(t, mode)
      /\ 4 * ParWords(t, mode) \in Nat /\ 4 * ParWords(t, mode) % 4 = 0
  BY ParFits DEF ScopeInv
<1>2. params' = Append(params, p) /\ parAddr' = parAddr + 4 * ParWords(t, mode)
      /\ UNCHANGED <<level, vars, varAddr>>
  BY DEF DeclarePar
<1> HIDE DEF p
<1>3. /\ params \in Seq([ty : Types, mode : Modes, addr : Nat, ref : Modes])
      /\ parAddr \in Nat /\ parAddr >= ProcParBase /\ parAddr % 4 = 0
  BY DEF ScopeInv, ParamsPlaced
<1>4. /\ params' \in Seq([ty : Types, mode : Modes, addr : Nat, ref : Modes])
      /\ DOMAIN params' = DOMAIN params \cup {Len(params) + 1}
      /\ Len(params) + 1 \notin DOMAIN params
      /\ params'[Len(params) + 1] = p
      /\ \A i \in DOMAIN params : params'[i] = params[i]
  BY <1>1, <1>2, <1>3
<1>5. parAddr' \in Nat /\ parAddr' >= parAddr /\ parAddr' >= ProcParBase
  BY <1>1, <1>2, <1>3 DEF ProcParBase
<1>6. parAddr' % 4 = 0
  <2> DEFINE w == 4 * ParWords(t, mode)
  <2>1. w \in Nat /\ w % 4 = 0 /\ parAddr' = parAddr + w
    BY <1>1, <1>2
  <2> HIDE DEF w
  <2> QED
    BY <2>1, <1>3
<1>7. \A i \in DOMAIN params :
        /\ params[i].addr % 4 = 0
        /\ ParBytes(params[i]).from >= ProcParBase
        /\ ParBytes(params[i]).upto <= parAddr
        /\ ParBytes(params[i]).upto \in Int
  <2> SUFFICES ASSUME NEW i \in DOMAIN params
               PROVE  ParBytes(params[i]).upto \in Int
    BY DEF ScopeInv, ParamsPlaced
  <2>1. params[i] \in [ty : Types, mode : Modes, addr : Nat, ref : Modes]
    <3> DEFINE R == [ty : Types, mode : Modes, addr : Nat, ref : Modes]
    <3>1. params \in Seq(R)
      BY <1>3
    <3> HIDE DEF R
    <3>2. params[i] \in R
      BY <3>1
    <3> QED
      BY <3>2 DEF R
  <2>2. params[i].addr \in Nat /\ params[i].ty.size \in Nat
        /\ (params[i].ty.form = "open" => params[i].ty.odim \in Nat \ {0})
    BY <2>1, LayoutAssumption DEF WellFormed
  <2>3. params[i].ty.form = "open" => ArrayOfsFromODim(params[i].ty.odim) \in Nat
    BY <2>2, DimsOfOpen
  <2> QED
    BY <2>2, <2>3 DEF ParBytes
<1>8. ParamsPlaced'
  <2> SUFFICES ASSUME NEW i \in DOMAIN params'
               PROVE  /\ params'[i].addr % 4 = 0
                      /\ ParBytes(params'[i]).from >= ProcParBase
                      /\ ParBytes(params'[i]).upto <= parAddr'
    BY <1>4, <1>5, <1>6 DEF ParamsPlaced, ParBytes, HasTag
  <2>1. CASE i = Len(params) + 1
    BY <2>1, <1>1, <1>2, <1>3, <1>4
  <2>2. CASE i \in DOMAIN params
    <3>1. params'[i] = params[i]
      BY <2>2, <1>4
    <3>2. /\ params[i].addr % 4 = 0 /\ ParBytes(params[i]).from >= ProcParBase
          /\ ParBytes(params[i]).upto <= parAddr /\ ParBytes(params[i]).upto \in Int
      BY <2>2, <1>7
    <3>3. ParBytes(params[i]).upto <= parAddr'
      <4> DEFINE u == ParBytes(params[i]).upto
      <4>1. u \in Int /\ u <= parAddr /\ parAddr \in Nat /\ parAddr' \in Nat /\ parAddr <= parAddr'
        BY <3>2, <1>3, <1>5
      <4> HIDE DEF u
      <4>2. u <= parAddr'
        BY <4>1
      <4> QED
        BY <4>2 DEF u
    <3> QED
      BY <3>1, <3>2, <3>3
  <2> QED
    BY <2>1, <2>2, <1>4
<1>9. \A i, j \in DOMAIN params' : i # j => Apart(ParBytes(params'[i]), ParBytes(params'[j]))
  <2> SUFFICES ASSUME NEW i \in DOMAIN params', NEW j \in DOMAIN params', i # j
               PROVE  Apart(ParBytes(params'[i]), ParBytes(params'[j]))
    OBVIOUS
  <2>1. CASE i = Len(params) + 1
    BY <2>1, <1>1, <1>4, <1>7 DEF Apart
  <2>2. CASE j = Len(params) + 1
    BY <2>2, <1>1, <1>4, <1>7 DEF Apart
  <2>3. CASE i \in DOMAIN params /\ j \in DOMAIN params
    BY <2>3, <1>4 DEF ScopeInv
  <2> QED
    BY <2>1, <2>2, <2>3, <1>4
<1>10. VarsPlaced' /\ level' \in Nat \ {0}
  BY <1>2 DEF ScopeInv, VarsPlaced, VarBytes, LocalVarBase
<1> QED
  BY <1>2, <1>8, <1>9, <1>10 DEF ScopeInv, ParBytes, VarBytes, HasTag

(* A new variable leaves what is known of the variables true. *)
LEMMA DeclareVarPlaces ==
  ASSUME ScopeInv, NEW t \in Types, DeclareVar(t)
  PROVE  ScopeInv'
<1> DEFINE a == IF level = MODULELEVEL
                THEN pAligned(varAddr, t.size) ELSE nAligned(varAddr - t.size, t.size)
           v == [ty |-> t, addr |-> a]
<1>1. /\ vars' = Append(vars, v)
      /\ varAddr' = IF level = MODULELEVEL THEN a + t.size ELSE a
      /\ UNCHANGED <<level, params, parAddr>>
  BY DEF DeclareVar
<1>2. /\ vars \in Seq([ty : Types, addr : Int]) /\ varAddr \in Int /\ t.size \in Nat
      /\ Unit(t.size) \in {1, 2, 4} /\ LocalVarBase(level) \in Int
  BY UnitIs, LayoutAssumption DEF ScopeInv, VarsPlaced, WellFormed, LocalVarBase, MODULELEVEL
<1>3. /\ a \in Int /\ a % Unit(t.size) = 0
      /\ level = MODULELEVEL => a >= varAddr
      /\ level # MODULELEVEL => a + t.size <= varAddr
  <2>1. varAddr + Unit(t.size) - 1 \in Int /\ varAddr - t.size \in Int
        /\ Unit(t.size) \in {1, 2, 4, 8}
    BY <1>2
  <2>2. CASE level = MODULELEVEL
    <3>1. a = Down(varAddr + Unit(t.size) - 1, Unit(t.size))
      BY <2>2 DEF pAligned
    <3>2. /\ Down(varAddr + Unit(t.size) - 1, Unit(t.size)) \in Int
          /\ Down(varAddr + Unit(t.size) - 1, Unit(t.size)) % Unit(t.size) = 0
          /\ Down(varAddr + Unit(t.size) - 1, Unit(t.size)) <= varAddr + Unit(t.size) - 1
          /\ varAddr + Unit(t.size) - 1 < Down(varAddr + Unit(t.size) - 1, Unit(t.size)) + Unit(t.size)
      BY <2>1, DownRounds
    <3> HIDE DEF a
    <3> QED
      BY <1>2, <2>2, <3>1, <3>2
  <2>3. CASE level # MODULELEVEL
    <3>1. a = Down(varAddr - t.size, Unit(t.size))
      BY <2>3 DEF nAligned
    <3>2. /\ Down(varAddr - t.size, Unit(t.size)) \in Int
          /\ Down(varAddr - t.size, Unit(t.size)) % Unit(t.size) = 0
          /\ Down(varAddr - t.size, Unit(t.size)) <= varAddr - t.size
          /\ varAddr - t.size < Down(varAddr - t.size, Unit(t.size)) + Unit(t.size)
      BY <2>1, DownRounds
    <3> HIDE DEF a
    <3> QED
      BY <1>2, <2>3, <3>1, <3>2
  <2> QED
    BY <2>2, <2>3
<1> HIDE DEF a
<1>4. /\ VarBytes(v).from = a /\ VarBytes(v).upto = a + t.size
      /\ v.ty = t /\ v.addr = a /\ v \in [ty : Types, addr : Int]
  BY <1>3 DEF VarBytes
<1> HIDE DEF v
<1>5. /\ vars' \in Seq([ty : Types, addr : Int])
      /\ DOMAIN vars' = DOMAIN vars \cup {Len(vars) + 1}
      /\ vars'[Len(vars) + 1] = v
      /\ \A i \in DOMAIN vars : vars'[i] = vars[i]
  BY <1>1, <1>2, <1>4
<1>6. \A i \in DOMAIN vars :
        /\ VarBytes(vars[i]).from = vars[i].addr /\ VarBytes(vars[i]).from \in Int
        /\ VarBytes(vars[i]).upto \in Int
        /\ vars[i].addr % Unit(vars[i].ty.size) = 0
        /\ IF level = MODULELEVEL
           THEN GlobalVarBase <= vars[i].addr /\ VarBytes(vars[i]).upto <= varAddr
           ELSE varAddr <= vars[i].addr /\ VarBytes(vars[i]).upto <= LocalVarBase(level)
  <2> SUFFICES ASSUME NEW i \in DOMAIN vars
               PROVE  /\ VarBytes(vars[i]).from = vars[i].addr /\ VarBytes(vars[i]).from \in Int
                      /\ VarBytes(vars[i]).upto \in Int
    BY DEF ScopeInv, VarsPlaced
  <2>1. vars[i] \in [ty : Types, addr : Int]
    <3> DEFINE R == [ty : Types, addr : Int]
    <3>1. vars \in Seq(R)
      BY <1>2
    <3> HIDE DEF R
    <3>2. vars[i] \in R
      BY <3>1
    <3> QED
      BY <3>2 DEF R
  <2>2. vars[i].ty.size \in Nat /\ vars[i].addr \in Int
    BY <2>1, LayoutAssumption DEF WellFormed
  <2> QED
    BY <2>1, <2>2 DEF VarBytes
<1>7. VarsPlaced'
  <2>1. /\ varAddr' \in Int
        /\ IF level = MODULELEVEL THEN varAddr' >= GlobalVarBase /\ varAddr' >= varAddr
           ELSE varAddr' <= LocalVarBase(level) /\ varAddr' <= varAddr
    BY <1>1, <1>2, <1>3 DEF ScopeInv, VarsPlaced, GlobalVarBase
  <2>2. ASSUME NEW i \in DOMAIN vars'
        PROVE  /\ vars'[i].addr % Unit(vars'[i].ty.size) = 0
               /\ IF level = MODULELEVEL
                  THEN GlobalVarBase <= vars'[i].addr /\ VarBytes(vars'[i]).upto <= varAddr'
                  ELSE varAddr' <= vars'[i].addr /\ VarBytes(vars'[i]).upto <= LocalVarBase(level)
    <3>1. CASE i = Len(vars) + 1
      BY <3>1, <1>1, <1>2, <1>3, <1>4, <1>5 DEF ScopeInv, VarsPlaced, GlobalVarBase
    <3>2. CASE i \in DOMAIN vars
      <4>1. vars'[i] = vars[i]
        BY <3>2, <1>5
      <4>2. /\ vars[i].addr % Unit(vars[i].ty.size) = 0
            /\ vars[i].addr \in Int /\ VarBytes(vars[i]).upto \in Int
            /\ IF level = MODULELEVEL
               THEN GlobalVarBase <= vars[i].addr /\ VarBytes(vars[i]).upto <= varAddr
               ELSE varAddr <= vars[i].addr /\ VarBytes(vars[i]).upto <= LocalVarBase(level)
        BY <3>2, <1>6
      <4>3. IF level = MODULELEVEL THEN VarBytes(vars[i]).upto <= varAddr'
            ELSE varAddr' <= vars[i].addr
        BY <4>2, <2>1, <1>2
      <4> QED
        BY <4>1, <4>2, <4>3
    <3> QED
      BY <3>1, <3>2, <1>5
  <2> QED
    BY <1>1, <1>5, <2>1, <2>2 DEF VarsPlaced, VarBytes, LocalVarBase
<1>8. \A i, j \in DOMAIN vars' : i # j => Apart(VarBytes(vars'[i]), VarBytes(vars'[j]))
  <2> SUFFICES ASSUME NEW i \in DOMAIN vars', NEW j \in DOMAIN vars', i # j
               PROVE  Apart(VarBytes(vars'[i]), VarBytes(vars'[j]))
    OBVIOUS
  <2>1. CASE i = Len(vars) + 1 /\ j \in DOMAIN vars
    <3>1. vars'[i] = v /\ vars'[j] = vars[j]
      BY <2>1, <1>5
    <3>2. /\ VarBytes(vars[j]).from \in Int /\ VarBytes(vars[j]).upto \in Int
          /\ IF level = MODULELEVEL THEN VarBytes(vars[j]).upto <= varAddr
             ELSE varAddr <= VarBytes(vars[j]).from
      BY <2>1, <1>6
    <3>3. VarBytes(vars[j]).upto <= a \/ a + t.size <= VarBytes(vars[j]).from
      BY <3>2, <1>2, <1>3
    <3> QED
      BY <3>1, <3>3, <1>4 DEF Apart
  <2>2. CASE j = Len(vars) + 1 /\ i \in DOMAIN vars
    <3>1. vars'[j] = v /\ vars'[i] = vars[i]
      BY <2>2, <1>5
    <3>2. /\ VarBytes(vars[i]).from \in Int /\ VarBytes(vars[i]).upto \in Int
          /\ IF level = MODULELEVEL THEN VarBytes(vars[i]).upto <= varAddr
             ELSE varAddr <= VarBytes(vars[i]).from
      BY <2>2, <1>6
    <3>3. VarBytes(vars[i]).upto <= a \/ a + t.size <= VarBytes(vars[i]).from
      BY <3>2, <1>2, <1>3
    <3> QED
      BY <3>1, <3>3, <1>4 DEF Apart
  <2>3. CASE i \in DOMAIN vars /\ j \in DOMAIN vars
    BY <2>3, <1>5 DEF ScopeInv
  <2> QED
    BY <2>1, <2>2, <2>3, <1>5
<1>9. ParamsPlaced' /\ level' \in Nat \ {0}
  BY <1>1 DEF ScopeInv, ParamsPlaced, ParBytes, HasTag
<1> QED
  BY <1>1, <1>7, <1>8, <1>9 DEF ScopeInv, ParBytes, VarBytes, HasTag

(* The declarations of every scope lie apart, outside of the frame's links *)
(* and aligned: ADR.pum's NextParAddr and NextVarAddr.                     *)
THEOREM DeclarationsLieApart == ScopeSpec => []LayoutRight
<1>1. ScopeInit => ScopeInv
  BY LayoutAssumption
  DEF ScopeInit, ScopeInv, ParamsPlaced, VarsPlaced, ProcParBase, GlobalVarBase, LocalVarBase,
      MODULELEVEL
<1>2. ScopeInv /\ [ScopeNext]_scope => ScopeInv'
  <2> SUFFICES ASSUME ScopeInv, [ScopeNext]_scope
               PROVE  ScopeInv'
    OBVIOUS
  <2>1. ASSUME NEW t \in Types, NEW mode \in Modes, DeclarePar(t, mode)
        PROVE  ScopeInv'
    BY <2>1, DeclareParPlaces
  <2>2. ASSUME NEW t \in Types, DeclareVar(t)
        PROVE  ScopeInv'
    BY <2>2, DeclareVarPlaces
  <2>3. CASE UNCHANGED scope
    <3>1. UNCHANGED <<level, params, vars, parAddr, varAddr>>
      BY <2>3 DEF scope
    <3>2. ParamsPlaced'
      BY <3>1 DEF ScopeInv, ParamsPlaced, ParBytes, HasTag
    <3>3. VarsPlaced'
      BY <3>1 DEF ScopeInv, VarsPlaced, VarBytes, LocalVarBase
    <3> QED
      BY <3>1, <3>2, <3>3 DEF ScopeInv, ParBytes, VarBytes, HasTag
  <2> QED
    BY <2>1, <2>2, <2>3 DEF ScopeNext, Modes
<1>3. ScopeInv => LayoutRight
  BY DEF ScopeInv, ParamsPlaced, VarsPlaced, LayoutRight, VarBytes
<1> QED
  BY <1>1, <1>2, <1>3, PTL DEF ScopeSpec

-----------------------------------------------------------------------------
(* Whatever the type and the number of elements, the skipper of its        *)
(* descriptor moves by exactly the bytes NEW allocated, so that a walk     *)
(* over the heap (Sweep) finds each block where the last one ends.         *)
THEOREM SkipperExact ==
  ASSUME NEW t, WellFormed(t), NEW k \in Nat
  PROVE  Skipped(t, k) = BlockSize(t, k)
<1>1. CASE t.form # "open"
  BY <1>1 DEF Skipped, BlockSize, Align8, Down, WellFormed
<1>2. CASE t.form = "open"
  <2> DEFINE d == ArrayOfsFromODim(t.odim)
             es == t.elem.size
  <2>1. d \in Nat /\ es \in Nat
    BY <1>2, DimsOfOpen DEF WellFormed
  <2>2. BlockSize(t, k) = Align8(4 + d + k * es)
    BY <1>2 DEF BlockSize
  <2>3. /\ es = 0 => Skipped(t, k) = Align8(4 + d)
        /\ es # 0 /\ es \in Powers => Skipped(t, k) = Align8(4 + d) + k * es
        /\ es # 0 /\ es \notin Powers => Skipped(t, k) = Down(11 + d + k * es, 8)
    BY <1>2 DEF Skipped
  <2> HIDE DEF d, es
  <2>4. CASE es = 0
    BY <2>1, <2>2, <2>3, <2>4
  <2>5. CASE es # 0 /\ es \in Powers
    <3>0. es \in Nat /\ es % 8 = 0
      BY <2>5 DEF Powers
    <3>1. PICK q \in Nat : es = 8 * q
      BY <3>0
    <3>2. k * es = 8 * (k * q) /\ k * q \in Nat
      BY <3>1
    <3> DEFINE m == k * q
    <3>3. Align8(4 + d + 8 * m) = Align8(4 + d) + 8 * m
      <4> HIDE DEF m
      <4> SUFFICES ASSUME m \in Nat PROVE Align8(4 + d + 8 * m) = Align8(4 + d) + 8 * m
        BY <3>2 DEF m
      <4> QED
        BY <2>1 DEF Align8, Down
    <3> QED
      BY <2>2, <2>3, <2>5, <3>2, <3>3
  <2>6. CASE es # 0 /\ es \notin Powers
    <3>1. k * es \in Nat
      BY <2>1
    <3> DEFINE m == k * es
    <3> HIDE DEF m
    <3>2. m \in Nat
      BY <3>1 DEF m
    <3>3. Align8(4 + d + m) = Down(11 + d + m, 8)
      BY <2>1, <3>2 DEF Align8, Down
    <3> QED
      BY <2>2, <2>3, <2>6, <3>3 DEF m
  <2> QED
    BY <2>4, <2>5, <2>6
<1> QED
  BY <1>1, <1>2

-----------------------------------------------------------------------------
(* What holds of the scope and the block while code is generated and runs. *)
TIInv ==
  /\ ScopeInv
  /\ \A i \in DOMAIN vars : vars[i].ty.form # "open"
  /\ block # NoBlock => block \in HeapTypes
  /\ n \in Nat

LEMMA StartsIn ==
  TIInit => TIInv
<1> SUFFICES ASSUME TIInit PROVE TIInv
  OBVIOUS
<1>1. ScopeInit => ScopeInv
  BY LayoutAssumption
  DEF ScopeInit, ScopeInv, ParamsPlaced, VarsPlaced, ProcParBase, GlobalVarBase, LocalVarBase,
      MODULELEVEL
<1>2. ScopeInit /\ vars = << >>
  BY DEF TIInit, ScopeInit
<1>3. n \in Nat /\ (block # NoBlock => block \in HeapTypes)
  <2>1. \/ block = NoBlock /\ n = 0
        \/ block \in HeapTypes /\ n \in Counts \cup {1}
    <3>1. \/ block = NoBlock /\ n = 0
          \/ /\ block \in {t \in HeapTypes : Assembles(t)}
             /\ n \in IF block.form = "open" THEN Counts ELSE {1}
      BY DEF TIInit
    <3> QED
      BY <3>1
  <2>2. \A c \in Counts : c \in Nat
    BY TypeInitAssumption
  <2>3. n = 0 \/ n = 1 \/ n \in Counts
    BY <2>1
  <2>4. n \in Nat
    BY <2>2, <2>3
  <2> QED
    BY <2>1, <2>4
<1> QED
  BY <1>1, <1>2, <1>3 DEF TIInv

LEMMA VarsStayClosed ==
  ASSUME ScopeInv, ScopeNext, \A i \in DOMAIN vars : vars[i].ty.form # "open"
  PROVE  \A i \in DOMAIN vars' : vars'[i].ty.form # "open"
<1>1. ASSUME NEW t \in Types, DeclareVar(t)
      PROVE  \A i \in DOMAIN vars' : vars'[i].ty.form # "open"
  <2>1. PICK a : vars' = Append(vars, [ty |-> t, addr |-> a]) /\ t.form # "open"
    BY <1>1 DEF DeclareVar
  <2>2. PICK R : vars \in Seq(R)
    BY DEF ScopeInv, VarsPlaced
  <2>3. PICK e, X : e = [ty |-> t, addr |-> a] /\ X = R \cup {e}
    OBVIOUS
  <2>a. e.ty = t
    BY <2>3
  <2>4. vars' = Append(vars, e) /\ vars \in Seq(X) /\ e \in X
    BY <2>1, <2>2, <2>3
  <2>5. \A i \in DOMAIN vars' : (i \in DOMAIN vars /\ vars'[i] = vars[i]) \/ vars'[i] = e
    BY <2>4
  <2> QED
    BY <2>1, <2>a, <2>5
<1>2. ASSUME NEW t \in Types, NEW mode \in Modes, DeclarePar(t, mode)
      PROVE  \A i \in DOMAIN vars' : vars'[i].ty.form # "open"
  BY <1>2 DEF DeclarePar
<1> QED
  BY <1>1, <1>2 DEF ScopeNext, Modes

LEMMA ScopeStays ==
  ASSUME ScopeInv, UNCHANGED scope
  PROVE  ScopeInv'
<1>1. UNCHANGED <<level, params, vars, parAddr, varAddr>>
  BY DEF scope
<1>2. ParamsPlaced'
  BY <1>1 DEF ScopeInv, ParamsPlaced, ParBytes, HasTag
<1>3. VarsPlaced'
  BY <1>1 DEF ScopeInv, VarsPlaced, VarBytes, LocalVarBase
<1> QED
  BY <1>1, <1>2, <1>3 DEF ScopeInv, ParBytes, VarBytes, HasTag

LEMMA StaysIn ==
  TIInv /\ [TINext]_tivars => TIInv'
<1> SUFFICES ASSUME TIInv, [TINext]_tivars PROVE TIInv'
  OBVIOUS
<1>1. CASE Declare
  <2>1. ScopeNext /\ UNCHANGED <<block, n>>
    BY <1>1 DEF Declare
  <2>2. ScopeInv'
    BY <2>1, DeclareParPlaces, DeclareVarPlaces DEF ScopeNext, Modes, TIInv
  <2> QED
    BY <2>1, <2>2, VarsStayClosed DEF TIInv
<1>2. CASE Start \/ Execute \/ UNCHANGED tivars
  <2>1. UNCHANGED <<scope, block, n>>
    BY <1>2 DEF Start, Execute, SetEax, Assign, Load, StoreWord, StoreWords, Count, UseStack, Return,
                Next1, tivars
  <2>2. ScopeInv' /\ UNCHANGED vars
    BY <2>1, ScopeStays DEF TIInv, scope
  <2> QED
    BY <2>1, <2>2 DEF TIInv
<1> QED
  BY <1>1, <1>2 DEF TINext

(* The sweep, which walks the heap with the skippers, moves from each      *)
(* block to its end as NEW computed it.                                    *)
THEOREM SkippersAgree == TISpec => []SkipperAgrees
<1>1. TIInv => SkipperAgrees
  <2> SUFFICES ASSUME TIInv, block # NoBlock PROVE Skipped(block, n) = BlockSize(block, n)
    BY DEF SkipperAgrees
  <2>1. WellFormed(block) /\ n \in Nat
    BY TypesAssumption, TypeInitAssumption DEF TIInv, Declared
  <2> QED
    BY <2>1, SkipperExact
<1> QED
  BY <1>1, StartsIn, StaysIn, PTL DEF TISpec

-----------------------------------------------------------------------------
LEMMA ConcatAt ==
  ASSUME NEW X, NEW s \in Seq(X), NEW t \in Seq(X)
  PROVE  /\ s \o t \in Seq(X) /\ Len(s \o t) = Len(s) + Len(t)
         /\ \A i \in 1 .. Len(s) : (s \o t)[i] = s[i]
         /\ \A i \in 1 .. Len(t) : (s \o t)[Len(s) + i] = t[i]
<1>1. Len(s) \in Nat /\ Len(t) \in Nat
  OBVIOUS
<1>2. \A i \in 1 .. Len(s) + Len(t) : (s \o t)[i] = IF i <= Len(s) THEN s[i] ELSE t[i - Len(s)]
  BY ConcatProperties
<1>3. \A i \in 1 .. Len(t) : (s \o t)[Len(s) + i] = t[i]
  <2> TAKE i \in 1 .. Len(t)
  <2>1. Len(s) + i \in 1 .. Len(s) + Len(t) /\ ~(Len(s) + i <= Len(s)) /\ Len(s) + i - Len(s) = i
    BY <1>1
  <2> QED
    BY <1>2, <2>1
<1> QED
  BY <1>1, <1>2, <1>3, ConcatProperties

(* A part of a table ends before the first -1. *)
LEMMA FixedPartIs ==
  ASSUME NEW s \in Seq(Int), NEW u \in Seq(Int), \A i \in 1 .. Len(s) : s[i] # -1
  PROVE  FixedPart((s \o <<-1>>) \o u) = s
<1>0. PICK X, e, m : X = Int /\ e = <<-1>> /\ m = Len(s)
  OBVIOUS
<1>1. /\ s \in Seq(X) /\ u \in Seq(X) /\ e \in Seq(X) /\ Len(e) = 1 /\ e[1] = -1
      /\ m = Len(s) /\ m \in Nat
  BY <1>0
<1>2. PICK v : v = s \o e
  OBVIOUS
<1>3. /\ v \in Seq(X) /\ Len(v) = m + 1
      /\ \A i \in 1 .. m : v[i] = s[i]
      /\ v[m + 1] = -1
  <2>1. 1 \in 1 .. Len(e)
    BY <1>1
  <2>2. /\ v \in Seq(X) /\ Len(v) = Len(s) + Len(e)
        /\ \A i \in 1 .. Len(s) : v[i] = s[i]
        /\ \A i \in 1 .. Len(e) : v[Len(s) + i] = e[i]
    <3>1. s \in Seq(X) /\ e \in Seq(X)
      BY <1>1
    <3> QED
      BY <1>2, <3>1, ConcatAt
  <2>3. v[Len(s) + 1] = e[1]
    BY <2>1, <2>2
  <2> QED
    BY <1>1, <2>2, <2>3
<1>4. PICK t : t = v \o u
  OBVIOUS
<1>5. /\ t \in Seq(X) /\ Len(t) = m + 1 + Len(u)
      /\ \A i \in 1 .. m : t[i] = s[i]
      /\ t[m + 1] = -1
  <2>1. \A i \in 1 .. m + 1 : t[i] = v[i]
    BY <1>1, <1>3, <1>4, ConcatAt
  <2>2. m + 1 \in 1 .. m + 1 /\ \A i \in 1 .. m : i \in 1 .. m + 1
    BY <1>1
  <2>3. t \in Seq(X) /\ Len(t) = Len(v) + Len(u)
    BY ZenonT(60), <1>1, <1>3, <1>4, ConcatAt
  <2>4. \A i \in 1 .. m : t[i] = s[i]
    BY <1>3, <2>1, <2>2
  <2>5. t[m + 1] = -1
    BY <1>3, <2>1, <2>2
  <2> QED
    BY <1>3, <2>3, <2>4, <2>5
<1>6. m + 1 \in DOMAIN t /\ DOMAIN t = 1 .. Len(t) /\ Len(t) \in Nat /\ Len(t) >= m + 1
  BY <1>1, <1>5
<1> DEFINE First(i) == t[i] = -1 /\ \A j \in 1 .. i - 1 : t[j] # -1
<1>7. First(m + 1)
  BY <1>1, <1>5
<1>8. \A i \in DOMAIN t : First(i) => i = m + 1
  <2> SUFFICES ASSUME NEW i \in DOMAIN t, First(i), i # m + 1 PROVE FALSE
    OBVIOUS
  <2>1. i \in Nat /\ i >= 1
    BY <1>6
  <2>2. CASE i < m + 1
    <3>1. i \in 1 .. m /\ i \in 1 .. Len(s)
      BY <1>1, <2>1, <2>2
    <3>2. t[i] # -1
      BY <1>5, <3>1
    <3> QED
      BY <3>2
  <2>3. CASE i > m + 1
    <3>1. m + 1 \in 1 .. i - 1
      BY <1>1, <2>1, <2>3
    <3> QED
      BY <1>5, <3>1
  <2>4. m + 1 \in Nat
    BY <1>1
  <2> QED
    BY <2>1, <2>2, <2>3, <2>4
<1>9. (CHOOSE i \in DOMAIN t : First(i)) = m + 1
  <2> HIDE DEF First
  <2> QED
    BY <1>6, <1>7, <1>8
<1>10. FixedPart(t) = SubSeq(t, 1, m)
  <2>1. FixedPart(t) = SubSeq(t, 1, (CHOOSE i \in DOMAIN t : First(i)) - 1)
    BY DEF FixedPart
  <2>2. (m + 1) - 1 = m
    BY <1>1
  <2> QED
    BY <1>9, <2>1, <2>2
<1>11. SubSeq(t, 1, m) = s
  <2>1. /\ SubSeq(t, 1, m) \in Seq(X) /\ Len(SubSeq(t, 1, m)) = m
        /\ \A i \in 1 .. m : SubSeq(t, 1, m)[i] = t[i]
    BY <1>1, <1>5, <1>6
  <2> QED
    BY <1>1, <1>5, <2>1, SeqEqual
<1> QED
  BY <1>0, <1>2, <1>4, <1>10, <1>11

LEMMA FixedPartOfAll ==
  ASSUME NEW s \in Seq(Int), \A i \in 1 .. Len(s) : s[i] # -1
  PROVE  FixedPart(s \o <<-1>>) = s
<1>1. PICK X, e, u : X = Int /\ e = <<-1>> /\ u = << >>
  OBVIOUS
<1>2. s \in Seq(X) /\ e \in Seq(X) /\ u \in Seq(X) /\ u \in Seq(Int)
  BY <1>1, EmptySeq
<1>3. FixedPart((s \o e) \o u) = s
  BY <1>1, <1>2, FixedPartIs
<1>4. (s \o e) \o u = s \o e
  BY <1>1, <1>2, ConcatEmptySeq, ConcatProperties
<1> QED
  BY <1>1, <1>3, <1>4

(* The table of one part. *)
LEMMA OnePartExact ==
  ASSUME NEW os, NEW S, Enumerates(os, S), \A o \in S : o \in Nat
  PROVE  IsExact(os \o <<-1>>, S)
<1>1. os \in Seq(Int) /\ ToSet(os) = S /\ IsInjective(os)
  BY DEF Enumerates
<1>2. \A i \in 1 .. Len(os) : os[i] \in Nat
  BY <1>1, EnumeratesIs
<1>3. FixedPart(os \o <<-1>>) = os
  BY <1>1, <1>2, FixedPartOfAll
<1>4. (os \o <<-1>>)[1] # -2
  <2>1. PICK X, e : X = Int /\ e = <<-1>>
    OBVIOUS
  <2>2. os \in Seq(X) /\ e \in Seq(X) /\ Len(e) = 1 /\ e[1] = -1 /\ Len(os) \in Nat
    BY <1>1, <2>1
  <2>3. CASE Len(os) = 0
    <3>1. (os \o e)[1] = e[1]
      BY <2>2, <2>3, ConcatProperties
    <3> QED
      BY <2>1, <2>2, <3>1
  <2>4. CASE Len(os) # 0
    <3>1. (os \o e)[1] = os[1] /\ 1 \in 1 .. Len(os)
      BY <2>2, <2>4, ConcatProperties
    <3> QED
      BY <1>2, <2>1, <3>1
  <2> QED
    BY <2>3, <2>4
<1> QED
  BY <1>1, <1>3, <1>4 DEF IsExact, IsOpen, Offsets, Visited

-----------------------------------------------------------------------------
(* The tables of heap blocks and of a module's globals. *)
LEMMA TypeListIs ==
  ASSUME NEW kind \in Kinds, NEW t \in AllTypes
  PROVE  /\ BlocklistOfType(t, kind) \in Lists[Depth + 1] /\ BlocklistOfType(t, kind) \in AllLists
         /\ t.form # "open" => FixedList(BlocklistOfType(t, kind))
         /\ SlotsWithin(Slots(t, kind), t.size)
<1>1. t.depth \in 0 .. Depth /\ Depth \in Nat
  BY TypeParts, TypesAssumption
<1>2. GoodList(BlocklistOfType(t, kind), t)
  BY BlocklistsAre
<1>3. Lists[t.depth + 1] \subseteq Lists[Depth + 1]
  BY <1>1, ListsMonotonic
<1> QED
  BY <1>2, <1>3, SlotsAre DEF GoodList, AllLists

LEMMA ClosedTableExact ==
  ASSUME NEW t \in AllTypes, t.form # "open"
  PROVE  IsExact(CodeBlocklists(BlocklistOfType(t, "pointer")), Slots(t, "pointer"))
<1>0. "pointer" \in Kinds
  BY DEF Kinds
<1>1. PICK bl, S, os : bl = BlocklistOfType(t, "pointer") /\ S = Slots(t, "pointer") /\ os = CodeFixed[bl]
  OBVIOUS
<1>2. Enumerates(os, S)
  BY <1>0, <1>1, TypeEnumerates
<1>3. bl \in AllLists /\ FixedList(bl) /\ SlotsWithin(S, t.size)
  BY <1>0, <1>1, TypeListIs
<1>4. CodeBlocklists(bl) = os \o <<-1>>
  <2>1. ~(bl # NoBlocklist /\ Last(bl).count < 0)
    <3>1. SUFFICES ASSUME bl # NoBlocklist PROVE ~(Last(bl).count < 0)
      OBVIOUS
    <3>2. bl \in Seq(EntriesOver(AllLists)) /\ bl # << >>
      BY <1>3, <3>1, EntriesOfLists DEF NoBlocklist
    <3>3. Len(bl) \in DOMAIN bl
      BY <3>2, EmptySeq
    <3> QED
      BY <1>3, <3>3 DEF FixedList, Last
  <2>2. Moved(os, 0) = os
    BY <1>2, MovedZero DEF Enumerates
  <2> QED
    BY <1>1, <2>1, <2>2 DEF CodeBlocklists, CodeFixedBls
<1>5. \A o \in S : o \in Nat
  BY <1>3 DEF SlotsWithin
<1> QED
  BY <1>1, <1>2, <1>4, <1>5, OnePartExact

(* The table of an open array: its elements' offsets are in the middle. *)
LEMMA OpenPartExact ==
  ASSUME NEW os, NEW S, Enumerates(os, S), \A o \in S : o \in Nat, NEW b, NEW ofs \in Nat,
         b.incr \in Nat, CodeFixedBls(b.sub, 0) = os
  PROVE  /\ IsOpen(OpenPart(b, ofs)) /\ OpenPart(b, ofs)[2] = ofs /\ OpenPart(b, ofs)[3] = b.incr
         /\ Offsets(OpenPart(b, ofs)) = os
<1>1. PICK X, h, e : X = Int /\ h = <<-2, ofs, b.incr>> /\ e = <<-1>>
  OBVIOUS
<1>2. /\ os \in Seq(X) /\ h \in Seq(X) /\ e \in Seq(X) /\ Len(h) = 3 /\ Len(e) = 1
      /\ h[1] = -2 /\ h[2] = ofs /\ h[3] = b.incr
  BY <1>1 DEF Enumerates
<1>3. OpenPart(b, ofs) = (h \o os) \o e
  BY <1>1 DEF OpenPart
<1>4. PICK s : s = h \o os
  OBVIOUS
<1>5. /\ s \in Seq(X) /\ Len(s) = 3 + Len(os)
      /\ \A i \in 1 .. 3 : s[i] = h[i]
      /\ \A i \in 1 .. Len(os) : s[3 + i] = os[i]
  <2>1. h \in Seq(X) /\ os \in Seq(X)
    BY <1>2
  <2>2. /\ s \in Seq(X) /\ Len(s) = Len(h) + Len(os)
        /\ \A i \in 1 .. Len(h) : s[i] = h[i]
        /\ \A i \in 1 .. Len(os) : s[Len(h) + i] = os[i]
    BY <1>4, <2>1, ConcatAt
  <2> QED
    BY <1>2, <2>2
<1>6. \A i \in 1 .. Len(os) : os[i] \in Nat
  BY EnumeratesIs DEF Enumerates
<1>7. \A i \in 1 .. Len(s) : s[i] # -1
  <2> TAKE i \in 1 .. Len(s)
  <2>0. Len(os) \in Nat
    BY <1>2
  <2>1. CASE i \in 1 .. 3
    <3>1. i = 1 \/ i = 2 \/ i = 3
      BY <2>1
    <3> QED
      BY <1>2, <1>5, <2>1, <3>1
  <2>2. CASE i \notin 1 .. 3
    <3>1. PICK j \in 1 .. Len(os) : i = 3 + j
      <4>1. i - 3 \in 1 .. Len(os) /\ i = 3 + (i - 3)
        BY <1>5, <2>0, <2>2
      <4> QED
        BY <4>1
    <3> QED
      BY <1>5, <1>6, <3>1
  <2> QED
    BY <2>1, <2>2
<1>8. FixedPart(s \o e) = s
  BY <1>1, <1>5, <1>7, FixedPartOfAll
<1>9. \A i \in 1 .. 3 : (s \o e)[i] = h[i]
  <2>1. \A i \in 1 .. Len(s) : (s \o e)[i] = s[i]
    BY <1>2, <1>5, ConcatAt
  <2>2. Len(os) \in Nat
    BY <1>2
  <2> QED
    BY <1>5, <2>1, <2>2
<1>10. SubSeq(s, 4, Len(s)) = os
  <2>1. Len(os) \in Nat /\ Len(s) \in Nat
    BY <1>2, <1>5
  <2>2. /\ SubSeq(s, 4, Len(s)) \in Seq(X) /\ Len(SubSeq(s, 4, Len(s))) = Len(os)
        /\ \A i \in 1 .. Len(os) : SubSeq(s, 4, Len(s))[i] = s[3 + i]
    BY <1>5, <2>1
  <2> QED
    BY <1>2, <1>5, <2>2, SeqEqual
<1>11. IsOpen(s \o e) /\ (s \o e)[2] = ofs /\ (s \o e)[3] = b.incr
  <2>1. 1 \in 1 .. 3 /\ 2 \in 1 .. 3 /\ 3 \in 1 .. 3
    OBVIOUS
  <2>2. PICK t : t = s \o e
    OBVIOUS
  <2>3. t[1] = -2 /\ t[2] = ofs /\ t[3] = b.incr
    BY <1>2, <1>9, <2>1, <2>2
  <2> QED
    BY <2>2, <2>3 DEF IsOpen
<1> QED
  BY <1>3, <1>4, <1>8, <1>10, <1>11 DEF Offsets

LEMMA OpenTableExact ==
  ASSUME TIInv, block # NoBlock, block.form = "open"
  PROVE  IsExact(CodeBlocklists(BlocklistOfType(block, "pointer")), SlotsHere("pointer"))
<1>0. "pointer" \in Kinds
  BY DEF Kinds
<1>1. PICK t, r : t = block /\ r = t.elem
  OBVIOUS
<1>2. /\ t \in AllTypes /\ t.form = "open" /\ r \in AllTypes /\ r.form # "open"
      /\ t.odim \in Nat \ {0} /\ r.size \in Nat
      /\ r.form \in {"pointer", "procedure", "basic", "array", "record"}
  BY <1>1, TypeInitAssumption, TypeParts DEF TIInv
<1>3. PICK bl, S, os, aofs, f : /\ bl = BlocklistOfType(r, "pointer") /\ S = Slots(r, "pointer")
                             /\ os = CodeFixed[bl] /\ aofs = ArrayOfsFromODim(t.odim) /\ f = r.size
  OBVIOUS
<1>4. /\ Enumerates(os, S) /\ bl \in AllLists /\ SlotsWithin(S, r.size) /\ aofs \in Nat /\ f \in Nat
      /\ \A o \in S : o \in Nat
  BY <1>0, <1>2, <1>3, TypeEnumerates, TypeListIs, DimsOfOpen DEF SlotsWithin
<1>5. SlotsHere("pointer") = {aofs + i * f + o : i \in 0 .. n - 1, o \in S}
  BY <1>1, <1>3 DEF SlotsHere
<1>6. BlocklistOfType(t, "pointer") = BlocklistOfOpenArrayType(t, bl, "pointer")
  BY <1>0, <1>1, <1>2, <1>3, BlocklistsAre DEF TypeList, BlocklistOfType
<1>7. CASE r.form \in {"array", "record", "pointer"}
  <2>1. PICK b : b = Entry(bl, 0, -t.odim, r.size, 0)
    OBVIOUS
  <2>2. b.sub = bl /\ b.count = -t.odim /\ b.incr = f
    BY <1>3, <2>1 DEF Entry
  <2>3. BlocklistOfType(t, "pointer") = <<b>>
    BY <1>1, <1>6, <1>7, <2>1 DEF BlocklistOfOpenArrayType
  <2>4. <<b>> # NoBlocklist /\ Last(<<b>>) = b
    BY DEF NoBlocklist, Last
  <2>5. b.count < 0 /\ -b.count = t.odim
    BY <1>2, <2>2
  <2>6. CodeBlocklists(<<b>>) = OpenPart(b, aofs)
    BY <1>3, <2>4, <2>5 DEF CodeBlocklists
  <2>7. CodeFixedBls(b.sub, 0) = os
    BY <1>3, <1>4, <2>2, MovedZero DEF CodeFixedBls, Enumerates
  <2>8. PICK table : table = OpenPart(b, aofs)
    OBVIOUS
  <2>9. IsOpen(table) /\ table[2] = aofs /\ table[3] = f /\ Offsets(table) = os
    BY <1>4, <2>2, <2>7, <2>8, OpenPartExact
  <2>10. Visited(table) = {aofs + i * f + o : i \in 0 .. n - 1, o \in S}
    BY <1>4, <2>9 DEF Visited, Enumerates
  <2>11. Visited(table) = SlotsHere("pointer")
    BY <1>5, <2>10
  <2>12. IsInjective(Offsets(table))
    BY <1>4, <2>9 DEF Enumerates
  <2>13. CodeBlocklists(BlocklistOfType(block, "pointer")) = table
    BY <1>1, <2>3, <2>6, <2>8
  <2> QED
    BY <2>11, <2>12, <2>13 DEF IsExact
<1>8. CASE r.form \notin {"array", "record", "pointer"}
  <2>1. S = {}
    BY <1>0, <1>2, <1>3, <1>8, SlotsAre DEF TypeSlots
  <2>2. BlocklistOfType(t, "pointer") = NoBlocklist
    BY <1>1, <1>6, <1>8 DEF BlocklistOfOpenArrayType
  <2>3. CodeBlocklists(NoBlocklist) = << >> \o <<-1>>
    BY CodeFixedEmpty, MovedEmpty DEF CodeBlocklists, CodeFixedBls
  <2>4. IsExact(<< >> \o <<-1>>, {})
    <3>1. PICK u, U : u = << >> /\ U = {}
      OBVIOUS
    <3>2. Enumerates(u, U) /\ \A o \in U : o \in Nat
      BY <3>1, EnumeratesEmpty
    <3>3. IsExact(u \o <<-1>>, U)
      BY <3>2, OnePartExact
    <3> QED
      BY <3>1, <3>3
  <2>5. SlotsHere("pointer") = {}
    BY <1>5, <2>1
  <2> QED
    BY <1>1, <2>2, <2>3, <2>4, <2>5
<1> QED
  BY <1>7, <1>8

LEMMA GlobalTableExact ==
  ASSUME TIInv, block = NoBlock, level = MODULELEVEL
  PROVE  IsExact(CodeGlobalBlocklists(BlocklistOfVars("pointer")), {o - 4 : o \in SlotsHere("pointer")})
<1>0. "pointer" \in Kinds
  BY DEF Kinds
<1>1. PICK decls, m, slots, lists :
        /\ decls = vars /\ m = Len(decls) /\ slots = SlotsOf("pointer")
        /\ lists = [t \in AllTypes |-> AdjustIncr(BlocklistOfType(t, "pointer"), Align4(t.size))]
  OBVIOUS
<1>2. /\ m \in Nat /\ DOMAIN decls = 1 .. m
      /\ \A i \in 1 .. m : /\ decls[i].ty \in AllTypes /\ decls[i].addr \in Int
                           /\ decls[i].ty.form # "open" /\ decls[i].addr >= GlobalVarBase
  <2>1. decls \in Seq([ty : Types, addr : Int])
    BY <1>1 DEF TIInv, ScopeInv, VarsPlaced
  <2>2. m \in Nat /\ DOMAIN decls = 1 .. m
    BY <1>1, <2>1
  <2>3. PICK R : R = [ty : Types, addr : Int]
    OBVIOUS
  <2>a. decls \in Seq(R)
    BY <2>1, <2>3
  <2>4. \A i \in 1 .. m : decls[i] \in R
    BY <2>2, <2>a
  <2>5. \A i \in 1 .. m : decls[i].ty \in Types /\ decls[i].addr \in Int
    BY <2>3, <2>4
  <2> QED
    BY <1>1, <2>2, <2>5, TypesAssumption DEF TIInv, ScopeInv, VarsPlaced
<1>3. \A t \in AllTypes : Align4(t.size) \in Int
  BY TypeParts, Align4Up
<1>4. \A t \in AllTypes : t.form # "open" =>
        /\ lists[t] \in Lists[Depth + 1] /\ FixedList(lists[t])
        /\ Enumerates(CodeFixed[lists[t]], slots[t]) /\ SlotsWithin(slots[t], t.size)
  <2> SUFFICES ASSUME NEW t \in AllTypes, t.form # "open"
               PROVE  /\ lists[t] \in Lists[Depth + 1] /\ FixedList(lists[t])
                      /\ Enumerates(CodeFixed[lists[t]], slots[t]) /\ SlotsWithin(slots[t], t.size)
    OBVIOUS
  <2>1. PICK bl, size : bl = BlocklistOfType(t, "pointer") /\ size = Align4(t.size)
    OBVIOUS
  <2>2. /\ bl \in Lists[Depth + 1] /\ FixedList(bl) /\ size \in Int
        /\ Enumerates(CodeFixed[bl], slots[t]) /\ SlotsWithin(slots[t], t.size)
    BY <1>0, <1>1, <1>3, <2>1, TypeListIs, TypeEnumerates DEF Slots
  <2>3. Depth \in 0 .. Depth
    BY TypesAssumption
  <2>4. lists[t] = AdjustIncr(bl, size)
    BY <1>1, <2>1
  <2>5. /\ AdjustIncr(bl, size) \in Lists[Depth + 1] /\ CodeFixed[AdjustIncr(bl, size)] = CodeFixed[bl]
        /\ FixedList(AdjustIncr(bl, size))
    BY <2>2, <2>3, AdjustIncrRight
  <2> QED
    BY <2>2, <2>4, <2>5
<1>5. SlotsApart(decls, slots, m)
  <2> USE DEF SlotsApart
  <2> TAKE i, j \in 1 .. m
  <2> HAVE i # j
  <2> TAKE o \in slots[decls[i].ty], p \in slots[decls[j].ty]
  <2>1. Apart(VarBytes(decls[i]), VarBytes(decls[j]))
    BY <1>1, <1>2 DEF TIInv, ScopeInv
  <2>2. decls[i].ty.size \in Nat /\ decls[j].ty.size \in Nat
    BY <1>2, TypeParts
  <2> QED
    BY <1>2, <1>4, <2>1, <2>2, ApartOffsets
<1>6. ListsOfDecls(decls, lists, m, Depth) /\ ListsEnumerate(decls, lists, slots, m)
  BY <1>1, <1>2, <1>4 DEF ListsOfDecls, ListsEnumerate
<1>7. PICK os, S : os = CodeFixed[ConcatDecls(decls, lists)] /\ S = Placed(decls, slots)
  OBVIOUS
<1>8. Enumerates(os, S)
  <2>1. Depth \in 0 .. Depth
    BY TypesAssumption
  <2> QED
    BY <1>5, <1>6, <1>7, <2>1, EnumeratesDecls
<1>9. PICK ms, c, T : ms = Moved(os, c) /\ c = -4 /\ T = {c + o : o \in S}
  OBVIOUS
<1>10. Enumerates(ms, T)
  BY <1>8, <1>9, EnumeratesMoved
<1>11. \A o \in S : o \in Int /\ o >= GlobalVarBase
  <2>1. S = UNION {{decls[i].addr + o : o \in slots[decls[i].ty]} : i \in 1 .. m}
    BY <1>2, <1>7, PlacedIs
  <2>2. ASSUME NEW i \in 1 .. m, NEW o \in slots[decls[i].ty]
        PROVE  decls[i].addr + o \in Int /\ decls[i].addr + o >= GlobalVarBase
    <3>1. o \in Nat
      BY <1>2, <1>4 DEF SlotsWithin
    <3> QED
      BY <1>2, <3>1 DEF GlobalVarBase
  <2> QED
    BY <2>1, <2>2
<1>12. \A o \in T : o \in Nat
  BY <1>9, <1>11 DEF GlobalVarBase
<1>13. T = {o - 4 : o \in S}
  <2>1. \A o \in S : c + o = o - 4
    BY <1>9, <1>11
  <2> QED
    BY <1>9, <2>1
<1>14. SlotsHere("pointer") = S
  BY <1>1, <1>7 DEF SlotsHere, SlotsOfDecls, NoBlock
<1>15. CodeGlobalBlocklists(BlocklistOfVars("pointer")) = ms \o <<-1>>
  BY <1>1, <1>7, <1>9 DEF CodeGlobalBlocklists, CodeFixedBls, BlocklistOfVars, BlocklistOfModuleGlobals
<1> QED
  BY <1>10, <1>12, <1>13, <1>14, <1>15, OnePartExact

(* The table of a type descriptor, or that of a module's globals, names    *)
(* every pointer once and nothing else: what the collector visits by it    *)
(* are the pointers of the declarations, for all types (CodeBlocklists and *)
(* CodeGlobalBlocklists, made from BL.pum's lists).                        *)
THEOREM TablesAreExact == TISpec => []TablesExact
<1>1. TIInv => TablesExact
  <2> SUFFICES ASSUME TIInv PROVE TablesExact
    OBVIOUS
  <2>1. ASSUME block # NoBlock
        PROVE  IsExact(CodeBlocklists(BlocklistOfType(block, "pointer")), SlotsHere("pointer"))
    <3>1. CASE block.form = "open"
      BY <2>1, <3>1, OpenTableExact
    <3>2. CASE block.form # "open"
      <4>1. block \in AllTypes
        BY <2>1, TypeInitAssumption DEF TIInv
      <4>2. SlotsHere("pointer") = Slots(block, "pointer")
        BY <2>1, <3>2 DEF SlotsHere
      <4> QED
        BY <3>2, <4>1, <4>2, ClosedTableExact
    <3> QED
      BY <3>1, <3>2
  <2> QED
    BY <2>1, GlobalTableExact DEF TablesExact
<1> QED
  BY <1>1, StartsIn, StaysIn, PTL DEF TISpec

-----------------------------------------------------------------------------
(* The parts of a frame's table for open arrays. *)
Part(ofs, incr, slots) == [ofs |-> ofs, incr |-> incr, slots |-> slots]

(* In s a part begins at i, the offsets of which end before e. *)
PartUpto(s, i, e, r) ==
  /\ i \in 1 .. Len(s) /\ e \in i + 3 .. Len(s)
  /\ s[i] = -2 /\ s[e] = -1 /\ \A j \in i + 3 .. e - 1 : s[j] # -1
  /\ r = Part(s[i + 1], s[i + 2], {s[j] : j \in i + 3 .. e - 1})

HasParts(s, R) ==
  /\ s \in Seq(Int)
  /\ \A i \in 1 .. Len(s) : s[i] = -2 => \E e, r : r \in R /\ PartUpto(s, i, e, r)
  /\ \A r \in R : \E i, e : PartUpto(s, i, e, r)

LEMMA HasPartsEmpty == HasParts(<< >>, {})
<1>1. << >> \in Seq(Int) /\ Len(<< >>) = 0
  BY EmptySeq
<1> QED
  BY <1>1 DEF HasParts

(* A part stays one where more is before or after it. *)
LEMMA PartMoves ==
  ASSUME NEW s \in Seq(Int), NEW t \in Seq(Int), NEW k \in Nat, NEW i, NEW e, NEW r, PartUpto(s, i, e, r),
         Len(t) >= k + Len(s), \A j \in 1 .. Len(s) : t[k + j] = s[j]
  PROVE  PartUpto(t, k + i, k + e, r)
<1>0. PICK m \in Nat, q \in Nat : m = Len(s) /\ q = Len(t)
  OBVIOUS
<1>1. /\ i \in 1 .. m /\ e \in i + 3 .. m
      /\ s[i] = -2 /\ s[e] = -1 /\ \A j \in i + 3 .. e - 1 : s[j] # -1
      /\ r = Part(s[i + 1], s[i + 2], {s[j] : j \in i + 3 .. e - 1})
  BY <1>0 DEF PartUpto
<1>2. i \in Nat /\ e \in Nat /\ i >= 1 /\ i + 3 <= e /\ e <= m /\ k + m <= q
  <2>1. i \in Nat /\ i >= 1
    BY <1>1
  <2>2. e \in Nat /\ i + 3 <= e /\ e <= m
    BY <1>1, <2>1
  <2>3. k + m <= q
    BY <1>0
  <2> QED
    BY <2>1, <2>2, <2>3
<1>3. k + i \in 1 .. q /\ k + e \in (k + i) + 3 .. q
  BY <1>2
<1>4. t[k + i] = -2 /\ t[k + e] = -1
  <2>1. i \in 1 .. m /\ e \in 1 .. m
    BY <1>2
  <2> QED
    BY <1>0, <1>1, <2>1
<1>5. t[(k + i) + 1] = s[i + 1] /\ t[(k + i) + 2] = s[i + 2]
  <2>1. i + 1 \in 1 .. m /\ i + 2 \in 1 .. m /\ (k + i) + 1 = k + (i + 1) /\ (k + i) + 2 = k + (i + 2)
    BY <1>2
  <2> QED
    BY SMTT(30), <1>0, <2>1
<1>6. \A j \in i + 3 .. e - 1 : k + j \in (k + i) + 3 .. (k + e) - 1 /\ t[k + j] = s[j]
  <2> TAKE j \in i + 3 .. e - 1
  <2>1. j \in 1 .. m /\ k + j \in (k + i) + 3 .. (k + e) - 1
    BY <1>2
  <2> QED
    BY <1>0, <2>1
<1>7. \A j \in (k + i) + 3 .. (k + e) - 1 : j - k \in i + 3 .. e - 1 /\ t[j] = s[j - k]
  <2> TAKE j \in (k + i) + 3 .. (k + e) - 1
  <2>1. j - k \in i + 3 .. e - 1 /\ j - k \in 1 .. m /\ j = k + (j - k)
    BY <1>2
  <2> QED
    BY <1>0, <2>1
<1>8. \A j \in (k + i) + 3 .. (k + e) - 1 : t[j] # -1
  BY <1>1, <1>7
<1>9. {t[j] : j \in (k + i) + 3 .. (k + e) - 1} = {s[j] : j \in i + 3 .. e - 1}
  BY SMTT(30), <1>6, <1>7
<1> QED
  BY <1>0, <1>1, <1>3, <1>4, <1>5, <1>8, <1>9 DEF PartUpto

LEMMA HasPartsConcat ==
  ASSUME NEW s, NEW R, NEW t, NEW T, HasParts(s, R), HasParts(t, T)
  PROVE  HasParts(s \o t, R \cup T)
<1>0. PICK X : X = Int
  OBVIOUS
<1>1. s \in Seq(X) /\ t \in Seq(X) /\ s \in Seq(Int) /\ t \in Seq(Int)
  BY <1>0 DEF HasParts
<1>2. PICK m \in Nat, k \in Nat : m = Len(s) /\ k = Len(t)
  BY <1>1
<1>3. PICK u, U : u = s \o t /\ U = R \cup T
  OBVIOUS
<1>4. /\ u \in Seq(X) /\ Len(u) = Len(s) + Len(t)
      /\ \A i \in 1 .. Len(s) : u[i] = s[i]
      /\ \A i \in 1 .. Len(t) : u[Len(s) + i] = t[i]
  BY <1>1, <1>3, ConcatAt
<1>5. u \in Seq(Int)
  BY <1>0, <1>4
<1>6. ASSUME NEW i, NEW e, NEW r, PartUpto(s, i, e, r) PROVE PartUpto(u, i, e, r)
  <2>1. PICK z \in Nat : z = 0
    OBVIOUS
  <2>2. Len(u) >= z + Len(s) /\ \A j \in 1 .. Len(s) : u[z + j] = s[j]
    BY <1>2, <1>4, <2>1
  <2>3. PartUpto(u, z + i, z + e, r)
    BY <1>1, <1>5, <1>6, <2>2, PartMoves
  <2>4. z + i = i /\ z + e = e
    BY <1>6, <2>1 DEF PartUpto
  <2> QED
    BY <2>3, <2>4
<1>7. ASSUME NEW i, NEW e, NEW r, PartUpto(t, i, e, r) PROVE PartUpto(u, m + i, m + e, r)
  <2>1. Len(u) >= m + Len(t) /\ \A j \in 1 .. Len(t) : u[m + j] = t[j]
    BY <1>2, <1>4
  <2> QED
    BY <1>1, <1>5, <1>7, <2>1, PartMoves
<1>8. ASSUME NEW i \in 1 .. Len(u), u[i] = -2 PROVE \E e, r : r \in U /\ PartUpto(u, i, e, r)
  <2>1. CASE i \in 1 .. m
    <3>1. s[i] = -2 /\ i \in 1 .. Len(s)
      BY <1>2, <1>4, <1>8, <2>1
    <3>2. PICK e, r : r \in R /\ PartUpto(s, i, e, r)
      BY <3>1 DEF HasParts
    <3> QED
      BY <1>3, <1>6, <3>2
  <2>2. CASE i \notin 1 .. m
    <3>1. PICK j \in 1 .. k : i = m + j
      <4>1. i - m \in 1 .. k /\ i = m + (i - m)
        BY <1>2, <1>4, <2>2
      <4> QED
        BY <4>1
    <3>2. t[j] = -2 /\ j \in 1 .. Len(t)
      BY <1>2, <1>4, <1>8, <3>1
    <3>3. PICK e, r : r \in T /\ PartUpto(t, j, e, r)
      BY <3>2 DEF HasParts
    <3>4. PartUpto(u, m + j, m + e, r)
      BY <1>7, <3>3
    <3> QED
      BY <1>3, <3>1, <3>3, <3>4
  <2> QED
    BY <2>1, <2>2
<1>9. ASSUME NEW r \in U PROVE \E i, e : PartUpto(u, i, e, r)
  <2>1. CASE r \in R
    <3>1. PICK i, e : PartUpto(s, i, e, r)
      BY <2>1 DEF HasParts
    <3> QED
      BY <1>6, <3>1
  <2>2. CASE r \in T
    <3>1. PICK i, e : PartUpto(t, i, e, r)
      BY <2>2 DEF HasParts
    <3> QED
      BY <1>7, <3>1
  <2> QED
    BY <1>3, <2>1, <2>2
<1>10. HasParts(u, U)
  BY <1>5, <1>8, <1>9 DEF HasParts
<1> QED
  BY <1>3, <1>10

(* A part read back as the collector reads it. *)
LEMMA PartRead ==
  ASSUME NEW s \in Seq(Int), NEW i, NEW e, NEW r, PartUpto(s, i, e, r)
  PROVE  r = [ofs |-> s[i + 1], incr |-> s[i + 2],
              slots |-> ToSet(FixedPart(SubSeq(s, i + 3, Len(s))))]
<1>0. PICK m \in Nat : m = Len(s)
  OBVIOUS
<1>1. /\ i \in 1 .. m /\ e \in i + 3 .. m
      /\ s[e] = -1 /\ \A j \in i + 3 .. e - 1 : s[j] # -1
      /\ r = [ofs |-> s[i + 1], incr |-> s[i + 2], slots |-> {s[j] : j \in i + 3 .. e - 1}]
  BY <1>0 DEF PartUpto, Part
<1>2. i \in Nat /\ e \in Nat /\ i >= 1 /\ i + 3 <= e /\ e <= m
  BY <1>1
<1>3. PICK k \in Nat, q \in Nat, a \in Nat : k = e - i - 3 /\ q = m - e /\ a = i + 3
  <2>1. e - i - 3 \in Nat /\ m - e \in Nat /\ i + 3 \in Nat
    BY <1>2
  <2> QED
    BY <2>1
<1>4. PICK t : t = SubSeq(s, a, m)
  OBVIOUS
<1>5. /\ t \in Seq(Int) /\ Len(t) = k + 1 + q
      /\ \A j \in 1 .. k + 1 + q : t[j] = s[a + j - 1]
  BY <1>0, <1>2, <1>3, <1>4
<1>6. PICK os, u : /\ os \in Seq(Int) /\ Len(os) = k /\ \A j \in 1 .. k : os[j] = t[j]
                   /\ u \in Seq(Int) /\ Len(u) = q /\ \A j \in 1 .. q : u[j] = t[k + 1 + j]
  <2>1. /\ SubSeq(t, 1, k) \in Seq(Int) /\ Len(SubSeq(t, 1, k)) = k
        /\ \A j \in 1 .. k : SubSeq(t, 1, k)[j] = t[j]
    BY <1>5
  <2>2. /\ SubSeq(t, k + 2, k + 1 + q) \in Seq(Int) /\ Len(SubSeq(t, k + 2, k + 1 + q)) = q
        /\ \A j \in 1 .. q : SubSeq(t, k + 2, k + 1 + q)[j] = t[k + 1 + j]
    BY <1>5
  <2> QED
    BY <2>1, <2>2
<1>7. \A j \in 1 .. k : os[j] = s[a + j - 1] /\ a + j - 1 \in i + 3 .. e - 1
  <2> TAKE j \in 1 .. k
  <2>1. j \in 1 .. k + 1 + q
    OBVIOUS
  <2> QED
    BY <1>2, <1>3, <1>5, <1>6, <2>1
<1>8. \A j \in i + 3 .. e - 1 : j - i - 2 \in 1 .. k /\ os[j - i - 2] = s[j]
  <2> TAKE j \in i + 3 .. e - 1
  <2>1. j - i - 2 \in 1 .. k /\ a + (j - i - 2) - 1 = j
    BY <1>2, <1>3
  <2> QED
    BY <1>7, <2>1
<1>9. \A j \in 1 .. Len(os) : os[j] # -1
  BY ZenonT(60), <1>1, <1>6, <1>7
<1>10. t = (os \o <<-1>>) \o u
  <2>1. PICK X, w : X = Int /\ w = <<-1>>
    OBVIOUS
  <2>2. os \in Seq(X) /\ w \in Seq(X) /\ u \in Seq(X) /\ t \in Seq(X)
    BY <1>5, <1>6, <2>1
  <2>3. PICK v : v = os \o w
    OBVIOUS
  <2>4. /\ v \in Seq(X) /\ Len(v) = Len(os) + Len(w)
        /\ \A j \in 1 .. Len(os) : v[j] = os[j]
        /\ \A j \in 1 .. Len(w) : v[Len(os) + j] = w[j]
    BY <2>2, <2>3, ConcatAt
  <2>5. /\ v \o u \in Seq(X) /\ Len(v \o u) = Len(v) + Len(u)
        /\ \A j \in 1 .. Len(v) : (v \o u)[j] = v[j]
        /\ \A j \in 1 .. Len(u) : (v \o u)[Len(v) + j] = u[j]
    <3>1. v \in Seq(X) /\ u \in Seq(X)
      BY <2>2, <2>4
    <3> QED
      BY <3>1, ConcatAt
  <2>6. Len(w) = 1 /\ w[1] = -1 /\ 1 \in 1 .. 1
    BY <2>1
  <2>7. t[k + 1] = -1
    <3>1. k + 1 \in 1 .. k + 1 + q /\ a + (k + 1) - 1 = e
      BY <1>2, <1>3
    <3> QED
      BY <1>1, <1>5, <3>1
  <2>8. Len(v) = k + 1 /\ Len(u) = q /\ Len(v \o u) = Len(t)
    BY <1>5, <1>6, <2>4, <2>5, <2>6
  <2>9. ASSUME NEW j \in 1 .. Len(t) PROVE (v \o u)[j] = t[j]
    <3>1. CASE j \in 1 .. k
      <4>1. j \in 1 .. Len(v)
        BY <2>8, <3>1
      <4> QED
        BY <1>6, <2>4, <2>5, <3>1, <4>1
    <3>2. CASE j = k + 1
      <4>1. j \in 1 .. Len(v)
        BY <2>8, <3>2
      <4>2. v[k + 1] = -1
        BY <1>6, <2>4, <2>6
      <4> QED
        BY <2>5, <2>7, <3>2, <4>1, <4>2
    <3>3. CASE j \notin 1 .. k /\ j # k + 1
      <4>1. PICK p \in 1 .. q : j = k + 1 + p
        <5>1. j - (k + 1) \in 1 .. q /\ j = k + 1 + (j - (k + 1))
          BY <1>5, <3>3
        <5> QED
          BY <5>1
      <4> QED
        BY <1>6, <2>5, <2>8, <4>1
    <3> QED
      BY <3>1, <3>2, <3>3
  <2>10. v \o u = t
    BY <2>2, <2>5, <2>8, <2>9, SeqEqual
  <2> QED
    BY <2>1, <2>3, <2>10
<1>11. FixedPart(t) = os
  BY <1>6, <1>9, <1>10, FixedPartIs
<1>12. ToSet(os) = {s[j] : j \in i + 3 .. e - 1}
  <2>1. DOMAIN os = 1 .. k
    BY <1>6
  <2>2. ToSet(os) = {os[j] : j \in 1 .. k}
    BY <2>1 DEF ToSet
  <2>3. \A j \in 1 .. k : os[j] \in {s[p] : p \in i + 3 .. e - 1}
    BY <1>7
  <2>4. \A j \in i + 3 .. e - 1 : s[j] \in {os[p] : p \in 1 .. k}
    BY <1>8
  <2> QED
    BY <2>2, <2>3, <2>4
<1> QED
  BY <1>0, <1>1, <1>3, <1>4, <1>11, <1>12

(* A frame's table: the offsets of fixed pointers, then the parts R. *)
LEMMA PartsFound ==
  ASSUME NEW os \in Seq(Int), \A i \in 1 .. Len(os) : os[i] # -1, NEW u, NEW R, HasParts(u, R)
  PROVE  /\ FixedPart((os \o <<-1>>) \o u) = os
         /\ OpenParts((os \o <<-1>>) \o u) = R
<1>0. PICK X, w, v, t : X = Int /\ w = <<-1>> /\ v = os \o w /\ t = v \o u
  OBVIOUS
<1>1. os \in Seq(X) /\ w \in Seq(X) /\ Len(w) = 1 /\ u \in Seq(X) /\ u \in Seq(Int)
  BY <1>0 DEF HasParts
<1>2. v \in Seq(X) /\ Len(v) = Len(os) + Len(w)
  BY <1>0, <1>1, ConcatAt
<1>3. /\ t \in Seq(X) /\ Len(t) = Len(v) + Len(u)
      /\ \A i \in 1 .. Len(u) : t[Len(v) + i] = u[i]
  BY <1>0, <1>1, <1>2, ConcatAt
<1>4. PICK k \in Nat, m \in Nat : k = Len(v) /\ k = Len(os) + 1 /\ m = Len(u)
  BY <1>1, <1>2
<1>5. t \in Seq(Int) /\ Len(t) = k + m /\ \A i \in 1 .. m : t[k + i] = u[i]
  BY <1>0, <1>3, <1>4
<1>6. FixedPart(t) = os
  BY <1>0, <1>1, FixedPartIs
<1> DEFINE Read(i) == [ofs |-> t[i + 1], incr |-> t[i + 2],
                       slots |-> ToSet(FixedPart(SubSeq(t, i + 3, Len(t))))]
           Starts == {j \in k + 1 .. k + m : t[j] = -2}
<1>7. OpenParts(t) = {Read(i) : i \in Starts}
  <2>1. Len(FixedPart(t)) + 2 = k + 1
    BY <1>1, <1>4, <1>6
  <2> QED
    BY <1>5, <2>1 DEF OpenParts
<1>8. ASSUME NEW i, NEW e, NEW r, PartUpto(u, i, e, r) PROVE k + i \in Starts /\ r = Read(k + i)
  <2>1. PartUpto(t, k + i, k + e, r)
    <3>1. Len(t) >= k + Len(u) /\ \A j \in 1 .. Len(u) : t[k + j] = u[j]
      BY <1>4, <1>5
    <3> QED
      BY <1>1, <1>5, <1>8, <3>1, PartMoves
  <2>2. r = Read(k + i)
    BY <1>5, <2>1, PartRead
  <2>3. i \in 1 .. m /\ u[i] = -2
    BY <1>4, <1>8 DEF PartUpto
  <2>4. k + i \in k + 1 .. k + m /\ t[k + i] = -2
    BY <1>5, <2>3
  <2> QED
    BY <2>2, <2>4
<1>9. ASSUME NEW i \in Starts PROVE Read(i) \in R
  <2>1. PICK j \in 1 .. m : i = k + j
    <3>1. i - k \in 1 .. m /\ i = k + (i - k)
      OBVIOUS
    <3> QED
      BY <3>1
  <2>2. u[j] = -2 /\ j \in 1 .. Len(u)
    BY <1>4, <1>5, <2>1
  <2>3. PICK e, r : r \in R /\ PartUpto(u, j, e, r)
    BY <2>2 DEF HasParts
  <2> HIDE DEF Read, Starts
  <2>4. r = Read(i)
    BY <1>8, <2>1, <2>3
  <2> QED
    BY <2>3, <2>4
<1>10. ASSUME NEW r \in R PROVE \E i \in Starts : r = Read(i)
  <2>1. PICK i, e : PartUpto(u, i, e, r)
    BY DEF HasParts
  <2> HIDE DEF Read, Starts
  <2>2. k + i \in Starts /\ r = Read(k + i)
    BY <1>8, <2>1
  <2> QED
    BY <2>2
<1>11. OpenParts(t) = R
  <2> HIDE DEF Read, Starts
  <2> QED
    BY <1>7, <1>9, <1>10
<1> QED
  BY <1>0, <1>6, <1>11

(* The part of an open array, the elements of which have the offsets os. *)
LEMMA OpenPartHas ==
  ASSUME NEW os \in Seq(Int), \A i \in 1 .. Len(os) : os[i] \in Nat, NEW b, NEW ofs \in Nat,
         b.incr \in Nat, CodeFixedBls(b.sub, 0) = os
  PROVE  HasParts(OpenPart(b, ofs), {Part(ofs, b.incr, ToSet(os))})
<1>1. PICK X, h, w, f : X = Int /\ h = <<-2, ofs, b.incr>> /\ w = <<-1>> /\ f = b.incr
  OBVIOUS
<1>2. /\ os \in Seq(X) /\ h \in Seq(X) /\ w \in Seq(X) /\ Len(h) = 3 /\ Len(w) = 1
      /\ h[1] = -2 /\ h[2] = ofs /\ h[3] = f /\ w[1] = -1
  BY <1>1
<1>3. PICK s, t : s = h \o os /\ t = s \o w
  OBVIOUS
<1>4. OpenPart(b, ofs) = t
  BY <1>1, <1>3 DEF OpenPart
<1>a. PICK k \in Nat : k = Len(os)
  OBVIOUS
<1>5. /\ s \in Seq(X) /\ Len(s) = 3 + k
      /\ \A i \in 1 .. 3 : s[i] = h[i]
      /\ \A i \in 1 .. k : s[3 + i] = os[i]
  <2>1. h \in Seq(X) /\ os \in Seq(X)
    BY <1>2
  <2>2. /\ s \in Seq(X) /\ Len(s) = Len(h) + Len(os)
        /\ \A i \in 1 .. Len(h) : s[i] = h[i]
        /\ \A i \in 1 .. Len(os) : s[Len(h) + i] = os[i]
    BY <1>3, <2>1, ConcatAt
  <2> QED
    BY <1>2, <1>a, <2>2
<1>6. /\ t \in Seq(X) /\ Len(t) = 4 + k
      /\ \A i \in 1 .. 3 + k : t[i] = s[i]
      /\ t[4 + k] = -1
  <2>1. s \in Seq(X) /\ w \in Seq(X)
    BY <1>2, <1>5
  <2>2. /\ t \in Seq(X) /\ Len(t) = Len(s) + Len(w)
        /\ \A i \in 1 .. Len(s) : t[i] = s[i]
        /\ \A i \in 1 .. Len(w) : t[Len(s) + i] = w[i]
    BY <1>3, <2>1, ConcatAt
  <2>3. 1 \in 1 .. Len(w) /\ Len(s) + 1 = 4 + k
    BY <1>2, <1>5
  <2> QED
    BY <1>2, <1>5, <2>2, <2>3
<1>7. t[1] = -2 /\ t[2] = ofs /\ t[3] = f
  <2>1. /\ 1 \in 1 .. 3 /\ 2 \in 1 .. 3 /\ 3 \in 1 .. 3
        /\ 1 \in 1 .. 3 + k /\ 2 \in 1 .. 3 + k /\ 3 \in 1 .. 3 + k
    OBVIOUS
  <2> QED
    BY <1>2, <1>5, <1>6, <2>1
<1>8. \A j \in 1 .. k : t[3 + j] = os[j] /\ os[j] \in Nat
  <2> TAKE j \in 1 .. k
  <2>1. 3 + j \in 1 .. 3 + k
    OBVIOUS
  <2> QED
    BY <1>5, <1>6, <1>a, <2>1
<1>9. \A i \in 4 .. 3 + k : i - 3 \in 1 .. k /\ t[i] = os[i - 3]
  <2> TAKE i \in 4 .. 3 + k
  <2>1. i - 3 \in 1 .. k /\ 3 + (i - 3) = i
    OBVIOUS
  <2> QED
    BY <1>8, <2>1
<1>10. PICK r : r = Part(ofs, f, ToSet(os))
  OBVIOUS
<1>11. {t[j] : j \in 4 .. 3 + k} = ToSet(os)
  <2>1. DOMAIN os = 1 .. k
    BY <1>a
  <2>2. ToSet(os) = {os[j] : j \in 1 .. k}
    BY <2>1 DEF ToSet
  <2>3. \A j \in 1 .. k : os[j] \in {t[i] : i \in 4 .. 3 + k}
    <3> TAKE j \in 1 .. k
    <3>1. 3 + j \in 4 .. 3 + k
      OBVIOUS
    <3> QED
      BY <1>8, <3>1
  <2>4. \A i \in 4 .. 3 + k : t[i] \in {os[j] : j \in 1 .. k}
    BY <1>9
  <2> QED
    BY <2>2, <2>3, <2>4
<1>12. PartUpto(t, 1, 4 + k, r)
  <2>1. 1 \in 1 .. Len(t) /\ 4 + k \in 1 + 3 .. Len(t) /\ 1 + 1 = 2 /\ 1 + 2 = 3 /\ 1 + 3 = 4 /\ (4 + k) - 1 = 3 + k
    BY <1>6
  <2>2. \A j \in 4 .. 3 + k : t[j] # -1
    BY <1>8, <1>9
  <2> QED
    BY <1>6, <1>7, <1>10, <1>11, <2>1, <2>2 DEF PartUpto
<1>13. ASSUME NEW i \in 1 .. Len(t), t[i] = -2 PROVE i = 1
  <2>1. i = 1 \/ i = 2 \/ i = 3 \/ i \in 4 .. 3 + k \/ i = 4 + k
    BY <1>6
  <2>2. i \notin 4 .. 3 + k
    BY <1>8, <1>9, <1>13
  <2> QED
    BY <1>1, <1>6, <1>7, <1>13, <2>1, <2>2
<1>14. HasParts(t, {r})
  <2>1. t \in Seq(Int)
    BY <1>1, <1>6
  <2> QED
    BY <1>12, <1>13, <2>1 DEF HasParts
<1> QED
  BY <1>1, <1>4, <1>10, <1>14

-----------------------------------------------------------------------------
(* The parts that CodeOpenBls makes of a list. *)
PartsOf(b) == IF b.count < 0 THEN OpenPart(b, b.ofs) ELSE << >>

LEMMA PartsOfTyped ==
  ASSUME NEW b \in EntriesOver(AllLists)
  PROVE  PartsOf(b) \in Seq(Int)
<1>1. << >> \in Seq(Int)
  BY EmptySeq
<1>2. OpenPart(b, b.ofs) \in Seq(Int)
  <2>1. PICK X, h, w, os : X = Int /\ h = <<-2, b.ofs, b.incr>> /\ w = <<-1>> /\ os = CodeFixedBls(b.sub, 0)
    OBVIOUS
  <2>2. b.sub \in AllLists /\ b.ofs \in Int /\ b.incr \in Int
    BY DEF EntriesOver
  <2>3. os \in Seq(X)
    <3>1. PICK c : c = CodeFixed[b.sub]
      OBVIOUS
    <3>2. c \in Seq(Int)
      BY <2>2, <3>1, CodeFixedParts
    <3> QED
      BY <2>1, <3>1, <3>2, MovedZero DEF CodeFixedBls
  <2>4. h \in Seq(X) /\ w \in Seq(X)
    BY <2>1, <2>2
  <2>5. (h \o os) \o w \in Seq(X)
    BY <2>3, <2>4, ConcatProperties
  <2> QED
    BY <2>1, <2>5 DEF OpenPart
<1> QED
  BY <1>1, <1>2 DEF PartsOf

LEMMA OpenBlsAre ==
  ASSUME NEW bl \in AllLists
  PROVE  /\ [i \in DOMAIN bl |-> PartsOf(bl[i])] \in Seq(Seq(Int))
         /\ Len([i \in DOMAIN bl |-> PartsOf(bl[i])]) = Len(bl)
         /\ CodeOpenBls(bl) = FlattenSeq([i \in DOMAIN bl |-> PartsOf(bl[i])])
<1>1. bl \in Seq(EntriesOver(AllLists)) /\ Len(bl) \in Nat /\ DOMAIN bl = 1 .. Len(bl)
  BY EntriesOfLists, LenProperties
<1>2. \A i \in 1 .. Len(bl) : PartsOf(bl[i]) \in Seq(Int)
  BY <1>1, EntriesOfLists, PartsOfTyped
<1>3. CodeOpenBls(bl) = FlattenSeq([i \in DOMAIN bl |-> PartsOf(bl[i])])
  BY Zenon DEF CodeOpenBls, PartsOf
<1> QED
  BY <1>1, <1>2, <1>3

LEMMA OpenBlsConcat ==
  ASSUME NEW s \in AllLists, NEW t \in AllLists, s \o t \in AllLists
  PROVE  CodeOpenBls(s \o t) = CodeOpenBls(s) \o CodeOpenBls(t)
<1> DEFINE P(bl) == [i \in DOMAIN bl |-> PartsOf(bl[i])]
<1>1. PICK X, u : X = EntriesOver(AllLists) /\ u = s \o t
  OBVIOUS
<1>2. s \in Seq(X) /\ t \in Seq(X) /\ u \in Seq(X)
  BY <1>1, EntriesOfLists
<1>3. /\ Len(u) = Len(s) + Len(t)
      /\ \A i \in 1 .. Len(s) + Len(t) : u[i] = IF i <= Len(s) THEN s[i] ELSE t[i - Len(s)]
  BY <1>1, <1>2, ConcatProperties
<1>4. /\ P(s) \in Seq(Seq(Int)) /\ P(t) \in Seq(Seq(Int)) /\ P(u) \in Seq(Seq(Int))
      /\ Len(P(s)) = Len(s) /\ Len(P(t)) = Len(t) /\ Len(P(u)) = Len(u)
      /\ CodeOpenBls(s) = FlattenSeq(P(s)) /\ CodeOpenBls(t) = FlattenSeq(P(t))
      /\ CodeOpenBls(u) = FlattenSeq(P(u))
  BY <1>1, OpenBlsAre
<1>5. /\ \A i \in 1 .. Len(s) : P(s)[i] = PartsOf(s[i])
      /\ \A i \in 1 .. Len(t) : P(t)[i] = PartsOf(t[i])
      /\ \A i \in 1 .. Len(u) : P(u)[i] = PartsOf(u[i])
  BY <1>2
<1> HIDE DEF P
<1>6. P(u) = P(s) \o P(t)
  <2>1. PICK Y, ps, pt : Y = Seq(Int) /\ ps = P(s) /\ pt = P(t)
    OBVIOUS
  <2>2. ps \in Seq(Y) /\ pt \in Seq(Y) /\ P(u) \in Seq(Y)
    BY <1>4, <2>1
  <2>3. /\ ps \o pt \in Seq(Y) /\ Len(ps \o pt) = Len(ps) + Len(pt)
        /\ \A i \in 1 .. Len(ps) + Len(pt) : (ps \o pt)[i] = IF i <= Len(ps) THEN ps[i] ELSE pt[i - Len(ps)]
    BY <2>2, ConcatProperties
  <2>4. Len(s) \in Nat /\ Len(t) \in Nat
    BY <1>2
  <2>5. ASSUME NEW i \in 1 .. Len(u) PROVE P(u)[i] = (ps \o pt)[i]
    <3>1. CASE i <= Len(s)
      <4>1. i \in 1 .. Len(s)
        BY <2>4, <3>1
      <4> QED
        BY <1>3, <1>4, <1>5, <2>1, <2>3, <3>1, <4>1
    <3>2. CASE ~(i <= Len(s))
      <4>1. i - Len(s) \in 1 .. Len(t) /\ i \in 1 .. Len(s) + Len(t)
        BY <1>3, <2>4, <3>2
      <4> QED
        BY ZenonT(60), <1>3, <1>4, <1>5, <2>1, <2>3, <3>2, <4>1
    <3> QED
      BY <3>1, <3>2
  <2>6. P(u) = ps \o pt
    BY <1>3, <1>4, <2>1, <2>2, <2>3, <2>5, SeqEqual
  <2> QED
    BY <2>1, <2>6
<1>7. PICK ps, pt : ps = P(s) /\ pt = P(t)
  OBVIOUS
<1>8. ps \in Seq(Seq(Int)) /\ pt \in Seq(Seq(Int))
  BY <1>4, <1>7
<1>9. FlattenSeq(ps \o pt) = FlattenSeq(ps) \o FlattenSeq(pt)
  BY <1>8, FlattenConcat
<1> QED
  BY <1>1, <1>4, <1>6, <1>7, <1>9

LEMMA OpenBlsOne ==
  ASSUME NEW b \in EntriesOver(AllLists), <<b>> \in AllLists
  PROVE  CodeOpenBls(<<b>>) = PartsOf(b)
<1>1. CodeOpenBls(<<b>>) = FlattenSeq([i \in DOMAIN <<b>> |-> PartsOf(<<b>>[i])])
  BY OpenBlsAre
<1>2. [i \in DOMAIN <<b>> |-> PartsOf(<<b>>[i])] = <<PartsOf(b)>>
  OBVIOUS
<1>3. PICK o : o = PartsOf(b)
  OBVIOUS
<1>4. o \in Seq(Int)
  BY <1>3, PartsOfTyped
<1> QED
  BY <1>1, <1>2, <1>3, <1>4, FlattenOne

LEMMA OpenBlsFixed ==
  ASSUME NEW bl \in AllLists, \A i \in DOMAIN bl : bl[i].count \in Nat
  PROVE  CodeOpenBls(bl) = << >>
<1>1. PICK ss : ss = [i \in DOMAIN bl |-> PartsOf(bl[i])]
  OBVIOUS
<1>2. /\ ss \in Seq(Seq(Int)) /\ Len(ss) = Len(bl) /\ CodeOpenBls(bl) = FlattenSeq(ss)
      /\ DOMAIN bl = 1 .. Len(bl) /\ Len(bl) \in Nat
  BY <1>1, OpenBlsAre, EntriesOfLists, LenProperties
<1>3. \A i \in 1 .. Len(ss) : ss[i] = << >>
  <2> TAKE i \in 1 .. Len(ss)
  <2>1. i \in DOMAIN bl /\ ~(bl[i].count < 0)
    BY SMTT(30), <1>2
  <2> QED
    BY <1>1, <2>1 DEF PartsOf
<1>4. PICK f \in [0 .. Len(ss) -> Seq(Int)] :
        /\ f[0] = << >> /\ \A i \in 1 .. Len(ss) : f[i] = f[i - 1] \o ss[i]
        /\ FlattenSeq(ss) = f[Len(ss)]
  BY <1>2, FlattenIs
<1> DEFINE S == {k \in 0 .. Len(ss) : f[k] = << >>}
<1>5. 0 \in S
  BY <1>2, <1>4
<1>6. ASSUME NEW k \in 0 .. Len(ss) - 1, k \in S PROVE k + 1 \in S
  <2>1. k + 1 \in 1 .. Len(ss) /\ (k + 1) - 1 = k /\ k + 1 \in 0 .. Len(ss)
    BY <1>2
  <2>2. f[k + 1] = << >> \o << >>
    BY <1>3, <1>4, <1>6, <2>1
  <2> QED
    BY <2>1, <2>2
<1>7. Len(ss) \in S
  <2> HIDE DEF S
  <2>1. Len(ss) \in Nat
    BY <1>2
  <2>2. 0 .. Len(ss) \subseteq S
    BY <1>5, <1>6, <2>1, InductionUpto
  <2> QED
    BY <2>1, <2>2
<1> QED
  BY <1>2, <1>4, <1>7

-----------------------------------------------------------------------------
(* The list of a frame.  What it ends with is what decides whether the     *)
(* next declaration's blocks are joined to it.                             *)
Spells(s, S) == s \in Seq(Int) /\ ToSet(s) = S

LEMMA SpellsIs ==
  ASSUME NEW s \in Seq(Int), NEW S
  PROVE  Spells(s, S) <=> /\ \A i \in 1 .. Len(s) : s[i] \in S
                          /\ \A o \in S : \E i \in 1 .. Len(s) : s[i] = o
<1>1. DOMAIN s = 1 .. Len(s)
  OBVIOUS
<1> QED
  BY <1>1 DEF Spells, ToSet

LEMMA SpellsConcat ==
  ASSUME NEW s, NEW S, NEW t, NEW T, Spells(s, S), Spells(t, T)
  PROVE  Spells(s \o t, S \cup T)
<1>0. PICK X, u, U : X = Int /\ u = s \o t /\ U = S \cup T
  OBVIOUS
<1>1. s \in Seq(X) /\ t \in Seq(X) /\ s \in Seq(Int) /\ t \in Seq(Int)
  BY <1>0 DEF Spells
<1>2. PICK m \in Nat, k \in Nat : m = Len(s) /\ k = Len(t)
  BY <1>1
<1>3. /\ u \in Seq(X) /\ Len(u) = Len(s) + Len(t)
      /\ \A i \in 1 .. Len(s) : u[i] = s[i]
      /\ \A i \in 1 .. Len(t) : u[Len(s) + i] = t[i]
  BY <1>0, <1>1, ConcatAt
<1>4. /\ \A i \in 1 .. m : s[i] \in S
      /\ \A o \in S : \E i \in 1 .. m : s[i] = o
  BY <1>1, <1>2, SpellsIs
<1>5. /\ \A i \in 1 .. k : t[i] \in T
      /\ \A o \in T : \E i \in 1 .. k : t[i] = o
  BY <1>1, <1>2, SpellsIs
<1>6. ASSUME NEW i \in 1 .. m + k PROVE u[i] \in U
  <2>1. CASE i \in 1 .. m
    BY <1>0, <1>2, <1>3, <1>4, <2>1
  <2>2. CASE i \notin 1 .. m
    <3>1. PICK j \in 1 .. k : i = m + j
      <4>1. i - m \in 1 .. k /\ i = m + (i - m)
        BY <2>2
      <4> QED
        BY <4>1
    <3> QED
      BY <1>0, <1>2, <1>3, <1>5, <3>1
  <2> QED
    BY <2>1, <2>2
<1>7. ASSUME NEW o \in U PROVE \E i \in 1 .. m + k : u[i] = o
  <2>1. CASE o \in S
    <3>1. PICK i \in 1 .. m : s[i] = o
      BY <1>4, <2>1
    <3>2. i \in 1 .. m + k /\ u[i] = o
      BY <1>2, <1>3, <3>1
    <3> QED
      BY <3>2
  <2>2. CASE o \in T
    <3>1. PICK i \in 1 .. k : t[i] = o
      BY <1>5, <2>2
    <3>2. m + i \in 1 .. m + k /\ u[m + i] = o
      BY <1>2, <1>3, <3>1
    <3> QED
      BY <3>2
  <2> QED
    BY <1>0, <2>1, <2>2
<1>8. Spells(u, U)
  <2>1. u \in Seq(Int) /\ Len(u) = m + k
    BY <1>0, <1>2, <1>3
  <2> QED
    BY <1>6, <1>7, <2>1, SpellsIs
<1> QED
  BY <1>0, <1>8

LEMMA SpellsMoved ==
  ASSUME NEW s, NEW S, Spells(s, S), NEW b \in Int
  PROVE  Spells(Moved(s, b), {b + o : o \in S})
<1>1. s \in Seq(Int)
  BY DEF Spells
<1>2. /\ Moved(s, b) \in Seq(Int) /\ Len(Moved(s, b)) = Len(s)
      /\ \A i \in 1 .. Len(s) : Moved(s, b)[i] = b + s[i]
  BY <1>1, MovedIs
<1>3. /\ \A i \in 1 .. Len(s) : s[i] \in S
      /\ \A o \in S : \E i \in 1 .. Len(s) : s[i] = o
  BY <1>1, SpellsIs
<1>4. \A i \in 1 .. Len(s) : Moved(s, b)[i] \in {b + o : o \in S}
  BY <1>2, <1>3
<1>5. \A p \in {b + o : o \in S} : \E i \in 1 .. Len(s) : Moved(s, b)[i] = p
  BY <1>2, <1>3
<1> QED
  BY <1>2, <1>4, <1>5, SpellsIs

(* ConcatBlocklists makes no other parts of two lists than they have, if   *)
(* what it joins are no open arrays.                                       *)
LEMMA ConcatOpens ==
  ASSUME NEW d \in 0 .. Depth, NEW b1 \in Lists[d + 1], NEW b2 \in Lists[d + 1], NEW base \in Int,
         Joins(b1, b2, base) => Last(b1).count \in Nat /\ b2[1].count \in Nat
  PROVE  CodeOpenBls(ConcatBlocklists(b1, b2, base)) = CodeOpenBls(b1) \o CodeOpenBls(ListAt(b2, base))
<1>0. PICK X, Y, al : X = Lists[d] /\ Y = EntriesOver(X) /\ al = ListAt(b2, base)
  OBVIOUS
<1>1. /\ Lists[d + 1] = Seq(Y) /\ Seq(Y) \subseteq AllLists
      /\ Y \subseteq EntriesOver(AllLists)
  BY <1>0, ListsOfDepth
<1>a. b1 \in Seq(EntriesOver(X)) /\ b2 \in Seq(EntriesOver(X))
  BY <1>0, <1>1
<1>2. b1 \in Seq(Y) /\ b2 \in Seq(Y) /\ al \in Seq(Y) /\ Len(al) = Len(b2)
      /\ \A i \in 1 .. Len(b2) : al[i] = [b2[i] EXCEPT !.ofs = base + @]
  <2>1. Y = EntriesOver(X) /\ al = ListAt(b2, base)
    BY <1>0
  <2>2. al \in Seq(Y) /\ Len(al) = Len(b2)
    BY <1>a, <2>1, ListAtTyped
  <2>3. DOMAIN b2 = 1 .. Len(b2)
    BY <1>a
  <2>4. \A i \in 1 .. Len(b2) : al[i] = [b2[i] EXCEPT !.ofs = base + @]
    BY <2>1, <2>3 DEF ListAt
  <2> QED
    BY <1>a, <2>1, <2>2, <2>4
<1>3. CASE ~Joins(b1, b2, base)
  <2>1. ConcatBlocklists(b1, b2, base) = b1 \o al
    BY <1>0, <1>a, <1>3, ConcatIs
  <2>2. b1 \o al \in Seq(Y)
    BY <1>2, ConcatProperties
  <2> QED
    BY <1>0, <1>1, <1>2, <2>1, <2>2, OpenBlsConcat
<1>4. CASE Joins(b1, b2, base)
  <2>1. b1 # << >> /\ b2 # << >> /\ al # << >>
    <3>1. b1 # << >> /\ b2 # << >>
      BY <1>4 DEF Joins, NoBlocklist
    <3> QED
      BY <1>2, <3>1
  <2>2. PICK fr, e, ta, f, c : /\ fr = Front(b1) /\ e = Last(b1) /\ ta = Tail(al) /\ f = b2[1] /\ c = al[1]
    OBVIOUS
  <2>3. /\ fr \in Seq(Y) /\ e \in Y /\ b1 = fr \o <<e>>
        /\ ta \in Seq(Y) /\ c \in Y /\ al = <<c>> \o ta /\ f \in Y
    BY <1>2, <2>1, <2>2, FrontLast, HeadTail
  <2>4. PICK j : j = Joined(e, f)
    OBVIOUS
  <2>5. j \in Y /\ j.count = e.count + f.count
    BY <1>0, <2>3, <2>4, JoinedEntry
  <2>6. ConcatBlocklists(b1, b2, base) = (fr \o <<j>>) \o ta
    <3>1. ConcatBlocklists(b1, b2, base) = (Front(b1) \o <<Joined(Last(b1), b2[1])>>) \o Tail(ListAt(b2, base))
      BY <1>a, <1>4, ConcatIs
    <3> QED
      BY <1>0, <2>2, <2>4, <3>1
  <2>7. e.count \in Nat /\ f.count \in Nat /\ c.count = f.count
    <3>1. 1 \in 1 .. Len(b2)
      BY <1>2, <2>1, EmptySeq
    <3>2. c = [f EXCEPT !.ofs = base + @]
      BY <1>2, <2>2, <3>1
    <3>3. c.count = f.count
      BY <1>0, <2>3, <3>2, EntryAt
    <3> QED
      BY <1>4, <2>2, <3>3
  <2>8. PartsOf(e) = << >> /\ PartsOf(c) = << >> /\ PartsOf(j) = << >>
    BY <2>5, <2>7 DEF PartsOf
  <2>9. PICK es, cs, js : es = <<e>> /\ cs = <<c>> /\ js = <<j>>
    OBVIOUS
  <2>10. es \in Seq(Y) /\ cs \in Seq(Y) /\ js \in Seq(Y)
    BY <2>3, <2>5, <2>9
  <2>11. CodeOpenBls(es) = << >> /\ CodeOpenBls(cs) = << >> /\ CodeOpenBls(js) = << >>
    BY <1>1, <2>3, <2>5, <2>8, <2>9, <2>10, OpenBlsOne
  <2>12. PICK u, v, w : u = fr \o js /\ v = CodeOpenBls(fr) /\ w = CodeOpenBls(ta)
    OBVIOUS
  <2>13. u \in Seq(Y) /\ u \o ta \in Seq(Y) /\ fr \o es \in Seq(Y) /\ cs \o ta \in Seq(Y)
    BY <2>3, <2>10, <2>12, ConcatProperties
  <2>14. v \in Seq(Int) /\ w \in Seq(Int)
    <3>1. fr \in AllLists /\ ta \in AllLists
      BY <1>1, <2>3
    <3>2. ASSUME NEW bl \in AllLists PROVE CodeOpenBls(bl) \in Seq(Int)
      <4>1. PICK ss : ss = [i \in DOMAIN bl |-> PartsOf(bl[i])]
        OBVIOUS
      <4>2. ss \in Seq(Seq(Int)) /\ CodeOpenBls(bl) = FlattenSeq(ss)
        BY <4>1, OpenBlsAre
      <4> QED
        BY <4>2, FlattenTyped
    <3> QED
      BY <2>12, <3>1, <3>2
  <2>15. CodeOpenBls(b1) = v \o << >> /\ CodeOpenBls(al) = << >> \o w
         /\ CodeOpenBls(u) = v \o << >> /\ CodeOpenBls(u \o ta) = CodeOpenBls(u) \o w
    <3>1. /\ fr \in AllLists /\ es \in AllLists /\ cs \in AllLists /\ js \in AllLists /\ ta \in AllLists
          /\ u \in AllLists /\ u \o ta \in AllLists /\ fr \o es \in AllLists /\ cs \o ta \in AllLists
          /\ fr \o js \in AllLists
      BY <1>1, <2>3, <2>10, <2>12, <2>13
    <3>2. CodeOpenBls(fr \o es) = v \o << >>
      <4>1. CodeOpenBls(fr \o es) = CodeOpenBls(fr) \o CodeOpenBls(es)
        BY <3>1, OpenBlsConcat
      <4> QED
        BY <2>11, <2>12, <4>1
    <3>3. CodeOpenBls(cs \o ta) = << >> \o w
      <4>1. CodeOpenBls(cs \o ta) = CodeOpenBls(cs) \o CodeOpenBls(ta)
        BY <3>1, OpenBlsConcat
      <4> QED
        BY <2>11, <2>12, <4>1
    <3>4. CodeOpenBls(fr \o js) = v \o << >>
      <4>1. CodeOpenBls(fr \o js) = CodeOpenBls(fr) \o CodeOpenBls(js)
        BY <3>1, OpenBlsConcat
      <4> QED
        BY <2>11, <2>12, <4>1
    <3>5. CodeOpenBls(u \o ta) = CodeOpenBls(u) \o w
      BY <2>12, <3>1, OpenBlsConcat
    <3> QED
      BY <2>3, <2>9, <2>12, <3>2, <3>3, <3>4, <3>5
  <2>16. v \o << >> = v /\ << >> \o w = w
    BY <2>14, ConcatEmptySeq
  <2> QED
    BY <1>0, <2>6, <2>9, <2>12, <2>15, <2>16
<1> QED
  BY <1>3, <1>4

(* Two entries after which the same offset would continue the row. *)
SameEnd(b, c) ==
  b.incr = c.incr /\ b.sub = c.sub /\ b.ofs + b.count * b.incr = c.ofs + c.count * c.incr

LEMMA ConcatLast ==
  ASSUME NEW X, NEW b1 \in Seq(EntriesOver(X)), NEW b2 \in Seq(EntriesOver(X)), NEW base \in Int,
         b2 # NoBlocklist
  PROVE  /\ ConcatBlocklists(b1, b2, base) # NoBlocklist
         /\ SameEnd(Last(ConcatBlocklists(b1, b2, base)), [Last(b2) EXCEPT !.ofs = base + @])
         /\ Last(ConcatBlocklists(b1, b2, base)).count
              \in {Last(b2).count} \cup (IF Joins(b1, b2, base) THEN {Last(b1).count + Last(b2).count}
                                                               ELSE {})
<1>0. PICK Y, al, bl : Y = EntriesOver(X) /\ al = ListAt(b2, base) /\ bl = ConcatBlocklists(b1, b2, base)
  OBVIOUS
<1>1. b1 \in Seq(Y) /\ b2 \in Seq(Y) /\ al \in Seq(Y) /\ Len(al) = Len(b2)
      /\ \A i \in 1 .. Len(b2) : al[i] = [b2[i] EXCEPT !.ofs = base + @]
  BY <1>0, ListAtTyped
<1>2. b2 # << >> /\ al # << >>
  BY <1>1 DEF NoBlocklist
<1>3. PICK e, c, m : e = Last(b2) /\ c = Last(al) /\ m = Len(b2)
  OBVIOUS
<1>4. e \in Y /\ c \in Y /\ m \in Nat \ {0} /\ e = b2[m]
  BY <1>1, <1>2, <1>3, FrontLast DEF Last
<1>5. c = [e EXCEPT !.ofs = base + @]
  BY <1>1, <1>3, <1>4 DEF Last
<1>6. c.sub = e.sub /\ c.ofs = base + e.ofs /\ c.count = e.count /\ c.incr = e.incr
  BY <1>0, <1>4, <1>5, EntryAt
<1>a. e.count \in Int /\ e.incr \in Int /\ e.ofs \in Int /\ c.ofs \in Int
  BY <1>0, <1>4 DEF EntriesOver
<1>7. ASSUME NEW s \in Seq(Y), NEW t \in Seq(Y), t # << >>
      PROVE  Last(s \o t) = Last(t) /\ s \o t # << >>
  <2>1. Len(s) \in Nat /\ Len(t) \in Nat \ {0}
    BY <1>7, EmptySeq
  <2>2. /\ s \o t \in Seq(Y) /\ Len(s \o t) = Len(s) + Len(t)
        /\ \A i \in 1 .. Len(t) : (s \o t)[Len(s) + i] = t[i]
    BY ConcatAt
  <2>3. Len(t) \in 1 .. Len(t) /\ Len(s \o t) # 0
    BY <2>1, <2>2
  <2> QED
    BY <2>2, <2>3 DEF Last
<1>8. CASE ~Joins(b1, b2, base)
  <2>1. bl = b1 \o al
    BY <1>0, <1>8, ConcatIs
  <2>2. Last(bl) = c /\ bl # << >>
    BY <1>1, <1>2, <1>3, <1>7, <2>1
  <2>3. SameEnd(c, c)
    BY DEF SameEnd
  <2> QED
    BY <1>0, <1>3, <1>5, <1>6, <2>2, <2>3 DEF NoBlocklist
<1>9. CASE Joins(b1, b2, base)
  <2>1. b1 # << >>
    BY <1>9 DEF Joins, NoBlocklist
  <2>2. PICK fr, g, ta, f : fr = Front(b1) /\ g = Last(b1) /\ ta = Tail(al) /\ f = b2[1]
    OBVIOUS
  <2>3. /\ fr \in Seq(Y) /\ g \in Y /\ ta \in Seq(Y) /\ f \in Y
        /\ Len(ta) = m - 1 /\ \A i \in 1 .. m - 1 : ta[i] = al[i + 1]
    <3>1. fr \in Seq(Y) /\ g \in Y /\ f \in Y
      BY <1>1, <1>2, <2>1, <2>2, FrontLast, HeadTail
    <3>2. ta \in Seq(Y) /\ Len(ta) = Len(al) - 1 /\ \A i \in 1 .. Len(al) - 1 : ta[i] = al[i + 1]
      BY <1>1, <1>2, <2>2, HeadTail
    <3>3. Len(al) = m
      BY <1>1, <1>3
    <3> QED
      BY <3>1, <3>2, <3>3
  <2>4. PICK j : j = Joined(g, f)
    OBVIOUS
  <2>5. /\ j \in Y /\ j.sub = f.sub /\ j.ofs = g.ofs /\ j.count = g.count + f.count /\ j.incr = f.incr
    BY <1>0, <2>3, <2>4, JoinedEntry
  <2>6. bl = (fr \o <<j>>) \o ta
    BY <1>0, <1>9, <2>2, <2>4, ConcatIs
  <2>7. PICK js, u : js = <<j>> /\ u = fr \o js
    OBVIOUS
  <2>8. js \in Seq(Y) /\ js # << >> /\ Last(js) = j
    BY <2>5, <2>7 DEF Last
  <2>9. u \in Seq(Y) /\ Last(u) = j /\ u # << >>
    BY <1>7, <2>3, <2>7, <2>8, ConcatProperties
  <2>10. CASE m = 1
    <3>1. Len(ta) = 0 /\ f = e
      BY <1>4, <2>2, <2>3, <2>10
    <3>2. ta = << >>
      BY <2>3, <3>1, EmptySeq
    <3>3. bl = u
      <4>1. u \o << >> = u
        BY <2>9, ConcatEmptySeq
      <4> QED
        BY <2>6, <2>7, <3>2, <4>1
    <3>4. Fit(g, f, base)
      BY <1>9, <2>2 DEF Joins
    <3>5. g.incr = f.incr /\ g.ofs + g.count * g.incr = base + f.ofs
      BY <3>4 DEF Fit
    <3>6. j.ofs + j.count * j.incr = c.ofs + c.count * c.incr
      <4>1. PICK go, gc, fc, r, fo : go = g.ofs /\ gc = g.count /\ fc = f.count /\ r = f.incr /\ fo = f.ofs
        OBVIOUS
      <4>2. go \in Int /\ gc \in Int /\ fc \in Int /\ r \in Int /\ fo \in Int
        BY <1>0, <2>3, <4>1 DEF EntriesOver
      <4>3. (gc + fc) * r = gc * r + fc * r
        BY <4>2
      <4>4. gc * r \in Int /\ fc * r \in Int
        BY <4>2
      <4>5. go + gc * r = base + fo
        BY <3>5, <4>1
      <4>6. go + (gc + fc) * r = (base + fo) + fc * r
        BY <4>2, <4>3, <4>4, <4>5
      <4> QED
        BY <1>6, <2>5, <3>1, <4>1, <4>6
    <3>7. SameEnd(j, c)
      BY <1>6, <2>5, <3>1, <3>6 DEF SameEnd
    <3> QED
      BY <1>0, <1>3, <1>5, <1>9, <2>2, <2>5, <2>9, <3>1, <3>3, <3>7 DEF NoBlocklist
  <2>11. CASE m # 1
    <3>1. m - 1 \in 1 .. m - 1 /\ (m - 1) + 1 = m
      BY <1>4, <2>11
    <3>2. ta # << >> /\ Last(ta) = al[m]
      <4>1. Len(ta) # 0
        BY <2>3, <3>1
      <4>2. ta # << >>
        BY <4>1, EmptySeq
      <4>3. ta[m - 1] = al[(m - 1) + 1]
        BY <2>3, <3>1
      <4> QED
        BY <2>3, <3>1, <4>2, <4>3 DEF Last
    <3>3. Last(ta) = c
      BY <1>1, <1>3, <3>2 DEF Last
    <3>4. Last(bl) = c /\ bl # << >>
      BY <1>7, <2>3, <2>6, <2>7, <2>9, <3>2, <3>3
    <3>5. SameEnd(c, c)
      BY DEF SameEnd
    <3> QED
      BY <1>0, <1>3, <1>5, <1>6, <3>4, <3>5 DEF NoBlocklist
  <2> QED
    BY <2>10, <2>11
<1> QED
  BY <1>8, <1>9

-----------------------------------------------------------------------------
(* The declarations of a frame. *)
Framed(decls, m) ==
  /\ m \in Nat /\ m = Len(decls) /\ DOMAIN decls = 1 .. m
  /\ \A i \in 1 .. m : /\ decls[i].ty \in AllTypes /\ decls[i].addr \in Int
                       /\ IsOpenPar(decls[i]) => decls[i].addr \in Nat

ConfusedIn(decls, i, j) ==
  /\ i < j /\ \A k \in i + 1 .. j - 1 : PointerList(decls[k]) = NoBlocklist
  /\ PointerList(decls[i]) # NoBlocklist /\ PointerList(decls[j]) # NoBlocklist
  /\ IsOpenPar(decls[i]) \/ IsOpenPar(decls[j])
  /\ Fit([Last(PointerList(decls[i])) EXCEPT !.ofs = decls[i].addr + @],
         PointerList(decls[j])[1], decls[j].addr)

(* What the table is to say of the first k of them. *)
DeclSlots(d) == {d.addr + o : o \in Pointers(d.ty)}
DeclPart(d) == Part(d.addr, d.ty.elem.size, Pointers(d.ty.elem))
HasPart(d) == IsOpenPar(d) /\ PointerList(d) # NoBlocklist
FrameSlots(decls, k) == UNION {DeclSlots(decls[i]) : i \in 1 .. k}
FrameParts(decls, k) == {DeclPart(decls[i]) : i \in {j \in 1 .. k : HasPart(decls[j])}}

(* bl ends as the list of the last of them that has one. *)
EndsAs(bl, decls, k) ==
  \/ bl = NoBlocklist /\ \A i \in 1 .. k : PointerList(decls[i]) = NoBlocklist
  \/ /\ bl # NoBlocklist
     /\ \E j \in 1 .. k :
          /\ PointerList(decls[j]) # NoBlocklist
          /\ \A i \in j + 1 .. k : PointerList(decls[i]) = NoBlocklist
          /\ SameEnd(Last(bl), [Last(PointerList(decls[j])) EXCEPT !.ofs = decls[j].addr + @])
          /\ Last(bl).count < 0 <=> IsOpenPar(decls[j])

FrameGood(bl, decls, k) ==
  /\ bl \in Lists[Depth + 1]
  /\ Spells(CodeFixed[bl], FrameSlots(decls, k))
  /\ HasParts(CodeOpenBls(bl), FrameParts(decls, k))
  /\ EndsAs(bl, decls, k)

(* The list of an open array is one entry, if it has one. *)
LEMMA OpenListIs ==
  ASSUME NEW t \in AllTypes, t.form = "open"
  PROVE  /\ BlocklistOfType(t, "pointer") # NoBlocklist =>
              BlocklistOfType(t, "pointer")
                = <<Entry(BlocklistOfType(t.elem, "pointer"), 0, -t.odim, t.elem.size, 0)>>
         /\ BlocklistOfType(t, "pointer") = NoBlocklist => Pointers(t.elem) = {}
<1>0. "pointer" \in Kinds
  BY DEF Kinds
<1>1. /\ t.elem \in AllTypes /\ t.elem.form # "open"
      /\ t.elem.form \in {"pointer", "procedure", "basic", "array", "record"}
  BY TypeParts
<1>2. BlocklistOfType(t, "pointer") = BlocklistOfOpenArrayType(t, BlocklistOfType(t.elem, "pointer"), "pointer")
  BY <1>0, BlocklistsAre DEF TypeList, BlocklistOfType
<1>3. CASE t.elem.form \in {"array", "record", "pointer"}
  <2>1. BlocklistOfType(t, "pointer")
          = <<Entry(BlocklistOfType(t.elem, "pointer"), 0, -t.odim, t.elem.size, 0)>>
    BY <1>2, <1>3 DEF BlocklistOfOpenArrayType
  <2>2. BlocklistOfType(t, "pointer") # NoBlocklist
    BY <2>1 DEF NoBlocklist
  <2> QED
    BY <2>1, <2>2
<1>4. CASE t.elem.form \notin {"array", "record", "pointer"}
  <2>1. BlocklistOfType(t, "pointer") = NoBlocklist
    BY <1>2, <1>4 DEF BlocklistOfOpenArrayType
  <2>2. Pointers(t.elem) = {}
    BY <1>0, <1>1, <1>4, SlotsAre DEF TypeSlots, Pointers
  <2> QED
    BY <2>1, <2>2
<1> QED
  BY <1>3, <1>4

(* The list of one declaration. *)
LEMMA DeclListIs ==
  ASSUME NEW d, d.ty \in AllTypes, d.addr \in Int, IsOpenPar(d) => d.addr \in Nat,
         NEW bl, bl = PointerList(d)
  PROVE  /\ bl \in Lists[Depth + 1]
         /\ Spells(CodeFixed[bl], Pointers(d.ty))
         /\ HasParts(CodeOpenBls(ListAt(bl, d.addr)), IF HasPart(d) THEN {DeclPart(d)} ELSE {})
         /\ bl # NoBlocklist => /\ Last(bl).count < 0 <=> IsOpenPar(d)
                                /\ Last(bl).count \in Int
                                /\ ~IsOpenPar(d) => bl[1].count \in Nat
<1>0. "pointer" \in Kinds /\ Depth \in 0 .. Depth /\ Depth \in Nat
  BY TypesAssumption DEF Kinds
<1>1. PICK t, a : t = d.ty /\ a = d.addr
  OBVIOUS
<1>2. t \in AllTypes /\ a \in Int /\ bl = BlocklistOfType(t, "pointer")
  BY <1>1 DEF PointerList
<1>3. bl \in Lists[Depth + 1] /\ bl \in AllLists
  BY <1>0, <1>2, TypeListIs
<1>4. PICK Y : Y = EntriesOver(Lists[Depth])
  OBVIOUS
<1>5. bl \in Seq(EntriesOver(Lists[Depth])) /\ bl \in Seq(Y) /\ Seq(Y) \subseteq AllLists
      /\ Y \subseteq EntriesOver(AllLists)
  <2>1. /\ Lists[Depth + 1] = Seq(EntriesOver(Lists[Depth]))
        /\ Seq(EntriesOver(Lists[Depth])) \subseteq AllLists
        /\ EntriesOver(Lists[Depth]) \subseteq EntriesOver(AllLists)
    BY <1>0, ListsOfDepth
  <2>2. bl \in Seq(EntriesOver(Lists[Depth]))
    BY <1>3, <2>1
  <2> QED
    BY <1>4, <2>1, <2>2
<1>6. PICK al : al = ListAt(bl, a)
  OBVIOUS
<1>7. al \in Seq(Y) /\ Len(al) = Len(bl)
  BY <1>2, <1>4, <1>5, <1>6, ListAtTyped
<1>8. \A i \in 1 .. Len(bl) : al[i] = [bl[i] EXCEPT !.ofs = a + @]
  <2>1. DOMAIN bl = 1 .. Len(bl)
    BY <1>5
  <2> QED
    BY <1>6, <2>1 DEF ListAt
<1>9. CASE ~IsOpenPar(d)
  <2>1. t.form # "open"
    BY <1>1, <1>9 DEF IsOpenPar
  <2>2. Enumerates(CodeFixed[bl], Pointers(t)) /\ FixedList(bl)
    BY <1>0, <1>2, <2>1, TypeEnumerates, TypeListIs DEF Pointers
  <2>3. Spells(CodeFixed[bl], Pointers(t))
    BY <2>2 DEF Enumerates, Spells
  <2>4. \A i \in DOMAIN al : al[i].count \in Nat
    <3> TAKE i \in DOMAIN al
    <3>1. i \in 1 .. Len(bl) /\ i \in DOMAIN bl
      BY <1>5, <1>7
    <3>2. PICK X, e : X = Lists[Depth] /\ e = bl[i]
      OBVIOUS
    <3>a. e \in EntriesOver(X)
      BY <1>5, <3>1, <3>2
    <3>b. al[i] = [e EXCEPT !.ofs = a + @]
      BY <1>8, <3>1, <3>2
    <3>3. al[i].count = bl[i].count
      BY <1>2, <3>2, <3>a, <3>b, EntryAt
    <3> QED
      BY <2>2, <3>1, <3>3 DEF FixedList
  <2>5. CodeOpenBls(al) = << >>
    <3>1. al \in AllLists
      BY <1>5, <1>7
    <3> QED
      BY <2>4, <3>1, OpenBlsFixed
  <2>6. HasParts(CodeOpenBls(al), {})
    BY <2>5, HasPartsEmpty
  <2>7. bl # NoBlocklist => bl[1].count \in Nat \ {0} /\ Last(bl).count \in Nat \ {0}
    <3>1. SUFFICES ASSUME bl # << >> PROVE bl[1].count \in Nat \ {0} /\ Last(bl).count \in Nat \ {0}
      BY DEF NoBlocklist
    <3>2. 1 \in DOMAIN bl /\ Len(bl) \in DOMAIN bl
      BY <1>5, <3>1, EmptySeq
    <3> QED
      BY <2>2, <3>2 DEF FixedList, Last
  <2>8. ~HasPart(d)
    BY <1>9 DEF HasPart
  <2>9. \A c \in Nat \ {0} : ~(c < 0) /\ c \in Int /\ c \in Nat
    OBVIOUS
  <2> QED
    BY <1>1, <1>3, <1>6, <1>9, <2>3, <2>6, <2>7, <2>8, <2>9
<1>10. CASE IsOpenPar(d)
  <2>1. t.form = "open" /\ a \in Nat
    BY <1>1, <1>10 DEF IsOpenPar
  <2>2. Pointers(t) = {}
    BY <1>0, <1>2, <2>1, SlotsAre DEF TypeSlots, Kinds, Pointers
  <2>3. CASE bl = NoBlocklist
    <3>1. Spells(CodeFixed[bl], Pointers(t))
      BY <2>2, <2>3, CodeFixedEmpty, EnumeratesEmpty DEF Enumerates, Spells
    <3>2. al = NoBlocklist /\ NoBlocklist \in AllLists
      <4>1. Len(al) = 0
        BY <1>7, <2>3 DEF NoBlocklist
      <4> QED
        BY <1>7, <4>1, EmptySeq, NoListIn DEF NoBlocklist
    <3>3. CodeOpenBls(al) = << >>
      BY <3>2, OpenBlsFixed DEF NoBlocklist
    <3>4. ~HasPart(d)
      BY <2>3 DEF HasPart
    <3> QED
      BY <1>1, <1>3, <1>6, <2>3, <3>1, <3>3, <3>4, HasPartsEmpty
  <2>4. CASE bl # NoBlocklist
    <3>1. PICK r, sub, size, dims : /\ r = t.elem /\ sub = BlocklistOfType(r, "pointer")
                                    /\ size = r.size /\ dims = -t.odim
      OBVIOUS
    <3>2. r \in AllTypes /\ r.form # "open" /\ size \in Nat /\ dims \in Int /\ dims < 0
      BY <1>2, <2>1, <3>1, TypeParts
    <3>3. PICK b : b = Entry(sub, 0, dims, size, 0)
      OBVIOUS
    <3>4. bl = <<b>>
      BY <1>2, <2>1, <2>4, <3>1, <3>3, OpenListIs
    <3>5. b.sub = sub /\ b.ofs = 0 /\ b.count = dims /\ b.incr = size
      BY <3>3 DEF Entry
    <3>6. Len(bl) = 1 /\ bl[1] = b /\ b \in EntriesOver(Lists[Depth]) /\ b \in EntriesOver(AllLists)
          /\ b \in Y
      <4>1. Len(bl) = 1 /\ bl[1] = b
        BY <3>4
      <4>2. 1 \in 1 .. Len(bl)
        BY <4>1
      <4>3. bl[1] \in Y
        BY <1>5, <4>2
      <4> QED
        BY <1>4, <1>5, <4>1, <4>3
    <3>7. PICK c : c = [b EXCEPT !.ofs = a + @]
      OBVIOUS
    <3>8. c \in EntriesOver(AllLists) /\ c.sub = sub /\ c.ofs = a /\ c.count = dims /\ c.incr = size
      <4>1. c \in EntriesOver(AllLists) /\ c.sub = b.sub /\ c.ofs = a + b.ofs /\ c.count = b.count
            /\ c.incr = b.incr
        BY <1>2, <3>6, <3>7, EntryAt
      <4> QED
        BY <1>2, <3>5, <4>1
    <3>9. al = <<c>>
      <4>1. 1 \in 1 .. Len(bl)
        BY <3>6
      <4>2. Len(al) = 1 /\ al[1] = c
        BY <1>7, <1>8, <3>6, <3>7, <4>1
      <4> QED
        BY <1>7, <4>2
    <3>10. CodeOpenBls(al) = OpenPart(c, a)
      <4>1. al \in AllLists
        BY <1>5, <1>7
      <4>2. CodeOpenBls(<<c>>) = PartsOf(c)
        BY <3>8, <3>9, <4>1, OpenBlsOne
      <4> QED
        BY <3>2, <3>8, <3>9, <4>2 DEF PartsOf
    <3>11. PICK os : os = CodeFixed[sub]
      OBVIOUS
    <3>12. Enumerates(os, Pointers(r)) /\ SlotsWithin(Pointers(r), r.size)
      BY <1>0, <3>1, <3>2, <3>11, TypeEnumerates, TypeListIs DEF Pointers
    <3>13. os \in Seq(Int) /\ ToSet(os) = Pointers(r) /\ \A i \in 1 .. Len(os) : os[i] \in Nat
      <4>1. os \in Seq(Int) /\ ToSet(os) = Pointers(r)
        BY <3>12 DEF Enumerates
      <4>2. \A i \in 1 .. Len(os) : os[i] \in Pointers(r)
        BY <3>12, <4>1, EnumeratesIs
      <4> QED
        BY <3>12, <4>1, <4>2 DEF SlotsWithin
    <3>14. CodeFixedBls(c.sub, 0) = os
      BY <3>8, <3>11, <3>13, MovedZero DEF CodeFixedBls
    <3>15. HasParts(OpenPart(c, a), {Part(a, c.incr, ToSet(os))})
      BY <2>1, <3>2, <3>8, <3>13, <3>14, OpenPartHas
    <3>16. HasPart(d) /\ DeclPart(d) = Part(a, c.incr, ToSet(os))
      BY <1>1, <1>10, <2>4, <3>1, <3>8, <3>13 DEF HasPart, DeclPart
    <3>17. Spells(CodeFixed[bl], {})
      <4>1. CodeFixed[bl] = EntryOffsets(b)
        BY <1>3, <3>4, <3>6, CodeFixedOne
      <4>2. PICK w : w = IF b.sub = NoBlocklist THEN <<0>> ELSE CodeFixed[b.sub]
        OBVIOUS
      <4>3. w \in Seq(Int)
        BY <3>5, <3>11, <3>13, <4>2, ZeroOffset
      <4>4. Row(w, b.ofs, b.incr, b.count) = << >>
        <5>1. PICK z \in Int, f \in Int, e \in Int : z = b.ofs /\ f = b.incr /\ e = b.count
          BY <3>2, <3>5
        <5>2. e <= 0
          BY <3>2, <3>5, <5>1
        <5> QED
          BY <4>3, <5>1, <5>2, RowParts
      <4>5. CodeFixed[bl] = << >>
        BY <4>1, <4>2, <4>4 DEF EntryOffsets
      <4> QED
        BY <4>5, EnumeratesEmpty DEF Enumerates, Spells
    <3>18. Last(bl) = b
      BY <3>6 DEF Last
    <3> QED
      BY <1>1, <1>3, <1>6, <1>10, <2>2, <3>2, <3>5, <3>10, <3>15, <3>16, <3>17, <3>18
  <2> QED
    BY <2>3, <2>4
<1> QED
  BY <1>9, <1>10

-----------------------------------------------------------------------------
(* What the next declaration adds. *)
LEMMA FrameSlotsNext ==
  ASSUME NEW decls, NEW k \in Nat
  PROVE  FrameSlots(decls, k + 1) = FrameSlots(decls, k) \cup DeclSlots(decls[k + 1])
<1>1. \A i : i \in 1 .. k + 1 <=> i \in 1 .. k \/ i = k + 1
  OBVIOUS
<1>2. \A x \in FrameSlots(decls, k + 1) : x \in FrameSlots(decls, k) \cup DeclSlots(decls[k + 1])
  BY <1>1 DEF FrameSlots
<1>3. \A x \in FrameSlots(decls, k) \cup DeclSlots(decls[k + 1]) : x \in FrameSlots(decls, k + 1)
  BY <1>1 DEF FrameSlots
<1> QED
  BY <1>2, <1>3

LEMMA FramePartsNext ==
  ASSUME NEW decls, NEW k \in Nat
  PROVE  FrameParts(decls, k + 1)
           = FrameParts(decls, k)
               \cup (IF HasPart(decls[k + 1]) THEN {DeclPart(decls[k + 1])} ELSE {})
<1>1. \A i : i \in 1 .. k + 1 <=> i \in 1 .. k \/ i = k + 1
  OBVIOUS
<1>2. PICK R : R = IF HasPart(decls[k + 1]) THEN {DeclPart(decls[k + 1])} ELSE {}
  OBVIOUS
<1>3. \A x : x \in FrameParts(decls, k + 1) <=> x \in FrameParts(decls, k) \cup R
  BY <1>1, <1>2 DEF FrameParts
<1> QED
  BY <1>2, <1>3

(* No open array is joined to a neighbour, so that the declaration's       *)
(* pointers and part are added and the others stay.                        *)
LEMMA FrameStep ==
  ASSUME NEW decls, NEW m, Framed(decls, m), NEW k \in 0 .. m - 1, NEW bl, FrameGood(bl, decls, k),
         \A j \in 1 .. k : ~ConfusedIn(decls, j, k + 1)
  PROVE  FrameGood(ConcatBlocklists(bl, PointerList(decls[k + 1]), decls[k + 1].addr), decls, k + 1)
<1>0. /\ m \in Nat /\ k \in Nat /\ k + 1 \in 1 .. m /\ k + 1 \in Nat
      /\ Depth \in 0 .. Depth /\ Depth \in Nat
  BY TypesAssumption DEF Framed
<1>1. PICK e, b2, a : e = decls[k + 1] /\ b2 = PointerList(e) /\ a = e.addr
  OBVIOUS
<1>2. e.ty \in AllTypes /\ a \in Int /\ e.addr \in Int /\ (IsOpenPar(e) => e.addr \in Nat)
  BY <1>0, <1>1 DEF Framed
<1>3. /\ b2 \in Lists[Depth + 1]
      /\ Spells(CodeFixed[b2], Pointers(e.ty))
      /\ HasParts(CodeOpenBls(ListAt(b2, a)), IF HasPart(e) THEN {DeclPart(e)} ELSE {})
      /\ b2 # NoBlocklist => /\ Last(b2).count < 0 <=> IsOpenPar(e)
                             /\ Last(b2).count \in Int
                             /\ ~IsOpenPar(e) => b2[1].count \in Nat
  BY <1>1, <1>2, DeclListIs
<1>4. PICK nl : nl = ConcatBlocklists(bl, b2, a)
  OBVIOUS
<1>5. PICK X : X = Lists[Depth]
  OBVIOUS
<1>6. bl \in Lists[Depth + 1] /\ bl \in Seq(EntriesOver(X)) /\ b2 \in Seq(EntriesOver(X))
  <2>1. Lists[Depth + 1] = Seq(EntriesOver(Lists[Depth]))
    BY <1>0, ListsOfDepth
  <2>2. bl \in Lists[Depth + 1]
    BY DEF FrameGood
  <2> QED
    BY <1>3, <1>5, <2>1, <2>2
<1>7. bl # NoBlocklist => Last(bl).count \in Int
  <2>1. SUFFICES ASSUME bl # << >> PROVE Last(bl).count \in Int
    BY DEF NoBlocklist
  <2>2. Last(bl) \in EntriesOver(X)
    BY <1>6, <2>1, FrontLast
  <2> QED
    BY <2>2 DEF EntriesOver
<1>8. ASSUME Joins(bl, b2, a)
      PROVE  Last(bl).count \in Nat /\ b2[1].count \in Nat /\ ~IsOpenPar(e) /\ Last(b2).count \in Nat
  <2>1. bl # NoBlocklist /\ b2 # NoBlocklist /\ Fit(Last(bl), b2[1], a)
    BY <1>8 DEF Joins
  <2>2. PICK j \in 1 .. k :
          /\ PointerList(decls[j]) # NoBlocklist
          /\ \A i \in j + 1 .. k : PointerList(decls[i]) = NoBlocklist
          /\ SameEnd(Last(bl), [Last(PointerList(decls[j])) EXCEPT !.ofs = decls[j].addr + @])
          /\ Last(bl).count < 0 <=> IsOpenPar(decls[j])
    BY <2>1 DEF FrameGood, EndsAs
  <2>3. PICK g, c, f : /\ g = Last(bl) /\ f = b2[1]
                       /\ c = [Last(PointerList(decls[j])) EXCEPT !.ofs = decls[j].addr + @]
    OBVIOUS
  <2>4. Fit(c, f, a)
    BY <2>1, <2>2, <2>3 DEF Fit, SameEnd
  <2>5. j < k + 1 /\ (k + 1) - 1 = k
    BY <1>0
  <2>6. ~ConfusedIn(decls, j, k + 1)
    OBVIOUS
  <2>7. ~IsOpenPar(decls[j]) /\ ~IsOpenPar(e)
    BY <1>1, <2>1, <2>2, <2>3, <2>4, <2>5, <2>6 DEF ConfusedIn
  <2>8. ~(Last(bl).count < 0) /\ Last(bl).count \in Int /\ ~(Last(b2).count < 0)
        /\ Last(b2).count \in Int /\ b2[1].count \in Nat
    BY <1>3, <1>7, <2>1, <2>2, <2>7
  <2>9. \A x \in Int : ~(x < 0) => x \in Nat
    OBVIOUS
  <2> QED
    BY <2>7, <2>8, <2>9
<1>9. Joins(bl, b2, a) => Last(bl).count \in Nat /\ b2[1].count \in Nat
  BY <1>8
<1>10. nl \in Lists[Depth + 1] /\ CodeFixed[nl] = CodeFixed[bl] \o Moved(CodeFixed[b2], a)
  BY <1>0, <1>2, <1>3, <1>4, <1>6, <1>9, ConcatOffsets
<1>11. Spells(CodeFixed[nl], FrameSlots(decls, k + 1))
  <2>1. Spells(CodeFixed[bl], FrameSlots(decls, k))
    BY DEF FrameGood
  <2>2. Spells(Moved(CodeFixed[b2], a), {a + o : o \in Pointers(e.ty)})
    BY <1>2, <1>3, SpellsMoved
  <2>3. DeclSlots(e) = {a + o : o \in Pointers(e.ty)}
    BY <1>1 DEF DeclSlots
  <2>4. Spells(CodeFixed[bl] \o Moved(CodeFixed[b2], a), FrameSlots(decls, k) \cup DeclSlots(e))
    BY <2>1, <2>2, <2>3, SpellsConcat
  <2> QED
    BY <1>0, <1>1, <1>10, <2>4, FrameSlotsNext
<1>12. HasParts(CodeOpenBls(nl), FrameParts(decls, k + 1))
  <2>1. CodeOpenBls(nl) = CodeOpenBls(bl) \o CodeOpenBls(ListAt(b2, a))
    BY <1>0, <1>2, <1>3, <1>4, <1>6, <1>9, ConcatOpens
  <2>2. HasParts(CodeOpenBls(bl), FrameParts(decls, k))
    BY DEF FrameGood
  <2>3. PICK R : R = IF HasPart(e) THEN {DeclPart(e)} ELSE {}
    OBVIOUS
  <2>4. HasParts(CodeOpenBls(ListAt(b2, a)), R)
    BY <1>3, <2>3
  <2>5. HasParts(CodeOpenBls(nl), FrameParts(decls, k) \cup R)
    BY <2>1, <2>2, <2>4, HasPartsConcat
  <2>6. FrameParts(decls, k + 1) = FrameParts(decls, k) \cup R
    BY <1>0, <1>1, <2>3, FramePartsNext
  <2> QED
    BY <2>5, <2>6
<1>13. EndsAs(nl, decls, k + 1)
  <2>1. CASE b2 = NoBlocklist
    <3>1. nl = bl
      <4>1. ~Joins(bl, b2, a)
        BY <2>1 DEF Joins
      <4>2. nl = bl \o ListAt(b2, a)
        BY <1>2, <1>4, <1>6, <4>1, ConcatIs
      <4>3. ListAt(b2, a) = << >>
        BY <2>1 DEF ListAt, NoBlocklist
      <4> QED
        BY <1>6, <4>2, <4>3, ConcatEmptySeq
    <3>2. EndsAs(bl, decls, k) /\ PointerList(decls[k + 1]) = NoBlocklist
      BY <1>1, <2>1 DEF FrameGood
    <3>3. \A i : i \in 1 .. k + 1 <=> i \in 1 .. k \/ i = k + 1
      BY <1>0
    <3>4. \A j \in 1 .. k : \A i : i \in j + 1 .. k + 1 => i \in j + 1 .. k \/ i = k + 1
      BY <1>0
    <3> QED
      BY <3>1, <3>2, <3>3, <3>4 DEF EndsAs
  <2>2. CASE b2 # NoBlocklist
    <3>1. /\ nl # NoBlocklist
          /\ SameEnd(Last(nl), [Last(b2) EXCEPT !.ofs = a + @])
          /\ Last(nl).count \in {Last(b2).count} \cup (IF Joins(bl, b2, a)
                                                       THEN {Last(bl).count + Last(b2).count}
                                                       ELSE {})
      BY <1>2, <1>4, <1>6, <2>2, ConcatLast
    <3>2. Last(nl).count < 0 <=> IsOpenPar(e)
      <4>1. CASE Joins(bl, b2, a)
        <5>1. PICK x \in Nat, y \in Nat : x = Last(bl).count /\ y = Last(b2).count
          BY <1>8, <4>1
        <5>2. Last(nl).count = y \/ Last(nl).count = x + y
          BY <3>1, <4>1, <5>1
        <5>3. ~(Last(nl).count < 0)
          BY <5>2
        <5> QED
          BY <1>8, <4>1, <5>3
      <4>2. CASE ~Joins(bl, b2, a)
        <5>1. Last(nl).count = Last(b2).count
          BY <3>1, <4>2
        <5> QED
          BY <1>3, <2>2, <5>1
      <4> QED
        BY <4>1, <4>2
    <3>3. k + 1 \in 1 .. k + 1 /\ (k + 1) + 1 .. k + 1 = {}
      BY <1>0
    <3>4. SameEnd(Last(nl), [Last(PointerList(decls[k + 1])) EXCEPT !.ofs = decls[k + 1].addr + @])
      BY <1>1, <3>1
    <3> QED
      BY <1>1, <2>2, <3>1, <3>2, <3>3, <3>4 DEF EndsAs
  <2> QED
    BY <2>1, <2>2
<1> QED
  BY <1>1, <1>4, <1>10, <1>11, <1>12, <1>13 DEF FrameGood

(* The list of a frame without confused declarations. *)
LEMMA FrameRight ==
  ASSUME NEW decls, NEW m, Framed(decls, m), \A i, j \in 1 .. m : ~ConfusedIn(decls, i, j)
  PROVE  FrameGood(BlocklistOfDecls(decls, "pointer"), decls, m)
<1>0. m \in Nat /\ m = Len(decls) /\ Depth \in 0 .. Depth /\ "pointer" \in Kinds
  BY TypesAssumption DEF Framed, Kinds
<1>1. PICK bls : bls = BlocklistsOf("pointer")
  OBVIOUS
<1>2. \A d : bls[d.ty] = PointerList(d)
  BY <1>1 DEF PointerList, BlocklistOfType
<1>3. ListsOfDecls(decls, bls, m, Depth)
  <2>1. \A i \in 1 .. m : decls[i].ty \in AllTypes /\ decls[i].addr \in Int
    BY DEF Framed
  <2>2. \A i \in 1 .. m : bls[decls[i].ty] \in Lists[Depth + 1]
    BY <1>0, <1>1, <2>1, TypeListIs DEF BlocklistOfType
  <2> QED
    BY <1>0, <2>1, <2>2 DEF ListsOfDecls
<1>4. PICK f : IsConcat(f, decls, bls, m, Depth)
  BY <1>0, <1>3, ConcatDeclsIs
<1> DEFINE S == {k \in 0 .. m : FrameGood(f[k], decls, k)}
<1>5. 0 \in S
  <2>1. f[0] = NoBlocklist
    BY <1>4 DEF IsConcat
  <2>2. FrameSlots(decls, 0) = {} /\ FrameParts(decls, 0) = {}
    BY DEF FrameSlots, FrameParts
  <2>3. NoBlocklist \in Lists[Depth + 1] /\ NoBlocklist \in AllLists
    BY <1>0, NoListIn, TypesAssumption
  <2>4. Spells(CodeFixed[NoBlocklist], {})
    BY CodeFixedEmpty, EnumeratesEmpty DEF Enumerates, Spells
  <2>5. HasParts(CodeOpenBls(NoBlocklist), {})
    <3>1. CodeOpenBls(NoBlocklist) = << >>
      BY <2>3, OpenBlsFixed DEF NoBlocklist
    <3> QED
      BY <3>1, HasPartsEmpty
  <2>6. EndsAs(NoBlocklist, decls, 0)
    BY DEF EndsAs
  <2>7. FrameGood(NoBlocklist, decls, 0)
    BY <2>2, <2>3, <2>4, <2>5, <2>6 DEF FrameGood
  <2>8. 0 \in 0 .. m
    BY <1>0
  <2> QED
    BY <2>1, <2>7, <2>8
<1>6. ASSUME NEW k \in 0 .. m - 1, k \in S PROVE k + 1 \in S
  <2>1. k + 1 \in 1 .. m /\ (k + 1) - 1 = k /\ k + 1 \in 0 .. m /\ 1 .. k \subseteq 1 .. m
    BY <1>0
  <2>2. f[k + 1] = ConcatBlocklists(f[k], PointerList(decls[k + 1]), decls[k + 1].addr)
    BY <1>2, <1>4, <2>1 DEF IsConcat
  <2>3. FrameGood(f[k], decls, k)
    BY <1>6
  <2>4. \A j \in 1 .. k : ~ConfusedIn(decls, j, k + 1)
    BY <2>1
  <2>5. FrameGood(f[k + 1], decls, k + 1)
    BY <2>2, <2>3, <2>4, FrameStep
  <2> QED
    BY <2>1, <2>5
<1>7. m \in S
  <2> HIDE DEF S
  <2>1. 0 .. m \subseteq S
    BY <1>0, <1>5, <1>6, InductionUpto
  <2> QED
    BY <1>0, <2>1
<1>8. BlocklistOfDecls(decls, "pointer") = f[m]
  BY <1>1, <1>4 DEF IsConcat, BlocklistOfDecls
<1> QED
  BY <1>7, <1>8

-----------------------------------------------------------------------------
(* The declarations of a procedure's frame. *)
LEMMA SeqNarrow ==
  ASSUME NEW X, NEW s \in Seq(X), NEW P, \A i \in 1 .. Len(s) : s[i] \in P
  PROVE  s \in Seq(P)
<1>1. Len(s) \in Nat /\ s = [i \in 1 .. Len(s) |-> s[i]]
  OBVIOUS
<1> QED
  BY <1>1

LEMMA ReverseTyped ==
  ASSUME NEW X, NEW s \in Seq(X)
  PROVE  Reverse(s) \in Seq(X)
<1>1. Len(s) \in Nat /\ \A i \in 1 .. Len(s) : (Len(s) - i) + 1 \in 1 .. Len(s)
  OBVIOUS
<1>2. \A i \in 1 .. Len(s) : s[(Len(s) - i) + 1] \in X
  BY <1>1
<1> QED
  BY <1>1, <1>2 DEF Reverse

LEMMA ReverseMembers ==
  ASSUME NEW X, NEW s \in Seq(X)
  PROVE  ToSet(Reverse(s)) = ToSet(s)
<1>0. PICK m \in Nat : m = Len(s)
  OBVIOUS
<1>1. PICK r : r = Reverse(s)
  OBVIOUS
<1>2. DOMAIN s = 1 .. m /\ DOMAIN r = 1 .. m /\ \A i \in 1 .. m : r[i] = s[(m - i) + 1]
  BY <1>0, <1>1 DEF Reverse
<1>3. ASSUME NEW i \in 1 .. m PROVE \E j \in 1 .. m : r[i] = s[j]
  <2>1. (m - i) + 1 \in 1 .. m
    OBVIOUS
  <2> QED
    BY <1>2, <2>1
<1>4. ASSUME NEW i \in 1 .. m PROVE \E j \in 1 .. m : s[i] = r[j]
  <2>1. PICK j \in 1 .. m : (m - j) + 1 = i
    <3>1. (m - i) + 1 \in 1 .. m /\ (m - ((m - i) + 1)) + 1 = i
      OBVIOUS
    <3> QED
      BY <3>1
  <2> QED
    BY <1>2, <2>1
<1>5. ToSet(r) = {r[i] : i \in 1 .. m} /\ ToSet(s) = {s[i] : i \in 1 .. m}
  BY <1>2 DEF ToSet
<1>6. {r[i] : i \in 1 .. m} = {s[i] : i \in 1 .. m}
  <2>1. \A i \in 1 .. m : r[i] \in {s[x] : x \in 1 .. m}
    BY <1>3
  <2>2. \A i \in 1 .. m : s[i] \in {r[x] : x \in 1 .. m}
    BY <1>4
  <2> QED
    BY <2>1, <2>2
<1> QED
  BY <1>1, <1>5, <1>6

LEMMA AppendMembers ==
  ASSUME NEW X, NEW s \in Seq(X), NEW e \in X
  PROVE  ToSet(Append(s, e)) = ToSet(s) \cup {e}
<1>0. PICK m \in Nat : m = Len(s)
  OBVIOUS
<1>1. PICK r : r = Append(s, e)
  OBVIOUS
<1>2. /\ DOMAIN s = 1 .. m /\ DOMAIN r = 1 .. m + 1
      /\ r[m + 1] = e /\ \A i \in 1 .. m : r[i] = s[i]
  BY <1>0, <1>1
<1>3. \A i : i \in 1 .. m + 1 <=> i \in 1 .. m \/ i = m + 1
  OBVIOUS
<1> QED
  BY <1>1, <1>2, <1>3 DEF ToSet

LEMMA ConcatMembers ==
  ASSUME NEW X, NEW s \in Seq(X), NEW t \in Seq(X)
  PROVE  ToSet(s \o t) = ToSet(s) \cup ToSet(t)
<1>0. PICK k \in Nat, m \in Nat : k = Len(s) /\ m = Len(t)
  OBVIOUS
<1>1. PICK r : r = s \o t
  OBVIOUS
<1>2. /\ DOMAIN s = 1 .. k /\ DOMAIN t = 1 .. m /\ DOMAIN r = 1 .. k + m
      /\ \A i \in 1 .. k : r[i] = s[i]
      /\ \A j \in 1 .. m : r[k + j] = t[j]
  <2>1. r \in Seq(X) /\ Len(r) = k + m
    BY <1>0, <1>1, ConcatAt
  <2>2. \A i \in 1 .. k : r[i] = s[i]
    BY <1>0, <1>1, ConcatAt
  <2>3. \A j \in 1 .. m : r[k + j] = t[j]
    BY <1>0, <1>1, ConcatAt
  <2> QED
    BY <1>0, <1>1, <2>1, <2>2, <2>3
<1>3. ASSUME NEW i \in 1 .. k + m PROVE i \in 1 .. k \/ \E j \in 1 .. m : i = k + j
  <2>1. i <= k \/ (i - k \in 1 .. m /\ i = k + (i - k))
    OBVIOUS
  <2> QED
    BY <2>1
<1>4. \A i \in 1 .. k : i \in 1 .. k + m
  OBVIOUS
<1>5. \A j \in 1 .. m : k + j \in 1 .. k + m
  OBVIOUS
<1>6. /\ ToSet(r) = {r[i] : i \in 1 .. k + m}
      /\ ToSet(s) = {s[i] : i \in 1 .. k} /\ ToSet(t) = {t[i] : i \in 1 .. m}
  BY <1>2 DEF ToSet
<1>7. ASSUME NEW i \in 1 .. k + m
      PROVE  r[i] \in {s[x] : x \in 1 .. k} \/ r[i] \in {t[x] : x \in 1 .. m}
  <2>1. CASE i \in 1 .. k
    BY <1>2, <2>1
  <2>2. CASE \E j \in 1 .. m : i = k + j
    BY <1>2, <2>2
  <2> QED
    BY <1>3, <2>1, <2>2
<1>8. \A i \in 1 .. k : s[i] \in {r[x] : x \in 1 .. k + m}
  BY <1>2, <1>4
<1>9. \A i \in 1 .. m : t[i] \in {r[x] : x \in 1 .. k + m}
  BY <1>2, <1>5
<1>10. {r[x] : x \in 1 .. k + m} = {s[x] : x \in 1 .. k} \cup {t[x] : x \in 1 .. m}
  BY <1>7, <1>8, <1>9
<1> QED
  BY <1>1, <1>6, <1>10

(* The value parameters are the parameters of that mode. *)
LEMMA ValueParsTyped ==
  ASSUME NEW X, NEW pars \in Seq(X)
  PROVE  /\ ValuePars(pars) \in Seq(X)
         /\ ToSet(ValuePars(pars)) = {p \in ToSet(pars) : p.mode = "VALPAR"}
<1>0. PICK m \in Nat : m = Len(pars)
  OBVIOUS
<1> DEFINE V == Seq(X)
           Next(i, s) == IF pars[i].mode = "VALPAR" THEN Append(s, pars[i]) ELSE s
           G == [p \in (1 .. m) \X V |-> Next(p[1], p[2])]
           Body(g) == [i \in 0 .. m |-> IF i = 0 THEN << >> ELSE Next(i, g[i - 1])]
<1>1. \A i \in 1 .. m, s \in V : Next(i, s) \in V
  BY <1>0
<1>2. StepOn(G, m, V)
  <2> HIDE DEF V, Next
  <2> QED
    BY <1>1 DEF StepOn
<1>3. PICK f : IsUpto(f, m, V, << >>, G)
  <2>1. << >> \in V
    OBVIOUS
  <2> HIDE DEF V, G
  <2> QED
    BY <1>2, <2>1, UptoExists
<1>4. \E g : g = Body(g)
  <2> HIDE DEF V, Next
  <2>1. f \in [0 .. m -> V] /\ f[0] = << >> /\ \A i \in 1 .. m : f[i] = G[<<i, f[i - 1]>>]
    BY <1>3 DEF IsUpto
  <2>2. \A i \in 1 .. m : f[i] = Next(i, f[i - 1])
    <3> TAKE i \in 1 .. m
    <3>1. i - 1 \in 0 .. m
      OBVIOUS
    <3>2. f[i - 1] \in V
      BY <2>1, <3>1
    <3> QED
      BY <2>1, <3>2
  <2>3. \A i \in 0 .. m : f[i] = IF i = 0 THEN << >> ELSE Next(i, f[i - 1])
    <3> TAKE i \in 0 .. m
    <3>1. i = 0 \/ i \in 1 .. m
      OBVIOUS
    <3> QED
      BY <2>1, <2>2, <3>1
  <2>4. f = [i \in 0 .. m |-> f[i]]
    BY <2>1
  <2>5. f = Body(f)
    BY <2>3, <2>4
  <2> QED
    BY <2>5
<1>5. PICK g : g = Body(g) /\ ValuePars(pars) = g[m]
  <2> DEFINE c == CHOOSE g : g = Body(g)
  <2>1. c = Body(c)
    <3> HIDE DEF Body
    <3> QED
      BY <1>4
  <2>2. ValuePars(pars) = c[m]
    BY <1>0 DEF ValuePars
  <2> HIDE DEF c, Body
  <2> QED
    BY <2>1, <2>2
<1> HIDE DEF Next
<1>6. \A i \in 0 .. m : g[i] = IF i = 0 THEN << >> ELSE Next(i, g[i - 1])
  BY <1>5
<1> DEFINE Among(k) == {p \in {pars[i] : i \in 1 .. k} : p.mode = "VALPAR"}
           S == {k \in 0 .. m : g[k] \in V /\ ToSet(g[k]) = Among(k)}
<1>7. 0 \in S
  <2>1. 0 \in 0 .. m /\ << >> \in V
    OBVIOUS
  <2>2. g[0] = << >>
    BY <1>6, <2>1
  <2>3. ToSet(<< >>) = {} /\ Among(0) = {}
    BY DEF ToSet
  <2> QED
    BY <2>1, <2>2, <2>3
<1>8. ASSUME NEW k \in 0 .. m - 1, k \in S PROVE k + 1 \in S
  <2>1. k + 1 \in 1 .. m /\ (k + 1) - 1 = k /\ k + 1 \in 0 .. m /\ k + 1 # 0
    OBVIOUS
  <2>2. g[k + 1] = Next(k + 1, g[k])
    BY <1>6, <2>1
  <2>3. g[k] \in V /\ ToSet(g[k]) = Among(k)
    BY <1>8
  <2>4. g[k + 1] \in V
    <3> HIDE DEF V
    <3> QED
      BY <1>1, <2>1, <2>2, <2>3
  <2>5. PICK p \in X : p = pars[k + 1]
    BY <1>0, <2>1
  <2>6. {pars[i] : i \in 1 .. k + 1} = {pars[i] : i \in 1 .. k} \cup {p}
    <3>1. \A i : i \in 1 .. k + 1 <=> i \in 1 .. k \/ i = k + 1
      OBVIOUS
    <3> QED
      BY <2>5, <3>1
  <2>7. CASE p.mode = "VALPAR"
    <3>1. Among(k + 1) = Among(k) \cup {p}
      BY <2>6, <2>7
    <3>2. g[k + 1] = Append(g[k], p)
      BY <2>2, <2>5, <2>7 DEF Next
    <3>3. ToSet(g[k + 1]) = ToSet(g[k]) \cup {p}
      BY <2>3, <3>2, AppendMembers
    <3> HIDE DEF V, Among
    <3> QED
      BY <2>1, <2>3, <2>4, <3>1, <3>3
  <2>8. CASE p.mode # "VALPAR"
    <3>1. Among(k + 1) = Among(k)
      BY <2>6, <2>8
    <3>2. g[k + 1] = g[k]
      BY <2>2, <2>5, <2>8 DEF Next
    <3> HIDE DEF V, Among
    <3> QED
      BY <2>1, <2>3, <2>4, <3>1, <3>2
  <2> QED
    BY <2>7, <2>8
<1>9. 0 .. m \subseteq S
  <2> HIDE DEF S
  <2> QED
    BY <1>7, <1>8, InductionUpto
<1>10. m \in S
  <2> HIDE DEF S
  <2> QED
    BY <1>9
<1>11. Among(m) = {p \in ToSet(pars) : p.mode = "VALPAR"}
  BY <1>0 DEF ToSet
<1> HIDE DEF Among
<1> QED
  BY <1>5, <1>10, <1>11

(* What the list of a frame needs of a declaration; no pointer is one byte *)
(* below the frame, where its offset would be the end mark.                *)
GoodDecl(d) ==
  /\ d.ty \in AllTypes /\ d.addr \in Int /\ (IsOpenPar(d) => d.addr \in Nat)
  /\ \A o \in Pointers(d.ty) : d.addr + o # -1

LEMMA VarsGood ==
  ASSUME TIInv, level # MODULELEVEL, NEW i \in DOMAIN vars
  PROVE  GoodDecl(vars[i])
<1>1. PICK v : v = vars[i]
  OBVIOUS
<1>2. v.ty \in Types /\ v.addr \in Int
  <2>1. vars \in Seq([ty : Types, addr : Int])
    BY DEF TIInv, ScopeInv, VarsPlaced
  <2>2. PICK R : R = [ty : Types, addr : Int]
    OBVIOUS
  <2>3. vars \in Seq(R)
    BY <2>1, <2>2
  <2>4. vars[i] \in R
    BY <2>3
  <2> QED
    BY <1>1, <2>2, <2>4
<1>3. v.ty.form # "open" /\ v.addr + v.ty.size <= LocalVarBase(level) /\ level \in Nat \ {0}
  BY <1>1 DEF TIInv, ScopeInv, VarsPlaced, VarBytes
<1>4. LocalVarBase(level) \in Int /\ LocalVarBase(level) <= -4
  BY <1>3 DEF LocalVarBase, MODULELEVEL
<1>5. v.ty \in AllTypes /\ v.ty.size \in Nat
  BY <1>2, TypeParts, TypesAssumption
<1>6. ASSUME NEW o \in Pointers(v.ty) PROVE v.addr + o # -1
  <2>1. o \in Nat /\ o + 4 <= v.ty.size
    BY <1>5, TypeListIs DEF Pointers, SlotsWithin, Kinds
  <2>2. PICK a \in Int, k \in Nat, b \in Int : a = v.addr /\ k = v.ty.size /\ b = LocalVarBase(level)
    BY <1>2, <1>4, <1>5
  <2>3. a + k <= b /\ b <= -4 /\ o + 4 <= k
    BY <1>3, <1>4, <2>1, <2>2
  <2>4. a + o # -1
    BY <2>1, <2>3
  <2> QED
    BY <2>2, <2>4
<1> QED
  BY <1>1, <1>2, <1>3, <1>5, <1>6 DEF GoodDecl, IsOpenPar

LEMMA ParamsGood ==
  ASSUME TIInv, NEW i \in DOMAIN params
  PROVE  GoodDecl(params[i])
<1>1. PICK p : p = params[i]
  OBVIOUS
<1>2. p.ty \in Types /\ p.addr \in Nat
  <2>1. params \in Seq([ty : Types, mode : Modes, addr : Nat, ref : Modes])
    BY DEF TIInv, ScopeInv, ParamsPlaced
  <2>2. PICK R : R = [ty : Types, mode : Modes, addr : Nat, ref : Modes]
    OBVIOUS
  <2>3. params \in Seq(R)
    BY <2>1, <2>2
  <2>4. params[i] \in R
    BY <2>3
  <2> QED
    BY <1>1, <2>2, <2>4
<1>3. p.ty \in AllTypes
  BY <1>2, TypesAssumption
<1>4. ASSUME NEW o \in Pointers(p.ty) PROVE p.addr + o # -1
  <2>1. o \in Nat
    BY <1>3, TypeListIs DEF Pointers, SlotsWithin, Kinds
  <2> QED
    BY <1>2, <2>1
<1> QED
  BY <1>1, <1>2, <1>3, <1>4 DEF GoodDecl

(* The declarations the list of a frame is made of. *)
Listed == ToSet(vars) \cup ByValue

LEMMA DeclsGood ==
  ASSUME TIInv, level # MODULELEVEL
  PROVE  /\ ToSet(Decls) = Listed
         /\ Framed(Decls, Len(Decls))
         /\ \A i \in 1 .. Len(Decls) : \A o \in Pointers(Decls[i].ty) : Decls[i].addr + o # -1
<1>1. PICK P : P = {d \in ToSet(vars) \cup ToSet(params) : GoodDecl(d)}
  OBVIOUS
<1>2. PICK R, Q : vars \in Seq(R) /\ params \in Seq(Q)
  BY DEF TIInv, ScopeInv, VarsPlaced, ParamsPlaced
<1>3. DOMAIN vars = 1 .. Len(vars) /\ DOMAIN params = 1 .. Len(params)
  BY <1>2
<1>4. vars \in Seq(P) /\ params \in Seq(P)
  <2>1. \A i \in 1 .. Len(vars) : vars[i] \in P
    BY <1>1, <1>3, VarsGood DEF ToSet
  <2>2. \A i \in 1 .. Len(params) : params[i] \in P
    BY <1>1, <1>3, ParamsGood DEF ToSet
  <2> QED
    BY <1>2, <2>1, <2>2, SeqNarrow
<1>5. PICK u, w, ds : u = Reverse(vars) /\ w = Reverse(ValuePars(params)) /\ ds = u \o w
  OBVIOUS
<1>6. u \in Seq(P) /\ w \in Seq(P)
  BY <1>4, <1>5, ReverseTyped, ValueParsTyped
<1>7. ds \in Seq(P)
  BY <1>5, <1>6, ConcatProperties
<1>8. Decls = ds
  BY <1>5 DEF Decls, ProcDecls
<1>9. Len(ds) \in Nat /\ DOMAIN ds = 1 .. Len(ds) /\ \A i \in 1 .. Len(ds) : ds[i] \in P
  BY <1>7
<1>10. \A i \in 1 .. Len(ds) : GoodDecl(ds[i])
  BY <1>1, <1>9
<1>11. ToSet(ds) = Listed
  <2>1. ToSet(ds) = ToSet(u) \cup ToSet(w)
    BY <1>5, <1>6, ConcatMembers
  <2>2. ToSet(u) = ToSet(vars)
    BY <1>4, <1>5, ReverseMembers
  <2>3. ToSet(w) = ToSet(ValuePars(params))
    BY <1>4, <1>5, ReverseMembers, ValueParsTyped
  <2>4. ToSet(ValuePars(params)) = {p \in ToSet(params) : p.mode = "VALPAR"}
    BY <1>4, ValueParsTyped
  <2> QED
    BY <2>1, <2>2, <2>3, <2>4 DEF Listed, ByValue
<1> QED
  BY <1>8, <1>9, <1>10, <1>11 DEF Framed, GoodDecl

(* Of what the list is made of, the frame holds the values in InFrame;     *)
(* parameters passed by reference are copied.                              *)
LEMMA ListedParts ==
  ASSUME TIInv
  PROVE  /\ InFrame \subseteq Listed
         /\ \A d \in Listed : d \in InFrame \/ d \in OpenPars \/ d \in Copied
         /\ OpenPars = {d \in Listed : IsOpenPar(d)}
<1>1. ASSUME NEW v \in ToSet(vars) PROVE ~IsOpenPar(v)
  <2>1. PICK i \in DOMAIN vars : v = vars[i]
    BY DEF ToSet
  <2> QED
    BY <2>1 DEF TIInv, ScopeInv, VarsPlaced, IsOpenPar
<1>2. ASSUME NEW p \in ToSet(params) PROVE p.ref \in {"VALPAR", "REFPAR"}
  <2>1. PICK i \in DOMAIN params : p = params[i]
    BY DEF ToSet
  <2>2. params \in Seq([ty : Types, mode : Modes, addr : Nat, ref : Modes])
    BY DEF TIInv, ScopeInv, ParamsPlaced
  <2>3. PICK R : R = [ty : Types, mode : Modes, addr : Nat, ref : Modes]
    OBVIOUS
  <2>4. params \in Seq(R)
    BY <2>2, <2>3
  <2>5. p \in R
    BY <2>1, <2>4
  <2> QED
    BY <2>3, <2>5 DEF Modes
<1>3. InFrame \subseteq Listed
  BY DEF InFrame, Listed
<1>4. \A d \in Listed : d \in InFrame \/ d \in OpenPars \/ d \in Copied
  BY <1>2 DEF InFrame, Listed, OpenPars, Copied, ByValue
<1>5. OpenPars = {d \in Listed : IsOpenPar(d)}
  BY <1>1 DEF OpenPars, Listed
<1> QED
  BY <1>3, <1>4, <1>5

(* The table of a procedure's frame, by which the collector finds the      *)
(* pointers of the active procedures (CodeLocalBlocklists of the list that *)
(* PtrBlOfProcDecls makes), names every pointer in the frame and the open  *)
(* arrays passed by value, whatever they are, and nothing else if no       *)
(* record or array with pointers is passed by value but by reference; as   *)
(* long as ConcatBlocklists takes no open array and its neighbour for one  *)
(* row of blocks.                                                          *)
THEOREM FrameTablesExact == TISpec => []FrameTable
<1>1. TIInv => FrameTable
  <2> SUFFICES ASSUME TIInv, level # MODULELEVEL, \A i, j \in DOMAIN Decls : ~Confused(i, j),
                      NEW table,
                      table = CodeLocalBlocklists(BlocklistOfProcDecls(params, vars, "pointer"))
               PROVE  /\ UNION {{d.addr + o : o \in Pointers(d.ty)} : d \in InFrame}
                            \subseteq ToSet(FixedPart(table))
                      /\ {o \in OpenParts(table) : o.slots # {}}
                           = {[ofs |-> p.addr, incr |-> p.ty.elem.size, slots |-> Pointers(p.ty.elem)] :
                                p \in {q \in OpenPars : Pointers(q.ty.elem) # {}}}
                      /\ (\A p \in Copied : Pointers(p.ty) = {})
                           => ToSet(FixedPart(table))
                                = UNION {{d.addr + o : o \in Pointers(d.ty)} : d \in InFrame}
    BY DEF FrameTable
  <2>1. PICK ds, m, bl, os, u, R :
          /\ ds = Decls /\ m = Len(ds) /\ bl = BlocklistOfDecls(ds, "pointer")
          /\ os = CodeFixed[bl] /\ u = CodeOpenBls(bl) /\ R = FrameParts(ds, m)
    OBVIOUS
  <2>2. Framed(ds, m) /\ \A i \in 1 .. m : \A o \in Pointers(ds[i].ty) : ds[i].addr + o # -1
    BY <2>1, DeclsGood
  <2>3. m \in Nat /\ DOMAIN ds = 1 .. m /\ \A i \in 1 .. m : ds[i].ty \in AllTypes /\ ds[i].addr \in Int
    BY <2>2 DEF Framed
  <2>4. \A i, j \in 1 .. m : ~ConfusedIn(ds, i, j)
    BY <2>1, <2>3 DEF Confused, ConfusedIn
  <2>5. FrameGood(bl, ds, m)
    BY <2>1, <2>2, <2>4, FrameRight
  <2>6. os \in Seq(Int) /\ ToSet(os) = FrameSlots(ds, m) /\ HasParts(u, R)
    BY <2>1, <2>5 DEF FrameGood, Spells
  <2>7. \A i \in 1 .. Len(os) : os[i] # -1
    <3>1. \A i \in 1 .. Len(os) : os[i] \in FrameSlots(ds, m)
      BY <2>6, SpellsIs DEF Spells
    <3>2. \A x \in FrameSlots(ds, m) : x # -1
      BY <2>2 DEF FrameSlots, DeclSlots
    <3> QED
      BY <3>1, <3>2
  <2>8. table = (os \o <<-1>>) \o u
    <3>1. table = CodeFixedBls(bl, 0) \o <<-1>> \o u
      BY <2>1 DEF CodeLocalBlocklists, BlocklistOfProcDecls, Decls
    <3>2. CodeFixedBls(bl, 0) = os
      BY <2>1, <2>6, MovedZero DEF CodeFixedBls
    <3> QED
      BY <3>1, <3>2
  <2>9. FixedPart(table) = os /\ OpenParts(table) = R
    BY <2>6, <2>7, <2>8, PartsFound
  <2>10. ToSet(ds) = Listed /\ \A d : d \in Listed <=> \E i \in 1 .. m : d = ds[i]
    <3>1. ToSet(ds) = Listed
      BY <2>1, DeclsGood
    <3>2. \A d : d \in ToSet(ds) <=> \E i \in 1 .. m : d = ds[i]
      BY <2>3 DEF ToSet
    <3> QED
      BY <3>1, <3>2
  <2>11. FrameSlots(ds, m) = UNION {{d.addr + o : o \in Pointers(d.ty)} : d \in Listed}
    <3>1. \A d : DeclSlots(d) = {d.addr + o : o \in Pointers(d.ty)}
      BY DEF DeclSlots
    <3>2. FrameSlots(ds, m) = UNION {DeclSlots(ds[i]) : i \in 1 .. m}
      BY DEF FrameSlots
    <3>3. {ds[i] : i \in 1 .. m} = Listed
      BY <2>10
    <3>4. FrameSlots(ds, m) \subseteq UNION {{d.addr + o : o \in Pointers(d.ty)} : d \in Listed}
      BY <3>1, <3>2, <3>3
    <3>5. UNION {{d.addr + o : o \in Pointers(d.ty)} : d \in Listed} \subseteq FrameSlots(ds, m)
      BY <2>10, <3>1, <3>2
    <3> QED
      BY <3>4, <3>5
  <2> DEFINE Opens == {[ofs |-> d.addr, incr |-> d.ty.elem.size, slots |-> Pointers(d.ty.elem)] :
                         d \in {e \in Listed : IsOpenPar(e) /\ Pointers(e.ty.elem) # {}}}
  <2>12. ASSUME NEW r \in R, r.slots # {} PROVE r \in Opens
    <3>1. PICK i \in 1 .. m : HasPart(ds[i]) /\ r = DeclPart(ds[i])
      BY <2>1 DEF FrameParts
    <3>2. PICK d : d = ds[i]
      OBVIOUS
    <3>3. /\ r = [ofs |-> d.addr, incr |-> d.ty.elem.size, slots |-> Pointers(d.ty.elem)]
          /\ IsOpenPar(d)
      BY <3>1, <3>2 DEF DeclPart, Part, HasPart
    <3>4. d \in Listed /\ Pointers(d.ty.elem) # {}
      BY <2>10, <2>12, <3>2, <3>3
    <3> QED
      BY <3>3, <3>4
  <2>13. ASSUME NEW r \in Opens PROVE r \in R /\ r.slots # {}
    <3>1. PICK d \in Listed :
            /\ IsOpenPar(d) /\ Pointers(d.ty.elem) # {}
            /\ r = [ofs |-> d.addr, incr |-> d.ty.elem.size, slots |-> Pointers(d.ty.elem)]
      OBVIOUS
    <3>2. PICK i \in 1 .. m : d = ds[i]
      BY <2>10
    <3>3. PICK t : t = d.ty
      OBVIOUS
    <3>4. t \in AllTypes /\ t.form = "open"
      BY <2>3, <3>1, <3>2, <3>3 DEF IsOpenPar
    <3>5. BlocklistOfType(t, "pointer") # NoBlocklist
      BY <3>1, <3>3, <3>4, OpenListIs
    <3>6. HasPart(ds[i])
      BY <3>1, <3>2, <3>3, <3>5 DEF HasPart, PointerList
    <3>7. r = DeclPart(ds[i])
      BY <3>1, <3>2 DEF DeclPart, Part
    <3>8. r \in R
      BY <2>1, <3>6, <3>7 DEF FrameParts
    <3> QED
      BY <3>1, <3>8
  <2>14. {o \in R : o.slots # {}} = Opens
    <3> HIDE DEF Opens
    <3> QED
      BY <2>12, <2>13
  <2>15. ToSet(FixedPart(table)) = UNION {{d.addr + o : o \in Pointers(d.ty)} : d \in Listed}
         /\ {o \in OpenParts(table) : o.slots # {}} = Opens
    BY <2>1, <2>6, <2>9, <2>11, <2>14
  <2> DEFINE Held == UNION {{d.addr + o : o \in Pointers(d.ty)} : d \in InFrame}
             AllOf == UNION {{d.addr + o : o \in Pointers(d.ty)} : d \in Listed}
  <2>16. Held \subseteq AllOf
    BY ListedParts
  <2>17. ASSUME \A p \in Copied : Pointers(p.ty) = {} PROVE AllOf \subseteq Held
    <3>1. ASSUME NEW d \in Listed, NEW o \in Pointers(d.ty) PROVE d \in InFrame
      <4>1. d \notin Copied
        BY <2>17, <3>1
      <4>2. d \notin OpenPars
        <5>1. SUFFICES ASSUME IsOpenPar(d) PROVE FALSE
          BY ListedParts
        <5>2. d.ty \in AllTypes
          BY <2>3, <2>10
        <5>3. Pointers(d.ty) = {}
          <6>1. "pointer" \in Kinds
            BY DEF Kinds
          <6> QED
            BY <5>1, <5>2, <6>1, SlotsAre DEF TypeSlots, Pointers, IsOpenPar
        <5> QED
          BY <3>1, <5>3
      <4> QED
        BY <4>1, <4>2, ListedParts
    <3> QED
      BY <3>1
  <2>18. Opens = {[ofs |-> p.addr, incr |-> p.ty.elem.size, slots |-> Pointers(p.ty.elem)] :
                    p \in {q \in OpenPars : Pointers(q.ty.elem) # {}}}
    <3>1. {e \in Listed : IsOpenPar(e) /\ Pointers(e.ty.elem) # {}}
            = {q \in OpenPars : Pointers(q.ty.elem) # {}}
      BY ListedParts
    <3> QED
      BY <3>1
  <2> HIDE DEF Opens
  <2> QED
    BY <2>15, <2>16, <2>17, <2>18
<1> QED
  BY <1>1, StartsIn, StaysIn, PTL DEF TISpec
=============================================================================

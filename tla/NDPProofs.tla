------------------------------- MODULE NDPProofs -------------------------------
(***************************************************************************)
(* The counters of NDP describe the processor, for every number of         *)
(* registers and every bound of operands, whatever the values are.         *)
(*                                                                         *)
(* Each instruction is first described by what it does to st(0), st(1),    *)
(* ...; the ring of registers behind these names appears in the first      *)
(* lemmas only.                                                            *)
(***************************************************************************)
EXTENDS NDP, SequenceTheorems, TLAPS

(* The states of the processor's registers. *)
FPU == [tos : Registers, regs : [Registers -> Cells]]

-----------------------------------------------------------------------------
(* The ring: st(0) .. st(MaxNofRegs - 1) are its registers, each once. *)
LEMMA Ring ==
  ASSUME NEW f \in FPU, NEW i \in Registers
  PROVE  /\ Register(f, i) \in Registers
         /\ st(f, i) \in Cells
         /\ \A j \in Registers : Register(f, i) = Register(f, j) => i = j
BY NDPAssumption DEF FPU, Registers, Register, Wrapped, st

LEMMA SetRing ==
  ASSUME NEW f \in FPU, NEW i \in Registers, NEW v \in Cells
  PROVE  /\ Set(f, i, v) \in FPU
         /\ \A j \in Registers : st(Set(f, i, v), j) = IF j = i THEN v ELSE st(f, j)
<1>1. Register(f, i) \in Registers
  BY Ring
<1>2. Set(f, i, v) = [tos |-> f.tos, regs |-> [f.regs EXCEPT ![Register(f, i)] = v]]
  BY DEF Set, FPU
<1>3. Set(f, i, v) \in FPU
  BY <1>1, <1>2 DEF FPU
<1>4. ASSUME NEW j \in Registers
      PROVE  st(Set(f, i, v), j) = IF j = i THEN v ELSE st(f, j)
  <2>1. Register(Set(f, i, v), j) = Register(f, j)
    BY <1>2 DEF Register
  <2>2. Register(f, j) \in Registers /\ (Register(f, i) = Register(f, j) => i = j)
    BY Ring
  <2>3. st(Set(f, i, v), j) = [f.regs EXCEPT ![Register(f, i)] = v][Register(f, j)]
    BY <1>2, <2>1 DEF st
  <2> QED
    BY <1>1, <2>2, <2>3 DEF FPU, st
<1> QED
  BY <1>3, <1>4

(* fdecstp renumbers the registers: the last comes first. *)
LEMMA DecRing ==
  ASSUME NEW f \in FPU
  PROVE  /\ fdecstp(f) \in FPU
         /\ \A i \in Registers :
              st(fdecstp(f), i) = IF i = 0 THEN st(f, MaxNofRegs - 1) ELSE st(f, i - 1)
<1>1. fdecstp(f) = [tos |-> Wrapped(f.tos + MaxNofRegs - 1), regs |-> f.regs]
  BY DEF fdecstp, FPU
<1>2. Wrapped(f.tos + MaxNofRegs - 1) \in Registers
  BY NDPAssumption DEF FPU, Wrapped, Registers
<1>3. fdecstp(f) \in FPU
  BY <1>1, <1>2 DEF FPU
<1>4. ASSUME NEW i \in Registers
      PROVE  Register(fdecstp(f), i)
               = IF i = 0 THEN Register(f, MaxNofRegs - 1) ELSE Register(f, i - 1)
  BY <1>1, NDPAssumption DEF FPU, Register, Wrapped, Registers
<1> QED
  BY <1>1, <1>3, <1>4 DEF st

(* fstp frees st(0), which becomes the last register. *)
LEMMA PopRing ==
  ASSUME NEW f \in FPU
  PROVE  /\ Popped(f) \in FPU
         /\ \A i \in Registers :
              st(Popped(f), i) = IF i = MaxNofRegs - 1 THEN Empty ELSE st(f, i + 1)
<1> DEFINE g == Set(f, 0, Empty)
<1>1. 0 \in Registers /\ Empty \in Cells
  BY NDPAssumption DEF Registers, Cells
<1>2. g \in FPU /\ \A j \in Registers : st(g, j) = IF j = 0 THEN Empty ELSE st(f, j)
  BY <1>1, SetRing
<1> HIDE DEF g
<1>3. Popped(f) = [tos |-> Wrapped(g.tos + 1), regs |-> g.regs]
  BY <1>2 DEF Popped, g, FPU
<1>4. Wrapped(g.tos + 1) \in Registers
  BY <1>2, NDPAssumption DEF FPU, Wrapped, Registers
<1>5. Popped(f) \in FPU
  BY <1>2, <1>3, <1>4 DEF FPU
<1>6. ASSUME NEW i \in Registers
      PROVE  Register(Popped(f), i)
               = IF i = MaxNofRegs - 1 THEN Register(g, 0) ELSE Register(g, i + 1)
  BY <1>2, <1>3, NDPAssumption DEF FPU, Register, Wrapped, Registers
<1>7. ASSUME NEW i \in Registers
      PROVE  st(Popped(f), i) = IF i = MaxNofRegs - 1 THEN st(g, 0) ELSE st(g, i + 1)
  BY <1>3, <1>6 DEF st
<1>8. ASSUME NEW i \in Registers, i # MaxNofRegs - 1
      PROVE  i + 1 \in Registers /\ i + 1 # 0
  BY <1>8, NDPAssumption DEF Registers
<1> QED
  BY <1>1, <1>2, <1>5, <1>7, <1>8

(* fld puts its operand in front, if the last register is free. *)
LEMMA LoadRing ==
  ASSUME NEW f \in FPU, NEW v \in Values
  PROVE  /\ Loaded(f, v) \in FPU
         /\ \A i \in Registers :
              st(Loaded(f, v), i) =
                IF i = 0 THEN IF st(f, MaxNofRegs - 1) = Empty THEN v ELSE Fault
                         ELSE st(f, i - 1)
<1>1. 0 \in Registers /\ v \in Cells /\ Fault \in Cells
  BY NDPAssumption DEF Registers, Cells
<1>2. /\ fdecstp(f) \in FPU /\ st(fdecstp(f), 0) = st(f, MaxNofRegs - 1)
      /\ \A i \in Registers : i # 0 => st(fdecstp(f), i) = st(f, i - 1)
  BY <1>1, DecRing
<1> DEFINE w == IF st(f, MaxNofRegs - 1) = Empty THEN v ELSE Fault
<1>3. w \in Cells /\ Loaded(f, v) = Set(fdecstp(f), 0, w)
  BY <1>1, <1>2 DEF Loaded
<1> HIDE DEF w
<1>4. /\ Loaded(f, v) \in FPU
      /\ \A i \in Registers : st(Loaded(f, v), i) = IF i = 0 THEN w ELSE st(fdecstp(f), i)
  BY <1>1, <1>2, <1>3, SetRing
<1> QED
  BY <1>2, <1>4 DEF w

-----------------------------------------------------------------------------
(* What holds with or without RETURNs jumped over: the operands are        *)
(* counted, and the frame has a place for every temporary in use and for   *)
(* every one that was.                                                     *)
Counted ==
  /\ NDPTypeOK
  /\ Len(pending) + skipped = Top + NofFTemps
  /\ NofFTemps <= MaxNofFTemps
  /\ \A k \in TempNos : temps[k] # Empty => k < MaxNofFTemps

(* What holds besides as long as there was none of them: a register or     *)
(* temporary in use holds an operand.                                      *)
NDPInv ==
  /\ skipped = 0
  /\ NDPTypeOK /\ CountersAgree /\ HeldInOrder
  /\ NofFTemps <= MaxNofFTemps /\ MaxNofFTemps <= MaxPending
  /\ \A k \in 0 .. NofFTemps - 1 : temps[k] \in Values

Inv == Counted /\ (skipped = 0 => NDPInv)

(* The operands without the newest n, and with one more. *)
LEMMA OlderSeq ==
  ASSUME pending \in Seq(Values), NEW n \in Nat, n <= Len(pending)
  PROVE  /\ Older(n) \in Seq(Values) /\ Len(Older(n)) = Len(pending) - n
         /\ \A i \in 1 .. Len(pending) - n : Older(n)[i] = pending[i]
<1>1. Len(pending) \in Nat /\ Len(pending) - n \in 0 .. Len(pending)
  OBVIOUS
<1> QED
  BY <1>1, SubSeqProperties DEF Older

LEMMA AppendSeq ==
  ASSUME NEW s \in Seq(Values), NEW v \in Values
  PROVE  /\ Append(s, v) \in Seq(Values) /\ Len(Append(s, v)) = Len(s) + 1
         /\ Append(s, v)[Len(s) + 1] = v
         /\ \A i \in 1 .. Len(s) : Append(s, v)[i] = s[i]
BY AppendProperties

(* What the invariant says of single registers and operands. *)
LEMMA InUse ==
  ASSUME NDPInv
  PROVE  /\ fpu \in FPU /\ Len(pending) \in Nat /\ Len(pending) = Top + NofFTemps
         /\ skipped = 0
         /\ Top \in Nat /\ NofFTemps \in Nat /\ Top <= MaxNofRegs
         /\ 0 \in Registers /\ MaxNofRegs - 1 \in Registers /\ MaxNofRegs \in Nat \ {0}
         /\ \A i \in 0 .. Top - 1 : i \in Registers
         /\ \A i \in Registers : /\ i < Top => st(fpu, i) \in Values
                                 /\ i >= Top => st(fpu, i) = Empty
         /\ pending \in Seq(Values) /\ \A i \in 1 .. Len(pending) : pending[i] \in Values
<1>1. /\ fpu \in FPU /\ Len(pending) \in Nat /\ Len(pending) = Top + NofFTemps
      /\ skipped = 0
      /\ Top \in Nat /\ NofFTemps \in Nat /\ Top <= MaxNofRegs
      /\ pending \in Seq(Values) /\ \A i \in 1 .. Len(pending) : pending[i] \in Values
  BY NDPAssumption DEF NDPInv, NDPTypeOK, HeldInOrder, FPU
<1>2. /\ 0 \in Registers /\ MaxNofRegs - 1 \in Registers /\ MaxNofRegs \in Nat \ {0}
      /\ \A i \in 0 .. Top - 1 : i \in Registers
  BY <1>1, NDPAssumption DEF Registers
<1>3. ASSUME NEW i \in Registers
      PROVE  (i < Top => st(fpu, i) \in Values) /\ (i >= Top => st(fpu, i) = Empty)
  BY <1>1, NDPAssumption DEF NDPInv, CountersAgree, Registers
<1> QED
  BY <1>1, <1>2, <1>3

(* ... and of the temporaries. *)
LEMMA InTemps ==
  ASSUME NDPInv
  PROVE  /\ NofFTemps \in Nat /\ MaxNofFTemps \in Nat /\ NofFTemps <= MaxNofFTemps
         /\ MaxNofFTemps <= MaxPending /\ MaxPending \in Nat
         /\ temps \in [TempNos -> Cells]
         /\ \A k \in TempNos : temps[k] # Empty => k < MaxNofFTemps
         /\ \A k \in 0 .. NofFTemps - 1 : k \in TempNos /\ temps[k] \in Values
         /\ Len(pending) <= MaxPending /\ skipped = 0
         /\ jumbled \in BOOLEAN /\ out \in Seq(Cells) /\ Len(out) <= 2
<1>1. /\ NofFTemps \in Nat /\ MaxNofFTemps \in Nat /\ NofFTemps <= MaxNofFTemps
      /\ MaxNofFTemps <= MaxPending /\ MaxPending \in Nat /\ Len(pending) <= MaxPending
      /\ temps \in [TempNos -> Cells] /\ out \in Seq(Cells) /\ Len(out) <= 2
      /\ skipped = 0
  BY NDPAssumption DEF NDPInv, NDPTypeOK
<1>2. jumbled \in BOOLEAN
  BY DEF NDPInv, NDPTypeOK
<1>3. \A k \in TempNos : temps[k] # Empty => k < MaxNofFTemps
  BY DEF NDPInv, CountersAgree
<1>4. \A k \in 0 .. NofFTemps - 1 : k \in TempNos /\ temps[k] \in Values
  BY <1>1, NDPAssumption DEF NDPInv, TempNos
<1> QED
  BY <1>1, <1>2, <1>3, <1>4

(* The invariant after a step, in the same terms. *)
LEMMA InvAgain ==
  ASSUME Top' \in Nat, NofFTemps' \in Nat, MaxNofFTemps' \in Nat, Top' <= MaxNofRegs,
         NofFTemps' <= MaxNofFTemps', MaxNofFTemps' <= MaxPending,
         fpu' \in FPU, temps' \in [TempNos -> Cells],
         pending' \in Seq(Values), Len(pending') <= MaxPending,
         Len(pending') = Top' + NofFTemps', skipped' = 0,
         jumbled' \in BOOLEAN, out' \in Seq(Cells), Len(out') <= 2,
         \A i \in Registers : i < Top' => st(fpu', i) \in Values,
         \A i \in Registers : i >= Top' => st(fpu', i) = Empty,
         \A k \in TempNos : temps'[k] # Empty => k < MaxNofFTemps',
         \A k \in 0 .. NofFTemps' - 1 : temps'[k] \in Values,
         ~jumbled' => InOrder'
  PROVE  NDPInv'
<1>1. NDPTypeOK'
  <2>1. Top' \in 0 .. MaxNofRegs /\ NofFTemps' \in 0 .. MaxPending /\ MaxNofFTemps' \in 0 .. MaxPending
    BY NDPAssumption
  <2>2. /\ NofFTemps' \in 0 .. MaxPending + MaxSkipped
        /\ MaxNofFTemps' \in 0 .. MaxPending + MaxSkipped
        /\ skipped' \in 0 .. MaxSkipped
    BY <2>1, NDPAssumption
  <2> QED
    BY <2>1, <2>2 DEF NDPTypeOK, FPU
<1>2. CountersAgree'
  <2>1. ASSUME NEW i \in Registers
        PROVE  IF i < Top' THEN st(fpu', i) \in Values ELSE st(fpu', i) = Empty
    BY NDPAssumption DEF Registers
  <2> QED
    BY <2>1 DEF CountersAgree
<1>3. HeldInOrder'
  BY DEF HeldInOrder
<1> QED
  BY <1>1, <1>2, <1>3 DEF NDPInv

(* A load without a spill: the registers move up by one. *)
LEMMA PushInv ==
  ASSUME NDPInv, NEW v \in Values, Top < MaxNofRegs, Len(pending) < MaxPending,
         Top' = Top + 1, fpu' = Loaded(fpu, v), pending' = Append(pending, v),
         UNCHANGED <<NofFTemps, MaxNofFTemps, temps, out, jumbled, skipped>>
  PROVE  NDPInv'
<1>1. st(fpu, MaxNofRegs - 1) = Empty
  BY InUse
<1>2. /\ fpu' \in FPU
      /\ \A i \in Registers : st(fpu', i) = IF i = 0 THEN v ELSE st(fpu, i - 1)
  BY <1>1, InUse, LoadRing
<1>3. /\ pending' \in Seq(Values) /\ Len(pending') = Len(pending) + 1
      /\ pending'[Len(pending) + 1] = v
      /\ \A i \in 1 .. Len(pending) : pending'[i] = pending[i]
  BY InUse, AppendSeq
<1>4. \A i \in Registers : /\ i < Top' => st(fpu', i) \in Values
                           /\ i >= Top' => st(fpu', i) = Empty
  <2>1. TAKE i \in Registers
  <2>2. CASE i = 0
    BY <1>2, <2>2, InUse
  <2>3. CASE i # 0
    <3>1. i - 1 \in Registers /\ (i < Top' <=> i - 1 < Top) /\ (i >= Top' <=> i - 1 >= Top)
      BY <2>3, InUse DEF Registers
    <3>2. st(fpu', i) = st(fpu, i - 1)
      BY <1>2, <2>3
    <3> QED
      BY <3>1, <3>2, InUse
  <2> QED
    BY <2>2, <2>3
<1>5. ASSUME ~jumbled PROVE InOrder'
  <2>1. ASSUME NEW k \in 0 .. NofFTemps - 1
        PROVE  temps[k] = pending'[k + 1]
    <3>1. k + 1 \in 1 .. Len(pending) /\ temps[k] = pending[k + 1]
      BY <1>5, InUse DEF NDPInv, HeldInOrder, InOrder
    <3> QED
      BY <1>3, <3>1
  <2>2. ASSUME NEW i \in 0 .. Top
        PROVE  st(fpu', i) = pending'[Len(pending) + 1 - i]
    <3>1. CASE i = 0
      BY <1>2, <1>3, <3>1, InUse
    <3>2. CASE i # 0
      <4>1. /\ i \in Registers /\ i - 1 \in 0 .. Top - 1
            /\ Len(pending) - (i - 1) \in 1 .. Len(pending)
            /\ Len(pending) + 1 - i = Len(pending) - (i - 1)
        BY <3>2, InUse DEF Registers
      <4>2. st(fpu, i - 1) = pending[Len(pending) - (i - 1)]
        BY <1>5, <4>1 DEF NDPInv, HeldInOrder, InOrder
      <4> QED
        BY <1>2, <1>3, <3>2, <4>1, <4>2
    <3> QED
      BY <3>1, <3>2
  <2>3. Top' - 1 = Top /\ Len(pending') = Len(pending) + 1 /\ Len(pending) \in Nat
    BY <1>3, InUse
  <2>4. \A k \in 0 .. NofFTemps' - 1 : temps'[k] = pending'[k + 1]
    BY <2>1
  <2>5. ASSUME NEW i \in 0 .. Top' - 1
        PROVE  st(fpu', i) = pending'[Len(pending') - i]
    <3>1. i \in 0 .. Top /\ Len(pending') - i = Len(pending) + 1 - i
      BY <2>3
    <3> QED
      BY <2>2, <3>1
  <2> QED
    BY <2>4, <2>5 DEF InOrder
<1>6. ~jumbled' => InOrder'
  BY <1>5
<1>7. Top' \in Nat /\ Top' <= MaxNofRegs /\ Len(pending') <= MaxPending
      /\ Len(pending') = Top' + NofFTemps'
  BY <1>3, InUse, InTemps
<1> QED
  BY <1>2, <1>3, <1>4, <1>6, <1>7, InTemps, InvAgain

(* A load with a spill: the bottom register goes to a temporary. *)
LEMMA SpillInv ==
  ASSUME NDPInv, NEW v \in Values, Top = MaxNofRegs, Len(pending) < MaxPending,
         temps' = [temps EXCEPT ![NofFTemps] = st(Spilling, 0)],
         UseTemps(NofFTemps + 1), fpu' = Loaded(Popped(Spilling), v),
         pending' = Append(pending, v), UNCHANGED <<Top, out, jumbled, skipped>>
  PROVE  NDPInv'
<1> DEFINE bottom == st(fpu, MaxNofRegs - 1)
<1>1. /\ Spilling \in FPU /\ st(Spilling, 0) = bottom
      /\ \A i \in Registers : i # 0 => st(Spilling, i) = st(fpu, i - 1)
  BY InUse, DecRing DEF Spilling
<1>2. /\ Popped(Spilling) \in FPU /\ st(Popped(Spilling), MaxNofRegs - 1) = Empty
      /\ \A i \in Registers : i # MaxNofRegs - 1 => st(Popped(Spilling), i) = st(Spilling, i + 1)
  BY <1>1, InUse, PopRing
<1>3. /\ fpu' \in FPU
      /\ \A i \in Registers :
           st(fpu', i) = IF i = 0 THEN v ELSE st(Popped(Spilling), i - 1)
  BY <1>2, LoadRing
<1>4. ASSUME NEW i \in Registers, i # 0
      PROVE  st(fpu', i) = st(fpu, i - 1)
  <2>1. i - 1 \in Registers /\ i - 1 # MaxNofRegs - 1 /\ (i - 1) + 1 = i
    BY <1>4, InUse DEF Registers
  <2> QED
    BY <1>1, <1>2, <1>3, <1>4, <2>1
<1>5. /\ pending' \in Seq(Values) /\ Len(pending') = Len(pending) + 1
      /\ pending'[Len(pending) + 1] = v
      /\ \A i \in 1 .. Len(pending) : pending'[i] = pending[i]
  BY InUse, AppendSeq
<1>6. /\ bottom \in Values /\ NofFTemps \in TempNos
      /\ NofFTemps + 1 <= MaxPending
      /\ temps' = [temps EXCEPT ![NofFTemps] = bottom]
  <2>1. bottom \in Values
    <3>1. MaxNofRegs - 1 < Top
      BY InUse
    <3> QED
      BY <3>1, InUse
  <2>2. NofFTemps + 1 <= MaxPending
    BY InUse, InTemps
  <2>3. NofFTemps \in TempNos
    BY <2>2, InUse, InTemps, NDPAssumption DEF TempNos
  <2> QED
    BY <1>1, <2>1, <2>2, <2>3
<1>7. /\ temps'[NofFTemps] = bottom
      /\ \A k \in TempNos : k # NofFTemps => temps'[k] = temps[k]
      /\ temps' \in [TempNos -> Cells]
  BY <1>6, InTemps DEF Cells
<1>8. /\ NofFTemps' = NofFTemps + 1 /\ MaxNofFTemps' \in Nat
      /\ NofFTemps' <= MaxNofFTemps' /\ MaxNofFTemps <= MaxNofFTemps'
      /\ MaxNofFTemps' <= MaxPending
  BY <1>6, InTemps DEF UseTemps
<1>9. \A i \in Registers : /\ i < Top' => st(fpu', i) \in Values
                           /\ i >= Top' => st(fpu', i) = Empty
  <2>1. ASSUME NEW i \in Registers
        PROVE  i < Top' /\ st(fpu', i) \in Values
    <3>1. CASE i = 0
      BY <1>3, <3>1, InUse
    <3>2. CASE i # 0
      <4>1. i - 1 \in Registers /\ i - 1 < Top /\ i < Top
        BY <3>2, InUse DEF Registers
      <4> QED
        BY <1>4, <3>2, <4>1, InUse
    <3> QED
      BY <3>1, <3>2, InUse DEF Registers
  <2> QED
    BY <2>1, InUse DEF Registers
<1>10. /\ \A k \in TempNos : temps'[k] # Empty => k < MaxNofFTemps'
       /\ \A k \in 0 .. NofFTemps' - 1 : temps'[k] \in Values
  BY <1>6, <1>7, <1>8, InTemps, NDPAssumption DEF TempNos
<1>11. ASSUME ~jumbled PROVE InOrder'
  <2>1. ASSUME NEW k \in 0 .. NofFTemps
        PROVE  temps'[k] = pending'[k + 1]
    <3>1. CASE k = NofFTemps
      <4>1. /\ MaxNofRegs - 1 \in 0 .. Top - 1
            /\ Len(pending) - (MaxNofRegs - 1) = k + 1 /\ k + 1 \in 1 .. Len(pending)
        BY <3>1, InUse
      <4>2. bottom = pending[k + 1]
        BY <1>11, <4>1 DEF NDPInv, HeldInOrder, InOrder
      <4> QED
        BY <1>5, <1>7, <3>1, <4>1, <4>2
    <3>2. CASE k # NofFTemps
      <4>1. k \in 0 .. NofFTemps - 1 /\ k \in TempNos /\ k + 1 \in 1 .. Len(pending)
        BY <3>2, InUse, InTemps
      <4>2. temps[k] = pending[k + 1]
        BY <1>11, <4>1 DEF NDPInv, HeldInOrder, InOrder
      <4> QED
        BY <1>5, <1>7, <3>2, <4>1, <4>2
    <3> QED
      BY <3>1, <3>2
  <2>2. ASSUME NEW i \in 0 .. Top - 1
        PROVE  st(fpu', i) = pending'[Len(pending) + 1 - i]
    <3>1. CASE i = 0
      BY <1>3, <1>5, <3>1, InUse
    <3>2. CASE i # 0
      <4>1. /\ i \in Registers /\ i - 1 \in 0 .. Top - 1
            /\ Len(pending) - (i - 1) \in 1 .. Len(pending)
            /\ Len(pending) + 1 - i = Len(pending) - (i - 1)
        BY <3>2, InUse DEF Registers
      <4>2. st(fpu, i - 1) = pending[Len(pending) - (i - 1)]
        BY <1>11, <4>1 DEF NDPInv, HeldInOrder, InOrder
      <4> QED
        BY <1>4, <1>5, <3>2, <4>1, <4>2
    <3> QED
      BY <3>1, <3>2
  <2>3. /\ NofFTemps' - 1 = NofFTemps /\ Top' = Top
        /\ Len(pending') = Len(pending) + 1
    BY <1>5, <1>8, InUse
  <2>4. \A k \in 0 .. NofFTemps' - 1 : temps'[k] = pending'[k + 1]
    BY <2>1, <2>3
  <2>5. \A i \in 0 .. Top' - 1 : st(fpu', i) = pending'[Len(pending') - i]
    <3>1. ASSUME NEW i \in 0 .. Top - 1
          PROVE  st(fpu', i) = pending'[Len(pending') - i]
      <4>1. Len(pending') - i = Len(pending) + 1 - i
        BY <2>3
      <4> QED
        BY <2>2, <4>1, Zenon
    <3>2. 0 .. Top' - 1 = 0 .. Top - 1
      BY <2>3
    <3> QED
      BY <3>1, <3>2
  <2> QED
    BY <2>4, <2>5 DEF InOrder
<1>12. ~jumbled' => InOrder'
  BY <1>11
<1>13. Top' \in Nat /\ Top' <= MaxNofRegs /\ Len(pending') <= MaxPending
       /\ Len(pending') = Top' + NofFTemps' /\ NofFTemps' \in Nat
  BY <1>5, <1>8, InUse, InTemps
<1>14. jumbled' \in BOOLEAN /\ skipped' = 0
  BY InTemps
<1>15. out' \in Seq(Cells) /\ Len(out') <= 2
  BY InTemps
<1>16. /\ \A i \in Registers : i < Top' => st(fpu', i) \in Values
       /\ \A i \in Registers : i >= Top' => st(fpu', i) = Empty
  BY <1>9
<1> QED
  BY <1>3, <1>5, <1>7, <1>8, <1>10, <1>12, <1>13, <1>14, <1>15, <1>16, InvAgain

(* The registers of f that stay in use, from st(first) up to the new Top,   *)
(* are those that were n places further down; the rest are free.            *)
Moved(f, first, n, top) ==
  \A i \in Registers : first <= i /\ i < top => i + n < Top /\ st(f, i) = st(fpu, i + n)
FreeFrom(f, top) == \A i \in Registers : i >= top => st(f, i) = Empty

(* n operands are used and nothing comes back: what is left keeps its place. *)
LEMMA DropInv ==
  ASSUME NDPInv, NEW n \in Nat \ {0}, n <= Len(pending), pending' = Older(n),
         NEW T \in Nat, T <= Top, NEW F \in Nat, F <= NofFTemps,
         Top' = T, NofFTemps' = F,
         T + F = Len(pending) - n,
         fpu' \in FPU, out' \in Seq(Cells), Len(out') <= 2,
         Moved(fpu', 0, n, T), FreeFrom(fpu', T),
         UNCHANGED <<MaxNofFTemps, temps, jumbled, skipped>>
  PROVE  NDPInv'
<1>0. /\ Top \in Nat /\ NofFTemps \in Nat /\ Len(pending) \in Nat /\ n \in Nat
      /\ Len(pending) = Top + NofFTemps /\ Top <= MaxNofRegs /\ MaxNofRegs \in Nat
      /\ pending \in Seq(Values)
  BY InUse
<1>1. /\ pending' \in Seq(Values) /\ Len(pending') = Len(pending) - n
      /\ \A i \in 1 .. Len(pending) - n : pending'[i] = pending[i]
  BY <1>0, OlderSeq
<1>2. /\ T \in Nat /\ F \in Nat /\ T <= MaxNofRegs
      /\ F <= MaxNofFTemps' /\ MaxNofFTemps' \in Nat /\ MaxNofFTemps' <= MaxPending
      /\ Len(pending') <= MaxPending /\ Len(pending') = T + F
  BY <1>0, <1>1, InTemps
<1>3. ASSUME NEW i \in Registers, i < T
      PROVE  st(fpu', i) \in Values
  <2>1. 0 <= i /\ i \in Nat
    BY <1>0 DEF Registers
  <2>2. i + n < Top /\ st(fpu', i) = st(fpu, i + n)
    BY <1>3, <2>1 DEF Moved
  <2>3. i + n \in Registers
    BY <1>0, <2>1, <2>2 DEF Registers
  <2> QED
    BY <2>2, <2>3, InUse
<1>4. \A k \in 0 .. F - 1 : k \in 0 .. NofFTemps - 1
  BY <1>0
<1>5. ASSUME ~jumbled PROVE InOrder'
  <2>1. ASSUME NEW k \in 0 .. F - 1
        PROVE  temps'[k] = pending'[k + 1]
    <3>1. k + 1 \in 1 .. Len(pending) - n
      BY <1>0, <1>2
    <3>2. temps[k] = pending[k + 1]
      BY <1>4, <1>5 DEF NDPInv, HeldInOrder, InOrder
    <3> QED
      BY <1>1, <3>1, <3>2
  <2>2. ASSUME NEW i \in 0 .. T - 1
        PROVE  st(fpu', i) = pending'[Len(pending') - i]
    <3>1. /\ i \in Registers /\ i < T
      BY <1>0, <1>2 DEF Registers
    <3>2. /\ i + n \in 0 .. Top - 1 /\ st(fpu', i) = st(fpu, i + n)
      BY <1>0, <3>1 DEF Moved, Registers
    <3>3. /\ Len(pending') - i \in 1 .. Len(pending) - n
          /\ Len(pending') - i = Len(pending) - (i + n)
      BY <1>0, <1>1, <1>2
    <3>4. st(fpu, i + n) = pending[Len(pending) - (i + n)]
      BY <1>5, <3>2 DEF NDPInv, HeldInOrder, InOrder
    <3> QED
      BY <1>1, <3>2, <3>3, <3>4
  <2> QED
    BY <2>1, <2>2 DEF InOrder
<1>6. ~jumbled' => InOrder'
  BY <1>5
<1>7. jumbled' \in BOOLEAN /\ skipped' = 0
  BY InTemps
<1>8. /\ \A k \in TempNos : temps'[k] # Empty => k < MaxNofFTemps'
      /\ \A k \in 0 .. F - 1 : temps'[k] \in Values
      /\ temps' \in [TempNos -> Cells]
  BY <1>4, InTemps
<1>9. \A i \in Registers : i < T => st(fpu', i) \in Values
  BY <1>3
<1>10. \A i \in Registers : i >= T => st(fpu', i) = Empty
  BY DEF FreeFrom
<1> QED
  BY <1>1, <1>2, <1>6, <1>7, <1>8, <1>9, <1>10, InvAgain

(* n operands are used and st(0) holds what was made of them. *)
LEMMA ResultInv ==
  ASSUME NDPInv, NEW n \in Nat \ {0}, n <= Len(pending),
         NEW val \in Values, NEW meant \in Values, ~jumbled => val = meant,
         NEW g \in FPU, fpu' = Set(g, 0, val), pending' = Append(Older(n), meant),
         NEW T \in Nat \ {0}, T <= Top, NEW F \in Nat, F <= NofFTemps,
         Top' = T, NofFTemps' = F,
         T + F = Len(pending) - n + 1,
         Moved(g, 1, n - 1, T), FreeFrom(g, T),
         UNCHANGED <<MaxNofFTemps, temps, out, jumbled, skipped>>
  PROVE  NDPInv'
<1>a. /\ Top \in Nat /\ NofFTemps \in Nat /\ Len(pending) \in Nat /\ n \in Nat
      /\ Len(pending) = Top + NofFTemps /\ Top <= MaxNofRegs /\ MaxNofRegs \in Nat \ {0}
      /\ pending \in Seq(Values)
  BY InUse
<1>0. /\ Older(n) \in Seq(Values) /\ Len(Older(n)) = Len(pending) - n
      /\ \A i \in 1 .. Len(pending) - n : Older(n)[i] = pending[i]
  BY <1>a, OlderSeq
<1>1. /\ pending' \in Seq(Values) /\ Len(pending') = Len(pending) - n + 1
      /\ pending'[Len(pending) - n + 1] = meant
      /\ \A i \in 1 .. Len(pending) - n : pending'[i] = pending[i]
  BY <1>a, <1>0, AppendSeq
<1>2. /\ T \in Nat /\ F \in Nat /\ T <= MaxNofRegs
      /\ F <= MaxNofFTemps' /\ MaxNofFTemps' \in Nat /\ MaxNofFTemps' <= MaxPending
      /\ Len(pending') <= MaxPending /\ Len(pending') = T + F
  <2>1. T \in Nat /\ F \in Nat /\ T <= MaxNofRegs
    BY <1>a
  <2>2. F <= MaxNofFTemps' /\ MaxNofFTemps' \in Nat /\ MaxNofFTemps' <= MaxPending
    BY <1>a, InTemps
  <2>3. Len(pending') = T + F /\ Len(pending') <= Len(pending)
    BY <1>a, <1>1
  <2>4. Len(pending') <= MaxPending
    BY <1>a, <2>1, <2>3, InTemps
  <2> QED
    BY <2>1, <2>2, <2>3, <2>4
<1>3. /\ fpu' \in FPU
      /\ \A i \in Registers : st(fpu', i) = IF i = 0 THEN val ELSE st(g, i)
  <2>1. 0 \in Registers /\ val \in Cells
    BY <1>a DEF Registers, Cells
  <2> QED
    BY <2>1, SetRing
<1>4. ASSUME NEW i \in Registers, 0 < i, i < T
      PROVE  /\ i + n - 1 \in Registers /\ i + n - 1 \in 0 .. Top - 1
             /\ st(fpu', i) = st(fpu, i + n - 1)
  <2>1. i + (n - 1) < Top /\ st(g, i) = st(fpu, i + (n - 1)) /\ i + (n - 1) = i + n - 1
    BY <1>a, <1>4 DEF Moved, Registers
  <2>2. st(fpu', i) = st(g, i)
    BY <1>3, <1>4
  <2>3. i + n - 1 \in Nat
    BY <1>a, <1>4 DEF Registers
  <2> QED
    BY <1>a, <2>1, <2>2, <2>3 DEF Registers
<1>5. \A i \in Registers : i < T => st(fpu', i) \in Values
  <2>1. ASSUME NEW i \in Registers, i < T
        PROVE  st(fpu', i) \in Values
    <3>1. CASE i = 0
      BY <1>3, <3>1
    <3>2. CASE i # 0
      <4>1. 0 < i
        BY <1>a, <3>2 DEF Registers
      <4> QED
        BY <1>4, <2>1, <4>1, InUse
    <3> QED
      BY <3>1, <3>2
  <2> QED
    BY <2>1
<1>6. \A i \in Registers : i >= T => st(fpu', i) = Empty
  <2>1. ASSUME NEW i \in Registers, i >= T
        PROVE  st(fpu', i) = Empty
    <3>1. i # 0
      BY <1>2, <2>1
    <3> QED
      BY <1>3, <2>1, <3>1 DEF FreeFrom
  <2> QED
    BY <2>1
<1>7. \A k \in 0 .. F - 1 : k \in 0 .. NofFTemps - 1
  BY <1>a
<1>8. ASSUME ~jumbled PROVE InOrder'
  <2>1. ASSUME NEW k \in 0 .. F - 1
        PROVE  temps'[k] = pending'[k + 1]
    <3>1. k + 1 \in 1 .. Len(pending) - n
      BY <1>a, <1>2
    <3>2. temps[k] = pending[k + 1]
      BY <1>7, <1>8 DEF NDPInv, HeldInOrder, InOrder
    <3> QED
      BY <1>1, <3>1, <3>2
  <2>2. ASSUME NEW i \in 0 .. T - 1
        PROVE  st(fpu', i) = pending'[Len(pending') - i]
    <3>1. CASE i = 0
      <4>1. Len(pending') - i = Len(pending) - n + 1
        BY <1>a, <1>1, <3>1
      <4>2. st(fpu', i) = val
        BY <1>3, <3>1, InUse
      <4> QED
        BY <1>1, <1>8, <4>1, <4>2
    <3>2. CASE i # 0
      <4>1. i \in Registers /\ 0 < i /\ i < T
        BY <1>a, <1>2, <3>2 DEF Registers
      <4>2. /\ i + n - 1 \in 0 .. Top - 1 /\ st(fpu', i) = st(fpu, i + n - 1)
        BY <1>4, <4>1
      <4>3. i \in Nat /\ i <= F + T - 1
        BY <1>a, <1>2, <4>1 DEF Registers
      <4>4. Len(pending') - i = Len(pending) - (i + n - 1)
        BY <1>a, <1>1, <4>3
      <4>5. Len(pending') - i \in 1 .. Len(pending) - n
        BY <1>a, <1>1, <1>2, <4>1, <4>3, SMTT(30)
      <4>6. st(fpu, i + n - 1) = pending[Len(pending) - (i + n - 1)]
        BY <1>8, <4>2 DEF NDPInv, HeldInOrder, InOrder
      <4> QED
        BY <1>1, <4>2, <4>4, <4>5, <4>6
    <3> QED
      BY <3>1, <3>2
  <2> QED
    BY <2>1, <2>2 DEF InOrder
<1>9. ~jumbled' => InOrder'
  BY <1>8
<1>10. jumbled' \in BOOLEAN /\ skipped' = 0
  BY InTemps
<1>11. /\ \A k \in TempNos : temps'[k] # Empty => k < MaxNofFTemps'
       /\ \A k \in 0 .. F - 1 : temps'[k] \in Values
       /\ temps' \in [TempNos -> Cells] /\ out' \in Seq(Cells) /\ Len(out') <= 2
  BY <1>7, InTemps
<1> QED
  BY <1>1, <1>2, <1>3, <1>5, <1>6, <1>9, <1>10, <1>11, InvAgain

-----------------------------------------------------------------------------
(* The operands an instruction finds are values, and the right ones while  *)
(* the order holds.                                                        *)
LEMMA Operands ==
  ASSUME NDPInv, Top > 0
  PROVE  /\ 0 \in 0 .. Top - 1 /\ Len(pending) >= 1
         /\ st(fpu, 0) \in Values /\ Last(pending) \in Values
         /\ ~jumbled => st(fpu, 0) = Last(pending)
         /\ TwoOperands => /\ Second \in Values /\ pending[Len(pending) - 1] \in Values
                           /\ ~jumbled => Second = pending[Len(pending) - 1]
<1>1. 0 \in 0 .. Top - 1 /\ Len(pending) >= 1 /\ Len(pending) \in 1 .. Len(pending)
  BY InUse
<1>2. st(fpu, 0) \in Values /\ Last(pending) \in Values
  BY <1>1, InUse DEF Last
<1>3. ASSUME ~jumbled PROVE st(fpu, 0) = Last(pending)
  <2>1. st(fpu, 0) = pending[Len(pending) - 0] /\ Len(pending) - 0 = Len(pending)
    BY <1>1, <1>3, InUse DEF NDPInv, HeldInOrder, InOrder
  <2> QED
    BY <2>1 DEF Last
<1>4. ASSUME TwoOperands
      PROVE  /\ Second \in Values /\ pending[Len(pending) - 1] \in Values
             /\ ~jumbled => Second = pending[Len(pending) - 1]
  <2>1. Len(pending) - 1 \in 1 .. Len(pending)
    BY <1>4, InUse DEF TwoOperands
  <2>2. CASE Top = 1
    <3>1. NofFTemps - 1 \in 0 .. NofFTemps - 1 /\ NofFTemps - 1 + 1 = Len(pending) - 1
      BY <1>4, <2>2, InUse DEF TwoOperands, FromTemp
    <3>2. Second = temps[NofFTemps - 1]
      BY <2>2 DEF Second, FromTemp
    <3>3. Second \in Values /\ pending[Len(pending) - 1] \in Values
      BY <2>1, <3>1, <3>2, InUse, InTemps
    <3>4. ASSUME ~jumbled PROVE Second = pending[Len(pending) - 1]
      BY <3>1, <3>2, <3>4 DEF NDPInv, HeldInOrder, InOrder
    <3> QED
      BY <3>3, <3>4
  <2>3. CASE Top # 1
    <3>1. 1 \in 0 .. Top - 1 /\ 1 \in Registers /\ 1 < Top
      BY <2>3, InUse DEF Registers
    <3>2. Second = st(fpu, 1)
      BY <2>3 DEF Second, FromTemp
    <3>3. Second \in Values /\ pending[Len(pending) - 1] \in Values
      BY <2>1, <3>1, <3>2, InUse
    <3>4. ASSUME ~jumbled PROVE Second = pending[Len(pending) - 1]
      BY <3>1, <3>2, <3>4 DEF NDPInv, HeldInOrder, InOrder
    <3> QED
      BY <3>3, <3>4
  <2> QED
    BY <2>2, <2>3
<1> QED
  BY <1>1, <1>2, <1>3, <1>4

(* fchs, and dyadic instructions with a memory operand. *)
LEMMA ReplaceInv ==
  ASSUME NDPInv, NEW val \in Values, NEW meant \in Values, ~jumbled => val = meant,
         Replace(val, meant)
  PROVE  NDPInv'
<1>1. /\ Top > 0 /\ fpu' = Set(fpu, 0, val) /\ pending' = Append(Older(1), meant)
      /\ Top' = Top /\ NofFTemps' = NofFTemps
      /\ UNCHANGED <<MaxNofFTemps, temps, out, jumbled, skipped>>
  BY DEF Replace, compiler
<1>2. /\ 1 <= Len(pending) /\ Top \in Nat \ {0} /\ Top <= Top /\ NofFTemps \in Nat
      /\ NofFTemps <= NofFTemps /\ Top + NofFTemps = Len(pending) - 1 + 1 /\ fpu \in FPU
  BY <1>1, InUse
<1>3. Moved(fpu, 1, 1 - 1, Top) /\ FreeFrom(fpu, Top)
  BY InUse DEF Moved, FreeFrom, Registers
<1>4. 1 \in Nat \ {0}
  OBVIOUS
<1> QED
  BY <1>1, <1>2, <1>3, <1>4, ResultInv, Zenon

(* fstp, and comparisons with a memory operand. *)
LEMMA PopInv ==
  ASSUME NDPInv, NEW val \in Seq(Cells), Len(val) <= 2, Pop(val)
  PROVE  NDPInv'
<1>1. /\ Top > 0 /\ fpu' = Popped(fpu) /\ pending' = Older(1) /\ out' = val
      /\ Top' = Top - 1 /\ NofFTemps' = NofFTemps
      /\ UNCHANGED <<MaxNofFTemps, temps, jumbled, skipped>>
  BY DEF Pop
<1>2. /\ 1 <= Len(pending) /\ Top - 1 \in Nat /\ Top - 1 <= Top /\ NofFTemps \in Nat
      /\ NofFTemps <= NofFTemps /\ Top - 1 + NofFTemps = Len(pending) - 1
  <2>1. Top \in Nat /\ NofFTemps \in Nat /\ Len(pending) = Top + NofFTemps
    BY InUse
  <2> QED
    BY <1>1, <2>1
<1>3. /\ fpu' \in FPU
      /\ \A i \in Registers :
           st(fpu', i) = IF i = MaxNofRegs - 1 THEN Empty ELSE st(fpu, i + 1)
  BY <1>1, InUse, PopRing
<1>4. Moved(fpu', 0, 1, Top - 1)
  BY <1>3, InUse DEF Moved, Registers
<1>5. FreeFrom(fpu', Top - 1)
  BY <1>3, InUse, SMTT(30) DEF FreeFrom, Registers
<1> QED
  BY <1>1, <1>2, <1>3, <1>4, <1>5, DropInv

(* faddp and its like, and fadd with the last temporary. *)
LEMMA DyadicInv ==
  ASSUME NDPInv, Dyadic
  PROVE  NDPInv'
<1> DEFINE val == With(Second, st(fpu, 0))
           meant == Combined(pending[Len(pending) - 1], Last(pending))
           T == IF FromTemp THEN 1 ELSE Top - 1
           F == IF FromTemp THEN NofFTemps - 1 ELSE NofFTemps
           g == IF FromTemp THEN fpu ELSE Popped(fpu)
<1>1. /\ Top > 0 /\ 2 <= Len(pending) /\ fpu' = Set(g, 0, val)
      /\ pending' = Append(Older(2), meant)
      /\ UNCHANGED <<MaxNofFTemps, temps, out, jumbled, skipped>>
  BY InUse DEF Dyadic, TwoOperands
<1>2. val \in Values /\ meant \in Values /\ (~jumbled => val = meant)
  BY <1>1, Operands, NDPAssumption DEF Dyadic, With
<1>3. /\ Top' = T /\ NofFTemps' = F /\ T \in Nat \ {0} /\ T <= Top
      /\ F \in Nat /\ F <= NofFTemps /\ T + F = Len(pending) - 2 + 1
  <2>1. Top \in Nat /\ NofFTemps \in Nat /\ Len(pending) = Top + NofFTemps
    BY InUse
  <2>2. TwoOperands /\ Count(1)
    BY DEF Dyadic
  <2> QED
    BY <2>1, <2>2 DEF TwoOperands, Count, FromTemp
<1>4. /\ Popped(fpu) \in FPU
      /\ \A i \in Registers :
           st(Popped(fpu), i) = IF i = MaxNofRegs - 1 THEN Empty ELSE st(fpu, i + 1)
  BY InUse, PopRing
<1>5. g \in FPU
  BY <1>4, InUse
<1>6. Moved(g, 1, 2 - 1, T)
  BY <1>4, InUse DEF Moved, FromTemp, Registers
<1>7. FreeFrom(g, T)
  BY <1>4, InUse DEF FreeFrom, FromTemp, Registers
<1> HIDE DEF val, meant, T, F, g
<1>8. 2 \in Nat \ {0}
  OBVIOUS
<1> QED
  BY <1>1, <1>2, <1>3, <1>5, <1>6, <1>7, <1>8, ResultInv, ZenonT(30)

(* fcompp, and fcomp with the last temporary. *)
LEMMA CompareInv ==
  ASSUME NDPInv, Compare
  PROVE  NDPInv'
<1> DEFINE T == IF FromTemp THEN 0 ELSE Top - 2
           F == IF FromTemp THEN NofFTemps - 1 ELSE NofFTemps
<1>1. /\ Top > 0 /\ TwoOperands /\ 2 <= Len(pending) /\ pending' = Older(2)
      /\ UNCHANGED <<MaxNofFTemps, temps, jumbled, skipped>>
  BY InUse DEF Compare, TwoOperands
<1>2. out' \in Seq(Cells) /\ Len(out') <= 2
  <2>1. Second \in Cells /\ st(fpu, 0) \in Cells /\ out' = <<Second, st(fpu, 0)>>
    BY <1>1, Operands DEF Compare, Cells
  <2> QED
    BY <2>1
<1>3. /\ Top' = T /\ NofFTemps' = F /\ T \in Nat /\ T <= Top
      /\ F \in Nat /\ F <= NofFTemps /\ T + F = Len(pending) - 2
  BY InUse DEF Compare, TwoOperands, Count, FromTemp
<1>4. /\ Popped(fpu) \in FPU
      /\ \A i \in Registers :
           st(Popped(fpu), i) = IF i = MaxNofRegs - 1 THEN Empty ELSE st(fpu, i + 1)
  BY InUse, PopRing
<1>5. /\ Popped(Popped(fpu)) \in FPU
      /\ \A i \in Registers :
           st(Popped(Popped(fpu)), i)
             = IF i = MaxNofRegs - 1 THEN Empty ELSE st(Popped(fpu), i + 1)
  BY <1>4, PopRing
<1>6. CASE FromTemp
  <2>1. fpu' = Popped(fpu) /\ Top = 1
    BY <1>6 DEF Compare, FromTemp
  <2>2. Moved(fpu', 0, 2, T)
    BY <1>6, InUse DEF Moved, Registers
  <2>3. FreeFrom(fpu', T)
    BY <1>4, <1>6, <2>1, InUse DEF FreeFrom, Registers
  <2> HIDE DEF T, F
  <2> QED
    BY <1>1, <1>2, <1>3, <1>4, <2>1, <2>2, <2>3, DropInv
<1>7. CASE ~FromTemp
  <2>1. fpu' = Popped(Popped(fpu)) /\ Top > 1 /\ T = Top - 2
    BY <1>1, <1>7, InUse DEF Compare, FromTemp
  <2>2. ASSUME NEW i \in Registers, i < T
        PROVE  i + 2 < Top /\ st(fpu', i) = st(fpu, i + 2)
    <3>1. /\ i + 2 < Top /\ i + 1 \in Registers /\ i # MaxNofRegs - 1
          /\ i + 1 # MaxNofRegs - 1 /\ i + 1 + 1 = i + 2
      BY <2>1, <2>2, InUse DEF Registers
    <3> QED
      BY <1>4, <1>5, <2>1, <3>1
  <2>3. ASSUME NEW i \in Registers, i >= T
        PROVE  st(fpu', i) = Empty
    <3>1. CASE i = MaxNofRegs - 1
      BY <1>5, <2>1, <3>1
    <3>2. CASE i # MaxNofRegs - 1
      <4>1. i + 1 \in Registers /\ i + 1 + 1 >= Top
        BY <2>1, <2>3, <3>2, InUse DEF Registers
      <4>2. i + 1 # MaxNofRegs - 1 => i + 1 + 1 \in Registers
        BY <4>1, InUse DEF Registers
      <4> QED
        BY <1>4, <1>5, <2>1, <3>2, <4>1, <4>2, InUse
    <3> QED
      BY <3>1, <3>2
  <2>4. Moved(fpu', 0, 2, T) /\ FreeFrom(fpu', T)
    BY <2>2, <2>3 DEF Moved, FreeFrom
  <2> HIDE DEF T, F
  <2> QED
    BY <1>1, <1>2, <1>3, <1>5, <2>1, <2>4, DropInv
<1> QED
  BY <1>6, <1>7

(* Save leaves every register free, and a temporary for each that was not. *)
LEMMA FreedRing ==
  ASSUME NDPInv
  PROVE  Freed \in FPU /\ \A i \in Registers : st(Freed, i) = Empty
<1>1. Register(fpu, Top) \in Registers
  BY InUse, NDPAssumption DEF FPU, Register, Wrapped, Registers
<1>2. ASSUME NEW r \in Registers
      PROVE  Freed.regs[r] = Empty
  <2>1. \E i \in Registers : Register(fpu, i) = r
    <3> DEFINE i == IF r >= fpu.tos THEN r - fpu.tos ELSE r - fpu.tos + MaxNofRegs
    <3>1. i \in Registers /\ Register(fpu, i) = r
      <4>1. fpu.tos \in Registers /\ MaxNofRegs \in Nat \ {0}
        BY InUse DEF FPU
      <4> QED
        BY <1>2, <4>1 DEF Register, Wrapped, Registers
    <3> QED
      BY <3>1
  <2>2. PICK i \in Registers : Register(fpu, i) = r
    BY <2>1
  <2>3. CASE i < Top
    <3>1. i \in 0 .. Top - 1
      BY <2>3, InUse DEF Registers
    <3> QED
      BY <2>2, <3>1 DEF Freed
  <2>4. CASE i >= Top
    <3>1. fpu.regs[r] = Empty
      BY <2>2, <2>4, InUse DEF st
    <3> QED
      BY <3>1 DEF Freed
  <2> QED
    BY <2>3, <2>4, InUse DEF Registers
<1>3. Freed.tos = Register(fpu, Top) /\ Freed = [tos |-> Freed.tos, regs |-> Freed.regs]
      /\ Freed.regs = [r \in Registers |-> Freed.regs[r]]
  BY DEF Freed
<1>4. Freed \in FPU
  BY <1>1, <1>2, <1>3 DEF FPU, Cells
<1> QED
  BY <1>2, <1>4, Ring DEF st

(* A call: Save, and the result in st(0). *)
LEMMA CallInv ==
  ASSUME NDPInv, NEW hasResult \in BOOLEAN, NEW v \in Values, Call(hasResult, v)
  PROVE  NDPInv'
<1> DEFINE F == NofFTemps + Top
<1>1. /\ Len(pending) < MaxPending /\ jumbled' = (jumbled \/ Top > 1) /\ temps' = Saved
      /\ UseTemps(F) /\ out' = out
  BY DEF Call
<1>2. /\ F \in Nat /\ F = Len(pending) /\ NofFTemps <= F /\ F < MaxPending
      /\ Top \in Nat /\ NofFTemps \in Nat /\ Top <= MaxNofRegs
  BY <1>1, InUse, InTemps
<1>3. /\ NofFTemps' = F /\ MaxNofFTemps' \in Nat /\ F <= MaxNofFTemps'
      /\ MaxNofFTemps <= MaxNofFTemps' /\ MaxNofFTemps' <= MaxPending
  <2>1. NofFTemps' = F /\ MaxNofFTemps' = IF F > MaxNofFTemps THEN F ELSE MaxNofFTemps
    BY <1>1 DEF UseTemps
  <2> HIDE DEF F
  <2> QED
    BY <1>2, <2>1, InTemps
<1>4. ASSUME NEW k \in TempNos, k \in NofFTemps .. NofFTemps + Top - 1
      PROVE  /\ k - NofFTemps \in 0 .. Top - 1 /\ temps'[k] = st(fpu, k - NofFTemps)
             /\ temps'[k] \in Values
  <2>1. k - NofFTemps \in 0 .. Top - 1
    BY <1>2, <1>4
  <2>2. k \in NofFTemps .. NofFTemps + Top - 1
    BY <1>2, <1>4
  <2>3. temps'[k] = st(fpu, k - NofFTemps)
    BY <1>1, <2>2 DEF Saved
  <2>4. k - NofFTemps \in Registers /\ k - NofFTemps < Top
    BY <1>2, <2>1, InUse
  <2> QED
    BY <2>1, <2>3, <2>4, InUse
<1>5. ASSUME NEW k \in TempNos, k \notin NofFTemps .. NofFTemps + Top - 1
      PROVE  temps'[k] = temps[k]
  BY <1>1, <1>5 DEF Saved
<1>6. temps' \in [TempNos -> Cells]
  <2>1. \A k \in TempNos : temps'[k] \in Cells
    BY <1>4, <1>5, InTemps DEF Cells
  <2> QED
    BY <1>1, <2>1 DEF Saved
<1>7. \A k \in TempNos : temps'[k] # Empty => k < MaxNofFTemps'
  <2>1. ASSUME NEW k \in TempNos, temps'[k] # Empty
        PROVE  k < MaxNofFTemps'
    <3>0. k \in Nat
      BY InTemps DEF TempNos
    <3>1. CASE k \in NofFTemps .. NofFTemps + Top - 1
      BY <1>2, <1>3, <3>1
    <3>2. CASE k \notin NofFTemps .. NofFTemps + Top - 1
      <4>1. k < MaxNofFTemps
        BY <1>5, <2>1, <3>2, InTemps
      <4> QED
        BY <1>3, <3>0, <4>1, InTemps
    <3> QED
      BY <3>1, <3>2
  <2> QED
    BY <2>1
<1>8. ASSUME NEW k \in 0 .. F - 1
      PROVE  /\ k \in TempNos /\ temps'[k] \in Values
             /\ ~jumbled' => temps'[k] = pending[k + 1]
  <2>1. k \in TempNos
    BY <1>2, InTemps, NDPAssumption DEF TempNos
  <2>2. CASE k \in NofFTemps .. NofFTemps + Top - 1
    <3>1. ASSUME ~jumbled'
          PROVE  temps'[k] = pending[k + 1]
      <4>1. Top <= 1 /\ ~jumbled
        <5>1. ~(jumbled \/ Top > 1)
          BY <1>1, <3>1, Zenon
        <5>2. ~(Top > 1) /\ ~jumbled
          BY <5>1, Zenon
        <5> QED
          BY <1>2, <5>2
      <4>2. Top = 1 /\ k = NofFTemps /\ k - NofFTemps = 0 /\ 0 \in 0 .. Top - 1
            /\ Len(pending) - 0 = k + 1
        BY <1>2, <2>2, <4>1
      <4>3. st(fpu, 0) = pending[Len(pending) - 0]
        BY <4>1, <4>2 DEF NDPInv, HeldInOrder, InOrder
      <4> QED
        BY <1>4, <2>1, <2>2, <4>2, <4>3
    <3> QED
      BY <1>4, <2>1, <2>2, <3>1
  <2>3. CASE k \notin NofFTemps .. NofFTemps + Top - 1
    <3>1. k \in 0 .. NofFTemps - 1
      BY <1>2, <2>3
    <3>2. temps'[k] \in Values
      BY <1>5, <2>1, <2>3, <3>1, InTemps
    <3>3. ASSUME ~jumbled'
          PROVE  temps'[k] = pending[k + 1]
      <4>1. ~jumbled
        BY <1>1, <3>3
      <4>2. temps[k] = pending[k + 1]
        BY <3>1, <4>1 DEF NDPInv, HeldInOrder, InOrder
      <4> QED
        BY <1>5, <2>1, <2>3, <4>2
    <3> QED
      BY <2>1, <3>2, <3>3
  <2> QED
    BY <2>2, <2>3
<1>9. jumbled' \in BOOLEAN /\ out' \in Seq(Cells) /\ Len(out') <= 2 /\ skipped' = 0
  <2>1. jumbled' \in BOOLEAN
    BY <1>1
  <2>2. skipped' = skipped
    BY DEF Call
  <2> QED
    BY <1>1, <2>1, <2>2, InTemps
<1> HIDE DEF F
<1>10. CASE hasResult
  <2>1. Top' = 1 /\ fpu' = Loaded(Freed, v) /\ pending' = Append(pending, v)
    BY <1>10 DEF Call
  <2>2. /\ fpu' \in FPU
        /\ \A i \in Registers :
             st(fpu', i) = IF i = 0 THEN v ELSE st(Freed, i - 1)
    BY <2>1, FreedRing, LoadRing, InUse
  <2>3. ASSUME NEW i \in Registers
        PROVE  (i < Top' => st(fpu', i) \in Values) /\ (i >= Top' => st(fpu', i) = Empty)
    <3>1. CASE i = 0
      BY <2>1, <2>2, <3>1
    <3>2. CASE i # 0
      <4>1. i - 1 \in Registers /\ ~(i < 1)
        BY <3>2, InUse DEF Registers
      <4> QED
        BY <2>1, <2>2, <3>2, <4>1, FreedRing
    <3> QED
      BY <3>1, <3>2
  <2>4. /\ pending' \in Seq(Values) /\ Len(pending') = Len(pending) + 1
        /\ pending'[Len(pending) + 1] = v
        /\ \A i \in 1 .. Len(pending) : pending'[i] = pending[i]
    BY <2>1, InUse, AppendSeq
  <2>5. ASSUME ~jumbled' PROVE InOrder'
    <3>1. ASSUME NEW k \in 0 .. F - 1
          PROVE  temps'[k] = pending'[k + 1]
      <4>1. k + 1 \in 1 .. Len(pending)
        BY <1>2
      <4> QED
        BY <1>8, <2>4, <2>5, <4>1
    <3>2. ASSUME NEW i \in 0 .. 0
          PROVE  st(fpu', i) = pending'[Len(pending') - i]
      <4>1. i = 0 /\ i \in Registers /\ Len(pending') - i = Len(pending) + 1
        BY <2>4, InUse
      <4> QED
        BY <2>2, <2>4, <4>1
    <3>3. Top' - 1 = 0
      BY <2>1
    <3> QED
      BY <1>3, <3>1, <3>2, <3>3 DEF InOrder
  <2>6. /\ Top' \in Nat /\ Top' <= MaxNofRegs /\ Len(pending') <= MaxPending
        /\ Len(pending') = Top' + NofFTemps'
    <3>1. Top' \in Nat /\ Top' <= MaxNofRegs
      BY <2>1, InUse
    <3>2. Len(pending') = Top' + NofFTemps'
      BY <1>2, <1>3, <2>1, <2>4
    <3>3. Len(pending') <= MaxPending
      BY <1>1, <1>2, <2>4, InTemps
    <3> QED
      BY <3>1, <3>2, <3>3
  <2>7. \A k \in 0 .. NofFTemps' - 1 : temps'[k] \in Values
    BY <1>3, <1>8
  <2>8. NofFTemps' \in Nat /\ NofFTemps' <= MaxNofFTemps'
    BY <1>2, <1>3
  <2>9. ~jumbled' => InOrder'
    BY <2>5
  <2> QED
    BY <1>3, <1>6, <1>7, <1>9, <2>2, <2>3, <2>4, <2>6, <2>7, <2>8, <2>9, InvAgain
<1>11. CASE ~hasResult
  <2>1. Top' = 0 /\ fpu' = Freed /\ pending' = pending
    BY <1>11 DEF Call
  <2>2. ASSUME NEW i \in Registers
        PROVE  (i < Top' => st(fpu', i) \in Values) /\ (i >= Top' => st(fpu', i) = Empty)
    BY <2>1, FreedRing DEF Registers
  <2>3. ASSUME ~jumbled' PROVE InOrder'
    <3>1. \A k \in 0 .. F - 1 : temps'[k] = pending'[k + 1]
      BY <1>8, <2>1, <2>3
    <3>2. 0 .. Top' - 1 = {}
      BY <2>1
    <3> QED
      BY <1>3, <3>1, <3>2 DEF InOrder
  <2>4. /\ Top' \in Nat /\ Top' <= MaxNofRegs /\ Len(pending') <= MaxPending
        /\ Len(pending') = Top' + NofFTemps'
    BY <1>2, <1>3, <2>1, InUse, InTemps
  <2>5. \A k \in 0 .. NofFTemps' - 1 : temps'[k] \in Values
    BY <1>3, <1>8
  <2>6. NofFTemps' \in Nat /\ NofFTemps' <= MaxNofFTemps' /\ fpu' \in FPU
        /\ pending' \in Seq(Values)
    BY <1>2, <1>3, <2>1, InUse, FreedRing
  <2>7. ~jumbled' => InOrder'
    BY <2>3
  <2> QED
    BY <1>3, <1>6, <1>7, <1>9, <2>2, <2>4, <2>5, <2>6, <2>7, InvAgain
<1> QED
  BY <1>10, <1>11

-----------------------------------------------------------------------------
(* The invariant holds at the start and is kept by every instruction. *)
LEMMA InvStart == Init => Inv
<1> SUFFICES ASSUME Init PROVE Inv
  OBVIOUS
<1>1. NDPTypeOK
  <2>1. /\ 0 \in Registers /\ Empty \in Cells /\ 0 \in 0 .. MaxNofRegs
        /\ 0 \in 0 .. MaxPending + MaxSkipped /\ 0 \in 0 .. MaxSkipped /\ 0 <= MaxPending
    BY NDPAssumption DEF Registers, Cells
  <2>2. fpu \in [tos : Registers, regs : [Registers -> Cells]] /\ temps \in [TempNos -> Cells]
    BY <2>1 DEF Init
  <2>3. /\ pending \in Seq(Values) /\ Len(pending) = 0
        /\ out \in Seq(Cells) /\ Len(out) = 0
    BY DEF Init
  <2>4. jumbled \in BOOLEAN
    BY DEF Init
  <2> QED
    BY <2>1, <2>2, <2>3, <2>4 DEF Init, NDPTypeOK
<1>2. CountersAgree
  BY NDPAssumption DEF Init, CountersAgree, Registers, TempNos, st, Register, Wrapped
<1>3. HeldInOrder
  BY DEF Init, HeldInOrder, InOrder
<1> QED
  BY <1>1, <1>2, <1>3, NDPAssumption DEF Inv, Counted, NDPInv, CountersAgree, Init

LEMMA NDPStep ==
  ASSUME NDPInv, [Next]_vars, skipped' = 0
  PROVE  NDPInv'
<1>1. ASSUME NEW v \in Values, Load(v) PROVE NDPInv'
  <2>1. CASE Top < MaxNofRegs
    BY <1>1, <2>1, PushInv DEF Load
  <2>2. CASE ~(Top < MaxNofRegs)
    <3>1. Top = MaxNofRegs
      BY <2>2, InUse
    <3> QED
      BY <1>1, <2>2, <3>1, SpillInv DEF Load
  <2> QED
    BY <2>1, <2>2
<1>2. CASE Monadic
  <2>1. Top > 0
    BY <1>2 DEF Monadic, Replace
  <2>2. Minus(st(fpu, 0)) \in Values /\ Negated(Last(pending)) \in Values
    BY <2>1, Operands, NDPAssumption DEF Minus
  <2>3. ~jumbled => Minus(st(fpu, 0)) = Negated(Last(pending))
    BY <2>1, Operands DEF Minus
  <2> QED
    BY <1>2, <2>2, <2>3, ReplaceInv DEF Monadic
<1>3. ASSUME NEW v \in Values, DyadicWithMemory(v) PROVE NDPInv'
  <2>1. Top > 0
    BY <1>3 DEF DyadicWithMemory, Replace
  <2>2. With(st(fpu, 0), v) \in Values /\ Combined(Last(pending), v) \in Values
    BY <2>1, Operands, NDPAssumption DEF With
  <2>3. ~jumbled => With(st(fpu, 0), v) = Combined(Last(pending), v)
    BY <2>1, Operands DEF With
  <2> QED
    BY <1>3, <2>2, <2>3, ReplaceInv DEF DyadicWithMemory
<1>4. CASE Store
  <2>1. st(fpu, 0) \in Cells
    BY <1>4, Operands DEF Store, Pop, Cells
  <2>2. <<st(fpu, 0)>> \in Seq(Cells) /\ Len(<<st(fpu, 0)>>) <= 2
    BY <2>1
  <2> QED
    BY <1>4, <2>2, PopInv DEF Store
<1>5. ASSUME NEW v \in Values, CompareWithMemory(v) PROVE NDPInv'
  <2>1. v \in Cells /\ st(fpu, 0) \in Cells
    BY <1>5, Operands DEF CompareWithMemory, Pop, Cells
  <2>2. <<v, st(fpu, 0)>> \in Seq(Cells) /\ Len(<<v, st(fpu, 0)>>) <= 2
    BY <2>1
  <2> QED
    BY <1>5, <2>2, PopInv DEF CompareWithMemory
<1>6. ASSUME NEW top \in 1 .. MaxNofRegs, SkippedReturn(top) PROVE FALSE
  BY <1>6, InUse DEF SkippedReturn
<1>7. CASE UNCHANGED vars
  <2>1. NDPTypeOK' /\ CountersAgree' /\ HeldInOrder'
    BY <1>7 DEF vars, NDPInv, NDPTypeOK, CountersAgree, HeldInOrder, InOrder, st, Register
  <2> QED
    BY <1>7, <2>1 DEF vars, NDPInv
<1> QED
  BY <1>1, <1>2, <1>3, <1>4, <1>5, <1>6, <1>7, DyadicInv, CompareInv, CallInv DEF Next

(* What the count says of the numbers ... *)
LEMMA CountedNumbers ==
  ASSUME Counted
  PROVE  /\ Len(pending) \in Nat /\ Len(pending) <= MaxPending /\ MaxPending \in Nat
         /\ skipped \in Nat /\ skipped <= MaxSkipped /\ MaxSkipped \in Nat
         /\ Top \in Nat /\ Top <= MaxNofRegs /\ MaxNofRegs \in Nat \ {0}
         /\ NofFTemps \in Nat /\ MaxNofFTemps \in Nat /\ NofFTemps <= MaxNofFTemps
         /\ MaxNofFTemps <= MaxPending + MaxSkipped
         /\ Len(pending) + skipped = Top + NofFTemps
BY NDPAssumption DEF Counted, NDPTypeOK

(* ... and of what the processor and the frame hold. *)
LEMMA CountedCells ==
  ASSUME Counted
  PROVE  /\ fpu \in FPU /\ pending \in Seq(Values)
         /\ temps \in [TempNos -> Cells] /\ out \in Seq(Cells) /\ Len(out) <= 2
         /\ jumbled \in BOOLEAN
         /\ 0 \in Registers /\ MaxNofRegs - 1 \in Registers
         /\ st(fpu, 0) \in Cells
<1>1. /\ fpu \in FPU /\ pending \in Seq(Values)
      /\ temps \in [TempNos -> Cells] /\ out \in Seq(Cells) /\ Len(out) <= 2
  BY DEF Counted, NDPTypeOK, FPU
<1>2. jumbled \in BOOLEAN
  BY DEF Counted, NDPTypeOK
<1>3. 0 \in Registers /\ MaxNofRegs - 1 \in Registers
  BY NDPAssumption DEF Registers
<1>4. st(fpu, 0) \in Cells
  BY <1>1, <1>3, Ring
<1> QED
  BY <1>1, <1>2, <1>3, <1>4

(* Every temporary that was written lies in the frame. *)
LEMMA CountedFrame ==
  ASSUME Counted, NEW k \in TempNos
  PROVE  k \in Nat /\ (temps[k] # Empty => k < MaxNofFTemps)
BY CountedNumbers DEF Counted, TempNos

LEMMA CountedAgain ==
  ASSUME Top' \in Nat, Top' <= MaxNofRegs, NofFTemps' \in Nat, MaxNofFTemps' \in Nat,
         NofFTemps' <= MaxNofFTemps', MaxNofFTemps' <= MaxPending + MaxSkipped,
         fpu' \in FPU, temps' \in [TempNos -> Cells],
         pending' \in Seq(Values), Len(pending') <= MaxPending,
         skipped' \in Nat, skipped' <= MaxSkipped,
         Len(pending') + skipped' = Top' + NofFTemps',
         jumbled' \in BOOLEAN, out' \in Seq(Cells), Len(out') <= 2,
         \A k \in TempNos : temps'[k] # Empty => k < MaxNofFTemps'
  PROVE  Counted'
<1>1. /\ Top' \in 0 .. MaxNofRegs
      /\ NofFTemps' \in 0 .. MaxPending + MaxSkipped
      /\ MaxNofFTemps' \in 0 .. MaxPending + MaxSkipped
      /\ skipped' \in 0 .. MaxSkipped
  BY NDPAssumption
<1> QED
  BY <1>1 DEF Counted, NDPTypeOK, FPU

(* Temporaries are taken: the frame grows with them. *)
LEMMA Taken ==
  ASSUME Counted, NEW n \in Nat, n <= MaxPending + MaxSkipped, UseTemps(n)
  PROVE  /\ NofFTemps' = n /\ MaxNofFTemps' \in Nat
         /\ NofFTemps' <= MaxNofFTemps' /\ MaxNofFTemps <= MaxNofFTemps'
         /\ MaxNofFTemps' <= MaxPending + MaxSkipped
BY CountedNumbers DEF UseTemps

(* n operands less, and perhaps one more in their place. *)
LEMMA CountedPending ==
  ASSUME Counted, NEW n \in Nat \ {0}, n <= Len(pending), NEW v \in Values
  PROVE  /\ Older(n) \in Seq(Values) /\ Len(Older(n)) = Len(pending) - n
         /\ Append(Older(n), v) \in Seq(Values)
         /\ Len(Append(Older(n), v)) = Len(pending) - n + 1
         /\ \A i \in 1 .. Len(pending) : pending[i] \in Values
<1>1. pending \in Seq(Values) /\ Len(pending) \in Nat
  BY CountedNumbers, CountedCells
<1>2. Older(n) \in Seq(Values) /\ Len(Older(n)) = Len(pending) - n
  BY <1>1, OlderSeq
<1> QED
  BY <1>1, <1>2, AppendSeq

(* The older operand is a cell: garbage, if it was never there. *)
LEMMA CountedSecond ==
  ASSUME Counted, TwoOperands
  PROVE  Second \in Cells
<1>1. CASE FromTemp
  <2>1. NofFTemps - 1 \in TempNos
    BY <1>1, CountedNumbers DEF TwoOperands, FromTemp, TempNos
  <2> QED
    BY <1>1, <2>1, CountedCells DEF Second
<1>2. CASE ~FromTemp
  <2>1. 1 \in Registers
    BY <1>2, CountedNumbers DEF TwoOperands, FromTemp, Registers
  <2> QED
    BY <1>2, <2>1, CountedCells, Ring DEF Second
<1> QED
  BY <1>1, <1>2

LEMMA OperationCells ==
  ASSUME NEW x, NEW y
  PROVE  Minus(x) \in Cells /\ With(x, y) \in Cells
BY NDPAssumption DEF Minus, With, Cells

LEMMA CountedLoad ==
  ASSUME Counted, NEW v \in Values, Load(v)
  PROVE  Counted'
<1>1. /\ pending' \in Seq(Values) /\ Len(pending') = Len(pending) + 1
      /\ Len(pending') <= MaxPending
      /\ skipped' = skipped /\ jumbled' = jumbled /\ out' = out
  BY CountedNumbers, CountedCells, AppendSeq DEF Load
<1>2. CASE Top < MaxNofRegs
  <2>1. /\ Top' = Top + 1 /\ fpu' = Loaded(fpu, v)
        /\ UNCHANGED <<NofFTemps, MaxNofFTemps, temps>>
    BY <1>2 DEF Load
  <2>2. fpu' \in FPU
    BY <2>1, CountedCells, LoadRing
  <2>3. /\ Top' \in Nat /\ Top' <= MaxNofRegs
        /\ Len(pending') + skipped' = Top' + NofFTemps'
    BY <1>1, <1>2, <2>1, CountedNumbers
  <2> QED
    BY <1>1, <2>1, <2>2, <2>3, CountedNumbers, CountedCells, CountedFrame, CountedAgain
<1>3. CASE ~(Top < MaxNofRegs)
  <2>1. /\ Top' = Top /\ fpu' = Loaded(Popped(Spilling), v)
        /\ temps' = [temps EXCEPT ![NofFTemps] = st(Spilling, 0)]
        /\ UseTemps(NofFTemps + 1)
    BY <1>3 DEF Load
  <2>2. Spilling \in FPU /\ st(Spilling, 0) \in Cells
    BY CountedCells, DecRing, Ring DEF Spilling
  <2>3. fpu' \in FPU
    BY <2>1, <2>2, PopRing, LoadRing
  <2>4. NofFTemps + 1 \in Nat /\ NofFTemps + 1 <= MaxPending + MaxSkipped
    BY <1>1, <1>3, CountedNumbers
  <2>5. /\ NofFTemps' = NofFTemps + 1 /\ MaxNofFTemps' \in Nat
        /\ NofFTemps' <= MaxNofFTemps' /\ MaxNofFTemps <= MaxNofFTemps'
        /\ MaxNofFTemps' <= MaxPending + MaxSkipped
    BY <2>1, <2>4, Taken
  <2>6. temps' \in [TempNos -> Cells]
    BY <2>1, <2>2, CountedCells
  <2>7. ASSUME NEW k \in TempNos, temps'[k] # Empty
        PROVE  k < MaxNofFTemps'
    <3>1. CASE k = NofFTemps
      BY <2>5, <3>1, CountedNumbers
    <3>2. CASE k # NofFTemps
      <4>1. k < MaxNofFTemps /\ k \in Nat
        BY <2>1, <2>7, <3>2, CountedCells, CountedFrame
      <4> QED
        BY <2>5, <4>1, CountedNumbers
    <3> QED
      BY <3>1, <3>2
  <2>8. /\ Top' \in Nat /\ Top' <= MaxNofRegs
        /\ Len(pending') + skipped' = Top' + NofFTemps'
    BY <1>1, <2>1, <2>5, CountedNumbers
  <2>9. /\ skipped' \in Nat /\ skipped' <= MaxSkipped /\ jumbled' \in BOOLEAN
        /\ out' \in Seq(Cells) /\ Len(out') <= 2 /\ NofFTemps' \in Nat
    BY <1>1, <2>4, <2>5, CountedNumbers, CountedCells
  <2> QED
    BY <1>1, <2>3, <2>5, <2>6, <2>7, <2>8, <2>9, CountedAgain
<1> QED
  BY <1>2, <1>3

LEMMA CountedReplace ==
  ASSUME Counted, NEW val \in Cells, NEW meant \in Values, Replace(val, meant)
  PROVE  Counted'
<1>1. /\ pending # <<>> /\ pending' = Append(Older(1), meant) /\ fpu' = Set(fpu, 0, val)
      /\ UNCHANGED <<Top, NofFTemps, MaxNofFTemps, temps, out, jumbled, skipped>>
  BY DEF Replace, compiler
<1>2. 1 <= Len(pending)
  BY <1>1, CountedNumbers, CountedCells
<1>3. pending' \in Seq(Values) /\ Len(pending') = Len(pending)
  BY <1>1, <1>2, CountedNumbers, CountedPending
<1>4. fpu' \in FPU
  BY <1>1, CountedCells, SetRing
<1> QED
  BY <1>1, <1>3, <1>4, CountedNumbers, CountedCells, CountedFrame, CountedAgain

LEMMA CountedPop ==
  ASSUME Counted, NEW val \in Seq(Cells), Len(val) <= 2, Pop(val)
  PROVE  Counted'
<1>1. /\ Top > 0 /\ pending # <<>> /\ pending' = Older(1) /\ fpu' = Popped(fpu)
      /\ Top' = Top - 1 /\ out' = val
      /\ UNCHANGED <<NofFTemps, MaxNofFTemps, temps, jumbled, skipped>>
  BY DEF Pop
<1>2. 1 <= Len(pending)
  BY <1>1, CountedNumbers, CountedCells
<1>3. pending' \in Seq(Values) /\ Len(pending') = Len(pending) - 1
  BY <1>1, <1>2, CountedCells, OlderSeq
<1>4. fpu' \in FPU
  BY <1>1, CountedCells, PopRing
<1>5. /\ Top' \in Nat /\ Top' <= MaxNofRegs /\ Len(pending') <= MaxPending
      /\ Len(pending') + skipped' = Top' + NofFTemps'
  BY <1>1, <1>3, CountedNumbers
<1> QED
  BY <1>1, <1>3, <1>4, <1>5, CountedNumbers, CountedCells, CountedFrame, CountedAgain

LEMMA CountedTwo ==
  ASSUME Counted, Dyadic \/ Compare
  PROVE  Counted'
<1>1. /\ TwoOperands /\ 2 <= Len(pending) /\ Top > 0
      /\ UNCHANGED <<MaxNofFTemps, temps, jumbled, skipped>>
  BY DEF Dyadic, Compare, TwoOperands
<1>2. Popped(fpu) \in FPU /\ Popped(Popped(fpu)) \in FPU
  BY CountedCells, PopRing
<1>3. CASE Dyadic
  <2>1. /\ Combined(pending[Len(pending) - 1], Last(pending)) \in Values
        /\ pending' = Append(Older(2), Combined(pending[Len(pending) - 1], Last(pending)))
    <3>1. \A i \in 1 .. Len(pending) : pending[i] \in Values
      BY CountedCells
    <3>2. pending[Len(pending) - 1] \in Values /\ Last(pending) \in Values
      BY <1>1, <3>1, CountedNumbers DEF Last
    <3> QED
      BY <1>3, <3>2, NDPAssumption DEF Dyadic
  <2>2. pending' \in Seq(Values) /\ Len(pending') = Len(pending) - 1
    BY <1>1, <2>1, CountedNumbers, CountedPending
  <2>3. fpu' \in FPU /\ out' = out
    BY <1>2, <1>3, CountedCells, OperationCells, SetRing DEF Dyadic
  <2>4. /\ Top' \in Nat /\ Top' <= MaxNofRegs /\ NofFTemps' \in Nat
        /\ NofFTemps' <= NofFTemps /\ Top' + NofFTemps' = (Top + NofFTemps) - 1
    <3>1. /\ Top \in Nat /\ Top <= MaxNofRegs /\ MaxNofRegs \in Nat
          /\ NofFTemps \in Nat
      BY CountedNumbers
    <3>2. Top > 0 /\ (FromTemp => NofFTemps > 0) /\ Count(1)
      BY <1>1, <1>3 DEF Dyadic, TwoOperands
    <3> QED
      BY <3>1, <3>2 DEF Count, FromTemp
  <2>5. NofFTemps' <= MaxNofFTemps /\ Len(pending') <= MaxPending
        /\ Len(pending') + skipped = Top' + NofFTemps'
    <3>1. /\ NofFTemps <= MaxNofFTemps /\ NofFTemps \in Nat /\ MaxNofFTemps \in Nat
          /\ Len(pending) \in Nat /\ Len(pending) <= MaxPending /\ MaxPending \in Nat
          /\ Len(pending) + skipped = Top + NofFTemps
          /\ skipped \in Nat /\ Top \in Nat
      BY CountedNumbers
    <3>2. Len(pending') = Len(pending) - 1
      BY <2>2
    <3>3. NofFTemps' <= MaxNofFTemps
      BY <2>4, <3>1
    <3>4. Len(pending') <= MaxPending
      BY <3>1, <3>2
    <3>5. Len(pending') + skipped = Top' + NofFTemps'
      <4>1. Len(pending') + skipped = (Len(pending) + skipped) - 1
        BY <3>1, <3>2
      <4>2. Top' + NofFTemps' = (Len(pending) + skipped) - 1
        <5>1. Top + NofFTemps = Len(pending) + skipped
          BY <3>1
        <5>2. Top' + NofFTemps' = (Top + NofFTemps) - 1
          BY <2>4
        <5> QED
          BY <5>1, <5>2, Zenon
      <4> QED
        BY <4>1, <4>2
    <3> QED
      BY <3>3, <3>4, <3>5
  <2> QED
    BY <1>1, <2>2, <2>3, <2>4, <2>5, CountedNumbers, CountedCells, CountedFrame, CountedAgain
<1>4. CASE Compare
  <2>1. pending' \in Seq(Values) /\ Len(pending') = Len(pending) - 2
    BY <1>1, <1>4, CountedCells, OlderSeq DEF Compare
  <2>2. fpu' \in FPU
    BY <1>2, <1>4 DEF Compare
  <2>3. out' \in Seq(Cells) /\ Len(out') <= 2
    <3>1. Second \in Cells /\ st(fpu, 0) \in Cells /\ out' = <<Second, st(fpu, 0)>>
      BY <1>1, <1>4, CountedCells, CountedSecond DEF Compare
    <3> QED
      BY <3>1
  <2>4. /\ Top' \in Nat /\ Top' <= MaxNofRegs /\ NofFTemps' \in Nat
        /\ NofFTemps' <= NofFTemps /\ Top' + NofFTemps' = (Top + NofFTemps) - 2
    <3>1. /\ Top \in Nat /\ Top <= MaxNofRegs /\ MaxNofRegs \in Nat
          /\ NofFTemps \in Nat
      BY CountedNumbers
    <3>2. Top > 0 /\ (FromTemp => NofFTemps > 0) /\ Count(2)
      BY <1>1, <1>4 DEF Compare, TwoOperands
    <3> QED
      BY <3>1, <3>2 DEF Count, FromTemp
  <2>5. NofFTemps' <= MaxNofFTemps /\ Len(pending') <= MaxPending
        /\ Len(pending') + skipped = Top' + NofFTemps'
    <3>1. /\ NofFTemps <= MaxNofFTemps /\ NofFTemps \in Nat /\ MaxNofFTemps \in Nat
          /\ Len(pending) \in Nat /\ Len(pending) <= MaxPending /\ MaxPending \in Nat
          /\ Len(pending) + skipped = Top + NofFTemps
          /\ skipped \in Nat /\ Top \in Nat
      BY CountedNumbers
    <3>2. Len(pending') = Len(pending) - 2
      BY <2>1
    <3>3. NofFTemps' <= MaxNofFTemps
      BY <2>4, <3>1
    <3>4. Len(pending') <= MaxPending
      BY <3>1, <3>2
    <3>5. Len(pending') + skipped = Top' + NofFTemps'
      <4>1. Len(pending') + skipped = (Len(pending) + skipped) - 2
        BY <3>1, <3>2
      <4>2. Top' + NofFTemps' = (Len(pending) + skipped) - 2
        <5>1. Top + NofFTemps = Len(pending) + skipped
          BY <3>1
        <5>2. Top' + NofFTemps' = (Top + NofFTemps) - 2
          BY <2>4
        <5> QED
          BY <5>1, <5>2, Zenon
      <4> QED
        BY <4>1, <4>2
    <3> QED
      BY <3>3, <3>4, <3>5
  <2> QED
    BY <1>1, <2>1, <2>2, <2>3, <2>4, <2>5,
       CountedNumbers, CountedCells, CountedFrame, CountedAgain
<1> QED
  BY <1>3, <1>4

LEMMA CountedCall ==
  ASSUME Counted, NEW hasResult \in BOOLEAN, NEW v \in Values, Call(hasResult, v)
  PROVE  Counted'
<1> DEFINE F == NofFTemps + Top
<1>1. /\ Len(pending) < MaxPending /\ jumbled' \in BOOLEAN /\ temps' = Saved
      /\ UseTemps(F) /\ out' = out /\ skipped' = skipped
  BY CountedCells DEF Call
<1>2. F \in Nat /\ F = Len(pending) + skipped /\ F < MaxPending + MaxSkipped
  BY <1>1, CountedNumbers
<1>3. /\ NofFTemps' = F /\ MaxNofFTemps' \in Nat
      /\ NofFTemps' <= MaxNofFTemps' /\ MaxNofFTemps <= MaxNofFTemps'
      /\ MaxNofFTemps' <= MaxPending + MaxSkipped
  BY <1>1, <1>2, CountedNumbers, Taken
<1>4. ASSUME NEW k \in TempNos
      PROVE  temps'[k] \in Cells /\ (temps'[k] # Empty => k < MaxNofFTemps')
  <2>1. k \in Nat
    BY CountedFrame
  <2>2. CASE k \in NofFTemps .. NofFTemps + Top - 1
    <3>1. k - NofFTemps \in Registers /\ k < F
      BY <2>1, <2>2, CountedNumbers DEF Registers
    <3>2. temps'[k] = st(fpu, k - NofFTemps)
      BY <1>1, <2>2 DEF Saved
    <3> QED
      BY <1>2, <1>3, <2>1, <3>1, <3>2, CountedCells, Ring
  <2>3. CASE k \notin NofFTemps .. NofFTemps + Top - 1
    <3>1. temps'[k] = temps[k]
      BY <1>1, <2>3 DEF Saved
    <3> QED
      BY <1>3, <2>1, <3>1, CountedNumbers, CountedCells, CountedFrame
  <2> QED
    BY <2>2, <2>3
<1>5. temps' \in [TempNos -> Cells]
  BY <1>1, <1>4 DEF Saved
<1>6. Freed \in FPU
  <2>1. Register(fpu, Top) \in Registers
    BY CountedNumbers, CountedCells DEF FPU, Register, Wrapped, Registers
  <2>2. \A r \in Registers : fpu.regs[r] \in Cells /\ Empty \in Cells
    BY CountedCells DEF FPU, Cells
  <2> QED
    BY <2>1, <2>2 DEF Freed, FPU
<1>7. /\ fpu' \in FPU /\ Top' \in Nat /\ Top' <= MaxNofRegs
      /\ pending' \in Seq(Values) /\ Len(pending') <= MaxPending
      /\ Len(pending') = Len(pending) + Top'
  <2>1. CASE hasResult
    <3>1. /\ fpu' = Loaded(Freed, v) /\ Top' = 1 /\ pending' = Append(pending, v)
      BY <2>1 DEF Call
    <3>2. fpu' \in FPU
      BY <1>6, <3>1, LoadRing
    <3>3. pending' \in Seq(Values) /\ Len(pending') = Len(pending) + 1
      BY <3>1, CountedCells, AppendSeq
    <3> QED
      BY <1>1, <3>1, <3>2, <3>3, CountedNumbers
  <2>2. CASE ~hasResult
    BY <1>6, <2>2, CountedNumbers, CountedCells DEF Call
  <2> QED
    BY <2>1, <2>2
<1> HIDE DEF F
<1>8. Len(pending') + skipped' = Top' + NofFTemps'
  <2>1. F = Len(pending) + skipped /\ NofFTemps' = F /\ skipped' = skipped
    BY <1>1, <1>2, <1>3
  <2>2. Len(pending') = Len(pending) + Top' /\ Top' \in Nat
    BY <1>7
  <2>3. Len(pending) \in Nat /\ skipped \in Nat
    BY CountedNumbers
  <2> QED
    BY <2>1, <2>2, <2>3
<1>9. NofFTemps' \in Nat /\ out' \in Seq(Cells) /\ Len(out') <= 2
      /\ skipped' \in Nat /\ skipped' <= MaxSkipped
  BY <1>1, <1>2, <1>3, CountedNumbers, CountedCells
<1> QED
  BY <1>1, <1>3, <1>4, <1>5, <1>7, <1>8, <1>9, CountedAgain

LEMMA CountedSkippedReturn ==
  ASSUME Counted, NEW top \in 1 .. MaxNofRegs, SkippedReturn(top)
  PROVE  Counted'
<1> DEFINE F == NofFTemps + Top + 1 - top
<1>1. /\ pending = <<>> /\ skipped < MaxSkipped /\ skipped' = skipped + 1
      /\ top <= Top + 1 /\ Top' = top /\ UseTemps(F)
      /\ UNCHANGED <<fpu, temps, pending, out, jumbled>>
  BY DEF SkippedReturn
<1>2. F \in Nat /\ F <= MaxPending + MaxSkipped /\ Len(pending) + skipped + 1 = top + F
  <2>1. Len(pending) = 0 /\ top \in Nat
    BY <1>1
  <2> QED
    BY <1>1, <2>1, CountedNumbers
<1>3. /\ NofFTemps' = F /\ MaxNofFTemps' \in Nat
      /\ NofFTemps' <= MaxNofFTemps' /\ MaxNofFTemps <= MaxNofFTemps'
      /\ MaxNofFTemps' <= MaxPending + MaxSkipped
  BY <1>1, <1>2, Taken
<1> HIDE DEF F
<1>4. \A k \in TempNos : temps'[k] # Empty => k < MaxNofFTemps'
  BY <1>1, <1>3, CountedNumbers, CountedFrame
<1>5. /\ Top' \in Nat /\ Top' <= MaxNofRegs /\ skipped' \in Nat /\ skipped' <= MaxSkipped
      /\ NofFTemps' \in Nat /\ Len(pending') + skipped' = Top' + NofFTemps'
  BY <1>1, <1>2, <1>3, CountedNumbers
<1> QED
  BY <1>1, <1>3, <1>4, <1>5, CountedNumbers, CountedCells, CountedAgain

LEMMA CountedStep ==
  ASSUME Counted, [Next]_vars
  PROVE  Counted'
<1>1. CASE Monadic
  <2>1. pending # <<>> /\ Len(pending) \in Nat
    BY <1>1, CountedNumbers DEF Monadic, Replace
  <2>2. Last(pending) \in Values
    BY <2>1, CountedCells DEF Last
  <2> QED
    BY <1>1, <2>2, NDPAssumption, OperationCells, CountedReplace DEF Monadic
<1>2. ASSUME NEW v \in Values, DyadicWithMemory(v) PROVE Counted'
  <2>1. pending # <<>> /\ Len(pending) \in Nat
    BY <1>2, CountedNumbers DEF DyadicWithMemory, Replace
  <2>2. Last(pending) \in Values
    BY <2>1, CountedCells DEF Last
  <2> QED
    BY <1>2, <2>2, NDPAssumption, OperationCells, CountedReplace DEF DyadicWithMemory
<1>3. CASE Store
  <2>1. <<st(fpu, 0)>> \in Seq(Cells) /\ Len(<<st(fpu, 0)>>) <= 2
    BY CountedCells
  <2> QED
    BY <1>3, <2>1, CountedPop DEF Store
<1>4. ASSUME NEW v \in Values, CompareWithMemory(v) PROVE Counted'
  <2>1. v \in Cells /\ st(fpu, 0) \in Cells
    BY CountedCells DEF Cells
  <2>2. <<v, st(fpu, 0)>> \in Seq(Cells) /\ Len(<<v, st(fpu, 0)>>) <= 2
    BY <2>1
  <2> QED
    BY <1>4, <2>2, CountedPop DEF CompareWithMemory
<1>5. CASE UNCHANGED vars
  BY <1>5 DEF vars, Counted, NDPTypeOK
<1> QED
  BY <1>1, <1>2, <1>3, <1>4, <1>5,
     CountedLoad, CountedTwo, CountedCall, CountedSkippedReturn DEF Next

LEMMA InvStep == Inv /\ [Next]_vars => Inv'
<1> SUFFICES ASSUME Inv, [Next]_vars PROVE Inv'
  OBVIOUS
<1>1. Counted'
  BY CountedStep DEF Inv
<1>2. ASSUME skipped' = 0 PROVE NDPInv'
  <2>1. skipped = 0
    <3>1. skipped \in Nat
      BY CountedNumbers DEF Inv
    <3>2. skipped' = skipped \/ skipped' = skipped + 1
      BY DEF Next, vars, Load, Monadic, DyadicWithMemory, Replace, Store, CompareWithMemory,
             Pop, Dyadic, Compare, Call, SkippedReturn
    <3> QED
      BY <1>2, <3>1, <3>2
  <2> QED
    BY <1>2, <2>1, NDPStep DEF Inv
<1> QED
  BY <1>1, <1>2 DEF Inv

(* The type invariant: the compiler's counters within the processor and    *)
(* the frame.                                                              *)
THEOREM NDPTypes == NDPSpec => []NDPTypeOK
<1>1. Inv => NDPTypeOK
  BY DEF Inv, Counted
<1> QED
  BY <1>1, InvStart, InvStep, PTL DEF NDPSpec

(* The compiler's counters are right about the processor: until a RETURN   *)
(* of a real number is jumped over Top of its registers are in use and no  *)
(* load ever faults, and every temporary written lies in the frame in any  *)
(* case.                                                                   *)
THEOREM CountersRight == NDPSpec => []CountersAgree
<1>1. Inv => CountersAgree
  BY DEF Inv, Counted, NDPInv, CountersAgree
<1> QED
  BY <1>1, InvStart, InvStep, PTL DEF NDPSpec

(* Every operand is counted, with one more for each RETURN jumped over;    *)
(* until there is one of those no operand is lost and the spills keep      *)
(* their order.                                                            *)
THEOREM OperandsHeld == NDPSpec => []HeldInOrder
<1>1. Inv => HeldInOrder
  BY DEF Inv, Counted, NDPInv, HeldInOrder
<1> QED
  BY <1>1, InvStart, InvStep, PTL DEF NDPSpec

-----------------------------------------------------------------------------
(* The steps of NDP as steps of the stack. *)
LEMMA StackStart == Init => Stack!Init
BY DEF Init, Stack!Init

LEMMA StackStep ==
  ASSUME Inv, [Next]_vars
  PROVE  [skipped = 0 /\ ~jumbled => Stack!Next]_<<pending, out>>
<1> SUFFICES ASSUME skipped = 0, ~jumbled, Next
             PROVE  Stack!Next \/ UNCHANGED <<pending, out>>
  BY DEF vars
<1>0. NDPInv
  BY DEF Inv
<1>1. ASSUME NEW v \in Values, Load(v) PROVE Stack!Push
  BY <1>1 DEF Load, Stack!Push
<1>2. ASSUME Top > 0
      PROVE  /\ pending # <<>> /\ st(fpu, 0) = Last(pending)
             /\ Last(pending) = Stack!Last(pending)
  <2>1. Len(pending) >= 1
    BY <1>0, <1>2, Operands
  <2>2. Last(pending) = Stack!Last(pending)
    BY DEF Last, Stack!Last
  <2> QED
    BY <1>0, <1>2, <2>1, <2>2, Operands
<1>3. ASSUME TwoOperands
      PROVE  Second = Stack!Under /\ Len(pending) >= 2
  BY <1>0, <1>3, Operands DEF TwoOperands, Stack!Under
<1>4. ASSUME Monadic PROVE Stack!Negate
  <2>1. /\ Top > 0 /\ out' = out
        /\ pending' = Append(Stack!Below(1), Negated(Last(pending)))
    BY <1>4 DEF Monadic, Replace, Older, Stack!Below
  <2> QED
    BY <1>2, <2>1 DEF Stack!Negate
<1>5. ASSUME NEW v \in Values, DyadicWithMemory(v) PROVE Stack!CombineWithMemory
  BY <1>2, <1>5 DEF DyadicWithMemory, Replace, Older, Stack!CombineWithMemory, Stack!Below
<1>6. ASSUME Store PROVE Stack!Store
  <2>1. Top > 0 /\ out' = <<st(fpu, 0)>> /\ pending' = Stack!Below(1)
    BY <1>6 DEF Store, Pop, Older, Stack!Below
  <2> QED
    BY <1>2, <2>1 DEF Stack!Store
<1>7. ASSUME NEW v \in Values, CompareWithMemory(v) PROVE Stack!CompareWithMemory
  BY <1>2, <1>7 DEF CompareWithMemory, Pop, Older, Stack!CompareWithMemory, Stack!Below
<1>8. ASSUME Dyadic PROVE Stack!Combine
  <2>1. TwoOperands /\ Top > 0
    BY <1>8 DEF Dyadic, TwoOperands
  <2> QED
    <3>1. /\ pending' = Append(Stack!Below(2), Combined(Stack!Under, Last(pending)))
          /\ out' = out
      BY <1>8 DEF Dyadic, Older, Stack!Below, Stack!Under
    <3> QED
      BY <1>2, <1>3, <2>1, <3>1 DEF Stack!Combine
<1>9. ASSUME Compare PROVE Stack!Compare
  <2>1. TwoOperands /\ Top > 0
    BY <1>9 DEF Compare, TwoOperands
  <2> QED
    <3>1. out' = <<Second, st(fpu, 0)>> /\ pending' = Stack!Below(2)
      BY <1>9 DEF Compare, Older, Stack!Below
    <3> QED
      BY <1>2, <1>3, <2>1, <3>1 DEF Stack!Compare
<1>10. ASSUME NEW hasResult \in BOOLEAN, NEW v \in Values, Call(hasResult, v)
       PROVE  Stack!Push \/ UNCHANGED <<pending, out>>
  BY <1>10 DEF Call, Stack!Push
<1>11. ASSUME NEW top \in 1 .. MaxNofRegs, SkippedReturn(top)
       PROVE  UNCHANGED <<pending, out>>
  BY <1>11 DEF SkippedReturn
<1> QED
  BY <1>1, <1>4, <1>5, <1>6, <1>7, <1>8, <1>9, <1>10, <1>11
  DEF Next, Stack!Next, Monadic

(* The processor with its temporaries is the unbounded stack NDP.md        *)
(* promises, as long as no call saves two registers at once and no RETURN  *)
(* of a real number was jumped over.                                       *)
THEOREM StackImplemented == NDPSpec => ImplementsStack
<1>1. Inv /\ [Next]_vars => [skipped = 0 /\ ~jumbled => Stack!Next]_<<pending, out>>
  BY StackStep
<1> QED
  BY <1>1, InvStart, InvStep, StackStart, PTL DEF NDPSpec, ImplementsStack

=============================================================================

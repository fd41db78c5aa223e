-------------------------------- MODULE NDP --------------------------------
(***************************************************************************)
(* NDP.mi: the registers of the numeric processor as the code generator    *)
(* sees them.  Expressions may need more operands than the processor has   *)
(* registers, and a call must find the registers free; NDP then moves      *)
(* operands into temporaries of the frame (FTemp) and lets later           *)
(* instructions take them from there.  The code of a procedure's           *)
(* expressions is emitted in the order in which it runs, but for the       *)
(* RETURNs that are jumped over (SkippedReturn); so one step here is one   *)
(* call of NDP with the instructions it emits, executed.  A run of the     *)
(* model is the code of one procedure: NDP.Init starts each one.           *)
(*                                                                         *)
(*   Top, NofFTemps, MaxNofFTemps   the compiler's counters                *)
(*   fpu                            the processor: its ring of registers   *)
(*   temps                          the temporaries in the frame           *)
(*   pending, out                   what the expression's operands are and *)
(*                                  what it delivered (OperandStack)       *)
(*   jumbled                        a call has found two operands in        *)
(*                                  registers, see Saved                   *)
(*   skipped                        the RETURNs of a real number that were  *)
(*                                  compiled but not executed              *)
(***************************************************************************)
EXTENDS Integers, Sequences, SequencesExt

CONSTANTS MaxNofRegs,      \* the registers of the processor (8)
          Values, Negated(_), Combined(_, _),
          Empty,           \* the tag of a free register or an unused temporary
          Fault,           \* what a load into a used register leaves there
          MaxPending,      \* bound: operands of one expression
          MaxSkipped       \* bound: RETURNs jumped over

ASSUME NDPAssumption ==
    /\ MaxNofRegs \in Nat \ {0} /\ MaxPending \in Nat /\ MaxSkipped \in Nat
    /\ Empty \notin Values /\ Fault \notin Values /\ Empty # Fault
    /\ \A x \in Values : Negated(x) \in Values
    /\ \A x, y \in Values : Combined(x, y) \in Values

VARIABLES Top, NofFTemps, MaxNofFTemps, fpu, temps, pending, out, jumbled, skipped

compiler == <<Top, NofFTemps, MaxNofFTemps>>
vars == <<Top, NofFTemps, MaxNofFTemps, fpu, temps, pending, out, jumbled, skipped>>

Registers == 0 .. MaxNofRegs - 1
Cells == Values \union {Empty, Fault}
TempNos == 0 .. MaxPending + MaxSkipped - 1

\* An operation on anything but numbers delivers no number.
Minus(x) == IF x \in Values THEN Negated(x) ELSE Fault
With(x, y) == IF x \in Values /\ y \in Values THEN Combined(x, y) ELSE Fault

---------------------------------------------------------------------------
(* The processor's instructions, as functions of the register ring.        *)

\* The number of the register st(i); the ring has MaxNofRegs of them.
Wrapped(n) == IF n < MaxNofRegs THEN n ELSE n - MaxNofRegs
Register(f, i) == Wrapped(f.tos + i)
st(f, i) == f.regs[Register(f, i)]

fdecstp(f) == [f EXCEPT !.tos = Wrapped(@ + MaxNofRegs - 1)]
Set(f, i, v) == [f EXCEPT !.regs[Register(f, i)] = v]

\* fstp, as far as the registers go: st(0) becomes free, st(1) the top.
Popped(f) == [Set(f, 0, Empty) EXCEPT !.tos = Wrapped(@ + 1)]

\* fld and fild: loading over a register that is in use is a stack fault.
Loaded(f, v) ==
    LET g == fdecstp(f)
    IN  Set(g, 0, IF st(g, 0) = Empty THEN v ELSE Fault)

---------------------------------------------------------------------------
Init ==
    /\ Top = 0 /\ NofFTemps = 0 /\ MaxNofFTemps = 0
    /\ fpu = [tos |-> 0, regs |-> [r \in Registers |-> Empty]]
    /\ temps = [k \in TempNos |-> Empty]
    /\ pending = <<>> /\ out = <<>> /\ jumbled = FALSE /\ skipped = 0

\* A temporary is taken: the frame must have room for the most ever in use.
UseTemps(n) ==
    /\ NofFTemps' = n
    /\ MaxNofFTemps' = IF n > MaxNofFTemps THEN n ELSE MaxNofFTemps

Older(n) == SubSeq(pending, 1, Len(pending) - n)

\* With all registers in use the one at the bottom is brought to the top.
\* Mutant: the newest operand is spilled, without fdecstp.
Spilling_Top == fpu
Spilling == fdecstp(fpu)

\* CS1 with an instruction that pushes.
Load(v) ==
    /\ Len(pending) < MaxPending
    /\ IF Top < MaxNofRegs
       THEN /\ Top' = Top + 1
            /\ fpu' = Loaded(fpu, v)
            /\ UNCHANGED <<NofFTemps, MaxNofFTemps, temps>>
       ELSE /\ temps' = [temps EXCEPT ![NofFTemps] = st(Spilling, 0)]
            /\ UseTemps(NofFTemps + 1)
            /\ fpu' = Loaded(Popped(Spilling), v)
            /\ UNCHANGED Top
    /\ pending' = Append(pending, v)
    /\ UNCHANGED <<out, jumbled, skipped>>

\* CS1 with an instruction that replaces the newest operand by val.
Replace(val, meant) ==
    /\ Top > 0 /\ pending # <<>>
    /\ fpu' = Set(fpu, 0, val)
    /\ pending' = Append(Older(1), meant)
    /\ UNCHANGED <<compiler, temps, out, jumbled, skipped>>

Monadic == Replace(Minus(st(fpu, 0)), Negated(Last(pending)))
DyadicWithMemory(v) == Replace(With(st(fpu, 0), v), Combined(Last(pending), v))

\* CS1 with an instruction that pops one operand and delivers val.
Pop(val) ==
    /\ Top > 0 /\ pending # <<>>
    /\ Top' = Top - 1
    /\ fpu' = Popped(fpu)
    /\ out' = val
    /\ pending' = Older(1)
    /\ UNCHANGED <<NofFTemps, MaxNofFTemps, temps, jumbled, skipped>>

Store == Pop(<<st(fpu, 0)>>)
CompareWithMemory(v) == Pop(<<v, st(fpu, 0)>>)

\* The older operand of a dyadic instruction is in the last temporary when
\* only one register is in use.  Mutant: temporaries in the order of spilling.
FromTemp == Top = 1
Second_First == IF FromTemp THEN temps[0] ELSE st(fpu, 1)
Second == IF FromTemp THEN temps[NofFTemps - 1] ELSE st(fpu, 1)

\* Mutants of the counting: the change of the popping instruction with a
\* temporary too, and none with one.
Count_Twice(n) ==
    /\ NofFTemps' = IF FromTemp THEN NofFTemps - 1 ELSE NofFTemps
    /\ Top' = Top - n
Count_NoDec(n) ==
    /\ NofFTemps' = IF FromTemp THEN NofFTemps - 1 ELSE NofFTemps
    /\ Top' = IF FromTemp THEN Top ELSE Top - n

\* An instruction that pops n operands pops one register less when the
\* older operand is a temporary.
Count(n) ==
    /\ NofFTemps' = IF FromTemp THEN NofFTemps - 1 ELSE NofFTemps
    /\ Top' = IF FromTemp THEN Top - (n - 1) ELSE Top - n

\* CS1's conditions for a dyadic instruction without a memory operand.
TwoOperands == Len(pending) >= 2 /\ Top > 0 /\ (FromTemp => NofFTemps > 0)

\* CS1 with faddp and its like.
Dyadic ==
    /\ TwoOperands
    /\ Count(1)
    /\ fpu' = Set(IF FromTemp THEN fpu ELSE Popped(fpu), 0, With(Second, st(fpu, 0)))
    /\ pending' = Append(Older(2), Combined(pending[Len(pending) - 1], Last(pending)))
    /\ UNCHANGED <<MaxNofFTemps, temps, out, jumbled, skipped>>

\* CS1 with fcompp, which pops both operands.
Compare ==
    /\ TwoOperands
    /\ Count(2)
    /\ fpu' = IF FromTemp THEN Popped(fpu) ELSE Popped(Popped(fpu))
    /\ out' = <<Second, st(fpu, 0)>>
    /\ pending' = Older(2)
    /\ UNCHANGED <<MaxNofFTemps, temps, jumbled, skipped>>

\* Save stores the registers from the top down, a spill from the bottom up:
\* two operands saved together are taken back in the wrong order.
Saved ==
    [k \in TempNos |-> IF k \in NofFTemps .. NofFTemps + Top - 1
                       THEN st(fpu, k - NofFTemps) ELSE temps[k]]
Freed ==
    [tos  |-> Register(fpu, Top),
     regs |-> [r \in Registers |->
                 IF \E i \in 0 .. Top - 1 : Register(fpu, i) = r
                 THEN Empty ELSE fpu.regs[r]]]

\* A call: Save, the call instruction and, after a REAL function, SetTop(1)
\* for the result that the function leaves in st(0).
Call(hasResult, v) ==
    /\ Len(pending) < MaxPending
    /\ jumbled' = (jumbled \/ Top > 1)
    /\ temps' = Saved
    /\ UseTemps(NofFTemps + Top)
    /\ Top' = IF hasResult THEN 1 ELSE 0
    /\ fpu' = IF hasResult THEN Loaded(Freed, v) ELSE Freed
    /\ pending' = IF hasResult THEN Append(pending, v) ELSE pending
    /\ UNCHANGED <<out, skipped>>

\* RETURN of a real number leaves the counters as its expression left them,
\* with one operand more: FloatFuncReturn takes nothing from NDP.Top, and Init
\* is called for procedures only.  When the RETURN is jumped over (IF c THEN
\* RETURN x END) the code behind it runs with an operand counted that is not
\* there.  Calls and spills in x can have moved operands to temporaries: top
\* of the registers are counted at its end.
SkippedReturn(top) ==
    /\ pending = <<>> /\ skipped < MaxSkipped
    /\ skipped' = skipped + 1
    /\ top <= Top + 1 /\ Top' = top
    /\ UseTemps(NofFTemps + Top + 1 - top)
    /\ UNCHANGED <<fpu, temps, pending, out, jumbled>>

Next ==
    \/ \E v \in Values : Load(v)
    \/ Monadic
    \/ \E v \in Values : DyadicWithMemory(v)
    \/ Store
    \/ \E v \in Values : CompareWithMemory(v)
    \/ Dyadic
    \/ Compare
    \/ \E hasResult \in BOOLEAN, v \in Values : Call(hasResult, v)
    \/ \E top \in 1 .. MaxNofRegs : SkippedReturn(top)

NDPSpec == Init /\ [][Next]_vars

---------------------------------------------------------------------------
NDPTypeOK ==
    /\ Top \in 0 .. MaxNofRegs
    /\ NofFTemps \in 0 .. MaxPending + MaxSkipped
    /\ MaxNofFTemps \in 0 .. MaxPending + MaxSkipped
    /\ skipped \in 0 .. MaxSkipped
    /\ fpu \in [tos : Registers, regs : [Registers -> Cells]]
    /\ temps \in [TempNos -> Cells]
    /\ pending \in Seq(Values) /\ Len(pending) <= MaxPending
    /\ jumbled \in BOOLEAN
    /\ out \in Seq(Cells) /\ Len(out) <= 2

\* As long as no RETURN of a real number was jumped over, the compiler's idea
\* of the processor is the processor: the registers in use are st(0) ..
\* st(Top - 1), all others are free for a push, no operand was lost to a stack
\* fault (CS1's INC, DEC and fdecstp; the DEC(Top) that comparisons need:
\* history.log, 17.10.1995).  With or without such RETURNs each temporary that
\* was ever written lies in the frame, which has MaxNofFTemps of them
\* (UsedTempSize): the wrong count never makes the code write outside it.
CountersAgree ==
    /\ skipped = 0 =>
         \A i \in Registers :
           IF i < Top THEN st(fpu, i) \in Values ELSE st(fpu, i) = Empty
    /\ \A k \in TempNos : temps[k] # Empty => k < MaxNofFTemps

\* The temporaries, oldest first, then the registers from the bottom up, are
\* the operands in the order in which they were evaluated.
InOrder ==
    /\ \A k \in 0 .. NofFTemps - 1 : temps[k] = pending[k + 1]
    /\ \A i \in 0 .. Top - 1 : st(fpu, i) = pending[Len(pending) - i]

\* What the compiler counts is every operand the expression still waits for
\* and one for each RETURN jumped over, never more.  Where there was none of
\* those the operands are in the registers and temporaries in order, unless a
\* call has saved two registers at once (NDP.mi:96-101).
HeldInOrder ==
    /\ Len(pending) + skipped = Top + NofFTemps
    /\ skipped = 0 /\ ~jumbled => InOrder

Stack == INSTANCE OperandStack WITH stack <- pending, out <- out

\* What is stored or compared is what an unbounded stack would deliver: the
\* spills, the temporaries used as operands and the saving before a call
\* cannot be told from the results (NDP.md:3), with the same two exceptions.
ImplementsStack ==
    Stack!Init /\ [][skipped = 0 /\ ~jumbled => Stack!Next]_<<pending, out>>
=============================================================================

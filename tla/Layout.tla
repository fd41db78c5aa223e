------------------------------- MODULE Layout --------------------------------
(***************************************************************************)
(* Where the compiler puts things: the addresses of variables, parameters  *)
(* and record fields (src/src/ADR.pum, with the attributes oberon.eva      *)
(* threads through the declarations), and the sizes of heap blocks as NEW  *)
(* and the skippers of the type descriptors compute them.                  *)
(*                                                                         *)
(* A type is its form and its size, an open array also its dimensions and  *)
(* the size of its elements.  The declarations of one module or procedure  *)
(* are visited one after the other: an action declares one of them.        *)
(***************************************************************************)
EXTENDS Integers, Sequences

CONSTANTS
  Types,    \* the types of variables and parameters
  Levels,   \* the nesting levels of the scope
  MaxDecls  \* bound: the declarations of a scope, of each kind

MODULELEVEL == 1
GlobalVarBase == 8
ProcParBase == 8

(* The types the context conditions admit (!ArraySize: no empty arrays).   *)
WellFormed(t) ==
  /\ t.size \in Nat
  /\ t.form \in {"pointer", "procedure", "basic", "array", "record", "open"}
  /\ t.form = "open" => t.size = 0 /\ t.odim \in Nat \ {0} /\ t.elem.size \in Nat

ASSUME LayoutAssumption ==
  /\ \A t \in Types : WellFormed(t)
  /\ Levels \subseteq Nat \ {0}
  /\ MaxDecls \in Nat

VARIABLES
  level,    \* of the scope: MODULELEVEL or that of a procedure's body
  params,   \* its parameters: [ty, mode, addr, ref]
  vars,     \* its variables: [ty, addr]
  parAddr,  \* the attribute ParAddr
  varAddr   \* the attribute VarAddr

scope == <<level, params, vars, parAddr, varAddr>>

-----------------------------------------------------------------------------
Down(a, n) == a - (a % n)
Align4(v) == Down(v + 3, 4)
Align8(v) == Down(v + 7, 8)

Unit(size) == CASE size \in {0, 1, 3} -> 1 [] size = 2 -> 2 [] OTHER -> 4

\* Mutant: an address is rounded down in the module too.
pAligned_Down(a, size) == Down(a, Unit(size))

pAligned(a, size) == Down(a + Unit(size) - 1, Unit(size))
nAligned(a, size) == Down(a, Unit(size))

(* Below the frame's links: the tag and the display of outer procedures.   *)
LocalVarBase(l) == -4 - 4 * (l - MODULELEVEL)

\* Bytes before an open array's elements: the LENs, and their product.
ArrayOfsFromODim(odim) == IF odim > 1 THEN 4 * odim + 4 ELSE 4 * odim

-----------------------------------------------------------------------------
(* A value parameter of a record or array type is passed by reference and  *)
(* copied by the procedure, unless it fits into a register.                *)
RefMode(t, mode) ==
  IF \/ mode = "REFPAR" \/ t.form = "open"
     \/ t.form \in {"record", "array"} /\ t.size > 4
  THEN "REFPAR" ELSE "VALPAR"

HasTag(t, mode) == mode = "REFPAR" /\ t.form = "record"

(* The words of a parameter: its value or its address, the tag before the  *)
(* address of a VAR record, the LENs after that of an open array.          *)
ParWords(t, mode) ==
  IF t.form = "open" THEN 1 + ArrayOfsFromODim(t.odim) \div 4
  ELSE IF HasTag(t, mode) THEN 2
  ELSE IF RefMode(t, mode) = "REFPAR" THEN 1
  ELSE Align4(t.size) \div 4

ParAddrOf(t, mode) ==
  IF HasTag(t, mode) THEN parAddr + 4 ELSE parAddr

ScopeInit ==
  /\ level \in Levels
  /\ params = << >> /\ vars = << >>
  /\ parAddr = ProcParBase
  /\ varAddr = IF level = MODULELEVEL THEN GlobalVarBase ELSE LocalVarBase(level)

(* NextParAddr, for one formal parameter. *)
DeclarePar(t, mode) ==
  /\ level # MODULELEVEL /\ vars = << >> /\ Len(params) < MaxDecls
  /\ params' = Append(params,
       [ty |-> t, mode |-> mode, addr |-> ParAddrOf(t, mode), ref |-> RefMode(t, mode)])
  /\ parAddr' = parAddr + 4 * ParWords(t, mode)
  /\ UNCHANGED <<level, vars, varAddr>>

(* NextVarAddr, for one variable: in a module the addresses grow, in a     *)
(* procedure's frame they fall.                                            *)
DeclareVar(t) ==
  /\ t.form # "open" /\ Len(vars) < MaxDecls
  /\ LET a == IF level = MODULELEVEL
              THEN pAligned(varAddr, t.size) ELSE nAligned(varAddr - t.size, t.size)
     IN /\ vars' = Append(vars, [ty |-> t, addr |-> a])
        /\ varAddr' = IF level = MODULELEVEL THEN a + t.size ELSE a
  /\ UNCHANGED <<level, params, parAddr>>

ScopeNext ==
  \/ \E t \in Types, mode \in {"VALPAR", "REFPAR"} : DeclarePar(t, mode)
  \/ \E t \in Types : DeclareVar(t)

ScopeSpec == ScopeInit /\ [][ScopeNext]_scope

-----------------------------------------------------------------------------
(* The bytes [from, upto) of the frame that belong to a declaration. *)
VarBytes(v) == [from |-> v.addr, upto |-> v.addr + v.ty.size]
ParBytes(p) ==
  [from |-> IF HasTag(p.ty, p.mode) THEN p.addr - 4 ELSE p.addr,
   upto |-> IF p.ty.form = "open" THEN p.addr + 4 + ArrayOfsFromODim(p.ty.odim)
            ELSE IF p.ref = "REFPAR" THEN p.addr + 4 ELSE p.addr + p.ty.size]

Apart(x, y) == x.upto <= y.from \/ y.upto <= x.from

(* No two declarations share a byte, none lies in the links of the frame   *)
(* (the tag and display below it, ebp and the return address above), and   *)
(* what the processor accesses as words or half words is aligned.          *)
LayoutRight ==
  /\ \A i, j \in DOMAIN vars : i # j => Apart(VarBytes(vars[i]), VarBytes(vars[j]))
  /\ \A i, j \in DOMAIN params : i # j => Apart(ParBytes(params[i]), ParBytes(params[j]))
  /\ \A i \in DOMAIN params : ParBytes(params[i]).from >= ProcParBase
                              /\ params[i].addr % 4 = 0
  /\ \A i \in DOMAIN vars :
       /\ IF level = MODULELEVEL THEN vars[i].addr >= GlobalVarBase
          ELSE VarBytes(vars[i]).upto <= LocalVarBase(level)
       /\ vars[i].addr % Unit(vars[i].ty.size) = 0

-----------------------------------------------------------------------------
(* The bytes NEW allocates (STATICBLOCKSIZE and OPENBLOCKSIZE): the tag,   *)
(* the LENs and the elements.                                              *)
BlockSize(t, n) ==
  IF t.form = "open" THEN Align8(4 + ArrayOfsFromODim(t.odim) + n * t.elem.size)
  ELSE Align8(4 + t.size)

(* The skipper for elements of 5 bytes has a mov from memory to memory,    *)
(* which no assembler takes: there is no program with such a type.         *)
Assembles(t) == ~(t.form = "open" /\ t.elem.size = 5)

(* The powers of 2 from 8 on that IntLog2 knows. *)
Powers ==
  {8, 16, 32, 64, 128, 256, 512, 1024,
   2048, 4096, 8192, 16384, 32768, 65536, 131072, 262144,
   524288, 1048576, 2097152, 4194304, 8388608, 16777216, 33554432, 67108864,
   134217728, 268435456, 536870912, 1073741824}

\* Mutant: the product of the LENs is not counted.
Skipped_NoProduct(t, n) ==
  IF t.form = "open" THEN Down(11 + 4 * t.odim + n * t.elem.size, 8) ELSE Align8(4 + t.size)

(* How far the skipper of a type's descriptor moves from a block to the    *)
(* next: elements whose size is a power of 2 from 8 on are added after     *)
(* aligning what precedes them, others before (lea and and).               *)
Skipped(t, n) ==
  IF t.form # "open" THEN IF t.size > 0 THEN Align8(4 + t.size) ELSE 8
  ELSE IF t.elem.size = 0 THEN Align8(4 + ArrayOfsFromODim(t.odim))
  ELSE IF t.elem.size \in Powers
       THEN Align8(4 + ArrayOfsFromODim(t.odim)) + n * t.elem.size
  ELSE Down(11 + ArrayOfsFromODim(t.odim) + n * t.elem.size, 8)
=============================================================================

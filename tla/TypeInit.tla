------------------------------ MODULE TypeInit -------------------------------
(***************************************************************************)
(* What the compiler generates from block lists, and what that does when   *)
(* the program runs: the tables the collector reads and the code that sets *)
(* the pointers of new storage to NIL and its procedure variables to       *)
(* NILPROC (src/src/CODEf.pum.Init, CODEf.pum.TDesc, CODE.pum).            *)
(*                                                                         *)
(* A scope is declared and compiled, or a heap block is given to the       *)
(* initialiser of its type; the processor then executes the code, one      *)
(* instruction after the other.  Addresses are relative to the block, the  *)
(* module's globals or the frame.                                          *)
(***************************************************************************)
EXTENDS BlockLists, FiniteSets

CONSTANTS
  HeapTypes,  \* the types of heap blocks
  Counts      \* the numbers of elements of open arrays

ASSUME TypeInitAssumption ==
  /\ HeapTypes \subseteq AllTypes
  /\ Counts \subseteq Nat \ {0}   \* LenCheck

Registers == {"ebx", "ecx", "edx", "esi", "edi"}
Kinds == {"pointer", "procedure"}
NoBlock == [form |-> "none"]

VARIABLES
  status,  \* "declare", "run", "done" or "fault": a store left the storage
  block,   \* the type of the heap block, or NoBlock
  n,       \* the number of its elements, if it is an open array
  code,    \* the instructions
  pc,
  regs,
  eax,     \* the value stored
  stack,
  stored   \* the pairs <<address, value>> of all stores

machine == <<code, pc, regs, eax, stack, stored>>
tivars == <<scope, status, block, n, machine>>

-----------------------------------------------------------------------------
(* Instructions. *)
Ins(op, reg, num, val) == [op |-> op, reg |-> reg, num |-> num, val |-> val]

Store(ofs) == Ins("store", "edi", ofs, "eax")
StoreAt(addr) == Ins("store", "none", addr, "eax")
Mov(reg, num) == Ins("mov", reg, num, "none")
Push(reg) == Ins("push", reg, 0, "none")
Pop(reg) == Ins("pop", reg, 0, "none")
AddEdi(num) == IF num = 0 THEN << >> ELSE <<Ins("add", "edi", num, "none")>>

(* Count down and, unless zero, go back over the body: sub and jnz, or loop. *)
Back(reg, body) == Ins("loop", reg, Len(body), "none")

InitVal(kind) == IF kind = "pointer" THEN "NIL" ELSE "NILPROC"
LoadEaxWithInitVal(kind) == Ins("eax", "none", 0, InitVal(kind))

Counter(height) ==
  CASE height = 1 -> "ebx" [] height = 2 -> "edx" [] height = 3 -> "esi" [] OTHER -> "ecx"

(* A pointer in each of count places from edi on. *)
FillLoop(b) ==
  <<Mov("ecx", b.count)>> \o
    IF b.incr <= 4 THEN <<Ins("stos", "edi", 0, "eax")>>
    ELSE LET body == <<Store(0)>> \o AddEdi(b.incr) IN body \o <<Back("ecx", body)>>

\* Mutant: ecx is not saved around the body.
EntryLoop_KeepsNoEcx(first, height, incr, sub) ==
  LET body == sub.code \o AddEdi(incr - sub.out)
  IN <<first>> \o body \o <<Back(Counter(height), body)>>

(* The loop of a composite entry around the code of its sub list, which    *)
(* leaves edi out bytes further.                                           *)
EntryLoop(first, height, incr, sub) ==
  LET inner == IF height > 3 THEN <<Push("ecx")>> \o sub.code \o <<Pop("ecx")>> ELSE sub.code
      body == inner \o AddEdi(incr - sub.out)
  IN <<first>> \o body \o <<Back(Counter(height), body)>>

(* The cases of an entry: so few pointers that no loop is needed, many     *)
(* pointers, blocks with a list of their own.                              *)
IsFew(b) == b.count = 1 \/ (b.sub = NoBlocklist /\ b.count <= BlocklistLoopUnrollingThreshold)
IsFill(b) == b.sub = NoBlocklist /\ ~IsFew(b)
IsLoop(b) == b.sub # NoBlocklist /\ ~IsFew(b)

AfterLoop(b) == b.ofs + b.count * b.incr

(* The code for one more entry of a list, after that of those before; subs *)
(* has the code of the sub lists, out says how far edi has been moved.     *)
CodeStep(subs, b, prev) ==
  LET at == b.ofs - prev.out
  IN CASE IsFew(b) ->
            [code |-> prev.code \o [j \in 1 .. b.count |-> Store(at + (j - 1) * b.incr)],
             out |-> prev.out]
       [] IsFill(b) ->
            [code |-> prev.code \o AddEdi(at) \o FillLoop(b), out |-> AfterLoop(b)]
       [] IsLoop(b) ->
            [code |-> prev.code \o AddEdi(at)
                        \o EntryLoop(Mov(Counter(b.height), b.count), b.height, b.incr, subs[b.sub]),
             out |-> AfterLoop(b)]

NoCode == [code |-> << >>, out |-> 0]

ListCode(subs, bl) ==
  LET upto[i \in 0 .. Len(bl)] ==
        IF i = 0 THEN NoCode ELSE CodeStep(subs, bl[i], upto[i - 1])
  IN upto[Len(bl)]

(* The code for a list relative to edi. *)
SubVarInit[bl \in AllLists] == ListCode(SubVarInit, bl)

(* The code for globals or locals, whose addresses are known. *)
VarInit(bl) ==
  FlattenSeq([i \in DOMAIN bl |->
    LET b == bl[i]
    IN CASE IsFew(b) ->
              [j \in 1 .. b.count |-> StoreAt(b.ofs + (j - 1) * b.incr)]
         [] IsFill(b) ->
              <<Mov("edi", b.ofs)>> \o FillLoop(b)
         [] IsLoop(b) ->
              <<Mov("edi", b.ofs)>>
                \o EntryLoop(Mov(Counter(b.height), b.count), b.height, b.incr,
                             SubVarInit[b.sub])])

VarInitializing(bl, kind) ==
  IF bl = NoBlocklist THEN << >> ELSE <<LoadEaxWithInitVal(kind)>> \o VarInit(bl)

(* The number of elements is the word edi points to. *)
OpenTypeInitializing(b, kind) ==
  IF b.sub = NoBlocklist THEN << >>
  ELSE LET height == Last(b.sub).height + 1
           loop == EntryLoop(Ins("add", "edi", ArrayOfsFromODim(-b.count), "none"),
                             height, b.incr, SubVarInit[b.sub])
       IN <<LoadEaxWithInitVal(kind), Ins("load", Counter(height), 0, "none")>> \o loop

TypeInitializing(bl, kind) ==
  CASE bl = NoBlocklist -> << >>
    [] bl # NoBlocklist /\ Last(bl).count < 1 -> OpenTypeInitializing(Last(bl), kind)
    [] OTHER -> <<LoadEaxWithInitVal(kind)>> \o SubVarInit[bl].code

\* Mutant: edi is not kept for the procedure variables.
SaveEdi_Never(t) == FALSE

SaveEdi(t) == \A kind \in Kinds : BlocklistOfType(t, kind) # NoBlocklist

(* The initialiser of a type descriptor (TDesc). *)
Initializer(t) ==
  LET part(kind) == TypeInitializing(BlocklistOfType(t, kind), kind)
  IN (IF SaveEdi(t) THEN <<Push("edi")>> \o part("pointer") \o <<Pop("edi")>>
      ELSE part("pointer")) \o part("procedure")

(* CodeModule and CodeProc: what precedes the statements of the body. *)
BlocklistOfVars(kind) ==
  IF level = MODULELEVEL THEN BlocklistOfModuleGlobals(vars, kind)
  ELSE BlocklistOfProcLocals(vars, kind)

Prologue == VarInitializing(BlocklistOfVars("pointer"), "pointer")
              \o VarInitializing(BlocklistOfVars("procedure"), "procedure")

-----------------------------------------------------------------------------
(* The storage that is to be initialised: its bytes, and what its pointers *)
(* and procedure variables are to hold.                                    *)
Lowest == IF block = NoBlock /\ level # MODULELEVEL THEN varAddr
          ELSE IF block = NoBlock THEN GlobalVarBase ELSE 0
Upto == CASE block = NoBlock -> IF level = MODULELEVEL THEN varAddr ELSE LocalVarBase(level)
          [] block.form = "open" -> ArrayOfsFromODim(block.odim) + n * block.elem.size
          [] OTHER -> block.size

SlotsHere(kind) ==
  CASE block = NoBlock -> SlotsOfDecls(vars, kind)
    [] block.form = "open" ->
         {ArrayOfsFromODim(block.odim) + i * block.elem.size + o :
            i \in 0 .. n - 1, o \in Slots(block.elem, kind)}
    [] OTHER -> Slots(block, kind)

Wanted == UNION {SlotsHere(kind) \X {InitVal(kind)} : kind \in Kinds}

-----------------------------------------------------------------------------
TIInit ==
  /\ ScopeInit
  /\ \/ block = NoBlock /\ n = 0
     \/ /\ level = MODULELEVEL
        /\ block \in {t \in HeapTypes : Assembles(t)}
        /\ n \in IF block.form = "open" THEN Counts ELSE {1}
  /\ status = "declare"
  /\ code = << >> /\ pc = 1 /\ stack = << >> /\ stored = {}
  /\ regs = [r \in Registers |-> 0] /\ eax = "none"

Declare ==
  /\ status = "declare" /\ block = NoBlock
  /\ ScopeNext
  /\ UNCHANGED <<status, block, n, machine>>

(* The code is called; for a heap block edi holds its address (call        *)
(* initAddr in $staticNEW and $openNEW).                                   *)
Start ==
  /\ status = "declare"
  /\ status' = "run"
  /\ code' = IF block = NoBlock THEN Prologue ELSE Initializer(block)
  /\ UNCHANGED <<scope, block, n, pc, regs, eax, stack, stored>>

(* The processor, at an instruction op. *)
At(op) == status = "run" /\ pc <= Len(code) /\ code[pc].op = op
Reg == code[pc].reg
Num == code[pc].num
Next1 == pc' = pc + 1 /\ UNCHANGED <<scope, block, n, code>>
SetReg(r, v) == regs' = [regs EXCEPT ![r] = v]

(* Words are stored; outside the storage the program's behaviour is no     *)
(* longer what the compiler intends, and we follow it no further.          *)
Put(addrs) ==
  IF \A a \in addrs : Lowest <= a /\ a + 4 <= Upto
  THEN stored' = stored \cup (addrs \X {eax}) /\ UNCHANGED status
  ELSE status' = "fault" /\ UNCHANGED stored

SetEax ==
  /\ At("eax") /\ eax' = code[pc].val
  /\ Next1 /\ UNCHANGED <<status, regs, stack, stored>>

Assign ==
  /\ \/ At("mov") /\ SetReg(Reg, Num)
     \/ At("add") /\ SetReg(Reg, regs[Reg] + Num)
  /\ Next1 /\ UNCHANGED <<status, eax, stack, stored>>

(* The only word that is read is the number of elements. *)
Load ==
  /\ At("load")
  /\ IF regs["edi"] = 0 /\ block.form = "open"
     THEN SetReg(Reg, n) /\ UNCHANGED status
     ELSE status' = "fault" /\ UNCHANGED regs
  /\ Next1 /\ UNCHANGED <<eax, stack, stored>>

StoreWord ==
  /\ At("store")
  /\ Put({IF Reg = "edi" THEN regs["edi"] + Num ELSE Num})
  /\ Next1 /\ UNCHANGED <<regs, eax, stack>>

(* repz stos: ecx words from edi on. *)
StoreWords ==
  /\ At("stos")
  /\ Put({regs["edi"] + 4 * i : i \in 0 .. regs["ecx"] - 1})
  /\ regs' = [regs EXCEPT !["edi"] = @ + 4 * regs["ecx"], !["ecx"] = 0]
  /\ Next1 /\ UNCHANGED <<eax, stack>>

(* sub and jnz, or loop.  A counter that is 0 goes on to -1 here and to    *)
(* 2^32 - 1 on the processor.  Only the clash of counters makes it 0 before *)
(* its loop begins a round (CountersClash); the loop then stores beyond the *)
(* end of the storage long before either number is 0 again.                *)
Count ==
  /\ At("loop")
  /\ SetReg(Reg, regs[Reg] - 1)
  /\ pc' = IF regs[Reg] = 1 THEN pc + 1 ELSE pc - Num
  /\ UNCHANGED <<scope, block, n, code, status, eax, stack, stored>>

UseStack ==
  /\ \/ At("push") /\ stack' = <<regs[Reg]>> \o stack /\ UNCHANGED regs
     \/ At("pop") /\ SetReg(Reg, Head(stack)) /\ stack' = Tail(stack)
  /\ Next1 /\ UNCHANGED <<status, eax, stored>>

Return ==
  /\ status = "run" /\ pc > Len(code)
  /\ status' = "done"
  /\ UNCHANGED <<scope, block, n, machine>>

Execute == SetEax \/ Assign \/ Load \/ StoreWord \/ StoreWords \/ Count \/ UseStack \/ Return

TINext == Declare \/ Start \/ Execute

TISpec == TIInit /\ [][TINext]_tivars

(* The processor goes on. *)
FairTI == TISpec /\ WF_tivars(Execute)

-----------------------------------------------------------------------------
(* What the collector visits of a table: the offsets before the first -1,  *)
(* or those of each of an open array's elements (MarkABlock).              *)
FixedPart(table) == SubSeq(table, 1, (CHOOSE i \in DOMAIN table :
                       table[i] = -1 /\ \A j \in 1 .. i - 1 : table[j] # -1) - 1)

IsOpen(table) == table[1] = -2
Offsets(table) ==
  IF IsOpen(table) THEN SubSeq(FixedPart(table), 4, Len(FixedPart(table))) ELSE FixedPart(table)

Visited(table) ==
  IF IsOpen(table)
  THEN {table[2] + i * table[3] + o : i \in 0 .. n - 1, o \in ToSet(Offsets(table))}
  ELSE ToSet(Offsets(table))

IsExact(table, slots) == Visited(table) = slots /\ IsInjective(Offsets(table))

(* The table of a type descriptor, or that of a module's globals (whose    *)
(* frame begins 4 bytes further), names every pointer once and nothing     *)
(* else.                                                                   *)
TablesExact ==
  status = "declare" =>
    /\ block # NoBlock =>
         IsExact(CodeBlocklists(BlocklistOfType(block, "pointer")), SlotsHere("pointer"))
    /\ block = NoBlock /\ level = MODULELEVEL =>
         IsExact(CodeGlobalBlocklists(BlocklistOfVars("pointer")),
                 {o - 4 : o \in SlotsHere("pointer")})

(* The parts of a frame's table for open arrays: offset of the parameter,  *)
(* size of its elements, offsets of their pointers.                        *)
OpenParts(table) ==
  {[ofs |-> table[i + 1], incr |-> table[i + 2],
    slots |-> ToSet(FixedPart(SubSeq(table, i + 3, Len(table))))] :
     i \in {j \in Len(FixedPart(table)) + 2 .. Len(table) : table[j] = -2}}

Decls == ProcDecls(params, vars)
IsOpenPar(d) == d.ty.form = "open"

(* Where the values are: the frame holds those of the locals and of the    *)
(* value parameters passed as values.  What is passed by reference the     *)
(* procedure copies; of an open array the table says how to get to the     *)
(* copy from the parameter, of a record or another array it does not.      *)
ByValue == {p \in ToSet(params) : p.mode = "VALPAR"}
InFrame == ToSet(vars) \cup {p \in ByValue : p.ref = "VALPAR"}
OpenPars == {p \in ByValue : IsOpenPar(p)}
Copied == {p \in ByValue : p.ref = "REFPAR" /\ ~IsOpenPar(p)}

Pointers(t) == Slots(t, "pointer")
PointerList(d) == BlocklistOfType(d.ty, "pointer")

(* An open array and another declaration next to it in the list, which     *)
(* ConcatBlocklists takes for one row of blocks.                           *)
Confused(i, j) ==
  LET d == Decls[i]
      e == Decls[j]
  IN /\ i < j /\ \A k \in i + 1 .. j - 1 : PointerList(Decls[k]) = NoBlocklist
     /\ PointerList(d) # NoBlocklist /\ PointerList(e) # NoBlocklist
     /\ IsOpenPar(d) \/ IsOpenPar(e)
     /\ Fit([Last(PointerList(d)) EXCEPT !.ofs = d.addr + @], PointerList(e)[1], e.addr)

(* The table of a procedure's frame names every pointer the frame holds    *)
(* and every open array with pointers that is passed by value, and it      *)
(* names nothing else unless a record or array with pointers is Copied:    *)
(* PtrBlOfProcDecls does not look at refMode, so that of such a parameter  *)
(* the table has the places where the pointers were if the value stood in  *)
(* the frame, and the pointers of the copy are in no table.  Where         *)
(* ConcatBlocklists takes an open array and its neighbour for one row, the *)
(* table has neither of them right.                                        *)
FrameTable ==
  /\ status = "declare" /\ level # MODULELEVEL
  /\ \A i, j \in DOMAIN Decls : ~Confused(i, j)
  => LET table == CodeLocalBlocklists(BlocklistOfProcDecls(params, vars, "pointer"))
         named == ToSet(FixedPart(table))
         pointers == UNION {{d.addr + o : o \in Pointers(d.ty)} : d \in InFrame}
         opens == {[ofs |-> p.addr, incr |-> p.ty.elem.size, slots |-> Pointers(p.ty.elem)] :
                     p \in {q \in OpenPars : Pointers(q.ty.elem) # {}}}
     IN /\ pointers \subseteq named
        /\ {o \in OpenParts(table) : o.slots # {}} = opens
        /\ (\A p \in Copied : Pointers(p.ty) = {}) => named = pointers

-----------------------------------------------------------------------------
(* The registers in which the code for a list counts. *)
Counters[bl \in AllLists] ==
  UNION {CASE IsFew(b) -> {} [] IsFill(b) -> {"ecx"}
           [] IsLoop(b) -> {Counter(b.height)} \cup Counters[b.sub] : b \in ToSet(bl)}

(* A loop in the code counts in a register that a loop within it uses too. *)
Reused[bl \in AllLists] ==
  \E b \in ToSet(bl) :
    LET height == IF b.count < 0 THEN Last(b.sub).height + 1 ELSE b.height
    IN b.sub # NoBlocklist /\ (\/ height <= 3 /\ Counter(height) \in Counters[b.sub]
                               \/ Reused[b.sub])

CountersClash ==
  \E kind \in Kinds : Reused[IF block # NoBlock THEN BlocklistOfType(block, kind)
                                               ELSE BlocklistOfVars(kind)]

(* When the initialiser returns it has set every pointer to NIL and every  *)
(* procedure variable to NILPROC and stored nothing else; and it leaves    *)
(* the storage only if a counter is used by two nested loops, which        *)
(* happens: BlocklistOfArrayType and OpenTypeInitializing count the height *)
(* of a list without the loops that have none.                             *)
InitExact ==
  /\ status = "done" => stored = Wanted
  /\ status = "fault" => CountersClash

(* The initialiser returns, unless two nested loops share a counter. *)
InitEnds == (status = "run" /\ ~CountersClash) ~> status = "done"

(* The sweep, which walks the heap with the skippers, moves from each      *)
(* block to its end as NEW computed it.                                    *)
SkipperAgrees == block # NoBlock => Skipped(block, n) = BlockSize(block, n)
=============================================================================

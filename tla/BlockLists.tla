----------------------------- MODULE BlockLists ------------------------------
(***************************************************************************)
(* The block lists of a type (src/src/BL.pum) and the tables of offsets    *)
(* made from them (src/src/CODEf.pum.TDesc), by which the collector finds  *)
(* the pointers of a heap block, a module's globals or a frame.            *)
(*                                                                         *)
(* A block list is a sequence of entries, the last one first in the code's *)
(* prev chain: count blocks, incr bytes apart from offset ofs on, each a   *)
(* pointer (sub empty) or again described by sub.  height tells the        *)
(* initialiser's code which register counts the entry's loop; a count      *)
(* below 0 is the number of dimensions of an open array.  BL.pum has every *)
(* function twice, for pointers and for procedure variables: here kind.    *)
(***************************************************************************)
EXTENDS Layout, SequencesExt

CONSTANTS
  AllTypes,  \* the types of the program, with all their components
  Depth      \* bound: how deep they nest

BlocklistLoopUnrollingThreshold == 2

Entry(sub, ofs, count, incr, height) ==
  [sub |-> sub, ofs |-> ofs, count |-> count, incr |-> incr, height |-> height]

NoBlocklist == << >>
cPointerBlocklist == <<Entry(NoBlocklist, 0, 1, 4, 0)>>

-----------------------------------------------------------------------------
(* Types, as their declarations make them.  Fields are not aligned.  depth *)
(* is not in the code: it says how deep a type's components nest, as no    *)
(* type contains itself.                                                   *)
Leaf(form, size) == [form |-> form, size |-> size, depth |-> 0]
Pointer == Leaf("pointer", 4)
Procedure == Leaf("procedure", 4)
Basic(size) == Leaf("basic", size)
ArrayOf(len, t) ==
  [form |-> "array", size |-> len * t.size, len |-> len, elem |-> t, depth |-> t.depth + 1]
OpenOf(odim, t) ==
  [form |-> "open", size |-> 0, odim |-> odim, elem |-> t, depth |-> t.depth + 1]
RecordOf(ts) ==
  LET upto[i \in 0 .. Len(ts)] ==
        IF i = 0 THEN [size |-> 0, depth |-> 0]
        ELSE [size |-> upto[i - 1].size + ts[i].size,
              depth |-> IF upto[i - 1].depth > ts[i].depth THEN upto[i - 1].depth
                        ELSE ts[i].depth + 1]
  IN [form |-> "record", size |-> upto[Len(ts)].size,
      fields |-> [i \in DOMAIN ts |-> [ty |-> ts[i], addr |-> upto[i - 1].size]],
      depth |-> upto[Len(ts)].depth]

(* A part of the storage of a type t at the address addr, from 0 on. *)
PartOf(t, part, addr) ==
  /\ part \in AllTypes /\ part.form # "open" /\ part.depth < t.depth
  /\ addr \in Nat /\ addr + part.size <= t.size

(* What the declarations of types ensure: sizes are those of the parts,    *)
(* the fields of a record lie apart, and only parameters and heap blocks   *)
(* are open arrays.                                                        *)
Declared(t) ==
  /\ WellFormed(t) /\ t.depth \in 0 .. Depth
  /\ t.form \in {"pointer", "procedure"} => t.size = 4
  /\ t.form = "array" =>
       t.len \in Nat \ {0} /\ t.size = t.len * t.elem.size /\ PartOf(t, t.elem, 0)
  /\ t.form = "open" =>
       t.elem \in AllTypes /\ t.elem.form # "open" /\ t.elem.depth < t.depth
  /\ t.form = "record" =>
       /\ t.fields \in Seq([ty : AllTypes, addr : Nat])
       /\ \A i \in DOMAIN t.fields : PartOf(t, t.fields[i].ty, t.fields[i].addr)
       /\ \A i, j \in DOMAIN t.fields : i # j => Apart(VarBytes(t.fields[i]), VarBytes(t.fields[j]))

ASSUME TypesAssumption ==
  Depth \in Nat /\ Types \subseteq AllTypes /\ \A t \in AllTypes : Declared(t)

(* The block lists with at most d levels of sub lists. *)
Lists[d \in Nat] ==
  IF d = 0 THEN {NoBlocklist}
  ELSE Seq([sub : Lists[d - 1], ofs : Int, count : Int, incr : Int, height : Int])

AllLists == Lists[Depth + 1]

-----------------------------------------------------------------------------
HeightOfBlocklist(bl) == Max({0} \cup {b.height : b \in ToSet(bl)})

AdjustIncr(bl, size) ==
  IF Len(bl) = 1 /\ bl[1].count = 1 THEN <<[bl[1] EXCEPT !.incr = size]>> ELSE bl

(* The block c continues the row of blocks b. *)
Fit(b, c, base) ==
  /\ b.incr = c.incr
  /\ b.ofs + b.count * b.incr = base + c.ofs
  /\ b.sub = c.sub

(* The first entry of b2 may continue the last one of b1; the others are   *)
(* appended.                                                               *)
ConcatBlocklists(b1, b2, base) ==
  LET moved == [i \in DOMAIN b2 |-> [b2[i] EXCEPT !.ofs = base + @]]
  IN IF b1 # NoBlocklist /\ b2 # NoBlocklist /\ Fit(Last(b1), b2[1], base)
     THEN Append(Front(b1), [b2[1] EXCEPT !.ofs = Last(b1).ofs,
                                          !.count = Last(b1).count + @])
            \o Tail(moved)
     ELSE b1 \o moved

\* Mutant: rows of rows are joined without a look at their distance.
RowOfRows_Always(e, size) == TRUE

RowOfRows(e, size) == e.count * e.incr = size

BlocklistOfArrayType(bl, len, size) ==
  LET h == HeightOfBlocklist(bl)
      loop == h > 0 \/ len > BlocklistLoopUnrollingThreshold
  IN CASE bl = NoBlocklist -> NoBlocklist
       [] Len(bl) = 1 /\ bl[1].count = 1 ->
            <<[bl[1] EXCEPT !.count = len, !.incr = size]>>
       [] Len(bl) = 1 /\ bl[1].count # 1 /\ RowOfRows(bl[1], size) ->
            <<[bl[1] EXCEPT !.count = @ * len]>>
       [] len = 1 /\ ~(Len(bl) = 1 /\ bl[1].count = 1) -> bl
       [] OTHER -> <<Entry(bl, 0, len, size, IF loop THEN h + 1 ELSE h)>>

(* The lists bls of types, each at the address of a declaration. *)
ConcatDecls(decls, bls) ==
  LET upto[i \in 0 .. Len(decls)] ==
        IF i = 0 THEN NoBlocklist
        ELSE ConcatBlocklists(upto[i - 1], bls[decls[i].ty], decls[i].addr)
  IN upto[Len(decls)]

BlocklistOfOpenArrayType(t, bl, kind) ==
  IF t.elem.form \in {"array", "record", kind}
  THEN <<Entry(bl, 0, -t.odim, t.elem.size, 0)>>
  ELSE NoBlocklist

BlocklistsOf(kind) ==
  LET bls[t \in AllTypes] ==
        CASE t.form = kind -> cPointerBlocklist
          [] t.form = "open" -> BlocklistOfOpenArrayType(t, bls[t.elem], kind)
          [] t.form = "array" -> BlocklistOfArrayType(bls[t.elem], t.len, t.elem.size)
          [] t.form = "record" -> AdjustIncr(ConcatDecls(t.fields, bls), t.size)
          [] OTHER -> NoBlocklist
  IN bls

BlocklistOfType(t, kind) == BlocklistsOf(kind)[t]

(* The blocks of all variables, each at its address. *)
BlocklistOfDecls(decls, kind) == ConcatDecls(decls, BlocklistsOf(kind))

BlocklistOfModuleGlobals(globals, kind) ==
  ConcatDecls(globals,
    [t \in AllTypes |-> AdjustIncr(BlocklistOfType(t, kind), Align4(t.size))])

(* From the last variable, which has the lowest address, up. *)
BlocklistOfProcLocals(locals, kind) == BlocklistOfDecls(Reverse(locals), kind)

\* Mutant: VAR parameters are taken for values.
ValuePars_AllModes(pars) == pars

ValuePars(pars) ==
  LET upto[i \in 0 .. Len(pars)] ==
        IF i = 0 THEN << >>
        ELSE IF pars[i].mode = "VALPAR" THEN Append(upto[i - 1], pars[i]) ELSE upto[i - 1]
  IN upto[Len(pars)]

(* The locals and value parameters, from the last one down. *)
ProcDecls(pars, locals) == Reverse(locals) \o Reverse(ValuePars(pars))

BlocklistOfProcDecls(pars, locals, kind) == BlocklistOfDecls(ProcDecls(pars, locals), kind)

-----------------------------------------------------------------------------
(* Offsets, base bytes further. *)
Moved(offsets, base) == [i \in DOMAIN offsets |-> base + offsets[i]]

(* The offsets of the blocks of an entry, of which block has those of one. *)
Row(block, ofs, incr, count) ==
  FlattenSeq([j \in 1 .. count |-> Moved(block, ofs + (j - 1) * incr)])

CodeFixed[bl \in AllLists] ==
  FlattenSeq([i \in DOMAIN bl |->
    Row(IF bl[i].sub = NoBlocklist THEN <<0>> ELSE CodeFixed[bl[i].sub],
        bl[i].ofs, bl[i].incr, bl[i].count)])

CodeFixedBls(bl, base) == Moved(CodeFixed[bl], base)

(* The part of a table that describes an open array. *)
OpenPart(b, ofs) == <<-2, ofs, b.incr>> \o CodeFixedBls(b.sub, 0) \o <<-1>>

CodeBlocklists(bl) ==
  IF bl # NoBlocklist /\ Last(bl).count < 0
  THEN OpenPart(Last(bl), ArrayOfsFromODim(-Last(bl).count))
  ELSE CodeFixedBls(bl, 0) \o <<-1>>

CodeGlobalBlocklists(bl) == CodeFixedBls(bl, -4) \o <<-1>>

CodeOpenBls(bl) ==
  FlattenSeq([i \in DOMAIN bl |->
    IF bl[i].count < 0 THEN OpenPart(bl[i], bl[i].ofs) ELSE << >>])

CodeLocalBlocklists(bl) == CodeFixedBls(bl, 0) \o <<-1>> \o CodeOpenBls(bl)

-----------------------------------------------------------------------------
(* What the lists are to describe: the offsets of the pointers (kind) in a *)
(* value of type t.                                                        *)
Placed(decls, slots) ==
  UNION {{d.addr + o : o \in slots[d.ty]} : d \in ToSet(decls)}

SlotsOf(kind) ==
  LET slots[t \in AllTypes] ==
        CASE t.form = kind -> {0}
          [] t.form = "array" ->
               {i * t.elem.size + o : i \in 0 .. t.len - 1, o \in slots[t.elem]}
          [] t.form = "record" -> Placed(t.fields, slots)
          [] OTHER -> {}
  IN slots

Slots(t, kind) == SlotsOf(kind)[t]
SlotsOfDecls(decls, kind) == Placed(decls, SlotsOf(kind))
=============================================================================

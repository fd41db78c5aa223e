# A verification project for JACOB

JACOB ("Just Another COmpiler for oBeron") compiles Oberon-2 for the i386
under Linux. It is written in Modula-2 and in the languages of the compiler
tools Rex, Lalr, Ast, Ag, Puma and Beg; the programs it makes are linked with a
run-time system in C and assembler. This directory holds TLA+ modules of the
parts whose correctness depends on long sequences of steps, the TLC
configurations that check them, and theorems that TLAPS has proved.

Paths below are relative to the repository. `src/` there holds the compiler and
the run-time system, `lib/` the library in Oberon.

To check a run: `tlc -config MCHeap.cfg MCHeap`. To check the proofs:
`tlapm HeapProofs.tla`, and likewise `HeapMemProofs`, `MarkProofs`, `RuntimeProofs`,
`NDPProofs`, `TypeProofs`, `InitProofs`, `MakeProofs`.

## 1. Inventory

### The parts

| part | files | state | operations |
|---|---|---|---|
| heap manager | `src/Storage.c`, `lib/Storage.ob2` | the words between `HeapStart` and `HeapEnd`: tags, free list, clients' data; `HeapEnd` | `Alloc`, `Free`, `$staticNEW`, `$openNEW`, `SYSTEM$NEW`, `GetInfo`, `ChangeHeapSize`, the dumps |
| garbage collector | `src/Storage.c` (`Mark`, `Sweep`, `GC`) | mark bits and places in the tags, reversed pointers, `root_ebp` | `GC` = `Mark; Sweep` |
| fail handlers | `src/Storage.c`, `lib/VerboseGC.ob2` | `AllocFailHandlerProc`, the number of attempts of a NEW | `SetAllocFailHandler`, `DefaultAllocFailHandler`, `GcFirstHandler`, `IncrFirstHandler` |
| start and end of a program | `src/OB2RTS.as`, root module by `src/Target.mi`, `lib/Lib.ob2` | the stack frames, `_ExitProc`, `ExitCode`, the pseudo frames of the modules' globals | `main`, the root's init procedure, module bodies, `Terminate`, `Halt`, run-time errors, `DumpProcStack` |
| driver | `src/Jacob.mi`, `DRV.mi`, `FIL.mi`, `TBL.mi`, `Target.mi`, `ARG.mi` | the stack of open files (`FIL.ActP`), the table of compiled modules, link and library lists, `linkable`, `youngestTime`, `ProgramReturnCode`; files and their times | compile the files of the command line, import, assemble, link |
| numeric processor stack | `src/NDP.mi`, tables of `ASMOP.mi`, callers in `oberon.cgd*` | `Top`, `NofFTemps`, `MaxNofFTemps`; at run time registers and temporaries | `Init`, `C0`, `C1`, `CS1`, `Save`, `SetTop`, `UsedTempSize` |
| block lists and type descriptors | `src/BL.pum`, `CODEf.pum`, `CODEf.pum.TDesc`, `CODEf.pum.Init` | lists of pointer and procedure offsets of a type | merging, writing of offset tables, code of initialisers and skippers |
| storage layout | `src/ADR.pum`, `oberon.eva` | sizes and offsets; the next address, threaded through a scope | sizes of types, addresses of variables, parameters, temporaries |
| labels, constants | `src/LAB.mi`, `CV.mi` | a counter per file, hash tables of constants | `NewLocal`, `Lookup`, `Code` |
| error lists | `src/ErrLists.mi`, `ERR.mi`, `Errors.mi`, `POS.mi` | one sorted list per open file | `App`, `Write`, `Length` |
| constant arithmetic | `src/OT.mi`, `V.pum`, `CO.pum` | none | folding of operators and predeclared functions |
| symbol table | `src/T.pum`, `TT.pum`, `E.pum`, `SI.pum`, `PR.pum`, `OD.pum`, `OB.ast` | tables of entries and types | scope search, type relations, signatures |
| evaluator and checks | `src/oberon.eva`, `.che`, `.pre`, `.ast` | attributes of the syntax tree | declaration and use, context conditions |
| scanner, parser | `src/oberon.rex`, `.lal` | generated | |
| code generation | `src/CODE.pum*`, `CODEf.pum*`, `oberon.cgd*` | Beg's intermediate code | translation of trees, choice of instructions and registers |
| assembler output | `src/ASM.mi`, `ASMOP.mi`, `ED.mi` | a text buffer, late label values | one procedure per instruction format |
| utilities, library, tests | `src/STR.mi`, `O.mi`, `UTI.mi`, ..., `lib/*.ob2`, `src/CTest`, ... | | |

### How they interact

The driver opens a file, has it parsed, and is called back by the attribute
evaluator for each import; it then opens the imported module *inside* its client
and so on, so that files are handled in stack order. When a module's attributes
are known and its object is out of date, the code generator runs over the tree;
it asks `ADR` for addresses, `BL` for the pointers of each type, and `NDP` for
the floating point operands. The generated program shares three things with the
run-time system: the tag in front of each block and each stack frame, the offset
tables to which tags point, and the chain of frames through `ebp`. The root
module, generated at link time, puts the globals of every module onto this chain.
`NEW` calls the heap manager, which calls a fail handler, which may be Oberon
code and calls the heap manager and the collector again.

Nothing runs in parallel: compiler and compiled program are single processes with
a single thread. What interleaves is the program between two calls of the
run-time system, a handler in the middle of a NEW, an import in the middle of a
compilation, and the programmer's edits between two runs of the compiler.

### What is hard

- *Blocks of 8 bytes*: they have no room for their size. Every operation on the
  free list has a case of its own for them, and the word a size would take
  belongs to the neighbour.
- *Marking without a stack*: `Mark` stores its way back in the pointers it
  follows and its place in the tags; all must be restored, on every graph.
- *Handlers that call back*: the heap changes under a running `NEW`.
- *Time stamps and tables*: what has been compiled is decided by the times of
  files, passed from server to client, while compiled modules are kept in a table.
- *Frames as data*: the collector and the run-time errors take words of frames
  for type descriptors, in code that is part compiled, part assembler.
- *Tables about data*: which words of a block, a frame or a module are pointers is
  compressed into lists of rows, from which tables and straight-line or looping code are
  made; a pointer left out or invented shows in a collection much later.
- *Counters for a processor's stack*: `NDP` counts at compile time what will be in
  registers at run time.

What makes each part correct is stated with the modules in section 3. The
hazards at their lines are in `PROJECT.json`.

## 2. Plan

Modules in the order of importance. An arrow reads "is shown to implement".

1. `Heap`, the store of blocks; `HeapMem` -> `Heap`, its words. *Done.*
2. `Trace`, what marking promises; `Mark` -> `Trace`, pointer reversal. *Done.*
3. `Runtime`, on top of `Heap`: a program, NEW, the handlers and the collector. *Done.*
4. `HeapProofs`, `RuntimeProofs`: theorems about 1 and 3. *Done.*
5. `Make`: the driver. *Done.*
6. `Program`: start, end and failure of a linked program. *Done.*
7. `OperandStack`; `NDP` -> `OperandStack`, with `NDPProofs`. *Done.*
8. `Layout`, addresses and sizes; on top of it `BlockLists` and `TypeInit`, the lists of
   pointers, the tables and the code made from them; `TypeProofs` and `InitProofs` about the three. *Done.*
9. `MarkProofs` (`Trace` marks what is reachable; `Mark` -> `Trace` for every graph, all
   restored), and theorems about 6 in `RuntimeProofs`. *Done.*
10. `MakeProofs`: all safety properties of the driver's run. *Done.*
11. `HeapMemProofs`: `HeapMem` -> `Heap` and the other properties of the words. *Done.*

No further module is planned: what is left out, and why, is in section 7.

Bounds are given with each run in section 4. Liveness is left to TLC (section 6).

## 3. Modules

### Heap, HeapMem

`Heap` has three variables: `heapEnd`, and the functions `free` and `used` from the
addresses of blocks to their sizes. Its actions are what a call does to the
blocks: `Alloc` (first fit, the rest stays free), `FreeBlock` (a block is given
back and merged with its neighbours), `Sweep` (any set of blocks survives; runs of
dead and free blocks become one), `IncreaseHeap`, `DecreaseHeap` behind
`ChangeHeapSize`. Sizes and addresses are bytes, rounded with `ALIGN(8,_)`. Two
properties concern steps: `Steady` (a block in use keeps its place and size until it is
`GivenBack`, by a `Free` of that very block or by a sweep that does not find it marked)
and `SweepCoalesces`.

`HeapMem` has the words themselves. `mem` maps the word addresses to what the code
writes there: tags (the descriptors `AB$D`, `FB$D`, `B8$D`, `ZB$D`, type
descriptors, `SB$S` with a size for SYSTEM.NEW), links, sizes, and the marks that a
client fills its block with. The variable `client` says who works on the heap, which
never changes: a C program like `src/StorageTest.c`, whose `AllocElem` asks `GetInfo`
for the largest free block before it calls `Alloc` and then fills the block, and whose
`FreeElem` gives it back, in any order (`StressTest`); or Oberon code (the three NEWs and `GC` with any set of marked blocks).
A pointer that `Free` calls corrupt halts the client (`halted`). Searches, merges and
the walks of `GetInfo` and `DumpHeap` follow links and tags as the code does. Each of these
loops is a step that `Loop` repeats, at most `MaxSteps` times: a walk passes a block with
each step, so that it cannot be longer than the largest heap has granules (`LoopEnds` of
`HeapMemProofs` is used for every loop to prove that it has ended). The lengths of an open array
are a constant (`Lengths`), one per dimension and any number of them; their product (`Product`) and
all sizes are unbounded numbers, where the code's multiplication wraps at 2^32. `ImplementsHeap` is the refinement: `free` is the list
from the anchor, `used` the array of the client.

### Trace, Mark

`Trace` marks one block after another, each because a root or a marked block points
to it, and ends when nothing reachable is unmarked. `Mark` is the assembler text of
`Mark` loop by loop. `pc` says in which loop it is; `act`, `last`, `desc`, `base`,
`count` are its registers (the comments in the code name them so), `stack` the
machine stack, `marked` and `place` the two parts of a tag, `ptr` the pointer
fields. Frames have a fixed part and open-array parameters, blocks are records, open
arrays or blocks of SYSTEM.NEW. The initial states are all graphs over the blocks
of the configuration.

### Runtime

Extends `Heap` with a program: pointer variables `var`, one pointer field per block
`fld`, which are assigned, loaded, stored and cleared in any order; `New` with its
loop (`Found`, `AllocFail`, the handlers); `GC`, which sweeps what no variable
reaches; `ChangeHeapSize`; `SetAllocFailHandler`. `pc` is where the run-time system
is, `req` the NEW that is under way. The module composes the block store with the
collector as `Trace` specifies it: `Reachable` is what `Mark` was shown to mark.
`NewEnds` promises under `IncrFirstHandler`, which never gives up, that a request
returns which growing and collecting can serve at all (`Servable`).

### Program

`act` is the stack of activations (main, root, a module body, Halt, an exit
procedure), each with the chain of frames that starts at its `ebp`. `tagged` are the
modules whose globals' tag has been set, `next` the next body to call, `exitProc` and
`old` the chain of exit procedures, `registered` and `ran` record the order of
installation and of running. The actions are the instructions between two calls:
`CallRoot`, `LinkGlobals`, `CallBody`, `BodyReturns`, `Terminate`, `HALT`, `RtErr`,
`AssertFail`, `RootReturns`, `MainHalts`, `CallOldExit`, `ExitProcReturns`.

### Make

`disk` are the programmer's files: what each module imports, when its source was
edited, which defect it has, for each object and each program its time and *what it was
made from* (the time of the source of each module in its closure); this last is
not in the code and lets the properties say what "fresh" means. `stack` is
`FIL.ActP`, with the source time that `AdjustClientSourceTime` changes; `tbl`,
`linklist`, `libs`, `linkable`, `youngest`, `code` are the variables of the code. One
action per decision of `DRV`: parse, import known / failing / opening, evaluated with
or without errors, up to date, foreign, assembled, assembly fails, close, link, link
fails, exit. `Edit` is the programmer between two runs, at least a second after the last of
them, and `Provide` an object file of a foreign module that is laid beside its source: time stamps are
compared before `IsForeign` is asked, so such a module is listed like one of jacob's, while
without an object it stands for a library. The program is taken to lie beside the source of
its main module. `job` is the command line of the
run, a command with the files it is given, and whether assembler and linker may fail in
it. The properties about what is linked look at the moment of linking: `LinkComplete` says that link
list and libraries together are the modules the program needs, `LinkInOrder` that a module on the list comes after
those it imports, except those that come from libraries, `LinkedFresh`
compares what each linked object was made from with the sources.

### OperandStack, NDP

`OperandStack` is the stack without limit that `src/NDP.md` promises. `NDP` has the
compiler's counters (`Top`, `NofFTemps`, `MaxNofFTemps`), the ring of registers of the
processor (`fpu`) and the temporaries (`temps`). A step is one call of `NDP`
together with the execution of what it emits: code is emitted in the order in which it
runs. The exception is a RETURN of a real number that is jumped over (`SkippedReturn`,
counted by `skipped`): it leaves its operand counted, and the model goes on with the wrong count through
the rest of the procedure. `pending` and `out` say what the operands
should be and what was delivered; the refinement compares `out`. `jumbled` remembers
that a call saved two registers at once, whose order `Save` reverses. A temporary holds
a value as a double; rounding on the way there is left out.

### Layout, BlockLists, TypeInit

`Layout` declares the parameters and variables of one scope, one after the other
(`DeclarePar`, `DeclareVar`), with the addresses of `ADR.NextParAddr` and
`ADR.NextVarAddr`; `parAddr` and `varAddr` are the attributes that `oberon.eva` hands from
declaration to declaration. `LayoutRight` says that no two share a byte, that none lies
in the links of the frame, and that each is aligned. `BlockSize` is what NEW allocates,
`Skipped` what the skipper of the type descriptor adds.

`BlockLists` translates `BL.pum`: the list of a type, of a module's globals, of a
procedure's locals and parameters, with `ConcatBlocklists`, `AdjustIncr` and
`BlocklistOfArrayType` case by case; and `CODEf.pum.TDesc`, which writes lists out as
tables. The reference is `Slots`, the pointers of a value by the structure of its type.
Lists and types are trees: what recurs over them in the code is a recursive function here,
over `AllTypes`, the types of the program with all their components, or over `AllLists`, the
lists nested no deeper than types are (`Depth`). A type carries the depth of its nesting, which is not in
the code; `TypesAssumption` says what declarations ensure: no type contains itself, the
parts of a type lie within it, the fields of a record lie apart, and open arrays are parts of nothing.

`TypeInit` generates the code of `CODEf.pum.Init` from the lists (the initialiser of a
type, or the initialisation at the start of a module or procedure) and executes
it on a processor with the registers the code uses: an action per kind of instruction
(`Assign`, `Load`, `StoreWord`, `StoreWords` for `repz stos`, `Count` for the end of a
loop, `UseStack`). `stored` is what has been written; a word outside the
storage ends the execution (`status = "fault"`). The initial states choose either a scope,
which is then declared, or a type of a heap block with its number of elements.

## 4. Runs

| run | bounds | shows |
|---|---|---|
| `heap` | heap of 64 to 72 bytes, blocks of 8 and 16, four changes of size | tiling, `Steady`, `SweepCoalesces` |
| `heapmem` | heap of 48 to 64 bytes; requests 5, 13, 24 (blocks of 8, 16, 24) of C; records, open arrays of one to three dimensions with lengths 0 to 2 and SYSTEM.NEW of Oberon; changes of 16, -5, -24 | clients' data intact, list ordered up to the sentinel, `GetInfo` right, the skippers lead over the whole heap, refinement |
| `mark` | a record of two pointers, an open array of two elements, a SYSTEM.NEW block, two frames, one with an open-array parameter; all graphs | pointers and tags restored, exactly the reachable marked, stack bounded, ends |
| `runtime` | two variables, blocks of 16 and 24, heap of 16 to 64 bytes, three handlers | no dangling pointer, all garbage taken, default handler gives up only after collecting and when the heap can neither serve the request nor grow; every NEW ends under the handlers that collect first |
| `program` | three modules, two HALTs | roots, dump, order of exits, end |
| `ndp` | three registers, five operands of two values, calls with any number of operands in registers, one RETURN jumped over anywhere | counters agree with the processor, nothing lost, frame large enough; until a call saves two registers, results as from an unbounded stack; after a RETURN jumped over, number of operands and size of the frame still right |
| `make` | four modules, one of them foreign, on three graphs: a tree with the foreign module inside, a mesh with a shared module, a cycle; a foreign object beside its source or none; two times of editing; missing files, errors of syntax and of context; with and without `-it` (compile everything); tools that fail or not; one program per run, two files in runs that do not link | link order and completeness, no faulty module linked, freshness on trees, no needless work, return code of `Make` and `MakeButDontLink`, every run ends |
| `types` | types of three levels with arrays of 1 to 3 elements, five nested loops, open arrays of one to three dimensions with 1 to 3 elements of all sizes the skipper tells apart; scopes of up to two parameters and two variables of eleven types, in a module and in a procedure | tables name every pointer once and nothing else (of frames with the two exceptions of section 5), initialisers set exactly what they should and return, skippers agree with NEW, declarations lie apart |
| `grow_by_eight`, `mark_system`, `make_stale`, `make_two_files` | small instances | what the code does against what the repository says, see section 5 |

**Why the bounds are enough.** A heap of six to eight granules has room for a free block of
8 bytes on either side of a larger one, for a block with both neighbours free, for
splits that leave nothing, 8 bytes or more, and for the last block free or in use: these
are all cases the code tells apart. In `Mark` each kind of pointer (fixed part and
open-array part of a frame, fixed table, element of an open array) meets
blocks of each kind, marked or not, itself included. In `Make` the mesh (A imports
C and B, B imports C) is the smallest graph with a shared module, the tree with an import below its first
branch the smallest in which the order of siblings matters; two times allow
an edit after a complete build. In `types`, counts of 1, 2 and 3 lie below, at and
above the threshold at which initialisers loop; rows of rows, rows with padding and rows
of composite blocks all occur within three levels, and the hand-made nests reach the loop that has to
save its counter. Two declarations show every pair of neighbours; that more of them stay
apart, and that their tables are right, is proved; `Depth` is that of the deepest nest. With more operands than registers plus one, `NDP`
spills twice, and a ring of three registers distinguishes the directions. The
numeric values of sizes never come near 2^32, so overflow is out of
these runs' sight (listed as a hazard).

**Bounds in the guards.** `MaxHeapEnd` stands for the system's refusal of `sbrk`, which the
code handles; `MaxClock` bounds edits and `MaxHalts` the calls of Halt, with those by exit procedures: a
program whose exit procedure calls HALT whenever it runs never ends, and `ProgramEnds` does not say that it
does, because this bound cuts it off. `MaxPending` bounds the operands of an expression, `MaxSkipped`
the RETURNs jumped over in a procedure, `MaxDecls` the declarations of a scope.

**Deadlock** is checked except where the modelled program really stops: a heap whose
client is halted or can do nothing more, `Mark` when it returns, a program that has
exited, an initialiser that has returned.

**Fairness.** Compiler, program and collector are sequential; the system lets
the process run. `FairMark`, `FairProgram` and `FairMake` (there only for the steps of
the compiler, not for the edits or the start of a run) assume weak fairness of the whole next-state
relation, `FairRuntime` of the steps inside one NEW, `FairTI` of the processor that executes an initialiser. No choice between
branches is assumed to be fair.

## 5. Where the code differs from what is said of it

Four of these are runs in which TLC finds the violation, and findings in
`PROJECT.json`:

- `grow_by_eight`: growing by 1 to 8 bytes writes the size of the new free block where
  the sentinel's tag goes; `GetInfo` then reports an address as the number of
  free bytes. The run `heapmem` grows by 16, as all callers but a test grow by more than 8.
- `mark_system`: a pointer to a block of SYSTEM.NEW is traced, but the block has no offset
  table. The run `mark` stops there (`pc = "wild"`), so its properties speak of the walk up to that point.
- `make_stale`: A imports C and B, and B imports C. The program B is made, then C is
  edited, then A is made. A opens C and recompiles it; when B imports C it gets the module from the
  table and keeps its own time, so the object of B that was made from the old C is linked. Of two clients of a
  server only the first learns that it is younger. `LinkedFresh` and `ExeFresh` are therefore stated for trees of imports, and
  `LinkedFresh` for the main module always.
- `make_two_files`: the second program of a command line lacks the modules it shares with the
  first. `LinkComplete` holds for one file per run.

More are visible in the models and shape what the properties say:

- `Free` calls the address of a block of 8 bytes right before the sentinel a corrupt
  pointer, although `Alloc` returned it (`Storage.c:399`): `CorruptPointer` in
  `HeapMem`, after which the client is halted.
- During an exit procedure the chain of frames contains that of `Halt`, which has no tag
  (`OB2RTS.as:84`); `GlobalsAreRoots` and `DumpEnds` therefore speak of module bodies.
- With two or more operands in registers at a call, `Save` stores them in an order in
  which they are not taken back (`NDP.mi:97`); `HeldInOrder` and `ImplementsStack`
  therefore speak of executions in which that has not happened (`~jumbled`). That code
  generated by Beg brings two operands in registers to a call is not shown here, as
  Beg's order of evaluation is not in the repository.
- An array of at most two elements has no height of its own (`BL.pum:107`), but a loop may
  be generated for it. It then counts in `ecx`, which a loop or `repz stos` inside it uses
  as well: for `ARRAY 2 OF RECORD a: ARRAY 3 OF P; c: CHAR END` the initialiser
  stores on beyond its storage. Likewise the loop over an open array takes its height from the last field
  alone (`CODEf.pum.Init:73`). `InitExact` and `InitEnds` are stated up to such a clash
  (`CountersClash`), and `InitExact` says that nothing else makes an initialiser leave its
  storage.
- The table of a frame lists a value parameter as if its value were in the frame, also
  when it is a record or array of more than 4 bytes, which is passed by its address and copied by the
  procedure (`BL.pum:223`). If it has pointers, the table names words of the frame that are none, and the
  pointers of the copy are in no table. For frames with such a parameter (`Copied`) `FrameTable` claims that every
  pointer in the frame is named, and nothing about what else is.
- A RETURN of a real number leaves its operand counted in `NDP.Top`
  (`oberon.cgd.floats.min:33`), which is reset only for the next procedure. If the RETURN is
  jumped over (`IF c THEN RETURN x END`), later code counts one register too many: after it,
  in `RETURN a + f(x)` the call saves `a` and a register that is empty, and the addition takes the latter
  for its operand. The properties of `NDP` say what still holds then: number of operands and size of the frame
  (`HeldInOrder`, `CountersAgree`); order and results are claimed where `skipped = 0`.
- The linker writes the program into the current directory (`Target.mi:290`), while `DRV`
  looks for it beside the source (`DRV.mi:80`); `Make` is about a compiler called in the
  directory of the source, where the two are one.
- A foreign module with an object beside its source is listed, and the root module then calls its body
  by jacob's labels (`Target.mi:210`-`235`), which another compiler's object need not have.
- `ConcatBlocklists` does not see that an entry stands for an open array, whose count is
  minus the number of its dimensions, and whose empty sub list means no pointers where elsewhere it
  means one (`BL.pum:65`). An open array passed by value and the declaration next to it in the list, when they
  fit like the blocks of a row, become one entry. Two open arrays with elements of
  8 bytes and pointers at the same places do so, and one is lost. A record of 16
  bytes and a pointer that is the first local of a nested procedure (at -28, its pointer at -12) fits an
  open array at 8 with elements of 20 bytes without pointers: the counts 1 and -1 add up to 0, and the
  local's pointer is in no table, though `BL.pum:15` says the list is that "for all parameters and
  local variables of a procedure". `FrameTable` excepts such pairs (`Confused`) and nothing
  else. That it is not only two open arrays that can be taken for a row showed in the attempt to prove
  `FrameTable`, which at first excepted only those; the scopes of the run `types` have no such record.
- The skipper for open arrays with elements of 5 bytes does not assemble (`CODEf.pum:320`).
- The caller of `$openNEW` removes 16+nofLens bytes from the stack and has pushed
  20+4*nofLens (`oberon.cgd.min:960`); this is outside the models.

## 6. Proofs

`HeapProofs` proves for every `HeapStart`, initial and maximal size, every set of
requests and of changes of size (`HeapAssumption`: natural numbers, the start
at 4 modulo 8, at least one free block):

- `Tiling`: `Spec => [](TypeOK /\ InHeap /\ NoOverlap /\ NoLeak)`. The inductive
  invariant is `HeapInv`, the conjunction itself: `NoLeak` says that every granule lies
  in a block, `NoOverlap` that it lies in only one; neither can be shown without the other
  (a merge is disjoint from the rest because nothing else covers its
  bytes), nor without alignment (a split leaves 8 bytes or none). One lemma per action
  shows each conjunct of `HeapInv'`. For `Sweep` the new free blocks are the maximal runs of
  dead granules; that every such run begins and ends at a block uses the
  least element of a set of numbers (`LeastExists`).
- `NothingLost`: `Spec => []NoLeak`, the part of `Tiling` that a run checks by itself.
- `SteadyBlocks`: `Spec => Steady`, from `HeapInv` action by action: an allocation, a `Free` of
  another block, a sweep that found the block marked and a change of the heap's size leave it alone.
- `SweepJoins`: `Spec => SweepCoalesces`. A run of dead granules is maximal, so its
  end is the start of a live block or the end of the heap, never a free block.

`HeapMemProofs` proves that the words of the heap implement the blocks of `Heap`, for every
size of the heap, all requests, all record and open-array descriptors, any number of dimensions
and any lengths, C and Oberon clients
(`HeapMemAssumption`: as for `Heap`, at least 32 bytes, and the descriptors' addresses, from `Text` on, apart
from the heap), and for every set of changes of size without 1 to 8 (`Grown`):

- `MemImplements`: `Spec => ImplementsHeap`, and with it everything proved of `Heap`.
- `NothingOverwritten`: `Spec => []ContentsIntact`, no block in use is ever written to.
- `FreeListOrdered`: `Spec => []ListOrdered`; `WalkSeesAll`: `Spec => []WalkComplete`.
- `InfoExact`: `Spec => []InfoCorrect`. The code adds up sizes in the order of the list;
  the sum is the number of bytes that the free blocks cover, which has no order.

`Grown` cannot be dropped: growing by 1 to 8 bytes is the finding `grow_by_eight` (section 5), after
which `ListOrdered` and `InfoCorrect` need not hold. The changes of the run `heapmem` satisfy it.

The invariant (`MemInv`) says that links lead from the anchor through exactly the free blocks, in the
order of their addresses, to the sentinel (`Linked8`), that each has a header that gives its size (`Headed`),
that the sentinel is in place (`Ends`), that free blocks and blocks in use tile the heap (`HeapInv`
of `Heap`), and that what is in use holds what was stored (`ContentsIntact`). None of these
is inductive alone. That a write does not hit the list or a client's data follows from the tiling;
that a search or a merge keeps the tiling follows from the list being complete and in order: only
then is the block before an address in the list its neighbour in memory. So each operation is
shown to write only words of the list, of free blocks or of the block it hands out, and to be a step
of `Heap`, from which the new tiling follows (`Closing`). `Sweep` needs an invariant of
its loop: behind the block it looks at, the list is that of the maximal runs of dead granules
(`Running`, `Written`), ahead of it all words are as they were. TLC has checked `MemInv` on
the instance of `heapmem` too.

`MarkProofs` proves first that `Tracing!TraceSpec => []Tracing!MarksReachable` (`MarkingCorrect`), for
every set of blocks, roots and pointers. Everything marked lies in every closed set, and at
the end what is marked is itself closed (`TraceInv`); so it is the least closed
set. It carries this to the machine's walk, for every set of blocks of every
kind, every graph over them and every non-empty list of frames with any number of
open-array parameters (`MarkAssumption`; open arrays have at least one element, as the
loop over them is entered before their count is tested, see `Storage.c:944`):

- `MarkTraces`: `MarkSpec => ImplementsTrace`, every step a step of `Trace` or a stutter.
- `MarkRestores`: `MarkSpec => []Restored`, with `MarkingCorrect`.
- `ReversedOnWayBack`: `MarkSpec => []OnlyWayBackChanged`.

The algorithm stores its way back in the graph, so the invariant (`MarkInv`) has to name what the
code keeps nowhere: the way `w` from the frame to the block being visited, as a sequence of
visits, one for each entry of the machine's stack (`InStep`). Each visit knows its block and the
pointer of it that was followed; the tag of the block addresses just that pointer, and the
pointer leads to the visit before, the last of all to the frame (`Chain`). No block is
on the way twice (`Once`), because a block is entered only unmarked and marked at once; so the
walk can put back one pointer at a time without meeting its own changes. All pointers off the way are as in
`graph` (`PointersKept`), all tags off the way address their table (`PlacesKept`). What makes
marking complete is `Scanned`: in each block on the way and in the frame the pointers before the
current place lead to marked blocks, and in marked blocks off the way all do (`RestScanned`). `Restored` follows when
the way is empty. The count in `OnlyWayBackChanged` is a bijection between returns
on the stack and blocks of the way.

`RuntimeProofs` carries this to the program, for every set of variables, all sizes
and every set of handlers (`RuntimeAssumption`):

- `RuntimeTypes`, `PointersValid` and `RuntimeTiling` (`RuntimeSpec => []RuntimeTypeOK`,
  `[]NoDangling`, `[](InHeap /\ NoOverlap /\ NoLeak)`). The inductive invariant
  `RuntimeInv` adds `HeapInv` to the properties, and the lemmas of `HeapProofs` serve
  again for the steps of the heap. `Reachable` is closed, so after a collection every
  pointer that is left leads to a block that is left.
- `CollectorExact`: `RuntimeSpec => CollectsAll`. After a collection the
  reachable blocks are the same as before it: a smaller closed set of the new graph
  would have been a closed set of the old one.
- `GiveUpIsRight`: `RuntimeSpec => []GivesUpLast`. The invariant (`NewInv`) has to say
  what the handler's first call achieved when its second comes: no garbage is left, and
  where unused bytes as many as the request lie together, one free block has them
  (`Joined`), because a collection joins the blocks of a run. As the search has failed,
  there is no such run.

`RuntimeProofs` also proves the three safety properties of `Program` for any number of modules in
any link order, and any of them calling `Terminate`, `HALT` or failing in any order
(`ProgramAssumption`): `GlobalsStayRoots`, `DumpStops`, `ExitsInReverse`. The invariant
(`ProgramInv`) says who can have called whom (`Activations`): main the root, the root a body, Halt
an exit procedure. It also says that a body runs only when every module's globals have their tag, with its
own frame in front of the chain that holds them all (`Chained`). For the order of exits it says that `exitProc` and the variables `OldExitProc` link the
registered procedures backwards (`ExitChain`), and during the first Halt which of them have run and
that only the innermost can still call its predecessor (`ExitsSoFar`). `ExitsReversed` is about one
Halt because a second one, called by an exit procedure, starts from `exitProc` again.

`NDPProofs` proves all four properties of `NDP` for every number of registers, every
bound on operands and on RETURNs jumped over, and all values with closed operations (`NDPAssumption`): `NDPTypes`,
`CountersRight`, `OperandsHeld` and the refinement `StackImplemented`. The first lemmas
describe what each instruction of the ring does to `st(0), st(1), ...`; nothing
after them mentions the ring. The invariant has two parts: `Counted`, the number of operands and the room in
the frame, holds whatever is jumped over; `NDPInv`, as long as no RETURN was. `NDPInv` adds to the properties that the temporaries in use
lie in the frame and hold values, without which an operand could be taken
from a temporary that was never written. `DropInv` and `ResultInv` treat all
instructions that use operands alike; a lemma per instruction instantiates them.

`TypeProofs` proves for all types of a program however deep, all nesting levels, any
number of declarations, any length of open arrays (`LayoutAssumption`, `TypesAssumption`,
`TypeInitAssumption`: at least one element, which `LenCheck` ensures):

- `DeclarationsLieApart`: `ScopeSpec => []LayoutRight`. The invariant `ScopeInv` adds
  that every parameter ends at or below `parAddr`, and every variable on the near side of
  `varAddr`, so that a new declaration meets no old one. The work is in rounding: `pAligned` and
  `nAligned` move an address away from what is placed already, by less than the unit.
- `SkipperExact` and `SkippersAgree`: `TISpec => []SkipperAgrees`. The skipper of a type
  moves by exactly the size NEW allocated, whatever the size of the elements and their number;
  for sizes that are powers of 2 from 8 on, aligning before or after the elements are added
  is the same.
- `TablesAreExact`: `TISpec => []TablesExact`. The tables of type descriptors and of
  modules' globals name every pointer once.
- `FrameTablesExact`: `TISpec => []FrameTable`. So do those of procedures' frames, with the
  two exceptions that section 5 explains: value parameters that are passed by reference (`Copied`), and open
  arrays taken for a row with their neighbours (`Confused`).
- `InitialisersExact` (`InitProofs`): `TISpec => []InitExact`. When a generated initialiser returns it has
  stored what it should and nothing else, and it leaves its storage only if two nested loops
  count in the same register.

`AllTypes` and `AllLists` are any sets that satisfy the assumptions, so the proofs begin with
induction: over the natural numbers, from the least element of a set (`Induction`), and over
the depth of a type or a list (`ListRank`). This shows that the recursive functions of the model exist
(`RecursionExists`) and what they yield at each step. The rest is the argument why merging is
right. A list *spells* a sequence of offsets, `CodeFixed`. `ConcatOffsets`: joining two
entries spells what the two spelled one after the other, because rows that continue each
other are one row (`RowSplit`). `ArrayOffsets`: an array's list, in each of the five cases of
`BlocklistOfArrayType`, spells its element's offsets once per element; a row of rows is a row when
the inner one fills the element (`RowOfRow`). By induction over types the list of a type
enumerates its `Slots` without repetition (`TypeEnumerates`); no repetition, as the parts of a
type lie apart, which for the variables of a module is `ScopeInv`. A table then is what its list spells,
up to the first -1, and no offset is -1: those in heap blocks are not negative, and a pointer at -1
would reach into the frame's links. For frames the
list has entries of open arrays among the others. `FrameGood` goes along the declarations and says
what the list made so far spells, which open arrays it has, and what its last entry came
from (`EndsAs`), since that decides what the next declaration may be joined with. What an
entry must come from for a wrong join is what `Confused` says.

`InitialisersExact` is about code that is executed, with loops nested to any depth, so an invariant for each place
in it is out of the question. Instead a piece of code is followed from its beginning to its end:
`Through(m, c, d)` says that an execution that is at `c` does not end or stop before it has
been at `d`, because there is a set of states with `c` that a step leaves only from `d`. It does not say that `d` is
reached, which would be liveness; a loop that never ends never goes wrong. `Runs` says
it of a piece of code wherever it stands, with the registers and the stack before and after and the words
stored. A loop whose body stores the same words in each turn, `incr` bytes further
(`BodyRuns`), stores them `count` times (`LoopTurns`), by induction over the turns. If the body
leaves 0 in the loop's own counter, the loop goes on until a store faults (`LoopEver`), and that no store goes
astray is claimed only if no counters clash. The code of a list is put together from that
of its entries (`StepRuns`, along the list), which may be loops around the code of other lists (`ListOkRuns`, by
induction over `ListRank`). It stores at the offsets the list spells, and by the lemmas
above these are the pointers. `InitializerLoads` and `PrologueLoads` join the parts:
pointers, procedure variables, and the elements of an open array. `InitInv` then is short: while the code runs, there is
a state at its end, with exactly `Wanted` stored, that the execution goes through.

`MakeProofs` proves all safety properties of `Make` for every set of modules, every import
graph (with cycles too), every sequence of edits, commands and objects of foreign modules, and tools that may fail
(`MakeAssumption`). Two need nothing more:

- `CodeTells`: `MakeSpec => []CodeTellsErrors`, which is about the commands `Make` and
  `MakeButDontLink` (the lower ones return 1 for correct modules too, `DRV.mi:48` and `108`), and `WorksOnlyIfNeeded`: `MakeSpec => NoNeedlessWork`.

The others assume `OneProgram`, that no command `Make` names two files. The command lines of
the run `make` satisfy it. It cannot be dropped: with two files the tables of `TBL` outlive
the link list, which is what `make_two_files` shows (section 5).

- `LinksOnlyCorrect`, `LinksComplete`, `LinksInOrder`: `[]LinkOnlyCorrect`, `[]LinkComplete`,
  `[]LinkInOrder`.
- `LinksFresh` and `ProgramsFresh`: `[]LinkedFresh`, `[]ExeFresh`.

The invariant has layers. The files are open one inside the other, each waiting for the import
of the one before it (`Opened`). While `code` is 0, every module in the table is free of
defects, in no cycle, and has its imports in the table too (`Clean`); `Told` is the converse:
once it is 1, something among the modules of a file named is wrong. Together they are `CodeTellsErrors`, whose proof
needs that a cycle is always met as an import of a file that is open (`Opened` again). While
the program may be linked, `LinkInv` gives link list and libraries: together they are what has been compiled,
each module in one of them, only foreign modules in the libraries, and every import on the list before its client. `Dated` explains time stamps: an object that is not
older than a source was made from that source as it is now, and the time of an open file
is that of some module below it. For freshness the times must also have been passed on:
`TimesInv` says that the time of each compiled module has reached a file that waits for it,
and `youngest`. In general it has not reached all files that import it, since a
module that is in the table already passes nothing to its second client; this is the finding of `make_stale`.
`LinkedFresh` and `ExeFresh` are therefore about trees of imports. In the invariant for them
(`TreeInv`) each module is met once, so that its time reaches its only client, and every object that
was made or taken for good is fresh; `LinkedNow` says of the program, made or taken for good,
that it is not older than any of its sources.

All safety properties of the passing runs are proved. Only model-checked is all liveness
(`MarkEnds`, `NewEnds`, `ProgramEnds`, `RunEnds`, `InitEnds`), which needs fairness and
ENABLED, beyond the prover in use.

The types of the variables
of `HeapMem`, `Mark`, `Program` and `Make` are not among the runs' properties: what could be
wrong there shows in the invariants about contents and order. They are parts of the inductive
invariants.

## 7. What is not modelled

- The generated parts: scanner, parser, evaluation order of attributes, choice of
  instructions and registers. Their generators' output is not in the repository.
- The meaning of Oberon and of the instructions, on which the correctness of `CODE.pum*`
  would rest.
- The symbol table, the type relations and constant arithmetic: functions that follow
  the language report case by case. A translation could only be checked against
  itself, or, for arithmetic, against the host compiler's, which is not in the repository.
- Error lists, labels and the tables of constants: a sorted insertion, a counter, and hash
  tables that are filled and then written out. That errors are counted is in `Make`.
- The interface of the terminal, utilities and the library: calls of the C library without
  state of their own.
- The limits on sizes (`OT.MaxObjectSize`): larger types are rejected by the context
  conditions.
- Input, output, formatting, messages, statistics, and the dumps' texts.
- In the modelled parts: the address arithmetic near 2^32 (a loop counter of `TypeInit` that has passed 0
  goes on below it instead of wrapping, which happens only where two loops clash, see section 5); another user of `sbrk` in the
  process; a program that mixes C's `Alloc` with the collector; a handler with
  pointers of its own, and how `root_ebp` comes by its value; the stacks of scanner and tree that `FIL` switches when
  it opens a file inside another; edits of sources while the compiler runs or in the second it
  ends; the calling of jacob from another directory than that of the sources.

----------------------------- MODULE MakeProofs -----------------------------
(***************************************************************************)
(* The driver: what a run of the compiler reports, assembles and links,    *)
(* for every set of modules, every import relation (with cycles too),      *)
(* every sequence of edits, commands and objects laid beside the sources   *)
(* of foreign modules, and tools that fail.                                *)
(*                                                                         *)
(* The invariant has layers, each of which uses those above it:            *)
(*   Opened     the files are open one inside the other, each waiting for  *)
(*              the import of the one before it (FIL.ActP, PredP);         *)
(*   Clean      as long as ProgramReturnCode is 0, all that has been       *)
(*              compiled is correct, is in no cycle and has its imports    *)
(*              compiled too; Told: if it is 1, something is wrong;        *)
(*   Dated      an object file that is not older than a source was made    *)
(*              from it as it is now;                                      *)
(*   LinkInv    as long as the program may be linked, the link list and    *)
(*              the libraries are what has been compiled, in the order of  *)
(*              the imports;                                               *)
(*   TimesInv   the time of each compiled module has reached an open file  *)
(*              that waits for it, and youngest; TreeInv: each object made *)
(*              or reused is fresh, if the imports form a tree;            *)
(*   LinkedNow  when the files are done, the program is not older than     *)
(*              any of its sources.                                        *)
(*                                                                         *)
(* What is said of linking assumes OneProgram: no command Make names two   *)
(* files (with two, the tables of TBL outlive the link list, which the run *)
(* make_two_files shows to go wrong).                                      *)
(***************************************************************************)
EXTENDS Make, SequenceTheorems, TLAPS

(* The graph of imports as an argument: what a module imports, what lies   *)
(* below it, and what is wrong there.                                      *)
Uses(g, m) == {g[m][k] : k \in DOMAIN g[m]}
ClosedIn(g, S) == \A y \in S : Uses(g, y) \subseteq S
Below(g, m) == {x \in Modules : \A S \in SUBSET Modules : m \in S /\ ClosedIn(g, S) => x \in S}
InCycle(g, m) == \E y \in Uses(g, m) : m \in Below(g, y)
Wrong(g, d, m) == \E x \in Below(g, m) : d[x] # "none" \/ InCycle(g, x)
IsTree(g, m) ==
  \A x, y \in Below(g, m) : \A i \in DOMAIN g[x], j \in DOMAIN g[y] :
    g[x][i] = g[y][j] => x = y /\ i = j

(* A command Make names one file. *)
OneProgram == \A l \in CommandLines : l[1] = Make => Len(l[2]) = 1

-----------------------------------------------------------------------------
Files == [mod : Modules, sourceTime : Nat \ {0}, next : Nat \ {0}, error : BOOLEAN,
          state : {"parse", "imports", "closed", "link"}]
Jobs == [state : {"idle", "busy"}, cmd : NoCodeGeneration .. Make, force : BOOLEAN,
         files : Seq(Modules), next : Nat \ {0}, fails : BOOLEAN]

MakeTypes ==
  /\ clock \in Nat \ {0} /\ imports \in Graphs
  /\ src \in [Modules -> Nat \ {0}] /\ \A m \in Modules : src[m] <= clock
  /\ defect \in [Modules -> Defects]
  /\ job \in Jobs /\ stack \in Seq(Files)
  /\ tbl \subseteq Modules /\ linklist \in Seq(Modules) /\ linkable \in BOOLEAN
  /\ youngest \in Nat /\ code \in {0, 1}

Waits(c, m, g) ==
  c.state = "imports" /\ c.next <= Len(g[c.mod]) /\ g[c.mod][c.next] = m

(* The files of a stack are open one inside the other: each waits for the  *)
(* import of the one before it; none is open twice or closed before.       *)
Nested(st, g, t) ==
  /\ \A i \in 1 .. Len(st) : st[i].next <= Len(g[st[i].mod]) + 1
  /\ \A i \in 1 .. Len(st) : i > 1 => Waits(st[i], st[i-1].mod, g)
  /\ \A i \in 1 .. Len(st) : st[i].state = "link" => i = Len(st)
  /\ \A i, j \in 1 .. Len(st) : st[i].mod = st[j].mod => i = j
  /\ \A i \in 1 .. Len(st) : i < Len(st) => st[i].mod \notin t
  /\ \A i, j \in 1 .. Len(st) : i <= j => st[i].mod \in Below(g, st[j].mod)

Opened ==
  /\ job.state = "idle" => stack = << >> /\ tbl = {}
  /\ job.next <= Len(job.files) + 1
  /\ stack # << >> => job.state = "busy" /\ job.next <= Len(job.files) /\ stack[Len(stack)].mod = NextFile
  /\ Nested(stack, imports, tbl)

-----------------------------------------------------------------------------
(* A module whose table is kept is correct and in no cycle, and the tables *)
(* of all it imports are kept.                                             *)
Sound(m, g, d, t) == d[m] = "none" /\ Uses(g, m) \subseteq t /\ ~InCycle(g, m)
TablesSound(g, d, t) == \A m \in t : Sound(m, g, d, t)

(* A file is without error so far. *)
Going(f, g, d, t) ==
  /\ ~f.error /\ d[f.mod] # "missing"
  /\ \A k \in 1 .. f.next - 1 : g[f.mod][k] \in t
  /\ f.state # "parse" => d[f.mod] # "syntax"
  /\ f.state \in {"closed", "link"} => d[f.mod] = "none" /\ f.next = Len(g[f.mod]) + 1
AllGoing(st, g, d, t) == \A i \in 1 .. Len(st) : Going(st[i], g, d, t)

(* As long as the return code is 0 nothing has been wrong. *)
Clean ==
  job.state = "busy" /\ code = 0 =>
    /\ TablesSound(imports, defect, tbl)
    /\ AllGoing(stack, imports, defect, tbl)
    /\ \A i \in 1 .. job.next - 1 : ~Wrong(imports, defect, job.files[i])

(* If it is 1 something is wrong below one of the files. *)
Told ==
  job.state = "busy" /\ job.cmd >= MakeButDontLink /\ ~job.fails /\ code = 1 =>
    \E i \in 1 .. Len(job.files) : Wrong(imports, defect, job.files[i])

-----------------------------------------------------------------------------
(* The modules that have been compiled: those whose tables are kept, and   *)
(* the files that wait to be closed or linked.                             *)
Done(st, t) ==
  {m \in Modules : m \in t \/ \E i \in 1 .. Len(st) : st[i].mod = m /\ st[i].state \in {"closed", "link"}}

Members(l) == {l[i] : i \in 1 .. Len(l)}
Ordered(l, g, b) ==
  /\ \A i, j \in 1 .. Len(l) : l[i] = l[j] => i = j
  /\ \A i \in 1 .. Len(l) : \A m \in Uses(g, l[i]) \ b : \E j \in 1 .. i - 1 : l[j] = m

Alone ==
  job.state = "busy" /\ job.cmd = Make =>
    /\ Len(job.files) = 1
    /\ job.next = 1 /\ stack = << >> => tbl = {} /\ code = 0

(* What the link list l and the libraries b hold while a program may still *)
(* be linked.                                                              *)
Linkage(st, g, t, l, b, main) ==
  /\ t \subseteq Below(g, main) \ {main}
  /\ Members(l) \cup b = Done(st, t)
  /\ b \subseteq Foreign /\ Members(l) \cap b = {}
  /\ Ordered(l, g, b)

LinkInv ==
  job.cmd = Make /\ stack # << >> /\ linkable =>
    code = 0 /\ Linkage(stack, imports, tbl, linklist, libs, NextFile)

-----------------------------------------------------------------------------
(* A file was made from the sources of T: those not younger than the file  *)
(* have not been edited since.                                             *)
MadeFrom(f, T, s) ==
  /\ f.time \in Nat \ {0} /\ f.text = [x \in T |-> f.text[x]]
  /\ \A x \in T : f.text[x] <= f.time /\ (s[x] <= f.time => f.text[x] = s[x])

ObjectsDated(o, g, s, c) ==
  /\ o = [m \in Modules |-> o[m]]
  /\ \A m \in Modules : o[m] = NoFile \/
       (o[m].time <= c /\ MadeFrom(o[m], Below(g, m), s))

(* The time of a file is that of one of the modules below it. *)
FilesDated(st, g, s) ==
  \A i \in 1 .. Len(st) : \E x \in Below(g, st[i].mod) : st[i].sourceTime = s[x]

Dated == ObjectsDated(obj, imports, src, clock) /\ FilesDated(stack, imports, src)

-----------------------------------------------------------------------------
(* What lies below a module in a graph of imports. *)
LEMMA BelowFacts ==
  ASSUME NEW g \in Graphs, NEW m \in Modules
  PROVE  /\ m \in Below(g, m) /\ Below(g, m) \subseteq Modules
         /\ Uses(g, m) \subseteq Modules /\ Uses(g, m) \subseteq Below(g, m)
         /\ \A x \in Below(g, m) : Below(g, x) \subseteq Below(g, m) /\ Uses(g, x) \subseteq Below(g, m)
         /\ \A S \in SUBSET Modules : m \in S /\ ClosedIn(g, S) => Below(g, m) \subseteq S
         /\ \A x \in Below(g, m) : x = m \/ \E y \in Uses(g, m) : x \in Below(g, y)
<1>1. \A y \in Modules : g[y] \in Seq(Modules)
  BY MakeAssumption
<1>2. \A y \in Modules : Uses(g, y) \subseteq Modules
  <2> SUFFICES ASSUME NEW y \in Modules, NEW k \in DOMAIN g[y] PROVE g[y][k] \in Modules
    BY DEF Uses
  <2>1. g[y] \in Seq(Modules) /\ k \in 1 .. Len(g[y])
    BY <1>1, LenProperties
  <2> QED
    BY <2>1, ElementOfSeq
<1>3. \A x \in Modules : x \in Below(g, x) /\ Below(g, x) \subseteq Modules
  BY DEF Below
<1>4. \A x \in Modules : \A S \in SUBSET Modules : x \in S /\ ClosedIn(g, S) => Below(g, x) \subseteq S
  BY DEF Below
<1>5. ASSUME NEW x \in Modules PROVE ClosedIn(g, Below(g, x))
  <2>1. ASSUME NEW y \in Below(g, x), NEW z \in Uses(g, y) PROVE z \in Below(g, x)
    <3>1. z \in Modules
      BY <1>2, <1>3, <2>1
    <3>2. ASSUME NEW S \in SUBSET Modules, x \in S, ClosedIn(g, S) PROVE z \in S
      BY <1>4, <2>1, <3>2 DEF ClosedIn
    <3> QED
      BY <3>1, <3>2 DEF Below
  <2> QED
    BY <2>1 DEF ClosedIn
<1>6. \A x \in Below(g, m) : Below(g, x) \subseteq Below(g, m) /\ Uses(g, x) \subseteq Below(g, m)
  BY <1>3, <1>4, <1>5 DEF ClosedIn
<1>7. ASSUME NEW x \in Below(g, m) PROVE x = m \/ \E y \in Uses(g, m) : x \in Below(g, y)
  <2> DEFINE S == {m} \cup UNION {Below(g, y) : y \in Uses(g, m)}
  <2>1. S \subseteq Modules /\ m \in S
    BY <1>2, <1>3
  <2>2. ASSUME NEW y \in S, NEW z \in Uses(g, y) PROVE z \in S
    <3>1. CASE y = m
      BY <1>2, <1>3, <2>2, <3>1
    <3>2. CASE y # m
      <4>1. PICK u \in Uses(g, m) : y \in Below(g, u)
        BY <2>2, <3>2
      <4>2. z \in Below(g, u)
        BY <1>2, <1>5, <2>2, <4>1 DEF ClosedIn
      <4> QED
        BY <4>1, <4>2
    <3> QED
      BY <3>1, <3>2
  <2>3. ClosedIn(g, S)
    BY <2>2 DEF ClosedIn
  <2>4. x \in S
    BY <1>4, <2>1, <2>3
  <2> QED
    BY <2>4
<1> QED
  BY <1>2, <1>3, <1>4, <1>6, <1>7

LEMMA ImportOf ==
  ASSUME NEW g \in Graphs, NEW m \in Modules
  PROVE  /\ g[m] \in Seq(Modules) /\ Len(g[m]) \in Nat /\ DOMAIN g[m] = 1 .. Len(g[m])
         /\ \A k \in 1 .. Len(g[m]) : g[m][k] \in Uses(g, m) /\ g[m][k] \in Modules
         /\ \A y \in Uses(g, m) : \E k \in 1 .. Len(g[m]) : g[m][k] = y
<1>1. g[m] \in Seq(Modules)
  BY MakeAssumption
<1>2. Len(g[m]) \in Nat /\ DOMAIN g[m] = 1 .. Len(g[m])
  BY <1>1, LenProperties
<1>3. \A k \in 1 .. Len(g[m]) : g[m][k] \in Modules
  BY <1>1, ElementOfSeq
<1> QED
  BY <1>1, <1>2, <1>3 DEF Uses

(* The names of Make. *)
LEMMA Names ==
  /\ \A m : Closure(m) = Below(imports, m) /\ Direct(m) = Uses(imports, m)
  /\ \A m \in Modules : imports \in Graphs =>
       /\ Faulty(m) <=> Wrong(imports, defect, m)
       /\ TreeBelow(m) <=> IsTree(imports, m)
<1>1. \A m : Direct(m) = Uses(imports, m)
  BY DEF Direct, Uses
<1>2. \A S : Closed(S) <=> ClosedIn(imports, S)
  BY <1>1 DEF Closed, ClosedIn
<1>3. \A m : Closure(m) = Below(imports, m)
  BY <1>2 DEF Closure, Below
<1>4. ASSUME NEW m \in Modules, imports \in Graphs PROVE Faulty(m) <=> Wrong(imports, defect, m)
  <2>1. Cyclic(m) <=> \E x \in Below(imports, m) : InCycle(imports, x)
    BY <1>1, <1>3 DEF Cyclic, InCycle
  <2> QED
    BY <1>3, <2>1 DEF Faulty, Wrong
<1>5. \A m \in Modules : TreeBelow(m) <=> IsTree(imports, m)
  BY <1>3 DEF TreeBelow, IsTree
<1> QED
  BY <1>1, <1>3, <1>4, <1>5

-----------------------------------------------------------------------------
(* The stack of files. *)
LEMMA FileFacts ==
  ASSUME MakeTypes
  PROVE  /\ Len(stack) \in Nat /\ DOMAIN stack = 1 .. Len(stack)
         /\ stack # << >> <=> Len(stack) # 0
         /\ \A i \in 1 .. Len(stack) :
              /\ stack[i] \in Files /\ stack[i].mod \in Modules
              /\ stack[i].sourceTime \in Nat \ {0} /\ stack[i].next \in Nat \ {0}
<1>1. stack \in Seq(Files)
  BY DEF MakeTypes
<1>2. \A i \in 1 .. Len(stack) : stack[i] \in Files
  BY <1>1, ElementOfSeq
<1>3. Len(stack) \in Nat /\ DOMAIN stack = 1 .. Len(stack)
  BY <1>1, LenProperties
<1>4. stack # << >> <=> Len(stack) # 0
  BY <1>1, EmptySeq
<1> QED
  BY <1>2, <1>3, <1>4 DEF Files

LEMMA OnTop ==
  ASSUME NEW t \in Files, NEW st \in Seq(Files)
  PROVE  /\ <<t>> \o st \in Seq(Files) /\ Len(<<t>> \o st) = Len(st) + 1 /\ Len(st) \in Nat
         /\ (<<t>> \o st)[1] = t
         /\ \A i \in 1 .. Len(st) : (<<t>> \o st)[i+1] = st[i]
<1> DEFINE y == <<t>>
<1>1. y \in Seq(Files) /\ Len(y) = 1 /\ y[1] = t /\ Len(st) \in Nat
  BY LenProperties
<1> HIDE DEF y
<1>2. /\ y \o st \in Seq(Files) /\ Len(y \o st) = Len(y) + Len(st)
      /\ \A i \in 1 .. Len(y) + Len(st) :
           (y \o st)[i] = IF i <= Len(y) THEN y[i] ELSE st[i - Len(y)]
  BY <1>1, ConcatProperties
<1>3. /\ Len(y \o st) = Len(st) + 1
      /\ \A i \in 1 .. Len(st) + 1 : (y \o st)[i] = IF i <= 1 THEN y[i] ELSE st[i-1]
  BY <1>1, <1>2
<1>4. (y \o st)[1] = t
  BY <1>1, <1>3
<1>5. ASSUME NEW i \in 1 .. Len(st) PROVE (y \o st)[i+1] = st[i]
  <2>1. i + 1 \in 1 .. Len(st) + 1 /\ i + 1 - 1 = i /\ ~(i + 1 <= 1)
    BY <1>1
  <2> QED
    BY <1>3, <2>1
<1> QED
  BY <1>1, <1>2, <1>3, <1>4, <1>5 DEF y

LEMMA Rest ==
  ASSUME NEW st \in Seq(Files), Len(st) # 0
  PROVE  /\ Tail(st) \in Seq(Files) /\ Len(st) \in Nat \ {0} /\ Len(Tail(st)) = Len(st) - 1
         /\ \A i \in 1 .. Len(st) - 1 : Tail(st)[i] = st[i+1]
<1>1. st # << >> /\ Len(st) \in Nat
  BY EmptySeq, LenProperties
<1> QED
  BY <1>1, HeadTailProperties

(* One file takes the place of the topmost. *)
Replaced(st2, t, st) ==
  /\ st2 \in Seq(Files) /\ Len(st2) = Len(st) /\ st2[1] = t
  /\ \A i \in 1 .. Len(st) : i > 1 => st2[i] = st[i]

(* What a step does to the files that stay open: only the topmost goes on, *)
(* and the one below it may take over its time.                            *)
Refiled(st2, st) ==
  /\ st2 \in Seq(Files) /\ Len(st2) = Len(st)
  /\ \A i \in 1 .. Len(st) : st2[i].mod = st[i].mod
  /\ \A i \in 1 .. Len(st) : i > 1 =>
       st2[i].state = st[i].state /\ st2[i].next = st[i].next /\ st2[i].error = st[i].error
  /\ \A i \in 1 .. Len(st) :
       /\ st[i].sourceTime <= st2[i].sourceTime
       /\ \/ st2[i].sourceTime = st[i].sourceTime
          \/ i = 2 /\ st2[2].sourceTime = st[1].sourceTime

Opening(st2, t, st) ==
  /\ st2 \in Seq(Files) /\ Len(st2) = Len(st) + 1 /\ st2[1] = t
  /\ \A i \in 1 .. Len(st) : st2[i+1] = st[i]

(* The topmost is closed, and its client goes on. *)
Closing(st2, st) ==
  /\ st2 \in Seq(Files) /\ Len(st2) = Len(st) - 1 /\ Len(st) > 1
  /\ st2[1] = [st[2] EXCEPT !.next = @ + 1]
  /\ \A i \in 1 .. Len(st2) : i > 1 => st2[i] = st[i+1]

LEMMA NewTop ==
  ASSUME NEW t \in Files, NEW st \in Seq(Files), Len(st) # 0
  PROVE  Replaced(<<t>> \o Tail(st), t, st)
<1>1. /\ Tail(st) \in Seq(Files) /\ Len(st) \in Nat \ {0} /\ Len(Tail(st)) = Len(st) - 1
      /\ \A i \in 1 .. Len(st) - 1 : Tail(st)[i] = st[i+1]
  BY Rest
<1> DEFINE r == Tail(st)
           s2 == <<t>> \o r
<1>2. /\ s2 \in Seq(Files) /\ Len(s2) = Len(r) + 1 /\ s2[1] = t
      /\ \A i \in 1 .. Len(r) : s2[i+1] = r[i]
  BY <1>1, OnTop
<1> HIDE DEF r, s2
<1>3. ASSUME NEW i \in 1 .. Len(st), i > 1 PROVE s2[i] = st[i]
  <2>1. i - 1 \in 1 .. Len(st) - 1 /\ i - 1 + 1 = i
    BY <1>1, <1>3
  <2>2. s2[i-1+1] = r[i-1] /\ r[i-1] = st[i-1+1]
    BY <1>1, <1>2, <2>1 DEF r
  <2> QED
    BY <2>1, <2>2
<1>4. Len(s2) = Len(st)
  BY <1>1, <1>2 DEF r
<1>5. Replaced(s2, t, st)
  BY <1>2, <1>3, <1>4 DEF Replaced
<1> QED
  BY <1>5 DEF s2, r

LEMMA ChangedTop ==
  ASSUME NEW t \in Files, NEW st \in Seq(Files), Len(st) # 0
  PROVE  Replaced([st EXCEPT ![1] = t], t, st)
<1>1. Len(st) \in Nat /\ 1 \in 1 .. Len(st)
  BY LenProperties
<1>2. /\ [st EXCEPT ![1] = t] \in Seq(Files) /\ Len([st EXCEPT ![1] = t]) = Len(st)
      /\ \A j \in 1 .. Len(st) : [st EXCEPT ![1] = t][j] = IF j = 1 THEN t ELSE st[j]
  BY <1>1, ExceptSeq
<1> QED
  BY <1>1, <1>2 DEF Replaced

LEMMA FileParts ==
  ASSUME NEW st \in Seq(Files)
  PROVE  /\ Len(st) \in Nat /\ DOMAIN st = 1 .. Len(st)
         /\ \A i \in 1 .. Len(st) :
              /\ st[i] \in Files /\ st[i].mod \in Modules /\ st[i].sourceTime \in Nat \ {0}
              /\ st[i].next \in Nat \ {0} /\ st[i].error \in BOOLEAN
              /\ st[i].state \in {"parse", "imports", "closed", "link"}
<1>1. Len(st) \in Nat /\ DOMAIN st = 1 .. Len(st)
  BY LenProperties
<1>2. \A i \in 1 .. Len(st) : st[i] \in Files
  BY ElementOfSeq
<1> QED
  BY <1>1, <1>2 DEF Files

LEMMA ReplacedIsRefiled ==
  ASSUME NEW st \in Seq(Files), NEW t \in Files, NEW st2, Len(st) # 0, Replaced(st2, t, st),
         t.mod = st[1].mod, t.sourceTime = st[1].sourceTime
  PROVE  Refiled(st2, st)
<1>1. /\ Len(st) \in Nat \ {0} /\ 1 \in 1 .. Len(st)
      /\ \A i \in 1 .. Len(st) : i = 1 \/ i > 1
      /\ \A i \in 1 .. Len(st) : st[i].sourceTime \in Nat
  BY FileParts
<1>2. /\ st2 \in Seq(Files) /\ Len(st2) = Len(st) /\ st2[1] = t
      /\ \A i \in 1 .. Len(st) : i > 1 => st2[i] = st[i]
  BY DEF Replaced
<1>3. ASSUME NEW i \in 1 .. Len(st)
      PROVE  /\ st2[i].mod = st[i].mod /\ st2[i].sourceTime = st[i].sourceTime
             /\ i > 1 => st2[i] = st[i]
  BY <1>1, <1>2
<1>4. \A i \in 1 .. Len(st) : st[i].sourceTime <= st2[i].sourceTime
  BY <1>1, <1>3
<1> QED
  BY <1>2, <1>3, <1>4 DEF Refiled

(* The topmost becomes t, and the one below it takes over t's time. *)
LEMMA TimePassed ==
  ASSUME NEW st \in Seq(Files), NEW t \in Files, NEW u \in Files, NEW s1, NEW st2, Len(st) > 1,
         t.mod = st[1].mod, t.sourceTime = st[1].sourceTime,
         u = [st[2] EXCEPT !.sourceTime = st[1].sourceTime],
         st[1].sourceTime > st[2].sourceTime,
         Replaced(s1, u, Tail(st)), Opening(st2, t, s1)
  PROVE  Refiled(st2, st) /\ st2[1] = t /\ st2[2] = u
<1>1. /\ Tail(st) \in Seq(Files) /\ Len(st) \in Nat \ {0} /\ Len(Tail(st)) = Len(st) - 1
      /\ \A i \in 1 .. Len(st) - 1 : Tail(st)[i] = st[i+1]
  BY Rest
<1> DEFINE r == Tail(st)
<1>4. /\ s1 \in Seq(Files) /\ Len(s1) = Len(r) /\ s1[1] = u
      /\ \A i \in 1 .. Len(r) : i > 1 => s1[i] = r[i]
  BY DEF Replaced
<1>5. /\ st2 \in Seq(Files) /\ Len(st2) = Len(s1) + 1 /\ st2[1] = t
      /\ \A i \in 1 .. Len(s1) : st2[i+1] = s1[i]
  BY DEF Opening
<1> HIDE DEF r
<1>6. Len(st2) = Len(st) /\ 2 \in 1 .. Len(st) /\ 1 \in 1 .. Len(st) /\ Len(s1) = Len(st) - 1
  BY <1>1, <1>4, <1>5 DEF r
<1>7. st2[2] = u
  <2>1. 1 \in 1 .. Len(s1) /\ 1 + 1 = 2
    BY <1>6, <1>1
  <2> QED
    BY <1>4, <1>5, <2>1
<1>8. ASSUME NEW i \in 1 .. Len(st), i > 2 PROVE st2[i] = st[i]
  <2>1. i - 1 \in 1 .. Len(s1) /\ i - 1 \in 1 .. Len(r) /\ i - 1 > 1 /\ i - 1 + 1 = i
        /\ i - 1 \in 1 .. Len(st) - 1
    BY <1>1, <1>4, <1>6, <1>8
  <2>2. st2[i-1+1] = s1[i-1] /\ s1[i-1] = r[i-1] /\ r[i-1] = st[i-1+1]
    BY <1>1, <1>4, <1>5, <2>1 DEF r
  <2> QED
    BY <2>1, <2>2
<1>9. /\ st[2] \in Files /\ u.mod = st[2].mod /\ u.state = st[2].state /\ u.next = st[2].next
      /\ u.error = st[2].error /\ u.sourceTime = st[1].sourceTime
  BY <1>6, FileParts DEF Files
<1>10. ASSUME NEW i \in 1 .. Len(st) PROVE i = 1 \/ i = 2 \/ i > 2
  BY <1>1
<1>11. \A i \in 1 .. Len(st) : st2[i].mod = st[i].mod
  BY <1>5, <1>7, <1>8, <1>9, <1>10
<1>12. ASSUME NEW i \in 1 .. Len(st), i > 1
       PROVE  st2[i].state = st[i].state /\ st2[i].next = st[i].next /\ st2[i].error = st[i].error
  <2>1. CASE i = 2
    <3>1. st2[i] = u /\ st[i] = st[2]
      BY <1>7, <2>1
    <3> QED
      BY <1>9, <3>1
  <2>2. CASE i > 2
    BY <1>8, <2>2
  <2> QED
    BY <1>10, <1>12, <2>1, <2>2
<1>13. \A i \in 1 .. Len(st) : st[i].sourceTime \in Nat
  BY FileParts
<1>14. ASSUME NEW i \in 1 .. Len(st)
       PROVE  /\ st[i].sourceTime <= st2[i].sourceTime
              /\ \/ st2[i].sourceTime = st[i].sourceTime
                 \/ i = 2 /\ st2[2].sourceTime = st[1].sourceTime
  <2>1. CASE i = 1
    BY <1>5, <1>13, <2>1
  <2>2. CASE i = 2
    <3>1. st2[i] = u /\ st2[2] = u /\ st[i] = st[2]
      BY <1>7, <2>2
    <3>2. st[1].sourceTime \in Nat /\ st[2].sourceTime \in Nat
      BY <1>6, <1>13
    <3> QED
      BY <1>9, <2>2, <3>1, <3>2
  <2>3. CASE i > 2
    BY <1>8, <1>13, <2>3
  <2> QED
    BY <1>10, <2>1, <2>2, <2>3
<1>15. Refiled(st2, st)
  BY <1>5, <1>6, <1>11, <1>12, <1>14 DEF Refiled
<1> QED
  BY <1>5, <1>7, <1>15

LEMMA ClosedTop ==
  ASSUME NEW st \in Seq(Files), Len(st) > 1
  PROVE  Closing(<<[st[2] EXCEPT !.next = @ + 1]>> \o Tail(Tail(st)), st)
<1>1. /\ Tail(st) \in Seq(Files) /\ Len(st) \in Nat \ {0} /\ Len(Tail(st)) = Len(st) - 1
      /\ \A i \in 1 .. Len(st) - 1 : Tail(st)[i] = st[i+1]
  BY Rest
<1> DEFINE r == Tail(st)
           u == [st[2] EXCEPT !.next = @ + 1]
           s1 == <<u>> \o Tail(r)
<1>2. r \in Seq(Files) /\ Len(r) \in Nat /\ Len(r) # 0
  BY <1>1
<1>3. u \in Files
  <2>1. 2 \in 1 .. Len(st)
    BY <1>1
  <2>2. st[2] \in Files /\ st[2].next \in Nat \ {0}
    BY <2>1, FileParts
  <2>3. st[2].next + 1 \in Nat \ {0}
    BY <2>2
  <2> QED
    BY <2>2, <2>3 DEF Files
<1>4. Replaced(s1, u, r)
  <2> HIDE DEF r, u
  <2> QED
    BY <1>2, <1>3, NewTop
<1>5. /\ s1 \in Seq(Files) /\ Len(s1) = Len(st) - 1 /\ s1[1] = u
      /\ \A i \in 1 .. Len(r) : i > 1 => s1[i] = r[i]
  BY <1>1, <1>4 DEF Replaced
<1> HIDE DEF s1
<1>6. ASSUME NEW i \in 1 .. Len(s1), i > 1 PROVE s1[i] = st[i+1]
  <2>1. i \in 1 .. Len(r) /\ i \in 1 .. Len(st) - 1
    BY <1>1, <1>5, <1>6
  <2>2. s1[i] = r[i] /\ r[i] = st[i+1]
    BY <1>1, <1>5, <1>6, <2>1 DEF r
  <2> QED
    BY <2>2
<1>7. Closing(s1, st)
  BY <1>5, <1>6 DEF Closing
<1> QED
  BY <1>7 DEF s1

-----------------------------------------------------------------------------
(* Files stay open one inside the other. *)
LEMMA NestedParts ==
  ASSUME NEW g \in Graphs, NEW st \in Seq(Files), NEW t, Nested(st, g, t)
  PROVE  \A i \in 1 .. Len(st) :
           /\ st[i].mod \in Modules /\ st[i].next \in Nat \ {0} /\ Len(g[st[i].mod]) \in Nat
           /\ st[i].next <= Len(g[st[i].mod]) + 1
           /\ i > 1 => /\ i - 1 \in 1 .. Len(st)
                       /\ st[i].state = "imports" /\ st[i].next \in 1 .. Len(g[st[i].mod])
                       /\ g[st[i].mod][st[i].next] = st[i-1].mod
                       /\ st[i-1].mod \in Uses(g, st[i].mod)
<1> TAKE i \in 1 .. Len(st)
<1>1. Len(st) \in Nat /\ st[i].mod \in Modules /\ st[i].next \in Nat \ {0}
  BY FileParts
<1>2. /\ Len(g[st[i].mod]) \in Nat
      /\ \A k \in 1 .. Len(g[st[i].mod]) : g[st[i].mod][k] \in Uses(g, st[i].mod)
  BY <1>1, ImportOf
<1>3. st[i].next <= Len(g[st[i].mod]) + 1
  BY DEF Nested
<1>4. ASSUME i > 1
      PROVE  /\ i - 1 \in 1 .. Len(st)
             /\ st[i].state = "imports" /\ st[i].next \in 1 .. Len(g[st[i].mod])
             /\ g[st[i].mod][st[i].next] = st[i-1].mod
             /\ st[i-1].mod \in Uses(g, st[i].mod)
  <2>1. Waits(st[i], st[i-1].mod, g)
    BY <1>4 DEF Nested
  <2>2. /\ st[i].state = "imports" /\ st[i].next <= Len(g[st[i].mod])
        /\ g[st[i].mod][st[i].next] = st[i-1].mod
    BY <2>1 DEF Waits
  <2>3. i - 1 \in 1 .. Len(st) /\ st[i].next \in 1 .. Len(g[st[i].mod])
    BY <1>1, <1>2, <1>4, <2>2
  <2>4. st[i-1].mod \in Uses(g, st[i].mod)
    BY <1>2, <2>2, <2>3
  <2> QED
    BY <2>2, <2>3, <2>4
<1> QED
  BY <1>1, <1>2, <1>3, <1>4

LEMMA RefiledNested ==
  ASSUME NEW g \in Graphs, NEW st \in Seq(Files), NEW st2, NEW t, Len(st) # 0,
         Nested(st, g, t), Refiled(st2, st),
         st2[1].next <= Len(g[st[1].mod]) + 1, st2[1].state = "link" => Len(st) = 1
  PROVE  Nested(st2, g, t)
<1>1. Len(st) \in Nat \ {0} /\ 1 \in 1 .. Len(st)
  BY FileParts
<1>2. /\ Len(st2) = Len(st) /\ \A i \in 1 .. Len(st) : st2[i].mod = st[i].mod
      /\ \A i \in 1 .. Len(st) : i > 1 => st2[i].state = st[i].state /\ st2[i].next = st[i].next
  BY DEF Refiled
<1>3. \A i \in 1 .. Len(st2) : st2[i].next <= Len(g[st2[i].mod]) + 1
  <2> SUFFICES ASSUME NEW i \in 1 .. Len(st2) PROVE st2[i].next <= Len(g[st2[i].mod]) + 1
    OBVIOUS
  <2>1. CASE i = 1
    BY <1>1, <1>2, <2>1
  <2>2. CASE i # 1
    <3>1. i > 1 /\ st[i].next <= Len(g[st[i].mod]) + 1
      BY <1>1, <1>2, <2>2 DEF Nested
    <3> QED
      BY <1>2, <3>1
  <2> QED
    BY <2>1, <2>2
<1>4. ASSUME NEW i \in 1 .. Len(st2), i > 1 PROVE Waits(st2[i], st2[i-1].mod, g)
  <2>1. i - 1 \in 1 .. Len(st) /\ i \in 1 .. Len(st)
    BY <1>1, <1>2, <1>4
  <2>2. Waits(st[i], st[i-1].mod, g)
    BY <1>4, <2>1 DEF Nested
  <2>3. st2[i].mod = st[i].mod /\ st2[i-1].mod = st[i-1].mod
        /\ st2[i].state = st[i].state /\ st2[i].next = st[i].next
    BY <1>2, <1>4, <2>1
  <2> QED
    BY <2>2, <2>3 DEF Waits
<1>5. ASSUME NEW i \in 1 .. Len(st2), st2[i].state = "link" PROVE i = Len(st2)
  <2>1. CASE i = 1
    BY <1>2, <1>5, <2>1
  <2>2. CASE i # 1
    <3>1. i > 1 /\ i \in 1 .. Len(st)
      BY <1>1, <1>2, <2>2
    <3> QED
      BY <1>2, <1>5, <3>1 DEF Nested
  <2> QED
    BY <2>1, <2>2
<1>6. /\ \A i, j \in 1 .. Len(st2) : st2[i].mod = st2[j].mod => i = j
      /\ \A i \in 1 .. Len(st2) : i < Len(st2) => st2[i].mod \notin t
      /\ \A i, j \in 1 .. Len(st2) : i <= j => st2[i].mod \in Below(g, st2[j].mod)
  BY <1>2 DEF Nested
<1> QED
  BY <1>3, <1>4, <1>5, <1>6 DEF Nested

LEMMA OpeningNested ==
  ASSUME NEW g \in Graphs, NEW st \in Seq(Files), NEW f \in Files, NEW st2, NEW t, Len(st) # 0,
         Nested(st, g, t), Opening(st2, f, st), Waits(st[1], f.mod, g),
         f.next = 1, f.state = "parse", f.mod \notin t,
         \A i \in 1 .. Len(st) : st[i].mod # f.mod
  PROVE  Nested(st2, g, t)
<1>1. Len(st) \in Nat \ {0} /\ 1 \in 1 .. Len(st) /\ \A i \in 1 .. Len(st) : st[i].mod \in Modules
  BY FileParts
<1>2. Len(st2) = Len(st) + 1 /\ st2[1] = f /\ \A i \in 1 .. Len(st) : st2[i+1] = st[i]
  BY DEF Opening
<1>3. f.mod \in Modules
  BY DEF Files
<1>4. \A i \in 1 .. Len(st2) : i = 1 \/ (i - 1 \in 1 .. Len(st) /\ i > 1)
  BY <1>1, <1>2
<1>5. ASSUME NEW i \in 1 .. Len(st2), i # 1 PROVE st2[i] = st[i-1]
  <2>1. i - 1 \in 1 .. Len(st) /\ i - 1 + 1 = i
    BY <1>1, <1>4, <1>5
  <2>2. st2[i-1+1] = st[i-1]
    BY <1>2, <2>1
  <2> QED
    BY <2>1, <2>2
<1>6. \A i \in 1 .. Len(st2) : st2[i].next <= Len(g[st2[i].mod]) + 1
  <2> SUFFICES ASSUME NEW i \in 1 .. Len(st2) PROVE st2[i].next <= Len(g[st2[i].mod]) + 1
    OBVIOUS
  <2>1. CASE i = 1
    <3>1. Len(g[f.mod]) \in Nat
      BY <1>3, ImportOf
    <3> QED
      BY <1>2, <2>1, <3>1
  <2>2. CASE i # 1
    BY <1>4, <1>5, <2>2 DEF Nested
  <2> QED
    BY <2>1, <2>2
<1>7. ASSUME NEW i \in 1 .. Len(st2), i > 1 PROVE Waits(st2[i], st2[i-1].mod, g)
  <2>1. i # 1 /\ i - 1 \in 1 .. Len(st) /\ i - 1 \in 1 .. Len(st2)
    BY <1>1, <1>2, <1>7
  <2>2. st2[i] = st[i-1]
    BY <1>5, <2>1
  <2>3. CASE i - 1 = 1
    BY <1>2, <2>2, <2>3
  <2>4. CASE i - 1 # 1
    <3>1. st2[i-1] = st[i-1-1]
      BY <1>5, <2>1, <2>4
    <3>2. i - 1 > 1
      BY <2>1, <2>4
    <3>3. Waits(st[i-1], st[i-1-1].mod, g)
      BY <2>1, <3>2 DEF Nested
    <3> QED
      BY <2>2, <3>1, <3>3
  <2> QED
    BY <2>3, <2>4
<1>8. ASSUME NEW i \in 1 .. Len(st2), st2[i].state = "link" PROVE i = Len(st2)
  <2>1. i # 1
    BY <1>2, <1>8
  <2>2. i - 1 \in 1 .. Len(st) /\ st[i-1].state = "link"
    BY <1>4, <1>5, <1>8, <2>1
  <2>3. i - 1 = Len(st)
    BY <2>2 DEF Nested
  <2> QED
    BY <1>1, <1>2, <2>3
<1>9. ASSUME NEW i \in 1 .. Len(st2), NEW j \in 1 .. Len(st2), st2[i].mod = st2[j].mod PROVE i = j
  <2>1. CASE i = 1 /\ j # 1
    BY <1>2, <1>4, <1>5, <1>9, <2>1
  <2>2. CASE i # 1 /\ j = 1
    BY <1>2, <1>4, <1>5, <1>9, <2>2
  <2>3. CASE i # 1 /\ j # 1
    <3>1. i - 1 \in 1 .. Len(st) /\ j - 1 \in 1 .. Len(st) /\ st[i-1].mod = st[j-1].mod
      BY <1>4, <1>5, <1>9, <2>3
    <3>2. i - 1 = j - 1
      BY <3>1 DEF Nested
    <3> QED
      BY <3>2, <1>1, <1>2
  <2> QED
    BY <2>1, <2>2, <2>3
<1>10. ASSUME NEW i \in 1 .. Len(st2), i < Len(st2) PROVE st2[i].mod \notin t
  <2>1. CASE i = 1
    BY <1>2, <2>1
  <2>2. CASE i # 1
    <3>1. i - 1 \in 1 .. Len(st) /\ i - 1 < Len(st) /\ st2[i] = st[i-1]
      BY <1>1, <1>2, <1>4, <1>5, <1>10, <2>2
    <3> QED
      BY <3>1 DEF Nested
  <2> QED
    BY <2>1, <2>2
<1>11. ASSUME NEW i \in 1 .. Len(st2), NEW j \in 1 .. Len(st2), i <= j
       PROVE  st2[i].mod \in Below(g, st2[j].mod)
  <2>1. CASE j = 1
    <3>1. i = 1
      BY <1>1, <1>2, <1>11, <2>1
    <3> QED
      BY <1>2, <1>3, <2>1, <3>1, BelowFacts
  <2>2. CASE i # 1 /\ j # 1
    <3>1. i - 1 \in 1 .. Len(st) /\ j - 1 \in 1 .. Len(st) /\ i - 1 <= j - 1
      BY <1>1, <1>2, <1>4, <1>11, <2>2
    <3> QED
      BY <1>5, <2>2, <3>1 DEF Nested
  <2>3. CASE i = 1 /\ j # 1
    <3>1. j - 1 \in 1 .. Len(st) /\ 1 <= j - 1 /\ st2[j] = st[j-1]
      BY <1>1, <1>4, <1>5, <2>3
    <3>2. st[1].mod \in Below(g, st[j-1].mod)
      BY <1>1, <3>1 DEF Nested
    <3>3. f.mod \in Uses(g, st[1].mod)
      <4>1. /\ st[1].mod \in Modules /\ st[1].next \in Nat \ {0}
            /\ st[1].next <= Len(g[st[1].mod]) /\ g[st[1].mod][st[1].next] = f.mod
        BY <1>1, FileParts DEF Waits
      <4>2. /\ Len(g[st[1].mod]) \in Nat
            /\ \A k \in 1 .. Len(g[st[1].mod]) : g[st[1].mod][k] \in Uses(g, st[1].mod)
        BY <4>1, ImportOf
      <4>3. st[1].next \in 1 .. Len(g[st[1].mod])
        BY <4>1, <4>2
      <4> QED
        BY <4>1, <4>2, <4>3
    <3>4. f.mod \in Below(g, st[j-1].mod)
      BY <1>1, <3>1, <3>2, <3>3, BelowFacts
    <3> QED
      BY <1>2, <2>3, <3>1, <3>4
  <2> QED
    BY <2>1, <2>2, <2>3
<1> QED
  BY <1>6, <1>7, <1>8, <1>9, <1>10, <1>11 DEF Nested

LEMMA ClosingParts ==
  ASSUME NEW st \in Seq(Files), NEW st2, Closing(st2, st)
  PROVE  /\ st2 \in Seq(Files) /\ Len(st) \in Nat /\ Len(st) > 1 /\ Len(st2) = Len(st) - 1
         /\ 1 \in 1 .. Len(st2) /\ 1 \in 1 .. Len(st) /\ 2 \in 1 .. Len(st)
         /\ st2[1].mod = st[2].mod /\ st2[1].state = st[2].state /\ st2[1].error = st[2].error
         /\ st2[1].sourceTime = st[2].sourceTime /\ st2[1].next = st[2].next + 1
         /\ \A i \in 1 .. Len(st2) : i + 1 \in 1 .. Len(st) /\ (i # 1 => i > 1 /\ st2[i] = st[i+1])
         /\ \A i \in 1 .. Len(st2) :
              /\ st2[i].mod = st[i+1].mod /\ st2[i].state = st[i+1].state
              /\ st2[i].sourceTime = st[i+1].sourceTime /\ st2[i].error = st[i+1].error
         /\ \A i \in 1 .. Len(st) : i = 1 \/ (i > 1 /\ i - 1 \in 1 .. Len(st2) /\ i - 1 + 1 = i)
<1>1. /\ st2 \in Seq(Files) /\ Len(st2) = Len(st) - 1 /\ Len(st) > 1
      /\ st2[1] = [st[2] EXCEPT !.next = @ + 1]
      /\ \A i \in 1 .. Len(st2) : i > 1 => st2[i] = st[i+1]
  BY DEF Closing
<1>2. Len(st) \in Nat /\ 1 \in 1 .. Len(st2) /\ 1 \in 1 .. Len(st) /\ 2 \in 1 .. Len(st)
  BY <1>1, FileParts
<1>3. /\ st2[1].mod = st[2].mod /\ st2[1].state = st[2].state /\ st2[1].error = st[2].error
      /\ st2[1].sourceTime = st[2].sourceTime /\ st2[1].next = st[2].next + 1
  BY <1>1, <1>2, FileParts DEF Files
<1>4. \A i \in 1 .. Len(st2) : i + 1 \in 1 .. Len(st) /\ (i # 1 => i > 1)
  BY <1>1, <1>2
<1>5. ASSUME NEW i \in 1 .. Len(st2)
      PROVE  /\ st2[i].mod = st[i+1].mod /\ st2[i].state = st[i+1].state
             /\ st2[i].sourceTime = st[i+1].sourceTime /\ st2[i].error = st[i+1].error
  <2>1. CASE i = 1
    <3>1. i + 1 = 2
      BY <2>1
    <3> QED
      BY <1>3, <2>1, <3>1
  <2>2. CASE i # 1
    BY <1>1, <1>4, <2>2
  <2> QED
    BY <2>1, <2>2
<1>6. \A i \in 1 .. Len(st) : i = 1 \/ (i > 1 /\ i - 1 \in 1 .. Len(st2) /\ i - 1 + 1 = i)
  BY <1>1, <1>2
<1> QED
  BY <1>1, <1>2, <1>3, <1>4, <1>5, <1>6

LEMMA ClosingNested ==
  ASSUME NEW g \in Graphs, NEW st \in Seq(Files), NEW st2, NEW t,
         Nested(st, g, t), Closing(st2, st)
  PROVE  Nested(st2, g, t \cup {st[1].mod})
<1>1. /\ Len(st) \in Nat /\ Len(st2) = Len(st) - 1 /\ 1 \in 1 .. Len(st) /\ 2 \in 1 .. Len(st)
      /\ st2[1].mod = st[2].mod /\ st2[1].next = st[2].next + 1
      /\ \A i \in 1 .. Len(st2) : i + 1 \in 1 .. Len(st) /\ (i # 1 => i > 1 /\ st2[i] = st[i+1])
      /\ \A i \in 1 .. Len(st2) : st2[i].mod = st[i+1].mod /\ st2[i].state = st[i+1].state
  BY ClosingParts
<1>2. \A i \in 1 .. Len(st2) : st2[i].next <= Len(g[st2[i].mod]) + 1
  <2> SUFFICES ASSUME NEW i \in 1 .. Len(st2) PROVE st2[i].next <= Len(g[st2[i].mod]) + 1
    OBVIOUS
  <2>1. CASE i = 1
    <3>1. st[2].next \in Nat /\ Len(g[st[2].mod]) \in Nat /\ st[2].next <= Len(g[st[2].mod])
      BY <1>1, NestedParts
    <3>2. st[2].next + 1 <= Len(g[st[2].mod]) + 1
      BY <3>1
    <3> QED
      BY <1>1, <2>1, <3>2
  <2>2. CASE i # 1
    BY <1>1, <2>2 DEF Nested
  <2> QED
    BY <2>1, <2>2
<1>3. ASSUME NEW i \in 1 .. Len(st2), i > 1 PROVE Waits(st2[i], st2[i-1].mod, g)
  <2>1. i - 1 \in 1 .. Len(st2) /\ i # 1 /\ i - 1 + 1 = i /\ i + 1 \in 1 .. Len(st) /\ i + 1 > 1
        /\ i + 1 - 1 = i
    BY <1>1, <1>3
  <2>2. st2[i] = st[i+1] /\ st2[i-1].mod = st[i-1+1].mod
    BY <1>1, <2>1
  <2>3. Waits(st[i+1], st[i+1-1].mod, g)
    BY <2>1 DEF Nested
  <2> QED
    BY <2>1, <2>2, <2>3
<1>4. ASSUME NEW i \in 1 .. Len(st2), st2[i].state = "link" PROVE i = Len(st2)
  <2>1. i + 1 \in 1 .. Len(st) /\ st[i+1].state = "link"
    BY <1>1, <1>4
  <2>2. i + 1 = Len(st)
    BY <2>1 DEF Nested
  <2> QED
    BY <1>1, <2>2
<1>5. ASSUME NEW i \in 1 .. Len(st2), NEW j \in 1 .. Len(st2), st2[i].mod = st2[j].mod PROVE i = j
  <2>1. i + 1 \in 1 .. Len(st) /\ j + 1 \in 1 .. Len(st) /\ st[i+1].mod = st[j+1].mod
    BY <1>1, <1>5
  <2>2. i + 1 = j + 1
    BY <2>1 DEF Nested
  <2> QED
    BY <1>1, <2>2
<1>6. ASSUME NEW i \in 1 .. Len(st2), i < Len(st2) PROVE st2[i].mod \notin t \cup {st[1].mod}
  <2>1. i + 1 \in 1 .. Len(st) /\ i + 1 < Len(st) /\ st2[i].mod = st[i+1].mod /\ i + 1 # 1
    BY <1>1, <1>6
  <2> QED
    BY <1>1, <2>1 DEF Nested
<1>7. ASSUME NEW i \in 1 .. Len(st2), NEW j \in 1 .. Len(st2), i <= j
      PROVE  st2[i].mod \in Below(g, st2[j].mod)
  <2>1. i + 1 \in 1 .. Len(st) /\ j + 1 \in 1 .. Len(st) /\ i + 1 <= j + 1
        /\ st2[i].mod = st[i+1].mod /\ st2[j].mod = st[j+1].mod
    BY <1>1, <1>7
  <2> QED
    BY <2>1 DEF Nested
<1> QED
  BY <1>2, <1>3, <1>4, <1>5, <1>6, <1>7 DEF Nested

LEMMA SingleNested ==
  ASSUME NEW g \in Graphs, NEW f \in Files, NEW t, f.next = 1, f.state = "parse"
  PROVE  Nested(<<f>>, g, t) /\ <<f>> \in Seq(Files) /\ Len(<<f>>) = 1 /\ <<f>>[1] = f
<1> DEFINE s == <<f>>
<1>1. s \in Seq(Files) /\ Len(s) = 1 /\ s[1] = f
  OBVIOUS
<1>2. f.mod \in Modules
  BY DEF Files
<1>3. Len(g[f.mod]) \in Nat /\ f.mod \in Below(g, f.mod)
  BY <1>2, ImportOf, BelowFacts
<1>4. \A i \in 1 .. Len(s) : i = 1
  BY <1>1
<1> HIDE DEF s
<1>5. Nested(s, g, t)
  BY <1>1, <1>3, <1>4 DEF Nested
<1> QED
  BY <1>1, <1>5 DEF s

-----------------------------------------------------------------------------
(* What the actions do to the stack. *)
Turned(t) ==
  /\ job.state = "busy" /\ Len(stack) # 0 /\ t \in Files
  /\ stack'[1] = t /\ Refiled(stack', stack)

LEMMA OneOrMore == \A n \in Nat \ {0} : n = 1 \/ (n > 1 /\ 1 < n)
OBVIOUS

LEMMA TopFacts ==
  ASSUME MakeTypes, stack # << >>
  PROVE  /\ Len(stack) \in Nat \ {0} /\ 1 \in 1 .. Len(stack) /\ stack \in Seq(Files)
         /\ Top \in Files /\ Top.mod \in Modules /\ Top.next \in Nat \ {0}
         /\ Compiled \in Files /\ Compiled.mod = Top.mod /\ Compiled.sourceTime = Top.sourceTime
         /\ Compiled.next = Top.next /\ Compiled.error = Top.error
         /\ Compiled.state = IF Len(stack) = 1 THEN "link" ELSE "closed"
<1>1. Len(stack) \in Nat \ {0} /\ 1 \in 1 .. Len(stack) /\ stack \in Seq(Files)
  BY FileFacts DEF MakeTypes
<1>2. Top \in Files /\ Top.mod \in Modules /\ Top.next \in Nat \ {0}
  BY <1>1, FileParts DEF Top
<1> QED
  BY <1>1, <1>2 DEF Compiled, IsMain, Files

LEMMA Turns ==
  ASSUME MakeTypes
  PROVE  /\ ParseFails => Turned(Compiled)
         /\ Rejected => Turned(Compiled)
         /\ Parse => Turned([Top EXCEPT !.state = "imports"])
         /\ ImportKnown => Turned([Top EXCEPT !.next = @ + 1])
         /\ ImportFails => Turned([Top EXCEPT !.error = TRUE, !.next = @ + 1])
<1>1. ASSUME NEW t \in Files, stack # << >>, t.mod = Top.mod, t.sourceTime = Top.sourceTime,
             job.state = "busy", stack' = <<t>> \o Tail(stack) \/ stack' = [stack EXCEPT ![1] = t]
      PROVE  Turned(t)
  <2>1. Len(stack) # 0 /\ stack \in Seq(Files)
    BY <1>1, TopFacts
  <2>2. Replaced(stack', t, stack)
    BY <1>1, <2>1, NewTop, ChangedTop
  <2>3. Refiled(stack', stack)
    BY <1>1, <2>1, <2>2, ReplacedIsRefiled DEF Top
  <2> QED
    BY <1>1, <2>1, <2>2, <2>3 DEF Turned, Replaced
<1>2. ASSUME ParseFails \/ Rejected PROVE Turned(Compiled)
  <2>1. stack # << >> /\ job.state = "busy" /\ stack' = <<Compiled>> \o Tail(stack)
    BY <1>2 DEF ParseFails, Rejected, Evaluated, Busy
  <2> QED
    BY <1>1, <2>1, TopFacts
<1>3. ASSUME Parse PROVE Turned([Top EXCEPT !.state = "imports"])
  <2>1. stack # << >> /\ job.state = "busy" /\ stack' = [stack EXCEPT ![1] = [Top EXCEPT !.state = "imports"]]
    BY <1>3 DEF Parse, Busy, Top
  <2>2. Top \in Files
    BY <2>1, TopFacts
  <2>3. /\ [Top EXCEPT !.state = "imports"] \in Files
        /\ [Top EXCEPT !.state = "imports"].mod = Top.mod
        /\ [Top EXCEPT !.state = "imports"].sourceTime = Top.sourceTime
    BY <2>2 DEF Files
  <2> QED
    BY <1>1, <2>1, <2>3
<1>4. ASSUME ImportKnown PROVE Turned([Top EXCEPT !.next = @ + 1])
  <2>1. stack # << >> /\ job.state = "busy" /\ stack' = [stack EXCEPT ![1] = [Top EXCEPT !.next = @ + 1]]
    BY <1>4 DEF ImportKnown, AtImport, Busy, Top
  <2>2. Top \in Files /\ Top.next \in Nat \ {0} /\ Top.next + 1 \in Nat \ {0}
    BY <2>1, TopFacts
  <2>3. /\ [Top EXCEPT !.next = @ + 1] \in Files
        /\ [Top EXCEPT !.next = @ + 1].mod = Top.mod
        /\ [Top EXCEPT !.next = @ + 1].sourceTime = Top.sourceTime
    BY <2>2 DEF Files
  <2> QED
    BY <1>1, <2>1, <2>3
<1>5. ASSUME ImportFails PROVE Turned([Top EXCEPT !.error = TRUE, !.next = @ + 1])
  <2> DEFINE t == [Top EXCEPT !.error = TRUE, !.next = @ + 1]
  <2>1. stack # << >> /\ job.state = "busy" /\ stack' = [stack EXCEPT ![1].error = TRUE, ![1].next = @ + 1]
    BY <1>5 DEF ImportFails, AtImport, Busy
  <2>2. Top \in Files /\ Top.next \in Nat \ {0} /\ Top.next + 1 \in Nat \ {0}
        /\ 1 \in DOMAIN stack
    BY <2>1, TopFacts, LenProperties
  <2>3. stack' = [stack EXCEPT ![1] = t]
    BY <2>1, <2>2 DEF Top
  <2>4. t \in Files /\ t.mod = Top.mod /\ t.sourceTime = Top.sourceTime
    BY <2>2 DEF Files
  <2> QED
    BY <1>1, <2>1, <2>3, <2>4
<1> QED
  BY <1>2, <1>3, <1>4, <1>5

(* A module that is accepted hands its time on to its client. *)
LEMMA AcceptedTurns ==
  ASSUME MakeTypes, NEW b, Accepted(b)
  PROVE  /\ Turned(Compiled)
         /\ Len(stack) > 1 => stack'[1].sourceTime <= stack'[2].sourceTime
<1>1. stack # << >> /\ job.state = "busy" /\ stack' = <<Compiled>> \o Adjusted
  BY DEF Accepted, Evaluated, Busy
<1>2. /\ Len(stack) \in Nat \ {0} /\ 1 \in 1 .. Len(stack) /\ stack \in Seq(Files)
      /\ Top \in Files /\ Compiled \in Files /\ Compiled.mod = Top.mod
      /\ Compiled.sourceTime = Top.sourceTime
  BY <1>1, TopFacts
<1>3. CASE Len(stack) > 1 /\ Top.sourceTime > stack[2].sourceTime
  <2> DEFINE u == [stack[2] EXCEPT !.sourceTime = stack[1].sourceTime]
  <2>1. 2 \in 1 .. Len(stack)
    BY <1>2, <1>3
  <2>2. u \in Files /\ u.sourceTime = Top.sourceTime
    <3>1. stack[2] \in Files /\ stack[1].sourceTime \in Nat \ {0}
      BY <1>2, <2>1, FileParts
    <3> QED
      BY <3>1 DEF Files, Top
  <2>3. Adjusted = <<u>> \o Tail(Tail(stack))
    <3>1. ~IsMain
      BY <1>2, <1>3 DEF IsMain
    <3> QED
      BY <1>3, <3>1 DEF Adjusted, Top
  <2>4. Compiled.mod = stack[1].mod /\ Compiled.sourceTime = stack[1].sourceTime
        /\ stack[1].sourceTime > stack[2].sourceTime
    BY <1>2, <1>3 DEF Top
  <2>5. u = [stack[2] EXCEPT !.sourceTime = stack[1].sourceTime]
    OBVIOUS
  <2> HIDE DEF u
  <2> DEFINE s1 == <<u>> \o Tail(Tail(stack))
  <2>6. Replaced(s1, u, Tail(stack)) /\ Opening(stack', Compiled, s1)
    <3>1. Tail(stack) \in Seq(Files) /\ Len(Tail(stack)) # 0
      BY <1>2, <1>3, Rest
    <3>2. Replaced(s1, u, Tail(stack))
      BY <2>2, <3>1, NewTop
    <3>3. s1 \in Seq(Files) /\ stack' = <<Compiled>> \o s1
      BY <1>1, <2>3, <3>2 DEF Replaced
    <3> HIDE DEF s1
    <3>4. Opening(stack', Compiled, s1)
      BY <1>2, <3>3, OnTop DEF Opening
    <3> QED
      BY <3>2, <3>4
  <2> HIDE DEF s1
  <2>7. Refiled(stack', stack) /\ stack'[1] = Compiled /\ stack'[2] = u
    BY <1>2, <1>3, <2>2, <2>4, <2>5, <2>6, TimePassed
  <2>8. stack'[1].sourceTime <= stack'[2].sourceTime
    <3>1. Top.sourceTime \in Nat
      BY <1>2 DEF Files
    <3> QED
      BY <1>2, <2>2, <2>7, <3>1
  <2> QED
    BY <1>1, <1>2, <2>7, <2>8 DEF Turned
<1>4. CASE ~(Len(stack) > 1 /\ Top.sourceTime > stack[2].sourceTime)
  <2>1. Adjusted = Tail(stack)
    <3>1. IsMain \/ Len(stack) > 1
      <4>1. Len(stack) \in Nat \ {0}
        BY <1>2
      <4>2. Len(stack) = 1 \/ Len(stack) > 1
        BY <4>1, OneOrMore, Zenon
      <4> QED
        BY <4>2, Zenon DEF IsMain
    <3> QED
      BY <1>4, <3>1 DEF Adjusted
  <2>2. Replaced(stack', Compiled, stack)
    BY <1>1, <1>2, <2>1, NewTop
  <2>3. Refiled(stack', stack) /\ stack'[1] = Compiled
    BY <1>2, <2>2, ReplacedIsRefiled DEF Top, Replaced
  <2>4. ASSUME Len(stack) > 1 PROVE stack'[1].sourceTime <= stack'[2].sourceTime
    <3>1. 2 \in 1 .. Len(stack)
      BY <1>2, <2>4
    <3>2. stack[2].sourceTime \in Nat /\ Top.sourceTime \in Nat
      BY <1>2, <3>1, FileParts DEF Top
    <3>3. stack'[2] = stack[2]
      BY <2>2, <3>1 DEF Replaced
    <3> QED
      BY <1>2, <1>4, <2>3, <2>4, <3>2, <3>3
  <2> QED
    BY <1>1, <1>2, <2>3, <2>4 DEF Turned
<1> QED
  BY <1>3, <1>4

LEMMA Opens ==
  ASSUME MakeTypes, ImportOpens
  PROVE  /\ Opening(stack', Frame(Server), stack) /\ Frame(Server) \in Files
         /\ Server \in Modules /\ Server \in Uses(imports, Top.mod)
         /\ Waits(stack[1], Server, imports) /\ Server \notin tbl
         /\ \A i \in 1 .. Len(stack) : stack[i].mod # Server
         /\ stack # << >> /\ job.state = "busy" /\ defect[Server] # "missing"
<1>1. /\ stack # << >> /\ job.state = "busy" /\ stack' = <<Frame(Server)>> \o stack
      /\ Top.state = "imports" /\ Top.next <= Len(imports[Top.mod]) /\ Server \notin tbl
      /\ ~IsOpen(Server) /\ defect[Server] # "missing"
  BY DEF ImportOpens, AtImport, Busy
<1>2. stack \in Seq(Files) /\ Top.mod \in Modules /\ Top.next \in Nat \ {0} /\ imports \in Graphs
      /\ DOMAIN stack = 1 .. Len(stack)
  BY <1>1, TopFacts, FileFacts DEF MakeTypes
<1>3. Server \in Modules /\ Server \in Uses(imports, Top.mod)
  <2>1. Top.next \in 1 .. Len(imports[Top.mod])
    <3>1. Len(imports[Top.mod]) \in Nat
      BY <1>2, ImportOf
    <3> QED
      BY <1>1, <1>2, <3>1
  <2> QED
    BY <1>2, <2>1, ImportOf DEF Server
<1>4. Frame(Server) \in Files
  <2>1. src[Server] \in Nat \ {0}
    BY <1>3 DEF MakeTypes
  <2> QED
    BY <1>3, <2>1 DEF Frame, Files
<1>5. Opening(stack', Frame(Server), stack)
  <2> DEFINE t == Frame(Server)
  <2> HIDE DEF t
  <2>1. t \in Files /\ stack' = <<t>> \o stack
    BY <1>1, <1>4 DEF t
  <2>2. Opening(stack', t, stack)
    BY <1>2, <2>1, OnTop DEF Opening
  <2> QED
    BY <2>2 DEF t
<1>6. Waits(stack[1], Server, imports)
  BY <1>1 DEF Waits, Server, Top
<1>7. \A i \in 1 .. Len(stack) : stack[i].mod # Server
  BY <1>1, <1>2 DEF IsOpen
<1> QED
  BY <1>1, <1>3, <1>4, <1>5, <1>6, <1>7

LEMMA Closes ==
  ASSUME MakeTypes, CloseServer
  PROVE  /\ Closing(stack', stack) /\ tbl' = tbl \cup {stack[1].mod}
         /\ Top.state = "closed" /\ job.state = "busy" /\ stack # << >>
<1>1. /\ stack # << >> /\ job.state = "busy" /\ ~IsMain /\ Top.state = "closed"
      /\ tbl' = tbl \cup {Top.mod}
      /\ stack' = <<[stack[2] EXCEPT !.next = @ + 1]>> \o Tail(Tail(stack))
  BY DEF CloseServer, Busy
<1>2. Len(stack) \in Nat \ {0} /\ stack \in Seq(Files)
  BY <1>1, TopFacts
<1>3. Len(stack) > 1
  BY <1>1, <1>2 DEF IsMain
<1>4. Closing(stack', stack)
  BY <1>1, <1>2, <1>3, ClosedTop
<1> QED
  BY <1>1, <1>4 DEF Top

LEMMA Begins ==
  ASSUME MakeTypes, AtFile
  PROVE  /\ job.next \in 1 .. Len(job.files) /\ NextFile \in Modules
         /\ Frame(NextFile) \in Files /\ Len(job.files) \in Nat
<1>1. job.files \in Seq(Modules) /\ job.next \in Nat \ {0} /\ job.next <= Len(job.files)
  BY DEF MakeTypes, Jobs, AtFile
<1>2. Len(job.files) \in Nat
  BY <1>1, LenProperties
<1>3. job.next \in 1 .. Len(job.files)
  BY <1>1, <1>2
<1>4. NextFile \in Modules
  BY <1>1, <1>3, ElementOfSeq DEF NextFile
<1>5. src[NextFile] \in Nat \ {0}
  BY <1>4 DEF MakeTypes
<1> QED
  BY <1>2, <1>3, <1>4, <1>5 DEF Frame, Files

-----------------------------------------------------------------------------
LEMMA Steps ==
  ASSUME [MakeNext]_mkvars
  PROVE  \/ FileMissing \/ OpenMain \/ ParseFails \/ Parse
         \/ ImportKnown \/ ImportFails \/ ImportOpens
         \/ Rejected \/ Reused \/ ForeignModule \/ NotAssembled \/ Assembled \/ AssemblyFails
         \/ CloseServer \/ Link \/ LinkFails \/ DontLink \/ Exit
         \/ \E m \in Modules, d \in Defects : Edit(m, d)
         \/ \E l \in CommandLines, force \in IgnoreTimeStamps, fails \in ToolsFail :
              Run(l[1], force, l[2], fails)
         \/ (\E m \in Foreign : Provide(m)) \/ UNCHANGED mkvars
<1>1. MakeNext \/ UNCHANGED mkvars
  OBVIOUS
<1>2. CASE MakeNext
  BY <1>2 DEF MakeNext, Process
<1> QED
  BY <1>1, <1>2

-----------------------------------------------------------------------------
(* The types of the variables. *)
LEMMA InitTypes == MakeInit => MakeTypes
<1> SUFFICES ASSUME MakeInit PROVE MakeTypes
  OBVIOUS
<1>1. /\ clock = 1 /\ imports \in Graphs /\ src = [m \in Modules |-> 1]
      /\ stack = << >> /\ tbl = {} /\ linklist = << >> /\ linkable = FALSE
      /\ youngest = 0 /\ code = 0
  BY DEF MakeInit
<1>2. defect \in [Modules -> Defects]
  BY MakeAssumption DEF MakeInit
<1>3. job \in Jobs
  <2>1. /\ "idle" \in {"idle", "busy"} /\ Make \in NoCodeGeneration .. Make
        /\ << >> \in Seq(Modules) /\ 1 \in Nat \ {0}
    BY DEF Make, NoCodeGeneration
  <2> QED
    BY <2>1 DEF MakeInit, Jobs
<1>4. << >> \in Seq(Files) /\ << >> \in Seq(Modules)
  OBVIOUS
<1> QED
  <2>1. /\ clock \in Nat \ {0} /\ youngest \in Nat /\ code \in {0, 1}
        /\ src \in [Modules -> Nat \ {0}] /\ \A m \in Modules : src[m] <= clock
    BY <1>1
  <2>2. stack \in Seq(Files) /\ linklist \in Seq(Modules)
    BY <1>1, <1>4, Zenon
  <2> QED
    BY <1>1, <1>2, <1>3, <2>1, <2>2 DEF MakeTypes

LEMMA TypesKept == MakeTypes /\ [MakeNext]_mkvars => MakeTypes'
<1> SUFFICES ASSUME MakeTypes, [MakeNext]_mkvars PROVE MakeTypes'
  OBVIOUS
<1> USE DEF lists, disk
<1>1. /\ clock \in Nat \ {0} /\ imports \in Graphs
      /\ src \in [Modules -> Nat \ {0}] /\ \A m \in Modules : src[m] <= clock
      /\ defect \in [Modules -> Defects]
      /\ job \in Jobs /\ stack \in Seq(Files)
      /\ tbl \subseteq Modules /\ linklist \in Seq(Modules) /\ linkable \in BOOLEAN
      /\ youngest \in Nat /\ code \in {0, 1}
  BY DEF MakeTypes
<1>a. job.files \in Seq(Modules) /\ job.next \in Nat \ {0}
  BY <1>1 DEF Jobs
<1>b. [job EXCEPT !.next = @ + 1] \in Jobs /\ [job EXCEPT !.state = "idle"] \in Jobs
  <2>1. job.next + 1 \in Nat \ {0}
    BY <1>a
  <2> QED
    BY <1>1, <2>1 DEF Jobs
<1>c. << >> \in Seq(Files) /\ << >> \in Seq(Modules)
  OBVIOUS
<1>d. \A t : Turned(t) => stack' \in Seq(Files)
  BY DEF Turned, Refiled
<1>2. CASE FileMissing
  BY <1>1, <1>2, <1>b DEF FileMissing, ErrorOccurred, MakeTypes
<1>3. CASE OpenMain
  <2>1. AtFile /\ stack' = <<Frame(NextFile)>> /\ linklist' = << >> /\ linkable' = TRUE
        /\ youngest' = src[NextFile] /\ UNCHANGED <<disk, job, tbl, code>>
    BY <1>3 DEF OpenMain
  <2>2. Frame(NextFile) \in Files /\ src[NextFile] \in Nat
    BY <1>1, <2>1, Begins
  <2>3. stack' \in Seq(Files)
    <3> HIDE DEF Frame
    <3> QED
      BY <2>1, <2>2
  <2> QED
    BY <1>1, <1>c, <2>1, <2>2, <2>3 DEF MakeTypes
<1>4. CASE ParseFails \/ Rejected \/ ImportFails
  <2>1. stack' \in Seq(Files)
    BY <1>4, <1>d, Turns
  <2> QED
    BY <1>1, <1>4, <2>1 DEF ParseFails, Rejected, ImportFails, ErrorOccurred, MakeTypes
<1>5. CASE Parse \/ ImportKnown
  <2>1. stack' \in Seq(Files)
    BY <1>5, <1>d, Turns
  <2> QED
    BY <1>1, <1>5, <2>1 DEF Parse, ImportKnown, MakeTypes
<1>6. CASE ImportOpens
  <2>1. stack' \in Seq(Files) /\ Server \in Modules
    BY <1>6, Opens DEF Opening
  <2>2. src[Server] \in Nat
    BY <1>1, <2>1
  <2> QED
    BY <1>1, <1>6, <2>1, <2>2 DEF ImportOpens, MakeTypes
<1>7. ASSUME NEW b, Accepted(b) PROVE /\ stack' \in Seq(Files) /\ Top.mod \in Modules
                                      /\ Append(linklist, Top.mod) \in Seq(Modules)
                                      /\ UNCHANGED <<clock, imports, src, defect, exe, job, tbl, youngest>>
  <2>1. stack' \in Seq(Files)
    BY <1>7, <1>d, AcceptedTurns
  <2>2. Top.mod \in Modules
    BY <1>7, TopFacts DEF Accepted, Evaluated, Busy
  <2>3. Append(linklist, Top.mod) \in Seq(Modules)
    BY <1>1, <2>2, AppendProperties
  <2> QED
    BY <1>7, <2>1, <2>2, <2>3 DEF Accepted
<1>8. CASE Reused
  BY <1>1, <1>7, <1>8 DEF Reused, AddToLinklist, MakeTypes
<1>9. CASE ForeignModule
  BY <1>1, <1>7, <1>9 DEF ForeignModule, MakeTypes
<1>10. CASE NotAssembled
  BY <1>1, <1>7, <1>10 DEF NotAssembled, MakeTypes
<1>11. CASE Assembled
  BY <1>1, <1>7, <1>11 DEF Assembled, AddToLinklist, MakeTypes
<1>12. CASE AssemblyFails
  BY <1>1, <1>7, <1>12 DEF AssemblyFails, ErrorOccurred, MakeTypes
<1>13. CASE CloseServer
  <2>1. stack' \in Seq(Files) /\ Top.mod \in Modules
    BY <1>13, Closes, TopFacts DEF Closing
  <2> QED
    BY <1>1, <1>13, <2>1 DEF CloseServer, MakeTypes
<1>14. CASE Link \/ LinkFails \/ DontLink
  <2>1. CloseMain /\ linkable' \in BOOLEAN /\ code' \in {0, 1}
    BY <1>1, <1>14 DEF Link, LinkFails, DontLink, ErrorOccurred
  <2> QED
    BY <1>1, <1>b, <1>c, <2>1 DEF CloseMain, MakeTypes
<1>15. CASE Exit
  BY <1>1, <1>15, <1>b, <1>c DEF Exit, MakeTypes
<1>16. ASSUME NEW m \in Modules, NEW d \in Defects, Edit(m, d) PROVE MakeTypes'
  <2>1. /\ clock' = clock + 1 /\ src' = [src EXCEPT ![m] = clock + 1]
        /\ defect' = [defect EXCEPT ![m] = d]
        /\ UNCHANGED <<imports, obj, exe, job, stack, tbl, lists, linkable, youngest, code>>
    BY <1>16 DEF Edit
  <2>2. clock' \in Nat \ {0} /\ src' \in [Modules -> Nat \ {0}] /\ \A x \in Modules : src'[x] <= clock'
    BY <1>1, <2>1
  <2>3. defect' \in [Modules -> Defects]
    BY <1>1, <2>1
  <2> QED
    BY <1>1, <2>1, <2>2, <2>3 DEF MakeTypes
<1>17. ASSUME NEW l \in CommandLines, NEW force \in IgnoreTimeStamps, NEW fails \in ToolsFail,
              Run(l[1], force, l[2], fails)
       PROVE  MakeTypes'
  <2>1. /\ l[1] \in NoCodeGeneration .. Make /\ l[2] \in Seq(Modules)
        /\ force \in BOOLEAN /\ fails \in BOOLEAN
    <3>1. l[1] \in NoCodeGeneration .. Make /\ l[2] \in Seq(Modules)
      BY MakeAssumption, Zenon
    <3>2. IgnoreTimeStamps \subseteq BOOLEAN /\ ToolsFail \subseteq BOOLEAN
      BY MakeAssumption
    <3>3. force \in BOOLEAN /\ fails \in BOOLEAN
      BY <3>2, Zenon
    <3> QED
      BY <3>1, <3>3
  <2>2. /\ job' = [state |-> "busy", cmd |-> l[1], force |-> force, files |-> l[2], next |-> 1,
                   fails |-> fails]
        /\ code' = 0 /\ UNCHANGED <<disk, stack, tbl, lists, linkable, youngest>>
    BY <1>17 DEF Run
  <2>3. job' \in Jobs
    BY <2>1, <2>2 DEF Jobs
  <2> QED
    BY <1>1, <2>2, <2>3 DEF MakeTypes
<1>18. CASE (\E m \in Foreign : Provide(m)) \/ UNCHANGED mkvars
  BY <1>1, <1>18 DEF Provide, mkvars, MakeTypes
<1> QED
  BY <1>2, <1>3, <1>4, <1>5, <1>6, <1>8, <1>9, <1>10, <1>11, <1>12, <1>13, <1>14, <1>15,
     <1>16, <1>17, <1>18, Steps, Zenon

-----------------------------------------------------------------------------
(* Who is open. *)
LEMMA InitOpened == MakeInit => Opened
<1> SUFFICES ASSUME MakeInit PROVE Opened
  OBVIOUS
<1>1. stack = << >> /\ tbl = {} /\ job.state = "idle" /\ job.next = 1 /\ job.files = << >>
  BY DEF MakeInit
<1>2. Len(stack) = 0 /\ Len(job.files) = 0
  BY <1>1
<1>3. Nested(stack, imports, tbl)
  BY <1>2 DEF Nested
<1> QED
  BY <1>1, <1>2, <1>3 DEF Opened

LEMMA LastKept ==
  ASSUME MakeTypes, Opened, NEW t, Turned(t), job' = job, imports' = imports, tbl' = tbl,
         t.next <= Len(imports[Top.mod]) + 1, t.state = "link" => Len(stack) = 1
  PROVE  Opened'
<1>1. /\ stack \in Seq(Files) /\ imports \in Graphs /\ Len(stack) # 0 /\ Refiled(stack', stack)
      /\ stack'[1] = t /\ job.state = "busy"
  BY DEF MakeTypes, Turned
<1>2. Nested(stack', imports, tbl)
  BY <1>1, RefiledNested DEF Opened, Top
<1>3. Len(stack') = Len(stack) /\ stack'[Len(stack)].mod = stack[Len(stack)].mod /\ stack # << >>
  <2>1. Len(stack) \in 1 .. Len(stack) /\ stack # << >>
    BY <1>1, FileFacts
  <2> QED
    BY <1>1, <2>1 DEF Refiled
<1>4. Nested(stack, imports, tbl)'
  BY <1>2
<1> QED
  BY <1>1, <1>3, <1>4 DEF Opened, NextFile

LEMMA OpenedKept == MakeTypes /\ Opened /\ [MakeNext]_mkvars => Opened'
<1> SUFFICES ASSUME MakeTypes, Opened, [MakeNext]_mkvars PROVE Opened'
  OBVIOUS
<1> USE DEF lists, disk
<1>1. /\ imports \in Graphs /\ stack \in Seq(Files) /\ job \in Jobs
      /\ job.next \in Nat /\ job.files \in Seq(Modules) /\ Len(job.files) \in Nat
  BY LenProperties DEF MakeTypes, Jobs
<1>2. ASSUME stack # << >>
      PROVE  /\ Top.mod \in Modules /\ Len(imports[Top.mod]) \in Nat /\ Top.next \in Nat
             /\ Top.next <= Len(imports[Top.mod]) + 1
  <2>1. Top.mod \in Modules /\ Top.next \in Nat /\ 1 \in 1 .. Len(stack)
    BY <1>2, TopFacts
  <2> QED
    BY <1>1, <2>1, ImportOf DEF Opened, Nested, Top
<1>3. CASE FileMissing
  <2>1. /\ stack = << >> /\ stack' = << >> /\ tbl' = tbl /\ imports' = imports
        /\ job.state = "busy" /\ job' = [job EXCEPT !.next = @ + 1] /\ job.next <= Len(job.files)
    BY <1>3 DEF FileMissing, AtFile
  <2>2. job'.state = "busy" /\ job'.next = job.next + 1 /\ job'.files = job.files
    BY <1>1, <2>1 DEF Jobs
  <2>3. Nested(stack, imports, tbl)'
    BY <2>1 DEF Opened
  <2> QED
    BY <1>1, <2>1, <2>2, <2>3 DEF Opened
<1>4. CASE OpenMain
  <2>1. AtFile /\ stack' = <<Frame(NextFile)>> /\ job' = job /\ tbl' = tbl /\ imports' = imports
    BY <1>4 DEF OpenMain
  <2>2. job.next <= Len(job.files) /\ job.state = "busy"
    BY <2>1 DEF AtFile
  <2>3. Frame(NextFile) \in Files
    BY <2>1, Begins
  <2>4. Frame(NextFile).next = 1 /\ Frame(NextFile).state = "parse" /\ Frame(NextFile).mod = NextFile
    BY DEF Frame
  <2>5. Nested(stack', imports, tbl) /\ Len(stack') = 1 /\ stack'[1] = Frame(NextFile)
    BY <1>1, <2>1, <2>3, <2>4, SingleNested
  <2>6. Nested(stack, imports, tbl)'
    BY <2>1, <2>5
  <2> QED
    BY <2>1, <2>2, <2>4, <2>5, <2>6 DEF Opened, NextFile
<1>5. ASSUME stack # << >>, Turned(Compiled), job' = job, imports' = imports, tbl' = tbl
      PROVE  Opened'
  <2>1. Compiled.next = Top.next /\ (Compiled.state = "link" => Len(stack) = 1)
    BY <1>5, TopFacts
  <2> QED
    BY <1>2, <1>5, <2>1, LastKept
<1>6. CASE ParseFails \/ Rejected
  <2>1. stack # << >> /\ job' = job /\ imports' = imports /\ tbl' = tbl
    BY <1>6 DEF ParseFails, Rejected, Evaluated, Busy
  <2> QED
    BY <1>5, <1>6, <2>1, Turns
<1>7. ASSUME NEW b, Accepted(b) PROVE Opened'
  <2>1. stack # << >> /\ job' = job /\ imports' = imports /\ tbl' = tbl
    BY <1>7 DEF Accepted, Evaluated, Busy
  <2> QED
    BY <1>5, <1>7, <2>1, AcceptedTurns
<1>8. CASE Parse
  <2> DEFINE t == [Top EXCEPT !.state = "imports"]
  <2>1. stack # << >> /\ job' = job /\ imports' = imports /\ tbl' = tbl
    BY <1>8 DEF Parse, Busy
  <2>2. t.next = Top.next /\ t.state = "imports"
    BY <2>1, TopFacts DEF Files
  <2>3. Turned(t)
    BY <1>8, Turns
  <2> HIDE DEF t
  <2> QED
    BY <1>2, <2>1, <2>2, <2>3, LastKept
<1>9. CASE ImportKnown
  <2> DEFINE t == [Top EXCEPT !.next = @ + 1]
  <2>1. /\ stack # << >> /\ job' = job /\ imports' = imports /\ tbl' = tbl
        /\ Top.state = "imports" /\ Top.next <= Len(imports[Top.mod])
    BY <1>9 DEF ImportKnown, AtImport, Busy
  <2>2. t.next = Top.next + 1 /\ t.state = "imports"
    BY <2>1, TopFacts DEF Files
  <2>3. Turned(t)
    BY <1>9, Turns
  <2> HIDE DEF t
  <2>4. t.next <= Len(imports[Top.mod]) + 1
    BY <1>2, <2>1, <2>2
  <2> QED
    BY <2>1, <2>2, <2>3, <2>4, LastKept
<1>10. CASE ImportFails
  <2> DEFINE t == [Top EXCEPT !.error = TRUE, !.next = @ + 1]
  <2>1. /\ stack # << >> /\ job' = job /\ imports' = imports /\ tbl' = tbl
        /\ Top.state = "imports" /\ Top.next <= Len(imports[Top.mod])
    BY <1>10 DEF ImportFails, AtImport, Busy
  <2>2. t.next = Top.next + 1 /\ t.state = "imports"
    BY <2>1, TopFacts DEF Files
  <2>3. Turned(t)
    BY <1>10, Turns
  <2> HIDE DEF t
  <2>4. t.next <= Len(imports[Top.mod]) + 1
    BY <1>2, <2>1, <2>2
  <2> QED
    BY <2>1, <2>2, <2>3, <2>4, LastKept
<1>11. CASE ImportOpens
  <2>1. job' = job /\ imports' = imports /\ tbl' = tbl
    BY <1>11 DEF ImportOpens
  <2>2. /\ Opening(stack', Frame(Server), stack) /\ Frame(Server) \in Files
        /\ Waits(stack[1], Server, imports) /\ Server \notin tbl
        /\ \A i \in 1 .. Len(stack) : stack[i].mod # Server
        /\ stack # << >> /\ job.state = "busy"
    BY <1>11, Opens
  <2>3. Frame(Server).mod = Server /\ Frame(Server).next = 1 /\ Frame(Server).state = "parse"
    BY DEF Frame
  <2>4. Len(stack) # 0 /\ Len(stack) \in 1 .. Len(stack)
    BY <2>2, FileFacts
  <2>5. Nested(stack', imports, tbl)
    BY <1>1, <2>2, <2>3, <2>4, OpeningNested DEF Opened
  <2>6. Nested(stack, imports, tbl)'
    BY <2>1, <2>5
  <2>7. Len(stack') = Len(stack) + 1 /\ stack'[Len(stack) + 1] = stack[Len(stack)]
    BY <2>2, <2>4 DEF Opening
  <2> QED
    BY <2>1, <2>2, <2>6, <2>7 DEF Opened, NextFile
<1>12. CASE CloseServer
  <2>1. job' = job /\ imports' = imports
    BY <1>12 DEF CloseServer
  <2>2. /\ Closing(stack', stack) /\ tbl' = tbl \cup {stack[1].mod} /\ stack # << >> /\ job.state = "busy"
    BY <1>12, Closes
  <2>3. Nested(stack', imports, tbl \cup {stack[1].mod})
    BY <1>1, <2>2, ClosingNested DEF Opened
  <2>4. Nested(stack, imports, tbl)'
    BY <2>1, <2>2, <2>3
  <2>5. Len(stack') \in 1 .. Len(stack') /\ Len(stack') + 1 = Len(stack)
        /\ stack'[Len(stack')].mod = stack[Len(stack') + 1].mod
    BY <1>1, <2>2, ClosingParts
  <2> QED
    BY <2>1, <2>2, <2>4, <2>5 DEF Opened, NextFile
<1>13. CASE Link \/ LinkFails \/ DontLink
  <2>1. stack # << >> /\ job.state = "busy" /\ CloseMain
    BY <1>13 DEF Link, LinkFails, DontLink, Linkable, Busy
  <2>2. /\ stack' = << >> /\ job' = [job EXCEPT !.next = @ + 1] /\ imports' = imports /\ tbl' = tbl
    BY <2>1 DEF CloseMain
  <2>3. job'.state = "busy" /\ job'.next = job.next + 1 /\ job'.files = job.files
    BY <1>1, <2>1, <2>2 DEF Jobs
  <2>4. Nested(stack, imports, tbl)'
    <3>1. Len(stack') = 0
      BY <2>2
    <3> QED
      BY <3>1 DEF Nested
  <2>5. job.next <= Len(job.files)
    BY <2>1 DEF Opened
  <2> QED
    BY <1>1, <2>1, <2>2, <2>3, <2>4, <2>5 DEF Opened
<1>14. CASE Exit
  <2>1. /\ stack' = << >> /\ tbl' = {} /\ job' = [job EXCEPT !.state = "idle"] /\ imports' = imports
    BY <1>14 DEF Exit
  <2>2. job'.next = job.next /\ job'.files = job.files
    BY <1>1, <2>1 DEF Jobs
  <2>3. Nested(stack, imports, tbl)'
    <3>1. Len(stack') = 0
      BY <2>1
    <3> QED
      BY <3>1 DEF Nested
  <2> QED
    BY <2>1, <2>2, <2>3 DEF Opened
<1>15. ASSUME NEW m \in Modules, NEW d \in Defects, Edit(m, d) PROVE Opened'
  <2>1. UNCHANGED <<imports, job, stack, tbl>>
    BY <1>15 DEF Edit
  <2>2. Nested(stack, imports, tbl)'
    BY <2>1 DEF Opened
  <2> QED
    BY <2>1, <2>2 DEF Opened, NextFile
<1>16. ASSUME NEW l \in CommandLines, NEW force \in IgnoreTimeStamps, NEW fails \in ToolsFail,
              Run(l[1], force, l[2], fails)
       PROVE  Opened'
  <2>1. /\ job.state = "idle" /\ UNCHANGED <<imports, stack, tbl>>
        /\ job'.state = "busy" /\ job'.next = 1 /\ job'.files = l[2]
    BY <1>16 DEF Run
  <2>2. Nested(stack, imports, tbl)'
    BY <2>1 DEF Opened
  <2>3. l[2] \in Seq(Modules)
    BY MakeAssumption
  <2>4. Len(l[2]) \in Nat
    BY <2>3, LenProperties
  <2> QED
    BY <2>1, <2>2, <2>4 DEF Opened
<1>17. CASE (\E m \in Foreign : Provide(m)) \/ UNCHANGED mkvars
  <2>1. UNCHANGED <<imports, job, stack, tbl>>
    BY <1>17 DEF Provide, mkvars
  <2>2. Nested(stack, imports, tbl)'
    BY <2>1 DEF Opened
  <2> QED
    BY <2>1, <2>2 DEF Opened, NextFile
<1>18. CASE Reused \/ ForeignModule \/ NotAssembled \/ Assembled \/ AssemblyFails
  BY <1>7, <1>18 DEF Reused, ForeignModule, NotAssembled, Assembled, AssemblyFails
<1> QED
  BY <1>3, <1>4, <1>6, <1>8, <1>9, <1>10, <1>11, <1>12, <1>13, <1>14, <1>15,
     <1>16, <1>17, <1>18, Steps, Zenon

-----------------------------------------------------------------------------
(* Errors and the return code. *)
LEMMA SoundBelow ==
  ASSUME NEW g \in Graphs, NEW d, NEW t \in SUBSET Modules, TablesSound(g, d, t),
         NEW m \in Modules, Uses(g, m) \subseteq t
  PROVE  /\ Below(g, m) \subseteq t \cup {m}
         /\ m \notin t => ~InCycle(g, m)
         /\ m \in t => ~InCycle(g, m) /\ d[m] = "none"
<1>1. ClosedIn(g, t) /\ ClosedIn(g, t \cup {m})
  BY DEF TablesSound, Sound, ClosedIn
<1>2. Below(g, m) \subseteq t \cup {m}
  BY <1>1, BelowFacts
<1>3. ASSUME m \notin t, InCycle(g, m) PROVE FALSE
  <2>1. PICK y \in Uses(g, m) : m \in Below(g, y)
    BY <1>3 DEF InCycle
  <2>2. y \in t /\ y \in Modules
    BY <2>1
  <2>3. Below(g, y) \subseteq t
    BY <1>1, <2>2, BelowFacts
  <2> QED
    BY <1>3, <2>1, <2>3
<1> QED
  BY <1>2, <1>3 DEF TablesSound, Sound

LEMMA UsesDone ==
  ASSUME NEW g \in Graphs, NEW d, NEW t, NEW f \in Files, Going(f, g, d, t),
         f.next = Len(g[f.mod]) + 1
  PROVE  Uses(g, f.mod) \subseteq t
<1>1. f.mod \in Modules
  BY DEF Files
<1>2. /\ Len(g[f.mod]) \in Nat
      /\ \A y \in Uses(g, f.mod) : \E k \in 1 .. Len(g[f.mod]) : g[f.mod][k] = y
  BY <1>1, ImportOf
<1>3. f.next - 1 = Len(g[f.mod])
  BY <1>2
<1>4. \A k \in 1 .. Len(g[f.mod]) : g[f.mod][k] \in t
  BY <1>3 DEF Going
<1> QED
  BY <1>2, <1>4

LEMMA RefiledGoing ==
  ASSUME NEW g, NEW d, NEW t, NEW st \in Seq(Files), NEW st2, AllGoing(st, g, d, t),
         Refiled(st2, st), Going(st2[1], g, d, t)
  PROVE  AllGoing(st2, g, d, t)
<1>1. /\ Len(st2) = Len(st) /\ \A i \in 1 .. Len(st) : st2[i].mod = st[i].mod
      /\ \A i \in 1 .. Len(st) : i > 1 =>
           st2[i].state = st[i].state /\ st2[i].next = st[i].next /\ st2[i].error = st[i].error
      /\ Len(st) \in Nat
  BY FileParts DEF Refiled
<1> SUFFICES ASSUME NEW i \in 1 .. Len(st2) PROVE Going(st2[i], g, d, t)
  BY DEF AllGoing
<1>2. CASE i = 1
  BY <1>2
<1>3. CASE i # 1
  <2>1. i > 1 /\ i \in 1 .. Len(st)
    BY <1>1, <1>3
  <2>2. /\ Going(st[i], g, d, t) /\ st2[i].mod = st[i].mod /\ st2[i].state = st[i].state
        /\ st2[i].next = st[i].next /\ st2[i].error = st[i].error
    BY <1>1, <2>1 DEF AllGoing
  <2> QED
    BY <2>2 DEF Going
<1> QED
  BY <1>2, <1>3

LEMMA OpeningGoing ==
  ASSUME NEW g, NEW d, NEW t, NEW st \in Seq(Files), NEW f, NEW st2, AllGoing(st, g, d, t),
         Opening(st2, f, st), Going(f, g, d, t)
  PROVE  AllGoing(st2, g, d, t)
<1>1. Len(st2) = Len(st) + 1 /\ st2[1] = f /\ Len(st) \in Nat
      /\ \A i \in 1 .. Len(st) : st2[i+1] = st[i]
  BY FileParts DEF Opening
<1> SUFFICES ASSUME NEW i \in 1 .. Len(st2) PROVE Going(st2[i], g, d, t)
  BY DEF AllGoing
<1>2. CASE i = 1
  BY <1>1, <1>2
<1>3. CASE i # 1
  <2>1. i - 1 \in 1 .. Len(st) /\ i - 1 + 1 = i
    BY <1>1, <1>3
  <2>2. st2[i-1+1] = st[i-1]
    BY <1>1, <2>1
  <2> QED
    BY <2>1, <2>2 DEF AllGoing
<1> QED
  BY <1>2, <1>3

LEMMA ClosingGoing ==
  ASSUME NEW g \in Graphs, NEW d, NEW t, NEW st \in Seq(Files), NEW st2, AllGoing(st, g, d, t),
         Nested(st, g, t), Closing(st2, st)
  PROVE  AllGoing(st2, g, d, t \cup {st[1].mod})
<1>1. /\ Len(st) \in Nat /\ Len(st2) = Len(st) - 1 /\ 1 \in 1 .. Len(st) /\ 2 \in 1 .. Len(st)
      /\ st2[1].mod = st[2].mod /\ st2[1].next = st[2].next + 1
      /\ st2[1].state = st[2].state /\ st2[1].error = st[2].error
      /\ \A i \in 1 .. Len(st2) : i + 1 \in 1 .. Len(st) /\ (i # 1 => i > 1 /\ st2[i] = st[i+1])
  BY ClosingParts
<1> DEFINE t2 == t \cup {st[1].mod}
<1> SUFFICES ASSUME NEW i \in 1 .. Len(st2) PROVE Going(st2[i], g, d, t2)
  BY DEF AllGoing
<1>2. CASE i # 1
  <2>1. Going(st[i+1], g, d, t) /\ st2[i] = st[i+1]
    BY <1>1, <1>2 DEF AllGoing
  <2> QED
    BY <2>1 DEF Going
<1>3. CASE i = 1
  <2>1. Going(st[2], g, d, t)
    BY <1>1 DEF AllGoing
  <2>2. /\ st[2].state = "imports" /\ st[2].next \in Nat \ {0}
        /\ g[st[2].mod][st[2].next] = st[2-1].mod
    BY <1>1, NestedParts
  <2>3. \A k \in 1 .. st[2].next : k = st[2].next \/ k \in 1 .. st[2].next - 1
    BY <2>2
  <2>4. ASSUME NEW k \in 1 .. st[2].next PROVE g[st[2].mod][k] \in t2
    <3>1. CASE k = st[2].next
      BY <2>2, <3>1
    <3>2. CASE k \in 1 .. st[2].next - 1
      BY <2>1, <3>2 DEF Going
    <3> QED
      BY <2>3, <3>1, <3>2
  <2>5. st2[1].next - 1 = st[2].next
    BY <1>1, <2>2
  <2> QED
    BY <1>1, <1>3, <2>1, <2>2, <2>4, <2>5 DEF Going
<1> QED
  BY <1>2, <1>3

LEMMA AllowsFiles ==
  ASSUME MakeTypes, Opened, stack # << >>
  PROVE  /\ job.next \in 1 .. Len(job.files) /\ job.files[job.next] \in Modules
         /\ \A i \in 1 .. Len(stack) : stack[i].mod \in Below(imports, job.files[job.next])
         /\ job.state = "busy"
<1>1. job.next \in Nat \ {0} /\ job.files \in Seq(Modules) /\ Len(job.files) \in Nat
  BY LenProperties DEF MakeTypes, Jobs
<1>2. job.next \in 1 .. Len(job.files) /\ stack[Len(stack)].mod = job.files[job.next]
  BY <1>1 DEF Opened, NextFile
<1>3. Len(stack) \in 1 .. Len(stack) /\ \A i \in 1 .. Len(stack) : i <= Len(stack)
  BY FileFacts
<1>4. \A i \in 1 .. Len(stack) : stack[i].mod \in Below(imports, stack[Len(stack)].mod)
  BY <1>3 DEF Opened, Nested
<1>5. job.files[job.next] \in Modules
  BY <1>1, <1>2, ElementOfSeq
<1> QED
  BY <1>2, <1>4, <1>5 DEF Opened

LEMMA CleanKept == MakeTypes /\ Opened /\ Clean /\ [MakeNext]_mkvars => Clean'
<1> SUFFICES ASSUME MakeTypes, Opened, Clean, [MakeNext]_mkvars, job'.state = "busy", code' = 0
             PROVE  /\ TablesSound(imports', defect', tbl')
                    /\ AllGoing(stack', imports', defect', tbl')
                    /\ \A i \in 1 .. job'.next - 1 : ~Wrong(imports', defect', job'.files[i])
  <2>1. ASSUME job'.state = "busy" /\ code' = 0 =>
                 /\ TablesSound(imports', defect', tbl')
                 /\ AllGoing(stack', imports', defect', tbl')
                 /\ \A i \in 1 .. job'.next - 1 : ~Wrong(imports', defect', job'.files[i])
        PROVE  Clean'
    <3>1. /\ TablesSound(imports, defect, tbl)' <=> TablesSound(imports', defect', tbl')
          /\ AllGoing(stack, imports, defect, tbl)' <=> AllGoing(stack', imports', defect', tbl')
          /\ \A i : Wrong(imports, defect, job.files[i])' <=> Wrong(imports', defect', job'.files[i])
      OBVIOUS
    <3> QED
      BY <2>1, <3>1 DEF Clean
  <2> QED
    BY <2>1
<1> USE DEF lists, disk
<1>1. /\ imports \in Graphs /\ stack \in Seq(Files) /\ job \in Jobs
      /\ defect \in [Modules -> Defects] /\ tbl \subseteq Modules
      /\ job.next \in Nat \ {0} /\ job.files \in Seq(Modules) /\ Len(job.files) \in Nat
  BY LenProperties DEF MakeTypes, Jobs
<1> DEFINE Before ==
             /\ TablesSound(imports, defect, tbl) /\ AllGoing(stack, imports, defect, tbl)
             /\ \A i \in 1 .. job.next - 1 : ~Wrong(imports, defect, job.files[i])
<1>2. ASSUME job.state = "busy", code = 0 PROVE Before
  BY <1>2 DEF Clean
<1>3. ASSUME stack # << >>, Before
      PROVE  /\ Going(Top, imports, defect, tbl) /\ Top \in Files /\ Top.mod \in Modules
             /\ Top.next \in Nat \ {0} /\ 1 \in 1 .. Len(stack)
             /\ Top.next <= Len(imports[Top.mod]) + 1 /\ Len(imports[Top.mod]) \in Nat
  <2>1. 1 \in 1 .. Len(stack) /\ Top \in Files /\ Top.mod \in Modules /\ Top.next \in Nat \ {0}
    BY <1>3, TopFacts
  <2> QED
    BY <1>1, <1>3, <2>1, NestedParts DEF Top, AllGoing, Opened
<1>4. CASE FileMissing \/ ParseFails \/ Rejected \/ ImportFails \/ LinkFails
  BY <1>4 DEF FileMissing, ParseFails, Rejected, ImportFails, LinkFails, ErrorOccurred
<1>5. CASE OpenMain
  <2>1. /\ AtFile /\ stack' = <<Frame(NextFile)>> /\ code = 0 /\ defect[NextFile] # "missing"
        /\ UNCHANGED <<imports, defect, job, tbl>>
    BY <1>5 DEF OpenMain
  <2>2. job.state = "busy" /\ Frame(NextFile) \in Files
    BY <2>1, Begins DEF AtFile
  <2>3. Before
    BY <1>2, <2>1, <2>2
  <2>4. Going(Frame(NextFile), imports, defect, tbl)
    <3> DEFINE f == Frame(NextFile)
    <3>1. f.mod = NextFile /\ f.next = 1 /\ f.error = FALSE /\ f.state = "parse"
      BY DEF Frame
    <3> HIDE DEF f
    <3>2. \A k \in 1 .. f.next - 1 : FALSE
      BY <3>1
    <3>3. Going(f, imports, defect, tbl)
      BY <2>1, <3>1, <3>2 DEF Going
    <3> QED
      BY <3>3 DEF f
  <2>5. Len(stack') = 1 /\ stack'[1] = Frame(NextFile)
    BY <2>1, <2>2
  <2>6. AllGoing(stack', imports, defect, tbl)
    BY <2>4, <2>5 DEF AllGoing
  <2> QED
    BY <2>1, <2>3, <2>6
<1>6. ASSUME NEW t, Turned(t), UNCHANGED <<imports, defect, job, tbl, code>>,
             Before => Going(t, imports, defect, tbl)
      PROVE  /\ TablesSound(imports', defect', tbl') /\ AllGoing(stack', imports', defect', tbl')
             /\ \A i \in 1 .. job'.next - 1 : ~Wrong(imports', defect', job'.files[i])
  <2>1. Before /\ Refiled(stack', stack) /\ stack'[1] = t
    BY <1>2, <1>6 DEF Turned
  <2>2. AllGoing(stack', imports, defect, tbl)
    BY <1>1, <1>6, <2>1, RefiledGoing
  <2> QED
    BY <1>6, <2>1, <2>2
<1>7. CASE Parse
  <2> DEFINE t == [Top EXCEPT !.state = "imports"]
  <2>1. /\ stack # << >> /\ UNCHANGED <<imports, defect, job, tbl, code>>
        /\ defect[Top.mod] # "syntax"
    BY <1>7 DEF Parse, Busy
  <2>2. t.next = Top.next /\ t.state = "imports" /\ t.mod = Top.mod /\ t.error = Top.error
    BY <2>1, TopFacts DEF Files
  <2>3. Turned(t)
    BY <1>7, Turns
  <2> HIDE DEF t
  <2>4. ASSUME Before PROVE Going(t, imports, defect, tbl)
    <3>1. Going(Top, imports, defect, tbl)
      BY <1>3, <2>1, <2>4
    <3> QED
      BY <2>1, <2>2, <3>1 DEF Going
  <2> QED
    BY <1>6, <2>1, <2>3, <2>4
<1>8. CASE ImportKnown
  <2> DEFINE t == [Top EXCEPT !.next = @ + 1]
  <2>1. /\ stack # << >> /\ UNCHANGED <<imports, defect, job, tbl, code>>
        /\ Top.state = "imports" /\ imports[Top.mod][Top.next] \in tbl
    BY <1>8 DEF ImportKnown, AtImport, Busy, Server
  <2>2. t.next = Top.next + 1 /\ t.state = "imports" /\ t.mod = Top.mod /\ t.error = Top.error
    BY <2>1, TopFacts DEF Files
  <2>3. Turned(t)
    BY <1>8, Turns
  <2> HIDE DEF t
  <2>4. ASSUME Before PROVE Going(t, imports, defect, tbl)
    <3>1. Going(Top, imports, defect, tbl) /\ Top.next \in Nat \ {0}
      BY <1>3, <2>1, <2>4
    <3>2. \A k \in 1 .. t.next - 1 : k = Top.next \/ k \in 1 .. Top.next - 1
      BY <2>2, <3>1
    <3> QED
      BY <2>1, <2>2, <3>1, <3>2 DEF Going
  <2> QED
    BY <1>6, <2>1, <2>3, <2>4
<1>9. ASSUME NEW b, Accepted(b), code' = code
      PROVE  /\ TablesSound(imports', defect', tbl') /\ AllGoing(stack', imports', defect', tbl')
             /\ \A i \in 1 .. job'.next - 1 : ~Wrong(imports', defect', job'.files[i])
  <2>1. /\ stack # << >> /\ UNCHANGED <<imports, defect, job, tbl, code>>
        /\ Top.state = "imports" /\ Top.next > Len(imports[Top.mod]) /\ defect[Top.mod] # "semantic"
    BY <1>9 DEF Accepted, Evaluated, Busy, Erroneous
  <2>2. Turned(Compiled) /\ Compiled.mod = Top.mod /\ Compiled.next = Top.next /\ Compiled.error = Top.error
    BY <1>9, <2>1, AcceptedTurns, TopFacts
  <2>3. ASSUME Before PROVE Going(Compiled, imports, defect, tbl)
    <3>1. /\ Going(Top, imports, defect, tbl) /\ Top.next \in Nat /\ Len(imports[Top.mod]) \in Nat
          /\ Top.next <= Len(imports[Top.mod]) + 1 /\ Top.mod \in Modules
      BY <1>3, <2>1, <2>3
    <3>2. Top.next = Len(imports[Top.mod]) + 1
      BY <2>1, <3>1
    <3>3. defect[Top.mod] \in {"none", "missing", "syntax", "semantic"}
      BY <1>1, <3>1, MakeAssumption
    <3>4. defect[Top.mod] = "none"
      BY <2>1, <3>1, <3>3 DEF Going
    <3> QED
      BY <2>2, <3>1, <3>2, <3>4 DEF Going
  <2> QED
    BY <1>6, <2>1, <2>2, <2>3
<1>10. CASE Reused \/ ForeignModule \/ NotAssembled \/ Assembled
  BY <1>9, <1>10 DEF Reused, ForeignModule, NotAssembled, Assembled
<1>11. CASE AssemblyFails
  <2>1. Accepted(FALSE) /\ (code' = code \/ code' = 1)
    BY <1>11 DEF AssemblyFails, ErrorOccurred
  <2>2. code' = code
    BY <2>1
  <2> QED
    BY <1>9, <2>1, <2>2
<1>12. CASE ImportOpens
  <2>1. UNCHANGED <<imports, defect, job, tbl, code>>
    BY <1>12 DEF ImportOpens
  <2>2. /\ Opening(stack', Frame(Server), stack) /\ stack # << >> /\ job.state = "busy"
        /\ defect[Server] # "missing"
    BY <1>12, Opens
  <2>3. Going(Frame(Server), imports, defect, tbl)
    <3> DEFINE f == Frame(Server)
    <3>1. f.mod = Server /\ f.next = 1 /\ f.error = FALSE /\ f.state = "parse"
      BY DEF Frame
    <3> HIDE DEF f
    <3>2. \A k \in 1 .. f.next - 1 : FALSE
      BY <3>1
    <3>3. Going(f, imports, defect, tbl)
      BY <2>2, <3>1, <3>2 DEF Going
    <3> QED
      BY <3>3 DEF f
  <2>4. Before
    BY <1>2, <2>1, <2>2
  <2>5. AllGoing(stack', imports, defect, tbl)
    BY <1>1, <2>2, <2>3, <2>4, OpeningGoing
  <2> QED
    BY <2>1, <2>4, <2>5
<1>13. CASE CloseServer
  <2>1. UNCHANGED <<imports, defect, job, code>>
    BY <1>13 DEF CloseServer
  <2>2. /\ Closing(stack', stack) /\ tbl' = tbl \cup {stack[1].mod}
        /\ Top.state = "closed" /\ job.state = "busy" /\ stack # << >>
    BY <1>13, Closes
  <2>3. Before
    BY <1>2, <2>1, <2>2
  <2>4. AllGoing(stack', imports, defect, tbl \cup {stack[1].mod})
    BY <1>1, <2>2, <2>3, ClosingGoing DEF Opened
  <2>5. /\ Going(Top, imports, defect, tbl) /\ Top.mod \in Modules /\ Top \in Files
        /\ Top.next = Len(imports[Top.mod]) + 1 /\ defect[Top.mod] = "none"
    BY <1>3, <2>2, <2>3 DEF Going
  <2>6. Uses(imports, Top.mod) \subseteq tbl
    BY <1>1, <2>5, UsesDone
  <2>7. Top.mod \notin tbl
    <3>1. 1 \in 1 .. Len(stack) /\ 1 < Len(stack)
      BY <1>1, <2>2, ClosingParts
    <3> QED
      BY <3>1 DEF Opened, Nested, Top
  <2>8. ~InCycle(imports, Top.mod)
    BY <1>1, <2>3, <2>5, <2>6, <2>7, SoundBelow
  <2>9. TablesSound(imports, defect, tbl')
    BY <2>2, <2>3, <2>5, <2>6, <2>8 DEF TablesSound, Sound, Top
  <2> QED
    BY <2>1, <2>2, <2>3, <2>4, <2>9
<1>14. CASE Link \/ DontLink
  <2>1. /\ stack # << >> /\ job.state = "busy" /\ Top.state = "link" /\ CloseMain /\ code = 0
    BY <1>14 DEF Link, DontLink, Linkable, Busy
  <2>2. /\ stack' = << >> /\ job' = [job EXCEPT !.next = @ + 1] /\ UNCHANGED <<imports, defect, tbl>>
    BY <2>1 DEF CloseMain
  <2>3. job'.next = job.next + 1 /\ job'.files = job.files
    BY <1>1, <2>2 DEF Jobs
  <2>4. Before
    BY <1>2, <2>1
  <2>5. /\ Going(Top, imports, defect, tbl) /\ Top.mod \in Modules /\ Top \in Files
        /\ Top.next = Len(imports[Top.mod]) + 1 /\ defect[Top.mod] = "none" /\ 1 \in 1 .. Len(stack)
    BY <1>3, <2>1, <2>4 DEF Going
  <2>6. Uses(imports, Top.mod) \subseteq tbl
    BY <1>1, <2>5, UsesDone
  <2>7. Top.mod = job.files[job.next]
    <3>1. 1 = Len(stack)
      BY <2>1, <2>5 DEF Opened, Nested, Top
    <3> QED
      BY <2>1, <3>1 DEF Opened, Top, NextFile
  <2>8. /\ Below(imports, Top.mod) \subseteq tbl \cup {Top.mod} /\ ~InCycle(imports, Top.mod)
    BY <1>1, <2>4, <2>5, <2>6, SoundBelow
  <2>9. ~Wrong(imports, defect, job.files[job.next])
    BY <2>4, <2>5, <2>7, <2>8 DEF Wrong, TablesSound, Sound
  <2>10. \A i \in 1 .. job'.next - 1 : i \in 1 .. job.next - 1 \/ i = job.next
    BY <1>1, <2>3
  <2>11. \A i \in 1 .. job'.next - 1 : ~Wrong(imports, defect, job.files[i])
    BY <2>4, <2>9, <2>10
  <2>12. AllGoing(stack', imports, defect, tbl)
    <3>1. Len(stack') = 0
      BY <2>2
    <3> QED
      BY <3>1 DEF AllGoing
  <2> QED
    BY <2>2, <2>3, <2>4, <2>11, <2>12
<1>15. CASE Exit
  <2>1. job' = [job EXCEPT !.state = "idle"]
    BY <1>15 DEF Exit
  <2>2. job'.state = "idle"
    BY <1>1, <2>1 DEF Jobs
  <2> QED
    BY <2>2
<1>16. ASSUME NEW m \in Modules, NEW d \in Defects, Edit(m, d) PROVE FALSE
  <2>1. job.state = "idle" /\ job' = job
    BY <1>16 DEF Edit
  <2> QED
    BY <2>1
<1>17. ASSUME NEW l \in CommandLines, NEW force \in IgnoreTimeStamps, NEW fails \in ToolsFail,
              Run(l[1], force, l[2], fails)
       PROVE  /\ TablesSound(imports', defect', tbl') /\ AllGoing(stack', imports', defect', tbl')
              /\ \A i \in 1 .. job'.next - 1 : ~Wrong(imports', defect', job'.files[i])
  <2>1. /\ job.state = "idle" /\ UNCHANGED <<imports, defect, stack, tbl>> /\ job'.next = 1
    BY <1>17 DEF Run
  <2>2. stack' = << >> /\ tbl' = {}
    BY <2>1 DEF Opened
  <2>3. Len(stack') = 0 /\ \A i \in 1 .. job'.next - 1 : FALSE
    BY <2>1, <2>2
  <2> QED
    BY <2>2, <2>3 DEF TablesSound, AllGoing
<1>18. CASE (\E m \in Foreign : Provide(m)) \/ UNCHANGED mkvars
  <2>1. UNCHANGED <<imports, defect, job, stack, tbl, code>>
    BY <1>18 DEF Provide, mkvars
  <2> QED
    BY <1>2, <2>1
<1> HIDE DEF Before
<1> QED
  BY <1>4, <1>5, <1>7, <1>8, <1>10, <1>11, <1>12, <1>13, <1>14, <1>15,
     <1>16, <1>17, <1>18, Steps, Zenon

LEMMA WrongBelow ==
  ASSUME NEW g \in Graphs, NEW d, NEW m \in Modules, NEW x \in Below(g, m),
         d[x] # "none" \/ InCycle(g, x)
  PROVE  Wrong(g, d, m)
BY DEF Wrong

LEMMA ToldKept == MakeTypes /\ Opened /\ Clean /\ Told /\ [MakeNext]_mkvars => Told'
<1> SUFFICES ASSUME MakeTypes, Opened, Clean, Told, [MakeNext]_mkvars,
                    job'.state = "busy", job'.cmd >= MakeButDontLink, ~job'.fails, code' = 1
             PROVE  \E i \in 1 .. Len(job'.files) : Wrong(imports', defect', job'.files[i])
  <2>1. ASSUME job'.state = "busy" /\ job'.cmd >= MakeButDontLink /\ ~job'.fails /\ code' = 1 =>
                 \E i \in 1 .. Len(job'.files) : Wrong(imports', defect', job'.files[i])
        PROVE  Told'
    <3>1. \A i : Wrong(imports, defect, job.files[i])' <=> Wrong(imports', defect', job'.files[i])
      OBVIOUS
    <3> QED
      BY <2>1, <3>1 DEF Told
  <2> QED
    BY <2>1
<1> DEFINE Goal == \E i \in 1 .. Len(job'.files) : Wrong(imports', defect', job'.files[i])
<1> USE DEF lists, disk
<1>1. /\ imports \in Graphs /\ stack \in Seq(Files) /\ job \in Jobs
      /\ defect \in [Modules -> Defects] /\ tbl \subseteq Modules /\ code \in {0, 1}
      /\ job.next \in Nat \ {0} /\ job.files \in Seq(Modules) /\ Len(job.files) \in Nat
  BY LenProperties DEF MakeTypes, Jobs
<1>2. ASSUME UNCHANGED <<imports, defect>>, job'.files = job.files, job'.cmd = job.cmd,
             job'.fails = job.fails, job.state = "busy", code = 1
      PROVE  Goal
  BY <1>2 DEF Told
<1>3. ASSUME UNCHANGED <<imports, defect, job>>, stack # << >>,
             NEW x \in Uses(imports, Top.mod) \cup {Top.mod},
             defect[x] # "none" \/ InCycle(imports, x)
      PROVE  Goal
  <2>1. /\ job.next \in 1 .. Len(job.files) /\ job.files[job.next] \in Modules
        /\ Top.mod \in Below(imports, job.files[job.next])
    BY <1>3, AllowsFiles, TopFacts DEF Top
  <2>2. x \in Below(imports, job.files[job.next])
    BY <1>1, <1>3, <2>1, BelowFacts
  <2>3. Wrong(imports, defect, job.files[job.next])
    BY <1>1, <1>3, <2>1, <2>2, WrongBelow
  <2> QED
    BY <1>3, <2>1, <2>3
<1>4. CASE FileMissing
  <2>1. /\ AtFile /\ defect[NextFile] = "missing" /\ job' = [job EXCEPT !.next = @ + 1]
        /\ UNCHANGED <<imports, defect>>
    BY <1>4 DEF FileMissing
  <2>2. job'.files = job.files
    BY <1>1, <2>1 DEF Jobs
  <2>3. job.next \in 1 .. Len(job.files) /\ NextFile \in Modules
    BY <2>1, Begins
  <2>4. NextFile \in Below(imports, NextFile)
    BY <1>1, <2>3, BelowFacts
  <2>5. Wrong(imports, defect, NextFile)
    BY <1>1, <2>1, <2>3, <2>4, WrongBelow
  <2> QED
    BY <2>1, <2>2, <2>3, <2>5 DEF NextFile
<1>5. CASE ParseFails
  <2>1. UNCHANGED <<imports, defect, job>> /\ stack # << >> /\ defect[Top.mod] = "syntax"
    BY <1>5 DEF ParseFails, Busy
  <2> QED
    BY <1>3, <2>1
<1>6. CASE ImportFails
  <2>1. /\ UNCHANGED <<imports, defect, job>> /\ stack # << >>
        /\ Top.next <= Len(imports[Top.mod]) /\ (IsOpen(Server) \/ defect[Server] = "missing")
    BY <1>6 DEF ImportFails, AtImport, Busy
  <2>2. Top.mod \in Modules /\ Top.next \in Nat \ {0} /\ 1 \in 1 .. Len(stack)
        /\ Len(imports[Top.mod]) \in Nat
    BY <1>1, <2>1, TopFacts, ImportOf
  <2>3. Top.next \in 1 .. Len(imports[Top.mod])
    BY <2>1, <2>2
  <2>4. Server \in Uses(imports, Top.mod)
    BY <1>1, <2>2, <2>3, ImportOf DEF Server
  <2>5. CASE defect[Server] = "missing"
    BY <1>3, <2>1, <2>4, <2>5
  <2>6. CASE IsOpen(Server)
    <3>1. PICK i \in 1 .. Len(stack) : stack[i].mod = Server
      BY <1>1, <2>6, LenProperties DEF IsOpen
    <3>2. 1 <= i
      BY <3>1
    <3>3. Top.mod \in Below(imports, Server)
      BY <2>2, <3>1, <3>2 DEF Opened, Nested, Top
    <3>4. InCycle(imports, Top.mod)
      BY <2>4, <3>3 DEF InCycle
    <3> QED
      BY <1>3, <2>1, <3>4
  <2> QED
    BY <2>1, <2>5, <2>6
<1>7. CASE Rejected
  <2>1. /\ UNCHANGED <<imports, defect, job>> /\ stack # << >> /\ job.state = "busy" /\ Erroneous
    BY <1>7 DEF Rejected, Evaluated, Busy
  <2>2. CASE code = 1
    BY <1>2, <2>1, <2>2
  <2>3. CASE code = 0
    <3>1. ~Top.error
      <4>1. AllGoing(stack, imports, defect, tbl) /\ 1 \in 1 .. Len(stack)
        BY <2>1, <2>3, TopFacts DEF Clean
      <4> QED
        BY <4>1 DEF AllGoing, Going, Top
    <3>2. job.cmd > SingleCompile /\ job.cmd > NoCodeGeneration
      <4>1. job.cmd \in NoCodeGeneration .. Make
        BY <1>1 DEF Jobs
      <4> QED
        BY <2>1, <4>1 DEF MakeButDontLink, SingleCompile, NoCodeGeneration, Make
    <3>3. job.cmd \in Int
      BY <1>1 DEF Jobs, NoCodeGeneration, Make
    <3>4. defect[Top.mod] = "semantic"
      BY <2>1, <3>1, <3>2, <3>3 DEF Erroneous, SingleCompile, NoCodeGeneration
    <3> QED
      BY <1>3, <2>1, <3>4
  <2> QED
    BY <1>1, <2>2, <2>3
<1>8. ASSUME NEW b, Accepted(b), code' = code PROVE Goal
  <2>1. UNCHANGED <<imports, defect, job>> /\ job.state = "busy"
    BY <1>8 DEF Accepted, Evaluated, Busy
  <2> QED
    BY <1>2, <1>8, <2>1
<1>9. CASE Reused \/ ForeignModule \/ NotAssembled \/ Assembled
  BY <1>8, <1>9 DEF Reused, ForeignModule, NotAssembled, Assembled
<1>10. CASE AssemblyFails \/ LinkFails
  <2>1. job.fails
    BY <1>10 DEF AssemblyFails, LinkFails
  <2>2. job' = job \/ job' = [job EXCEPT !.next = @ + 1]
    BY <1>10 DEF AssemblyFails, LinkFails, Accepted, CloseMain
  <2>3. job'.fails = job.fails
    BY <1>1, <2>2 DEF Jobs
  <2> QED
    BY <2>1, <2>3
<1>11. CASE OpenMain \/ Parse \/ ImportKnown \/ ImportOpens \/ CloseServer
  <2>1. UNCHANGED <<imports, defect, job, code>>
    BY <1>11 DEF OpenMain, Parse, ImportKnown, ImportOpens, CloseServer
  <2> QED
    BY <1>2, <2>1
<1>12. CASE Link \/ DontLink
  <2>1. /\ UNCHANGED <<imports, defect, code>> /\ job' = [job EXCEPT !.next = @ + 1]
        /\ job.state = "busy"
    BY <1>12 DEF Link, DontLink, CloseMain, Linkable, Busy
  <2>2. job'.files = job.files /\ job'.cmd = job.cmd /\ job'.fails = job.fails
    BY <1>1, <2>1 DEF Jobs
  <2> QED
    BY <1>2, <2>1, <2>2
<1>13. CASE Exit
  <2>1. job' = [job EXCEPT !.state = "idle"]
    BY <1>13 DEF Exit
  <2>2. job'.state = "idle"
    BY <1>1, <2>1 DEF Jobs
  <2> QED
    BY <2>2
<1>14. ASSUME NEW m \in Modules, NEW d \in Defects, Edit(m, d) PROVE FALSE
  <2>1. job.state = "idle" /\ job' = job
    BY <1>14 DEF Edit
  <2> QED
    BY <2>1
<1>15. ASSUME NEW l \in CommandLines, NEW force \in IgnoreTimeStamps, NEW fails \in ToolsFail,
              Run(l[1], force, l[2], fails)
       PROVE  FALSE
  BY <1>15 DEF Run
<1>16. CASE (\E m \in Foreign : Provide(m)) \/ UNCHANGED mkvars
  <2>1. UNCHANGED <<imports, defect, job, code>>
    BY <1>16 DEF Provide, mkvars
  <2> QED
    BY <1>2, <2>1
<1> QED
  BY <1>4, <1>5, <1>6, <1>7, <1>9, <1>10, <1>11, <1>12, <1>13, <1>14, <1>15,
     <1>16, Steps, Zenon

LEMMA ErrorsInv == MakeSpec => [](MakeTypes /\ Opened /\ Clean /\ Told)
<1>1. MakeInit => MakeTypes /\ Opened /\ Clean /\ Told
  <2>1. MakeInit => job.state = "idle"
    BY DEF MakeInit
  <2> QED
    BY <2>1, InitTypes, InitOpened DEF Clean, Told
<1>2. MakeTypes /\ Opened /\ Clean /\ Told /\ [MakeNext]_mkvars => (MakeTypes /\ Opened /\ Clean /\ Told)'
  BY TypesKept, OpenedKept, CleanKept, ToldKept
<1> QED
  BY <1>1, <1>2, PTL DEF MakeSpec

(* A run of the compiler returns 1 exactly if something is wrong below one *)
(* of its files: an error deep in an import is not lost on the way to the  *)
(* main module, whichever module finds it, and nothing else sets the code. *)
THEOREM CodeTells == MakeSpec => []CodeTellsErrors
<1>1. MakeTypes /\ Opened /\ Clean /\ Told => CodeTellsErrors
  <2> SUFFICES ASSUME MakeTypes, Opened, Clean, Told, Returning, job.cmd >= MakeButDontLink
               PROVE  /\ (\E i \in DOMAIN job.files : Faulty(job.files[i])) => code = 1
                      /\ code = 1 /\ ~job.fails => \E i \in DOMAIN job.files : Faulty(job.files[i])
    BY DEF CodeTellsErrors
  <2>1. /\ job.next \in Nat /\ job.files \in Seq(Modules) /\ Len(job.files) \in Nat /\ code \in {0, 1}
        /\ DOMAIN job.files = 1 .. Len(job.files) /\ imports \in Graphs
    BY LenProperties DEF MakeTypes, Jobs
  <2>2. job.state = "busy" /\ job.next > Len(job.files)
    BY DEF Returning
  <2>3. \A i \in DOMAIN job.files : Faulty(job.files[i]) <=> Wrong(imports, defect, job.files[i])
    <3>1. \A i \in 1 .. Len(job.files) : job.files[i] \in Modules
      BY <2>1, ElementOfSeq
    <3> QED
      BY <2>1, <3>1, Names
  <2>4. ASSUME code = 0, NEW i \in DOMAIN job.files PROVE ~Faulty(job.files[i])
    <3>1. i \in 1 .. job.next - 1
      BY <2>1, <2>2
    <3> QED
      BY <2>2, <2>3, <2>4, <3>1 DEF Clean
  <2>5. ASSUME code = 1, ~job.fails PROVE \E i \in DOMAIN job.files : Faulty(job.files[i])
    BY <2>1, <2>2, <2>3, <2>5 DEF Told
  <2> QED
    BY <2>1, <2>4, <2>5
<1> QED
  BY <1>1, ErrorsInv, PTL

-----------------------------------------------------------------------------
(* The times of objects and files. *)
LEMMA RefiledDated ==
  ASSUME NEW g \in Graphs, NEW s, NEW st \in Seq(Files), NEW st2, NEW t, Nested(st, g, t),
         FilesDated(st, g, s), Refiled(st2, st)
  PROVE  FilesDated(st2, g, s)
<1>1. /\ Len(st2) = Len(st) /\ Len(st) \in Nat
      /\ \A i \in 1 .. Len(st) : st2[i].mod = st[i].mod /\ st[i].mod \in Modules
  BY FileParts DEF Refiled
<1> SUFFICES ASSUME NEW i \in 1 .. Len(st)
             PROVE  \E x \in Below(g, st[i].mod) : st2[i].sourceTime = s[x]
  BY <1>1 DEF FilesDated
<1>2. CASE st2[i].sourceTime = st[i].sourceTime
  BY <1>2 DEF FilesDated
<1>3. CASE i = 2 /\ st2[2].sourceTime = st[1].sourceTime
  <2>1. 1 \in 1 .. Len(st) /\ 1 <= i
    BY <1>1, <1>3
  <2>2. PICK x \in Below(g, st[1].mod) : st[1].sourceTime = s[x]
    BY <2>1 DEF FilesDated
  <2>3. st[1].mod \in Below(g, st[i].mod)
    BY <2>1 DEF Nested
  <2>4. x \in Below(g, st[i].mod)
    BY <1>1, <2>2, <2>3, BelowFacts
  <2> QED
    BY <1>3, <2>2, <2>4
<1> QED
  BY <1>2, <1>3 DEF Refiled

LEMMA OpeningDated ==
  ASSUME NEW g \in Graphs, NEW s, NEW st \in Seq(Files), NEW f \in Files, NEW st2,
         FilesDated(st, g, s), Opening(st2, f, st), f.sourceTime = s[f.mod]
  PROVE  FilesDated(st2, g, s)
<1>1. /\ Len(st2) = Len(st) + 1 /\ st2[1] = f /\ Len(st) \in Nat /\ f.mod \in Modules
      /\ \A i \in 1 .. Len(st) : st2[i+1] = st[i]
  BY FileParts DEF Opening, Files
<1> SUFFICES ASSUME NEW i \in 1 .. Len(st2)
             PROVE  \E x \in Below(g, st2[i].mod) : st2[i].sourceTime = s[x]
  BY DEF FilesDated
<1>2. CASE i = 1
  <2>1. f.mod \in Below(g, f.mod)
    BY <1>1, BelowFacts
  <2> QED
    BY <1>1, <1>2, <2>1
<1>3. CASE i # 1
  <2>1. i - 1 \in 1 .. Len(st) /\ i - 1 + 1 = i
    BY <1>1, <1>3
  <2>2. st2[i-1+1] = st[i-1]
    BY <1>1, <2>1
  <2> QED
    BY <2>1, <2>2 DEF FilesDated
<1> QED
  BY <1>2, <1>3

LEMMA ClosingDated ==
  ASSUME NEW g, NEW s, NEW st \in Seq(Files), NEW st2, FilesDated(st, g, s), Closing(st2, st)
  PROVE  FilesDated(st2, g, s)
<1> SUFFICES ASSUME NEW i \in 1 .. Len(st2)
             PROVE  \E x \in Below(g, st2[i].mod) : st2[i].sourceTime = s[x]
  BY DEF FilesDated
<1>1. i + 1 \in 1 .. Len(st) /\ st2[i].mod = st[i+1].mod /\ st2[i].sourceTime = st[i+1].sourceTime
  BY ClosingParts
<1> QED
  BY <1>1 DEF FilesDated

LEMMA Assembles ==
  ASSUME MakeTypes, Dated, Assembled
  PROVE  /\ Top.mod \in Modules
         /\ obj' = [obj EXCEPT ![Top.mod] =
                      [time |-> clock, text |-> [x \in Below(imports, Top.mod) |-> src[x]]]]
         /\ obj'[Top.mod] = [time |-> clock, text |-> [x \in Below(imports, Top.mod) |-> src[x]]]
         /\ \A m \in Modules : m # Top.mod => obj'[m] = obj[m]
         /\ obj' = [m \in Modules |-> obj'[m]]
<1>1. Top.mod \in Modules /\ imports \in Graphs
  BY TopFacts DEF Assembled, Accepted, Evaluated, Busy, MakeTypes
<1>2. Text(Top.mod) = [x \in Below(imports, Top.mod) |-> src[x]]
  BY Names DEF Text
<1>3. obj' = [obj EXCEPT ![Top.mod] = [time |-> clock, text |-> [x \in Below(imports, Top.mod) |-> src[x]]]]
  BY <1>2 DEF Assembled
<1>4. obj = [m \in Modules |-> obj[m]]
  BY DEF Dated, ObjectsDated
<1> QED
  BY <1>1, <1>3, <1>4

(* An object made now, of a source or of a foreign module. *)
LEMMA MadeNow ==
  ASSUME MakeTypes, ObjectsDated(obj, imports, src, clock), NEW m \in Modules,
         obj' = [obj EXCEPT ![m] =
                   [time |-> clock, text |-> [x \in Below(imports, m) |-> src[x]]]]
  PROVE  ObjectsDated(obj', imports, src, clock)
<1> DEFINE T == Below(imports, m)
           new == [time |-> clock, text |-> [x \in T |-> src[x]]]
<1>1. /\ imports \in Graphs /\ clock \in Nat \ {0}
      /\ src \in [Modules -> Nat \ {0}] /\ \A x \in Modules : src[x] <= clock
      /\ obj = [x \in Modules |-> obj[x]]
  BY DEF MakeTypes, ObjectsDated
<1>2. /\ obj'[m] = new /\ \A x \in Modules : x # m => obj'[x] = obj[x]
      /\ obj' = [x \in Modules |-> obj'[x]]
  BY <1>1
<1>3. T \subseteq Modules
  BY <1>1, BelowFacts
<1>4. MadeFrom(new, T, src) /\ new.time <= clock
  <2>1. new.time = clock /\ new.text = [x \in T |-> src[x]]
    OBVIOUS
  <2>2. \A x \in T : new.text[x] = src[x] /\ src[x] <= clock
    BY <1>1, <1>3, <2>1
  <2>3. new.text = [x \in T |-> new.text[x]]
    BY <2>1
  <2>4. new.time <= clock
    BY <1>1, <2>1
  <2> HIDE DEF new, T
  <2> QED
    BY <1>1, <2>1, <2>2, <2>3, <2>4 DEF MadeFrom
<1>5. ASSUME NEW x \in Modules
      PROVE  obj'[x] = NoFile \/
               (obj'[x].time <= clock /\ MadeFrom(obj'[x], Below(imports, x), src))
  <2> HIDE DEF new
  <2>1. CASE x = m
    BY <1>2, <1>4, <2>1
  <2>2. CASE x # m
    BY <1>2, <2>2 DEF ObjectsDated
  <2> QED
    BY <2>1, <2>2
<1> QED
  BY <1>2, <1>5 DEF ObjectsDated

LEMMA FailsToAssemble ==
  ASSUME MakeTypes, Dated, AssemblyFails
  PROVE  /\ \A m \in Modules : obj'[m] = obj[m] \/ obj'[m] = NoFile
         /\ obj' = [m \in Modules |-> obj'[m]]
<1>1. obj' = obj \/ obj' = [obj EXCEPT ![Top.mod] = NoFile]
  BY DEF AssemblyFails
<1>2. obj = [m \in Modules |-> obj[m]]
  BY DEF Dated, ObjectsDated
<1> QED
  BY <1>1, <1>2

LEMMA DatedKept == MakeTypes /\ Opened /\ Dated /\ [MakeNext]_mkvars => Dated'
<1> SUFFICES ASSUME MakeTypes, Opened, Dated, [MakeNext]_mkvars
             PROVE  ObjectsDated(obj', imports', src', clock') /\ FilesDated(stack', imports', src')
  <2>1. /\ ObjectsDated(obj, imports, src, clock)' <=> ObjectsDated(obj', imports', src', clock')
        /\ FilesDated(stack, imports, src)' <=> FilesDated(stack', imports', src')
    OBVIOUS
  <2> QED
    BY <2>1 DEF Dated
<1> USE DEF lists, disk
<1>1. /\ imports \in Graphs /\ stack \in Seq(Files) /\ clock \in Nat \ {0}
      /\ src \in [Modules -> Nat \ {0}] /\ \A m \in Modules : src[m] <= clock
      /\ ObjectsDated(obj, imports, src, clock) /\ FilesDated(stack, imports, src)
      /\ Nested(stack, imports, tbl)
  BY DEF MakeTypes, Dated, Opened
<1>2. ASSUME UNCHANGED <<clock, imports, src, obj>>, NEW t, Turned(t)
      PROVE  ObjectsDated(obj', imports', src', clock') /\ FilesDated(stack', imports', src')
  BY <1>1, <1>2, RefiledDated DEF Turned
<1>3. CASE FileMissing
  BY <1>1, <1>3 DEF FileMissing
<1>4. CASE OpenMain
  <2>1. AtFile /\ stack' = <<Frame(NextFile)>> /\ UNCHANGED <<clock, imports, src, obj>>
    BY <1>4 DEF OpenMain
  <2>2. Frame(NextFile) \in Files /\ NextFile \in Modules
    BY <2>1, Begins
  <2>3. Len(stack') = 1 /\ stack'[1] = Frame(NextFile)
    BY <2>1, <2>2
  <2>4. NextFile \in Below(imports, NextFile) /\ Frame(NextFile).mod = NextFile
        /\ Frame(NextFile).sourceTime = src[NextFile]
    BY <1>1, <2>2, BelowFacts DEF Frame
  <2>5. FilesDated(stack', imports, src)
    BY <2>3, <2>4 DEF FilesDated
  <2> QED
    BY <1>1, <2>1, <2>5
<1>5. CASE ParseFails \/ Rejected
  <2>1. UNCHANGED <<clock, imports, src, obj>>
    BY <1>5 DEF ParseFails, Rejected
  <2> QED
    BY <1>2, <1>5, <2>1, Turns
<1>6. CASE Parse \/ ImportKnown \/ ImportFails
  <2>1. UNCHANGED <<clock, imports, src, obj>>
    BY <1>6 DEF Parse, ImportKnown, ImportFails
  <2> QED
    BY <1>2, <1>6, <2>1, Turns
<1>7. CASE ImportOpens
  <2>1. UNCHANGED <<clock, imports, src, obj>>
    BY <1>7 DEF ImportOpens
  <2>2. Opening(stack', Frame(Server), stack) /\ Frame(Server) \in Files
    BY <1>7, Opens
  <2>3. Frame(Server).sourceTime = src[Frame(Server).mod]
    BY DEF Frame
  <2> QED
    BY <1>1, <2>1, <2>2, <2>3, OpeningDated
<1>8. ASSUME NEW b, Accepted(b)
      PROVE  /\ FilesDated(stack', imports', src') /\ UNCHANGED <<clock, imports, src>>
             /\ obj' = obj => ObjectsDated(obj', imports', src', clock')
  <2>1. UNCHANGED <<clock, imports, src>>
    BY <1>8 DEF Accepted
  <2>2. Turned(Compiled)
    BY <1>8, AcceptedTurns
  <2>3. FilesDated(stack', imports, src)
    BY <1>1, <2>2, RefiledDated DEF Turned
  <2> QED
    BY <1>1, <2>1, <2>3
<1>9. CASE Reused \/ ForeignModule \/ NotAssembled
  BY <1>8, <1>9 DEF Reused, ForeignModule, NotAssembled
<1>10. CASE Assembled
  <2>1. FilesDated(stack', imports', src') /\ UNCHANGED <<clock, imports, src>>
    BY <1>8, <1>10 DEF Assembled
  <2>2. ObjectsDated(obj', imports, src, clock)
    BY <1>1, <1>10, Assembles, MadeNow
  <2> QED
    BY <2>1, <2>2
<1>11. CASE AssemblyFails
  <2>1. FilesDated(stack', imports', src') /\ UNCHANGED <<clock, imports, src>>
    BY <1>8, <1>11 DEF AssemblyFails
  <2>2. /\ \A m \in Modules : obj'[m] = obj[m] \/ obj'[m] = NoFile
        /\ obj' = [m \in Modules |-> obj'[m]]
    BY <1>11, FailsToAssemble
  <2> QED
    BY <1>1, <2>1, <2>2 DEF ObjectsDated
<1>12. CASE CloseServer
  <2>1. UNCHANGED <<clock, imports, src, obj>>
    BY <1>12 DEF CloseServer
  <2>2. Closing(stack', stack)
    BY <1>12, Closes
  <2> QED
    BY <1>1, <2>1, <2>2, ClosingDated
<1>13. CASE Link \/ LinkFails \/ DontLink \/ Exit
  <2>1. UNCHANGED <<clock, imports, src, obj>> /\ stack' = << >>
    BY <1>13 DEF Link, LinkFails, DontLink, CloseMain, Exit
  <2>2. Len(stack') = 0
    BY <2>1
  <2>3. FilesDated(stack', imports', src')
    BY <2>2 DEF FilesDated
  <2> QED
    BY <1>1, <2>1, <2>3
<1>14. ASSUME NEW m \in Modules, NEW d \in Defects, Edit(m, d)
       PROVE  ObjectsDated(obj', imports', src', clock') /\ FilesDated(stack', imports', src')
  <2>1. /\ job.state = "idle" /\ clock' = clock + 1 /\ src' = [src EXCEPT ![m] = clock + 1]
        /\ UNCHANGED <<imports, obj, stack>>
    BY <1>14 DEF Edit
  <2>2. Len(stack') = 0
    BY <2>1 DEF Opened
  <2>3. FilesDated(stack', imports', src')
    BY <2>2 DEF FilesDated
  <2>4. ASSUME NEW x \in Modules, obj[x] # NoFile
        PROVE  obj[x].time <= clock + 1 /\ MadeFrom(obj[x], Below(imports, x), src')
    <3>1. obj[x].time <= clock /\ MadeFrom(obj[x], Below(imports, x), src)
      BY <1>1, <2>4 DEF ObjectsDated
    <3>2. obj[x].time \in Nat /\ obj[x].time <= clock + 1 /\ ~(clock + 1 <= obj[x].time)
      BY <1>1, <3>1 DEF MadeFrom
    <3>3. \A y \in Below(imports, x) : src'[y] = src[y] \/ src'[y] = clock + 1
      BY <1>1, <2>1, BelowFacts
    <3> QED
      BY <3>1, <3>2, <3>3 DEF MadeFrom
  <2> QED
    BY <1>1, <2>1, <2>3, <2>4 DEF ObjectsDated
<1>15. ASSUME NEW l \in CommandLines, NEW force \in IgnoreTimeStamps, NEW fails \in ToolsFail,
              Run(l[1], force, l[2], fails)
       PROVE  ObjectsDated(obj', imports', src', clock') /\ FilesDated(stack', imports', src')
  BY <1>1, <1>15 DEF Run
<1>16. ASSUME NEW m \in Foreign, Provide(m)
       PROVE  ObjectsDated(obj', imports', src', clock') /\ FilesDated(stack', imports', src')
  <2>1. m \in Modules /\ UNCHANGED <<clock, imports, src, stack>>
    BY <1>16, MakeAssumption DEF Provide
  <2>2. Text(m) = [x \in Below(imports, m) |-> src[x]]
    BY <1>1, <2>1, Names DEF Text
  <2>3. obj' = [obj EXCEPT ![m] = [time |-> clock, text |-> [x \in Below(imports, m) |-> src[x]]]]
    BY <1>16, <2>2 DEF Provide
  <2>4. ObjectsDated(obj', imports, src, clock)
    BY <1>1, <2>1, <2>3, MadeNow
  <2> QED
    BY <1>1, <2>1, <2>4
<1>17. CASE UNCHANGED mkvars
  BY <1>1, <1>17 DEF mkvars
<1> QED
  BY <1>3, <1>4, <1>5, <1>6, <1>7, <1>9, <1>10, <1>11, <1>12, <1>13, <1>14, <1>15,
     <1>16, <1>17, Steps, Zenon

LEMMA InitDated == MakeInit => Dated
<1> SUFFICES ASSUME MakeInit PROVE Dated
  OBVIOUS
<1>1. obj = [m \in Modules |-> NoFile] /\ stack = << >>
  BY DEF MakeInit
<1>2. Len(stack) = 0
  BY <1>1
<1>3. obj = [m \in Modules |-> obj[m]] /\ \A m \in Modules : obj[m] = NoFile
  BY <1>1
<1> QED
  BY <1>2, <1>3 DEF Dated, ObjectsDated, FilesDated

LEMMA DatedInv == MakeSpec => [](MakeTypes /\ Opened /\ Dated)
<1>1. MakeInit => MakeTypes /\ Opened /\ Dated
  BY InitTypes, InitOpened, InitDated
<1>2. MakeTypes /\ Opened /\ Dated /\ [MakeNext]_mkvars => (MakeTypes /\ Opened /\ Dated)'
  BY TypesKept, OpenedKept, DatedKept
<1> QED
  BY <1>1, <1>2, PTL DEF MakeSpec

(* A module is assembled only if told to or if one of the sources it was   *)
(* made from has changed since, with any imports and any tools.            *)
THEOREM WorksOnlyIfNeeded == MakeSpec => NoNeedlessWork
<1>1. ASSUME MakeTypes, Opened, Dated, [MakeNext]_mkvars, NEW m \in Modules,
             job.state = "busy", obj'[m] # obj[m], obj'[m] # NoFile, ~job.force
      PROVE  obj[m].text # Text(m)
  <2>1. Assembled
    <3>1. AssemblyFails => FALSE
      BY <1>1, FailsToAssemble
    <3>2. ASSUME obj' = obj PROVE FALSE
      BY <1>1, <3>2
    <3>3. ASSUME \/ FileMissing \/ OpenMain \/ ParseFails \/ Parse
                 \/ ImportKnown \/ ImportFails \/ ImportOpens
                 \/ Rejected \/ Reused \/ ForeignModule \/ NotAssembled
                 \/ CloseServer \/ Link \/ LinkFails \/ DontLink \/ Exit
                 \/ UNCHANGED mkvars
          PROVE  obj' = obj
      BY <3>3 DEF FileMissing, OpenMain, ParseFails, Parse, ImportKnown, ImportFails, ImportOpens,
             Rejected, Reused, ForeignModule, NotAssembled, CloseServer, Link, LinkFails,
             DontLink, CloseMain, Exit, disk, mkvars
    <3>4. \A x \in Modules, d \in Defects : Edit(x, d) => obj' = obj
      BY DEF Edit
    <3>5. \A l \in CommandLines, force \in IgnoreTimeStamps, fails \in ToolsFail :
            Run(l[1], force, l[2], fails) => obj' = obj
      BY DEF Run, disk
    <3>6. \A x \in Foreign : ~Provide(x)
      BY <1>1 DEF Provide
    <3> QED
      BY <1>1, <3>1, <3>2, <3>3, <3>4, <3>5, <3>6, Steps, Zenon
  <2>2. m = Top.mod /\ Top.mod \in Modules
    BY <1>1, <2>1, Assembles
  <2>3. stack # << >> /\ ~(Top.sourceTime <= obj[m].time)
    BY <1>1, <2>1, <2>2 DEF Assembled, Accepted, Evaluated, Busy, UpToDate
  <2>4. 1 \in 1 .. Len(stack) /\ Top \in Files /\ imports \in Graphs
        /\ src \in [Modules -> Nat \ {0}]
    BY <1>1, <2>3, TopFacts DEF MakeTypes
  <2>5. PICK x \in Below(imports, m) : Top.sourceTime = src[x]
    BY <1>1, <2>2, <2>4 DEF Dated, FilesDated, Top
  <2>6. m \in Below(imports, m) /\ Text(m) = [y \in Below(imports, m) |-> src[y]]
    BY <2>2, <2>4, BelowFacts, Names DEF Text
  <2>7. CASE obj[m] = NoFile
    <3>1. obj[m].text = << >>
      BY <2>7 DEF NoFile
    <3>2. << >> # [y \in Below(imports, m) |-> src[y]]
      <4>1. DOMAIN << >> = {}
        OBVIOUS
      <4> QED
        BY <2>6, <4>1
    <3> QED
      BY <2>6, <3>1, <3>2
  <2>8. CASE obj[m] # NoFile
    <3>1. MadeFrom(obj[m], Below(imports, m), src)
      BY <1>1, <2>8 DEF Dated, ObjectsDated
    <3>2. obj[m].text[x] <= obj[m].time /\ ~(src[x] <= obj[m].time)
      BY <2>3, <2>5, <3>1 DEF MadeFrom
    <3>3. obj[m].text[x] # src[x]
      BY <3>2
    <3> QED
      BY <2>5, <2>6, <3>3
  <2> QED
    BY <2>7, <2>8
<1>2. MakeTypes /\ Opened /\ Dated /\ [MakeNext]_mkvars =>
        [\A m \in Modules : job.state = "busy" /\ obj'[m] # obj[m] /\ obj'[m] # NoFile
           => job.force \/ obj[m].text # Text(m)]_mkvars
  BY <1>1
<1> QED
  BY <1>2, DatedInv, PTL DEF MakeSpec, NoNeedlessWork

-----------------------------------------------------------------------------
(* The link list. *)
LEMMA DoneSame ==
  ASSUME NEW st \in Seq(Files), NEW st2, NEW t, Refiled(st2, st), Len(st) # 0,
         st[1].state \notin {"closed", "link"}, st2[1].state \notin {"closed", "link"}
  PROVE  Done(st2, t) = Done(st, t)
<1>1. /\ Len(st2) = Len(st) /\ Len(st) \in Nat
      /\ \A i \in 1 .. Len(st) : st2[i].mod = st[i].mod
      /\ \A i \in 1 .. Len(st) : i > 1 => st2[i].state = st[i].state
  BY FileParts DEF Refiled
<1>2. ASSUME NEW i \in 1 .. Len(st)
      PROVE  st2[i].state \in {"closed", "link"} <=> st[i].state \in {"closed", "link"}
  <2>1. CASE i = 1
    BY <2>1
  <2>2. CASE i # 1
    BY <1>1, <2>2
  <2> QED
    BY <2>1, <2>2
<1> QED
  BY <1>1, <1>2 DEF Done

LEMMA DoneMore ==
  ASSUME NEW st \in Seq(Files), NEW st2, NEW t, Refiled(st2, st), Len(st) # 0,
         st2[1].state \in {"closed", "link"}
  PROVE  Done(st2, t) = Done(st, t) \cup {st[1].mod}
<1>1. /\ Len(st2) = Len(st) /\ Len(st) \in Nat /\ 1 \in 1 .. Len(st)
      /\ \A i \in 1 .. Len(st) : st2[i].mod = st[i].mod /\ st[i].mod \in Modules
      /\ \A i \in 1 .. Len(st) : i = 1 \/ (i > 1 /\ st2[i].state = st[i].state)
  BY FileParts DEF Refiled
<1>2. ASSUME NEW m \in Done(st2, t) PROVE m \in Done(st, t) \cup {st[1].mod}
  <2>1. CASE m \in t
    BY <1>2, <2>1 DEF Done
  <2>2. CASE m \notin t
    <3>1. PICK i \in 1 .. Len(st) : st2[i].mod = m /\ st2[i].state \in {"closed", "link"}
      BY <1>1, <1>2, <2>2 DEF Done
    <3>2. CASE i = 1
      BY <1>1, <3>1, <3>2
    <3>3. CASE i # 1
      <4>1. st[i].mod = m /\ st[i].state \in {"closed", "link"}
        BY <1>1, <3>1, <3>3
      <4> QED
        BY <1>2, <4>1 DEF Done
    <3> QED
      BY <3>2, <3>3
  <2> QED
    BY <2>1, <2>2
<1>3. ASSUME NEW m \in Done(st, t) PROVE m \in Done(st2, t)
  <2>1. CASE m \in t
    BY <1>3, <2>1 DEF Done
  <2>2. CASE m \notin t
    <3>1. PICK i \in 1 .. Len(st) : st[i].mod = m /\ st[i].state \in {"closed", "link"}
      BY <1>3, <2>2 DEF Done
    <3>2. st2[i].mod = m /\ st2[i].state \in {"closed", "link"}
      BY <1>1, <3>1
    <3> QED
      BY <1>1, <1>3, <3>2 DEF Done
  <2> QED
    BY <2>1, <2>2
<1>4. st[1].mod \in Done(st2, t)
  BY <1>1 DEF Done
<1> QED
  BY <1>2, <1>3, <1>4

LEMMA DoneOpening ==
  ASSUME NEW st \in Seq(Files), NEW st2, NEW f, NEW t, Opening(st2, f, st), f.state = "parse"
  PROVE  Done(st2, t) = Done(st, t)
<1>1. /\ Len(st2) = Len(st) + 1 /\ Len(st) \in Nat /\ st2[1] = f
      /\ \A i \in 1 .. Len(st) : st2[i+1] = st[i]
  BY FileParts DEF Opening
<1>2. ASSUME NEW m \in Modules
      PROVE  (\E i \in 1 .. Len(st2) : st2[i].mod = m /\ st2[i].state \in {"closed", "link"})
               <=> \E i \in 1 .. Len(st) : st[i].mod = m /\ st[i].state \in {"closed", "link"}
  <2>1. ASSUME NEW i \in 1 .. Len(st2), st2[i].mod = m, st2[i].state \in {"closed", "link"}
        PROVE  \E j \in 1 .. Len(st) : st[j].mod = m /\ st[j].state \in {"closed", "link"}
    <3>1. i # 1
      BY <1>1, <2>1
    <3>2. i - 1 \in 1 .. Len(st) /\ i - 1 + 1 = i
      BY <1>1, <3>1
    <3>3. st2[i-1+1] = st[i-1]
      BY <1>1, <3>2
    <3> QED
      BY <2>1, <3>2, <3>3
  <2>2. ASSUME NEW i \in 1 .. Len(st), st[i].mod = m, st[i].state \in {"closed", "link"}
        PROVE  \E j \in 1 .. Len(st2) : st2[j].mod = m /\ st2[j].state \in {"closed", "link"}
    <3>1. i + 1 \in 1 .. Len(st2) /\ st2[i+1] = st[i]
      BY <1>1
    <3> QED
      BY <2>2, <3>1
  <2> QED
    BY <2>1, <2>2
<1> QED
  BY <1>2 DEF Done

LEMMA DoneClosing ==
  ASSUME NEW st \in Seq(Files), NEW st2, NEW t, Closing(st2, st), st[1].state = "closed"
  PROVE  Done(st2, t \cup {st[1].mod}) = Done(st, t)
<1>1. /\ 1 \in 1 .. Len(st) /\ \A i \in 1 .. Len(st) : st[i].mod \in Modules
      /\ \A i \in 1 .. Len(st2) : i + 1 \in 1 .. Len(st)
      /\ \A i \in 1 .. Len(st2) : st2[i].mod = st[i+1].mod /\ st2[i].state = st[i+1].state
      /\ \A i \in 1 .. Len(st) : i = 1 \/ (i > 1 /\ i - 1 \in 1 .. Len(st2) /\ i - 1 + 1 = i)
  BY ClosingParts, FileParts
<1>2. ASSUME NEW m \in Modules
      PROVE  (m = st[1].mod \/ \E i \in 1 .. Len(st2) : st2[i].mod = m /\ st2[i].state \in {"closed", "link"})
               <=> \E i \in 1 .. Len(st) : st[i].mod = m /\ st[i].state \in {"closed", "link"}
  <2>1. ASSUME NEW i \in 1 .. Len(st2), st2[i].mod = m, st2[i].state \in {"closed", "link"}
        PROVE  \E j \in 1 .. Len(st) : st[j].mod = m /\ st[j].state \in {"closed", "link"}
    BY <1>1, <2>1
  <2>2. ASSUME NEW i \in 1 .. Len(st), st[i].mod = m, st[i].state \in {"closed", "link"}
        PROVE  m = st[1].mod \/ \E j \in 1 .. Len(st2) : st2[j].mod = m /\ st2[j].state \in {"closed", "link"}
    <3>1. CASE i = 1
      BY <2>2, <3>1
    <3>2. CASE i # 1
      <4>1. i - 1 \in 1 .. Len(st2) /\ i - 1 + 1 = i
        BY <1>1, <3>2
      <4>2. st2[i-1].mod = st[i-1+1].mod /\ st2[i-1].state = st[i-1+1].state
        BY <1>1, <4>1
      <4>3. st2[i-1].mod = m /\ st2[i-1].state \in {"closed", "link"}
        BY <2>2, <4>1, <4>2
      <4> QED
        BY <4>1, <4>3
    <3> QED
      BY <3>1, <3>2
  <2>3. ASSUME m = st[1].mod
        PROVE  \E i \in 1 .. Len(st) : st[i].mod = m /\ st[i].state \in {"closed", "link"}
    BY <1>1, <2>3
  <2> QED
    BY <2>1, <2>2, <2>3
<1> QED
  BY <1>2 DEF Done

LEMMA MembersAppend ==
  ASSUME NEW l \in Seq(Modules), NEW m \in Modules
  PROVE  Members(Append(l, m)) = Members(l) \cup {m}
<1> DEFINE l2 == Append(l, m)
<1>1. /\ Len(l) \in Nat /\ Len(l2) = Len(l) + 1 /\ l2[Len(l) + 1] = m
      /\ \A i \in 1 .. Len(l) : l2[i] = l[i]
  BY AppendProperties, LenProperties
<1> HIDE DEF l2
<1>2. /\ \A i \in 1 .. Len(l2) : i \in 1 .. Len(l) \/ i = Len(l) + 1
      /\ \A i \in 1 .. Len(l) : i \in 1 .. Len(l2)
      /\ Len(l) + 1 \in 1 .. Len(l2)
  BY <1>1
<1>3. ASSUME NEW x \in Members(l2) PROVE x \in Members(l) \cup {m}
  <2>1. PICK i \in 1 .. Len(l2) : l2[i] = x
    BY <1>3 DEF Members
  <2> QED
    BY <1>1, <1>2, <2>1 DEF Members
<1>4. ASSUME NEW x \in Members(l) PROVE x \in Members(l2)
  <2>1. PICK i \in 1 .. Len(l) : l[i] = x
    BY <1>4 DEF Members
  <2> QED
    BY <1>1, <1>2, <2>1 DEF Members
<1>5. m \in Members(l2)
  BY <1>1, <1>2 DEF Members
<1> QED
  BY <1>3, <1>4, <1>5 DEF l2

LEMMA OrderedAppend ==
  ASSUME NEW g, NEW b, NEW l \in Seq(Modules), NEW m \in Modules, Ordered(l, g, b),
         m \notin Members(l), Uses(g, m) \ b \subseteq Members(l)
  PROVE  Ordered(Append(l, m), g, b) /\ Members(Append(l, m)) = Members(l) \cup {m}
<1> DEFINE l2 == Append(l, m)
<1>1. /\ Len(l) \in Nat /\ Len(l2) = Len(l) + 1 /\ l2[Len(l) + 1] = m
      /\ \A i \in 1 .. Len(l) : l2[i] = l[i]
  BY AppendProperties, LenProperties
<1> HIDE DEF l2
<1>2. \A i \in 1 .. Len(l2) : i \in 1 .. Len(l) \/ i = Len(l) + 1
  BY <1>1
<1>3. \A i \in 1 .. Len(l) : i \in 1 .. Len(l2) /\ l[i] # m /\ i # Len(l) + 1
  BY <1>1 DEF Members
<1>4. ASSUME NEW i \in 1 .. Len(l2), NEW j \in 1 .. Len(l2), l2[i] = l2[j] PROVE i = j
  <2>1. CASE i \in 1 .. Len(l) /\ j \in 1 .. Len(l)
    BY <1>1, <1>4, <2>1 DEF Ordered
  <2>2. CASE i \notin 1 .. Len(l) \/ j \notin 1 .. Len(l)
    BY <1>1, <1>2, <1>3, <1>4, <2>2
  <2> QED
    BY <2>1, <2>2
<1>5. ASSUME NEW i \in 1 .. Len(l2), NEW x \in Uses(g, l2[i]) \ b
      PROVE  \E j \in 1 .. i - 1 : l2[j] = x
  <2>1. CASE i = Len(l) + 1
    <3>1. x \in Members(l)
      BY <1>1, <1>5, <2>1
    <3>2. PICK j \in 1 .. Len(l) : l[j] = x
      BY <3>1 DEF Members
    <3>3. i - 1 = Len(l) /\ l2[j] = x
      BY <1>1, <2>1, <3>2
    <3> QED
      BY <3>3
  <2>2. CASE i \in 1 .. Len(l)
    <3>1. PICK j \in 1 .. i - 1 : l[j] = x
      BY <1>1, <1>5, <2>2 DEF Ordered
    <3>2. j \in 1 .. Len(l)
      BY <1>1, <2>2
    <3> QED
      BY <1>1, <3>1, <3>2
  <2> QED
    BY <1>2, <2>1, <2>2
<1>6. Ordered(l2, g, b)
  BY <1>4, <1>5 DEF Ordered
<1>7. Members(l2) = Members(l) \cup {m}
  BY MembersAppend DEF l2
<1> QED
  BY <1>6, <1>7 DEF l2

LEMMA AloneKept == OneProgram /\ MakeTypes /\ Opened /\ Alone /\ [MakeNext]_mkvars => Alone'
<1> SUFFICES ASSUME OneProgram, MakeTypes, Opened, Alone, [MakeNext]_mkvars,
                    job'.state = "busy", job'.cmd = Make
             PROVE  /\ Len(job'.files) = 1
                    /\ job'.next = 1 /\ stack' = << >> => tbl' = {} /\ code' = 0
  BY DEF Alone
<1> USE DEF lists, disk
<1>1. job \in Jobs /\ job.next \in Nat \ {0} /\ stack \in Seq(Files)
  BY DEF MakeTypes, Jobs
<1>2. ASSUME job' = job, stack' # << >>, stack # << >> \/ job.state = "busy"
      PROVE  /\ Len(job'.files) = 1
             /\ job'.next = 1 /\ stack' = << >> => tbl' = {} /\ code' = 0
  BY <1>2 DEF Alone
<1>3. ASSUME NEW t, Turned(t), job' = job
      PROVE  /\ Len(job'.files) = 1
             /\ job'.next = 1 /\ stack' = << >> => tbl' = {} /\ code' = 0
  <2>1. Len(stack') # 0 /\ job.state = "busy" /\ Len(<< >>) = 0
    BY <1>3 DEF Turned, Refiled
  <2>2. stack' # << >>
    BY <2>1, Zenon
  <2> QED
    BY <1>2, <1>3, <2>1, <2>2
<1>4. CASE ParseFails \/ Rejected \/ Parse \/ ImportKnown \/ ImportFails
  <2>1. job' = job
    BY <1>4 DEF ParseFails, Rejected, Parse, ImportKnown, ImportFails
  <2> QED
    BY <1>3, <1>4, <2>1, Turns
<1>5. CASE Reused \/ ForeignModule \/ NotAssembled \/ Assembled \/ AssemblyFails
  <2>1. job' = job /\ \E b \in BOOLEAN : Accepted(b)
    BY <1>5 DEF Reused, ForeignModule, NotAssembled, Assembled, AssemblyFails, Accepted
  <2> QED
    BY <1>3, <2>1, AcceptedTurns
<1>6. CASE ImportOpens
  <2>1. job' = job
    BY <1>6 DEF ImportOpens
  <2>2. Opening(stack', Frame(Server), stack) /\ job.state = "busy"
    BY <1>6, Opens
  <2>3. Len(stack') # 0 /\ Len(<< >>) = 0
    <3>1. Len(stack) \in Nat /\ Len(stack') = Len(stack) + 1
      BY <1>1, <2>2, FileParts DEF Opening
    <3> QED
      BY <3>1
  <2>4. stack' # << >>
    BY <2>3, Zenon
  <2> QED
    BY <1>2, <2>1, <2>2, <2>4
<1>7. CASE CloseServer
  <2>1. job' = job
    BY <1>7 DEF CloseServer
  <2>2. Closing(stack', stack) /\ job.state = "busy"
    BY <1>7, Closes
  <2>3. Len(stack') # 0 /\ Len(<< >>) = 0
    BY <1>1, <2>2, ClosingParts
  <2>4. stack' # << >>
    BY <2>3, Zenon
  <2> QED
    BY <1>2, <2>1, <2>2, <2>4
<1>8. CASE OpenMain
  <2>1. job' = job /\ job.state = "busy" /\ stack' = <<Frame(NextFile)>>
    BY <1>8 DEF OpenMain, AtFile
  <2>2. Len(stack') # 0 /\ Len(<< >>) = 0
    BY <2>1
  <2>3. stack' # << >>
    BY <2>2, Zenon
  <2> QED
    BY <1>2, <2>1, <2>3
<1>9. CASE FileMissing \/ Link \/ LinkFails \/ DontLink
  <2>1. job' = [job EXCEPT !.next = @ + 1] /\ job.state = "busy"
    BY <1>9 DEF FileMissing, AtFile, Link, LinkFails, DontLink, CloseMain, Linkable, Busy
  <2>2. job'.next = job.next + 1 /\ job'.files = job.files /\ job'.cmd = job.cmd
    BY <1>1, <2>1 DEF Jobs
  <2>3. job'.next # 1
    BY <1>1, <2>2
  <2> QED
    BY <2>1, <2>2, <2>3 DEF Alone
<1>10. CASE Exit
  <2>1. job' = [job EXCEPT !.state = "idle"]
    BY <1>10 DEF Exit
  <2>2. job'.state = "idle"
    BY <1>1, <2>1 DEF Jobs
  <2> QED
    BY <2>2
<1>11. ASSUME NEW m \in Modules, NEW d \in Defects, Edit(m, d) PROVE FALSE
  <2>1. job.state = "idle" /\ job' = job
    BY <1>11 DEF Edit
  <2> QED
    BY <2>1
<1>12. ASSUME NEW l \in CommandLines, NEW force \in IgnoreTimeStamps, NEW fails \in ToolsFail,
              Run(l[1], force, l[2], fails)
       PROVE  /\ Len(job'.files) = 1
              /\ job'.next = 1 /\ stack' = << >> => tbl' = {} /\ code' = 0
  <2>1. /\ job.state = "idle" /\ tbl' = tbl /\ code' = 0
        /\ job'.files = l[2] /\ job'.cmd = l[1]
    BY <1>12 DEF Run
  <2> QED
    BY <2>1 DEF OneProgram, Opened
<1>13. CASE (\E m \in Foreign : Provide(m)) \/ UNCHANGED mkvars
  BY <1>13 DEF Provide, mkvars, Alone
<1> QED
  BY <1>4, <1>5, <1>6, <1>7, <1>8, <1>9, <1>10, <1>11, <1>12, <1>13, Steps, Zenon

(* When a module has been evaluated without error all it imports is known. *)
LEMMA AcceptedUses ==
  ASSUME MakeTypes, Opened, Clean, code = 0, NEW b, Accepted(b)
  PROVE  Uses(imports, Top.mod) \subseteq tbl
<1>1. /\ stack # << >> /\ job.state = "busy" /\ Top.next > Len(imports[Top.mod])
  BY DEF Accepted, Evaluated, Busy
<1>2. /\ 1 \in 1 .. Len(stack) /\ Top \in Files /\ Top.mod \in Modules /\ Top.next \in Nat
      /\ imports \in Graphs
  BY <1>1, TopFacts DEF MakeTypes
<1>3. Going(Top, imports, defect, tbl)
  BY <1>1, <1>2 DEF Clean, AllGoing, Top
<1>4. Top.next <= Len(imports[Top.mod]) + 1 /\ Len(imports[Top.mod]) \in Nat
  BY <1>2, ImportOf DEF Opened, Nested, Top
<1>5. Top.next = Len(imports[Top.mod]) + 1
  BY <1>1, <1>2, <1>4
<1> QED
  BY <1>2, <1>3, <1>5, UsesDone

LEMMA NewMember ==
  ASSUME MakeTypes, Opened, stack # << >>, Top.state = "imports", NextFile \notin tbl
  PROVE  Top.mod \notin Done(stack, tbl)
<1>1. /\ Len(stack) \in Nat \ {0} /\ 1 \in 1 .. Len(stack) /\ 1 <= Len(stack)
  BY TopFacts
<1>2. Top.mod \notin tbl
  <2>1. CASE Len(stack) = 1
    BY <2>1 DEF Opened, Top
  <2>2. CASE Len(stack) # 1
    <3>1. 1 < Len(stack)
      <4>1. Len(stack) \in Nat \ {0}
        BY <1>1
      <4> QED
        BY <2>2, <4>1, OneOrMore, Zenon
    <3> QED
      BY <1>1, <3>1 DEF Opened, Nested, Top
  <2> QED
    BY <2>1, <2>2
<1>3. \A i \in 1 .. Len(stack) : stack[i].mod = Top.mod => stack[i].state = "imports"
  BY <1>1 DEF Opened, Nested, Top
<1> QED
  BY <1>2, <1>3 DEF Done

LEMMA LinkInvKept ==
  OneProgram /\ MakeTypes /\ Opened /\ Clean /\ Dated /\ Alone /\ LinkInv /\ [MakeNext]_mkvars
    => LinkInv'
<1> SUFFICES ASSUME OneProgram, MakeTypes, Opened, Clean, Dated, Alone, LinkInv, [MakeNext]_mkvars,
                    job'.cmd = Make, stack' # << >>, linkable'
             PROVE  code' = 0 /\ Linkage(stack', imports', tbl', linklist', libs', NextFile')
  <2>1. Linkage(stack, imports, tbl, linklist, libs, NextFile)' <=>
          Linkage(stack', imports', tbl', linklist', libs', NextFile')
    OBVIOUS
  <2> QED
    BY <2>1 DEF LinkInv
<1> USE DEF lists, disk
<1>1. /\ imports \in Graphs /\ stack \in Seq(Files) /\ job \in Jobs /\ linklist \in Seq(Modules)
      /\ job.next \in Nat \ {0} /\ job.files \in Seq(Modules) /\ Len(job.files) \in Nat
      /\ Nested(stack, imports, tbl)
  BY LenProperties DEF MakeTypes, Jobs, Opened
<1> DEFINE Before == code = 0 /\ Linkage(stack, imports, tbl, linklist, libs, NextFile)
<1>2. ASSUME stack # << >>, linkable' = linkable, job' = job PROVE Before
  BY <1>2 DEF LinkInv
<1>3. ASSUME job' = job PROVE NextFile' = NextFile
  BY <1>3 DEF NextFile
<1>4. CASE FileMissing \/ ParseFails \/ Rejected \/ ImportFails \/ LinkFails
  BY <1>4 DEF FileMissing, ParseFails, Rejected, ImportFails, LinkFails, ErrorOccurred
<1>5. CASE Link \/ DontLink \/ Exit
  BY <1>5 DEF Link, DontLink, CloseMain, Exit
<1>6. CASE OpenMain
  <2>1. /\ AtFile /\ stack' = <<Frame(NextFile)>> /\ linklist' = << >> /\ libs' = {}
        /\ UNCHANGED <<imports, job, tbl, code>>
    BY <1>6 DEF OpenMain
  <2>2. job.state = "busy" /\ stack = << >> /\ job.next \in 1 .. Len(job.files) /\ NextFile \in Modules
    BY <2>1, Begins DEF AtFile
  <2>3. tbl = {} /\ code = 0
    <3>1. Len(job.files) = 1
      BY <2>1, <2>2 DEF Alone
    <3>2. job.next = 1
      BY <2>2, <3>1
    <3> QED
      BY <2>1, <2>2, <3>2 DEF Alone
  <2>4. Len(stack') = 1 /\ stack'[1].state = "parse" /\ Len(linklist') = 0
    BY <2>1 DEF Frame
  <2>5. \A i \in 1 .. Len(stack') : stack'[i].state = "parse"
    BY <2>4
  <2>6. Members(linklist') = {} /\ Ordered(linklist', imports, libs')
    BY <2>4 DEF Members, Ordered
  <2>7. Done(stack', tbl) = {}
    BY <2>3, <2>5 DEF Done
  <2> QED
    BY <1>3, <2>1, <2>3, <2>5, <2>6, <2>7 DEF Linkage
<1>7. ASSUME NEW t, Turned(t), UNCHANGED <<imports, job, tbl, lists, code>>, linkable' = linkable,
             Top.state \notin {"closed", "link"}, t.state \notin {"closed", "link"}
      PROVE  code' = 0 /\ Linkage(stack', imports', tbl', linklist', libs', NextFile')
  <2>1. Len(stack) # 0 /\ Refiled(stack', stack) /\ stack'[1] = t /\ stack # << >>
    BY <1>7, FileFacts DEF Turned
  <2>2. Before
    BY <1>2, <1>7, <2>1
  <2>3. Done(stack', tbl) = Done(stack, tbl)
    BY <1>1, <1>7, <2>1, DoneSame DEF Top
  <2> QED
    BY <1>3, <1>7, <2>2, <2>3 DEF Linkage
<1>8. CASE Parse
  <2> DEFINE t == [Top EXCEPT !.state = "imports"]
  <2>1. /\ stack # << >> /\ UNCHANGED <<imports, job, tbl, lists, code>> /\ linkable' = linkable
        /\ Top.state = "parse"
    BY <1>8 DEF Parse, Busy
  <2>2. t.state = "imports"
    BY <2>1, TopFacts DEF Files
  <2>3. Turned(t)
    BY <1>8, Turns
  <2> HIDE DEF t
  <2> QED
    BY <1>7, <2>1, <2>2, <2>3
<1>9. CASE ImportKnown
  <2> DEFINE t == [Top EXCEPT !.next = @ + 1]
  <2>1. /\ stack # << >> /\ UNCHANGED <<imports, job, tbl, lists, code>> /\ linkable' = linkable
        /\ Top.state = "imports"
    BY <1>9 DEF ImportKnown, AtImport, Busy
  <2>2. t.state = "imports"
    BY <2>1, TopFacts DEF Files
  <2>3. Turned(t)
    BY <1>9, Turns
  <2> HIDE DEF t
  <2> QED
    BY <1>7, <2>1, <2>2, <2>3
<1>10. CASE ImportOpens
  <2>1. UNCHANGED <<imports, job, tbl, lists, code>> /\ linkable' = linkable
    BY <1>10 DEF ImportOpens
  <2>2. Opening(stack', Frame(Server), stack) /\ stack # << >>
    BY <1>10, Opens
  <2>3. Frame(Server).state = "parse"
    BY DEF Frame
  <2>4. Before
    BY <1>2, <2>1, <2>2
  <2>5. Done(stack', tbl) = Done(stack, tbl)
    BY <1>1, <2>2, <2>3, DoneOpening
  <2> QED
    BY <1>3, <2>1, <2>4, <2>5 DEF Linkage
<1>11. CASE CloseServer
  <2>1. UNCHANGED <<imports, job, lists, code>> /\ linkable' = linkable
    BY <1>11 DEF CloseServer
  <2>2. /\ Closing(stack', stack) /\ tbl' = tbl \cup {stack[1].mod} /\ stack # << >>
        /\ stack[1].state = "closed"
    BY <1>11, Closes DEF Top
  <2>3. Before
    BY <1>2, <2>1, <2>2
  <2>4. Done(stack', tbl') = Done(stack, tbl)
    BY <1>1, <2>2, DoneClosing
  <2>5. tbl' \subseteq Below(imports, NextFile) \ {NextFile}
    <3>1. 1 \in 1 .. Len(stack) /\ Len(stack) \in 1 .. Len(stack) /\ 1 # Len(stack)
      BY <1>1, <2>2, ClosingParts
    <3>2. stack[Len(stack)].mod = NextFile
      BY <2>2 DEF Opened
    <3>3. stack[1].mod # NextFile
      BY <1>1, <3>1, <3>2 DEF Nested
    <3>4. stack[1].mod \in Below(imports, NextFile)
      BY <2>2, <3>1, AllowsFiles DEF NextFile
    <3> QED
      BY <2>2, <2>3, <3>3, <3>4 DEF Linkage
  <2> QED
    BY <1>3, <2>1, <2>3, <2>4, <2>5 DEF Linkage
<1>12. ASSUME NEW b, Accepted(b), linkable' = linkable
       PROVE  /\ Before /\ UNCHANGED <<imports, job, tbl>> /\ Top.mod \in Modules
              /\ Done(stack', tbl) = Done(stack, tbl) \cup {Top.mod}
              /\ Top.mod \notin Done(stack, tbl)
              /\ Uses(imports, Top.mod) \ libs \subseteq Members(linklist)
  <2>1. /\ stack # << >> /\ UNCHANGED <<imports, job, tbl>> /\ Top.state = "imports"
    BY <1>12 DEF Accepted, Evaluated, Busy
  <2>2. Before
    BY <1>2, <1>12, <2>1
  <2>3. Refiled(stack', stack) /\ stack'[1] = Compiled /\ Len(stack) # 0
    BY <1>12, AcceptedTurns DEF Turned
  <2>4. /\ Compiled.state = IF Len(stack) = 1 THEN "link" ELSE "closed"
        /\ Compiled.mod = Top.mod /\ Top.mod \in Modules
    BY <2>1, TopFacts
  <2>5. Done(stack', tbl) = Done(stack, tbl) \cup {Top.mod}
    <3>1. stack'[1].state \in {"closed", "link"}
      BY <2>3, <2>4
    <3> QED
      BY <1>1, <2>3, <3>1, DoneMore DEF Top
  <2>6. Members(linklist) \cup libs = Done(stack, tbl) /\ NextFile \notin tbl
    BY <2>2 DEF Linkage
  <2>7. Top.mod \notin Done(stack, tbl)
    BY <2>1, <2>6, NewMember
  <2>8. Uses(imports, Top.mod) \subseteq tbl /\ Uses(imports, Top.mod) \subseteq Modules
    BY <1>1, <1>12, <2>2, <2>4, AcceptedUses, BelowFacts
  <2>9. Uses(imports, Top.mod) \ libs \subseteq Members(linklist)
    <3>1. Uses(imports, Top.mod) \subseteq Done(stack, tbl)
      BY <2>8 DEF Done
    <3> QED
      BY <2>6, <3>1
  <2> QED
    BY <2>1, <2>2, <2>4, <2>5, <2>7, <2>9
<1>13. ASSUME NEW b, Accepted(b), linkable' = linkable, code' = code, AddToLinklist(Top.mod)
       PROVE  code' = 0 /\ Linkage(stack', imports', tbl', linklist', libs', NextFile')
  <2>1. linklist' = Append(linklist, Top.mod) /\ libs' = libs
    BY <1>13 DEF AddToLinklist
  <2>2. Before /\ UNCHANGED <<imports, job, tbl>> /\ Done(stack', tbl) = Done(stack, tbl) \cup {Top.mod}
        /\ Top.mod \in Modules /\ Top.mod \notin Done(stack, tbl)
        /\ Uses(imports, Top.mod) \ libs \subseteq Members(linklist)
    BY <1>12, <1>13
  <2>3. Members(linklist) \cup libs = Done(stack, tbl) /\ Members(linklist) \cap libs = {}
    BY <2>2 DEF Linkage
  <2>4. Ordered(linklist', imports, libs) /\ Members(linklist') = Members(linklist) \cup {Top.mod}
    <3>1. Ordered(linklist, imports, libs) /\ Top.mod \notin Members(linklist)
      BY <2>2, <2>3 DEF Linkage
    <3> QED
      BY <1>1, <2>1, <2>2, <3>1, OrderedAppend
  <2>5. Members(linklist') \cup libs = Done(stack', tbl) /\ Members(linklist') \cap libs = {}
    BY <2>2, <2>3, <2>4
  <2> QED
    BY <1>3, <1>13, <2>1, <2>2, <2>4, <2>5 DEF Linkage
<1>14. CASE Reused
  BY <1>13, <1>14 DEF Reused
<1>15. CASE Assembled
  BY <1>13, <1>15 DEF Assembled
<1>16. CASE ForeignModule
  <2>1. Accepted(FALSE) /\ Top.mod \in Foreign /\ ~IsMain /\ linkable' = linkable
        /\ linklist' = linklist /\ libs' = libs \cup {Top.mod} /\ code' = code
    BY <1>16 DEF ForeignModule
  <2>2. Before /\ UNCHANGED <<imports, job, tbl>> /\ Done(stack', tbl) = Done(stack, tbl) \cup {Top.mod}
        /\ Top.mod \notin Done(stack, tbl)
    BY <1>12, <2>1
  <2>3. Ordered(linklist, imports, libs')
    BY <2>1, <2>2 DEF Linkage, Ordered
  <2> QED
    BY <1>3, <2>1, <2>2, <2>3 DEF Linkage
<1>17. CASE NotAssembled \/ AssemblyFails
  BY <1>17 DEF NotAssembled, AssemblyFails, ErrorOccurred
<1>18. ASSUME NEW m \in Modules, NEW d \in Defects, Edit(m, d) PROVE FALSE
  <2>1. job.state = "idle" /\ stack' = stack
    BY <1>18 DEF Edit
  <2> QED
    BY <2>1 DEF Opened
<1>19. ASSUME NEW l \in CommandLines, NEW force \in IgnoreTimeStamps, NEW fails \in ToolsFail,
              Run(l[1], force, l[2], fails)
       PROVE  FALSE
  <2>1. job.state = "idle" /\ stack' = stack
    BY <1>19 DEF Run
  <2> QED
    BY <2>1 DEF Opened
<1>20. CASE (\E m \in Foreign : Provide(m)) \/ UNCHANGED mkvars
  BY <1>2, <1>3, <1>20 DEF Provide, mkvars
<1> HIDE DEF Before
<1> QED
  BY <1>4, <1>5, <1>6, <1>8, <1>9, <1>10, <1>11, <1>14, <1>15, <1>16, <1>17,
     <1>18, <1>19, <1>20, Steps, Zenon
LEMMA LinkageInv ==
  ASSUME OneProgram
  PROVE  MakeSpec => [](MakeTypes /\ Opened /\ Clean /\ Dated /\ Alone /\ LinkInv)
<1>1. MakeInit => MakeTypes /\ Opened /\ Clean /\ Dated /\ Alone /\ LinkInv
  <2>1. MakeInit => job.state = "idle" /\ stack = << >>
    BY DEF MakeInit
  <2> QED
    BY <2>1, InitTypes, InitOpened, InitDated DEF Clean, Alone, LinkInv
<1>2. OneProgram /\ MakeTypes /\ Opened /\ Clean /\ Dated /\ Alone /\ LinkInv /\ [MakeNext]_mkvars
        => (MakeTypes /\ Opened /\ Clean /\ Dated /\ Alone /\ LinkInv)'
  BY TypesKept, OpenedKept, CleanKept, DatedKept, AloneKept, LinkInvKept
<1>3. MakeTypes /\ Opened /\ Clean /\ Dated /\ Alone /\ LinkInv /\ [MakeNext]_mkvars
        => (MakeTypes /\ Opened /\ Clean /\ Dated /\ Alone /\ LinkInv)'
  BY <1>2
<1> QED
  BY <1>1, <1>3, PTL DEF MakeSpec

(* When the main module comes to be linked it is the only open file, and   *)
(* what has been compiled is what lies below it.                           *)
LEMMA AtLink ==
  ASSUME MakeTypes, Opened, Clean, Alone, LinkInv, Busy("link"), job.cmd = Make, linkable
  PROVE  /\ Len(stack) = 1 /\ Top.mod = NextFile /\ Top.mod \in Modules /\ code = 0
         /\ Linkage(stack, imports, tbl, linklist, libs, Top.mod)
         /\ TablesSound(imports, defect, tbl)
         /\ defect[Top.mod] = "none"
         /\ Below(imports, Top.mod) = tbl \cup {Top.mod}
         /\ Done(stack, tbl) = Below(imports, Top.mod)
         /\ Members(linklist) \cup libs = Below(imports, Top.mod)
         /\ libs \subseteq Foreign /\ Members(linklist) \cap libs = {}
<1>1. stack # << >> /\ Top.state = "link" /\ job.state = "busy"
  BY DEF Busy
<1>2. /\ 1 \in 1 .. Len(stack) /\ Top \in Files /\ Top.mod \in Modules /\ imports \in Graphs
      /\ tbl \subseteq Modules
  BY <1>1, TopFacts DEF MakeTypes
<1>3. Len(stack) = 1 /\ Top.mod = NextFile
  <2>1. 1 = Len(stack)
    BY <1>1, <1>2 DEF Opened, Nested, Top
  <2> QED
    BY <1>1, <2>1 DEF Opened, Top
<1>4. code = 0 /\ Linkage(stack, imports, tbl, linklist, libs, Top.mod)
  BY <1>1, <1>3 DEF LinkInv
<1>5. TablesSound(imports, defect, tbl) /\ Going(Top, imports, defect, tbl)
  BY <1>1, <1>2, <1>4 DEF Clean, AllGoing, Top
<1>6. defect[Top.mod] = "none" /\ Uses(imports, Top.mod) \subseteq tbl
  <2>1. defect[Top.mod] = "none" /\ Top.next = Len(imports[Top.mod]) + 1
    BY <1>1, <1>5 DEF Going
  <2> QED
    BY <1>2, <1>5, <2>1, UsesDone
<1>7. Below(imports, Top.mod) = tbl \cup {Top.mod}
  <2>1. Below(imports, Top.mod) \subseteq tbl \cup {Top.mod}
    BY <1>2, <1>5, <1>6, SoundBelow
  <2>2. tbl \subseteq Below(imports, Top.mod) /\ Top.mod \in Below(imports, Top.mod)
    BY <1>2, <1>4, BelowFacts DEF Linkage
  <2> QED
    BY <2>1, <2>2
<1>8. Done(stack, tbl) = tbl \cup {Top.mod}
  <2>1. \A i \in 1 .. Len(stack) : i = 1
    BY <1>3
  <2> QED
    BY <1>1, <1>2, <2>1 DEF Done, Top
<1> QED
  BY <1>2, <1>3, <1>4, <1>5, <1>6, <1>7, <1>8 DEF Linkage

LEMMA LinksWhat ==
  ASSUME MakeTypes, Linking
  PROVE  Busy("link") /\ job.cmd = Make /\ linkable /\ linklist \in Seq(Modules)
         /\ DOMAIN linklist = 1 .. Len(linklist) /\ Listed = Members(linklist)
<1>1. job.cmd \in NoCodeGeneration .. Make /\ linklist \in Seq(Modules)
  BY DEF MakeTypes, Jobs
<1>2. job.cmd = Make
  BY <1>1 DEF Linking, Linkable, NoCodeGeneration, Make
<1>3. DOMAIN linklist = 1 .. Len(linklist)
  BY <1>1, LenProperties
<1> QED
  BY <1>1, <1>2, <1>3 DEF Linking, Linkable, Listed, Members

(* A program is linked only if no module below it, however deep, has an    *)
(* error: the first error makes it unlinkable until the next file.         *)
THEOREM LinksOnlyCorrect == ASSUME OneProgram PROVE MakeSpec => []LinkOnlyCorrect
<1>1. MakeTypes /\ Opened /\ Clean /\ Dated /\ Alone /\ LinkInv => LinkOnlyCorrect
  <2> SUFFICES ASSUME MakeTypes, Opened, Clean, Alone, LinkInv, Linking, NEW m \in Closure(Top.mod)
               PROVE  defect[m] = "none"
    BY DEF LinkOnlyCorrect
  <2>1. m \in tbl \cup {Top.mod} /\ TablesSound(imports, defect, tbl) /\ defect[Top.mod] = "none"
    BY AtLink, LinksWhat, Names
  <2> QED
    BY <2>1 DEF TablesSound, Sound
<1> QED
  BY <1>1, LinkageInv, PTL

(* The link list is complete: with the libraries it names what the program *)
(* needs and nothing else, whether a module was made in this run or found  *)
(* up to date; only foreign modules come from libraries.                   *)
THEOREM LinksComplete == ASSUME OneProgram PROVE MakeSpec => []LinkComplete
<1>1. MakeTypes /\ Opened /\ Clean /\ Dated /\ Alone /\ LinkInv => LinkComplete
  <2> SUFFICES ASSUME MakeTypes, Opened, Clean, Alone, LinkInv, Linking
               PROVE  /\ Listed \cup libs = Closure(Top.mod)
                      /\ libs \subseteq Foreign /\ Listed \cap libs = {}
    BY DEF LinkComplete
  <2>1. /\ Members(linklist) \cup libs = Below(imports, Top.mod)
        /\ libs \subseteq Foreign /\ Members(linklist) \cap libs = {}
    BY AtLink, LinksWhat
  <2> QED
    BY <2>1, LinksWhat, Names
<1> QED
  BY <1>1, LinkageInv, PTL

(* A module stands in the link list once and after those it imports, so    *)
(* its body runs after theirs.                                             *)
THEOREM LinksInOrder == ASSUME OneProgram PROVE MakeSpec => []LinkInOrder
<1>1. MakeTypes /\ Opened /\ Clean /\ Dated /\ Alone /\ LinkInv => LinkInOrder
  <2> SUFFICES ASSUME MakeTypes, Opened, Clean, Alone, LinkInv, Linking
               PROVE  /\ \A i, j \in DOMAIN linklist : linklist[i] = linklist[j] => i = j
                      /\ \A i \in DOMAIN linklist : \A m \in Direct(linklist[i]) \ libs :
                           \E j \in 1 .. i - 1 : linklist[j] = m
    BY DEF LinkInOrder
  <2>1. Ordered(linklist, imports, libs) /\ DOMAIN linklist = 1 .. Len(linklist)
    BY AtLink, LinksWhat DEF Linkage
  <2> QED
    BY <2>1, Names DEF Ordered
<1> QED
  BY <1>1, LinkageInv, PTL
-----------------------------------------------------------------------------
(* How the times of the sources reach the main module and youngest.        *)
Times(st, t, s, y) ==
  /\ \A i \in 1 .. Len(st) : s[st[i].mod] <= st[i].sourceTime /\ s[st[i].mod] <= y
  /\ \A m \in t : s[m] <= y /\ \E i \in 1 .. Len(st) : s[m] <= st[i].sourceTime
  /\ Len(st) > 1 /\ st[1].state = "closed" => st[1].sourceTime <= st[2].sourceTime

MainDated(f, g, s, o) ==
  f.state = "link" => \A x \in Below(g, f.mod) : s[x] <= o[f.mod].time

TimesInv ==
  job.cmd = Make /\ stack # << >> /\ linkable =>
    Times(stack, tbl, src, youngest) /\ MainDated(stack[1], imports, src, obj)

LEMMA RefiledTimes ==
  ASSUME NEW s \in [Modules -> Nat \ {0}], NEW t \in SUBSET Modules, NEW y, NEW st \in Seq(Files),
         NEW st2, Times(st, t, s, y), Refiled(st2, st),
         Len(st) > 1 /\ st2[1].state = "closed" => st2[1].sourceTime <= st2[2].sourceTime
  PROVE  Times(st2, t, s, y)
<1>1. /\ st2 \in Seq(Files) /\ Len(st2) = Len(st)
      /\ \A i \in 1 .. Len(st) : st2[i].mod = st[i].mod /\ st[i].sourceTime <= st2[i].sourceTime
  BY DEF Refiled
<1>2. \A i \in 1 .. Len(st) : st[i].mod \in Modules /\ st[i].sourceTime \in Nat
  BY FileParts
<1>3. \A i \in 1 .. Len(st) : st2[i].sourceTime \in Nat
  BY <1>1, FileParts
<1>4. \A m \in Modules : s[m] \in Nat
  OBVIOUS
<1>5. ASSUME NEW i \in 1 .. Len(st), NEW m \in Modules, s[m] <= st[i].sourceTime
      PROVE  s[m] <= st2[i].sourceTime
  BY <1>1, <1>2, <1>3, <1>4, <1>5
<1>6. \A i \in 1 .. Len(st) : s[st2[i].mod] <= st2[i].sourceTime /\ s[st2[i].mod] <= y
  BY <1>1, <1>2, <1>5 DEF Times
<1>7. \A m \in t : s[m] <= y /\ \E i \in 1 .. Len(st) : s[m] <= st2[i].sourceTime
  BY <1>5 DEF Times
<1> QED
  BY <1>1, <1>6, <1>7 DEF Times

LEMMA OpeningTimes ==
  ASSUME NEW s \in [Modules -> Nat \ {0}], NEW t \in SUBSET Modules, NEW y, NEW y2 \in Nat,
         NEW st \in Seq(Files), NEW f \in Files, NEW st2, Times(st, t, s, y), Opening(st2, f, st),
         f.sourceTime = s[f.mod], f.state = "parse", y \in Nat, y <= y2, s[f.mod] <= y2
  PROVE  Times(st2, t, s, y2)
<1>1. /\ Len(st2) = Len(st) + 1 /\ st2[1] = f /\ Len(st) \in Nat /\ f.mod \in Modules
      /\ \A i \in 1 .. Len(st) : st2[i+1] = st[i] /\ i + 1 \in 1 .. Len(st2)
      /\ \A i \in 1 .. Len(st2) : i = 1 \/ (i - 1 \in 1 .. Len(st) /\ i - 1 + 1 = i)
  BY FileParts DEF Opening, Files
<1>2. ASSUME NEW m \in Modules, s[m] <= y PROVE s[m] <= y2
  <2>1. s[m] \in Nat
    OBVIOUS
  <2> QED
    BY <1>2, <2>1
<1>3. ASSUME NEW i \in 1 .. Len(st2)
      PROVE  s[st2[i].mod] <= st2[i].sourceTime /\ s[st2[i].mod] <= y2
  <2>1. CASE i = 1
    <3>1. s[f.mod] \in Nat
      BY <1>1
    <3> QED
      BY <1>1, <2>1, <3>1
  <2>2. CASE i # 1
    <3>1. i - 1 \in 1 .. Len(st) /\ st2[i] = st[i-1]
      BY <1>1, <2>2
    <3>2. s[st[i-1].mod] <= st[i-1].sourceTime /\ s[st[i-1].mod] <= y /\ st[i-1].mod \in Modules
      BY <3>1, FileParts DEF Times
    <3> QED
      BY <1>2, <3>1, <3>2
  <2> QED
    BY <2>1, <2>2
<1>4. ASSUME NEW m \in t PROVE s[m] <= y2 /\ \E i \in 1 .. Len(st2) : s[m] <= st2[i].sourceTime
  <2>1. s[m] <= y
    BY <1>4 DEF Times
  <2>2. PICK i \in 1 .. Len(st) : s[m] <= st[i].sourceTime
    BY <1>4 DEF Times
  <2> QED
    BY <1>1, <1>2, <2>1, <2>2
<1> QED
  BY <1>1, <1>3, <1>4 DEF Times

LEMMA ClosingTimes ==
  ASSUME NEW g \in Graphs, NEW s \in [Modules -> Nat \ {0}], NEW t \in SUBSET Modules, NEW y,
         NEW st \in Seq(Files), NEW st2, Times(st, t, s, y), Closing(st2, st), Nested(st, g, t),
         st[1].state = "closed"
  PROVE  Times(st2, t \cup {st[1].mod}, s, y)
<1>1. /\ Len(st) > 1 /\ 1 \in 1 .. Len(st2) /\ 1 \in 1 .. Len(st) /\ 2 \in 1 .. Len(st)
      /\ st2[1].state = st[2].state /\ st2[1].sourceTime = st[2].sourceTime
      /\ \A i \in 1 .. Len(st2) :
           /\ i + 1 \in 1 .. Len(st) /\ st2[i].mod = st[i+1].mod
           /\ st2[i].sourceTime = st[i+1].sourceTime
      /\ \A i \in 1 .. Len(st) : i = 1 \/ (i > 1 /\ i - 1 \in 1 .. Len(st2) /\ i - 1 + 1 = i)
  BY ClosingParts
<1>2. st2[1].state = "imports"
  BY <1>1, NestedParts
<1>3. st[1].sourceTime <= st[2].sourceTime
  BY <1>1 DEF Times
<1>4. st[1].mod \in Modules /\ st[1].sourceTime \in Nat /\ st[2].sourceTime \in Nat
  BY <1>1, FileParts
<1>5. ASSUME NEW i \in 1 .. Len(st), NEW m \in Modules, s[m] <= st[i].sourceTime
      PROVE  \E j \in 1 .. Len(st2) : s[m] <= st2[j].sourceTime
  <2>1. CASE i = 1
    <3>1. s[m] \in Nat
      OBVIOUS
    <3>2. s[m] <= st2[1].sourceTime
      BY <1>1, <1>3, <1>4, <1>5, <2>1, <3>1
    <3> QED
      BY <1>1, <3>2
  <2>2. CASE i # 1
    <3>1. i - 1 \in 1 .. Len(st2) /\ st2[i-1].sourceTime = st[i-1+1].sourceTime /\ i - 1 + 1 = i
      BY <1>1, <2>2
    <3> QED
      BY <1>5, <3>1
  <2> QED
    BY <2>1, <2>2
<1>6. \A i \in 1 .. Len(st2) : s[st2[i].mod] <= st2[i].sourceTime /\ s[st2[i].mod] <= y
  BY <1>1 DEF Times
<1>7. ASSUME NEW m \in t \cup {st[1].mod}
      PROVE  s[m] <= y /\ \E i \in 1 .. Len(st2) : s[m] <= st2[i].sourceTime
  <2>1. s[m] <= y /\ \E i \in 1 .. Len(st) : s[m] <= st[i].sourceTime
    BY <1>1, <1>7 DEF Times
  <2>2. m \in Modules
    BY <1>4, <1>7
  <2> QED
    BY <1>5, <2>1, <2>2
<1> QED
  BY <1>2, <1>6, <1>7 DEF Times

(* The object of a module that has been accepted is as young as all it is  *)
(* made from, if the module's time is.                                     *)
LEMMA FreshObject ==
  ASSUME MakeTypes, Dated, Reused \/ Assembled,
         \A x \in Below(imports, Top.mod) : src[x] <= Top.sourceTime
  PROVE  \A x \in Below(imports, Top.mod) : src[x] <= obj'[Top.mod].time
<1>1. stack # << >> /\ (Reused => obj' = obj /\ Top.sourceTime <= obj[Top.mod].time)
  BY DEF Reused, Assembled, Accepted, Evaluated, Busy, UpToDate
<1>2. Top.mod \in Modules /\ Top.sourceTime \in Nat /\ imports \in Graphs
  BY <1>1, TopFacts DEF Files, MakeTypes
<1>3. \A x \in Below(imports, Top.mod) : x \in Modules /\ src[x] \in Nat /\ src[x] <= clock
  BY <1>2, BelowFacts DEF MakeTypes
<1>4. CASE Reused
  <2>1. obj[Top.mod].time \in Nat
    <3>1. obj[Top.mod] = NoFile \/ obj[Top.mod].time \in Nat \ {0}
      BY <1>2 DEF Dated, ObjectsDated, MadeFrom
    <3> QED
      BY <3>1 DEF NoFile
  <2> QED
    BY <1>1, <1>2, <1>3, <1>4, <2>1
<1>5. CASE Assembled
  BY <1>3, <1>5, Assembles
<1> QED
  BY <1>4, <1>5

(* When the main module has been evaluated its time is that of the         *)
(* youngest source below it.                                               *)
LEMMA MainCovers ==
  ASSUME MakeTypes, Opened, Clean, code = 0, NEW b, Accepted(b), IsMain,
         Times(stack, tbl, src, youngest)
  PROVE  \A x \in Below(imports, Top.mod) : src[x] <= Top.sourceTime
<1>1. stack # << >> /\ job.state = "busy" /\ Len(stack) = 1
  BY DEF Accepted, Evaluated, Busy, IsMain
<1>2. Top.mod \in Modules /\ imports \in Graphs /\ tbl \in SUBSET Modules
  BY <1>1, TopFacts DEF MakeTypes
<1>3. Below(imports, Top.mod) \subseteq tbl \cup {Top.mod}
  BY <1>1, <1>2, AcceptedUses, SoundBelow DEF Clean
<1>4. \A i \in 1 .. Len(stack) : i = 1
  BY <1>1
<1>5. 1 \in 1 .. Len(stack)
  BY <1>1
<1>6. \A x \in tbl \cup {Top.mod} : src[x] <= Top.sourceTime
  BY <1>4, <1>5 DEF Times, Top
<1> QED
  BY <1>3, <1>6

LEMMA TimesKept ==
  OneProgram /\ MakeTypes /\ Opened /\ Clean /\ Dated /\ Alone /\ LinkInv /\ TimesInv
      /\ [MakeNext]_mkvars
    => TimesInv'
<1> SUFFICES ASSUME OneProgram, MakeTypes, Opened, Clean, Dated, Alone, LinkInv, TimesInv,
                    [MakeNext]_mkvars, job'.cmd = Make, stack' # << >>, linkable'
             PROVE  /\ Times(stack', tbl', src', youngest')
                    /\ MainDated(stack'[1], imports', src', obj')
  <2>1. /\ Times(stack, tbl, src, youngest)' <=> Times(stack', tbl', src', youngest')
        /\ MainDated(stack[1], imports, src, obj)' <=> MainDated(stack'[1], imports', src', obj')
    OBVIOUS
  <2> QED
    BY <2>1 DEF TimesInv
<1> USE DEF lists, disk
<1>1. /\ imports \in Graphs /\ stack \in Seq(Files) /\ job \in Jobs
      /\ src \in [Modules -> Nat \ {0}] /\ tbl \in SUBSET Modules /\ youngest \in Nat
      /\ Nested(stack, imports, tbl)
  BY DEF MakeTypes, Opened
<1>2. ASSUME stack # << >>, linkable' = linkable, job' = job
      PROVE  /\ Times(stack, tbl, src, youngest) /\ MainDated(stack[1], imports, src, obj)
             /\ code = 0
  BY <1>2 DEF TimesInv, LinkInv
<1>3. CASE FileMissing \/ ParseFails \/ Rejected \/ ImportFails \/ LinkFails
  BY <1>3 DEF FileMissing, ParseFails, Rejected, ImportFails, LinkFails, ErrorOccurred
<1>4. CASE Link \/ DontLink \/ Exit
  BY <1>4 DEF Link, DontLink, CloseMain, Exit
<1>5. CASE OpenMain
  <2>1. /\ AtFile /\ stack' = <<Frame(NextFile)>> /\ youngest' = src[NextFile]
        /\ UNCHANGED <<imports, src, job, tbl, code>>
    BY <1>5 DEF OpenMain
  <2>2. job.state = "busy" /\ stack = << >> /\ job.next \in 1 .. Len(job.files) /\ NextFile \in Modules
    BY <2>1, Begins DEF AtFile
  <2>3. tbl' = {}
    <3>1. job.next = 1
      <4>1. Len(job.files) = 1
        BY <2>1, <2>2 DEF Alone
      <4> QED
        BY <2>2, <4>1
    <3> QED
      BY <2>1, <2>2, <3>1 DEF Alone
  <2>4. Len(stack') = 1 /\ stack'[1] = Frame(NextFile)
    BY <2>1
  <2>5. /\ Frame(NextFile).mod = NextFile /\ Frame(NextFile).state = "parse"
        /\ Frame(NextFile).sourceTime = src[NextFile]
    BY DEF Frame
  <2>6. src[NextFile] <= src[NextFile]
    <3>1. src[NextFile] \in Nat
      BY <1>1, <2>2
    <3> QED
      BY <3>1
  <2>7. \A i \in 1 .. Len(stack') : i = 1
    BY <2>4
  <2>8. ~(Len(stack') > 1)
    BY <2>4
  <2>9. Times(stack', tbl', src', youngest')
    BY <2>1, <2>3, <2>4, <2>5, <2>6, <2>7, <2>8 DEF Times
  <2>10. MainDated(stack'[1], imports', src', obj')
    BY <2>4, <2>5 DEF MainDated
  <2> QED
    BY <2>9, <2>10
<1>6. ASSUME NEW t, Turned(t), t.state = "imports", UNCHANGED <<src, job, tbl, youngest>>,
             linkable' = linkable
      PROVE  /\ Times(stack', tbl', src', youngest') /\ MainDated(stack'[1], imports', src', obj')
  <2>1. stack # << >> /\ stack'[1] = t /\ Refiled(stack', stack)
    BY <1>6, FileFacts DEF Turned
  <2>2. Times(stack, tbl, src, youngest)
    BY <1>2, <1>6, <2>1
  <2>3. Times(stack', tbl, src, youngest)
    BY <1>1, <1>6, <2>1, <2>2, RefiledTimes
  <2> QED
    BY <1>6, <2>1, <2>3 DEF MainDated
<1>7. CASE Parse
  <2> DEFINE t == [Top EXCEPT !.state = "imports"]
  <2>1. stack # << >> /\ UNCHANGED <<src, job, tbl, youngest>> /\ linkable' = linkable
    BY <1>7 DEF Parse, Busy
  <2>2. t.state = "imports"
    BY <2>1, TopFacts DEF Files
  <2>3. Turned(t)
    BY <1>7, Turns
  <2> HIDE DEF t
  <2> QED
    BY <1>6, <2>1, <2>2, <2>3
<1>8. CASE ImportKnown
  <2> DEFINE t == [Top EXCEPT !.next = @ + 1]
  <2>1. /\ stack # << >> /\ UNCHANGED <<src, job, tbl, youngest>> /\ linkable' = linkable
        /\ Top.state = "imports"
    BY <1>8 DEF ImportKnown, AtImport, Busy
  <2>2. t.state = "imports"
    BY <2>1, TopFacts DEF Files
  <2>3. Turned(t)
    BY <1>8, Turns
  <2> HIDE DEF t
  <2> QED
    BY <1>6, <2>1, <2>2, <2>3
<1>9. CASE ImportOpens
  <2>1. /\ UNCHANGED <<src, job, tbl>> /\ linkable' = linkable
        /\ youngest' = IF src[Server] > youngest THEN src[Server] ELSE youngest
    BY <1>9 DEF ImportOpens
  <2>2. Opening(stack', Frame(Server), stack) /\ stack # << >> /\ Server \in Modules
        /\ Frame(Server) \in Files
    BY <1>9, Opens
  <2>3. Frame(Server).state = "parse" /\ Frame(Server).mod = Server
        /\ Frame(Server).sourceTime = src[Server]
    BY DEF Frame
  <2>4. Times(stack, tbl, src, youngest)
    BY <1>2, <2>1, <2>2
  <2>5. youngest' \in Nat /\ youngest <= youngest' /\ src[Server] <= youngest'
    <3>1. src[Server] \in Nat
      BY <1>1, <2>2
    <3> QED
      BY <1>1, <2>1, <3>1
  <2>6. Times(stack', tbl, src, youngest')
    BY <1>1, <2>2, <2>3, <2>4, <2>5, OpeningTimes
  <2>7. stack'[1].state # "link"
    BY <2>2, <2>3 DEF Opening
  <2> QED
    BY <2>1, <2>6, <2>7 DEF MainDated
<1>10. CASE CloseServer
  <2>1. UNCHANGED <<src, job, youngest>> /\ linkable' = linkable
    BY <1>10 DEF CloseServer
  <2>2. /\ Closing(stack', stack) /\ tbl' = tbl \cup {stack[1].mod} /\ stack # << >>
        /\ stack[1].state = "closed"
    BY <1>10, Closes DEF Top
  <2>3. Times(stack, tbl, src, youngest)
    BY <1>2, <2>1, <2>2
  <2>4. Times(stack', tbl', src, youngest)
    BY <1>1, <2>2, <2>3, ClosingTimes
  <2>5. stack'[1].state # "link"
    <3>1. 2 \in 1 .. Len(stack) /\ stack'[1].state = stack[2].state
      BY <1>1, <2>2, ClosingParts
    <3>2. stack[2].state = "imports"
      BY <1>1, <3>1, NestedParts
    <3> QED
      BY <3>1, <3>2
  <2> QED
    BY <2>1, <2>4, <2>5 DEF MainDated
<1>11. ASSUME NEW b, Accepted(b), linkable' = linkable
       PROVE  /\ Times(stack', tbl', src', youngest') /\ UNCHANGED <<imports, src>>
              /\ Compiled.mod = Top.mod /\ stack'[1] = Compiled
              /\ Compiled.state = "link" <=> IsMain
              /\ IsMain => \A x \in Below(imports, Top.mod) : src[x] <= Top.sourceTime
  <2>1. stack # << >> /\ UNCHANGED <<imports, src, job, tbl, youngest>>
    BY <1>11 DEF Accepted, Evaluated, Busy
  <2>2. Times(stack, tbl, src, youngest) /\ code = 0
    BY <1>2, <1>11, <2>1
  <2>3. /\ Refiled(stack', stack) /\ stack'[1] = Compiled
        /\ Len(stack) > 1 => stack'[1].sourceTime <= stack'[2].sourceTime
    BY <1>11, AcceptedTurns DEF Turned
  <2>4. Times(stack', tbl, src, youngest)
    BY <1>1, <2>2, <2>3, RefiledTimes
  <2>5. Compiled.state = IF Len(stack) = 1 THEN "link" ELSE "closed"
    BY <2>1, TopFacts
  <2>6. Compiled.mod = Top.mod
    BY <2>1, TopFacts
  <2>7. IsMain => \A x \in Below(imports, Top.mod) : src[x] <= Top.sourceTime
    BY <1>11, <2>2, MainCovers
  <2> QED
    BY <2>1, <2>3, <2>4, <2>5, <2>6, <2>7 DEF IsMain
<1>12. CASE Reused \/ Assembled
  <2>1. PICK b \in BOOLEAN : Accepted(b) /\ linkable' = linkable
    BY <1>12 DEF Reused, Assembled
  <2>2. IsMain => \A x \in Below(imports, Top.mod) : src[x] <= obj'[Top.mod].time
    BY <1>11, <1>12, <2>1, FreshObject
  <2> QED
    BY <1>11, <2>1, <2>2 DEF MainDated
<1>13. CASE ForeignModule
  <2>1. Accepted(FALSE) /\ ~IsMain /\ linkable' = linkable
    BY <1>13 DEF ForeignModule
  <2> QED
    BY <1>11, <2>1 DEF MainDated
<1>14. CASE NotAssembled \/ AssemblyFails
  BY <1>14 DEF NotAssembled, AssemblyFails, ErrorOccurred
<1>15. ASSUME NEW m \in Modules, NEW d \in Defects, Edit(m, d) PROVE FALSE
  <2>1. job.state = "idle" /\ stack' = stack
    BY <1>15 DEF Edit
  <2> QED
    BY <2>1 DEF Opened
<1>16. ASSUME NEW l \in CommandLines, NEW force \in IgnoreTimeStamps, NEW fails \in ToolsFail,
              Run(l[1], force, l[2], fails)
       PROVE  FALSE
  <2>1. job.state = "idle" /\ stack' = stack
    BY <1>16 DEF Run
  <2> QED
    BY <2>1 DEF Opened
<1>17. ASSUME NEW m \in Foreign, Provide(m) PROVE FALSE
  BY <1>17 DEF Provide, Opened
<1>18. CASE UNCHANGED mkvars
  BY <1>2, <1>18 DEF mkvars
<1> QED
  BY <1>18, <1>3, <1>4, <1>5, <1>7, <1>8, <1>9, <1>10, <1>12, <1>13, <1>14, <1>15,
     <1>16, <1>17, Steps, Zenon
-----------------------------------------------------------------------------
(* A program whose imports form a tree: each module has one client, by     *)
(* whose import list its time goes on to the main module.                  *)
Past(st, c, k) == \A i \in 1 .. Len(st) : st[i].mod = c => k < st[i].next
Open(st) == {st[i].mod : i \in 1 .. Len(st)}
Met(st, g, t) ==
  \A m \in t : \E c \in t \cup Open(st) : \E k \in 1 .. Len(g[c]) : g[c][k] = m /\ Past(st, c, k)

Covers(st, g, s) ==
  \A i \in 1 .. Len(st) : \A k \in 1 .. st[i].next - 1 : \A x \in Below(g, g[st[i].mod][k]) :
    s[x] <= st[i].sourceTime

ListDated(l, g, s, o) == \A m \in Members(l) : \A x \in Below(g, m) : s[x] <= o[m].time

TreeInv ==
  job.cmd = Make /\ stack # << >> /\ linkable /\ IsTree(imports, NextFile) =>
    /\ Met(stack, imports, tbl) /\ Covers(stack, imports, src)
    /\ ListDated(linklist, imports, src, obj)

LEMMA RefiledTree ==
  ASSUME NEW g \in Graphs, NEW s \in [Modules -> Nat \ {0}], NEW t, NEW st \in Seq(Files), NEW st2,
         Met(st, g, t), Covers(st, g, s), Refiled(st2, st), Len(st) # 0,
         st2[1].next = st[1].next, Nested(st, g, t)
  PROVE  Met(st2, g, t) /\ Covers(st2, g, s)
<1>1. /\ st2 \in Seq(Files) /\ Len(st2) = Len(st) /\ Len(st) \in Nat
      /\ \A i \in 1 .. Len(st) : st2[i].mod = st[i].mod /\ st[i].sourceTime <= st2[i].sourceTime
      /\ \A i \in 1 .. Len(st) : st[i].sourceTime \in Nat
  BY FileParts DEF Refiled
<1>2. \A i \in 1 .. Len(st) : st2[i].next = st[i].next
  <2> SUFFICES ASSUME NEW i \in 1 .. Len(st) PROVE st2[i].next = st[i].next
    OBVIOUS
  <2>1. CASE i = 1
    BY <2>1
  <2>2. CASE i # 1
    <3>1. i > 1
      BY <1>1, <2>2
    <3> QED
      BY <3>1 DEF Refiled
  <2> QED
    BY <2>1, <2>2
<1>3. Open(st2) = Open(st) /\ \A c, k : Past(st2, c, k) <=> Past(st, c, k)
  BY <1>1, <1>2 DEF Open, Past
<1>4. Met(st2, g, t)
  BY <1>3 DEF Met
<1>5. \A i \in 1 .. Len(st) : st2[i].sourceTime \in Nat
  BY <1>1, FileParts
<1>6. ASSUME NEW i \in 1 .. Len(st2), NEW k \in 1 .. st2[i].next - 1,
             NEW x \in Below(g, g[st2[i].mod][k])
      PROVE  s[x] <= st2[i].sourceTime
  <2>1. /\ i \in 1 .. Len(st) /\ k \in 1 .. st[i].next - 1 /\ x \in Below(g, g[st[i].mod][k])
    BY <1>1, <1>2
  <2>2. s[x] <= st[i].sourceTime
    BY <2>1 DEF Covers
  <2>3. x \in Modules
    BY DEF Below
  <2>4. s[x] \in Nat
    BY <2>3
  <2>5. st[i].sourceTime <= st2[i].sourceTime /\ st[i].sourceTime \in Nat /\ st2[i].sourceTime \in Nat
    BY <1>1, <1>5, <2>1
  <2> QED
    BY <2>2, <2>4, <2>5
<1>7. Covers(st2, g, s)
  BY <1>6 DEF Covers
<1> QED
  BY <1>4, <1>7

LEMMA OpeningTree ==
  ASSUME NEW g, NEW s, NEW t, NEW st \in Seq(Files), NEW f \in Files, NEW st2,
         Met(st, g, t), Covers(st, g, s), Opening(st2, f, st),
         f.next = 1, f.mod \notin t \cup Open(st)
  PROVE  Met(st2, g, t) /\ Covers(st2, g, s)
<1>1. /\ Len(st2) = Len(st) + 1 /\ st2[1] = f /\ Len(st) \in Nat
      /\ \A i \in 1 .. Len(st) : st2[i+1] = st[i] /\ i + 1 \in 1 .. Len(st2)
      /\ \A i \in 1 .. Len(st2) : i = 1 \/ (i - 1 \in 1 .. Len(st) /\ i - 1 + 1 = i)
  BY FileParts DEF Opening
<1>2. \A i \in 1 .. Len(st2) : i = 1 \/ (i - 1 \in 1 .. Len(st) /\ st2[i] = st[i-1])
  <2> SUFFICES ASSUME NEW i \in 1 .. Len(st2), i # 1 PROVE i - 1 \in 1 .. Len(st) /\ st2[i] = st[i-1]
    OBVIOUS
  <2>1. i - 1 \in 1 .. Len(st) /\ i - 1 + 1 = i
    BY <1>1
  <2>2. st2[i-1+1] = st[i-1]
    BY <1>1, <2>1
  <2> QED
    BY <2>1, <2>2
<1>3. ASSUME NEW m \in t
      PROVE  \E c \in t \cup Open(st2) : \E k \in 1 .. Len(g[c]) : g[c][k] = m /\ Past(st2, c, k)
  <2>1. PICK c \in t \cup Open(st) : \E k \in 1 .. Len(g[c]) : g[c][k] = m /\ Past(st, c, k)
    BY <1>3 DEF Met
  <2>2. PICK k \in 1 .. Len(g[c]) : g[c][k] = m /\ Past(st, c, k)
    BY <2>1
  <2>3. c # f.mod
    BY <2>1
  <2>4. Past(st2, c, k)
    BY <1>1, <1>2, <2>2, <2>3 DEF Past
  <2>5. c \in t \cup Open(st2)
    <3>1. CASE c \in t
      BY <3>1
    <3>2. CASE c \in Open(st)
      <4>1. PICK i \in 1 .. Len(st) : st[i].mod = c
        BY <3>2 DEF Open
      <4>2. i + 1 \in 1 .. Len(st2) /\ st2[i+1].mod = c
        BY <1>1, <4>1
      <4> QED
        BY <4>2 DEF Open
    <3> QED
      BY <2>1, <3>1, <3>2
  <2> QED
    BY <2>2, <2>4, <2>5
<1>4. ASSUME NEW i \in 1 .. Len(st2), NEW k \in 1 .. st2[i].next - 1,
             NEW x \in Below(g, g[st2[i].mod][k])
      PROVE  s[x] <= st2[i].sourceTime
  <2>1. i # 1
    BY <1>1
  <2>2. i - 1 \in 1 .. Len(st) /\ st2[i] = st[i-1]
    BY <1>2, <2>1
  <2>3. k \in 1 .. st[i-1].next - 1 /\ x \in Below(g, g[st[i-1].mod][k])
    BY <2>2
  <2> QED
    BY <2>2, <2>3 DEF Covers
<1> QED
  BY <1>3, <1>4 DEF Met, Covers

LEMMA ClosingMet ==
  ASSUME NEW g \in Graphs, NEW t, NEW st \in Seq(Files), NEW st2, Met(st, g, t),
         Closing(st2, st), Nested(st, g, t)
  PROVE  Met(st2, g, t \cup {st[1].mod})
<1>1. /\ 1 \in 1 .. Len(st2) /\ 1 \in 1 .. Len(st) /\ 2 \in 1 .. Len(st)
      /\ st2[1].mod = st[2].mod /\ st2[1].next = st[2].next + 1
      /\ \A i \in 1 .. Len(st2) :
           i + 1 \in 1 .. Len(st) /\ st2[i].mod = st[i+1].mod /\ (i # 1 => st2[i] = st[i+1])
      /\ \A i \in 1 .. Len(st) : i = 1 \/ (i > 1 /\ i - 1 \in 1 .. Len(st2) /\ i - 1 + 1 = i)
  BY ClosingParts
<1>2. st[2].next \in 1 .. Len(g[st[2].mod]) /\ g[st[2].mod][st[2].next] = st[1].mod
      /\ st[2].next \in Nat
  <2>1. /\ st[2].next \in 1 .. Len(g[st[2].mod]) /\ g[st[2].mod][st[2].next] = st[2-1].mod
        /\ st[2].next \in Nat \ {0}
    BY <1>1, NestedParts
  <2> QED
    BY <2>1
<1>3. st[2].mod \in Open(st2)
  BY <1>1 DEF Open
<1>4. ASSUME NEW m \in t
      PROVE  \E c \in t \cup {st[1].mod} \cup Open(st2) :
               \E k \in 1 .. Len(g[c]) : g[c][k] = m /\ Past(st2, c, k)
  <2>1. PICK c \in t \cup Open(st) : \E k \in 1 .. Len(g[c]) : g[c][k] = m /\ Past(st, c, k)
    BY <1>4 DEF Met
  <2>2. PICK k \in 1 .. Len(g[c]) : g[c][k] = m /\ Past(st, c, k)
    BY <2>1
  <2>3. ASSUME NEW i \in 1 .. Len(st2), st2[i].mod = c PROVE k < st2[i].next
    <3>1. i + 1 \in 1 .. Len(st) /\ st[i+1].mod = c
      BY <1>1, <2>3
    <3>2. k < st[i+1].next
      BY <2>2, <3>1 DEF Past
    <3>3. CASE i = 1
      <4>1. i + 1 = 2
        BY <3>3
      <4>2. k < st[2].next /\ k \in Int
        BY <3>2, <4>1
      <4> QED
        BY <1>1, <1>2, <3>3, <4>2
    <3>4. CASE i # 1
      BY <1>1, <3>2, <3>4
    <3> QED
      BY <3>3, <3>4
  <2>4. c \in t \cup {st[1].mod} \cup Open(st2)
    <3>1. CASE c \in t
      BY <3>1
    <3>2. CASE c \in Open(st)
      <4>1. PICK i \in 1 .. Len(st) : st[i].mod = c
        BY <3>2 DEF Open
      <4>2. CASE i = 1
        BY <4>1, <4>2
      <4>3. CASE i # 1
        <5>1. i - 1 \in 1 .. Len(st2) /\ st2[i-1].mod = st[i-1+1].mod /\ i - 1 + 1 = i
          BY <1>1, <4>3
        <5>2. st2[i-1].mod = c
          BY <4>1, <5>1
        <5> QED
          BY <5>1, <5>2 DEF Open
      <4> QED
        BY <4>2, <4>3
    <3> QED
      BY <2>1, <3>1, <3>2
  <2> QED
    BY <2>2, <2>3, <2>4 DEF Past
<1>5. Past(st2, st[2].mod, st[2].next)
  <2> SUFFICES ASSUME NEW i \in 1 .. Len(st2), st2[i].mod = st[2].mod PROVE st[2].next < st2[i].next
    BY DEF Past
  <2>1. i + 1 \in 1 .. Len(st) /\ st[i+1].mod = st[2].mod
    BY <1>1
  <2>2. i + 1 = 2
    BY <1>1, <2>1 DEF Nested
  <2>3. i = 1
    BY <2>2
  <2> QED
    BY <1>1, <1>2, <2>3
<1>6. \E c \in t \cup {st[1].mod} \cup Open(st2) :
        \E k \in 1 .. Len(g[c]) : g[c][k] = st[1].mod /\ Past(st2, c, k)
  BY <1>2, <1>3, <1>5
<1> QED
  BY <1>4, <1>6 DEF Met

LEMMA ClosingCovers ==
  ASSUME NEW g \in Graphs, NEW s \in [Modules -> Nat \ {0}], NEW t, NEW st \in Seq(Files),
         NEW st2, Covers(st, g, s), Closing(st2, st), Nested(st, g, t),
         \A x \in Below(g, st[1].mod) : s[x] <= st[2].sourceTime
  PROVE  Covers(st2, g, s)
<1>1. /\ 1 \in 1 .. Len(st) /\ 2 \in 1 .. Len(st)
      /\ st2[1].mod = st[2].mod /\ st2[1].next = st[2].next + 1
      /\ st2[1].sourceTime = st[2].sourceTime
      /\ \A i \in 1 .. Len(st2) : i + 1 \in 1 .. Len(st) /\ (i # 1 => st2[i] = st[i+1])
  BY ClosingParts
<1>2. g[st[2].mod][st[2].next] = st[1].mod /\ st[2].next \in Nat \ {0}
  <2>1. g[st[2].mod][st[2].next] = st[2-1].mod /\ st[2].next \in Nat \ {0}
    BY <1>1, NestedParts
  <2> QED
    BY <2>1
<1> SUFFICES ASSUME NEW i \in 1 .. Len(st2), NEW k \in 1 .. st2[i].next - 1,
                    NEW x \in Below(g, g[st2[i].mod][k])
             PROVE  s[x] <= st2[i].sourceTime
  BY DEF Covers
<1>3. CASE i # 1
  <2>1. i + 1 \in 1 .. Len(st) /\ st2[i] = st[i+1]
    BY <1>1, <1>3
  <2>2. k \in 1 .. st[i+1].next - 1 /\ x \in Below(g, g[st[i+1].mod][k])
    BY <2>1
  <2> QED
    BY <2>1, <2>2 DEF Covers
<1>4. CASE i = 1
  <2>1. k \in 1 .. st[2].next
    BY <1>1, <1>2, <1>4
  <2>2. x \in Below(g, g[st[2].mod][k])
    BY <1>1, <1>4
  <2>3. CASE k = st[2].next
    BY <1>1, <1>2, <1>4, <2>2, <2>3
  <2>4. CASE k # st[2].next
    <3>1. k \in 1 .. st[2].next - 1
      BY <1>2, <2>1, <2>4
    <3> QED
      BY <1>1, <1>4, <2>2, <3>1 DEF Covers
  <2> QED
    BY <2>3, <2>4
<1> QED
  BY <1>3, <1>4

(* In a tree no import is known before it is met. *)
LEMMA MetOnce ==
  ASSUME MakeTypes, Opened, IsTree(imports, NextFile), Met(stack, imports, tbl),
         tbl \subseteq Below(imports, NextFile), ImportKnown
  PROVE  FALSE
<1>1. /\ stack # << >> /\ Top.next <= Len(imports[Top.mod]) /\ Server \in tbl
      /\ Server = imports[Top.mod][Top.next]
  BY DEF ImportKnown, AtImport, Busy, Server
<1>2. /\ 1 \in 1 .. Len(stack) /\ Top.mod \in Modules /\ Top.next \in Nat \ {0}
      /\ imports \in Graphs
  BY <1>1, TopFacts DEF MakeTypes
<1>3. \A i \in 1 .. Len(stack) : stack[i].mod \in Below(imports, NextFile)
  BY <1>1, AllowsFiles DEF NextFile
<1>4. PICK c \in tbl \cup Open(stack) :
        \E k \in 1 .. Len(imports[c]) : imports[c][k] = Server /\ Past(stack, c, k)
  BY <1>1 DEF Met
<1>5. PICK k \in 1 .. Len(imports[c]) : imports[c][k] = Server /\ Past(stack, c, k)
  BY <1>4
<1>6. c \in Below(imports, NextFile) /\ Top.mod \in Below(imports, NextFile)
  BY <1>2, <1>3, <1>4 DEF Open, Top
<1>7. c \in Modules
  BY <1>6 DEF Below
<1>8. k \in DOMAIN imports[c] /\ Top.next \in DOMAIN imports[Top.mod]
  <2>1. DOMAIN imports[c] = 1 .. Len(imports[c])
    BY <1>2, <1>7, ImportOf
  <2>2. DOMAIN imports[Top.mod] = 1 .. Len(imports[Top.mod]) /\ Len(imports[Top.mod]) \in Nat
    BY <1>2, ImportOf
  <2>3. Top.next \in 1 .. Len(imports[Top.mod])
    BY <1>1, <1>2, <2>2
  <2> QED
    BY <1>5, <2>1, <2>2, <2>3
<1>9. c = Top.mod /\ k = Top.next
  BY <1>1, <1>5, <1>6, <1>8 DEF IsTree
<1>10. k < Top.next
  BY <1>2, <1>5, <1>9 DEF Past, Top
<1> QED
  BY <1>2, <1>9, <1>10

(* The time of a file that has been evaluated, in a tree. *)
LEMMA FileCovers ==
  ASSUME MakeTypes, Opened, stack # << >>, Top.next = Len(imports[Top.mod]) + 1,
         Covers(stack, imports, src), src[Top.mod] <= Top.sourceTime
  PROVE  \A x \in Below(imports, Top.mod) : src[x] <= Top.sourceTime
<1>1. 1 \in 1 .. Len(stack) /\ Top.mod \in Modules /\ imports \in Graphs
  BY TopFacts DEF MakeTypes
<1> SUFFICES ASSUME NEW x \in Below(imports, Top.mod), x # Top.mod PROVE src[x] <= Top.sourceTime
  OBVIOUS
<1>2. PICK y \in Uses(imports, Top.mod) : x \in Below(imports, y)
  BY <1>1, BelowFacts
<1>3. PICK k \in 1 .. Len(imports[Top.mod]) : imports[Top.mod][k] = y
  BY <1>1, ImportOf
<1>4. k \in 1 .. Top.next - 1
  <2>1. Len(imports[Top.mod]) \in Nat
    BY <1>1, ImportOf
  <2> QED
    BY <2>1
<1> QED
  BY <1>1, <1>2, <1>3, <1>4 DEF Covers, Top
LEMMA TreeKept ==
  OneProgram /\ MakeTypes /\ Opened /\ Clean /\ Dated /\ Alone /\ LinkInv /\ TimesInv /\ TreeInv
      /\ [MakeNext]_mkvars
    => TreeInv'
<1> SUFFICES ASSUME OneProgram, MakeTypes, Opened, Clean, Dated, Alone, LinkInv, TimesInv, TreeInv,
                    [MakeNext]_mkvars, job'.cmd = Make, stack' # << >>, linkable',
                    IsTree(imports', NextFile')
             PROVE  /\ Met(stack', imports', tbl') /\ Covers(stack', imports', src')
                    /\ ListDated(linklist', imports', src', obj')
  <2>1. /\ Met(stack, imports, tbl)' <=> Met(stack', imports', tbl')
        /\ Covers(stack, imports, src)' <=> Covers(stack', imports', src')
        /\ ListDated(linklist, imports, src, obj)'
             <=> ListDated(linklist', imports', src', obj')
        /\ IsTree(imports, NextFile)' <=> IsTree(imports', NextFile')
    OBVIOUS
  <2> QED
    BY <2>1 DEF TreeInv
<1> USE DEF lists, disk
<1>1. /\ imports \in Graphs /\ stack \in Seq(Files) /\ job \in Jobs
      /\ src \in [Modules -> Nat \ {0}] /\ tbl \in SUBSET Modules
      /\ Nested(stack, imports, tbl)
  BY DEF MakeTypes, Opened
<1> DEFINE Before == /\ Met(stack, imports, tbl) /\ Covers(stack, imports, src)
                     /\ ListDated(linklist, imports, src, obj)
<1>2. ASSUME stack # << >>, linkable' = linkable, job' = job, imports' = imports
      PROVE  /\ Before /\ code = 0 /\ IsTree(imports, NextFile)
             /\ Times(stack, tbl, src, youngest) /\ tbl \subseteq Below(imports, NextFile)
  <2>1. NextFile' = NextFile
    BY <1>2 DEF NextFile
  <2>2. IsTree(imports, NextFile)
    BY <1>2, <2>1
  <2> QED
    BY <1>2, <2>2 DEF TreeInv, TimesInv, LinkInv, Linkage
<1> HIDE DEF Before
<1>3. CASE FileMissing \/ ParseFails \/ Rejected \/ ImportFails \/ LinkFails
  BY <1>3 DEF FileMissing, ParseFails, Rejected, ImportFails, LinkFails, ErrorOccurred
<1>4. CASE Link \/ DontLink \/ Exit
  BY <1>4 DEF Link, DontLink, CloseMain, Exit
<1>5. CASE OpenMain
  <2>1. /\ AtFile /\ stack' = <<Frame(NextFile)>> /\ UNCHANGED <<imports, src, job, tbl, code>>
        /\ linklist' = << >>
    BY <1>5 DEF OpenMain
  <2>2. job.state = "busy" /\ stack = << >> /\ job.next \in 1 .. Len(job.files)
    BY <2>1, Begins DEF AtFile
  <2>3. tbl' = {}
    <3>1. job.next = 1
      <4>1. Len(job.files) = 1
        BY <2>1, <2>2 DEF Alone
      <4> QED
        BY <2>2, <4>1
    <3> QED
      BY <2>1, <2>2, <3>1 DEF Alone
  <2>4. Len(stack') = 1 /\ stack'[1] = Frame(NextFile)
    BY <2>1
  <2>5. \A i \in 1 .. Len(stack') : stack'[i].next = 1
    BY <2>4 DEF Frame
  <2>6. Members(linklist') = {}
    BY <2>1 DEF Members
  <2>7. Covers(stack', imports', src')
    <3>1. \A i \in 1 .. Len(stack') : 1 .. stack'[i].next - 1 = {}
      BY <2>5
    <3> QED
      BY <3>1 DEF Covers
  <2> QED
    BY <2>3, <2>6, <2>7 DEF Met, ListDated
<1>6. CASE Parse
  <2> DEFINE t == [Top EXCEPT !.state = "imports"]
  <2>1. /\ stack # << >> /\ UNCHANGED <<imports, src, obj, job, tbl, lists>> /\ linkable' = linkable
        /\ Top.state = "parse" /\ Len(stack) # 0
    BY <1>6, FileFacts DEF Parse, Busy
  <2>2. t.state = "imports" /\ t.next = Top.next
    BY <2>1, TopFacts DEF Files
  <2>3. Turned(t)
    BY <1>6, Turns
  <2> HIDE DEF t
  <2>4. Refiled(stack', stack) /\ stack'[1].state = "imports" /\ stack'[1].next = stack[1].next
        /\ stack[1].state = "parse"
    BY <2>1, <2>2, <2>3 DEF Turned, Top
  <2>5. Before
    BY <1>2, <2>1
  <2>6. Met(stack', imports, tbl) /\ Covers(stack', imports, src)
    BY <1>1, <2>1, <2>4, <2>5, RefiledTree DEF Before
  <2> QED
    BY <2>1, <2>5, <2>6 DEF Before
<1>7. CASE ImportKnown
  <2>1. stack # << >> /\ linkable' = linkable /\ UNCHANGED <<job, imports>>
    BY <1>7 DEF ImportKnown, AtImport, Busy
  <2>2. IsTree(imports, NextFile) /\ Met(stack, imports, tbl) /\ tbl \subseteq Below(imports, NextFile)
    BY <1>2, <2>1 DEF Before
  <2> QED
    BY <1>7, <2>2, MetOnce
<1>8. CASE ImportOpens
  <2>1. UNCHANGED <<imports, src, obj, job, tbl, lists>> /\ linkable' = linkable
    BY <1>8 DEF ImportOpens
  <2>2. /\ Opening(stack', Frame(Server), stack) /\ stack # << >> /\ Frame(Server) \in Files
        /\ Server \notin tbl /\ \A i \in 1 .. Len(stack) : stack[i].mod # Server
    BY <1>8, Opens
  <2>3. Frame(Server).state = "parse" /\ Frame(Server).mod = Server /\ Frame(Server).next = 1
    BY DEF Frame
  <2>4. Before
    BY <1>2, <2>1, <2>2
  <2>5. Server \notin tbl \cup Open(stack)
    BY <2>2 DEF Open
  <2>6. Met(stack', imports, tbl) /\ Covers(stack', imports, src)
    BY <1>1, <2>2, <2>3, <2>4, <2>5, OpeningTree DEF Before
  <2> QED
    BY <2>1, <2>4, <2>6 DEF Before
<1>9. CASE CloseServer
  <2>1. UNCHANGED <<imports, src, obj, job, lists>> /\ linkable' = linkable
    BY <1>9 DEF CloseServer
  <2>2. /\ Closing(stack', stack) /\ tbl' = tbl \cup {stack[1].mod} /\ stack # << >>
        /\ Top.state = "closed" /\ job.state = "busy"
    BY <1>9, Closes
  <2>3. Before /\ code = 0 /\ Times(stack, tbl, src, youngest)
    BY <1>2, <2>1, <2>2
  <2>4. 1 \in 1 .. Len(stack) /\ 2 \in 1 .. Len(stack) /\ Len(stack) > 1
    BY <1>1, <2>2, ClosingParts
  <2>5. Top.next = Len(imports[Top.mod]) + 1
    <3>1. Going(Top, imports, defect, tbl)
      BY <2>2, <2>3, <2>4 DEF Clean, AllGoing, Top
    <3> QED
      BY <2>2, <3>1 DEF Going
  <2>6. src[Top.mod] <= Top.sourceTime /\ Top.sourceTime <= stack[2].sourceTime
    BY <2>2, <2>3, <2>4 DEF Times, Top
  <2>7. \A x \in Below(imports, Top.mod) : src[x] <= Top.sourceTime
    BY <2>2, <2>3, <2>5, <2>6, FileCovers DEF Before
  <2>8. ASSUME NEW x \in Below(imports, stack[1].mod) PROVE src[x] <= stack[2].sourceTime
    <3>1. x \in Modules /\ src[x] <= Top.sourceTime
      BY <2>7, <2>8 DEF Top, Below
    <3>2. src[x] \in Nat /\ stack[1].sourceTime \in Nat /\ stack[2].sourceTime \in Nat
      BY <1>1, <2>4, <3>1, FileParts
    <3> QED
      BY <2>6, <3>1, <3>2 DEF Top
  <2>9. Met(stack', imports, tbl')
    BY <1>1, <2>2, <2>3, ClosingMet DEF Before
  <2>10. Covers(stack', imports, src)
    BY <1>1, <2>2, <2>3, <2>8, ClosingCovers DEF Before
  <2> QED
    BY <2>1, <2>3, <2>9, <2>10 DEF Before
<1>10. ASSUME NEW b, Accepted(b), linkable' = linkable
       PROVE  /\ Met(stack', imports', tbl') /\ Covers(stack', imports', src')
              /\ ListDated(linklist, imports, src, obj) /\ UNCHANGED <<imports, src, tbl>>
              /\ Top.mod \in Modules
              /\ \A x \in Below(imports, Top.mod) : src[x] <= Top.sourceTime
  <2>1. /\ stack # << >> /\ UNCHANGED <<imports, src, job, tbl>>
        /\ Top.next > Len(imports[Top.mod])
    BY <1>10 DEF Accepted, Evaluated, Busy
  <2>2. Before /\ Times(stack, tbl, src, youngest)
    BY <1>2, <1>10, <2>1
  <2>3. Refiled(stack', stack) /\ stack'[1] = Compiled /\ Len(stack) # 0
    BY <1>10, AcceptedTurns DEF Turned
  <2>4. /\ Compiled.next = Top.next /\ Compiled.state \in {"closed", "link"}
        /\ 1 \in 1 .. Len(stack) /\ Top.mod \in Modules /\ Top.next \in Nat
    BY <2>1, TopFacts
  <2>5. Met(stack', imports, tbl) /\ Covers(stack', imports, src)
    BY <1>1, <2>2, <2>3, <2>4, RefiledTree DEF Before, Top
  <2>7. src[Top.mod] <= Top.sourceTime
    BY <2>2, <2>4 DEF Times, Top
  <2>8. Top.next = Len(imports[Top.mod]) + 1
    <3>1. Top.next <= Len(imports[Top.mod]) + 1 /\ Len(imports[Top.mod]) \in Nat
      BY <1>1, <2>4, NestedParts DEF Top
    <3> QED
      BY <2>1, <2>4, <3>1
  <2>9. \A x \in Below(imports, Top.mod) : src[x] <= Top.sourceTime
    BY <2>1, <2>2, <2>7, <2>8, FileCovers DEF Before
  <2> QED
    BY <2>1, <2>2, <2>4, <2>5, <2>9 DEF Before
<1>11. CASE Reused \/ Assembled
  <2>1. PICK b \in BOOLEAN : Accepted(b) /\ linkable' = linkable
    BY <1>11 DEF Reused, Assembled
  <2>2. \A x \in Below(imports, Top.mod) : src[x] <= obj'[Top.mod].time
    BY <1>10, <1>11, <2>1, FreshObject
  <2>3. \A m \in Modules : m # Top.mod => obj'[m] = obj[m]
    BY <1>11, Assembles DEF Reused
  <2>4. ListDated(linklist', imports', src', obj')
    <3>1. /\ ListDated(linklist, imports, src, obj) /\ UNCHANGED <<imports, src, tbl>>
          /\ Top.mod \in Modules /\ linklist \in Seq(Modules)
      BY <1>10, <2>1 DEF MakeTypes
    <3>2. Members(linklist') = Members(linklist) \cup {Top.mod} /\ Members(linklist) \subseteq Modules
      <4>1. linklist' = Append(linklist, Top.mod)
        BY <1>11 DEF Reused, Assembled, AddToLinklist
      <4> QED
        BY <3>1, <4>1, MembersAppend, ElementOfSeq DEF Members
    <3>3. ASSUME NEW m \in Members(linklist'), NEW x \in Below(imports, m)
          PROVE  src[x] <= obj'[m].time
      <4>1. CASE m = Top.mod
        BY <2>2, <3>3, <4>1
      <4>2. CASE m # Top.mod
        BY <2>3, <3>1, <3>2, <3>3, <4>2 DEF ListDated
      <4> QED
        BY <4>1, <4>2
    <3> QED
      BY <3>1, <3>3 DEF ListDated
  <2> QED
    BY <1>10, <2>1, <2>4
<1>12. CASE ForeignModule
  <2>1. Accepted(FALSE) /\ linkable' = linkable /\ obj' = obj /\ linklist' = linklist
    BY <1>12 DEF ForeignModule
  <2> QED
    BY <1>10, <2>1
<1>13. CASE NotAssembled \/ AssemblyFails
  BY <1>13 DEF NotAssembled, AssemblyFails, ErrorOccurred
<1>14. ASSUME NEW m \in Modules, NEW d \in Defects, Edit(m, d) PROVE FALSE
  <2>1. job.state = "idle" /\ stack' = stack
    BY <1>14 DEF Edit
  <2> QED
    BY <2>1 DEF Opened
<1>15. ASSUME NEW l \in CommandLines, NEW force \in IgnoreTimeStamps, NEW fails \in ToolsFail,
              Run(l[1], force, l[2], fails)
       PROVE  FALSE
  <2>1. job.state = "idle" /\ stack' = stack
    BY <1>15 DEF Run
  <2> QED
    BY <2>1 DEF Opened
<1>16. ASSUME NEW m \in Foreign, Provide(m) PROVE FALSE
  BY <1>16 DEF Provide, Opened
<1>17. CASE UNCHANGED mkvars
  BY <1>2, <1>17 DEF mkvars, Before
<1> QED
  BY <1>17, <1>3, <1>4, <1>5, <1>6, <1>7, <1>8, <1>9, <1>11, <1>12, <1>13, <1>14, <1>15,
     <1>16, Steps, Zenon

LEMMA TimesOfAll ==
  ASSUME OneProgram
  PROVE  MakeSpec => [](MakeTypes /\ Opened /\ Clean /\ Dated /\ Alone /\ LinkInv /\ TimesInv /\ TreeInv)
<1>1. MakeInit => TimesInv /\ TreeInv
  <2>1. MakeInit => stack = << >>
    BY DEF MakeInit
  <2> QED
    BY <2>1 DEF TimesInv, TreeInv
<1>2. MakeTypes /\ Opened /\ Clean /\ Dated /\ Alone /\ LinkInv /\ TimesInv /\ TreeInv
        /\ [MakeNext]_mkvars => (TimesInv /\ TreeInv)'
  BY TimesKept, TreeKept
<1>3. MakeSpec => [](MakeTypes /\ Opened /\ Clean /\ Dated /\ Alone /\ LinkInv)
  BY LinkageInv
<1> QED
  BY <1>1, <1>2, <1>3, PTL DEF MakeSpec

(* What a program is linked from: an object as young as all it was made    *)
(* from was made from the present sources.                                 *)
LEMMA FreshText ==
  ASSUME MakeTypes, Dated, NEW m \in Modules,
         \A x \in Below(imports, m) : src[x] <= obj[m].time
  PROVE  obj[m].text = [x \in Below(imports, m) |-> src[x]]
<1>1. m \in Below(imports, m) /\ src[m] \in Nat \ {0}
  BY BelowFacts DEF MakeTypes
<1>2. obj[m].time # 0
  BY <1>1
<1>3. MadeFrom(obj[m], Below(imports, m), src)
  BY <1>2 DEF Dated, ObjectsDated, NoFile
<1> QED
  BY <1>3 DEF MadeFrom

(* A program is linked from fresh objects: its main module always, every   *)
(* module if the imports form a tree.                                      *)
THEOREM LinksFresh == ASSUME OneProgram PROVE MakeSpec => []LinkedFresh
<1>1. MakeTypes /\ Opened /\ Clean /\ Dated /\ Alone /\ LinkInv /\ TimesInv /\ TreeInv => LinkedFresh
  <2> SUFFICES ASSUME MakeTypes, Opened, Clean, Dated, Alone, LinkInv, TimesInv, TreeInv, Linking,
                      NEW i \in DOMAIN linklist, linklist[i] = Top.mod \/ TreeBelow(Top.mod)
               PROVE  obj[linklist[i]].text = Text(linklist[i])
    BY DEF LinkedFresh
  <2>1. /\ stack # << >> /\ Top.state = "link" /\ job.cmd = Make /\ linkable
        /\ linklist \in Seq(Modules) /\ i \in 1 .. Len(linklist) /\ imports \in Graphs
    BY LinksWhat DEF Busy, MakeTypes
  <2>2. /\ Top.mod = NextFile /\ Top.mod \in Modules
    BY LinksWhat, AtLink
  <2>3. linklist[i] \in Members(linklist) /\ linklist[i] \in Modules
    BY <2>1, ElementOfSeq DEF Members
  <2>4. \A x \in Below(imports, linklist[i]) : src[x] <= obj[linklist[i]].time
    <3>1. CASE linklist[i] = Top.mod
      BY <2>1, <3>1 DEF TimesInv, MainDated, Top
    <3>2. CASE TreeBelow(Top.mod)
      <4>1. IsTree(imports, NextFile)
        BY <2>1, <2>2, <3>2, Names
      <4>2. ListDated(linklist, imports, src, obj)
        BY <2>1, <4>1 DEF TreeInv
      <4> QED
        BY <2>3, <4>2 DEF ListDated
    <3> QED
      BY <3>1, <3>2
  <2>5. obj[linklist[i]].text = [x \in Below(imports, linklist[i]) |-> src[x]]
    BY <2>3, <2>4, FreshText
  <2> QED
    BY <2>5, Names DEF Text
<1> QED
  BY <1>1, TimesOfAll, PTL
-----------------------------------------------------------------------------
(* The programs.                                                           *)
(* As long as nothing is wrong and the tools succeed the program may be    *)
(* linked, unless its main module is written in another language.          *)
StaysLinkable ==
  job.cmd = Make /\ stack # << >> /\ code = 0 /\ ~job.fails => linkable \/ NextFile \in Foreign

(* The text of a program: it has the parts it needs and perhaps foreign    *)
(* modules, and in each of them is the present source of each module that  *)
(* is not younger than the program.                                        *)
ExeMadeFrom(e, g, m, s) ==
  /\ e.time \in Nat \ {0}
  /\ IsTree(g, m) =>
       /\ Below(g, m) \ Foreign \subseteq DOMAIN e.text
       /\ DOMAIN e.text \subseteq Below(g, m)
       /\ \A p \in DOMAIN e.text :
            /\ e.text[p] = [x \in Below(g, p) |-> e.text[p][x]]
            /\ \A x \in Below(g, p) : s[x] <= e.time => e.text[p][x] = s[x]

ExesDated(e, g, s, c) ==
  /\ e = [m \in Modules |-> e[m]]
  /\ \A m \in Modules : e[m] = NoFile \/ (e[m].time <= c /\ ExeMadeFrom(e[m], g, m, s))

AllBefore(g, m, s, time) == \A x \in Below(g, m) : s[x] <= time

LinkedNow ==
  job.state = "busy" /\ job.cmd = Make /\ code = 0 /\ ~job.fails /\ job.next = 2 =>
    \/ job.files[1] \in Foreign
    \/ AllBefore(imports, job.files[1], src, exe[job.files[1]].time)

LEMMA StaysLinkableKept ==
  MakeTypes /\ Opened /\ StaysLinkable /\ [MakeNext]_mkvars => StaysLinkable'
<1> SUFFICES ASSUME MakeTypes, Opened, StaysLinkable, [MakeNext]_mkvars,
                    job'.cmd = Make, stack' # << >>, code' = 0, ~job'.fails
             PROVE  linkable' \/ NextFile' \in Foreign
  BY DEF StaysLinkable
<1> USE DEF lists, disk
<1>1. job.cmd \in NoCodeGeneration .. Make /\ stack \in Seq(Files)
  BY DEF MakeTypes, Jobs
<1>2. ASSUME job' = job, stack # << >>, code' = code, linkable' = linkable
      PROVE  linkable' \/ NextFile' \in Foreign
  BY <1>2 DEF StaysLinkable, NextFile
<1>3. CASE FileMissing \/ ParseFails \/ Rejected \/ ImportFails \/ LinkFails
  BY <1>3 DEF FileMissing, ParseFails, Rejected, ImportFails, LinkFails, ErrorOccurred
<1>4. CASE Link \/ DontLink \/ Exit
  BY <1>4 DEF Link, DontLink, CloseMain, Exit
<1>5. CASE OpenMain
  BY <1>5 DEF OpenMain
<1>6. CASE Parse \/ ImportKnown \/ ImportOpens \/ CloseServer
  <2>1. job' = job /\ stack # << >> /\ code' = code /\ linkable' = linkable
    BY <1>6 DEF Parse, ImportKnown, ImportOpens, CloseServer, AtImport, Busy
  <2> QED
    BY <1>2, <2>1
<1>7. CASE Reused \/ Assembled
  <2>1. job' = job /\ stack # << >> /\ code' = code /\ linkable' = linkable
    BY <1>7 DEF Reused, Assembled, Accepted, Evaluated, Busy
  <2> QED
    BY <1>2, <2>1
<1>8. CASE ForeignModule
  <2>1. job' = job /\ stack # << >> /\ code' = code /\ Top.mod \in Foreign
    BY <1>8 DEF ForeignModule, Accepted, Evaluated, Busy
  <2>2. CASE IsMain
    <3>1. Top.mod = NextFile
      BY <2>1, <2>2 DEF IsMain, Opened, Top
    <3> QED
      BY <2>1, <3>1 DEF NextFile
  <2>3. CASE ~IsMain
    <3>1. linkable' = linkable
      BY <1>8, <2>3 DEF ForeignModule
    <3> QED
      BY <1>2, <2>1, <3>1
  <2> QED
    BY <2>2, <2>3
<1>9. CASE NotAssembled
  <2>1. job' = job /\ job.cmd <= DontAssemble
    BY <1>9 DEF NotAssembled, Accepted
  <2> QED
    BY <2>1 DEF DontAssemble, Make
<1>10. CASE AssemblyFails
  BY <1>10 DEF AssemblyFails, Accepted
<1>11. ASSUME NEW m \in Modules, NEW d \in Defects, Edit(m, d) PROVE FALSE
  <2>1. job.state = "idle" /\ stack' = stack
    BY <1>11 DEF Edit
  <2> QED
    BY <2>1 DEF Opened
<1>12. ASSUME NEW l \in CommandLines, NEW force \in IgnoreTimeStamps, NEW fails \in ToolsFail,
              Run(l[1], force, l[2], fails)
       PROVE  FALSE
  <2>1. job.state = "idle" /\ stack' = stack
    BY <1>12 DEF Run
  <2> QED
    BY <2>1 DEF Opened
<1>13. CASE (\E m \in Foreign : Provide(m)) \/ UNCHANGED mkvars
  BY <1>2, <1>13 DEF Provide, mkvars
<1> QED
  BY <1>3, <1>4, <1>5, <1>6, <1>7, <1>8, <1>9, <1>10, <1>11, <1>12, <1>13, Steps, Zenon

(* What Link writes. *)
LEMMA Links ==
  ASSUME MakeTypes, Opened, Clean, Dated, Alone, LinkInv, TimesInv, TreeInv, Link
  PROVE  /\ NextFile \in Modules /\ Top.mod = NextFile /\ Linking
         /\ exe = [m \in Modules |-> exe[m]] =>
              /\ exe' = [m \in Modules |-> exe'[m]]
              /\ \A m \in Modules : m # NextFile => exe'[m] = exe[m]
              /\ exe'[NextFile].time = clock
              /\ ExeMadeFrom(exe'[NextFile], imports, NextFile, src)
<1>1. Linking /\ exe' = [exe EXCEPT ![Top.mod] =
        [time |-> clock, text |-> [m \in {linklist[i] : i \in DOMAIN linklist} |-> obj[m].text]]]
  BY DEF Link, Linking
<1>2. /\ Top.mod = NextFile /\ Top.mod \in Modules
      /\ Members(linklist) \cup libs = Below(imports, NextFile) /\ libs \subseteq Foreign
  BY <1>1, LinksWhat, AtLink
<1> DEFINE parts == Members(linklist)
           e == [time |-> clock, text |-> [m \in parts |-> obj[m].text]]
<1>3. {linklist[i] : i \in DOMAIN linklist} = parts
  BY <1>1, LinksWhat DEF Listed
<1>4. exe' = [exe EXCEPT ![NextFile] = e]
  BY <1>1, <1>2, <1>3
<1>5. clock \in Nat \ {0} /\ imports \in Graphs
  BY DEF MakeTypes
<1>6. ASSUME IsTree(imports, NextFile), NEW p \in parts
      PROVE  e.text[p] = [x \in Below(imports, p) |-> src[x]]
  <2>1. job.cmd = Make /\ linkable /\ stack # << >>
    BY <1>1, LinksWhat DEF Busy
  <2>2. ListDated(linklist, imports, src, obj)
    BY <1>6, <2>1 DEF TreeInv
  <2>3. p \in Modules /\ \A x \in Below(imports, p) : src[x] <= obj[p].time
    BY <1>2, <1>6, <2>2 DEF ListDated, Below
  <2> QED
    BY <1>6, <2>3, FreshText
<1>7. DOMAIN e.text = parts /\ e.time = clock
  OBVIOUS
<1> HIDE DEF e
<1>8. ExeMadeFrom(e, imports, NextFile, src)
  <2>1. ASSUME IsTree(imports, NextFile), NEW p \in parts
        PROVE  /\ e.text[p] = [x \in Below(imports, p) |-> e.text[p][x]]
               /\ \A x \in Below(imports, p) : e.text[p][x] = src[x]
    BY <1>6, <2>1
  <2>2. Below(imports, NextFile) \ Foreign \subseteq parts /\ parts \subseteq Below(imports, NextFile)
    BY <1>2
  <2> HIDE DEF parts
  <2> QED
    BY <1>5, <1>7, <2>1, <2>2 DEF ExeMadeFrom
<1> QED
  BY <1>1, <1>2, <1>4, <1>7, <1>8
LEMMA ExesKept ==
  MakeTypes /\ Opened /\ Clean /\ Dated /\ Alone /\ LinkInv /\ TimesInv /\ TreeInv
      /\ ExesDated(exe, imports, src, clock) /\ [MakeNext]_mkvars
    => ExesDated(exe, imports, src, clock)'
<1> SUFFICES ASSUME MakeTypes, Opened, Clean, Dated, Alone, LinkInv, TimesInv, TreeInv,
                    ExesDated(exe, imports, src, clock), [MakeNext]_mkvars
             PROVE  ExesDated(exe', imports', src', clock')
  <2>1. ExesDated(exe, imports, src, clock)' <=> ExesDated(exe', imports', src', clock')
    OBVIOUS
  <2> QED
    BY <2>1
<1> USE DEF lists, disk
<1>1. /\ exe = [m \in Modules |-> exe[m]] /\ clock \in Nat \ {0} /\ imports \in Graphs
      /\ \A m \in Modules : exe[m] = NoFile \/ (exe[m].time <= clock /\ ExeMadeFrom(exe[m], imports, m, src))
      /\ src \in [Modules -> Nat \ {0}]
  BY DEF ExesDated, MakeTypes
<1>2. CASE UNCHANGED <<exe, imports, src, clock>>
  BY <1>2
<1>3. CASE Link
  <2>1. /\ NextFile \in Modules /\ exe' = [m \in Modules |-> exe'[m]]
        /\ \A m \in Modules : m # NextFile => exe'[m] = exe[m]
        /\ exe'[NextFile].time = clock /\ ExeMadeFrom(exe'[NextFile], imports, NextFile, src)
    BY <1>1, <1>3, Links
  <2>2. UNCHANGED <<clock, imports, src>>
    BY <1>3 DEF Link, CloseMain
  <2>3. clock <= clock
    BY <1>1
  <2>4. ASSUME NEW m \in Modules
        PROVE  exe'[m] = NoFile \/ (exe'[m].time <= clock /\ ExeMadeFrom(exe'[m], imports, m, src))
    <3>1. CASE m = NextFile
      BY <2>1, <2>3, <3>1
    <3>2. CASE m # NextFile
      BY <1>1, <2>1, <3>2
    <3> QED
      BY <3>1, <3>2
  <2> QED
    BY <2>1, <2>2, <2>4 DEF ExesDated
<1>4. CASE LinkFails
  <2>1. /\ UNCHANGED <<clock, imports, src>>
        /\ exe' = exe \/ exe' = [exe EXCEPT ![Top.mod] = NoFile]
    BY <1>4 DEF LinkFails, CloseMain
  <2>2. exe' = [m \in Modules |-> exe'[m]] /\ \A m \in Modules : exe'[m] = exe[m] \/ exe'[m] = NoFile
    BY <1>1, <2>1
  <2>3. \A m \in Modules :
          exe'[m] = NoFile \/ (exe'[m].time <= clock /\ ExeMadeFrom(exe'[m], imports, m, src))
    BY <1>1, <2>2
  <2> QED
    BY <2>1, <2>2, <2>3 DEF ExesDated
<1>5. ASSUME NEW m \in Modules, NEW d \in Defects, Edit(m, d)
      PROVE  ExesDated(exe', imports', src', clock')
  <2>1. clock' = clock + 1 /\ src' = [src EXCEPT ![m] = clock + 1] /\ UNCHANGED <<imports, exe>>
    BY <1>5 DEF Edit
  <2>2. ASSUME NEW x \in Modules, NEW time \in Nat, time <= clock, src'[x] <= time
        PROVE  src'[x] = src[x] /\ src[x] <= time
    <3>1. x # m
      BY <1>1, <2>1, <2>2
    <3> QED
      BY <1>1, <2>1, <2>2, <3>1
  <2>3. ASSUME NEW y \in Modules, exe[y].time <= clock, ExeMadeFrom(exe[y], imports, y, src)
        PROVE  exe[y].time <= clock' /\ ExeMadeFrom(exe[y], imports, y, src')
    <3>1. exe[y].time \in Nat \ {0}
      BY <2>3 DEF ExeMadeFrom
    <3>2. exe[y].time <= clock'
      BY <1>1, <2>1, <2>3, <3>1
    <3>3. ASSUME IsTree(imports, y), NEW p \in DOMAIN exe[y].text, NEW x \in Below(imports, p),
                 src'[x] <= exe[y].time
          PROVE  exe[y].text[p][x] = src'[x]
      <4>1. x \in Modules
        BY DEF Below
      <4>2. src'[x] = src[x] /\ src[x] <= exe[y].time
        BY <2>2, <2>3, <3>1, <3>3, <4>1
      <4> QED
        BY <2>3, <3>3, <4>2 DEF ExeMadeFrom
    <3> QED
      BY <2>3, <3>1, <3>2, <3>3 DEF ExeMadeFrom
  <2> QED
    BY <1>1, <2>1, <2>3 DEF ExesDated
<1>6. CASE FileMissing \/ OpenMain \/ ParseFails \/ Parse \/ ImportKnown \/ ImportFails
           \/ ImportOpens \/ Rejected \/ CloseServer \/ DontLink \/ Exit
  <2>1. UNCHANGED <<exe, imports, src, clock>>
    BY <1>6 DEF FileMissing, OpenMain, ParseFails, Parse, ImportKnown, ImportFails, ImportOpens,
                Rejected, CloseServer, DontLink, CloseMain, Exit
  <2> QED
    BY <1>2, <2>1
<1>7. CASE Reused \/ ForeignModule \/ NotAssembled \/ Assembled \/ AssemblyFails
  <2>1. UNCHANGED <<exe, imports, src, clock>>
    BY <1>7 DEF Reused, ForeignModule, NotAssembled, Assembled, AssemblyFails, Accepted
  <2> QED
    BY <1>2, <2>1
<1>8. ASSUME NEW l \in CommandLines, NEW force \in IgnoreTimeStamps, NEW fails \in ToolsFail,
             Run(l[1], force, l[2], fails)
      PROVE  ExesDated(exe', imports', src', clock')
  <2>1. UNCHANGED <<exe, imports, src, clock>>
    BY <1>8 DEF Run
  <2> QED
    BY <1>2, <2>1
<1>9. CASE (\E m \in Foreign : Provide(m)) \/ UNCHANGED mkvars
  BY <1>2, <1>9 DEF Provide, mkvars
<1> QED
  BY <1>3, <1>4, <1>5, <1>6, <1>7, <1>8, <1>9, Steps, Zenon

LEMMA LinkedNowKept ==
  MakeTypes /\ Opened /\ Clean /\ Dated /\ Alone /\ LinkInv /\ TimesInv /\ TreeInv
      /\ StaysLinkable /\ ExesDated(exe, imports, src, clock) /\ LinkedNow /\ [MakeNext]_mkvars
    => LinkedNow'
<1> SUFFICES ASSUME MakeTypes, Opened, Clean, Dated, Alone, LinkInv, TimesInv, TreeInv,
                    StaysLinkable, ExesDated(exe, imports, src, clock), LinkedNow, [MakeNext]_mkvars,
                    job'.state = "busy", job'.cmd = Make, code' = 0, ~job'.fails, job'.next = 2
             PROVE  \/ job'.files[1] \in Foreign
                    \/ AllBefore(imports', job'.files[1], src', exe'[job'.files[1]].time)
  <2>1. AllBefore(imports, job.files[1], src, exe[job.files[1]].time)'
          <=> AllBefore(imports', job'.files[1], src', exe'[job'.files[1]].time)
    OBVIOUS
  <2> QED
    BY <2>1 DEF LinkedNow
<1> USE DEF lists, disk
<1>1. /\ job \in Jobs /\ job.next \in Nat \ {0} /\ imports \in Graphs /\ clock \in Nat
      /\ src \in [Modules -> Nat \ {0}] /\ \A m \in Modules : src[m] <= clock
      /\ youngest \in Nat /\ \A m \in Modules : exe[m].time \in Nat
  <2>1. \A m \in Modules : exe[m].time \in Nat
    <3>1. \A m \in Modules : exe[m] = NoFile \/ exe[m].time \in Nat \ {0}
      BY DEF ExesDated, ExeMadeFrom
    <3> QED
      BY <3>1 DEF NoFile
  <2> QED
    BY <2>1 DEF MakeTypes, Jobs
<1>2. ASSUME job' = job, stack # << >> \/ AtFile PROVE FALSE
  <2>1. job.next <= Len(job.files)
    BY <1>2 DEF Opened, AtFile
  <2>2. Len(job.files) = 1
    BY <1>2 DEF Alone
  <2> QED
    BY <1>2, <2>1, <2>2
<1>3. ASSUME job' = [job EXCEPT !.next = @ + 1], stack # << >>
      PROVE  /\ job.cmd = Make /\ job.files[1] = NextFile /\ job'.files[1] = NextFile
             /\ job.state = "busy" /\ ~job.fails
  <2>1. /\ job'.files = job.files /\ job'.cmd = job.cmd /\ job'.state = job.state
        /\ job'.next = job.next + 1 /\ job'.fails = job.fails
    BY <1>1, <1>3 DEF Jobs
  <2>2. job.next = 1
    BY <1>1, <2>1
  <2> QED
    BY <2>1, <2>2 DEF NextFile
<1>4. CASE FileMissing \/ ParseFails \/ Rejected \/ ImportFails
  BY <1>4 DEF FileMissing, ParseFails, Rejected, ImportFails, ErrorOccurred
<1>5. CASE OpenMain \/ Parse \/ ImportKnown \/ ImportOpens \/ CloseServer
  BY <1>2, <1>5 DEF OpenMain, Parse, ImportKnown, ImportOpens, CloseServer, AtImport, Busy
<1>6. CASE Reused \/ ForeignModule \/ NotAssembled \/ Assembled \/ AssemblyFails
  BY <1>2, <1>6 DEF Reused, ForeignModule, NotAssembled, Assembled, AssemblyFails,
                    Accepted, Evaluated, Busy
<1>7. CASE Link
  <2>1. /\ job' = [job EXCEPT !.next = @ + 1] /\ stack # << >> /\ UNCHANGED <<imports, src>>
    BY <1>7 DEF Link, CloseMain, Linkable, Busy
  <2>2. NextFile \in Modules /\ exe'[NextFile].time = clock
    BY <1>7, Links DEF ExesDated
  <2>3. \A x \in Below(imports, NextFile) : src[x] <= clock
    BY <1>1 DEF Below
  <2> QED
    BY <1>3, <2>1, <2>2, <2>3 DEF AllBefore
<1>8. CASE LinkFails
  BY <1>8 DEF LinkFails, ErrorOccurred
<1>9. CASE DontLink
  <2>1. /\ job' = [job EXCEPT !.next = @ + 1] /\ Busy("link") /\ ~(Linkable /\ Outdated)
        /\ UNCHANGED <<imports, src, exe, code>> /\ stack # << >>
    BY <1>9 DEF DontLink, CloseMain, Busy
  <2>2. job.cmd = Make /\ code = 0 /\ ~job.fails
    BY <1>3, <2>1
  <2>3. CASE NextFile \in Foreign
    BY <1>3, <2>1, <2>3
  <2>4. CASE linkable
    <3>1. /\ Top.mod = NextFile /\ Top.mod \in Modules /\ Len(stack) = 1
          /\ Below(imports, Top.mod) = tbl \cup {Top.mod}
      BY <2>1, <2>2, <2>4, AtLink
    <3>2. Times(stack, tbl, src, youngest)
      BY <2>1, <2>2, <2>4 DEF TimesInv
    <3>3. 1 \in 1 .. Len(stack)
      BY <3>1
    <3>4. \A x \in Below(imports, Top.mod) : src[x] <= youngest
      BY <3>1, <3>2, <3>3 DEF Times, Top
    <3>5. ~(exe[Top.mod].time < youngest)
      <4>1. Linkable
        BY <2>1, <2>2, <2>4 DEF Linkable, Make
      <4> QED
        BY <2>1, <4>1 DEF Outdated
    <3>6. ASSUME NEW x \in Below(imports, Top.mod) PROVE src[x] <= exe[Top.mod].time
      <4>1. x \in Modules
        BY DEF Below
      <4>2. src[x] \in Nat /\ exe[Top.mod].time \in Nat /\ src[x] <= youngest
        BY <1>1, <3>1, <3>4, <3>6, <4>1
      <4> QED
        BY <1>1, <3>5, <4>2
    <3> QED
      BY <1>3, <2>1, <3>1, <3>6 DEF AllBefore
  <2> QED
    BY <2>1, <2>2, <2>3, <2>4 DEF StaysLinkable
<1>10. CASE Exit
  <2>1. job' = [job EXCEPT !.state = "idle"]
    BY <1>10 DEF Exit
  <2> QED
    BY <1>1, <2>1 DEF Jobs
<1>11. ASSUME NEW m \in Modules, NEW d \in Defects, Edit(m, d) PROVE FALSE
  BY <1>11 DEF Edit
<1>12. ASSUME NEW l \in CommandLines, NEW force \in IgnoreTimeStamps, NEW fails \in ToolsFail,
              Run(l[1], force, l[2], fails)
       PROVE  FALSE
  BY <1>12 DEF Run
<1>13. CASE (\E m \in Foreign : Provide(m)) \/ UNCHANGED mkvars
  BY <1>13 DEF Provide, mkvars, LinkedNow
<1> QED
  BY <1>4, <1>5, <1>6, <1>7, <1>8, <1>9, <1>10, <1>11, <1>12, <1>13, Steps, Zenon

LEMMA ProgramsInv ==
  ASSUME OneProgram
  PROVE  MakeSpec => [](/\ MakeTypes /\ Opened /\ Alone
                        /\ ExesDated(exe, imports, src, clock) /\ LinkedNow)
<1>1. MakeInit => StaysLinkable /\ ExesDated(exe, imports, src, clock) /\ LinkedNow
  <2> SUFFICES ASSUME MakeInit PROVE StaysLinkable /\ ExesDated(exe, imports, src, clock) /\ LinkedNow
    OBVIOUS
  <2>1. stack = << >> /\ job.state = "idle" /\ exe = [m \in Modules |-> NoFile]
    BY DEF MakeInit
  <2>2. exe = [m \in Modules |-> exe[m]] /\ \A m \in Modules : exe[m] = NoFile
    BY <2>1
  <2> QED
    BY <2>1, <2>2 DEF StaysLinkable, ExesDated, LinkedNow
<1>2. MakeTypes /\ Opened /\ Clean /\ Dated /\ Alone /\ LinkInv /\ TimesInv /\ TreeInv
        /\ StaysLinkable /\ ExesDated(exe, imports, src, clock) /\ LinkedNow /\ [MakeNext]_mkvars
        => (StaysLinkable /\ ExesDated(exe, imports, src, clock) /\ LinkedNow)'
  BY StaysLinkableKept, ExesKept, LinkedNowKept
<1>3. MakeSpec => [](MakeTypes /\ Opened /\ Clean /\ Dated /\ Alone /\ LinkInv /\ TimesInv /\ TreeInv)
  BY TimesOfAll
<1> QED
  BY <1>1, <1>2, <1>3, PTL DEF MakeSpec

(* When a run that was to make a program returns 0, and the tools did not  *)
(* fail, the program on disk consists of its modules as they are in the    *)
(* sources, if their imports form a tree: whatever was edited between the  *)
(* runs, whether the program was linked or taken for good.                 *)
THEOREM ProgramsFresh == ASSUME OneProgram PROVE MakeSpec => []ExeFresh
<1>1. MakeTypes /\ Opened /\ Alone /\ ExesDated(exe, imports, src, clock) /\ LinkedNow => ExeFresh
  <2> SUFFICES ASSUME MakeTypes, Opened, Alone, ExesDated(exe, imports, src, clock), LinkedNow,
                      Returning, job.cmd = Make, code = 0, ~job.fails, NEW i \in DOMAIN job.files,
                      job.files[i] \notin Foreign, TreeBelow(job.files[i])
               PROVE  LET made == exe[job.files[i]].text
                      IN  /\ Parts(job.files[i]) \subseteq DOMAIN made
                          /\ DOMAIN made \subseteq Closure(job.files[i])
                          /\ \A m \in DOMAIN made : made[m] = Text(m)
    BY DEF ExeFresh
  <2> DEFINE main == job.files[i]
  <2>1. /\ job.files \in Seq(Modules) /\ job.next \in Nat /\ imports \in Graphs
        /\ DOMAIN job.files = 1 .. Len(job.files) /\ job.state = "busy"
        /\ src \in [Modules -> Nat \ {0}]
    BY LenProperties DEF MakeTypes, Jobs, Returning
  <2>2. Len(job.files) = 1
    BY <2>1 DEF Alone
  <2>3. i = 1 /\ job.next = 2
    <3>1. job.next > Len(job.files) /\ job.next <= Len(job.files) + 1
      BY DEF Returning, Opened
    <3> QED
      BY <2>1, <2>2, <3>1
  <2>4. main \in Modules
    BY <2>1, ElementOfSeq
  <2>5. \A x \in Below(imports, main) : src[x] <= exe[main].time
    BY <2>1, <2>3 DEF LinkedNow, AllBefore
  <2>6. IsTree(imports, main)
    BY <2>1, <2>4, Names
  <2>7. exe[main] # NoFile
    <3>1. main \in Below(imports, main) /\ src[main] \in Nat \ {0}
      BY <2>1, <2>4, BelowFacts
    <3>2. src[main] <= exe[main].time
      BY <2>5, <3>1
    <3>3. exe[main].time # 0
      BY <3>1, <3>2
    <3> QED
      BY <3>3 DEF NoFile
  <2> DEFINE e == exe[main]
             parts == DOMAIN e.text
  <2>8. /\ Below(imports, main) \ Foreign \subseteq parts /\ parts \subseteq Below(imports, main)
        /\ \A p \in parts : /\ e.text[p] = [x \in Below(imports, p) |-> e.text[p][x]]
                            /\ \A x \in Below(imports, p) : src[x] <= e.time => e.text[p][x] = src[x]
    BY <2>4, <2>6, <2>7 DEF ExesDated, ExeMadeFrom
  <2>9. ASSUME NEW p \in parts PROVE e.text[p] = Text(p)
    <3>1. \A x \in Below(imports, p) : src[x] <= e.time
      BY <2>1, <2>4, <2>5, <2>8, <2>9, BelowFacts
    <3>2. e.text[p] = [x \in Below(imports, p) |-> src[x]]
      BY <2>8, <2>9, <3>1
    <3> QED
      BY <3>2, Names DEF Text
  <2> HIDE DEF e, parts
  <2>10. Parts(main) \subseteq parts /\ parts \subseteq Closure(main)
    BY <2>8, Names DEF Parts
  <2> QED
    BY <2>9, <2>10 DEF e, parts
<1> QED
  BY <1>1, ProgramsInv, PTL
=============================================================================

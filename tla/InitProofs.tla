----------------------------- MODULE InitProofs ------------------------------
(***************************************************************************)
(* For all types, scopes and numbers of elements: the generated            *)
(* initialisers set the pointers and procedure variables of their storage  *)
(* and store nothing else.                                                 *)
(*                                                                         *)
(* What generated code does is shown by following it from one place to     *)
(* another (Through, Runs), which says nothing of whether it gets there: a *)
(* loop that does not end never goes wrong.  A loop's body stores the same *)
(* words in each turn, incr bytes further (BodyRuns, LoopTurns); the code  *)
(* of a list is put together from that of its entries (StepRuns), which    *)
(* may be loops around the code of other lists (ListOkRuns), and from this *)
(* come the initialisers (InitializerLoads) and prologues (PrologueLoads). *)
(* Where a list's code stores is where the list spells (TypeProofs).       *)
(***************************************************************************)
EXTENDS TypeProofs

-----------------------------------------------------------------------------
(* Execution of generated code.  A machine m is code with the storage from *)
(* lo to hi that it may write to and the number n of elements, if open, of *)
(* an array; safe says whether it is to be shown that no store leaves the  *)
(* storage.                                                                *)
Cfg(at, rs, v, st, sd) ==
  [pc |-> at, regs |-> rs, eax |-> v, stack |-> st, stored |-> sd]

InStorage(m, A) == \A a \in A : m.lo <= a /\ a + 4 <= m.hi

Touched(m, x) ==
  LET ins == m.code[x.pc]
  IN CASE ins.op = "store" -> {IF ins.reg = "edi" THEN x.regs["edi"] + ins.num ELSE ins.num}
       [] ins.op = "stos" -> {x.regs["edi"] + 4 * i : i \in 0 .. x.regs["ecx"] - 1}
       [] OTHER -> {}

Faults(m, x) ==
  \/ ~InStorage(m, Touched(m, x))
  \/ m.code[x.pc].op = "load" /\ ~(x.regs["edi"] = 0 /\ m.open)

NewRegs(m, x) ==
  LET ins == m.code[x.pc]
  IN CASE ins.op = "mov" -> [x.regs EXCEPT ![ins.reg] = ins.num]
       [] ins.op = "add" -> [x.regs EXCEPT ![ins.reg] = x.regs[ins.reg] + ins.num]
       [] ins.op = "load" -> [x.regs EXCEPT ![ins.reg] = m.n]
       [] ins.op = "stos" -> [x.regs EXCEPT !["edi"] = @ + 4 * x.regs["ecx"], !["ecx"] = 0]
       [] ins.op = "loop" -> [x.regs EXCEPT ![ins.reg] = x.regs[ins.reg] - 1]
       [] ins.op = "pop" -> [x.regs EXCEPT ![ins.reg] = Head(x.stack)]
       [] OTHER -> x.regs

NewStack(m, x) ==
  LET ins == m.code[x.pc]
  IN CASE ins.op = "push" -> <<x.regs[ins.reg]>> \o x.stack
       [] ins.op = "pop" -> Tail(x.stack)
       [] OTHER -> x.stack

After(m, x) ==
  LET ins == m.code[x.pc]
  IN Cfg(IF ins.op = "loop" /\ x.regs[ins.reg] # 1 THEN x.pc - ins.num ELSE x.pc + 1,
         NewRegs(m, x),
         IF ins.op = "eax" THEN ins.val ELSE x.eax,
         NewStack(m, x),
         x.stored \cup (Touched(m, x) \X {x.eax}))

(* An execution that is at c ends or stops only after it has been at d; it *)
(* may run for ever, and unless safe it may stop at a fault.               *)
GoesOn(m, x, S) ==
  /\ x.pc \in Int /\ x.pc <= Len(m.code) /\ (m.safe => ~Faults(m, x))
  /\ ~Faults(m, x) => After(m, x) \in S

Passes(m, d, S) == \A x \in S : x = d \/ GoesOn(m, x, S)

Through(m, c, d) == \E S : c \in S /\ Passes(m, d, S)

LEMMA ThroughSelf ==
  ASSUME NEW m, NEW c
  PROVE  Through(m, c, c)
<1>1. c \in {c} /\ Passes(m, c, {c})
  BY DEF Passes
<1> QED
  BY <1>1 DEF Through

LEMMA ThroughBoth ==
  ASSUME NEW m, NEW c, NEW d, NEW e, Through(m, c, d), Through(m, d, e)
  PROVE  Through(m, c, e)
<1>1. PICK S : c \in S /\ Passes(m, d, S)
  BY DEF Through
<1>2. PICK T : d \in T /\ Passes(m, e, T)
  BY DEF Through
<1>3. ASSUME NEW x \in S \cup T PROVE x = e \/ GoesOn(m, x, S \cup T)
  <2>1. CASE x \in T
    BY <1>2, <2>1 DEF Passes, GoesOn
  <2>2. CASE x \in S /\ x # d
    BY <1>1, <2>2 DEF Passes, GoesOn
  <2> QED
    BY <1>2, <1>3, <2>1, <2>2
<1>4. Passes(m, e, S \cup T)
  BY <1>3 DEF Passes
<1> QED
  BY <1>1, <1>4 DEF Through

LEMMA ThroughStep ==
  ASSUME NEW m, NEW c, NEW d, c.pc \in Int, c.pc <= Len(m.code), m.safe => ~Faults(m, c),
         ~Faults(m, c) => After(m, c) = d
  PROVE  Through(m, c, d)
<1>1. GoesOn(m, c, {c, d})
  BY DEF GoesOn
<1>2. Passes(m, d, {c, d})
  BY <1>1 DEF Passes
<1> QED
  BY <1>2 DEF Through

(* Executions that come from one of the configurations H to another for    *)
(* ever do not end.                                                        *)
LEMMA ThroughEver ==
  ASSUME NEW m, NEW d, NEW H,
         \A h \in H : /\ h.pc \in Int /\ h.pc <= Len(m.code) /\ (m.safe => ~Faults(m, h))
                      /\ ~Faults(m, h) => \E k \in H : Through(m, After(m, h), k),
         NEW c \in H
  PROVE  Through(m, c, d)
<1> DEFINE Way(h, T) == After(m, h) \in T /\ \E k \in H : Passes(m, k, T)
           W == [h \in H |-> CHOOSE T : Way(h, T)]
           Goes == {h \in H : ~Faults(m, h)}
           S == H \cup UNION {W[h] : h \in Goes}
<1>1. ASSUME NEW h \in Goes PROVE Way(h, W[h])
  <2>1. \E T : Way(h, T)
    BY DEF Through
  <2> HIDE DEF Way
  <2> QED
    BY <2>1
<1> HIDE DEF W
<1>2. ASSUME NEW x \in S PROVE GoesOn(m, x, S)
  <2>1. CASE x \in H
    <3>1. ~Faults(m, x) => After(m, x) \in W[x] /\ x \in Goes
      BY <1>1, <2>1
    <3>2. ~Faults(m, x) => After(m, x) \in S
      BY <3>1
    <3> QED
      BY <2>1, <3>2 DEF GoesOn
  <2>2. CASE x \notin H
    <3>1. PICK h \in Goes : x \in W[h]
      BY <2>2
    <3>2. PICK k \in H : Passes(m, k, W[h])
      BY <1>1
    <3>3. GoesOn(m, x, W[h])
      BY <2>2, <3>1, <3>2 DEF Passes
    <3>4. W[h] \subseteq S
      OBVIOUS
    <3> HIDE DEF S
    <3> QED
      BY <3>3, <3>4 DEF GoesOn
  <2> QED
    BY <2>1, <2>2
<1>3. c \in S /\ Passes(m, d, S)
  BY <1>2 DEF Passes
<1> HIDE DEF S
<1> QED
  BY <1>3 DEF Through

-----------------------------------------------------------------------------
(* What a piece of code does wherever it stands: it takes the registers,   *)
(* eax and the stack from x to y and stores the words W.                   *)
Ops == {"eax", "mov", "add", "load", "store", "stos", "loop", "push", "pop"}
Values == {"none", "eax", "NIL", "NILPROC"}
Instrs == [op : Ops, reg : Registers \cup {"none"}, num : Int, val : Values]

RegFiles == [Registers -> Int]
St(rs, v, t) == [regs |-> rs, eax |-> v, stack |-> t]
Before(p, x, sd) == Cfg(p, x.regs, x.eax, x.stack, sd)

CodeAt(m, p, s) ==
  /\ p \in Nat \ {0} /\ Len(m.code) \in Nat /\ p + Len(s) <= Len(m.code) + 1
  /\ \A i \in 1 .. Len(s) : m.code[p + i - 1] = s[i]

Runs(m, s, x, y, W) ==
  \A p, sd : CodeAt(m, p, s) =>
    Through(m, Before(p, x, sd), Before(p + Len(s), y, sd \cup W))

LEMMA CodeAtConcat ==
  ASSUME NEW m, NEW p, NEW s \in Seq(Instrs), NEW u \in Seq(Instrs), CodeAt(m, p, s \o u)
  PROVE  CodeAt(m, p, s) /\ CodeAt(m, p + Len(s), u) /\ Len(s \o u) = Len(s) + Len(u)
<1>1. PICK X : X = Instrs
  OBVIOUS
<1>2. /\ Len(s \o u) = Len(s) + Len(u) /\ Len(s) \in Nat /\ Len(u) \in Nat
      /\ \A i \in 1 .. Len(s) : (s \o u)[i] = s[i]
      /\ \A i \in 1 .. Len(u) : (s \o u)[Len(s) + i] = u[i]
  BY <1>1, ConcatAt
<1>3. \A i \in 1 .. Len(s) + Len(u) : m.code[p + i - 1] = (s \o u)[i]
  BY <1>2 DEF CodeAt
<1>4. \A i \in 1 .. Len(s) : m.code[p + i - 1] = s[i]
  BY <1>2, <1>3
<1>5. p \in Nat \ {0} /\ Len(m.code) \in Nat /\ p + (Len(s) + Len(u)) <= Len(m.code) + 1
  BY <1>2 DEF CodeAt
<1>6. \A i \in 1 .. Len(u) : m.code[(p + Len(s)) + i - 1] = u[i]
  <2> TAKE i \in 1 .. Len(u)
  <2>1. Len(s) + i \in 1 .. Len(s) + Len(u) /\ p + (Len(s) + i) - 1 = (p + Len(s)) + i - 1
    BY <1>2, <1>5
  <2> QED
    BY <1>2, <1>3, <2>1
<1>7. CodeAt(m, p, s)
  BY <1>2, <1>4, <1>5 DEF CodeAt
<1>8. CodeAt(m, p + Len(s), u)
  BY <1>2, <1>5, <1>6 DEF CodeAt
<1> QED
  BY <1>2, <1>7, <1>8

LEMMA RunsNone ==
  ASSUME NEW m, NEW x
  PROVE  Runs(m, << >>, x, x, {})
<1> SUFFICES ASSUME NEW p, NEW sd, CodeAt(m, p, << >>)
             PROVE  Through(m, Before(p, x, sd), Before(p + Len(<< >>), x, sd \cup {}))
  BY DEF Runs
<1>1. p + Len(<< >>) = p
  BY DEF CodeAt
<1>2. sd \cup {} = sd
  OBVIOUS
<1> QED
  BY <1>1, <1>2, ThroughSelf

LEMMA RunsConcat ==
  ASSUME NEW m, NEW s \in Seq(Instrs), NEW u \in Seq(Instrs), NEW x, NEW y, NEW z, NEW W, NEW Y,
         Runs(m, s, x, y, W), Runs(m, u, y, z, Y)
  PROVE  Runs(m, s \o u, x, z, W \cup Y)
<1> SUFFICES ASSUME NEW p, NEW sd, CodeAt(m, p, s \o u)
             PROVE  Through(m, Before(p, x, sd), Before(p + Len(s \o u), z, sd \cup (W \cup Y)))
  BY DEF Runs
<1>1. CodeAt(m, p, s) /\ CodeAt(m, p + Len(s), u) /\ Len(s \o u) = Len(s) + Len(u)
  BY CodeAtConcat
<1>2. Through(m, Before(p, x, sd), Before(p + Len(s), y, sd \cup W))
  BY <1>1 DEF Runs
<1>3. Through(m, Before(p + Len(s), y, sd \cup W),
              Before((p + Len(s)) + Len(u), z, (sd \cup W) \cup Y))
  BY <1>1 DEF Runs
<1>4. (p + Len(s)) + Len(u) = p + Len(s \o u) /\ (sd \cup W) \cup Y = sd \cup (W \cup Y)
  <2>1. Len(s) \in Nat /\ Len(u) \in Nat /\ p \in Nat
    BY DEF CodeAt
  <2> QED
    BY <1>1, <2>1
<1> QED
  BY <1>2, <1>3, <1>4, ThroughBoth

(* Single instructions. *)
LEMMA RunsOne ==
  ASSUME NEW m, NEW ins, NEW x, NEW y, NEW W,
         \A p, sd : CodeAt(m, p, <<ins>>) /\ m.code[p] = ins =>
           /\ m.safe => ~Faults(m, Before(p, x, sd))
           /\ ~Faults(m, Before(p, x, sd)) => After(m, Before(p, x, sd)) = Before(p + 1, y, sd \cup W)
  PROVE  Runs(m, <<ins>>, x, y, W)
<1> SUFFICES ASSUME NEW p, NEW sd, CodeAt(m, p, <<ins>>)
             PROVE  Through(m, Before(p, x, sd), Before(p + Len(<<ins>>), y, sd \cup W))
  BY DEF Runs
<1>1. Len(<<ins>>) = 1 /\ <<ins>>[1] = ins
  OBVIOUS
<1>2. m.code[p] = ins /\ p \in Int /\ p <= Len(m.code)
  BY <1>1 DEF CodeAt
<1>3. Before(p, x, sd).pc = p
  BY DEF Before, Cfg
<1> QED
  BY <1>1, <1>2, <1>3, ThroughStep

LEMMA InsTyped ==
  ASSUME NEW op \in Ops, NEW reg \in Registers \cup {"none"}, NEW num \in Int, NEW val \in Values
  PROVE  /\ Ins(op, reg, num, val) \in Instrs /\ <<Ins(op, reg, num, val)>> \in Seq(Instrs)
         /\ Ins(op, reg, num, val).op = op /\ Ins(op, reg, num, val).reg = reg
         /\ Ins(op, reg, num, val).num = num /\ Ins(op, reg, num, val).val = val
<1>1. Ins(op, reg, num, val) \in Instrs
  BY DEF Ins, Instrs
<1> QED
  BY <1>1 DEF Ins

LEMMA RunStore ==
  ASSUME NEW m, NEW r \in RegFiles, NEW v, NEW t, NEW o \in Int,
         m.safe => InStorage(m, {r["edi"] + o})
  PROVE  Runs(m, <<Store(o)>>, St(r, v, t), St(r, v, t), {r["edi"] + o} \X {v})
<1>1. Store(o).op = "store" /\ Store(o).reg = "edi" /\ Store(o).num = o
  BY DEF Store, Ins
<1>2. ASSUME NEW p, NEW sd, m.code[p] = Store(o), NEW c, c = Before(p, St(r, v, t), sd)
      PROVE  /\ m.safe => ~Faults(m, c)
             /\ After(m, c) = Before(p + 1, St(r, v, t), sd \cup ({r["edi"] + o} \X {v}))
  <2>1. c.pc = p /\ c.regs = r /\ c.eax = v /\ c.stack = t /\ c.stored = sd
    BY <1>2 DEF Before, Cfg, St
  <2>2. Touched(m, c) = {r["edi"] + o}
    BY <1>1, <1>2, <2>1 DEF Touched
  <2>3. m.safe => ~Faults(m, c)
    BY <1>1, <1>2, <2>1, <2>2 DEF Faults
  <2>4. NewRegs(m, c) = r /\ NewStack(m, c) = t
    BY <1>1, <1>2, <2>1 DEF NewRegs, NewStack
  <2>5. After(m, c) = Cfg(p + 1, r, v, t, sd \cup ({r["edi"] + o} \X {v}))
    BY <1>1, <1>2, <2>1, <2>2, <2>4 DEF After
  <2> QED
    BY <2>3, <2>5 DEF Before, St
<1> QED
  BY <1>2, RunsOne

LEMMA RunStoreAt ==
  ASSUME NEW m, NEW r \in RegFiles, NEW v, NEW t, NEW a \in Int, m.safe => InStorage(m, {a})
  PROVE  Runs(m, <<StoreAt(a)>>, St(r, v, t), St(r, v, t), {a} \X {v})
<1>1. StoreAt(a).op = "store" /\ StoreAt(a).reg = "none" /\ StoreAt(a).num = a
  BY DEF StoreAt, Ins
<1>2. ASSUME NEW p, NEW sd, m.code[p] = StoreAt(a), NEW c, c = Before(p, St(r, v, t), sd)
      PROVE  /\ m.safe => ~Faults(m, c)
             /\ After(m, c) = Before(p + 1, St(r, v, t), sd \cup ({a} \X {v}))
  <2>1. c.pc = p /\ c.regs = r /\ c.eax = v /\ c.stack = t /\ c.stored = sd
    BY <1>2 DEF Before, Cfg, St
  <2>2. Touched(m, c) = {a}
    BY <1>1, <1>2, <2>1 DEF Touched
  <2>3. m.safe => ~Faults(m, c)
    BY <1>1, <1>2, <2>1, <2>2 DEF Faults
  <2>4. NewRegs(m, c) = r /\ NewStack(m, c) = t
    BY <1>1, <1>2, <2>1 DEF NewRegs, NewStack
  <2>5. After(m, c) = Cfg(p + 1, r, v, t, sd \cup ({a} \X {v}))
    BY <1>1, <1>2, <2>1, <2>2, <2>4 DEF After
  <2> QED
    BY <2>3, <2>5 DEF Before, St
<1> QED
  BY <1>2, RunsOne

(* Instructions that store nothing and do not jump. *)
Quiet(ins, r, v, t, q, w, u) ==
  /\ ins.op \in {"eax", "mov", "add", "push", "pop"}
  /\ q = CASE ins.op = "mov" -> [r EXCEPT ![ins.reg] = ins.num]
           [] ins.op = "add" -> [r EXCEPT ![ins.reg] = r[ins.reg] + ins.num]
           [] ins.op = "pop" -> [r EXCEPT ![ins.reg] = Head(t)]
           [] OTHER -> r
  /\ w = IF ins.op = "eax" THEN ins.val ELSE v
  /\ u = CASE ins.op = "push" -> <<r[ins.reg]>> \o t
           [] ins.op = "pop" -> Tail(t)
           [] OTHER -> t

LEMMA RunQuiet ==
  ASSUME NEW m, NEW ins, NEW r, NEW v, NEW t, NEW q, NEW w, NEW u, Quiet(ins, r, v, t, q, w, u)
  PROVE  Runs(m, <<ins>>, St(r, v, t), St(q, w, u), {})
<1> USE DEF Quiet
<1>2. ASSUME NEW p, NEW sd, m.code[p] = ins, NEW c, c = Before(p, St(r, v, t), sd)
      PROVE  /\ ~Faults(m, c)
             /\ After(m, c) = Before(p + 1, St(q, w, u), sd \cup {})
  <2>1. c.pc = p /\ c.regs = r /\ c.eax = v /\ c.stack = t /\ c.stored = sd
    BY <1>2 DEF Before, Cfg, St
  <2>2. Touched(m, c) = {}
    BY <1>2, <2>1 DEF Touched
  <2>3. ~Faults(m, c)
    BY <1>2, <2>1, <2>2 DEF Faults, InStorage
  <2>4. NewRegs(m, c) = q
    BY <1>2, <2>1 DEF NewRegs
  <2>5. NewStack(m, c) = u
    BY <1>2, <2>1 DEF NewStack
  <2>6. sd \cup ({} \X {v}) = sd \cup {}
    OBVIOUS
  <2>7. After(m, c) = Cfg(p + 1, q, w, u, sd \cup {})
    BY <1>2, <2>1, <2>2, <2>4, <2>5, <2>6 DEF After
  <2> QED
    BY <2>3, <2>7 DEF Before, St
<1>3. ASSUME NEW p, NEW sd, m.code[p] = ins
      PROVE  /\ m.safe => ~Faults(m, Before(p, St(r, v, t), sd))
             /\ ~Faults(m, Before(p, St(r, v, t), sd)) =>
                  After(m, Before(p, St(r, v, t), sd)) = Before(p + 1, St(q, w, u), sd \cup {})
  BY <1>2, <1>3
<1> HIDE DEF Before
<1> QED
  BY <1>3, RunsOne

(* Registers that have been counted down to 0, edi out bytes further. *)
Regs(r, out, C) ==
  [x \in Registers |-> IF x = "edi" THEN r["edi"] + out ELSE IF x \in C THEN 0 ELSE r[x]]

(* The words at the offsets O from edi. *)
Words(r, O) == {r["edi"] + o : o \in O}

LEMMA RegsTyped ==
  ASSUME NEW r \in RegFiles, NEW out \in Int, NEW C
  PROVE  /\ Regs(r, out, C) \in RegFiles /\ Regs(r, out, C)["edi"] = r["edi"] + out
         /\ r["edi"] \in Int
         /\ \A x \in Registers \ {"edi"} : Regs(r, out, C)[x] = IF x \in C THEN 0 ELSE r[x]
BY DEF Regs, RegFiles, Registers

LEMMA RegsTwice ==
  ASSUME NEW r \in RegFiles, NEW a \in Int, NEW b \in Int, NEW C, NEW D,
         NEW e \in Int, e = a + b, NEW E, E = C \cup D
  PROVE  Regs(Regs(r, a, C), b, D) = Regs(r, e, E)
<1> DEFINE q == Regs(r, a, C)
<1>1. /\ q["edi"] = r["edi"] + a /\ r["edi"] \in Int
      /\ \A x \in Registers \ {"edi"} : q[x] = IF x \in C THEN 0 ELSE r[x]
  BY RegsTyped
<1> HIDE DEF q
<1>2. q["edi"] + b = r["edi"] + (a + b)
  BY <1>1
<1>3. \A x \in Registers : (IF x = "edi" THEN q["edi"] + b ELSE IF x \in D THEN 0 ELSE q[x])
                         = (IF x = "edi" THEN r["edi"] + (a + b) ELSE IF x \in C \cup D THEN 0 ELSE r[x])
  BY <1>1, <1>2
<1>4. Regs(q, b, D) = Regs(r, a + b, C \cup D)
  BY <1>3 DEF Regs
<1>5. Regs(q, b, D) = Regs(r, e, E)
  BY <1>4
<1> QED
  BY <1>5 DEF q

Twice(r, a, C, b, D, e, E, q) ==
  /\ r \in RegFiles /\ a \in Int /\ b \in Int /\ e = a + b /\ E = C \cup D /\ q = Regs(r, a, C)

LEMMA RegsAgain ==
  ASSUME NEW r, NEW a, NEW C, NEW b, NEW D, NEW e, NEW E, NEW q, Twice(r, a, C, b, D, e, E, q)
  PROVE  Regs(q, b, D) = Regs(r, e, E)
<1>1. e \in Int
  BY DEF Twice
<1> QED
  BY <1>1, RegsTwice DEF Twice

LEMMA RegsSame ==
  ASSUME NEW r \in RegFiles
  PROVE  Regs(r, 0, {}) = r
<1>1. \A x \in Registers : (IF x = "edi" THEN r["edi"] + 0 ELSE IF x \in {} THEN 0 ELSE r[x]) = r[x]
  BY DEF RegFiles, Registers
<1>2. Regs(r, 0, {}) = [x \in Registers |-> r[x]]
  BY <1>1 DEF Regs
<1> QED
  BY <1>2 DEF RegFiles

LEMMA RunMov ==
  ASSUME NEW m, NEW r \in RegFiles, NEW v, NEW t, NEW c \in Registers, NEW k \in Int
  PROVE  /\ Runs(m, <<Mov(c, k)>>, St(r, v, t), St([r EXCEPT ![c] = k], v, t), {})
         /\ [r EXCEPT ![c] = k] \in RegFiles
<1>1. Mov(c, k).op = "mov" /\ Mov(c, k).reg = c /\ Mov(c, k).num = k
  BY DEF Mov, Ins
<1>2. PICK q : q = [r EXCEPT ![c] = k]
  OBVIOUS
<1>3. Runs(m, <<Mov(c, k)>>, St(r, v, t), St(q, v, t), {})
  <2>1. Quiet(Mov(c, k), r, v, t, q, v, t)
    BY <1>1, <1>2 DEF Quiet
  <2> QED
    BY <2>1, RunQuiet
<1>4. q \in RegFiles
  BY <1>2 DEF RegFiles
<1> QED
  BY <1>2, <1>3, <1>4

LEMMA RunAdd ==
  ASSUME NEW m, NEW r \in RegFiles, NEW v, NEW t, NEW k \in Int
  PROVE  Runs(m, <<Ins("add", "edi", k, "none")>>, St(r, v, t), St(Regs(r, k, {}), v, t), {})
<1> DEFINE ins == Ins("add", "edi", k, "none")
<1>1. ins.op = "add" /\ ins.reg = "edi" /\ ins.num = k
  BY DEF Ins
<1>2. [r EXCEPT !["edi"] = r["edi"] + k] = Regs(r, k, {})
  <2>1. r = [x \in Registers |-> r[x]] /\ "edi" \in Registers
    BY DEF RegFiles, Registers
  <2> QED
    BY <2>1 DEF Regs
<1> HIDE DEF ins
<1>3. PICK q : q = [r EXCEPT !["edi"] = r["edi"] + k]
  OBVIOUS
<1>4. Runs(m, <<ins>>, St(r, v, t), St(q, v, t), {})
  <2>1. Quiet(ins, r, v, t, q, v, t)
    BY <1>1, <1>3 DEF Quiet
  <2> QED
    BY <2>1, RunQuiet
<1> QED
  BY <1>2, <1>3, <1>4 DEF ins

LEMMA RunAddEdi ==
  ASSUME NEW m, NEW r \in RegFiles, NEW v, NEW t, NEW k \in Int
  PROVE  /\ Runs(m, AddEdi(k), St(r, v, t), St(Regs(r, k, {}), v, t), {})
         /\ AddEdi(k) \in Seq(Instrs)
<1>1. CASE k = 0
  <2>1. AddEdi(k) = << >>
    BY <1>1 DEF AddEdi
  <2>2. Regs(r, k, {}) = r
    BY <1>1, RegsSame
  <2>3. << >> \in Seq(Instrs)
    BY EmptySeq
  <2> QED
    BY <2>1, <2>2, <2>3, RunsNone
<1>2. CASE k # 0
  <2>1. AddEdi(k) = <<Ins("add", "edi", k, "none")>>
    BY <1>2 DEF AddEdi
  <2>2. AddEdi(k) \in Seq(Instrs)
    BY <2>1, InsTyped DEF Ops, Registers, Values
  <2> QED
    BY <2>1, <2>2, RunAdd
<1> QED
  BY <1>1, <1>2

LEMMA RunPush ==
  ASSUME NEW m, NEW r \in RegFiles, NEW v, NEW t, NEW c
  PROVE  Runs(m, <<Push(c)>>, St(r, v, t), St(r, v, <<r[c]>> \o t), {})
<1>1. Push(c).op = "push" /\ Push(c).reg = c
  BY DEF Push, Ins
<1>2. PICK u : u = <<r[c]>> \o t
  OBVIOUS
<1>3. Runs(m, <<Push(c)>>, St(r, v, t), St(r, v, u), {})
  <2>1. Quiet(Push(c), r, v, t, r, v, u)
    BY <1>1, <1>2 DEF Quiet
  <2> QED
    BY <2>1, RunQuiet
<1> QED
  BY <1>2, <1>3

LEMMA RunPop ==
  ASSUME NEW m, NEW r \in RegFiles, NEW v, NEW t \in Seq(Int), NEW c, NEW k \in Int
  PROVE  Runs(m, <<Pop(c)>>, St(r, v, <<k>> \o t), St([r EXCEPT ![c] = k], v, t), {})
<1>1. Pop(c).op = "pop" /\ Pop(c).reg = c
  BY DEF Pop, Ins
<1>2. PICK u : u = <<k>> \o t
  OBVIOUS
<1>3. Head(u) = k /\ Tail(u) = t
  BY <1>2
<1>4. PICK q : q = [r EXCEPT ![c] = k]
  OBVIOUS
<1>5. Runs(m, <<Pop(c)>>, St(r, v, u), St(q, v, t), {})
  <2>1. Quiet(Pop(c), r, v, u, q, v, t)
    BY <1>1, <1>3, <1>4 DEF Quiet
  <2> QED
    BY <2>1, RunQuiet
<1> QED
  BY <1>2, <1>4, <1>5

LEMMA RunLoad ==
  ASSUME NEW m, NEW r \in RegFiles, NEW v, NEW t, NEW c \in Registers, m.open, r["edi"] = 0
  PROVE  Runs(m, <<Ins("load", c, 0, "none")>>, St(r, v, t), St([r EXCEPT ![c] = m.n], v, t), {})
<1> DEFINE ins == Ins("load", c, 0, "none")
<1>1. ins.op = "load" /\ ins.reg = c
  BY DEF Ins
<1> HIDE DEF ins
<1>2. ASSUME NEW p, NEW sd, m.code[p] = ins
      PROVE  /\ m.safe => ~Faults(m, Before(p, St(r, v, t), sd))
             /\ After(m, Before(p, St(r, v, t), sd))
                  = Before(p + 1, St([r EXCEPT ![c] = m.n], v, t), sd \cup {})
  <2> DEFINE d == Before(p, St(r, v, t), sd)
  <2>1. d.pc = p /\ d.regs = r /\ d.eax = v /\ d.stack = t /\ d.stored = sd
    BY DEF Before, Cfg, St
  <2> HIDE DEF d
  <2>2. Touched(m, d) = {}
    BY <1>1, <1>2, <2>1 DEF Touched
  <2>3. ~Faults(m, d)
    BY <1>1, <1>2, <2>1, <2>2 DEF Faults, InStorage
  <2>4. NewRegs(m, d) = [r EXCEPT ![c] = m.n]
    BY <1>1, <1>2, <2>1 DEF NewRegs
  <2>5. NewStack(m, d) = t
    BY <1>1, <1>2, <2>1 DEF NewStack
  <2>6. sd \cup ({} \X {v}) = sd \cup {}
    OBVIOUS
  <2>7. After(m, d) = Cfg(p + 1, [r EXCEPT ![c] = m.n], v, t, sd \cup {})
    BY <1>1, <1>2, <2>1, <2>2, <2>4, <2>5, <2>6 DEF After
  <2> QED
    BY <2>3, <2>7 DEF d, Before, St
<1>3. Runs(m, <<ins>>, St(r, v, t), St([r EXCEPT ![c] = m.n], v, t), {})
  <2> HIDE DEF Before
  <2> QED
    BY <1>2, RunsOne
<1> QED
  BY <1>3 DEF ins

LEMMA RunStos ==
  ASSUME NEW m, NEW r \in RegFiles, NEW v, NEW t, NEW k \in Nat, r["ecx"] = k,
         m.safe => InStorage(m, Words(r, RowSlots({0}, 4, k)))
  PROVE  Runs(m, <<Ins("stos", "edi", 0, "eax")>>, St(r, v, t), St(Regs(r, k * 4, {"ecx"}), v, t),
              Words(r, RowSlots({0}, 4, k)) \X {v})
<1> DEFINE ins == Ins("stos", "edi", 0, "eax")
           A == Words(r, RowSlots({0}, 4, k))
<1>1. ins.op = "stos"
  BY DEF Ins
<1>2. {r["edi"] + 4 * i : i \in 0 .. r["ecx"] - 1} = A
  <2>1. RowSlots({0}, 4, k) = {i * 4 + o : i \in 0 .. k - 1, o \in {0}}
    BY RowSlotsAre
  <2>2. \A i \in 0 .. k - 1 : i * 4 + 0 = 4 * i
    OBVIOUS
  <2>3. RowSlots({0}, 4, k) = {4 * i : i \in 0 .. k - 1}
    BY <2>1, <2>2
  <2> QED
    BY <2>3 DEF Words
<1>3. [r EXCEPT !["edi"] = @ + 4 * r["ecx"], !["ecx"] = 0] = Regs(r, k * 4, {"ecx"})
  <2>1. r = [x \in Registers |-> r[x]] /\ "edi" \in Registers /\ "ecx" \in Registers
    BY DEF RegFiles, Registers
  <2>2. 4 * r["ecx"] = k * 4
    OBVIOUS
  <2> QED
    BY <2>1, <2>2 DEF Regs
<1> HIDE DEF ins, A
<1>4. ASSUME NEW p, NEW sd, m.code[p] = ins
      PROVE  /\ m.safe => ~Faults(m, Before(p, St(r, v, t), sd))
             /\ After(m, Before(p, St(r, v, t), sd))
                  = Before(p + 1, St(Regs(r, k * 4, {"ecx"}), v, t), sd \cup (A \X {v}))
  <2> DEFINE d == Before(p, St(r, v, t), sd)
  <2>1. d.pc = p /\ d.regs = r /\ d.eax = v /\ d.stack = t /\ d.stored = sd
    BY DEF Before, Cfg, St
  <2> HIDE DEF d
  <2>2. Touched(m, d) = A
    BY <1>1, <1>2, <1>4, <2>1 DEF Touched
  <2>3. m.safe => ~Faults(m, d)
    BY <1>1, <1>4, <2>1, <2>2 DEF Faults, A
  <2>4. NewRegs(m, d) = Regs(r, k * 4, {"ecx"})
    BY <1>1, <1>3, <1>4, <2>1 DEF NewRegs
  <2>5. NewStack(m, d) = t
    BY <1>1, <1>4, <2>1 DEF NewStack
  <2>7. After(m, d) = Cfg(p + 1, Regs(r, k * 4, {"ecx"}), v, t, sd \cup (A \X {v}))
    BY <1>1, <1>4, <2>1, <2>2, <2>4, <2>5 DEF After
  <2> QED
    BY <2>3, <2>7 DEF d, Before, St
<1>5. Runs(m, <<ins>>, St(r, v, t), St(Regs(r, k * 4, {"ecx"}), v, t), A \X {v})
  <2> HIDE DEF Before
  <2> QED
    BY <1>4, RunsOne
<1> QED
  BY <1>5 DEF ins, A

(* Loops.  Of a piece of code that leaves edi incr bytes further, counts   *)
(* in the registers C and stores the words at the offsets O: *)
BodyRuns(m, body, v, incr, C, O) ==
  \A r \in RegFiles, t \in Seq(Int) :
    (m.safe => InStorage(m, Words(r, O)))
      => Runs(m, body, St(r, v, t), St(Regs(r, incr, C), v, t), Words(r, O) \X {v})

LEMMA RowSlotsFirst ==
  ASSUME NEW O \in SUBSET Int, NEW incr \in Int, NEW k \in Nat
  PROVE  /\ RowSlots(O, incr, k + 1) = O \cup {incr + o : o \in RowSlots(O, incr, k)}
         /\ RowSlots(O, incr, k) \subseteq Int
<1>0. ASSUME NEW j, NEW x
      PROVE  x \in RowSlots(O, incr, j) <=> \E i \in 0 .. j - 1 : \E o \in O : x = i * incr + o
  <2>1. x \in RowSlots(O, incr, j) <=> \E i \in 0 .. j - 1 : x \in BlockSlots(O, incr, i)
    BY DEF RowSlots
  <2>2. \A i \in 0 .. j - 1 : x \in BlockSlots(O, incr, i) <=> \E o \in O : x = i * incr + o
    BY DEF BlockSlots
  <2> QED
    BY <2>1, <2>2
<1>1. \A x : x \in RowSlots(O, incr, k + 1) <=> \E i \in 0 .. k : \E o \in O : x = i * incr + o
  <2>1. PICK e : e = k + 1
    OBVIOUS
  <2>2. \A x : x \in RowSlots(O, incr, e) <=> \E i \in 0 .. e - 1 : \E o \in O : x = i * incr + o
    BY <1>0
  <2>3. 0 .. e - 1 = 0 .. k
    BY <2>1
  <2> QED
    BY <2>1, <2>2, <2>3
<1>2. \A x : x \in RowSlots(O, incr, k) <=> \E i \in 0 .. k - 1 : \E o \in O : x = i * incr + o
  BY <1>0
<1>3. ASSUME NEW x \in RowSlots(O, incr, k + 1)
      PROVE  x \in O \cup {incr + a : a \in RowSlots(O, incr, k)}
  <2>0. PICK i \in 0 .. k, o \in O : x = i * incr + o
    BY <1>1
  <2>1. CASE i = 0
    BY <2>0, <2>1
  <2>2. CASE i # 0
    <3>1. PICK j \in 0 .. k - 1 : i = j + 1
      <4>1. i - 1 \in 0 .. k - 1 /\ i = (i - 1) + 1
        BY <2>2
      <4> QED
        BY <4>1
    <3>2. PICK a \in Int : a = j * incr + o
      OBVIOUS
    <3>3. incr + a = x
      BY <2>0, <3>1, <3>2
    <3>4. a \in RowSlots(O, incr, k)
      BY <1>2, <3>2
    <3> QED
      BY <3>3, <3>4
  <2> QED
    BY <2>1, <2>2
<1>4. ASSUME NEW o \in O PROVE o \in RowSlots(O, incr, k + 1)
  <2>1. 0 * incr + o = o /\ 0 \in 0 .. k
    OBVIOUS
  <2> QED
    BY <1>1, <2>1
<1>5. ASSUME NEW a \in RowSlots(O, incr, k) PROVE incr + a \in RowSlots(O, incr, k + 1) /\ a \in Int
  <2>1. PICK i \in 0 .. k - 1, o \in O : a = i * incr + o
    BY <1>2
  <2>2. i + 1 \in 0 .. k /\ incr + (i * incr + o) = (i + 1) * incr + o /\ i * incr + o \in Int
    OBVIOUS
  <2>3. incr + a \in RowSlots(O, incr, k + 1)
    BY <1>1, <2>1, <2>2
  <2> QED
    BY <2>1, <2>2, <2>3
<1>6. PICK R, T : R = RowSlots(O, incr, k) /\ T = RowSlots(O, incr, k + 1)
  OBVIOUS
<1>7. T = O \cup {incr + a : a \in R}
  BY <1>3, <1>4, <1>5, <1>6
<1> QED
  BY <1>5, <1>6, <1>7

LEMMA WordsRow ==
  ASSUME NEW r \in RegFiles, NEW O \in SUBSET Int, NEW incr \in Int, NEW k \in Nat, NEW q \in RegFiles,
         q["edi"] = r["edi"] + incr
  PROVE  Words(r, RowSlots(O, incr, k + 1)) = Words(r, O) \cup Words(q, RowSlots(O, incr, k))
<1>1. r["edi"] \in Int
  BY RegsTyped DEF RegFiles, Registers
<1>2. PICK R : R = RowSlots(O, incr, k) /\ R \subseteq Int
  BY RowSlotsFirst
<1>3. RowSlots(O, incr, k + 1) = O \cup {incr + o : o \in R}
  BY <1>2, RowSlotsFirst
<1>4. \A a \in R : r["edi"] + (incr + a) = q["edi"] + a
  BY <1>1, <1>2
<1>5. Words(r, {incr + o : o \in R}) = Words(q, R)
  BY <1>4 DEF Words
<1>6. Words(r, O \cup {incr + o : o \in R}) = Words(r, O) \cup Words(r, {incr + o : o \in R})
  BY DEF Words
<1> QED
  BY <1>2, <1>3, <1>5, <1>6

(* The end of a turn. *)
AtBack(m, body, c, p, r, q, v, t, sd, x) ==
  /\ body \in Seq(Instrs) /\ c \in Registers /\ r \in RegFiles
  /\ CodeAt(m, p, body \o <<Back(c, body)>>)
  /\ x = Cfg(p + Len(body), r, v, t, sd) /\ q = [r EXCEPT ![c] = r[c] - 1]

LEMMA RunBack ==
  ASSUME NEW m, NEW body, NEW c, NEW p, NEW r, NEW q, NEW v, NEW t, NEW sd, NEW x,
         AtBack(m, body, c, p, r, q, v, t, sd, x)
  PROVE  /\ x.pc \in Int /\ x.pc <= Len(m.code) /\ ~Faults(m, x)
         /\ r[c] = 1 => After(m, x) = Cfg(p + Len(body) + 1, q, v, t, sd)
         /\ r[c] # 1 => After(m, x) = Cfg(p, q, v, t, sd)
         /\ p + Len(body \o <<Back(c, body)>>) = p + Len(body) + 1
         /\ CodeAt(m, p, body)
<1> USE DEF AtBack
<1> DEFINE ins == Back(c, body)
<1>1. ins.op = "loop" /\ ins.reg = c /\ ins.num = Len(body) /\ ins \in Instrs
  <2>1. Len(body) \in Int
    OBVIOUS
  <2>2. Ins("loop", c, Len(body), "none") \in Instrs
    BY <2>1, InsTyped DEF Ops, Values
  <2> QED
    BY <2>2 DEF Back, Ins
<1> HIDE DEF ins
<1>2. <<ins>> \in Seq(Instrs) /\ Len(<<ins>>) = 1 /\ <<ins>>[1] = ins
  BY <1>1
<1>3. CodeAt(m, p, body \o <<ins>>)
  BY DEF ins
<1>4. CodeAt(m, p, body) /\ CodeAt(m, p + Len(body), <<ins>>) /\ Len(body \o <<ins>>) = Len(body) + 1
  <2>1. PICK u \in Seq(Instrs) : u = <<ins>>
    BY <1>2
  <2>2. CodeAt(m, p, body) /\ CodeAt(m, p + Len(body), u) /\ Len(body \o u) = Len(body) + Len(u)
    <3>1. CodeAt(m, p, body \o u)
      BY <1>3, <2>1, Zenon
    <3> QED
      BY <3>1, CodeAtConcat
  <2> QED
    BY <1>2, <2>1, <2>2
<1>5. m.code[p + Len(body)] = ins /\ p + Len(body) <= Len(m.code) /\ p \in Nat /\ Len(body) \in Nat
  BY <1>2, <1>4 DEF CodeAt
<1>6. x.pc = p + Len(body) /\ x.regs = r /\ x.eax = v /\ x.stack = t /\ x.stored = sd
  BY DEF Cfg
<1>7. Touched(m, x) = {}
  BY <1>1, <1>5, <1>6 DEF Touched
<1>8. ~Faults(m, x)
  BY <1>1, <1>5, <1>6, <1>7 DEF Faults, InStorage
<1>9. NewRegs(m, x) = [r EXCEPT ![c] = r[c] - 1] /\ NewStack(m, x) = t
  BY <1>1, <1>5, <1>6 DEF NewRegs, NewStack
<1>10. sd \cup ({} \X {v}) = sd
  OBVIOUS
<1>11. After(m, x) = Cfg(IF r[c] = 1 THEN p + Len(body) + 1 ELSE p,
                              [r EXCEPT ![c] = r[c] - 1], v, t, sd)
  <2>1. (p + Len(body)) - Len(body) = p
    BY <1>5
  <2>2. (IF ins.op = "loop" /\ x.regs[ins.reg] # 1 THEN x.pc - ins.num ELSE x.pc + 1)
          = IF r[c] = 1 THEN p + Len(body) + 1 ELSE p
    BY <1>1, <1>6, <2>1
  <2> QED
    BY <1>1, <1>5, <1>6, <1>7, <1>9, <1>10, <2>2 DEF After
<1> QED
  BY <1>4, <1>5, <1>6, <1>8, <1>11 DEF ins

(* The registers q at the start of a loop's turn, q1 after its body and q2 *)
(* at the start of the next.                                               *)
Turn(q, incr, C, c, j, q1, q2, a, e, D) ==
  /\ q \in RegFiles /\ incr \in Int /\ c \in Registers \ {"edi"} /\ c \notin C
  /\ j \in Nat /\ q[c] = j + 1 /\ q1 = Regs(q, incr, C) /\ q2 = [q1 EXCEPT ![c] = j]
  /\ a \in Int /\ e \in Int /\ a = j * incr /\ e = (j + 1) * incr /\ D = C \cup {c}

LEMMA LoopRegs ==
  ASSUME NEW q, NEW incr, NEW C, NEW c, NEW j, NEW q1, NEW q2, NEW a, NEW e, NEW D,
         Turn(q, incr, C, c, j, q1, q2, a, e, D)
  PROVE  /\ q1 \in RegFiles /\ q1["edi"] = q["edi"] + incr /\ q1[c] = j + 1 /\ q["edi"] \in Int
         /\ q2 \in RegFiles /\ q2["edi"] = q["edi"] + incr /\ q2[c] = j
         /\ [q1 EXCEPT ![c] = q1[c] - 1] = q2
         /\ Regs(q2, a, D) = Regs(q, e, D)
         /\ j = 0 => q2 = Regs(q, e, D)
<1> USE DEF Turn
<1>1. /\ q1 \in RegFiles /\ q1["edi"] = q["edi"] + incr /\ q["edi"] \in Int
      /\ \A x \in Registers \ {"edi"} : q1[x] = IF x \in C THEN 0 ELSE q[x]
  BY RegsTyped
<1>2. q1 = [x \in Registers |-> q1[x]] /\ \A x \in Registers : q1[x] \in Int
  BY <1>1 DEF RegFiles
<1>3. q1[c] = j + 1
  BY <1>1
<1>4. q2 = [x \in Registers |-> IF x = c THEN j ELSE q1[x]]
  BY <1>2
<1>5. q2 \in RegFiles /\ q2["edi"] = q["edi"] + incr /\ q2[c] = j
  BY <1>1, <1>2, <1>4 DEF RegFiles, Registers
<1>6. [q1 EXCEPT ![c] = q1[c] - 1] = q2
  <2>1. q1[c] - 1 = j
    BY <1>3
  <2> QED
    BY <2>1
<1>8. e = incr + a /\ (j = 0 => a = 0)
  OBVIOUS
<1>9. D = C \cup {c}
  OBVIOUS
<1>10. Regs(q1, a, D) = Regs(q, e, D)
  <2>1. D = C \cup D
    BY <1>9
  <2> QED
    BY <1>8, <2>1, RegsTwice
<1>11. \A x \in Registers \ {"edi"} : x \notin D => q2[x] = q1[x]
  BY <1>4, <1>9
<1>12. \A x \in Registers : (IF x = "edi" THEN q2["edi"] + a ELSE IF x \in D THEN 0 ELSE q2[x])
                           = (IF x = "edi" THEN q1["edi"] + a ELSE IF x \in D THEN 0 ELSE q1[x])
  BY <1>1, <1>5, <1>11
<1>13. Regs(q2, a, D) = Regs(q1, a, D)
  BY <1>12 DEF Regs
<1>14. Regs(q2, a, D) = Regs(q, e, D)
  BY <1>10, <1>13
<1>15. ASSUME j = 0 PROVE Regs(q2, a, D) = q2
  <2>1. a = 0
    BY <1>8, <1>15
  <2>2. \A x \in Registers \ {"edi"} : x \in D => q2[x] = 0
    BY <1>1, <1>4, <1>9, <1>15
  <2>3. \A x \in Registers : (IF x = "edi" THEN q2["edi"] + a ELSE IF x \in D THEN 0 ELSE q2[x]) = q2[x]
    BY <1>1, <1>5, <2>1, <2>2
  <2>4. Regs(q2, a, D) = [x \in Registers |-> q2[x]]
    BY <2>3 DEF Regs
  <2> QED
    BY <1>5, <2>4 DEF RegFiles
<1> QED
  BY <1>1, <1>3, <1>5, <1>6, <1>14, <1>15

(* The loop counts its turns, if its body leaves the counter alone. *)
LEMMA LoopTurns ==
  ASSUME NEW m, NEW body \in Seq(Instrs), NEW v, NEW incr \in Int, NEW C, NEW O \in SUBSET Int,
         BodyRuns(m, body, v, incr, C, O), NEW c \in Registers \ {"edi"}, c \notin C,
         NEW k \in Nat \ {0}, NEW r \in RegFiles, r[c] = k, NEW t \in Seq(Int),
         m.safe => InStorage(m, Words(r, RowSlots(O, incr, k)))
  PROVE  Runs(m, body \o <<Back(c, body)>>, St(r, v, t), St(Regs(r, k * incr, C \cup {c}), v, t),
              Words(r, RowSlots(O, incr, k)) \X {v})
<1> DEFINE loop == body \o <<Back(c, body)>>
           Holds(j) == \A q \in RegFiles :
             q[c] = j /\ (m.safe => InStorage(m, Words(q, RowSlots(O, incr, j))))
               => Runs(m, loop, St(q, v, t), St(Regs(q, j * incr, C \cup {c}), v, t),
                       Words(q, RowSlots(O, incr, j)) \X {v})
           S == {j \in Nat : j = 0 \/ Holds(j)}
<1>1. ASSUME NEW j \in Nat, j \in S PROVE j + 1 \in S
  <2>0. j + 1 # 0 /\ j + 1 \in Nat
    OBVIOUS
  <2> SUFFICES ASSUME NEW q \in RegFiles, q[c] = j + 1,
                      m.safe => InStorage(m, Words(q, RowSlots(O, incr, j + 1))),
                      NEW p, NEW sd, CodeAt(m, p, loop)
               PROVE  Through(m, Before(p, St(q, v, t), sd),
                              Before(p + Len(loop), St(Regs(q, (j + 1) * incr, C \cup {c}), v, t),
                                     sd \cup (Words(q, RowSlots(O, incr, j + 1)) \X {v})))
    <3> HIDE DEF loop
    <3> QED
      BY <2>0 DEF Runs
  <2>a. PICK q1 : q1 = Regs(q, incr, C)
    OBVIOUS
  <2>b. PICK q2 : q2 = [q1 EXCEPT ![c] = j]
    OBVIOUS
  <2>c. PICK a \in Int, e \in Int : a = j * incr /\ e = (j + 1) * incr
    OBVIOUS
  <2>d. PICK D : D = C \cup {c}
    OBVIOUS
  <2>e. Turn(q, incr, C, c, j, q1, q2, a, e, D)
    BY <2>a, <2>b, <2>c, <2>d DEF Turn
  <2> DEFINE sd1 == sd \cup (Words(q, O) \X {v})
             x == Cfg(p + Len(body), q1, v, t, sd1)
  <2>1. /\ q1 \in RegFiles /\ q1["edi"] = q["edi"] + incr /\ q1[c] = j + 1 /\ q["edi"] \in Int
        /\ q2 \in RegFiles /\ q2["edi"] = q["edi"] + incr /\ q2[c] = j
        /\ [q1 EXCEPT ![c] = q1[c] - 1] = q2
        /\ Regs(q2, a, D) = Regs(q, e, D)
        /\ j = 0 => q2 = Regs(q, e, D)
    <3> HIDE DEF loop, Holds, S, x, sd1
    <3> QED
      BY <2>e, LoopRegs
  <2>2. q2 \in RegFiles /\ q2["edi"] = q["edi"] + incr /\ q2[c] = j
    BY <2>1
  <2>3. Words(q, RowSlots(O, incr, j + 1)) = Words(q, O) \cup Words(q2, RowSlots(O, incr, j))
    <3> QED
      BY <2>2, WordsRow
  <2>4. Runs(m, body, St(q, v, t), St(q1, v, t), Words(q, O) \X {v})
    <3>1. m.safe => InStorage(m, Words(q, O))
      BY <2>3 DEF InStorage
    <3> QED
      BY <2>a, <3>1 DEF BodyRuns
  <2>5. /\ x.pc \in Int /\ x.pc <= Len(m.code) /\ ~Faults(m, x)
        /\ q1[c] = 1 => After(m, x) = Cfg(p + Len(body) + 1, q2, v, t, sd1)
        /\ q1[c] # 1 => After(m, x) = Cfg(p, q2, v, t, sd1)
        /\ p + Len(loop) = p + Len(body) + 1 /\ CodeAt(m, p, body)
    <3>1. AtBack(m, body, c, p, q1, q2, v, t, sd1, x)
      BY <2>1 DEF AtBack
    <3> HIDE DEF sd1, x
    <3> QED
      BY <3>1, RunBack
  <2>6. Through(m, Before(p, St(q, v, t), sd), x)
    BY <2>4, <2>5 DEF Runs, Before, St
  <2>8. Regs(q2, j * incr, C \cup {c}) = Regs(q, (j + 1) * incr, C \cup {c})
    BY <2>1, <2>c, <2>d
  <2>9. CASE j = 0
    <3>1. After(m, x) = Cfg(p + Len(loop), q2, v, t, sd1)
      <4>1. q1[c] = 1
        BY <2>1, <2>9
      <4> HIDE DEF x, sd1, loop
      <4> QED
        BY <2>5, <4>1
    <3>2. q2 = Regs(q, (j + 1) * incr, C \cup {c})
      BY <2>1, <2>c, <2>d, <2>9
    <3>3. sd1 = sd \cup (Words(q, RowSlots(O, incr, j + 1)) \X {v})
      <4>1. RowSlots(O, incr, j) = {}
        BY <2>9, RowSlotsEmpty
      <4>2. Words(q, RowSlots(O, incr, j + 1)) = Words(q, O)
        BY <2>3, <4>1 DEF Words
      <4> QED
        BY <4>2
    <3>4. After(m, x) = Before(p + Len(loop), St(Regs(q, (j + 1) * incr, C \cup {c}), v, t),
                               sd \cup (Words(q, RowSlots(O, incr, j + 1)) \X {v}))
      BY <3>1, <3>2, <3>3 DEF Before, St
    <3>5. Through(m, x, Before(p + Len(loop), St(Regs(q, (j + 1) * incr, C \cup {c}), v, t),
                               sd \cup (Words(q, RowSlots(O, incr, j + 1)) \X {v})))
      BY <2>5, <3>4, ThroughStep
    <3> QED
      BY <2>6, <3>5, ThroughBoth
  <2>10. CASE j # 0
    <3>1. After(m, x) = Before(p, St(q2, v, t), sd1)
      <4>1. q1[c] # 1
        BY <2>1, <2>10
      <4> QED
        BY <2>5, <4>1 DEF Before, St
    <3>2. Through(m, x, Before(p, St(q2, v, t), sd1))
      BY <2>5, <3>1, ThroughStep
    <3>3. Runs(m, loop, St(q2, v, t), St(Regs(q2, j * incr, C \cup {c}), v, t),
               Words(q2, RowSlots(O, incr, j)) \X {v})
      <4>1. m.safe => InStorage(m, Words(q2, RowSlots(O, incr, j)))
        BY <2>3 DEF InStorage
      <4>2. Holds(j)
        BY <1>1, <2>10
      <4> HIDE DEF loop
      <4> QED
        BY <2>2, <4>1, <4>2
    <3>4. Through(m, Before(p, St(q2, v, t), sd1),
                  Before(p + Len(loop), St(Regs(q2, j * incr, C \cup {c}), v, t),
                         sd1 \cup (Words(q2, RowSlots(O, incr, j)) \X {v})))
      BY <3>3 DEF Runs
    <3>5. sd1 \cup (Words(q2, RowSlots(O, incr, j)) \X {v})
            = sd \cup (Words(q, RowSlots(O, incr, j + 1)) \X {v})
      BY <2>3
    <3>6. Through(m, x, Before(p + Len(loop), St(Regs(q, (j + 1) * incr, C \cup {c}), v, t),
                               sd \cup (Words(q, RowSlots(O, incr, j + 1)) \X {v})))
      <4> HIDE DEF x, sd1, loop
      <4>1. Through(m, Before(p, St(q2, v, t), sd1),
                    Before(p + Len(loop), St(Regs(q, (j + 1) * incr, C \cup {c}), v, t),
                           sd \cup (Words(q, RowSlots(O, incr, j + 1)) \X {v})))
        BY <2>8, <3>4, <3>5
      <4> QED
        BY <3>2, <4>1, ThroughBoth
    <3> QED
      BY <2>6, <3>6, ThroughBoth
  <2> QED
    BY <2>9, <2>10
<1>2. Nat \subseteq S
  <2>1. 0 \in S
    OBVIOUS
  <2> HIDE DEF S
  <2> QED
    BY <1>1, <2>1, Induction
<1>3. Holds(k)
  BY <1>2
<1> QED
  BY <1>3

(* If the body counts in the loop's register too, the loop never ends.     *)
LEMMA LoopEver ==
  ASSUME NEW m, NEW body \in Seq(Instrs), NEW v, NEW incr \in Int, NEW C, NEW O \in SUBSET Int,
         BodyRuns(m, body, v, incr, C, O), NEW c \in Registers \ {"edi"}, c \in C, ~m.safe,
         NEW r \in RegFiles, NEW t \in Seq(Int), NEW y, NEW W
  PROVE  Runs(m, body \o <<Back(c, body)>>, St(r, v, t), y, W)
<1> DEFINE loop == body \o <<Back(c, body)>>
<1> SUFFICES ASSUME NEW p, NEW sd, CodeAt(m, p, loop)
             PROVE  Through(m, Before(p, St(r, v, t), sd), Before(p + Len(loop), y, sd \cup W))
  <2> SUFFICES Runs(m, loop, St(r, v, t), y, W)
    OBVIOUS
  <2> HIDE DEF loop
  <2> QED
    BY DEF Runs
<1> DEFINE Sds == {sd \cup (A \X {v}) : A \in SUBSET Int}
           Qs == {q \in RegFiles : q[c] = 0}
           at == p + Len(body)
           H == {Cfg(at, q, v, t, s) : q \in Qs, s \in Sds}
<1>1. ASSUME NEW q \in RegFiles, NEW s \in Sds
      PROVE  \E k \in H : Through(m, Cfg(p, q, v, t, s), k)
  <2>1. Runs(m, body, St(q, v, t), St(Regs(q, incr, C), v, t), Words(q, O) \X {v})
    BY DEF BodyRuns
  <2>2. CodeAt(m, p, body)
    <3>1. PICK x, w : x = Cfg(p + Len(body), r, v, t, sd) /\ w = [r EXCEPT ![c] = r[c] - 1]
      OBVIOUS
    <3>2. AtBack(m, body, c, p, r, w, v, t, sd, x)
      BY <3>1 DEF AtBack
    <3> QED
      BY <3>2, RunBack
  <2>3. PICK k : k = Cfg(at, Regs(q, incr, C), v, t, s \cup (Words(q, O) \X {v}))
    OBVIOUS
  <2>4. Through(m, Cfg(p, q, v, t, s), k)
    BY <2>1, <2>2, <2>3 DEF Runs, Before, St
  <2>5. Regs(q, incr, C) \in Qs
    <3>1. PICK w : w = Regs(q, incr, C)
      OBVIOUS
    <3>2. w \in RegFiles /\ w[c] = 0
      BY <3>1, RegsTyped
    <3> QED
      BY <3>1, <3>2
  <2>6. s \cup (Words(q, O) \X {v}) \in Sds
    <3>1. PICK A \in SUBSET Int : s = sd \cup (A \X {v})
      OBVIOUS
    <3>2. Words(q, O) \in SUBSET Int
      <4>1. q["edi"] \in Int
        BY RegsTyped
      <4> QED
        BY <4>1 DEF Words
    <3>3. s \cup (Words(q, O) \X {v}) = sd \cup ((A \cup Words(q, O)) \X {v})
      BY <3>1
    <3>4. A \cup Words(q, O) \in SUBSET Int
      BY <3>2
    <3> QED
      BY <3>3, <3>4
  <2>7. k \in H
    <3> HIDE DEF Sds, Qs
    <3> QED
      BY <2>3, <2>5, <2>6
  <2> HIDE DEF H
  <2> QED
    BY <2>4, <2>7
<1>2. ASSUME NEW h \in H
      PROVE  /\ h.pc \in Int /\ h.pc <= Len(m.code) /\ ~Faults(m, h)
             /\ \E k \in H : Through(m, After(m, h), k)
  <2>1. PICK q \in Qs, s \in Sds : h = Cfg(at, q, v, t, s)
    <3> HIDE DEF Qs, Sds
    <3> QED
      OBVIOUS
  <2>2. q \in RegFiles /\ q[c] = 0
    OBVIOUS
  <2> HIDE DEF Qs, Sds, H
  <2>3. PICK w : w = [q EXCEPT ![c] = q[c] - 1]
    OBVIOUS
  <2>4. AtBack(m, body, c, p, q, w, v, t, s, h)
    BY <2>1, <2>2, <2>3 DEF AtBack
  <2>5. w \in RegFiles
    <3>1. q \in [Registers -> Int] /\ q[c] - 1 \in Int
      BY <2>2 DEF RegFiles
    <3> QED
      BY <2>3, <3>1 DEF RegFiles
  <2>6. h.pc \in Int /\ h.pc <= Len(m.code) /\ ~Faults(m, h) /\ After(m, h) = Cfg(p, w, v, t, s)
    BY <2>2, <2>4, RunBack
  <2> QED
    BY <1>1, <2>5, <2>6
<1>3. sd \in Sds
  <2>1. {} \in SUBSET Int /\ sd = sd \cup ({} \X {v})
    OBVIOUS
  <2> QED
    BY <2>1
<1>4. PICK h \in H : Through(m, Cfg(p, r, v, t, sd), h)
  <2> HIDE DEF H, Sds
  <2> QED
    BY <1>1, <1>3
<1>5. PICK d : d = Before(p + Len(loop), y, sd \cup W)
  OBVIOUS
<1>6. Through(m, h, d)
  <2> HIDE DEF H
  <2> QED
    BY <1>2, ThroughEver
<1>7. Through(m, Cfg(p, r, v, t, sd), d)
  BY <1>4, <1>6, ThroughBoth
<1> QED
  BY <1>5, <1>7 DEF Before, St

(* Both together. *)
Loop(m, body, v, incr, C, O, c) ==
  /\ body \in Seq(Instrs) /\ incr \in Int /\ O \in SUBSET Int
  /\ BodyRuns(m, body, v, incr, C, O)
  /\ c \in Registers \ {"edi"} /\ (m.safe => c \notin C)

LEMMA LoopRuns ==
  ASSUME NEW m, NEW body, NEW v, NEW incr, NEW C, NEW O, NEW c, Loop(m, body, v, incr, C, O, c),
         NEW k \in Nat \ {0}, NEW r \in RegFiles, r[c] = k, NEW t \in Seq(Int),
         m.safe => InStorage(m, Words(r, RowSlots(O, incr, k)))
  PROVE  Runs(m, body \o <<Back(c, body)>>, St(r, v, t), St(Regs(r, k * incr, C \cup {c}), v, t),
              Words(r, RowSlots(O, incr, k)) \X {v})
<1> USE DEF Loop
<1>1. CASE c \in C
  BY <1>1, LoopEver
<1>2. CASE c \notin C
  BY <1>2, LoopTurns
<1> QED
  BY <1>1, <1>2

-----------------------------------------------------------------------------
(* The registers in which a list's code counts, and the code, from those   *)
(* of its entries' sub lists.                                              *)
EntryCounters(g, b) ==
  CASE IsFew(b) -> {} [] IsFill(b) -> {"ecx"}
    [] IsLoop(b) -> {Counter(b.height)} \cup g[b.sub]

LEMMA EntryIsOne ==
  ASSUME NEW b
  PROVE  /\ IsFew(b) \/ IsFill(b) \/ IsLoop(b)
         /\ ~(IsFew(b) /\ IsFill(b)) /\ ~(IsFew(b) /\ IsLoop(b)) /\ ~(IsFill(b) /\ IsLoop(b))
         /\ IsFill(b) => b.sub = NoBlocklist
         /\ IsLoop(b) => b.sub # NoBlocklist
BY DEF IsFew, IsFill, IsLoop

LEMMA CounterIs ==
  ASSUME NEW h
  PROVE  Counter(h) \in Registers \ {"edi"}
BY DEF Counter, Registers

LEMMA CountersAre ==
  ASSUME NEW bl \in AllLists
  PROVE  Counters[bl] = UNION {EntryCounters(Counters, b) : b \in ToSet(bl)}
<1> DEFINE V == SUBSET Registers
           Body(g) == [l \in AllLists |-> UNION {EntryCounters(g, b) : b \in ToSet(l)}]
           F == [g \in [AllLists -> V] |-> Body(g)]
<1>1. ASSUME NEW g \in [AllLists -> V], NEW l \in AllLists
      PROVE  UNION {EntryCounters(g, b) : b \in ToSet(l)} \in V
  <2> SUFFICES ASSUME NEW b \in ToSet(l) PROVE EntryCounters(g, b) \subseteq Registers
    OBVIOUS
  <2>1. b \in EntriesOver(AllLists) /\ b.sub \in AllLists
    <3>1. PICK i \in DOMAIN l : b = l[i]
      BY DEF ToSet
    <3> QED
      BY <3>1, EntriesOfLists
  <2>2. g[b.sub] \subseteq Registers
    BY <2>1
  <2>3. Counter(b.height) \in Registers /\ "ecx" \in Registers
    BY CounterIs DEF Registers
  <2> QED
    BY <2>2, <2>3, EntryIsOne DEF EntryCounters
<1>2. Recursive(F, AllLists, V, ListRank)
  <2>1. V # {}
    OBVIOUS
  <2>2. ListRank \in [AllLists -> Nat]
    <3>1. \A l \in AllLists : ListRank[l] \in Nat
      BY ListRankIs
    <3> QED
      BY <3>1 DEF ListRank
  <2>3. F \in [[AllLists -> V] -> [AllLists -> V]]
    <3> HIDE DEF V
    <3> QED
      BY <1>1
  <2>4. ASSUME NEW g \in [AllLists -> V], NEW h \in [AllLists -> V], NEW l \in AllLists,
               \A r \in AllLists : ListRank[r] < ListRank[l] => g[r] = h[r]
        PROVE  F[g][l] = F[h][l]
    <3>1. \A i \in DOMAIN l : g[l[i].sub] = h[l[i].sub]
      BY <2>4, EntriesOfLists
    <3>2. \A b \in ToSet(l) : g[b.sub] = h[b.sub]
      BY <3>1 DEF ToSet
    <3>3. \A b \in ToSet(l) : EntryCounters(g, b) = EntryCounters(h, b)
      BY <3>2 DEF EntryCounters
    <3>4. UNION {EntryCounters(g, b) : b \in ToSet(l)} = UNION {EntryCounters(h, b) : b \in ToSet(l)}
      BY <3>3
    <3> HIDE DEF V
    <3> QED
      BY <3>4
  <2> HIDE DEF V, F
  <2> QED
    BY <2>1, <2>2, <2>3, <2>4 DEF Recursive
<1>3. PICK f : f \in [AllLists -> V] /\ f = F[f]
  <2> HIDE DEF V, F
  <2> QED
    BY <1>2, RecursionExists
<1>4. f = Body(f)
  <2> HIDE DEF V, Body
  <2> QED
    BY <1>3
<1>5. Counters = Body(Counters)
  <2> USE DEF Body, EntryCounters
  <2> QED
    BY <1>4 DEF Counters
<1>6. PICK c : c = Counters
  OBVIOUS
<1>7. c = Body(c)
  BY <1>5, <1>6
<1>8. c[bl] = UNION {EntryCounters(c, b) : b \in ToSet(bl)}
  BY <1>7
<1> QED
  BY <1>6, <1>8

EntryReused(g, b) ==
  LET height == IF b.count < 0 THEN Last(b.sub).height + 1 ELSE b.height
  IN b.sub # NoBlocklist /\ (\/ height <= 3 /\ Counter(height) \in Counters[b.sub]
                             \/ g[b.sub])

LEMMA ReusedIs ==
  ASSUME NEW bl \in AllLists
  PROVE  Reused[bl] = \E b \in ToSet(bl) : EntryReused(Reused, b)
<1> DEFINE V == BOOLEAN
           Body(g) == [l \in AllLists |-> \E b \in ToSet(l) : EntryReused(g, b)]
           F == [g \in [AllLists -> V] |-> Body(g)]
<1>2. Recursive(F, AllLists, V, ListRank)
  <2>1. V # {}
    OBVIOUS
  <2>2. ListRank \in [AllLists -> Nat]
    <3>1. \A l \in AllLists : ListRank[l] \in Nat
      BY ListRankIs
    <3> QED
      BY <3>1 DEF ListRank
  <2>3. F \in [[AllLists -> V] -> [AllLists -> V]]
    OBVIOUS
  <2>4. ASSUME NEW g \in [AllLists -> V], NEW h \in [AllLists -> V], NEW l \in AllLists,
               \A r \in AllLists : ListRank[r] < ListRank[l] => g[r] = h[r]
        PROVE  F[g][l] = F[h][l]
    <3>1. \A i \in DOMAIN l : g[l[i].sub] = h[l[i].sub]
      BY <2>4, EntriesOfLists
    <3>2. \A b \in ToSet(l) : g[b.sub] = h[b.sub]
      BY <3>1 DEF ToSet
    <3>3. \A b \in ToSet(l) : EntryReused(g, b) <=> EntryReused(h, b)
      BY <3>2 DEF EntryReused
    <3>4. (\E b \in ToSet(l) : EntryReused(g, b)) <=> (\E b \in ToSet(l) : EntryReused(h, b))
      BY <3>3
    <3> HIDE DEF V
    <3> QED
      BY <3>4
  <2> HIDE DEF V, F
  <2> QED
    BY <2>1, <2>2, <2>3, <2>4 DEF Recursive
<1>3. PICK f : f \in [AllLists -> V] /\ f = F[f]
  <2> HIDE DEF V, F
  <2> QED
    BY <1>2, RecursionExists
<1>4. f = Body(f)
  <2> HIDE DEF V, Body
  <2> QED
    BY <1>3
<1>5. Reused = Body(Reused)
  <2> USE DEF Body, EntryReused
  <2> QED
    BY <1>4 DEF Reused
<1>6. PICK c : c = Reused
  OBVIOUS
<1>7. c = Body(c)
  BY <1>5, <1>6
<1>8. c[bl] = \E b \in ToSet(bl) : EntryReused(c, b)
  BY <1>7
<1> QED
  BY <1>6, <1>8

Codes == [code : Seq(Instrs), out : Int]

LEMMA OneTyped ==
  ASSUME NEW op \in Ops, NEW reg \in Registers \cup {"none"}, NEW num \in Int, NEW val \in Values
  PROVE  <<Ins(op, reg, num, val)>> \in Seq(Instrs)
BY InsTyped

LEMMA FewTyped ==
  ASSUME NEW at \in Int, NEW incr \in Int, NEW count \in Int
  PROVE  [j \in 1 .. count |-> Store(at + (j - 1) * incr)] \in Seq(Instrs)
<1>1. PICK k \in Nat : 1 .. count = 1 .. k
  <2>1. CASE count < 0
    <3>1. 1 .. count = 1 .. 0
      BY <2>1
    <3> QED
      BY <3>1
  <2>2. CASE count >= 0
    BY <2>2
  <2> QED
    BY <2>1, <2>2
<1>2. \A j \in 1 .. k : Store(at + (j - 1) * incr) \in Instrs
  <2> TAKE j \in 1 .. k
  <2>1. at + (j - 1) * incr \in Int
    OBVIOUS
  <2> QED
    BY <2>1, InsTyped DEF Store, Ops, Registers, Values
<1>3. [j \in 1 .. k |-> Store(at + (j - 1) * incr)] \in Seq(Instrs)
  <2> HIDE DEF Store
  <2> QED
    BY <1>2
<1> QED
  BY <1>1, <1>3

LEMMA FillTyped ==
  ASSUME NEW b, b.count \in Int, b.incr \in Int
  PROVE  /\ FillLoop(b) \in Seq(Instrs)
         /\ <<Store(0)>> \o AddEdi(b.incr) \in Seq(Instrs)
<1>1. AddEdi(b.incr) \in Seq(Instrs) /\ <<Store(0)>> \in Seq(Instrs)
  <2>1. 0 \in Int
    OBVIOUS
  <2>2. <<Store(0)>> \in Seq(Instrs)
    BY <2>1, OneTyped DEF Store, Ops, Registers, Values
  <2>3. AddEdi(b.incr) \in Seq(Instrs)
    <3>1. PICK k \in Int : k = b.incr
      OBVIOUS
    <3>2. [x \in Registers |-> 0] \in RegFiles
      BY DEF RegFiles
    <3> QED
      BY <3>1, <3>2, RunAddEdi
  <2> QED
    BY <2>2, <2>3
<1>2. PICK body : body = <<Store(0)>> \o AddEdi(b.incr)
  OBVIOUS
<1>3. body \in Seq(Instrs) /\ Len(body) \in Int
  BY <1>1, <1>2
<1>4. /\ <<Mov("ecx", b.count)>> \in Seq(Instrs)
      /\ <<Ins("stos", "edi", 0, "eax")>> \in Seq(Instrs)
      /\ <<Back("ecx", body)>> \in Seq(Instrs)
  BY <1>3, OneTyped DEF Mov, Back, Ops, Registers, Values
<1>5. body \o <<Back("ecx", body)>> \in Seq(Instrs)
  BY <1>3, <1>4
<1>6. FillLoop(b) = <<Mov("ecx", b.count)>> \o (IF b.incr <= 4 THEN <<Ins("stos", "edi", 0, "eax")>>
                                              ELSE body \o <<Back("ecx", body)>>)
  BY <1>2 DEF FillLoop
<1> HIDE DEF Mov, Ins, Back
<1> QED
  BY <1>2, <1>3, <1>4, <1>5, <1>6

Associates(s, t, u) == (s \o t) \o u = s \o (t \o u)

LEMMA AssociatesAll ==
  ASSUME NEW X, NEW s \in Seq(X), NEW t \in Seq(X), NEW u \in Seq(X)
  PROVE  Associates(s, t, u) /\ (s \o t) \o u \in Seq(X)
<1>1. s \o t \in Seq(X) /\ t \o u \in Seq(X) /\ (s \o t) \o u \in Seq(X) /\ s \o (t \o u) \in Seq(X)
  OBVIOUS
<1>2. PICK l, w : l = (s \o t) \o u /\ w = s \o (t \o u)
  OBVIOUS
<1>3. Len(l) = Len(w) /\ \A i \in 1 .. Len(l) : l[i] = w[i]
  BY <1>1, <1>2
<1>4. l = w
  BY <1>1, <1>2, <1>3, SeqEqual
<1> QED
  BY <1>1, <1>2, <1>4 DEF Associates

LoopBody(height, incr, sub) ==
  (IF height > 3 THEN <<Push("ecx")>> \o sub.code \o <<Pop("ecx")>> ELSE sub.code)
    \o AddEdi(incr - sub.out)

LEMMA AddEdiTyped ==
  ASSUME NEW k \in Int
  PROVE  AddEdi(k) \in Seq(Instrs)
<1>1. [x \in Registers |-> 0] \in RegFiles
  BY DEF RegFiles
<1> QED
  BY <1>1, RunAddEdi

LEMMA BodyTyped ==
  ASSUME NEW height, NEW incr \in Int, NEW sub \in Codes
  PROVE  LoopBody(height, incr, sub) \in Seq(Instrs)
<1>1. sub.code \in Seq(Instrs) /\ sub.out \in Int
  BY DEF Codes
<1>2. AddEdi(incr - sub.out) \in Seq(Instrs)
  BY <1>1, AddEdiTyped
<1>3. <<Push("ecx")>> \in Seq(Instrs) /\ <<Pop("ecx")>> \in Seq(Instrs)
  BY OneTyped DEF Push, Pop, Ops, Registers, Values
<1> HIDE DEF Push, Pop
<1>4. <<Push("ecx")>> \o sub.code \o <<Pop("ecx")>> \in Seq(Instrs)
  BY <1>1, <1>3
<1> QED
  BY <1>1, <1>2, <1>4 DEF LoopBody

LEMMA EntryLoopIs ==
  ASSUME NEW first \in Instrs, NEW height, NEW incr \in Int, NEW sub \in Codes,
         NEW body, body = LoopBody(height, incr, sub), NEW c, c = Counter(height)
  PROVE  /\ EntryLoop(first, height, incr, sub) = <<first>> \o (body \o <<Back(c, body)>>)
         /\ EntryLoop(first, height, incr, sub) \in Seq(Instrs)
         /\ body \in Seq(Instrs) /\ body \o <<Back(c, body)>> \in Seq(Instrs)
<1>1. body \in Seq(Instrs) /\ Len(body) \in Int
  BY BodyTyped
<1>2. c \in Registers \ {"edi"}
  BY CounterIs
<1>3. <<Back(c, body)>> \in Seq(Instrs)
  BY <1>1, <1>2, OneTyped DEF Back, Ops, Registers, Values
<1>4. PICK f, u : f = <<first>> /\ u = <<Back(c, body)>>
  OBVIOUS
<1>5. f \in Seq(Instrs) /\ u \in Seq(Instrs)
  BY <1>3, <1>4
<1>6. EntryLoop(first, height, incr, sub) = (f \o body) \o u
  BY <1>4 DEF EntryLoop, LoopBody
<1>7. Associates(f, body, u) /\ (f \o body) \o u \in Seq(Instrs)
  BY <1>1, <1>5, AssociatesAll
<1>8. (f \o body) \o u = f \o (body \o u)
  BY <1>7 DEF Associates
<1>9. body \o u \in Seq(Instrs)
  BY <1>1, <1>5
<1> QED
  BY <1>1, <1>4, <1>6, <1>7, <1>8, <1>9

LEMMA CodeStepTyped ==
  ASSUME NEW g, NEW b \in EntriesOver(AllLists), g[b.sub] \in Codes, NEW prev \in Codes
  PROVE  CodeStep(g, b, prev) \in Codes
<1>1. b.ofs \in Int /\ b.count \in Int /\ b.incr \in Int /\ b.height \in Int
  BY DEF EntriesOver
<1>2. prev.code \in Seq(Instrs) /\ prev.out \in Int
  BY DEF Codes
<1>3. PICK at \in Int : at = b.ofs - prev.out
  BY <1>1, <1>2
<1>4. AfterLoop(b) \in Int
  BY <1>1 DEF AfterLoop
<1>5. AddEdi(at) \in Seq(Instrs)
  BY AddEdiTyped
<1>6. CASE IsFew(b)
  <2>1. PICK s : s = [j \in 1 .. b.count |-> Store(at + (j - 1) * b.incr)]
    OBVIOUS
  <2>2. s \in Seq(Instrs)
    BY <1>1, <2>1, FewTyped
  <2>3. CodeStep(g, b, prev) = [code |-> prev.code \o s, out |-> prev.out]
    BY <1>3, <1>6, <2>1, EntryIsOne DEF CodeStep
  <2>4. prev.code \o s \in Seq(Instrs)
    BY <1>2, <2>2
  <2> QED
    BY <1>2, <2>3, <2>4 DEF Codes
<1>7. CASE IsFill(b)
  <2>1. PICK s : s = FillLoop(b)
    OBVIOUS
  <2>2. s \in Seq(Instrs)
    BY <1>1, <2>1, FillTyped
  <2>3. CodeStep(g, b, prev) = [code |-> prev.code \o AddEdi(at) \o s, out |-> AfterLoop(b)]
    BY <1>3, <1>7, <2>1, EntryIsOne DEF CodeStep
  <2>4. prev.code \o AddEdi(at) \o s \in Seq(Instrs)
    BY <1>2, <1>5, <2>2
  <2> QED
    BY <1>4, <2>3, <2>4 DEF Codes
<1>8. CASE IsLoop(b)
  <2>0. PICK sub, first, c, body : /\ sub = g[b.sub] /\ c = Counter(b.height) /\ first = Mov(c, b.count)
                                   /\ body = LoopBody(b.height, b.incr, sub)
    OBVIOUS
  <2>1. PICK s : s = EntryLoop(first, b.height, b.incr, sub)
    OBVIOUS
  <2>2. s \in Seq(Instrs)
    <3>1. c \in Registers
      BY <2>0, CounterIs
    <3>2. first \in Instrs
      BY <1>1, <2>0, <3>1, InsTyped DEF Mov, Ops, Values
    <3> QED
      BY <1>1, <2>0, <2>1, <3>2, EntryLoopIs
  <2>3. CodeStep(g, b, prev) = [code |-> prev.code \o AddEdi(at) \o s, out |-> AfterLoop(b)]
    BY <1>3, <1>8, <2>0, <2>1, EntryIsOne DEF CodeStep
  <2>4. prev.code \o AddEdi(at) \o s \in Seq(Instrs)
    BY <1>2, <1>5, <2>2
  <2> QED
    BY <1>4, <2>3, <2>4 DEF Codes
<1> QED
  BY <1>6, <1>7, <1>8, EntryIsOne

(* The code after each of the entries. *)
IsCodes(f, g, bl) ==
  /\ Len(bl) \in Nat
  /\ f \in [0 .. Len(bl) -> Codes]
  /\ f[0] = NoCode
  /\ \A i \in 1 .. Len(bl) : f[i] = CodeStep(g, bl[i], f[i - 1])
  /\ ListCode(g, bl) = f[Len(bl)]

LEMMA NoCodeTyped ==
  NoCode \in Codes
<1>1. << >> \in Seq(Instrs)
  BY EmptySeq
<1> QED
  BY <1>1 DEF NoCode, Codes

LEMMA ListCodeIs ==
  ASSUME NEW g, NEW bl \in AllLists, \A i \in DOMAIN bl : g[bl[i].sub] \in Codes
  PROVE  \E f : IsCodes(f, g, bl)
<1> DEFINE m == Len(bl)
           V == Codes
           G == [p \in (1 .. m) \X V |-> CodeStep(g, bl[p[1]], p[2])]
           Body(h) == [i \in 0 .. m |-> IF i = 0 THEN NoCode ELSE CodeStep(g, bl[i], h[i - 1])]
<1>0. m \in Nat /\ DOMAIN bl = 1 .. m /\ \A i \in 1 .. m : bl[i] \in EntriesOver(AllLists)
  <2>1. bl \in Seq(EntriesOver(AllLists))
    BY EntriesOfLists
  <2> QED
    BY <2>1, LenProperties
<1>1. \A i \in 1 .. m, c \in V : CodeStep(g, bl[i], c) \in V
  BY <1>0, CodeStepTyped
<1> HIDE DEF m, V
<1>2. StepOn(G, m, V)
  BY <1>1 DEF StepOn
<1>3. NoCode \in V
  BY NoCodeTyped DEF V
<1>4. PICK f : IsUpto(f, m, V, NoCode, G)
  <2> HIDE DEF G
  <2> QED
    BY <1>0, <1>2, <1>3, UptoExists
<1>5. \E h : h = Body(h)
  <2>1. f \in [0 .. m -> V] /\ f[0] = NoCode /\ \A i \in 1 .. m : f[i] = G[<<i, f[i - 1]>>]
    BY <1>4 DEF IsUpto
  <2>2. \A i \in 1 .. m : f[i] = CodeStep(g, bl[i], f[i - 1])
    <3> TAKE i \in 1 .. m
    <3>1. i - 1 \in 0 .. m
      BY <1>0
    <3>2. f[i - 1] \in V
      BY <2>1, <3>1
    <3>3. G[<<i, f[i - 1]>>] = CodeStep(g, bl[i], f[i - 1])
      BY <3>2
    <3> QED
      BY <2>1, <3>3
  <2>3. \A i \in 0 .. m : f[i] = IF i = 0 THEN NoCode ELSE CodeStep(g, bl[i], f[i - 1])
    <3> TAKE i \in 0 .. m
    <3>1. i = 0 \/ i \in 1 .. m
      BY <1>0
    <3> QED
      BY <2>1, <2>2, <3>1
  <2>4. f = [i \in 0 .. m |-> f[i]]
    BY <2>1
  <2>5. f = Body(f)
    BY <2>3, <2>4
  <2> QED
    BY <2>5
<1>6. PICK h : h = Body(h) /\ ListCode(g, bl) = h[m]
  <2> DEFINE c == CHOOSE h : h = Body(h)
  <2>1. c = Body(c)
    <3> HIDE DEF Body
    <3> QED
      BY <1>5
  <2>2. ListCode(g, bl) = c[m]
    BY DEF ListCode, m
  <2> HIDE DEF c, Body
  <2> QED
    BY <2>1, <2>2
<1>7. \A i \in 0 .. m : h[i] = IF i = 0 THEN NoCode ELSE CodeStep(g, bl[i], h[i - 1])
  BY <1>6
<1>8. h[0] = NoCode /\ \A i \in 1 .. m : h[i] = CodeStep(g, bl[i], h[i - 1])
  <2>1. 0 \in 0 .. m /\ \A i \in 1 .. m : i \in 0 .. m /\ i # 0
    BY <1>0
  <2> QED
    BY <1>7, <2>1
<1>9. h \in [0 .. m -> V]
  <2> DEFINE S == {k \in 0 .. m : h[k] \in V}
  <2>1. 0 \in S
    BY <1>0, <1>3, <1>8
  <2>2. ASSUME NEW k \in 0 .. m - 1, k \in S PROVE k + 1 \in S
    <3>1. k + 1 \in 1 .. m /\ (k + 1) - 1 = k /\ k + 1 \in 0 .. m
      BY <1>0
    <3>2. h[k + 1] = CodeStep(g, bl[k + 1], h[k])
      BY <1>8, <3>1
    <3>3. h[k] \in V
      BY <2>2
    <3>4. h[k + 1] \in V
      BY <1>1, <3>1, <3>2, <3>3
    <3> QED
      BY <3>1, <3>4
  <2>3. 0 .. m \subseteq S
    <3> HIDE DEF S
    <3> QED
      BY <1>0, <2>1, <2>2, InductionUpto
  <2>4. h = [i \in 0 .. m |-> h[i]]
    BY <1>6
  <2> QED
    BY <2>3, <2>4
<1> QED
  BY <1>0, <1>6, <1>8, <1>9 DEF IsCodes, m, V

LEMMA ListCodeLocal ==
  ASSUME NEW g, NEW h, NEW bl \in AllLists, \A i \in DOMAIN bl : g[bl[i].sub] \in Codes,
         \A i \in DOMAIN bl : g[bl[i].sub] = h[bl[i].sub]
  PROVE  ListCode(g, bl) = ListCode(h, bl)
<1>1. PICK u : IsCodes(u, g, bl)
  BY ListCodeIs
<1>2. PICK v : IsCodes(v, h, bl)
  BY ListCodeIs
<1>3. PICK m \in Nat : m = Len(bl) /\ DOMAIN bl = 1 .. m
  <2>1. bl \in Seq(EntriesOver(AllLists))
    BY EntriesOfLists
  <2> QED
    BY <2>1, LenProperties
<1> DEFINE S == {k \in 0 .. m : u[k] = v[k]}
<1>4. 0 \in S
  BY <1>1, <1>2 DEF IsCodes
<1>5. ASSUME NEW k \in 0 .. m - 1, k \in S PROVE k + 1 \in S
  <2>1. k + 1 \in 1 .. m /\ (k + 1) - 1 = k /\ k + 1 \in 0 .. m
    BY <1>3
  <2>2. u[k + 1] = CodeStep(g, bl[k + 1], u[k]) /\ v[k + 1] = CodeStep(h, bl[k + 1], v[k])
    BY <1>1, <1>2, <1>3, <2>1 DEF IsCodes
  <2>3. g[bl[k + 1].sub] = h[bl[k + 1].sub] /\ u[k] = v[k]
    BY <1>3, <1>5, <2>1
  <2>4. CodeStep(g, bl[k + 1], u[k]) = CodeStep(h, bl[k + 1], v[k])
    BY <2>3 DEF CodeStep
  <2> QED
    BY <2>1, <2>2, <2>4
<1>6. m \in S
  <2> HIDE DEF S
  <2>1. 0 .. m \subseteq S
    BY <1>3, <1>4, <1>5, InductionUpto
  <2> QED
    BY <1>3, <2>1
<1> QED
  BY <1>1, <1>2, <1>3, <1>6 DEF IsCodes

LEMMA CodesAre ==
  ASSUME NEW bl \in AllLists
  PROVE  /\ SubVarInit[bl] \in Codes
         /\ SubVarInit[bl] = ListCode(SubVarInit, bl)
         /\ \E f : IsCodes(f, SubVarInit, bl)
<1> DEFINE V == Codes
           Body(g) == [l \in AllLists |-> ListCode(g, l)]
           F == [g \in [AllLists -> V] |-> Body(g)]
<1>a. ASSUME NEW g, NEW l \in AllLists, \A i \in DOMAIN l : g[l[i].sub] \in V
      PROVE  ListCode(g, l) \in V
  <2>1. PICK f : IsCodes(f, g, l)
    BY <1>a, ListCodeIs
  <2>2. Len(l) \in 0 .. Len(l) /\ f \in [0 .. Len(l) -> Codes] /\ ListCode(g, l) = f[Len(l)]
    BY <2>1 DEF IsCodes
  <2> QED
    BY <2>2
<1>b. ListRank \in [AllLists -> Nat]
  <2>1. \A l \in AllLists : ListRank[l] \in Nat
    BY ListRankIs
  <2> QED
    BY <2>1 DEF ListRank
<1>1. ASSUME NEW g \in [AllLists -> V], NEW l \in AllLists PROVE ListCode(g, l) \in V
  <2>1. \A i \in DOMAIN l : g[l[i].sub] \in V
    BY EntriesOfLists
  <2> QED
    BY <1>a, <2>1
<1>2. Recursive(F, AllLists, V, ListRank)
  <2>1. V # {}
    BY NoCodeTyped
  <2>3. F \in [[AllLists -> V] -> [AllLists -> V]]
    <3> HIDE DEF V
    <3> QED
      BY <1>1
  <2>4. ASSUME NEW g \in [AllLists -> V], NEW h \in [AllLists -> V], NEW l \in AllLists,
               \A r \in AllLists : ListRank[r] < ListRank[l] => g[r] = h[r]
        PROVE  F[g][l] = F[h][l]
    <3>1. \A i \in DOMAIN l : g[l[i].sub] = h[l[i].sub] /\ g[l[i].sub] \in V
      BY <2>4, EntriesOfLists
    <3>2. ListCode(g, l) = ListCode(h, l)
      BY <3>1, ListCodeLocal
    <3> HIDE DEF V
    <3> QED
      BY <3>2
  <2> HIDE DEF V, F
  <2> QED
    BY <1>b, <2>1, <2>3, <2>4 DEF Recursive
<1>3. PICK f : f \in [AllLists -> V] /\ f = F[f]
  <2> HIDE DEF V, F
  <2> QED
    BY <1>2, RecursionExists
<1>4. f = Body(f)
  <2> HIDE DEF V, Body
  <2> QED
    BY <1>3
<1>5. SubVarInit = Body(SubVarInit)
  BY <1>4 DEF SubVarInit, Body
<1>6. PICK c : c = SubVarInit
  OBVIOUS
<1>7. c = Body(c)
  BY <1>5, <1>6
<1>8. \A l \in AllLists : c[l] = ListCode(c, l)
  BY <1>7
<1> HIDE DEF Body, F, V
<1> DEFINE P == {l \in AllLists : c[l] \in V}
<1>9. ASSUME NEW l \in AllLists, \A r \in AllLists : ListRank[r] < ListRank[l] => r \in P
      PROVE  l \in P
  <2>1. \A i \in DOMAIN l : c[l[i].sub] \in V
    BY <1>9, EntriesOfLists
  <2>2. ListCode(c, l) \in V
    BY <1>a, <2>1
  <2> QED
    BY <1>8, <2>2
<1>10. AllLists \subseteq P
  <2> HIDE DEF P
  <2> QED
    BY <1>9, <1>b, RankInduction
<1>11. \A i \in DOMAIN bl : c[bl[i].sub] \in V
  BY <1>10, EntriesOfLists
<1>12. PICK h : IsCodes(h, c, bl)
  BY <1>11, ListCodeIs DEF V
<1> QED
  BY <1>6, <1>8, <1>10, <1>12 DEF V

-----------------------------------------------------------------------------
(* The code of an entry. *)
(* The registers q1 after a counter c has been set to k. *)
Counting(q, c, k, q1, C, out) ==
  /\ q \in RegFiles /\ c \in Registers \ {"edi"} /\ k \in Int /\ q1 = [q EXCEPT ![c] = k]
  /\ c \in C /\ out \in Int

LEMMA MovedRegs ==
  ASSUME NEW q, NEW c, NEW k, NEW q1, NEW C, NEW out, Counting(q, c, k, q1, C, out)
  PROVE  /\ q1 \in RegFiles /\ q1[c] = k /\ q1["edi"] = q["edi"] /\ Regs(q1, out, C) = Regs(q, out, C)
         /\ \A O : Words(q1, O) = Words(q, O)
<1> USE DEF Counting
<1>1. q = [x \in Registers |-> q[x]] /\ \A x \in Registers : q[x] \in Int
  BY DEF RegFiles
<1>2. q1 = [x \in Registers |-> IF x = c THEN k ELSE q[x]]
  BY <1>1
<1>3. q1 \in RegFiles /\ q1[c] = k /\ q1["edi"] = q["edi"]
  BY <1>1, <1>2 DEF RegFiles, Registers
<1>4. \A x \in Registers : (IF x = "edi" THEN q1["edi"] + out ELSE IF x \in C THEN 0 ELSE q1[x])
                         = (IF x = "edi" THEN q["edi"] + out ELSE IF x \in C THEN 0 ELSE q[x])
  BY <1>2, <1>3
<1>5. Regs(q1, out, C) = Regs(q, out, C)
  BY <1>4 DEF Regs
<1>6. \A O : Words(q1, O) = Words(q, O)
  BY <1>3 DEF Words
<1> QED
  BY <1>3, <1>5, <1>6

(* Pointers in a row. *)
Fill(m, b, q, t, v, k, incr, A, z) ==
  /\ b.count = k /\ b.incr = incr /\ k \in Nat \ {0} /\ incr \in Int /\ incr >= 4
  /\ q \in RegFiles /\ t \in Seq(Int) /\ A = RowSlots({0}, incr, k) /\ z \in Int /\ z = k * incr
  /\ m.safe => InStorage(m, Words(q, A))

LEMMA FillBody ==
  ASSUME NEW m, NEW v, NEW incr \in Int
  PROVE  BodyRuns(m, <<Store(0)>> \o AddEdi(incr), v, incr, {}, {0})
<1> SUFFICES ASSUME NEW r \in RegFiles, NEW t \in Seq(Int), m.safe => InStorage(m, Words(r, {0}))
             PROVE  Runs(m, <<Store(0)>> \o AddEdi(incr), St(r, v, t), St(Regs(r, incr, {}), v, t),
                         Words(r, {0}) \X {v})
  BY DEF BodyRuns
<1>1. PICK s, u, z : s = <<Store(0)>> /\ u = AddEdi(incr) /\ z = 0
  OBVIOUS
<1>2. s \in Seq(Instrs) /\ u \in Seq(Instrs)
  BY <1>1, AddEdiTyped, OneTyped DEF Store, Ops, Registers, Values
<1>3. r["edi"] + z \in Int /\ Words(r, {0}) = {r["edi"] + z} /\ z \in Int
  BY <1>1, RegsTyped DEF Words
<1>4. Runs(m, s, St(r, v, t), St(r, v, t), Words(r, {0}) \X {v})
  <2>1. m.safe => InStorage(m, {r["edi"] + z})
    BY <1>3
  <2>2. Runs(m, <<Store(z)>>, St(r, v, t), St(r, v, t), {r["edi"] + z} \X {v})
    BY <1>3, <2>1, RunStore
  <2> QED
    BY <1>1, <1>3, <2>2
<1>5. Runs(m, u, St(r, v, t), St(Regs(r, incr, {}), v, t), {})
  BY <1>1, RunAddEdi
<1>6. Runs(m, s \o u, St(r, v, t), St(Regs(r, incr, {}), v, t), (Words(r, {0}) \X {v}) \cup {})
  BY <1>2, <1>4, <1>5, RunsConcat
<1>7. (Words(r, {0}) \X {v}) \cup {} = Words(r, {0}) \X {v}
  OBVIOUS
<1> QED
  BY <1>1, <1>6, <1>7

LEMMA FillRuns ==
  ASSUME NEW m, NEW b, NEW q, NEW t, NEW v, NEW k, NEW incr, NEW A, NEW z,
         Fill(m, b, q, t, v, k, incr, A, z)
  PROVE  /\ Runs(m, FillLoop(b), St(q, v, t), St(Regs(q, z, {"ecx"}), v, t), Words(q, A) \X {v})
         /\ FillLoop(b) \in Seq(Instrs)
<1> USE DEF Fill
<1>0. FillLoop(b) \in Seq(Instrs) /\ <<Store(0)>> \o AddEdi(b.incr) \in Seq(Instrs)
  BY FillTyped
<1>1. PICK q1 : q1 = [q EXCEPT !["ecx"] = k]
  OBVIOUS
<1>2. PICK c, C : c = "ecx" /\ C = {"ecx"}
  OBVIOUS
<1>3. c \in Registers \ {"edi"} /\ c \in C /\ c \in Registers
  BY <1>2 DEF Registers
<1>4. /\ q1 \in RegFiles /\ q1[c] = k /\ Regs(q1, z, C) = Regs(q, z, C)
      /\ Words(q1, A) = Words(q, A)
  <2>1. Counting(q, c, k, q1, C, z)
    BY <1>1, <1>2, <1>3 DEF Counting
  <2> QED
    BY <2>1, MovedRegs
<1>5. PICK first : first = <<Mov(c, b.count)>>
  OBVIOUS
<1>6. first \in Seq(Instrs)
  BY <1>3, <1>5, OneTyped DEF Mov, Ops, Values
<1>7. Runs(m, first, St(q, v, t), St(q1, v, t), {})
  <2>1. k \in Int /\ q1 = [q EXCEPT ![c] = k] /\ first = <<Mov(c, k)>>
    BY <1>1, <1>2, <1>5
  <2> QED
    BY <1>3, <2>1, RunMov
<1>8. PICK rest \in Seq(Instrs) :
        /\ FillLoop(b) = first \o rest
        /\ Runs(m, rest, St(q1, v, t), St(Regs(q1, z, C), v, t), Words(q1, A) \X {v})
  <2>1. CASE incr = 4
    <3>1. PICK rest : rest = <<Ins("stos", "edi", 0, "eax")>>
      OBVIOUS
    <3>2. rest \in Seq(Instrs)
      BY <3>1, OneTyped DEF Ops, Registers, Values
    <3>3. FillLoop(b) = first \o rest
      BY <1>2, <1>5, <2>1, <3>1 DEF FillLoop
    <3>4. A = RowSlots({0}, 4, k) /\ z = k * 4
      BY <2>1
    <3>5. m.safe => InStorage(m, Words(q1, RowSlots({0}, 4, k)))
      BY <1>4, <3>4
    <3>6. k \in Nat /\ q1["ecx"] = k
      BY <1>2, <1>4
    <3>7. Runs(m, rest, St(q1, v, t), St(Regs(q1, k * 4, {"ecx"}), v, t),
               Words(q1, RowSlots({0}, 4, k)) \X {v})
      BY <1>4, <3>1, <3>5, <3>6, RunStos
    <3>8. Runs(m, rest, St(q1, v, t), St(Regs(q1, z, C), v, t), Words(q1, A) \X {v})
      BY <1>2, <3>4, <3>7
    <3> QED
      BY <3>2, <3>3, <3>8
  <2>2. CASE incr # 4
    <3>1. PICK body : body = <<Store(0)>> \o AddEdi(incr)
      OBVIOUS
    <3>2. body \in Seq(Instrs) /\ Len(body) \in Int
      BY <1>0, <3>1
    <3>3. PICK rest : rest = body \o <<Back(c, body)>>
      OBVIOUS
    <3>4. rest \in Seq(Instrs)
      <4>1. <<Back(c, body)>> \in Seq(Instrs)
        BY <1>3, <3>2, OneTyped DEF Back, Ops, Values
      <4> HIDE DEF Back
      <4> QED
        BY <3>2, <3>3, <4>1
    <3>5. FillLoop(b) = first \o rest
      <4>1. ~(b.incr <= 4)
        BY <2>2
      <4> QED
        BY <1>2, <1>5, <3>1, <3>3, <4>1 DEF FillLoop
    <3>6. PICK O, E : O = {0} /\ E = {}
      OBVIOUS
    <3>7. Loop(m, body, v, incr, E, O, c)
      <4>1. BodyRuns(m, body, v, incr, E, O)
        BY <3>1, <3>6, FillBody
      <4>2. O \in SUBSET Int
        BY <3>6
      <4> QED
        BY <1>3, <3>2, <3>6, <4>1, <4>2 DEF Loop
    <3>8. A = RowSlots(O, incr, k) /\ (m.safe => InStorage(m, Words(q1, RowSlots(O, incr, k))))
      BY <1>4, <3>6
    <3>9. Runs(m, body \o <<Back(c, body)>>, St(q1, v, t), St(Regs(q1, k * incr, E \cup {c}), v, t),
               Words(q1, RowSlots(O, incr, k)) \X {v})
      BY <1>4, <3>7, <3>8, LoopRuns
    <3>10. E \cup {c} = C
      BY <1>2, <3>6
    <3>11. Runs(m, rest, St(q1, v, t), St(Regs(q1, z, C), v, t), Words(q1, A) \X {v})
      BY <3>3, <3>8, <3>9, <3>10
    <3> QED
      BY <3>4, <3>5, <3>11
  <2> QED
    BY <2>1, <2>2
<1>9. Runs(m, first \o rest, St(q, v, t), St(Regs(q1, z, C), v, t), {} \cup (Words(q1, A) \X {v}))
  BY <1>6, <1>7, <1>8, RunsConcat
<1>10. {} \cup (Words(q1, A) \X {v}) = Words(q, A) \X {v}
  BY <1>4
<1> QED
  BY <1>0, <1>2, <1>4, <1>8, <1>9, <1>10

(* A list whose code sets its pointers. *)
ListRuns(m, v, bl) ==
  (m.safe => ~Reused[bl]) =>
    BodyRuns(m, SubVarInit[bl].code, v, SubVarInit[bl].out, Counters[bl], ToSet(CodeFixed[bl]))

PoppedRegs(r, q, q1, q2, out, C, D) ==
  /\ r \in RegFiles /\ out \in Int /\ q = Regs(r, out, C) /\ q1 = [q EXCEPT !["ecx"] = r["ecx"]]
  /\ D = C \ {"ecx"} /\ q2 = Regs(r, out, D)

LEMMA PopBack ==
  ASSUME NEW r, NEW q, NEW q1, NEW q2, NEW out, NEW C, NEW D, PoppedRegs(r, q, q1, q2, out, C, D)
  PROVE  q1 = q2 /\ q \in RegFiles /\ q2 \in RegFiles /\ r["ecx"] \in Int
<1> USE DEF PoppedRegs
<1>1. q \in RegFiles /\ q2 \in RegFiles
  BY RegsTyped
<1>2. q1 = [x \in Registers |-> IF x = "ecx" THEN r["ecx"] ELSE q[x]]
  BY <1>1 DEF RegFiles
<1>3. \A x \in Registers : (IF x = "ecx" THEN r["ecx"] ELSE q[x])
                         = (IF x = "edi" THEN r["edi"] + out ELSE IF x \in D THEN 0 ELSE r[x])
  BY DEF Regs
<1> QED
  BY <1>1, <1>2, <1>3 DEF Regs, RegFiles, Registers

(* What surrounds the code of a sub list: ecx is kept. *)
LEMMA SaveEcx ==
  ASSUME NEW m, NEW v, NEW s \in Seq(Instrs), NEW out \in Int, NEW C, NEW O,
         BodyRuns(m, s, v, out, C, O)
  PROVE  /\ BodyRuns(m, <<Push("ecx")>> \o s \o <<Pop("ecx")>>, v, out, C \ {"ecx"}, O)
         /\ <<Push("ecx")>> \o s \o <<Pop("ecx")>> \in Seq(Instrs)
<1>1. PICK push, pop : push = <<Push("ecx")>> /\ pop = <<Pop("ecx")>>
  OBVIOUS
<1>2. push \in Seq(Instrs) /\ pop \in Seq(Instrs)
  BY <1>1, OneTyped DEF Push, Pop, Ops, Registers, Values
<1>3. push \o s \in Seq(Instrs) /\ (push \o s) \o pop \in Seq(Instrs)
  BY <1>2
<1>4. ASSUME NEW r \in RegFiles, NEW t \in Seq(Int), m.safe => InStorage(m, Words(r, O))
      PROVE  Runs(m, (push \o s) \o pop, St(r, v, t), St(Regs(r, out, C \ {"ecx"}), v, t), Words(r, O) \X {v})
  <2>1. PICK q, D, q1, q2 : q = Regs(r, out, C) /\ D = C \ {"ecx"} /\ q1 = [q EXCEPT !["ecx"] = r["ecx"]]
                            /\ q2 = Regs(r, out, D)
    OBVIOUS
  <2>2. q1 = q2 /\ q \in RegFiles /\ r["ecx"] \in Int
    <3>1. PoppedRegs(r, q, q1, q2, out, C, D)
      BY <2>1 DEF PoppedRegs
    <3> QED
      BY <3>1, PopBack
  <2>3. PICK k, u : k = r["ecx"] /\ u = <<k>> \o t
    OBVIOUS
  <2>4. k \in Int /\ u \in Seq(Int)
    BY <2>2, <2>3
  <2>5. Runs(m, push, St(r, v, t), St(r, v, u), {})
    BY <1>1, <2>3, RunPush
  <2>6. Runs(m, s, St(r, v, u), St(q, v, u), Words(r, O) \X {v})
    BY <1>4, <2>1, <2>4 DEF BodyRuns
  <2>7. Runs(m, pop, St(q, v, u), St(q2, v, t), {})
    <3>1. q1 = [q EXCEPT !["ecx"] = k]
      BY <2>1, <2>3
    <3>2. Runs(m, <<Pop("ecx")>>, St(q, v, <<k>> \o t), St([q EXCEPT !["ecx"] = k], v, t), {})
      BY <2>2, <2>4, RunPop
    <3> QED
      BY <1>1, <2>2, <2>3, <3>1, <3>2
  <2>8. Runs(m, push \o s, St(r, v, t), St(q, v, u), {} \cup (Words(r, O) \X {v}))
    BY <1>2, <2>5, <2>6, RunsConcat
  <2>9. Runs(m, (push \o s) \o pop, St(r, v, t), St(q2, v, t), ({} \cup (Words(r, O) \X {v})) \cup {})
    BY <1>2, <1>3, <2>7, <2>8, RunsConcat
  <2>10. ({} \cup (Words(r, O) \X {v})) \cup {} = Words(r, O) \X {v}
    OBVIOUS
  <2> QED
    BY <2>1, <2>9, <2>10
<1>5. BodyRuns(m, (push \o s) \o pop, v, out, C \ {"ecx"}, O)
  BY <1>4 DEF BodyRuns
<1> QED
  BY <1>1, <1>3, <1>5

(* edi is moved to the next block. *)
LEMMA AndAddEdi ==
  ASSUME NEW m, NEW v, NEW s \in Seq(Instrs), NEW out \in Int, NEW incr \in Int, NEW C, NEW O,
         BodyRuns(m, s, v, out, C, O)
  PROVE  BodyRuns(m, s \o AddEdi(incr - out), v, incr, C, O)
<1> SUFFICES ASSUME NEW r \in RegFiles, NEW t \in Seq(Int), m.safe => InStorage(m, Words(r, O))
             PROVE  Runs(m, s \o AddEdi(incr - out), St(r, v, t), St(Regs(r, incr, C), v, t), Words(r, O) \X {v})
  BY DEF BodyRuns
<1>1. PICK k, u : k = incr - out /\ u = AddEdi(k)
  OBVIOUS
<1>2. k \in Int /\ u \in Seq(Instrs) /\ incr = out + k
  BY <1>1, AddEdiTyped
<1>3. PICK q : q = Regs(r, out, C)
  OBVIOUS
<1>4. q \in RegFiles
  BY <1>3, RegsTyped
<1>5. Runs(m, s, St(r, v, t), St(q, v, t), Words(r, O) \X {v})
  BY <1>3 DEF BodyRuns
<1>6. Runs(m, u, St(q, v, t), St(Regs(q, k, {}), v, t), {})
  BY <1>1, <1>2, <1>4, RunAddEdi
<1>7. Regs(q, k, {}) = Regs(r, incr, C)
  <2>1. PICK D : D = {}
    OBVIOUS
  <2>2. C = C \cup D
    BY <2>1
  <2>3. Regs(q, k, D) = Regs(r, incr, C)
    <3>1. Twice(r, out, C, k, D, incr, C, q)
      BY <1>2, <1>3, <2>2 DEF Twice
    <3> QED
      BY <3>1, RegsAgain
  <2> QED
    BY <2>1, <2>3
<1>8. Runs(m, s \o u, St(r, v, t), St(Regs(q, k, {}), v, t), (Words(r, O) \X {v}) \cup {})
  BY <1>2, <1>5, <1>6, RunsConcat
<1>9. (Words(r, O) \X {v}) \cup {} = Words(r, O) \X {v}
  OBVIOUS
<1> QED
  BY <1>1, <1>7, <1>8, <1>9

LEMMA LoopBodyRuns ==
  ASSUME NEW m, NEW v, NEW sub \in Codes, NEW incr \in Int, NEW height, NEW C, NEW O,
         BodyRuns(m, sub.code, v, sub.out, C, O)
  PROVE  BodyRuns(m, LoopBody(height, incr, sub), v, incr, IF height > 3 THEN C \ {"ecx"} ELSE C, O)
<1>1. PICK s, out : s = sub.code /\ out = sub.out
  OBVIOUS
<1>2. s \in Seq(Instrs) /\ out \in Int /\ BodyRuns(m, s, v, out, C, O)
  BY <1>1 DEF Codes
<1>3. CASE height > 3
  <2>1. PICK u, D : u = <<Push("ecx")>> \o s \o <<Pop("ecx")>> /\ D = C \ {"ecx"}
    OBVIOUS
  <2>2. u \in Seq(Instrs) /\ BodyRuns(m, u, v, out, D, O)
    BY <1>2, <2>1, SaveEcx
  <2>3. BodyRuns(m, u \o AddEdi(incr - out), v, incr, D, O)
    BY <1>2, <2>2, AndAddEdi
  <2>4. LoopBody(height, incr, sub) = u \o AddEdi(incr - out)
    BY <1>1, <1>3, <2>1 DEF LoopBody
  <2> QED
    BY <1>3, <2>1, <2>3, <2>4
<1>4. CASE ~(height > 3)
  <2>1. BodyRuns(m, s \o AddEdi(incr - out), v, incr, C, O)
    BY <1>2, AndAddEdi
  <2>2. LoopBody(height, incr, sub) = s \o AddEdi(incr - out)
    BY <1>1, <1>4 DEF LoopBody
  <2> QED
    BY <1>4, <2>1, <2>2
<1> QED
  BY <1>3, <1>4

(* The loop of an entry, around the code sub of its sub list. *)
LoopEntry(m, v, height, incr, sub, c, C, O) ==
  /\ sub \in Codes /\ incr \in Int /\ height \in Int
  /\ BodyRuns(m, sub.code, v, sub.out, C, O) /\ O \in SUBSET Int
  /\ c = Counter(height) /\ (m.safe => ~(height <= 3 /\ c \in C))

LEMMA EntryTurns ==
  ASSUME NEW m, NEW v, NEW height, NEW incr, NEW sub, NEW c, NEW C, NEW O,
         LoopEntry(m, v, height, incr, sub, c, C, O),
         NEW body, body = LoopBody(height, incr, sub), NEW D, D = C \cup {c},
         NEW k \in Nat \ {0}, NEW r \in RegFiles, r[c] = k, NEW t \in Seq(Int),
         m.safe => InStorage(m, Words(r, RowSlots(O, incr, k)))
  PROVE  Runs(m, body \o <<Back(c, body)>>, St(r, v, t), St(Regs(r, k * incr, D), v, t),
              Words(r, RowSlots(O, incr, k)) \X {v})
<1> USE DEF LoopEntry
<1>1. PICK E : E = IF height > 3 THEN C \ {"ecx"} ELSE C
  OBVIOUS
<1>2. BodyRuns(m, body, v, incr, E, O)
  BY <1>1, LoopBodyRuns
<1>3. body \in Seq(Instrs)
  BY BodyTyped
<1>4. c \in Registers \ {"edi"}
  BY CounterIs
<1>5. (height > 3 => c = "ecx") /\ (~(height > 3) => height <= 3)
  BY DEF Counter
<1>6. m.safe => c \notin E
  BY <1>1, <1>5
<1>7. E \cup {c} = D
  BY <1>1, <1>5
<1>8. Loop(m, body, v, incr, E, O, c)
  BY <1>2, <1>3, <1>4, <1>6 DEF Loop
<1> HIDE DEF LoopEntry
<1>9. Runs(m, body \o <<Back(c, body)>>, St(r, v, t), St(Regs(r, k * incr, E \cup {c}), v, t),
           Words(r, RowSlots(O, incr, k)) \X {v})
  BY <1>8, LoopRuns
<1> QED
  BY <1>7, <1>9

LEMMA EntryLoopRuns ==
  ASSUME NEW m, NEW v, NEW height, NEW incr, NEW sub, NEW c, NEW C, NEW O,
         LoopEntry(m, v, height, incr, sub, c, C, O), NEW D, D = C \cup {c},
         NEW k \in Nat \ {0}, NEW q \in RegFiles, NEW t \in Seq(Int),
         NEW z \in Int, z = k * incr, NEW A, A = RowSlots(O, incr, k),
         m.safe => InStorage(m, Words(q, A))
  PROVE  /\ Runs(m, EntryLoop(Mov(c, k), height, incr, sub), St(q, v, t), St(Regs(q, z, D), v, t),
                 Words(q, A) \X {v})
         /\ EntryLoop(Mov(c, k), height, incr, sub) \in Seq(Instrs)
<1>1. PICK body : body = LoopBody(height, incr, sub)
  OBVIOUS
<1>2. PICK first, rest : first = <<Mov(c, k)>> /\ rest = body \o <<Back(c, body)>>
  OBVIOUS
<1>3. c \in Registers /\ c \in Registers \ {"edi"} /\ c \in D
  BY CounterIs DEF LoopEntry
<1>4. Mov(c, k) \in Instrs
  BY <1>3, InsTyped DEF Mov, Ops, Values
<1>5. /\ EntryLoop(Mov(c, k), height, incr, sub) = first \o rest
      /\ EntryLoop(Mov(c, k), height, incr, sub) \in Seq(Instrs)
      /\ rest \in Seq(Instrs) /\ first \in Seq(Instrs)
  <2>1. incr \in Int /\ sub \in Codes /\ c = Counter(height)
    BY DEF LoopEntry
  <2>2. first \in Seq(Instrs)
    BY <1>2, <1>4
  <2> QED
    BY <1>1, <1>2, <1>4, <2>1, <2>2, EntryLoopIs
<1>6. PICK q1 : q1 = [q EXCEPT ![c] = k]
  OBVIOUS
<1>7. q1 \in RegFiles /\ q1[c] = k /\ Regs(q1, z, D) = Regs(q, z, D) /\ Words(q1, A) = Words(q, A)
  <2>1. Counting(q, c, k, q1, D, z)
    BY <1>3, <1>6 DEF Counting
  <2> QED
    BY <2>1, MovedRegs
<1>8. Runs(m, first, St(q, v, t), St(q1, v, t), {})
  <2>1. k \in Int
    OBVIOUS
  <2> QED
    BY <1>2, <1>3, <1>6, <2>1, RunMov
<1>9. Runs(m, rest, St(q1, v, t), St(Regs(q1, z, D), v, t), Words(q1, A) \X {v})
  <2>1. m.safe => InStorage(m, Words(q1, RowSlots(O, incr, k)))
    BY <1>7
  <2>2. Runs(m, body \o <<Back(c, body)>>, St(q1, v, t), St(Regs(q1, k * incr, D), v, t),
             Words(q1, RowSlots(O, incr, k)) \X {v})
    BY <1>1, <1>7, <2>1, EntryTurns
  <2> QED
    BY <1>2, <2>2
<1>10. Runs(m, first \o rest, St(q, v, t), St(Regs(q1, z, D), v, t), {} \cup (Words(q1, A) \X {v}))
  BY <1>5, <1>8, <1>9, RunsConcat
<1>11. {} \cup (Words(q1, A) \X {v}) = Words(q, A) \X {v}
  BY <1>7
<1> QED
  BY <1>5, <1>7, <1>10, <1>11

-----------------------------------------------------------------------------
(* The words an entry describes. *)
SubSlots(b) == IF b.sub = NoBlocklist THEN {0} ELSE ToSet(CodeFixed[b.sub])
EntryRow(b) == RowSlots(SubSlots(b), b.incr, b.count)
EntryWords(b) == {b.ofs + x : x \in EntryRow(b)}

LEMMA SpellsRow ==
  ASSUME NEW s, NEW S, Spells(s, S), NEW ofs \in Int, NEW incr \in Int, NEW count \in Nat
  PROVE  Spells(Row(s, ofs, incr, count), {ofs + x : x \in RowSlots(S, incr, count)})
<1>0. PICK bk \in Seq(Int) : bk = s
  BY DEF Spells
<1> DEFINE All(k) == {ofs + x : x \in RowSlots(S, incr, k)}
           P == {k \in Nat : Spells(Row(bk, ofs, incr, k), All(k))}
<1>1. 0 \in P
  <2>1. Row(bk, ofs, incr, 0) = << >>
    BY RowParts
  <2>2. All(0) = {}
    BY RowSlotsEmpty
  <2>3. Spells(<< >>, {})
    BY DEF Spells, ToSet
  <2> QED
    BY <2>1, <2>2, <2>3
<1>2. ASSUME NEW k \in Nat, k \in P PROVE k + 1 \in P
  <2>1. Row(bk, ofs, incr, k + 1) = Row(bk, ofs, incr, k) \o Moved(bk, ofs + k * incr)
    BY RowNext
  <2>2. PICK q, One : q = ofs + k * incr /\ One = {q + o : o \in S}
    OBVIOUS
  <2>3. q \in Int /\ \A o \in S : o \in Int
    <3>1. \A o \in S : o \in Int
      BY DEF Spells, ToSet
    <3> QED
      BY <2>2, <3>1
  <2>4. Spells(Moved(bk, q), One)
    BY <1>0, <2>2, <2>3, SpellsMoved
  <2>5. All(k + 1) = All(k) \cup One
    <3>1. RowSlots(S, incr, k + 1) = RowSlots(S, incr, k) \cup BlockSlots(S, incr, k)
      BY RowSlotsNext
    <3>2. \A o \in S : ofs + (k * incr + o) = q + o
      BY <2>2, <2>3
    <3>3. {ofs + x : x \in BlockSlots(S, incr, k)} = One
      BY <2>2, <3>2 DEF BlockSlots
    <3> QED
      BY <3>1, <3>3
  <2>6. Spells(Row(bk, ofs, incr, k), All(k))
    BY <1>2
  <2> HIDE DEF All
  <2>7. Spells(Row(bk, ofs, incr, k) \o Moved(bk, q), All(k) \cup One)
    BY <2>4, <2>6, SpellsConcat
  <2>8. Spells(Row(bk, ofs, incr, k + 1), All(k + 1))
    BY <2>1, <2>2, <2>5, <2>7
  <2> QED
    BY <2>8
<1>3. count \in P
  <2> HIDE DEF P
  <2> QED
    BY <1>1, <1>2, Induction
<1>4. Spells(Row(bk, ofs, incr, count), All(count))
  BY <1>3
<1> QED
  BY <1>0, <1>4

LEMMA EntrySpells ==
  ASSUME NEW b \in EntriesOver(AllLists), b.count \in Nat
  PROVE  Spells(EntryOffsets(b), EntryWords(b)) /\ SubSlots(b) \in SUBSET Int
<1>1. PICK s : s = IF b.sub = NoBlocklist THEN <<0>> ELSE CodeFixed[b.sub]
  OBVIOUS
<1>2. s \in Seq(Int) /\ ToSet(s) = SubSlots(b) /\ ToSet(s) \subseteq Int
  <2>1. CASE b.sub = NoBlocklist
    <3>1. s = <<0>> /\ SubSlots(b) = {0} /\ ToSet(<<0>>) = {0}
      BY <1>1, <2>1 DEF SubSlots, ToSet
    <3> QED
      BY <3>1, ZeroOffset
  <2>2. CASE b.sub # NoBlocklist
    <3>1. b.sub \in AllLists
      BY DEF EntriesOver
    <3>2. s = CodeFixed[b.sub] /\ s \in Seq(Int) /\ SubSlots(b) = ToSet(s)
      BY <1>1, <2>2, <3>1, CodeFixedIs DEF SubSlots
    <3>3. ToSet(s) \subseteq Int
      BY <3>2 DEF ToSet
    <3> QED
      BY <3>2, <3>3
  <2> QED
    BY <2>1, <2>2
<1>3. Spells(s, SubSlots(b))
  BY <1>2 DEF Spells
<1>4. b.ofs \in Int /\ b.incr \in Int
  BY DEF EntriesOver
<1>5. PICK ofs, incr, count, S : ofs = b.ofs /\ incr = b.incr /\ count = b.count /\ S = SubSlots(b)
  OBVIOUS
<1>6. Spells(Row(s, ofs, incr, count), {ofs + x : x \in RowSlots(S, incr, count)})
  BY <1>3, <1>4, <1>5, SpellsRow
<1>7. EntryOffsets(b) = Row(s, ofs, incr, count)
  BY <1>1, <1>5 DEF EntryOffsets
<1>8. EntryWords(b) = {ofs + x : x \in RowSlots(S, incr, count)}
  BY <1>5 DEF EntryWords, EntryRow
<1> QED
  BY <1>2, <1>6, <1>7, <1>8

(* The offsets a list describes are the words of its entries. *)
LEMMA ListSpells ==
  ASSUME NEW bl \in AllLists, \A i \in DOMAIN bl : bl[i].count \in Nat
  PROVE  ToSet(CodeFixed[bl]) = UNION {EntryWords(bl[i]) : i \in DOMAIN bl}
<1>1. PICK ss : ss = [i \in DOMAIN bl |-> EntryOffsets(bl[i])]
  OBVIOUS
<1>2. ss \in Seq(Seq(Int)) /\ Len(ss) = Len(bl) /\ CodeFixed[bl] = FlattenSeq(ss)
  BY <1>1, CodeFixedParts, CodeFixedIs
<1>3. PICK m \in Nat : m = Len(bl) /\ DOMAIN bl = 1 .. m
  <2>1. bl \in Seq(EntriesOver(AllLists))
    BY EntriesOfLists
  <2> QED
    BY <2>1, LenProperties
<1>4. PICK f \in [0 .. Len(ss) -> Seq(Int)] :
        /\ f[0] = << >> /\ \A i \in 1 .. Len(ss) : f[i] = f[i - 1] \o ss[i]
        /\ FlattenSeq(ss) = f[Len(ss)]
  BY <1>2, FlattenIs
<1> DEFINE U(k) == UNION {EntryWords(bl[i]) : i \in 1 .. k}
           S == {k \in 0 .. m : Spells(f[k], U(k))}
<1>5. 0 \in S
  <2>1. U(0) = {} /\ f[0] = << >>
    BY <1>4
  <2>2. Spells(<< >>, {})
    BY DEF Spells, ToSet
  <2> QED
    BY <2>1, <2>2
<1>6. ASSUME NEW k \in 0 .. m - 1, k \in S PROVE k + 1 \in S
  <2>1. k + 1 \in 1 .. m /\ (k + 1) - 1 = k /\ k + 1 \in 0 .. m
    BY <1>3
  <2>2. f[k + 1] = f[k] \o ss[k + 1] /\ ss[k + 1] = EntryOffsets(bl[k + 1])
    BY <1>1, <1>2, <1>3, <1>4, <2>1
  <2>3. bl[k + 1] \in EntriesOver(AllLists) /\ bl[k + 1].count \in Nat
    BY <1>3, <2>1, EntriesOfLists
  <2>4. Spells(EntryOffsets(bl[k + 1]), EntryWords(bl[k + 1]))
    BY <2>3, EntrySpells
  <2>5. U(k + 1) = U(k) \cup EntryWords(bl[k + 1])
    <3>1. 1 .. k + 1 = (1 .. k) \cup {k + 1}
      BY <1>3
    <3> QED
      BY <3>1
  <2>6. Spells(f[k], U(k))
    BY <1>6
  <2> HIDE DEF U
  <2>7. Spells(f[k] \o EntryOffsets(bl[k + 1]), U(k) \cup EntryWords(bl[k + 1]))
    BY <2>4, <2>6, SpellsConcat
  <2> QED
    BY <2>1, <2>2, <2>5, <2>7
<1>7. m \in S
  <2> HIDE DEF S
  <2>1. 0 .. m \subseteq S
    BY <1>3, <1>5, <1>6, InductionUpto
  <2> QED
    BY <1>3, <2>1
<1> QED
  BY <1>2, <1>3, <1>4, <1>7 DEF Spells

-----------------------------------------------------------------------------
(* The code of an entry. *)
Few(m, s, x, v, base, ofs, incr, count) ==
  /\ base \in Int /\ ofs \in Int /\ incr \in Int /\ count \in {1, 2}
  /\ s \in Seq(Instrs) /\ Len(s) = count
  /\ \A j \in 1 .. count : Runs(m, <<s[j]>>, x, x, {base + (ofs + (j - 1) * incr)} \X {v})

LEMMA FewRuns ==
  ASSUME NEW m, NEW s, NEW x, NEW v, NEW base, NEW ofs, NEW incr, NEW count,
         Few(m, s, x, v, base, ofs, incr, count)
  PROVE  Runs(m, s, x, x, {base + (ofs + y) : y \in RowSlots({0}, incr, count)} \X {v})
<1> USE DEF Few
<1>1. RowSlots({0}, incr, count) = {i * incr + o : i \in 0 .. count - 1, o \in {0}}
  BY RowSlotsAre
<1>2. CASE count = 1
  <2>1. s = <<s[1]>>
    BY <1>2
  <2>2. RowSlots({0}, incr, count) = {0}
    <3>1. 0 .. count - 1 = {0} /\ 0 * incr + 0 = 0
      BY <1>2
    <3> QED
      BY <1>1, <3>1
  <2>3. {base + (ofs + y) : y \in RowSlots({0}, incr, count)} = {base + (ofs + (1 - 1) * incr)}
    <3>1. base + (ofs + (1 - 1) * incr) = base + (ofs + 0)
      OBVIOUS
    <3> QED
      BY <2>2, <3>1
  <2>4. Runs(m, <<s[1]>>, x, x, {base + (ofs + (1 - 1) * incr)} \X {v})
    <3>1. 1 \in 1 .. count
      BY <1>2
    <3> QED
      BY <3>1
  <2> QED
    BY <2>1, <2>3, <2>4
<1>3. CASE count = 2
  <2>1. PICK s1, s2 : s1 = <<s[1]>> /\ s2 = <<s[2]>>
    OBVIOUS
  <2>2. s = s1 \o s2 /\ s1 \in Seq(Instrs) /\ s2 \in Seq(Instrs)
    BY <1>3, <2>1
  <2>3. PICK a1, a2 : a1 = base + (ofs + (1 - 1) * incr) /\ a2 = base + (ofs + (2 - 1) * incr)
    OBVIOUS
  <2>4. RowSlots({0}, incr, count) = {0, incr}
    <3>1. BlockSlots({0}, incr, 0) = {0} /\ BlockSlots({0}, incr, 1) = {incr}
      BY DEF BlockSlots
    <3>2. 0 .. count - 1 = {0, 1}
      BY <1>3
    <3>3. RowSlots({0}, incr, count) = UNION {BlockSlots({0}, incr, i) : i \in {0, 1}}
      BY <3>2 DEF RowSlots
    <3> QED
      BY <3>1, <3>3
  <2>5. {base + (ofs + y) : y \in RowSlots({0}, incr, count)} = {a1, a2}
    <3>1. a1 = base + (ofs + 0) /\ a2 = base + (ofs + incr)
      BY <2>3
    <3> QED
      BY <2>4, <3>1
  <2>6. Runs(m, s1, x, x, {a1} \X {v}) /\ Runs(m, s2, x, x, {a2} \X {v})
    <3>1. 1 \in 1 .. count /\ 2 \in 1 .. count
      BY <1>3
    <3> QED
      BY <2>1, <2>3, <3>1
  <2>7. Runs(m, s1 \o s2, x, x, ({a1} \X {v}) \cup ({a2} \X {v}))
    BY <2>2, <2>6, RunsConcat
  <2>8. ({a1} \X {v}) \cup ({a2} \X {v}) = {a1, a2} \X {v}
    OBVIOUS
  <2> QED
    BY <2>2, <2>5, <2>7, <2>8
<1> QED
  BY <1>2, <1>3

(* An entry whose code sets its pointers. *)
EntryOk(m, v, b) ==
  /\ b \in EntriesOver(AllLists) /\ b.count \in Nat \ {0}
  /\ b.sub = NoBlocklist => b.incr >= 4
  /\ b.sub # NoBlocklist => b.count # 1 /\ ListRuns(m, v, b.sub)

LoopOf(b) ==
  IF IsFill(b) THEN FillLoop(b)
  ELSE EntryLoop(Mov(Counter(b.height), b.count), b.height, b.incr, SubVarInit[b.sub])

AtLoop(m, v, b, q, t, z, A, C) ==
  /\ EntryOk(m, v, b) /\ ~IsFew(b) /\ (m.safe => ~EntryReused(Reused, b))
  /\ q \in RegFiles /\ t \in Seq(Int)
  /\ z = b.count * b.incr /\ A = EntryRow(b) /\ C = EntryCounters(Counters, b)
  /\ m.safe => InStorage(m, Words(q, A))

LEMMA LoopOfRuns ==
  ASSUME NEW m, NEW v, NEW b, NEW q, NEW t, NEW z, NEW A, NEW C, AtLoop(m, v, b, q, t, z, A, C)
  PROVE  /\ Runs(m, LoopOf(b), St(q, v, t), St(Regs(q, z, C), v, t), Words(q, A) \X {v})
         /\ LoopOf(b) \in Seq(Instrs)
<1>1. PICK k, incr, height, sub, S :
        /\ k = b.count /\ incr = b.incr /\ height = b.height /\ sub = b.sub /\ S = SubSlots(b)
  OBVIOUS
<1>2. /\ k \in Nat \ {0} /\ incr \in Int /\ height \in Int /\ sub \in AllLists
      /\ S \in SUBSET Int /\ A = RowSlots(S, incr, k) /\ z = k * incr /\ z \in Int
  <2>1. b \in EntriesOver(AllLists) /\ b.count \in Nat /\ b.count \in Nat \ {0}
    BY DEF AtLoop, EntryOk
  <2>2. k \in Nat \ {0} /\ incr \in Int /\ height \in Int /\ sub \in AllLists
    BY <1>1, <2>1 DEF EntriesOver
  <2>3. S \in SUBSET Int
    BY <1>1, <2>1, EntrySpells
  <2>4. A = RowSlots(S, incr, k) /\ z = k * incr
    BY <1>1 DEF AtLoop, EntryRow
  <2> QED
    BY <2>2, <2>3, <2>4
<1>3. q \in RegFiles /\ t \in Seq(Int) /\ (m.safe => InStorage(m, Words(q, A)))
  BY DEF AtLoop
<1>4. CASE IsFill(b)
  <2>1. C = {"ecx"} /\ LoopOf(b) = FillLoop(b)
    BY <1>4, EntryIsOne DEF AtLoop, EntryCounters, LoopOf
  <2>2. S = {0} /\ incr >= 4
    BY <1>1, <1>4 DEF IsFill, AtLoop, EntryOk, SubSlots
  <2>3. Fill(m, b, q, t, v, k, incr, A, z)
    BY <1>1, <1>2, <1>3, <2>2 DEF Fill
  <2> QED
    BY <2>1, <2>3, FillRuns
<1>5. CASE ~IsFill(b)
  <2>1. IsLoop(b) /\ sub # NoBlocklist
    BY <1>1, <1>5, EntryIsOne DEF AtLoop
  <2>2. PICK c, G, piece : c = Counter(height) /\ G = Counters[sub] /\ piece = SubVarInit[sub]
    OBVIOUS
  <2>3. C = G \cup {c}
    BY <1>1, <2>1, <2>2, EntryIsOne DEF AtLoop, EntryCounters
  <2>4. LoopOf(b) = EntryLoop(Mov(c, k), height, incr, piece)
    BY <1>1, <1>5, <2>2 DEF LoopOf
  <2>5. m.safe => ~(height <= 3 /\ c \in G) /\ ~Reused[sub]
    <3>1. ~(b.count < 0)
      BY <1>1, <1>2
    <3> QED
      BY <1>1, <2>1, <2>2, <3>1 DEF AtLoop, EntryReused
  <2>6. BodyRuns(m, piece.code, v, piece.out, G, S)
    <3>1. ListRuns(m, v, sub) /\ S = ToSet(CodeFixed[sub])
      BY <1>1, <2>1 DEF AtLoop, EntryOk, SubSlots
    <3> QED
      BY <2>2, <2>5, <3>1 DEF ListRuns
  <2>7. piece \in Codes
    BY <1>2, <2>2, CodesAre
  <2>8. LoopEntry(m, v, height, incr, piece, c, G, S)
    BY <1>2, <2>2, <2>5, <2>6, <2>7 DEF LoopEntry
  <2>9. /\ Runs(m, EntryLoop(Mov(c, k), height, incr, piece), St(q, v, t), St(Regs(q, z, C), v, t),
                Words(q, A) \X {v})
        /\ EntryLoop(Mov(c, k), height, incr, piece) \in Seq(Instrs)
    BY <1>2, <1>3, <2>3, <2>8, EntryLoopRuns
  <2> QED
    BY <2>4, <2>9
<1> QED
  BY <1>4, <1>5

(* The code up to an entry, from r to the words Y. *)
AtStep(m, v, b, r, t, prev, C, Y, next, D) ==
  /\ EntryOk(m, v, b) /\ (m.safe => ~EntryReused(Reused, b))
  /\ prev \in Codes /\ next = CodeStep(SubVarInit, b, prev)
  /\ D = C \cup EntryCounters(Counters, b)
  /\ r \in RegFiles /\ t \in Seq(Int)
  /\ m.safe => InStorage(m, Words(r, EntryWords(b)))
  /\ Runs(m, prev.code, St(r, v, t), St(Regs(r, prev.out, C), v, t), Y)

LEMMA StepRuns ==
  ASSUME NEW m, NEW v, NEW b, NEW r, NEW t, NEW prev, NEW C, NEW Y, NEW next, NEW D,
         AtStep(m, v, b, r, t, prev, C, Y, next, D)
  PROVE  /\ Runs(m, next.code, St(r, v, t), St(Regs(r, next.out, D), v, t),
                 Y \cup (Words(r, EntryWords(b)) \X {v}))
<1>1. PICK k, incr, ofs, at, A, s, out, E, W :
        /\ k = b.count /\ incr = b.incr /\ ofs = b.ofs /\ s = prev.code /\ out = prev.out
        /\ at = ofs - out /\ A = EntryRow(b) /\ E = EntryCounters(Counters, b)
        /\ W = Words(r, EntryWords(b))
  OBVIOUS
<1>2. PICK S : S = SubSlots(b)
  OBVIOUS
<1>3. /\ k \in Nat \ {0} /\ incr \in Int /\ ofs \in Int /\ s \in Seq(Instrs) /\ out \in Int
      /\ at \in Int /\ ofs = out + at /\ S \in SUBSET Int /\ A = RowSlots(S, incr, k) /\ A \subseteq Int
      /\ r \in RegFiles /\ t \in Seq(Int) /\ r["edi"] \in Int
  <2>1. b \in EntriesOver(AllLists) /\ b.count \in Nat /\ b.count \in Nat \ {0} /\ prev \in Codes
    BY DEF AtStep, EntryOk
  <2>2. k \in Nat \ {0} /\ incr \in Int /\ ofs \in Int
    BY <1>1, <2>1 DEF EntriesOver
  <2>3. s \in Seq(Instrs) /\ out \in Int
    BY <1>1, <2>1 DEF Codes
  <2>4. at \in Int /\ ofs = out + at
    BY <1>1, <2>2, <2>3
  <2>5. S \in SUBSET Int
    BY <1>2, <2>1, EntrySpells
  <2>6. A = RowSlots(S, incr, k)
    BY <1>1, <1>2 DEF EntryRow
  <2>7. A \subseteq Int
    BY <2>2, <2>5, <2>6, RowSlotsFirst
  <2>8. r \in RegFiles /\ t \in Seq(Int) /\ r["edi"] \in Int
    BY DEF AtStep, RegFiles, Registers
  <2> QED
    BY <2>2, <2>3, <2>4, <2>5, <2>6, <2>7, <2>8
<1>4. Runs(m, s, St(r, v, t), St(Regs(r, out, C), v, t), Y) /\ (m.safe => InStorage(m, W))
  BY <1>1 DEF AtStep
<1>5. CASE IsFew(b)
  <2>1. E = {} /\ D = C
    BY <1>1, <1>5, EntryIsOne DEF EntryCounters, AtStep
  <2>2. PICK u : u = [j \in 1 .. k |-> Store(at + (j - 1) * incr)]
    OBVIOUS
  <2>3. next.code = s \o u /\ next.out = out
    <3>1. next = [code |-> prev.code \o [j \in 1 .. b.count |-> Store((b.ofs - prev.out) + (j - 1) * b.incr)],
                  out |-> prev.out]
      BY <1>5, EntryIsOne DEF AtStep, CodeStep
    <3>2. [j \in 1 .. b.count |-> Store((b.ofs - prev.out) + (j - 1) * b.incr)] = u
      BY <1>1, <2>2
    <3> QED
      BY <1>1, <3>1, <3>2
  <2>4. k \in {1, 2} /\ S = {0}
    <3>1. k <= 2
      BY <1>1, <1>5 DEF IsFew, BlocklistLoopUnrollingThreshold
    <3>2. b.sub = NoBlocklist
      BY <1>5 DEF IsFew, AtStep, EntryOk
    <3> QED
      BY <1>2, <1>3, <3>1, <3>2 DEF SubSlots
  <2>5. PICK q, base : q = Regs(r, out, C) /\ base = q["edi"]
    OBVIOUS
  <2>6. q \in RegFiles /\ base = r["edi"] + out /\ base \in Int
    BY <1>3, <2>5, RegsTyped
  <2>7. W = {base + (at + y) : y \in A}
    <3>1. \A y \in A : r["edi"] + (ofs + y) = base + (at + y)
      BY <1>3, <2>6
    <3>2. W = {r["edi"] + (ofs + y) : y \in A}
      BY <1>1 DEF Words, EntryWords
    <3> QED
      BY <3>1, <3>2
  <2>8. u \in Seq(Instrs) /\ Len(u) = k
    <3>1. k \in Int
      BY <1>3
    <3>2. u \in Seq(Instrs)
      BY <1>3, <2>2, <3>1, FewTyped
    <3>3. DOMAIN u = 1 .. k
      BY <2>2
    <3> QED
      BY <1>3, <3>2, <3>3
  <2>9. PICK x : x = St(q, v, t)
    OBVIOUS
  <2>10. ASSUME NEW j \in 1 .. k
         PROVE  Runs(m, <<u[j]>>, x, x, {base + (at + (j - 1) * incr)} \X {v})
    <3>1. PICK o : o = at + (j - 1) * incr
      OBVIOUS
    <3>2. o \in Int /\ u[j] = Store(o)
      BY <1>3, <2>2, <3>1
    <3>3. base + o \in W
      <4>1. (j - 1) * incr \in A
        <5>1. j - 1 \in 0 .. k - 1
          BY <1>3
        <5>2. BlockSlots({0}, incr, j - 1) = {(j - 1) * incr}
          BY <1>3 DEF BlockSlots
        <5> QED
          BY <1>3, <2>4, <5>1, <5>2 DEF RowSlots
      <4> QED
        BY <2>7, <3>1, <4>1
    <3>4. m.safe => InStorage(m, {q["edi"] + o})
      BY <1>4, <2>5, <3>3 DEF InStorage
    <3>5. Runs(m, <<Store(o)>>, St(q, v, t), St(q, v, t), {q["edi"] + o} \X {v})
      BY <2>6, <3>2, <3>4, RunStore
    <3> QED
      BY <2>5, <2>9, <3>1, <3>2, <3>5
  <2>11. Runs(m, u, x, x, W \X {v})
    <3>1. Runs(m, u, x, x, {base + (at + y) : y \in RowSlots({0}, incr, k)} \X {v})
      <4>1. Few(m, u, x, v, base, at, incr, k)
        BY <1>3, <2>4, <2>6, <2>8, <2>10 DEF Few
      <4> QED
        BY <4>1, FewRuns
    <3> QED
      BY <1>3, <2>4, <2>7, <3>1
  <2>12. Runs(m, s \o u, St(r, v, t), St(q, v, t), Y \cup (W \X {v}))
    BY <1>3, <1>4, <2>5, <2>8, <2>9, <2>11, RunsConcat
  <2> QED
    BY <1>1, <2>1, <2>3, <2>5, <2>12
<1>6. CASE ~IsFew(b)
  <2>1. PICK z, fin : z = k * incr /\ fin = ofs + z
    OBVIOUS
  <2>2. z \in Int /\ fin \in Int
    BY <1>3, <2>1
  <2>3. PICK u, w : u = AddEdi(at) /\ w = LoopOf(b)
    OBVIOUS
  <2>4. next.code = (s \o u) \o w /\ next.out = fin
    <3>1. CASE IsFill(b)
      <4>1. next = [code |-> s \o AddEdi(at) \o FillLoop(b), out |-> AfterLoop(b)]
        BY <1>1, <3>1, EntryIsOne DEF AtStep, CodeStep
      <4>2. w = FillLoop(b) /\ AfterLoop(b) = fin
        BY <1>1, <2>1, <2>3, <3>1 DEF LoopOf, AfterLoop
      <4> QED
        BY <2>3, <4>1, <4>2
    <3>2. CASE ~IsFill(b)
      <4>1. next = [code |-> s \o AddEdi(at)
                        \o EntryLoop(Mov(Counter(b.height), b.count), b.height, b.incr, SubVarInit[b.sub]),
                    out |-> AfterLoop(b)]
        BY <1>1, <1>6, <3>2, EntryIsOne DEF AtStep, CodeStep
      <4>2. w = EntryLoop(Mov(Counter(b.height), b.count), b.height, b.incr, SubVarInit[b.sub])
            /\ AfterLoop(b) = fin
        BY <1>1, <2>1, <2>3, <3>2 DEF LoopOf, AfterLoop
      <4> QED
        BY <2>3, <4>1, <4>2
    <3> QED
      BY <3>1, <3>2
  <2>5. PICK q1, q : q1 = Regs(r, out, C) /\ q = Regs(q1, at, {})
    OBVIOUS
  <2>6. q1 \in RegFiles
    BY <1>3, <2>5, RegsTyped
  <2>7. q = Regs(r, ofs, C)
    <3>1. PICK N : N = {}
      OBVIOUS
    <3>2. C = C \cup N
      BY <3>1
    <3>3. Twice(r, out, C, at, N, ofs, C, q1)
      BY <1>3, <2>5, <3>2 DEF Twice
    <3> QED
      BY <2>5, <3>1, <3>3, RegsAgain
  <2>8. q \in RegFiles /\ q["edi"] = r["edi"] + ofs
    BY <1>3, <2>7, RegsTyped
  <2>9. Words(q, A) = W
    <3>1. \A y \in A : r["edi"] + (ofs + y) = q["edi"] + y
      BY <1>3, <2>8
    <3>2. W = {r["edi"] + (ofs + y) : y \in A}
      BY <1>1 DEF Words, EntryWords
    <3> QED
      BY <3>1, <3>2 DEF Words
  <2>10. AtLoop(m, v, b, q, t, z, A, E)
    <3>1. EntryOk(m, v, b) /\ (m.safe => ~EntryReused(Reused, b))
      BY DEF AtStep
    <3> QED
      BY <1>1, <1>3, <1>4, <1>6, <2>1, <2>8, <2>9, <3>1 DEF AtLoop
  <2>11. Runs(m, w, St(q, v, t), St(Regs(q, z, E), v, t), W \X {v}) /\ w \in Seq(Instrs)
    BY <2>3, <2>9, <2>10, LoopOfRuns
  <2>12. Runs(m, u, St(q1, v, t), St(q, v, t), {}) /\ u \in Seq(Instrs)
    BY <1>3, <2>3, <2>5, <2>6, RunAddEdi, AddEdiTyped
  <2>13. Runs(m, s \o u, St(r, v, t), St(q, v, t), Y \cup {}) /\ s \o u \in Seq(Instrs)
    BY <1>3, <1>4, <2>5, <2>12, RunsConcat
  <2>14. Runs(m, (s \o u) \o w, St(r, v, t), St(Regs(q, z, E), v, t), (Y \cup {}) \cup (W \X {v}))
    BY <2>11, <2>13, RunsConcat
  <2>15. Regs(q, z, E) = Regs(r, fin, D)
    <3>1. D = C \cup E
      BY <1>1 DEF AtStep
    <3>2. Twice(r, ofs, C, z, E, fin, D, q)
      BY <1>3, <2>1, <2>2, <2>7, <3>1 DEF Twice
    <3> QED
      BY <3>2, RegsAgain
  <2>16. Y \cup {} = Y
    OBVIOUS
  <2> QED
    BY <1>1, <2>4, <2>14, <2>15, <2>16
<1> QED
  BY <1>5, <1>6

-----------------------------------------------------------------------------
(* The code of a list, from that of its entries. *)
ListOk(m, v, bl) == \A i \in DOMAIN bl : EntryOk(m, v, bl[i])

LEMMA ListOkRuns ==
  ASSUME NEW m, NEW v, NEW bl \in AllLists, ListOk(m, v, bl)
  PROVE  ListRuns(m, v, bl)
<1> SUFFICES ASSUME m.safe => ~Reused[bl], NEW r \in RegFiles, NEW t \in Seq(Int),
                    m.safe => InStorage(m, Words(r, ToSet(CodeFixed[bl])))
             PROVE  Runs(m, SubVarInit[bl].code, St(r, v, t), St(Regs(r, SubVarInit[bl].out, Counters[bl]), v, t),
                         Words(r, ToSet(CodeFixed[bl])) \X {v})
  BY DEF ListRuns, BodyRuns
<1>1. PICK k \in Nat : k = Len(bl) /\ DOMAIN bl = 1 .. k
  <2>1. bl \in Seq(EntriesOver(AllLists))
    BY EntriesOfLists
  <2> QED
    BY <2>1, LenProperties
<1>2. PICK f : IsCodes(f, SubVarInit, bl)
  BY CodesAre
<1> DEFINE C(j) == UNION {EntryCounters(Counters, bl[i]) : i \in 1 .. j}
           W(j) == UNION {Words(r, EntryWords(bl[i])) \X {v} : i \in 1 .. j}
           S == {j \in 0 .. k : Runs(m, f[j].code, St(r, v, t), St(Regs(r, f[j].out, C(j)), v, t), W(j))}
<1>3. 0 \in S
  <2>1. C(0) = {} /\ W(0) = {}
    OBVIOUS
  <2>2. PICK x, N, z : x = f[0] /\ N = C(0) /\ z = x.out
    OBVIOUS
  <2>3. x.code = << >> /\ z = 0 /\ N = {}
    BY <1>2, <2>1, <2>2 DEF IsCodes, NoCode
  <2>4. Regs(r, z, N) = r
    BY <2>3, RegsSame
  <2>5. Runs(m, << >>, St(r, v, t), St(r, v, t), {})
    BY RunsNone
  <2> HIDE DEF C, W
  <2>6. Runs(m, f[0].code, St(r, v, t), St(Regs(r, f[0].out, C(0)), v, t), W(0))
    BY <2>1, <2>2, <2>3, <2>4, <2>5
  <2> QED
    BY <2>6
<1>4. UNION {EntryWords(bl[i]) : i \in DOMAIN bl} = ToSet(CodeFixed[bl])
  <2>1. \A i \in DOMAIN bl : bl[i].count \in Nat
    BY DEF ListOk, EntryOk
  <2> QED
    BY <2>1, ListSpells
<1>5. ASSUME NEW j \in 0 .. k - 1, j \in S PROVE j + 1 \in S
  <2>1. j + 1 \in 1 .. k /\ (j + 1) - 1 = j /\ j + 1 \in 0 .. k /\ j \in 0 .. k
    BY <1>1
  <2>2. PICK b, prev, next, G, D, Y :
          b = bl[j + 1] /\ prev = f[j] /\ next = f[j + 1] /\ G = C(j) /\ D = C(j + 1) /\ Y = W(j)
    OBVIOUS
  <2>3. EntryOk(m, v, b)
    BY <1>1, <2>1, <2>2 DEF ListOk
  <2>4. m.safe => ~EntryReused(Reused, b)
    <3>1. b \in ToSet(bl)
      BY <1>1, <2>1, <2>2 DEF ToSet
    <3> QED
      BY <3>1, ReusedIs
  <2>5. prev \in Codes /\ next = CodeStep(SubVarInit, b, prev)
    <3>1. next = CodeStep(SubVarInit, bl[j + 1], f[(j + 1) - 1])
      BY <1>1, <1>2, <2>1, <2>2 DEF IsCodes
    <3>2. prev \in Codes
      BY <1>1, <1>2, <2>1, <2>2 DEF IsCodes
    <3> QED
      BY <2>1, <2>2, <3>1, <3>2
  <2>6. 1 .. j + 1 = (1 .. j) \cup {j + 1}
    BY <1>1
  <2>7. D = G \cup EntryCounters(Counters, b)
    BY <2>2, <2>6
  <2>8. W(j + 1) = Y \cup (Words(r, EntryWords(b)) \X {v})
    BY <2>2, <2>6
  <2>9. m.safe => InStorage(m, Words(r, EntryWords(b)))
    <3>1. EntryWords(b) \subseteq ToSet(CodeFixed[bl])
      BY <1>1, <1>4, <2>1, <2>2
    <3>2. Words(r, EntryWords(b)) \subseteq Words(r, ToSet(CodeFixed[bl]))
      BY <3>1 DEF Words
    <3> QED
      BY <3>2 DEF InStorage
  <2>10. Runs(m, prev.code, St(r, v, t), St(Regs(r, prev.out, G), v, t), Y)
    BY <1>5, <2>2
  <2>11. AtStep(m, v, b, r, t, prev, G, Y, next, D)
    BY <2>3, <2>4, <2>5, <2>7, <2>9, <2>10 DEF AtStep
  <2>12. Runs(m, next.code, St(r, v, t), St(Regs(r, next.out, D), v, t),
              Y \cup (Words(r, EntryWords(b)) \X {v}))
    BY <2>11, StepRuns
  <2> QED
    BY <2>1, <2>2, <2>8, <2>12
<1>6. k \in S
  <2> HIDE DEF S
  <2>1. 0 .. k \subseteq S
    BY <1>1, <1>3, <1>5, InductionUpto
  <2> QED
    BY <1>1, <2>1
<1>7. f[k] = SubVarInit[bl]
  BY <1>1, <1>2, CodesAre DEF IsCodes
<1>8. C(k) = Counters[bl]
  <2>1. ToSet(bl) = {bl[i] : i \in 1 .. k}
    BY <1>1 DEF ToSet
  <2>2. Counters[bl] = UNION {EntryCounters(Counters, b) : b \in ToSet(bl)}
    BY CountersAre
  <2> QED
    BY <2>1, <2>2
<1>9. W(k) = Words(r, ToSet(CodeFixed[bl])) \X {v}
  <2>1. ToSet(CodeFixed[bl]) = UNION {EntryWords(bl[i]) : i \in 1 .. k}
    BY <1>1, <1>4
  <2>2. Words(r, ToSet(CodeFixed[bl])) = UNION {Words(r, EntryWords(bl[i])) : i \in 1 .. k}
    BY <2>1 DEF Words
  <2> QED
    BY <2>2
<1> QED
  BY <1>6, <1>7, <1>8, <1>9

-----------------------------------------------------------------------------
(* The lists of all types are such. *)
LEMMA OkAt ==
  ASSUME NEW m, NEW v, NEW b, EntryOk(m, v, b), NEW base \in Int
  PROVE  EntryOk(m, v, [b EXCEPT !.ofs = base + @])
<1>1. PICK X, c : X = AllLists /\ c = [b EXCEPT !.ofs = base + @]
  OBVIOUS
<1>2. b \in EntriesOver(X)
  BY <1>1 DEF EntryOk
<1>3. c \in EntriesOver(X) /\ c.sub = b.sub /\ c.count = b.count /\ c.incr = b.incr
  BY <1>1, <1>2, EntryAt
<1>4. EntryOk(m, v, c)
  BY <1>1, <1>3 DEF EntryOk
<1> QED
  BY <1>1, <1>4

LEMMA OkJoined ==
  ASSUME NEW m, NEW v, NEW e, NEW f, EntryOk(m, v, e), EntryOk(m, v, f)
  PROVE  EntryOk(m, v, Joined(e, f))
<1>1. PICK X, j : X = AllLists /\ j = Joined(e, f)
  OBVIOUS
<1>2. e \in EntriesOver(X) /\ f \in EntriesOver(X) /\ e.count \in Nat \ {0} /\ f.count \in Nat \ {0}
  BY <1>1 DEF EntryOk
<1>3. j \in EntriesOver(X) /\ j.sub = f.sub /\ j.count = e.count + f.count /\ j.incr = f.incr
  BY <1>1, <1>2, JoinedEntry
<1>4. j.count \in Nat \ {0} /\ j.count # 1
  BY <1>2, <1>3
<1>5. EntryOk(m, v, j)
  BY <1>1, <1>3, <1>4 DEF EntryOk
<1> QED
  BY <1>1, <1>5

LEMMA OkMembers ==
  ASSUME NEW m, NEW v, NEW bl
  PROVE  ListOk(m, v, bl) <=> \A b \in ToSet(bl) : EntryOk(m, v, b)
BY DEF ListOk, ToSet

LEMMA ConcatOk ==
  ASSUME NEW m, NEW v, NEW X, NEW b1 \in Seq(EntriesOver(X)), NEW b2 \in Seq(EntriesOver(X)),
         NEW base \in Int, ListOk(m, v, b1), ListOk(m, v, b2)
  PROVE  /\ ListOk(m, v, ConcatBlocklists(b1, b2, base))
         /\ b1 = NoBlocklist /\ b2 = NoBlocklist => ConcatBlocklists(b1, b2, base) = NoBlocklist
<1>0. PICK Y, bl, al : Y = EntriesOver(X) /\ bl = ConcatBlocklists(b1, b2, base) /\ al = ListAt(b2, base)
  OBVIOUS
<1>1. b1 \in Seq(Y) /\ b2 \in Seq(Y) /\ al \in Seq(Y) /\ Len(al) = Len(b2)
  BY <1>0, ListAtTyped
<1>2. \A e \in ToSet(al) : EntryOk(m, v, e)
  <2> SUFFICES ASSUME NEW i \in DOMAIN al PROVE EntryOk(m, v, al[i])
    BY DEF ToSet
  <2>1. i \in DOMAIN b2 /\ al[i] = [b2[i] EXCEPT !.ofs = base + @]
    BY <1>0 DEF ListAt
  <2>2. PICK e : e = b2[i] /\ EntryOk(m, v, e)
    BY <2>1 DEF ListOk
  <2>3. EntryOk(m, v, [e EXCEPT !.ofs = base + @])
    BY <2>2, OkAt
  <2> QED
    BY <2>1, <2>2, <2>3
<1>3. (\A e \in ToSet(b1) : EntryOk(m, v, e)) /\ (\A e \in ToSet(b2) : EntryOk(m, v, e))
  BY OkMembers
<1>4. CASE ~Joins(b1, b2, base)
  <2>1. bl = b1 \o al
    BY ZenonT(60), <1>0, <1>1, <1>4, ConcatIs
  <2>2. ToSet(b1 \o al) = ToSet(b1) \cup ToSet(al)
    BY <1>1, ConcatMembers
  <2>3. ListOk(m, v, bl)
    BY <1>2, <1>3, <2>1, <2>2, OkMembers
  <2>4. b1 = NoBlocklist /\ b2 = NoBlocklist => bl = NoBlocklist
    <3>1. b2 = NoBlocklist => al = << >>
      BY <1>0 DEF ListAt, NoBlocklist
    <3> QED
      BY <2>1, <3>1 DEF NoBlocklist
  <2> QED
    BY <1>0, <2>3, <2>4
<1>5. CASE Joins(b1, b2, base)
  <2>1. b1 # << >> /\ b2 # << >> /\ al # << >>
    <3>1. b1 # << >> /\ b2 # << >>
      BY <1>5 DEF Joins, NoBlocklist
    <3> QED
      BY <1>1, <3>1
  <2>2. PICK fr \in Seq(Y), e \in Y, ta \in Seq(Y), f \in Y :
          fr = Front(b1) /\ e = Last(b1) /\ ta = Tail(al) /\ f = b2[1]
    <3>1. Front(b1) \in Seq(Y) /\ Last(b1) \in Y
      BY <1>1, <2>1, FrontLast
    <3>2. Tail(al) \in Seq(Y) /\ b2[1] \in Y
      BY <1>1, <2>1, HeadTail
    <3> QED
      BY <3>1, <3>2
  <2>3. PICK j \in Y : j = Joined(e, f)
    BY <1>0, <2>2, JoinedEntry
  <2>4. bl = (fr \o <<j>>) \o ta
    BY <1>0, <1>1, <1>5, <2>2, <2>3, ConcatIs
  <2>5. EntryOk(m, v, e) /\ EntryOk(m, v, f)
    <3>1. Len(b1) \in DOMAIN b1 /\ 1 \in DOMAIN b2
      BY <1>1, <2>1, EmptySeq
    <3> QED
      BY <2>2, <3>1 DEF Last, ListOk
  <2>6. EntryOk(m, v, j)
    BY <2>3, <2>5, OkJoined
  <2>7. \A c \in ToSet(fr) : c \in ToSet(b1)
    <3> SUFFICES ASSUME NEW i \in DOMAIN fr PROVE fr[i] \in ToSet(b1)
      BY DEF ToSet
    <3>1. Len(fr) = Len(b1) - 1 /\ \A k \in 1 .. Len(b1) - 1 : fr[k] = b1[k]
      BY <1>1, <2>1, <2>2, FrontLast
    <3>2. Len(b1) \in Nat /\ DOMAIN fr = 1 .. Len(b1) - 1 /\ DOMAIN b1 = 1 .. Len(b1)
      BY <1>1, <3>1
    <3> QED
      BY <3>1, <3>2 DEF ToSet
  <2>8. \A c \in ToSet(ta) : c \in ToSet(al)
    <3> SUFFICES ASSUME NEW i \in DOMAIN ta PROVE ta[i] \in ToSet(al)
      BY DEF ToSet
    <3>1. Len(ta) = Len(al) - 1 /\ \A k \in 1 .. Len(al) - 1 : ta[k] = al[k + 1]
      BY <1>1, <2>1, <2>2, HeadTail
    <3>2. Len(al) \in Nat /\ DOMAIN ta = 1 .. Len(al) - 1 /\ DOMAIN al = 1 .. Len(al)
      BY <1>1, <3>1
    <3>3. i + 1 \in DOMAIN al /\ ta[i] = al[i + 1]
      BY <3>1, <3>2
    <3> QED
      BY <3>3 DEF ToSet
  <2>9. PICK js \in Seq(Y) : js = <<j>> /\ ToSet(js) = {j}
    <3>1. <<j>> \in Seq(Y) /\ ToSet(<<j>>) = {j}
      BY DEF ToSet
    <3> QED
      BY <3>1
  <2>10. PICK u \in Seq(Y) : u = fr \o js
    BY ConcatProperties
  <2>11. ToSet(u) = ToSet(fr) \cup ToSet(js) /\ ToSet(u \o ta) = ToSet(u) \cup ToSet(ta)
    BY <2>10, ConcatMembers
  <2>12. ListOk(m, v, bl)
    BY <1>2, <1>3, <2>4, <2>6, <2>7, <2>8, <2>9, <2>10, <2>11, OkMembers
  <2> QED
    BY <1>0, <2>1, <2>12 DEF NoBlocklist
<1> QED
  BY <1>4, <1>5

LEMMA AdjustOk ==
  ASSUME NEW m, NEW v, NEW X, NEW bl \in Seq(EntriesOver(X)), ListOk(m, v, bl), NEW size \in Int,
         bl # NoBlocklist => size >= 4
  PROVE  /\ ListOk(m, v, AdjustIncr(bl, size))
         /\ bl = NoBlocklist => AdjustIncr(bl, size) = NoBlocklist
<1>2. CASE ~(Len(bl) = 1 /\ bl[1].count = 1)
  BY <1>2 DEF AdjustIncr
<1>3. CASE Len(bl) = 1 /\ bl[1].count = 1
  <2>1. bl # NoBlocklist /\ 1 \in DOMAIN bl
    BY <1>3, OneEntry
  <2>2. PICK e, f : e = bl[1] /\ f = [e EXCEPT !.incr = size]
    OBVIOUS
  <2>3. EntryOk(m, v, e) /\ e.count = 1
    BY <1>3, <2>1, <2>2 DEF ListOk
  <2>4. e \in EntriesOver(AllLists) /\ e.sub = NoBlocklist
    BY <2>3 DEF EntryOk
  <2>5. f \in EntriesOver(AllLists) /\ f.sub = e.sub /\ f.count = 1 /\ f.incr = size
    BY <2>2, <2>3, <2>4 DEF EntriesOver
  <2>6. EntryOk(m, v, f)
    BY <2>1, <2>4, <2>5 DEF EntryOk
  <2>7. AdjustIncr(bl, size) = <<f>>
    BY <1>3, <2>2 DEF AdjustIncr
  <2>8. \A i \in DOMAIN <<f>> : <<f>>[i] = f
    OBVIOUS
  <2>9. ListOk(m, v, <<f>>)
    BY <2>6, <2>8 DEF ListOk
  <2> QED
    BY <2>1, <2>7, <2>9
<1> QED
  BY <1>2, <1>3

LEMMA ArrayOk ==
  ASSUME NEW m, NEW v, NEW d \in 0 .. Depth, NEW bl \in Lists[d], ListOk(m, v, bl),
         NEW len \in Nat \ {0}, NEW size \in Int, bl # NoBlocklist => size >= 4
  PROVE  /\ ListOk(m, v, BlocklistOfArrayType(bl, len, size))
         /\ bl = NoBlocklist => BlocklistOfArrayType(bl, len, size) = NoBlocklist
<1>0. PICK X, Y, al : X = Lists[d] /\ Y = EntriesOver(X) /\ al = BlocklistOfArrayType(bl, len, size)
  OBVIOUS
<1>1. bl \in Seq(Y) /\ bl \in AllLists /\ Y \subseteq EntriesOver(AllLists)
  BY <1>0, ListsOfDepth
<1>a. ASSUME NEW e, EntryOk(m, v, e) PROVE ListOk(m, v, <<e>>)
  <2>1. \A i \in DOMAIN <<e>> : <<e>>[i] = e
    OBVIOUS
  <2> QED
    BY <1>a, <2>1 DEF ListOk
<1>b. Len(bl) = 1 => bl # NoBlocklist /\ 1 \in DOMAIN bl
  BY <1>0, <1>1, OneEntry
<1>2. CASE bl = NoBlocklist
  <2>1. Len(bl) # 1
    BY <1>2, <1>b
  <2>2. al = NoBlocklist
    BY <1>0, <1>2, <2>1 DEF BlocklistOfArrayType
  <2> QED
    BY <1>0, <1>2, <2>2
<1>3. CASE bl # NoBlocklist /\ Len(bl) = 1 /\ bl[1].count = 1
  <2>0. PICK e : e = bl[1]
    OBVIOUS
  <2>1. PICK f : f = [e EXCEPT !.count = len, !.incr = size]
    OBVIOUS
  <2>2. EntryOk(m, v, e) /\ e.count = 1
    BY <1>3, <1>b, <2>0 DEF ListOk
  <2>3. e \in EntriesOver(AllLists) /\ e.sub = NoBlocklist
    BY <2>2 DEF EntryOk
  <2>4. f \in EntriesOver(AllLists) /\ f.sub = e.sub /\ f.count = len /\ f.incr = size
    <3>1. PICK su, of, co, ic, he :
            e = [sub |-> su, ofs |-> of, count |-> co, incr |-> ic, height |-> he]
            /\ su \in AllLists /\ of \in Int /\ he \in Int
      BY <2>3 DEF EntriesOver
    <3>2. f = [sub |-> su, ofs |-> of, count |-> len, incr |-> size, height |-> he]
      BY <2>1, <3>1
    <3>3. f \in EntriesOver(AllLists)
      BY <3>1, <3>2 DEF EntriesOver
    <3> QED
      BY <3>1, <3>2, <3>3
  <2>5. EntryOk(m, v, f)
    BY <1>3, <2>3, <2>4 DEF EntryOk
  <2>6. al = <<f>>
    BY <1>0, <1>3, <2>0, <2>1 DEF BlocklistOfArrayType
  <2> QED
    BY <1>0, <1>3, <1>a, <2>5, <2>6
<1>4. CASE bl # NoBlocklist /\ Len(bl) = 1 /\ bl[1].count # 1 /\ RowOfRows(bl[1], size)
  <2>1. PICK e, f : e = bl[1] /\ f = [e EXCEPT !.count = e.count * len]
    OBVIOUS
  <2>2. EntryOk(m, v, e) /\ e.count # 1
    BY <1>4, <1>b, <2>1 DEF ListOk
  <2>3. e \in EntriesOver(AllLists) /\ e.count \in Nat \ {0}
    BY <2>2 DEF EntryOk
  <2>4. PICK k \in Nat \ {0} : k = e.count * len /\ k # 1
    <3>1. e.count * len \in Nat \ {0}
      BY <2>3
    <3>2. e.count * len # 1
      <4>1. PICK c \in Nat : e.count = c + 2
        <5>1. e.count - 2 \in Nat /\ e.count = (e.count - 2) + 2
          BY <2>2, <2>3
        <5> QED
          BY <5>1
      <4>2. PICK l \in Nat : len = l + 1
        <5>1. len - 1 \in Nat /\ len = (len - 1) + 1
          OBVIOUS
        <5> QED
          BY <5>1
      <4>3. (c + 2) * (l + 1) = c * l + c + 2 * l + 2 /\ c * l \in Nat
        OBVIOUS
      <4> QED
        BY <4>1, <4>2, <4>3
    <3> QED
      BY <3>1, <3>2
  <2>5. f \in EntriesOver(AllLists) /\ f.sub = e.sub /\ f.count = k /\ f.incr = e.incr
    <3>1. f = [e EXCEPT !.count = k]
      BY <2>1, <2>4
    <3> QED
      BY <2>3, <3>1 DEF EntriesOver
  <2>6. EntryOk(m, v, f)
    BY <2>2, <2>4, <2>5 DEF EntryOk
  <2>7. al = <<f>>
    <3>1. PICK row : row = <<[bl[1] EXCEPT !.count = @ * len]>>
      OBVIOUS
    <3>2. row = <<f>>
      BY <2>1, <3>1
    <3>3. len = 1 => row = bl
      <4>1. ASSUME len = 1 PROVE f = e
        <5>1. e.count * len = e.count
          BY <2>3, <4>1
        <5>2. f = [e EXCEPT !.count = e.count]
          BY <2>1, <5>1
        <5> QED
          BY <2>3, <5>2 DEF EntriesOver
      <4>2. bl = <<e>>
        BY <1>0, <1>1, <1>4, <2>1, OneEntry
      <4> QED
        BY <3>2, <4>1, <4>2
    <3>4. al = row
      BY <1>0, <1>4, <3>1, <3>3 DEF BlocklistOfArrayType
    <3> QED
      BY <3>2, <3>4
  <2> QED
    BY <1>0, <1>4, <1>a, <2>6, <2>7
<1>5. CASE /\ bl # NoBlocklist /\ len = 1 /\ ~(Len(bl) = 1 /\ bl[1].count = 1)
           /\ ~(Len(bl) = 1 /\ bl[1].count # 1 /\ RowOfRows(bl[1], size))
  <2>1. al = bl
    BY <1>0, <1>5 DEF BlocklistOfArrayType
  <2> QED
    BY <1>0, <1>5, <2>1
<1>6. CASE /\ bl # NoBlocklist /\ len # 1 /\ ~(Len(bl) = 1 /\ bl[1].count = 1)
           /\ ~(Len(bl) = 1 /\ bl[1].count # 1 /\ RowOfRows(bl[1], size))
  <2>1. PICK h : h = IF HeightOfBlocklist(bl) > 0 \/ len > BlocklistLoopUnrollingThreshold
                     THEN HeightOfBlocklist(bl) + 1 ELSE HeightOfBlocklist(bl)
    OBVIOUS
  <2>2. h \in Int
    <3>1. HeightOfBlocklist(bl) \in Nat
      BY <1>0, <1>1, HeightIs
    <3> QED
      BY <2>1, <3>1
  <2>3. PICK e : e = Entry(bl, 0, len, size, h)
    OBVIOUS
  <2>4. /\ e \in EntriesOver(AllLists) /\ e.sub = bl /\ e.count = len /\ e.incr = size
    BY <1>1, <2>2, <2>3 DEF Entry, EntriesOver
  <2>5. ListRuns(m, v, bl)
    BY <1>1, ListOkRuns
  <2>6. EntryOk(m, v, e)
    BY <1>6, <2>4, <2>5 DEF EntryOk
  <2>7. al = <<e>>
    BY <1>0, <1>6, <2>1, <2>3 DEF BlocklistOfArrayType
  <2> QED
    BY <1>0, <1>6, <1>a, <2>6, <2>7
<1> QED
  BY <1>2, <1>3, <1>4, <1>5, <1>6

(* The lists of declarations, if one of these has a list. *)
OkDecls(m, v, decls, bls, k, d) ==
  /\ d \in 0 .. Depth /\ ListsOfDecls(decls, bls, k, d)
  /\ \A i \in 1 .. k : ListOk(m, v, bls[decls[i].ty])

SomeList(decls, bls, k) == \E i \in 1 .. k : bls[decls[i].ty] # NoBlocklist

LEMMA DeclsOk ==
  ASSUME NEW m, NEW v, NEW d, NEW decls, NEW bls, NEW k, OkDecls(m, v, decls, bls, k, d)
  PROVE  /\ ListOk(m, v, ConcatDecls(decls, bls)) /\ ConcatDecls(decls, bls) \in Lists[d + 1]
         /\ ConcatDecls(decls, bls) # NoBlocklist => SomeList(decls, bls, k)
<1> USE DEF SomeList, OkDecls
<1>1. PICK f : IsConcat(f, decls, bls, k, d)
  BY ConcatDeclsIs
<1>2. /\ f \in [0 .. k -> Lists[d + 1]] /\ f[0] = NoBlocklist
      /\ \A i \in 1 .. k : f[i] = ConcatBlocklists(f[i - 1], bls[decls[i].ty], decls[i].addr)
      /\ ConcatDecls(decls, bls) = f[k]
  BY <1>1 DEF IsConcat
<1>3. /\ k \in Nat
      /\ \A i \in 1 .. k : bls[decls[i].ty] \in Lists[d + 1] /\ decls[i].addr \in Int
  BY DEF ListsOfDecls
<1> DEFINE Some(j) == f[j] # NoBlocklist => \E i \in 1 .. j : bls[decls[i].ty] # NoBlocklist
           S == {j \in 0 .. k : ListOk(m, v, f[j]) /\ Some(j)}
<1>4. 0 \in S
  <2>1. ListOk(m, v, NoBlocklist)
    BY DEF ListOk, NoBlocklist
  <2> QED
    BY <1>2, <1>3, <2>1
<1>5. ASSUME NEW j \in 0 .. k - 1, j \in S PROVE j + 1 \in S
  <2>1. j + 1 \in 1 .. k /\ (j + 1) - 1 = j /\ j \in 0 .. k /\ j + 1 \in 0 .. k
    BY <1>3
  <2>2. PICK X, b1, b2, a : X = Lists[d] /\ b1 = f[j] /\ b2 = bls[decls[j + 1].ty] /\ a = decls[j + 1].addr
    OBVIOUS
  <2>3. f[j + 1] = ConcatBlocklists(b1, b2, a)
    BY <1>2, <2>1, <2>2
  <2>4. b1 \in Seq(EntriesOver(X)) /\ b2 \in Seq(EntriesOver(X)) /\ a \in Int
    BY <1>2, <1>3, <2>1, <2>2, ListsOfDepth
  <2>5. ListOk(m, v, b1) /\ ListOk(m, v, b2)
    BY <1>5, <2>1, <2>2
  <2>6. /\ ListOk(m, v, f[j + 1])
        /\ b1 = NoBlocklist /\ b2 = NoBlocklist => f[j + 1] = NoBlocklist
    BY <2>3, <2>4, <2>5, ConcatOk
  <2>7. Some(j + 1)
    <3>1. CASE b2 # NoBlocklist
      BY <1>3, <2>2, <3>1
    <3>2. CASE b1 # NoBlocklist
      <4>1. PICK i \in 1 .. j : bls[decls[i].ty] # NoBlocklist
        BY <1>5, <2>2, <3>2
      <4>2. i \in 1 .. j + 1
        BY <1>3
      <4> QED
        BY <4>1, <4>2
    <3> QED
      BY <2>6, <3>1, <3>2
  <2> QED
    BY <2>1, <2>6, <2>7
<1>6. k \in S
  <2> HIDE DEF S
  <2>1. 0 .. k \subseteq S
    BY <1>3, <1>4, <1>5, InductionUpto
  <2> QED
    BY <1>3, <2>1
<1> QED
  BY <1>2, <1>3, <1>6

(* The list of a type, which has room for its first pointer. *)
TypeOk(m, v, bl, t) == ListOk(m, v, bl) /\ (bl # NoBlocklist => t.size >= 4)

LEMMA TypeListOk ==
  ASSUME NEW m, NEW v, NEW kind \in Kinds, NEW g, NEW t \in AllTypes, t.form # "open",
         \A r \in AllTypes : r.depth < t.depth /\ r.form # "open" =>
           GoodList(g[r], r) /\ TypeOk(m, v, g[r], r)
  PROVE  TypeOk(m, v, TypeList(g, t, kind), t)
<1>0. PICK d \in 0 .. Depth : d = t.depth /\ d \in Nat
  BY TypeParts, TypesAssumption
<1>1. ASSUME NEW r \in AllTypes, r.depth < d, r.form # "open"
      PROVE  /\ g[r] \in Lists[d] /\ g[r] \in Lists[d + 1] /\ ListOk(m, v, g[r])
             /\ g[r] # NoBlocklist => r.size >= 4
             /\ r.size \in Nat
  <2>1. r.depth + 1 \in Nat /\ r.depth + 1 <= d /\ r.size \in Nat
    BY <1>0, <1>1, TypeParts
  <2>2. g[r] \in Lists[r.depth + 1] /\ TypeOk(m, v, g[r], r)
    BY <1>0, <1>1 DEF GoodList
  <2>3. Lists[r.depth + 1] \subseteq Lists[d] /\ Lists[d] \subseteq Lists[d + 1]
    BY <1>0, <2>1, ListsMonotonic, ListsGrow
  <2> QED
    BY <2>1, <2>2, <2>3 DEF TypeOk
<1>2. CASE t.form = kind
  <2>1. TypeList(g, t, kind) = cPointerBlocklist
    BY <1>2 DEF TypeList, Kinds
  <2>2. t.size >= 4
    BY <1>2, TypeParts DEF Kinds
  <2>3. PICK e : e = Entry(NoBlocklist, 0, 1, 4, 0)
    OBVIOUS
  <2>4. e \in EntriesOver(AllLists) /\ e.sub = NoBlocklist /\ e.incr = 4 /\ e.count = 1
    BY <2>3, NoListIn DEF Entry, EntriesOver
  <2>5. EntryOk(m, v, e)
    BY <2>4 DEF EntryOk
  <2>6. \A i \in DOMAIN <<e>> : <<e>>[i] = e
    OBVIOUS
  <2>7. ListOk(m, v, cPointerBlocklist)
    BY <2>3, <2>5, <2>6 DEF ListOk, cPointerBlocklist
  <2> QED
    BY <2>1, <2>2, <2>7 DEF TypeOk
<1>3. CASE t.form = "array"
  <2>1. TypeList(g, t, kind) = BlocklistOfArrayType(g[t.elem], t.len, t.elem.size)
    BY <1>3 DEF TypeList, Kinds
  <2>2. /\ t.elem \in AllTypes /\ t.elem.depth < t.depth /\ t.elem.form # "open"
        /\ t.len \in Nat \ {0} /\ t.size = t.len * t.elem.size
    BY <1>3, TypeParts
  <2>3. PICK bl, len, size : bl = g[t.elem] /\ len = t.len /\ size = t.elem.size
    OBVIOUS
  <2>4. /\ bl \in Lists[d] /\ ListOk(m, v, bl) /\ len \in Nat \ {0} /\ size \in Int /\ size \in Nat
        /\ bl # NoBlocklist => size >= 4
    BY <1>0, <1>1, <2>2, <2>3
  <2>5. /\ ListOk(m, v, BlocklistOfArrayType(bl, len, size))
        /\ bl = NoBlocklist => BlocklistOfArrayType(bl, len, size) = NoBlocklist
    BY <2>4, ArrayOk
  <2>6. len * size >= size
    <3>1. PICK l \in Nat : len = l + 1
      <4>1. len - 1 \in Nat /\ len = (len - 1) + 1
        BY <2>4
      <4> QED
        BY <4>1
    <3>2. (l + 1) * size = l * size + size /\ l * size \in Nat
      BY <2>4
    <3> QED
      BY <2>4, <3>1, <3>2
  <2>7. PICK z : z = len * size /\ z = t.size
    BY <2>2, <2>3
  <2>8. z \in Int /\ z >= size
    BY <2>4, <2>6, <2>7
  <2> QED
    BY <2>1, <2>3, <2>4, <2>5, <2>7, <2>8 DEF TypeOk
<1>4. CASE t.form = "record"
  <2>1. TypeList(g, t, kind) = AdjustIncr(ConcatDecls(t.fields, g), t.size)
    BY <1>4 DEF TypeList, Kinds
  <2>2. PICK k, decls : k \in Nat /\ decls = t.fields /\ k = Len(decls) /\ DOMAIN decls = 1 .. k
    BY <1>4, FieldsAre
  <2>3. \A i \in 1 .. k : /\ decls[i].ty \in AllTypes /\ decls[i].ty.depth < d
                          /\ decls[i].ty.form # "open" /\ decls[i].addr \in Int /\ decls[i].addr \in Nat
                          /\ decls[i].addr + decls[i].ty.size <= t.size
    BY <1>0, <1>4, <2>2, TypeParts
  <2>4. \A i \in 1 .. k : /\ g[decls[i].ty] \in Lists[d + 1] /\ ListOk(m, v, g[decls[i].ty])
                          /\ g[decls[i].ty] # NoBlocklist => decls[i].ty.size >= 4
                          /\ decls[i].ty.size \in Nat
    BY <1>1, <2>3
  <2>5. ListsOfDecls(decls, g, k, d)
    BY <2>2, <2>3, <2>4 DEF ListsOfDecls
  <2>6. PICK bl : bl = ConcatDecls(decls, g)
    OBVIOUS
  <2>7. /\ ListOk(m, v, bl) /\ bl \in Lists[d + 1]
        /\ bl # NoBlocklist => \E i \in 1 .. k : g[decls[i].ty] # NoBlocklist
    <3>1. OkDecls(m, v, decls, g, k, d)
      BY <2>4, <2>5 DEF OkDecls
    <3>2. /\ ListOk(m, v, ConcatDecls(decls, g)) /\ ConcatDecls(decls, g) \in Lists[d + 1]
          /\ ConcatDecls(decls, g) # NoBlocklist => SomeList(decls, g, k)
      BY <3>1, DeclsOk
    <3> QED
      BY <2>6, <3>2 DEF SomeList
  <2>8. t.size \in Int /\ (bl # NoBlocklist => t.size >= 4)
    <3>1. t.size \in Nat
      BY TypeParts
    <3>2. ASSUME bl # NoBlocklist PROVE t.size >= 4
      <4>1. PICK i \in 1 .. k : g[decls[i].ty] # NoBlocklist
        BY <2>7, <3>2
      <4> QED
        BY <2>3, <2>4, <3>1, <4>1
    <3> QED
      BY <3>1, <3>2
  <2>9. PICK X : X = Lists[d]
    OBVIOUS
  <2>10. bl \in Seq(EntriesOver(X))
    BY <2>7, <2>9, ListsOfDepth
  <2>11. /\ ListOk(m, v, AdjustIncr(bl, t.size))
         /\ bl = NoBlocklist => AdjustIncr(bl, t.size) = NoBlocklist
    BY <2>7, <2>8, <2>10, AdjustOk
  <2> QED
    BY <2>1, <2>2, <2>6, <2>8, <2>11 DEF TypeOk
<1>5. CASE t.form \notin {kind, "array", "record"}
  <2>1. TypeList(g, t, kind) = NoBlocklist
    BY <1>5 DEF TypeList
  <2> QED
    BY <2>1 DEF TypeOk, ListOk, NoBlocklist
<1> QED
  BY <1>2, <1>3, <1>4, <1>5

LEMMA TypesOk ==
  ASSUME NEW m, NEW v, NEW kind \in Kinds, NEW t \in AllTypes, t.form # "open"
  PROVE  TypeOk(m, v, BlocklistOfType(t, kind), t)
<1>1. PICK b : b = BlocklistsOf(kind)
  OBVIOUS
<1>2. \A r \in AllTypes : b[r] = TypeList(b, r, kind) /\ GoodList(b[r], r)
  BY <1>1, BlocklistsAre DEF BlocklistOfType
<1> DEFINE P == {r \in AllTypes : r.form # "open" => TypeOk(m, v, b[r], r)}
<1>4. ASSUME NEW r \in AllTypes, \A q \in AllTypes : TypeRank[q] < TypeRank[r] => q \in P PROVE r \in P
  <2>1. SUFFICES ASSUME r.form # "open" PROVE TypeOk(m, v, b[r], r)
    OBVIOUS
  <2>2. \A q \in AllTypes : q.depth < r.depth /\ q.form # "open" =>
          GoodList(b[q], q) /\ TypeOk(m, v, b[q], q)
    BY <1>2, <1>4, TypeParts
  <2>3. TypeOk(m, v, TypeList(b, r, kind), r)
    BY <2>1, <2>2, TypeListOk
  <2> QED
    BY <1>2, <2>3
<1>5. AllTypes \subseteq P
  <2> HIDE DEF P
  <2> QED
    BY <1>4, TypeRankIs, RankInduction
<1> QED
  BY <1>1, <1>5 DEF BlocklistOfType

-----------------------------------------------------------------------------
(* The list of a scope's variables. *)
SideBySide(decls, k) ==
  /\ k \in Nat /\ k = Len(decls) /\ DOMAIN decls = 1 .. k
  /\ \A i \in 1 .. k : /\ decls[i].ty \in AllTypes /\ decls[i].ty.form # "open" /\ decls[i].addr \in Int
  /\ \A i, j \in 1 .. k : i # j => Apart(VarBytes(decls[i]), VarBytes(decls[j]))

ListRight(m, v, bl, S, size) ==
  /\ bl \in Lists[Depth + 1] /\ FixedList(bl) /\ ListOk(m, v, bl)
  /\ Enumerates(CodeFixed[bl], S) /\ SlotsWithin(S, size)

ListsRight(m, v, lists, slots) ==
  \A t \in AllTypes : t.form # "open" => ListRight(m, v, lists[t], slots[t], t.size)

LEMMA DeclsListOk ==
  ASSUME NEW m, NEW v, NEW decls, NEW k, SideBySide(decls, k), NEW lists, NEW slots,
         ListsRight(m, v, lists, slots)
  PROVE  /\ ConcatDecls(decls, lists) \in AllLists /\ ListOk(m, v, ConcatDecls(decls, lists))
         /\ ToSet(CodeFixed[ConcatDecls(decls, lists)]) = Placed(decls, slots)
<1>0. Depth \in 0 .. Depth
  BY TypesAssumption
<1>1. \A i \in 1 .. k : ListRight(m, v, lists[decls[i].ty], slots[decls[i].ty], decls[i].ty.size)
  BY DEF SideBySide, ListsRight
<1>2. SlotsApart(decls, slots, k)
  <2> USE DEF SlotsApart
  <2> TAKE i, j \in 1 .. k
  <2> HAVE i # j
  <2> TAKE o \in slots[decls[i].ty], p \in slots[decls[j].ty]
  <2>1. Apart(VarBytes(decls[i]), VarBytes(decls[j])) /\ decls[i].addr \in Int /\ decls[j].addr \in Int
    BY DEF SideBySide
  <2>2. decls[i].ty.size \in Nat /\ decls[j].ty.size \in Nat
    BY TypeParts DEF SideBySide
  <2>3. SlotsWithin(slots[decls[i].ty], decls[i].ty.size) /\ SlotsWithin(slots[decls[j].ty], decls[j].ty.size)
    BY <1>1 DEF ListRight
  <2> QED
    BY <2>1, <2>2, <2>3, ApartOffsets
<1>3. ListsOfDecls(decls, lists, k, Depth) /\ ListsEnumerate(decls, lists, slots, k)
  BY <1>1 DEF ListsOfDecls, ListsEnumerate, SideBySide, ListRight
<1>4. OkDecls(m, v, decls, lists, k, Depth)
  BY <1>0, <1>1, <1>3 DEF OkDecls, ListRight
<1>5. ListOk(m, v, ConcatDecls(decls, lists)) /\ ConcatDecls(decls, lists) \in Lists[Depth + 1]
  BY <1>4, DeclsOk
<1>6. Enumerates(CodeFixed[ConcatDecls(decls, lists)], Placed(decls, slots))
  BY <1>0, <1>2, <1>3, EnumeratesDecls
<1> QED
  BY <1>5, <1>6 DEF AllLists, Enumerates

LEMMA SizeRounds ==
  ASSUME NEW t \in AllTypes
  PROVE  Align4(t.size) \in Int /\ (t.size >= 4 => Align4(t.size) >= 4)
<1>1. t.size \in Nat
  BY TypeParts
<1>2. PICK k \in Nat : k = t.size
  BY <1>1
<1>3. Align4(k) \in Nat /\ Align4(k) >= k
  BY <1>2, Align4Up
<1> QED
  BY <1>2, <1>3

(* The lists of types, and those of globals, which fill words. *)
LEMMA TypesRight ==
  ASSUME NEW m, NEW v, NEW kind \in Kinds
  PROVE  /\ ListsRight(m, v, BlocklistsOf(kind), SlotsOf(kind))
         /\ ListsRight(m, v, [t \in AllTypes |-> AdjustIncr(BlocklistOfType(t, kind), Align4(t.size))],
                       SlotsOf(kind))
<1> SUFFICES ASSUME NEW t \in AllTypes, t.form # "open"
             PROVE  /\ ListRight(m, v, BlocklistsOf(kind)[t], SlotsOf(kind)[t], t.size)
                    /\ ListRight(m, v, AdjustIncr(BlocklistOfType(t, kind), Align4(t.size)),
                                 SlotsOf(kind)[t], t.size)
  BY DEF ListsRight
<1>1. PICK bl, S, size : bl = BlocklistOfType(t, kind) /\ S = Slots(t, kind) /\ size = Align4(t.size)
  OBVIOUS
<1>2. /\ bl \in Lists[Depth + 1] /\ FixedList(bl) /\ SlotsWithin(S, t.size)
      /\ Enumerates(CodeFixed[bl], S)
  BY <1>1, TypeListIs, TypeEnumerates
<1>3. ListOk(m, v, bl) /\ (bl # NoBlocklist => t.size >= 4)
  BY <1>1, TypesOk DEF TypeOk
<1>4. size \in Int /\ (bl # NoBlocklist => size >= 4)
  BY <1>1, <1>3, SizeRounds
<1>5. Depth \in 0 .. Depth
  BY TypesAssumption
<1>6. /\ AdjustIncr(bl, size) \in Lists[Depth + 1] /\ CodeFixed[AdjustIncr(bl, size)] = CodeFixed[bl]
      /\ FixedList(AdjustIncr(bl, size))
  BY <1>2, <1>4, <1>5, AdjustIncrRight
<1>7. PICK X : X = Lists[Depth]
  OBVIOUS
<1>8. bl \in Seq(EntriesOver(X))
  BY <1>2, <1>5, <1>7, ListsOfDepth
<1>9. ListOk(m, v, AdjustIncr(bl, size))
  BY <1>3, <1>4, <1>8, AdjustOk
<1>10. ListRight(m, v, bl, S, t.size) /\ ListRight(m, v, AdjustIncr(bl, size), S, t.size)
  BY <1>2, <1>3, <1>6, <1>9 DEF ListRight
<1> QED
  BY <1>1, <1>10 DEF BlocklistOfType, Slots

LEMMA VarsApart ==
  ASSUME TIInv
  PROVE  /\ SideBySide(vars, Len(vars)) /\ SideBySide(Reverse(vars), Len(vars))
         /\ \A slots : Placed(Reverse(vars), slots) = Placed(vars, slots)
<1>1. PICK R : R = [ty : Types, addr : Int]
  OBVIOUS
<1>2. PICK s, k : s = vars /\ k = Len(vars)
  OBVIOUS
<1>3. s \in Seq(R) /\ k \in Nat /\ k = Len(s) /\ DOMAIN s = 1 .. k
  BY <1>1, <1>2 DEF TIInv, ScopeInv, VarsPlaced
<1>4. \A i \in 1 .. k : s[i].ty \in AllTypes /\ s[i].ty.form # "open" /\ s[i].addr \in Int
  <2>1. \A i \in 1 .. k : s[i] \in R
    BY <1>3
  <2>2. \A i \in 1 .. k : s[i].ty \in Types /\ s[i].addr \in Int
    BY <1>1, <2>1
  <2> QED
    BY <1>2, <1>3, <2>2, TypesAssumption DEF TIInv
<1>5. \A i, j \in 1 .. k : i # j => Apart(VarBytes(s[i]), VarBytes(s[j]))
  BY <1>2, <1>3 DEF TIInv, ScopeInv
<1>6. SideBySide(s, k)
  BY <1>3, <1>4, <1>5 DEF SideBySide
<1>7. PICK rs : rs = Reverse(s)
  OBVIOUS
<1>8. Len(rs) = k /\ DOMAIN rs = 1 .. k /\ \A i \in 1 .. k : rs[i] = s[(k - i) + 1]
  BY <1>3, <1>7 DEF Reverse
<1>9. \A i \in 1 .. k : (k - i) + 1 \in 1 .. k
  BY <1>3
<1>10. \A i, j \in 1 .. k : i # j => (k - i) + 1 # (k - j) + 1
  BY <1>3
<1>11. SideBySide(rs, k)
  <2>1. \A i \in 1 .. k : rs[i].ty \in AllTypes /\ rs[i].ty.form # "open" /\ rs[i].addr \in Int
    BY <1>4, <1>8, <1>9
  <2>2. ASSUME NEW i \in 1 .. k, NEW j \in 1 .. k, i # j
        PROVE  Apart(VarBytes(rs[i]), VarBytes(rs[j]))
    <3>1. PICK x, y : x = (k - i) + 1 /\ y = (k - j) + 1
      OBVIOUS
    <3>2. x \in 1 .. k /\ y \in 1 .. k /\ x # y
      BY <1>9, <1>10, <2>2, <3>1
    <3>3. Apart(VarBytes(s[x]), VarBytes(s[y]))
      BY <1>5, <3>2
    <3>4. rs[i] = s[x] /\ rs[j] = s[y]
      BY <1>8, <3>1
    <3> QED
      BY <3>3, <3>4
  <2> QED
    BY <1>3, <1>8, <2>1, <2>2 DEF SideBySide
<1>12. ToSet(rs) = ToSet(s)
  BY <1>3, <1>7, ReverseMembers
<1> QED
  BY <1>2, <1>6, <1>7, <1>11, <1>12 DEF Placed

LEMMA VarsListOk ==
  ASSUME TIInv, NEW m, NEW v, NEW kind \in Kinds, NEW bl, bl = BlocklistOfVars(kind)
  PROVE  /\ bl \in AllLists /\ ListOk(m, v, bl)
         /\ ToSet(CodeFixed[bl]) = SlotsOfDecls(vars, kind)
<1>1. PICK types, globals, slots :
        /\ types = BlocklistsOf(kind) /\ slots = SlotsOf(kind)
        /\ globals = [t \in AllTypes |-> AdjustIncr(BlocklistOfType(t, kind), Align4(t.size))]
  OBVIOUS
<1>2. ListsRight(m, v, types, slots) /\ ListsRight(m, v, globals, slots)
  BY <1>1, TypesRight
<1>3. PICK k, rs : k = Len(vars) /\ rs = Reverse(vars)
  OBVIOUS
<1>4. SideBySide(vars, k) /\ SideBySide(rs, k) /\ Placed(rs, slots) = Placed(vars, slots)
  BY <1>3, VarsApart
<1>5. /\ ConcatDecls(vars, globals) \in AllLists /\ ListOk(m, v, ConcatDecls(vars, globals))
      /\ ToSet(CodeFixed[ConcatDecls(vars, globals)]) = Placed(vars, slots)
  BY <1>2, <1>4, DeclsListOk
<1>6. /\ ConcatDecls(rs, types) \in AllLists /\ ListOk(m, v, ConcatDecls(rs, types))
      /\ ToSet(CodeFixed[ConcatDecls(rs, types)]) = Placed(rs, slots)
  BY <1>2, <1>4, DeclsListOk
<1>7. SlotsOfDecls(vars, kind) = Placed(vars, slots)
  BY <1>1 DEF SlotsOfDecls
<1>8. CASE level = MODULELEVEL
  <2>1. bl = ConcatDecls(vars, globals)
    BY <1>1, <1>8 DEF BlocklistOfVars, BlocklistOfModuleGlobals
  <2> QED
    BY <1>5, <1>7, <2>1
<1>9. CASE level # MODULELEVEL
  <2>1. bl = ConcatDecls(rs, types)
    BY <1>1, <1>3, <1>9 DEF BlocklistOfVars, BlocklistOfProcLocals, BlocklistOfDecls
  <2> QED
    BY <1>4, <1>6, <1>7, <2>1
<1> QED
  BY <1>8, <1>9

-----------------------------------------------------------------------------
(* The code for variables.  From any registers, a piece of code stores the *)
(* words W. *)
Sets(m, s, v, t, W) ==
  \A r \in RegFiles : \E q \in RegFiles : Runs(m, s, St(r, v, t), St(q, v, t), W)

LEMMA SetsNone ==
  ASSUME NEW m, NEW v, NEW t
  PROVE  Sets(m, << >>, v, t, {})
  BY RunsNone DEF Sets

LEMMA SetsConcat ==
  ASSUME NEW m, NEW s \in Seq(Instrs), NEW u \in Seq(Instrs), NEW v, NEW t, NEW W, NEW Y,
         Sets(m, s, v, t, W), Sets(m, u, v, t, Y)
  PROVE  Sets(m, s \o u, v, t, W \cup Y)
<1> SUFFICES ASSUME NEW r \in RegFiles
             PROVE  \E q \in RegFiles : Runs(m, s \o u, St(r, v, t), St(q, v, t), W \cup Y)
  BY DEF Sets
<1>1. PICK p \in RegFiles : Runs(m, s, St(r, v, t), St(p, v, t), W)
  BY DEF Sets
<1>2. PICK q \in RegFiles : Runs(m, u, St(p, v, t), St(q, v, t), Y)
  BY DEF Sets
<1>3. Runs(m, s \o u, St(r, v, t), St(q, v, t), W \cup Y)
  BY <1>1, <1>2, RunsConcat
<1> QED
  BY <1>3

Piece(b) ==
  CASE IsFew(b) -> [j \in 1 .. b.count |-> StoreAt(b.ofs + (j - 1) * b.incr)]
    [] IsFill(b) -> <<Mov("edi", b.ofs)>> \o FillLoop(b)
    [] IsLoop(b) ->
         <<Mov("edi", b.ofs)>>
           \o EntryLoop(Mov(Counter(b.height), b.count), b.height, b.incr, SubVarInit[b.sub])

LEMMA VarInitIs ==
  ASSUME NEW bl
  PROVE  VarInit(bl) = FlattenSeq([i \in DOMAIN bl |-> Piece(bl[i])])
  BY DEF VarInit, Piece

LEMMA StoreAtTyped ==
  ASSUME NEW ofs \in Int, NEW incr \in Int, NEW count \in Int
  PROVE  [j \in 1 .. count |-> StoreAt(ofs + (j - 1) * incr)] \in Seq(Instrs)
<1>1. \A j \in 1 .. count : ofs + (j - 1) * incr \in Int
  OBVIOUS
<1>2. \A j \in 1 .. count : StoreAt(ofs + (j - 1) * incr) \in Instrs
  BY <1>1, InsTyped DEF StoreAt, Ops, Values, Registers
<1>3. CASE count <= 0
  <2>1. 1 .. count = {}
    BY <1>3
  <2>2. [j \in 1 .. count |-> StoreAt(ofs + (j - 1) * incr)] = << >>
    BY <2>1
  <2> QED
    BY <2>2
<1>4. CASE count > 0
  BY <1>2, <1>4
<1> QED
  BY <1>3, <1>4

AtPiece(m, v, b, t, W) ==
  /\ EntryOk(m, v, b) /\ (m.safe => ~EntryReused(Reused, b))
  /\ t \in Seq(Int) /\ W = EntryWords(b) /\ (m.safe => InStorage(m, W))

LEMMA PieceRuns ==
  ASSUME NEW m, NEW v, NEW b, NEW t, NEW W, AtPiece(m, v, b, t, W)
  PROVE  Sets(m, Piece(b), v, t, W \X {v}) /\ Piece(b) \in Seq(Instrs)
<1>1. PICK k, incr, ofs, A, E, S :
        /\ k = b.count /\ incr = b.incr /\ ofs = b.ofs /\ A = EntryRow(b)
        /\ E = EntryCounters(Counters, b) /\ S = SubSlots(b)
  OBVIOUS
<1>2. /\ k \in Nat \ {0} /\ incr \in Int /\ ofs \in Int /\ t \in Seq(Int)
      /\ A = RowSlots(S, incr, k) /\ A \subseteq Int
  <2>1. b \in EntriesOver(AllLists) /\ b.count \in Nat /\ b.count \in Nat \ {0} /\ t \in Seq(Int)
    BY DEF AtPiece, EntryOk
  <2>2. k \in Nat \ {0} /\ incr \in Int /\ ofs \in Int
    BY <1>1, <2>1 DEF EntriesOver
  <2>3. S \in SUBSET Int
    BY <1>1, <2>1, EntrySpells
  <2>4. A = RowSlots(S, incr, k)
    BY <1>1 DEF EntryRow
  <2>5. A \subseteq Int
    BY <2>2, <2>3, <2>4, RowSlotsFirst
  <2> QED
    BY <2>1, <2>2, <2>4, <2>5
<1>3. W = {ofs + y : y \in A} /\ (m.safe => InStorage(m, W))
  BY <1>1 DEF AtPiece, EntryWords
<1>4. CASE IsFew(b)
  <2>1. PICK u : u = [j \in 1 .. k |-> StoreAt(ofs + (j - 1) * incr)]
    OBVIOUS
  <2>2. Piece(b) = u
    BY <1>1, <1>4, <2>1, EntryIsOne DEF Piece
  <2>3. k \in {1, 2} /\ S = {0}
    <3>1. k <= 2
      BY <1>1, <1>4 DEF IsFew, BlocklistLoopUnrollingThreshold
    <3>2. b.sub = NoBlocklist
      BY <1>4 DEF IsFew, AtPiece, EntryOk
    <3> QED
      BY <1>1, <1>2, <3>1, <3>2 DEF SubSlots
  <2>4. u \in Seq(Instrs) /\ Len(u) = k
    <3>1. k \in Int
      BY <1>2
    <3>2. u \in Seq(Instrs)
      BY <1>2, <2>1, <3>1, StoreAtTyped
    <3>3. DOMAIN u = 1 .. k
      BY <2>1
    <3> QED
      BY <1>2, <3>2, <3>3
  <2>5. PICK base \in Int : base = 0
    OBVIOUS
  <2>6. ASSUME NEW r \in RegFiles, NEW x, x = St(r, v, t), NEW j \in 1 .. k
        PROVE  Runs(m, <<u[j]>>, x, x, {base + (ofs + (j - 1) * incr)} \X {v})
    <3>1. PICK o : o = ofs + (j - 1) * incr
      OBVIOUS
    <3>2. o \in Int /\ u[j] = StoreAt(o) /\ base + o = o
      BY <1>2, <2>1, <2>5, <3>1
    <3>3. o \in W
      <4>1. (j - 1) * incr \in A
        <5>1. j - 1 \in 0 .. k - 1
          BY <1>2
        <5>2. BlockSlots({0}, incr, j - 1) = {(j - 1) * incr}
          BY <1>2 DEF BlockSlots
        <5> QED
          BY <1>2, <2>3, <5>1, <5>2 DEF RowSlots
      <4> QED
        BY <1>3, <3>1, <4>1
    <3>4. m.safe => InStorage(m, {o})
      BY <1>3, <3>3 DEF InStorage
    <3>5. Runs(m, <<StoreAt(o)>>, St(r, v, t), St(r, v, t), {o} \X {v})
      BY <3>2, <3>4, RunStoreAt
    <3> QED
      BY <2>6, <3>1, <3>2, <3>5
  <2>7. W = {base + (ofs + y) : y \in RowSlots({0}, incr, k)}
    <3>1. \A y \in A : base + (ofs + y) = ofs + y
      BY <1>2, <2>5
    <3> QED
      BY <1>2, <1>3, <2>3, <3>1
  <2>8. ASSUME NEW r \in RegFiles PROVE Runs(m, u, St(r, v, t), St(r, v, t), W \X {v})
    <3>1. PICK x : x = St(r, v, t)
      OBVIOUS
    <3>2. Few(m, u, x, v, base, ofs, incr, k)
      BY <1>2, <2>3, <2>4, <2>6, <3>1 DEF Few
    <3>3. Runs(m, u, x, x, {base + (ofs + y) : y \in RowSlots({0}, incr, k)} \X {v})
      BY <3>2, FewRuns
    <3> QED
      BY <2>7, <3>1, <3>3
  <2> QED
    BY <2>2, <2>4, <2>8 DEF Sets
<1>5. CASE ~IsFew(b)
  <2>1. PICK u, w : u = <<Mov("edi", ofs)>> /\ w = LoopOf(b)
    OBVIOUS
  <2>2. Piece(b) = u \o w
    <3>1. CASE IsFill(b)
      BY <1>1, <2>1, <3>1, EntryIsOne DEF Piece, LoopOf
    <3>2. CASE ~IsFill(b)
      BY <1>1, <1>5, <2>1, <3>2, EntryIsOne DEF Piece, LoopOf
    <3> QED
      BY <3>1, <3>2
  <2>3. u \in Seq(Instrs)
    BY <1>2, <2>1, OneTyped DEF Mov, Ops, Values, Registers
  <2>4. ASSUME NEW r \in RegFiles
        PROVE  /\ \E q \in RegFiles : Runs(m, u \o w, St(r, v, t), St(q, v, t), W \X {v})
               /\ w \in Seq(Instrs)
    <3>1. PICK q, z : q = [r EXCEPT !["edi"] = ofs] /\ z = k * incr
      OBVIOUS
    <3>2. Runs(m, u, St(r, v, t), St(q, v, t), {}) /\ q \in RegFiles
      BY <1>2, <2>1, <3>1, RunMov DEF Registers
    <3>3. z \in Int /\ q["edi"] = ofs
      BY <1>2, <3>1 DEF RegFiles, Registers
    <3>4. Words(q, A) = W
      BY <1>3, <3>3 DEF Words
    <3>5. AtLoop(m, v, b, q, t, z, A, E)
      BY <1>1, <1>2, <1>3, <1>5, <3>1, <3>2, <3>4 DEF AtLoop, AtPiece
    <3>6. Runs(m, w, St(q, v, t), St(Regs(q, z, E), v, t), W \X {v}) /\ w \in Seq(Instrs)
      BY <2>1, <3>4, <3>5, LoopOfRuns
    <3>7. Regs(q, z, E) \in RegFiles
      BY <3>2, <3>3, RegsTyped
    <3>8. Runs(m, u \o w, St(r, v, t), St(Regs(q, z, E), v, t), {} \cup (W \X {v}))
      BY <2>3, <3>2, <3>6, RunsConcat
    <3>9. {} \cup (W \X {v}) = W \X {v}
      OBVIOUS
    <3> QED
      BY <3>6, <3>7, <3>8, <3>9
  <2>5. w \in Seq(Instrs)
    <3>1. [x \in Registers |-> 0] \in RegFiles
      BY DEF RegFiles
    <3> QED
      BY <2>4, <3>1
  <2>6. u \o w \in Seq(Instrs)
    BY <2>3, <2>5, ConcatProperties
  <2>7. Sets(m, u \o w, v, t, W \X {v})
    BY <2>4 DEF Sets
  <2> QED
    BY <2>2, <2>6, <2>7
<1> QED
  BY <1>4, <1>5

(* The code for a list of variables. *)
LEMMA VarInitRuns ==
  ASSUME NEW m, NEW v, NEW t \in Seq(Int), NEW bl \in AllLists, ListOk(m, v, bl),
         m.safe => ~Reused[bl], m.safe => InStorage(m, ToSet(CodeFixed[bl]))
  PROVE  /\ Sets(m, VarInit(bl), v, t, ToSet(CodeFixed[bl]) \X {v})
         /\ VarInit(bl) \in Seq(Instrs)
<1>1. PICK k \in Nat : k = Len(bl) /\ DOMAIN bl = 1 .. k
  <2>1. bl \in Seq(EntriesOver(AllLists))
    BY EntriesOfLists
  <2> QED
    BY <2>1, LenProperties
<1>2. UNION {EntryWords(bl[i]) : i \in DOMAIN bl} = ToSet(CodeFixed[bl])
  <2>1. \A i \in DOMAIN bl : bl[i].count \in Nat
    BY DEF ListOk, EntryOk
  <2> QED
    BY <2>1, ListSpells
<1>3. ASSUME NEW i \in 1 .. k
      PROVE  Sets(m, Piece(bl[i]), v, t, EntryWords(bl[i]) \X {v}) /\ Piece(bl[i]) \in Seq(Instrs)
  <2>1. PICK b, W : b = bl[i] /\ W = EntryWords(b)
    OBVIOUS
  <2>2. EntryOk(m, v, b)
    BY <1>1, <2>1 DEF ListOk
  <2>3. m.safe => ~EntryReused(Reused, b)
    <3>1. b \in ToSet(bl)
      BY <1>1, <2>1 DEF ToSet
    <3> QED
      BY <3>1, ReusedIs
  <2>4. W \subseteq ToSet(CodeFixed[bl])
    BY <1>1, <1>2, <2>1
  <2>5. m.safe => InStorage(m, W)
    BY <2>4 DEF InStorage
  <2>6. AtPiece(m, v, b, t, W)
    BY <2>1, <2>2, <2>3, <2>5 DEF AtPiece
  <2> QED
    BY <2>1, <2>6, PieceRuns
<1>4. PICK ss : ss = [i \in 1 .. k |-> Piece(bl[i])]
  OBVIOUS
<1>5. ss \in Seq(Seq(Instrs)) /\ Len(ss) = k /\ VarInit(bl) = FlattenSeq(ss)
  <2>1. PICK X : X = Seq(Instrs)
    OBVIOUS
  <2>2. \A i \in 1 .. k : ss[i] \in X
    BY <1>3, <1>4, <2>1
  <2>3. DOMAIN ss = 1 .. k
    BY <1>4
  <2>4. ss \in Seq(X) /\ Len(ss) = k
    BY <1>4, <2>2, <2>3
  <2>5. VarInit(bl) = FlattenSeq(ss)
    BY <1>1, <1>4, VarInitIs
  <2> QED
    BY <2>1, <2>4, <2>5
<1>6. PICK f \in [0 .. Len(ss) -> Seq(Instrs)] :
        /\ f[0] = << >> /\ \A i \in 1 .. Len(ss) : f[i] = f[i - 1] \o ss[i]
        /\ FlattenSeq(ss) = f[Len(ss)]
  BY <1>5, FlattenIs
<1> DEFINE W(j) == UNION {EntryWords(bl[i]) \X {v} : i \in 1 .. j}
           S == {j \in 0 .. k : Sets(m, f[j], v, t, W(j))}
<1>7. 0 \in S
  <2>1. W(0) = {}
    OBVIOUS
  <2>2. f[0] = << >>
    BY <1>6
  <2> HIDE DEF W
  <2>3. Sets(m, f[0], v, t, W(0))
    BY <2>1, <2>2, SetsNone
  <2> QED
    BY <2>3
<1>8. ASSUME NEW j \in 0 .. k - 1, j \in S PROVE j + 1 \in S
  <2>1. j + 1 \in 1 .. k /\ (j + 1) - 1 = j /\ j + 1 \in 0 .. k /\ j \in 0 .. k
    BY <1>1
  <2>2. PICK s, u, Y, Z : s = f[j] /\ u = ss[j + 1] /\ Y = W(j) /\ Z = EntryWords(bl[j + 1]) \X {v}
    OBVIOUS
  <2>3. s \in Seq(Instrs) /\ u \in Seq(Instrs)
    BY <1>3, <1>4, <1>5, <1>6, <2>1, <2>2
  <2>4. f[j + 1] = s \o u
    <3>1. f[j + 1] = f[(j + 1) - 1] \o ss[j + 1]
      BY <1>5, <1>6, <2>1
    <3> QED
      BY <2>1, <2>2, <3>1
  <2>5. Sets(m, s, v, t, Y)
    BY <1>8, <2>2
  <2>6. Sets(m, u, v, t, Z)
    BY <1>3, <1>4, <2>1, <2>2
  <2>7. 1 .. j + 1 = (1 .. j) \cup {j + 1}
    BY <1>1
  <2>8. W(j + 1) = Y \cup Z
    BY <2>2, <2>7
  <2>9. Sets(m, s \o u, v, t, Y \cup Z)
    BY <2>3, <2>5, <2>6, SetsConcat
  <2> QED
    BY <2>1, <2>4, <2>8, <2>9
<1>9. k \in S
  <2> HIDE DEF S
  <2>1. 0 .. k \subseteq S
    BY <1>1, <1>7, <1>8, InductionUpto
  <2> QED
    BY <1>1, <2>1
<1>10. W(k) = ToSet(CodeFixed[bl]) \X {v}
  <2>1. ToSet(CodeFixed[bl]) = UNION {EntryWords(bl[i]) : i \in 1 .. k}
    BY <1>1, <1>2
  <2> QED
    BY <2>1
<1>11. VarInit(bl) = f[k] /\ f[k] \in Seq(Instrs)
  BY <1>5, <1>6
<1> QED
  BY <1>9, <1>10, <1>11

-----------------------------------------------------------------------------
(* The storage that is to be initialised. *)
MadeFor(m) ==
  /\ m.lo = Lowest /\ m.hi = Upto /\ m.n = n /\ (block.form = "open" => m.open)
  /\ m.safe => ~CountersClash

LEMMA RowWithin ==
  ASSUME NEW i \in Nat, NEW k \in Nat, i < k, NEW size \in Nat, NEW o \in Nat, o + 4 <= size
  PROVE  i * size + o + 4 <= k * size /\ i * size \in Nat
<1>1. i + 1 <= k
  OBVIOUS
<1>2. PICK d \in Nat : k = (i + 1) + d
  <2>1. k - (i + 1) \in Nat /\ k = (i + 1) + (k - (i + 1))
    BY <1>1
  <2> QED
    BY <2>1
<1>3. PICK a \in Nat, c \in Nat : a = i * size /\ c = d * size
  OBVIOUS
<1>4. k * size = (a + size) + c
  BY <1>2, <1>3
<1> QED
  BY <1>3, <1>4

(* What is to be stored lies in the storage. *)
LEMMA SlotsInStorage ==
  ASSUME TIInv, NEW kind \in Kinds, NEW m, MadeFor(m)
  PROVE  InStorage(m, SlotsHere(kind)) /\ SlotsHere(kind) \in SUBSET Int
<1> SUFFICES ASSUME NEW a \in SlotsHere(kind)
             PROVE  a \in Int /\ Lowest <= a /\ a + 4 <= Upto
  BY DEF InStorage, MadeFor
<1>1. CASE block = NoBlock
  <2>1. PICK slots, k : slots = SlotsOf(kind) /\ k = Len(vars)
    OBVIOUS
  <2>2. SideBySide(vars, k)
    BY <2>1, VarsApart
  <2>3. PICK d : d = vars
    OBVIOUS
  <2>4. k \in Nat /\ DOMAIN d = 1 .. k
    BY <2>2, <2>3 DEF SideBySide
  <2>5. Placed(d, slots) = UNION {{d[i].addr + o : o \in slots[d[i].ty]} : i \in 1 .. k}
    BY <2>4, PlacedIs
  <2>6. a \in Placed(d, slots)
    BY <1>1, <2>1, <2>3 DEF SlotsHere, SlotsOfDecls, NoBlock
  <2>7. PICK i \in 1 .. k : a \in {d[i].addr + o : o \in slots[d[i].ty]}
    BY <2>5, <2>6
  <2>8. PICK o \in slots[d[i].ty] : a = d[i].addr + o
    BY <2>7
  <2>9. d[i].ty \in AllTypes /\ d[i].addr \in Int
    BY <2>2, <2>3 DEF SideBySide
  <2>10. PICK at \in Int, size \in Nat : at = d[i].addr /\ size = d[i].ty.size
    BY <2>9, TypeParts
  <2>11. o \in Nat /\ o + 4 <= size
    BY <2>1, <2>9, <2>10, TypeListIs DEF SlotsWithin, Slots
  <2>12. IF level = MODULELEVEL THEN GlobalVarBase <= at /\ at + size <= varAddr
                                ELSE varAddr <= at /\ at + size <= LocalVarBase(level)
    BY <2>3, <2>4, <2>10 DEF TIInv, ScopeInv, VarsPlaced, VarBytes
  <2>13. varAddr \in Int /\ GlobalVarBase \in Int /\ LocalVarBase(level) \in Int
    BY DEF TIInv, ScopeInv, VarsPlaced, GlobalVarBase, LocalVarBase, MODULELEVEL
  <2>14. IF level = MODULELEVEL THEN Lowest = GlobalVarBase /\ Upto = varAddr
                                ELSE Lowest = varAddr /\ Upto = LocalVarBase(level)
    BY <1>1 DEF Lowest, Upto, NoBlock
  <2>15. a = at + o
    BY <2>8, <2>10
  <2>16. CASE level = MODULELEVEL
    BY <2>11, <2>12, <2>13, <2>14, <2>15, <2>16
  <2>17. CASE level # MODULELEVEL
    BY <2>11, <2>12, <2>13, <2>14, <2>15, <2>17
  <2> QED
    BY <2>16, <2>17
<1>2. CASE block # NoBlock /\ block.form = "open"
  <2>1. PICK r : r = block.elem
    OBVIOUS
  <2>2. r \in AllTypes /\ block.odim \in Nat \ {0} /\ r.size \in Nat
    BY <1>2, <2>1, TypeParts, TypeInitAssumption DEF TIInv
  <2>3. PICK at \in Nat, size \in Nat, k \in Nat : at = ArrayOfsFromODim(block.odim) /\ size = r.size /\ k = n
    BY <2>2, DimsOfOpen DEF TIInv
  <2>4. SlotsHere(kind) = {at + i * size + o : i \in 0 .. k - 1, o \in Slots(r, kind)}
    BY <1>2, <2>1, <2>3 DEF SlotsHere
  <2>5. PICK i \in 0 .. k - 1, o \in Slots(r, kind) : a = at + i * size + o
    BY <2>4
  <2>6. o \in Nat /\ o + 4 <= size
    BY <2>2, <2>3, TypeListIs DEF SlotsWithin
  <2>7. i * size + o + 4 <= k * size /\ i * size \in Nat
    BY <2>3, <2>6, RowWithin
  <2>8. Lowest = 0 /\ Upto = at + k * size
    BY <1>2, <2>1, <2>3 DEF Lowest, Upto
  <2>9. PICK x \in Nat, z \in Int : x = i * size /\ z = k * size
    BY <2>7
  <2>10. a = at + x + o /\ x + o + 4 <= z /\ Upto = at + z
    BY <2>5, <2>7, <2>8, <2>9
  <2> QED
    BY <2>3, <2>6, <2>8, <2>9, <2>10
<1>3. CASE block # NoBlock /\ block.form # "open"
  <2>1. block \in AllTypes /\ block.size \in Nat
    BY <1>3, TypeParts, TypeInitAssumption DEF TIInv
  <2>2. a \in Nat /\ a + 4 <= block.size
    BY <1>3, <2>1, TypeListIs DEF SlotsHere, SlotsWithin
  <2>3. Lowest = 0 /\ Upto = block.size
    BY <1>3 DEF Lowest, Upto
  <2> QED
    BY <2>1, <2>2, <2>3
<1> QED
  BY <1>1, <1>2, <1>3

LEMMA RunEax ==
  ASSUME NEW m, NEW kind, NEW r, NEW w, NEW t
  PROVE  Runs(m, <<LoadEaxWithInitVal(kind)>>, St(r, w, t), St(r, InitVal(kind), t), {})
<1>1. PICK ins, v : ins = LoadEaxWithInitVal(kind) /\ v = InitVal(kind)
  OBVIOUS
<1>2. ins.op = "eax" /\ ins.val = v
  BY <1>1 DEF LoadEaxWithInitVal, Ins
<1>3. Quiet(ins, r, w, t, r, v, t)
  BY <1>2 DEF Quiet
<1> QED
  BY <1>1, <1>3, RunQuiet

LEMMA EaxTyped ==
  ASSUME NEW kind \in Kinds
  PROVE  LoadEaxWithInitVal(kind) \in Instrs /\ <<LoadEaxWithInitVal(kind)>> \in Seq(Instrs)
<1>1. InitVal(kind) \in Values
  BY DEF InitVal, Values
<1> QED
  BY <1>1, InsTyped DEF LoadEaxWithInitVal, Ops, Registers

(* From any registers and any eax, code stores the words W. *)
Loads(m, s, t, W) ==
  \A r, w : r \in RegFiles =>
    \E q, u : q \in RegFiles /\ Runs(m, s, St(r, w, t), St(q, u, t), W)

LEMMA LoadsNone ==
  ASSUME NEW m, NEW t
  PROVE  Loads(m, << >>, t, {})
  BY RunsNone DEF Loads

LEMMA LoadsConcat ==
  ASSUME NEW m, NEW s \in Seq(Instrs), NEW u \in Seq(Instrs), NEW t, NEW W, NEW Y,
         Loads(m, s, t, W), Loads(m, u, t, Y)
  PROVE  Loads(m, s \o u, t, W \cup Y)
<1> SUFFICES ASSUME NEW r \in RegFiles, NEW w
             PROVE  \E q, x : q \in RegFiles /\ Runs(m, s \o u, St(r, w, t), St(q, x, t), W \cup Y)
  BY DEF Loads
<1>1. PICK p, y : p \in RegFiles /\ Runs(m, s, St(r, w, t), St(p, y, t), W)
  BY DEF Loads
<1>2. PICK q, x : q \in RegFiles /\ Runs(m, u, St(p, y, t), St(q, x, t), Y)
  BY <1>1 DEF Loads
<1>3. Runs(m, s \o u, St(r, w, t), St(q, x, t), W \cup Y)
  BY <1>1, <1>2, RunsConcat
<1> QED
  BY <1>2, <1>3

LEMMA LoadsEax ==
  ASSUME NEW m, NEW kind \in Kinds, NEW s \in Seq(Instrs), NEW t, NEW W,
         Sets(m, s, InitVal(kind), t, W)
  PROVE  /\ Loads(m, <<LoadEaxWithInitVal(kind)>> \o s, t, W)
         /\ <<LoadEaxWithInitVal(kind)>> \o s \in Seq(Instrs)
<1>1. PICK u, v : u = <<LoadEaxWithInitVal(kind)>> /\ v = InitVal(kind)
  OBVIOUS
<1>2. u \in Seq(Instrs)
  BY <1>1, EaxTyped
<1>3. ASSUME NEW r \in RegFiles, NEW w
      PROVE  \E q, x : q \in RegFiles /\ Runs(m, u \o s, St(r, w, t), St(q, x, t), W)
  <2>1. Runs(m, u, St(r, w, t), St(r, v, t), {})
    BY <1>1, RunEax
  <2>2. PICK q \in RegFiles : Runs(m, s, St(r, v, t), St(q, v, t), W)
    BY <1>1 DEF Sets
  <2>3. Runs(m, u \o s, St(r, w, t), St(q, v, t), {} \cup W)
    BY <1>2, <2>1, <2>2, RunsConcat
  <2>4. {} \cup W = W
    OBVIOUS
  <2> QED
    BY <2>2, <2>3, <2>4
<1>4. u \o s \in Seq(Instrs)
  BY <1>2, ConcatProperties
<1> QED
  BY <1>1, <1>3, <1>4 DEF Loads

(* What precedes the statements of a body. *)
LEMMA VarInitializingLoads ==
  ASSUME TIInv, block = NoBlock, NEW kind \in Kinds, NEW m, MadeFor(m), NEW t \in Seq(Int),
         NEW bl, bl = BlocklistOfVars(kind)
  PROVE  /\ Loads(m, VarInitializing(bl, kind), t, SlotsHere(kind) \X {InitVal(kind)})
         /\ VarInitializing(bl, kind) \in Seq(Instrs)
<1>1. PICK v, O : v = InitVal(kind) /\ O = SlotsHere(kind)
  OBVIOUS
<1>2. bl \in AllLists /\ ListOk(m, v, bl) /\ ToSet(CodeFixed[bl]) = O
  <2>1. O = SlotsOfDecls(vars, kind)
    BY <1>1 DEF SlotsHere, NoBlock
  <2> QED
    BY <2>1, VarsListOk
<1>3. CASE bl = NoBlocklist
  <2>1. O = {}
    BY <1>2, <1>3, CodeFixedEmpty DEF ToSet
  <2>2. VarInitializing(bl, kind) = << >> /\ O \X {v} = {}
    BY <1>3, <2>1 DEF VarInitializing
  <2>3. Loads(m, << >>, t, {}) /\ << >> \in Seq(Instrs)
    BY LoadsNone
  <2> QED
    BY <1>1, <2>2, <2>3
<1>4. CASE bl # NoBlocklist
  <2>1. m.safe => ~Reused[bl]
    BY DEF MadeFor, CountersClash
  <2>2. m.safe => InStorage(m, ToSet(CodeFixed[bl]))
    BY <1>1, <1>2, SlotsInStorage
  <2>3. Sets(m, VarInit(bl), v, t, ToSet(CodeFixed[bl]) \X {v}) /\ VarInit(bl) \in Seq(Instrs)
    BY <1>2, <2>1, <2>2, VarInitRuns
  <2>4. VarInitializing(bl, kind) = <<LoadEaxWithInitVal(kind)>> \o VarInit(bl)
    BY <1>4 DEF VarInitializing
  <2> QED
    BY <1>1, <1>2, <2>3, <2>4, LoadsEax
<1> QED
  BY <1>3, <1>4

LEMMA WantedIs ==
  Wanted = (SlotsHere("pointer") \X {InitVal("pointer")}) \cup (SlotsHere("procedure") \X {InitVal("procedure")})
  BY DEF Wanted, Kinds

LEMMA PrologueLoads ==
  ASSUME TIInv, block = NoBlock, NEW m, MadeFor(m), NEW t \in Seq(Int)
  PROVE  Loads(m, Prologue, t, Wanted) /\ Prologue \in Seq(Instrs)
<1>1. PICK s, u, W, Y :
        /\ s = VarInitializing(BlocklistOfVars("pointer"), "pointer")
        /\ u = VarInitializing(BlocklistOfVars("procedure"), "procedure")
        /\ W = SlotsHere("pointer") \X {InitVal("pointer")}
        /\ Y = SlotsHere("procedure") \X {InitVal("procedure")}
  OBVIOUS
<1>2. Loads(m, s, t, W) /\ s \in Seq(Instrs) /\ Loads(m, u, t, Y) /\ u \in Seq(Instrs)
  BY <1>1, VarInitializingLoads DEF Kinds
<1>3. Loads(m, s \o u, t, W \cup Y) /\ s \o u \in Seq(Instrs)
  BY <1>2, LoadsConcat, ConcatProperties
<1> QED
  BY <1>1, <1>3, WantedIs DEF Prologue

-----------------------------------------------------------------------------
(* The initialiser of a heap block.  From edi = 0, code stores the words W. *)
FromZero(m, s, t, W) ==
  \A r, w : r \in RegFiles /\ r["edi"] = 0 =>
    \E q, u : q \in RegFiles /\ Runs(m, s, St(r, w, t), St(q, u, t), W)

LEMMA FromZeroNone ==
  ASSUME NEW m, NEW t
  PROVE  FromZero(m, << >>, t, {})
  BY RunsNone DEF FromZero

ZeroSets(m, s, v, t, W) ==
  \A r \in RegFiles : r["edi"] = 0 => \E q \in RegFiles : Runs(m, s, St(r, v, t), St(q, v, t), W)

LEMMA ZeroEax ==
  ASSUME NEW m, NEW kind \in Kinds, NEW s \in Seq(Instrs), NEW t, NEW W,
         ZeroSets(m, s, InitVal(kind), t, W)
  PROVE  /\ FromZero(m, <<LoadEaxWithInitVal(kind)>> \o s, t, W)
         /\ <<LoadEaxWithInitVal(kind)>> \o s \in Seq(Instrs)
<1>1. PICK u, v : u = <<LoadEaxWithInitVal(kind)>> /\ v = InitVal(kind)
  OBVIOUS
<1>2. u \in Seq(Instrs)
  BY <1>1, EaxTyped
<1>3. ASSUME NEW r \in RegFiles, NEW w, r["edi"] = 0
      PROVE  \E q, x : q \in RegFiles /\ Runs(m, u \o s, St(r, w, t), St(q, x, t), W)
  <2>1. Runs(m, u, St(r, w, t), St(r, v, t), {})
    BY <1>1, RunEax
  <2>2. PICK q \in RegFiles : Runs(m, s, St(r, v, t), St(q, v, t), W)
    BY <1>1, <1>3 DEF ZeroSets
  <2>3. Runs(m, u \o s, St(r, w, t), St(q, v, t), {} \cup W)
    BY <1>2, <2>1, <2>2, RunsConcat
  <2>4. {} \cup W = W
    OBVIOUS
  <2> QED
    BY <2>2, <2>3, <2>4
<1>4. u \o s \in Seq(Instrs)
  BY <1>2, ConcatProperties
<1> QED
  BY <1>1, <1>3, <1>4 DEF FromZero

(* The code of a type that is no open array. *)
LEMMA ClosedLoads ==
  ASSUME TIInv, block # NoBlock, block.form # "open", NEW kind \in Kinds, NEW m, MadeFor(m),
         NEW t \in Seq(Int), NEW bl, bl = BlocklistOfType(block, kind)
  PROVE  /\ FromZero(m, TypeInitializing(bl, kind), t, SlotsHere(kind) \X {InitVal(kind)})
         /\ TypeInitializing(bl, kind) \in Seq(Instrs)
         /\ bl = NoBlocklist => SlotsHere(kind) = {}
<1>1. PICK v, O : v = InitVal(kind) /\ O = SlotsHere(kind)
  OBVIOUS
<1>2. /\ bl \in AllLists /\ FixedList(bl) /\ ListOk(m, v, bl) /\ ToSet(CodeFixed[bl]) = O
  <2>1. block \in AllTypes
    BY TypeInitAssumption DEF TIInv
  <2>2. O = Slots(block, kind)
    BY <1>1 DEF SlotsHere
  <2> QED
    BY <2>1, <2>2, TypeListIs, TypeEnumerates, TypesOk DEF TypeOk, Enumerates
<1>3. CASE bl = NoBlocklist
  <2>1. O = {}
    BY <1>2, <1>3, CodeFixedEmpty DEF ToSet
  <2>2. TypeInitializing(bl, kind) = << >> /\ O \X {v} = {}
    BY <1>3, <2>1 DEF TypeInitializing
  <2>3. FromZero(m, << >>, t, {}) /\ << >> \in Seq(Instrs)
    BY FromZeroNone
  <2> QED
    BY <1>1, <2>1, <2>2, <2>3
<1>4. CASE bl # NoBlocklist
  <2>1. m.safe => ~Reused[bl]
    BY DEF MadeFor, CountersClash
  <2>2. m.safe => InStorage(m, O)
    BY <1>1, SlotsInStorage
  <2>3. ListRuns(m, v, bl)
    BY <1>2, ListOkRuns
  <2>4. PICK s, out, C : s = SubVarInit[bl].code /\ out = SubVarInit[bl].out /\ C = Counters[bl]
    OBVIOUS
  <2>5. s \in Seq(Instrs) /\ out \in Int
    BY <1>2, <2>4, CodesAre DEF Codes
  <2>6. BodyRuns(m, s, v, out, C, O)
    BY <1>2, <2>1, <2>3, <2>4 DEF ListRuns
  <2>7. ZeroSets(m, s, v, t, O \X {v})
    <3> SUFFICES ASSUME NEW r \in RegFiles, r["edi"] = 0
                 PROVE  \E q \in RegFiles : Runs(m, s, St(r, v, t), St(q, v, t), O \X {v})
      BY DEF ZeroSets
    <3>1. Words(r, O) = O
      <4>1. \A o \in O : r["edi"] + o = o
        BY <1>1, SlotsInStorage
      <4> QED
        BY <4>1 DEF Words
    <3>2. Runs(m, s, St(r, v, t), St(Regs(r, out, C), v, t), O \X {v})
      BY <2>2, <2>6, <3>1 DEF BodyRuns
    <3>3. Regs(r, out, C) \in RegFiles
      BY <2>5, RegsTyped
    <3> QED
      BY <3>2, <3>3
  <2>8. TypeInitializing(bl, kind) = <<LoadEaxWithInitVal(kind)>> \o s
    <3>1. ~(Last(bl).count < 1)
      <4>1. bl \in Seq(EntriesOver(AllLists))
        BY <1>2, EntriesOfLists
      <4>2. Len(bl) \in DOMAIN bl /\ Last(bl) = bl[Len(bl)]
        BY <1>4, <4>1 DEF Last, NoBlocklist
      <4>3. Last(bl).count \in Nat \ {0}
        BY <1>2, <4>2 DEF FixedList
      <4> QED
        BY <4>3
    <3> QED
      BY <1>4, <2>4, <3>1 DEF TypeInitializing
  <2> QED
    BY <1>1, <1>4, <2>5, <2>7, <2>8, ZeroEax
<1> QED
  BY <1>3, <1>4

(* The list of an open array is one entry, if it has one. *)
OpenLists(kind, t, bl, sub, c) ==
  /\ c = -t.odim /\ kind \in Kinds /\ t \in AllTypes /\ t.form = "open"
  /\ bl = BlocklistOfType(t, kind) /\ sub = BlocklistOfType(t.elem, kind)

LEMMA OpenEntryIs ==
  ASSUME NEW kind, NEW t, NEW bl, NEW sub, NEW c, OpenLists(kind, t, bl, sub, c)
  PROVE  /\ bl # NoBlocklist => bl = <<Entry(sub, 0, c, t.elem.size, 0)>>
         /\ bl = NoBlocklist \/ sub = NoBlocklist => Slots(t.elem, kind) = {}
<1>1. /\ t.elem \in AllTypes /\ t.elem.form # "open"
      /\ t.elem.form \in {"pointer", "procedure", "basic", "array", "record"}
  BY TypeParts DEF OpenLists
<1>2. bl = BlocklistOfOpenArrayType(t, sub, kind)
  BY BlocklistsAre DEF TypeList, BlocklistOfType, OpenLists
<1>3. sub = NoBlocklist => Slots(t.elem, kind) = {}
  <2>1. ToSet(CodeFixed[sub]) = Slots(t.elem, kind)
    BY <1>1, TypeEnumerates DEF Enumerates, OpenLists
  <2> QED
    BY <2>1, CodeFixedEmpty DEF ToSet
<1>4. CASE t.elem.form \in {"array", "record", kind}
  <2>1. bl = <<Entry(sub, 0, c, t.elem.size, 0)>>
    BY <1>2, <1>4 DEF BlocklistOfOpenArrayType, OpenLists
  <2>2. bl # NoBlocklist
    BY <2>1 DEF NoBlocklist
  <2> QED
    BY <1>3, <2>1, <2>2
<1>5. CASE t.elem.form \notin {"array", "record", kind}
  <2>1. bl = NoBlocklist
    BY <1>2, <1>5 DEF BlocklistOfOpenArrayType
  <2>2. Slots(t.elem, kind) = {}
    BY <1>1, <1>5, SlotsAre DEF TypeSlots, OpenLists
  <2> QED
    BY <2>1, <2>2
<1> QED
  BY <1>4, <1>5

(* The loop over an open array's elements, whose number is in register c. *)
OpenLoop(m, v, height, incr, sub, c, C, O, k, at, t, W) ==
  /\ LoopEntry(m, v, height, incr, sub, c, C, O)
  /\ k \in Nat \ {0} /\ k = m.n /\ at \in Int /\ t \in Seq(Int)
  /\ W = {at + x : x \in RowSlots(O, incr, k)} /\ (m.safe => InStorage(m, W)) /\ m.open

LEMMA OpenLoopSets ==
  ASSUME NEW m, NEW v, NEW height, NEW incr, NEW sub, NEW c, NEW C, NEW O, NEW k, NEW at, NEW t, NEW W,
         OpenLoop(m, v, height, incr, sub, c, C, O, k, at, t, W),
         NEW s, s = <<Ins("load", c, 0, "none")>>
                      \o EntryLoop(Ins("add", "edi", at, "none"), height, incr, sub)
  PROVE  ZeroSets(m, s, v, t, W \X {v}) /\ s \in Seq(Instrs)
<1>1. PICK body, first, D : /\ body = LoopBody(height, incr, sub) /\ D = C \cup {c}
                            /\ first = Ins("add", "edi", at, "none")
  OBVIOUS
<1>2. PICK loop, load : loop = body \o <<Back(c, body)>> /\ load = Ins("load", c, 0, "none")
  OBVIOUS
<1>3. /\ k \in Nat \ {0} /\ at \in Int /\ t \in Seq(Int) /\ incr \in Int /\ O \in SUBSET Int
      /\ sub \in Codes /\ c = Counter(height) /\ k \in Int
  BY DEF OpenLoop, LoopEntry
<1>4. c \in Registers \ {"edi"} /\ c \in Registers
  BY <1>3, CounterIs
<1>5. first \in Instrs /\ <<first>> \in Seq(Instrs) /\ load \in Instrs /\ <<load>> \in Seq(Instrs)
  <2>1. <<first>> \in Seq(Instrs) /\ first \in Instrs
    BY <1>1, <1>3, InsTyped DEF Ops, Registers, Values
  <2>2. <<load>> \in Seq(Instrs) /\ load \in Instrs
    BY <1>2, <1>4, InsTyped DEF Ops, Values
  <2> QED
    BY <2>1, <2>2
<1>6. /\ EntryLoop(first, height, incr, sub) = <<first>> \o loop /\ loop \in Seq(Instrs)
      /\ <<first>> \o loop \in Seq(Instrs)
  BY <1>1, <1>2, <1>3, <1>5, EntryLoopIs
<1>7. s = <<load>> \o (<<first>> \o loop)
  BY <1>1, <1>2, <1>6
<1>8. s \in Seq(Instrs)
  BY <1>5, <1>6, <1>7, ConcatProperties
<1>9. ASSUME NEW r \in RegFiles, r["edi"] = 0
      PROVE  \E q \in RegFiles : Runs(m, s, St(r, v, t), St(q, v, t), W \X {v})
  <2>1. PICK q1 : q1 = [r EXCEPT ![c] = k]
    OBVIOUS
  <2>2. q1 \in RegFiles /\ q1[c] = k /\ q1["edi"] = 0
    BY <1>3, <1>4, <1>9, <2>1 DEF RegFiles, Registers
  <2>3. Runs(m, <<load>>, St(r, v, t), St(q1, v, t), {})
    <3>1. m.open /\ m.n = k
      BY DEF OpenLoop
    <3>2. Runs(m, <<Ins("load", c, 0, "none")>>, St(r, v, t), St([r EXCEPT ![c] = m.n], v, t), {})
      BY <1>4, <1>9, <3>1, RunLoad
    <3> QED
      BY <1>2, <2>1, <3>1, <3>2
  <2>4. PICK N, q2 : N = {} /\ q2 = Regs(q1, at, N)
    OBVIOUS
  <2>5. Runs(m, <<first>>, St(q1, v, t), St(q2, v, t), {})
    BY <1>1, <1>3, <2>2, <2>4, RunAdd
  <2>6. q2 \in RegFiles /\ q2["edi"] = at /\ q2[c] = k
    <3>1. q2 \in RegFiles /\ q2["edi"] = q1["edi"] + at /\ q2[c] = q1[c]
      BY <1>3, <1>4, <2>2, <2>4, RegsTyped
    <3> QED
      BY <1>3, <2>2, <3>1
  <2>7. Words(q2, RowSlots(O, incr, k)) = W
    BY <2>6 DEF Words, OpenLoop
  <2>8. m.safe => InStorage(m, W)
    BY DEF OpenLoop
  <2>9. LoopEntry(m, v, height, incr, sub, c, C, O)
    BY DEF OpenLoop
  <2>10. PICK q3 : q3 = Regs(q2, k * incr, D)
    OBVIOUS
  <2>11. Runs(m, loop, St(q2, v, t), St(q3, v, t), W \X {v})
    BY <1>1, <1>2, <1>3, <2>6, <2>7, <2>8, <2>9, <2>10, EntryTurns
  <2>12. q3 \in RegFiles
    <3>1. k * incr \in Int
      BY <1>3
    <3> QED
      BY <2>6, <2>10, <3>1, RegsTyped
  <2>13. Runs(m, <<first>> \o loop, St(q1, v, t), St(q3, v, t), {} \cup (W \X {v}))
    BY <1>5, <1>6, <2>5, <2>11, RunsConcat
  <2>14. Runs(m, s, St(r, v, t), St(q3, v, t), {} \cup ({} \cup (W \X {v})))
    <3>1. PICK u, w, Y : u = <<load>> /\ w = <<first>> \o loop /\ Y = {} \cup (W \X {v})
      OBVIOUS
    <3>2. u \in Seq(Instrs) /\ w \in Seq(Instrs)
      BY <1>5, <1>6, <3>1
    <3>3. Runs(m, u, St(r, v, t), St(q1, v, t), {}) /\ Runs(m, w, St(q1, v, t), St(q3, v, t), Y)
      BY <2>3, <2>13, <3>1
    <3>4. Runs(m, u \o w, St(r, v, t), St(q3, v, t), {} \cup Y)
      BY <3>2, <3>3, RunsConcat
    <3> QED
      BY <1>7, <3>1, <3>4
  <2>15. {} \cup ({} \cup (W \X {v})) = W \X {v}
    OBVIOUS
  <2> QED
    BY <2>12, <2>14, <2>15
<1> QED
  BY <1>8, <1>9 DEF ZeroSets

LEMMA PairIs ==
  ASSUME NEW a, NEW b
  PROVE  <<a, b>> = <<a>> \o <<b>>
<1>1. PICK X : X = {a, b}
  OBVIOUS
<1>2. <<a>> \in Seq(X) /\ <<b>> \in Seq(X) /\ <<a, b>> \in Seq(X)
  BY <1>1
<1>3. PICK s, t : s = <<a>> \o <<b>> /\ t = <<a, b>>
  OBVIOUS
<1>4. s \in Seq(X) /\ Len(s) = 2 /\ s[1] = a /\ s[2] = b
  BY <1>2, <1>3
<1>5. t \in Seq(X) /\ Len(t) = 2 /\ t[1] = a /\ t[2] = b
  BY <1>2, <1>3
<1>6. \A i \in 1 .. Len(s) : s[i] = t[i]
  <2>1. 1 .. Len(s) = {1, 2}
    BY <1>4
  <2> QED
    BY <1>4, <1>5, <2>1
<1> QED
  BY <1>3, <1>4, <1>5, <1>6, SeqEqual

LEMMA OpenLoads ==
  ASSUME TIInv, block # NoBlock, block.form = "open", n # 0, NEW kind \in Kinds, NEW m, MadeFor(m),
         NEW t \in Seq(Int), NEW bl, bl = BlocklistOfType(block, kind)
  PROVE  /\ FromZero(m, TypeInitializing(bl, kind), t, SlotsHere(kind) \X {InitVal(kind)})
         /\ TypeInitializing(bl, kind) \in Seq(Instrs)
         /\ bl = NoBlocklist => SlotsHere(kind) = {}
<1>1. PICK v, W, e, sub : /\ v = InitVal(kind) /\ W = SlotsHere(kind) /\ e = block.elem
                          /\ sub = BlocklistOfType(e, kind)
  OBVIOUS
<1>2. /\ block \in AllTypes /\ e \in AllTypes /\ e.form # "open" /\ e.size \in Nat
      /\ block.odim \in Nat \ {0}
  BY <1>1, TypeInitAssumption, TypeParts DEF TIInv
<1>3. PICK O, incr, at, odim, k :
        /\ O = Slots(e, kind) /\ incr = e.size /\ odim = block.odim /\ at = ArrayOfsFromODim(odim) /\ k = n
  OBVIOUS
<1>4. incr \in Nat /\ odim \in Nat \ {0} /\ at \in Nat /\ k \in Nat \ {0}
  BY <1>2, <1>3, DimsOfOpen DEF TIInv
<1>5. /\ sub \in AllLists /\ ListOk(m, v, sub) /\ ToSet(CodeFixed[sub]) = O
      /\ bl \in AllLists
  BY <1>1, <1>2, <1>3, TypeListIs, TypeEnumerates, TypesOk DEF TypeOk, Enumerates
<1>6. W = {at + x : x \in RowSlots(O, incr, k)}
  <2>1. W = {at + i * incr + o : i \in 0 .. k - 1, o \in O}
    BY <1>1, <1>3 DEF SlotsHere
  <2>2. RowSlots(O, incr, k) = {i * incr + o : i \in 0 .. k - 1, o \in O}
    BY RowSlotsAre
  <2>3. \A o \in O : o \in Nat
    BY <1>2, <1>3, TypeListIs DEF SlotsWithin
  <2>4. ASSUME NEW i \in 0 .. k - 1, NEW o \in O
        PROVE  at + (i * incr + o) = at + i * incr + o
    <3>1. i * incr \in Int
      BY <1>4
    <3> QED
      BY <1>4, <2>3, <3>1
  <2> QED
    BY <2>1, <2>2, <2>4
<1>7. /\ bl # NoBlocklist => bl = <<Entry(sub, 0, -odim, incr, 0)>>
      /\ bl = NoBlocklist \/ sub = NoBlocklist => O = {}
  <2>1. PICK ty, c : ty = block /\ c = -odim
    OBVIOUS
  <2>2. /\ bl # NoBlocklist => bl = <<Entry(sub, 0, c, ty.elem.size, 0)>>
        /\ bl = NoBlocklist \/ sub = NoBlocklist => Slots(ty.elem, kind) = {}
    <3>1. OpenLists(kind, ty, bl, sub, c)
      BY <1>1, <1>2, <1>3, <2>1 DEF OpenLists
    <3>2. bl # NoBlocklist => bl = <<Entry(sub, 0, c, ty.elem.size, 0)>>
      BY <3>1, OpenEntryIs
    <3>3. ASSUME bl = NoBlocklist \/ sub = NoBlocklist PROVE Slots(ty.elem, kind) = {}
      BY <3>1, <3>3, OpenEntryIs
    <3> QED
      BY <3>2, <3>3
  <2> QED
    BY <1>1, <1>3, <2>1, <2>2
<1>8. O = {} => W = {}
  <2>1. ASSUME O = {} PROVE RowSlots(O, incr, k) = {}
    BY <2>1 DEF RowSlots, BlockSlots
  <2> QED
    BY <1>6, <2>1
<1>9. CASE bl = NoBlocklist
  <2>1. TypeInitializing(bl, kind) = << >> /\ W = {} /\ W \X {v} = {}
    BY <1>7, <1>8, <1>9 DEF TypeInitializing
  <2>2. FromZero(m, << >>, t, {}) /\ << >> \in Seq(Instrs)
    BY FromZeroNone
  <2> QED
    BY <1>1, <2>1, <2>2
<1>10. CASE bl # NoBlocklist
  <2>1. PICK b : b = Entry(sub, 0, -odim, incr, 0)
    OBVIOUS
  <2>2. b.sub = sub /\ b.count = -odim /\ b.incr = incr /\ b.count < 0 /\ -b.count = odim
    BY <1>4, <2>1 DEF Entry
  <2>3. bl = <<b>> /\ Last(bl) = b
    <3>1. bl = <<b>>
      BY <1>7, <1>10, <2>1
    <3>2. Last(<<b>>) = b
      BY DEF Last
    <3> QED
      BY <3>1, <3>2
  <2>4. TypeInitializing(bl, kind) = OpenTypeInitializing(b, kind)
    <3>1. Last(bl).count < 1
      BY <1>4, <2>2, <2>3
    <3>2. TypeInitializing(bl, kind) = OpenTypeInitializing(Last(bl), kind)
      BY <1>10, <3>1 DEF TypeInitializing
    <3> QED
      BY <2>3, <3>2
  <2>5. CASE sub = NoBlocklist
    <3>1. TypeInitializing(bl, kind) = << >>
      BY <2>2, <2>4, <2>5 DEF OpenTypeInitializing
    <3>2. W \X {v} = {}
      BY <1>7, <1>8, <2>5
    <3>3. FromZero(m, << >>, t, {}) /\ << >> \in Seq(Instrs)
      BY FromZeroNone
    <3> QED
      BY <1>1, <1>10, <3>1, <3>2, <3>3
  <2>6. CASE sub # NoBlocklist
    <3>1. PICK height, c, sc, C : /\ height = Last(sub).height + 1 /\ c = Counter(height)
                                  /\ sc = SubVarInit[sub] /\ C = Counters[sub]
      OBVIOUS
    <3>2. height \in Int
      <4>1. sub \in Seq(EntriesOver(AllLists))
        BY <1>5, EntriesOfLists
      <4>2. Last(sub) \in EntriesOver(AllLists)
        BY <2>6, <4>1, FrontLast DEF NoBlocklist
      <4> QED
        BY <3>1, <4>2 DEF EntriesOver
    <3>3. m.safe => ~Reused[sub] /\ ~(height <= 3 /\ c \in C)
      <4>1. SUFFICES ASSUME m.safe PROVE ~Reused[sub] /\ ~(height <= 3 /\ c \in C)
        OBVIOUS
      <4>2. ~Reused[bl]
        BY <4>1 DEF MadeFor, CountersClash
      <4>3. b \in ToSet(bl)
        BY <2>3 DEF ToSet
      <4>4. ~EntryReused(Reused, b)
        BY <1>5, <4>2, <4>3, ReusedIs
      <4> QED
        BY <2>2, <2>6, <3>1, <4>4 DEF EntryReused
    <3>4. sc \in Codes
      BY <1>5, <3>1, CodesAre
    <3>5. BodyRuns(m, sc.code, v, sc.out, C, O)
      BY <1>5, <3>1, <3>3, ListOkRuns DEF ListRuns
    <3>6. O \in SUBSET Int
      BY <1>2, <1>3, TypeListIs DEF SlotsWithin
    <3>7. LoopEntry(m, v, height, incr, sc, c, C, O)
      BY <1>4, <3>1, <3>2, <3>3, <3>4, <3>5, <3>6 DEF LoopEntry
    <3>8. m.safe => InStorage(m, W)
      BY <1>1, SlotsInStorage
    <3>9. m.open /\ k = m.n
      BY <1>3 DEF MadeFor
    <3>10. OpenLoop(m, v, height, incr, sc, c, C, O, k, at, t, W)
      BY <1>4, <1>6, <3>7, <3>8, <3>9 DEF OpenLoop
    <3>11. PICK s, loop : /\ loop = EntryLoop(Ins("add", "edi", at, "none"), height, incr, sc)
                          /\ s = <<Ins("load", c, 0, "none")>> \o loop
      OBVIOUS
    <3>12. ZeroSets(m, s, v, t, W \X {v}) /\ s \in Seq(Instrs)
      BY <3>10, <3>11, OpenLoopSets
    <3>13. TypeInitializing(bl, kind)
             = <<LoadEaxWithInitVal(kind), Ins("load", c, 0, "none")>> \o loop
      BY <1>3, <2>2, <2>4, <2>6, <3>1, <3>11 DEF OpenTypeInitializing
    <3>14. TypeInitializing(bl, kind) = <<LoadEaxWithInitVal(kind)>> \o s
      <4>1. PICK i1, i2 : i1 = LoadEaxWithInitVal(kind) /\ i2 = Ins("load", c, 0, "none")
        OBVIOUS
      <4>2. i1 \in Instrs /\ i2 \in Instrs
        <5>1. c \in Registers
          BY <3>1, CounterIs
        <5> QED
          BY <4>1, <5>1, EaxTyped, InsTyped DEF Ops, Values
      <4>3. loop \in Seq(Instrs)
        <5>1. PICK first, body, i : /\ first = Ins("add", "edi", at, "none") /\ i = incr
                                    /\ body = LoopBody(height, incr, sc)
          OBVIOUS
        <5>2. first \in Instrs /\ i \in Int
          BY <1>4, <5>1, InsTyped DEF Ops, Values, Registers
        <5>3. EntryLoop(first, height, i, sc) \in Seq(Instrs)
          BY <3>4, <5>1, <5>2, EntryLoopIs
        <5> QED
          BY <3>11, <5>1, <5>3
      <4>4. Associates(<<i1>>, <<i2>>, loop)
        <5>1. <<i1>> \in Seq(Instrs) /\ <<i2>> \in Seq(Instrs)
          BY <4>2
        <5> QED
          BY <4>3, <5>1, AssociatesAll
      <4>5. <<i1, i2>> = <<i1>> \o <<i2>>
        BY PairIs
      <4> QED
        BY <3>11, <3>13, <4>1, <4>4, <4>5 DEF Associates
    <3> QED
      BY <1>1, <1>10, <3>12, <3>14, ZeroEax
  <2> QED
    BY <2>5, <2>6
<1> QED
  BY <1>9, <1>10

LEMMA TypeLoads ==
  ASSUME TIInv, block # NoBlock, n # 0, NEW kind \in Kinds, NEW m, MadeFor(m), NEW t \in Seq(Int),
         NEW bl, bl = BlocklistOfType(block, kind)
  PROVE  /\ FromZero(m, TypeInitializing(bl, kind), t, SlotsHere(kind) \X {InitVal(kind)})
         /\ TypeInitializing(bl, kind) \in Seq(Instrs)
         /\ bl = NoBlocklist => SlotsHere(kind) = {} /\ TypeInitializing(bl, kind) = << >>
<1>1. bl = NoBlocklist => TypeInitializing(bl, kind) = << >>
  BY DEF TypeInitializing
<1>2. /\ FromZero(m, TypeInitializing(bl, kind), t, SlotsHere(kind) \X {InitVal(kind)})
      /\ TypeInitializing(bl, kind) \in Seq(Instrs)
      /\ bl = NoBlocklist => SlotsHere(kind) = {}
  <2>1. CASE block.form = "open"
    BY <2>1, OpenLoads
  <2>2. CASE block.form # "open"
    BY <2>2, ClosedLoads
  <2> QED
    BY <2>1, <2>2
<1> QED
  BY <1>1, <1>2

(* edi is kept for what follows. *)
LEMMA EdiKept ==
  ASSUME NEW m, NEW s \in Seq(Instrs), NEW t \in Seq(Int), NEW W, FromZero(m, s, << 0 >> \o t, W),
         NEW r \in RegFiles, r["edi"] = 0, NEW w
  PROVE  /\ \E q, u :
              /\ q \in RegFiles /\ q["edi"] = 0
              /\ Runs(m, <<Push("edi")>> \o s \o <<Pop("edi")>>, St(r, w, t), St(q, u, t), W)
         /\ <<Push("edi")>> \o s \o <<Pop("edi")>> \in Seq(Instrs)
<1>1. PICK a, z : a = <<Push("edi")>> /\ z = <<Pop("edi")>>
  OBVIOUS
<1>2. a \in Seq(Instrs) /\ z \in Seq(Instrs) /\ a \o s \in Seq(Instrs) /\ (a \o s) \o z \in Seq(Instrs)
  <2>1. a \in Seq(Instrs) /\ z \in Seq(Instrs)
    BY <1>1, OneTyped DEF Push, Pop, Ops, Registers, Values
  <2>2. a \o s \in Seq(Instrs)
    BY <2>1, ConcatProperties
  <2> QED
    BY <2>1, <2>2, ConcatProperties
<1>3. PICK t0 : t0 = <<0>> \o t
  OBVIOUS
<1>4. Runs(m, a, St(r, w, t), St(r, w, t0), {})
  <2>1. Runs(m, <<Push("edi")>>, St(r, w, t), St(r, w, <<r["edi"]>> \o t), {})
    BY RunPush
  <2> QED
    BY <1>1, <1>3, <2>1
<1>5. PICK p, u : p \in RegFiles /\ Runs(m, s, St(r, w, t0), St(p, u, t0), W)
  BY <1>3 DEF FromZero
<1>6. PICK k \in Int : k = 0
  OBVIOUS
<1>12. PICK q : q = [p EXCEPT !["edi"] = k]
  OBVIOUS
<1>7. q \in RegFiles /\ q["edi"] = 0
  BY <1>5, <1>6, <1>12 DEF RegFiles, Registers
<1>8. Runs(m, z, St(p, u, t0), St(q, u, t), {})
  <2>1. Runs(m, <<Pop("edi")>>, St(p, u, <<k>> \o t), St([p EXCEPT !["edi"] = k], u, t), {})
    BY <1>5, <1>6, RunPop
  <2> QED
    BY <1>1, <1>3, <1>6, <1>12, <2>1
<1>9. Runs(m, a \o s, St(r, w, t), St(p, u, t0), {} \cup W)
  BY <1>2, <1>4, <1>5, RunsConcat
<1>10. Runs(m, (a \o s) \o z, St(r, w, t), St(q, u, t), ({} \cup W) \cup {})
  <2>1. PICK x, Y : x = a \o s /\ Y = {} \cup W
    OBVIOUS
  <2>2. Runs(m, x, St(r, w, t), St(p, u, t0), Y) /\ x \in Seq(Instrs)
    BY <1>2, <1>9, <2>1
  <2>3. Runs(m, x \o z, St(r, w, t), St(q, u, t), Y \cup {})
    BY <1>2, <1>8, <2>2, RunsConcat
  <2> QED
    BY <2>1, <2>3
<1>11. ({} \cup W) \cup {} = W
  OBVIOUS
<1> QED
  BY <1>1, <1>2, <1>7, <1>10, <1>11

LEMMA InitializerLoads ==
  ASSUME TIInv, block # NoBlock, n # 0, NEW m, MadeFor(m)
  PROVE  FromZero(m, Initializer(block), << >>, Wanted) /\ Initializer(block) \in Seq(Instrs)
<1>1. PICK bl, cl, s, u, W, Y :
        /\ bl = BlocklistOfType(block, "pointer") /\ cl = BlocklistOfType(block, "procedure")
        /\ s = TypeInitializing(bl, "pointer") /\ u = TypeInitializing(cl, "procedure")
        /\ W = SlotsHere("pointer") \X {InitVal("pointer")}
        /\ Y = SlotsHere("procedure") \X {InitVal("procedure")}
  OBVIOUS
<1>2. PICK e : e = << >>
  OBVIOUS
<1>3. e \in Seq(Int) /\ <<0>> \o e \in Seq(Int)
  BY <1>2
<1>4. ASSUME NEW t \in Seq(Int)
      PROVE  /\ FromZero(m, s, t, W) /\ s \in Seq(Instrs)
             /\ bl = NoBlocklist => SlotsHere("pointer") = {} /\ s = << >>
  BY <1>1, TypeLoads DEF Kinds
<1>5. ASSUME NEW t \in Seq(Int)
      PROVE  /\ FromZero(m, u, t, Y) /\ u \in Seq(Instrs)
             /\ cl = NoBlocklist => SlotsHere("procedure") = {} /\ u = << >>
  BY <1>1, TypeLoads DEF Kinds
<1>6. Wanted = W \cup Y
  BY <1>1, WantedIs
<1>7. s \in Seq(Instrs) /\ u \in Seq(Instrs)
  BY <1>3, <1>4, <1>5
<1>8. CASE bl # NoBlocklist /\ cl # NoBlocklist
  <2>1. PICK x : x = <<Push("edi")>> \o s \o <<Pop("edi")>>
    OBVIOUS
  <2>2. Initializer(block) = x \o u
    <3>1. SaveEdi(block)
      BY <1>1, <1>8 DEF SaveEdi, Kinds
    <3> QED
      BY <1>1, <2>1, <3>1 DEF Initializer
  <2>3. FromZero(m, s, <<0>> \o e, W)
    BY <1>3, <1>4
  <2>4. x \in Seq(Instrs)
    <3>1. PICK r : r \in RegFiles /\ r["edi"] = 0
      <4>1. [c \in Registers |-> 0] \in RegFiles /\ [c \in Registers |-> 0]["edi"] = 0
        BY DEF RegFiles, Registers
      <4> QED
        BY <4>1
    <3> QED
      BY <1>3, <1>7, <2>1, <2>3, <3>1, EdiKept
  <2>5. ASSUME NEW r \in RegFiles, NEW w, r["edi"] = 0
        PROVE  \E q, v : q \in RegFiles /\ Runs(m, x \o u, St(r, w, e), St(q, v, e), W \cup Y)
    <3>1. PICK p, y : p \in RegFiles /\ p["edi"] = 0 /\ Runs(m, x, St(r, w, e), St(p, y, e), W)
      BY <1>3, <1>7, <2>1, <2>3, <2>5, EdiKept
    <3>2. PICK q, v : q \in RegFiles /\ Runs(m, u, St(p, y, e), St(q, v, e), Y)
      BY <1>3, <1>5, <3>1 DEF FromZero
    <3>3. Runs(m, x \o u, St(r, w, e), St(q, v, e), W \cup Y)
      BY <1>7, <2>4, <3>1, <3>2, RunsConcat
    <3> QED
      BY <3>2, <3>3
  <2>6. x \o u \in Seq(Instrs)
    BY <1>7, <2>4, ConcatProperties
  <2> QED
    BY <1>2, <1>6, <2>2, <2>5, <2>6 DEF FromZero
<1>9. CASE bl = NoBlocklist \/ cl = NoBlocklist
  <2>1. Initializer(block) = s \o u
    <3>1. ~SaveEdi(block)
      BY <1>1, <1>9 DEF SaveEdi, Kinds
    <3> QED
      BY <1>1, <3>1 DEF Initializer
  <2>2. CASE bl = NoBlocklist
    <3>1. s = << >> /\ W = {}
      BY <1>1, <1>3, <1>4, <2>2
    <3>2. s \o u = u /\ W \cup Y = Y
      BY <1>7, <3>1
    <3>3. FromZero(m, u, e, Y)
      BY <1>3, <1>5
    <3> QED
      BY <1>2, <1>6, <1>7, <2>1, <3>2, <3>3
  <2>3. CASE cl = NoBlocklist
    <3>1. u = << >> /\ Y = {}
      BY <1>1, <1>3, <1>5, <2>3
    <3>2. s \o u = s /\ W \cup Y = W
      BY <1>7, <3>1
    <3>3. FromZero(m, s, e, W)
      BY <1>3, <1>4
    <3> QED
      BY <1>2, <1>6, <1>7, <2>1, <3>2, <3>3
  <2> QED
    BY <1>9, <2>2, <2>3
<1> QED
  BY <1>8, <1>9

-----------------------------------------------------------------------------
(* The processor's state, and what it has still to do. *)
Setting ==
  [code |-> code, lo |-> Lowest, hi |-> Upto, n |-> n, open |-> (block.form = "open"),
   safe |-> ~CountersClash]

Now == Cfg(pc, regs, eax, stack, stored)

(* The machine before it is started. *)
AtRest ==
  /\ pc = 1 /\ regs = [r \in Registers |-> 0] /\ eax = "none" /\ stack = << >> /\ stored = {}

(* An execution that is where d is has come to the end of the code and has *)
(* stored all that is wanted. *)
AllStored(d) == d.pc = Len(code) + 1 /\ d.stored = Wanted

InitInv ==
  /\ TIInv
  /\ block # NoBlock => n # 0
  /\ status = "declare" => AtRest
  /\ status = "run" => Len(code) \in Nat /\ \E d : AllStored(d) /\ Through(Setting, Now, d)
  /\ status = "done" => stored = Wanted
  /\ status = "fault" => CountersClash

LEMMA StartsInInv ==
  TIInit => InitInv
<1> SUFFICES ASSUME TIInit PROVE InitInv
  OBVIOUS
<1>1. TIInv
  BY StartsIn
<1>2. status = "declare"
  BY DEF TIInit
<1>3. AtRest
  BY DEF TIInit, AtRest
<1>4. block # NoBlock => n # 0
  BY TypeInitAssumption DEF TIInit
<1> QED
  BY <1>1, <1>2, <1>3, <1>4 DEF InitInv

(* Once the code is there, the processor comes to its end. *)
LEMMA CodeEnds ==
  ASSUME NEW m, NEW s \in Seq(Instrs), m.code = s, NEW r \in RegFiles, NEW w, NEW t, NEW q, NEW u, NEW W,
         Runs(m, s, St(r, w, t), St(q, u, t), W)
  PROVE  Through(m, Cfg(1, r, w, t, {}), Cfg(Len(s) + 1, q, u, t, W))
<1>1. PICK p, sd : p = 1 /\ sd = {}
  OBVIOUS
<1>2. CodeAt(m, p, s)
  BY <1>1 DEF CodeAt
<1>3. Through(m, Before(p, St(r, w, t), sd), Before(p + Len(s), St(q, u, t), sd \cup W))
  BY <1>2 DEF Runs
<1>4. p + Len(s) = Len(s) + 1 /\ sd \cup W = W
  BY <1>1
<1> QED
  BY <1>1, <1>3, <1>4 DEF Before, St

LEMMA StartRuns ==
  ASSUME InitInv, Start
  PROVE  \E d : AllStored(d)' /\ Through(Setting', Now', d) /\ Len(code') \in Nat
<1>1. PICK m, s : m = Setting' /\ s = code'
  OBVIOUS
<1>2. /\ UNCHANGED <<scope, block, n, pc, regs, eax, stack, stored>>
      /\ s = IF block = NoBlock THEN Prologue ELSE Initializer(block)
      /\ status = "declare"
  BY <1>1 DEF Start
<1>3. Lowest' = Lowest /\ Upto' = Upto /\ Wanted' = Wanted /\ CountersClash' = CountersClash
  BY <1>2 DEF scope, Lowest, Upto, Wanted, SlotsHere, CountersClash, BlocklistOfVars
<1>4. m = [code |-> s, lo |-> Lowest, hi |-> Upto, n |-> n, open |-> (block.form = "open"),
           safe |-> ~CountersClash]
  BY <1>1, <1>2, <1>3 DEF Setting
<1>5. MadeFor(m) /\ m.code = s
  BY <1>4 DEF MadeFor
<1>6. PICK r, e : r = [x \in Registers |-> 0] /\ e = << >>
  OBVIOUS
<1>7. r \in RegFiles /\ r["edi"] = 0 /\ e \in Seq(Int)
  BY <1>6 DEF RegFiles, Registers
<1>8. TIInv /\ (block # NoBlock => n # 0) /\ AtRest
  BY <1>2 DEF InitInv
<1>9. s \in Seq(Instrs) /\ \E q, u : q \in RegFiles /\ Runs(m, s, St(r, "none", e), St(q, u, e), Wanted)
  <2>1. CASE block = NoBlock
    <3>1. Loads(m, s, e, Wanted) /\ s \in Seq(Instrs)
      BY <1>2, <1>5, <1>7, <1>8, <2>1, PrologueLoads
    <3> QED
      BY <1>7, <3>1 DEF Loads
  <2>2. CASE block # NoBlock
    <3>1. FromZero(m, s, e, Wanted) /\ s \in Seq(Instrs)
      BY <1>2, <1>5, <1>6, <1>8, <2>2, InitializerLoads
    <3> QED
      BY <1>7, <3>1 DEF FromZero
  <2> QED
    BY <2>1, <2>2
<1>10. PICK q, u : q \in RegFiles /\ Runs(m, s, St(r, "none", e), St(q, u, e), Wanted)
  BY <1>9
<1>11. PICK d : d = Cfg(Len(s) + 1, q, u, e, Wanted)
  OBVIOUS
<1>12. Through(m, Cfg(1, r, "none", e, {}), d)
  BY <1>5, <1>7, <1>9, <1>10, <1>11, CodeEnds
<1>13. Now' = Cfg(1, r, "none", e, {})
  BY <1>2, <1>6, <1>8 DEF Now, AtRest
<1>14. d.pc = Len(s) + 1 /\ d.stored = Wanted
  BY <1>11 DEF Cfg
<1>15. AllStored(d)'
  BY <1>1, <1>3, <1>14 DEF AllStored
<1>16. Len(s) \in Nat
  BY <1>9
<1> QED
  BY <1>1, <1>12, <1>13, <1>15, <1>16

(* A step of the processor is the machine's, unless it is a fault. *)
Working == SetEax \/ Assign \/ Load \/ StoreWord \/ StoreWords \/ Count \/ UseStack

StepsAs(m, x) ==
  /\ status = "run" /\ x.pc <= Len(m.code)
  /\ UNCHANGED <<scope, block, n, code>>
  /\ \/ ~Faults(m, x) /\ status' = "run" /\ Now' = After(m, x)
     \/ Faults(m, x) /\ status' = "fault"

LEMMA NoWordTouched ==
  ASSUME NEW sd, NEW v
  PROVE  sd \cup ({} \X {v}) = sd
  OBVIOUS

(* Instructions that store and load nothing. *)
LEMMA NoFault ==
  ASSUME NEW m, NEW x, m.code[x.pc].op \notin {"store", "stos", "load"}
  PROVE  Touched(m, x) = {} /\ ~Faults(m, x)
<1>1. Touched(m, x) = {}
  BY DEF Touched
<1> QED
  BY <1>1 DEF Faults, InStorage

LEMMA NowIs ==
  ASSUME NEW m, m = Setting, NEW x, x = Now
  PROVE  /\ m.code = code /\ m.lo = Lowest /\ m.hi = Upto /\ m.n = n /\ (m.open <=> block.form = "open")
         /\ (m.safe <=> ~CountersClash)
         /\ x.pc = pc /\ x.regs = regs /\ x.eax = eax /\ x.stack = stack /\ x.stored = stored
  BY DEF Setting, Now, Cfg

LEMMA QuietSteps ==
  ASSUME SetEax \/ Assign \/ Count \/ UseStack, NEW m, m = Setting, NEW x, x = Now
  PROVE  StepsAs(m, x)
<1>1. PICK ins : ins = code[pc]
  OBVIOUS
<1>2. /\ m.code[x.pc] = ins /\ Len(m.code) = Len(code)
      /\ x.pc = pc /\ x.regs = regs /\ x.eax = eax /\ x.stack = stack /\ x.stored = stored
  BY <1>1, NowIs
<1>3. stored \cup ({} \X {eax}) = stored
  BY NoWordTouched
<1>4. CASE SetEax
  <2>1. /\ ins.op = "eax" /\ status = "run" /\ pc <= Len(code) /\ UNCHANGED <<scope, block, n, code, status>>
        /\ Now' = Cfg(pc + 1, regs, ins.val, stack, stored)
    BY <1>1, <1>4 DEF SetEax, At, Next1, Now
  <2>2. Touched(m, x) = {} /\ ~Faults(m, x)
    BY <1>2, <2>1, NoFault
  <2>3. NewRegs(m, x) = regs /\ NewStack(m, x) = stack
    BY <1>2, <2>1 DEF NewRegs, NewStack
  <2>4. After(m, x) = Cfg(pc + 1, regs, ins.val, stack, stored)
    BY <1>2, <1>3, <2>1, <2>2, <2>3 DEF After
  <2> QED
    BY <1>2, <2>1, <2>2, <2>4 DEF StepsAs
<1>5. CASE Assign
  <2>1. /\ status = "run" /\ pc <= Len(code) /\ UNCHANGED <<scope, block, n, code, status, eax, stack, stored>>
        /\ pc' = pc + 1
        /\ \/ ins.op = "mov" /\ regs' = [regs EXCEPT ![ins.reg] = ins.num]
           \/ ins.op = "add" /\ regs' = [regs EXCEPT ![ins.reg] = regs[ins.reg] + ins.num]
    BY <1>1, <1>5 DEF Assign, At, Next1, SetReg, Reg, Num
  <2>2. Touched(m, x) = {} /\ ~Faults(m, x)
    BY <1>2, <2>1, NoFault
  <2>3. NewRegs(m, x) = regs' /\ NewStack(m, x) = stack
    BY <1>2, <2>1 DEF NewRegs, NewStack
  <2>4. After(m, x) = Cfg(pc + 1, regs', eax, stack, stored)
    BY <1>2, <1>3, <2>1, <2>2, <2>3 DEF After
  <2>5. Now' = Cfg(pc + 1, regs', eax, stack, stored)
    BY <2>1 DEF Now
  <2> QED
    BY <1>2, <2>1, <2>2, <2>4, <2>5 DEF StepsAs
<1>6. CASE Count
  <2>1. /\ ins.op = "loop" /\ status = "run" /\ pc <= Len(code)
        /\ UNCHANGED <<scope, block, n, code, status, eax, stack, stored>>
        /\ regs' = [regs EXCEPT ![ins.reg] = regs[ins.reg] - 1]
        /\ pc' = IF regs[ins.reg] = 1 THEN pc + 1 ELSE pc - ins.num
    BY <1>1, <1>6 DEF Count, At, SetReg, Reg, Num
  <2>2. Touched(m, x) = {} /\ ~Faults(m, x)
    BY <1>2, <2>1, NoFault
  <2>3. NewRegs(m, x) = regs' /\ NewStack(m, x) = stack
    BY <1>2, <2>1 DEF NewRegs, NewStack
  <2>4. After(m, x) = Cfg(pc', regs', eax, stack, stored)
    BY <1>2, <1>3, <2>1, <2>2, <2>3 DEF After
  <2>5. Now' = Cfg(pc', regs', eax, stack, stored)
    BY <2>1 DEF Now
  <2> QED
    BY <1>2, <2>1, <2>2, <2>4, <2>5 DEF StepsAs
<1>7. CASE UseStack
  <2>1. /\ status = "run" /\ pc <= Len(code) /\ UNCHANGED <<scope, block, n, code, status, eax, stored>>
        /\ pc' = pc + 1
        /\ \/ ins.op = "push" /\ stack' = <<regs[ins.reg]>> \o stack /\ regs' = regs
           \/ ins.op = "pop" /\ regs' = [regs EXCEPT ![ins.reg] = Head(stack)] /\ stack' = Tail(stack)
    BY <1>1, <1>7 DEF UseStack, At, Next1, SetReg, Reg
  <2>2. Touched(m, x) = {} /\ ~Faults(m, x)
    BY <1>2, <2>1, NoFault
  <2>3. NewRegs(m, x) = regs' /\ NewStack(m, x) = stack'
    BY <1>2, <2>1 DEF NewRegs, NewStack
  <2>4. After(m, x) = Cfg(pc + 1, regs', eax, stack', stored)
    BY <1>2, <1>3, <2>1, <2>2, <2>3 DEF After
  <2>5. Now' = Cfg(pc + 1, regs', eax, stack', stored)
    BY <2>1 DEF Now
  <2> QED
    BY <1>2, <2>1, <2>2, <2>4, <2>5 DEF StepsAs
<1> QED
  BY <1>4, <1>5, <1>6, <1>7

LEMMA LoadSteps ==
  ASSUME Load, NEW m, m = Setting, NEW x, x = Now
  PROVE  StepsAs(m, x)
<1>1. PICK ins : ins = code[pc]
  OBVIOUS
<1>2. /\ m.code[x.pc] = ins /\ Len(m.code) = Len(code) /\ m.n = n /\ (m.open <=> block.form = "open")
      /\ x.pc = pc /\ x.regs = regs /\ x.eax = eax /\ x.stack = stack /\ x.stored = stored
  BY <1>1, NowIs
<1>3. stored \cup ({} \X {eax}) = stored
  BY NoWordTouched
<1>4. /\ ins.op = "load" /\ status = "run" /\ pc <= Len(code) /\ UNCHANGED <<scope, block, n, code, eax, stack, stored>>
      /\ pc' = pc + 1
      /\ IF regs["edi"] = 0 /\ block.form = "open"
         THEN regs' = [regs EXCEPT ![ins.reg] = n] /\ status' = status
         ELSE status' = "fault"
  BY <1>1 DEF Load, At, Next1, SetReg, Reg
<1>5. Touched(m, x) = {}
  BY <1>2, <1>4 DEF Touched
<1>6. Faults(m, x) <=> ~(regs["edi"] = 0 /\ block.form = "open")
  BY <1>2, <1>4, <1>5 DEF Faults, InStorage
<1>7. CASE regs["edi"] = 0 /\ block.form = "open"
  <2>1. NewRegs(m, x) = regs' /\ NewStack(m, x) = stack
    BY <1>2, <1>4, <1>7 DEF NewRegs, NewStack
  <2>2. After(m, x) = Cfg(pc + 1, regs', eax, stack, stored)
    BY <1>2, <1>3, <1>4, <1>5, <2>1 DEF After
  <2>3. Now' = Cfg(pc + 1, regs', eax, stack, stored)
    BY <1>4 DEF Now
  <2> QED
    BY <1>2, <1>4, <1>6, <1>7, <2>2, <2>3 DEF StepsAs
<1>8. CASE ~(regs["edi"] = 0 /\ block.form = "open")
  BY <1>2, <1>4, <1>6, <1>8 DEF StepsAs
<1> QED
  BY <1>7, <1>8

LEMMA StoreSteps ==
  ASSUME StoreWord \/ StoreWords, NEW m, m = Setting, NEW x, x = Now
  PROVE  StepsAs(m, x)
<1>1. PICK ins, A, q :
        /\ ins = code[pc] /\ A = Touched(m, x)
        /\ q = IF ins.op = "store" THEN regs
               ELSE [regs EXCEPT !["edi"] = @ + 4 * regs["ecx"], !["ecx"] = 0]
  OBVIOUS
<1>2. /\ m.code[x.pc] = ins /\ Len(m.code) = Len(code) /\ m.lo = Lowest /\ m.hi = Upto
      /\ x.pc = pc /\ x.regs = regs /\ x.eax = eax /\ x.stack = stack /\ x.stored = stored
  BY <1>1, NowIs
<1>3. /\ ins.op \in {"store", "stos"} /\ status = "run" /\ pc <= Len(code)
      /\ UNCHANGED <<scope, block, n, code, eax, stack>> /\ pc' = pc + 1 /\ Put(A) /\ regs' = q
  <2>1. CASE StoreWord
    <3>1. ins.op = "store"
      BY <1>1, <2>1 DEF StoreWord, At
    <3>2. A = {IF ins.reg = "edi" THEN regs["edi"] + ins.num ELSE ins.num}
      BY <1>1, <1>2, <3>1 DEF Touched
    <3>3. /\ status = "run" /\ pc <= Len(code) /\ UNCHANGED <<scope, block, n, code, eax, stack>>
          /\ pc' = pc + 1 /\ Put({IF ins.reg = "edi" THEN regs["edi"] + ins.num ELSE ins.num})
          /\ regs' = regs
      BY <1>1, <2>1 DEF StoreWord, At, Next1, Reg, Num
    <3> QED
      BY <1>1, <3>1, <3>2, <3>3
  <2>2. CASE StoreWords
    <3>1. ins.op = "stos"
      BY <1>1, <2>2 DEF StoreWords, At
    <3>2. A = {regs["edi"] + 4 * i : i \in 0 .. regs["ecx"] - 1}
      BY <1>1, <1>2, <3>1 DEF Touched
    <3>3. /\ status = "run" /\ pc <= Len(code) /\ UNCHANGED <<scope, block, n, code, eax, stack>>
          /\ pc' = pc + 1 /\ Put({regs["edi"] + 4 * i : i \in 0 .. regs["ecx"] - 1})
          /\ regs' = [regs EXCEPT !["edi"] = @ + 4 * regs["ecx"], !["ecx"] = 0]
      BY <1>1, <2>2 DEF StoreWords, At, Next1
    <3> QED
      BY <1>1, <3>1, <3>2, <3>3
  <2> QED
    BY <2>1, <2>2
<1>4. Faults(m, x) <=> ~(\A a \in A : Lowest <= a /\ a + 4 <= Upto)
  BY <1>1, <1>2, <1>3 DEF Faults, InStorage
<1>5. CASE \A a \in A : Lowest <= a /\ a + 4 <= Upto
  <2>1. stored' = stored \cup (A \X {eax}) /\ status' = "run"
    BY <1>3, <1>5 DEF Put
  <2>2. NewRegs(m, x) = q /\ NewStack(m, x) = stack
    BY <1>1, <1>2, <1>3 DEF NewRegs, NewStack
  <2>3. After(m, x) = Cfg(pc + 1, q, eax, stack, stored \cup (A \X {eax}))
    BY <1>1, <1>2, <1>3, <2>2 DEF After
  <2>4. Now' = Cfg(pc + 1, q, eax, stack, stored \cup (A \X {eax}))
    BY <1>3, <2>1 DEF Now
  <2> QED
    BY <1>2, <1>3, <1>4, <1>5, <2>1, <2>3, <2>4 DEF StepsAs
<1>6. CASE ~(\A a \in A : Lowest <= a /\ a + 4 <= Upto)
  <2>1. status' = "fault"
    BY <1>3, <1>6 DEF Put
  <2> QED
    BY <1>2, <1>3, <1>4, <1>6, <2>1 DEF StepsAs
<1> QED
  BY <1>5, <1>6

LEMMA WorkSteps ==
  ASSUME Working, NEW m, m = Setting, NEW x, x = Now
  PROVE  StepsAs(m, x)
  BY QuietSteps, LoadSteps, StoreSteps DEF Working

LEMMA SameStorage ==
  ASSUME UNCHANGED <<scope, block, n>>
  PROVE  /\ Lowest' = Lowest /\ Upto' = Upto /\ Wanted' = Wanted
         /\ CountersClash' = CountersClash
         /\ code' = code => Setting' = Setting
<1>1. Lowest' = Lowest /\ Upto' = Upto /\ Wanted' = Wanted /\ CountersClash' = CountersClash
  BY DEF scope, Lowest, Upto, Wanted, SlotsHere, CountersClash, BlocklistOfVars
<1>2. ASSUME code' = code PROVE Setting' = Setting
  BY <1>1, <1>2 DEF Setting
<1> QED
  BY <1>1, <1>2

LEMMA WorkKeeps ==
  ASSUME InitInv, Working
  PROVE  /\ status' = "run" => Len(code') \in Nat /\ \E d : AllStored(d)' /\ Through(Setting', Now', d)
         /\ status' \in {"run", "fault"}
         /\ status' = "fault" => CountersClash'
<1>1. PICK m, x, y : m = Setting /\ x = Now /\ y = Now'
  OBVIOUS
<1>2. StepsAs(m, x)
  BY <1>1, WorkSteps
<1>3. /\ status = "run" /\ x.pc <= Len(m.code) /\ UNCHANGED <<scope, block, n, code>>
      /\ \/ ~Faults(m, x) /\ status' = "run" /\ y = After(m, x)
         \/ Faults(m, x) /\ status' = "fault"
  BY <1>1, <1>2 DEF StepsAs
<1>4. Len(code) \in Nat /\ \E d : AllStored(d) /\ Through(m, x, d)
  BY <1>1, <1>3 DEF InitInv
<1>5. PICK d : AllStored(d) /\ Through(m, x, d)
  BY <1>4
<1>6. PICK S : x \in S /\ Passes(m, d, S)
  BY <1>5 DEF Through
<1>7. m.code = code /\ (m.safe <=> ~CountersClash)
  BY <1>1, NowIs
<1>8. x # d
  BY <1>3, <1>4, <1>5, <1>7 DEF AllStored
<1>9. (m.safe => ~Faults(m, x)) /\ (~Faults(m, x) => After(m, x) \in S)
  BY <1>6, <1>8 DEF Passes, GoesOn
<1>10. Setting' = m /\ CountersClash' = CountersClash /\ (AllStored(d)' <=> AllStored(d)) /\ Len(code') = Len(code)
  <2>1. Setting' = m /\ CountersClash' = CountersClash /\ Wanted' = Wanted /\ Len(code') = Len(code)
    BY <1>1, <1>3, SameStorage
  <2> QED
    BY <2>1 DEF AllStored
<1>11. CASE ~Faults(m, x)
  <2>1. y \in S /\ status' = "run"
    BY <1>3, <1>9, <1>11
  <2>2. Through(m, y, d)
    BY <1>6, <2>1 DEF Through
  <2> QED
    BY <1>1, <1>4, <1>5, <1>10, <2>1, <2>2
<1>12. CASE Faults(m, x)
  BY <1>3, <1>7, <1>9, <1>10, <1>12
<1> QED
  BY <1>11, <1>12

LEMMA ReturnKeeps ==
  ASSUME InitInv, Return
  PROVE  status' = "done" /\ stored' = Wanted'
<1>1. PICK m, x : m = Setting /\ x = Now
  OBVIOUS
<1>2. status = "run" /\ pc > Len(code) /\ status' = "done" /\ UNCHANGED <<scope, block, n, stored>>
  BY DEF Return, machine
<1>3. Len(code) \in Nat /\ \E d : AllStored(d) /\ Through(m, x, d)
  BY <1>1, <1>2 DEF InitInv
<1>4. PICK d : AllStored(d) /\ Through(m, x, d)
  BY <1>3
<1>5. PICK S : x \in S /\ Passes(m, d, S)
  BY <1>4 DEF Through
<1>6. m.code = code /\ x.pc = pc /\ x.stored = stored
  BY <1>1, NowIs
<1>7. x = d
  <2>1. ASSUME GoesOn(m, x, S) PROVE FALSE
    <3>1. pc \in Int /\ pc <= Len(code)
      BY <1>6, <2>1 DEF GoesOn
    <3> QED
      BY <1>2, <1>3, <3>1
  <2> QED
    BY <1>5, <2>1 DEF Passes
<1>8. stored = Wanted
  BY <1>4, <1>6, <1>7 DEF AllStored
<1>9. Wanted' = Wanted
  BY <1>2, SameStorage
<1> QED
  BY <1>2, <1>8, <1>9

LEMMA StaysInInv ==
  InitInv /\ [TINext]_tivars => InitInv'
<1> SUFFICES ASSUME InitInv, [TINext]_tivars PROVE InitInv'
  OBVIOUS
<1>1. TIInv'
  BY StaysIn DEF InitInv
<1>2. CASE Declare
  <2>1. status = "declare" /\ UNCHANGED <<status, block, n, pc, regs, eax, stack, stored>>
    BY <1>2 DEF Declare, machine
  <2>2. AtRest' /\ (block' # NoBlock => n' # 0)
    BY <2>1 DEF InitInv, AtRest
  <2> QED
    BY <1>1, <2>1, <2>2 DEF InitInv
<1>3. CASE Start
  <2>1. status' = "run" /\ UNCHANGED <<block, n>>
    BY <1>3 DEF Start
  <2>2. Len(code') \in Nat /\ \E d : AllStored(d)' /\ Through(Setting', Now', d)
    BY <1>3, StartRuns
  <2>3. block' # NoBlock => n' # 0
    BY <2>1 DEF InitInv
  <2> QED
    BY <1>1, <2>1, <2>2, <2>3 DEF InitInv
<1>4. CASE Working
  <2>1. UNCHANGED <<block, n>>
    BY <1>4 DEF Working, SetEax, Assign, Load, StoreWord, StoreWords, Count, UseStack, Next1
  <2>2. block' # NoBlock => n' # 0
    BY <2>1 DEF InitInv
  <2> QED
    BY <1>1, <1>4, <2>2, WorkKeeps DEF InitInv
<1>5. CASE Return
  <2>1. UNCHANGED <<block, n>>
    BY <1>5 DEF Return
  <2>2. block' # NoBlock => n' # 0
    BY <2>1 DEF InitInv
  <2> QED
    BY <1>1, <1>5, <2>2, ReturnKeeps DEF InitInv
<1>6. CASE UNCHANGED tivars
  <2>1. UNCHANGED <<scope, status, block, n, code, pc, regs, eax, stack, stored>>
    BY <1>6 DEF tivars, machine
  <2>2. Wanted' = Wanted /\ CountersClash' = CountersClash /\ Setting' = Setting
    BY <2>1, SameStorage
  <2>3. Now' = Now /\ (AtRest' <=> AtRest)
    BY <2>1 DEF Now, AtRest
  <2>4. \A d : AllStored(d)' <=> AllStored(d)
    BY <2>1, <2>2 DEF AllStored
  <2> QED
    BY <1>1, <2>1, <2>2, <2>3, <2>4 DEF InitInv
<1> QED
  BY <1>2, <1>3, <1>4, <1>5, <1>6 DEF TINext, Execute, Working

(* When the initialiser of any type or scope returns, it has set every     *)
(* pointer to NIL and every procedure variable to NILPROC and has stored   *)
(* nothing else; and it stores outside its storage only if two nested      *)
(* loops count in the same register (CODEf.pum's SubVarInit, VarInit and   *)
(* TypeInitializing, executed on the block lists of BL.pum).               *)
THEOREM InitialisersExact == TISpec => []InitExact
<1>1. InitInv => InitExact
  BY DEF InitInv, InitExact
<1> QED
  BY <1>1, StartsInInv, StaysInInv, PTL DEF TISpec
=============================================================================

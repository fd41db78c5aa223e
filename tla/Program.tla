------------------------------- MODULE Program -------------------------------
(***************************************************************************)
(* The life of a linked program (src/src/OB2RTS.as, the root module that   *)
(* Target.GenerateRootModule writes, Terminate of lib/Lib.ob2): the root   *)
(* chains the global variables of all modules into the procedure stack,    *)
(* calls the module bodies, and Halt runs the exit procedures.             *)
(*                                                                         *)
(* Of the stack the model keeps the activations and, for each, the chain   *)
(* of frames that its ebp leads along: this is what the collector takes    *)
(* its roots from (MarkIt) and what DumpProcStack prints after an error.   *)
(***************************************************************************)
EXTENDS Integers, Sequences, SequencesExt

CONSTANTS
  LinkList,  \* the modules as they are linked: sequence of names
  StdExit,   \* the exit procedure of the run-time system
  Codes,     \* arguments of HALT and ASSERT
  MaxHalts   \* bound: how often Halt is called

Modules == {LinkList[i] : i \in DOMAIN LinkList}

ASSUME ProgramAssumption ==
  /\ LinkList \in Seq(Modules) /\ LinkList # << >> /\ IsInjective(LinkList)
  /\ StdExit \notin Modules
  /\ Codes \subseteq Nat /\ MaxHalts \in Nat \ {0}

VARIABLES
  act,       \* the activations, innermost first: [who, mod, chain, called]
  tagged,    \* the modules whose global variables have their TDesc
  next,      \* the module body to be called next
  exitProc,  \* ExitProc: the module whose exit procedure is first, or StdExit
  old,       \* module |-> its variable OldExitProc
  exitCode,
  status,    \* "runs" or how the process ended: "exit", "assert"
  halts, registered, ran   \* the calls of Halt, Terminate and exit procedures

pvars == <<act, tagged, next, exitProc, old, exitCode, status, halts, registered, ran>>

-----------------------------------------------------------------------------
Frame(kind, m) == <<kind, m>>
GlobalsOf(m) == Frame("globals", m)
MainFrame == Frame("main", StdExit)
RootFrame == Frame("root", StdExit)
HaltFrame == Frame("halt", StdExit)

Running(who) == status = "runs" /\ act[1].who = who

(* A call: the new frame is linked to the frame of the caller. *)
Called(who, m) ==
  <<[who |-> who, mod |-> m, chain |-> <<Frame(who, m)>> \o act[1].chain, called |-> FALSE]>> \o act

(* Code the compiler generated: it may call NEW, fail a check, or HALT. *)
InOberon == Running("body") \/ Running("exit")

ProgramInit ==
  /\ act = <<[who |-> "main", mod |-> StdExit, chain |-> <<MainFrame>>, called |-> FALSE]>>
  /\ tagged = {} /\ next = 1
  /\ exitProc = StdExit /\ old = [m \in Modules |-> StdExit]
  /\ exitCode = 0 /\ status = "runs"
  /\ halts = 0 /\ registered = << >> /\ ran = << >>

\* Mutant: the TDescs of the globals are not set.
CallRoot_NoTags ==
  /\ Running("main") /\ next = 1
  /\ act' = <<[who |-> "root", mod |-> StdExit, chain |-> <<RootFrame>>, called |-> FALSE]>> \o act
  /\ UNCHANGED <<tagged, next, exitProc, old, exitCode, status, halts, registered, ran>>

(* main calls the root module, whose frame ends the chain: it pushes a 0   *)
(* where other procedures push the caller's ebp.                           *)
CallRoot ==
  /\ Running("main") /\ next = 1
  /\ act' = <<[who |-> "root", mod |-> StdExit, chain |-> <<RootFrame>>, called |-> FALSE]>> \o act
  /\ tagged' = Modules
  /\ UNCHANGED <<next, exitProc, old, exitCode, status, halts, registered, ran>>

\* Mutant: the chain starts at the first module's globals.
LinkGlobals_FirstOnly ==
  /\ Running("root") /\ act[1].chain = <<RootFrame>>
  /\ act' = [act EXCEPT ![1].chain = <<GlobalsOf(LinkList[1]), RootFrame>>]
  /\ UNCHANGED <<tagged, next, exitProc, old, exitCode, status, halts, registered, ran>>

(* The globals of all modules become frames, the last module's innermost. *)
LinkGlobals ==
  /\ Running("root") /\ act[1].chain = <<RootFrame>>
  /\ act' = [act EXCEPT ![1].chain =
       Reverse([i \in DOMAIN LinkList |-> GlobalsOf(LinkList[i])]) \o <<RootFrame>>]
  /\ UNCHANGED <<tagged, next, exitProc, old, exitCode, status, halts, registered, ran>>

CallBody ==
  /\ Running("root") /\ act[1].chain # <<RootFrame>> /\ next <= Len(LinkList)
  /\ act' = Called("body", LinkList[next])
  /\ UNCHANGED <<tagged, next, exitProc, old, exitCode, status, halts, registered, ran>>

BodyReturns ==
  /\ Running("body")
  /\ act' = Tail(act) /\ next' = next + 1
  /\ UNCHANGED <<tagged, exitProc, old, exitCode, status, halts, registered, ran>>

\* Mutant: the exit procedure so far is not kept.
Terminate_LosesOld ==
  /\ Running("body")
  /\ LET m == act[1].mod
     IN /\ ~Contains(registered, m)
        /\ exitProc' = m
        /\ registered' = Append(registered, m)
  /\ UNCHANGED <<act, tagged, next, old, exitCode, status, halts, ran>>

(* Lib.Terminate, called by a module's body for its exit procedure; no     *)
(* module calls it twice with the same OldExitProc.                        *)
Terminate ==
  /\ Running("body")
  /\ LET m == act[1].mod
     IN /\ ~Contains(registered, m)
        /\ old' = [old EXCEPT ![m] = exitProc]
        /\ exitProc' = m
        /\ registered' = Append(registered, m)
  /\ UNCHANGED <<act, tagged, next, exitCode, status, halts, ran>>

(* StdExit ends the process with ExitCode; any other exit procedure is     *)
(* called as a procedure of its module.                                    *)
Enter(proc, stack) ==
  IF proc = StdExit
  THEN status' = "exit" /\ act' = stack /\ UNCHANGED ran
  ELSE /\ act' = <<[who |-> "exit", mod |-> proc, called |-> FALSE,
                    chain |-> <<Frame("exit", proc)>> \o stack[1].chain]>> \o stack
       /\ ran' = Append(ran, proc)
       /\ UNCHANGED status

(* Halt builds a frame like a procedure, but pushes no tag. *)
Halt(code) ==
  /\ halts < MaxHalts /\ halts' = halts + 1
  /\ exitCode' = code
  /\ Enter(exitProc, Called("halt", StdExit))
  /\ UNCHANGED <<tagged, next, exitProc, old, registered>>

HALT(code) == InOberon /\ Halt(code)

(* A failed check (_RtErr): the procedure stack is printed, then Halt(1). *)
RtErr == InOberon /\ Halt(1)

(* A failed ASSERT ends the process without Halt. *)
AssertFail(code) ==
  /\ InOberon
  /\ exitCode' = code /\ status' = "assert"
  /\ UNCHANGED <<act, tagged, next, exitProc, old, halts, registered, ran>>

RootReturns ==
  /\ Running("root") /\ next > Len(LinkList)
  /\ act' = Tail(act)
  /\ UNCHANGED <<tagged, next, exitProc, old, exitCode, status, halts, registered, ran>>

MainHalts == Running("main") /\ next > Len(LinkList) /\ Halt(0)

(* An exit procedure calls the one before it (OldExitProc). *)
CallOldExit ==
  /\ Running("exit") /\ ~act[1].called
  /\ Enter(old[act[1].mod], [act EXCEPT ![1].called = TRUE])
  /\ UNCHANGED <<tagged, next, exitProc, old, exitCode, halts, registered>>

\* Mutant: Halt does not go on to StdExit.
ExitProcReturns_Only ==
  /\ Running("exit")
  /\ act' = Tail(act)
  /\ UNCHANGED <<tagged, next, exitProc, old, exitCode, status, halts, registered, ran>>

(* An exit procedure returns, to the one that called it or to Halt, which  *)
(* goes on to StdExit.                                                     *)
ExitProcReturns ==
  /\ Running("exit")
  /\ IF act[2].who = "halt"
     THEN status' = "exit" /\ act' = Tail(act)
     ELSE act' = Tail(act) /\ UNCHANGED status
  /\ UNCHANGED <<tagged, next, exitProc, old, exitCode, halts, registered, ran>>

ProgramNext ==
  \/ CallRoot \/ LinkGlobals \/ CallBody \/ BodyReturns \/ Terminate
  \/ \E code \in Codes : HALT(code) \/ AssertFail(code)
  \/ RtErr \/ RootReturns \/ MainHalts \/ CallOldExit \/ ExitProcReturns

ProgramSpec == ProgramInit /\ [][ProgramNext]_pvars
FairProgram == ProgramSpec /\ WF_pvars(ProgramNext)

-----------------------------------------------------------------------------
(* Whenever a module body runs, the global variables of all modules, of    *)
(* those not yet initialised too, are on the chain the collector walks,    *)
(* and their TDescs are set (GenerateRootModule, Target.mi:202-224).       *)
GlobalsAreRoots ==
  Running("body") =>
    \A m \in Modules : m \in tagged /\ Contains(act[1].chain, GlobalsOf(m))

HasTag(frame) ==
  \/ frame[1] \in {"body", "exit", "root"}
  \/ frame[1] = "globals" /\ frame[2] \in tagged

(* When a body fails, DumpProcStack meets only frames with a tag until it  *)
(* meets the globals of the module that was linked last (FirstModuleTDesc),*)
(* and there it stops.                                                     *)
DumpEnds ==
  Running("body") =>
    \E i \in DOMAIN act[1].chain :
      /\ act[1].chain[i] = GlobalsOf(LinkList[Len(LinkList)])
      /\ \A j \in 1 .. i : HasTag(act[1].chain[j])

(* The exit procedures run in the reverse order of the calls of Terminate, *)
(* each once: those that have run are the latest, and when the last of     *)
(* them calls StdExit all have run.  So it is in src/src/CTest/ExitProcs,  *)
(* whether the program ends by itself, by HALT or by a failed check.       *)
ExitsReversed ==
  halts = 1 =>
    /\ \E n \in 0 .. Len(registered) : ran = SubSeq(Reverse(registered), 1, n)
    /\ status = "exit" /\ act[1].who = "exit" => ran = Reverse(registered)

(* The process ends, if the exit procedures call Halt only so many times.  *)
ProgramEnds == <>(status # "runs")

=============================================================================

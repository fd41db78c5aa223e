-------------------------------- MODULE Make ---------------------------------
(***************************************************************************)
(* The driver of the compiler (src/src/DRV.mi with FIL.mi, TBL.mi,         *)
(* Target.mi and the command line of Jacob.mi): one run of jacob compiles  *)
(* the files named on the command line, and with each file, recursively,   *)
(* the modules it imports; it decides by time stamps what to recompile and *)
(* whether to link.                                                        *)
(*                                                                         *)
(* What a module contains is abstracted to the time of its last edit, its  *)
(* imports and whether it has errors.  What an object file was made from   *)
(* is kept with it: the edit of its own source and those of all modules    *)
(* imported directly or indirectly.                                        *)
(***************************************************************************)
EXTENDS Integers, Sequences, FiniteSets

CONSTANTS
  Modules,
  Graphs,       \* the possible import relations: module |-> sequence of modules
  Foreign,      \* the modules written in another language
  CommandLines, \* the commands, numbered as in ARG.md, each with the files named
  IgnoreTimeStamps,  \* the values of OptionIgnoreTimeStamps (-it)
  Defects,      \* the states a source may be in
  ToolsFail,    \* whether assembler and linker may fail in a run
  MaxClock      \* bound: the last edit

NoCodeGeneration == 7
DontAssemble == 8
SingleCompile == 9
MakeButDontLink == 10
Make == 11

ASSUME MakeAssumption ==
  /\ \A g \in Graphs : DOMAIN g = Modules /\ \A m \in Modules : g[m] \in Seq(Modules)
  /\ Foreign \subseteq Modules
  /\ \A l \in CommandLines : l[1] \in NoCodeGeneration .. Make /\ l[2] \in Seq(Modules)
  /\ IgnoreTimeStamps \subseteq BOOLEAN /\ ToolsFail \subseteq BOOLEAN
  /\ "none" \in Defects /\ Defects \subseteq {"none", "missing", "syntax", "semantic"}
  /\ MaxClock \in Nat \ {0}

VARIABLES
  clock,     \* the time of the last edit; what a run writes carries it too
  imports,   \* the import lists, one of Graphs
  src,       \* module |-> time of the last edit of its source
  defect,    \* module |-> what is wrong with its source
  obj,       \* module |-> [time, text] of its object file, time 0: no file
  exe,       \* module |-> the same of the program linked from it
  job,       \* the run: [state, cmd, force, files, next], and if tools may fail in it
  stack,     \* FIL.ActP and its predecessors: the open modules, innermost first
  tbl,       \* TBL: the modules whose tables are kept
  linklist, libs, linkable, youngest,
  code       \* ProgramReturnCode

disk == <<clock, imports, src, defect, obj, exe>>
lists == <<linklist, libs>>
mkvars == <<disk, job, stack, tbl, lists, linkable, youngest, code>>

-----------------------------------------------------------------------------
Direct(m) == {imports[m][i] : i \in DOMAIN imports[m]}
Closed(S) == \A m \in S : Direct(m) \subseteq S

(* A module and all it imports, directly or indirectly. *)
Closure(m) == {x \in Modules : \A S \in SUBSET Modules : m \in S /\ Closed(S) => x \in S}

(* What is read to compile m, and what a program of m is to consist of. *)
Text(m) == [x \in Closure(m) |-> src[x]]
Parts(m) == Closure(m) \ Foreign
NoFile == [time |-> 0, text |-> << >>]

Top == stack[1]
Busy(state) == job.state = "busy" /\ stack # << >> /\ Top.state = state
IsMain == Len(stack) = 1
IsOpen(m) == \E i \in DOMAIN stack : stack[i].mod = m
Frame(m) == [mod |-> m, sourceTime |-> src[m], next |-> 1, error |-> FALSE, state |-> "parse"]

(* What is left to do with a module that is compiled: the main module may  *)
(* be linked yet.                                                          *)
Compiled == [Top EXCEPT !.state = IF IsMain THEN "link" ELSE "closed"]

\* Mutant: the client keeps its own time.
Adjusted_Never == Tail(stack)

(* AdjustClientSourceTime: the client counts as edited when its server was. *)
Adjusted ==
  IF ~IsMain /\ Top.sourceTime > stack[2].sourceTime
  THEN <<[stack[2] EXCEPT !.sourceTime = Top.sourceTime]>> \o Tail(Tail(stack))
  ELSE Tail(stack)

\* Mutant: linkable is left alone.
ErrorOccurred_KeepsLinkable == code' = 1 /\ UNCHANGED linkable

ErrorOccurred == code' = 1 /\ linkable' = FALSE

\* Mutant: the new object goes to the head of the list.
AddToLinklist_Front(m) == linklist' = <<m>> \o linklist /\ UNCHANGED libs

AddToLinklist(m) == linklist' = Append(linklist, m) /\ UNCHANGED libs

-----------------------------------------------------------------------------
MakeInit ==
  /\ clock = 1
  /\ imports \in Graphs
  /\ src = [m \in Modules |-> 1]
  /\ defect = [m \in Modules |-> "none"]
  /\ obj = [m \in Modules |-> NoFile]
  /\ exe = [m \in Modules |-> NoFile]
  /\ job = [state |-> "idle", cmd |-> Make, force |-> FALSE, files |-> << >>, next |-> 1,
            fails |-> FALSE]
  /\ stack = << >> /\ tbl = {} /\ linklist = << >> /\ libs = {}
  /\ linkable = FALSE /\ youngest = 0
  /\ code = 0

(* The programmer edits a module between two runs, at least a second after *)
(* the last of them; the edit may introduce or repair errors.              *)
Edit(m, d) ==
  /\ job.state = "idle" /\ clock < MaxClock
  /\ clock' = clock + 1
  /\ src' = [src EXCEPT ![m] = clock + 1]
  /\ defect' = [defect EXCEPT ![m] = d]
  /\ UNCHANGED <<imports, obj, exe, job, stack, tbl, lists, linkable, youngest, code>>

(* A module of another language is compiled by other means, between two    *)
(* runs.  An object file that is laid beside its source is taken for one   *)
(* of jacob's: the time stamps are compared before IsForeign is asked.     *)
Provide(m) ==
  /\ job.state = "idle"
  /\ obj' = [obj EXCEPT ![m] = [time |-> clock, text |-> Text(m)]]
  /\ UNCHANGED <<clock, imports, src, defect, exe, job, stack, tbl, lists, linkable, youngest,
                 code>>

Run(cmd, force, files, fails) ==
  /\ job.state = "idle"
  /\ job' = [state |-> "busy", cmd |-> cmd, force |-> force, files |-> files, next |-> 1,
             fails |-> fails]
  /\ code' = 0
  /\ UNCHANGED <<disk, stack, tbl, lists, linkable, youngest>>

(* Compile, the next file of the command line. *)
NextFile == job.files[job.next]
AtFile == job.state = "busy" /\ stack = << >> /\ job.next <= Len(job.files)

FileMissing ==
  /\ AtFile /\ defect[NextFile] = "missing"
  /\ ErrorOccurred
  /\ job' = [job EXCEPT !.next = @ + 1]
  /\ UNCHANGED <<disk, stack, tbl, lists, youngest>>

\* Mutant: the return code is that of the last file.
OpenMain_ClearsCode ==
  /\ AtFile /\ defect[NextFile] # "missing"
  /\ stack' = <<Frame(NextFile)>>
  /\ linklist' = << >> /\ libs' = {} /\ linkable' = TRUE
  /\ youngest' = src[NextFile] /\ code' = 0
  /\ UNCHANGED <<disk, job, tbl>>

(* ClearLinklist and linkable := TRUE; the tables of TBL are kept. *)
OpenMain ==
  /\ AtFile /\ defect[NextFile] # "missing"
  /\ stack' = <<Frame(NextFile)>>
  /\ linklist' = << >> /\ libs' = {} /\ linkable' = TRUE
  /\ youngest' = src[NextFile]
  /\ UNCHANGED <<disk, job, tbl, code>>

(* After a syntax error the module is not evaluated, nor its imports. *)
ParseFails ==
  /\ Busy("parse") /\ defect[Top.mod] = "syntax"
  /\ ErrorOccurred
  /\ stack' = <<Compiled>> \o Tail(stack)
  /\ UNCHANGED <<disk, job, tbl, lists, youngest>>

Parse ==
  /\ Busy("parse") /\ defect[Top.mod] # "syntax"
  /\ stack' = [stack EXCEPT ![1].state = "imports"]
  /\ UNCHANGED <<disk, job, tbl, lists, linkable, youngest, code>>

(* Import, called by the evaluator for each module of the import list. *)
AtImport == Busy("imports") /\ Top.next <= Len(imports[Top.mod])
Server == imports[Top.mod][Top.next]

ImportKnown ==
  /\ AtImport /\ Server \in tbl
  /\ stack' = [stack EXCEPT ![1].next = @ + 1]
  /\ UNCHANGED <<disk, job, tbl, lists, linkable, youngest, code>>

\* Mutant: the failed import is tried again.
ImportFails_Again ==
  /\ AtImport /\ Server \notin tbl
  /\ IsOpen(Server) \/ defect[Server] = "missing"
  /\ ErrorOccurred
  /\ stack' = [stack EXCEPT ![1].error = TRUE]
  /\ UNCHANGED <<disk, job, tbl, lists, youngest>>

(* A cyclic import or a missing file: the client has an error. *)
ImportFails ==
  /\ AtImport /\ Server \notin tbl
  /\ IsOpen(Server) \/ defect[Server] = "missing"
  /\ ErrorOccurred
  /\ stack' = [stack EXCEPT ![1].error = TRUE, ![1].next = @ + 1]
  /\ UNCHANGED <<disk, job, tbl, lists, youngest>>

\* Mutant: only the main module's time counts for the program.
ImportOpens_KeepsYoungest ==
  /\ AtImport /\ Server \notin tbl
  /\ ~IsOpen(Server) /\ defect[Server] # "missing"
  /\ stack' = <<Frame(Server)>> \o stack
  /\ UNCHANGED <<disk, job, tbl, lists, linkable, youngest, code>>

ImportOpens ==
  /\ AtImport /\ Server \notin tbl
  /\ ~IsOpen(Server) /\ defect[Server] # "missing"
  /\ stack' = <<Frame(Server)>> \o stack
  /\ youngest' = IF src[Server] > youngest THEN src[Server] ELSE youngest
  /\ UNCHANGED <<disk, job, tbl, lists, linkable, code>>

(* The rest of compile and import, once the module is evaluated. *)
Evaluated == Busy("imports") /\ Top.next > Len(imports[Top.mod])
Erroneous ==
  \/ Top.error \/ defect[Top.mod] = "semantic"
  \/ job.cmd <= IF IsMain THEN NoCodeGeneration ELSE SingleCompile

Rejected ==
  /\ Evaluated /\ Erroneous
  /\ ErrorOccurred
  /\ stack' = <<Compiled>> \o Tail(stack)
  /\ UNCHANGED <<disk, job, tbl, lists, youngest>>

\* Mutant: an object as old as its source is made again.
UpToDate_Younger == ~job.force /\ Top.sourceTime < obj[Top.mod].time

UpToDate == ~job.force /\ Top.sourceTime <= obj[Top.mod].time

Accepted(upToDate) ==
  /\ Evaluated /\ ~Erroneous /\ UpToDate = upToDate
  /\ stack' = <<Compiled>> \o Adjusted
  /\ UNCHANGED <<clock, imports, src, defect, exe, job, tbl, youngest>>

\* Mutant: only a module made in this run is listed.
Reused_NotListed ==
  /\ Accepted(TRUE)
  /\ UNCHANGED <<obj, lists, linkable, code>>

Reused ==
  /\ Accepted(TRUE)
  /\ AddToLinklist(Top.mod)
  /\ UNCHANGED <<obj, linkable, code>>

(* Without such an object a foreign module stands for its library. *)
ForeignModule ==
  /\ Accepted(FALSE) /\ Top.mod \in Foreign
  /\ IF IsMain
     THEN linkable' = FALSE /\ UNCHANGED lists
     ELSE libs' = libs \cup {Top.mod} /\ UNCHANGED <<linklist, linkable>>
  /\ UNCHANGED <<obj, code>>

NotAssembled ==
  /\ Accepted(FALSE) /\ Top.mod \notin Foreign
  /\ IsMain /\ job.cmd <= DontAssemble
  /\ linkable' = FALSE
  /\ UNCHANGED <<obj, lists, code>>

ToBeAssembled == Top.mod \notin Foreign /\ ~(IsMain /\ job.cmd <= DontAssemble)

Assembled ==
  /\ Accepted(FALSE) /\ ToBeAssembled
  /\ obj' = [obj EXCEPT ![Top.mod] = [time |-> clock, text |-> Text(Top.mod)]]
  /\ AddToLinklist(Top.mod)
  /\ UNCHANGED <<linkable, code>>

(* The assembler fails, and may have removed the old object file.  The     *)
(* main module only becomes unlinkable: the return code stays as it is.    *)
AssemblyFails ==
  /\ job.fails
  /\ Accepted(FALSE) /\ ToBeAssembled
  /\ obj' \in {obj, [obj EXCEPT ![Top.mod] = NoFile]}
  /\ IF IsMain THEN linkable' = FALSE /\ UNCHANGED code ELSE ErrorOccurred
  /\ UNCHANGED lists

(* Close, for a server: its table is kept, with or without errors. *)
CloseServer ==
  /\ Busy("closed") /\ ~IsMain
  /\ tbl' = tbl \cup {Top.mod}
  /\ stack' = <<[stack[2] EXCEPT !.next = @ + 1]>> \o Tail(Tail(stack))
  /\ UNCHANGED <<disk, job, lists, linkable, youngest, code>>

-----------------------------------------------------------------------------
(* The end of Compile: the main module is linked, or not, and closed. *)
(* The program is taken to lie where DRV looks for it, beside the source   *)
(* of the main module, so the current directory is that of the source:     *)
(* Target.Link writes it into the current directory.                       *)
Linkable == Busy("link") /\ job.cmd >= Make /\ linkable
Outdated == job.force \/ exe[Top.mod].time < youngest

CloseMain ==
  /\ stack' = << >>
  /\ job' = [job EXCEPT !.next = @ + 1]
  /\ UNCHANGED <<clock, imports, src, defect, obj, tbl, lists, youngest>>

Link ==
  /\ Linkable /\ Outdated
  /\ exe' = [exe EXCEPT ![Top.mod] =
       [time |-> clock,
        text |-> [m \in {linklist[i] : i \in DOMAIN linklist} |-> obj[m].text]]]
  /\ CloseMain
  /\ UNCHANGED <<linkable, code>>

LinkFails ==
  /\ job.fails /\ Linkable /\ Outdated
  /\ exe' \in {exe, [exe EXCEPT ![Top.mod] = NoFile]}
  /\ ErrorOccurred
  /\ CloseMain

DontLink ==
  /\ Busy("link") /\ ~(Linkable /\ Outdated)
  /\ CloseMain
  /\ UNCHANGED <<exe, linkable, code>>

(* The end of a run, when it returns code. *)
Returning == job.state = "busy" /\ stack = << >> /\ job.next > Len(job.files)

(* The process ends with ProgramReturnCode; its memory is gone. *)
Exit ==
  /\ Returning
  /\ job' = [job EXCEPT !.state = "idle"]
  /\ stack' = << >> /\ tbl' = {} /\ linklist' = << >> /\ libs' = {}
  /\ linkable' = FALSE /\ youngest' = 0
  /\ UNCHANGED <<disk, code>>

Process ==
  \/ FileMissing \/ OpenMain \/ ParseFails \/ Parse
  \/ ImportKnown \/ ImportFails \/ ImportOpens
  \/ Rejected \/ Reused \/ ForeignModule \/ NotAssembled \/ Assembled \/ AssemblyFails
  \/ CloseServer \/ Link \/ LinkFails \/ DontLink \/ Exit

MakeNext ==
  \/ Process
  \/ \E m \in Modules, d \in Defects : Edit(m, d)
  \/ \E m \in Foreign : Provide(m)
  \/ \E l \in CommandLines, force \in IgnoreTimeStamps, fails \in ToolsFail :
       Run(l[1], force, l[2], fails)

MakeSpec == MakeInit /\ [][MakeNext]_mkvars

(* The compiler is one process, which the system lets run. *)
FairMake == MakeSpec /\ WF_mkvars(Process)

-----------------------------------------------------------------------------
Linking == Linkable /\ Outdated

(* GenerateRootModule calls the module bodies in the order of the link     *)
(* list: when a program is linked, every module comes once and after the   *)
(* modules it imports, but for those that come from a library.             *)
LinkInOrder ==
  Linking =>
    /\ \A i, j \in DOMAIN linklist : linklist[i] = linklist[j] => i = j
    /\ \A i \in DOMAIN linklist : \A m \in Direct(linklist[i]) \ libs :
         \E j \in 1 .. i - 1 : linklist[j] = m

Listed == {linklist[i] : i \in DOMAIN linklist}

(* When a program is linked, the link list and the libraries name every    *)
(* module it needs and no other (Compile clears them for each file,        *)
(* AddToLinklist fills the list); only a foreign module comes from a       *)
(* library, and none by both ways.                                         *)
LinkComplete ==
  Linking => /\ Listed \cup libs = Closure(Top.mod)
             /\ libs \subseteq Foreign /\ Listed \cap libs = {}

(* A program is linked only if none of its modules has an error, however   *)
(* deep the import (ErrorOccurred, DRV.mi:18-21).                          *)
LinkOnlyCorrect == Linking => \A m \in Closure(Top.mod) : defect[m] = "none"

(* When a program is linked, all its objects are made from the present     *)
(* sources: an object is made again when a module imported directly or     *)
(* indirectly is younger (FIL.AdjustClientSourceTime).                     *)
ObjectsFresh ==
  Linking => \A i \in DOMAIN linklist : obj[linklist[i]].text = Text(linklist[i])

(* The imports below m form a tree: no module is imported twice. *)
TreeBelow(m) ==
  \A x, y \in Closure(m) : \A i \in DOMAIN imports[x], j \in DOMAIN imports[y] :
    imports[x][i] = imports[y][j] => x = y /\ i = j

(* When a program is linked, its main module is fresh, whatever            *)
(* the imports are like, and so is every module, however deep the edited   *)
(* one lies, if no module is imported by two others: each is then opened   *)
(* by its only client and passes its time on to it.                        *)
LinkedFresh ==
  Linking => \A i \in DOMAIN linklist :
    linklist[i] = Top.mod \/ TreeBelow(Top.mod)
      => obj[linklist[i]].text = Text(linklist[i])

(* When a run that was to make programs returns 0 and its tools succeeded, *)
(* each program whose imports form a tree consists of its modules as they  *)
(* are in the sources, the foreign ones perhaps in a library, whether it   *)
(* was linked this time or an earlier one was taken for good               *)
(* (youngestTime, DRV.mi:82).                                              *)
ExeFresh ==
  Returning /\ job.cmd = Make /\ code = 0 /\ ~job.fails
    => \A i \in DOMAIN job.files :
         \/ job.files[i] \in Foreign \/ ~TreeBelow(job.files[i])
         \/ LET made == exe[job.files[i]].text
            IN  /\ Parts(job.files[i]) \subseteq DOMAIN made
                /\ DOMAIN made \subseteq Closure(job.files[i])
                /\ \A m \in DOMAIN made : made[m] = Text(m)

(* A run assembles a module only if told to (-it) or if something it is    *)
(* made from has changed since its object file was made.                   *)
NoNeedlessWork ==
  [][\A m \in Modules : job.state = "busy" /\ obj'[m] # obj[m] /\ obj'[m] # NoFile
       => job.force \/ obj[m].text # Text(m)]_mkvars

Cyclic(m) == \E x \in Closure(m) : \E y \in Direct(x) : x \in Closure(y)
Faulty(m) == Cyclic(m) \/ \E x \in Closure(m) : defect[x] # "none"

(* A run with the command Make or MakeButDontLink returns 1 exactly if an  *)
(* import cycle, a missing file or an error is anywhere below one of its   *)
(* files, provided that the tools it calls succeed.  The commands below    *)
(* these return 1 for modules without errors too (DRV.mi:48, 108).         *)
CodeTellsErrors ==
  Returning /\ job.cmd >= MakeButDontLink
    => /\ (\E i \in DOMAIN job.files : Faulty(job.files[i])) => code = 1
       /\ code = 1 /\ ~job.fails => \E i \in DOMAIN job.files : Faulty(job.files[i])

(* Every run of the compiler ends, with cyclic imports too. *)
RunEnds == job.state = "busy" ~> job.state = "idle"

=============================================================================

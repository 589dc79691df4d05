------------------------------ MODULE ExecLoop ------------------------------
(***************************************************************************)
(* The run loop of the debugger: ExecProg (wv_src/dbgexec.c) with the      *)
(* breakpoint and watchpoint tables it plants, removes and checks          *)
(* (wv_src/dbgbrk.c), the instruction stepper it asks (wv_src/dbgtrace.c   *)
(* at the assembly level, mad_src/x86/x86trace.c) and the debuggee that    *)
(* runs between two of its passes.  Debugger and debuggee share memory     *)
(* (the planted INT3 bytes) and registers (ip), and the debuggee runs only *)
(* between Insert and EndRun.                                              *)
(***************************************************************************)
EXTENDS Points, Integers, FiniteSets

CONSTANTS
  Succ,        \* Succ[a] : where control can go after the instruction at a
  After,       \* After[a] : the address following the instruction at a
  Kind,        \* Kind[a] : what the instruction at a is
  Writes,      \* addresses of the instructions that write the watched cell
  Entry,       \* where the loaded program starts
  MaxPoints,   \* bound on the number of points in the table
  Shapes,      \* the conditions, countdowns and states points are set with
  Edits,       \* the edits of the point table the user makes
  TraceTypes,  \* the trace commands the user gives
  BreakOnMessage,      \* SW_BREAK_ON_DEBUG_MESSAGE
  ContinueUnexpected,  \* SW_CONTINUE_UNEXPECTED_BREAK
  BreakOnWrite         \* SW_BREAK_ON_WRITE, and the trap file supports it

Kinds == {"plain",    \* an instruction the stepper does nothing special for
          "call",     \* steps over by a breakpoint behind it
          "special",  \* PUSHF, POPF, MOV/POP to DS...: loses the T flag
          "load",     \* a system call that loads or unloads an image
          "say",      \* a system call that passes a message to the debugger
          "end",      \* the system call that ends the program
          "int",      \* a software interrupt in real mode
          "int3",     \* an INT3 of the program itself
          "wvideo",   \* an INT3 followed by the WVIDEO signature
          "fault"}    \* an instruction that raises an exception

EditKinds == {"set", "toggle", "activate", "clear", "autodestruct", "until"}

Shape == [cond : BOOLEAN, count : 0..MaxCount, active : BOOLEAN]

ASSUME ProgramAssumption ==
  /\ Succ \in [Addr -> SUBSET Addr] /\ After \in [Addr -> Addr]
  /\ Kind \in [Addr -> Kinds] /\ Writes \subseteq Addr /\ Entry \in Addr

\* What CheckSpecial and DoTraceOne rely on when they run such an instruction
\* to a breakpoint behind it: it takes up bytes, and control comes back there.
ASSUME StepperAssumption ==
  \A a \in Addr :
    /\ After[a] # a
    /\ Kind[a] \in {"special", "load", "say"} => Succ[a] \subseteq {After[a]}

ASSUME UserAssumption ==
  /\ MaxPoints \in Nat /\ Shapes \subseteq Shape
  /\ Edits \subseteq EditKinds /\ TraceTypes \subseteq {"INTO", "OVER", "NEXT"}

ASSUME SwitchAssumption ==
  /\ BreakOnMessage \in BOOLEAN /\ ContinueUnexpected \in BOOLEAN
  /\ BreakOnWrite \in BOOLEAN

VARIABLES
  BrkList,     \* the point table, in list order
  UserTmpBrk,  \* the temporary breakpoint of `go until'
  DbgTmpBrk,   \* the temporary breakpoint of the debugger
  userstat,    \* UserTmpBrk's status as PerformTrace saved it
  have_task,   \* SW_HAVE_TASK
  tracing,     \* "no", or the type of the trace command being executed
  pc,          \* where ExecProg, its caller or the debuggee is
  es,          \* ExecProg's execute_state
  how,         \* how this pass of ExecProg runs the debuggee
  conditions,  \* what the pass has found so far
  mem,         \* the first byte of each instruction
  ip,          \* the debuggee's instruction pointer
  data,        \* the watched cell
  raised,      \* history: what the debuggee's last run returned
  arrived,     \* history: how the debuggee got to ip since the last stop
  wrote,       \* history: what the last instruction did to the cell, unless
               \*   it was run to the debugger's own breakpoint behind it
  counted      \* history: countdown steps of breakpoints since the debuggee
               \*   moved, to 3

list      == <<BrkList, UserTmpBrk, DbgTmpBrk>>
command   == <<have_task, tracing, userstat>>
debuggee  == <<ip, data>>
history   == <<raised, arrived, wrote, counted>>
vars == <<list, command, pc, es, how, conditions, mem, debuggee, history>>

STOPPERS == {"TRACE", "BREAK", "WATCH", "USER", "TERMINATE", "EXCEPTION",
             "STOP"}
Conditions == STOPPERS \cup {"LIBRARIES", "MESSAGE"}

\* The program as it was loaded.
Code == [a \in Addr |-> IF Kind[a] \in {"int3", "wvideo"} THEN "CC" ELSE "OP"]

TypeOK ==
  /\ BrkList \in Seq(Point)
  /\ UserTmpBrk \in TmpPoint /\ DbgTmpBrk \in TmpPoint
  /\ userstat \in Status
  /\ have_task \in BOOLEAN
  /\ tracing \in {"no"} \cup TraceTypes
  /\ pc \in {"prompt", "top", "insert", "retry", "run", "stopped", "check",
             "decide", "report", "destruct"}
  /\ es \in {"NORMAL", "STEP_ONE", "FORCE_BREAK"}
  /\ how \in {"STEP", "BREAK", "STEPBREAK", "SIMULATE"}
  /\ conditions \subseteq Conditions
  /\ mem \in [Addr -> Byte]
  /\ ip \in Addr /\ data \in Values
  /\ raised \subseteq Conditions
  /\ arrived \in {"no", "executed", "skipped"}
  /\ wrote \in {"no", "same", "changed"}
  /\ counted \in 0..3

NoTmp == [addr |-> Entry, active |-> FALSE, in_place |-> FALSE,
          hit |-> FALSE, old |-> "OP"]

Init ==
  /\ BrkList = <<>> /\ UserTmpBrk = NoTmp /\ DbgTmpBrk = NoTmp
  /\ userstat = StatusOf(NoTmp) /\ have_task = TRUE /\ tracing = "no"
  /\ pc = "prompt" /\ es = "NORMAL" /\ how = "BREAK"
  /\ conditions = {} /\ raised = {}
  /\ mem = Code /\ ip = Entry /\ data \in Values
  /\ arrived = "no" /\ wrote = "no" /\ counted = 0

-----------------------------------------------------------------------------
(***************************************************************************)
(* Planting and removing (InsertBPs, RemoveBPs).                           *)
(***************************************************************************)

SameTmp(tmp, a) == tmp.active /\ tmp.addr = a

\* Mutant of Yields: InsertBPs without its two `continue's.
NeverYields(p) == FALSE

\* A list breakpoint leaves its address to a temporary one.
Yields(p) == SameTmp(UserTmpBrk, p.addr) \/ SameTmp(DbgTmpBrk, p.addr)

\* The breakpoints InsertBPs hands to InsertOneBP.
ListConsidered ==
  {i \in DOMAIN BrkList : ~BrkList[i].watch /\ ~Yields(BrkList[i])}
DbgConsidered == ~SameTmp(UserTmpBrk, DbgTmpBrk.addr)

\* Mutant of Planted: planted under the instruction pointer as well.
PlantedAnywhere(p, force) == p.active

\* InsertOneBP: an active point is planted, or reported to be at the
\* instruction pointer when the caller does not force it.
Planted(p, force) == p.active /\ (force \/ p.addr # ip)
OneAtIP(p, force) == p.active /\ ~force /\ p.addr = ip

ListPlanted(force) ==
  {i \in ListConsidered : Planted(BrkList[i], force)}
UserPlanted(force) == Planted(UserTmpBrk, force)
DbgPlanted(force) == DbgConsidered /\ Planted(DbgTmpBrk, force)

AtIP(force) ==
  \/ \E i \in ListConsidered : OneAtIP(BrkList[i], force)
  \/ OneAtIP(UserTmpBrk, force)
  \/ DbgConsidered /\ OneAtIP(DbgTmpBrk, force)

\* RemoteSetBreak returns the byte it overwrites: what the program has
\* there, or the INT3 of a breakpoint planted before.
ByteUnder(a, before) == IF a \in before THEN "CC" ELSE mem[a]

ListBefore(i, force) ==
  {BrkList[j].addr : j \in {k \in ListPlanted(force) : k < i}}
ListAddrs(force) == {BrkList[j].addr : j \in ListPlanted(force)}
UserAddrs(force) ==
  ListAddrs(force) \cup IF UserPlanted(force) THEN {UserTmpBrk.addr} ELSE {}
PlantedAddrs(force) ==
  UserAddrs(force) \cup IF DbgPlanted(force) THEN {DbgTmpBrk.addr} ELSE {}

InsertListBP(i, force) ==
  IF i \in ListPlanted(force)
    THEN [BrkList[i] EXCEPT
            !.in_place = TRUE, !.hit = FALSE,
            !.old = ByteUnder(BrkList[i].addr, ListBefore(i, force))]
    ELSE [BrkList[i] EXCEPT !.in_place = FALSE, !.hit = FALSE]

InsertTmpBP(tmp, planted, before) ==
  IF planted
    THEN [tmp EXCEPT !.in_place = TRUE, !.hit = FALSE,
                     !.old = ByteUnder(tmp.addr, before)]
    ELSE [tmp EXCEPT !.in_place = FALSE, !.hit = FALSE]

\* Mutants of UpdateWP: the debug registers are never armed; the value to
\* compare with is not read again.
UpdateWPUnarmed(p, arm) ==
  [p EXCEPT !.hit = FALSE, !.val = IF p.active THEN data ELSE @]
UpdateWPStale(p, arm) ==
  [p EXCEPT !.hit = FALSE, !.in_place = @ \/ (p.active /\ arm)]

\* UpdateWPs forgets the last hit and reads an active watchpoint's cell;
\* InsertWPs arms it in the debug registers.
UpdateWP(p, arm) ==
  [p EXCEPT !.hit = FALSE,
            !.val = IF p.active THEN data ELSE @,
            !.in_place = @ \/ (p.active /\ arm)]

InsertPoints(force, arm) ==
  [i \in DOMAIN BrkList |->
     IF BrkList[i].watch THEN UpdateWP(BrkList[i], arm)
                         ELSE InsertListBP(i, force)]

\* RemoveBPs: list points in list order, then the active temporary ones, so
\* the last one that is in place at an address decides its byte.
InPlaceAt(a) ==
  {i \in DOMAIN BrkList :
     ~BrkList[i].watch /\ BrkList[i].in_place /\ BrkList[i].addr = a}
TmpInPlaceAt(tmp, a) == SameTmp(tmp, a) /\ tmp.in_place

RestoredByte(a) ==
  CASE TmpInPlaceAt(DbgTmpBrk, a) -> DbgTmpBrk.old
    [] ~TmpInPlaceAt(DbgTmpBrk, a) /\ TmpInPlaceAt(UserTmpBrk, a)
         -> UserTmpBrk.old
    [] OTHER -> IF InPlaceAt(a) = {} THEN mem[a]
                ELSE BrkList[CHOOSE i \in InPlaceAt(a) :
                               \A j \in InPlaceAt(a) : j <= i].old

RemoveWP(p) == IF p.watch THEN [p EXCEPT !.in_place = FALSE] ELSE p

RemoveBPs ==
  /\ mem' = [a \in Addr |-> RestoredByte(a)]
  /\ BrkList' = [i \in DOMAIN BrkList |-> RemoveWP(BrkList[i])]

-----------------------------------------------------------------------------
(***************************************************************************)
(* Checking (CheckBPs, MIUnexpectedBreak).                                 *)
(***************************************************************************)

\* Mutant of HaveHitBP: a point that was not planted counts as hit.
HaveHitUnplanted(p) == p.active /\ p.addr = ip

HaveHitBP(p) == p.active /\ p.in_place /\ p.addr = ip

\* With break on write any stop counts as a write, unless a temporary
\* breakpoint explains it.
DropHit ==
  \/ HaveHitBP(UserTmpBrk) \/ HaveHitBP(DbgTmpBrk)
  \/ /\ UserTmpBrk.active \/ DbgTmpBrk.active
     /\ conditions \cap (STOPPERS \ {"TERMINATE"}) = {}

WatchHit(p) == IF BreakOnWrite THEN ~DropHit ELSE p.val # data

FirstHit(p) == p.active /\ IF p.watch THEN WatchHit(p) ELSE HaveHitBP(p)
Tested(p) == FirstHit(p) /\ p.use_condition

\* r is what evaluating the point's condition gave: it is true, it is false,
\* or it could not be evaluated, which counts as a hit.
Passes(p, r) == FirstHit(p) /\ (p.use_condition => r # "false")
Fails(p, r) == p.expr_error \/ (Tested(p) /\ r = "error")
CountsPastZero(p, r) ==   \* mutant of Counts: without its `countdown != 0'
  Passes(p, r) /\ p.initial_countdown # 0 /\ ~Fails(p, r)
Counts(p, r) == Passes(p, r) /\ p.countdown # 0 /\ ~Fails(p, r)
Stops(p, r) == Passes(p, r) /\ (Counts(p, r) => p.countdown = 1)

CheckedPoint(p, r) ==
  [p EXCEPT !.expr_error = Fails(p, r),
            !.countdown = IF Counts(p, r) THEN @ - 1 ELSE @,
            !.hit = @ \/ Stops(p, r)]

Results == {f \in [DOMAIN BrkList -> {"true", "false", "error"}] :
              \A i \in DOMAIN f : ~Tested(BrkList[i]) => f[i] = "true"}

CountsBreak(res) ==
  \E i \in DOMAIN BrkList : ~BrkList[i].watch /\ Counts(BrkList[i], res[i])

CheckTmp(tmp) == [tmp EXCEPT !.hit = @ \/ HaveHitBP(tmp)]

BreakHit(res) ==
  \/ HaveHitBP(UserTmpBrk) \/ HaveHitBP(DbgTmpBrk)
  \/ \E i \in DOMAIN BrkList : ~BrkList[i].watch /\ Stops(BrkList[i], res[i])
WatchpointHit(res) ==
  \E i \in DOMAIN BrkList : BrkList[i].watch /\ Stops(BrkList[i], res[i])

\* A BREAK that no point explains: MIUnexpectedBreak finds an INT3 of the
\* program and moves past it; m says whether its message is for the user.
OwnBreak == mem[ip] = "CC"

SkipsOwnBreak(res) ==
  "BREAK" \in conditions /\ OwnBreak /\ ~BreakHit(res) /\ ~WatchpointHit(res)

OwnBreakVerdict(m) ==
  CASE Kind[ip] = "wvideo" -> IF m THEN {"TRACE", "MESSAGE"} ELSE {}
    [] OTHER -> IF ContinueUnexpected THEN {} ELSE {"TRACE"}

\* What CheckBPs returns.
Verdict(res, m) ==
  LET rest == conditions \ STOPPERS IN
  CASE BreakHit(res) -> rest \cup {"BREAK"}
    [] ~BreakHit(res) /\ WatchpointHit(res) -> rest \cup {"WATCH"}
    [] SkipsOwnBreak(res) -> rest \cup OwnBreakVerdict(m)
    [] OTHER -> IF conditions \cap {"BREAK", "WATCH"} = {} THEN conditions
                                                         ELSE rest

-----------------------------------------------------------------------------
(***************************************************************************)
(* Stepping (TraceHow, MITraceOne) and what ExecProg makes of a pass.      *)
(***************************************************************************)

SystemCalls == {"load", "say", "end"}

\* DoTraceOne and CheckSpecial.
TraceOne(type) ==
  CASE type = "NEXT" -> "BREAK"
    [] type = "OVER" /\ Kind[ip] \in {"call", "int"} \cup SystemCalls -> "BREAK"
    [] OTHER -> CASE Kind[ip] \in {"special"} \cup SystemCalls -> "STEPBREAK"
                  [] Kind[ip] = "int" -> "SIMULATE"
                  [] OTHER -> "STEP"

\* TraceHow: a temporary breakpoint still waiting is run to, unless one
\* instruction has to be stepped.
KeepsRunning == es # "STEP_ONE" /\ DbgTmpBrk.active
TraceHow ==
  IF KeepsRunning THEN "BREAK"
                  ELSE TraceOne(IF es = "STEP_ONE" THEN "INTO" ELSE tracing)

\* TraceCheck at the assembly level: reaching the temporary breakpoint ends
\* the trace and stands for every other reason to stop.
TraceEnds(c) == tracing # "no" /\ DbgTmpBrk.hit /\ c \cap STOPPERS # {}
TraceCheck(c) == IF TraceEnds(c) THEN (c \ STOPPERS) \cup {"TRACE"} ELSE c

\* What ExecProg makes of CheckBPs' verdict, up to TraceCheck; forced says
\* whether an image that was loaded or removed is to stop the program.
WithMessage(c) ==
  IF BreakOnMessage /\ "MESSAGE" \in c THEN c \cup {"STOP"} ELSE c
WithStepBreak(c) ==
  IF how = "STEPBREAK" /\ "BREAK" \in c /\ DbgTmpBrk.hit
    THEN (c \ {"BREAK"}) \cup {"TRACE"} ELSE c
WithLibraries(c, forced) ==
  IF "LIBRARIES" \notin c THEN c
  ELSE IF forced THEN c \cup {"STOP"} ELSE c \ {"LIBRARIES"}
WithoutStoppers(c) ==     \* mutant of WithoutStep: it drops all of them
  IF es = "STEP_ONE" THEN c \ STOPPERS ELSE c
WithoutStep(c) == IF es = "STEP_ONE" THEN c \ {"TRACE"} ELSE c

Digest(forced) ==
  WithoutStep(WithLibraries(WithStepBreak(WithMessage(conditions)), forced))

-----------------------------------------------------------------------------
(***************************************************************************)
(* The user edits the point table.                                         *)
(***************************************************************************)

Editing(kind) == pc = "prompt" /\ kind \in Edits
Edited ==
  UNCHANGED <<UserTmpBrk, DbgTmpBrk, command, pc, es, how, conditions, mem,
              debuggee, history>>

\* SetPoint refuses an address that has a point.
SetPoint(a, s) ==
  /\ Editing("set")
  /\ At(BrkList, a) = {} /\ Len(BrkList) < MaxPoints
  /\ BrkList' = Append(BrkList,
                       [NewPoint(a, s.cond, s.count, FALSE, data) EXCEPT
                          !.active = s.active])
  /\ Edited

\* DoActPoint reads the cell of a watchpoint it activates.
Activated(p, act) ==
  [p EXCEPT !.active = act, !.val = IF act /\ p.watch THEN data ELSE @]

RemovePoint(i) == BrkList' = RemoveAt(BrkList, i)

\* ToggleBreak: none, active, inactive, none.
ToggleBreak(a) ==
  /\ Editing("toggle")
  /\ \/ /\ At(BrkList, a) = {} /\ Len(BrkList) < MaxPoints
        /\ BrkList' = Append(BrkList, NewPoint(a, FALSE, 0, FALSE, data))
     \/ \E i \in At(BrkList, a) :
          \/ BrkList[i].active
             /\ BrkList' = [BrkList EXCEPT ![i] = Activated(@, FALSE)]
          \/ ~BrkList[i].active /\ RemovePoint(i)
  /\ Edited

ActPoint(i, act) ==
  /\ Editing("activate")
  /\ BrkList' = [BrkList EXCEPT ![i] = Activated(@, act)]
  /\ Edited

\* BrkEnableAll and BrkDisableAll.
ActAll(act) ==
  /\ Editing("activate")
  /\ BrkList' = [i \in DOMAIN BrkList |-> Activated(BrkList[i], act)]
  /\ Edited

ClearPoint(i) == Editing("clear") /\ RemovePoint(i) /\ Edited

BrkClearAll == Editing("clear") /\ BrkList' = <<>> /\ Edited

SetBPAutoDestruct(i, auto) ==
  /\ Editing("autodestruct")
  /\ BrkList' = [BrkList EXCEPT ![i].autodestruct = auto]
  /\ Edited

\* The `go until' command sets UserTmpBrk before Go, and drops it after.
SetUserTmp(a) ==
  /\ Editing("until")
  /\ UserTmpBrk' = [UserTmpBrk EXCEPT !.addr = a, !.active = TRUE]
  /\ UNCHANGED <<BrkList, DbgTmpBrk, command, pc, es, how, conditions, mem,
                 debuggee, history>>
DropUserTmp ==
  /\ Editing("until")
  /\ UserTmpBrk' = NullStatus(UserTmpBrk)
  /\ UNCHANGED <<BrkList, DbgTmpBrk, command, pc, es, how, conditions, mem,
                 debuggee, history>>

Edit ==
  \/ \E a \in Addr \cup {Cell}, s \in Shapes : SetPoint(a, s)
  \/ \E a \in Addr : ToggleBreak(a)
  \/ \E i \in DOMAIN BrkList :
       \/ ClearPoint(i)
       \/ \E b \in BOOLEAN : ActPoint(i, b) \/ SetBPAutoDestruct(i, b)
  \/ \E b \in BOOLEAN : ActAll(b)
  \/ BrkClearAll
  \/ \E a \in Addr : SetUserTmp(a)
  \/ DropUserTmp

-----------------------------------------------------------------------------
(***************************************************************************)
(* One pass of ExecProg.                                                   *)
(***************************************************************************)

Enter ==
  /\ pc = "prompt" /\ have_task
  /\ pc' = "top"
  /\ UNCHANGED <<have_task, BrkList, es, how, conditions, mem, debuggee,
                 history>>

\* Go: ExecProg( FALSE, ... ).
Go ==
  /\ Enter
  /\ UNCHANGED <<UserTmpBrk, DbgTmpBrk, tracing, userstat>>

\* ExecTrace and PerformTrace save the user's temporary breakpoint and drop
\* both.
Trace(type) ==
  /\ Enter
  /\ tracing' = type
  /\ userstat' = StatusOf(UserTmpBrk)
  /\ UserTmpBrk' = NullStatus(UserTmpBrk)
  /\ DbgTmpBrk' = NullStatus(DbgTmpBrk)

\* The top of the loop decides how to run the debuggee.  A decision for a
\* breakpoint arms DbgTmpBrk behind the instruction.
Top ==
  /\ pc = "top"
  /\ pc' = "insert"
  /\ LET decided == IF tracing = "no" /\ es # "STEP_ONE" THEN "BREAK"
                                                         ELSE TraceHow
     IN /\ how' = decided
        /\ IF \/ tracing = "no" /\ es # "STEP_ONE"
              \/ KeepsRunning
              \/ decided \notin {"BREAK", "STEPBREAK"}
             THEN UNCHANGED DbgTmpBrk
             ELSE DbgTmpBrk' = [DbgTmpBrk EXCEPT !.addr = After[ip],
                                                 !.active = TRUE]
  /\ UNCHANGED <<BrkList, UserTmpBrk, command, es, conditions, mem, debuggee,
                 history>>

\* Plant the breakpoints; a run from a breakpoint first steps off it.
Insert ==
  /\ pc = "insert"
  /\ LET force == es = "FORCE_BREAK"
         steps_off == how = "BREAK" /\ AtIP(force)
     IN /\ BrkList' = InsertPoints(force, how = "BREAK" /\ ~AtIP(force))
        /\ UserTmpBrk' = InsertTmpBP(UserTmpBrk, UserPlanted(force),
                                     ListAddrs(force))
        /\ DbgTmpBrk' = InsertTmpBP(DbgTmpBrk, DbgPlanted(force),
                                    UserAddrs(force))
        /\ mem' = [a \in Addr |-> ByteUnder(a, PlantedAddrs(force))]
        /\ pc' = IF steps_off THEN "retry" ELSE "run"
  /\ UNCHANGED <<command, es, how, conditions, debuggee, history>>

\* Mutant of Retry: es stays what it was.
RetrySame ==
  /\ pc = "retry"
  /\ RemoveBPs
  /\ pc' = "top"
  /\ UNCHANGED <<UserTmpBrk, DbgTmpBrk, command, es, how, conditions, debuggee,
                 history>>

Retry ==
  /\ pc = "retry"
  /\ RemoveBPs
  /\ es' = "STEP_ONE" /\ pc' = "top"
  /\ UNCHANGED <<UserTmpBrk, DbgTmpBrk, command, how, conditions, debuggee,
                 history>>

-----------------------------------------------------------------------------
(***************************************************************************)
(* The debuggee runs (MakeProgRun) until something returns to the          *)
(* debugger.                                                               *)
(***************************************************************************)

Running == pc = "run"

\* The run ends with conditions c.
Return(c) ==
  /\ Running
  /\ pc' = "stopped" /\ conditions' = c /\ raised' = c
  /\ UNCHANGED <<list, command, es, how, mem>>

\* An INT3, planted or the program's own: ip is left on it.
HitBreak ==
  /\ mem[ip] = "CC" /\ how # "SIMULATE"
  /\ Return({"BREAK"})
  /\ UNCHANGED <<debuggee, arrived, wrote, counted>>

WatchArmed == \E i \in DOMAIN BrkList : BrkList[i].watch /\ BrkList[i].in_place

\* The instruction at ip is executed and leaves value v in the cell.
Executed(next, v) ==
  /\ ip' = next /\ data' = v
  /\ arrived' = "executed" /\ counted' = 0
  /\ wrote' = CASE ip \notin Writes \/ how = "STEPBREAK" -> "no"
                [] v = data -> "same"
                [] OTHER -> "changed"

Executable == mem[ip] = "OP" /\ Kind[ip] \notin {"end", "fault"}

\* What executing the instruction returns to the debugger with, if anything.
Outcome ==
  CASE how = "STEP" -> {"TRACE"}
    [] how # "STEP" /\ Kind[ip] = "load" -> {"LIBRARIES"}
    [] how # "STEP" /\ Kind[ip] = "say" -> {"MESSAGE"}
    [] how # "STEP" /\ WatchArmed /\ ip \in Writes -> {"WATCH"}
    [] OTHER -> {}

Execute(next, v) ==
  /\ Running /\ Executable /\ how # "SIMULATE"
  /\ next \in Succ[ip]
  /\ v # data => ip \in Writes
  /\ Executed(next, v)
  /\ IF Outcome # {} THEN Return(Outcome)
     ELSE UNCHANGED <<list, command, pc, es, how, conditions, mem, raised>>

\* The program ends, or faults: ip stays at the instruction.
Fail ==
  /\ mem[ip] = "OP" /\ how # "SIMULATE"
  /\ \/ Kind[ip] = "end" /\ Return({"TERMINATE"})
     \/ Kind[ip] = "fault" /\ Return({"EXCEPTION"})
  /\ UNCHANGED <<debuggee, arrived, wrote, counted>>

\* MITraceSimulate pushes the interrupt's frame and leaves CS:IP alone.
Simulate ==
  /\ how = "SIMULATE"
  /\ Return({"TRACE"})
  /\ UNCHANGED <<debuggee, arrived, wrote, counted>>

\* The user's break key, caught by the trap file.
Interrupt ==
  /\ how # "SIMULATE"
  /\ Return({"USER"})
  /\ UNCHANGED <<debuggee, arrived, wrote, counted>>

Debuggee ==
  \/ HitBreak
  \/ \E next \in Addr, v \in Values : Execute(next, v)
  \/ Fail
  \/ Simulate

-----------------------------------------------------------------------------
(***************************************************************************)
(* The rest of the pass.                                                   *)
(***************************************************************************)

\* RemoveBPs, then RecordMsgText: the message may not be for the user, and a
\* message that is a debugger command asks for a stop.
EndRun(m, stop) ==
  /\ pc = "stopped"
  /\ RemoveBPs
  /\ "MESSAGE" \notin conditions => m /\ ~stop
  /\ conditions' = (IF m THEN conditions ELSE conditions \ {"MESSAGE"})
                     \cup (IF stop THEN {"STOP"} ELSE {})
  /\ pc' = "check"
  /\ UNCHANGED <<UserTmpBrk, DbgTmpBrk, command, es, how, debuggee, history>>

Check(res, m) ==
  /\ pc = "check"
  /\ conditions' = Verdict(res, m)
  /\ BrkList' = [i \in DOMAIN BrkList |-> CheckedPoint(BrkList[i], res[i])]
  /\ UserTmpBrk' = CheckTmp(UserTmpBrk)
  /\ DbgTmpBrk' = CheckTmp(DbgTmpBrk)
  /\ IF SkipsOwnBreak(res)
       THEN ip' = After[ip] /\ arrived' = "skipped"
       ELSE UNCHANGED <<ip, arrived>>
  /\ counted' = CASE SkipsOwnBreak(res) -> 0
                   [] ~SkipsOwnBreak(res) /\ counted < 3 /\ CountsBreak(res)
                        -> counted + 1
                   [] OTHER -> counted
  /\ pc' = "decide"
  /\ UNCHANGED <<command, es, how, mem, data, raised, wrote>>

\* TraceCheck disarms the temporary breakpoint the trace ran to.
Traced(c) ==
  DbgTmpBrk' = [DbgTmpBrk EXCEPT !.active = @ /\ ~TraceEnds(c)]

\* Stop for the conditions found, or because TBreak sees the break key.
Stop(forced, user) ==
  LET c == TraceCheck(Digest(forced)) IN
  /\ pc = "decide"
  /\ user <=> c \cap STOPPERS = {}
  /\ conditions' = IF user THEN c \cup {"USER"} ELSE c
  /\ Traced(Digest(forced))
  /\ pc' = "report"
  /\ UNCHANGED <<BrkList, UserTmpBrk, command, es, how, mem, debuggee, history>>

\* Mutant of NextState: no pass that forces the breakpoints in.
NextStateUnforced == IF "WATCH" \in raised THEN "STEP_ONE" ELSE "NORMAL"

\* After STEP_ONE a pass that plants the breakpoint it stepped off; after a
\* watch nobody explained, an instruction on its own.
NextState ==
  CASE es = "STEP_ONE" -> "FORCE_BREAK"
    [] OTHER -> IF "WATCH" \in raised THEN "STEP_ONE" ELSE "NORMAL"

Continue(forced) ==
  LET c == TraceCheck(Digest(forced)) IN
  /\ pc = "decide"
  /\ c \cap STOPPERS = {}
  /\ Traced(Digest(forced))
  /\ es' = NextState
  /\ pc' = "top"
  /\ UNCHANGED <<BrkList, UserTmpBrk, command, how, conditions, mem, debuggee,
                 history>>

\* ReportTrap and the first half of DispBPMsg: the break key is reported
\* before the end of the program, and a watchpoint that was hit is read.
Report ==
  /\ pc = "report"
  /\ have_task' = (have_task /\ ~("TERMINATE" \in conditions
                                  /\ "USER" \notin conditions))
  /\ BrkList' = [i \in DOMAIN BrkList |->
                   IF BrkList[i].watch /\ BrkList[i].hit
                     THEN [BrkList[i] EXCEPT !.val = data] ELSE BrkList[i]]
  /\ arrived' = "no" /\ wrote' = "no" /\ counted' = 0
  /\ pc' = "destruct"
  /\ UNCHANGED <<UserTmpBrk, DbgTmpBrk, tracing, userstat, es, how, conditions,
                 mem, debuggee, raised>>

\* DispBPMsg's second loop: every autodestruct point goes, hit or not.
Autodestruct == {i \in DOMAIN BrkList : BrkList[i].autodestruct}
Destruct ==
  /\ pc = "destruct"
  /\ \E i \in Autodestruct : (\A j \in Autodestruct : i <= j) /\ RemovePoint(i)
  /\ UNCHANGED <<UserTmpBrk, DbgTmpBrk, command, pc, es, how, conditions, mem,
                 debuggee, history>>

\* Back to the user: ExecProg's locals are gone, and PerformTrace
\* restores UserTmpBrk's status.
Prompt ==
  /\ pc = "destruct" /\ Autodestruct = {}
  /\ UserTmpBrk' = IF tracing = "no" THEN UserTmpBrk
                                     ELSE WithStatus(UserTmpBrk, userstat)
  /\ tracing' = "no"
  /\ pc' = "prompt" /\ es' = "NORMAL" /\ how' = "BREAK"
  /\ conditions' = {} /\ raised' = {}
  /\ UNCHANGED <<BrkList, DbgTmpBrk, have_task, userstat, mem, debuggee,
                 arrived, wrote, counted>>

Debugger ==
  \/ Top \/ Insert \/ Retry
  \/ \E m, stop \in BOOLEAN : EndRun(m, stop)
  \/ \E res \in Results, m \in BOOLEAN : Check(res, m)
  \/ \E forced \in BOOLEAN : Stop(forced, FALSE) \/ Continue(forced)
  \/ Report \/ Destruct \/ Prompt

Next ==
  \/ Edit
  \/ Go \/ \E type \in TraceTypes : Trace(type)
  \/ Debugger \/ Debuggee
  \/ Interrupt
  \/ \E forced \in BOOLEAN : Stop(forced, TRUE)

Spec == Init /\ [][Next]_vars

\* The debugger is one thread of straight code between two runs, and the
\* debuggee it started keeps executing; the user may do nothing.
FairSpec == Spec /\ WF_vars(Debugger) /\ WF_vars(Debuggee)

-----------------------------------------------------------------------------
(***************************************************************************)
(* Properties.                                                             *)
(***************************************************************************)

\* Outside a run of the debuggee, memory holds the program that was loaded:
\* whatever was planted, skipped, shared with a temporary breakpoint or
\* stepped off, RemoveBPs puts every byte back (dbgbrk.c:315-336).
MemoryIntact == pc \notin {"retry", "run", "stopped"} => mem = Code

\* Where the user asked to be stopped: at the breakpoints that stop every
\* time, and at the target of `go until'.
Armed ==
  {BrkList[i].addr : i \in {j \in DOMAIN BrkList :
                             Plain(BrkList[j]) /\ ~BrkList[j].watch}}
  \cup IF UserTmpBrk.active THEN {UserTmpBrk.addr} ELSE {}

Service == INSTANCE BreakService WITH
  OwnBreaks <- {a \in Addr : Kind[a] \in {"int3", "wvideo"}},
  held <- pc \in {"prompt", "destruct"},
  armed <- Armed,
  due <- arrived = "executed"

\* The run loop keeps the promise of BreakService: the debuggee runs its own
\* instructions, only while it is not held, and executes nothing at an
\* address it reached where the user asked to be stopped (the loop of
\* dbgexec.c:366-511 with its STEP_ONE and FORCE_BREAK passes).
ServiceSpec == Service!Spec

\* A program that ended or faulted does not run on: no later pass runs it, and
\* what the run returned reaches the user, after the end with no task left to
\* run.  The exception is what the code does: a watchpoint that counts as hit
\* takes the place of every other condition (CheckBPs, dbgbrk.c:1747), with
\* break on write at any end of the program.
FatalReported ==
  LET fatal == raised \cap {"TERMINATE", "EXCEPTION"}
      masked == \E i \in DOMAIN BrkList : BrkList[i].watch /\ BrkList[i].hit
  IN  fatal # {} =>
        /\ pc \in {"stopped", "check", "decide", "report", "destruct"}
        /\ pc = "report" /\ ~(fatal \subseteq conditions) =>
             "WATCH" \in conditions /\ masked
        /\ pc = "destruct" /\ "TERMINATE" \in raised /\ have_task =>
             "WATCH" \in conditions

\* The break key stops the program, unless the run it interrupted was the
\* single special instruction of a pass that steps off a breakpoint.
UserBreakStops ==
  [][pc = "decide" /\ pc' = "top" /\ "USER" \in raised
       => how = "STEPBREAK" /\ es = "STEP_ONE"]_vars

WatchesPlainly ==
  \E i \in DOMAIN BrkList : BrkList[i].watch /\ Plain(BrkList[i])

\* No instruction is executed after one that changed the cell a plain
\* watchpoint is on: the change is seen by the single steps (UpdateWPs and
\* the comparison of dbgbrk.c:1677) as well as by the debug registers
\* InsertWPs arms, and stops the program either way.
WatchStops ==
  [][arrived' = "executed" /\ <<ip, data, arrived, wrote>>' # <<ip, data, arrived, wrote>>
       => ~(wrote = "changed" /\ WatchesPlainly)]_vars

\* The comment at dbgbrk.c:1654-1661: a watchpoint fires on a write.
WatchReportsAWrite ==
  pc = "report" /\ "WATCH" \in conditions => wrote # "no"

\* A watchpoint stops the program behind every change, and only behind a write.
WatchesTrue == []WatchReportsAWrite /\ WatchStops

\* A `go' leaves the breakpoint it starts on: it reports a BREAK only after
\* the debuggee has moved (an interrupt that is only simulated never moves).
GoLeavesBreakpoint ==
  pc = "report" /\ tracing = "no" /\ "BREAK" \in conditions =>
    arrived # "no" \/ Kind[ip] = "int"

\* An arrival at a counted breakpoint is counted once; a second time only by
\* the FORCE_BREAK pass, when the debuggee got there by the single step off
\* another breakpoint (dbgexec.c:495-502).  An interrupt that is only
\* simulated is stepped off without moving.
CountedOnce ==
  [][counted' = counted + 1 /\ Kind[ip] # "int"
       => counted = 0 \/ (counted = 1 /\ es = "FORCE_BREAK")]_vars

\* The loop never spins on its own: a command comes back to the prompt, or
\* the debuggee moves on for ever (in a program whose instructions all move,
\* with points that may be hit, refused and stepped off again and again).
Progress == []<>(pc = "prompt") \/ []<><<ip' # ip>>_ip
=============================================================================

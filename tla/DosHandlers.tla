---------------------------- MODULE DosHandlers ----------------------------
(***************************************************************************)
(* The real-mode interrupt handlers of the DOS trap file                   *)
(* (trap_src/dosr/trap.asm): how the debuggee is entered and left, how its *)
(* DOS calls are counted, and how the break key waits until it is safe to  *)
(* stop.  The debuggee runs between any two steps; the timer ticks and     *)
(* the key is pressed at any of them.                                      *)
(*                                                                         *)
(* DebugTask and ExitDebugger, which save and load the registers, are in   *)
(* dbgtrap.asm, which is not in the repository: here they call ClrIntVecs  *)
(* and SetIntVecs and swap the task in DOS, as trap.asm provides.          *)
(***************************************************************************)
EXTENDS Naturals, Sequences

CONSTANTS
  CountSize,   \* values of the byte DOSCount
  MaxDepth,    \* bound: DOS calls of one process in progress
  MaxLost      \* bound: counted DOS calls that never return

ASSUME CountAssumption ==
  /\ CountSize \in Nat /\ MaxDepth \in Nat \ {0} /\ MaxLost \in Nat
  /\ MaxDepth + MaxLost < CountSize

VARIABLES
  UsrInt,        \* the break key was pressed and has not been answered
  DOSCount,      \* DOS calls OSHandler has counted
  SaveInt,       \* SaveIntSS:SaveIntSP, the stack ChkReturn goes back to
  TaskPSP,       \* the debugged process
  CurrPSP,       \* the process that was stopped
  SaveBusyWait,  \* the int 28h handler of whoever does not run
  BusyWaitVec,   \* the int 28h vector
  timer,         \* vector 08h is TimerHandler
  psp,           \* the process DOS takes for the current one
  running,       \* the debugged process and its child
  calls,         \* DOS calls of the current process that OSHandler counted
  pc,            \* where the debuggee is: its own code or DOS, or our handler
  mode,          \* who runs
  cause,         \* what RunProg returned
  loaded,        \* a load has followed the last kill (dbgprog.c)
  request,       \* how the break key can have got into this run (history)
  lost,          \* counted calls that will never return (history)
  deadHook       \* a process ended with int 28h hooked (history)

requests == <<UsrInt, request>>
counts == <<DOSCount, SaveInt, calls, lost>>
tasks == <<TaskPSP, CurrPSP, psp, running>>
busyWait == <<SaveBusyWait, BusyWaitVec, deadHook>>
vars == <<requests, counts, tasks, busyWait, timer, pc, mode, cause, loaded>>

-----------------------------------------------------------------------------
Processes == {"none", "debugger", "task", "child"}

\* A stack position: the frame OSHandler left for the n-th call of a process.
Frame == Processes \X (0..MaxDepth)

\* A counted call: the position pushed with it, whether DOS runs or has
\* called a handler of the debuggee (int 23h, 24h, 28h), and InDos.
Call == [saved : Frame, at : {"dos", "handler"}, busy : BOOLEAN]

Causes == {"none", "BREAK", "USER", "TERMINATE"}

TypeOK ==
  /\ UsrInt \in BOOLEAN
  /\ DOSCount \in 0..(CountSize - 1)
  /\ SaveInt \in Frame
  /\ {TaskPSP, CurrPSP, psp} \subseteq Processes
  /\ {SaveBusyWait, BusyWaitVec} \subseteq {"dos", "task"}
  /\ timer \in BOOLEAN
  /\ running \in {<<>>, <<"task">>, <<"task", "child">>}
  /\ calls \in Seq(Call) /\ Len(calls) <= MaxDepth
  /\ pc \in {"user", "ChkReturn", "DoIntTask"}
  /\ mode \in {"debugger", "task", "reentered"}
  /\ cause \in Causes
  /\ loaded \in BOOLEAN
  /\ request \in {"none", "key", "resumed"}
  /\ lost \in 0..MaxLost
  /\ deadHook \in BOOLEAN

\* InitVectors; no program is loaded.
Init ==
  /\ UsrInt = FALSE /\ DOSCount = 0 /\ SaveInt = <<"none", 0>>
  /\ TaskPSP = "none" /\ CurrPSP = "debugger" /\ psp = "debugger"
  /\ SaveBusyWait = "dos" /\ BusyWaitVec = "dos" /\ timer = FALSE
  /\ running = <<>> /\ calls = <<>> /\ pc = "user"
  /\ mode = "debugger" /\ cause = "none" /\ loaded = FALSE
  /\ request = "none" /\ lost = 0 /\ deadHook = FALSE

Top == calls[Len(calls)]
SetTop(c) == [calls EXCEPT ![Len(calls)] = c]

InDos == \E i \in DOMAIN calls : calls[i].busy

\* The debuggee executes its own code, or is in a DOS call.
DosRuns == calls # <<>> /\ Top.at = "dos"
InUser == mode = "task" /\ pc = "user" /\ ~DosRuns
InCall == mode = "task" /\ pc = "user" /\ DosRuns

SwapBusyWait == BusyWaitVec' = SaveBusyWait /\ SaveBusyWait' = BusyWaitVec

-----------------------------------------------------------------------------
(* Entering and leaving the debuggee. *)

\* Mutant of NoRequest: a pending request survives.
NoRequestKept == UNCHANGED UsrInt
NoRequest == UsrInt' = FALSE

\* SetIntVecs and SetUsrTask.  Vectors 03h, 05h, 15h, 20h, 21h and 27h are ours
\* exactly while the debuggee runs, so they need no variable.
SetIntVecs == SwapBusyWait /\ psp' = CurrPSP

\* RunProg and ExitDebugger.
RunProg ==
  /\ mode = "debugger" /\ loaded /\ TaskPSP # "none"
  /\ NoRequest
  /\ request' = IF pc = "DoIntTask" THEN "resumed" ELSE "none"
  /\ SetIntVecs
  /\ mode' = "task" /\ cause' = "none"
  /\ UNCHANGED <<counts, TaskPSP, CurrPSP, running, deadHook, timer, pc, loaded>>

\* Mutants of ClrIntVecs: int 28h is left alone; the stopped process is taken
\* for the debugged one.
ClrIntVecsNoSwap(current) ==
  CurrPSP' = current /\ psp' = "debugger" /\ UNCHANGED <<SaveBusyWait, BusyWaitVec>>
ClrIntVecsTask(current) ==
  CurrPSP' = TaskPSP /\ psp' = "debugger" /\ SwapBusyWait

\* ClrIntVecs and SetDbgTask, when DOS takes `current' for the process.
ClrIntVecs(current) ==
  CurrPSP' = current /\ psp' = "debugger" /\ SwapBusyWait

\* DebugTask, EnterDebugger and the end of RunProg.
DebugTask(trap, current) ==
  /\ ClrIntVecs(current)
  /\ mode' = "debugger" /\ cause' = trap

\* A breakpoint, a step, a fault.
Trap ==
  /\ InUser
  /\ DebugTask("BREAK", psp)
  /\ UNCHANGED <<requests, counts, TaskPSP, running, deadHook, timer, pc, loaded>>

-----------------------------------------------------------------------------
(* The break key. *)

\* UsrIntHandler, for PrtSc and SysReq; its vectors are ours only while the
\* debuggee runs.
UsrIntHandler ==
  /\ mode = "task"
  /\ UsrInt' = TRUE /\ request' = "key"
  /\ UNCHANGED <<counts, tasks, busyWait, timer, pc, mode, cause, loaded>>

\* Int 23h: DOS reports Ctrl-C to the current process.  The vector stays ours
\* when the debugger calls DOS.
SetBreak ==
  /\ InCall \/ (mode = "debugger" /\ TaskPSP # "none")
  /\ UsrInt' = TRUE
  /\ request' = IF InCall THEN "key" ELSE request
  /\ UNCHANGED <<counts, tasks, busyWait, timer, pc, mode, cause, loaded>>

\* TimerHandler with a request it may answer, and DoIntTask.  Vector 08h is
\* ours while the debugger runs as well: a request that is still pending
\* there enters the debugger a second time, on a stack that is in use.
TimerHandler ==
  /\ timer /\ UsrInt /\ ~InDos
  /\ \/ /\ mode = "task"
        /\ UsrInt' = FALSE
        /\ DebugTask("USER", psp)
        /\ UNCHANGED <<TaskPSP, running, deadHook>>
     \/ /\ mode = "debugger"
        /\ mode' = "reentered"
        /\ UNCHANGED <<UsrInt, tasks, busyWait, cause>>
  /\ UNCHANGED <<request, counts, timer, pc, loaded>>

-----------------------------------------------------------------------------
(* The debuggee's DOS calls. *)

\* The stack position a call keeps; the mutant has overwritten it already.
OuterStackLost == <<psp, Len(calls) + 1>>
OuterStack == SaveInt

\* OSHandler, for every function but EXEC and the ends of a program.
OSHandler ==
  /\ InUser /\ Len(calls) < MaxDepth
  /\ DOSCount' = (DOSCount + 1) % CountSize
  /\ SaveInt' = <<psp, Len(calls) + 1>>
  /\ calls' = Append(calls, [saved |-> OuterStack, at |-> "dos", busy |-> TRUE])
  /\ UNCHANGED <<lost, requests, tasks, busyWait, timer, pc, mode, cause, loaded>>

\* DOS calls a handler of the debuggee, with InDos set (int 28h) or lowered
\* (int 24h), and the handler returns.
CallHandler ==
  /\ InCall
  /\ \E busy \in BOOLEAN : calls' = SetTop([Top EXCEPT !.at = "handler", !.busy = busy])
  /\ UNCHANGED <<DOSCount, SaveInt, lost, requests, tasks, busyWait, timer, pc, mode, cause, loaded>>

HandlerReturn ==
  /\ InUser /\ calls # <<>>
  /\ calls' = SetTop([Top EXCEPT !.at = "dos", !.busy = TRUE])
  /\ UNCHANGED <<DOSCount, SaveInt, lost, requests, tasks, busyWait, timer, pc, mode, cause, loaded>>

\* DOS returns, to the address OSHandler put there.
DosReturn ==
  /\ InCall
  /\ calls' = SetTop([Top EXCEPT !.busy = FALSE])
  /\ pc' = "ChkReturn"
  /\ UNCHANGED <<DOSCount, SaveInt, lost, requests, tasks, busyWait, timer, mode, cause, loaded>>

\* The count of calls is lowered, and a request is answered at the outermost.
\* Mutants: it is lowered twice, or only at the outermost; the count is not
\* looked at; the request is not.
LowerTwice == DOSCount' = DOSCount - 2
LowerOutermost == DOSCount' = IF Len(calls) = 1 THEN 0 ELSE DOSCount
Lower == DOSCount' = (DOSCount + CountSize - 1) % CountSize
AnswerAny == UsrInt
AnswerNever == FALSE
Answer == DOSCount' = 0 /\ UsrInt

\* ChkReturn: back to the debuggee's stack, and on to DoIntTask if a request
\* waits and this was the outermost call.  Interrupts are enabled here.
ChkReturn ==
  /\ mode = "task" /\ pc = "ChkReturn"
  /\ SaveInt' = Top.saved
  /\ calls' = SubSeq(calls, 1, Len(calls) - 1)
  /\ Lower
  /\ pc' = IF Answer THEN "DoIntTask" ELSE "user"
  /\ UNCHANGED <<lost, requests, tasks, busyWait, timer, mode, cause, loaded>>

\* DoIntTask reached from ChkReturn.
DoIntTask ==
  /\ mode = "task" /\ pc = "DoIntTask"
  /\ UsrInt' = FALSE /\ pc' = "user"
  /\ DebugTask("USER", psp)
  /\ UNCHANGED <<request, counts, TaskPSP, running, deadHook, timer, loaded>>

\* The debuggee hooks int 28h.
HookBusyWait ==
  /\ InUser /\ psp = "task"
  /\ BusyWaitVec' = "task"
  /\ UNCHANGED <<SaveBusyWait, deadHook, requests, counts, tasks, timer, pc, mode, cause, loaded>>

-----------------------------------------------------------------------------
(* Processes: EXEC, the ends of a program, load and kill. *)

\* AX=4B00h is not counted.
Exec ==
  /\ InUser /\ psp = "task" /\ running = <<"task">> /\ calls = <<>>
  /\ running' = <<"task", "child">> /\ psp' = "child"
  /\ UNCHANGED <<requests, counts, TaskPSP, CurrPSP, busyWait, timer, pc, mode, cause, loaded>>

\* The calls in progress, of a process that is gone, will not return.
Drop ==
  /\ lost + Len(calls) <= MaxLost
  /\ lost' = lost + Len(calls) /\ calls' = <<>>
  /\ UNCHANGED <<DOSCount, SaveInt>>

\* DOS ends the child and its parent goes on.
ChildEnds ==
  /\ running = <<"task", "child">>
  /\ running' = <<"task">> /\ psp' = "task"
  /\ Drop
  /\ UNCHANGED <<requests, TaskPSP, CurrPSP, busyWait, timer, pc, mode, cause, loaded>>

\* ProgTerminate, for int 20h and 27h and for int 21h with AH=0, 31h or 4Ch:
\* the debugged process is stopped in front of it.  Of another process all of
\* them go on to DOS's int 21h, where AH, which int 20h and 27h do not use,
\* chooses the function.
ProgTerminate(intr, function) ==
  /\ InUser /\ (intr = "21h" => function = "end")
  /\ IF psp = TaskPSP
     THEN /\ DebugTask("TERMINATE", psp)
          /\ UNCHANGED <<requests, counts, TaskPSP, running, deadHook, timer, pc, loaded>>
     ELSE IF function = "end" THEN ChildEnds
     ELSE UNCHANGED vars

\* A critical error in a DOS call: DOS ends the process.
DosAborts ==
  /\ InCall
  /\ IF psp = "child" THEN ChildEnds
     ELSE \* debugprogend
          /\ TaskPSP' = "none" /\ running' = <<>>
          /\ deadHook' = (deadHook \/ BusyWaitVec = "task")
          /\ Drop
          /\ DebugTask("TERMINATE", "debugger")
          /\ UNCHANGED <<requests, timer, pc, loaded>>

\* DOSLoadProg assumes that there will be no task; the mutant keeps the old.
NoTaskKept == UNCHANGED TaskPSP
NoTask == TaskPSP' = "none"

\* DOSLoadProg: int 28h is swapped here although no run precedes it.
DOSLoadProg(ok) ==
  /\ mode = "debugger" /\ ~loaded
  /\ loaded' = TRUE
  /\ IF ok
     THEN /\ TaskPSP' = "task" /\ running' = <<"task">>
          /\ ClrIntVecs("task")
          /\ timer' = TRUE
     ELSE /\ NoTask
          /\ UNCHANGED <<CurrPSP, psp, running, SaveBusyWait, BusyWaitVec, timer>>
  /\ UNCHANGED <<requests, counts, deadHook, pc, mode, cause>>

\* EndUser: the vectors are put back and the processes ended one by one, from
\* the stopped one up.  SaveBusyWait and DOSCount stay.
EndUser ==
  /\ timer' = FALSE /\ BusyWaitVec' = "dos"
  /\ deadHook' = (deadHook \/ SaveBusyWait = "task")
  /\ psp' = "debugger" /\ running' = <<>> /\ pc' = "user"
  /\ Drop
  /\ UNCHANGED <<TaskPSP, CurrPSP, SaveBusyWait>>

\* ReqProg_kill.  The debugger loads a program, or none, after every kill.
ReqProg_kill ==
  /\ mode = "debugger" /\ loaded
  /\ loaded' = FALSE
  /\ IF TaskPSP # "none" THEN EndUser
     ELSE UNCHANGED <<timer, busyWait, tasks, counts, pc>>
  /\ UNCHANGED <<requests, mode, cause>>

Debuggee ==
  \/ Trap \/ OSHandler \/ CallHandler \/ HandlerReturn \/ DosReturn
  \/ ChkReturn \/ DoIntTask \/ HookBusyWait
  \/ Exec \/ DosAborts
  \/ \E intr \in {"20h", "27h", "21h"}, function \in {"end", "other"} :
       ProgTerminate(intr, function)

Debugger ==
  \/ RunProg \/ ReqProg_kill
  \/ \E ok \in BOOLEAN : DOSLoadProg(ok)

Interrupts == UsrIntHandler \/ SetBreak \/ TimerHandler

Next == Debuggee \/ Debugger \/ Interrupts

Spec == Init /\ [][Next]_vars

\* The timer keeps ticking; every handler and every DOS call returns, whatever
\* calls it makes before.
Fairness ==
  /\ WF_vars(TimerHandler) /\ WF_vars(ChkReturn) /\ WF_vars(DoIntTask)
  /\ \A depth \in 1..MaxDepth :
       SF_vars(HandlerReturn /\ Len(calls) = depth) /\ SF_vars(DosReturn /\ Len(calls) = depth)

FairSpec == Spec /\ Fairness

-----------------------------------------------------------------------------
(* Properties. *)

\* Every return from DOS finds the stack of its own call: SaveInt is the
\* position of the innermost call, and each call keeps the one outside it.
\* DOSCount is the number of calls in progress and of those that never return;
\* it never counts a call out that it has not counted in.
StacksNest ==
  LET owner == running[Len(running)]
  IN  /\ calls # <<>> => running # <<>> /\ SaveInt = <<owner, Len(calls)>>
      /\ \A i \in DOMAIN calls : i > 1 => calls[i].saved = <<owner, i - 1>>
CountIsDepth == DOSCount = Len(calls) + lost
CallsNest == StacksNest /\ CountIsDepth

\* DOS takes the debugger for the current process exactly while the debugger
\* runs, and after a stop the process that was stopped goes on, be it the
\* child (CurrPSP).  What a kill ends is alive.
RightProcess ==
  /\ mode = "debugger" => psp = "debugger"
  /\ mode = "task" => running # <<>> /\ psp = running[Len(running)]
  /\ mode = "debugger" /\ loaded /\ TaskPSP # "none" =>
       running # <<>> /\ CurrPSP = running[Len(running)]

\* Nor does the debugger run with the debuggee's idle handler, unless a
\* process has ended that had one: SaveBusyWait is not reset by EndUser, and
\* the next load swaps it in.
BusyWaitOurs == mode = "debugger" /\ ~deadHook => BusyWaitVec = "dos"
DebuggerApart == RightProcess /\ BusyWaitOurs

\* The break key does not stop the debuggee inside DOS.
OutsideDos ==
  [][mode = "task" /\ cause' = "USER" => ~InDos]_vars

\* RunProg leaves "no pending user interrupts" (trap.asm:243): what stops a
\* run as the break key was pressed in this run.
NoPendingRequest ==
  [][mode = "task" /\ cause' = "USER" => request = "key"]_vars

\* The same, but for a run that is resumed between ChkReturn and DoIntTask,
\* where the timer has answered the request already.
RequestAnsweredOnce ==
  [][mode = "task" /\ cause' = "USER" => request # "none"]_vars

\* A pressed break key stops the debuggee, however its DOS calls and the timer
\* meet; after a call that never returned only the timer could.
BreakHeard == mode = "task" /\ UsrInt ~> mode # "task" \/ lost > 0
=============================================================================

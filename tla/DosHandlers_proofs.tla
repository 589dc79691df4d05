------------------------- MODULE DosHandlers_proofs -------------------------
(***************************************************************************)
(* Proofs about DosHandlers for every depth of calls and any number of     *)
(* lost ones below the width of DOSCount.                                  *)
(***************************************************************************)
EXTENDS DosHandlers, SequenceTheorems, TLAPS

\* Where a debuggee can be when it is stopped, killed or gone.
Places ==
  /\ pc = "ChkReturn" => calls # <<>>
  /\ pc = "DoIntTask" => calls = <<>>
  /\ calls # <<>> => running # <<>>
  /\ TaskPSP \in {"none", "task"}
  /\ TaskPSP = "none" => running = <<>> /\ pc = "user"
  /\ mode = "debugger" /\ ~loaded => running = <<>> /\ calls = <<>> /\ pc = "user"
  /\ mode = "task" => loaded /\ TaskPSP # "none" /\ cause = "none"

\* StacksNest, for a table of calls, its owner and the position kept for it.
Nested(cs, owner, position) ==
  /\ cs # <<>> => position = <<owner, Len(cs)>>
  /\ \A i \in DOMAIN cs : i > 1 => cs[i].saved = <<owner, i - 1>>

Owner == running[Len(running)]

Inv == TypeOK /\ CountIsDepth /\ StacksNest /\ RightProcess /\ Places

-----------------------------------------------------------------------------
(***************************************************************************)
(* The three ways the calls in progress change.                            *)
(***************************************************************************)

\* A call is made.
LEMMA CallMade ==
  ASSUME NEW cs \in Seq(Call), NEW owner, NEW position, Nested(cs, owner, position),
         NEW c \in Call, c.saved = position
  PROVE  /\ Append(cs, c) \in Seq(Call)
         /\ Len(Append(cs, c)) = Len(cs) + 1
         /\ Append(cs, c) # <<>>
         /\ Nested(Append(cs, c), owner, <<owner, Len(cs) + 1>>)
<1> DEFINE m == Append(cs, c)
<1>1. /\ m \in Seq(Call)
      /\ Len(m) = Len(cs) + 1
      /\ \A i \in 1..Len(cs) : m[i] = cs[i]
      /\ m[Len(cs) + 1] = c
  BY AppendProperties
<1>2. /\ Len(cs) \in Nat /\ DOMAIN cs = 1..Len(cs)
      /\ DOMAIN m = 1..Len(cs) + 1
  BY <1>1, LenProperties
<1>3. m # <<>>
  BY <1>1, <1>2, EmptySeq
<1>4. ASSUME NEW i \in DOMAIN m, i > 1
      PROVE  m[i].saved = <<owner, i - 1>>
  <2>1. CASE i \in 1..Len(cs)
    BY <2>1, <1>1, <1>2, <1>4 DEF Nested
  <2>2. CASE i = Len(cs) + 1
    <3>1. cs # <<>>
      BY <2>2, <1>4, EmptySeq
    <3> QED
      BY <3>1, <2>2, <1>1, <1>2 DEF Nested
  <2> QED
    BY <2>1, <2>2, <1>2
<1> QED
  BY <1>1, <1>3, <1>4 DEF Nested

\* The innermost call returns.
LEMMA CallReturned ==
  ASSUME NEW cs \in Seq(Call), cs # <<>>,
         NEW owner, NEW position, Nested(cs, owner, position)
  PROVE  LET m == SubSeq(cs, 1, Len(cs) - 1)
         IN  /\ m \in Seq(Call)
             /\ Len(m) = Len(cs) - 1
             /\ Nested(m, owner, cs[Len(cs)].saved)
<1> DEFINE m == SubSeq(cs, 1, Len(cs) - 1)
<1>1. Len(cs) \in Nat \ {0} /\ DOMAIN cs = 1..Len(cs)
  BY EmptySeq, LenProperties
<1>2. /\ m \in Seq(Call)
      /\ Len(m) = Len(cs) - 1
      /\ \A i \in 1..(Len(cs) - 1) : m[i] = cs[i]
  <2>1. /\ 1 \in 1..Len(cs) + 1 /\ Len(cs) - 1 \in 0..Len(cs)
        /\ (Len(cs) - 1) - 1 + 1 = Len(cs) - 1
    BY <1>1
  <2>2. \A i \in 1..(Len(cs) - 1) : 1 + i - 1 = i
    BY <1>1
  <2> QED
    BY <2>1, <2>2, <1>1, SubSeqProperties
<1>3. DOMAIN m = 1..(Len(cs) - 1)
  BY <1>2, LenProperties
<1>4. m # <<>> => cs[Len(cs)].saved = <<owner, Len(m)>>
  BY <1>1, <1>2, EmptySeq DEF Nested
<1>5. \A i \in DOMAIN m : i > 1 => m[i].saved = <<owner, i - 1>>
  BY <1>1, <1>2, <1>3 DEF Nested
<1> QED
  BY <1>2, <1>4, <1>5 DEF Nested

\* The innermost call goes on: DOS calls back, comes back, or is done.
LEMMA TopChanged ==
  ASSUME NEW cs \in Seq(Call), cs # <<>>,
         NEW owner, NEW position, Nested(cs, owner, position),
         NEW c \in Call, c.saved = cs[Len(cs)].saved
  PROVE  LET m == [cs EXCEPT ![Len(cs)] = c]
         IN  /\ m \in Seq(Call)
             /\ Len(m) = Len(cs)
             /\ m # <<>>
             /\ Nested(m, owner, position)
<1> DEFINE m == [cs EXCEPT ![Len(cs)] = c]
<1>1. Len(cs) \in Nat \ {0} /\ DOMAIN cs = 1..Len(cs)
  BY EmptySeq, LenProperties
<1>2. m \in Seq(Call) /\ Len(m) = Len(cs)
  BY <1>1, ExceptSeq
<1>3. m # <<>>
  BY <1>1, <1>2, EmptySeq
<1>4. \A i \in DOMAIN m : m[i].saved = cs[i].saved
  BY <1>1
<1> QED
  BY <1>1, <1>2, <1>3, <1>4 DEF Nested

-----------------------------------------------------------------------------
(***************************************************************************)
(* The invariant is inductive: one lemma per group of actions.             *)
(***************************************************************************)

\* StacksNest is Nested of the calls in progress.
LEMMA NestedCalls == StacksNest <=>
  /\ Nested(calls, Owner, SaveInt)
  /\ calls # <<>> => running # <<>>
BY DEF StacksNest, Nested, Owner

\* Steps that leave the calls and their count alone.
LEMMA CallsKept ==
  ASSUME Inv, UNCHANGED <<counts, running>>
  PROVE  CountIsDepth' /\ StacksNest'
BY DEF Inv, CountIsDepth, StacksNest, counts

\* The calls in progress are given up.
LEMMA CallsDropped ==
  ASSUME Inv, Drop
  PROVE  /\ CountIsDepth' /\ StacksNest'
         /\ calls' = <<>> /\ lost' \in 0..MaxLost
         /\ DOSCount' = DOSCount /\ SaveInt' = SaveInt
<1>1. calls \in Seq(Call) /\ lost \in 0..MaxLost /\ MaxLost \in Nat
  BY CountAssumption DEF Inv, TypeOK
<1>2. Len(calls) \in Nat
  BY <1>1, LenProperties
<1>3. calls' = <<>> /\ lost' \in 0..MaxLost /\ DOSCount' = DOSCount /\ SaveInt' = SaveInt
  BY <1>1, <1>2 DEF Drop
<1>4. CountIsDepth'
  BY <1>1, <1>2, <1>3 DEF Drop, Inv, CountIsDepth
<1> QED
  BY <1>3, <1>4 DEF StacksNest

\* The debugger's steps.
LEMMA DebuggerKeepsInv ==
  ASSUME Inv, Debugger
  PROVE  Inv'
<1> USE DEF Inv
<1>1. CASE RunProg
  <2>1. UNCHANGED <<counts, running>>
    BY <1>1 DEF RunProg
  <2>2. TypeOK'
    BY <1>1 DEF RunProg, NoRequest, SetIntVecs, SwapBusyWait, TypeOK, counts, Causes
  <2>3. RightProcess' /\ Places'
    BY <1>1 DEF RunProg, SetIntVecs, RightProcess, Places, counts
  <2> QED
    BY <2>1, <2>2, <2>3, CallsKept
<1>2. CASE ReqProg_kill /\ TaskPSP = "none"
  <2>1. UNCHANGED <<counts, running>>
    BY <1>2 DEF ReqProg_kill, tasks
  <2>2. TypeOK' /\ RightProcess' /\ Places'
    BY <1>2 DEF ReqProg_kill, tasks, counts, requests, busyWait, TypeOK, RightProcess, Places
  <2> QED
    BY <2>1, <2>2, CallsKept
<1>3. CASE ReqProg_kill /\ TaskPSP # "none"
  <2>1. EndUser /\ Drop
    BY <1>3 DEF ReqProg_kill, EndUser
  <2>2. CountIsDepth' /\ StacksNest' /\ calls' = <<>> /\ lost' \in 0..MaxLost
        /\ DOSCount' = DOSCount /\ SaveInt' = SaveInt
    BY <2>1, CallsDropped
  <2>3. calls' \in Seq(Call) /\ Len(calls') <= MaxDepth
    BY <2>2, EmptySeq, CountAssumption
  <2>4. TypeOK'
    BY <1>3, <2>1, <2>2, <2>3 DEF ReqProg_kill, EndUser, requests, TypeOK, Processes
  <2>5. RightProcess' /\ Places'
    BY <1>3, <2>1, <2>2 DEF ReqProg_kill, EndUser, RightProcess, Places
  <2> QED
    BY <2>2, <2>4, <2>5
<1>4. ASSUME NEW ok \in BOOLEAN, DOSLoadProg(ok)
      PROVE  Inv'
  <2>1. calls = <<>> /\ UNCHANGED counts
    BY <1>4 DEF DOSLoadProg, Places
  <2>2. CountIsDepth' /\ StacksNest'
    BY <2>1 DEF CountIsDepth, StacksNest, counts
  <2>3. TypeOK'
    BY <1>4 DEF DOSLoadProg, NoTask, ClrIntVecs, SwapBusyWait, requests, counts, TypeOK, Processes
  <2>4. RightProcess' /\ Places'
    BY <1>4, <2>1 DEF DOSLoadProg, NoTask, ClrIntVecs, RightProcess, Places, counts
  <2> QED
    BY <2>2, <2>3, <2>4
<1> QED
  BY <1>1, <1>2, <1>3, <1>4 DEF Debugger

\* The break key and the timer.
LEMMA InterruptsKeepInv ==
  ASSUME Inv, Interrupts
  PROVE  Inv'
<1> USE DEF Inv
<1>1. CASE UsrIntHandler \/ SetBreak
  <2>1. UNCHANGED <<counts, tasks, busyWait, timer, pc, mode, cause, loaded>>
    BY <1>1 DEF UsrIntHandler, SetBreak
  <2>2. UsrInt' \in BOOLEAN /\ request' \in {"none", "key", "resumed"}
    BY <1>1 DEF UsrIntHandler, SetBreak, TypeOK
  <2>3. TypeOK' /\ RightProcess' /\ Places'
    BY <2>1, <2>2 DEF counts, tasks, busyWait, TypeOK, RightProcess, Places
  <2> QED
    BY <2>1, <2>3, CallsKept DEF tasks
<1>2. CASE TimerHandler
  <2>1. UNCHANGED <<request, counts, running, TaskPSP, timer, pc, loaded, deadHook>>
    BY <1>2 DEF TimerHandler, tasks, busyWait
  <2>2. TypeOK'
    BY <1>2, <2>1 DEF TimerHandler, DebugTask, ClrIntVecs, SwapBusyWait, tasks, busyWait,
                      counts, TypeOK, Processes, Causes
  <2>3. RightProcess'
    <3>1. CASE mode = "task" /\ DebugTask("USER", psp)
      BY <3>1, <2>1 DEF DebugTask, ClrIntVecs, RightProcess
    <3>2. CASE mode' = "reentered" /\ UNCHANGED tasks
      BY <3>2, <2>1 DEF RightProcess
    <3> QED
      BY <1>2, <3>1, <3>2 DEF TimerHandler
  <2>4. Places'
    <3>1. UNCHANGED <<calls, running, TaskPSP, pc, loaded>>
      BY <2>1 DEF counts
    <3>2. mode' # "task" /\ (mode' = "debugger" => mode = "task")
      BY <1>2 DEF TimerHandler, DebugTask
    <3>3. mode' = "debugger" => loaded'
      BY <3>1, <3>2 DEF Places
    <3> QED
      BY <3>1, <3>2, <3>3 DEF Places
  <2> QED
    BY <2>1, <2>2, <2>3, <2>4, CallsKept
<1> QED
  BY <1>1, <1>2 DEF Interrupts

\* The debuggee is stopped where it is.
LEMMA StopKeepsInv ==
  ASSUME Inv, mode = "task", NEW trap \in Causes, DebugTask(trap, psp),
         UNCHANGED <<counts, TaskPSP, running, deadHook, timer, loaded, request>>,
         UsrInt' \in BOOLEAN,
         pc' = pc \/ (pc = "DoIntTask" /\ pc' = "user")
  PROVE  Inv'
<1> USE DEF Inv
<1>1. TypeOK'
  BY DEF DebugTask, ClrIntVecs, SwapBusyWait, counts, TypeOK, Processes
<1>2. RightProcess'
  BY DEF DebugTask, ClrIntVecs, RightProcess
<1>3. UNCHANGED <<calls, running, TaskPSP, loaded>> /\ mode' = "debugger" /\ loaded /\ TaskPSP # "none"
  BY DEF counts, DebugTask, Places
<1>4. Places'
  BY <1>3 DEF Places
<1> QED
  BY <1>1, <1>2, <1>4, CallsKept

\* DOS ends the child.
LEMMA ChildEndsKeepsInv ==
  ASSUME Inv, mode = "task", pc = "user", ChildEnds
  PROVE  Inv'
<1> USE DEF Inv
<1>1. /\ CountIsDepth' /\ StacksNest' /\ calls' = <<>> /\ lost' \in 0..MaxLost
      /\ DOSCount' = DOSCount /\ SaveInt' = SaveInt
  BY CallsDropped DEF ChildEnds
<1>2. calls' \in Seq(Call) /\ Len(calls') <= MaxDepth
  BY <1>1, EmptySeq, CountAssumption
<1>3. TypeOK'
  BY <1>1, <1>2 DEF ChildEnds, requests, busyWait, TypeOK, Processes
<1>4. RightProcess' /\ Places'
  BY <1>1 DEF ChildEnds, RightProcess, Places
<1> QED
  BY <1>1, <1>3, <1>4

\* Steps of the debuggee that stop it or end a process.
LEMMA EndsKeepInv ==
  ASSUME Inv,
         \/ Trap \/ DoIntTask \/ Exec \/ DosAborts \/ HookBusyWait
         \/ \E intr \in {"20h", "27h", "21h"}, function \in {"end", "other"} :
              ProgTerminate(intr, function)
  PROVE  Inv'
<1> USE DEF Inv
<1>1. CASE Trap
  BY <1>1, StopKeepsInv DEF Trap, InUser, requests, TypeOK, Causes
<1>2. CASE DoIntTask
  BY <1>2, StopKeepsInv DEF DoIntTask, TypeOK, Causes
<1>3. CASE Exec
  <2>1. CountIsDepth' /\ StacksNest'
    BY <1>3 DEF Exec, counts, CountIsDepth, StacksNest
  <2>2. TypeOK'
    BY <1>3 DEF Exec, requests, counts, busyWait, TypeOK, Processes
  <2>3. RightProcess' /\ Places'
    BY <1>3 DEF Exec, InUser, counts, RightProcess, Places
  <2> QED
    BY <2>1, <2>2, <2>3
<1>4. CASE HookBusyWait
  <2>1. UNCHANGED <<SaveBusyWait, deadHook, requests, counts, tasks, timer, pc, mode, cause, loaded>>
        /\ BusyWaitVec' = "task"
    BY <1>4 DEF HookBusyWait
  <2>2. TypeOK' /\ RightProcess' /\ Places'
    BY <2>1 DEF requests, counts, tasks, TypeOK, RightProcess, Places
  <2> QED
    BY <2>1, <2>2, CallsKept DEF tasks
<1>5. CASE DosAborts /\ psp = "child"
  BY <1>5, ChildEndsKeepsInv DEF DosAborts, InCall, TypeOK
<1>6. CASE DosAborts /\ psp # "child"
  <2>1. /\ mode = "task" /\ pc = "user" /\ Drop /\ DebugTask("TERMINATE", "debugger")
        /\ TaskPSP' = "none" /\ running' = <<>>
        /\ deadHook' = (deadHook \/ BusyWaitVec = "task")
        /\ UNCHANGED <<requests, timer, pc, loaded>>
    BY <1>6 DEF DosAborts, InCall
  <2>2. /\ CountIsDepth' /\ StacksNest' /\ calls' = <<>> /\ lost' \in 0..MaxLost
        /\ DOSCount' = DOSCount /\ SaveInt' = SaveInt
    BY <2>1, CallsDropped
  <2>3. calls' \in Seq(Call) /\ Len(calls') <= MaxDepth
    BY <2>2, EmptySeq, CountAssumption
  <2>4. TypeOK'
    BY <2>1, <2>2, <2>3 DEF DebugTask, ClrIntVecs, SwapBusyWait, requests, TypeOK, Processes, Causes
  <2>5. RightProcess' /\ Places'
    BY <2>1, <2>2 DEF DebugTask, ClrIntVecs, RightProcess, Places
  <2> QED
    BY <2>2, <2>4, <2>5
<1>7. ASSUME NEW intr, NEW function, ProgTerminate(intr, function)
      PROVE  Inv'
  <2>1. mode = "task" /\ pc = "user"
    BY <1>7 DEF ProgTerminate, InUser
  <2>2. CASE psp = TaskPSP
    BY <1>7, <2>1, <2>2, StopKeepsInv DEF ProgTerminate, requests, TypeOK, Causes
  <2>3. CASE psp # TaskPSP /\ function = "end"
    BY <1>7, <2>1, <2>3, ChildEndsKeepsInv DEF ProgTerminate
  <2>4. CASE psp # TaskPSP /\ function # "end"
    <3>1. UNCHANGED vars
      BY <1>7, <2>4 DEF ProgTerminate
    <3> USE DEF vars
    <3>2. TypeOK' /\ RightProcess' /\ Places'
      BY <3>1 DEF requests, counts, tasks, busyWait, TypeOK, RightProcess, Places
    <3> QED
      BY <3>1, <3>2, CallsKept DEF tasks
  <2> QED
    BY <2>2, <2>3, <2>4
<1> QED
  BY <1>1, <1>2, <1>3, <1>4, <1>5, <1>6, <1>7

\* A DOS call is made.
LEMMA OSHandlerKeepsInv ==
  ASSUME Inv, OSHandler
  PROVE  Inv'
<1> USE DEF Inv
<1>1. /\ calls \in Seq(Call) /\ SaveInt \in Frame /\ psp \in Processes
      /\ Len(calls) \in Nat /\ Len(calls) < MaxDepth
      /\ DOSCount \in 0..(CountSize - 1) /\ lost \in 0..MaxLost
      /\ CountSize \in Nat /\ MaxDepth \in Nat /\ MaxLost \in Nat
      /\ MaxDepth + MaxLost < CountSize
  BY LenProperties, CountAssumption DEF OSHandler, TypeOK
<1>2. /\ mode = "task" /\ pc = "user" /\ running # <<>> /\ psp = Owner
      /\ Nested(calls, Owner, SaveInt)
  BY NestedCalls DEF OSHandler, InUser, RightProcess, Owner
<1> DEFINE c == [saved |-> SaveInt, at |-> "dos", busy |-> TRUE]
<1>3. /\ c \in Call /\ c.saved = SaveInt
  BY <1>1 DEF Call
<1>4. /\ calls' = Append(calls, c) /\ SaveInt' = <<psp, Len(calls) + 1>>
      /\ DOSCount' = (DOSCount + 1) % CountSize
      /\ UNCHANGED <<lost, requests, tasks, busyWait, timer, pc, mode, cause, loaded>>
  BY DEF OSHandler, OuterStack
<1>5. /\ calls' \in Seq(Call) /\ Len(calls') = Len(calls) + 1 /\ calls' # <<>>
      /\ Nested(calls', Owner, SaveInt')
  BY <1>1, <1>2, <1>3, <1>4, CallMade
<1>6. UNCHANGED <<running, Owner>>
  BY <1>4 DEF tasks, Owner
<1>7. CountIsDepth'
  <2>1. DOSCount = Len(calls) + lost /\ DOSCount + 1 \in 0..(CountSize - 1)
    BY <1>1 DEF CountIsDepth
  <2>2. (DOSCount + 1) % CountSize = DOSCount + 1
    BY <1>1, <2>1
  <2> QED
    BY <1>1, <1>4, <1>5, <2>1, <2>2 DEF CountIsDepth
<1>8. StacksNest'
  BY <1>2, <1>5, <1>6, NestedCalls DEF StacksNest, Nested, Owner
<1>9. SaveInt' \in Frame
  BY <1>1, <1>4 DEF Frame
<1>10. DOSCount' \in 0..(CountSize - 1)
  BY <1>1, <1>4
<1>11. Len(calls') <= MaxDepth
  BY <1>1, <1>5
<1>12. TypeOK'
  BY <1>4, <1>5, <1>9, <1>10, <1>11 DEF requests, tasks, busyWait, TypeOK
<1>13. RightProcess' /\ Places'
  BY <1>2, <1>4, <1>5 DEF tasks, RightProcess, Places
<1> QED
  BY <1>7, <1>8, <1>12, <1>13

\* DOS calls back, gets back, or is done.
LEMMA InnermostKeepsInv ==
  ASSUME Inv, CallHandler \/ HandlerReturn \/ DosReturn
  PROVE  Inv'
<1> USE DEF Inv
<1>1. /\ calls \in Seq(Call) /\ calls # <<>> /\ Len(calls) \in Nat \ {0}
      /\ Top \in Call /\ mode = "task" /\ pc = "user"
  <2>1. calls # <<>> /\ mode = "task" /\ pc = "user"
    BY DEF CallHandler, HandlerReturn, DosReturn, InCall, InUser, DosRuns
  <2>2. calls \in Seq(Call)
    BY DEF TypeOK
  <2>3. Len(calls) \in Nat \ {0}
    BY <2>1, <2>2, EmptySeq
  <2>4. calls[Len(calls)] \in Call
    BY <2>2, <2>3
  <2> QED
    BY <2>1, <2>2, <2>3, <2>4 DEF Top
<1>2. PICK c \in Call : c.saved = calls[Len(calls)].saved /\ calls' = SetTop(c)
  <2>1. CASE CallHandler
    <3>1. PICK busy \in BOOLEAN : calls' = SetTop([Top EXCEPT !.at = "handler", !.busy = busy])
      BY <2>1 DEF CallHandler
    <3> QED
      BY <1>1, <3>1 DEF Call, Top
  <2>2. CASE HandlerReturn
    BY <1>1, <2>2 DEF HandlerReturn, Call, Top
  <2>3. CASE DosReturn
    BY <1>1, <2>3 DEF DosReturn, Call, Top
  <2> QED
    BY <2>1, <2>2, <2>3
<1>3. /\ UNCHANGED <<DOSCount, SaveInt, lost, requests, tasks, busyWait, timer, mode, cause, loaded>>
      /\ pc' \in {"user", "ChkReturn"}
  BY <1>1 DEF CallHandler, HandlerReturn, DosReturn
<1>4. Nested(calls, Owner, SaveInt)
  BY NestedCalls
<1>5. /\ calls' \in Seq(Call) /\ Len(calls') = Len(calls) /\ calls' # <<>>
      /\ Nested(calls', Owner, SaveInt)
  BY <1>1, <1>2, <1>4, TopChanged DEF SetTop
<1>6. CountIsDepth'
  BY <1>3, <1>5 DEF CountIsDepth
<1>7. StacksNest'
  BY <1>1, <1>3, <1>5 DEF StacksNest, Nested, Owner, tasks, Places
<1>8. TypeOK'
  BY <1>3, <1>5 DEF requests, tasks, busyWait, TypeOK
<1>9. RightProcess' /\ Places'
  BY <1>1, <1>3, <1>5 DEF tasks, RightProcess, Places
<1> QED
  BY <1>6, <1>7, <1>8, <1>9

\* Our handler hands a call back to the debuggee.
LEMMA ChkReturnKeepsInv ==
  ASSUME Inv, ChkReturn
  PROVE  Inv'
<1> USE DEF Inv
<1>1. /\ mode = "task" /\ calls # <<>> /\ calls \in Seq(Call)
      /\ Len(calls) \in Nat \ {0} /\ Len(calls) <= MaxDepth
      /\ lost \in 0..MaxLost
      /\ CountSize \in Nat /\ MaxDepth \in Nat /\ MaxLost \in Nat
      /\ MaxDepth + MaxLost < CountSize
  BY EmptySeq, CountAssumption DEF ChkReturn, Places, TypeOK
<1>2. /\ SaveInt' = calls[Len(calls)].saved
      /\ calls' = SubSeq(calls, 1, Len(calls) - 1)
      /\ DOSCount' = (DOSCount + CountSize - 1) % CountSize
      /\ pc' \in {"user", "DoIntTask"} /\ (pc' = "DoIntTask" => DOSCount' = 0)
      /\ UNCHANGED <<lost, requests, tasks, busyWait, timer, mode, cause, loaded>>
  BY DEF ChkReturn, Top, Lower, Answer
<1>3. Nested(calls, Owner, SaveInt)
  BY NestedCalls
<1>4. /\ calls' \in Seq(Call) /\ Len(calls') = Len(calls) - 1
      /\ Nested(calls', Owner, SaveInt')
  BY <1>1, <1>2, <1>3, CallReturned
<1>5. DOSCount = Len(calls) + lost
  BY DEF CountIsDepth
<1>6. DOSCount' = DOSCount - 1
  <2>1. DOSCount - 1 \in 0..(CountSize - 1) /\ CountSize > 0
    BY <1>1, <1>5
  <2>2. ((DOSCount - 1) + CountSize) % CountSize = DOSCount - 1
    BY <2>1, <1>1
  <2>3. DOSCount + CountSize - 1 = (DOSCount - 1) + CountSize
    BY <1>1, <1>5
  <2> QED
    BY <1>2, <2>2, <2>3
<1>7. CountIsDepth'
  <2>1. lost' = lost /\ Len(calls') = Len(calls) - 1
    BY <1>2, <1>4
  <2> QED
    BY <2>1, <1>1, <1>5, <1>6 DEF CountIsDepth
<1>8. StacksNest'
  BY <1>1, <1>2, <1>4 DEF StacksNest, Nested, Owner, tasks, Places
<1>9. pc' = "DoIntTask" => calls' = <<>>
  <2>1. pc' = "DoIntTask" => Len(calls') = 0
    BY <1>1, <1>2, <1>4, <1>5, <1>6
  <2> QED
    BY <1>4, <2>1, EmptySeq
<1>10. calls[Len(calls)] \in Call
  BY <1>1
<1>11. SaveInt' \in Frame
  BY <1>2, <1>10 DEF Call
<1>12. DOSCount' \in 0..(CountSize - 1) /\ Len(calls') <= MaxDepth
  BY <1>1, <1>4, <1>5, <1>6
<1>13. TypeOK'
  BY <1>2, <1>4, <1>11, <1>12 DEF requests, tasks, busyWait, TypeOK
<1>14. RightProcess' /\ Places'
  BY <1>1, <1>2, <1>9 DEF tasks, RightProcess, Places
<1> QED
  BY <1>7, <1>8, <1>13, <1>14

-----------------------------------------------------------------------------
(***************************************************************************)
(* The theorems.                                                           *)
(***************************************************************************)

LEMMA InitInv == Init => Inv
<1> SUFFICES ASSUME Init PROVE Inv
  OBVIOUS
<1>1. calls = <<>> /\ calls \in Seq(Call) /\ Len(calls) = 0
  BY EmptySeq DEF Init
<1>2. TypeOK
  <2>1. 0 \in 0..(CountSize - 1) /\ 0 \in 0..MaxDepth /\ 0 \in 0..MaxLost /\ 0 <= MaxDepth
    BY CountAssumption
  <2>2. SaveInt \in Frame
    BY <2>1 DEF Init, Frame, Processes
  <2> QED
    BY <1>1, <2>1, <2>2 DEF Init, TypeOK, Processes, Causes
<1>3. CountIsDepth /\ StacksNest /\ RightProcess /\ Places
  BY <1>1 DEF Init, CountIsDepth, StacksNest, RightProcess, Places
<1> QED
  BY <1>2, <1>3 DEF Inv

LEMMA NextInv == Inv /\ [Next]_vars => Inv'
<1> SUFFICES ASSUME Inv, [Next]_vars PROVE Inv'
  OBVIOUS
<1>1. CASE Debuggee
  BY <1>1, EndsKeepInv, OSHandlerKeepsInv, InnermostKeepsInv, ChkReturnKeepsInv DEF Debuggee
<1>2. CASE Debugger
  BY <1>2, DebuggerKeepsInv
<1>3. CASE Interrupts
  BY <1>3, InterruptsKeepInv
<1>4. CASE UNCHANGED vars
  <2>1. UNCHANGED <<requests, counts, tasks, busyWait, timer, pc, mode, cause, loaded>>
    BY <1>4 DEF vars
  <2>2. TypeOK' /\ RightProcess' /\ Places'
    BY <2>1 DEF Inv, requests, counts, tasks, busyWait, TypeOK, RightProcess, Places
  <2> QED
    BY <2>1, <2>2, CallsKept DEF Inv, tasks
<1> QED
  BY <1>1, <1>2, <1>3, <1>4 DEF Next

\* Inv holds of every behaviour: the other theorems follow from it.
THEOREM Invariance == Spec => []Inv
<1>1. Init => Inv
  BY InitInv
<1>2. Inv /\ [Next]_vars => Inv'
  BY NextInv
<1> QED
  BY <1>1, <1>2, PTL DEF Spec

\* Types, among them the eight bits of DOSCount (trap.asm).
THEOREM TypeCorrect == Spec => []TypeOK
BY Invariance, PTL DEF Inv

\* ChkReturn always goes back to the stack of the call that returns, and
\* DOSCount is the number of calls in progress or lost.
THEOREM CallsBalanced == Spec => []CallsNest
BY Invariance, PTL DEF Inv, CallsNest

\* Where the debugger's idle handler is while the int 28h handlers are swapped:
\* in the vector when the debugger runs, kept in SaveBusyWait when the debuggee
\* does; both are DOS's when there is nothing to swap back.
HandlersSwapped ==
  ~deadHook =>
    /\ mode = "debugger" => BusyWaitVec = "dos"
    /\ mode = "task" => SaveBusyWait = "dos"
    /\ mode = "debugger" /\ (~loaded \/ TaskPSP = "none") => SaveBusyWait = "dos"

LEMMA HandlersStaySwapped == Inv /\ HandlersSwapped /\ [Next]_vars => HandlersSwapped'
<1> SUFFICES ASSUME Inv, HandlersSwapped, [Next]_vars PROVE HandlersSwapped'
  OBVIOUS
<1>1. /\ mode = "task" => loaded /\ TaskPSP # "none"
      /\ {SaveBusyWait, BusyWaitVec} \subseteq {"dos", "task"} /\ deadHook \in BOOLEAN
  BY DEF Inv, Places, TypeOK
<1> USE DEF HandlersSwapped
<1>2. CASE UNCHANGED <<busyWait, mode, loaded, TaskPSP>>
  BY <1>2 DEF busyWait
<1>3. CASE Trap \/ DoIntTask \/ TimerHandler
  BY <1>1, <1>3 DEF Trap, DoIntTask, TimerHandler, InUser, DebugTask, ClrIntVecs,
                    SwapBusyWait, busyWait, tasks
<1>4. CASE UsrIntHandler \/ SetBreak \/ OSHandler \/ CallHandler \/ HandlerReturn
           \/ DosReturn \/ ChkReturn
  BY <1>2, <1>4 DEF UsrIntHandler, SetBreak, OSHandler, CallHandler, HandlerReturn,
                    DosReturn, ChkReturn, tasks
<1>5. CASE HookBusyWait \/ Exec
  BY <1>1, <1>5 DEF HookBusyWait, Exec, InUser, tasks, busyWait
<1>6. CASE DosAborts
  <2>1. CASE psp = "child"
    BY <1>2, <1>6, <2>1 DEF DosAborts, ChildEnds
  <2>2. CASE psp # "child"
    BY <1>1, <1>6, <2>2 DEF DosAborts, InCall, DebugTask, ClrIntVecs, SwapBusyWait
  <2> QED
    BY <2>1, <2>2
<1>7. ASSUME NEW intr, NEW function, ProgTerminate(intr, function)
      PROVE  HandlersSwapped'
  <2>1. CASE psp = TaskPSP
    BY <1>1, <1>7, <2>1 DEF ProgTerminate, InUser, DebugTask, ClrIntVecs, SwapBusyWait
  <2>2. CASE psp # TaskPSP
    BY <1>2, <1>7, <2>2 DEF ProgTerminate, ChildEnds, vars, tasks
  <2> QED
    BY <2>1, <2>2
<1>8. CASE RunProg
  BY <1>1, <1>8 DEF RunProg, SetIntVecs, SwapBusyWait
<1>9. CASE ReqProg_kill
  BY <1>1, <1>9 DEF ReqProg_kill, EndUser, busyWait, tasks
<1>10. ASSUME NEW ok, DOSLoadProg(ok)
       PROVE  HandlersSwapped'
  BY <1>1, <1>10 DEF DOSLoadProg, NoTask, ClrIntVecs, SwapBusyWait
<1>11. CASE UNCHANGED vars
  BY <1>2, <1>11 DEF vars, tasks
<1> QED
  BY <1>3, <1>4, <1>5, <1>6, <1>7, <1>8, <1>9, <1>10, <1>11
     DEF Next, Debuggee, Debugger, Interrupts

\* Debugger and debuggee each run as their own process, a stopped child goes
\* on as the child, and the debugger does not run with the debuggee's idle
\* handler.
THEOREM ProcessesRight == Spec => []DebuggerApart
<1>1. Init => HandlersSwapped
  BY DEF Init, HandlersSwapped
<1>2. Inv /\ HandlersSwapped => DebuggerApart
  BY DEF Inv, HandlersSwapped, DebuggerApart, BusyWaitOurs
<1> QED
  BY <1>1, <1>2, HandlersStaySwapped, Invariance, PTL DEF Spec

\* The two places that stop the debuggee for the break key.
LEMMA UserFromTwo ==
  ASSUME Inv, Next, mode = "task", cause' = "USER"
  PROVE  TimerHandler \/ DoIntTask
<1>1. cause = "none"
  BY DEF Inv, Places
<1>2. ~(UsrIntHandler \/ SetBreak \/ OSHandler \/ CallHandler \/ HandlerReturn
         \/ DosReturn \/ ChkReturn \/ HookBusyWait \/ Exec)
  BY <1>1 DEF UsrIntHandler, SetBreak, OSHandler, CallHandler, HandlerReturn,
              DosReturn, ChkReturn, HookBusyWait, Exec
<1>3. ~(Trap \/ DosAborts)
  BY <1>1 DEF Trap, DosAborts, ChildEnds, DebugTask
<1>4. ASSUME NEW intr, NEW function, ProgTerminate(intr, function)
      PROVE  FALSE
  BY <1>1, <1>4 DEF ProgTerminate, ChildEnds, DebugTask, vars
<1>5. ~Debugger
  BY DEF Debugger, RunProg, ReqProg_kill, DOSLoadProg
<1> QED
  BY <1>2, <1>3, <1>4, <1>5 DEF Next, Debuggee, Interrupts

\* The break key never stops the debuggee inside DOS: the timer looks at InDos,
\* and DoIntTask is reached from ChkReturn only when no call is in progress.
THEOREM BreakOutsideDos == Spec => OutsideDos
<1> DEFINE Outside == mode = "task" /\ cause' = "USER" => ~InDos
<1>1. Inv /\ [Next]_vars => [Outside]_vars
  <2> SUFFICES ASSUME Inv, Next, mode = "task", cause' = "USER" PROVE ~InDos
    BY DEF vars
  <2>1. CASE TimerHandler
    BY <2>1 DEF TimerHandler
  <2>2. CASE DoIntTask
    <3>1. calls = <<>>
      BY <2>2 DEF DoIntTask, Inv, Places
    <3> QED
      BY <3>1 DEF InDos
  <2> QED
    BY <2>1, <2>2, UserFromTwo
<1> QED
  BY <1>1, Invariance, PTL DEF OutsideDos, Spec

\* Why a run can end as if the break key was pressed: a request that waits was
\* made in this run, and so was the one on the way to DoIntTask, unless the run
\* goes on between ChkReturn and there.
Requested == mode = "task" /\ (UsrInt \/ pc = "DoIntTask") => request # "none"

LEMMA RequestsKept == Inv /\ Requested /\ [Next]_vars => Requested'
<1> SUFFICES ASSUME Inv, Requested, [Next]_vars PROVE Requested'
  OBVIOUS
<1> USE DEF Requested
<1>1. CASE UNCHANGED <<requests, pc, mode>>
  BY <1>1 DEF requests
<1>2. CASE UsrIntHandler \/ SetBreak
  BY <1>2 DEF UsrIntHandler, SetBreak, InCall
<1>3. CASE Trap \/ DoIntTask \/ TimerHandler
  BY <1>3 DEF Trap, DoIntTask, TimerHandler, DebugTask
<1>4. CASE OSHandler \/ CallHandler \/ HandlerReturn \/ HookBusyWait \/ Exec
  BY <1>1, <1>4 DEF OSHandler, CallHandler, HandlerReturn, HookBusyWait, Exec
<1>5. CASE DosReturn
  BY <1>5 DEF DosReturn, requests
<1>6. CASE ChkReturn
  BY <1>6 DEF ChkReturn, Answer, requests
<1>7. CASE DosAborts
  BY <1>1, <1>7 DEF DosAborts, ChildEnds, DebugTask
<1>8. ASSUME NEW intr, NEW function, ProgTerminate(intr, function)
      PROVE  Requested'
  BY <1>1, <1>8 DEF ProgTerminate, ChildEnds, DebugTask, vars
<1>9. CASE RunProg
  BY <1>9 DEF RunProg, NoRequest
<1>10. CASE ReqProg_kill
  BY <1>10 DEF ReqProg_kill
<1>11. ASSUME NEW ok, DOSLoadProg(ok)
       PROVE  Requested'
  BY <1>11 DEF DOSLoadProg
<1>12. CASE UNCHANGED vars
  BY <1>1, <1>12 DEF vars
<1> QED
  BY <1>2, <1>3, <1>4, <1>5, <1>6, <1>7, <1>8, <1>9, <1>10, <1>11, <1>12
     DEF Next, Debuggee, Debugger, Interrupts

\* What stops a run as the break key was pressed in it, or answered while the
\* program was on its way from ChkReturn to DoIntTask: RunProg drops any other
\* request (trap.asm, "no pending user interrupts").
THEOREM AnsweredOnce == Spec => RequestAnsweredOnce
<1> DEFINE Answered == mode = "task" /\ cause' = "USER" => request # "none"
<1>1. Inv /\ Requested /\ [Next]_vars => [Answered]_vars
  <2> SUFFICES ASSUME Inv, Requested, Next, mode = "task", cause' = "USER"
               PROVE  request # "none"
    BY DEF vars
  <2>1. TimerHandler \/ DoIntTask
    BY UserFromTwo
  <2> QED
    BY <2>1 DEF TimerHandler, DoIntTask, Requested
<1>2. Init => Requested
  BY DEF Init, Requested
<1> QED
  BY <1>1, <1>2, RequestsKept, Invariance, PTL DEF RequestAnsweredOnce, Spec
=============================================================================

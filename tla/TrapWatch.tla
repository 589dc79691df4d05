----------------------------- MODULE TrapWatch -----------------------------
(***************************************************************************)
(* Breakpoints and watchpoints in the DOS trap file (trap_src/dosr/        *)
(* dosacc.c): the requests that set them, how SetDebugRegs hands the four  *)
(* debug registers of the 386 to watchpoints and to a breakpoint in ROM,   *)
(* and how a run ends and is reported.  Addresses are linear: a segment    *)
(* starts on a multiple of 16, so an offset and its linear address are     *)
(* aligned alike.  RunProg and the handlers of dbgtrap.asm, which is not   *)
(* in the repository, are modelled by what dosacc.c relies on.             *)
(***************************************************************************)
EXTENDS Naturals, SequencesExt

CONSTANTS
  Code,     \* addresses of the debuggee's instructions
  Rom,      \* those of them that cannot be written
  Bytes,    \* addresses of the debuggee's data
  Sizes,    \* sizes a watchpoint may have
  MAX_WP    \* entries of the watch table

ASSUME AddressAssumption == Rom \subseteq Code /\ Code \subseteq Nat /\ Bytes \subseteq Nat
ASSUME SizeAssumption == Sizes \subseteq {1, 2, 4}
ASSUME TableAssumption == MAX_WP \in Nat

VARIABLES
  DRsOn,          \* Flags.DRsOn: there are debug registers to use
  WatchPoints,    \* the first WatchCount entries of the table
  BadBreak,       \* the last breakpoint that could not be written
  GotABadBreak,   \* BadBreak is to be armed
  IsBreak,        \* register i holds a breakpoint
  DR,             \* DR0..DR3 with their fields of DR7
  TraceRtn,       \* what a single-step trap does
  FLG_T,          \* TaskRegs.EFL & FLG_T
  multiplier,     \* USING_DEBUG_REG in the last reply to Set_watch
  conditions,     \* the reply to the last run
  mem,            \* the addresses that hold an INT3
  planted,        \* breakpoints the debugger has set and not yet cleared
  phase,          \* what the debugger does: sets, waits for the run, clears
  ip,             \* the debuggee's CS:EIP
  wrote           \* the data bytes the run has gone on after changing (history)

tables == <<WatchPoints, BadBreak, GotABadBreak>>
registers == <<IsBreak, DR, TraceRtn, FLG_T>>
replies == <<multiplier, conditions>>
debugger == <<planted, phase>>
debuggee == <<ip, wrote>>
vars == <<DRsOn, tables, registers, replies, mem, debugger, debuggee>>

-----------------------------------------------------------------------------
Index == 0..3

\* A register that triggers nothing.  DR7 is zero: what DR0..DR3 still hold
\* is never used, SetDRn writes address and control together.
Off == [linear |-> 0, len |-> 1, type |-> "off"]

Register == [linear : Nat, len : {1, 2, 4}, type : {"off", "write", "exec"}]

Watch == [addr : Bytes, linear : Nat, len : Sizes, dregs : {1, 2}]

Conditions == {"none", "TRACE", "BREAK", "WATCH", "USER", "TERMINATE",
               "EXCEPTION", "SECTIONS"}

TypeOK ==
  /\ DRsOn \in BOOLEAN
  /\ WatchPoints \in Seq(Watch) /\ Len(WatchPoints) <= MAX_WP
  /\ BadBreak \in Code \cup {0}
  /\ GotABadBreak \in BOOLEAN
  /\ IsBreak \in [Index -> BOOLEAN]
  /\ DR \in [Index -> Register]
  /\ TraceRtn \in {"single", "watch"}
  /\ FLG_T \in BOOLEAN
  /\ multiplier \in BOOLEAN
  /\ conditions \in Conditions
  /\ mem \subseteq Code /\ planted \subseteq Code
  /\ phase \in {"set", "run", "clear"}
  /\ ip \in Code
  /\ wrote \subseteq Bytes

\* TrapInit looks at the processor and the command line once.
Init ==
  /\ DRsOn \in BOOLEAN
  /\ WatchPoints = <<>> /\ BadBreak = 0 /\ GotABadBreak = FALSE
  /\ IsBreak = [i \in Index |-> FALSE] /\ DR = [i \in Index |-> Off]
  /\ TraceRtn = "single" /\ FLG_T = FALSE
  /\ multiplier = FALSE /\ conditions = "none"
  /\ mem = {} /\ planted = {} /\ phase = "set"
  /\ ip \in Code /\ wrote = {}

-----------------------------------------------------------------------------
(* Requests. *)

WatchAt(addr, len) ==
  [ addr |-> addr, linear |-> (addr \div len) * len, len |-> len,
    dregs |-> IF addr % len # 0 THEN 2 ELSE 1 ]

\* The debug registers a table of watchpoints needs.
Needed(watches) ==
  LET needed[i \in 0..Len(watches)] ==
        IF i = 0 THEN 0 ELSE needed[i - 1] + watches[i].dregs
  IN  needed[Len(watches)]

\* Mutant of ReqSet_watch: the table is never full.
ReqSet_watchUnbounded(addr, len) ==
  /\ phase = "set"
  /\ WatchPoints' = Append(WatchPoints, WatchAt(addr, len))
  /\ multiplier' = (DRsOn /\ Needed(WatchPoints') <= 4)
  /\ UNCHANGED <<BadBreak, GotABadBreak, registers, conditions, mem, debugger, debuggee>>

\* ReqSet_watch.  A full table refuses, and the reply promises no register.
ReqSet_watch(addr, len) ==
  /\ phase = "set"
  /\ IF Len(WatchPoints) < MAX_WP
     THEN /\ WatchPoints' = Append(WatchPoints, WatchAt(addr, len))
          /\ multiplier' = (DRsOn /\ Needed(WatchPoints') <= 4)
     ELSE /\ multiplier' = FALSE
          /\ UNCHANGED WatchPoints
  /\ UNCHANGED <<BadBreak, GotABadBreak, registers, conditions, mem, debugger, debuggee>>

\* ReqClear_watch empties the whole table, whichever watchpoint it names.
\* The debugger sends it when it takes its points out, and after it has only
\* asked whether a watchpoint would fit (BrkCheckWatchLimit).
ReqClear_watch ==
  /\ \/ phase = "clear"
     \/ phase = "set" /\ planted = {}
  /\ WatchPoints' = <<>>
  /\ multiplier' = FALSE
  /\ UNCHANGED <<BadBreak, GotABadBreak, registers, conditions, mem, debugger, debuggee>>

\* ReqSet_break: a byte that does not read back as INT3 goes to the one slot
\* for such breakpoints.
ReqSet_break(a) ==
  /\ phase = "set" /\ a \notin planted
  /\ planted' = planted \cup {a}
  /\ mem' = mem \cup ({a} \ Rom)
  /\ BadBreak' = IF a \in Rom THEN a ELSE BadBreak
  /\ GotABadBreak' = (GotABadBreak \/ a \in Rom)
  /\ UNCHANGED <<WatchPoints, registers, replies, phase, debuggee>>

\* ReqClear_break; the debugger clears everything before it sets again.
ReqClear_break(a) ==
  /\ phase = "clear" /\ a \in planted
  /\ planted' = planted \ {a}
  /\ mem' = mem \ {a}
  /\ GotABadBreak' = FALSE
  /\ phase' = IF planted' = {} THEN "set" ELSE "clear"
  /\ UNCHANGED <<WatchPoints, BadBreak, registers, replies, debuggee>>

\* A breakpoint at ip: the debugger clears what it set and steps instead.
Retry ==
  /\ phase = "set" /\ planted # {}
  /\ phase' = "clear"
  /\ UNCHANGED <<tables, registers, replies, mem, planted, debuggee>>

-----------------------------------------------------------------------------
(* Runs. *)

\* Mutant of Cells: an unaligned watchpoint gets its first cell only.
CellsFirst(w) == <<[linear |-> w.linear, len |-> w.len, type |-> "write"]>>

\* The cells SetDebugRegs gives to a watchpoint, in the order of registers.
\* The second cell of an unaligned one is four bytes on, whatever its size.
Cells(w) ==
  LET cell(l) == [linear |-> l, len |-> w.len, type |-> "write"]
  IN  IF w.dregs = 2 THEN <<cell(w.linear), cell(w.linear + 4)>>
                     ELSE <<cell(w.linear)>>

WatchCells == FlattenSeq([i \in DOMAIN WatchPoints |-> Cells(WatchPoints[i])])

\* Watchpoints get registers all or none; a breakpoint in ROM gets the next.
WatchRegs == IF Needed(WatchPoints) <= 4 THEN WatchCells ELSE <<>>
\* Mutant of BreakRegs: the last register is never given to it.
BreakRegsThree ==
  IF GotABadBreak /\ Len(WatchRegs) < 3
  THEN <<[linear |-> BadBreak, len |-> 1, type |-> "exec"]>> ELSE <<>>
BreakRegs ==
  IF GotABadBreak /\ Len(WatchRegs) < 4
  THEN <<[linear |-> BadBreak, len |-> 1, type |-> "exec"]>> ELSE <<>>

\* Its result is whether the registers do the watching.
SetDebugRegs ==
  LET regs == WatchRegs \o BreakRegs
      dr == Len(WatchRegs)
  IN  /\ DR' = IF DRsOn THEN [i \in Index |-> IF i < Len(regs) THEN regs[i + 1] ELSE Off]
               ELSE DR
      /\ IsBreak' = IF DRsOn /\ BreakRegs # <<>> THEN [IsBreak EXCEPT ![dr] = TRUE]
                    ELSE IsBreak

\* Mutants of watch386: Flags.DRsOn is not looked at; four registers are not
\* enough.
watch386Always == Needed(WatchPoints) <= 4
watch386Three == DRsOn /\ Needed(WatchPoints) < 4
watch386 == DRsOn /\ Needed(WatchPoints) <= 4

\* ProgRun up to RunProg, for Prog_go: without registers the watchpoints are
\* compared after every single step.
ReqProg_go ==
  /\ phase = "set"
  /\ SetDebugRegs
  /\ LET watching == WatchPoints # <<>> /\ ~watch386
     IN  /\ TraceRtn' = IF watching THEN "watch" ELSE "single"
         /\ FLG_T' = watching
  /\ phase' = "run" /\ conditions' = "none"
  /\ UNCHANGED <<tables, multiplier, mem, planted, debuggee>>

\* and for Prog_step, which arms no register.
ReqProg_step ==
  /\ phase = "set"
  /\ TraceRtn' = "single" /\ FLG_T' = TRUE
  /\ phase' = "run" /\ conditions' = "none"
  /\ UNCHANGED <<tables, IsBreak, DR, multiplier, mem, planted, debuggee>>

MapReturn(trap) ==
  CASE trap = "TRACE_POINT" -> "TRACE"
    [] trap = "BREAK_POINT" -> "BREAK"
    [] trap = "WATCH_POINT" -> "WATCH"
    [] trap = "USER" -> "USER"
    [] trap = "TERMINATE" -> "TERMINATE"
    [] trap = "MACH_EXCEPTION" -> "EXCEPTION"
    [] trap \in {"OVL_CHANGE_LOAD", "OVL_CHANGE_RET"} -> "SECTIONS"
    [] OTHER -> "none"

\* Mutants of ClearDebugRegs and TrapOf: DR7 is not cleared; every register
\* that triggers while a breakpoint in ROM is set is taken for it.
ClearDebugRegsMarks ==
  UNCHANGED DR /\ IsBreak' = [i \in Index |-> FALSE]
TrapOfAny(trap, dr6) ==
  IF DRsOn /\ trap = "WATCH_POINT" /\ dr6 # {} /\ GotABadBreak
  THEN "BREAK_POINT" ELSE trap

\* ClearDebugRegs: dr6 holds the registers that triggered.
ClearDebugRegs ==
  IF DRsOn
  THEN DR' = [i \in Index |-> Off] /\ IsBreak' = [i \in Index |-> FALSE]
  ELSE UNCHANGED <<DR, IsBreak>>
TrapOf(trap, dr6) ==
  IF DRsOn /\ trap = "WATCH_POINT" /\ \E i \in dr6 : IsBreak[i]
  THEN "BREAK_POINT" ELSE trap

\* ProgRun from RunProg on.
Return(trap, dr6) ==
  /\ ClearDebugRegs
  /\ conditions' = MapReturn(TrapOf(trap, dr6))
  /\ FLG_T' = FALSE
  /\ WatchPoints' = <<>> /\ wrote' = {}
  /\ multiplier' = FALSE
  /\ phase' = IF planted = {} THEN "set" ELSE "clear"
  /\ UNCHANGED <<BadBreak, GotABadBreak, TraceRtn, mem, planted>>

-----------------------------------------------------------------------------
(* The debuggee and the traps that bring it back. *)

\* The bytes register r is triggered by: a write, or an instruction fetch.
Cover(r) == r.linear .. (r.linear + r.len - 1)
Triggered(type, bytes) ==
  {i \in Index : DR[i].type = type /\ Cover(DR[i]) \cap bytes # {}}

\* The bytes of a watchpoint, and what the stepping watch compares: the
\* double word at its address, whatever its size.
Watched(w) == w.addr .. (w.addr + w.len - 1)
Compared(w) == w.addr .. (w.addr + 3)
Differs(bytes) ==
  \E i \in DOMAIN WatchPoints : Compared(WatchPoints[i]) \cap bytes # {}

Writes == {{}} \cup {{b} : b \in Bytes}

\* A planted INT3, and a fetch a register waits for.
HitBreak ==
  /\ phase = "run"
  /\ \/ ip \in mem /\ Return("BREAK_POINT", {})
     \/ Triggered("exec", {ip}) # {}
          /\ Return("WATCH_POINT", Triggered("exec", {ip}))
  /\ UNCHANGED ip

\* One instruction, which goes to a and changes bytes.
Executed(a, bytes) ==
  /\ phase = "run" /\ ip \notin mem /\ Triggered("exec", {ip}) = {}
  /\ ip' = a

\* The instruction does not end the run.
Execute(a, bytes) ==
  /\ Executed(a, bytes)
  /\ Triggered("write", bytes) = {}
  /\ FLG_T => TraceRtn = "watch" /\ ~Differs(bytes)
  /\ wrote' = bytes
  /\ UNCHANGED <<tables, registers, replies, mem, debugger>>

HitWatch(a, bytes) ==
  /\ Executed(a, bytes)
  /\ \/ Triggered("write", bytes) # {}
     \/ FLG_T /\ TraceRtn = "watch" /\ Differs(bytes)
  /\ Return("WATCH_POINT", Triggered("write", bytes))

Step(a, bytes) ==
  /\ Executed(a, bytes)
  /\ Triggered("write", bytes) = {} /\ FLG_T /\ TraceRtn = "single"
  /\ Return("TRACE_POINT", {})

\* The break key, the end of the program, a fault, the overlay manager.
Interrupted(trap) ==
  /\ phase = "run"
  /\ Return(trap, {})
  /\ UNCHANGED ip

Debugger ==
  \/ \E b \in Bytes, n \in Sizes : ReqSet_watch(b, n)
  \/ ReqClear_watch
  \/ \E a \in Code : ReqSet_break(a) \/ ReqClear_break(a)
  \/ Retry
  \/ ReqProg_go \/ ReqProg_step

Debuggee ==
  \/ HitBreak
  \/ \E a \in Code, bytes \in Writes :
       Execute(a, bytes) \/ HitWatch(a, bytes) \/ Step(a, bytes)
  \/ \E trap \in {"USER", "TERMINATE", "MACH_EXCEPTION", "OVL_CHANGE_LOAD"} :
       Interrupted(trap)

Next == (Debugger \/ Debuggee) /\ UNCHANGED DRsOn

Spec == Init /\ [][Next]_vars

-----------------------------------------------------------------------------
(* Properties. *)

\* While the debugger has control nothing of a run is left that could trap:
\* no register is armed or marked, the trace flag is clear.
Quiet ==
  phase # "run" =>
    /\ ~FLG_T
    /\ \A i \in Index : DR[i].type = "off" /\ ~IsBreak[i]

\* A run does not go on after an instruction has changed a watched byte, with
\* registers or by stepping.  The exception is what the code does: of an
\* unaligned word the registers cover the wrong second half (Cells).
WatchSeen ==
  phase = "run" =>
    \A i \in DOMAIN WatchPoints :
      \/ wrote \cap Watched(WatchPoints[i]) = {}
      \/ WatchPoints[i].len = 2 /\ WatchPoints[i].dregs = 2 /\ ~FLG_T

\* A breakpoint in ROM goes without a register when the watchpoints take all
\* four, and there is one slot for all such breakpoints.
Unarmed ==
  /\ ip \in Rom
  /\ ~DRsOn \/ Needed(WatchPoints) = 4 \/ planted \cap Rom # {ip}

\* No instruction is executed, and the run continued, at a breakpoint.
BreakpointStops ==
  [][phase = "run" /\ phase' = "run" => ip \notin planted \/ Unarmed]_vars

\* A stop is reported as a breakpoint only where the debugger set one: a
\* register that watched in this run is not taken for the breakpoint it held
\* in an earlier one (IsBreak).
BreakIsOurs ==
  [][phase = "run" /\ conditions' = "BREAK" => ip' \in planted]_vars

\* A run stops at a breakpoint, and for one only there.
BreakpointsTrue == BreakpointStops /\ BreakIsOurs

\* When the reply to the last watchpoint promised debug registers, the run
\* is not slowed down by stepping: ReqSet_watch and SetDebugRegs count alike.
PromiseKept ==
  [][phase = "set" /\ phase' = "run" /\ multiplier => TraceRtn' = "single"]_vars
=============================================================================

---------------------------- MODULE BreakService ----------------------------
(***************************************************************************)
(* What the user of the debugger is promised about breakpoints, with no    *)
(* planted bytes, run-loop states or temporary breakpoints in sight: the   *)
(* debuggee runs the instructions of the program that was loaded, it moves *)
(* only while it is not held, and once it has arrived at an armed address  *)
(* it executes nothing before the debugger has stopped it there.           *)
(***************************************************************************)
CONSTANTS
  Addr,       \* addresses of the debuggee's instructions
  Succ,       \* Succ[a] : where control can go after the instruction at a
  After,      \* After[a] : the address following the instruction at a
  OwnBreaks   \* addresses of breakpoint instructions of the program itself

VARIABLES
  ip,     \* the instruction the debuggee executes next
  held,   \* the debuggee is stopped and the user has control
  armed,  \* addresses at which the user asked to be stopped
  due     \* the debuggee has arrived at ip since it was last stopped

vars == <<ip, held, armed, due>>

Init ==
  /\ ip \in Addr
  /\ held = TRUE
  /\ armed = {}
  /\ due = FALSE

\* The user edits the breakpoints while the debuggee is stopped.
Arm ==
  /\ held
  /\ armed' \in SUBSET Addr
  /\ UNCHANGED <<ip, held, due>>

\* The user continues it (a trace command suspends the `go until' target).
Resume ==
  /\ held
  /\ held' = FALSE
  /\ armed' \in SUBSET armed
  /\ UNCHANGED <<ip, due>>

\* One instruction of the program; never one that owes a stop.
Execute ==
  /\ ~held
  /\ due => ip \notin armed
  /\ ip' \in Succ[ip]
  /\ due' = TRUE
  /\ UNCHANGED <<held, armed>>

\* The debugger moves the debuggee past a breakpoint instruction of its own.
Skip ==
  /\ ~held
  /\ ip \in OwnBreaks
  /\ due => ip \notin armed
  /\ ip' = After[ip]
  /\ due' = FALSE
  /\ UNCHANGED <<held, armed>>

Stop ==
  /\ ~held
  /\ held' = TRUE
  /\ due' = FALSE
  /\ UNCHANGED <<ip, armed>>

Next == Arm \/ Resume \/ Execute \/ Skip \/ Stop

Spec == Init /\ [][Next]_vars
=============================================================================

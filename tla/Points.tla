------------------------------- MODULE Points -------------------------------
(***************************************************************************)
(* The records of the debugger's point table (brkp, wv/c/dbgbrk.c) as far  *)
(* as the run loop reads and writes them, and the debuggee bytes a         *)
(* breakpoint is made of.  A point is a breakpoint on an instruction       *)
(* (bp->th = MAD_NIL_TYPE_HANDLE) or a watchpoint on the data cell.        *)
(***************************************************************************)
EXTENDS Naturals, SequencesExt

CONSTANTS
  Addr,       \* addresses of the debuggee's instructions
  Cell,       \* the address of the watched data cell
  Values,     \* the values the cell can hold
  MaxCount    \* bound on a point's countdown

ASSUME CellAssumption  == Cell \notin Addr
ASSUME CountAssumption == MaxCount \in Nat

\* What the first byte of an instruction is: its opcode, or the INT3 that
\* RemoteSetBreak writes (a program may contain INT3s of its own).
Byte == {"OP", "CC"}

\* item.ud of a breakpoint is `old', the byte RemoteSetBreak returned; the
\* item of a watchpoint is `val', the value UpdateWPs read.
Point ==
  [ addr : Addr \cup {Cell},
    watch : BOOLEAN,                        \* th # MAD_NIL_TYPE_HANDLE
    active : BOOLEAN, in_place : BOOLEAN, hit : BOOLEAN,
    use_condition : BOOLEAN, expr_error : BOOLEAN, autodestruct : BOOLEAN,
    countdown : 0..MaxCount, initial_countdown : 0..MaxCount,
    old : Byte, val : Values ]

\* UserTmpBrk (the target of `go until') and DbgTmpBrk (the debugger's own).
TmpPoint ==
  [ addr : Addr, active : BOOLEAN, in_place : BOOLEAN, hit : BOOLEAN,
    old : Byte ]

\* The status bits alone, as TraceState.userstat keeps them.
Status == [active : BOOLEAN, in_place : BOOLEAN, hit : BOOLEAN]
StatusOf(p) == [active |-> p.active, in_place |-> p.in_place, hit |-> p.hit]
WithStatus(p, s) ==
  [p EXCEPT !.active = s.active, !.in_place = s.in_place, !.hit = s.hit]

\* NullStatus clears every status bit and leaves the address alone.
NullStatus(p) == [p EXCEPT !.active = FALSE, !.in_place = FALSE, !.hit = FALSE]

\* AddPoint: a new point is active, unhit and unplanted; `val' is the value
\* SetPointAddr reads for a watchpoint.
NewPoint(a, cond, count, auto, value) ==
  [ addr |-> a, watch |-> a = Cell, active |-> TRUE, in_place |-> FALSE,
    hit |-> FALSE, use_condition |-> cond, expr_error |-> FALSE,
    autodestruct |-> auto, countdown |-> count, initial_countdown |-> count,
    old |-> "OP", val |-> value ]

\* FindBreak: the positions of the list that hold address a (the code stops
\* at the first).
At(list, a) == {i \in DOMAIN list : list[i].addr = a}

\* A point that stops the debuggee every time: no condition, no countdown.
Plain(p) == p.active /\ ~p.use_condition /\ p.initial_countdown = 0
=============================================================================

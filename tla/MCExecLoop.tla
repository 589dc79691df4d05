----------------------------- MODULE MCExecLoop -----------------------------
(***************************************************************************)
(* Small programs and users for model-checking ExecLoop.  A program is a   *)
(* sequence of instructions at addresses 1, 2, ...; the cell is address 0. *)
(***************************************************************************)
EXTENDS ExecLoop

\* An instruction of kind k that goes to one of the addresses in s.
Ins(k, s) == [kind |-> k, succ |-> s]

\* A loop with a subroutine: the call at 1 goes to 3, whose first instruction
\* is one the stepper runs to a breakpoint behind it; 4 returns to 2, which
\* can loop on itself.
LoopProgram == <<Ins("call", {3}), Ins("plain", {1, 2}),
                 Ins("special", {4}), Ins("plain", {2})>>

\* Every way an instruction returns to the debugger without a planted byte.
EventProgram == <<Ins("int3", {}), Ins("load", {3}), Ins("say", {4}),
                  Ins("wvideo", {}), Ins("int", {6, 7}), Ins("fault", {}),
                  Ins("end", {})>>

\* 1 and 3 write the cell; 3 is an instruction of the special kind.
WriteProgram == <<Ins("plain", {2}), Ins("call", {3, 1}), Ins("special", {1})>>

AddrOf(program) == DOMAIN program
SuccOf(program) == [a \in DOMAIN program |-> program[a].succ]
KindOf(program) == [a \in DOMAIN program |-> program[a].kind]
\* The last instruction is followed by the first: an address past the end
\* would hold no instruction.
AfterOf(program) ==
  [a \in DOMAIN program |-> IF a = Len(program) THEN 1 ELSE a + 1]

LoopAddr == AddrOf(LoopProgram)
LoopSucc == SuccOf(LoopProgram)
LoopKind == KindOf(LoopProgram)
LoopAfter == AfterOf(LoopProgram)

EventAddr == AddrOf(EventProgram)
EventSucc == SuccOf(EventProgram)
EventKind == KindOf(EventProgram)
EventAfter == AfterOf(EventProgram)

WriteAddr == AddrOf(WriteProgram)
WriteSucc == SuccOf(WriteProgram)
WriteKind == KindOf(WriteProgram)
WriteAfter == AfterOf(WriteProgram)

Always == [cond |-> FALSE, count |-> 0, active |-> TRUE]
Conditional == [Always EXCEPT !.cond = TRUE]
Counted == [Always EXCEPT !.count = MaxCount]
Inactive == [Always EXCEPT !.active = FALSE]

PlainShapes == {Always}
CountShapes == {Always, Conditional, Counted}
WriteShapes == {Always, Conditional}
EventShapes == {Always, Inactive}

\* The bound on go-until: a temporary breakpoint at two of the places only, and
\* next to one breakpoint at most.
UntilAlone ==
  \/ UserTmpBrk = NoTmp
  \/ UserTmpBrk.addr \in {2, 3} /\ Len(BrkList) <= 1
=============================================================================

-------------------------- MODULE TrapWatch_proofs --------------------------
(***************************************************************************)
(* Proofs about TrapWatch for every set of addresses and any table size.   *)
(***************************************************************************)
EXTENDS TrapWatch, Induction

\* Without debug registers none is ever armed or marked, so that Return, which
\* then leaves them alone, need not clear them.
Untouched ==
  /\ phase \in {"set", "run", "clear"}
  /\ ~DRsOn => \A i \in Index : DR[i].type = "off" /\ ~IsBreak[i]

\* Return leaves nothing that could trap.
LEMMA ReturnQuiet ==
  ASSUME Untouched, UNCHANGED DRsOn, NEW trap, NEW dr6, Return(trap, dr6)
  PROVE  Quiet' /\ Untouched'
<1>1. \A i \in Index : DR'[i].type = "off" /\ ~IsBreak'[i]
  <2>1. CASE DRsOn
    BY <2>1 DEF Return, ClearDebugRegs, Off
  <2>2. CASE ~DRsOn
    BY <2>2 DEF Return, ClearDebugRegs, Untouched
  <2> QED
    BY <2>1, <2>2
<1>2. ~FLG_T' /\ phase' \in {"set", "clear"}
  BY DEF Return
<1> QED
  BY <1>1, <1>2 DEF Quiet, Untouched

\* Steps that leave the registers and the run alone.
LEMMA KeepsQuiet ==
  ASSUME Quiet, Untouched, UNCHANGED <<DRsOn, registers>>,
         phase' = phase \/ (phase # "run" /\ phase' \in {"set", "clear"})
  PROVE  Quiet' /\ Untouched'
BY DEF Quiet, Untouched, registers

\* No step arms a register while the debugger has control.
LEMMA QuietStep ==
  ASSUME Quiet, Untouched, [Next]_vars
  PROVE  Quiet' /\ Untouched'
<1>0. UNCHANGED DRsOn
  BY DEF Next, vars
<1>1. ASSUME NEW b, NEW n, ReqSet_watch(b, n)
      PROVE  Quiet' /\ Untouched'
  BY <1>0, <1>1, KeepsQuiet DEF ReqSet_watch, debugger
<1>2. CASE ReqClear_watch \/ Retry
  BY <1>0, <1>2, KeepsQuiet DEF ReqClear_watch, Retry, debugger
<1>3. ASSUME NEW a, ReqSet_break(a) \/ ReqClear_break(a)
      PROVE  Quiet' /\ Untouched'
  BY <1>0, <1>3, KeepsQuiet DEF ReqSet_break, ReqClear_break
<1>4. CASE ReqProg_go
  <2>1. phase' = "run"
    BY <1>4 DEF ReqProg_go
  <2>2. ~DRsOn => \A i \in Index : DR'[i].type = "off" /\ ~IsBreak'[i]
    BY <1>0, <1>4 DEF ReqProg_go, SetDebugRegs, Untouched
  <2> QED
    BY <1>0, <2>1, <2>2 DEF Quiet, Untouched
<1>5. CASE ReqProg_step
  BY <1>0, <1>5 DEF ReqProg_step, Quiet, Untouched
<1>6. CASE HitBreak
  BY <1>0, <1>6, ReturnQuiet DEF HitBreak
<1>7. ASSUME NEW a, NEW bytes, Execute(a, bytes)
      PROVE  Quiet' /\ Untouched'
  BY <1>0, <1>7, KeepsQuiet DEF Execute, debugger
<1>8. ASSUME NEW a, NEW bytes, HitWatch(a, bytes) \/ Step(a, bytes)
      PROVE  Quiet' /\ Untouched'
  BY <1>0, <1>8, ReturnQuiet DEF HitWatch, Step
<1>9. ASSUME NEW trap, Interrupted(trap)
      PROVE  Quiet' /\ Untouched'
  BY <1>0, <1>9, ReturnQuiet DEF Interrupted
<1>10. CASE UNCHANGED vars
  BY <1>0, <1>10, KeepsQuiet DEF vars, debugger
<1> QED
  BY <1>1, <1>2, <1>3, <1>4, <1>5, <1>6, <1>7, <1>8, <1>9, <1>10
     DEF Next, Debugger, Debuggee

\* Whenever the debugger has control, no debug register is armed or marked and
\* the trace flag is clear (dosacc.c, ClearDebugRegs and ProgRun).
THEOREM QuietBetweenRuns == Spec => []Quiet
<1>1. Init => Quiet /\ Untouched
  BY DEF Init, Quiet, Untouched, Off
<1>2. Quiet /\ Untouched /\ [Next]_vars => (Quiet /\ Untouched)'
  BY QuietStep
<1> QED
  BY <1>1, <1>2, PTL DEF Spec

-----------------------------------------------------------------------------
(***************************************************************************)
(* What SetDebugRegs counts and what it hands out.                         *)
(***************************************************************************)
WriteCell == [linear : Nat, len : {1, 2, 4}, type : {"write"}]

\* The count of ReqSet_watch and SetDebugRegs, one watchpoint after the other.
LEMMA NeededCounts ==
  ASSUME NEW w \in Seq(Watch)
  PROVE  \E n \in [0..Len(w) -> Nat] :
           /\ n[0] = 0 /\ Needed(w) = n[Len(w)]
           /\ \A i \in 1..Len(w) : n[i] = n[i - 1] + w[i].dregs
<1> DEFINE m == Len(w)
           step == [p \in (1..m) \X Nat |-> p[2] + w[p[1]].dregs]
           P(f) == f = [i \in 0..m |-> IF i = 0 THEN 0 ELSE f[i - 1] + w[i].dregs]
<1>1. m \in Nat /\ \A i \in 1..m : w[i].dregs \in Nat
  <2>1. \A i \in 1..m : w[i] \in Watch
    BY ElementOfSeq
  <2> QED
    BY <2>1, LenProperties DEF Watch
<1>2. step \in [(1..m) \X Nat -> Nat]
  BY <1>1
<1>3. \A i \in 1..m, k \in Nat : step[<<i, k>>] = k + w[i].dregs
  OBVIOUS
<1>4. Needed(w) = (CHOOSE f : P(f))[m]
  BY DEF Needed
<1> HIDE DEF m, step
<1>5. PICK n : Recursive(n, m, Nat, 0, step)
  BY <1>1, <1>2, RecursionExists
<1>6. \A i \in 1..m : i - 1 \in 0..m /\ n[i - 1] \in Nat /\ n[i] = n[i - 1] + w[i].dregs
  <2>1. \A i \in 1..m : i - 1 \in 0..m
    BY <1>1
  <2> QED
    BY <1>3, <1>5, <2>1 DEF Recursive
<1>7. P(n)
  <2>1. n[0] = 0 /\ n = [i \in 0..m |-> n[i]]
    BY <1>5 DEF Recursive
  <2>2. \A i \in 0..m : i = 0 \/ i \in 1..m
    BY <1>1
  <2>3. \A i \in 0..m : n[i] = IF i = 0 THEN 0 ELSE n[i - 1] + w[i].dregs
    BY <1>6, <2>1, <2>2
  <2> HIDE DEF Recursive
  <2> QED
    BY <2>1, <2>3
<1> DEFINE f == CHOOSE f : P(f)
<1>8. P(f)
  <2> HIDE DEF P
  <2> QED
    BY <1>7
<1> HIDE DEF f
<1>9. f[0] = 0 /\ \A i \in 1..m : f[i] = f[i - 1] + w[i].dregs
  <2>1. \A i \in 1..m : i \in 0..m /\ i # 0
    BY <1>1
  <2>2. 0 \in 0..m
    BY <1>1
  <2> QED
    BY <1>8, <2>1, <2>2
<1> DEFINE Number == {i \in 0..m : f[i] \in Nat}
<1>10. \A i \in 0..m : i \in Number
  <2>1. 0 \in Number
    BY <1>1, <1>9
  <2>2. ASSUME NEW i \in 1..m, i - 1 \in Number PROVE i \in Number
    BY <1>1, <1>9, <2>2
  <2> HIDE DEF Number
  <2> QED
    BY <1>1, <2>1, <2>2, IntervalInduction
<1>11. f \in [0..m -> Nat]
  BY <1>8, <1>10
<1> QED
  BY <1>4, <1>9, <1>11 DEF m, f

\* The cells of one watchpoint are as many as it counts.
LEMMA CellsOf ==
  ASSUME NEW w \in Watch
  PROVE  /\ Cells(w) \in Seq(WriteCell)
         /\ Len(Cells(w)) = w.dregs
<1>1. w.linear \in Nat /\ w.len \in {1, 2, 4} /\ w.dregs \in {1, 2}
  BY SizeAssumption DEF Watch
<1> DEFINE c(l) == [linear |-> l, len |-> w.len, type |-> "write"]
<1>2. c(w.linear) \in WriteCell /\ c(w.linear + 4) \in WriteCell
  BY <1>1 DEF WriteCell
<1>3. Cells(w) = IF w.dregs = 2 THEN <<c(w.linear), c(w.linear + 4)>> ELSE <<c(w.linear)>>
  BY DEF Cells
<1> HIDE DEF c
<1> QED
  BY <1>1, <1>2, <1>3

\* The registers handed out are as many as were counted, and every cell of
\* every watchpoint is among them.
LEMMA WatchCellsHold ==
  ASSUME WatchPoints \in Seq(Watch)
  PROVE  /\ WatchCells \in Seq(WriteCell)
         /\ Len(WatchCells) = Needed(WatchPoints)
         /\ \A i \in DOMAIN WatchPoints :
              Range(Cells(WatchPoints[i])) \subseteq Range(WatchCells)
<1> DEFINE m == Len(WatchPoints)
           seqs == [i \in 1..m |-> Cells(WatchPoints[i])]
<1>1. m \in Nat /\ DOMAIN WatchPoints = 1..m
  BY LenProperties
<1>2. \A i \in 1..m : WatchPoints[i] \in Watch
  BY ElementOfSeq
<1>3. \A i \in 1..m : seqs[i] \in Seq(WriteCell) /\ Len(seqs[i]) = WatchPoints[i].dregs
  BY <1>2, CellsOf
<1>4. seqs \in Seq(Seq(WriteCell)) /\ Len(seqs) = m
  BY <1>1, <1>3
<1>5. WatchCells = FlattenSeq(seqs)
  BY <1>1 DEF WatchCells
<1>6. \A i \in 1..m : seqs[i] = Cells(WatchPoints[i])
  OBVIOUS
<1> HIDE DEF seqs
<1>7. PICK n \in [0..m -> Nat] :
        /\ n[0] = 0 /\ Needed(WatchPoints) = n[m]
        /\ \A i \in 1..m : n[i] = n[i - 1] + WatchPoints[i].dregs
  BY NeededCounts
<1> HIDE DEF m
<1>8. n \in [0..Len(seqs) -> Nat] /\ \A i \in 1..Len(seqs) : n[i] = n[i - 1] + Len(seqs[i])
  BY <1>3, <1>4, <1>7
<1>9. /\ FlattenSeq(seqs) \in Seq(WriteCell)
      /\ Len(FlattenSeq(seqs)) = n[Len(seqs)]
      /\ \A i \in 1..Len(seqs) : Range(seqs[i]) \subseteq Range(FlattenSeq(seqs))
  BY <1>4, <1>7, <1>8, FlattenSeqHolds
<1> QED
  BY <1>1, <1>4, <1>5, <1>6, <1>7, <1>9
\* The registers SetDebugRegs hands out: no more than there are, and none for
\* the watchpoints when they need more than that.
LEMMA RegsHandedOut ==
  ASSUME TypeOK
  PROVE  /\ WatchRegs \in Seq(WriteCell) /\ Len(WatchRegs) <= 4
         /\ Needed(WatchPoints) <= 4 =>
              Len(WatchRegs) = Needed(WatchPoints) /\ WatchRegs = WatchCells
         /\ \/ BreakRegs = <<>> /\ ~(GotABadBreak /\ Len(WatchRegs) < 4)
            \/ /\ BreakRegs = <<[linear |-> BadBreak, len |-> 1, type |-> "exec"]>>
               /\ GotABadBreak /\ Len(WatchRegs) < 4
<1>1. WatchCells \in Seq(WriteCell) /\ Len(WatchCells) = Needed(WatchPoints)
  BY WatchCellsHold DEF TypeOK
<1>2. <<>> \in Seq(WriteCell) /\ Len(<<>>) = 0
  BY EmptySeq
<1>3. /\ WatchRegs \in Seq(WriteCell) /\ Len(WatchRegs) <= 4
      /\ Needed(WatchPoints) <= 4 =>
           Len(WatchRegs) = Needed(WatchPoints) /\ WatchRegs = WatchCells
  BY <1>1, <1>2 DEF WatchRegs
<1> QED
  BY <1>3 DEF BreakRegs

\* The registers after SetDebugRegs, one by one.
LEMMA RegistersSet ==
  ASSUME TypeOK, SetDebugRegs, DRsOn
  PROVE  /\ DR' \in [Index -> Register]
         /\ \A i \in Index :
              \/ i < Len(WatchRegs) /\ DR'[i] = WatchRegs[i + 1] /\ DR'[i] \in WriteCell
              \/ /\ i = Len(WatchRegs) /\ BreakRegs # <<>> /\ GotABadBreak
                 /\ DR'[i] = [linear |-> BadBreak, len |-> 1, type |-> "exec"]
              \/ /\ i > Len(WatchRegs) \/ (i = Len(WatchRegs) /\ BreakRegs = <<>>)
                 /\ DR'[i] = Off
<1> DEFINE regs == WatchRegs \o BreakRegs
           exec == [linear |-> BadBreak, len |-> 1, type |-> "exec"]
           n == Len(WatchRegs)
<1>1. n \in 0..4 /\ \A k \in 1..n : WatchRegs[k] \in WriteCell
  <2>1. WatchRegs \in Seq(WriteCell) /\ n <= 4
    BY RegsHandedOut
  <2>2. n \in Nat /\ \A k \in 1..n : WatchRegs[k] \in WriteCell
    BY <2>1, LenProperties, ElementOfSeq
  <2> HIDE DEF n
  <2> QED
    BY <2>1, <2>2
<1>2. BreakRegs = <<>> \/ (BreakRegs = <<exec>> /\ GotABadBreak)
  BY RegsHandedOut
<1>3. exec \in Register /\ Off \in Register /\ WriteCell \subseteq Register
  BY AddressAssumption DEF TypeOK, Register, Off, WriteCell
<1>4. WatchRegs \in Seq(Register) /\ BreakRegs \in Seq(Register)
  <2>1. WatchRegs \in Seq(WriteCell)
    BY RegsHandedOut
  <2>2. <<>> \in Seq(Register) /\ <<exec>> \in Seq(Register)
    BY <1>3, EmptySeq
  <2>5. WatchRegs \in Seq(Register)
    BY <1>3, <2>1, SeqMonotonic
  <2> HIDE DEF exec
  <2> QED
    BY <1>2, <2>2, <2>5
<1>5. /\ Len(regs) = n + Len(BreakRegs)
      /\ \A i \in 1..n + Len(BreakRegs) :
           regs[i] = IF i <= n THEN WatchRegs[i] ELSE BreakRegs[i - n]
  BY <1>4, ConcatProperties
<1>6. Len(BreakRegs) = (IF BreakRegs = <<>> THEN 0 ELSE 1)
      /\ (BreakRegs # <<>> => BreakRegs[1] = exec)
  BY <1>2
<1>7. DR' = [i \in Index |-> IF i < Len(regs) THEN regs[i + 1] ELSE Off]
  BY DEF SetDebugRegs
<1> HIDE DEF exec, regs, n
<1>8. ASSUME NEW i \in Index
      PROVE  \/ i < n /\ DR'[i] = WatchRegs[i + 1] /\ DR'[i] \in WriteCell
             \/ i = n /\ BreakRegs # <<>> /\ GotABadBreak /\ DR'[i] = exec
             \/ (i > n \/ (i = n /\ BreakRegs = <<>>)) /\ DR'[i] = Off
  <2>0. i \in 0..3 /\ DR'[i] = IF i < Len(regs) THEN regs[i + 1] ELSE Off
    BY <1>7 DEF Index
  <2>1. CASE i < n
    <3>1. i + 1 \in 1..n /\ i + 1 \in 1..n + Len(BreakRegs) /\ i < Len(regs)
      BY <1>1, <1>5, <1>6, <2>0, <2>1
    <3> QED
      BY <1>1, <1>5, <2>0, <2>1, <3>1
  <2>2. CASE i = n /\ BreakRegs # <<>>
    <3>1. i + 1 \in 1..n + Len(BreakRegs) /\ i < Len(regs) /\ ~(i + 1 <= n) /\ (i + 1) - n = 1
      BY <1>1, <1>5, <1>6, <2>0, <2>2
    <3> QED
      BY <1>2, <1>5, <1>6, <2>0, <2>2, <3>1
  <2>3. CASE i > n \/ (i = n /\ BreakRegs = <<>>)
    <3>1. ~(i < Len(regs))
      <4>1. CASE i > n
        BY <1>1, <1>5, <1>6, <2>0, <4>1
      <4>2. CASE i = n /\ Len(BreakRegs) = 0
        BY <1>1, <1>5, <2>0, <4>2
      <4> QED
        BY <1>6, <2>3, <4>1, <4>2
    <3> QED
      BY <1>1, <2>0, <2>3, <3>1
  <2> QED
    BY <1>1, <2>0, <2>1, <2>2, <2>3
<1>9. DR' \in [Index -> Register]
  <2>1. \A i \in Index : DR'[i] \in Register
    BY <1>3, <1>8 DEF exec
  <2> QED
    BY <1>7, <2>1
<1> QED
  BY <1>8, <1>9 DEF n, exec
-----------------------------------------------------------------------------
\* A watchpoint as ReqSet_watch enters it.
LEMMA WatchAtTyped ==
  ASSUME NEW b \in Bytes, NEW n \in Sizes
  PROVE  WatchAt(b, n) \in Watch
<1>1. b \in Nat /\ n \in Nat \ {0}
  BY AddressAssumption, SizeAssumption
<1>2. (b \div n) * n \in Nat
  <2>1. b \div n \in Nat
    BY <1>1
  <2> QED
    BY <1>1, <2>1
<1> QED
  BY <1>2 DEF WatchAt, Watch

\* Return keeps the types, whatever trap ended the run.
LEMMA ReturnTyped ==
  ASSUME TypeOK, UNCHANGED DRsOn, NEW trap, NEW dr6, Return(trap, dr6), ip' \in Code
  PROVE  TypeOK'
<1>1. MapReturn(TrapOf(trap, dr6)) \in Conditions
  BY DEF MapReturn, Conditions
<1>2. DR' \in [Index -> Register] /\ IsBreak' \in [Index -> BOOLEAN]
  <2>1. Off \in Register
    BY DEF Off, Register
  <2> QED
    BY <2>1 DEF Return, ClearDebugRegs, TypeOK
<1>3. WatchPoints' = <<>> /\ WatchPoints' \in Seq(Watch) /\ Len(WatchPoints') <= MAX_WP
  BY TableAssumption, EmptySeq DEF Return
<1>4. mem' \subseteq Code
  BY DEF Return, TypeOK
<1> QED
  BY <1>1, <1>2, <1>3, <1>4 DEF Return, TypeOK

\* Every step keeps the types.
LEMMA TypeStep ==
  ASSUME TypeOK, [Next]_vars
  PROVE  TypeOK'
<1>0. UNCHANGED DRsOn
  BY DEF Next, vars
<1>1. ASSUME NEW b \in Bytes, NEW n \in Sizes, ReqSet_watch(b, n)
      PROVE  TypeOK'
  <2>1. WatchAt(b, n) \in Watch
    BY WatchAtTyped
  <2>2. WatchPoints' \in Seq(Watch) /\ Len(WatchPoints') <= MAX_WP
    <3>1. CASE Len(WatchPoints) < MAX_WP
      <4>1. WatchPoints' = Append(WatchPoints, WatchAt(b, n))
        BY <1>1, <3>1 DEF ReqSet_watch
      <4>2. WatchPoints' \in Seq(Watch) /\ Len(WatchPoints') = Len(WatchPoints) + 1
        BY <2>1, <4>1, AppendProperties DEF TypeOK
      <4> QED
        BY <3>1, <4>2, TableAssumption, LenProperties DEF TypeOK
    <3>2. CASE ~(Len(WatchPoints) < MAX_WP)
      BY <1>1, <3>2 DEF ReqSet_watch, TypeOK
    <3> QED
      BY <3>1, <3>2
  <2> HIDE DEF WatchAt
  <2> QED
    BY <1>0, <1>1, <2>2 DEF ReqSet_watch, TypeOK, registers, debugger, debuggee
<1>2. CASE ReqClear_watch \/ Retry
  <2>1. WatchPoints' \in Seq(Watch) /\ Len(WatchPoints') <= MAX_WP
    <3>1. <<>> \in Seq(Watch) /\ Len(<<>>) <= MAX_WP
      BY TableAssumption, EmptySeq
    <3> QED
      BY <1>2, <3>1 DEF ReqClear_watch, Retry, TypeOK, tables
  <2> QED
    BY <1>0, <1>2, <2>1
       DEF ReqClear_watch, Retry, TypeOK, tables, registers, replies, debugger, debuggee
<1>3. ASSUME NEW a \in Code, ReqSet_break(a) \/ ReqClear_break(a)
      PROVE  TypeOK'
  BY <1>0, <1>3
     DEF ReqSet_break, ReqClear_break, TypeOK, registers, replies, debuggee
<1>4. CASE ReqProg_go
  <2>1. DR' \in [Index -> Register]
    BY <1>4, RegistersSet DEF ReqProg_go, SetDebugRegs, TypeOK
  <2>2. IsBreak' \in [Index -> BOOLEAN]
    BY <1>4 DEF ReqProg_go, SetDebugRegs, TypeOK
  <2> QED
    BY <1>0, <1>4, <2>1, <2>2 DEF ReqProg_go, TypeOK, tables, debuggee, Conditions
<1>5. CASE ReqProg_step
  BY <1>0, <1>5 DEF ReqProg_step, TypeOK, tables, debuggee, Conditions
<1>6. CASE HitBreak
  BY <1>0, <1>6, ReturnTyped DEF HitBreak, TypeOK
<1>7. ASSUME NEW a \in Code, NEW bytes \in Writes, Execute(a, bytes)
      PROVE  TypeOK'
  BY <1>0, <1>7
     DEF Execute, Executed, TypeOK, tables, registers, replies, debugger, Writes
<1>8. ASSUME NEW a \in Code, NEW bytes, HitWatch(a, bytes) \/ Step(a, bytes)
      PROVE  TypeOK'
  BY <1>0, <1>8, ReturnTyped DEF HitWatch, Step, Executed
<1>9. ASSUME NEW trap, Interrupted(trap)
      PROVE  TypeOK'
  BY <1>0, <1>9, ReturnTyped DEF Interrupted, TypeOK
<1>10. CASE UNCHANGED vars
  BY <1>0, <1>10 DEF vars, TypeOK, tables, registers, replies, debugger, debuggee
<1> QED
  BY <1>1, <1>2, <1>3, <1>4, <1>5, <1>6, <1>7, <1>8, <1>9, <1>10
     DEF Next, Debugger, Debuggee

\* Every variable keeps its type.
THEOREM TypeCorrect == Spec => []TypeOK
<1>1. Init => TypeOK
  <2>1. Off \in Register
    BY DEF Off, Register
  <2>2. <<>> \in Seq(Watch) /\ Len(<<>>) <= MAX_WP
    BY TableAssumption, EmptySeq
  <2> QED
    BY <2>1, <2>2 DEF Init, TypeOK, Conditions
<1>2. TypeOK /\ [Next]_vars => TypeOK'
  BY TypeStep
<1> QED
  BY <1>1, <1>2, PTL DEF Spec
-----------------------------------------------------------------------------
(***************************************************************************)
(* The inductive invariant: where the table, the planted breakpoints and   *)
(* the registers come from.                                                *)
(***************************************************************************)

\* Every entry is as ReqSet_watch made it.
WatchesMade ==
  \A i \in DOMAIN WatchPoints :
    /\ WatchPoints[i].addr \in Bytes /\ WatchPoints[i].len \in Sizes
    /\ WatchPoints[i] = WatchAt(WatchPoints[i].addr, WatchPoints[i].len)

\* The reply to the last Set_watch speaks of the table as it is.
Promised == multiplier => DRsOn /\ Needed(WatchPoints) <= 4

\* An INT3 is in memory for every breakpoint that can be written; the last
\* one that cannot is remembered until the clearing begins.
Planting ==
  /\ mem = planted \ Rom
  /\ phase # "clear" =>
       /\ GotABadBreak <=> planted \cap Rom # {}
       /\ GotABadBreak => BadBreak \in planted \cap Rom

\* What a run goes with: a register for instructions is the breakpoint in
\* ROM, and only such a one is marked; every cell of every watchpoint is in
\* some register, unless the run single-steps; and the breakpoint in ROM is in
\* one if there is one left, unless the debugger asked for a single step.
BreakCell == [linear |-> BadBreak, len |-> 1, type |-> "exec"]
Armed ==
  /\ phase # "run" => wrote = {}
  /\ phase = "run" =>
       /\ conditions = "none"
       /\ \A i \in Index : /\ DR[i].type = "exec" => DR[i] = BreakCell /\ GotABadBreak
                           /\ IsBreak[i] => DR[i].type = "exec"
       /\ ~FLG_T => \A i \in DOMAIN WatchPoints :
                      Range(Cells(WatchPoints[i])) \subseteq Range(DR)
       /\ ~(FLG_T /\ TraceRtn = "single") /\ DRsOn /\ GotABadBreak
            /\ Needed(WatchPoints) # 4 => \E r \in Index : DR[r] = BreakCell

IInv == TypeOK /\ Quiet /\ Untouched /\ WatchesMade /\ Promised /\ Planting /\ Armed

\* A go arms what the run needs.
LEMMA GoArms ==
  ASSUME TypeOK, Quiet, Armed, ReqProg_go, UNCHANGED DRsOn
  PROVE  Armed'
<1> DEFINE n == Len(WatchRegs)
<1>1. /\ SetDebugRegs /\ phase = "set" /\ phase' = "run" /\ conditions' = "none"
      /\ UNCHANGED <<WatchPoints, BadBreak, GotABadBreak>>
      /\ FLG_T' = (WatchPoints # <<>> /\ ~watch386)
      /\ TraceRtn' = IF WatchPoints # <<>> /\ ~watch386 THEN "watch" ELSE "single"
  BY DEF ReqProg_go, tables
<1>2. n \in 0..4
  <2>1. WatchRegs \in Seq(WriteCell) /\ n <= 4
    BY RegsHandedOut
  <2>2. n \in Nat
    BY <2>1, LenProperties
  <2> HIDE DEF n
  <2> QED
    BY <2>1, <2>2
<1>3. ASSUME NEW i \in Index
      PROVE  /\ DR'[i].type = "exec" => DR'[i] = BreakCell /\ GotABadBreak
             /\ IsBreak'[i] => DR'[i].type = "exec"
  <2>1. ~IsBreak[i] /\ DR[i].type = "off"
    BY <1>1 DEF Quiet
  <2>2. CASE DRsOn
    <3>1. \/ i < n /\ DR'[i] \in WriteCell
          \/ i = n /\ BreakRegs # <<>> /\ GotABadBreak /\ DR'[i] = BreakCell
          \/ (i > n \/ (i = n /\ BreakRegs = <<>>)) /\ DR'[i] = Off
      BY <1>1, <2>2, RegistersSet DEF BreakCell
    <3>2. IsBreak'[i] => i = n /\ BreakRegs # <<>>
      BY <1>1, <2>1, <2>2 DEF SetDebugRegs, TypeOK
    <3>3. i \in 0..3
      BY DEF Index
    <3> QED
      BY <1>2, <3>1, <3>2, <3>3 DEF WriteCell, Off, BreakCell
  <2>3. CASE ~DRsOn
    BY <1>1, <2>1, <2>3 DEF SetDebugRegs
  <2> QED
    BY <2>2, <2>3
<1>4. ASSUME ~FLG_T', NEW i \in DOMAIN WatchPoints
      PROVE  Range(Cells(WatchPoints[i])) \subseteq Range(DR')
  <2>1. watch386
    <3>1. WatchPoints # <<>>
      BY <1>4, EmptySeq
    <3> QED
      BY <1>1, <1>4, <3>1
  <2>2. DRsOn /\ WatchRegs = WatchCells
    BY <2>1, RegsHandedOut DEF watch386
  <2>3. Range(Cells(WatchPoints[i])) \subseteq Range(WatchCells)
    BY <1>4, WatchCellsHold DEF TypeOK
  <2>4. WatchRegs \in Seq(WriteCell)
    BY RegsHandedOut
  <2>5. Range(WatchRegs) = {WatchRegs[k] : k \in 1..n}
    BY <2>4, RangeEquality
  <2>6. ASSUME NEW k \in 1..n PROVE WatchRegs[k] \in Range(DR')
    <3>1. k - 1 \in Index /\ k - 1 < n /\ (k - 1) + 1 = k
      <4> HIDE DEF n
      <4> QED
        BY <1>2, <2>6 DEF Index
    <3>2. DR' \in [Index -> Register]
      BY <1>1, <2>2, RegistersSet
    <3>3. DR'[k - 1] = WatchRegs[(k - 1) + 1]
      <4>1. ASSUME NEW j \in Index, j < n PROVE DR'[j] = WatchRegs[j + 1]
        <5>1. \/ DR'[j] = WatchRegs[j + 1]
              \/ j = n
              \/ j > n
          BY <1>1, <2>2, RegistersSet
        <5>2. j \in 0..3 /\ j < n
          BY <4>1 DEF Index
        <5> HIDE DEF n
        <5> QED
          BY <1>2, <5>1, <5>2
      <4> QED
        BY <3>1, <4>1
    <3> QED
      BY <3>1, <3>2, <3>3 DEF Range
  <2> QED
    BY <2>2, <2>3, <2>5, <2>6
<1>5. ASSUME DRsOn, GotABadBreak, Needed(WatchPoints) # 4
      PROVE  \E r \in Index : DR'[r] = BreakCell
  <2>1. n < 4
    <3>1. CASE Needed(WatchPoints) <= 4
      BY <1>2, <1>5, <3>1, RegsHandedOut
    <3>2. CASE ~(Needed(WatchPoints) <= 4)
      BY <3>2, EmptySeq DEF WatchRegs
    <3> QED
      BY <3>1, <3>2
  <2>2. BreakRegs # <<>>
    BY <1>5, <2>1 DEF BreakRegs
  <2>3. n \in Index
    BY <1>2, <2>1 DEF Index
  <2>4. DR'[n] = BreakCell
    <3>1. ~(n < n) /\ ~(n > n)
      BY <1>2
    <3> QED
      BY <1>1, <1>5, <2>2, <2>3, <3>1, RegistersSet DEF BreakCell
  <2> QED
    BY <2>3, <2>4
<1> QED
  BY <1>1, <1>3, <1>4, <1>5 DEF Armed, BreakCell
\* Return ends the run: nothing is promised, armed or written.
LEMMA ReturnEnds ==
  ASSUME IInv, phase = "run", UNCHANGED DRsOn, NEW trap, NEW dr6, Return(trap, dr6)
  PROVE  WatchesMade' /\ Promised' /\ Planting' /\ Armed'
<1>1. phase' # "run" /\ wrote' = {} /\ ~multiplier'
  BY DEF Return
<1>2. WatchPoints' = <<>> /\ DOMAIN <<>> = {}
  BY EmptySeq DEF Return
<1>3. UNCHANGED <<BadBreak, GotABadBreak, mem, planted>>
  BY DEF Return
<1> QED
  BY <1>1, <1>2, <1>3 DEF WatchesMade, Promised, Planting, Armed, IInv

\* The invariant is inductive.
LEMMA InvariantStep == IInv /\ [Next]_vars => IInv'
<1> SUFFICES ASSUME IInv, [Next]_vars PROVE IInv'
  OBVIOUS
<1>0. UNCHANGED DRsOn
  BY DEF Next, vars
<1> SUFFICES WatchesMade' /\ Promised' /\ Planting' /\ Armed'
  BY TypeStep, QuietStep DEF IInv
<1>1. ASSUME NEW b \in Bytes, NEW n \in Sizes, ReqSet_watch(b, n)
      PROVE  WatchesMade' /\ Promised' /\ Planting' /\ Armed'
  <2>1. CASE Len(WatchPoints) < MAX_WP
    <3>1. WatchPoints' = Append(WatchPoints, WatchAt(b, n))
          /\ multiplier' = (DRsOn /\ Needed(WatchPoints') <= 4)
      BY <1>1, <2>1 DEF ReqSet_watch
    <3>2. WatchesMade'
      <4>1. WatchAt(b, n) \in Watch /\ WatchPoints \in Seq(Watch)
        BY WatchAtTyped DEF IInv, TypeOK
      <4>2. /\ DOMAIN WatchPoints' = 1..Len(WatchPoints) + 1
            /\ \A i \in 1..Len(WatchPoints) : WatchPoints'[i] = WatchPoints[i]
            /\ WatchPoints'[Len(WatchPoints) + 1] = WatchAt(b, n)
        <5>1. WatchPoints' \in Seq(Watch)
          BY <3>1, <4>1, AppendProperties
        <5> QED
          BY <3>1, <4>1, <5>1, AppendProperties, LenProperties
      <4>3. Len(WatchPoints) \in Nat /\ DOMAIN WatchPoints = 1..Len(WatchPoints)
        BY <4>1, LenProperties
      <4>4. ASSUME NEW i \in DOMAIN WatchPoints'
            PROVE  /\ WatchPoints'[i].addr \in Bytes /\ WatchPoints'[i].len \in Sizes
                   /\ WatchPoints'[i] = WatchAt(WatchPoints'[i].addr, WatchPoints'[i].len)
        <5>1. CASE i = Len(WatchPoints) + 1
          BY <4>2, <5>1 DEF WatchAt
        <5>2. CASE i \in 1..Len(WatchPoints)
          BY <4>2, <4>3, <5>2 DEF IInv, WatchesMade
        <5> QED
          BY <4>2, <4>3, <4>4, <5>1, <5>2
      <4> QED
        BY <4>4 DEF WatchesMade
    <3>3. Promised'
      BY <1>0, <3>1 DEF Promised
    <3> QED
      BY <1>0, <1>1, <3>2, <3>3
         DEF ReqSet_watch, Planting, Armed, IInv, debugger, debuggee
  <2>2. CASE ~(Len(WatchPoints) < MAX_WP)
    BY <1>0, <1>1, <2>2
       DEF ReqSet_watch, WatchesMade, Promised, Planting, Armed, IInv, debugger, debuggee
  <2> QED
    BY <2>1, <2>2
<1>2. CASE ReqClear_watch
  <2>1. DOMAIN WatchPoints' = {}
    BY <1>2, EmptySeq DEF ReqClear_watch
  <2> QED
    BY <1>0, <1>2, <2>1
       DEF ReqClear_watch, WatchesMade, Promised, Planting, Armed, IInv, debugger, debuggee
<1>3. CASE Retry
  BY <1>0, <1>3
     DEF Retry, WatchesMade, Promised, Planting, Armed, IInv, tables, replies, debuggee
<1>4. ASSUME NEW a \in Code, ReqSet_break(a)
      PROVE  WatchesMade' /\ Promised' /\ Planting' /\ Armed'
  <2>1. Planting'
    BY <1>4 DEF ReqSet_break, Planting, IInv
  <2> QED
    BY <1>0, <1>4, <2>1
       DEF ReqSet_break, WatchesMade, Promised, Armed, IInv, replies, debuggee
<1>5. ASSUME NEW a \in Code, ReqClear_break(a)
      PROVE  WatchesMade' /\ Promised' /\ Planting' /\ Armed'
  <2>1. Planting'
    BY <1>5 DEF ReqClear_break, Planting, IInv
  <2> QED
    BY <1>0, <1>5, <2>1
       DEF ReqClear_break, WatchesMade, Promised, Armed, IInv, replies, debuggee
<1>6. CASE ReqProg_go
  BY <1>0, <1>6, GoArms
     DEF ReqProg_go, WatchesMade, Promised, Planting, IInv, tables
<1>7. CASE ReqProg_step
  <2>1. Armed'
    BY <1>7 DEF ReqProg_step, Armed, Quiet, IInv
  <2> QED
    BY <1>0, <1>7, <2>1
       DEF ReqProg_step, WatchesMade, Promised, Planting, IInv, tables
<1>8. CASE HitBreak
  BY <1>0, <1>8, ReturnEnds DEF HitBreak
<1>9. ASSUME NEW a \in Code, NEW bytes \in Writes, Execute(a, bytes)
      PROVE  WatchesMade' /\ Promised' /\ Planting' /\ Armed'
  BY <1>0, <1>9
     DEF Execute, Executed, WatchesMade, Promised, Planting, Armed, BreakCell, IInv,
         tables, registers, replies, debugger
<1>10. ASSUME NEW a \in Code, NEW bytes, HitWatch(a, bytes) \/ Step(a, bytes)
       PROVE  WatchesMade' /\ Promised' /\ Planting' /\ Armed'
  BY <1>0, <1>10, ReturnEnds DEF HitWatch, Step, Executed
<1>11. ASSUME NEW trap, Interrupted(trap)
       PROVE  WatchesMade' /\ Promised' /\ Planting' /\ Armed'
  BY <1>0, <1>11, ReturnEnds DEF Interrupted
<1>12. CASE UNCHANGED vars
  BY <1>12
     DEF vars, WatchesMade, Promised, Planting, Armed, BreakCell, IInv,
         tables, registers, replies, debugger, debuggee
<1> QED
  BY <1>1, <1>2, <1>3, <1>4, <1>5, <1>6, <1>7, <1>8, <1>9, <1>10, <1>11, <1>12
     DEF Next, Debugger, Debuggee
\* The invariant holds of the debugger's start,
LEMMA InvariantInit == Init => IInv
<1> SUFFICES ASSUME Init PROVE IInv
  OBVIOUS
<1>1. TypeOK /\ Quiet /\ Untouched
  <2>1. Off \in Register
    BY DEF Off, Register
  <2>2. <<>> \in Seq(Watch) /\ Len(<<>>) <= MAX_WP
    BY TableAssumption, EmptySeq
  <2> QED
    BY <2>1, <2>2 DEF Init, TypeOK, Conditions, Quiet, Untouched, Off
<1>2. WatchesMade
  BY EmptySeq DEF Init, WatchesMade
<1> QED
  BY <1>1, <1>2 DEF Init, IInv, Promised, Planting, Armed

\* and therefore always.
LEMMA InvariantHolds == Spec => []IInv
  BY InvariantInit, InvariantStep, PTL DEF Spec

-----------------------------------------------------------------------------
(* Watchpoints. *)

\* The cells of a watchpoint cover its bytes, but for an unaligned word: its
\* second cell is two bytes too far on.
LEMMA CellsCover ==
  ASSUME NEW b \in Bytes, NEW n \in Sizes,
         ~(n = 2 /\ WatchAt(b, n).dregs = 2), NEW x \in Watched(WatchAt(b, n))
  PROVE  \E c \in Range(Cells(WatchAt(b, n))) : c.type = "write" /\ x \in Cover(c)
<1> DEFINE w == WatchAt(b, n)
           q == b \div n
           cell(l) == [linear |-> l, len |-> n, type |-> "write"]
<1>1. b \in Nat /\ n \in {1, 2, 4} /\ x \in Int /\ b <= x /\ x < b + n
  BY AddressAssumption, SizeAssumption DEF Watched, WatchAt
<1>2. q \in Nat /\ b = (q * n) + (b % n) /\ b % n \in 0..n - 1
  <2>1. CASE n = 1
    BY <1>1, <2>1
  <2>2. CASE n = 2
    BY <1>1, <2>2
  <2>3. CASE n = 4
    BY <1>1, <2>3
  <2> QED
    BY <1>1, <2>1, <2>2, <2>3
<1>3. w.linear = q * n /\ w.len = n /\ w.dregs = IF b % n # 0 THEN 2 ELSE 1
  BY DEF WatchAt
<1>4. \A l \in Int : x \in Cover(cell(l)) <=> l <= x /\ x <= l + n - 1
  BY <1>1 DEF Cover
<1> HIDE DEF w, q
<1>5. CASE b % n = 0
  <2>1. Cells(w) = <<cell(w.linear)>>
    BY <1>3, <1>5 DEF Cells
  <2>2. cell(w.linear) \in Range(Cells(w))
    BY <2>1 DEF Range
  <2>3. w.linear = b
    <3>1. q * n \in Nat
      BY <1>1, <1>2
    <3> QED
      BY <1>1, <1>2, <1>3, <1>5, <3>1
  <2>4. x \in Cover(cell(w.linear))
    BY <1>1, <1>4, <2>3
  <2> QED
    BY <2>2, <2>4 DEF w
<1>6. CASE b % n # 0
  <2>1. n = 4
    BY <1>1, <1>2, <1>3, <1>6 DEF w
  <2>2. Cells(w) = <<cell(w.linear), cell(w.linear + 4)>>
    BY <1>3, <1>6 DEF Cells
  <2>3. cell(w.linear) \in Range(Cells(w)) /\ cell(w.linear + 4) \in Range(Cells(w))
    BY <2>2 DEF Range
  <2>4. w.linear \in Nat /\ w.linear <= x /\ x <= w.linear + 7
    BY <1>1, <1>2, <1>3, <2>1
  <2>5. x \in Cover(cell(w.linear)) \/ x \in Cover(cell(w.linear + 4))
    BY <1>1, <1>4, <2>1, <2>4
  <2> QED
    BY <2>3, <2>5 DEF w
<1> QED
  BY <1>5, <1>6

\* A run does not go on over a change of a watched byte (dosacc.c,
\* SetDebugRegs and the stepping watch).
THEOREM WatchpointsSeen == Spec => []WatchSeen
<1>1. IInv => (Init => WatchSeen)
  BY DEF Init, WatchSeen
<1>2. IInv /\ WatchSeen /\ [Next]_vars => WatchSeen'
  <2> SUFFICES ASSUME IInv, WatchSeen, [Next]_vars, phase' = "run",
                      NEW i \in DOMAIN WatchPoints'
               PROVE  \/ wrote' \cap Watched(WatchPoints'[i]) = {}
                      \/ (WatchPoints'[i].len = 2 /\ WatchPoints'[i].dregs = 2 /\ ~FLG_T')
    BY DEF WatchSeen
  <2>1. CASE ReqProg_go \/ ReqProg_step
    BY <2>1 DEF ReqProg_go, ReqProg_step, debuggee, IInv, Armed
  <2>2. ASSUME NEW a, NEW bytes \in Writes, Execute(a, bytes)
        PROVE  \/ wrote' \cap Watched(WatchPoints'[i]) = {}
               \/ (WatchPoints'[i].len = 2 /\ WatchPoints'[i].dregs = 2 /\ ~FLG_T')
    <3> DEFINE b == WatchPoints[i].addr
               n == WatchPoints[i].len
    <3>1. /\ wrote' = bytes /\ WatchPoints' = WatchPoints /\ FLG_T' = FLG_T
          /\ Triggered("write", bytes) = {} /\ phase = "run"
          /\ FLG_T => ~Differs(bytes)
      BY <2>2 DEF Execute, Executed, tables, registers
    <3>2. i \in DOMAIN WatchPoints /\ b \in Bytes /\ n \in Sizes
          /\ WatchPoints[i] = WatchAt(b, n)
      BY <3>1 DEF IInv, WatchesMade
    <3>3. CASE FLG_T
      <4>1. Compared(WatchPoints[i]) \cap bytes = {}
        BY <3>1, <3>2, <3>3 DEF Differs
      <4>2. Watched(WatchPoints[i]) \subseteq Compared(WatchPoints[i])
        <5>1. b \in Nat /\ n \in 1..4
          <6> HIDE DEF b, n
          <6> QED
            BY <3>2, AddressAssumption, SizeAssumption
        <5>2. b .. (b + n - 1) \subseteq b .. (b + 3)
          BY <5>1
        <5> QED
          BY <5>2 DEF Watched, Compared
      <4> QED
        BY <3>1, <4>1, <4>2
    <3>4. CASE ~FLG_T /\ ~(n = 2 /\ WatchPoints[i].dregs = 2)
      <4>1. Range(Cells(WatchPoints[i])) \subseteq Range(DR)
        BY <3>1, <3>2, <3>4 DEF IInv, Armed
      <4>2. ASSUME NEW x \in bytes, x \in Watched(WatchPoints[i]) PROVE FALSE
        <5>1. PICK c \in Range(Cells(WatchPoints[i])) : c.type = "write" /\ x \in Cover(c)
          BY <3>2, <3>4, <4>2, CellsCover
        <5>2. PICK r \in Index : DR[r] = c
          BY <4>1, <5>1 DEF Range, IInv, TypeOK
        <5>3. r \in Triggered("write", bytes)
          BY <4>2, <5>1, <5>2 DEF Triggered
        <5> QED
          BY <3>1, <5>3
      <4> QED
        BY <3>1, <4>2
    <3> QED
      BY <3>1, <3>3, <3>4
  <2>3. CASE UNCHANGED vars
    BY <2>3 DEF vars, tables, registers, debugger, debuggee, WatchSeen
  <2>4. (\E a, bytes : HitWatch(a, bytes) \/ Step(a, bytes))
          \/ HitBreak \/ (\E trap : Interrupted(trap)) => FALSE
    BY DEF HitWatch, Step, HitBreak, Interrupted, Return
  <2>5. (\E b \in Bytes, n \in Sizes : ReqSet_watch(b, n)) \/ ReqClear_watch \/ Retry
          \/ (\E a \in Code : ReqSet_break(a) \/ ReqClear_break(a)) => FALSE
    BY DEF ReqSet_watch, ReqClear_watch, Retry, ReqSet_break, ReqClear_break, debugger
  <2> QED
    BY <2>1, <2>2, <2>3, <2>4, <2>5 DEF Next, Debugger, Debuggee
<1> QED
  BY <1>1, <1>2, InvariantHolds, InvariantInit, PTL DEF Spec
-----------------------------------------------------------------------------
(* Breakpoints. *)

\* Every trap but these leaves the run with another condition.
LEMMA BreakReported ==
  ASSUME NEW trap, NEW dr6, MapReturn(TrapOf(trap, dr6)) = "BREAK"
  PROVE  \/ trap = "BREAK_POINT"
         \/ trap = "WATCH_POINT" /\ \E i \in dr6 : IsBreak[i]
BY DEF MapReturn, TrapOf

\* No step of a run passes a breakpoint, and none reports one that is not set.
LEMMA BreakpointStep ==
  ASSUME IInv, [Next]_vars, phase = "run", ~UNCHANGED vars
  PROVE  /\ phase' = "run" => ip \notin planted \/ Unarmed
         /\ conditions' = "BREAK" => ip' \in planted
<1>0. mem = planted \ Rom /\ (GotABadBreak <=> planted \cap Rom # {})
      /\ (GotABadBreak => BadBreak \in planted \cap Rom)
  BY DEF IInv, Planting
<1>a. \A r \in Index : DR[r].type = "exec" => DR[r] = BreakCell /\ GotABadBreak
  BY DEF IInv, Armed
<1>1. CASE HitBreak
  <2>1. phase' # "run" /\ ip' = ip
    BY <1>1 DEF HitBreak, Return
  <2>2. ip \in mem \/ Triggered("exec", {ip}) # {}
    BY <1>1 DEF HitBreak
  <2>3. ASSUME NEW r \in Triggered("exec", {ip}) PROVE ip \in planted
    <3>1. r \in Index /\ DR[r] = BreakCell /\ BadBreak \in planted /\ ip \in Cover(DR[r])
      BY <1>0, <1>a, <2>3 DEF Triggered
    <3>2. BadBreak \in Nat /\ ip \in Nat
      BY <3>1, AddressAssumption DEF IInv, TypeOK
    <3>3. Cover(DR[r]) = {BadBreak}
      BY <3>1, <3>2 DEF Cover, BreakCell
    <3> QED
      BY <3>1, <3>3
  <2> QED
    BY <1>0, <2>1, <2>2, <2>3
<1>2. ASSUME NEW a \in Code, NEW bytes \in Writes, Execute(a, bytes)
      PROVE  /\ ip \notin planted \/ Unarmed
             /\ conditions' # "BREAK"
  <2>1. conditions' # "BREAK"
    BY <1>2 DEF Execute, replies, IInv, Armed
  <2>2. SUFFICES ASSUME ip \in planted PROVE Unarmed
    BY <2>1
  <2>3. ip \in Rom /\ GotABadBreak
    BY <1>0, <1>2, <2>2 DEF Execute, Executed
  <2>4. SUFFICES ASSUME DRsOn, Needed(WatchPoints) # 4, planted \cap Rom = {ip}
                 PROVE  FALSE
    BY <2>3 DEF Unarmed
  <2>5. BadBreak = ip /\ ip \in Nat
    BY <1>0, <2>3, <2>4, AddressAssumption
  <2>6. ~(FLG_T /\ TraceRtn = "single")
    BY <1>2 DEF Execute
  <2>7. PICK r \in Index : DR[r] = BreakCell
    BY <2>3, <2>4, <2>6 DEF IInv, Armed
  <2>8. r \in Triggered("exec", {ip})
    BY <2>5, <2>7 DEF Triggered, Cover, BreakCell
  <2> QED
    BY <1>2, <2>8 DEF Execute, Executed
<1>3. ASSUME NEW a, NEW bytes, HitWatch(a, bytes) \/ Step(a, bytes)
      PROVE  phase' # "run" /\ conditions' # "BREAK"
  <2>1. phase' # "run"
    BY <1>3 DEF HitWatch, Step, Return
  <2>2. conditions' = MapReturn(TrapOf("TRACE_POINT", {}))
          \/ conditions' = MapReturn(TrapOf("WATCH_POINT", Triggered("write", bytes)))
    BY <1>3 DEF HitWatch, Step, Return
  <2>3. \A r \in Triggered("write", bytes) : ~IsBreak[r]
    BY DEF Triggered, IInv, Armed
  <2> QED
    BY <2>1, <2>2, <2>3, BreakReported
<1>4. ASSUME NEW trap \in {"USER", "TERMINATE", "MACH_EXCEPTION", "OVL_CHANGE_LOAD"},
             Interrupted(trap)
      PROVE  phase' # "run" /\ conditions' # "BREAK"
  BY <1>4, BreakReported DEF Interrupted, Return
<1>5. ~Debugger
  <2>1. \A b, n : ~ReqSet_watch(b, n)
    BY DEF ReqSet_watch
  <2>2. \A a : ~ReqSet_break(a) /\ ~ReqClear_break(a)
    BY DEF ReqSet_break, ReqClear_break
  <2> QED
    BY <2>1, <2>2 DEF Debugger, ReqClear_watch, Retry, ReqProg_go, ReqProg_step
<1> QED
  BY <1>1, <1>2, <1>3, <1>4, <1>5 DEF Next, Debuggee

\* A run stops at a breakpoint, and reports one only where one is set
\* (dosacc.c, ReqSet_break, SetDebugRegs and ClearDebugRegs).
THEOREM StopsAtBreakpoints == Spec => BreakpointsTrue
<1>1. IInv /\ [Next]_vars =>
        [phase = "run" /\ phase' = "run" => ip \notin planted \/ Unarmed]_vars
  BY BreakpointStep
<1>2. IInv /\ [Next]_vars =>
        [phase = "run" /\ conditions' = "BREAK" => ip' \in planted]_vars
  BY BreakpointStep
<1> QED
  BY <1>1, <1>2, InvariantHolds, PTL
     DEF Spec, BreakpointsTrue, BreakpointStops, BreakIsOurs

\* A run that was promised debug registers does not step for its watchpoints
\* (dosacc.c, ReqSet_watch and SetDebugRegs).
THEOREM RegistersAsPromised == Spec => PromiseKept
<1>1. IInv /\ [Next]_vars =>
        [phase = "set" /\ phase' = "run" /\ multiplier => TraceRtn' = "single"]_vars
  <2> SUFFICES ASSUME IInv, Next, phase = "set", phase' = "run", multiplier
               PROVE  TraceRtn' = "single"
    OBVIOUS
  <2>1. watch386
    BY DEF IInv, Promised, watch386
  <2>2. ~HitBreak /\ (\A a, bytes : ~(Execute(a, bytes) \/ HitWatch(a, bytes) \/ Step(a, bytes)))
        /\ (\A trap : ~Interrupted(trap))
    BY DEF HitBreak, Execute, HitWatch, Step, Executed, Interrupted
  <2>3. \A b, n, a : ~ReqSet_watch(b, n) /\ ~ReqSet_break(a) /\ ~ReqClear_break(a)
    BY DEF ReqSet_watch, ReqSet_break, ReqClear_break, debugger
  <2>4. ~ReqClear_watch /\ ~Retry
    BY DEF ReqClear_watch, Retry, debugger
  <2>5. ReqProg_go \/ ReqProg_step
    BY <2>2, <2>3, <2>4 DEF Next, Debugger, Debuggee
  <2> QED
    BY <2>1, <2>5 DEF ReqProg_go, ReqProg_step
<1> QED
  BY <1>1, InvariantHolds, PTL DEF Spec, PromiseKept
=============================================================================

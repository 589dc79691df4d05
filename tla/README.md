# HX debugger: a verification project

The repository is the HX port of the Open Watcom debugger (WD) for DOS: a
debugger core (`wv_src`), an x86 instruction stepper (`mad_src/x86`), a DOS trap
file that runs the debuggee (`trap_src`), a screen and keyboard layer
(`wv_src/dsx`, `ui_src`) and a reader of CodeView debugging information
(`dip_src`). This directory holds TLA+ models of its parts, TLC configurations
that check them on small instances, and theorems that TLAPS proves for every
instance. `PROJECT.json` lists the runs, the mutants that show each property can
fail, the source lines every definition stands for, the hazards and the theorems.

## 1. The system

| component | source | state | operations | hard parts |
|---|---|---|---|---|
| run loop | `wv_src/dbgexec.c` | `es`, `how`, `conditions`, `run_conditions` (locals of `ExecProg`), `SW_HAVE_TASK` | `ExecProg`, `Execute`, `Go`, `ReportTrap` | the passes that step off a breakpoint; masking of one reason to stop by another |
| point table | `wv_src/dbgbrk.c` | `BrkList`, `UserTmpBrk`, `DbgTmpBrk`; per point status bits, countdown, saved byte or value | plant, remove, check, edit, save, restore | bytes saved and restored in the right order; stale status bits |
| trace | `wv_src/dbgtrace.c` | `TraceState`, `DbgTmpBrk` | `TraceHow`, `TraceCheck`, `PerformTrace`, `ExecTrace` | temporary breakpoint left over by an earlier command; recursion and thunks at source level |
| x86 stepper | `mad_src/x86/x86trace.c` | previous instruction, breakpoint address | `MITraceOne`, `MITraceSimulate`, `MIUnexpectedBreak` | instructions that lose the T flag |
| images | `wv_src/dbgprog.c` | image list, mapped and unmapped points | load, free, map, unmap, remap, restart | two points mapped to one address |
| trap file | `trap_src/dosr/dosacc.c` | watchpoint table, debug registers, bad-break slot | `Req*` handlers, `ProgRun` | register allocation, limits |
| interrupt handlers | `trap_src/dosr/trap.asm` | saved stacks, `DOSCount`, `UsrInt`, hooked vectors | enter/leave debuggee, DOS and timer hooks | nesting and races with the timer |
| extender link | `trap_src/dosx/dosxlink.c` | two contexts and the `setjmp` each waits in, one buffer, the current process, vector 06h | `RemoteLink`, `RemotePut`, `RemoteGet`, `RemoteUnLink` on both sides | who runs, as which process; a reply before its request; a server that ends |
| screen | `wv_src/dsx/dsxscrn.c`, `pcscrnio.h` | `ScrnState`, saved modes and pages | flip, swap | state of two screens |
| console | `ui_src/dos/uibios.c` | cursor, shift state | BIOS calls | none: I/O |
| start-up | `wv_src/dbgmain.c` | switches | option parsing | none: straight-line |
| CodeView loader | `dip_src/cvld.c`, `cvmisc.c` | `ImageList`; per image the directory's blocks, the mapping, the file | load, map, unload, find a directory entry | a load that fails half-way; the last block |
| CodeView symbols, types | `dip_src/cvsym.c`, `cvtype.c` | the field list and inheritance path of a walk, the scope of a lookup, the best symbol so far | walks and lookups of scopes, modules, tables, members; array information | inheritance undone on every way out; scopes that touch; symbols in two tables |

How they interact. The run loop is straight code of one thread. It calls the
point table (`InsertBPs`, `UpdateWPs`, `InsertWPs`, `RemoveBPs`, `CheckBPs`) and
the trace module (`TraceHow`, `TraceCheck`), which asks the stepper; it runs the
debuggee through the trap file (`MakeProgRun` to `ProgRun`), and the two share
memory (planted INT3s) and registers. With a DOS extender the
trap file is in two halves that `dosxlink.c` joins. Symbols reach the points
through the DIP, of which `dip_src` is the reader of one format. The real nondeterminism is the debuggee,
the user (commands, break key) and, below the trap file, the timer and keyboard
interrupts.

What makes each part correct. Run loop and table: the program's bytes are back
whenever it does not run; no instruction is executed at an address where the
user asked to be stopped; a fatal end or the break key is never lost; counted
and conditional points count what happened. Trace: one command, one line or
instruction, and nothing of it survives. Images: a point follows its line
or its place, and a point that has lost its image is not planted. Trap file: a cell given to the
debug registers is covered exactly, all registers are cleared again. Handlers:
what was hooked is unhooked, the break key reaches the debugger once. Link: each
request is served once, as it was sent, and its own reply returned. CodeView: a
lookup gives what the scoping rules of the records say, each symbol once, at the
offset its path of bases gives it; a load keeps all or nothing.

## 2. The modules

| part | modules | proofs | section |
|---|---|---|---|
| run loop, trace, stepper, point table | `Points`, `ExecLoop`; abstract: `BreakService` | `ExecLoop_proofs` | 3 |
| watchpoints and breakpoints of the trap file | `TrapWatch` | `TrapWatch_proofs` | 4 |
| interrupt handlers | `DosHandlers` | `DosHandlers_proofs` | 5 |
| images and restarts | `Images` (with `Points`) | `Images_proofs` | 6 |
| CodeView | `CvLoad`, `CvTypes`, `CvWalk`, `CvSymbols`, composed by `CodeView` | `CodeView_proofs`, `CodeViewSymbols_proofs` | 7 |
| extender link | `DosxLink`; abstract: `LinkService` | `DosxLink_proofs` | 8 |

`Induction` holds what `TrapWatch_proofs`, `Images_proofs` and `CodeView_proofs` share about numbers,
recursive functions and sequences of sequences. An `MC` module beside each gives the
instance (`MCImagesFull` is the one for which the theorems about all points hold). The models meet at narrow
interfaces: what `ExecLoop` takes as the debuggee's step is `ProgRun` of
`TrapWatch`, whose `RunProg` is entry and exit in `DosHandlers`; `Images` moves
the points that `ExecLoop` plants, and asks a DIP for what `CodeView` answers.
They are checked apart, each against any behaviour of its neighbour.

Each property that a run checks has a mutant in `PROJECT.json`: a change of one
definition, as a slip in the code would make it, that the run then refutes.

## 3. The run loop

`Points` holds the records of the point table. `ExecLoop` is `ExecProg` with
everything it calls; its program counter `pc` names the places where the
debuggee or the user can act in between, or where a loop goes round:

| `pc` | code | action leaving it |
|---|---|---|
| `prompt` | the command loop | `Go`, `Trace`, and the edits of the table |
| `top` | dbgexec.c:369-383 | `Top`: how to run (TraceHow, MITraceOne) |
| `insert` | 406-421 | `Insert`: InsertBPs, UpdateWPs, InsertWPs |
| `retry` | 408-414 | `Retry`: RemoveBPs, STEP_ONE |
| `run` | 421-437 | the debuggee: `HitBreak`, `Execute`, `Fail`, `Simulate`, and `Interrupt` |
| `stopped` | 445-455 | `EndRun`: RemoveBPs, RecordMsgText |
| `check` | 456 | `Check`: CheckBPs |
| `decide` | 457-511 | `Stop` or `Continue`: TraceCheck, TBreak, next `es` |
| `report` | 533-574 | `Report`: ReportTrap |
| `destruct` | dbgbrk.c:494-499 | `Destruct`, then `Prompt` |

Data is abstracted to what the loop tells apart. A program is a graph `Succ` of
instructions with a `Kind` each; memory holds, for each instruction, whether its
first byte is its opcode or an INT3; the data is one cell. A point's condition
is a fresh choice of true, false or error at each evaluation. `SW_` switches are
constants. Four history variables (`raised`, `arrived`, `wrote`, `counted`)
remember what the run did, for the properties only (`counted` tells a countdown step on
an arrival, `CountsBreak`, from a second one on the same arrival); no guard reads them except
`raised`, which stands for `COND_WATCH` in `run_conditions` (dbgexec.c:445-446,
503) as well.

`BreakService` is the promise in terms of `ip`, the armed addresses and whether
the program is held; `ServiceSpec` says that `ExecLoop` implements it. An address
is armed when it has an active unconditional, uncounted breakpoint or is the
target of `go until`.

Assumptions: `ProgramAssumption` and `UserAssumption` give the constants their types;
`StepperAssumption` is what `CheckSpecial` and `DoTraceOne` rely on when they run an
instruction to a breakpoint behind it: it takes up bytes, and control comes back there.

Left out of this module: overlays, threads, source-level tracing, resume and
command lists of points, `total_hits`, watchpoints that cannot be read
(`has_value`), conditions that call the program (a nested `ExecProg`), the
refusal dialog of `BrkCheckWatchLimit`, IRET's special breakpoint, INTO, a call
to the next instruction, and restarting a program.

### Runs

| run | instance | shows |
|---|---|---|
| `exec_counts` | loop of 4 instructions with a call that leads to a special instruction; plain, conditional and counted points, a countdown of 2, autodestruct; go, into, over, until | `TypeOK`, `CountedOnce`, `GoLeavesBreakpoint` |
| `exec_events` | 7 instructions, one of each way back to the debugger; points active or not; go and all traces; break on write, which makes a watchpoint count as hit | `MemoryIntact`, `FatalReported`, `ServiceSpec`, `UserBreakStops` |
| `exec_watch` | 3 instructions, two of which write the cell; watchpoint and breakpoint, conditional or not; fair | `WatchesTrue` (`WatchReportsAWrite`, `WatchStops`), `Progress` |
| `exec_break_on_write` | as `exec_watch`, break on write | a step is reported as a write (finding) |

Why the bounds suffice. Interference is between the point that is stepped off,
the one the step lands on and a temporary breakpoint: two list points and both
temporary ones meet in the runs (`MaxPoints = 2`). A countdown of 2 has a value
at which it counts on, one at which it stops and zero. The cell has two values.
`UntilAlone` bounds `exec_counts` and `exec_events`: a go-until is given at two of
the addresses and with at most one point in the list.

Exceptions the properties name, because the code behaves so: a break key caught
by the single step over a *special* instruction of a STEP_ONE pass is dropped
(`UserBreakStops`); an arrival is counted again by FORCE_BREAK (`CountedOnce`);
a real-mode INT is simulated without moving, so a `go` from a breakpoint on it
hits it again (`GoLeavesBreakpoint`); a watchpoint that counts as hit takes the place
of every other condition, also of the end of the program (`CheckBPs`, dbgbrk.c:1747;
`FatalReported`); a change made by an instruction run to the
breakpoint behind it is not noticed (`wrote`).

Fairness: weak fairness of `Debugger`, which is straight code, and of
`Debuggee`, which the processor executes. Nothing is assumed of the user: the
break key and the commands are not fair.

### Proofs (`ExecLoop_proofs`)

From the named assumptions of `Points` and `ExecLoop`, for every program, table
size and command:

- `TypeCorrect`: `Spec => []TypeOK`. The inductive invariant `TypeInv` adds
  `ListOK`: a watchpoint is a point on the cell and no two points share an
  address. Planting and restoring are only typed because of it.
- `MemorySafe`: `Spec => []MemoryIntact`. The invariant `MemInv` adds that, while
  breakpoints are in, taking them out in the order of `RemoveBPs` would restore
  the program (`Restorable`). `SavedBytes` is the heart: `InsertBPs` never saves
  a byte at an address it has planted, because list points differ, list points
  yield to temporary ones and `DbgTmpBrk` yields to `UserTmpBrk`.
- `GoLeaves` (`GoLeavesBreakpoint`), `CountsOnce` (`CountedOnce`), `EndIsReported`
  (`FatalReported`) and `BreakKeyStops` (`UserBreakStops`).
- `KeepsPromise`: `Spec => ServiceSpec`, each step of the loop is a step of
  `BreakService` or leaves what it sees alone.
- `WatchesStop`: `Spec => WatchesTrue` when `BreakOnWrite` is off; with it a step counts
  as a write, which is the finding of `exec_break_on_write`.

The theorems after `MemorySafe` rest on one invariant,
`LoopInv == MemInv /\ Countdowns /\ PassInv`. `PassInv` says what is known of a pass at
each place of the loop: how the run was decided (`Decided`), what is planted
(`Planting`), the one condition a run returns (`Caused`), that a pass which
does not force the breakpoints in does not stop where it started (`Leaving`), that
commands start afresh (`Held`), how the end of the program (`Ending`) and the break key
(`BreakKey`) travel from the run to the report, and that an arrival at an armed address
is on its way to being reported (`Due`). The passes that step off a breakpoint make this
long, and have the parts proved together: `es` of one pass is only right
for the condition the pass before it returned. `Watched` is a second invariant over it: a
watchpoint's old value is that of the cell when the debuggee starts.

Only model-checked: the liveness property `Progress` (liveness and ENABLED are outside
the prover).

## 4. Watchpoints and breakpoints in the trap file

`TrapWatch` models the part of `dosacc.c` that sets breakpoints and watchpoints
and runs the debuggee. Its `phase` is what the debugger is about: it sets points,
the debuggee runs, it clears them; the protocol (clear everything before setting
again, and only ask for a watchpoint while nothing is planted) is that of
`InsertBPs`, `RemoveBPs` and `BrkCheckWatchLimit`.

| variable | code |
|---|---|
| `DRsOn` | `Flags.DRsOn`, which `TrapInit` sets once |
| `WatchPoints` | `WatchPoints[0 .. WatchCount-1]` |
| `BadBreak`, `GotABadBreak`, `IsBreak` | the same |
| `DR` | DR0-DR3 and DR7 as `SetDRn` and `SetDR7` set them |
| `TraceRtn`, `FLG_T` | `SetSingle386`/`SetWatch386` (`SetSingleStep`/`SetWatchPnt`), `TaskRegs.EFL` |
| `multiplier`, `conditions` | the replies of `ReqSet_watch` and `ProgRun` |
| `mem`, `planted`, `ip` | memory and the debuggee, as far as breakpoints go |
| `wrote` | history: what the run changed and went on |

| action | code |
|---|---|
| `ReqSet_watch`, `ReqClear_watch`, `ReqSet_break`, `ReqClear_break` | the handlers of those names |
| `ReqProg_go`, `ReqProg_step` | `ProgRun` up to `RunProg`, with `SetDebugRegs` |
| `HitBreak`, `HitWatch`, `Step`, `Interrupted`, by `Return` | `ProgRun` from `RunProg` on, with `ClearDebugRegs` and `MapReturn` |
| `Execute` | an instruction that does not trap |

The traps themselves are in `dbgtrap.asm`, which is not in the repository. The
model takes from `dosacc.c` what it relies on: a stepping watch compares the
double word at each watchpoint's address (`curr->value`), a data register
triggers on a write to its bytes, an instruction register before its fetch.

| run | instance | shows |
|---|---|---|
| `trap_watch` | debug registers on or off; data at 1, 2 and 4, watchpoints of 2 and 4 bytes, a table of 3; two instructions in ROM and one in RAM | `TypeOK`, `Quiet`, `WatchSeen`, `BreakpointsTrue` (`BreakpointStops`, `BreakIsOurs`), `PromiseKept` |

Why the bounds suffice: at 1 both sizes are unaligned, at 2 only the double word,
at 4 none, so three watchpoints need anything from three to six of the four
registers. Two instructions in ROM compete for the one `BadBreak`.

The exceptions the properties name are what the code does: the second cell of
an unaligned *word* is armed four bytes on (dosacc.c:883) instead of two, so its
second half is not watched by registers (`WatchSeen`); a breakpoint in ROM gets
no register when the watchpoints take all four, and a second one in ROM replaces
the first (`Unarmed`).

### Proofs (`TrapWatch_proofs`)

All five properties, for every set of addresses, table of watchpoints and choice of
registers: `TypeCorrect`, `QuietBetweenRuns` (`Quiet`), `WatchpointsSeen` (`WatchSeen`),
`StopsAtBreakpoints` (`BreakpointsTrue`) and `RegistersAsPromised` (`PromiseKept`).
`Quiet` is inductive with the fact that without debug registers none is ever armed
(`Untouched`), which is why `ClearDebugRegs` may then do nothing. The others need to know
which cell got which register. The invariant adds that every watchpoint is as
`ReqSet_watch` made it (`WatchesMade`), that the reply to the last one speaks of the table
as it is (`Promised`), what is planted and which breakpoint in ROM is remembered
(`Planting`), and, while the debuggee runs, that every cell of every watchpoint is in
some register unless the run steps, and the breakpoint in ROM if there is one left
(`Armed`). How many registers a table needs is a recursive function over it, as the loop
of the code is; the facts about it are proved by induction over the table
(`Induction`).

## 5. The interrupt handlers

`DosHandlers` models `trap.asm`. Three parties interleave: the debuggee (its own
code, DOS calls, handlers that DOS calls back, a child process), the debugger
(load, run, kill) and interrupts (the timer, the break key).

| variable | code |
|---|---|
| `UsrInt`, `DOSCount`, `TaskPSP`, `CurrPSP`, `SaveBusyWait` | the same |
| `SaveInt` | `SaveIntSS:SaveIntSP`, as the stack position of a call |
| `calls` | the frames `OSHandler` builds, with what DOS does in them; `InDos` is DOS's flag |
| `pc` | `ChkReturn` and `DoIntTask` are places where an interrupt can find the debuggee in our own handler |
| `BusyWaitVec`, `timer` | vectors 28h and 08h. The others `SetIntVecs` and `ClrIntVecs` switch follow `mode` |
| `psp`, `running` | DOS's current process; the live processes |
| `mode`, `cause` | who runs; what `RunProg` returned |
| `request`, `lost`, `deadHook` | history, read by no guard but `lost`, the bound |

The actions have the names of the labels in `trap.asm`; `ReqProg_kill` is
`EndUser` with the guard of `dosacc.c`, and `DOSLoadProg(FALSE)` is any load that
fails (the debugger then loads the empty program, dbgprog.c:1000). An EXEC and
the end of a child take no time in DOS; the program starts a child only from its own
code (not from a handler DOS called), and a child starts none. `mode = "reentered"` ends a behaviour: a
timer tick has entered the debugger while it was running, which the code
permits when a request was still pending at another stop (its stack is gone).
`LoadOSHandler`, which tracks memory blocks of bound applications, is left out.

| run | shows |
|---|---|
| `handlers` | `CallsNest` (`StacksNest`, `CountIsDepth`), `DebuggerApart` (`RightProcess`, `BusyWaitOurs`), `OutsideDos`, `RequestAnsweredOnce`, `TypeOK`, and `BreakHeard` under `FairSpec` |
| `handlers_pending` | finding: one request stops the debuggee twice |

Bounds: `DOSCount` has its 8 bits; `MaxDepth = 3` is a call from a handler inside
a call from a handler inside a call; `MaxLost = 3` lets one process die in such
a nested call, or three in a row. Deadlock is not checked: `reentered` stops.

Fairness: the timer ticks (weakly: it is only promised an answer when the
request stays answerable); the debuggee's DOS calls and the handlers called back
return however many inner calls they make (strongly, for each depth). A program
that waits for ever in a DOS call cannot be stopped by the break key, and this
is what the code does. `lost > 0` is excepted: `DOSCount` then never comes back
to zero.

### Proofs (`DosHandlers_proofs`)

For every depth of calls and number of lost calls below the width of `DOSCount`
(`CountAssumption`; without it the count would wrap to zero inside DOS):
`TypeCorrect`, `CallsBalanced` (`CallsNest`), `ProcessesRight` (`DebuggerApart`) and
the action properties `BreakOutsideDos` (`OutsideDos`) and `AnsweredOnce`
(`RequestAnsweredOnce`). The inductive
invariant `Inv` adds `Places`: in `ChkReturn` a call is in progress, in `DoIntTask`
none is, calls have a living owner, and a task that is gone leaves nothing
behind. `CallMade`, `CallReturned` and `TopChanged` say what the three ways to
change the calls do to the nesting. For `DebuggerApart` a second invariant,
`HandlersSwapped`, says which handler of int 28h is in the vector and which is saved,
in each mode: `ClrIntVecs` swaps the two, so each is right only because of the other.
For `AnsweredOnce` a third, `Requested`: a request that waits, and one on its way from
`ChkReturn` to `DoIntTask`, was made in this run or resumed with it. The liveness
property `BreakHeard` is model-checked only.

## 6. Images and restarts

`Images` models the image list of `dbgprog.c` and what loading, unloading and
restarting do to the points of `dbgbrk.c`. Where `ExecLoop` has a table at fixed
addresses, here the addresses move and the program is opaque: a run is one step
that plants and restores.

| variable | code |
|---|---|
| `images` | `DbgImageList`: name, `system_handle`, `dip_handle` (`syms`), `deferred_symbols`, `map_list`, and what the symbols say (`lines`) |
| `points`, `tmp` | `BrkList` and `UserTmpBrk`: `loc`, the names of a point on a line, the status bits the images touch; `counted` stands for the countdown and the hits, `home` is history |
| `task` | `TaskCmd` |
| `mem`, `build` | what is loaded at each base, and what the files on disk hold |
| `left` | addresses where a run left an INT3 behind |

| action | code |
|---|---|
| `LibraryLoads`, `LibraryUnloads` | `AddLibInfo` and the `ReMapPoints( NULL )` of dbgexec.c:474 |
| `ReStart`, `ProgNew` | `DoResNew`: release every image, load the program and the libraries it starts with, or fail (`TASK_NOT_LOADED`) |
| `LoadDeferredSymbols`, `BrkAddrRefresh` | the functions of those names |
| `SaveBreaksToFile`, `RestoreBreaksFromFile` | the same; a file is a sequence of the commands `GetBPCmd` writes |
| `SetPoint`, `AddBreak`, `ToggleBreak`, `Ac_DeacPoint`, `BrkSetAll`, `ClearPoint` | the user's edits; `BrkSetAll` is `BrkEnableAll` and `BrkDisableAll` |
| `ExecProg` | one pass: `InsertBPs`, the debuggee, `RemoveBPs` |

An address is a selector and an offset; a selector is what one base gives one
segment (segmented) or one for all (`Flat`). The selector with base 0 is the side
of `map_addr`, addresses relative to an image. The DIP is outside the sources: it
answers which image an address is in, which line is closest before it, and asks
for the address of each segment once. `DIPUnloadInfo` and `DIPDestroyProcess` are
taken to give each image back with `FreeImage` unless `nofree` is set.

| run | instance | shows |
|---|---|---|
| `images_full` | every module with its symbols (`MCImagesFull`): a program and a library with two bases; two lines, of which a rebuild moves one and loses one; a code and a data segment | `PointsFollow` (`NamedFollows`, `HomeFollows`, `NoneWaits`), `ImagesLive`, `EventsLeaveMapped`, `PointsKept` (`RestartKeeps`, `SaveKeeps`), `OnlyUserActivates`, `TypeOK` |
| `images_late` | flat, a library with exports only, symbols deferred; two break command files and two values of uninitialised memory | `PointsFollow`, `NamedRestored`, `PointsKept` |
| `images_merged` | two points, a rebuild that puts two lines at one address | finding: both are remapped there, and a run leaves an INT3 in the program |

Bounds. The passing runs have one point: what the images do to a point does not
depend on the others (`images_late` restores two), and the run with two points
shows what happens when two meet. Two bases are enough for a module to move and for another to take its
place; `MaxImages = 3` leaves room for one image that is never freed. Two
offsets tell a line's address from an address behind it.

What the properties except, because the code does so and no text says
otherwise:

- `activate_on_remap`, once set, is never cleared: a point the user has switched
  off since is switched on by the next remap (`OnlyUserActivates`, and
  `PointsKept` allows it).
- An image without symbols is not freed when its library goes. With deferred
  symbols it is mapped later at a base where something else may be, and then
  points move (`SaveKeeps` holds while `ImagesLive` does; `images_full` checks
  `ImagesLive`, where every module has symbols).
- A point that was set where the debugger knew no symbols, and has no line, is
  not carried over (`Meant`).
- A restored point that is not on a line has no address of its own: `AddPoint`
  leaves what the allocator returned (`Junk`). `NamedRestored` is about points
  on lines. When that memory looks like `NilAddr`, the next command of the file
  is refused and a later `BrkClearAll` does not return (`ClearAllReturns`).
- `BrkEnableAll` activates points that are not mapped, at the address they had
  (`BrkSetAll`; `EventsLeaveMapped` speaks of the table after a library event).
- After a restart, unlike after a library event, `ReMapPoints( NULL )` is not
  called, so `EventsLeaveMapped` is about library events.

Left out: symbol files named by the user, loading or unloading the symbols of
one module by command, `LocalDebugInfo`, the copy to the remote side, switches
that turn symbols off, hooks, scopes of variables.

### Proofs (`Images_proofs`)

For every set of modules, lines, builds, bases, offsets, break command files and points,
from the assumptions that give the constants their types (`FilesAssumption`: a command
has a map address or names, as `GetBPCmd` writes them):

- `TypeCorrect` (`TypeOK`), `EventsDecide` (`EventsLeaveMapped`), `UserActivates`
  (`OnlyUserActivates`), `NamesFollow` (`NamedFollows`), `NoPointWaits` (`NoneWaits`),
  `FileIsCarriedOut` (`NamedRestored`), without further hypotheses;
- `ImagesStayLive` (`ImagesLive`), if every module's symbols are found when it is loaded
  (`AllSymbols`);
- `PointsStayRight` (`PointsFollow`), `SavingKeeps` (`SaveKeeps`), `RestartingKeeps`
  (`RestartKeeps`) and so `NothingIsLost` (`PointsKept`), if also no rebuild moves a
  line so far up its segment that what followed it is past the end (`LinesStay`).
- `RoundTrip`: in one image `ReMapImageAddress` gives back what `UnMapAddress`
  took, also when segments share a selector, if the image's map has one entry
  for each segment (`OneEntryEach`, a part of `TypeOK`).

Both hypotheses are about the program debugged. `MCImagesFull` asserts them for
`images_full`, so a run checks the theorems' instance; `images_late` checks `PointsFollow`
and `PointsKept` on an instance outside them, with deferred symbols and a library that
has exports only. They are needed: without `AllSymbols` an image is kept of a module
that is gone, and a rebuild against `LinesStay` carries a point that is so many bytes
behind its line out of the segment, and into another selector.

The argument is one of invariants on each other. `StateInv` says that images and points
are sound. The loops over images and points (`ReleaseProgOvlay`, the libraries a program
starts with, `LoadDeferred`, a command file) are recursive functions; that each keeps
an invariant or a relation between the tables, such as `RousedAll` (no point is switched
on but one whose remap had failed), is proved with families of sets (`Induction`;
`ReleaseLoop`, `LoadLoop`, `DeferredLoop`). `Settles` says that a point without an image
waits for one that is not there; `LiveInv` that images with symbols are of modules that
are in memory, no two at one base; `KeptAll`, of each mapped point, that it is where its
name or its place says (`HomeOK`, `NameOK`). A restart or a save takes a point out of its
image (`Away`) and back (`Back`); `BackAgain` says that it comes back where it was.

## 7. CodeView

A DIP answers the debugger's questions about an image. `CvLoad` models how an
image is loaded and given back (`cvld.c`, `cvmisc.c`), `CvTypes` what the type
records say (pure operators: `TypeReal`, `ImpTypeInfo`, `ImpTypeArrayInfo`,
`TypeSearchTagName`), `CvWalk` the walk of a class's members with its four
clients, `CvSymbols` scopes, walks and lookups of symbols, and `CodeView` puts
them together: one entry point at a time, on any loaded image.

| variable | code |
|---|---|
| `ImageList`, `img` | the list; each `imp_image_handle` |
| `heap` | what was allocated for an image, which `Cleanup` has to give back |
| `pc`, `cur`, `wr` | where the entry point is, its image, its result |
| `lists`, `walk` | `pending_type_list`, one frame for each base being walked; the client's data with its running `adjustor_offset` and `adjustor_type`. For the properties also where a frame's base is (`adj`), whether the client entered it (`told`), whether it failed at a base (`lost`) and the offsets it did not add then (`missed`) |
| `call` | the entry point's arguments and locals: the scope, the record reached (`chk`, `p`), the table, the best symbol so far |
| `out` | the symbols handed out, in order |

| action | code |
|---|---|
| `FindCV`, `ListImage`, `LoadHeader`, `AllocBlock`, `ReadBlock`, `LoadMapping`, `LoadTypes`, `SetMADType` (`LoadInfo`), `MapInfo`, `UnloadInfo` | `DIPImpLoadInfo` step by step, each of which may fail; the functions of those names |
| `ListDone`, `InheritEnd`, `NextList`, `SkipVirtual`, `SkipBase`, `InheritStart`, `InheritFails`, `Symbol`, `WalkFails` (`TypeListWalk`) | one pass of the loop of `TypeListWalk` and what its client does: at the start of a base it continues, stops (the base is left out) or fails; at its end, and at a symbol, it continues, stops or fails the walk |
| `SearchSegment`, `SearchOutermost`, `SearchSmallest` | `ScopeFindFirst` |
| `ScopeWalkOne`, `ScopeWalkClass`, `ScopeFindNext`, `WalkBlock`, `ScopeWalkFile` | the walks of those names |
| `TableSearchForName`, `TableWalkSym`, `AddrSym` | the hash tables, by name, in order, by address |

A module's symbols are a sequence of records, and an offset in the file is an
index; a name is a value with a hash. The virtual memory that keeps pieces of the
file is outside the sources; a call may fail at each step that reads
(`CallFails`, `WalkFails`).

The run `codeview` has a program with a diamond of classes (`V` is a virtual base
of `B1` and `B2`, both bases of `D`), an enumeration, arrays of every kind, two
modules with nested and touching blocks, symbols of one name in several scopes,
and the three tables; and four files whose load fails or finds less.

| property | what it says |
|---|---|
| `NothingKept`, `DirectoryWhole` | a load keeps everything or nothing; every entry of the directory is found, also in the last block |
| `Balanced` | wherever the walk is, on whatever path it came there, the adjustor is the place of the base it is in, less the offsets the client missed by failing at a base |
| `MembersRight` | a member comes as often as the object has subobjects with it, with the offset of one of them (`SubobjectsRight`), two of them never share a byte (`MembersApart`), the thunk adjustor is the base's place (`ThunkRight`); the offsets only where the client failed at no base |
| `ElementsApart` | indexing an array in all its dimensions reaches each element once |
| `ScopesRight` | the scope found is the smallest (`SmallestScope`), a walk gives the declarations of the scopes, innermost first (`NamesInScope`), a lookup the nearest of that name (`LookupNearest`) |
| `SymbolsRight` | the symbol for an address is the nearest below it in any table (`NearestSymbol`), a walk of all modules gives a public address once (`EachOnce`), a returned scalar fits its registers (`ReturnFits`) |
| `CallsReturn` | every entry point returns |

The reference sides of these are stated over the records, not over the loops:
scopes as ranges that cover an address, subobjects as paths in the class graph.

A client that fails at a base. Of the answer to `SWI_INHERIT_START`, `TypeListWalk` only
knows `WR_STOP` (cvtype.c:330). After `WR_FAIL`, from the user's callback (1023) or because
the base's record cannot be read (1027, 1212, 1988), the walk goes into the base although
the client has not added its offset, nor `ThunkSearch` compared its class; at the base's end
the client takes the offset off all the same (1044), so every member behind it has a
wrong offset, and the walk may end with `WR_CONTINUE`. That is `InheritFails`. `Balanced` says
exactly how wrong: `missed` is the sum of the offsets not added, which are missing until
the walk ends; a virtual base not entered leaves `adjustor_type` zero while the walk is inside of it,
and no longer. `MembersRight` keeps, of such a walk, what is still true: no member is lost
or given twice, and a thunk is only found if there is a subobject of its class. No text
of the repository says what `WR_FAIL` should do there, so it is no finding. Offsets
are `unsigned` in the code and wrap below zero; the model's are integers, which add up the same.

Bounds: symbols are asked for while one image is loaded and mapped (`Ready`);
blocks of the directory hold three entries (`BlockEntries`), so that the files have
one full, several, and a partly filled one. Two places for the image, one flat,
where two segments share a selector.

Fairness: weak fairness of `Step`. An entry point is an ordinary call; the debugger
need not make any.

What the files have to be. The code relies on how compilers and linkers write a file and
does not look; the modules say what that is, at the end of `CvSymbols`, and no more than
the properties need:

| hypothesis | of the files |
|---|---|
| `ScopesWritten` | in a module, scopes are nested or apart, as records and as addresses (`ScopesNest`); parent, next and S_SSEARCH lead where they should (`ScopesLinked`); a block in a scope is followed by a block or by the scope's end (`BlocksLast`) |
| `ChainsWritten` | every name of a table is in its hash bucket |
| `AddressesWritten` | every record of a table that has an address is in the list of its segment, in order, and no other (`SegmentWritten`, `RecordWritten`) |
| `OnceWritten` | modules are listed once; what the global table refers to is a file-level symbol of a listed module; of the symbols of modules, the global table's own and the ones only public, no two are at one address, wherever the file is loaded |
| `ReturnsWritten` | an S_RETURN names registers for a value of its procedure's type |

`MCCodeView` asserts all five (`WrittenAssumption`), so TLC evaluates them on the files of
the run. `BlocksLast` is needed: `ScopeFindFirst` tests a record it read before it
moved on (`p`, cvsym.c:557), so behind a block that the address is not in it takes a
record that opens no scope for the end, and stops in a scope that is not the smallest.

### Proofs (`CodeView_proofs`, `CodeViewSymbols_proofs`)

For every set of images, files, types and symbols that satisfies `BlockAssumption`,
`FilesAssumption` and `TypesAssumption`: `TypeCorrect`, `LoadsGiveBack` (`NothingKept`),
`WalkBalanced` (`Balanced`) and `DirectoryIsWhole` (`DirectoryWhole`). The inductive
invariant `Inv` has two parts that do not look at each other. `LoadInv` says where in the load
an image is and which blocks are allocated then, so that the clean-up's loop over the
directory finds them all. `WalkInv` says that the adjustor is the sum of what the frames
of the walk entered less what the client missed, that nothing is missed unless it failed
at a base, and that a frame is only in the middle of a record that started a base. `DirInv`, over `LoadInv`, says that the blocks of a listed image are the pieces of
its file's directory, all of them once it was read; `DirectoryFound` is the arithmetic
of what both walks then visit, up to the last block, just full or not.

Where the files are written as said above:

- `ScopesAreRight` (`ScopesRight`), from `ScopesWritten` and `ChainsWritten`. `MapInv`: the
  segments of a mapped image have addresses. `CallInv`: each entry point keeps to its path
  and its arguments. `ScopeInv`: in the third loop of the search, the scope so far has the
  address, and any other that has it was passed before it or is still ahead (`Inner`); in a
  walk, what was handed out are, in order, the declarations of the scopes passed and those
  among the records passed of this one (`Gives`); in the tables, the entries passed of the
  name's bucket, and the tables before had none. `DeclStep` is the fact about nested
  records that the walks need: to go behind a scope's end passes nothing that counts.
- `SymbolsAreRight` (`SymbolsRight`), from `ScopesWritten`, `AddressesWritten`, `OnceWritten`
  and `ReturnsWritten`. `TableSearchForAddr` is a recursive function over the segments:
  `SearchFinds` proves by induction what it returns, the nearest of the records that share
  the address's selector and are not nearer than the best so far. `AddrInv` carries this from table to
  table. `PlaceInv`: the segments of a mapped image are those of its file at one of its
  places. `ModulesInv`: what a walk of all modules handed out are, each once, the file-level
  symbols of the modules passed (`ModulesAre`: `WalkDirList` gives each module of the
  directory once) and the records of the tables passed that are not left out (`Hidden`).

`OnceWritten` says of the symbols what `EachOnce` says of the walk. What is proved in between is that
references and publics that have a global symbol are left out, that nothing else is, and
that nothing is visited twice.

Model-checked only: `MembersRight` and `ElementsApart`, whose reference sides are folds and
paths over types of any depth (`Offsets`, the class graph), on the types of the instance; and
the liveness property `CallsReturn`.

## 8. The extender link

`DosxLink` models both sides of `dosxlink.c`, the client in real mode with the
debugger and the server in protected mode with the program. They are coroutines:
the server's `CallRealMode` ends in the client's last `setjmp`, and the client jumps
back into the server's last call.

| variable | code |
|---|---|
| `client`, `server` | where each is; `away` while the other runs |
| `RealModeState`, `ProtModeState` | which function the last `setjmp` of each side was in |
| `Buff`, `mem` | the buffer's address and length, and the message in memory |
| `psp`, `OldPSP` | DOS's current process; the one `BackFromProtMode` keeps |
| `vector`, `saved` | vector 06h and `link[3]` |
| `BackFromFork`, `BeenToProtMode` | the same |
| `asked`, `got`, `received` | the request, as sent and as served; the reply |
| `own` | history: the server's current process when it last ran |

| action | code |
|---|---|
| `RemoteLink`, `LinkReturns`, `RemotePut`, `PutReturns`, `RemoteGet`, `GetReturns`, `RemoteUnLink`, `UnLinkReturns` | the client's functions, up to the jump and behind the `setjmp` |
| `ServerLinks`, `ServerGets`, `Serve`, `ServerReplies`, `ServerGoesOn` | the server's: `RemoteLink`, `RemoteGet` up to and behind the call of real mode, `RemotePut`, and a request without a reply |
| `ExtenderHooks`, `Fork` | outside the sources: the extender takes the vector; it ends, anywhere, and DOS returns into `_fork` |

`LinkService` is the promise: a request is asked, served as it was sent and
finished with its own reply, until the link is closed; a server that ends before
that makes it lost, and nothing more is promised. `ServiceSpec` says that `DosxLink`
implements it. The run `dosx_link` checks it and `ContextsApart` (each side runs as
its own process, the vector is given back) with two requests that have replies, one
longer and one shorter than its request, one that has none, and the last. Nothing
counts, so the state space is the whole of this instance. Deadlock is not
checked: a session ends.

`BufferAssumption`: the server writes a reply to the address that the client's
`RemotePut` left in the buffer, before the client's `RemoteGet` sets its own. The
reply arrives because the packet layer, which is outside the sources, has requests
sent from where it has replies put. Without it the refinement fails.

A lost link is not noticed outside `RemoteLink`: the client finds itself behind
its `setjmp` and takes what is in the buffer for a reply (`Fork`). The frame DOS
returns to may be in use by then (`crashed`), except where `RemoteUnLink` has kept
room for it (`doskludge`).

### Proofs (`DosxLink_proofs`)

For every set of requests, replies and lengths, from `MessagesAssumption` and
`BufferAssumption`: `TypeCorrect`, `Apart` (`ContextsApart`) and `Implements`
(`ServiceSpec`). The inductive invariant says, for each place the server can be in
while it runs (`ServerRuns`) and for each place of the client while the server waits
(`ServerWaits`), which `setjmp` the other side is in and what the buffer holds. The
heart is that the two are one step apart: the client's `RemoteGet` wakes the server
behind its `RemotePut`, which goes on to its next `RemoteGet` and only then lets the
client read; the buffer holds the reply all that while.

## 9. Not modelled

- Source-level tracing, thunks and recursion (`dbgtrace.c`): they depend on line
  cues, the call chain and the stepper's view of calls, in code that is missing.
- Screen (`dsxscrn.c`): which modes and pages the flip saves and restores is decided
  by the adapter; the sources hold register and BIOS sequences, no protocol of their own.
- Console input, start-up and option parsing: I/O and straight-line initialisation.
- Memory, register and port requests of the trap file, the FPU, overlays,
  `LoadOSHandler`.
- Locations of variables in CodeView; names as text.
- In CodeView: a file whose directory is empty (`cDir` zero: `FilesAssumption` excludes it; there
  `BLOCK_FACTOR - 1` underflows, cvmisc.c:93, and an entry of a block of no bytes is
  written); the second `VMBlock` of `LoadMapping` (cvld.c:257) failing, which the code does not test; files
  whose offsets lead in a circle (`CallsReturn` is checked on well-formed ones). The total size of
  a column-major array is computed from the type as given, not the one prepared
  (`it` for `real`, cvtype.c:1504): `ImpTypeInfo` does so too, and `ElementsApart` excepts it.
- What the code does and no property claims otherwise, since no text says what is meant: an image without
  symbols that stays in the list (dbgprog.c:876), a point switched on by a flag of an
  earlier remap (dbgprog.c:808), the address of a restored unmapped point (dbgbrk.c:1170), the
  second cell of an unaligned word (dosacc.c:883), a request while a process that died inside DOS
  keeps the count up (trap.asm:395), the record that `ScopeFindFirst` tests
  (cvsym.c:557). Each is modelled; the properties near it name it as their
  exception or hold under a hypothesis that excludes it, and would not catch it.
- What TLAPS does not do here: liveness under fairness and ENABLED (`Progress`,
  `BreakHeard`, `CallsReturn`). Induction over data is proved where a theorem needs it,
  on numbers through the least element of a set and on recursive functions through
  families of sets (`Induction`), because the library's rules for it take operators.
  `MembersRight` and `ElementsApart` (section 7) are model-checked only.

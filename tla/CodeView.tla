------------------------------ MODULE CodeView ------------------------------
(***************************************************************************)
(* The CodeView DIP as the debugger drives it: images are loaded, mapped   *)
(* and unloaded (CvLoad), and one entry point at a time walks or searches  *)
(* their types (CvWalk, CvTypes) and symbols (CvSymbols).                  *)
(*                                                                         *)
(* Between an entry point's result ("done") and the next call the symbols  *)
(* it handed out can be looked at.                                         *)
(***************************************************************************)
EXTENDS CvSymbols

vars == <<ImageList, img, heap, pc, cur, lists, walk, out, wr, call>>
locals == <<lists, walk, out, wr, call>>

-----------------------------------------------------------------------------
(***************************************************************************)
(* The calls.  Their arguments are the addresses, names and types of the   *)
(* file: Info[f].addrs, names and classes.                                 *)
(***************************************************************************)

\* Bound: the symbols of an image are asked for while it is the only one.
Ready(ii) == pc = "idle" /\ ImageList = {ii} /\ img[ii].mapped

Enter(ii, c) ==
  /\ Ready(ii)
  /\ pc' = "enter" /\ cur' = ii /\ call' = c
  /\ UNCHANGED <<ImageList, img, heap, lists, walk, out, wr>>

File(ii) == Info[img[ii].file]
Op(op) == [NoCall EXCEPT !.op = op]
At1(op, a) == [Op(op) EXCEPT !.addr = a]

\* DIPImpWalkSymList and DIPImpLookupSym for SS_TYPE, DIPImpTypeArrayInfo and
\* DIPImpTypeBase for an array, in a FORTRAN module or not (IsFortranModule),
\* DIPImpTypeThunkAdjust, and VFuncLocation's search.
OfType(op, idx) == [Op(op) EXCEPT !.idx = idx]
NestedCall(idx, n) == [OfType("nested", idx) EXCEPT !.name = n]
TagCall(code, n) == [Op("tag") EXCEPT !.type = code, !.name = n]
ArrayCall(idx, f) == [OfType("array", idx) EXCEPT !.fortran = f]
ThunkCall(b, d) == [OfType("thunk", b) EXCEPT !.derived = d]
TypeCalls(ii) ==
  {OfType(op, idx) : op \in {"members", "vtab"}, idx \in File(ii).classes}
    \cup {NestedCall(idx, n) : idx \in File(ii).classes, n \in File(ii).names}
    \cup {TagCall(code, n) : code \in Structs, n \in File(ii).names}
    \cup {ArrayCall(idx, f) : idx \in File(ii).arrays, f \in BOOLEAN}
    \cup {ThunkCall(b, d) : b \in File(ii).classes, d \in File(ii).classes}

\* DIPImpWalkSymList for SS_SCOPED, SS_BLOCK and SS_MODULE, DIPImpLookupSym
\* for SS_SCOPED and SS_MODULE, and DIPImpAddrSym.
Modules(ii) == DOMAIN File(ii).syms
LookupCall(a, n, t) == [At1("lookup", a) EXCEPT !.name = n, !.type = t]
ModuleCall(im) == [Op("module") EXCEPT !.im = im]
AllModulesCall == [Op("module") EXCEPT !.all = TRUE]
ModLookupCall(im, n) == [Op("modlookup") EXCEPT !.im = im, !.name = n]
SymCalls(ii) ==
  {At1(op, a) : op \in {"scoped", "block", "addr"}, a \in File(ii).addrs}
    \cup {LookupCall(a, n, t) :
            a \in File(ii).addrs, n \in File(ii).names, t \in {"NONE", "TYPE"}}
    \cup {ModuleCall(im) : im \in Modules(ii) \cup {Global}} \cup {AllModulesCall}
    \cup {ModLookupCall(im, n) : im \in Modules(ii), n \in File(ii).names}

-----------------------------------------------------------------------------
(***************************************************************************)
(* What each of them does first.                                           *)
(***************************************************************************)

\* The index of a class, union or enumeration is the client's type handle.
Entering(op) == pc = "enter" /\ call.op = op

WalkMembers ==
  LET it   == TypeIndexFillIn(call.idx)
      real == TypeReal(T, it)
  IN  /\ Entering("members")
      /\ IF Leaf(T, real.vm).leaf \in HasFields
           THEN StartWalk("user", real.idx, it.vm, None, "done")
           ELSE Ends("CONTINUE") /\ UNCHANGED <<lists, walk>>
      /\ UNCHANGED <<files, out, call>>

\* TypeSearchNestedSym does not look behind a modifier.
SearchNested ==
  LET it == TypeIndexFillIn(call.idx) IN
  /\ Entering("nested")
  /\ IF Leaf(T, it.vm).leaf \in HasFields
       THEN StartWalk("search", it.idx, it.vm, call.name, "done")
       ELSE Ends("NONE") /\ UNCHANGED <<lists, walk>>
  /\ UNCHANGED <<files, out, call>>

ThunkAdjust ==
  /\ Entering("thunk")
  /\ IF /\ call.idx # call.derived
        /\ Leaf(T, Body(call.idx)).leaf \in Structs /\ Leaf(T, Body(call.derived)).leaf \in Structs
       THEN StartWalk("thunk", call.idx, Body(call.idx), call.derived, "done")
       ELSE Ends("FAIL") /\ UNCHANGED <<lists, walk>>
  /\ UNCHANGED <<files, out, call>>

VFuncLocation ==
  /\ Entering("vtab")
  /\ IF Leaf(T, Body(call.idx)).leaf \in Structs
       THEN StartWalk("vtab", call.idx, Body(call.idx), None, "done")
       ELSE Ends("FAIL") /\ UNCHANGED <<lists, walk>>
  /\ UNCHANGED <<files, out, call>>

\* TypeSearchTagName, whichever the source of the lookup.
SearchTag ==
  LET idx == TypeSearchTagName(T, call.type, call.name) IN
  /\ Entering("tag")
  /\ IF idx = 0 THEN Ends("NONE") /\ UNCHANGED out
                ELSE Ends("EXACT") /\ out' = <<[tag |-> idx]>>
  /\ UNCHANGED <<others, call>>

\* A client takes an array apart, one dimension after the other.
EnterArray ==
  /\ Entering("array")
  /\ call' = [call EXCEPT !.it = TypeIndexFillIn(call.idx)]
  /\ pc' = "peel" /\ UNCHANGED <<others, out, wr>>

PeelArray ==
  /\ pc = "peel"
  /\ IF ImpTypeInfo(T, call.it, call.fortran).kind = "ARRAY"
       THEN /\ out' = Append(out, ImpTypeArrayInfo(T, call.it, call.fortran))
            /\ call' = [call EXCEPT !.it = ImpTypeBase(T, @)]
            /\ UNCHANGED <<pc, wr>>
       ELSE Ends("CONTINUE") /\ UNCHANGED <<call, out>>
  /\ UNCHANGED others

\* ImpAddrMod is not in the repository: the module whose code the address is
\* in.  A scoped lookup elsewhere only looks at the tables.
ModuleAt(a) ==
  {im \in DOMAIN File(cur).ranges :
     \E k \in DOMAIN File(cur).ranges[im] :
       LET r == File(cur).ranges[im][k]
           s == Location(r)
       IN  s.seg = a.seg /\ a.off >= s.off /\ a.off < s.off + r.len}

EnterScoped ==
  LET im == ModuleAt(call.addr) IN
  /\ pc = "enter" /\ call.op \in {"scoped", "block", "lookup"}
  /\ IF im # {}
       THEN /\ call' = [call EXCEPT !.im = CHOOSE m \in im : TRUE, !.chk = 1]
            /\ pc' = "ssearch" /\ UNCHANGED wr
     ELSE IF call.op # "lookup" THEN Ends("CONTINUE") /\ UNCHANGED call
     ELSE /\ call' = [call EXCEPT !.tbl = "StaticSym", !.chk = 1]
          /\ pc' = "name" /\ UNCHANGED wr
  /\ UNCHANGED <<others, out>>

EnterModule ==
  LET mods == IF call.all THEN ModulesOf(cur) ELSE <<call.im>> IN
  /\ pc = "enter" /\ call.op \in {"module", "modlookup"}
  /\ IF mods \in {<<>>, <<Global>>}
       THEN call' = [call EXCEPT !.tbl = "GlobalSym", !.chk = 1] /\ pc' = "table"
       ELSE call' = [call EXCEPT !.im = Head(mods), !.mods = Tail(mods)] /\ pc' = "file"
  /\ UNCHANGED <<others, out, wr>>

EnterAddr ==
  /\ Entering("addr")
  /\ call' = [call EXCEPT !.tbl = "StaticSym"]
  /\ pc' = "addr" /\ UNCHANGED <<others, out, wr>>

\* Mutant of Finish: the image stays the current one.
FinishKeeps ==
  /\ pc = "done" /\ pc' = "idle"
  /\ lists' = <<>> /\ walk' = NoWalk /\ out' = <<>> /\ wr' = "" /\ call' = NoCall
  /\ UNCHANGED <<ImageList, img, heap, cur>>

Finish ==
  /\ pc = "done" /\ pc' = "idle" /\ cur' = None
  /\ lists' = <<>> /\ walk' = NoWalk /\ out' = <<>> /\ wr' = "" /\ call' = NoCall
  /\ UNCHANGED <<ImageList, img, heap>>

-----------------------------------------------------------------------------
Dispatch == WalkMembers \/ SearchNested \/ ThunkAdjust \/ VFuncLocation \/ SearchTag
              \/ EnterArray \/ EnterScoped \/ EnterModule \/ EnterAddr
ScopeSearch == SearchSegment \/ SearchOutermost \/ SearchSmallest
ScopeWalk == EnterScope \/ ScopeWalkOne \/ ScopeWalkClass \/ ScopeFindNext
               \/ WalkBlock \/ ScopeOuter \/ EnterFile \/ ScopeWalkFile
TableStep == TableSearchForName \/ TableWalkSym \/ AddrSym

\* A step of an entry point, and the calls of the debugger.
Step == \/ LoadInfo /\ UNCHANGED locals
        \/ TypeListWalk /\ UNCHANGED call
        \/ Dispatch \/ ScopeSearch \/ ScopeWalk \/ TableStep \/ PeelArray \/ CallFails
        \/ Finish

Load ==
  /\ \E ii \in Images :
       \/ \E f \in Files : FindCV(ii, f)
       \/ ii \in ImageList /\ \E where \in File(ii).places : MapInfo(ii, where)
       \/ UnloadInfo(ii)
  /\ UNCHANGED locals
Request == \E ii \in Images : Ready(ii) /\ \E c \in TypeCalls(ii) \cup SymCalls(ii) : Enter(ii, c)

Init == InitLoad /\ InitSymbols
Next == Load \/ Request \/ Step
Spec == Init /\ [][Next]_vars

\* The entry points are ordinary calls: once entered they run.
FairSpec == Spec /\ WF_vars(Step)


-----------------------------------------------------------------------------
Points == {"idle", "enter", "list", "peel", "done", "ssearch", "outermost", "smallest", "scope",
           "one", "class", "outer", "blockwalk", "outerblock", "file", "fileone", "name",
           "table", "addr"} \cup LoadSteps

Results == {"", "CONTINUE", "STOP", "FAIL", "NONE", "CLOSEST", "EXACT"}

TypeOK ==
  /\ ImageList \subseteq Images /\ pc \in Points
  /\ cur \in Images \cup {None} /\ (cur = None <=> pc = "idle")
  /\ \A ii \in Images : img[ii].file \in Files \cup {None}
  /\ \A h \in heap : h[1] \in Images
  /\ wr \in Results
  /\ lists # <<>> <=> pc = "list"

\* Every entry point returns.
CallsReturn == pc # "idle" ~> pc = "idle"
=============================================================================

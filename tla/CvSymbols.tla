----------------------------- MODULE CvSymbols ------------------------------
(***************************************************************************)
(* The symbols of the CodeView DIP (dip_src/cvsym.c): the scopes around an *)
(* address, the walks of the symbols of a scope, a module or the whole     *)
(* image, and the lookups by name and by address.                          *)
(*                                                                         *)
(* A module's symbols are a sequence of records; a scope is opened by one  *)
(* of them and closed by an END, and an offset in the section is an index. *)
(* Record 0 is none.                                                       *)
(***************************************************************************)
EXTENDS CvWalk

CONSTANT Hash   \* CalcHash of a name

VARIABLE call   \* the entry point being executed and its locals

\* A module without an sstAlignSym has no symbols.
Syms(im) == LET syms == Info[img[cur].file].syms IN
            IF im \in DOMAIN syms THEN syms[im] ELSE <<>>
Table(tbl) == Info[img[cur].file].tables[tbl]
Tables == {"StaticSym", "GlobalSym", "GlobalPub"}

\* op : the entry point; addr, im, name, type, idx, derived, fortran : its
\* arguments, all : every module (NO_MOD); it : the type handle of a client
\* that takes an array apart; scope, chk, p : the locals of ScopeFindFirst and of the
\* walks; mods : the modules still to walk; tbl : the table searched; is_im :
\* the module in the symbol handle being filled in; best : what
\* TableSearchForAddr found so far; inclass : SCOPE_CLASS_FLAG; walked : the
\* scopes entered, in order.
NoBest == [sym |-> 0, off |-> 0, exact |-> FALSE]
NoCall == [op |-> "none", addr |-> [seg |-> 0, off |-> 0], im |-> Global, all |-> FALSE,
           name |-> None, type |-> "NONE", idx |-> 0, derived |-> 0, fortran |-> FALSE,
           it |-> TypeIndexFillIn(0), scope |-> 0, chk |-> 0, p |-> 0, mods |-> <<>>,
           tbl |-> "none", is_im |-> Global, best |-> NoBest, inclass |-> FALSE,
           walked |-> <<>>]

InitSymbols == InitWalk /\ call = NoCall

others == <<files, lists, walk>>

-----------------------------------------------------------------------------
(***************************************************************************)
(* Symbols.                                                                *)
(***************************************************************************)
Procs == {"LPROC", "GPROC"}
Data == {"LDATA", "GDATA"}
Openers == Procs \cup {"BLOCK", "WITH", "THUNK"}

Placed == Procs \cup Data \cup {"PUB", "LABEL", "BLOCK", "THREAD"}
Location(r) == MapLogical(cur, [seg |-> r.seg, off |-> r.off])

\* A record of a table that is a reference stands for a module's symbol
\* (SymFillIn).  Else the handle's module is left as it was.
Reference == {"PROCREF", "DATAREF"}
ModuleSym(im, k) == [im |-> im, tbl |-> "AlignSym", sym |-> k]
SymFillIn(tbl, k, is_im) ==
  LET r == Table(tbl).recs[k] IN
  IF r.code \in Reference THEN ModuleSym(r.im, r.sym)
                          ELSE [im |-> is_im, tbl |-> tbl, sym |-> k]
Rec(h) == IF h.tbl = "AlignSym" THEN Syms(h.im)[h.sym] ELSE Table(h.tbl).recs[h.sym]

\* The types of labels; those of 16 and 32 bits are not told apart here.
T_DATA_LBL == 3849
T_CODE_LBL == 3841
Default(idx, label) == IF idx = 0 THEN label ELSE idx

\* SymTypeIdx: SegIsExecutable's DS_OK is zero, so the test is reversed.
SymTypeIdx(r) ==
  CASE r.code \in Procs -> Default(r.type, T_CODE_LBL)
    [] r.code = "LABEL" -> T_CODE_LBL
    [] r.code = "PUB" -> Default(r.type, IF SegIsExecutable(cur, r.seg) # "OK"
                                           THEN T_CODE_LBL ELSE T_DATA_LBL)
    [] OTHER -> Default(r.type, T_DATA_LBL)

-----------------------------------------------------------------------------
(***************************************************************************)
(* Scopes.                                                                 *)
(***************************************************************************)
IsScope(k) == k \in DOMAIN Syms(call.im) /\ Syms(call.im)[k].code \in Openers

\* ScopeFillIn's ranges, mapped.
Start(k) == Location(Syms(call.im)[k])
Length(k) == Syms(call.im)[k].len

\* Mutant of Covers: a scope's last address is the one behind it.
CoversEnd(k, a) == a.off >= Start(k).off /\ a.off <= Start(k).off + Length(k)

Covers(k, a) == a.off >= Start(k).off /\ a.off < Start(k).off + Length(k)
Within(k, s) == Start(k).off >= Start(s).off
                /\ Start(k).off + Length(k) <= Start(s).off + Length(s)
DCSameAddrSpace(a, b) == a.seg = b.seg

Ends(result) == pc' = "done" /\ wr' = result

\* ScopeFindFirst came to an end: the rest of the entry point.
Found == pc' = IF call.op = "block" THEN "blockwalk" ELSE "scope"
NotFound ==
  IF call.op = "lookup" THEN pc' = "file" /\ UNCHANGED wr ELSE Ends("CONTINUE")

\* The first loop: the S_SSEARCH of the address's segment.
SearchSegment ==
  LET r == Syms(call.im)[call.chk] IN
  /\ pc = "ssearch"
  /\ IF call.chk > Len(Syms(call.im)) THEN NotFound /\ UNCHANGED call
     ELSE IF r.code = "SSEARCH"
               /\ DCSameAddrSpace(MapLogical(cur, [seg |-> r.seg, off |-> 0]), call.addr)
       THEN /\ call' = [call EXCEPT !.p = call.chk, !.chk = r.sym_off]
            /\ pc' = "outermost" /\ UNCHANGED wr
       ELSE call' = [call EXCEPT !.chk = @ + 1] /\ UNCHANGED <<pc, wr>>
  /\ UNCHANGED <<others, out>>

\* The second: the outermost scope around it.
SearchOutermost ==
  /\ pc = "outermost"
  /\ IF Covers(call.chk, call.addr)
       THEN /\ call' = [call EXCEPT !.scope = call.chk]
            /\ pc' = "smallest" /\ UNCHANGED wr
     ELSE IF Syms(call.im)[call.chk].next = 0 THEN NotFound /\ UNCHANGED call
     ELSE call' = [call EXCEPT !.chk = Syms(call.im)[call.chk].next] /\ UNCHANGED <<pc, wr>>
  /\ UNCHANGED <<others, out>>

\* The third: the smallest.  p is the record before chk; where chk opens no
\* scope and p is an END, the search is over.
AfterEnd(k) == k \in DOMAIN Syms(call.im) /\ Syms(call.im)[k].code = "END"

\* Mutant of SearchSmallest: to pass a scope it goes back into the outer one.
SearchSmallestBack ==
  LET inner == Covers(call.chk, call.addr) /\ Within(call.chk, call.scope)
      at    == IF IsScope(call.chk) /\ ~inner THEN call.scope ELSE call.chk
  IN  /\ pc = "smallest"
      /\ IF ~IsScope(call.chk) /\ AfterEnd(call.p)
           THEN Found /\ UNCHANGED call
           ELSE /\ call' = [call EXCEPT !.p = at, !.chk = at + 1,
                              !.scope = IF IsScope(call.chk) /\ inner THEN call.chk ELSE @]
                /\ UNCHANGED pc
      /\ UNCHANGED <<others, out, wr>>

SearchSmallest ==
  LET inner == Covers(call.chk, call.addr) /\ Within(call.chk, call.scope)
      at    == IF IsScope(call.chk) /\ ~inner THEN Syms(call.im)[call.chk].end ELSE call.chk
  IN  /\ pc = "smallest"
      /\ IF ~IsScope(call.chk) /\ AfterEnd(call.p)
           THEN Found /\ UNCHANGED call
           ELSE /\ call' = [call EXCEPT !.p = at, !.chk = at + 1,
                              !.scope = IF IsScope(call.chk) /\ inner THEN call.chk ELSE @]
                /\ UNCHANGED pc
      /\ UNCHANGED <<others, out, wr>>

-----------------------------------------------------------------------------
(***************************************************************************)
(* Walks.                                                                  *)
(***************************************************************************)
NotShown == {"COMPILE", "SSEARCH", "END", "SKIP", "OBJNAME", "ENDARG", "RETURN", "CEXMODEL",
             "VFTPATH", "THUNK", "BLOCK", "WITH"}

\* What SymFind compares: the name, and whether a type was asked for.
IsType(r) == r.code \in {"UDT", "COBOLUDT"}
Matches(r) == r.name = call.name /\ (IsType(r) <=> call.type = "TYPE")
Looking == call.op \in {"lookup", "modlookup"}

\* A symbol is handed on; the user may stop at it.
Show(h) ==
  /\ out' = IF Looking /\ ~Matches(Rec(h)) THEN out ELSE Append(out, h)
  /\ \/ UNCHANGED <<pc, wr>>
     \/ ~Looking /\ Ends("STOP")

\* ScopeOneSymbol at curr; a scope is passed over, and shown only at file
\* scope, and only if it is a procedure.
ScopeOneSymbol(curr, filescope) ==
  LET r == Syms(call.im)[curr] IN
  /\ call' = [call EXCEPT !.chk = (IF IsScope(curr) THEN r.end ELSE curr) + 1]
  /\ IF r.code \notin NotShown /\ (filescope \/ ~IsScope(curr))
       THEN Show(ModuleSym(call.im, curr))
       ELSE UNCHANGED <<pc, wr, out>>
  /\ UNCHANGED others

\* ScopeWalkOne skips the record that opens the scope.
EnterScope ==
  /\ pc = "scope"
  /\ call' = [call EXCEPT !.chk = call.scope + 1, !.walked = Append(@, call.scope)]
  /\ pc' = "one" /\ UNCHANGED <<others, out, wr>>

ScopeWalkOne ==
  /\ pc = "one"
  /\ \/ /\ Syms(call.im)[call.chk].code # "END"
        /\ ScopeOneSymbol(call.chk, FALSE)
     \/ /\ Syms(call.im)[call.chk].code = "END"
        /\ pc' = IF call.op = "block" THEN "outerblock" ELSE "class"
        /\ UNCHANGED <<others, call, out, wr>>

\* TypeMemberFuncInfo on the type of the procedure that opens the scope.
Function(k) == TypeIndexFillIn(SymTypeIdx(Syms(call.im)[k]))
IsMember(k) == Leaf(T, Function(k).vm).leaf = "MFUNCTION"

\* The members of the class are walked after a member function's own symbols.
WalkClass(ret) ==
  LET class == MemberClass(T, Function(call.scope)) IN
  IF IsMember(call.scope)
    THEN /\ StartWalk(IF Looking THEN "find" ELSE "user", TypeReal(T, class).idx, class.vm,
                      IF call.type = "TYPE" THEN None ELSE call.name, ret)
         /\ UNCHANGED <<files, call, out>>
    ELSE pc' = ret /\ UNCHANGED <<others, call, out, wr>>

ScopeWalkClass ==
  /\ pc = "class"
  /\ IF Syms(call.im)[call.scope].code \in Procs THEN WalkClass("outer")
     ELSE pc' = "outer" /\ UNCHANGED <<others, call, out, wr>>

\* Mutant of ScopeFindNext: a lookup goes on outwards to the file's symbols
\* whatever it found.
ScopeFindNextOn ==
  LET parent == Syms(call.im)[call.scope].parent IN
  /\ pc = "outer"
  /\ IF parent # 0
       THEN call' = [call EXCEPT !.scope = parent] /\ pc' = "scope" /\ UNCHANGED wr
     ELSE /\ UNCHANGED call
          /\ IF call.op = "scoped" THEN Ends("CONTINUE") ELSE pc' = "file" /\ UNCHANGED wr
  /\ UNCHANGED <<others, out>>

\* ScopeFindNext; after the outermost scope, a lookup goes on to the file's.
ScopeFindNext ==
  LET parent == Syms(call.im)[call.scope].parent IN
  /\ pc = "outer"
  /\ IF parent # 0
       THEN call' = [call EXCEPT !.scope = parent] /\ pc' = "scope" /\ UNCHANGED wr
     ELSE /\ UNCHANGED call
          /\ IF call.op = "scoped" THEN Ends("CONTINUE")
             ELSE IF out # <<>> THEN Ends("EXACT")
             ELSE pc' = "file" /\ UNCHANGED wr
  /\ UNCHANGED <<others, out>>

\* A client that goes from block to block (DIPImpAddrScope, a walk of
\* SS_BLOCK, DIPImpScopeOuter): after a procedure's block its class's.
WalkBlock ==
  /\ pc = "blockwalk"
  /\ IF call.inclass THEN WalkClass("outerblock")
     ELSE pc' = "scope" /\ UNCHANGED <<others, call, out, wr>>

ScopeOuter ==
  LET r == Syms(call.im)[call.scope] IN
  /\ pc = "outerblock"
  /\ IF ~call.inclass /\ r.code \in Procs
       THEN call' = [call EXCEPT !.inclass = TRUE] /\ pc' = "blockwalk" /\ UNCHANGED wr
     ELSE IF r.parent = 0 THEN Ends("CONTINUE") /\ UNCHANGED call
     ELSE /\ call' = [call EXCEPT !.inclass = FALSE, !.scope = r.parent]
          /\ pc' = "blockwalk" /\ UNCHANGED wr
  /\ UNCHANGED <<others, out>>

-----------------------------------------------------------------------------
(***************************************************************************)
(* The file scope and the tables of the whole image.                       *)
(***************************************************************************)

EnterFile ==
  /\ pc = "file" /\ call' = [call EXCEPT !.chk = 1]
  /\ pc' = "fileone" /\ UNCHANGED <<others, out, wr>>

\* What follows the file scope: a lookup that found nothing goes on to the
\* tables, a walk of all the modules to the next one and then to the tables.
FileDone ==
  IF Looking
    THEN IF out # <<>> THEN Ends("EXACT") /\ UNCHANGED call
         ELSE /\ call' = [call EXCEPT !.tbl = "StaticSym", !.chk = 1, !.is_im = call.im]
              /\ pc' = "name" /\ UNCHANGED wr
  ELSE IF ~call.all THEN Ends("CONTINUE") /\ UNCHANGED call
  ELSE IF call.mods # <<>>
    THEN /\ call' = [call EXCEPT !.im = Head(call.mods), !.mods = Tail(@)]
         /\ pc' = "file" /\ UNCHANGED wr
  ELSE /\ call' = [call EXCEPT !.tbl = "GlobalSym", !.chk = 1]
       /\ pc' = "table" /\ UNCHANGED wr

ScopeWalkFile ==
  /\ pc = "fileone"
  /\ IF call.chk > Len(Syms(call.im)) THEN FileDone /\ UNCHANGED <<others, out>>
                                      ELSE ScopeOneSymbol(call.chk, TRUE)

After(tbl) == CASE tbl = "StaticSym" -> "GlobalSym" [] tbl = "GlobalSym" -> "GlobalPub"
                [] OTHER -> "none"

\* TableSearchForName: the entries of the name's hash bucket.  Every match
\* in the table is created, before the next table is looked at.
TableSearchForName ==
  LET chain == Table(call.tbl).chain
      entry == chain[call.chk]
      h     == SymFillIn(call.tbl, entry.sym, call.is_im)
  IN  /\ pc = "name"
      /\ IF call.chk > Len(chain)
           THEN IF out # <<>> THEN Ends("EXACT") /\ UNCHANGED <<call, out>>
                ELSE IF After(call.tbl) = "none" THEN Ends("NONE") /\ UNCHANGED <<call, out>>
                ELSE /\ call' = [call EXCEPT !.tbl = After(@), !.chk = 1]
                     /\ UNCHANGED <<pc, wr, out>>
         ELSE IF entry.hash # Hash[call.name]
           THEN call' = [call EXCEPT !.chk = @ + 1] /\ UNCHANGED <<pc, wr, out>>
         ELSE /\ call' = [call EXCEPT !.chk = @ + 1, !.is_im = h.im]
              /\ out' = IF Rec(h).name = call.name THEN Append(out, h) ELSE out
              /\ UNCHANGED <<pc, wr>>
      /\ UNCHANGED others

\* TableSearchForAddr in the first segs of the segments: the offsets of each
\* are sorted, and the first that is not below the address ends its search.
TableSearchForAddr(tbl, a, best_off) ==
  LET segs == Table(tbl).segs
      search[i \in 0..Len(segs)] ==
        IF i = 0 THEN [NoBest EXCEPT !.off = best_off] ELSE
        LET best == search[i - 1]
            base == MapLogical(cur, [seg |-> i, off |-> 0])
            off(k) == segs[i][k].off + base.off
            stop == SelectInSeq(segs[i], LAMBDA e : e.off + base.off >= a.off)
            count == IF stop = 0 THEN Len(segs[i]) ELSE stop - 1
        IN  IF best.exact \/ ~DCSameAddrSpace(base, a) \/ segs[i] = <<>> THEN best
            ELSE IF stop # 0 /\ off(stop) = a.off
              THEN [sym |-> segs[i][stop].sym, off |-> a.off, exact |-> TRUE]
            ELSE IF count # 0 /\ (off(count) > best.off \/ (best.sym = 0 /\ best.off = 0))
              THEN [sym |-> segs[i][count].sym, off |-> off(count), exact |-> FALSE]
            ELSE best
  IN  search[Len(segs)]

\* Mutant of NotWalked: a public is walked whatever the global table has.
NotWalkedPublics(r) == r.code \in Reference \cup {"ALIGN"}

\* TableWalkSym: references stand for symbols of modules, and a public is
\* left out where the global table has a symbol at its address.
NotWalked(r) ==
  \/ r.code \in Reference \cup {"ALIGN"}
  \/ r.code = "PUB" /\ TableSearchForAddr("GlobalSym", Location(r), 0).exact
TableWalkSym ==
  LET recs == Table(call.tbl).recs IN
  /\ pc = "table"
  /\ IF call.chk <= Len(recs)
       THEN /\ call' = [call EXCEPT !.chk = @ + 1]
            /\ IF NotWalked(recs[call.chk]) THEN UNCHANGED <<pc, wr, out>>
               ELSE Show(SymFillIn(call.tbl, call.chk, Global))
     ELSE IF call.tbl = "GlobalSym"
       THEN call' = [call EXCEPT !.tbl = "GlobalPub", !.chk = 1] /\ UNCHANGED <<pc, wr, out>>
     ELSE Ends("CONTINUE") /\ UNCHANGED <<call, out>>
  /\ UNCHANGED others

\* DIPImpAddrSym: the three tables, each with the best offset so far.
AddrSym ==
  /\ pc = "addr"
  /\ \E best \in {TableSearchForAddr(call.tbl, call.addr, call.best.off)} :
       LET h == SymFillIn(call.tbl, best.sym, call.is_im) IN
       /\ IF best.sym = 0 THEN UNCHANGED out ELSE out' = <<h>>
       /\ call' = [call EXCEPT !.best = [best EXCEPT !.sym = 0], !.tbl = After(@),
                     !.is_im = IF best.sym = 0 THEN @ ELSE h.im]
       /\ IF best.exact THEN Ends("EXACT")
          ELSE IF call.tbl = "GlobalPub" THEN Ends(IF out' = <<>> THEN "NONE" ELSE "CLOSEST")
          ELSE UNCHANGED <<pc, wr>>
  /\ UNCHANGED others

\* A record cannot be read, or a symbol not be created.
CallFails ==
  /\ pc \in {"ssearch", "outermost", "smallest", "one", "class", "blockwalk", "outerblock",
             "fileone", "name", "table", "addr"}
  /\ Ends("FAIL") /\ UNCHANGED <<others, call, out>>

-----------------------------------------------------------------------------
(***************************************************************************)
(* Where a procedure returns its value (DIPImpSymParmLocation with n = 0). *)
(***************************************************************************)
Registers == [AL |-> 1, AX |-> 2, DX |-> 2, EAX |-> 4]   \* their sizes, on an x86

\* A value of a scalar type of that size, on an x86.
ScalarRegisters(size, is32) ==
  CASE size = 1 -> <<"AL">>
    [] size = 2 -> <<"AX">>
    [] size = 4 /\ is32 -> <<"EAX">>
    [] size = 4 /\ ~is32 -> <<"DX", "AX">>
    [] size = 6 -> <<"DX", "EAX">>
    [] OTHER -> <<>>
Scalars == {"BOOL", "ENUM", "CHAR", "INTEGER", "POINTER"}

\* <<>> where there is no location.  An S_RETURN right behind the procedure
\* says where the value is.
ReturnType(t, r) == ImpTypeInfo(t, ImpTypeBase(t, TypeIndexFillIn(r.type)), FALSE)
ReturnRegisters(h) ==
  LET r    == Rec(h)
      next == Rec([h EXCEPT !.sym = @ + 1])
      ti   == ReturnType(T, r)
  IN  IF r.code \notin Procs
         \/ Leaf(T, TypeReal(T, TypeIndexFillIn(r.type)).vm).leaf \notin Functions THEN <<>>
      ELSE IF next.code = "RETURN" THEN next.regs
      ELSE IF ti.kind \notin Scalars THEN <<>>
      ELSE ScalarRegisters(ti.size, r.is32)

\* None, or one register or two of that size together.
Holds(regs, size) ==
  regs = <<>> \/ (Len(regs) = 1 /\ Registers[regs[1]] = size)
              \/ (Len(regs) = 2 /\ Registers[regs[1]] + Registers[regs[2]] = size)

-----------------------------------------------------------------------------
(***************************************************************************)
(* What the files hold: how compilers and linkers write a module's symbols *)
(* s and a table.  The code relies on it and does not look.                *)
(***************************************************************************)
Opens(s) == {k \in DOMAIN s : s[k].code \in Openers}
Around(s, k) == {j \in Opens(s) : j < k /\ k < s[j].end}
Outermost(s) == {k \in Opens(s) : Around(s, k) = {}}

\* Scopes are in each other or apart, as records and as addresses; each END
\* closes one.  A module's code is in one segment.
Nested(a, b) == b.end < a.end /\ a.off <= b.off /\ b.off + b.len <= a.off + a.len
Apart(a, b) == a.off + a.len <= b.off \/ b.off + b.len <= a.off
ScopesNest(s) ==
  /\ \A k \in Opens(s) :
       /\ s[k].seg \in Nat /\ s[k].off \in Nat /\ s[k].len \in Nat
       /\ s[k].end \in (k + 1)..Len(s) /\ s[s[k].end].code = "END"
  /\ \A j, k \in Opens(s) :
       /\ s[j].seg = s[k].seg
       /\ j < k => IF k < s[j].end THEN Nested(s[j], s[k]) ELSE Apart(s[j], s[k])
  /\ \A e \in DOMAIN s : s[e].code = "END" => \E k \in Opens(s) : s[k].end = e

\* A scope's parent is the scope it is in; an outermost one's next is the
\* next of them, and an S_SSEARCH leads to the first.
ScopesLinked(s) ==
  /\ \A k \in Opens(s) :
       s[k].parent = IF Around(s, k) = {} THEN 0 ELSE Max(Around(s, k))
  /\ \A k \in Outermost(s) :
       LET later == {j \in Outermost(s) : j > k}
       IN  s[k].next = IF later = {} THEN 0 ELSE Min(later)
  /\ Opens(s) # {} => \E k \in DOMAIN s : s[k].code = "SSEARCH"
  /\ \A k \in DOMAIN s : s[k].code = "SSEARCH" =>
       /\ s[k].sym_off \in Outermost(s) /\ s[k].seg = s[s[k].sym_off].seg
       /\ \A j \in Outermost(s) : s[k].sym_off <= j

\* What a scope declares itself comes before the blocks in it.  Else the
\* search ends behind the first block the address is not in.
BlocksLast(s) ==
  \A k \in Opens(s) \ Outermost(s) : s[s[k].end + 1].code \in Openers \cup {"END"}

ScopesWritten ==
  \A f \in Files : LET syms == Info[f].syms IN
    /\ Global \notin DOMAIN syms
    /\ \A im \in DOMAIN syms :
         /\ Len(syms[im]) \in Nat /\ DOMAIN syms[im] = 1..Len(syms[im])
         /\ \A k \in Opens(syms[im]) : syms[im][k].seg \in DOMAIN Info[f].segs
         /\ ScopesNest(syms[im]) /\ ScopesLinked(syms[im]) /\ BlocksLast(syms[im])

\* The record an entry of a table stands for, and the hash chains: an entry
\* for each record, in the bucket of its name.
Refers(f, r) == IF r.code \in Reference THEN Info[f].syms[r.im][r.sym] ELSE r
ChainsWritten ==
  \A f \in Files, tbl \in Tables : LET t == Info[f].tables[tbl] IN
    /\ Len(t.chain) \in Nat /\ DOMAIN t.chain = 1..Len(t.chain)
    /\ \A c \in DOMAIN t.chain : t.chain[c].sym \in DOMAIN t.recs
    /\ \A k \in DOMAIN t.recs :
         /\ t.recs[k].code \in Reference => t.recs[k].im \in DOMAIN Info[f].syms
         /\ \A n \in Info[f].names : Refers(f, t.recs[k]).name = n =>
              \E c \in DOMAIN t.chain : t.chain[c].sym = k /\ t.chain[c].hash = Hash[n]

\* The addresses of a table: in each segment those of its records, in order.
\* What a reference refers to has one.
SegmentWritten(f, t, g) ==
  /\ Len(t.segs[g]) \in Nat /\ DOMAIN t.segs[g] = 1..Len(t.segs[g])
  /\ \A e \in DOMAIN t.segs[g] : LET r == Refers(f, t.recs[t.segs[g][e].sym]) IN
       /\ t.segs[g][e].sym \in DOMAIN t.recs /\ t.segs[g][e].off \in Nat
       /\ r.code \in Placed /\ r.seg = g /\ r.off = t.segs[g][e].off
  /\ \A d, e \in DOMAIN t.segs[g] : d < e => t.segs[g][d].off <= t.segs[g][e].off
RecordWritten(f, t, k) ==
  LET r == t.recs[k] IN
  /\ r.code \in Reference =>
       r.im \in DOMAIN Info[f].syms /\ r.sym \in DOMAIN Info[f].syms[r.im]
         /\ Refers(f, r).code \in Placed
  /\ Refers(f, r).code \in Placed =>
       \E g \in DOMAIN t.segs : \E e \in DOMAIN t.segs[g] : t.segs[g][e].sym = k
TableWritten(f, t) ==
  /\ Len(t.segs) \in 0..Len(Info[f].segs) /\ DOMAIN t.segs = 1..Len(t.segs)
  /\ Len(t.recs) \in Nat /\ DOMAIN t.recs = 1..Len(t.recs)
  /\ \A g \in DOMAIN t.segs : SegmentWritten(f, t, g)
  /\ \A k \in DOMAIN t.recs : RecordWritten(f, t, k)
AddressesWritten == \A f \in Files, tbl \in Tables : TableWritten(f, Info[f].tables[tbl])

\* Where a record is in a file loaded at a place, and the symbols at an
\* address that the listed modules have for the file and not in a scope, that
\* the global table has itself, and that are only public.
LoadedAt(f, where, r) ==
  LET seg == [k \in DOMAIN Info[f].segs |-> DCMapAddr(Info[f].segs[k], where)][r.seg]
  IN  [seg |-> seg.frame, off |-> seg.offset + r.off]
FileLevel(s) == {k \in DOMAIN s : s[k].code \in Placed \ NotShown /\ Around(s, k) = {}}
IsListed(f, im) == \E k \in DOMAIN Info[f].dir : Info[f].dir[k] = [im |-> im, sst |-> "Module"]
InModules(f) ==
  UNION {{ModuleSym(im, k) : k \in FileLevel(Info[f].syms[im])} :
           im \in {m \in DOMAIN Info[f].syms : IsListed(f, m)}}
InGlobals(f) ==
  {[im |-> Global, tbl |-> "GlobalSym", sym |-> k] :
     k \in {j \in DOMAIN Info[f].tables.GlobalSym.recs :
              Info[f].tables.GlobalSym.recs[j].code \in Placed}}
OnlyPublic(f, where) ==
  LET globals == Info[f].tables.GlobalSym.recs
      publics == Info[f].tables.GlobalPub.recs
      alone(r) == \A k \in DOMAIN globals :
                    Refers(f, globals[k]).code \in Placed =>
                      LoadedAt(f, where, Refers(f, globals[k])) # LoadedAt(f, where, r)
  IN  {[im |-> Global, tbl |-> "GlobalPub", sym |-> k] :
         k \in {j \in DOMAIN publics : publics[j].code = "PUB" /\ alone(publics[j])}}
RecordOf(f, h) == IF h.tbl = "AlignSym" THEN Info[f].syms[h.im][h.sym]
                                        ELSE Info[f].tables[h.tbl].recs[h.sym]

\* A module is listed once, and no two of these symbols are at one address.
\* What the global table refers to is one of them, and the publics are in the
\* public table.
OnceWritten ==
  \A f \in Files : LET dir == Info[f].dir IN
    /\ \A j, k \in DOMAIN dir : dir[j].sst = "Module" /\ dir[j] = dir[k] => j = k
    /\ LET globals == Info[f].tables.GlobalSym.recs
           publics == Info[f].tables.GlobalPub.recs
       IN  /\ \A k \in DOMAIN globals :
                /\ globals[k].code # "PUB"
                /\ globals[k].code \in Reference =>
                     ModuleSym(globals[k].im, globals[k].sym) \in InModules(f)
           /\ \A k \in DOMAIN publics :
                publics[k].code \notin Reference \cup (Placed \ {"PUB"})
    /\ \A where \in Info[f].places :
         \A g, h \in InModules(f) \cup InGlobals(f) \cup OnlyPublic(f, where) :
           LoadedAt(f, where, RecordOf(f, g)) = LoadedAt(f, where, RecordOf(f, h)) => g = h

\* A procedure is not the last record of its module or table, and an S_RETURN
\* behind it names registers for a value of its type.
Returning(types, s) ==
  \A k \in DOMAIN s : s[k].code \in Procs =>
    /\ k + 1 \in DOMAIN s
    /\ s[k + 1].code = "RETURN" => Holds(s[k + 1].regs, ReturnType(types, s[k]).size)
ReturnsWritten ==
  \A f \in Files :
    /\ \A im \in DOMAIN Info[f].syms : Returning(Info[f].types, Info[f].syms[im])
    /\ \A tbl \in Tables : Returning(Info[f].types, Info[f].tables[tbl].recs)

-----------------------------------------------------------------------------
(***************************************************************************)
(* What the entry points promise, from the records and not from the loops. *)
(***************************************************************************)

\* The scopes around an address.
Covering ==
  {k \in DOMAIN Syms(call.im) :
     /\ IsScope(k) /\ Start(k).seg = call.addr.seg
     /\ call.addr.off - Start(k).off \in 0..(Length(k) - 1)}

\* The symbols declared in a scope itself, or in the file's (0).
Inside(k, s) == s < k /\ k < Syms(call.im)[s].end
Declared(s) ==
  LET syms == Syms(call.im) IN
  {k \in DOMAIN syms :
     /\ syms[k].code \notin NotShown /\ (s = 0 \/ (Inside(k, s) /\ ~IsScope(k)))
     /\ \A j \in DOMAIN syms : IsScope(j) /\ Inside(k, j) => s # 0 /\ (j = s \/ Inside(s, j))}
InScope == UNION {Declared(s) : s \in Covering}

\* An inner scope's record comes after its outer one's, and its symbols come
\* before the outer one's and those before the file's.
Sooner(j, k) ==
  \E s, t \in Covering \cup {0} :
    j \in Declared(s) /\ k \in Declared(t) /\ (s > t \/ (s = t /\ j < k))

\* The symbols of modules among those handed out, and their records.
IsMemberHandle(h) == "list" \in DOMAIN h
Own == {i \in DOMAIN out : ~IsMemberHandle(out[i])}
Records == {out[i].sym : i \in Own}
NearestFirst == \A i, j \in Own : i < j => Sooner(out[i].sym, out[j].sym)

Done(op) == pc = "done" /\ call.op = op

\* The search for the scope of an address finds the innermost one.
SmallestScope ==
  call.walked # <<>> =>
    call.walked[1] \in Covering /\ \A k \in Covering : k <= call.walked[1]

\* Walking the scopes of an address, at once or block by block, gives the
\* symbols declared in each, innermost first, none left out on the way, and
\* nothing else.
NamesInScope ==
  Done("scoped") \/ Done("block") =>
    /\ NearestFirst /\ Records \subseteq InScope
    /\ \A j \in InScope : (\E k \in Records : Sooner(j, k)) => j \in Records
    /\ wr = "CONTINUE" => InScope \subseteq Records

\* A lookup gives the declarations in scope, else the file's, else those of
\* the first table that has the name, and none only if there are none.
OfName(recs) == {k \in recs : Matches(Syms(call.im)[k])}
InTable(tbl) == {SymFillIn(tbl, k, 0) : k \in DOMAIN Table(tbl).recs}
PlacedIn(tbl) == {h \in InTable(tbl) : Rec(h).code \in Placed}
NamedIn(tbl) == {h \in InTable(tbl) : Rec(h).name = call.name}
FirstNamed ==
  IF NamedIn("StaticSym") # {} THEN NamedIn("StaticSym")
  ELSE IF NamedIn("GlobalSym") # {} THEN NamedIn("GlobalSym") ELSE NamedIn("GlobalPub")
Anyones(h) == [h EXCEPT !.im = 0]
LookupNearest ==
  (Done("lookup") \/ Done("modlookup")) /\ wr \in {"EXACT", "NONE"} =>
    LET near == IF call.op = "lookup" /\ call.im # Global THEN OfName(InScope) ELSE {}
        file == IF call.im # Global THEN OfName(Declared(0)) ELSE {}
    IN  IF near # {} \/ Own # DOMAIN out THEN wr = "EXACT" /\ Records = near /\ NearestFirst
        ELSE IF file # {} THEN wr = "EXACT" /\ Records = file /\ NearestFirst
        ELSE /\ wr = "NONE" <=> FirstNamed = {}
             /\ {Anyones(out[i]) : i \in DOMAIN out} = {Anyones(h) : h \in FirstNamed}

\* Scopes as the debugger sees them: the search, the walks and the lookups.
ScopesRight == SmallestScope /\ NamesInScope /\ LookupNearest

\* The symbol found for an address is one that starts at or next below it,
\* whichever table it is in, and is called exact if it starts there.
NearestSymbol ==
  Done("addr") /\ wr # "FAIL" =>
    LET below == {Location(Rec(h)) : h \in UNION {PlacedIn(t) : t \in Tables}}
        reach == {a.off : a \in {b \in below : b.seg = call.addr.seg /\ b.off <= call.addr.off}}
    IN  /\ wr = "NONE" <=> reach = {}
        /\ reach # {} => Location(Rec(out[1])) = [call.addr EXCEPT !.off = Max(reach)]
        /\ wr = "EXACT" <=> call.addr.off \in reach

\* A walk of all modules shows each public symbol's address exactly once: in
\* its module, in the global table or in the public one.
EachOnce ==
  Done("module") /\ call.all /\ wr = "CONTINUE" =>
    LET shown == {k \in DOMAIN out : Rec(out[k]).code \in Placed} IN
    /\ \A j, k \in shown : Location(Rec(out[j])) = Location(Rec(out[k])) => j = k
    /\ \A h \in PlacedIn("GlobalPub") :
         \E k \in shown : Location(Rec(out[k])) = Location(Rec(h))

\* The registers a scalar is returned in hold just that.
ReturnFits ==
  Done("module") =>
    \A k \in DOMAIN out : Rec(out[k]).code \in Procs =>
      Holds(ReturnRegisters(out[k]), ReturnType(T, Rec(out[k])).size)

\* The symbols found by address and those of a walk.
SymbolsRight == NearestSymbol /\ EachOnce /\ ReturnFits

\* Indexing an array in all of its dimensions reaches as many elements as its
\* bounds say, each of them a place of its own, with no room between them; and
\* if it is not column major, they are all of the array.
Offsets(dims) ==
  FoldSeq(LAMBDA d, S : {o + i * d.stride : o \in S, i \in 0..(d.num_elts - 1)}, {0}, dims)
ElementsApart ==
  Done("array") /\ wr = "CONTINUE" =>
    LET elt   == ImpTypeInfo(T, call.it, call.fortran).size
        count == FoldSeq(LAMBDA d, n : n * d.num_elts, 1, out)
    IN  /\ Offsets(out) = {k * elt : k \in 0..(count - 1)}
        /\ ~call.fortran =>
             count * elt = ImpTypeInfo(T, TypeIndexFillIn(call.idx), FALSE).size
=============================================================================

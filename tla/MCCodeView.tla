----------------------------- MODULE MCCodeView -----------------------------
(* An instance of CodeView: one program with a diamond of classes, two     *)
(* modules and three tables, and files whose load goes wrong.              *)
EXTENDS CodeView

CONSTANTS i1, i2, program, plain, cut, headless, foreign

-----------------------------------------------------------------------------
Listed(f) == f \o <<>>   \* has TLC evaluate f once and not at each use

(* Types, from index 4096 on.  V is a virtual base of B1 and B2, both bases *)
(* of D; 4104 is const D; f is a member of D, g returns a near pointer; then  *)
(* int[4], int[2][4], long (1:2, 0:2), int [1:n][3] and const of the third.   *)
Leaves ==
  <<[leaf |-> "STRUCTURE", name |-> "V", field |-> 4097, size |-> 4],
    [leaf |-> "FIELDLIST", fields |-> <<<<"MEMBER", "v", 116, 0>>>>],
    [leaf |-> "CLASS", name |-> "B1", field |-> 4099, size |-> 12],
    [leaf |-> "FIELDLIST", fields |->
         <<<<"VBCLASS", "", 4096, 0>>, <<"MEMBER", "b", 116, 4>>, <<"INDEX", "", 4100, 0>>>>],
    [leaf |-> "FIELDLIST", fields |-> <<<<"STMEMBER", "s", 116, 0>>>>],
    [leaf |-> "CLASS", name |-> "B2", field |-> 4102, size |-> 12],
    [leaf |-> "FIELDLIST", fields |->
         <<<<"VBCLASS", "", 4096, 0>>, <<"BCLASS", "", 4111, 4>>, <<"MEMBER", "b", 116, 8>>>>],
    [leaf |-> "CLASS", name |-> "D", field |-> 4105, size |-> 32],
    [leaf |-> "MODIFIER", index |-> 4103],
    [leaf |-> "FIELDLIST", fields |->
         <<<<"BCLASS", "", 4098, 0>>, <<"BCLASS", "", 4101, 12>>, <<"IVBCLASS", "", 4096, 0>>,
           <<"VFUNCTAB", "", 4106, 0>>, <<"METHOD", "m", 0, 2>>, <<"NESTEDTYPE", "n", 4109, 0>>,
           <<"MEMBER", "v", 116, 24>>>>],
    [leaf |-> "POINTER", type |-> 4107, ptype |-> "NEAR32", isflat32 |-> FALSE],
    [leaf |-> "MFUNCTION", rvtype |-> 116, parms |-> 0, class_idx |-> 4104],
    [leaf |-> "PROCEDURE", rvtype |-> 4106, parms |-> 0],
    [leaf |-> "ENUM", name |-> "E", field |-> 4110, type |-> 116],
    [leaf |-> "FIELDLIST", fields |-> <<<<"ENUMERATE", "n", 0, 1>>>>],
    [leaf |-> "STRUCTURE", name |-> "C", field |-> 4112, size |-> 4],
    [leaf |-> "FIELDLIST", fields |-> <<<<"MEMBER", "c", 116, 0>>>>],
    [leaf |-> "CLASS", name |-> "F", field |-> 0, size |-> 0],
    [leaf |-> "PROCEDURE", rvtype |-> 1120, parms |-> 0],
    [leaf |-> "ARRAY", elemtype |-> 114, size |-> 8],
    [leaf |-> "ARRAY", elemtype |-> 4115, size |-> 16],
    [leaf |-> "DIMARRAY", utype |-> 116, diminfo |-> 4118],
    [leaf |-> "DIMCONLU", rank |-> 2, bounds |-> <<1, 2, 0, 2>>],
    [leaf |-> "DIMARRAY", utype |-> 114, diminfo |-> 4120],
    [leaf |-> "DIMVARU", rank |-> 2, bounds |-> <<4121, 4122>>],
    [leaf |-> "REFSYM", value |-> 1],
    [leaf |-> "REFSYM", value |-> 2],
    [leaf |-> "MODIFIER", index |-> 4117],
    [leaf |-> "ARRAY", elemtype |-> 112, size |-> 3]>>

\* A field is a row here: kind, name, type, and offset or number of overloads.
Fielded(l) ==
  IF l.leaf # "FIELDLIST" THEN l ELSE
  [l EXCEPT !.fields = Listed([k \in DOMAIN @ |->
     [code |-> @[k][1], name |-> @[k][2], type |-> @[k][3], offset |-> @[k][4], count |-> @[k][4]]])]
Types(leaves) == 4096 :> Fielded(leaves[1]) @@ [idx \in 4097..4124 |-> Fielded(leaves[idx - 4095])]

-----------------------------------------------------------------------------
(* Symbols, one row each: kind, name, offset, type, segment, length,        *)
(* enclosing scope, its end, and the next scope, where the last columns may   *)
(* be left out.  A reference or a search entry has the module and the record  *)
(* it refers to for offset and type.  h is the one function of 16 bits.       *)
Blank == <<"", "", 0, 0, 1, 0, 0, 0, 0>>
Padded(row) == row \o SubSeq(Blank, Len(row) + 1, 9)
Symbols(rows) ==
  Listed([k \in DOMAIN rows |-> CHOOSE r \in
    {[code |-> p[1], name |-> p[2], off |-> p[3], im |-> p[3],
      type |-> p[4], sym |-> p[4], sym_off |-> p[4], seg |-> p[5],
      len |-> p[6], parent |-> p[7], end |-> p[8], next |-> p[9],
      is32 |-> p[2] # "h", regs |-> IF p[1] = "RETURN" THEN <<"EAX">> ELSE <<>>] :
        p \in {Padded(rows[k])}} : TRUE])
ModuleSymbols(mods) == Listed([im \in DOMAIN mods |-> Symbols(mods[im])])

\* Two blocks side by side in f, the second with one inside, then g.
Module1 ==
  <<<<"SSEARCH", "", 0, 2>>,
    <<"GPROC", "f", 2, 4107, 1, 10, 0, 12, 13>>,
    <<"BPREL", "a", 0, 116>>,
    <<"BLOCK", "", 3, 0, 1, 3, 2, 6>>,
    <<"BPREL", "a", 0, 116>>,
    <<"END">>,
    <<"BLOCK", "", 7, 0, 1, 4, 2, 11>>,
    <<"UDT", "v", 0, 4103>>,
    <<"BLOCK", "", 8, 0, 1, 2, 7, 10>>,
    <<"END">>,
    <<"END">>,
    <<"END">>,
    <<"LPROC", "g", 14, 4108, 1, 4, 0, 15>>,
    <<"RETURN">>,
    <<"END">>,
    <<"LDATA", "x", 0, 116, 2>>,
    <<"UDT", "b", 0, 4103>>,
    <<"UDT", "v", 0, 4103>>>>
Module2 ==
  <<<<"SSEARCH", "", 0, 2>>,
    <<"GPROC", "h", 20, 4114, 1, 4, 0, 4>>,
    <<"ENDARG">>,
    <<"END">>,
    <<"GDATA", "y", 4, 116, 2>>,
    <<"LDATA", "x", 6, 116, 2>>>>

\* The tables: the records of one, its hash chains and its addresses in order.
Statics == <<<<"PROCREF", "", 1, 13>>, <<"DATAREF", "", 1, 16>>, <<"DATAREF", "", 2, 6>>>>
Globals == <<<<"PROCREF", "", 1, 2>>, <<"PROCREF", "", 2, 2>>, <<"DATAREF", "", 2, 5>>,
             <<"GDATA", "w", 8, 116, 2>>>>
Publics == <<<<"PUB", "f", 2>>, <<"PUB", "h", 20>>, <<"PUB", "y", 4, 0, 2>>,
             <<"PUB", "z", 5, 0, 2>>>>
HashOf(n) ==
  CASE n \in {"x", "z"} -> 1 [] n \in {"w", "y"} -> 2 [] n \in {"f", "q"} -> 3
    [] n = "g" -> 4 [] OTHER -> 5
Index ==
  [StaticSym |-> <<Statics, <<<<1, "g">>, <<2, "x">>, <<3, "x">>>>,
                   <<<<<<1, 14>>>>, <<<<2, 0>>, <<3, 6>>>>>>>>,
   GlobalSym |-> <<Globals, <<<<4, "w">>, <<1, "f">>, <<2, "h">>, <<3, "y">>>>,
                   <<<<<<1, 2>>, <<2, 20>>>>, <<<<3, 4>>, <<4, 8>>>>>>>>,
   GlobalPub |-> <<Publics, <<<<3, "y">>, <<4, "z">>, <<1, "f">>, <<2, "h">>>>,
                   <<<<<<1, 2>>, <<2, 20>>>>, <<<<3, 4>>, <<4, 5>>>>>>>>]
SymbolTable(recs, chain, segs) ==
  [recs |-> Symbols(recs),
   chain |-> Listed([k \in DOMAIN chain |->
                       [sym |-> chain[k][1], hash |-> HashOf(chain[k][2])]]),
   segs |-> Listed([s \in DOMAIN segs |-> Listed([k \in DOMAIN segs[s] |->
                       [sym |-> segs[s][k][1], off |-> segs[s][k][2]]])])]
SymbolTables(index) ==
  [tbl \in DOMAIN index |-> SymbolTable(index[tbl][1], index[tbl][2], index[tbl][3])]

-----------------------------------------------------------------------------
(* Files.                                                                  *)
Directory(rows) ==
  Listed([k \in DOMAIN rows |-> [im |-> rows[k][1], sst |-> rows[k][2]]])
OfModules == <<<<1, "Module">>, <<1, "AlignSym">>, <<2, "Module">>, <<2, "AlignSym">>>>
OfImage == <<<<0, "SegMap">>, <<0, "GlobalTypes">>>>
OfTables == <<<<0, "StaticSym">>, <<0, "GlobalSym">>, <<0, "GlobalPub">>>>

Segment(x) == [frame |-> IF x THEN 1 ELSE 2, offset |-> 0, execute |-> x]
Place(f1, o1, f2, o2) == <<[frame |-> f1, offset |-> o1], [frame |-> f2, offset |-> o2]>>
Near == [seg : {7}, off : {1, 2, 4, 6, 8, 10, 11, 12, 14, 20, 24}]
Flat == [seg : {9}, off : {103, 108, 119, 130, 134, 135, 139}] \cup [seg : {8}, off : {0, 5, 7}]

Program ==
  [dir |-> Directory(OfModules \o OfImage \o OfTables),
   signature |-> TRUE, header |-> TRUE, machine |-> <<"none", "x86">>,
   segs |-> <<Segment(TRUE), Segment(FALSE)>>,
   types |-> Types(Leaves),
   syms |-> ModuleSymbols(<<Module1, Module2>>),
   tables |-> SymbolTables(Index),
   ranges |-> <<<<[seg |-> 1, off |-> 2, len |-> 18]>>, <<[seg |-> 1, off |-> 20, len |-> 6]>>>>,
   classes |-> {4096, 4098, 4103, 4104, 4109, 4111, 4113},
   arrays |-> {4116, 4117, 4119, 4123, 4124},
   names |-> {"a", "b", "v", "x", "y", "g", "z", "q"},
   places |-> {Place(7, 0, 8, 0), Place(9, 100, 9, 130)},
   addrs |-> Near \cup Flat]

\* A file whose load goes wrong, with nothing to be asked for: p without it.
Bare(p, f) ==
  [p EXCEPT !.dir = Directory(CASE f = cut -> OfModules
                                [] f = foreign -> SubSeq(OfModules, 1, 2) \o OfImage
                                [] OTHER -> OfImage),
            !.header = (f # headless),
            !.machine = CASE f = cut -> @ [] f = foreign -> <<"m68k">> [] OTHER -> <<>>,
            !.classes = {}, !.arrays = {}, !.names = {}, !.places = {}, !.addrs = {}, !.syms = <<>>,
            !.tables = SymbolTables([tbl \in Tables |-> <<<<>>, <<>>, <<>>>>])]
OnDisk(p) == program :> p @@ [f \in Files \ {program} |-> Bare(p, f)]
MCInfo == OnDisk(Program)
\* In a LET, so that TLC's coverage does not take the files apart at each use of Info.
FileInfo == LET info == MCInfo IN info

\* What the proofs say of files as they are written holds of these.
ASSUME WrittenAssumption ==
  ScopesWritten /\ ChainsWritten /\ AddressesWritten /\ OnceWritten /\ ReturnsWritten

MCHash == [n \in {"a", "b", "v", "x", "y", "z", "g", "w", "f", "h", "q"} |-> HashOf(n)]
=============================================================================

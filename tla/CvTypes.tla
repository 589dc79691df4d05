------------------------------- MODULE CvTypes -------------------------------
(***************************************************************************)
(* The types of the CodeView DIP (dip_src/cvtype.c): what a type index     *)
(* stands for, the size and the parts of a type, and what is known of the  *)
(* member a symbol handle stands for.                                      *)
(*                                                                         *)
(* A type table t is a function from type indices to leaf records.  The    *)
(* fields of a field list are a sequence, so a place in it is the index of *)
(* the list and a position.                                                *)
(***************************************************************************)
EXTENDS Integers, SequencesExt, FiniteSetsExt

CV_FIRST_USER_TYPE == 4096
UNKNOWN_TYPE_IDX == 65535
PT_REALLY_CHAR == 112

-----------------------------------------------------------------------------
(***************************************************************************)
(* Handles.                                                                *)
(***************************************************************************)

\* A place in the type information: a record's length word, or with off = 2
\* the leaf behind it.
NoVM == [rec |-> 0, off |-> 0]
TypeIndexVM(t, idx) == IF idx \in DOMAIN t THEN [rec |-> idx, off |-> 0] ELSE NoVM
Body(idx) == [rec |-> idx, off |-> 2]

TypeIndexFillIn(idx) ==
  [idx |-> idx, array_dim |-> 0,
   vm |-> IF idx < CV_FIRST_USER_TYPE THEN NoVM ELSE Body(idx)]

\* The leaf read at vm; a length word is no leaf's code.
Leaf(t, vm) == IF vm.off = 2 THEN t[vm.rec] ELSE [leaf |-> "length"]

\* TypeReal skips LF_MODIFIERs.
TypeReal(t, it) ==
  LET real[idx \in DOMAIN t] ==
        IF t[idx].leaf # "MODIFIER" THEN idx
        ELSE IF t[idx].index < CV_FIRST_USER_TYPE THEN t[idx].index
        ELSE real[t[idx].index]
  IN  IF Leaf(t, it.vm).leaf = "MODIFIER" THEN TypeIndexFillIn(real[it.vm.rec])
                                          ELSE it

Structs == {"CLASS", "STRUCTURE"}
Named == Structs \cup {"ARRAY", "UNION", "ENUM"}
NoName == "no name"
TypeVMGetName(t, vm) ==
  IF Leaf(t, vm).leaf \in Named THEN Leaf(t, vm).name ELSE NoName

-----------------------------------------------------------------------------
(***************************************************************************)
(* Sizes and kinds (ImpTypeInfo).                                          *)
(***************************************************************************)

TypeInfo(k, m, s) == [kind |-> k, modifier |-> m, size |-> s]
NoInfo == TypeInfo("NONE", "NONE", 0)

\* cv_primitive: bits 0-2 are the size, 4-7 the type, 8-10 the mode.
PrimMode(idx) == (idx \div 256) % 8
PrimType(idx) == (idx \div 16) % 16
PrimSize(idx) == idx % 8

Pointers == <<TypeInfo("POINTER", "NEAR", 2), TypeInfo("POINTER", "FAR", 4),
              TypeInfo("POINTER", "HUGE", 4), TypeInfo("POINTER", "NEAR", 4),
              TypeInfo("POINTER", "FAR", 6), TypeInfo("POINTER", "NEAR", 8)>>
Specials == <<NoInfo, TypeInfo("ADDRESS", "NONE", 6), TypeInfo("DATA", "NONE", 2),
              TypeInfo("VOID", "NONE", 0), TypeInfo("DATA", "NONE", 8),
              TypeInfo("STRING", "NONE", 0), TypeInfo("STRING", "NONE", 0), NoInfo>>
RealSizes == <<4, 8, 10, 16, 6>>
Sign(n) == IF n % 2 = 0 THEN "SIGNED" ELSE "UNSIGNED"

\* Two character types, then the signed and unsigned integers in turn.
ReallyInt(n) ==
  IF n < 2 THEN TypeInfo("CHAR", "NONE", n + 1)
           ELSE TypeInfo("INTEGER", Sign(n), 2 ^ (n \div 2))

Direct(idx) ==
  LET n == PrimSize(idx)
      bytes == 2 ^ n
      integer == IF bytes = 1 THEN "CHAR" ELSE "INTEGER"
  IN  CASE PrimType(idx) = 0  -> Specials[n + 1]
        [] PrimType(idx) = 1  -> TypeInfo(integer, "SIGNED", bytes)
        [] PrimType(idx) = 2  -> TypeInfo(integer, "UNSIGNED", bytes)
        [] PrimType(idx) = 3  -> TypeInfo("BOOL", "NONE", bytes)
        [] PrimType(idx) = 4  -> TypeInfo("REAL", "NONE", RealSizes[n + 1])
        [] PrimType(idx) = 5  -> TypeInfo("COMPLEX", "NONE", 2 * RealSizes[n + 1])
        [] PrimType(idx) = 6  -> TypeInfo("DATA", "NONE", 1)
        [] PrimType(idx) = 7  -> ReallyInt(n)
        [] PrimType(idx) = 15 ->
             TypeInfo(IF (idx \div 8) % 2 = 1 THEN "DATA" ELSE "CODE", "NONE", bytes)
        [] OTHER -> NoInfo

TypePrimitiveInfo(idx) ==
  CASE PrimMode(idx) = 0 -> Direct(idx)
    [] PrimMode(idx) \in 1..6 -> Pointers[PrimMode(idx)]
    [] OTHER -> NoInfo

\* An LF_POINTER; what it is based on does not change its size.
PointerInfo(l) ==
  CASE l.ptype = "NEAR"   -> Pointers[1]
    [] l.ptype = "FAR"    -> Pointers[2]
    [] l.ptype = "HUGE"   -> Pointers[3]
    [] l.ptype = "NEAR32" -> Pointers[4]
    [] l.ptype = "FAR32"  -> Pointers[5]
    [] OTHER -> IF l.isflat32 THEN Pointers[4] ELSE Pointers[1]

\* A dimension of an LF_DIMARRAY: a constant, or what GetBound finds for a
\* symbol (its value now, or a constant's).
GetBound(t, idx) == t[idx].value
Lower(t, dims, k, fortran) ==
  CASE dims.leaf \in {"DIMCONU", "DIMVARU"} -> IF fortran THEN 1 ELSE 0
    [] dims.leaf = "DIMCONLU" -> dims.bounds[2 * k + 1]
    [] dims.leaf = "DIMVARLU" -> GetBound(t, dims.bounds[2 * k + 1])
Upper(t, dims, k) ==
  CASE dims.leaf = "DIMCONU"  -> dims.bounds[k + 1]
    [] dims.leaf = "DIMCONLU" -> dims.bounds[2 * k + 2]
    [] dims.leaf = "DIMVARU"  -> GetBound(t, dims.bounds[k + 1])
    [] dims.leaf = "DIMVARLU" -> GetBound(t, dims.bounds[2 * k + 2])
\* GetArrayRange: low_bound and num_elts of dimension k.
ArrayRange(t, dims, k, fortran) ==
  [low_bound |-> Lower(t, dims, k, fortran),
   num_elts |-> Upper(t, dims, k) - Lower(t, dims, k, fortran) + 1]
\* Mutant of EltsBefore: the dimensions before it are not counted.
EltsBeforeNone(t, dims, d, fortran) == 1

\* The elements a step in dimension d passes over in a column major array.
EltsBefore(t, dims, d, fortran) ==
  FoldSet(LAMBDA k, n : n * ArrayRange(t, dims, k, fortran).num_elts, 1, 0..(d - 1))

\* An LF_DIMARRAY of which d dimensions were peeled; elt is the TypeInfo of
\* its elements and rest that of what the next dimension leaves.
DimArrayInfo(t, l, d, fortran, elt, rest) ==
  LET dims == t[l.diminfo] IN
  ArrayRange(t, dims, d, fortran) @@
  [num_dims |-> dims.rank - d, column_major |-> fortran,
   stride |-> IF fortran THEN elt.size * EltsBefore(t, dims, d, fortran)
              ELSE (IF d + 1 < dims.rank THEN rest ELSE elt).size]

MaxRank == 2    \* bound on the dimensions of an array

\* ImpTypeInfo of every user type, with d of its dimensions peeled.
Infos(t, fortran) ==
  LET info[idx \in DOMAIN t, d \in 0..MaxRank] ==
        LET l == t[idx]
            of(i) == IF i < CV_FIRST_USER_TYPE THEN TypePrimitiveInfo(i) ELSE info[i, 0]
            array(elt) == IF elt = PT_REALLY_CHAR /\ fortran THEN "STRING" ELSE "ARRAY"
            dim == DimArrayInfo(t, l, d, fortran, of(l.utype), info[idx, d + 1])
        IN  CASE l.leaf \in {"MODIFIER"} -> of(l.index)
              [] l.leaf = "BITFIELD" -> of(l.type)
              [] l.leaf = "ENUM" -> [of(l.type) EXCEPT !.kind = "ENUM"]
              [] l.leaf = "POINTER" -> PointerInfo(l)
              [] l.leaf = "ARRAY" -> TypeInfo(array(l.elemtype), "NONE", l.size)
              [] l.leaf = "DIMARRAY" ->
                   TypeInfo(array(l.utype), "NONE", dim.num_elts * dim.stride)
              [] l.leaf \in Structs \cup {"UNION"} -> TypeInfo("STRUCT", "NONE", l.size)
              [] l.leaf \in {"PROCEDURE", "MFUNCTION"} -> TypeInfo("FUNCTION", "NONE", 0)
              [] l.leaf = "LABEL" -> IF l.far THEN TypeInfo("ADDRESS", "FAR", 4)
                                              ELSE TypeInfo("ADDRESS", "NEAR", 2)
              [] OTHER -> NoInfo
  IN  info

ImpTypeInfo(t, it, fortran) ==
  LET real == TypeReal(t, it) IN
  IF real.idx < CV_FIRST_USER_TYPE THEN TypePrimitiveInfo(real.idx)
                                   ELSE Infos(t, fortran)[real.vm.rec, real.array_dim]

-----------------------------------------------------------------------------
(***************************************************************************)
(* Parts (ImpTypeBase, ImpTypeArrayInfo, TypeMemberFuncInfo).              *)
(***************************************************************************)

BadParm == [idx |-> 0, array_dim |-> 0, vm |-> NoVM, ds |-> "BAD_PARM"]

\* The types one step from it; a bit field's is one step from its own.
BaseIndex(l) ==
  CASE l.leaf \in {"POINTER", "ENUM", "BITFIELD"} -> l.type
    [] l.leaf = "ARRAY" -> l.elemtype
    [] l.leaf = "DIMARRAY" -> l.utype
    [] l.leaf \in {"PROCEDURE", "MFUNCTION"} -> l.rvtype

WithBase == {"POINTER", "ENUM", "BITFIELD", "ARRAY", "DIMARRAY", "PROCEDURE", "MFUNCTION"}

Base(t, it) ==
  LET real == TypeReal(t, it)
      l    == Leaf(t, real.vm)
  IN  CASE real.idx < CV_FIRST_USER_TYPE ->
             TypeIndexFillIn(real.idx - 256 * PrimMode(real.idx))
        [] real.idx >= CV_FIRST_USER_TYPE /\ l.leaf = "DIMARRAY"
             /\ real.array_dim + 1 < t[l.diminfo].rank ->
             [real EXCEPT !.array_dim = @ + 1]
        [] OTHER -> IF l.leaf \in WithBase THEN TypeIndexFillIn(BaseIndex(l)) ELSE BadParm

ImpTypeBase(t, it) ==
  IF Leaf(t, TypeReal(t, it).vm).leaf = "BITFIELD" THEN Base(t, Base(t, it))
                                                  ELSE Base(t, it)

\* An LF_ARRAY's size is stored, and its elements are counted from it.
ImpTypeArrayInfo(t, it, fortran) ==
  LET l   == Leaf(t, TypeReal(t, it).vm)
      elt == ImpTypeInfo(t, TypeIndexFillIn(BaseIndex(l)), fortran)
  IN  IF l.leaf = "ARRAY"
        THEN [low_bound |-> 0, num_elts |-> l.size \div elt.size, stride |-> elt.size,
              num_dims |-> 1, column_major |-> fortran]
        ELSE DimArrayInfo(t, l, it.array_dim, fortran, elt,
                          ImpTypeInfo(t, ImpTypeBase(t, it), fortran))

Functions == {"PROCEDURE", "MFUNCTION"}

\* TypeMemberFuncInfo: the class of a member function, past a modifier.
MemberClass(t, it) ==
  LET class == TypeIndexFillIn(Leaf(t, it.vm).class_idx) IN
  IF Leaf(t, class.vm).leaf = "MODIFIER"
    THEN TypeIndexFillIn(Leaf(t, class.vm).index) ELSE class

\* The field list of a class, union or enumeration.
HasFields == Structs \cup {"UNION", "ENUM"}
FieldList(t, vm) == TypeIndexVM(t, Leaf(t, vm).field)

-----------------------------------------------------------------------------
(***************************************************************************)
(* Symbols that are members (TypeSymGetType, TypeSymGetAddr).  A symbol s  *)
(* names the list and the position of its field, the containing type,      *)
(* which overload it is, and the adjustor: how far the base it comes from  *)
(* is into the object.                                                     *)
(***************************************************************************)

FieldOf(t, s) == t[s.list].fields[s.pos]

\* What a method's field says, or for an overloaded one GetMethodInfo's
\* entry of the method list.
MethodInfo(t, s) ==
  IF FieldOf(t, s).code = "METHOD" THEN t[FieldOf(t, s).mlist].methods[s.mfunc_idx + 1]
                                   ELSE FieldOf(t, s)

TypeSymGetType(t, s) ==
  LET f == FieldOf(t, s) IN
  CASE f.code \in {"MEMBER", "STMEMBER"} ->
         IF f.type >= CV_FIRST_USER_TYPE /\ t[f.type].leaf = "BITFIELD"
           THEN TypeIndexFillIn(t[f.type].type) ELSE TypeIndexFillIn(f.type)
    [] f.code \in {"METHOD", "ONEMETHOD"} -> TypeIndexFillIn(MethodInfo(t, s).type)
    [] f.code = "ENUMERATE" ->
         [idx |-> UNKNOWN_TYPE_IDX, array_dim |-> 0, vm |-> s.containing_type]

\* Where a member is.  "object" counts from the object's start, or from that
\* of the virtual base the adjustor names; "symbol" is what MatchSymLocation
\* has to find, "<scope>::<name>" with the field's type; "vtable" is
\* VFuncLocation's.
Nowhere == [at |-> "nowhere"]
InObject(s, f, bits) ==
  [at |-> "object", vbase |-> s.adjustor.vbase, offset |-> s.adjustor.offset + f.offset,
   bits |-> bits]
MatchSymLocation(t, s, type) ==
  [at |-> "symbol", scope |-> TypeVMGetName(t, s.containing_type),
   name |-> FieldOf(t, s).name, type |-> type]

Bits(t, type) ==
  IF type >= CV_FIRST_USER_TYPE /\ t[type].leaf = "BITFIELD"
    THEN <<t[type].position, t[type].length>> ELSE <<>>

TypeSymGetAddr(t, s) ==
  LET f == FieldOf(t, s)
      m == MethodInfo(t, s)
  IN  CASE f.code = "MEMBER" -> InObject(s, f, Bits(t, f.type))
        [] f.code = "STMEMBER" -> MatchSymLocation(t, s, f.type)
        [] f.code \in {"METHOD", "ONEMETHOD"} ->
             CASE m.mprop \in {"VIRTUAL", "PUREVIRT"} -> Nowhere
               [] m.mprop \in {"INTROVIRT", "PUREINTROVIRT"} ->
                    [at |-> "vtable", offset |-> m.vtab_off]
               [] OTHER -> MatchSymLocation(t, s, m.type)
        [] f.code = "ENUMERATE" -> Nowhere

-----------------------------------------------------------------------------
(***************************************************************************)
(* Tags (TypeSearchTagName): the first type of the table with that code    *)
(* and name.                                                               *)
(***************************************************************************)
TypeSearchTagName(t, code, name) ==
  LET found == {idx \in DOMAIN t : t[idx].leaf = code /\ t[idx].name = name}
  IN  IF found = {} THEN 0 ELSE Min(found)
=============================================================================

------------------------------- MODULE CvWalk -------------------------------
(***************************************************************************)
(* The walk of a class's members (TypeListWalk, dip_src/cvtype.c) and its  *)
(* clients: the symbol walk and the symbol search of a type, the thunk     *)
(* adjustment and the search for the virtual function table.               *)
(*                                                                         *)
(* The walk keeps a frame for the class and one for each base it is        *)
(* inside of.  Its client only hears when a base starts and ends, and      *)
(* keeps one running adjustor from that: how far into the object the base  *)
(* is, and from which virtual base.                                        *)
(*                                                                         *)
(* Of the client's answer to the start of a base the walk only knows       *)
(* WR_STOP.  A client that fails there has not entered the base, but the   *)
(* walk goes into it, and the client leaves it, all the same.              *)
(***************************************************************************)
EXTENDS CvLoad, CvTypes

VARIABLES
  lists,   \* pending_type_list, innermost last; a frame also keeps, for the
           \* properties, where its base is (adj) and whether the client
           \* entered it (told)
  walk,    \* the client and its data; for the properties also whether it
           \* failed at a base the walk went into (lost), and the offsets it
           \* did not add then (missed)
  out,     \* the symbols handed to the caller of the entry point, in order
  wr       \* its result: "" until it returns

T == Info[img[cur].file].types

\* Where a base is in its class is a number.
ASSUME TypesAssumption ==
  \A f \in Files : \A idx \in DOMAIN Info[f].types :
    LET l == Info[f].types[idx] IN
    /\ idx \in Nat
    /\ l.leaf = "FIELDLIST" =>
         /\ Len(l.fields) \in Nat
         /\ \A k \in 1..Len(l.fields) :
              l.fields[k].code = "BCLASS" => l.fields[k].offset \in Int

NoBase == <<0, 0>>
NoAdj == [vbase |-> NoBase, offset |-> 0]

\* client : "user", "search", "thunk" or "vtab"; key : the name or the class
\* searched for; head : the class walked; skipped : the user left a base out;
\* ret : what follows the walk in the entry point.
NoWalk == [client |-> "none", head |-> 0, key |-> None, adj |-> NoAdj, mfunc |-> 0,
           found |-> FALSE, skipped |-> FALSE, lost |-> FALSE, missed |-> 0, ret |-> "idle"]

Frame(list, containing_type, adj, told) ==
  [list |-> list, curr |-> 1, containing_type |-> containing_type, adj |-> adj, told |-> told]

InitWalk == lists = <<>> /\ walk = NoWalk /\ out = <<>> /\ wr = ""

files == <<ImageList, img, heap, cur>>

-----------------------------------------------------------------------------
Walking == pc = "list"
Depth == Len(lists)
list == lists[Depth]
Outer == lists[Depth - 1]
\* A record that is no list has no fields.
FieldsIn(idx) == IF T[idx].leaf = "FIELDLIST" THEN T[idx].fields ELSE <<>>
Fields(l) == FieldsIn(l.list)
AtEnd == list.curr > Len(Fields(list))
Field(l) == Fields(l)[l.curr]
Virtual == {"VBCLASS", "IVBCLASS"}
Bases == {"BCLASS"} \cup Virtual

NextField == lists' = [lists EXCEPT ![Depth].curr = @ + 1]

\* TypeListWalk returns: WR_CONTINUE to the entry point's next step, any
\* other result from the entry point itself.
Return(result) ==
  /\ lists' = <<>>
  /\ IF result = "CONTINUE" /\ walk.ret # "done"
       THEN pc' = walk.ret /\ UNCHANGED wr
       ELSE pc' = "done" /\ wr' = result

\* Mutant of LeaveBase: a virtual base's end leaves the type in place.
LeaveBaseKeeps(adj, l) ==
  IF Field(l).code = "BCLASS" THEN [adj EXCEPT !.offset = @ - Field(l).offset] ELSE adj

\* The adjustor as all the clients keep it at SWI_INHERIT_START and _END.
EnterBase(adj, l) ==
  IF Field(l).code = "BCLASS" THEN [adj EXCEPT !.offset = @ + Field(l).offset]
                              ELSE [adj EXCEPT !.vbase = <<l.list, l.curr>>]
LeaveBase(adj, l) ==
  IF Field(l).code = "BCLASS" THEN [adj EXCEPT !.offset = @ - Field(l).offset]
                              ELSE [adj EXCEPT !.vbase = NoBase]

\* A base's own record, and the list of its fields.
BaseVM(l) == TypeIndexVM(T, Field(l).type)
BaseFields(l) == T[Field(l).type].field

-----------------------------------------------------------------------------
\* TypeListWalk on the fields of class idx; one only declared has none.
StartWalk(client, idx, containing_type, key, ret) ==
  IF TypeIndexVM(T, T[idx].field) = NoVM
    THEN pc' = "done" /\ wr' = "FAIL" /\ UNCHANGED <<lists, walk>>
    ELSE /\ lists' = <<Frame(T[idx].field, containing_type, NoAdj, TRUE)>>
         /\ walk' = [NoWalk EXCEPT !.client = client, !.head = idx, !.key = key, !.ret = ret]
         /\ pc' = "list" /\ UNCHANGED wr

\* The end of the class, or of a base.
ListDone == Walking /\ Depth = 1 /\ AtEnd
            /\ Return("CONTINUE") /\ UNCHANGED <<files, walk, out>>

\* SWI_INHERIT_END, where the user may stop.  The client leaves the base
\* whether it entered it or not.
InheritEnd ==
  /\ Walking /\ Depth > 1 /\ AtEnd
  /\ \/ /\ ~walk.found
        /\ lists' = [Front(lists) EXCEPT ![Depth - 1].curr = @ + 1]
        /\ walk' = [walk EXCEPT !.adj = LeaveBase(@, Outer)]
        /\ UNCHANGED <<pc, wr>>
     \/ (walk.found \/ walk.client = "user") /\ Return("STOP") /\ UNCHANGED walk
  /\ UNCHANGED <<files, out>>

\* LF_INDEX: the list goes on in another record.
NextList ==
  /\ Walking /\ ~AtEnd /\ Field(list).code = "INDEX"
  /\ TypeIndexVM(T, Field(list).type) # NoVM
  /\ lists' = [lists EXCEPT ![Depth].list = Field(list).type, ![Depth].curr = 1]
  /\ UNCHANGED <<files, pc, walk, out, wr>>

\* Mutant of Inherited: a base's virtual bases are walked with the base.
InheritedAll == Field(list).code \in Bases

\* The virtual bases of a base are the most derived class's to handle.
Inherited == Field(list).code = "BCLASS" \/ (Field(list).code \in Virtual /\ Depth = 1)

SkipVirtual ==
  /\ Walking /\ ~AtEnd /\ Field(list).code \in Bases /\ ~Inherited
  /\ NextField /\ UNCHANGED <<files, pc, walk, out, wr>>

\* The client answers SWI_INHERIT_START with WR_STOP: the base is left out.
SkipBase ==
  LET hit == walk.client = "thunk" /\ ~walk.found /\ Field(list).type = walk.key IN
  /\ Walking /\ ~AtEnd /\ Field(list).code \in Bases /\ Inherited
  /\ hit \/ walk.found \/ walk.client \in {"user", "vtab"}
  /\ NextField
  /\ walk' = [walk EXCEPT !.skipped = @ \/ walk.client = "user",
                !.found = @ \/ hit, !.adj = IF hit THEN EnterBase(@, list) ELSE @]
  /\ UNCHANGED <<files, pc, out, wr>>

\* The walk goes into a base: list->prev is the list it is in.
EnterList(told) ==
  /\ Walking /\ ~AtEnd /\ Field(list).code \in Bases /\ Inherited
  /\ walk.client # "vtab" /\ ~walk.found
  /\ BaseVM(list) # NoVM /\ TypeIndexVM(T, BaseFields(list)) # NoVM
  /\ lists' = Append(lists, Frame(BaseFields(list), BaseVM(list), EnterBase(list.adj, list), told))
  /\ UNCHANGED <<files, pc, out, wr>>

\* The client answers with WR_CONTINUE.
InheritStart ==
  /\ EnterList(TRUE)
  /\ walk.client = "thunk" => Field(list).type # walk.key
  /\ walk' = [walk EXCEPT !.adj = EnterBase(@, list)]

\* It answers with WR_FAIL: the user's callback failed, or the base's own
\* record, which only the thunk adjustment reads for a virtual base, cannot be
\* read.  The base is gone into, a thunk's class not compared with it.
ClientFails(l) == walk.client \in {"user", "thunk"} \/ Field(l).code = "BCLASS"
InheritFails ==
  /\ EnterList(FALSE) /\ ClientFails(list)
  /\ walk' = [walk EXCEPT !.lost = TRUE,
                !.missed = IF Field(list).code = "BCLASS" THEN @ + Field(list).offset ELSE @]

Members == {"MEMBER", "STMEMBER", "ENUMERATE", "ONEMETHOD", "METHOD"}

\* An overloaded method stands for as many symbols as it has entries.
Overloads(f) == IF f.code = "METHOD" THEN f.count ELSE 1

Handle(mfunc) ==
  [list |-> list.list, pos |-> list.curr, containing_type |-> list.containing_type,
   mfunc_idx |-> mfunc, adjustor |-> walk.adj]

\* SWI_SYMBOL for the walks: one symbol at a time.  Only a user stops.
Wanted(f) == walk.client = "user" \/ (walk.client = "find" /\ f.name = walk.key)
WalkSymbol ==
  LET last == walk.mfunc + 1 = Overloads(Field(list)) IN
  /\ walk.client \in {"user", "find"} /\ Field(list).code \in Members
  /\ out' = IF Wanted(Field(list)) THEN Append(out, Handle(walk.mfunc)) ELSE out
  /\ \/ /\ walk' = [walk EXCEPT !.mfunc = IF last THEN 0 ELSE @ + 1]
        /\ IF last THEN NextField ELSE UNCHANGED lists
        /\ UNCHANGED <<pc, wr>>
     \/ walk.client = "user" /\ Return("STOP") /\ UNCHANGED walk

Sought(f) == f.code \in Members /\ f.name = walk.key
SearchSymbol ==
  /\ walk.client = "search" /\ Sought(Field(list))
  /\ out' = out \o [k \in 1..Overloads(Field(list)) |-> Handle(k - 1)]
  /\ NextField /\ UNCHANGED <<pc, walk, wr>>

ThunkSymbol ==
  walk.client = "thunk" /\ walk.found /\ Return("STOP") /\ UNCHANGED <<walk, out>>

VTab == {"VFUNCTAB", "VFUNCOFF"}
VTabSymbol ==
  /\ walk.client = "vtab" /\ Field(list).code \in VTab
  /\ out' = <<[ptr_idx |-> Field(list).type, disp |-> Field(list).offset]>>
  /\ Return("STOP") /\ UNCHANGED walk

\* A field its client takes no notice of.
Ignored ==
  /\ CASE walk.client \in {"user", "find"} -> Field(list).code \notin Members
       [] walk.client = "search" -> ~Sought(Field(list))
       [] walk.client = "thunk" -> ~walk.found
       [] walk.client = "vtab"  -> Field(list).code \notin VTab
  /\ NextField /\ UNCHANGED <<pc, walk, out, wr>>

Symbol ==
  /\ Walking /\ ~AtEnd /\ Field(list).code \notin Bases \cup {"INDEX"}
  /\ WalkSymbol \/ SearchSymbol \/ ThunkSymbol \/ VTabSymbol \/ Ignored
  /\ UNCHANGED files

\* A record cannot be read, the symbol for a match not be created, or a client
\* fails anywhere but at the start of a base: the walk fails.
LeavingFails == walk.client = "user" \/ Field(Outer).code = "BCLASS"
WalkFails ==
  /\ Walking
  /\ AtEnd => list.curr = 1 \/ (Depth > 1 /\ ~walk.found /\ LeavingFails)
  /\ Return("FAIL") /\ UNCHANGED <<files, walk, out>>

TypeListWalk == ListDone \/ InheritEnd \/ NextList \/ SkipVirtual \/ SkipBase
                  \/ InheritStart \/ InheritFails \/ Symbol \/ WalkFails

-----------------------------------------------------------------------------
(***************************************************************************)
(* What the walks are for: the members of an object, each once, at the     *)
(* subobject it is in.                                                     *)
(***************************************************************************)

\* The fields of a class, over all the records its list goes on in.
FieldsOf(idx) ==
  LET all[l \in DOMAIN T] ==
        LET here == {<<l, k>> : k \in DOMAIN FieldsIn(l)}
            on   == {FieldsIn(l)[k].type : k \in {j \in DOMAIN FieldsIn(l) :
                                                    FieldsIn(l)[j].code = "INDEX"}}
        IN  here \cup UNION {all[n] : n \in on}
  IN  all[T[idx].field]
At(f) == FieldsIn(f[1])[f[2]]
FieldsWith(idx, codes) == {f \in FieldsOf(idx) : At(f).code \in codes}

\* The subobjects of a class apart from its virtual bases, <<class, offset>>.
NonVirtual(class) ==
  LET part[idx \in DOMAIN T] ==
        {<<idx, 0>>} \cup
          UNION {{<<p[1], p[2] + At(f).offset>> : p \in part[At(f).type]} :
                   f \in FieldsWith(idx, {"BCLASS"})}
  IN  part[class]

\* Its virtual bases, of whichever base: an object has one of each.
VirtualBases(class) ==
  LET bases[idx \in DOMAIN T] ==
        {At(f).type : f \in FieldsWith(idx, Virtual)} \cup
          UNION {bases[At(f).type] : f \in FieldsWith(idx, Bases)}
  IN  bases[class]

\* All of them, as [vbase, class, offset].
Subobjects(class) ==
  {[vbase |-> 0, class |-> p[1], offset |-> p[2]] : p \in NonVirtual(class)}
    \cup UNION {{[vbase |-> v, class |-> p[1], offset |-> p[2]] : p \in NonVirtual(v)} :
                  v \in VirtualBases(class)}

\* The subobject an adjustor names in that class; a class walked through a
\* modifier is still the class.
ClassOf(vm) == IF T[vm.rec].leaf = "MODIFIER" THEN T[vm.rec].index ELSE vm.rec
SubobjectAt(adj, class) ==
  [vbase |-> IF adj.vbase = NoBase THEN 0 ELSE At(adj.vbase).type,
   class |-> class, offset |-> adj.offset]

MaxOverload == 2   \* bound on mfunc_idx

\* Every member of every subobject, and every overload of it.
MembersOf(class) ==
  UNION {{[sub |-> s, field |-> f, mfunc |-> m] :
            f \in FieldsWith(s.class, Members), m \in 0..MaxOverload} : s \in Subobjects(class)}
Present(m) == m.mfunc < Overloads(At(m.field))

\* A symbol as one of them.
MemberAt(h) == [sub |-> SubobjectAt(h.adjustor, ClassOf(h.containing_type)),
                field |-> <<h.list, h.pos>>, mfunc |-> h.mfunc_idx]

\* Where the walk is, the adjustor is: a frame is its outer frame's place with
\* the base entered, and the adjustor differs from the innermost frame's by
\* what the client was not told and nothing else, however it came there.  The
\* offsets it missed are missing for good, but a virtual base it missed only
\* inside of that.
Balanced ==
  lists # <<>> /\ ~walk.found =>
    /\ walk.adj.offset = list.adj.offset - walk.missed
    /\ walk.adj.vbase = IF Depth > 1 /\ ~lists[2].told THEN NoBase ELSE list.adj.vbase
    /\ lists[1].adj = NoAdj
    /\ \A k \in 1..(Depth - 1) : lists[k + 1].adj = EnterBase(lists[k].adj, lists[k])
    /\ ~walk.lost => walk.missed = 0 /\ \A k \in 1..Depth : lists[k].told

\* No symbol more often than there are subobjects with it, and none missing
\* from a walk that ran to its end, also where the client failed at a base;
\* where it did not, each is at the subobject it is a member of.
What(m) == <<m.sub.class, m.field, m.mfunc>>
SubobjectsRight ==
  walk.client \in {"user", "search"} /\ walk.ret = "done" /\ pc = "done" =>
    LET given == {<<k, MemberAt(out[k])>> : k \in DOMAIN out}
        got   == {g[2] : g \in given}
        all   == {m \in MembersOf(walk.head) : Present(m) /\
                    (walk.client = "search" => At(m.field).name = walk.key)}
        whole == wr = "CONTINUE" /\ ~walk.skipped
        given_of(w) == Cardinality({g \in given : What(g[2]) = w})
        all_of(w)   == Cardinality({m \in all : What(m) = w})
    IN  /\ \A w \in {What(m) : m \in got \cup all} :
             /\ given_of(w) <= all_of(w)
             /\ whole => given_of(w) = all_of(w)
        /\ ~walk.lost => /\ Cardinality(got) = Len(out) /\ got \subseteq all
                         /\ whole => got = all

\* The data members of a walk whose client did not fail at a base share no byte
\* of the object, and lie within the part of it that is theirs: a virtual base or the rest.
DataMembers == {k \in DOMAIN out : FieldOf(T, out[k]).code = "MEMBER"}
Bytes(h) == LET at   == TypeSymGetAddr(T, h).offset
                size == ImpTypeInfo(T, TypeSymGetType(T, h), FALSE).size
            IN  at..(at + size - 1)
Part(h) == LET v == h.adjustor.vbase IN IF v = NoBase THEN walk.head ELSE At(v).type
MembersApart ==
  walk.client = "user" /\ ~walk.lost /\ walk.ret = "done" /\ pc = "done" =>
    \A j, k \in DataMembers :
      /\ Bytes(out[k]) \subseteq 0..(T[Part(out[k])].size - 1)
      /\ j # k /\ Part(out[j]) = Part(out[k]) => Bytes(out[j]) \cap Bytes(out[k]) = {}

\* A thunk is adjusted only if the object has a subobject of the class it was
\* asked for; the adjustment is to that, and it is found, where the client did
\* not fail at a base.
ThunkRight ==
  walk.client = "thunk" /\ pc = "done" =>
    LET subs == {s \in Subobjects(walk.head) : s.class = walk.key} IN
    /\ walk.found => subs # {}
    /\ ~walk.lost => /\ walk.found => SubobjectAt(walk.adj, walk.key) \in subs
                     /\ wr = "CONTINUE" /\ ~walk.found => subs = {}

\* What the walks of a class's members say of where they are.
MembersRight == SubobjectsRight /\ MembersApart /\ ThunkRight
=============================================================================

--------------------------- MODULE ExecLoop_proofs ---------------------------
(***************************************************************************)
(* Proofs about ExecLoop for every program, point table and user: type     *)
(* correctness, that memory holds the loaded program whenever the debuggee *)
(* does not run, and when it stops: that the loop implements BreakService, *)
(* that a breakpoint is left and counted once, that the end of the program *)
(* and the break key are not lost, and that a watchpoint stops behind a    *)
(* change.                                                                 *)
(***************************************************************************)
EXTENDS ExecLoop, SequenceTheorems, TLAPS

\* The point table: typed, watchpoints are the points on the cell, and no
\* address has two points.
ListOK(l) ==
  /\ l \in Seq(Point)
  /\ \A i \in DOMAIN l : l[i].watch <=> l[i].addr = Cell
  /\ \A i, j \in DOMAIN l : l[i].addr = l[j].addr => i = j

-----------------------------------------------------------------------------
(***************************************************************************)
(* The three ways the table changes keep it ListOK.                        *)
(***************************************************************************)

\* A table rewritten point by point: addresses and kinds stay.
LEMMA MapListOK ==
  ASSUME NEW l, ListOK(l),
         NEW f, f = [i \in DOMAIN l |-> f[i]],
         \A i \in DOMAIN l : /\ f[i] \in Point
                             /\ f[i].addr = l[i].addr
                             /\ f[i].watch = l[i].watch
  PROVE  ListOK(f)
<1>1. l \in Seq(Point)
  BY DEF ListOK
<1>2. Len(l) \in Nat /\ DOMAIN l = 1..Len(l)
  BY <1>1, LenProperties
<1>3. DOMAIN f = DOMAIN l
  OBVIOUS
<1>4. f \in Seq(Point)
  BY <1>2, <1>3, IsASeq
<1>5. \A i \in DOMAIN f : f[i].watch <=> f[i].addr = Cell
  BY <1>3 DEF ListOK
<1>6. \A i, j \in DOMAIN f : f[i].addr = f[j].addr => i = j
  BY <1>3 DEF ListOK
<1> QED
  BY <1>4, <1>5, <1>6 DEF ListOK

\* AddPoint puts a point at the end; its callers looked for the address.
LEMMA AppendListOK ==
  ASSUME NEW l, ListOK(l), NEW p \in Point, p.watch <=> p.addr = Cell,
         At(l, p.addr) = {}
  PROVE  ListOK(Append(l, p))
<1>1. l \in Seq(Point)
  BY DEF ListOK
<1> DEFINE m == Append(l, p)
<1>2. /\ m \in Seq(Point)
      /\ Len(m) = Len(l) + 1
      /\ \A i \in 1..Len(l) : m[i] = l[i]
      /\ m[Len(l) + 1] = p
  BY <1>1, AppendProperties
<1>3. /\ Len(l) \in Nat /\ DOMAIN l = 1..Len(l)
      /\ DOMAIN m = 1..Len(l) + 1
  BY <1>1, <1>2, LenProperties
<1>4. \A i \in DOMAIN l : l[i].addr # p.addr
  BY DEF At
<1>5. \A i \in DOMAIN m : \/ i \in DOMAIN l /\ m[i] = l[i]
                          \/ i = Len(l) + 1 /\ m[i] = p
  BY <1>2, <1>3
<1> HIDE DEF m
<1>6. \A i \in DOMAIN m : m[i].watch <=> m[i].addr = Cell
  BY <1>5 DEF ListOK
<1>7. \A i, j \in DOMAIN m : m[i].addr = m[j].addr => i = j
  BY <1>4, <1>5 DEF ListOK
<1>8. ListOK(m)
  BY <1>2, <1>6, <1>7 DEF ListOK
<1> QED
  BY <1>8 DEF m

\* What RemovePoint leaves of a list.
LEMMA RemoveAtProperties ==
  ASSUME NEW S, NEW s \in Seq(S), NEW k \in 1..Len(s)
  PROVE  /\ RemoveAt(s, k) \in Seq(S)
         /\ Len(RemoveAt(s, k)) = Len(s) - 1
         /\ \A i \in 1..Len(s) - 1 :
              RemoveAt(s, k)[i] = IF i < k THEN s[i] ELSE s[i + 1]
<1>1. Len(s) \in Nat /\ DOMAIN s = 1..Len(s)
  BY LenProperties
<1> DEFINE a == SubSeq(s, 1, k - 1)
           b == SubSeq(s, k + 1, Len(s))
<1>2. \A i \in 1..Len(s) : s[i] \in S
  BY ElementOfSeq
<1>3. /\ a \in Seq(S) /\ Len(a) = k - 1
      /\ \A i \in 1..k - 1 : a[i] = s[i]
  <2>1. \A i \in 1..k - 1 : s[i] \in S
    BY <1>1, <1>2
  <2>2. k - 1 \in Int /\ 1 \in Int
    BY <1>1
  <2>3. /\ a \in Seq(S)
        /\ Len(a) = IF 1 <= k - 1 THEN (k - 1) - 1 + 1 ELSE 0
        /\ \A i \in 1..(k - 1) - 1 + 1 : a[i] = s[1 + i - 1]
    BY <2>1, <2>2, SubSeqProperties
  <2> HIDE DEF a
  <2>4. Len(a) = k - 1
    BY <1>1, <2>3
  <2>5. \A i \in 1..k - 1 : a[i] = s[i]
    BY <1>1, <2>3
  <2> QED
    BY <2>3, <2>4, <2>5
<1>4. /\ b \in Seq(S) /\ Len(b) = Len(s) - k
      /\ \A i \in 1..Len(s) - k : b[i] = s[k + i]
  <2>1. \A i \in k + 1..Len(s) : s[i] \in S
    BY <1>1, <1>2
  <2>2. k + 1 \in Int /\ Len(s) \in Int
    BY <1>1
  <2>3. /\ b \in Seq(S)
        /\ Len(b) = IF k + 1 <= Len(s) THEN Len(s) - (k + 1) + 1 ELSE 0
        /\ \A i \in 1..Len(s) - (k + 1) + 1 : b[i] = s[(k + 1) + i - 1]
    BY <2>1, <2>2, SubSeqProperties
  <2> HIDE DEF b
  <2>4. Len(b) = Len(s) - k
    BY <1>1, <2>3
  <2>5. \A i \in 1..Len(s) - k : b[i] = s[k + i]
    <3>1. \A i \in 1..Len(s) - k : /\ i \in 1..Len(s) - (k + 1) + 1
                                   /\ (k + 1) + i - 1 = k + i
      BY <1>1
    <3> QED
      BY <2>3, <3>1
  <2> QED
    BY <2>3, <2>4, <2>5
<1>5. RemoveAt(s, k) = a \o b
  BY DEF RemoveAt
<1> HIDE DEF a, b
<1>6. /\ a \o b \in Seq(S)
      /\ Len(a \o b) = Len(s) - 1
      /\ \A i \in 1..Len(s) - 1 :
           (a \o b)[i] = IF i <= k - 1 THEN a[i] ELSE b[i - (k - 1)]
  <2>1. /\ a \o b \in Seq(S)
        /\ Len(a \o b) = Len(a) + Len(b)
        /\ \A i \in 1..Len(a) + Len(b) :
             (a \o b)[i] = IF i <= Len(a) THEN a[i] ELSE b[i - Len(a)]
    BY <1>3, <1>4, ConcatProperties
  <2>2. Len(a) = k - 1 /\ Len(a) + Len(b) = Len(s) - 1
    BY <1>1, <1>3, <1>4
  <2> QED
    BY <2>1, <2>2
<1>7. ASSUME NEW i \in 1..Len(s) - 1
      PROVE  (a \o b)[i] = IF i < k THEN s[i] ELSE s[i + 1]
  <2>1. CASE i < k
    BY <1>1, <1>3, <1>6, <2>1
  <2>2. CASE ~(i < k)
    <3>1. i - (k - 1) \in 1..Len(s) - k /\ k + (i - (k - 1)) = i + 1
      BY <1>1, <2>2
    <3> QED
      BY <1>1, <1>4, <1>6, <2>2, <3>1
  <2> QED
    BY <2>1, <2>2
<1> QED
  BY <1>5, <1>6, <1>7

LEMMA RemoveListOK ==
  ASSUME NEW l, ListOK(l), NEW k \in DOMAIN l
  PROVE  ListOK(RemoveAt(l, k))
<1> DEFINE m == RemoveAt(l, k)
<1>1. l \in Seq(Point) /\ Len(l) \in Nat /\ DOMAIN l = 1..Len(l)
  BY LenProperties DEF ListOK
<1>2. /\ m \in Seq(Point)
      /\ Len(m) = Len(l) - 1
      /\ \A i \in 1..Len(l) - 1 : m[i] = IF i < k THEN l[i] ELSE l[i + 1]
  BY <1>1, RemoveAtProperties
<1>3. DOMAIN m = 1..Len(l) - 1
  BY <1>2, LenProperties
<1> DEFINE at(i) == IF i < k THEN i ELSE i + 1
<1>4. \A i \in DOMAIN m : at(i) \in DOMAIN l /\ m[i] = l[at(i)]
  BY <1>1, <1>2, <1>3
<1>5. \A i, j \in DOMAIN m : at(i) = at(j) => i = j
  BY <1>1, <1>3
<1> HIDE DEF m, at
<1>6. \A i \in DOMAIN m : m[i].watch <=> m[i].addr = Cell
  BY <1>4 DEF ListOK
<1>7. \A i, j \in DOMAIN m : m[i].addr = m[j].addr => i = j
  BY <1>4, <1>5 DEF ListOK
<1>8. ListOK(m)
  BY <1>2, <1>6, <1>7 DEF ListOK
<1> QED
  BY <1>8 DEF m

-----------------------------------------------------------------------------
(***************************************************************************)
(* Type correctness.                                                       *)
(***************************************************************************)

\* The type invariant as it is inductive: a breakpoint that is planted lies
\* on an instruction, which TypeOK alone does not say.
TypeInv == TypeOK /\ ListOK(BrkList)

LEMMA InitTypeInv == Init => TypeInv
<1> SUFFICES ASSUME Init PROVE TypeInv
  OBVIOUS
<1>1. NoTmp \in TmpPoint
  BY ProgramAssumption DEF NoTmp, TmpPoint, Byte
<1>2. StatusOf(NoTmp) \in Status
  BY DEF StatusOf, Status, NoTmp
<1>3. Code \in [Addr -> Byte]
  BY DEF Code, Byte
<1>4. BrkList \in Seq(Point) /\ DOMAIN BrkList = {}
  BY DEF Init
<1>5. TypeOK
  BY <1>1, <1>2, <1>3, <1>4, ProgramAssumption DEF Init, TypeOK
<1> QED
  BY <1>4, <1>5 DEF TypeInv, ListOK

\* A breakpoint on an instruction lies on one.
LEMMA BreakOnAddr ==
  ASSUME TypeInv, NEW i \in DOMAIN BrkList
  PROVE  /\ BrkList[i] \in Point
         /\ ~BrkList[i].watch => BrkList[i].addr \in Addr
<1>1. BrkList[i] \in Point
  BY LenProperties, ElementOfSeq DEF TypeInv, ListOK
<1>2. BrkList[i].watch <=> BrkList[i].addr = Cell
  BY DEF TypeInv, ListOK
<1> QED
  BY <1>1, <1>2 DEF Point

LEMMA ActivatedPoint ==
  ASSUME NEW p \in Point, NEW act \in BOOLEAN, data \in Values
  PROVE  /\ Activated(p, act) \in Point
         /\ Activated(p, act).addr = p.addr
         /\ Activated(p, act).watch = p.watch
BY DEF Activated, Point

LEMMA NewPointOK ==
  ASSUME NEW a \in Addr \cup {Cell}, NEW s \in Shape, data \in Values
  PROVE  LET p == [NewPoint(a, s.cond, s.count, FALSE, data) EXCEPT
                     !.active = s.active]
         IN p \in Point /\ p.addr = a /\ (p.watch <=> p.addr = Cell)
BY DEF NewPoint, Point, Shape, Byte

LEMMA PlainPointOK ==
  ASSUME NEW a \in Addr, data \in Values
  PROVE  LET p == NewPoint(a, FALSE, 0, FALSE, data)
         IN p \in Point /\ p.addr = a /\ (p.watch <=> p.addr = Cell)
<1>1. 0 \in 0..MaxCount
  BY CountAssumption
<1> QED
  BY <1>1 DEF NewPoint, Point, Byte

\* One point of the table activated or deactivated.
LEMMA ActivateListOK ==
  ASSUME TypeInv, NEW i \in DOMAIN BrkList, NEW act \in BOOLEAN
  PROVE  ListOK([BrkList EXCEPT ![i] = Activated(@, act)])
<1> DEFINE f == [BrkList EXCEPT ![i] = Activated(@, act)]
<1>1. data \in Values /\ ListOK(BrkList)
  BY DEF TypeInv, TypeOK
<1>2. f = [j \in DOMAIN BrkList |-> f[j]]
  OBVIOUS
<1>3. \A j \in DOMAIN BrkList :
        f[j] = IF j = i THEN Activated(BrkList[i], act) ELSE BrkList[j]
  OBVIOUS
<1> HIDE DEF f
<1>4. \A j \in DOMAIN BrkList : /\ f[j] \in Point
                                /\ f[j].addr = BrkList[j].addr
                                /\ f[j].watch = BrkList[j].watch
  BY <1>1, <1>3, BreakOnAddr, ActivatedPoint
<1>5. ListOK(f)
  BY <1>1, <1>2, <1>4, MapListOK
<1> QED
  BY <1>5 DEF f

\* Every edit of the user keeps the table ListOK.
LEMMA EditList ==
  ASSUME TypeInv, Edit
  PROVE  ListOK(BrkList')
<1>1. data \in Values /\ ListOK(BrkList)
  BY DEF TypeInv, TypeOK
<1>2. ASSUME NEW a \in Addr \cup {Cell}, NEW s \in Shapes, SetPoint(a, s)
      PROVE  ListOK(BrkList')
  <2>1. s \in Shape
    BY UserAssumption
  <2> DEFINE p == [NewPoint(a, s.cond, s.count, FALSE, data) EXCEPT
                     !.active = s.active]
  <2>2. p \in Point /\ p.addr = a /\ (p.watch <=> p.addr = Cell)
    BY <1>1, <2>1, NewPointOK
  <2>3. At(BrkList, a) = {} /\ BrkList' = Append(BrkList, p)
    BY <1>2 DEF SetPoint
  <2> HIDE DEF p
  <2> QED
    BY <1>1, <2>2, <2>3, AppendListOK
<1>3. ASSUME NEW a \in Addr, ToggleBreak(a)
      PROVE  ListOK(BrkList')
  <2>1. CASE At(BrkList, a) = {} /\
             BrkList' = Append(BrkList, NewPoint(a, FALSE, 0, FALSE, data))
    <3> DEFINE p == NewPoint(a, FALSE, 0, FALSE, data)
    <3>1. p \in Point /\ p.addr = a /\ (p.watch <=> p.addr = Cell)
      BY <1>1, PlainPointOK
    <3> HIDE DEF p
    <3> QED
      BY <1>1, <2>1, <3>1, AppendListOK DEF p
  <2>2. ASSUME NEW i \in At(BrkList, a),
               BrkList' = [BrkList EXCEPT ![i] = Activated(@, FALSE)]
        PROVE  ListOK(BrkList')
    <3>1. i \in DOMAIN BrkList
      BY DEF At
    <3> QED
      BY <2>2, <3>1, ActivateListOK
  <2>3. ASSUME NEW i \in At(BrkList, a), RemovePoint(i)
        PROVE  ListOK(BrkList')
    BY <1>1, <2>3, RemoveListOK DEF RemovePoint, At
  <2> QED
    BY <1>3, <2>1, <2>2, <2>3 DEF ToggleBreak
<1>4. ASSUME NEW i \in DOMAIN BrkList, ClearPoint(i)
      PROVE  ListOK(BrkList')
  BY <1>1, <1>4, RemoveListOK DEF ClearPoint, RemovePoint
<1>5. ASSUME NEW i \in DOMAIN BrkList, NEW b \in BOOLEAN, ActPoint(i, b)
      PROVE  ListOK(BrkList')
  <2>1. BrkList' = [BrkList EXCEPT ![i] = Activated(@, b)]
    BY <1>5 DEF ActPoint
  <2> QED
    BY <2>1, ActivateListOK
<1>6. ASSUME NEW i \in DOMAIN BrkList, NEW b \in BOOLEAN,
             SetBPAutoDestruct(i, b)
      PROVE  ListOK(BrkList')
  <2>1. BrkList' = [BrkList EXCEPT ![i].autodestruct = b]
    BY <1>6 DEF SetBPAutoDestruct
  <2>2. \A j \in DOMAIN BrkList : BrkList[j] \in Point
    BY BreakOnAddr
  <2>3. \A j \in DOMAIN BrkList :
          /\ BrkList'[j] \in Point
          /\ BrkList'[j].addr = BrkList[j].addr
          /\ BrkList'[j].watch = BrkList[j].watch
    BY <2>1, <2>2 DEF Point
  <2> QED
    BY <1>1, <2>1, <2>3, MapListOK
<1>7. ASSUME NEW b \in BOOLEAN, ActAll(b)
      PROVE  ListOK(BrkList')
  <2>1. BrkList' = [i \in DOMAIN BrkList |-> Activated(BrkList[i], b)]
    BY <1>7 DEF ActAll
  <2> QED
    BY <1>1, <2>1, BreakOnAddr, ActivatedPoint, MapListOK
<1>8. ASSUME BrkClearAll
      PROVE  ListOK(BrkList')
  BY <1>8 DEF BrkClearAll, ListOK
<1>9. ASSUME UNCHANGED BrkList
      PROVE  ListOK(BrkList')
  BY <1>1, <1>9 DEF ListOK
<1> QED
  BY <1>2, <1>3, <1>4, <1>5, <1>6, <1>7, <1>8, <1>9
  DEF Edit, SetUserTmp, DropUserTmp

\* Planting, removing and checking rewrite the points one by one.
LEMMA InsertListOK ==
  ASSUME TypeInv, NEW force \in BOOLEAN, NEW arm \in BOOLEAN
  PROVE  ListOK(InsertPoints(force, arm))
<1> DEFINE f == InsertPoints(force, arm)
<1>1. data \in Values /\ mem \in [Addr -> Byte] /\ ListOK(BrkList)
  BY DEF TypeInv, TypeOK
<1>2. f = [i \in DOMAIN BrkList |-> f[i]]
  BY DEF InsertPoints
<1>3. ASSUME NEW i \in DOMAIN BrkList
      PROVE  /\ f[i] \in Point
             /\ f[i].addr = BrkList[i].addr
             /\ f[i].watch = BrkList[i].watch
  <2>1. BrkList[i] \in Point
    BY BreakOnAddr
  <2>2. CASE BrkList[i].watch
    <3>1. f[i] = UpdateWP(BrkList[i], arm)
      BY <2>2 DEF InsertPoints
    <3> HIDE DEF f
    <3> QED
      BY <1>1, <2>1, <3>1 DEF UpdateWP, Point
  <2>3. CASE ~BrkList[i].watch
    <3>1. f[i] = InsertListBP(i, force)
      BY <2>3 DEF InsertPoints
    <3>2. ByteUnder(BrkList[i].addr, ListBefore(i, force)) \in Byte
      BY <1>1, <2>3, BreakOnAddr DEF ByteUnder, Byte
    <3> HIDE DEF f
    <3>3. ASSUME NEW b \in BOOLEAN, NEW byte \in Byte
          PROVE  LET q == [BrkList[i] EXCEPT !.in_place = b, !.hit = FALSE,
                                             !.old = byte]
                 IN /\ q \in Point
                    /\ q.addr = BrkList[i].addr
                    /\ q.watch = BrkList[i].watch
      BY <2>1 DEF Point
    <3>4. CASE i \in ListPlanted(force)
      <4>1. f[i] = [BrkList[i] EXCEPT !.in_place = TRUE, !.hit = FALSE,
                      !.old = ByteUnder(BrkList[i].addr, ListBefore(i, force))]
        BY <3>1, <3>4 DEF InsertListBP
      <4> QED
        BY <3>2, <3>3, <4>1
    <3>5. CASE i \notin ListPlanted(force)
      BY <2>1, <3>1, <3>5 DEF InsertListBP, Point
    <3> QED
      BY <3>4, <3>5
  <2> QED
    BY <2>2, <2>3
<1> HIDE DEF f
<1>4. ListOK(f)
  BY <1>1, <1>2, <1>3, MapListOK
<1> QED
  BY <1>4 DEF f

LEMMA RemoveBPsListOK ==
  ASSUME TypeInv, RemoveBPs
  PROVE  ListOK(BrkList')
<1>1. BrkList' = [i \in DOMAIN BrkList |-> RemoveWP(BrkList[i])]
  BY DEF RemoveBPs
<1>2. \A i \in DOMAIN BrkList :
        /\ RemoveWP(BrkList[i]) \in Point
        /\ RemoveWP(BrkList[i]).addr = BrkList[i].addr
        /\ RemoveWP(BrkList[i]).watch = BrkList[i].watch
  BY BreakOnAddr DEF RemoveWP, Point
<1> QED
  BY <1>1, <1>2, MapListOK DEF TypeInv

LEMMA CheckListOK ==
  ASSUME TypeInv, NEW res \in Results, NEW m \in BOOLEAN, Check(res, m)
  PROVE  ListOK(BrkList')
<1>1. BrkList' = [i \in DOMAIN BrkList |-> CheckedPoint(BrkList[i], res[i])]
  BY DEF Check
<1>2. ASSUME NEW p \in Point, NEW r
      PROVE  /\ CheckedPoint(p, r) \in Point
             /\ CheckedPoint(p, r).addr = p.addr
             /\ CheckedPoint(p, r).watch = p.watch
  <2>1. Fails(p, r) \in BOOLEAN /\ (p.hit \/ Stops(p, r)) \in BOOLEAN
    BY DEF Fails, Tested, Point
  <2>2. (IF Counts(p, r) THEN p.countdown - 1 ELSE p.countdown)
           \in 0..MaxCount
    BY CountAssumption DEF Counts, Point
  <2> QED
    BY <2>1, <2>2 DEF CheckedPoint, Point
<1> QED
  BY <1>1, <1>2, BreakOnAddr, MapListOK DEF TypeInv

LEMMA ReportListOK ==
  ASSUME TypeInv, Report
  PROVE  ListOK(BrkList')
<1>1. BrkList' = [i \in DOMAIN BrkList |->
                    IF BrkList[i].watch /\ BrkList[i].hit
                      THEN [BrkList[i] EXCEPT !.val = data] ELSE BrkList[i]]
  BY DEF Report
<1>2. data \in Values
  BY DEF TypeInv, TypeOK
<1>3. \A i \in DOMAIN BrkList : BrkList[i] \in Point
  BY BreakOnAddr
<1>4. \A i \in DOMAIN BrkList : /\ BrkList'[i] \in Point
                                /\ BrkList'[i].addr = BrkList[i].addr
                                /\ BrkList'[i].watch = BrkList[i].watch
  BY <1>1, <1>2, <1>3 DEF Point
<1> QED
  BY <1>1, <1>4, MapListOK DEF TypeInv

\* The loop removes the first of the points to go.
LEMMA DestructListOK ==
  ASSUME TypeInv, Destruct
  PROVE  ListOK(BrkList')
<1>1. PICK i \in Autodestruct : RemovePoint(i)
  BY DEF Destruct
<1> QED
  BY <1>1, RemoveListOK DEF Autodestruct, RemovePoint, TypeInv

-----------------------------------------------------------------------------

\* A byte that is planted, or put back, is a byte.
LEMMA InsertTmpOK ==
  ASSUME TypeInv, NEW tmp \in TmpPoint, NEW planted \in BOOLEAN, NEW before
  PROVE  InsertTmpBP(tmp, planted, before) \in TmpPoint
<1>1. ByteUnder(tmp.addr, before) \in Byte
  BY DEF ByteUnder, Byte, TypeInv, TypeOK, TmpPoint
<1> QED
  BY <1>1 DEF InsertTmpBP, TmpPoint

LEMMA PlantedMemOK ==
  ASSUME TypeInv, NEW before
  PROVE  [a \in Addr |-> ByteUnder(a, before)] \in [Addr -> Byte]
BY DEF ByteUnder, Byte, TypeInv, TypeOK

LEMMA RestoredMemOK ==
  ASSUME TypeInv
  PROVE  [a \in Addr |-> RestoredByte(a)] \in [Addr -> Byte]
<1> SUFFICES ASSUME NEW a \in Addr PROVE RestoredByte(a) \in Byte
  OBVIOUS
<1>1. UserTmpBrk.old \in Byte /\ DbgTmpBrk.old \in Byte /\ mem[a] \in Byte
  BY DEF TypeInv, TypeOK, TmpPoint
<1> DEFINE k == CHOOSE i \in InPlaceAt(a) : \A j \in InPlaceAt(a) : j <= i
<1>2. ASSUME InPlaceAt(a) # {}
      PROVE  BrkList[k].old \in Byte
  <2>1. PICK i \in InPlaceAt(a) : TRUE
    BY <1>2
  <2>2. \A j \in InPlaceAt(a) : j = i
    BY <2>1 DEF InPlaceAt, TypeInv, ListOK
  <2>3. i \in Nat
    BY <2>1, LenProperties DEF InPlaceAt, TypeInv, ListOK
  <2>4. \E m \in InPlaceAt(a) : \A j \in InPlaceAt(a) : j <= m
    BY <2>1, <2>2, <2>3
  <2>5. k \in InPlaceAt(a)
    BY <2>4
  <2>6. k \in DOMAIN BrkList
    BY <2>5 DEF InPlaceAt
  <2> HIDE DEF k
  <2> QED
    BY <2>6, BreakOnAddr DEF Point
<1> HIDE DEF k
<1> QED
  BY <1>1, <1>2 DEF RestoredByte, k

\* The temporary breakpoints keep their type whatever is done to their status.
LEMMA TmpOK ==
  ASSUME NEW tmp \in TmpPoint
  PROVE  /\ NullStatus(tmp) \in TmpPoint
         /\ CheckTmp(tmp) \in TmpPoint
         /\ StatusOf(tmp) \in Status
         /\ \A s \in Status : WithStatus(tmp, s) \in TmpPoint
         /\ \A a \in Addr :
              [tmp EXCEPT !.addr = a, !.active = TRUE] \in TmpPoint
         /\ \A c : [tmp EXCEPT !.active = @ /\ ~TraceEnds(c)] \in TmpPoint
<1>1. NullStatus(tmp) \in TmpPoint
  BY DEF NullStatus, TmpPoint
<1>2. CheckTmp(tmp) \in TmpPoint
  <2>1. (tmp.hit \/ HaveHitBP(tmp)) \in BOOLEAN
    BY DEF TmpPoint
  <2> QED
    BY <2>1 DEF CheckTmp, TmpPoint
<1>3. StatusOf(tmp) \in Status
  BY DEF StatusOf, Status, TmpPoint
<1>4. ASSUME NEW s \in Status
      PROVE  WithStatus(tmp, s) \in TmpPoint
  BY DEF WithStatus, Status, TmpPoint
<1>5. ASSUME NEW a \in Addr
      PROVE  [tmp EXCEPT !.addr = a, !.active = TRUE] \in TmpPoint
  BY DEF TmpPoint
<1>6. ASSUME NEW c
      PROVE  [tmp EXCEPT !.active = @ /\ ~TraceEnds(c)] \in TmpPoint
  <2>1. (tmp.active /\ ~TraceEnds(c)) \in BOOLEAN
    BY DEF TmpPoint
  <2> QED
    BY <2>1 DEF TmpPoint
<1> QED
  BY <1>1, <1>2, <1>3, <1>4, <1>5, <1>6

\* What CheckBPs, ExecProg and TraceCheck make of conditions are conditions.
LEMMA ConditionsOK ==
  ASSUME conditions \subseteq Conditions, NEW res, NEW m, NEW forced \in BOOLEAN
  PROVE  /\ Verdict(res, m) \subseteq Conditions
         /\ TraceCheck(Digest(forced)) \subseteq Conditions
<1>1. OwnBreakVerdict(m) \subseteq Conditions
  BY DEF OwnBreakVerdict, Conditions, STOPPERS
<1>2. Verdict(res, m) \subseteq Conditions
  BY <1>1 DEF Verdict, Conditions, STOPPERS
<1>3. WithMessage(conditions) \subseteq Conditions
  BY DEF WithMessage, Conditions, STOPPERS
<1>4. \A c \in SUBSET Conditions :
        /\ WithStepBreak(c) \subseteq Conditions
        /\ WithLibraries(c, forced) \subseteq Conditions
        /\ WithoutStep(c) \subseteq Conditions
        /\ TraceCheck(c) \subseteq Conditions
  BY DEF WithStepBreak, WithLibraries, WithoutStep, TraceCheck, Conditions,
         STOPPERS
<1> QED
  BY <1>2, <1>3, <1>4 DEF Digest

\* An edit changes the point table, or the user's temporary breakpoint.
LEMMA EditTypeInv ==
  ASSUME TypeInv, Edit
  PROVE  TypeInv'
<1>1. ListOK(BrkList')
  BY EditList
<1>2. UserTmpBrk' \in TmpPoint
  <2>1. UserTmpBrk \in TmpPoint
    BY DEF TypeInv, TypeOK
  <2>2. \/ UserTmpBrk' = UserTmpBrk
        \/ UserTmpBrk' = NullStatus(UserTmpBrk)
        \/ \E a \in Addr :
             UserTmpBrk' = [UserTmpBrk EXCEPT !.addr = a, !.active = TRUE]
    BY DEF Edit, SetPoint, ToggleBreak, ActPoint, ActAll, ClearPoint,
           BrkClearAll, SetBPAutoDestruct, SetUserTmp, DropUserTmp, Edited
  <2> QED
    BY <2>1, <2>2, TmpOK
<1>3. UNCHANGED <<DbgTmpBrk, command, pc, es, how, conditions, mem, debuggee,
                  history>>
  BY DEF Edit, SetPoint, ToggleBreak, ActPoint, ActAll, ClearPoint,
         BrkClearAll, SetBPAutoDestruct, SetUserTmp, DropUserTmp, Edited
<1> QED
  BY <1>1, <1>2, <1>3
  DEF TypeInv, TypeOK, ListOK, command, debuggee, history

LEMMA CommandTypeInv ==
  ASSUME TypeInv, Go \/ \E type \in TraceTypes : Trace(type)
  PROVE  TypeInv'
<1>1. CASE Go
  BY <1>1 DEF Go, Enter, TypeInv, TypeOK, ListOK, debuggee, history
<1>2. ASSUME NEW type \in TraceTypes, Trace(type)
      PROVE  TypeInv'
  <2>1. /\ UserTmpBrk' \in TmpPoint /\ DbgTmpBrk' \in TmpPoint
        /\ userstat' \in Status
    BY <1>2, TmpOK DEF Trace, TypeInv, TypeOK
  <2> QED
    BY <1>2, <2>1 DEF Trace, Enter, TypeInv, TypeOK, ListOK, debuggee, history
<1> QED
  BY <1>1, <1>2

LEMMA TopTypeInv ==
  ASSUME TypeInv, Top
  PROVE  TypeInv'
<1>1. ip \in Addr /\ After[ip] \in Addr
  BY ProgramAssumption DEF TypeInv, TypeOK
<1>2. DbgTmpBrk' \in TmpPoint
  <2>1. \/ DbgTmpBrk' = DbgTmpBrk
        \/ DbgTmpBrk' = [DbgTmpBrk EXCEPT !.addr = After[ip], !.active = TRUE]
    BY DEF Top
  <2> QED
    BY <1>1, <2>1, TmpOK DEF TypeInv, TypeOK
<1>3. how' \in {"STEP", "BREAK", "STEPBREAK", "SIMULATE"}
  BY DEF Top, TraceHow, TraceOne
<1> QED
  BY <1>2, <1>3
  DEF Top, TypeInv, TypeOK, ListOK, command, debuggee, history

LEMMA InsertTypeInv ==
  ASSUME TypeInv, Insert
  PROVE  TypeInv'
<1> DEFINE force == es = "FORCE_BREAK"
           arm == how = "BREAK" /\ ~AtIP(force)
<1>1. BrkList' = InsertPoints(force, arm)
  BY DEF Insert
<1>2. /\ UserTmpBrk' = InsertTmpBP(UserTmpBrk, UserPlanted(force),
                                   ListAddrs(force))
      /\ DbgTmpBrk' = InsertTmpBP(DbgTmpBrk, DbgPlanted(force),
                                  UserAddrs(force))
      /\ mem' = [a \in Addr |-> ByteUnder(a, PlantedAddrs(force))]
  BY DEF Insert
<1>3. /\ pc' \in {"retry", "run"}
      /\ UNCHANGED <<command, es, how, conditions, debuggee, history>>
  BY DEF Insert
<1>4. force \in BOOLEAN /\ arm \in BOOLEAN
  OBVIOUS
<1> HIDE DEF force, arm
<1>5. ListOK(BrkList')
  BY <1>1, <1>4, InsertListOK
<1>6. UserTmpBrk' \in TmpPoint /\ DbgTmpBrk' \in TmpPoint
  <2>1. UserTmpBrk \in TmpPoint /\ DbgTmpBrk \in TmpPoint
    BY DEF TypeInv, TypeOK
  <2>2. /\ UserPlanted(force) \in BOOLEAN /\ DbgPlanted(force) \in BOOLEAN
    BY <2>1, <1>4 DEF UserPlanted, DbgPlanted, DbgConsidered, Planted, SameTmp,
                      TmpPoint
  <2> QED
    BY <1>2, <2>1, <2>2, InsertTmpOK
<1>7. mem' \in [Addr -> Byte]
  BY <1>2, PlantedMemOK
<1> QED
  BY <1>3, <1>5, <1>6, <1>7
  DEF TypeInv, TypeOK, ListOK, command, debuggee, history

\* The two actions that take the breakpoints out again.
LEMMA RemoveTypeInv ==
  ASSUME TypeInv, Retry \/ \E m, stop \in BOOLEAN : EndRun(m, stop)
  PROVE  TypeInv'
<1>1. RemoveBPs
  BY DEF Retry, EndRun
<1>2. ListOK(BrkList')
  BY <1>1, RemoveBPsListOK
<1>3. mem' \in [Addr -> Byte]
  BY <1>1, RestoredMemOK DEF RemoveBPs
<1>4. CASE Retry
  BY <1>2, <1>3, <1>4
  DEF Retry, TypeInv, TypeOK, ListOK, command, debuggee, history
<1>5. ASSUME NEW m \in BOOLEAN, NEW stop \in BOOLEAN, EndRun(m, stop)
      PROVE  TypeInv'
  <2>1. conditions' \subseteq Conditions
    BY <1>5 DEF EndRun, TypeInv, TypeOK, Conditions, STOPPERS
  <2> QED
    BY <1>2, <1>3, <1>5, <2>1
    DEF EndRun, TypeInv, TypeOK, ListOK, command, debuggee, history
<1> QED
  BY <1>4, <1>5

LEMMA CheckTypeInv ==
  ASSUME TypeInv, NEW res \in Results, NEW m \in BOOLEAN, Check(res, m)
  PROVE  TypeInv'
<1>1. ListOK(BrkList')
  BY CheckListOK
<1>2. UserTmpBrk' \in TmpPoint /\ DbgTmpBrk' \in TmpPoint
  BY TmpOK DEF Check, TypeInv, TypeOK
<1>3. conditions' \subseteq Conditions
  <2>1. conditions \subseteq Conditions
    BY DEF TypeInv, TypeOK
  <2>2. Verdict(res, m) \subseteq Conditions
    BY <2>1, ConditionsOK
  <2> QED
    BY <2>2 DEF Check
<1>4. ip' \in Addr /\ arrived' \in {"no", "executed", "skipped"}
  BY ProgramAssumption DEF Check, TypeInv, TypeOK
<1>5. counted' \in 0..3
  <2>1. counted \in 0..3
    BY DEF TypeInv, TypeOK
  <2>2. \/ counted' \in {0, counted}
        \/ counted < 3 /\ counted' = counted + 1
    BY DEF Check
  <2> QED
    BY <2>1, <2>2
<1>6. /\ pc' = "decide"
      /\ UNCHANGED <<command, es, how, mem, data, raised, wrote>>
  BY DEF Check
<1> QED
  BY <1>1, <1>2, <1>3, <1>4, <1>5, <1>6
  DEF TypeInv, TypeOK, ListOK, command

\* Stop and Continue, the two ways a pass is left.
LEMMA DecideTypeInv ==
  ASSUME TypeInv, NEW forced \in BOOLEAN,
         Continue(forced) \/ \E user \in BOOLEAN : Stop(forced, user)
  PROVE  TypeInv'
<1>1. DbgTmpBrk' \in TmpPoint
  BY TmpOK DEF Stop, Continue, Traced, TypeInv, TypeOK
<1>2. CASE Continue(forced)
  <2>1. es' \in {"NORMAL", "STEP_ONE", "FORCE_BREAK"}
    BY <1>2 DEF Continue, NextState
  <2> QED
    BY <1>1, <1>2, <2>1
    DEF Continue, TypeInv, TypeOK, ListOK, command, debuggee, history
<1>3. ASSUME NEW user \in BOOLEAN, Stop(forced, user)
      PROVE  TypeInv'
  <2>1. TraceCheck(Digest(forced)) \subseteq Conditions
    BY ConditionsOK DEF TypeInv, TypeOK
  <2>2. conditions' \subseteq Conditions
    BY <1>3, <2>1 DEF Stop, Conditions, STOPPERS
  <2> QED
    BY <1>1, <1>3, <2>2
    DEF Stop, TypeInv, TypeOK, ListOK, command, debuggee, history
<1> QED
  BY <1>2, <1>3

\* Report, Destruct and Prompt.
LEMMA ReportTypeInv ==
  ASSUME TypeInv, Report \/ Destruct \/ Prompt
  PROVE  TypeInv'
<1>1. CASE Report
  <2>1. ListOK(BrkList')
    BY <1>1, ReportListOK
  <2> QED
    BY <1>1, <2>1 DEF Report, TypeInv, TypeOK, ListOK, debuggee
<1>2. CASE Destruct
  <2>1. ListOK(BrkList')
    BY <1>2, DestructListOK
  <2> QED
    BY <1>2, <2>1
    DEF Destruct, TypeInv, TypeOK, ListOK, command, debuggee, history
<1>3. CASE Prompt
  <2>1. UserTmpBrk' \in TmpPoint
    BY <1>3, TmpOK DEF Prompt, TypeInv, TypeOK
  <2> QED
    BY <1>3, <2>1 DEF Prompt, TypeInv, TypeOK, ListOK, debuggee
<1> QED
  BY <1>1, <1>2, <1>3

\* The debuggee moves ip and writes the cell; its run returns conditions.
LEMMA DebuggeeTypeInv ==
  ASSUME TypeInv, Debuggee \/ Interrupt
  PROVE  TypeInv'
<1>1. CASE HitBreak \/ Fail \/ Simulate \/ Interrupt
  <2>1. PICK c \in SUBSET Conditions : Return(c)
    BY <1>1 DEF HitBreak, Fail, Simulate, Interrupt, Conditions, STOPPERS
  <2>2. UNCHANGED <<debuggee, arrived, wrote, counted>>
    BY <1>1 DEF HitBreak, Fail, Simulate, Interrupt
  <2> QED
    BY <2>1, <2>2 DEF Return, TypeInv, TypeOK, ListOK, list, command, debuggee
<1>2. ASSUME NEW next \in Addr, NEW v \in Values, Execute(next, v)
      PROVE  TypeInv'
  <2>1. /\ ip' \in Addr /\ data' \in Values
        /\ arrived' = "executed" /\ counted' = 0
        /\ wrote' \in {"no", "same", "changed"}
    BY <1>2 DEF Execute, Executed
  <2>2. Outcome \subseteq Conditions
    BY DEF Outcome, Conditions, STOPPERS
  <2>3. CASE Return(Outcome)
    BY <2>1, <2>2, <2>3
    DEF Return, TypeInv, TypeOK, ListOK, list, command
  <2>4. CASE UNCHANGED <<list, command, pc, es, how, conditions, mem, raised>>
    BY <2>1, <2>4 DEF TypeInv, TypeOK, ListOK, list, command
  <2> QED
    BY <1>2, <2>3, <2>4 DEF Execute
<1> QED
  BY <1>1, <1>2 DEF Debuggee

LEMMA NextTypeInv == TypeInv /\ [Next]_vars => TypeInv'
<1> SUFFICES ASSUME TypeInv, [Next]_vars PROVE TypeInv'
  OBVIOUS
<1>1. CASE UNCHANGED vars
  BY <1>1 DEF vars, TypeInv, TypeOK, ListOK, list, command, debuggee, history
<1>2. CASE Debugger
  <2>1. ASSUME NEW forced \in BOOLEAN,
               Stop(forced, FALSE) \/ Continue(forced)
        PROVE  TypeInv'
    BY <2>1, DecideTypeInv
  <2> QED
    BY <1>2, <2>1, TopTypeInv, InsertTypeInv, RemoveTypeInv, CheckTypeInv,
       ReportTypeInv
    DEF Debugger
<1>3. ASSUME NEW forced \in BOOLEAN, Stop(forced, TRUE)
      PROVE  TypeInv'
  BY <1>3, DecideTypeInv
<1> QED
  BY <1>1, <1>2, <1>3, EditTypeInv, CommandTypeInv, DebuggeeTypeInv DEF Next

\* Every variable keeps its type, whatever the program, the points and the
\* commands are (wv_src/dbgexec.c and dbgbrk.c).
THEOREM TypeCorrect == Spec => []TypeOK
<1>1. Spec => []TypeInv
  BY InitTypeInv, NextTypeInv, PTL DEF Spec
<1>2. TypeInv => TypeOK
  BY DEF TypeInv
<1> QED
  BY <1>1, <1>2, PTL

-----------------------------------------------------------------------------
(***************************************************************************)
(* Memory.                                                                 *)
(***************************************************************************)

\* While breakpoints are in, taking them out would restore the program: this
\* is what MemoryIntact needs to be inductive.
Restorable == \A a \in Addr : RestoredByte(a) = Code[a]
MemInv ==
  /\ TypeInv
  /\ MemoryIntact
  /\ pc \in {"retry", "run", "stopped"} => Restorable

\* InsertBPs plants no address twice, so that each byte it saves is the
\* program's.
LEMMA SavedBytes ==
  ASSUME TypeInv, NEW force \in BOOLEAN
  PROVE  /\ \A i \in ListPlanted(force) :
              BrkList[i].addr \notin ListBefore(i, force)
         /\ UserPlanted(force) => UserTmpBrk.addr \notin ListAddrs(force)
         /\ DbgPlanted(force) => DbgTmpBrk.addr \notin UserAddrs(force)
<1>1. ASSUME NEW i \in ListPlanted(force)
      PROVE  BrkList[i].addr \notin ListBefore(i, force)
  <2> SUFFICES ASSUME NEW k \in ListPlanted(force), k < i,
                      BrkList[k].addr = BrkList[i].addr
               PROVE  FALSE
    BY DEF ListBefore
  <2>1. i \in DOMAIN BrkList /\ k \in DOMAIN BrkList
    BY DEF ListPlanted, ListConsidered
  <2>2. k = i
    BY <2>1 DEF TypeInv, ListOK
  <2>3. i \in Nat
    BY <2>1, LenProperties DEF TypeInv, ListOK
  <2> QED
    BY <2>2, <2>3
<1>2. \A i \in ListPlanted(force) : ~Yields(BrkList[i])
  BY DEF ListPlanted, ListConsidered
<1>3. UserPlanted(force) => UserTmpBrk.addr \notin ListAddrs(force)
  BY <1>2 DEF UserPlanted, Planted, ListAddrs, Yields, SameTmp
<1>4. DbgPlanted(force) => DbgTmpBrk.addr \notin UserAddrs(force)
  <2> SUFFICES ASSUME DbgPlanted(force)
               PROVE  DbgTmpBrk.addr \notin UserAddrs(force)
    OBVIOUS
  <2>1. DbgTmpBrk.active /\ ~SameTmp(UserTmpBrk, DbgTmpBrk.addr)
    BY DEF DbgPlanted, DbgConsidered, Planted
  <2>2. DbgTmpBrk.addr \notin ListAddrs(force)
    BY <1>2, <2>1 DEF ListAddrs, Yields, SameTmp
  <2>3. UserPlanted(force) => UserTmpBrk.addr # DbgTmpBrk.addr
    BY <2>1 DEF UserPlanted, Planted, SameTmp
  <2> QED
    BY <2>2, <2>3 DEF UserAddrs
<1> QED
  BY <1>1, <1>3, <1>4

\* What Insert makes of one list point.
LEMMA InsertedPoint ==
  ASSUME TypeInv, NEW force \in BOOLEAN, NEW arm \in BOOLEAN,
         NEW i \in DOMAIN BrkList, ~BrkList[i].watch
  PROVE  LET q == InsertPoints(force, arm)[i]
         IN /\ q.addr = BrkList[i].addr /\ ~q.watch
            /\ q.in_place <=> i \in ListPlanted(force)
            /\ i \in ListPlanted(force) =>
                 q.old = ByteUnder(BrkList[i].addr, ListBefore(i, force))
<1>1. BrkList[i] \in Point
  BY BreakOnAddr
<1>2. InsertPoints(force, arm)[i] = InsertListBP(i, force)
  BY DEF InsertPoints
<1>3. CASE i \in ListPlanted(force)
  <2>1. InsertPoints(force, arm)[i] =
          [BrkList[i] EXCEPT
             !.in_place = TRUE, !.hit = FALSE,
             !.old = ByteUnder(BrkList[i].addr, ListBefore(i, force))]
    BY <1>2, <1>3 DEF InsertListBP
  <2> QED
    BY <1>1, <1>3, <2>1 DEF Point
<1>4. CASE i \notin ListPlanted(force)
  <2>1. InsertPoints(force, arm)[i] =
          [BrkList[i] EXCEPT !.in_place = FALSE, !.hit = FALSE]
    BY <1>2, <1>4 DEF InsertListBP
  <2> QED
    BY <1>1, <1>4, <2>1 DEF Point
<1> QED
  BY <1>3, <1>4

\* The same of a temporary breakpoint.
LEMMA InsertedTmp ==
  ASSUME NEW tmp \in TmpPoint, NEW planted \in BOOLEAN, NEW before
  PROVE  LET q == InsertTmpBP(tmp, planted, before)
         IN /\ q.addr = tmp.addr /\ q.active = tmp.active
            /\ q.in_place = planted
            /\ planted => q.old = ByteUnder(tmp.addr, before)
BY DEF InsertTmpBP, TmpPoint

\* The list points in place after Insert are the ones it planted.
LEMMA InsertedAt ==
  ASSUME TypeInv, NEW force \in BOOLEAN, NEW arm \in BOOLEAN,
         BrkList' = InsertPoints(force, arm), NEW a
  PROVE  InPlaceAt(a)' = {i \in ListPlanted(force) : BrkList[i].addr = a}
<1>1. DOMAIN BrkList' = DOMAIN BrkList
  BY DEF InsertPoints
<1>2. ASSUME NEW i \in InPlaceAt(a)'
      PROVE  i \in ListPlanted(force) /\ BrkList[i].addr = a
  <2>1. /\ i \in DOMAIN BrkList
        /\ ~BrkList'[i].watch /\ BrkList'[i].in_place /\ BrkList'[i].addr = a
    BY <1>1 DEF InPlaceAt
  <2>2. ~BrkList[i].watch
    <3>1. CASE BrkList[i].watch
      <4>1. BrkList'[i] = UpdateWP(BrkList[i], arm)
        BY <2>1, <3>1 DEF InsertPoints
      <4> QED
        BY <2>1, <3>1, <4>1, BreakOnAddr DEF UpdateWP, Point
    <3> QED
      BY <3>1
  <2> QED
    BY <2>1, <2>2, InsertedPoint
<1>3. ASSUME NEW i \in ListPlanted(force), BrkList[i].addr = a
      PROVE  i \in InPlaceAt(a)'
  <2>1. i \in DOMAIN BrkList /\ ~BrkList[i].watch
    BY DEF ListPlanted, ListConsidered
  <2>2. /\ BrkList'[i].addr = a /\ ~BrkList'[i].watch
        /\ BrkList'[i].in_place
    BY <1>3, <2>1, InsertedPoint
  <2> QED
    BY <1>1, <2>1, <2>2 DEF InPlaceAt
<1> QED
  BY <1>2, <1>3

\* After Insert every byte can be put back.
LEMMA InsertRestorable ==
  ASSUME TypeInv, mem = Code, Insert
  PROVE  Restorable'
<1> DEFINE force == es = "FORCE_BREAK"
           arm == how = "BREAK" /\ ~AtIP(force)
<1>1. /\ BrkList' = InsertPoints(force, arm)
      /\ UserTmpBrk' = InsertTmpBP(UserTmpBrk, UserPlanted(force),
                                   ListAddrs(force))
      /\ DbgTmpBrk' = InsertTmpBP(DbgTmpBrk, DbgPlanted(force),
                                  UserAddrs(force))
      /\ mem' = [a \in Addr |-> ByteUnder(a, PlantedAddrs(force))]
  BY DEF Insert
<1>2. force \in BOOLEAN /\ arm \in BOOLEAN
  OBVIOUS
<1> HIDE DEF force, arm
<1>3. UserTmpBrk \in TmpPoint /\ DbgTmpBrk \in TmpPoint
  BY DEF TypeInv, TypeOK
<1>4. UserPlanted(force) \in BOOLEAN /\ DbgPlanted(force) \in BOOLEAN
  BY <1>2, <1>3 DEF UserPlanted, DbgPlanted, DbgConsidered, Planted, SameTmp,
                    TmpPoint
<1>5. /\ UserTmpBrk'.addr = UserTmpBrk.addr
      /\ UserTmpBrk'.active = UserTmpBrk.active
      /\ UserTmpBrk'.in_place = UserPlanted(force)
      /\ UserPlanted(force) =>
           UserTmpBrk'.old = ByteUnder(UserTmpBrk.addr, ListAddrs(force))
  BY <1>1, <1>3, <1>4, InsertedTmp
<1>6. /\ DbgTmpBrk'.addr = DbgTmpBrk.addr
      /\ DbgTmpBrk'.active = DbgTmpBrk.active
      /\ DbgTmpBrk'.in_place = DbgPlanted(force)
      /\ DbgPlanted(force) =>
           DbgTmpBrk'.old = ByteUnder(DbgTmpBrk.addr, UserAddrs(force))
  BY <1>1, <1>3, <1>4, InsertedTmp
<1>7. DOMAIN BrkList' = DOMAIN BrkList
  BY <1>1 DEF InsertPoints
<1>8. ASSUME NEW a \in Addr
      PROVE  InPlaceAt(a)' = {i \in ListPlanted(force) : BrkList[i].addr = a}
  BY <1>1, <1>2, InsertedAt
<1>9. ASSUME NEW a \in Addr
      PROVE  RestoredByte(a)' = Code[a]
  <2>1. CASE TmpInPlaceAt(DbgTmpBrk, a)'
    <3>1. DbgPlanted(force) /\ DbgTmpBrk.addr = a
      BY <1>6, <2>1 DEF TmpInPlaceAt, SameTmp
    <3>2. DbgTmpBrk'.old = Code[a]
      BY <1>2, <1>6, <3>1, SavedBytes DEF ByteUnder
    <3> QED
      BY <2>1, <3>2 DEF RestoredByte
  <2>2. CASE ~TmpInPlaceAt(DbgTmpBrk, a)' /\ TmpInPlaceAt(UserTmpBrk, a)'
    <3>1. UserPlanted(force) /\ UserTmpBrk.addr = a
      BY <1>5, <2>2 DEF TmpInPlaceAt, SameTmp
    <3>2. UserTmpBrk'.old = Code[a]
      BY <1>2, <1>5, <3>1, SavedBytes DEF ByteUnder
    <3> QED
      BY <2>2, <3>2 DEF RestoredByte
  <2>3. CASE ~TmpInPlaceAt(DbgTmpBrk, a)' /\ ~TmpInPlaceAt(UserTmpBrk, a)'
    <3>1. CASE InPlaceAt(a)' = {}
      <4>1. a \notin PlantedAddrs(force)
        <5>1. a \notin ListAddrs(force)
          BY <1>8, <3>1 DEF ListAddrs
        <5>2. ~(UserPlanted(force) /\ UserTmpBrk.addr = a)
          BY <1>5, <2>3 DEF TmpInPlaceAt, SameTmp, UserPlanted, Planted
        <5>3. ~(DbgPlanted(force) /\ DbgTmpBrk.addr = a)
          BY <1>6, <2>3 DEF TmpInPlaceAt, SameTmp, DbgPlanted, Planted
        <5> QED
          BY <5>1, <5>2, <5>3 DEF PlantedAddrs, UserAddrs
      <4>2. mem'[a] = Code[a]
        BY <1>1, <4>1 DEF ByteUnder
      <4> QED
        BY <2>3, <3>1, <4>2 DEF RestoredByte
    <3>2. CASE InPlaceAt(a)' # {}
      <4>1. PICK i \in InPlaceAt(a)' : TRUE
        BY <3>2
      <4>2. i \in ListPlanted(force) /\ BrkList[i].addr = a
        BY <1>8, <4>1
      <4>3. i \in DOMAIN BrkList /\ ~BrkList[i].watch
        BY <4>2 DEF ListPlanted, ListConsidered
      <4>4. \A j \in InPlaceAt(a)' : j = i
        BY <1>8, <4>2, <4>3 DEF ListPlanted, ListConsidered, TypeInv, ListOK
      <4>5. i \in Nat
        BY <4>3, LenProperties DEF TypeInv, ListOK
      <4>6. (CHOOSE k \in InPlaceAt(a)' : \A j \in InPlaceAt(a)' : j <= k) = i
        <5> DEFINE last == CHOOSE k \in InPlaceAt(a)' :
                             \A j \in InPlaceAt(a)' : j <= k
        <5>1. \E k \in InPlaceAt(a)' : \A j \in InPlaceAt(a)' : j <= k
          BY <4>1, <4>4, <4>5
        <5>2. last \in InPlaceAt(a)'
          BY <5>1
        <5> HIDE DEF last
        <5>3. last = i
          BY <4>4, <5>2
        <5> QED
          BY <5>3 DEF last
      <4>7. BrkList'[i].old = Code[a]
        BY <1>1, <1>2, <4>2, <4>3, InsertedPoint, SavedBytes DEF ByteUnder
      <4> QED
        BY <2>3, <3>2, <4>6, <4>7 DEF RestoredByte
    <3> QED
      BY <3>1, <3>2
  <2> QED
    BY <2>1, <2>2, <2>3
<1> QED
  BY <1>9 DEF Restorable, Code

\* Taking the breakpoints out puts the program back.
LEMMA RemoveRestores ==
  ASSUME Restorable, RemoveBPs
  PROVE  mem' = Code
BY DEF Restorable, RemoveBPs, Code

\* What neither plants nor removes leaves the bytes, and how to put them back.
LEMMA RestorableKept ==
  ASSUME Restorable, UNCHANGED <<list, mem>>
  PROVE  Restorable'
<1>1. \A a \in Addr : RestoredByte(a)' = RestoredByte(a)
  BY DEF RestoredByte, InPlaceAt, TmpInPlaceAt, SameTmp, list
<1> QED
  BY <1>1 DEF Restorable, Code

LEMMA NextMemInv == MemInv /\ [Next]_vars => MemInv'
<1> SUFFICES ASSUME MemInv, [Next]_vars PROVE MemInv'
  OBVIOUS
<1>1. TypeInv'
  BY NextTypeInv DEF MemInv
<1>2. CASE Insert
  <2>1. Restorable'
    BY <1>2, InsertRestorable DEF MemInv, MemoryIntact, Insert
  <2>2. pc' \in {"retry", "run"}
    BY <1>2 DEF Insert
  <2> QED
    BY <1>1, <2>1, <2>2 DEF MemInv, MemoryIntact
<1>3. CASE Retry \/ \E m, stop \in BOOLEAN : EndRun(m, stop)
  <2>1. RemoveBPs /\ pc \in {"retry", "stopped"} /\ pc' \in {"top", "check"}
    BY <1>3 DEF Retry, EndRun
  <2>2. mem' = Code
    BY <2>1, RemoveRestores DEF MemInv
  <2>3. Code' = Code
    BY DEF Code
  <2> QED
    BY <1>1, <2>1, <2>2, <2>3 DEF MemInv, MemoryIntact
<1>4. ASSUME UNCHANGED <<list, mem>>, pc \in {"run", "stopped", "retry"},
             pc' \in {"run", "stopped", "retry"}
      PROVE  MemInv'
  <2>1. Restorable'
    BY <1>4, RestorableKept DEF MemInv
  <2> QED
    BY <1>1, <1>4, <2>1 DEF MemInv, MemoryIntact
<1>5. ASSUME UNCHANGED mem, pc \notin {"run", "stopped", "retry"},
             pc' \notin {"run", "stopped", "retry"}
      PROVE  MemInv'
  BY <1>1, <1>5 DEF MemInv, MemoryIntact, Code
<1>6. CASE UNCHANGED vars
  BY <1>4, <1>5, <1>6 DEF vars
<1>7. CASE Edit
  BY <1>5, <1>7 DEF Edit, SetPoint, ToggleBreak, ActPoint, ActAll, ClearPoint,
                    BrkClearAll, SetBPAutoDestruct, SetUserTmp, DropUserTmp,
                    Edited, Editing
<1>8. CASE Go \/ \E type \in TraceTypes : Trace(type)
  BY <1>5, <1>8 DEF Go, Trace, Enter
<1>9. CASE Debuggee \/ Interrupt
  <2>1. UNCHANGED <<list, mem>> /\ pc = "run" /\ pc' \in {"run", "stopped"}
    BY <1>9 DEF Debuggee, HitBreak, Execute, Fail, Simulate, Interrupt, Return,
                Running
  <2> QED
    BY <1>4, <2>1
<1>10. CASE \/ Top
            \/ \E res \in Results, m \in BOOLEAN : Check(res, m)
            \/ \E forced \in BOOLEAN :
                 \/ Continue(forced)
                 \/ \E user \in BOOLEAN : Stop(forced, user)
            \/ Report \/ Destruct \/ Prompt
  BY <1>5, <1>10 DEF Top, Check, Continue, Stop, Report, Destruct, Prompt
<1> QED
  BY <1>2, <1>3, <1>6, <1>7, <1>8, <1>9, <1>10 DEF Next, Debugger

\* The debugger hands the program's memory back as it was loaded whenever the
\* debuggee does not run, for every program, table and command: RemoveBPs
\* (dbgbrk.c:315-336) undoes InsertBPs (dbgbrk.c:255-288).
THEOREM MemorySafe == Spec => []MemoryIntact
<1>1. Init => MemInv
  BY InitTypeInv DEF Init, MemInv, MemoryIntact
<1>2. Spec => []MemInv
  BY <1>1, NextMemInv, PTL DEF Spec
<1>3. MemInv => MemoryIntact
  BY DEF MemInv
<1> QED
  BY <1>2, <1>3, PTL

-----------------------------------------------------------------------------
(***************************************************************************)
(* Where breakpoints are wanted, and where they are.                       *)
(***************************************************************************)

\* An active breakpoint, of the list or temporary, is set at a.
ActiveAt(a) ==
  \/ SameTmp(UserTmpBrk, a) \/ SameTmp(DbgTmpBrk, a)
  \/ \E i \in DOMAIN BrkList : /\ ~BrkList[i].watch /\ BrkList[i].active
                               /\ BrkList[i].addr = a

\* The last Insert planted it.
TmpAt(a) == TmpInPlaceAt(UserTmpBrk, a) \/ TmpInPlaceAt(DbgTmpBrk, a)
PlacedAt(a) == TmpAt(a) \/ \E i \in InPlaceAt(a) : BrkList[i].active

\* The debuggee stands on one that was planted.
OnTmp == TmpAt(ip)
OnPlaced == PlacedAt(ip)

AllPlaced == \A a \in Addr : ActiveAt(a) => PlacedAt(a)
OthersPlaced == \A a \in Addr : ActiveAt(a) /\ a # ip => PlacedAt(a)
Bytes == \A a \in Addr : mem[a] = "CC" <=> PlacedAt(a) \/ Code[a] = "CC"
NoneYields ==
  \A i \in DOMAIN BrkList :
    ~BrkList[i].watch /\ BrkList[i].in_place => ~Yields(BrkList[i])

\* The instruction at ip is to be run to the debugger's breakpoint behind it.
BehindIt ==
  Kind[ip] \in {"special"} \cup SystemCalls /\ SameTmp(DbgTmpBrk, After[ip])

-----------------------------------------------------------------------------
(***************************************************************************)
(* The invariant of the run loop.                                          *)
(***************************************************************************)

Looping == pc \in {"top", "insert", "retry", "run", "stopped", "check", "decide"}
Passing == pc \in {"run", "stopped", "check"}
Fatal == raised \cap {"TERMINATE", "EXCEPTION"} # {}

\* A point that never had a countdown does not get one.
Countdowns ==
  \A i \in DOMAIN BrkList :
    BrkList[i].initial_countdown = 0 => BrkList[i].countdown = 0

\* What the decision how to run the debuggee rests on.
Decided ==
  /\ pc \in {"insert", "run"} /\ how = "SIMULATE" => Kind[ip] = "int"
  /\ pc = "insert" /\ how = "STEPBREAK" => BehindIt

\* What is planted while the debuggee runs, and remembered until Check.
Planting ==
  /\ Passing => NoneYields /\ ~DbgTmpBrk.hit
  /\ pc = "run" => Bytes
  /\ pc = "run" /\ how = "BREAK" => AllPlaced
  /\ pc = "run" /\ how = "STEPBREAK" => (BehindIt /\ OthersPlaced) \/ OnTmp

\* A run returns one condition, and nothing replaces it before Check but what
\* RecordMsgText makes of a message.
Caused ==
  /\ \E c \in Conditions : raised \subseteq {c}
  /\ pc = "stopped" => conditions = raised
  /\ pc = "check" => /\ conditions \subseteq raised \cup {"STOP"}
                     /\ "MESSAGE" \notin raised => conditions = raised

\* The debuggee has not moved since the last stop or countdown step.
Unmoved == arrived = "no" \/ counted > 0

\* A pass that does not force the breakpoints in does not stop at the one it
\* starts from; the pass that steps off it ends with a reason to stop.
Leaving ==
  /\ Passing /\ Unmoved /\ es # "FORCE_BREAK" => ~OnPlaced
  /\ pc \in {"stopped", "check"} /\ Unmoved /\ es = "STEP_ONE" /\ Kind[ip] # "int"
       => \/ raised \subseteq {"USER", "TERMINATE", "EXCEPTION"} /\ raised # {}
          \/ raised = {"BREAK"} /\ Code[ip] = "CC"
  /\ pc = "decide" /\ es = "STEP_ONE" /\ Kind[ip] # "int"
     /\ (arrived = "no" \/ counted > 1)
       => conditions \cap {"USER", "TERMINATE", "EXCEPTION", "WATCH"} # {}
  /\ Looping /\ pc # "decide" /\ es = "FORCE_BREAK" /\ Kind[ip] # "int"
       => counted \in {0, 1}
  /\ tracing = "no" /\ arrived = "no" /\ Kind[ip] # "int"
       => /\ Looping => es # "FORCE_BREAK"
          /\ pc \in {"decide", "report"} => "BREAK" \notin conditions

\* Between two commands the histories start afresh.
Held ==
  /\ pc \in {"prompt", "destruct"} => arrived = "no" /\ wrote = "no" /\ counted = 0
  /\ pc = "prompt" => es = "NORMAL" /\ tracing = "no" /\ raised = {}

\* The end of the program on its way to the user.
Ending ==
  Fatal =>
    /\ pc \in {"stopped", "check", "decide", "report", "destruct"}
    /\ pc \in {"stopped", "check"} => ~OnPlaced
    /\ pc = "decide" => ~DbgTmpBrk.hit
    /\ pc \in {"decide", "report"} =>
         \/ conditions = raised
         \/ /\ conditions = {"WATCH"}
            /\ \E i \in DOMAIN BrkList : BrkList[i].watch /\ BrkList[i].hit
    /\ pc = "destruct" /\ "TERMINATE" \in raised /\ have_task =>
         "WATCH" \in conditions

\* What Check may have made of the break key.
BreakKey ==
  pc = "decide" /\ "USER" \in raised =>
    conditions \in {{"USER"}, {"BREAK"}, {"WATCH"}}

\* An arrival where the user asked to be stopped.
Due ==
  arrived = "executed" /\ ip \in Armed =>
    /\ pc \in {"top", "insert"} => es = "FORCE_BREAK"
    /\ pc # "retry"
    /\ pc = "run" => OnPlaced
    /\ pc \in {"stopped", "check"} => OnPlaced \/ raised = {"TRACE"}
    /\ pc = "decide" => conditions \cap {"BREAK", "WATCH", "TRACE"} # {}

PassInv ==
  /\ Decided /\ Planting /\ Caused /\ Leaving /\ Held /\ Ending /\ BreakKey /\ Due

LoopInv == MemInv /\ Countdowns /\ PassInv

\* Watchpoints compare with the value the cell has when the debuggee starts.
Read(i) == BrkList[i].val = data
Watching(i) == BrkList[i].watch /\ BrkList[i].active
Watched ==
  /\ pc = "run" => \A i \in DOMAIN BrkList : Watching(i) =>
       /\ Read(i) \/ (how = "STEPBREAK" /\ OnTmp)
       /\ how = "BREAK" => BrkList[i].in_place
  /\ pc \in {"stopped", "check"} => \A i \in DOMAIN BrkList :
       Watching(i) => Read(i) \/ OnTmp \/ wrote # "no"
  /\ pc \in {"decide", "report"} /\ "WATCH" \in conditions => wrote # "no"
  /\ wrote = "changed" /\ WatchesPlainly =>
       /\ pc \in {"stopped", "check", "decide", "report"}
       /\ pc # "report" => how # "STEPBREAK"
       /\ pc \in {"stopped", "check"} =>
            \A i \in DOMAIN BrkList : Watching(i) => ~Read(i)
       /\ pc = "decide" => conditions \cap {"BREAK", "WATCH"} # {}
-----------------------------------------------------------------------------
(***************************************************************************)
(* What the passes of the loop leave of the points.                        *)
(***************************************************************************)

\* What the user said about the points.
SamePoints ==
  /\ DOMAIN BrkList' = DOMAIN BrkList
  /\ \A i \in DOMAIN BrkList :
       /\ BrkList'[i].addr = BrkList[i].addr
       /\ BrkList'[i].watch = BrkList[i].watch
       /\ BrkList'[i].active = BrkList[i].active
       /\ BrkList'[i].use_condition = BrkList[i].use_condition
       /\ BrkList'[i].initial_countdown = BrkList[i].initial_countdown
SameUserTmp ==
  UserTmpBrk'.addr = UserTmpBrk.addr /\ UserTmpBrk'.active = UserTmpBrk.active
SameDbgTmp ==
  DbgTmpBrk'.addr = DbgTmpBrk.addr /\ DbgTmpBrk'.active = DbgTmpBrk.active

\* And where breakpoints were planted.
SamePlaces ==
  /\ SamePoints /\ SameUserTmp /\ SameDbgTmp
  /\ \A i \in DOMAIN BrkList :
       ~BrkList[i].watch => BrkList'[i].in_place = BrkList[i].in_place
  /\ UserTmpBrk'.in_place = UserTmpBrk.in_place
  /\ DbgTmpBrk'.in_place = DbgTmpBrk.in_place

LEMMA ArmedKept ==
  ASSUME SamePoints, SameUserTmp
  PROVE  Armed' = Armed
<1>1. \A i \in DOMAIN BrkList : Plain(BrkList'[i]) <=> Plain(BrkList[i])
  BY DEF SamePoints, Plain
<1>2. {BrkList'[i].addr : i \in {j \in DOMAIN BrkList' :
                             Plain(BrkList'[j]) /\ ~BrkList'[j].watch}}
      = {BrkList[i].addr : i \in {j \in DOMAIN BrkList :
                             Plain(BrkList[j]) /\ ~BrkList[j].watch}}
  BY <1>1 DEF SamePoints
<1> QED
  BY <1>2 DEF Armed, SameUserTmp

LEMMA PlainKept ==
  ASSUME SamePoints
  PROVE  WatchesPlainly' <=> WatchesPlainly
BY DEF SamePoints, WatchesPlainly, Plain

LEMMA ActiveKept ==
  ASSUME SamePoints, SameUserTmp, SameDbgTmp, NEW a
  PROVE  ActiveAt(a)' <=> ActiveAt(a)
BY DEF SamePoints, SameUserTmp, SameDbgTmp, ActiveAt, SameTmp

LEMMA PlacesKept ==
  ASSUME SamePlaces
  PROVE  /\ \A a : TmpAt(a)' <=> TmpAt(a)
         /\ \A a : PlacedAt(a)' <=> PlacedAt(a)
         /\ NoneYields' <=> NoneYields
<1>1. ASSUME NEW a
      PROVE  TmpAt(a)' <=> TmpAt(a)
  BY DEF SamePlaces, SameUserTmp, SameDbgTmp, TmpAt, TmpInPlaceAt, SameTmp
<1>2. ASSUME NEW a
      PROVE  PlacedAt(a)' <=> PlacedAt(a)
  BY <1>1 DEF SamePlaces, SamePoints, PlacedAt, InPlaceAt
<1>3. \A a : Yields(a)' <=> Yields(a)
  BY DEF SamePlaces, SameUserTmp, SameDbgTmp, Yields, SameTmp
<1>4. NoneYields' <=> NoneYields
  BY DEF SamePlaces, SamePoints, NoneYields, SameUserTmp, SameDbgTmp, Yields,
         SameTmp
<1> QED
  BY <1>1, <1>2, <1>4

\* RemoveBPs forgets where the watchpoints are, and nothing else.
LEMMA RemoveSame ==
  ASSUME TypeInv, RemoveBPs, UNCHANGED <<UserTmpBrk, DbgTmpBrk>>
  PROVE  /\ SamePlaces
         /\ \A i \in DOMAIN BrkList :
              /\ BrkList'[i].countdown = BrkList[i].countdown
              /\ BrkList'[i].val = BrkList[i].val
<1>1. BrkList' = [i \in DOMAIN BrkList |-> RemoveWP(BrkList[i])]
  BY DEF RemoveBPs
<1>2. ASSUME NEW i \in DOMAIN BrkList
      PROVE  LET p == BrkList[i] q == BrkList'[i] IN
             /\ q.addr = p.addr /\ q.watch = p.watch /\ q.active = p.active
             /\ q.use_condition = p.use_condition
             /\ q.initial_countdown = p.initial_countdown
             /\ q.countdown = p.countdown /\ q.val = p.val
             /\ ~p.watch => q.in_place = p.in_place
  BY <1>1, BreakOnAddr DEF RemoveWP, Point
<1> QED
  BY <1>1, <1>2 DEF SamePlaces, SamePoints, SameUserTmp, SameDbgTmp

\* CheckBPs counts down and marks what was hit.
LEMMA CheckSame ==
  ASSUME TypeInv, NEW res, NEW m, Check(res, m)
  PROVE  /\ SamePlaces
         /\ \A i \in DOMAIN BrkList :
              /\ BrkList'[i].val = BrkList[i].val
              /\ BrkList'[i].countdown = IF Counts(BrkList[i], res[i])
                                           THEN BrkList[i].countdown - 1
                                           ELSE BrkList[i].countdown
              /\ Stops(BrkList[i], res[i]) => BrkList'[i].hit
<1>1. BrkList' = [i \in DOMAIN BrkList |-> CheckedPoint(BrkList[i], res[i])]
  BY DEF Check
<1>2. ASSUME NEW p \in Point, NEW r
      PROVE  LET q == CheckedPoint(p, r) IN
             /\ q.addr = p.addr /\ q.watch = p.watch /\ q.active = p.active
             /\ q.use_condition = p.use_condition
             /\ q.initial_countdown = p.initial_countdown
             /\ q.val = p.val /\ q.in_place = p.in_place
             /\ q.countdown = IF Counts(p, r) THEN p.countdown - 1
                                              ELSE p.countdown
             /\ Stops(p, r) => q.hit
  BY DEF CheckedPoint, Point
<1>3. \A i \in DOMAIN BrkList : BrkList'[i] = CheckedPoint(BrkList[i], res[i])
  BY <1>1
<1>4. /\ UserTmpBrk'.addr = UserTmpBrk.addr
      /\ UserTmpBrk'.active = UserTmpBrk.active
      /\ UserTmpBrk'.in_place = UserTmpBrk.in_place
      /\ DbgTmpBrk'.addr = DbgTmpBrk.addr
      /\ DbgTmpBrk'.active = DbgTmpBrk.active
      /\ DbgTmpBrk'.in_place = DbgTmpBrk.in_place
  BY DEF Check, CheckTmp, TypeInv, TypeOK, TmpPoint
<1>5. DOMAIN BrkList' = DOMAIN BrkList
  BY <1>1
<1>6. SamePlaces
  BY <1>2, <1>3, <1>4, <1>5, BreakOnAddr
  DEF SamePlaces, SamePoints, SameUserTmp, SameDbgTmp
<1> QED
  BY <1>2, <1>3, <1>6, BreakOnAddr

LEMMA UnchangedSame ==
  ASSUME UNCHANGED list
  PROVE  SamePlaces
BY DEF list, SamePlaces, SamePoints, SameUserTmp, SameDbgTmp
-----------------------------------------------------------------------------
(***************************************************************************)
(* What Insert plants: the active breakpoints, but for the one under the   *)
(* instruction pointer when it is not forced.                              *)
(***************************************************************************)

Forced == es = "FORCE_BREAK"
WantedAt(a) == ActiveAt(a) /\ (Forced \/ a # ip)

\* InsertBPs and UpdateWPs leave what the user said, and read the cell.
LEMMA InsertSame ==
  ASSUME TypeInv, Insert
  PROVE  /\ SamePoints /\ SameUserTmp /\ SameDbgTmp /\ ~DbgTmpBrk'.hit
         /\ UserTmpBrk'.in_place = UserPlanted(Forced)
         /\ DbgTmpBrk'.in_place = DbgPlanted(Forced)
         /\ \A i \in DOMAIN BrkList :
              /\ BrkList'[i].countdown = BrkList[i].countdown
              /\ Watching(i) => /\ BrkList'[i].val = data
                                /\ how = "BREAK" /\ ~AtIP(Forced)
                                     => BrkList'[i].in_place
<1> DEFINE arm == how = "BREAK" /\ ~AtIP(Forced)
<1>1. /\ BrkList' = InsertPoints(Forced, arm)
      /\ UserTmpBrk' = InsertTmpBP(UserTmpBrk, UserPlanted(Forced),
                                   ListAddrs(Forced))
      /\ DbgTmpBrk' = InsertTmpBP(DbgTmpBrk, DbgPlanted(Forced),
                                  UserAddrs(Forced))
  BY DEF Insert, Forced
<1>2. arm \in BOOLEAN /\ Forced \in BOOLEAN
  BY DEF Forced
<1>3. UserTmpBrk \in TmpPoint /\ DbgTmpBrk \in TmpPoint
  BY DEF TypeInv, TypeOK
<1>4. UserPlanted(Forced) \in BOOLEAN /\ DbgPlanted(Forced) \in BOOLEAN
  BY <1>2, <1>3 DEF UserPlanted, DbgPlanted, DbgConsidered, Planted, SameTmp,
                    TmpPoint
<1>5. /\ SameUserTmp /\ SameDbgTmp
      /\ UserTmpBrk'.in_place = UserPlanted(Forced)
      /\ DbgTmpBrk'.in_place = DbgPlanted(Forced)
  BY <1>1, <1>3, <1>4, InsertedTmp DEF SameUserTmp, SameDbgTmp
<1>6. ~DbgTmpBrk'.hit
  BY <1>1, <1>3 DEF InsertTmpBP, TmpPoint
<1>7. DOMAIN BrkList' = DOMAIN BrkList
  BY <1>1 DEF InsertPoints
<1>8. ASSUME NEW i \in DOMAIN BrkList
      PROVE  LET p == BrkList[i] q == BrkList'[i] IN
             /\ q.addr = p.addr /\ q.watch = p.watch /\ q.active = p.active
             /\ q.use_condition = p.use_condition
             /\ q.initial_countdown = p.initial_countdown
             /\ q.countdown = p.countdown
             /\ p.watch /\ p.active => q.val = data /\ (arm => q.in_place)
  <2>1. BrkList[i] \in Point
    BY BreakOnAddr
  <2>2. CASE BrkList[i].watch
    <3>1. BrkList'[i] = UpdateWP(BrkList[i], arm)
      BY <1>1, <2>2 DEF InsertPoints
    <3> HIDE DEF arm
    <3> QED
      BY <1>2, <2>1, <3>1 DEF UpdateWP, Point
  <2>3. CASE ~BrkList[i].watch
    <3>1. BrkList'[i] = InsertListBP(i, Forced)
      BY <1>1, <2>3 DEF InsertPoints
    <3> QED
      BY <2>1, <2>3, <3>1 DEF InsertListBP, Point
  <2> QED
    BY <2>2, <2>3
<1> QED
  BY <1>5, <1>6, <1>7, <1>8 DEF SamePoints, Watching

\* Which addresses InsertBPs hands to RemoteSetBreak.
LEMMA PlantedWhere ==
  ASSUME TypeInv, NEW a
  PROVE  /\ a \in PlantedAddrs(Forced) <=> WantedAt(a)
         /\ AtIP(Forced) <=> ActiveAt(ip) /\ ~Forced
<1>1. UserTmpBrk \in TmpPoint /\ DbgTmpBrk \in TmpPoint
  BY DEF TypeInv, TypeOK
<1>2. \A i \in DOMAIN BrkList : BrkList[i].active \in BOOLEAN
  BY BreakOnAddr DEF Point
<1>3. a \in ListAddrs(Forced) <=>
        \E i \in DOMAIN BrkList :
          /\ ~BrkList[i].watch /\ ~Yields(BrkList[i]) /\ BrkList[i].active
          /\ BrkList[i].addr = a /\ (Forced \/ a # ip)
  BY DEF ListAddrs, ListPlanted, ListConsidered, Planted
<1>4. a \in PlantedAddrs(Forced) <=>
        \/ a \in ListAddrs(Forced)
        \/ UserPlanted(Forced) /\ UserTmpBrk.addr = a
        \/ DbgPlanted(Forced) /\ DbgTmpBrk.addr = a
  BY DEF PlantedAddrs, UserAddrs
<1>5. a \in PlantedAddrs(Forced) <=> WantedAt(a)
  BY <1>3, <1>4 DEF WantedAt, ActiveAt, Yields, SameTmp, UserPlanted,
                    DbgPlanted, DbgConsidered, Planted
<1>6. AtIP(Forced) <=> ActiveAt(ip) /\ ~Forced
  BY DEF AtIP, OneAtIP, ListConsidered, DbgConsidered, ActiveAt, Yields, SameTmp
<1> QED
  BY <1>5, <1>6

\* Where the debuggee finds breakpoints, and INT3s, after Insert.
LEMMA InsertPlaces ==
  ASSUME TypeInv, mem = Code, Insert
  PROVE  /\ \A a : PlacedAt(a)' <=> WantedAt(a)
         /\ \A a : TmpAt(a)' <=> /\ SameTmp(UserTmpBrk, a) \/ SameTmp(DbgTmpBrk, a)
                                 /\ Forced \/ a # ip
         /\ Bytes' /\ NoneYields'
<1> DEFINE arm == how = "BREAK" /\ ~AtIP(Forced)
<1>1. /\ BrkList' = InsertPoints(Forced, arm)
      /\ mem' = [a \in Addr |-> ByteUnder(a, PlantedAddrs(Forced))]
  BY DEF Insert, Forced
<1>2. arm \in BOOLEAN /\ Forced \in BOOLEAN
  BY DEF Forced
<1> HIDE DEF arm
<1>3. /\ SamePoints /\ SameUserTmp /\ SameDbgTmp
      /\ UserTmpBrk'.in_place = UserPlanted(Forced)
      /\ DbgTmpBrk'.in_place = DbgPlanted(Forced)
  BY InsertSame
<1>4. ASSUME NEW a
      PROVE  /\ TmpInPlaceAt(UserTmpBrk, a)' <=>
                  UserPlanted(Forced) /\ UserTmpBrk.addr = a
             /\ TmpInPlaceAt(DbgTmpBrk, a)' <=>
                  DbgPlanted(Forced) /\ DbgTmpBrk.addr = a
  BY <1>3 DEF TmpInPlaceAt, SameTmp, SameUserTmp, SameDbgTmp, UserPlanted,
              DbgPlanted, Planted
<1>5. ASSUME NEW a
      PROVE  TmpAt(a)' <=> /\ SameTmp(UserTmpBrk, a) \/ SameTmp(DbgTmpBrk, a)
                           /\ Forced \/ a # ip
  BY <1>4 DEF TmpAt, UserPlanted, DbgPlanted, DbgConsidered, Planted, SameTmp
<1>6. ASSUME NEW a
      PROVE  PlacedAt(a)' <=> WantedAt(a)
  <2>1. InPlaceAt(a)' = {i \in ListPlanted(Forced) : BrkList[i].addr = a}
    BY <1>1, <1>2, InsertedAt
  <2>2. \A i \in ListPlanted(Forced) : BrkList'[i].active
    BY <1>3 DEF ListPlanted, ListConsidered, Planted, SamePoints
  <2>3. PlacedAt(a)' <=> TmpAt(a)' \/ a \in ListAddrs(Forced)
    BY <2>1, <2>2 DEF PlacedAt, ListAddrs
  <2>4. PlacedAt(a)' <=> a \in PlantedAddrs(Forced)
    BY <1>4, <2>3 DEF TmpAt, PlantedAddrs, UserAddrs
  <2> QED
    BY <2>4, PlantedWhere
<1>7. Bytes'
  <2>1. \A a \in Addr : mem'[a] = "CC" <=> WantedAt(a) \/ Code[a] = "CC"
    BY <1>1, PlantedWhere DEF ByteUnder
  <2> QED
    BY <1>6, <2>1 DEF Bytes, Code
<1>8. NoneYields'
  <2> SUFFICES ASSUME NEW i \in DOMAIN BrkList', ~BrkList'[i].watch,
                      BrkList'[i].in_place
               PROVE  ~Yields(BrkList[i])'
    BY DEF NoneYields
  <2>1. i \in DOMAIN BrkList /\ ~BrkList[i].watch
    BY <1>3 DEF SamePoints
  <2>2. i \in ListPlanted(Forced)
    BY <1>1, <1>2, <2>1, InsertedPoint
  <2>3. ~Yields(BrkList[i])
    BY <2>2 DEF ListPlanted, ListConsidered
  <2> QED
    BY <1>3, <2>1, <2>3
    DEF Yields, SameTmp, SamePoints, SameUserTmp, SameDbgTmp
<1> QED
  BY <1>5, <1>6, <1>7, <1>8
-----------------------------------------------------------------------------
(***************************************************************************)
(* What CheckBPs finds (BreakHit, WatchpointHit), and what becomes of it   *)
(* (Verdict, Digest, TraceCheck).                                          *)
(***************************************************************************)

\* A breakpoint is hit, or counted down, only where one was planted.
LEMMA HitIsPlaced ==
  ASSUME NEW res
  PROVE  /\ BreakHit(res) => OnPlaced
         /\ CountsBreak(res) => OnPlaced
         /\ OnTmp => BreakHit(res)
<1>1. ASSUME NEW i \in DOMAIN BrkList, NEW r, ~BrkList[i].watch,
             Passes(BrkList[i], r)
      PROVE  OnPlaced
  BY <1>1 DEF Passes, FirstHit, HaveHitBP, OnPlaced, PlacedAt, InPlaceAt
<1>2. HaveHitBP(UserTmpBrk) \/ HaveHitBP(DbgTmpBrk) <=> OnTmp
  BY DEF HaveHitBP, OnTmp, TmpAt, TmpInPlaceAt, SameTmp
<1>3. BreakHit(res) => OnPlaced
  BY <1>1, <1>2 DEF BreakHit, Stops, OnPlaced, OnTmp, PlacedAt
<1>4. CountsBreak(res) => OnPlaced
  BY <1>1 DEF CountsBreak, Counts
<1> QED
  BY <1>2, <1>3, <1>4 DEF BreakHit

\* One that stops every time does.
LEMMA ArmedStops ==
  ASSUME TypeInv, Countdowns, NoneYields, NEW res \in Results,
         OnPlaced, ip \in Armed
  PROVE  BreakHit(res)
<1>1. CASE OnTmp
  BY <1>1, HitIsPlaced
<1>2. CASE ~OnTmp
  <2>1. PICK i \in InPlaceAt(ip) : BrkList[i].active
    BY <1>2 DEF OnPlaced, OnTmp, PlacedAt
  <2>2. /\ i \in DOMAIN BrkList /\ ~BrkList[i].watch /\ BrkList[i].in_place
        /\ BrkList[i].addr = ip
    BY <2>1 DEF InPlaceAt
  <2>3. ~SameTmp(UserTmpBrk, ip)
    BY <2>2 DEF NoneYields, Yields
  <2>4. PICK j \in DOMAIN BrkList : Plain(BrkList[j]) /\ BrkList[j].addr = ip
    BY <2>3 DEF Armed, SameTmp
  <2>5. j = i
    BY <2>2, <2>4 DEF TypeInv, ListOK
  <2>6. FirstHit(BrkList[i]) /\ ~BrkList[i].use_condition
    BY <2>1, <2>2, <2>4, <2>5 DEF FirstHit, HaveHitBP, Plain
  <2>7. BrkList[i].countdown = 0
    BY <2>2, <2>4, <2>5 DEF Countdowns, Plain
  <2>8. Stops(BrkList[i], res[i])
    BY <2>6, <2>7 DEF Stops, Passes, Counts
  <2> QED
    BY <2>2, <2>8 DEF BreakHit
<1> QED
  BY <1>1, <1>2

LEMMA VerdictIs ==
  ASSUME NEW res, NEW m
  PROVE  LET rest == conditions \ STOPPERS IN
         /\ BreakHit(res) => Verdict(res, m) = rest \cup {"BREAK"}
         /\ ~BreakHit(res) /\ WatchpointHit(res) =>
              Verdict(res, m) = rest \cup {"WATCH"}
         /\ SkipsOwnBreak(res) => Verdict(res, m) = rest \cup OwnBreakVerdict(m)
         /\ ~BreakHit(res) /\ ~WatchpointHit(res) /\ ~SkipsOwnBreak(res) =>
              Verdict(res, m) = IF conditions \cap {"BREAK", "WATCH"} = {}
                                  THEN conditions ELSE rest
BY DEF Verdict, SkipsOwnBreak

\* The reasons to stop that ExecProg takes as they are.
Kept == {"USER", "TERMINATE", "EXCEPTION", "WATCH"}

LEMMA DigestKeeps ==
  ASSUME NEW forced \in BOOLEAN
  PROVE  LET c == Digest(forced) IN
         /\ \A s \in Kept : s \in c <=> s \in conditions
         /\ "BREAK" \in c => "BREAK" \in conditions
         /\ "BREAK" \in conditions /\ "BREAK" \notin c =>
              /\ how = "STEPBREAK" /\ DbgTmpBrk.hit
              /\ "TRACE" \in c \/ es = "STEP_ONE"
         /\ "TRACE" \in conditions => "TRACE" \in c \/ es = "STEP_ONE"
         /\ \A s \in Kept : conditions = {s} => c = {s}
<1> DEFINE c1 == WithMessage(conditions)
           c2 == WithStepBreak(c1)
           c3 == WithLibraries(c2, forced)
           c4 == WithoutStep(c3)
<1>1. Digest(forced) = c4
  BY DEF Digest
<1>2. /\ \A s \in Kept \cup {"BREAK", "TRACE"} : s \in c1 <=> s \in conditions
      /\ \A s \in Kept : conditions = {s} => c1 = {s}
  BY DEF WithMessage, Kept
<1> HIDE DEF c1
<1>3. /\ \A s \in Kept : s \in c2 <=> s \in c1
      /\ "BREAK" \in c2 => "BREAK" \in c1
      /\ "BREAK" \in c1 /\ "BREAK" \notin c2 =>
           how = "STEPBREAK" /\ DbgTmpBrk.hit /\ "TRACE" \in c2
      /\ "TRACE" \in c1 => "TRACE" \in c2
      /\ \A s \in Kept : c1 = {s} => c2 = {s}
  BY DEF WithStepBreak, Kept
<1> HIDE DEF c2
<1>4. /\ \A s \in Kept \cup {"BREAK", "TRACE"} : s \in c3 <=> s \in c2
      /\ \A s \in Kept : c2 = {s} => c3 = {s}
  BY DEF WithLibraries, Kept
<1> HIDE DEF c3
<1>5. /\ \A s \in Kept \cup {"BREAK"} : s \in c4 <=> s \in c3
      /\ "TRACE" \in c3 => "TRACE" \in c4 \/ es = "STEP_ONE"
      /\ \A s \in Kept : c3 = {s} => c4 = {s}
  BY DEF WithoutStep, Kept
<1> HIDE DEF c4
<1>6. \A s \in Kept : s \in c4 <=> s \in conditions
  BY <1>2, <1>3, <1>4, <1>5
<1>7. \A s \in Kept : conditions = {s} => c4 = {s}
  BY <1>2, <1>3, <1>4, <1>5
<1> QED
  BY <1>1, <1>2, <1>3, <1>4, <1>5, <1>6, <1>7

LEMMA TraceCheckKeeps ==
  ASSUME NEW c
  PROVE  /\ TraceCheck(c) \cap STOPPERS = {} <=> c \cap STOPPERS = {}
         /\ tracing = "no" \/ ~DbgTmpBrk.hit => TraceCheck(c) = c
         /\ "WATCH" \in TraceCheck(c) => "WATCH" \in c
BY DEF TraceCheck, TraceEnds, STOPPERS

\* What a pass that goes on did not find.
LEMMA ContinueMeans ==
  ASSUME NEW forced \in BOOLEAN, Continue(forced)
  PROVE  /\ conditions \cap Kept = {}
         /\ "BREAK" \in conditions => how = "STEPBREAK" /\ es = "STEP_ONE"
         /\ "TRACE" \in conditions => es = "STEP_ONE"
<1>1. Digest(forced) \cap STOPPERS = {}
  BY TraceCheckKeeps DEF Continue
<1>2. "BREAK" \notin Digest(forced) /\ "TRACE" \notin Digest(forced)
  BY <1>1 DEF STOPPERS
<1>3. \A s \in Kept : s \notin Digest(forced)
  BY <1>1 DEF STOPPERS, Kept
<1> QED
  BY <1>2, <1>3, DigestKeeps
-----------------------------------------------------------------------------
(***************************************************************************)
(* Countdowns is invariant.                                                *)
(***************************************************************************)

CountOK(p) == p.initial_countdown = 0 => p.countdown = 0

LEMMA AppendCounts ==
  ASSUME TypeInv, Countdowns, NEW p, CountOK(p), BrkList' = Append(BrkList, p)
  PROVE  Countdowns'
<1>1. BrkList \in Seq(Point) /\ Len(BrkList) \in Nat
      /\ DOMAIN BrkList = 1..Len(BrkList)
  BY LenProperties DEF TypeInv, ListOK
<1>2. \A i \in DOMAIN BrkList' : \/ i \in DOMAIN BrkList /\ BrkList'[i] = BrkList[i]
                                 \/ BrkList'[i] = p
  BY <1>1
<1> QED
  BY <1>2 DEF Countdowns, CountOK

LEMMA RemoveCounts ==
  ASSUME TypeInv, Countdowns, NEW k \in DOMAIN BrkList, RemovePoint(k)
  PROVE  Countdowns'
<1>1. BrkList \in Seq(Point) /\ Len(BrkList) \in Nat
      /\ DOMAIN BrkList = 1..Len(BrkList)
  BY LenProperties DEF TypeInv, ListOK
<1>2. BrkList' = RemoveAt(BrkList, k)
  BY DEF RemovePoint
<1>3. /\ BrkList' \in Seq(Point)
      /\ Len(BrkList') = Len(BrkList) - 1
      /\ \A i \in 1..Len(BrkList) - 1 :
           BrkList'[i] = IF i < k THEN BrkList[i] ELSE BrkList[i + 1]
  BY <1>1, <1>2, RemoveAtProperties
<1>4. DOMAIN BrkList' = 1..Len(BrkList) - 1
  BY <1>3, LenProperties
<1>5. \A i \in DOMAIN BrkList' :
        \E j \in DOMAIN BrkList : BrkList'[i] = BrkList[j]
  <2> SUFFICES ASSUME NEW i \in DOMAIN BrkList'
               PROVE  \E j \in DOMAIN BrkList : BrkList'[i] = BrkList[j]
    OBVIOUS
  <2>1. i \in DOMAIN BrkList /\ i + 1 \in DOMAIN BrkList
    BY <1>1, <1>4
  <2> QED
    BY <1>3, <1>4, <2>1
<1> QED
  BY <1>5 DEF Countdowns

\* A table rewritten point by point.
LEMMA MapCounts ==
  ASSUME Countdowns, DOMAIN BrkList' = DOMAIN BrkList,
         \A i \in DOMAIN BrkList : CountOK(BrkList[i]) => CountOK(BrkList'[i])
  PROVE  Countdowns'
BY DEF Countdowns, CountOK

LEMMA EditCounts ==
  ASSUME TypeInv, Countdowns, Edit
  PROVE  Countdowns'
<1>1. ASSUME NEW p \in Point, NEW act
      PROVE  CountOK(p) => CountOK(Activated(p, act))
  BY DEF CountOK, Activated, Point
<1>2. \A i \in DOMAIN BrkList : BrkList[i] \in Point
  BY BreakOnAddr
<1>3. ASSUME NEW a \in Addr \cup {Cell}, NEW s \in Shapes, SetPoint(a, s)
      PROVE  Countdowns'
  <2> DEFINE p == [NewPoint(a, s.cond, s.count, FALSE, data) EXCEPT
                     !.active = s.active]
  <2>1. CountOK(p)
    BY DEF CountOK, NewPoint
  <2>2. BrkList' = Append(BrkList, p)
    BY <1>3 DEF SetPoint
  <2> HIDE DEF p
  <2> QED
    BY <2>1, <2>2, AppendCounts
<1>4. ASSUME NEW i \in DOMAIN BrkList, NEW act,
             BrkList' = [BrkList EXCEPT ![i] = Activated(@, act)]
      PROVE  Countdowns'
  BY <1>1, <1>2, <1>4, MapCounts
<1>5. ASSUME NEW a \in Addr, ToggleBreak(a)
      PROVE  Countdowns'
  <2>1. CASE BrkList' = Append(BrkList, NewPoint(a, FALSE, 0, FALSE, data))
    <3>1. CountOK(NewPoint(a, FALSE, 0, FALSE, data))
      BY DEF CountOK, NewPoint
    <3> QED
      BY <2>1, <3>1, AppendCounts
  <2>2. ASSUME NEW i \in At(BrkList, a)
        PROVE  i \in DOMAIN BrkList
    BY DEF At
  <2> QED
    BY <1>4, <1>5, <2>1, <2>2, RemoveCounts DEF ToggleBreak
<1>6. ASSUME NEW i \in DOMAIN BrkList, NEW b \in BOOLEAN,
             SetBPAutoDestruct(i, b)
      PROVE  Countdowns'
  <2>1. BrkList' = [BrkList EXCEPT ![i].autodestruct = b]
    BY <1>6 DEF SetBPAutoDestruct
  <2> QED
    BY <1>2, <2>1, MapCounts DEF CountOK, Point
<1>7. ASSUME NEW b \in BOOLEAN, ActAll(b)
      PROVE  Countdowns'
  BY <1>1, <1>2, <1>7, MapCounts DEF ActAll
<1>8. ASSUME BrkClearAll
      PROVE  Countdowns'
  BY <1>8 DEF BrkClearAll, Countdowns
<1>9. ASSUME UNCHANGED BrkList
      PROVE  Countdowns'
  BY <1>9 DEF Countdowns
<1> QED
  BY <1>3, <1>4, <1>5, <1>6, <1>7, <1>8, <1>9, RemoveCounts
  DEF Edit, ClearPoint, ActPoint, SetUserTmp, DropUserTmp

LEMMA CheckCounts ==
  ASSUME TypeInv, Countdowns, NEW res, NEW m, Check(res, m)
  PROVE  Countdowns'
<1>1. \A i \in DOMAIN BrkList :
        Counts(BrkList[i], res[i]) => BrkList[i].countdown # 0
  BY DEF Counts
<1>2. SamePoints
  BY CheckSame DEF SamePlaces
<1>3. \A i \in DOMAIN BrkList : CountOK(BrkList[i]) => CountOK(BrkList'[i])
  BY <1>1, <1>2, CheckSame DEF CountOK, SamePoints
<1> QED
  BY <1>2, <1>3, MapCounts DEF SamePoints

LEMMA ReportCounts ==
  ASSUME TypeInv, Countdowns, Report
  PROVE  Countdowns'
<1>1. BrkList' = [i \in DOMAIN BrkList |->
                    IF BrkList[i].watch /\ BrkList[i].hit
                      THEN [BrkList[i] EXCEPT !.val = data] ELSE BrkList[i]]
  BY DEF Report
<1>2. \A i \in DOMAIN BrkList : BrkList[i] \in Point
  BY BreakOnAddr
<1> QED
  BY <1>1, <1>2, MapCounts DEF CountOK, Point
-----------------------------------------------------------------------------
(***************************************************************************)
(* PassInv is invariant: one lemma for each action.                        *)
(***************************************************************************)

LEMMA StutterPass ==
  ASSUME LoopInv, UNCHANGED vars
  PROVE  PassInv'
<1>1. /\ UNCHANGED list
      /\ UNCHANGED <<have_task, tracing, pc, es, how, conditions, mem, ip, raised,
                     arrived, wrote, counted>>
  BY DEF vars, command, debuggee, history
<1>2. SamePlaces
  BY <1>1, UnchangedSame
<1>3. /\ \A a : TmpAt(a)' <=> TmpAt(a)
      /\ \A a : PlacedAt(a)' <=> PlacedAt(a)
      /\ NoneYields' <=> NoneYields
  BY <1>2, PlacesKept
<1>4. \A a : ActiveAt(a)' <=> ActiveAt(a)
  BY <1>2, ActiveKept DEF SamePlaces
<1>5. (OnPlaced' <=> OnPlaced) /\ (OnTmp' <=> OnTmp)
  BY <1>1, <1>3 DEF OnPlaced, OnTmp
<1>6. Planting'
  <2>1. Bytes' <=> Bytes
    BY <1>1, <1>3 DEF Bytes, Code
  <2>2. AllPlaced' <=> AllPlaced
    BY <1>3, <1>4 DEF AllPlaced
  <2>3. OthersPlaced' <=> OthersPlaced
    BY <1>1, <1>3, <1>4 DEF OthersPlaced
  <2>4. BehindIt' <=> BehindIt
    BY <1>1 DEF BehindIt, SameTmp, list
  <2> QED
    BY <1>1, <1>3, <1>5, <2>1, <2>2, <2>3, <2>4
    DEF LoopInv, PassInv, Planting, Passing, list
<1>7. Decided' /\ Caused' /\ Held' /\ BreakKey'
  BY <1>1 DEF LoopInv, PassInv, Decided, Caused, Held, BreakKey, BehindIt,
              SameTmp, list
<1>8. Leaving'
  BY <1>1, <1>5 DEF LoopInv, PassInv, Leaving, Passing, Looping, Unmoved, Code
<1>9. Ending'
  BY <1>1, <1>5 DEF LoopInv, PassInv, Ending, Fatal, list
<1>10. Due'
  BY <1>1, <1>2, <1>5, ArmedKept DEF LoopInv, PassInv, Due, SamePlaces
<1> QED
  BY <1>6, <1>7, <1>8, <1>9, <1>10 DEF PassInv

\* At the prompt nothing has happened yet that a part of PassInv is about.
LEMMA PromptPass ==
  ASSUME LoopInv, pc' \in {"prompt", "top"}, es' = "NORMAL",
         UNCHANGED <<raised, arrived, wrote, counted>>,
         pc = "prompt", pc' = "prompt" => tracing' = "no"
  PROVE  PassInv'
<1>1. /\ arrived' = "no" /\ wrote' = "no" /\ counted' = 0 /\ raised' = {}
  BY DEF LoopInv, PassInv, Held
<1>2. Caused'
  BY <1>1 DEF Caused, Conditions, STOPPERS
<1>3. Decided' /\ Planting' /\ Held' /\ Ending' /\ BreakKey' /\ Due'
  BY <1>1 DEF Decided, Planting, Passing, Held, Ending, Fatal, BreakKey, Due
<1>4. Leaving'
  BY <1>1 DEF Leaving, Passing, Looping
<1> QED
  BY <1>2, <1>3, <1>4 DEF PassInv

LEMMA EditPass ==
  ASSUME LoopInv, Edit
  PROVE  PassInv'
<1>1. /\ pc = "prompt" /\ es = "NORMAL" /\ tracing = "no"
      /\ UNCHANGED <<DbgTmpBrk, command, pc, es, how, conditions, mem, debuggee,
                     history>>
  BY DEF Edit, SetPoint, ToggleBreak, ActPoint, ActAll, ClearPoint,
         BrkClearAll, SetBPAutoDestruct, SetUserTmp, DropUserTmp, Edited,
         Editing, LoopInv, PassInv, Held
<1> QED
  BY <1>1, PromptPass DEF history, command

LEMMA CommandPass ==
  ASSUME LoopInv, Go \/ \E type \in TraceTypes : Trace(type)
  PROVE  PassInv'
<1>1. pc = "prompt" /\ pc' = "top" /\ UNCHANGED <<es, history>>
  BY DEF Go, Trace, Enter
<1>2. es = "NORMAL"
  BY <1>1 DEF LoopInv, PassInv, Held
<1> QED
  BY <1>1, <1>2, PromptPass DEF history

LEMMA TopPass ==
  ASSUME LoopInv, Top
  PROVE  PassInv'
<1>1. /\ pc = "top" /\ pc' = "insert"
      /\ UNCHANGED <<BrkList, UserTmpBrk, tracing, es, conditions, ip, raised,
                     arrived, wrote, counted>>
  BY DEF Top, command, debuggee, history
<1>2. Decided'
  <2> DEFINE decided == IF tracing = "no" /\ es # "STEP_ONE" THEN "BREAK"
                                                            ELSE TraceHow
  <2>1. how' = decided
    BY DEF Top
  <2>2. decided = "SIMULATE" => Kind[ip] = "int"
    BY DEF TraceHow, TraceOne
  <2>3. decided = "STEPBREAK" =>
          /\ Kind[ip] \in {"special"} \cup SystemCalls
          /\ ~(tracing = "no" /\ es # "STEP_ONE") /\ ~KeepsRunning
    BY DEF TraceHow, TraceOne
  <2>4. decided = "STEPBREAK" =>
          DbgTmpBrk' = [DbgTmpBrk EXCEPT !.addr = After[ip], !.active = TRUE]
    BY <2>3 DEF Top
  <2> HIDE DEF decided
  <2>5. decided = "STEPBREAK" => SameTmp(DbgTmpBrk', After[ip])
    BY <2>4 DEF SameTmp, LoopInv, MemInv, TypeInv, TypeOK, TmpPoint
  <2> QED
    BY <1>1, <2>1, <2>2, <2>3, <2>5 DEF Decided, BehindIt, SameTmp
<1>3. Planting' /\ Held' /\ Caused' /\ Ending' /\ BreakKey'
  BY <1>1 DEF LoopInv, PassInv, Planting, Passing, Held, Caused, Ending, Fatal,
              BreakKey
<1>4. Leaving'
  BY <1>1 DEF LoopInv, PassInv, Leaving, Passing, Looping
<1>5. Due'
  <2>1. Armed' = Armed
    BY <1>1 DEF Armed
  <2> QED
    BY <1>1, <2>1 DEF LoopInv, PassInv, Due
<1> QED
  BY <1>2, <1>3, <1>4, <1>5 DEF PassInv

\* The debuggee starts with what was wanted planted; a pass that steps off
\* goes to Retry instead.
LEMMA InsertPass ==
  ASSUME LoopInv, Insert
  PROVE  PassInv'
<1>1. TypeInv /\ mem = Code
  BY DEF LoopInv, MemInv, MemoryIntact, Insert
<1>2. /\ pc = "insert" /\ pc' \in {"retry", "run"}
      /\ pc' = "retry" <=> how = "BREAK" /\ AtIP(Forced)
      /\ UNCHANGED <<have_task, tracing, es, how, conditions, ip, raised,
                     arrived, wrote, counted>>
  BY DEF Insert, Forced, command, debuggee, history
<1>3. /\ SamePoints /\ SameUserTmp /\ SameDbgTmp /\ ~DbgTmpBrk'.hit
  BY <1>1, InsertSame
<1>4. /\ \A a : PlacedAt(a)' <=> WantedAt(a)
      /\ \A a : TmpAt(a)' <=> /\ SameTmp(UserTmpBrk, a) \/ SameTmp(DbgTmpBrk, a)
                              /\ Forced \/ a # ip
      /\ Bytes' /\ NoneYields'
  BY <1>1, InsertPlaces
<1>5. AtIP(Forced) <=> ActiveAt(ip) /\ ~Forced
  BY <1>1, PlantedWhere
<1>6. OnPlaced' <=> ActiveAt(ip) /\ Forced
  BY <1>2, <1>4 DEF OnPlaced, WantedAt
<1>7. Decided'
  BY <1>2 DEF LoopInv, PassInv, Decided
<1>8. Planting'
  <2>1. \A a : ActiveAt(a)' <=> ActiveAt(a)
    BY <1>3, ActiveKept
  <2>2. OthersPlaced'
    BY <1>2, <1>4, <2>1 DEF OthersPlaced, WantedAt
  <2>3. pc' = "run" /\ how = "BREAK" => AllPlaced'
    BY <1>2, <1>4, <1>5, <2>1 DEF AllPlaced, WantedAt
  <2>4. how = "STEPBREAK" => BehindIt'
    BY <1>2, <1>3 DEF LoopInv, PassInv, Decided, BehindIt, SameTmp, SameDbgTmp
  <2> QED
    BY <1>2, <1>3, <1>4, <2>2, <2>3, <2>4 DEF Planting, Passing
<1>9. Held' /\ Caused' /\ Ending' /\ BreakKey'
  BY <1>2 DEF LoopInv, PassInv, Held, Caused, Ending, Fatal, BreakKey
<1>10. Leaving'
  BY <1>2, <1>6 DEF LoopInv, PassInv, Leaving, Passing, Looping, Unmoved, Forced
<1>11. Due'
  <2>1. Armed' = Armed
    BY <1>3, ArmedKept
  <2>2. ip \in Armed => ActiveAt(ip)
    BY DEF Armed, ActiveAt, SameTmp, Plain
  <2> QED
    BY <1>2, <1>5, <1>6, <2>1, <2>2 DEF LoopInv, PassInv, Due, Forced
<1> QED
  BY <1>7, <1>8, <1>9, <1>10, <1>11 DEF PassInv
LEMMA RetryPass ==
  ASSUME LoopInv, Retry
  PROVE  PassInv'
<1>1. /\ pc = "retry" /\ pc' = "top" /\ es' = "STEP_ONE"
      /\ UNCHANGED <<UserTmpBrk, DbgTmpBrk, ip, raised, arrived, wrote, counted>>
  BY DEF Retry, debuggee, history
<1>2. Armed' = Armed
  <2>1. SamePoints /\ SameUserTmp
    BY RemoveSame DEF Retry, LoopInv, MemInv, SamePlaces
  <2> QED
    BY <2>1, ArmedKept
<1>3. Decided' /\ Planting' /\ Held' /\ Caused' /\ Ending' /\ BreakKey'
  BY <1>1 DEF LoopInv, PassInv, Decided, Planting, Passing, Held, Caused,
              Ending, Fatal, BreakKey
<1>4. Leaving' /\ Due'
  BY <1>1, <1>2 DEF LoopInv, PassInv, Leaving, Passing, Looping, Due
<1> QED
  BY <1>3, <1>4 DEF PassInv

\* The debuggee returns without having moved.
LEMMA ReturnPass ==
  ASSUME LoopInv, NEW c \in Conditions, Return({c}),
         UNCHANGED <<debuggee, arrived, wrote, counted>>,
         c \in {"TERMINATE", "EXCEPTION"} => ~OnPlaced,
         \/ Kind[ip] = "int" \/ OnPlaced
         \/ c \in {"USER", "TERMINATE", "EXCEPTION"}
         \/ c = "BREAK" /\ Code[ip] = "CC"
  PROVE  PassInv'
<1>1. /\ pc = "run" /\ pc' = "stopped" /\ conditions' = {c} /\ raised' = {c}
      /\ UNCHANGED <<list, have_task, tracing, es, how, mem, ip, arrived, wrote,
                     counted>>
  BY DEF Return, Running, command, debuggee
<1>2. SamePlaces
  BY <1>1, UnchangedSame
<1>3. (OnPlaced' <=> OnPlaced) /\ (NoneYields' <=> NoneYields)
  BY <1>1, <1>2, PlacesKept DEF OnPlaced
<1>4. Decided' /\ Caused' /\ Held' /\ BreakKey'
  BY <1>1 DEF Decided, Caused, Held, BreakKey
<1>5. Planting'
  BY <1>1, <1>3 DEF LoopInv, PassInv, Planting, Passing, list
<1>6. Ending'
  BY <1>1, <1>3 DEF Ending, Fatal
<1>7. Leaving'
  <2>1. Code' = Code
    BY DEF Code
  <2> QED
    BY <1>1, <1>3, <2>1 DEF LoopInv, PassInv, Leaving, Passing, Looping, Unmoved
<1>8. Due'
  BY <1>1, <1>2, <1>3, ArmedKept DEF LoopInv, PassInv, Due, SamePlaces
<1> QED
  BY <1>4, <1>5, <1>6, <1>7, <1>8 DEF PassInv

\* The byte under the instruction pointer says whether it is a breakpoint's.
LEMMA ByteAtIP ==
  ASSUME LoopInv, pc = "run"
  PROVE  mem[ip] = "CC" <=> OnPlaced \/ Code[ip] = "CC"
BY DEF LoopInv, MemInv, TypeInv, TypeOK, PassInv, Planting, Bytes, OnPlaced

LEMMA ReturnsPass ==
  ASSUME LoopInv, HitBreak \/ Fail \/ Simulate \/ Interrupt
  PROVE  PassInv'
<1>1. {"BREAK", "TERMINATE", "EXCEPTION", "TRACE", "USER"} \subseteq Conditions
  BY DEF Conditions, STOPPERS
<1>2. CASE HitBreak
  <2>1. OnPlaced \/ Code[ip] = "CC"
    BY <1>2, ByteAtIP DEF HitBreak, Return, Running
  <2> QED
    BY <1>1, <1>2, <2>1, ReturnPass DEF HitBreak
<1>3. CASE Fail
  <2>1. ~OnPlaced
    BY <1>3, ByteAtIP DEF Fail, Return, Running
  <2> QED
    BY <1>1, <1>3, <2>1, ReturnPass DEF Fail
<1>4. CASE Simulate
  <2>1. Kind[ip] = "int"
    BY <1>4 DEF Simulate, Return, Running, LoopInv, PassInv, Decided
  <2> QED
    BY <1>1, <1>4, <2>1, ReturnPass DEF Simulate
<1>5. CASE Interrupt
  BY <1>1, <1>5, ReturnPass DEF Interrupt
<1> QED
  BY <1>2, <1>3, <1>4, <1>5

\* An instruction that is run to the debugger's breakpoint behind it gets
\* there, and that breakpoint is in place.
LEMMA BehindPlaced ==
  ASSUME LoopInv, pc = "run", how = "STEPBREAK", Executable,
         NEW next \in Succ[ip]
  PROVE  TmpAt(next)
<1>1. ip \in Addr /\ After[ip] \in Addr /\ Succ[ip] \subseteq Addr
  BY ProgramAssumption DEF LoopInv, MemInv, TypeInv, TypeOK
<1>2. ~OnPlaced
  BY ByteAtIP DEF Executable
<1>3. BehindIt /\ OthersPlaced /\ NoneYields
  BY <1>2 DEF LoopInv, PassInv, Planting, Passing, OnPlaced, OnTmp, PlacedAt
<1>4. next = After[ip] /\ next # ip
  <2>1. Kind[ip] \in {"special", "load", "say"}
    BY <1>3 DEF BehindIt, SystemCalls, Executable
  <2>2. After[ip] # ip /\ Succ[ip] \subseteq {After[ip]}
    BY <1>1, <2>1, StepperAssumption
  <2> QED
    BY <2>2
<1>5. SameTmp(DbgTmpBrk, next)
  BY <1>3, <1>4 DEF BehindIt
<1>6. PlacedAt(next)
  BY <1>1, <1>3, <1>4, <1>5 DEF OthersPlaced, ActiveAt
<1>7. \A i \in InPlaceAt(next) : FALSE
  BY <1>3, <1>5 DEF InPlaceAt, NoneYields, Yields
<1> QED
  BY <1>6, <1>7 DEF PlacedAt

\* Where the next instruction is wanted stopped, there is a breakpoint, or the
\* run ends as a single step.
LEMMA ExecutedInto ==
  ASSUME LoopInv, NEW next \in Addr, NEW v, Execute(next, v)
  PROVE  /\ next \in Armed /\ how # "STEP" => PlacedAt(next)
         /\ how = "STEPBREAK" => TmpAt(next)
<1>1. /\ pc = "run" /\ Executable /\ how # "SIMULATE" /\ next \in Succ[ip]
  BY DEF Execute, Running
<1>2. how = "STEPBREAK" => TmpAt(next)
  BY <1>1, BehindPlaced
<1>3. next \in Armed => ActiveAt(next)
  BY DEF Armed, ActiveAt, SameTmp, Plain
<1>4. how = "BREAK" => AllPlaced
  BY <1>1 DEF LoopInv, PassInv, Planting
<1>5. how \in {"STEP", "BREAK", "STEPBREAK", "SIMULATE"}
  BY DEF LoopInv, MemInv, TypeInv, TypeOK
<1> QED
  BY <1>1, <1>2, <1>3, <1>4, <1>5 DEF AllPlaced, PlacedAt

LEMMA ExecutePass ==
  ASSUME LoopInv, NEW next \in Addr, NEW v \in Values, Execute(next, v)
  PROVE  PassInv'
<1>1. /\ pc = "run" /\ how # "SIMULATE" /\ ip' = next
      /\ arrived' = "executed" /\ counted' = 0
      /\ UNCHANGED <<list, have_task, tracing, es, how, mem>>
  BY DEF Execute, Executed, Running, Return, command
<1>2. \/ /\ Outcome # {} /\ pc' = "stopped"
         /\ conditions' = Outcome /\ raised' = Outcome
      \/ Outcome = {} /\ pc' = "run" /\ UNCHANGED <<conditions, raised>>
  BY DEF Execute, Return, Running
<1>3. /\ \E c \in Conditions : Outcome \subseteq {c}
      /\ how = "STEP" => Outcome = {"TRACE"}
      /\ Outcome \cap {"TERMINATE", "EXCEPTION"} = {}
  BY DEF Outcome, Conditions, STOPPERS
<1>4. SamePlaces
  BY <1>1, UnchangedSame
<1>5. /\ \A a : TmpAt(a)' <=> TmpAt(a)
      /\ \A a : PlacedAt(a)' <=> PlacedAt(a)
      /\ NoneYields' <=> NoneYields
  BY <1>4, PlacesKept
<1>6. \A a : ActiveAt(a)' <=> ActiveAt(a)
  BY <1>4, ActiveKept DEF SamePlaces
<1>7. (OnTmp' <=> TmpAt(next)) /\ (OnPlaced' <=> PlacedAt(next))
  BY <1>1, <1>5 DEF OnTmp, OnPlaced
<1>8. Planting'
  <2>1. Bytes'
    BY <1>1, <1>5 DEF LoopInv, PassInv, Planting, Bytes, Code
  <2>2. how = "BREAK" => AllPlaced'
    BY <1>1, <1>5, <1>6 DEF LoopInv, PassInv, Planting, AllPlaced
  <2>3. how = "STEPBREAK" => OnTmp'
    BY <1>7, ExecutedInto
  <2>4. NoneYields' /\ ~DbgTmpBrk'.hit
    BY <1>1, <1>5 DEF LoopInv, PassInv, Planting, Passing, list
  <2> QED
    BY <1>1, <2>1, <2>2, <2>3, <2>4 DEF Planting, Passing
<1>9. Decided' /\ Held' /\ BreakKey'
  BY <1>1, <1>2 DEF Decided, Held, BreakKey
<1>10. Caused'
  BY <1>2, <1>3 DEF LoopInv, PassInv, Caused
<1>11. Leaving'
  BY <1>1, <1>2 DEF Leaving, Passing, Looping, Unmoved
<1>12. Ending'
  BY <1>1, <1>2, <1>3 DEF LoopInv, PassInv, Ending, Fatal
<1>13. Due'
  <2>1. Armed' = Armed
    BY <1>4, ArmedKept DEF SamePlaces
  <2>2. next \in Armed /\ how # "STEP" => PlacedAt(next)
    BY ExecutedInto
  <2> QED
    BY <1>1, <1>2, <1>3, <1>7, <2>1, <2>2 DEF Due
<1> QED
  BY <1>8, <1>9, <1>10, <1>11, <1>12, <1>13 DEF PassInv
LEMMA EndRunPass ==
  ASSUME LoopInv, NEW m \in BOOLEAN, NEW stop \in BOOLEAN, EndRun(m, stop)
  PROVE  PassInv'
<1>1. /\ pc = "stopped" /\ pc' = "check"
      /\ UNCHANGED <<UserTmpBrk, DbgTmpBrk, have_task, tracing, es, how, ip,
                     raised, arrived, wrote, counted>>
  BY DEF EndRun, command, debuggee, history
<1>2. SamePlaces
  BY RemoveSame DEF EndRun, LoopInv, MemInv
<1>3. (OnPlaced' <=> OnPlaced) /\ (NoneYields' <=> NoneYields)
  BY <1>1, <1>2, PlacesKept DEF OnPlaced
<1>4. Decided' /\ Held' /\ BreakKey'
  BY <1>1 DEF Decided, Held, BreakKey
<1>5. Planting'
  BY <1>1, <1>3 DEF LoopInv, PassInv, Planting, Passing
<1>6. Caused'
  <2>1. conditions = raised
    BY <1>1 DEF LoopInv, PassInv, Caused
  <2>2. conditions' \subseteq raised \cup {"STOP"}
    BY <2>1 DEF EndRun
  <2>3. "MESSAGE" \notin raised => conditions' = raised
    BY <2>1 DEF EndRun
  <2> QED
    BY <1>1, <2>2, <2>3 DEF LoopInv, PassInv, Caused
<1>7. Ending'
  BY <1>1, <1>3 DEF LoopInv, PassInv, Ending, Fatal
<1>8. Leaving'
  <2>1. Code' = Code
    BY DEF Code
  <2> QED
    BY <1>1, <1>3, <2>1 DEF LoopInv, PassInv, Leaving, Passing, Looping, Unmoved
<1>9. Due'
  BY <1>1, <1>2, <1>3, ArmedKept DEF LoopInv, PassInv, Due, SamePlaces
<1> QED
  BY <1>4, <1>5, <1>6, <1>7, <1>8, <1>9 DEF PassInv

\* The end of the program, and the break key, in what CheckBPs returns.
LEMMA CheckEnding ==
  ASSUME LoopInv, NEW res \in Results, NEW m \in BOOLEAN, Check(res, m)
  PROVE  Ending' /\ BreakKey'
<1>1. /\ pc = "check" /\ pc' = "decide" /\ conditions' = Verdict(res, m)
      /\ DbgTmpBrk' = CheckTmp(DbgTmpBrk) /\ raised' = raised
  BY DEF Check
<1>2. /\ \E c \in Conditions : raised \subseteq {c}
      /\ "MESSAGE" \notin raised => conditions = raised
  BY <1>1 DEF LoopInv, PassInv, Caused
<1>3. Ending'
  <2> SUFFICES ASSUME Fatal PROVE Ending'
    BY <1>1 DEF Ending, Fatal
  <2>1. conditions = raised /\ raised \in {{"TERMINATE"}, {"EXCEPTION"}}
    BY <1>2 DEF Fatal
  <2>2. ~OnPlaced /\ ~DbgTmpBrk.hit
    BY <1>1 DEF LoopInv, PassInv, Ending, Planting, Passing
  <2>3. ~BreakHit(res)
    BY <2>2, HitIsPlaced
  <2>4. ~DbgTmpBrk'.hit
    <3>1. ~HaveHitBP(DbgTmpBrk)
      BY <2>3 DEF BreakHit
    <3> QED
      BY <1>1, <2>2, <3>1
      DEF CheckTmp, LoopInv, MemInv, TypeInv, TypeOK, TmpPoint
  <2>5. CASE WatchpointHit(res)
    <3>1. conditions' = {"WATCH"}
      BY <1>1, <2>1, <2>3, <2>5, VerdictIs DEF STOPPERS
    <3>2. PICK i \in DOMAIN BrkList : BrkList[i].watch /\ Stops(BrkList[i], res[i])
      BY <2>5 DEF WatchpointHit
    <3>3. /\ i \in DOMAIN BrkList' /\ BrkList'[i].watch /\ BrkList'[i].hit
      BY <3>2, CheckSame DEF LoopInv, MemInv, SamePlaces, SamePoints
    <3> QED
      BY <1>1, <2>4, <3>1, <3>3 DEF Ending
  <2>6. CASE ~WatchpointHit(res)
    <3>1. ~SkipsOwnBreak(res)
      BY <2>1 DEF SkipsOwnBreak
    <3>2. conditions' = raised'
      BY <1>1, <2>1, <2>3, <2>6, <3>1, VerdictIs
    <3> QED
      BY <1>1, <2>4, <3>2 DEF Ending
  <2> QED
    BY <2>5, <2>6
<1>4. BreakKey'
  <2> SUFFICES ASSUME "USER" \in raised
               PROVE  conditions' \in {{"USER"}, {"BREAK"}, {"WATCH"}}
    BY <1>1 DEF BreakKey
  <2>1. conditions = {"USER"}
    BY <1>2
  <2>2. ~SkipsOwnBreak(res)
    BY <2>1 DEF SkipsOwnBreak
  <2> QED
    BY <1>1, <2>1, <2>2, VerdictIs DEF STOPPERS
<1> QED
  BY <1>3, <1>4

\* A debuggee that has not moved is not found at a breakpoint it was to leave.
LEMMA CheckLeaving ==
  ASSUME LoopInv, NEW res \in Results, NEW m \in BOOLEAN, Check(res, m)
  PROVE  Leaving'
<1>1. /\ pc = "check" /\ pc' = "decide" /\ conditions' = Verdict(res, m)
      /\ UNCHANGED <<es, tracing>>
      /\ IF SkipsOwnBreak(res)
           THEN arrived' = "skipped" /\ counted' = 0
           ELSE UNCHANGED <<ip, arrived>>
      /\ counted' \in {0, counted, counted + 1}
  BY DEF Check, command
<1>2. /\ \E c \in Conditions : raised \subseteq {c}
      /\ "MESSAGE" \notin raised => conditions = raised
  BY <1>1 DEF LoopInv, PassInv, Caused
<1>3. counted \in 0..3 /\ ip \in Addr /\ mem = Code
  BY <1>1 DEF LoopInv, MemInv, TypeInv, TypeOK, MemoryIntact
<1>4. Unmoved /\ es # "FORCE_BREAK" => ~BreakHit(res)
  BY <1>1, HitIsPlaced DEF LoopInv, PassInv, Leaving, Passing
<1>5. ASSUME es = "STEP_ONE", Kind[ip]' # "int", arrived' = "no" \/ counted' > 1
      PROVE  conditions' \cap Kept # {}
  <2>1. ~SkipsOwnBreak(res) /\ ip' = ip /\ arrived' = arrived
    BY <1>1, <1>5
  <2>2. Unmoved
    BY <1>1, <1>3, <1>5, <2>1 DEF Unmoved
  <2>3. ~BreakHit(res)
    BY <1>4, <1>5, <2>2
  <2>4. \/ raised \subseteq {"USER", "TERMINATE", "EXCEPTION"} /\ raised # {}
        \/ raised = {"BREAK"} /\ Code[ip] = "CC"
    BY <1>1, <1>5, <2>1, <2>2 DEF LoopInv, PassInv, Leaving
  <2>5. conditions = raised
    BY <1>2, <2>4
  <2>6. CASE WatchpointHit(res)
    BY <1>1, <2>3, <2>6, VerdictIs DEF Kept
  <2>7. CASE ~WatchpointHit(res)
    <3>1. "BREAK" \notin conditions
      BY <1>3, <2>1, <2>3, <2>4, <2>5, <2>7 DEF SkipsOwnBreak, OwnBreak
    <3>2. raised \in {{"USER"}, {"TERMINATE"}, {"EXCEPTION"}}
      BY <1>2, <2>4, <2>5, <3>1
    <3>3. conditions' = conditions
      BY <1>1, <2>1, <2>3, <2>5, <2>7, <3>2, VerdictIs
    <3> QED
      BY <2>5, <3>2, <3>3 DEF Kept
  <2> QED
    BY <2>6, <2>7
<1>6. ASSUME tracing = "no", arrived' = "no", Kind[ip]' # "int"
      PROVE  es # "FORCE_BREAK" /\ "BREAK" \notin conditions'
  <2>1. ~SkipsOwnBreak(res) /\ ip' = ip /\ arrived = "no"
    BY <1>1, <1>6
  <2>2. es # "FORCE_BREAK"
    BY <1>1, <1>6, <2>1 DEF LoopInv, PassInv, Leaving, Looping
  <2>3. ~BreakHit(res)
    BY <1>4, <2>1, <2>2 DEF Unmoved
  <2>4. \/ Verdict(res, m) = (conditions \ STOPPERS) \cup {"WATCH"}
        \/ Verdict(res, m) = conditions \ STOPPERS
        \/ Verdict(res, m) = conditions /\ conditions \cap {"BREAK", "WATCH"} = {}
    BY <2>1, <2>3, VerdictIs
  <2>5. "BREAK" \notin Verdict(res, m)
    BY <2>4 DEF STOPPERS
  <2> QED
    BY <1>1, <2>2, <2>5
<1> QED
  BY <1>1, <1>5, <1>6 DEF Leaving, Passing, Kept

LEMMA CheckPass ==
  ASSUME LoopInv, NEW res \in Results, NEW m \in BOOLEAN, Check(res, m)
  PROVE  PassInv'
<1>1. /\ pc = "check" /\ pc' = "decide" /\ conditions' = Verdict(res, m)
      /\ raised' = raised
      /\ ~SkipsOwnBreak(res) => UNCHANGED <<ip, arrived>>
      /\ SkipsOwnBreak(res) => arrived' = "skipped"
  BY DEF Check
<1>2. Decided' /\ Planting' /\ Held'
  BY <1>1 DEF Decided, Planting, Passing, Held
<1>3. Caused'
  BY <1>1 DEF LoopInv, PassInv, Caused
<1>4. Due'
  <2> SUFFICES ASSUME arrived' = "executed", ip' \in Armed'
               PROVE  conditions' \cap {"BREAK", "WATCH", "TRACE"} # {}
    BY <1>1 DEF Due
  <2>1. ~SkipsOwnBreak(res) /\ ip' = ip /\ arrived = "executed"
    BY <1>1
  <2>2. ip \in Armed
    BY <2>1, CheckSame, ArmedKept DEF LoopInv, MemInv, SamePlaces
  <2>3. OnPlaced \/ raised = {"TRACE"}
    BY <1>1, <2>1, <2>2 DEF LoopInv, PassInv, Due
  <2>4. CASE BreakHit(res) \/ WatchpointHit(res)
    BY <1>1, <2>4, VerdictIs
  <2>5. CASE ~BreakHit(res) /\ ~WatchpointHit(res)
    <3>1. NoneYields
      BY <1>1 DEF LoopInv, PassInv, Planting, Passing
    <3>2. ~OnPlaced
      BY <2>2, <2>5, <3>1, ArmedStops DEF LoopInv, MemInv
    <3>3. conditions = {"TRACE"}
      BY <1>1, <2>3, <3>2 DEF LoopInv, PassInv, Caused
    <3>4. conditions' = conditions
      BY <1>1, <2>1, <2>5, <3>3, VerdictIs
    <3> QED
      BY <3>3, <3>4
  <2> QED
    BY <2>4, <2>5
<1> QED
  BY <1>2, <1>3, <1>4, CheckEnding, CheckLeaving DEF PassInv
\* A pass is left for another one only when nothing was found that stops.
LEMMA ContinuePass ==
  ASSUME LoopInv, NEW forced \in BOOLEAN, Continue(forced)
  PROVE  PassInv'
<1>1. /\ pc = "decide" /\ pc' = "top" /\ es' = NextState
      /\ UNCHANGED <<BrkList, UserTmpBrk, tracing, conditions, ip, raised,
                     arrived, wrote, counted>>
  BY DEF Continue, command, debuggee, history
<1>2. /\ conditions \cap Kept = {}
      /\ "BREAK" \in conditions => es = "STEP_ONE"
      /\ "TRACE" \in conditions => es = "STEP_ONE"
  BY ContinueMeans
<1>3. es' = "FORCE_BREAK" <=> es = "STEP_ONE"
  BY <1>1 DEF NextState
<1>4. Decided' /\ Planting' /\ Held' /\ Caused' /\ BreakKey'
  BY <1>1 DEF LoopInv, PassInv, Decided, Planting, Passing, Held, Caused,
              BreakKey
<1>5. Ending'
  <2>1. ~Fatal
    <3>1. Fatal => conditions = raised \/ conditions = {"WATCH"}
      BY <1>1 DEF LoopInv, PassInv, Ending
    <3> QED
      BY <1>2, <3>1 DEF Fatal, Kept
  <2> QED
    BY <1>1, <2>1 DEF Ending, Fatal
<1>6. Leaving'
  <2>1. counted \in 0..3
    BY DEF LoopInv, MemInv, TypeInv, TypeOK
  <2>2. es = "STEP_ONE" /\ Kind[ip] # "int" => ~(arrived = "no" \/ counted > 1)
    BY <1>1, <1>2 DEF LoopInv, PassInv, Leaving, Kept
  <2>3. es = "STEP_ONE" /\ Kind[ip] # "int" => arrived # "no" /\ counted \in {0, 1}
    BY <2>1, <2>2
  <2> QED
    BY <1>1, <1>3, <2>3 DEF Leaving, Passing, Looping
<1>7. Due'
  <2>1. Armed' = Armed
    BY <1>1 DEF Armed
  <2> QED
    BY <1>1, <1>2, <1>3, <2>1 DEF LoopInv, PassInv, Due, Kept
<1> QED
  BY <1>4, <1>5, <1>6, <1>7 DEF PassInv

LEMMA StopPass ==
  ASSUME LoopInv, NEW forced \in BOOLEAN, NEW user \in BOOLEAN,
         Stop(forced, user)
  PROVE  PassInv'
<1> DEFINE c == TraceCheck(Digest(forced))
<1>1. /\ pc = "decide" /\ pc' = "report"
      /\ user <=> c \cap STOPPERS = {}
      /\ conditions' = IF user THEN c \cup {"USER"} ELSE c
      /\ UNCHANGED <<BrkList, tracing, ip, raised, arrived, wrote, counted>>
  BY DEF Stop, command, debuggee, history
<1>2. tracing = "no" \/ ~DbgTmpBrk.hit => c = Digest(forced)
  BY TraceCheckKeeps
<1> HIDE DEF c
<1>3. Decided' /\ Planting' /\ Held' /\ Caused' /\ BreakKey' /\ Due'
  BY <1>1 DEF LoopInv, PassInv, Decided, Planting, Passing, Held, Caused,
              BreakKey, Due
<1>4. Ending'
  <2> SUFFICES ASSUME Fatal PROVE Ending'
    BY <1>1 DEF Ending, Fatal
  <2>1. /\ ~DbgTmpBrk.hit
        /\ \/ conditions = raised
           \/ /\ conditions = {"WATCH"}
              /\ \E i \in DOMAIN BrkList : BrkList[i].watch /\ BrkList[i].hit
    BY <1>1 DEF LoopInv, PassInv, Ending
  <2>2. \E x \in Conditions : raised \subseteq {x}
    BY DEF LoopInv, PassInv, Caused
  <2>3. \E s \in Kept : conditions = {s}
    BY <2>1, <2>2 DEF Fatal, Kept
  <2>4. c = conditions
    BY <1>2, <2>1, <2>3, DigestKeeps
  <2>5. conditions' = conditions
    BY <1>1, <2>3, <2>4 DEF Kept, STOPPERS
  <2> QED
    BY <1>1, <2>1, <2>5 DEF Ending
<1>5. Leaving'
  <2>1. tracing = "no" /\ arrived = "no" /\ Kind[ip] # "int" =>
          "BREAK" \notin conditions
    BY <1>1 DEF LoopInv, PassInv, Leaving
  <2>2. "BREAK" \in Digest(forced) => "BREAK" \in conditions
    BY DigestKeeps
  <2> QED
    BY <1>1, <1>2, <2>1, <2>2 DEF Leaving, Passing, Looping
<1> QED
  BY <1>3, <1>4, <1>5 DEF PassInv

LEMMA ReportPass ==
  ASSUME LoopInv, Report
  PROVE  PassInv'
<1>1. /\ pc = "report" /\ pc' = "destruct"
      /\ have_task' => ~("TERMINATE" \in conditions /\ "USER" \notin conditions)
      /\ arrived' = "no" /\ wrote' = "no" /\ counted' = 0
      /\ UNCHANGED <<conditions, raised>>
  BY DEF Report
<1>2. \E x \in Conditions : raised \subseteq {x}
  BY DEF LoopInv, PassInv, Caused
<1>3. Ending'
  <2>1. ASSUME "TERMINATE" \in raised, have_task'
        PROVE  "WATCH" \in conditions
    <3>1. conditions = raised \/ conditions = {"WATCH"}
      BY <1>1, <2>1 DEF LoopInv, PassInv, Ending, Fatal
    <3>2. raised = {"TERMINATE"}
      BY <1>2, <2>1
    <3> QED
      BY <1>1, <2>1, <3>1, <3>2
  <2> QED
    BY <1>1, <2>1 DEF Ending, Fatal
<1>4. Decided' /\ Planting' /\ Held' /\ BreakKey' /\ Due'
  BY <1>1 DEF Decided, Planting, Passing, Held, BreakKey, Due
<1>5. Caused' /\ Leaving'
  BY <1>1, <1>2 DEF Caused, Leaving, Passing, Looping
<1> QED
  BY <1>3, <1>4, <1>5 DEF PassInv

LEMMA DestructPass ==
  ASSUME LoopInv, Destruct
  PROVE  PassInv'
<1>1. /\ pc = "destruct"
      /\ UNCHANGED <<have_task, tracing, pc, es, how, conditions, ip, raised,
                     arrived, wrote, counted>>
  BY DEF Destruct, command, debuggee, history
<1>2. Decided' /\ Planting' /\ Held' /\ Caused' /\ BreakKey'
  BY <1>1 DEF LoopInv, PassInv, Decided, Planting, Passing, Held, Caused,
              BreakKey
<1>3. Ending' /\ Leaving'
  BY <1>1 DEF LoopInv, PassInv, Ending, Fatal, Leaving, Passing, Looping
<1>4. Due'
  BY <1>1 DEF LoopInv, PassInv, Held, Due
<1> QED
  BY <1>2, <1>3, <1>4 DEF PassInv

LEMMA PromptedPass ==
  ASSUME LoopInv, Prompt
  PROVE  PassInv'
<1>1. /\ pc = "destruct" /\ pc' = "prompt" /\ es' = "NORMAL"
      /\ tracing' = "no" /\ raised' = {}
      /\ UNCHANGED <<arrived, wrote, counted>>
  BY DEF Prompt
<1>2. arrived' = "no" /\ wrote' = "no" /\ counted' = 0
  BY <1>1 DEF LoopInv, PassInv, Held
<1>3. Caused'
  BY <1>1 DEF Caused, Conditions, STOPPERS
<1>4. Decided' /\ Planting' /\ Held' /\ BreakKey' /\ Due' /\ Ending' /\ Leaving'
  BY <1>1, <1>2 DEF Decided, Planting, Passing, Held, BreakKey, Due, Ending,
                    Fatal, Leaving, Looping
<1> QED
  BY <1>3, <1>4 DEF PassInv

-----------------------------------------------------------------------------

LEMMA InitLoopInv == Init => LoopInv
<1> SUFFICES ASSUME Init PROVE LoopInv
  OBVIOUS
<1>1. /\ BrkList = <<>> /\ pc = "prompt" /\ es = "NORMAL" /\ tracing = "no"
      /\ raised = {} /\ arrived = "no" /\ wrote = "no" /\ counted = 0
      /\ mem = Code
  BY DEF Init
<1>2. MemInv
  BY <1>1, InitTypeInv DEF MemInv, MemoryIntact
<1>3. Countdowns
  BY <1>1 DEF Countdowns
<1>4. Caused
  BY <1>1 DEF Caused, Conditions, STOPPERS
<1>5. Decided /\ Planting /\ Held /\ BreakKey /\ Due /\ Ending /\ Leaving
  BY <1>1 DEF Decided, Planting, Passing, Held, BreakKey, Due, Ending, Fatal,
              Leaving, Looping
<1> QED
  BY <1>2, <1>3, <1>4, <1>5 DEF LoopInv, PassInv

LEMMA NextCountdowns == LoopInv /\ [Next]_vars => Countdowns'
<1> SUFFICES ASSUME LoopInv, [Next]_vars PROVE Countdowns'
  OBVIOUS
<1>1. TypeInv /\ Countdowns
  BY DEF LoopInv, MemInv
<1>2. CASE UNCHANGED BrkList
  BY <1>1, <1>2 DEF Countdowns
<1>3. CASE Retry \/ \E m, stop \in BOOLEAN : EndRun(m, stop)
  <2>1. /\ SamePoints
        /\ \A i \in DOMAIN BrkList : BrkList'[i].countdown = BrkList[i].countdown
    BY <1>1, <1>3, RemoveSame DEF Retry, EndRun, SamePlaces
  <2> QED
    BY <1>1, <2>1, MapCounts DEF SamePoints, CountOK
<1>4. CASE Insert
  <2>1. /\ SamePoints
        /\ \A i \in DOMAIN BrkList : BrkList'[i].countdown = BrkList[i].countdown
    BY <1>1, <1>4, InsertSame
  <2> QED
    BY <1>1, <2>1, MapCounts DEF SamePoints, CountOK
<1>5. CASE Destruct
  <2>1. PICK i \in Autodestruct : RemovePoint(i)
    BY <1>5 DEF Destruct
  <2> QED
    BY <1>1, <2>1, RemoveCounts DEF Autodestruct
<1>6. CASE \E res \in Results, m \in BOOLEAN : Check(res, m)
  BY <1>1, <1>6, CheckCounts
<1>7. CASE Edit \/ Report
  BY <1>1, <1>7, EditCounts, ReportCounts
<1>8. CASE Debuggee \/ Interrupt
  BY <1>2, <1>8 DEF Debuggee, HitBreak, Execute, Fail, Simulate, Interrupt,
                    Return, list
<1>9. CASE \/ UNCHANGED vars \/ Go \/ \E type \in TraceTypes : Trace(type)
           \/ Top \/ Prompt
           \/ \E forced \in BOOLEAN :
                \/ Continue(forced)
                \/ \E user \in BOOLEAN : Stop(forced, user)
  BY <1>2, <1>9 DEF vars, list, Go, Trace, Enter, Top, Prompt, Continue, Stop
<1> QED
  BY <1>3, <1>4, <1>5, <1>6, <1>7, <1>8, <1>9 DEF Next, Debugger

LEMMA NextPassInv == LoopInv /\ [Next]_vars => PassInv'
<1> SUFFICES ASSUME LoopInv, [Next]_vars PROVE PassInv'
  OBVIOUS
<1>1. CASE Debuggee \/ Interrupt
  BY <1>1, ReturnsPass, ExecutePass DEF Debuggee
<1>2. CASE \E res \in Results, m \in BOOLEAN : Check(res, m)
  BY <1>2, CheckPass
<1>3. CASE \E m, stop \in BOOLEAN : EndRun(m, stop)
  BY <1>3, EndRunPass
<1>4. CASE \E forced \in BOOLEAN : \/ Continue(forced)
                                   \/ \E user \in BOOLEAN : Stop(forced, user)
  BY <1>4, ContinuePass, StopPass
<1>5. CASE Top \/ Insert \/ Retry \/ Report \/ Destruct \/ Prompt
  BY <1>5, TopPass, InsertPass, RetryPass, ReportPass, DestructPass,
     PromptedPass
<1> QED
  BY <1>1, <1>2, <1>3, <1>4, <1>5, StutterPass, EditPass, CommandPass
  DEF Next, Debugger

LEMMA LoopInvariant == Spec => []LoopInv
<1>1. LoopInv /\ [Next]_vars => LoopInv'
  BY NextMemInv, NextCountdowns, NextPassInv DEF LoopInv
<1> QED
  BY InitLoopInv, <1>1, PTL DEF Spec
-----------------------------------------------------------------------------
(***************************************************************************)
(* What follows from LoopInv.                                              *)
(***************************************************************************)

\* The end of the program and an exception reach the user in place of another
\* run, unless a watchpoint that counts as hit is reported instead
\* (CheckBPs, dbgbrk.c:1739-1770, and the loop of dbgexec.c:366-511).
THEOREM EndIsReported == Spec => []FatalReported
<1>1. LoopInv => FatalReported
  BY DEF LoopInv, PassInv, Ending, Fatal, FatalReported
<1> QED
  BY <1>1, LoopInvariant, PTL

\* A go never reports the breakpoint it was started from (the STEP_ONE pass
\* of dbgexec.c:385-402): its BREAK is one the debuggee moved to.
THEOREM GoLeaves == Spec => []GoLeavesBreakpoint
<1>1. LoopInv => GoLeavesBreakpoint
  BY DEF LoopInv, PassInv, Leaving, GoLeavesBreakpoint
<1> QED
  BY <1>1, LoopInvariant, PTL

LEMMA CountingStep ==
  ASSUME LoopInv, [Next]_vars, counted' = counted + 1, Kind[ip] # "int"
  PROVE  counted = 0 \/ (counted = 1 /\ es = "FORCE_BREAK")
<1>1. counted \in 0..3
  BY DEF LoopInv, MemInv, TypeInv, TypeOK
<1>2. ~(counted' \in {0, counted})
  BY <1>1
<1>3. PICK res \in Results, m \in BOOLEAN : Check(res, m)
  <2>1. CASE Debuggee \/ Interrupt
    BY <1>2, <2>1 DEF Debuggee, HitBreak, Execute, Executed, Fail, Simulate,
                      Interrupt
  <2>2. CASE Edit
    BY <1>2, <2>2 DEF Edit, SetPoint, ToggleBreak, ActPoint, ActAll,
      ClearPoint, BrkClearAll, SetBPAutoDestruct, SetUserTmp, DropUserTmp,
      Edited, history
  <2>3. CASE \/ UNCHANGED vars \/ Go \/ \E type \in TraceTypes : Trace(type)
             \/ Top \/ Insert \/ Retry \/ Report \/ Destruct \/ Prompt
             \/ \E m, stop \in BOOLEAN : EndRun(m, stop)
             \/ \E forced \in BOOLEAN :
                  \/ Continue(forced)
                  \/ \E user \in BOOLEAN : Stop(forced, user)
    BY <1>2, <2>3 DEF vars, history, Go, Trace, Enter, Top, Insert, Retry,
      Report, Destruct, Prompt, EndRun, Continue, Stop
  <2> QED
    BY <2>1, <2>2, <2>3 DEF Next, Debugger
<1>4. pc = "check" /\ CountsBreak(res)
  BY <1>2, <1>3 DEF Check
<1>5. OnPlaced
  BY <1>4, HitIsPlaced
<1>6. es # "FORCE_BREAK" => ~Unmoved
  BY <1>4, <1>5 DEF LoopInv, PassInv, Leaving, Passing
<1>7. es = "FORCE_BREAK" => counted \in {0, 1}
  BY <1>4 DEF LoopInv, PassInv, Leaving, Looping
<1> QED
  BY <1>1, <1>6, <1>7 DEF Unmoved

\* A breakpoint is not counted down again where the debuggee already was,
\* but by the pass that forces it in behind a single step
\* (dbgexec.c:495-502).
THEOREM CountsOnce == Spec => CountedOnce
<1>1. LoopInv /\ [Next]_vars =>
        [counted' = counted + 1 /\ Kind[ip] # "int"
           => counted = 0 \/ (counted = 1 /\ es = "FORCE_BREAK")]_vars
  BY CountingStep
<1> QED
  BY <1>1, LoopInvariant, PTL DEF Spec, CountedOnce

LEMMA ContinuingStep ==
  ASSUME [Next]_vars, pc = "decide", pc' = "top"
  PROVE  \E forced \in BOOLEAN : Continue(forced)
<1>1. CASE Debuggee \/ Interrupt
  BY <1>1 DEF Debuggee, HitBreak, Execute, Fail, Simulate, Interrupt, Return,
              Running
<1>2. CASE Edit
  BY <1>2 DEF Edit, SetPoint, ToggleBreak, ActPoint, ActAll, ClearPoint,
              BrkClearAll, SetBPAutoDestruct, SetUserTmp, DropUserTmp, Edited,
              Editing
<1>3. CASE \/ UNCHANGED vars \/ Go \/ \E type \in TraceTypes : Trace(type)
           \/ Top \/ Insert \/ Retry \/ Report \/ Destruct \/ Prompt
           \/ \E m, stop \in BOOLEAN : EndRun(m, stop)
           \/ \E res \in Results, m \in BOOLEAN : Check(res, m)
           \/ \E forced, user \in BOOLEAN : Stop(forced, user)
  BY <1>3 DEF vars, Go, Trace, Enter, Top, Insert, Retry, Report, Destruct,
              Prompt, EndRun, Check, Stop
<1> QED
  BY <1>1, <1>2, <1>3 DEF Next, Debugger

\* The break key is not lost between two passes of the loop, but in the single
\* special instruction of a step off a breakpoint (dbgexec.c:452-511).
THEOREM BreakKeyStops == Spec => UserBreakStops
<1>1. ASSUME LoopInv, [Next]_vars, pc = "decide", pc' = "top",
             "USER" \in raised
      PROVE  how = "STEPBREAK" /\ es = "STEP_ONE"
  <2>1. PICK forced \in BOOLEAN : Continue(forced)
    BY <1>1, ContinuingStep
  <2>2. conditions \in {{"USER"}, {"BREAK"}, {"WATCH"}}
    BY <1>1 DEF LoopInv, PassInv, BreakKey
  <2> QED
    BY <2>1, <2>2, ContinueMeans DEF Kept
<1>2. LoopInv /\ [Next]_vars =>
        [pc = "decide" /\ pc' = "top" /\ "USER" \in raised
           => how = "STEPBREAK" /\ es = "STEP_ONE"]_vars
  BY <1>1
<1> QED
  BY <1>2, LoopInvariant, PTL DEF Spec, UserBreakStops

-----------------------------------------------------------------------------
(***************************************************************************)
(* The run loop implements BreakService: user actions and the ones that    *)
(* end a command are Arm, Go and Trace Resume, an instruction of the       *)
(* debuggee is Execute, an INT3 of its own that Check passes by is Skip,   *)
(* Report is Stop; the debugger's other steps are not seen.                *)
(***************************************************************************)

LEMMA ArmedAddr == TypeInv => Armed \subseteq Addr
<1> SUFFICES ASSUME TypeInv PROVE Armed \subseteq Addr
  OBVIOUS
<1>1. UserTmpBrk.addr \in Addr
  BY DEF TypeInv, TypeOK, TmpPoint
<1> QED
  BY <1>1, BreakOnAddr DEF Armed

LEMMA ServiceArm ==
  ASSUME LoopInv, LoopInv', Edit \/ Destruct \/ Prompt
  PROVE  Service!Arm
<1>1. /\ pc \in {"prompt", "destruct"} /\ pc' \in {"prompt", "destruct"}
      /\ UNCHANGED <<ip, arrived>>
  BY DEF Edit, SetPoint, ToggleBreak, ActPoint, ActAll, ClearPoint,
         BrkClearAll, SetBPAutoDestruct, SetUserTmp, DropUserTmp, Edited,
         Editing, Destruct, Prompt, debuggee, history
<1>2. Armed' \subseteq Addr
  <2>1. TypeInv' => (Armed \subseteq Addr)'
    BY ArmedAddr, PTL
  <2> QED
    BY <2>1 DEF LoopInv, MemInv
<1> QED
  BY <1>1, <1>2 DEF Service!Arm

LEMMA ServiceResume ==
  ASSUME LoopInv, Go \/ \E type \in TraceTypes : Trace(type)
  PROVE  Service!Resume
<1>1. /\ pc = "prompt" /\ pc' = "top" /\ UNCHANGED <<BrkList, ip, arrived>>
  BY DEF Go, Trace, Enter, debuggee, history
<1>2. UserTmpBrk' = UserTmpBrk \/ ~UserTmpBrk'.active
  BY DEF Go, Trace, NullStatus, LoopInv, MemInv, TypeInv, TypeOK, TmpPoint
<1>3. Armed' \subseteq Armed
  BY <1>1, <1>2 DEF Armed
<1> QED
  BY <1>1, <1>3 DEF Service!Resume

LEMMA ServiceExecute ==
  ASSUME LoopInv, NEW next \in Addr, NEW v \in Values, Execute(next, v)
  PROVE  Service!Execute
<1>1. /\ pc = "run" /\ pc' \in {"run", "stopped"} /\ mem[ip] # "CC"
      /\ ip' = next /\ next \in Succ[ip] /\ arrived' = "executed"
      /\ UNCHANGED list
  BY DEF Execute, Executed, Executable, Running, Return
<1>2. ~OnPlaced
  BY <1>1, ByteAtIP
<1>3. arrived = "executed" => ip \notin Armed
  BY <1>1, <1>2 DEF LoopInv, PassInv, Due
<1>4. Armed' = Armed
  BY <1>1 DEF Armed, list
<1> QED
  BY <1>1, <1>3, <1>4 DEF Service!Execute

LEMMA ServiceCheck ==
  ASSUME LoopInv, NEW res \in Results, NEW m \in BOOLEAN, Check(res, m)
  PROVE  [Service!Next]_(Service!vars)
<1>1. pc = "check" /\ pc' = "decide"
  BY DEF Check
<1>2. Armed' = Armed
  BY CheckSame, ArmedKept DEF LoopInv, MemInv, SamePlaces
<1>3. CASE SkipsOwnBreak(res)
  <2>1. ip' = After[ip] /\ arrived' = "skipped"
    BY <1>3 DEF Check
  <2>2. ip \in {a \in Addr : Kind[a] \in {"int3", "wvideo"}}
    <3>1. mem = Code /\ ip \in Addr
      BY <1>1 DEF LoopInv, MemInv, MemoryIntact, TypeInv, TypeOK
    <3> QED
      BY <1>3, <3>1 DEF SkipsOwnBreak, OwnBreak, Code
  <2>3. arrived = "executed" => ip \notin Armed
    <3> SUFFICES ASSUME arrived = "executed", ip \in Armed PROVE FALSE
      OBVIOUS
    <3>1. raised # {"TRACE"}
      <4>1. "BREAK" \in conditions /\ conditions \subseteq raised \cup {"STOP"}
        BY <1>1, <1>3 DEF SkipsOwnBreak, LoopInv, PassInv, Caused
      <4> QED
        BY <4>1
    <3>2. OnPlaced /\ NoneYields
      BY <1>1, <3>1 DEF LoopInv, PassInv, Due, Planting, Passing
    <3>3. BreakHit(res)
      BY <3>2, ArmedStops DEF LoopInv, MemInv
    <3> QED
      BY <1>3, <3>3 DEF SkipsOwnBreak
  <2>4. Service!Skip
    BY <1>1, <1>2, <2>1, <2>2, <2>3 DEF Service!Skip
  <2> QED
    BY <2>4 DEF Service!Next
<1>4. CASE ~SkipsOwnBreak(res)
  <2>1. UNCHANGED <<ip, arrived>>
    BY <1>4 DEF Check
  <2> QED
    BY <1>1, <1>2, <2>1 DEF Service!vars
<1> QED
  BY <1>3, <1>4

LEMMA ServiceStop ==
  ASSUME LoopInv, Report
  PROVE  Service!Stop
<1>1. /\ pc = "report" /\ pc' = "destruct" /\ arrived' = "no"
      /\ UNCHANGED <<UserTmpBrk, ip>>
      /\ BrkList' = [i \in DOMAIN BrkList |->
                       IF BrkList[i].watch /\ BrkList[i].hit
                         THEN [BrkList[i] EXCEPT !.val = data] ELSE BrkList[i]]
  BY DEF Report, debuggee
<1>2. \A i \in DOMAIN BrkList : BrkList[i] \in Point
  BY BreakOnAddr DEF LoopInv, MemInv
<1>3. SamePoints
  BY <1>1, <1>2 DEF SamePoints, Point
<1>4. Armed' = Armed
  BY <1>1, <1>3, ArmedKept DEF SameUserTmp
<1> QED
  BY <1>1, <1>4 DEF Service!Stop

\* What the user does not see.
LEMMA ServiceStutter ==
  ASSUME LoopInv,
         \/ UNCHANGED vars \/ Top \/ Insert \/ Retry
         \/ \E m, stop \in BOOLEAN : EndRun(m, stop)
         \/ \E forced \in BOOLEAN : \/ Continue(forced)
                                    \/ \E user \in BOOLEAN : Stop(forced, user)
         \/ HitBreak \/ Fail \/ Simulate \/ Interrupt
  PROVE  UNCHANGED Service!vars
<1>1. /\ UNCHANGED <<ip, arrived>>
      /\ (pc \in {"prompt", "destruct"})' <=> pc \in {"prompt", "destruct"}
  BY DEF vars, Top, Insert, Retry, EndRun, Continue, Stop, HitBreak, Fail,
         Simulate, Interrupt, Return, Running, debuggee, history
<1>2. SamePoints /\ SameUserTmp
  <2>1. CASE Insert
    BY <2>1, InsertSame DEF LoopInv, MemInv
  <2>2. CASE Retry \/ \E m, stop \in BOOLEAN : EndRun(m, stop)
    BY <2>2, RemoveSame DEF Retry, EndRun, LoopInv, MemInv, SamePlaces
  <2>3. CASE UNCHANGED <<BrkList, UserTmpBrk>>
    BY <2>3 DEF SamePoints, SameUserTmp
  <2> QED
    BY <2>1, <2>2, <2>3 DEF vars, list, Top, Continue, Stop, HitBreak, Fail,
      Simulate, Interrupt, Return
<1>3. Armed' = Armed
  BY <1>2, ArmedKept
<1> QED
  BY <1>1, <1>3 DEF Service!vars

\* The run loop keeps what BreakService promises, step by step, for every
\* program, table and command (dbgexec.c:366-511 with InsertBPs, RemoveBPs
\* and CheckBPs of dbgbrk.c).
THEOREM KeepsPromise == Spec => ServiceSpec
<1>1. Init => Service!Init
  <2> SUFFICES ASSUME Init PROVE Service!Init
    OBVIOUS
  <2>1. /\ pc = "prompt" /\ arrived = "no" /\ ip \in Addr
        /\ BrkList = <<>> /\ ~UserTmpBrk.active
    BY ProgramAssumption DEF Init, NoTmp
  <2>2. Armed = {}
    BY <2>1 DEF Armed
  <2> QED
    BY <2>1, <2>2 DEF Service!Init
<1>2. LoopInv /\ LoopInv' /\ [Next]_vars => [Service!Next]_(Service!vars)
  <2> SUFFICES ASSUME LoopInv, LoopInv', [Next]_vars
               PROVE  [Service!Next]_(Service!vars)
    OBVIOUS
  <2>1. CASE Edit \/ Destruct \/ Prompt
    BY <2>1, ServiceArm DEF Service!Next
  <2>2. CASE Go \/ \E type \in TraceTypes : Trace(type)
    BY <2>2, ServiceResume DEF Service!Next
  <2>3. CASE \E next \in Addr, v \in Values : Execute(next, v)
    BY <2>3, ServiceExecute DEF Service!Next
  <2>4. CASE \E res \in Results, m \in BOOLEAN : Check(res, m)
    BY <2>4, ServiceCheck
  <2>5. CASE Report
    BY <2>5, ServiceStop DEF Service!Next
  <2>6. CASE \/ UNCHANGED vars \/ Top \/ Insert \/ Retry
             \/ \E m, stop \in BOOLEAN : EndRun(m, stop)
             \/ \E forced \in BOOLEAN :
                  \/ Continue(forced)
                  \/ \E user \in BOOLEAN : Stop(forced, user)
             \/ HitBreak \/ Fail \/ Simulate \/ Interrupt
    BY <2>6, ServiceStutter
  <2> QED
    BY <2>1, <2>2, <2>3, <2>4, <2>5, <2>6 DEF Next, Debugger, Debuggee
<1> QED
  BY <1>1, <1>2, LoopInvariant, PTL DEF Spec, ServiceSpec, Service!Spec
-----------------------------------------------------------------------------
(***************************************************************************)
(* Watchpoints, when a trap file without break on write leaves it to the   *)
(* comparison of CheckBPs (dbgbrk.c:1677) to say that the cell was         *)
(* written.                                                                *)
(***************************************************************************)

LEMMA WatchingKept ==
  ASSUME SamePoints, UNCHANGED data,
         \A i \in DOMAIN BrkList : BrkList'[i].val = BrkList[i].val
  PROVE  /\ \A i \in DOMAIN BrkList' : /\ i \in DOMAIN BrkList
                                       /\ Watching(i)' <=> Watching(i)
                                       /\ Read(i)' <=> Read(i)
         /\ WatchesPlainly' <=> WatchesPlainly
BY PlainKept DEF SamePoints, Watching, Read

\* The debuggee does not move: the points it compares with stay as they are.
LEMMA WatchedKept ==
  ASSUME LoopInv, Watched, UNCHANGED <<list, how, ip, data, wrote>>,
         \/ pc' = pc /\ UNCHANGED conditions
         \/ pc = "run" /\ pc' = "stopped"
         \/ pc = "top" /\ pc' = "insert"
  PROVE  Watched'
<1>1. SamePlaces
  BY UnchangedSame
<1>2. OnTmp' <=> OnTmp
  BY <1>1, PlacesKept DEF OnTmp
<1> QED
  BY <1>2 DEF Watched, Watching, Read, WatchesPlainly, Plain, list

LEMMA WatchedInsert ==
  ASSUME LoopInv, Watched, Insert
  PROVE  Watched'
<1>1. TypeInv
  BY DEF LoopInv, MemInv
<1>2. /\ pc = "insert" /\ pc' \in {"retry", "run"}
      /\ pc' = "retry" <=> how = "BREAK" /\ AtIP(Forced)
      /\ UNCHANGED <<how, data, wrote>>
  BY DEF Insert, Forced, debuggee, history
<1>3. /\ SamePoints
      /\ \A i \in DOMAIN BrkList : Watching(i) =>
           /\ BrkList'[i].val = data
           /\ how = "BREAK" /\ ~AtIP(Forced) => BrkList'[i].in_place
  BY <1>1, InsertSame
<1>4. ASSUME NEW i \in DOMAIN BrkList', Watching(i)'
      PROVE  Read(i)' /\ (pc' = "run" /\ how = "BREAK" => BrkList'[i].in_place)
  <2>1. i \in DOMAIN BrkList /\ Watching(i)
    BY <1>3, <1>4 DEF SamePoints, Watching
  <2> QED
    BY <1>2, <1>3, <2>1 DEF Read
<1>5. ~(wrote' = "changed" /\ WatchesPlainly')
  BY <1>2, <1>3, PlainKept DEF Watched
<1> QED
  BY <1>2, <1>4, <1>5 DEF Watched

LEMMA WatchedRemove ==
  ASSUME LoopInv, Watched, Retry \/ \E m, stop \in BOOLEAN : EndRun(m, stop)
  PROVE  Watched'
<1>1. /\ \/ pc = "retry" /\ pc' = "top"
         \/ pc = "stopped" /\ pc' = "check"
      /\ UNCHANGED <<UserTmpBrk, DbgTmpBrk, how, ip, data, wrote>>
      /\ RemoveBPs
  BY DEF Retry, EndRun, debuggee, history
<1>2. /\ SamePlaces
      /\ \A i \in DOMAIN BrkList : BrkList'[i].val = BrkList[i].val
  BY <1>1, RemoveSame DEF LoopInv, MemInv
<1>3. OnTmp' <=> OnTmp
  BY <1>1, <1>2, PlacesKept DEF OnTmp
<1>4. /\ \A i \in DOMAIN BrkList' : /\ i \in DOMAIN BrkList
                                    /\ Watching(i)' <=> Watching(i)
                                    /\ Read(i)' <=> Read(i)
      /\ WatchesPlainly' <=> WatchesPlainly
  BY <1>1, <1>2, WatchingKept DEF SamePlaces
<1> QED
  BY <1>1, <1>3, <1>4 DEF Watched

\* An instruction that writes the cell ends the run, or was run to the
\* debugger's breakpoint behind it.
LEMMA WatchedExecute ==
  ASSUME LoopInv, Watched, NEW next \in Addr, NEW v \in Values,
         Execute(next, v)
  PROVE  Watched'
<1>1. /\ pc = "run" /\ Executable /\ ip' = next /\ data' = v
      /\ v # data => ip \in Writes
      /\ wrote' = CASE ip \notin Writes \/ how = "STEPBREAK" -> "no"
                    [] v = data -> "same"
                    [] OTHER -> "changed"
      /\ UNCHANGED <<list, how>>
      /\ \/ Outcome # {} /\ pc' = "stopped"
         \/ Outcome = {} /\ pc' = "run"
  BY DEF Execute, Executed, Running, Return
<1>2. how \in {"STEP", "BREAK", "STEPBREAK"}
  BY DEF Execute, LoopInv, MemInv, TypeInv, TypeOK
<1>3. \A i \in DOMAIN BrkList : Watching(i) => Read(i)
  <2>1. ~OnTmp
    <3>1. ~OnPlaced
      BY <1>1, ByteAtIP DEF Executable
    <3> QED
      BY <3>1 DEF OnPlaced, OnTmp, PlacedAt
  <2> QED
    BY <1>1, <2>1 DEF Watched
<1>4. /\ BrkList' = BrkList
      /\ \A i \in DOMAIN BrkList : Watching(i)' <=> Watching(i)
      /\ WatchesPlainly' <=> WatchesPlainly
  BY <1>1 DEF list, Watching, WatchesPlainly
<1>5. WatchesPlainly => \E i \in DOMAIN BrkList : Watching(i)
  BY DEF WatchesPlainly, Plain, Watching
<1>6. CASE how = "STEPBREAK"
  <2>1. OnTmp'
    <3>1. TmpAt(next)
      BY <1>6, ExecutedInto
    <3>2. TmpAt(next)'
      BY <1>1, <3>1, UnchangedSame, PlacesKept
    <3> QED
      BY <1>1, <3>2 DEF OnTmp
  <2> QED
    BY <1>1, <1>4, <1>6, <2>1 DEF Watched
<1>7. CASE how # "STEPBREAK"
  <2>1. \A i \in DOMAIN BrkList :
          Watching(i) => (Read(i)' <=> data' = data)
    BY <1>3, <1>4 DEF Read
  <2>2. wrote' = "no" => data' = data
    BY <1>1, <1>7
  <2>3. wrote' = "changed" => data' # data /\ ip \in Writes
    BY <1>1, <1>7
  <2>4. CASE pc' = "stopped"
    BY <1>1, <1>4, <1>7, <2>1, <2>2, <2>3, <2>4 DEF Watched
  <2>5. CASE pc' = "run"
    <3>1. Outcome = {} /\ how = "BREAK"
      BY <1>1, <1>2, <1>7, <2>5 DEF Outcome
    <3>2. ~(WatchArmed /\ ip \in Writes)
      BY <3>1 DEF Outcome
    <3>3. \A i \in DOMAIN BrkList : Watching(i) => BrkList[i].in_place
      BY <1>1, <3>1 DEF Watched
    <3>4. (\E i \in DOMAIN BrkList : Watching(i)) => ip \notin Writes
      BY <3>2, <3>3 DEF WatchArmed, Watching
    <3>5. \A i \in DOMAIN BrkList : Watching(i) => Read(i)'
      BY <1>1, <2>1, <3>4
    <3>6. ~(wrote' = "changed" /\ WatchesPlainly')
      BY <1>4, <1>5, <2>3, <3>4
    <3> QED
      BY <1>4, <2>5, <3>3, <3>5, <3>6 DEF Watched
  <2> QED
    BY <1>1, <2>4, <2>5
<1> QED
  BY <1>6, <1>7

LEMMA WatchedCheck ==
  ASSUME ~BreakOnWrite, LoopInv, Watched, NEW res \in Results,
         NEW m \in BOOLEAN, Check(res, m)
  PROVE  Watched'
<1>1. /\ pc = "check" /\ pc' = "decide" /\ conditions' = Verdict(res, m)
      /\ UNCHANGED <<how, data, wrote>>
  BY DEF Check
<1>2. WatchesPlainly' <=> WatchesPlainly
  BY CheckSame, PlainKept DEF LoopInv, MemInv, SamePlaces
<1>3. ASSUME "WATCH" \in conditions'
      PROVE  wrote # "no"
  <2>1. ~BreakHit(res) /\ WatchpointHit(res)
    <3>1. "WATCH" \notin OwnBreakVerdict(m)
      BY DEF OwnBreakVerdict
    <3> QED
      BY <1>1, <1>3, <3>1, VerdictIs DEF STOPPERS
  <2>2. PICK i \in DOMAIN BrkList : BrkList[i].watch /\ Stops(BrkList[i], res[i])
    BY <2>1 DEF WatchpointHit
  <2>3. Watching(i) /\ ~Read(i)
    BY <2>2 DEF Stops, Passes, FirstHit, WatchHit, Watching, Read
  <2>4. ~OnTmp
    BY <2>1, HitIsPlaced
  <2> QED
    BY <1>1, <2>3, <2>4 DEF Watched
<1>4. ASSUME wrote = "changed", WatchesPlainly
      PROVE  how # "STEPBREAK" /\ conditions' \cap {"BREAK", "WATCH"} # {}
  <2>1. /\ how # "STEPBREAK"
        /\ \A i \in DOMAIN BrkList : Watching(i) => ~Read(i)
    BY <1>1, <1>4 DEF Watched
  <2>2. PICK i \in DOMAIN BrkList : BrkList[i].watch /\ Plain(BrkList[i])
    BY <1>4 DEF WatchesPlainly
  <2>3. BrkList[i].active /\ BrkList[i].val # data
    BY <2>1, <2>2 DEF Watching, Read, Plain
  <2>4. BrkList[i].countdown = 0 /\ ~BrkList[i].use_condition
    BY <2>2 DEF Plain, LoopInv, Countdowns
  <2>5. Stops(BrkList[i], res[i])
    BY <2>2, <2>3, <2>4 DEF Stops, Passes, Counts, FirstHit, WatchHit
  <2>6. WatchpointHit(res)
    BY <2>2, <2>5 DEF WatchpointHit
  <2> QED
    BY <1>1, <2>1, <2>6, VerdictIs
<1> QED
  BY <1>1, <1>2, <1>3, <1>4 DEF Watched

LEMMA WatchedDecide ==
  ASSUME LoopInv, Watched, NEW forced \in BOOLEAN,
         Continue(forced) \/ \E user \in BOOLEAN : Stop(forced, user)
  PROVE  Watched'
<1>1. /\ pc = "decide" /\ UNCHANGED <<BrkList, wrote>>
  BY DEF Continue, Stop, history
<1>2. WatchesPlainly' <=> WatchesPlainly
  BY <1>1 DEF WatchesPlainly
<1>3. CASE Continue(forced)
  <2>1. pc' = "top"
    BY <1>3 DEF Continue
  <2>2. ~(wrote = "changed" /\ WatchesPlainly)
    BY <1>1, <1>3, ContinueMeans DEF Watched, Kept
  <2> QED
    BY <1>1, <1>2, <2>1, <2>2 DEF Watched
<1>4. ASSUME NEW user \in BOOLEAN, Stop(forced, user)
      PROVE  Watched'
  <2>1. /\ pc' = "report"
        /\ "WATCH" \in conditions' => "WATCH" \in TraceCheck(Digest(forced))
    BY <1>4 DEF Stop
  <2>2. "WATCH" \in conditions' => "WATCH" \in conditions
    BY <2>1, TraceCheckKeeps, DigestKeeps DEF Kept
  <2> QED
    BY <1>1, <2>1, <2>2 DEF Watched
<1> QED
  BY <1>3, <1>4

LEMMA NextWatched ==
  ASSUME ~BreakOnWrite, LoopInv, LoopInv', Watched, [Next]_vars
  PROVE  Watched'
<1>1. CASE Debuggee \/ Interrupt
  <2>1. CASE HitBreak \/ Fail \/ Simulate \/ Interrupt
    <3>1. /\ pc = "run" /\ pc' = "stopped"
          /\ UNCHANGED <<list, how, ip, data, wrote>>
      BY <2>1 DEF HitBreak, Fail, Simulate, Interrupt, Return, Running,
                  debuggee
    <3> QED
      BY <3>1, WatchedKept
  <2> QED
    BY <1>1, <2>1, WatchedExecute DEF Debuggee
<1>2. CASE wrote' = "no" /\ pc' \in {"prompt", "destruct", "top"}
  BY <1>2 DEF Watched
<1>3. CASE Edit \/ Report \/ Destruct \/ Prompt
  <2>1. pc' \in {"prompt", "destruct"}
    BY <1>3 DEF Edit, SetPoint, ToggleBreak, ActPoint, ActAll, ClearPoint,
      BrkClearAll, SetBPAutoDestruct, SetUserTmp, DropUserTmp, Edited,
      Editing, Report, Destruct, Prompt
  <2>2. wrote' = "no"
    BY <2>1 DEF LoopInv, PassInv, Held
  <2> QED
    BY <1>2, <2>1, <2>2
<1>4. CASE Go \/ \E type \in TraceTypes : Trace(type)
  <2>1. pc = "prompt" /\ pc' = "top" /\ wrote' = wrote
    BY <1>4 DEF Go, Trace, Enter, history
  <2> QED
    BY <1>2, <2>1 DEF LoopInv, PassInv, Held
<1>5. CASE UNCHANGED vars
  BY <1>5, WatchedKept DEF vars, list, debuggee, history
<1>6. CASE Top
  <2>1. /\ pc = "top" /\ pc' = "insert" /\ UNCHANGED <<BrkList, wrote>>
    BY <1>6 DEF Top, history
  <2> QED
    BY <2>1 DEF Watched, WatchesPlainly
<1>7. CASE Insert \/ Retry \/ \E m, stop \in BOOLEAN : EndRun(m, stop)
  BY <1>7, WatchedInsert, WatchedRemove
<1>8. CASE \/ \E res \in Results, m \in BOOLEAN : Check(res, m)
           \/ \E forced \in BOOLEAN :
                \/ Continue(forced)
                \/ \E user \in BOOLEAN : Stop(forced, user)
  BY <1>8, WatchedCheck, WatchedDecide
<1> QED
  BY <1>1, <1>3, <1>4, <1>5, <1>6, <1>7, <1>8 DEF Next, Debugger

\* An instruction is executed by Execute alone.
LEMMA ExecutingStep ==
  ASSUME [Next]_vars, arrived' = "executed",
         <<ip, data, arrived, wrote>>' # <<ip, data, arrived, wrote>>
  PROVE  pc = "run"
<1>1. CASE Debuggee \/ Interrupt
  BY <1>1 DEF Debuggee, HitBreak, Execute, Fail, Simulate, Interrupt, Return,
              Running
<1>2. CASE Edit
  BY <1>2 DEF Edit, SetPoint, ToggleBreak, ActPoint, ActAll, ClearPoint,
              BrkClearAll, SetBPAutoDestruct, SetUserTmp, DropUserTmp, Edited,
              debuggee, history
<1>3. CASE \/ UNCHANGED vars \/ Go \/ \E type \in TraceTypes : Trace(type)
           \/ Top \/ Insert \/ Retry \/ Report \/ Destruct \/ Prompt
           \/ \E m, stop \in BOOLEAN : EndRun(m, stop)
           \/ \E res \in Results, m \in BOOLEAN : Check(res, m)
           \/ \E forced \in BOOLEAN :
                \/ Continue(forced)
                \/ \E user \in BOOLEAN : Stop(forced, user)
  BY <1>3 DEF vars, Go, Trace, Enter, Top, Insert, Retry, Report, Destruct,
              Prompt, EndRun, Check, Continue, Stop, debuggee, history
<1> QED
  BY <1>1, <1>2, <1>3 DEF Next, Debugger

\* Without break on write a watchpoint stops the program behind every change
\* of its cell, by the debug registers or by a single step, and is reported
\* only behind a write (UpdateWPs, InsertWPs and dbgbrk.c:1677).
THEOREM WatchesStop ==
  ASSUME ~BreakOnWrite
  PROVE  Spec => WatchesTrue
<1>1. Init => Watched
  <2> SUFFICES ASSUME Init PROVE Watched
    OBVIOUS
  <2>1. pc = "prompt" /\ wrote = "no"
    BY DEF Init
  <2> QED
    BY <2>1 DEF Watched
<1>2. LoopInv /\ LoopInv' /\ Watched /\ [Next]_vars => Watched'
  BY NextWatched
<1>3. LoopInv /\ Watched => WatchReportsAWrite
  BY DEF Watched, WatchReportsAWrite
<1>4. LoopInv /\ Watched /\ [Next]_vars =>
        [arrived' = "executed"
         /\ <<ip, data, arrived, wrote>>' # <<ip, data, arrived, wrote>>
           => ~(wrote = "changed" /\ WatchesPlainly)]_vars
  BY ExecutingStep DEF Watched
<1>5. Spec => []Watched
  BY <1>1, <1>2, LoopInvariant, PTL DEF Spec
<1> QED
  BY <1>3, <1>4, <1>5, LoopInvariant, PTL DEF Spec, WatchesTrue, WatchStops
=============================================================================

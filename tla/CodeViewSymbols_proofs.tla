----------------------- MODULE CodeViewSymbols_proofs -----------------------
(***************************************************************************)
(* Proofs about the tables of an image and its modules, for any number of  *)
(* images and any files that are written as AddressesWritten, OnceWritten  *)
(* and ReturnsWritten say: the symbol of an address is the nearest one, a  *)
(* walk of the modules shows each address once, and a value that is        *)
(* returned fits its registers.                                            *)
(*                                                                         *)
(* Three more inductive invariants: AddrInv, the search of the tables,     *)
(* rests on Inv, MapInv and CallInv; PlaceInv, where an image is loaded,   *)
(* on Inv and MapInv; ModulesInv, the walk of the modules, on Inv, DirInv, *)
(* MapInv and CallInv.                                                     *)
(***************************************************************************)
EXTENDS CodeView_proofs

-----------------------------------------------------------------------------
(***************************************************************************)
(* The search of a table for an address (TableSearchForAddr).              *)
(***************************************************************************)
SegAt(g) == MapLogical(cur, [seg |-> g, off |-> 0])
OffOf(tbl, g, e) == Table(tbl).segs[g][e].off + SegAt(g).off
EntriesTo(tbl, n) == {p \in (1..n) \X Nat : p[2] \in DOMAIN Table(tbl).segs[p[1]]}
InSpace(tbl, a, n) == {p \in EntriesTo(tbl, n) : SegAt(p[1]).seg = a.seg}

\* A table that can be searched.
Searchable(tbl) ==
  /\ Len(Table(tbl).segs) \in Nat
  /\ \A g \in 1..Len(Table(tbl).segs) : LET s == Table(tbl).segs[g] IN
       /\ SegAt(g).off \in Nat /\ Len(s) \in Nat /\ DOMAIN s = 1..Len(s)
       /\ \A e \in DOMAIN s : s[e].sym \in Nat \ {0} /\ s[e].off \in Nat
       /\ \A d, e \in DOMAIN s : d < e => s[d].off <= s[e].off

Bests == [sym : Nat, off : Nat, exact : BOOLEAN]

\* What one segment adds to the best found so far.
Better(tbl, a, i, best) ==
  LET segs == Table(tbl).segs
      base == MapLogical(cur, [seg |-> i, off |-> 0])
      off(k) == segs[i][k].off + base.off
      stop == SelectInSeq(segs[i], LAMBDA e : e.off + base.off >= a.off)
      count == IF stop = 0 THEN Len(segs[i]) ELSE stop - 1
  IN  IF best.exact \/ ~DCSameAddrSpace(base, a) \/ segs[i] = <<>> THEN best
      ELSE IF stop # 0 /\ off(stop) = a.off
        THEN [sym |-> segs[i][stop].sym, off |-> a.off, exact |-> TRUE]
      ELSE IF count # 0 /\ (off(count) > best.off \/ (best.sym = 0 /\ best.off = 0))
        THEN [sym |-> segs[i][count].sym, off |-> off(count), exact |-> FALSE]
      ELSE best
Searching(tbl, a, lo) ==
  CHOOSE f : f = [i \in 0..Len(Table(tbl).segs) |->
                    IF i = 0 THEN [NoBest EXCEPT !.off = lo] ELSE Better(tbl, a, i, f[i - 1])]

\* The definition by recursion.
LEMMA SearchIs ==
  ASSUME NEW tbl, NEW a, NEW lo
  PROVE  TableSearchForAddr(tbl, a, lo) = Searching(tbl, a, lo)[Len(Table(tbl).segs)]
BY DEF TableSearchForAddr, Searching, Better

\* The first element of a sorted segment that is not below a number.
LEMMA FirstAbove ==
  ASSUME NEW s, NEW b \in Nat, NEW x \in Nat,
         Len(s) \in Nat, DOMAIN s = 1..Len(s), \A e \in DOMAIN s : s[e].off \in Nat
  PROVE  LET stop == SelectInSeq(s, LAMBDA e : e.off + b >= x) IN
         /\ stop \in 0..Len(s)
         /\ stop = 0 => \A e \in DOMAIN s : s[e].off + b < x
         /\ stop # 0 => s[stop].off + b >= x /\ \A e \in DOMAIN s : e < stop => s[e].off + b < x
<1> DEFINE I == {i \in DOMAIN s : s[i].off + b >= x}
           stop == SelectInSeq(s, LAMBDA e : e.off + b >= x)
<1>1. stop = IF I # {} THEN Min(I) ELSE 0
  BY DEF SelectInSeq
<1>2. I # {} => Min(I) \in I /\ \A k \in I : Min(I) <= k
  <2> SUFFICES ASSUME I # {} PROVE Min(I) \in I /\ \A k \in I : Min(I) <= k
    OBVIOUS
  <2>1. I \in SUBSET Nat
    OBVIOUS
  <2>2. PICK m \in I : \A k \in I : m <= k
    BY <2>1, LeastNumber
  <2> HIDE DEF I
  <2> QED BY <2>2 DEF Min
<1>3. /\ stop \in 0..Len(s)
      /\ stop = 0 => \A e \in DOMAIN s : s[e].off + b < x
      /\ stop # 0 => s[stop].off + b >= x /\ \A e \in DOMAIN s : e < stop => s[e].off + b < x
  <2> HIDE DEF stop
  <2>1. CASE I = {}
    <3>1. stop = 0
      BY <1>1, <2>1
    <3>2. \A e \in DOMAIN s : ~(s[e].off + b >= x)
      BY <2>1
    <3> QED BY <3>1, <3>2
  <2>2. CASE I # {}
    <3>1. stop \in I /\ \A k \in I : stop <= k
      BY <1>1, <1>2, <2>2
    <3>2. stop \in DOMAIN s /\ s[stop].off + b >= x
      BY <3>1
    <3>3. ASSUME NEW e \in DOMAIN s, e < stop PROVE s[e].off + b < x
      <4>1. e \notin I
        BY <3>1, <3>2, <3>3
      <4>2. ~(s[e].off + b >= x)
        BY <4>1
      <4> QED BY <4>2
    <3> QED BY <3>2, <3>3
  <2> QED BY <2>1, <2>2
<1> QED BY <1>3

\* What is found in the first segments.
FoundTo(tbl, a, lo, n, b) ==
  /\ b \in Bests
  /\ b.exact => /\ b.off = a.off
                /\ \E p \in InSpace(tbl, a, n) :
                     b.sym = Table(tbl).segs[p[1]][p[2]].sym /\ OffOf(tbl, p[1], p[2]) = a.off
  /\ ~b.exact =>
       /\ \A p \in InSpace(tbl, a, n) : OffOf(tbl, p[1], p[2]) <= a.off =>
            /\ OffOf(tbl, p[1], p[2]) # a.off /\ OffOf(tbl, p[1], p[2]) <= b.off
            /\ b.sym = 0 => b.off # 0
       /\ b.sym = 0 => b.off = lo
       /\ b.sym # 0 => /\ lo <= b.off
                       /\ \E p \in InSpace(tbl, a, n) :
                            /\ b.sym = Table(tbl).segs[p[1]][p[2]].sym
                            /\ b.off = OffOf(tbl, p[1], p[2]) /\ b.off < a.off

\* One segment more.
LEMMA FoundMore ==
  ASSUME NEW tbl, NEW a, a.off \in Nat, NEW lo \in Nat, Searchable(tbl),
         NEW n \in 1..Len(Table(tbl).segs), NEW b, FoundTo(tbl, a, lo, n - 1, b)
  PROVE  FoundTo(tbl, a, lo, n, Better(tbl, a, n, b))
<1> DEFINE s == Table(tbl).segs[n]
           o(e) == OffOf(tbl, n, e)
           stop == SelectInSeq(s, LAMBDA e : e.off + SegAt(n).off >= a.off)
           count == IF stop = 0 THEN Len(s) ELSE stop - 1
           same == SegAt(n).seg = a.seg
<1>1. /\ SegAt(n).off \in Nat /\ Len(s) \in Nat /\ DOMAIN s = 1..Len(s)
      /\ \A e \in DOMAIN s : s[e].sym \in Nat \ {0} /\ s[e].off \in Nat
      /\ \A d, e \in DOMAIN s : d < e => s[d].off <= s[e].off
  BY DEF Searchable
<1>2. \A e \in DOMAIN s : o(e) = s[e].off + SegAt(n).off /\ o(e) \in Nat
  BY <1>1 DEF OffOf
<1>3. /\ stop \in 0..Len(s)
      /\ stop = 0 => \A e \in DOMAIN s : o(e) < a.off
      /\ stop # 0 => o(stop) >= a.off /\ \A e \in DOMAIN s : e < stop => o(e) < a.off
  <2> HIDE DEF s
  <2>1. /\ stop \in 0..Len(s)
        /\ stop = 0 => \A e \in DOMAIN s : s[e].off + SegAt(n).off < a.off
        /\ stop # 0 => /\ s[stop].off + SegAt(n).off >= a.off
                       /\ \A e \in DOMAIN s : e < stop => s[e].off + SegAt(n).off < a.off
    BY <1>1, FirstAbove
  <2> HIDE DEF stop
  <2>2. stop # 0 => stop \in DOMAIN s
    BY <1>1, <2>1
  <2> HIDE DEF o
  <2> QED BY <1>2, <2>1, <2>2
<1>4. \A d, e \in DOMAIN s : d <= e => o(d) <= o(e)
  <2> SUFFICES ASSUME NEW d \in DOMAIN s, NEW e \in DOMAIN s, d <= e PROVE o(d) <= o(e)
    OBVIOUS
  <2> HIDE DEF s, o
  <2>1. CASE d = e
    BY <1>2, <2>1
  <2>2. CASE d < e
    BY <1>1, <1>2, <2>2
  <2> QED BY <1>1, <2>1, <2>2
<1>5. Better(tbl, a, n, b) =
        IF b.exact \/ ~same \/ s = <<>> THEN b
        ELSE IF stop # 0 /\ o(stop) = a.off
          THEN [sym |-> s[stop].sym, off |-> a.off, exact |-> TRUE]
        ELSE IF count # 0 /\ (o(count) > b.off \/ (b.sym = 0 /\ b.off = 0))
          THEN [sym |-> s[count].sym, off |-> o(count), exact |-> FALSE]
        ELSE b
  BY DEF Better, SegAt, OffOf, DCSameAddrSpace
<1>6. /\ InSpace(tbl, a, n - 1) \subseteq InSpace(tbl, a, n)
      /\ \A p \in InSpace(tbl, a, n) :
           p \in InSpace(tbl, a, n - 1) \/ (p = <<n, p[2]>> /\ p[2] \in DOMAIN s /\ same)
      /\ same => \A e \in DOMAIN s : <<n, e>> \in InSpace(tbl, a, n)
  <2>1. n \in Nat \ {0}
    OBVIOUS
  <2>2. \A p \in EntriesTo(tbl, n) : p \in EntriesTo(tbl, n - 1) \/ p[1] = n
    BY <2>1 DEF EntriesTo
  <2>3. EntriesTo(tbl, n - 1) \subseteq EntriesTo(tbl, n)
    BY <2>1 DEF EntriesTo
  <2>4. \A p \in EntriesTo(tbl, n) : p[1] = n => p = <<n, p[2]>> /\ p[2] \in DOMAIN s
    BY DEF EntriesTo
  <2>5. \A e \in DOMAIN s : <<n, e>> \in EntriesTo(tbl, n)
    BY <1>1, <2>1 DEF EntriesTo
  <2> HIDE DEF s
  <2> QED BY <2>2, <2>3, <2>4, <2>5 DEF InSpace
<1>7. \A p \in InSpace(tbl, a, n - 1) : OffOf(tbl, p[1], p[2]) \in Nat
  <2>1. \A p \in InSpace(tbl, a, n - 1) :
          /\ p[1] \in 1..Len(Table(tbl).segs)
          /\ p[2] \in DOMAIN Table(tbl).segs[p[1]]
    BY DEF InSpace, EntriesTo, Searchable
  <2> SUFFICES ASSUME NEW p \in InSpace(tbl, a, n - 1)
               PROVE  Table(tbl).segs[p[1]][p[2]].off + SegAt(p[1]).off \in Nat
    BY DEF OffOf
  <2>2. /\ SegAt(p[1]).off \in Nat
        /\ \A e \in DOMAIN Table(tbl).segs[p[1]] : Table(tbl).segs[p[1]][e].off \in Nat
    BY <2>1 DEF Searchable
  <2> QED BY <2>1, <2>2
<1>8. b \in Bests
  BY DEF FoundTo
<1> HIDE DEF s, o, stop, same
<1>9. CASE b.exact \/ ~same \/ s = <<>>
  <2>1. Better(tbl, a, n, b) = b
    BY <1>5, <1>9
  <2>2. CASE b.exact
    BY <1>6, <2>1, <2>2 DEF FoundTo
  <2>3. CASE ~b.exact /\ (~same \/ s = <<>>)
    <3>1. ~(same /\ \E e : e \in DOMAIN s)
      BY <2>3
    <3>2. InSpace(tbl, a, n) = InSpace(tbl, a, n - 1)
      BY <1>6, <3>1
    <3> QED BY <2>1, <3>2 DEF FoundTo
  <2> QED BY <1>9, <2>2, <2>3
<1>10. CASE ~(b.exact \/ ~same \/ s = <<>>) /\ stop # 0 /\ o(stop) = a.off
  <2>1. Better(tbl, a, n, b) = [sym |-> s[stop].sym, off |-> a.off, exact |-> TRUE]
    BY <1>5, <1>10
  <2>2. stop \in DOMAIN s /\ <<n, stop>> \in InSpace(tbl, a, n)
    BY <1>1, <1>3, <1>6, <1>10
  <2>3. s[stop].sym \in Nat
    BY <1>1, <2>2
  <2>4. \E p \in InSpace(tbl, a, n) :
          s[stop].sym = Table(tbl).segs[p[1]][p[2]].sym /\ OffOf(tbl, p[1], p[2]) = a.off
    BY <1>10, <2>2 DEF s, o
  <2> QED BY <2>1, <2>3, <2>4 DEF FoundTo, Bests
<1>11. CASE ~(b.exact \/ ~same \/ s = <<>>) /\ ~(stop # 0 /\ o(stop) = a.off)
  <2>1. count \in 0..Len(s) /\ (count = 0 \/ count \in DOMAIN s)
    BY <1>1, <1>3
  <2>2. \A e \in DOMAIN s : o(e) <= a.off => e <= count /\ o(e) < a.off
    <3> SUFFICES ASSUME NEW e \in DOMAIN s, o(e) <= a.off
                 PROVE  e <= count /\ o(e) < a.off
      OBVIOUS
    <3>1. CASE stop = 0
      BY <1>1, <1>3, <3>1
    <3>2. CASE stop # 0
      <4>1. stop \in DOMAIN s /\ o(stop) > a.off
        BY <1>1, <1>2, <1>3, <1>11, <3>2
      <4>2. e < stop
        BY <1>1, <1>2, <1>4, <4>1
      <4> QED BY <1>1, <1>3, <3>2, <4>2
    <3> QED BY <3>1, <3>2
  <2>3. count # 0 => o(count) < a.off
    BY <1>1, <1>3, <2>1
  <2>4. \A e \in DOMAIN s : o(e) <= a.off => count # 0 /\ o(e) <= o(count)
    BY <1>1, <1>4, <2>1, <2>2
  <2>5. /\ b.sym = 0 => b.off = lo
        /\ lo <= b.off
        /\ \A p \in InSpace(tbl, a, n - 1) : OffOf(tbl, p[1], p[2]) <= a.off =>
             /\ OffOf(tbl, p[1], p[2]) # a.off /\ OffOf(tbl, p[1], p[2]) <= b.off
             /\ b.sym = 0 => b.off # 0
    BY <1>8, <1>11 DEF FoundTo, Bests
  <2>6. ASSUME NEW c \in Bests, ~c.exact, b.off <= c.off,
               c.sym = 0 => b.sym = 0 /\ c.off = b.off,
               \A e \in DOMAIN s : o(e) <= a.off =>
                 o(e) <= c.off /\ (c.sym = 0 => c.off # 0)
        PROVE  \A p \in InSpace(tbl, a, n) : OffOf(tbl, p[1], p[2]) <= a.off =>
                 /\ OffOf(tbl, p[1], p[2]) # a.off /\ OffOf(tbl, p[1], p[2]) <= c.off
                 /\ c.sym = 0 => c.off # 0
    <3> SUFFICES ASSUME NEW p \in InSpace(tbl, a, n), OffOf(tbl, p[1], p[2]) <= a.off
                 PROVE  /\ OffOf(tbl, p[1], p[2]) # a.off /\ OffOf(tbl, p[1], p[2]) <= c.off
                        /\ c.sym = 0 => c.off # 0
      OBVIOUS
    <3>1. CASE p \in InSpace(tbl, a, n - 1)
      <4>1. b.off \in Nat /\ c.off \in Nat /\ OffOf(tbl, p[1], p[2]) \in Nat
        BY <1>7, <1>8, <3>1 DEF Bests
      <4> QED BY <2>5, <2>6, <3>1, <4>1
    <3>2. CASE p = <<n, p[2]>> /\ p[2] \in DOMAIN s
      <4>1. OffOf(tbl, p[1], p[2]) = o(p[2])
        BY <3>2 DEF o
      <4> QED BY <1>2, <2>2, <2>6, <3>2, <4>1
    <3> QED BY <1>6, <3>1, <3>2
  <2>7. CASE count # 0 /\ (o(count) > b.off \/ (b.sym = 0 /\ b.off = 0))
    <3> DEFINE c == [sym |-> s[count].sym, off |-> o(count), exact |-> FALSE]
    <3>1. Better(tbl, a, n, b) = c
      BY <1>5, <1>11, <2>7
    <3>2. count \in DOMAIN s /\ s[count].sym \in Nat \ {0} /\ o(count) \in Nat
      BY <1>1, <1>2, <2>1, <2>7
    <3> HIDE DEF count
    <3>3. c \in Bests /\ ~c.exact /\ c.sym = s[count].sym /\ c.off = o(count) /\ c.sym # 0
      BY <3>2 DEF Bests
    <3>4. b.off <= o(count) /\ b.off \in Nat
      BY <1>8, <2>7, <3>2 DEF Bests
    <3>5. <<n, count>> \in InSpace(tbl, a, n)
      BY <1>6, <1>11, <3>2
    <3>6. \E p \in InSpace(tbl, a, n) :
            s[count].sym = Table(tbl).segs[p[1]][p[2]].sym /\ o(count) = OffOf(tbl, p[1], p[2])
      BY <3>5 DEF s, o
    <3>7. o(count) < a.off /\ lo <= o(count)
      BY <2>3, <2>5, <2>7, <3>2, <3>4
    <3> HIDE DEF c
    <3>8. \A p \in InSpace(tbl, a, n) : OffOf(tbl, p[1], p[2]) <= a.off =>
                 /\ OffOf(tbl, p[1], p[2]) # a.off /\ OffOf(tbl, p[1], p[2]) <= c.off
                 /\ c.sym = 0 => c.off # 0
      BY <2>4, <2>6, <3>3, <3>4
    <3> QED BY <3>1, <3>3, <3>6, <3>7, <3>8 DEF FoundTo
  <2>8. CASE ~(count # 0 /\ (o(count) > b.off \/ (b.sym = 0 /\ b.off = 0)))
    <3>1. Better(tbl, a, n, b) = b
      BY <1>5, <1>11, <2>8
    <3>2. count # 0 => o(count) \in Nat /\ o(count) <= b.off /\ (b.sym = 0 => b.off # 0)
      BY <1>2, <1>8, <2>1, <2>8 DEF Bests
    <3>3. \A e \in DOMAIN s : o(e) <= a.off => o(e) <= b.off /\ (b.sym = 0 => b.off # 0)
      BY <1>2, <1>8, <2>4, <3>2 DEF Bests
    <3>4. \A p \in InSpace(tbl, a, n) : OffOf(tbl, p[1], p[2]) <= a.off =>
                 /\ OffOf(tbl, p[1], p[2]) # a.off /\ OffOf(tbl, p[1], p[2]) <= b.off
                 /\ b.sym = 0 => b.off # 0
      <4>1. ~b.exact /\ b.off <= b.off
        BY <1>8, <1>11 DEF Bests
      <4> QED BY <1>8, <2>6, <3>3, <4>1
    <3> QED BY <1>6, <1>11, <3>1, <3>4 DEF FoundTo
  <2> QED BY <2>7, <2>8
<1> QED BY <1>9, <1>10, <1>11

\* The whole table.
LEMMA SearchFinds ==
  ASSUME NEW tbl, NEW a, a.off \in Nat, NEW lo \in Nat, Searchable(tbl)
  PROVE  FoundTo(tbl, a, lo, Len(Table(tbl).segs), TableSearchForAddr(tbl, a, lo))
<1> DEFINE N == Len(Table(tbl).segs)
           first == [NoBest EXCEPT !.off = lo]
           B(i, b) == Better(tbl, a, i, b)
           step == [p \in (1..N) \X Bests |-> IF B(p[1], p[2]) \in Bests THEN B(p[1], p[2]) ELSE first]
<1>1. N \in Nat
  BY DEF Searchable
<1>2. first \in Bests /\ FoundTo(tbl, a, lo, 0, first)
  <2>1. first \in Bests /\ first.sym = 0 /\ first.off = lo /\ ~first.exact
    <3>1. NoBest \in Bests /\ NoBest.sym = 0 /\ ~NoBest.exact
      BY DEF NoBest, Bests
    <3>2. first \in Bests /\ first.off = lo
      BY <3>1 DEF Bests
    <3>3. first.sym = NoBest.sym /\ first.exact = NoBest.exact
      BY <3>1 DEF Bests
    <3> HIDE DEF first
    <3> QED BY <3>1, <3>2, <3>3
  <2>2. InSpace(tbl, a, 0) = {}
    BY DEF InSpace, EntriesTo
  <2> HIDE DEF first
  <2> QED BY <2>1, <2>2 DEF FoundTo
<1> HIDE DEF first
<1>3. \A i \in 1..N, b \in Bests :
        /\ step[<<i, b>>] \in Bests
        /\ B(i, b) \in Bests => step[<<i, b>>] = B(i, b)
  BY <1>2
<1>4. step \in [(1..N) \X Bests -> Bests]
  BY <1>2
<1> HIDE DEF N, step, B
<1>5. PICK f : Recursive(f, N, Bests, first, step)
  BY <1>1, <1>2, <1>4, RecursionExists
<1>6. f \in [0..N -> Bests] /\ f[0] = first /\ \A i \in 1..N : f[i] = step[<<i, f[i - 1]>>]
  BY <1>5 DEF Recursive
<1>7. \A i \in 1..N : \A b : FoundTo(tbl, a, lo, i - 1, b) => FoundTo(tbl, a, lo, i, B(i, b))
  BY FoundMore DEF N, B
<1>8. \A i \in 0..N : FoundTo(tbl, a, lo, i, f[i])
  <2> DEFINE S == {i \in 0..N : FoundTo(tbl, a, lo, i, f[i])}
  <2>1. 0 \in S
    BY <1>1, <1>2, <1>6
  <2>2. ASSUME NEW i \in 1..N, i - 1 \in S PROVE i \in S
    <3>1. i \in 0..N /\ i - 1 \in 0..N
      BY <1>1
    <3>2. FoundTo(tbl, a, lo, i, B(i, f[i - 1]))
      BY <1>7, <2>2
    <3>3. B(i, f[i - 1]) \in Bests /\ f[i - 1] \in Bests
      BY <1>6, <3>1, <3>2 DEF FoundTo
    <3>4. f[i] = B(i, f[i - 1])
      BY <1>3, <1>6, <3>3
    <3> QED BY <3>1, <3>2, <3>4
  <2> HIDE DEF S
  <2>3. \A i \in 0..N : i \in S
    BY <1>1, <2>1, <2>2, IntervalInduction
  <2> QED BY <2>3 DEF S
<1>9. \A i \in 1..N : f[i] = B(i, f[i - 1])
  <2> SUFFICES ASSUME NEW i \in 1..N PROVE f[i] = B(i, f[i - 1])
    OBVIOUS
  <2>1. i - 1 \in 0..N
    BY <1>1
  <2>2. FoundTo(tbl, a, lo, i, B(i, f[i - 1]))
    BY <1>7, <1>8, <2>1
  <2>3. B(i, f[i - 1]) \in Bests /\ f[i - 1] \in Bests
    BY <1>6, <2>1, <2>2 DEF FoundTo
  <2> QED BY <1>3, <1>6, <2>3
<1> DEFINE g == Searching(tbl, a, lo)
           Fits(h) == h = [i \in 0..N |-> IF i = 0 THEN first ELSE B(i, h[i - 1])]
<1>10. Fits(f)
  BY <1>6, <1>9
<1>11. g = CHOOSE h : Fits(h)
  BY DEF Searching, N, first, B
<1>12. Fits(g)
  <2> HIDE DEF g, Fits
  <2> QED BY <1>10, <1>11
<1> HIDE DEF g
<1>13. g[0] = first /\ \A i \in 1..N : g[i] = B(i, g[i - 1])
  <2>1. 0 \in 0..N /\ \A i \in 1..N : i \in 0..N /\ i # 0
    BY <1>1
  <2> QED BY <1>12, <2>1
<1>14. \A i \in 0..N : FoundTo(tbl, a, lo, i, g[i])
  <2> DEFINE S == {i \in 0..N : FoundTo(tbl, a, lo, i, g[i])}
  <2>1. 0 \in S
    BY <1>1, <1>2, <1>13
  <2>2. ASSUME NEW i \in 1..N, i - 1 \in S PROVE i \in S
    <3>1. i \in 0..N
      BY <1>1
    <3> QED BY <1>7, <1>13, <2>2, <3>1
  <2> HIDE DEF S
  <2>3. \A i \in 0..N : i \in S
    BY <1>1, <2>1, <2>2, IntervalInduction
  <2> QED BY <2>3 DEF S
<1>15. FoundTo(tbl, a, lo, N, g[N])
  BY <1>1, <1>14
<1>16. TableSearchForAddr(tbl, a, lo) = g[N]
  BY SearchIs DEF g, N
<1> QED BY <1>15, <1>16 DEF N

-----------------------------------------------------------------------------
(***************************************************************************)
(* The addresses of a table's records, and of its segments.                *)
(***************************************************************************)
FileNow == img[cur].file
RefersTo(tbl, k) == Refers(FileNow, Table(tbl).recs[k])
PlaceOf(tbl, g, e) == [seg |-> SegAt(g).seg, off |-> OffOf(tbl, g, e)]
Places(tbl) == {Location(Rec(h)) : h \in PlacedIn(tbl)}

\* The tables of an image that symbols are asked of.
LEMMA TablesWritten ==
  ASSUME AddressesWritten, Inv, MapInv, pc \in EntryPoints, NEW tbl \in Tables
  PROVE  /\ Searchable(tbl)
         /\ Len(Table(tbl).recs) \in Nat /\ DOMAIN Table(tbl).recs = 1..Len(Table(tbl).recs)
         /\ \A k \in DOMAIN Table(tbl).recs :
              /\ Table(tbl).recs[k].code \in Reference =>
                   /\ Table(tbl).recs[k].im \in DOMAIN Info[FileNow].syms
                   /\ Table(tbl).recs[k].sym \in DOMAIN Info[FileNow].syms[Table(tbl).recs[k].im]
                   /\ RefersTo(tbl, k).code \in Placed
              /\ RefersTo(tbl, k).code \in Placed =>
                   \E p \in EntriesTo(tbl, Len(Table(tbl).segs)) :
                     Table(tbl).segs[p[1]][p[2]].sym = k
         /\ \A p \in EntriesTo(tbl, Len(Table(tbl).segs)) :
              LET k == Table(tbl).segs[p[1]][p[2]].sym IN
              /\ k \in DOMAIN Table(tbl).recs /\ RefersTo(tbl, k).code \in Placed
              /\ Location(RefersTo(tbl, k)) = PlaceOf(tbl, p[1], p[2])
<1>1. cur \in ImageList /\ FileNow \in Files /\ pc \notin Unmapped
  BY DEF Inv, LoadInv, Where, EntryPoints, Unmapped, LoadSteps, FileNow
<1>2. \A k \in DOMAIN Info[FileNow].segs : img[cur].mapping[k].offset \in Nat
  <2>1. PICK ii : ii = cur
    OBVIOUS
  <2>2. MapOf(ii)
    BY <1>1, <2>1 DEF MapInv
  <2> QED BY <1>1, <2>1, <2>2 DEF MapOf, FileNow
<1>3. Len(Info[FileNow].segs) \in Nat /\ DOMAIN Info[FileNow].segs = 1..Len(Info[FileNow].segs)
  <2>1. Info[FileNow].segs \in Seq([frame : Nat, offset : Nat, execute : BOOLEAN])
    BY <1>1, SegmentsAssumption
  <2> QED BY <2>1, LenProperties
<1> DEFINE t == Info[FileNow].tables[tbl]
<1>4. Table(tbl) = t
  BY DEF Table, FileNow
<1>a. TableWritten(FileNow, t)
  BY <1>1 DEF AddressesWritten
<1> HIDE DEF t
<1>5. /\ Len(t.segs) \in 0..Len(Info[FileNow].segs) /\ DOMAIN t.segs = 1..Len(t.segs)
      /\ Len(t.recs) \in Nat /\ DOMAIN t.recs = 1..Len(t.recs)
      /\ \A k \in DOMAIN t.recs :
           /\ t.recs[k].code \in Reference =>
                /\ t.recs[k].im \in DOMAIN Info[FileNow].syms
                /\ t.recs[k].sym \in DOMAIN Info[FileNow].syms[t.recs[k].im]
                /\ Refers(FileNow, t.recs[k]).code \in Placed
           /\ Refers(FileNow, t.recs[k]).code \in Placed =>
                \E g \in DOMAIN t.segs : \E e \in DOMAIN t.segs[g] : t.segs[g][e].sym = k
  BY <1>a DEF TableWritten, RecordWritten
<1>6. \A g \in DOMAIN t.segs :
           /\ Len(t.segs[g]) \in Nat /\ DOMAIN t.segs[g] = 1..Len(t.segs[g])
           /\ \A e \in DOMAIN t.segs[g] :
                LET r == Refers(FileNow, t.recs[t.segs[g][e].sym]) IN
                /\ t.segs[g][e].sym \in DOMAIN t.recs /\ t.segs[g][e].off \in Nat
                /\ r.code \in Placed /\ r.seg = g /\ r.off = t.segs[g][e].off
           /\ \A d, e \in DOMAIN t.segs[g] : d < e => t.segs[g][d].off <= t.segs[g][e].off
  BY <1>a DEF TableWritten, SegmentWritten
<1>7. \A g \in DOMAIN t.segs : img[cur].mapping[g].offset \in Nat
  BY <1>2, <1>3, <1>5
<1>8. \A g : SegAt(g).seg = img[cur].mapping[g].frame /\ SegAt(g).off = img[cur].mapping[g].offset + 0
  BY DEF SegAt, MapLogical
<1>9. Searchable(tbl)
  <2>1. Len(t.segs) \in Nat
    BY <1>3, <1>5
  <2> SUFFICES ASSUME NEW g \in DOMAIN t.segs
               PROVE  /\ SegAt(g).off \in Nat /\ Len(t.segs[g]) \in Nat
                      /\ DOMAIN t.segs[g] = 1..Len(t.segs[g])
                      /\ \A e \in DOMAIN t.segs[g] : t.segs[g][e].sym \in Nat \ {0}
                                                     /\ t.segs[g][e].off \in Nat
                      /\ \A d, e \in DOMAIN t.segs[g] : d < e => t.segs[g][d].off <= t.segs[g][e].off
    BY <1>4, <1>5, <2>1 DEF Searchable
  <2>2. SegAt(g).off \in Nat
    BY <1>7, <1>8
  <2>3. \A e \in DOMAIN t.segs[g] : t.segs[g][e].sym \in Nat \ {0} /\ t.segs[g][e].off \in Nat
    BY <1>5, <1>6
  <2> QED BY <1>6, <2>2, <2>3
<1>10. \A p : p \in EntriesTo(tbl, Len(t.segs)) <=>
           /\ p = <<p[1], p[2]>> /\ p[1] \in DOMAIN t.segs /\ p[2] \in DOMAIN t.segs[p[1]]
  <2>1. \A g \in DOMAIN t.segs : DOMAIN t.segs[g] \subseteq Nat
    BY <1>6
  <2> QED BY <1>4, <1>5, <2>1 DEF EntriesTo
<1>11. ASSUME NEW p \in EntriesTo(tbl, Len(t.segs))
       PROVE  /\ t.segs[p[1]][p[2]].sym \in DOMAIN t.recs
              /\ Refers(FileNow, t.recs[t.segs[p[1]][p[2]].sym]).code \in Placed
              /\ Location(Refers(FileNow, t.recs[t.segs[p[1]][p[2]].sym])) = PlaceOf(tbl, p[1], p[2])
  <2> DEFINE r == Refers(FileNow, t.recs[t.segs[p[1]][p[2]].sym])
             g == p[1]
             e == p[2]
  <2>1. g \in DOMAIN t.segs /\ e \in DOMAIN t.segs[g]
    BY <1>10
  <2>2. /\ t.segs[g][e].sym \in DOMAIN t.recs /\ t.segs[g][e].off \in Nat
        /\ r.code \in Placed /\ r.seg = g /\ r.off = t.segs[g][e].off
    BY <1>6, <2>1
  <2> HIDE DEF r, g, e
  <2>3. Location(r) = [seg |-> img[cur].mapping[g].frame,
                       off |-> img[cur].mapping[g].offset + t.segs[g][e].off]
    BY <2>2 DEF Location, MapLogical
  <2>4. PlaceOf(tbl, g, e) = [seg |-> img[cur].mapping[g].frame,
                              off |-> t.segs[g][e].off + (img[cur].mapping[g].offset + 0)]
    BY <1>4, <1>8 DEF PlaceOf, OffOf
  <2>5. img[cur].mapping[g].offset \in Nat
    BY <1>7, <2>1
  <2>6. Location(r) = PlaceOf(tbl, g, e)
    BY <2>2, <2>3, <2>4, <2>5
  <2> QED BY <2>2, <2>6 DEF r, g, e
<1>12. \A k \in DOMAIN t.recs : Refers(FileNow, t.recs[k]).code \in Placed =>
          \E p \in EntriesTo(tbl, Len(t.segs)) : t.segs[p[1]][p[2]].sym = k
  <2> SUFFICES ASSUME NEW k \in DOMAIN t.recs, Refers(FileNow, t.recs[k]).code \in Placed
               PROVE  \E p \in EntriesTo(tbl, Len(t.segs)) : t.segs[p[1]][p[2]].sym = k
    OBVIOUS
  <2>1. PICK g \in DOMAIN t.segs : \E e \in DOMAIN t.segs[g] : t.segs[g][e].sym = k
    BY <1>5
  <2>2. PICK e \in DOMAIN t.segs[g] : t.segs[g][e].sym = k
    BY <2>1
  <2>3. <<g, e>> \in EntriesTo(tbl, Len(t.segs))
    BY <1>10
  <2> QED BY <2>2, <2>3
<1> QED BY <1>4, <1>5, <1>9, <1>11, <1>12 DEF RefersTo

\* The record of a handle does not depend on the module left in it.
LEMMA RecordIs ==
  ASSUME NEW tbl \in Tables, NEW k, NEW im,
         Table(tbl).recs[k].code \in Reference =>
           Table(tbl).recs[k].im \in DOMAIN Info[FileNow].syms
  PROVE  Rec(SymFillIn(tbl, k, im)) = RefersTo(tbl, k)
<1>1. tbl # "AlignSym"
  BY DEF Tables
<1>2. CASE Table(tbl).recs[k].code \in Reference
  BY <1>1, <1>2 DEF SymFillIn, Rec, ModuleSym, RefersTo, Refers, Syms, FileNow
<1>3. CASE Table(tbl).recs[k].code \notin Reference
  BY <1>1, <1>3 DEF SymFillIn, Rec, RefersTo, Refers
<1> QED BY <1>2, <1>3

\* The addresses of its records are those of its segments.
LEMMA PlacesAre ==
  ASSUME AddressesWritten, Inv, MapInv, pc \in EntryPoints, NEW tbl \in Tables
  PROVE  Places(tbl) = {PlaceOf(tbl, p[1], p[2]) : p \in EntriesTo(tbl, Len(Table(tbl).segs))}
<1>1. \A k \in DOMAIN Table(tbl).recs : Rec(SymFillIn(tbl, k, 0)) = RefersTo(tbl, k)
  BY TablesWritten, RecordIs
<1>2. ASSUME NEW h \in PlacedIn(tbl)
      PROVE  \E p \in EntriesTo(tbl, Len(Table(tbl).segs)) :
               Location(Rec(h)) = PlaceOf(tbl, p[1], p[2])
  <2>1. PICK k \in DOMAIN Table(tbl).recs : h = SymFillIn(tbl, k, 0) /\ Rec(h).code \in Placed
    BY DEF PlacedIn, InTable
  <2>2. Rec(h) = RefersTo(tbl, k)
    BY <1>1, <2>1
  <2> QED BY <2>1, <2>2, TablesWritten
<1>3. ASSUME NEW p \in EntriesTo(tbl, Len(Table(tbl).segs))
      PROVE  \E h \in PlacedIn(tbl) : Location(Rec(h)) = PlaceOf(tbl, p[1], p[2])
  <2> DEFINE k == Table(tbl).segs[p[1]][p[2]].sym
  <2>1. /\ k \in DOMAIN Table(tbl).recs /\ RefersTo(tbl, k).code \in Placed
        /\ Location(RefersTo(tbl, k)) = PlaceOf(tbl, p[1], p[2])
    BY TablesWritten
  <2> HIDE DEF k
  <2>2. SymFillIn(tbl, k, 0) \in PlacedIn(tbl)
    BY <1>1, <2>1 DEF PlacedIn, InTable
  <2> QED BY <1>1, <2>1, <2>2
<1> QED BY <1>2, <1>3 DEF Places

-----------------------------------------------------------------------------
(***************************************************************************)
(* The symbol of an address.  A sixth invariant: the best of the tables    *)
(* searched is the nearest of them.                                        *)
(***************************************************************************)
Before(tbl) == IF tbl = "StaticSym" THEN {}
               ELSE IF tbl = "GlobalSym" THEN {"StaticSym"} ELSE {"StaticSym", "GlobalSym"}
Below(tbls) ==
  {b \in UNION {Places(t) : t \in tbls} : b.seg = call.addr.seg /\ b.off <= call.addr.off}
Reach(tbls) == {b.off : b \in Below(tbls)}

\* What was handed out is the nearest of the tables.
NearestIn(tbls, o, off) ==
  /\ off \in Nat
  /\ Reach(tbls) = {} => o = <<>> /\ off = 0
  /\ Reach(tbls) # {} => /\ o # <<>> /\ off \in Reach(tbls) /\ \A x \in Reach(tbls) : x <= off
                         /\ Location(Rec(o[1])) = [call.addr EXCEPT !.off = off]

AddrAt ==
  /\ pc \in {"enter", "addr", "done"}
  /\ pc = "enter" => call.best = NoBest
  /\ pc = "addr" => /\ call.tbl \in Tables /\ NearestIn(Before(call.tbl), out, call.best.off)
                    /\ call.addr.off \notin Reach(Before(call.tbl))
  /\ pc = "done" /\ wr # "FAIL" =>
       /\ \E off : NearestIn(Tables, out, off)
       /\ wr = "NONE" <=> Reach(Tables) = {}
       /\ wr = "EXACT" <=> call.addr.off \in Reach(Tables)
AddrInv == pc \in EntryPoints /\ call.op = "addr" => AddrAt

\* No call has found anything yet.
LEMMA BestMade ==
  ASSUME NEW ii, NEW c \in TypeCalls(ii) \cup SymCalls(ii)
  PROVE  c.best = NoBest
<1> DEFINE Is(x) == x = [f \in CallFields |-> x[f]] /\ x.best = NoBest
<1>1. Is(NoCall)
  <2>1. NoCall.best = NoBest
    BY DEF NoCall
  <2> QED BY <2>1, NoCallIs
<1>2. ASSUME NEW op PROVE Is(Op(op))
  BY <1>1 DEF Op, CallFields
<1>3. ASSUME NEW op, NEW x PROVE Is(OfType(op, x)) /\ Is(At1(op, x))
  BY <1>2 DEF OfType, At1, CallFields
<1>4. ASSUME NEW x, NEW y
      PROVE  /\ Is(NestedCall(x, y)) /\ Is(ArrayCall(x, y)) /\ Is(ThunkCall(x, y))
             /\ Is(TagCall(x, y)) /\ Is(ModLookupCall(x, y))
  <2>1. Is(OfType("nested", x)) /\ Is(OfType("array", x)) /\ Is(OfType("thunk", x))
    BY <1>3
  <2>2. Is(Op("tag")) /\ Is(Op("modlookup"))
    BY <1>2
  <2>3. Is(NestedCall(x, y))
    BY <2>1 DEF NestedCall, CallFields
  <2>4. Is(ArrayCall(x, y))
    BY <2>1 DEF ArrayCall, CallFields
  <2>5. Is(ThunkCall(x, y))
    BY <2>1 DEF ThunkCall, CallFields
  <2>6. Is(TagCall(x, y))
    BY <2>2 DEF TagCall, CallFields
  <2>7. Is(ModLookupCall(x, y))
    BY <2>2 DEF ModLookupCall, CallFields
  <2> QED BY <2>3, <2>4, <2>5, <2>6, <2>7
<1>5. ASSUME NEW x PROVE Is(ModuleCall(x)) /\ Is(AllModulesCall)
  <2>1. Is(Op("module"))
    BY <1>2
  <2> QED BY <2>1 DEF ModuleCall, AllModulesCall, CallFields
<1>6. ASSUME NEW a, NEW n, NEW t PROVE Is(LookupCall(a, n, t))
  <2>1. Is(At1("lookup", a))
    BY <1>3
  <2> QED BY <2>1 DEF LookupCall, CallFields
<1> HIDE DEF Is
<1>7. Is(c)
  <2>1. CASE c \in TypeCalls(ii)
    BY <1>3, <1>4, <2>1 DEF TypeCalls
  <2>2. CASE c \in SymCalls(ii)
    BY <1>3, <1>4, <1>5, <1>6, <2>2 DEF SymCalls
  <2> QED BY <2>1, <2>2
<1> QED BY <1>7 DEF Is

\* The addresses stay while the call asks the same.
LEMMA ReachStays ==
  ASSUME UNCHANGED <<img, cur>>, call'.addr = call.addr
  PROVE  /\ \A tbl : Places(tbl)' = Places(tbl)
         /\ \A tbls : Reach(tbls)' = Reach(tbls)
         /\ \A h : Location(Rec(h))' = Location(Rec(h))
         /\ \A tbls, o, off : NearestIn(tbls, o, off)' = NearestIn(tbls, o, off)
<1>1. \A tbl : Table(tbl)' = Table(tbl)
  BY DEF Table
<1>2. \A h : Rec(h)' = Rec(h)
  BY <1>1 DEF Rec, Syms
<1>3. \A tbl, k, im : SymFillIn(tbl, k, im)' = SymFillIn(tbl, k, im)
  BY <1>1 DEF SymFillIn
<1>4. \A h : Location(Rec(h))' = Location(Rec(h))
  BY <1>2 DEF Location, MapLogical
<1>5. \A tbl : PlacedIn(tbl)' = PlacedIn(tbl)
  BY <1>1, <1>2, <1>3 DEF PlacedIn, InTable
<1>6. \A tbl : Places(tbl)' = Places(tbl)
  BY <1>4, <1>5 DEF Places
<1>7. \A tbls : Reach(tbls)' = Reach(tbls)
  BY <1>6 DEF Reach, Below
<1>8. \A tbls, o, off : NearestIn(tbls, o, off)' = NearestIn(tbls, o, off)
  BY <1>4, <1>7 DEF NearestIn
<1> QED BY <1>4, <1>6, <1>7, <1>8

\* The reach of a table, by its segments.
LEMMA ReachIs ==
  ASSUME AddressesWritten, Inv, MapInv, pc \in EntryPoints, NEW tbl \in Tables
  PROVE  /\ \A x : x \in Reach({tbl}) <=>
              \E p \in InSpace(tbl, call.addr, Len(Table(tbl).segs)) :
                x = OffOf(tbl, p[1], p[2]) /\ x <= call.addr.off
         /\ Reach({tbl}) \subseteq Nat
<1> DEFINE N == Len(Table(tbl).segs)
<1>1. Places(tbl) = {PlaceOf(tbl, p[1], p[2]) : p \in EntriesTo(tbl, N)}
  BY PlacesAre
<1>2. \A x : x \in Reach({tbl}) <=>
        \E p \in EntriesTo(tbl, N) :
          /\ x = OffOf(tbl, p[1], p[2]) /\ SegAt(p[1]).seg = call.addr.seg /\ x <= call.addr.off
  <2>1. \A g, e : PlaceOf(tbl, g, e).seg = SegAt(g).seg /\ PlaceOf(tbl, g, e).off = OffOf(tbl, g, e)
    BY DEF PlaceOf
  <2>2. \A x : x \in Reach({tbl}) <=>
          \E b \in Places(tbl) : b.seg = call.addr.seg /\ b.off <= call.addr.off /\ x = b.off
    BY DEF Reach, Below
  <2>3. ASSUME NEW x, x \in Reach({tbl})
        PROVE  \E p \in EntriesTo(tbl, N) :
                 /\ x = OffOf(tbl, p[1], p[2]) /\ SegAt(p[1]).seg = call.addr.seg
                 /\ x <= call.addr.off
    <3>1. PICK b \in Places(tbl) : b.seg = call.addr.seg /\ b.off <= call.addr.off /\ x = b.off
      BY <2>2, <2>3
    <3>2. PICK p \in EntriesTo(tbl, N) : b = PlaceOf(tbl, p[1], p[2])
      BY <1>1, <3>1
    <3> QED BY <2>1, <3>1, <3>2
  <2>4. ASSUME NEW x, NEW p \in EntriesTo(tbl, N), x = OffOf(tbl, p[1], p[2]),
               SegAt(p[1]).seg = call.addr.seg, x <= call.addr.off
        PROVE  x \in Reach({tbl})
    <3>1. PlaceOf(tbl, p[1], p[2]) \in Places(tbl)
      BY <1>1
    <3> QED BY <2>1, <2>2, <2>4, <3>1
  <2> QED BY <2>3, <2>4
<1>3. ASSUME NEW p \in EntriesTo(tbl, N) PROVE OffOf(tbl, p[1], p[2]) \in Nat
  <2>1. Searchable(tbl)
    BY TablesWritten
  <2>2. p[1] \in 1..N /\ p[2] \in DOMAIN Table(tbl).segs[p[1]]
    BY DEF EntriesTo
  <2>3. /\ SegAt(p[1]).off \in Nat
        /\ \A e \in DOMAIN Table(tbl).segs[p[1]] : Table(tbl).segs[p[1]][e].off \in Nat
    BY <2>1, <2>2 DEF Searchable
  <2> QED BY <2>2, <2>3 DEF OffOf
<1> QED BY <1>2, <1>3 DEF InSpace

\* One table more.
LEMMA NearestMore ==
  ASSUME AddressesWritten, Inv, MapInv, pc \in EntryPoints, NEW tbl \in Tables,
         NEW tbls \in SUBSET Tables, call.addr \in [seg : Nat, off : Nat],
         NEW o, NEW lo, NearestIn(tbls, o, lo), call.addr.off \notin Reach(tbls), NEW im, NEW best,
         best = TableSearchForAddr(tbl, call.addr, lo)
  PROVE  /\ NearestIn(tbls \cup {tbl}, IF best.sym = 0 THEN o ELSE <<SymFillIn(tbl, best.sym, im)>>,
                      best.off)
         /\ best.exact <=> call.addr.off \in Reach(tbls \cup {tbl})
         /\ best \in Bests
<1> DEFINE a == call.addr
           N == Len(Table(tbl).segs)
           h == SymFillIn(tbl, best.sym, im)
           more == tbls \cup {tbl}
<1>1. lo \in Nat /\ a.off \in Nat
  BY DEF NearestIn
<1>2. FoundTo(tbl, a, lo, N, best)
  BY <1>1, TablesWritten, SearchFinds
<1>3. Reach(more) = Reach(tbls) \cup Reach({tbl})
  BY DEF Reach, Below
<1>4. /\ \A x : x \in Reach({tbl}) <=>
           \E p \in InSpace(tbl, a, N) : x = OffOf(tbl, p[1], p[2]) /\ x <= a.off
      /\ Reach({tbl}) \subseteq Nat
  BY ReachIs
<1>5. InSpace(tbl, a, N) \subseteq EntriesTo(tbl, N)
  BY DEF InSpace
<1>6. ASSUME NEW p \in InSpace(tbl, a, N), best.sym = Table(tbl).segs[p[1]][p[2]].sym
      PROVE  /\ best.sym # 0
             /\ Location(Rec(h)) = [a EXCEPT !.off = OffOf(tbl, p[1], p[2])]
  <2>1. /\ best.sym \in DOMAIN Table(tbl).recs
        /\ Location(RefersTo(tbl, best.sym)) = PlaceOf(tbl, p[1], p[2])
    BY <1>5, <1>6, TablesWritten
  <2>2. best.sym # 0
    BY <2>1, TablesWritten
  <2>3. Rec(h) = RefersTo(tbl, best.sym)
    BY <2>1, TablesWritten, RecordIs
  <2>4. PlaceOf(tbl, p[1], p[2]) = [a EXCEPT !.off = OffOf(tbl, p[1], p[2])]
    BY DEF PlaceOf, InSpace
  <2> QED BY <2>1, <2>2, <2>3, <2>4
<1>7. best.sym # 0 => h = SymFillIn(tbl, best.sym, im)
  OBVIOUS
<1>8. best \in Bests
  BY <1>2 DEF FoundTo
<1> DEFINE o2 == IF best.sym = 0 THEN o ELSE <<h>>
<1>9. best.sym # 0 => o2 # <<>> /\ o2[1] = h
  OBVIOUS
<1>10. best.sym = 0 => o2 = o
  OBVIOUS
<1>11. /\ Reach(tbls) = {} => o = <<>> /\ lo = 0
       /\ Reach(tbls) # {} => /\ o # <<>> /\ lo \in Reach(tbls) /\ \A x \in Reach(tbls) : x <= lo
                              /\ Location(Rec(o[1])) = [a EXCEPT !.off = lo]
  BY DEF NearestIn
<1>12. \A x \in Reach(more) : x <= a.off
  BY DEF Reach, Below
<1>13. Reach(tbls) \subseteq Nat /\ a.off \notin Reach(tbls)
  <2>1. \A t \in tbls : Reach({t}) \subseteq Nat
    BY ReachIs
  <2>2. Reach(tbls) \subseteq UNION {Reach({t}) : t \in tbls}
    BY DEF Reach, Below
  <2> QED BY <2>1, <2>2
<1>14. best.exact => NearestIn(more, o2, best.off) /\ a.off \in Reach(more)
  <2> SUFFICES ASSUME best.exact PROVE NearestIn(more, o2, best.off) /\ a.off \in Reach(more)
    OBVIOUS
  <2>1. PICK p \in InSpace(tbl, a, N) :
          best.sym = Table(tbl).segs[p[1]][p[2]].sym /\ OffOf(tbl, p[1], p[2]) = a.off
    BY <1>2 DEF FoundTo
  <2>2. best.off = a.off
    BY <1>2 DEF FoundTo
  <2>3. best.sym # 0 /\ Location(Rec(h)) = [a EXCEPT !.off = OffOf(tbl, p[1], p[2])]
    BY <1>6, <2>1
  <2> HIDE DEF a, N, h, o2, more
  <2>4. a.off <= a.off
    BY <1>1
  <2>5. a.off \in Reach({tbl})
    BY <1>4, <2>1, <2>4
  <2>6. a.off \in Reach(more)
    BY <1>3, <2>5
  <2>7. Location(Rec(o2[1])) = [a EXCEPT !.off = best.off] /\ o2 # <<>>
    BY <1>9, <2>1, <2>2, <2>3
  <2>8. \A x \in Reach(more) : x <= best.off
    BY <1>12, <2>2
  <2> QED BY <1>1, <2>2, <2>6, <2>7, <2>8 DEF NearestIn, a
<1>15. ~best.exact => NearestIn(more, o2, best.off) /\ a.off \notin Reach(more)
  <2> SUFFICES ASSUME ~best.exact PROVE NearestIn(more, o2, best.off) /\ a.off \notin Reach(more)
    OBVIOUS
  <2>1. /\ \A p \in InSpace(tbl, a, N) : OffOf(tbl, p[1], p[2]) <= a.off =>
             /\ OffOf(tbl, p[1], p[2]) # a.off /\ OffOf(tbl, p[1], p[2]) <= best.off
             /\ best.sym = 0 => best.off # 0
        /\ best.sym = 0 => best.off = lo
        /\ best.sym # 0 => /\ lo <= best.off
                           /\ \E p \in InSpace(tbl, a, N) :
                                /\ best.sym = Table(tbl).segs[p[1]][p[2]].sym
                                /\ best.off = OffOf(tbl, p[1], p[2]) /\ best.off < a.off
    BY <1>2 DEF FoundTo
  <2>2. best.off \in Nat
    BY <1>8 DEF Bests
  <2>3. \A x \in Reach({tbl}) : x # a.off /\ x <= best.off /\ (best.sym = 0 => best.off # 0)
    <3> HIDE DEF a, N
    <3> QED BY <1>4, <2>1
  <2>4. CASE best.sym = 0
    <3>1. o2 = o /\ best.off = lo
      BY <1>10, <2>1, <2>4
    <3>2. CASE Reach(tbls) = {}
      <4>1. lo = 0 /\ o = <<>>
        BY <1>11, <3>2
      <4>2. Reach({tbl}) = {}
        BY <2>3, <2>4, <3>1, <4>1
      <4>3. Reach(more) = {}
        BY <1>3, <3>2, <4>2
      <4> HIDE DEF o2, more
      <4> QED BY <3>1, <4>1, <4>3 DEF NearestIn
    <3>3. CASE Reach(tbls) # {}
      <4> HIDE DEF o2, more
      <4>1. /\ o # <<>> /\ lo \in Reach(tbls) /\ \A x \in Reach(tbls) : x <= lo
            /\ Location(Rec(o[1])) = [a EXCEPT !.off = lo]
        BY <1>11, <3>3
      <4>2. /\ lo \in Reach(more) /\ a.off \notin Reach(more)
            /\ \A x \in Reach(more) : x <= lo
        BY <1>3, <1>13, <2>3, <3>1, <4>1
      <4> QED BY <1>1, <3>1, <4>1, <4>2 DEF NearestIn, a
    <3> QED BY <3>2, <3>3
  <2>5. CASE best.sym # 0
    <3>1. PICK p \in InSpace(tbl, a, N) :
            /\ best.sym = Table(tbl).segs[p[1]][p[2]].sym
            /\ best.off = OffOf(tbl, p[1], p[2]) /\ best.off < a.off
      BY <2>1, <2>5
    <3>2. Location(Rec(o2[1])) = [a EXCEPT !.off = best.off] /\ o2 # <<>>
      BY <1>6, <1>9, <2>5, <3>1
    <3> HIDE DEF a, N, h, o2, more
    <3>3. best.off <= a.off
      BY <1>1, <2>2, <3>1
    <3>4. best.off \in Reach({tbl})
      BY <1>4, <3>1, <3>3
    <3>5. best.off \in Reach(more) /\ a.off \notin Reach(more)
      BY <1>3, <1>13, <2>3, <3>4
    <3>6. \A x \in Reach(tbls) : x <= best.off
      BY <1>1, <1>11, <1>13, <2>1, <2>2, <2>5
    <3>7. \A x \in Reach(more) : x <= best.off
      BY <1>3, <2>3, <3>6
    <3> QED BY <2>2, <3>2, <3>5, <3>7 DEF NearestIn, a
  <2> QED BY <2>4, <2>5
<1> QED BY <1>8, <1>14, <1>15

\* A table is searched.
LEMMA AddrStep ==
  ASSUME AddressesWritten, Inv, MapInv, CallOf, pc \in EntryPoints, AddrAt, AddrSym
  PROVE  AddrAt'
<1> DEFINE best == TableSearchForAddr(call.tbl, call.addr, call.best.off)
           h == SymFillIn(call.tbl, best.sym, call.is_im)
           o == IF best.sym = 0 THEN out ELSE <<h>>
           t == call.tbl
<1>1. /\ pc = "addr" /\ UNCHANGED <<img, cur>> /\ out' = o
      /\ \E im : call' = [call EXCEPT !.best = [best EXCEPT !.sym = 0], !.tbl = After(@),
                            !.is_im = im]
      /\ IF best.exact THEN Ends("EXACT")
         ELSE IF t = "GlobalPub" THEN Ends(IF out' = <<>> THEN "NONE" ELSE "CLOSEST")
         ELSE UNCHANGED <<pc, wr>>
  BY DEF AddrSym, others, files
<1>2. /\ t \in Tables /\ NearestIn(Before(t), out, call.best.off)
      /\ call.addr.off \notin Reach(Before(t)) /\ IsCall /\ call.addr \in [seg : Nat, off : Nat]
  BY <1>1 DEF AddrAt, CallOf
<1>3. /\ NearestIn(Before(t) \cup {t}, o, best.off) /\ best \in Bests
      /\ best.exact <=> call.addr.off \in Reach(Before(t) \cup {t})
  <2>1. Before(t) \in SUBSET Tables
    BY DEF Before, Tables
  <2>2. best = TableSearchForAddr(t, call.addr, call.best.off)
    OBVIOUS
  <2> HIDE DEF best, t
  <2>3. /\ NearestIn(Before(t) \cup {t},
                     IF best.sym = 0 THEN out ELSE <<SymFillIn(t, best.sym, call.is_im)>>, best.off)
        /\ best.exact <=> call.addr.off \in Reach(Before(t) \cup {t})
        /\ best \in Bests
    BY <1>2, <2>1, <2>2, NearestMore
  <2>4. o = IF best.sym = 0 THEN out ELSE <<SymFillIn(t, best.sym, call.is_im)>>
    BY DEF t
  <2> HIDE DEF o
  <2> QED BY <2>3, <2>4
<1> HIDE DEF best, h, o
<1>4. call'.addr = call.addr /\ call'.tbl = After(t) /\ call'.best.off = best.off
  <2>1. PICK im : call' = [call EXCEPT !.best = [best EXCEPT !.sym = 0], !.tbl = After(@),
                             !.is_im = im]
    BY <1>1
  <2>2. call'.addr = call.addr /\ call'.tbl = After(t) /\ call'.best = [best EXCEPT !.sym = 0]
    BY <1>2, <2>1 DEF IsCall, CallFields
  <2>3. [best EXCEPT !.sym = 0].off = best.off
    BY <1>3 DEF Bests
  <2> QED BY <2>2, <2>3
<1>5. /\ \A tbls, x, off : NearestIn(tbls, x, off)' = NearestIn(tbls, x, off)
      /\ \A tbls : Reach(tbls)' = Reach(tbls)
  BY <1>1, <1>4, ReachStays
<1>6. CASE best.exact
  <2>1. pc' = "done" /\ wr' = "EXACT"
    BY <1>1, <1>6 DEF Ends
  <2>2. call.addr.off \in Reach(Before(t) \cup {t})
    BY <1>3, <1>6
  <2>3. Reach(Before(t) \cup {t}) \subseteq Reach(Tables)
    BY <1>2 DEF Reach, Below, Before, Tables
  <2>4. NearestIn(Tables, o, best.off)
    <3>1. \A x \in Reach(Tables) : x <= call.addr.off
      BY DEF Reach, Below
    <3>2. /\ best.off \in Nat /\ o # <<>> /\ best.off \in Reach(Before(t) \cup {t})
          /\ \A x \in Reach(Before(t) \cup {t}) : x <= best.off
          /\ Location(Rec(o[1])) = [call.addr EXCEPT !.off = best.off]
      BY <1>3, <2>2 DEF NearestIn
    <3>3. best.off = call.addr.off
      <4>1. best.off \in Reach(Tables) /\ call.addr.off \in Nat
        BY <1>2, <2>3, <3>2
      <4>2. best.off <= call.addr.off /\ call.addr.off <= best.off
        BY <2>2, <3>1, <3>2, <4>1
      <4> QED BY <3>2, <4>1, <4>2
    <3> QED BY <2>3, <3>1, <3>2, <3>3 DEF NearestIn
  <2> QED BY <1>1, <1>4, <1>5, <2>1, <2>2, <2>3, <2>4 DEF AddrAt
<1>7. CASE ~best.exact /\ t = "GlobalPub"
  <2>1. pc' = "done" /\ wr' = IF o = <<>> THEN "NONE" ELSE "CLOSEST"
    BY <1>1, <1>7 DEF Ends
  <2>2. Before(t) \cup {t} = Tables
    BY <1>7 DEF Before, Tables
  <2>3. o = <<>> <=> Reach(Tables) = {}
    BY <1>3, <2>2 DEF NearestIn
  <2> QED BY <1>1, <1>3, <1>4, <1>5, <1>7, <2>1, <2>2, <2>3 DEF AddrAt
<1>8. CASE ~best.exact /\ t # "GlobalPub"
  <2>1. pc' = "addr"
    BY <1>1, <1>8
  <2>2. Before(After(t)) = Before(t) \cup {t} /\ After(t) \in Tables
    BY <1>2, <1>8 DEF Before, After, Tables
  <2> QED BY <1>1, <1>3, <1>4, <1>5, <1>8, <2>1, <2>2 DEF AddrAt
<1> QED BY <1>6, <1>7, <1>8

\* Nothing is in reach of no table.
LEMMA NothingReached == Reach({}) = {} /\ NearestIn({}, <<>>, 0)
<1>1. Reach({}) = {}
  BY DEF Reach, Below
<1> QED BY <1>1 DEF NearestIn

\* Every step keeps the sixth invariant.
LEMMA AddrStays ==
  ASSUME AddressesWritten, Inv, MapInv, CallInv, AddrInv, [Next]_vars
  PROVE  AddrInv'
<1>1. CASE UNCHANGED vars
  <2>1. UNCHANGED <<img, cur, pc, out, wr, call>>
    BY <1>1 DEF vars
  <2>2. /\ \A tbls, x, off : NearestIn(tbls, x, off)' = NearestIn(tbls, x, off)
        /\ \A tbls : Reach(tbls)' = Reach(tbls)
    BY <2>1, ReachStays
  <2> QED BY <2>1, <2>2 DEF AddrInv, AddrAt
<1>2. CASE Load \/ (LoadInfo /\ UNCHANGED locals)
  <2>1. pc' \in LoadSteps \cup {"idle"}
    BY <1>2 DEF Load, LoadInfo, FindCV, MapInfo, UnloadInfo, ListImage, LoadHeader, AllocBlock,
                ReadBlock, LoadMapping, LoadTypes, SetMADType, LoadFails, LoadSteps, locals
  <2> QED BY <2>1 DEF AddrInv, EntryPoints
<1>3. CASE Request
  <2>1. PICK ii \in Images : \E c \in TypeCalls(ii) \cup SymCalls(ii) : Enter(ii, c)
    BY <1>3 DEF Request
  <2>2. pc' = "enter" /\ call'.best = NoBest
    BY <2>1, BestMade DEF Enter
  <2> QED BY <2>2 DEF AddrInv, AddrAt
<1>4. CASE Finish
  BY <1>4 DEF Finish, AddrInv, EntryPoints
<1> SUFFICES ASSUME pc \in EntryPoints, call'.op = "addr",
                    \/ TypeListWalk /\ UNCHANGED call
                    \/ Dispatch \/ ScopeSearch \/ ScopeWalk \/ TableStep \/ PeelArray \/ CallFails
             PROVE  AddrAt'
  <2>1. TypeListWalk => pc \in EntryPoints
    BY WalkKeeps, CalledAt
  <2> QED BY <1>1, <1>2, <1>3, <1>4, <2>1, StaysCalled DEF Next, Step, AddrInv
<1>5. CallOf /\ IsCall
  BY DEF CallInv, CallOf
<1>6. CASE TypeListWalk /\ UNCHANGED call
  BY <1>6, WalkKeeps DEF AddrInv, AddrAt
<1>7. CASE Dispatch
  <2>1. CASE EnterAddr
    <3>1. /\ pc = "enter" /\ call.op = "addr" /\ pc' = "addr" /\ UNCHANGED <<img, cur, out>>
          /\ call' = [call EXCEPT !.tbl = "StaticSym"]
      BY <2>1 DEF EnterAddr, Entering, others, files
    <3>2. call.best = NoBest /\ out = <<>>
      BY <1>5, <3>1 DEF AddrInv, AddrAt, CallOf
    <3>3. call'.best.off = 0 /\ call'.tbl = "StaticSym" /\ call'.addr = call.addr
      BY <1>5, <3>1, <3>2 DEF IsCall, CallFields, NoBest
    <3>4. /\ \A tbls, x, off : NearestIn(tbls, x, off)' = NearestIn(tbls, x, off)
          /\ \A tbls : Reach(tbls)' = Reach(tbls)
      BY <3>1, <3>3, ReachStays
    <3>5. NearestIn(Before("StaticSym"), <<>>, 0) /\ Reach(Before("StaticSym")) = {}
      BY NothingReached DEF Before
    <3> QED BY <3>1, <3>2, <3>3, <3>4, <3>5 DEF AddrAt, Tables
  <2>2. ASSUME ~EnterAddr PROVE FALSE
    <3>1. CASE WalkMembers \/ SearchNested \/ ThunkAdjust \/ VFuncLocation \/ SearchTag
      <4>1. UNCHANGED call /\ call.op # "addr"
        BY <3>1 DEF WalkMembers, SearchNested, ThunkAdjust, VFuncLocation, SearchTag, Entering
      <4> QED BY <4>1
    <3>2. CASE EnterArray
      <4>1. call.op = "array" /\ call'.op = call.op
        BY <1>5, <3>2 DEF EnterArray, Entering, IsCall, CallFields
      <4> QED BY <4>1
    <3>3. CASE EnterScoped
      <4>1. call.op \in {"scoped", "block", "lookup"}
        BY <3>3 DEF EnterScoped
      <4>2. \/ \E im : call' = [call EXCEPT !.im = im, !.chk = 1]
            \/ call' = [call EXCEPT !.tbl = "StaticSym", !.chk = 1]
            \/ UNCHANGED call
        BY <3>3 DEF EnterScoped
      <4>3. call'.op = call.op
        BY <1>5, <4>2 DEF IsCall, CallFields
      <4> QED BY <4>1, <4>3
    <3>4. CASE EnterModule
      <4>1. call.op \in {"module", "modlookup"}
        BY <3>4 DEF EnterModule
      <4>2. \/ \E im, mods : call' = [call EXCEPT !.im = im, !.mods = mods]
            \/ call' = [call EXCEPT !.tbl = "GlobalSym", !.chk = 1]
        BY <3>4 DEF EnterModule
      <4>3. call'.op = call.op
        BY <1>5, <4>2 DEF IsCall, CallFields
      <4> QED BY <4>1, <4>3
    <3> QED BY <1>7, <2>2, <3>1, <3>2, <3>3, <3>4 DEF Dispatch
  <2> QED BY <2>1, <2>2
<1>8. CASE ScopeSearch \/ ScopeWalk \/ TableStep \/ PeelArray \/ CallFails
  <2>1. Asked
    BY <1>5, <1>8, SearchAsked, WalkAsked
  <2>2. call.op = "addr" /\ AddrAt
    BY <2>1 DEF Asked, AddrInv
  <2>3. pc \in {"enter", "addr", "done"}
    BY <2>2 DEF AddrAt
  <2>4. CASE AddrSym
    BY <1>5, <2>2, <2>4, AddrStep
  <2>5. CASE CallFails
    BY <2>5 DEF CallFails, Ends, AddrAt
  <2>6. ASSUME ~AddrSym, ~CallFails PROVE FALSE
    BY <1>8, <2>3, <2>6 DEF ScopeSearch, SearchSegment, SearchOutermost, SearchSmallest, ScopeWalk,
       EnterScope, ScopeWalkOne, ScopeWalkClass, ScopeFindNext, WalkBlock, ScopeOuter, EnterFile,
       ScopeWalkFile, TableStep, TableSearchForName, TableWalkSym, PeelArray
  <2> QED BY <2>4, <2>5, <2>6
<1> QED BY <1>6, <1>7, <1>8

\* The sixth invariant always holds.
LEMMA AlwaysAddr == ASSUME ScopesWritten, AddressesWritten PROVE Spec => []AddrInv
<1>1. Init => AddrInv
  BY DEF Init, InitLoad, InitSymbols, AddrInv, EntryPoints
<1>2. Spec => [](Inv /\ MapInv /\ CallInv)
  BY AlwaysInv, AlwaysMap, AlwaysCall, PTL
<1>3. Inv /\ MapInv /\ CallInv /\ AddrInv /\ [Next]_vars => AddrInv'
  BY AddrStays
<1> QED BY <1>1, <1>2, <1>3, PTL DEF Spec

\* What it says of the promise.
LEMMA NearestPromised ==
  ASSUME AddressesWritten, Inv, MapInv, CallInv, AddrInv
  PROVE  NearestSymbol
<1> SUFFICES ASSUME Done("addr"), wr # "FAIL" PROVE NearestSymbol
  BY DEF NearestSymbol
<1> DEFINE below == {Location(Rec(h)) : h \in UNION {PlacedIn(t) : t \in Tables}}
           reach == {a.off : a \in {b \in below : b.seg = call.addr.seg /\ b.off <= call.addr.off}}
<1>1. pc = "done" /\ call.op = "addr" /\ pc \in EntryPoints
  BY CalledAt DEF Done, SymbolPoints
<1>2. below = UNION {Places(t) : t \in Tables}
  BY DEF Places
<1>3. reach = Reach(Tables)
  BY <1>2 DEF Reach, Below
<1>4. /\ wr = "NONE" <=> Reach(Tables) = {}
      /\ wr = "EXACT" <=> call.addr.off \in Reach(Tables)
  BY <1>1 DEF AddrInv, AddrAt
<1>5. ASSUME Reach(Tables) # {}
      PROVE  Location(Rec(out[1])) = [call.addr EXCEPT !.off = Max(Reach(Tables))]
  <2>1. PICK off : NearestIn(Tables, out, off)
    BY <1>1 DEF AddrInv, AddrAt
  <2>2. /\ off \in Reach(Tables) /\ \A x \in Reach(Tables) : x <= off
        /\ Location(Rec(out[1])) = [call.addr EXCEPT !.off = off]
    BY <1>5, <2>1 DEF NearestIn
  <2>3. \A x \in Reach(Tables) : off >= x
    BY <2>2
  <2>4. Max(Reach(Tables)) \in Reach(Tables) /\ \A x \in Reach(Tables) : Max(Reach(Tables)) >= x
    BY <2>2, <2>3 DEF Max
  <2>5. Max(Reach(Tables)) = off
    <3>1. \A t \in Tables : Reach({t}) \subseteq Nat
      BY <1>1, ReachIs
    <3>2. Reach(Tables) \subseteq UNION {Reach({t}) : t \in Tables}
      BY DEF Reach, Below
    <3>3. Max(Reach(Tables)) \in Nat /\ off \in Nat
      BY <2>2, <2>4, <3>1, <3>2
    <3> QED BY <2>2, <2>4, <3>3
  <2> QED BY <2>2, <2>5
<1> QED BY <1>3, <1>4, <1>5 DEF NearestSymbol

-----------------------------------------------------------------------------
(***************************************************************************)
(* Where an image was loaded.  A seventh invariant: the segments of a      *)
(* mapped image are the file's at one of the places it is loaded at.       *)
(***************************************************************************)
MappedAt(f, mapping) ==
  \E where \in Info[f].places :
    mapping = [k \in DOMAIN Info[f].segs |-> DCMapAddr(Info[f].segs[k], where)]
PlaceInv ==
  /\ \A ii \in Images : img[ii].mapped => MappedAt(img[ii].file, img[ii].mapping)
  /\ pc \in LoadSteps => ~img[cur].mapped
  /\ pc \in EntryPoints => img[cur].mapped

\* One image changes.
LEMMA OnePlace ==
  ASSUME PlaceInv, NEW ii \in Images, \A jj \in Images : jj # ii => img'[jj] = img[jj],
         img'[ii].mapped => MappedAt(img'[ii].file, img'[ii].mapping),
         pc' \in LoadSteps => cur' = ii /\ ~img'[ii].mapped,
         pc' \in LoadSteps \cup {"idle"}
  PROVE  PlaceInv'
BY DEF PlaceInv, EntryPoints

\* Every step keeps the seventh invariant.
LEMMA PlaceStays ==
  ASSUME Inv, MapInv, PlaceInv, [Next]_vars
  PROVE  PlaceInv'
<1>1. PICK C : img \in [Images -> ImageType(C)]
  BY DEF Inv, LoadInv, Handles
<1>2. /\ cur # None => cur \in Images /\ pc # "idle" /\ img[cur].file \in Files
      /\ pc # "idle" => cur \in Images
      /\ \A ii \in ImageList : ii \in Images /\ img[ii].file \in Files
  BY DEF Inv, LoadInv, Handles, Where
<1>3. Fresh.mapped = FALSE
  BY DEF Fresh
<1>4. CASE UNCHANGED vars
  BY <1>4 DEF vars, PlaceInv
<1>5. ASSUME NEW ii \in Images, NEW f \in Files, FindCV(ii, f) PROVE PlaceInv'
  <2>1. /\ pc' = "vm" /\ cur' = ii /\ \A jj \in Images : jj # ii => img'[jj] = img[jj]
        /\ ~img'[ii].mapped
    BY <1>1, <1>5 DEF FindCV, Fresh
  <2> QED BY <2>1, OnePlace DEF LoadSteps
<1>6. ASSUME NEW ii \in ImageList, NEW where \in Info[img[ii].file].places, MapInfo(ii, where)
      PROVE  PlaceInv'
  <2> DEFINE segs == Info[img[ii].file].segs
  <2>1. /\ ii \in Images /\ pc = "idle" /\ pc' = "idle" /\ cur = None
        /\ \A jj \in Images : jj # ii => img'[jj] = img[jj]
        /\ img'[ii].file = img[ii].file /\ ~img[ii].mapped
        /\ img'[ii].mapping = [k \in DOMAIN img[ii].mapping |->
                                 DCMapAddr(img[ii].mapping[k], where)]
    BY <1>1, <1>2, <1>6 DEF MapInfo, ImageType, Inv, LoadInv, Where
  <2>2. img[ii].mapping = segs
    BY <2>1, FilesAssumption DEF MapInv, MapOf, Unmapped
  <2>3. MappedAt(img'[ii].file, img'[ii].mapping)
    BY <1>6, <2>1, <2>2 DEF MappedAt
  <2> QED BY <2>1, <2>3, OnePlace DEF LoadSteps
<1>7. ASSUME NEW ii \in Images, UnloadInfo(ii) PROVE PlaceInv'
  <2>1. /\ pc = "idle" /\ pc' = "idle" /\ \A jj \in Images : jj # ii => img'[jj] = img[jj]
        /\ ~img'[ii].mapped
    BY <1>1, <1>3, <1>7 DEF UnloadInfo
  <2> QED BY <2>1, OnePlace DEF LoadSteps
<1>8. CASE LoadFails
  <2>1. /\ pc \in LoadSteps /\ cur \in Images /\ pc' = "idle"
        /\ \A jj \in Images : jj # cur => img'[jj] = img[jj]
        /\ ~img'[cur].mapped
    BY <1>1, <1>2, <1>3, <1>8 DEF LoadFails, LoadSteps
  <2> QED BY <2>1, OnePlace DEF LoadSteps
<1>9. CASE LoadInfo /\ ~LoadFails
  <2>1. /\ pc \in LoadSteps /\ cur \in Images /\ pc' \in LoadSteps \cup {"idle"}
        /\ pc' # "idle" => cur' = cur
    BY <1>2, <1>9 DEF LoadInfo, ListImage, LoadHeader, AllocBlock, ReadBlock, LoadMapping,
                      LoadTypes, SetMADType, LoadSteps
  <2>2. ~img[cur].mapped
    BY <2>1 DEF PlaceInv
  <2>3. \A jj \in Images : jj # cur => img'[jj] = img[jj]
    BY <1>1, <1>9, <2>1 DEF LoadInfo, ListImage, LoadHeader, AllocBlock, ReadBlock, LoadMapping,
                      LoadTypes, SetMADType
  <2>4. img'[cur].mapped = img[cur].mapped
    <3>1. CASE ListImage \/ AllocBlock
      BY <3>1 DEF ListImage, AllocBlock
    <3>2. CASE LoadHeader
      BY <1>1, <2>1, <3>2 DEF LoadHeader, ImageType
    <3>3. CASE ReadBlock
      BY <1>1, <2>1, <3>3 DEF ReadBlock, ImageType
    <3>4. CASE LoadMapping
      BY <1>1, <2>1, <3>4 DEF LoadMapping, ImageType
    <3>5. CASE LoadTypes \/ SetMADType
      BY <1>1, <2>1, <3>5 DEF LoadTypes, SetMADType, ImageType
    <3> QED BY <1>9, <3>1, <3>2, <3>3, <3>4, <3>5 DEF LoadInfo
  <2>5. PICK ii \in Images : ii = cur
    BY <2>1
  <2>6. /\ \A jj \in Images : jj # ii => img'[jj] = img[jj]
        /\ ~img'[ii].mapped
        /\ pc' \in LoadSteps => cur' = ii
    BY <2>1, <2>2, <2>3, <2>4, <2>5 DEF LoadSteps
  <2> QED BY <2>1, <2>6, OnePlace
<1>10. CASE Request
  <2>1. PICK ii \in Images : Ready(ii) /\ \E c : Enter(ii, c)
    BY <1>10 DEF Request
  <2>2. pc' = "enter" /\ cur' = ii /\ UNCHANGED img /\ img[ii].mapped
    BY <2>1 DEF Ready, Enter
  <2> QED BY <2>2 DEF PlaceInv, LoadSteps
<1>11. CASE Finish
  BY <1>11 DEF Finish, PlaceInv, LoadSteps, EntryPoints
<1>12. CASE \/ TypeListWalk
            \/ Dispatch \/ ScopeSearch \/ ScopeWalk \/ TableStep \/ PeelArray \/ CallFails
  <2>1. UNCHANGED files /\ pc \in EntryPoints
    <3>1. CASE TypeListWalk
      BY <3>1, WalkKeeps, CalledAt
    <3> QED BY <1>12, <3>1, StaysCalled
  <2>2. pc' \notin LoadSteps
    <3>1. CASE TypeListWalk
      BY <3>1, WalkLeavesFiles
    <3> QED BY <1>12, <3>1, StaysCalled DEF EntryPoints
  <2> QED BY <2>1, <2>2 DEF PlaceInv, files
<1>13. CASE Load
  BY <1>5, <1>6, <1>7, <1>13 DEF Load, File
<1> QED BY <1>4, <1>8, <1>9, <1>10, <1>11, <1>12, <1>13 DEF Next, Step

\* The seventh invariant always holds.
LEMMA AlwaysPlace == Spec => []PlaceInv
<1>1. Init => PlaceInv
  BY DEF Init, InitLoad, InitSymbols, PlaceInv, EntryPoints, LoadSteps, Fresh
<1>2. Spec => [](Inv /\ MapInv)
  BY AlwaysInv, AlwaysMap, PTL
<1>3. Inv /\ MapInv /\ PlaceInv /\ [Next]_vars => PlaceInv'
  BY PlaceStays
<1> QED BY <1>1, <1>2, <1>3, PTL DEF Spec

\* Where a record is, with the image loaded at one of its places.
LEMMA LocationIs ==
  ASSUME Inv, PlaceInv, pc \in EntryPoints
  PROVE  \E where \in Info[FileNow].places : \A r : Location(r) = LoadedAt(FileNow, where, r)
<1>1. cur \in Images /\ img[cur].mapped
  BY DEF Inv, LoadInv, Handles, Where, PlaceInv, EntryPoints
<1>2. PICK where \in Info[FileNow].places :
        img[cur].mapping = [k \in DOMAIN Info[FileNow].segs |-> DCMapAddr(Info[FileNow].segs[k], where)]
  BY <1>1 DEF PlaceInv, MappedAt, FileNow
<1>3. \A r : Location(r) = LoadedAt(FileNow, where, r)
  BY <1>2 DEF Location, MapLogical, LoadedAt
<1> QED BY <1>3

-----------------------------------------------------------------------------
(***************************************************************************)
(* The modules of the directory: WalkDirList gives each of them once.      *)
(***************************************************************************)

\* What is in an earlier block comes first.
LEMMA BlocksApart ==
  ASSUME NEW B \in Nat \ {0}, NEW m \in Nat, NEW l \in Nat, m < l, NEW e \in 1..B, NEW f \in 1..B
  PROVE  m * B + e < l * B + f
<1>1. PICK c \in Nat : l = m + 1 + c
  <2>1. l - m - 1 \in Nat
    BY SMT
  <2> QED BY <2>1, SMT
<1>2. c * B \in Nat /\ l * B = m * B + B + c * B /\ m * B \in Nat
  BY <1>1, SMT
<1> QED BY <1>2, SMT

\* The places of the entries of a directory that was read, in their order.
LEMMA EntryPlaces ==
  ASSUME NEW ii \in Images, NEW C, img \in [Images -> ImageType(C)], img[ii].file \in Files,
         PiecesRight(img[ii]), AllCounted(img[ii]), AllRead(img[ii])
  PROVE  \E p \in [1..Len(Directory(img[ii])) -> (Nat \ {0}) \X (Nat \ {0})] :
           /\ Scanned(ii) = {p[j] : j \in DOMAIN p}
           /\ \A j \in DOMAIN p : Entry(ii, p[j]) = Directory(img[ii])[j]
           /\ \A i, j \in DOMAIN p : i < j => EarlierEntry(p[i], p[j])
<1> DEFINE d == Directory(img[ii])
           n == Len(d)
           B == BlockEntries
           full == BlockFactor(n, B) - 1
           S == [im : Nat, sst : Sections]
<1>1. d \in Seq(S) /\ d # <<>>
  BY FilesAssumption DEF Directory
<1>2. n \in Nat \ {0} /\ B \in Nat \ {0}
  BY <1>1, EmptySeq, LenProperties, BlockAssumption
<1>3. full \in Nat /\ full * B < n /\ n <= (full + 1) * B
  <2>1. BlockFactor(n, B) \in Nat \ {0} /\ (BlockFactor(n, B) - 1) * B < n
        /\ n <= BlockFactor(n, B) * B
    BY <1>2, LastBlock
  <2>2. (full + 1) = BlockFactor(n, B) /\ full \in Nat
    BY <2>1, SMT
  <2> QED BY <2>1, <2>2
<1>4. img[ii].dir_count = n /\ Len(img[ii].dir) = full + 1
  <2>1. BlockFactor(n, B) \in Nat
    BY <1>2, LastBlock
  <2> QED BY <2>1 DEF AllCounted, AllRead
<1>5. Scanned(ii) = ((1..full) \X (1..B)) \cup ({full + 1} \X (1..(n - full * B)))
  BY <1>4 DEF Scanned
<1>6. \A k \in 1..(full + 1) : img[ii].dir[k] = Piece(d, k)
  BY <1>4 DEF PiecesRight
<1> HIDE DEF full, n, d
<1>7. n = Len(d) /\ d = Directory(img[ii])
  BY DEF n, d
<1>8. ASSUME NEW k \in Nat \ {0}, NEW e \in Nat \ {0}, <<k, e>> \in Scanned(ii)
      PROVE  /\ k \in 1..(full + 1) /\ e \in 1..B /\ (k - 1) * B + e <= n
  <2>1. CASE k \in 1..full /\ e \in 1..B
    <3>1. PICK c \in Nat : full = k + c
      <4>1. full - k \in Nat
        BY <2>1, <1>3, SMT
      <4> QED BY <4>1, <1>3, SMT
    <3>2. c * B \in Nat /\ full * B = k * B + c * B /\ k * B = (k - 1) * B + B
          /\ (k - 1) * B \in Nat
      BY <3>1, <1>2, SMT
    <3> QED BY <2>1, <3>2, <1>2, <1>3, SMT
  <2>2. CASE k = full + 1 /\ e \in 1..(n - full * B)
    <3>1. full * B \in Nat /\ (full + 1) * B = full * B + B /\ k - 1 = full
      BY <1>2, <1>3, <2>2, SMT
    <3> QED BY <2>2, <3>1, <1>2, <1>3, SMT
  <2>3. \/ k \in 1..full /\ e \in 1..B
        \/ k = full + 1 /\ e \in 1..(n - full * B)
    BY <1>5, <1>8
  <2> QED BY <2>1, <2>2, <2>3
<1> DEFINE P == (Nat \ {0}) \X (Nat \ {0})
           Is(j, x) == /\ x \in Scanned(ii) /\ x[2] \in 1..B /\ (x[1] - 1) * B + x[2] = j
                       /\ Entry(ii, x) = d[j]
<1>9. ASSUME NEW j \in 1..n PROVE \E x \in P : Is(j, x)
  <2> DEFINE m == (j - 1) \div B
             e == (j - 1) - m * B + 1
  <2>2. m \in Int /\ m * B <= j - 1 /\ j - 1 < (m + 1) * B /\ m >= 0
    BY <1>2, SMT
  <2>3. m * B \in Int /\ (m + 1) * B = m * B + B
    BY <2>2, <1>2, SMT
  <2> HIDE DEF m
  <2>4. e \in 1..B /\ m * B + e = j /\ m \in Nat /\ m * B < n /\ j \in 1..n
    BY <2>2, <2>3, <1>2, SMT
  <2>5. m + 1 \in 1..(full + 1)
    <3>1. m + 1 \in 1..BlockFactor(n, B)
      BY <2>4, <1>2, OneMoreBlock
    <3>2. BlockFactor(n, B) = full + 1
      <4>1. BlockFactor(n, B) \in Nat
        BY <1>2, LastBlock
      <4> QED BY <4>1 DEF full
    <3> QED BY <3>1, <3>2
  <2>6. <<m + 1, e>> \in Scanned(ii)
    <3>1. CASE m + 1 \in 1..full
      BY <3>1, <2>4, <1>5
    <3>2. CASE m = full
      <4>1. e \in 1..(n - full * B)
        BY <3>2, <2>3, <2>4, <1>2, SMT
      <4> HIDE DEF e
      <4> QED BY <4>1, <3>2, <1>5
    <3> QED BY <3>1, <3>2, <2>4, <2>5, <1>3, SMT
  <2>7. (m + 1) - 1 = m /\ (m + 1) \in Nat \ {0}
    BY <2>4, SMT
  <2> HIDE DEF e
  <2>8. j <= Len(d) /\ ((m + 1) - 1) * B + e = j
    BY <2>4, <2>7, <1>7, <1>2, SMT
  <2>9. Piece(d, m + 1)[e] = d[((m + 1) - 1) * B + e]
    BY <2>4, <2>7, <2>8, <1>1, PieceEntry
  <2>10. Entry(ii, <<m + 1, e>>) = d[j]
    BY <2>5, <2>8, <2>9, <1>6 DEF Entry
  <2>11. PICK x : x = <<m + 1, e>>
    OBVIOUS
  <2>12. x \in P /\ x[1] = m + 1 /\ x[2] = e
    BY <2>4, <2>7, <2>11
  <2> QED BY <2>4, <2>6, <2>8, <2>10, <2>11, <2>12
<1>10. ASSUME NEW x \in Scanned(ii) PROVE x \in P /\ \E j \in 1..n : Is(j, x)
  <2>1. PICK k \in Nat \ {0}, e \in Nat \ {0} : x = <<k, e>>
    <3>1. full * B \in Nat
      BY <1>2, <1>3, SMT
    <3>2. /\ x = <<x[1], x[2]>>
          /\ x[1] \in (1..full) \cup {full + 1}
          /\ x[2] \in (1..B) \cup (1..(n - full * B))
      BY <1>5
    <3>3. (1..full) \cup {full + 1} \subseteq Nat \ {0}
          /\ (1..B) \cup (1..(n - full * B)) \subseteq Nat \ {0}
      BY <1>2, <1>3, <3>1, SMT
    <3> QED BY <3>2, <3>3
  <2>2. k \in 1..(full + 1) /\ e \in 1..B /\ (k - 1) * B + e <= n
    BY <2>1, <1>8
  <2>3. (k - 1) * B + e \in 1..n /\ Piece(d, k)[e] = d[(k - 1) * B + e]
    BY <1>1, <1>7, <2>2, PieceEntry
  <2>4. Entry(ii, x) = Piece(d, k)[e]
    BY <2>1, <2>2, <1>6 DEF Entry
  <2>5. x[1] = k /\ x[2] = e /\ x \in P
    BY <2>1
  <2> QED BY <2>2, <2>3, <2>4, <2>5
<1>11. ASSUME NEW x \in P, NEW y \in P, NEW i \in 1..n, NEW j \in 1..n, Is(i, x), Is(j, y)
       PROVE  /\ i < j => EarlierEntry(x, y)
              /\ i = j => x = y
  <2>1. PICK m \in Nat, l \in Nat, e \in 1..B, f \in 1..B :
          x[1] = m + 1 /\ y[1] = l + 1 /\ e = x[2] /\ f = y[2]
    <3>1. x[1] - 1 \in Nat /\ y[1] - 1 \in Nat /\ x[1] = (x[1] - 1) + 1 /\ y[1] = (y[1] - 1) + 1
      OBVIOUS
    <3> QED BY <1>11, <3>1
  <2>2. m * B + e = i /\ l * B + f = j
    <3>1. x[1] - 1 = m /\ y[1] - 1 = l
      BY <2>1
    <3> QED BY <1>11, <2>1, <3>1
  <2>3. m * B \in Int /\ l * B \in Int
    BY <1>2, SMT
  <2>4. i <= j => ~(l < m) /\ (m = l => e <= f /\ (e = f => i = j))
    <3>1. l < m => j < i
      BY <1>2, <2>1, <2>2, BlocksApart
    <3> QED BY <2>2, <2>3, <3>1
  <2>5. j <= i => ~(m < l) /\ (m = l => f <= e)
    <3>1. m < l => i < j
      BY <1>2, <2>1, <2>2, BlocksApart
    <3> QED BY <2>2, <2>3, <3>1
  <2>6. x = <<x[1], x[2]>> /\ y = <<y[1], y[2]>>
    OBVIOUS
  <2> QED BY <2>1, <2>4, <2>5, <2>6 DEF EarlierEntry
<1>12. \A x, j : Is(j, x) => x \in Scanned(ii) /\ Entry(ii, x) = d[j]
  OBVIOUS
<1> HIDE DEF Is, P
<1>13. PICK p \in [1..n -> P] : \A j \in 1..n : Is(j, p[j])
  <2>1. [j \in 1..n |-> CHOOSE x \in P : Is(j, x)] \in [1..n -> P]
    BY <1>9
  <2>2. \A j \in 1..n : Is(j, [i \in 1..n |-> CHOOSE x \in P : Is(i, x)][j])
    BY <1>9
  <2> QED BY <2>1, <2>2
<1>14. DOMAIN p = 1..n
  BY <1>13
<1>15. Scanned(ii) = {p[j] : j \in DOMAIN p}
  <2>1. ASSUME NEW x \in Scanned(ii) PROVE \E j \in 1..n : x = p[j]
    <3>1. PICK j \in 1..n : x \in P /\ Is(j, x)
      BY <1>10
    <3> QED BY <1>11, <1>13, <3>1
  <2>2. \A j \in 1..n : p[j] \in Scanned(ii)
    BY <1>12, <1>13
  <2> QED BY <1>14, <2>1, <2>2
<1>16. \A j \in DOMAIN p : Entry(ii, p[j]) = d[j]
  BY <1>12, <1>13, <1>14
<1>17. \A i, j \in DOMAIN p : i < j => EarlierEntry(p[i], p[j])
  <2>1. ASSUME NEW i \in 1..n, NEW j \in 1..n, i < j PROVE EarlierEntry(p[i], p[j])
    BY <1>11, <1>13, <2>1
  <2> QED BY <1>14, <2>1
<1> QED BY <1>7, <1>13, <1>15, <1>16, <1>17 DEF P

\* Of such places some are in an order of their own.
Increasing(s) == \A j, k \in DOMAIN s : j < k => EarlierEntry(s[j], s[k])
\* No entry of the directory is before itself.
LEMMA NotEarlier == \A e \in Nat \X Nat : ~EarlierEntry(e, e)
BY DEF EarlierEntry

\* Entries found at places in order can be put in order.
LEMMA CanBeOrdered ==
  ASSUME NEW n \in Nat, NEW p \in [1..n -> Nat \X Nat], Increasing(p), NEW W \in SUBSET (1..n)
  PROVE  LET found == {p[i] : i \in W} IN
         IsFiniteSet(found) /\ \E s \in [1..Cardinality(found) -> found] : Increasing(s)
<1> DEFINE F(m) == {p[i] : i \in {j \in W : j <= m}}
           Good == {m \in 0..n : /\ IsFiniteSet(F(m))
                                 /\ \E s \in [1..Cardinality(F(m)) -> F(m)] : Increasing(s)}
<1>1. 0 \in Good
  <2>1. F(0) = {}
    OBVIOUS
  <2>2. IsFiniteSet(F(0)) /\ Cardinality(F(0)) = 0
    BY <2>1, FS_EmptySet
  <2>3. PICK s : s = [k \in 1..0 |-> {}]
    OBVIOUS
  <2>4. s \in [1..0 -> F(0)] /\ Increasing(s)
    BY <2>1, <2>3 DEF Increasing
  <2> HIDE DEF F
  <2>5. \E r \in [1..Cardinality(F(0)) -> F(0)] : Increasing(r)
    BY <2>2, <2>4, Zenon
  <2> QED BY <2>2, <2>5
<1>2. ASSUME NEW m \in 1..n, m - 1 \in Good PROVE m \in Good
  <2>1. CASE m \notin W
    <3>1. F(m) = F(m - 1)
      BY <2>1
    <3> HIDE DEF F
    <3> QED BY <1>2, <3>1
  <2>2. CASE m \in W
    <3>1. F(m) = F(m - 1) \cup {p[m]}
      BY <2>2
    <3>2. /\ \A x \in F(m - 1) : EarlierEntry(x, p[m])
          /\ p[m] \in Nat \X Nat
      BY DEF Increasing
    <3>3. p[m] \notin F(m - 1)
      BY <3>2, NotEarlier
    <3> HIDE DEF F
    <3>4. PICK c \in Nat : c = Cardinality(F(m - 1))
      BY <1>2, FS_CardinalityType
    <3>a. IsFiniteSet(F(m - 1))
      BY <1>2
    <3>5. IsFiniteSet(F(m)) /\ Cardinality(F(m)) = c + 1
      <4>1. PICK x, G : x = p[m] /\ G = F(m - 1)
        OBVIOUS
      <4>2. IsFiniteSet(G \cup {x}) /\ Cardinality(G \cup {x}) = Cardinality(G) + 1
        BY <3>3, <3>a, <4>1, FS_AddElement
      <4> QED BY <3>1, <3>4, <4>1, <4>2
    <3>6. PICK s \in [1..c -> F(m - 1)] : Increasing(s)
      BY <1>2, <3>4
    <3> DEFINE t == [k \in 1..(c + 1) |-> IF k = c + 1 THEN p[m] ELSE s[k]]
    <3>7. t \in [1..(c + 1) -> F(m)]
      BY <3>1
    <3>8. ASSUME NEW j \in 1..(c + 1), NEW k \in 1..(c + 1), j < k
          PROVE  EarlierEntry(t[j], t[k])
      <4>1. j \in 1..c /\ t[j] = s[j] /\ s[j] \in F(m - 1)
        BY <3>8
      <4>2. CASE k = c + 1
        BY <3>2, <4>1, <4>2
      <4>3. CASE k # c + 1
        <5>1. k \in 1..c /\ t[k] = s[k]
          BY <4>3
        <5> QED BY <3>6, <3>8, <4>1, <5>1 DEF Increasing
      <4> QED BY <4>2, <4>3
    <3>9. Increasing(t)
      BY <3>8 DEF Increasing
    <3> HIDE DEF t
    <3> QED BY <3>5, <3>7, <3>9
  <2> QED BY <2>1, <2>2
<1>3. \A m \in 0..n : m \in Good
  <2> HIDE DEF Good
  <2> QED BY <1>1, <1>2, IntervalInduction
<1>4. F(n) = {p[i] : i \in W}
  <2>1. \A j \in W : j <= n
    OBVIOUS
  <2> QED BY <2>1
<1> HIDE DEF F
<1>5. IsFiniteSet(F(n)) /\ \E s \in [1..Cardinality(F(n)) -> F(n)] : Increasing(s)
  BY <1>3
<1> QED BY <1>4, <1>5

\* WalkDirList hands on each module of the directory, and no other; one that
\* is listed once, once.
Module(im) == [im |-> im, sst |-> "Module"]
OnceListed(d) == \A j, k \in DOMAIN d : d[j].sst = "Module" /\ d[j] = d[k] => j = k
\* WalkDirList hands on the modules of the directory.
LEMMA ModulesAre ==
  ASSUME NEW ii \in Images, NEW C, img \in [Images -> ImageType(C)], img[ii].file \in Files,
         PiecesRight(img[ii]), AllCounted(img[ii]), AllRead(img[ii])
  PROVE  /\ ModulesOf(ii) \in Seq(Nat)
         /\ \A im : Module(im) \in Range(Directory(img[ii])) <=> im \in Range(ModulesOf(ii))
         /\ OnceListed(Directory(img[ii])) =>
              \A j, k \in DOMAIN ModulesOf(ii) : ModulesOf(ii)[j] = ModulesOf(ii)[k] => j = k
<1> DEFINE d == Directory(img[ii])
           n == Len(d)
           found == {e \in Scanned(ii) : Entry(ii, e).sst = "Module"}
           order == CHOOSE s \in [1..Cardinality(found) -> found] : Increasing(s)
<1>1. d \in Seq([im : Nat, sst : Sections]) /\ n \in Nat /\ DOMAIN d = 1..n
  BY FilesAssumption, LenProperties DEF Directory
<1>2. \A j \in 1..n : d[j] \in [im : Nat, sst : Sections]
  BY <1>1, ElementOfSeq
<1> HIDE DEF d, n
<1>3. n = Len(d) /\ d = Directory(img[ii])
  BY DEF n, d
<1>4. PICK p \in [1..n -> (Nat \ {0}) \X (Nat \ {0})] :
        /\ Scanned(ii) = {p[j] : j \in DOMAIN p}
        /\ \A j \in DOMAIN p : Entry(ii, p[j]) = d[j]
        /\ Increasing(p)
  BY <1>3, EntryPlaces DEF Increasing
<1>5. DOMAIN p = 1..n /\ p \in [1..n -> Nat \X Nat]
  BY <1>4
<1> DEFINE W == {j \in 1..n : d[j].sst = "Module"}
<1>6. found = {p[j] : j \in W}
  BY <1>4, <1>5
<1>7. IsFiniteSet(found) /\ \E s \in [1..Cardinality(found) -> found] : Increasing(s)
  <2>1. W \in SUBSET (1..n)
    OBVIOUS
  <2> HIDE DEF W, found
  <2> QED BY <1>1, <1>4, <1>5, <1>6, <2>1, CanBeOrdered
<1>8. PICK c \in Nat : c = Cardinality(found)
  BY <1>7, FS_CardinalityType
<1>9. order \in [1..c -> found] /\ Increasing(order)
  <2> HIDE DEF found
  <2> QED BY <1>7, <1>8
<1>10. ModulesOf(ii) = [k \in DOMAIN order |-> Entry(ii, order[k]).im]
  BY DEF ModulesOf, InOrder, Increasing
<1> HIDE DEF order
<1>11. DOMAIN order = 1..c
  BY <1>9
<1>12. \A j, k \in 1..c : j # k => order[j] # order[k]
  <2>1. ASSUME NEW j \in 1..c, NEW k \in 1..c, j < k PROVE order[j] # order[k]
    <3>1. EarlierEntry(order[j], order[k])
      BY <1>9, <1>11, <2>1 DEF Increasing
    <3>2. order[j] \in Nat \X Nat
      BY <1>5, <1>6, <1>9
    <3> QED BY <3>1, <3>2, NotEarlier
  <2> QED BY <2>1
<1>13. \A x \in found : \E k \in 1..c : order[k] = x
  <2>1. PICK D : D = 1..c
    OBVIOUS
  <2>2. order \in Injection(D, found)
    BY <1>9, <1>12, <2>1 DEF Injection, IsInjective
  <2>3. Cardinality(D) = c
    BY <2>1, FS_Interval
  <2>4. order \in Surjection(D, found)
    BY <1>7, <1>8, <2>2, <2>3, FS_Injection
  <2> QED BY <2>1, <2>4 DEF Surjection
<1>14. \A k \in 1..c : \E j \in W : order[k] = p[j] /\ Entry(ii, order[k]) = d[j]
  <2> HIDE DEF found
  <2>1. \A k \in 1..c : order[k] \in found
    BY <1>9
  <2>2. \A k \in 1..c : \E j \in W : order[k] = p[j]
    BY <1>6, <2>1
  <2> QED BY <1>4, <1>5, <2>2
<1> DEFINE ms == ModulesOf(ii)
<1>15. ms = [k \in 1..c |-> Entry(ii, order[k]).im]
  BY <1>10, <1>11
<1> HIDE DEF ms, found
<1>16. \A k \in 1..c : ms[k] = Entry(ii, order[k]).im /\ ms[k] \in Nat
  BY <1>2, <1>14, <1>15
<1>17. ms \in Seq(Nat) /\ DOMAIN ms = 1..c
  <2>1. ms \in [1..c -> Nat]
    BY <1>15, <1>16
  <2> QED BY <2>1, SeqDef
<1>18. ASSUME NEW im PROVE Module(im) \in Range(d) <=> im \in Range(ms)
  <2>1. ASSUME NEW j \in 1..n, d[j] = Module(im) PROVE \E k \in 1..c : ms[k] = im
    <3>1. j \in W /\ p[j] \in found
      BY <1>6, <2>1 DEF Module
    <3>2. PICK k \in 1..c : order[k] = p[j]
      BY <1>13, <3>1
    <3>3. Entry(ii, order[k]) = d[j]
      BY <1>4, <1>5, <3>2
    <3> QED BY <1>16, <2>1, <3>3 DEF Module
  <2>2. ASSUME NEW k \in 1..c, ms[k] = im PROVE \E j \in 1..n : d[j] = Module(im)
    <3>1. PICK j \in W : Entry(ii, order[k]) = d[j]
      BY <1>14
    <3>2. d[j].im = im /\ d[j].sst = "Module" /\ d[j] \in [im : Nat, sst : Sections]
      BY <1>2, <1>16, <2>2, <3>1
    <3> QED BY <3>2 DEF Module
  <2> QED BY <1>1, <1>17, <2>1, <2>2 DEF Range
<1>19. ASSUME OnceListed(d), NEW j \in 1..c, NEW k \in 1..c, ms[j] = ms[k] PROVE j = k
  <2>1. PICK i \in W : order[j] = p[i] /\ Entry(ii, order[j]) = d[i]
    BY <1>14
  <2>2. PICK l \in W : order[k] = p[l] /\ Entry(ii, order[k]) = d[l]
    BY <1>14
  <2>3. d[i].im = d[l].im /\ d[i].sst = d[l].sst
    BY <1>16, <1>19, <2>1, <2>2
  <2>4. d[i] = d[l]
    BY <1>2, <2>3
  <2>5. i = l
    BY <1>1, <1>19, <2>4 DEF OnceListed
  <2> QED BY <1>12, <2>1, <2>2, <2>5
<1> QED BY <1>3, <1>17, <1>18, <1>19 DEF ms

-----------------------------------------------------------------------------
(***************************************************************************)
(* The walk of modules.  An eighth invariant: what was handed out are the  *)
(* symbols of the modules and tables passed, each once.                    *)
(***************************************************************************)
Mods == ModulesOf(cur)
FileOf(im, c) == {ModuleSym(im, k) : k \in {j \in Decl(Syms(im), 0) : j < c}}
WholeFile(im) == FileOf(im, Len(Syms(im)) + 1)
ModulesTo(n) == UNION {WholeFile(Mods[i]) : i \in 1..n}

\* A record of a table that is walked: TableWalkSym's search is for the
\* addresses of the global table.
InTableAt(tbl, k) == [im |-> Global, tbl |-> tbl, sym |-> k]
Hidden(r) == r.code \in Reference \cup {"ALIGN"}
             \/ (r.code = "PUB" /\ Location(r) \in Places("GlobalSym"))
WalkedTo(tbl, c) ==
  {InTableAt(tbl, k) :
     k \in {j \in DOMAIN Table(tbl).recs : j < c /\ ~Hidden(Table(tbl).recs[j])}}
WholeTable(tbl) == WalkedTo(tbl, Len(Table(tbl).recs) + 1)
TablesTo(tbl, c) ==
  IF tbl = "GlobalSym" THEN WalkedTo(tbl, c) ELSE WholeTable("GlobalSym") \cup WalkedTo(tbl, c)

Proper == (UNION {WholeFile(im) : im \in DOMAIN Info[FileNow].syms})
            \cup WholeTable("GlobalSym") \cup WholeTable("GlobalPub")
Shows(o, S) ==
  o \in Seq(S) /\ Range(o) = S /\ \A j, k \in DOMAIN o : o[j] = o[k] => j = k

AtModule(i) == /\ i \in 1..Len(Mods) /\ call.im = Mods[i]
               /\ call.mods = SubSeq(Mods, i + 1, Len(Mods))
AllAt ==
  /\ pc = "enter" => out = <<>>
  /\ pc = "file" => \E i \in Nat : AtModule(i) /\ Shows(out, ModulesTo(i - 1))
  /\ pc = "fileone" =>
       \E i \in Nat : AtModule(i) /\ Shows(out, ModulesTo(i - 1) \cup FileOf(call.im, call.chk))
  /\ pc = "table" => Shows(out, ModulesTo(Len(Mods)) \cup TablesTo(call.tbl, call.chk))
  /\ pc = "done" /\ wr = "CONTINUE" =>
       Shows(out, ModulesTo(Len(Mods)) \cup WholeTable("GlobalSym") \cup WholeTable("GlobalPub"))
WalkAllAt ==
  /\ pc = "enter" => out = <<>>
  /\ pc = "fileone" => call.chk \in 1..(Len(Here) + 1) /\ Level(Here, 0, call.chk)
  /\ pc = "table" => /\ call.tbl \in {"GlobalSym", "GlobalPub"}
                     /\ call.chk \in 1..(Len(Table(call.tbl).recs) + 1)
  /\ out \in Seq(Proper)
ModulesInv ==
  pc \in EntryPoints /\ call.op = "module" => WalkAllAt /\ (call.all => AllAt)

\* One symbol more.
LEMMA NothingShown == Shows(<<>>, {})
BY DEF Shows, Range

\* Another symbol is shown.
LEMMA ShowsMore ==
  ASSUME NEW o, NEW S, Shows(o, S), NEW h, h \notin S, NEW o1, o1 = Append(o, h)
  PROVE  Shows(o1, S \cup {h})
<1>1. o \in Seq(S) /\ Range(o) = S
  BY DEF Shows
<1>2. /\ o1 \in Seq(S \cup {h}) /\ Len(o) \in Nat
      /\ DOMAIN o = 1..Len(o) /\ DOMAIN o1 = 1..(Len(o) + 1)
      /\ o1[Len(o) + 1] = h /\ \A i \in 1..Len(o) : o1[i] = o[i]
  BY <1>1, Appended
<1>3. Range(o1) = S \cup {h}
  <2>1. \A x \in S : \E i \in 1..Len(o) : x = o[i]
    BY <1>1, <1>2 DEF Range
  <2>2. \A i \in 1..Len(o) : o[i] \in S
    BY <1>1, <1>2 DEF Range
  <2>3. \A i \in DOMAIN o1 : i \in 1..Len(o) \/ i = Len(o) + 1
    BY <1>2
  <2>4. Len(o) + 1 \in DOMAIN o1 /\ 1..Len(o) \subseteq DOMAIN o1
    BY <1>2
  <2> QED BY <1>2, <2>1, <2>2, <2>3, <2>4 DEF Range
<1>4. ASSUME NEW j \in DOMAIN o1, NEW k \in DOMAIN o1, o1[j] = o1[k] PROVE j = k
  <2>1. \A i \in 1..Len(o) : o1[i] \in S /\ o1[i] = o[i]
    BY <1>1, <1>2 DEF Range
  <2>2. \A i \in DOMAIN o1 : i \in 1..Len(o) \/ i = Len(o) + 1
    BY <1>2
  <2>3. \A i, l \in 1..Len(o) : o[i] = o[l] => i = l
    BY <1>2 DEF Shows
  <2> QED BY <1>2, <1>4, <2>1, <2>2, <2>3
<1> QED BY <1>2, <1>3, <1>4 DEF Shows

\* What they relate to stays while the image does.
LEMMA WalkedStays ==
  ASSUME UNCHANGED <<img, cur>>
  PROVE  /\ Mods' = Mods /\ Proper' = Proper
         /\ \A im : Syms(im)' = Syms(im)
         /\ \A tbl : Table(tbl)' = Table(tbl) /\ WholeTable(tbl)' = WholeTable(tbl)
         /\ \A n : ModulesTo(n)' = ModulesTo(n)
         /\ \A im, c : FileOf(im, c)' = FileOf(im, c)
         /\ \A tbl, c : TablesTo(tbl, c)' = TablesTo(tbl, c)
<1>1. /\ \A im : Syms(im)' = Syms(im)
      /\ \A tbl : Table(tbl)' = Table(tbl)
  BY DEF Syms, Table
<1>2. \A h : Rec(h)' = Rec(h)
  BY <1>1 DEF Rec
<1>3. \A r : Location(r)' = Location(r)
  BY DEF Location, MapLogical
<1>4. Mods' = Mods
  <2>1. Scanned(cur)' = Scanned(cur) /\ \A e : Entry(cur, e)' = Entry(cur, e)
    BY DEF Scanned, Entry
  <2> DEFINE found == {e \in Scanned(cur) : Entry(cur, e).sst = "Module"}
             order == InOrder(found)
  <2>2. Mods = [k \in DOMAIN order |-> Entry(cur, order[k]).im]
    BY DEF Mods, ModulesOf
  <2>5. Mods' = [k \in DOMAIN order' |-> Entry(cur, order[k])'.im]
    BY DEF Mods, ModulesOf
  <2>3. found' = found
    BY <2>1
  <2> HIDE DEF found
  <2>4. order' = order
    BY <2>3
  <2> HIDE DEF order
  <2> QED BY <2>1, <2>2, <2>4, <2>5
<1>5. \A im, c : FileOf(im, c)' = FileOf(im, c)
  BY <1>1 DEF FileOf
<1>6. \A im : WholeFile(im)' = WholeFile(im)
  BY <1>1, <1>5 DEF WholeFile
<1>7. \A n : ModulesTo(n)' = ModulesTo(n)
  BY <1>4, <1>6 DEF ModulesTo
<1>8. Places("GlobalSym")' = Places("GlobalSym")
  <2>1. \A tbl, k, im : SymFillIn(tbl, k, im)' = SymFillIn(tbl, k, im)
    BY <1>1 DEF SymFillIn
  <2>2. PlacedIn("GlobalSym")' = PlacedIn("GlobalSym")
    BY <1>1, <1>2, <2>1 DEF PlacedIn, InTable
  <2>3. \A h : Location(Rec(h))' = Location(Rec(h))
    BY <1>2, <1>3
  <2> QED BY <2>2, <2>3 DEF Places
<1>9. \A r : Hidden(r)' = Hidden(r)
  BY <1>3, <1>8 DEF Hidden
<1>10. \A tbl, c : WalkedTo(tbl, c)' = WalkedTo(tbl, c)
  BY <1>1, <1>9 DEF WalkedTo
<1>11. \A tbl : WholeTable(tbl)' = WholeTable(tbl)
  BY <1>1, <1>10 DEF WholeTable
<1>12. \A tbl, c : TablesTo(tbl, c)' = TablesTo(tbl, c)
  BY <1>10, <1>11 DEF TablesTo
<1>13. Proper' = Proper
  BY <1>6, <1>11 DEF Proper, FileNow
<1> QED BY <1>1, <1>4, <1>5, <1>7, <1>11, <1>12, <1>13

\* Which records TableWalkSym leaves out.
LEMMA HiddenIs ==
  ASSUME AddressesWritten, Inv, MapInv, pc \in EntryPoints, NEW tbl \in Tables,
         NEW k \in DOMAIN Table(tbl).recs
  PROVE  NotWalked(Table(tbl).recs[k]) <=> Hidden(Table(tbl).recs[k])
<1> DEFINE r == Table(tbl).recs[k]
           a == Location(r)
           n == Len(Table("GlobalSym").segs)
           best == TableSearchForAddr("GlobalSym", a, 0)
<1>1. CASE r.code # "PUB"
  BY <1>1 DEF NotWalked, Hidden
<1>2. CASE r.code = "PUB"
  <2>1. RefersTo(tbl, k) = r /\ r.code \in Placed /\ r.code \notin Reference \cup {"ALIGN"}
    BY <1>2 DEF RefersTo, Refers, Reference, Placed
  <2>2. PICK p \in EntriesTo(tbl, Len(Table(tbl).segs)) : a = PlaceOf(tbl, p[1], p[2])
    <3>1. PICK p \in EntriesTo(tbl, Len(Table(tbl).segs)) : Table(tbl).segs[p[1]][p[2]].sym = k
      BY <2>1, TablesWritten
    <3> QED BY <2>1, <3>1, TablesWritten
  <2>3. a.off \in Nat /\ a = [seg |-> a.seg, off |-> a.off]
    <3>1. Searchable(tbl)
      BY TablesWritten
    <3>2. p[1] \in 1..Len(Table(tbl).segs) /\ p[2] \in DOMAIN Table(tbl).segs[p[1]]
      BY DEF EntriesTo
    <3>3. OffOf(tbl, p[1], p[2]) \in Nat
      BY <3>1, <3>2 DEF Searchable, OffOf
    <3> QED BY <2>2, <3>3 DEF PlaceOf
  <2>4. FoundTo("GlobalSym", a, 0, n, best)
    <3>1. Searchable("GlobalSym")
      BY TablesWritten DEF Tables
    <3> HIDE DEF a, n, best
    <3>2. n = Len(Table("GlobalSym").segs) /\ best = TableSearchForAddr("GlobalSym", a, 0)
      BY DEF n, best
    <3> QED BY <2>3, <3>1, <3>2, SearchFinds
  <2> HIDE DEF best, a, n
  <2>5. best.exact <=> \E q \in InSpace("GlobalSym", a, n) : OffOf("GlobalSym", q[1], q[2]) = a.off
    <3>1. \A q \in InSpace("GlobalSym", a, n) :
            OffOf("GlobalSym", q[1], q[2]) = a.off => OffOf("GlobalSym", q[1], q[2]) <= a.off
      BY <2>3
    <3>2. best.exact \in BOOLEAN
      BY <2>4 DEF FoundTo, Bests
    <3> QED BY <2>4, <3>1, <3>2 DEF FoundTo
  <2>6. a \in Places("GlobalSym")
          <=> \E q \in InSpace("GlobalSym", a, n) : OffOf("GlobalSym", q[1], q[2]) = a.off
    <3>1. Places("GlobalSym")
            = {PlaceOf("GlobalSym", q[1], q[2]) : q \in EntriesTo("GlobalSym", n)}
      BY PlacesAre DEF Tables, n
    <3>2. \A q : a = PlaceOf("GlobalSym", q[1], q[2])
                   <=> SegAt(q[1]).seg = a.seg /\ OffOf("GlobalSym", q[1], q[2]) = a.off
      BY <2>3 DEF PlaceOf
    <3> QED BY <3>1, <3>2 DEF InSpace
  <2>7. NotWalked(r) <=> best.exact
    BY <1>2, <2>1 DEF NotWalked, best, a
  <2>8. Hidden(r) <=> a \in Places("GlobalSym")
    BY <1>2, <2>1 DEF Hidden, a
  <2> QED BY <2>5, <2>6, <2>7, <2>8
<1> QED BY <1>1, <1>2

\* The modules of the image that symbols are asked of.
LEMMA ModsWritten ==
  ASSUME Inv, DirInv, pc \in EntryPoints
  PROVE  /\ Mods \in Seq(Nat) /\ Len(Mods) \in Nat /\ DOMAIN Mods = 1..Len(Mods)
         /\ \A im : Module(im) \in Range(Info[FileNow].dir) <=> im \in Range(Mods)
         /\ OnceWritten => \A j, k \in 1..Len(Mods) : Mods[j] = Mods[k] => j = k
<1>1. cur \in ImageList /\ cur \in Images /\ FileNow \in Files
      /\ pc \notin {"header", "block", "read"}
  BY DEF Inv, LoadInv, Handles, Where, EntryPoints, LoadSteps, FileNow
<1>2. PICK C : img \in [Images -> ImageType(C)]
  BY DEF Inv, LoadInv, Handles
<1>3. PICK ii \in Images : ii = cur
  BY <1>1
<1>4. img[ii].file \in Files /\ PiecesRight(img[ii]) /\ AllCounted(img[ii]) /\ AllRead(img[ii])
  BY <1>1, <1>3 DEF DirInv, DirOf, FileNow
<1>5. /\ ModulesOf(ii) \in Seq(Nat)
      /\ \A im : Module(im) \in Range(Directory(img[ii])) <=> im \in Range(ModulesOf(ii))
      /\ OnceListed(Directory(img[ii])) =>
           \A j, k \in DOMAIN ModulesOf(ii) : ModulesOf(ii)[j] = ModulesOf(ii)[k] => j = k
  BY <1>2, <1>4, ModulesAre
<1>6. ModulesOf(ii) = Mods /\ Directory(img[ii]) = Info[FileNow].dir
  BY <1>3 DEF Mods, Directory, FileNow
<1>7. Len(Mods) \in Nat /\ DOMAIN Mods = 1..Len(Mods)
  BY <1>5, <1>6, LenProperties
<1>8. OnceWritten => OnceListed(Info[FileNow].dir)
  BY <1>1 DEF OnceWritten, OnceListed
<1> QED BY <1>5, <1>6, <1>7, <1>8

\* What is left of them.
LEMMA ModsRest ==
  ASSUME NEW s \in Seq(Nat)
  PROVE  /\ s # <<>> => 1 \in 1..Len(s) /\ Head(s) = s[1] /\ Tail(s) = SubSeq(s, 2, Len(s))
         /\ \A i \in 1..Len(s) : LET r == SubSeq(s, i + 1, Len(s)) IN
              /\ r = <<>> <=> i = Len(s)
              /\ i # Len(s) => /\ i + 1 \in 1..Len(s) /\ Head(r) = s[i + 1]
                               /\ Tail(r) = SubSeq(s, (i + 1) + 1, Len(s))
<1>1. Len(s) \in Nat
  BY LenProperties
<1>2. s # <<>> => 1 \in 1..Len(s) /\ Head(s) = s[1] /\ Tail(s) = SubSeq(s, 2, Len(s))
  <2> SUFFICES ASSUME s # <<>>
               PROVE  1 \in 1..Len(s) /\ Head(s) = s[1] /\ Tail(s) = SubSeq(s, 2, Len(s))
    OBVIOUS
  <2>1. Len(s) # 0
    BY EmptySeq
  <2>2. 1 \in 1..Len(s) /\ Head(s) = s[1]
    BY <1>1, <2>1
  <2>3. Tail(s) = SubSeq(s, 2, Len(s))
    BY <1>1, <2>1
  <2> QED BY <2>2, <2>3
<1>3. ASSUME NEW i \in 1..Len(s), NEW r, r = SubSeq(s, i + 1, Len(s))
      PROVE  /\ r = <<>> <=> i = Len(s)
             /\ i # Len(s) => /\ i + 1 \in 1..Len(s) /\ Head(r) = s[i + 1]
                              /\ Tail(r) = SubSeq(s, (i + 1) + 1, Len(s))
  <2>1. r \in Seq(Nat) /\ Len(r) = Len(s) - i
    BY <1>1, <1>3
  <2>2. r = <<>> <=> i = Len(s)
    BY <1>1, <2>1, EmptySeq
  <2>3. ASSUME i # Len(s) PROVE i + 1 \in 1..Len(s) /\ Head(r) = s[i + 1]
    BY <1>1, <1>3, <2>3
  <2>4. ASSUME i # Len(s) PROVE Tail(r) = SubSeq(s, (i + 1) + 1, Len(s))
    BY <1>1, <1>3, <2>4
  <2> QED BY <2>2, <2>3, <2>4
<1> QED BY <1>2, <1>3

\* A symbol of a module is told by the module and its record.
LEMMA SymIs == \A im, k, jm, l : ModuleSym(im, k) = ModuleSym(jm, l) => im = jm /\ k = l
BY DEF ModuleSym

\* A module's file scope, record by record.
LEMMA FileStep ==
  ASSUME NEW im, IsModule(Syms(im)), NEW c \in DOMAIN Syms(im), Level(Syms(im), 0, c),
         NEW next, next = (IF c \in Opens(Syms(im)) THEN Syms(im)[c].end ELSE c) + 1
  PROVE  /\ next \in 1..(Len(Syms(im)) + 1) /\ Level(Syms(im), 0, next)
         /\ FileOf(im, next) = FileOf(im, c) \cup
              IF Syms(im)[c].code \notin NotShown THEN {ModuleSym(im, c)} ELSE {}
         /\ ModuleSym(im, c) \notin FileOf(im, c)
         /\ Syms(im)[c].code \notin NotShown => ModuleSym(im, c) \in WholeFile(im)
<1> DEFINE s == Syms(im)
<1>1. Len(s) \in Nat /\ DOMAIN s = 1..Len(s) /\ c \in 1..Len(s)
  BY DEF IsModule
<1>2. /\ next \in Nat /\ c < next /\ Level(s, 0, next)
      /\ {k \in Decl(s, 0) : k < next} =
           {k \in Decl(s, 0) : k < c} \cup IF s[c].code \notin NotShown THEN {c} ELSE {}
  <2>1. PICK b, t : b = 0 /\ t = s
    OBVIOUS
  <2>2. /\ b \in Opens(t) \cup {0} /\ c \in DOMAIN t /\ b < c /\ Level(t, b, c) /\ IsModule(t)
        /\ (b # 0 => c <= t[b].end /\ t[c].code # "END")
        /\ next = (IF c \in Opens(t) THEN t[c].end ELSE c) + 1
    BY <1>1, <2>1
  <2> HIDE DEF s
  <2>3. /\ next \in Nat /\ c < next /\ Level(t, b, next)
        /\ {k \in Decl(t, b) : k < next} =
              {k \in Decl(t, b) : k < c}
                \cup IF t[c].code \notin NotShown /\ (b = 0 \/ c \notin Opens(t)) THEN {c} ELSE {}
    BY <2>2, DeclStep
  <2> QED BY <2>1, <2>3
<1>3. next \in 1..(Len(s) + 1)
  <2>1. CASE c \in Opens(s)
    BY <1>1, <1>2, <2>1, OpenerEnds
  <2>2. CASE c \notin Opens(s)
    BY <1>1, <2>2
  <2> QED BY <2>1, <2>2
<1>4. s[c].code \notin NotShown => c \in Decl(s, 0) /\ c < Len(s) + 1
  BY <1>1, <1>2
<1> HIDE DEF s
<1>5. \A x : FileOf(im, x) = {ModuleSym(im, k) : k \in {j \in Decl(s, 0) : j < x}}
  BY DEF FileOf, s
<1>6. FileOf(im, next) = FileOf(im, c) \cup
              IF s[c].code \notin NotShown THEN {ModuleSym(im, c)} ELSE {}
  BY <1>2, <1>5
<1>7. ModuleSym(im, c) \notin FileOf(im, c)
  BY <1>1, <1>5, SymIs
<1>8. s[c].code \notin NotShown => ModuleSym(im, c) \in WholeFile(im)
  BY <1>4, <1>5 DEF WholeFile, s
<1> QED BY <1>2, <1>3, <1>6, <1>7, <1>8 DEF s

\* And a table.
LEMMA TableStepIs ==
  ASSUME NEW tbl, NEW n \in Nat, DOMAIN Table(tbl).recs = 1..n, Len(Table(tbl).recs) = n,
         NEW c \in 1..n
  PROVE  /\ WalkedTo(tbl, c + 1) = WalkedTo(tbl, c) \cup
              IF Hidden(Table(tbl).recs[c]) THEN {} ELSE {InTableAt(tbl, c)}
         /\ InTableAt(tbl, c) \notin WalkedTo(tbl, c)
         /\ ~Hidden(Table(tbl).recs[c]) => InTableAt(tbl, c) \in WholeTable(tbl)
<1> DEFINE Is(j) == ~Hidden(Table(tbl).recs[j])
           To(x) == {j \in 1..n : j < x /\ Is(j)}
<1>1. \A x : WalkedTo(tbl, x) = {InTableAt(tbl, k) : k \in To(x)}
  BY DEF WalkedTo
<1> HIDE DEF Is
<1>2. To(c + 1) = To(c) \cup IF Is(c) THEN {c} ELSE {}
  OBVIOUS
<1>3. c \notin To(c) /\ (Is(c) => c \in To(n + 1))
  OBVIOUS
<1>4. \A j, k : InTableAt(tbl, j) = InTableAt(tbl, k) => j = k
  BY DEF InTableAt
<1> HIDE DEF To
<1>5. WalkedTo(tbl, c + 1) = WalkedTo(tbl, c) \cup IF Is(c) THEN {InTableAt(tbl, c)} ELSE {}
  BY <1>1, <1>2
<1>6. InTableAt(tbl, c) \notin WalkedTo(tbl, c)
  BY <1>1, <1>3, <1>4
<1>7. Is(c) => InTableAt(tbl, c) \in WholeTable(tbl)
  BY <1>1, <1>3 DEF WholeTable
<1> QED BY <1>5, <1>6, <1>7 DEF Is

\* Handles of modules and of the tables are not the same.
LEMMA HandlesApart ==
  /\ \A n, tbl, c, k : tbl # "AlignSym" => InTableAt(tbl, k) \notin ModulesTo(n)
  /\ \A tbl, t, c, k : tbl # t => InTableAt(tbl, k) \notin WalkedTo(t, c)
<1>1. \A tbl, im, k, c : tbl # "AlignSym" => InTableAt(tbl, k) \notin FileOf(im, c)
  BY DEF InTableAt, FileOf, ModuleSym
<1>2. \A n, tbl, k : tbl # "AlignSym" => InTableAt(tbl, k) \notin ModulesTo(n)
  BY <1>1 DEF ModulesTo, WholeFile
<1>3. \A tbl, t, c, k : tbl # t => InTableAt(tbl, k) \notin WalkedTo(t, c)
  BY DEF InTableAt, WalkedTo
<1> QED BY <1>2, <1>3

\* Nor those of two modules.
LEMMA ModulesApart ==
  ASSUME Inv, DirInv, OnceWritten, pc \in EntryPoints, NEW i \in 1..Len(Mods), NEW k
  PROVE  ModuleSym(Mods[i], k) \notin ModulesTo(i - 1)
<1> SUFFICES ASSUME ModuleSym(Mods[i], k) \in ModulesTo(i - 1) PROVE FALSE
  OBVIOUS
<1>1. Len(Mods) \in Nat /\ \A j, l \in 1..Len(Mods) : Mods[j] = Mods[l] => j = l
  BY ModsWritten
<1>2. PICK j \in 1..(i - 1) : ModuleSym(Mods[i], k) \in WholeFile(Mods[j])
  BY DEF ModulesTo
<1>3. Mods[i] = Mods[j]
  BY <1>2, SymIs DEF WholeFile, FileOf
<1> QED BY <1>1, <1>2, <1>3

\* One module more is passed.
LEMMA ModulesNext ==
  ASSUME NEW i \in Nat \ {0}
  PROVE  ModulesTo(i) = ModulesTo(i - 1) \cup WholeFile(Mods[i])
<1>1. 1..i = (1..(i - 1)) \cup {i}
  OBVIOUS
<1> QED BY <1>1 DEF ModulesTo

\* Nothing is passed at first.
LEMMA NothingYet ==
  ASSUME ScopesWritten, AddressesWritten, Inv, MapInv, pc \in EntryPoints
  PROVE  /\ ModulesTo(0) = {} /\ ModulesTo(1) = WholeFile(Mods[1]) /\ WholeFile(Global) = {}
         /\ \A tbl \in Tables : WalkedTo(tbl, 1) = {}
         /\ \A im : FileOf(im, 1) = {} /\ Level(Syms(im), 0, 1)
<1>1. ModulesTo(0) = {} /\ ModulesTo(1) = WholeFile(Mods[1])
  BY DEF ModulesTo
<1>2. \A im : \A k \in DOMAIN Syms(im) : k \in Nat \ {0}
  BY SymsWritten DEF IsModule
<1>3. \A im : FileOf(im, 1) = {} /\ Level(Syms(im), 0, 1)
  BY <1>2 DEF FileOf, Decl, Level, Opens
<1>4. WholeFile(Global) = {}
  <2>1. FileNow \in Files
    BY DEF Inv, LoadInv, Where, EntryPoints, FileNow
  <2>2. Syms(Global) = <<>>
    BY <2>1 DEF ScopesWritten, Syms, FileNow
  <2>3. Decl(Syms(Global), 0) = {}
    BY <2>2 DEF Decl
  <2> QED BY <2>3 DEF WholeFile, FileOf
<1>5. \A tbl \in Tables : WalkedTo(tbl, 1) = {}
  <2>1. \A tbl \in Tables : \A k \in DOMAIN Table(tbl).recs : ~(k < 1)
    BY TablesWritten
  <2> QED BY <2>1 DEF WalkedTo
<1> QED BY <1>1, <1>3, <1>4, <1>5

\* The walk begins.
LEMMA EnterWalk ==
  ASSUME ScopesWritten, AddressesWritten, Inv, DirInv, MapInv, CallOf, pc \in EntryPoints,
         call.op = "module", EnterModule
  PROVE  WalkAllAt' /\ (call.all => AllAt')
<1> DEFINE mods == IF call.all THEN Mods ELSE <<call.im>>
<1>1. /\ pc = "enter" /\ UNCHANGED <<img, cur, out>> /\ out = <<>> /\ IsCall
      /\ IF mods \in {<<>>, <<Global>>}
           THEN call' = [call EXCEPT !.tbl = "GlobalSym", !.chk = 1] /\ pc' = "table"
           ELSE call' = [call EXCEPT !.im = Head(mods), !.mods = Tail(mods)] /\ pc' = "file"
  BY DEF EnterModule, others, files, CallOf, Mods
<1>2. /\ Mods' = Mods /\ Proper' = Proper
      /\ \A tbl : Table(tbl)' = Table(tbl) /\ WholeTable(tbl)' = WholeTable(tbl)
      /\ \A n : ModulesTo(n)' = ModulesTo(n)
      /\ \A tbl, c : TablesTo(tbl, c)' = TablesTo(tbl, c)
  BY <1>1, WalkedStays
<1>3. Mods \in Seq(Nat) /\ Len(Mods) \in Nat
  BY ModsWritten
<1>4. out' \in Seq(Proper)'
  BY <1>1, <1>2
<1>5. CASE mods \in {<<>>, <<Global>>}
  <2>1. /\ call' = [call EXCEPT !.tbl = "GlobalSym", !.chk = 1] /\ pc' = "table"
        /\ call'.tbl = "GlobalSym" /\ call'.chk = 1
    BY <1>1, <1>5 DEF IsCall, CallFields
  <2>2. 1 \in 1..(Len(Table("GlobalSym").recs) + 1)
    BY TablesWritten DEF Tables
  <2>3. WalkAllAt'
    BY <1>2, <1>4, <2>1, <2>2 DEF WalkAllAt
  <2>4. ASSUME call.all PROVE AllAt'
    <3>1. TablesTo("GlobalSym", 1) = {}
      BY NothingYet DEF TablesTo, Tables
    <3>2. ModulesTo(Len(Mods)) = {}
      <4>1. CASE Mods = <<>>
        BY <4>1, NothingYet
      <4>2. CASE Mods = <<Global>>
        BY <4>2, NothingYet
      <4> QED BY <1>5, <2>4, <4>1, <4>2
    <3>3. Shows(out', ModulesTo(Len(Mods)) \cup TablesTo("GlobalSym", 1))
      BY <1>1, <3>1, <3>2, NothingShown
    <3> QED BY <1>2, <2>1, <3>3 DEF AllAt
  <2> QED BY <2>3, <2>4
<1>6. CASE mods \notin {<<>>, <<Global>>}
  <2>1. /\ call' = [call EXCEPT !.im = Head(mods), !.mods = Tail(mods)] /\ pc' = "file"
        /\ call'.im = Head(mods) /\ call'.mods = Tail(mods)
    BY <1>1, <1>6 DEF IsCall, CallFields
  <2>2. WalkAllAt'
    BY <1>4, <2>1 DEF WalkAllAt
  <2>3. ASSUME call.all PROVE AllAt'
    <3>1. /\ 1 \in 1..Len(Mods) /\ call'.im = Mods[1]
          /\ call'.mods = SubSeq(Mods, 1 + 1, Len(Mods))
      <4>1. mods = Mods /\ Mods # <<>>
        BY <1>6, <2>3
      <4>2. 1 + 1 = 2
        OBVIOUS
      <4> QED BY <1>3, <2>1, <4>1, <4>2, ModsRest
    <3>2. AtModule(1)'
      BY <1>2, <3>1 DEF AtModule
    <3>3. Shows(out, ModulesTo(1 - 1))
      <4>1. 1 - 1 = 0
        OBVIOUS
      <4> QED BY <1>1, <4>1, NothingYet, NothingShown
    <3> QED BY <1>1, <1>2, <2>1, <3>2, <3>3 DEF AllAt
  <2> QED BY <2>2, <2>3
<1> QED BY <1>5, <1>6

\* The walk of a file begins.
LEMMA EnterFileWalk ==
  ASSUME ScopesWritten, AddressesWritten, Inv, DirInv, MapInv, CallOf, pc \in EntryPoints,
         call.op = "module", WalkAllAt, call.all => AllAt, EnterFile
  PROVE  WalkAllAt' /\ (call.all => AllAt')
<1>1. /\ pc = "file" /\ pc' = "fileone" /\ UNCHANGED <<img, cur, out>>
      /\ call'.chk = 1 /\ call'.im = call.im /\ call'.mods = call.mods
  BY DEF EnterFile, others, files, CallOf, IsCall, CallFields
<1>2. /\ Mods' = Mods /\ Proper' = Proper /\ Here' = Here
      /\ \A n : ModulesTo(n)' = ModulesTo(n)
      /\ \A im, c : FileOf(im, c)' = FileOf(im, c)
  BY <1>1, WalkedStays, HereStays
<1>3. FileOf(call.im, 1) = {} /\ Level(Here, 0, 1)
  BY NothingYet DEF Here
<1>4. WalkAllAt'
  <2>1. 1 \in 1..(Len(Here) + 1)
    BY HereWritten DEF IsModule
  <2>2. Level(Here, 0, call.chk)'
    BY <1>1, <1>2, <1>3 DEF Level
  <2> QED BY <1>1, <1>2, <2>1, <2>2 DEF WalkAllAt
<1>5. ASSUME call.all PROVE AllAt'
  <2>1. PICK i \in Nat : AtModule(i) /\ Shows(out, ModulesTo(i - 1))
    BY <1>1, <1>5 DEF AllAt
  <2>2. AtModule(i)'
    BY <1>1, <1>2, <2>1 DEF AtModule
  <2>3. Shows(out', ModulesTo(i - 1) \cup FileOf(call.im, 1))
    BY <1>1, <1>3, <2>1
  <2>4. Shows(out, ModulesTo(i - 1) \cup FileOf(call.im, call.chk))'
    BY <1>1, <1>2, <2>3
  <2> QED BY <1>1, <2>2, <2>4 DEF AllAt
<1> QED BY <1>4, <1>5

\* One symbol of a file.
LEMMA FileWalkOne ==
  ASSUME ScopesWritten, AddressesWritten, OnceWritten, Inv, DirInv, MapInv, CallOf,
         pc \in EntryPoints, call.op = "module", WalkAllAt, call.all => AllAt,
         pc = "fileone", call.chk <= Len(Here), ScopeOneSymbol(call.chk, TRUE)
  PROVE  WalkAllAt' /\ (call.all => AllAt')
<1> DEFINE c == call.chk
           next == (IF c \in Opens(Here) THEN Here[c].end ELSE c) + 1
           h == ModuleSym(call.im, c)
           shown == Here[c].code \notin NotShown
<1>1. /\ IsModule(Here) /\ c \in DOMAIN Here /\ Level(Here, 0, c) /\ IsCall /\ ~Looking
      /\ Here = Syms(call.im)
  <2>1. IsModule(Here) /\ c \in 1..(Len(Here) + 1) /\ Level(Here, 0, c)
    BY HereWritten DEF WalkAllAt
  <2>2. c \in DOMAIN Here
    BY <2>1 DEF IsModule
  <2> QED BY <2>1, <2>2 DEF CallOf, Looking, Here
<1>2. c \in Hits
  BY <1>1 DEF Hits
<1>3. /\ call'.chk = next /\ call'.im = call.im
      /\ out' = IF shown THEN Append(out, h) ELSE out
      /\ UNCHANGED <<pc, wr>> \/ (pc' = "done" /\ wr' = "STOP")
  <2>1. PICK k \in DOMAIN Here : k = c
    BY <1>1
  <2>2. ScopeOneSymbol(k, TRUE) /\ k \in Hits
    BY <1>2, <2>1
  <2>3. /\ call'.chk = (IF k \in Opens(Here) THEN Here[k].end ELSE k) + 1
        /\ call'.im = call.im
        /\ out' = IF Here[k].code \notin NotShown THEN Append(out, ModuleSym(call.im, k)) ELSE out
        /\ UNCHANGED <<pc, wr>> \/ (pc' = "done" /\ wr' = "STOP")
    BY <1>1, <2>2, OneShown
  <2> QED BY <2>1, <2>3
<1>4. UNCHANGED <<img, cur>> /\ call'.mods = call.mods
  BY <1>1 DEF ScopeOneSymbol, others, files, IsCall, CallFields
<1>5. /\ Mods' = Mods /\ Proper' = Proper /\ Here' = Here
      /\ \A n : ModulesTo(n)' = ModulesTo(n)
      /\ \A im, x : FileOf(im, x)' = FileOf(im, x)
  BY <1>3, <1>4, WalkedStays, HereStays
<1>6. /\ next \in 1..(Len(Here) + 1) /\ Level(Here, 0, next)
      /\ FileOf(call.im, next) = FileOf(call.im, c) \cup IF shown THEN {h} ELSE {}
      /\ h \notin FileOf(call.im, c)
      /\ shown => h \in WholeFile(call.im)
  <2>1. PICK im, k, n : im = call.im /\ k = c /\ n = next
    OBVIOUS
  <2>2. /\ IsModule(Syms(im)) /\ k \in DOMAIN Syms(im) /\ Level(Syms(im), 0, k)
        /\ n = (IF k \in Opens(Syms(im)) THEN Syms(im)[k].end ELSE k) + 1
    BY <1>1, <2>1
  <2>3. /\ n \in 1..(Len(Syms(im)) + 1) /\ Level(Syms(im), 0, n)
        /\ FileOf(im, n) = FileOf(im, k) \cup
              IF Syms(im)[k].code \notin NotShown THEN {ModuleSym(im, k)} ELSE {}
        /\ ModuleSym(im, k) \notin FileOf(im, k)
        /\ Syms(im)[k].code \notin NotShown => ModuleSym(im, k) \in WholeFile(im)
    BY <2>2, FileStep
  <2> QED BY <1>1, <2>1, <2>3
<1> HIDE DEF c, next, h, shown
<1>7. out' \in Seq(Proper)
  <2>1. out \in Seq(Proper)
    BY DEF WalkAllAt
  <2>2. shown => h \in Proper
    <3>1. call.im \in DOMAIN Info[FileNow].syms
      BY <1>1 DEF Syms, FileNow
    <3> QED BY <1>6, <3>1 DEF Proper
  <2> QED BY <1>3, <2>1, <2>2, AppendProperties
<1>8. WalkAllAt'
  <2>1. Level(Here, 0, call.chk)'
    BY <1>3, <1>5, <1>6 DEF Level
  <2> QED BY <1>3, <1>5, <1>6, <1>7, <2>1 DEF WalkAllAt
<1>9. ASSUME call.all PROVE AllAt'
  <2>1. PICK i \in Nat : AtModule(i) /\ Shows(out, ModulesTo(i - 1) \cup FileOf(call.im, c))
    BY <1>9 DEF AllAt, c
  <2>2. AtModule(i)'
    BY <1>3, <1>4, <1>5, <2>1 DEF AtModule
  <2>3. h \notin ModulesTo(i - 1)
    BY <2>1, ModulesApart DEF AtModule, h
  <2>4. Shows(out', ModulesTo(i - 1) \cup FileOf(call.im, next))
    <3> DEFINE S == ModulesTo(i - 1) \cup FileOf(call.im, c)
    <3>1. CASE shown
      <4>1. Shows(out, S) /\ h \notin S /\ out' = Append(out, h)
        BY <1>3, <1>6, <2>1, <2>3, <3>1
      <4>2. ModulesTo(i - 1) \cup FileOf(call.im, next) = S \cup {h}
        BY <1>6, <3>1
      <4>3. PICK o1 : o1 = out'
        OBVIOUS
      <4> HIDE DEF S
      <4>4. Shows(o1, S \cup {h})
        BY <4>1, <4>3, ShowsMore
      <4> QED BY <4>2, <4>3, <4>4
    <3>2. CASE ~shown
      BY <1>3, <1>6, <2>1, <3>2
    <3> QED BY <3>1, <3>2
  <2>5. Shows(out, ModulesTo(i - 1) \cup FileOf(call.im, call.chk))'
    BY <1>3, <1>5, <2>4
  <2> QED BY <1>3, <2>2, <2>5 DEF AllAt
<1> QED BY <1>8, <1>9

\* A file is done.
LEMMA FileWalkDone ==
  ASSUME ScopesWritten, AddressesWritten, Inv, DirInv, MapInv, CallOf, pc \in EntryPoints,
         call.op = "module", WalkAllAt, call.all => AllAt,
         pc = "fileone", call.chk > Len(Here), FileDone, UNCHANGED <<others, out>>
  PROVE  WalkAllAt' /\ (call.all => AllAt')
<1>1. /\ ~Looking /\ IsCall /\ UNCHANGED <<img, cur, out>> /\ call.chk = Len(Here) + 1
      /\ Here = Syms(call.im)
  <2>1. call.chk \in 1..(Len(Here) + 1) /\ Len(Here) \in Nat
    BY HereWritten DEF WalkAllAt, IsModule
  <2> QED BY <2>1 DEF CallOf, Looking, others, files, Here
<1>2. /\ Mods' = Mods /\ Proper' = Proper
      /\ \A tbl : Table(tbl)' = Table(tbl) /\ WholeTable(tbl)' = WholeTable(tbl)
      /\ \A n : ModulesTo(n)' = ModulesTo(n)
      /\ \A tbl, x : TablesTo(tbl, x)' = TablesTo(tbl, x)
  BY <1>1, WalkedStays
<1>3. out' \in Seq(Proper)'
  BY <1>1, <1>2 DEF WalkAllAt
<1>4. ASSUME call.all
      PROVE  \E i \in 1..Len(Mods) : /\ call.mods = SubSeq(Mods, i + 1, Len(Mods))
                                     /\ Shows(out, ModulesTo(i))
  <2>1. PICK i \in Nat : /\ AtModule(i)
                         /\ Shows(out, ModulesTo(i - 1) \cup FileOf(call.im, Len(Here) + 1))
    BY <1>1, <1>4 DEF AllAt
  <2>2. FileOf(call.im, Len(Here) + 1) = WholeFile(Mods[i])
    BY <1>1, <2>1 DEF AtModule, WholeFile
  <2>3. ModulesTo(i) = ModulesTo(i - 1) \cup WholeFile(Mods[i])
    BY <2>1, ModsWritten, ModulesNext DEF AtModule
  <2> QED BY <2>1, <2>2, <2>3 DEF AtModule
<1>5. Mods \in Seq(Nat) /\ Len(Mods) \in Nat
  BY ModsWritten
<1>6. CASE ~call.all
  <2>1. pc' = "done"
    BY <1>1, <1>6 DEF FileDone, Ends
  <2> QED BY <1>3, <1>6, <2>1 DEF WalkAllAt
<1>7. CASE call.all /\ call.mods # <<>>
  <2>1. /\ pc' = "file" /\ call'.im = Head(call.mods) /\ call'.mods = Tail(call.mods)
    BY <1>1, <1>7 DEF FileDone, IsCall, CallFields
  <2>2. PICK i \in 1..Len(Mods) : /\ call.mods = SubSeq(Mods, i + 1, Len(Mods))
                                  /\ Shows(out, ModulesTo(i))
    BY <1>4, <1>7
  <2>3. /\ i + 1 \in 1..Len(Mods) /\ Head(call.mods) = Mods[i + 1]
        /\ Tail(call.mods) = SubSeq(Mods, (i + 1) + 1, Len(Mods))
    <3>1. PICK s, r : s = Mods /\ r = call.mods
      OBVIOUS
    <3>2. s \in Seq(Nat) /\ i \in 1..Len(s) /\ r = SubSeq(s, i + 1, Len(s)) /\ r # <<>>
      BY <1>5, <1>7, <2>2, <3>1
    <3>3. i # Len(s)
      BY <3>2, ModsRest
    <3>4. /\ i + 1 \in 1..Len(s) /\ Head(r) = s[i + 1]
          /\ Tail(r) = SubSeq(s, (i + 1) + 1, Len(s))
      BY <3>2, <3>3, ModsRest
    <3> QED BY <3>1, <3>4
  <2>4. AtModule(i + 1)'
    BY <1>2, <2>1, <2>3 DEF AtModule
  <2>5. (i + 1) - 1 = i /\ i + 1 \in Nat
    BY <1>5
  <2>6. Shows(out, ModulesTo((i + 1) - 1))'
    BY <1>1, <1>2, <2>2, <2>5
  <2>7. AllAt'
    BY <2>1, <2>4, <2>5, <2>6 DEF AllAt
  <2> QED BY <1>3, <2>1, <2>7 DEF WalkAllAt
<1>8. CASE call.all /\ call.mods = <<>>
  <2>1. pc' = "table" /\ call'.tbl = "GlobalSym" /\ call'.chk = 1
    BY <1>1, <1>8 DEF FileDone, IsCall, CallFields
  <2>2. Shows(out, ModulesTo(Len(Mods)))
    <3>1. PICK i \in 1..Len(Mods) : /\ call.mods = SubSeq(Mods, i + 1, Len(Mods))
                                    /\ Shows(out, ModulesTo(i))
      BY <1>4, <1>8
    <3>2. i = Len(Mods)
      BY <1>5, <1>8, <3>1, ModsRest
    <3> QED BY <3>1, <3>2
  <2>3. TablesTo("GlobalSym", 1) = {} /\ 1 \in 1..(Len(Table("GlobalSym").recs) + 1)
    BY NothingYet, TablesWritten DEF TablesTo, Tables
  <2>4. Shows(out', ModulesTo(Len(Mods)) \cup TablesTo("GlobalSym", 1))
    BY <1>1, <2>2, <2>3
  <2>5. AllAt'
    BY <1>2, <2>1, <2>4 DEF AllAt
  <2>6. WalkAllAt'
    BY <1>2, <1>3, <2>1, <2>3 DEF WalkAllAt
  <2> QED BY <2>5, <2>6
<1> QED BY <1>6, <1>7, <1>8

\* One record of a table.
LEMMA TableWalkOne ==
  ASSUME ScopesWritten, AddressesWritten, Inv, DirInv, MapInv, CallOf, pc \in EntryPoints,
         call.op = "module", WalkAllAt, call.all => AllAt,
         TableWalkSym, call.chk <= Len(Table(call.tbl).recs)
  PROVE  WalkAllAt' /\ (call.all => AllAt')
<1> DEFINE t == call.tbl
           c == call.chk
           n == Len(Table(t).recs)
           h == InTableAt(t, c)
           shown == ~Hidden(Table(t).recs[c])
<1>1. /\ pc = "table" /\ t \in {"GlobalSym", "GlobalPub"} /\ c \in 1..(n + 1) /\ n \in Nat
      /\ DOMAIN Table(t).recs = 1..n /\ c \in 1..n /\ ~Looking /\ IsCall /\ UNCHANGED <<img, cur>>
  <2>1. pc = "table"
    BY DEF TableWalkSym
  <2>2. t \in {"GlobalSym", "GlobalPub"} /\ c \in 1..(n + 1)
    BY <2>1 DEF WalkAllAt
  <2>3. n \in Nat /\ DOMAIN Table(t).recs = 1..n
    <3>1. PICK tbl \in Tables : tbl = t
      BY <2>2 DEF Tables
    <3>2. Len(Table(tbl).recs) \in Nat /\ DOMAIN Table(tbl).recs = 1..Len(Table(tbl).recs)
      BY TablesWritten
    <3> QED BY <3>1, <3>2
  <2> QED BY <2>1, <2>2, <2>3 DEF CallOf, Looking, TableWalkSym, others, files
<1>2. NotWalked(Table(t).recs[c]) <=> ~shown
  <2>1. PICK tbl \in Tables : tbl = t
    BY <1>1 DEF Tables
  <2>2. \A k \in DOMAIN Table(tbl).recs : NotWalked(Table(tbl).recs[k]) <=> Hidden(Table(tbl).recs[k])
    BY HiddenIs
  <2>3. c \in DOMAIN Table(tbl).recs
    BY <1>1, <2>1
  <2> QED BY <2>1, <2>2, <2>3
<1>3. shown => SymFillIn(t, c, Global) = h
  BY DEF Hidden, SymFillIn, InTableAt
<1>4. call'.chk = c + 1 /\ call'.tbl = t
  BY <1>1 DEF TableWalkSym, IsCall, CallFields
<1> HIDE DEF h, shown
<1>5. /\ out' = IF shown THEN Append(out, h) ELSE out
      /\ UNCHANGED <<pc, wr>> \/ (pc' = "done" /\ wr' = "STOP")
  <2>1. IF NotWalked(Table(t).recs[c]) THEN UNCHANGED <<pc, wr, out>>
        ELSE Show(SymFillIn(t, c, Global))
    BY DEF TableWalkSym
  <2>2. CASE shown
    BY <1>1, <1>2, <1>3, <2>1, <2>2 DEF Show, Ends
  <2>3. CASE ~shown
    BY <1>2, <2>1, <2>3
  <2> QED BY <2>2, <2>3
<1>6. /\ WalkedTo(t, c + 1) = WalkedTo(t, c) \cup IF shown THEN {h} ELSE {}
      /\ h \notin WalkedTo(t, c)
      /\ shown => h \in WholeTable(t)
  <2>1. PICK tbl, m, k : tbl = t /\ m = n /\ k = c
    OBVIOUS
  <2>2. m \in Nat /\ k \in 1..m /\ DOMAIN Table(tbl).recs = 1..m /\ Len(Table(tbl).recs) = m
    BY <1>1, <2>1
  <2>3. /\ WalkedTo(tbl, k + 1) = WalkedTo(tbl, k) \cup
              IF Hidden(Table(tbl).recs[k]) THEN {} ELSE {InTableAt(tbl, k)}
        /\ InTableAt(tbl, k) \notin WalkedTo(tbl, k)
        /\ ~Hidden(Table(tbl).recs[k]) => InTableAt(tbl, k) \in WholeTable(tbl)
    BY <2>2, TableStepIs
  <2>4. ~Hidden(Table(t).recs[c]) <=> shown
    BY DEF shown
  <2>5. InTableAt(t, c) = h
    BY DEF h
  <2> QED BY <2>1, <2>3, <2>4, <2>5
<1>7. /\ Mods' = Mods /\ Proper' = Proper
      /\ \A tbl : Table(tbl)' = Table(tbl)
      /\ \A x : ModulesTo(x)' = ModulesTo(x)
      /\ \A tbl, x : TablesTo(tbl, x)' = TablesTo(tbl, x)
  BY <1>1, WalkedStays
<1>8. WalkAllAt'
  <2>1. out \in Seq(Proper)
    BY DEF WalkAllAt
  <2>2. shown => h \in Proper
    BY <1>1, <1>6 DEF Proper
  <2>3. out' \in Seq(Proper)
    BY <1>5, <2>1, <2>2, AppendProperties
  <2>4. c + 1 \in 1..(n + 1)
    BY <1>1
  <2> QED BY <1>1, <1>4, <1>5, <1>7, <2>3, <2>4 DEF WalkAllAt
<1>9. ASSUME call.all PROVE AllAt'
  <2> DEFINE S == ModulesTo(Len(Mods)) \cup TablesTo(t, c)
  <2>1. Shows(out, S)
    BY <1>1, <1>9 DEF AllAt
  <2>2. TablesTo(t, c + 1) = TablesTo(t, c) \cup IF shown THEN {h} ELSE {}
    BY <1>6 DEF TablesTo
  <2>3. h \notin S
    <3>1. h \notin ModulesTo(Len(Mods))
      BY <1>1, HandlesApart DEF h
    <3>2. t # "GlobalSym" => h \notin WholeTable("GlobalSym")
      BY HandlesApart DEF h, WholeTable
    <3> QED BY <1>6, <3>1, <3>2 DEF TablesTo
  <2>4. Shows(out', ModulesTo(Len(Mods)) \cup TablesTo(t, c + 1))
    <3>1. CASE shown
      <4>1. ModulesTo(Len(Mods)) \cup TablesTo(t, c + 1) = S \cup {h}
        BY <2>2, <3>1
      <4>2. PICK o1 : o1 = out'
        OBVIOUS
      <4>3. o1 = Append(out, h)
        BY <1>5, <3>1, <4>2
      <4> HIDE DEF S
      <4>4. Shows(o1, S \cup {h})
        BY <2>1, <2>3, <4>3, ShowsMore
      <4> QED BY <4>1, <4>2, <4>4
    <3>2. CASE ~shown
      BY <1>5, <2>1, <2>2, <3>2
    <3> QED BY <3>1, <3>2
  <2>5. Shows(out, ModulesTo(Len(Mods)) \cup TablesTo(call.tbl, call.chk))'
    BY <1>4, <1>7, <2>4
  <2> QED BY <1>1, <1>5, <2>5 DEF AllAt
<1> QED BY <1>8, <1>9

\* A table is done.
LEMMA TableWalkDone ==
  ASSUME ScopesWritten, AddressesWritten, Inv, DirInv, MapInv, CallOf, pc \in EntryPoints,
         call.op = "module", WalkAllAt, call.all => AllAt,
         TableWalkSym, ~(call.chk <= Len(Table(call.tbl).recs))
  PROVE  WalkAllAt' /\ (call.all => AllAt')
<1>1. /\ pc = "table" /\ call.tbl \in {"GlobalSym", "GlobalPub"} /\ IsCall
      /\ UNCHANGED <<img, cur, out>>
      /\ call.chk \in 1..(Len(Table(call.tbl).recs) + 1) /\ Len(Table(call.tbl).recs) \in Nat
  <2>1. pc = "table" /\ UNCHANGED <<img, cur, out>>
    BY DEF TableWalkSym, others, files
  <2>2. /\ call.tbl \in {"GlobalSym", "GlobalPub"}
        /\ call.chk \in 1..(Len(Table(call.tbl).recs) + 1)
    BY <2>1 DEF WalkAllAt
  <2>3. Len(Table(call.tbl).recs) \in Nat
    <3>1. PICK tbl \in Tables : tbl = call.tbl
      BY <2>2 DEF Tables
    <3> QED BY <3>1, TablesWritten
  <2> QED BY <2>1, <2>2, <2>3 DEF CallOf
<1>2. call.chk = Len(Table(call.tbl).recs) + 1
  BY <1>1
<1>3. /\ Mods' = Mods /\ Proper' = Proper
      /\ \A tbl : Table(tbl)' = Table(tbl) /\ WholeTable(tbl)' = WholeTable(tbl)
      /\ \A x : ModulesTo(x)' = ModulesTo(x)
      /\ \A tbl, x : TablesTo(tbl, x)' = TablesTo(tbl, x)
  BY <1>1, WalkedStays
<1>4. out' \in Seq(Proper)'
  BY <1>1, <1>3 DEF WalkAllAt
<1>5. call.all => Shows(out, ModulesTo(Len(Mods)) \cup TablesTo(call.tbl, call.chk))
  BY <1>1 DEF AllAt
<1>6. CASE call.tbl = "GlobalSym"
  <2>1. pc' = "table" /\ call'.tbl = "GlobalPub" /\ call'.chk = 1
    BY <1>1, <1>6 DEF TableWalkSym, IsCall, CallFields
  <2>2. 1 \in 1..(Len(Table("GlobalPub").recs) + 1)
    BY TablesWritten DEF Tables
  <2>3. TablesTo("GlobalPub", 1) = TablesTo(call.tbl, call.chk)
    BY <1>2, <1>6, NothingYet DEF TablesTo, WholeTable, Tables
  <2>4. WalkAllAt'
    BY <1>3, <1>4, <2>1, <2>2 DEF WalkAllAt
  <2>5. call.all => AllAt'
    BY <1>1, <1>3, <1>5, <2>1, <2>3 DEF AllAt
  <2> QED BY <2>4, <2>5
<1>7. CASE call.tbl = "GlobalPub"
  <2>1. pc' = "done"
    BY <1>1, <1>7 DEF TableWalkSym, Ends
  <2>2. TablesTo(call.tbl, call.chk) = WholeTable("GlobalSym") \cup WholeTable("GlobalPub")
    BY <1>2, <1>7 DEF TablesTo, WholeTable
  <2>3. WalkAllAt'
    BY <1>4, <2>1 DEF WalkAllAt
  <2>4. call.all => AllAt'
    <3> SUFFICES ASSUME call.all PROVE AllAt'
      OBVIOUS
    <3>1. Shows(out', ModulesTo(Len(Mods)) \cup (WholeTable("GlobalSym") \cup WholeTable("GlobalPub")))
      BY <1>1, <1>5, <2>2
    <3>2. Shows(out, ModulesTo(Len(Mods)) \cup WholeTable("GlobalSym") \cup WholeTable("GlobalPub"))'
      <4>1. ModulesTo(Len(Mods)) \cup (WholeTable("GlobalSym") \cup WholeTable("GlobalPub"))
              = ModulesTo(Len(Mods)) \cup WholeTable("GlobalSym") \cup WholeTable("GlobalPub")
        OBVIOUS
      <4> QED BY <1>3, <3>1, <4>1
    <3> QED BY <2>1, <3>2 DEF AllAt
  <2> QED BY <2>3, <2>4
<1> QED BY <1>1, <1>6, <1>7

\* Every step keeps the eighth invariant.
LEMMA ModulesStays ==
  ASSUME ScopesWritten, AddressesWritten, OnceWritten, Inv, DirInv, MapInv, CallInv, ModulesInv,
         [Next]_vars
  PROVE  ModulesInv'
<1>1. CASE UNCHANGED vars
  <2>1. UNCHANGED <<img, cur, pc, out, wr, call>>
    BY <1>1 DEF vars
  <2> SUFFICES ASSUME pc \in EntryPoints, call.op = "module", WalkAllAt, call.all => AllAt
               PROVE  WalkAllAt' /\ (call.all => AllAt')
    BY <2>1 DEF ModulesInv
  <2>2. Here' = Here
    BY <2>1, HereStays
  <2>3. WalkAllAt'
    BY <2>1, <2>2, WalkedStays DEF WalkAllAt, Level
  <2>4. \A i : AtModule(i)' = AtModule(i)
    BY <2>1, WalkedStays DEF AtModule
  <2>5. /\ Mods' = Mods
        /\ \A tbl : WholeTable(tbl)' = WholeTable(tbl)
        /\ \A n : ModulesTo(n)' = ModulesTo(n)
        /\ \A im, c : FileOf(im, c)' = FileOf(im, c)
        /\ \A tbl, c : TablesTo(tbl, c)' = TablesTo(tbl, c)
    BY <2>1, WalkedStays
  <2>6. ASSUME call.all PROVE AllAt'
    <3>1. (pc = "enter" => out = <<>>)'
      BY <2>1, <2>6 DEF AllAt
    <3>2. (pc = "file" => \E i \in Nat : AtModule(i) /\ Shows(out, ModulesTo(i - 1)))'
      BY <2>1, <2>4, <2>5, <2>6 DEF AllAt
    <3>3. (pc = "fileone" =>
             \E i \in Nat : AtModule(i)
                            /\ Shows(out, ModulesTo(i - 1) \cup FileOf(call.im, call.chk)))'
      BY <2>1, <2>4, <2>5, <2>6 DEF AllAt
    <3>4. (pc = "table" => Shows(out, ModulesTo(Len(Mods)) \cup TablesTo(call.tbl, call.chk)))'
      BY <2>1, <2>5, <2>6 DEF AllAt
    <3>5. (pc = "done" /\ wr = "CONTINUE" =>
             Shows(out, ModulesTo(Len(Mods)) \cup WholeTable("GlobalSym")
                          \cup WholeTable("GlobalPub")))'
      BY <2>1, <2>5, <2>6 DEF AllAt
    <3> QED BY <3>1, <3>2, <3>3, <3>4, <3>5 DEF AllAt
  <2> QED BY <2>1, <2>3, <2>6
<1>2. CASE Load \/ (LoadInfo /\ UNCHANGED locals)
  <2>1. pc' \in LoadSteps \cup {"idle"}
    BY <1>2 DEF Load, LoadInfo, FindCV, MapInfo, UnloadInfo, ListImage, LoadHeader, AllocBlock,
                ReadBlock, LoadMapping, LoadTypes, SetMADType, LoadFails, LoadSteps, locals
  <2> QED BY <2>1 DEF ModulesInv, EntryPoints
<1>3. CASE Request
  <2>1. PICK ii \in Images : \E c \in TypeCalls(ii) \cup SymCalls(ii) : Enter(ii, c)
    BY <1>3 DEF Request
  <2>2. pc = "idle" /\ pc' = "enter" /\ UNCHANGED out
    BY <2>1 DEF Enter, Ready
  <2>3. out' = <<>>
    BY <2>2 DEF CallInv, EntryPoints
  <2>4. out' \in Seq(Proper)'
    BY <2>3
  <2> QED BY <2>2, <2>3, <2>4 DEF ModulesInv, WalkAllAt, AllAt
<1>4. CASE Finish
  BY <1>4 DEF Finish, ModulesInv, EntryPoints
<1> SUFFICES ASSUME pc \in EntryPoints, call'.op = "module",
                    \/ TypeListWalk /\ UNCHANGED call
                    \/ Dispatch \/ ScopeSearch \/ ScopeWalk \/ TableStep \/ PeelArray \/ CallFails
             PROVE  WalkAllAt' /\ (call'.all => AllAt')
  <2>1. TypeListWalk => pc \in EntryPoints
    BY WalkKeeps, CalledAt
  <2> QED BY <1>1, <1>2, <1>3, <1>4, <2>1, StaysCalled DEF Next, Step, ModulesInv
<1>5. CallOf /\ IsCall
  BY DEF CallInv, CallOf
<1>6. CASE TypeListWalk /\ UNCHANGED call
  <2>1. pc = "list" /\ call.op = "module" /\ pc \in Path(call.op)
    BY <1>5, <1>6, WalkKeeps DEF CallOf
  <2> QED BY <2>1, PointsOf
<1>7. CASE Dispatch
  <2>1. CASE EnterModule
    <3>1. call.op \in {"module", "modlookup"}
      BY <2>1 DEF EnterModule
    <3>2. \/ \E im, mods : call' = [call EXCEPT !.im = im, !.mods = mods]
          \/ call' = [call EXCEPT !.tbl = "GlobalSym", !.chk = 1]
      BY <2>1 DEF EnterModule
    <3>3. call'.op = call.op /\ call'.all = call.all
      BY <1>5, <3>2 DEF IsCall, CallFields
    <3> QED BY <1>5, <2>1, <3>3, EnterWalk
  <2>2. ASSUME ~EnterModule PROVE FALSE
    <3>1. CASE WalkMembers \/ SearchNested \/ ThunkAdjust \/ VFuncLocation \/ SearchTag
      <4>1. UNCHANGED call /\ call.op # "module"
        BY <3>1 DEF WalkMembers, SearchNested, ThunkAdjust, VFuncLocation, SearchTag, Entering
      <4> QED BY <4>1
    <3>2. CASE EnterArray
      <4>1. call.op = "array" /\ call'.op = call.op
        BY <1>5, <3>2 DEF EnterArray, Entering, IsCall, CallFields
      <4> QED BY <4>1
    <3>3. CASE EnterScoped
      <4>1. call.op \in {"scoped", "block", "lookup"}
        BY <3>3 DEF EnterScoped
      <4>2. \/ \E im : call' = [call EXCEPT !.im = im, !.chk = 1]
            \/ call' = [call EXCEPT !.tbl = "StaticSym", !.chk = 1]
            \/ UNCHANGED call
        BY <3>3 DEF EnterScoped
      <4>3. call'.op = call.op
        BY <1>5, <4>2 DEF IsCall, CallFields
      <4> QED BY <4>1, <4>3
    <3>4. CASE EnterAddr
      <4>1. call.op = "addr" /\ call' = [call EXCEPT !.tbl = "StaticSym"]
        BY <3>4 DEF EnterAddr, Entering
      <4>2. call'.op = call.op
        BY <1>5, <4>1 DEF IsCall, CallFields
      <4> QED BY <4>1, <4>2
    <3> QED BY <1>7, <2>2, <3>1, <3>2, <3>3, <3>4 DEF Dispatch
  <2> QED BY <2>1, <2>2
<1>8. CASE ScopeSearch \/ ScopeWalk \/ TableStep \/ PeelArray \/ CallFails
  <2>1. Asked
    BY <1>5, <1>8, SearchAsked, WalkAsked
  <2>2. call.op = "module" /\ WalkAllAt /\ (call.all => AllAt) /\ call'.all = call.all
    BY <2>1 DEF Asked, ModulesInv
  <2> SUFFICES WalkAllAt' /\ (call.all => AllAt')
    BY <2>2
  <2>3. pc \in {"enter", "file", "fileone", "table", "done"}
    BY <1>5, <2>2 DEF CallOf, Path
  <2>4. CASE EnterFile
    BY <1>5, <2>2, <2>4, EnterFileWalk
  <2>5. CASE ScopeWalkFile
    <3>1. pc = "fileone" /\ Syms(call.im) = Here
      BY <2>5 DEF ScopeWalkFile, Here
    <3>2. Len(Here) \in Nat /\ call.chk \in 1..(Len(Here) + 1)
      BY <2>2, <3>1, HereWritten DEF WalkAllAt, IsModule
    <3>3. CASE call.chk > Len(Here)
      <4>1. FileDone /\ UNCHANGED <<others, out>>
        BY <2>5, <3>1, <3>3 DEF ScopeWalkFile
      <4> QED BY <1>5, <2>2, <3>1, <3>3, <4>1, FileWalkDone
    <3>4. CASE ~(call.chk > Len(Here))
      <4>1. ScopeOneSymbol(call.chk, TRUE)
        BY <2>5, <3>1, <3>4 DEF ScopeWalkFile
      <4>2. call.chk <= Len(Here)
        BY <3>2, <3>4
      <4> QED BY <1>5, <2>2, <3>1, <4>1, <4>2, FileWalkOne
    <3> QED BY <3>3, <3>4
  <2>6. CASE TableWalkSym
    <3>1. CASE call.chk <= Len(Table(call.tbl).recs)
      BY <1>5, <2>2, <2>6, <3>1, TableWalkOne
    <3>2. CASE ~(call.chk <= Len(Table(call.tbl).recs))
      BY <1>5, <2>2, <2>6, <3>2, TableWalkDone
    <3> QED BY <3>1, <3>2
  <2>7. CASE CallFails
    <3>1. pc' = "done" /\ wr' = "FAIL" /\ UNCHANGED <<img, cur, out>>
      BY <2>7 DEF CallFails, Ends, others, files
    <3>2. out' \in Seq(Proper)'
      BY <2>2, <3>1, WalkedStays DEF WalkAllAt
    <3> QED BY <3>1, <3>2 DEF WalkAllAt, AllAt
  <2>8. ASSUME ~EnterFile, ~ScopeWalkFile, ~TableWalkSym, ~CallFails PROVE FALSE
    BY <1>8, <2>3, <2>8 DEF ScopeSearch, SearchSegment, SearchOutermost, SearchSmallest, ScopeWalk,
       EnterScope, ScopeWalkOne, ScopeWalkClass, ScopeFindNext, WalkBlock, ScopeOuter,
       TableStep, TableSearchForName, AddrSym, PeelArray
  <2> QED BY <2>4, <2>5, <2>6, <2>7, <2>8
<1> QED BY <1>6, <1>7, <1>8

\* The directory's invariant always holds, and the eighth.
LEMMA AlwaysDirectory == Spec => []DirInv
<1>1. Init => DirInv
  BY DEF Init, InitLoad, DirInv
<1>2. Inv /\ DirInv /\ [Next]_vars => DirInv'
  BY DirectoryStays
<1> QED BY <1>1, <1>2, AlwaysInv, PTL DEF Spec

\* The eighth invariant always holds.
LEMMA AlwaysModules ==
  ASSUME ScopesWritten, AddressesWritten, OnceWritten PROVE Spec => []ModulesInv
<1>1. Init => ModulesInv
  BY DEF Init, InitLoad, InitSymbols, ModulesInv, EntryPoints
<1>2. Spec => [](Inv /\ DirInv /\ MapInv /\ CallInv)
  BY AlwaysInv, AlwaysDirectory, AlwaysMap, AlwaysCall, PTL
<1>3. Inv /\ DirInv /\ MapInv /\ CallInv /\ ModulesInv /\ [Next]_vars => ModulesInv'
  BY ModulesStays
<1> QED BY <1>1, <1>2, <1>3, PTL DEF Spec

-----------------------------------------------------------------------------
(***************************************************************************)
(* What the walk of the modules promises.                                  *)
(***************************************************************************)
Walked == ModulesTo(Len(Mods)) \cup WholeTable("GlobalSym") \cup WholeTable("GlobalPub")

\* What the files say of the global and the public table.
LEMMA GlobalsWritten ==
  ASSUME OnceWritten, Inv, pc \in EntryPoints
  PROVE  /\ \A k \in DOMAIN Table("GlobalSym").recs :
              LET r == Table("GlobalSym").recs[k] IN
              r.code # "PUB" /\ (r.code \in Reference => ModuleSym(r.im, r.sym) \in InModules(FileNow))
         /\ \A k \in DOMAIN Table("GlobalPub").recs :
              Table("GlobalPub").recs[k].code \notin Reference \cup (Placed \ {"PUB"})
<1>1. FileNow \in Files
  BY DEF Inv, LoadInv, Where, EntryPoints, FileNow
<1>2. /\ Table("GlobalSym").recs = Info[FileNow].tables.GlobalSym.recs
      /\ Table("GlobalPub").recs = Info[FileNow].tables.GlobalPub.recs
  BY DEF Table, FileNow
<1> QED BY <1>1, <1>2 DEF OnceWritten

\* The symbols of the listed modules that have an address.
LEMMA ModulesShown ==
  ASSUME ScopesWritten, Inv, DirInv, pc \in EntryPoints, NEW h
  PROVE  /\ h \in ModulesTo(Len(Mods)) /\ Rec(h).code \in Placed =>
              h \in InModules(FileNow) /\ Rec(h) = RecordOf(FileNow, h)
         /\ h \in InModules(FileNow) => h \in ModulesTo(Len(Mods))
<1>1. /\ Len(Mods) \in Nat /\ DOMAIN Mods = 1..Len(Mods)
      /\ \A im : Module(im) \in Range(Info[FileNow].dir) <=> im \in Range(Mods)
  BY ModsWritten
<1>2. \A im : IsListed(FileNow, im) <=> \E i \in 1..Len(Mods) : im = Mods[i]
  <2>1. \A im : im \in Range(Mods) <=> \E i \in 1..Len(Mods) : im = Mods[i]
    BY <1>1 DEF Range
  <2>2. \A im : IsListed(FileNow, im) <=> Module(im) \in Range(Info[FileNow].dir)
    BY DEF IsListed, Module, Range
  <2> QED BY <1>1, <2>1, <2>2
<1>3. ASSUME NEW im \in DOMAIN Info[FileNow].syms
      PROVE  /\ Syms(im) = Info[FileNow].syms[im]
             /\ \A k : k \in FileLevel(Syms(im)) <=>
                         k \in Decl(Syms(im), 0) /\ Syms(im)[k].code \in Placed
             /\ \A k \in Decl(Syms(im), 0) : k < Len(Syms(im)) + 1
  <2>1. Syms(im) = Info[FileNow].syms[im]
    BY DEF Syms, FileNow
  <2>2. IsModule(Syms(im))
    BY SymsWritten
  <2>3. \A k \in DOMAIN Syms(im) : k \in 1..Len(Syms(im)) /\ Len(Syms(im)) \in Nat
    BY <2>2 DEF IsModule
  <2>4. \A k \in Decl(Syms(im), 0) : k \in DOMAIN Syms(im)
    BY DEF Decl
  <2>5. \A k : k \in FileLevel(Syms(im)) <=>
                 k \in Decl(Syms(im), 0) /\ Syms(im)[k].code \in Placed
    <3>1. \A k : Around(Syms(im), k) = {} <=>
                   \A j \in Opens(Syms(im)) : ~(j < k /\ k < Syms(im)[j].end)
      BY DEF Around
    <3> QED BY <3>1 DEF FileLevel, Decl
  <2> QED BY <2>1, <2>3, <2>4, <2>5
<1>4. ASSUME h \in ModulesTo(Len(Mods)), Rec(h).code \in Placed
      PROVE  h \in InModules(FileNow) /\ Rec(h) = RecordOf(FileNow, h)
  <2>1. PICK i \in 1..Len(Mods) : h \in WholeFile(Mods[i])
    BY <1>4 DEF ModulesTo
  <2>2. PICK im : im = Mods[i]
    OBVIOUS
  <2>3. PICK k \in Decl(Syms(im), 0) : h = ModuleSym(im, k)
    BY <2>1, <2>2 DEF WholeFile, FileOf
  <2>4. im \in DOMAIN Info[FileNow].syms
    BY <2>3, NoSymbols DEF Syms, FileNow, Decl
  <2>5. Rec(h) = Syms(im)[k] /\ RecordOf(FileNow, h) = Info[FileNow].syms[im][k]
    BY <2>3 DEF Rec, RecordOf, ModuleSym
  <2>6. k \in FileLevel(Info[FileNow].syms[im])
    BY <1>3, <1>4, <2>3, <2>4, <2>5
  <2> QED BY <1>2, <1>3, <2>2, <2>3, <2>4, <2>5, <2>6 DEF InModules
<1>5. ASSUME h \in InModules(FileNow) PROVE h \in ModulesTo(Len(Mods))
  <2>1. PICK im \in DOMAIN Info[FileNow].syms :
          IsListed(FileNow, im) /\ \E k \in FileLevel(Info[FileNow].syms[im]) : h = ModuleSym(im, k)
    BY <1>5 DEF InModules
  <2>2. PICK i \in 1..Len(Mods) : im = Mods[i]
    BY <1>2, <2>1
  <2>3. h \in WholeFile(im)
    BY <1>3, <2>1 DEF WholeFile, FileOf
  <2> QED BY <2>2, <2>3 DEF ModulesTo
<1> QED BY <1>4, <1>5

\* What is walked and has an address is a symbol that OnceWritten is about.
LEMMA WalkedPlaced ==
  ASSUME ScopesWritten, AddressesWritten, OnceWritten, Inv, DirInv, MapInv, pc \in EntryPoints,
         NEW where, \A r : Location(r) = LoadedAt(FileNow, where, r),
         NEW h \in Walked, Rec(h).code \in Placed
  PROVE  /\ h \in InModules(FileNow) \cup InGlobals(FileNow) \cup OnlyPublic(FileNow, where)
         /\ Rec(h) = RecordOf(FileNow, h)
<1>1. CASE h \in ModulesTo(Len(Mods))
  BY <1>1, ModulesShown
<1>2. CASE h \in WholeTable("GlobalSym")
  <2>1. PICK k \in DOMAIN Table("GlobalSym").recs : h = InTableAt("GlobalSym", k)
    BY <1>2 DEF WholeTable, WalkedTo
  <2>2. /\ Rec(h) = Table("GlobalSym").recs[k]
        /\ Table("GlobalSym").recs = Info[FileNow].tables.GlobalSym.recs
        /\ RecordOf(FileNow, h) = Table("GlobalSym").recs[k]
    BY <2>1 DEF Rec, InTableAt, Table, RecordOf, FileNow
  <2> QED BY <2>1, <2>2 DEF InGlobals, InTableAt
<1>3. CASE h \in WholeTable("GlobalPub")
  <2>1. PICK k \in DOMAIN Table("GlobalPub").recs :
          h = InTableAt("GlobalPub", k) /\ ~Hidden(Table("GlobalPub").recs[k])
    BY <1>3 DEF WholeTable, WalkedTo
  <2>2. /\ Rec(h) = Table("GlobalPub").recs[k]
        /\ Table("GlobalPub").recs = Info[FileNow].tables.GlobalPub.recs
        /\ Table("GlobalSym").recs = Info[FileNow].tables.GlobalSym.recs
        /\ RecordOf(FileNow, h) = Table("GlobalPub").recs[k]
    BY <2>1 DEF Rec, InTableAt, Table, RecordOf, FileNow
  <2> DEFINE r == Table("GlobalPub").recs[k]
  <2>3. r.code = "PUB"
    BY <2>1, <2>2, GlobalsWritten
  <2>4. Location(r) \notin Places("GlobalSym")
    BY <2>1, <2>3 DEF Hidden
  <2>5. ASSUME NEW l \in DOMAIN Table("GlobalSym").recs, RefersTo("GlobalSym", l).code \in Placed
        PROVE  Location(RefersTo("GlobalSym", l)) # Location(r)
    <3>1. Rec(SymFillIn("GlobalSym", l, 0)) = RefersTo("GlobalSym", l)
      <4>1. Table("GlobalSym").recs[l].code \in Reference =>
              Table("GlobalSym").recs[l].im \in DOMAIN Info[FileNow].syms
        BY TablesWritten DEF Tables
      <4> QED BY <4>1, RecordIs DEF Tables
    <3>2. SymFillIn("GlobalSym", l, 0) \in PlacedIn("GlobalSym")
      BY <2>5, <3>1 DEF PlacedIn, InTable
    <3>3. Location(RefersTo("GlobalSym", l)) \in Places("GlobalSym")
      BY <3>1, <3>2 DEF Places
    <3> QED BY <2>4, <3>3
  <2>6. \A l \in DOMAIN Table("GlobalSym").recs :
          Refers(FileNow, Table("GlobalSym").recs[l]).code \in Placed =>
            LoadedAt(FileNow, where, Refers(FileNow, Table("GlobalSym").recs[l]))
              # LoadedAt(FileNow, where, r)
    BY <2>5 DEF RefersTo
  <2>7. h \in OnlyPublic(FileNow, where)
    BY <2>1, <2>2, <2>3, <2>6 DEF OnlyPublic, InTableAt
  <2> QED BY <2>2, <2>7
<1> QED BY <1>1, <1>2, <1>3 DEF Walked

\* And a public symbol's address is one of something walked.
LEMMA PublicWalked ==
  ASSUME ScopesWritten, AddressesWritten, OnceWritten, Inv, DirInv, MapInv, pc \in EntryPoints,
         NEW h \in PlacedIn("GlobalPub")
  PROVE  \E g \in Walked : Rec(g).code \in Placed /\ Location(Rec(g)) = Location(Rec(h))
<1>1. PICK k \in DOMAIN Table("GlobalPub").recs : h = SymFillIn("GlobalPub", k, 0)
  BY DEF PlacedIn, InTable
<1> DEFINE r == Table("GlobalPub").recs[k]
<1>2. r.code \notin Reference \cup (Placed \ {"PUB"})
  BY GlobalsWritten
<1>3. Rec(h) = r /\ r.code = "PUB"
  <2>1. Rec(h) = r
    BY <1>1, <1>2 DEF SymFillIn, Rec
  <2> QED BY <1>2, <2>1 DEF PlacedIn
<1>4. CASE ~Hidden(r)
  <2>1. InTableAt("GlobalPub", k) \in WholeTable("GlobalPub")
    <3>1. Len(Table("GlobalPub").recs) \in Nat /\ k \in 1..Len(Table("GlobalPub").recs)
      BY TablesWritten DEF Tables
    <3>2. k < Len(Table("GlobalPub").recs) + 1
      BY <3>1
    <3> QED BY <1>4, <3>2 DEF WholeTable, WalkedTo
  <2>2. Rec(InTableAt("GlobalPub", k)) = r
    BY DEF Rec, InTableAt
  <2> QED BY <1>3, <2>1, <2>2 DEF Walked, Placed
<1>5. CASE Hidden(r)
  <2>1. Location(r) \in Places("GlobalSym")
    BY <1>3, <1>5 DEF Hidden, Reference
  <2>2. PICK g \in PlacedIn("GlobalSym") : Location(r) = Location(Rec(g))
    BY <2>1 DEF Places
  <2>3. PICK l \in DOMAIN Table("GlobalSym").recs : g = SymFillIn("GlobalSym", l, 0)
    BY <2>2 DEF PlacedIn, InTable
  <2> DEFINE q == Table("GlobalSym").recs[l]
  <2>4. CASE q.code \in Reference
    <3>1. g = ModuleSym(q.im, q.sym)
      BY <2>3, <2>4 DEF SymFillIn
    <3>2. g \in InModules(FileNow)
      BY <2>4, <3>1, GlobalsWritten
    <3>3. g \in ModulesTo(Len(Mods))
      BY <3>2, ModulesShown
    <3> QED BY <1>3, <2>2, <3>3 DEF Walked, PlacedIn
  <2>5. CASE q.code \notin Reference
    <3>1. Rec(g) = q /\ Rec(InTableAt("GlobalSym", l)) = q
      BY <2>3, <2>5 DEF SymFillIn, Rec, InTableAt
    <3>2. q.code \in Placed /\ q.code # "PUB"
      BY <2>2, <3>1, GlobalsWritten DEF PlacedIn
    <3>3. ~Hidden(q)
      BY <2>5, <3>2 DEF Hidden, Placed, Procs, Data
    <3>4. InTableAt("GlobalSym", l) \in WholeTable("GlobalSym")
      <4>1. Len(Table("GlobalSym").recs) \in Nat /\ l \in 1..Len(Table("GlobalSym").recs)
        BY TablesWritten DEF Tables
      <4>2. l < Len(Table("GlobalSym").recs) + 1
        BY <4>1
      <4> QED BY <3>3, <4>2 DEF WholeTable, WalkedTo
    <3> QED BY <1>3, <2>2, <3>1, <3>2, <3>4 DEF Walked
  <2> QED BY <2>4, <2>5
<1> QED BY <1>4, <1>5

\* So each is shown, and once.
LEMMA EachOncePromised ==
  ASSUME ScopesWritten, AddressesWritten, OnceWritten, Inv, DirInv, MapInv, PlaceInv, ModulesInv
  PROVE  EachOnce
<1> SUFFICES ASSUME Done("module"), call.all, wr = "CONTINUE" PROVE EachOnce
  BY DEF EachOnce
<1> DEFINE shown == {k \in DOMAIN out : Rec(out[k]).code \in Placed}
<1>1. pc = "done" /\ pc \in EntryPoints /\ call.op = "module"
  BY CalledAt DEF Done, SymbolPoints
<1>2. Shows(out, Walked)
  BY <1>1 DEF ModulesInv, AllAt, Walked
<1>3. PICK where \in Info[FileNow].places : \A r : Location(r) = LoadedAt(FileNow, where, r)
  BY <1>1, LocationIs
<1>4. FileNow \in Files
  BY <1>1 DEF Inv, LoadInv, Where, EntryPoints, FileNow
<1>5. /\ \A k \in DOMAIN out : out[k] \in Walked
      /\ \A g \in Walked : \E k \in DOMAIN out : out[k] = g
  BY <1>2 DEF Shows, Range
<1>6. ASSUME NEW j \in shown, NEW k \in shown, Location(Rec(out[j])) = Location(Rec(out[k]))
      PROVE  j = k
  <2>1. PICK g, h : g = out[j] /\ h = out[k]
    OBVIOUS
  <2>2. g \in Walked /\ h \in Walked /\ Rec(g).code \in Placed /\ Rec(h).code \in Placed
    BY <1>5, <2>1
  <2>3. /\ {g, h} \subseteq InModules(FileNow) \cup InGlobals(FileNow) \cup OnlyPublic(FileNow, where)
        /\ Rec(g) = RecordOf(FileNow, g) /\ Rec(h) = RecordOf(FileNow, h)
    BY <1>1, <1>3, <2>2, WalkedPlaced
  <2>4. LoadedAt(FileNow, where, RecordOf(FileNow, g)) = LoadedAt(FileNow, where, RecordOf(FileNow, h))
    BY <1>3, <1>6, <2>1, <2>3
  <2>5. g = h
    BY <1>4, <2>3, <2>4 DEF OnceWritten
  <2> QED BY <1>2, <2>1, <2>5 DEF Shows
<1>7. ASSUME NEW h \in PlacedIn("GlobalPub")
      PROVE  \E k \in shown : Location(Rec(out[k])) = Location(Rec(h))
  <2>1. PICK g \in Walked : Rec(g).code \in Placed /\ Location(Rec(g)) = Location(Rec(h))
    BY <1>1, PublicWalked
  <2>2. PICK k \in DOMAIN out : out[k] = g
    BY <1>5, <2>1
  <2> QED BY <2>1, <2>2
<1> QED BY <1>6, <1>7 DEF EachOnce

\* A scalar's registers are of its size.
LEMMA ScalarsHeld == ASSUME NEW size, NEW is32 PROVE Holds(ScalarRegisters(size, is32), size)
<1>1. \A a : <<a>> # <<>> /\ Len(<<a>>) = 1 /\ <<a>>[1] = a
  OBVIOUS
<1>2. \A a, b : <<a, b>> # <<>> /\ Len(<<a, b>>) = 2 /\ <<a, b>>[1] = a /\ <<a, b>>[2] = b
  OBVIOUS
<1>3. Registers["AL"] = 1 /\ Registers["AX"] = 2 /\ Registers["DX"] = 2 /\ Registers["EAX"] = 4
  BY DEF Registers
<1>4. CASE size = 1
  BY <1>1, <1>3, <1>4 DEF Holds, ScalarRegisters
<1>5. CASE size = 2
  BY <1>1, <1>3, <1>5 DEF Holds, ScalarRegisters
<1>6. CASE size = 4 /\ is32
  BY <1>1, <1>3, <1>6 DEF Holds, ScalarRegisters
<1>7. CASE size = 4 /\ ~is32
  BY <1>2, <1>3, <1>7 DEF Holds, ScalarRegisters
<1>8. CASE size = 6
  BY <1>2, <1>3, <1>8 DEF Holds, ScalarRegisters
<1>9. CASE size \notin {1, 2, 4, 6}
  BY <1>9 DEF Holds, ScalarRegisters
<1> QED BY <1>4, <1>5, <1>6, <1>7, <1>8, <1>9

\* What is handed out, and the record behind it.
LEMMA BehindIt ==
  ASSUME ReturnsWritten, Inv, pc \in EntryPoints, NEW h \in Proper, Rec(h).code \in Procs
  PROVE  LET next == Rec([h EXCEPT !.sym = @ + 1])
         IN  next.code = "RETURN" => Holds(next.regs, ReturnType(T, Rec(h)).size)
<1>1. FileNow \in Files /\ T = Info[FileNow].types
  BY DEF Inv, LoadInv, Where, EntryPoints, FileNow, T
<1>2. CASE h \in UNION {WholeFile(im) : im \in DOMAIN Info[FileNow].syms}
  <2>1. PICK im \in DOMAIN Info[FileNow].syms : h \in WholeFile(im)
    BY <1>2
  <2>2. PICK k \in DOMAIN Syms(im) : h = ModuleSym(im, k)
    BY <2>1 DEF WholeFile, FileOf, Decl
  <2>3. /\ Rec(h) = Syms(im)[k] /\ Rec([h EXCEPT !.sym = @ + 1]) = Syms(im)[k + 1]
        /\ Syms(im) = Info[FileNow].syms[im]
    BY <2>2 DEF Rec, ModuleSym, Syms, FileNow
  <2>4. Returning(Info[FileNow].types, Info[FileNow].syms[im])
    BY <1>1 DEF ReturnsWritten
  <2> QED BY <1>1, <2>2, <2>3, <2>4 DEF Returning
<1>3. ASSUME NEW tbl \in Tables, h \in WholeTable(tbl)
      PROVE  LET next == Rec([h EXCEPT !.sym = @ + 1])
             IN  next.code = "RETURN" => Holds(next.regs, ReturnType(T, Rec(h)).size)
  <2>1. PICK k \in DOMAIN Table(tbl).recs : h = InTableAt(tbl, k)
    BY <1>3 DEF WholeTable, WalkedTo
  <2>2. tbl # "AlignSym"
    BY DEF Tables
  <2>3. /\ Rec(h) = Table(tbl).recs[k] /\ Rec([h EXCEPT !.sym = @ + 1]) = Table(tbl).recs[k + 1]
        /\ Table(tbl).recs = Info[FileNow].tables[tbl].recs
    BY <2>1, <2>2 DEF Rec, InTableAt, Table, FileNow
  <2>4. Returning(Info[FileNow].types, Info[FileNow].tables[tbl].recs)
    BY <1>1 DEF ReturnsWritten
  <2> QED BY <1>1, <1>3, <2>1, <2>3, <2>4 DEF Returning
<1> QED BY <1>2, <1>3 DEF Proper, Tables

\* So a value that is returned fits.
LEMMA ReturnsPromised ==
  ASSUME ReturnsWritten, Inv, ModulesInv PROVE ReturnFits
<1> SUFFICES ASSUME Done("module"), NEW k \in DOMAIN out, Rec(out[k]).code \in Procs
             PROVE  Holds(ReturnRegisters(out[k]), ReturnType(T, Rec(out[k])).size)
  BY DEF ReturnFits
<1>1. pc = "done" /\ pc \in EntryPoints /\ call.op = "module"
  BY CalledAt DEF Done, SymbolPoints
<1>2. PICK h : h = out[k]
  OBVIOUS
<1>3. h \in Proper
  <2>1. out \in Seq(Proper)
    BY <1>1 DEF ModulesInv, WalkAllAt
  <2> QED BY <1>2, <2>1, ElementOfSeq, LenProperties
<1> DEFINE next == Rec([h EXCEPT !.sym = @ + 1])
           ti == ReturnType(T, Rec(h))
<1>4. next.code = "RETURN" => Holds(next.regs, ti.size)
  BY <1>1, <1>2, <1>3, BehindIt
<1>5. \/ ReturnRegisters(h) = <<>>
      \/ ReturnRegisters(h) = next.regs /\ next.code = "RETURN"
      \/ ReturnRegisters(h) = ScalarRegisters(ti.size, Rec(h).is32)
  BY DEF ReturnRegisters
<1> HIDE DEF next, ti
<1>6. Holds(<<>>, ti.size)
  BY DEF Holds
<1>7. Holds(ReturnRegisters(h), ti.size)
  BY <1>4, <1>5, <1>6, ScalarsHeld
<1> QED BY <1>2, <1>7 DEF ti

\* Whatever the debugger does with the images, in any number and any order, a
\* symbol found for an address (DIPImpAddrSym, TableSearchForAddr) is the
\* nearest one at or below it in all three tables, and exact if it starts
\* there; a walk of all modules (DIPImpWalkSymList, TableWalkSym) hands out no
\* two symbols of one address and leaves no public symbol's address out; and
\* what it says of a return value (DIPImpSymParmLocation) are registers that
\* hold just that - if the tables' addresses, the publics and the S_RETURNs are
\* as a linker writes them.
THEOREM SymbolsAreRight ==
  ASSUME ScopesWritten, AddressesWritten, OnceWritten, ReturnsWritten
  PROVE  Spec => []SymbolsRight
<1>1. Spec => [](Inv /\ DirInv /\ MapInv /\ CallInv /\ AddrInv /\ PlaceInv /\ ModulesInv)
  BY AlwaysInv, AlwaysDirectory, AlwaysMap, AlwaysCall, AlwaysAddr, AlwaysPlace, AlwaysModules, PTL
<1>2. Inv /\ DirInv /\ MapInv /\ CallInv /\ AddrInv /\ PlaceInv /\ ModulesInv => SymbolsRight
  BY NearestPromised, EachOncePromised, ReturnsPromised DEF SymbolsRight
<1> QED BY <1>1, <1>2, PTL
=============================================================================

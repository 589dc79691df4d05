----------------------------- MODULE Images_proofs -----------------------------
(***************************************************************************)
(* Theorems about the images and the point table, for every set of         *)
(* modules, every build and every table.                                   *)
(*                                                                         *)
(* What each operation does to one point or one image comes first, then    *)
(* what the loops of the code do to all of them: a loop of the model is a  *)
(* recursive function, and what holds after i rounds of it is the i-th of  *)
(* a family of sets of states.  The invariants follow: StateInv, that the  *)
(* list, the table and UserTmpBrk are sound; Settles, that nothing waits   *)
(* for what is there; LiveInv, that the list is true; KeptAll, that each   *)
(* point is where it was meant.                                            *)
(***************************************************************************)
EXTENDS Images, Induction

-------------------------------------------------------------------------------
(* Numbers and addresses. *)

\* The bounds are natural numbers.
LEMMA Bounds ==
  /\ MaxBase \in Nat \ {0} /\ MaxSeg \in Nat \ {0} /\ MaxOff \in Nat
  /\ SegSize \in Nat \ {0} /\ ModSize \in Nat \ {0}
<1>1. MaxBase \in Nat \ {0} /\ MaxSeg \in Nat \ {0} /\ MaxOff \in Nat
  BY BoundsAssumption
<1>2. SegSize \in Nat \ {0}
  BY <1>1 DEF SegSize
<1>3. \A a, b \in Nat \ {0} : a * b \in Nat \ {0}
  OBVIOUS
<1> QED
  BY <1>1, <1>2, <1>3 DEF ModSize

\* Blocks of m numbers do not overlap.
LEMMA Blocks ==
  ASSUME NEW m \in Nat \ {0}, NEW a \in Nat, NEW b \in Nat,
         NEW x \in 0..(m - 1), NEW y \in 0..(m - 1), a * m + x = b * m + y
  PROVE  a = b /\ x = y
<1>1. ASSUME NEW c \in Nat, NEW d \in Nat, NEW u \in 0..(m - 1), NEW v \in 0..(m - 1),
             c < d
      PROVE  c * m + u < d * m + v
  <2>1. (d - c - 1) * m \in Nat
    BY <1>1
  <2>2. d * m = c * m + m + (d - c - 1) * m
    BY <1>1
  <2>3. c * m \in Nat /\ d * m \in Nat
    OBVIOUS
  <2> QED
    BY <2>1, <2>2, <2>3
<1>2. ~(a < b) /\ ~(b < a)
  BY <1>1
<1>3. a = b
  BY <1>2
<1> QED
  BY <1>3

\* Where a place is in its module.
InModule(p) == (p.seg - 1) * SegSize + p.off

\* A place is within its module.
LEMMA InModuleBound ==
  ASSUME NEW p \in Place
  PROVE  InModule(p) \in 0..(ModSize - 1) /\ (p.seg - 1) * SegSize \in Nat
<1>1. p.seg - 1 \in Nat /\ p.off \in 0..(SegSize - 1)
  BY Bounds DEF Place, Segs, SegSize
<1>2. (p.seg - 1) * SegSize \in Nat
  BY <1>1, Bounds
<1>3. MaxSeg - p.seg \in Nat
  BY Bounds DEF Place, Segs
<1>4. (MaxSeg - p.seg) * SegSize \in Nat
  BY <1>3, Bounds
<1>5. ModSize = (p.seg - 1) * SegSize + SegSize + (MaxSeg - p.seg) * SegSize
  BY <1>1, Bounds DEF ModSize, Place, Segs
<1> QED
  BY <1>1, <1>2, <1>4, <1>5, Bounds DEF InModule

\* The flat address of a place, as a sum.
LEMMA AtFlat ==
  ASSUME NEW h \in Bases, NEW p \in Place, Flat
  PROVE  /\ At(h, p) = [b |-> 1, s |-> 1, o |-> (h - 1) * ModSize + InModule(p)]
         /\ (h - 1) * ModSize \in Nat /\ InModule(p) \in 0..(ModSize - 1)
<1>1. h - 1 \in Nat
  BY Bounds DEF Bases
<1>2. (h - 1) * ModSize \in Nat
  BY <1>1, Bounds
<1>3. (p.seg - 1) * SegSize \in Nat /\ p.off \in Nat
  BY InModuleBound, Bounds DEF Place
<1> QED
  BY <1>2, <1>3, InModuleBound DEF At, InModule

\* A place of a module has an address.
LEMMA AtAddress ==
  ASSUME NEW h \in Bases, NEW p \in Place
  PROVE  At(h, p) \in Address
<1>1. CASE Flat
  <2>1. (h - 1) * ModSize + InModule(p) \in Nat
    BY <1>1, AtFlat, Bounds
  <2>2. 1 \in 0..MaxBase /\ 1 \in 0..MaxSeg
    BY Bounds
  <2> QED
    BY <1>1, <2>1, <2>2, AtFlat DEF Address
<1>2. CASE ~Flat
  <2>1. h \in 0..MaxBase /\ p.seg \in 0..MaxSeg /\ p.off \in Nat
    BY Bounds DEF Bases, Place, Segs
  <2> QED
    BY <1>2, <2>1 DEF At, Address
<1> QED
  BY <1>1, <1>2

\* Modules at two bases share no address, places of one share none.
LEMMA AtInjective ==
  ASSUME NEW h \in Bases, NEW g \in Bases, NEW p \in Place, NEW q \in Place,
         At(h, p) = At(g, q)
  PROVE  h = g /\ p = q
<1>p. /\ p = [seg |-> p.seg, off |-> p.off] /\ p.seg \in Segs /\ p.off \in 0..MaxOff
      /\ q = [seg |-> q.seg, off |-> q.off] /\ q.seg \in Segs /\ q.off \in 0..MaxOff
  BY DEF Place
<1>1. CASE ~Flat
  <2>1. h = g /\ p.seg = q.seg /\ p.off = q.off
    BY <1>1 DEF At
  <2> QED
    BY <1>p, <2>1
<1>2. CASE Flat
  <2>1. (h - 1) * ModSize + InModule(p) = (g - 1) * ModSize + InModule(q)
    BY <1>2, AtFlat
  <2>2. h - 1 \in Nat /\ g - 1 \in Nat
    BY Bounds DEF Bases
  <2>3. h - 1 = g - 1 /\ InModule(p) = InModule(q)
    <3>1. \A x, y \in 0..(ModSize - 1), a, b \in Nat :
            a * ModSize + x = b * ModSize + y => a = b /\ x = y
      BY Bounds, Blocks
    <3> QED
      BY <2>1, <2>2, <3>1, InModuleBound
  <2>4. p.seg - 1 \in Nat /\ q.seg - 1 \in Nat
    BY <1>p, Bounds DEF Segs
  <2>5. p.off \in 0..(SegSize - 1) /\ q.off \in 0..(SegSize - 1)
    BY <1>p, Bounds DEF SegSize
  <2>6. p.seg - 1 = q.seg - 1 /\ p.off = q.off
    <3>1. \A x, y \in 0..(SegSize - 1), a, b \in Nat :
            a * SegSize + x = b * SegSize + y => a = b /\ x = y
      BY Bounds, Blocks
    <3> QED
      BY <2>3, <2>4, <2>5, <3>1 DEF InModule
  <2>7. h = g /\ p.seg = q.seg
    BY <1>p, <2>3, <2>6, Bounds DEF Bases, Segs
  <2> QED
    BY <1>p, <2>6, <2>7
<1> QED
  BY <1>1, <1>2

\* First of a set of numbers is its least, and 0 of the empty set.
LEMMA FirstIsLeast ==
  ASSUME NEW S \in SUBSET Nat
  PROVE  /\ S = {} => First(S) = 0
         /\ S # {} => First(S) \in S /\ \A y \in S : First(S) <= y
<1>1. CASE S = {}
  BY <1>1 DEF First
<1>2. CASE S # {}
  <2>1. \E x \in S : \A y \in S : x <= y
    BY <1>2, LeastNumber
  <2> QED
    BY <1>2, <2>1 DEF First, Min
<1> QED
  BY <1>1, <1>2

\* Taking an element out of a sequence moves the ones behind it.
LEMMA RemoveAtProperties ==
  ASSUME NEW S, NEW s \in Seq(S), NEW k \in 1..Len(s)
  PROVE  /\ RemoveAt(s, k) \in Seq(S)
         /\ Len(RemoveAt(s, k)) = Len(s) - 1
         /\ \A i \in 1..(Len(s) - 1) :
              RemoveAt(s, k)[i] = s[IF i < k THEN i ELSE i + 1]
<1> DEFINE a == SubSeq(s, 1, k - 1)
           c == SubSeq(s, k + 1, Len(s))
<1>1. Len(s) \in Nat /\ k \in Nat /\ \A i \in 1..Len(s) : s[i] \in S
  BY LenProperties, ElementOfSeq
<1>2. /\ a \in Seq(S) /\ Len(a) = k - 1
      /\ \A i \in 1..(k - 1) : a[i] = s[i]
  <2>1. \A i \in 1..(k - 1) : s[i] \in S
    BY <1>1
  <2>2. /\ a \in Seq(S)
        /\ Len(a) = IF 1 <= k - 1 THEN k - 1 - 1 + 1 ELSE 0
        /\ \A i \in 1..(k - 1 - 1 + 1) : a[i] = s[1 + i - 1]
    BY <1>1, <2>1, SubSeqProperties
  <2> HIDE DEF a
  <2> QED
    BY <1>1, <2>2
<1>3. /\ c \in Seq(S) /\ Len(c) = Len(s) - k
      /\ \A i \in 1..(Len(s) - k) : c[i] = s[k + i]
  <2>1. \A i \in (k + 1)..Len(s) : s[i] \in S
    BY <1>1
  <2>2. /\ c \in Seq(S)
        /\ Len(c) = IF k + 1 <= Len(s) THEN Len(s) - (k + 1) + 1 ELSE 0
        /\ \A i \in 1..(Len(s) - (k + 1) + 1) : c[i] = s[k + 1 + i - 1]
    BY <1>1, <2>1, SubSeqProperties
  <2> HIDE DEF c
  <2> QED
    BY <1>1, <2>2
<1> HIDE DEF a, c
<1>4. /\ a \o c \in Seq(S) /\ Len(a \o c) = Len(a) + Len(c)
      /\ \A i \in 1..(Len(a) + Len(c)) :
           (a \o c)[i] = IF i <= Len(a) THEN a[i] ELSE c[i - Len(a)]
  BY <1>2, <1>3, ConcatProperties
<1>5. RemoveAt(s, k) = a \o c
  BY DEF RemoveAt, a, c
<1>6. ASSUME NEW i \in 1..(Len(s) - 1)
      PROVE  RemoveAt(s, k)[i] = s[IF i < k THEN i ELSE i + 1]
  <2>1. CASE i < k
    BY <1>1, <1>2, <1>3, <1>4, <1>5, <2>1
  <2>2. CASE ~(i < k)
    <3>1. i - (k - 1) \in 1..(Len(s) - k) /\ k + (i - (k - 1)) = i + 1
      BY <1>1, <2>2
    <3>2. RemoveAt(s, k)[i] = c[i - (k - 1)]
      BY <1>1, <1>2, <1>3, <1>4, <1>5, <2>2
    <3> QED
      BY <1>3, <2>2, <3>1, <3>2
  <2> QED
    BY <2>1, <2>2
<1>7. Len(RemoveAt(s, k)) = Len(s) - 1
  <2>1. Len(a) = k - 1 /\ Len(c) = Len(s) - k /\ Len(a \o c) = Len(a) + Len(c)
    BY <1>2, <1>3, <1>4
  <2>2. Len(RemoveAt(s, k)) = (k - 1) + (Len(s) - k)
    BY <1>5, <2>1
  <2> QED
    BY <1>1, <2>2
<1> QED
  BY <1>4, <1>5, <1>6, <1>7

-------------------------------------------------------------------------------
(* What is true of every image and every point, whatever happens. *)

FullMap(h) == [j \in Segs |-> [seg |-> j, real |-> At(h, [seg |-> j, off |-> 0])]]

\* An image whose files hold build b: only one with symbols has a map, and
\* then of every segment; one that waits for its symbols has no lines.
ImageOK(image, b) ==
  /\ image.syms \/ image.deferred => image.name \in Modules /\ image.handle \in Bases
  /\ image.deferred => ~image.syms /\ Symbols[image.name] # "full"
  /\ image.map = IF image.syms THEN FullMap(image.handle) ELSE <<>>
  /\ image.syms => image.lines = b[image.name]

ImagesOK(imgs, b) == imgs \in Seq(Image) /\ \A k \in DOMAIN imgs : ImageOK(imgs[k], b)

Covers(image, a) == image.syms /\ \E p \in Place : At(image.handle, p) = a
NameIn(image, a) == CueName(image, PlaceOf(image, a))

\* A mapped point with a name is in an image that gives it that name, and a
\* name of an image is kept only while the point is unmapped and on no line.
PointOK(imgs, p) ==
  /\ p.locimg # None => p.unmapped /\ p.name = None
  /\ ~p.unmapped /\ p.name # None =>
       \E k \in DOMAIN imgs : Covers(imgs[k], p.loc) /\ p.name = NameIn(imgs[k], p.loc)

\* What is true of every image of a good list.
LEMMA ImageType ==
  ASSUME NEW b, NEW imgs, ImagesOK(imgs, b), NEW k \in DOMAIN imgs
  PROVE  /\ imgs[k] \in Image /\ ImageOK(imgs[k], b)
         /\ k \in 1..Len(imgs) /\ Len(imgs) \in Nat /\ DOMAIN imgs = 1..Len(imgs)
<1>1. imgs \in Seq(Image) /\ ImageOK(imgs[k], b)
  BY DEF ImagesOK
<1>2. Len(imgs) \in Nat /\ DOMAIN imgs = 1..Len(imgs)
  BY <1>1, LenProperties
<1> QED
  BY <1>1, <1>2, ElementOfSeq

-------------------------------------------------------------------------------
(* What the symbols say. *)

\* The image with symbols that an address is in is the first one at its base.
LEMMA DeAlias ==
  ASSUME NEW b, NEW imgs, ImagesOK(imgs, b), NEW a
  PROVE  LET own == DeAliasAddrMod(imgs, a) IN
         /\ own = 0 => \A k \in DOMAIN imgs : ~Covers(imgs[k], a)
         /\ own # 0 => /\ own \in DOMAIN imgs /\ Covers(imgs[own], a)
                       /\ \A k \in DOMAIN imgs : Covers(imgs[k], a) => own <= k
<1> DEFINE own == DeAliasAddrMod(imgs, a)
           S == {k \in DOMAIN imgs : Covers(imgs[k], a)}
<1>1. ASSUME NEW k \in DOMAIN imgs, imgs[k].syms PROVE imgs[k].map # <<>>
  <2>1. imgs[k].map = FullMap(imgs[k].handle)
    BY <1>1, ImageType DEF ImageOK
  <2>2. 1 \in DOMAIN FullMap(imgs[k].handle)
    BY Bounds DEF FullMap, Segs
  <2>3. DOMAIN <<>> = {}
    OBVIOUS
  <2> QED
    BY <2>1, <2>2, <2>3
<1>2. own = First(S)
  BY <1>1 DEF DeAliasAddrMod, Covers
<1>3. S \in SUBSET Nat /\ 0 \notin S
  BY ImageType
<1>4. /\ S = {} => First(S) = 0
      /\ S # {} => First(S) \in S /\ \A y \in S : First(S) <= y
  BY <1>3, FirstIsLeast
<1> QED
  BY <1>2, <1>3, <1>4

\* The place of an address a place has is that place.
LEMMA PlaceOfAddress ==
  ASSUME NEW image, image.handle \in Bases, NEW p \in Place
  PROVE  PlaceOf(image, At(image.handle, p)) = p
<1>1. \A q \in Place : At(image.handle, q) = At(image.handle, p) => q = p
  BY AtInjective
<1> QED
  BY <1>1 DEF PlaceOf

\* An address an image covers is that of a place of its module.
LEMMA CoversPlace ==
  ASSUME NEW b, NEW image, ImageOK(image, b), NEW a, Covers(image, a)
  PROVE  /\ image.handle \in Bases /\ image.name \in Modules
         /\ PlaceOf(image, a) \in Place /\ At(image.handle, PlaceOf(image, a)) = a
<1>1. PICK p \in Place : At(image.handle, p) = a
  BY DEF Covers
<1>2. image.handle \in Bases /\ image.name \in Modules
  BY DEF Covers, ImageOK
<1> QED
  BY <1>1, <1>2, PlaceOfAddress

\* Two images that cover one address are at one base.
LEMMA CoversOneBase ==
  ASSUME NEW b, NEW image, ImageOK(image, b), NEW other, ImageOK(other, b),
         NEW a, Covers(image, a), Covers(other, a)
  PROVE  image.handle = other.handle /\ PlaceOf(image, a) = PlaceOf(other, a)
BY CoversPlace, AtInjective

\* The nearest line is one at or before the place in its segment, and there is
\* a nearest line as soon as there is a line.
LEMMA CueNameRight ==
  ASSUME NEW image, image.name \in Modules, image.lines \in [Lines -> Place \cup {None}],
         NEW at \in Place
  PROVE  LET n == CueName(image, at) IN
         /\ n \in Name \cup {None}
         /\ n # None => /\ n \in Name /\ n.img = image.name
                        /\ n.line \in CuesBefore(image, at)
                        /\ n.diff = at.off - image.lines[n.line].off
         /\ CuesBefore(image, at) # {} => n \in Name
<1> DEFINE cues == CuesBefore(image, at)
           near == {l \in cues : \A d \in cues : image.lines[d].off <= image.lines[l].off}
           l == CHOOSE x \in near : TRUE
           n == [img |-> image.name, line |-> l, diff |-> at.off - image.lines[l].off]
<1>1. ASSUME NEW d \in cues
      PROVE  /\ d \in Lines /\ image.lines[d] \in Place
             /\ at.off - image.lines[d].off \in 0..MaxOff
  <2>1. d \in Lines /\ image.lines[d] \in Place
    BY DEF CuesBefore
  <2>2. image.lines[d].off \in 0..MaxOff /\ at.off \in 0..MaxOff /\ image.lines[d].off <= at.off
    BY <2>1 DEF CuesBefore, Place
  <2> QED
    BY <2>1, <2>2, Bounds
<1>2. CueName(image, at) = IF near = {} THEN None ELSE n
  BY DEF CueName
<1>3. cues # {} => near # {}
  <2> SUFFICES ASSUME cues # {} PROVE near # {}
    OBVIOUS
  <2> DEFINE D == {at.off - image.lines[d].off : d \in cues}
  <2>1. D \in SUBSET Nat /\ D # {}
    BY <1>1, Bounds
  <2>2. PICK m \in D : \A k \in D : m <= k
    BY <2>1, LeastNumber
  <2>3. PICK d \in cues : m = at.off - image.lines[d].off
    BY <2>2
  <2>4. ASSUME NEW e \in cues PROVE image.lines[e].off <= image.lines[d].off
    <3>1. at.off - image.lines[d].off <= at.off - image.lines[e].off
      BY <2>2, <2>3
    <3>2. image.lines[d].off \in Int /\ image.lines[e].off \in Int /\ at.off \in Int
      BY <1>1, Bounds DEF Place
    <3> QED
      BY <3>1, <3>2
  <2> QED
    BY <2>3, <2>4
<1>4. near # {} => l \in cues
  OBVIOUS
<1> HIDE DEF near, l
<1>5. near # {} => n \in Name
  BY <1>1, <1>4 DEF Name
<1>6. None \notin Name
  BY NoneAssumption
<1> HIDE DEF cues
<1> QED
  BY <1>2, <1>3, <1>4, <1>5, <1>6 DEF cues

\* The name an image gives an address is found in the image at that address.
LEMMA NameInRight ==
  ASSUME NEW b \in Builds, NEW image \in Image, ImageOK(image, b), NEW a,
         Covers(image, a), NameIn(image, a) # None
  PROVE  /\ NameIn(image, a) \in Name
         /\ Knows(image, NameIn(image, a)) /\ SymAddr(image, NameIn(image, a)) = a
<1> DEFINE at == PlaceOf(image, a)
           n == NameIn(image, a)
<1>1. /\ image.handle \in Bases /\ image.name \in Modules
      /\ at \in Place /\ At(image.handle, at) = a
  BY CoversPlace
<1>2. image.lines \in [Lines -> Place \cup {None}]
  BY DEF Image
<1>3. /\ n \in Name /\ n.img = image.name /\ n.line \in CuesBefore(image, at)
      /\ n.diff = at.off - image.lines[n.line].off
  BY <1>1, <1>2, CueNameRight DEF NameIn
<1> HIDE DEF n, at
<1> DEFINE c == image.lines[n.line]
<1>4. c # None /\ c \in Place /\ c.seg = at.seg /\ n.line \in Lines
  BY <1>2, <1>3 DEF CuesBefore
<1>5. image.syms
  BY DEF Covers
<1>6. Knows(image, n)
  BY <1>3, <1>4, <1>5 DEF Knows
<1>7. SymAddr(image, n) = a
  <2>1. c.off \in Int /\ at.off \in Int /\ n.diff \in Int /\ c.off + n.diff = at.off
    BY <1>1, <1>3, <1>4, Bounds DEF Place
  <2>2. SymAddr(image, n) = [At(image.handle, c) EXCEPT !.o = @ + n.diff]
    BY DEF SymAddr
  <2>3. CASE Flat
    <3>1. At(image.handle, c).o + n.diff = At(image.handle, at).o
      <4>1. (image.handle - 1) * ModSize \in Int /\ (c.seg - 1) * SegSize \in Int
        BY <1>1, <1>4, <2>3, AtFlat, InModuleBound
      <4>2. /\ At(image.handle, c).o = (image.handle - 1) * ModSize + (c.seg - 1) * SegSize + c.off
            /\ At(image.handle, at).o = (image.handle - 1) * ModSize + (c.seg - 1) * SegSize + at.off
        BY <1>4, <2>3 DEF At
      <4>3. \A x, y, u, v, d \in Int : u + d = v => (x + y + u) + d = x + y + v
        OBVIOUS
      <4> QED
        BY <2>1, <4>1, <4>2, <4>3
    <3> QED
      BY <1>1, <2>2, <2>3, <3>1 DEF At
  <2>4. CASE ~Flat
    BY <1>1, <1>4, <2>1, <2>2, <2>4 DEF At
  <2> QED
    BY <2>3, <2>4
<1> QED
  BY <1>3, <1>6, <1>7 DEF n

\* The name SetPointAddr finds is what the first image over the address says.
LEMMA SymNameRight ==
  ASSUME NEW b \in Builds, NEW imgs, ImagesOK(imgs, b), NEW a
  PROVE  /\ SymName(imgs, a) \in Name \cup {None}
         /\ SymName(imgs, a) # None =>
              \E k \in DOMAIN imgs : Covers(imgs[k], a) /\ SymName(imgs, a) = NameIn(imgs[k], a)
<1> DEFINE own == DeAliasAddrMod(imgs, a)
<1>1. CASE own = 0
  BY <1>1 DEF SymName
<1>2. CASE own # 0
  <2>1. own \in DOMAIN imgs /\ Covers(imgs[own], a)
    BY <1>2, DeAlias
  <2>2. SymName(imgs, a) = NameIn(imgs[own], a)
    BY <1>2 DEF SymName, NameIn
  <2>3. imgs[own] \in Image /\ ImageOK(imgs[own], b)
    BY <2>1, ImageType
  <2>4. NameIn(imgs[own], a) \in Name \cup {None}
    BY <2>1, <2>3, NameInRight
  <2> QED
    BY <2>1, <2>2, <2>4
<1> QED
  BY <1>1, <1>2

-------------------------------------------------------------------------------
(* One point: what each operation makes of it. *)

\* The fields of a point.
LEMMA PointFields ==
  ASSUME NEW p \in Point
  PROVE  /\ p.loc \in Address /\ p.locimg \in Modules \cup {None}
         /\ p.name \in Name \cup {None}
         /\ p.watch \in BOOLEAN /\ p.active \in BOOLEAN /\ p.unmapped \in BOOLEAN
         /\ p.activate_on_remap \in BOOLEAN /\ p.counted \in BOOLEAN
         /\ p.home \in [img : Modules, at : Place] \cup {None}
BY DEF Point

\* SetPointAddr leaves an unmapped point, and names any other anew.
LEMMA SetPointAddrRight ==
  ASSUME NEW b \in Builds, NEW imgs, ImagesOK(imgs, b), NEW p \in Point, NEW a \in Address,
         p.unmapped \/ p.locimg = None
  PROVE  LET r == SetPointAddr(p, a, imgs) IN
         /\ r \in Point
         /\ p.unmapped => r = p
         /\ ~p.unmapped =>
              /\ r = [p EXCEPT !.loc = a, !.name = IF p.watch THEN None ELSE SymName(imgs, a)]
              /\ PointOK(imgs, r)
<1>1. CASE p.unmapped
  BY <1>1 DEF SetPointAddr
<1>2. CASE ~p.unmapped
  <2> DEFINE n == IF p.watch THEN None ELSE SymName(imgs, a)
             r == [p EXCEPT !.loc = a, !.name = n]
  <2>1. SetPointAddr(p, a, imgs) = r
    BY <1>2 DEF SetPointAddr
  <2>2. /\ n \in Name \cup {None}
        /\ n # None => \E k \in DOMAIN imgs : Covers(imgs[k], a) /\ n = NameIn(imgs[k], a)
    BY SymNameRight
  <2> HIDE DEF n
  <2>3. r \in Point
    BY <2>2 DEF Point
  <2>4. r.loc = a /\ r.name = n /\ r.locimg = p.locimg /\ r.unmapped = p.unmapped
    BY DEF Point
  <2>5. PointOK(imgs, r)
    BY <1>2, <2>2, <2>4 DEF PointOK
  <2> QED
    BY <1>2, <2>1, <2>3, <2>5 DEF n
<1> QED
  BY <1>1, <1>2

\* ActPoint does not switch on what is not mapped.
LEMMA ActPointRight ==
  ASSUME NEW p \in Point, NEW act \in BOOLEAN
  PROVE  /\ ActPoint(p, act) \in Point
         /\ ActPoint(p, act) = IF act /\ p.unmapped THEN p ELSE [p EXCEPT !.active = act]
         /\ \A imgs : PointOK(imgs, p) => PointOK(imgs, ActPoint(p, act))
<1>1. [p EXCEPT !.active = act] \in Point
  BY DEF Point
<1>2. \A imgs : PointOK(imgs, p) => PointOK(imgs, [p EXCEPT !.active = act])
  BY DEF PointOK, Point
<1> QED
  BY <1>1, <1>2 DEF ActPoint

\* The map_addr side of a place.
Relative(at) == IF Flat THEN [b |-> 0, s |-> 1, o |-> InModule(at)]
                ELSE [b |-> 0, s |-> at.seg, o |-> at.off]

\* It is an address.
LEMMA RelativeAddress ==
  ASSUME NEW at \in Place
  PROVE  Relative(at) \in Address
<1>1. InModule(at) \in Nat /\ at.off \in Nat /\ at.seg \in 0..MaxSeg /\ 1 \in 0..MaxSeg
  BY InModuleBound, Bounds DEF Place, Segs
<1> QED
  BY <1>1, Bounds DEF Relative, Address

\* The map of an image with symbols has an entry for each segment.
LEMMA MapOfImage ==
  ASSUME NEW b, NEW image, ImageOK(image, b), image.syms
  PROVE  /\ DOMAIN image.map = Segs /\ image.handle \in Bases
         /\ \A j \in Segs : /\ image.map[j].seg = j
                            /\ image.map[j].real = At(image.handle, [seg |-> j, off |-> 0])
                            /\ image.map[j].real \in Address
<1>1. image.map = FullMap(image.handle) /\ image.handle \in Bases
  BY DEF ImageOK
<1>2. \A j \in Segs : [seg |-> j, off |-> 0] \in Place
  BY Bounds DEF Place
<1> QED
  BY <1>1, <1>2, AtAddress DEF FullMap

\* What an address says of its selector.
LEMMA AtFields ==
  ASSUME NEW h, NEW p
  PROVE  /\ Flat => At(h, p).b = 1 /\ At(h, p).s = 1
         /\ ~Flat => At(h, p).b = h /\ At(h, p).s = p.seg /\ At(h, p).o = p.off
BY DEF At

\* Every address an image covers has a selector of its map, and becomes the
\* address of its place relative to the image.
LEMMA UnMapAddressRight ==
  ASSUME NEW b, NEW image, ImageOK(image, b), NEW p \in Point, Covers(image, p.loc)
  PROVE  UnMapAddress(p, image) =
           [p EXCEPT !.locimg = image.name, !.unmapped = TRUE,
                     !.loc = Relative(PlaceOf(image, p.loc))]
<1> DEFINE at == PlaceOf(image, p.loc)
           S == {j \in DOMAIN image.map : SameSelector(image.map[j].real, p.loc)}
           j == First(S)
<1>1. image.handle \in Bases /\ at \in Place /\ At(image.handle, at) = p.loc
  BY CoversPlace
<1>2. /\ DOMAIN image.map = Segs
      /\ \A i \in Segs : /\ image.map[i].seg = i
                         /\ image.map[i].real = At(image.handle, [seg |-> i, off |-> 0])
  BY MapOfImage DEF Covers
<1>3. at.seg \in Segs /\ 1 \in Segs /\ at.off \in Nat
  BY <1>1, Bounds DEF Place, Segs
<1>z. \A i \in Segs : [seg |-> i, off |-> 0] \in Place
  BY Bounds DEF Place
<1>d. S \in SUBSET Nat /\ 0 \notin S
  BY <1>2 DEF Segs
<1> HIDE DEF at
<1>4. j # 0 /\ [b |-> 0, s |-> image.map[j].seg, o |-> p.loc.o - image.map[j].real.o]
                 = Relative(at)
  <2>1. CASE Flat
    <3>1. \A i \in Segs : SameSelector(image.map[i].real, p.loc)
      <4> SUFFICES ASSUME NEW i \in Segs PROVE SameSelector(image.map[i].real, p.loc)
        OBVIOUS
      <4> DEFINE zero == [seg |-> i, off |-> 0]
      <4>0. image.map[i].real = At(image.handle, zero)
        BY <1>2
      <4>1. image.map[i].real.b = 1 /\ image.map[i].real.s = 1
        BY <2>1, <4>0, AtFields
      <4>2. p.loc.b = 1 /\ p.loc.s = 1
        BY <1>1, <2>1, AtFields
      <4> QED
        BY <4>1, <4>2 DEF SameSelector
    <3>2. S = Segs
      BY <1>2, <3>1
    <3>3. j \in Segs /\ \A y \in Segs : j <= y
      BY <1>3, <1>d, <3>2, FirstIsLeast
    <3> HIDE DEF j
    <3>4. j = 1
      BY <1>3, <3>3, Bounds DEF Segs
    <3> DEFINE zero == [seg |-> 1, off |-> 0]
    <3>5. zero \in Place /\ InModule(zero) = 0
      BY <1>3, <1>z, Bounds DEF InModule
    <3>6. /\ p.loc.o = (image.handle - 1) * ModSize + InModule(at)
          /\ At(image.handle, zero).o = (image.handle - 1) * ModSize + InModule(zero)
          /\ (image.handle - 1) * ModSize \in Nat /\ InModule(at) \in Nat
      BY <1>1, <2>1, <3>5, AtFlat
    <3>7. image.map[j].real.o = (image.handle - 1) * ModSize + 0
      BY <1>2, <1>3, <3>4, <3>5, <3>6
    <3>8. p.loc.o - image.map[j].real.o = InModule(at)
      BY <3>6, <3>7
    <3>9. j # 0 /\ image.map[j].seg = 1
      <4>1. image.map[1].seg = 1
        BY <1>2, <1>3
      <4> QED
        BY <3>4, <4>1
    <3> QED
      BY <2>1, <3>8, <3>9 DEF Relative
  <2>2. CASE ~Flat
    <3>1. \A i \in Segs : SameSelector(image.map[i].real, p.loc) <=> i = at.seg
      <4> SUFFICES ASSUME NEW i \in Segs
                   PROVE  SameSelector(image.map[i].real, p.loc) <=> i = at.seg
        OBVIOUS
      <4> DEFINE zero == [seg |-> i, off |-> 0]
      <4>1. image.map[i].real = At(image.handle, zero) /\ zero.seg = i
        BY <1>2
      <4>2. image.map[i].real.b = image.handle /\ image.map[i].real.s = i
        BY <2>2, <4>1, AtFields
      <4>3. p.loc.b = image.handle /\ p.loc.s = at.seg
        BY <1>1, <2>2, AtFields
      <4> QED
        BY <4>2, <4>3 DEF SameSelector
    <3>2. S = {at.seg}
      BY <1>2, <1>3, <3>1
    <3>3. j = at.seg
      BY <1>d, <3>2, FirstIsLeast
    <3> HIDE DEF j
    <3>4. image.map[j].real.o = 0 /\ p.loc.o = at.off /\ image.map[j].seg = at.seg
      <4> DEFINE zero == [seg |-> at.seg, off |-> 0]
      <4>1. image.map[j].real = At(image.handle, zero) /\ zero.off = 0
        BY <1>2, <1>3, <3>3
      <4>2. image.map[j].real.o = 0 /\ p.loc.o = at.off
        BY <1>1, <2>2, <4>1, AtFields
      <4> QED
        BY <1>2, <1>3, <3>3, <4>2
    <3> QED
      BY <1>3, <2>2, <3>3, <3>4, Bounds DEF Relative, Segs
  <2> QED
    BY <2>1, <2>2
<1> DEFINE rel == [b |-> 0, s |-> image.map[j].seg, o |-> p.loc.o - image.map[j].real.o]
           q == [p EXCEPT !.locimg = image.name]
<1>5. UnMapAddress(p, image) = [q EXCEPT !.unmapped = TRUE, !.loc = rel]
  BY <1>4 DEF UnMapAddress
<1>6. rel = Relative(at)
  BY <1>4
<1> HIDE DEF rel
<1> QED
  BY <1>5, <1>6 DEF Point, at

\* Unmapping a point: it stays as it is, keeps the line's name, or keeps the
\* place it has in the image it is in.
UnMapped(p, r, imgs, k) ==
  LET own == DeAliasAddrMod(imgs, p.loc) IN
  \/ r = p /\ (p.unmapped \/ (k # 0 /\ own # k) \/ (own = 0 /\ p.name = None))
  \/ ~p.unmapped /\ (k = 0 \/ own = k) /\ p.name # None /\ r = [p EXCEPT !.unmapped = TRUE]
  \/ /\ ~p.unmapped /\ (k = 0 \/ own = k) /\ p.name = None /\ own # 0
     /\ r = [p EXCEPT !.locimg = imgs[own].name, !.unmapped = TRUE,
                      !.loc = Relative(PlaceOf(imgs[own], p.loc))]

\* UnMapOnePoint does one of these and the point stays good.
LEMMA UnMapOnePointRight ==
  ASSUME NEW b \in Builds, NEW imgs, ImagesOK(imgs, b), NEW p \in Point, NEW k \in Nat,
         PointOK(imgs, p)
  PROVE  LET r == UnMapOnePoint(p, imgs, k) IN
         /\ UnMapped(p, r, imgs, k) /\ r \in Point /\ PointOK(imgs, r)
<1> DEFINE own == DeAliasAddrMod(imgs, p.loc)
           r == UnMapOnePoint(p, imgs, k)
<1>1. UnMapped(p, r, imgs, k)
  <2>1. CASE p.unmapped \/ (k # 0 /\ own # k)
    BY <2>1 DEF UnMapOnePoint, UnMapped
  <2>2. CASE ~(p.unmapped \/ (k # 0 /\ own # k)) /\ (p.name # None \/ own = 0)
    BY <2>2 DEF UnMapOnePoint, UnMapped
  <2>3. CASE ~(p.unmapped \/ (k # 0 /\ own # k)) /\ p.name = None /\ own # 0
    <3>1. r = UnMapAddress(p, imgs[own])
      BY <2>3 DEF UnMapOnePoint
    <3>2. own \in DOMAIN imgs /\ Covers(imgs[own], p.loc)
      BY <2>3, DeAlias
    <3>3. ImageOK(imgs[own], b)
      BY <3>2, ImageType
    <3>4. r = [p EXCEPT !.locimg = imgs[own].name, !.unmapped = TRUE,
                        !.loc = Relative(PlaceOf(imgs[own], p.loc))]
      BY <3>1, <3>2, <3>3, UnMapAddressRight
    <3> QED
      BY <2>3, <3>4 DEF UnMapped
  <2> QED
    BY <2>1, <2>2, <2>3
<1> HIDE DEF r
<1>2. CASE r = p
  BY <1>1, <1>2 DEF r
<1>3. CASE p.name # None /\ r = [p EXCEPT !.unmapped = TRUE]
  <2>1. r \in Point /\ r.unmapped /\ r.name = p.name /\ r.locimg = p.locimg
    BY <1>3 DEF Point
  <2> QED
    BY <1>1, <1>3, <2>1 DEF PointOK, r
<1>4. CASE /\ own # 0 /\ p.name = None
           /\ r = [p EXCEPT !.locimg = imgs[own].name, !.unmapped = TRUE,
                            !.loc = Relative(PlaceOf(imgs[own], p.loc))]
  <2>1. own \in DOMAIN imgs /\ Covers(imgs[own], p.loc)
    BY <1>4, DeAlias
  <2>2. ImageOK(imgs[own], b)
    BY <2>1, ImageType
  <2>3. imgs[own].name \in Modules /\ Relative(PlaceOf(imgs[own], p.loc)) \in Address
    BY <2>1, <2>2, CoversPlace, RelativeAddress
  <2>4. r \in Point
    BY <1>4, <2>3 DEF Point
  <2>5. r.unmapped /\ r.name = None
    BY <1>4 DEF Point
  <2> QED
    BY <1>1, <2>4, <2>5 DEF PointOK, r
<1> QED
  BY <1>1, <1>2, <1>3, <1>4 DEF UnMapped

-------------------------------------------------------------------------------
(* Remapping a point. *)

\* What ReMapOnePoint leaves of a point it has found the address a for.
MappedAt(p, a, imgs) ==
  [p EXCEPT !.loc = a, !.locimg = None, !.unmapped = FALSE,
            !.name = IF p.watch THEN None ELSE SymName(imgs, a),
            !.active = p.active \/ p.activate_on_remap]

\* A point mapped somewhere is a good point.
LEMMA MappedAtRight ==
  ASSUME NEW b \in Builds, NEW imgs, ImagesOK(imgs, b), NEW p \in Point, NEW a \in Address
  PROVE  MappedAt(p, a, imgs) \in Point /\ PointOK(imgs, MappedAt(p, a, imgs))
<1> DEFINE n == IF p.watch THEN None ELSE SymName(imgs, a)
           r == MappedAt(p, a, imgs)
<1>1. /\ n \in Name \cup {None}
      /\ n # None => \E k \in DOMAIN imgs : Covers(imgs[k], a) /\ n = NameIn(imgs[k], a)
  BY SymNameRight
<1>2. r = [p EXCEPT !.loc = a, !.locimg = None, !.unmapped = FALSE, !.name = n,
                    !.active = p.active \/ p.activate_on_remap]
  BY DEF MappedAt
<1> HIDE DEF n, r
<1>3. r.loc = a /\ r.locimg = None /\ r.unmapped = FALSE /\ r.name = n
  BY <1>2 DEF Point
<1>4. r \in Point
  BY <1>1, <1>2 DEF Point
<1>5. PointOK(imgs, r)
  BY <1>1, <1>3 DEF PointOK
<1> QED
  BY <1>4, <1>5 DEF r

\* Remapping in one image finds an entry of its map or leaves the point alone,
\* and takes a place of the image back to where it is now.
LEMMA ReMapImageAddressRight ==
  ASSUME NEW b, NEW image \in Image, ImageOK(image, b), NEW p \in Point
  PROVE  LET r == ReMapImageAddress(p, image) IN
         /\ r.rc \in {"WRONG_IMAGE", "ERROR", "REMAPPED"}
         /\ r.rc # "REMAPPED" => r.p = p
         /\ r.rc = "REMAPPED" =>
              /\ image.syms /\ p.locimg = image.name
              /\ \E a \in Address : r.p = [p EXCEPT !.locimg = None, !.loc = a]
         /\ \A at \in Place :
              image.syms /\ p.locimg = image.name /\ p.loc = Relative(at) =>
                /\ r.rc = "REMAPPED"
                /\ r.p = [p EXCEPT !.locimg = None, !.loc = At(image.handle, at)]
<1> DEFINE S == {j \in DOMAIN image.map : p.loc.b = 0 /\ image.map[j].seg = p.loc.s}
           j == First(S)
           a == [image.map[j].real EXCEPT !.o = @ + p.loc.o]
           r == ReMapImageAddress(p, image)
<1>1. r = IF p.locimg # image.name THEN [rc |-> "WRONG_IMAGE", p |-> p]
          ELSE IF j = 0 THEN [rc |-> "ERROR", p |-> p]
          ELSE [rc |-> "REMAPPED", p |-> [p EXCEPT !.locimg = None, !.loc = a]]
  BY DEF ReMapImageAddress, Remap
<1>2. ~image.syms => S = {}
  <2>1. ~image.syms => image.map = <<>>
    BY DEF ImageOK
  <2> QED
    BY <2>1
<1>3. image.syms => S = {i \in Segs : p.loc.b = 0 /\ i = p.loc.s}
  <2> SUFFICES ASSUME image.syms PROVE S = {i \in Segs : p.loc.b = 0 /\ i = p.loc.s}
    OBVIOUS
  <2>1. DOMAIN image.map = Segs /\ \A i \in Segs : image.map[i].seg = i
    BY MapOfImage
  <2> QED
    BY <2>1
<1>4. S \in SUBSET Nat /\ 0 \notin S
  BY <1>2, <1>3 DEF Segs
<1>5. (S = {} <=> j = 0) /\ (S # {} => j \in S)
  BY <1>4, FirstIsLeast
<1> HIDE DEF j
<1>6. j # 0 => image.syms /\ j \in Segs /\ j = p.loc.s /\ p.loc.b = 0
  BY <1>2, <1>3, <1>5
<1> HIDE DEF S
<1>7. j # 0 => a \in Address
  <2> SUFFICES ASSUME j # 0 PROVE a \in Address
    OBVIOUS
  <2>1. image.map[j].real \in Address /\ p.loc \in Address
    BY <1>6, MapOfImage DEF Point
  <2> QED
    BY <2>1 DEF Address
<1>8. ASSUME NEW at \in Place, image.syms, p.loc = Relative(at)
      PROVE  j # 0 /\ a = At(image.handle, at)
  <2>1. p.loc.b = 0 /\ p.loc.s \in Segs /\ p.loc.s = IF Flat THEN 1 ELSE at.seg
    BY <1>8, Bounds DEF Relative, Place, Segs
  <2>2. p.loc.s \in S
    BY <1>3, <1>8, <2>1
  <2>3. j # 0 /\ j = p.loc.s /\ j \in Segs
    BY <1>5, <1>6, <2>2
  <2> DEFINE zero == [seg |-> j, off |-> 0]
  <2>4. image.map[j].real = At(image.handle, zero) /\ image.handle \in Bases
    BY <1>8, <2>3, MapOfImage
  <2>5. zero \in Place /\ zero.seg = j /\ zero.off = 0
    BY <2>3, Bounds DEF Place
  <2>6. CASE Flat
    <3>1. j = 1 /\ p.loc.o = InModule(at)
      BY <1>8, <2>1, <2>3, <2>6 DEF Relative
    <3>2. InModule(zero) = 0
      BY <2>5, <3>1, Bounds DEF InModule
    <3>3. /\ At(image.handle, zero) = [b |-> 1, s |-> 1, o |-> (image.handle - 1) * ModSize + 0]
          /\ At(image.handle, at) = [b |-> 1, s |-> 1, o |-> (image.handle - 1) * ModSize + InModule(at)]
          /\ (image.handle - 1) * ModSize \in Nat
      BY <2>4, <2>5, <2>6, <3>2, AtFlat
    <3>4. a = [At(image.handle, zero) EXCEPT !.o = @ + InModule(at)]
      BY <2>4, <3>1
    <3>5. a = [b |-> 1, s |-> 1, o |-> ((image.handle - 1) * ModSize + 0) + InModule(at)]
      BY <3>3, <3>4
    <3>6. \A x, y \in Int : (x + 0) + y = x + y
      OBVIOUS
    <3>7. InModule(at) \in Int
      BY InModuleBound
    <3> QED
      BY <2>3, <3>3, <3>5, <3>6, <3>7
  <2>7. CASE ~Flat
    <3>1. p.loc.o = at.off /\ at.off \in Nat /\ j = at.seg
      BY <1>8, <2>1, <2>3, <2>7, Bounds DEF Relative, Place
    <3>2. At(image.handle, zero) = [b |-> image.handle, s |-> j, o |-> 0]
      BY <2>5, <2>7 DEF At
    <3>3. At(image.handle, at) = [b |-> image.handle, s |-> at.seg, o |-> at.off]
      BY <2>7 DEF At
    <3>4. a = [At(image.handle, zero) EXCEPT !.o = @ + at.off]
      BY <2>4, <3>1
    <3>5. a = [b |-> image.handle, s |-> j, o |-> 0 + at.off]
      BY <3>2, <3>4
    <3> QED
      BY <2>3, <3>1, <3>3, <3>5
  <2> QED
    BY <2>6, <2>7
<1> HIDE DEF a, r
<1>9. r.rc \in {"WRONG_IMAGE", "ERROR", "REMAPPED"} /\ (r.rc # "REMAPPED" => r.p = p)
  BY <1>1
<1>10. ASSUME r.rc = "REMAPPED"
       PROVE  /\ image.syms /\ p.locimg = image.name
              /\ \E x \in Address : r.p = [p EXCEPT !.locimg = None, !.loc = x]
  <2>1. j # 0 /\ p.locimg = image.name /\ r.p = [p EXCEPT !.locimg = None, !.loc = a]
    BY <1>1, <1>10
  <2> QED
    BY <1>6, <1>7, <2>1
<1>11. ASSUME NEW at \in Place, image.syms, p.locimg = image.name, p.loc = Relative(at)
       PROVE  /\ r.rc = "REMAPPED"
              /\ r.p = [p EXCEPT !.locimg = None, !.loc = At(image.handle, at)]
  BY <1>1, <1>8, <1>11
<1> QED
  BY <1>9, <1>10, <1>11 DEF r

\* An address some entry of the image's map covers is unmapped and then, in
\* the same image still mapped the same way, remapped to itself: also when
\* several segments share a selector (flat model) and UnMapAddress takes the
\* first, and for offsets below the segment's.
THEOREM RoundTrip ==
  ASSUME NEW image, image.map \in Seq(MapEntry), OneEntryEach(image.map),
         NEW p \in Point, NEW j \in DOMAIN image.map,
         SameSelector(image.map[j].real, p.loc), image.name \in Modules
  PROVE  LET u == UnMapAddress(p, image)
             r == ReMapImageAddress(u, image)
         IN /\ u.unmapped
            /\ r.rc = "REMAPPED"
            /\ r.p.loc = p.loc /\ r.p.locimg = None
<1> DEFINE Shares == {i \in DOMAIN image.map : SameSelector(image.map[i].real, p.loc)}
           f == First(Shares)
           a == [b |-> 0, s |-> image.map[f].seg, o |-> p.loc.o - image.map[f].real.o]
           u == [p EXCEPT !.locimg = image.name, !.unmapped = TRUE, !.loc = a]
<1>1. f \in Shares /\ f # 0
  <2>1. Shares \subseteq Nat \ {0} /\ j \in Shares
    OBVIOUS
  <2> HIDE DEF Shares
  <2> QED BY <2>1, FirstIsLeast
<1>2. UnMapAddress(p, image) = u
  BY <1>1 DEF UnMapAddress, Point
<1> DEFINE Back == {i \in DOMAIN image.map : u.loc.b = 0 /\ image.map[i].seg = u.loc.s}
           g == First(Back)
<1>3. /\ image.map[f] \in MapEntry /\ f \in DOMAIN image.map
      /\ SameSelector(image.map[f].real, p.loc)
  <2> HIDE DEF f
  <2> QED BY <1>1
<1> HIDE DEF f
<1>4. u.loc = a /\ u.locimg = image.name /\ u.unmapped
  BY DEF Point
<1>5. Back = {f}
  BY <1>3, <1>4 DEF OneEntryEach
<1>6. g = f
  <2>1. f \in Nat
    BY <1>3
  <2> QED BY <1>5, <2>1, FirstIsLeast
<1>7. Back # {} /\ f # 0
  BY <1>3, <1>5
<1> DEFINE back == [image.map[f].real EXCEPT !.o = @ + u.loc.o]
<1>8. ReMapImageAddress(u, image) = [rc |-> "REMAPPED", p |-> [u EXCEPT !.locimg = None, !.loc = back]]
  BY <1>4, <1>6, <1>7 DEF ReMapImageAddress, Remap
<1>9. back = p.loc
  <2>1. image.map[f].real \in Address /\ p.loc \in Address
    BY <1>3 DEF MapEntry, Point
  <2>2. u.loc.o = p.loc.o - image.map[f].real.o
    BY <1>4
  <2> QED BY <1>3, <2>1, <2>2 DEF Address, SameSelector
<1> HIDE DEF back
<1> DEFINE w == [u EXCEPT !.locimg = None, !.loc = back]
<1>10. w.loc = back /\ w.locimg = None
  BY DEF Point
<1> HIDE DEF u, w
<1>11. ReMapImageAddress(UnMapAddress(p, image), image) = [rc |-> "REMAPPED", p |-> w]
  BY <1>2, <1>8 DEF w
<1>12. UnMapAddress(p, image).unmapped
  BY <1>2, <1>4
<1> QED BY <1>9, <1>10, <1>11, <1>12

\* The two parts of a result.
LEMMA RemapFields ==
  ASSUME NEW rc, NEW q
  PROVE  Remap(rc, q).rc = rc /\ Remap(rc, q).p = q
BY DEF Remap

\* ReMapped, field by field.
LEMMA ReMappedFields ==
  ASSUME NEW r, NEW imgs
  PROVE  LET u == [r.p EXCEPT !.unmapped = r.rc # "REMAPPED"]
             v == SetPointAddr(u, u.loc, imgs)
         IN /\ ReMapped(r, imgs).rc = r.rc
            /\ ReMapped(r, imgs).p = IF v.activate_on_remap THEN ActPoint(v, TRUE) ELSE v
<1> DEFINE u == [r.p EXCEPT !.unmapped = r.rc # "REMAPPED"]
           v == SetPointAddr(u, u.loc, imgs)
           w == IF v.activate_on_remap THEN ActPoint(v, TRUE) ELSE v
<1>1. ReMapped(r, imgs) = Remap(r.rc, w)
  BY DEF ReMapped
<1> HIDE DEF w
<1>2. Remap(r.rc, w).rc = r.rc /\ Remap(r.rc, w).p = w
  BY RemapFields
<1>3. ReMapped(r, imgs).rc = r.rc /\ ReMapped(r, imgs).p = w
  BY <1>1, <1>2
<1> QED
  BY <1>3 DEF w

\* What the two ways to find an address leave.
Tried(p, r) ==
  /\ r.p \in Point
  /\ r.rc # "REMAPPED" => r.p = p
  /\ r.rc = "REMAPPED" => \E a \in Address : r.p = [p EXCEPT !.locimg = None, !.loc = a]

\* The end of ReMapOnePoint.
LEMMA ReMappedRight ==
  ASSUME NEW imgs, NEW p \in Point, p.unmapped, NEW r, Tried(p, r)
  PROVE  /\ ReMapped(r, imgs).rc = r.rc
         /\ r.rc # "REMAPPED" => ReMapped(r, imgs).p = p
         /\ r.rc = "REMAPPED" => ReMapped(r, imgs).p = MappedAt(p, r.p.loc, imgs)
<1> DEFINE u == [r.p EXCEPT !.unmapped = r.rc # "REMAPPED"]
           v == SetPointAddr(u, u.loc, imgs)
           w == IF v.activate_on_remap THEN ActPoint(v, TRUE) ELSE v
<1>1. ReMapped(r, imgs).rc = r.rc /\ ReMapped(r, imgs).p = w
  BY ReMappedFields
<1>2. u \in Point /\ u.unmapped = (r.rc # "REMAPPED") /\ u.loc = r.p.loc
  <2>1. r.p \in Point
    BY DEF Tried
  <2> QED
    BY <2>1 DEF Point
<1>3. CASE r.rc # "REMAPPED"
  <2>1. u = p /\ u.unmapped
    <3>1. r.p = p
      BY <1>3 DEF Tried
    <3> QED
      BY <1>2, <1>3, <3>1 DEF Point
  <2> HIDE DEF u
  <2>2. v = u
    BY <2>1 DEF SetPointAddr
  <2> HIDE DEF v
  <2>3. w = u
    BY <2>1, <2>2 DEF ActPoint
  <2> HIDE DEF w
  <2> QED
    BY <1>1, <1>3, <2>1, <2>3
<1>4. CASE r.rc = "REMAPPED"
  <2>1. PICK a \in Address : r.p = [p EXCEPT !.locimg = None, !.loc = a]
    BY <1>4 DEF Tried
  <2>2. u = [p EXCEPT !.locimg = None, !.loc = a, !.unmapped = FALSE] /\ u.loc = a /\ r.p.loc = a
    BY <1>4, <2>1 DEF Point
  <2> DEFINE n == IF p.watch THEN None ELSE SymName(imgs, a)
  <2>u. u.unmapped = FALSE /\ u.watch = p.watch
    BY <2>2 DEF Point
  <2> HIDE DEF u
  <2>v. v = [u EXCEPT !.loc = a, !.name = n]
    <3>1. v = SetPointAddr(u, a, imgs)
      BY <2>2
    <3> HIDE DEF v
    <3> QED
      BY <2>u, <3>1 DEF SetPointAddr
  <2> HIDE DEF n, v
  <2>3. v = [p EXCEPT !.locimg = None, !.loc = a, !.unmapped = FALSE, !.name = n]
    BY <2>2, <2>v DEF Point
  <2>4. ~v.unmapped /\ v.activate_on_remap = p.activate_on_remap /\ v.active = p.active
    BY <2>3 DEF Point
  <2>5. w = IF p.activate_on_remap THEN [v EXCEPT !.active = TRUE] ELSE v
    BY <2>4 DEF ActPoint
  <2>6. p.active \in BOOLEAN /\ p.activate_on_remap \in BOOLEAN
    BY DEF Point
  <2>7. w = [p EXCEPT !.loc = a, !.locimg = None, !.unmapped = FALSE, !.name = n,
                      !.active = p.active \/ p.activate_on_remap]
    <3> DEFINE act == p.active \/ p.activate_on_remap
    <3>1. CASE p.activate_on_remap
      <4>1. act = TRUE
        BY <3>1
      <4>2. w = [v EXCEPT !.active = TRUE]
        BY <2>5, <3>1
      <4>3. w = [p EXCEPT !.locimg = None, !.loc = a, !.unmapped = FALSE, !.name = n,
                          !.active = TRUE]
        BY <2>3, <4>2
      <4> HIDE DEF w, act
      <4>4. w = [p EXCEPT !.loc = a, !.locimg = None, !.unmapped = FALSE, !.name = n,
                          !.active = act]
        BY <4>1, <4>3
      <4> QED
        BY <4>4 DEF act
    <3>2. CASE ~p.activate_on_remap
      <4>1. act = p.active
        BY <2>6, <3>2
      <4>2. w = v
        BY <2>5, <3>2
      <4> HIDE DEF w, act
      <4>3. w = [p EXCEPT !.loc = a, !.locimg = None, !.unmapped = FALSE, !.name = n,
                          !.active = act]
        BY <2>3, <4>1, <4>2 DEF Point
      <4> QED
        BY <4>3 DEF act
    <3> QED
      BY <3>1, <3>2
  <2>8. w = MappedAt(p, a, imgs)
    BY <2>7 DEF MappedAt, n
  <2> HIDE DEF w
  <2> QED
    BY <1>1, <1>4, <2>2, <2>8
<1> QED
  BY <1>3, <1>4

\* The image a name is looked up in is the first that knows it.
LEMMA FoundRight ==
  ASSUME NEW b, NEW imgs, ImagesOK(imgs, b), NEW n
  PROVE  LET f == Found(imgs, n) IN
         /\ f = 0 => \A k \in DOMAIN imgs : ~Knows(imgs[k], n)
         /\ f # 0 => f \in DOMAIN imgs /\ Knows(imgs[f], n)
<1> DEFINE S == {k \in DOMAIN imgs : Knows(imgs[k], n)}
<1>1. S \in SUBSET Nat /\ 0 \notin S
  BY ImageType
<1>2. Found(imgs, n) = First(S)
  BY DEF Found
<1>3. (S = {} => First(S) = 0) /\ (S # {} => First(S) \in S)
  BY <1>1, FirstIsLeast
<1> QED
  BY <1>1, <1>2, <1>3

\* A known name has an address.
LEMMA SymAddrAddress ==
  ASSUME NEW b, NEW image \in Image, ImageOK(image, b), NEW n \in Name, Knows(image, n)
  PROVE  SymAddr(image, n) \in Address
<1>1. image.lines[n.line] \in Place /\ image.handle \in Bases
  BY DEF Knows, ImageOK, Image, Name
<1>2. At(image.handle, image.lines[n.line]) \in Address /\ n.diff \in Nat
  BY <1>1, AtAddress, Bounds DEF Name
<1> QED
  BY <1>2 DEF SymAddr, Address

\* Where an unmapped point is to go: its line's address in the first image that
\* knows the line, or its place in an image of the name it keeps.
InImageAt(p, image, a) ==
  LET r == ReMapImageAddress(p, image) IN r.rc = "REMAPPED" /\ r.p.loc = a

Target(p, imgs, k, a) ==
  IF p.name # None
  THEN Found(imgs, p.name) # 0 /\ a = SymAddr(imgs[Found(imgs, p.name)], p.name)
  ELSE \E j \in DOMAIN imgs : (k # 0 => j = k) /\ InImageAt(p, imgs[j], a)

NoTarget(p, imgs, k) ==
  IF p.name # None THEN Found(imgs, p.name) = 0
  ELSE \A j \in DOMAIN imgs :
         (k # 0 => j = k) => ReMapImageAddress(p, imgs[j]).rc # "REMAPPED"

\* Remapping in one image is such a try.
LEMMA TriedInImage ==
  ASSUME NEW b, NEW image \in Image, ImageOK(image, b), NEW p \in Point
  PROVE  Tried(p, ReMapImageAddress(p, image))
<1> DEFINE r == ReMapImageAddress(p, image)
<1>1. /\ r.rc # "REMAPPED" => r.p = p
      /\ r.rc = "REMAPPED" => \E a \in Address : r.p = [p EXCEPT !.locimg = None, !.loc = a]
  BY ReMapImageAddressRight
<1> HIDE DEF r
<1>2. \A a \in Address : [p EXCEPT !.locimg = None, !.loc = a] \in Point
  BY DEF Point
<1>3. r.p \in Point
  BY <1>1, <1>2
<1> QED
  BY <1>1, <1>3 DEF Tried, r

\* ReMapAddress takes the first image that can.
LEMMA ReMapAddressRight ==
  ASSUME NEW b, NEW imgs, ImagesOK(imgs, b), NEW p \in Point
  PROVE  LET r == ReMapAddress(p, imgs) IN
         /\ Tried(p, r) /\ r.rc \in {"ERROR", "REMAPPED"}
         /\ r.rc # "REMAPPED" =>
              \A j \in DOMAIN imgs : ReMapImageAddress(p, imgs[j]).rc # "REMAPPED"
         /\ r.rc = "REMAPPED" => \E j \in DOMAIN imgs : InImageAt(p, imgs[j], r.p.loc)
<1> DEFINE S == {k \in DOMAIN imgs : ReMapImageAddress(p, imgs[k]).rc = "REMAPPED"}
           q == ReMapImageAddress(p, imgs[Min(S)])
           r == ReMapAddress(p, imgs)
<1>1. r = IF S = {} THEN Remap("ERROR", p) ELSE Remap("REMAPPED", q.p)
  BY DEF ReMapAddress
<1>2. CASE S = {}
  <2>1. r.rc = "ERROR" /\ r.p = p
    BY <1>1, <1>2, RemapFields
  <2>2. \A j \in DOMAIN imgs : ReMapImageAddress(p, imgs[j]).rc # "REMAPPED"
    BY <1>2
  <2> QED
    BY <2>1, <2>2 DEF Tried
<1>3. CASE S # {}
  <2>1. S \in SUBSET Nat
    BY ImageType
  <2>2. Min(S) \in S
    BY <1>3, <2>1, FirstIsLeast DEF First
  <2>3. Min(S) \in DOMAIN imgs /\ q.rc = "REMAPPED"
    BY <2>2
  <2> HIDE DEF S
  <2>4. Tried(p, q)
    BY <2>3, ImageType, TriedInImage
  <2>5. r.rc = "REMAPPED" /\ r.p = q.p
    BY <1>1, <1>3, RemapFields
  <2>6. InImageAt(p, imgs[Min(S)], r.p.loc)
    BY <2>3, <2>5 DEF InImageAt
  <2>7. Tried(p, r)
    BY <2>3, <2>4, <2>5 DEF Tried
  <2> QED
    BY <2>3, <2>5, <2>6, <2>7
<1> QED
  BY <1>2, <1>3

\* ReMapOnePoint maps the point where it is to go, or leaves it as it is; with
\* no image to look in (NULL) it says that it could not.
OnePoint(p, r, imgs, k) ==
  \/ /\ r.rc \in {"WRONG_IMAGE", "ERROR"} /\ r.p = p
     /\ p.unmapped => NoTarget(p, imgs, k) /\ (k = 0 => r.rc = "ERROR")
     /\ ~p.unmapped => r.rc = "WRONG_IMAGE"
  \/ /\ r.rc = "REMAPPED" /\ p.unmapped
     /\ \E a \in Address : Target(p, imgs, k, a) /\ r.p = MappedAt(p, a, imgs)

\* ReMapOnePoint does one of these.
LEMMA ReMapOnePointRight ==
  ASSUME NEW b \in Builds, NEW imgs, ImagesOK(imgs, b), NEW p \in Point, PointOK(imgs, p),
         NEW k \in {0} \cup DOMAIN imgs
  PROVE  OnePoint(p, ReMapOnePoint(p, imgs, k), imgs, k)
<1> DEFINE r == ReMapOnePoint(p, imgs, k)
<1>1. CASE ~p.unmapped
  <2>1. r = Remap("WRONG_IMAGE", p)
    BY <1>1 DEF ReMapOnePoint
  <2>2. r.rc = "WRONG_IMAGE" /\ r.p = p
    BY <2>1, RemapFields
  <2> QED
    BY <1>1, <2>2 DEF OnePoint
<1>2. CASE p.unmapped /\ p.name # None
  <2> DEFINE f == Found(imgs, p.name)
  <2>1. CASE f = 0
    <3>1. r = Remap("ERROR", p)
      BY <1>2, <2>1 DEF ReMapOnePoint
    <3>2. r.rc = "ERROR" /\ r.p = p
      BY <3>1, RemapFields
    <3> QED
      BY <1>2, <2>1, <3>2 DEF OnePoint, NoTarget
  <2>2. CASE f # 0
    <3> DEFINE a == SymAddr(imgs[f], p.name)
               q == [p EXCEPT !.loc = a]
               t == Remap("REMAPPED", q)
    <3>1. r = ReMapped(t, imgs)
      BY <1>2, <2>2 DEF ReMapOnePoint
    <3>2. p.name \in Name /\ p.locimg = None
      BY <1>2 DEF Point, PointOK
    <3>3. a \in Address
      BY <2>2, <3>2, FoundRight, ImageType, SymAddrAddress
    <3>4. Target(p, imgs, k, a)
      BY <1>2, <2>2 DEF Target
    <3> HIDE DEF a, f
    <3>5. q = [p EXCEPT !.locimg = None, !.loc = a] /\ q \in Point /\ q.loc = a
      BY <3>2, <3>3 DEF Point
    <3>6. t.rc = "REMAPPED" /\ t.p = q
      BY RemapFields
    <3> HIDE DEF q, t
    <3>7. Tried(p, t)
      BY <3>3, <3>5, <3>6 DEF Tried
    <3> DEFINE u == ReMapped(t, imgs)
    <3>8. u.rc = t.rc /\ (t.rc = "REMAPPED" => u.p = MappedAt(p, t.p.loc, imgs))
      BY <1>2, <3>7, ReMappedRight
    <3> HIDE DEF u
    <3>9. u.rc = "REMAPPED" /\ u.p = MappedAt(p, a, imgs)
      BY <3>5, <3>6, <3>8
    <3>10. r = u
      BY <3>1 DEF u
    <3> HIDE DEF r
    <3>11. OnePoint(p, r, imgs, k)
      BY <1>2, <3>3, <3>4, <3>9, <3>10 DEF OnePoint
    <3> QED
      BY <3>11 DEF r
  <2> QED
    BY <2>1, <2>2
<1>3. CASE p.unmapped /\ p.name = None
  <2> DEFINE t == IF k = 0 THEN ReMapAddress(p, imgs) ELSE ReMapImageAddress(p, imgs[k])
  <2>1. r = ReMapped(t, imgs)
    BY <1>3 DEF ReMapOnePoint
  <2>2. /\ Tried(p, t) /\ t.rc \in {"WRONG_IMAGE", "ERROR", "REMAPPED"}
        /\ k = 0 /\ t.rc # "REMAPPED" => t.rc = "ERROR"
        /\ t.rc # "REMAPPED" => NoTarget(p, imgs, k)
        /\ t.rc = "REMAPPED" => Target(p, imgs, k, t.p.loc)
    <3>1. CASE k = 0
      BY <1>3, <3>1, ReMapAddressRight DEF NoTarget, Target
    <3>2. CASE k # 0
      <4>1. k \in DOMAIN imgs /\ imgs[k] \in Image /\ ImageOK(imgs[k], b)
        BY <3>2, ImageType
      <4>2. Tried(p, ReMapImageAddress(p, imgs[k]))
        BY <4>1, TriedInImage
      <4>3. ReMapImageAddress(p, imgs[k]).rc \in {"WRONG_IMAGE", "ERROR", "REMAPPED"}
        BY <4>1, ReMapImageAddressRight
      <4>4. t = ReMapImageAddress(p, imgs[k])
        BY <3>2
      <4> QED
        BY <1>3, <3>2, <4>1, <4>2, <4>3, <4>4 DEF NoTarget, Target, InImageAt
    <3> QED
      BY <3>1, <3>2
  <2> HIDE DEF t
  <2>3. /\ r.rc = t.rc /\ (t.rc # "REMAPPED" => r.p = p)
        /\ t.rc = "REMAPPED" => r.p = MappedAt(p, t.p.loc, imgs)
    BY <1>3, <2>1, <2>2, ReMappedRight
  <2>4. t.p.loc \in Address
    BY <2>2 DEF Tried, Point
  <2> HIDE DEF r
  <2>5. CASE t.rc = "REMAPPED"
    <3>1. r.rc = "REMAPPED" /\ r.p = MappedAt(p, t.p.loc, imgs) /\ Target(p, imgs, k, t.p.loc)
      BY <2>2, <2>3, <2>5
    <3>2. OnePoint(p, r, imgs, k)
      BY <1>3, <2>4, <3>1 DEF OnePoint
    <3> QED
      BY <3>2 DEF r
  <2>6. CASE t.rc # "REMAPPED"
    <3>1. r.rc \in {"WRONG_IMAGE", "ERROR"} /\ r.p = p /\ NoTarget(p, imgs, k) /\ (k = 0 => r.rc = "ERROR")
      BY <2>2, <2>3, <2>6
    <3>2. OnePoint(p, r, imgs, k)
      BY <1>3, <3>1 DEF OnePoint
    <3> QED
      BY <3>2 DEF r
  <2> QED
    BY <2>5, <2>6
<1> QED
  BY <1>1, <1>2, <1>3

\* ReMapPoints for one point: mapped where it is to go, left alone, or switched
\* off to wait.
Remaps(p, r, imgs, k) ==
  \/ r = p /\ (p.unmapped => NoTarget(p, imgs, k) /\ k # 0)
  \/ /\ p.unmapped /\ NoTarget(p, imgs, k)
     /\ r = [p EXCEPT !.active = FALSE, !.activate_on_remap = TRUE]
  \/ /\ p.unmapped
     /\ \E a \in Address : /\ Target(p, imgs, k, a)
                           /\ r = [MappedAt(p, a, imgs) EXCEPT !.counted = FALSE]

\* ReMapPoints does one of these for a point, and the point stays good.
LEMMA ReMapPointRight ==
  ASSUME NEW b \in Builds, NEW imgs, ImagesOK(imgs, b), NEW p \in Point, PointOK(imgs, p),
         NEW k \in {0} \cup DOMAIN imgs
  PROVE  LET q == ReMapPoint(p, imgs, k) IN
         Remaps(p, q, imgs, k) /\ q \in Point /\ PointOK(imgs, q)
<1> DEFINE r == ReMapOnePoint(p, imgs, k)
           q == ReMapPoint(p, imgs, k)
<1>1. OnePoint(p, r, imgs, k)
  BY ReMapOnePointRight
<1>2. q = CASE r.rc = "ERROR"    -> [ActPoint(r.p, FALSE) EXCEPT !.activate_on_remap = TRUE]
            [] r.rc = "REMAPPED" -> [r.p EXCEPT !.counted = FALSE]
            [] OTHER             -> r.p
  BY DEF ReMapPoint
<1> HIDE DEF r, q
<1>3. CASE r.rc = "ERROR"
  <2>1. r.p = p /\ p.unmapped /\ NoTarget(p, imgs, k)
    BY <1>1, <1>3 DEF OnePoint
  <2>2. ActPoint(p, FALSE) = [p EXCEPT !.active = FALSE]
    BY DEF ActPoint
  <2>3. q = [p EXCEPT !.active = FALSE, !.activate_on_remap = TRUE]
    BY <1>2, <1>3, <2>1, <2>2
  <2>4. q \in Point /\ q.unmapped /\ q.name = p.name /\ q.locimg = p.locimg
    BY <2>1, <2>3 DEF Point
  <2>5. PointOK(imgs, q)
    BY <2>1, <2>4 DEF PointOK
  <2> QED
    BY <2>1, <2>3, <2>4, <2>5 DEF Remaps, q
<1>4. CASE r.rc = "REMAPPED"
  <2>1. PICK a \in Address : Target(p, imgs, k, a) /\ r.p = MappedAt(p, a, imgs) /\ p.unmapped
    BY <1>1, <1>4 DEF OnePoint
  <2> DEFINE m == MappedAt(p, a, imgs)
  <2>2. m \in Point /\ PointOK(imgs, m)
    BY MappedAtRight
  <2>3. q = [m EXCEPT !.counted = FALSE]
    BY <1>2, <1>4, <2>1
  <2> HIDE DEF m
  <2>4. q \in Point /\ q.unmapped = m.unmapped /\ q.name = m.name /\ q.locimg = m.locimg /\ q.loc = m.loc
    BY <2>2, <2>3 DEF Point
  <2>5. PointOK(imgs, q)
    BY <2>2, <2>4 DEF PointOK
  <2>6. Remaps(p, q, imgs, k)
    BY <2>1, <2>3 DEF Remaps, m
  <2> QED
    BY <2>4, <2>5, <2>6 DEF q
<1>5. CASE r.rc = "WRONG_IMAGE"
  <2>1. r.p = p /\ (p.unmapped => NoTarget(p, imgs, k) /\ k # 0)
    BY <1>1, <1>5 DEF OnePoint
  <2>2. q = p
    BY <1>2, <1>5, <2>1
  <2> QED
    BY <2>1, <2>2 DEF Remaps, q
<1> QED
  BY <1>1, <1>3, <1>4, <1>5 DEF OnePoint

\* UserTmpBrk stays good when it is remapped.
LEMMA ReMapTmpRight ==
  ASSUME NEW b \in Builds, NEW imgs, ImagesOK(imgs, b),
         NEW t \in [has_address : BOOLEAN, bp : Point],
         t.has_address => PointOK(imgs, t.bp),
         NEW k \in {0} \cup DOMAIN imgs
  PROVE  LET r == ReMapTmp(t, imgs, k) IN
         /\ r \in [has_address : BOOLEAN, bp : Point]
         /\ r.has_address => PointOK(imgs, r.bp)
<1> DEFINE o == ReMapOnePoint(t.bp, imgs, k)
           r == ReMapTmp(t, imgs, k)
           q == [o.p EXCEPT !.active = @ /\ o.rc # "ERROR"]
<1>1. CASE ~t.has_address
  BY <1>1 DEF ReMapTmp
<1>2. CASE t.has_address
  <2>1. r = [t EXCEPT !.bp = q]
    BY <1>2 DEF ReMapTmp
  <2>2. OnePoint(t.bp, o, imgs, k)
    BY <1>2, ReMapOnePointRight
  <2>3. o.p \in Point /\ PointOK(imgs, o.p)
    BY <1>2, <2>2, MappedAtRight DEF OnePoint
  <2> HIDE DEF o
  <2>4. q \in Point /\ q.unmapped = o.p.unmapped /\ q.name = o.p.name
        /\ q.locimg = o.p.locimg /\ q.loc = o.p.loc
    BY <2>3 DEF Point
  <2>5. PointOK(imgs, q)
    BY <2>3, <2>4 DEF PointOK
  <2> HIDE DEF q
  <2> QED
    BY <2>1, <2>4, <2>5
<1> QED
  BY <1>1, <1>2

\* Induction along a family of sets: what holds after i rounds of a loop.
LEMMA FamilyInduction ==
  ASSUME NEW n \in Nat, NEW F, NEW f, f[0] \in F[0],
         \A i \in 1..n : f[i - 1] \in F[i - 1] => f[i] \in F[i]
  PROVE  \A i \in 0..n : f[i] \in F[i]
<1> DEFINE Good == {i \in 0..n : f[i] \in F[i]}
<1>1. 0 \in Good
  OBVIOUS
<1>2. ASSUME NEW i \in 1..n, i - 1 \in Good PROVE i \in Good
  BY <1>2
<1>3. \A i \in 0..n : i \in Good
  <2> HIDE DEF Good
  <2> QED
    BY <1>1, <1>2, IntervalInduction
<1> QED
  BY <1>3

\* A recursion whose i-th value is in the i-th of a family of sets.
LEMMA RecursionInFamily ==
  ASSUME NEW n \in Nat, NEW S, NEW F, NEW base \in S, NEW step \in [(1..n) \X S -> S],
         \A i \in 0..n : F[i] \subseteq S,
         base \in F[0], \A i \in 1..n : \A t \in F[i - 1] : step[<<i, t>>] \in F[i]
  PROVE  \E f : Recursive(f, n, S, base, step) /\ \A i \in 0..n : f[i] \in F[i]
<1>1. PICK f : Recursive(f, n, S, base, step)
  BY RecursionExists
<1>2. \A i \in 1..n : i - 1 \in 0..n /\ f[i] = step[<<i, f[i - 1]>>]
  BY <1>1 DEF Recursive
<1>3. \A i \in 0..n : f[i] \in F[i]
  BY <1>1, <1>2, FamilyInduction DEF Recursive
<1> QED
  BY <1>1, <1>3

\* A sequence with every element replaced.
LEMMA MappedSeq ==
  ASSUME NEW S, NEW s \in Seq(S), NEW T, NEW f, f = [i \in DOMAIN s |-> f[i]],
         \A i \in DOMAIN s : f[i] \in T
  PROVE  f \in Seq(T) /\ Len(f) = Len(s) /\ DOMAIN f = DOMAIN s
<1>1. DOMAIN s = 1..Len(s) /\ Len(s) \in Nat
  BY LenProperties
<1>2. f \in [1..Len(s) -> T]
  BY <1>1
<1>3. f \in Seq(T)
  BY <1>1, <1>2, SeqDef
<1> QED
  BY <1>1, <1>3, LenProperties

-------------------------------------------------------------------------------
(* Images: how one comes, gets its symbols and goes. *)

\* The first j entries of an image's map.
Upto(h, j) == [i \in 1..j |-> [seg |-> i, real |-> At(h, [seg |-> i, off |-> 0])]]

\* They are a sequence of entries.
LEMMA UptoIsASeq ==
  ASSUME NEW h \in Bases, NEW j \in 0..MaxSeg
  PROVE  Upto(h, j) \in Seq(MapEntry) /\ Len(Upto(h, j)) = j
<1>1. ASSUME NEW i \in 1..j
      PROVE  [seg |-> i, real |-> At(h, [seg |-> i, off |-> 0])] \in MapEntry
  <2>1. i \in Segs /\ [seg |-> i, off |-> 0] \in Place
    BY Bounds DEF Segs, Place
  <2> QED
    BY <2>1, AtAddress DEF MapEntry
<1>2. Upto(h, j) \in [1..j -> MapEntry] /\ j \in Nat
  BY <1>1, Bounds DEF Upto
<1>3. Upto(h, j) \in Seq(MapEntry)
  BY <1>2, SeqDef
<1>4. DOMAIN Upto(h, j) = 1..j
  BY DEF Upto
<1> HIDE DEF Upto
<1> QED
  BY <1>2, <1>3, <1>4, LenProperties

\* Asking for a segment that is not yet mapped appends its entry.
LEMMA MapAddrForImageRight ==
  ASSUME NEW image \in Image, NEW h \in Bases, image.handle = h, NEW j \in 1..MaxSeg
  PROVE  MapAddrForImage([image EXCEPT !.map = Upto(h, j - 1)], j)
           = [image EXCEPT !.map = Upto(h, j)]
<1> DEFINE q == [image EXCEPT !.map = Upto(h, j - 1)]
           e == [seg |-> j, real |-> At(h, [seg |-> j, off |-> 0])]
<1>1. q.map = Upto(h, j - 1) /\ q.handle = h
  BY DEF Image
<1>2. \A i \in 1..j - 1 : Upto(h, j - 1)[i].seg = i
  BY DEF Upto
<1>3. DOMAIN Upto(h, j - 1) = 1..j - 1
  BY DEF Upto
<1>4. ~\E i \in DOMAIN q.map : q.map[i].seg = j
  BY <1>1, <1>2, <1>3, Bounds
<1>5. MapAddrForImage(q, j) = [q EXCEPT !.map = Append(Upto(h, j - 1), e)]
  BY <1>1, <1>4 DEF MapAddrForImage, MapAddrSystem
<1>6. Append(Upto(h, j - 1), e) = Upto(h, j)
  <2>1. j - 1 \in 0..MaxSeg /\ j \in 0..MaxSeg /\ j \in Nat
    BY Bounds
  <2>2. Upto(h, j - 1) \in Seq(MapEntry) /\ Len(Upto(h, j - 1)) = j - 1
    BY <2>1, UptoIsASeq
  <2>3. Upto(h, j) \in Seq(MapEntry) /\ Len(Upto(h, j)) = j
    BY <2>1, UptoIsASeq
  <2>4. e = Upto(h, j)[j] /\ \A i \in 1..j - 1 : Upto(h, j)[i] = Upto(h, j - 1)[i]
    BY <2>1 DEF Upto
  <2> DEFINE u == Upto(h, j - 1)
             v == Upto(h, j)
  <2>5. e \in MapEntry
    <3>1. j \in 1..Len(v)
      BY <2>1, <2>3
    <3> QED
      BY <2>3, <2>4, <3>1, ElementOfSeq
  <2> HIDE DEF u, v, e
  <2>6. Append(u, e) \in Seq(MapEntry) /\ Len(Append(u, e)) = j
    BY <2>1, <2>2, <2>5, AppendProperties DEF u
  <2>7. \A i \in 1..j : Append(u, e)[i] = v[i]
    <3>1. \A i \in 1..j : Append(u, e)[i] = IF i = j THEN e ELSE u[i]
      BY <2>1, <2>2, <2>5, AppendProperties DEF u
    <3>2. e = v[j] /\ \A i \in 1..j - 1 : v[i] = u[i]
      BY <2>4 DEF u, v
    <3>3. \A i \in 1..j : i # j => i \in 1..j - 1
      BY <2>1
    <3> QED
      BY <3>1, <3>2, <3>3
  <2> QED
    BY <2>3, <2>6, <2>7, SeqEqual DEF u, v
<1> HIDE DEF e
<1> QED
  BY <1>5, <1>6

\* The DIP asks for every segment, so the map of an image is the full one.
LEMMA DIPMapInfoRight ==
  ASSUME NEW image \in Image, image.handle \in Bases, image.map = <<>>
  PROVE  DIPMapInfo(image) = [image EXCEPT !.map = FullMap(image.handle)]
<1> DEFINE h == image.handle
           P(g) == g = [j \in 0..MaxSeg |->
                          IF j = 0 THEN image ELSE MapAddrForImage(g[j - 1], j)]
           G == [j \in 0..MaxSeg |-> [image EXCEPT !.map = Upto(h, j)]]
           f == CHOOSE g : P(g)
<1>1. DIPMapInfo(image) = f[MaxSeg]
  BY DEF DIPMapInfo
<1>2. [image EXCEPT !.map = Upto(h, 0)] = image
  <2>1. Upto(h, 0) = <<>>
    BY UptoIsASeq, EmptySeq, Bounds
  <2> QED
    BY <2>1 DEF Image
<1>3. \A j \in 1..MaxSeg : MapAddrForImage(G[j - 1], j) = G[j]
  <2> SUFFICES ASSUME NEW j \in 1..MaxSeg PROVE MapAddrForImage(G[j - 1], j) = G[j]
    OBVIOUS
  <2>1. j - 1 \in 0..MaxSeg /\ j \in 0..MaxSeg
    BY Bounds
  <2>2. G[j - 1] = [image EXCEPT !.map = Upto(h, j - 1)] /\ G[j] = [image EXCEPT !.map = Upto(h, j)]
    BY <2>1
  <2> HIDE DEF G
  <2> QED
    BY <2>2, MapAddrForImageRight
<1>4. G[0] = image
  BY <1>2, Bounds
<1>5. P(G)
  <2>1. G = [j \in 0..MaxSeg |-> G[j]]
    OBVIOUS
  <2>2. \A j \in 0..MaxSeg : j # 0 => j \in 1..MaxSeg
    BY Bounds
  <2> HIDE DEF G
  <2>3. \A j \in 0..MaxSeg : G[j] = IF j = 0 THEN image ELSE MapAddrForImage(G[j - 1], j)
    BY <1>3, <1>4, <2>2
  <2> QED
    BY <2>1, <2>3
<1>6. P(f)
  <2> HIDE DEF P, G
  <2> QED
    BY <1>5
<1> HIDE DEF f
<1> DEFINE Same == {j \in 0..MaxSeg : f[j] = G[j]}
<1>7. 0 \in Same
  BY <1>4, <1>6, Bounds
<1>8. ASSUME NEW j \in 1..MaxSeg, j - 1 \in Same PROVE j \in Same
  <2>1. j \in 0..MaxSeg /\ j # 0
    BY Bounds
  <2>2. f[j] = MapAddrForImage(f[j - 1], j) /\ f[j - 1] = G[j - 1]
    BY <1>6, <1>8, <2>1
  <2> HIDE DEF G
  <2> QED
    BY <1>3, <2>1, <2>2
<1>9. \A j \in 0..MaxSeg : j \in Same
  <2> HIDE DEF Same
  <2> QED
    BY <1>7, <1>8, Bounds, IntervalInduction
<1>10. f[MaxSeg] = G[MaxSeg] /\ MaxSeg \in 0..MaxSeg
  BY <1>9, Bounds
<1>11. FullMap(h) = Upto(h, MaxSeg)
  BY DEF FullMap, Upto, Segs
<1> QED
  BY <1>1, <1>10, <1>11

\* What ReLoadSymInfo makes of one image.
ReLoaded(image, defer, b) ==
  LET q == ProcSymInfo(image, defer, b) IN IF q.syms THEN DIPMapInfo(q) ELSE q

HasSymbols(m, defer) == Symbols[m] = "full" \/ (Symbols[m] = "exports" /\ ~defer)

\* An image with its symbols loaded is a good image of its module.
LEMMA ReLoadedRight ==
  ASSUME NEW b \in Builds, NEW image \in Image, image.name \in Modules, image.handle \in Bases,
         image.map = <<>>, NEW defer \in BOOLEAN
  PROVE  LET r == ReLoaded(image, defer, b) IN
         /\ r \in Image /\ ImageOK(r, b) /\ r.name = image.name /\ r.handle = image.handle
         /\ r.syms = HasSymbols(image.name, defer)
<1> DEFINE m == image.name
           now == HasSymbols(m, defer)
           late == Symbols[m] # "full" /\ defer
           lines == IF now THEN b[m] ELSE image.lines
           q == ProcSymInfo(image, defer, b)
           r == ReLoaded(image, defer, b)
<1>1. q = [image EXCEPT !.syms = now, !.deferred = late, !.lines = lines]
  BY DEF ProcSymInfo, HasSymbols
<1>2. lines \in [Lines -> Place \cup {None}] /\ now \in BOOLEAN /\ late \in BOOLEAN
  <2>1. b[m] \in [Lines -> Place \cup {None}]
    BY BuildsAssumption
  <2>2. image.lines \in [Lines -> Place \cup {None}]
    BY DEF Image
  <2> QED
    BY <2>1, <2>2 DEF HasSymbols
<1>3. (late => ~now /\ Symbols[m] # "full") /\ (now => lines = b[m])
  BY DEF HasSymbols
<1> HIDE DEF q, now, late, lines
<1>4. q \in Image /\ q.syms = now /\ q.deferred = late /\ q.lines = lines
      /\ q.map = <<>> /\ q.name = m /\ q.handle = image.handle
  BY <1>1, <1>2 DEF Image
<1>5. CASE ~now
  <2>1. r = q
    BY <1>4, <1>5 DEF ReLoaded, q
  <2> QED
    BY <1>3, <1>4, <1>5, <2>1 DEF ImageOK, now
<1>6. CASE now
  <2>1. r = DIPMapInfo(q)
    BY <1>4, <1>6 DEF ReLoaded, q
  <2>2. r = [q EXCEPT !.map = FullMap(q.handle)]
    BY <1>4, <2>1, DIPMapInfoRight
  <2>3. FullMap(q.handle) \in Seq(MapEntry)
    <3>1. FullMap(q.handle) = Upto(q.handle, MaxSeg)
      BY DEF FullMap, Upto, Segs
    <3> QED
      BY <1>4, <3>1, UptoIsASeq, Bounds
  <2> HIDE DEF r
  <2>4. r \in Image /\ r.syms = now /\ r.deferred = late /\ r.lines = lines
        /\ r.map = FullMap(r.handle) /\ r.name = m /\ r.handle = image.handle
    BY <1>4, <2>2, <2>3 DEF Image
  <2>5. ImageOK(r, b)
    BY <1>3, <1>6, <2>4 DEF ImageOK
  <2> QED
    BY <2>4, <2>5 DEF r, now
<1> QED
  BY <1>5, <1>6

-------------------------------------------------------------------------------
(* The images, the list and UserTmpBrk together. *)

Tmp    == [has_address : BOOLEAN, bp : Point]
States == [images : Seq(Image), points : Seq(Point), tmp : Tmp]

PointsOK(s) == /\ \A i \in DOMAIN s.points : PointOK(s.images, s.points[i])
               /\ s.tmp.has_address => PointOK(s.images, s.tmp.bp)

\* The files on disk hold build b.
Sound(s, b) == s \in States /\ ImagesOK(s.images, b) /\ PointsOK(s)

\* The point at each index of one list is made what it is at it in another.
UnMappedAll(s, t, k) ==
  /\ DOMAIN t.points = DOMAIN s.points
  /\ \A i \in DOMAIN s.points : UnMapped(s.points[i], t.points[i], s.images, k)
  /\ t.tmp.has_address => s.tmp.has_address /\ UnMapped(s.tmp.bp, t.tmp.bp, s.images, k)
ReMappedAll(s, t, imgs, k) ==
  /\ DOMAIN t.points = DOMAIN s.points
  /\ \A i \in DOMAIN s.points : Remaps(s.points[i], t.points[i], imgs, k)

\* The fields of a state.
LEMMA StateFields ==
  ASSUME NEW s \in States
  PROVE  /\ s = [images |-> s.images, points |-> s.points, tmp |-> s.tmp]
         /\ s.images \in Seq(Image) /\ s.points \in Seq(Point) /\ s.tmp \in Tmp
         /\ \A i \in DOMAIN s.points : s.points[i] \in Point
<1>1. s.points \in Seq(Point)
  BY DEF States
<1>2. DOMAIN s.points = 1..Len(s.points)
  BY <1>1, LenProperties
<1> QED
  BY <1>1, <1>2, ElementOfSeq DEF States

\* UnMapPoints does so to every point, and the state stays sound.
LEMMA UnMapState ==
  ASSUME NEW b \in Builds, NEW s, Sound(s, b), NEW k \in Nat
  PROVE  LET t == UnMapPoints(s, k) IN
         Sound(t, b) /\ t.images = s.images /\ UnMappedAll(s, t, k)
<1> DEFINE t == UnMapPoints(s, k)
           list == [i \in DOMAIN s.points |-> UnMapOnePoint(s.points[i], s.images, k)]
           u == UnMapOnePoint(s.tmp.bp, s.images, k)
           one == UnMapTmp(s.tmp, s.images, k)
<1>1. s \in States /\ ImagesOK(s.images, b) /\ PointsOK(s)
  BY DEF Sound
<1>2. t = [s EXCEPT !.points = list, !.tmp = one]
  BY DEF UnMapPoints
<1>3. \A i \in DOMAIN s.points :
        /\ UnMapped(s.points[i], list[i], s.images, k)
        /\ list[i] \in Point /\ PointOK(s.images, list[i])
  BY <1>1, StateFields, UnMapOnePointRight DEF PointsOK
<1>4. list \in Seq(Point) /\ DOMAIN list = DOMAIN s.points
  <2>1. list = [i \in DOMAIN s.points |-> list[i]]
    OBVIOUS
  <2> HIDE DEF list
  <2> QED
    BY <1>1, <1>3, <2>1, StateFields, MappedSeq
<1>5. /\ one \in Tmp
      /\ one.has_address => /\ PointOK(s.images, one.bp) /\ s.tmp.has_address
                            /\ UnMapped(s.tmp.bp, one.bp, s.images, k)
  <2>1. s.tmp \in Tmp /\ s.tmp.bp \in Point
    BY <1>1, StateFields DEF Tmp
  <2>2. s.tmp.has_address => /\ u \in Point /\ PointOK(s.images, u)
                             /\ UnMapped(s.tmp.bp, u, s.images, k)
    BY <1>1, <2>1, UnMapOnePointRight DEF PointsOK
  <2>3. one = IF s.tmp.has_address THEN [s.tmp EXCEPT !.bp = u] ELSE s.tmp
    BY DEF UnMapTmp
  <2> HIDE DEF u, one
  <2> QED
    BY <2>1, <2>2, <2>3 DEF Tmp
<1> HIDE DEF list, one, t
<1>6. t.images = s.images /\ t.points = list /\ t.tmp = one /\ t \in States
  BY <1>1, <1>2, <1>4, <1>5 DEF States
<1> QED
  BY <1>1, <1>3, <1>4, <1>5, <1>6 DEF Sound, PointsOK, UnMappedAll, t

\* So does ReMapPoints.
LEMMA ReMapState ==
  ASSUME NEW b \in Builds, NEW s, Sound(s, b), NEW k \in {0} \cup DOMAIN s.images
  PROVE  LET t == ReMapPoints(s, k) IN
         Sound(t, b) /\ t.images = s.images /\ ReMappedAll(s, t, s.images, k)
<1> DEFINE t == ReMapPoints(s, k)
           list == [i \in DOMAIN s.points |-> ReMapPoint(s.points[i], s.images, k)]
           one == ReMapTmp(s.tmp, s.images, k)
<1>1. s \in States /\ ImagesOK(s.images, b) /\ PointsOK(s)
  BY DEF Sound
<1>2. t = [s EXCEPT !.points = list, !.tmp = one]
  BY DEF ReMapPoints
<1>3. \A i \in DOMAIN s.points :
        /\ Remaps(s.points[i], list[i], s.images, k)
        /\ list[i] \in Point /\ PointOK(s.images, list[i])
  BY <1>1, StateFields, ReMapPointRight DEF PointsOK
<1>4. list \in Seq(Point) /\ DOMAIN list = DOMAIN s.points
  <2>1. list = [i \in DOMAIN s.points |-> list[i]]
    OBVIOUS
  <2> HIDE DEF list
  <2> QED
    BY <1>1, <1>3, <2>1, StateFields, MappedSeq
<1>5. one \in Tmp /\ (one.has_address => PointOK(s.images, one.bp))
  BY <1>1, StateFields, ReMapTmpRight DEF PointsOK, Tmp
<1> HIDE DEF list, one, t
<1>6. t.images = s.images /\ t.points = list /\ t.tmp = one /\ t \in States
  BY <1>1, <1>2, <1>4, <1>5 DEF States
<1> QED
  BY <1>1, <1>3, <1>4, <1>5, <1>6 DEF Sound, PointsOK, ReMappedAll, t

\* What a point is kept mapped by is kept.
LEMMA PointOKKept ==
  ASSUME NEW imgs, NEW more, NEW p, PointOK(imgs, p),
         \A k \in DOMAIN imgs : imgs[k].syms /\ Covers(imgs[k], p.loc) =>
           \E j \in DOMAIN more : more[j] = imgs[k]
  PROVE  PointOK(more, p)
BY DEF PointOK, Covers

\* An image that goes takes the points in it with it: it is the first at its
\* base, so the one an address in it is said to be in.
LEMMA FreeState ==
  ASSUME NEW b \in Builds, NEW s, Sound(s, b), NEW k \in DOMAIN s.images,
         \A j \in DOMAIN s.images : s.images[j].handle = s.images[k].handle => k <= j
  PROVE  LET t == FreeImage(s, k) IN
         Sound(t, b) /\ t.images = RemoveAt(s.images, k) /\ UnMappedAll(s, t, k)
<1> DEFINE u == UnMapPoints(s, k)
           t == FreeImage(s, k)
           rest == RemoveAt(s.images, k)
<1>1. s \in States /\ ImagesOK(s.images, b) /\ PointsOK(s)
  BY DEF Sound
<1>2. /\ k \in 1..Len(s.images) /\ Len(s.images) \in Nat /\ k \in Nat /\ k # 0
      /\ DOMAIN s.images = 1..Len(s.images)
  BY <1>1, ImageType
<1>3. Sound(u, b) /\ u.images = s.images /\ UnMappedAll(s, u, k)
  BY <1>2, UnMapState
<1>4. /\ rest \in Seq(Image) /\ Len(rest) = Len(s.images) - 1
      /\ \A i \in 1..(Len(s.images) - 1) : rest[i] = s.images[IF i < k THEN i ELSE i + 1]
  BY <1>1, <1>2, StateFields, RemoveAtProperties
<1>5. DOMAIN rest = 1..(Len(s.images) - 1)
  BY <1>4, LenProperties
<1> HIDE DEF u, rest
<1>6. /\ t \in States /\ t.images = rest /\ t.points = u.points /\ t.tmp = u.tmp
  <2>1. t = [u EXCEPT !.images = rest]
    BY <1>3 DEF FreeImage, u, rest
  <2>2. u \in States
    BY <1>3 DEF Sound
  <2> HIDE DEF t
  <2> QED
    BY <1>4, <2>1, <2>2 DEF States
<1> HIDE DEF t
<1>7. ImagesOK(rest, b)
  <2>1. \A i \in DOMAIN rest : (IF i < k THEN i ELSE i + 1) \in DOMAIN s.images
    BY <1>2, <1>5
  <2> QED
    BY <1>1, <1>4, <1>5, <2>1 DEF ImagesOK
<1>8. \A j \in DOMAIN s.images : j # k => \E i \in DOMAIN rest : rest[i] = s.images[j]
  <2> SUFFICES ASSUME NEW j \in DOMAIN s.images, j # k
               PROVE  \E i \in DOMAIN rest : rest[i] = s.images[j]
    OBVIOUS
  <2>1. CASE j < k
    BY <1>2, <1>4, <1>5, <2>1
  <2>2. CASE k < j
    <3>1. j - 1 \in DOMAIN rest /\ ~(j - 1 < k) /\ (j - 1) + 1 = j
      BY <1>2, <1>5, <2>2
    <3> QED
      BY <1>4, <1>5, <3>1
  <2> QED
    BY <1>2, <2>1, <2>2
<1>9. ASSUME NEW p \in Point, NEW q \in Point, PointOK(s.images, q), UnMapped(p, q, s.images, k)
      PROVE  PointOK(rest, q)
  <2>1. CASE q.unmapped
    BY <1>9, <2>1 DEF PointOK
  <2>2. CASE ~q.unmapped /\ Covers(s.images[k], q.loc)
    <3>1. DeAliasAddrMod(s.images, q.loc) = k
      <4> DEFINE own == DeAliasAddrMod(s.images, q.loc)
      <4>1. own \in DOMAIN s.images /\ Covers(s.images[own], q.loc) /\ own <= k
        BY <1>1, <2>2, DeAlias
      <4>2. s.images[own].handle = s.images[k].handle
        BY <1>1, <2>2, <4>1, ImageType, CoversOneBase
      <4>3. k <= own
        BY <4>1, <4>2
      <4> QED
        BY <1>2, <4>1, <4>3
    <3>2. q = p /\ q.name = None
      <4>1. CASE q = p /\ (p.unmapped \/ (k # 0 /\ DeAliasAddrMod(s.images, p.loc) # k)
                            \/ (DeAliasAddrMod(s.images, p.loc) = 0 /\ p.name = None))
        BY <1>2, <2>2, <3>1, <4>1
      <4>2. CASE q = [p EXCEPT !.unmapped = TRUE]
        BY <2>2, <4>2 DEF Point
      <4>3. CASE \E m, a : q = [p EXCEPT !.locimg = m, !.unmapped = TRUE, !.loc = a]
        BY <2>2, <4>3 DEF Point
      <4> QED
        BY <1>9, <4>1, <4>2, <4>3 DEF UnMapped
    <3> QED
      BY <1>9, <2>2, <3>2 DEF PointOK
  <2>3. CASE ~Covers(s.images[k], q.loc)
    BY <1>8, <1>9, <2>3, PointOKKept
  <2> QED
    BY <2>1, <2>2, <2>3
<1>10. PointsOK(t)
  <2>1. u \in States /\ s \in States /\ DOMAIN u.points = DOMAIN s.points
    BY <1>1, <1>3 DEF Sound, UnMappedAll
  <2>2. \A i \in DOMAIN u.points :
          /\ u.points[i] \in Point /\ s.points[i] \in Point
          /\ PointOK(s.images, u.points[i]) /\ UnMapped(s.points[i], u.points[i], s.images, k)
    BY <1>3, <2>1, StateFields DEF Sound, PointsOK, UnMappedAll
  <2>3. \A i \in DOMAIN u.points : PointOK(rest, u.points[i])
    BY <1>9, <2>2
  <2>4. u.tmp.has_address => PointOK(rest, u.tmp.bp)
    <3>1. u.tmp.has_address => u.tmp.bp \in Point /\ s.tmp.bp \in Point
      BY <2>1, StateFields DEF Tmp
    <3>2. u.tmp.has_address => /\ PointOK(s.images, u.tmp.bp)
                               /\ UnMapped(s.tmp.bp, u.tmp.bp, s.images, k)
      BY <1>3 DEF Sound, PointsOK, UnMappedAll
    <3> QED
      BY <1>9, <3>1, <3>2
  <2> QED
    BY <1>6, <2>3, <2>4 DEF PointsOK
<1> QED
  BY <1>3, <1>6, <1>7, <1>10 DEF Sound, UnMappedAll, t, rest, u

\* Symbols come for image k, and nothing else of the images changes; the points
\* are tried in it, or it has none.
Arrives(s, t, k) ==
  /\ k \in DOMAIN t.images
  /\ \A j \in DOMAIN s.images :
       /\ j \in DOMAIN t.images
       /\ IF j = k THEN ~s.images[j].syms /\ t.images[j].handle = s.images[j].handle
                   ELSE t.images[j] = s.images[j]
  /\ \A j \in DOMAIN t.images : j # k => j \in DOMAIN s.images
  /\ ReMappedAll(s, t, t.images, k) \/ (~t.images[k].syms /\ t.points = s.points)

\* The image is one of module m at base h, new at the end of the list.
Comes(s, t, m, h, b) ==
  /\ Arrives(s, t, Len(s.images) + 1)
  /\ \E e \in Image : /\ ImageOK(e, b) /\ e.name = m /\ e.handle = h
                      /\ e.syms = HasSymbols(m, Defer)
                      /\ t.images = Append(s.images, e)

\* A sequence with an element more.
LEMMA AppendRight ==
  ASSUME NEW S, NEW s \in Seq(S), NEW e \in S
  PROVE  /\ Append(s, e) \in Seq(S) /\ Len(Append(s, e)) = Len(s) + 1 /\ Len(s) \in Nat
         /\ DOMAIN s = 1..Len(s) /\ DOMAIN Append(s, e) = 1..(Len(s) + 1)
         /\ Append(s, e)[Len(s) + 1] = e
         /\ \A i \in 1..Len(s) : Append(s, e)[i] = s[i]
<1>1. Len(s) \in Nat /\ DOMAIN s = 1..Len(s)
  BY LenProperties
<1> DEFINE a == Append(s, e)
<1>2. /\ a \in Seq(S) /\ Len(a) = Len(s) + 1
      /\ \A i \in 1..(Len(s) + 1) : a[i] = IF i = Len(s) + 1 THEN e ELSE s[i]
  BY <1>1, AppendProperties
<1> HIDE DEF a
<1>3. DOMAIN a = 1..Len(a)
  BY <1>2, LenProperties
<1>4. a[Len(s) + 1] = e /\ \A i \in 1..Len(s) : a[i] = s[i]
  BY <1>1, <1>2
<1> QED
  BY <1>1, <1>2, <1>3, <1>4 DEF a

Replace(s, k, e) == [s EXCEPT !.images[k] = e]

Replaced(s, t, k, e) ==
  /\ DOMAIN t.images = DOMAIN s.images /\ t.images[k] = e
  /\ \A j \in DOMAIN s.images : j # k => t.images[j] = s.images[j]
  /\ t.points = s.points /\ t.tmp = s.tmp

\* An image that has no symbols may be replaced by one of the same build.
LEMMA ReplaceState ==
  ASSUME NEW b \in Builds, NEW s, Sound(s, b), NEW k \in DOMAIN s.images,
         ~s.images[k].syms, NEW e \in Image, ImageOK(e, b)
  PROVE  Sound(Replace(s, k, e), b) /\ Replaced(s, Replace(s, k, e), k, e)
<1> DEFINE new == [s.images EXCEPT ![k] = e]
           t == Replace(s, k, e)
<1>1. s \in States /\ ImagesOK(s.images, b) /\ PointsOK(s) /\ s.images \in Seq(Image)
  BY StateFields DEF Sound
<1>2. k \in 1..Len(s.images) /\ DOMAIN s.images = 1..Len(s.images)
  BY <1>1, ImageType
<1>3. new \in Seq(Image) /\ \A j \in 1..Len(s.images) : new[j] = IF j = k THEN e ELSE s.images[j]
  BY <1>1, <1>2, ExceptSeq
<1>4. DOMAIN new = DOMAIN s.images
  OBVIOUS
<1>5. t = [s EXCEPT !.images = new]
  BY DEF Replace
<1> HIDE DEF new, t
<1>6. t \in States /\ t.images = new /\ t.points = s.points /\ t.tmp = s.tmp
  BY <1>1, <1>3, <1>5 DEF States
<1>7. ImagesOK(new, b)
  BY <1>1, <1>2, <1>3, <1>4 DEF ImagesOK
<1>8. ASSUME NEW p, PointOK(s.images, p) PROVE PointOK(new, p)
  <2>1. \A j \in DOMAIN s.images : s.images[j].syms => new[j] = s.images[j] /\ j \in DOMAIN new
    BY <1>2, <1>3, <1>4
  <2> QED
    BY <1>8, <2>1, PointOKKept
<1>9. PointsOK(t)
  BY <1>1, <1>6, <1>8 DEF PointsOK
<1> QED
  BY <1>2, <1>3, <1>4, <1>6, <1>7, <1>9 DEF Sound, Replaced, t, new

Blank(m, h) == [ name |-> m, handle |-> h, syms |-> FALSE, deferred |-> FALSE,
                 lines |-> [l \in Lines |-> None], map |-> <<>> ]

\* CreateImage adds an image without symbols.
LEMMA CreateState ==
  ASSUME NEW b \in Builds, NEW s, Sound(s, b), NEW m \in Modules \cup {None},
         NEW h \in 0..MaxBase
  PROVE  LET t == CreateImage(s, m, h) IN
         /\ Sound(t, b) /\ t.images = Append(s.images, Blank(m, h))
         /\ t.points = s.points /\ t.tmp = s.tmp
         /\ Blank(m, h) \in Image /\ ImageOK(Blank(m, h), b)
<1> DEFINE e == Blank(m, h)
           new == Append(s.images, e)
           t == CreateImage(s, m, h)
<1>1. s \in States /\ ImagesOK(s.images, b) /\ PointsOK(s) /\ s.images \in Seq(Image)
  BY StateFields DEF Sound
<1>2. e \in Image
  <2>1. <<>> \in Seq(MapEntry)
    BY EmptySeq
  <2>2. [l \in Lines |-> None] \in [Lines -> Place \cup {None}]
    OBVIOUS
  <2> QED
    BY <2>1, <2>2 DEF Blank, Image
<1>3. ImageOK(e, b)
  BY DEF Blank, ImageOK
<1>4. t = [s EXCEPT !.images = new]
  BY DEF CreateImage, Blank
<1> HIDE DEF e, t
<1>5. /\ new \in Seq(Image) /\ Len(s.images) \in Nat
      /\ DOMAIN s.images = 1..Len(s.images) /\ DOMAIN new = 1..(Len(s.images) + 1)
      /\ new[Len(s.images) + 1] = e /\ \A i \in 1..Len(s.images) : new[i] = s.images[i]
  BY <1>1, <1>2, AppendRight
<1> HIDE DEF new
<1>6. t \in States /\ t.images = new /\ t.points = s.points /\ t.tmp = s.tmp
  BY <1>1, <1>4, <1>5 DEF States
<1>7. ImagesOK(new, b)
  <2>1. \A i \in DOMAIN new : i = Len(s.images) + 1 \/ i \in DOMAIN s.images
    BY <1>5
  <2> QED
    BY <1>1, <1>3, <1>5, <2>1 DEF ImagesOK
<1>8. ASSUME NEW p, PointOK(s.images, p) PROVE PointOK(new, p)
  <2>1. \A j \in DOMAIN s.images : new[j] = s.images[j] /\ j \in DOMAIN new
    BY <1>5
  <2> QED
    BY <1>8, <2>1, PointOKKept
<1>9. PointsOK(t)
  BY <1>1, <1>6, <1>8 DEF PointsOK
<1> QED
  BY <1>2, <1>3, <1>6, <1>7, <1>9 DEF Sound, t, new, e

\* A new image with the symbols its files hold.
LEMMA NewImageState ==
  ASSUME NEW b \in Builds, NEW s, Sound(s, b), NEW m \in Modules, NEW h \in Bases
  PROVE  LET c == CreateImage(s, m, h)
             k == Len(c.images)
             r == ReLoadSymInfo(c, k, Defer, b)
         IN /\ Sound(r, b) /\ r.points = s.points /\ r.tmp = s.tmp
            /\ k = Len(s.images) + 1 /\ k \in DOMAIN r.images
            /\ r.images = Append(s.images, r.images[k])
            /\ r.images[k] \in Image /\ ImageOK(r.images[k], b)
            /\ r.images[k].name = m /\ r.images[k].handle = h
            /\ r.images[k].syms = HasSymbols(m, Defer)
<1> DEFINE c == CreateImage(s, m, h)
           k == Len(c.images)
           r == ReLoadSymInfo(c, k, Defer, b)
           z == Blank(m, h)
           e == ReLoaded(z, Defer, b)
<1>1. h \in 0..MaxBase /\ Defer \in BOOLEAN
  BY FlagsAssumption, Bounds DEF Bases
<1>2. /\ Sound(c, b) /\ c.images = Append(s.images, z)
      /\ c.points = s.points /\ c.tmp = s.tmp /\ z \in Image
  BY <1>1, CreateState
<1>3. s.images \in Seq(Image)
  BY StateFields DEF Sound
<1>4. /\ k = Len(s.images) + 1 /\ c.images[k] = z /\ k \in DOMAIN c.images
      /\ DOMAIN s.images = 1..Len(s.images) /\ Len(s.images) \in Nat
      /\ \A i \in 1..Len(s.images) : c.images[i] = s.images[i]
  BY <1>2, <1>3, AppendRight
<1>5. z.name = m /\ z.handle = h /\ z.map = <<>> /\ z.syms = FALSE
  BY DEF Blank
<1>6. /\ e \in Image /\ ImageOK(e, b) /\ e.name = m /\ e.handle = h
      /\ e.syms = HasSymbols(m, Defer)
  BY <1>1, <1>2, <1>5, ReLoadedRight
<1>7. r = Replace(c, k, e)
  BY <1>4 DEF ReLoadSymInfo, ReLoaded, Replace
<1> HIDE DEF c, k, r, z, e
<1>8. /\ Sound(r, b) /\ DOMAIN r.images = DOMAIN c.images /\ r.images[k] = e
      /\ \A j \in DOMAIN c.images : j # k => r.images[j] = c.images[j]
      /\ r.points = c.points /\ r.tmp = c.tmp
  <2>1. ~c.images[k].syms
    BY <1>4, <1>5
  <2>2. Sound(r, b) /\ Replaced(c, r, k, e)
    BY <1>2, <1>4, <1>6, <1>7, <2>1, ReplaceState
  <2> QED
    BY <2>2 DEF Replaced
<1>9. r.images = Append(s.images, e)
  <2> DEFINE a == Append(s.images, e)
  <2>1. /\ a \in Seq(Image) /\ Len(a) = k /\ a[k] = e
        /\ \A i \in 1..Len(s.images) : a[i] = s.images[i]
    BY <1>3, <1>4, <1>6, AppendRight
  <2>2. r.images \in Seq(Image) /\ c.images \in Seq(Image)
    BY <1>2, <1>8, StateFields DEF Sound
  <2>3. DOMAIN c.images = 1..k
    BY <1>2, <1>3, <1>4, AppendRight
  <2>4. Len(r.images) = k
    BY <1>4, <1>8, <2>2, <2>3, LenProperties
  <2>5. \A i \in 1..k : i = k \/ i \in 1..Len(s.images)
    BY <1>4
  <2> HIDE DEF a
  <2>6. \A i \in 1..k : r.images[i] = a[i]
    BY <1>4, <1>8, <2>1, <2>3, <2>5
  <2>7. r.images = a
    BY <2>1, <2>2, <2>4, <2>6, SeqEqual
  <2> QED
    BY <2>7 DEF a
<1> QED
  BY <1>2, <1>4, <1>6, <1>8, <1>9 DEF c, k, r

\* A library that loads.
LEMMA LibLoadedRight ==
  ASSUME NEW b \in Builds, NEW s, Sound(s, b), NEW m \in Modules, NEW h \in Bases
  PROVE  Sound(LibLoaded(s, m, h, b), b) /\ Comes(s, LibLoaded(s, m, h, b), m, h, b)
<1> DEFINE c == CreateImage(s, m, h)
           k == Len(c.images)
           r == ReLoadSymInfo(c, k, Defer, b)
           e == r.images[k]
           t == LibLoaded(s, m, h, b)
<1>1. /\ Sound(r, b) /\ r.points = s.points /\ r.tmp = s.tmp
      /\ k = Len(s.images) + 1 /\ k \in DOMAIN r.images /\ r.images = Append(s.images, e)
      /\ e \in Image /\ ImageOK(e, b) /\ e.name = m /\ e.handle = h
      /\ e.syms = HasSymbols(m, Defer)
  BY NewImageState
<1>2. t = IF e.syms THEN ReMapPoints(r, k) ELSE r
  BY DEF LibLoaded, InitImageInfo
<1>3. s.images \in Seq(Image)
  BY StateFields DEF Sound
<1> HIDE DEF c, k, r, e, t
<1>4. /\ DOMAIN s.images = 1..Len(s.images) /\ Len(s.images) \in Nat
      /\ DOMAIN r.images = 1..(Len(s.images) + 1) /\ r.images[k] = e
      /\ \A i \in 1..Len(s.images) : r.images[i] = s.images[i]
  BY <1>1, <1>3, AppendRight
<1> DEFINE u == ReMapPoints(r, k)
<1>5. Sound(u, b) /\ u.images = r.images /\ ReMappedAll(r, u, r.images, k)
  BY <1>1, ReMapState
<1> HIDE DEF u
<1>6. /\ Sound(t, b) /\ t.images = r.images
      /\ ReMappedAll(s, t, r.images, k) \/ (~e.syms /\ t.points = s.points)
  BY <1>1, <1>2, <1>5 DEF ReMappedAll, u
<1>7. Arrives(s, t, k)
  <2>1. \A j \in DOMAIN s.images : j \in DOMAIN r.images /\ j # k /\ r.images[j] = s.images[j]
    BY <1>1, <1>4
  <2>2. \A j \in DOMAIN r.images : j # k => j \in DOMAIN s.images
    BY <1>1, <1>4
  <2> QED
    BY <1>1, <1>4, <1>6, <2>1, <2>2 DEF Arrives
<1> QED
  BY <1>1, <1>6, <1>7 DEF Comes, t

\* The program; its image is always initialised.
LEMMA DoLoadProgRight ==
  ASSUME NEW b \in Builds, NEW s, Sound(s, b), NEW m \in Modules, NEW h \in Bases
  PROVE  /\ Sound(DoLoadProg(s, m, h, b), b) /\ Comes(s, DoLoadProg(s, m, h, b), m, h, b)
<1> DEFINE c == CreateImage(s, m, h)
           k == Len(c.images)
           r == ReLoadSymInfo(c, k, Defer, b)
           e == r.images[k]
           t == DoLoadProg(s, m, h, b)
<1>1. /\ Sound(r, b) /\ r.points = s.points /\ r.tmp = s.tmp
      /\ k = Len(s.images) + 1 /\ k \in DOMAIN r.images /\ r.images = Append(s.images, e)
      /\ e \in Image /\ ImageOK(e, b) /\ e.name = m /\ e.handle = h
      /\ e.syms = HasSymbols(m, Defer)
  BY NewImageState
<1>2. t = ReMapPoints(r, k)
  BY DEF DoLoadProg, InitImageInfo
<1>3. s.images \in Seq(Image)
  BY StateFields DEF Sound
<1> HIDE DEF c, k, r, e, t
<1>4. /\ DOMAIN s.images = 1..Len(s.images) /\ Len(s.images) \in Nat
      /\ DOMAIN r.images = 1..(Len(s.images) + 1) /\ r.images[k] = e
      /\ \A i \in 1..Len(s.images) : r.images[i] = s.images[i]
  BY <1>1, <1>3, AppendRight
<1>5. Sound(t, b) /\ t.images = r.images /\ ReMappedAll(r, t, r.images, k)
  BY <1>1, <1>2, ReMapState
<1>6. ReMappedAll(s, t, r.images, k)
  BY <1>1, <1>5 DEF ReMappedAll
<1>7. Arrives(s, t, k)
  <2>1. \A j \in DOMAIN s.images : j \in DOMAIN r.images /\ j # k /\ r.images[j] = s.images[j]
    BY <1>1, <1>4
  <2>2. \A j \in DOMAIN r.images : j # k => j \in DOMAIN s.images
    BY <1>1, <1>4
  <2> QED
    BY <1>1, <1>4, <1>5, <1>6, <2>1, <2>2 DEF Arrives
<1> QED
  BY <1>1, <1>5, <1>7 DEF Comes, t

\* A library that unloads: nothing, or its image goes.
LEMMA LibUnloadedRight ==
  ASSUME NEW b \in Builds, NEW s, Sound(s, b), NEW h
  PROVE  LET t == LibUnloaded(s, h) IN
         /\ Sound(t, b)
         /\ \/ t = s /\ \A k \in DOMAIN s.images : s.images[k].handle = h =>
                          \E j \in DOMAIN s.images : s.images[j].handle = h /\ ~s.images[j].syms
            \/ \E k \in DOMAIN s.images :
                 /\ s.images[k].handle = h /\ s.images[k].syms
                 /\ \A j \in DOMAIN s.images : s.images[j].handle = h => k <= j
                 /\ t.images = RemoveAt(s.images, k) /\ UnMappedAll(s, t, k)
<1> DEFINE H == {k \in DOMAIN s.images : s.images[k].handle = h}
           k == First(H)
           t == LibUnloaded(s, h)
<1>1. ImagesOK(s.images, b)
  BY DEF Sound
<1>2. H \in SUBSET Nat /\ 0 \notin H
  BY <1>1, ImageType
<1>3. (H = {} => k = 0) /\ (H # {} => k \in H /\ \A j \in H : k <= j)
  BY <1>2, FirstIsLeast
<1>4. t = IF k = 0 \/ ~s.images[k].syms THEN s ELSE FreeImage(s, k)
  BY DEF LibUnloaded
<1> HIDE DEF k, t
<1>5. CASE k = 0 \/ ~s.images[k].syms
  <2>1. t = s
    BY <1>4, <1>5
  <2>2. ASSUME NEW j \in DOMAIN s.images, s.images[j].handle = h
        PROVE  \E i \in DOMAIN s.images : s.images[i].handle = h /\ ~s.images[i].syms
    <3>1. j \in H
      BY <2>2
    <3>2. k \in H /\ k # 0
      BY <1>2, <1>3, <3>1
    <3> QED
      BY <1>5, <3>2
  <2> QED
    BY <2>1, <2>2 DEF t
<1>6. CASE k # 0 /\ s.images[k].syms
  <2>1. k \in DOMAIN s.images /\ s.images[k].handle = h /\ \A j \in H : k <= j
    BY <1>3, <1>6
  <2> DEFINE u == FreeImage(s, k)
  <2>2. Sound(u, b) /\ u.images = RemoveAt(s.images, k) /\ UnMappedAll(s, u, k)
    BY <2>1, FreeState
  <2>3. t = u
    BY <1>4, <1>6
  <2> HIDE DEF u
  <2> QED
    BY <1>6, <2>1, <2>2, <2>3 DEF t
<1> QED
  BY <1>5, <1>6

\* Deferred symbols that are loaded after all.
LEMMA LoadDeferredImageRight ==
  ASSUME NEW b \in Builds, NEW s, Sound(s, b), NEW k \in DOMAIN s.images
  PROVE  LET t == LoadDeferredImage(s, k, b) IN
         /\ Sound(t, b) /\ DOMAIN t.images = DOMAIN s.images
         /\ t = s \/ (s.images[k].deferred /\ Arrives(s, t, k))
<1> DEFINE q == s.images[k]
           e == ReLoaded(q, FALSE, b)
           r == Replace(s, k, e)
           u == ReMapPoints(r, k)
           t == LoadDeferredImage(s, k, b)
<1>1. q \in Image /\ ImageOK(q, b)
  BY ImageType DEF Sound
<1>2. CASE ~q.deferred
  <2>1. t = s
    BY <1>2 DEF LoadDeferredImage
  <2> QED
    BY <2>1
<1>3. CASE q.deferred
  <2>1. /\ q.name \in Modules /\ q.handle \in Bases /\ q.map = <<>> /\ ~q.syms
        /\ Symbols[q.name] # "full"
    BY <1>1, <1>3 DEF ImageOK
  <2>2. e \in Image /\ ImageOK(e, b) /\ e.name = q.name /\ e.handle = q.handle
    BY <1>1, <2>1, ReLoadedRight
  <2>3. t = IF r.images[k].syms THEN u ELSE r
    BY <1>3 DEF LoadDeferredImage, ReLoadSymInfo, ReLoaded, InitImageInfo, Replace
  <2> HIDE DEF e
  <2>4. /\ Sound(r, b) /\ DOMAIN r.images = DOMAIN s.images /\ r.images[k] = e
        /\ \A j \in DOMAIN s.images : j # k => r.images[j] = s.images[j]
        /\ r.points = s.points /\ r.tmp = s.tmp
    <3>1. Sound(r, b) /\ Replaced(s, r, k, e)
      BY <2>1, <2>2, ReplaceState
    <3> QED
      BY <3>1 DEF Replaced
  <2> HIDE DEF r
  <2>5. Sound(u, b) /\ u.images = r.images /\ ReMappedAll(r, u, r.images, k)
    BY <2>4, ReMapState
  <2> HIDE DEF u, t
  <2>6. /\ Sound(t, b) /\ t.images = r.images
        /\ ReMappedAll(s, t, r.images, k) \/ (~e.syms /\ t.points = s.points)
    BY <2>3, <2>4, <2>5 DEF ReMappedAll
  <2>7. Arrives(s, t, k)
    BY <2>1, <2>2, <2>4, <2>6 DEF Arrives
  <2>8. DOMAIN t.images = DOMAIN s.images
    BY <2>4, <2>6
  <2> QED
    BY <1>3, <2>6, <2>7, <2>8 DEF t
<1> QED
  BY <1>2, <1>3

-------------------------------------------------------------------------------
(* The loops over images.  What holds before a loop and after each round holds *)
(* after it: F[i] is what holds after i rounds.                            *)

\* Freeing the images one by one.
LEMMA ReleaseLoop ==
  ASSUME NEW b \in Builds, NEW s, Sound(s, b), NEW F, s \in F[0],
         \A i \in 1..Len(s.images) : \A t \in F[i - 1] :
           Sound(t, b) /\ 1 \in DOMAIN t.images => FreeImage(t, 1) \in F[i]
  PROVE  LET t == ReleaseProgOvlay(s) IN
         Sound(t, b) /\ t.images = <<>> /\ t \in F[Len(s.images)]
<1> DEFINE n == Len(s.images)
           G == [i \in 0..n |-> {t \in States : t \in F[i] /\ Sound(t, b) /\ Len(t.images) = n - i}]
           step == [p \in (1..n) \X States |->
                      IF p[2] \in G[p[1] - 1] THEN FreeImage(p[2], 1) ELSE s]
           P(g) == g = [i \in 0..n |-> IF i = 0 THEN s ELSE FreeImage(g[i - 1], 1)]
           h == CHOOSE g : P(g)
<1>1. s \in States /\ n \in Nat
  BY StateFields, LenProperties DEF Sound
<1>2. s \in G[0] /\ \A i \in 0..n : G[i] \subseteq States
  BY <1>1
<1>3. ASSUME NEW i \in 1..n, NEW t \in G[i - 1] PROVE FreeImage(t, 1) \in G[i]
  <2>1. i - 1 \in 0..n /\ i \in 0..n /\ n - (i - 1) \in Nat /\ n - (i - 1) >= 1
    BY <1>1
  <2>2. t \in States /\ t \in F[i - 1] /\ Sound(t, b) /\ Len(t.images) = n - (i - 1)
    BY <2>1
  <2>3. t.images \in Seq(Image) /\ DOMAIN t.images = 1..(n - (i - 1)) /\ 1 \in DOMAIN t.images
    <3>1. t.images \in Seq(Image)
      BY <2>2, StateFields
    <3>2. DOMAIN t.images = 1..Len(t.images)
      BY <3>1, LenProperties
    <3> QED
      BY <2>1, <2>2, <3>1, <3>2
  <2> HIDE DEF G
  <2>4. \A j \in DOMAIN t.images : 1 <= j
    BY <2>3
  <2>5. Sound(FreeImage(t, 1), b) /\ FreeImage(t, 1).images = RemoveAt(t.images, 1)
    BY <2>2, <2>3, <2>4, FreeState
  <2>6. Len(RemoveAt(t.images, 1)) = n - i
    <3>1. 1 \in 1..Len(t.images)
      BY <2>1, <2>2
    <3>2. Len(RemoveAt(t.images, 1)) = Len(t.images) - 1
      BY <2>3, <3>1, RemoveAtProperties
    <3>3. \A x, y \in Int : (x - (y - 1)) - 1 = x - y
      OBVIOUS
    <3> HIDE DEF n
    <3> QED
      BY <1>1, <2>2, <3>2, <3>3
  <2>7. FreeImage(t, 1) \in F[i]
    BY <2>2, <2>3
  <2>8. FreeImage(t, 1) \in States
    BY <2>5 DEF Sound
  <2> QED
    BY <2>1, <2>5, <2>6, <2>7, <2>8 DEF G
<1> HIDE DEF G
<1>4. step \in [(1..n) \X States -> States]
  <2>1. \A i \in 1..n : \A t \in States : t \in G[i - 1] => FreeImage(t, 1) \in States
    <3>1. \A i \in 1..n : i \in 0..n
      BY <1>1
    <3> QED
      BY <1>2, <1>3, <3>1
  <2> QED
    BY <1>1, <2>1
<1>5. \A i \in 1..n : \A t \in States :
        step[<<i, t>>] = IF t \in G[i - 1] THEN FreeImage(t, 1) ELSE s
  OBVIOUS
<1> HIDE DEF step
<1>6. \A i \in 1..n : \A t \in G[i - 1] : step[<<i, t>>] \in G[i]
  <2>1. \A i \in 1..n : i - 1 \in 0..n
    BY <1>1
  <2> QED
    BY <1>2, <1>3, <1>5, <2>1
<1>7. PICK f : Recursive(f, n, States, s, step) /\ \A i \in 0..n : f[i] \in G[i]
  BY <1>1, <1>2, <1>4, <1>6, RecursionInFamily
<1>8. f = [i \in 0..n |-> f[i]] /\ f[0] = s /\ \A i \in 1..n : f[i] = FreeImage(f[i - 1], 1)
  <2>1. \A i \in 1..n : i - 1 \in 0..n
    BY <1>1
  <2>2. \A i \in 1..n : f[i - 1] \in States /\ f[i - 1] \in G[i - 1]
    BY <1>2, <1>7, <2>1
  <2> QED
    BY <1>5, <1>7, <2>2 DEF Recursive
<1>9. P(f)
  <2>1. \A i \in 0..n : i # 0 => i \in 1..n
    BY <1>1
  <2> QED
    BY <1>8, <2>1
<1>10. P(h)
  <2> HIDE DEF P
  <2> QED
    BY <1>9
<1>11. ReleaseProgOvlay(s) = h[n]
  BY DEF ReleaseProgOvlay
<1> HIDE DEF h
<1>12. \A i \in 1..n : h[i] = FreeImage(h[i - 1], 1)
  BY <1>1, <1>10
<1>13. h[0] \in G[0] /\ \A i \in 1..n : h[i - 1] \in G[i - 1] => h[i] \in G[i]
  BY <1>1, <1>2, <1>3, <1>10, <1>12
<1>14. \A i \in 0..n : h[i] \in G[i]
  BY <1>1, <1>13, FamilyInduction
<1>16. h[n] \in G[n] /\ n \in 0..n
  BY <1>1, <1>14
<1>17. h[n] \in F[n] /\ Sound(h[n], b) /\ Len(h[n].images) = 0
  BY <1>1, <1>16 DEF G
<1>18. h[n].images = <<>>
  <2>1. h[n].images \in Seq(Image)
    BY <1>17, StateFields DEF Sound
  <2> QED
    BY <1>17, <2>1, EmptySeq
<1> QED
  BY <1>11, <1>17, <1>18 DEF n

\* What the start-up does for the library at base c.
StartLib(t, at, c, b) == IF at[c] = None THEN t ELSE LibLoaded(t, at[c], c, b)

\* The program and the libraries it starts with.
LEMMA LoadLoop ==
  ASSUME NEW b \in Builds, NEW s, Sound(s, b), NEW m \in Modules, NEW pb \in Bases,
         NEW at \in [Bases -> Libs \cup {None}], NEW F, DoLoadProg(s, m, pb, b) \in F[0],
         \A c \in Bases : \A t \in F[c - 1] : Sound(t, b) => StartLib(t, at, c, b) \in F[c]
  PROVE  LET t == LoadProg(s, m, pb, at, b) IN Sound(t, b) /\ t \in F[MaxBase]
<1> DEFINE n == MaxBase
           base == DoLoadProg(s, m, pb, b)
           G == [i \in 0..n |-> {t \in States : t \in F[i] /\ Sound(t, b)}]
           step == [p \in (1..n) \X States |->
                      IF p[2] \in G[p[1] - 1] THEN StartLib(p[2], at, p[1], b) ELSE base]
           P(g) == g = [i \in 0..n |-> IF i = 0 THEN base
                                       ELSE IF at[i] = None THEN g[i - 1]
                                       ELSE LibLoaded(g[i - 1], at[i], i, b)]
           h == CHOOSE g : P(g)
<1>1. n \in Nat /\ Bases = 1..n /\ base \in States /\ Sound(base, b)
  <2>1. Sound(base, b)
    BY DoLoadProgRight
  <2> QED
    BY <2>1, Bounds DEF Sound, Bases
<1> HIDE DEF base
<1>2. base \in G[0] /\ \A i \in 0..n : G[i] \subseteq States
  BY <1>1 DEF base
<1>3. ASSUME NEW i \in 1..n, NEW t \in G[i - 1] PROVE StartLib(t, at, i, b) \in G[i]
  <2>1. i - 1 \in 0..n /\ i \in 0..n /\ i \in Bases
    BY <1>1
  <2>2. t \in States /\ t \in F[i - 1] /\ Sound(t, b)
    BY <2>1
  <2>3. Sound(StartLib(t, at, i, b), b)
    <3>1. CASE at[i] = None
      BY <2>2, <3>1 DEF StartLib
    <3>2. CASE at[i] # None
      <4>1. at[i] \in Modules
        BY <2>1, <3>2 DEF Modules
      <4> QED
        BY <2>1, <2>2, <3>2, <4>1, LibLoadedRight DEF StartLib
    <3> QED
      BY <3>1, <3>2
  <2>4. StartLib(t, at, i, b) \in F[i] /\ StartLib(t, at, i, b) \in States
    BY <2>1, <2>2, <2>3 DEF Sound
  <2> QED
    BY <2>1, <2>3, <2>4
<1> HIDE DEF G
<1>4. step \in [(1..n) \X States -> States]
  <2>1. \A i \in 1..n : \A t \in States : t \in G[i - 1] => StartLib(t, at, i, b) \in States
    <3>1. \A i \in 1..n : i \in 0..n
      BY <1>1
    <3> QED
      BY <1>2, <1>3, <3>1
  <2> QED
    BY <1>1, <2>1
<1>5. \A i \in 1..n : \A t \in States :
        step[<<i, t>>] = IF t \in G[i - 1] THEN StartLib(t, at, i, b) ELSE base
  OBVIOUS
<1> HIDE DEF step
<1>6. \A i \in 1..n : \A t \in G[i - 1] : step[<<i, t>>] \in G[i]
  <2>1. \A i \in 1..n : i - 1 \in 0..n
    BY <1>1
  <2> QED
    BY <1>2, <1>3, <1>5, <2>1
<1>7. PICK f : Recursive(f, n, States, base, step) /\ \A i \in 0..n : f[i] \in G[i]
  BY <1>1, <1>2, <1>4, <1>6, RecursionInFamily
<1>8. /\ f = [i \in 0..n |-> f[i]] /\ f[0] = base
      /\ \A i \in 1..n : f[i] = StartLib(f[i - 1], at, i, b)
  <2>1. \A i \in 1..n : i - 1 \in 0..n
    BY <1>1
  <2>2. \A i \in 1..n : f[i - 1] \in States /\ f[i - 1] \in G[i - 1]
    BY <1>2, <1>7, <2>1
  <2> QED
    BY <1>5, <1>7, <2>2 DEF Recursive
<1>9. P(f)
  <2>1. \A i \in 0..n : i # 0 => i \in 1..n
    BY <1>1
  <2> QED
    BY <1>8, <2>1 DEF StartLib
<1>10. P(h)
  <2> HIDE DEF P
  <2> QED
    BY <1>9
<1>11. LoadProg(s, m, pb, at, b) = h[n]
  BY DEF LoadProg, base
<1> HIDE DEF h
<1>12. h[0] = base /\ \A i \in 1..n : h[i] = StartLib(h[i - 1], at, i, b)
  BY <1>1, <1>10 DEF StartLib
<1>13. h[0] \in G[0] /\ \A i \in 1..n : h[i - 1] \in G[i - 1] => h[i] \in G[i]
  BY <1>2, <1>3, <1>12
<1>14. \A i \in 0..n : h[i] \in G[i]
  BY <1>1, <1>13, FamilyInduction
<1>15. h[n] \in G[n] /\ n \in 0..n
  BY <1>1, <1>14
<1> QED
  BY <1>11, <1>15 DEF G

\* The images whose symbols were put off.
LEMMA DeferredLoop ==
  ASSUME NEW b \in Builds, NEW s, Sound(s, b), NEW F, s \in F[0],
         \A k \in DOMAIN s.images : \A t \in F[k - 1] :
           Sound(t, b) /\ DOMAIN t.images = DOMAIN s.images => LoadDeferredImage(t, k, b) \in F[k]
  PROVE  LET t == LoadDeferred(s, b) IN
         Sound(t, b) /\ DOMAIN t.images = DOMAIN s.images /\ t \in F[Len(s.images)]
<1> DEFINE n == Len(s.images)
           Ok(t) == Sound(t, b) /\ DOMAIN t.images = DOMAIN s.images
           G == [i \in 0..n |-> {t \in States : t \in F[i] /\ Ok(t)}]
           step == [p \in (1..n) \X States |->
                      IF p[2] \in G[p[1] - 1] THEN LoadDeferredImage(p[2], p[1], b) ELSE s]
           P(g) == g = [i \in 0..n |-> IF i = 0 THEN s ELSE LoadDeferredImage(g[i - 1], i, b)]
           h == CHOOSE g : P(g)
<1>1. n \in Nat /\ DOMAIN s.images = 1..n /\ s \in States /\ Ok(s)
  BY StateFields, LenProperties DEF Sound
<1>2. s \in G[0] /\ \A i \in 0..n : G[i] \subseteq States
  BY <1>1
<1>3. ASSUME NEW i \in 1..n, NEW t \in G[i - 1] PROVE LoadDeferredImage(t, i, b) \in G[i]
  <2>1. i - 1 \in 0..n /\ i \in 0..n /\ i \in DOMAIN s.images
    BY <1>1
  <2>2. t \in States /\ t \in F[i - 1] /\ Ok(t)
    BY <2>1
  <2>3. Ok(LoadDeferredImage(t, i, b))
    BY <2>1, <2>2, LoadDeferredImageRight
  <2>4. LoadDeferredImage(t, i, b) \in F[i] /\ LoadDeferredImage(t, i, b) \in States
    BY <2>1, <2>2, <2>3 DEF Sound
  <2> QED
    BY <2>1, <2>3, <2>4
<1> HIDE DEF G
<1>4. step \in [(1..n) \X States -> States]
  <2>1. \A i \in 1..n : \A t \in States : t \in G[i - 1] => LoadDeferredImage(t, i, b) \in States
    <3>1. \A i \in 1..n : i \in 0..n
      BY <1>1
    <3> QED
      BY <1>2, <1>3, <3>1
  <2> QED
    BY <1>1, <2>1
<1>5. \A i \in 1..n : \A t \in States :
        step[<<i, t>>] = IF t \in G[i - 1] THEN LoadDeferredImage(t, i, b) ELSE s
  OBVIOUS
<1> HIDE DEF step
<1>6. \A i \in 1..n : \A t \in G[i - 1] : step[<<i, t>>] \in G[i]
  <2>1. \A i \in 1..n : i - 1 \in 0..n
    BY <1>1
  <2> QED
    BY <1>2, <1>3, <1>5, <2>1
<1>7. PICK f : Recursive(f, n, States, s, step) /\ \A i \in 0..n : f[i] \in G[i]
  BY <1>1, <1>2, <1>4, <1>6, RecursionInFamily
<1>8. /\ f = [i \in 0..n |-> f[i]] /\ f[0] = s
      /\ \A i \in 1..n : f[i] = LoadDeferredImage(f[i - 1], i, b)
  <2>1. \A i \in 1..n : i - 1 \in 0..n
    BY <1>1
  <2>2. \A i \in 1..n : f[i - 1] \in States /\ f[i - 1] \in G[i - 1]
    BY <1>2, <1>7, <2>1
  <2> QED
    BY <1>5, <1>7, <2>2 DEF Recursive
<1>9. P(f)
  <2>1. \A i \in 0..n : i # 0 => i \in 1..n
    BY <1>1
  <2> QED
    BY <1>8, <2>1
<1>10. P(h)
  <2> HIDE DEF P
  <2> QED
    BY <1>9
<1>11. LoadDeferred(s, b) = h[n]
  BY DEF LoadDeferred
<1> HIDE DEF h
<1>12. h[0] = s /\ \A i \in 1..n : h[i] = LoadDeferredImage(h[i - 1], i, b)
  BY <1>1, <1>10
<1>13. h[0] \in G[0] /\ \A i \in 1..n : h[i - 1] \in G[i - 1] => h[i] \in G[i]
  BY <1>2, <1>3, <1>12
<1>14. \A i \in 0..n : h[i] \in G[i]
  BY <1>1, <1>13, FamilyInduction
<1>15. h[n] \in G[n] /\ n \in 0..n
  BY <1>1, <1>14
<1> QED
  BY <1>11, <1>15 DEF G

-------------------------------------------------------------------------------
(* The table as the user changes it. *)

ListOK(imgs, list) == list \in Seq(Point) /\ \A i \in DOMAIN list : PointOK(imgs, list[i])

\* Setting, mapping, adding and removing keeps a list of points good.
LEMMA ListSet ==
  ASSUME NEW imgs, NEW list, ListOK(imgs, list), NEW i \in DOMAIN list,
         NEW p \in Point, PointOK(imgs, p)
  PROVE  ListOK(imgs, [list EXCEPT ![i] = p])
<1>1. list \in Seq(Point) /\ DOMAIN list = 1..Len(list)
  BY LenProperties DEF ListOK
<1> DEFINE new == [list EXCEPT ![i] = p]
<1>2. new \in Seq(Point) /\ DOMAIN new = DOMAIN list
  BY <1>1, ExceptSeq
<1>3. \A j \in DOMAIN list : new[j] = IF j = i THEN p ELSE list[j]
  OBVIOUS
<1> HIDE DEF new
<1> QED
  BY <1>2, <1>3 DEF ListOK, new

\* The same, for every point at once.
LEMMA ListMap ==
  ASSUME NEW imgs, NEW list \in Seq(Point), NEW new, new = [i \in DOMAIN list |-> new[i]],
         \A i \in DOMAIN list : new[i] \in Point /\ PointOK(imgs, new[i])
  PROVE  ListOK(imgs, new) /\ DOMAIN new = DOMAIN list
BY MappedSeq DEF ListOK

\* The same, for a new point.
LEMMA ListAppend ==
  ASSUME NEW imgs, NEW list, ListOK(imgs, list), NEW p \in Point, PointOK(imgs, p)
  PROVE  ListOK(imgs, Append(list, p))
<1>1. list \in Seq(Point)
  BY DEF ListOK
<1> DEFINE new == Append(list, p)
<1>2. /\ new \in Seq(Point) /\ DOMAIN list = 1..Len(list) /\ Len(list) \in Nat
      /\ DOMAIN new = 1..(Len(list) + 1)
      /\ new[Len(list) + 1] = p /\ \A i \in 1..Len(list) : new[i] = list[i]
  BY <1>1, AppendRight
<1> HIDE DEF new
<1>3. \A i \in DOMAIN new : i = Len(list) + 1 \/ i \in DOMAIN list
  BY <1>2
<1> QED
  BY <1>2, <1>3 DEF ListOK, new

\* The same, for a point that is removed.
LEMMA ListRemove ==
  ASSUME NEW imgs, NEW list, ListOK(imgs, list), NEW k \in DOMAIN list
  PROVE  ListOK(imgs, RemoveAt(list, k))
<1>1. list \in Seq(Point) /\ DOMAIN list = 1..Len(list) /\ Len(list) \in Nat
  BY LenProperties DEF ListOK
<1> DEFINE new == RemoveAt(list, k)
<1>2. /\ new \in Seq(Point) /\ Len(new) = Len(list) - 1
      /\ \A i \in 1..(Len(list) - 1) : new[i] = list[IF i < k THEN i ELSE i + 1]
  BY <1>1, RemoveAtProperties
<1>3. DOMAIN new = 1..(Len(list) - 1)
  BY <1>2, LenProperties
<1> HIDE DEF new
<1>4. \A i \in DOMAIN new : (IF i < k THEN i ELSE i + 1) \in DOMAIN list
  BY <1>1, <1>3
<1> QED
  BY <1>2, <1>3, <1>4 DEF ListOK, new

\* Switching a point on or off, counting it, does not move it.
LEMMA StatusOnly ==
  ASSUME NEW imgs, NEW p \in Point, PointOK(imgs, p), NEW x \in BOOLEAN
  PROVE  /\ [p EXCEPT !.active = x] \in Point /\ PointOK(imgs, [p EXCEPT !.active = x])
         /\ [p EXCEPT !.counted = x] \in Point /\ PointOK(imgs, [p EXCEPT !.counted = x])
<1>1. ASSUME NEW q \in Point, q.loc = p.loc, q.locimg = p.locimg, q.name = p.name,
             q.unmapped = p.unmapped
      PROVE  PointOK(imgs, q)
  BY <1>1 DEF PointOK
<1>2. [p EXCEPT !.active = x] \in Point /\ [p EXCEPT !.counted = x] \in Point
  BY DEF Point
<1> QED
  BY <1>1, <1>2 DEF Point

\* The place the user means is the one the debugger shows for the address.
LEMMA HomeRight ==
  ASSUME ImagesOK(images, build), mem \in [Bases -> Modules \cup {None}], NEW a
  PROVE  /\ Home(a) \in [img : Modules, at : Place] \cup {None}
         /\ Home(a) # None =>
              LET own == DeAliasAddrMod(images, a) IN
              /\ own \in DOMAIN images /\ Covers(images[own], a)
              /\ Home(a).img = images[own].name /\ Home(a).at = PlaceOf(images[own], a)
              /\ mem[images[own].handle] = images[own].name
<1> DEFINE own == DeAliasAddrMod(images, a)
           H == PlacesIn(a)
           h == CHOOSE x \in H : TRUE
<1>1. CASE own = 0 \/ images[own].name # mem[BaseOf(a)]
  BY <1>1 DEF Home
<1>2. CASE own # 0 /\ images[own].name = mem[BaseOf(a)]
  <2> DEFINE image == images[own]
             at == PlaceOf(image, a)
  <2>1. own \in DOMAIN images /\ Covers(image, a) /\ ImageOK(image, build)
    BY <1>2, DeAlias, ImageType
  <2>2. image.handle \in Bases /\ image.name \in Modules /\ at \in Place /\ At(image.handle, at) = a
    BY <2>1, CoversPlace
  <2> HIDE DEF image, at
  <2>3. ASSUME NEW x \in Bases, NEW p \in Place, At(x, p) = a
        PROVE  x = image.handle /\ p = at
    BY <2>2, <2>3, AtInjective
  <2>4. BaseOf(a) = image.handle
    <3>1. BaseOf(a) \in Bases /\ \E p \in Place : At(BaseOf(a), p) = a
      BY <2>2 DEF BaseOf
    <3> QED
      BY <2>3, <3>1
  <2>5. mem[image.handle] = image.name
    BY <1>2, <2>4 DEF image
  <2>6. <<image.name, at>> \in H
    BY <2>2, <2>5 DEF PlacesIn
  <2>7. h \in H
    BY <2>6
  <2> HIDE DEF h
  <2>8. h \in Modules \X Place /\ \E x \in Bases : mem[x] = h[1] /\ At(x, h[2]) = a
    BY <2>7 DEF PlacesIn
  <2>9. h[1] = image.name /\ h[2] = at
    BY <2>3, <2>5, <2>8
  <2>10. Home(a) = [img |-> h[1], at |-> h[2]]
    BY <1>2 DEF Home, h
  <2> QED
    BY <2>1, <2>2, <2>5, <2>9, <2>10 DEF image, at
<1> QED
  BY <1>1, <1>2

\* What the user can point at is an address.
LEMMA VisibleAddress ==
  ASSUME NEW a \in Visible
  PROVE  a \in Address
BY AtAddress DEF Visible

\* What AddPoint of an address makes.
LEMMA NewPointRight ==
  ASSUME build \in Builds, ImagesOK(images, build), mem \in [Bases -> Modules \cup {None}],
         NEW a \in Address
  PROVE  LET p == NewPoint(a, images) IN
         /\ p \in Point /\ PointOK(images, p)
         /\ p = [ loc |-> a, locimg |-> None,
                  name |-> IF IsData(a) THEN None ELSE SymName(images, a),
                  watch |-> IsData(a), active |-> TRUE, unmapped |-> FALSE,
                  activate_on_remap |-> FALSE, counted |-> FALSE, home |-> Home(a) ]
<1> DEFINE home == Home(a)
           data == IsData(a)
           z == [ loc |-> a, locimg |-> None, name |-> None, watch |-> data,
                  active |-> TRUE, unmapped |-> FALSE, activate_on_remap |-> FALSE,
                  counted |-> FALSE, home |-> home ]
           r == SetPointAddr(z, a, images)
<1>1. home \in [img : Modules, at : Place] \cup {None} /\ data \in BOOLEAN
  BY HomeRight DEF IsData
<1>2. NewPoint(a, images) = r
  BY DEF NewPoint
<1> HIDE DEF home, data
<1>3. z \in Point /\ ~z.unmapped /\ z.locimg = None /\ z.watch = data
  BY <1>1 DEF Point
<1> DEFINE n == IF data THEN None ELSE SymName(images, a)
           q == [z EXCEPT !.loc = a, !.name = n]
<1>4. r \in Point /\ PointOK(images, r) /\ r = [z EXCEPT !.loc = a, !.name = n]
  <2>1. z.locimg = None
    BY <1>3
  <2> HIDE DEF z
  <2>2. /\ SetPointAddr(z, a, images) \in Point
        /\ SetPointAddr(z, a, images) =
             [z EXCEPT !.loc = a, !.name = IF z.watch THEN None ELSE SymName(images, a)]
        /\ PointOK(images, SetPointAddr(z, a, images))
    BY <1>3, <2>1, SetPointAddrRight
  <2> QED
    BY <1>3, <2>2
<1> HIDE DEF n, r
<1>5. r = [ loc |-> a, locimg |-> None, name |-> n, watch |-> data,
            active |-> TRUE, unmapped |-> FALSE, activate_on_remap |-> FALSE,
            counted |-> FALSE, home |-> home ]
  BY <1>4
<1> QED
  BY <1>2, <1>4, <1>5 DEF n, home, data

\* Points with the same fields are the same.
LEMMA PointEqual ==
  ASSUME NEW p \in Point, NEW q \in Point,
         p.loc = q.loc, p.locimg = q.locimg, p.name = q.name, p.watch = q.watch,
         p.active = q.active, p.unmapped = q.unmapped,
         p.activate_on_remap = q.activate_on_remap, p.counted = q.counted, p.home = q.home
  PROVE  p = q
BY DEF Point

\* The point of a command that names a line.
NamedPoint(c, junk) ==
  [ loc |-> junk, locimg |-> None, name |-> c.name, watch |-> c.watch,
    active |-> c.active, unmapped |-> TRUE, activate_on_remap |-> FALSE,
    counted |-> FALSE, home |-> None ]

\* What restoring leaves of the user's intentions: nothing but a name, and of a
\* watchpoint not even that.
Plain(q) == q.home = None /\ (~q.unmapped /\ q.name # None => ~q.watch)

\* What SetPoint makes of one command.
LEMMA SetPointOfRight ==
  ASSUME NEW b \in Builds, NEW imgs, ImagesOK(imgs, b), NEW list, ListOK(imgs, list),
         NEW c \in Command, c.locimg # None => c.name = None, NEW junk \in Address
  PROVE  /\ ListOK(imgs, SetPointOf(list, c, junk, imgs))
         /\ \E q \in Point : /\ SetPointOf(list, c, junk, imgs) = Append(list, q)
                             /\ c.name # None => q = NamedPoint(c, junk)
                             /\ Plain(q) /\ PointOK(imgs, q)
<1> DEFINE un == c.locimg # None \/ c.name # None
           loc == IF un THEN junk ELSE c.loc
           new == [ loc |-> loc, locimg |-> c.locimg, name |-> c.name, watch |-> c.watch,
                    active |-> TRUE, unmapped |-> un, activate_on_remap |-> FALSE,
                    counted |-> FALSE, home |-> None ]
           r == SetPointAddr(new, loc, imgs)
           q == [r EXCEPT !.active = c.active]
<1>1. /\ c.watch \in BOOLEAN /\ c.active \in BOOLEAN /\ c.name \in Name \cup {None}
      /\ c.locimg \in Modules \cup {None} /\ c.loc \in Address
  BY DEF Command
<1>2. loc \in Address /\ un \in BOOLEAN /\ (~un => c.locimg = None /\ c.name = None)
  BY <1>1
<1>3. SetPointOf(list, c, junk, imgs) = Append(list, q)
  BY DEF SetPointOf
<1>u. c.name # None => un /\ loc = junk /\ c.locimg = None
  OBVIOUS
<1> HIDE DEF un, loc
<1>4. new \in Point
  BY <1>1, <1>2 DEF Point
<1>5. new.unmapped = un /\ new.locimg = c.locimg /\ new.name = c.name /\ new.home = None
  OBVIOUS
<1>n. c.name # None => [new EXCEPT !.active = c.active] = NamedPoint(c, junk)
  <2> SUFFICES ASSUME c.name # None
               PROVE  [new EXCEPT !.active = c.active] = NamedPoint(c, junk)
    OBVIOUS
  <2> DEFINE p == [new EXCEPT !.active = c.active]
             d == NamedPoint(c, junk)
  <2>1. p \in Point /\ d \in Point
    BY <1>1, <1>4 DEF Point, NamedPoint
  <2>2. /\ p.loc = junk /\ p.locimg = None /\ p.name = c.name /\ p.watch = c.watch
        /\ p.active = c.active /\ p.unmapped = TRUE /\ p.activate_on_remap = FALSE
        /\ p.counted = FALSE /\ p.home = None
    BY <1>2, <1>u
  <2>3. /\ d.loc = junk /\ d.locimg = None /\ d.name = c.name /\ d.watch = c.watch
        /\ d.active = c.active /\ d.unmapped = TRUE /\ d.activate_on_remap = FALSE
        /\ d.counted = FALSE /\ d.home = None
    BY DEF NamedPoint
  <2> HIDE DEF p, d
  <2>4. p = d
    BY <2>1, <2>2, <2>3, PointEqual
  <2> QED
    BY <2>4 DEF p, d
<1> HIDE DEF new
<1>6. /\ r \in Point /\ (new.unmapped => r = new)
      /\ ~new.unmapped => /\ PointOK(imgs, r) /\ r.home = new.home
                          /\ r.name # None => ~r.watch
  <2>1. /\ r \in Point /\ (new.unmapped => r = new)
        /\ ~new.unmapped => /\ PointOK(imgs, r)
                            /\ r = [new EXCEPT !.loc = loc,
                                               !.name = IF new.watch THEN None ELSE SymName(imgs, loc)]
    <3>1. new.unmapped \/ new.locimg = None
      BY <1>2, <1>5
    <3> QED
      BY <1>2, <1>4, <3>1, SetPointAddrRight
  <2> HIDE DEF r
  <2> QED
    BY <1>4, <2>1 DEF Point
<1>7. PointOK(imgs, r) /\ r.home = None /\ (~r.unmapped /\ r.name # None => ~r.watch)
  <2>1. CASE un
    <3>1. r = new
      BY <1>5, <1>6, <2>1
    <3>2. c.locimg # None => c.name = None
      OBVIOUS
    <3> HIDE DEF r
    <3> QED
      BY <1>5, <2>1, <3>1, <3>2 DEF PointOK
  <2>2. CASE ~un
    BY <1>5, <1>6, <2>2
  <2> QED
    BY <2>1, <2>2
<1> HIDE DEF r
<1>8. q \in Point /\ PointOK(imgs, q) /\ Plain(q)
  <2>1. q \in Point /\ PointOK(imgs, q)
    BY <1>1, <1>6, <1>7, StatusOnly
  <2> QED
    BY <1>6, <1>7, <2>1 DEF Point, Plain
<1>9. c.name # None => q = NamedPoint(c, junk)
  BY <1>5, <1>6, <1>n, <1>u
<1> HIDE DEF q
<1>10. ListOK(imgs, Append(list, q))
  BY <1>8, ListAppend
<1> QED
  BY <1>3, <1>8, <1>9, <1>10

\* Restoring makes a table of commands in their order, the first one always.
LEMMA RestoredRight ==
  ASSUME NEW b \in Builds, NEW imgs, ImagesOK(imgs, b), NEW file \in Files,
         NEW junk \in [DOMAIN file -> Junk]
  PROVE  LET list == Restored(file, junk, imgs) IN
         /\ ListOK(imgs, list) /\ \A i \in DOMAIN list : Plain(list[i])
         /\ file # <<>> /\ file[1].name # None =>
              1 \in DOMAIN list /\ list[1] = NamedPoint(file[1], junk[1])
<1> DEFINE n == Len(file)
           S == [list : Seq(Point), stop : BOOLEAN]
           AllPlain(list) == \A i \in DOMAIN list : Plain(list[i])
           Begins(list) == file[1].name # None =>
                             1 \in DOMAIN list /\ list[1] = NamedPoint(file[1], junk[1])
           Next1(i, t) == IF t.stop \/ Exists(t.list, file[i]) THEN [t EXCEPT !.stop = TRUE]
                          ELSE [t EXCEPT !.list = SetPointOf(@, file[i], junk[i], imgs)]
           base == [list |-> <<>>, stop |-> FALSE]
           G == [i \in 0..n |-> {t \in S : /\ ListOK(imgs, t.list) /\ AllPlain(t.list)
                                           /\ (i = 0 => t = base) /\ (i # 0 => Begins(t.list))}]
           step == [p \in (1..n) \X S |-> IF p[2] \in G[p[1] - 1] THEN Next1(p[1], p[2]) ELSE base]
           P(g) == g = [i \in 0..n |->
                          IF i = 0 THEN [list |-> <<>>, stop |-> FALSE]
                          ELSE IF g[i - 1].stop \/ Exists(g[i - 1].list, file[i])
                               THEN [g[i - 1] EXCEPT !.stop = TRUE]
                          ELSE [g[i - 1] EXCEPT !.list = SetPointOf(@, file[i], junk[i], imgs)]]
           h == CHOOSE g : P(g)
<1>1. /\ file \in Seq(Command) /\ n \in Nat /\ DOMAIN file = 1..n
      /\ \A i \in 1..n : file[i] \in Command /\ (file[i].locimg # None => file[i].name = None)
      /\ \A i \in 1..n : junk[i] \in Address
  <2>1. file \in Seq(Command)
    BY FilesAssumption
  <2>2. n \in Nat /\ DOMAIN file = 1..n
    BY <2>1, LenProperties
  <2> QED
    BY <2>1, <2>2, FilesAssumption, ElementOfSeq
<1>2. base \in S /\ base.list = <<>> /\ DOMAIN <<>> = {}
  BY EmptySeq
<1>3. base \in G[0] /\ \A i \in 0..n : G[i] \subseteq S
  <2>1. ListOK(imgs, <<>>) /\ AllPlain(<<>>)
    BY EmptySeq DEF ListOK
  <2> HIDE DEF AllPlain, Begins
  <2> QED
    BY <1>1, <1>2, <2>1
<1>4. ASSUME NEW i \in 1..n, NEW t \in G[i - 1] PROVE Next1(i, t) \in G[i]
  <2>1. i - 1 \in 0..n /\ i \in 0..n /\ i # 0
    BY <1>1
  <2>2. /\ t \in S /\ ListOK(imgs, t.list) /\ AllPlain(t.list)
        /\ (i = 1 => t = base) /\ (i # 1 => Begins(t.list))
    BY <2>1
  <2> DEFINE u == Next1(i, t)
  <2>3. CASE t.stop \/ Exists(t.list, file[i])
    <3>1. i # 1
      <4>1. ~Exists(<<>>, file[i])
        BY <1>2 DEF Exists
      <4> QED
        BY <1>2, <2>2, <2>3, <4>1
    <3>2. u = [t EXCEPT !.stop = TRUE]
      BY <2>3
    <3> HIDE DEF u, AllPlain, Begins
    <3>3. u \in S /\ u.list = t.list
      BY <2>2, <3>2
    <3> QED
      BY <2>1, <2>2, <3>1, <3>3 DEF u
  <2>4. CASE ~(t.stop \/ Exists(t.list, file[i]))
    <3> DEFINE c == file[i]
               l == SetPointOf(t.list, c, junk[i], imgs)
    <3>1. u = [t EXCEPT !.list = l]
      BY <2>4
    <3>2. PICK q \in Point : /\ ListOK(imgs, l) /\ l = Append(t.list, q) /\ Plain(q)
                             /\ c.name # None => q = NamedPoint(c, junk[i])
      BY <1>1, <2>2, SetPointOfRight
    <3>3. t.list \in Seq(Point)
      BY <2>2
    <3>4. /\ DOMAIN t.list = 1..Len(t.list) /\ Len(t.list) \in Nat
          /\ DOMAIN l = 1..(Len(t.list) + 1)
          /\ l[Len(t.list) + 1] = q /\ \A j \in 1..Len(t.list) : l[j] = t.list[j]
      BY <3>2, <3>3, AppendRight
    <3>5. AllPlain(l)
      <4>1. \A j \in DOMAIN l : j = Len(t.list) + 1 \/ j \in DOMAIN t.list
        BY <3>4
      <4> QED
        BY <2>2, <3>2, <3>4, <4>1
    <3>6. Begins(l)
      <4>1. CASE i = 1
        <5>1. Len(t.list) = 0
          BY <1>2, <2>2, <4>1, EmptySeq
        <5> QED
          BY <3>2, <3>4, <4>1, <5>1
      <4>2. CASE i # 1
        <5> SUFFICES ASSUME file[1].name # None
                     PROVE  1 \in DOMAIN l /\ l[1] = NamedPoint(file[1], junk[1])
          OBVIOUS
        <5>1. 1 \in DOMAIN t.list /\ t.list[1] = NamedPoint(file[1], junk[1])
          BY <2>2, <4>2
        <5> QED
          BY <3>4, <5>1
      <4> QED
        BY <4>1, <4>2
    <3> HIDE DEF u, l, AllPlain, Begins
    <3>7. l \in Seq(Point)
      BY <3>2 DEF ListOK
    <3>8. u \in S /\ u.list = l
      BY <2>2, <3>1, <3>7
    <3> QED
      BY <2>1, <3>2, <3>5, <3>6, <3>8 DEF u
  <2> QED
    BY <2>3, <2>4
<1> HIDE DEF G, base, S
<1>5. step \in [(1..n) \X S -> S]
  <2> HIDE DEF Next1
  <2>1. \A i \in 1..n : \A t \in S : t \in G[i - 1] => Next1(i, t) \in S
    <3>1. \A i \in 1..n : i \in 0..n
      BY <1>1
    <3> QED
      BY <1>3, <1>4, <3>1
  <2> QED
    BY <1>2, <2>1
<1>6. \A i \in 1..n : \A t \in S :
        step[<<i, t>>] = IF t \in G[i - 1] THEN Next1(i, t) ELSE base
  <2> HIDE DEF Next1
  <2> QED
    OBVIOUS
<1> HIDE DEF step
<1>7. \A i \in 1..n : \A t \in G[i - 1] : step[<<i, t>>] \in G[i]
  <2> HIDE DEF Next1
  <2>1. \A i \in 1..n : i - 1 \in 0..n
    BY <1>1
  <2> QED
    BY <1>3, <1>4, <1>6, <2>1
<1>8. PICK f : Recursive(f, n, S, base, step) /\ \A i \in 0..n : f[i] \in G[i]
  BY <1>1, <1>2, <1>3, <1>5, <1>7, RecursionInFamily
<1>9. f = [i \in 0..n |-> f[i]] /\ f[0] = base /\ \A i \in 1..n : f[i] = Next1(i, f[i - 1])
  <2> HIDE DEF Next1
  <2>1. \A i \in 1..n : i - 1 \in 0..n
    BY <1>1
  <2>2. \A i \in 1..n : f[i - 1] \in S /\ f[i - 1] \in G[i - 1]
    BY <1>3, <1>8, <2>1
  <2> QED
    BY <1>6, <1>8, <2>2 DEF Recursive
<1>10. P(f)
  <2>1. \A i \in 0..n : i # 0 => i \in 1..n
    BY <1>1
  <2>2. \A i \in 0..n : f[i] = IF i = 0 THEN base ELSE Next1(i, f[i - 1])
    <3> HIDE DEF Next1
    <3> QED
      BY <1>9, <2>1
  <2> QED
    BY <1>9, <2>2 DEF base
<1>11. P(h)
  <2> HIDE DEF P
  <2> QED
    BY <1>10
<1>12. Restored(file, junk, imgs) = h[n].list
  BY DEF Restored
<1> HIDE DEF h
<1>13. h[0] = base /\ \A i \in 1..n : h[i] = Next1(i, h[i - 1])
  <2>1. h = [i \in 0..n |-> IF i = 0 THEN base ELSE Next1(i, h[i - 1])]
    BY <1>11 DEF base
  <2> HIDE DEF Next1, P
  <2> QED
    BY <1>1, <2>1
<1>14. h[0] \in G[0] /\ \A i \in 1..n : h[i - 1] \in G[i - 1] => h[i] \in G[i]
  <2> HIDE DEF Next1
  <2> QED
    BY <1>3, <1>4, <1>13
<1>15. \A i \in 0..n : h[i] \in G[i]
  BY <1>1, <1>14, FamilyInduction
<1>16. h[n] \in G[n] /\ n \in 0..n
  BY <1>1, <1>15
<1>17. ListOK(imgs, h[n].list) /\ AllPlain(h[n].list) /\ (n # 0 => Begins(h[n].list))
  BY <1>16 DEF G
<1>18. file # <<>> => n # 0
  BY <1>1, EmptySeq
<1> HIDE DEF n
<1> QED
  BY <1>12, <1>17, <1>18

-------------------------------------------------------------------------------
(* Planting keeps what was left behind a set of addresses. *)

\* The points planting goes through.
LEMMA AllPointsRight ==
  ASSUME points \in Seq(Point), tmp.bp \in Point
  PROVE  /\ Len(AllPoints) \in Nat
         /\ \A i \in 1..Len(AllPoints) : AllPoints[i].loc \in Address
<1>1. AllPoints \in Seq(Point)
  BY AppendRight DEF AllPoints
<1>2. Len(AllPoints) \in Nat /\ \A i \in 1..Len(AllPoints) : AllPoints[i] \in Point
  BY <1>1, LenProperties, ElementOfSeq
<1> QED
  BY <1>2, PointFields

Saved == [cc : SUBSET Address, old : SUBSET Nat]

\* InsertBPs keeps a set of addresses.
LEMMA InsertBPsRight ==
  ASSUME points \in Seq(Point), tmp.bp \in Point, NEW cc \in SUBSET Address
  PROVE  InsertBPs(cc) \in Saved
<1> DEFINE n == Len(AllPoints)
           Next1(i, t) == IF i \notin Planted THEN t
                          ELSE [cc  |-> t.cc \cup {AllPoints[i].loc},
                                old |-> t.old \cup {j \in {i} : AllPoints[i].loc \in t.cc}]
           base == [cc |-> cc, old |-> {}]
           step == [p \in (1..n) \X Saved |-> Next1(p[1], p[2])]
           P(g) == g = [i \in 0..n |->
                          IF i = 0 THEN [cc |-> cc, old |-> {}]
                          ELSE IF i \notin Planted THEN g[i - 1]
                          ELSE LET a == AllPoints[i].loc
                               IN [cc |-> g[i - 1].cc \cup {a},
                                   old |-> g[i - 1].old \cup {j \in {i} : a \in g[i - 1].cc}]]
           h == CHOOSE g : P(g)
<1>1. n \in Nat /\ \A i \in 1..n : AllPoints[i].loc \in Address
  BY AllPointsRight
<1>2. base \in Saved
  BY DEF Saved
<1>3. ASSUME NEW i \in 1..n, NEW t \in Saved PROVE Next1(i, t) \in Saved
  <2>1. t.cc \in SUBSET Address /\ t.old \in SUBSET Nat
    BY DEF Saved
  <2>2. t.cc \cup {AllPoints[i].loc} \in SUBSET Address
    BY <1>1, <2>1
  <2>3. t.old \cup {j \in {i} : AllPoints[i].loc \in t.cc} \in SUBSET Nat
    BY <1>1, <2>1
  <2> QED
    BY <2>2, <2>3 DEF Saved
<1> HIDE DEF base, n
<1>4. step \in [(1..n) \X Saved -> Saved]
  <2> HIDE DEF Next1
  <2> QED
    BY <1>3
<1>5. \A i \in 1..n : \A t \in Saved : step[<<i, t>>] = Next1(i, t)
  <2> HIDE DEF Next1
  <2> QED
    OBVIOUS
<1> HIDE DEF step
<1>6. PICK f : Recursive(f, n, Saved, base, step)
  BY <1>1, <1>2, <1>4, RecursionExists
<1>7. f = [i \in 0..n |-> IF i = 0 THEN base ELSE Next1(i, f[i - 1])]
  <2> HIDE DEF Next1
  <2>1. \A i \in 1..n : i - 1 \in 0..n
    BY <1>1
  <2>2. \A i \in 1..n : f[i] = Next1(i, f[i - 1])
    BY <1>5, <1>6, <2>1 DEF Recursive
  <2>3. \A i \in 0..n : i # 0 => i \in 1..n
    BY <1>1
  <2> QED
    BY <1>6, <2>2, <2>3 DEF Recursive
<1>8. P(f)
  BY <1>7 DEF base
<1>9. P(h)
  <2> HIDE DEF P
  <2> QED
    BY <1>8
<1>10. InsertBPs(cc) = h[n]
  BY DEF InsertBPs, n
<1> HIDE DEF h
<1>11. h[0] = base /\ \A i \in 1..n : h[i] = Next1(i, h[i - 1])
  <2>1. h = [i \in 0..n |-> IF i = 0 THEN base ELSE Next1(i, h[i - 1])]
    BY <1>9 DEF base
  <2> HIDE DEF Next1, P
  <2> QED
    BY <1>1, <2>1
<1> DEFINE F == [i \in 0..n |-> Saved]
<1>12. h[0] \in F[0] /\ \A i \in 1..n : h[i - 1] \in F[i - 1] => h[i] \in F[i]
  <2> HIDE DEF Next1
  <2>1. \A i \in 1..n : i - 1 \in 0..n /\ i \in 0..n
    BY <1>1
  <2> QED
    BY <1>1, <1>2, <1>3, <1>11, <2>1
<1>13. \A i \in 0..n : h[i] \in F[i]
  <2> HIDE DEF F
  <2> QED
    BY <1>1, <1>12, FamilyInduction
<1> QED
  BY <1>1, <1>10, <1>13

\* So does RemoveBPs.
LEMMA RemoveBPsRight ==
  ASSUME points \in Seq(Point), tmp.bp \in Point, NEW m \in Saved
  PROVE  RemoveBPs(m) \in SUBSET Address
<1> DEFINE n == Len(AllPoints)
           S == SUBSET Address
           Next1(i, t) == IF i \notin Planted THEN t
                          ELSE IF i \in m.old THEN t \cup {AllPoints[i].loc}
                          ELSE t \ {AllPoints[i].loc}
           base == m.cc
           step == [p \in (1..n) \X S |-> Next1(p[1], p[2])]
           P(g) == g = [i \in 0..n |->
                          IF i = 0 THEN m.cc
                          ELSE IF i \notin Planted THEN g[i - 1]
                          ELSE IF i \in m.old THEN g[i - 1] \cup {AllPoints[i].loc}
                          ELSE g[i - 1] \ {AllPoints[i].loc}]
           h == CHOOSE g : P(g)
<1>1. n \in Nat /\ \A i \in 1..n : AllPoints[i].loc \in Address
  BY AllPointsRight
<1>2. base \in S
  BY DEF Saved
<1>3. ASSUME NEW i \in 1..n, NEW t \in S PROVE Next1(i, t) \in S
  BY <1>1
<1> HIDE DEF base, n, S
<1>4. step \in [(1..n) \X S -> S]
  <2> HIDE DEF Next1
  <2> QED
    BY <1>3
<1>5. \A i \in 1..n : \A t \in S : step[<<i, t>>] = Next1(i, t)
  <2> HIDE DEF Next1
  <2> QED
    OBVIOUS
<1> HIDE DEF step
<1>6. PICK f : Recursive(f, n, S, base, step)
  BY <1>1, <1>2, <1>4, RecursionExists
<1>7. f = [i \in 0..n |-> IF i = 0 THEN base ELSE Next1(i, f[i - 1])]
  <2> HIDE DEF Next1
  <2>1. \A i \in 1..n : i - 1 \in 0..n
    BY <1>1
  <2>2. \A i \in 1..n : f[i] = Next1(i, f[i - 1])
    BY <1>5, <1>6, <2>1 DEF Recursive
  <2>3. \A i \in 0..n : i # 0 => i \in 1..n
    BY <1>1
  <2> QED
    BY <1>6, <2>2, <2>3 DEF Recursive
<1>8. P(f)
  BY <1>7 DEF base
<1>9. P(h)
  <2> HIDE DEF P
  <2> QED
    BY <1>8
<1>10. RemoveBPs(m) = h[n]
  BY DEF RemoveBPs, n
<1> HIDE DEF h
<1>11. h[0] = base /\ \A i \in 1..n : h[i] = Next1(i, h[i - 1])
  <2>1. h = [i \in 0..n |-> IF i = 0 THEN base ELSE Next1(i, h[i - 1])]
    BY <1>9 DEF base
  <2> HIDE DEF Next1, P
  <2> QED
    BY <1>1, <2>1
<1> DEFINE F == [i \in 0..n |-> S]
<1>12. h[0] \in F[0] /\ \A i \in 1..n : h[i - 1] \in F[i - 1] => h[i] \in F[i]
  <2> HIDE DEF Next1
  <2>1. \A i \in 1..n : i - 1 \in 0..n /\ i \in 0..n
    BY <1>1
  <2> QED
    BY <1>1, <1>2, <1>3, <1>11, <2>1
<1>13. \A i \in 0..n : h[i] \in F[i]
  <2> HIDE DEF F
  <2> QED
    BY <1>1, <1>12, FamilyInduction
<1> QED
  BY <1>1, <1>10, <1>13 DEF S

-------------------------------------------------------------------------------
(* Every reachable state is sound. *)

StateInv ==
  /\ build \in Builds /\ task \in Programs
  /\ mem \in [Bases -> Modules \cup {None}]
  /\ left \in SUBSET Address
  /\ Sound(Now, build)

\* Soundness of a state given by its parts.
LEMMA SoundParts ==
  ASSUME NEW i, NEW p, NEW t, NEW b
  PROVE  Sound([images |-> i, points |-> p, tmp |-> t], b) <=>
           /\ ImagesOK(i, b) /\ ListOK(i, p)
           /\ t \in Tmp /\ (t.has_address => PointOK(i, t.bp))
BY DEF Sound, States, ImagesOK, PointsOK, ListOK

\* After Put(s) the state is s.
LEMMA PutNow ==
  ASSUME NEW s \in States, Put(s)
  PROVE  Now' = s
BY StateFields DEF Put, Now

\* Deactivating every point, and forgetting UserTmpBrk, is sound.
LEMMA NullTmpRight ==
  ASSUME NEW t \in Tmp
  PROVE  NullTmp(t) \in Tmp /\ ~NullTmp(t).has_address
<1> DEFINE q == [t.bp EXCEPT !.active = FALSE, !.unmapped = FALSE, !.activate_on_remap = FALSE]
<1>1. q \in Point
  BY DEF Tmp, Point
<1>2. NullTmp(t) = [has_address |-> FALSE, bp |-> q]
  BY DEF NullTmp
<1> HIDE DEF q
<1> QED
  BY <1>1, <1>2 DEF Tmp

\* Forgetting UserTmpBrk is sound.
LEMMA UnHitRight ==
  ASSUME NEW b, NEW s, Sound(s, b)
  PROVE  /\ Sound(BPsUnHit(s), b)
         /\ BPsUnHit(s).images = s.images /\ BPsUnHit(s).points = s.points
<1>1. s \in States /\ ImagesOK(s.images, b) /\ PointsOK(s) /\ s.tmp \in Tmp
  BY StateFields DEF Sound
<1> DEFINE one == NullTmp(s.tmp)
           t == BPsUnHit(s)
<1>2. one \in Tmp /\ ~one.has_address
  BY <1>1, NullTmpRight
<1>3. t = [s EXCEPT !.tmp = one]
  BY DEF BPsUnHit
<1> HIDE DEF one, t
<1>4. t \in States /\ t.images = s.images /\ t.points = s.points /\ t.tmp = one
  BY <1>1, <1>2, <1>3 DEF States
<1> QED
  BY <1>1, <1>2, <1>4 DEF Sound, PointsOK, t

\* So is deactivating every point.
LEMMA DeacRight ==
  ASSUME NEW b, NEW s, Sound(s, b)
  PROVE  /\ Sound(BPsDeac(s), b) /\ BPsDeac(s).images = s.images
         /\ BPsDeac(s).points = [i \in DOMAIN s.points |-> [s.points[i] EXCEPT !.active = FALSE]]
<1>1. /\ s \in States /\ ImagesOK(s.images, b) /\ PointsOK(s) /\ s.tmp \in Tmp
      /\ s.points \in Seq(Point) /\ \A i \in DOMAIN s.points : s.points[i] \in Point
  BY StateFields DEF Sound
<1> DEFINE one == NullTmp(s.tmp)
           list == [i \in DOMAIN s.points |-> [s.points[i] EXCEPT !.active = FALSE]]
           t == BPsDeac(s)
<1>2. one \in Tmp /\ ~one.has_address
  BY <1>1, NullTmpRight
<1>3. t = [s EXCEPT !.points = list, !.tmp = one]
  BY DEF BPsDeac
<1>4. ListOK(s.images, list)
  <2>1. \A i \in DOMAIN s.points : list[i] \in Point /\ PointOK(s.images, list[i])
    BY <1>1, StatusOnly DEF PointsOK
  <2>2. list = [i \in DOMAIN s.points |-> list[i]]
    OBVIOUS
  <2> HIDE DEF list
  <2> QED
    BY <1>1, <2>1, <2>2, ListMap
<1> HIDE DEF one, t, list
<1>5. t \in States /\ t.images = s.images /\ t.points = list /\ t.tmp = one
  BY <1>1, <1>2, <1>3, <1>4 DEF States, ListOK
<1> QED
  BY <1>1, <1>2, <1>4, <1>5 DEF Sound, PointsOK, ListOK, t, list

\* Without images a table is sound for every build.
LEMMA SoundWithout ==
  ASSUME NEW b, NEW c, NEW s, Sound(s, b), s.images = <<>>
  PROVE  Sound(s, c)
<1>1. DOMAIN <<>> = {} /\ <<>> \in Seq(Image)
  BY EmptySeq
<1> QED
  BY <1>1 DEF Sound, ImagesOK

\* Freeing every image leaves a sound state without images.
LEMMA ReleaseSound ==
  ASSUME NEW b \in Builds, NEW s, Sound(s, b)
  PROVE  Sound(ReleaseProgOvlay(s), b) /\ ReleaseProgOvlay(s).images = <<>>
<1> DEFINE F == [i \in 0..Len(s.images) |-> States]
<1>1. s \in States /\ Len(s.images) \in Nat
  BY StateFields, LenProperties DEF Sound
<1>2. \A i \in 1..Len(s.images) : \A u \in F[i - 1] :
        Sound(u, b) /\ 1 \in DOMAIN u.images => FreeImage(u, 1) \in F[i]
  <2> SUFFICES ASSUME NEW i \in 1..Len(s.images), NEW u, Sound(u, b), 1 \in DOMAIN u.images
               PROVE  FreeImage(u, 1) \in F[i]
    OBVIOUS
  <2>1. \A j \in DOMAIN u.images : 1 <= j
    BY ImageType DEF Sound
  <2>2. Sound(FreeImage(u, 1), b)
    BY <2>1, FreeState
  <2> QED
    BY <1>1, <2>2 DEF Sound
<1>3. s \in F[0]
  BY <1>1
<1> HIDE DEF F
<1> QED
  BY <1>2, <1>3, ReleaseLoop

\* A restart leaves a sound state, with the program or without.
LEMMA StartedRight ==
  ASSUME NEW b0 \in Builds, NEW b \in Builds, NEW s, Sound(s, b0)
  PROVE  LET r == BPsUnHit(ReleaseProgOvlay(s)) IN
         /\ Sound(r, b) /\ r.images = <<>>
         /\ Sound(CreateImage(r, None, 0), b)
         /\ \A m \in Modules, pb \in Bases : \A at \in StartUp(pb) : Sound(LoadProg(r, m, pb, at, b), b)
<1> DEFINE t == ReleaseProgOvlay(s)
           r == BPsUnHit(t)
<1>2. Sound(t, b0) /\ t.images = <<>>
  BY ReleaseSound
<1>3. Sound(r, b) /\ r.images = <<>>
  BY <1>2, UnHitRight, SoundWithout
<1> HIDE DEF r, t
<1>4. Sound(CreateImage(r, None, 0), b)
  <2>1. 0 \in 0..MaxBase
    BY Bounds
  <2> QED
    BY <1>3, <2>1, CreateState
<1>5. ASSUME NEW m \in Modules, NEW pb \in Bases, NEW at \in StartUp(pb)
      PROVE  Sound(LoadProg(r, m, pb, at, b), b)
  <2> DEFINE G == [i \in 0..MaxBase |-> States]
  <2>1. at \in [Bases -> Libs \cup {None}]
    BY DEF StartUp
  <2>2. DoLoadProg(r, m, pb, b) \in G[0]
    <3>1. Sound(DoLoadProg(r, m, pb, b), b)
      BY <1>3, DoLoadProgRight
    <3> QED
      BY <3>1, Bounds DEF Sound
  <2>3. \A c \in Bases : \A u \in G[c - 1] : Sound(u, b) => StartLib(u, at, c, b) \in G[c]
    <3> SUFFICES ASSUME NEW c \in Bases, NEW u, Sound(u, b) PROVE StartLib(u, at, c, b) \in G[c]
      OBVIOUS
    <3>1. CASE at[c] = None
      BY <3>1, Bounds DEF StartLib, Sound, Bases
    <3>2. CASE at[c] # None
      <4>1. at[c] \in Modules
        BY <2>1, <3>2 DEF Modules
      <4>2. Sound(LibLoaded(u, at[c], c, b), b)
        BY <4>1, LibLoadedRight
      <4> QED
        BY <3>2, <4>2, Bounds DEF StartLib, Sound, Bases
    <3> QED
      BY <3>1, <3>2
  <2> HIDE DEF G
  <2> QED
    BY <1>3, <2>1, <2>2, <2>3, LoadLoop
<1> QED
  BY <1>3, <1>4, <1>5 DEF r, t

\* StateInv, in parts, before and after a step.
LEMMA StateParts ==
  /\ StateInv <=> /\ build \in Builds /\ task \in Programs
                  /\ mem \in [Bases -> Modules \cup {None}] /\ left \in SUBSET Address
                  /\ ImagesOK(images, build) /\ ListOK(images, points)
                  /\ tmp \in Tmp /\ (tmp.has_address => PointOK(images, tmp.bp))
  /\ StateInv' <=> /\ build' \in Builds /\ task' \in Programs
                   /\ mem' \in [Bases -> Modules \cup {None}] /\ left' \in SUBSET Address
                   /\ ImagesOK(images', build') /\ ListOK(images', points')
                   /\ tmp' \in Tmp /\ (tmp'.has_address => PointOK(images', tmp'.bp))
BY SoundParts DEF StateInv, Now

\* The initial state is sound.
LEMMA InitInv == Init => StateInv
<1> SUFFICES ASSUME Init PROVE StateInv
  OBVIOUS
<1> DEFINE z == [images |-> <<>>, points |-> <<>>, tmp |-> NoTmp]
           bp == [ loc |-> NilAddr, locimg |-> None, name |-> None,
                   watch |-> FALSE, active |-> FALSE, unmapped |-> FALSE,
                   activate_on_remap |-> FALSE, counted |-> FALSE, home |-> None ]
<1>1. build \in Builds /\ task \in Programs /\ mem \in [Bases -> Modules \cup {None}]
      /\ left \in SUBSET Address /\ points = <<>> /\ tmp = NoTmp
  BY DEF Init
<1>2. NoTmp \in Tmp /\ ~NoTmp.has_address
  <2>1. NilAddr \in Address
    BY Bounds DEF NilAddr, Address
  <2>2. bp \in Point
    BY <2>1 DEF Point
  <2>3. NoTmp = [has_address |-> FALSE, bp |-> bp]
    BY DEF NoTmp
  <2> HIDE DEF bp
  <2> QED
    BY <2>2, <2>3 DEF Tmp
<1>3. Sound(z, build)
  <2>1. <<>> \in Seq(Image) /\ <<>> \in Seq(Point) /\ DOMAIN <<>> = {}
    BY EmptySeq
  <2>2. ImagesOK(<<>>, build) /\ ListOK(<<>>, <<>>)
    BY <2>1 DEF ImagesOK, ListOK
  <2> QED
    BY <1>2, <2>2, SoundParts
<1> DEFINE c == CreateImage(z, None, 0)
<1>4. Sound(c, build) /\ c.images = Append(<<>>, Blank(None, 0))
  <2>1. 0 \in 0..MaxBase
    BY Bounds
  <2> HIDE DEF z, c
  <2>2. Sound(CreateImage(z, None, 0), build)
        /\ CreateImage(z, None, 0).images = Append(z.images, Blank(None, 0))
    <3>1. build \in Builds /\ None \in Modules \cup {None}
      BY <1>1
    <3> QED
      BY <1>3, <2>1, <3>1, CreateState
  <2> QED
    BY <2>2 DEF z, c
<1>5. images = c.images
  BY <1>4 DEF Init, CreateImage, Blank
<1>6. ImagesOK(images, build)
  BY <1>4, <1>5 DEF Sound
<1>7. ListOK(images, points)
  BY <1>1, EmptySeq DEF ListOK
<1> QED
  BY <1>1, <1>2, <1>6, <1>7, StateParts

\* The points change and nothing else.
LEMMA OnlyPointsInv ==
  ASSUME StateInv, OnlyPoints, ListOK(images, points')
  PROVE  StateInv'
<1>1. /\ build' = build /\ task' = task /\ mem' = mem /\ images' = images
      /\ tmp' = tmp /\ left' = left
  BY DEF OnlyPoints
<1> QED
  BY <1>1, StateParts

\* The images, the points and UserTmpBrk become a sound state.
LEMMA PutInv ==
  ASSUME NEW s, Sound(s, build'), Put(s), build' \in Builds, task' \in Programs,
         mem' \in [Bases -> Modules \cup {None}], left' \in SUBSET Address
  PROVE  StateInv'
<1>1. s = [images |-> s.images, points |-> s.points, tmp |-> s.tmp]
  BY StateFields DEF Sound
<1>2. Sound([images |-> images', points |-> points', tmp |-> tmp'], build')
  BY <1>1 DEF Put
<1>3. /\ ImagesOK(images', build') /\ ListOK(images', points')
      /\ tmp' \in Tmp /\ (tmp'.has_address => PointOK(images', tmp'.bp))
  BY <1>2, SoundParts
<1> QED
  BY <1>3, StateParts

\* What the user does to the table.
LEMMA TableInv ==
  ASSUME StateInv,
         \/ \E a \in Visible : SetPoint(a) \/ AddBreak(a) \/ ToggleBreak(a)
         \/ \E i \in DOMAIN points : ClearPoint(i) \/ \E act \in BOOLEAN : Ac_DeacPoint(i, act)
         \/ \E act \in BOOLEAN : BrkSetAll(act)
         \/ BrkAddrRefresh
  PROVE  StateInv'
<1>1. /\ build \in Builds /\ mem \in [Bases -> Modules \cup {None}]
      /\ ImagesOK(images, build) /\ ListOK(images, points)
  BY StateParts
<1>2. points \in Seq(Point) /\ \A i \in DOMAIN points : points[i] \in Point /\ PointOK(images, points[i])
  <2>1. points \in Seq(Point)
    BY <1>1 DEF ListOK
  <2>2. DOMAIN points = 1..Len(points)
    BY <2>1, LenProperties
  <2> QED
    BY <1>1, <2>1, <2>2, ElementOfSeq DEF ListOK
<1>3. \A a : FindBreak(a) # 0 => FindBreak(a) \in DOMAIN points
  <2> SUFFICES ASSUME NEW a, FindBreak(a) # 0 PROVE FindBreak(a) \in DOMAIN points
    OBVIOUS
  <2> DEFINE S == {i \in DOMAIN points : points[i].loc = a}
  <2>1. S \in SUBSET Nat
    BY <1>2, LenProperties
  <2>2. FindBreak(a) = First(S)
    BY DEF FindBreak
  <2>3. First(S) \in S
    BY <2>1, <2>2, FirstIsLeast
  <2> QED
    BY <2>2, <2>3
<1>4. ASSUME NEW a \in Visible, SetPoint(a) PROVE StateInv'
  <2>1. NewPoint(a, images) \in Point /\ PointOK(images, NewPoint(a, images))
    BY <1>1, VisibleAddress, NewPointRight
  <2>2. points' = Append(points, NewPoint(a, images)) /\ OnlyPoints
    BY <1>4 DEF SetPoint
  <2> QED
    BY <1>1, <2>1, <2>2, ListAppend, OnlyPointsInv
<1>5. ASSUME NEW a \in Visible, AddBreak(a) PROVE StateInv'
  <2> DEFINE i == FindBreak(a)
             q == [points[i] EXCEPT !.active = TRUE]
  <2>1. i \in DOMAIN points /\ OnlyPoints
    BY <1>3, <1>5 DEF AddBreak
  <2>2. q \in Point /\ PointOK(images, q)
    BY <1>2, <2>1, StatusOnly
  <2>3. points' = [points EXCEPT ![i] = q]
    BY <1>5 DEF AddBreak
  <2> HIDE DEF q, i
  <2> QED
    BY <1>1, <2>1, <2>2, <2>3, ListSet, OnlyPointsInv
<1>6. ASSUME NEW a \in Visible, ToggleBreak(a) PROVE StateInv'
  <2> DEFINE i == FindBreak(a)
             q == ActPoint(points[i], FALSE)
  <2>1. i \in DOMAIN points /\ OnlyPoints
    BY <1>3, <1>6 DEF ToggleBreak
  <2>2. q \in Point /\ PointOK(images, q)
    BY <1>2, <2>1, ActPointRight
  <2>3. points' = [points EXCEPT ![i] = q] \/ points' = RemoveAt(points, i)
    BY <1>6 DEF ToggleBreak
  <2> HIDE DEF q, i
  <2> QED
    BY <1>1, <2>1, <2>2, <2>3, ListSet, ListRemove, OnlyPointsInv
<1>7. ASSUME NEW i \in DOMAIN points, ClearPoint(i) PROVE StateInv'
  BY <1>1, <1>7, ListRemove, OnlyPointsInv DEF ClearPoint
<1>8. ASSUME NEW i \in DOMAIN points, NEW act \in BOOLEAN, Ac_DeacPoint(i, act) PROVE StateInv'
  <2> DEFINE q == ActPoint(points[i], act)
  <2>1. q \in Point /\ PointOK(images, q)
    BY <1>2, ActPointRight
  <2>2. points' = [points EXCEPT ![i] = q] /\ OnlyPoints
    BY <1>8 DEF Ac_DeacPoint
  <2> HIDE DEF q
  <2> QED
    BY <1>1, <2>1, <2>2, ListSet, OnlyPointsInv
<1>9. ASSUME NEW act \in BOOLEAN, BrkSetAll(act) PROVE StateInv'
  <2> DEFINE list == [i \in DOMAIN points |-> [points[i] EXCEPT !.active = act]]
  <2>1. \A i \in DOMAIN points : list[i] \in Point /\ PointOK(images, list[i])
    BY <1>2, StatusOnly
  <2>2. points' = list /\ OnlyPoints /\ list = [i \in DOMAIN points |-> list[i]]
    BY <1>9 DEF BrkSetAll
  <2> HIDE DEF list
  <2> QED
    BY <1>2, <2>1, <2>2, ListMap, OnlyPointsInv
<1>10. ASSUME BrkAddrRefresh PROVE StateInv'
  <2> DEFINE list == [i \in DOMAIN points |-> SetPointAddr(points[i], points[i].loc, images)]
  <2>1. \A i \in DOMAIN points : list[i] \in Point /\ PointOK(images, list[i])
    <3> SUFFICES ASSUME NEW i \in DOMAIN points
                 PROVE  list[i] \in Point /\ PointOK(images, list[i])
      OBVIOUS
    <3> DEFINE p == points[i]
    <3>1. p \in Point /\ PointOK(images, p) /\ p.loc \in Address
      BY <1>2, PointFields
    <3>2. p.unmapped \/ p.locimg = None
      BY <3>1 DEF PointOK
    <3> HIDE DEF p
    <3>3. SetPointAddr(p, p.loc, images) \in Point /\ PointOK(images, SetPointAddr(p, p.loc, images))
      BY <1>1, <3>1, <3>2, SetPointAddrRight
    <3> QED
      BY <3>3 DEF p
  <2>2. points' = list /\ OnlyPoints /\ list = [i \in DOMAIN points |-> list[i]]
    BY <1>10 DEF BrkAddrRefresh
  <2> HIDE DEF list
  <2> QED
    BY <1>2, <2>1, <2>2, ListMap, OnlyPointsInv
<1> QED
  BY <1>4, <1>5, <1>6, <1>7, <1>8, <1>9, <1>10

\* UserTmpBrk changes and nothing else.
LEMMA OnlyTmpInv ==
  ASSUME StateInv, UNCHANGED <<build, task, mem, images, points, left>>,
         tmp' \in Tmp, tmp'.has_address => PointOK(images, tmp'.bp)
  PROVE  StateInv'
<1>1. /\ build' = build /\ task' = task /\ mem' = mem /\ images' = images
      /\ points' = points /\ left' = left
  OBVIOUS
<1> QED
  BY <1>1, StateParts

\* A pass of the debuggee, and UserTmpBrk.
LEMMA RunInv ==
  ASSUME StateInv, ExecProg \/ GoUntilEnds \/ \E a \in Visible : GoUntil(a)
  PROVE  StateInv'
<1>1. /\ build \in Builds /\ task \in Programs /\ mem \in [Bases -> Modules \cup {None}]
      /\ left \in SUBSET Address /\ ImagesOK(images, build) /\ ListOK(images, points)
      /\ tmp \in Tmp /\ (tmp.has_address => PointOK(images, tmp.bp))
  BY StateParts
<1>2. /\ points \in Seq(Point) /\ DOMAIN points = 1..Len(points)
      /\ \A i \in DOMAIN points : points[i] \in Point /\ PointOK(images, points[i])
  <2>1. points \in Seq(Point)
    BY <1>1 DEF ListOK
  <2>2. DOMAIN points = 1..Len(points)
    BY <2>1, LenProperties
  <2> QED
    BY <1>1, <2>1, <2>2, ElementOfSeq DEF ListOK
<1>3. ASSUME NEW a \in Visible, GoUntil(a) PROVE StateInv'
  <2> DEFINE p == NewPoint(a, images)
  <2>1. p \in Point /\ PointOK(images, p)
    BY <1>1, VisibleAddress, NewPointRight
  <2>2. /\ tmp' = [has_address |-> TRUE, bp |-> p]
        /\ UNCHANGED <<build, task, mem, images, points, left>>
    BY <1>3 DEF GoUntil
  <2> HIDE DEF p
  <2>3. tmp' \in Tmp /\ PointOK(images, tmp'.bp)
    BY <2>1, <2>2 DEF Tmp
  <2> QED
    BY <2>2, <2>3, OnlyTmpInv
<1>4. ASSUME GoUntilEnds PROVE StateInv'
  <2>1. tmp' = NullTmp(tmp) /\ UNCHANGED <<build, task, mem, images, points, left>>
    BY <1>4 DEF GoUntilEnds
  <2>2. tmp' \in Tmp /\ ~tmp'.has_address
    BY <1>1, <2>1, NullTmpRight
  <2> QED
    BY <2>1, <2>2, OnlyTmpInv
<1>5. ASSUME ExecProg PROVE StateInv'
  <2>1. left' \in SUBSET Address
    <3>1. tmp.bp \in Point
      BY <1>1 DEF Tmp
    <3>2. InsertBPs(left) \in Saved
      BY <1>1, <1>2, <3>1, InsertBPsRight
    <3> QED
      BY <1>2, <1>5, <3>1, <3>2, RemoveBPsRight DEF ExecProg
  <2>2. PICK H \in SUBSET {i \in DOMAIN points : points[i].active} :
          points' = [i \in DOMAIN points |-> [points[i] EXCEPT !.counted = @ \/ i \in H]]
    BY <1>5 DEF ExecProg
  <2> DEFINE list == [i \in DOMAIN points |->
                        [points[i] EXCEPT !.counted = points[i].counted \/ i \in H]]
  <2>3. \A i \in DOMAIN points : list[i] \in Point /\ PointOK(images, list[i])
    <3> SUFFICES ASSUME NEW i \in DOMAIN points
                 PROVE  list[i] \in Point /\ PointOK(images, list[i])
      OBVIOUS
    <3> DEFINE x == points[i].counted \/ i \in H
               p == points[i]
    <3>1. x \in BOOLEAN /\ p \in Point /\ PointOK(images, p)
      BY <1>2
    <3>2. list[i] = [p EXCEPT !.counted = x]
      OBVIOUS
    <3> HIDE DEF x, p, list
    <3>3. [p EXCEPT !.counted = x] \in Point /\ PointOK(images, [p EXCEPT !.counted = x])
      BY <3>1, StatusOnly
    <3> QED
      BY <3>2, <3>3
  <2>4. points' = list /\ list = [i \in DOMAIN points |-> list[i]]
    BY <2>2
  <2> HIDE DEF list
  <2>5. ListOK(images, points')
    BY <1>2, <2>3, <2>4, ListMap
  <2>6. UNCHANGED <<build, task, mem, images, tmp>>
    BY <1>5 DEF ExecProg
  <2> QED
    BY <1>1, <2>1, <2>5, <2>6, StateParts
<1> QED
  BY <1>3, <1>4, <1>5

\* Libraries, deferred symbols, and the break command file.
LEMMA EventInv ==
  ASSUME StateInv,
         \/ \E m \in Libs, b \in Bases : LibraryLoads(m, b)
         \/ \E b \in Bases : LibraryUnloads(b)
         \/ LoadDeferredSymbols
         \/ SaveBreaksToFile
         \/ \E file \in Files : RestoreBreaksFromFile(file)
  PROVE  StateInv'
<1>1. /\ build \in Builds /\ task \in Programs /\ mem \in [Bases -> Modules \cup {None}]
      /\ left \in SUBSET Address /\ Sound(Now, build)
  BY DEF StateInv
<1>2. \A s : Sound(s, build) => Sound(ReMapPoints(s, 0), build)
  BY <1>1, ReMapState
<1>3. ASSUME NEW m \in Libs, NEW b \in Bases, LibraryLoads(m, b) PROVE StateInv'
  <2> DEFINE s == LibLoaded(Now, m, b, build)
  <2>1. Sound(s, build)
    BY <1>1, LibLoadedRight DEF Modules
  <2>2. /\ Put(ReMapPoints(s, 0)) /\ mem' = [mem EXCEPT ![b] = m]
        /\ UNCHANGED <<build, task, left>>
    BY <1>3 DEF LibraryLoads
  <2>3. mem' \in [Bases -> Modules \cup {None}]
    BY <1>1, <2>2 DEF Modules
  <2> HIDE DEF s
  <2> QED
    BY <1>1, <1>2, <2>1, <2>2, <2>3, PutInv
<1>4. ASSUME NEW b \in Bases, LibraryUnloads(b) PROVE StateInv'
  <2> DEFINE s == LibUnloaded(Now, b)
  <2>1. Sound(s, build)
    BY <1>1, LibUnloadedRight
  <2>2. /\ Put(ReMapPoints(s, 0)) /\ mem' = [mem EXCEPT ![b] = None]
        /\ UNCHANGED <<build, task>> /\ left' = {a \in left : BaseOf(a) # b}
    BY <1>4 DEF LibraryUnloads
  <2>3. mem' \in [Bases -> Modules \cup {None}] /\ left' \in SUBSET Address
    BY <1>1, <2>2
  <2> HIDE DEF s
  <2> QED
    BY <1>1, <1>2, <2>1, <2>2, <2>3, PutInv
<1>5. ASSUME LoadDeferredSymbols PROVE StateInv'
  <2> DEFINE F == [k \in 0..Len(images) |-> States]
             s == LoadDeferred(Now, build)
  <2>1. Now \in States /\ Now.images = images /\ Len(images) \in Nat
        /\ DOMAIN images = 1..Len(images)
    <3>1. Now \in States /\ Now.images = images
      BY <1>1 DEF Sound, Now
    <3>2. images \in Seq(Image)
      BY <3>1, StateFields
    <3> QED
      BY <3>1, <3>2, LenProperties
  <2>2. \A k \in DOMAIN Now.images : \A t \in F[k - 1] :
          Sound(t, build) /\ DOMAIN t.images = DOMAIN Now.images
            => LoadDeferredImage(t, k, build) \in F[k]
    <3> SUFFICES ASSUME NEW k \in DOMAIN Now.images, NEW t, Sound(t, build),
                        DOMAIN t.images = DOMAIN Now.images
                 PROVE  LoadDeferredImage(t, k, build) \in F[k]
      OBVIOUS
    <3>1. k \in DOMAIN t.images /\ k \in 0..Len(images)
      BY <2>1
    <3>2. Sound(LoadDeferredImage(t, k, build), build)
      BY <1>1, <3>1, LoadDeferredImageRight
    <3> QED
      BY <3>1, <3>2 DEF Sound
  <2>3. Now \in F[0]
    BY <2>1
  <2> HIDE DEF F
  <2>4. Sound(s, build)
    BY <1>1, <2>2, <2>3, DeferredLoop
  <2>5. Put(s) /\ UNCHANGED <<build, task, mem, left>>
    BY <1>5 DEF LoadDeferredSymbols
  <2> HIDE DEF s
  <2> QED
    BY <1>1, <2>4, <2>5, PutInv
<1>6. ASSUME SaveBreaksToFile PROVE StateInv'
  <2> DEFINE s == UnMapPoints(Now, 0)
  <2>1. Sound(s, build)
    BY <1>1, UnMapState
  <2>2. Put(ReMapPoints(s, 0)) /\ UNCHANGED <<build, task, mem, left>>
    BY <1>6 DEF SaveBreaksToFile
  <2> HIDE DEF s
  <2> QED
    BY <1>1, <1>2, <2>1, <2>2, PutInv
<1>7. ASSUME NEW file \in Files, RestoreBreaksFromFile(file) PROVE StateInv'
  <2>1. PICK junk \in [DOMAIN file -> Junk] :
          Put(ReMapPoints([Now EXCEPT !.points = Restored(file, junk, images)], 0))
    BY <1>7 DEF RestoreBreaksFromFile
  <2> DEFINE list == Restored(file, junk, images)
             s == [Now EXCEPT !.points = list]
  <2>2. ImagesOK(images, build) /\ tmp \in Tmp /\ (tmp.has_address => PointOK(images, tmp.bp))
    BY StateParts
  <2>3. ListOK(images, list)
    BY <1>1, <2>2, RestoredRight
  <2> HIDE DEF list
  <2>4. s = [images |-> images, points |-> list, tmp |-> tmp]
    BY DEF Now
  <2> HIDE DEF s
  <2>5. Sound(s, build)
    BY <2>2, <2>3, <2>4, SoundParts
  <2>6. UNCHANGED <<build, task, mem, left>>
    BY <1>7 DEF RestoreBreaksFromFile
  <2>7. Put(ReMapPoints(s, 0))
    BY <2>1 DEF s, list
  <2> QED
    BY <1>1, <1>2, <2>5, <2>6, <2>7, PutInv
<1> QED
  BY <1>3, <1>4, <1>5, <1>6, <1>7

\* Restarts.
LEMMA StartInv ==
  ASSUME StateInv, ReStart \/ ProgNew
  PROVE  StateInv'
<1>1. /\ build \in Builds /\ task \in Programs /\ Sound(Now, build)
  BY DEF StateInv
<1>2. ASSUME NEW s, Sound(s, build), NEW m \in Programs, NEW b \in Builds, DoResNew(s, m, b)
      PROVE  StateInv'
  <2> DEFINE r == BPsUnHit(ReleaseProgOvlay(s))
  <2>1. /\ Sound(CreateImage(r, None, 0), b)
        /\ \A pb \in Bases : \A at \in StartUp(pb) : Sound(LoadProg(r, m, pb, at, b), b)
    BY <1>1, <1>2, StartedRight DEF Modules
  <2>2. build' = b /\ task' = m /\ left' = {}
    BY <1>2 DEF DoResNew
  <2>3. \/ \E pb \in Bases : \E at \in StartUp(pb) :
             mem' = [at EXCEPT ![pb] = m] /\ Put(LoadProg(r, m, pb, at, b))
        \/ mem' = [c \in Bases |-> None] /\ Put(CreateImage(r, None, 0))
    BY <1>2 DEF DoResNew
  <2> HIDE DEF r
  <2>4. mem' \in [Bases -> Modules \cup {None}]
    BY <2>3 DEF StartUp, Modules
  <2>5. left' \in SUBSET Address
    BY <2>2
  <2>6. CASE \E pb \in Bases : \E at \in StartUp(pb) :
               mem' = [at EXCEPT ![pb] = m] /\ Put(LoadProg(r, m, pb, at, b))
    <3>1. PICK pb \in Bases : \E at \in StartUp(pb) : Put(LoadProg(r, m, pb, at, b))
      BY <2>6
    <3>2. PICK at \in StartUp(pb) : Put(LoadProg(r, m, pb, at, b))
      BY <3>1
    <3> DEFINE t == LoadProg(r, m, pb, at, b)
    <3>3. Sound(t, b) /\ Put(t)
      BY <2>1, <3>2
    <3> HIDE DEF t
    <3> QED
      BY <2>2, <2>4, <2>5, <3>3, PutInv
  <2>7. CASE mem' = [c \in Bases |-> None] /\ Put(CreateImage(r, None, 0))
    <3> DEFINE t == CreateImage(r, None, 0)
    <3>1. Sound(t, b) /\ Put(t)
      BY <2>1, <2>7
    <3> HIDE DEF t
    <3> QED
      BY <2>2, <2>4, <2>5, <3>1, PutInv
  <2> QED
    BY <2>3, <2>6, <2>7
<1>3. CASE ReStart
  BY <1>1, <1>2, <1>3 DEF ReStart
<1>4. CASE ProgNew
  BY <1>1, <1>2, <1>4, DeacRight DEF ProgNew
<1> QED
  BY <1>3, <1>4

\* Every reachable state is sound.
LEMMA StateIsInv == Spec => []StateInv
<1>1. Init => StateInv
  BY InitInv
<1>2. StateInv /\ [Next]_vars => StateInv'
  <2> SUFFICES ASSUME StateInv, [Next]_vars PROVE StateInv'
    OBVIOUS
  <2>1. CASE User
    BY <2>1, TableInv, RunInv, EventInv, StartInv DEF User
  <2>2. CASE Debuggee
    BY <2>2, TableInv, RunInv, EventInv DEF Debuggee
  <2>3. CASE UNCHANGED vars
    <3>1. /\ build' = build /\ task' = task /\ mem' = mem /\ images' = images
          /\ points' = points /\ tmp' = tmp /\ left' = left
      BY <2>3 DEF vars
    <3> QED
      BY <3>1, StateParts
  <2> QED
    BY <2>1, <2>2, <2>3 DEF Next
<1> QED
  BY <1>1, <1>2, PTL DEF Spec

\* The image list, the table and UserTmpBrk keep the shape of the code's
\* records, and MapAddrForImage adds no second entry for a segment.
THEOREM TypeCorrect == Spec => []TypeOK
<1>1. StateInv => TypeOK
  <2> SUFFICES ASSUME StateInv PROVE TypeOK
    OBVIOUS
  <2>1. /\ build \in Builds /\ task \in Programs /\ mem \in [Bases -> Modules \cup {None}]
        /\ left \in SUBSET Address /\ ImagesOK(images, build) /\ ListOK(images, points)
        /\ tmp \in Tmp
    BY StateParts
  <2>2. ASSUME NEW k \in DOMAIN images PROVE OneEntryEach(images[k].map)
    <3>1. ImageOK(images[k], build)
      BY <2>1, ImageType
    <3>2. CASE images[k].syms
      <4>1. images[k].map = FullMap(images[k].handle)
        BY <3>1, <3>2 DEF ImageOK
      <4> QED
        BY <4>1 DEF FullMap, OneEntryEach
    <3>3. CASE ~images[k].syms
      <4>1. images[k].map = <<>> /\ DOMAIN <<>> = {}
        BY <3>1, <3>3 DEF ImageOK
      <4> QED
        BY <4>1 DEF OneEntryEach
    <3> QED
      BY <3>2, <3>3
  <2> QED
    BY <2>1, <2>2 DEF TypeOK, ImagesOK, ListOK, Tmp
<1> QED
  BY <1>1, StateIsInv, PTL

-------------------------------------------------------------------------------
(* What follows from soundness, and from a remap of every point. *)

\* A remap leaves a point as it was, or switches it off for later, or takes it
\* where its target is now.
Waits(p, q, imgs, k) ==
  /\ p.unmapped /\ NoTarget(p, imgs, k)
  /\ q = [p EXCEPT !.active = FALSE, !.activate_on_remap = TRUE]
  /\ q.loc = p.loc /\ q.locimg = p.locimg /\ q.name = p.name /\ q.watch = p.watch
  /\ q.home = p.home /\ q.unmapped /\ ~q.active /\ q.activate_on_remap
Lands(p, q, imgs, k) ==
  /\ p.unmapped /\ Target(p, imgs, k, q.loc) /\ q.loc \in Address
  /\ q.locimg = None /\ ~q.unmapped /\ ~q.counted
  /\ q.name = IF p.watch THEN None ELSE SymName(imgs, q.loc)
  /\ q.active <=> p.active \/ p.activate_on_remap
  /\ q.watch = p.watch /\ q.home = p.home
  /\ q.activate_on_remap = p.activate_on_remap
Stays(p, q, imgs, k) == q = p /\ (p.unmapped => NoTarget(p, imgs, k) /\ k # 0)

\* Remapping a point does one of the three.
LEMMA RemapsRight ==
  ASSUME NEW p \in Point, NEW imgs, NEW k, NEW q, Remaps(p, q, imgs, k)
  PROVE  Stays(p, q, imgs, k) \/ Waits(p, q, imgs, k) \/ Lands(p, q, imgs, k)
<1>1. CASE q = p /\ (p.unmapped => NoTarget(p, imgs, k) /\ k # 0)
  BY <1>1 DEF Stays
<1>2. CASE /\ p.unmapped /\ NoTarget(p, imgs, k)
           /\ q = [p EXCEPT !.active = FALSE, !.activate_on_remap = TRUE]
  <2>1. /\ q.loc = p.loc /\ q.locimg = p.locimg /\ q.name = p.name /\ q.watch = p.watch
        /\ q.home = p.home /\ q.unmapped = p.unmapped /\ q.active = FALSE
        /\ q.activate_on_remap = TRUE
    BY <1>2 DEF Point
  <2> QED
    BY <1>2, <2>1 DEF Waits
<1>3. ASSUME p.unmapped, NEW a \in Address, Target(p, imgs, k, a),
             q = [MappedAt(p, a, imgs) EXCEPT !.counted = FALSE]
      PROVE  Lands(p, q, imgs, k)
  <2> DEFINE n == IF p.watch THEN None ELSE SymName(imgs, a)
             x == p.active \/ p.activate_on_remap
             r == [p EXCEPT !.loc = a, !.locimg = None, !.unmapped = FALSE, !.name = n,
                            !.active = x]
  <2>1. q = [r EXCEPT !.counted = FALSE]
    BY <1>3 DEF MappedAt
  <2> HIDE DEF n, x
  <2>2. /\ r.loc = a /\ r.locimg = None /\ r.unmapped = FALSE /\ r.name = n
        /\ r.active = x /\ r.watch = p.watch /\ r.home = p.home
        /\ r.activate_on_remap = p.activate_on_remap
    BY DEF Point
  <2>3. DOMAIN r = DOMAIN p /\ "counted" \in DOMAIN p
    BY DEF Point
  <2> HIDE DEF r
  <2>4. /\ q.loc = r.loc /\ q.locimg = r.locimg /\ q.unmapped = r.unmapped
        /\ q.name = r.name /\ q.active = r.active /\ q.watch = r.watch
        /\ q.home = r.home /\ q.activate_on_remap = r.activate_on_remap
        /\ q.counted = FALSE
    BY <2>1, <2>3
  <2> QED
    BY <1>3, <2>2, <2>4 DEF Lands, n, x
<1> QED
  BY <1>1, <1>2, <1>3 DEF Remaps

\* ReMapPoints(NULL) after Now became s: each point of the table came from one
\* of s.
LEMMA AfterReMap ==
  ASSUME NEW b \in Builds, NEW s, Sound(s, b), Put(ReMapPoints(s, 0))
  PROVE  /\ images' = s.images /\ ReMappedAll(s, Now', s.images, 0)
         /\ DOMAIN points' = DOMAIN s.points
         /\ \A i \in DOMAIN points' : s.points[i] \in Point
                                      /\ Remaps(s.points[i], points'[i], s.images, 0)
                                      /\ points'[i] \in Point
<1> DEFINE t == ReMapPoints(s, 0)
<1>1. Sound(t, b) /\ t.images = s.images /\ ReMappedAll(s, t, s.images, 0)
  BY ReMapState
<1>2. Now' = t /\ images' = t.images /\ points' = t.points
  BY <1>1, PutNow DEF Put, Sound
<1>3. /\ \A i \in DOMAIN s.points : s.points[i] \in Point
      /\ \A i \in DOMAIN t.points : t.points[i] \in Point
  BY <1>1, StateFields DEF Sound
<1> HIDE DEF t
<1> QED
  BY <1>1, <1>2, <1>3 DEF ReMappedAll

\* A library event ends in such a remap.
LEMMA EventReMaps ==
  ASSUME StateInv,
         \/ \E m \in Libs, b \in Bases : LibraryLoads(m, b)
         \/ \E b \in Bases : LibraryUnloads(b)
  PROVE  \E s : Sound(s, build) /\ Put(ReMapPoints(s, 0))
<1>1. build \in Builds /\ Sound(Now, build)
  BY DEF StateInv
<1>2. ASSUME NEW m \in Libs, NEW b \in Bases, LibraryLoads(m, b)
      PROVE  \E s : Sound(s, build) /\ Put(ReMapPoints(s, 0))
  BY <1>1, <1>2, LibLoadedRight DEF LibraryLoads, Modules
<1>3. ASSUME NEW b \in Bases, LibraryUnloads(b)
      PROVE  \E s : Sound(s, build) /\ Put(ReMapPoints(s, 0))
  BY <1>1, <1>3, LibUnloadedRight DEF LibraryUnloads
<1> QED
  BY <1>2, <1>3

\* After a library came or went no point is active that is not mapped: ExecProg
\* remaps the whole table before it runs on.
THEOREM EventsDecide == Spec => EventsLeaveMapped
<1> DEFINE Event == \/ \E m \in Libs, b \in Bases : LibraryLoads(m, b)
                    \/ \E b \in Bases : LibraryUnloads(b)
           Mapped == \A i \in DOMAIN points' : points'[i].active => ~points'[i].unmapped
<1>1. ASSUME StateInv, Event PROVE Mapped
  <2> SUFFICES ASSUME NEW i \in DOMAIN points', points'[i].active, points'[i].unmapped
               PROVE  FALSE
    OBVIOUS
  <2>1. PICK s : Sound(s, build) /\ Put(ReMapPoints(s, 0))
    BY <1>1, EventReMaps
  <2>2. s.points[i] \in Point /\ Remaps(s.points[i], points'[i], s.images, 0)
    BY <1>1, <2>1, AfterReMap DEF StateInv
  <2> QED
    BY <2>2, RemapsRight DEF Stays, Waits, Lands
<1>2. StateInv => [Event => Mapped]_vars
  BY <1>1
<1> QED
  BY <1>2, StateIsInv, PTL DEF EventsLeaveMapped

\* It is in an image that knows its line.
LEMMA SoundNames == StateInv => NamedFollows
<1> SUFFICES ASSUME StateInv, NEW i \in DOMAIN points,
                    ~points[i].unmapped, points[i].name # None
             PROVE  \E k \in DOMAIN images :
                      Knows(images[k], points[i].name)
                        /\ SymAddr(images[k], points[i].name) = points[i].loc
  BY DEF NamedFollows
<1> DEFINE p == points[i]
<1>1. build \in Builds /\ ImagesOK(images, build) /\ ListOK(images, points)
  BY StateParts
<1>2. PointOK(images, p)
  BY <1>1 DEF ListOK
<1>3. PICK k \in DOMAIN images : Covers(images[k], p.loc) /\ p.name = NameIn(images[k], p.loc)
  BY <1>2 DEF PointOK
<1>4. images[k] \in Image /\ ImageOK(images[k], build)
  BY <1>1, ImageType
<1>5. Knows(images[k], p.name) /\ SymAddr(images[k], p.name) = p.loc
  BY <1>1, <1>3, <1>4, NameInRight
<1> QED
  BY <1>5

\* A mapped breakpoint on a source line is at that line as it is loaded now
\* (UnMapOnePoint, ReMapOnePoint).
THEOREM NamesFollow == Spec => []NamedFollows
BY SoundNames, StateIsInv, PTL

\* The first command of a break command file that names a line is carried out.
THEOREM FileIsCarriedOut == Spec => NamedRestored
<1> DEFINE Carried(f) ==
             LET k == Found(images, f[1].name)  q == points'[1] IN
             IF k = 0 THEN q.unmapped /\ ~q.active /\ q.name = f[1].name
             ELSE /\ ~q.unmapped /\ q.loc = SymAddr(images[k], f[1].name)
                  /\ q.active = f[1].active
<1>1. ASSUME StateInv, NEW f \in Files, f # <<>>, f[1].name # None, RestoreBreaksFromFile(f)
      PROVE  Carried(f)
  <2>1. PICK junk \in [DOMAIN f -> Junk] :
          Put(ReMapPoints([Now EXCEPT !.points = Restored(f, junk, images)], 0))
    BY <1>1 DEF RestoreBreaksFromFile
  <2> DEFINE list == Restored(f, junk, images)
             s == [Now EXCEPT !.points = list]
             p == NamedPoint(f[1], junk[1])
             q == points'[1]
  <2>2. /\ build \in Builds /\ ImagesOK(images, build)
        /\ tmp \in Tmp /\ (tmp.has_address => PointOK(images, tmp.bp))
    BY <1>1, StateParts
  <2>3. ListOK(images, list) /\ 1 \in DOMAIN list /\ list[1] = p
    BY <1>1, <2>2, RestoredRight
  <2> HIDE DEF list
  <2>4. s = [images |-> images, points |-> list, tmp |-> tmp]
    BY DEF Now
  <2>5. Put(ReMapPoints(s, 0))
    BY <2>1 DEF list
  <2> HIDE DEF s
  <2>6. Sound(s, build) /\ s.points = list /\ s.images = images
    BY <2>2, <2>3, <2>4, SoundParts
  <2>7. p \in Point /\ Remaps(p, q, images, 0)
    BY <2>2, <2>3, <2>5, <2>6, AfterReMap
  <2>8. p.unmapped = TRUE /\ p.name = f[1].name /\ p.active = f[1].active /\ p.activate_on_remap = FALSE
    BY DEF NamedPoint
  <2> HIDE DEF p, q
  <2>9. Waits(p, q, images, 0) \/ Lands(p, q, images, 0)
    BY <2>7, <2>8, RemapsRight DEF Stays
  <2>10. CASE Waits(p, q, images, 0)
    <3>1. q.unmapped /\ ~q.active /\ q.name = p.name /\ Found(images, p.name) = 0
      BY <1>1, <2>8, <2>10 DEF Waits, NoTarget
    <3> QED
      BY <2>8, <3>1 DEF q
  <2>11. CASE Lands(p, q, images, 0)
    <3>1. /\ ~q.unmapped /\ Found(images, p.name) # 0
          /\ q.loc = SymAddr(images[Found(images, p.name)], p.name)
      BY <1>1, <2>8, <2>11 DEF Lands, Target
    <3>2. q.active = p.active
      <4>1. q \in Point
        BY <2>2, <2>3, <2>5, <2>6, AfterReMap DEF q
      <4> QED
        BY <2>7, <2>8, <2>11, <4>1 DEF Lands, Point
    <3> QED
      BY <2>8, <3>1, <3>2 DEF q
  <2> QED
    BY <2>9, <2>10, <2>11
<1>2. StateInv =>
        [\A f \in Files : f # <<>> /\ f[1].name # None /\ RestoreBreaksFromFile(f) => Carried(f)]_vars
  BY <1>1
<1> QED
  BY <1>2, StateIsInv, PTL DEF NamedRestored

-------------------------------------------------------------------------------
(* What every arrival of symbols keeps, every load keeps. *)

\* G is kept whenever symbols arrive for an image.
KeptByArrivals(G, b) ==
  \A s \in G, t \in States, k \in Nat :
    Sound(s, b) /\ Sound(t, b) /\ Arrives(s, t, k) => t \in G

\* The same, as a rule for one arrival.
LEMMA ArrivalKeeps ==
  ASSUME NEW b \in Builds, NEW G, KeptByArrivals(G, b), NEW s \in G, Sound(s, b),
         NEW t, Sound(t, b), NEW k, Arrives(s, t, k)
  PROVE  t \in G
<1>1. t \in States /\ ImagesOK(t.images, b)
  BY DEF Sound
<1>2. k \in Nat
  BY <1>1, ImageType DEF Arrives
<1> QED
  BY <1>1, <1>2 DEF KeptByArrivals

\* Libraries, deferred symbols and a start-up keep such a G.
LEMMA LoadsKeep ==
  ASSUME NEW b \in Builds, NEW G, G \subseteq States, KeptByArrivals(G, b),
         NEW s \in G, Sound(s, b)
  PROVE  /\ \A m \in Modules, h \in Bases : LibLoaded(s, m, h, b) \in G
         /\ LoadDeferred(s, b) \in G
         /\ \A m \in Modules, pb \in Bases : \A at \in StartUp(pb) :
              LoadProg(s, m, pb, at, b) \in G
<1>1. ASSUME NEW u \in G, Sound(u, b), NEW m \in Modules, NEW h \in Bases
      PROVE  LibLoaded(u, m, h, b) \in G /\ DoLoadProg(u, m, h, b) \in G
  <2>1. Sound(LibLoaded(u, m, h, b), b) /\ Comes(u, LibLoaded(u, m, h, b), m, h, b)
    BY <1>1, LibLoadedRight
  <2>2. Sound(DoLoadProg(u, m, h, b), b) /\ Comes(u, DoLoadProg(u, m, h, b), m, h, b)
    BY <1>1, DoLoadProgRight
  <2> QED
    BY <1>1, <2>1, <2>2, ArrivalKeeps DEF Comes
<1>2. s.images \in Seq(Image) /\ Len(s.images) \in Nat /\ DOMAIN s.images = 1..Len(s.images)
  <2>1. s.images \in Seq(Image)
    BY StateFields DEF Sound
  <2> QED
    BY <2>1, LenProperties
<1>3. LoadDeferred(s, b) \in G
  <2> DEFINE F == [i \in 0..Len(s.images) |-> G]
  <2>1. \A k \in DOMAIN s.images : \A t \in F[k - 1] :
          Sound(t, b) /\ DOMAIN t.images = DOMAIN s.images => LoadDeferredImage(t, k, b) \in F[k]
    <3> SUFFICES ASSUME NEW k \in DOMAIN s.images, NEW t \in G, Sound(t, b),
                        DOMAIN t.images = DOMAIN s.images
                 PROVE  LoadDeferredImage(t, k, b) \in G
      BY <1>2
    <3> DEFINE u == LoadDeferredImage(t, k, b)
    <3>1. Sound(u, b) /\ (u = t \/ Arrives(t, u, k))
      BY LoadDeferredImageRight
    <3> HIDE DEF u
    <3>2. u \in G
      BY <3>1, ArrivalKeeps
    <3> QED
      BY <3>2 DEF u
  <2>2. s \in F[0] /\ F[Len(s.images)] = G
    BY <1>2
  <2> HIDE DEF F
  <2> QED
    BY <2>1, <2>2, DeferredLoop
<1>4. ASSUME NEW m \in Modules, NEW pb \in Bases, NEW at \in StartUp(pb)
      PROVE  LoadProg(s, m, pb, at, b) \in G
  <2> DEFINE F == [i \in 0..MaxBase |-> G]
  <2>1. at \in [Bases -> Libs \cup {None}]
    BY DEF StartUp
  <2>2. DoLoadProg(s, m, pb, b) \in F[0] /\ F[MaxBase] = G
    BY <1>1, Bounds
  <2>3. \A c \in Bases : \A t \in F[c - 1] : Sound(t, b) => StartLib(t, at, c, b) \in F[c]
    <3> SUFFICES ASSUME NEW c \in Bases, NEW t \in G, Sound(t, b)
                 PROVE  StartLib(t, at, c, b) \in G
      BY Bounds DEF Bases
    <3>1. CASE at[c] = None
      BY <3>1 DEF StartLib
    <3>2. CASE at[c] # None
      <4>1. at[c] \in Modules
        BY <2>1, <3>2 DEF Modules
      <4> QED
        BY <1>1, <3>2, <4>1 DEF StartLib
    <3> QED
      BY <3>1, <3>2
  <2> HIDE DEF F
  <2> QED
    BY <2>1, <2>2, <2>3, LoadLoop
<1> QED
  BY <1>1, <1>3, <1>4

-------------------------------------------------------------------------------
(* Nothing but the user switches a point on. *)

\* A point may be on that was off if a remap of it failed, and what is
\* remembered of that is not forgotten.
Roused(p, q) ==
  /\ q.active /\ ~p.active => q.activate_on_remap
  /\ p.activate_on_remap => q.activate_on_remap
RousedAll(s, t) ==
  DOMAIN t.points = DOMAIN s.points /\ \A i \in DOMAIN s.points : Roused(s.points[i], t.points[i])

\* Nothing is roused by two steps that rouse nothing.
LEMMA RousedTrans ==
  ASSUME NEW s, NEW t, NEW u, RousedAll(s, t), RousedAll(t, u)
  PROVE  RousedAll(s, u)
BY DEF RousedAll, Roused

\* Remapping rouses only what an earlier try had put to sleep.
LEMMA ReMapRouses ==
  ASSUME NEW s \in States, NEW t, NEW imgs, NEW k, ReMappedAll(s, t, imgs, k)
  PROVE  RousedAll(s, t)
<1>1. ASSUME NEW p \in Point, NEW q, Remaps(p, q, imgs, k) PROVE Roused(p, q)
  <2>1. CASE Stays(p, q, imgs, k)
    BY <2>1 DEF Stays, Roused
  <2>2. CASE Waits(p, q, imgs, k)
    BY <2>2 DEF Waits, Roused
  <2>3. CASE Lands(p, q, imgs, k)
    BY <2>3 DEF Lands, Roused
  <2> QED
    BY <1>1, <2>1, <2>2, <2>3, RemapsRight
<1> QED
  BY <1>1, StateFields DEF ReMappedAll, RousedAll

\* Unmapping rouses nothing.
LEMMA UnMapRouses ==
  ASSUME NEW s \in States, NEW t, NEW k, UnMappedAll(s, t, k)
  PROVE  RousedAll(s, t)
<1>1. ASSUME NEW p \in Point, NEW q, UnMapped(p, q, s.images, k) PROVE Roused(p, q)
  <2>1. q.active = p.active /\ q.activate_on_remap = p.activate_on_remap
    BY <1>1 DEF UnMapped, Point
  <2> QED
    BY <2>1 DEF Roused
<1> QED
  BY <1>1, StateFields DEF UnMappedAll, RousedAll

\* Loading, unloading and starting anew, as far as they rouse points.
LEMMA LoadRouses ==
  ASSUME NEW b \in Builds, NEW s, Sound(s, b)
  PROVE  /\ \A m \in Modules, h \in Bases : RousedAll(s, LibLoaded(s, m, h, b))
         /\ RousedAll(s, LoadDeferred(s, b))
         /\ \A m \in Modules, pb \in Bases : \A at \in StartUp(pb) :
              RousedAll(s, LoadProg(s, m, pb, at, b))
<1> DEFINE G == {t \in States : RousedAll(s, t)}
<1>1. s \in G
  BY DEF Sound, RousedAll, Roused
<1>2. KeptByArrivals(G, b)
  <2> SUFFICES ASSUME NEW t \in G, NEW u \in States, NEW k, Arrives(t, u, k)
               PROVE  u \in G
    BY DEF KeptByArrivals
  <2>1. RousedAll(t, u)
    BY ReMapRouses DEF Arrives, RousedAll, Roused
  <2> QED
    BY <2>1, RousedTrans
<1>3. G \subseteq States
  OBVIOUS
<1>4. \A t : t \in G => RousedAll(s, t)
  OBVIOUS
<1> HIDE DEF G
<1> QED
  BY <1>1, <1>2, <1>3, <1>4, LoadsKeep

\* Nor does freeing every image.
LEMMA ReleaseRouses ==
  ASSUME NEW b \in Builds, NEW s, Sound(s, b)
  PROVE  RousedAll(s, ReleaseProgOvlay(s))
<1> DEFINE G == {t \in States : RousedAll(s, t)}
           F == [i \in 0..Len(s.images) |-> G]
<1>1. Len(s.images) \in Nat
  <2>1. s.images \in Seq(Image)
    BY StateFields DEF Sound
  <2> QED
    BY <2>1, LenProperties
<1>2. s \in F[0] /\ F[Len(s.images)] = G
  BY <1>1 DEF Sound, RousedAll, Roused
<1>3. \A i \in 1..Len(s.images) : \A t \in F[i - 1] :
        Sound(t, b) /\ 1 \in DOMAIN t.images => FreeImage(t, 1) \in F[i]
  <2> SUFFICES ASSUME NEW t \in G, Sound(t, b), 1 \in DOMAIN t.images
               PROVE  FreeImage(t, 1) \in G
    BY <1>1
  <2> DEFINE u == FreeImage(t, 1)
  <2>1. \A j \in DOMAIN t.images : 1 <= j
    BY ImageType DEF Sound
  <2>2. Sound(u, b) /\ UnMappedAll(t, u, 1)
    BY <2>1, FreeState
  <2> HIDE DEF u
  <2>3. RousedAll(t, u) /\ u \in States
    BY <2>2, UnMapRouses DEF Sound
  <2>4. u \in G
    BY <2>3, RousedTrans
  <2> QED
    BY <2>4 DEF u
<1> HIDE DEF F
<1>4. ReleaseProgOvlay(s) \in G
  BY <1>2, <1>3, ReleaseLoop
<1> QED
  BY <1>4

\* A step that is none of the user's that switch points on.
NotOn == /\ ~(\E a \in Visible : AddBreak(a)) /\ ~BrkSetAll(TRUE)
         /\ ~(\E i \in DOMAIN points : Ac_DeacPoint(i, TRUE))
         /\ ~(\E f \in Files : RestoreBreaksFromFile(f))
NoneOn == \A i \in DOMAIN points \cap DOMAIN points' :
            points'[i].active /\ ~points[i].active =>
              Len(points') # Len(points) \/ points'[i].activate_on_remap

\* The points of a sound state.
LEMMA PointsAreSeq ==
  ASSUME StateInv
  PROVE  /\ points \in Seq(Point) /\ DOMAIN points = 1..Len(points) /\ Len(points) \in Nat
         /\ \A i \in DOMAIN points : points[i] \in Point /\ PointOK(images, points[i])
<1>1. ListOK(images, points)
  BY StateParts
<1>2. points \in Seq(Point)
  BY <1>1 DEF ListOK
<1>3. DOMAIN points = 1..Len(points) /\ Len(points) \in Nat
  BY <1>2, LenProperties
<1> QED
  BY <1>1, <1>2, <1>3, ElementOfSeq DEF ListOK

\* FindBreak finds a point at the address.
LEMMA FindBreakRight ==
  ASSUME StateInv, NEW a, FindBreak(a) # 0
  PROVE  FindBreak(a) \in DOMAIN points /\ points[FindBreak(a)].loc = a
<1> DEFINE S == {i \in DOMAIN points : points[i].loc = a}
<1>1. S \in SUBSET Nat
  BY PointsAreSeq
<1>2. First(S) \in S
  BY <1>1, FirstIsLeast DEF FindBreak
<1> QED
  BY <1>2 DEF FindBreak

\* The table commands that do not switch points on, and a run.
LEMMA TableRouses ==
  ASSUME StateInv, NotOn,
         \/ \E a \in Visible : SetPoint(a) \/ AddBreak(a) \/ ToggleBreak(a) \/ GoUntil(a)
         \/ \E i \in DOMAIN points : ClearPoint(i) \/ \E act \in BOOLEAN : Ac_DeacPoint(i, act)
         \/ \E act \in BOOLEAN : BrkSetAll(act)
         \/ ExecProg \/ GoUntilEnds \/ BrkAddrRefresh
  PROVE  NoneOn
<1>1. /\ points \in Seq(Point) /\ DOMAIN points = 1..Len(points) /\ Len(points) \in Nat
      /\ \A i \in DOMAIN points : points[i] \in Point
  BY PointsAreSeq
<1>2. ASSUME NEW a \in Visible, SetPoint(a) PROVE NoneOn
  <2> DEFINE p == NewPoint(a, images)
  <2>1. points' = Append(points, p)
    BY <1>2 DEF SetPoint
  <2>2. p \in Point
    BY StateParts, VisibleAddress, NewPointRight
  <2> HIDE DEF p
  <2>3. Len(points') = Len(points) + 1
    BY <1>1, <2>1, <2>2, AppendRight
  <2>4. Len(points') # Len(points)
    <3>1. Len(points) \in Nat
      BY <1>1
    <3> QED
      BY <2>3, <3>1
  <2> QED
    BY <2>4 DEF NoneOn
<1>3. ASSUME NEW k \in DOMAIN points, points' = RemoveAt(points, k) PROVE NoneOn
  <2>1. Len(points') = Len(points) - 1
    BY <1>1, <1>3, RemoveAtProperties
  <2>2. Len(points') # Len(points)
    <3>1. Len(points) \in Nat
      BY <1>1
    <3> QED
      BY <2>1, <3>1
  <2> QED
    BY <2>2 DEF NoneOn
<1>4. ASSUME NEW k \in DOMAIN points, NEW q, points' = [points EXCEPT ![k] = q],
             q.active => points[k].active
      PROVE  NoneOn
  BY <1>4 DEF NoneOn
<1>5. ASSUME NEW new, points' = [i \in DOMAIN points |-> new[i]],
             \A i \in DOMAIN points : new[i].active => points[i].active
      PROVE  NoneOn
  BY <1>5 DEF NoneOn
<1>6. \A p \in Point : ActPoint(p, FALSE).active = FALSE
  BY DEF ActPoint, Point
<1>7. ASSUME NEW a \in Visible, ToggleBreak(a) PROVE NoneOn
  <2> DEFINE k == FindBreak(a)
             q == ActPoint(points[k], FALSE)
  <2>1. k \in DOMAIN points
    BY <1>7, FindBreakRight DEF ToggleBreak
  <2>2. points' = [points EXCEPT ![k] = q] \/ points' = RemoveAt(points, k)
    BY <1>7 DEF ToggleBreak
  <2>3. ~q.active
    BY <1>1, <1>6, <2>1
  <2> HIDE DEF k, q
  <2> QED
    BY <1>3, <1>4, <2>1, <2>2, <2>3
<1>8. ASSUME NEW i \in DOMAIN points, ClearPoint(i) PROVE NoneOn
  BY <1>3, <1>8 DEF ClearPoint
<1>9. ASSUME NEW i \in DOMAIN points, NEW act \in BOOLEAN, Ac_DeacPoint(i, act) PROVE NoneOn
  <2> DEFINE q == ActPoint(points[i], FALSE)
  <2>1. act = FALSE
    BY <1>9 DEF NotOn
  <2>2. points' = [points EXCEPT ![i] = q]
    BY <1>9, <2>1 DEF Ac_DeacPoint
  <2>3. ~q.active
    BY <1>1, <1>6
  <2> HIDE DEF q
  <2> QED
    BY <1>4, <2>2, <2>3
<1>10. ASSUME NEW act \in BOOLEAN, BrkSetAll(act) PROVE NoneOn
  <2> DEFINE new == [i \in DOMAIN points |-> [points[i] EXCEPT !.active = FALSE]]
  <2>1. act = FALSE
    BY <1>10 DEF NotOn
  <2>2. points' = [i \in DOMAIN points |-> new[i]]
    BY <1>10, <2>1 DEF BrkSetAll
  <2>3. \A i \in DOMAIN points : new[i].active = FALSE
    BY <1>1 DEF Point
  <2> HIDE DEF new
  <2> QED
    BY <1>5, <2>2, <2>3
<1>11. ASSUME ExecProg PROVE NoneOn
  <2>1. PICK H : points' = [i \in DOMAIN points |-> [points[i] EXCEPT !.counted = @ \/ i \in H]]
    BY <1>11 DEF ExecProg
  <2> DEFINE new == [i \in DOMAIN points |-> [points[i] EXCEPT !.counted = @ \/ i \in H]]
  <2>2. \A i \in DOMAIN points : new[i].active = points[i].active
    <3> SUFFICES ASSUME NEW i \in DOMAIN points PROVE new[i].active = points[i].active
      OBVIOUS
    <3> DEFINE x == points[i].counted \/ i \in H
    <3>1. new[i] = [points[i] EXCEPT !.counted = x]
      OBVIOUS
    <3> HIDE DEF x, new
    <3> QED
      BY <1>1, <3>1 DEF Point
  <2>3. points' = [i \in DOMAIN points |-> new[i]]
    BY <2>1
  <2> HIDE DEF new
  <2> QED
    BY <1>5, <2>2, <2>3
<1>12. ASSUME BrkAddrRefresh PROVE NoneOn
  <2> DEFINE new == [i \in DOMAIN points |-> SetPointAddr(points[i], points[i].loc, images)]
  <2>1. \A i \in DOMAIN points : new[i].active = points[i].active
    <3> SUFFICES ASSUME NEW i \in DOMAIN points PROVE new[i].active = points[i].active
      OBVIOUS
    <3> DEFINE p == points[i]
               n == IF p.watch THEN None ELSE SymName(images, p.loc)
    <3>1. new[i] = IF p.unmapped THEN p ELSE [p EXCEPT !.loc = p.loc, !.name = n]
      BY DEF SetPointAddr
    <3>2. p \in Point
      BY <1>1
    <3> HIDE DEF p, n, new
    <3>3. new[i].active = p.active
      BY <3>1, <3>2 DEF Point
    <3> QED
      BY <3>3 DEF p
  <2>2. points' = [i \in DOMAIN points |-> new[i]]
    BY <1>12 DEF BrkAddrRefresh
  <2> HIDE DEF new
  <2> QED
    BY <1>5, <2>1, <2>2
<1>13. CASE GoUntilEnds \/ \E a \in Visible : GoUntil(a)
  <2>1. points' = points
    BY <1>13 DEF GoUntil, GoUntilEnds
  <2> QED
    BY <2>1 DEF NoneOn
<1> QED
  BY <1>2, <1>7, <1>8, <1>9, <1>10, <1>11, <1>12, <1>13 DEF NotOn

\* Loading, unloading, saving and restarting.
LEMMA ImagesRouse ==
  ASSUME StateInv,
         \/ \E m \in Libs, b \in Bases : LibraryLoads(m, b)
         \/ \E b \in Bases : LibraryUnloads(b)
         \/ LoadDeferredSymbols \/ SaveBreaksToFile \/ ReStart \/ ProgNew
  PROVE  NoneOn
<1>1. build \in Builds /\ task \in Programs /\ Sound(Now, build)
  BY DEF StateInv
<1>2. ASSUME NEW s \in States, RousedAll(Now, s), Put(s) PROVE NoneOn
  <2>1. points' = s.points /\ Now.points = points
    BY <1>2 DEF Put, Now
  <2> QED
    BY <1>2, <2>1 DEF RousedAll, Roused, NoneOn
<1>3. ASSUME NEW s, Sound(s, build), RousedAll(Now, s), Put(ReMapPoints(s, 0)) PROVE NoneOn
  <2> DEFINE t == ReMapPoints(s, 0)
  <2>1. Sound(t, build) /\ ReMappedAll(s, t, s.images, 0)
    BY <1>1, <1>3, ReMapState
  <2>2. Put(t)
    BY <1>3
  <2> HIDE DEF t
  <2>3. t \in States /\ RousedAll(s, t)
    BY <1>3, <2>1, ReMapRouses DEF Sound
  <2> QED
    BY <1>2, <1>3, <2>2, <2>3, RousedTrans
<1>4. ASSUME NEW m \in Libs, NEW b \in Bases, LibraryLoads(m, b) PROVE NoneOn
  <2> DEFINE s == LibLoaded(Now, m, b, build)
  <2>1. Sound(s, build) /\ RousedAll(Now, s)
    BY <1>1, LibLoadedRight, LoadRouses DEF Modules
  <2>2. Put(ReMapPoints(s, 0))
    BY <1>4 DEF LibraryLoads
  <2> HIDE DEF s
  <2> QED
    BY <1>3, <2>1, <2>2
<1>5. ASSUME NEW b \in Bases, LibraryUnloads(b) PROVE NoneOn
  <2> DEFINE s == LibUnloaded(Now, b)
  <2>1. Sound(s, build) /\ (s = Now \/ \E k : UnMappedAll(Now, s, k))
    BY <1>1, LibUnloadedRight
  <2>2. Put(ReMapPoints(s, 0))
    BY <1>5 DEF LibraryUnloads
  <2> HIDE DEF s
  <2>3. RousedAll(Now, s)
    <3>1. CASE s = Now
      BY <3>1 DEF RousedAll, Roused
    <3>2. CASE \E k : UnMappedAll(Now, s, k)
      BY <1>1, <3>2, UnMapRouses DEF Sound
    <3> QED
      BY <2>1, <3>1, <3>2
  <2> QED
    BY <1>3, <2>1, <2>2, <2>3
<1>6. ASSUME LoadDeferredSymbols PROVE NoneOn
  <2> DEFINE s == LoadDeferred(Now, build)
  <2>1. RousedAll(Now, s) /\ Put(s)
    BY <1>1, <1>6, LoadRouses DEF LoadDeferredSymbols
  <2> HIDE DEF s
  <2>2. points' = s.points /\ Now.points = points
    BY <2>1 DEF Put, Now
  <2> QED
    BY <2>1, <2>2 DEF RousedAll, Roused, NoneOn
<1>7. ASSUME SaveBreaksToFile PROVE NoneOn
  <2> DEFINE s == UnMapPoints(Now, 0)
  <2>1. Sound(s, build) /\ UnMappedAll(Now, s, 0)
    BY <1>1, UnMapState
  <2>2. Put(ReMapPoints(s, 0))
    BY <1>7 DEF SaveBreaksToFile
  <2> HIDE DEF s
  <2>3. RousedAll(Now, s)
    BY <1>1, <2>1, UnMapRouses DEF Sound
  <2> QED
    BY <1>3, <2>1, <2>2, <2>3
<1>8. ASSUME NEW s, Sound(s, build), RousedAll(Now, s), NEW m \in Programs, NEW b \in Builds,
             DoResNew(s, m, b)
      PROVE  NoneOn
  <2> DEFINE t == ReleaseProgOvlay(s)
             r == BPsUnHit(t)
             c == CreateImage(r, None, 0)
  <2>1. RousedAll(s, t)
    BY <1>1, <1>8, ReleaseRouses
  <2>2. Sound(r, b)
    BY <1>1, <1>8, StartedRight
  <2>3. r.points = t.points
    <3>1. r = [t EXCEPT !.tmp = NullTmp(t.tmp)]
      BY DEF BPsUnHit
    <3>2. Sound(t, build)
      BY <1>1, <1>8, ReleaseSound
    <3> HIDE DEF t
    <3> QED
      BY <3>1, <3>2 DEF Sound, States
  <2>4. RousedAll(Now, r)
    <3>1. RousedAll(Now, t)
      BY <1>8, <2>1, RousedTrans
    <3> QED
      BY <2>3, <3>1 DEF RousedAll
  <2>5. c.points = r.points
    <3>1. 0 \in 0..MaxBase /\ None \in Modules \cup {None}
      BY Bounds
    <3> HIDE DEF r
    <3> QED
      BY <2>2, <3>1, CreateState
  <2>6. \/ \E pb \in Bases : \E at \in StartUp(pb) : Put(LoadProg(r, m, pb, at, b))
        \/ Put(c)
    BY <1>8 DEF DoResNew
  <2> HIDE DEF t, r, c
  <2>7. ASSUME NEW pb \in Bases, NEW at \in StartUp(pb), Put(LoadProg(r, m, pb, at, b))
        PROVE  NoneOn
    <3> DEFINE u == LoadProg(r, m, pb, at, b)
    <3>1. RousedAll(r, u) /\ Put(u)
      BY <2>2, <2>7, LoadRouses DEF Modules
    <3> HIDE DEF u
    <3>2. RousedAll(Now, u) /\ points' = u.points /\ Now.points = points
      BY <2>4, <3>1, RousedTrans DEF Put, Now
    <3> QED
      BY <3>2 DEF RousedAll, Roused, NoneOn
  <2>8. CASE Put(c)
    <3>1. points' = r.points /\ Now.points = points
      BY <2>5, <2>8 DEF Put, Now
    <3> QED
      BY <2>4, <3>1 DEF RousedAll, Roused, NoneOn
  <2> QED
    BY <2>6, <2>7, <2>8
<1>9. CASE ReStart
  <2>1. RousedAll(Now, Now)
    BY DEF RousedAll, Roused
  <2> QED
    BY <1>1, <1>8, <1>9, <2>1 DEF ReStart
<1>10. CASE ProgNew
  <2> DEFINE s == BPsDeac(Now)
  <2>1. /\ Sound(s, build)
        /\ s.points = [i \in DOMAIN Now.points |-> [Now.points[i] EXCEPT !.active = FALSE]]
    BY <1>1, DeacRight
  <2>2. \E m \in Programs, b \in Builds : DoResNew(s, m, b)
    BY <1>10 DEF ProgNew
  <2> HIDE DEF s
  <2>3. RousedAll(Now, s)
    <3>1. \A p \in Point : Roused(p, [p EXCEPT !.active = FALSE])
      BY DEF Point, Roused
    <3>2. \A i \in DOMAIN Now.points : Now.points[i] \in Point
      BY <1>1, StateFields DEF Sound
    <3> QED
      BY <2>1, <3>1, <3>2 DEF RousedAll
  <2> QED
    BY <1>8, <2>1, <2>2, <2>3
<1> QED
  BY <1>4, <1>5, <1>6, <1>7, <1>9, <1>10

\* Nothing but the user switches a point on, unless an earlier remap of it
\* failed and was made good.
THEOREM UserActivates == Spec => OnlyUserActivates
<1>1. ASSUME StateInv, [Next]_vars, NotOn PROVE NoneOn \/ UNCHANGED vars
  <2>1. CASE User
    BY <1>1, <2>1, TableRouses, ImagesRouse DEF User, NotOn
  <2>2. CASE Debuggee
    BY <1>1, <2>2, TableRouses, ImagesRouse DEF Debuggee
  <2> QED
    BY <1>1, <2>1, <2>2 DEF Next
<1>2. StateInv /\ [Next]_vars => [NotOn => NoneOn]_vars
  BY <1>1
<1> QED
  BY <1>2, StateIsInv, PTL DEF Spec, OnlyUserActivates, NotOn, NoneOn

-------------------------------------------------------------------------------
(* What the user and a run do to the table changes the status of points,   *)
(* refreshes names, or adds a point at an address of something loaded.     *)

Table == \/ \E a \in Visible : SetPoint(a) \/ AddBreak(a) \/ ToggleBreak(a) \/ GoUntil(a)
         \/ \E i \in DOMAIN points : ClearPoint(i) \/ \E act \in BOOLEAN : Ac_DeacPoint(i, act)
         \/ \E act \in BOOLEAN : BrkSetAll(act)
         \/ ExecProg \/ GoUntilEnds \/ BrkAddrRefresh

Kin(p, q, imgs) ==
  /\ q.loc = p.loc /\ q.locimg = p.locimg /\ q.watch = p.watch /\ q.home = p.home
  /\ q.unmapped = p.unmapped
  /\ q.name = p.name \/ (~p.unmapped /\ q.name = IF p.watch THEN None ELSE SymName(imgs, p.loc))
KinOrNew ==
  \A j \in DOMAIN points' : \/ \E i \in DOMAIN points : Kin(points[i], points'[j], images)
                            \/ \E a \in Visible : points'[j] = NewPoint(a, images)

\* A change of status is one.
LEMMA StatusKin ==
  ASSUME NEW p \in Point, NEW x, NEW imgs
  PROVE  Kin(p, [p EXCEPT !.active = x], imgs) /\ Kin(p, [p EXCEPT !.counted = x], imgs)
BY DEF Kin, Point

\* Every such step does only that, and to nothing else.
LEMMA TableKin ==
  ASSUME StateInv, Table
  PROVE  KinOrNew /\ UNCHANGED <<build, task, mem, images>>
<1>1. /\ points \in Seq(Point) /\ DOMAIN points = 1..Len(points) /\ Len(points) \in Nat
      /\ \A i \in DOMAIN points : points[i] \in Point
  BY PointsAreSeq
<1>2. \A p : Kin(p, p, images)
  BY DEF Kin
<1>3. ASSUME NEW a \in Visible, SetPoint(a) PROVE KinOrNew
  <2> DEFINE p == NewPoint(a, images)
  <2>1. points' = Append(points, p)
    BY <1>3 DEF SetPoint
  <2>2. p \in Point
    BY StateParts, VisibleAddress, NewPointRight
  <2> HIDE DEF p
  <2>3. /\ DOMAIN points' = 1..(Len(points) + 1) /\ points'[Len(points) + 1] = p
        /\ \A i \in 1..Len(points) : points'[i] = points[i]
    BY <1>1, <2>1, <2>2, AppendRight
  <2>4. \A j \in 1..(Len(points) + 1) : j = Len(points) + 1 \/ j \in DOMAIN points
    BY <1>1
  <2> QED
    BY <1>1, <1>2, <2>3, <2>4 DEF KinOrNew, p
<1>4. ASSUME NEW k \in DOMAIN points, points' = RemoveAt(points, k) PROVE KinOrNew
  <2>1. /\ points' \in Seq(Point) /\ Len(points') = Len(points) - 1
        /\ \A i \in 1..(Len(points) - 1) : points'[i] = points[IF i < k THEN i ELSE i + 1]
    BY <1>1, <1>4, RemoveAtProperties
  <2>2. DOMAIN points' = 1..(Len(points) - 1)
    BY <2>1, LenProperties
  <2>3. \A i \in 1..(Len(points) - 1) : (IF i < k THEN i ELSE i + 1) \in DOMAIN points
    BY <1>1
  <2> QED
    BY <1>2, <2>1, <2>2, <2>3 DEF KinOrNew
<1>5. ASSUME NEW k \in DOMAIN points, NEW q, points' = [points EXCEPT ![k] = q],
             Kin(points[k], q, images)
      PROVE  KinOrNew
  BY <1>2, <1>5 DEF KinOrNew
<1>6. ASSUME NEW new, points' = [i \in DOMAIN points |-> new[i]],
             \A i \in DOMAIN points : Kin(points[i], new[i], images)
      PROVE  KinOrNew
  BY <1>6 DEF KinOrNew
<1>7. \A i \in DOMAIN points, act \in BOOLEAN : Kin(points[i], ActPoint(points[i], act), images)
  BY <1>1, <1>2, StatusKin DEF ActPoint
<1>8. ASSUME NEW a \in Visible, AddBreak(a) PROVE KinOrNew
  <2> DEFINE k == FindBreak(a)
             q == [points[k] EXCEPT !.active = TRUE]
  <2>1. k \in DOMAIN points
    BY <1>8, FindBreakRight DEF AddBreak
  <2>2. points' = [points EXCEPT ![k] = q]
    BY <1>8 DEF AddBreak
  <2>3. Kin(points[k], q, images)
    BY <1>1, <2>1, StatusKin
  <2> HIDE DEF k, q
  <2> QED
    BY <1>5, <2>1, <2>2, <2>3
<1>9. ASSUME NEW a \in Visible, ToggleBreak(a) PROVE KinOrNew
  <2> DEFINE k == FindBreak(a)
             q == ActPoint(points[k], FALSE)
  <2>1. k \in DOMAIN points
    BY <1>9, FindBreakRight DEF ToggleBreak
  <2>2. points' = [points EXCEPT ![k] = q] \/ points' = RemoveAt(points, k)
    BY <1>9 DEF ToggleBreak
  <2>3. Kin(points[k], q, images)
    BY <1>7, <2>1
  <2> HIDE DEF k, q
  <2> QED
    BY <1>4, <1>5, <2>1, <2>2, <2>3
<1>10. ASSUME NEW i \in DOMAIN points, ClearPoint(i) PROVE KinOrNew
  BY <1>4, <1>10 DEF ClearPoint
<1>11. ASSUME NEW i \in DOMAIN points, NEW act \in BOOLEAN, Ac_DeacPoint(i, act) PROVE KinOrNew
  <2> DEFINE q == ActPoint(points[i], act)
  <2>1. points' = [points EXCEPT ![i] = q]
    BY <1>11 DEF Ac_DeacPoint
  <2>2. Kin(points[i], q, images)
    BY <1>7
  <2> HIDE DEF q
  <2> QED
    BY <1>5, <2>1, <2>2
<1>12. ASSUME NEW act \in BOOLEAN, BrkSetAll(act) PROVE KinOrNew
  <2> DEFINE new == [i \in DOMAIN points |-> [points[i] EXCEPT !.active = act]]
  <2>1. points' = [i \in DOMAIN points |-> new[i]]
    BY <1>12 DEF BrkSetAll
  <2>2. \A i \in DOMAIN points : Kin(points[i], new[i], images)
    BY <1>1, StatusKin
  <2> HIDE DEF new
  <2> QED
    BY <1>6, <2>1, <2>2
<1>13. ASSUME ExecProg PROVE KinOrNew
  <2>1. PICK H : points' = [i \in DOMAIN points |-> [points[i] EXCEPT !.counted = @ \/ i \in H]]
    BY <1>13 DEF ExecProg
  <2> DEFINE new == [i \in DOMAIN points |-> [points[i] EXCEPT !.counted = @ \/ i \in H]]
  <2>2. \A i \in DOMAIN points : Kin(points[i], new[i], images)
    <3> SUFFICES ASSUME NEW i \in DOMAIN points PROVE Kin(points[i], new[i], images)
      OBVIOUS
    <3> DEFINE x == points[i].counted \/ i \in H
               p == points[i]
    <3>1. new[i] = [p EXCEPT !.counted = x] /\ p \in Point
      BY <1>1
    <3> HIDE DEF x, p, new
    <3>2. Kin(p, [p EXCEPT !.counted = x], images)
      BY <3>1, StatusKin
    <3> QED
      BY <3>1, <3>2 DEF p
  <2>3. points' = [i \in DOMAIN points |-> new[i]]
    BY <2>1
  <2> HIDE DEF new
  <2> QED
    BY <1>6, <2>2, <2>3
<1>14. ASSUME BrkAddrRefresh PROVE KinOrNew
  <2> DEFINE new == [i \in DOMAIN points |-> SetPointAddr(points[i], points[i].loc, images)]
  <2>1. \A i \in DOMAIN points : Kin(points[i], new[i], images)
    <3> SUFFICES ASSUME NEW i \in DOMAIN points PROVE Kin(points[i], new[i], images)
      OBVIOUS
    <3> DEFINE p == points[i]
               n == IF p.watch THEN None ELSE SymName(images, p.loc)
               r == [p EXCEPT !.loc = p.loc, !.name = n]
    <3>1. new[i] = IF p.unmapped THEN p ELSE r
      BY DEF SetPointAddr
    <3>2. p \in Point
      BY <1>1
    <3> HIDE DEF p, n, new
    <3>3. /\ r.loc = p.loc /\ r.locimg = p.locimg /\ r.watch = p.watch /\ r.home = p.home
          /\ r.unmapped = p.unmapped /\ r.name = n
      BY <3>2 DEF Point
    <3>4. Kin(p, new[i], images)
      BY <1>2, <3>1, <3>3 DEF Kin, n
    <3> QED
      BY <3>4 DEF p
  <2>2. points' = [i \in DOMAIN points |-> new[i]]
    BY <1>14 DEF BrkAddrRefresh
  <2> HIDE DEF new
  <2> QED
    BY <1>6, <2>1, <2>2
<1>15. ASSUME GoUntilEnds \/ \E a \in Visible : GoUntil(a) PROVE KinOrNew
  <2>1. points' = points
    BY <1>15 DEF GoUntil, GoUntilEnds
  <2> QED
    BY <1>2, <2>1 DEF KinOrNew
<1>16. KinOrNew
  BY <1>3, <1>8, <1>9, <1>10, <1>11, <1>12, <1>13, <1>14, <1>15 DEF Table
<1>17. UNCHANGED <<build, task, mem, images>>
  BY DEF Table, SetPoint, AddBreak, ToggleBreak, ClearPoint, Ac_DeacPoint, BrkSetAll, ExecProg,
         GoUntilEnds, BrkAddrRefresh, OnlyPoints, GoUntil
<1> QED
  BY <1>16, <1>17

-------------------------------------------------------------------------------
(* No point waits for an image that is there. *)

Settles(imgs, list) == \A i \in DOMAIN list : list[i].unmapped => NoTarget(list[i], imgs, 0)

\* What a point waits for is in its address and its names.
LEMMA NoTargetSame ==
  ASSUME NEW p, NEW q, NEW imgs, NEW k, NoTarget(p, imgs, k),
         q.loc = p.loc, q.locimg = p.locimg, q.name = p.name
  PROVE  NoTarget(q, imgs, k)
<1>1. \A image : ReMapImageAddress(p, image).rc = ReMapImageAddress(q, image).rc
  BY DEF ReMapImageAddress, Remap
<1> QED
  BY <1>1 DEF NoTarget

\* Where symbols are, nothing can be remapped without them.
LEMMA NoTargetWithout ==
  ASSUME NEW b, NEW imgs, ImagesOK(imgs, b), NEW p \in Point,
         \A j \in DOMAIN imgs : imgs[j].syms =>
           /\ p.name # None => ~Knows(imgs[j], p.name)
           /\ p.name = None => ReMapImageAddress(p, imgs[j]).rc # "REMAPPED"
  PROVE  NoTarget(p, imgs, 0)
<1>1. CASE p.name # None
  <2>1. \A j \in DOMAIN imgs : ~Knows(imgs[j], p.name)
    BY <1>1 DEF Knows
  <2>2. Found(imgs, p.name) = 0
    BY <2>1, FoundRight
  <2> QED
    BY <1>1, <2>2 DEF NoTarget
<1>2. CASE p.name = None
  <2>1. \A j \in DOMAIN imgs : ReMapImageAddress(p, imgs[j]).rc # "REMAPPED"
    BY <1>2, ImageType, ReMapImageAddressRight
  <2> QED
    BY <1>2, <2>1 DEF NoTarget
<1> QED
  BY <1>1, <1>2

\* A point without a target has none in any image.
LEMMA NoTargetUse ==
  ASSUME NEW b, NEW imgs, ImagesOK(imgs, b), NEW p, NoTarget(p, imgs, 0), NEW j \in DOMAIN imgs
  PROVE  /\ p.name # None => ~Knows(imgs[j], p.name)
         /\ p.name = None => ReMapImageAddress(p, imgs[j]).rc # "REMAPPED"
BY FoundRight DEF NoTarget

\* After a remap of every point in every image.
LEMMA ReMapSettles ==
  ASSUME NEW s \in States, NEW t, ReMappedAll(s, t, s.images, 0)
  PROVE  Settles(s.images, t.points)
<1> SUFFICES ASSUME NEW i \in DOMAIN s.points, t.points[i].unmapped
             PROVE  NoTarget(t.points[i], s.images, 0)
  BY DEF Settles, ReMappedAll
<1> DEFINE p == s.points[i]
           q == t.points[i]
<1>1. p \in Point /\ Remaps(p, q, s.images, 0)
  BY StateFields DEF ReMappedAll
<1> HIDE DEF p, q
<1>2. Waits(p, q, s.images, 0)
  BY <1>1, RemapsRight DEF Stays, Lands, q
<1>3. NoTarget(q, s.images, 0)
  BY <1>2, NoTargetSame DEF Waits
<1> QED
  BY <1>3 DEF q

\* Symbols that arrive leave nothing waiting for them.
LEMMA ArrivalSettles ==
  ASSUME NEW b \in Builds, NEW s, Sound(s, b), NEW t, Sound(t, b), NEW k, Arrives(s, t, k),
         Settles(s.images, s.points)
  PROVE  Settles(t.images, t.points)
<1>1. /\ ImagesOK(s.images, b) /\ ImagesOK(t.images, b) /\ s \in States /\ t \in States
      /\ \A i \in DOMAIN s.points : s.points[i] \in Point
  BY StateFields DEF Sound
<1>2. ASSUME NEW p \in Point, NoTarget(p, s.images, 0), NoTarget(p, t.images, k)
      PROVE  NoTarget(p, t.images, 0)
  <2>1. CASE p.name # None
    BY <1>2, <2>1 DEF NoTarget
  <2>2. CASE p.name = None
    <3> SUFFICES ASSUME NEW j \in DOMAIN t.images
                 PROVE  ReMapImageAddress(p, t.images[j]).rc # "REMAPPED"
      BY <2>2 DEF NoTarget
    <3>1. CASE j = k
      BY <1>2, <2>2, <3>1 DEF NoTarget
    <3>2. CASE j # k
      <4>1. j \in DOMAIN s.images /\ t.images[j] = s.images[j]
        BY <3>2 DEF Arrives
      <4> QED
        BY <1>2, <2>2, <4>1 DEF NoTarget
    <3> QED
      BY <3>1, <3>2
  <2> QED
    BY <2>1, <2>2
<1>3. CASE ReMappedAll(s, t, t.images, k)
  <2> SUFFICES ASSUME NEW i \in DOMAIN s.points, t.points[i].unmapped
               PROVE  NoTarget(t.points[i], t.images, 0)
    BY <1>3 DEF Settles, ReMappedAll
  <2> DEFINE p == s.points[i]
             q == t.points[i]
  <2>1. p \in Point /\ Remaps(p, q, t.images, k) /\ (p.unmapped => NoTarget(p, s.images, 0))
    BY <1>1, <1>3 DEF ReMappedAll, Settles
  <2> HIDE DEF p, q
  <2>2. /\ p.unmapped /\ NoTarget(p, t.images, k)
        /\ q.loc = p.loc /\ q.locimg = p.locimg /\ q.name = p.name
    BY <2>1, RemapsRight DEF Stays, Waits, Lands, q
  <2>3. NoTarget(q, t.images, 0)
    BY <1>2, <2>1, <2>2, NoTargetSame
  <2> QED
    BY <2>3 DEF q
<1>4. CASE ~t.images[k].syms /\ t.points = s.points
  <2> SUFFICES ASSUME NEW i \in DOMAIN s.points, s.points[i].unmapped
               PROVE  NoTarget(s.points[i], t.images, 0)
    BY <1>4 DEF Settles
  <2> DEFINE p == s.points[i]
  <2>1. p \in Point /\ NoTarget(p, s.images, 0)
    BY <1>1 DEF Settles
  <2> HIDE DEF p
  <2>2. \A j \in DOMAIN t.images : t.images[j].syms => j \in DOMAIN s.images /\ t.images[j] = s.images[j]
    BY <1>4 DEF Arrives
  <2>3. NoTarget(p, t.images, 0)
    BY <1>1, <2>1, <2>2, NoTargetUse, NoTargetWithout
  <2> QED
    BY <2>3 DEF p
<1> QED
  BY <1>3, <1>4 DEF Arrives

\* The steps that end with a remap of every point in every image.
ReMapsAll == \/ \E m \in Libs, b \in Bases : LibraryLoads(m, b)
             \/ \E b \in Bases : LibraryUnloads(b)
             \/ SaveBreaksToFile
             \/ \E file \in Files : RestoreBreaksFromFile(file)

\* They do, from a sound state.
LEMMA ReMapsAllRight ==
  ASSUME StateInv, ReMapsAll
  PROVE  \E s : Sound(s, build) /\ Put(ReMapPoints(s, 0))
<1>1. /\ build \in Builds /\ Sound(Now, build) /\ ImagesOK(images, build)
      /\ tmp \in Tmp /\ (tmp.has_address => PointOK(images, tmp.bp))
  BY StateParts DEF StateInv
<1>2. CASE SaveBreaksToFile
  BY <1>1, <1>2, UnMapState DEF SaveBreaksToFile
<1>3. ASSUME NEW f \in Files, RestoreBreaksFromFile(f)
      PROVE  \E s : Sound(s, build) /\ Put(ReMapPoints(s, 0))
  <2>1. PICK junk \in [DOMAIN f -> Junk] :
          Put(ReMapPoints([Now EXCEPT !.points = Restored(f, junk, images)], 0))
    BY <1>3 DEF RestoreBreaksFromFile
  <2> DEFINE list == Restored(f, junk, images)
             s == [Now EXCEPT !.points = list]
  <2>2. ListOK(images, list)
    BY <1>1, RestoredRight
  <2> HIDE DEF list
  <2>3. s = [images |-> images, points |-> list, tmp |-> tmp]
    BY DEF Now
  <2>4. Put(ReMapPoints(s, 0))
    BY <2>1 DEF list
  <2> HIDE DEF s
  <2>5. Sound(s, build)
    BY <1>1, <2>2, <2>3, SoundParts
  <2> QED
    BY <2>4, <2>5
<1> QED
  BY <1>2, <1>3, EventReMaps DEF ReMapsAll

\* A restart from a sound state: what is loaded is loaded into r.
Restarts(r, b) ==
  \/ \E m \in Programs, pb \in Bases : \E at \in StartUp(pb) :
       mem' = [at EXCEPT ![pb] = m] /\ task' = m /\ Put(LoadProg(r, m, pb, at, b))
  \/ mem' = [c \in Bases |-> None] /\ Put(CreateImage(r, None, 0))

\* A restart frees every image and loads into what is left.
LEMMA RestartRight ==
  ASSUME StateInv, ReStart \/ ProgNew
  PROVE  \E s, t, r : \E b \in Builds :
           /\ build' = b /\ left' = {} /\ Sound(s, build)
           /\ (s = Now /\ task' = task) \/ s = BPsDeac(Now)
           /\ t = ReleaseProgOvlay(s) /\ Sound(t, build) /\ t.images = <<>>
           /\ r = BPsUnHit(t) /\ r.points = t.points /\ r.images = <<>> /\ Sound(r, b)
           /\ Restarts(r, b)
<1>1. build \in Builds /\ task \in Programs /\ Sound(Now, build)
  BY DEF StateInv
<1> DEFINE Goal(s, t, r, b) ==
           /\ build' = b /\ left' = {} /\ Sound(s, build)
           /\ (s = Now /\ task' = task) \/ s = BPsDeac(Now)
           /\ t = ReleaseProgOvlay(s) /\ Sound(t, build) /\ t.images = <<>>
           /\ r = BPsUnHit(t) /\ r.points = t.points /\ r.images = <<>> /\ Sound(r, b)
           /\ Restarts(r, b)
<1>2. ASSUME NEW s, Sound(s, build), NEW m \in Programs, NEW b \in Builds, DoResNew(s, m, b),
             (s = Now /\ m = task) \/ s = BPsDeac(Now)
      PROVE  Goal(s, ReleaseProgOvlay(s), BPsUnHit(ReleaseProgOvlay(s)), b)
  <2> DEFINE t == ReleaseProgOvlay(s)
             r == BPsUnHit(t)
  <2>1. Sound(t, build) /\ t.images = <<>>
    BY <1>1, <1>2, ReleaseSound
  <2>2. Sound(r, b) /\ r.images = <<>>
    BY <1>1, <1>2, StartedRight
  <2> HIDE DEF t
  <2>3. r.points = t.points
    BY <2>1, UnHitRight
  <2>4. Restarts(r, b)
    BY <1>2 DEF DoResNew, Restarts, t
  <2>5. build' = b /\ left' = {} /\ task' = m
    BY <1>2 DEF DoResNew
  <2> HIDE DEF r
  <2> QED
    BY <1>2, <2>1, <2>2, <2>3, <2>4, <2>5 DEF t, r
<1>3. CASE ReStart
  <2>1. PICK b \in Builds : DoResNew(Now, task, b)
    BY <1>3 DEF ReStart
  <2>2. Goal(Now, ReleaseProgOvlay(Now), BPsUnHit(ReleaseProgOvlay(Now)), b)
    BY <1>1, <1>2, <2>1
  <2> HIDE DEF Goal
  <2>3. \E s, t, r : Goal(s, t, r, b)
    BY <2>2
  <2> QED
    BY <2>3 DEF Goal
<1>4. CASE ProgNew
  <2> DEFINE s == BPsDeac(Now)
  <2>1. PICK m \in Programs, b \in Builds : DoResNew(s, m, b)
    BY <1>4 DEF ProgNew
  <2>2. Sound(s, build)
    BY <1>1, DeacRight
  <2>3. Goal(s, ReleaseProgOvlay(s), BPsUnHit(ReleaseProgOvlay(s)), b)
    BY <1>2, <2>1, <2>2
  <2> HIDE DEF Goal
  <2>4. \E u, t, r : Goal(u, t, r, b)
    BY <2>3
  <2> QED
    BY <2>4 DEF Goal
<1> QED
  BY <1>3, <1>4

\* Next, by what is done to the points.
LEMMA NextKinds ==
  ASSUME Next
  PROVE  Table \/ ReMapsAll \/ LoadDeferredSymbols \/ ReStart \/ ProgNew
BY DEF Next, User, Debuggee, Table, ReMapsAll

\* What is loaded is loaded with the table as it was, or into G.
LEMMA StartKeeps ==
  ASSUME NEW b \in Builds, NEW G, G \subseteq States, KeptByArrivals(G, b),
         NEW r \in G, Sound(r, b), CreateImage(r, None, 0) \in G, Restarts(r, b)
  PROVE  Now' \in G
<1>1. PICK s \in G : Put(s)
  BY LoadsKeep DEF Restarts, Modules
<1> QED
  BY <1>1, PutNow

\* No point waits for an image that is there.
LEMMA SettlesIsInv == Spec => []Settles(images, points)
<1>1. Init => Settles(images, points)
  <2> SUFFICES ASSUME Init PROVE Settles(images, points)
    OBVIOUS
  <2>1. points = <<>> /\ DOMAIN <<>> = {}
    BY DEF Init
  <2> QED
    BY <2>1 DEF Settles
<1>2. StateInv /\ Settles(images, points) /\ [Next]_vars => Settles(images, points)'
  <2> SUFFICES ASSUME StateInv, Settles(images, points), [Next]_vars
               PROVE  Settles(images', points')
    OBVIOUS
  <2>1. build \in Builds /\ Sound(Now, build) /\ ImagesOK(images, build)
    BY StateParts DEF StateInv
  <2>2. CASE Table
    <3>1. KinOrNew /\ images' = images
      BY <2>2, TableKin
    <3>2. ASSUME NEW a \in Visible PROVE ~NewPoint(a, images).unmapped
      <4> DEFINE p == NewPoint(a, images)
                 n == IF IsData(a) THEN None ELSE SymName(images, a)
                 w == IsData(a)
      <4>1. p = [ loc |-> a, locimg |-> None, name |-> n,
                  watch |-> w, active |-> TRUE, unmapped |-> FALSE,
                  activate_on_remap |-> FALSE, counted |-> FALSE, home |-> Home(a) ]
        BY StateParts, VisibleAddress, NewPointRight
      <4> HIDE DEF p, n, w
      <4>2. p.unmapped = FALSE
        BY <4>1
      <4> QED
        BY <4>2 DEF p
    <3>3. ASSUME NEW j \in DOMAIN points', points'[j].unmapped
          PROVE  NoTarget(points'[j], images, 0)
      <4>1. PICK i \in DOMAIN points : Kin(points[i], points'[j], images)
        BY <3>1, <3>2, <3>3 DEF KinOrNew
      <4>2. NoTarget(points[i], images, 0)
        BY <3>3, <4>1 DEF Kin, Settles
      <4> QED
        BY <3>3, <4>1, <4>2, NoTargetSame DEF Kin
    <3> QED
      BY <3>1, <3>3 DEF Settles
  <2>3. CASE ReMapsAll
    <3>1. PICK s : Sound(s, build) /\ Put(ReMapPoints(s, 0))
      BY <2>3, ReMapsAllRight
    <3>2. images' = s.images /\ ReMappedAll(s, Now', s.images, 0) /\ s \in States
      BY <2>1, <3>1, AfterReMap DEF Sound
    <3>3. Settles(s.images, Now'.points)
      BY <3>2, ReMapSettles
    <3>4. Now'.points = points'
      BY DEF Now
    <3> QED
      BY <3>2, <3>3, <3>4
  <2> DEFINE G == {t \in States : Settles(t.images, t.points)}
  <2>4. \A b \in Builds : KeptByArrivals(G, b)
    BY ArrivalSettles DEF KeptByArrivals
  <2>5. CASE LoadDeferredSymbols
    <3> DEFINE t == LoadDeferred(Now, build)
    <3>1. Now \in G
      BY <2>1 DEF Sound, Now
    <3>2. G \subseteq States
      OBVIOUS
    <3> HIDE DEF G
    <3>3. t \in G
      BY <2>1, <2>4, <3>1, <3>2, LoadsKeep
    <3>4. Put(t)
      BY <2>5 DEF LoadDeferredSymbols
    <3> HIDE DEF t
    <3> QED
      BY <3>3, <3>4 DEF G, Put
  <2>6. CASE ReStart \/ ProgNew
    <3>1. PICK r, b : b \in Builds /\ r.images = <<>> /\ Sound(r, b) /\ Restarts(r, b)
      BY <2>6, RestartRight
    <3> DEFINE c == CreateImage(r, None, 0)
    <3>2. /\ Sound(c, b) /\ c.points = r.points /\ c.images = Append(r.images, Blank(None, 0))
          /\ Blank(None, 0) \in Image
      <4>1. 0 \in 0..MaxBase /\ None \in Modules \cup {None}
        BY Bounds
      <4> QED
        BY <3>1, <4>1, CreateState
    <3> HIDE DEF c
    <3>3. \A i \in DOMAIN r.points : r.points[i] \in Point
      BY <3>1, StateFields DEF Sound
    <3>4. r \in G
      <4>1. ImagesOK(r.images, b) /\ DOMAIN r.images = {}
        BY <3>1, EmptySeq DEF Sound
      <4>2. Settles(r.images, r.points)
        BY <3>3, <4>1, NoTargetWithout DEF Settles
      <4> QED
        BY <3>1, <4>2 DEF Sound
    <3>5. c \in G
      <4>1. \A j \in DOMAIN c.images : ~c.images[j].syms
        <5>1. <<>> \in Seq(Image) /\ Len(<<>>) = 0
          BY EmptySeq
        <5>2. DOMAIN c.images = 1..1 /\ c.images[1] = Blank(None, 0)
          BY <3>1, <3>2, <5>1, AppendRight
        <5> QED
          BY <5>2 DEF Blank
      <4>2. Settles(c.images, c.points)
        BY <3>2, <3>3, <4>1, NoTargetWithout DEF Settles, Sound
      <4> QED
        BY <3>2, <4>2 DEF Sound
    <3>6. G \subseteq States /\ \A t \in G : Settles(t.images, t.points)
      OBVIOUS
    <3> HIDE DEF G
    <3>7. Now' \in G
      BY <2>4, <3>1, <3>4, <3>5, <3>6, StartKeeps DEF c
    <3>8. Now'.images = images' /\ Now'.points = points'
      BY DEF Now
    <3> QED
      BY <3>6, <3>7, <3>8
  <2>7. CASE UNCHANGED vars
    BY <2>7 DEF vars
  <2> QED
    BY <2>2, <2>3, <2>5, <2>6, <2>7, NextKinds
<1> QED
  BY <1>1, <1>2, StateIsInv, PTL DEF Spec

\* No point waits for an image that is there: symbols that arrive are tried
\* for the whole list (InitImageInfo).
THEOREM NoPointWaits == Spec => []NoneWaits
<1>1. StateInv /\ Settles(images, points) => NoneWaits
  <2> SUFFICES ASSUME StateInv, Settles(images, points), NEW i \in DOMAIN points, points[i].unmapped
               PROVE  IF points[i].name # None THEN Found(images, points[i].name) = 0
                      ELSE ReMapAddress(points[i], images).rc = "ERROR"
    BY DEF NoneWaits
  <2>1. ImagesOK(images, build) /\ points[i] \in Point /\ NoTarget(points[i], images, 0)
    BY StateParts, PointsAreSeq DEF Settles
  <2>2. CASE points[i].name # None
    BY <2>1, <2>2 DEF NoTarget
  <2>3. CASE points[i].name = None
    <3> DEFINE r == ReMapAddress(points[i], images)
    <3>1. /\ r.rc \in {"ERROR", "REMAPPED"}
          /\ r.rc = "REMAPPED" => \E j \in DOMAIN images : InImageAt(points[i], images[j], r.p.loc)
      BY <2>1, ReMapAddressRight
    <3> HIDE DEF r
    <3>2. r.rc # "REMAPPED"
      BY <2>1, <2>3, <3>1 DEF NoTarget, InImageAt
    <3> QED
      BY <2>3, <3>1, <3>2 DEF r
  <2> QED
    BY <2>2, <2>3
<1> QED
  BY <1>1, StateIsInv, SettlesIsInv, PTL

-------------------------------------------------------------------------------
(* Where every module's symbols are found when it is loaded, the list of   *)
(* images is true.                                                         *)

\* One image at most for a base; it has symbols, and the base holds its module.
Apart(imgs) == \A j, k \in DOMAIN imgs : imgs[j].handle = imgs[k].handle => j = k
Live(imgs, at) ==
  /\ Apart(imgs)
  /\ \A k \in DOMAIN imgs : imgs[k].handle # 0 => imgs[k].syms /\ at[imgs[k].handle] = imgs[k].name

\* One base at most for a module.
OneBase(at) == \A c, d \in Bases : at[c] = at[d] /\ at[c] # None => c = d

\* What is loaded while a program starts: libraries up to base c.
Loaded(m, pb, at, c) ==
  [h \in Bases |-> IF h = pb THEN m ELSE IF h <= c THEN at[h] ELSE None]

\* A module that is loaded where nothing is gets its own image.
LEMMA LiveComes ==
  ASSUME AllSymbols, NEW b \in Builds, NEW s, Sound(s, b), NEW at \in [Bases -> Modules \cup {None}],
         Live(s.images, at), NEW m \in Modules, NEW h \in Bases, at[h] = None,
         NEW t, Comes(s, t, m, h, b)
  PROVE  Live(t.images, [at EXCEPT ![h] = m])
<1>1. PICK e \in Image : /\ e.name = m /\ e.handle = h /\ e.syms = HasSymbols(m, Defer)
                         /\ t.images = Append(s.images, e)
  BY DEF Comes
<1>2. e.syms
  BY <1>1 DEF AllSymbols, HasSymbols
<1>3. s.images \in Seq(Image) /\ ImagesOK(s.images, b)
  BY StateFields DEF Sound
<1>4. /\ DOMAIN s.images = 1..Len(s.images) /\ Len(s.images) \in Nat
      /\ DOMAIN t.images = 1..(Len(s.images) + 1)
      /\ t.images[Len(s.images) + 1] = e
      /\ \A i \in 1..Len(s.images) : t.images[i] = s.images[i]
  BY <1>1, <1>3, AppendRight
<1>5. h # 0
  BY Bounds DEF Bases
<1>6. \A k \in DOMAIN s.images : s.images[k].handle # h
  <2> SUFFICES ASSUME NEW k \in DOMAIN s.images, s.images[k].handle = h PROVE FALSE
    OBVIOUS
  <2>1. s.images[k].syms /\ s.images[k].name = None
    BY <1>5 DEF Live
  <2>2. s.images[k].name \in Modules
    BY <1>3, <2>1, ImageType DEF ImageOK
  <2> QED
    BY <2>1, <2>2, NoneAssumption
<1>7. \A j \in DOMAIN t.images : j = Len(s.images) + 1 \/ j \in DOMAIN s.images
  BY <1>4
<1>8. Apart(t.images)
  BY <1>1, <1>4, <1>6, <1>7 DEF Live, Apart
<1>9. ASSUME NEW k \in DOMAIN t.images, t.images[k].handle # 0
      PROVE  t.images[k].syms /\ [at EXCEPT ![h] = m][t.images[k].handle] = t.images[k].name
  <2>1. CASE k = Len(s.images) + 1
    BY <1>1, <1>2, <1>4, <2>1
  <2>2. CASE k \in DOMAIN s.images
    <3>1. t.images[k] = s.images[k]
      BY <1>4, <2>2
    <3>2. /\ s.images[k].syms /\ at[s.images[k].handle] = s.images[k].name
          /\ s.images[k].handle # h
      BY <1>6, <1>9, <2>2, <3>1 DEF Live
    <3>3. s.images[k].handle \in Bases
      BY <1>3, <2>2, <3>2, ImageType DEF ImageOK
    <3> QED
      BY <3>1, <3>2, <3>3
  <2> QED
    BY <1>7, <2>1, <2>2
<1> QED
  BY <1>8, <1>9 DEF Live

\* Images stay apart when one goes.
LEMMA LiveRemove ==
  ASSUME NEW imgs \in Seq(Image), NEW k \in DOMAIN imgs, Apart(imgs)
  PROVE  /\ Apart(RemoveAt(imgs, k))
         /\ \A i \in DOMAIN RemoveAt(imgs, k) :
              \E j \in DOMAIN imgs : j # k /\ RemoveAt(imgs, k)[i] = imgs[j]
<1> DEFINE rest == RemoveAt(imgs, k)
           F(i) == IF i < k THEN i ELSE i + 1
<1>1. DOMAIN imgs = 1..Len(imgs) /\ Len(imgs) \in Nat
  BY LenProperties
<1>2. /\ rest \in Seq(Image) /\ Len(rest) = Len(imgs) - 1
      /\ \A i \in 1..(Len(imgs) - 1) : rest[i] = imgs[F(i)]
  BY <1>1, RemoveAtProperties
<1>3. DOMAIN rest = 1..(Len(imgs) - 1)
  BY <1>2, LenProperties
<1> HIDE DEF rest
<1>4. \A i \in 1..(Len(imgs) - 1) : F(i) \in DOMAIN imgs /\ F(i) # k
  BY <1>1
<1>5. \A i, j \in 1..(Len(imgs) - 1) : F(i) = F(j) => i = j
  BY <1>1
<1> HIDE DEF F
<1>6. Apart(rest)
  BY <1>2, <1>3, <1>4, <1>5 DEF Apart
<1> QED
  BY <1>2, <1>3, <1>4, <1>6 DEF rest

\* After a start-up there is an image for what was loaded and no other.
LEMMA LiveStart ==
  ASSUME AllSymbols, NEW b \in Builds, NEW r, Sound(r, b), r.images = <<>>,
         NEW m \in Programs, NEW pb \in Bases, NEW at \in StartUp(pb)
  PROVE  Live(LoadProg(r, m, pb, at, b).images, [at EXCEPT ![pb] = m])
<1> DEFINE F == [c \in 0..MaxBase |-> {t \in States : Live(t.images, Loaded(m, pb, at, c))}]
           t0 == DoLoadProg(r, m, pb, b)
<1>1. at \in [Bases -> Libs \cup {None}] /\ at[pb] = None /\ m \in Modules
  BY DEF StartUp, Modules
<1>2. \A c \in 0..MaxBase : Loaded(m, pb, at, c) \in [Bases -> Modules \cup {None}]
  BY <1>1 DEF Loaded, Modules
<1>3. t0 \in F[0]
  <2> DEFINE none == [h \in Bases |-> None]
  <2>1. Sound(t0, b) /\ Comes(r, t0, m, pb, b)
    BY <1>1, DoLoadProgRight
  <2>2. Live(r.images, none)
    <3>1. DOMAIN r.images = {}
      BY EmptySeq
    <3> QED
      BY <3>1 DEF Live, Apart
  <2>3. none \in [Bases -> Modules \cup {None}] /\ none[pb] = None
    OBVIOUS
  <2>4. [none EXCEPT ![pb] = m] = Loaded(m, pb, at, 0)
    BY Bounds DEF Loaded, Bases
  <2> HIDE DEF none, t0
  <2>5. Live(t0.images, Loaded(m, pb, at, 0))
    BY <1>1, <2>1, <2>2, <2>3, <2>4, LiveComes
  <2>6. 0 \in 0..MaxBase
    BY Bounds
  <2> QED
    BY <2>1, <2>5, <2>6 DEF Sound
<1>4. \A c \in Bases : \A t \in F[c - 1] : Sound(t, b) => StartLib(t, at, c, b) \in F[c]
  <2> SUFFICES ASSUME NEW c \in Bases, NEW t \in States, Live(t.images, Loaded(m, pb, at, c - 1)),
                      Sound(t, b)
               PROVE  StartLib(t, at, c, b) \in States
                      /\ Live(StartLib(t, at, c, b).images, Loaded(m, pb, at, c))
    <3>1. \A c \in Bases : c \in 0..MaxBase /\ c - 1 \in 0..MaxBase
      BY Bounds DEF Bases
    <3> QED
      BY <3>1
  <2>1. c - 1 \in 0..MaxBase /\ c \in 0..MaxBase /\ ~(c <= c - 1)
        /\ \A h \in Bases : h <= c <=> h = c \/ h <= c - 1
    BY Bounds DEF Bases
  <2>2. CASE at[c] = None
    <3>1. Loaded(m, pb, at, c) = Loaded(m, pb, at, c - 1)
      BY <2>1, <2>2 DEF Loaded
    <3> QED
      BY <2>2, <3>1 DEF StartLib
  <2>3. CASE at[c] # None
    <3>1. at[c] \in Modules /\ c # pb
      BY <1>1, <2>3 DEF Modules
    <3> DEFINE u == LibLoaded(t, at[c], c, b)
    <3>2. Sound(u, b) /\ Comes(t, u, at[c], c, b)
      BY <3>1, LibLoadedRight
    <3>3. Loaded(m, pb, at, c - 1)[c] = None
      BY <2>1, <3>1 DEF Loaded
    <3>4. Loaded(m, pb, at, c) = [Loaded(m, pb, at, c - 1) EXCEPT ![c] = at[c]]
      BY <2>1, <3>1 DEF Loaded
    <3>5. StartLib(t, at, c, b) = u
      BY <2>3 DEF StartLib
    <3> HIDE DEF u
    <3>6. Live(u.images, Loaded(m, pb, at, c))
      BY <1>2, <2>1, <3>1, <3>2, <3>3, <3>4, LiveComes
    <3> QED
      BY <3>2, <3>5, <3>6 DEF Sound
  <2> QED
    BY <2>2, <2>3
<1> DEFINE t == LoadProg(r, m, pb, at, b)
<1>5. F[MaxBase] = {u \in States : Live(u.images, Loaded(m, pb, at, MaxBase))}
  BY Bounds
<1> HIDE DEF F
<1>6. t \in F[MaxBase]
  BY <1>1, <1>3, <1>4, LoadLoop
<1>7. Loaded(m, pb, at, MaxBase) = [at EXCEPT ![pb] = m]
  <2>1. \A h \in Bases : h <= MaxBase
    BY Bounds DEF Bases
  <2>2. Loaded(m, pb, at, MaxBase) = [h \in Bases |-> IF h = pb THEN m ELSE at[h]]
    BY <2>1 DEF Loaded
  <2>3. [at EXCEPT ![pb] = m] = [h \in Bases |-> IF h = pb THEN m ELSE at[h]]
    BY <1>1
  <2> QED
    BY <2>2, <2>3
<1> QED
  BY <1>5, <1>6, <1>7

\* The list of images is true, and no module is loaded twice.
LiveInv == Live(images, mem) /\ OneBase(mem)

\* It holds before the first program.
LEMMA LiveInit == Init => LiveInv
<1> SUFFICES ASSUME Init PROVE LiveInv
  OBVIOUS
<1>1. images = Append(<<>>, Blank(None, 0)) /\ mem = [b \in Bases |-> None]
  BY DEF Init, CreateImage, Blank
<1>2. Blank(None, 0) \in Image
  <2>1. <<>> \in Seq(MapEntry) /\ 0 \in 0..MaxBase
    BY EmptySeq, Bounds
  <2> QED
    BY <2>1 DEF Blank, Image
<1>3. <<>> \in Seq(Image) /\ Len(<<>>) = 0
  BY EmptySeq
<1>4. DOMAIN images = 1..1 /\ images[1] = Blank(None, 0)
  BY <1>1, <1>2, <1>3, AppendRight
<1>5. \A k \in DOMAIN images : k = 1 /\ images[k].handle = 0
  BY <1>4 DEF Blank
<1> QED
  BY <1>1, <1>5 DEF LiveInv, Live, Apart, OneBase

\* Every step keeps it.
LEMMA LiveStep ==
  ASSUME AllSymbols, StateInv, LiveInv, [Next]_vars
  PROVE  LiveInv'
<1>1. /\ build \in Builds /\ Sound(Now, build) /\ ImagesOK(images, build)
      /\ mem \in [Bases -> Modules \cup {None}] /\ Now.images = images
      /\ images \in Seq(Image)
  <2>1. Now.images = images
    BY DEF Now
  <2> QED
    BY <2>1, StateParts DEF StateInv, ImagesOK
<1>2. ASSUME images' = images, mem' = mem PROVE LiveInv'
  BY <1>2 DEF LiveInv
<1>3. CASE Table
  BY <1>2, <1>3, TableKin
<1>4. ASSUME NEW m \in Libs, NEW b \in Bases, LibraryLoads(m, b) PROVE LiveInv'
  <2> DEFINE s == LibLoaded(Now, m, b, build)
  <2>1. /\ mem[b] = None /\ (\A c \in Bases : mem[c] # m) /\ mem' = [mem EXCEPT ![b] = m]
        /\ Put(ReMapPoints(s, 0))
    BY <1>4 DEF LibraryLoads
  <2>2. Sound(s, build) /\ Comes(Now, s, m, b, build) /\ m \in Modules
    BY <1>1, LibLoadedRight DEF Modules
  <2> HIDE DEF s
  <2>3. images' = s.images
    BY <1>1, <2>1, <2>2, AfterReMap
  <2>4. Live(s.images, mem')
    BY <1>1, <2>1, <2>2, LiveComes DEF LiveInv
  <2>5. OneBase(mem')
    BY <1>1, <2>1 DEF OneBase, LiveInv
  <2> QED
    BY <2>3, <2>4, <2>5 DEF LiveInv
<1>5. ASSUME NEW b \in Bases, LibraryUnloads(b) PROVE LiveInv'
  <2> DEFINE s == LibUnloaded(Now, b)
  <2>1. mem' = [mem EXCEPT ![b] = None] /\ Put(ReMapPoints(s, 0))
    BY <1>5 DEF LibraryUnloads
  <2>2. /\ Sound(s, build)
        /\ \/ s = Now /\ \A k \in DOMAIN images : images[k].handle = b =>
                           \E j \in DOMAIN images : images[j].handle = b /\ ~images[j].syms
           \/ \E k \in DOMAIN images : images[k].handle = b /\ s.images = RemoveAt(images, k)
    BY <1>1, LibUnloadedRight
  <2> HIDE DEF s
  <2>3. images' = s.images
    BY <1>1, <2>1, <2>2, AfterReMap
  <2>4. b # 0
    BY Bounds DEF Bases
  <2>5. /\ Apart(s.images)
        /\ \A i \in DOMAIN s.images : \E j \in DOMAIN images :
             images[j].handle # b /\ s.images[i] = images[j]
    <3>1. CASE s = Now /\ \A k \in DOMAIN images : images[k].handle = b =>
                            \E j \in DOMAIN images : images[j].handle = b /\ ~images[j].syms
      <4>1. \A k \in DOMAIN images : images[k].handle # b
        BY <2>4, <3>1 DEF LiveInv, Live
      <4> QED
        BY <1>1, <3>1, <4>1 DEF LiveInv, Live
    <3>2. ASSUME NEW k \in DOMAIN images, images[k].handle = b, s.images = RemoveAt(images, k)
          PROVE  /\ Apart(s.images)
                 /\ \A i \in DOMAIN s.images : \E j \in DOMAIN images :
                      images[j].handle # b /\ s.images[i] = images[j]
      <4>1. Apart(images)
        BY DEF LiveInv, Live
      <4>2. /\ Apart(s.images)
            /\ \A i \in DOMAIN s.images : \E j \in DOMAIN images : j # k /\ s.images[i] = images[j]
        BY <1>1, <3>2, <4>1, LiveRemove
      <4>3. \A j \in DOMAIN images : j # k => images[j].handle # b
        BY <3>2, <4>1 DEF Apart
      <4> QED
        BY <4>2, <4>3
    <3> QED
      BY <2>2, <3>1, <3>2
  <2>6. Live(s.images, mem')
    <3>1. ASSUME NEW i \in DOMAIN s.images, s.images[i].handle # 0
          PROVE  s.images[i].syms /\ mem'[s.images[i].handle] = s.images[i].name
      <4>1. PICK j \in DOMAIN images : images[j].handle # b /\ s.images[i] = images[j]
        BY <2>5
      <4>2. images[j].syms /\ mem[images[j].handle] = images[j].name
        BY <3>1, <4>1 DEF LiveInv, Live
      <4>3. images[j].handle \in Bases
        BY <1>1, <4>2, ImageType DEF ImageOK
      <4> QED
        BY <1>1, <2>1, <4>1, <4>2, <4>3
    <3> QED
      BY <2>5, <3>1 DEF Live
  <2>7. OneBase(mem')
    BY <1>1, <2>1 DEF OneBase, LiveInv
  <2> QED
    BY <2>3, <2>6, <2>7 DEF LiveInv
<1>6. CASE SaveBreaksToFile
  <2>1. Sound(UnMapPoints(Now, 0), build) /\ UnMapPoints(Now, 0).images = images
    BY <1>1, UnMapState
  <2> DEFINE s == UnMapPoints(Now, 0)
  <2>2. Put(ReMapPoints(s, 0)) /\ mem' = mem
    BY <1>6 DEF SaveBreaksToFile
  <2> HIDE DEF s
  <2>3. images' = images
    BY <1>1, <2>1, <2>2, AfterReMap DEF s
  <2> QED
    BY <1>2, <2>2, <2>3
<1>7. ASSUME NEW f \in Files, RestoreBreaksFromFile(f) PROVE LiveInv'
  BY <1>2, <1>7 DEF RestoreBreaksFromFile, Put, ReMapPoints, Now
<1>8. CASE LoadDeferredSymbols
  <2>1. \A k \in DOMAIN images : ~images[k].deferred
    <3> SUFFICES ASSUME NEW k \in DOMAIN images, images[k].deferred PROVE FALSE
      OBVIOUS
    <3>1. images[k].handle \in Bases /\ ~images[k].syms
      BY <1>1, ImageType DEF ImageOK
    <3> QED
      BY <3>1, Bounds DEF LiveInv, Live, Bases
  <2> DEFINE F == [i \in 0..Len(images) |-> {Now}]
             t == LoadDeferred(Now, build)
  <2>2. Now \in F[0] /\ F[Len(images)] = {Now} /\ DOMAIN images = 1..Len(images)
        /\ Len(images) \in Nat
    BY <1>1, LenProperties
  <2>3. \A k \in DOMAIN Now.images : \A u \in F[k - 1] :
          Sound(u, build) /\ DOMAIN u.images = DOMAIN Now.images
            => LoadDeferredImage(u, k, build) \in F[k]
    <3> SUFFICES ASSUME NEW k \in DOMAIN images PROVE LoadDeferredImage(Now, k, build) = Now
      BY <1>1, <2>2
    <3> QED
      BY <1>1, <2>1 DEF LoadDeferredImage
  <2> HIDE DEF F
  <2>4. t = Now
    BY <1>1, <2>2, <2>3, DeferredLoop
  <2>5. Put(t) /\ mem' = mem
    BY <1>8 DEF LoadDeferredSymbols
  <2> HIDE DEF t
  <2> QED
    BY <1>1, <1>2, <2>4, <2>5 DEF Put
<1>9. CASE ReStart \/ ProgNew
  <2>1. PICK r, b : b \in Builds /\ r.images = <<>> /\ Sound(r, b) /\ Restarts(r, b)
    BY <1>9, RestartRight
  <2>2. ASSUME NEW m \in Programs, NEW pb \in Bases, NEW at \in StartUp(pb),
               mem' = [at EXCEPT ![pb] = m], Put(LoadProg(r, m, pb, at, b))
        PROVE  LiveInv'
    <3>1. Live(images', mem')
      BY <2>1, <2>2, LiveStart DEF Put
    <3>2. OneBase(mem')
      <4>1. /\ at \in [Bases -> Libs \cup {None}] /\ m \notin Libs /\ m # None
            /\ \A c, d \in Bases : c # d /\ at[c] = at[d] => at[c] = None
        BY ModulesAssumption, NoneAssumption DEF StartUp, Modules
      <4> QED
        BY <2>2, <4>1 DEF OneBase
    <3> QED
      BY <3>1, <3>2 DEF LiveInv
  <2>3. ASSUME mem' = [c \in Bases |-> None], Put(CreateImage(r, None, 0)) PROVE LiveInv'
    <3>1. images' = Append(<<>>, Blank(None, 0))
      <4>1. 0 \in 0..MaxBase /\ None \in Modules \cup {None}
        BY Bounds
      <4>2. CreateImage(r, None, 0).images = Append(r.images, Blank(None, 0))
        BY <2>1, <4>1, CreateState
      <4> QED
        BY <2>1, <2>3, <4>2 DEF Put
    <3>2. Blank(None, 0) \in Image
      <4>1. <<>> \in Seq(MapEntry) /\ 0 \in 0..MaxBase
        BY EmptySeq, Bounds
      <4> QED
        BY <4>1 DEF Blank, Image
    <3>3. <<>> \in Seq(Image) /\ Len(<<>>) = 0
      BY EmptySeq
    <3>4. DOMAIN images' = 1..1 /\ images'[1] = Blank(None, 0)
      BY <3>1, <3>2, <3>3, AppendRight
    <3>5. \A k \in DOMAIN images' : k = 1 /\ images'[k].handle = 0
      BY <3>4 DEF Blank
    <3> QED
      BY <2>3, <3>5 DEF LiveInv, Live, Apart, OneBase
  <2> QED
    BY <2>1, <2>2, <2>3 DEF Restarts
<1>10. CASE UNCHANGED vars
  BY <1>2, <1>10 DEF vars
<1> QED
  BY <1>3, <1>4, <1>5, <1>6, <1>7, <1>8, <1>9, <1>10, NextKinds DEF ReMapsAll

\* It holds of every reachable state.
LEMMA LiveIsInv ==
  ASSUME AllSymbols
  PROVE  Spec => []LiveInv
<1>1. Init => LiveInv
  BY LiveInit
<1>2. StateInv /\ LiveInv /\ [Next]_vars => LiveInv'
  BY LiveStep
<1> QED
  BY <1>1, <1>2, StateIsInv, PTL DEF Spec

\* Where every module's symbols are found when it is loaded, no image with
\* symbols is kept of a module that is gone.
THEOREM ImagesStayLive ==
  ASSUME AllSymbols
  PROVE  Spec => []ImagesLive
<1>1. StateInv /\ LiveInv => ImagesLive
  <2> SUFFICES ASSUME StateInv, LiveInv, NEW k \in DOMAIN images, images[k].syms
               PROVE  mem[images[k].handle] = images[k].name
    BY DEF ImagesLive
  <2>1. images[k].handle \in Bases
    BY StateParts, ImageType DEF ImageOK
  <2> QED
    BY <2>1, Bounds DEF LiveInv, Live, Bases
<1> QED
  BY <1>1, StateIsInv, LiveIsInv, PTL

-------------------------------------------------------------------------------
(* Where a point was set, and where it is.                                 *)

\* A name no rebuild takes out of its segment.
Fits(n) == \A c \in Builds :
             c[n.img][n.line] # None => c[n.img][n.line].off + n.diff <= MaxOff

\* The line a place is named after is the nearest.
LEMMA CueNearest ==
  ASSUME NEW image, NEW at, CueName(image, at) # None
  PROVE  LET n == CueName(image, at)
             cues == CuesBefore(image, at)
         IN /\ n.img = image.name /\ n.line \in cues
            /\ n.diff = at.off - image.lines[n.line].off
            /\ \A d \in cues : image.lines[d].off <= image.lines[n.line].off
<1> DEFINE cues == CuesBefore(image, at)
           near == {l \in cues : \A d \in cues : image.lines[d].off <= image.lines[l].off}
           l == CHOOSE x \in near : TRUE
           n == [img |-> image.name, line |-> l, diff |-> at.off - image.lines[l].off]
<1>1. CueName(image, at) = IF near = {} THEN None ELSE n
  BY DEF CueName
<1>2. near # {}
  BY <1>1
<1>3. l \in near
  BY <1>2
<1>4. CueName(image, at) = n
  BY <1>1, <1>2
<1>5. l \in cues /\ \A d \in cues : image.lines[d].off <= image.lines[l].off
  BY <1>3
<1> HIDE DEF near, l, cues
<1>6. n.img = image.name /\ n.line = l /\ n.diff = at.off - image.lines[l].off
  OBVIOUS
<1> QED
  BY <1>4, <1>5, <1>6 DEF cues

\* The name an image gives an address fits every build.
LEMMA NameFits ==
  ASSUME LinesStay, NEW b \in Builds, NEW image, ImageOK(image, b), NEW a,
         Covers(image, a), NameIn(image, a) # None
  PROVE  Fits(NameIn(image, a))
<1> DEFINE at == PlaceOf(image, a)
           n == NameIn(image, a)
           m == image.name
<1>1. at \in Place /\ m \in Modules /\ image.lines = b[m]
  BY CoversPlace DEF ImageOK, Covers
<1>2. CuesBefore(image, at) = CuesBefore(LinesOf(b, m), at)
  BY <1>1 DEF CuesBefore, LinesOf
<1>3. /\ n.img = m /\ n.line \in CuesBefore(image, at)
      /\ n.diff = at.off - b[m][n.line].off
      /\ \A d \in CuesBefore(image, at) : b[m][d].off <= b[m][n.line].off
  BY <1>1, CueNearest DEF NameIn
<1>4. n.line \in Lines
  BY <1>3 DEF CuesBefore
<1> HIDE DEF at, n, m
<1>5. \A c \in Builds : c[m][n.line] # None => c[m][n.line].off + (at.off - b[m][n.line].off) <= MaxOff
  BY <1>1, <1>2, <1>3, <1>4 DEF LinesStay
<1> QED
  BY <1>3, <1>5 DEF Fits, n

\* So does the one SetPointAddr finds.
LEMMA SymNameFits ==
  ASSUME LinesStay, NEW b \in Builds, NEW imgs, ImagesOK(imgs, b), NEW a, SymName(imgs, a) # None
  PROVE  Fits(SymName(imgs, a))
<1>1. PICK k \in DOMAIN imgs : Covers(imgs[k], a) /\ SymName(imgs, a) = NameIn(imgs[k], a)
  BY SymNameRight
<1>2. ImageOK(imgs[k], b)
  BY ImageType
<1> QED
  BY <1>1, <1>2, NameFits

\* An image covers its places, and no other image does.
LEMMA OwnImage ==
  ASSUME NEW b, NEW imgs, ImagesOK(imgs, b), Apart(imgs),
         NEW j \in DOMAIN imgs, imgs[j].syms, NEW at \in Place
  PROVE  LET a == At(imgs[j].handle, at) IN
         /\ DeAliasAddrMod(imgs, a) = j /\ Covers(imgs[j], a)
         /\ PlaceOf(imgs[j], a) = at /\ SymName(imgs, a) = CueName(imgs[j], at)
<1> DEFINE a == At(imgs[j].handle, at)
           own == DeAliasAddrMod(imgs, a)
<1>1. /\ imgs[j] \in Image /\ ImageOK(imgs[j], b) /\ j # 0
      /\ imgs[j].handle \in Bases
  BY ImageType DEF ImageOK
<1>2. Covers(imgs[j], a)
  BY DEF Covers
<1>3. own # 0 /\ own \in DOMAIN imgs /\ Covers(imgs[own], a)
  BY <1>2, DeAlias
<1>4. own = j
  <2>1. ImageOK(imgs[own], b)
    BY <1>3, ImageType
  <2>2. imgs[own].handle = imgs[j].handle
    BY <1>1, <1>2, <1>3, <2>1, CoversOneBase
  <2> QED
    BY <1>3, <2>2 DEF Apart
<1>5. PlaceOf(imgs[j], a) = at
  BY <1>1, PlaceOfAddress
<1>6. SymName(imgs, a) = CueName(imgs[j], at)
  BY <1>3, <1>4, <1>5 DEF SymName
<1> QED
  BY <1>2, <1>4, <1>5, <1>6

\* What a covered address is the place of, where images are apart.
LEMMA OwnerOf ==
  ASSUME NEW b, NEW imgs, ImagesOK(imgs, b), Apart(imgs), NEW j \in DOMAIN imgs, NEW a,
         Covers(imgs[j], a)
  PROVE  /\ DeAliasAddrMod(imgs, a) = j /\ SymName(imgs, a) = NameIn(imgs[j], a)
         /\ imgs[j].syms /\ PlaceOf(imgs[j], a) \in Place
         /\ At(imgs[j].handle, PlaceOf(imgs[j], a)) = a
<1> DEFINE at == PlaceOf(imgs[j], a)
<1>1. at \in Place /\ At(imgs[j].handle, at) = a /\ imgs[j].syms
  BY ImageType, CoversPlace DEF Covers
<1> HIDE DEF at
<1>2. DeAliasAddrMod(imgs, a) = j /\ SymName(imgs, a) = CueName(imgs[j], at)
  BY <1>1, OwnImage
<1> QED
  BY <1>1, <1>2 DEF at, NameIn

Beyond(p, d) == [seg |-> p.seg, off |-> p.off + d]

\* Its address is that much further on.
LEMMA AtBeyond ==
  ASSUME NEW h \in Bases, NEW p \in Place, NEW d \in Nat
  PROVE  At(h, Beyond(p, d)) = [At(h, p) EXCEPT !.o = @ + d]
<1>1. p.seg \in Nat /\ p.off \in Nat /\ h \in Nat
  BY Bounds DEF Place, Segs, Bases
<1>2. CASE Flat
  <2> DEFINE x == (h - 1) * ModSize
             y == (p.seg - 1) * SegSize
  <2>1. x \in Int /\ y \in Int
    BY <1>1, Bounds
  <2>2. At(h, p) = [b |-> 1, s |-> 1, o |-> x + y + p.off]
        /\ At(h, Beyond(p, d)) = [b |-> 1, s |-> 1, o |-> x + y + (p.off + d)]
    BY <1>2 DEF At, Beyond
  <2> HIDE DEF x, y
  <2>3. x + y + (p.off + d) = (x + y + p.off) + d
    BY <1>1, <2>1
  <2> QED
    BY <2>2, <2>3
<1>3. CASE ~Flat
  BY <1>3 DEF At, Beyond
<1> QED
  BY <1>2, <1>3

\* A name that fits is at a place of the image that knows it, on a line.
LEMMA NameLands ==
  ASSUME NEW b \in Builds, NEW image \in Image, ImageOK(image, b), NEW n \in Name, Knows(image, n),
         Fits(n)
  PROVE  LET c == image.lines[n.line]
             at == Beyond(c, n.diff)
         IN /\ c \in Place /\ at \in Place /\ SymAddr(image, n) = At(image.handle, at)
            /\ CueName(image, at) # None
<1> DEFINE c == image.lines[n.line]
           at == Beyond(c, n.diff)
<1>1. /\ image.syms /\ image.name = n.img /\ n.line \in Lines /\ n.diff \in 0..MaxOff
      /\ image.name \in Modules /\ image.handle \in Bases /\ image.lines = b[n.img]
  BY DEF Knows, ImageOK, Name
<1>2. c \in Place /\ c # None /\ c.off + n.diff <= MaxOff
  BY <1>1 DEF Image, Knows, Fits
<1>3. c.off \in Nat /\ n.diff \in Nat /\ c.seg \in Segs /\ MaxOff \in Nat
  BY <1>1, <1>2, Bounds DEF Place
<1> HIDE DEF c
<1>4. at \in Place /\ at.seg = c.seg /\ at.off = c.off + n.diff
  BY <1>2, <1>3 DEF Beyond, Place
<1>5. SymAddr(image, n) = At(image.handle, at)
  BY <1>1, <1>2, <1>3, AtBeyond DEF SymAddr, c
<1>6. n.line \in CuesBefore(image, at)
  BY <1>1, <1>2, <1>3, <1>4 DEF CuesBefore, c
<1> HIDE DEF at
<1>7. CueName(image, at) \in Name
  BY <1>1, <1>4, <1>6, CueNameRight DEF Image
<1> QED
  BY <1>2, <1>4, <1>5, <1>7, NoneAssumption DEF c, at

\* The image is where the user meant p, and names no line there unless p is a
\* watchpoint.
AtHome(image, p) ==
  /\ image.syms /\ image.name = p.home.img /\ At(image.handle, p.home.at) = p.loc
  /\ p.watch \/ CueName(image, p.home.at) = None

\* A point without a line is where it was meant, or waits with that place.
HomeOK(imgs, p) ==
  p.home # None /\ p.name = None =>
    IF p.unmapped THEN p.locimg = p.home.img /\ p.loc = Relative(p.home.at)
    ELSE \E k \in DOMAIN imgs : AtHome(imgs[k], p)

\* Only a breakpoint is kept by a name, and then by one that fits.
NameOK(p) ==
  /\ ~p.unmapped /\ p.name # None => ~p.watch
  /\ p.home # None /\ p.name # None => ~p.watch /\ Fits(p.name)

Kept(imgs, p) == HomeOK(imgs, p) /\ NameOK(p)

\* A point that has just been named where it is.
LEMMA NamedKept ==
  ASSUME LinesStay, NEW b \in Builds, NEW imgs, ImagesOK(imgs, b), Apart(imgs),
         NEW q, ~q.unmapped, q.name = IF q.watch THEN None ELSE SymName(imgs, q.loc),
         q.home # None /\ q.name = None =>
           \E j \in DOMAIN imgs : /\ imgs[j].syms /\ imgs[j].name = q.home.img
                                  /\ q.home.at \in Place /\ At(imgs[j].handle, q.home.at) = q.loc
  PROVE  Kept(imgs, q)
<1>1. NameOK(q)
  <2>1. q.name # None => ~q.watch /\ Fits(q.name)
    BY SymNameFits
  <2> QED
    BY <2>1 DEF NameOK
<1>2. HomeOK(imgs, q)
  <2> SUFFICES ASSUME q.home # None, q.name = None
               PROVE  \E k \in DOMAIN imgs : AtHome(imgs[k], q)
    BY DEF HomeOK
  <2>1. PICK j \in DOMAIN imgs : /\ imgs[j].syms /\ imgs[j].name = q.home.img
                                 /\ q.home.at \in Place /\ At(imgs[j].handle, q.home.at) = q.loc
    OBVIOUS
  <2>2. SymName(imgs, q.loc) = CueName(imgs[j], q.home.at)
    BY <2>1, OwnImage
  <2>3. AtHome(imgs[j], q)
    BY <2>1, <2>2 DEF AtHome
  <2> QED
    BY <2>3
<1> QED
  BY <1>1, <1>2 DEF Kept

\* A remap keeps a point; imgs were the images before.
LEMMA RemapKeeps ==
  ASSUME LinesStay, NEW b \in Builds, NEW imgs, NEW more, ImagesOK(more, b), Apart(more),
         \A j \in DOMAIN imgs : imgs[j].syms => \E i \in DOMAIN more : more[i] = imgs[j],
         NEW p \in Point, Kept(imgs, p), NEW k, NEW q, Remaps(p, q, more, k)
  PROVE  Kept(more, q)
<1>1. CASE Stays(p, q, more, k)
  <2>1. q = p
    BY <1>1 DEF Stays
  <2>2. HomeOK(more, p)
    BY DEF Kept, HomeOK, AtHome
  <2> QED
    BY <2>1, <2>2 DEF Kept
<1>2. CASE Waits(p, q, more, k)
  BY <1>2 DEF Waits, Kept, HomeOK, NameOK
<1>3. CASE Lands(p, q, more, k)
  <2>1. /\ p.unmapped /\ Target(p, more, k, q.loc) /\ ~q.unmapped
        /\ q.name = (IF p.watch THEN None ELSE SymName(more, q.loc))
        /\ q.watch = p.watch /\ q.home = p.home
    BY <1>3 DEF Lands
  <2>2. q.name = IF q.watch THEN None ELSE SymName(more, q.loc)
    BY <2>1
  <2>3. ASSUME q.home # None, q.name = None
        PROVE  \E j \in DOMAIN more : /\ more[j].syms /\ more[j].name = q.home.img
                                      /\ q.home.at \in Place /\ At(more[j].handle, q.home.at) = q.loc
    <3>1. p.home.at \in Place
      BY <2>1, <2>3, PointFields
    <3>2. CASE p.name = None
      <4>1. PICK j \in DOMAIN more : InImageAt(p, more[j], q.loc)
        BY <2>1, <3>2 DEF Target
      <4>2. p.locimg = p.home.img /\ p.loc = Relative(p.home.at)
        BY <2>1, <2>3, <3>2 DEF Kept, HomeOK
      <4>3. more[j] \in Image /\ ImageOK(more[j], b)
        BY ImageType
      <4> DEFINE r == ReMapImageAddress(p, more[j])
      <4>4. r.rc = "REMAPPED" /\ r.p.loc = q.loc
        BY <4>1 DEF InImageAt
      <4>5. more[j].syms /\ p.locimg = more[j].name
        BY <4>3, <4>4, ReMapImageAddressRight
      <4>6. r.p = [p EXCEPT !.locimg = None, !.loc = At(more[j].handle, p.home.at)]
        BY <3>1, <4>2, <4>3, <4>5, ReMapImageAddressRight
      <4> HIDE DEF r
      <4>7. r.p.loc = At(more[j].handle, p.home.at)
        BY <4>6 DEF Point
      <4> QED
        BY <2>1, <3>1, <4>2, <4>4, <4>5, <4>7
    <3>3. CASE p.name # None
      <4>1. ~p.watch /\ Fits(p.name)
        BY <2>1, <2>3, <3>3 DEF Kept, NameOK
      <4> DEFINE f == Found(more, p.name)
                 n == p.name
      <4>2. f # 0 /\ q.loc = SymAddr(more[f], n)
        BY <2>1, <3>3 DEF Target
      <4>3. f \in DOMAIN more /\ Knows(more[f], n)
        BY <4>2, FoundRight
      <4>4. more[f] \in Image /\ ImageOK(more[f], b) /\ n \in Name /\ more[f].syms
        BY <3>3, <4>3, ImageType, PointFields DEF Knows
      <4> HIDE DEF f, n
      <4> DEFINE at == Beyond(more[f].lines[n.line], n.diff)
      <4>5. at \in Place /\ q.loc = At(more[f].handle, at) /\ CueName(more[f], at) # None
        BY <4>1, <4>2, <4>3, <4>4, NameLands DEF n
      <4> HIDE DEF at
      <4>6. SymName(more, q.loc) # None
        BY <4>3, <4>4, <4>5, OwnImage
      <4> QED
        BY <2>1, <2>3, <4>1, <4>6
    <3> QED
      BY <3>2, <3>3
  <2> QED
    BY <2>1, <2>2, <2>3, NamedKept
<1> QED
  BY <1>1, <1>2, <1>3, RemapsRight

\* So does unmapping; the images but the k-th stay.
LEMMA UnMapKeeps ==
  ASSUME NEW b \in Builds, NEW imgs, ImagesOK(imgs, b), Apart(imgs), NEW rest, NEW k,
         \A j \in DOMAIN imgs : j # k => \E i \in DOMAIN rest : rest[i] = imgs[j],
         NEW p \in Point, Kept(imgs, p), NEW q, UnMapped(p, q, imgs, k)
  PROVE  Kept(rest, q)
<1> DEFINE own == DeAliasAddrMod(imgs, p.loc)
<1>1. p.home # None => p.home.at \in Place
  BY PointFields
<1>2. ASSUME p.home # None, p.name = None, ~p.unmapped
      PROVE  /\ own \in DOMAIN imgs /\ own # 0 /\ AtHome(imgs[own], p)
             /\ PlaceOf(imgs[own], p.loc) = p.home.at
  <2>1. PICK j \in DOMAIN imgs : AtHome(imgs[j], p)
    BY <1>2 DEF Kept, HomeOK
  <2>2. own = j /\ PlaceOf(imgs[j], p.loc) = p.home.at
    BY <1>1, <1>2, <2>1, OwnImage DEF AtHome
  <2>3. j # 0
    BY ImageType
  <2> QED
    BY <2>1, <2>2, <2>3
<1> HIDE DEF own
<1>3. CASE q = p /\ (p.unmapped \/ (k # 0 /\ own # k) \/ (own = 0 /\ p.name = None))
  <2>1. HomeOK(rest, p)
    <3> SUFFICES ASSUME p.home # None, p.name = None, ~p.unmapped
                 PROVE  \E i \in DOMAIN rest : AtHome(rest[i], p)
      BY DEF Kept, HomeOK
    <3>1. own \in DOMAIN imgs /\ own # k /\ AtHome(imgs[own], p)
      BY <1>2, <1>3
    <3> QED
      BY <3>1
  <2> QED
    BY <1>3, <2>1 DEF Kept
<1>4. CASE p.name # None /\ ~p.unmapped /\ q = [p EXCEPT !.unmapped = TRUE]
  <2>1. q.unmapped = TRUE /\ q.name = p.name /\ q.home = p.home /\ q.watch = p.watch
    BY <1>4 DEF Point
  <2> QED
    BY <1>4, <2>1 DEF Kept, HomeOK, NameOK
<1>5. CASE /\ p.name = None /\ own # 0 /\ ~p.unmapped
           /\ q = [p EXCEPT !.locimg = imgs[own].name, !.unmapped = TRUE,
                            !.loc = Relative(PlaceOf(imgs[own], p.loc))]
  <2>1. /\ q.unmapped = TRUE /\ q.name = p.name /\ q.home = p.home /\ q.watch = p.watch
        /\ q.locimg = imgs[own].name /\ q.loc = Relative(PlaceOf(imgs[own], p.loc))
    BY <1>5 DEF Point
  <2>2. p.home # None => q.locimg = p.home.img /\ q.loc = Relative(p.home.at)
    BY <1>2, <1>5, <2>1 DEF AtHome
  <2> QED
    BY <1>5, <2>1, <2>2 DEF Kept, HomeOK, NameOK
<1> QED
  BY <1>3, <1>4, <1>5 DEF UnMapped, own

\* What the user and a run do to a point keeps it.
LEMMA KinKept ==
  ASSUME LinesStay, NEW b \in Builds, NEW imgs, ImagesOK(imgs, b), Apart(imgs),
         NEW p \in Point, PointOK(imgs, p), Kept(imgs, p), NEW q, Kin(p, q, imgs)
  PROVE  Kept(imgs, q)
<1>1. CASE q.name = p.name
  BY <1>1 DEF Kin, Kept, HomeOK, NameOK, AtHome
<1>2. CASE q.name # p.name
  <2>1. /\ ~p.unmapped /\ q.name = (IF p.watch THEN None ELSE SymName(imgs, p.loc))
        /\ q.loc = p.loc /\ q.watch = p.watch /\ q.home = p.home /\ ~q.unmapped
    BY <1>2 DEF Kin
  <2>2. p.name = None
    <3> SUFFICES ASSUME p.name # None PROVE FALSE
      OBVIOUS
    <3>1. PICK k \in DOMAIN imgs : Covers(imgs[k], p.loc) /\ p.name = NameIn(imgs[k], p.loc)
      BY <2>1 DEF PointOK
    <3>2. SymName(imgs, p.loc) = p.name
      BY <3>1, OwnerOf
    <3>3. ~p.watch
      BY <2>1 DEF Kept, NameOK
    <3> QED
      BY <1>2, <2>1, <3>2, <3>3
  <2>3. q.name # None
    BY <1>2, <2>2
  <2>4. q.name = IF q.watch THEN None ELSE SymName(imgs, q.loc)
    BY <2>1
  <2> QED
    BY <2>1, <2>3, <2>4, NamedKept
<1> QED
  BY <1>1, <1>2

\* A new point is where it was set.
LEMMA NewKept ==
  ASSUME LinesStay, StateInv, Apart(images), NEW a \in Visible
  PROVE  Kept(images, NewPoint(a, images))
<1> DEFINE p == NewPoint(a, images)
           n == IF IsData(a) THEN None ELSE SymName(images, a)
           w == IsData(a)
<1>1. /\ build \in Builds /\ ImagesOK(images, build) /\ mem \in [Bases -> Modules \cup {None}]
  BY StateParts
<1>2. /\ p = [ loc |-> a, locimg |-> None, name |-> n,
               watch |-> w, active |-> TRUE, unmapped |-> FALSE,
               activate_on_remap |-> FALSE, counted |-> FALSE, home |-> Home(a) ]
      /\ p \in Point
  BY <1>1, VisibleAddress, NewPointRight
<1>3. n = IF w THEN None ELSE SymName(images, a)
  OBVIOUS
<1> HIDE DEF p, n, w
<1>4. /\ p.loc = a /\ p.name = n /\ p.watch = w /\ p.unmapped = FALSE /\ p.home = Home(a)
  BY <1>2
<1>5. ASSUME p.home # None
      PROVE  \E j \in DOMAIN images : /\ images[j].syms /\ images[j].name = p.home.img
                                      /\ p.home.at \in Place /\ At(images[j].handle, p.home.at) = p.loc
  <2> DEFINE own == DeAliasAddrMod(images, a)
  <2>1. /\ own \in DOMAIN images /\ Covers(images[own], a)
        /\ Home(a).img = images[own].name /\ Home(a).at = PlaceOf(images[own], a)
    BY <1>1, <1>4, <1>5, HomeRight
  <2>2. /\ images[own].syms /\ PlaceOf(images[own], a) \in Place
        /\ At(images[own].handle, PlaceOf(images[own], a)) = a
    BY <1>1, <2>1, OwnerOf
  <2> HIDE DEF own
  <2> QED
    BY <1>4, <2>1, <2>2
<1>6. Kept(images, p)
  BY <1>1, <1>3, <1>4, <1>5, NamedKept
<1> QED
  BY <1>6 DEF p

\* Every point of a table is where it was meant.
KeptAll(imgs, list) == \A i \in DOMAIN list : Kept(imgs, list[i])
KeptIn == {t \in States : Apart(t.images) => KeptAll(t.images, t.points)}

\* What keeps a point is kept with more images.
LEMMA KeptMore ==
  ASSUME NEW imgs, NEW more, NEW p, Kept(imgs, p),
         \A j \in DOMAIN imgs : imgs[j].syms => \E i \in DOMAIN more : more[i] = imgs[j]
  PROVE  Kept(more, p)
<1>1. HomeOK(more, p)
  BY DEF Kept, HomeOK, AtHome
<1> QED
  BY <1>1 DEF Kept

\* Symbols that arrive keep the points where they were meant.
LEMMA ArrivalKept ==
  ASSUME LinesStay, NEW b \in Builds
  PROVE  KeptByArrivals(KeptIn, b)
<1> SUFFICES ASSUME NEW s \in KeptIn, NEW t \in States, NEW k \in Nat,
                    Sound(s, b), Sound(t, b), Arrives(s, t, k)
             PROVE  t \in KeptIn
  BY DEF KeptByArrivals
<1> SUFFICES ASSUME Apart(t.images) PROVE KeptAll(t.images, t.points)
  BY DEF KeptIn
<1>1. /\ \A j \in DOMAIN s.images : /\ j \in DOMAIN t.images
                                    /\ t.images[j].handle = s.images[j].handle
                                    /\ s.images[j].syms => t.images[j] = s.images[j]
      /\ ReMappedAll(s, t, t.images, k) \/ t.points = s.points
  BY DEF Arrives
<1>2. Apart(s.images)
  BY <1>1 DEF Apart
<1>3. KeptAll(s.images, s.points)
  BY <1>2 DEF KeptIn
<1>4. \A j \in DOMAIN s.images : s.images[j].syms => \E i \in DOMAIN t.images : t.images[i] = s.images[j]
  BY <1>1
<1>5. ImagesOK(t.images, b) /\ s \in States
  BY DEF Sound
<1>6. CASE t.points = s.points
  BY <1>3, <1>4, <1>6, KeptMore DEF KeptAll
<1>7. CASE ReMappedAll(s, t, t.images, k)
  <2> SUFFICES ASSUME NEW i \in DOMAIN s.points PROVE Kept(t.images, t.points[i])
    BY <1>7 DEF KeptAll, ReMappedAll
  <2>1. /\ s.points[i] \in Point /\ Kept(s.images, s.points[i])
        /\ Remaps(s.points[i], t.points[i], t.images, k)
    BY <1>3, <1>5, <1>7, StateFields DEF KeptAll, ReMappedAll
  <2> QED
    BY <1>4, <1>5, <2>1, RemapKeeps
<1> QED
  BY <1>1, <1>6, <1>7

\* Taking an image out of the list leaves the others.
LEMMA OthersStay ==
  ASSUME NEW imgs \in Seq(Image), NEW k \in DOMAIN imgs, NEW j \in DOMAIN imgs, j # k
  PROVE  \E i \in DOMAIN RemoveAt(imgs, k) : RemoveAt(imgs, k)[i] = imgs[j]
<1> DEFINE i == IF j < k THEN j ELSE j - 1
<1>1. DOMAIN imgs = 1..Len(imgs) /\ Len(imgs) \in Nat
  BY LenProperties
<1>2. /\ RemoveAt(imgs, k) \in Seq(Image) /\ Len(RemoveAt(imgs, k)) = Len(imgs) - 1
      /\ \A x \in 1..(Len(imgs) - 1) : RemoveAt(imgs, k)[x] = imgs[IF x < k THEN x ELSE x + 1]
  BY <1>1, RemoveAtProperties
<1>3. DOMAIN RemoveAt(imgs, k) = 1..(Len(imgs) - 1)
  BY <1>2, LenProperties
<1>4. i \in 1..(Len(imgs) - 1) /\ (IF i < k THEN i ELSE i + 1) = j
  BY <1>1
<1> HIDE DEF i
<1> QED
  BY <1>2, <1>3, <1>4

\* So does freeing an image.
LEMMA FreeKept ==
  ASSUME NEW b \in Builds, NEW s, Sound(s, b), Apart(s.images), KeptAll(s.images, s.points),
         NEW k \in DOMAIN s.images, NEW t, t.images = RemoveAt(s.images, k), UnMappedAll(s, t, k)
  PROVE  Apart(t.images) /\ KeptAll(t.images, t.points)
<1>1. s \in States /\ s.images \in Seq(Image) /\ ImagesOK(s.images, b)
  BY StateFields DEF Sound
<1>3. \A j \in DOMAIN s.images : j # k => \E i \in DOMAIN t.images : t.images[i] = s.images[j]
  BY <1>1, OthersStay
<1>4. Apart(t.images)
  BY <1>1, LiveRemove
<1>5. ASSUME NEW i \in DOMAIN s.points PROVE Kept(t.images, t.points[i])
  <2>1. /\ s.points[i] \in Point /\ Kept(s.images, s.points[i])
        /\ UnMapped(s.points[i], t.points[i], s.images, k)
    BY <1>1, StateFields DEF KeptAll, UnMappedAll
  <2> QED
    BY <1>1, <1>3, <2>1, UnMapKeeps
<1> QED
  BY <1>4, <1>5 DEF KeptAll, UnMappedAll

\* And freeing all of them.
LEMMA ReleaseKept ==
  ASSUME NEW b \in Builds, NEW s, Sound(s, b), Apart(s.images), KeptAll(s.images, s.points)
  PROVE  KeptAll(ReleaseProgOvlay(s).images, ReleaseProgOvlay(s).points)
<1> DEFINE S == {t \in States : Apart(t.images) /\ KeptAll(t.images, t.points)}
           F == [i \in 0..Len(s.images) |-> S]
           n == Len(s.images)
<1>1. n \in Nat /\ s \in States
  BY StateFields, LenProperties DEF Sound
<1>2. s \in F[0] /\ F[n] = S /\ \A i \in 1..n : F[i - 1] = S /\ F[i] = S
  BY <1>1
<1>3. ASSUME NEW t \in S, Sound(t, b), 1 \in DOMAIN t.images PROVE FreeImage(t, 1) \in S
  <2> DEFINE u == FreeImage(t, 1)
  <2>1. \A j \in DOMAIN t.images : 1 <= j
    BY <1>3, LenProperties, StateFields
  <2>2. Sound(u, b) /\ u.images = RemoveAt(t.images, 1) /\ UnMappedAll(t, u, 1)
    BY <1>3, <2>1, FreeState
  <2> HIDE DEF u
  <2>3. Apart(u.images) /\ KeptAll(u.images, u.points)
    BY <1>3, <2>2, FreeKept
  <2> QED
    BY <2>2, <2>3 DEF u, Sound
<1> HIDE DEF F
<1>4. \A i \in 1..Len(s.images) : \A t \in F[i - 1] :
        Sound(t, b) /\ 1 \in DOMAIN t.images => FreeImage(t, 1) \in F[i]
  BY <1>2, <1>3
<1>5. ReleaseProgOvlay(s) \in F[n]
  BY <1>2, <1>4, ReleaseLoop
<1> QED
  BY <1>2, <1>5

\* A remap of every point in every image, after a state that keeps them.
LEMMA RemapAllKept ==
  ASSUME LinesStay, NEW b \in Builds, NEW s, Sound(s, b), Apart(s.images),
         KeptAll(s.images, s.points), Put(ReMapPoints(s, 0))
  PROVE  KeptAll(images', points')
<1>1. /\ images' = s.images /\ DOMAIN points' = DOMAIN s.points
      /\ \A i \in DOMAIN points' : s.points[i] \in Point /\ Remaps(s.points[i], points'[i], s.images, 0)
  BY AfterReMap
<1>2. ImagesOK(s.images, b)
  BY DEF Sound
<1> SUFFICES ASSUME NEW i \in DOMAIN points' PROVE Kept(s.images, points'[i])
  BY <1>1 DEF KeptAll
<1> DEFINE p == s.points[i]
<1>3. p \in Point /\ Kept(s.images, p) /\ Remaps(p, points'[i], s.images, 0)
  BY <1>1 DEF KeptAll
<1> HIDE DEF p
<1> QED
  BY <1>2, <1>3, RemapKeeps

\* The table commands and a run keep every point.
LEMMA TableKept ==
  ASSUME LinesStay, StateInv, Apart(images), KeptAll(images, points), Table
  PROVE  KeptAll(images', points')
<1>1. KinOrNew /\ images' = images
  BY TableKin
<1>2. /\ build \in Builds /\ ImagesOK(images, build)
      /\ \A i \in DOMAIN points : points[i] \in Point /\ PointOK(images, points[i])
  BY StateParts, PointsAreSeq
<1> SUFFICES ASSUME NEW j \in DOMAIN points' PROVE Kept(images, points'[j])
  BY <1>1 DEF KeptAll
<1>3. CASE \E i \in DOMAIN points : Kin(points[i], points'[j], images)
  <2>1. PICK i \in DOMAIN points : Kin(points[i], points'[j], images)
    BY <1>3
  <2> DEFINE p == points[i]
             q == points'[j]
  <2>2. p \in Point /\ PointOK(images, p) /\ Kept(images, p) /\ Kin(p, q, images)
    BY <1>2, <2>1 DEF KeptAll
  <2> HIDE DEF p, q
  <2>3. Kept(images, q)
    BY <1>2, <2>2, KinKept
  <2> QED
    BY <2>3 DEF q
<1>4. CASE \E a \in Visible : points'[j] = NewPoint(a, images)
  BY <1>4, NewKept
<1> QED
  BY <1>1, <1>3, <1>4 DEF KinOrNew

\* The steps that end in such a remap.
LEMMA EventKept ==
  ASSUME LinesStay, StateInv, Apart(images), KeptAll(images, points), ReMapsAll, Apart(images')
  PROVE  KeptAll(images', points')
<1>1. /\ build \in Builds /\ Sound(Now, build) /\ ImagesOK(images, build)
      /\ tmp \in Tmp /\ (tmp.has_address => PointOK(images, tmp.bp))
      /\ Now.images = images /\ Now.points = points
  BY StateParts DEF StateInv, Now
<1>2. ASSUME NEW m \in Libs, NEW b \in Bases, LibraryLoads(m, b) PROVE KeptAll(images', points')
  <2> DEFINE s == LibLoaded(Now, m, b, build)
  <2>1. Put(ReMapPoints(s, 0)) /\ m \in Modules
    BY <1>2 DEF LibraryLoads, Modules
  <2>2. Sound(s, build)
    BY <1>1, <2>1, LibLoadedRight
  <2>3. Now \in KeptIn
    BY <1>1 DEF KeptIn, Sound
  <2>4. KeptByArrivals(KeptIn, build) /\ KeptIn \subseteq States
    BY <1>1, ArrivalKept DEF KeptIn
  <2>5. s \in KeptIn
    BY <1>1, <2>1, <2>3, <2>4, LoadsKeep
  <2> HIDE DEF s
  <2>6. images' = s.images
    BY <1>1, <2>1, <2>2, AfterReMap
  <2>7. KeptAll(s.images, s.points)
    BY <2>5, <2>6 DEF KeptIn
  <2> QED
    BY <1>1, <2>1, <2>2, <2>6, <2>7, RemapAllKept
<1>3. ASSUME NEW b \in Bases, LibraryUnloads(b) PROVE KeptAll(images', points')
  <2> DEFINE s == LibUnloaded(Now, b)
  <2>1. Put(ReMapPoints(s, 0))
    BY <1>3 DEF LibraryUnloads
  <2>2. /\ Sound(s, build)
        /\ \/ s = Now
           \/ \E k \in DOMAIN images : s.images = RemoveAt(images, k) /\ UnMappedAll(Now, s, k)
    BY <1>1, LibUnloadedRight
  <2> HIDE DEF s
  <2>3. Apart(s.images) /\ KeptAll(s.images, s.points)
    BY <1>1, <2>2, FreeKept
  <2> QED
    BY <1>1, <2>1, <2>2, <2>3, RemapAllKept
<1>4. CASE SaveBreaksToFile
  <2> DEFINE s == UnMapPoints(Now, 0)
  <2>1. Put(ReMapPoints(s, 0))
    BY <1>4 DEF SaveBreaksToFile
  <2>2. Sound(s, build) /\ s.images = images /\ UnMappedAll(Now, s, 0)
    BY <1>1, UnMapState
  <2> HIDE DEF s
  <2>3. KeptAll(s.images, s.points)
    <3> SUFFICES ASSUME NEW i \in DOMAIN points PROVE Kept(images, s.points[i])
      BY <1>1, <2>2 DEF KeptAll, UnMappedAll
    <3> DEFINE p == points[i]
               q == s.points[i]
    <3>1. p \in Point /\ Kept(images, p) /\ UnMapped(p, q, images, 0)
      BY <1>1, <2>2, PointsAreSeq DEF KeptAll, UnMappedAll
    <3> HIDE DEF p, q
    <3>2. Kept(images, q)
      BY <1>1, <3>1, UnMapKeeps
    <3> QED
      BY <3>2 DEF q
  <2> QED
    BY <1>1, <2>1, <2>2, <2>3, RemapAllKept
<1>5. ASSUME NEW f \in Files, RestoreBreaksFromFile(f) PROVE KeptAll(images', points')
  <2>1. PICK junk \in [DOMAIN f -> Junk] :
          Put(ReMapPoints([Now EXCEPT !.points = Restored(f, junk, images)], 0))
    BY <1>5 DEF RestoreBreaksFromFile
  <2> DEFINE list == Restored(f, junk, images)
             s == [Now EXCEPT !.points = list]
  <2>2. ListOK(images, list) /\ \A i \in DOMAIN list : Plain(list[i])
    BY <1>1, RestoredRight
  <2> HIDE DEF list
  <2>3. s = [images |-> images, points |-> list, tmp |-> tmp]
    BY DEF Now
  <2>4. Put(ReMapPoints(s, 0)) /\ s.images = images /\ s.points = list
    BY <2>1, <2>3 DEF list
  <2> HIDE DEF s
  <2>5. Sound(s, build)
    BY <1>1, <2>2, <2>3, SoundParts
  <2>6. KeptAll(images, list)
    BY <2>2 DEF KeptAll, Kept, HomeOK, NameOK, Plain
  <2> QED
    BY <1>1, <2>4, <2>5, <2>6, RemapAllKept
<1> QED
  BY <1>2, <1>3, <1>4, <1>5 DEF ReMapsAll

\* So do restarts.
LEMMA StartKept ==
  ASSUME LinesStay, StateInv, Apart(images), KeptAll(images, points), ReStart \/ ProgNew,
         Apart(images')
  PROVE  KeptAll(images', points')
<1>1. build \in Builds /\ Sound(Now, build) /\ Now.images = images /\ Now.points = points
  BY DEF StateInv, Now
<1>2. PICK s, t, r, b :
        /\ b \in Builds /\ Sound(s, build) /\ (s = Now \/ s = BPsDeac(Now))
        /\ t = ReleaseProgOvlay(s) /\ Sound(t, build) /\ t.images = <<>>
        /\ r = BPsUnHit(t) /\ r.points = t.points /\ r.images = <<>> /\ Sound(r, b)
        /\ Restarts(r, b)
  BY RestartRight
<1>3. s.images = images /\ KeptAll(images, s.points)
  <2>1. CASE s = Now
    BY <1>1, <2>1
  <2>2. CASE s = BPsDeac(Now)
    <3>1. /\ s.images = images
          /\ s.points = [i \in DOMAIN points |-> [points[i] EXCEPT !.active = FALSE]]
      BY <2>2 DEF BPsDeac, Now
    <3>2. ASSUME NEW i \in DOMAIN points PROVE Kept(images, s.points[i])
      <4> DEFINE p == points[i]
                 q == s.points[i]
      <4>1. p \in Point /\ Kept(images, p) /\ q = [p EXCEPT !.active = FALSE]
        BY <3>1, PointsAreSeq DEF KeptAll
      <4> HIDE DEF p, q
      <4>2. /\ q.loc = p.loc /\ q.locimg = p.locimg /\ q.name = p.name /\ q.watch = p.watch
            /\ q.unmapped = p.unmapped /\ q.home = p.home
        BY <4>1 DEF Point
      <4>3. Kept(images, q)
        BY <4>1, <4>2 DEF Kept, HomeOK, NameOK, AtHome
      <4> QED
        BY <4>3 DEF q
    <3> QED
      BY <3>1, <3>2 DEF KeptAll
  <2> QED
    BY <1>2, <2>1, <2>2
<1>4. KeptAll(<<>>, r.points)
  <2>1. KeptAll(t.images, t.points)
    BY <1>1, <1>2, <1>3, ReleaseKept
  <2> QED
    BY <1>2, <2>1
<1> DEFINE c == CreateImage(r, None, 0)
<1>5. Sound(c, b) /\ c.points = r.points
  <2>1. 0 \in 0..MaxBase /\ None \in Modules \cup {None}
    BY Bounds
  <2> QED
    BY <1>2, <2>1, CreateState
<1> HIDE DEF c
<1>6. KeptAll(c.images, r.points)
  <2>1. DOMAIN <<>> = {}
    BY EmptySeq
  <2> QED
    BY <1>4, <2>1, KeptMore DEF KeptAll
<1>7. r \in KeptIn /\ c \in KeptIn /\ KeptIn \subseteq States /\ KeptByArrivals(KeptIn, b)
  BY <1>2, <1>4, <1>5, <1>6, ArrivalKept DEF KeptIn, Sound
<1>8. Now' \in KeptIn
  BY <1>2, <1>7, StartKeeps DEF c
<1> QED
  BY <1>8 DEF KeptIn, Now

\* Where every module's symbols are found when it is loaded, and no rebuild
\* moves a line out of its segment, every point is where it was meant.
LEMMA KeptIsInv ==
  ASSUME AllSymbols, LinesStay
  PROVE  Spec => []KeptAll(images, points)
<1>1. Init => KeptAll(images, points)
  <2>1. DOMAIN <<>> = {}
    BY EmptySeq
  <2> QED
    BY <2>1 DEF Init, KeptAll
<1>2. StateInv /\ LiveInv /\ LiveInv' /\ KeptAll(images, points) /\ [Next]_vars
        => KeptAll(images, points)'
  <2> SUFFICES ASSUME StateInv, LiveInv, LiveInv', KeptAll(images, points), [Next]_vars
               PROVE  KeptAll(images', points')
    OBVIOUS
  <2>1. Apart(images) /\ Apart(images')
    BY DEF LiveInv, Live
  <2>2. CASE Table
    BY <2>1, <2>2, TableKept
  <2>3. CASE ReMapsAll
    BY <2>1, <2>3, EventKept
  <2>4. CASE LoadDeferredSymbols
    <3> DEFINE t == LoadDeferred(Now, build)
    <3>1. build \in Builds /\ Sound(Now, build)
      BY DEF StateInv
    <3>2. Now \in KeptIn
      BY <3>1 DEF KeptIn, Sound, Now
    <3>3. KeptByArrivals(KeptIn, build) /\ KeptIn \subseteq States
      BY <3>1, ArrivalKept DEF KeptIn
    <3>4. t \in KeptIn
      BY <3>1, <3>2, <3>3, LoadsKeep
    <3>5. Put(t)
      BY <2>4 DEF LoadDeferredSymbols
    <3> HIDE DEF t
    <3> QED
      BY <2>1, <3>4, <3>5 DEF KeptIn, Put
  <2>5. CASE ReStart \/ ProgNew
    BY <2>1, <2>5, StartKept
  <2>6. CASE UNCHANGED vars
    BY <2>6 DEF vars
  <2> QED
    BY <2>2, <2>3, <2>4, <2>5, <2>6, NextKinds
<1> QED
  BY <1>1, <1>2, StateIsInv, LiveIsInv, PTL DEF Spec

\* Every mapped point is on its line or at the place it was set at, and none
\* waits for an image that is there.
THEOREM PointsStayRight ==
  ASSUME AllSymbols, LinesStay
  PROVE  Spec => []PointsFollow
<1>1. KeptAll(images, points) => HomeFollows
  BY DEF KeptAll, Kept, HomeOK, AtHome, HomeFollows
<1>2. Spec => []HomeFollows
  BY <1>1, KeptIsInv, PTL
<1> QED
  BY <1>2, NamesFollow, NoPointWaits, PTL DEF PointsFollow

-------------------------------------------------------------------------------
(* Unmapping and remapping loses nothing. *)

\* A mapped point of an image: on one of its lines, or at a place without one
\* unless it is a watchpoint.
Mine(p, image) ==
  /\ ~p.unmapped /\ p.locimg = None /\ Covers(image, p.loc)
  /\ IF p.name # None THEN ~p.watch /\ p.name = NameIn(image, p.loc)
     ELSE p.watch \/ NameIn(image, p.loc) = None

\* It when the image goes, and when it is back at base h.
Away(p, image) ==
  IF p.name # None THEN [p EXCEPT !.unmapped = TRUE]
  ELSE [p EXCEPT !.locimg = image.name, !.unmapped = TRUE,
                 !.loc = Relative(PlaceOf(image, p.loc))]
Back(p, image, h) ==
  [p EXCEPT !.loc = At(h, PlaceOf(image, p.loc)), !.counted = FALSE,
            !.active = @ \/ p.activate_on_remap]

\* Every meant point of an image is one.
LEMMA MeantIsMine ==
  ASSUME NEW b \in Builds, NEW imgs, ImagesOK(imgs, b), Apart(imgs),
         NEW p \in Point, PointOK(imgs, p), Kept(imgs, p), Meant(p), ~p.unmapped
  PROVE  LET own == DeAliasAddrMod(imgs, p.loc) IN own \in DOMAIN imgs /\ Mine(p, imgs[own])
<1> DEFINE own == DeAliasAddrMod(imgs, p.loc)
<1>1. p.locimg = None
  BY DEF PointOK
<1>2. CASE p.name # None
  <2>1. PICK k \in DOMAIN imgs : Covers(imgs[k], p.loc) /\ p.name = NameIn(imgs[k], p.loc)
    BY <1>2 DEF PointOK
  <2>2. own = k
    BY <2>1, OwnerOf
  <2>3. ~p.watch
    BY <1>2 DEF Kept, NameOK
  <2> HIDE DEF own
  <2> QED
    BY <1>1, <1>2, <2>1, <2>2, <2>3 DEF Mine, own
<1>3. CASE p.name = None
  <2>1. p.home # None /\ p.home.at \in Place
    BY <1>3, PointFields DEF Meant
  <2>2. PICK j \in DOMAIN imgs : AtHome(imgs[j], p)
    BY <1>3, <2>1 DEF Kept, HomeOK
  <2>3. /\ own = j /\ Covers(imgs[j], p.loc) /\ PlaceOf(imgs[j], p.loc) = p.home.at
    BY <2>1, <2>2, OwnImage DEF AtHome
  <2> HIDE DEF own
  <2>4. p.watch \/ NameIn(imgs[j], p.loc) = None
    BY <2>2, <2>3 DEF AtHome, NameIn
  <2> QED
    BY <1>1, <1>3, <2>3, <2>4 DEF Mine, own
<1> QED
  BY <1>2, <1>3

\* Unmapping its image makes it go away; unmapping another one does not.
LEMMA MineGoes ==
  ASSUME NEW b \in Builds, NEW imgs, ImagesOK(imgs, b), Apart(imgs), NEW p,
         NEW j \in DOMAIN imgs, Mine(p, imgs[j]), NEW q, NEW k, UnMapped(p, q, imgs, k)
  PROVE  IF k = 0 \/ k = j THEN q = Away(p, imgs[j]) ELSE q = p
<1>1. DeAliasAddrMod(imgs, p.loc) = j /\ j # 0 /\ ~p.unmapped
  BY OwnerOf, ImageType DEF Mine
<1> QED
  BY <1>1 DEF UnMapped, Away

\* Two images of one module with the same lines give one name to one place.
LEMMA SameCue ==
  ASSUME NEW image, NEW other, image.name = other.name, image.lines = other.lines, NEW at
  PROVE  CueName(image, at) = CueName(other, at)
<1>1. CuesBefore(image, at) = CuesBefore(other, at)
  BY DEF CuesBefore
<1> QED
  BY <1>1 DEF CueName

\* What went away with an image comes back to the only image of its name.
LEMMA BackAgain ==
  ASSUME NEW b \in Builds, NEW image \in Image, ImageOK(image, b),
         NEW p \in Point, Mine(p, image),
         NEW imgs, ImagesOK(imgs, b), Apart(imgs), NEW k \in DOMAIN imgs,
         imgs[k].syms, imgs[k].name = image.name,
         \A j \in DOMAIN imgs : imgs[j].syms /\ imgs[j].name = image.name => j = k,
         NEW only \in {0, k}, NEW q \in Point, Remaps(Away(p, image), q, imgs, only)
  PROVE  q = Back(p, image, imgs[k].handle)
<1> DEFINE h == PlaceOf(image, p.loc)
           u == Away(p, image)
           to == imgs[k]
<1>1. /\ h \in Place /\ At(image.handle, h) = p.loc /\ image.handle \in Bases
      /\ image.name \in Modules /\ image.syms
  BY CoversPlace DEF Mine, Covers
<1>2. /\ to \in Image /\ ImageOK(to, b) /\ to.handle \in Bases /\ to.lines = image.lines
      /\ to.syms /\ to.name = image.name
  BY <1>1, ImageType DEF ImageOK
<1>3. NameIn(image, p.loc) = CueName(to, h)
  BY <1>2, SameCue DEF NameIn
<1>4. /\ Covers(to, At(to.handle, h)) /\ SymName(imgs, At(to.handle, h)) = CueName(to, h)
  BY <1>1, <1>2, OwnImage
<1>5. Relative(h) \in Address
  BY <1>1, RelativeAddress
<1>6. /\ u \in Point /\ u.unmapped = TRUE /\ u.name = p.name /\ u.watch = p.watch /\ u.home = p.home
      /\ u.active = p.active /\ u.activate_on_remap = p.activate_on_remap
      /\ p.name = None => u.locimg = image.name /\ u.loc = Relative(h)
  BY <1>1, <1>5 DEF Away, Point
<1>r. Remaps(u, q, imgs, only)
  OBVIOUS
<1> HIDE DEF h, u, to
\* It has a target, and that is its place.
<1>7. ~NoTarget(u, imgs, only) /\ \A a : Target(u, imgs, only, a) => a = At(to.handle, h)
  <2>1. CASE p.name # None
    <3> DEFINE n == p.name
    <3>1. n = NameIn(image, p.loc) /\ n \in Name /\ Knows(image, n) /\ n = CueName(to, h)
      BY <1>3, <2>1, NameInRight DEF Mine
    <3>2. n.line \in CuesBefore(to, h) /\ n.diff = h.off - to.lines[n.line].off /\ n.img = to.name
      BY <1>1, <1>2, <2>1, <3>1, CueNameRight DEF Image
    <3> DEFINE c == to.lines[n.line]
    <3>3. c \in Place /\ c.seg = h.seg /\ c.off <= h.off /\ n.line \in Lines /\ c # None
      BY <1>2, <3>2 DEF CuesBefore, Image
    <3>4. Knows(to, n)
      BY <1>2, <3>2, <3>3 DEF Knows
    <3>5. \A j \in DOMAIN imgs : Knows(imgs[j], n) => j = k
      BY <1>2, <3>2 DEF Knows, to
    <3>6. Found(imgs, n) = k /\ k # 0
      BY <3>4, <3>5, FoundRight, ImageType DEF to
    <3>7. SymAddr(to, n) = At(to.handle, h)
      <4>1. n.diff \in Nat /\ Beyond(c, n.diff) = h
        <5>1. /\ c.off \in Nat /\ h.off \in Nat /\ n.diff = h.off - c.off
          BY <1>1, <3>2, <3>3, Bounds DEF Place
        <5>2. n.diff \in Nat /\ c.off + n.diff = h.off
          BY <3>3, <5>1
        <5>3. h = [seg |-> h.seg, off |-> h.off]
          BY <1>1 DEF Place
        <5> QED
          BY <3>3, <5>2, <5>3 DEF Beyond
      <4> QED
        BY <1>2, <3>3, <4>1, AtBeyond DEF SymAddr
    <3> QED
      BY <1>6, <2>1, <3>6, <3>7 DEF NoTarget, Target, to
  <2>2. CASE p.name = None
    <3> DEFINE r == ReMapImageAddress(u, to)
    <3>1. r.rc = "REMAPPED" /\ r.p = [u EXCEPT !.locimg = None, !.loc = At(to.handle, h)]
      <4>1. to.syms /\ u.locimg = to.name /\ u.loc = Relative(h)
        BY <1>2, <1>6, <2>2
      <4>2. to \in Image /\ ImageOK(to, b) /\ u \in Point /\ h \in Place
        BY <1>1, <1>2, <1>6
      <4>3. \A at \in Place : to.syms /\ u.locimg = to.name /\ u.loc = Relative(at) =>
              /\ r.rc = "REMAPPED" /\ r.p = [u EXCEPT !.locimg = None, !.loc = At(to.handle, at)]
        BY <4>2, ReMapImageAddressRight
      <4> HIDE DEF r
      <4> QED
        BY <4>1, <4>2, <4>3
    <3>2. ReMapImageAddress(u, to).p.loc = At(to.handle, h)
      BY <1>6, <3>1 DEF Point
    <3>3. \A j \in DOMAIN imgs : ReMapImageAddress(u, imgs[j]).rc = "REMAPPED" => j = k
      <4> SUFFICES ASSUME NEW j \in DOMAIN imgs, ReMapImageAddress(u, imgs[j]).rc = "REMAPPED"
                   PROVE  j = k
        OBVIOUS
      <4>1. imgs[j] \in Image /\ ImageOK(imgs[j], b)
        BY ImageType
      <4>2. imgs[j].syms /\ u.locimg = imgs[j].name
        BY <1>6, <4>1, ReMapImageAddressRight
      <4> QED
        BY <1>6, <2>2, <4>2
    <3> QED
      BY <1>6, <2>2, <3>1, <3>2, <3>3 DEF NoTarget, Target, InImageAt, to
  <2> QED
    BY <2>1, <2>2
<1>8. Lands(u, q, imgs, only) /\ q.loc = At(to.handle, h)
  <2>1. Stays(u, q, imgs, only) \/ Waits(u, q, imgs, only) \/ Lands(u, q, imgs, only)
    BY <1>6, <1>r, RemapsRight
  <2> QED
    BY <1>6, <1>7, <2>1 DEF Stays, Waits, Lands
<1>9. q.name = p.name
  <2>1. q.name = IF p.watch THEN None ELSE NameIn(image, p.loc)
    BY <1>3, <1>4, <1>6, <1>8 DEF Lands
  <2> QED
    BY <2>1 DEF Mine
<1> DEFINE v == Back(p, image, to.handle)
<1>10. /\ v \in Point /\ v.loc = At(to.handle, h) /\ v.locimg = p.locimg /\ v.name = p.name
       /\ v.watch = p.watch /\ v.active = (p.active \/ p.activate_on_remap)
       /\ v.unmapped = p.unmapped /\ v.activate_on_remap = p.activate_on_remap
       /\ v.counted = FALSE /\ v.home = p.home
  <2>1. At(to.handle, h) \in Address /\ (p.active \/ p.activate_on_remap) \in BOOLEAN
    BY <1>1, <1>2, AtAddress
  <2> QED
    BY <2>1 DEF Back, Point, h
<1> HIDE DEF v
<1>11. /\ q.locimg = None /\ q.unmapped = FALSE /\ q.counted = FALSE
       /\ q.active = (p.active \/ p.activate_on_remap)
       /\ q.watch = p.watch /\ q.home = p.home /\ q.activate_on_remap = p.activate_on_remap
  BY <1>6, <1>8, PointFields DEF Lands
<1>12. p.locimg = None /\ p.unmapped = FALSE
  BY PointFields DEF Mine
<1>13. q = v
  BY <1>8, <1>9, <1>10, <1>11, <1>12, PointEqual
<1> QED
  BY <1>13 DEF v, to

\* A module has one image with symbols at most.
OneImage(imgs) ==
  \A i, j \in DOMAIN imgs : imgs[i].syms /\ imgs[j].syms /\ imgs[i].name = imgs[j].name => i = j

\* Since no module is loaded twice.
LEMMA LiveOneImage ==
  ASSUME StateInv, LiveInv
  PROVE  OneImage(images)
<1> SUFFICES ASSUME NEW i \in DOMAIN images, NEW j \in DOMAIN images,
                    images[i].syms, images[j].syms, images[i].name = images[j].name
             PROVE  i = j
  BY DEF OneImage
<1>1. ImagesOK(images, build)
  BY StateParts
<1>2. /\ images[i].handle \in Bases /\ images[j].handle \in Bases /\ images[i].name \in Modules
      /\ images[i].handle # 0 /\ images[j].handle # 0
  BY <1>1, ImageType, Bounds DEF ImageOK, Bases
<1>3. mem[images[i].handle] = images[i].name /\ mem[images[j].handle] = images[i].name
  BY <1>2 DEF LiveInv, Live
<1>4. images[i].handle = images[j].handle
  BY <1>2, <1>3, NoneAssumption DEF LiveInv, OneBase
<1> QED
  BY <1>4 DEF LiveInv, Live, Apart

\* Saving the table to a file keeps what is meant.
SavedPoints ==
  \A i \in DOMAIN points :
    LET p == points[i]  q == points'[i] IN
    Meant(p) /\ ~p.unmapped => q = [p EXCEPT !.counted = q.counted,
                                             !.active = @ \/ p.activate_on_remap]

\* A save does.
LEMMA SaveStep ==
  ASSUME LinesStay, StateInv, LiveInv, KeptAll(images, points), SaveBreaksToFile
  PROVE  SavedPoints
<1>1. /\ build \in Builds /\ Sound(Now, build) /\ ImagesOK(images, build) /\ Apart(images)
      /\ Now.images = images /\ Now.points = points
  BY StateParts DEF StateInv, Now, LiveInv, Live
<1> DEFINE s == UnMapPoints(Now, 0)
<1>2. Put(ReMapPoints(s, 0))
  BY DEF SaveBreaksToFile
<1>3. Sound(s, build) /\ s.images = images /\ UnMappedAll(Now, s, 0)
  BY <1>1, UnMapState
<1> HIDE DEF s
<1>4. /\ DOMAIN points' = DOMAIN s.points /\ DOMAIN s.points = DOMAIN points
      /\ \A i \in DOMAIN points' : Remaps(s.points[i], points'[i], images, 0) /\ points'[i] \in Point
  BY <1>1, <1>2, <1>3, AfterReMap DEF UnMappedAll
<1> SUFFICES ASSUME NEW i \in DOMAIN points, Meant(points[i]), ~points[i].unmapped
             PROVE  points'[i] = [points[i] EXCEPT !.counted = points'[i].counted,
                                                   !.active = @ \/ points[i].activate_on_remap]
  BY DEF SavedPoints
<1> DEFINE p == points[i]
           q == points'[i]
           u == s.points[i]
           own == DeAliasAddrMod(images, p.loc)
<1>5. /\ p \in Point /\ PointOK(images, p) /\ Kept(images, p) /\ Meant(p) /\ ~p.unmapped
      /\ UnMapped(p, u, images, 0) /\ Remaps(u, q, images, 0) /\ q \in Point
  BY <1>1, <1>3, <1>4, PointsAreSeq DEF KeptAll, UnMappedAll
<1> HIDE DEF p, q, u
<1>6. own \in DOMAIN images /\ Mine(p, images[own])
  BY <1>1, <1>5, MeantIsMine
<1> HIDE DEF own
<1> DEFINE image == images[own]
<1>7. image \in Image /\ ImageOK(image, build) /\ image.syms
  BY <1>1, <1>6, ImageType DEF Mine, Covers
<1>8. u = Away(p, image)
  BY <1>1, <1>5, <1>6, MineGoes
<1>9. \A j \in DOMAIN images : images[j].syms /\ images[j].name = image.name => j = own
  BY <1>6, <1>7, LiveOneImage DEF OneImage
<1>10. Remaps(Away(p, image), q, images, 0) /\ 0 \in {0, own}
  BY <1>5, <1>8
<1>11. q = Back(p, image, image.handle)
  BY <1>1, <1>5, <1>6, <1>7, <1>9, <1>10, BackAgain
<1>12. At(image.handle, PlaceOf(image, p.loc)) = p.loc
  BY <1>7, <1>6, CoversPlace DEF Mine
<1>13. q = [p EXCEPT !.counted = FALSE, !.active = @ \/ p.activate_on_remap]
  BY <1>5, <1>11, <1>12 DEF Back, Point
<1>14. q.counted = FALSE
  BY <1>5, <1>13 DEF Point
<1>15. q = [p EXCEPT !.counted = q.counted, !.active = @ \/ p.activate_on_remap]
  BY <1>13, <1>14
<1> QED
  BY <1>15 DEF p, q

\* Saving the table loses nothing.
THEOREM SavingKeeps ==
  ASSUME AllSymbols, LinesStay
  PROVE  Spec => SaveKeeps
<1> DEFINE A == SaveBreaksToFile /\ ImagesLive =>
                  \A i \in DOMAIN points :
                    LET p == points[i]  q == points'[i] IN
                    Meant(p) /\ ~p.unmapped => q = [p EXCEPT !.counted = q.counted,
                                                 !.active = @ \/ p.activate_on_remap]
<1>1. StateInv /\ LiveInv /\ KeptAll(images, points) => [A]_vars
  BY SaveStep DEF SavedPoints
<1> QED
  BY <1>1, StateIsInv, LiveIsInv, KeptIsInv, PTL DEF SaveKeeps, Spec

\* A point of an image that is freed with all the others goes away with it.
LEMMA ReleasedAway ==
  ASSUME NEW b \in Builds, NEW s, Sound(s, b), Apart(s.images), NEW i \in DOMAIN s.points,
         NEW j \in DOMAIN s.images, Mine(s.points[i], s.images[j])
  PROVE  LET t == ReleaseProgOvlay(s) IN
         DOMAIN t.points = DOMAIN s.points /\ t.points[i] = Away(s.points[i], s.images[j])
<1> DEFINE p == s.points[i]
           image == s.images[j]
           away == Away(p, image)
           Going(t) == \/ t.points[i] = p /\ \E k \in DOMAIN t.images : t.images[k] = image
                       \/ t.points[i] = away
           S == {t \in States : /\ Apart(t.images) /\ DOMAIN t.points = DOMAIN s.points
                                /\ Going(t)}
           n == Len(s.images)
           F == [k \in 0..n |-> S]
<1>1. n \in Nat /\ s \in States /\ s \in S
  BY StateFields, LenProperties DEF Sound
<1>2. s \in F[0] /\ F[n] = S /\ \A k \in 1..n : F[k - 1] = S /\ F[k] = S
  BY <1>1
<1>3. Mine(p, image) /\ ~p.unmapped /\ away.unmapped = TRUE
  <2>1. p \in Point
    BY <1>1, StateFields
  <2>2. Mine(p, image)
    OBVIOUS
  <2> HIDE DEF p, image
  <2> QED
    BY <2>1, <2>2 DEF Mine, Away, Point
<1> HIDE DEF p, image, away
<1>4. ASSUME NEW t \in S, Sound(t, b), 1 \in DOMAIN t.images PROVE FreeImage(t, 1) \in S
  <2> DEFINE u == FreeImage(t, 1)
  <2>1. t.images \in Seq(Image) /\ ImagesOK(t.images, b) /\ i \in DOMAIN t.points
    BY <1>4, StateFields DEF Sound
  <2>2. \A k \in DOMAIN t.images : 1 <= k
    BY <2>1, LenProperties
  <2>3. Sound(u, b) /\ u.images = RemoveAt(t.images, 1) /\ UnMappedAll(t, u, 1)
    BY <1>4, <2>2, FreeState
  <2> HIDE DEF u
  <2>4. Apart(u.images) /\ DOMAIN u.points = DOMAIN s.points
    BY <1>4, <2>1, <2>3, LiveRemove DEF UnMappedAll
  <2>5. UnMapped(t.points[i], u.points[i], t.images, 1)
    BY <2>1, <2>3 DEF UnMappedAll
  <2>6. Going(u)
    <3>1. ASSUME t.points[i] = p, NEW k \in DOMAIN t.images, t.images[k] = image PROVE Going(u)
      <4>1. IF k = 1 THEN u.points[i] = away ELSE u.points[i] = p
        BY <1>3, <1>4, <2>1, <2>5, <3>1, MineGoes DEF away
      <4>2. k # 1 => \E x \in DOMAIN u.images : u.images[x] = image
        BY <1>4, <2>1, <2>3, <3>1, OthersStay
      <4> QED
        BY <4>1, <4>2
    <3>2. CASE t.points[i] = away
      BY <1>3, <2>5, <3>2 DEF UnMapped
    <3> QED
      BY <1>4, <3>1, <3>2
  <2> HIDE DEF Going
  <2> QED
    BY <2>3, <2>4, <2>6 DEF u, Sound
<1> HIDE DEF F
<1>5. \A k \in 1..Len(s.images) : \A t \in F[k - 1] :
        Sound(t, b) /\ 1 \in DOMAIN t.images => FreeImage(t, 1) \in F[k]
  BY <1>2, <1>4
<1> DEFINE t == ReleaseProgOvlay(s)
<1>6. t \in S /\ t.images = <<>>
  BY <1>2, <1>5, ReleaseLoop
<1>7. DOMAIN <<>> = {}
  BY EmptySeq
<1> HIDE DEF t
<1>8. t.points[i] = away /\ DOMAIN t.points = DOMAIN s.points
  BY <1>6, <1>7
<1> QED
  BY <1>8 DEF t, p, image, away

\* Loading the program takes it back, and the libraries after it leave it there.
LEMMA LoadedBack ==
  ASSUME AllSymbols, NEW b \in Builds, NEW r, Sound(r, b), r.images = <<>>,
         NEW m \in Programs, NEW pb \in Bases, NEW at \in StartUp(pb),
         NEW image \in Image, ImageOK(image, b), image.name = m,
         NEW p \in Point, Mine(p, image),
         NEW i \in DOMAIN r.points, r.points[i] = Away(p, image)
  PROVE  LoadProg(r, m, pb, at, b).points[i] = Back(p, image, pb)
<1> DEFINE q == Back(p, image, pb)
           t0 == DoLoadProg(r, m, pb, b)
           G == {t \in States : DOMAIN t.points = DOMAIN r.points /\ t.points[i] = q}
           F == [c \in 0..MaxBase |-> G]
<1>1. m \in Modules /\ at \in [Bases -> Libs \cup {None}]
  BY DEF StartUp, Modules
<1>2. Sound(t0, b) /\ Comes(r, t0, m, pb, b)
  BY <1>1, DoLoadProgRight
<1>3. t0 \in G
  <2> HIDE DEF t0, q
  <2>1. PICK e \in Image : /\ e.name = m /\ e.handle = pb /\ e.syms = HasSymbols(m, Defer)
                           /\ t0.images = Append(r.images, e)
    BY <1>2 DEF Comes
  <2>2. <<>> \in Seq(Image) /\ Len(<<>>) = 0
    BY EmptySeq
  <2>3. DOMAIN t0.images = 1..1 /\ t0.images[1] = e /\ e.syms
    <3>1. e.syms
      BY <1>1, <2>1 DEF AllSymbols, HasSymbols
    <3> QED
      BY <2>1, <2>2, <3>1, AppendRight
  <2>4. Arrives(r, t0, 1)
    BY <1>2, <2>2 DEF Comes
  <2>5. ReMappedAll(r, t0, t0.images, 1)
    BY <2>3, <2>4 DEF Arrives
  <2>6. /\ ImagesOK(t0.images, b) /\ t0 \in States /\ i \in DOMAIN t0.points
        /\ t0.points[i] \in Point /\ DOMAIN t0.points = DOMAIN r.points
        /\ Remaps(Away(p, image), t0.points[i], t0.images, 1)
    BY <1>2, <2>5, StateFields DEF Sound, ReMappedAll
  <2>7. Apart(t0.images) /\ (\A j \in DOMAIN t0.images : j = 1) /\ 1 \in DOMAIN t0.images
    BY <2>3 DEF Apart
  <2>8. t0.points[i] = Back(p, image, t0.images[1].handle)
    BY <2>1, <2>3, <2>6, <2>7, BackAgain
  <2> QED
    BY <2>1, <2>3, <2>6, <2>8 DEF q
<1>4. KeptByArrivals(G, b)
  <2> SUFFICES ASSUME NEW s \in G, NEW t \in States, NEW k \in Nat,
                      Sound(s, b), Sound(t, b), Arrives(s, t, k)
               PROVE  t \in G
    BY DEF KeptByArrivals
  <2>1. ~q.unmapped /\ i \in DOMAIN s.points /\ s.points[i] = q /\ q \in Point
    <3>1. i \in DOMAIN s.points /\ s.points[i] = q
      OBVIOUS
    <3>2. q.unmapped = p.unmapped
      BY DEF Back, Point
    <3>3. ~p.unmapped
      BY DEF Mine
    <3> HIDE DEF q
    <3> QED
      BY <3>1, <3>2, <3>3, StateFields
  <2> HIDE DEF q
  <2>2. CASE t.points = s.points
    BY <2>2
  <2>3. CASE ReMappedAll(s, t, t.images, k)
    <3>1. Remaps(q, t.points[i], t.images, k) /\ DOMAIN t.points = DOMAIN s.points
      BY <2>1, <2>3 DEF ReMappedAll
    <3>2. t.points[i] = q
      BY <2>1, <3>1 DEF Remaps
    <3> QED
      BY <3>1, <3>2
  <2> QED
    BY <2>2, <2>3 DEF Arrives
<1>5. G \subseteq States /\ \A t \in G : t.points[i] = q
  OBVIOUS
<1>6. ASSUME NEW c \in Bases, NEW t \in G, Sound(t, b) PROVE StartLib(t, at, c, b) \in G
  <2> HIDE DEF G
  <2>1. at[c] = None \/ at[c] \in Modules
    BY <1>1 DEF Modules
  <2> QED
    BY <1>4, <1>5, <1>6, <2>1, LoadsKeep DEF StartLib
<1> HIDE DEF G
<1>7. t0 \in F[0] /\ F[MaxBase] = G /\ \A c \in Bases : F[c - 1] = G /\ F[c] = G
  BY <1>3, Bounds DEF Bases
<1> HIDE DEF F
<1>8. \A c \in Bases : \A t \in F[c - 1] : Sound(t, b) => StartLib(t, at, c, b) \in F[c]
  BY <1>6, <1>7
<1>9. LoadProg(r, m, pb, at, b) \in F[MaxBase]
  BY <1>1, <1>7, <1>8, LoadLoop
<1> QED
  BY <1>5, <1>7, <1>9

\* A restart of the unchanged program carries its points over.
RestartedPoints ==
  \A k \in DOMAIN images' : images'[k].syms /\ images'[k].name = task =>
    \A i \in DOMAIN points :
      LET p == points[i]  q == points'[i]  own == DeAliasAddrMod(images, p.loc) IN
      own # 0 /\ images[own].name = task /\ Meant(p) /\ ~p.unmapped =>
        \E h \in Place :
          /\ p.loc = At(images[own].handle, h)
          /\ q = [p EXCEPT !.loc = At(images'[k].handle, h), !.counted = FALSE,
                           !.active = @ \/ p.activate_on_remap]

\* A restart does.
LEMMA RestartStep ==
  ASSUME AllSymbols, LinesStay, StateInv, LiveInv, LiveInv', KeptAll(images, points),
         ReStart, build' = build
  PROVE  RestartedPoints
<1>1. /\ build \in Builds /\ Sound(Now, build) /\ ImagesOK(images, build) /\ Apart(images)
      /\ Now.images = images /\ Now.points = points /\ task \in Programs
      /\ Now \in States
  BY StateParts DEF StateInv, Now, LiveInv, Live, Sound
<1> DEFINE t == ReleaseProgOvlay(Now)
           r == BPsUnHit(t)
<1>2. DoResNew(Now, task, build)
  BY DEF ReStart, DoResNew
<1>3. Sound(t, build) /\ t.images = <<>>
  BY <1>1, ReleaseSound
<1>4. Sound(r, build) /\ r.images = <<>> /\ r.points = t.points
  BY <1>3, UnHitRight
<1>5. \/ \E pb \in Bases : \E at \in StartUp(pb) :
           mem' = [at EXCEPT ![pb] = task] /\ Put(LoadProg(r, task, pb, at, build))
      \/ Put(CreateImage(r, None, 0))
  BY <1>2 DEF DoResNew
<1> SUFFICES ASSUME NEW k \in DOMAIN images', images'[k].syms, images'[k].name = task,
                    NEW i \in DOMAIN points, DeAliasAddrMod(images, points[i].loc) # 0,
                    images[DeAliasAddrMod(images, points[i].loc)].name = task,
                    Meant(points[i]), ~points[i].unmapped
             PROVE  \E h \in Place :
                      /\ points[i].loc = At(images[DeAliasAddrMod(images, points[i].loc)].handle, h)
                      /\ points'[i] = [points[i] EXCEPT !.loc = At(images'[k].handle, h),
                                         !.counted = FALSE,
                                         !.active = @ \/ points[i].activate_on_remap]
  BY DEF RestartedPoints
<1> DEFINE p == points[i]
           q == points'[i]
           own == DeAliasAddrMod(images, p.loc)
           image == images[own]
<1>6. /\ p \in Point /\ PointOK(images, p) /\ Kept(images, p) /\ Meant(p) /\ ~p.unmapped
      /\ image.name = task
  BY PointsAreSeq DEF KeptAll
<1>7. own \in DOMAIN images /\ Mine(p, image)
  <2> HIDE DEF p
  <2> QED
    BY <1>1, <1>6, MeantIsMine
<1>8. image \in Image /\ ImageOK(image, build)
  <2> HIDE DEF own
  <2> QED
    BY <1>1, <1>7, ImageType
<1>9. DOMAIN t.points = DOMAIN points /\ t.points[i] = Away(p, image)
  <2> HIDE DEF t, own
  <2> QED
    BY <1>1, <1>7, ReleasedAway DEF t
<1> HIDE DEF r, t
<1>10. CASE Put(CreateImage(r, None, 0))
  <2>1. 0 \in 0..MaxBase /\ None \in Modules \cup {None} /\ <<>> \in Seq(Image) /\ Len(<<>>) = 0
    BY Bounds, EmptySeq
  <2>2. images' = Append(<<>>, Blank(None, 0)) /\ Blank(None, 0) \in Image
    <3> DEFINE c == CreateImage(r, None, 0)
    <3>1. c.images = Append(r.images, Blank(None, 0)) /\ Blank(None, 0) \in Image
      BY <1>1, <1>4, <2>1, CreateState
    <3>2. images' = c.images
      BY <1>10 DEF Put
    <3> HIDE DEF c
    <3> QED
      BY <1>4, <3>1, <3>2
  <2>3. DOMAIN images' = 1..1 /\ images'[1] = Blank(None, 0)
    BY <2>1, <2>2, AppendRight
  <2>4. ~images'[k].syms
    BY <2>3 DEF Blank
  <2> QED
    BY <2>4
<1>11. ASSUME NEW pb \in Bases, NEW at \in StartUp(pb), mem' = [at EXCEPT ![pb] = task],
              Put(LoadProg(r, task, pb, at, build))
       PROVE  q = Back(p, image, pb) /\ images'[k].handle = pb
  <2> DEFINE u == LoadProg(r, task, pb, at, build)
  <2>1. i \in DOMAIN r.points /\ r.points[i] = Away(p, image)
    BY <1>4, <1>9
  <2>2. u.points[i] = Back(p, image, pb)
    <3> HIDE DEF p, image
    <3> QED
      BY <1>1, <1>4, <1>6, <1>7, <1>8, <2>1, LoadedBack
  <2>3. points' = u.points /\ images' = u.images
    BY <1>11 DEF Put
  <2> HIDE DEF u
  <2>4. q = Back(p, image, pb)
    BY <2>2, <2>3
  <2>5. task \notin Libs /\ task # None /\ at \in [Bases -> Libs \cup {None}]
    BY <1>1, ModulesAssumption, NoneAssumption DEF StartUp, Modules
  <2>6. images'[k].handle \in Bases
    <3>1. ImagesOK(images', build')
      BY <1>1, StartInv, StateParts
    <3> QED
      BY <3>1, ImageType DEF ImageOK
  <2>7. mem'[images'[k].handle] = task
    BY <2>6, Bounds DEF LiveInv, Live, Bases
  <2> QED
    BY <1>11, <2>4, <2>5, <2>6, <2>7
<1>12. /\ PlaceOf(image, p.loc) \in Place
       /\ p.loc = At(image.handle, PlaceOf(image, p.loc))
  BY <1>7, <1>8, CoversPlace DEF Mine
<1>13. CASE \E pb \in Bases : \E at \in StartUp(pb) :
              mem' = [at EXCEPT ![pb] = task] /\ Put(LoadProg(r, task, pb, at, build))
  <2>1. q = Back(p, image, images'[k].handle)
    BY <1>11, <1>13
  <2> HIDE DEF p, q
  <2>2. \E h \in Place : /\ p.loc = At(image.handle, h)
                         /\ q = [p EXCEPT !.loc = At(images'[k].handle, h), !.counted = FALSE,
                                          !.active = @ \/ p.activate_on_remap]
    BY <1>12, <2>1 DEF Back
  <2> QED
    BY <2>2 DEF p, q
<1> QED
  BY <1>5, <1>10, <1>13 DEF r, t

\* So does restarting the program.
THEOREM RestartingKeeps ==
  ASSUME AllSymbols, LinesStay
  PROVE  Spec => RestartKeeps
<1> DEFINE A == ReStart /\ build' = build =>
       \A k \in DOMAIN images' : images'[k].syms /\ images'[k].name = task =>
         \A i \in DOMAIN points :
           LET p == points[i]  q == points'[i]  own == DeAliasAddrMod(images, p.loc) IN
           own # 0 /\ images[own].name = task /\ Meant(p) /\ ~p.unmapped =>
             \E h \in Place :
               /\ p.loc = At(images[own].handle, h)
               /\ q = [p EXCEPT !.loc = At(images'[k].handle, h), !.counted = FALSE,
                                !.active = @ \/ p.activate_on_remap]
<1>1. StateInv /\ LiveInv /\ LiveInv' /\ KeptAll(images, points) => [A]_vars
  BY RestartStep DEF RestartedPoints
<1> QED
  BY <1>1, StateIsInv, LiveIsInv, KeptIsInv, PTL DEF RestartKeeps, Spec

\* Unmapping and remapping, on a restart or to save the table, loses nothing.
THEOREM NothingIsLost ==
  ASSUME AllSymbols, LinesStay
  PROVE  Spec => PointsKept
BY SavingKeeps, RestartingKeeps DEF PointsKept
================================================================================

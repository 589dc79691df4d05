--------------------------- MODULE CodeView_proofs ---------------------------
(***************************************************************************)
(* Proofs about CodeView for any number of images, any files and any       *)
(* types: an image that is not loaded holds no memory, a loaded one its    *)
(* whole directory, the adjustor the clients of the member walk keep is    *)
(* always that of the base the walk is in, and where the files are written *)
(* as ScopesWritten and ChainsWritten say, scopes are found, walked and    *)
(* searched as they are.                                                   *)
(*                                                                         *)
(* There are five inductive invariants.  DirInv, MapInv and CallInv rest   *)
(* on Inv; ScopeInv, the search and the walk of scopes, rests on Inv,      *)
(* MapInv and CallInv.                                                     *)
(***************************************************************************)
EXTENDS CodeView, Induction

-----------------------------------------------------------------------------
(***************************************************************************)
(* The inductive invariant.  What a file holds is not constrained beyond   *)
(* the assumptions, so some parts of the state are only in some set C.     *)
(***************************************************************************)
ImageType(C) ==
  [file : Files \cup {None}, dir : Seq(C), dir_count : Nat, mapping : C,
   types_base : BOOLEAN, mad : C, mapped : BOOLEAN]

EntryPoints == Points \ (LoadSteps \cup {"idle"})

\* Cleanup knows of a block held for an image.
Freed(h) ==
  \/ h \in {<<h[1], "vm", 0>>, <<h[1], "mapping", 0>>, <<h[1], "directory", 0>>}
  \/ /\ <<h[1], "directory", 0>> \in heap
     /\ \E k \in 1..BlockFactor(img[h[1]].dir_count, BlockEntries) : h = <<h[1], "block", k>>

Handles ==
  /\ ImageList \subseteq Images /\ cur \in Images \cup {None}
  /\ \E C : img \in [Images -> ImageType(C)]
  /\ \A ii \in ImageList : img[ii].file \in Files

Where ==
  /\ pc \in Points /\ (cur = None <=> pc = "idle")
  /\ pc # "idle" => img[cur].file \in Files
  /\ pc \notin {"idle", "vm"} => cur \in ImageList
  /\ pc = "vm" => cur \notin ImageList

Blocks ==
  /\ \A h \in heap : h[1] \in ImageList /\ Freed(h)
  /\ pc \in {"vm", "header"} => img[cur].dir = <<>> /\ <<cur, "directory", 0>> \notin heap
  /\ pc \in {"block", "read"} => /\ <<cur, "directory", 0>> \in heap
                                 /\ Len(img[cur].dir) * BlockEntries < img[cur].dir_count

LoadInv == Handles /\ Where /\ Blocks

Adjustors == [vbase : Nat \X Nat, offset : Int]
FrameType(C) ==
  [list : Nat, curr : Nat \ {0}, containing_type : C, adj : Adjustors, told : BOOLEAN]
WalkType(C) ==
  [client : C, head : C, key : C, adj : Adjustors, mfunc : C, found : BOOLEAN,
   skipped : BOOLEAN, lost : BOOLEAN, missed : Int,
   ret : {"idle", "done", "outer", "outerblock"}]

\* Only the class itself is left through a virtual base.
EntersRight(l) == Field(l).code = "BCLASS" => Field(l).offset \in Int
Frames ==
  /\ \A k \in 1..Len(lists) : lists[k].list \in DOMAIN T
  /\ \A k \in 1..(Len(lists) - 1) :
       EntersRight(lists[k]) /\ (k > 1 => Field(lists[k]).code = "BCLASS")

WalkInv ==
  /\ lists # <<>> <=> pc = "list"
  /\ wr \in Results
  /\ \E C : lists \in Seq(FrameType(C))
  /\ \E C : walk \in WalkType(C)
  /\ pc = "list" => walk.ret # "idle"
  /\ Frames /\ Balanced

Inv == LoadInv /\ WalkInv

-----------------------------------------------------------------------------
(***************************************************************************)
(* Arithmetic of the directory's blocks.                                   *)
(***************************************************************************)

LEMMA OneMoreBlock ==
  ASSUME NEW n \in Nat, NEW B \in Nat \ {0}, NEW m \in Nat, m * B < n
  PROVE  m + 1 \in 1..BlockFactor(n, B)
<1> DEFINE q == (n + B - 1) \div B
<1>1. q \in Int /\ n + B - 1 < (q + 1) * B
  BY SMT
<1>2. (m + 1) * B <= n + B - 1
  BY SMT
<1>3. (m + 1) * B < (q + 1) * B
  BY <1>1, <1>2, SMT
<1>4. m + 1 < q + 1
  <2>1. SUFFICES ASSUME q + 1 <= m + 1 PROVE FALSE
    BY <1>1, SMT
  <2>2. PICK d \in Nat : m + 1 = q + 1 + d
    <3>1. (m + 1) - (q + 1) \in Nat
      BY <1>1, <2>1, SMT
    <3> QED BY <3>1, <1>1, SMT
  <2>3. d * B \in Nat
    BY SMT
  <2>4. (m + 1) * B = (q + 1) * B + d * B
    BY <2>2, <1>1, SMT
  <2>5. (q + 1) * B \in Int /\ (m + 1) * B \in Int
    BY <1>1, SMT
  <2> QED BY <2>3, <2>4, <2>5, <1>3, SMT
<1> QED BY <1>1, <1>4, SMT DEF BlockFactor

-----------------------------------------------------------------------------
(***************************************************************************)
(* Loading, mapping and unloading keep LoadInv.                            *)
(***************************************************************************)

\* A handle's contents may come from more than one set.
LEMMA WiderImages ==
  ASSUME NEW C, NEW D, C \subseteq D, NEW i \in [Images -> ImageType(C)]
  PROVE  i \in [Images -> ImageType(D)]
<1>1. Seq(C) \subseteq Seq(D)
  OBVIOUS
<1>2. ImageType(C) \subseteq ImageType(D)
  BY <1>1 DEF ImageType
<1> QED BY <1>2

LEMMA FreshTyped == \A C : C \cup {<<>>, "none"} = C => Fresh \in ImageType(C)
<1> SUFFICES ASSUME NEW C, C \cup {<<>>, "none"} = C PROVE Fresh \in ImageType(C)
  OBVIOUS
<1>1. <<>> \in Seq(C) /\ <<>> \in C /\ "none" \in C
  OBVIOUS
<1> QED BY <1>1 DEF Fresh, ImageType

\* Nothing else is held for an image whose blocks Cleanup frees.
LEMMA CleanupFrees ==
  ASSUME LoadInv, NEW ii \in Images, Cleanup(ii)
  PROVE  /\ ImageList' = ImageList \ {ii}
         /\ heap' \subseteq heap
         /\ \A h \in heap' : h[1] # ii
         /\ \A h \in heap : h[1] # ii => h \in heap'
<1>1. ASSUME NEW h \in heap', h[1] = ii PROVE FALSE
  <2>1. h \in heap /\ Freed(h)
    BY <1>1 DEF LoadInv, Blocks, Cleanup
  <2>2. CASE h \in {<<h[1], "vm", 0>>, <<h[1], "mapping", 0>>}
    BY <2>2, <1>1 DEF Cleanup
  <2>3. CASE h = <<h[1], "directory", 0>>
    BY <2>1, <2>3, <1>1 DEF Cleanup
  <2>4. CASE /\ <<h[1], "directory", 0>> \in heap
             /\ \E k \in 1..BlockFactor(img[h[1]].dir_count, BlockEntries) :
                  h = <<h[1], "block", k>>
    BY <2>4, <1>1 DEF Cleanup
  <2> QED BY <2>1, <2>2, <2>3, <2>4 DEF Freed
<1>2. ASSUME NEW h \in heap, h[1] # ii PROVE h \in heap'
  <2>1. h # <<ii, "vm", 0>> /\ h # <<ii, "mapping", 0>> /\ h # <<ii, "directory", 0>>
    BY <1>2
  <2>2. \A k : h # <<ii, "block", k>>
    BY <1>2
  <2> QED BY <2>1, <2>2 DEF Cleanup
<1> QED BY <1>1, <1>2 DEF Cleanup

\* An image goes: the load fails, or it is unloaded.
LEMMA ImageGone ==
  ASSUME LoadInv, NEW ii \in Images, Cleanup(ii), img' = [img EXCEPT ![ii] = Fresh],
         pc' = "idle", cur' = None
  PROVE  LoadInv'
<1>1. PICK C : img \in [Images -> ImageType(C)]
  BY DEF LoadInv, Handles
<1> DEFINE D == C \cup {<<>>, "none"}
<1>2. img \in [Images -> ImageType(D)] /\ Fresh \in ImageType(D)
  BY <1>1, WiderImages, FreshTyped
<1>3. img' \in [Images -> ImageType(D)]
  BY <1>2
<1>4. \A jj \in Images : jj # ii => img'[jj] = img[jj]
  BY <1>2
<1>5. /\ ImageList' = ImageList \ {ii} /\ heap' \subseteq heap
      /\ \A h \in heap' : h[1] # ii
      /\ \A h \in heap : h[1] # ii => h \in heap'
  BY CleanupFrees
<1>6. Handles'
  <2>1. ImageList' \subseteq Images /\ \A jj \in ImageList' : img'[jj].file \in Files
    BY <1>4, <1>5 DEF LoadInv, Handles
  <2> QED BY <1>3, <2>1 DEF Handles
<1>7. ASSUME NEW h \in heap' PROVE h[1] \in ImageList' /\ Freed(h)'
  <2>1. h \in heap /\ h[1] # ii /\ h[1] \in ImageList /\ Freed(h)
    BY <1>5, <1>7 DEF LoadInv, Blocks
  <2>2. h[1] \in Images /\ img'[h[1]] = img[h[1]]
    BY <2>1, <1>4 DEF LoadInv, Handles
  <2>3. <<h[1], "directory", 0>> \in heap => <<h[1], "directory", 0>> \in heap'
    BY <2>1, <1>5
  <2>4. Freed(h)'
    BY <2>1, <2>2, <2>3 DEF Freed
  <2> QED BY <2>1, <2>4, <1>5
<1> QED BY <1>6, <1>7, FilesAssumption DEF LoadInv, Where, Blocks, Points, LoadSteps

LEMMA FailsLoadInv == LoadInv /\ LoadFails => LoadInv'
<1> SUFFICES ASSUME LoadInv, LoadFails PROVE LoadInv'
  OBVIOUS
<1>1. cur \in Images
  BY DEF LoadInv, Handles, Where, LoadFails, LoadSteps
<1>2. CASE pc # "vm"
  BY <1>1, <1>2, ImageGone DEF LoadFails
<1>3. CASE pc = "vm"
  <2>1. PICK C : img \in [Images -> ImageType(C)]
    BY DEF LoadInv, Handles
  <2> DEFINE D == C \cup {<<>>, "none"}
  <2>2. img \in [Images -> ImageType(D)] /\ Fresh \in ImageType(D)
    BY <2>1, WiderImages, FreshTyped
  <2>3. img' \in [Images -> ImageType(D)] /\ \A jj \in Images : jj # cur => img'[jj] = img[jj]
    BY <2>2 DEF LoadFails
  <2>4. cur \notin ImageList /\ UNCHANGED <<ImageList, heap>>
    BY <1>3 DEF LoadInv, Where, LoadFails
  <2>5. Handles'
    <3>1. \A jj \in ImageList' : img'[jj].file \in Files
      BY <2>3, <2>4 DEF LoadInv, Handles
    <3> QED BY <2>3, <2>4, <3>1 DEF LoadInv, Handles, LoadFails
  <2>6. \A h \in heap' : h[1] \in ImageList' /\ Freed(h)'
    <3>1. \A h \in heap : h[1] # cur /\ h[1] \in Images /\ img'[h[1]] = img[h[1]]
      BY <2>3, <2>4 DEF LoadInv, Handles, Blocks
    <3> QED BY <2>4, <3>1 DEF LoadInv, Blocks, Freed
  <2> QED BY <2>5, <2>6, FilesAssumption DEF LoadInv, Where, Blocks, LoadFails, Points, LoadSteps
<1> QED BY <1>2, <1>3

\* One handle changes.
LEMMA OneImage ==
  ASSUME LoadInv, NEW ii \in Images, NEW E, NEW r \in ImageType(E),
         img' = [img EXCEPT ![ii] = r]
  PROVE  /\ \E C : img' \in [Images -> ImageType(C)]
         /\ img'[ii] = r /\ \A jj \in Images : jj # ii => img'[jj] = img[jj]
<1>1. PICK C : img \in [Images -> ImageType(C)]
  BY DEF LoadInv, Handles
<1>2. img \in [Images -> ImageType(C \cup E)]
  BY <1>1, WiderImages
<1>3. ImageType(E) \subseteq ImageType(C \cup E)
  <2>1. Seq(E) \subseteq Seq(C \cup E)
    OBVIOUS
  <2> QED BY <2>1 DEF ImageType
<1>4. img' \in [Images -> ImageType(C \cup E)]
  BY <1>2, <1>3
<1> QED BY <1>1, <1>4

\* What is held stays, and at most one thing for the current image is added;
\* its number of entries does not change while it has blocks.
LEMMA BlocksKept ==
  ASSUME LoadInv, NEW ii \in Images,
         \A jj \in Images : jj # ii => img'[jj] = img[jj],
         img'[ii].dir_count = img[ii].dir_count \/ <<ii, "directory", 0>> \notin heap,
         heap \subseteq heap', ImageList \subseteq ImageList'
  PROVE  \A h \in heap : h[1] \in ImageList' /\ Freed(h)'
<1> SUFFICES ASSUME NEW h \in heap PROVE h[1] \in ImageList' /\ Freed(h)'
  OBVIOUS
<1>1. h[1] \in ImageList /\ h[1] \in Images /\ Freed(h)
  BY DEF LoadInv, Blocks, Handles
<1>2. CASE h \in {<<h[1], "vm", 0>>, <<h[1], "mapping", 0>>, <<h[1], "directory", 0>>}
  BY <1>1, <1>2 DEF Freed
<1>3. CASE /\ <<h[1], "directory", 0>> \in heap
           /\ \E k \in 1..BlockFactor(img[h[1]].dir_count, BlockEntries) : h = <<h[1], "block", k>>
  <2>1. img'[h[1]].dir_count = img[h[1]].dir_count
    BY <1>1, <1>3
  <2> QED BY <1>1, <1>3, <2>1 DEF Freed
<1> QED BY <1>1, <1>2, <1>3 DEF Freed

LEMMA FindLoadInv == ASSUME LoadInv, NEW ii \in Images, NEW f \in Files, FindCV(ii, f)
                     PROVE  LoadInv'
<1> DEFINE r == [Fresh EXCEPT !.file = f]
           E == {<<>>, "none"}
<1>1. r \in ImageType(E) /\ r.file = f /\ r.dir = <<>> /\ r.dir_count = 0
  <2>1. Fresh \in ImageType(E)
    BY FreshTyped
  <2> QED BY <2>1 DEF Fresh, ImageType
<1>2. /\ \E C : img' \in [Images -> ImageType(C)]
      /\ img'[ii] = r /\ \A jj \in Images : jj # ii => img'[jj] = img[jj]
  BY <1>1, OneImage DEF FindCV
<1>3. UNCHANGED <<ImageList, heap>> /\ ii \notin ImageList /\ pc' = "vm" /\ cur' = ii
  BY DEF FindCV
<1>4. <<ii, "directory", 0>> \notin heap
  BY <1>3 DEF LoadInv, Blocks
<1>5. Handles'
  BY <1>2, <1>3 DEF LoadInv, Handles
<1>6. Where'
  BY <1>1, <1>2, <1>3, FilesAssumption DEF Where, Points, LoadSteps
<1>7. \A h \in heap' : h[1] \in ImageList' /\ Freed(h)'
  BY <1>2, <1>3, <1>4, BlocksKept
<1>8. Blocks'
  BY <1>1, <1>2, <1>3, <1>4, <1>7 DEF Blocks
<1> QED BY <1>5, <1>6, <1>8 DEF LoadInv

LEMMA ListLoadInv == LoadInv /\ ListImage => LoadInv'
<1> SUFFICES ASSUME LoadInv, ListImage PROVE LoadInv'
  OBVIOUS
<1>1. /\ pc = "vm" /\ cur \in Images /\ pc' = "header" /\ UNCHANGED <<img, cur>>
      /\ ImageList' = ImageList \cup {cur} /\ heap' = heap \cup {<<cur, "vm", 0>>}
  BY DEF LoadInv, Handles, Where, ListImage, Allocate
<1>2. Handles'
  BY <1>1 DEF LoadInv, Handles, Where
<1>3. Where'
  BY <1>1 DEF LoadInv, Where, Points, LoadSteps
<1>4. \A h \in heap : h[1] \in ImageList' /\ Freed(h)'
  BY <1>1, BlocksKept
<1>5. <<cur, "vm", 0>>[1] \in ImageList' /\ Freed(<<cur, "vm", 0>>)'
  BY <1>1 DEF Freed
<1>6. img[cur].dir = <<>> /\ <<cur, "directory", 0>> \notin heap
  BY <1>1 DEF LoadInv, Blocks
<1>7. Blocks'
  BY <1>1, <1>4, <1>5, <1>6 DEF Blocks
<1> QED BY <1>2, <1>3, <1>7 DEF LoadInv

LEMMA HeaderLoadInv == LoadInv /\ LoadHeader => LoadInv'
<1> SUFFICES ASSUME LoadInv, LoadHeader PROVE LoadInv'
  OBVIOUS
<1> DEFINE n == Len(Contents.dir)
           r == [img[cur] EXCEPT !.dir_count = n]
<1>1. PICK C : img \in [Images -> ImageType(C)]
  BY DEF LoadInv, Handles
<1>2. /\ pc = "header" /\ cur \in ImageList /\ cur \in Images /\ img[cur].file \in Files
      /\ pc' = "block" /\ UNCHANGED <<ImageList, cur>>
      /\ heap' = heap \cup {<<cur, "directory", 0>>}
      /\ img' = [img EXCEPT ![cur] = r]
  BY <1>1 DEF LoadInv, Handles, Where, LoadHeader, Allocate
<1>3. n \in Nat /\ n > 0
  BY <1>2, FilesAssumption DEF Contents
<1>4. img[cur].dir = <<>> /\ <<cur, "directory", 0>> \notin heap
  BY <1>2 DEF LoadInv, Blocks
<1>5. r \in ImageType(C) /\ r.file = img[cur].file /\ r.dir = <<>> /\ r.dir_count = n
  BY <1>1, <1>2, <1>3, <1>4 DEF ImageType
<1> HIDE DEF n, r
<1>6. /\ \E D : img' \in [Images -> ImageType(D)]
      /\ img'[cur] = r /\ \A jj \in Images : jj # cur => img'[jj] = img[jj]
  BY <1>2, <1>5, OneImage
<1>7. Handles'
  BY <1>2, <1>5, <1>6 DEF LoadInv, Handles
<1>8. Where'
  BY <1>2, <1>5, <1>6 DEF LoadInv, Where, Points, LoadSteps
<1>9. \A h \in heap : h[1] \in ImageList' /\ Freed(h)'
  BY <1>2, <1>4, <1>6, BlocksKept
<1>10. \A h \in heap' : h[1] \in ImageList' /\ Freed(h)'
  <2>1. <<cur, "directory", 0>>[1] \in ImageList' /\ Freed(<<cur, "directory", 0>>)'
    BY <1>2 DEF Freed
  <2> QED BY <1>2, <1>9, <2>1
<1>11. Len(<<>>) * BlockEntries < n
  BY <1>3, BlockAssumption
<1>12. Blocks'
  BY <1>2, <1>5, <1>6, <1>10, <1>11 DEF Blocks
<1> QED BY <1>7, <1>8, <1>12 DEF LoadInv

LEMMA AllocLoadInv == LoadInv /\ AllocBlock => LoadInv'
<1> SUFFICES ASSUME LoadInv, AllocBlock PROVE LoadInv'
  OBVIOUS
<1>1. PICK C : img \in [Images -> ImageType(C)]
  BY DEF LoadInv, Handles
<1>2. PICK k : k = Len(img[cur].dir) + 1
  OBVIOUS
<1>3. /\ pc = "block" /\ cur \in ImageList /\ cur \in Images /\ pc' = "read"
      /\ UNCHANGED <<ImageList, img, cur>> /\ heap' = heap \cup {<<cur, "block", k>>}
  BY <1>2 DEF LoadInv, Handles, Where, AllocBlock, Allocate
<1>4. /\ <<cur, "directory", 0>> \in heap
      /\ Len(img[cur].dir) * BlockEntries < img[cur].dir_count
  BY <1>3 DEF LoadInv, Blocks
<1>5. img[cur].dir \in Seq(C) /\ img[cur].dir_count \in Nat
  BY <1>1, <1>3 DEF ImageType
<1>6. k \in 1..BlockFactor(img[cur].dir_count, BlockEntries)
  <2>1. Len(img[cur].dir) \in Nat
    BY <1>5, LenProperties
  <2> QED BY <2>1, <1>2, <1>4, <1>5, OneMoreBlock, BlockAssumption
<1>7. \A h \in heap : h[1] \in ImageList' /\ Freed(h)'
  BY <1>3, BlocksKept
<1>8. <<cur, "block", k>>[1] \in ImageList' /\ Freed(<<cur, "block", k>>)'
  BY <1>3, <1>4, <1>6 DEF Freed
<1>9. Blocks'
  BY <1>3, <1>4, <1>7, <1>8 DEF Blocks
<1>10. Handles' /\ Where'
  BY <1>3 DEF LoadInv, Handles, Where, Points, LoadSteps
<1> QED BY <1>9, <1>10 DEF LoadInv

LEMMA ReadLoadInv == LoadInv /\ ReadBlock => LoadInv'
<1> SUFFICES ASSUME LoadInv, ReadBlock PROVE LoadInv'
  OBVIOUS
<1> DEFINE m == Len(img[cur].dir)
           from == m * BlockEntries
           left == img[cur].dir_count - from
           num == IF left < BlockEntries THEN left ELSE BlockEntries
           b == SubSeq(Contents.dir, from + 1, from + num)
           r == [img[cur] EXCEPT !.dir = Append(@, b)]
<1>1. PICK C : img \in [Images -> ImageType(C)]
  BY DEF LoadInv, Handles
<1>2. /\ pc = "read" /\ cur \in ImageList /\ cur \in Images
      /\ pc' = (IF left = num THEN "segmap" ELSE "block")
      /\ UNCHANGED <<ImageList, heap, cur>> /\ img' = [img EXCEPT ![cur] = r]
  BY <1>1 DEF LoadInv, Handles, Where, ReadBlock
<1>3. <<cur, "directory", 0>> \in heap
  BY <1>2 DEF LoadInv, Blocks
<1>4. img[cur] \in ImageType(C) /\ img[cur].dir \in Seq(C) /\ img[cur].dir_count \in Nat
  BY <1>1, <1>2 DEF ImageType
<1>5. m \in Nat
  BY <1>4, LenProperties
<1> DEFINE E == C \cup {b}
<1>6. /\ Append(img[cur].dir, b) \in Seq(E)
      /\ Len(Append(img[cur].dir, b)) = m + 1
  <2>1. img[cur].dir \in Seq(E)
    BY <1>4
  <2> HIDE DEF b
  <2> QED BY <2>1, AppendProperties
<1>7. /\ r \in ImageType(E) /\ r.file = img[cur].file
      /\ r.dir_count = img[cur].dir_count /\ Len(r.dir) = m + 1
  <2> HIDE DEF b
  <2> QED BY <1>4, <1>6 DEF ImageType
<1>8. pc' = "block" => (m + 1) * BlockEntries < img[cur].dir_count
  <2>1. from \in Nat
    BY <1>5, BlockAssumption
  <2>2. (m + 1) * BlockEntries = from + BlockEntries
    BY <1>5, BlockAssumption
  <2>3. pc' = "block" => left # num
    BY <1>2
  <2> HIDE DEF from
  <2>4. left # num => BlockEntries < left
    BY <2>1, <1>4, BlockAssumption
  <2>5. BlockEntries < left => from + BlockEntries < img[cur].dir_count
    BY <2>1, <1>4, BlockAssumption
  <2> HIDE DEF left, num
  <2>6. pc' = "block" => from + BlockEntries < img[cur].dir_count
    BY <2>3, <2>4, <2>5
  <2> QED BY <2>2, <2>6
<1> HIDE DEF r, m, E
<1>9. /\ \E D : img' \in [Images -> ImageType(D)]
      /\ img'[cur] = r /\ \A jj \in Images : jj # cur => img'[jj] = img[jj]
  BY <1>2, <1>7, OneImage
<1>10. Handles'
  BY <1>2, <1>7, <1>9 DEF LoadInv, Handles
<1>11. Where'
  BY <1>2, <1>7, <1>9 DEF LoadInv, Where, Points, LoadSteps
<1>12. \A h \in heap' : h[1] \in ImageList' /\ Freed(h)'
  BY <1>2, <1>7, <1>9, BlocksKept
<1>13. Blocks'
  BY <1>2, <1>3, <1>7, <1>8, <1>9, <1>12 DEF Blocks
<1> QED BY <1>10, <1>11, <1>13 DEF LoadInv

\* What is read after the directory, and where a segment was mapped, does not
\* touch it.
LEMMA RestLoadInv ==
  ASSUME LoadInv, LoadMapping \/ LoadTypes \/ SetMADType
           \/ \E ii \in Images : \E where : MapInfo(ii, where)
  PROVE  LoadInv'
<1>1. PICK C : img \in [Images -> ImageType(C)]
  BY DEF LoadInv, Handles
<1>2. ASSUME NEW ii \in Images, NEW r, NEW E, r \in ImageType(E),
             img' = [img EXCEPT ![ii] = r],
             r.file = img[ii].file, r.dir_count = img[ii].dir_count, ii \in ImageList,
             ImageList' = ImageList, heap' = heap \/ heap' = heap \cup {<<ii, "mapping", 0>>},
             pc' \in {"idle", "types", "mad"}, cur' = IF pc' = "idle" THEN None ELSE ii
      PROVE  LoadInv'
  <2>1. /\ \E D : img' \in [Images -> ImageType(D)]
        /\ img'[ii] = r /\ \A jj \in Images : jj # ii => img'[jj] = img[jj]
    BY <1>2, OneImage
  <2>2. Handles'
    BY <1>2, <2>1 DEF LoadInv, Handles
  <2>3. Where'
    BY <1>2, <2>1, FilesAssumption DEF LoadInv, Handles, Where, Points, LoadSteps
  <2>4. \A h \in heap : h[1] \in ImageList' /\ Freed(h)'
    BY <1>2, <2>1, BlocksKept
  <2>5. <<ii, "mapping", 0>>[1] \in ImageList' /\ Freed(<<ii, "mapping", 0>>)'
    BY <1>2 DEF Freed
  <2>6. Blocks'
    BY <1>2, <2>4, <2>5 DEF Blocks
  <2> QED BY <2>2, <2>3, <2>6 DEF LoadInv
<1>3. CASE LoadMapping
  <2> DEFINE v == Contents.segs
             r == [img[cur] EXCEPT !.mapping = v]
  <2>1. /\ cur \in ImageList /\ cur \in Images /\ UNCHANGED <<ImageList, cur>> /\ pc' = "types"
        /\ heap' = heap \cup {<<cur, "mapping", 0>>} /\ img' = [img EXCEPT ![cur] = r]
    BY <1>1, <1>3 DEF LoadInv, Handles, Where, LoadMapping, Allocate
  <2>2. img \in [Images -> ImageType(C \cup {v})] /\ v \in C \cup {v}
    BY <1>1, WiderImages
  <2> HIDE DEF v
  <2>3. r \in ImageType(C \cup {v}) /\ r.file = img[cur].file /\ r.dir_count = img[cur].dir_count
    BY <2>1, <2>2 DEF ImageType
  <2> HIDE DEF r
  <2> QED BY <1>2, <2>1, <2>3
<1>4. CASE LoadTypes
  <2> DEFINE v == HasDirEntry(cur, Global, "GlobalTypes")
             r == [img[cur] EXCEPT !.types_base = v]
  <2>1. /\ cur \in ImageList /\ cur \in Images /\ UNCHANGED <<ImageList, cur>> /\ pc' = "mad"
        /\ heap' = heap /\ img' = [img EXCEPT ![cur] = r]
    BY <1>1, <1>4 DEF LoadInv, Handles, Where, LoadTypes
  <2>2. v \in BOOLEAN
    BY DEF HasDirEntry
  <2> HIDE DEF v
  <2>3. r \in ImageType(C) /\ r.file = img[cur].file /\ r.dir_count = img[cur].dir_count
    BY <1>1, <2>1, <2>2 DEF ImageType
  <2> HIDE DEF r
  <2> QED BY <1>2, <2>1, <2>3
<1>5. CASE SetMADType
  <2> DEFINE v == IF Compilers(cur) = <<>> THEN img[cur].mad ELSE Head(Compilers(cur))
             r == [img[cur] EXCEPT !.mad = v]
  <2>1. /\ cur \in ImageList /\ cur \in Images /\ UNCHANGED <<ImageList, heap>> /\ pc' = "idle"
        /\ cur' = None /\ img' = [img EXCEPT ![cur] = r]
    BY <1>1, <1>5 DEF LoadInv, Handles, Where, SetMADType
  <2>2. img \in [Images -> ImageType(C \cup {v})] /\ v \in C \cup {v}
    BY <1>1, WiderImages
  <2> HIDE DEF v
  <2>3. r \in ImageType(C \cup {v}) /\ r.file = img[cur].file /\ r.dir_count = img[cur].dir_count
    BY <2>1, <2>2 DEF ImageType
  <2> HIDE DEF r
  <2> QED BY <1>2, <2>1, <2>3
<1>6. ASSUME NEW ii \in Images, NEW where, MapInfo(ii, where) PROVE LoadInv'
  <2> DEFINE v == [k \in DOMAIN img[ii].mapping |-> DCMapAddr(img[ii].mapping[k], where)]
             r == [img[ii] EXCEPT !.mapped = TRUE, !.mapping = v]
  <2>1. /\ ii \in ImageList /\ UNCHANGED <<ImageList, heap>> /\ pc = "idle" /\ pc' = "idle"
        /\ cur = None /\ cur' = None
    BY <1>1, <1>6 DEF LoadInv, Handles, Where, MapInfo
  <2>2. img' = [img EXCEPT ![ii] = r]
    BY <1>1, <1>6 DEF MapInfo, ImageType
  <2>3. img \in [Images -> ImageType(C \cup {v})] /\ v \in C \cup {v}
    BY <1>1, WiderImages
  <2> HIDE DEF v
  <2>4. r \in ImageType(C \cup {v}) /\ r.file = img[ii].file /\ r.dir_count = img[ii].dir_count
    BY <2>1, <2>3 DEF ImageType
  <2> HIDE DEF r
  <2> QED BY <1>2, <2>1, <2>2, <2>4
<1> QED BY <1>3, <1>4, <1>5, <1>6

LEMMA UnloadLoadInv ==
  ASSUME LoadInv, NEW ii \in Images, UnloadInfo(ii)
  PROVE  LoadInv'
<1>1. pc' = "idle" /\ cur' = None
  BY DEF LoadInv, Where, UnloadInfo
<1> QED BY <1>1, ImageGone DEF UnloadInfo

-----------------------------------------------------------------------------
(***************************************************************************)
(* Outside of the loads LoadInv only depends on the step's ends.           *)
(***************************************************************************)
LEMMA FilesLoadInv ==
  ASSUME LoadInv, UNCHANGED files, pc \in EntryPoints, pc' \in EntryPoints
  PROVE  LoadInv'
<1>1. /\ pc \notin LoadSteps \cup {"idle"} /\ pc' \notin LoadSteps \cup {"idle"}
      /\ pc' \in Points
  BY DEF EntryPoints
<1>2. UNCHANGED <<ImageList, img, heap, cur>>
  BY DEF files
<1>3. Handles' /\ Where'
  BY <1>1, <1>2 DEF LoadInv, Handles, Where, LoadSteps
<1>4. \A h \in heap' : h[1] \in ImageList' /\ Freed(h)'
  BY <1>2 DEF LoadInv, Blocks, Freed
<1> QED BY <1>1, <1>2, <1>3, <1>4 DEF LoadInv, Blocks, LoadSteps

LEMMA WiderFrames ==
  ASSUME NEW C, NEW D, C \subseteq D
  PROVE  FrameType(C) \subseteq FrameType(D) /\ Seq(FrameType(C)) \subseteq Seq(FrameType(D))
<1>1. FrameType(C) \subseteq FrameType(D)
  BY DEF FrameType
<1> QED BY <1>1

LEMMA WiderWalk ==
  ASSUME NEW C, NEW D, C \subseteq D
  PROVE  WalkType(C) \subseteq WalkType(D)
  BY DEF WalkType

LEMMA NoAdjTyped == NoAdj \in Adjustors
  BY SMT DEF NoAdj, NoBase, Adjustors

LEMMA NoWalkTyped == \A C : C \cup {"none", 0, None} = C => NoWalk \in WalkType(C)
<1> SUFFICES ASSUME NEW C, C \cup {"none", 0, None} = C PROVE NoWalk \in WalkType(C)
  OBVIOUS
<1>1. "none" \in C /\ 0 \in C /\ None \in C
  OBVIOUS
<1>2. 0 \in Int
  BY SMT
<1> QED BY <1>1, <1>2, NoAdjTyped DEF NoWalk, WalkType

-----------------------------------------------------------------------------
(***************************************************************************)
(* The walk starts, goes on, and returns.                                  *)
(***************************************************************************)
LEMMA OneElement ==
  ASSUME NEW S, NEW x \in S
  PROVE  <<x>> \in Seq(S) /\ Len(<<x>>) = 1 /\ <<x>>[1] = x
  OBVIOUS

LEMMA WalkStarts ==
  ASSUME Inv, UNCHANGED files, pc \in EntryPoints \ {"list"},
         NEW client, NEW idx, NEW containing_type, NEW key,
         NEW ret \in {"done", "outer", "outerblock"},
         StartWalk(client, idx, containing_type, key, ret)
  PROVE  Inv'
<1>1. pc' \in {"done", "list"}
  BY DEF StartWalk
<1>2. LoadInv'
  <2>1. pc' \in EntryPoints
    BY <1>1 DEF EntryPoints, Points, LoadSteps
  <2> QED BY <2>1, FilesLoadInv DEF Inv
<1>3. T' = T
  BY DEF T, files
<1>4. lists = <<>> /\ wr \in Results
  BY DEF Inv, WalkInv
<1>5. CASE TypeIndexVM(T, T[idx].field) = NoVM
  <2>1. pc' = "done" /\ wr' = "FAIL" /\ UNCHANGED <<lists, walk>>
    BY <1>5 DEF StartWalk
  <2>2. wr' \in Results /\ lists' = <<>> /\ Len(lists') = 0
    BY <2>1, <1>4 DEF Results
  <2>3. Frames' /\ Balanced'
    BY <2>2 DEF Frames, Balanced
  <2>4. WalkInv'
    BY <2>1, <2>2, <2>3, <1>4 DEF Inv, WalkInv
  <2> QED BY <2>4, <1>2 DEF Inv
<1>6. CASE TypeIndexVM(T, T[idx].field) # NoVM
  <2> DEFINE x == T[idx].field
             f == Frame(x, containing_type, NoAdj, TRUE)
  <2>1. /\ lists' = <<f>> /\ pc' = "list" /\ wr' = wr
        /\ walk' = [NoWalk EXCEPT !.client = client, !.head = idx, !.key = key, !.ret = ret]
    BY <1>6 DEF StartWalk
  <2>2. x \in DOMAIN T /\ x \in Nat
    <3>1. x \in DOMAIN T
      BY <1>6 DEF TypeIndexVM
    <3>2. img[cur].file \in Files
      BY DEF Inv, LoadInv, Where, EntryPoints
    <3> QED BY <3>1, <3>2, TypesAssumption DEF T
  <2> HIDE DEF x
  <2>3. f \in FrameType({containing_type}) /\ f.list = x /\ f.adj = NoAdj /\ f.told
    BY <2>2, NoAdjTyped DEF Frame, FrameType
  <2> HIDE DEF f
  <2>4. lists' \in Seq(FrameType({containing_type})) /\ Len(lists') = 1 /\ lists'[1] = f
    BY <2>1, <2>3, OneElement
  <2> DEFINE D == {"none", 0, None, client, idx, key}
  <2>5. /\ walk' \in WalkType(D) /\ walk'.ret = ret /\ walk'.adj = NoAdj /\ walk'.missed = 0
    <3>1. NoWalk \in WalkType(D) /\ NoWalk.adj = NoAdj /\ NoWalk.missed = 0
      <4>1. D \cup {"none", 0, None} = D
        OBVIOUS
      <4> HIDE DEF D
      <4>2. NoWalk \in WalkType(D)
        BY <4>1, NoWalkTyped
      <4> QED BY <4>2 DEF NoWalk
    <3>2. client \in D /\ idx \in D /\ key \in D
      OBVIOUS
    <3> HIDE DEF D
    <3> QED BY <2>1, <3>1, <3>2 DEF WalkType
  <2> HIDE DEF D
  <2>6. Frames'
    BY <2>2, <2>3, <2>4, <1>3 DEF Frames
  <2>7. Balanced'
    <3>1. Depth' = 1 /\ list' = f /\ list'.adj = NoAdj
      BY <2>3, <2>4 DEF list, Depth
    <3>2. NoAdj.offset = NoAdj.offset - 0
      BY DEF NoAdj
    <3> QED BY <2>3, <2>4, <2>5, <3>1, <3>2 DEF Balanced
  <2>8. lists' # <<>>
    BY <2>1
  <2>9. WalkInv'
    BY <2>1, <2>4, <2>5, <2>6, <2>7, <2>8, <1>4 DEF WalkInv
  <2> QED BY <2>9, <1>2 DEF Inv
<1> QED BY <1>5, <1>6

\* A step that is no walk's.
LEMMA PlainStep ==
  ASSUME Inv, UNCHANGED <<files, lists, walk>>, pc \in EntryPoints \ {"list"},
         pc' \in EntryPoints \ {"list"}, wr' \in Results
  PROVE  Inv'
<1>1. LoadInv'
  BY FilesLoadInv DEF Inv
<1>2. lists = <<>> /\ lists' = <<>>
  BY DEF Inv, WalkInv
<1>3. WalkInv'
  BY <1>2 DEF Inv, WalkInv, Frames, Balanced
<1> QED BY <1>1, <1>3 DEF Inv

\* The walk returns.
LEMMA WalkReturns ==
  ASSUME Inv, UNCHANGED files, pc = "list", NEW result \in Results, Return(result),
         \E C : walk' \in WalkType(C)
  PROVE  Inv'
<1>1. walk.ret \in {"done", "outer", "outerblock"}
  BY DEF Inv, WalkInv, WalkType
<1>2. pc' \in {"done", "outer", "outerblock"} /\ lists' = <<>> /\ wr' \in Results
  BY <1>1 DEF Return, Inv, WalkInv
<1>3. LoadInv'
  <2>1. pc \in EntryPoints /\ pc' \in EntryPoints
    BY <1>2 DEF EntryPoints, Points, LoadSteps
  <2> QED BY <2>1, FilesLoadInv DEF Inv
<1>4. lists' \in Seq(FrameType({})) /\ Len(lists') = 0
  BY <1>2
<1>5. WalkInv'
  BY <1>2, <1>4 DEF WalkInv, Frames, Balanced
<1> QED BY <1>3, <1>5 DEF Inv

-----------------------------------------------------------------------------
(***************************************************************************)
(* The steps of the walk.                                                  *)
(***************************************************************************)
LEMMA InTheList ==
  ASSUME Inv, pc = "list"
  PROVE  /\ lists # <<>> /\ Depth \in Nat \ {0} /\ list.list \in DOMAIN T
         /\ list.curr \in Nat \ {0} /\ list.adj \in Adjustors /\ list.told \in BOOLEAN
         /\ \E C : list \in FrameType(C)
         /\ img[cur].file \in Files
<1>1. lists # <<>> /\ img[cur].file \in Files
  BY DEF Inv, WalkInv, LoadInv, Where
<1>2. PICK C : lists \in Seq(FrameType(C))
  BY DEF Inv, WalkInv
<1>3. Depth \in Nat \ {0} /\ list \in FrameType(C)
  BY <1>1, <1>2 DEF Depth, list
<1>4. list.list \in DOMAIN T
  BY <1>3 DEF Inv, WalkInv, Frames, Depth, list
<1> QED BY <1>1, <1>3, <1>4 DEF FrameType

\* A field of the list that is read is one of its fields.
LEMMA FieldRight ==
  ASSUME Inv, pc = "list", ~AtEnd
  PROVE  EntersRight(list)
<1> SUFFICES ASSUME Field(list).code = "BCLASS" PROVE Field(list).offset \in Int
  BY DEF EntersRight
<1>1. list.list \in DOMAIN T /\ list.curr \in Nat \ {0} /\ img[cur].file \in Files
  BY InTheList
<1>2. CASE T[list.list].leaf = "FIELDLIST"
  <2>1. Fields(list) = T[list.list].fields
    BY <1>2 DEF Fields, FieldsIn
  <2>2. /\ Len(Fields(list)) \in Nat
        /\ \A k \in 1..Len(Fields(list)) :
             Fields(list)[k].code = "BCLASS" => Fields(list)[k].offset \in Int
    BY <1>1, <1>2, <2>1, TypesAssumption DEF T
  <2>3. list.curr \in 1..Len(Fields(list))
    BY <1>1, <2>2 DEF AtEnd
  <2> QED BY <2>2, <2>3 DEF Field
<1>3. CASE T[list.list].leaf # "FIELDLIST"
  <2>1. Fields(list) = <<>>
    BY <1>3 DEF Fields, FieldsIn
  <2>2. Len(Fields(list)) = 0
    BY <2>1
  <2> QED BY <1>1, <2>2 DEF AtEnd
<1> QED BY <1>2, <1>3

\* What Balanced says of a client stays as it is.
SameAdjustor ==
  /\ walk'.adj = walk.adj /\ walk'.found = walk.found
  /\ walk'.missed = walk.missed /\ walk'.lost = walk.lost

\* Only the innermost list moves on.
LEMMA Innermost ==
  ASSUME Inv, UNCHANGED <<files, pc, wr>>, pc = "list",
         NEW E, lists' \in Seq(FrameType(E)), Len(lists') = Depth,
         lists'[Depth].list \in DOMAIN T, lists'[Depth].adj = list.adj,
         lists'[Depth].told = list.told,
         \A k \in 1..(Depth - 1) : lists'[k] = lists[k],
         NEW D, walk' \in WalkType(D), walk'.ret = walk.ret,
         walk'.found \/ SameAdjustor
  PROVE  Inv'
<1>1. LoadInv'
  BY FilesLoadInv DEF Inv, EntryPoints, Points, LoadSteps
<1>2. T' = T /\ Depth \in Nat \ {0} /\ Depth' = Depth /\ Depth = Len(lists)
  BY InTheList DEF T, files, Depth
<1>4. lists' # <<>>
  BY <1>2
<1>5. \A k \in 1..(Depth - 1) : Field(lists[k])' = Field(lists[k])
  BY <1>2 DEF Field, Fields, FieldsIn
<1>6. Frames'
  <2>1. ASSUME NEW k \in 1..Len(lists') PROVE lists'[k].list \in DOMAIN T'
    <3>1. CASE k = Depth
      BY <3>1, <1>2
    <3>2. CASE k # Depth
      BY <3>2, <1>2 DEF Inv, WalkInv, Frames
    <3> QED BY <3>1, <3>2
  <2>2. ASSUME NEW k \in 1..(Len(lists') - 1)
        PROVE  EntersRight(lists[k])' /\ (k > 1 => Field(lists[k])'.code = "BCLASS")
    BY <2>2, <1>2, <1>5 DEF Inv, WalkInv, Frames, EntersRight
  <2> QED BY <2>1, <2>2 DEF Frames
<1>7. Balanced'
  <2> SUFFICES ASSUME ~walk'.found
               PROVE  Balanced'
    BY DEF Balanced
  <2>1. /\ walk.adj.offset = list.adj.offset - walk.missed
        /\ walk.adj.vbase = IF Depth > 1 /\ ~lists[2].told THEN NoBase ELSE list.adj.vbase
        /\ lists[1].adj = NoAdj
        /\ \A k \in 1..(Depth - 1) : lists[k + 1].adj = EnterBase(lists[k].adj, lists[k])
        /\ ~walk.lost => walk.missed = 0 /\ \A k \in 1..Depth : lists[k].told
    BY InTheList DEF Inv, WalkInv, Balanced, SameAdjustor
  <2>2. \A k \in 1..Depth : lists'[k].adj = lists[k].adj /\ lists'[k].told = lists[k].told
    BY <1>2 DEF list
  <2>3. \A k \in 1..(Depth - 1) :
          EnterBase(lists[k].adj, lists[k])' = EnterBase(lists[k].adj, lists[k])
    BY <1>2, <1>5 DEF EnterBase
  <2>4. ASSUME NEW k \in 1..(Depth - 1)
        PROVE  lists'[k + 1].adj = EnterBase(lists[k].adj, lists[k])'
    <3>1. k \in 1..Depth /\ k + 1 \in 1..Depth
      BY <1>2
    <3> QED BY <3>1, <2>1, <2>2, <2>3
  <2>5. SameAdjustor /\ list'.adj = list.adj
    BY <1>2 DEF list
  <2>6. Depth > 1 => lists'[2].told = lists[2].told
    BY <1>2, <2>2
  <2>7. walk'.adj.offset = list'.adj.offset - walk'.missed
    BY <2>1, <2>5 DEF SameAdjustor
  <2>8. walk'.adj.vbase = IF Depth' > 1 /\ ~lists'[2].told THEN NoBase ELSE list'.adj.vbase
    BY <1>2, <2>1, <2>5, <2>6 DEF SameAdjustor
  <2>9. ~walk'.lost => walk'.missed = 0 /\ \A k \in 1..Depth' : lists'[k].told
    BY <1>2, <2>1, <2>2, <2>5 DEF SameAdjustor
  <2>10. lists'[1].adj = NoAdj
    BY <1>2, <2>1, <2>2
  <2> QED BY <2>4, <2>7, <2>8, <2>9, <2>10, <1>2 DEF Balanced
<1>8. WalkInv'
  BY <1>4, <1>6, <1>7 DEF Inv, WalkInv
<1> QED BY <1>1, <1>8 DEF Inv

\* The next field, with the client's data in whatever state but the adjustor's.
LEMMA NextFieldInv ==
  ASSUME Inv, UNCHANGED <<files, pc, wr>>, pc = "list", NextField,
         NEW D, walk' \in WalkType(D), walk'.ret = walk.ret,
         walk'.found \/ SameAdjustor
  PROVE  Inv'
<1>1. PICK C : lists \in Seq(FrameType(C))
  BY DEF Inv, WalkInv
<1>2. Depth \in 1..Len(lists) /\ Len(lists) = Depth /\ list.list \in DOMAIN T
  BY InTheList DEF Depth
<1> DEFINE e == [list EXCEPT !.curr = @ + 1]
<1>3. list \in FrameType(C)
  BY <1>1, <1>2 DEF list
<1>4. e \in FrameType(C) /\ e.list = list.list /\ e.adj = list.adj /\ e.told = list.told
  BY <1>3 DEF FrameType
<1>5. lists' = [lists EXCEPT ![Depth] = e]
  BY <1>1, <1>2 DEF NextField, list
<1> HIDE DEF e
<1>6. /\ lists' \in Seq(FrameType(C)) /\ Len(lists') = Depth
      /\ \A k \in 1..Len(lists) : lists'[k] = IF k = Depth THEN e ELSE lists[k]
  BY <1>1, <1>2, <1>4, <1>5, ExceptSeq
<1>7. lists'[Depth] = e /\ \A k \in 1..(Depth - 1) : lists'[k] = lists[k]
  BY <1>2, <1>6
<1> QED BY <1>2, <1>4, <1>6, <1>7, Innermost

LEMMA NextListInv == ASSUME Inv, NextList PROVE Inv'
<1> DEFINE x == Field(list).type
           first == [list EXCEPT !.list = x]
           e == [first EXCEPT !.curr = 1]
           m == [lists EXCEPT ![Depth] = first]
<1>1. PICK C : lists \in Seq(FrameType(C))
  BY DEF Inv, WalkInv
<1>2. pc = "list" /\ UNCHANGED <<files, pc, walk, wr>>
  BY DEF NextList, Walking
<1>3. Depth \in 1..Len(lists) /\ Len(lists) = Depth
  BY <1>2, InTheList DEF Depth
<1>4. x \in DOMAIN T /\ x \in Nat
  <2>1. x \in DOMAIN T
    BY DEF NextList, TypeIndexVM
  <2> QED BY <2>1, <1>2, InTheList, TypesAssumption DEF T
<1>5. list \in FrameType(C)
  BY <1>1, <1>3 DEF list
<1>6. lists' = [m EXCEPT ![Depth] = [m[Depth] EXCEPT !.curr = 1]]
  BY DEF NextList, list
<1> HIDE DEF x
<1>7. /\ first \in FrameType(C) /\ first.list = x /\ first.adj = list.adj
      /\ first.told = list.told
  BY <1>4, <1>5 DEF FrameType
<1>8. /\ e \in FrameType(C) /\ e.list = x /\ e.adj = list.adj /\ e.told = list.told
  <2> HIDE DEF first
  <2> QED BY <1>7 DEF FrameType
<1>9. lists' = [m EXCEPT ![Depth] = [m[Depth] EXCEPT !.curr = 1]] /\ e = [first EXCEPT !.curr = 1]
  BY <1>6
<1> HIDE DEF e, first
<1>10. /\ lists' \in Seq(FrameType(C)) /\ Len(lists') = Depth
       /\ \A k \in 1..Len(lists) : lists'[k] = IF k = Depth THEN e ELSE lists[k]
  <2>1. /\ m \in Seq(FrameType(C)) /\ Len(m) = Len(lists)
        /\ \A k \in 1..Len(lists) : m[k] = IF k = Depth THEN first ELSE lists[k]
    BY <1>1, <1>3, <1>7, ExceptSeq
  <2> HIDE DEF m
  <2>2. lists' = [m EXCEPT ![Depth] = e]
    BY <1>3, <1>9, <2>1
  <2>3. /\ lists' \in Seq(FrameType(C)) /\ Len(lists') = Len(m)
        /\ \A k \in 1..Len(m) : lists'[k] = IF k = Depth THEN e ELSE m[k]
    BY <1>3, <1>8, <2>1, <2>2, ExceptSeq
  <2> QED BY <1>3, <2>1, <2>3
<1>11. lists'[Depth] = e /\ \A k \in 1..(Depth - 1) : lists'[k] = lists[k]
  BY <1>3, <1>10
<1>12. PICK D : walk \in WalkType(D)
  BY DEF Inv, WalkInv
<1>13. SameAdjustor
  BY <1>2 DEF SameAdjustor
<1> QED BY <1>2, <1>4, <1>8, <1>10, <1>11, <1>12, <1>13, Innermost

LEMMA EnterTyped ==
  ASSUME NEW a \in Adjustors, NEW C, NEW l \in FrameType(C), EntersRight(l)
  PROVE  EnterBase(a, l) \in Adjustors
<1>1. CASE Field(l).code = "BCLASS"
  BY <1>1 DEF EntersRight, EnterBase, Adjustors
<1>2. CASE Field(l).code # "BCLASS"
  <2>1. <<l.list, l.curr>> \in Nat \X Nat
    BY DEF FrameType
  <2> QED BY <1>2, <2>1 DEF EnterBase, Adjustors
<1> QED BY <1>1, <1>2

LEMMA SkipBaseInv == ASSUME Inv, SkipBase PROVE Inv'
<1> DEFINE hit == walk.client = "thunk" /\ ~walk.found /\ Field(list).type = walk.key
<1>1. /\ pc = "list" /\ ~AtEnd /\ UNCHANGED <<files, pc, wr>> /\ NextField
      /\ hit \/ walk.found \/ walk.client \in {"user", "vtab"}
      /\ walk' = [walk EXCEPT !.skipped = @ \/ walk.client = "user",
                    !.found = @ \/ hit, !.adj = IF hit THEN EnterBase(@, list) ELSE @]
  BY DEF SkipBase, Walking
<1>2. PICK D : walk \in WalkType(D)
  BY DEF Inv, WalkInv
<1>3. PICK C : list \in FrameType(C)
  BY <1>1, InTheList
<1>4. hit \in BOOLEAN /\ (walk.client = "user") \in BOOLEAN
  OBVIOUS
<1>5. EnterBase(walk.adj, list) \in Adjustors /\ walk.adj \in Adjustors
  BY <1>1, <1>2, <1>3, FieldRight, EnterTyped DEF WalkType
<1> HIDE DEF hit
<1>6. walk' \in WalkType(D) /\ walk'.ret = walk.ret
  BY <1>1, <1>2, <1>4, <1>5 DEF WalkType
<1>7. walk'.found \/ SameAdjustor
  BY <1>1, <1>2, <1>4 DEF WalkType, SameAdjustor
<1> QED BY <1>1, <1>6, <1>7, NextFieldInv

\* What entering a base adds to a place.
LEMMA EnterAdds ==
  ASSUME NEW a \in Adjustors, NEW C, NEW l \in FrameType(C), EntersRight(l)
  PROVE  /\ Field(l).code = "BCLASS" => /\ Field(l).offset \in Int
                                        /\ EnterBase(a, l).offset = a.offset + Field(l).offset
                                        /\ EnterBase(a, l).vbase = a.vbase
         /\ Field(l).code # "BCLASS" => /\ EnterBase(a, l).offset = a.offset
                                        /\ EnterBase(a, l).vbase = <<l.list, l.curr>>
  BY DEF EntersRight, EnterBase, Adjustors

\* And what leaving one takes from it.
LEMMA LeaveTakes ==
  ASSUME NEW a \in Adjustors, NEW C, NEW l \in FrameType(C), EntersRight(l)
  PROVE  /\ LeaveBase(a, l) \in Adjustors
         /\ Field(l).code = "BCLASS" => /\ LeaveBase(a, l).offset = a.offset - Field(l).offset
                                        /\ LeaveBase(a, l).vbase = a.vbase
         /\ Field(l).code # "BCLASS" => /\ LeaveBase(a, l).offset = a.offset
                                        /\ LeaveBase(a, l).vbase = NoBase
<1>1. NoBase \in Nat \X Nat
  BY SMT DEF NoBase
<1>2. CASE Field(l).code = "BCLASS"
  <2>1. PICK o \in Int : o = Field(l).offset
    BY <1>2 DEF EntersRight
  <2>2. LeaveBase(a, l) = [a EXCEPT !.offset = @ - o]
    BY <1>2, <2>1 DEF LeaveBase
  <2> QED BY <1>2, <2>1, <2>2 DEF Adjustors
<1>3. CASE Field(l).code # "BCLASS"
  <2>1. LeaveBase(a, l) = [a EXCEPT !.vbase = NoBase]
    BY <1>3 DEF LeaveBase
  <2> QED BY <1>1, <1>3, <2>1 DEF Adjustors
<1> QED BY <1>2, <1>3

\* The base's frame is where the base is; what the client makes of it is left
\* to its own step.
LEMMA EnterListInv ==
  ASSUME Inv, NEW told \in BOOLEAN, EnterList(told),
         NEW D, walk' \in WalkType(D), walk'.ret = walk.ret, walk'.found = walk.found,
         walk'.adj.offset = EnterBase(list.adj, list).offset - walk'.missed,
         walk'.adj.vbase = IF IF Depth = 1 THEN ~told ELSE ~lists[2].told
                             THEN NoBase ELSE EnterBase(list.adj, list).vbase,
         ~walk'.lost => told /\ ~walk.lost /\ walk'.missed = 0
  PROVE  Inv'
<1> DEFINE adj == EnterBase(list.adj, list)
           x == BaseFields(list)
           ct == BaseVM(list)
           f == Frame(x, ct, adj, told)
<1>1. /\ pc = "list" /\ ~AtEnd /\ UNCHANGED <<files, pc, wr>> /\ Inherited /\ ~walk.found
      /\ Field(list).code \in Bases
      /\ lists' = Append(lists, f)
  BY DEF EnterList, Walking
<1>2. PICK C : lists \in Seq(FrameType(C))
  BY DEF Inv, WalkInv
<1>4. Depth \in Nat \ {0} /\ Len(lists) = Depth /\ lists # <<>> /\ list \in FrameType(C)
  BY <1>1, <1>2, InTheList DEF Depth, list
<1>5. EntersRight(list) /\ adj \in Adjustors
  BY <1>1, <1>4, InTheList, FieldRight, EnterTyped
<1>6. x \in DOMAIN T /\ x \in Nat
  <2>1. x \in DOMAIN T
    BY DEF EnterList, TypeIndexVM
  <2> QED BY <2>1, <1>1, InTheList, TypesAssumption DEF T
<1>7. Depth > 1 => Field(list).code = "BCLASS"
  BY <1>1, <1>4 DEF Inherited
<1>8. /\ lists[1].adj = NoAdj
      /\ \A k \in 1..(Depth - 1) : lists[k + 1].adj = EnterBase(lists[k].adj, lists[k])
      /\ ~walk.lost => \A k \in 1..Depth : lists[k].told
  BY <1>1, <1>4 DEF Inv, WalkInv, Balanced
<1>9. adj = EnterBase(lists[Depth].adj, lists[Depth])
  BY DEF list
<1>10. /\ walk'.adj.offset = adj.offset - walk'.missed
       /\ walk'.adj.vbase = IF IF Depth = 1 THEN ~told ELSE ~lists[2].told
                               THEN NoBase ELSE adj.vbase
  OBVIOUS
<1> HIDE DEF adj, x, ct
<1> DEFINE E == C \cup {ct}
<1>11. f \in FrameType(E) /\ f.list = x /\ f.adj = adj /\ f.told = told
  BY <1>5, <1>6 DEF Frame, FrameType
<1> HIDE DEF f
<1>12. lists \in Seq(FrameType(E))
  BY <1>2, WiderFrames
<1> HIDE DEF E
<1>13. /\ lists' \in Seq(FrameType(E)) /\ Len(lists') = Depth + 1 /\ lists' # <<>>
       /\ lists'[Depth + 1] = f /\ \A k \in 1..Depth : lists'[k] = lists[k]
  BY <1>1, <1>4, <1>11, <1>12, AppendProperties
<1>14. T' = T /\ \A k \in 1..Depth : Field(lists[k])' = Field(lists[k])
  <2>1. T' = T
    BY <1>1 DEF T, files
  <2> QED BY <2>1, <1>13 DEF Field, Fields, FieldsIn
<1>15. Frames'
  <2>1. ASSUME NEW k \in 1..Len(lists') PROVE lists'[k].list \in DOMAIN T'
    <3>1. CASE k = Depth + 1
      BY <3>1, <1>6, <1>11, <1>13, <1>14
    <3>2. CASE k # Depth + 1
      BY <3>2, <1>4, <1>13, <1>14 DEF Inv, WalkInv, Frames
    <3> QED BY <3>1, <3>2
  <2>2. ASSUME NEW k \in 1..(Len(lists') - 1)
        PROVE  EntersRight(lists[k])' /\ (k > 1 => Field(lists[k])'.code = "BCLASS")
    <3>1. k \in 1..Depth /\ Field(lists[k])' = Field(lists[k])
      BY <1>4, <1>13, <1>14
    <3>2. EntersRight(lists[k]) /\ (k > 1 => Field(lists[k]).code = "BCLASS")
      <4>1. CASE k = Depth
        BY <4>1, <1>5, <1>7 DEF list
      <4>2. CASE k # Depth
        BY <4>2, <3>1, <1>4 DEF Inv, WalkInv, Frames
      <4> QED BY <4>1, <4>2
    <3> QED BY <3>1, <3>2 DEF EntersRight
  <2> QED BY <2>1, <2>2 DEF Frames
<1>16. Balanced'
  <2>1. Depth' = Depth + 1 /\ list' = f
    BY <1>13 DEF Depth, list
  <2>2. \A k \in 1..Depth : EnterBase(lists[k].adj, lists[k])' = EnterBase(lists[k].adj, lists[k])
    BY <1>13, <1>14 DEF EnterBase
  <2>3. ASSUME NEW k \in 1..Depth
        PROVE  lists'[k + 1].adj = EnterBase(lists[k].adj, lists[k])'
    <3>1. CASE k = Depth
      BY <3>1, <2>2, <1>9, <1>11, <1>13
    <3>2. CASE k # Depth
      <4>1. k \in 1..(Depth - 1) /\ k + 1 \in 1..Depth
        BY <3>2, <1>4
      <4> QED BY <4>1, <2>2, <1>8, <1>13
    <3> QED BY <3>1, <3>2
  <2>4. walk'.adj.offset = list'.adj.offset - walk'.missed /\ lists'[1].adj = NoAdj
    BY <2>1, <1>4, <1>8, <1>10, <1>11, <1>13
  <2>5. Depth' - 1 = Depth
    BY <2>1, <1>4
  <2>6. Depth' > 1 /\ lists'[2].told = IF Depth = 1 THEN told ELSE lists[2].told
    BY <2>1, <1>4, <1>11, <1>13
  <2>7. walk'.adj.vbase = IF Depth' > 1 /\ ~lists'[2].told THEN NoBase ELSE list'.adj.vbase
    BY <2>1, <2>6, <1>10, <1>11
  <2>8. ASSUME ~walk'.lost, NEW k \in 1..Depth' PROVE lists'[k].told
    <3>1. CASE k = Depth + 1
      BY <2>8, <3>1, <1>11, <1>13
    <3>2. CASE k # Depth + 1
      <4>1. k \in 1..Depth
        BY <2>1, <3>2, <1>4
      <4> QED BY <2>8, <4>1, <1>8, <1>13
    <3> QED BY <3>1, <3>2
  <2> QED BY <2>3, <2>4, <2>5, <2>7, <2>8 DEF Balanced
<1>17. WalkInv'
  BY <1>1, <1>13, <1>15, <1>16 DEF Inv, WalkInv
<1>18. LoadInv'
  BY <1>1, FilesLoadInv DEF Inv, EntryPoints, Points, LoadSteps
<1> QED BY <1>17, <1>18 DEF Inv

\* Where a client is when the walk comes to a base.
LEMMA AtBase ==
  ASSUME Inv, NEW told \in BOOLEAN, EnterList(told)
  PROVE  /\ Depth \in Nat \ {0} /\ list.adj \in Adjustors /\ EntersRight(list)
         /\ \E C : list \in FrameType(C)
         /\ walk.adj.offset = list.adj.offset - walk.missed
         /\ Depth = 1 => walk.adj.vbase = NoBase /\ list.adj.vbase = NoBase
         /\ Depth > 1 => /\ Field(list).code = "BCLASS"
                         /\ walk.adj.vbase = IF ~lists[2].told THEN NoBase ELSE list.adj.vbase
         /\ ~walk.lost => walk.missed = 0
<1>1. pc = "list" /\ ~AtEnd /\ ~walk.found /\ Inherited
  BY DEF EnterList, Walking
<1>2. lists # <<>> /\ Depth \in Nat \ {0} /\ list.adj \in Adjustors /\ EntersRight(list)
      /\ \E C : list \in FrameType(C)
  BY <1>1, InTheList, FieldRight
<1>3. /\ walk.adj.offset = list.adj.offset - walk.missed
      /\ walk.adj.vbase = IF Depth > 1 /\ ~lists[2].told THEN NoBase ELSE list.adj.vbase
      /\ lists[1].adj = NoAdj
      /\ ~walk.lost => walk.missed = 0
  BY <1>1, <1>2 DEF Inv, WalkInv, Balanced
<1>4. Depth = 1 => list.adj.vbase = NoBase
  BY <1>3 DEF list, NoAdj
<1>5. Depth > 1 => Field(list).code = "BCLASS"
  BY <1>1, <1>2 DEF Inherited
<1> QED BY <1>2, <1>3, <1>4, <1>5

LEMMA InheritStartInv == ASSUME Inv, InheritStart PROVE Inv'
<1> DEFINE adj == EnterBase(walk.adj, list)
<1>1. EnterList(TRUE) /\ walk' = [walk EXCEPT !.adj = adj]
  BY DEF InheritStart
<1>2. PICK D : walk \in WalkType(D)
  BY DEF Inv, WalkInv
<1>3. PICK C : list \in FrameType(C)
  BY <1>1, AtBase
<1>4. /\ Depth \in Nat \ {0} /\ list.adj \in Adjustors /\ EntersRight(list)
      /\ walk.adj.offset = list.adj.offset - walk.missed
      /\ Depth = 1 => walk.adj.vbase = NoBase /\ list.adj.vbase = NoBase
      /\ Depth > 1 => /\ Field(list).code = "BCLASS"
                      /\ walk.adj.vbase = IF ~lists[2].told THEN NoBase ELSE list.adj.vbase
      /\ ~walk.lost => walk.missed = 0
  BY <1>1, AtBase
<1>5. walk.adj \in Adjustors /\ walk.missed \in Int /\ adj \in Adjustors
  BY <1>2, <1>3, <1>4, EnterTyped DEF WalkType
<1>6. /\ Field(list).code = "BCLASS" =>
           /\ Field(list).offset \in Int
           /\ adj.offset = walk.adj.offset + Field(list).offset /\ adj.vbase = walk.adj.vbase
      /\ Field(list).code # "BCLASS" =>
           adj.offset = walk.adj.offset /\ adj.vbase = <<list.list, list.curr>>
  BY <1>3, <1>4, <1>5, EnterAdds
<1>7. /\ Field(list).code = "BCLASS" =>
           /\ EnterBase(list.adj, list).offset = list.adj.offset + Field(list).offset
           /\ EnterBase(list.adj, list).vbase = list.adj.vbase
      /\ Field(list).code # "BCLASS" =>
           /\ EnterBase(list.adj, list).offset = list.adj.offset
           /\ EnterBase(list.adj, list).vbase = <<list.list, list.curr>>
  BY <1>3, <1>4, EnterAdds
<1>8. list.adj.offset \in Int
  BY <1>4 DEF Adjustors
<1> HIDE DEF adj
<1>9. /\ walk' \in WalkType(D) /\ walk'.ret = walk.ret /\ walk'.found = walk.found
      /\ walk'.adj = adj /\ walk'.missed = walk.missed /\ walk'.lost = walk.lost
  BY <1>1, <1>2, <1>5 DEF WalkType
<1>10. adj.offset = EnterBase(list.adj, list).offset - walk.missed
  BY <1>4, <1>5, <1>6, <1>7, <1>8
<1>11. adj.vbase = IF IF Depth = 1 THEN ~TRUE ELSE ~lists[2].told
                     THEN NoBase ELSE EnterBase(list.adj, list).vbase
  <2>1. CASE Depth = 1
    BY <2>1, <1>4, <1>6, <1>7
  <2>2. CASE Depth > 1
    BY <2>2, <1>4, <1>6, <1>7
  <2> QED BY <2>1, <2>2, <1>4
<1> QED BY <1>1, <1>4, <1>9, <1>10, <1>11, EnterListInv

\* A base the client failed at.
LEMMA InheritFailsInv == ASSUME Inv, InheritFails PROVE Inv'
<1> DEFINE m == IF Field(list).code = "BCLASS" THEN walk.missed + Field(list).offset
                                               ELSE walk.missed
<1>1. EnterList(FALSE) /\ walk' = [walk EXCEPT !.lost = TRUE, !.missed = m]
  BY DEF InheritFails
<1>2. PICK D : walk \in WalkType(D)
  BY DEF Inv, WalkInv
<1>3. PICK C : list \in FrameType(C)
  BY <1>1, AtBase
<1>4. /\ Depth \in Nat \ {0} /\ list.adj \in Adjustors /\ EntersRight(list)
      /\ walk.adj.offset = list.adj.offset - walk.missed
      /\ Depth = 1 => walk.adj.vbase = NoBase
      /\ Depth > 1 => /\ Field(list).code = "BCLASS"
                      /\ walk.adj.vbase = IF ~lists[2].told THEN NoBase ELSE list.adj.vbase
  BY <1>1, AtBase
<1>5. walk.missed \in Int /\ list.adj.offset \in Int
  BY <1>2, <1>4 DEF WalkType, Adjustors
<1>6. /\ Field(list).code = "BCLASS" =>
           /\ Field(list).offset \in Int
           /\ EnterBase(list.adj, list).offset = list.adj.offset + Field(list).offset
           /\ EnterBase(list.adj, list).vbase = list.adj.vbase
      /\ Field(list).code # "BCLASS" => EnterBase(list.adj, list).offset = list.adj.offset
  BY <1>3, <1>4, EnterAdds
<1>7. m \in Int /\ walk.adj.offset = EnterBase(list.adj, list).offset - m
  BY <1>4, <1>5, <1>6
<1> HIDE DEF m
<1>8. /\ walk' \in WalkType(D) /\ walk'.ret = walk.ret /\ walk'.found = walk.found
      /\ walk'.adj = walk.adj /\ walk'.missed = m /\ walk'.lost
  BY <1>1, <1>2, <1>7 DEF WalkType
<1>9. walk.adj.vbase = IF IF Depth = 1 THEN ~FALSE ELSE ~lists[2].told
                         THEN NoBase ELSE EnterBase(list.adj, list).vbase
  <2>1. CASE Depth = 1
    BY <2>1, <1>4
  <2>2. CASE Depth > 1
    BY <2>2, <1>4, <1>6
  <2> QED BY <2>1, <2>2, <1>4
<1> QED BY <1>1, <1>7, <1>8, <1>9, EnterListInv

\* All lists but the innermost one.
LEMMA FrontLists ==
  ASSUME NEW S, NEW s \in Seq(S), Len(s) > 1
  PROVE  /\ Front(s) \in Seq(S) /\ Len(Front(s)) = Len(s) - 1
         /\ \A k \in 1..(Len(s) - 1) : Front(s)[k] = s[k]
<1>1. Len(s) \in Nat
  BY LenProperties
<1> QED BY <1>1, SMT DEF Front

LEMMA InheritEndInv == ASSUME Inv, InheritEnd PROVE Inv'
<1>1. pc = "list" /\ Depth > 1 /\ UNCHANGED files
  BY DEF InheritEnd, Walking
<1>2. PICK D : walk \in WalkType(D)
  BY DEF Inv, WalkInv
<1>3. CASE Return("STOP") /\ UNCHANGED walk
  BY <1>1, <1>2, <1>3, WalkReturns DEF Results
<1>4. CASE /\ ~walk.found
           /\ lists' = [Front(lists) EXCEPT ![Depth - 1].curr = @ + 1]
           /\ walk' = [walk EXCEPT !.adj = LeaveBase(@, Outer)]
           /\ UNCHANGED <<pc, wr>>
  <2>0. PICK n \in Nat \ {0} : n = Depth - 1
    BY <1>1, InTheList
  <2> DEFINE g == Front(lists)
             e == [g[n] EXCEPT !.curr = @ + 1]
             adj == LeaveBase(walk.adj, Outer)
  <2>1. PICK C : lists \in Seq(FrameType(C))
    BY DEF Inv, WalkInv
  <2>2. /\ Depth \in Nat /\ Depth = n + 1 /\ Len(lists) = Depth
        /\ n \in 1..Depth /\ Outer = lists[n] /\ list = lists[n + 1] /\ lists # <<>>
    <3>1. Depth \in Nat /\ lists # <<>>
      BY <1>1, InTheList
    <3>2. Len(lists) = Depth
      BY DEF Depth
    <3>3. Outer = lists[n] /\ list = lists[n + 1]
      BY <2>0, <3>1 DEF Outer, list
    <3> QED BY <2>0, <3>1, <3>2, <3>3
  <2>3. /\ lists' = [g EXCEPT ![n] = e] /\ walk' = [walk EXCEPT !.adj = adj]
        /\ UNCHANGED <<pc, wr>>
    BY <1>4, <2>0
  <2>4. /\ g \in Seq(FrameType(C)) /\ Len(g) = n /\ \A k \in 1..n : g[k] = lists[k]
    BY <1>1, <2>1, <2>2, FrontLists
  <2>5. lists[n] \in FrameType(C)
    BY <2>1, <2>2
  <2> HIDE DEF g
  <2>6. /\ e \in FrameType(C) /\ e.list = lists[n].list /\ e.adj = lists[n].adj
        /\ e.told = lists[n].told
    <3>1. g[n] = lists[n]
      BY <2>2, <2>4
    <3>2. e = [lists[n] EXCEPT !.curr = @ + 1]
      BY <3>1
    <3> HIDE DEF e, g
    <3> QED BY <2>5, <3>2 DEF FrameType
  <2> HIDE DEF e
  <2>7. /\ lists' \in Seq(FrameType(C)) /\ Len(lists') = n
        /\ \A k \in 1..n : lists'[k] = IF k = n THEN e ELSE lists[k]
    BY <2>2, <2>3, <2>4, <2>6, ExceptSeq
  <2>8. /\ walk.adj.offset = list.adj.offset - walk.missed
        /\ walk.adj.vbase = IF ~lists[2].told THEN NoBase ELSE list.adj.vbase
        /\ lists[1].adj = NoAdj
        /\ \A k \in 1..n : lists[k + 1].adj = EnterBase(lists[k].adj, lists[k])
        /\ ~walk.lost => walk.missed = 0 /\ \A k \in 1..Depth : lists[k].told
    <3>1. Depth - 1 = n
      BY <2>2
    <3> QED BY <1>1, <1>4, <2>2, <3>1 DEF Inv, WalkInv, Balanced
  <2>9. EntersRight(lists[n]) /\ (n > 1 => Field(lists[n]).code = "BCLASS")
    BY <2>2 DEF Inv, WalkInv, Frames
  <2>10. list.adj = EnterBase(lists[n].adj, lists[n]) /\ lists[n].adj \in Adjustors
         /\ lists[n].adj.offset \in Int
    BY <2>2, <2>5, <2>8 DEF FrameType, Adjustors
  <2>11. walk.adj \in Adjustors /\ walk.missed \in Int /\ adj \in Adjustors
    <3>1. walk.adj \in Adjustors /\ walk.missed \in Int
      BY <1>2 DEF WalkType
    <3> QED BY <3>1, <2>2, <2>5, <2>9, LeaveTakes
  <2>12. /\ Field(lists[n]).code = "BCLASS" =>
              /\ Field(lists[n]).offset \in Int
              /\ list.adj.offset = lists[n].adj.offset + Field(lists[n]).offset
              /\ list.adj.vbase = lists[n].adj.vbase
         /\ Field(lists[n]).code # "BCLASS" => list.adj.offset = lists[n].adj.offset
    BY <2>5, <2>9, <2>10, EnterAdds
  <2>13. /\ Field(lists[n]).code = "BCLASS" =>
              /\ adj.offset = walk.adj.offset - Field(lists[n]).offset
              /\ adj.vbase = walk.adj.vbase
         /\ Field(lists[n]).code # "BCLASS" =>
              adj.offset = walk.adj.offset /\ adj.vbase = NoBase
    BY <2>2, <2>5, <2>9, <2>11, LeaveTakes
  <2>14. adj.offset = lists[n].adj.offset - walk.missed
    <3>1. walk.adj.offset \in Int
      BY <2>11 DEF Adjustors
    <3> HIDE DEF adj
    <3> QED BY <3>1, <2>8, <2>10, <2>11, <2>12, <2>13
  <2>15. adj.vbase = IF n > 1 /\ ~lists[2].told THEN NoBase ELSE lists[n].adj.vbase
    <3> HIDE DEF adj
    <3>1. CASE n = 1
      <4>1. lists[n].adj.vbase = NoBase
        BY <3>1, <2>8 DEF NoAdj
      <4> QED BY <3>1, <4>1, <2>8, <2>12, <2>13
    <3>2. CASE n > 1
      BY <3>2, <2>8, <2>9, <2>12, <2>13
    <3> QED BY <3>1, <3>2
  <2>16. /\ walk' \in WalkType(D) /\ walk'.ret = walk.ret /\ walk'.adj = adj
         /\ walk'.missed = walk.missed /\ walk'.lost = walk.lost
    <3> HIDE DEF adj
    <3> QED BY <1>2, <2>3, <2>11 DEF WalkType
  <2> HIDE DEF adj
  <2>17. T' = T /\ \A k \in 1..(n - 1) : Field(lists[k])' = Field(lists[k])
    <3>1. T' = T
      BY <1>1 DEF T, files
    <3> QED BY <3>1, <2>2, <2>7 DEF Field, Fields, FieldsIn
  <2>18. Frames'
    <3>1. ASSUME NEW k \in 1..Len(lists') PROVE lists'[k].list \in DOMAIN T'
      BY <3>1, <2>2, <2>6, <2>7, <2>17 DEF Inv, WalkInv, Frames
    <3>2. ASSUME NEW k \in 1..(Len(lists') - 1)
          PROVE  EntersRight(lists[k])' /\ (k > 1 => Field(lists[k])'.code = "BCLASS")
      <4>1. k \in 1..(n - 1) /\ k \in 1..(Len(lists) - 1)
        BY <2>2, <2>7
      <4> QED BY <4>1, <2>17 DEF Inv, WalkInv, Frames, EntersRight
    <3> QED BY <3>1, <3>2 DEF Frames
  <2>19. Balanced'
    <3>1. Depth' = n /\ list' = e
      <4>1. Depth' = n
        BY <2>7 DEF Depth
      <4> QED BY <4>1, <2>2, <2>7 DEF list
    <3>2. \A k \in 1..n : lists'[k].adj = lists[k].adj /\ lists'[k].told = lists[k].told
      BY <2>6, <2>7
    <3>3. \A k \in 1..(n - 1) :
            EnterBase(lists[k].adj, lists[k])' = EnterBase(lists[k].adj, lists[k])
      <4>1. \A k \in 1..(n - 1) : lists'[k] = lists[k]
        BY <2>7
      <4> QED BY <4>1, <2>17 DEF EnterBase
    <3>4. ASSUME NEW k \in 1..(n - 1)
          PROVE  lists'[k + 1].adj = EnterBase(lists[k].adj, lists[k])'
      <4>1. k \in 1..n /\ k + 1 \in 1..n
        BY <2>2
      <4> QED BY <4>1, <2>8, <3>2, <3>3
    <3>5. walk'.adj.offset = list'.adj.offset - walk'.missed /\ lists'[1].adj = NoAdj
      BY <2>2, <2>6, <2>8, <2>14, <2>16, <3>1, <3>2
    <3>6. walk'.adj.vbase = IF Depth' > 1 /\ ~lists'[2].told THEN NoBase ELSE list'.adj.vbase
      <4>1. n > 1 => lists'[2].told = lists[2].told
        BY <2>2, <3>2
      <4> QED BY <4>1, <2>6, <2>15, <2>16, <3>1
    <3>7. ~walk'.lost => walk'.missed = 0 /\ \A k \in 1..Depth' : lists'[k].told
      <4>1. \A k \in 1..n : k \in 1..Depth
        BY <2>2
      <4> QED BY <4>1, <2>8, <2>16, <3>1, <3>2
    <3> QED BY <3>1, <3>4, <3>5, <3>6, <3>7 DEF Balanced
  <2>20. lists' # <<>>
    BY <2>2, <2>7
  <2>21. WalkInv'
    BY <1>1, <2>3, <2>7, <2>16, <2>18, <2>19, <2>20 DEF Inv, WalkInv
  <2>22. LoadInv'
    BY <1>1, <2>3, FilesLoadInv DEF Inv, EntryPoints, Points, LoadSteps
  <2> QED BY <2>21, <2>22 DEF Inv
<1> QED BY <1>3, <1>4 DEF InheritEnd

LEMMA SymbolInv == ASSUME Inv, Symbol PROVE Inv'
<1>1. pc = "list" /\ ~AtEnd /\ UNCHANGED files
  BY DEF Symbol, Walking
<1>2. PICK D : walk \in WalkType(D)
  BY DEF Inv, WalkInv
<1>3. "STOP" \in Results
  BY DEF Results
<1>4. CASE WalkSymbol
  <2>1. CASE walk' = walk /\ Return("STOP")
    BY <2>1, <1>1, <1>2, <1>3, WalkReturns
  <2>2. ASSUME NEW m, walk' = [walk EXCEPT !.mfunc = m], UNCHANGED <<pc, wr>>,
               NextField \/ UNCHANGED lists
        PROVE  Inv'
    <3> DEFINE E == D \cup {m}
    <3>1. walk \in WalkType(E)
      BY <1>2, WiderWalk
    <3>2. walk' \in WalkType(E) /\ walk'.ret = walk.ret /\ SameAdjustor
      BY <2>2, <3>1 DEF WalkType, SameAdjustor
    <3> HIDE DEF E
    <3>3. CASE NextField
      BY <2>2, <3>2, <3>3, <1>1, NextFieldInv
    <3>4. CASE UNCHANGED lists
      <4>1. PICK C : lists \in Seq(FrameType(C))
        BY DEF Inv, WalkInv
      <4> QED BY <4>1, <2>2, <3>2, <3>4, <1>1, InTheList, Innermost DEF list, Depth
    <3> QED BY <2>2, <3>3, <3>4
  <2> QED BY <1>4, <2>1, <2>2 DEF WalkSymbol
<1>5. CASE SearchSymbol \/ Ignored
  <2>1. NextField /\ UNCHANGED <<pc, walk, wr>>
    BY <1>5 DEF SearchSymbol, Ignored
  <2>2. SameAdjustor
    BY <2>1 DEF SameAdjustor
  <2> QED BY <2>1, <2>2, <1>1, <1>2, NextFieldInv
<1>6. CASE ThunkSymbol \/ VTabSymbol
  <2>1. Return("STOP") /\ walk' = walk
    BY <1>6 DEF ThunkSymbol, VTabSymbol
  <2> QED BY <2>1, <1>1, <1>2, <1>3, WalkReturns
<1> QED BY <1>4, <1>5, <1>6 DEF Symbol

LEMMA TypeListWalkInv == ASSUME Inv, TypeListWalk PROVE Inv'
<1>1. PICK D : walk \in WalkType(D)
  BY DEF Inv, WalkInv
<1>2. CASE ListDone
  BY <1>1, <1>2, WalkReturns DEF ListDone, Walking, Results
<1>3. CASE SkipVirtual
  BY <1>1, <1>3, NextFieldInv DEF SkipVirtual, Walking, SameAdjustor
<1>4. CASE WalkFails
  BY <1>1, <1>4, WalkReturns DEF WalkFails, Walking, Results
<1> QED BY <1>2, <1>3, <1>4, InheritEndInv, NextListInv, SkipBaseInv, InheritStartInv,
           InheritFailsInv, SymbolInv DEF TypeListWalk

-----------------------------------------------------------------------------
(***************************************************************************)
(* The other steps of the entry points.  Each is plain or starts a walk.   *)
(***************************************************************************)
SymbolPoints == {"enter", "peel", "done", "ssearch", "outermost", "smallest", "scope", "one",
                 "class", "outer", "blockwalk", "outerblock", "file", "fileone", "name",
                 "table", "addr"}
Plain == /\ UNCHANGED <<files, lists, walk>> /\ pc \in SymbolPoints /\ pc' \in SymbolPoints
         /\ wr' \in Results
Starts ==
  /\ UNCHANGED files /\ pc \in SymbolPoints
  /\ \E client, idx, containing_type, key : \E ret \in {"done", "outer", "outerblock"} :
       StartWalk(client, idx, containing_type, key, ret)

LEMMA PlainOrStarts == Inv /\ (Plain \/ Starts) => Inv'
<1> SUFFICES ASSUME Inv, Plain \/ Starts PROVE Inv'
  OBVIOUS
<1>1. SymbolPoints \subseteq EntryPoints \ {"list"}
  BY DEF SymbolPoints, EntryPoints, Points, LoadSteps
<1>2. CASE Plain
  BY <1>1, <1>2, PlainStep DEF Plain
<1>3. CASE Starts
  BY <1>1, <1>3, WalkStarts DEF Starts
<1> QED BY <1>2, <1>3

LEMMA ResultsAre == \A r \in {"CONTINUE", "STOP", "FAIL", "NONE", "CLOSEST", "EXACT"} : r \in Results
  BY DEF Results

LEMMA DispatchSteps == Inv /\ Dispatch => Plain \/ Starts
<1> SUFFICES ASSUME Inv, Dispatch PROVE Plain \/ Starts
  OBVIOUS
<1>1. wr \in Results
  BY DEF Inv, WalkInv
<1>2. CASE WalkMembers
  BY <1>1, <1>2, ResultsAre
  DEF WalkMembers, Entering, Ends, Plain, Starts, SymbolPoints
<1>3. CASE SearchNested
  BY <1>1, <1>3, ResultsAre
  DEF SearchNested, Entering, Ends, Plain, Starts, SymbolPoints
<1>4. CASE ThunkAdjust
  BY <1>1, <1>4, ResultsAre
  DEF ThunkAdjust, Entering, Ends, Plain, Starts, SymbolPoints
<1>5. CASE VFuncLocation
  BY <1>1, <1>5, ResultsAre
  DEF VFuncLocation, Entering, Ends, Plain, Starts, SymbolPoints
<1>6. CASE SearchTag
  BY <1>1, <1>6, ResultsAre DEF SearchTag, Entering, Ends, Plain, SymbolPoints, others
<1>7. CASE EnterArray
  BY <1>1, <1>7 DEF EnterArray, Entering, Plain, SymbolPoints, others
<1>8. CASE EnterScoped
  BY <1>1, <1>8, ResultsAre DEF EnterScoped, Ends, Plain, SymbolPoints, others
<1>9. CASE EnterModule
  BY <1>1, <1>9 DEF EnterModule, Plain, SymbolPoints, others
<1>10. CASE EnterAddr
  BY <1>1, <1>10 DEF EnterAddr, Entering, Plain, SymbolPoints, others
<1> QED BY <1>2, <1>3, <1>4, <1>5, <1>6, <1>7, <1>8, <1>9, <1>10 DEF Dispatch

LEMMA ScopeSearchSteps == Inv /\ ScopeSearch => Plain
<1> SUFFICES ASSUME Inv, ScopeSearch PROVE Plain
  OBVIOUS
<1>1. wr \in Results
  BY DEF Inv, WalkInv
<1>2. CASE SearchSegment
  BY <1>1, <1>2, ResultsAre DEF SearchSegment, NotFound, Ends, Plain, SymbolPoints, others
<1>3. CASE SearchOutermost
  BY <1>1, <1>3, ResultsAre DEF SearchOutermost, NotFound, Ends, Plain, SymbolPoints, others
<1>4. CASE SearchSmallest
  BY <1>1, <1>4 DEF SearchSmallest, Found, Plain, SymbolPoints, others
<1> QED BY <1>2, <1>3, <1>4 DEF ScopeSearch

LEMMA WalkClassSteps ==
  ASSUME Inv, pc \in SymbolPoints, NEW ret \in {"outer", "outerblock"}, WalkClass(ret)
  PROVE  Plain \/ Starts
<1>1. wr \in Results
  BY DEF Inv, WalkInv
<1>2. CASE IsMember(call.scope)
  BY <1>2 DEF WalkClass, Starts
<1>3. CASE ~IsMember(call.scope)
  BY <1>1, <1>3 DEF WalkClass, Plain, SymbolPoints, others
<1> QED BY <1>2, <1>3

LEMMA ShowStep ==
  ASSUME Inv, NEW h, Show(h), pc \in SymbolPoints
  PROVE  pc' \in SymbolPoints /\ wr' \in Results
  BY ResultsAre DEF Show, Ends, SymbolPoints, Inv, WalkInv

LEMMA OneSymbolStep ==
  ASSUME Inv, NEW k, NEW filescope, ScopeOneSymbol(k, filescope), pc \in SymbolPoints
  PROVE  Plain
<1>1. UNCHANGED <<files, lists, walk>>
  BY DEF ScopeOneSymbol, others
<1>2. CASE Show(ModuleSym(call.im, k))
  BY <1>1, <1>2, ShowStep DEF Plain
<1>3. CASE UNCHANGED <<pc, wr>>
  BY <1>1, <1>3 DEF Plain, Inv, WalkInv
<1> QED BY <1>2, <1>3 DEF ScopeOneSymbol

LEMMA ScopeWalkSteps == Inv /\ ScopeWalk => Plain \/ Starts
<1> SUFFICES ASSUME Inv, ScopeWalk PROVE Plain \/ Starts
  OBVIOUS
<1>1. wr \in Results
  BY DEF Inv, WalkInv
<1>2. CASE EnterScope
  BY <1>1, <1>2 DEF EnterScope, Plain, SymbolPoints, others
<1>3. CASE ScopeWalkOne
  <2>1. pc \in SymbolPoints
    BY <1>3 DEF ScopeWalkOne, SymbolPoints
  <2>2. CASE ScopeOneSymbol(call.chk, FALSE)
    BY <2>1, <2>2, OneSymbolStep
  <2>3. CASE ~ScopeOneSymbol(call.chk, FALSE)
    BY <1>1, <1>3, <2>1, <2>3 DEF ScopeWalkOne, Plain, SymbolPoints, others
  <2> QED BY <2>2, <2>3
<1>4. CASE ScopeWalkClass
  <2>1. pc \in SymbolPoints
    BY <1>4 DEF ScopeWalkClass, SymbolPoints
  <2>2. CASE WalkClass("outer")
    BY <2>1, <2>2, WalkClassSteps
  <2>3. CASE ~WalkClass("outer")
    BY <1>1, <1>4, <2>1, <2>3 DEF ScopeWalkClass, Plain, SymbolPoints, others
  <2> QED BY <2>2, <2>3
<1>5. CASE ScopeFindNext
  BY <1>1, <1>5, ResultsAre DEF ScopeFindNext, Ends, Plain, SymbolPoints, others
<1>6. CASE WalkBlock
  <2>1. pc \in SymbolPoints
    BY <1>6 DEF WalkBlock, SymbolPoints
  <2>2. CASE WalkClass("outerblock")
    BY <2>1, <2>2, WalkClassSteps
  <2>3. CASE ~WalkClass("outerblock")
    BY <1>1, <1>6, <2>1, <2>3 DEF WalkBlock, Plain, SymbolPoints, others
  <2> QED BY <2>2, <2>3
<1>7. CASE ScopeOuter
  BY <1>1, <1>7, ResultsAre DEF ScopeOuter, Ends, Plain, SymbolPoints, others
<1>8. CASE EnterFile
  BY <1>1, <1>8 DEF EnterFile, Plain, SymbolPoints, others
<1>9. CASE ScopeWalkFile
  <2>1. pc \in SymbolPoints
    BY <1>9 DEF ScopeWalkFile, SymbolPoints
  <2>2. CASE ScopeOneSymbol(call.chk, TRUE)
    BY <2>1, <2>2, OneSymbolStep
  <2>3. CASE FileDone /\ UNCHANGED <<others, out>>
    BY <1>1, <2>1, <2>3, ResultsAre DEF FileDone, Ends, Plain, SymbolPoints, others
  <2> QED BY <1>9, <2>2, <2>3 DEF ScopeWalkFile
<1> QED BY <1>2, <1>3, <1>4, <1>5, <1>6, <1>7, <1>8, <1>9 DEF ScopeWalk

LEMMA TableSteps == Inv /\ (TableStep \/ PeelArray \/ CallFails) => Plain
<1> SUFFICES ASSUME Inv, TableStep \/ PeelArray \/ CallFails PROVE Plain
  OBVIOUS
<1>1. wr \in Results
  BY DEF Inv, WalkInv
<1>2. CASE TableSearchForName
  BY <1>1, <1>2, ResultsAre DEF TableSearchForName, Ends, Plain, SymbolPoints, others
<1>3. CASE TableWalkSym
  <2>1. pc \in SymbolPoints /\ UNCHANGED <<files, lists, walk>>
    BY <1>3 DEF TableWalkSym, SymbolPoints, others
  <2>2. ASSUME NEW h, Show(h) PROVE Plain
    BY <2>1, <2>2, ShowStep DEF Plain
  <2>3. CASE UNCHANGED <<pc, wr>>
    BY <1>1, <2>1, <2>3 DEF Plain
  <2>4. CASE Ends("CONTINUE")
    BY <2>1, <2>4, ResultsAre DEF Ends, Plain, SymbolPoints
  <2> QED BY <1>3, <2>2, <2>3, <2>4 DEF TableWalkSym
<1>4. CASE AddrSym
  <2>1. pc \in SymbolPoints /\ UNCHANGED <<files, lists, walk>>
    BY <1>4 DEF AddrSym, SymbolPoints, others
  <2>2. \/ \E r \in {"EXACT", "NONE", "CLOSEST"} : Ends(r)
        \/ UNCHANGED <<pc, wr>>
    BY <1>4 DEF AddrSym
  <2> QED BY <1>1, <2>1, <2>2, ResultsAre DEF Ends, Plain, SymbolPoints
<1>5. CASE PeelArray
  BY <1>1, <1>5, ResultsAre DEF PeelArray, Ends, Plain, SymbolPoints, others
<1>6. CASE CallFails
  BY <1>1, <1>6, ResultsAre DEF CallFails, Ends, Plain, SymbolPoints, others
<1> QED BY <1>2, <1>3, <1>4, <1>5, <1>6 DEF TableStep

-----------------------------------------------------------------------------
(***************************************************************************)
(* Between the entry points, and while loading, no walk is on.             *)
(***************************************************************************)
LEMMA NoWalkOn ==
  ASSUME Inv, LoadInv', UNCHANGED locals, pc # "list", pc' # "list"
  PROVE  Inv'
<1>1. lists = <<>> /\ lists' = <<>> /\ UNCHANGED <<walk, wr>>
  BY DEF Inv, WalkInv, locals
<1>2. Frames' /\ Balanced'
  BY <1>1 DEF Frames, Balanced
<1>3. WalkInv'
  BY <1>1, <1>2 DEF Inv, WalkInv
<1> QED BY <1>3 DEF Inv

LEMMA LoadCalls == Inv /\ (Load \/ (LoadInfo /\ UNCHANGED locals)) => Inv'
<1> SUFFICES ASSUME Inv, Load \/ (LoadInfo /\ UNCHANGED locals) PROVE Inv'
  OBVIOUS
<1>1. CASE Load
  <2>1. PICK ii \in Images : \/ \E f \in Files : FindCV(ii, f)
                             \/ \E where : MapInfo(ii, where)
                             \/ UnloadInfo(ii)
    BY <1>1 DEF Load
  <2>2. LoadInv'
    BY <2>1, FindLoadInv, RestLoadInv, UnloadLoadInv DEF Inv
  <2>3. pc # "list" /\ pc' # "list"
    BY <2>1 DEF FindCV, MapInfo, UnloadInfo
  <2> QED BY <1>1, <2>2, <2>3, NoWalkOn DEF Load
<1>2. CASE LoadInfo /\ UNCHANGED locals
  <2>1. LoadInv'
    BY <1>2, ListLoadInv, HeaderLoadInv, AllocLoadInv, ReadLoadInv, RestLoadInv, FailsLoadInv
    DEF Inv, LoadInfo
  <2>2. pc # "list" /\ pc' # "list"
    BY <1>2 DEF LoadInfo, ListImage, LoadHeader, AllocBlock, ReadBlock, LoadMapping, LoadTypes,
                SetMADType, LoadFails, LoadSteps
  <2> QED BY <1>2, <2>1, <2>2, NoWalkOn
<1> QED BY <1>1, <1>2

LEMMA RequestSteps == Inv /\ Request => Inv'
<1> SUFFICES ASSUME Inv, Request PROVE Inv'
  OBVIOUS
<1>1. PICK ii \in Images : \E c : Enter(ii, c)
  BY DEF Request
<1>2. /\ pc = "idle" /\ pc' = "enter" /\ ii \in ImageList /\ cur' = ii
      /\ UNCHANGED <<ImageList, img, heap, lists, walk, out, wr>>
  BY <1>1 DEF Enter, Ready
<1>3. Handles'
  BY <1>2 DEF Inv, LoadInv, Handles
<1>4. Where'
  BY <1>2, FilesAssumption DEF Inv, LoadInv, Handles, Where, Points, LoadSteps
<1>5. Blocks'
  BY <1>2 DEF Inv, LoadInv, Blocks, Freed
<1>6. lists = <<>> /\ lists' = <<>>
  BY <1>2 DEF Inv, WalkInv
<1>7. WalkInv'
  BY <1>2, <1>6 DEF Inv, WalkInv, Frames, Balanced
<1> QED BY <1>3, <1>4, <1>5, <1>7 DEF Inv, LoadInv

\* No walk is on, and none was.
LEMMA NoWalkInv ==
  /\ \E C : <<>> \in Seq(FrameType(C))
  /\ \E C : NoWalk \in WalkType(C)
  /\ "" \in Results
<1>1. <<>> \in Seq(FrameType({}))
  OBVIOUS
<1>2. NoWalk \in WalkType({"none", 0, None})
  BY NoWalkTyped
<1>3. "" \in Results
  BY DEF Results
<1> QED BY <1>1, <1>2, <1>3

LEMMA FinishSteps == Inv /\ Finish => Inv'
<1> SUFFICES ASSUME Inv, Finish PROVE Inv'
  OBVIOUS
<1>1. pc' = "idle" /\ cur' = None /\ UNCHANGED <<ImageList, img, heap>>
  BY DEF Finish
<1>2. LoadInv'
  BY <1>1 DEF Inv, LoadInv, Handles, Where, Blocks, Freed, Points
<1>3. lists' = <<>> /\ walk' = NoWalk /\ wr' = "" /\ pc' = "idle"
  BY DEF Finish
<1>4. Frames' /\ Balanced'
  <2>1. lists' = <<>>
    BY <1>3
  <2> QED BY <2>1 DEF Frames, Balanced
<1>5. WalkInv'
  BY <1>3, <1>4, NoWalkInv DEF WalkInv
<1> QED BY <1>2, <1>5 DEF Inv

LEMMA Initially == Init => Inv
<1> SUFFICES ASSUME Init PROVE Inv
  OBVIOUS
<1>1. /\ ImageList = {} /\ img = [ii \in Images |-> Fresh] /\ heap = {} /\ pc = "idle"
      /\ cur = None
  BY DEF Init, InitLoad
<1>2. img \in [Images -> ImageType({<<>>, "none"})]
  BY <1>1, FreshTyped
<1>3. LoadInv
  BY <1>1, <1>2 DEF LoadInv, Handles, Where, Blocks, Points
<1>4. lists = <<>> /\ walk = NoWalk /\ wr = ""
  BY DEF Init, InitSymbols, InitWalk
<1>5. Frames /\ Balanced
  <2>1. lists = <<>>
    BY <1>4
  <2> QED BY <2>1 DEF Frames, Balanced
<1>6. WalkInv
  BY <1>1, <1>4, <1>5, NoWalkInv DEF WalkInv
<1> QED BY <1>3, <1>6 DEF Inv

LEMMA Inductive == Inv /\ [Next]_vars => Inv'
<1> SUFFICES ASSUME Inv, [Next]_vars PROVE Inv'
  OBVIOUS
<1>1. CASE UNCHANGED vars
  <2>1. /\ UNCHANGED <<ImageList, img, heap, pc, cur, lists, walk, wr>>
    BY <1>1 DEF vars
  <2>2. LoadInv'
    BY <2>1 DEF Inv, LoadInv, Handles, Where, Blocks, Freed
  <2>3. WalkInv'
    <3>1. T' = T
      BY <2>1 DEF T
    <3>2. Frames'
      BY <2>1, <3>1 DEF Inv, WalkInv, Frames, EntersRight, Field, Fields, FieldsIn
    <3>3. Balanced'
      BY <2>1, <3>1 DEF Inv, WalkInv, Balanced, EnterBase, Field, Fields, FieldsIn, list, Depth
    <3> QED BY <2>1, <3>2, <3>3 DEF Inv, WalkInv
  <2> QED BY <2>2, <2>3 DEF Inv
<1>2. CASE Load \/ (LoadInfo /\ UNCHANGED locals)
  BY <1>2, LoadCalls
<1>3. CASE Request
  BY <1>3, RequestSteps
<1>4. CASE TypeListWalk
  BY <1>4, TypeListWalkInv
<1>5. CASE Dispatch \/ ScopeSearch \/ ScopeWalk \/ TableStep \/ PeelArray \/ CallFails
  BY <1>5, DispatchSteps, ScopeSearchSteps, ScopeWalkSteps, TableSteps, PlainOrStarts
<1>6. CASE Finish
  BY <1>6, FinishSteps
<1> QED BY <1>1, <1>2, <1>3, <1>4, <1>5, <1>6 DEF Next, Step

LEMMA AlwaysInv == Spec => []Inv
  BY Initially, Inductive, PTL DEF Spec

\* TypeOK (CodeView).  The entry points use an image that is listed, and
\* memory is held for images only: DIPImpLoadInfo's and the entry points'.
THEOREM TypeCorrect == Spec => []TypeOK
<1>1. Inv => TypeOK
  <2> SUFFICES ASSUME Inv PROVE TypeOK
    OBVIOUS
  <2>1. PICK C : img \in [Images -> ImageType(C)]
    BY DEF Inv, LoadInv, Handles
  <2>2. \A ii \in Images : img[ii].file \in Files \cup {None}
    BY <2>1 DEF ImageType
  <2>3. \A h \in heap : h[1] \in Images
    BY DEF Inv, LoadInv, Handles, Blocks
  <2> QED BY <2>2, <2>3 DEF Inv, LoadInv, Handles, Where, WalkInv, TypeOK
<1> QED BY <1>1, AlwaysInv, PTL

\* NothingKept (DIPImpLoadInfo, Cleanup, DIPImpUnloadInfo): whichever step a
\* load fails at, and after an unload, nothing is held for the image.
THEOREM LoadsGiveBack == Spec => []NothingKept
<1>1. Inv => NothingKept
  BY DEF Inv, LoadInv, Blocks, NothingKept, Held
<1> QED BY <1>1, AlwaysInv, PTL

\* Balanced (TypeListWalk and its clients): entering and leaving bases in any
\* order of any types, the running adjustor is that of the base walked; after a
\* client failed at the start of bases, less their offsets, and without the
\* virtual base it failed at while inside of that.
THEOREM WalkBalanced == Spec => []Balanced
<1>1. Inv => Balanced
  BY DEF Inv, WalkInv
<1> QED BY <1>1, AlwaysInv, PTL

-----------------------------------------------------------------------------
(***************************************************************************)
(* The directory.  A second invariant, over LoadInv: a listed image's      *)
(* blocks hold the directory of its file piece by piece, and from the      *)
(* last block on all of it.                                                *)
(***************************************************************************)
Directory(r) == Info[r.file].dir

\* The k-th block of a directory.
Piece(d, k) ==
  SubSeq(d, (k - 1) * BlockEntries + 1,
         IF k * BlockEntries <= Len(d) THEN k * BlockEntries ELSE Len(d))

PiecesRight(r) == \A k \in 1..Len(r.dir) : r.dir[k] = Piece(Directory(r), k)
AllCounted(r) == r.dir_count = Len(Directory(r))
AllRead(r) == Len(r.dir) = BlockFactor(r.dir_count, BlockEntries)

DirOf(ii) ==
  /\ PiecesRight(img[ii])
  /\ ~(cur = ii /\ pc = "header") => AllCounted(img[ii])
  /\ ~(cur = ii /\ pc \in {"header", "block", "read"}) => AllRead(img[ii])
DirInv == \A ii \in ImageList : DirOf(ii)

\* The number of blocks is the only one that leaves from one to BlockEntries
\* entries for the last of them.
LEMMA LastBlock ==
  ASSUME NEW n \in Nat \ {0}, NEW B \in Nat \ {0}
  PROVE  /\ BlockFactor(n, B) \in Nat \ {0}
         /\ (BlockFactor(n, B) - 1) * B < n /\ n <= BlockFactor(n, B) * B
<1> DEFINE q == (n + B - 1) \div B
<1>1. q \in Int /\ q * B <= n + B - 1 /\ n + B - 1 < (q + 1) * B
  BY SMT
<1>2. 0 * B < n
  BY SMT
<1>3. 0 + 1 \in 1..BlockFactor(n, B)
  BY <1>2, OneMoreBlock
<1>4. q >= 1
  BY <1>1, <1>3, SMT DEF BlockFactor
<1> HIDE DEF q
<1>5. (q - 1) * B = q * B - B /\ (q + 1) * B = q * B + B /\ q * B \in Int
  BY <1>1, SMT
<1>6. (q - 1) * B < n /\ n <= q * B
  BY <1>1, <1>5, SMT
<1> QED BY <1>1, <1>4, <1>6, SMT DEF BlockFactor, q

LEMMA OnlyLastBlock ==
  ASSUME NEW n \in Nat, NEW B \in Nat \ {0}, NEW m \in Nat, m * B < n, n <= (m + 1) * B
  PROVE  BlockFactor(n, B) = m + 1
<1>1. n # 0
  <2>1. m * B >= 0
    BY SMT
  <2> QED BY <2>1, SMT
<1> DEFINE q == BlockFactor(n, B)
<1>2. q \in Nat \ {0} /\ (q - 1) * B < n
  BY <1>1, LastBlock
<1>3. m + 1 \in 1..q
  BY OneMoreBlock
<1> HIDE DEF q
<1>4. ASSUME m + 1 < q PROVE FALSE
  <2>1. PICK d \in Nat : q - 1 = (m + 1) + d
    <3>1. (q - 1) - (m + 1) \in Nat
      BY <1>2, <1>4, SMT
    <3> QED BY <3>1, <1>2, SMT
  <2>2. d * B \in Nat /\ (q - 1) * B = (m + 1) * B + d * B /\ (m + 1) * B \in Nat
    BY <2>1, SMT
  <2> QED BY <2>2, <1>2, SMT
<1> QED BY <1>2, <1>3, <1>4, SMT DEF q

\* An entry of a block is an entry of the directory.
LEMMA PieceEntry ==
  ASSUME NEW S, NEW d \in Seq(S), NEW k \in Nat \ {0}, NEW e \in 1..BlockEntries,
         (k - 1) * BlockEntries + e <= Len(d)
  PROVE  /\ (k - 1) * BlockEntries + e \in 1..Len(d)
         /\ Piece(d, k)[e] = d[(k - 1) * BlockEntries + e]
<1> DEFINE from == (k - 1) * BlockEntries
           to == IF k * BlockEntries <= Len(d) THEN k * BlockEntries ELSE Len(d)
<1>1. from \in Nat /\ k * BlockEntries = from + BlockEntries /\ Len(d) \in Nat
      /\ BlockEntries \in Nat \ {0}
  BY BlockAssumption, LenProperties, SMT
<1> HIDE DEF from
<1>2. from + e <= Len(d)
  BY DEF from
<1>3. /\ from + 1 \in 1..Len(d) + 1 /\ to \in from..Len(d)
      /\ e \in 1..(to - (from + 1) + 1)
  BY <1>1, <1>2, SMT
<1> HIDE DEF to
<1>4. SubSeq(d, from + 1, to)[e] = d[(from + 1) + e - 1]
  BY <1>1, <1>3, SubSeqProperties
<1>5. (from + 1) + e - 1 = from + e /\ from + e \in 1..Len(d)
  BY <1>1, <1>2, SMT
<1>6. Piece(d, k) = SubSeq(d, from + 1, to)
  BY DEF Piece, from, to
<1> QED BY <1>4, <1>5, <1>6 DEF from

\* The blocks of a directory that was read hold its entries, each at one place,
\* and nothing else: this is what both walks visit.
LEMMA DirectoryFound ==
  ASSUME NEW ii \in Images, NEW C, img \in [Images -> ImageType(C)], img[ii].file \in Files,
         PiecesRight(img[ii]), AllCounted(img[ii]), AllRead(img[ii]),
         NEW im, NEW sst
  PROVE  HasDirEntry(ii, im, sst)
           <=> [im |-> im, sst |-> sst] \in ToSet(Directory(img[ii]))
<1> DEFINE d == Directory(img[ii])
           n == Len(d)
           B == BlockEntries
           full == BlockFactor(n, B) - 1
           S == [im : Nat, sst : Sections]
<1>1. d \in Seq(S) /\ d # <<>>
  BY FilesAssumption DEF Directory
<1>2. n \in Nat \ {0} /\ B \in Nat \ {0}
  BY <1>1, EmptySeq, LenProperties, BlockAssumption
<1>3. full \in Nat /\ full * B < n /\ n <= (full + 1) * B
  <2>1. BlockFactor(n, B) \in Nat \ {0} /\ (BlockFactor(n, B) - 1) * B < n
        /\ n <= BlockFactor(n, B) * B
    BY <1>2, LastBlock
  <2>2. (full + 1) = BlockFactor(n, B) /\ full \in Nat
    BY <2>1, SMT
  <2> QED BY <2>1, <2>2
<1>4. img[ii].dir_count = n /\ Len(img[ii].dir) = full + 1
  <2>1. BlockFactor(n, B) \in Nat
    BY <1>2, LastBlock
  <2> QED BY <2>1 DEF AllCounted, AllRead
<1>5. Scanned(ii) = ((1..full) \X (1..B)) \cup ({full + 1} \X (1..(n - full * B)))
  BY <1>4 DEF Scanned
<1>6. \A k \in 1..(full + 1) : img[ii].dir[k] = Piece(d, k)
  BY <1>4 DEF PiecesRight
<1>7. ToSet(d) = {d[j] : j \in 1..n}
  BY <1>1, LenProperties DEF ToSet
<1> HIDE DEF full, n, d
<1>8. n = Len(d) /\ d = Directory(img[ii])
  BY DEF n, d
<1>9. ASSUME NEW k \in Nat \ {0}, NEW e \in Nat \ {0}, <<k, e>> \in Scanned(ii)
      PROVE  /\ k \in 1..(full + 1) /\ e \in 1..B /\ (k - 1) * B + e <= n
  <2>1. CASE k \in 1..full /\ e \in 1..B
    <3>1. PICK c \in Nat : full = k + c
      <4>1. full - k \in Nat
        BY <2>1, <1>3, SMT
      <4> QED BY <4>1, <1>3, SMT
    <3>2. c * B \in Nat /\ full * B = k * B + c * B /\ k * B = (k - 1) * B + B
          /\ (k - 1) * B \in Nat
      BY <3>1, <1>2, SMT
    <3> QED BY <2>1, <3>2, <1>2, <1>3, SMT
  <2>2. CASE k = full + 1 /\ e \in 1..(n - full * B)
    <3>1. full * B \in Nat /\ (full + 1) * B = full * B + B /\ k - 1 = full
      BY <1>2, <1>3, <2>2, SMT
    <3> QED BY <2>2, <3>1, <1>2, <1>3, SMT
  <2>3. \/ k \in 1..full /\ e \in 1..B
        \/ k = full + 1 /\ e \in 1..(n - full * B)
    BY <1>5, <1>9
  <2> QED BY <2>1, <2>2, <2>3
<1>10. ASSUME HasDirEntry(ii, im, sst)
       PROVE  [im |-> im, sst |-> sst] \in ToSet(d)
  <2>1. PICK p \in Scanned(ii) : Entry(ii, p) = [im |-> im, sst |-> sst]
    BY <1>10 DEF HasDirEntry
  <2>2. PICK k \in Nat \ {0}, e \in Nat \ {0} : p = <<k, e>>
    <3>1. full * B \in Nat
      BY <1>2, <1>3, SMT
    <3>2. \A x \in Scanned(ii) : /\ x = <<x[1], x[2]>>
                                 /\ x[1] \in (1..full) \cup {full + 1}
                                 /\ x[2] \in (1..B) \cup (1..(n - full * B))
      BY <1>5
    <3>3. (1..full) \cup {full + 1} \subseteq Nat \ {0}
          /\ (1..B) \cup (1..(n - full * B)) \subseteq Nat \ {0}
      BY <1>2, <1>3, <3>1, SMT
    <3> QED BY <3>2, <3>3
  <2>3. k \in 1..(full + 1) /\ e \in 1..B /\ (k - 1) * B + e <= n
    BY <2>2, <1>9
  <2>4. (k - 1) * B + e \in 1..n /\ Piece(d, k)[e] = d[(k - 1) * B + e]
    BY <1>1, <1>8, <2>3, PieceEntry
  <2>5. Entry(ii, p) = Piece(d, k)[e]
    BY <2>2, <2>3, <1>6 DEF Entry
  <2> QED BY <2>1, <2>4, <2>5, <1>7
<1>11. ASSUME [im |-> im, sst |-> sst] \in ToSet(d)
       PROVE  HasDirEntry(ii, im, sst)
  <2>1. PICK j \in 1..n : d[j] = [im |-> im, sst |-> sst]
    BY <1>7, <1>11
  <2> DEFINE m == (j - 1) \div B
             e == (j - 1) - m * B + 1
  <2>2. m \in Int /\ m * B <= j - 1 /\ j - 1 < (m + 1) * B /\ m >= 0
    BY <1>2, SMT
  <2>3. m * B \in Int /\ (m + 1) * B = m * B + B
    BY <2>2, <1>2, SMT
  <2> HIDE DEF m
  <2>4. e \in 1..B /\ m * B + e = j /\ m \in Nat /\ m * B < n /\ j \in 1..n
    BY <2>2, <2>3, <1>2, SMT
  <2>5. m + 1 \in 1..(full + 1)
    <3>1. m + 1 \in 1..BlockFactor(n, B)
      BY <2>4, <1>2, OneMoreBlock
    <3>2. BlockFactor(n, B) = full + 1
      <4>1. BlockFactor(n, B) \in Nat
        BY <1>2, LastBlock
      <4> QED BY <4>1 DEF full
    <3> QED BY <3>1, <3>2
  <2>6. <<m + 1, e>> \in Scanned(ii)
    <3>1. CASE m + 1 \in 1..full
      BY <3>1, <2>4, <1>5
    <3>2. CASE m = full
      <4>1. e \in 1..(n - full * B)
        BY <3>2, <2>3, <2>4, <1>2, SMT
      <4> HIDE DEF e
      <4> QED BY <4>1, <3>2, <1>5
    <3> QED BY <3>1, <3>2, <2>4, <2>5, <1>3, SMT
  <2>7. (m + 1) - 1 = m /\ (m + 1) \in Nat \ {0}
    BY <2>4, SMT
  <2> HIDE DEF e
  <2>8. j <= Len(d) /\ ((m + 1) - 1) * B + e = j
    BY <2>4, <2>7, <1>8, <1>2, SMT
  <2>9. Piece(d, m + 1)[e] = d[((m + 1) - 1) * B + e]
    BY <2>4, <2>7, <2>8, <1>1, PieceEntry
  <2>10. Entry(ii, <<m + 1, e>>) = d[j]
    BY <2>5, <2>8, <2>9, <1>6 DEF Entry
  <2> QED BY <2>1, <2>6, <2>10 DEF HasDirEntry
<1> QED BY <1>8, <1>10, <1>11

\* The step changes nothing but one image, the current one or one that is
\* listed before or after it.
LEMMA OneDirectory ==
  ASSUME Inv, DirInv, NEW ii \in Images,
         \A jj \in Images : jj # ii => img'[jj] = img[jj],
         ImageList' \subseteq ImageList \cup {ii},
         cur \in {ii, None}, cur' \in {ii, None},
         ii \in ImageList' => DirOf(ii)'
  PROVE  DirInv'
<1>1. ASSUME NEW jj \in ImageList', jj # ii PROVE DirOf(jj)'
  <2>1. jj \in ImageList /\ jj \in Images /\ DirOf(jj) /\ img'[jj] = img[jj]
    BY <1>1 DEF Inv, LoadInv, Handles, DirInv
  <2>2. cur # jj /\ cur' # jj
    BY <1>1, <2>1, FilesAssumption
  <2>3. PiecesRight(img[jj]) /\ AllCounted(img[jj]) /\ AllRead(img[jj])
    BY <2>1, <2>2 DEF DirOf
  <2> QED BY <2>1, <2>2, <2>3 DEF DirOf
<1> QED BY <1>1 DEF DirInv

\* A step behind the directory.
LEMMA DirectoryKept ==
  ASSUME Inv, DirInv, UNCHANGED ImageList,
         NEW ii \in ImageList,
         \A jj \in Images : jj # ii => img'[jj] = img[jj],
         img'[ii].file = img[ii].file, img'[ii].dir = img[ii].dir,
         img'[ii].dir_count = img[ii].dir_count,
         pc \notin {"header", "block", "read"},
         cur \in {ii, None}, cur' \in {ii, None}
  PROVE  DirInv'
<1>1. ii \in Images /\ PiecesRight(img[ii]) /\ AllCounted(img[ii]) /\ AllRead(img[ii])
  BY DEF Inv, LoadInv, Handles, DirInv, DirOf
<1>2. PiecesRight(img'[ii]) /\ AllCounted(img'[ii]) /\ AllRead(img'[ii])
  BY <1>1 DEF PiecesRight, AllCounted, AllRead, Directory
<1>3. DirOf(ii)'
  BY <1>2 DEF DirOf
<1> QED BY <1>1, <1>3, OneDirectory

LEMMA ReadDirectory == Inv /\ DirInv /\ ReadBlock => DirInv'
<1> SUFFICES ASSUME Inv, DirInv, ReadBlock PROVE DirInv'
  OBVIOUS
<1> DEFINE d == Contents.dir
           n == Len(d)
           m == Len(img[cur].dir)
           B == BlockEntries
           from == m * B
           left == n - from
           num == IF left < B THEN left ELSE B
           b == SubSeq(d, from + 1, from + num)
           r == [img[cur] EXCEPT !.dir = Append(@, b)]
<1>1. PICK C : img \in [Images -> ImageType(C)]
  BY DEF Inv, LoadInv, Handles
<1>2. /\ pc = "read" /\ cur \in ImageList /\ cur \in Images /\ img[cur].file \in Files
      /\ UNCHANGED <<ImageList, cur>> /\ m * B < img[cur].dir_count
  BY <1>1 DEF Inv, LoadInv, Handles, Where, Blocks, ReadBlock
<1>3. /\ PiecesRight(img[cur]) /\ AllCounted(img[cur]) /\ d = Directory(img[cur])
      /\ img[cur].dir_count = n
  BY <1>2 DEF DirInv, DirOf, AllCounted, Directory, Contents
<1>4. img' = [img EXCEPT ![cur] = r] /\ pc' = IF left = num THEN "segmap" ELSE "block"
  BY <1>1, <1>2, <1>3 DEF ReadBlock
<1>5. /\ n \in Nat /\ m \in Nat /\ B \in Nat \ {0} /\ img[cur].dir \in Seq(C) /\ m * B \in Nat
      /\ img[cur] \in ImageType(C)
  <2>1. d \in Seq([im : Nat, sst : Sections])
    BY <1>2, FilesAssumption DEF Contents
  <2>2. n \in Nat
    BY <2>1, LenProperties
  <2>3. img[cur] \in ImageType(C) /\ img[cur].dir \in Seq(C)
    BY <1>1, <1>2 DEF ImageType
  <2>4. m \in Nat
    BY <2>3, LenProperties
  <2>5. m * B \in Nat
    BY <2>4, BlockAssumption, SMT
  <2> QED BY <2>2, <2>3, <2>4, <2>5, BlockAssumption
<1>6. b = Piece(d, m + 1)
  <2>1. (m + 1) - 1 = m /\ (m + 1) * B = from + B
    BY <1>5, SMT
  <2>2. from + num = IF from + B <= n THEN from + B ELSE n
    <3> HIDE DEF from
    <3>1. from \in Nat
      BY <1>5 DEF from
    <3> QED BY <3>1, <1>5, SMT
  <2>3. from + num = IF (m + 1) * B <= n THEN (m + 1) * B ELSE n
    BY <2>1, <2>2
  <2> QED BY <2>1, <2>3 DEF Piece
<1>7. pc' # "block" => n <= (m + 1) * B
  <2>1. (m + 1) * B = from + B /\ from \in Nat
    BY <1>5, SMT
  <2> HIDE DEF from
  <2>2. left = num => n <= from + B
    BY <2>1, <1>5, SMT
  <2>3. pc' # "block" => left = num
    BY <1>4
  <2> HIDE DEF left, num
  <2> QED BY <2>1, <2>2, <2>3
<1> HIDE DEF from, left, num, b
<1>8. /\ r.dir = Append(img[cur].dir, b) /\ r.file = img[cur].file /\ r.dir_count = n
  BY <1>3, <1>5 DEF ImageType
<1>9. /\ Len(r.dir) = m + 1 /\ r.dir[m + 1] = b
      /\ \A k \in 1..m : r.dir[k] = img[cur].dir[k]
  <2>1. img[cur].dir \in Seq(C \cup {b}) /\ b \in C \cup {b}
    BY <1>5
  <2> QED BY <2>1, <1>8, AppendProperties
<1>10. img'[cur] = r /\ \A jj \in Images : jj # cur => img'[jj] = img[jj]
  BY <1>1, <1>2, <1>4
<1> HIDE DEF r
<1>11. Directory(r) = d
  BY <1>3, <1>8 DEF Directory
<1> HIDE DEF d, n, m
<1>12. PiecesRight(r)
  <2>1. ASSUME NEW k \in 1..(m + 1) PROVE r.dir[k] = Piece(d, k)
    <3>1. CASE k = m + 1
      BY <3>1, <1>6, <1>9
    <3>2. CASE k \in 1..m
      BY <3>2, <1>3, <1>9 DEF PiecesRight, m
    <3> QED BY <3>1, <3>2, <1>5
  <2> QED BY <2>1, <1>9, <1>11 DEF PiecesRight
<1>13. AllCounted(r)
  BY <1>8, <1>11 DEF AllCounted, n
<1>14. pc' # "block" => AllRead(r)
  <2>1. m * B < n
    BY <1>2, <1>3
  <2> QED BY <2>1, <1>5, <1>7, <1>8, <1>9, OnlyLastBlock DEF AllRead
<1>15. pc' \in {"segmap", "block"}
  BY <1>4
<1>16. DirOf(cur)'
  BY <1>2, <1>10, <1>12, <1>13, <1>14, <1>15 DEF DirOf
<1> QED BY <1>2, <1>10, <1>16, OneDirectory

LEMMA LoadDirectory ==
  Inv /\ DirInv /\ (Load \/ (LoadInfo /\ UNCHANGED locals)) => DirInv'
<1> SUFFICES ASSUME Inv, DirInv, Load \/ LoadInfo PROVE DirInv'
  OBVIOUS
<1>1. PICK C : img \in [Images -> ImageType(C)]
  BY DEF Inv, LoadInv, Handles
<1>2. cur # None => cur \in Images /\ pc # "idle"
  BY DEF Inv, LoadInv, Handles, Where
<1>3. ASSUME NEW ii \in Images, NEW f \in Files, FindCV(ii, f) PROVE DirInv'
  <2>1. ii \notin ImageList /\ UNCHANGED ImageList /\ cur = None /\ cur' = ii
        /\ \A jj \in Images : jj # ii => img'[jj] = img[jj]
    BY <1>1, <1>3 DEF FindCV, Inv, LoadInv, Where
  <2> QED BY <2>1, OneDirectory
<1>4. ASSUME NEW ii \in Images, NEW where, MapInfo(ii, where) PROVE DirInv'
  <2>1. /\ ii \in ImageList /\ pc = "idle" /\ cur = None /\ cur' = None /\ UNCHANGED ImageList
        /\ \A jj \in Images : jj # ii => img'[jj] = img[jj]
        /\ img'[ii].file = img[ii].file /\ img'[ii].dir = img[ii].dir
        /\ img'[ii].dir_count = img[ii].dir_count
    BY <1>1, <1>4 DEF MapInfo, ImageType, Inv, LoadInv, Where
  <2> QED BY <2>1, DirectoryKept
<1>5. ASSUME NEW ii \in Images, UnloadInfo(ii) PROVE DirInv'
  <2>1. /\ cur = None /\ cur' = None /\ ImageList' = ImageList \ {ii}
        /\ \A jj \in Images : jj # ii => img'[jj] = img[jj]
    BY <1>1, <1>5 DEF UnloadInfo, Cleanup, Inv, LoadInv, Where
  <2> QED BY <2>1, OneDirectory
<1>6. CASE LoadFails
  <2>1. cur \in Images /\ cur' = None /\ pc \in LoadSteps
        /\ \A jj \in Images : jj # cur => img'[jj] = img[jj]
    BY <1>1, <1>2, <1>6 DEF LoadFails, LoadSteps, Inv, LoadInv, Where
  <2>2. cur \notin ImageList' /\ ImageList' \subseteq ImageList
    BY <1>6 DEF LoadFails, Cleanup, Inv, LoadInv, Where
  <2> QED BY <2>1, <2>2, OneDirectory
<1>7. CASE ListImage
  <2>1. /\ pc = "vm" /\ cur \in Images /\ pc' = "header" /\ UNCHANGED <<img, cur>>
        /\ ImageList' = ImageList \cup {cur} /\ img[cur].dir = <<>>
    BY <1>2, <1>7 DEF ListImage, Inv, LoadInv, Where, Blocks
  <2>2. PiecesRight(img'[cur])
    BY <2>1 DEF PiecesRight
  <2>3. DirOf(cur)'
    BY <2>1, <2>2 DEF DirOf
  <2> QED BY <2>1, <2>3, OneDirectory
<1>8. CASE LoadHeader
  <2>1. /\ pc = "header" /\ cur \in Images /\ pc' = "block" /\ UNCHANGED <<ImageList, cur>>
        /\ img' = [img EXCEPT ![cur].dir_count = Len(Contents.dir)] /\ img[cur].dir = <<>>
    BY <1>2, <1>8 DEF LoadHeader, Inv, LoadInv, Where, Blocks
  <2>2. /\ img'[cur].dir = <<>> /\ img'[cur].dir_count = Len(Directory(img'[cur]))
        /\ \A jj \in Images : jj # cur => img'[jj] = img[jj]
    BY <1>1, <2>1 DEF ImageType, Contents, Directory
  <2>3. PiecesRight(img'[cur]) /\ AllCounted(img'[cur])
    BY <2>2 DEF PiecesRight, AllCounted
  <2>4. DirOf(cur)'
    BY <2>1, <2>3 DEF DirOf
  <2> QED BY <2>1, <2>2, <2>4, OneDirectory
<1>9. CASE AllocBlock
  <2>1. /\ pc = "block" /\ cur \in ImageList /\ cur \in Images /\ pc' = "read"
        /\ UNCHANGED <<ImageList, img, cur>>
    BY <1>2, <1>9 DEF AllocBlock, Inv, LoadInv, Where
  <2>2. DirOf(cur)'
    BY <2>1 DEF DirInv, DirOf
  <2> QED BY <2>1, <2>2, OneDirectory
<1>10. CASE LoadMapping \/ LoadTypes \/ SetMADType
  <2>1. /\ pc \notin {"header", "block", "read"} /\ cur \in ImageList /\ cur \in Images
        /\ UNCHANGED ImageList /\ cur' \in {cur, None}
    BY <1>2, <1>10 DEF LoadMapping, LoadTypes, SetMADType, Inv, LoadInv, Handles, Where
  <2>2. /\ img'[cur].file = img[cur].file /\ img'[cur].dir = img[cur].dir
        /\ img'[cur].dir_count = img[cur].dir_count
        /\ \A jj \in Images : jj # cur => img'[jj] = img[jj]
    BY <1>1, <1>10, <2>1 DEF LoadMapping, LoadTypes, SetMADType, ImageType
  <2> QED BY <2>1, <2>2, DirectoryKept
<1>11. CASE ReadBlock
  BY <1>11, ReadDirectory
<1>12. CASE Load
  BY <1>3, <1>4, <1>5, <1>12 DEF Load
<1> QED BY <1>6, <1>7, <1>8, <1>9, <1>10, <1>11, <1>12 DEF LoadInfo

\* The entry points only read the directory.
LEMMA DirectoryUsed ==
  ASSUME Inv, DirInv, UNCHANGED <<ImageList, img>>,
         pc \notin LoadSteps, pc' \notin LoadSteps
  PROVE  DirInv'
BY DEF DirInv, DirOf, LoadSteps

LEMMA WalkLeavesFiles ==
  ASSUME Inv, TypeListWalk
  PROVE  UNCHANGED <<ImageList, img>> /\ pc \notin LoadSteps /\ pc' \notin LoadSteps
<1>1. pc = "list" /\ UNCHANGED files
  BY DEF TypeListWalk, ListDone, InheritEnd, NextList, SkipVirtual, SkipBase, InheritStart,
         InheritFails, EnterList, Symbol, WalkFails, Walking
<1>2. walk.ret \in {"idle", "done", "outer", "outerblock"}
  BY DEF Inv, WalkInv, WalkType
<1>3. pc' = pc \/ \E result : Return(result)
  BY DEF TypeListWalk, ListDone, InheritEnd, NextList, SkipVirtual, SkipBase, InheritStart,
         InheritFails, EnterList, Symbol, WalkFails, WalkSymbol, SearchSymbol, ThunkSymbol, VTabSymbol, Ignored
<1>4. pc' \in {"list", "idle", "done", "outer", "outerblock"}
  BY <1>1, <1>2, <1>3 DEF Return
<1> QED BY <1>1, <1>4 DEF files, LoadSteps

LEMMA DirectoryStays == Inv /\ DirInv /\ [Next]_vars => DirInv'
<1> SUFFICES ASSUME Inv, DirInv, [Next]_vars PROVE DirInv'
  OBVIOUS
<1>1. CASE UNCHANGED vars
  BY <1>1 DEF vars, DirInv, DirOf
<1>2. CASE Load \/ (LoadInfo /\ UNCHANGED locals)
  BY <1>2, LoadDirectory
<1>3. CASE Request
  BY <1>3, DirectoryUsed DEF Request, Enter, Ready, LoadSteps
<1>4. CASE TypeListWalk
  BY <1>4, DirectoryUsed, WalkLeavesFiles
<1>5. CASE Dispatch \/ ScopeSearch \/ ScopeWalk \/ TableStep \/ PeelArray \/ CallFails
  <2>1. Plain \/ Starts
    BY <1>5, DispatchSteps, ScopeSearchSteps, ScopeWalkSteps, TableSteps
  <2>2. UNCHANGED <<ImageList, img>> /\ pc \in SymbolPoints /\ pc' \in SymbolPoints \cup {"list"}
    <3>1. CASE Plain
      BY <3>1 DEF Plain, files
    <3>2. CASE Starts
      <4>1. UNCHANGED files /\ pc \in SymbolPoints
        BY <3>2 DEF Starts
      <4>2. pc' \in {"done", "list"}
        BY <3>2 DEF Starts, StartWalk
      <4> QED BY <4>1, <4>2 DEF files, SymbolPoints
    <3> QED BY <2>1, <3>1, <3>2
  <2> QED BY <2>2, DirectoryUsed DEF SymbolPoints, LoadSteps
<1>6. CASE Finish
  BY <1>6, DirectoryUsed DEF Finish, LoadSteps
<1> QED BY <1>1, <1>2, <1>3, <1>4, <1>5, <1>6 DEF Next, Step

\* DirectoryWhole (FindDirEntry, WalkDirList): whatever the number of entries
\* and the size of a block, what is searched are the subsections of the file, up
\* to the last one and no further.
THEOREM DirectoryIsWhole == Spec => []DirectoryWhole
<1>1. Init => DirInv
  BY DEF Init, InitLoad, DirInv
<1>2. Inv /\ DirInv => DirectoryWhole
  <2> SUFFICES ASSUME Inv, DirInv, NEW ii \in Images, Loaded(ii), NEW im, NEW sst
               PROVE  HasDirEntry(ii, im, sst)
                        <=> [im |-> im, sst |-> sst] \in ToSet(Info[img[ii].file].dir)
    BY DEF DirectoryWhole
  <2>1. PICK C : img \in [Images -> ImageType(C)]
    BY DEF Inv, LoadInv, Handles
  <2>2. /\ img[ii].file \in Files
        /\ PiecesRight(img[ii]) /\ AllCounted(img[ii]) /\ AllRead(img[ii])
    BY DEF Inv, LoadInv, Handles, DirInv, DirOf, Loaded, LoadSteps
  <2> QED BY <2>1, <2>2, DirectoryFound DEF Directory
<1> QED BY <1>1, <1>2, DirectoryStays, AlwaysInv, PTL DEF Spec

-----------------------------------------------------------------------------
(***************************************************************************)
(* A module's symbols s as they are written.  Level says that of the       *)
(* scopes after b none is still open at record c.                          *)
(***************************************************************************)
IsModule(s) == /\ Len(s) \in Nat /\ DOMAIN s = 1..Len(s)
               /\ ScopesNest(s) /\ ScopesLinked(s) /\ BlocksLast(s)
Level(s, b, c) == \A k \in Opens(s) : b < k /\ k < c => s[k].end < c
\* Record b that opens a scope has the address a; Declared without the state.
Has(s, b, a) == s[b].off <= a /\ a < s[b].off + s[b].len
Decl(s, b) ==
  {k \in DOMAIN s :
     /\ s[k].code \notin NotShown
     /\ b = 0 \/ (b < k /\ k < s[b].end /\ k \notin Opens(s))
     /\ \A j \in Opens(s) : j < k /\ k < s[j].end =>
          b # 0 /\ (j = b \/ (j < b /\ b < s[j].end))}

\* A record and its end are numbers, and the end comes after it.
LEMMA OpenerEnds ==
  ASSUME NEW s, IsModule(s), NEW k \in Opens(s)
  PROVE  /\ k \in Nat \ {0} /\ k \in DOMAIN s /\ s[k].end \in Nat /\ k < s[k].end
         /\ s[k].end <= Len(s) /\ s[s[k].end].code = "END" /\ s[k].end \in DOMAIN s
         /\ s[k].off \in Nat /\ s[k].len \in Nat
<1>1. k \in 1..Len(s) /\ Len(s) \in Nat
  BY DEF IsModule, Opens
<1>2. s[k].end \in (k + 1)..Len(s)
  BY DEF IsModule, ScopesNest
<1> QED BY <1>1, <1>2 DEF IsModule, ScopesNest

\* No END closes two scopes.
LEMMA OneEnd ==
  ASSUME NEW s, IsModule(s), NEW j \in Opens(s), NEW k \in Opens(s), s[j].end = s[k].end
  PROVE  j = k
<1>1. ASSUME NEW x \in Opens(s), NEW y \in Opens(s), x < y, s[x].end = s[y].end PROVE FALSE
  <2>1. y < s[y].end /\ s[y].end \in Nat
    BY OpenerEnds
  <2>2. s[y].end < s[x].end
    BY <1>1, <2>1 DEF IsModule, ScopesNest, Nested
  <2> QED BY <1>1, <2>1, <2>2
<1>2. j \in Nat /\ k \in Nat
  BY OpenerEnds
<1> QED BY <1>1, <1>2

\* The END at the level of a scope is its own.
LEMMA LevelEnd ==
  ASSUME NEW s, IsModule(s), NEW b \in Opens(s), NEW c \in (b + 1)..s[b].end,
         Level(s, b, c), s[c].code = "END"
  PROVE  c = s[b].end
<1>1. b \in Nat /\ s[b].end \in Nat /\ c \in Nat /\ c \in DOMAIN s
  BY OpenerEnds DEF IsModule
<1>2. PICK k \in Opens(s) : s[k].end = c
  BY <1>1 DEF IsModule, ScopesNest
<1>3. k \in Nat /\ k < c
  BY <1>2, OpenerEnds
<1>4. ~(b < k)
  BY <1>1, <1>2, <1>3 DEF Level
<1>5. k < b => s[b].end < c
  BY <1>1, <1>2 DEF IsModule, ScopesNest, Nested
<1> QED BY <1>1, <1>2, <1>3, <1>4, <1>5

\* What is neither a scope nor its end comes before the scopes in a scope.
LEMMA NothingBehind ==
  ASSUME NEW s, IsModule(s), NEW b \in Opens(s), NEW c \in (b + 2)..s[b].end,
         Level(s, b, c), s[c - 1].code = "END", c \notin Opens(s)
  PROVE  c = s[b].end
<1>1. b \in Nat /\ s[b].end \in Nat /\ c \in Nat /\ c \in DOMAIN s /\ c - 1 \in DOMAIN s
  BY OpenerEnds DEF IsModule
<1>2. PICK k \in Opens(s) : s[k].end = c - 1
  BY <1>1 DEF IsModule, ScopesNest
<1>3. k \in Nat /\ k < c - 1
  BY <1>2, OpenerEnds
<1>4. k # b /\ ~(k < b)
  <2>1. k < b => s[b].end < c - 1
    BY <1>1, <1>2 DEF IsModule, ScopesNest, Nested
  <2> QED BY <1>1, <1>2, <2>1
<1>5. k \notin Outermost(s)
  <2>1. b \in Around(s, k)
    BY <1>1, <1>3, <1>4 DEF Around
  <2> QED BY <2>1 DEF Outermost
<1>6. s[c].code \in Openers \cup {"END"}
  <2>1. s[k].end + 1 = c
    BY <1>1, <1>2
  <2> QED BY <1>5, <2>1 DEF IsModule, BlocksLast
<1>7. s[c].code = "END"
  BY <1>1, <1>6 DEF Opens
<1> QED BY <1>1, <1>7, LevelEnd

\* Scopes that have an address are in each other.
LEMMA HasNest ==
  ASSUME NEW s, IsModule(s), NEW a \in Int, NEW j \in Opens(s), NEW k \in Opens(s), j < k
  PROVE  /\ Has(s, j, a) /\ Has(s, k, a) => k < s[j].end
         /\ Has(s, k, a) /\ k < s[j].end => Has(s, j, a)
<1>1. /\ s[j].off \in Nat /\ s[j].len \in Nat /\ s[k].off \in Nat /\ s[k].len \in Nat
      /\ k \in Nat /\ s[j].end \in Nat
  BY OpenerEnds
<1>2. IF k < s[j].end THEN Nested(s[j], s[k]) ELSE Apart(s[j], s[k])
  BY DEF IsModule, ScopesNest
<1> QED BY <1>1, <1>2 DEF Has, Nested, Apart

\* One record of a scope, or of the file: a scope in it is passed over.
LEMMA DeclStep ==
  ASSUME NEW s, IsModule(s), NEW b \in Opens(s) \cup {0}, NEW c \in DOMAIN s, b < c,
         Level(s, b, c), b # 0 => c <= s[b].end /\ s[c].code # "END",
         NEW next, next = (IF c \in Opens(s) THEN s[c].end ELSE c) + 1
  PROVE  /\ next \in Nat /\ c < next /\ Level(s, b, next) /\ (b # 0 => next <= s[b].end)
         /\ {k \in Decl(s, b) : k < next} =
              {k \in Decl(s, b) : k < c}
                \cup IF s[c].code \notin NotShown /\ (b = 0 \/ c \notin Opens(s)) THEN {c} ELSE {}
<1>1. /\ b \in Nat /\ c \in Nat /\ next \in Nat /\ c < next
      /\ \A k \in Opens(s) : k \in Nat \ {0} /\ s[k].end \in Nat /\ k < s[k].end /\ s[s[k].end].code = "END"
      /\ \A k \in DOMAIN s : k \in Nat
  <2>1. \A k \in DOMAIN s : k \in Nat
    BY DEF IsModule
  <2> QED BY <2>1, OpenerEnds
<1>2. \A j, k \in Opens(s) : j < k /\ k < s[j].end => s[k].end < s[j].end
  BY DEF IsModule, ScopesNest, Nested
<1>3. Level(s, b, next)
  <2> SUFFICES ASSUME NEW k \in Opens(s), b < k, k < next PROVE s[k].end < next
    BY DEF Level
  <2>1. CASE k < c
    BY <1>1, <2>1 DEF Level
  <2>2. CASE k = c
    BY <1>1, <2>2
  <2>3. CASE c < k
    <3>1. c \in Opens(s) /\ k < s[c].end + 1
      BY <1>1, <2>3
    <3>2. k # s[c].end
      BY <1>1, <3>1 DEF Opens, Openers, Procs
    <3> QED BY <1>1, <1>2, <2>3, <3>1, <3>2
  <2> QED BY <1>1, <2>1, <2>2, <2>3
<1>4. b # 0 => next <= s[b].end
  <2> SUFFICES ASSUME b # 0 PROVE next <= s[b].end
    OBVIOUS
  <2>1. c < s[b].end
    BY <1>1
  <2>2. c \in Opens(s) => s[c].end < s[b].end
    BY <1>2, <2>1
  <2> QED BY <1>1, <2>1, <2>2
<1>5. ASSUME NEW k \in Decl(s, b), k < next, ~(k < c)
      PROVE  k = c /\ s[c].code \notin NotShown /\ (b = 0 \/ c \notin Opens(s))
  <2>1. k \in DOMAIN s /\ k \in Nat
    BY <1>1 DEF Decl
  <2>2. k = c
    <3> SUFFICES ASSUME c < k PROVE FALSE
      BY <1>1, <1>5, <2>1
    <3>1. c \in Opens(s) /\ k < s[c].end + 1
      BY <1>1, <1>5, <2>1
    <3>2. s[k].code \notin NotShown
      BY DEF Decl
    <3>3. k # s[c].end
      BY <1>1, <3>1, <3>2 DEF NotShown
    <3>4. c < k /\ k < s[c].end
      BY <1>1, <2>1, <3>1, <3>3
    <3>5. b # 0 /\ (c = b \/ (c < b /\ b < s[c].end))
      BY <3>1, <3>4 DEF Decl
    <3> QED BY <1>1, <3>5
  <2> QED BY <2>2 DEF Decl
<1>6. ASSUME s[c].code \notin NotShown, b = 0 \/ c \notin Opens(s)
      PROVE  c \in Decl(s, b) /\ c < next
  <2>1. b = 0 \/ (b < c /\ c < s[b].end /\ c \notin Opens(s))
    <3>1. ASSUME b # 0 PROVE c # s[b].end
      BY <1>1, <3>1
    <3> QED BY <1>1, <1>6, <3>1
  <2>2. ASSUME NEW j \in Opens(s), j < c, c < s[j].end
        PROVE  b # 0 /\ (j = b \/ (j < b /\ b < s[j].end))
    <3>1. ~(b < j)
      BY <1>1, <2>2 DEF Level
    <3> QED BY <1>1, <2>2, <3>1
  <2> QED BY <1>1, <1>6, <2>1, <2>2 DEF Decl
<1> DEFINE Shows == s[c].code \notin NotShown /\ (b = 0 \/ c \notin Opens(s))
<1>7. ASSUME NEW k \in Decl(s, b), k < c PROVE k < next
  <2>1. k \in Nat
    BY <1>1 DEF Decl
  <2> QED BY <1>1, <1>7, <2>1
<1>8. {k \in Decl(s, b) : k < next} = {k \in Decl(s, b) : k < c} \cup IF Shows THEN {c} ELSE {}
  <2> HIDE DEF Shows
  <2>1. \A k \in Decl(s, b) : k < next => k < c \/ (k = c /\ Shows)
    BY <1>5 DEF Shows
  <2>2. Shows => c \in Decl(s, b) /\ c < next
    BY <1>6 DEF Shows
  <2> QED BY <1>7, <2>1, <2>2
<1> QED BY <1>1, <1>3, <1>4, <1>8

-----------------------------------------------------------------------------
(***************************************************************************)
(* The scopes C around an address: those of one module that have it, or    *)
(* none.  What a walk has passed when it is at record c of scope b, 0      *)
(* being the file's.                                                       *)
(***************************************************************************)
Chained(s, C) ==
  /\ C \subseteq Opens(s)
  /\ \A j, k \in C : j < k => k < s[j].end
  /\ \A j \in Opens(s), k \in C : j < k /\ k < s[j].end => j \in C
SoonerIn(s, C, j, k) ==
  \E b, t \in C \cup {0} : j \in Decl(s, b) /\ k \in Decl(s, t) /\ (b > t \/ (b = t /\ j < k))
Passed(s, C, b, c) ==
  {k \in DOMAIN s : (\E t \in C : t > b /\ k \in Decl(s, t)) \/ (k \in Decl(s, b) /\ k < c)}

\* The greatest of some numbers.
LEMMA Greatest ==
  ASSUME NEW n \in Nat, NEW S \in SUBSET (0..n), S # {}
  PROVE  Max(S) \in S /\ \A k \in S : k <= Max(S)
<1> DEFINE D == {n - k : k \in S}
<1>1. D \in SUBSET Nat /\ D # {}
  <2>1. \A k \in S : n - k \in Nat
    OBVIOUS
  <2> QED BY <2>1
<1>2. PICK d \in D : \A e \in D : d <= e
  <2> HIDE DEF D
  <2> QED BY <1>1, LeastNumber
<1>3. PICK m \in S : d = n - m
  BY <1>2
<1>4. ASSUME NEW k \in S PROVE m >= k
  <2>1. n - k \in D
    OBVIOUS
  <2>2. n - m <= n - k
    BY <1>2, <1>3, <2>1
  <2> QED BY <2>2
<1>5. Max(S) \in S /\ \A k \in S : Max(S) >= k
  BY <1>4 DEF Max
<1> QED BY <1>5

\* The smallest of some numbers.
LEMMA Smallest ==
  ASSUME NEW S \in SUBSET Nat, S # {}
  PROVE  Min(S) \in S /\ \A k \in S : Min(S) <= k
<1>1. \E m \in S : \A k \in S : m <= k
  BY LeastNumber
<1> QED BY <1>1 DEF Min

\* A module without symbols is such a module.
LEMMA NoSymbols == IsModule(<<>>)
<1>1. DOMAIN <<>> = {} /\ Len(<<>>) = 0
  OBVIOUS
<1>2. 1..0 = {} /\ 0 \in Nat
  OBVIOUS
<1>3. Opens(<<>>) = {}
  BY <1>1 DEF Opens
<1>4. Outermost(<<>>) = {}
  BY <1>3 DEF Outermost
<1> QED BY <1>1, <1>2, <1>3, <1>4 DEF IsModule, ScopesNest, ScopesLinked, BlocksLast

\* A scope is outermost or in one that is.
LEMMA InOutermost ==
  ASSUME NEW s, IsModule(s), NEW k \in Opens(s)
  PROVE  \E o \in Outermost(s) : o \in Nat /\ o <= k /\ (o = k \/ k < s[o].end)
<1>1. CASE Around(s, k) = {}
  BY <1>1, OpenerEnds DEF Outermost
<1>2. CASE Around(s, k) # {}
  <2>1. Around(s, k) \in SUBSET Nat
    BY OpenerEnds DEF Around
  <2>2. PICK o \in Around(s, k) : \A j \in Around(s, k) : o <= j
    BY <1>2, <2>1, LeastNumber
  <2>3. o \in Opens(s) /\ o < k /\ k < s[o].end /\ o \in Nat
    BY <2>1 DEF Around
  <2>4. Around(s, o) = {}
    <3> SUFFICES ASSUME NEW j \in Around(s, o) PROVE FALSE
      OBVIOUS
    <3>1. j \in Opens(s) /\ j < o /\ o < s[j].end /\ j \in Nat /\ s[j].end \in Nat
      BY OpenerEnds DEF Around
    <3>2. s[o].end < s[j].end /\ s[o].end \in Nat /\ k \in Nat
      BY <2>3, <3>1, OpenerEnds DEF IsModule, ScopesNest, Nested
    <3>3. j \in Around(s, k)
      BY <2>3, <3>1, <3>2 DEF Around
    <3> QED BY <2>2, <2>3, <3>1, <3>3
  <2>5. o \in Outermost(s) /\ o <= k
    <3>1. k \in Nat
      BY OpenerEnds
    <3> QED BY <2>3, <2>4, <3>1 DEF Outermost
  <2> QED BY <2>3, <2>5
<1> QED BY <1>1, <1>2

\* The scopes that have an address are such a chain.
LEMMA HasChained ==
  ASSUME NEW s, IsModule(s), NEW a \in Int, NEW fr
  PROVE  Chained(s, {k \in Opens(s) : fr /\ Has(s, k, a)})
BY HasNest DEF Chained

\* A scope's parent is the next scope outwards that has the address.
LEMMA ParentNext ==
  ASSUME NEW s, IsModule(s), NEW C, Chained(s, C), NEW b \in C
  PROVE  /\ s[b].parent = 0 => \A t \in C : t >= b
         /\ s[b].parent # 0 => /\ s[b].parent \in C /\ s[b].parent < b
                               /\ \A t \in C : t < b => t <= s[b].parent
<1>1. b \in Opens(s) /\ b \in Nat /\ \A t \in C : t \in Nat \ {0} /\ t \in Opens(s)
  BY OpenerEnds DEF Chained
<1>2. s[b].parent = IF Around(s, b) = {} THEN 0 ELSE Max(Around(s, b))
  BY <1>1 DEF IsModule, ScopesLinked
<1>3. \A t \in C : t < b => t \in Around(s, b)
  BY <1>1 DEF Chained, Around
<1>4. CASE Around(s, b) = {}
  <2>1. \A t \in C : ~(t < b)
    BY <1>3, <1>4
  <2> QED BY <1>1, <1>2, <1>4, <2>1
<1>5. CASE Around(s, b) # {}
  <2>1. Around(s, b) \in SUBSET (0..b)
    BY <1>1, OpenerEnds DEF Around
  <2>2. Max(Around(s, b)) \in Around(s, b) /\ \A k \in Around(s, b) : k <= Max(Around(s, b))
    BY <1>1, <1>5, <2>1, Greatest
  <2>3. s[b].parent \in Around(s, b) /\ \A k \in Around(s, b) : k <= s[b].parent
    BY <1>2, <1>5, <2>2
  <2>4. s[b].parent \in Opens(s) /\ s[b].parent < b /\ b < s[s[b].parent].end
    BY <2>3 DEF Around
  <2>5. s[b].parent # 0 /\ s[b].parent \in C
    BY <1>1, <2>4, OpenerEnds DEF Chained
  <2> QED BY <1>3, <2>3, <2>4, <2>5
<1> QED BY <1>4, <1>5

-----------------------------------------------------------------------------
(***************************************************************************)
(* What a walk passes.                                                     *)
(***************************************************************************)

\* A symbol is declared in one scope, or in the file's.
LEMMA DeclOnce ==
  ASSUME NEW s, IsModule(s), NEW b \in Opens(s) \cup {0}, NEW t \in Opens(s) \cup {0},
         NEW k, k \in Decl(s, b), k \in Decl(s, t)
  PROVE  b = t
<1>1. b \in Nat /\ t \in Nat /\ k \in Nat /\ \A j \in Opens(s) : j # 0
  <2>1. \A j \in Opens(s) : j \in Nat \ {0}
    BY OpenerEnds
  <2> QED BY <2>1 DEF Decl, IsModule
<1>2. b # 0 => t # 0 /\ (b = t \/ b < t)
  BY <1>1 DEF Decl
<1>3. t # 0 => b # 0 /\ (b = t \/ t < b)
  BY <1>1 DEF Decl
<1> QED BY <1>1, <1>2, <1>3

\* Before the innermost scope nothing is passed.
LEMMA NothingPassed ==
  ASSUME NEW s, IsModule(s), NEW C, Chained(s, C), NEW b \in C, \A t \in C : t <= b
  PROVE  Passed(s, C, b, b + 1) = {}
<1>1. b \in Nat /\ \A t \in C : t \in Nat
  BY OpenerEnds DEF Chained
<1>2. b # 0
  BY OpenerEnds DEF Chained
<1>3. \A k \in Decl(s, b) : k \in Nat /\ b < k
  BY <1>1, <1>2 DEF Decl, IsModule
<1>4. \A t \in C : ~(t > b)
  BY <1>1
<1>5. \A k \in Decl(s, b) : ~(k < b + 1)
  BY <1>1, <1>3
<1> QED BY <1>4, <1>5 DEF Passed

\* The end of a scope, and the way to the next one outwards.
LEMMA ScopePassed ==
  ASSUME NEW s, IsModule(s), NEW C, Chained(s, C), NEW b \in C
  PROVE  /\ Passed(s, C, b, s[b].end) = Passed(s, C, b, Len(s) + 1)
         /\ s[b].parent # 0 =>
              Passed(s, C, s[b].parent, s[b].parent + 1) = Passed(s, C, b, Len(s) + 1)
         /\ s[b].parent = 0 =>
              /\ Passed(s, C, 0, 1) = Passed(s, C, b, Len(s) + 1)
              /\ Passed(s, C, b, Len(s) + 1) = UNION {Decl(s, t) : t \in C}
<1> DEFINE p == s[b].parent
<1>1. /\ b \in Nat \ {0} /\ \A t \in C : t \in Nat \ {0}
      /\ \A k \in DOMAIN s : k \in 1..Len(s) /\ Len(s) \in Nat
      /\ s[b].end \in Nat /\ s[b].end <= Len(s)
  BY OpenerEnds DEF Chained, IsModule
<1>2. \A k \in Decl(s, b) : k \in DOMAIN s /\ k < s[b].end /\ k < Len(s) + 1
  BY <1>1 DEF Decl
<1>3. Passed(s, C, b, Len(s) + 1) = {k \in DOMAIN s : \E t \in C : t >= b /\ k \in Decl(s, t)}
  BY <1>1, <1>2 DEF Passed
<1>4. Passed(s, C, b, s[b].end) = {k \in DOMAIN s : \E t \in C : t >= b /\ k \in Decl(s, t)}
  BY <1>1, <1>2 DEF Passed
<1>5. CASE p # 0
  <2>1. p \in C /\ p < b /\ \A t \in C : t < b => t <= p
    BY <1>5, ParentNext
  <2> HIDE DEF p
  <2>2. \A k \in Decl(s, p) : ~(k < p + 1)
    <3>1. \A k \in Decl(s, p) : k \in DOMAIN s /\ p < k
      BY <1>5 DEF Decl
    <3>2. p \in Nat
      BY <1>1, <2>1
    <3> QED BY <1>1, <3>1, <3>2
  <2>3. \A t \in C : t > p <=> t >= b
    <3> SUFFICES ASSUME NEW t \in C PROVE t > p <=> t >= b
      OBVIOUS
    <3>1. t \in Nat /\ p \in Nat /\ b \in Nat
      BY <1>1, <2>1
    <3> QED BY <2>1, <3>1
  <2> QED BY <1>3, <1>4, <1>5, <2>2, <2>3 DEF Passed, p
<1>6. CASE p = 0
  <2>1. \A t \in C : t >= b /\ t > 0
    BY <1>1, <1>6, ParentNext
  <2>2. \A k \in DOMAIN s : ~(k < 1)
    BY <1>1
  <2>3. \A t : \A k \in Decl(s, t) : k \in DOMAIN s
    BY DEF Decl
  <2> QED BY <1>3, <1>4, <1>6, <2>1, <2>2, <2>3 DEF Passed
<1> QED BY <1>5, <1>6

\* The file's own symbols.
LEMMA FilePassed ==
  ASSUME NEW s, IsModule(s), NEW C, Chained(s, C)
  PROVE  /\ Passed(s, C, 0, 1) = UNION {Decl(s, t) : t \in C}
         /\ Passed(s, C, 0, Len(s) + 1) = (UNION {Decl(s, t) : t \in C}) \cup Decl(s, 0)
<1>1. /\ \A t \in C : t \in Nat /\ t > 0
      /\ \A k \in DOMAIN s : k \in 1..Len(s) /\ Len(s) \in Nat
  BY OpenerEnds DEF Chained, IsModule
<1>2. \A t : \A k \in Decl(s, t) : k \in DOMAIN s
  BY DEF Decl
<1>3. \A k \in DOMAIN s : ~(k < 1) /\ k < Len(s) + 1
  BY <1>1
<1> QED BY <1>1, <1>2, <1>3 DEF Passed

\* One record of a scope or of the file.
LEMMA PassedStep ==
  ASSUME NEW s, NEW C, NEW b, NEW c, NEW next, NEW new,
         {k \in Decl(s, b) : k < next} = {k \in Decl(s, b) : k < c} \cup new
  PROVE  Passed(s, C, b, next) = Passed(s, C, b, c) \cup new
<1>1. \A t : \A k \in Decl(s, t) : k \in DOMAIN s
  BY DEF Decl
<1>2. \A x, y : Passed(s, C, x, y) =
        {k \in DOMAIN s : \E t \in C : t > x /\ k \in Decl(s, t)} \cup {k \in Decl(s, x) : k < y}
  BY <1>1 DEF Passed
<1> QED BY <1>2

-----------------------------------------------------------------------------
(***************************************************************************)
(* The search for the scope of an address.  The third loop is in scope b   *)
(* of the address, at record c and behind record p.                        *)
(***************************************************************************)
Inner(s, C, b, p, c) ==
  /\ b \in C /\ c \in Nat /\ (c = b \/ (b < c /\ p = c - 1))
  /\ \A k \in C : k <= b \/ k >= c
  /\ c <= s[b].end => Level(s, b, c)

\* The first loop leads to the first of the outermost scopes.
LEMMA OuterFirst ==
  ASSUME NEW s, IsModule(s), NEW C, Chained(s, C),
         NEW c \in Outermost(s), \A j \in Outermost(s) : c <= j
  PROVE  \A k \in C : c <= k
<1> SUFFICES ASSUME NEW k \in C PROVE c <= k
  OBVIOUS
<1>1. k \in Opens(s) /\ k \in Nat /\ c \in Nat
  BY OpenerEnds DEF Chained, Outermost
<1>2. PICK o \in Outermost(s) : o \in Nat /\ o <= k
  BY <1>1, InOutermost
<1> QED BY <1>1, <1>2

\* The second goes from one that does not have the address to the next.
LEMMA OuterNext ==
  ASSUME NEW s, IsModule(s), NEW C, Chained(s, C),
         NEW c \in Outermost(s), \A k \in C : c <= k, c \notin C
  PROVE  /\ s[c].next = 0 => C = {}
         /\ s[c].next # 0 => s[c].next \in Outermost(s) /\ \A k \in C : s[c].next <= k
<1> DEFINE later == {j \in Outermost(s) : j > c}
<1>1. s[c].next = IF later = {} THEN 0 ELSE Min(later)
  BY DEF IsModule, ScopesLinked
<1>2. c \in Opens(s) /\ c \in Nat /\ \A k \in C : k \in Opens(s) /\ k \in Nat
  BY OpenerEnds DEF Chained, Outermost
<1>3. later \in SUBSET (Nat \ {0})
  <2>1. \A j \in Outermost(s) : j \in Nat \ {0}
    BY OpenerEnds DEF Outermost
  <2> QED BY <2>1
<1>4. ASSUME NEW k \in C PROVE \E o \in later : o <= k
  <2>1. PICK o \in Outermost(s) : o \in Nat /\ o <= k /\ (o = k \/ k < s[o].end)
    BY <1>2, InOutermost
  <2>2. o \in Opens(s)
    BY DEF Outermost
  <2>3. o \in C
    <3>1. CASE o = k
      BY <3>1
    <3>2. CASE o < k
      BY <2>1, <2>2, <3>2 DEF Chained
    <3> QED BY <1>2, <2>1, <3>1, <3>2
  <2>4. c <= o /\ c # o
    BY <2>3
  <2>5. o \in later
    BY <1>2, <2>1, <2>4
  <2> QED BY <2>1, <2>5
<1>5. CASE later = {}
  BY <1>1, <1>4, <1>5
<1>6. CASE later # {}
  <2>1. Min(later) \in later /\ \A j \in later : Min(later) <= j
    <3>1. later \in SUBSET Nat
      BY <1>3
    <3> HIDE DEF later
    <3> QED BY <3>1, <1>6, Smallest
  <2>2. PICK m : m = Min(later)
    OBVIOUS
  <2>3. m \in Outermost(s) /\ m \in Nat \ {0} /\ \A j \in later : m <= j
    BY <1>3, <2>1, <2>2
  <2>4. \A k \in C : m <= k
    <3> SUFFICES ASSUME NEW k \in C PROVE m <= k
      OBVIOUS
    <3>1. PICK o \in later : o <= k
      BY <1>4
    <3>2. o \in Nat /\ k \in Nat /\ m <= o
      BY <1>2, <1>3, <2>3
    <3> QED BY <2>3, <3>1, <3>2
  <2>5. s[c].next = m
    BY <1>1, <1>6, <2>2
  <2> QED BY <2>3, <2>4, <2>5
<1> QED BY <1>5, <1>6

\* The third goes into a scope that has the address,
LEMMA InnerIn ==
  ASSUME NEW s, IsModule(s), NEW C, Chained(s, C), NEW b, NEW p, NEW c, Inner(s, C, b, p, c),
         c \in C
  PROVE  /\ s[b].off <= s[c].off /\ s[c].off + s[c].len <= s[b].off + s[b].len
         /\ Inner(s, C, c, c, c + 1)
<1>1. /\ b \in Opens(s) /\ c \in Opens(s) /\ b \in Nat /\ c \in Nat /\ b <= c
      /\ s[b].off \in Nat /\ s[b].len \in Nat
  BY OpenerEnds DEF Inner, Chained
<1>2. b # c => Nested(s[b], s[c])
  BY <1>1 DEF IsModule, ScopesNest, Chained, Inner
<1>3. s[b].off <= s[c].off /\ s[c].off + s[c].len <= s[b].off + s[b].len
  BY <1>1, <1>2 DEF Nested
<1>4. \A k \in Opens(s) : k \in Nat
  BY OpenerEnds
<1>5. Level(s, c, c + 1)
  BY <1>1, <1>4 DEF Level
<1>6. \A k \in C : k <= c \/ k >= c + 1
  BY <1>1, <1>4 DEF Chained
<1> QED BY <1>1, <1>3, <1>5, <1>6 DEF Inner

\* and passes over one that has not;
LEMMA InnerOver ==
  ASSUME NEW s, IsModule(s), NEW C, Chained(s, C), NEW b, NEW p, NEW c, Inner(s, C, b, p, c),
         c \in Opens(s), c \notin C
  PROVE  Inner(s, C, b, s[c].end, s[c].end + 1)
<1> DEFINE e == s[c].end
<1>1. /\ b \in Opens(s) /\ b \in C /\ b \in Nat /\ c \in Nat /\ b < c /\ e \in Nat /\ c < e
      /\ s[b].end \in Nat /\ e \in DOMAIN s /\ s[e].code = "END" /\ c \in DOMAIN s
  BY OpenerEnds DEF Inner, Chained
<1>2. ASSUME NEW k \in C PROVE k <= b \/ k >= e + 1
  <2>1. k \in Opens(s) /\ k \in Nat /\ (k <= b \/ k >= c) /\ k # c
    BY OpenerEnds DEF Chained, Inner
  <2>2. c < k => ~(k < e)
    BY <2>1 DEF Chained
  <2>3. k # e
    BY <1>1, <2>1 DEF Opens, Openers, Procs
  <2> QED BY <1>1, <2>1, <2>2, <2>3
<1>3. ASSUME e + 1 <= s[b].end PROVE Level(s, b, e + 1)
  <2>1. c <= s[b].end /\ s[c].code # "END" /\ Level(s, b, c)
    BY <1>1, <1>3 DEF Inner, Opens, Openers, Procs
  <2> HIDE DEF e
  <2> QED BY <1>1, <2>1, DeclStep DEF e
<1> QED BY <1>1, <1>2, <1>3 DEF Inner

\* what opens no scope is passed, unless it is behind an END:
LEMMA InnerOn ==
  ASSUME NEW s, IsModule(s), NEW C, Chained(s, C), NEW b, NEW p, NEW c, Inner(s, C, b, p, c),
         c \notin Opens(s)
  PROVE  Inner(s, C, b, c, c + 1)
<1>1. /\ b \in Opens(s) /\ b \in C /\ b \in Nat /\ c \in Nat /\ b < c
      /\ s[b].end \in Nat /\ s[b].end <= Len(s)
  BY OpenerEnds DEF Inner, Chained
<1>2. \A k \in C : k \in Nat /\ k \in Opens(s)
  BY OpenerEnds DEF Chained
<1>3. \A k \in C : k <= b \/ k >= c + 1
  BY <1>1, <1>2 DEF Inner
<1>4. ASSUME c + 1 <= s[b].end PROVE Level(s, b, c + 1)
  <2>1. c <= s[b].end /\ c # s[b].end /\ Level(s, b, c) /\ c \in DOMAIN s
    BY <1>1, <1>4 DEF Inner, IsModule
  <2>2. s[c].code # "END"
    <3>1. c \in (b + 1)..s[b].end
      BY <1>1, <2>1
    <3> QED BY <1>1, <2>1, <3>1, LevelEnd
  <2>3. c + 1 = (IF c \in Opens(s) THEN s[c].end ELSE c) + 1
    OBVIOUS
  <2>4. b # 0
    BY <1>1, OpenerEnds
  <2> QED BY <1>1, <2>1, <2>2, <2>3, <2>4, DeclStep
<1> QED BY <1>1, <1>3, <1>4 DEF Inner

\* then the search is over, and b is the innermost.
LEMMA InnerFound ==
  ASSUME NEW s, IsModule(s), NEW C, Chained(s, C), NEW b, NEW p, NEW c, Inner(s, C, b, p, c),
         c \notin Opens(s), p \in DOMAIN s, s[p].code = "END"
  PROVE  \A k \in C : k <= b
<1> SUFFICES ASSUME NEW k \in C, ~(k <= b) PROVE FALSE
  OBVIOUS
<1>1. /\ b \in Opens(s) /\ b \in C /\ b \in Nat /\ c \in Nat /\ b < c /\ p = c - 1
      /\ s[b].end \in Nat /\ k \in Nat /\ k \in Opens(s) /\ b < k /\ k >= c
  BY OpenerEnds DEF Inner, Chained
<1>2. k < s[b].end
  BY <1>1 DEF Chained
<1>3. b # p
  BY <1>1 DEF Opens, Openers, Procs
<1>4. c \in (b + 2)..s[b].end /\ Level(s, b, c) /\ s[c - 1].code = "END"
  BY <1>1, <1>2, <1>3 DEF Inner
<1>5. c = s[b].end
  BY <1>1, <1>4, NothingBehind
<1> QED BY <1>1, <1>2, <1>5

-----------------------------------------------------------------------------
(***************************************************************************)
(* The symbols handed out: o gives those of M that were passed, nearest    *)
(* first.                                                                  *)
(***************************************************************************)
OwnOf(o) == {i \in DOMAIN o : ~IsMemberHandle(o[i])}
RecordsOf(o) == {o[i].sym : i \in OwnOf(o)}
Ordered(s, C, o) == \A i, j \in OwnOf(o) : i < j => SoonerIn(s, C, o[i].sym, o[j].sym)
Gives(s, C, M, o, b, c) ==
  /\ \E S : o \in Seq(S)
  /\ Ordered(s, C, o) /\ RecordsOf(o) = Passed(s, C, b, c) \cap M
\* Nothing is left out on the way.
Closed(s, C, o) ==
  /\ RecordsOf(o) \subseteq UNION {Decl(s, t) : t \in C}
  /\ \A j \in UNION {Decl(s, t) : t \in C} :
       (\E k \in RecordsOf(o) : SoonerIn(s, C, j, k)) => j \in RecordsOf(o)

\* One symbol more is handed out.
LEMMA Appended ==
  ASSUME NEW S, NEW o \in Seq(S), NEW h, NEW o1, o1 = Append(o, h)
  PROVE  /\ o1 \in Seq(S \cup {h}) /\ Len(o) \in Nat
         /\ DOMAIN o = 1..Len(o) /\ DOMAIN o1 = 1..(Len(o) + 1)
         /\ o1[Len(o) + 1] = h /\ \A i \in 1..Len(o) : o1[i] = o[i]
         /\ OwnOf(o1) = OwnOf(o) \cup IF IsMemberHandle(h) THEN {} ELSE {Len(o) + 1}
<1>1. /\ o1 \in Seq(S \cup {h}) /\ Len(o) \in Nat /\ Len(o1) = Len(o) + 1
      /\ DOMAIN o = 1..Len(o) /\ DOMAIN o1 = 1..(Len(o) + 1)
      /\ o1[Len(o) + 1] = h /\ \A i \in 1..Len(o) : o1[i] = o[i]
  <2>1. o \in Seq(S \cup {h}) /\ h \in S \cup {h}
    OBVIOUS
  <2> QED BY <2>1, AppendProperties, LenProperties
<1>2. \A i \in DOMAIN o1 : i \in DOMAIN o \/ i = Len(o) + 1
  BY <1>1
<1>3. \A i \in DOMAIN o : i \in DOMAIN o1 /\ o1[i] = o[i] /\ i # Len(o) + 1
  BY <1>1
<1>4. Len(o) + 1 \in DOMAIN o1
  BY <1>1
<1>5. OwnOf(o1) = OwnOf(o) \cup IF IsMemberHandle(h) THEN {} ELSE {Len(o) + 1}
  <2> HIDE DEF IsMemberHandle
  <2> QED BY <1>1, <1>2, <1>3, <1>4 DEF OwnOf
<1> QED BY <1>1, <1>5

\* A member of the class is handed out.
LEMMA MemberShown ==
  ASSUME NEW S, NEW o \in Seq(S), NEW h, IsMemberHandle(h), NEW o1, o1 = Append(o, h)
  PROVE  /\ \E R : o1 \in Seq(R)
         /\ RecordsOf(o1) = RecordsOf(o)
         /\ \A s, C : Ordered(s, C, o) => Ordered(s, C, o1)
<1>1. OwnOf(o1) = OwnOf(o) /\ \A i \in OwnOf(o) : o1[i] = o[i]
  BY Appended DEF OwnOf
<1>2. \E R : o1 \in Seq(R)
  BY Appended
<1>3. RecordsOf(o1) = RecordsOf(o)
  BY <1>1 DEF RecordsOf
<1>4. \A s, C : Ordered(s, C, o) => Ordered(s, C, o1)
  BY <1>1 DEF Ordered
<1> QED BY <1>2, <1>3, <1>4

\* A symbol of the module is.
LEMMA OwnShown ==
  ASSUME NEW S, NEW o \in Seq(S), NEW h, ~IsMemberHandle(h), NEW o1, o1 = Append(o, h),
         NEW s, NEW C
  PROVE  /\ \E R : o1 \in Seq(R)
         /\ RecordsOf(o1) = RecordsOf(o) \cup {h.sym}
         /\ Ordered(s, C, o) /\ (\A j \in RecordsOf(o) : SoonerIn(s, C, j, h.sym))
              => Ordered(s, C, o1)
<1>1. /\ OwnOf(o1) = OwnOf(o) \cup {Len(o) + 1} /\ o1[Len(o) + 1] = h
      /\ \A i \in OwnOf(o) : o1[i] = o[i] /\ i \in 1..Len(o)
      /\ Len(o) \in Nat /\ \E R : o1 \in Seq(R)
  <2>1. /\ OwnOf(o1) = OwnOf(o) \cup {Len(o) + 1} /\ o1[Len(o) + 1] = h
        /\ Len(o) \in Nat /\ \E R : o1 \in Seq(R)
        /\ \A i \in 1..Len(o) : o1[i] = o[i]
        /\ DOMAIN o = 1..Len(o)
    <3>1. OwnOf(o1) = OwnOf(o) \cup IF IsMemberHandle(h) THEN {} ELSE {Len(o) + 1}
      BY Appended
    <3>2. OwnOf(o1) = OwnOf(o) \cup {Len(o) + 1}
      BY <3>1
    <3>3. \E R : o1 \in Seq(R)
      BY Appended
    <3>4. /\ o1[Len(o) + 1] = h /\ Len(o) \in Nat /\ DOMAIN o = 1..Len(o)
          /\ \A i \in 1..Len(o) : o1[i] = o[i]
      BY Appended
    <3> QED BY <3>2, <3>3, <3>4
  <2> QED BY <2>1 DEF OwnOf
<1>2. RecordsOf(o1) = RecordsOf(o) \cup {h.sym}
  BY <1>1 DEF RecordsOf
<1>3. ASSUME Ordered(s, C, o), \A j \in RecordsOf(o) : SoonerIn(s, C, j, h.sym)
      PROVE  Ordered(s, C, o1)
  <2> SUFFICES ASSUME NEW i \in OwnOf(o1), NEW j \in OwnOf(o1), i < j
               PROVE  SoonerIn(s, C, o1[i].sym, o1[j].sym)
    BY DEF Ordered
  <2>1. i \in OwnOf(o)
    BY <1>1
  <2>2. CASE j \in OwnOf(o)
    BY <1>1, <1>3, <2>1, <2>2 DEF Ordered
  <2>3. CASE j = Len(o) + 1
    BY <1>1, <1>3, <2>1, <2>3 DEF RecordsOf
  <2> QED BY <1>1, <2>2, <2>3
<1> QED BY <1>1, <1>2, <1>3

\* One record, and whether it is shown.
LEMMA GivesStep ==
  ASSUME NEW s, IsModule(s), NEW C, NEW M, NEW o, NEW b \in Opens(s) \cup {0}, b \in C \cup {0},
         NEW c, NEW next,
         c \in DOMAIN s, b < c, Level(s, b, c), b # 0 => c <= s[b].end /\ s[c].code # "END",
         next = (IF c \in Opens(s) THEN s[c].end ELSE c) + 1,
         Gives(s, C, M, o, b, c),
         NEW h, ~IsMemberHandle(h), h.sym = c,
         NEW o1, o1 = IF s[c].code \notin NotShown /\ (b = 0 \/ c \notin Opens(s)) /\ c \in M
                        THEN Append(o, h) ELSE o
  PROVE  /\ Gives(s, C, M, o1, b, next) /\ next \in Nat /\ c < next /\ Level(s, b, next)
         /\ b # 0 => next <= s[b].end
<1> DEFINE Shows == s[c].code \notin NotShown /\ (b = 0 \/ c \notin Opens(s))
           new == IF Shows THEN {c} ELSE {}
<1>1. /\ next \in Nat /\ c < next /\ Level(s, b, next) /\ (b # 0 => next <= s[b].end)
      /\ {k \in Decl(s, b) : k < next} = {k \in Decl(s, b) : k < c} \cup new
  <2>1. PICK bb : bb = b
    OBVIOUS
  <2> QED BY DeclStep, SMTT(60)
<1>2. Passed(s, C, b, next) = Passed(s, C, b, c) \cup new
  <2> HIDE DEF new
  <2> QED BY <1>1, PassedStep
<1>3. Shows => c \in Decl(s, b) /\ \A j \in Passed(s, C, b, c) : SoonerIn(s, C, j, c)
  <2> SUFFICES ASSUME Shows
               PROVE  c \in Decl(s, b) /\ \A j \in Passed(s, C, b, c) : SoonerIn(s, C, j, c)
    OBVIOUS
  <2>1. c \in Decl(s, b)
    <3>1. c \in {k \in Decl(s, b) : k < next}
      BY <1>1
    <3> QED BY <3>1
  <2>2. ASSUME NEW j \in Passed(s, C, b, c) PROVE SoonerIn(s, C, j, c)
    <3>1. \/ \E t \in C : t > b /\ j \in Decl(s, t)
          \/ j \in Decl(s, b) /\ j < c
      BY DEF Passed
    <3> QED BY <2>1, <3>1 DEF SoonerIn
  <2> QED BY <2>1, <2>2
<1>4. PICK S : o \in Seq(S)
  BY DEF Gives
<1>5. CASE Shows /\ c \in M
  <2>1. o1 = Append(o, h)
    BY <1>5
  <2>2. /\ \E R : o1 \in Seq(R)
        /\ RecordsOf(o1) = RecordsOf(o) \cup {c}
        /\ Ordered(s, C, o) /\ (\A j \in RecordsOf(o) : SoonerIn(s, C, j, c)) => Ordered(s, C, o1)
    <3>1. h.sym = c /\ ~IsMemberHandle(h)
      OBVIOUS
    <3>2. \E R : o1 \in Seq(R)
      BY <1>4, <2>1, <3>1, OwnShown
    <3>3. RecordsOf(o1) = RecordsOf(o) \cup {c}
      BY <1>4, <2>1, <3>1, OwnShown
    <3>4. Ordered(s, C, o) /\ (\A j \in RecordsOf(o) : SoonerIn(s, C, j, c)) => Ordered(s, C, o1)
      <4>1. Ordered(s, C, o) /\ (\A j \in RecordsOf(o) : SoonerIn(s, C, j, h.sym))
              => Ordered(s, C, o1)
        BY <1>4, <2>1, <3>1, OwnShown
      <4> QED BY <3>1, <4>1
    <3> QED BY <3>2, <3>3, <3>4
  <2>3. Ordered(s, C, o) /\ RecordsOf(o) = Passed(s, C, b, c) \cap M
    BY DEF Gives
  <2>4. Ordered(s, C, o1)
    BY <1>3, <1>5, <2>2, <2>3
  <2>5. RecordsOf(o1) = Passed(s, C, b, next) \cap M
    BY <1>2, <1>5, <2>2, <2>3
  <2> QED BY <1>1, <2>2, <2>4, <2>5 DEF Gives
<1>6. CASE ~(Shows /\ c \in M)
  <2>1. o1 = o
    BY <1>6
  <2>2. Passed(s, C, b, next) \cap M = Passed(s, C, b, c) \cap M
    BY <1>2, <1>6
  <2> QED BY <1>1, <2>1, <2>2 DEF Gives
<1> QED BY <1>5, <1>6

\* Nothing is handed out.
LEMMA NothingGiven ==
  /\ <<>> \in Seq({}) /\ OwnOf(<<>>) = {} /\ RecordsOf(<<>>) = {}
  /\ \A s, C : Ordered(s, C, <<>>) /\ Closed(s, C, <<>>)
<1>1. DOMAIN <<>> = {}
  OBVIOUS
<1>2. OwnOf(<<>>) = {}
  BY <1>1 DEF OwnOf
<1>3. RecordsOf(<<>>) = {}
  BY <1>2 DEF RecordsOf
<1> QED BY <1>2, <1>3 DEF Ordered, Closed

\* A walk that has come to record c of scope b left nothing out.
LEMMA GivesClosed ==
  ASSUME NEW s, IsModule(s), NEW C, Chained(s, C), NEW o, NEW b \in C, NEW c \in Int,
         Gives(s, C, DOMAIN s, o, b, c)
  PROVE  Closed(s, C, o)
<1>1. RecordsOf(o) = Passed(s, C, b, c)
  BY DEF Gives, Passed
<1>2. C \subseteq Opens(s) /\ b \in Nat /\ \A t \in C : t \in Nat /\ t # 0
  BY OpenerEnds DEF Chained
<1>3. RecordsOf(o) \subseteq UNION {Decl(s, t) : t \in C}
  BY <1>1 DEF Passed
<1>4. ASSUME NEW t \in C, NEW j \in Decl(s, t), NEW k \in Passed(s, C, b, c), SoonerIn(s, C, j, k)
      PROVE  j \in Passed(s, C, b, c)
  <2>1. PICK x, y \in C \cup {0} :
          j \in Decl(s, x) /\ k \in Decl(s, y) /\ (x > y \/ (x = y /\ j < k))
    BY <1>4 DEF SoonerIn
  <2>2. PICK z \in C : k \in Decl(s, z) /\ (z > b \/ (z = b /\ k < c))
    BY DEF Passed
  <2>3. x = t /\ y = z
    BY <1>2, <2>1, <2>2, DeclOnce
  <2>4. j \in DOMAIN s /\ j \in Nat /\ k \in Nat
    BY <2>1 DEF Decl, IsModule
  <2>5. CASE t > b
    BY <2>4, <2>5 DEF Passed
  <2>6. CASE ~(t > b)
    <3>1. t = z /\ z = b /\ j < k /\ k < c
      BY <1>2, <2>1, <2>2, <2>3, <2>6
    <3>2. j \in Decl(s, b) /\ j < c
      <4>1. j < k /\ k < c /\ j \in Decl(s, t) /\ t = b /\ c \in Int
        BY <3>1
      <4> QED BY <2>4, <4>1
    <3> QED BY <2>4, <3>2 DEF Passed
  <2> QED BY <2>5, <2>6
<1> QED BY <1>1, <1>3, <1>4 DEF Closed

-----------------------------------------------------------------------------
(***************************************************************************)
(* The segments' addresses.  A third invariant: once they are read, and    *)
(* mapped or not, their offsets are numbers.                               *)
(***************************************************************************)
Unmapped == {"header", "block", "read", "segmap"}
MapOf(ii) ==
  IF cur = ii /\ pc \in Unmapped THEN ~img[ii].mapped
  ELSE /\ \A k \in DOMAIN Info[img[ii].file].segs : img[ii].mapping[k].offset \in Nat
       /\ ~img[ii].mapped => img[ii].mapping = Info[img[ii].file].segs
MapInv == (pc = "vm" => ~img[cur].mapped) /\ \A ii \in ImageList : MapOf(ii)

\* The segments as the file has them.
LEMMA SegsRead ==
  ASSUME NEW f \in Files, NEW k \in DOMAIN Info[f].segs
  PROVE  Info[f].segs[k] \in [frame : Nat, offset : Nat, execute : BOOLEAN]
<1>1. Info[f].segs \in Seq([frame : Nat, offset : Nat, execute : BOOLEAN])
  BY SegmentsAssumption
<1> QED BY <1>1, LenProperties, ElementOfSeq

\* One image changes.
LEMMA OneMap ==
  ASSUME Inv, MapInv, NEW ii \in Images,
         \A jj \in Images : jj # ii => img'[jj] = img[jj],
         ImageList' \subseteq ImageList \cup {ii},
         cur \in {ii, None}, cur' \in {ii, None},
         ii \in ImageList' => MapOf(ii)',
         pc' = "vm" => cur' = ii /\ ~img'[ii].mapped
  PROVE  MapInv'
<1>1. ASSUME NEW jj \in ImageList', jj # ii PROVE MapOf(jj)'
  <2>1. jj \in ImageList /\ jj \in Images /\ MapOf(jj) /\ img'[jj] = img[jj]
    BY <1>1 DEF Inv, LoadInv, Handles, MapInv
  <2>2. cur # jj /\ cur' # jj
    BY <1>1, <2>1, FilesAssumption
  <2> QED BY <2>1, <2>2 DEF MapOf
<1> QED BY <1>1 DEF MapInv

\* The load of an image, MapInfo and UnloadInfo.
LEMMA LoadMap ==
  Inv /\ MapInv /\ (Load \/ (LoadInfo /\ UNCHANGED locals)) => MapInv'
<1> SUFFICES ASSUME Inv, MapInv, Load \/ LoadInfo PROVE MapInv'
  OBVIOUS
<1>1. PICK C : img \in [Images -> ImageType(C)]
  BY DEF Inv, LoadInv, Handles
<1>2. /\ cur # None => cur \in Images /\ pc # "idle" /\ img[cur].file \in Files
      /\ cur \in Images \cup {None}
      /\ \A ii \in ImageList : ii \in Images /\ img[ii].file \in Files
  BY DEF Inv, LoadInv, Handles, Where
<1>3. ASSUME NEW ii \in Images, NEW f \in Files, FindCV(ii, f) PROVE MapInv'
  <2>1. ii \notin ImageList /\ UNCHANGED ImageList /\ cur = None /\ cur' = ii
        /\ \A jj \in Images : jj # ii => img'[jj] = img[jj]
    BY <1>1, <1>3 DEF FindCV, Inv, LoadInv, Where
  <2>2. ~img'[ii].mapped
    BY <1>1, <1>3 DEF FindCV, Fresh
  <2> QED BY <2>1, <2>2, OneMap
<1>4. ASSUME NEW ii \in Images, NEW where \in Info[img[ii].file].places, MapInfo(ii, where)
      PROVE  MapInv'
  <2> DEFINE segs == Info[img[ii].file].segs
  <2>1. /\ ii \in ImageList /\ pc = "idle" /\ pc' = "idle" /\ cur = None /\ cur' = None
        /\ UNCHANGED ImageList
        /\ \A jj \in Images : jj # ii => img'[jj] = img[jj]
        /\ img'[ii].file = img[ii].file /\ img'[ii].mapped = TRUE /\ ~img[ii].mapped
        /\ img'[ii].mapping = [k \in DOMAIN img[ii].mapping |->
                                 DCMapAddr(img[ii].mapping[k], where)]
    BY <1>1, <1>4 DEF MapInfo, ImageType, Inv, LoadInv, Where
  <2>2. img[ii].mapping = segs
    BY <2>1, FilesAssumption DEF MapInv, MapOf, Unmapped
  <2>3. ASSUME NEW k \in DOMAIN segs PROVE img'[ii].mapping[k].offset \in Nat
    <3>1. segs[k] \in [frame : Nat, offset : Nat, execute : BOOLEAN]
          /\ where[segs[k].frame].offset \in Nat
      BY <1>2, <1>4, <2>1, SegsRead, SegmentsAssumption
    <3>2. img'[ii].mapping[k] = DCMapAddr(segs[k], where)
      BY <2>1, <2>2
    <3>3. DCMapAddr(segs[k], where).offset = where[segs[k].frame].offset + segs[k].offset
      <4> HIDE DEF segs
      <4> QED BY <3>1 DEF DCMapAddr
    <3>4. img'[ii].mapping[k].offset = where[segs[k].frame].offset + segs[k].offset
      BY <3>2, <3>3
    <3> QED BY <3>1, <3>4
  <2>4. MapOf(ii)'
    BY <2>1, <2>3 DEF MapOf, Unmapped
  <2> QED BY <2>1, <2>4, OneMap
<1>5. ASSUME NEW ii \in Images, UnloadInfo(ii) PROVE MapInv'
  <2>1. /\ cur = None /\ cur' = None /\ ImageList' = ImageList \ {ii} /\ pc' = "idle"
        /\ \A jj \in Images : jj # ii => img'[jj] = img[jj]
    BY <1>1, <1>5 DEF UnloadInfo, Cleanup, Inv, LoadInv, Where
  <2> QED BY <2>1, OneMap
<1>6. CASE LoadFails
  <2>1. cur \in Images /\ cur' = None /\ pc \in LoadSteps /\ pc' = "idle"
        /\ \A jj \in Images : jj # cur => img'[jj] = img[jj]
    BY <1>1, <1>2, <1>6 DEF LoadFails, LoadSteps, Inv, LoadInv, Where
  <2>2. cur \notin ImageList' /\ ImageList' \subseteq ImageList
    BY <1>6 DEF LoadFails, Cleanup, Inv, LoadInv, Where
  <2> QED BY <2>1, <2>2, OneMap
<1>7. CASE ListImage
  <2>1. /\ pc = "vm" /\ cur \in Images /\ pc' = "header" /\ UNCHANGED <<img, cur>>
        /\ ImageList' = ImageList \cup {cur} /\ ~img[cur].mapped
    BY <1>2, <1>7 DEF ListImage, Inv, LoadInv, Where, MapInv
  <2>2. MapOf(cur)'
    BY <2>1 DEF MapOf, Unmapped
  <2> QED BY <2>1, <2>2, OneMap
<1>8. CASE LoadHeader \/ AllocBlock \/ ReadBlock
  <2>1. /\ pc \in Unmapped /\ pc' \in Unmapped /\ cur \in ImageList /\ cur \in Images
        /\ UNCHANGED <<ImageList, cur>>
        /\ \A jj \in Images : jj # cur => img'[jj] = img[jj]
    BY <1>1, <1>2, <1>8 DEF LoadHeader, AllocBlock, ReadBlock, Inv, LoadInv, Where, Unmapped
  <2>2. ~img[cur].mapped
    BY <2>1 DEF MapInv, MapOf
  <2>3. img'[cur].mapped = img[cur].mapped
    <3>1. CASE LoadHeader
      BY <1>1, <2>1, <3>1 DEF LoadHeader, ImageType
    <3>2. CASE AllocBlock
      BY <3>2 DEF AllocBlock
    <3>3. CASE ReadBlock
      BY <1>1, <2>1, <3>3 DEF ReadBlock, ImageType
    <3> QED BY <1>8, <3>1, <3>2, <3>3
  <2>4. MapOf(cur)'
    BY <2>1, <2>2, <2>3 DEF MapOf
  <2>5. pc' # "vm"
    BY <2>1 DEF Unmapped
  <2> QED BY <2>1, <2>4, <2>5, OneMap
<1>9. CASE LoadMapping
  <2>1. /\ pc = "segmap" /\ pc' = "types" /\ cur \in ImageList /\ cur \in Images
        /\ UNCHANGED <<ImageList, cur>>
        /\ \A jj \in Images : jj # cur => img'[jj] = img[jj]
        /\ img'[cur].mapping = Info[img[cur].file].segs /\ img'[cur].file = img[cur].file
        /\ img[cur].file \in Files
    BY <1>1, <1>2, <1>9 DEF LoadMapping, Inv, LoadInv, Where, ImageType, Contents
  <2>2. MapOf(cur)'
    BY <2>1, SegsRead DEF MapOf, Unmapped
  <2> QED BY <2>1, <2>2, OneMap
<1>10. CASE LoadTypes \/ SetMADType
  <2>1. PICK ii : ii = cur
    OBVIOUS
  <2>2. /\ pc \in {"types", "mad"} /\ pc' \in {"mad", "idle"} /\ ii \in ImageList
        /\ ii \in Images /\ UNCHANGED ImageList /\ cur' \in {ii, None}
    BY <1>2, <1>10, <2>1 DEF LoadTypes, SetMADType, Inv, LoadInv, Handles, Where
  <2>3. /\ img'[ii].file = img[ii].file /\ img'[ii].mapping = img[ii].mapping
        /\ img'[ii].mapped = img[ii].mapped
        /\ \A jj \in Images : jj # ii => img'[jj] = img[jj]
    BY <1>1, <1>10, <2>1, <2>2 DEF LoadTypes, SetMADType, ImageType
  <2>4. MapOf(ii)
    BY <2>2 DEF MapInv
  <2>5. MapOf(ii)'
    BY <2>2, <2>3, <2>4 DEF MapOf, Unmapped
  <2> QED BY <2>1, <2>2, <2>3, <2>5, OneMap
<1>11. CASE Load
  BY <1>3, <1>4, <1>5, <1>11 DEF Load, File
<1> QED BY <1>6, <1>7, <1>8, <1>9, <1>10, <1>11 DEF LoadInfo

\* The entry points leave it alone.
LEMMA MapUsed ==
  ASSUME Inv, MapInv, UNCHANGED <<ImageList, img>>,
         pc \notin LoadSteps, pc' \notin LoadSteps
  PROVE  MapInv'
BY DEF MapInv, MapOf, LoadSteps, Unmapped

\* A step of an entry point, and a call.
Called == Request \/ (TypeListWalk /\ UNCHANGED call) \/ Dispatch \/ ScopeSearch \/ ScopeWalk \/ TableStep
            \/ PeelArray \/ CallFails \/ Finish

\* Entry points and calls change no image.
LEMMA CalledLeavesFiles ==
  ASSUME Inv, Called
  PROVE  UNCHANGED <<ImageList, img>> /\ pc \notin LoadSteps /\ pc' \notin LoadSteps
<1>1. CASE Request
  BY <1>1 DEF Request, Enter, Ready, LoadSteps
<1>2. CASE TypeListWalk
  BY <1>2, WalkLeavesFiles
<1>3. CASE Dispatch \/ ScopeSearch \/ ScopeWalk \/ TableStep \/ PeelArray \/ CallFails
  <2>1. Plain \/ Starts
    BY <1>3, DispatchSteps, ScopeSearchSteps, ScopeWalkSteps, TableSteps
  <2>2. CASE Plain
    BY <2>2 DEF Plain, files, SymbolPoints, LoadSteps
  <2>3. CASE Starts
    <3>1. UNCHANGED files /\ pc \in SymbolPoints
      BY <2>3 DEF Starts
    <3>2. pc' \in {"done", "list"}
      BY <2>3 DEF Starts, StartWalk
    <3> QED BY <3>1, <3>2 DEF files, SymbolPoints, LoadSteps
  <2> QED BY <2>1, <2>2, <2>3
<1>4. CASE Finish
  BY <1>4 DEF Finish, LoadSteps
<1> QED BY <1>1, <1>2, <1>3, <1>4 DEF Called

\* Every step keeps the third invariant.
LEMMA MapStays == Inv /\ MapInv /\ [Next]_vars => MapInv'
<1> SUFFICES ASSUME Inv, MapInv, [Next]_vars PROVE MapInv'
  OBVIOUS
<1>1. CASE UNCHANGED vars
  BY <1>1 DEF vars, MapInv, MapOf
<1>2. CASE Load \/ (LoadInfo /\ UNCHANGED locals)
  BY <1>2, LoadMap
<1>3. CASE Called
  BY <1>3, CalledLeavesFiles, MapUsed
<1> QED BY <1>1, <1>2, <1>3 DEF Next, Step, Called

\* The third invariant always holds.
LEMMA AlwaysMap == Spec => []MapInv
<1>1. Init => MapInv
  BY DEF Init, InitLoad, MapInv
<1> QED BY <1>1, MapStays, AlwaysInv, PTL DEF Spec

-----------------------------------------------------------------------------
(***************************************************************************)
(* The calls.  A fourth invariant: the record of a call has its fields,    *)
(* its arguments stay what they were, and each entry point stays on its    *)
(* own path.                                                               *)
(***************************************************************************)
CallFields ==
  {"op", "addr", "im", "all", "name", "type", "idx", "derived", "fortran", "it", "scope", "chk",
   "p", "mods", "tbl", "is_im", "best", "inclass", "walked"}
IsCall == call = [f \in CallFields |-> call[f]]

AroundOps == {"scoped", "block", "lookup"}
Path(op) ==
  CASE op = "scoped" -> {"enter", "ssearch", "outermost", "smallest", "scope", "one", "class",
                         "outer", "list", "done"}
    [] op = "block" -> {"enter", "ssearch", "outermost", "smallest", "scope", "one", "blockwalk",
                        "outerblock", "list", "done"}
    [] op = "lookup" -> {"enter", "ssearch", "outermost", "smallest", "scope", "one", "class",
                         "outer", "list", "file", "fileone", "name", "done"}
    [] op = "modlookup" -> {"enter", "file", "fileone", "name", "done"}
    [] op = "module" -> {"enter", "file", "fileone", "table", "done"}
    [] OTHER -> {"enter", "list", "peel", "addr", "done"}

WalksFor(op) ==
  /\ walk.client \in {"user", "find"}
  /\ walk.ret = IF op = "block" THEN "outerblock" ELSE "outer"

CallOf ==
  /\ IsCall /\ call.addr \in [seg : Nat, off : Nat] /\ pc \in Path(call.op)
  /\ pc = "list" => IF call.op \in AroundOps THEN WalksFor(call.op) ELSE walk.ret = "done"
  /\ call.op \notin AroundOps => call.walked = <<>>
  /\ pc = "enter" => /\ out = <<>> /\ call.walked = <<>> /\ ~call.inclass
                     /\ call.op \in AroundOps => call.im = Global
  /\ Looking => call.name \in Info[img[cur].file].names
  /\ call.op = "modlookup" => ~call.all /\ call.im \in DOMAIN Info[img[cur].file].syms
CallInv == IF pc \in EntryPoints THEN CallOf ELSE out = <<>>

\* What a call was asked does not change.
Asked == /\ IsCall' /\ call'.op = call.op /\ call'.addr = call.addr /\ call'.name = call.name
         /\ call'.type = call.type /\ call'.all = call.all

\* The search for a scope.
LEMMA SearchAsked ==
  ASSUME IsCall, ScopeSearch
  PROVE  Asked /\ call'.im = call.im /\ call'.walked = call.walked /\ call'.inclass = call.inclass
<1>1. CASE SearchSegment
  BY <1>1 DEF SearchSegment, IsCall, CallFields, Asked
<1>2. CASE SearchOutermost
  BY <1>2 DEF SearchOutermost, IsCall, CallFields, Asked
<1>3. CASE SearchSmallest
  <2>1. \/ UNCHANGED call
        \/ \E at, scope : call' = [call EXCEPT !.p = at, !.chk = at + 1, !.scope = scope]
    BY <1>3 DEF SearchSmallest
  <2> QED BY <2>1 DEF IsCall, CallFields, Asked
<1> QED BY <1>1, <1>2, <1>3 DEF ScopeSearch

\* A step that leaves the call alone.
LEMMA SameAsked == IsCall /\ UNCHANGED call => Asked
  BY DEF IsCall, Asked

\* The walks of scopes, of the file and of the tables.
LEMMA WalkAsked ==
  ASSUME IsCall, ScopeWalk \/ TableStep \/ PeelArray \/ CallFails
  PROVE  /\ Asked /\ (pc # "fileone" \/ Looking => call'.im = call.im)
         /\ pc # "scope" => call'.walked = call.walked
<1>1. CASE EnterScope
  BY <1>1 DEF EnterScope, IsCall, CallFields, Asked
<1>2. ASSUME NEW k, NEW filescope, ScopeOneSymbol(k, filescope)
      PROVE  Asked /\ call'.im = call.im /\ call'.walked = call.walked
  <2>1. \E chk : call' = [call EXCEPT !.chk = chk]
    BY <1>2 DEF ScopeOneSymbol
  <2> QED BY <2>1 DEF IsCall, CallFields, Asked
<1>3. CASE ScopeWalkOne
  BY <1>2, <1>3, SameAsked DEF ScopeWalkOne
<1>4. CASE ScopeWalkClass \/ WalkBlock
  BY <1>4, SameAsked DEF ScopeWalkClass, WalkBlock, WalkClass
<1>5. CASE ScopeFindNext
  BY <1>5 DEF ScopeFindNext, IsCall, CallFields, Asked
<1>6. CASE ScopeOuter
  BY <1>6 DEF ScopeOuter, IsCall, CallFields, Asked
<1>7. CASE EnterFile
  BY <1>7 DEF EnterFile, IsCall, CallFields, Asked
<1>8. CASE ScopeWalkFile
  <2>1. ASSUME FileDone
        PROVE  Asked /\ (Looking => call'.im = call.im) /\ call'.walked = call.walked
    <3>1. CASE UNCHANGED call
      BY <3>1, SameAsked
    <3>2. ASSUME NEW im, NEW mods, ~Looking, call' = [call EXCEPT !.im = im, !.mods = mods]
          PROVE  Asked /\ call'.walked = call.walked
      BY <3>2 DEF IsCall, CallFields, Asked
    <3>3. ASSUME NEW tbl, NEW chk, NEW is_im,
                 call' = [call EXCEPT !.tbl = tbl, !.chk = chk, !.is_im = is_im]
          PROVE  Asked /\ call'.im = call.im /\ call'.walked = call.walked
      BY <3>3 DEF IsCall, CallFields, Asked
    <3>4. ASSUME NEW tbl, NEW chk, call' = [call EXCEPT !.tbl = tbl, !.chk = chk]
          PROVE  Asked /\ call'.im = call.im /\ call'.walked = call.walked
      BY <3>4 DEF IsCall, CallFields, Asked
    <3> QED BY <2>1, <3>1, <3>2, <3>3, <3>4 DEF FileDone
  <2> QED BY <1>2, <1>8, <2>1 DEF ScopeWalkFile
<1>9. CASE TableStep
  <2>1. CASE TableSearchForName
    BY <2>1 DEF TableSearchForName, IsCall, CallFields, Asked
  <2>2. CASE TableWalkSym
    BY <2>2 DEF TableWalkSym, IsCall, CallFields, Asked
  <2>3. CASE AddrSym
    <3>1. PICK best \in {TableSearchForAddr(call.tbl, call.addr, call.best.off)} :
            LET h == SymFillIn(call.tbl, best.sym, call.is_im) IN
            call' = [call EXCEPT !.best = [best EXCEPT !.sym = 0], !.tbl = After(@),
                       !.is_im = IF best.sym = 0 THEN @ ELSE h.im]
      BY <2>3 DEF AddrSym
    <3> QED BY <3>1 DEF IsCall, CallFields, Asked
  <2> QED BY <1>9, <2>1, <2>2, <2>3 DEF TableStep
<1>10. CASE PeelArray
  BY <1>10 DEF PeelArray, IsCall, CallFields, Asked
<1>11. CASE CallFails
  BY <1>11, SameAsked DEF CallFails
<1> QED BY <1>1, <1>3, <1>4, <1>5, <1>6, <1>7, <1>8, <1>9, <1>10, <1>11 DEF ScopeWalk

\* Paths are of points of entry points.
LEMMA PathPoints == \A op : Path(op) \subseteq EntryPoints
  BY DEF Path, EntryPoints, Points, LoadSteps

\* Which entry points come to a point,
LEMMA PointsOf ==
  ASSUME pc \in Path(call.op)
  PROVE  /\ pc \in {"ssearch", "outermost", "smallest", "scope", "one"} => call.op \in AroundOps
         /\ pc \in {"class", "outer"} => call.op \in {"scoped", "lookup"}
         /\ pc \in {"blockwalk", "outerblock"} => call.op = "block"
         /\ pc \in {"file", "fileone"} => call.op \in {"lookup", "modlookup", "module"}
         /\ pc = "name" => Looking /\ call.op \in {"lookup", "modlookup"}
         /\ pc = "table" => call.op = "module"
         /\ pc \in {"peel", "addr"} => call.op \notin AroundOps \cup {"modlookup", "module"}
         /\ pc = "list" => call.op \notin {"modlookup", "module"}
BY DEF Path, AroundOps, Looking

\* and which points one comes to.
LEMMA PathOf ==
  /\ \A op : {"enter", "done"} \subseteq Path(op)
  /\ \A op \in AroundOps :
       {"ssearch", "outermost", "smallest", "scope", "one", "list"} \subseteq Path(op)
  /\ \A op \in {"scoped", "lookup"} : {"class", "outer"} \subseteq Path(op)
  /\ {"blockwalk", "outerblock"} \subseteq Path("block")
  /\ \A op \in {"lookup", "modlookup", "module"} : {"file", "fileone"} \subseteq Path(op)
  /\ \A op \in {"lookup", "modlookup"} : "name" \in Path(op)
  /\ "table" \in Path("module")
  /\ \A op : op \notin AroundOps \cup {"modlookup", "module"} =>
               {"list", "peel", "addr"} \subseteq Path(op)
BY DEF Path, AroundOps

\* A step of an entry point on its path, not to a walk of members.
LEMMA CallStep ==
  ASSUME CallInv, pc \in EntryPoints, UNCHANGED <<cur, img>>, Asked,
         pc' \in Path(call.op), pc' # "enter",
         pc' = "list" => IF call.op \in AroundOps THEN WalksFor(call.op)' ELSE walk'.ret = "done",
         call.op \notin AroundOps => call'.walked = call.walked,
         call.op = "modlookup" => call'.im = call.im
  PROVE  CallInv'
<1>1. CallOf
  BY DEF CallInv
<1>2. pc' \in EntryPoints
  BY PathPoints
<1>3. pc' \in Path(call'.op) /\ call'.addr \in [seg : Nat, off : Nat] /\ IsCall'
  BY <1>1 DEF CallOf, Asked
<1>4. pc' = "list" =>
        IF call'.op \in AroundOps THEN WalksFor(call.op)' ELSE walk'.ret = "done"
  BY DEF Asked
<1>5. call'.op \notin AroundOps => call'.walked = <<>>
  BY <1>1 DEF CallOf, Asked
<1>6. Looking' => call'.name \in Info[img'[cur'].file].names
  BY <1>1 DEF CallOf, Asked, Looking
<1>7. call'.op = "modlookup" => ~call'.all /\ call'.im \in DOMAIN Info[img'[cur'].file].syms
  BY <1>1 DEF CallOf, Asked
<1>8. CallOf'
  BY <1>3, <1>4, <1>5, <1>6, <1>7 DEF CallOf
<1> QED BY <1>2, <1>8 DEF CallInv

\* The arguments of a call.
LEMMA NoCallIs ==
  /\ NoCall = [f \in CallFields |-> NoCall[f]]
  /\ NoCall.addr = [seg |-> 0, off |-> 0] /\ NoCall.walked = <<>> /\ NoCall.inclass = FALSE
  /\ NoCall.im = Global /\ NoCall.all = FALSE
BY DEF NoCall, CallFields

\* The calls the debugger makes have their fields.
LEMMA CallsMade ==
  ASSUME NEW ii \in Images, img[ii].file \in Files, NEW c, c \in TypeCalls(ii) \cup SymCalls(ii)
  PROVE  /\ c = [f \in CallFields |-> c[f]] /\ c.addr \in [seg : Nat, off : Nat]
         /\ c.walked = <<>> /\ ~c.inclass
         /\ c.op \in AroundOps => c.im = Global
         /\ c.op \in {"lookup", "modlookup"} => c.name \in File(ii).names
         /\ c.op = "modlookup" => ~c.all /\ c.im \in DOMAIN File(ii).syms
<1> DEFINE Is(x, op, addr) ==
             /\ x = [f \in CallFields |-> x[f]] /\ x.op = op /\ x.addr = addr
             /\ x.walked = <<>> /\ ~x.inclass
           Right(x) ==
             /\ x = [f \in CallFields |-> x[f]] /\ x.addr \in [seg : Nat, off : Nat]
             /\ x.walked = <<>> /\ ~x.inclass
             /\ x.op \in AroundOps => x.im = Global
             /\ x.op \in {"lookup", "modlookup"} => x.name \in File(ii).names
             /\ x.op = "modlookup" => ~x.all /\ x.im \in DOMAIN File(ii).syms
<1> SUFFICES Right(c)
  OBVIOUS
<1>1. File(ii).addrs \subseteq [seg : Nat, off : Nat]
  BY SegmentsAssumption DEF File
<1>2. NoCall.addr \in [seg : Nat, off : Nat]
  BY NoCallIs
<1>3. ASSUME NEW op
      PROVE  Is(Op(op), op, NoCall.addr) /\ Op(op).im = Global /\ ~Op(op).all
  BY NoCallIs DEF Op, CallFields
<1>4. ASSUME NEW op, NEW x, NEW y
      PROVE  /\ Is(OfType(op, x), op, NoCall.addr)
             /\ Is(NestedCall(x, y), "nested", NoCall.addr)
             /\ Is(TagCall(x, y), "tag", NoCall.addr)
             /\ Is(ArrayCall(x, y), "array", NoCall.addr)
             /\ Is(ThunkCall(x, y), "thunk", NoCall.addr)
  <2>1. Is(OfType(op, x), op, NoCall.addr) /\ Is(OfType("nested", x), "nested", NoCall.addr)
          /\ Is(OfType("array", x), "array", NoCall.addr)
          /\ Is(OfType("thunk", x), "thunk", NoCall.addr)
    BY <1>3 DEF OfType, CallFields
  <2>2. Is(Op("tag"), "tag", NoCall.addr)
    BY <1>3
  <2> HIDE DEF Right
  <2>3. Is(NestedCall(x, y), "nested", NoCall.addr)
    BY <2>1 DEF NestedCall, CallFields
  <2>4. Is(ArrayCall(x, y), "array", NoCall.addr)
    BY <2>1 DEF ArrayCall, CallFields
  <2>5. Is(ThunkCall(x, y), "thunk", NoCall.addr)
    BY <2>1 DEF ThunkCall, CallFields
  <2>6. Is(TagCall(x, y), "tag", NoCall.addr)
    BY <2>2 DEF TagCall, CallFields
  <2> QED BY <2>1, <2>3, <2>4, <2>5, <2>6
<1>5. ASSUME NEW op \in {"members", "vtab", "nested", "tag", "array", "thunk"}, NEW x,
             Is(x, op, NoCall.addr)
      PROVE  Right(x)
  BY <1>2, <1>5 DEF AroundOps
<1>6. CASE c \in TypeCalls(ii)
  <2> HIDE DEF Right, Is
  <2>1. \A x, y : /\ \A op \in {"members", "vtab"} : Right(OfType(op, x))
                  /\ Right(NestedCall(x, y)) /\ Right(TagCall(x, y))
                  /\ Right(ArrayCall(x, y)) /\ Right(ThunkCall(x, y))
    BY <1>4, <1>5
  <2> QED BY <1>6, <2>1 DEF TypeCalls
<1>7. ASSUME NEW op, NEW a
      PROVE  Is(At1(op, a), op, a) /\ At1(op, a).im = Global
  BY <1>3 DEF At1, CallFields
<1>8. ASSUME NEW a \in File(ii).addrs, NEW n \in File(ii).names, NEW t
      PROVE  Right(LookupCall(a, n, t))
  <2>1. Is(At1("lookup", a), "lookup", a) /\ At1("lookup", a).im = Global
    BY <1>7
  <2> HIDE DEF Right
  <2>2. Is(LookupCall(a, n, t), "lookup", a)
    BY <2>1 DEF LookupCall, CallFields
  <2>3. LookupCall(a, n, t).im = Global /\ LookupCall(a, n, t).name = n
    BY <2>1 DEF LookupCall, CallFields
  <2> USE DEF Right
  <2> QED BY <1>1, <2>2, <2>3
<1>9. ASSUME NEW x PROVE Right(ModuleCall(x)) /\ Right(AllModulesCall)
  <2>1. Is(Op("module"), "module", NoCall.addr)
    BY <1>3
  <2> HIDE DEF Right
  <2>2. Is(ModuleCall(x), "module", NoCall.addr)
    BY <2>1 DEF ModuleCall, CallFields
  <2>3. Is(AllModulesCall, "module", NoCall.addr)
    BY <2>1 DEF AllModulesCall, CallFields
  <2> USE DEF Right
  <2> QED BY <1>2, <2>2, <2>3 DEF AroundOps
<1>10. ASSUME NEW im \in Modules(ii), NEW n \in File(ii).names
      PROVE  Right(ModLookupCall(im, n))
  <2>1. Is(Op("modlookup"), "modlookup", NoCall.addr) /\ ~Op("modlookup").all
    BY <1>3
  <2> HIDE DEF Right
  <2>2. Is(ModLookupCall(im, n), "modlookup", NoCall.addr)
    BY <2>1 DEF ModLookupCall, CallFields
  <2>3. /\ ModLookupCall(im, n).im = im /\ ModLookupCall(im, n).name = n
        /\ ~ModLookupCall(im, n).all
    BY <2>1 DEF ModLookupCall, CallFields
  <2> USE DEF Right
  <2> QED BY <1>2, <2>2, <2>3 DEF AroundOps, Modules
<1>11. ASSUME NEW op \in {"scoped", "block", "addr"}, NEW a \in File(ii).addrs
       PROVE  Right(At1(op, a))
  BY <1>1, <1>7
<1>12. CASE c \in SymCalls(ii)
  <2> HIDE DEF Right, Is
  <2> QED BY <1>8, <1>9, <1>10, <1>11, <1>12 DEF SymCalls
<1> QED BY <1>6, <1>12

\* A walk of members starts, or fails, for who asked for it.
LEMMA StartsFor ==
  ASSUME NEW client, NEW idx, NEW containing_type, NEW key, NEW ret,
         StartWalk(client, idx, containing_type, key, ret)
  PROVE  \/ pc' = "done" /\ wr' = "FAIL"
         \/ pc' = "list" /\ walk'.client = client /\ walk'.ret = ret
BY DEF StartWalk, NoWalk

\* A walk stays the entry point's, and a result of its own ends it.
LEMMA WalkKeeps ==
  ASSUME Inv, TypeListWalk
  PROVE  /\ pc = "list" /\ UNCHANGED files /\ walk.ret # "list"
         /\ \/ pc' = "list" /\ walk'.ret = walk.ret /\ walk'.client = walk.client
            \/ pc' = walk.ret /\ UNCHANGED wr
            \/ pc' = "done" /\ wr' \in {"STOP", "FAIL", "CONTINUE"}
                 /\ (walk.ret # "done" => wr' # "CONTINUE")
<1>1. pc = "list" /\ UNCHANGED files
  BY DEF TypeListWalk, ListDone, InheritEnd, NextList, SkipVirtual, SkipBase, InheritStart,
         InheritFails, EnterList, Symbol, WalkFails, Walking
<1>2. PICK C : walk \in WalkType(C)
  BY DEF Inv, WalkInv
<1>3. walk.ret # "list"
  BY <1>2 DEF WalkType
<1>4. \/ \E result \in {"STOP", "FAIL", "CONTINUE"} : Return(result)
      \/ UNCHANGED pc /\ walk'.ret = walk.ret /\ walk'.client = walk.client
  <2>1. CASE ListDone
    BY <2>1 DEF ListDone
  <2>2. CASE InheritEnd
    BY <1>2, <2>2 DEF InheritEnd, WalkType
  <2>3. CASE NextList \/ SkipVirtual
    BY <2>3 DEF NextList, SkipVirtual
  <2>4. CASE SkipBase
    <3>1. PICK hit : walk' = [walk EXCEPT !.skipped = @ \/ walk.client = "user",
                               !.found = @ \/ hit, !.adj = IF hit THEN EnterBase(@, list) ELSE @]
      BY <2>4 DEF SkipBase
    <3>2. walk'.ret = walk.ret /\ walk'.client = walk.client
      BY <1>2, <3>1 DEF WalkType
    <3> QED BY <2>4, <3>2 DEF SkipBase
  <2>5. CASE InheritStart \/ InheritFails
    <3>1. walk'.ret = walk.ret /\ walk'.client = walk.client
      BY <1>2, <2>5 DEF InheritStart, InheritFails, WalkType
    <3> QED BY <2>5, <3>1 DEF InheritStart, InheritFails, EnterList
  <2>6. CASE Symbol
    <3>1. CASE WalkSymbol
      BY <1>2, <3>1 DEF WalkSymbol, WalkType
    <3> QED BY <2>6, <3>1 DEF Symbol, SearchSymbol, ThunkSymbol, VTabSymbol, Ignored
  <2>7. CASE WalkFails
    BY <2>7 DEF WalkFails
  <2> QED BY <2>1, <2>2, <2>3, <2>4, <2>5, <2>6, <2>7 DEF TypeListWalk
<1>5. CASE \E result \in {"STOP", "FAIL", "CONTINUE"} : Return(result)
  BY <1>1, <1>3, <1>5 DEF Return
<1> QED BY <1>1, <1>3, <1>4, <1>5

\* Where entry points are.
LEMMA CalledAt ==
  \A x : x \in EntryPoints <=> x \in SymbolPoints \cup {"list"}
BY DEF EntryPoints, SymbolPoints, Points, LoadSteps

\* A call is made.
LEMMA RequestCall == ASSUME Inv, CallInv, Request PROVE CallInv'
<1>1. PICK ii \in Images : Ready(ii) /\ \E c \in TypeCalls(ii) \cup SymCalls(ii) : Enter(ii, c)
  BY DEF Request
<1> PICK c \in TypeCalls(ii) \cup SymCalls(ii) : Enter(ii, c)
  BY <1>1
<1>2. /\ pc = "idle" /\ pc' = "enter" /\ ii \in ImageList /\ cur' = ii /\ call' = c
      /\ UNCHANGED <<img, out>>
  BY <1>1 DEF Enter, Ready
<1>3. img[ii].file \in Files
  BY <1>2 DEF Inv, LoadInv, Handles
<1>4. /\ c = [f \in CallFields |-> c[f]] /\ c.addr \in [seg : Nat, off : Nat]
      /\ c.walked = <<>> /\ ~c.inclass
      /\ c.op \in AroundOps => c.im = Global
      /\ c.op \in {"lookup", "modlookup"} => c.name \in File(ii).names
      /\ c.op = "modlookup" => ~c.all /\ c.im \in DOMAIN File(ii).syms
  BY <1>1, <1>3, CallsMade
<1>5. out = <<>>
  BY <1>2 DEF CallInv, EntryPoints
<1>6. "enter" \in Path(c.op) /\ "enter" \in EntryPoints
  BY PathOf, PathPoints
<1>7. CallOf'
  BY <1>2, <1>4, <1>5, <1>6 DEF CallOf, Looking, IsCall, File
<1> QED BY <1>2, <1>6, <1>7 DEF CallInv

\* The walk of members.
LEMMA WalkCall == ASSUME Inv, CallInv, TypeListWalk, UNCHANGED call PROVE CallInv'
<1>1. /\ pc = "list" /\ UNCHANGED files /\ walk.ret # "list"
      /\ \/ pc' = "list" /\ walk'.ret = walk.ret /\ walk'.client = walk.client
         \/ pc' = walk.ret
         \/ pc' = "done"
  BY WalkKeeps
<1>2. pc \in EntryPoints /\ CallOf
  BY <1>1 DEF CallInv, EntryPoints, Points, LoadSteps
<1>3. PICK C : walk \in WalkType(C)
  BY DEF Inv, WalkInv
<1>4. walk.ret \in {"done", "outer", "outerblock"}
  BY <1>1, <1>3 DEF Inv, WalkInv, WalkType
<1>5. pc \in Path(call.op) /\ (IF call.op \in AroundOps THEN WalksFor(call.op)
                                                       ELSE walk.ret = "done")
  BY <1>1, <1>2 DEF CallOf
<1>6. pc' \in Path(call.op)
  <2>1. CASE pc' = "list"
    BY <1>1, <1>5, <2>1
  <2>2. CASE pc' = "done"
    BY <2>2, PathOf
  <2>3. CASE pc' = walk.ret
    <3>1. CASE call.op \in {"scoped", "lookup"}
      BY <1>5, <2>3, <3>1, PathOf DEF WalksFor, AroundOps
    <3>2. CASE call.op = "block"
      BY <1>5, <2>3, <3>2, PathOf DEF WalksFor, AroundOps
    <3> QED BY <1>5, <2>2, <2>3, <3>1, <3>2 DEF AroundOps
  <2> QED BY <1>1, <2>1, <2>2, <2>3
<1>7. pc' # "enter" /\ UNCHANGED <<cur, img>>
  BY <1>1, <1>4 DEF files
<1>8. pc' = "list" =>
        IF call.op \in AroundOps THEN WalksFor(call.op)' ELSE walk'.ret = "done"
  BY <1>1, <1>5 DEF WalksFor
<1>9. Asked
  BY <1>2, SameAsked DEF CallOf
<1> QED BY <1>2, <1>6, <1>7, <1>8, <1>9, CallStep

\* The entry points for types.
LEMMA TypeDispatch ==
  ASSUME Inv, CallOf,
         WalkMembers \/ SearchNested \/ ThunkAdjust \/ VFuncLocation \/ SearchTag
  PROVE  /\ UNCHANGED <<files, call>> /\ call.op \notin AroundOps \cup {"modlookup", "module"}
         /\ pc' = "done" \/ (pc' = "list" /\ walk'.ret = "done")
<1>1. CASE WalkMembers
  <2>1. CASE Ends("CONTINUE")
    BY <1>1, <2>1 DEF WalkMembers, Ends, Entering, AroundOps
  <2>2. ASSUME NEW idx, NEW vm, StartWalk("user", idx, vm, None, "done")
        PROVE  pc' = "done" \/ (pc' = "list" /\ walk'.ret = "done")
    BY <2>2, StartsFor
  <2> QED BY <1>1, <2>1, <2>2 DEF WalkMembers, Entering, AroundOps
<1>2. CASE SearchNested
  <2>1. CASE Ends("NONE")
    BY <1>2, <2>1 DEF SearchNested, Ends, Entering, AroundOps
  <2>2. ASSUME NEW idx, NEW vm, StartWalk("search", idx, vm, call.name, "done")
        PROVE  pc' = "done" \/ (pc' = "list" /\ walk'.ret = "done")
    BY <2>2, StartsFor
  <2> QED BY <1>2, <2>1, <2>2 DEF SearchNested, Entering, AroundOps
<1>3. CASE ThunkAdjust
  <2>1. CASE Ends("FAIL")
    BY <1>3, <2>1 DEF ThunkAdjust, Ends, Entering, AroundOps
  <2>2. CASE StartWalk("thunk", call.idx, Body(call.idx), call.derived, "done")
    BY <1>3, <2>2, StartsFor DEF ThunkAdjust, Entering, AroundOps
  <2> QED BY <1>3, <2>1, <2>2 DEF ThunkAdjust
<1>4. CASE VFuncLocation
  <2>1. CASE Ends("FAIL")
    BY <1>4, <2>1 DEF VFuncLocation, Ends, Entering, AroundOps
  <2>2. CASE StartWalk("vtab", call.idx, Body(call.idx), None, "done")
    BY <1>4, <2>2, StartsFor DEF VFuncLocation, Entering, AroundOps
  <2> QED BY <1>4, <2>1, <2>2 DEF VFuncLocation
<1>5. CASE SearchTag
  BY <1>5 DEF SearchTag, Ends, Entering, AroundOps, others
<1> QED BY <1>1, <1>2, <1>3, <1>4, <1>5

\* What an entry point does first.
LEMMA DispatchCall == ASSUME ScopesWritten, Inv, CallInv, Dispatch PROVE CallInv'
<1>1. pc = "enter" /\ pc \in EntryPoints /\ CallOf /\ IsCall
  <2>1. pc = "enter"
    BY DEF Dispatch, WalkMembers, SearchNested, ThunkAdjust, VFuncLocation, SearchTag, EnterArray,
           EnterScoped, EnterModule, EnterAddr, Entering
  <2> QED BY <2>1 DEF CallInv, CallOf, EntryPoints, Points, LoadSteps
<1>2. CASE WalkMembers \/ SearchNested \/ ThunkAdjust \/ VFuncLocation \/ SearchTag
  <2>1. /\ UNCHANGED <<files, call>> /\ call.op \notin AroundOps \cup {"modlookup", "module"}
        /\ pc' = "done" \/ (pc' = "list" /\ walk'.ret = "done")
    BY <1>1, <1>2, TypeDispatch
  <2>2. pc' \in Path(call.op)
    BY <2>1, PathOf
  <2> QED BY <1>1, <2>1, <2>2, SameAsked, CallStep DEF files
<1>3. CASE EnterArray \/ EnterAddr
  <2>1. /\ UNCHANGED files /\ call.op \notin AroundOps \cup {"modlookup", "module"}
        /\ pc' \in {"peel", "addr"}
    BY <1>3 DEF EnterArray, EnterAddr, Entering, AroundOps, others
  <2>2. Asked /\ call'.walked = call.walked
    BY <1>1, <1>3 DEF EnterArray, EnterAddr, IsCall, CallFields, Asked
  <2>3. pc' \in Path(call.op)
    BY <2>1, PathOf
  <2> QED BY <1>1, <2>1, <2>2, <2>3, CallStep DEF files
<1>4. CASE EnterScoped
  <2>1. UNCHANGED files /\ call.op \in AroundOps /\ pc' \in {"ssearch", "done", "name"}
        /\ (pc' = "name" => call.op = "lookup")
    BY <1>4 DEF EnterScoped, Ends, AroundOps, others
  <2>2. \/ \E im : call' = [call EXCEPT !.im = im, !.chk = 1]
        \/ call' = [call EXCEPT !.tbl = "StaticSym", !.chk = 1]
        \/ UNCHANGED call
    BY <1>4 DEF EnterScoped
  <2>3. Asked
    BY <1>1, <2>2 DEF IsCall, CallFields, Asked
  <2>4. pc' \in Path(call.op)
    BY <2>1, PathOf
  <2> QED BY <1>1, <2>1, <2>3, <2>4, CallStep DEF files, AroundOps
<1>5. CASE EnterModule
  <2>1. UNCHANGED files /\ call.op \in {"module", "modlookup"} /\ pc' \in {"table", "file"}
    BY <1>5 DEF EnterModule, others
  <2>2. \/ \E im, mods : call' = [call EXCEPT !.im = im, !.mods = mods]
        \/ call' = [call EXCEPT !.tbl = "GlobalSym", !.chk = 1]
    BY <1>5 DEF EnterModule
  <2>3. Asked /\ call'.walked = call.walked
    BY <1>1, <2>2 DEF IsCall, CallFields, Asked
  <2>4. call.op = "modlookup" => pc' = "file" /\ call'.im = call.im
    <3> SUFFICES ASSUME call.op = "modlookup" PROVE pc' = "file" /\ call'.im = call.im
      OBVIOUS
    <3>1. ~call.all /\ call.im \in DOMAIN Info[img[cur].file].syms /\ img[cur].file \in Files
      BY <1>1 DEF CallOf, Inv, LoadInv, Where
    <3>2. call.im # Global
      BY <3>1 DEF ScopesWritten
    <3>3. pc' = "file" /\ call' = [call EXCEPT !.im = Head(<<call.im>>), !.mods = Tail(<<call.im>>)]
      BY <1>5, <3>1, <3>2 DEF EnterModule
    <3> QED BY <1>1, <3>3 DEF IsCall, CallFields
  <2>5. pc' \in Path(call.op)
    BY <2>1, <2>4, PathOf
  <2> QED BY <1>1, <2>1, <2>3, <2>4, <2>5, CallStep DEF files
<1> QED BY <1>2, <1>3, <1>4, <1>5 DEF Dispatch

\* The search for a scope.
LEMMA SearchCall == ASSUME Inv, CallInv, ScopeSearch PROVE CallInv'
<1>1. pc \in {"ssearch", "outermost", "smallest"}
  BY DEF ScopeSearch, SearchSegment, SearchOutermost, SearchSmallest
<1>2. pc \in EntryPoints /\ CallOf /\ IsCall
  BY <1>1 DEF CallInv, CallOf, EntryPoints, Points, LoadSteps
<1>3. Asked /\ call'.im = call.im /\ call'.walked = call.walked
  BY <1>2, SearchAsked
<1>4. call.op \in AroundOps
  BY <1>1, <1>2, PointsOf DEF CallOf
<1>5. /\ UNCHANGED files
      /\ pc' \in {"ssearch", "outermost", "smallest", "done", "scope", "blockwalk", "file"}
      /\ pc' = "scope" => call.op # "block"
      /\ pc' = "blockwalk" => call.op = "block"
      /\ pc' = "file" => call.op = "lookup"
  BY <1>1 DEF ScopeSearch, SearchSegment, SearchOutermost, SearchSmallest, Found, NotFound, Ends,
              others
<1>6. pc' \in Path(call.op)
  BY <1>4, <1>5, PathOf
<1> QED BY <1>2, <1>3, <1>4, <1>5, <1>6, CallStep DEF files

\* The walks of scopes and of tables.
LEMMA WalksCall ==
  ASSUME Inv, CallInv, ScopeWalk \/ TableStep \/ PeelArray \/ CallFails PROVE CallInv'
<1>1. pc \in SymbolPoints
  BY ScopeWalkSteps, TableSteps DEF Plain, Starts
<1>2. pc \in EntryPoints /\ CallOf /\ IsCall /\ pc \in Path(call.op)
  BY <1>1, CalledAt DEF CallInv, CallOf
<1>3. /\ Asked /\ (pc # "fileone" \/ Looking => call'.im = call.im)
      /\ pc # "scope" => call'.walked = call.walked
  BY <1>2, WalkAsked
<1>4. /\ pc \in {"ssearch", "outermost", "smallest", "scope", "one"} => call.op \in AroundOps
      /\ pc \in {"class", "outer"} => call.op \in {"scoped", "lookup"}
      /\ pc \in {"blockwalk", "outerblock"} => call.op = "block"
      /\ pc \in {"file", "fileone"} => call.op \in {"lookup", "modlookup", "module"}
      /\ pc = "name" => Looking /\ call.op \in {"lookup", "modlookup"}
      /\ pc = "table" => call.op = "module"
      /\ pc \in {"peel", "addr"} => call.op \notin AroundOps \cup {"modlookup", "module"}
  BY <1>2, PointsOf
<1>5. /\ call.op = "modlookup" => call'.im = call.im
      /\ call.op \notin AroundOps => call'.walked = call.walked
  BY <1>3, <1>4 DEF Looking
<1>6. ASSUME UNCHANGED files, pc' \in Path(call.op), pc' \notin {"enter", "list"} PROVE CallInv'
  BY <1>2, <1>3, <1>5, <1>6, CallStep DEF files
<1>7. ASSUME UNCHANGED files, pc' = "done" \/ pc' = pc, pc \notin {"enter", "list"}
      PROVE  CallInv'
  BY <1>2, <1>6, <1>7, PathOf
<1>8. ASSUME NEW k, NEW filescope, ScopeOneSymbol(k, filescope), pc \notin {"enter", "list"}
      PROVE  CallInv'
  BY <1>7, <1>8 DEF ScopeOneSymbol, Show, Ends, others, files
<1>9. ASSUME NEW ret \in {"outer", "outerblock"}, WalkClass(ret),
             call.op \in AroundOps, ret = IF call.op = "block" THEN "outerblock" ELSE "outer"
      PROVE  CallInv'
  <2>1. ret \in Path(call.op) /\ "list" \in Path(call.op)
    BY <1>9, PathOf DEF AroundOps
  <2>2. CASE IsMember(call.scope)
    <3>1. PICK client, idx, vm, key :
            client \in {"user", "find"} /\ StartWalk(client, idx, vm, key, ret)
      BY <1>9, <2>2 DEF WalkClass
    <3>2. \/ pc' = "done"
          \/ pc' = "list" /\ walk'.client = client /\ walk'.ret = ret
      BY <3>1, StartsFor
    <3>3. UNCHANGED files
      BY <1>9, <2>2 DEF WalkClass
    <3>4. CASE pc' = "done"
      BY <1>2, <1>6, <3>3, <3>4, PathOf
    <3>5. CASE pc' = "list" /\ walk'.client = client /\ walk'.ret = ret
      <4>1. WalksFor(call.op)'
        BY <1>3, <1>9, <3>1, <3>5 DEF WalksFor, Asked
      <4> QED BY <1>2, <1>3, <1>5, <1>9, <2>1, <3>3, <3>5, <4>1, CallStep DEF files
    <3> QED BY <3>2, <3>4, <3>5
  <2>3. CASE ~IsMember(call.scope)
    BY <1>6, <1>9, <2>1, <2>3 DEF WalkClass, others
  <2> QED BY <2>2, <2>3
<1>10. CASE EnterScope
  <2>1. pc' \in Path(call.op)
    BY <1>4, <1>10, PathOf DEF EnterScope
  <2> QED BY <1>6, <1>10, <2>1 DEF EnterScope, others
<1>11. CASE ScopeWalkOne
  <2>1. CASE ScopeOneSymbol(call.chk, FALSE)
    BY <1>8, <1>11, <2>1 DEF ScopeWalkOne
  <2>2. CASE pc' = IF call.op = "block" THEN "outerblock" ELSE "class"
    <3>1. pc' \in Path(call.op) /\ pc' \notin {"enter", "list"}
      BY <1>4, <1>11, <2>2, PathOf DEF ScopeWalkOne, AroundOps
    <3>2. CASE UNCHANGED files
      BY <1>6, <3>1, <3>2
    <3> QED BY <1>8, <1>11, <3>2 DEF ScopeWalkOne, others
  <2> QED BY <1>11, <2>1, <2>2 DEF ScopeWalkOne
<1>12. CASE ScopeWalkClass
  <2>1. call.op \in {"scoped", "lookup"} /\ "outer" \in Path(call.op)
    BY <1>4, <1>12, PathOf DEF ScopeWalkClass
  <2>2. CASE WalkClass("outer")
    BY <1>9, <2>1, <2>2 DEF AroundOps
  <2>3. CASE ~WalkClass("outer")
    BY <1>6, <1>12, <2>1, <2>3 DEF ScopeWalkClass, others
  <2> QED BY <2>2, <2>3
<1>13. CASE WalkBlock
  <2>1. call.op = "block" /\ "scope" \in Path(call.op)
    BY <1>4, <1>13, PathOf DEF WalkBlock, AroundOps
  <2>2. CASE WalkClass("outerblock")
    BY <1>9, <2>1, <2>2 DEF AroundOps
  <2>3. CASE ~WalkClass("outerblock")
    BY <1>6, <1>13, <2>1, <2>3 DEF WalkBlock, others
  <2> QED BY <2>2, <2>3
<1>14. CASE ScopeFindNext
  <2>1. call.op \in {"scoped", "lookup"} /\ pc' \in {"scope", "done", "file"} /\ UNCHANGED files
        /\ (pc' = "file" => call.op # "scoped")
    BY <1>4, <1>14 DEF ScopeFindNext, Ends, others
  <2>2. pc' \in Path(call.op)
    BY <2>1, PathOf DEF AroundOps
  <2> QED BY <1>6, <2>1, <2>2
<1>15. CASE ScopeOuter
  <2>1. call.op = "block" /\ pc' \in {"blockwalk", "done"} /\ UNCHANGED files
    BY <1>4, <1>15 DEF ScopeOuter, Ends, others
  <2>2. pc' \in Path(call.op)
    BY <2>1, PathOf
  <2> QED BY <1>6, <2>1, <2>2
<1>16. CASE EnterFile
  <2>1. pc' = "fileone" /\ UNCHANGED files /\ pc' \in Path(call.op)
    BY <1>4, <1>16, PathOf DEF EnterFile, others
  <2> QED BY <1>6, <2>1
<1>17. CASE ScopeWalkFile
  <2>1. CASE ScopeOneSymbol(call.chk, TRUE)
    BY <1>8, <1>17, <2>1 DEF ScopeWalkFile
  <2>2. CASE FileDone /\ UNCHANGED <<others, out>>
    <3>1. UNCHANGED files /\ pc' \in {"done", "name", "file", "table"}
          /\ (pc' = "name" => Looking) /\ (pc' = "table" => ~Looking)
      BY <2>2 DEF FileDone, Ends, others
    <3>2. call.op \in {"lookup", "modlookup", "module"}
      BY <1>4, <1>17 DEF ScopeWalkFile
    <3>3. pc' \in Path(call.op)
      BY <3>1, <3>2, PathOf DEF Looking
    <3> QED BY <1>6, <3>1, <3>3
  <2> QED BY <1>17, <2>1, <2>2 DEF ScopeWalkFile
<1>18. CASE TableStep
  <2>1. UNCHANGED files /\ (pc' = "done" \/ pc' = pc) /\ pc \notin {"enter", "list"}
    <3>1. CASE TableSearchForName
      BY <3>1 DEF TableSearchForName, Ends, others
    <3>2. CASE TableWalkSym
      BY <3>2 DEF TableWalkSym, Show, Ends, others
    <3>3. CASE AddrSym
      BY <3>3 DEF AddrSym, Ends, others
    <3> QED BY <1>18, <3>1, <3>2, <3>3 DEF TableStep
  <2> QED BY <1>7, <2>1
<1>19. CASE PeelArray
  BY <1>7, <1>19 DEF PeelArray, Ends, others
<1>20. CASE CallFails
  BY <1>7, <1>20 DEF CallFails, Ends, others
<1> QED BY <1>10, <1>11, <1>12, <1>13, <1>14, <1>15, <1>16, <1>17, <1>18, <1>19, <1>20
        DEF ScopeWalk

\* Every step keeps the fourth invariant.
LEMMA CallStays == ASSUME ScopesWritten, Inv, CallInv, [Next]_vars PROVE CallInv'
<1>1. CASE UNCHANGED vars
  BY <1>1 DEF vars, CallInv, CallOf, IsCall, WalksFor, Looking
<1>2. CASE Load \/ (LoadInfo /\ UNCHANGED locals)
  <2>1. pc \in LoadSteps \cup {"idle"} /\ pc' \in LoadSteps \cup {"idle"} /\ UNCHANGED out
    BY <1>2 DEF Load, LoadInfo, FindCV, MapInfo, UnloadInfo, ListImage, LoadHeader, AllocBlock,
                ReadBlock, LoadMapping, LoadTypes, SetMADType, LoadFails, LoadSteps, locals
  <2> QED BY <2>1 DEF CallInv, EntryPoints
<1>3. CASE Request
  BY <1>3, RequestCall
<1>4. CASE TypeListWalk /\ UNCHANGED call
  BY <1>4, WalkCall
<1>5. CASE Finish
  BY <1>5 DEF Finish, CallInv, EntryPoints
<1> QED BY <1>1, <1>2, <1>3, <1>4, <1>5, DispatchCall, SearchCall, WalksCall DEF Next, Step

\* The fourth invariant always holds.
LEMMA AlwaysCall == ASSUME ScopesWritten PROVE Spec => []CallInv
<1>1. Init => CallInv
  BY DEF Init, InitLoad, InitSymbols, InitWalk, CallInv, EntryPoints
<1> QED BY <1>1, CallStays, AlwaysInv, PTL DEF Spec

-----------------------------------------------------------------------------
(***************************************************************************)
(* Where the scopes are.                                                   *)
(***************************************************************************)
Here == Syms(call.im)
InSegment == \A k \in Opens(Here) : Start(k).seg = call.addr.seg

\* The module of a call, and the image's segments, are as written and mapped.
LEMMA HereWritten ==
  ASSUME ScopesWritten, Inv, MapInv, pc \in EntryPoints
  PROVE  /\ IsModule(Here) /\ (call.im = Global => Here = <<>>)
         /\ \A k \in Opens(Here) : img[cur].mapping[Here[k].seg].offset \in Nat
<1>1. cur \in ImageList /\ img[cur].file \in Files /\ pc \notin Unmapped
  BY DEF Inv, LoadInv, Where, EntryPoints, Unmapped, LoadSteps
<1>2. \A k \in DOMAIN Info[img[cur].file].segs : img[cur].mapping[k].offset \in Nat
  <2>1. PICK ii : ii = cur
    OBVIOUS
  <2>2. MapOf(ii)
    BY <1>1, <2>1 DEF MapInv
  <2> QED BY <1>1, <2>1, <2>2 DEF MapOf
<1> DEFINE syms == Info[img[cur].file].syms
<1>3. /\ Global \notin DOMAIN syms
      /\ \A im \in DOMAIN syms :
           /\ Len(syms[im]) \in Nat /\ DOMAIN syms[im] = 1..Len(syms[im])
           /\ \A k \in Opens(syms[im]) : syms[im][k].seg \in DOMAIN Info[img[cur].file].segs
           /\ ScopesNest(syms[im]) /\ ScopesLinked(syms[im]) /\ BlocksLast(syms[im])
  BY <1>1 DEF ScopesWritten
<1>4. CASE call.im \in DOMAIN syms
  <2>1. Here = syms[call.im] /\ call.im # Global
    BY <1>3, <1>4 DEF Here, Syms
  <2>2. IsModule(Here)
    BY <1>3, <1>4, <2>1 DEF IsModule
  <2> QED BY <1>2, <1>3, <1>4, <2>1, <2>2
<1>5. CASE call.im \notin DOMAIN syms
  <2>1. Here = <<>>
    BY <1>5 DEF Here, Syms
  <2>2. Opens(Here) = {}
    BY <2>1 DEF Opens
  <2> QED BY <2>1, <2>2, NoSymbols
<1> QED BY <1>4, <1>5

\* What opens a scope.
LEMMA ScopesAre == \A k : IsScope(k) <=> k \in Opens(Here)
  BY DEF IsScope, Opens, Here

\* The scopes around the address are one in the other; the comparisons of the
\* code are those of the records.
LEMMA ScopesPlaced ==
  ASSUME ScopesWritten, Inv, MapInv, pc \in EntryPoints, call.addr \in [seg : Nat, off : Nat]
  PROVE  /\ IsModule(Here) /\ Chained(Here, Covering) /\ Covering \subseteq Opens(Here)
         /\ InSegment => \A k \in Opens(Here) : Covers(k, call.addr) <=> k \in Covering
         /\ Covering # {} => InSegment
         /\ \A j, k \in Opens(Here) :
              /\ Start(j).seg = Start(k).seg
              /\ Within(j, k) <=> /\ Here[k].off <= Here[j].off
                                  /\ Here[j].off + Here[j].len <= Here[k].off + Here[k].len
<1>1. /\ IsModule(Here)
      /\ \A k \in Opens(Here) : img[cur].mapping[Here[k].seg].offset \in Nat
  BY HereWritten
<1>2. \A j, k \in Opens(Here) : Here[j].seg = Here[k].seg
  BY <1>1 DEF IsModule, ScopesNest
<1>3. CASE Opens(Here) = {}
  <2>1. Covering = {}
    BY <1>3, ScopesAre DEF Covering
  <2> QED BY <1>1, <1>3, <2>1 DEF Chained
<1>4. CASE Opens(Here) # {}
  <2>1. PICK o : o \in Opens(Here)
    BY <1>4
  <2>2. PICK g : g = Here[o].seg
    OBVIOUS
  <2>3. PICK m : m = img[cur].mapping[g].offset
    OBVIOUS
  <2>4. PICK fr \in BOOLEAN : fr = (img[cur].mapping[g].frame = call.addr.seg)
    OBVIOUS
  <2>5. PICK a : a = call.addr.off - m
    OBVIOUS
  <2>6. m \in Nat /\ a \in Int /\ call.addr.off \in Nat /\ call.addr.off = a + m
    BY <1>1, <2>1, <2>2, <2>3, <2>5
  <2>7. ASSUME NEW k \in Opens(Here)
        PROVE  /\ Start(k).seg = img[cur].mapping[g].frame /\ Start(k).off = m + Here[k].off
               /\ Length(k) = Here[k].len /\ Here[k].off \in Nat /\ Here[k].len \in Nat
               /\ (Start(k).seg = call.addr.seg) = fr
    <3>1. Here[k].seg = g
      BY <1>2, <2>1, <2>2
    <3>2. Start(k) = [seg |-> img[cur].mapping[g].frame, off |-> m + Here[k].off]
      BY <2>3, <3>1 DEF Start, Location, MapLogical, Here
    <3>3. Start(k).seg = img[cur].mapping[g].frame /\ Start(k).off = m + Here[k].off
      BY <3>2
    <3>4. Here[k].off \in Nat /\ Here[k].len \in Nat
      BY <1>1, OpenerEnds
    <3> QED BY <2>4, <3>3, <3>4 DEF Length, Here
  <2>8. ASSUME NEW k \in Opens(Here)
        PROVE  (k \in Covering <=> fr /\ Has(Here, k, a))
               /\ (Covers(k, call.addr) <=> Has(Here, k, a))
    <3>1. k \in DOMAIN Here /\ IsScope(k)
      BY ScopesAre DEF Opens
    <3>2. k \in Covering <=> fr /\ call.addr.off - Start(k).off \in 0..(Length(k) - 1)
      BY <2>7, <3>1 DEF Covering, Here
    <3>3. call.addr.off - Start(k).off = a - Here[k].off
      BY <2>6, <2>7
    <3>4. a - Here[k].off \in 0..(Here[k].len - 1) <=> Has(Here, k, a)
      BY <2>6, <2>7 DEF Has
    <3>5. Covers(k, call.addr) <=> Has(Here, k, a)
      BY <2>6, <2>7 DEF Covers, Has
    <3> QED BY <2>7, <3>2, <3>3, <3>4, <3>5
  <2>9. Covering \subseteq Opens(Here)
    BY ScopesAre DEF Covering
  <2>10. Covering = {k \in Opens(Here) : fr /\ Has(Here, k, a)}
    BY <2>8, <2>9
  <2>11. Chained(Here, Covering)
    BY <1>1, <2>6, <2>10, HasChained
  <2>12. InSegment => fr
    BY <2>1, <2>7 DEF InSegment
  <2>13. fr => InSegment
    BY <2>7 DEF InSegment
  <2>14. ASSUME NEW j \in Opens(Here), NEW k \in Opens(Here)
         PROVE  Within(j, k) <=> /\ Here[k].off <= Here[j].off
                                 /\ Here[j].off + Here[j].len <= Here[k].off + Here[k].len
    BY <2>6, <2>7 DEF Within
  <2> QED BY <1>1, <2>7, <2>8, <2>9, <2>11, <2>12, <2>13, <2>14
<1> QED BY <1>3, <1>4

\* The symbols declared in a scope, by records.
LEMMA DeclaredAre ==
  ASSUME NEW b \in Opens(Here) \cup {0} PROVE Declared(b) = Decl(Here, b)
BY ScopesAre DEF Declared, Decl, Inside, Here, Opens, IsScope

\* An S_SSEARCH of the address's segment leads to its scopes.
LEMMA SearchRecord ==
  ASSUME ScopesWritten, Inv, MapInv, pc \in EntryPoints, call.addr \in [seg : Nat, off : Nat],
         NEW k \in DOMAIN Here, Here[k].code = "SSEARCH"
  PROVE  /\ Here[k].sym_off \in Outermost(Here) /\ \A j \in Outermost(Here) : Here[k].sym_off <= j
         /\ DCSameAddrSpace(MapLogical(cur, [seg |-> Here[k].seg, off |-> 0]), call.addr)
              <=> InSegment
<1>1. IsModule(Here)
  BY HereWritten
<1>2. /\ Here[k].sym_off \in Outermost(Here) /\ Here[k].seg = Here[Here[k].sym_off].seg
      /\ \A j \in Outermost(Here) : Here[k].sym_off <= j
  BY <1>1 DEF IsModule, ScopesLinked
<1>3. PICK o \in Opens(Here) : o = Here[k].sym_off
  BY <1>2 DEF Outermost
<1>4. MapLogical(cur, [seg |-> Here[k].seg, off |-> 0]).seg = Start(o).seg
  BY <1>2, <1>3 DEF MapLogical, Start, Location, Here
<1>5. \A j \in Opens(Here) : Start(j).seg = Start(o).seg
  BY ScopesPlaced, <1>3
<1> QED BY <1>2, <1>3, <1>4, <1>5 DEF DCSameAddrSpace, InSegment

\* They change with the call only.
LEMMA HereStays ==
  ASSUME UNCHANGED <<img, cur>>, call'.im = call.im
  PROVE  Here' = Here
BY DEF Here, Syms

\* Nor do the addresses.
LEMMA PlacesStay ==
  ASSUME UNCHANGED <<img, cur>>, call'.im = call.im, call'.addr = call.addr
  PROVE  Here' = Here /\ Covering' = Covering /\ InSegment' = InSegment
BY DEF Here, Syms, Covering, IsScope, Start, Location, MapLogical, Length, InSegment, Opens

-----------------------------------------------------------------------------
(***************************************************************************)
(* A fifth invariant: where the search and the walks of the scopes are,    *)
(* and what they have given.                                               *)
(***************************************************************************)
Hits == {k \in DOMAIN Here : Looking => Matches(Here[k])}
InScopes == UNION {Decl(Here, t) : t \in Covering}
Giving(c) == Gives(Here, Covering, Hits, out, call.scope, c)
Through == call.scope \in Covering /\ call.walked # <<>> /\ Giving(Len(Here) + 1)

SearchAt ==
  /\ pc \in {"ssearch", "outermost", "smallest"} =>
       out = <<>> /\ call.walked = <<>> /\ ~call.inclass
  /\ pc = "ssearch" =>
       /\ call.chk \in Nat \ {0}
       /\ InSegment => \A k \in DOMAIN Here : Here[k].code = "SSEARCH" => k >= call.chk
  /\ pc = "outermost" =>
       InSegment /\ call.chk \in Outermost(Here) /\ \A k \in Covering : call.chk <= k
  /\ pc = "smallest" => InSegment /\ Inner(Here, Covering, call.scope, call.p, call.chk)

WalkAt ==
  /\ pc = "scope" \/ (pc = "blockwalk" /\ ~call.inclass) =>
       /\ call.scope \in Covering /\ Giving(call.scope + 1)
       /\ call.walked = <<>> => \A k \in Covering : k <= call.scope
  /\ pc = "one" =>
       /\ call.scope \in Covering /\ call.walked # <<>>
       /\ call.chk \in (call.scope + 1)..Here[call.scope].end /\ Level(Here, call.scope, call.chk)
       /\ Giving(call.chk)
  /\ pc \in {"class", "outer", "outerblock", "list"} \/ (pc = "blockwalk" /\ call.inclass) => Through

WalkedAll ==
  pc = "done" /\ call.op \in {"scoped", "block"} =>
    /\ \E S : out \in Seq(S)
    /\ Ordered(Here, Covering, out) /\ Closed(Here, Covering, out)
    /\ wr = "CONTINUE" => InScopes \subseteq RecordsOf(out)

ScopeAt == SearchAt /\ WalkAt /\ WalkedAll /\ call.walked \in Seq(Nat) /\ SmallestScope

\* The same for a lookup that found nothing in the scopes.
Near == IF call.op = "lookup" THEN InScopes \cap Hits ELSE {}
FileOnes == Decl(Here, 0) \cap Hits

Hashed(tbl, c) == Table(tbl).chain[c].hash = Hash[call.name]
EntryOf(tbl, c) == SymFillIn(tbl, Table(tbl).chain[c].sym, 0)
NamesTo(tbl, n) ==
  {Anyones(EntryOf(tbl, c)) :
     c \in {e \in DOMAIN Table(tbl).chain :
              e < n /\ Hashed(tbl, e) /\ Rec(EntryOf(tbl, e)).name = call.name}}
Given == {Anyones(out[i]) : i \in DOMAIN out}
NoneBefore(tbl) ==
  /\ tbl # "StaticSym" => NamedIn("StaticSym") = {}
  /\ tbl = "GlobalPub" => NamedIn("GlobalSym") = {}

Answer ==
  IF Near # {} \/ OwnOf(out) # DOMAIN out
    THEN wr = "EXACT" /\ RecordsOf(out) = Near /\ Ordered(Here, Covering, out)
  ELSE IF FileOnes # {}
    THEN wr = "EXACT" /\ RecordsOf(out) = FileOnes /\ Ordered(Here, {}, out)
  ELSE (wr = "NONE" <=> FirstNamed = {}) /\ Given = {Anyones(h) : h \in FirstNamed}

FileAt ==
  /\ pc = "file" => out = <<>> /\ Near = {}
  /\ pc = "fileone" =>
       /\ Near = {} /\ OwnOf(out) = DOMAIN out
       /\ call.chk \in 1..(Len(Here) + 1) /\ Level(Here, 0, call.chk)
       /\ Gives(Here, {}, Hits, out, 0, call.chk)
  /\ pc = "name" =>
       /\ Near = {} /\ FileOnes = {} /\ OwnOf(out) = DOMAIN out /\ \E S : out \in Seq(S)
       /\ call.tbl \in Tables /\ call.chk \in Nat \ {0} /\ NoneBefore(call.tbl)
       /\ Given = NamesTo(call.tbl, call.chk)
  /\ pc = "done" /\ wr \in {"EXACT", "NONE"} => Answer

ScopeInv ==
  IF pc \in EntryPoints THEN (call.op \in AroundOps => ScopeAt) /\ (Looking => FileAt)
                        ELSE call = NoCall

\* What they relate to stays while the call asks the same of the same module.
LEMMA ViewStays ==
  ASSUME UNCHANGED <<img, cur>>, Asked, call'.im = call.im
  PROVE  /\ Here' = Here /\ Covering' = Covering /\ InSegment' = InSegment
         /\ Hits' = Hits /\ InScopes' = InScopes /\ Near' = Near /\ FileOnes' = FileOnes
         /\ Looking' = Looking
<1>1. Here' = Here /\ Covering' = Covering /\ InSegment' = InSegment
  BY PlacesStay DEF Asked
<1>2. /\ call'.op = call.op /\ call'.name = call.name /\ call'.type = call.type
  BY DEF Asked
<1>3. Looking' = Looking
  BY <1>2 DEF Looking
<1>4. Hits' = Hits
  BY <1>1, <1>2, <1>3 DEF Hits, Matches
<1>5. InScopes' = InScopes
  BY <1>1 DEF InScopes
<1> QED BY <1>1, <1>2, <1>3, <1>4, <1>5 DEF Near, FileOnes

\* The tables, too.
LEMMA TablesStay ==
  ASSUME UNCHANGED <<img, cur>>, call'.name = call.name
  PROVE  /\ \A tbl, n : NamesTo(tbl, n)' = NamesTo(tbl, n)
         /\ \A tbl : NamedIn(tbl)' = NamedIn(tbl) /\ NoneBefore(tbl)' = NoneBefore(tbl)
         /\ FirstNamed' = FirstNamed
<1>1. \A tbl : Table(tbl)' = Table(tbl)
  BY DEF Table
<1>2. \A h : Rec(h)' = Rec(h)
  BY <1>1 DEF Rec, Syms
<1>3. \A tbl, k, im : SymFillIn(tbl, k, im)' = SymFillIn(tbl, k, im)
  BY <1>1 DEF SymFillIn
<1>4. \A tbl : NamedIn(tbl)' = NamedIn(tbl)
  BY <1>1, <1>2, <1>3 DEF NamedIn, InTable
<1>5. \A tbl, n : NamesTo(tbl, n)' = NamesTo(tbl, n)
  BY <1>1, <1>2, <1>3 DEF NamesTo, EntryOf, Hashed
<1>6. \A tbl : NoneBefore(tbl)' = NoneBefore(tbl)
  BY <1>4 DEF NoneBefore
<1> QED BY <1>4, <1>5, <1>6 DEF FirstNamed

\* No scopes, no symbols.
LEMMA NowhereEmpty ==
  ASSUME ScopesWritten, Inv, MapInv, pc \in EntryPoints, call.im = Global
  PROVE  Here = <<>> /\ Covering = {} /\ InScopes = {} /\ Near = {} /\ FileOnes = {}
<1>1. Here = <<>>
  BY HereWritten
<1>2. Covering = {}
  BY <1>1 DEF Covering, Here
<1>3. InScopes = {} /\ Near = {}
  BY <1>2 DEF InScopes, Near
<1>4. FileOnes = {}
  BY <1>1 DEF FileOnes, Decl
<1> QED BY <1>1, <1>2, <1>3, <1>4

\* A step of an entry point that has nothing to do with scopes or names.
LEMMA OtherCalls ==
  ASSUME pc' \in EntryPoints, Asked, call.op \notin AroundOps \cup {"modlookup"}
  PROVE  ScopeInv'
BY DEF ScopeInv, Asked, Looking, AroundOps

\* Every module is as written.
LEMMA SymsWritten ==
  ASSUME ScopesWritten, Inv, pc \in EntryPoints, NEW im
  PROVE  IsModule(Syms(im))
<1>1. img[cur].file \in Files
  BY DEF Inv, LoadInv, Where, EntryPoints
<1> DEFINE syms == Info[img[cur].file].syms
<1>2. CASE im \in DOMAIN syms
  <2>1. /\ Len(syms[im]) \in Nat /\ DOMAIN syms[im] = 1..Len(syms[im])
        /\ ScopesNest(syms[im]) /\ ScopesLinked(syms[im]) /\ BlocksLast(syms[im])
    BY <1>1, <1>2 DEF ScopesWritten
  <2>2. Syms(im) = syms[im]
    BY <1>2 DEF Syms
  <2> QED BY <2>1, <2>2 DEF IsModule
<1>3. CASE im \notin DOMAIN syms
  BY <1>3, NoSymbols DEF Syms
<1> QED BY <1>2, <1>3

\* The walk has not begun.
LEMMA NothingWalked ==
  ASSUME call.walked = <<>>
  PROVE  call.walked \in Seq(Nat) /\ SmallestScope
BY DEF SmallestScope

\* And does not begin.
LEMMA NothingWalkedNext ==
  ASSUME call'.walked = <<>>
  PROVE  call'.walked \in Seq(Nat) /\ SmallestScope'
BY DEF SmallestScope

\* An entry point is in its steps until it is done.
LEMMA StaysCalled ==
  ASSUME Inv, Dispatch \/ ScopeSearch \/ ScopeWalk \/ TableStep \/ PeelArray \/ CallFails
  PROVE  pc \in EntryPoints /\ pc' \in EntryPoints /\ UNCHANGED files
<1>1. Plain \/ Starts
  BY DispatchSteps, ScopeSearchSteps, ScopeWalkSteps, TableSteps
<1>2. CASE Plain
  BY <1>2, CalledAt DEF Plain
<1>3. CASE Starts
  <2>1. pc' \in {"done", "list"}
    BY <1>3 DEF Starts, StartWalk
  <2>2. UNCHANGED files /\ pc \in SymbolPoints
    BY <1>3 DEF Starts
  <2> QED BY <2>1, <2>2, CalledAt DEF SymbolPoints
<1> QED BY <1>1, <1>2, <1>3

\* A table's chains are sequences.
LEMMA ChainIs ==
  ASSUME ChainsWritten, Inv, pc \in EntryPoints, NEW tbl \in Tables
  PROVE  /\ Len(Table(tbl).chain) \in Nat
         /\ DOMAIN Table(tbl).chain = 1..Len(Table(tbl).chain)
<1>1. img[cur].file \in Files
  BY DEF Inv, LoadInv, Where, EntryPoints
<1> QED BY <1>1 DEF ChainsWritten, Table

\* A table's entries before the first.
LEMMA NamesToFirst ==
  ASSUME ChainsWritten, Inv, pc \in EntryPoints, NEW tbl \in Tables
  PROVE  NamesTo(tbl, 1) = {}
BY ChainIs DEF NamesTo

\* What an entry point does first.
LEMMA DispatchScopes ==
  ASSUME ScopesWritten, ChainsWritten, Inv, MapInv, CallInv, ScopeInv, Dispatch
  PROVE  ScopeInv'
<1>1. pc = "enter" /\ pc \in EntryPoints /\ CallOf /\ IsCall
  <2>1. pc = "enter"
    BY DEF Dispatch, WalkMembers, SearchNested, ThunkAdjust, VFuncLocation, SearchTag, EnterArray,
           EnterScoped, EnterModule, EnterAddr, Entering
  <2> QED BY <2>1 DEF CallInv, CallOf, EntryPoints, Points, LoadSteps
<1>2. /\ out = <<>> /\ call.walked = <<>> /\ ~call.inclass
      /\ call.op \in AroundOps => call.im = Global
      /\ pc' \in EntryPoints
  BY <1>1, StaysCalled DEF CallOf
<1>3. CASE WalkMembers \/ SearchNested \/ ThunkAdjust \/ VFuncLocation \/ SearchTag
  <2>1. /\ UNCHANGED call /\ call.op \notin AroundOps \cup {"modlookup", "module"}
        /\ pc' \in {"done", "list"}
    BY <1>1, <1>3, TypeDispatch
  <2>2. pc' \in EntryPoints
    BY <2>1, CalledAt DEF SymbolPoints
  <2> QED BY <1>1, <2>1, <2>2, SameAsked, OtherCalls
<1>4. CASE EnterArray \/ EnterAddr
  <2>1. call.op \notin AroundOps \cup {"modlookup"} /\ pc' \in {"peel", "addr"}
    BY <1>4 DEF EnterArray, EnterAddr, Entering, AroundOps
  <2>2. Asked
    BY <1>1, <1>4 DEF EnterArray, EnterAddr, IsCall, CallFields, Asked
  <2>3. pc' \in EntryPoints
    BY <2>1, CalledAt DEF SymbolPoints
  <2> QED BY <2>1, <2>2, <2>3, OtherCalls
<1>5. CASE EnterScoped
  <2>1. /\ UNCHANGED <<files, out>> /\ call.op \in AroundOps
        /\ \/ pc' = "ssearch" /\ call'.chk = 1
           \/ pc' = "done" /\ call.op # "lookup" /\ UNCHANGED call /\ wr' = "CONTINUE"
           \/ /\ pc' = "name" /\ call.op = "lookup" /\ call'.im = call.im
              /\ call'.tbl = "StaticSym" /\ call'.chk = 1
    BY <1>1, <1>5 DEF EnterScoped, Ends, AroundOps, others, IsCall, CallFields
  <2>2. \/ \E im : call' = [call EXCEPT !.im = im, !.chk = 1]
        \/ call' = [call EXCEPT !.tbl = "StaticSym", !.chk = 1]
        \/ UNCHANGED call
    BY <1>5 DEF EnterScoped
  <2>3. Asked /\ call'.walked = <<>> /\ ~call'.inclass
    BY <1>1, <1>2, <2>2 DEF IsCall, CallFields, Asked
  <2>4. call'.walked \in Seq(Nat) /\ SmallestScope'
    BY <2>3, NothingWalkedNext
  <2>5. UNCHANGED <<img, cur>> /\ out' = <<>> /\ call'.op = call.op
    BY <1>2, <2>1, <2>3 DEF files, Asked
  <2>6. CASE pc' = "ssearch" /\ call'.chk = 1
    <3>1. Here' = Syms(call'.im)
      BY <2>5 DEF Here, Syms
    <3>2. IsModule(Here')
      BY <1>1, <3>1, SymsWritten
    <3>3. \A k \in DOMAIN Here' : k >= 1
      BY <3>2 DEF IsModule
    <3>4. ScopeAt'
      BY <2>3, <2>4, <2>5, <2>6, <3>3 DEF ScopeAt, SearchAt, WalkAt, WalkedAll
    <3> QED BY <1>2, <2>6, <3>4 DEF ScopeInv, FileAt
  <2>7. CASE pc' = "done" /\ call.op # "lookup" /\ UNCHANGED call /\ wr' = "CONTINUE"
    <3>1. call.im = Global
      BY <1>2, <2>1
    <3>2. InScopes = {} /\ Here' = Here /\ Covering' = Covering /\ InScopes' = InScopes
      BY <1>1, <2>3, <2>5, <2>7, <3>1, NowhereEmpty, ViewStays
    <3>3. WalkedAll'
      BY <2>5, <3>2, NothingGiven DEF WalkedAll
    <3>4. ScopeAt'
      BY <2>4, <2>7, <3>3 DEF ScopeAt, SearchAt, WalkAt
    <3>5. ~Looking'
      BY <2>1, <2>5, <2>7 DEF Looking, AroundOps
    <3> QED BY <1>2, <3>4, <3>5 DEF ScopeInv
  <2>8. CASE /\ pc' = "name" /\ call.op = "lookup" /\ call'.im = call.im
             /\ call'.tbl = "StaticSym" /\ call'.chk = 1
    <3>1. call.im = Global
      BY <1>2, <2>1
    <3>2. Near = {} /\ FileOnes = {} /\ Near' = Near /\ FileOnes' = FileOnes
      BY <1>1, <2>3, <2>5, <2>8, <3>1, NowhereEmpty, ViewStays
    <3>3. ScopeAt'
      BY <2>4, <2>8 DEF ScopeAt, SearchAt, WalkAt, WalkedAll
    <3>4. OwnOf(out') = DOMAIN out' /\ out' \in Seq({}) /\ Given' = {}
      BY <2>5, NothingGiven DEF Given
    <3>5. NamesTo("StaticSym", 1) = {}
      BY <1>1, NamesToFirst DEF Tables
    <3>6. NamesTo("StaticSym", 1)' = {} /\ NoneBefore("StaticSym")'
      BY <3>5, <2>3, <2>5, TablesStay DEF NoneBefore, Asked
    <3>7. FileAt'
      BY <2>8, <3>2, <3>4, <3>6 DEF FileAt, Tables
    <3> QED BY <1>2, <3>3, <3>7 DEF ScopeInv
  <2> QED BY <2>1, <2>6, <2>7, <2>8
<1>6. CASE EnterModule
  <2>1. UNCHANGED <<files, out>> /\ call.op \in {"module", "modlookup"} /\ pc' \in {"table", "file"}
    BY <1>6 DEF EnterModule, others
  <2>2. \/ \E im, mods : call' = [call EXCEPT !.im = im, !.mods = mods]
        \/ call' = [call EXCEPT !.tbl = "GlobalSym", !.chk = 1]
    BY <1>6 DEF EnterModule
  <2>3. Asked
    BY <1>1, <2>2 DEF IsCall, CallFields, Asked
  <2>4. call'.op \notin AroundOps /\ Near' = {} /\ out' = <<>>
    BY <1>2, <2>1, <2>3 DEF Near, Asked, AroundOps
  <2> QED BY <1>2, <2>1, <2>4 DEF ScopeInv, FileAt
<1> QED BY <1>3, <1>4, <1>5, <1>6 DEF Dispatch

\* Nothing was given, and no scope is around the address.
LEMMA NoScopes ==
  ASSUME Covering = {}
  PROVE  InScopes = {} /\ Near = {}
BY DEF InScopes, Near

\* The search ends without a scope.
LEMMA SearchFails ==
  ASSUME call.op \in AroundOps, Covering = {}, out = <<>>, call.walked = <<>>,
         UNCHANGED <<files, call, out>>, Asked, NotFound, pc' \in EntryPoints
  PROVE  ScopeInv'
<1>1. /\ InScopes = {} /\ Near = {} /\ Here' = Here /\ Covering' = Covering
      /\ InScopes' = InScopes /\ Near' = Near
  BY NoScopes, ViewStays DEF files
<1>2. /\ \/ pc' = "file" /\ call.op = "lookup"
         \/ pc' = "done" /\ call.op # "lookup" /\ wr' = "CONTINUE"
      /\ out' = <<>> /\ call'.walked = <<>> /\ call'.op = call.op
  BY DEF NotFound, Ends
<1>3. WalkedAll'
  BY <1>1, <1>2, NothingGiven DEF WalkedAll
<1>4. ScopeAt'
  BY <1>2, <1>3, NothingWalkedNext DEF ScopeAt, SearchAt, WalkAt
<1>5. Looking' => FileAt'
  BY <1>1, <1>2 DEF Looking, FileAt, AroundOps
<1> QED BY <1>4, <1>5 DEF ScopeInv

\* It goes on, or has found one.
LEMMA SearchGoes ==
  ASSUME call.op \in AroundOps, Asked, pc' \in {"ssearch", "outermost", "smallest", "scope", "blockwalk"},
         pc' \in EntryPoints, SearchAt', WalkAt', call'.walked = <<>>
  PROVE  ScopeInv'
<1>1. ScopeAt'
  BY NothingWalkedNext DEF ScopeAt, WalkedAll
<1>2. FileAt'
  BY DEF FileAt
<1> QED BY <1>1, <1>2 DEF ScopeInv

\* The search for a scope (ScopeFindFirst).
LEMMA SearchScopes ==
  ASSUME ScopesWritten, Inv, MapInv, CallInv, ScopeInv, ScopeSearch
  PROVE  ScopeInv'
<1>1. pc \in {"ssearch", "outermost", "smallest"}
  BY DEF ScopeSearch, SearchSegment, SearchOutermost, SearchSmallest
<1>2. /\ pc \in EntryPoints /\ pc' \in EntryPoints /\ UNCHANGED <<files, out>>
      /\ CallOf /\ IsCall
  BY StaysCalled DEF CallInv, CallOf, ScopeSearch, SearchSegment, SearchOutermost, SearchSmallest
<1>3. call.op \in AroundOps
  BY <1>1, <1>2, PointsOf DEF CallOf
<1>4. ScopeAt
  BY <1>2, <1>3 DEF ScopeInv
<1>5. out = <<>> /\ call.walked = <<>> /\ ~call.inclass
  BY <1>1, <1>4 DEF ScopeAt, SearchAt
<1>6. Asked /\ call'.im = call.im /\ call'.walked = call.walked /\ call'.inclass = call.inclass
  BY <1>2, SearchAsked
<1>7. /\ Here' = Here /\ Covering' = Covering /\ InSegment' = InSegment /\ Hits' = Hits
      /\ out' = <<>> /\ call'.walked = <<>> /\ ~call'.inclass
  BY <1>2, <1>5, <1>6, ViewStays DEF files
<1>8. /\ IsModule(Here) /\ Chained(Here, Covering) /\ Covering \subseteq Opens(Here)
      /\ InSegment => \A k \in Opens(Here) : Covers(k, call.addr) <=> k \in Covering
      /\ Covering # {} => InSegment
      /\ \A j, k \in Opens(Here) :
           Within(j, k) <=> /\ Here[k].off <= Here[j].off
                            /\ Here[j].off + Here[j].len <= Here[k].off + Here[k].len
  <2>1. call.addr \in [seg : Nat, off : Nat]
    BY <1>2 DEF CallOf
  <2> QED BY <1>2, <2>1, ScopesPlaced
<1>9. ASSUME NotFound, UNCHANGED call, Covering = {} PROVE ScopeInv'
  BY <1>2, <1>3, <1>5, <1>6, <1>9, SearchFails
<1>10. CASE SearchSegment
  <2>1. /\ pc = "ssearch" /\ call.chk \in Nat \ {0}
        /\ InSegment => \A k \in DOMAIN Here : Here[k].code = "SSEARCH" => k >= call.chk
    BY <1>4, <1>10 DEF SearchSegment, ScopeAt, SearchAt
  <2>2. CASE call.chk > Len(Here)
    <3>1. NotFound /\ UNCHANGED call
      BY <1>10, <2>2 DEF SearchSegment, Here
    <3>2. Covering = {}
      <4> SUFFICES ASSUME Covering # {} PROVE FALSE
        OBVIOUS
      <4>1. Opens(Here) # {}
        BY <1>8
      <4>2. PICK k \in DOMAIN Here : Here[k].code = "SSEARCH"
        BY <1>8, <4>1 DEF IsModule, ScopesLinked
      <4>3. k \in 1..Len(Here) /\ k >= call.chk /\ Len(Here) \in Nat
        BY <1>8, <2>1, <4>2 DEF IsModule
      <4> QED BY <2>1, <2>2, <4>3
    <3> QED BY <1>9, <3>1, <3>2
  <2>3. CASE call.chk <= Len(Here)
    <3>1. call.chk \in DOMAIN Here /\ ~(call.chk > Len(Here))
      BY <1>8, <2>1, <2>3 DEF IsModule
    <3>2. CASE Here[call.chk].code = "SSEARCH"
                 /\ DCSameAddrSpace(MapLogical(cur, [seg |-> Here[call.chk].seg, off |-> 0]),
                                    call.addr)
      <4>1. call' = [call EXCEPT !.p = call.chk, !.chk = Here[call.chk].sym_off]
            /\ pc' = "outermost"
        BY <1>10, <3>1, <3>2 DEF SearchSegment, Here
      <4>2. call'.chk = Here[call.chk].sym_off
        BY <1>2, <4>1 DEF IsCall, CallFields
      <4>3. /\ Here[call.chk].sym_off \in Outermost(Here) /\ InSegment
            /\ \A j \in Outermost(Here) : Here[call.chk].sym_off <= j
        <5>1. call.addr \in [seg : Nat, off : Nat]
          BY <1>2 DEF CallOf
        <5> QED BY <1>2, <3>1, <3>2, <5>1, SearchRecord
      <4>4. \A k \in Covering : Here[call.chk].sym_off <= k
        BY <1>8, <4>3, OuterFirst
      <4>5. SearchAt' /\ WalkAt'
        BY <1>7, <4>1, <4>2, <4>3, <4>4 DEF SearchAt, WalkAt
      <4> QED BY <1>2, <1>3, <1>6, <1>7, <4>1, <4>5, SearchGoes
    <3>3. CASE ~(Here[call.chk].code = "SSEARCH"
                   /\ DCSameAddrSpace(MapLogical(cur, [seg |-> Here[call.chk].seg, off |-> 0]),
                                      call.addr))
      <4>1. call' = [call EXCEPT !.chk = @ + 1] /\ pc' = "ssearch"
        BY <1>10, <3>1, <3>3 DEF SearchSegment, Here
      <4>2. call'.chk = call.chk + 1
        BY <1>2, <4>1 DEF IsCall, CallFields
      <4>3. InSegment => \A k \in DOMAIN Here : Here[k].code = "SSEARCH" => k >= call.chk + 1
        <5>1. call.addr \in [seg : Nat, off : Nat]
          BY <1>2 DEF CallOf
        <5>2. InSegment => Here[call.chk].code # "SSEARCH"
          BY <1>2, <3>1, <3>3, <5>1, SearchRecord
        <5>3. \A k \in DOMAIN Here : k \in Nat
          BY <1>8 DEF IsModule
        <5> QED BY <2>1, <5>2, <5>3
      <4>4. SearchAt' /\ WalkAt'
        BY <1>7, <2>1, <4>1, <4>2, <4>3 DEF SearchAt, WalkAt
      <4> QED BY <1>2, <1>3, <1>6, <1>7, <4>1, <4>4, SearchGoes
    <3> QED BY <3>2, <3>3
  <2>4. Len(Here) \in Nat
    BY <1>8 DEF IsModule
  <2> QED BY <2>1, <2>2, <2>3, <2>4
<1>11. CASE SearchOutermost
  <2>1. /\ pc = "outermost" /\ InSegment /\ call.chk \in Outermost(Here)
        /\ \A k \in Covering : call.chk <= k
    BY <1>4, <1>11 DEF SearchOutermost, ScopeAt, SearchAt
  <2>2. call.chk \in Opens(Here) /\ call.chk \in Nat
    BY <1>8, <2>1, OpenerEnds DEF Outermost
  <2>3. Covers(call.chk, call.addr) <=> call.chk \in Covering
    BY <1>8, <2>1, <2>2
  <2>4. CASE Covers(call.chk, call.addr)
    <3>1. call' = [call EXCEPT !.scope = call.chk] /\ pc' = "smallest"
      BY <1>11, <2>4 DEF SearchOutermost
    <3>2. call'.scope = call.chk /\ call'.chk = call.chk /\ call'.p = call.p
      BY <1>2, <3>1 DEF IsCall, CallFields
    <3>3. Inner(Here, Covering, call.chk, call.p, call.chk)
      <4>1. \A k \in Opens(Here) : k \in Nat
        BY <1>8, OpenerEnds
      <4> QED BY <2>1, <2>2, <2>3, <2>4, <4>1 DEF Inner, Level
    <3>4. SearchAt' /\ WalkAt'
      BY <1>7, <2>1, <3>1, <3>2, <3>3 DEF SearchAt, WalkAt
    <3> QED BY <1>2, <1>3, <1>6, <1>7, <3>1, <3>4, SearchGoes
  <2>5. CASE ~Covers(call.chk, call.addr)
    <3>1. /\ Here[call.chk].next = 0 => Covering = {}
          /\ Here[call.chk].next # 0 => /\ Here[call.chk].next \in Outermost(Here)
                                        /\ \A k \in Covering : Here[call.chk].next <= k
      BY <1>8, <2>1, <2>3, <2>5, OuterNext
    <3>2. CASE Here[call.chk].next = 0
      BY <1>9, <1>11, <2>5, <3>1, <3>2 DEF SearchOutermost, Here
    <3>3. CASE Here[call.chk].next # 0
      <4>1. call' = [call EXCEPT !.chk = Here[call.chk].next] /\ pc' = "outermost"
        BY <1>11, <2>5, <3>3 DEF SearchOutermost, Here
      <4>2. call'.chk = Here[call.chk].next
        BY <1>2, <4>1 DEF IsCall, CallFields
      <4>3. SearchAt' /\ WalkAt'
        BY <1>7, <2>1, <3>1, <3>3, <4>1, <4>2 DEF SearchAt, WalkAt
      <4> QED BY <1>2, <1>3, <1>6, <1>7, <4>1, <4>3, SearchGoes
    <3> QED BY <3>2, <3>3
  <2> QED BY <2>4, <2>5
<1>12. CASE SearchSmallest
  <2>1. /\ pc = "smallest" /\ InSegment
        /\ Inner(Here, Covering, call.scope, call.p, call.chk)
    BY <1>4, <1>12 DEF SearchSmallest, ScopeAt, SearchAt
  <2>2. IsScope(call.chk) <=> call.chk \in Opens(Here)
    BY ScopesAre
  <2>3. call.scope \in Covering /\ call.scope \in Opens(Here)
    BY <1>8, <2>1 DEF Inner
  <2>4. CASE ~IsScope(call.chk) /\ AfterEnd(call.p)
    <3>1. Found /\ UNCHANGED call
      BY <1>12, <2>4 DEF SearchSmallest
    <3>2. \A k \in Covering : k <= call.scope
      BY <1>8, <2>1, <2>2, <2>4, InnerFound DEF AfterEnd, Here
    <3>3. Gives(Here, Covering, Hits, <<>>, call.scope, call.scope + 1)
      <4>1. Passed(Here, Covering, call.scope, call.scope + 1) = {}
        BY <1>8, <2>3, <3>2, NothingPassed
      <4> QED BY <4>1, NothingGiven DEF Gives
    <3>4. pc' = IF call.op = "block" THEN "blockwalk" ELSE "scope"
      BY <3>1 DEF Found
    <3>5. SearchAt' /\ WalkAt'
      BY <1>7, <2>3, <3>1, <3>2, <3>3, <3>4 DEF SearchAt, WalkAt, Giving
    <3> QED BY <1>2, <1>3, <1>6, <1>7, <3>4, <3>5, SearchGoes
  <2>5. ASSUME NEW at, NEW b, call' = [call EXCEPT !.p = at, !.chk = at + 1, !.scope = b],
               pc' = "smallest", Inner(Here, Covering, b, at, at + 1)
        PROVE  ScopeInv'
    <3>1. call'.p = at /\ call'.chk = at + 1 /\ call'.scope = b
      BY <1>2, <2>5 DEF IsCall, CallFields
    <3>2. SearchAt' /\ WalkAt'
      BY <1>7, <2>1, <2>5, <3>1 DEF SearchAt, WalkAt
    <3> QED BY <1>2, <1>3, <1>6, <1>7, <2>5, <3>2, SearchGoes
  <2> DEFINE inner == Covers(call.chk, call.addr) /\ Within(call.chk, call.scope)
  <2>6. CASE IsScope(call.chk) /\ inner
    <3>1. call' = [call EXCEPT !.p = call.chk, !.chk = call.chk + 1, !.scope = call.chk]
          /\ pc' = "smallest"
      BY <1>12, <2>6 DEF SearchSmallest
    <3>2. call.chk \in Covering
      BY <1>8, <2>1, <2>2, <2>6
    <3>3. Inner(Here, Covering, call.chk, call.chk, call.chk + 1)
      BY <1>8, <2>1, <3>2, InnerIn
    <3> QED BY <2>5, <3>1, <3>3
  <2>7. CASE IsScope(call.chk) /\ ~inner
    <3>1. call' = [call EXCEPT !.p = Here[call.chk].end, !.chk = Here[call.chk].end + 1,
                     !.scope = call.scope] /\ pc' = "smallest"
      BY <1>12, <2>7 DEF SearchSmallest, Here
    <3>2. call.chk \notin Covering
      <4> SUFFICES ASSUME call.chk \in Covering PROVE FALSE
        OBVIOUS
      <4>1. /\ Here[call.scope].off <= Here[call.chk].off
            /\ Here[call.chk].off + Here[call.chk].len <= Here[call.scope].off + Here[call.scope].len
        BY <1>8, <2>1, InnerIn
      <4> QED BY <1>8, <2>1, <2>2, <2>3, <2>7, <4>1
    <3>3. Inner(Here, Covering, call.scope, Here[call.chk].end, Here[call.chk].end + 1)
      BY <1>8, <2>1, <2>2, <2>7, <3>2, InnerOver
    <3> QED BY <2>5, <3>1, <3>3
  <2>8. CASE ~IsScope(call.chk) /\ ~AfterEnd(call.p)
    <3>1. call' = [call EXCEPT !.p = call.chk, !.chk = call.chk + 1, !.scope = call.scope]
          /\ pc' = "smallest"
      BY <1>12, <2>8 DEF SearchSmallest
    <3>2. Inner(Here, Covering, call.scope, call.chk, call.chk + 1)
      BY <1>8, <2>1, <2>2, <2>8, InnerOn
    <3> QED BY <2>5, <3>1, <3>2
  <2> QED BY <2>4, <2>6, <2>7, <2>8
<1> QED BY <1>10, <1>11, <1>12 DEF ScopeSearch

AroundPoints == {"ssearch", "outermost", "smallest", "scope", "one", "class", "outer",
                 "blockwalk", "outerblock", "list"}

\* What a walk has given when it is cut short.
LEMMA ClosedSoFar ==
  ASSUME IsModule(Here), Chained(Here, Covering), ScopeAt, ~Looking, pc \in AroundPoints
  PROVE  /\ \E S : out \in Seq(S)
         /\ Ordered(Here, Covering, out) /\ Closed(Here, Covering, out)
<1>1. Hits = DOMAIN Here
  BY DEF Hits
<1>2. Len(Here) \in Nat
  BY DEF IsModule
<1>3. \A b \in Covering : b \in Nat /\ Here[b].end \in Nat
  BY OpenerEnds DEF Chained
<1>4. CASE pc \in {"ssearch", "outermost", "smallest"}
  BY <1>4, NothingGiven DEF ScopeAt, SearchAt
<1>5. ASSUME NEW c \in Int, call.scope \in Covering, Giving(c)
      PROVE  /\ \E S : out \in Seq(S)
             /\ Ordered(Here, Covering, out) /\ Closed(Here, Covering, out)
  <2>1. Gives(Here, Covering, DOMAIN Here, out, call.scope, c)
    BY <1>1, <1>5 DEF Giving
  <2> QED BY <1>5, <2>1, GivesClosed DEF Gives
<1>6. CASE pc = "scope" \/ (pc = "blockwalk" /\ ~call.inclass)
  BY <1>3, <1>5, <1>6 DEF ScopeAt, WalkAt
<1>7. CASE pc = "one"
  BY <1>3, <1>5, <1>7 DEF ScopeAt, WalkAt
<1>8. CASE pc \in {"class", "outer", "outerblock", "list"} \/ (pc = "blockwalk" /\ call.inclass)
  BY <1>2, <1>5, <1>8 DEF ScopeAt, WalkAt, Through
<1> QED BY <1>4, <1>6, <1>7, <1>8 DEF AroundPoints

\* A call that ends early.
LEMMA EndsEarly ==
  ASSUME pc' = "done", wr' \notin {"CONTINUE", "EXACT", "NONE"},
         UNCHANGED <<img, cur>>, Asked, call'.im = call.im,
         call.op \in AroundOps => call'.walked \in Seq(Nat) /\ SmallestScope',
         call.op \in {"scoped", "block"} =>
           /\ \E S : out' \in Seq(S)
           /\ Ordered(Here, Covering, out') /\ Closed(Here, Covering, out')
  PROVE  ScopeInv'
<1>1. Here' = Here /\ Covering' = Covering /\ call'.op = call.op
  BY ViewStays DEF Asked
<1>2. pc' \in EntryPoints
  BY CalledAt DEF SymbolPoints
<1>3. call.op \in AroundOps => ScopeAt'
  BY <1>1 DEF ScopeAt, SearchAt, WalkAt, WalkedAll
<1>4. FileAt'
  BY DEF FileAt
<1> QED BY <1>1, <1>2, <1>3, <1>4 DEF ScopeInv

\* A walk goes on.
LEMMA WalkGoes ==
  ASSUME call.op \in AroundOps, Asked, call'.walked \in Seq(Nat), SmallestScope', WalkAt',
         pc' \in {"scope", "one", "class", "outer", "blockwalk", "outerblock", "list"}
  PROVE  ScopeInv'
<1>1. pc' \in EntryPoints
  BY CalledAt DEF SymbolPoints
<1>2. ScopeAt'
  BY DEF ScopeAt, SearchAt, WalkedAll
<1>3. FileAt'
  BY DEF FileAt
<1> QED BY <1>1, <1>2, <1>3 DEF ScopeInv

\* What was walked first stays it.
LEMMA SmallestStays ==
  ASSUME SmallestScope, call.walked \in Seq(Nat), Covering' = Covering, call'.walked = call.walked
  PROVE  call'.walked \in Seq(Nat) /\ SmallestScope'
BY DEF SmallestScope

\* ScopeOneSymbol.
LEMMA OneShown ==
  ASSUME IsCall, NEW k \in DOMAIN Here, NEW filescope \in BOOLEAN, ScopeOneSymbol(k, filescope)
  PROVE  /\ call'.chk = (IF k \in Opens(Here) THEN Here[k].end ELSE k) + 1
         /\ call'.scope = call.scope /\ call'.walked = call.walked
         /\ call'.inclass = call.inclass /\ call'.im = call.im
         /\ out' = IF Here[k].code \notin NotShown /\ (filescope \/ k \notin Opens(Here)) /\ k \in Hits
                     THEN Append(out, ModuleSym(call.im, k)) ELSE out
         /\ UNCHANGED <<pc, wr>> \/ (~Looking /\ pc' = "done" /\ wr' = "STOP")
<1>1. IsScope(k) <=> k \in Opens(Here)
  BY ScopesAre
<1>2. call' = [call EXCEPT !.chk = (IF k \in Opens(Here) THEN Here[k].end ELSE k) + 1]
  BY <1>1 DEF ScopeOneSymbol, Here
<1>3. /\ call'.chk = (IF k \in Opens(Here) THEN Here[k].end ELSE k) + 1
      /\ call'.scope = call.scope /\ call'.walked = call.walked
      /\ call'.inclass = call.inclass /\ call'.im = call.im
  BY <1>2 DEF IsCall, CallFields
<1> DEFINE h == ModuleSym(call.im, k)
<1>4. Rec(h) = Here[k]
  BY DEF Rec, ModuleSym, Here
<1>5. (Looking => Matches(Rec(h))) <=> k \in Hits
  BY <1>4 DEF Hits
<1>6. CASE Here[k].code \notin NotShown /\ (filescope \/ k \notin Opens(Here))
  <2>1. Show(h)
    BY <1>1, <1>6 DEF ScopeOneSymbol, Here
  <2> HIDE DEF h
  <2>2. out' = IF k \in Hits THEN Append(out, h) ELSE out
    BY <1>5, <2>1 DEF Show
  <2>3. UNCHANGED <<pc, wr>> \/ (~Looking /\ pc' = "done" /\ wr' = "STOP")
    BY <2>1 DEF Show, Ends
  <2> QED BY <1>3, <1>6, <2>2, <2>3 DEF h
<1>7. CASE ~(Here[k].code \notin NotShown /\ (filescope \/ k \notin Opens(Here)))
  BY <1>1, <1>3, <1>7 DEF ScopeOneSymbol, Here
<1> QED BY <1>6, <1>7

\* A handle of a symbol of a module.
LEMMA OwnHandle == \A im, k : ~IsMemberHandle(ModuleSym(im, k)) /\ ModuleSym(im, k).sym = k
  BY DEF IsMemberHandle, ModuleSym

\* The walks of the scopes.
LEMMA AroundWalks ==
  ASSUME ScopesWritten, Inv, MapInv, CallInv, ScopeInv,
         EnterScope \/ ScopeWalkOne \/ ScopeWalkClass \/ ScopeFindNext \/ WalkBlock \/ ScopeOuter
  PROVE  ScopeInv'
<1>1. pc \in {"scope", "one", "class", "outer", "blockwalk", "outerblock"}
  BY DEF EnterScope, ScopeWalkOne, ScopeWalkClass, ScopeFindNext, WalkBlock, ScopeOuter
<1>2. /\ pc \in EntryPoints /\ pc' \in EntryPoints /\ UNCHANGED <<img, cur>> /\ CallOf /\ IsCall
  BY StaysCalled DEF ScopeWalk, CallInv, CallOf, files
<1>3. call.op \in AroundOps /\ (pc \in {"blockwalk", "outerblock"} => call.op = "block")
      /\ (pc \in {"class", "outer"} => call.op \in {"scoped", "lookup"})
  BY <1>1, <1>2, PointsOf DEF CallOf, AroundOps
<1>4. ScopeAt /\ call.walked \in Seq(Nat) /\ SmallestScope
  BY <1>2, <1>3 DEF ScopeInv, ScopeAt
<1>5. Asked /\ call'.im = call.im /\ (pc # "scope" => call'.walked = call.walked)
  BY <1>1, <1>2, WalkAsked DEF ScopeWalk
<1>6. /\ Here' = Here /\ Covering' = Covering /\ Hits' = Hits /\ InScopes' = InScopes
      /\ Near' = Near /\ Looking' = Looking /\ call'.op = call.op
  BY <1>2, <1>5, ViewStays DEF Asked
<1>7. IsModule(Here) /\ Chained(Here, Covering) /\ Covering \subseteq Opens(Here)
  <2>1. call.addr \in [seg : Nat, off : Nat]
    BY <1>2 DEF CallOf
  <2> QED BY <1>2, <2>1, ScopesPlaced
<1>8. /\ Len(Here) \in Nat
      /\ \A b \in Covering : b \in Nat /\ b \in DOMAIN Here /\ Here[b].end \in Nat /\ b < Here[b].end
                             /\ Here[b].end <= Len(Here)
  BY <1>7, OpenerEnds DEF IsModule
<1>9. pc # "scope" => call'.walked \in Seq(Nat) /\ SmallestScope'
  BY <1>4, <1>5, <1>6, SmallestStays
<1>10. call.op \in {"scoped", "block"} =>
         /\ \E S : out \in Seq(S)
         /\ Ordered(Here, Covering, out) /\ Closed(Here, Covering, out)
  BY <1>1, <1>4, <1>7, ClosedSoFar DEF AroundPoints, Looking
<1>11. CASE EnterScope
  <2>1. /\ pc = "scope" /\ pc' = "one" /\ UNCHANGED <<out, wr>>
        /\ call' = [call EXCEPT !.chk = call.scope + 1, !.walked = Append(@, call.scope)]
    BY <1>11 DEF EnterScope
  <2>2. call'.chk = call.scope + 1 /\ call'.walked = Append(call.walked, call.scope)
        /\ call'.scope = call.scope
    BY <1>2, <2>1 DEF IsCall, CallFields
  <2>3. /\ call.scope \in Covering /\ Giving(call.scope + 1)
        /\ call.walked = <<>> => \A k \in Covering : k <= call.scope
    BY <1>4, <2>1 DEF ScopeAt, WalkAt
  <2>4. call.scope \in Nat /\ call.scope < Here[call.scope].end /\ Here[call.scope].end \in Nat
    BY <1>8, <2>3
  <2>5. /\ call'.walked \in Seq(Nat) /\ call'.walked # <<>>
        /\ call'.walked[1] = IF call.walked = <<>> THEN call.scope ELSE call.walked[1]
    BY <1>4, <2>2, <2>4
  <2>6. SmallestScope'
    BY <1>4, <1>6, <2>3, <2>5 DEF SmallestScope
  <2>7. Level(Here, call.scope, call.scope + 1)
    BY <1>7, <2>4, OpenerEnds DEF Level
  <2>8. WalkAt'
    BY <1>6, <2>1, <2>2, <2>3, <2>4, <2>5, <2>7 DEF WalkAt, Giving
  <2> QED BY <1>3, <1>5, <2>1, <2>5, <2>6, <2>8, WalkGoes
<1>12. CASE ScopeWalkOne
  <2>1. /\ pc = "one" /\ call.scope \in Covering /\ call.walked # <<>>
        /\ call.chk \in (call.scope + 1)..Here[call.scope].end /\ Level(Here, call.scope, call.chk)
        /\ Giving(call.chk)
    BY <1>4, <1>12 DEF ScopeWalkOne, ScopeAt, WalkAt
  <2>2. /\ call.scope \in Opens(Here) /\ call.scope \in Nat /\ call.chk \in Nat
        /\ call.scope < call.chk /\ call.chk <= Here[call.scope].end /\ call.chk \in DOMAIN Here
    BY <1>7, <1>8, <2>1 DEF IsModule
  <2>3. CASE Here[call.chk].code = "END"
    <3>1. UNCHANGED <<call, out, wr>> /\ pc' = IF call.op = "block" THEN "outerblock" ELSE "class"
      BY <1>12, <2>3 DEF ScopeWalkOne, Here
    <3>2. call.chk = Here[call.scope].end
      BY <1>7, <2>1, <2>2, <2>3, LevelEnd
    <3>3. Giving(Len(Here) + 1)
      BY <1>7, <2>1, <3>2, ScopePassed DEF Giving, Gives
    <3>4. WalkAt'
      BY <1>6, <2>1, <3>1, <3>3 DEF WalkAt, Through, Giving
    <3> QED BY <1>3, <1>5, <1>9, <2>1, <3>1, <3>4, WalkGoes
  <2>4. CASE Here[call.chk].code # "END"
    <3> DEFINE next == (IF call.chk \in Opens(Here) THEN Here[call.chk].end ELSE call.chk) + 1
               h == ModuleSym(call.im, call.chk)
    <3>1. ScopeOneSymbol(call.chk, FALSE)
      BY <1>12, <2>4 DEF ScopeWalkOne, Here
    <3>2. /\ call'.chk = next
          /\ call'.scope = call.scope /\ call'.walked = call.walked
          /\ out' = IF Here[call.chk].code \notin NotShown /\ call.chk \notin Opens(Here)
                         /\ call.chk \in Hits
                      THEN Append(out, h) ELSE out
          /\ UNCHANGED <<pc, wr>> \/ (~Looking /\ pc' = "done" /\ wr' = "STOP")
      BY <1>2, <2>2, <3>1, OneShown
    <3> HIDE DEF next, h
    <3>3. ~IsMemberHandle(h) /\ h.sym = call.chk
      BY OwnHandle DEF h
    <3>4. call.scope # 0
      BY <1>7, <2>2, OpenerEnds
    <3>5. out' = IF /\ Here[call.chk].code \notin NotShown
                    /\ (call.scope = 0 \/ call.chk \notin Opens(Here)) /\ call.chk \in Hits
                   THEN Append(out, h) ELSE out
      BY <3>2, <3>4
    <3>6. next = (IF call.chk \in Opens(Here) THEN Here[call.chk].end ELSE call.chk) + 1
      BY DEF next
    <3>7. /\ Gives(Here, Covering, Hits, out', call.scope, next) /\ next \in Nat
          /\ call.chk < next /\ Level(Here, call.scope, next) /\ next <= Here[call.scope].end
      <4>1. Gives(Here, Covering, Hits, out, call.scope, call.chk)
        BY <2>1 DEF Giving
      <4>2. call.scope \in Opens(Here) \cup {0} /\ call.scope \in Covering \cup {0}
        BY <2>1, <2>2
      <4>3. PICK b, c, o1 : b = call.scope /\ c = call.chk /\ o1 = out'
        OBVIOUS
      <4>4. /\ b \in Opens(Here) \cup {0} /\ b \in Covering \cup {0} /\ b # 0
            /\ c \in DOMAIN Here /\ b < c /\ Level(Here, b, c)
            /\ c <= Here[b].end /\ Here[c].code # "END"
            /\ next = (IF c \in Opens(Here) THEN Here[c].end ELSE c) + 1
            /\ Gives(Here, Covering, Hits, out, b, c) /\ h.sym = c
            /\ o1 = IF /\ Here[c].code \notin NotShown
                       /\ (b = 0 \/ c \notin Opens(Here)) /\ c \in Hits
                      THEN Append(out, h) ELSE out
        BY <2>1, <2>2, <2>4, <3>3, <3>4, <3>5, <3>6, <4>1, <4>2, <4>3
      <4>5. Gives(Here, Covering, Hits, o1, b, next)
        BY <1>7, <3>3, <4>4, GivesStep
      <4>6. next \in Nat /\ c < next /\ Level(Here, b, next) /\ next <= Here[b].end
        BY <1>7, <4>4, DeclStep
      <4> QED BY <4>3, <4>5, <4>6
    <3>8. CASE UNCHANGED <<pc, wr>>
      <4>1. WalkAt'
        BY <1>6, <2>1, <2>2, <3>2, <3>7, <3>8 DEF WalkAt, Giving
      <4> QED BY <1>3, <1>5, <1>9, <2>1, <3>8, <4>1, WalkGoes
    <3>9. CASE ~Looking /\ pc' = "done" /\ wr' = "STOP"
      <4>1. Hits = DOMAIN Here
        BY <3>9 DEF Hits
      <4>2. Closed(Here, Covering, out')
        BY <1>7, <2>1, <3>7, <4>1, GivesClosed
      <4>3. (\E S : out' \in Seq(S)) /\ Ordered(Here, Covering, out')
        BY <3>7 DEF Gives
      <4> QED BY <1>2, <1>5, <1>9, <2>1, <3>9, <4>2, <4>3, EndsEarly
    <3> QED BY <3>2, <3>8, <3>9
  <2> QED BY <2>3, <2>4
<1>13. ASSUME NEW ret \in {"outer", "outerblock"}, WalkClass(ret), Through, pc # "scope"
       PROVE  ScopeInv'
  <2>1. UNCHANGED <<call, out>>
    BY <1>13 DEF WalkClass
  <2>2. \/ pc' = "done" /\ wr' = "FAIL"
        \/ pc' \in {"list", ret}
    <3>1. CASE IsMember(call.scope)
      <4>1. PICK client, idx, vm, key : StartWalk(client, idx, vm, key, ret)
        BY <1>13, <3>1 DEF WalkClass
      <4> QED BY <4>1, StartsFor
    <3>2. CASE ~IsMember(call.scope)
      BY <1>13, <3>2 DEF WalkClass
    <3> QED BY <3>1, <3>2
  <2>3. CASE pc' = "done" /\ wr' = "FAIL"
    BY <1>2, <1>5, <1>9, <1>10, <1>13, <2>1, <2>3, EndsEarly
  <2>4. CASE pc' \in {"list", ret}
    <3>1. WalkAt'
      BY <1>6, <1>13, <2>1, <2>4 DEF WalkAt, Through, Giving
    <3> QED BY <1>3, <1>5, <1>9, <1>13, <2>4, <3>1, WalkGoes
  <2> QED BY <2>2, <2>3, <2>4
<1>14. CASE ScopeWalkClass
  <2>1. pc = "class" /\ Through
    BY <1>4, <1>14 DEF ScopeWalkClass, ScopeAt, WalkAt
  <2>2. CASE WalkClass("outer")
    BY <1>13, <2>1, <2>2
  <2>3. CASE ~WalkClass("outer")
    <3>1. pc' = "outer" /\ UNCHANGED <<call, out>>
      BY <1>14, <2>3 DEF ScopeWalkClass
    <3>2. WalkAt'
      BY <1>6, <2>1, <3>1 DEF WalkAt, Through, Giving
    <3> QED BY <1>3, <1>5, <1>9, <2>1, <3>1, <3>2, WalkGoes
  <2> QED BY <2>2, <2>3
<1>15. ASSUME Through, Here[call.scope].parent # 0, call'.scope = Here[call.scope].parent,
              call'.walked = call.walked, UNCHANGED out,
              pc' = "scope" \/ (pc' = "blockwalk" /\ ~call'.inclass), pc # "scope"
       PROVE  ScopeInv'
  <2> DEFINE up == Here[call.scope].parent
  <2>1. up \in Covering
    BY <1>7, <1>15, ParentNext DEF Through
  <2>2. Passed(Here, Covering, up, up + 1) = Passed(Here, Covering, call.scope, Len(Here) + 1)
    BY <1>7, <1>15, ScopePassed DEF Through
  <2> HIDE DEF up
  <2>3. Gives(Here, Covering, Hits, out, up, up + 1)
    BY <1>15, <2>2 DEF Through, Giving, Gives
  <2>4. call'.scope = up
    BY <1>15 DEF up
  <2>5. WalkAt'
    BY <1>6, <1>15, <2>1, <2>3, <2>4 DEF WalkAt, Through, Giving
  <2> QED BY <1>3, <1>5, <1>9, <1>15, <2>5, WalkGoes
<1>16. ASSUME Through, Here[call.scope].parent = 0
       PROVE  RecordsOf(out) = InScopes \cap Hits /\ \E S : out \in Seq(S)
  BY <1>7, <1>16, ScopePassed DEF Through, Giving, Gives, InScopes
<1>17. ASSUME Through, Here[call.scope].parent = 0, call.op \in {"scoped", "block"}, pc # "scope",
              pc' = "done", wr' = "CONTINUE", UNCHANGED <<call, out>>
       PROVE  ScopeInv'
  <2>1. Hits = DOMAIN Here
    BY <1>17 DEF Hits, Looking
  <2>2. InScopes \subseteq DOMAIN Here
    BY DEF InScopes, Decl
  <2>3. RecordsOf(out) = InScopes
    BY <1>16, <1>17, <2>1, <2>2
  <2>4. WalkedAll'
    BY <1>6, <1>10, <1>17, <2>3 DEF WalkedAll
  <2>5. ScopeAt'
    BY <1>9, <1>17, <2>4 DEF ScopeAt, SearchAt, WalkAt
  <2>6. ~Looking'
    BY <1>6, <1>17 DEF Looking
  <2> QED BY <1>2, <2>5, <2>6 DEF ScopeInv
<1>18. CASE ScopeFindNext
  <2>1. pc = "outer" /\ Through /\ UNCHANGED out /\ call.op \in {"scoped", "lookup"}
    BY <1>3, <1>4, <1>18 DEF ScopeFindNext, ScopeAt, WalkAt
  <2>2. CASE Here[call.scope].parent # 0
    <3>1. call' = [call EXCEPT !.scope = Here[call.scope].parent] /\ pc' = "scope"
      BY <1>18, <2>2 DEF ScopeFindNext, Here
    <3>2. call'.scope = Here[call.scope].parent /\ call'.walked = call.walked
      BY <1>2, <3>1 DEF IsCall, CallFields
    <3> QED BY <1>15, <2>1, <2>2, <3>1, <3>2
  <2>3. CASE Here[call.scope].parent = 0 /\ call.op = "scoped"
    <3>1. UNCHANGED call /\ pc' = "done" /\ wr' = "CONTINUE"
      BY <1>18, <2>3 DEF ScopeFindNext, Here, Ends
    <3> QED BY <1>17, <2>1, <2>3, <3>1
  <2>4. CASE Here[call.scope].parent = 0 /\ call.op = "lookup"
    <3>1. UNCHANGED call /\ IF out # <<>> THEN pc' = "done" /\ wr' = "EXACT" ELSE pc' = "file"
      BY <1>18, <2>4 DEF ScopeFindNext, Here, Ends
    <3>2. RecordsOf(out) = Near /\ \E S : out \in Seq(S)
      BY <1>16, <2>1, <2>4 DEF Near
    <3>3. ScopeAt'
      BY <1>6, <1>9, <2>1, <2>4, <3>1 DEF ScopeAt, SearchAt, WalkAt, WalkedAll
    <3>4. CASE out = <<>>
      <4>1. Near = {}
        BY <3>2, <3>4, NothingGiven
      <4>2. FileAt'
        BY <1>6, <2>1, <3>1, <3>4, <4>1 DEF FileAt
      <4> QED BY <1>2, <3>3, <4>2 DEF ScopeInv
    <3>5. CASE out # <<>>
      <4>1. Near # {} \/ OwnOf(out) # DOMAIN out
        <5>1. PICK S : out \in Seq(S)
          BY <3>2
        <5>2. 1 \in DOMAIN out
          BY <3>5, <5>1
        <5>3. OwnOf(out) = DOMAIN out => RecordsOf(out) # {}
          BY <5>2 DEF RecordsOf
        <5> QED BY <3>2, <5>3
      <4>2. Ordered(Here, Covering, out)
        BY <2>1 DEF Through, Giving, Gives
      <4>3. Answer'
        BY <1>6, <2>1, <3>1, <3>2, <3>5, <4>1, <4>2 DEF Answer
      <4>4. FileAt'
        BY <3>1, <3>5, <4>3 DEF FileAt
      <4> QED BY <1>2, <3>3, <4>4 DEF ScopeInv
    <3> QED BY <3>4, <3>5
  <2> QED BY <2>1, <2>2, <2>3, <2>4
<1>19. CASE WalkBlock
  <2>1. CASE call.inclass
    <3>1. pc = "blockwalk" /\ Through /\ WalkClass("outerblock")
      BY <1>4, <1>19, <2>1 DEF WalkBlock, ScopeAt, WalkAt
    <3> QED BY <1>13, <3>1
  <2>2. CASE ~call.inclass
    <3>1. pc = "blockwalk" /\ pc' = "scope" /\ UNCHANGED <<call, out>>
      BY <1>19, <2>2 DEF WalkBlock
    <3>2. WalkAt'
      BY <1>4, <1>6, <2>2, <3>1 DEF ScopeAt, WalkAt, Giving
    <3> QED BY <1>3, <1>5, <1>9, <3>1, <3>2, WalkGoes
  <2> QED BY <2>1, <2>2
<1>20. CASE ScopeOuter
  <2>1. pc = "outerblock" /\ Through /\ UNCHANGED out /\ call.op = "block"
    BY <1>3, <1>4, <1>20 DEF ScopeOuter, ScopeAt, WalkAt
  <2>2. CASE ~call.inclass /\ Here[call.scope].code \in Procs
    <3>1. call' = [call EXCEPT !.inclass = TRUE] /\ pc' = "blockwalk"
      BY <1>20, <2>2 DEF ScopeOuter, Here
    <3>2. call'.inclass = TRUE /\ call'.scope = call.scope /\ call'.walked = call.walked
      BY <1>2, <3>1 DEF IsCall, CallFields
    <3>3. WalkAt'
      BY <1>6, <2>1, <3>1, <3>2 DEF WalkAt, Through, Giving
    <3> QED BY <1>3, <1>5, <1>9, <2>1, <3>1, <3>3, WalkGoes
  <2>3. CASE ~(~call.inclass /\ Here[call.scope].code \in Procs) /\ Here[call.scope].parent = 0
    <3>1. UNCHANGED call /\ pc' = "done" /\ wr' = "CONTINUE"
      BY <1>20, <2>3 DEF ScopeOuter, Here, Ends
    <3> QED BY <1>17, <2>1, <2>3, <3>1
  <2>4. CASE ~(~call.inclass /\ Here[call.scope].code \in Procs) /\ Here[call.scope].parent # 0
    <3>1. call' = [call EXCEPT !.inclass = FALSE, !.scope = Here[call.scope].parent]
          /\ pc' = "blockwalk"
      BY <1>20, <2>4 DEF ScopeOuter, Here
    <3>2. /\ call'.scope = Here[call.scope].parent /\ call'.walked = call.walked
          /\ call'.inclass = FALSE
      BY <1>2, <3>1 DEF IsCall, CallFields
    <3> QED BY <1>15, <2>1, <2>4, <3>1, <3>2
  <2> QED BY <2>2, <2>3, <2>4
<1> QED BY <1>11, <1>12, <1>14, <1>18, <1>19, <1>20

-----------------------------------------------------------------------------
(***************************************************************************)
(* The file's symbols and the tables.                                      *)
(***************************************************************************)

\* Whichever module a handle is for, it stands for the same record.
LEMMA AnyHandle ==
  ASSUME NEW tbl \in Tables, NEW k, NEW im
  PROVE  /\ Rec(SymFillIn(tbl, k, im)) = Rec(SymFillIn(tbl, k, 0))
         /\ Anyones(SymFillIn(tbl, k, im)) = Anyones(SymFillIn(tbl, k, 0))
         /\ ~IsMemberHandle(SymFillIn(tbl, k, im))
<1> DEFINE r == Table(tbl).recs[k]
<1>1. tbl # "AlignSym"
  BY DEF Tables
<1>2. CASE r.code \in Reference
  <2>1. \A i : SymFillIn(tbl, k, i) = ModuleSym(r.im, r.sym)
    BY <1>2 DEF SymFillIn
  <2> QED BY <2>1, OwnHandle
<1>3. CASE r.code \notin Reference
  <2>1. \A i : SymFillIn(tbl, k, i) = [im |-> i, tbl |-> tbl, sym |-> k]
    BY <1>3 DEF SymFillIn
  <2>2. \A i : Rec(SymFillIn(tbl, k, i)) = Table(tbl).recs[k]
    BY <1>1, <2>1 DEF Rec
  <2>3. \A i : Anyones(SymFillIn(tbl, k, i)) = [im |-> 0, tbl |-> tbl, sym |-> k]
    BY <2>1 DEF Anyones
  <2>4. ~IsMemberHandle(SymFillIn(tbl, k, im))
    BY <2>1 DEF IsMemberHandle
  <2> QED BY <2>2, <2>3, <2>4
<1> QED BY <1>2, <1>3

\* A bucket has every entry of the name.
LEMMA NamesToAll ==
  ASSUME ChainsWritten, Inv, pc \in EntryPoints, NEW tbl \in Tables,
         call.name \in Info[img[cur].file].names,
         NEW n \in Nat, n > Len(Table(tbl).chain)
  PROVE  NamesTo(tbl, n) = {Anyones(h) : h \in NamedIn(tbl)}
<1> DEFINE f == img[cur].file
           t == Info[f].tables[tbl]
<1>1. f \in Files
  BY DEF Inv, LoadInv, Where, EntryPoints
<1>2. /\ Len(t.chain) \in Nat /\ DOMAIN t.chain = 1..Len(t.chain)
      /\ \A c \in DOMAIN t.chain : t.chain[c].sym \in DOMAIN t.recs
      /\ \A k \in DOMAIN t.recs :
           /\ t.recs[k].code \in Reference => t.recs[k].im \in DOMAIN Info[f].syms
           /\ Refers(f, t.recs[k]).name = call.name =>
                \E c \in DOMAIN t.chain : t.chain[c].sym = k /\ t.chain[c].hash = Hash[call.name]
  <2>1. PICK ff \in Files, tt \in Tables : ff = f /\ tt = tbl
    BY <1>1
  <2> DEFINE u == Info[ff].tables[tt]
  <2>2. Len(u.chain) \in Nat /\ DOMAIN u.chain = 1..Len(u.chain)
    BY Zenon DEF ChainsWritten
  <2>3. \A c \in DOMAIN u.chain : u.chain[c].sym \in DOMAIN u.recs
    BY Zenon DEF ChainsWritten
  <2>4. \A k \in DOMAIN u.recs : u.recs[k].code \in Reference => u.recs[k].im \in DOMAIN Info[ff].syms
    BY Zenon DEF ChainsWritten
  <2>5. \A k \in DOMAIN u.recs : \A nn \in Info[ff].names : Refers(ff, u.recs[k]).name = nn =>
           \E c \in DOMAIN u.chain : u.chain[c].sym = k /\ u.chain[c].hash = Hash[nn]
    BY Zenon DEF ChainsWritten
  <2>6. t = u
    BY <2>1
  <2>7. call.name \in Info[ff].names
    BY <2>1
  <2> HIDE DEF u
  <2> HIDE DEF t, f
  <2> QED BY <2>1, <2>2, <2>3, <2>4, <2>5, <2>6, <2>7
<1>3. Table(tbl) = t
  BY DEF Table
<1> HIDE DEF t
<1>4. ASSUME NEW c \in DOMAIN t.chain, Hashed(tbl, c), Rec(EntryOf(tbl, c)).name = call.name
      PROVE  Anyones(EntryOf(tbl, c)) \in {Anyones(h) : h \in NamedIn(tbl)}
  BY <1>2, <1>3, <1>4 DEF EntryOf, NamedIn, InTable
<1>5. ASSUME NEW h \in NamedIn(tbl) PROVE Anyones(h) \in NamesTo(tbl, n)
  <2>1. PICK k \in DOMAIN t.recs : h = SymFillIn(tbl, k, 0)
    BY <1>3 DEF NamedIn, InTable
  <2>2. Rec(h).name = call.name
    BY DEF NamedIn
  <2>3. Rec(h) = Refers(f, t.recs[k])
    <3>1. CASE t.recs[k].code \in Reference
      <4>1. h = ModuleSym(t.recs[k].im, t.recs[k].sym)
        BY <1>3, <2>1, <3>1 DEF SymFillIn
      <4>2. Rec(h) = Syms(t.recs[k].im)[t.recs[k].sym]
        BY <4>1 DEF Rec, ModuleSym
      <4> QED BY <1>2, <3>1, <4>2 DEF Syms, Refers
    <3>2. CASE t.recs[k].code \notin Reference
      <4>1. h = [im |-> 0, tbl |-> tbl, sym |-> k]
        BY <1>3, <2>1, <3>2 DEF SymFillIn
      <4>2. Rec(h) = t.recs[k]
        BY <1>3, <4>1 DEF Rec, Tables
      <4> QED BY <3>2, <4>2 DEF Refers
    <3> QED BY <3>1, <3>2
  <2>4. PICK c \in DOMAIN t.chain : t.chain[c].sym = k /\ t.chain[c].hash = Hash[call.name]
    BY <1>2, <2>2, <2>3
  <2>5. EntryOf(tbl, c) = h /\ Hashed(tbl, c) /\ c < n
    BY <1>2, <1>3, <2>1, <2>4 DEF EntryOf, Hashed
  <2> QED BY <1>3, <2>2, <2>5 DEF NamesTo
<1>6. NamesTo(tbl, n) \subseteq {Anyones(h) : h \in NamedIn(tbl)}
  BY <1>3, <1>4 DEF NamesTo
<1>7. {Anyones(h) : h \in NamedIn(tbl)} \subseteq NamesTo(tbl, n)
  BY <1>5
<1> QED BY <1>6, <1>7

\* One entry more.
LEMMA NamesToNext ==
  ASSUME NEW tbl, NEW n \in DOMAIN Table(tbl).chain,
         DOMAIN Table(tbl).chain \subseteq Nat
  PROVE  NamesTo(tbl, n + 1) = NamesTo(tbl, n) \cup
           IF Hashed(tbl, n) /\ Rec(EntryOf(tbl, n)).name = call.name
             THEN {Anyones(EntryOf(tbl, n))} ELSE {}
<1> DEFINE Is(e) == Hashed(tbl, e) /\ Rec(EntryOf(tbl, e)).name = call.name
           chain == Table(tbl).chain
           Below(m) == {e \in DOMAIN chain : e < m /\ Is(e)}
<1>1. \A m : NamesTo(tbl, m) = {Anyones(EntryOf(tbl, c)) : c \in Below(m)}
  BY DEF NamesTo
<1>2. Below(n + 1) = Below(n) \cup IF Is(n) THEN {n} ELSE {}
  <2> HIDE DEF Is
  <2> QED OBVIOUS
<1> HIDE DEF Below
<1>3. NamesTo(tbl, n + 1)
        = {Anyones(EntryOf(tbl, c)) : c \in Below(n) \cup IF Is(n) THEN {n} ELSE {}}
  BY <1>1, <1>2
<1> HIDE DEF Is
<1>4. NamesTo(tbl, n + 1) = {Anyones(EntryOf(tbl, c)) : c \in Below(n)} \cup
                              IF Is(n) THEN {Anyones(EntryOf(tbl, n))} ELSE {}
  BY <1>3
<1> QED BY <1>1, <1>4 DEF Is

\* A symbol of a module is handed out.
LEMMA AppendedOwn ==
  ASSUME NEW S, NEW o \in Seq(S), NEW h, ~IsMemberHandle(h), NEW o1, o1 = Append(o, h)
  PROVE  OwnOf(o1) = OwnOf(o) \cup {Len(o) + 1}
<1>1. OwnOf(o1) = OwnOf(o) \cup IF IsMemberHandle(h) THEN {} ELSE {Len(o) + 1}
  BY Appended
<1> QED BY <1>1

\* One symbol more is given.
LEMMA GivenMore ==
  ASSUME NEW S, out \in Seq(S), NEW h, ~IsMemberHandle(h), out' = Append(out, h),
         OwnOf(out) = DOMAIN out
  PROVE  /\ Given' = Given \cup {Anyones(h)} /\ OwnOf(out') = DOMAIN out'
         /\ \E R : out' \in Seq(R)
<1>1. /\ out' \in Seq(S \cup {h}) /\ Len(out) \in Nat
      /\ DOMAIN out = 1..Len(out) /\ DOMAIN out' = 1..(Len(out) + 1)
      /\ out'[Len(out) + 1] = h /\ \A i \in 1..Len(out) : out'[i] = out[i]
      /\ OwnOf(out') = OwnOf(out) \cup {Len(out) + 1}
  <2>1. PICK o, o1 : o = out /\ o1 = out'
    OBVIOUS
  <2>2. o \in Seq(S) /\ o1 = Append(o, h)
    BY <2>1
  <2>3. o1 \in Seq(S \cup {h}) /\ Len(o) \in Nat
    BY <2>2, Appended
  <2>4. /\ DOMAIN o = 1..Len(o) /\ DOMAIN o1 = 1..(Len(o) + 1)
        /\ o1[Len(o) + 1] = h /\ \A i \in 1..Len(o) : o1[i] = o[i]
    BY <2>2, Appended
  <2>5. OwnOf(o1) = OwnOf(o) \cup {Len(o) + 1}
    BY <2>2, AppendedOwn
  <2> QED BY <2>1, <2>3, <2>4, <2>5
<1>2. OwnOf(out') = DOMAIN out'
  BY <1>1
<1>3. Given' = {Anyones(out'[i]) : i \in 1..(Len(out) + 1)}
  BY <1>1 DEF Given
<1>4. Given = {Anyones(out'[i]) : i \in 1..Len(out)}
  BY <1>1 DEF Given
<1>5. 1..(Len(out) + 1) = (1..Len(out)) \cup {Len(out) + 1}
  BY <1>1
<1>6. Given' = Given \cup {Anyones(out'[Len(out) + 1])}
  BY <1>3, <1>4, <1>5
<1> QED BY <1>1, <1>2, <1>6

\* Of the scopes there is nothing more to be done.
LEMMA BehindScopes ==
  ASSUME Looking, pc' \in {"fileone", "name", "done"}, UNCHANGED <<img, cur>>, Asked,
         call'.im = call.im, call'.walked = call.walked, call.op \in AroundOps => ScopeAt, FileAt'
  PROVE  ScopeInv'
<1>1. /\ Here' = Here /\ Covering' = Covering /\ Looking' = Looking /\ call'.op = call.op
  BY ViewStays DEF Asked
<1>2. pc' \in EntryPoints
  BY CalledAt DEF SymbolPoints
<1>3. ASSUME call.op \in AroundOps PROVE ScopeAt'
  <2>1. call'.walked \in Seq(Nat) /\ SmallestScope'
    BY <1>1, <1>3, SmallestStays DEF ScopeAt
  <2>2. call'.op = "lookup"
    BY <1>1, <1>3 DEF Looking, AroundOps
  <2> QED BY <2>1, <2>2 DEF ScopeAt, SearchAt, WalkAt, WalkedAll
<1> QED BY <1>1, <1>2, <1>3 DEF ScopeInv

\* The file's symbols.
LEMMA FileScopes ==
  ASSUME ScopesWritten, ChainsWritten, Inv, MapInv, CallInv, ScopeInv, EnterFile \/ ScopeWalkFile
  PROVE  ScopeInv'
<1>1. pc \in {"file", "fileone"}
  BY DEF EnterFile, ScopeWalkFile
<1>2. /\ pc \in EntryPoints /\ pc' \in EntryPoints /\ UNCHANGED <<img, cur>> /\ CallOf /\ IsCall
  BY StaysCalled DEF ScopeWalk, CallInv, CallOf, files
<1>3. call.op \in {"lookup", "modlookup", "module"}
  BY <1>1, <1>2, PointsOf DEF CallOf
<1>4. Asked /\ (Looking => call'.im = call.im) /\ call'.walked = call.walked
  BY <1>1, <1>2, WalkAsked DEF ScopeWalk
<1>5. CASE call.op = "module"
  BY <1>2, <1>4, <1>5, OtherCalls DEF AroundOps
<1>6. CASE call.op # "module"
  <2>1. Looking /\ FileAt /\ (call.op \in AroundOps => ScopeAt)
    BY <1>2, <1>3, <1>6 DEF Looking, ScopeInv
  <2>2. call'.im = call.im
    BY <1>4, <2>1
  <2>3. /\ Here' = Here /\ Covering' = Covering /\ Hits' = Hits /\ Near' = Near
        /\ FileOnes' = FileOnes /\ Looking' = Looking
    BY <1>2, <1>4, <2>2, ViewStays
  <2>4. IsModule(Here) /\ Chained(Here, {})
    <3>1. IsModule(Here)
      BY <1>2, HereWritten
    <3> QED BY <3>1 DEF Chained
  <2>5. Len(Here) \in Nat /\ DOMAIN Here = 1..Len(Here)
    BY <2>4 DEF IsModule
  <2>6. CASE EnterFile
    <3>1. pc = "file" /\ pc' = "fileone" /\ UNCHANGED out /\ call' = [call EXCEPT !.chk = 1]
      BY <2>6 DEF EnterFile
    <3>2. call'.chk = 1
      BY <1>2, <3>1 DEF IsCall, CallFields
    <3>3. out' = <<>> /\ Near = {}
      BY <2>1, <3>1 DEF FileAt
    <3>4. Level(Here, 0, 1)
      BY <2>4, OpenerEnds DEF Level
    <3>5. Passed(Here, {}, 0, 1) = {}
      BY <2>4, FilePassed
    <3>6. Gives(Here, {}, Hits, <<>>, 0, 1)
      BY <3>5, NothingGiven DEF Gives
    <3>7. OwnOf(out') = DOMAIN out'
      BY <3>3, NothingGiven
    <3>8. FileAt'
      BY <2>3, <2>5, <3>1, <3>2, <3>3, <3>4, <3>6, <3>7 DEF FileAt
    <3> QED BY <1>2, <1>4, <2>1, <2>2, <3>1, <3>8, BehindScopes
  <2>7. CASE ScopeWalkFile
    <3>1. /\ pc = "fileone" /\ Near = {} /\ OwnOf(out) = DOMAIN out
          /\ call.chk \in 1..(Len(Here) + 1) /\ Level(Here, 0, call.chk)
          /\ Gives(Here, {}, Hits, out, 0, call.chk)
      BY <2>1, <2>7 DEF ScopeWalkFile, FileAt
    <3>2. CASE call.chk <= Len(Here)
      <4>1. ScopeOneSymbol(call.chk, TRUE) /\ call.chk \in DOMAIN Here
        <5>1. ~(call.chk > Len(Syms(call.im)))
          BY <2>5, <3>1, <3>2 DEF Here
        <5>2. call.chk \in DOMAIN Here
          BY <2>5, <3>1, <3>2
        <5>3. ScopeOneSymbol(call.chk, TRUE)
          BY <2>7, <5>1 DEF ScopeWalkFile
        <5> QED BY <5>2, <5>3
      <4> DEFINE next == (IF call.chk \in Opens(Here) THEN Here[call.chk].end ELSE call.chk) + 1
                 h == ModuleSym(call.im, call.chk)
      <4>2. /\ call'.chk = next /\ UNCHANGED pc
            /\ out' = IF Here[call.chk].code \notin NotShown /\ call.chk \in Hits
                        THEN Append(out, h) ELSE out
        BY <1>2, <2>1, <4>1, OneShown
      <4> HIDE DEF next, h
      <4>3. ~IsMemberHandle(h) /\ h.sym = call.chk
        BY OwnHandle DEF h
      <4>4. next = (IF call.chk \in Opens(Here) THEN Here[call.chk].end ELSE call.chk) + 1
        BY DEF next
      <4>5. Gives(Here, {}, Hits, out', 0, next) /\ Level(Here, 0, next) /\ next \in Nat /\ call.chk < next
        <5>1. PICK b, c, o1 : b = 0 /\ c = call.chk /\ o1 = out'
          OBVIOUS
        <5>2. /\ b \in Opens(Here) \cup {0} /\ b \in {} \cup {0}
              /\ c \in DOMAIN Here /\ b < c /\ Level(Here, b, c)
              /\ (b # 0 => c <= Here[b].end /\ Here[c].code # "END")
              /\ next = (IF c \in Opens(Here) THEN Here[c].end ELSE c) + 1
              /\ Gives(Here, {}, Hits, out, b, c) /\ h.sym = c
              /\ o1 = IF /\ Here[c].code \notin NotShown
                         /\ (b = 0 \/ c \notin Opens(Here)) /\ c \in Hits
                        THEN Append(out, h) ELSE out
          BY <2>5, <3>1, <4>1, <4>2, <4>3, <4>4, <5>1
        <5>3. Gives(Here, {}, Hits, o1, b, next)
          BY <2>4, <4>3, <5>2, GivesStep
        <5>4. next \in Nat /\ c < next /\ Level(Here, b, next)
          BY <2>4, <5>2, DeclStep
        <5> QED BY <5>1, <5>3, <5>4
      <4>6. next \in 1..(Len(Here) + 1)
        <5>1. call.chk \in Opens(Here) => Here[call.chk].end <= Len(Here)
          BY <2>4, OpenerEnds
        <5>2. call.chk \in Nat \ {0}
          BY <3>1
        <5>3. CASE call.chk \in Opens(Here)
          <6>1. next = Here[call.chk].end + 1 /\ Here[call.chk].end \in Nat
            BY <2>4, <4>4, <5>3, OpenerEnds
          <6> QED BY <2>5, <5>1, <5>3, <6>1
        <5>4. CASE call.chk \notin Opens(Here)
          <6>1. next = call.chk + 1
            BY <4>4, <5>4
          <6> QED BY <2>5, <3>2, <5>2, <6>1
        <5> QED BY <5>3, <5>4
      <4>7. OwnOf(out') = DOMAIN out'
        <5>1. PICK S : out \in Seq(S)
          BY <3>1 DEF Gives
        <5>2. CASE out' = Append(out, h)
          BY <3>1, <4>3, <5>1, <5>2, GivenMore
        <5>3. CASE out' = out
          BY <3>1, <5>3
        <5> QED BY <4>2, <5>2, <5>3
      <4>8. FileAt'
        BY <2>3, <3>1, <4>2, <4>5, <4>6, <4>7 DEF FileAt
      <4> QED BY <1>2, <1>4, <2>1, <2>2, <3>1, <4>2, <4>8, BehindScopes
    <3>3. CASE call.chk > Len(Here)
      <4>1. UNCHANGED out
            /\ IF out # <<>> THEN pc' = "done" /\ wr' = "EXACT"
               ELSE pc' = "name" /\ call' = [call EXCEPT !.tbl = "StaticSym", !.chk = 1, !.is_im = call.im]
        BY <2>1, <2>7, <3>3 DEF ScopeWalkFile, FileDone, Here, Ends
      <4>2. call.chk = Len(Here) + 1
        BY <2>5, <3>1, <3>3
      <4>3. Passed(Here, {}, 0, Len(Here) + 1) = Decl(Here, 0)
        <5>1. Passed(Here, {}, 0, Len(Here) + 1) = (UNION {Decl(Here, t) : t \in {}}) \cup Decl(Here, 0)
          BY <2>4, FilePassed
        <5>2. UNION {Decl(Here, t) : t \in {}} = {}
          OBVIOUS
        <5> QED BY <5>1, <5>2
      <4>4. RecordsOf(out) = FileOnes /\ Ordered(Here, {}, out) /\ \E S : out \in Seq(S)
        BY <3>1, <4>2, <4>3 DEF Gives, FileOnes
      <4>5. CASE out # <<>>
        <5>1. pc' = "done" /\ wr' = "EXACT"
          BY <4>1, <4>5
        <5>2. FileOnes # {}
          <6>1. PICK S : out \in Seq(S)
            BY <4>4
          <6>2. 1 \in DOMAIN out
            BY <4>5, <6>1
          <6> QED BY <3>1, <4>4, <6>2 DEF RecordsOf
        <5>3. Answer'
          BY <2>3, <3>1, <4>1, <4>4, <5>1, <5>2 DEF Answer
        <5>4. FileAt'
          BY <5>1, <5>3 DEF FileAt
        <5> QED BY <1>2, <1>4, <2>1, <2>2, <5>1, <5>4, BehindScopes
      <4>6. CASE out = <<>>
        <5>1. pc' = "name" /\ call' = [call EXCEPT !.tbl = "StaticSym", !.chk = 1, !.is_im = call.im]
              /\ out' = <<>>
          BY <4>1, <4>6
        <5>2. call'.tbl = "StaticSym" /\ call'.chk = 1
          BY <1>2, <5>1 DEF IsCall, CallFields
        <5>3. FileOnes = {}
          BY <4>4, <4>6, NothingGiven
        <5>4. OwnOf(out') = DOMAIN out' /\ out' \in Seq({}) /\ DOMAIN out' = {}
          BY <5>1, NothingGiven
        <5>5. Given' = {}
          BY <5>4 DEF Given
        <5>6. \A tbl, n : NamesTo(tbl, n)' = NamesTo(tbl, n)
          BY <1>2, <1>4, TablesStay DEF Asked
        <5>7. NamesTo("StaticSym", 1) = {}
          BY <1>2, NamesToFirst DEF Tables
        <5>8. NamesTo("StaticSym", 1)' = {}
          BY <5>6, <5>7
        <5>9. NoneBefore("StaticSym")'
          BY DEF NoneBefore
        <5>10. FileAt'
          <6>1. NoneBefore(call.tbl)' /\ Given' = NamesTo(call.tbl, call.chk)'
            BY <5>2, <5>5, <5>8, <5>9
          <6> QED BY <2>3, <3>1, <5>1, <5>2, <5>3, <5>4, <6>1 DEF FileAt, Tables
        <5> QED BY <1>2, <1>4, <2>1, <2>2, <5>1, <5>10, BehindScopes
      <4> QED BY <4>5, <4>6
    <3> QED BY <2>5, <3>1, <3>2, <3>3
  <2> QED BY <2>6, <2>7
<1> QED BY <1>5, <1>6

\* The search of the tables.
LEMMA TableScopes ==
  ASSUME ScopesWritten, ChainsWritten, Inv, MapInv, CallInv, ScopeInv, TableSearchForName
  PROVE  ScopeInv'
<1>1. pc = "name" /\ UNCHANGED <<img, cur>>
  BY DEF TableSearchForName, others, files
<1>2. /\ pc \in EntryPoints /\ CallOf /\ IsCall
  BY <1>1, StaysCalled DEF TableStep, CallInv, CallOf, files
<1>3. Looking /\ call.op \in {"lookup", "modlookup"}
  BY <1>1, <1>2, PointsOf DEF CallOf
<1>4. Asked /\ call'.im = call.im /\ call'.walked = call.walked
  BY <1>1, <1>2, WalkAsked DEF TableStep
<1>5. FileAt /\ (call.op \in AroundOps => ScopeAt)
  BY <1>2, <1>3 DEF ScopeInv
<1>6. /\ Near' = Near /\ FileOnes' = FileOnes /\ Looking' = Looking
  BY <1>1, <1>4, ViewStays
<1>7. /\ \A tbl, n : NamesTo(tbl, n)' = NamesTo(tbl, n)
      /\ \A tbl : NamedIn(tbl)' = NamedIn(tbl) /\ NoneBefore(tbl)' = NoneBefore(tbl)
      /\ FirstNamed' = FirstNamed
  BY <1>1, <1>4, TablesStay DEF Asked
<1> DEFINE tbl == call.tbl
           n == call.chk
           chain == Table(tbl).chain
           h == SymFillIn(tbl, chain[n].sym, call.is_im)
           Of(t) == {Anyones(x) : x \in NamedIn(t)}
<1>8. /\ Near = {} /\ FileOnes = {} /\ OwnOf(out) = DOMAIN out
      /\ tbl \in Tables /\ n \in Nat \ {0} /\ NoneBefore(tbl)
      /\ Given = NamesTo(tbl, n)
  BY <1>1, <1>5 DEF FileAt
<1>9. PICK S : out \in Seq(S)
  BY <1>1, <1>5 DEF FileAt
<1>10. Len(chain) \in Nat /\ DOMAIN chain = 1..Len(chain)
  BY <1>2, <1>8, ChainIs
<1>11. DOMAIN out = {} => out = <<>>
  BY <1>9
<1>12. ASSUME pc' = "done", FileAt' PROVE ScopeInv'
  BY <1>1, <1>3, <1>4, <1>5, <1>12, BehindScopes
<1>13. ASSUME pc' = "name", NEW t, NEW m, t \in Tables, m \in Nat \ {0}, call'.tbl = t, call'.chk = m,
              NoneBefore(t), Given' = NamesTo(t, m), OwnOf(out') = DOMAIN out', \E R : out' \in Seq(R)
       PROVE  ScopeInv'
  <2>1. NoneBefore(call.tbl)' /\ Given' = NamesTo(call.tbl, call.chk)'
    BY <1>7, <1>13
  <2>2. FileAt'
    BY <1>6, <1>8, <1>13, <2>1 DEF FileAt
  <2> QED BY <1>1, <1>3, <1>4, <1>5, <1>13, <2>2, BehindScopes
<1>14. CASE n > Len(chain)
  <2>1. Given = Of(tbl)
    <3>1. call.name \in Info[img[cur].file].names
      BY <1>2, <1>3 DEF CallOf
    <3>2. NamesTo(tbl, n) = Of(tbl)
      BY <1>2, <1>8, <1>14, <3>1, NamesToAll
    <3> QED BY <1>8, <3>2
  <2>2. UNCHANGED out
        /\ IF out # <<>> THEN pc' = "done" /\ wr' = "EXACT"
           ELSE IF After(tbl) = "none" THEN pc' = "done" /\ wr' = "NONE"
           ELSE call' = [call EXCEPT !.tbl = After(tbl), !.chk = 1] /\ UNCHANGED pc
    BY <1>14 DEF TableSearchForName, Ends
  <2>3. out # <<>> <=> NamedIn(tbl) # {}
    <3>1. out # <<>> <=> Given # {}
      <4>1. out = <<>> => DOMAIN out = {}
        OBVIOUS
      <4>2. out = <<>> <=> DOMAIN out = {}
        BY <1>11, <4>1
      <4> QED BY <4>2 DEF Given
    <3>2. Given # {} <=> NamedIn(tbl) # {}
      BY <2>1
    <3> QED BY <3>1, <3>2
  <2> HIDE DEF chain
  <2>4. Given' = Given /\ OwnOf(out') = DOMAIN out'
    BY <1>8, <2>2 DEF Given
  <2>5. ASSUME pc' = "done", wr' \in {"EXACT", "NONE"}, FirstNamed = NamedIn(tbl),
               wr' = "NONE" <=> NamedIn(tbl) = {}
        PROVE  ScopeInv'
    <3>1. {Anyones(x) : x \in FirstNamed}' = Of(tbl)
      BY <1>7, <2>5 DEF Anyones
    <3>2. Answer'
      BY <1>6, <1>7, <1>8, <2>1, <2>4, <2>5, <3>1 DEF Answer
    <3>3. FileAt'
      BY <2>5, <3>2 DEF FileAt
    <3> QED BY <1>12, <2>5, <3>3
  <2>6. CASE out # <<>>
    <3>1. FirstNamed = NamedIn(tbl)
      BY <1>8, <2>3, <2>6 DEF FirstNamed, NoneBefore, Tables
    <3> QED BY <2>2, <2>3, <2>5, <2>6, <3>1
  <2>7. CASE out = <<>> /\ After(tbl) = "none"
    <3>1. tbl = "GlobalPub"
      BY <1>8, <2>7 DEF After, Tables
    <3>2. FirstNamed = NamedIn(tbl)
      BY <1>8, <3>1 DEF FirstNamed, NoneBefore
    <3> QED BY <2>2, <2>3, <2>5, <2>7, <3>2
  <2>8. CASE out = <<>> /\ After(tbl) # "none"
    <3>1. call' = [call EXCEPT !.tbl = After(tbl), !.chk = 1] /\ pc' = "name" /\ out' = out
      BY <1>1, <2>2, <2>8
    <3>2. call'.tbl = After(tbl) /\ call'.chk = 1
      BY <1>2, <3>1 DEF IsCall, CallFields
    <3>3. After(tbl) \in Tables /\ NoneBefore(After(tbl))
      BY <1>8, <2>3, <2>8 DEF After, Tables, NoneBefore
    <3>4. NamesTo(After(tbl), 1) = {}
      BY <1>2, <3>3, NamesToFirst
    <3>5. Given = {}
      BY <2>1, <2>3, <2>8
    <3> QED BY <1>9, <1>13, <2>4, <3>1, <3>2, <3>3, <3>4, <3>5
  <2> QED BY <2>6, <2>7, <2>8
<1>15. CASE n <= Len(chain)
  <2>1. n \in DOMAIN chain /\ DOMAIN chain \subseteq Nat /\ n + 1 \in Nat \ {0}
    BY <1>8, <1>10, <1>15
  <2>2. ~(n > Len(chain))
    BY <1>8, <1>10, <1>15
  <2>3. NamesTo(tbl, n + 1) = NamesTo(tbl, n) \cup
          IF Hashed(tbl, n) /\ Rec(EntryOf(tbl, n)).name = call.name
            THEN {Anyones(EntryOf(tbl, n))} ELSE {}
    BY <1>8, <2>1, NamesToNext
  <2>4. Hashed(tbl, n) <=> chain[n].hash = Hash[call.name]
    BY DEF Hashed
  <2>5. CASE ~Hashed(tbl, n)
    <3>1. call' = [call EXCEPT !.chk = @ + 1] /\ UNCHANGED <<pc, out>>
      BY <2>2, <2>4, <2>5 DEF TableSearchForName
    <3>2. call'.tbl = tbl /\ call'.chk = n + 1
      BY <1>2, <3>1 DEF IsCall, CallFields
    <3>3. Given' = Given /\ OwnOf(out') = DOMAIN out' /\ \E R : out' \in Seq(R)
      BY <1>8, <1>9, <3>1 DEF Given
    <3>4. Given' = NamesTo(tbl, n + 1)
      BY <1>8, <2>3, <2>5, <3>3
    <3> QED BY <1>1, <1>8, <1>13, <2>1, <3>1, <3>2, <3>3, <3>4
  <2>6. CASE Hashed(tbl, n)
    <3>1. /\ call' = [call EXCEPT !.chk = @ + 1, !.is_im = h.im] /\ UNCHANGED pc
          /\ out' = IF Rec(h).name = call.name THEN Append(out, h) ELSE out
      BY <2>2, <2>4, <2>6 DEF TableSearchForName
    <3>2. call'.tbl = tbl /\ call'.chk = n + 1
      BY <1>2, <3>1 DEF IsCall, CallFields
    <3>3. /\ Rec(h) = Rec(EntryOf(tbl, n)) /\ Anyones(h) = Anyones(EntryOf(tbl, n))
          /\ ~IsMemberHandle(h)
      BY <1>8, AnyHandle DEF EntryOf
    <3> HIDE DEF h
    <3>4. /\ Given' = NamesTo(tbl, n + 1)
          /\ OwnOf(out') = DOMAIN out' /\ \E R : out' \in Seq(R)
      <4>1. CASE Rec(h).name = call.name
        <5>1. out' = Append(out, h)
          BY <3>1, <4>1
        <5>2. Given' = Given \cup {Anyones(h)} /\ OwnOf(out') = DOMAIN out' /\ \E R : out' \in Seq(R)
          BY <1>8, <1>9, <3>3, <5>1, GivenMore
        <5> QED BY <1>8, <2>3, <2>6, <3>3, <4>1, <5>2
      <4>2. CASE Rec(h).name # call.name
        <5>1. out' = out
          BY <3>1, <4>2
        <5>2. Given' = Given
          BY <5>1 DEF Given
        <5> QED BY <1>8, <1>9, <2>3, <3>3, <4>2, <5>1, <5>2
      <4> QED BY <4>1, <4>2
    <3> QED BY <1>1, <1>8, <1>13, <2>1, <3>1, <3>2, <3>4
  <2> QED BY <2>5, <2>6
<1> QED BY <1>8, <1>10, <1>14, <1>15

\* The other steps of the tables, and a call that fails.
LEMMA OtherScopes ==
  ASSUME ScopesWritten, Inv, MapInv, CallInv, ScopeInv,
         TableWalkSym \/ AddrSym \/ PeelArray \/ CallFails
  PROVE  ScopeInv'
<1>1. /\ pc \in EntryPoints /\ pc' \in EntryPoints /\ UNCHANGED <<img, cur>> /\ CallOf /\ IsCall
  BY StaysCalled DEF TableStep, CallInv, CallOf, files
<1>2. Asked
  BY <1>1, WalkAsked DEF TableStep
<1>3. CASE TableWalkSym \/ AddrSym \/ PeelArray
  <2>1. pc \in {"table", "addr", "peel"}
    BY <1>3 DEF TableWalkSym, AddrSym, PeelArray
  <2>2. call.op \notin AroundOps \cup {"modlookup"}
    BY <1>1, <2>1, PointsOf DEF CallOf, AroundOps
  <2> QED BY <1>1, <1>2, <2>2, OtherCalls
<1>4. CASE CallFails
  <2>1. pc' = "done" /\ wr' = "FAIL" /\ UNCHANGED <<call, out>>
    BY <1>4 DEF CallFails, Ends
  <2>2. pc \in {"ssearch", "outermost", "smallest", "one", "class", "blockwalk", "outerblock",
                "fileone", "name", "table", "addr"}
    BY <1>4 DEF CallFails
  <2>3. Covering' = Covering
    BY <1>1, <1>2, <2>1, ViewStays
  <2>4. call.op \in AroundOps => call'.walked \in Seq(Nat) /\ SmallestScope'
    BY <1>1, <2>1, <2>3, SmallestStays DEF ScopeInv, ScopeAt
  <2>5. call.op \in {"scoped", "block"} =>
           /\ \E S : out' \in Seq(S)
           /\ Ordered(Here, Covering, out') /\ Closed(Here, Covering, out')
    <3> SUFFICES ASSUME call.op \in {"scoped", "block"}
                 PROVE  /\ \E S : out \in Seq(S)
                        /\ Ordered(Here, Covering, out) /\ Closed(Here, Covering, out)
      BY <2>1
    <3>1. call.addr \in [seg : Nat, off : Nat] /\ pc \in Path(call.op)
      BY <1>1 DEF CallOf
    <3>2. pc \in AroundPoints
      BY <2>2, <3>1, PointsOf DEF AroundPoints, AroundOps
    <3>3. IsModule(Here) /\ Chained(Here, Covering)
      BY <1>1, <3>1, ScopesPlaced
    <3>4. ScopeAt /\ ~Looking
      BY <1>1 DEF ScopeInv, AroundOps, Looking
    <3> QED BY <3>2, <3>3, <3>4, ClosedSoFar
  <2> QED BY <1>1, <1>2, <2>1, <2>4, <2>5, EndsEarly
<1> QED BY <1>3, <1>4

\* What a walk of a class's members gives is no symbol of the module.
LEMMA WalkShows ==
  ASSUME TypeListWalk, walk.client \in {"user", "find"}
  PROVE  out' = out \/ \E h : IsMemberHandle(h) /\ out' = Append(out, h)
<1>1. \A mfunc : IsMemberHandle(Handle(mfunc))
  BY DEF IsMemberHandle, Handle
<1>2. CASE Symbol
  <2>1. CASE WalkSymbol
    BY <1>1, <2>1 DEF WalkSymbol
  <2>2. CASE SearchSymbol \/ ThunkSymbol \/ VTabSymbol \/ Ignored
    BY <2>2 DEF SearchSymbol, ThunkSymbol, VTabSymbol, Ignored
  <2> QED BY <1>2, <2>1, <2>2 DEF Symbol
<1> QED BY <1>2 DEF TypeListWalk, ListDone, InheritEnd, NextList, SkipVirtual, SkipBase,
                    InheritStart, InheritFails, EnterList, WalkFails

\* The members of the class of a scope's procedure.
LEMMA ClassScopes ==
  ASSUME ScopesWritten, Inv, MapInv, CallInv, ScopeInv, TypeListWalk, UNCHANGED call
  PROVE  ScopeInv'
<1>1. /\ pc = "list" /\ UNCHANGED files
      /\ \/ pc' \in {"list", walk.ret}
         \/ pc' = "done" /\ wr' \in {"STOP", "FAIL", "CONTINUE"}
              /\ (walk.ret # "done" => wr' # "CONTINUE")
  BY WalkKeeps
<1>2. /\ pc \in EntryPoints /\ UNCHANGED <<img, cur>> /\ CallOf /\ IsCall
  <2>1. pc \in EntryPoints
    BY <1>1, CalledAt
  <2> QED BY <1>1, <2>1 DEF CallInv, CallOf, files
<1>3. Asked /\ call'.im = call.im /\ call'.walked = call.walked
  BY <1>2, SameAsked
<1>4. IF call.op \in AroundOps THEN WalksFor(call.op) ELSE walk.ret = "done"
  BY <1>1, <1>2 DEF CallOf
<1>5. CASE call.op \notin AroundOps
  <2>1. call.op # "modlookup"
    BY <1>1, <1>2, PointsOf DEF CallOf
  <2>2. pc' \in {"list", "done"}
    BY <1>1, <1>4, <1>5
  <2>3. pc' \in EntryPoints
    BY <2>2, CalledAt DEF SymbolPoints
  <2> QED BY <1>3, <1>5, <2>1, <2>3, OtherCalls
<1>6. CASE call.op \in AroundOps
  <2>1. ScopeAt /\ Through
    BY <1>1, <1>2, <1>6 DEF ScopeInv, ScopeAt, WalkAt
  <2>2. /\ Here' = Here /\ Covering' = Covering /\ Hits' = Hits
    BY <1>2, <1>3, ViewStays
  <2>3. call'.walked \in Seq(Nat) /\ SmallestScope'
    BY <1>3, <2>1, <2>2, SmallestStays DEF ScopeAt
  <2>4. Gives(Here, Covering, Hits, out', call.scope, Len(Here) + 1)
    <3>1. Gives(Here, Covering, Hits, out, call.scope, Len(Here) + 1)
      BY <2>1 DEF Through, Giving
    <3>2. out' = out \/ \E h : IsMemberHandle(h) /\ out' = Append(out, h)
      BY <1>4, <1>6, WalkShows DEF WalksFor
    <3>3. CASE out' = out
      BY <3>1, <3>3
    <3>4. ASSUME NEW h, IsMemberHandle(h), out' = Append(out, h)
          PROVE  Gives(Here, Covering, Hits, out', call.scope, Len(Here) + 1)
      <4>1. PICK S : out \in Seq(S)
        BY <3>1 DEF Gives
      <4>2. PICK o1 : o1 = out'
        OBVIOUS
      <4>3. o1 = Append(out, h)
        BY <3>4, <4>2
      <4>4. (\E R : o1 \in Seq(R)) /\ RecordsOf(o1) = RecordsOf(out)
        BY <3>4, <4>1, <4>3, MemberShown
      <4>5. Ordered(Here, Covering, out) => Ordered(Here, Covering, o1)
        BY <3>4, <4>1, <4>3, MemberShown
      <4> QED BY <3>1, <4>2, <4>4, <4>5 DEF Gives
    <3> QED BY <3>2, <3>3, <3>4
  <2>5. CASE pc' \in {"list", walk.ret}
    <3>1. pc' \in {"list", "outer", "outerblock"}
      BY <1>4, <1>6, <2>5 DEF WalksFor
    <3>2. Through'
      BY <1>3, <2>1, <2>2, <2>4 DEF Through, Giving
    <3>3. WalkAt'
      BY <3>1, <3>2 DEF WalkAt
    <3> QED BY <1>3, <1>6, <2>3, <3>1, <3>3, WalkGoes
  <2>6. CASE pc' = "done" /\ wr' \in {"STOP", "FAIL"}
    <3>1. call.op \in {"scoped", "block"} =>
            /\ \E S : out' \in Seq(S)
            /\ Ordered(Here, Covering, out') /\ Closed(Here, Covering, out')
      <4> SUFFICES ASSUME call.op \in {"scoped", "block"}
                   PROVE  /\ \E S : out' \in Seq(S)
                          /\ Ordered(Here, Covering, out') /\ Closed(Here, Covering, out')
        OBVIOUS
      <4>1. IsModule(Here) /\ Chained(Here, Covering)
        <5>1. call.addr \in [seg : Nat, off : Nat]
          BY <1>2 DEF CallOf
        <5> QED BY <1>2, <5>1, ScopesPlaced
      <4>2. Hits = DOMAIN Here
        BY DEF Hits, Looking
      <4>3. PICK o, b, c : o = out' /\ b = call.scope /\ c = Len(Here) + 1
        OBVIOUS
      <4>4. Gives(Here, Covering, DOMAIN Here, o, b, c) /\ b \in Covering /\ c \in Int
        BY <2>1, <2>4, <4>1, <4>2, <4>3 DEF Through, IsModule
      <4>5. Closed(Here, Covering, o)
        BY <4>1, <4>4, GivesClosed
      <4> QED BY <4>3, <4>4, <4>5 DEF Gives
    <3> QED BY <1>2, <1>3, <2>3, <2>6, <3>1, EndsEarly
  <2>7. walk.ret # "done"
    BY <1>4, <1>6 DEF WalksFor
  <2> QED BY <1>1, <2>5, <2>6, <2>7
<1> QED BY <1>5, <1>6

\* A step that changes nothing.
LEMMA NothingScopes == ASSUME ScopeInv, UNCHANGED vars PROVE ScopeInv'
<1>1. /\ UNCHANGED <<img, cur, pc, out, wr, call>>
  BY DEF vars
<1>2. CASE pc \notin EntryPoints
  BY <1>1, <1>2 DEF ScopeInv
<1>3. CASE pc \in EntryPoints
  <2>1. /\ Here' = Here /\ Covering' = Covering /\ InSegment' = InSegment
        /\ Hits' = Hits /\ InScopes' = InScopes
    BY <1>1 DEF Here, Syms, Covering, IsScope, Start, Location, MapLogical, Length, InSegment, Opens,
                Hits, Looking, Matches, InScopes
  <2>2. Near' = Near /\ FileOnes' = FileOnes /\ Looking' = Looking
    BY <1>1, <2>1 DEF Near, FileOnes, Looking
  <2>3. call.op \in AroundOps => ScopeAt'
    <3> SUFFICES ASSUME ScopeAt PROVE ScopeAt'
      BY <1>3 DEF ScopeInv
    <3>1. SearchAt'
      BY <1>1, <2>1 DEF ScopeAt, SearchAt
    <3>2. WalkAt'
      BY <1>1, <2>1 DEF ScopeAt, WalkAt, Through, Giving
    <3>3. WalkedAll'
      BY <1>1, <2>1 DEF ScopeAt, WalkedAll
    <3>4. SmallestScope'
      BY <1>1, <2>1 DEF ScopeAt, SmallestScope
    <3> QED BY <1>1, <3>1, <3>2, <3>3, <3>4 DEF ScopeAt
  <2>4. Looking => FileAt'
    <3>1. \A tbl : Table(tbl)' = Table(tbl)
      BY <1>1 DEF Table
    <3>2. \A h : Rec(h)' = Rec(h)
      BY <1>1, <3>1 DEF Rec, Syms
    <3>3. \A tbl, k, im : SymFillIn(tbl, k, im)' = SymFillIn(tbl, k, im)
      BY <1>1, <3>1 DEF SymFillIn
    <3>4. \A tbl : NamedIn(tbl)' = NamedIn(tbl)
      BY <1>1, <3>1, <3>2, <3>3 DEF NamedIn, InTable
    <3>5. \A tbl, n : NamesTo(tbl, n)' = NamesTo(tbl, n)
      BY <1>1, <3>1, <3>2, <3>3 DEF NamesTo, EntryOf, Hashed
    <3>6. \A tbl : NoneBefore(tbl)' = NoneBefore(tbl)
      BY <3>4 DEF NoneBefore
    <3>7. FirstNamed' = FirstNamed
      BY <3>4 DEF FirstNamed
    <3>8. Given' = Given
      BY <1>1 DEF Given
    <3> SUFFICES ASSUME FileAt PROVE FileAt'
      BY <1>3 DEF ScopeInv
    <3>9. Answer' = Answer
      BY <1>1, <2>1, <2>2, <3>7, <3>8 DEF Answer
    <3>10. NoneBefore(call.tbl)' = NoneBefore(call.tbl)
           /\ NamesTo(call.tbl, call.chk)' = NamesTo(call.tbl, call.chk)
      BY <1>1, <3>5, <3>6
    <3> QED BY <1>1, <2>1, <2>2, <3>8, <3>9, <3>10 DEF FileAt
  <2> QED BY <1>1, <1>3, <2>2, <2>3, <2>4 DEF ScopeInv
<1> QED BY <1>2, <1>3

\* Every step keeps the fifth invariant.
LEMMA ScopeStays ==
  ASSUME ScopesWritten, ChainsWritten, Inv, MapInv, CallInv, ScopeInv, [Next]_vars
  PROVE  ScopeInv'
<1>1. CASE UNCHANGED vars
  BY <1>1, NothingScopes
<1>2. CASE Load \/ (LoadInfo /\ UNCHANGED locals)
  <2>1. pc \in LoadSteps \cup {"idle"} /\ pc' \in LoadSteps \cup {"idle"} /\ UNCHANGED call
    BY <1>2 DEF Load, LoadInfo, FindCV, MapInfo, UnloadInfo, ListImage, LoadHeader, AllocBlock,
                ReadBlock, LoadMapping, LoadTypes, SetMADType, LoadFails, LoadSteps, locals
  <2> QED BY <2>1 DEF ScopeInv, EntryPoints
<1>3. CASE Request
  <2>1. CallInv'
    BY <1>3, RequestCall
  <2>2. pc' = "enter"
    BY <1>3 DEF Request, Enter
  <2>3. pc' \in EntryPoints
    BY <2>2, CalledAt DEF SymbolPoints
  <2>4. call'.walked = <<>>
    BY <2>1, <2>2, <2>3 DEF CallInv, CallOf
  <2>5. ScopeAt'
    BY <2>2, <2>4, NothingWalkedNext DEF ScopeAt, SearchAt, WalkAt, WalkedAll
  <2>6. FileAt'
    BY <2>2 DEF FileAt
  <2> QED BY <2>3, <2>5, <2>6 DEF ScopeInv
<1>4. CASE TypeListWalk /\ UNCHANGED call
  BY <1>4, ClassScopes
<1>5. CASE Finish
  BY <1>5 DEF Finish, ScopeInv, EntryPoints
<1>6. CASE Dispatch
  BY <1>6, DispatchScopes
<1>7. CASE ScopeSearch
  BY <1>7, SearchScopes
<1>8. CASE ScopeWalk
  BY <1>8, AroundWalks, FileScopes DEF ScopeWalk
<1>9. CASE TableStep \/ PeelArray \/ CallFails
  BY <1>9, TableScopes, OtherScopes DEF TableStep
<1> QED BY <1>1, <1>2, <1>3, <1>4, <1>5, <1>6, <1>7, <1>8, <1>9 DEF Next, Step

\* The fifth invariant always holds.
LEMMA AlwaysScope == ASSUME ScopesWritten, ChainsWritten PROVE Spec => []ScopeInv
<1>1. Init => ScopeInv
  BY DEF Init, InitLoad, InitSymbols, ScopeInv, EntryPoints
<1>2. Spec => [](Inv /\ MapInv /\ CallInv)
  BY AlwaysInv, AlwaysMap, AlwaysCall, PTL
<1>3. Inv /\ MapInv /\ CallInv /\ ScopeInv /\ [Next]_vars => ScopeInv'
  BY ScopeStays
<1> QED BY <1>1, <1>2, <1>3, PTL DEF Spec

\* What the invariants say of the promises.
LEMMA ScopesPromised ==
  ASSUME ScopesWritten, Inv, MapInv, CallInv, ScopeInv
  PROVE  ScopesRight
<1>1. CASE pc \notin EntryPoints
  <2>1. call.walked = <<>> /\ call.op = "none"
    BY <1>1 DEF ScopeInv, NoCall
  <2> QED BY <2>1 DEF ScopesRight, SmallestScope, NamesInScope, LookupNearest, Done
<1>2. CASE pc \in EntryPoints
  <2>1. CallOf /\ call.addr \in [seg : Nat, off : Nat]
    BY <1>2 DEF CallInv, CallOf
  <2>2. IsModule(Here) /\ Covering \subseteq Opens(Here)
    BY <1>2, <2>1, ScopesPlaced
  <2>3. \A b \in Covering \cup {0} : Declared(b) = Decl(Here, b)
    BY <2>2, DeclaredAre
  <2>4. InScope = InScopes
    BY <2>3 DEF InScope, InScopes
  <2>5. Own = OwnOf(out) /\ Records = RecordsOf(out)
    BY DEF Own, OwnOf, Records, RecordsOf
  <2>6. \A j, k : Sooner(j, k) <=> SoonerIn(Here, Covering, j, k)
    BY <2>3 DEF Sooner, SoonerIn
  <2>7. ASSUME Ordered(Here, Covering, out) PROVE NearestFirst
    BY <2>5, <2>6, <2>7 DEF Ordered, NearestFirst
  <2>8. ASSUME Ordered(Here, {}, out) PROVE NearestFirst
    <3>1. \A j, k : SoonerIn(Here, {}, j, k) => SoonerIn(Here, Covering, j, k)
      BY DEF SoonerIn
    <3> QED BY <2>5, <2>6, <2>8, <3>1 DEF Ordered, NearestFirst
  <2>9. SmallestScope
    <3>1. CASE call.op \in AroundOps
      BY <1>2, <3>1 DEF ScopeInv, ScopeAt
    <3>2. CASE call.op \notin AroundOps
      BY <2>1, <3>2 DEF CallOf, SmallestScope
    <3> QED BY <3>1, <3>2
  <2>10. NamesInScope
    <3> SUFFICES ASSUME Done("scoped") \/ Done("block")
                 PROVE  /\ NearestFirst /\ Records \subseteq InScope
                        /\ \A j \in InScope : (\E k \in Records : Sooner(j, k)) => j \in Records
                        /\ wr = "CONTINUE" => InScope \subseteq Records
      BY DEF NamesInScope
    <3>1. /\ Ordered(Here, Covering, out) /\ Closed(Here, Covering, out)
          /\ wr = "CONTINUE" => InScopes \subseteq RecordsOf(out)
      BY <1>2 DEF Done, ScopeInv, ScopeAt, WalkedAll, AroundOps
    <3>2. /\ RecordsOf(out) \subseteq InScopes
          /\ \A j \in InScopes : (\E k \in RecordsOf(out) : SoonerIn(Here, Covering, j, k))
                                    => j \in RecordsOf(out)
      BY <3>1 DEF Closed, InScopes
    <3> QED BY <2>4, <2>5, <2>6, <2>7, <3>1, <3>2
  <2>11. LookupNearest
    <3> SUFFICES ASSUME Done("lookup") \/ Done("modlookup"), wr \in {"EXACT", "NONE"}
                 PROVE  LookupNearest
      BY DEF LookupNearest
    <3>1. Looking /\ Answer /\ pc = "done"
      BY <1>2 DEF Done, Looking, ScopeInv, FileAt
    <3>2. \A recs : recs \subseteq DOMAIN Here => OfName(recs) = recs \cap Hits
      BY <3>1 DEF OfName, Hits, Here
    <3>3. InScopes \subseteq DOMAIN Here /\ Decl(Here, 0) \subseteq DOMAIN Here
      BY DEF InScopes, Decl
    <3>4. call.im = Global => Near = {} /\ FileOnes = {}
      BY <1>2, NowhereEmpty
    <3>5. Near = IF call.op = "lookup" /\ call.im # Global THEN OfName(InScope) ELSE {}
      BY <2>4, <3>2, <3>3, <3>4 DEF Near
    <3>6. FileOnes = IF call.im # Global THEN OfName(Declared(0)) ELSE {}
      BY <2>3, <3>2, <3>3, <3>4 DEF FileOnes
    <3>7. IF Near # {} \/ Own # DOMAIN out THEN wr = "EXACT" /\ Records = Near /\ NearestFirst
          ELSE IF FileOnes # {} THEN wr = "EXACT" /\ Records = FileOnes /\ NearestFirst
          ELSE /\ wr = "NONE" <=> FirstNamed = {}
               /\ {Anyones(out[i]) : i \in DOMAIN out} = {Anyones(h) : h \in FirstNamed}
      <4>1. CASE Near # {} \/ Own # DOMAIN out
        BY <2>5, <2>7, <3>1, <4>1 DEF Answer
      <4>2. CASE ~(Near # {} \/ Own # DOMAIN out) /\ FileOnes # {}
        BY <2>5, <2>8, <3>1, <4>2 DEF Answer
      <4>3. CASE ~(Near # {} \/ Own # DOMAIN out) /\ FileOnes = {}
        BY <2>5, <3>1, <4>3 DEF Answer, Given
      <4> QED BY <4>1, <4>2, <4>3
    <3> QED BY <3>5, <3>6, <3>7 DEF LookupNearest
  <2> QED BY <2>9, <2>10, <2>11 DEF ScopesRight
<1> QED BY <1>1, <1>2

\* Of files written as ScopesWritten and ChainsWritten say, whatever their
\* scopes, symbols and tables are, the debugger sees scopes as they are: the
\* search (ScopeFindFirst) finds the innermost scope of an address, the walks
\* of its scopes (DIPImpWalkSymList, by SS_SCOPED or block by block) give the
\* symbols of each, innermost first and none left out, and a lookup by name
\* (DIPImpLookupSym) the nearest declarations, the file's, or those of the
\* first table that has the name.
THEOREM ScopesAreRight == ASSUME ScopesWritten, ChainsWritten PROVE Spec => []ScopesRight
<1>1. Inv /\ MapInv /\ CallInv /\ ScopeInv => ScopesRight
  BY ScopesPromised
<1> QED BY <1>1, AlwaysInv, AlwaysMap, AlwaysCall, AlwaysScope, PTL
=============================================================================

------------------------------- MODULE CvLoad -------------------------------
(***************************************************************************)
(* The CodeView DIP's images: DIPImpLoadInfo, DIPImpMapInfo and            *)
(* DIPImpUnloadInfo (dip_src/cvld.c) with the walks of the subsection      *)
(* directory (dip_src/cvmisc.c).  Loading is a sequence of steps that      *)
(* allocate memory and read the file; any of them can fail, and what the   *)
(* earlier ones took is then given back.  The debugger calls one entry     *)
(* point at a time.                                                        *)
(*                                                                         *)
(* What a file holds does not change while it is loaded, so the state has  *)
(* its name only: Info[f] is its contents.                                 *)
(***************************************************************************)
EXTENDS Integers, SequencesExt, FiniteSetsExt

CONSTANTS
  Images,        \* the image handles the debugger loads into
  Files,         \* the files it may load
  Info,          \* Info[f] : the debugging information of f
  BlockEntries,  \* DIRECTORY_BLOCK_ENTRIES
  None           \* no image, no file, no name

Global == 0      \* MH_GBL

\* The modules of a file are numbered from 1; its directory has an entry
\* [im, sst] for each subsection.
Sections == {"Module", "AlignSym", "SegMap", "GlobalTypes",
             "StaticSym", "GlobalSym", "GlobalPub"}

ASSUME BlockAssumption == BlockEntries \in Nat \ {0}
\* The linker writes a directory entry for each subsection, at least one.
ASSUME FilesAssumption ==
  /\ None \notin Images \cup Files /\ DOMAIN Info = Files
  /\ \A f \in Files : /\ Info[f].dir \in Seq([im : Nat, sst : Sections]) \ {<<>>}
                      /\ Info[f].signature \in BOOLEAN /\ Info[f].header \in BOOLEAN

\* The linker numbers the segments; they, what they are loaded at and the
\* addresses asked for are numbers.
ASSUME SegmentsAssumption ==
  \A f \in Files :
    /\ Info[f].segs \in Seq([frame : Nat, offset : Nat, execute : BOOLEAN])
    /\ \A where \in Info[f].places, k \in DOMAIN Info[f].segs :
         where[Info[f].segs[k].frame].offset \in Nat
    /\ Info[f].addrs \subseteq [seg : Nat, off : Nat]

VARIABLES
  ImageList,   \* the images whose information is loaded or being loaded; the
               \* order of the list is of no consequence here
  img,         \* the imp_image_handle of each image
  heap,        \* the memory held: what was allocated for which image
  pc,          \* where the entry point being executed is; "idle" between calls
  cur          \* the image it was called for

loading == <<ImageList, img, heap>>

Fresh == [file |-> None, dir |-> <<>>, dir_count |-> 0, mapping |-> <<>>,
          types_base |-> FALSE, mad |-> "none", mapped |-> FALSE]

LoadSteps == {"vm", "header", "block", "read", "segmap", "types", "mad"}

InitLoad ==
  /\ ImageList = {} /\ img = [ii \in Images |-> Fresh] /\ heap = {}
  /\ pc = "idle" /\ cur = None

-----------------------------------------------------------------------------
(***************************************************************************)
(* The directory, kept in blocks of BlockEntries (FindDirEntry,            *)
(* WalkDirList).                                                           *)
(***************************************************************************)

BlockFactor(i, n) == (i + n - 1) \div n

\* Mutant of Scanned: no special case for the last, partly filled block.
ScannedFull(ii) ==
  (1..(BlockFactor(img[ii].dir_count, BlockEntries) - 1)) \X (1..BlockEntries)

\* The entries both walks visit, as <<block, entry>>: all of the full
\* blocks, then what remains in the last one.
Scanned(ii) ==
  LET full == BlockFactor(img[ii].dir_count, BlockEntries) - 1 IN
  ((1..full) \X (1..BlockEntries))
    \cup ({full + 1} \X (1..(img[ii].dir_count - full * BlockEntries)))

Entry(ii, e) == img[ii].dir[e[1]][e[2]]

HasDirEntry(ii, im, sst) ==
  \E e \in Scanned(ii) : Entry(ii, e) = [im |-> im, sst |-> sst]

\* The modules WalkDirList hands to its walker, in directory order.
EarlierEntry(a, b) == a[1] < b[1] \/ (a[1] = b[1] /\ a[2] < b[2])
InOrder(entries) ==
  CHOOSE s \in [1..Cardinality(entries) -> entries] :
    \A j, k \in DOMAIN s : j < k => EarlierEntry(s[j], s[k])
ModulesOf(ii) ==
  LET order == InOrder({e \in Scanned(ii) : Entry(ii, e).sst = "Module"})
  IN  [k \in DOMAIN order |-> Entry(ii, order[k]).im]

-----------------------------------------------------------------------------
(***************************************************************************)
(* Loading.                                                                *)
(***************************************************************************)

\* What is held for an image, as <<image, what, number of the block>>.
Held(ii) == {h \in heap : h[1] = ii}
Allocate(what, k) == heap' = heap \cup {<<cur, what, k>>}

\* Cleanup frees what the handle points to, the blocks as far as they were
\* allocated, and takes the image off the list.
Cleanup(ii) ==
  LET blocks == {<<ii, "block", k>> :
                   k \in 1..BlockFactor(img[ii].dir_count, BlockEntries)}
  IN  /\ ImageList' = ImageList \ {ii}
      /\ heap' = heap \ ({<<ii, "vm", 0>>, <<ii, "mapping", 0>>}
                           \cup IF <<ii, "directory", 0>> \in heap
                                  THEN {<<ii, "directory", 0>>} \cup blocks ELSE {})

\* Mutant of LoadFails: a failed load only takes the image off the list.
LoadFailsDirty == /\ pc \in LoadSteps /\ pc' = "idle" /\ cur' = None
                  /\ img' = [img EXCEPT ![cur] = Fresh]
                  /\ ImageList' = ImageList \ {cur} /\ UNCHANGED heap

\* A read or an allocation fails, or the information is invalid.
LoadFails ==
  /\ pc \in LoadSteps
  /\ pc' = "idle" /\ cur' = None
  /\ img' = [img EXCEPT ![cur] = Fresh]
  /\ IF pc = "vm" THEN UNCHANGED <<ImageList, heap>> ELSE Cleanup(cur)

\* FindCV: TryFindPE never finds it, so the trailer decides.  A file without
\* is another DIP's.
FindCV(ii, f) ==
  /\ pc = "idle" /\ ii \notin ImageList
  /\ Info[f].signature
  /\ img' = [img EXCEPT ![ii] = [Fresh EXCEPT !.file = f]]
  /\ pc' = "vm" /\ cur' = ii
  /\ UNCHANGED <<ImageList, heap>>

\* VMInit; the image is listed before anything else is read.
ListImage ==
  /\ pc = "vm"
  /\ Allocate("vm", 0) /\ ImageList' = ImageList \cup {cur}
  /\ pc' = "header" /\ UNCHANGED <<img, cur>>

Contents == Info[img[cur].file]

LoadHeader ==
  /\ pc = "header" /\ Contents.header
  /\ Allocate("directory", 0)
  /\ img' = [img EXCEPT ![cur].dir_count = Len(Contents.dir)]
  /\ pc' = "block" /\ UNCHANGED <<ImageList, cur>>

\* The loop that allocates and reads the blocks.
AllocBlock ==
  /\ pc = "block" /\ Allocate("block", Len(img[cur].dir) + 1)
  /\ pc' = "read" /\ UNCHANGED <<ImageList, img, cur>>

ReadBlock ==
  LET from == Len(img[cur].dir) * BlockEntries
      left == img[cur].dir_count - from
      num  == IF left < BlockEntries THEN left ELSE BlockEntries
  IN  /\ pc = "read"
      /\ img' = [img EXCEPT ![cur].dir =
                   Append(@, SubSeq(Contents.dir, from + 1, from + num))]
      /\ pc' = IF left = num THEN "segmap" ELSE "block"
      /\ UNCHANGED <<ImageList, heap, cur>>

LoadMapping ==
  /\ pc = "segmap" /\ HasDirEntry(cur, Global, "SegMap")
  /\ Allocate("mapping", 0)
  /\ img' = [img EXCEPT ![cur].mapping = Contents.segs]
  /\ pc' = "types" /\ UNCHANGED <<ImageList, cur>>

LoadTypes ==
  /\ pc = "types"
  /\ img' = [img EXCEPT ![cur].types_base = HasDirEntry(cur, Global, "GlobalTypes")]
  /\ pc' = "mad" /\ UNCHANGED <<ImageList, heap, cur>>

\* SetMADType: the first module whose S_COMPILE record is found decides.
Compilers(ii) ==
  SelectSeq([k \in DOMAIN ModulesOf(ii) |-> Info[img[ii].file].machine[ModulesOf(ii)[k]]],
            LAMBDA m : m # "none")
SetMADType ==
  /\ pc = "mad"
  /\ LET c == Compilers(cur) IN
     /\ c # <<>> => Head(c) \in {"x86", "axp"}
     /\ img' = [img EXCEPT ![cur].mad = IF c = <<>> THEN @ ELSE Head(c)]
  /\ pc' = "idle" /\ cur' = None
  /\ UNCHANGED <<ImageList, heap>>

\* DIPImpMapInfo: each segment's frame and offset become those it was loaded
\* at.  DCMapAddr is the debugger's: where[frame] is the address of a section.
DCMapAddr(seg, where) ==
  [seg EXCEPT !.frame = where[seg.frame].frame, !.offset = where[seg.frame].offset + @]
MapInfo(ii, where) ==
  /\ pc = "idle" /\ ii \in ImageList /\ ~img[ii].mapped
  /\ img' = [img EXCEPT ![ii].mapped = TRUE,
               ![ii].mapping = [k \in DOMAIN @ |-> DCMapAddr(@[k], where)]]
  /\ UNCHANGED <<ImageList, heap, pc, cur>>

\* MapLogical, and SegIsExecutable (whose DS_OK is 0).
MapLogical(ii, a) ==
  [seg |-> img[ii].mapping[a.seg].frame, off |-> img[ii].mapping[a.seg].offset + a.off]
SegIsExecutable(ii, log) == IF img[ii].mapping[log].execute THEN "OK" ELSE "FAIL"

UnloadInfo(ii) ==
  /\ pc = "idle" /\ ii \in ImageList
  /\ Cleanup(ii)
  /\ img' = [img EXCEPT ![ii] = Fresh]
  /\ UNCHANGED <<pc, cur>>

LoadInfo == ListImage \/ LoadHeader \/ AllocBlock \/ ReadBlock \/ LoadMapping \/ LoadTypes
              \/ SetMADType \/ LoadFails

-----------------------------------------------------------------------------
Loaded(ii) == ii \in ImageList /\ ~(cur = ii /\ pc \in LoadSteps)

\* An image that is not listed holds no memory: a load that failed at any
\* step, and an unload, gave everything back.
NothingKept ==
  \A ii \in Images : ii \notin ImageList => Held(ii) = {}

\* Every subsection of the file is found in the blocks the directory was
\* loaded into, and no other, also when the last block is just full.
DirectoryWhole ==
  \A ii \in Images : Loaded(ii) =>
    \A im \in 0..Len(Info[img[ii].file].machine), sst \in Sections :
      HasDirEntry(ii, im, sst)
        <=> [im |-> im, sst |-> sst] \in ToSet(Info[img[ii].file].dir)
=============================================================================

-------------------------------- MODULE Images --------------------------------
(***************************************************************************)
(* The debugger's images (DbgImageList, wv/c/dbgprog.c) and what loading,  *)
(* unloading and restarting them does to the point table (BrkList and      *)
(* UserTmpBrk, wv/c/dbgbrk.c).                                             *)
(*                                                                         *)
(* When an image goes, the points in it are unmapped: a point on a source  *)
(* line keeps the line's name, any other one an address relative to the    *)
(* image.  When an image with symbols comes, every unmapped point is tried *)
(* again and gets the address its target has now: the base may differ, and *)
(* the program may have been rebuilt.                                      *)
(*                                                                         *)
(* The modules the debuggee loads, the symbols the DIP finds in them and   *)
(* the user are the environment.                                           *)
(***************************************************************************)
EXTENDS Naturals, SequencesExt, FiniteSetsExt

CONSTANTS
  Programs,      \* the programs the user may debug
  Libs,          \* the libraries they may load
  Symbols,       \* what a module's files hold: "full", "exports" or "none"
  Lines,         \* source lines, the cues of the debugging information
  Builds,        \* for each build the place of each line of each module
  MaxBase,       \* bound: the places in memory a module can be loaded at
  MaxSeg,        \* segments of a module
  MaxOff,        \* largest offset in a segment
  Data,          \* the segments that hold data: a point there is a watchpoint
  Flat,          \* one selector maps every module
  Defer,         \* SW_DEFER_SYM_LOAD
  Files,         \* break command files that earlier sessions left
  Junk,          \* bound: the addresses uninitialised memory may hold
  MaxPoints,     \* bound on the length of the table
  MaxImages,     \* bound on the images a load may find (some are never freed)
  None           \* no name, no module, no line

Modules  == Programs \cup Libs
Segs     == 1..MaxSeg
Bases    == 1..MaxBase
Place    == [seg : Segs, off : 0..MaxOff]
SegSize  == MaxOff + 1

ASSUME ModulesAssumption == Programs \cap Libs = {}
ASSUME FlagsAssumption   == Flat \in BOOLEAN /\ Defer \in BOOLEAN
ASSUME SymbolsAssumption == Symbols \in [Modules -> {"full", "exports", "none"}]
ASSUME BuildsAssumption  ==
  /\ Builds \subseteq [Modules -> [Lines -> Place \cup {None}]]
  /\ \A b \in Builds, m \in Modules :
       Symbols[m] # "full" => \A l \in Lines : b[m][l] = None
ASSUME BoundsAssumption  ==
  /\ MaxBase \in Nat \ {0} /\ MaxSeg \in Nat \ {0} /\ MaxOff \in Nat /\ MaxPoints \in Nat
  /\ MaxImages \in Nat

(***************************************************************************)
(* Addresses.  In the segmented model a selector is what one base gives    *)
(* one segment, in the flat model there is one.  Selectors with b = 0 are  *)
(* the map_addr side: addresses relative to an image.                      *)
(***************************************************************************)
ModSize == MaxSeg * SegSize
Address == [b : 0..MaxBase, s : 0..MaxSeg, o : Nat]
NilAddr == [b |-> 0, s |-> 0, o |-> 0]

At(base, p) ==
  IF Flat THEN [b |-> 1, s |-> 1,
                o |-> (base - 1) * ModSize + (p.seg - 1) * SegSize + p.off]
          ELSE [b |-> base, s |-> p.seg, o |-> p.off]

SameSelector(a, c) == a.b = c.b /\ a.s = c.s

\* The base of the module an address would be in.
BaseOf(a) == CHOOSE b \in Bases : \E p \in Place : At(b, p) = a
InBases(a) == \E b \in Bases, p \in Place : At(b, p) = a

VARIABLES
  build,     \* the build the files on disk hold
  task,      \* TaskCmd: the program the user debugs
  mem,       \* what is loaded at each base
  images,    \* DbgImageList
  points,    \* BrkList
  tmp,       \* UserTmpBrk
  left       \* addresses where a run left an INT3 of the debugger's behind

vars == <<build, task, mem, images, points, tmp, left>>

\* image_entry; system_handle is the base, `lines' what its symbols say.
MapEntry == [seg : Segs, real : Address]
Image == [ name : Modules \cup {None}, handle : 0..MaxBase, syms : BOOLEAN,
           deferred : BOOLEAN, lines : [Lines -> Place \cup {None}],
           map : Seq(MapEntry) ]

\* The image, module and symbol names of a point on a source line; cue_diff
\* is zero for every name SetPointAddr makes.
Name == [img : Modules, line : Lines, diff : 0..MaxOff]

ASSUME NoneAssumption == None \notin Modules \cup Name

\* brkp: loc.addr, loc.image_name, the symbolic name, and the status bits the
\* images touch.  `home' is the place the user meant, kept for the properties.
Point ==
  [ loc : Address, locimg : Modules \cup {None}, name : Name \cup {None},
    watch : BOOLEAN, active : BOOLEAN, unmapped : BOOLEAN,
    activate_on_remap : BOOLEAN, counted : BOOLEAN,
    home : [img : Modules, at : Place] \cup {None} ]

NoTmp == [has_address |-> FALSE,
          bp |-> [ loc |-> NilAddr, locimg |-> None, name |-> None,
                   watch |-> FALSE, active |-> FALSE, unmapped |-> FALSE,
                   activate_on_remap |-> FALSE, counted |-> FALSE,
                   home |-> None ]]

\* NullStatus(&UserTmpBrk) clears the bits and keeps the address.
NullTmp(t) == [has_address |-> FALSE,
               bp |-> [t.bp EXCEPT !.active = FALSE, !.unmapped = FALSE,
                                   !.activate_on_remap = FALSE]]

First(S) == IF S = {} THEN 0 ELSE Min(S)

(***************************************************************************)
(* Symbols, as the DIP answers for them.                                   *)
(***************************************************************************)
\* DeAliasAddrMod and ImageEntry: the image an address is in, or 0.
DeAliasAddrMod(imgs, a) ==
  First({k \in DOMAIN imgs :
           imgs[k].syms /\ imgs[k].map # <<>>
             /\ \E p \in Place : At(imgs[k].handle, p) = a})

\* DeAliasAddrCue: the closest line at or before place p of an image.
CuesBeforeAny(image, p) ==      \* mutant: whichever side of the address
  {l \in Lines : image.lines[l] # None /\ image.lines[l].seg = p.seg}
CuesBefore(image, p) ==
  {l \in Lines : /\ image.lines[l] # None
                 /\ image.lines[l].seg = p.seg /\ image.lines[l].off <= p.off}

CueName(image, at) ==
  LET cues == CuesBefore(image, at)
      near == {l \in cues : \A d \in cues : image.lines[d].off <= image.lines[l].off}
      l    == CHOOSE l \in near : TRUE
  IN IF near = {} THEN None
     ELSE [img |-> image.name, line |-> l, diff |-> at.off - image.lines[l].off]

PlaceOf(image, a) == CHOOSE p \in Place : At(image.handle, p) = a
SymName(imgs, a) ==
  LET k == DeAliasAddrMod(imgs, a)
  IN IF k = 0 THEN None ELSE CueName(imgs[k], PlaceOf(imgs[k], a))

\* LookupImageName, LookupModName and GetBPSymAddr, then addr_diff.
Knows(image, name) ==
  image.syms /\ image.name = name.img /\ image.lines[name.line] # None
Found(imgs, name) == First({k \in DOMAIN imgs : Knows(imgs[k], name)})
SymAddrOfLine(image, name) == At(image.handle, image.lines[name.line])  \* mutant
SymAddr(image, name) ==
  LET a == At(image.handle, image.lines[name.line])
  IN [a EXCEPT !.o = @ + name.diff]

-------------------------------------------------------------------------------
(***************************************************************************)
(* The point table.                                                        *)
(***************************************************************************)
SetPointAddr(p, a, imgs) ==
  IF p.unmapped THEN p
  ELSE [p EXCEPT !.loc = a, !.name = IF p.watch THEN None ELSE SymName(imgs, a)]

ActPoint(p, act) == IF act /\ p.unmapped THEN p ELSE [p EXCEPT !.active = act]

UnMapAddressWhole(p, image) ==  \* mutant: the offset is not made relative
  LET j == First({j \in DOMAIN image.map : SameSelector(image.map[j].real, p.loc)})
  IN IF j = 0 THEN p
     ELSE [p EXCEPT !.locimg = image.name, !.unmapped = TRUE,
                    !.loc = [@ EXCEPT !.b = 0, !.s = image.map[j].seg]]

\* The first entry whose real selector is the address's: bounds are not looked
\* at.  The image's name stays in the point also when no entry is found.
UnMapAddress(p, image) ==
  LET j == First({j \in DOMAIN image.map : SameSelector(image.map[j].real, p.loc)})
      q == [p EXCEPT !.locimg = image.name]
  IN IF j = 0 THEN q
     ELSE [q EXCEPT !.unmapped = TRUE,
                    !.loc = [b |-> 0, s |-> image.map[j].seg,
                             o |-> p.loc.o - image.map[j].real.o]]

\* k is the image that goes, or 0 for every image (NULL).
UnMapOnePoint(p, imgs, k) ==
  LET own == DeAliasAddrMod(imgs, p.loc) IN
  IF p.unmapped \/ (k # 0 /\ own # k) THEN p
  ELSE IF p.name # None THEN [p EXCEPT !.unmapped = TRUE]
  ELSE IF own = 0 THEN p ELSE UnMapAddress(p, imgs[own])

\* remap_return with the point it leaves.
Remap(rc, p) == [rc |-> rc, p |-> p]

ReMapImageAddressFirst(p, image) ==   \* mutant: the image's first segment
  IF p.locimg # image.name THEN Remap("WRONG_IMAGE", p)
  ELSE IF image.map = <<>> THEN Remap("ERROR", p)
  ELSE Remap("REMAPPED", [p EXCEPT !.locimg = None,
                                   !.loc = [image.map[1].real EXCEPT !.o = @ + p.loc.o]])
ReMapImageAddressKeeps(p, image) ==   \* mutant: loc.image_name is not reset
  LET j == First({j \in DOMAIN image.map : p.loc.b = 0 /\ image.map[j].seg = p.loc.s})
  IN IF p.locimg # image.name THEN Remap("WRONG_IMAGE", p)
     ELSE IF j = 0 THEN Remap("ERROR", p)
     ELSE Remap("REMAPPED", [p EXCEPT !.loc = [image.map[j].real EXCEPT !.o = @ + p.loc.o]])
ReMapImageAddress(p, image) ==
  LET j == First({j \in DOMAIN image.map : p.loc.b = 0 /\ image.map[j].seg = p.loc.s})
  IN IF p.locimg # image.name THEN Remap("WRONG_IMAGE", p)
     ELSE IF j = 0 THEN Remap("ERROR", p)
     ELSE Remap("REMAPPED",
                [p EXCEPT !.locimg = None,
                          !.loc = [image.map[j].real EXCEPT !.o = @ + p.loc.o]])

ReMapAddress(p, imgs) ==
  LET owners == {k \in DOMAIN imgs : ReMapImageAddress(p, imgs[k]).rc = "REMAPPED"}
  IN IF owners = {} THEN Remap("ERROR", p)
     ELSE Remap("REMAPPED", ReMapImageAddress(p, imgs[Min(owners)]).p)

\* The end of ReMapOnePoint: what was remapped is mapped again, gets its names
\* anew, and is switched on when an earlier try had failed.
ReMappedOn(r, imgs) ==          \* mutant: whatever is remapped is switched on
  LET p == [r.p EXCEPT !.unmapped = r.rc # "REMAPPED"]
  IN Remap(r.rc, ActPoint(SetPointAddr(p, p.loc, imgs), TRUE))
ReMapped(r, imgs) ==
  LET p == [r.p EXCEPT !.unmapped = r.rc # "REMAPPED"]
      q == SetPointAddr(p, p.loc, imgs)
  IN Remap(r.rc, IF q.activate_on_remap THEN ActPoint(q, TRUE) ELSE q)

ReMapOnePoint(p, imgs, k) ==
  IF ~p.unmapped THEN Remap("WRONG_IMAGE", p)
  ELSE IF p.name = None
       THEN ReMapped(IF k = 0 THEN ReMapAddress(p, imgs)
                     ELSE ReMapImageAddress(p, imgs[k]), imgs)
  ELSE IF Found(imgs, p.name) = 0 THEN Remap("ERROR", p)
  ELSE ReMapped(Remap("REMAPPED",
                      [p EXCEPT !.loc = SymAddr(imgs[Found(imgs, p.name)], p.name)]),
                imgs)

\* ReMapPoints for one point of the list.
ReMapPointLeaves(p, imgs, k) == \* mutant: a failure leaves the point active
  LET r == ReMapOnePoint(p, imgs, k) IN
  IF r.rc = "REMAPPED" THEN [r.p EXCEPT !.counted = FALSE] ELSE r.p
ReMapPoint(p, imgs, k) ==
  LET r == ReMapOnePoint(p, imgs, k) IN
  CASE r.rc = "ERROR"    -> [ActPoint(r.p, FALSE) EXCEPT !.activate_on_remap = TRUE]
    [] r.rc = "REMAPPED" -> [r.p EXCEPT !.counted = FALSE]
    [] OTHER             -> r.p

ReMapTmp(t, imgs, k) ==
  LET r == ReMapOnePoint(t.bp, imgs, k) IN
  IF ~t.has_address THEN t
  ELSE [t EXCEPT !.bp = [r.p EXCEPT !.active = @ /\ r.rc # "ERROR"]]

(***************************************************************************)
(* Loading and unloading work on the images, the list and UserTmpBrk       *)
(* together.                                                               *)
(***************************************************************************)
Now == [images |-> images, points |-> points, tmp |-> tmp]

UnMapTmp(t, imgs, k) ==
  IF t.has_address THEN [t EXCEPT !.bp = UnMapOnePoint(@, imgs, k)] ELSE t

UnMapPoints(s, k) ==
  [s EXCEPT !.points = [i \in DOMAIN @ |-> UnMapOnePoint(@[i], s.images, k)],
            !.tmp = UnMapTmp(@, s.images, k)]

ReMapPoints(s, k) ==
  [s EXCEPT !.points = [i \in DOMAIN @ |-> ReMapPoint(@[i], s.images, k)],
            !.tmp = ReMapTmp(@, s.images, k)]

InitImageInfo(s, k) == ReMapPoints(s, k)

FreeImageOnly(s, k) == [s EXCEPT !.images = RemoveAt(@, k)]   \* mutant
FreeImage(s, k) == [UnMapPoints(s, k) EXCEPT !.images = RemoveAt(@, k)]

CreateImage(s, m, handle) ==
  [s EXCEPT !.images =
     Append(@, [ name |-> m, handle |-> handle, syms |-> FALSE, deferred |-> FALSE,
                 lines |-> [l \in Lines |-> None], map |-> <<>> ])]

\* What was not found in the files the cheap way is left for later when
\* SW_DEFER_SYM_LOAD is on; b is the build the files hold.
ProcSymInfo(image, defer, b) ==
  LET kind == Symbols[image.name]
      now  == kind = "full" \/ (kind = "exports" /\ ~defer)
  IN [image EXCEPT !.syms = now, !.deferred = kind # "full" /\ defer,
                   !.lines = IF now THEN b[image.name] ELSE @]

\* The DIP asks once for each segment; MapAddrSystem asks the trap file.
MapAddrSystem(image, seg) == At(image.handle, [seg |-> seg, off |-> 0])
MapAddrForImage(image, seg) ==
  IF \E j \in DOMAIN image.map : image.map[j].seg = seg THEN image
  ELSE [image EXCEPT !.map = Append(@, [seg |-> seg, real |-> MapAddrSystem(image, seg)])]
DIPMapInfo(image) ==
  LET asked[j \in 0..MaxSeg] ==
        IF j = 0 THEN image ELSE MapAddrForImage(asked[j - 1], j)
  IN asked[MaxSeg]

ReLoadSymInfo(s, k, defer, b) ==
  LET image == ProcSymInfo(s.images[k], defer, b)
  IN [s EXCEPT !.images[k] = IF image.syms THEN DIPMapInfo(image) ELSE image]

\* One library RemoteGetLibName reports as loaded.
LibLoadedOnly(s, m, handle, b) ==     \* mutant: no InitImageInfo
  LET c == CreateImage(s, m, handle) IN ReLoadSymInfo(c, Len(c.images), Defer, b)
LibLoaded(s, m, handle, b) ==
  LET c == CreateImage(s, m, handle)
      k == Len(c.images)
      r == ReLoadSymInfo(c, k, Defer, b)
  IN IF r.images[k].syms THEN InitImageInfo(r, k) ELSE r

\* One it reports as unloaded: DIPUnloadInfo of the first image with the
\* handle calls FreeImage; an image without symbols is left in the list.
LibUnloadedKept(s, handle) ==         \* mutant: as if nofree were set
  LET k == First({k \in DOMAIN s.images : s.images[k].handle = handle})
  IN IF k = 0 THEN s ELSE UnMapPoints(s, k)
LibUnloaded(s, handle) ==
  LET k == First({k \in DOMAIN s.images : s.images[k].handle = handle})
  IN IF k = 0 \/ ~s.images[k].syms THEN s ELSE FreeImage(s, k)

\* DoLoadProg: the program's image is initialised with symbols or without.
DoLoadProg(s, m, handle, b) ==
  LET c == CreateImage(s, m, handle)
      k == Len(c.images)
  IN InitImageInfo(ReLoadSymInfo(c, k, Defer, b), k)

ReleaseProgOvlay(s) ==
  LET freed[i \in 0..Len(s.images)] ==
        IF i = 0 THEN s ELSE FreeImage(freed[i - 1], 1)
  IN freed[Len(s.images)]

LoadDeferredImage(s, k, b) ==
  LET r == ReLoadSymInfo(s, k, FALSE, b)
  IN IF ~s.images[k].deferred THEN s
     ELSE IF r.images[k].syms THEN InitImageInfo(r, k) ELSE r
LoadDeferred(s, b) ==
  LET loaded[k \in 0..Len(s.images)] ==
        IF k = 0 THEN s ELSE LoadDeferredImage(loaded[k - 1], k, b)
  IN loaded[Len(s.images)]

-------------------------------------------------------------------------------
(***************************************************************************)
(* Planting.  InsertBPs saves the byte it overwrites with each point and   *)
(* RemoveBPs puts it back in the same order.                               *)
(***************************************************************************)
AllPoints == Append(points, tmp.bp)
Planted ==
  {i \in DOMAIN AllPoints :
     LET p == AllPoints[i] IN
     /\ p.active /\ ~p.watch /\ InBases(p.loc)
     /\ i \in DOMAIN points => ~(tmp.bp.active /\ tmp.bp.loc = p.loc)}

InsertBPs(cc) ==
  LET m[i \in 0..Len(AllPoints)] ==
        IF i = 0 THEN [cc |-> cc, old |-> {}]
        ELSE IF i \notin Planted THEN m[i - 1]
        ELSE LET a == AllPoints[i].loc
             IN [cc |-> m[i - 1].cc \cup {a},
                 old |-> m[i - 1].old \cup {j \in {i} : a \in m[i - 1].cc}]
  IN m[Len(AllPoints)]

RemoveBPs(m) ==
  LET cc[i \in 0..Len(AllPoints)] ==
        IF i = 0 THEN m.cc
        ELSE IF i \notin Planted THEN cc[i - 1]
        ELSE IF i \in m.old THEN cc[i - 1] \cup {AllPoints[i].loc}
        ELSE cc[i - 1] \ {AllPoints[i].loc}
  IN cc[Len(AllPoints)]

-------------------------------------------------------------------------------
(***************************************************************************)
(* The user and the debuggee.                                              *)
(***************************************************************************)
Put(s) == images' = s.images /\ points' = s.points /\ tmp' = s.tmp

PlacesIn(a) == {h \in Modules \X Place :
                  \E b \in Bases : mem[b] = h[1] /\ At(b, h[2]) = a}
Home(a) ==
  LET k == DeAliasAddrMod(images, a) IN
  IF k = 0 \/ images[k].name # mem[BaseOf(a)] THEN None
  ELSE LET h == CHOOSE h \in PlacesIn(a) : TRUE IN [img |-> h[1], at |-> h[2]]

\* Addresses the user can point at: the places of what is loaded.
Visible == UNION {{At(b, p) : p \in Place} : b \in {b \in Bases : mem[b] # None}}
IsData(a) == \E h \in PlacesIn(a) : h[2].seg \in Data

\* AddPoint of an address.
NewPoint(a, imgs) ==
  SetPointAddr([ loc |-> a, locimg |-> None, name |-> None, watch |-> IsData(a),
                 active |-> TRUE, unmapped |-> FALSE, activate_on_remap |-> FALSE,
                 counted |-> FALSE, home |-> Home(a) ], a, imgs)

FindBreak(a) == First({i \in DOMAIN points : points[i].loc = a})

OnlyPoints == UNCHANGED <<build, task, mem, images, tmp, left>>

\* `break' and `break on write': refused when a point has the address.
SetPoint(a) ==
  /\ Len(points) < MaxPoints /\ FindBreak(a) = 0
  /\ points' = Append(points, NewPoint(a, images))
  /\ OnlyPoints

\* AddBreak from a window activates the point that has the address.
AddBreak(a) ==
  /\ ~IsData(a) /\ FindBreak(a) # 0
  /\ points' = [points EXCEPT ![FindBreak(a)].active = TRUE]
  /\ OnlyPoints

\* ToggleBreak of a point: active, inactive, gone.
ToggleBreak(a) ==
  LET i == FindBreak(a) IN
  /\ i # 0
  /\ points' = IF points[i].active THEN [points EXCEPT ![i] = ActPoint(@, FALSE)]
               ELSE RemoveAt(points, i)
  /\ OnlyPoints

Ac_DeacPoint(i, act) ==
  /\ points' = [points EXCEPT ![i] = ActPoint(@, act)]
  /\ OnlyPoints

\* BrkEnableAll and BrkDisableAll use DoActPoint, which does not ask whether
\* the point is mapped.
BrkSetAll(act) ==
  /\ points' = [i \in DOMAIN points |-> [points[i] EXCEPT !.active = act]]
  /\ OnlyPoints

ClearPoint(i) == points' = RemoveAt(points, i) /\ OnlyPoints

BrkAddrRefresh ==
  /\ points' = [i \in DOMAIN points |-> SetPointAddr(points[i], points[i].loc, images)]
  /\ OnlyPoints

\* UserTmpBrk belongs to `go until'; the command is outside the sources.
GoUntil(a) ==
  /\ ~tmp.bp.active /\ ~IsData(a)
  /\ tmp' = [has_address |-> TRUE, bp |-> NewPoint(a, images)]
  /\ UNCHANGED <<build, task, mem, images, points, left>>
GoUntilEnds ==
  /\ tmp.bp.active /\ tmp' = NullTmp(tmp)
  /\ UNCHANGED <<build, task, mem, images, points, left>>

\* A pass of ExecProg that takes every breakpoint; any active ones are hit.
ExecProg ==
  /\ left' = RemoveBPs(InsertBPs(left))
  /\ \E H \in SUBSET {i \in DOMAIN points : points[i].active} :
       points' = [i \in DOMAIN points |-> [points[i] EXCEPT !.counted = @ \/ i \in H]]
  /\ UNCHANGED <<build, task, mem, images, tmp>>

\* AddLibInfo and the ReMapPoints(NULL) that ExecProg makes after it.
LibraryLoads(m, b) ==
  /\ mem[b] = None /\ \A c \in Bases : mem[c] # m
  /\ (\E c \in Bases : mem[c] = task) /\ Len(images) < MaxImages
  /\ mem' = [mem EXCEPT ![b] = m]
  /\ Put(ReMapPoints(LibLoaded(Now, m, b, build), 0))
  /\ UNCHANGED <<build, task, left>>
LibraryUnloads(b) ==
  /\ mem[b] \in Libs
  /\ mem' = [mem EXCEPT ![b] = None]
  /\ left' = {a \in left : BaseOf(a) # b}
  /\ Put(ReMapPoints(LibUnloaded(Now, b), 0))
  /\ UNCHANGED <<build, task>>

LoadDeferredSymbols == Put(LoadDeferred(Now, build)) /\ UNCHANGED <<build, task, mem, left>>

(***************************************************************************)
(* DoResNew: everything is unmapped and freed, UserTmpBrk forgotten, and   *)
(* the program loaded again: at base pb, with the libraries it starts with *)
(* where `at' says, or not at all.  BPsDeac comes before for a new program *)
(* (LoadNewProg) and for the NEW command whatever the program (ProgNew).   *)
(***************************************************************************)
BPsDeac(s) ==
  [s EXCEPT !.points = [i \in DOMAIN @ |-> [@[i] EXCEPT !.active = FALSE]],
            !.tmp = NullTmp(@)]
BPsUnHit(s) == [s EXCEPT !.tmp = NullTmp(@)]

LoadProg(s, m, pb, at, b) ==
  LET loaded[c \in 0..MaxBase] ==
        IF c = 0 THEN DoLoadProg(s, m, pb, b)
        ELSE IF at[c] = None THEN loaded[c - 1]
        ELSE LibLoaded(loaded[c - 1], at[c], c, b)
  IN loaded[MaxBase]

StartUp(pb) == {at \in [Bases -> Libs \cup {None}] :
                  /\ at[pb] = None
                  /\ \A c, d \in Bases : c # d /\ at[c] = at[d] => at[c] = None}

DoResNew(s, m, b) ==
  /\ build' = b /\ task' = m /\ left' = {}
  /\ LET r == BPsUnHit(ReleaseProgOvlay(s)) IN
     \/ \E pb \in Bases : \E at \in StartUp(pb) :
          /\ mem' = [at EXCEPT ![pb] = m]
          /\ Put(LoadProg(r, m, pb, at, b))
     \/ /\ mem' = [c \in Bases |-> None]            \* TASK_NOT_LOADED
        /\ Put(CreateImage(r, None, 0))

ReStart == \E b \in Builds : DoResNew(Now, task, b)
ProgNew == \E m \in Programs, b \in Builds : DoResNew(BPsDeac(Now), m, b)

(***************************************************************************)
(* Saving and restoring the table.  The file has a command for each point: *)
(* by name, by map address, or by address when the point is in no image.   *)
(***************************************************************************)
SaveBreaksToFile ==
  Put(ReMapPoints(UnMapPoints(Now, 0), 0)) /\ UNCHANGED <<build, task, mem, left>>

Command == [ watch : BOOLEAN, active : BOOLEAN, name : Name \cup {None},
             locimg : Modules \cup {None}, loc : Address ]

\* GetBPCmd writes a map address or names, not both.
ASSUME FilesAssumption ==
  /\ Files \subseteq Seq(Command) /\ Junk \subseteq Address
  /\ \A f \in Files : \A i \in DOMAIN f : f[i].locimg # None => f[i].name = None

\* SetPoint of one command.  AddPoint leaves loc.addr of an unmapped point as
\* the allocator returned it (junk), the map address of the command too; an
\* address another point seems to have ends the file.
SetPointOfActive(list, c, junk, imgs) ==      \* mutant: active whatever was saved
  Append(list, [ loc |-> junk, locimg |-> c.locimg, name |-> c.name,
                 watch |-> c.watch, active |-> TRUE, unmapped |-> TRUE,
                 activate_on_remap |-> FALSE, counted |-> FALSE, home |-> None ])
SetPointOf(list, c, junk, imgs) ==
  LET unmapped == c.locimg # None \/ c.name # None
      new == [ loc |-> IF unmapped THEN junk ELSE c.loc, locimg |-> c.locimg,
               name |-> c.name, watch |-> c.watch, active |-> TRUE,
               unmapped |-> unmapped, activate_on_remap |-> FALSE,
               counted |-> FALSE, home |-> None ]
  IN Append(list, [SetPointAddr(new, new.loc, imgs) EXCEPT !.active = c.active])

Exists(list, c) ==
  \E i \in DOMAIN list : list[i].loc = IF c.name # None THEN NilAddr ELSE c.loc

Restored(file, junk, imgs) ==
  LET r[i \in 0..Len(file)] ==
        IF i = 0 THEN [list |-> <<>>, stop |-> FALSE]
        ELSE IF r[i - 1].stop \/ Exists(r[i - 1].list, file[i])
             THEN [r[i - 1] EXCEPT !.stop = TRUE]
        ELSE [r[i - 1] EXCEPT !.list = SetPointOf(@, file[i], junk[i], imgs)]
  IN r[Len(file)].list

\* BrkClearAll removes the first point by its address as long as there is one.
\* FindBreak finds nothing at NilAddr: a point there and it never returns.
ClearAllReturns == \A i \in DOMAIN points : points[i].loc # NilAddr

RestoreOnly(file) ==            \* mutant: no ReMapPoints
  /\ ClearAllReturns
  /\ \E junk \in [DOMAIN file -> Junk] :
       Put([Now EXCEPT !.points = Restored(file, junk, images)])
  /\ UNCHANGED <<build, task, mem, left>>
RestoreBreaksFromFile(file) ==
  /\ ClearAllReturns
  /\ \E junk \in [DOMAIN file -> Junk] :
       Put(ReMapPoints([Now EXCEPT !.points = Restored(file, junk, images)], 0))
  /\ UNCHANGED <<build, task, mem, left>>

\* Before the first program: LoadProg's CreateImage( NULL, NULL ).
Init ==
  /\ build \in Builds /\ task \in Programs
  /\ mem = [b \in Bases |-> None]
  /\ images = CreateImage([images |-> <<>>], None, 0).images
  /\ points = <<>> /\ tmp = NoTmp /\ left = {}

User ==
  \/ \E a \in Visible : SetPoint(a) \/ AddBreak(a) \/ ToggleBreak(a) \/ GoUntil(a)
  \/ \E i \in DOMAIN points : ClearPoint(i) \/ \E act \in BOOLEAN : Ac_DeacPoint(i, act)
  \/ \E act \in BOOLEAN : BrkSetAll(act)
  \/ SaveBreaksToFile
  \/ \E file \in Files : RestoreBreaksFromFile(file)
  \/ ReStart \/ ProgNew

Debuggee ==
  \/ ExecProg \/ GoUntilEnds
  \/ \E m \in Libs, b \in Bases : LibraryLoads(m, b)
  \/ \E b \in Bases : LibraryUnloads(b)
  \/ LoadDeferredSymbols \/ BrkAddrRefresh

Next == User \/ Debuggee
Spec == Init /\ [][Next]_vars

-------------------------------------------------------------------------------
\* What some properties presuppose.  Every module's symbols are found when it
\* is loaded:
AllSymbols == \A m \in Modules : Symbols[m] = "full" \/ (Symbols[m] = "exports" /\ ~Defer)

\* No rebuild moves a line so far that what followed it in its segment, up to
\* the next line, is past the end.
LinesOf(b, m) == [lines |-> b[m]]
LinesStay ==
  \A b \in Builds, c \in Builds, m \in Modules, at \in Place, l \in Lines :
    LET cues == CuesBefore(LinesOf(b, m), at) IN
    l \in cues /\ (\A d \in cues : b[m][d].off <= b[m][l].off) /\ c[m][l] # None =>
      c[m][l].off + (at.off - b[m][l].off) <= MaxOff

OneEntryEach(map) == \A i, j \in DOMAIN map : map[i].seg = map[j].seg => i = j

\* The image list, the table and UserTmpBrk have the shape of the code's
\* records, and an image's map has one entry for each segment however often
\* its symbols are loaded (MapAddrForImage, dbgprog.c).
TypeOK ==
  /\ build \in Builds /\ task \in Programs
  /\ mem \in [Bases -> Modules \cup {None}]
  /\ images \in Seq(Image) /\ \A k \in DOMAIN images : OneEntryEach(images[k].map)
  /\ points \in Seq(Point)
  /\ tmp.has_address \in BOOLEAN /\ tmp.bp \in Point
  /\ left \subseteq Address

\* A breakpoint on a source line that is mapped is at that line's address in
\* the image as it is loaded now (UnMapOnePoint, ReMapOnePoint: across every
\* sequence of loads, unloads, rebuilds, saves and restarts).
NamedFollows ==
  \A i \in DOMAIN points :
    LET p == points[i] IN
    ~p.unmapped /\ p.name # None =>
      \E k \in DOMAIN images : Knows(images[k], p.name) /\ SymAddr(images[k], p.name) = p.loc

\* A watchpoint, or a breakpoint without a line, that is mapped is at the place
\* the user set it at, wherever its image is now (UnMapAddress,
\* ReMapImageAddress).
HomeFollows ==
  \A i \in DOMAIN points :
    LET p == points[i] IN
    ~p.unmapped /\ p.name = None /\ p.home # None =>
      \E k \in DOMAIN images :
        /\ images[k].syms /\ images[k].name = p.home.img
        /\ At(images[k].handle, p.home.at) = p.loc

\* No point waits for an image that is there: what is unmapped cannot be
\* resolved among the images with symbols (InitImageInfo remaps the whole list
\* whenever symbols arrive).
NoneWaits ==
  \A i \in DOMAIN points :
    LET p == points[i] IN
    p.unmapped => IF p.name # None THEN Found(images, p.name) = 0
                  ELSE ReMapAddress(p, images).rc = "ERROR"

\* Every point is where it should be: on its line, at its place, and waiting
\* only for an image that is not there.
PointsFollow == NamedFollows /\ HomeFollows /\ NoneWaits

\* An image with symbols is loaded at the base its handle says, so no point is
\* kept mapped by symbols of a module that is gone (AddLibInfo, FreeImage).
ImagesLive ==
  \A k \in DOMAIN images : images[k].syms => mem[images[k].handle] = images[k].name

\* After library events no point is active that is not mapped: what the next
\* run plants is at an address of a loaded image (ExecProg's ReMapPoints(NULL)).
EventsLeaveMapped ==
  [][(\E m \in Libs, b \in Bases : LibraryLoads(m, b)) \/ (\E b \in Bases : LibraryUnloads(b))
     => \A i \in DOMAIN points' : points'[i].active => ~points'[i].unmapped]_vars

\* A point the debugger had symbols for when it was set, or has a line for.
Meant(p) == p.home # None \/ p.name # None

\* A restart of the unchanged program carries its points over: same place at
\* the new base, same line, same state (ReStart, dbgprog.c).
RestartKeeps ==
  [][ReStart /\ build' = build =>
       \A k \in DOMAIN images' : images'[k].syms /\ images'[k].name = task =>
         \A i \in DOMAIN points :
           LET p == points[i]  q == points'[i]  own == DeAliasAddrMod(images, p.loc) IN
           own # 0 /\ images[own].name = task /\ Meant(p) /\ ~p.unmapped =>
             \E h \in Place :
               /\ p.loc = At(images[own].handle, h)
               /\ q = [p EXCEPT !.loc = At(images'[k].handle, h), !.counted = FALSE,
                                !.active = @ \/ p.activate_on_remap]]_vars

\* Saving the table to a file, which unmaps and remaps every point, leaves each
\* mapped point where and as it was but for its count (SaveBreaksToFile), as
\* long as the list of images is true.
SaveKeeps ==
  [][SaveBreaksToFile /\ ImagesLive =>
       \A i \in DOMAIN points :
         LET p == points[i]  q == points'[i] IN
         Meant(p) /\ ~p.unmapped => q = [p EXCEPT !.counted = q.counted,
                                      !.active = @ \/ p.activate_on_remap]]_vars

\* Unmapping and remapping, on a restart or to save the table, loses nothing.
PointsKept == RestartKeeps /\ SaveKeeps

\* Nothing but the user switches a point on, unless an earlier remap of it
\* failed and was made good (activate_on_remap).
OnlyUserActivates ==
  [][~(\E a \in Visible : AddBreak(a)) /\ ~BrkSetAll(TRUE)
     /\ ~(\E i \in DOMAIN points : Ac_DeacPoint(i, TRUE))
     /\ ~(\E f \in Files : RestoreBreaksFromFile(f))
     => \A i \in DOMAIN points \cap DOMAIN points' :
          points'[i].active /\ ~points[i].active =>
            Len(points') # Len(points) \/ points'[i].activate_on_remap]_vars

\* The first command of a break command file that names a line gives a mapped
\* point there, active or not as saved, or one that waits, switched off, for
\* the line's image (RestoreBreaksFromFile; what the allocator left in the new
\* record does not matter).
NamedRestored ==
  [][\A f \in Files : f # <<>> /\ f[1].name # None /\ RestoreBreaksFromFile(f) =>
       LET k == Found(images, f[1].name)  q == points'[1] IN
       IF k = 0 THEN q.unmapped /\ ~q.active /\ q.name = f[1].name
       ELSE /\ ~q.unmapped /\ q.loc = SymAddr(images[k], f[1].name)
            /\ q.active = f[1].active]_vars

\* RemoveBPs removes the breakpoints from memory: between runs the program's
\* bytes are its own.
NothingLeft == left = {}
===============================================================================

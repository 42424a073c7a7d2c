---------------------------- MODULE Stage1_proofs ----------------------------
(***************************************************************************)
(* Theorems about Stage1, for every memory map, storage and kernel: nothing  *)
(* comes to lie over what the kernel is given at the jump, and, where they   *)
(* are out of each other's way, over its segments, the file it is read from  *)
(* and the loader.  All rest on the heap being a bump allocator: once an     *)
(* object lies below the bump pointer, or outside the heap, no later block   *)
(* reaches it.                                                             *)
(***************************************************************************)
EXTENDS Stage1, TLAPS

Made == {"handoff", "cmdline"}

\* The steps after load_elf.
Loaded == {"handoff", "set_kernel", "cmdline", "set_cmdline", "set_mmap", "jump",
           "booted"}

BootTypeOK ==
  /\ hw \in Machines /\ store \in Stores
  /\ hw.locate = "fat" => store.kernel.size >= 0
  /\ choice \in Options
  /\ heap_ptr \in Nat /\ hw.heap_start <= heap_ptr
  /\ image \in {"none", "file", "flash", "mock", "null"}

\* The handoff structure and the command line lie below the bump pointer, and do
\* not exist while anything but the heap writes to memory.
MadeBelow ==
  /\ \A n \in Made : n \in DOMAIN live => live[n] \in Region /\ live[n].hi <= heap_ptr
  /\ \A n \in Made : n \in DOMAIN live => n \notin dirty
  /\ pc \notin Loaded => (Made \union {"segments"}) \intersect DOMAIN live = {}
  /\ dirty \subseteq DOMAIN live /\ hit \subseteq DOMAIN live

SegmentsSafe ==
  pc \in Loaded =>
    /\ "segments" \in DOMAIN live
    /\ live["segments"] = store.kernel.at
    /\ KernelClear /\ image \notin dirty => "segments" \notin dirty

BootInv == BootTypeOK /\ MadeBelow /\ SegmentsSafe

LEMMA MapFacts ==
  ASSUME BootTypeOK
  PROVE  /\ hw.heap_start \in Nat /\ hw.heap_max \in Nat
         /\ hw.heap_start < hw.heap_max
         /\ store.kernel.size \in Int
         /\ store.kernel.at \in Region
BY MachineAssumption DEF BootTypeOK, Machine, Store, Kernel

\* A block starts at the bump pointer and ends at the next one.
LEMMA BlockFacts ==
  ASSUME BootTypeOK, NEW n \in Nat
  PROVE  /\ BlockEnd(n) \in Nat /\ heap_ptr < BlockEnd(n)
         /\ NewBlock(n) \in Region
         /\ NewBlock(n).lo = heap_ptr /\ NewBlock(n).hi = BlockEnd(n)
<1>1. (n + 7) \div 8 \in Nat
  OBVIOUS
<1> QED
  BY <1>1 DEF BootTypeOK, BlockEnd, NewBlock, Region

\* A new block spoils nothing that ends below the bump pointer, and no kernel that
\* is clear of the heap.
LEMMA BlockSpares ==
  ASSUME BootInv, NEW n \in Nat, HeapHas(n), NEW own
  PROVE  /\ \A m \in Made : m \notin Spoilt(NewBlock(n), own)
         /\ pc \in Loaded /\ KernelClear => "segments" \notin Spoilt(NewBlock(n), own)
<1>1. NewBlock(n) \in Region /\ NewBlock(n).lo = heap_ptr /\ NewBlock(n).hi < hw.heap_max
      /\ heap_ptr \in Nat /\ hw.heap_start <= heap_ptr /\ heap_ptr < NewBlock(n).hi
  BY BlockFacts DEF BootInv, BootTypeOK, HeapHas
<1>2. \A m \in Made : m \notin Spoilt(NewBlock(n), own)
  BY <1>1 DEF BootInv, MadeBelow, Spoilt, Overlap, Region
<1>3. ASSUME pc \in Loaded, KernelClear
      PROVE  "segments" \notin Spoilt(NewBlock(n), own)
  <2>1. live["segments"] = store.kernel.at /\ store.kernel.at \in Region
        /\ hw.heap_start \in Nat /\ hw.heap_max \in Nat /\ hw.heap_start < hw.heap_max
    BY <1>3, MapFacts DEF BootInv, SegmentsSafe
  <2>2. ~Overlap(store.kernel.at, [lo |-> hw.heap_start, hi |-> hw.heap_max])
    BY <1>3 DEF KernelClear, Heap
  <2>3. ~Overlap(store.kernel.at, NewBlock(n))
    BY <1>1, <2>1, <2>2 DEF Overlap, Region
  <2> QED
    BY <2>1, <2>3 DEF Spoilt
<1> QED
  BY <1>2, <1>3

\* No command line is longer than the handoff structure.
LEMMA CmdlineFits ==
  ASSUME choice \in Options
  PROVE  CmdlineSize \in Nat /\ CmdlineSize <= 47
<1>1. /\ choice = 0 => CmdlineSize = 47
      /\ choice = 1 => CmdlineSize = 38
      /\ choice = 2 => CmdlineSize = 9
  BY DEF CmdlineSize
<1> QED
  BY <1>1 DEF Options

LEMMA BootInvInit == Init => BootInv
<1> SUFFICES ASSUME Init PROVE BootInv
  OBVIOUS
<1>1. hw \in Machine /\ hw.heap_start \in Nat
  BY MachineAssumption DEF Init, Machine
<1>2. BootTypeOK
  BY <1>1 DEF Init, BootTypeOK, RuntimeData, Options
<1>3. DOMAIN live = Placed
  BY DEF Init
<1>4. MadeBelow
  BY <1>3 DEF Init, MadeBelow, Placed, Made, Loaded, Spoilt
<1> QED
  BY <1>2, <1>4 DEF BootInv, SegmentsSafe, Init, Loaded

\* A step that leaves memory and the machine alone, and does not get past
\* load_elf.
LEMMA QuietStep ==
  ASSUME BootInv, UNCHANGED <<hw, store, heap_ptr, live, dirty>>,
         choice' \in Options,
         image' \in {"none", "file", "flash", "mock", "null"},
         pc' \in Loaded <=> pc \in Loaded,
         pc \in Loaded => image' = image,
         hit' \subseteq DOMAIN live
  PROVE  BootInv'
<1>1. BootTypeOK'
  BY DEF BootInv, BootTypeOK
<1>2. MadeBelow'
  BY DEF BootInv, MadeBelow
<1>3. SegmentsSafe'
  BY DEF BootInv, SegmentsSafe, KernelClear, Heap
<1> QED
  BY <1>1, <1>2, <1>3 DEF BootInv

\* A new block, written by the runtime (own is "none") or for the object own.
LEMMA StringStep ==
  ASSUME BootInv, NEW n \in Strings, MakeString(n)
  PROVE  BootInv'
<1>1. n \in Nat /\ HeapHas(n)
  BY MachineAssumption DEF MakeString
<1>2. heap_ptr' \in Nat /\ heap_ptr < heap_ptr' /\ heap_ptr \in Nat /\ hw.heap_start \in Nat
      /\ hw.heap_start <= heap_ptr
  BY <1>1, BlockFacts, MapFacts DEF MakeString, Bump, BootInv, BootTypeOK
<1>3. UNCHANGED <<hw, store, pc, choice, image, live, hit>>
      /\ dirty' = dirty \union Spoilt(NewBlock(n), "none")
  BY DEF MakeString, Write
<1>4. BootTypeOK'
  BY <1>2, <1>3 DEF BootInv, BootTypeOK
<1>5. MadeBelow'
  <2>1. \A m \in Made : m \notin Spoilt(NewBlock(n), "none")
    BY <1>1, BlockSpares
  <2>2. Spoilt(NewBlock(n), "none") \subseteq DOMAIN live
    BY DEF Spoilt
  <2> QED
    BY <1>2, <1>3, <2>1, <2>2 DEF BootInv, MadeBelow, Region
<1>6. SegmentsSafe'
  <2>1. pc \in Loaded /\ KernelClear => "segments" \notin Spoilt(NewBlock(n), "none")
    BY <1>1, BlockSpares
  <2>2. image' \notin dirty' => image \notin dirty
    BY <1>3
  <2>3. KernelClear' <=> KernelClear
    BY <1>3 DEF KernelClear, Heap
  <2> QED
    BY <1>3, <2>1, <2>2, <2>3 DEF BootInv, SegmentsSafe
<1> QED
  BY <1>4, <1>5, <1>6 DEF BootInv

\* The handoff structure, or the command line, comes to lie in a new block or is
\* not made.
LEMMA MakeStep ==
  ASSUME BootInv, pc \in Loaded,
         NEW n \in Made, NEW bytes \in Nat, NEW next \in Loaded, Make(n, bytes, next)
  PROVE  BootInv'
<1>1. CASE ~HeapHas(bytes)
  BY <1>1, QuietStep DEF Make, BootInv, BootTypeOK, MadeBelow
<1>2. CASE HeapHas(bytes)
  <2>1. UNCHANGED <<hw, store, choice, image, hit>> /\ pc' \in Loaded
        /\ heap_ptr' = BlockEnd(bytes) /\ Place(n, NewBlock(bytes))
    BY <1>2 DEF Make, Bump
  <2>2. BlockEnd(bytes) \in Nat /\ heap_ptr < BlockEnd(bytes) /\ heap_ptr \in Nat
        /\ NewBlock(bytes) \in Region /\ NewBlock(bytes).hi = BlockEnd(bytes)
        /\ hw.heap_start \in Nat /\ hw.heap_start <= heap_ptr
    BY BlockFacts, MapFacts DEF BootInv, BootTypeOK
  <2>3. BootTypeOK'
    BY <2>1, <2>2 DEF BootInv, BootTypeOK
  <2>4. /\ DOMAIN live' = DOMAIN live \union {n}
        /\ live'[n] = NewBlock(bytes)
        /\ \A m \in DOMAIN live : m # n => live'[m] = live[m]
        /\ dirty' = (dirty \ {n}) \union Spoilt(NewBlock(bytes), n)
    BY <2>1 DEF Place
  <2>5. MadeBelow'
    <3>1. \A m \in Made : m \notin Spoilt(NewBlock(bytes), n)
      BY <1>2, BlockSpares
    <3>2. \A m \in Made : m \in DOMAIN live' =>
             live'[m] \in Region /\ live'[m].hi <= heap_ptr' /\ m \notin dirty'
      BY <2>1, <2>2, <2>4, <3>1 DEF BootInv, MadeBelow, Region
    <3>3. dirty' \subseteq DOMAIN live' /\ hit' \subseteq DOMAIN live'
      BY <2>1, <2>4 DEF BootInv, MadeBelow, Spoilt
    <3> QED
      BY <2>1, <3>2, <3>3 DEF MadeBelow
  <2>6. SegmentsSafe'
    <3>1. n # "segments" /\ n # image
      BY DEF Made, BootInv, BootTypeOK
    <3>2. KernelClear => "segments" \notin Spoilt(NewBlock(bytes), n)
      BY <1>2, BlockSpares
    <3>3. image' \notin dirty' => image \notin dirty
      BY <2>1, <2>4, <3>1
    <3>4. KernelClear' <=> KernelClear
      BY <2>1 DEF KernelClear, Heap
    <3> QED
      BY <2>1, <2>4, <3>1, <3>2, <3>3, <3>4 DEF BootInv, SegmentsSafe
  <2> QED
    BY <2>3, <2>5, <2>6 DEF BootInv
<1> QED
  BY <1>1, <1>2

\* The RAM check and the load of the file come before there is anything to spoil.
LEMMA EarlyStep ==
  ASSUME BootInv, RamPasses \/ RamFails \/ LoadFile
  PROVE  BootInv'
<1>1. CASE RamPasses \/ RamFails
  <2>1. dirty' \subseteq DOMAIN live /\ hit' \subseteq DOMAIN live
    BY <1>1 DEF RamPasses, RamFails, MarksWritten, Spoilt, BootInv, MadeBelow
  <2>2. pc \notin Loaded /\ pc' \notin Loaded
        /\ UNCHANGED <<hw, store, choice, image, heap_ptr, live>>
    BY <1>1 DEF RamPasses, RamFails, memoryVars, Loaded
  <2> QED
    BY <2>1, <2>2 DEF BootInv, BootTypeOK, MadeBelow, SegmentsSafe, Made
<1>2. CASE LoadFile
  <2>1. store.kernel.size \in Nat
    BY <1>2, MapFacts DEF LoadFile, BootInv, BootTypeOK
  <2>2. heap_ptr' \in Nat /\ heap_ptr < heap_ptr' /\ hw.heap_start <= heap_ptr'
    BY <1>2, <2>1, BlockFacts, MapFacts DEF LoadFile, Bump, BootInv, BootTypeOK
  <2>3. DOMAIN live' = DOMAIN live \union {"file"}
        /\ dirty' \subseteq DOMAIN live' /\ hit' \subseteq DOMAIN live'
    BY <1>2 DEF LoadFile, BootInv, MadeBelow, Spoilt
  <2>4. pc \notin Loaded /\ pc' \notin Loaded /\ UNCHANGED <<hw, store, choice>>
        /\ image' = "file"
    BY <1>2 DEF LoadFile, Located, Loaded
  <2> QED
    BY <2>2, <2>3, <2>4 DEF BootInv, BootTypeOK, MadeBelow, SegmentsSafe, Made
<1> QED
  BY <1>1, <1>2

LEMMA LoadStep ==
  ASSUME BootInv, LoadSegments
  PROVE  BootInv'
<1>1. /\ UNCHANGED <<hw, store, choice, image, heap_ptr>>
      /\ pc \notin Loaded /\ pc' \in Loaded
      /\ DOMAIN live' = DOMAIN live \union {"segments"}
      /\ live'["segments"] = store.kernel.at
      /\ dirty \subseteq dirty'
      /\ image \notin dirty => dirty' = dirty \union Spoilt(store.kernel.at, "segments")
  BY DEF LoadSegments, Loaded
<1>2. Made \intersect DOMAIN live' = {} /\ dirty' \subseteq DOMAIN live'
      /\ hit' \subseteq DOMAIN live'
  <2>1. dirty \subseteq DOMAIN live /\ hit \subseteq DOMAIN live
        /\ Made \intersect DOMAIN live = {}
    BY <1>1 DEF BootInv, MadeBelow
  <2>2. dirty' \subseteq DOMAIN live \union {"segments"}
        /\ hit' \subseteq DOMAIN live \union {"segments"}
    BY <1>1, <2>1 DEF LoadSegments, Spoilt
  <2> QED
    BY <1>1, <2>1, <2>2 DEF Made
<1>3. SegmentsSafe'
  <2>1. image' \notin dirty' => image \notin dirty
    BY <1>1
  <2>2. "segments" \notin Spoilt(store.kernel.at, "segments")
    BY DEF Spoilt
  <2>3. "segments" \notin dirty
    BY <1>1 DEF BootInv, MadeBelow
  <2> QED
    BY <1>1, <2>1, <2>2, <2>3 DEF SegmentsSafe
<1> QED
  BY <1>1, <1>2, <1>3 DEF BootInv, BootTypeOK, MadeBelow

LEMMA BootInvStep == BootInv /\ [Next]_vars => BootInv'
<1> SUFFICES ASSUME BootInv, [Next]_vars PROVE BootInv'
  OBVIOUS
<1>1. choice \in Options /\ image \in {"none", "file", "flash", "mock", "null"}
  BY DEF BootInv, BootTypeOK
<1> hit \subseteq DOMAIN live
  BY DEF BootInv, MadeBelow
<1>2. CASE TrxInvalid \/ TooSmall \/ Verified \/ LoadFails \/ ShowMenu
  BY <1>1, <1>2, QuietStep
  DEF TrxInvalid, TooSmall, Verified, LoadFails, ShowMenu, memoryVars, Loaded, Options,
      DefaultChoice
<1>3. CASE InFlash \/ UseMock \/ LoadFileFails
  BY <1>1, <1>3, QuietStep DEF InFlash, UseMock, LoadFileFails, Located, Loaded
<1>4. CASE SetKernel \/ SetCmdline \/ SetMmap \/ BootKernel \/ UNCHANGED vars
  BY <1>1, <1>4, QuietStep
  DEF SetKernel, SetCmdline, SetMmap, SetFields, BootKernel, memoryVars, Loaded, vars
<1>5. CASE RamPasses \/ RamFails \/ LoadFile
  BY <1>5, EarlyStep
<1>6. CASE LoadSegments
  BY <1>6, LoadStep
<1>7. CASE CreateHandoff
  BY <1>7, MakeStep DEF CreateHandoff, HandoffSize, Made, Loaded
<1>8. CASE CopyCmdline
  BY <1>1, <1>8, CmdlineFits, MakeStep DEF CopyCmdline, Made, Loaded
<1>9. CASE \E n \in Strings : MakeString(n)
  BY <1>9, StringStep
<1> QED
  BY <1>2, <1>3, <1>4, <1>5, <1>6, <1>7, <1>8, <1>9 DEF Next

\* Whatever the memory map, the kernel and the runtime's strings, no block, string
\* or segment comes to lie over the handoff structure or the command line before
\* the jump.  (The loader's own fields, written astray, may fall on both.)
THEOREM HandoffKeepsItsPlace == Spec => []HandoffNotOverlaid
<1>1. BootInv => HandoffNotOverlaid
  BY DEF BootInv, MadeBelow, HandoffNotOverlaid, Made
<1> QED
  BY <1>1, BootInvInit, BootInvStep, PTL DEF Spec

\* Over the segments of a kernel that lie clear of the heap and of the loader, and
\* come from bytes nothing was written over, nothing is placed before it starts.
THEOREM KernelStartsWhole == Spec => []SegmentsIntact
<1>1. BootInv => SegmentsIntact
  BY DEF BootInv, SegmentsSafe, SegmentsIntact, Loaded
<1> QED
  BY <1>1, BootInvInit, BootInvStep, PTL DEF Spec
-----------------------------------------------------------------------------
(* Types *)

\* What every step keeps, whatever it does to memory.
LEMMA TypeByParts ==
  ASSUME BootInv, BootInv', TypeOK, store' = store,
         pc' \in {"ram", "menu", "locate", "verify", "load", "halted"} \union Loaded,
         size' \in Int, entry' \in Nat, strings' \in Nat,
         live' \in [DOMAIN live' -> Region]
  PROVE  TypeOK'
BY DEF BootInv, BootTypeOK, MadeBelow, TypeOK, Loaded

\* An object that comes to lie in a region leaves the others where they are.
LEMMA PlacedType ==
  ASSUME live \in [DOMAIN live -> Region], NEW n, NEW r \in Region,
         live' = [m \in DOMAIN live \union {n} |-> IF m = n THEN r ELSE live[m]]
  PROVE  live' \in [DOMAIN live' -> Region]
<1>1. DOMAIN live' = DOMAIN live \union {n}
  OBVIOUS
<1>2. \A m \in DOMAIN live' : live'[m] \in Region
  BY <1>1
<1> QED
  BY <1>2

LEMMA StartType == Init => TypeOK
<1> SUFFICES ASSUME Init PROVE TypeOK
  OBVIOUS
<1>1. BootInv
  BY BootInvInit
<1>2. hw.loader \in Region /\ RuntimeData \in Region
      /\ FatImage \in Region /\ MockKernel \in Region
  <2>1. hw \in Machine
    BY MachineAssumption DEF Init
  <2> QED
    BY <2>1 DEF Machine, RuntimeData, FatImage, MockKernel, MB, Region
<1>3. \A n \in Placed : RegionOf(n) \in Region
  <2>1. RegionOf("loader") = hw.loader /\ RegionOf("runtime") = RuntimeData
        /\ RegionOf("volume") = FatImage /\ RegionOf("mock") = MockKernel
    BY Zenon DEF RegionOf
  <2> QED
    BY <1>2, <2>1 DEF Placed
<1>4. live \in [DOMAIN live -> Region]
  BY <1>3 DEF Init
<1> QED
  BY <1>1, <1>4, MachineAssumption DEF BootInv, BootTypeOK, MadeBelow, Init, TypeOK

LEMMA TypeStep ==
  ASSUME BootInv, TypeOK, [Next]_vars
  PROVE  TypeOK'
<1>1. BootInv'
  BY BootInvStep
<1>2. CASE RamPasses \/ RamFails \/ ShowMenu
  BY <1>1, <1>2, TypeByParts DEF RamPasses, RamFails, ShowMenu, memoryVars, TypeOK
<1>3. CASE TrxInvalid \/ TooSmall \/ Verified \/ LoadFails
           \/ SetKernel \/ SetCmdline \/ SetMmap \/ BootKernel
  BY <1>1, <1>3, TypeByParts
  DEF TrxInvalid, TooSmall, Verified, LoadFails, SetKernel, SetCmdline, SetMmap,
      SetFields, BootKernel, memoryVars, TypeOK, Loaded
<1>4. CASE InFlash \/ UseMock \/ LoadFileFails
  <2>1. size' \in Int
    BY <1>4, MapFacts DEF InFlash, UseMock, LoadFileFails, Located, MB, BootInv
  <2> QED
    BY <1>1, <1>4, <2>1, TypeByParts DEF InFlash, UseMock, LoadFileFails, Located, TypeOK
<1>5. CASE LoadFile
  <2>1. store.kernel.size \in Nat
    BY <1>5, MapFacts DEF LoadFile, BootInv, BootTypeOK
  <2>2. NewBlock(store.kernel.size) \in Region
    BY <2>1, BlockFacts DEF BootInv
  <2>3. live' \in [DOMAIN live' -> Region]
    BY <1>5, <2>2, PlacedType DEF LoadFile, TypeOK
  <2> QED
    BY <1>1, <1>5, <2>1, <2>3, TypeByParts DEF LoadFile, Located, TypeOK
<1>6. CASE LoadSegments
  <2>1. store.kernel.at \in Region /\ store.kernel.entry \in Nat
    BY MachineAssumption DEF TypeOK, Store, Kernel
  <2>2. live' \in [DOMAIN live' -> Region]
    BY <1>6, <2>1, PlacedType DEF LoadSegments, TypeOK
  <2> QED
    BY <1>1, <1>6, <2>1, <2>2, TypeByParts DEF LoadSegments, TypeOK, Loaded
<1>7. ASSUME NEW n, NEW bytes \in Nat, NEW next \in Loaded,
             Make(n, bytes, next)
      PROVE  TypeOK'
  <2>1. NewBlock(bytes) \in Region
    BY BlockFacts DEF BootInv
  <2>2. live' \in [DOMAIN live' -> Region]
    BY <1>7, <2>1, PlacedType DEF Make, Place, TypeOK
  <2> QED
    BY <1>1, <1>7, <2>2, TypeByParts DEF Make, TypeOK
<1>8. CASE CreateHandoff
  BY <1>7, <1>8 DEF CreateHandoff, HandoffSize, Loaded
<1>9. CASE CopyCmdline
  BY <1>7, <1>9, CmdlineFits DEF CopyCmdline, TypeOK, Loaded
<1>10. CASE \E n \in Strings : MakeString(n)
  BY <1>1, <1>10, TypeByParts DEF MakeString, Write, TypeOK, Loaded
<1>11. CASE UNCHANGED vars
  BY <1>11 DEF vars, TypeOK
<1> QED
  BY <1>2, <1>3, <1>4, <1>5, <1>6, <1>8, <1>9, <1>10, <1>11 DEF Next

\* The memory map stays one: every object in memory has a region, and only objects
\* in memory are written over.
THEOREM BootTypeCorrect == Spec => []TypeOK
<1> QED
  BY StartType, TypeStep, BootInvInit, BootInvStep, PTL DEF Spec
-----------------------------------------------------------------------------
(* The file and the loader *)

Early == {"ram", "menu", "locate"}
Reading == {"verify", "load"}

\* Where the objects of the machine lie, and which do not exist yet.
PlacesInv ==
  /\ "loader" \in DOMAIN live /\ live["loader"] = hw.loader
  /\ "volume" \in DOMAIN live => live["volume"] = FatImage
  /\ pc \in Early => image = "none" /\ "file" \notin DOMAIN live

\* The volume is whole until the file is read from it, and the file lies below
\* the bump pointer from then on.
FileInv ==
  ~Overlap(FatImage, Heap) /\ ~MarkAstray =>
    /\ pc \in Early => "volume" \notin dirty \union hit
    /\ pc \in Reading /\ image = "file" =>
         /\ "file" \in DOMAIN live /\ live["file"].hi <= heap_ptr
         /\ "file" \notin dirty \union hit

\* The linker keeps the loader off the two words of the RAM check.
MarksClear == \A at \in {Offset1, Offset2} : ~Overlap(hw.loader, Word(at))

LoaderInv ==
  /\ KernelClear /\ ~Overlap(hw.loader, Heap) /\ MarksClear => "loader" \notin dirty
  /\ "loader" \in hit => MarkAstray \/ Misread \/ FieldsWritten

KeptInv == PlacesInv /\ FileInv /\ LoaderInv

\* A step that finds room for a block leaves everything outside the heap alone.
LEMMA BlockMissesOutside ==
  ASSUME BootInv, NEW n \in Nat, HeapHas(n), NEW own,
         NEW o \in DOMAIN live, live[o] \in Region, ~Overlap(live[o], Heap)
  PROVE  o \notin Spoilt(NewBlock(n), own)
<1>1. NewBlock(n) \in Region /\ NewBlock(n).lo = heap_ptr /\ NewBlock(n).hi < hw.heap_max
      /\ heap_ptr \in Nat /\ hw.heap_start <= heap_ptr /\ heap_ptr < NewBlock(n).hi
  BY BlockFacts DEF BootInv, BootTypeOK, HeapHas
<1>2. hw.heap_start \in Nat /\ hw.heap_max \in Nat
  BY MapFacts DEF BootInv
<1>3. ~Overlap(live[o], NewBlock(n))
  <2> DEFINE r == NewBlock(n)
             g == live[o]
  <2>1. r \in Region /\ g \in Region
    BY <1>1
  <2>2. r.lo = heap_ptr /\ r.hi < hw.heap_max /\ heap_ptr < r.hi
    BY <1>1
  <2>3. ~Overlap(g, [lo |-> hw.heap_start, hi |-> hw.heap_max])
    BY DEF Heap
  <2> HIDE DEF r, g
  <2>4. ~Overlap(g, r)
    BY <1>1, <1>2, <2>1, <2>2, <2>3 DEF Overlap, Region
  <2> QED
    BY <2>4 DEF r, g
<1> QED
  BY <1>3 DEF Spoilt

\* Nothing is written over an object outside the heap that the marks of the RAM
\* check miss, and that the kernel's segments miss.
LEMMA OutsideSpared ==
  ASSUME BootInv, TypeOK, [Next]_vars,
         NEW o \in DOMAIN live, o \notin {"file", "segments"} \union Made,
         ~Overlap(live[o], Heap),
         \A at \in {Offset1, Offset2} : ~Overlap(live[o], Word(at)),
         pc = "load" => ~Overlap(live[o], store.kernel.at),
         o \notin dirty
  PROVE  o \notin dirty'
<1>1. live[o] \in Region
  BY DEF TypeOK
<1>2. CASE RamPasses \/ RamFails
  <2>1. \A at \in {Offset1, Offset2} : o \notin Spoilt(Word(at), "none")
    BY DEF Spoilt
  <2> QED
    BY <1>2, <2>1 DEF RamPasses, RamFails, MarksWritten
<1>3. CASE \E n \in Strings : MakeString(n)
  <2>1. PICK n \in Strings : MakeString(n)
    BY <1>3
  <2>2. n \in Nat /\ HeapHas(n) /\ dirty' = dirty \union Spoilt(NewBlock(n), "none")
    BY <2>1, MachineAssumption DEF MakeString, Write
  <2> QED
    BY <1>1, <2>2, BlockMissesOutside
<1>4. CASE LoadFile
  <2>1. store.kernel.size \in Nat /\ HeapHas(store.kernel.size)
    BY <1>4, MapFacts DEF LoadFile, BootInv, BootTypeOK
  <2>2. o \notin Spoilt(NewBlock(store.kernel.size), "file")
    BY <1>1, <2>1, BlockMissesOutside
  <2>3. dirty' \subseteq dirty \union Spoilt(NewBlock(store.kernel.size), "file")
                        \union {"file"}
    BY <1>4 DEF LoadFile
  <2> QED
    BY <2>2, <2>3
<1>5. CASE LoadSegments
  <2>1. pc = "load"
    BY <1>5 DEF LoadSegments
  <2>2. dirty' \subseteq dirty \union Spoilt(store.kernel.at, "segments")
                        \union {"segments"}
    BY <1>5, <2>1 DEF LoadSegments
  <2>3. o \notin Spoilt(store.kernel.at, "segments")
    BY <2>1 DEF Spoilt
  <2> QED
    BY <2>2, <2>3
<1>6. ASSUME NEW n, NEW bytes \in Nat, NEW next, Make(n, bytes, next)
      PROVE  o \notin dirty'
  <2>1. CASE HeapHas(bytes)
    <3>1. o \notin Spoilt(NewBlock(bytes), n)
      BY <1>1, <2>1, BlockMissesOutside
    <3> QED
      BY <1>6, <2>1, <3>1 DEF Make, Place
  <2>2. CASE ~HeapHas(bytes)
    BY <1>6, <2>2 DEF Make
  <2> QED
    BY <2>1, <2>2
<1>7. CASE CreateHandoff \/ CopyCmdline
  BY <1>6, <1>7, CmdlineFits DEF CreateHandoff, CopyCmdline, HandoffSize, TypeOK
<1>8. CASE UNCHANGED dirty
  BY <1>8
<1> QED
  BY <1>2, <1>3, <1>4, <1>5, <1>7, <1>8
  DEF Next, ShowMenu, TrxInvalid, InFlash, UseMock, LoadFileFails, TooSmall, Verified,
      LoadFails, SetKernel, SetCmdline, SetMmap, SetFields, BootKernel, vars

\* The machine does not change, the bump pointer only grows, an object that is
\* there stays where it is unless it is made anew, and the file is located once.
LEMMA StepFacts ==
  ASSUME BootInv, TypeOK, PlacesInv, [Next]_vars
  PROVE  /\ hw' = hw /\ store' = store
         /\ heap_ptr \in Nat /\ heap_ptr' \in Nat /\ heap_ptr <= heap_ptr'
         /\ DOMAIN live \subseteq DOMAIN live'
         /\ DOMAIN live' \subseteq DOMAIN live \union {"file", "segments"} \union Made
         /\ \A o \in DOMAIN live :
              o \notin {"file", "segments"} \union Made => live'[o] = live[o]
         /\ pc' \in Early => pc \in Early /\ image' = image /\ live' = live
         /\ pc \notin Early => image' = image
<1>1. heap_ptr \in Nat /\ heap_ptr' \in Nat
  BY BootInvStep DEF BootInv, BootTypeOK
<1>2. \A n \in Nat : heap_ptr <= BlockEnd(n)
  BY <1>1, BlockFacts DEF BootInv
<1>3. CASE LoadFile
  <2>1. store.kernel.size \in Nat
    BY <1>3, MapFacts DEF LoadFile, BootInv, BootTypeOK
  <2> QED
    BY <1>1, <1>2, <1>3, <2>1 DEF LoadFile, Bump, Located, Early
<1>4. CASE LoadSegments
  BY <1>1, <1>4 DEF LoadSegments, Early
<1>5. ASSUME NEW n \in Made, NEW bytes \in Nat, NEW next \in Loaded,
             Make(n, bytes, next), pc \notin Early
      PROVE  /\ hw' = hw /\ store' = store /\ heap_ptr <= heap_ptr' /\ image' = image
             /\ DOMAIN live \subseteq DOMAIN live'
             /\ DOMAIN live' \subseteq DOMAIN live \union Made
             /\ \A o \in DOMAIN live : o \notin Made => live'[o] = live[o]
             /\ pc' \notin Early
  BY <1>1, <1>2, <1>5 DEF Make, Bump, Place, Early, Loaded
<1>6. CASE CreateHandoff
  BY <1>1, <1>5, <1>6 DEF CreateHandoff, HandoffSize, Made, Early, Loaded
<1>7. CASE CopyCmdline
  BY <1>1, <1>5, <1>7, CmdlineFits DEF CopyCmdline, Made, Early, Loaded, TypeOK
<1>8. CASE \E n \in Strings : MakeString(n)
  BY <1>1, <1>2, <1>8, MachineAssumption DEF MakeString, Bump, Write
<1>9. CASE RamPasses \/ RamFails \/ ShowMenu \/ TrxInvalid \/ TooSmall \/ Verified
           \/ LoadFails \/ SetKernel \/ SetCmdline \/ SetMmap \/ BootKernel
           \/ UNCHANGED vars
  BY <1>1, <1>9 DEF RamPasses, RamFails, ShowMenu, TrxInvalid, TooSmall, Verified,
     LoadFails, SetKernel, SetCmdline, SetMmap, SetFields, BootKernel, memoryVars, vars,
     Early
<1>10. CASE InFlash \/ UseMock \/ LoadFileFails
  BY <1>1, <1>10 DEF InFlash, UseMock, LoadFileFails, Located, Early
<1> QED
  BY <1>3, <1>4, <1>6, <1>7, <1>8, <1>9, <1>10 DEF Next

LEMMA KeptInit == Init => KeptInv
<1> SUFFICES ASSUME Init PROVE KeptInv
  OBVIOUS
<1>1. BootInv /\ TypeOK
  BY BootInvInit, StartType
<1>2. DOMAIN live = Placed
  BY DEF Init
<1>3. /\ "loader" \in DOMAIN live /\ live["loader"] = hw.loader
      /\ "volume" \in DOMAIN live => live["volume"] = FatImage
      /\ "file" \notin DOMAIN live
  <2>1. RegionOf("loader") = hw.loader /\ RegionOf("volume") = FatImage
    BY Zenon DEF RegionOf
  <2> QED
    BY <1>2, <2>1 DEF Init, Placed
<1>4. PlacesInv
  BY <1>3 DEF Init, PlacesInv
\* The runtime's data is the first block of the heap.
<1>5. ASSUME NEW o \in DOMAIN live, live[o] \in Region, ~Overlap(live[o], Heap)
      PROVE  o \notin dirty
  <2>1. hw.heap_start \in Nat /\ hw.heap_max \in Nat
        /\ hw.heap_start + 64 < hw.heap_max
    BY MachineAssumption DEF Init, Machine
  <2>2. ~Overlap(live[o], RuntimeData)
    BY <1>5, <2>1 DEF Overlap, Heap, RuntimeData, Region
  <2> QED
    BY <2>2 DEF Init, Spoilt
<1>6. hw.loader \in Region /\ FatImage \in Region
  BY <1>1, MachineAssumption DEF TypeOK, Machine, FatImage, MB, Region
<1>7. FileInv
  <2>1. "volume" \in DOMAIN live /\ ~Overlap(FatImage, Heap) => "volume" \notin dirty
    BY <1>3, <1>5, <1>6
  <2>2. "volume" \notin DOMAIN live => "volume" \notin dirty
    BY <1>1 DEF TypeOK
  <2> QED
    BY <2>1, <2>2 DEF FileInv, Init, Reading
<1>8. LoaderInv
  BY <1>3, <1>5, <1>6 DEF LoaderInv, Init
<1> QED
  BY <1>4, <1>7, <1>8 DEF KeptInv

LEMMA PlacesStep ==
  ASSUME BootInv, TypeOK, PlacesInv, [Next]_vars
  PROVE  PlacesInv'
<1>1. /\ hw' = hw
      /\ DOMAIN live \subseteq DOMAIN live'
      /\ DOMAIN live' \subseteq DOMAIN live \union {"file", "segments"} \union Made
      /\ \A o \in DOMAIN live :
           o \notin {"file", "segments"} \union Made => live'[o] = live[o]
      /\ pc' \in Early => pc \in Early /\ image' = image /\ live' = live
  BY StepFacts
<1>2. "loader" \notin {"file", "segments"} \union Made
      /\ "volume" \notin {"file", "segments"} \union Made
  BY DEF Made
<1> QED
  BY <1>1, <1>2 DEF PlacesInv

\* The kernel is read astray, or not, as it was located.
LEMMA MisreadStays ==
  ASSUME BootInv, TypeOK, PlacesInv, [Next]_vars, ~Misread'
  PROVE  ~Misread
<1>1. hw' = hw /\ (pc \notin Early => image' = image)
  BY StepFacts
<1>2. pc \in Early => image = "none"
  BY DEF PlacesInv
<1> QED
  BY <1>1, <1>2 DEF Misread, InHeap

LEMMA LoaderStep ==
  ASSUME BootInv, TypeOK, PlacesInv, LoaderInv, [Next]_vars
  PROVE  LoaderInv'
<1>1. hw' = hw /\ store' = store
  BY StepFacts
\* What is placed in memory.
<1>2. ASSUME (KernelClear /\ ~Overlap(hw.loader, Heap) /\ MarksClear)'
      PROVE  "loader" \notin dirty'
  <2>1. KernelClear /\ ~Overlap(hw.loader, Heap) /\ MarksClear
    BY <1>1, <1>2 DEF KernelClear, Heap, MarksClear, Offset1, Offset2
  <2>2. "loader" \notin dirty
    BY <2>1 DEF LoaderInv
  <2>3. "loader" \in DOMAIN live /\ live["loader"] = hw.loader
        /\ "loader" \notin {"file", "segments"} \union Made
    BY DEF PlacesInv, Made
  <2>4. ~Overlap(hw.loader, store.kernel.at)
    BY <2>1 DEF KernelClear, Overlap
  <2>5. \A at \in {Offset1, Offset2} : ~Overlap(live["loader"], Word(at))
    BY <2>1, <2>3 DEF MarksClear
  <2> QED
    BY <2>1, <2>2, <2>3, <2>4, <2>5, OutsideSpared
\* What goes astray: a mark, a kernel's headers, or a field.
<1>3. ASSUME "loader" \in hit', ~MarkAstray', ~Misread'
      PROVE  FieldsWritten'
  <2>1. ~MarkAstray /\ ~Misread
    BY <1>1, <1>3, MisreadStays DEF MarkAstray, Offset1, Offset2, InHeap
  <2>2. CASE SetKernel \/ SetCmdline \/ SetMmap
    BY <2>2 DEF SetKernel, SetCmdline, SetMmap, SetFields, FieldsWritten
  <2>3. CASE ~(SetKernel \/ SetCmdline \/ SetMmap)
    <3>1. "loader" \in hit
      BY <1>3, <2>1, <2>3
      DEF Next, RamPasses, RamFails, MarksWritten, ShowMenu, TrxInvalid, InFlash, UseMock,
          LoadFile, LoadFileFails, TooSmall, Verified, LoadFails, LoadSegments,
          CreateHandoff, CopyCmdline, Make, BootKernel, MakeString, vars
    <3>2. FieldsWritten
      BY <2>1, <3>1 DEF LoaderInv
    <3> QED
      BY <2>3, <3>2
      DEF Next, RamPasses, RamFails, ShowMenu, TrxInvalid, InFlash, UseMock, LoadFile,
          LoadFileFails, Located, TooSmall, Verified, LoadFails, LoadSegments,
          CreateHandoff, CopyCmdline, Make, BootKernel, MakeString, vars, FieldsWritten
  <2> QED
    BY <2>2, <2>3
<1> QED
  BY <1>2, <1>3 DEF LoaderInv

LEMMA FileStep ==
  ASSUME BootInv, TypeOK, PlacesInv, FileInv, [Next]_vars
  PROVE  FileInv'
<1> SUFFICES ASSUME (~Overlap(FatImage, Heap) /\ ~MarkAstray)'
             PROVE  /\ pc' \in Early => "volume" \notin dirty' \union hit'
                    /\ pc' \in Reading /\ image' = "file" =>
                         /\ "file" \in DOMAIN live' /\ live'["file"].hi <= heap_ptr'
                         /\ "file" \notin dirty' \union hit'
  BY DEF FileInv
<1>1. /\ hw' = hw /\ store' = store
      /\ DOMAIN live' \subseteq DOMAIN live \union {"file", "segments"} \union Made
      /\ pc' \in Early => pc \in Early /\ image' = image /\ live' = live
      /\ pc \notin Early => image' = image
      /\ heap_ptr \in Nat /\ heap_ptr' \in Nat /\ heap_ptr <= heap_ptr'
  BY StepFacts
<1>2. ~Overlap(FatImage, Heap) /\ ~MarkAstray
  BY <1>1 DEF Heap, Offset1, Offset2, MarkAstray, InHeap
<1>3. hw \in Machine /\ hw.heap_start \in Nat /\ hw.heap_max \in Nat /\ hw.ram_size \in Nat
      /\ hw.heap_start < hw.heap_max
  BY MapFacts, MachineAssumption DEF BootInv, BootTypeOK, Machine
<1>4. FatImage \in Region /\ \A at \in {Offset1, Offset2} : ~Overlap(FatImage, Word(at))
  BY <1>3 DEF FatImage, MB, Region, Offset1, Offset2, Word, Overlap
\* The volume, before the step that reads it.
<1>5. ASSUME pc \in Early PROVE "volume" \notin dirty' \union hit'
  <2>1. "volume" \notin dirty \union hit
    BY <1>2, <1>5 DEF FileInv
  <2>2. "volume" \notin hit'
    BY <1>2, <1>5, <2>1
    DEF Next, RamPasses, RamFails, MarksWritten, ShowMenu, TrxInvalid, InFlash, UseMock,
        LoadFile, LoadFileFails, TooSmall, Verified, LoadFails, LoadSegments,
        CreateHandoff, SetKernel, CopyCmdline, SetCmdline, SetMmap, BootKernel,
        MakeString, vars, Early
  <2>3. CASE "volume" \in DOMAIN live
    <3>1. live["volume"] = FatImage /\ "volume" \notin {"file", "segments"} \union Made
      BY <2>3 DEF PlacesInv, Made
    <3>2. pc # "load"
      BY <1>5 DEF Early
    <3> QED
      BY <1>2, <1>4, <2>1, <2>3, <2>2, <3>1, <3>2, OutsideSpared
  <2>4. CASE "volume" \notin DOMAIN live
    <3>1. "volume" \notin DOMAIN live'
      BY <1>1, <2>4 DEF Made
    <3> QED
      BY <2>2, <3>1, BootInvStep DEF BootInv, MadeBelow
  <2> QED
    BY <2>3, <2>4
\* The file, while it is read.
<1>6. ASSUME pc' \in Reading, image' = "file"
      PROVE  /\ "file" \in DOMAIN live' /\ live'["file"].hi <= heap_ptr'
             /\ "file" \notin dirty' \union hit'
  <2>1. CASE LoadFile
    <3> DEFINE r == NewBlock(store.kernel.size)
    <3>1. store.kernel.size \in Nat /\ pc \in Early
      BY <2>1, MapFacts DEF LoadFile, BootInv, BootTypeOK, Early
    <3>2. "file" \in DOMAIN live' /\ live'["file"] = r
          /\ r.hi = heap_ptr'
      BY <2>1, <3>1, BlockFacts DEF LoadFile, Bump, BootInv
    <3>3. "file" \notin dirty \union hit \union Spoilt(r, "file")
      BY <3>1 DEF PlacesInv, TypeOK, Spoilt
    <3>4. "volume" \notin dirty \union Spoilt(r, "file")
      <4>1. "volume" \notin dirty'
        BY <1>5, <3>1
      <4> QED
        BY <2>1, <4>1 DEF LoadFile
    <3>5. "volume" \notin hit
      BY <1>2, <3>1 DEF FileInv
    <3>6. ~VolumeAstray
      BY <1>2, <1>3 DEF VolumeAstray, InHeap, Overlap, Heap, FatImage, MB
    <3> HIDE DEF r
    <3>7. dirty' = dirty \union Spoilt(r, "file") /\ hit' = hit
      BY <2>1, <3>4, <3>6, <3>5 DEF LoadFile, r
    <3> QED
      BY <1>1, <3>2, <3>3, <3>7
  <2>2. ASSUME ~LoadFile
        PROVE  pc \in Reading /\ image = "file"
    BY <1>1, <1>6, <2>2
    DEF Next, RamPasses, RamFails, ShowMenu, TrxInvalid, InFlash, UseMock, LoadFileFails,
        Located, TooSmall, Verified, LoadFails, LoadSegments, CreateHandoff, CopyCmdline,
        Make, SetKernel, SetCmdline, SetMmap, SetFields, BootKernel, MakeString,
        memoryVars, vars, Reading, Early
  <2>3. CASE ~LoadFile
    <3>1. "file" \in DOMAIN live /\ live["file"].hi <= heap_ptr
          /\ "file" \notin dirty \union hit
      BY <1>2, <2>2, <2>3 DEF FileInv
    <3>2. CASE \E n \in Strings : MakeString(n)
      <4>1. PICK n \in Strings : MakeString(n)
        BY <3>2
      <4>2. n \in Nat /\ live' = live /\ hit' = hit
            /\ dirty' = dirty \union Spoilt(NewBlock(n), "none")
        BY <4>1, MachineAssumption DEF MakeString, Write
      <4>3. NewBlock(n) \in Region /\ NewBlock(n).lo = heap_ptr
        BY <4>2, BlockFacts DEF BootInv
      <4>4. live["file"] \in Region
        BY <3>1 DEF TypeOK
      <4>5. "file" \notin Spoilt(NewBlock(n), "none")
        BY <1>1, <3>1, <4>3, <4>4 DEF Spoilt, Overlap, Region
      <4> QED
        BY <1>1, <3>1, <4>2, <4>4, <4>5 DEF Region
    <3>3. CASE UNCHANGED <<live, dirty, hit, heap_ptr>>
      BY <3>1, <3>3
    <3> QED
      BY <1>6, <2>2, <2>3, <3>2, <3>3
      DEF Next, RamPasses, RamFails, ShowMenu, TrxInvalid, InFlash, UseMock, LoadFileFails,
          TooSmall, Verified, LoadFails, LoadSegments, CreateHandoff, CopyCmdline,
          SetKernel, SetCmdline, SetMmap, BootKernel, memoryVars, vars, Reading
  <2> QED
    BY <2>1, <2>3
<1> QED
  BY <1>1, <1>5, <1>6

LEMMA KeptStep == BootInv /\ TypeOK /\ KeptInv /\ [Next]_vars => KeptInv'
BY PlacesStep, FileStep, LoaderStep DEF KeptInv

LEMMA KeptAlways == Spec => [](BootInv /\ TypeOK /\ KeptInv)
BY BootInvInit, StartType, KeptInit, BootInvStep, TypeStep, KeptStep, PTL DEF Spec

\* Where the volume is out of the heap, the file in the buffer is the file on the
\* volume.  (A mark of the RAM check that is taken for a structure may change any
\* byte in memory, the volume's too: no target that reads a volume has one.)
THEOREM FileArrivesWhole == Spec => [](~MarkAstray => FileIntact)
<1>1. KeptInv => (~MarkAstray => FileIntact)
  BY DEF KeptInv, FileInv, FileIntact, Reading
<1> QED
  BY <1>1, KeptAlways, PTL

\* The loader does not overwrite itself on its way to the jump, where the linker
\* keeps it off the words the RAM check writes, which every linker script does.
THEOREM LoaderSurvives == Spec => [](MarksClear => LoaderIntact)
<1>1. KeptInv => (MarksClear => LoaderIntact)
  BY DEF KeptInv, LoaderInv, LoaderIntact
<1> QED
  BY <1>1, KeptAlways, PTL
=============================================================================

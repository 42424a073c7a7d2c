------------------------------- MODULE Stage1 -------------------------------
(***************************************************************************)
(* src/bootloader.sage: stage1_entry takes the machine from the RAM check    *)
(* to the jump into the kernel.  Its parts appear here by what they promise: *)
(* the menu returns an option (BootMenu), the FAT reader finds and loads a  *)
(* file or does not (FatReader), the loader copies segments (ElfLoader), the *)
(* heap hands out fresh bytes and never takes them back (Heap).             *)
(*                                                                         *)
(* What they share is memory, and no part knows the others' addresses.  The *)
(* model keeps the region of every object, and two sets: the objects that   *)
(* another was written into since they were made, and the objects an access  *)
(* astray may have spoilt.  Addresses are relative to hw.RAM_START.         *)
(*                                                                         *)
(* An access is astray when its address is a number in the heap that         *)
(* mem_alloc did not give: it is taken for a structure (Pointers), and what  *)
(* is read or written may be anywhere.  The fields of the handoff structure  *)
(* are written that way; Handoff has what becomes of them.                  *)
(***************************************************************************)
EXTENDS Integers

CONSTANTS
  Machines,     \* the memory maps: see Machine
  Stores,       \* what storage may hold: see Store
  Strings,      \* sizes of the strings and values the Sage runtime makes
  MaxStrings    \* bound: how many of them

Options == 0 .. 2

\* The options whose kernel name fits a directory entry: "sageos.elf" and
\* "test.elf" do, the ten characters of "sageos_dbg" do not.
ShortNames == {0, 2}

Region == [lo : Int, hi : Int]
Overlap(r, s) == r.lo < r.hi /\ s.lo < s.hi /\ r.lo < s.hi /\ s.lo < r.hi

\* A target: how it finds its kernel, hw.RAM_SIZE, HEAP_START and HEAP_MAX of
\* compat.c, and where the linker puts the running loader and its stack.
Machine == [locate : {"fat", "trx", "xip"}, ram_size : Nat, heap_start : Nat,
            heap_max : Nat, loader : Region, load_addr : Nat]

\* A kernel: the size of its file, whether it is ELF, its entry point, and the
\* region its segments are loaded to.
Kernel == [size : Int, elf : BOOLEAN, entry : Nat, at : Region]

\* Storage: whether its header is valid (a FAT boot sector, a TRX header, the ELF
\* magic in flash), the options whose file is there, whether a kernel was put at
\* the mark of the mock kernel before the machine started, and the kernel.
Store == [valid : BOOLEAN, files : SUBSET Options, payload : BOOLEAN,
          kernel : Kernel]

\* The marks of stage1_entry, and what the handoff structure takes.
MB == 1048576
MockKernel == [lo |-> 16 * MB, hi |-> 17 * MB]
FatImage == [lo |-> 32 * MB, hi |-> 33 * MB]
HandoffSize == 96

ASSUME MachineAssumption ==
  /\ Machines \subseteq Machine /\ Stores \subseteq Store
  /\ \A m \in Machines : m.heap_start + 64 < m.heap_max
  /\ Strings \subseteq Nat /\ MaxStrings \in Nat

VARIABLES
  hw,         \* the machine
  store,      \* its storage
  pc,         \* the step stage1_entry is at; "halted" and "booted" are the ends
  choice,     \* the selected option
  image,      \* where the kernel file is: "none", "file", "flash", "mock", "null"
  size,       \* kernel_size
  entry,      \* entry_addr
  heap_ptr,   \* the bump pointer
  live,       \* the objects in memory and their regions
  dirty,      \* the objects something else was written into
  hit,        \* the objects an access astray may have spoilt
  strings     \* how many values the runtime has made

vars == <<hw, store, pc, choice, image, size, entry, heap_ptr, live, dirty, hit,
          strings>>

\* Memory, the heap and what was located in them.
memoryVars == <<hw, store, image, size, entry, heap_ptr, live, strings>>

-----------------------------------------------------------------------------
(* Memory *)

\* The objects a write to region r spoils, other than its own.
Spoilt(r, own) == {m \in DOMAIN live \ {own} : Overlap(live[m], r)}

Write(r) ==
  /\ dirty' = dirty \union Spoilt(r, "none")
  /\ UNCHANGED live

\* Object n comes to lie in region r.
Place(n, r) ==
  /\ live' = [m \in DOMAIN live \union {n} |-> IF m = n THEN r ELSE live[m]]
  /\ dirty' = (dirty \ {n}) \union Spoilt(r, n)

\* A block of n bytes: header, and the bytes rounded up to 8.
BlockEnd(n) == heap_ptr + 8 + 8 * ((n + 7) \div 8)
HeapHas(n) == BlockEnd(n) < hw.heap_max
NewBlock(n) == [lo |-> heap_ptr, hi |-> BlockEnd(n)]

\* Fault: the block is handed out and not taken off the heap.
FaultBump(n) == heap_ptr' = heap_ptr

Bump(n) == heap_ptr' = BlockEnd(n)

\* Every print of a number and every string sum takes heap, at any step.
MakeString(n) ==
  /\ pc \notin {"halted", "booted"}
  /\ strings < MaxStrings
  /\ strings' = strings + 1
  /\ HeapHas(n)
  /\ Bump(n)
  /\ Write(NewBlock(n))
  /\ UNCHANGED <<hw, store, pc, choice, image, size, entry, hit>>

\* A number that is taken for a structure.
InHeap(at) == hw.heap_start <= at /\ at < hw.heap_max

-----------------------------------------------------------------------------
(* run_ram_diagnostics *)

Word(at) == [lo |-> at, hi |-> at + 4]
\* Fault: the mark is at 64 KB.
FaultOffset1 == 65536

Offset1 == MB
Offset2 == IF 16 * MB >= hw.ram_size THEN hw.ram_size \div 2 ELSE 16 * MB

\* A mark is astray in the heap, save on its first word, the header of the first
\* block: a size, which is no address in RAM.
MarkAstray == \E at \in {Offset1, Offset2} : InHeap(at) /\ at # hw.heap_start

MarksWritten ==
  /\ dirty' = dirty \union
       UNION {Spoilt(Word(at), "none") : at \in {o \in {Offset1, Offset2} : ~InHeap(o)}}
  /\ hit' = IF MarkAstray THEN DOMAIN live ELSE hit

\* Both marks read back what was written.  Beyond the end of RAM, or astray,
\* anything may come back: RamFails is the other outcome.
RamPasses ==
  /\ pc = "ram"
  /\ pc' = "menu"
  /\ MarksWritten
  /\ UNCHANGED <<memoryVars, choice>>

RamFails ==
  /\ pc = "ram"
  /\ pc' = "halted"
  /\ MarksWritten
  /\ UNCHANGED <<memoryVars, choice>>

\* What the menu might return, and the default of boot.cfg.
MenuResults == -1 .. 3
DefaultChoice == 0

\* Fault: nobody checks what the menu returns.
FaultShowMenu ==
  /\ pc = "menu"
  /\ choice' \in MenuResults
  /\ pc' = "locate"
  /\ UNCHANGED <<memoryVars, dirty, hit>>

\* An index out of range becomes the default.
ShowMenu ==
  /\ pc = "menu"
  /\ \E c \in MenuResults : choice' = IF c \in Options THEN c ELSE DefaultChoice
  /\ pc' = "locate"
  /\ UNCHANGED <<memoryVars, dirty, hit>>

-----------------------------------------------------------------------------
(* Locating the kernel *)

Located(what, n) == image' = what /\ size' = n /\ pc' = "verify"

TrxInvalid ==
  /\ pc = "locate" /\ hw.locate = "trx"
  /\ ~store.valid
  /\ pc' = "halted"
  /\ UNCHANGED <<memoryVars, choice, dirty, hit>>

\* The kernel of a TRX container, or the ELF file in flash, stays where it is.
InFlash ==
  /\ pc = "locate" /\ hw.locate \in {"trx", "xip"}
  /\ store.valid
  /\ Located("flash", IF hw.locate = "trx" THEN store.kernel.size ELSE MB)
  /\ UNCHANGED <<hw, store, choice, entry, heap_ptr, live, dirty, hit, strings>>

\* The directory has the file under a name find_fat_file can match.
Findable == store.valid /\ choice \in store.files \intersect ShortNames

\* The volume lies in the heap, and every read of it is astray.
VolumeAstray == InHeap(FatImage.lo)

\* No volume, no such file, no ELF magic in flash: the mock kernel, silently.
UseMock ==
  /\ pc = "locate"
  /\ \/ hw.locate = "fat" /\ (~Findable \/ VolumeAstray)
     \/ hw.locate = "xip" /\ ~store.valid
  /\ Located("mock", MB)
  /\ UNCHANGED <<hw, store, choice, entry, heap_ptr, live, dirty, hit, strings>>

\* load_fat_file copies the file into a new block.  Bytes of the volume that were
\* written over, by this copy too, spoil the file, and so may a volume read astray.
LoadFile ==
  LET r == NewBlock(store.kernel.size) IN
  /\ pc = "locate" /\ hw.locate = "fat"
  /\ Findable
  /\ HeapHas(store.kernel.size)
  /\ Bump(store.kernel.size)
  /\ live' = [m \in DOMAIN live \union {"file"} |-> IF m = "file" THEN r ELSE live[m]]
  /\ dirty' = LET d == dirty \union Spoilt(r, "file")
              IN  IF "volume" \in d THEN d \union {"file"} ELSE d
  /\ hit' = IF "volume" \in hit \/ VolumeAstray THEN hit \union {"file"} ELSE hit
  /\ Located("file", store.kernel.size)
  /\ UNCHANGED <<hw, store, choice, entry, strings>>

\* mem_alloc returns nil and load_fat_file 0, which nobody looks at.
LoadFileFails ==
  /\ pc = "locate" /\ hw.locate = "fat"
  /\ Findable
  /\ ~HeapHas(store.kernel.size)
  /\ Located("null", store.kernel.size)
  /\ UNCHANGED <<hw, store, choice, entry, heap_ptr, live, dirty, hit, strings>>

-----------------------------------------------------------------------------
(* verify_kernel and load_elf *)

TooSmall ==
  /\ pc = "verify"
  /\ size < 64
  /\ pc' = "halted"
  /\ UNCHANGED <<memoryVars, choice, dirty, hit>>

\* The checksum is printed and compared with nothing.
Verified ==
  /\ pc = "verify"
  /\ size >= 64
  /\ pc' = "load"
  /\ UNCHANGED <<memoryVars, choice, dirty, hit>>

\* load_elf reads the file astray: the program headers of a file in a block at
\* elf_buf_ptr + phoff, or all of a mock kernel that lies in the heap.
Misread == image = "file" \/ (image = "mock" /\ InHeap(MockKernel.lo))

\* There is a kernel where load_elf looks, and it is read as it was put there.
Present == image \in {"file", "flash"} \/ (image = "mock" /\ store.payload)
Sound == Present /\ image \notin dirty \union hit /\ ~Misread

\* load_elf returned 0: no ELF magic, or an entry point of zero.  A kernel that is
\* not sound may be refused or not.
LoadFails ==
  /\ pc = "load"
  /\ Sound => ~store.kernel.elf \/ store.kernel.entry = 0
  /\ pc' = "halted"
  /\ UNCHANGED <<memoryVars, choice, dirty, hit>>

\* The segments are in place, if spoilt like the file they come from.  Segments
\* of headers read astray go anywhere.
LoadSegments ==
  /\ pc = "load"
  /\ Present
  /\ store.kernel.elf /\ store.kernel.entry # 0
  /\ entry' = store.kernel.entry
  /\ live' = [m \in DOMAIN live \union {"segments"} |->
                IF m = "segments" THEN store.kernel.at ELSE live[m]]
  /\ dirty' = dirty \union Spoilt(store.kernel.at, "segments")
                    \union (IF image \in dirty THEN {"segments"} ELSE {})
  /\ hit' = IF Misread THEN DOMAIN live'
            ELSE IF image \in hit THEN hit \union {"segments"} ELSE hit
  /\ pc' = "handoff"
  /\ UNCHANGED <<hw, store, choice, image, size, heap_ptr, strings>>

-----------------------------------------------------------------------------
(* The handoff structure, the command line, and the jump *)

\* A block for object n; without room it is nil, and the loader goes on.
Make(n, bytes, next) ==
  /\ pc' = next
  /\ \/ /\ HeapHas(bytes)
        /\ Bump(bytes)
        /\ Place(n, NewBlock(bytes))
     \/ /\ ~HeapHas(bytes)
        /\ UNCHANGED <<heap_ptr, live, dirty>>
  /\ UNCHANGED <<hw, store, choice, image, size, entry, hit, strings>>

\* set_kernel, set_cmdline and set_mmap write fields at numbers inside the
\* structure, which mem_alloc did not give.  Without a structure the numbers are
\* small, and the writes fall below RAM.
SetFields(next) ==
  /\ pc' = next
  /\ hit' = IF "handoff" \in DOMAIN live THEN DOMAIN live ELSE hit
  /\ UNCHANGED <<memoryVars, choice, dirty>>

\* Fault: the structure is put at the mark the RAM check has just found good.
FaultHandoffFixed ==
  /\ pc = "handoff" /\ pc' = "set_kernel"
  /\ Place("handoff", [lo |-> Offset1, hi |-> Offset1 + HandoffSize])
  /\ UNCHANGED <<hw, store, choice, image, size, entry, heap_ptr, hit, strings>>

CreateHandoff == pc = "handoff" /\ Make("handoff", HandoffSize, "set_kernel")

SetKernel == pc = "set_kernel" /\ SetFields("cmdline")

\* The lengths of the three command lines, with the null byte.
CmdlineSize ==
  CASE choice = 0 -> 47
    [] choice = 1 -> 38
    [] choice = 2 -> 9

CopyCmdline == pc = "cmdline" /\ Make("cmdline", CmdlineSize, "set_cmdline")

SetCmdline == pc = "set_cmdline" /\ SetFields("set_mmap")
SetMmap == pc = "set_mmap" /\ SetFields("jump")

BootKernel ==
  /\ pc = "jump"
  /\ pc' = "booted"
  /\ UNCHANGED <<memoryVars, choice, dirty, hit>>

-----------------------------------------------------------------------------
\* The runtime's own data, kernel_options among them, is the first block.
RuntimeData == [lo |-> hw.heap_start, hi |-> hw.heap_start + 64]

\* What is in memory when stage1_entry begins.
Placed ==
  {"loader", "runtime"}
    \union (IF hw.locate = "fat" /\ store.valid THEN {"volume"} ELSE {})
    \union (IF store.payload THEN {"mock"} ELSE {})

RegionOf(n) ==
  CASE n = "loader" -> hw.loader
    [] n = "runtime" -> RuntimeData
    [] n = "volume" -> FatImage
    [] n = "mock" -> MockKernel

Init ==
  /\ hw \in Machines /\ store \in Stores
  /\ hw.locate = "fat" => store.kernel.size >= 0  \* unsigned in a directory
  /\ pc = "ram"
  /\ choice = 0
  /\ image = "none" /\ size = 0 /\ entry = 0
  /\ heap_ptr = RuntimeData.hi
  /\ live = [n \in Placed |-> RegionOf(n)]
  /\ dirty = Spoilt(RuntimeData, "runtime")
  /\ hit = {}
  /\ strings = 0

Next ==
  \/ RamPasses \/ RamFails \/ ShowMenu
  \/ TrxInvalid \/ InFlash \/ UseMock \/ LoadFile \/ LoadFileFails
  \/ TooSmall \/ Verified \/ LoadFails \/ LoadSegments
  \/ CreateHandoff \/ SetKernel \/ CopyCmdline \/ SetCmdline \/ SetMmap \/ BootKernel
  \/ \E n \in Strings : MakeString(n)

Spec == Init /\ [][Next]_vars

-----------------------------------------------------------------------------
(* Properties *)

\* Type correctness of the boot sequence and of the memory map.
TypeOK ==
  /\ hw \in Machines /\ store \in Stores
  /\ pc \in {"ram", "menu", "locate", "verify", "load", "handoff", "set_kernel",
            "cmdline", "set_cmdline", "set_mmap", "jump", "booted", "halted"}
  /\ choice \in Options
  /\ image \in {"none", "file", "flash", "mock", "null"}
  /\ size \in Int /\ entry \in Nat /\ heap_ptr \in Nat /\ strings \in Nat
  /\ live \in [DOMAIN live -> Region]
  /\ dirty \subseteq DOMAIN live /\ hit \subseteq DOMAIN live

\* The heap and the loader are out of the kernel's way.
Heap == [lo |-> hw.heap_start, hi |-> hw.heap_max]
KernelClear ==
  ~Overlap(store.kernel.at, Heap) /\ ~Overlap(store.kernel.at, hw.loader)

\* What the kernel is told is not built over: no block, no string of the runtime
\* and no segment comes to lie over the handoff structure or the command line
\* between their making and the jump, wherever the segments lie.  Their bytes may
\* still change: the fields are written astray, and then both are in hit.
HandoffNotOverlaid == pc = "booted" => {"handoff", "cmdline"} \intersect dirty = {}

\* A kernel out of the way of the heap and the loader, read from bytes that nothing
\* was written over, is not written over either: no block the loader makes
\* afterwards, and no string of its runtime, lies over its segments.
SegmentsIntact ==
  (pc = "booted" /\ KernelClear /\ image \notin dirty) => "segments" \notin dirty

\* Where the volume is out of the heap, which it is not on x64, the file in the
\* buffer is the file on the volume: neither the buffer nor a string grew over
\* the other or over the volume, and no write before went astray.
FileIntact ==
  (pc \in {"verify", "load"} /\ image = "file" /\ ~Overlap(FatImage, Heap)) =>
     "file" \notin dirty \union hit

\* Nothing is placed over the running loader up to the jump; and no access astray
\* changes it before the fields of the structure are written, unless a mark of the
\* RAM check or the kernel's headers are astray.  It holds where the linker keeps
\* the loader out of the heap, which the RP2040's and RP2350's do not.
FieldsWritten == pc \in {"cmdline", "set_cmdline", "set_mmap", "jump", "booted"}
LoaderIntact ==
  (KernelClear /\ ~Overlap(hw.loader, Heap)) =>
    /\ "loader" \notin dirty
    /\ "loader" \in hit => MarkAstray \/ Misread \/ FieldsWritten

\* The kernel of the selected profile is used whenever the volume can be read and
\* has its file.
SelectedKernelUsed ==
  (pc = "verify" /\ hw.locate = "fat" /\ ~VolumeAstray /\ store.valid
      /\ choice \in store.files) =>
     image # "mock"
=============================================================================

----------------------------- MODULE ElfLoader ------------------------------
(***************************************************************************)
(* src/elf.sage: load_elf checks the magic and the class of the image at    *)
(* elf_buf_ptr, and load_elf32 or load_elf64 walks the program headers,     *)
(* copies every PT_LOAD segment to its physical address and zeroes the rest *)
(* of its memory size, a 32-bit word at a time and the tail by bytes.       *)
(*                                                                         *)
(* The two loaders differ in field offsets and widths only; an image here   *)
(* is the fields they read.  Segment bytes live in memory, so a segment may *)
(* be copied over the image it comes from.  The tables of headers may not   *)
(* be overwritten (ImageAssumption): the loader reads each header once, when *)
(* its turn comes, and finds what was there at the start.                   *)
(*                                                                         *)
(* The image lies outside the heap, so that a number is the address it says; *)
(* Pointers has what becomes of numbers inside it.                          *)
(***************************************************************************)
EXTENDS Integers, Sequences

CONSTANTS
  Addr,       \* the addresses of memory
  Mem0,       \* what memory holds when load_elf is called
  Base,       \* elf_buf_ptr
  Images      \* the images that may be found there

PT_LOAD == 1

Phdr == [type : Nat, offset : Nat, paddr : Nat, filesz : Nat, memsz : Nat]

\* The image fields load_elf reads: whether the four magic bytes match, the
\* class byte, e_entry, and the e_phnum program headers.  "header" is where the
\* ELF header and the program headers lie.
Image == [magic : BOOLEAN, class : Nat, entry : Nat, phs : Seq(Phdr),
          header : SUBSET Addr]

\* The bytes of the image a segment is copied from, and the bytes it writes.
Source(s) == Base + s.offset .. Base + s.offset + s.filesz - 1
CopyTarget(s) == s.paddr .. s.paddr + s.filesz - 1
ZeroTarget(s) == s.paddr + s.filesz .. s.paddr + s.memsz - 1
Target(s) == CopyTarget(s) \union ZeroTarget(s)

LoadSegments(m) == {k \in 1 .. Len(m.phs) : m.phs[k].type = PT_LOAD}

ASSUME MemoryAssumption ==
  /\ Addr \subseteq Int
  /\ Base \in Nat
  /\ Mem0 \in [Addr -> Nat]

\* Segments lie in memory, and no segment is loaded over the headers.
ASSUME ImageAssumption ==
  /\ Images \subseteq Image
  /\ \A m \in Images : \A k \in LoadSegments(m) :
        /\ Source(m.phs[k]) \subseteq Addr
        /\ Target(m.phs[k]) \subseteq Addr \ m.header

VARIABLES
  img,        \* the image at elf_buf_ptr
  pc,         \* where the loader is: "magic", "phdr", "copy", "zero" or "done"
  i,          \* the program header at hand
  b,          \* bytes of the segment copied
  z,          \* bytes of the segment written, while zeroing
  mem,        \* memory
  result,     \* what load_elf returns; -1 until it does
  segMem      \* auxiliary: memory when the segment at hand was begun

vars == <<img, pc, i, b, z, mem, result, segMem>>

-----------------------------------------------------------------------------
Init ==
  /\ img \in Images
  /\ pc = "magic"
  /\ i = 0 /\ b = 0 /\ z = 0
  /\ mem = Mem0 /\ segMem = Mem0
  /\ result = -1

\* Magic or class are wrong: 0 is returned and nothing is written.
Reject ==
  /\ pc = "magic"
  /\ ~img.magic \/ img.class \notin {1, 2}
  /\ pc' = "done"
  /\ result' = 0
  /\ UNCHANGED <<img, i, b, z, mem, segMem>>

Start(class) ==
  /\ pc = "magic"
  /\ img.magic /\ img.class = class
  /\ pc' = "phdr"
  /\ UNCHANGED <<img, i, b, z, mem, result, segMem>>

LoadElf32 == Start(1)
LoadElf64 == Start(2)

\* The program header whose turn it is.
Segment == img.phs[i + 1]

\* Fault: the table is walked downwards.
FaultNextHeader ==
  /\ i' = i - 1
  /\ pc' = "phdr"

\* i = i + 1, back to the head of the loop.
NextHeader ==
  /\ i' = i + 1
  /\ pc' = "phdr"

SkipHeader ==
  /\ pc = "phdr" /\ i < Len(img.phs)
  /\ Segment.type # PT_LOAD
  /\ NextHeader
  /\ UNCHANGED <<img, b, z, mem, result, segMem>>

BeginSegment ==
  /\ pc = "phdr" /\ i < Len(img.phs)
  /\ Segment.type = PT_LOAD
  /\ pc' = "copy"
  /\ b' = 0
  /\ segMem' = mem
  /\ UNCHANGED <<img, i, z, mem, result>>

\* The n bytes of the segment from its byte number k on, read from the image
\* and written to the target; one mem_read and one mem_write.
CopyChunk(n) ==
  LET s == Segment IN
  /\ mem' = [a \in Addr |->
               IF a \in s.paddr + b .. s.paddr + b + n - 1
               THEN mem[Base + s.offset + (a - s.paddr)] ELSE mem[a]]
  /\ b' = b + n
  /\ UNCHANGED <<img, pc, i, z, result, segMem>>

\* Fault: the tail of a segment is copied by words too.
FaultCopyWord == pc = "copy" /\ b < Segment.filesz /\ CopyChunk(4)

CopyWord == pc = "copy" /\ Segment.filesz - b >= 4 /\ CopyChunk(4)

\* Fault: the loop over the tail makes no progress.
FaultCopyByte ==
  /\ pc = "copy"
  /\ b < Segment.filesz /\ Segment.filesz - b < 4
  /\ CopyChunk(0)

CopyByte ==
  /\ pc = "copy"
  /\ b < Segment.filesz /\ Segment.filesz - b < 4
  /\ CopyChunk(1)

\* Fault: zeroing starts at the segment's first byte.
FaultBeginZero ==
  /\ pc = "copy" /\ b >= Segment.filesz
  /\ Segment.memsz > Segment.filesz
  /\ z' = 0
  /\ pc' = "zero"
  /\ UNCHANGED <<img, i, b, mem, result, segMem>>

\* The copy loop is over: zero up to p_memsz, if there is anything to zero.
BeginZero ==
  /\ pc = "copy" /\ b >= Segment.filesz
  /\ Segment.memsz > Segment.filesz
  /\ z' = Segment.filesz
  /\ pc' = "zero"
  /\ UNCHANGED <<img, i, b, mem, result, segMem>>

NoZero ==
  /\ pc = "copy" /\ b >= Segment.filesz
  /\ Segment.memsz <= Segment.filesz
  /\ NextHeader
  /\ UNCHANGED <<img, b, z, mem, result, segMem>>

ZeroChunk(n) ==
  LET s == Segment IN
  /\ mem' = [a \in Addr |->
               IF a \in s.paddr + z .. s.paddr + z + n - 1 THEN 0 ELSE mem[a]]
  /\ z' = z + n
  /\ UNCHANGED <<img, pc, i, b, result, segMem>>

ZeroWord == pc = "zero" /\ Segment.memsz - z >= 4 /\ ZeroChunk(4)

ZeroByte ==
  /\ pc = "zero"
  /\ z < Segment.memsz /\ Segment.memsz - z < 4
  /\ ZeroChunk(1)

EndZero ==
  /\ pc = "zero" /\ z >= Segment.memsz
  /\ NextHeader
  /\ UNCHANGED <<img, b, z, mem, result, segMem>>

ReturnEntry ==
  /\ pc = "phdr" /\ i >= Len(img.phs)
  /\ result' = img.entry
  /\ pc' = "done"
  /\ UNCHANGED <<img, i, b, z, mem, segMem>>

Next ==
  \/ Reject \/ LoadElf32 \/ LoadElf64
  \/ SkipHeader \/ BeginSegment
  \/ CopyWord \/ CopyByte \/ BeginZero \/ NoZero
  \/ ZeroWord \/ ZeroByte \/ EndZero
  \/ ReturnEntry

Spec == Init /\ [][Next]_vars

\* One thread runs the loader; nothing can keep it from its next instruction.
FairSpec == Spec /\ WF_vars(Next)

-----------------------------------------------------------------------------
(* Properties *)

\* Type correctness of the loader's loop variables and of memory.
TypeOK ==
  /\ img \in Images
  /\ pc \in {"magic", "phdr", "copy", "zero", "done"}
  /\ i \in Nat /\ b \in Nat /\ z \in Nat
  /\ mem \in [Addr -> Nat] /\ segMem \in [Addr -> Nat]
  /\ result \in Nat \union {-1}

\* At every moment, in the middle of a segment too, memory outside the targets
\* of the image's loadable segments is what it was before load_elf: the loader
\* and its word-sized writes never spill over a segment's end, and the headers
\* it has yet to read are intact.
OnlyTargetsWritten ==
  \A a \in Addr :
    (\A k \in LoadSegments(img) : a \notin Target(img.phs[k])) => mem[a] = Mem0[a]

\* A segment that is copied onto the image itself must move down, or not
\* overlap its own source: the forward copy would else read what it wrote.
SafeOverlap(s) ==
  s.paddr <= Base + s.offset \/ s.paddr >= Base + s.offset + s.filesz

AllSafe == \A m \in Images : \A k \in LoadSegments(m) : SafeOverlap(m.phs[k])

\* The loader implements the promise of SegmentLoad: seen from outside, a
\* segment is loaded when its loops have ended, and the result is as if it had
\* been copied and zeroed at once from the memory its copy began with.
Promise ==
  INSTANCE SegmentLoad
    WITH mem <- IF pc \in {"copy", "zero"} THEN segMem ELSE mem
ImplementsSegmentLoad == Promise!Spec

\* The loader returns, whatever the sizes in the program headers.
Returns == <>(pc = "done")
=============================================================================

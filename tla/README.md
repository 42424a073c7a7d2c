# A verification of SageBoot

TLA+ models of the SageBoot boot loader, model-checked with TLC, and theorems
about them checked with TLAPS. Paths are relative to the repository.

## 1. The system

SageBoot boots a kernel on eight targets. Stage 0 (`arch/*/boot.S`) sets up a
stack and calls `main`. Stage 1 (`src/*.sage`) is one Sage program, translated to
C, patched by `patch_bootloader.py` and linked with `compat/compat.c`. It checks
RAM, shows a menu, finds a kernel in a FAT volume, a TRX container or flash, loads
its ELF segments, builds a `SAGEOSBI` structure and jumps.

There is one thread, and the loader has no interrupt handler of its own; only the
atomics are written for one. What is hard is not concurrency: it is that everything shares one flat memory and no part knows where the
others are; that sizes, links and addresses come from a medium; that the clock is
a different counter on each target; and that a user types while the countdown
runs.

| Component | State | Operations | Hard part | Correct when |
|---|---|---|---|---|
| Heap (`compat/compat.c` 23-109) | bump pointer, block headers | malloc, free, realloc, calloc | exhaustion, in-place realloc, sums that wrap on 32 bits | blocks are apart, a header tells the truth, a block keeps its bytes |
| ELF loader (`src/elf.sage`) | loop counters, memory | load_elf, load_elf32, load_elf64 | word copies with byte tails, segments over the image | only targets are written, every segment is whole |
| FAT reader (`src/fs_fat.sage`) | volume fields, cluster, buffer | parse_fat_bpb, find_fat_file, load_fat_file | three table formats, broken chains, deleted entries | the right file, whole, and never past the buffer |
| Menu and clock (`src/menu.sage`, `compat/compat.c` 807-836) | timeout, selection | show_menu, clock | keys against the timeout, counters that wrap | the user's choice wins, an unattended machine boots, on time |
| Coordinator (`src/bootloader.sage`) | kernel, entry, handoff | stage1_entry, run_ram_diagnostics, boot_kernel | placement of everything in memory, calls that fail | kernel and handoff reach the jump intact |
| Handoff (`src/handoff.sage`) | 96 bytes on the heap | create_handoff, set_* | allocation failure, pointers inside the heap | the kernel finds the structure as documented |
| Verification (`src/verify.sage`) | none | verify_kernel | the checksum is compared with nothing | see coordinator |
| Configuration (`src/config.sage`) | none | parse_config, get_int, get_string | none: the text is a constant | - |
| Atomics (`compat/include/stdatomic.h` 216-352) | the interrupt mask | exchange, fetch-and-op, compare-exchange | nesting, unconditional unmasking | a read-modify-write is one step to a handler |
| Raw pointers (`patch_bootloader.py` 86-132) | 16 slots, next slot | sage_as_pointer | the heap range test: a number inside is taken for a structure | an access goes to the address it names |
| Soft-float (`compat/compat.c` 842-1384) | none | conversions, comparisons, arithmetic | borders of exponents and widths | integers and addresses are exact |
| Memory and strings (`compat/compat.c` 115-244) | memory | mem*, str* | overlap, terminators, searches that restart | memory and answer as C promises |
| Console (`compat/compat.c` 307-590, 653-672) | buffers, FIFOs | UART, vsnprintf and its callers, fgets | buffer limits, the line's pace, keys that erase | text arrives whole and in order, a line is what was typed |
| Stage 0 (`arch/*/boot.S`) | processor mode, stack, .bss | reset to main | order of the steps, other harts | main starts once, on a clear .bss |

Interaction: the coordinator calls the menu, the FAT reader, verification, the ELF
loader and the handoff in that order. All of them print, and every number or sum
of strings printed allocates on the heap that `load_fat_file`, `create_handoff`
and the command line use. Only the results cross the calls (an option, a pointer
and a size, an entry point); everything else is shared through memory.

## 2. Modules

| Module | Models | State | Actions |
|---|---|---|---|
| `Heap` | the allocator and its callers | `heap_ptr`, memory, the blocks held with the size asked for; and, as history, whether a request was granted that there was no room for | one per outcome of each call (`Malloc`, `OutOfMemory`, `Calloc`, `ReallocInPlace`, `ReallocMove`, `ReallocFail`, `Free`), and a caller's write (`Fill`) |
| `Allocator` | what an allocator promises | the bytes of every live block | take, grow, give up, write |
| `ElfLoader` | `load_elf` and both loaders | the loops' counters, memory byte by byte | one per branch of each loop |
| `SegmentLoad` | what loading promises | memory, how many headers are done | a whole segment at once |
| `FatReader` | the three procedures of the reader, called in order | position in the directory and the chain, the buffer as the source of each byte | one per entry scanned and per cluster copied |
| `BootMenu` | `show_menu`, `clock`, the counter, the user and the receiver | counter, the line and the receiver with their characters, the menu's variables | one per way through the loop, `Tick`, `Type`, `Arrive`, `Overrun` |
| `Stage1` | `stage1_entry` and all it calls, by their results | the region of every object in memory, which of them were written over (`dirty`), and which an access astray may have spoilt (`hit`) | one per step and outcome, and `MakeString` at any step |
| `Strings` | the memory and string functions | a call, its loop, memory, the answer | one per turn and one per end of each loop |
| `Console` | formatted output, `compat_uart_print`, `fgets`, the UARTs, the other end of the line | a call and its place, its buffers, both FIFOs, the line | one per conversion of a format, per character put, per key taken; `Transmit`, `Receive`, `Overrun` |
| `Pointers` | `sage_as_pointer` as patched, under `mem_alloc`, `mem_read`, `mem_write` | memory, the pool, what was given and stored | `MemAlloc`, `MemWrite`, `MemRead` |
| `Handoff` | `create_handoff` and the `set_` procedures, by `Pointers` | the same, and `stage1_entry`'s step | one per procedure, a word at a time |
| `SoftFloat` | the double arithmetic of `compat.c` on 32-bit RISC-V | a call, its arguments, its result | `Convert`, `Compare`, `Calculate`, over functions named as the code's |
| `Atomics` | `stdatomic.h` on ARMv6-M, its callers, interrupts | PRIMASK, the levels active, the object, each level's place in its operation | one per step of a macro, `Interrupt`, `LeaveHandler` |
| `AtomicObject` | what `<stdatomic.h>` promises | the object, the calls under way | call, apply at once, return |
| `*_proofs` | | | theorems and lemmas |
| `MC*` | constants for TLC | | |
| `MCLibrary` | also which of four independent parts is at work | | |

Operators named `Fault...` are the forms a definition would have with a plausible
mistake in the code. The specifications do not use them: putting one in place of
the definition that follows it shows that a property notices the mistake.

**Abstractions.** Memory in `Heap` and `ElfLoader` is byte-addressed; a
BlockHeader is one cell. `ElfLoader`'s images are the fields the loaders read: the
two loaders differ in offsets and widths only, and reading an 8-byte field with
`mem_read(.., "double")` is taken to give its value, which is the Sage runtime's
affair. Both `ElfLoader` and `FatReader` take the image to lie outside the heap; what
becomes of one inside it is in `Pointers`, `Stage1` and section 4. In `FatReader` the
table is bytes, laid out by `TableByte` from the links a
formatter would write, because the entry widths are where a reader goes wrong; file
data is its own offset, names are model values. `BootMenu` keeps the width, the
direction and the start of each counter and drops what is drawn. A key is what a terminal
sends for it: one character, or three for an arrow. They go down the line to a receiver
of `FifoSize` places (one on x64, where `arch/x64/boot.S` never enables the FIFO) and may
overrun it at any moment, as they do while the loop is in its delay of 100000 turns
(`src/menu.sage:117`). `Stage1` keeps
regions: the other modules show what happens inside the calls. An access astray,
through a number in the heap that `mem_alloc` did not give, may spoil any object
there: from then on all of them are in `hit`. The one exception is the number of the
heap's first word, which holds a block's size and so points below RAM. `set_kernel`,
`set_cmdline` and `set_mmap` are such accesses, each a step of its own in the code's
order; `Handoff` has them word by word. `Strings` makes one call in one memory; a byte is what it
stands for, and what `strncmp` does to `n` is done to the count of turns. `Console` has
the three forms of the UART: one that reports an empty transmit register (the 16550s
and MIPS), one that reports a full FIFO (the PL011s), and none; every other form
differs in addresses only. A format is its parts, and its characters are laid out by
`Format`. In `Pointers` a word is as wide as a pointer, structures are three words,
and a program may use what it was given and addresses outside the heap; an access uses
the slot of the pool it gets at once, so that of the pool only the type invariant speaks
(the next slot is one of its places). `Handoff`
lets the code use any number, and an access beyond a structure's size happen or not,
for the runtime is not known. `SoftFloat` has the
code's functions over a format whose widths are constants; the limits of the code
(52, 1023, 31, 63) are those widths, and a shift by 64 or more, which C leaves
undefined, is any shift. `Atomics` reads and writes the object word by word, in any
order, a word being one bit; `__old` and the mask are the code's, and the operand is
evaluated where the macro names it.

The other modules take Sage's arithmetic as exact. Numbers are doubles, which is
right for integers below 2^53 everywhere but on the 32-bit RISC-V build, where
products are wrong (section 4).

## 3. Runs

| Run | Question | Result |
|---|---|---|
| `heap64` | On a build whose sums do not wrap, do blocks stay inside, apart, with true headers, and does the heap implement `Allocator`? | holds |
| `elf_safe` | Are only targets written, is every segment loaded as `SegmentLoad` says, does the loader return? | holds |
| `fat_read` | Is the type deduced right, the first live entry found, the file read whole, within its buffer, and to an end? | holds |
| `fat32_root` | Is a file in a FAT32 root directory found? | no |
| `menu` | Do keys win against the timeout, is the timeout on time (neither early nor, up to a turn of the loop, late) though the counter wraps, is the choice what the w and s that were read add up to, is every character read that the receiver kept? | holds |
| `menu_rp2040` | Does the RP2040 boot unattended? | no |
| `stage1` | Is anything placed over a kernel clear of heap and loader, over handoff and command line, over the file or the loader, up to the jump? Are file and loader out of reach of astray accesses until the handoff's fields are written? | nothing is; they are, under the conditions of section 4 |
| `stage1_profile` | Is the selected profile's kernel used when the volume has it? | no |
| `library` | Are sums exact, quotients cut off? Do conversions and comparisons answer what is said of each, the wrong answers of section 4 included? Do memory and string functions do and answer what C promises? Does formatted text arrive, is a line what was typed, does every call return? Does a write through a pointer arrive? | holds |
| `softfloat_mul` | Are products of integers exact? | no |
| `pointers_handoff` | Is the structure whose address the kernel gets the one documented? | no |
| `atomics` | Is each operation atomic for main program and handlers, and are interrupts enabled after it? | holds |

**Bounds.** `heap64` has room for three blocks of one or two words and the
rounding to eight; every outcome of every call occurs, and a block can move while
two others live. What sums that wrap do is left to the theorems. `elf_safe`
uses sizes on both sides of the four-byte step, two segments, and targets below,
above and sliding down over the image. `fat_read` keeps real cluster counts and
numbers (4084, 4085, 65524, 65525) with sectors of four bytes; two clusters of
consecutive entries and a third one far away exercise every bit and both halves of
a packed entry; all link patterns between them occur, cycles too. `menu` has a
counter of 16 values that starts anywhere, a timeout of four ticks, a receiver of one
character and two keys, of which an arrow key alone may overrun it; it is
followed for seven ticks, past the timeout and a turn of the loop: the counter wraps
before, during and after the countdown; the invariant that stands for any
number of keys (`ChoiceIsWhatWasTyped`) needs at least the steps round both ends
of the list, which two keys give. `stage1` takes the maps of the six targets as
they are and sizes that fit, do not fit, and leave the heap with a few bytes.
`library` runs four parts that share nothing, one in each behaviour. Its doubles have
ten bits, a mantissa of five: all exponents with five mantissas in pairs and in
conversions. There are integers narrower and
wider than a mantissa, as int and int64_t are, sums that carry, cancel and reach
subnormals, and mantissas of two halves for the product. The largest exponents
overflow. Its memory for strings is eight bytes: every move of up to four bytes, each
overlap included, and every pair of strings of three letters on both sides of a signed
char. Its formats have one and two parts, of every kind, for buffers that hold nothing,
a part of it and all; its ints have six bits, all of them printed; the lines are all of
up to three keys and two longer ones, with buffers of 0 to 4; FIFOs of two fill up and
overrun. Its pool has two slots, so that it comes round, and a heap that two or three
allocations fill. `pointers_handoff` has the structure of 24 words and a command line
of three, and a heap with room for both. `atomics` has a main program and one handler, an object of two words and
one operation of each kind, with values such that sums wrap and a compare-exchange
succeeds and fails; a second handler would add only another level above the same
two, and the theorem covers any number.

**Fairness.** `ElfLoader` and `FatReader` assume weak fairness of their step: one
thread runs them and nothing can suspend it. `BootMenu` assumes it of the loop, for
the same reason, and of the counter, which is hardware; the loop reads the clock
again within `LoopTicks` because its delay is a fixed count. The user is under no
obligation to type. `Console` assumes it of the program, likewise, and of the
transmitter, which sends what it is given; not of the one who types, nor of the
receiver: `CallsReturn` begins when the end of a line is in the receive FIFO. `Atomics` assumes it of the operation under way: the processor
does not stop in it. Neither calls nor interrupts are promised.

## 4. What was found

By the runs that expect a violation, each a finding in `PROJECT.json`:

- `fat32_root`: a FAT32 volume has no fixed root directory, so `root_entry_count` is 0
  and `find_fat_file` finds nothing; the root cluster read at `src/fs_fat.sage:51` is
  unused.
- `menu_rp2040`: on the RP2040 a second is 125000000 ticks of a counter of 24 bits: the
  elapsed time never reaches a second and nothing boots unattended.
- `stage1_profile`: the recovery profile's kernel, `sageos_dbg.elf`, has a name of ten
  characters and matches no 8.3 entry; the loader goes on with the mock kernel.
- `softfloat_mul`: `__muldf3` adds 52 or 53 to an exponent that needs 0 or 1, so on the
  32-bit RISC-V build 1.0 * 1.0 is 2^52. It also adds the high halves of the mixed
  products twice.
- `pointers_handoff`: `mem_alloc` gives the address of a SagePointer on the heap, and
  `patch_bootloader.py` takes every number in the heap for such an address. `info + 60`
  is one, so `set_kernel`, `set_cmdline` and `set_mmap` write through whatever word lies
  there, and the kernel is given the SagePointer, not the structure. The magic is where
  that SagePointer points, and the fields are not.

By modelling and proving. These are the code's behaviour in the models, and the
properties say what it does and not what it should do:

- The menu says "(Use arrow keys/WASD to select)" (`src/menu.sage:45`) and knows w and s
  only. An arrow key sends three characters, all of which are read, end the countdown and
  move nothing; so do a and d. `ChoiceIsWhatWasTyped` counts w and s.
- The loop of the menu has no branch for the ESP32's UART, though `arch/esp32/config.sage`
  names the bit it "tests": no key is ever read there, and as that target has no `clock()`
  either, the menu never ends (theorem `DeafMenuNeverEnds`).
- On a 32-bit build sums in `malloc` wrap: every request that would end beyond 2^w is
  granted (theorem `OversizedRequestGranted`), the header holds whatever the rounding
  left, and `realloc` answers "Already large enough" for a block that reaches beyond
  `HEAP_MAX`. Such a request can come from a directory entry on the ESP32, the one 32-bit
  target that reads a FAT volume.
- A kernel file that fills the heap leaves no room for the handoff structure.
  `create_handoff` returns 0, nobody looks, and the kernel is started without one: in
  `Stage1` a boot may end with no handoff among the live objects.
- `__fixunsdfsi(1.0)` and `__fixunsdfdi(1.0)` are 0, because the test against 1.0 is <=
  and not < (theorem `UnsignedOneIsZero`).
- Of two negative numbers the larger is taken for the smaller; `__ltdf2` and `__ledf2`
  answer wrongly when the signs differ (0 > -1 does hold, but so does 1 < -1, and
  -1 < 0 does not), so `selected < 0` of the menu fails on that build (theorem
  `NegativeIsNotLess`); 0 and -0 are unequal. `ComparisonsAgree` says which answers are
  the reverse of the right ones.

Conditions that a property states and the code does not ensure:

- Numbers in the heap (`Allowed` in `WritesArrive`; `MarkAstray`, `VolumeAstray`,
  `Misread` and the fields of the handoff in `Stage1`). On x64 the heap is at 32 to 64 MB and the FAT image at 33 MB:
  each read of the volume goes astray (and were it read, a file of more than a megabyte
  would be copied over it). On rv64 and arm64 the second mark of the RAM check and the
  mock kernel are the heap's first word, and on MIPS, the RP2040 and the RP2350 the
  second mark is somewhere in it. On all FAT targets a file is copied right into its
  buffer, but `load_elf` reads its program headers at `elf_buf_ptr + phoff`, which is in
  the heap. `FileIntact` is stated where the volume is out of the heap. `LoaderIntact`
  promises that no such access reaches the loader only until the fields of the handoff
  structure are written, and without marks or headers in the heap. `SegmentsIntact` and
  `HandoffNotOverlaid` promise nothing of the kind: they say what is not placed over the
  segments and the handoff, and leave open what a field written astray does to them.
- `KernelClear` (`SegmentsIntact`, `LoaderIntact`): nothing compares a segment's
  address with the heap or the loader. On rv64 the load address of
  `arch/rv64/config.sage` is where the linker puts the loader.
- `LoaderIntact` leaves out the RP2040 and RP2350, whose heap starts inside the
  linker's RAM region.
- `AllSafe` (`ImplementsSegmentLoad`): a segment that moves up over its own source
  is read after it was overwritten.
- `ChainHolds` (`WholeFileLoaded`): `load_fat_file` takes clusters from 0xFFF0 on for
  the end of a chain. FAT16 has data up to 0xFFF5, and FAT32 far beyond; such a file
  comes back with its tail unwritten, and without an error. So does one whose chain
  is shorter than its size.
- `KernelClear` says nothing of a kernel that was mapped at the
  16 MB mark in advance (`store.payload` in `Stage1`): the RAM check leaves its
  pattern there, over the ELF magic.
- `overcommitted` (`BlocksSafe`): what is said of blocks ends when `malloc` has granted a
  request the heap has no room for, which takes a sum that wraps.
- `IntegersSurvive` says what becomes of doubles too large for their type: below twice
  the type's range they wrap around (2^31 becomes -2^31, for the code tests
  exp > 31 and exp > 63), beyond it they are cut to the range.
- `KeysAreRead` and `ChoiceIsWhatWasTyped` speak of the characters the receiver kept. On
  x64 it holds one, and what is typed during the loop's delay overruns it.
- `ArithmeticHolds` promises exact sums for integers of 53 bits only. At 2^53 itself, 2^53 - 1 loses its
  last bit, as no guard bit is kept. Subnormal operands are not promised anything.
- `RequestsAssumption` (`ImplementsAtomicObject`): the operand of `atomic_store`,
  `atomic_exchange` and `atomic_fetch_*` is not itself an atomic operation. The macros
  evaluate it inside the critical section, which the inner `cpsie i` ends.
- `Atomics` has no caller that masks interrupts itself: `cpsie i` would enable them for
  it, though the comment at `compat/include/stdatomic.h:223` says nothing here does.
- `Proper` (`MemoryAsPromised`, `AnswerAsPromised`): strings end, copies have room, and
  those of `memcpy`, `strcpy`, `strcat` do not move up over their source.
- `ConsoleAssumption` (`TextArrives`): a buffer of at least one byte, since `size - 1`
  of 0 is the largest size_t; a format that does not end in `%`, behind which
  `vsnprintf` would read on; and strings that end. A conversion it does not know takes no
  argument, so the ones behind it get the wrong one. `snprintf` returns the length
  written and not, as C has it, the one there would have been. `printf` cuts its text
  off at 1023 characters.
- `ScreenShowsLine`: DEL erases in the buffer and is echoed as itself, so what the
  terminal shows depends on it; a backspace on an empty line is echoed and moves the
  cursor to the left of the line. A line that is full returns without its end, which
  the next call then reads.
- Where there is no UART branch (the ESP32), `compat_uart_getc` returns NUL at once:
  `fgets` fills its buffer with them. Characters typed into a full receive FIFO are
  lost, `LineIsWhatWasTyped` speaks of those taken.
- `DueBeforeWrap` (`UnattendedBootBeforeWrap`): when a signed count turns negative
  during the countdown, the timeout waits for the counter to come round.

## 5. Proofs

All theorems hold for every value of the constants that meets the modules' named
assumptions (ASSUME); hypotheses beyond those are named below. Every safety invariant
and every refinement that a passing run checks is a theorem. `TypesOK` of `MCLibrary` puts
parts together, and each of them is a theorem:
`ResultsTyped`, `StringsTypeCorrect`, `ConsoleTypeCorrect` and `PointersTypeCorrect`. Of the liveness properties the half that
is safety is proved, that a step is always progress. An invariant is proved by an inductive one: it
holds at the start, every action keeps it, one step of the proof for each, and it
implies the property. `tlapm` takes about ten minutes for `Compat_proofs`, less than one for
each of the others.

- `Heap_proofs`: `HeapSafe` and `HeapTypeCorrect`, which state `BlocksSafe` and `TypeOK`,
  need nothing of the requests: where a sum wraps and is granted all the same,
  `overcommitted` says so, and where none wraps it stays false. `OversizedRequestGranted`
  says which requests make it true. The inductive invariant says that every
  block lies between `HEAP_START` and the bump pointer, that no two share a byte,
  headers included, and that each header is at least the size asked for. All three
  are needed together: a write keeps another header only because blocks are apart,
  and in-place growth keeps them apart only because headers are true.
  `HeapImplementsAllocator` maps a block to its bytes; it assumes `NoWrap`, under which
  `overcommitted` stays false, and its steps rest on `HeapSafe`.
- `ElfLoader_proofs`: `WritesOnlyTargets` and `LoaderTypeCorrect` by an invariant on the
  counters (a chunk ends within the segment, because a word is copied only if four bytes
  are left). `LoaderImplementsSegmentLoad`, for images with `AllSafe`, adds that the bytes
  copied so far are those of memory when the segment was begun: a forward copy has
  not yet overwritten the source bytes it has still to read. `LoaderNearsItsEnd`: every
  step lowers, in the order of tuples, the headers left, then the loops of the segment
  left, then the bytes left, whatever the image says of its sizes.
- `FatReader_proofs`: `CopyStaysWithinBuffer` and `ReaderTypeCorrect` hold for any volume,
  cyclic and damaged tables included. `ScanFindsFirstLiveEntry` by the invariant that no
  entry before the current one matches and none of them is the end mark.
  `FormatRecognised` and `FileLoadedWhole` assume `Formatted`: the number of data sectors
  is that of a number of clusters which the volume's format allows. `FileLoadedWhole`
  follows the chain: after n turns the cluster at hand is the n-th of the
  file's chain, and the buffer holds the clusters before it, each at its place.
  It rests on the tables' entries: a link read out of the bytes of a FAT12, FAT16 or FAT32
  table is the link that was put there, whatever its neighbours are, if it fits in its
  entry (`EntryHolds` in `ImageAssumption`). That the chain is a recursive function is no
  obstacle: the library has induction over sets of numbers. `ReaderNearsItsEnd`: what
  falls in every step is the procedures left, then the entries, or the bytes of the file,
  left; it never asks where a chain leads, so that a circle of clusters is no exception. Its
  hypothesis is a cluster of at least one sector.
- `BootMenu_proofs`: `MenuTypeCorrect`; `UserHoldsMenu`; `ChoiceIsAnOption`;
  `ChoiceAddsUp`, since one key moves the choice by one modulo the number of options, and
  a sum is kept modulo it; `TimeoutIsOnTime`, in two parts. `TimeoutIsNeverEarly`,
  for targets whose counter is as wide as `clock_t`, relates the counter to real
  time modulo the width, so that a wrap can only make the elapsed time smaller.
  `TimeoutIsNeverLate`: where there is such a counter and its count does not turn negative
  during the countdown, the loop has looked at the clock within the last `LoopTicks`, and at
  that look the time was not yet up. The first assumes `EnoughTime`, that the bound of the model's
  clock is not below the timeout. `NarrowCounterNeverFires` is what `menu_rp2040` finds, without
  its bounds: where the counter takes all its values within a second (2^24 < 125000000), or
  there is none, show_menu never times out, whatever the timeout. `DeafMenuNeverEnds`: on
  the ESP32, with neither a counter nor a branch that polls, it never returns.
- `Stage1_proofs`: `BootTypeCorrect`; `HandoffKeepsItsPlace` and `KernelStartsWhole`, by the
  invariant that every object made on the heap ends below the bump pointer. They hold on
  every memory map and for every kernel, and are about what is placed where: of an access
  astray, the fields of the handoff included, they promise nothing.
  `FileArrivesWhole` assumes that neither mark of the RAM check is in the heap
  (`~MarkAstray`): such a mark may be taken for a structure and change any byte, the
  volume's too; no target that reads a volume has one. `LoaderSurvives` assumes that the
  linker keeps the loader off the two marked words (`MarksClear`), as every linker
  script does; like its property it ends, for accesses astray, where the fields are
  written. The runs' machines include those that meet both hypotheses, and
  `MachineAssumption` asks for a heap of more than 64 bytes.
- `Memory_proofs`, on `Strings`: `StringsTypeCorrect`, `MemorySafe` and `AnswersRight` by
  one invariant with a clause for
  each loop. Of the copying loops it says which bytes are done and that the ones still
  to be read are as they were, which is where the direction of `memmove` enters; of the
  comparisons and searches, that all bytes before the current one are alike, and that no
  place before the current one is a hit. Every string ends, so no turn leaves memory.
  `EveryCallEnds`: each turn lowers the loops left, then the places left to search, then
  the turns left; `strstr`, which starts its comparison again, does so at a later place.
- `Memory_proofs`, on `Pointers`: `PointersTypeCorrect` and `EveryWriteArrives` by the
  invariant that structures and blocks
  lie below `brk`, that no block shares a word with a structure or another block, and
  that each structure still holds its block's address: a write through one pointer can then reach
  neither another's block nor its structure.
- `Memory_proofs`, on `Handoff`: `KernelFindsNoMagic`, that what the run
  `pointers_handoff` finds on one heap is so on all: the word at the address the kernel is
  given is never the magic. It assumes that no number the code writes is an address in
  the heap (`NumbersApart`, which the run's constants meet). The invariant: `info`
  itself stands in no word of memory, so no access, through whatever word, reaches the word
  at `info`, and the block's address stays there.
- `Compat_proofs`, on `SoftFloat`: `ComparisonsAgreeAlways`, `IntegersSurviveAlways` and
  `ArithmeticHoldsAlways`, for every width of mantissa, exponent and integer that
  `FormatAssumption` allows. A call is one step, so no induction over behaviours is needed;
  what is needed are facts on powers of two (the prover has none; they come from the number of
  subsets of a finite set), on quotients, on the normalising loops (a set-wise
  induction over their turns) and on the place of the leading bit. Three things the
  assumption asks for turned out to be needed: integers of int fit in a mantissa and those
  of int64_t are wider (32 <= 52 < 64); a product of mantissas fits in two limbs, with two
  bits to spare (54 <= 64); and the exponents reach beyond the mantissa (52 < 1023), or the
  sum of two integers could overflow. `IntegersSurvive` and `ComparisonsAgree` leave out no
  integer, no double and no pair: where the code is wrong they say what it answers
  (`InSigned`, `Reversed`); `UnsignedOneIsZero` and `NegativeIsNotLess` show that it is wrong. Of
  integers of more bits than a mantissa, `IntegersReturn` says how little is lost. `ResultsTyped`: every function returns a double with fields of
  their widths or an integer of its type, for any arguments, infinities and shifts beyond
  a word included, by the bounds of its exponent and its mantissa before they are packed. The
  attempt found one more thing that is needed of the widths, `IntegersAssumption`: the
  exponent of the widest integer fits, or the conversion from it would run into the sign.
  `ProductsTooLarge` and `OneTimesOneIsWrong` say how wrong the products are that
  `softfloat_mul` refutes: in every format the product of two powers of two is 2^MantBits
  times too large wherever it is still finite, and that of 1 and 1 is 2^MantBits. It follows
  the hidden bits through the four products of halves: nothing is cut off, and the exponent
  is raised all the same.
- `Compat_proofs`, on `Console`: `ConsoleTypeCorrect` by `ConsoleShape`, which adds to the
  types what the next argument of a format is, namely that of the part at hand: it counts the parts before it
  that take one. `LineIsWhatWasTypedAlways`: the places in what was taken
  that the line's characters come from (`Places`) go up, and between two of them, and behind
  the last, half of the characters erase: that is why one more erasing
  character rubs out the last of them and no other. `TextArrivesAlways` (`TextInv`): while a
  format is worked off, the buffer holds the meaning of the parts before the one at hand,
  cut off where it ends; and what has been sent, is in the FIFO, or waits for it, in this
  order, is the text printed so far. That `int_to_str`, which divides, writes the numeral,
  which is defined by powers, is `DigitsAreNumeral`. `ScreenShowsLineAlways`
  (`ScreenInv`): what a terminal makes of a text with one more character is one step from
  what it made of the text; a key typed or erased does to the screen what it does to the line.
  They hold for every width of int, every size of FIFO, every format, buffer and input.
  `ConsoleNearsItsEnd`: every step of the program or of the line lowers the characters
  still to be taken, then the stages left of the call, then the turns left of the loop at
  hand, then the characters in the FIFO: waiting for room in a full one is not a step.
- `Atomics_proofs`: `TypeCorrect`, and `OperationsAreAtomic` by an invariant that whoever
  is in a critical section is masked and the highest level, so that no other level moves;
  what it has read is the object, and what it has written is the result. The step
  that takes effect is the one after which only words remain to be written.
  `SectionsAreShort`: interrupts are off only while an operation of the highest level is in
  its section, every step then taken brings the exit nearer, and a section has no more
  steps than the words its operation reads and writes.

Only model-checked: that the steps the rank theorems speak of are taken, which is
fairness and ENABLED and out of the prover's reach, and with it the liveness properties
as they stand (`Returns`, `ReaderReturns`, `UnattendedBootBeforeWrap`, `KeysAreRead`,
`InterruptsComeThrough`, `CallsReturn`); that the FAT32 root directory is not read and
that the profile's kernel is not used, which runs that expect a violation show; and
products of `SoftFloat` other than those of powers of two.

The models of `FatReader`, `Console` and `SoftFloat` have their loops as recursive
functions and not as RECURSIVE operators, with which the prover cannot work.

## 6. Not modelled

- The Sage runtime (strings, dictionaries, `clock`'s wrapper): it is generated by a
  compiler that is not in the repository. The modules use it as the sources do;
  `Pointers` has `mem_alloc`, `mem_read` and `mem_write` as the patch needs them.
- `src/config.sage`: it is run on one constant text.
- Drawing, printing, the checksum's value: no behaviour depends on them.
- Build scripts and tests.
- The atomics of the other targets, one instruction each, and `atomic_flag`, a
  builtin of the compiler.
- Stage 0: straight-line assembly that runs once; the other processors of a target are
  parked in a loop and share nothing with it. What it sets up (the stack, a clear .bss)
  is taken for granted by every module.
- `set_framebuffer` and `set_rsdp`, which nothing calls.
- `atof`, `rand`, `sleep` and the ctype functions, which nothing in the repository calls,
  and the stubs of `compat.c` that return a constant: threads, files, mathematics.

## 7. Plan

Done: `Heap` with `Allocator`, `ElfLoader` with `SegmentLoad`, `FatReader`,
`BootMenu`, then `Stage1`, which composes them by their results; `SoftFloat`;
`Atomics` with `AtomicObject`; `Strings`, `Console`, `Pointers`, and `Handoff`, which
composes the handoff procedures with `Pointers`; and a theorem for every safety property
and refinement of theirs that holds.

Left: the products of `SoftFloat` once their exponent is corrected; the runtime, if its
source becomes part of the repository; and shorter proofs.

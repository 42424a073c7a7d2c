-------------------------------- MODULE Heap --------------------------------
(***************************************************************************)
(* The heap of SageBoot (compat/compat.c, "Block Header Bump Allocator"):   *)
(* malloc, free, realloc and calloc, and the callers that write into the    *)
(* blocks they hold.  An address and a size are numbers below WordMod, the  *)
(* 2^w of size_t and uintptr_t, and additions wrap there as they do in C.   *)
(*                                                                         *)
(* Memory is a function from addresses to byte values.  The size_t of a     *)
(* BlockHeader, HeaderSize bytes wide, is kept whole in the cell of its     *)
(* first byte: no property depends on how its bytes are split.              *)
(***************************************************************************)
EXTENDS Integers, FiniteSets

CONSTANTS
  WordMod,        \* 2^w, w the width of size_t and uintptr_t
  HeaderSize,     \* sizeof(BlockHeader): 8 on 64-bit targets, 4 on 32-bit
  HeapStart,      \* HEAP_START of the target
  HeapMax,        \* HEAP_MAX of the target
  MallocSizes,    \* the sizes callers pass to malloc
  ReallocSizes,   \* the sizes callers pass to realloc
  CallocArgs,     \* the <<nmemb, size>> callers pass to calloc
  Data,           \* the byte values callers store
  MaxBlocks       \* bound: the blocks callers hold at once

ASSUME LayoutAssumption ==
  /\ WordMod \in Nat /\ HeaderSize \in Nat /\ HeapStart \in Nat /\ HeapMax \in Nat
  /\ 0 < HeaderSize
  /\ 0 < HeapStart /\ HeapStart < HeapMax
  /\ HeapMax + HeaderSize + 7 < WordMod

ASSUME RequestAssumption ==
  /\ MallocSizes \subseteq 0 .. WordMod - 1
  /\ ReallocSizes \subseteq 0 .. WordMod - 1
  /\ CallocArgs \subseteq (0 .. WordMod - 1) \X (0 .. WordMod - 1)
  /\ Data \subseteq Nat

VARIABLES
  heap_ptr,   \* the bump pointer; 0 is NULL, before the first malloc
  mem,        \* the byte at every address
  blocks,     \* the blocks callers hold: where, and how many bytes they asked for
  overcommitted \* history: a request was granted the heap has no room for

vars == <<heap_ptr, mem, blocks, overcommitted>>

Addr == 0 .. WordMod - 1
Block == [ptr : Addr, req : Addr]

\* The n bytes from address p on.
Span(p, n) == p .. p + n - 1

\* Addition in size_t and uintptr_t.
AddW(a, b) == IF a + b < WordMod THEN a + b ELSE a + b - WordMod

-----------------------------------------------------------------------------
(* malloc *)

\* The bump pointer malloc works from: the first call points it at HEAP_START.
Hp == IF heap_ptr = 0 THEN HeapStart ELSE heap_ptr

\* size = (size + 7) & ~7
Padded(size) == LET s == AddW(size, 7) IN s - (s % 8)

TotalSize(size) == AddW(Padded(size), HeaderSize)

\* (uintptr_t)heap_ptr + total_size >= HEAP_MAX
Exhausted(size) == AddW(Hp, TotalSize(size)) >= HeapMax

\* The pointer malloc returns, and the memory once it has written the header.
NewPtr == AddW(Hp, HeaderSize)
WithHeader(size) == [mem EXCEPT ![Hp] = Padded(size)]

\* Fault: the heap grows down, as a stack does.
FaultBumpDown(size) == heap_ptr' = Hp - TotalSize(size)

Bump(size) == heap_ptr' = AddW(Hp, TotalSize(size))

\* What the sums of size_t may hide: in plain integers, the header and the bytes
\* asked for do not fit below HEAP_MAX.
NoRoom(bytes) == Hp + HeaderSize + bytes >= HeapMax

\* The history of granted requests; the code keeps none.
Granted(bytes) == overcommitted' = (overcommitted \/ NoRoom(bytes))

Malloc(size) ==
  /\ Cardinality(blocks) < MaxBlocks
  /\ ~Exhausted(size)
  /\ mem' = WithHeader(size)
  /\ Bump(size)
  /\ Granted(size)
  /\ blocks' = blocks \union {[ptr |-> NewPtr, req |-> size]}

\* "compat: OUT OF MEMORY!": NULL is returned, but the lazy initialisation of
\* heap_ptr has happened.
OutOfMemory(size) ==
  /\ Exhausted(size)
  /\ heap_ptr' = Hp
  /\ UNCHANGED <<mem, blocks, overcommitted>>

-----------------------------------------------------------------------------
(* calloc, realloc, free *)

Product(n, size) == (n * size) % WordMod

Zeroed(m, p, n) == [a \in Addr |-> IF a \in Span(p, n) THEN 0 ELSE m[a]]

\* The caller asked for n elements of the given size; the block is as large as
\* the product in size_t.
Calloc(n, size) ==
  LET total == Product(n, size) IN
  /\ Cardinality(blocks) < MaxBlocks
  /\ ~Exhausted(total)
  /\ mem' = Zeroed(WithHeader(total), NewPtr, total)
  /\ Bump(total)
  /\ Granted(n * size)
  /\ blocks' = blocks \union {[ptr |-> NewPtr, req |-> total]}

\* The size realloc finds in the header in front of the block.
OldSize(b) == mem[b.ptr - HeaderSize]

\* Fault: the header counts as room for the block.
FaultReallocInPlace(b, size) ==
  /\ size <= OldSize(b) + HeaderSize
  /\ blocks' = (blocks \ {b}) \union {[ptr |-> b.ptr, req |-> size]}
  /\ UNCHANGED <<heap_ptr, mem, overcommitted>>

\* size <= old_size: the same pointer is returned, the header is not changed.
ReallocInPlace(b, size) ==
  /\ size <= OldSize(b)
  /\ blocks' = (blocks \ {b}) \union {[ptr |-> b.ptr, req |-> size]}
  /\ UNCHANGED <<heap_ptr, mem, overcommitted>>

\* Fault: realloc moves the block without its bytes.
FaultNotCopied(m, dest, src, n) == m

\* The first n bytes at src copied to dest.  The loop copies byte by byte,
\* upwards; copying all at once is the same for two blocks that do not overlap.
Copied(m, dest, src, n) ==
  [a \in Addr |-> IF a \in Span(dest, n) THEN m[AddW(src, a - dest)] ELSE m[a]]

ReallocMove(b, size) ==
  /\ size > OldSize(b)
  /\ ~Exhausted(size)
  /\ mem' = Copied(WithHeader(size), NewPtr, b.ptr, OldSize(b))
  /\ Bump(size)
  /\ Granted(size)
  /\ blocks' = (blocks \ {b}) \union {[ptr |-> NewPtr, req |-> size]}

\* NULL is returned and the old block stays with the caller.
ReallocFail(b, size) ==
  /\ size > OldSize(b)
  /\ OutOfMemory(size)

\* free does nothing; the caller gives the block up.
Free(b) ==
  /\ blocks' = blocks \ {b}
  /\ UNCHANGED <<heap_ptr, mem, overcommitted>>

\* A caller stores a value in every byte it asked for.
Fill(b, v) ==
  /\ mem' = [a \in Addr |-> IF a \in Span(b.ptr, b.req) THEN v ELSE mem[a]]
  /\ UNCHANGED <<heap_ptr, blocks, overcommitted>>

-----------------------------------------------------------------------------
Init ==
  /\ heap_ptr = 0
  /\ mem = [a \in Addr |-> 0]
  /\ blocks = {}
  /\ overcommitted = FALSE

\* realloc(NULL, size) is malloc(size), so Malloc covers it.
Next ==
  \/ \E s \in MallocSizes : Malloc(s) \/ OutOfMemory(s)
  \/ \E p \in CallocArgs :
        Calloc(p[1], p[2]) \/ OutOfMemory(Product(p[1], p[2]))
  \/ \E b \in blocks :
        \/ \E s \in ReallocSizes :
              ReallocInPlace(b, s) \/ ReallocMove(b, s) \/ ReallocFail(b, s)
        \/ Free(b)
        \/ \E v \in Data : Fill(b, v)

Spec == Init /\ [][Next]_vars

-----------------------------------------------------------------------------
(* Properties *)

\* Type correctness: the bump pointer, the memory and the blocks callers hold.
TypeOK ==
  /\ heap_ptr \in Addr
  /\ mem \in [Addr -> Nat]
  /\ blocks \subseteq Block
  /\ overcommitted \in BOOLEAN

\* No request is so large that an addition in malloc, or the product in calloc,
\* wraps.  It holds of every 64-bit build.  The one 32-bit target that reads a FAT
\* volume, the ESP32 (the last branch of bootloader.sage:94-111), has no such
\* guarantee: load_fat_file passes a size it reads from a directory entry.
Fits(size) == HeapMax + size + 7 + HeaderSize < WordMod
NoWrap ==
  /\ \A s \in MallocSizes \union ReallocSizes : Fits(s)
  /\ \A p \in CallocArgs : p[1] * p[2] < WordMod /\ Fits(p[1] * p[2])

\* Every block lies, with its header and all the bytes the header claims, between
\* HEAP_START and the bump pointer: the next malloc writes beyond all of them.
BlocksInside ==
  \A b \in blocks :
    /\ HeapStart + HeaderSize <= b.ptr
    /\ b.ptr + OldSize(b) <= heap_ptr
    /\ heap_ptr < HeapMax

\* No two blocks held at the same time share a byte, headers and the bytes a
\* header claims included: realloc may return the same pointer for a growing
\* request only within the block itself.
BlocksDisjoint ==
  \A b, c \in blocks : b # c =>
    \/ b.ptr + OldSize(b) <= c.ptr - HeaderSize
    \/ c.ptr + OldSize(c) <= b.ptr - HeaderSize

\* The header realloc trusts: in front of every block held, the stored size is
\* at least what the caller asked for, through every sequence of allocations,
\* writes, moves and in-place shrinks.
HeaderIntact == \A b \in blocks : OldSize(b) >= b.req

\* The three together, through every sequence of calls and writes: blocks lie in the
\* heap and apart, and what realloc goes by is true.  All of it holds on a build of
\* any width until malloc grants a request the heap has no room for, and where no sum
\* of malloc wraps, it grants none.
BlocksSafe ==
  /\ NoWrap => ~overcommitted
  /\ overcommitted \/ (BlocksInside /\ BlocksDisjoint /\ HeaderIntact)

\* Every size a caller can end up asking malloc for.
Sizes == MallocSizes \union ReallocSizes
           \union {Product(p[1], p[2]) : p \in CallocArgs}

\* The heap implements an allocator: blocks are fresh, no call and no write by
\* another holder changes the bytes of a block, and realloc carries them along.
Abstract == INSTANCE Allocator
ImplementsAllocator == Abstract!Spec
=============================================================================

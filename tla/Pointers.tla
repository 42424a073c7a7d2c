------------------------------ MODULE Pointers ------------------------------
(***************************************************************************)
(* What a Sage number means as a pointer once patch_bootloader.py has        *)
(* replaced sage_as_pointer.  mem_alloc gives the number of a SagePointer    *)
(* structure on the heap; a number outside the heap is an address as it      *)
(* stands, and is put into one of 16 structures in turn.                     *)
(*                                                                         *)
(* mem_alloc, mem_read and mem_write are the runtime's, which is not in the  *)
(* repository: they are modelled as the patch and their callers use them.    *)
(* Memory is counted in words of a pointer's width.                          *)
(***************************************************************************)
EXTENDS Integers

CONSTANTS
  Top,                  \* the last address
  HeapStart, HeapMax,   \* the bounds patched in
  Slots,                \* the structures in the pool: 16
  AllocSizes,           \* the sizes the program allocates
  Raw,                  \* the addresses outside the heap it uses
  Contents              \* what it writes

Address == 0 .. Top
Heap == HeapStart .. HeapMax - 1

ASSUME PointersAssumption ==
  /\ Top \in Nat /\ HeapStart \in Nat \ {0} /\ HeapMax \in Nat
  /\ HeapStart < HeapMax /\ HeapMax <= Top
  /\ Slots \in Nat \ {0}
  /\ AllocSizes \subseteq Nat \ {0}
  /\ Raw \subseteq Address \ Heap
  /\ Contents \subseteq Nat

VARIABLES
  memory,         \* the word at every address
  brk,            \* where the next block of the heap begins
  raw_pointers,   \* the pool: the address in each structure
  next_ptr,       \* the one to be used next
  given,          \* the numbers mem_alloc gave: where each block is, and its size
  stored          \* what was written last through each number at each offset

pointersVars == <<memory, brk, raw_pointers, next_ptr, given, stored>>

-----------------------------------------------------------------------------
\* Fault: there is no upper bound.
FaultInHeap(v) == v >= HeapStart

InHeap(v) == v >= HeapStart /\ v < HeapMax

\* Where the structure found for v points: the first word of a SagePointer.
Target(v) == IF InHeap(v) THEN memory[v] ELSE v

\* The call of sage_as_pointer every access makes.  The access uses the structure it
\* gets at once, so that what lay in the pool before does not matter to it: what is
\* promised of the pool is that next_ptr stays one of its places (PointersTypeOK).
UsePointer(v) ==
  IF InHeap(v) THEN UNCHANGED <<raw_pointers, next_ptr>>
  ELSE /\ raw_pointers' = [raw_pointers EXCEPT ![next_ptr] = v]
       /\ next_ptr' = (next_ptr + 1) % Slots

\* A block of n words is a header and an even number of words.
Block(n) == 1 + 2 * ((n + 1) \div 2)
Tracking == 3           \* ptr, size, owned

\* mem_alloc: a structure and a block, made in either order.
Made(struct, block, n) ==
  /\ brk + Block(Tracking) + Block(n) < HeapMax
  /\ \/ struct = brk + 1 /\ block = brk + Block(Tracking) + 1
     \/ block = brk + 1 /\ struct = brk + Block(n) + 1
  /\ brk' = brk + Block(Tracking) + Block(n)

\* The headers of both, and the structure; the block is as it was found.
Written(struct, block, n) ==
  [memory EXCEPT ![struct - 1] = Block(Tracking) - 1, ![block - 1] = Block(n) - 1,
                 ![struct] = block, ![struct + 1] = n, ![struct + 2] = 1]

MemAlloc(n) ==
  \E struct, block \in Heap :
    /\ Made(struct, block, n)
    /\ memory' = Written(struct, block, n)
    /\ given' = [v \in DOMAIN given \union {struct} |->
                   IF v = struct THEN [block |-> block, size |-> n] ELSE given[v]]
    /\ UNCHANGED <<raw_pointers, next_ptr, stored>>

\* What a program may do: use what it was given, within its size, and addresses
\* that are not in the heap.
Allowed(v, off) ==
  \/ v \in DOMAIN given /\ off < given[v].size
  \/ v \in Raw /\ off = 0

MemWrite(v, off, x) ==
  /\ Allowed(v, off)
  /\ UsePointer(v)
  /\ memory' = [memory EXCEPT ![Target(v) + off] = x]
  /\ stored' = [a \in DOMAIN stored \union {<<v, off>>} |->
                  IF a = <<v, off>> THEN x ELSE stored[a]]
  /\ UNCHANGED <<brk, given>>

\* Reading changes nothing but the pool.
MemRead(v, off) ==
  /\ Allowed(v, off)
  /\ UsePointer(v)
  /\ UNCHANGED <<memory, brk, given, stored>>

PointersInit ==
  /\ memory = [a \in Address |-> 0]
  /\ brk = HeapStart
  /\ raw_pointers = [k \in 0 .. Slots - 1 |-> 0] /\ next_ptr = 0
  /\ given = [v \in {} |-> 0] /\ stored = [a \in {} |-> 0]

Offsets == {0} \union UNION {0 .. n - 1 : n \in AllocSizes}

PointersNext ==
  \/ \E n \in AllocSizes : MemAlloc(n)
  \/ \E v \in Raw \union DOMAIN given, off \in Offsets :
        MemRead(v, off) \/ \E x \in Contents : MemWrite(v, off, x)

PointersSpec == PointersInit /\ [][PointersNext]_pointersVars

-----------------------------------------------------------------------------
(* Properties *)

\* Type correctness of memory, of the heap, of the pool and of the history.
PointersTypeOK ==
  /\ memory \in [Address -> Nat]
  /\ brk \in Heap
  /\ raw_pointers \in [0 .. Slots - 1 -> Nat] /\ next_ptr \in 0 .. Slots - 1
  /\ given \in [DOMAIN given -> [block : Heap, size : Nat]] /\ DOMAIN given \subseteq Heap
  /\ stored \in [DOMAIN stored -> Contents]
  /\ DOMAIN stored \subseteq (Raw \union DOMAIN given) \X Nat

\* Where a number says its word is.
Named(v, off) == IF v \in DOMAIN given THEN given[v].block + off ELSE v + off

\* A program that uses only what it was given and addresses outside the heap
\* finds what it wrote: every write reaches the word its number names, what is
\* written through one pointer changes neither another's block nor the structure
\* by which a block is found, and the next read through that number goes there.
WritesArrive ==
  \A a \in DOMAIN stored :
    /\ memory[Named(a[1], a[2])] = stored[a]
    /\ Target(a[1]) + a[2] = Named(a[1], a[2])
=============================================================================

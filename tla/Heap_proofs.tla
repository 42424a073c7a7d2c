----------------------------- MODULE Heap_proofs ----------------------------
(***************************************************************************)
(* Proofs about Heap, for every heap, header size, word width and set of    *)
(* requests.  What a wrapped sum ruins is ruined from the first request     *)
(* that is granted without room for it: up to there IInv holds.             *)
(***************************************************************************)
EXTENDS Heap, TLAPS

USE DEF Addr

\* Once malloc has run, the bump pointer is inside the heap.
PtrInHeap == heap_ptr = 0 \/ (HeapStart <= heap_ptr /\ heap_ptr < HeapMax)

\* What holds whatever is granted: types, the limit, and a header in front of every
\* block.
TypeInv ==
  /\ TypeOK
  /\ heap_ptr < HeapMax
  /\ \A b \in blocks : HeaderSize <= b.ptr

\* What holds until the heap is overcommitted: a header stays intact because blocks do not overlap,
\* blocks do not overlap because the bump pointer is above all of them, and it
\* is above them because headers claim no more than malloc reserved.
IInv ==
  /\ TypeOK
  /\ PtrInHeap
  /\ BlocksInside
  /\ BlocksDisjoint
  /\ HeaderIntact

\* The inductive invariant.
HeapInv == TypeInv /\ (overcommitted \/ IInv)

\* Rounding a size up to 8 bytes loses none of it, as long as nothing wraps.
LEMMA PaddedCovers ==
  ASSUME NEW size \in Nat, size + 7 < WordMod
  PROVE  /\ Padded(size) \in Nat
         /\ size <= Padded(size)
         /\ Padded(size) <= size + 7
  BY DEF Padded, AddW

\* A malloc that succeeds carves its block out of the heap just above the bump
\* pointer, and leaves the bump pointer below HEAP_MAX.
LEMMA Carved ==
  ASSUME TypeOK, PtrInHeap, NEW size \in Nat, ~NoRoom(size), ~Exhausted(size)
  PROVE  /\ Hp \in Addr /\ HeapStart <= Hp /\ Hp < HeapMax /\ heap_ptr <= Hp
         /\ NewPtr = Hp + HeaderSize
         /\ NewPtr \in Addr
         /\ AddW(Hp, TotalSize(size)) = NewPtr + Padded(size)
         /\ NewPtr + Padded(size) < HeapMax
         /\ Padded(size) \in Nat
         /\ size <= Padded(size)
  <1> USE LayoutAssumption
  <1>1. /\ Hp \in Addr /\ HeapStart <= Hp /\ Hp < HeapMax /\ heap_ptr <= Hp
    BY DEF TypeOK, PtrInHeap, Hp
  <1>2. Hp + HeaderSize + size < HeapMax
    BY <1>1 DEF NoRoom
  <1>3. size + 7 < WordMod
    BY <1>1, <1>2
  <1>4. /\ Padded(size) \in Nat
        /\ size <= Padded(size)
        /\ Padded(size) <= size + 7
    BY <1>3, PaddedCovers
  <1>5. Padded(size) + HeaderSize < WordMod /\ Hp + HeaderSize + Padded(size) < WordMod
    BY <1>1, <1>2, <1>4
  <1>6. TotalSize(size) = Padded(size) + HeaderSize
    BY <1>4, <1>5 DEF TotalSize, AddW
  <1>7. AddW(Hp, TotalSize(size)) = Hp + HeaderSize + Padded(size)
    BY <1>1, <1>4, <1>5, <1>6 DEF AddW
  <1>8. Hp + HeaderSize + Padded(size) < HeapMax
    BY <1>1, <1>4, <1>7 DEF Exhausted
  <1>9. NewPtr = Hp + HeaderSize /\ NewPtr \in Addr
    BY <1>1, <1>4, <1>8 DEF NewPtr, AddW
  <1> QED BY <1>1, <1>4, <1>7, <1>8, <1>9

\* What the invariant says of one block, with the types arithmetic needs.
LEMMA BlockFacts ==
  ASSUME IInv, NEW b \in blocks
  PROVE  /\ b \in Block /\ b.ptr \in Nat /\ b.req \in Nat
         /\ HeapStart + HeaderSize <= b.ptr
         /\ b.ptr - HeaderSize \in Addr
         /\ OldSize(b) \in Nat /\ b.req <= OldSize(b)
         /\ heap_ptr \in Nat /\ b.ptr + OldSize(b) <= heap_ptr
  <1> USE LayoutAssumption
  <1>1. b \in Block /\ b.ptr \in Addr /\ b.req \in Addr /\ heap_ptr \in Nat
    BY DEF IInv, TypeOK, Block
  <1>2. /\ HeapStart + HeaderSize <= b.ptr
        /\ b.ptr + OldSize(b) <= heap_ptr
    BY DEF IInv, BlocksInside
  <1>3. b.ptr - HeaderSize \in Addr
    BY <1>1, <1>2
  <1>4. OldSize(b) \in Nat
    BY <1>3 DEF IInv, TypeOK, OldSize
  <1>5. b.req <= OldSize(b)
    BY <1>1, <1>4 DEF IInv, HeaderIntact
  <1> QED BY <1>1, <1>2, <1>3, <1>4, <1>5

\* The common core of malloc, calloc and a moving realloc: a block carved above
\* the bump pointer, memory below it unchanged, other blocks at most given up.
LEMMA NewBlockKeepsIInv ==
  ASSUME IInv, NEW size \in Nat, ~NoRoom(size), ~Exhausted(size), Bump(size),
         TypeOK', mem'[Hp] = Padded(size),
         \A a \in Addr : a < Hp => mem'[a] = mem[a],
         NEW p \in Addr, p = NewPtr,
         blocks' \subseteq blocks \union {[ptr |-> p, req |-> size]}
  PROVE  IInv'
  <1> DEFINE new == [ptr |-> p, req |-> size]
  <1> USE LayoutAssumption
  <1>1. /\ Hp \in Addr /\ HeapStart <= Hp /\ Hp < HeapMax /\ heap_ptr <= Hp
        /\ p = Hp + HeaderSize
        /\ AddW(Hp, TotalSize(size)) = p + Padded(size)
        /\ p + Padded(size) < HeapMax
        /\ Padded(size) \in Nat
        /\ size <= Padded(size)
    BY Carved DEF IInv
  <1>2. heap_ptr' = p + Padded(size)
    BY <1>1 DEF Bump
  <1>3. new \in Block /\ new.ptr = p /\ new.req = size
    BY <1>1, SMT DEF Block
  <1>4. \A b \in blocks : /\ b.ptr \in Addr /\ b.req \in Addr
                          /\ b.ptr - HeaderSize \in Addr
                          /\ b.ptr - HeaderSize < Hp
                          /\ OldSize(b) \in Nat
                          /\ OldSize(b)' = OldSize(b)
                          /\ b.ptr + OldSize(b) <= Hp
    <2> SUFFICES ASSUME NEW b \in blocks
                 PROVE  /\ b.ptr \in Addr /\ b.req \in Addr
                        /\ b.ptr - HeaderSize \in Addr
                        /\ b.ptr - HeaderSize < Hp
                        /\ OldSize(b) \in Nat
                        /\ OldSize(b)' = OldSize(b)
                        /\ b.ptr + OldSize(b) <= Hp
      OBVIOUS
    <2>1. /\ b \in Block /\ b.ptr \in Nat /\ b.req \in Nat
          /\ b.ptr - HeaderSize \in Addr
          /\ OldSize(b) \in Nat /\ heap_ptr \in Nat
          /\ b.ptr + OldSize(b) <= heap_ptr
      BY BlockFacts
    <2>2. b.ptr \in Addr /\ b.req \in Addr
      BY <2>1 DEF Block
    <2>3. heap_ptr <= Hp /\ Hp \in Addr
      BY <1>1
    <2>4. b.ptr - HeaderSize < Hp /\ b.ptr + OldSize(b) <= Hp
      BY <2>1, <2>3
    <2>5. OldSize(b)' = OldSize(b)
      BY <2>1, <2>4 DEF OldSize
    <2> QED BY <2>1, <2>2, <2>4, <2>5
  <1>5. OldSize(new)' = Padded(size)
    BY <1>1, <1>3 DEF OldSize
  <1>7. PtrInHeap'
    BY <1>1, <1>2 DEF PtrInHeap
  <1>8. BlocksInside'
    <2> SUFFICES ASSUME NEW b \in blocks'
                 PROVE  /\ HeapStart + HeaderSize <= b.ptr
                        /\ b.ptr + OldSize(b)' <= heap_ptr'
                        /\ heap_ptr' < HeapMax
      BY DEF BlocksInside
    <2>1. CASE b = new
      BY <2>1, <1>1, <1>2, <1>3, <1>5
    <2>2. CASE b \in blocks
      <3>1. HeapStart + HeaderSize <= b.ptr
        BY <2>2 DEF IInv, BlocksInside
      <3>2. OldSize(b)' \in Nat /\ b.ptr \in Nat /\ b.ptr + OldSize(b)' <= Hp
        BY <2>2, <1>4
      <3> QED BY <3>1, <3>2, <1>1, <1>2
    <2> QED BY <2>1, <2>2
  <1>9. BlocksDisjoint'
    <2> SUFFICES ASSUME NEW b \in blocks', NEW c \in blocks', b # c
                 PROVE  \/ b.ptr + OldSize(b)' <= c.ptr - HeaderSize
                        \/ c.ptr + OldSize(c)' <= b.ptr - HeaderSize
      BY DEF BlocksDisjoint
    <2>1. CASE b \in blocks /\ c \in blocks
      BY <2>1, <1>4 DEF IInv, BlocksDisjoint
    <2>2. CASE b \in blocks /\ c = new
      BY <2>2, <1>1, <1>3, <1>4
    <2>3. CASE c \in blocks /\ b = new
      BY <2>3, <1>1, <1>3, <1>4
    <2> QED BY <2>1, <2>2, <2>3
  <1>10. HeaderIntact'
    <2> SUFFICES ASSUME NEW b \in blocks' PROVE OldSize(b)' >= b.req
      BY DEF HeaderIntact
    <2>1. CASE b = new
      BY <2>1, <1>1, <1>3, <1>5
    <2>2. CASE b \in blocks
      <3>1. OldSize(b) >= b.req
        BY <2>2 DEF IInv, HeaderIntact
      <3>2. OldSize(b)' = OldSize(b)
        BY <2>2, <1>4
      <3> QED BY <3>1, <3>2
    <2> QED BY <2>1, <2>2
  <1> QED BY <1>7, <1>8, <1>9, <1>10 DEF IInv

LEMMA SmallMod == ASSUME NEW k \in Nat, NEW m \in Nat, k < m PROVE k % m = k
  OBVIOUS

LEMMA PaddedInAddr == ASSUME NEW size \in Addr PROVE Padded(size) \in Addr
  BY LayoutAssumption DEF Padded, AddW

LEMMA AddWInAddr == ASSUME NEW a \in Addr, NEW b \in Addr PROVE AddW(a, b) \in Addr
  BY LayoutAssumption DEF AddW

LEMMA ProductInAddr ==
  ASSUME NEW n \in Nat, NEW size \in Nat
  PROVE  n * size \in Nat /\ Product(n, size) \in Addr
  <1>1. n * size \in Nat
    OBVIOUS
  <1>2. \A k \in Nat : k % WordMod \in Addr
    BY LayoutAssumption
  <1> QED BY <1>1, <1>2 DEF Product

\* A request there is room for is not cut by calloc's product.
LEMMA ProductExact ==
  ASSUME TypeInv, NEW n \in Nat, NEW size \in Nat, ~NoRoom(n * size)
  PROVE  Product(n, size) = n * size
  <1> USE LayoutAssumption
  <1>1. n * size \in Nat
    OBVIOUS
  <1>2. Hp \in Addr
    BY DEF TypeInv, TypeOK, Hp
  <1>3. n * size < WordMod
    BY <1>1, <1>2 DEF NoRoom
  <1> QED BY <1>1, <1>3, SmallMod DEF Product

-----------------------------------------------------------------------------
(* What holds whatever is granted *)

\* What malloc, calloc and a moving realloc do to the bump pointer and the blocks.
LEMMA CarveKeepsTypes ==
  ASSUME TypeInv, NEW size \in Addr, ~Exhausted(size), Bump(size),
         mem' \in [Addr -> Nat], overcommitted' \in BOOLEAN,
         blocks' \subseteq blocks \union {[ptr |-> NewPtr, req |-> size]}
  PROVE  TypeInv'
  <1> DEFINE new == [ptr |-> NewPtr, req |-> size]
  <1> USE LayoutAssumption
  <1>1. Hp \in Addr /\ Hp < HeapMax
    BY DEF TypeInv, TypeOK, Hp
  <1>2. NewPtr \in Addr /\ HeaderSize <= NewPtr
    BY <1>1 DEF NewPtr, AddW
  <1>3. new \in Block /\ new.ptr = NewPtr
    BY <1>2 DEF Block
  <1>4. AddW(Hp, TotalSize(size)) \in Addr
    <2>1. HeaderSize \in Addr /\ Padded(size) \in Addr
      BY PaddedInAddr
    <2>2. TotalSize(size) \in Addr
      BY <2>1, AddWInAddr DEF TotalSize
    <2> QED BY <1>1, <2>2, AddWInAddr
  <1>5. heap_ptr' \in Addr /\ heap_ptr' < HeapMax
    BY <1>4 DEF Bump, Exhausted
  <1>6. blocks' \subseteq Block
    BY <1>3 DEF TypeInv, TypeOK
  <1>7. \A b \in blocks' : HeaderSize <= b.ptr
    BY <1>2, <1>3 DEF TypeInv
  <1> QED BY <1>5, <1>6, <1>7 DEF TypeInv, TypeOK

LEMMA HeaderKeepsTypes ==
  ASSUME TypeInv, NEW size \in Addr
  PROVE  WithHeader(size) \in [Addr -> Nat]
  <1>1. Hp \in Addr /\ Padded(size) \in Addr
    BY PaddedInAddr, LayoutAssumption DEF TypeInv, TypeOK, Hp
  <1> QED BY <1>1 DEF WithHeader, TypeInv, TypeOK

LEMMA CopyKeepsTypes ==
  ASSUME NEW m \in [Addr -> Nat], NEW dest \in Addr, NEW src \in Addr, NEW n
  PROVE  Copied(m, dest, src, n) \in [Addr -> Nat]
  <1> SUFFICES ASSUME NEW a \in Addr, a \in Span(dest, n)
               PROVE  AddW(src, a - dest) \in Addr
    BY DEF Copied
  <1>1. a - dest \in Addr
    BY LayoutAssumption DEF Span
  <1> QED BY <1>1, AddWInAddr

LEMMA TypeStep == ASSUME TypeInv, [Next]_vars PROVE TypeInv'
  <1> USE LayoutAssumption
  <1>1. Hp \in Addr /\ Hp < HeapMax /\ NewPtr \in Addr
    BY DEF TypeInv, TypeOK, Hp, NewPtr, AddW
  <1>2. ASSUME NEW size, OutOfMemory(size) PROVE TypeInv'
    BY <1>1, <1>2 DEF OutOfMemory, TypeInv, TypeOK
  <1>3. ASSUME NEW s \in MallocSizes, Malloc(s) PROVE TypeInv'
    <2>1. s \in Addr
      BY RequestAssumption
    <2>2. mem' \in [Addr -> Nat] /\ overcommitted' \in BOOLEAN
      BY <1>3, <2>1, HeaderKeepsTypes DEF Malloc, Granted, NoRoom, TypeInv, TypeOK
    <2> QED BY <1>3, <2>1, <2>2, CarveKeepsTypes DEF Malloc
  <1>4. ASSUME NEW q \in CallocArgs, Calloc(q[1], q[2]) PROVE TypeInv'
    <2>1. q[1] \in Nat /\ q[2] \in Nat
      BY RequestAssumption
    <2>2. PICK total \in Addr : total = Product(q[1], q[2])
      BY <2>1, ProductInAddr
    <2>3. overcommitted' \in BOOLEAN
      BY <1>4 DEF Calloc, Granted, NoRoom, TypeInv, TypeOK
    <2>4. mem' \in [Addr -> Nat]
      BY <1>4, <2>2, HeaderKeepsTypes DEF Calloc, Zeroed
    <2> QED BY <1>4, <2>2, <2>3, <2>4, CarveKeepsTypes DEF Calloc
  <1>5. ASSUME NEW b \in blocks, NEW s \in ReallocSizes, ReallocMove(b, s)
        PROVE  TypeInv'
    <2>1. s \in Addr /\ b.ptr \in Addr
      BY RequestAssumption DEF TypeInv, TypeOK, Block
    <2>2. overcommitted' \in BOOLEAN
      BY <1>5 DEF ReallocMove, Granted, NoRoom, TypeInv, TypeOK
    <2>3. mem' \in [Addr -> Nat]
      BY <1>1, <1>5, <2>1, HeaderKeepsTypes, CopyKeepsTypes DEF ReallocMove
    <2>4. blocks' \subseteq blocks \union {[ptr |-> NewPtr, req |-> s]}
      BY <1>5 DEF ReallocMove
    <2> QED BY <1>5, <2>1, <2>2, <2>3, <2>4, CarveKeepsTypes DEF ReallocMove
  <1>6. ASSUME NEW b \in blocks, NEW s \in ReallocSizes, ReallocInPlace(b, s)
        PROVE  TypeInv'
    <2> DEFINE c == [ptr |-> b.ptr, req |-> s]
    <2>1. c \in Block /\ c.ptr = b.ptr
      BY RequestAssumption DEF TypeInv, TypeOK, Block
    <2>2. blocks' = (blocks \ {b}) \union {c} /\ UNCHANGED <<heap_ptr, mem, overcommitted>>
      BY <1>6 DEF ReallocInPlace
    <2> HIDE DEF c
    <2> QED BY <2>1, <2>2 DEF TypeInv, TypeOK
  <1>7. ASSUME NEW b \in blocks, Free(b) PROVE TypeInv'
    BY <1>7 DEF Free, TypeInv, TypeOK
  <1>8. ASSUME NEW b \in blocks, NEW v \in Data, Fill(b, v) PROVE TypeInv'
    BY <1>8, RequestAssumption DEF Fill, TypeInv, TypeOK
  <1>9. CASE UNCHANGED vars
    BY <1>9 DEF vars, TypeInv, TypeOK
  <1> QED BY <1>2, <1>3, <1>4, <1>5, <1>6, <1>7, <1>8, <1>9 DEF Next, ReallocFail

-----------------------------------------------------------------------------
(* What holds until the heap is overcommitted *)

LEMMA InitIInv == Init => IInv
  <1> SUFFICES ASSUME Init PROVE IInv
    OBVIOUS
  <1> USE LayoutAssumption
  <1>1. heap_ptr = 0 /\ heap_ptr \in Addr /\ blocks = {} /\ overcommitted \in BOOLEAN
    <2>1. heap_ptr = 0 /\ blocks = {} /\ overcommitted = FALSE
      BY DEF Init
    <2>2. overcommitted \in BOOLEAN
      BY <2>1, Zenon
    <2>3. heap_ptr \in Addr
      BY <2>1
    <2> QED BY <2>1, <2>2, <2>3
  <1>2. mem \in [Addr -> Nat]
    BY DEF Init
  <1>3. TypeOK
    BY <1>1, <1>2 DEF TypeOK
  <1> QED BY <1>1, <1>3 DEF IInv, PtrInHeap, BlocksInside, BlocksDisjoint,
          HeaderIntact

LEMMA MallocKeepsIInv ==
  ASSUME IInv, NEW size \in Addr, ~NoRoom(size), Malloc(size), TypeOK'
  PROVE  IInv'
  <1> USE LayoutAssumption
  <1>1. Hp \in Addr /\ NewPtr \in Addr /\ Padded(size) \in Nat
    BY Carved DEF IInv, Malloc
  <1>2. mem' = WithHeader(size) /\ mem \in [Addr -> Nat]
    BY DEF Malloc, IInv, TypeOK
  <1>3. /\ mem'[Hp] = Padded(size)
        /\ \A a \in Addr : a < Hp => mem'[a] = mem[a]
    BY <1>1, <1>2 DEF WithHeader
  <1>4. PICK p \in Addr : p = NewPtr
    BY <1>1
  <1>5. /\ ~Exhausted(size) /\ Bump(size)
        /\ blocks' \subseteq blocks \union {[ptr |-> p, req |-> size]}
    BY <1>4 DEF Malloc
  <1> QED BY <1>3, <1>4, <1>5, NewBlockKeepsIInv

LEMMA CallocKeepsIInv ==
  ASSUME IInv, NEW n \in Nat, NEW size \in Nat,
         Product(n, size) \in Addr, ~NoRoom(Product(n, size)), Calloc(n, size), TypeOK'
  PROVE  IInv'
  <1> USE LayoutAssumption
  <1>1. PICK total \in Addr : total = Product(n, size)
    OBVIOUS
  <1>2. /\ ~Exhausted(total) /\ Bump(total)
        /\ mem' = Zeroed(WithHeader(total), NewPtr, total)
        /\ blocks' = blocks \union {[ptr |-> NewPtr, req |-> total]}
    BY <1>1 DEF Calloc
  <1>3. Hp \in Addr /\ NewPtr \in Addr /\ NewPtr > Hp /\ Padded(total) \in Nat
    BY <1>1, <1>2, Carved DEF IInv
  <1>4. mem \in [Addr -> Nat]
    BY DEF IInv, TypeOK
  <1>5. /\ mem'[Hp] = Padded(total)
        /\ \A a \in Addr : a < Hp => mem'[a] = mem[a]
    BY <1>2, <1>3, <1>4 DEF WithHeader, Zeroed, Span
  <1>6. PICK p \in Addr : p = NewPtr
    BY <1>3
  <1> QED BY <1>1, <1>2, <1>5, <1>6, NewBlockKeepsIInv

LEMMA ReallocMoveKeepsIInv ==
  ASSUME IInv, NEW b \in blocks, NEW size \in Addr, ~NoRoom(size),
         ReallocMove(b, size), TypeOK'
  PROVE  IInv'
  <1> USE LayoutAssumption
  <1>1. /\ ~Exhausted(size) /\ Bump(size)
        /\ mem' = Copied(WithHeader(size), NewPtr, b.ptr, OldSize(b))
        /\ blocks' = (blocks \ {b}) \union {[ptr |-> NewPtr, req |-> size]}
    BY DEF ReallocMove
  <1>2. /\ Hp \in Addr /\ NewPtr \in Addr /\ NewPtr > Hp /\ heap_ptr <= Hp
        /\ Padded(size) \in Nat
    BY <1>1, Carved DEF IInv
  <1>3. mem \in [Addr -> Nat] /\ heap_ptr \in Addr /\ b.ptr \in Addr
    BY DEF IInv, TypeOK, Block
  <1>4. HeapStart + HeaderSize <= b.ptr /\ b.ptr + OldSize(b) <= heap_ptr
    BY DEF IInv, BlocksInside
  <1>5. OldSize(b) \in Nat
    BY <1>3, <1>4 DEF OldSize
  <1>6. WithHeader(size) \in [Addr -> Nat] /\ WithHeader(size)[Hp] = Padded(size)
        /\ \A a \in Addr : a < Hp => WithHeader(size)[a] = mem[a]
    BY <1>2, <1>3 DEF WithHeader
  <1>8. /\ mem'[Hp] = Padded(size)
        /\ \A a \in Addr : a < Hp => mem'[a] = mem[a]
    <2>1. \A a \in Addr : a <= Hp => mem'[a] = WithHeader(size)[a]
      BY <1>1, <1>2, <1>5 DEF Copied, Span
    <2> QED BY <1>2, <1>6, <2>1
  <1>9. PICK p \in Addr : p = NewPtr
    BY <1>2
  <1> QED BY <1>1, <1>8, <1>9, NewBlockKeepsIInv

LEMMA OutOfMemoryKeepsIInv ==
  ASSUME IInv, NEW size, OutOfMemory(size) PROVE IInv'
  <1>1. /\ heap_ptr' \in Addr /\ heap_ptr <= heap_ptr'
        /\ HeapStart <= heap_ptr' /\ heap_ptr' < HeapMax
    BY LayoutAssumption DEF IInv, TypeOK, PtrInHeap, OutOfMemory, Hp
  <1>2. UNCHANGED <<mem, blocks, overcommitted>>
    BY DEF OutOfMemory
  <1>3. \A b \in blocks : b.ptr \in Addr /\ OldSize(b) \in Nat
    BY LayoutAssumption DEF IInv, TypeOK, BlocksInside, Block, OldSize
  <1>4. BlocksInside'
    BY <1>1, <1>2, <1>3 DEF IInv, TypeOK, BlocksInside, OldSize
  <1> QED BY <1>1, <1>2, <1>4 DEF IInv, TypeOK, PtrInHeap, BlocksDisjoint,
          HeaderIntact, OldSize

LEMMA ShrinkKeepsIInv ==
  ASSUME IInv, NEW b \in blocks, NEW size \in Addr, ReallocInPlace(b, size)
  PROVE  IInv'
  <1> DEFINE c == [ptr |-> b.ptr, req |-> size]
  <1>1. /\ size <= OldSize(b) /\ UNCHANGED <<heap_ptr, mem, overcommitted>>
        /\ blocks' = (blocks \ {b}) \union {c}
    BY DEF ReallocInPlace
  <1>2. c \in Block /\ c.ptr = b.ptr /\ c.req = size /\ OldSize(c) = OldSize(b)
    BY DEF IInv, TypeOK, Block, OldSize
  <1>3. \A d \in blocks' : OldSize(d)' = OldSize(d)
    BY <1>1 DEF OldSize
  <1>4. TypeOK' /\ PtrInHeap'
    BY <1>1, <1>2 DEF IInv, TypeOK, PtrInHeap
  <1>5. BlocksInside'
    BY <1>1, <1>2, <1>3 DEF IInv, BlocksInside
  <1>6. BlocksDisjoint'
    BY <1>1, <1>2, <1>3 DEF IInv, BlocksDisjoint
  <1>7. HeaderIntact'
    <2> SUFFICES ASSUME NEW d \in blocks' PROVE OldSize(d) >= d.req
      BY <1>3 DEF HeaderIntact
    <2>1. CASE d = c
      <3>1. OldSize(b) \in Nat
        BY LayoutAssumption DEF IInv, TypeOK, BlocksInside, Block, OldSize
      <3> QED BY <1>1, <1>2, <2>1, <3>1
    <2>2. CASE d \in blocks
      BY <2>2 DEF IInv, HeaderIntact
    <2> QED BY <1>1, <2>1, <2>2
  <1> QED BY <1>4, <1>5, <1>6, <1>7 DEF IInv

LEMMA FreeKeepsIInv ==
  ASSUME IInv, NEW b \in blocks, Free(b) PROVE IInv'
  BY DEF Free, IInv, TypeOK, PtrInHeap, BlocksInside, BlocksDisjoint,
     HeaderIntact, OldSize

\* A holder's write stays within its block, so it reaches no header: not its own,
\* which lies in front of the block, and not another's, by disjointness.
LEMMA FillKeepsIInv ==
  ASSUME IInv, NEW b \in blocks, NEW v \in Data, Fill(b, v) PROVE IInv'
  <1> USE LayoutAssumption
  <1>1. /\ UNCHANGED <<heap_ptr, blocks, overcommitted>>
        /\ mem' = [a \in Addr |-> IF a \in Span(b.ptr, b.req) THEN v ELSE mem[a]]
    BY DEF Fill
  <1>2. \A d \in blocks : /\ d.ptr \in Nat /\ d.req \in Nat
                          /\ d.ptr - HeaderSize \in Addr
                          /\ OldSize(d) \in Nat /\ d.req <= OldSize(d)
    BY BlockFacts
  <1>3. \A d \in blocks : d.ptr - HeaderSize \notin Span(b.ptr, b.req)
    <2> SUFFICES ASSUME NEW d \in blocks, b.ptr <= d.ptr - HeaderSize,
                        d.ptr - HeaderSize < b.ptr + b.req
                 PROVE  FALSE
      BY <1>2 DEF Span
    <2>1. CASE d = b
      BY <2>1, <1>2
    <2>2. CASE d # b
      <3>1. \/ b.ptr + OldSize(b) <= d.ptr - HeaderSize
            \/ d.ptr + OldSize(d) <= b.ptr - HeaderSize
        BY <2>2 DEF IInv, BlocksDisjoint
      <3> QED BY <1>2, <3>1
    <2> QED BY <2>1, <2>2
  <1>4. \A d \in blocks : OldSize(d)' = OldSize(d)
    BY <1>1, <1>2, <1>3 DEF OldSize
  <1>5. TypeOK'
    BY <1>1, RequestAssumption DEF IInv, TypeOK
  <1> QED BY <1>1, <1>4, <1>5 DEF IInv, PtrInHeap, BlocksInside, BlocksDisjoint,
          HeaderIntact

\* A step that leaves the heap not overcommitted granted nothing without room.
LEMMA NextIInv ==
  ASSUME TypeInv, IInv, [Next]_vars, ~overcommitted', TypeOK' PROVE IInv'
  <1>1. ASSUME NEW s \in MallocSizes, Malloc(s) \/ OutOfMemory(s) PROVE IInv'
    <2>1. s \in Addr
      BY RequestAssumption
    <2>2. CASE Malloc(s)
      <3>1. ~NoRoom(s)
        BY <2>2 DEF Malloc, Granted
      <3> QED BY <2>1, <2>2, <3>1, MallocKeepsIInv
    <2> QED BY <1>1, <2>2, OutOfMemoryKeepsIInv
  <1>2. ASSUME NEW q \in CallocArgs,
               Calloc(q[1], q[2]) \/ OutOfMemory(Product(q[1], q[2]))
        PROVE  IInv'
    <2>1. q[1] \in Nat /\ q[2] \in Nat
      BY RequestAssumption
    <2>2. CASE Calloc(q[1], q[2])
      <3>1. ~NoRoom(q[1] * q[2])
        BY <2>2 DEF Calloc, Granted
      <3>2. Product(q[1], q[2]) = q[1] * q[2] /\ Product(q[1], q[2]) \in Addr
        BY <2>1, <3>1, ProductExact, ProductInAddr
      <3> QED BY <2>1, <2>2, <3>1, <3>2, CallocKeepsIInv
    <2> QED BY <1>2, <2>2, OutOfMemoryKeepsIInv
  <1>3. ASSUME NEW b \in blocks, NEW s \in ReallocSizes,
               ReallocInPlace(b, s) \/ ReallocMove(b, s) \/ ReallocFail(b, s)
        PROVE  IInv'
    <2>1. s \in Addr
      BY RequestAssumption
    <2>2. CASE ReallocMove(b, s)
      <3>1. ~NoRoom(s)
        BY <2>2 DEF ReallocMove, Granted
      <3> QED BY <2>1, <2>2, <3>1, ReallocMoveKeepsIInv
    <2> QED BY <1>3, <2>1, <2>2, ShrinkKeepsIInv, OutOfMemoryKeepsIInv
        DEF ReallocFail
  <1>4. ASSUME NEW b \in blocks, Free(b) PROVE IInv'
    BY <1>4, FreeKeepsIInv
  <1>5. ASSUME NEW b \in blocks, NEW v \in Data, Fill(b, v) PROVE IInv'
    BY <1>5, FillKeepsIInv
  <1>6. CASE UNCHANGED vars
    BY <1>6 DEF vars, IInv, TypeOK, PtrInHeap, BlocksInside, BlocksDisjoint,
       HeaderIntact, OldSize
  <1> QED BY <1>1, <1>2, <1>3, <1>4, <1>5, <1>6 DEF Next

\* Once the heap is overcommitted it stays so.
LEMMA OvercommittedStays ==
  ASSUME overcommitted, overcommitted \in BOOLEAN, [Next]_vars PROVE overcommitted'
  BY DEF Next, vars, Malloc, Calloc, ReallocMove, Granted, OutOfMemory, ReallocFail,
     ReallocInPlace, Free, Fill

LEMMA HeapStep == ASSUME HeapInv, [Next]_vars PROVE HeapInv'
  <1>1. TypeInv /\ TypeInv' /\ TypeOK' /\ overcommitted \in BOOLEAN
    BY TypeStep DEF HeapInv, TypeInv, TypeOK
  <1>2. CASE overcommitted
    BY <1>1, <1>2, OvercommittedStays DEF HeapInv
  <1>3. CASE IInv
    BY <1>1, <1>3, NextIInv DEF HeapInv
  <1> QED BY <1>2, <1>3 DEF HeapInv

LEMMA HeapInit == Init => HeapInv
  BY InitIInv, LayoutAssumption DEF Init, HeapInv, TypeInv, IInv

\* Whatever is requested, and however sums wrap, the heap's state keeps its types: the
\* bump pointer is an address, and so is every pointer a caller was given.
THEOREM HeapTypeCorrect == Spec => []TypeOK
  <1>1. HeapInv /\ [Next]_vars => HeapInv'
    BY HeapStep
  <1>2. HeapInv => TypeOK
    BY DEF HeapInv, TypeInv
  <1> QED BY <1>1, <1>2, HeapInit, PTL DEF Spec

-----------------------------------------------------------------------------
(* Where no sum wraps *)

\* A request that does not wrap is granted only if the heap has room for it.
LEMMA FitsHasRoom ==
  ASSUME TypeInv, NEW size \in Nat, Fits(size), ~Exhausted(size)
  PROVE  ~NoRoom(size)
  <1> USE LayoutAssumption
  <1>1. Hp \in Nat /\ Hp < HeapMax
    BY DEF TypeInv, TypeOK, Hp
  <1>2. /\ Padded(size) \in Nat
        /\ size <= Padded(size)
        /\ Padded(size) <= size + 7
    BY PaddedCovers DEF Fits
  <1>3. TotalSize(size) = Padded(size) + HeaderSize
    BY <1>2 DEF TotalSize, AddW, Fits
  <1>4. AddW(Hp, TotalSize(size)) = Hp + HeaderSize + Padded(size)
    BY <1>1, <1>2, <1>3 DEF AddW, Fits
  <1> QED BY <1>1, <1>2, <1>4 DEF Exhausted, NoRoom

\* The requests of a caller, as sizes malloc sees: none wraps.
LEMMA RequestsFit ==
  ASSUME NoWrap
  PROVE  /\ \A s \in MallocSizes \union ReallocSizes : s \in Addr /\ Fits(s)
         /\ \A q \in CallocArgs : /\ Product(q[1], q[2]) \in Addr
                                  /\ Product(q[1], q[2]) = q[1] * q[2]
                                  /\ Fits(Product(q[1], q[2]))
  <1> USE LayoutAssumption
  <1>1. \A s \in MallocSizes \union ReallocSizes : s \in Addr /\ Fits(s)
    BY RequestAssumption DEF NoWrap
  <1>2. ASSUME NEW q \in CallocArgs
        PROVE  /\ Product(q[1], q[2]) \in Addr
               /\ Product(q[1], q[2]) = q[1] * q[2]
               /\ Fits(Product(q[1], q[2]))
    <2>1. q[1] \in Nat /\ q[2] \in Nat
      BY RequestAssumption
    <2>2. q[1] * q[2] \in Nat /\ q[1] * q[2] < WordMod /\ Fits(q[1] * q[2])
      BY <2>1 DEF NoWrap
    <2>3. Product(q[1], q[2]) = q[1] * q[2]
      BY <2>2, SmallMod DEF Product
    <2> QED BY <2>2, <2>3
  <1> QED BY <1>1, <1>2

\* Then the heap is never overcommitted.
LEMMA NeverOvercommitted ==
  ASSUME NoWrap, TypeInv, ~overcommitted, [Next]_vars PROVE ~overcommitted'
  <1>1. ASSUME NEW size \in Nat, Fits(size), ~Exhausted(size), Granted(size)
        PROVE  ~overcommitted'
    BY <1>1, FitsHasRoom DEF Granted
  <1>2. ASSUME NEW s \in MallocSizes, Malloc(s) PROVE ~overcommitted'
    BY <1>1, <1>2, RequestsFit DEF Malloc
  <1>3. ASSUME NEW q \in CallocArgs, Calloc(q[1], q[2]) PROVE ~overcommitted'
    <2>1. PICK total \in Addr : total = q[1] * q[2] /\ total = Product(q[1], q[2])
                                /\ Fits(total)
      BY RequestsFit
    <2>2. ~Exhausted(total) /\ Granted(total)
      BY <1>3, <2>1 DEF Calloc
    <2> QED BY <1>1, <2>1, <2>2
  <1>4. ASSUME NEW b \in blocks, NEW s \in ReallocSizes, ReallocMove(b, s)
        PROVE  ~overcommitted'
    BY <1>1, <1>4, RequestsFit DEF ReallocMove
  <1> QED BY <1>2, <1>3, <1>4 DEF Next, vars, OutOfMemory, ReallocFail,
          ReallocInPlace, Free, Fill

\* Whatever is requested, on a build of any width: until malloc grants a request the
\* heap has no room for, every block lies inside the heap below the bump pointer,
\* blocks and their headers are disjoint, and every header is at least as large as
\* its holder's request.  Where no sum wraps, malloc grants no such request.
THEOREM HeapSafe == Spec => []BlocksSafe
  <1> DEFINE I == HeapInv /\ (NoWrap => ~overcommitted)
  <1>1. Init => I
    BY HeapInit DEF Init
  <1>2. I /\ [Next]_vars => I'
    BY HeapStep, NeverOvercommitted DEF HeapInv, NoWrap, Fits
  <1>3. I => BlocksSafe
    BY DEF HeapInv, IInv, BlocksSafe
  <1> QED BY <1>1, <1>2, <1>3, PTL DEF Spec

\* What malloc's test against HEAP_MAX misses: while there is room for a header, every
\* request that would end beyond 2^w is granted, since one of the three sums wraps
\* and what is compared is small.  The block it answers with is one the heap has no
\* room for.
THEOREM OversizedRequestGranted ==
  ASSUME TypeInv, Hp + HeaderSize < HeapMax,
         NEW size \in Addr, Hp + HeaderSize + size >= WordMod
  PROVE  ~Exhausted(size) /\ (Malloc(size) => overcommitted')
  <1> USE LayoutAssumption
  <1>1. Hp \in Nat /\ Hp < HeapMax
    BY DEF TypeInv, TypeOK, Hp
  <1>2. /\ Padded(size) \in Nat /\ Padded(size) < WordMod
        /\ Padded(size) = 0 \/ size <= Padded(size)
    <2>1. CASE size + 7 < WordMod
      BY <2>1, PaddedCovers
    <2>2. CASE size + 7 >= WordMod
      <3>1. AddW(size, 7) = size + 7 - WordMod
        BY <2>2 DEF AddW
      <3>2. size + 7 - WordMod \in 0 .. 6
        BY <2>2
      <3>3. (size + 7 - WordMod) % 8 = size + 7 - WordMod
        BY <3>2
      <3> QED BY <3>1, <3>2, <3>3 DEF Padded
    <2> QED BY <2>1, <2>2
  <1>3. AddW(Hp, TotalSize(size)) < HeapMax
    <2>1. CASE Padded(size) = 0
      BY <1>1, <2>1 DEF TotalSize, AddW
    <2>2. CASE size <= Padded(size) /\ Padded(size) + HeaderSize < WordMod
      <3>1. TotalSize(size) = Padded(size) + HeaderSize
        BY <1>2, <2>2 DEF TotalSize, AddW
      <3>2. AddW(Hp, TotalSize(size)) = Hp + Padded(size) + HeaderSize - WordMod
        BY <1>1, <1>2, <2>2, <3>1 DEF AddW
      <3> QED BY <1>1, <1>2, <2>2, <3>2
    <2>3. CASE Padded(size) + HeaderSize >= WordMod
      <3>1. TotalSize(size) = Padded(size) + HeaderSize - WordMod
        BY <1>2, <2>3 DEF TotalSize, AddW
      <3> QED BY <1>1, <1>2, <3>1 DEF AddW
    <2> QED BY <1>2, <2>1, <2>2, <2>3
  <1>4. AddW(Hp, TotalSize(size)) \in Int
    BY <1>1, <1>2 DEF AddW, TotalSize
  <1>5. ~Exhausted(size)
    BY <1>3, <1>4 DEF Exhausted
  <1>6. NoRoom(size)
    BY <1>1 DEF NoRoom
  <1>7. Malloc(size) => overcommitted'
    BY <1>6, Zenon DEF Malloc, Granted
  <1> QED BY <1>5, <1>7

-----------------------------------------------------------------------------
(* The heap implements Allocator *)

\* A block carved above the bump pointer shares no byte with a block already
\* held, and writing there changes the bytes of none.
LEMMA CarvedIsFresh ==
  ASSUME IInv, NEW size \in Addr, ~NoRoom(size), ~Exhausted(size),
         NEW bs, bs \subseteq blocks,
         \A a \in Addr : a < Hp => mem'[a] = mem[a]
  PROVE  /\ Abstract!FreshFor([ptr |-> NewPtr, req |-> size], bs)
         /\ Abstract!Kept(bs)
  <1> USE LayoutAssumption
  <1>1. Hp \in Addr /\ heap_ptr <= Hp /\ NewPtr = Hp + HeaderSize
    BY Carved DEF IInv
  <1>2. ASSUME NEW b \in bs, NEW a \in Abstract!Bytes(b)
        PROVE  a \in Addr /\ a < Hp
    <2>1. /\ b.ptr \in Nat /\ b.req \in Nat /\ OldSize(b) \in Nat
          /\ b.req <= OldSize(b) /\ heap_ptr \in Nat
          /\ b.ptr + OldSize(b) <= heap_ptr
      BY BlockFacts
    <2>2. a \in Int /\ b.ptr <= a /\ a < b.ptr + b.req
      BY <2>1 DEF Abstract!Bytes, Abstract!Span
    <2> QED BY <1>1, <2>1, <2>2
  <1>3. \A a \in Abstract!Bytes([ptr |-> NewPtr, req |-> size]) : a > Hp
    BY <1>1 DEF Abstract!Bytes, Abstract!Span
  <1>4. Abstract!FreshFor([ptr |-> NewPtr, req |-> size], bs)
    <2> SUFFICES ASSUME NEW b \in bs, NEW a, a \in Abstract!Bytes(b),
                        a \in Abstract!Bytes([ptr |-> NewPtr, req |-> size])
                 PROVE  FALSE
      BY DEF Abstract!FreshFor
    <2>1. a \in Addr /\ a < Hp /\ a > Hp
      BY <1>2, <1>3
    <2> QED BY <1>1, <2>1
  <1>5. Abstract!Kept(bs)
    BY <1>2 DEF Abstract!Kept
  <1> QED BY <1>4, <1>5

LEMMA CarveIsAllocate ==
  ASSUME IInv, NEW size \in Addr, ~NoRoom(size), size \in Sizes, ~Exhausted(size),
         \A a \in Addr : a < Hp => mem'[a] = mem[a],
         blocks' = blocks \union {[ptr |-> NewPtr, req |-> size]}
  PROVE  Abstract!Next
  <1>1. NewPtr \in Addr
    BY Carved, LayoutAssumption DEF IInv
  <1>2. Abstract!Allocate([ptr |-> NewPtr, req |-> size])
    BY CarvedIsFresh DEF Abstract!Allocate
  <1> QED BY <1>1, <1>2 DEF Abstract!Next

LEMMA MoveIsResize ==
  ASSUME IInv, NEW b \in blocks, NEW size \in Addr, ~NoRoom(size), size \in Sizes,
         ReallocMove(b, size)
  PROVE  Abstract!Next
  <1> DEFINE c == [ptr |-> NewPtr, req |-> size]
  <1> USE LayoutAssumption
  <1>1. /\ ~Exhausted(size) /\ size > OldSize(b)
        /\ mem' = Copied(WithHeader(size), NewPtr, b.ptr, OldSize(b))
        /\ blocks' = (blocks \ {b}) \union {c}
    BY DEF ReallocMove
  <1>2. /\ Hp \in Addr /\ NewPtr \in Addr /\ NewPtr = Hp + HeaderSize
        /\ heap_ptr <= Hp /\ Padded(size) \in Nat /\ size <= Padded(size)
        /\ NewPtr + Padded(size) < HeapMax
    BY <1>1, Carved DEF IInv
  <1>3. /\ b.ptr \in Nat /\ b.req \in Nat /\ OldSize(b) \in Nat
        /\ b.req <= OldSize(b) /\ heap_ptr \in Nat
        /\ b.ptr + OldSize(b) <= heap_ptr
    BY BlockFacts
  <1>4. \A a \in Addr : a < Hp => WithHeader(size)[a] = mem[a]
    BY <1>2 DEF WithHeader, IInv, TypeOK
  <1>5. \A a \in Addr : a < Hp => mem'[a] = mem[a]
    BY <1>1, <1>2, <1>3, <1>4 DEF Copied, Span
  <1>6. ASSUME NEW i \in 0 .. b.req - 1, i < size
        PROVE  mem'[NewPtr + i] = mem[b.ptr + i]
    <2>1. i \in Nat /\ i < OldSize(b) /\ i < Padded(size)
      BY <1>2, <1>3, <1>6
    <2>2. NewPtr + i \in Addr /\ NewPtr + i \in Span(NewPtr, OldSize(b))
      BY <1>2, <1>3, <2>1 DEF Span
    <2>3. AddW(b.ptr, (NewPtr + i) - NewPtr) = b.ptr + i
      BY <1>2, <1>3, <2>1 DEF AddW
    <2>4. mem'[NewPtr + i] = WithHeader(size)[b.ptr + i]
      BY <1>1, <2>2, <2>3 DEF Copied
    <2>5. b.ptr + i \in Addr /\ b.ptr + i < Hp
      BY <1>2, <1>3, <2>1
    <2> QED BY <1>4, <2>4, <2>5
  <1>7. Abstract!FreshFor(c, blocks \ {b}) /\ Abstract!Kept(blocks \ {b})
    <2> HIDE DEF c
    <2>1. blocks \ {b} \subseteq blocks
      OBVIOUS
    <2> QED BY <1>1, <1>5, <2>1, CarvedIsFresh DEF c
  <1>8. Abstract!Resize(b, c)
    BY <1>1, <1>6, <1>7 DEF Abstract!Resize
  <1> QED BY <1>2, <1>8 DEF Abstract!Next

LEMMA ShrinkIsResize ==
  ASSUME IInv, NEW b \in blocks, NEW size \in Addr, size \in Sizes,
         ReallocInPlace(b, size)
  PROVE  Abstract!Next
  <1> DEFINE c == [ptr |-> b.ptr, req |-> size]
  <1>1. /\ size <= OldSize(b) /\ mem' = mem
        /\ blocks' = (blocks \ {b}) \union {c}
    BY DEF ReallocInPlace
  <1>2. b.ptr \in Addr
    BY DEF IInv, TypeOK, Block
  <1>3. Abstract!FreshFor(c, blocks \ {b})
    <2> SUFFICES ASSUME NEW d \in blocks \ {b}, NEW a,
                        a \in Abstract!Bytes(d), a \in Abstract!Bytes(c)
                 PROVE  FALSE
      BY DEF Abstract!FreshFor
    <2>1. /\ d.ptr \in Nat /\ d.req \in Nat /\ OldSize(d) \in Nat
          /\ d.req <= OldSize(d)
          /\ b.ptr \in Nat /\ OldSize(b) \in Nat
      BY BlockFacts
    <2>2. \/ b.ptr + OldSize(b) <= d.ptr - HeaderSize
          \/ d.ptr + OldSize(d) <= b.ptr - HeaderSize
      BY DEF IInv, BlocksDisjoint
    <2>3. a \in Int /\ d.ptr <= a /\ a < d.ptr + d.req
      BY <2>1 DEF Abstract!Bytes, Abstract!Span
    <2>4. b.ptr <= a /\ a < b.ptr + size
      BY <2>1 DEF Abstract!Bytes, Abstract!Span
    <2> QED BY <1>1, <2>1, <2>2, <2>3, <2>4, LayoutAssumption
  <1>4. Abstract!Resize(b, c)
    BY <1>1, <1>3 DEF Abstract!Resize, Abstract!Kept
  <1> QED BY <1>2, <1>4 DEF Abstract!Next

\* Under the invariant, every step of the heap is a step of the allocator, or
\* changes nothing an allocator's caller can see.
LEMMA StepSimulation ==
  ASSUME NoWrap, TypeInv, IInv, [Next]_vars PROVE [Abstract!Next]_(Abstract!vars)
  <1> USE LayoutAssumption
  <1>1. ASSUME NEW size, OutOfMemory(size) PROVE UNCHANGED Abstract!vars
    BY <1>1 DEF OutOfMemory, Abstract!vars
  <1>2. ASSUME NEW s \in MallocSizes, Malloc(s) PROVE Abstract!Next
    <2>1. s \in Addr /\ ~NoRoom(s) /\ s \in Sizes
      <3>1. s \in Addr /\ Fits(s) /\ ~Exhausted(s)
        BY <1>2, RequestsFit DEF Malloc
      <3> QED BY <3>1, FitsHasRoom DEF Sizes
    <2>2. ~Exhausted(s) /\ Hp \in Addr /\ mem \in [Addr -> Nat]
      <3>1. ~Exhausted(s)
        BY <1>2 DEF Malloc
      <3>2. TypeOK /\ PtrInHeap /\ mem \in [Addr -> Nat] /\ s \in Nat
        BY <2>1 DEF IInv, TypeOK
      <3> QED BY <2>1, <3>1, <3>2, Carved
    <2>3. \A a \in Addr : a < Hp => mem'[a] = mem[a]
      BY <1>2, <2>2 DEF Malloc, WithHeader
    <2>4. blocks' = blocks \union {[ptr |-> NewPtr, req |-> s]}
      BY <1>2 DEF Malloc
    <2> QED BY <2>1, <2>2, <2>3, <2>4, CarveIsAllocate
  <1>3. ASSUME NEW q \in CallocArgs, Calloc(q[1], q[2]) PROVE Abstract!Next
    <2>1. PICK total \in Addr : total = Product(q[1], q[2])
      BY RequestsFit
    <2>2. ~NoRoom(total) /\ total \in Sizes
      BY <1>3, <2>1, RequestsFit, FitsHasRoom DEF Sizes, Calloc
    <2>3. /\ ~Exhausted(total)
          /\ mem' = Zeroed(WithHeader(total), NewPtr, total)
          /\ blocks' = blocks \union {[ptr |-> NewPtr, req |-> total]}
      BY <1>3, <2>1 DEF Calloc
    <2>4. Hp \in Addr /\ NewPtr = Hp + HeaderSize
      BY <2>2, <2>3, Carved DEF IInv
    <2>5. \A a \in Addr : a < Hp => mem'[a] = mem[a]
      BY <2>3, <2>4 DEF Zeroed, WithHeader, Span, IInv, TypeOK
    <2> QED BY <2>2, <2>3, <2>5, CarveIsAllocate
  <1>4. ASSUME NEW b \in blocks, NEW s \in ReallocSizes,
               ReallocInPlace(b, s) \/ ReallocMove(b, s)
        PROVE  Abstract!Next
    <2>1. s \in Addr /\ s \in Sizes /\ Fits(s)
      BY RequestsFit DEF Sizes
    <2>2. CASE ReallocMove(b, s)
      <3>1. ~NoRoom(s)
        BY <2>1, <2>2, FitsHasRoom DEF ReallocMove
      <3> QED BY <2>1, <2>2, <3>1, MoveIsResize
    <2> QED BY <1>4, <2>1, <2>2, ShrinkIsResize
  <1>5. ASSUME NEW b \in blocks, Free(b) PROVE Abstract!Next
    BY <1>5 DEF Free, Abstract!Next, Abstract!Release
  <1>6. ASSUME NEW b \in blocks, NEW v \in Data, Fill(b, v) PROVE Abstract!Next
    BY <1>6 DEF Fill, Span, Abstract!Next, Abstract!Write, Abstract!Bytes,
       Abstract!Span
  <1>7. CASE UNCHANGED vars
    BY <1>7 DEF vars, Abstract!vars
  <1> QED BY <1>1, <1>2, <1>3, <1>4, <1>5, <1>6, <1>7 DEF Next, ReallocFail

\* As long as no request wraps, the heap implements the allocator: every block
\* handed out is fresh, no call changes the bytes of a block somebody else
\* holds, and realloc carries the bytes of a block along.
THEOREM HeapImplementsAllocator == NoWrap => (Spec => ImplementsAllocator)
  <1> SUFFICES ASSUME NoWrap PROVE Spec => ImplementsAllocator
    OBVIOUS
  <1> DEFINE I == HeapInv /\ ~overcommitted
  <1>1. Init => I /\ Abstract!Init
    BY HeapInit DEF Init, Abstract!Init
  <1>2. I /\ [Next]_vars => I'
    BY HeapStep, NeverOvercommitted DEF HeapInv
  <1>3. I /\ [Next]_vars => [Abstract!Next]_(Abstract!vars)
    BY StepSimulation DEF HeapInv
  <1> QED BY <1>1, <1>2, <1>3, PTL DEF Spec, ImplementsAllocator, Abstract!Spec

=============================================================================

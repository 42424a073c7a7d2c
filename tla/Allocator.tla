----------------------------- MODULE Allocator ------------------------------
(***************************************************************************)
(* What a heap promises its callers, whatever its policy: a block comes     *)
(* from memory nobody holds, what a holder wrote stays there until the      *)
(* holder writes again or gives the block up, and a resized block carries   *)
(* its bytes along.  Heap implements it.                                    *)
(***************************************************************************)
EXTENDS Integers

CONSTANTS
  Addr,     \* the addresses of memory
  Sizes,    \* the sizes callers ask for
  Data      \* the byte values callers store

VARIABLES
  mem,      \* the byte at every address
  blocks    \* the blocks callers hold: [ptr, req]

vars == <<mem, blocks>>

Span(p, n) == p .. p + n - 1
Bytes(b) == Span(b.ptr, b.req)

\* The memory of every block in bs is as it was.
Kept(bs) == \A b \in bs : \A a \in Bytes(b) : mem'[a] = mem[a]

\* Block c shares no byte with the blocks in bs.
FreshFor(c, bs) == \A b \in bs : Bytes(b) \intersect Bytes(c) = {}

Init == mem = [a \in Addr |-> 0] /\ blocks = {}

Allocate(c) ==
  /\ blocks' = blocks \union {c}
  /\ FreshFor(c, blocks)
  /\ Kept(blocks)

Release(b) == blocks' = blocks \ {b} /\ UNCHANGED mem

Write(b, v) ==
  /\ mem' = [a \in Addr |-> IF a \in Bytes(b) THEN v ELSE mem[a]]
  /\ UNCHANGED blocks

\* Block b becomes c, in place or elsewhere, with the bytes both have.
Resize(b, c) ==
  /\ blocks' = (blocks \ {b}) \union {c}
  /\ FreshFor(c, blocks \ {b})
  /\ Kept(blocks \ {b})
  /\ \A i \in 0 .. b.req - 1 : i < c.req => mem'[c.ptr + i] = mem[b.ptr + i]

Next ==
  \/ \E p \in Addr, s \in Sizes : Allocate([ptr |-> p, req |-> s])
  \/ \E b \in blocks :
        \/ Release(b)
        \/ \E v \in Data : Write(b, v)
        \/ \E p \in Addr, s \in Sizes : Resize(b, [ptr |-> p, req |-> s])

Spec == Init /\ [][Next]_vars
=============================================================================

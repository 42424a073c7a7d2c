---------------------------- MODULE MCElfLoader -----------------------------
(***************************************************************************)
(* ElfLoader on a memory of a few dozen bytes.  Every byte starts out       *)
(* holding its own address, so a byte that ends up in the wrong place shows. *)
(* The image lies in the middle: two bytes of headers and its segments.     *)
(***************************************************************************)
EXTENDS ElfLoader

MCAddr == 1 .. 40
MCMem0 == [a \in MCAddr |-> a]
MCBase == 12

\* Sizes around the 4-byte chunks: empty, a tail only, whole words, both.
FileSizes == {0, 3, 4, 6}
MemSizes == {0, 5, 8}

Segments(paddrs) ==
  [type : {PT_LOAD}, offset : {2, 5}, paddr : paddrs,
   filesz : FileSizes, memsz : MemSizes]
Note == [type |-> 4, offset |-> 2, paddr |-> 30, filesz |-> 3, memsz |-> 3]

\* Any segment, alone or before one of both copy chunks and zero bytes.
ImagesOf(segs) ==
  LET last == {t \in segs : t.filesz = 6 /\ t.memsz = 8}
      pairs == {<<s, t>> : s \in segs, t \in last}
      all == {<<>>, <<Note>>} \union {<<Note, s>> : s \in segs} \union pairs
  IN  [magic : {TRUE}, class : {1}, entry : {0, 7}, phs : {<<>>, <<Note>>},
       header : {{12, 13}}]
      \union [magic : {TRUE}, class : {2}, entry : {7}, phs : all,
              header : {{12, 13}}]
      \union [magic : {FALSE}, class : {2}, entry : {7}, phs : {<<Note>>},
              header : {{12, 13}}]
      \union [magic : {TRUE}, class : {0, 3}, entry : {7}, phs : {<<Note>>},
              header : {{12, 13}}]

\* Targets below the image, above it, and sliding down over the image.
SafeImages == ImagesOf({s \in Segments({2, 14, 30}) : SafeOverlap(s)})
=============================================================================

---------------------------- MODULE SegmentLoad -----------------------------
(***************************************************************************)
(* What an ELF loader promises: an image that is not ELF, or of an unknown  *)
(* class, is refused with memory untouched; otherwise each loadable segment *)
(* appears at its physical address at once and whole, in table order, its   *)
(* file bytes first and zeros up to its memory size.  ElfLoader implements  *)
(* it one word or byte at a time.                                           *)
(***************************************************************************)
EXTENDS Integers, Sequences

CONSTANTS Images, Mem0, Addr, Base, PT_LOAD

VARIABLES
  img,      \* the image being loaded
  mem,      \* memory
  i,        \* the program headers dealt with so far
  result    \* -1 while loading, then the entry point, 0 for a refused image

vars == <<img, mem, i, result>>

Segment == img.phs[i + 1]

\* Memory m once segment s is loaded.
Loaded(m, s) ==
  [a \in Addr |->
     IF a \in s.paddr .. s.paddr + s.filesz - 1
     THEN m[Base + s.offset + (a - s.paddr)]
     ELSE IF a \in s.paddr + s.filesz .. s.paddr + s.memsz - 1 THEN 0 ELSE m[a]]

Init == img \in Images /\ mem = Mem0 /\ i = 0 /\ result = -1

Refuse ==
  /\ ~img.magic \/ img.class \notin {1, 2}
  /\ i = 0 /\ result = -1
  /\ result' = 0
  /\ UNCHANGED <<img, mem, i>>

Accepted == img.magic /\ img.class \in {1, 2} /\ result = -1

LoadOne ==
  /\ Accepted
  /\ i < Len(img.phs)
  /\ mem' = IF Segment.type = PT_LOAD THEN Loaded(mem, Segment) ELSE mem
  /\ i' = i + 1
  /\ UNCHANGED <<img, result>>

Finish ==
  /\ Accepted
  /\ i = Len(img.phs)
  /\ result' = img.entry
  /\ UNCHANGED <<img, mem, i>>

Next == Refuse \/ LoadOne \/ Finish

Spec == Init /\ [][Next]_vars
=============================================================================

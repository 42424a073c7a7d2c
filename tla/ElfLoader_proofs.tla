-------------------------- MODULE ElfLoader_proofs --------------------------
(***************************************************************************)
(* Proofs about ElfLoader, for every memory and every set of images.        *)
(***************************************************************************)
EXTENDS ElfLoader, WellFoundedInduction, TLAPS

\* Where the loader is in the image: it walks the headers of an image it has
\* accepted, and its loops stay within the sizes of the segment at hand.
LoopInv ==
  /\ i <= Len(img.phs)
  /\ pc = "magic" => i = 0 /\ result = -1
  /\ pc \in {"phdr", "copy", "zero"} =>
       img.magic /\ img.class \in {1, 2} /\ result = -1
  /\ pc \in {"copy", "zero"} => i < Len(img.phs) /\ Segment.type = PT_LOAD
  /\ pc = "copy" => b <= Segment.filesz
  /\ pc = "zero" => Segment.filesz <= z /\ z <= Segment.memsz

IInv == TypeOK /\ LoopInv /\ OnlyTargetsWritten

\* The program header at hand is one of the image's.
LEMMA HeaderFacts ==
  ASSUME TypeOK, i < Len(img.phs)
  PROVE  i + 1 \in 1 .. Len(img.phs) /\ Segment \in Phdr
  <1>1. img \in Image /\ img.phs \in Seq(Phdr) /\ i \in Nat
    BY ImageAssumption DEF TypeOK, Image
  <1>2. i + 1 \in 1 .. Len(img.phs)
    BY <1>1
  <1> QED BY <1>1, <1>2 DEF Segment

\* The segment at hand, its sizes as numbers, and its place in memory.
LEMMA SegmentFacts ==
  ASSUME TypeOK, LoopInv, pc \in {"copy", "zero"}
  PROVE  /\ Segment.paddr \in Nat /\ Segment.offset \in Nat
         /\ Segment.filesz \in Nat /\ Segment.memsz \in Nat
         /\ i + 1 \in LoadSegments(img)
         /\ Segment = img.phs[i + 1]
         /\ Source(Segment) \subseteq Addr
         /\ Target(Segment) \subseteq Addr
  <1>1. i + 1 \in 1 .. Len(img.phs) /\ Segment = img.phs[i + 1]
    BY HeaderFacts DEF LoopInv, Segment
  <1>3. Segment \in Phdr
    BY HeaderFacts DEF LoopInv
  <1>4. i + 1 \in LoadSegments(img)
    BY <1>1 DEF LoadSegments, LoopInv
  <1>5. Source(Segment) \subseteq Addr /\ Target(Segment) \subseteq Addr
    BY <1>1, <1>4, ImageAssumption DEF TypeOK
  <1> QED BY <1>1, <1>3, <1>4, <1>5 DEF Phdr

\* The image and Addr do not change, so neither does the segment at hand until
\* the loop moves to the next header.
LEMMA SameSegment ==
  ASSUME img' = img, i' = i PROVE Segment' = Segment
  BY DEF Segment

\* A chunk of the copy that ends within p_filesz reads bytes of the segment and
\* writes bytes of its target.
LEMMA CopyChunkKeepsIInv ==
  ASSUME IInv, pc = "copy", NEW n \in {1, 4}, b + n <= Segment.filesz, CopyChunk(n)
  PROVE  IInv'
  <1> DEFINE s == Segment
  <1>1. /\ s.paddr \in Nat /\ s.offset \in Nat /\ s.filesz \in Nat /\ s.memsz \in Nat
        /\ i + 1 \in LoadSegments(img) /\ s = img.phs[i + 1]
        /\ Source(s) \subseteq Addr /\ Target(s) \subseteq Addr
    BY SegmentFacts DEF IInv
  <1>2. b \in Nat /\ b + n \in Nat /\ mem \in [Addr -> Nat] /\ Base \in Nat
    BY MemoryAssumption DEF IInv, TypeOK
  <1>3. UNCHANGED <<img, pc, i, z, result, segMem>> /\ b' = b + n
    BY DEF CopyChunk
  <1>4. mem' = [a \in Addr |-> IF a \in s.paddr + b .. s.paddr + b + n - 1
                               THEN mem[Base + s.offset + (a - s.paddr)]
                               ELSE mem[a]]
    BY DEF CopyChunk
  <1>5. \A a \in s.paddr + b .. s.paddr + b + n - 1 :
           Base + s.offset + (a - s.paddr) \in Source(s) /\ a \in Target(s)
    BY <1>1, <1>2 DEF Source, Target, CopyTarget
  <1> HIDE DEF s
  <1>6. mem' \in [Addr -> Nat]
    BY <1>1, <1>2, <1>4, <1>5
  <1>7. TypeOK'
    BY <1>2, <1>3, <1>6 DEF IInv, TypeOK
  <1>8. LoopInv'
    BY <1>3, SameSegment DEF IInv, LoopInv
  <1>9. OnlyTargetsWritten'
    <2> SUFFICES ASSUME NEW a \in Addr,
                        \A k \in LoadSegments(img) : a \notin Target(img.phs[k])
                 PROVE  mem'[a] = Mem0[a]
      BY <1>3 DEF OnlyTargetsWritten
    <2>1. a \notin Target(s)
      BY <1>1
    <2>2. mem'[a] = mem[a]
      BY <1>4, <1>5, <2>1
    <2> QED BY <2>2 DEF IInv, OnlyTargetsWritten
  <1> QED BY <1>7, <1>8, <1>9 DEF IInv

\* A chunk of zeros that ends within p_memsz writes bytes of the target.
LEMMA ZeroChunkKeepsIInv ==
  ASSUME IInv, pc = "zero", NEW n \in {1, 4}, z + n <= Segment.memsz, ZeroChunk(n)
  PROVE  IInv'
  <1> DEFINE s == Segment
  <1>1. /\ s.paddr \in Nat /\ s.filesz \in Nat /\ s.memsz \in Nat
        /\ i + 1 \in LoadSegments(img) /\ s = img.phs[i + 1]
    BY SegmentFacts DEF IInv
  <1>2. z \in Nat /\ z + n \in Nat /\ mem \in [Addr -> Nat] /\ s.filesz <= z
    BY DEF IInv, TypeOK, LoopInv
  <1>3. UNCHANGED <<img, pc, i, b, result, segMem>> /\ z' = z + n
    BY DEF ZeroChunk
  <1>4. mem' = [a \in Addr |-> IF a \in s.paddr + z .. s.paddr + z + n - 1
                               THEN 0 ELSE mem[a]]
    BY DEF ZeroChunk
  <1>5. \A a \in s.paddr + z .. s.paddr + z + n - 1 : a \in Target(s)
    BY <1>1, <1>2 DEF Target, ZeroTarget
  <1>6. LoopInv'
    <2>1. Segment' = Segment
      BY <1>3, SameSegment
    <2>2. Segment.filesz <= z + n
      BY <1>1, <1>2
    <2> QED BY <1>3, <2>1, <2>2 DEF IInv, LoopInv
  <1> HIDE DEF s
  <1>7. mem' \in [Addr -> Nat]
    BY <1>2, <1>4
  <1>8. TypeOK'
    BY <1>2, <1>3, <1>7 DEF IInv, TypeOK
  <1>9. OnlyTargetsWritten'
    <2> SUFFICES ASSUME NEW a \in Addr,
                        \A k \in LoadSegments(img) : a \notin Target(img.phs[k])
                 PROVE  mem'[a] = Mem0[a]
      BY <1>3 DEF OnlyTargetsWritten
    <2>1. a \notin Target(s)
      BY <1>1
    <2>2. mem'[a] = mem[a]
      BY <1>4, <1>5, <2>1
    <2> QED BY <2>2 DEF IInv, OnlyTargetsWritten
  <1> QED BY <1>6, <1>8, <1>9 DEF IInv

LEMMA InitIInv == Init => IInv
  <1> SUFFICES ASSUME Init PROVE IInv
    OBVIOUS
  <1>1. img \in Images /\ Len(img.phs) \in Nat
    BY ImageAssumption DEF Init, Image
  <1> QED BY <1>1, MemoryAssumption
          DEF Init, IInv, TypeOK, LoopInv, OnlyTargetsWritten

\* The steps that only move the loader along: memory is not written.
LEMMA ControlKeepsIInv ==
  ASSUME IInv, Reject \/ LoadElf32 \/ LoadElf64 \/ SkipHeader \/ BeginSegment
                 \/ BeginZero \/ NoZero \/ EndZero \/ ReturnEntry
  PROVE  IInv'
  <1>1. img \in Images /\ img.phs \in Seq(Phdr) /\ Len(img.phs) \in Nat
        /\ img.entry \in Nat /\ i \in Nat /\ b \in Nat /\ z \in Nat
    BY ImageAssumption DEF IInv, TypeOK, Image
  <1>2. img' = img /\ mem' = mem
    BY DEF Reject, LoadElf32, LoadElf64, Start, SkipHeader, BeginSegment,
       BeginZero, NoZero, EndZero, ReturnEntry
  <1>3. OnlyTargetsWritten'
    BY <1>2 DEF IInv, OnlyTargetsWritten
  <1>4. CASE Reject
    BY <1>1, <1>3, <1>4 DEF Reject, IInv, TypeOK, LoopInv
  <1>5. CASE LoadElf32 \/ LoadElf64
    BY <1>1, <1>3, <1>5 DEF LoadElf32, LoadElf64, Start, IInv, TypeOK, LoopInv
  <1>6. CASE SkipHeader
    BY <1>1, <1>3, <1>6 DEF SkipHeader, NextHeader, IInv, TypeOK, LoopInv
  <1>7. CASE BeginSegment
    <2>1. Segment' = Segment /\ i < Len(img.phs) /\ Segment.type = PT_LOAD
      BY <1>7, SameSegment DEF BeginSegment
    <2>2. Segment \in Phdr
      BY <2>1, HeaderFacts DEF IInv
    <2>3. Segment.filesz \in Nat
      BY <2>2 DEF Phdr
    <2> QED BY <1>1, <1>3, <1>7, <2>1, <2>3 DEF BeginSegment, IInv, TypeOK, LoopInv
  <1>8. CASE BeginZero
    <2>1. Segment' = Segment /\ Segment.filesz \in Nat /\ Segment.memsz \in Nat
      BY <1>8, SameSegment, SegmentFacts DEF BeginZero, IInv
    <2> QED BY <1>1, <1>3, <1>8, <2>1 DEF BeginZero, IInv, TypeOK, LoopInv
  <1>9. CASE NoZero \/ EndZero
    BY <1>1, <1>3, <1>9 DEF NoZero, EndZero, NextHeader, IInv, TypeOK, LoopInv
  <1>10. CASE ReturnEntry
    BY <1>1, <1>3, <1>10 DEF ReturnEntry, IInv, TypeOK, LoopInv
  <1> QED BY <1>4, <1>5, <1>6, <1>7, <1>8, <1>9, <1>10

LEMMA NextIInv == ASSUME IInv, [Next]_vars PROVE IInv'
  <1>1. pc \in {"copy", "zero"} =>
          Segment.filesz \in Nat /\ Segment.memsz \in Nat /\ b \in Nat /\ z \in Nat
    BY SegmentFacts DEF IInv, TypeOK
  <1>2. CASE CopyWord
    BY <1>1, <1>2, CopyChunkKeepsIInv DEF CopyWord
  <1>3. CASE CopyByte
    BY <1>1, <1>3, CopyChunkKeepsIInv DEF CopyByte
  <1>4. CASE ZeroWord
    BY <1>1, <1>4, ZeroChunkKeepsIInv DEF ZeroWord
  <1>5. CASE ZeroByte
    BY <1>1, <1>5, ZeroChunkKeepsIInv DEF ZeroByte
  <1>6. CASE UNCHANGED vars
    BY <1>6 DEF vars, IInv, TypeOK, LoopInv, OnlyTargetsWritten, Segment
  <1> QED BY <1>2, <1>3, <1>4, <1>5, <1>6, ControlKeepsIInv DEF Next

\* The loader writes nothing but the targets of the image's loadable segments,
\* whatever their sizes and however they overlap one another or the image.
THEOREM WritesOnlyTargets == Spec => [](TypeOK /\ OnlyTargetsWritten)
  <1>1. IInv => TypeOK /\ OnlyTargetsWritten
    BY DEF IInv
  <1> QED BY <1>1, InitIInv, NextIInv, PTL DEF Spec

\* The loader's state keeps its types, whatever the program headers say: its loops
\* count with numbers, and memory has a value at the same addresses throughout.
THEOREM LoaderTypeCorrect == Spec => []TypeOK
  BY WritesOnlyTargets, PTL

-----------------------------------------------------------------------------
(* The loader implements SegmentLoad *)

\* What memory holds while a segment is being loaded: the bytes copied and the
\* zeros written so far, and below them the memory the segment was begun with.
CopiedSoFar(n, a) ==
  IF a \in Segment.paddr .. Segment.paddr + n - 1
  THEN segMem[Base + Segment.offset + (a - Segment.paddr)]
  ELSE segMem[a]

ZeroedSoFar(n, a) ==
  IF a \in Segment.paddr + Segment.filesz .. Segment.paddr + n - 1
  THEN 0 ELSE CopiedSoFar(Segment.filesz, a)

DataInv ==
  /\ pc = "copy" => \A a \in Addr : mem[a] = CopiedSoFar(b, a)
  /\ pc = "zero" => \A a \in Addr : mem[a] = ZeroedSoFar(z, a)

\* A safe segment's next chunk is read from bytes the copy has not yet written.
LEMMA CopyChunkKeepsData ==
  ASSUME AllSafe, IInv, DataInv, pc = "copy",
         NEW n \in {1, 4}, b + n <= Segment.filesz, CopyChunk(n)
  PROVE  DataInv'
  <1> DEFINE s == Segment
  <1>1. /\ s.paddr \in Nat /\ s.offset \in Nat /\ s.filesz \in Nat
        /\ Source(s) \subseteq Addr
    BY SegmentFacts DEF IInv
  <1>2. b \in Nat /\ Base \in Nat
    BY MemoryAssumption DEF IInv, TypeOK
  <1>3. /\ pc' = "copy" /\ segMem' = segMem /\ b' = b + n /\ Segment' = Segment
    BY SameSegment DEF CopyChunk
  <1>4. mem' = [a \in Addr |-> IF a \in s.paddr + b .. s.paddr + b + n - 1
                               THEN mem[Base + s.offset + (a - s.paddr)]
                               ELSE mem[a]]
    BY DEF CopyChunk
  <1>5. s.paddr <= Base + s.offset \/ s.paddr >= Base + s.offset + s.filesz
    BY SegmentFacts DEF AllSafe, SafeOverlap, IInv, TypeOK
  <1>6. ASSUME NEW a \in Addr PROVE mem'[a] = CopiedSoFar(b + n, a)
    <2> DEFINE src == Base + s.offset + (a - s.paddr)
    <2>0. a \in Int
      BY MemoryAssumption
    <2>1. CASE a \in s.paddr + b .. s.paddr + b + n - 1
      <3>1. src \in Source(s) /\ src \in Int
        BY <1>1, <1>2, <2>0, <2>1 DEF Source
      <3>2. src \notin s.paddr .. s.paddr + b - 1
        BY <1>1, <1>2, <1>5, <2>0, <2>1
      <3>3. mem[src] = segMem[src]
        BY <1>1, <3>1, <3>2 DEF DataInv, CopiedSoFar
      <3>4. mem'[a] = mem[src]
        BY <1>4, <2>1
      <3>5. a \in s.paddr .. s.paddr + (b + n) - 1
        BY <1>1, <1>2, <2>0, <2>1
      <3> QED BY <3>3, <3>4, <3>5 DEF CopiedSoFar
    <2>2. CASE a \notin s.paddr + b .. s.paddr + b + n - 1
      <3>1. mem'[a] = mem[a]
        BY <1>4, <2>2
      <3>2. a \in s.paddr .. s.paddr + b - 1 <=> a \in s.paddr .. s.paddr + (b + n) - 1
        BY <1>1, <1>2, <2>0, <2>2
      <3> QED BY <3>1, <3>2 DEF DataInv, CopiedSoFar
    <2> QED BY <2>1, <2>2
  <1> QED BY <1>3, <1>6 DEF DataInv, CopiedSoFar

LEMMA ZeroChunkKeepsData ==
  ASSUME IInv, DataInv, pc = "zero",
         NEW n \in {1, 4}, z + n <= Segment.memsz, ZeroChunk(n)
  PROVE  DataInv'
  <1> DEFINE s == Segment
  <1>1. s.paddr \in Nat /\ s.filesz \in Nat /\ s.memsz \in Nat
    BY SegmentFacts DEF IInv
  <1>2. z \in Nat /\ s.filesz <= z
    BY DEF IInv, TypeOK, LoopInv
  <1>3. /\ pc' = "zero" /\ segMem' = segMem /\ z' = z + n /\ Segment' = Segment
    BY SameSegment DEF ZeroChunk
  <1>4. mem' = [a \in Addr |-> IF a \in s.paddr + z .. s.paddr + z + n - 1
                               THEN 0 ELSE mem[a]]
    BY DEF ZeroChunk
  <1>5. ASSUME NEW a \in Addr PROVE mem'[a] = ZeroedSoFar(z + n, a)
    <2>0. a \in Int
      BY MemoryAssumption
    <2>1. CASE a \in s.paddr + z .. s.paddr + z + n - 1
      <3>1. a \in s.paddr + s.filesz .. s.paddr + (z + n) - 1
        BY <1>1, <1>2, <2>0, <2>1
      <3> QED BY <1>4, <2>1, <3>1 DEF ZeroedSoFar
    <2>2. CASE a \notin s.paddr + z .. s.paddr + z + n - 1
      <3>1. mem'[a] = mem[a]
        BY <1>4, <2>2
      <3>2. a \in s.paddr + s.filesz .. s.paddr + z - 1
              <=> a \in s.paddr + s.filesz .. s.paddr + (z + n) - 1
        BY <1>1, <1>2, <2>0, <2>2
      <3> QED BY <3>1, <3>2 DEF DataInv, ZeroedSoFar
    <2> QED BY <2>1, <2>2
  <1> QED BY <1>3, <1>5 DEF DataInv, ZeroedSoFar, CopiedSoFar

LEMMA NextDataInv ==
  ASSUME AllSafe, IInv, DataInv, [Next]_vars PROVE DataInv'
  <1>1. pc \in {"copy", "zero"} =>
          /\ Segment.paddr \in Nat /\ Segment.filesz \in Nat
          /\ Segment.memsz \in Nat /\ b \in Nat /\ z \in Nat
    BY SegmentFacts DEF IInv, TypeOK
  <1>2. CASE CopyWord
    BY <1>1, <1>2, CopyChunkKeepsData DEF CopyWord
  <1>3. CASE CopyByte
    BY <1>1, <1>3, CopyChunkKeepsData DEF CopyByte
  <1>4. CASE ZeroWord
    BY <1>1, <1>4, ZeroChunkKeepsData DEF ZeroWord
  <1>5. CASE ZeroByte
    BY <1>1, <1>5, ZeroChunkKeepsData DEF ZeroByte
  <1>6. CASE BeginSegment
    <2>1. /\ pc' = "copy" /\ b' = 0 /\ segMem' = mem /\ mem' = mem
          /\ Segment' = Segment
      BY <1>6, SameSegment DEF BeginSegment
    <2>2. Segment.paddr \in Nat
      <3>1. Segment \in Phdr
        BY <1>6, HeaderFacts DEF BeginSegment, IInv
      <3> QED BY <3>1 DEF Phdr
    <2> QED BY <2>1, <2>2 DEF DataInv, CopiedSoFar
  <1>7. CASE BeginZero
    <2>1. /\ pc = "copy" /\ pc' = "zero" /\ z' = Segment.filesz /\ mem' = mem
          /\ segMem' = segMem /\ Segment' = Segment /\ b >= Segment.filesz
      BY <1>7, SameSegment DEF BeginZero
    <2>2. b = Segment.filesz
      BY <1>1, <2>1 DEF IInv, LoopInv
    <2>3. \A a : a \notin Segment.paddr + Segment.filesz
                            .. Segment.paddr + Segment.filesz - 1
      BY <1>1, <2>1
    <2> QED BY <2>1, <2>2, <2>3 DEF DataInv, ZeroedSoFar, CopiedSoFar
  <1>8. CASE Reject \/ LoadElf32 \/ LoadElf64 \/ SkipHeader \/ NoZero \/ EndZero
               \/ ReturnEntry
    BY <1>8 DEF DataInv, Reject, LoadElf32, LoadElf64, Start, SkipHeader, NoZero,
       EndZero, NextHeader, ReturnEntry
  <1>9. CASE UNCHANGED vars
    BY <1>9 DEF vars, DataInv, ZeroedSoFar, CopiedSoFar, Segment
  <1> QED BY <1>2, <1>3, <1>4, <1>5, <1>6, <1>7, <1>8, <1>9 DEF Next

LEMMA StepSimulation ==
  ASSUME AllSafe, IInv, DataInv, [Next]_vars
  PROVE  [Promise!Next]_(Promise!vars)
  <1> DEFINE bar == IF pc \in {"copy", "zero"} THEN segMem ELSE mem
  <1>1. pc \in {"copy", "zero"} =>
          /\ Segment.paddr \in Nat /\ Segment.filesz \in Nat
          /\ Segment.memsz \in Nat /\ b \in Nat /\ z \in Nat
    BY SegmentFacts DEF IInv, TypeOK
  <1>2. mem \in [Addr -> Nat] /\ segMem \in [Addr -> Nat] /\ Addr \subseteq Int
    BY MemoryAssumption DEF IInv, TypeOK
  <1>3. ASSUME CopyWord \/ CopyByte \/ ZeroWord \/ ZeroByte \/ BeginZero
        PROVE  UNCHANGED Promise!vars
    BY <1>3 DEF CopyWord, CopyByte, ZeroWord, ZeroByte, CopyChunk, ZeroChunk,
       BeginZero, Promise!vars
  <1>4. ASSUME LoadElf32 \/ LoadElf64 \/ BeginSegment PROVE UNCHANGED Promise!vars
    BY <1>4 DEF LoadElf32, LoadElf64, Start, BeginSegment, Promise!vars
  <1>5. ASSUME Reject PROVE Promise!Refuse
    BY <1>5 DEF Reject, Promise!Refuse, IInv, LoopInv
  <1>6. ASSUME SkipHeader PROVE Promise!LoadOne
    BY <1>6 DEF SkipHeader, NextHeader, Segment, IInv, LoopInv, Promise!LoadOne,
       Promise!Accepted, Promise!Segment
  <1>7. ASSUME NoZero \/ EndZero PROVE Promise!LoadOne
    <2>1. /\ pc \in {"copy", "zero"} /\ pc' = "phdr" /\ i' = i + 1
          /\ UNCHANGED <<img, mem, result>>
      BY <1>7 DEF NoZero, EndZero, NextHeader
    <2>2. /\ img.magic /\ img.class \in {1, 2} /\ result = -1
          /\ i < Len(img.phs) /\ Segment.type = PT_LOAD
          /\ Segment = Promise!Segment
      BY <2>1 DEF IInv, LoopInv, Segment, Promise!Segment
    <2>3. ASSUME NEW a \in Addr PROVE mem[a] = Promise!Loaded(segMem, Segment)[a]
      <3>1. CASE NoZero
        <4>1. b = Segment.filesz /\ Segment.memsz <= Segment.filesz /\ pc = "copy"
          BY <1>1, <3>1 DEF NoZero, IInv, LoopInv
        <4>2. a \notin Segment.paddr + Segment.filesz
                         .. Segment.paddr + Segment.memsz - 1
          BY <1>1, <4>1
        <4> QED BY <4>1, <4>2 DEF DataInv, CopiedSoFar, Promise!Loaded
      <3>2. CASE EndZero
        <4>1. /\ z = Segment.memsz /\ Segment.filesz <= z /\ pc = "zero"
          BY <1>1, <3>2 DEF EndZero, IInv, LoopInv
        <4>2. ~(/\ a \in Segment.paddr + Segment.filesz .. Segment.paddr + z - 1
                /\ a \in Segment.paddr .. Segment.paddr + Segment.filesz - 1)
          BY <1>1, <4>1
        <4> QED BY <4>1, <4>2 DEF DataInv, ZeroedSoFar, CopiedSoFar, Promise!Loaded
      <3> QED BY <1>7, <3>1, <3>2
    <2>4. mem = Promise!Loaded(segMem, Segment)
      BY <1>2, <2>3 DEF Promise!Loaded
    <2> QED BY <2>1, <2>2, <2>4 DEF Promise!LoadOne, Promise!Accepted
  <1>8. ASSUME ReturnEntry PROVE Promise!Finish
    <2>1. i \in Nat /\ Len(img.phs) \in Nat
      BY ImageAssumption DEF IInv, TypeOK, Image
    <2> QED BY <1>8, <2>1 DEF ReturnEntry, IInv, LoopInv, Promise!Finish,
            Promise!Accepted
  <1>9. ASSUME UNCHANGED vars PROVE UNCHANGED Promise!vars
    BY <1>9 DEF vars, Promise!vars
  <1> QED BY <1>3, <1>4, <1>5, <1>6, <1>7, <1>8, <1>9 DEF Next, Promise!Next

\* When every segment that overlaps its own bytes in the image moves down, the
\* word-by-word loader implements the atomic one: each segment arrives whole,
\* its BSS zero, and load_elf returns the entry point after the last.
THEOREM LoaderImplementsSegmentLoad == AllSafe => (Spec => ImplementsSegmentLoad)
  <1> SUFFICES ASSUME AllSafe PROVE Spec => ImplementsSegmentLoad
    OBVIOUS
  <1>1. Init => IInv /\ DataInv /\ Promise!Init
    BY InitIInv DEF Init, DataInv, Promise!Init
  <1>2. IInv /\ DataInv /\ [Next]_vars => IInv' /\ DataInv'
    BY NextIInv, NextDataInv
  <1>3. IInv /\ DataInv /\ [Next]_vars => [Promise!Next]_(Promise!vars)
    BY StepSimulation
  <1> QED BY <1>1, <1>2, <1>3, PTL DEF Spec, ImplementsSegmentLoad, Promise!Spec

-----------------------------------------------------------------------------
(* The loader comes nearer to its end with every step *)

Less == OpToRel(<, Nat)
PhaseAndBytesOrder == LexPairOrdering(Less, Less, Nat, Nat)
RankOrder == LexPairOrdering(Less, PhaseAndBytesOrder, Nat, Nat \X Nat)

LEMMA RankOrderWellFounded == IsWellFoundedOn(RankOrder, Nat \X (Nat \X Nat))
  <1>1. IsWellFoundedOn(PhaseAndBytesOrder, Nat \X Nat)
    BY NatLessThanWellFounded, WFLexPairOrdering DEF Less, PhaseAndBytesOrder
  <1> QED BY <1>1, NatLessThanWellFounded, WFLexPairOrdering DEF Less, RankOrder

\* What is still to do: headers, then the parts of the one at hand, then bytes.
HeadersLeft == Len(img.phs) - i
PhasesLeft ==
  CASE pc = "magic" -> 4 [] pc = "phdr" -> 3 [] pc = "copy" -> 2 [] pc = "zero" -> 1
    [] pc = "done" -> 0
BytesLeft ==
  IF pc = "copy" THEN Segment.filesz - b
  ELSE IF pc = "zero" THEN Segment.memsz - z ELSE 0

Rank == <<HeadersLeft, <<PhasesLeft, BytesLeft>>>>
RankTyped == HeadersLeft \in Nat /\ PhasesLeft \in Nat /\ BytesLeft \in Nat
RankLowered == <<Rank', Rank>> \in RankOrder

LEMMA RankType == ASSUME IInv PROVE RankTyped
  <1>1. i \in Nat /\ Len(img.phs) \in Nat /\ i <= Len(img.phs)
    BY ImageAssumption DEF IInv, TypeOK, LoopInv, Image
  <1>2. PhasesLeft \in Nat
    BY Zenon DEF IInv, TypeOK, PhasesLeft
  <1>3. BytesLeft \in Nat
    <2>1. pc \in {"copy", "zero"} =>
            /\ Segment.filesz \in Nat /\ Segment.memsz \in Nat
            /\ b \in Nat /\ z \in Nat
      BY SegmentFacts DEF IInv, TypeOK
    <2> QED BY <2>1 DEF BytesLeft, IInv, LoopInv
  <1> QED BY <1>1, <1>2, <1>3 DEF HeadersLeft, RankTyped

\* Each step leaves fewer headers, or as many and fewer phases of the one at hand,
\* or as many of both and fewer bytes.
LEMMA StepLeavesLess ==
  ASSUME IInv, Next
  PROVE  \/ HeadersLeft' < HeadersLeft
         \/ HeadersLeft' = HeadersLeft /\ PhasesLeft' < PhasesLeft
         \/ /\ HeadersLeft' = HeadersLeft /\ PhasesLeft' = PhasesLeft
            /\ BytesLeft' < BytesLeft
  <1>1. i \in Nat /\ Len(img.phs) \in Nat
    BY ImageAssumption DEF IInv, TypeOK, Image
  <1>2. pc \in {"copy", "zero"} =>
          /\ Segment.filesz \in Nat /\ Segment.memsz \in Nat
          /\ b \in Nat /\ z \in Nat
    BY SegmentFacts DEF IInv, TypeOK
  <1>3. /\ pc = "magic" => PhasesLeft = 4
        /\ pc = "phdr" => PhasesLeft = 3
        /\ pc = "copy" => PhasesLeft = 2
        /\ pc = "zero" => PhasesLeft = 1
    BY Zenon DEF PhasesLeft
  <1>4. /\ pc' = "phdr" => PhasesLeft' = 3
        /\ pc' = "copy" => PhasesLeft' = 2
        /\ pc' = "zero" => PhasesLeft' = 1
        /\ pc' = "done" => PhasesLeft' = 0
    BY Zenon DEF PhasesLeft
  <1>5. CASE Reject \/ LoadElf32 \/ LoadElf64 \/ BeginSegment \/ BeginZero \/ ReturnEntry
    <2>1. img' = img /\ i' = i
      BY <1>5 DEF Reject, LoadElf32, LoadElf64, Start, BeginSegment, BeginZero, ReturnEntry
    <2>2. \/ pc = "magic" /\ pc' \in {"phdr", "done"}
          \/ pc = "phdr" /\ pc' \in {"copy", "done"}
          \/ pc = "copy" /\ pc' = "zero"
      BY <1>5 DEF Reject, LoadElf32, LoadElf64, Start, BeginSegment, BeginZero, ReturnEntry
    <2> QED BY <1>3, <1>4, <2>1, <2>2 DEF HeadersLeft
  <1>6. CASE SkipHeader \/ NoZero \/ EndZero
    <2>1. img' = img /\ i' = i + 1
      BY <1>6 DEF SkipHeader, NoZero, EndZero, NextHeader
    <2> QED BY <1>1, <2>1 DEF HeadersLeft
  <1>7. CASE CopyWord \/ CopyByte
    <2>1. /\ pc = "copy" /\ pc' = "copy" /\ img' = img /\ i' = i
          /\ b' = b + 4 \/ b' = b + 1
      BY <1>7 DEF CopyWord, CopyByte, CopyChunk
    <2>2. Segment' = Segment
      BY <2>1, SameSegment
    <2> QED BY <1>2, <1>3, <1>4, <2>1, <2>2 DEF HeadersLeft, BytesLeft
  <1>8. CASE ZeroWord \/ ZeroByte
    <2>1. /\ pc = "zero" /\ pc' = "zero" /\ img' = img /\ i' = i
          /\ z' = z + 4 \/ z' = z + 1
      BY <1>8 DEF ZeroWord, ZeroByte, ZeroChunk
    <2>2. Segment' = Segment
      BY <2>1, SameSegment
    <2> QED BY <1>2, <1>3, <1>4, <2>1, <2>2 DEF HeadersLeft, BytesLeft
  <1> QED BY <1>5, <1>6, <1>7, <1>8 DEF Next

\* The loader cannot go on for ever: whatever the sizes and the number of the
\* program headers, every step lowers a rank that cannot be lowered for ever.  With
\* the fairness of FairSpec, this is why load_elf returns.
THEOREM LoaderNearsItsEnd ==
  /\ IsWellFoundedOn(RankOrder, Nat \X (Nat \X Nat))
  /\ Spec => [][RankLowered]_vars
  <1>1. IInv => RankTyped
    BY RankType
  <1>2. ASSUME IInv, RankTyped, RankTyped', [Next]_vars PROVE [RankLowered]_vars
    <2> SUFFICES ASSUME Next PROVE RankLowered
      BY <1>2
    <2> DEFINE h == HeadersLeft  p == PhasesLeft  n == BytesLeft
    <2>1. h' < h \/ (h' = h /\ p' < p) \/ (h' = h /\ p' = p /\ n' < n)
      BY <1>2, StepLeavesLess
    <2> QED BY <1>2, <2>1
            DEF Rank, RankTyped, RankLowered, RankOrder, PhaseAndBytesOrder, Less,
                LexPairOrdering, OpToRel
  <1> QED BY <1>1, <1>2, RankOrderWellFounded, InitIInv, NextIInv, PTL DEF Spec

=============================================================================

------------------------------- MODULE Handoff -------------------------------
(***************************************************************************)
(* src/handoff.sage and the end of stage1_entry: the SAGEOSBI structure, the *)
(* command line, and the pointer the kernel is given, through the pointers   *)
(* of the patched runtime.  Offsets are those of the 32-bit builds in words  *)
(* of four bytes; an 8-byte field is its value in the first of two words.    *)
(***************************************************************************)
EXTENDS Pointers, Sequences

CONSTANTS
  Words,        \* of the structure: 96 bytes
  Magic,        \* "OSBI" and "SAGE"
  Phys, Virt, KernelSize,  \* what set_kernel is told
  MapStart, MapLength,     \* what set_mmap is told
  Cmdline                  \* the words of the command line

VARIABLES
  pc,           \* the step of stage1_entry
  info,         \* handoff_addr; 0 when mem_alloc returned nil
  cmdline_ptr,
  done          \* the words written in this step

handoffVars == <<pc, info, cmdline_ptr, done>>
allVars == <<pointersVars, handoffVars>>

\* Where each field lies, by the table in create_handoff.
MmapField == 2
MmapSizeField == 4
CmdlineField == 13
PhysField == 15
VirtField == 17
SizeField == 19

-----------------------------------------------------------------------------
Goto(next) == pc' = next /\ done' = 0

\* mem_alloc fails: the heap has no room.
AllocFails(n) ==
  /\ brk + Block(Tracking) + Block(n) >= HeapMax
  /\ UNCHANGED pointersVars

\* A call of mem_write with any number at all.  What its runtime does with an
\* offset beyond the size in the structure is not known: it may refuse.
Poke(v, off, x) ==
  /\ UsePointer(v)
  /\ LET size == IF InHeap(v) THEN memory[v + 1] ELSE Top
         at == Target(v) + off
     IN  \/ memory' = IF at \in Address THEN [memory EXCEPT ![at] = x] ELSE memory
         \/ off >= size /\ UNCHANGED memory
  /\ UNCHANGED <<brk, given, stored>>

CreateHandoff ==
  /\ pc = "create"
  /\ \/ \E v \in Heap : MemAlloc(Words) /\ v \in DOMAIN given' \ DOMAIN given /\ info' = v
     \/ AllocFails(Words) /\ info' = 0
  /\ Goto(IF info' = 0 THEN "kernel" ELSE "clear")
  /\ UNCHANGED cmdline_ptr

\* The magic, and zeros behind it.
ClearHandoff ==
  /\ pc = "clear"
  /\ Poke(info, done, IF done < 2 THEN Magic[done + 1] ELSE 0)
  /\ IF done + 1 < Words THEN done' = done + 1 /\ pc' = pc ELSE Goto("kernel")
  /\ UNCHANGED <<info, cmdline_ptr>>

\* One field after the other is written at info + its offset.
SetFields(step, fields, next) ==
  /\ pc = step
  /\ Poke(info + fields[done + 1][1], 0, fields[done + 1][2])
  /\ IF done + 1 < Len(fields) THEN done' = done + 1 /\ pc' = pc ELSE Goto(next)
  /\ UNCHANGED <<info, cmdline_ptr>>

set_kernel ==
  SetFields("kernel", <<<<PhysField, Phys>>, <<VirtField, Virt>>, <<SizeField, KernelSize>>>>,
            "alloc")

AllocCmdline ==
  /\ pc = "alloc"
  /\ \/ \E v \in Heap : MemAlloc(Len(Cmdline))
                        /\ v \in DOMAIN given' \ DOMAIN given /\ cmdline_ptr' = v
     \/ AllocFails(Len(Cmdline)) /\ cmdline_ptr' = 0
  /\ Goto("copy")
  /\ UNCHANGED info

CopyCmdline ==
  /\ pc = "copy"
  /\ Poke(cmdline_ptr, done, Cmdline[done + 1])
  /\ IF done + 1 < Len(Cmdline) THEN done' = done + 1 /\ pc' = pc ELSE Goto("cmdline")
  /\ UNCHANGED <<info, cmdline_ptr>>

set_cmdline == SetFields("cmdline", <<<<CmdlineField, cmdline_ptr>>>>, "mmap")

set_mmap ==
  SetFields("mmap", <<<<MmapField, MapStart>>, <<MmapSizeField, MapLength>>>>, "jump")

\* The jump passes handoff_addr as it is.
BootKernel ==
  /\ pc = "jump"
  /\ Goto("booted")
  /\ UNCHANGED <<pointersVars, info, cmdline_ptr>>

HandoffInit ==
  /\ PointersInit
  /\ pc = "create" /\ info = 0 /\ cmdline_ptr = 0 /\ done = 0

HandoffNext ==
  \/ CreateHandoff \/ ClearHandoff \/ set_kernel
  \/ AllocCmdline \/ CopyCmdline \/ set_cmdline \/ set_mmap \/ BootKernel

HandoffSpec == HandoffInit /\ [][HandoffNext]_allVars

-----------------------------------------------------------------------------
\* The structure whose address the kernel is given is the one described: the magic
\* at its beginning, and the kernel's address at offset 60.
HandoffAsDocumented ==
  (pc = "booted" /\ info # 0) =>
    /\ memory[info] = Magic[1] /\ memory[info + 1] = Magic[2]
    /\ memory[info + PhysField] = Phys

\* No number the code writes is the address of a word in the heap, and there is
\* something to allocate.
NumbersApart ==
  /\ {Words, Len(Cmdline)} \subseteq AllocSizes
  /\ \A n \in {Words, Len(Cmdline), Tracking} : n + 1 < HeapStart
  /\ {Magic[1], Magic[2], Phys, Virt, KernelSize, MapStart, MapLength} \subseteq Nat \ Heap
  /\ \A n \in 1 .. Len(Cmdline) : Cmdline[n] \in Nat \ Heap

\* A kernel that looks for the magic at the address it is given does not find it.
MagicMissed == (pc = "booted" /\ info # 0) => memory[info] # Magic[1]
=============================================================================

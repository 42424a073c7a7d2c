------------------------------ MODULE MCStage1 ------------------------------
(***************************************************************************)
(* Stage1 on the memory maps of compat/compat.c, arch/*/config.sage and     *)
(* arch/*/linker.ld, relative to RAM_START.  The loader is taken to be 256  *)
(* KB; on the RP2040 and the RP2350 it is the stack section alone.          *)
(***************************************************************************)
EXTENDS Stage1

KB == 1024
At(lo, n) == [lo |-> lo, hi |-> lo + n]

x64 == [locate |-> "fat", ram_size |-> 128 * MB, heap_start |-> 31 * MB,
        heap_max |-> 63 * MB, loader |-> At(0, 256 * KB), load_addr |-> MB]
rv64 == [locate |-> "fat", ram_size |-> 128 * MB, heap_start |-> 16 * MB,
         heap_max |-> 32 * MB, loader |-> At(2 * MB, 256 * KB), load_addr |-> 2 * MB]
arm64 == [locate |-> "fat", ram_size |-> 128 * MB, heap_start |-> 16 * MB,
          heap_max |-> 32 * MB, loader |-> At(512 * KB, 256 * KB), load_addr |-> 2 * MB]
mips == [locate |-> "trx", ram_size |-> 32 * MB, heap_start |-> 8 * MB,
         heap_max |-> 32 * MB, loader |-> At(0, 256 * KB), load_addr |-> 8192]
rp2040 == [locate |-> "xip", ram_size |-> 264 * KB, heap_start |-> 4 * KB,
           heap_max |-> 256 * KB, loader |-> At(0, 16 * KB), load_addr |-> 24 * KB]
rp2350 == [rp2040 EXCEPT !.ram_size = 520 * KB, !.heap_max = 512 * KB]

AllMachines == {x64, rv64, arm64, mips, rp2040, rp2350}
FatMachines == {x64, rv64, arm64}

\* Files too small, ordinary, larger than a megabyte, and leaving the heap of rv64
\* and arm64 room for a handoff structure, or for nothing.
FileSizes == {40, 300 * KB, 2 * MB, 16 * MB - 260, 16 * MB - 90}

\* Segments at each load address, clear of everything, across a heap, and right
\* behind one.
Places == {At(m.load_addr, 200 * KB) : m \in AllMachines}
            \union {At(5 * MB, MB), At(16 * MB + 8, MB), At(31 * MB, MB),
                    At(32 * MB, MB)}

Kernels ==
  [size : FileSizes, elf : {TRUE}, entry : {5}, at : Places]
    \union {[size |-> 64, elf |-> e, entry |-> 0, at |-> At(5 * MB, MB)] :
              e \in BOOLEAN}
    \union {[size |-> -1, elf |-> TRUE, entry |-> 5, at |-> At(5 * MB, MB)]}

MCStores == [valid : BOOLEAN, files : {{}, {0, 2}}, payload : {FALSE}, kernel : Kernels]
            \union [valid : {FALSE}, files : {{}}, payload : {TRUE},
                    kernel : {k \in Kernels : k.size = 300 * KB}]

\* The volume holds a kernel file for every option.
FullStores == [valid : {TRUE}, files : {Options}, payload : {FALSE},
               kernel : {k \in Kernels : k.size = 300 * KB}]
=============================================================================

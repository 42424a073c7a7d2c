----------------------------- MODULE FatReader ------------------------------
(***************************************************************************)
(* src/fs_fat.sage, as bootloader.sage calls it: parse_fat_bpb on whatever  *)
(* lies at the image address, find_fat_file for the kernel's name, and      *)
(* load_fat_file of what was found, cluster after cluster along the FAT.    *)
(*                                                                         *)
(* The FAT is bytes, because its three entry widths are where a reader can  *)
(* go wrong; the bytes are laid out from the image's links by TableByte,    *)
(* the on-disk format.  A byte of file data is its own offset in the image. *)
(* An 8.3 name is a model value: find_fat_file folds case and drops the     *)
(* padding of both name fields before it compares.  The image lies outside  *)
(* the heap, where a number is the address it says: see Pointers.           *)
(***************************************************************************)
EXTENDS Integers, Sequences

CONSTANTS
  Images,     \* what may lie at the image address
  Names       \* the kernel names asked for

\* A directory entry: "end" (first byte 0), "deleted" (first byte 229), "lfn"
\* (attribute 15) or "named"; volume labels and directories are "named" too.
Entry == [kind : {"end", "deleted", "lfn", "named"}, name : Names,
          cluster : Nat, size : Nat]

\* An image: the BPB fields parse_fat_bpb reads; kind, the entry width it was
\* formatted with; links, the clusters with a FAT entry and what it holds; root,
\* the fixed root directory of FAT12 and FAT16; and chained_root, the root
\* directory in the cluster chain at BPB_RootClus, where FAT32 keeps it.
ImageFields ==
  {"sector_size", "sectors_per_cluster", "reserved_sectors", "num_fats",
   "root_entry_count", "total_sectors_16", "total_sectors_32", "fat_size_16",
   "fat_size_32", "kind", "links", "root", "chained_root"}

\* The values an entry of each width can hold.
EntryHolds(kind, v) ==
  \/ kind = "FAT12" /\ v < 4096
  \/ kind = "FAT16" /\ v < 65536
  \/ kind = "FAT32" /\ v < 268435456

ASSUME ImageAssumption ==
  \A m \in Images :
    /\ DOMAIN m = ImageFields
    /\ \A f \in ImageFields \ {"kind", "links", "root", "chained_root"} : m[f] \in Nat
    /\ m.kind \in {"FAT12", "FAT16", "FAT32"}
    /\ m.links \in [DOMAIN m.links -> Nat]
    /\ \A c \in DOMAIN m.links : EntryHolds(m.kind, m.links[c])
    /\ m.root \in Seq(Entry) /\ m.chained_root \in Seq(Entry)

VARIABLES
  img,              \* the image
  filename,         \* the name looked for
  pc,               \* "parse", "find", "alloc", "load" or "done"
  fat_type,         \* vol["fat_type"]
  entries_checked,  \* directory entries scanned
  file,             \* the file_info found, or NoFile
  cluster,          \* current_cluster
  buf,              \* the buffer: the source of every byte, -1 if not written
  bytes_read,
  ret               \* what the caller is left with: "none", "no_volume",
                    \* "not_found", "no_memory" or "loaded"

vars == <<img, filename, pc, fat_type, entries_checked, file, cluster, buf,
          bytes_read, ret>>

NoFile == [cluster |-> 0, size |-> 0]

-----------------------------------------------------------------------------
(* The FAT on disk *)

\* The entry of cluster c.
Link(c) == IF c \in DOMAIN img.links THEN img.links[c] ELSE 0

\* The n-th of the bytes of e, lowest first.
ByteOf(e, n) == (e \div 256 ^ n) % 256

\* FAT12 packs two entries in three bytes.
TableByte12(k) ==
  LET even == Link(2 * (k \div 3))
      odd == Link(2 * (k \div 3) + 1)
  IN  ByteOf(even + odd * 4096, k % 3)

\* The top four bits of a FAT32 entry are reserved and need not be zero.
TableByte32(k) == ByteOf(Link(k \div 4) + 268435456, k % 4)

\* Byte k of the table.
TableByte(k) ==
  CASE img.kind = "FAT12" -> TableByte12(k)
    [] img.kind = "FAT16" -> ByteOf(Link(k \div 2), k % 2)
    [] img.kind = "FAT32" -> TableByte32(k)

read_u16(off) == TableByte(off) + TableByte(off + 1) * 256

read_u32(off) ==
  TableByte(off) + TableByte(off + 1) * 256 + TableByte(off + 2) * 65536
    + TableByte(off + 3) * 16777216

-----------------------------------------------------------------------------
(* parse_fat_bpb *)

TotalSectors ==
  IF img.total_sectors_16 = 0 THEN img.total_sectors_32 ELSE img.total_sectors_16

FatSize == IF img.fat_size_16 = 0 THEN img.fat_size_32 ELSE img.fat_size_16

RootDirSectors ==
  (img.root_entry_count * 32 + img.sector_size - 1) \div img.sector_size

FirstDataSector ==
  img.reserved_sectors + img.num_fats * FatSize + RootDirSectors

\* | 0 rounds towards zero, also when the sectors do not even reach the data.
TotalClusters ==
  LET data_sectors == TotalSectors - FirstDataSector
  IN  IF data_sectors >= 0 THEN data_sectors \div img.sectors_per_cluster
      ELSE -((-data_sectors) \div img.sectors_per_cluster)

\* Fault: FAT12 has one cluster too many.
FaultFatType ==
  CASE TotalClusters <= 4085 -> "FAT12"
    [] TotalClusters > 4085 /\ TotalClusters < 65525 -> "FAT16"
    [] TotalClusters >= 65525 -> "FAT32"

FatType ==
  CASE TotalClusters < 4085 -> "FAT12"
    [] TotalClusters >= 4085 /\ TotalClusters < 65525 -> "FAT16"
    [] TotalClusters >= 65525 -> "FAT32"

\* What a division by zero sectors per cluster, converted to an integer, leaves
\* is undefined: any of the types.
FatTypes ==
  IF img.sectors_per_cluster = 0 THEN {"FAT12", "FAT16", "FAT32"} ELSE {FatType}

Finish(r) == pc' = "done" /\ ret' = r

NoVolume ==
  /\ pc = "parse"
  /\ img.sector_size = 0
  /\ Finish("no_volume")
  /\ UNCHANGED <<img, filename, fat_type, entries_checked, file, cluster, buf,
                 bytes_read>>

ParseBpb ==
  /\ pc = "parse"
  /\ img.sector_size # 0
  /\ fat_type' \in FatTypes
  /\ pc' = "find"
  /\ UNCHANGED <<img, filename, entries_checked, file, cluster, buf, bytes_read,
                 ret>>

-----------------------------------------------------------------------------
(* find_fat_file *)

\* The entry under scan; the area behind the last entry written is zero.
RootEntry(k) ==
  IF k < Len(img.root) THEN img.root[k + 1]
  ELSE [kind |-> "end", name |-> filename, cluster |-> 0, size |-> 0]

\* Fault: deleted entries and parts of long names match too.
FaultMatches(e) == e.name = filename

Matches(e) == e.kind = "named" /\ e.name = filename

Found ==
  /\ pc = "find"
  /\ entries_checked < img.root_entry_count
  /\ LET e == RootEntry(entries_checked) IN
     /\ Matches(e)
     /\ file' = [cluster |-> e.cluster, size |-> e.size]
  /\ pc' = "alloc"
  /\ UNCHANGED <<img, filename, fat_type, entries_checked, cluster, buf,
                 bytes_read, ret>>

NextEntry ==
  /\ pc = "find"
  /\ entries_checked < img.root_entry_count
  /\ RootEntry(entries_checked).kind # "end"
  /\ ~Matches(RootEntry(entries_checked))
  /\ entries_checked' = entries_checked + 1
  /\ UNCHANGED <<img, filename, pc, fat_type, file, cluster, buf, bytes_read, ret>>

NotFound ==
  /\ pc = "find"
  /\ \/ entries_checked >= img.root_entry_count
     \/ RootEntry(entries_checked).kind = "end"
  /\ Finish("not_found")
  /\ UNCHANGED <<img, filename, fat_type, entries_checked, file, cluster, buf,
                 bytes_read>>

-----------------------------------------------------------------------------
(* load_fat_file *)

\* mem_alloc returned nil; the caller gets 0 for an address and does not look.
AllocFails ==
  /\ pc = "alloc"
  /\ Finish("no_memory")
  /\ UNCHANGED <<img, filename, fat_type, entries_checked, file, cluster, buf,
                 bytes_read>>

AllocBuffer ==
  /\ pc = "alloc"
  /\ buf' = [k \in 1 .. file.size |-> -1]
  /\ cluster' = file.cluster
  /\ bytes_read' = 0
  /\ pc' = "load"
  /\ UNCHANGED <<img, filename, fat_type, entries_checked, file, ret>>

ClusterSize == img.sector_size * img.sectors_per_cluster

\* current_cluster >= 2 and current_cluster < 0xFFF0
InChain(c) == c >= 2 /\ c < 65520

\* Faults: the rest of the file is reckoned from its whole size; a cluster is
\* always copied whole; the rest is copied by whole words only.
FaultRestOfSize ==
  IF file.size - bytes_read < ClusterSize THEN file.size - ClusterSize
  ELSE ClusterSize
FaultWholeClusters == ClusterSize
FaultWholeWords ==
  IF file.size - bytes_read < ClusterSize THEN ((file.size - bytes_read) \div 4) * 4
  ELSE ClusterSize

ChunkSize ==
  IF file.size - bytes_read < ClusterSize THEN file.size - bytes_read
  ELSE ClusterSize

\* Where in the image cluster c begins.
ClusterOffset(c) ==
  (FirstDataSector + (c - 2) * img.sectors_per_cluster) * img.sector_size

\* The top four bits of a FAT32 entry are reserved.
Low28Bits(v) == v % 268435456

\* Fault: the odd entries of a FAT12 table are read like the even ones.
FaultNextCluster(c) ==
  CASE fat_type = "FAT16" -> read_u16(c * 2)
    [] fat_type = "FAT32" -> Low28Bits(read_u32(c * 4))
    [] fat_type = "FAT12" -> read_u16(c + c \div 2) % 4096

\* The cluster that the table says follows c.
NextCluster(c) ==
  CASE fat_type = "FAT16" -> read_u16(c * 2)
    [] fat_type = "FAT32" -> Low28Bits(read_u32(c * 4))
    [] fat_type = "FAT12" ->
         LET raw_val == read_u16(c + c \div 2)
         IN  IF c % 2 # 0 THEN raw_val \div 16 ELSE raw_val % 4096

\* One turn of the loop: the rest of the file or a whole cluster is copied; then
\* the load is over, or moves to the next cluster.
LoadCluster ==
  /\ pc = "load"
  /\ InChain(cluster)
  /\ buf' = [k \in 1 .. file.size |->
               IF k \in bytes_read + 1 .. bytes_read + ChunkSize
               THEN ClusterOffset(cluster) + k - bytes_read - 1 ELSE buf[k]]
  /\ bytes_read' = bytes_read + ChunkSize
  /\ \/ /\ bytes_read + ChunkSize >= file.size
        /\ Finish("loaded")
        /\ UNCHANGED cluster
     \/ /\ bytes_read + ChunkSize < file.size
        /\ cluster' = NextCluster(cluster)
        /\ UNCHANGED <<pc, ret>>
  /\ UNCHANGED <<img, filename, fat_type, entries_checked, file>>

\* The chain ended before the file did: the buffer is returned as it is.
ChainEnds ==
  /\ pc = "load"
  /\ ~InChain(cluster)
  /\ Finish("loaded")
  /\ UNCHANGED <<img, filename, fat_type, entries_checked, file, cluster, buf,
                 bytes_read>>

-----------------------------------------------------------------------------
Init ==
  /\ img \in Images
  /\ filename \in Names
  /\ pc = "parse"
  /\ fat_type = "FAT16"
  /\ entries_checked = 0
  /\ file = NoFile
  /\ cluster = 0
  /\ buf = <<>>
  /\ bytes_read = 0
  /\ ret = "none"

Next ==
  \/ NoVolume \/ ParseBpb
  \/ Found \/ NextEntry \/ NotFound
  \/ AllocFails \/ AllocBuffer \/ LoadCluster \/ ChainEnds

Spec == Init /\ [][Next]_vars

\* One thread runs the reader; nothing can keep it from its next step.
FairSpec == Spec /\ WF_vars(Next)

-----------------------------------------------------------------------------
(* Properties *)

\* Type correctness of the reader's state.
TypeOK ==
  /\ pc \in {"parse", "find", "alloc", "load", "done"}
  /\ fat_type \in {"FAT12", "FAT16", "FAT32"}
  /\ entries_checked \in Nat /\ cluster \in Nat /\ bytes_read \in Nat
  /\ file \in [cluster : Nat, size : Nat]
  /\ buf \in Seq(Int)
  /\ ret \in {"none", "no_volume", "not_found", "no_memory", "loaded"}

\* However wrong the FAT and the directory entry are, the copy never leaves the
\* buffer that was allocated for the file's size: bytes_read, where the next bytes
\* go, does not pass its end.
CopyWithinBuffer ==
  (pc = "load" \/ ret = "loaded") =>
     (DOMAIN buf = 1 .. file.size /\ bytes_read <= file.size)

\* A volume with a cluster size is read to an end, cyclic chains included.
ReaderReturns == (img.sectors_per_cluster > 0) ~> (pc = "done")

\* The width of entry that the FAT standard gives a volume of n clusters.
Standard(n, kind) ==
  \/ n < 4085 /\ kind = "FAT12"
  \/ n \in 4085 .. 65524 /\ kind = "FAT16"
  \/ n > 65524 /\ kind = "FAT32"

\* A volume as it is formatted: its sectors make n clusters and a rest too short
\* for one more, and its entries have the width for n clusters.
Formatted ==
  \E n, rest \in Nat :
    /\ rest < img.sectors_per_cluster
    /\ TotalSectors = FirstDataSector + n * img.sectors_per_cluster + rest
    /\ Standard(n, img.kind)

\* The type deduced from the cluster count is the one the volume was formatted
\* with, at the counts where the types meet too.
TypeDetected ==
  (pc \in {"find", "alloc", "load"} /\ img.sectors_per_cluster > 0) =>
     fat_type = img.kind

\* The live entries of the fixed root directory: those before the end mark.
LiveRoot ==
  {k \in 1 .. Len(img.root) :
     /\ k <= img.root_entry_count
     /\ \A j \in 1 .. k : img.root[j].kind # "end"}

\* The file loaded is the first live entry of that name, wherever deleted
\* entries and parts of long names lie around it; none is found only if there
\* is none.
FindsFirstLiveEntry ==
  /\ ret = "not_found" => \A k \in LiveRoot : ~Matches(img.root[k])
  /\ pc \in {"alloc", "load"} =>
       \E k \in LiveRoot :
          /\ Matches(img.root[k])
          /\ file = [cluster |-> img.root[k].cluster, size |-> img.root[k].size]
          /\ \A j \in LiveRoot : j < k => ~Matches(img.root[j])

\* A kernel that is in the volume's root directory is found, whatever the type
\* of the volume.
KernelOnVolumeFound ==
  ret = "not_found" =>
    /\ \A k \in LiveRoot : ~Matches(img.root[k])
    /\ \A k \in 1 .. Len(img.chained_root) : ~Matches(img.chained_root[k])

\* The k-th cluster of the file, following the volume's links.
FileCluster(n) ==
  LET at[k \in 0 .. n] == IF k = 0 THEN file.cluster ELSE Link(at[k - 1])
  IN  at

\* The clusters the file's bytes need are all there, in the data area, and none of
\* them is among those from 0xFFF0 on, which the loop takes for the chain's end.
ChainHolds ==
  LET last == (file.size - 1) \div ClusterSize
  IN  \A k \in 0 .. last :
        LET c == FileCluster(last)[k] IN c \in 2 .. TotalClusters + 1 /\ InChain(c)

\* A file whose chain holds its size is loaded whole: byte k of the buffer is
\* byte k of the chain, across cluster borders and table formats.
WholeFileLoaded ==
  (ret = "loaded" /\ img.sectors_per_cluster > 0 /\ file.size > 0 /\ ChainHolds) =>
     \A k \in 0 .. file.size - 1 :
        LET c == FileCluster(k \div ClusterSize)[k \div ClusterSize]
        IN  buf[k + 1] = ClusterOffset(c) + (k % ClusterSize)
=============================================================================

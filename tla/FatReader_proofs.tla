-------------------------- MODULE FatReader_proofs --------------------------
(***************************************************************************)
(* Proofs about FatReader, for every set of images: whatever lies at the    *)
(* image address.                                                           *)
(***************************************************************************)
EXTENDS FatReader, WellFoundedInduction, TLAPS

\* What every step needs to know of the image and of the numbers it uses.
NumbersOK ==
  /\ img \in Images
  /\ entries_checked \in Nat
  /\ file.size \in Nat
  /\ bytes_read \in Nat

LEMMA ImageFacts ==
  ASSUME img \in Images
  PROVE  /\ img.sector_size \in Nat /\ img.sectors_per_cluster \in Nat
         /\ img.reserved_sectors \in Nat /\ img.num_fats \in Nat
         /\ img.root_entry_count \in Nat
         /\ img.total_sectors_16 \in Nat /\ img.total_sectors_32 \in Nat
         /\ img.fat_size_16 \in Nat /\ img.fat_size_32 \in Nat
         /\ img.root \in Seq(Entry)
         /\ img.kind \in {"FAT12", "FAT16", "FAT32"}
         /\ img.links \in [DOMAIN img.links -> Nat]
         /\ \A c \in DOMAIN img.links : EntryHolds(img.kind, img.links[c])
  <1>1. \A f \in ImageFields \ {"kind", "links", "root", "chained_root"} :
           img[f] \in Nat
    BY ImageAssumption
  <1>2. {"sector_size", "sectors_per_cluster", "reserved_sectors", "num_fats",
         "root_entry_count", "total_sectors_16", "total_sectors_32", "fat_size_16",
         "fat_size_32"}
           \subseteq ImageFields \ {"kind", "links", "root", "chained_root"}
    BY DEF ImageFields
  <1> QED BY <1>1, <1>2, ImageAssumption

\* An entry the scan looks at has a size; what lies behind the last one is zero.
LEMMA RootEntryFacts ==
  ASSUME img \in Images, NEW k \in Nat
  PROVE  /\ RootEntry(k).size \in Nat /\ RootEntry(k).cluster \in Nat
         /\ k < Len(img.root) => k + 1 \in 1 .. Len(img.root)
                                  /\ RootEntry(k) = img.root[k + 1]
         /\ k >= Len(img.root) => RootEntry(k).kind = "end"
  <1>1. img.root \in Seq(Entry) /\ Len(img.root) \in Nat
    BY ImageFacts
  <1>2. CASE k < Len(img.root)
    <2>1. k + 1 \in 1 .. Len(img.root)
      BY <1>1, <1>2
    <2>2. img.root[k + 1] \in Entry
      BY <1>1, <2>1
    <2> QED BY <1>1, <1>2, <2>1, <2>2 DEF RootEntry, Entry
  <1>3. CASE k >= Len(img.root)
    BY <1>1, <1>3 DEF RootEntry
  <1> QED BY <1>1, <1>2, <1>3

LEMMA ChunkFacts ==
  ASSUME NumbersOK, bytes_read <= file.size
  PROVE  ChunkSize \in Nat /\ bytes_read + ChunkSize <= file.size
  <1>1. img.sector_size \in Nat /\ img.sectors_per_cluster \in Nat
    BY ImageFacts DEF NumbersOK
  <1>2. \A x, y \in Nat : x * y \in Nat
    OBVIOUS
  <1>3. ClusterSize \in Nat
    BY <1>1, <1>2 DEF ClusterSize
  <1> QED BY <1>3 DEF NumbersOK, ChunkSize

LoadInv == NumbersOK /\ CopyWithinBuffer /\ (pc # "done" => ret = "none")

LEMMA NextLoadInv == ASSUME LoadInv, [Next]_vars PROVE LoadInv'
  <1>1. CASE LoadCluster
    <2>1. ChunkSize \in Nat /\ bytes_read + ChunkSize <= file.size
      BY <1>1, ChunkFacts DEF LoadInv, CopyWithinBuffer, LoadCluster
    <2>2. bytes_read + ChunkSize \in Nat
      BY <2>1 DEF LoadInv, NumbersOK
    <2> QED
      BY <1>1, <2>1, <2>2 DEF LoadCluster, Finish, LoadInv, NumbersOK, CopyWithinBuffer
  <1>2. CASE Found
    <2>1. file'.size \in Nat
      BY <1>2, RootEntryFacts DEF Found, LoadInv, NumbersOK
    <2> QED BY <1>2, <2>1 DEF Found, LoadInv, NumbersOK, CopyWithinBuffer
  <1>3. CASE AllocBuffer
    BY <1>3 DEF AllocBuffer, LoadInv, NumbersOK, CopyWithinBuffer
  <1>4. CASE NextEntry
    BY <1>4 DEF NextEntry, LoadInv, NumbersOK, CopyWithinBuffer
  <1>5. CASE NoVolume \/ ParseBpb \/ NotFound \/ AllocFails \/ ChainEnds
    BY <1>5 DEF NoVolume, ParseBpb, NotFound, AllocFails, ChainEnds, Finish,
       LoadInv, NumbersOK, CopyWithinBuffer
  <1>6. CASE UNCHANGED vars
    BY <1>6 DEF vars, LoadInv, NumbersOK, CopyWithinBuffer
  <1> QED BY <1>1, <1>2, <1>3, <1>4, <1>5, <1>6 DEF Next

\* For any bytes at the image address, the copy of a file never leaves the
\* buffer allocated for it.
THEOREM CopyStaysWithinBuffer == Spec => []CopyWithinBuffer
  <1>1. Init => LoadInv
    BY DEF Init, NoFile, LoadInv, NumbersOK, CopyWithinBuffer
  <1>2. LoadInv => CopyWithinBuffer
    BY DEF LoadInv
  <1> QED BY <1>1, <1>2, NextLoadInv, PTL DEF Spec

-----------------------------------------------------------------------------
(* The directory scan *)

\* The entries scanned so far exist, none is the end mark, and none matches.
ScanInv ==
  /\ pc = "parse" => entries_checked = 0
  /\ pc \in {"parse", "find"} => ret = "none"
  /\ pc = "find" =>
       \A j \in 1 .. entries_checked :
         /\ j \in 1 .. Len(img.root) /\ j <= img.root_entry_count
         /\ img.root[j].kind # "end"
         /\ ~Matches(img.root[j])
  /\ pc \in {"alloc", "load"} => ret = "none"
  /\ FindsFirstLiveEntry

LEMMA FoundIsFirst == ASSUME LoadInv, ScanInv, Found PROVE ScanInv'
  <1> DEFINE k == entries_checked
  <1>1. /\ pc = "find" /\ pc' = "alloc" /\ k < img.root_entry_count
        /\ Matches(RootEntry(k))
        /\ file' = [cluster |-> RootEntry(k).cluster, size |-> RootEntry(k).size]
        /\ UNCHANGED <<img, filename, entries_checked, bytes_read, ret>>
    BY DEF Found
  <1>2. k \in Nat /\ img \in Images /\ img.root_entry_count \in Nat
        /\ Len(img.root) \in Nat
    BY ImageFacts DEF LoadInv, NumbersOK
  <1>3. k + 1 \in 1 .. Len(img.root) /\ RootEntry(k) = img.root[k + 1]
    BY <1>1, <1>2, RootEntryFacts DEF Matches
  <1>4. \A j \in 1 .. k + 1 : img.root[j].kind # "end"
    <2>1. \A j \in 1 .. k + 1 : j = k + 1 \/ j \in 1 .. k
      BY <1>2
    <2> QED BY <1>1, <1>3, <2>1 DEF ScanInv, Matches
  <1>5. k + 1 \in LiveRoot
    BY <1>1, <1>2, <1>3, <1>4 DEF LiveRoot
  <1>6. \A j \in LiveRoot : j < k + 1 => ~Matches(img.root[j])
    <2>1. \A j \in LiveRoot : j \in Nat /\ 1 <= j
      BY <1>2 DEF LiveRoot
    <2>2. \A j \in LiveRoot : j < k + 1 => j \in 1 .. k
      BY <1>2, <2>1
    <2> QED BY <1>1, <2>2 DEF ScanInv
  <1>7. FindsFirstLiveEntry'
    <2>1. ret' = "none"
      BY <1>1 DEF ScanInv
    <2>2. LiveRoot' = LiveRoot /\ (\A e : Matches(e)' <=> Matches(e))
      BY <1>1 DEF LiveRoot, Matches
    <2>3. /\ Matches(img.root[k + 1])
          /\ file' = [cluster |-> img.root[k + 1].cluster,
                      size |-> img.root[k + 1].size]
      BY <1>1, <1>3
    <2> QED BY <1>1, <1>5, <1>6, <2>1, <2>2, <2>3 DEF FindsFirstLiveEntry, Matches
  <1> QED BY <1>1, <1>7 DEF ScanInv

LEMMA NextEntryKeepsScan == ASSUME LoadInv, ScanInv, NextEntry PROVE ScanInv'
  <1> DEFINE k == entries_checked
  <1>1. /\ pc = "find" /\ k < img.root_entry_count
        /\ RootEntry(k).kind # "end" /\ ~Matches(RootEntry(k))
        /\ entries_checked' = k + 1
        /\ UNCHANGED <<img, filename, pc, file, bytes_read, ret>>
    BY DEF NextEntry
  <1>2. k \in Nat /\ img \in Images /\ img.root_entry_count \in Nat
        /\ Len(img.root) \in Nat
    BY ImageFacts DEF LoadInv, NumbersOK
  <1>3. k + 1 \in 1 .. Len(img.root) /\ RootEntry(k) = img.root[k + 1]
    BY <1>1, <1>2, RootEntryFacts
  <1>4. \A j \in 1 .. k + 1 :
          /\ j \in 1 .. Len(img.root) /\ j <= img.root_entry_count
          /\ img.root[j].kind # "end"
          /\ ~Matches(img.root[j])
    <2>1. \A j \in 1 .. k + 1 : j = k + 1 \/ j \in 1 .. k
      BY <1>2
    <2>2. k + 1 <= img.root_entry_count
      BY <1>1, <1>2
    <2> QED BY <1>1, <1>3, <2>1, <2>2 DEF ScanInv
  <1>5. FindsFirstLiveEntry'
    BY <1>1 DEF ScanInv, FindsFirstLiveEntry
  <1> QED BY <1>1, <1>4, <1>5 DEF ScanInv, Matches

LEMMA NotFoundIsNone == ASSUME LoadInv, ScanInv, NotFound PROVE ScanInv'
  <1> DEFINE k == entries_checked
  <1>1. /\ pc = "find" /\ pc' = "done"
        /\ k >= img.root_entry_count \/ RootEntry(k).kind = "end"
        /\ UNCHANGED <<img, filename, entries_checked, file, bytes_read>>
    BY DEF NotFound, Finish
  <1>2. k \in Nat /\ img \in Images /\ img.root_entry_count \in Nat
        /\ Len(img.root) \in Nat
    BY ImageFacts DEF LoadInv, NumbersOK
  <1>3. ASSUME NEW j \in LiveRoot PROVE ~Matches(img.root[j])
    <2>1. /\ j \in 1 .. Len(img.root) /\ j <= img.root_entry_count
          /\ img.root[j].kind # "end"
          /\ \A h \in 1 .. j : img.root[h].kind # "end"
      BY <1>2 DEF LiveRoot
    <2>2. CASE j <= k
      <3>1. j \in 1 .. k
        BY <1>2, <2>1, <2>2
      <3> QED BY <1>1, <3>1 DEF ScanInv
    <2>3. CASE j > k
      <3>1. RootEntry(k).kind = "end" /\ k < Len(img.root)
        BY <1>1, <1>2, <2>1, <2>3
      <3>2. img.root[k + 1].kind = "end" /\ k + 1 \in 1 .. j
        BY <1>2, <2>1, <2>3, <3>1, RootEntryFacts
      <3> QED BY <2>1, <3>2
    <2> QED BY <1>2, <2>1, <2>2, <2>3
  <1>4. FindsFirstLiveEntry'
    BY <1>1, <1>3 DEF FindsFirstLiveEntry, LiveRoot, Matches
  <1> QED BY <1>1, <1>4 DEF ScanInv

LEMMA NextScanInv == ASSUME LoadInv, ScanInv, [Next]_vars PROVE ScanInv'
  <1>1. CASE NoVolume \/ AllocFails \/ ChainEnds
    BY <1>1 DEF NoVolume, AllocFails, ChainEnds, Finish, ScanInv,
       FindsFirstLiveEntry, LiveRoot, Matches
  <1>2. CASE ParseBpb
    BY <1>2 DEF ParseBpb, ScanInv, FindsFirstLiveEntry, LiveRoot, Matches
  <1>3. CASE AllocBuffer
    BY <1>3 DEF AllocBuffer, ScanInv, FindsFirstLiveEntry, LiveRoot,
       Matches
  <1>4. CASE LoadCluster
    BY <1>4 DEF LoadCluster, Finish, ScanInv, FindsFirstLiveEntry, LiveRoot, Matches
  <1>5. CASE UNCHANGED vars
    BY <1>5 DEF vars, ScanInv, FindsFirstLiveEntry, LiveRoot, Matches
  <1> QED BY <1>1, <1>2, <1>3, <1>4, <1>5, FoundIsFirst, NextEntryKeepsScan,
          NotFoundIsNone DEF Next

\* For any bytes at the image address: the file that is loaded is the first live
\* entry of the name asked for, and "not found" means no live entry has it.
THEOREM ScanFindsFirstLiveEntry == Spec => []FindsFirstLiveEntry
  <1>1. Init => LoadInv /\ ScanInv
    BY DEF Init, NoFile, LoadInv, NumbersOK, CopyWithinBuffer, ScanInv,
       FindsFirstLiveEntry
  <1>2. ScanInv => FindsFirstLiveEntry
    BY DEF ScanInv
  <1> QED BY <1>1, <1>2, NextLoadInv, NextScanInv, PTL DEF Spec

-----------------------------------------------------------------------------
(* The table *)

\* What an entry holds fits its width.
LEMMA LinkFits ==
  ASSUME img \in Images, NEW c
  PROVE  /\ Link(c) \in Nat
         /\ img.kind = "FAT12" => Link(c) < 4096
         /\ img.kind = "FAT16" => Link(c) < 65536
         /\ img.kind = "FAT32" => Link(c) < 268435456
  <1>1. Link(c) \in Nat
    BY ImageFacts DEF Link
  <1>2. EntryHolds(img.kind, 0)
    BY ImageFacts, SMT DEF EntryHolds
  <1>3. EntryHolds(img.kind, Link(c))
    BY <1>2, ImageFacts DEF Link
  <1> QED BY <1>1, <1>3, SMT DEF EntryHolds

LEMMA LinkIsNat == ASSUME img \in Images, NEW c PROVE Link(c) \in Nat
  BY LinkFits

\* The powers of a byte that ByteOf divides by.
LEMMA BytePowers == 256 ^ 0 = 1 /\ 256 ^ 1 = 256 /\ 256 ^ 2 = 65536 /\ 256 ^ 3 = 16777216
  OBVIOUS

LEMMA LowByteIs == ASSUME NEW e \in Nat PROVE ByteOf(e, 0) = e % 256
  <1>1. e \div 1 = e
    OBVIOUS
  <1>2. 256 ^ 0 = 1
    OBVIOUS
  <1> QED BY <1>1, <1>2, Zenon DEF ByteOf

LEMMA SecondByteIs == ASSUME NEW e \in Nat PROVE ByteOf(e, 1) = (e \div 256) % 256
  <1>1. 256 ^ 1 = 256
    OBVIOUS
  <1> QED BY <1>1, SMT DEF ByteOf

LEMMA ThirdByteIs == ASSUME NEW e \in Nat PROVE ByteOf(e, 2) = (e \div 65536) % 256
  <1>1. 256 ^ 2 = 65536
    OBVIOUS
  <1> QED BY <1>1, SMT DEF ByteOf

LEMMA HighByteIs == ASSUME NEW e \in Nat PROVE ByteOf(e, 3) = (e \div 16777216) % 256
  <1>1. 256 ^ 3 = 16777216
    OBVIOUS
  <1> QED BY <1>1, SMT DEF ByteOf

LEMMA ByteOfIsByte ==
  ASSUME NEW e \in Nat, NEW n \in 0 .. 3
  PROVE  ByteOf(e, n) \in 0 .. 255
  <1>1. n = 0 \/ n = 1 \/ n = 2 \/ n = 3
    OBVIOUS
  <1>2. 256 ^ n \in Nat \ {0}
    <2> DEFINE power(k) == 256 ^ k
    <2>1. /\ power(0) \in Nat \ {0} /\ power(1) \in Nat \ {0}
          /\ power(2) \in Nat \ {0} /\ power(3) \in Nat \ {0}
      BY BytePowers
    <2>2. 256 ^ n = power(n)
      OBVIOUS
    <2> HIDE DEF power
    <2> QED BY <1>1, <2>1, <2>2, Zenon
  <1>3. \A x \in Nat, p \in Nat \ {0} : (x \div p) % 256 \in 0 .. 255
    <2>1. \A x \in Nat, p \in Nat \ {0} : x \div p \in Nat
      OBVIOUS
    <2>2. \A x \in Nat : x % 256 \in 0 .. 255
      OBVIOUS
    <2> QED BY <2>1, <2>2
  <1> QED BY <1>2, <1>3 DEF ByteOf

\* The table, by the width of its entries.
LEMMA TableByteIs ==
  ASSUME NEW k
  PROVE  /\ img.kind = "FAT12" => TableByte(k) = TableByte12(k)
         /\ img.kind = "FAT16" => TableByte(k) = ByteOf(Link(k \div 2), k % 2)
         /\ img.kind = "FAT32" => TableByte(k) = TableByte32(k)
  BY Zenon DEF TableByte

LEMMA TableByteIsByte ==
  ASSUME img \in Images, NEW k \in Nat
  PROVE  TableByte(k) \in 0 .. 255
  <1>1. k % 2 \in 0 .. 3 /\ k % 3 \in 0 .. 3 /\ k % 4 \in 0 .. 3
    OBVIOUS
  <1>2. CASE img.kind = "FAT12"
    <2>1. Link(2 * (k \div 3)) + Link(2 * (k \div 3) + 1) * 4096 \in Nat
      <3>1. Link(2 * (k \div 3)) \in Nat /\ Link(2 * (k \div 3) + 1) \in Nat
        BY LinkIsNat
      <3> QED BY <3>1
    <2> DEFINE e == Link(2 * (k \div 3)) + Link(2 * (k \div 3) + 1) * 4096
    <2>2. TableByte(k) = ByteOf(e, k % 3)
      BY <1>2, TableByteIs DEF TableByte12
    <2>3. e \in Nat
      BY <2>1
    <2> HIDE DEF e
    <2> QED BY <1>1, <2>2, <2>3, ByteOfIsByte
  <1>3. CASE img.kind = "FAT16"
    BY <1>1, <1>3, TableByteIs, ByteOfIsByte, LinkIsNat
  <1>4. CASE img.kind = "FAT32"
    <2>1. Link(k \div 4) + 268435456 \in Nat
      BY LinkIsNat
    <2> DEFINE e == Link(k \div 4) + 268435456
    <2>2. TableByte(k) = ByteOf(e, k % 4)
      BY <1>4, TableByteIs, SMT DEF TableByte32
    <2>3. e \in Nat
      BY <2>1
    <2> HIDE DEF e
    <2> QED BY <1>1, <2>2, <2>3, ByteOfIsByte
  <1> QED BY <1>2, <1>3, <1>4, ImageFacts

\* What follows a cluster, by the type deduced.
LEMMA NextClusterIs ==
  ASSUME NEW c
  PROVE  /\ fat_type = "FAT16" => NextCluster(c) = read_u16(c * 2)
         /\ fat_type = "FAT32" => NextCluster(c) = Low28Bits(read_u32(c * 4))
         /\ fat_type = "FAT12" =>
              NextCluster(c) = IF c % 2 # 0 THEN read_u16(c + c \div 2) \div 16
                               ELSE read_u16(c + c \div 2) % 4096
  BY Zenon DEF NextCluster

LEMMA NextClusterIsNat ==
  ASSUME img \in Images, fat_type \in {"FAT12", "FAT16", "FAT32"}, NEW c \in Nat
  PROVE  NextCluster(c) \in Nat
  <1>1. ASSUME NEW k \in Nat PROVE read_u16(k) \in Nat /\ read_u32(k) \in Nat
    <2>1. k + 1 \in Nat /\ k + 2 \in Nat /\ k + 3 \in Nat
      OBVIOUS
    <2>2. /\ TableByte(k) \in 0 .. 255 /\ TableByte(k + 1) \in 0 .. 255
          /\ TableByte(k + 2) \in 0 .. 255 /\ TableByte(k + 3) \in 0 .. 255
      BY <2>1, TableByteIsByte
    <2> DEFINE b0 == TableByte(k)
               b1 == TableByte(k + 1)
               b2 == TableByte(k + 2)
               b3 == TableByte(k + 3)
    <2>3. /\ read_u16(k) = b0 + b1 * 256
          /\ read_u32(k) = b0 + b1 * 256 + b2 * 65536 + b3 * 16777216
      BY DEF read_u16, read_u32
    <2>4. b0 \in Nat /\ b1 \in Nat /\ b2 \in Nat /\ b3 \in Nat
      BY <2>2
    <2> HIDE DEF b0, b1, b2, b3
    <2> QED BY <2>3, <2>4
  <1>2. c * 2 \in Nat /\ c * 4 \in Nat /\ c + c \div 2 \in Nat
    OBVIOUS
  <1>3. \A v \in Nat : Low28Bits(v) \in Nat /\ v \div 16 \in Nat /\ v % 4096 \in Nat
    BY DEF Low28Bits
  <1> QED BY <1>1, <1>2, <1>3, NextClusterIs

-----------------------------------------------------------------------------
(* Types *)

LEMMA QuotientFacts ==
  ASSUME NEW v \in Nat, NEW s \in Nat \ {0}
  PROVE  /\ v \div s \in Nat /\ v % s \in 0 .. s - 1
         /\ v = (v \div s) * s + (v % s)
  <1> DEFINE p == v \div s
             m == v % s
  <1>1. p \in Int /\ m \in 0 .. s - 1 /\ v = p * s + m
    OBVIOUS
  <1> HIDE DEF p, m
  <1>2. \A d \in Int : d <= -1 => d * s <= -s
    OBVIOUS
  <1>3. p >= 0
    BY <1>1, <1>2
  <1>4. p \in Nat /\ m \in 0 .. s - 1 /\ v = p * s + m
    BY <1>1, <1>3
  <1> QED BY <1>4 DEF p, m

LEMMA ProductIsNat == \A x, y \in Nat : x * y \in Nat
  OBVIOUS

\* The numbers of the boot sector give whole sectors and clusters.
LEMMA GeometryFacts ==
  ASSUME img \in Images, img.sector_size # 0
  PROVE  /\ ClusterSize \in Nat /\ FirstDataSector \in Nat
         /\ img.sectors_per_cluster # 0 => TotalClusters \in Int /\ ClusterSize > 0
         /\ \A c \in Nat : ClusterOffset(c) \in Int
  <1>0. /\ img.sector_size \in Nat /\ img.sectors_per_cluster \in Nat
        /\ img.reserved_sectors \in Nat /\ img.num_fats \in Nat
        /\ img.root_entry_count \in Nat
        /\ img.total_sectors_16 \in Nat /\ img.total_sectors_32 \in Nat
        /\ img.fat_size_16 \in Nat /\ img.fat_size_32 \in Nat
    BY ImageFacts
  <1>1. ClusterSize \in Nat /\ (img.sectors_per_cluster # 0 => ClusterSize > 0)
    <2>1. \A x, y \in Nat \ {0} : x * y > 0
      OBVIOUS
    <2> QED BY <1>0, <2>1, ProductIsNat DEF ClusterSize
  <1>2. FirstDataSector \in Nat
    <2>1. FatSize \in Nat /\ img.num_fats * FatSize \in Nat
      BY <1>0, ProductIsNat DEF FatSize
    <2>2. RootDirSectors \in Nat
      <3>1. \A x \in Nat, s \in Nat \ {0} : (x * 32 + s - 1) \div s \in Nat
        <4>1. \A v \in Nat, s \in Nat \ {0} : v \div s \in Nat
          BY QuotientFacts
        <4>2. \A x \in Nat, s \in Nat \ {0} : x * 32 + s - 1 \in Nat
          OBVIOUS
        <4> QED BY <4>1, <4>2
      <3> QED BY <1>0, <3>1 DEF RootDirSectors
    <2> QED BY <1>0, <2>1, <2>2 DEF FirstDataSector
  <1>3. img.sectors_per_cluster # 0 => TotalClusters \in Int
    <2>1. TotalSectors \in Nat
      BY <1>0 DEF TotalSectors
    <2> DEFINE d == TotalSectors - FirstDataSector
    <2>2. d \in Int
      BY <1>2, <2>1
    <2>3. TotalClusters = IF d >= 0 THEN d \div img.sectors_per_cluster
                          ELSE -((-d) \div img.sectors_per_cluster)
      BY DEF TotalClusters
    <2> HIDE DEF d
    <2> QED BY <1>0, <2>2, <2>3
  <1>4. \A c \in Nat : ClusterOffset(c) \in Int
    <2>1. \A x, y \in Int : x * y \in Int
      OBVIOUS
    <2> QED BY <1>0, <1>2, <2>1 DEF ClusterOffset
  <1> QED BY <1>1, <1>2, <1>3, <1>4

\* The type, by the count of clusters.
LEMMA FatTypeIs ==
  ASSUME TotalClusters \in Int
  PROVE  /\ TotalClusters < 4085 => FatType = "FAT12"
         /\ TotalClusters >= 4085 /\ TotalClusters < 65525 => FatType = "FAT16"
         /\ TotalClusters >= 65525 => FatType = "FAT32"
         /\ FatType \in {"FAT12", "FAT16", "FAT32"}
  <1> DEFINE small == TotalClusters < 4085
             medium == TotalClusters >= 4085 /\ TotalClusters < 65525
             large == TotalClusters >= 65525
  <1>1. /\ small \/ medium \/ large
        /\ ~(small /\ medium) /\ ~(small /\ large) /\ ~(medium /\ large)
    OBVIOUS
  <1>2. FatType = CASE small -> "FAT12" [] medium -> "FAT16" [] large -> "FAT32"
    BY DEF FatType
  <1> HIDE DEF small, medium, large
  <1>3. /\ small => FatType = "FAT12"
        /\ medium => FatType = "FAT16"
        /\ large => FatType = "FAT32"
    BY <1>1, <1>2, Zenon
  <1> QED BY <1>1, <1>3 DEF small, medium, large

\* A reader that looks at entries or clusters has found a sector size.
TypeInv == TypeOK /\ (pc \in {"find", "alloc", "load"} => img.sector_size # 0)

LEMMA NextTypeInv == ASSUME LoadInv, TypeInv, [Next]_vars PROVE TypeInv'
  <1> USE DEF TypeOK, TypeInv
  <1>1. img \in Images
    BY DEF LoadInv, NumbersOK
  <1>2. CASE NoVolume \/ NotFound \/ AllocFails \/ ChainEnds
    BY <1>2 DEF NoVolume, NotFound, AllocFails, ChainEnds, Finish
  <1>3. CASE ParseBpb
    <2>1. FatTypes \subseteq {"FAT12", "FAT16", "FAT32"}
      <3>1. CASE img.sectors_per_cluster = 0
        BY <3>1 DEF FatTypes
      <3>2. CASE img.sectors_per_cluster # 0
        <4>1. TotalClusters \in Int
          BY <1>1, <1>3, <3>2, GeometryFacts DEF ParseBpb
        <4>2. FatType \in {"FAT12", "FAT16", "FAT32"}
          BY <4>1, FatTypeIs
        <4> QED BY <3>2, <4>2 DEF FatTypes
      <3> QED BY <3>1, <3>2
    <2> QED BY <1>3, <2>1 DEF ParseBpb
  <1>4. CASE Found
    <2>1. RootEntry(entries_checked).cluster \in Nat
          /\ RootEntry(entries_checked).size \in Nat
      BY <1>1, RootEntryFacts
    <2> QED BY <1>4, <2>1 DEF Found
  <1>5. CASE NextEntry
    BY <1>5 DEF NextEntry
  <1>6. CASE AllocBuffer
    <2>1. buf' \in Seq(Int) /\ file.cluster \in Nat
      BY <1>6 DEF AllocBuffer
    <2> QED BY <1>6, <2>1 DEF AllocBuffer
  <1>7. CASE LoadCluster
    <2>1. ChunkSize \in Nat /\ bytes_read + ChunkSize \in Nat
      BY <1>7, ChunkFacts DEF LoadCluster, LoadInv, NumbersOK, CopyWithinBuffer
    <2>2. ClusterOffset(cluster) \in Int
      BY <1>1, <1>7, GeometryFacts DEF LoadCluster
    <2>3. \A k \in 1 .. file.size : buf[k] \in Int
      BY <1>7 DEF LoadCluster, LoadInv, CopyWithinBuffer
    <2>4. buf' \in Seq(Int)
      <3>1. ASSUME NEW k \in 1 .. file.size
            PROVE  ClusterOffset(cluster) + k - bytes_read - 1 \in Int
        BY <2>2
      <3>2. buf' \in [1 .. file.size -> Int]
        BY <1>7, <2>3, <3>1 DEF LoadCluster
      <3> QED BY <3>2
    <2>5. NextCluster(cluster) \in Nat
      BY <1>1, NextClusterIsNat
    <2> QED BY <1>7, <2>1, <2>4, <2>5 DEF LoadCluster, Finish
  <1>8. CASE UNCHANGED vars
    BY <1>8 DEF vars
  <1> QED BY <1>2, <1>3, <1>4, <1>5, <1>6, <1>7, <1>8 DEF Next

\* The reader's state keeps its types: whatever lies at the image address, a
\* cluster number is a number and the buffer a sequence of bytes' sources.
THEOREM ReaderTypeCorrect == Spec => []TypeOK
  <1>1. Init => LoadInv /\ TypeInv
    BY DEF Init, NoFile, LoadInv, NumbersOK, CopyWithinBuffer, TypeInv, TypeOK
  <1>2. TypeInv => TypeOK
    BY DEF TypeInv
  <1> QED BY <1>1, <1>2, NextLoadInv, NextTypeInv, PTL DEF Spec

-----------------------------------------------------------------------------
(* The type deduced *)

LEMMA QuotientUnique ==
  ASSUME NEW n \in Nat \ {0}, NEW q \in Nat, NEW r \in Nat, r < n
  PROVE  (q * n + r) \div n = q /\ (q * n + r) % n = r
  <1> DEFINE x == q * n + r
             p == x \div n
             m == x % n
  <1>1. q * n \in Nat
    BY ProductIsNat
  <1>2. x \in Nat
    BY <1>1
  <1>3. p \in Nat /\ m \in 0 .. n - 1 /\ x = p * n + m
    BY <1>2
  <1>4. (q - p) * n = m - r
    BY <1>3
  <1> HIDE DEF p, m, x
  <1>5. q - p \in Int
    BY <1>3
  <1>6. \A d \in Int : d >= 1 => d * n >= n
    OBVIOUS
  <1>7. \A d \in Int : d <= -1 => d * n <= -n
    OBVIOUS
  <1>8. ~(q - p >= 1)
    BY <1>3, <1>4, <1>5, <1>6
  <1>9. ~(q - p <= -1)
    BY <1>3, <1>4, <1>5, <1>7
  <1>10. q = p
    BY <1>3, <1>5, <1>8, <1>9
  <1>11. m = r
    BY <1>3, <1>4, <1>10
  <1> QED BY <1>10, <1>11 DEF p, m, x

\* On a volume as it is formatted, the clusters are those of its format, and the
\* code's thresholds are the standard's.
LEMMA FormattedType ==
  ASSUME img \in Images, img.sector_size # 0, Formatted
  PROVE  FatType = img.kind /\ img.sectors_per_cluster # 0
  <1> DEFINE spc == img.sectors_per_cluster
             d == TotalSectors - FirstDataSector
  <1>1. PICK n \in Nat, rest \in Nat :
          /\ rest < spc
          /\ TotalSectors = FirstDataSector + n * spc + rest
          /\ Standard(n, img.kind)
    BY Zenon DEF Formatted
  <1>2. spc \in Nat /\ FirstDataSector \in Nat
    BY GeometryFacts, ImageFacts
  <1>3. TotalClusters = IF d >= 0 THEN d \div spc ELSE -((-d) \div spc)
    BY DEF TotalClusters
  <1> HIDE DEF spc
  <1>4. spc \in Nat \ {0}
    BY <1>1, <1>2
  <1>5. n * spc \in Nat
    BY <1>4, ProductIsNat
  <1>6. d = n * spc + rest /\ d >= 0
    BY <1>1, <1>2, <1>5
  <1> HIDE DEF d
  <1>7. d \div spc = n
    <2>1. rest < spc
      BY <1>1
    <2>2. (n * spc + rest) \div spc = n
      BY <1>4, <2>1, QuotientUnique
    <2> QED BY <1>6, <2>2
  <1>8. TotalClusters = n
    BY <1>3, <1>6, <1>7
  <1>9. FatType = img.kind
    BY <1>1, <1>8, FatTypeIs DEF Standard
  <1> QED BY <1>4, <1>9 DEF spc

\* A reader that is past the boot sector has deduced the type of a volume.
KindInv ==
  (pc \in {"find", "alloc", "load"} /\ Formatted) =>
     fat_type = img.kind /\ img.sectors_per_cluster # 0

LEMMA NextKindInv ==
  ASSUME LoadInv, TypeInv, KindInv, [Next]_vars
  PROVE  KindInv'
  <1>1. img' = img /\ (Formatted' <=> Formatted)
    <2>1. img' = img
      BY DEF Next, vars, NoVolume, ParseBpb, Found, NextEntry, NotFound, AllocFails,
         AllocBuffer, LoadCluster, ChainEnds
    <2> QED BY <2>1 DEF Formatted, TotalSectors, FirstDataSector, FatSize, RootDirSectors
  <1>2. CASE ParseBpb
    <2>1. Formatted => FatType = img.kind /\ img.sectors_per_cluster # 0
      BY <1>2, FormattedType DEF ParseBpb, LoadInv, NumbersOK
    <2> QED BY <1>1, <1>2, <2>1 DEF ParseBpb, FatTypes, KindInv
  <1>3. CASE Found \/ NextEntry \/ AllocBuffer \/ LoadCluster
    BY <1>1, <1>3 DEF Found, NextEntry, AllocBuffer, LoadCluster, Finish, KindInv
  <1>4. CASE NoVolume \/ NotFound \/ AllocFails \/ ChainEnds
    BY <1>4 DEF NoVolume, NotFound, AllocFails, ChainEnds, Finish, KindInv
  <1>5. CASE UNCHANGED vars
    BY <1>1, <1>5 DEF vars, KindInv
  <1> QED BY <1>2, <1>3, <1>4, <1>5 DEF Next

\* Whatever the geometry of a volume as it is formatted, the reader deduces the
\* type it has: the clusters are counted right and the thresholds are the standard's.
THEOREM FormatRecognised == Spec => [](Formatted => TypeDetected)
  <1>1. Init => LoadInv /\ TypeInv /\ KindInv
    BY DEF Init, NoFile, LoadInv, NumbersOK, CopyWithinBuffer, TypeInv, TypeOK, KindInv
  <1>2. KindInv => (Formatted => TypeDetected)
    BY DEF KindInv, TypeDetected
  <1> QED BY <1>1, <1>2, NextLoadInv, NextTypeInv, NextKindInv, PTL DEF Spec

-----------------------------------------------------------------------------
(* The table holds the links *)

\* The arithmetic of two bytes, and of an entry that shares its middle byte with
\* another.
LEMMA Split16 == ASSUME NEW e \in Nat
                 PROVE  (e % 256) + ((e \div 256) % 256) * 256 = e % 65536
  OBVIOUS

LEMMA Split12 ==
  ASSUME NEW even \in Nat, NEW odd \in Nat, even < 4096, odd < 4096
  PROVE  LET e == even + odd * 4096
         IN  /\ ((e % 256) + ((e \div 256) % 256) * 256) % 4096 = even
             /\ (((e \div 256) % 256) + ((e \div 65536) % 256) * 256) \div 16 = odd
  OBVIOUS

LEMMA Split32 ==
  ASSUME NEW e \in Nat, e < 268435456
  PROVE  LET v == e + 268435456
         IN  (v % 256) + ((v \div 256) % 256) * 256 + ((v \div 65536) % 256) * 65536
               + ((v \div 16777216) % 256) * 16777216 = v
  OBVIOUS

LEMMA LowBits == ASSUME NEW e \in Nat, e < 268435456
                 PROVE  Low28Bits(e + 268435456) = e
  BY DEF Low28Bits

LEMMA NextIn16 ==
  ASSUME img \in Images, img.kind = "FAT16", NEW c \in Nat
  PROVE  read_u16(c * 2) = Link(c)
  <1>1. /\ c * 2 \in Nat /\ (c * 2) \div 2 = c /\ (c * 2) % 2 = 0
        /\ (c * 2 + 1) \div 2 = c /\ (c * 2 + 1) % 2 = 1
    OBVIOUS
  <1>2. Link(c) \in Nat /\ Link(c) < 65536
    BY LinkFits
  <1>3. TableByte(c * 2) = ByteOf(Link(c), 0)
    BY <1>1, TableByteIs
  <1>4. TableByte(c * 2 + 1) = ByteOf(Link(c), 1)
    BY <1>1, TableByteIs
  <1>5. read_u16(c * 2) = (Link(c) % 256) + ((Link(c) \div 256) % 256) * 256
    BY <1>2, <1>3, <1>4, LowByteIs, SecondByteIs DEF read_u16
  <1>6. read_u16(c * 2) = Link(c) % 65536
    BY <1>2, <1>5, Split16
  <1> QED BY <1>2, <1>6

LEMMA NextIn32 ==
  ASSUME img \in Images, img.kind = "FAT32", NEW c \in Nat
  PROVE  Low28Bits(read_u32(c * 4)) = Link(c)
  <1>1. /\ (c * 4) \div 4 = c /\ (c * 4) % 4 = 0
        /\ (c * 4 + 1) \div 4 = c /\ (c * 4 + 1) % 4 = 1
        /\ (c * 4 + 2) \div 4 = c /\ (c * 4 + 2) % 4 = 2
        /\ (c * 4 + 3) \div 4 = c /\ (c * 4 + 3) % 4 = 3
    OBVIOUS
  <1>2. Link(c) \in Nat /\ Link(c) < 268435456
    BY LinkFits, SMT
  <1> DEFINE v == Link(c) + 268435456
  <1>3. v \in Nat
    BY <1>2, SMT
  <1>4. /\ TableByte32(c * 4) = ByteOf(v, 0) /\ TableByte32(c * 4 + 1) = ByteOf(v, 1)
        /\ TableByte32(c * 4 + 2) = ByteOf(v, 2) /\ TableByte32(c * 4 + 3) = ByteOf(v, 3)
    BY <1>1 DEF TableByte32, SMT
  <1>5. \A k : TableByte(k) = TableByte32(k)
    BY TableByteIs
  <1>6. read_u32(c * 4) =
          (v % 256) + ((v \div 256) % 256) * 256 + ((v \div 65536) % 256) * 65536
            + ((v \div 16777216) % 256) * 16777216
    <2>1. /\ TableByte(c * 4) = v % 256
          /\ TableByte(c * 4 + 1) = (v \div 256) % 256
          /\ TableByte(c * 4 + 2) = (v \div 65536) % 256
          /\ TableByte(c * 4 + 3) = (v \div 16777216) % 256
      <3> HIDE DEF v
      <3>1. /\ TableByte(c * 4) = ByteOf(v, 0) /\ TableByte(c * 4 + 1) = ByteOf(v, 1)
            /\ TableByte(c * 4 + 2) = ByteOf(v, 2) /\ TableByte(c * 4 + 3) = ByteOf(v, 3)
        BY <1>4, <1>5
      <3>2. /\ ByteOf(v, 0) = v % 256 /\ ByteOf(v, 1) = (v \div 256) % 256
            /\ ByteOf(v, 2) = (v \div 65536) % 256
            /\ ByteOf(v, 3) = (v \div 16777216) % 256
        <4>1. ByteOf(v, 0) = v % 256
          BY <1>3, LowByteIs, SMT
        <4>2. ByteOf(v, 1) = (v \div 256) % 256
          BY <1>3, SecondByteIs, SMT
        <4>3. ByteOf(v, 2) = (v \div 65536) % 256
          BY <1>3, ThirdByteIs, SMT
        <4>4. ByteOf(v, 3) = (v \div 16777216) % 256
          BY <1>3, HighByteIs, SMT
        <4> QED BY <4>1, <4>2, <4>3, <4>4, SMT
      <3> QED BY <3>1, <3>2, SMT
    <2> HIDE DEF v
    <2> QED BY <2>1 DEF read_u32, SMT
  <1>7. read_u32(c * 4) = v
    BY <1>2, <1>6, Split32, SMT
  <1> QED BY <1>2, <1>7, LowBits, SMT

\* The two entries that share the bytes 3h to 3h + 2.
LEMMA NextIn12 ==
  ASSUME img \in Images, img.kind = "FAT12", NEW h \in Nat
  PROVE  /\ read_u16(3 * h) % 4096 = Link(2 * h)
         /\ read_u16(3 * h + 1) \div 16 = Link(2 * h + 1)
  <1>1. /\ (3 * h) \div 3 = h /\ (3 * h) % 3 = 0
        /\ (3 * h + 1) \div 3 = h /\ (3 * h + 1) % 3 = 1
        /\ (3 * h + 2) \div 3 = h /\ (3 * h + 2) % 3 = 2
    OBVIOUS
  <1> DEFINE even == Link(2 * h)
             odd == Link(2 * h + 1)
             e == even + odd * 4096
  <1>2. even \in Nat /\ odd \in Nat /\ even < 4096 /\ odd < 4096
    BY LinkFits
  <1>3. e \in Nat
    BY <1>2
  <1>4. /\ TableByte12(3 * h) = ByteOf(e, 0) /\ TableByte12(3 * h + 1) = ByteOf(e, 1)
        /\ TableByte12(3 * h + 2) = ByteOf(e, 2)
    BY <1>1 DEF TableByte12
  <1>5. \A k : TableByte(k) = TableByte12(k)
    BY TableByteIs
  <1>6. /\ TableByte(3 * h) = e % 256
        /\ TableByte(3 * h + 1) = (e \div 256) % 256
        /\ TableByte(3 * h + 2) = (e \div 65536) % 256
    <2> HIDE DEF e
    <2>1. /\ TableByte(3 * h) = ByteOf(e, 0) /\ TableByte(3 * h + 1) = ByteOf(e, 1)
          /\ TableByte(3 * h + 2) = ByteOf(e, 2)
      BY <1>4, <1>5
    <2>2. /\ ByteOf(e, 0) = e % 256 /\ ByteOf(e, 1) = (e \div 256) % 256
          /\ ByteOf(e, 2) = (e \div 65536) % 256
      <3>1. ByteOf(e, 0) = e % 256
        BY <1>3, LowByteIs, SMT
      <3>2. ByteOf(e, 1) = (e \div 256) % 256
        BY <1>3, SecondByteIs, SMT
      <3>3. ByteOf(e, 2) = (e \div 65536) % 256
        BY <1>3, ThirdByteIs, SMT
      <3> QED BY <3>1, <3>2, <3>3, SMT
    <2> QED BY <2>1, <2>2, SMT
  <1>7. 3 * h + 1 + 1 = 3 * h + 2
    OBVIOUS
  <1>8. /\ read_u16(3 * h) = (e % 256) + ((e \div 256) % 256) * 256
        /\ read_u16(3 * h + 1) = ((e \div 256) % 256) + ((e \div 65536) % 256) * 256
    <2> HIDE DEF e
    <2> QED BY <1>6, <1>7 DEF read_u16
  <1>9. /\ ((e % 256) + ((e \div 256) % 256) * 256) % 4096 = even
        /\ (((e \div 256) % 256) + ((e \div 65536) % 256) * 256) \div 16 = odd
    <2> HIDE DEF even, odd
    <2> QED BY <1>2, Split12
  <1> QED BY <1>8, <1>9

\* For every volume whose type is deduced right, in each of the three formats: the
\* cluster that follows is the one the volume links.
LEMMA NextIsLink ==
  ASSUME img \in Images, fat_type = img.kind, NEW c \in Nat
  PROVE  NextCluster(c) = Link(c)
  <1>1. CASE img.kind = "FAT16"
    BY <1>1, NextIn16, NextClusterIs
  <1>2. CASE img.kind = "FAT32"
    BY <1>2, NextIn32, NextClusterIs
  <1>3. CASE img.kind = "FAT12"
    <2> DEFINE h == c \div 2
    <2>1. h \in Nat /\ (c = 2 * h \/ c = 2 * h + 1)
      OBVIOUS
    <2>2. CASE c = 2 * h
      <3>1. c % 2 = 0 /\ c + c \div 2 = 3 * h
        BY <2>1, <2>2
      <3>2. NextCluster(c) = read_u16(3 * h) % 4096
        BY <1>3, <3>1, NextClusterIs
      <3> HIDE DEF h
      <3> QED BY <1>3, <2>1, <2>2, <3>2, NextIn12
    <2>3. CASE c = 2 * h + 1
      <3>1. c % 2 = 1 /\ c + c \div 2 = 3 * h + 1
        BY <2>1, <2>3
      <3>2. NextCluster(c) = read_u16(3 * h + 1) \div 16
        BY <1>3, <3>1, NextClusterIs
      <3> HIDE DEF h
      <3> QED BY <1>3, <2>1, <2>3, <3>2, NextIn12
    <2> QED BY <2>1, <2>2, <2>3
  <1> QED BY <1>1, <1>2, <1>3, ImageFacts

-----------------------------------------------------------------------------
(* Induction over a set of naturals, from the well-foundedness of < *)

LEMMA LeastExists ==
  ASSUME NEW T, T \subseteq Nat, T # {}
  PROVE  \E x \in T : \A y \in T : ~(y < x)
  <1>1. \A x, y \in Nat : <<y, x>> \in OpToRel(<, Nat) <=> y < x
    BY Zenon DEF OpToRel
  <1>2. \E x \in T : \A y \in T : ~(<<y, x>> \in OpToRel(<, Nat))
    BY NatLessThanWellFounded, WFMin
  <1> QED BY <1>1, <1>2, Zenon

LEMMA NatSetInduction ==
  ASSUME NEW S, 0 \in S, \A n \in Nat : n \in S => n + 1 \in S
  PROVE  Nat \subseteq S
  <1>1. SUFFICES ASSUME Nat \ S # {} PROVE FALSE
    OBVIOUS
  <1>2. PICK x \in Nat \ S : \A y \in Nat \ S : ~(y < x)
    BY <1>1, LeastExists
  <1>3. x # 0 /\ x \in Nat
    BY <1>2
  <1>4. x - 1 \in Nat /\ x - 1 < x /\ (x - 1) + 1 = x
    BY <1>3
  <1>5. x - 1 \in S
    BY <1>2, <1>4
  <1> QED BY <1>2, <1>4, <1>5

-----------------------------------------------------------------------------
(* The clusters of the file *)

\* That a function is the chain of the first n + 1 clusters.
IsChain(g, n) ==
  g = [k \in 0 .. n |-> IF k = 0 THEN file.cluster ELSE Link(g[k - 1])]

LEMMA ChainExists == ASSUME NEW n \in Nat PROVE \E g : IsChain(g, n)
  <1> DEFINE S == {m \in Nat : \E g : IsChain(g, m)}
  <1>1. 0 \in S
    <2> DEFINE g == [k \in 0 .. 0 |-> file.cluster]
    <2>1. g = [k \in 0 .. 0 |-> IF k = 0 THEN file.cluster ELSE Link(g[k - 1])]
      OBVIOUS
    <2>2. IsChain(g, 0)
      BY <2>1 DEF IsChain
    <2> QED BY <2>2
  <1>2. ASSUME NEW m \in Nat, m \in S PROVE m + 1 \in S
    <2>1. PICK g : IsChain(g, m)
      BY <1>2
    <2> DEFINE h == [k \in 0 .. m + 1 |-> IF k <= m THEN g[k] ELSE Link(g[m])]
    <2>2. g = [k \in 0 .. m |-> IF k = 0 THEN file.cluster ELSE Link(g[k - 1])]
      BY <2>1 DEF IsChain
    <2>3. ASSUME NEW k \in 0 .. m + 1
          PROVE  h[k] = IF k = 0 THEN file.cluster ELSE Link(h[k - 1])
      <3>1. CASE k = 0
        BY <2>2, <3>1
      <3>2. CASE k \in 1 .. m
        <4>1. k \in 0 .. m /\ k - 1 \in 0 .. m /\ k - 1 \in 0 .. m + 1
          BY <3>2
        <4>2. h[k] = g[k] /\ h[k - 1] = g[k - 1]
          BY <4>1
        <4>3. g[k] = Link(g[k - 1])
          BY <2>2, <3>2, <4>1
        <4> QED BY <3>2, <4>2, <4>3
      <3>3. CASE k = m + 1
        <4>1. h[m + 1] = Link(g[m]) /\ h[m] = g[m]
          OBVIOUS
        <4>2. k - 1 = m /\ k # 0
          BY <3>3
        <4> QED BY <3>3, <4>1, <4>2
      <3> QED BY <3>1, <3>2, <3>3
    <2>4. h = [k \in 0 .. m + 1 |-> IF k = 0 THEN file.cluster ELSE Link(h[k - 1])]
      <3> DEFINE hh == [k \in 0 .. m + 1 |->
                          IF k = 0 THEN file.cluster ELSE Link(h[k - 1])]
      <3>1. \A k \in 0 .. m + 1 : h[k] = hh[k]
        BY <2>3
      <3>2. h = [k \in 0 .. m + 1 |-> h[k]] /\ hh = [k \in 0 .. m + 1 |-> hh[k]]
        OBVIOUS
      <3> HIDE DEF h, hh
      <3>3. h = hh
        BY <3>1, <3>2
      <3> QED BY <3>3 DEF hh
    <2>5. IsChain(h, m + 1)
      BY <2>4 DEF IsChain
    <2> QED BY <2>5
  <1> HIDE DEF S
  <1>3. Nat \subseteq S
    BY <1>1, <1>2, NatSetInduction
  <1> QED BY <1>3 DEF S

LEMMA FileClusterIsChain == ASSUME NEW n \in Nat PROVE IsChain(FileCluster(n), n)
  <1>1. FileCluster(n) = CHOOSE g : IsChain(g, n)
    BY DEF FileCluster, IsChain
  <1> QED BY <1>1, ChainExists

LEMMA FileClusterFacts ==
  ASSUME NEW n \in Nat
  PROVE  /\ FileCluster(n)[0] = file.cluster
         /\ \A k \in 1 .. n : FileCluster(n)[k] = Link(FileCluster(n)[k - 1])
  <1> DEFINE g == FileCluster(n)
  <1>1. g = [k \in 0 .. n |-> IF k = 0 THEN file.cluster ELSE Link(g[k - 1])]
    BY FileClusterIsChain DEF IsChain
  <1> HIDE DEF g
  <1>2. g[0] = file.cluster
    BY <1>1
  <1>3. ASSUME NEW k \in 1 .. n PROVE g[k] = Link(g[k - 1])
    <2>1. k \in 0 .. n /\ k # 0
      OBVIOUS
    <2> QED BY <1>1, <2>1
  <1> QED BY <1>2, <1>3 DEF g

\* The k-th cluster, however far the chain is followed.
Nth(k) == FileCluster(k)[k]

LEMMA NthOfChain == ASSUME NEW n \in Nat, NEW k \in 0 .. n PROVE FileCluster(n)[k] = Nth(k)
  <1> DEFINE S == {m \in Nat : \A i, j \in Nat : m <= i /\ m <= j =>
                                  FileCluster(i)[m] = FileCluster(j)[m]}
  <1>1. 0 \in S
    BY FileClusterFacts
  <1>2. ASSUME NEW m \in Nat, m \in S PROVE m + 1 \in S
    <2>1. ASSUME NEW i \in Nat, NEW j \in Nat, m + 1 <= i, m + 1 <= j
          PROVE  FileCluster(i)[m + 1] = FileCluster(j)[m + 1]
      <3>1. m <= i /\ m <= j /\ m + 1 \in 1 .. i /\ m + 1 \in 1 .. j /\ (m + 1) - 1 = m
        BY <2>1
      <3>2. FileCluster(i)[m] = FileCluster(j)[m]
        BY <1>2, <3>1
      <3>3. /\ FileCluster(i)[m + 1] = Link(FileCluster(i)[m])
            /\ FileCluster(j)[m + 1] = Link(FileCluster(j)[m])
        BY <3>1, FileClusterFacts
      <3> QED BY <3>2, <3>3
    <2> QED BY <2>1
  <1> HIDE DEF S
  <1>3. k \in S
    BY <1>1, <1>2, NatSetInduction
  <1> QED BY <1>3 DEF S, Nth

LEMMA NthFacts ==
  ASSUME NEW k \in Nat
  PROVE  Nth(0) = file.cluster /\ Nth(k + 1) = Link(Nth(k))
  <1>1. Nth(0) = file.cluster
    BY FileClusterFacts DEF Nth
  <1>2. FileCluster(k + 1)[k + 1] = Link(FileCluster(k + 1)[k])
    <2>1. k + 1 \in Nat /\ k + 1 \in 1 .. k + 1 /\ (k + 1) - 1 = k
      OBVIOUS
    <2> QED BY <2>1, FileClusterFacts
  <1>3. FileCluster(k + 1)[k] = Nth(k)
    BY NthOfChain
  <1> QED BY <1>1, <1>2, <1>3 DEF Nth

LEMMA NthUnchanged ==
  ASSUME UNCHANGED <<img, file>>
  PROVE  \A k : Nth(k)' = Nth(k)
  BY Zenon DEF Nth, FileCluster, Link

LEMMA NthIsNat ==
  ASSUME img \in Images, file.cluster \in Nat, NEW k \in Nat
  PROVE  Nth(k) \in Nat
  <1>1. CASE k = 0
    BY <1>1, NthFacts
  <1>2. CASE k # 0
    <2>1. k - 1 \in Nat /\ (k - 1) + 1 = k
      BY <1>2
    <2>2. Nth(k) = Link(Nth(k - 1))
      BY <2>1, NthFacts
    <2> QED BY <2>2, LinkIsNat
  <1> QED BY <1>1, <1>2

-----------------------------------------------------------------------------
(* The load *)

\* The first n bytes of the buffer are those of the chain.
Copied(n) ==
  \A k \in 0 .. n - 1 :
     buf[k + 1] = ClusterOffset(Nth(k \div ClusterSize)) + (k % ClusterSize)

\* A file that can be loaded whole.
Loadable == Formatted /\ file.size > 0 /\ ChainHolds

\* Between two turns of the loop j whole clusters are in the buffer, and the next is
\* the j-th of the chain; what is returned is the whole file.
CopyInv ==
  Loadable =>
    /\ pc = "load" =>
         \E j \in Nat :
            /\ bytes_read = j * ClusterSize /\ bytes_read < file.size
            /\ cluster = Nth(j)
            /\ Copied(bytes_read)
    /\ ret = "loaded" => Copied(file.size)

LEMMA ClusterInChain ==
  ASSUME file.size \in Nat, file.size > 0, ClusterSize \in Nat \ {0}, ChainHolds,
         NEW j \in Nat, j * ClusterSize < file.size
  PROVE  InChain(Nth(j))
  <1> DEFINE cs == ClusterSize
             last == (file.size - 1) \div cs
  <1>1. /\ last \in Nat /\ (file.size - 1) % cs \in 0 .. cs - 1
        /\ file.size - 1 = last * cs + ((file.size - 1) % cs)
    <2>1. file.size - 1 \in Nat
      OBVIOUS
    <2> QED BY <2>1, QuotientFacts
  <1> DEFINE r == (file.size - 1) % cs
             d == j - last
  <1>2. j <= last
    <2>1. last \in Nat /\ r \in 0 .. cs - 1 /\ file.size - 1 = last * cs + r
          /\ j * cs < file.size /\ cs \in Nat \ {0} /\ j \in Nat /\ file.size \in Nat
      BY <1>1
    <2>2. d \in Int /\ d * cs = j * cs - last * cs
      <3> HIDE DEF last, cs, r
      <3> QED BY <2>1
    <2> HIDE DEF last, cs, r, d
    <2>3. d >= 1 => d * cs >= cs
      BY <2>1, <2>2
    <2>4. j * cs \in Nat /\ last * cs \in Nat
      BY <2>1, ProductIsNat
    <2>5. ~(d >= 1)
      BY <2>1, <2>2, <2>3, <2>4
    <2> QED BY <2>1, <2>2, <2>5 DEF d
  <1>3. InChain(FileCluster(last)[j])
    <2>1. j \in 0 .. last
      BY <1>1, <1>2
    <2> QED BY <2>1, Zenon DEF ChainHolds
  <1>4. FileCluster(last)[j] = Nth(j)
    BY <1>1, <1>2, NthOfChain
  <1> QED BY <1>3, <1>4

\* While image and file stay, so do the geometry and what can be loaded.
LEMMA LoadableUnchanged ==
  ASSUME UNCHANGED <<img, file>>
  PROVE  /\ ClusterSize' = ClusterSize /\ (\A c : ClusterOffset(c)' = ClusterOffset(c))
         /\ Loadable' <=> Loadable
  <1>1. ClusterSize' = ClusterSize /\ TotalClusters' = TotalClusters
    BY DEF ClusterSize, TotalClusters, TotalSectors, FirstDataSector, FatSize,
       RootDirSectors
  <1>2. \A c : ClusterOffset(c)' = ClusterOffset(c)
    BY DEF ClusterOffset, FirstDataSector, FatSize, RootDirSectors
  <1>3. Formatted' <=> Formatted
    BY DEF Formatted, TotalSectors, FirstDataSector, FatSize, RootDirSectors
  <1>4. \A n : FileCluster(n)' = FileCluster(n)
    BY Zenon DEF FileCluster, Link
  <1>5. ChainHolds' <=> ChainHolds
    BY <1>1, <1>4 DEF ChainHolds, InChain
  <1> QED BY <1>1, <1>2, <1>3, <1>5 DEF Loadable

LEMMA CopiedUnchanged ==
  ASSUME UNCHANGED <<img, file, buf>>, NEW n
  PROVE  Copied(n)' <=> Copied(n)
  <1>1. ClusterSize' = ClusterSize /\ (\A c : ClusterOffset(c)' = ClusterOffset(c))
    BY LoadableUnchanged
  <1>2. \A k : Nth(k)' = Nth(k)
    BY NthUnchanged
  <1> QED BY <1>1, <1>2, Zenon DEF Copied

\* One turn of the loop copies the j-th cluster, or the rest of the file, behind the
\* ones before.
LEMMA TurnCopies ==
  ASSUME LoadInv, TypeInv, LoadCluster, ClusterSize \in Nat \ {0},
         NEW j \in Nat, bytes_read = j * ClusterSize, cluster = Nth(j),
         Copied(bytes_read)
  PROVE  Copied(bytes_read)'
  <1> DEFINE cs == ClusterSize
             b == bytes_read
             chunk == ChunkSize
  <1>1. /\ pc = "load" /\ UNCHANGED <<img, file>> /\ bytes_read' = b + chunk
        /\ buf' = [k \in 1 .. file.size |->
                     IF k \in b + 1 .. b + chunk
                     THEN ClusterOffset(cluster) + k - b - 1 ELSE buf[k]]
    BY DEF LoadCluster
  <1>2. /\ file.size \in Nat /\ b \in Nat /\ chunk \in Nat /\ b + chunk <= file.size
        /\ chunk <= cs
    <2>1. b \in Nat /\ file.size \in Nat /\ b <= file.size
      BY <1>1 DEF LoadInv, NumbersOK, CopyWithinBuffer
    <2>2. chunk \in Nat /\ b + chunk <= file.size
      BY <2>1, ChunkFacts DEF LoadInv
    <2> QED BY <2>1, <2>2 DEF ChunkSize
  <1>3. ClusterOffset(cluster) \in Int
    BY <1>1, GeometryFacts DEF LoadInv, NumbersOK, TypeInv, TypeOK
  <1>4. ASSUME NEW k \in 0 .. bytes_read' - 1
        PROVE  buf'[k + 1] = ClusterOffset(Nth(k \div cs)) + (k % cs)
    <2>1. k \in Nat /\ k + 1 \in 1 .. file.size /\ k <= b + chunk - 1
      BY <1>1, <1>2
    <2>2. CASE k < b
      <3>1. k \in 0 .. b - 1 /\ k + 1 \notin b + 1 .. b + chunk
        BY <1>2, <2>1, <2>2
      <3>2. buf'[k + 1] = buf[k + 1]
        BY <1>1, <2>1, <3>1
      <3> QED BY <3>1, <3>2 DEF Copied
    <2>3. CASE k >= b
      <3> DEFINE r == k - b
      <3>1. r \in Nat /\ r < cs /\ k + 1 \in b + 1 .. b + chunk
        BY <1>2, <2>1, <2>3
      <3>2. buf'[k + 1] = ClusterOffset(cluster) + (k + 1) - b - 1
        BY <1>1, <2>1, <3>1
      <3>3. buf'[k + 1] = ClusterOffset(cluster) + r
        BY <1>2, <1>3, <2>1, <3>2
      <3>4. k = j * cs + r
        BY <1>2, <2>1
      <3> HIDE DEF r
      <3>5. k \div cs = j /\ k % cs = r
        BY <3>1, <3>4, QuotientUnique
      <3> QED BY <3>3, <3>5
    <2> QED BY <1>2, <2>1, <2>2, <2>3
  <1>5. ClusterSize' = ClusterSize /\ (\A c : ClusterOffset(c)' = ClusterOffset(c))
        /\ (\A k : Nth(k)' = Nth(k))
    BY <1>1, LoadableUnchanged, NthUnchanged
  <1>6. Copied(bytes_read)' <=> \A k \in 0 .. bytes_read' - 1 :
           buf'[k + 1] = ClusterOffset(Nth(k \div cs)) + (k % cs)
    BY <1>5, Zenon DEF Copied
  <1> QED BY <1>4, <1>6, Zenon

\* A load under way is of a volume with clusters, and its table is read right.
LEMMA LoadFacts ==
  ASSUME LoadInv, TypeInv, KindInv, Formatted, pc \in {"alloc", "load"}
  PROVE  ClusterSize \in Nat \ {0} /\ fat_type = img.kind
  BY GeometryFacts DEF LoadInv, NumbersOK, TypeInv, KindInv

LEMMA TurnKeepsCopy ==
  ASSUME LoadInv, TypeInv, KindInv, CopyInv, LoadCluster, Loadable
  PROVE  /\ pc' = "load" =>
              \E j \in Nat :
                 /\ bytes_read' = j * ClusterSize /\ bytes_read' < file.size
                 /\ cluster' = Nth(j)
                 /\ Copied(bytes_read)'
         /\ ret' = "loaded" => bytes_read' = file.size /\ Copied(bytes_read)'
  <1>1. pc = "load" /\ bytes_read' = bytes_read + ChunkSize
    BY DEF LoadCluster
  <1>2. PICK j \in Nat :
          /\ bytes_read = j * ClusterSize /\ bytes_read < file.size
          /\ cluster = Nth(j)
          /\ Copied(bytes_read)
    BY <1>1 DEF CopyInv
  <1>3. ClusterSize \in Nat \ {0} /\ fat_type = img.kind
    BY <1>1, LoadFacts DEF Loadable
  <1>4. Copied(bytes_read)'
    BY <1>2, <1>3, TurnCopies
  <1>5. /\ file.size \in Nat /\ bytes_read \in Nat /\ ChunkSize \in Nat
        /\ bytes_read + ChunkSize <= file.size
    BY <1>1, ChunkFacts DEF LoadInv, NumbersOK, CopyWithinBuffer
  <1>6. CASE bytes_read + ChunkSize >= file.size
    <2>1. pc' = "done"
      BY <1>5, <1>6 DEF LoadCluster, Finish
    <2>2. bytes_read' = file.size
      BY <1>1, <1>5, <1>6
    <2> QED BY <1>4, <2>1, <2>2
  <1>7. CASE bytes_read + ChunkSize < file.size
    <2>1. pc' = "load" /\ ret' = ret /\ ret = "none" /\ cluster' = NextCluster(cluster)
      BY <1>1, <1>5, <1>7 DEF LoadCluster, Finish, LoadInv
    <2>2. ChunkSize = ClusterSize
      BY <1>2, <1>3, <1>5, <1>7 DEF ChunkSize
    <2>3. bytes_read' = (j + 1) * ClusterSize
      <3> DEFINE cs == ClusterSize
      <3>1. cs \in Nat /\ bytes_read' = j * cs + cs
        BY <1>1, <1>2, <1>3, <2>2
      <3> HIDE DEF cs
      <3>2. j * cs + cs = (j + 1) * cs
        BY <3>1
      <3> QED BY <3>1, <3>2 DEF cs
    <2>4. cluster' = Nth(j + 1)
      <3>1. cluster \in Nat /\ img \in Images
        BY DEF TypeInv, TypeOK, LoadInv, NumbersOK
      <3>2. NextCluster(cluster) = Link(Nth(j))
        BY <1>2, <1>3, <3>1, NextIsLink
      <3> QED BY <2>1, <3>2, NthFacts
    <2>5. bytes_read' < file.size /\ j + 1 \in Nat
      BY <1>1, <1>7
    <2> QED BY <1>4, <2>1, <2>3, <2>4, <2>5
  <1> QED BY <1>5, <1>6, <1>7

LEMMA NextCopyInv ==
  ASSUME LoadInv, TypeInv, KindInv, ScanInv, CopyInv, [Next]_vars
  PROVE  CopyInv'
  <1>1. CASE LoadCluster
    <2>1. UNCHANGED <<img, file>>
      BY <1>1 DEF LoadCluster
    <2>2. /\ ClusterSize' = ClusterSize /\ (Loadable' <=> Loadable)
          /\ \A k : Nth(k)' = Nth(k)
      BY <2>1, LoadableUnchanged, NthUnchanged
    <2>3. bytes_read' = file.size /\ Copied(bytes_read)' => Copied(file.size)'
      BY <2>1 DEF Copied
    <2> QED BY <1>1, <2>1, <2>2, <2>3, TurnKeepsCopy DEF CopyInv
  <1>2. CASE AllocBuffer
    <2>1. /\ UNCHANGED <<img, file, ret>> /\ pc = "alloc" /\ bytes_read' = 0
          /\ cluster' = file.cluster /\ ret = "none"
      BY <1>2 DEF AllocBuffer, LoadInv
    <2>2. /\ ClusterSize' = ClusterSize /\ (Loadable' <=> Loadable)
          /\ \A k : Nth(k)' = Nth(k)
      BY <2>1, LoadableUnchanged, NthUnchanged
    <2>3. ASSUME Loadable
          PROVE  /\ bytes_read' = 0 * ClusterSize /\ bytes_read' < file.size
                 /\ cluster' = Nth(0)
      <3>1. ClusterSize \in Nat
        BY <2>1, <2>3, LoadFacts DEF Loadable
      <3> QED BY <2>1, <2>3, <3>1, NthFacts DEF Loadable
    <2>4. Copied(bytes_read)'
      BY <2>1 DEF Copied
    <2> QED BY <2>1, <2>2, <2>3, <2>4 DEF CopyInv
  <1>3. CASE ChainEnds
    <2>1. UNCHANGED <<img, file, cluster, buf, bytes_read>> /\ pc = "load"
          /\ pc' = "done" /\ ~InChain(cluster)
      BY <1>3 DEF ChainEnds, Finish
    <2>2. ~Loadable
      <3>1. SUFFICES ASSUME Loadable PROVE FALSE
        OBVIOUS
      <3>2. PICK j \in Nat : j * ClusterSize < file.size /\ cluster = Nth(j)
        BY <2>1, <3>1 DEF CopyInv
      <3>3. ClusterSize \in Nat \ {0} /\ file.size \in Nat
        BY <2>1, <3>1, LoadFacts DEF Loadable, LoadInv, NumbersOK
      <3> QED BY <2>1, <3>1, <3>2, <3>3, ClusterInChain DEF Loadable
    <2>3. ~Loadable'
      BY <2>1, <2>2, LoadableUnchanged
    <2> QED BY <2>3 DEF CopyInv
  <1>4. CASE Found \/ NextEntry \/ ParseBpb
    <2>1. pc' # "load" /\ ret' # "loaded"
      BY <1>4 DEF Found, NextEntry, ParseBpb, LoadInv
    <2> QED BY <2>1 DEF CopyInv
  <1>5. CASE NoVolume \/ NotFound \/ AllocFails
    <2>1. pc' # "load" /\ ret' # "loaded"
      BY <1>5 DEF NoVolume, NotFound, AllocFails, Finish
    <2> QED BY <2>1 DEF CopyInv
  <1>6. CASE UNCHANGED vars
    <2>1. UNCHANGED <<img, file, buf>> /\ UNCHANGED <<pc, cluster, bytes_read, ret>>
      BY <1>6 DEF vars
    <2>2. /\ ClusterSize' = ClusterSize /\ (Loadable' <=> Loadable)
          /\ (\A k : Nth(k)' = Nth(k))
      BY <2>1, LoadableUnchanged, NthUnchanged
    <2>3. /\ Copied(bytes_read)' <=> Copied(bytes_read)
          /\ Copied(file.size)' <=> Copied(file.size)
      BY <2>1, <2>2, LoadableUnchanged, Zenon DEF Copied
    <2> QED BY <2>1, <2>2, <2>3 DEF CopyInv
  <1> QED BY <1>1, <1>2, <1>3, <1>4, <1>5, <1>6 DEF Next

\* A file whose chain holds its size is loaded whole, from every volume as it is
\* formatted: of any geometry, in each of the three table formats, and for every chain.
THEOREM FileLoadedWhole == Spec => [](Formatted => WholeFileLoaded)
  <1>1. Init => LoadInv /\ TypeInv /\ KindInv /\ ScanInv /\ CopyInv
    BY DEF Init, NoFile, LoadInv, NumbersOK, CopyWithinBuffer, TypeInv, TypeOK, KindInv,
       ScanInv, FindsFirstLiveEntry, CopyInv
  <1>2. CopyInv => (Formatted => WholeFileLoaded)
    BY DEF CopyInv, Loadable, WholeFileLoaded, Copied, Nth
  <1> QED BY <1>1, <1>2, NextLoadInv, NextTypeInv, NextKindInv, NextScanInv, NextCopyInv,
          PTL DEF Spec

-----------------------------------------------------------------------------
(* The reader comes nearer to its end with every step *)

Less == OpToRel(<, Nat)
RankOrder == LexPairOrdering(Less, Less, Nat, Nat)

\* What is still to do: phases, then entries to scan or bytes to copy.
PhasesLeft ==
  CASE pc = "parse" -> 4 [] pc = "find" -> 3 [] pc = "alloc" -> 2 [] pc = "load" -> 1
    [] pc = "done" -> 0
EntriesLeft ==
  IF entries_checked < img.root_entry_count
  THEN img.root_entry_count - entries_checked ELSE 0
ItemsLeft ==
  IF pc = "find" THEN EntriesLeft
  ELSE IF pc = "load" THEN file.size - bytes_read ELSE 0

Rank == <<PhasesLeft, ItemsLeft>>
RankTyped == PhasesLeft \in Nat /\ ItemsLeft \in Nat
RankLowered == <<Rank', Rank>> \in RankOrder

LEMMA RankType == ASSUME LoadInv, TypeInv PROVE RankTyped
  <1>1. PhasesLeft \in Nat
    BY Zenon DEF TypeInv, TypeOK, PhasesLeft
  <1>2. img.root_entry_count \in Nat /\ entries_checked \in Nat
    BY ImageFacts DEF LoadInv, NumbersOK
  <1>3. pc = "load" => file.size - bytes_read \in Nat
    BY DEF LoadInv, NumbersOK, CopyWithinBuffer
  <1> QED BY <1>1, <1>2, <1>3 DEF ItemsLeft, EntriesLeft, RankTyped

\* A volume with a cluster size has clusters of at least one byte.
LEMMA ClusterHasBytes ==
  ASSUME LoadInv, TypeInv, pc = "load", img.sectors_per_cluster > 0
  PROVE  ClusterSize \in Nat /\ ClusterSize > 0
  <1>1. img.sector_size \in Nat \ {0} /\ img.sectors_per_cluster \in Nat \ {0}
    BY ImageFacts DEF LoadInv, NumbersOK, TypeInv
  <1>2. \A x, y \in Nat \ {0} : x * y \in Nat /\ x * y > 0
    OBVIOUS
  <1> QED BY <1>1, <1>2 DEF ClusterSize

\* Each step leaves fewer phases, or as many and fewer entries or bytes: a turn of
\* the copy loop that is not the last copies a whole cluster.
LEMMA StepLeavesLess ==
  ASSUME LoadInv, TypeInv, img.sectors_per_cluster > 0, Next
  PROVE  \/ PhasesLeft' < PhasesLeft
         \/ PhasesLeft' = PhasesLeft /\ ItemsLeft' < ItemsLeft
  <1>1. /\ pc = "parse" => PhasesLeft = 4
        /\ pc = "find" => PhasesLeft = 3
        /\ pc = "alloc" => PhasesLeft = 2
        /\ pc = "load" => PhasesLeft = 1
    BY Zenon DEF PhasesLeft
  <1>2. /\ pc' = "find" => PhasesLeft' = 3
        /\ pc' = "alloc" => PhasesLeft' = 2
        /\ pc' = "load" => PhasesLeft' = 1
        /\ pc' = "done" => PhasesLeft' = 0
    BY Zenon DEF PhasesLeft
  <1>3. CASE NextEntry
    <2>1. img.root_entry_count \in Nat /\ entries_checked \in Nat
      BY ImageFacts DEF LoadInv, NumbersOK
    <2>2. /\ pc = "find" /\ pc' = "find" /\ img' = img
          /\ entries_checked < img.root_entry_count
          /\ entries_checked' = entries_checked + 1
      BY <1>3 DEF NextEntry
    <2> QED BY <1>1, <1>2, <2>1, <2>2 DEF ItemsLeft, EntriesLeft
  <1>4. CASE LoadCluster /\ pc' = "load"
    <2>1. /\ pc = "load" /\ file' = file /\ bytes_read' = bytes_read + ChunkSize
          /\ bytes_read + ChunkSize < file.size
      BY <1>4 DEF LoadCluster, Finish
    <2>2. file.size \in Nat /\ bytes_read \in Nat
      BY DEF LoadInv, NumbersOK
    <2>3. ClusterSize \in Nat /\ ClusterSize > 0
      BY <2>1, ClusterHasBytes
    <2>4. ChunkSize = ClusterSize
      BY <2>1, <2>2, <2>3 DEF ChunkSize
    <2> QED BY <1>1, <1>2, <1>4, <2>1, <2>2, <2>3, <2>4 DEF ItemsLeft
  <1>5. CASE LoadCluster /\ pc' # "load"
    <2>1. pc = "load" /\ pc' = "done"
      BY <1>5 DEF LoadCluster, Finish
    <2> QED BY <1>1, <1>2, <2>1
  <1>6. CASE NoVolume \/ ParseBpb \/ Found \/ NotFound \/ AllocFails \/ AllocBuffer
             \/ ChainEnds
    <2>1. \/ pc = "parse" /\ pc' \in {"find", "done"}
          \/ pc = "find" /\ pc' \in {"alloc", "done"}
          \/ pc = "alloc" /\ pc' \in {"load", "done"}
          \/ pc = "load" /\ pc' = "done"
      BY <1>6 DEF NoVolume, ParseBpb, Found, NotFound, AllocFails, AllocBuffer,
         ChainEnds, Finish
    <2> QED BY <1>1, <1>2, <2>1
  <1> QED BY <1>3, <1>4, <1>5, <1>6 DEF Next

\* The reader cannot go on for ever, on any volume with a cluster size: neither a
\* chain that is a circle nor a directory without an end keeps it, for every step
\* lowers a rank that cannot be lowered for ever.  With the fairness of FairSpec,
\* this is why load_fat_file returns.
THEOREM ReaderNearsItsEnd ==
  /\ IsWellFoundedOn(RankOrder, Nat \X Nat)
  /\ Spec => [][img.sectors_per_cluster > 0 => RankLowered]_vars
  <1>1. IsWellFoundedOn(RankOrder, Nat \X Nat)
    BY NatLessThanWellFounded, WFLexPairOrdering DEF Less, RankOrder
  <1>2. Init => LoadInv /\ TypeInv
    BY DEF Init, NoFile, LoadInv, NumbersOK, CopyWithinBuffer, TypeInv, TypeOK
  <1>3. LoadInv /\ TypeInv => RankTyped
    BY RankType
  <1>4. ASSUME LoadInv, TypeInv, RankTyped, RankTyped', [Next]_vars
        PROVE  [img.sectors_per_cluster > 0 => RankLowered]_vars
    <2> SUFFICES ASSUME Next, img.sectors_per_cluster > 0 PROVE RankLowered
      BY <1>4
    <2> DEFINE p == PhasesLeft  n == ItemsLeft
    <2>1. p' < p \/ (p' = p /\ n' < n)
      BY <1>4, StepLeavesLess
    <2> QED BY <1>4, <2>1
            DEF Rank, RankTyped, RankLowered, RankOrder, Less, LexPairOrdering, OpToRel
  <1> QED BY <1>1, <1>2, <1>3, <1>4, NextLoadInv, NextTypeInv, PTL DEF Spec

=============================================================================

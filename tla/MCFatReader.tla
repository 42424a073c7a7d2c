---------------------------- MODULE MCFatReader -----------------------------
(***************************************************************************)
(* FatReader on formatted volumes with a handful of clusters in use.  The   *)
(* geometry is small (sectors of 4 bytes) but the cluster counts and the    *)
(* cluster numbers are real ones, at the borders of the three FAT types.    *)
(***************************************************************************)
EXTENDS FatReader

MCNames == {"sageos", "test"}

File(n, c, s) == [kind |-> "named", name |-> n, cluster |-> c, size |-> s]
Other(k) == [kind |-> k, name |-> "sageos", cluster |-> 2, size |-> 3]

Kind(n) == IF n < 4085 THEN "FAT12" ELSE IF n < 65525 THEN "FAT16" ELSE "FAT32"

\* A volume of n clusters of spc sectors, formatted as the FAT standard has it,
\* with a few sectors left over that make no cluster.
Volume(n, spc, entries, root, chained, links) ==
  LET first == 1 + 2 * 2 + (entries * 32 + 3) \div 4
      total == first + n * spc + spc - 1
  IN  [sector_size |-> 4, sectors_per_cluster |-> spc, reserved_sectors |-> 1,
       num_fats |-> 2, root_entry_count |-> entries,
       total_sectors_16 |-> IF total < 65536 THEN total ELSE 0,
       total_sectors_32 |-> IF total < 65536 THEN 0 ELSE total,
       fat_size_16 |-> IF Kind(n) = "FAT32" THEN 0 ELSE 2,
       fat_size_32 |-> IF Kind(n) = "FAT32" THEN 2 ELSE 0,
       kind |-> Kind(n), links |-> links, root |-> root, chained_root |-> chained]

\* A FAT whose only entry in use ends its chain.
OneCluster(n) ==
  LET eoc == [FAT12 |-> 4095, FAT16 |-> 65535, FAT32 |-> 268435455]
  IN  [c \in {2} |-> eoc[Kind(n)]]

\* Volumes whose FAT links three clusters in every way: chains, stubs, cycles,
\* free and end-of-chain entries.  The third cluster needs every bit of an entry.
Linked(n, third, eoc) ==
  {Volume(n, spc, 2, <<File("sageos", c, s)>>, <<>>, links) :
     spc \in {1, 2}, c \in {2, third}, s \in {0, 4, 7, 12},
     links \in [{2, 3, third} -> {0, 2, 3, third, eoc}]}

\* Volumes with every root directory of at most three entries, one of them
\* beyond the root_entry_count of two.
Directories ==
  LET entries == {Other("end"), Other("deleted"), Other("lfn"),
                  File("sageos", 2, 3), File("sageos", 3, 2), File("test", 2, 3)}
      upTo(n) == UNION {[1 .. k -> entries] : k \in 0 .. n}
  IN  {Volume(9, 2, 2, root, <<>>, OneCluster(9)) : root \in upTo(3)}

\* Both sides of every border between the FAT types, and no geometry at all.
Geometries ==
  {Volume(n, spc, 1, <<File("sageos", 2, 5)>>, <<>>, OneCluster(n)) :
     n \in {1, 4084, 4085, 65524, 65525}, spc \in {1, 2}}
  \union {[Volume(9, 1, 1, <<>>, <<>>, OneCluster(9)) EXCEPT !.sector_size = 0]}
  \union {[Volume(9, 1, 1, <<>>, <<>>, OneCluster(9)) EXCEPT !.total_sectors_16 = 3]}
  \union {[Volume(9, 1, 1, <<File("sageos", 2, 5)>>, <<>>, [c \in {2} |-> 2])
             EXCEPT !.sectors_per_cluster = 0]}

\* The largest FAT16 volumes: clusters up to 65525 hold files.
HighImages ==
  {Volume(65524, 1, 1, <<File("sageos", c, 9)>>, <<>>, links) :
     c \in {2, 65519, 65520},
     links \in [{2, 65519, 65520} -> {2, 65519, 65520, 65528}]}

ReadImages ==
  Linked(4084, 2049, 4088) \union Linked(65524, 32771, 65528)
    \union Linked(65525, 40000, 268435448)
    \union Directories \union Geometries \union HighImages

\* A FAT32 volume as formatted: no fixed root directory.
Fat32Images ==
  {Volume(65525, 1, 0, <<>>, root, OneCluster(65525)) :
     root \in UNION {[1 .. k -> {Other("deleted"), File("sageos", 3, 4)}] : k \in 1 .. 6}}
=============================================================================

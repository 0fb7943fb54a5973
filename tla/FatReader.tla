------------------------------ MODULE FatReader ------------------------------
(***************************************************************************)
(* What the kernel reads from a disk: the partition table                  *)
(* (src/src/filesystem/msdospart.cpp) and, for every partition, the root   *)
(* directory and the files of a FAT32 volume (filesystem/fat.cpp).         *)
(*                                                                         *)
(* One step is one Read28, or one turn of a loop without one.  Read28      *)
(* gives the sector or reports an error on the screen only and leaves the  *)
(* buffer as it was (AtaDriver): the caller goes on in either case.        *)
(***************************************************************************)
EXTENDS Integers, Sequences

CONSTANTS
  Words,       \* number of values of a uint32_t: 2^32
  Disk,        \* [sector -> content]: what can be read
  SectorSize,  \* bytes of a sector: 512
  PerSector,   \* FAT entries of a sector: 512/sizeof(uint32_t)
  Entries,     \* directory entries of a sector: 16
  Garbage,     \* [kind -> contents an uninitialised buffer may show]
  Failures     \* bound: reads that fail

(* What is used of the structures on the disk; the two halves of an entry's *)
(* first cluster are one number.                                           *)
UInt8 == 0 .. 255

MasterBootRecord ==
  [kind : {"mbr"}, magicnumber : Nat,
   primaryPartition : [0 .. 3 -> [partition_id : UInt8, start_lba : Nat]]]

BiosParameterBlock32 ==
  [kind : {"bpb"}, sectorPerCluster : UInt8, reservedSectors : Nat,
   fatCopies : UInt8, tableSize : Nat, rootCluster : Nat]

DirectoryEntryFat32 ==
  [name : STRING, attributes : SUBSET (0 .. 7), firstCluster : Nat, size : Nat]

DirectorySector ==
  [kind : {"dir"}, entries : [1 .. Entries -> DirectoryEntryFat32]]

FatSector ==
  [kind : {"fat"}, next : [0 .. PerSector - 1 -> 0 .. Words - 1]]

Structure ==
  [mbr |-> MasterBootRecord, bpb |-> BiosParameterBlock32, dir |-> DirectorySector,
   fat |-> FatSector]

Kinds == {"mbr", "bpb", "dir", "fat"}

ASSUME FatAssumption ==
  /\ Words \in Nat /\ Words > 0 /\ Words % 16 = 0
  /\ SectorSize \in Nat \ {0}
  /\ PerSector \in Nat \ {0}
  /\ Entries \in Nat
  /\ Failures \in Nat
  /\ DOMAIN Disk \subseteq 0 .. (Words \div 16) - 1   \* Read28: 28 bits
  /\ \A s \in DOMAIN Disk : Disk[s].kind \in Kinds => Disk[s] \in Structure[Disk[s].kind]
  /\ \A kind \in Kinds : Garbage[kind] \subseteq Structure[kind]

VARIABLES
  pc,               \* "mbr", "partition", "bpb", "root", "entry", "cluster",
                    \* "sector", "fat", "done"
  mbr, bpb, dirent, fatBuffer,   \* the buffers, by the content they hold
  buffer,           \* the sector the file buffer holds, -1 at first
  partition,        \* loop variable of ReadPartitions
  entry,            \* loop variable over dirent
  SIZE, nextFileCluster, sectorOffset,
  printed,          \* what was printed of the file: sectors and bytes of each
  failures          \* reads that failed since the volume was opened

volume == <<mbr, bpb, dirent, partition>>
file == <<SIZE, nextFileCluster, sectorOffset, buffer, fatBuffer, printed>>
vars == <<pc, volume, entry, file, failures>>

UInt32(x) == x % Words

Int32(x) == IF x < Words \div 2 THEN x ELSE x - Words

Low28(x) == x % (Words \div 16)

-----------------------------------------------------------------------------

(* The layout of the volume.                                               *)
PartitionOffset == mbr.primaryPartition[partition].start_lba
FatStart == UInt32(PartitionOffset + bpb.reservedSectors)
DataStart == UInt32(FatStart + bpb.tableSize * bpb.fatCopies)

(* The first data cluster has number 2.                                    *)
SectorOf(cluster) == UInt32(DataStart + bpb.sectorPerCluster * (cluster - 2))

Readable(s, kind) == s \in DOMAIN Disk /\ Disk[s].kind = kind

(* What a buffer of this kind shows after Read28 of sector s, given what it *)
(* may have shown before; a sector of another kind shows as garbage.       *)
Shows(s, kind, before) ==
  IF s \notin DOMAIN Disk THEN before
  ELSE IF Disk[s].kind = kind THEN {Disk[s]} ELSE Garbage[kind]

Succeeds == UNCHANGED failures
Fails == failures < Failures /\ failures' = failures + 1

(* Act is what the caller does with the content b of its buffer.           *)
Read28(s, kind, before, Act(_)) ==
  \/ Succeeds /\ \E b \in Shows(s, kind, before) : Act(b)
  \/ Fails /\ \E b \in before : Act(b)

-----------------------------------------------------------------------------
(* MSDOSPartitionTable::ReadPartitions.                                    *)

ReadMbr ==
  /\ pc = "mbr"
  /\ LET Use(b) == /\ mbr' = b
                   /\ pc' = IF b.magicnumber # 43605 THEN "done" ELSE "partition"
     IN  Read28(0, "mbr", Garbage["mbr"], Use)
  /\ UNCHANGED <<bpb, dirent, partition, entry, file>>

NextPartition ==
  /\ pc = "partition"
  /\ IF partition = 4
     THEN pc' = "done" /\ UNCHANGED partition
     ELSE IF mbr.primaryPartition[partition].partition_id = 0
     THEN partition' = partition + 1 /\ UNCHANGED pc
     ELSE pc' = "bpb" /\ UNCHANGED partition
  /\ UNCHANGED <<mbr, bpb, dirent, entry, file, failures>>

-----------------------------------------------------------------------------
(* ReadBiosParameterBlock.                                                 *)

(* Nothing is checked: neither the type of the partition nor what is read. *)
ReadBpb ==
  /\ pc = "bpb"
  /\ LET Use(b) == bpb' = b
     IN  Read28(PartitionOffset, "bpb", Garbage["bpb"], Use)
  /\ pc' = "root"
  /\ UNCHANGED <<mbr, dirent, partition, entry, file>>

ReadRoot ==
  /\ pc = "root"
  /\ LET Use(b) == dirent' = b.entries
     IN  Read28(SectorOf(bpb.rootCluster), "dir", Garbage["dir"], Use)
  /\ entry' = 0
  /\ pc' = "entry"
  /\ UNCHANGED <<mbr, bpb, partition, file>>

Dirent == dirent[entry + 1]

Unused == entry = Entries \/ Dirent.name = "unused"
LongName == {0, 1, 2, 3} \subseteq Dirent.attributes
Directory == 4 \in Dirent.attributes

\* Mutant: skipping an entry forgets to count it.
EntryAfterSkipStays == entry

EntryAfterSkip == entry + 1

NextEntry ==
  /\ pc = "entry"
  /\ IF Unused
     THEN /\ pc' = "partition"
          /\ partition' = partition + 1
          /\ failures' = 0
          /\ UNCHANGED <<entry, file>>
     ELSE IF LongName \/ Directory
     THEN /\ entry' = EntryAfterSkip
          /\ UNCHANGED <<pc, partition, file, failures>>
     ELSE /\ SIZE' = Int32(Dirent.size)
          /\ nextFileCluster' = Dirent.firstCluster
          /\ printed' = << >>
          /\ pc' = "cluster"
          /\ UNCHANGED <<partition, entry, sectorOffset, buffer, fatBuffer, failures>>
  /\ UNCHANGED <<mbr, bpb, dirent>>

NextCluster ==
  /\ pc = "cluster"
  /\ IF SIZE > 0
     THEN /\ pc' = "sector"
          /\ sectorOffset' = 0
          /\ UNCHANGED entry
     ELSE /\ pc' = "entry"
          /\ entry' = entry + 1
          /\ UNCHANGED sectorOffset
  /\ UNCHANGED <<volume, SIZE, nextFileCluster, buffer, fatBuffer, printed, failures>>

FileSector == UInt32(SectorOf(nextFileCluster) + sectorOffset)

\* Mutant: the terminator is written after SIZE bytes, whatever is left.
ShownUnbounded == SIZE

Shown == IF SIZE > SectorSize THEN SectorSize ELSE SIZE

\* Mutant: the last sector of a cluster is left out.
ClusterEndsEarly == sectorOffset + 1 > bpb.sectorPerCluster - 1

(* The loop is left when sectorOffset has gone beyond the cluster's size,  *)
(* after one sector too many, whose bytes are not taken off SIZE.          *)
ClusterEnds == sectorOffset + 1 > bpb.sectorPerCluster

(* A sector is read and printed; when the read fails, what the buffer held *)
(* before is printed again.                                                *)
ReadSector ==
  /\ pc = "sector"
  /\ \/ Succeeds /\ buffer' = IF FileSector \in DOMAIN Disk THEN FileSector
                               ELSE buffer
     \/ Fails /\ UNCHANGED buffer
  /\ printed' = Append(printed, <<buffer', Shown>>)
  /\ sectorOffset' = sectorOffset + 1
  /\ SIZE' = IF ClusterEnds THEN SIZE ELSE SIZE - SectorSize
  /\ pc' = IF ClusterEnds \/ SIZE' <= 0 THEN "fat" ELSE "sector"
  /\ UNCHANGED <<volume, entry, nextFileCluster, fatBuffer>>

ReadFat ==
  /\ pc = "fat"
  /\ LET Use(b) ==
           /\ fatBuffer' = b
           /\ nextFileCluster' = Low28(b.next[nextFileCluster % PerSector])
     IN  Read28(UInt32(FatStart + (nextFileCluster \div PerSector)), "fat",
                {fatBuffer}, Use)
  /\ pc' = "cluster"
  /\ UNCHANGED <<volume, entry, SIZE, sectorOffset, buffer, printed>>

-----------------------------------------------------------------------------

Init ==
  /\ pc = "mbr"
  /\ mbr \in Garbage["mbr"]
  /\ bpb \in Garbage["bpb"]
  /\ dirent \in {d.entries : d \in Garbage["dir"]}
  /\ fatBuffer \in Garbage["fat"]
  /\ buffer = -1
  /\ partition = 0
  /\ entry = 0
  /\ SIZE = 0
  /\ nextFileCluster = 0
  /\ sectorOffset = 0
  /\ printed = << >>
  /\ failures = 0

Next ==
  \/ ReadMbr \/ NextPartition
  \/ ReadBpb \/ ReadRoot \/ NextEntry
  \/ NextCluster \/ ReadSector \/ ReadFat

Spec == Init /\ [][Next]_vars

(* The boot goes on: every Read28 returns (AtaDriver's CallsReturn).       *)
FairSpec == Spec /\ WF_vars(Next)

-----------------------------------------------------------------------------

(* Types: the terminator is written inside the 513 bytes of the buffer.    *)
TypeOK ==
  /\ mbr \in MasterBootRecord
  /\ bpb \in BiosParameterBlock32
  /\ dirent \in [1 .. Entries -> DirectoryEntryFat32]
  /\ partition \in 0 .. 4
  /\ entry \in 0 .. Entries
  /\ pc \in {"cluster", "sector", "fat"} => ~Unused
  /\ pc = "sector" =>
       Shown \in 0 .. SectorSize /\ sectorOffset \in 0 .. bpb.sectorPerCluster
  /\ nextFileCluster \in Nat
  /\ failures \in 0 .. Failures

(* A FAT32 volume that begins at sector p: where cluster c lies, where the  *)
(* entry for it is in the FAT, and which cluster follows it (the upper four *)
(* bits of an entry are reserved).                                         *)
ClusterAt(p, c) ==
  p + Disk[p].reservedSectors + Disk[p].fatCopies * Disk[p].tableSize
    + Disk[p].sectorPerCluster * (c - 2)

FatAt(p, c) == p + Disk[p].reservedSectors + (c \div PerSector)

Link(p, c) == Low28(Disk[FatAt(p, c)].next[c % PerSector])

(* The clusters of a file, from the first one on.                          *)
Chain(p, first) ==
  LET chain[k \in Nat] == IF k = 0 THEN first ELSE Link(p, chain[k - 1])
  IN  chain

File(p, n) == Disk[ClusterAt(p, Disk[p].rootCluster)].entries[n]

Sectors(f) == (f.size + SectorSize - 1) \div SectorSize

(* The contents of file f: the sectors of its clusters, as far as its size  *)
(* goes, with the bytes of each.                                           *)
ContentOf(p, f, k) ==
  LET spc == Disk[p].sectorPerCluster
  IN  <<ClusterAt(p, Chain(p, f.firstCluster)[(k - 1) \div spc]) + ((k - 1) % spc),
        IF k < Sectors(f) THEN SectorSize
        ELSE f.size - (Sectors(f) - 1) * SectorSize>>

Contents(p, f) == [k \in 1 .. Sectors(f) |-> ContentOf(p, f, k)]

(* A volume whose root directory can be read.                              *)
SoundVolume(p) ==
  /\ Readable(p, "bpb")
  /\ Disk[p].sectorPerCluster # 0
  /\ Readable(ClusterAt(p, Disk[p].rootCluster), "dir")

(* A file of less than 2 GiB, all of which can be read: its links but that  *)
(* of the last cluster, and its sectors.                                   *)
SoundFile(p, f) ==
  /\ f.size < Words \div 2
  /\ \A k \in 0 .. ((Sectors(f) - 1) \div Disk[p].sectorPerCluster) - 1 :
       Readable(FatAt(p, Chain(p, f.firstCluster)[k]), "fat")
  /\ \A k \in 1 .. Sectors(f) : ContentOf(p, f, k)[1] \in DOMAIN Disk

(* Nothing was wrong with the volume and the file being read.              *)
Sound ==
  /\ failures = 0
  /\ SoundVolume(PartitionOffset)
  /\ SoundFile(PartitionOffset, File(PartitionOffset, entry + 1))

(* The reader is done with a file.                                         *)
FilePrinted == pc = "cluster" /\ SIZE <= 0 /\ Sound

(* The first n sectors of contents c are among those of s, in order.       *)
InOrder(c, n, s) ==
  \E at \in [1 .. n -> DOMAIN s] :
    /\ \A k \in 1 .. n : s[at[k]] = c[k]
    /\ \A j, k \in 1 .. n : j < k => at[j] < at[k]

(* Every sector of every file is printed, in the order of the file and     *)
(* with the right number of bytes, wherever its clusters and their links   *)
(* lie (beside sectors that do not belong there: see NothingExtra).        *)
NothingSkipped ==
  FilePrinted =>
    LET f == File(PartitionOffset, entry + 1)
    IN  InOrder(Contents(PartitionOffset, f), Sectors(f), printed)

(* "read sector by sector data of file until SIZE < 0 or all sectors in    *)
(* currentCluster are read" (fat.cpp:85): the file is printed as it is.    *)
NothingExtra ==
  FilePrinted =>
    printed = Contents(PartitionOffset, File(PartitionOffset, entry + 1))

(* No directory keeps the boot from going on, whatever fails and whatever  *)
(* chain the FAT holds, unless a cluster has no sectors at all.            *)
VolumeEnds == (pc = "entry" /\ bpb.sectorPerCluster # 0) ~> pc = "partition"
=============================================================================

---------------------------- MODULE MCFatReader -----------------------------
(* Sectors of two bytes, two FAT entries and four directory entries each.   *)
(* The first partition is a volume with two sectors per cluster and two     *)
(* FATs of four sectors: a long name, a directory, a file of two and a     *)
(* half clusters whose chain 4 -> 3 -> 6 runs back and forth over the FAT   *)
(* and a file of exactly one cluster.  The second one is not FAT.           *)
EXTENDS FatReader, TLC

Bpb(spc, reserved, size, copies, root) ==
  [kind |-> "bpb", sectorPerCluster |-> spc, reservedSectors |-> reserved,
   tableSize |-> size, fatCopies |-> copies, rootCluster |-> root]

Mbr(magic, parts) ==
  [kind |-> "mbr", magicnumber |-> magic, primaryPartition |->
     [k \in 0 .. 3 |-> [partition_id |-> parts[k + 1][1], start_lba |-> parts[k + 1][2]]]]

Dir(entries) ==
  [kind |-> "dir", entries |->
     [k \in 1 .. 4 |-> [name |-> entries[k][1], attributes |-> entries[k][2],
                        firstCluster |-> entries[k][3], size |-> entries[k][4]]]]

Fat(a, b) == [kind |-> "fat", next |-> (0 :> a @@ 1 :> b)]

Eof == 2^20 - 1  \* with 2^24 values of a uint32_t
Data == [kind |-> "data"]

MCDisk ==
  0 :> Mbr(43605, << <<12, 1>>, <<0, 0>>, <<131, 40>>, <<0, 0>> >>)
  @@ 1 :> Bpb(2, 1, 4, 2, 2)
  @@ 2 :> Fat(Eof, Eof) @@ 3 :> Fat(Eof, 6) @@ 4 :> Fat(3, Eof) @@ 5 :> Fat(Eof, 0)
  @@ 6 :> Fat(Eof, Eof) @@ 7 :> Fat(Eof, 6) @@ 8 :> Fat(3, Eof) @@ 9 :> Fat(Eof, 0)
  @@ 10 :> Dir(<< <<"long", {0, 1, 2, 3}, 0, 0>>, <<"dir", {4}, 5, 0>>,
                  <<"a", {5}, 4, 9>>, <<"b", {}, 5, 4>> >>)
  @@ [s \in 11 .. 19 |-> Data]
  @@ 40 :> Data

MCGarbage ==
  [mbr |-> {Mbr(0, << <<0, 0>>, <<0, 0>>, <<0, 0>>, <<0, 0>> >>)},
   bpb |-> {Bpb(1, 0, 0, 0, 0), Bpb(3, 1, 1, 1, 2)},
   dir |-> {Dir(<< <<"unused", {}, 0, 0>>, <<"x", {}, 0, 0>>,
                   <<"x", {}, 0, 0>>, <<"x", {}, 0, 0>> >>),
            Dir(<< <<"x", {}, 7, 3>>, <<"unused", {}, 0, 0>>,
                   <<"x", {}, 0, 0>>, <<"x", {}, 0, 0>> >>)},
   fat |-> {Fat(0, 0), Fat(Eof, 4)}]
=============================================================================

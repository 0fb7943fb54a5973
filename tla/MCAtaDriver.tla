---------------------------- MODULE MCAtaDriver -----------------------------
(* Sectors of two words.  Two sectors exist whose numbers differ in the     *)
(* order of two bytes, the second only on the master; a third number has    *)
(* more than 28 bits.  One byte of a buffer or three are transferred.       *)
EXTENDS AtaDriver, TLC

MCSectors == {16909060, 16974340, 268435456}  \* 0x01020304, 0x01030204, 0x10000000
MCJunk == -1
MCCounts == {1, 3}
MCBuffers == {[k \in 0 .. 3 |-> k]}
MCInitialDisk ==
  [m \in BOOLEAN |->
     IF m THEN 16909060 :> << <<1, 2>>, <<3, 4>> >> @@ 16974340 :> << <<9, 10>>, <<11, 12>> >>
          ELSE 16909060 :> << <<0, 0>>, <<0, 0>> >>]
=============================================================================

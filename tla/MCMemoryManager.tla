--------------------------- MODULE MCMemoryManager ---------------------------
(* A heap of 80 bytes in a 4096-byte address space, with the 16-byte      *)
(* header of the i386 build.  The sizes reach an empty block, a one-byte   *)
(* block, blocks whose leftover is too small to split, and a size so large *)
(* that adding a header to it wraps around.                                *)
EXTENDS MemoryManager

MCSizes == {0, 9, 30, 4090}
=============================================================================

--------------------------------- MODULE Gdt ---------------------------------
(***************************************************************************)
(* Segment descriptors: src/src/gdt.cpp.  A descriptor is its eight bytes, *)
(* [0 .. 7 -> 0 .. 255].  Bytes and nibbles are or-ed together where their *)
(* bits are disjoint, so that the sums below are what the code computes.   *)
(***************************************************************************)
EXTENDS Integers

(* Limits above 64 KiB are counted in pages of 4096 bytes.                 *)
Paged(limit) == limit > 65536

Stored(limit) ==
  IF ~Paged(limit) THEN limit
  ELSE IF limit % 4096 # 4095 THEN (limit \div 4096) - 1
  ELSE limit \div 4096

Flags(limit) == IF Paged(limit) THEN 192 ELSE 64   \* 0xC0, 0x40

SegmentDescriptor(base, limit, type) ==
  LET l == Stored(limit)
  IN  [i \in 0 .. 7 |->
         CASE i = 0 -> l % 256
           [] i = 1 -> (l \div 256) % 256
           [] i = 2 -> base % 256
           [] i = 3 -> (base \div 256) % 256
           [] i = 4 -> (base \div 65536) % 256
           [] i = 5 -> type
           [] i = 6 -> Flags(limit) + ((l \div 65536) % 16)
           [] i = 7 -> (base \div 16777216) % 256]

Base(t) == ((t[7] * 256 + t[4]) * 256 + t[3]) * 256 + t[2]

Limit(t) ==
  LET l == ((t[6] % 16) * 256 + t[1]) * 256 + t[0]
  IN  IF t[6] \div 64 = 3 THEN l * 4096 + 4095 ELSE l

(* The last byte a segment reaches is not beyond the limit asked for, and  *)
(* at most 4095 before it (gdt.cpp:49-53).                                 *)
Describes(t, base, limit) ==
  /\ Base(t) = base
  /\ Limit(t) <= limit /\ limit - Limit(t) <= 4095
=============================================================================

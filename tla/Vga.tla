--------------------------------- MODULE Vga ---------------------------------
(***************************************************************************)
(* The mode registers of the graphics card: SetMode and WriteRegisters of  *)
(* src/src/drivers/vga.cpp, one step per turn of a loop, and the card      *)
(* (external), which may ignore a write or take it for something else.     *)
(***************************************************************************)
EXTENDS Integers, Sequences

CONSTANT Cards  \* states the firmware may leave the card in

(* The table of SetMode: the banks of registers one after the other.       *)
Mode == <<
  99,                                                      \* misc
  3, 1, 15, 0, 14,                                         \* sequencer
  95, 79, 80, 130, 84, 128, 191, 31,                       \* CRTC
  0, 65, 0, 0, 0, 0, 0, 0,
  156, 14, 143, 40, 64, 150, 185, 163,
  255,
  0, 0, 0, 0, 0, 64, 5, 15,                                \* graphics
  255,
  0, 1, 2, 3, 4, 5, 6, 7,                                  \* attribute
  8, 9, 10, 11, 12, 13, 14, 15,
  65, 0, 15, 0, 0 >>

(* Where each bank begins in the table.                                    *)
First == [misc |-> 1, sequencer |-> 2, crtc |-> 7, graphics |-> 32,
         attribute |-> 41, end |-> 62]

Registers == 1 .. 61   \* a register goes by the place of its value
VgaCard ==
  [registers : [Registers -> 0 .. 255],
   index : 0 .. 63,            \* attribute index; bit 5: the picture is on
   latch : {"index", "value"}] \* what the attribute port takes the next write for

ASSUME VgaAssumption == Cards \subseteq VgaCard

VARIABLES
  card,   \* external
  bank,   \* where WriteRegisters is: a loop, or what it does between two
  place   \* the place in the table that registers points to

vgaVars == <<card, bank, place>>

-----------------------------------------------------------------------------
(* The card.                                                               *)

(* Bit 7 of register 0x11 protects the registers 0 to 7 of the CRTC.       *)
Protected(c) == c.registers[First.crtc + 17] >= 128

WriteCrtc(c, i, v) ==
  IF i < 8 /\ Protected(c) THEN c ELSE [c EXCEPT !.registers[First.crtc + i] = v]

(* One port for indices and values, in turn.                               *)
WriteAttribute(c, v) ==
  IF c.latch = "index" THEN [c EXCEPT !.index = v % 64, !.latch = "value"]
  ELSE IF c.index % 32 > 20 THEN [c EXCEPT !.latch = "index"]
  ELSE [c EXCEPT !.registers[First.attribute + (c.index % 32)] = v, !.latch = "index"]

ReadReset(c) == [c EXCEPT !.latch = "index"]

PictureOn(c) == c.index >= 32

-----------------------------------------------------------------------------
(* The driver.                                                             *)

SetBit7(v) == 128 + (v % 128)
ClearBit7(v) == v % 128

(* The table as it is written: two entries are changed first.              *)
Table ==
  [Mode EXCEPT ![First.crtc + 3] = SetBit7(@), ![First.crtc + 17] = ClearBit7(@)]

SupportMode(width, height, colordepth) ==
  width = 320 /\ height = 200 /\ colordepth = 8

SetMode(width, height, colordepth) ==
  /\ bank = "off"
  /\ bank' = IF SupportMode(width, height, colordepth) THEN "misc" ELSE "done"
  /\ UNCHANGED <<card, place>>

\* Mutant: register 0x11 is written back as it was read.
UnprotectedNot(c) ==
  LET c3 == WriteCrtc(c, 3, SetBit7(c.registers[First.crtc + 3]))
  IN  WriteCrtc(c3, 17, c3.registers[First.crtc + 17])

(* The card after register 3 and register 0x11 were read and written back. *)
Unprotected(c) ==
  LET c3 == WriteCrtc(c, 3, SetBit7(c.registers[First.crtc + 3]))
  IN  WriteCrtc(c3, 17, ClearBit7(c3.registers[First.crtc + 17]))

Unprotect ==
  /\ bank = "protected"
  /\ card' = Unprotected(card)
  /\ bank' = "crtc"
  /\ UNCHANGED place

(* One turn of the loop over bank b, which ends at the place end.          *)
Turn(b, end, after, written) ==
  /\ bank = b
  /\ card' = written
  /\ place' = place + 1
  /\ bank' = IF place + 1 = end THEN after ELSE b

Plain == [card EXCEPT !.registers[place] = Table[place]]

Crtc == WriteCrtc(card, place - First.crtc, Table[place])

(* The reset port is read first, so that the next write is an index.       *)
AttributePair ==
  WriteAttribute(WriteAttribute(ReadReset(card), place - First.attribute), Table[place])

(* The last index, 0x20, comes alone.                                      *)
EnablePicture ==
  /\ bank = "picture"
  /\ card' = WriteAttribute(ReadReset(card), 32)
  /\ bank' = "done"
  /\ UNCHANGED place

WriteRegisters ==
  \/ Turn("misc", First.sequencer, "sequencer", Plain)
  \/ Turn("sequencer", First.crtc, "protected", Plain)
  \/ Unprotect
  \/ Turn("crtc", First.graphics, "graphics", Crtc)
  \/ Turn("graphics", First.attribute, "attribute", Plain)
  \/ Turn("attribute", First.end, "picture", AttributePair)
  \/ EnablePicture

VgaInit ==
  /\ card \in Cards
  /\ bank = "off"
  /\ place = 1

(* GetFrameBufferSegment: where the processor sees the picture, from       *)
(* register 6 of the graphics bank.                                        *)
FrameBufferSegment ==
  LET segmentNumber == (card.registers[First.graphics + 6] \div 4) % 4
  IN  CASE segmentNumber = 0 -> 0
        [] segmentNumber = 1 -> 655360   \* 0xA0000
        [] segmentNumber = 2 -> 720896   \* 0xB0000
        [] segmentNumber = 3 -> 753664   \* 0xB8000
=============================================================================

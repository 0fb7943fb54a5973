---------------------------- MODULE InputDrivers -----------------------------
(***************************************************************************)
(* The keyboard and the mouse driver (src/src/drivers/keyboard.cpp and     *)
(* mouse.cpp) and what they share: the PS/2 controller, one output buffer  *)
(* for the bytes of both devices and for the controller's own answers.     *)
(*                                                                         *)
(* The kernel activates the keyboard, then the mouse, with interrupts      *)
(* disabled, and enables them afterwards.  From then on a byte in the      *)
(* output buffer raises IRQ1 or IRQ12, if the configuration allows it, and *)
(* the handler runs with interrupts disabled: it is one step.              *)
(*                                                                         *)
(* Assumed of the devices: the keyboard's bytes reach the output buffer    *)
(* only once the interrupts are enabled, its answer to 0xF4 included; and, *)
(* when MousePrompt, the mouse has answered before the driver reads.       *)
(***************************************************************************)
EXTENDS Integers, Sequences

CONSTANTS
  Codes,           \* scan codes the user's keys send
  Packets,         \* movements the mouse sends: <<flags, dx, dy>>
  MousePrompt,     \* the mouse answers 0xF4 before the driver reads
  KeyboardBuffer,  \* bound: bytes waiting in the keyboard
  MouseBuffer      \* bound: bytes waiting in the mouse

ASSUME InputAssumption ==
  /\ Codes \subseteq 0 .. 255
  /\ Packets \subseteq (0 .. 255) \X (0 .. 255) \X (0 .. 255)
  /\ MousePrompt \in BOOLEAN
  /\ KeyboardBuffer \in Nat
  /\ MouseBuffer \in Nat

Ack == 250   \* 0xFA, what a device answers to 0xF4
Empty == [from |-> "none", data |-> -1]

VARIABLES
  obf,      \* the controller's output buffer: a byte and who sent it
  config,   \* bits set in the controller's configuration byte
  kbdQ,     \* bytes waiting in the keyboard
  auxQ,     \* bytes waiting in the mouse
  pc,       \* progress of DriverManager::ActivateAll
  Shift,    \* keyboard.cpp's static Shift
  buffer,   \* MouseDriver: bytes of the packet being received
  offset,   \* MouseDriver: where the next byte goes
  buttons,  \* MouseDriver: first byte of the last packet
  key,      \* what OnKeyDown was last told: <<scan code, shifted>>
  move,     \* what OnMouseMove was last told: <<x, y>>
  down      \* buttons OnMouseDown was told of and OnMouseUp not yet

devices == <<kbdQ, auxQ>>
keyboard == <<Shift, key>>
mouse == <<buffer, offset, buttons, move, down>>
vars == <<obf, config, devices, pc, keyboard, mouse>>

-----------------------------------------------------------------------------
(* The controller and the devices.                                         *)

Full == obf.from # "none"
Irq1 == obf.from \in {"keyboard", "controller"} /\ 0 \in config
Irq12 == obf.from = "mouse" /\ 1 \in config

Type(c) ==
  /\ Len(kbdQ) < KeyboardBuffer
  /\ kbdQ' = Append(kbdQ, c)
  /\ UNCHANGED <<obf, config, auxQ, pc, keyboard, mouse>>

Slide(p) ==
  /\ pc \in {"mouseAck", "run"}   \* it was told to report
  /\ Len(auxQ) + 3 <= MouseBuffer
  /\ auxQ' = auxQ \o p
  /\ UNCHANGED <<obf, config, kbdQ, pc, keyboard, mouse>>

Bit(b, i) == (b \div 2^i) % 2

(* Command 0x20: the controller answers with its configuration, when the   *)
(* output buffer is free; a byte that waits there is read in its place.    *)
Answer(configuration) ==
  IF Full THEN obf ELSE [from |-> "controller", data |-> configuration]

(* The bits of what the driver reads as the configuration.                 *)
Status ==
  IF obf.from = "controller" THEN obf.data ELSE {i \in 0 .. 7 : Bit(obf.data, i) = 1}

(* A device hands its next byte over when its clock is not disabled.       *)
KeyboardSends ==
  /\ pc = "run" /\ ~Full /\ kbdQ # << >> /\ 4 \notin config
  /\ obf' = [from |-> "keyboard", data |-> Head(kbdQ)]
  /\ kbdQ' = Tail(kbdQ)
  /\ UNCHANGED <<config, auxQ, pc, keyboard, mouse>>

MouseSends ==
  /\ ~Full /\ auxQ # << >> /\ 5 \notin config
  /\ obf' = [from |-> "mouse", data |-> Head(auxQ)]
  /\ auxQ' = Tail(auxQ)
  /\ UNCHANGED <<config, kbdQ, pc, keyboard, mouse>>

-----------------------------------------------------------------------------
(* KeyboardDriver::Activate.                                               *)

\* Mutant: a byte that is in the buffer stays there.
DrainNothing ==
  /\ pc = "drain"
  /\ pc' = "kbdAsk"
  /\ UNCHANGED <<obf, config, devices, keyboard, mouse>>

Drain ==
  /\ pc = "drain"
  /\ obf' = Empty
  /\ pc' = IF Full THEN "drain" ELSE "kbdAsk"
  /\ UNCHANGED <<config, devices, keyboard, mouse>>

(* 0xAE enables the keyboard's clock; the answer to 0x20 is the config.    *)
KeyboardAsk ==
  /\ pc = "kbdAsk"
  /\ config' = config \ {4}
  /\ obf' = Answer(config')
  /\ pc' = "kbdSet"
  /\ UNCHANGED <<devices, keyboard, mouse>>

KeyboardConfig(status) == (status \cup {0}) \ {4}

KeyboardSet ==
  /\ pc = "kbdSet"
  /\ config' = KeyboardConfig(Status)
  /\ obf' = Empty
  /\ pc' = "kbdEnable"
  /\ UNCHANGED <<devices, keyboard, mouse>>

(* 0xF4; the acknowledgement comes through the interrupt handler.          *)
KeyboardEnable ==
  /\ pc = "kbdEnable"
  /\ kbdQ' = Append(kbdQ, Ack)
  /\ pc' = "mouseAsk"
  /\ UNCHANGED <<obf, config, auxQ, keyboard, mouse>>

-----------------------------------------------------------------------------
(* MouseDriver::Activate.                                                  *)

(* 0xA8 enables the mouse's clock; the answer to 0x20 is the config.       *)
MouseAsk ==
  /\ pc = "mouseAsk"
  /\ offset' = 0
  /\ buttons' = 0
  /\ config' = config \ {5}
  /\ obf' = Answer(config')
  /\ pc' = "mouseSet"
  /\ UNCHANGED <<devices, keyboard, buffer, move, down>>

MouseSet ==
  /\ pc = "mouseSet"
  /\ config' = Status \cup {1}
  /\ obf' = Empty
  /\ pc' = "mouseEnable"
  /\ UNCHANGED <<devices, keyboard, mouse>>

(* 0xD4, 0xF4.                                                             *)
MouseEnable ==
  /\ pc = "mouseEnable"
  /\ auxQ' = Append(auxQ, Ack)
  /\ pc' = "mouseAck"
  /\ UNCHANGED <<obf, config, kbdQ, keyboard, mouse>>

\* Mutant: the driver does not read the acknowledgement.
MouseAckUnread ==
  /\ pc = "mouseAck"
  /\ MousePrompt => Full
  /\ pc' = "run"
  /\ UNCHANGED <<obf, config, devices, keyboard, mouse>>

(* The driver reads the data port without looking whether there is a byte. *)
MouseAck ==
  /\ pc = "mouseAck"
  /\ MousePrompt => Full
  /\ obf' = Empty
  /\ pc' = "run"   \* and the kernel enables the interrupts
  /\ UNCHANGED <<config, devices, keyboard, mouse>>

Activate ==
  \/ Drain \/ KeyboardAsk \/ KeyboardSet \/ KeyboardEnable
  \/ MouseAsk \/ MouseSet \/ MouseEnable \/ MouseAck

-----------------------------------------------------------------------------
(* KeyboardDriver::HandleInterrupt.                                        *)

Printable == (2 .. 11) \cup (16 .. 25) \cup (30 .. 38) \cup (44 .. 53) \cup {57}
Space == 57
ShiftDown == {42, 54}
ShiftUp == {170, 182}

\* Mutant: any key coming up ends the shift.
ShiftAfterAnyUp(c) ==
  \/ c \in ShiftDown
  \/ Shift /\ c < 128

ShiftAfter(c) ==
  \/ c \in ShiftDown
  \/ Shift /\ c \notin ShiftUp

KeyboardHandler ==
  /\ pc = "run" /\ Irq1
  /\ obf' = Empty
  /\ Shift' = ShiftAfter(obf.data)
  /\ key' = IF obf.data \in Printable
            THEN <<obf.data, Shift /\ obf.data # Space>>
            ELSE key
  /\ UNCHANGED <<config, devices, pc, mouse>>

-----------------------------------------------------------------------------
(* MouseDriver::HandleInterrupt.                                           *)

Int8(b) == IF b < 128 THEN b ELSE b - 256

\* Mutant: a packet has four bytes.
NextOffsetOfFour == (offset + 1) % 4

NextOffset == (offset + 1) % 3

(* mouse.cpp:86 reads (flags & 1<<i) != buttons & 1<<i, which C++ parses as *)
(* ((flags & 1<<i) != buttons) & 1<<i: nonzero at most for i = 0.          *)
Differs(flags, i) == i = 0 /\ Bit(flags, 0) # buttons

(* Button i+1 is reported up when it was down before, else down.           *)
DownAfter(flags) ==
  LET changed == {i \in 0 .. 2 : Differs(flags, i)}
      up == {i \in changed : Bit(buttons, i) = 1}
  IN  (down \ {i + 1 : i \in up}) \cup {i + 1 : i \in changed \ up}

Report(b) ==
  IF b[1] # 0 \/ b[2] # 0
  THEN /\ move' = <<Int8(b[1]), -Int8(b[2])>>
       /\ down' = DownAfter(b[0])
       /\ buttons' = b[0]
  ELSE UNCHANGED <<move, down, buttons>>

\* Mutant: the bit of the status byte is tested the wrong way around.
ForMouseNot == obf.from # "mouse"

(* Bit 5 of the status byte: the output buffer holds a byte of the mouse.  *)
ForMouse == obf.from = "mouse"

MouseHandler ==
  /\ pc = "run" /\ Irq12
  /\ IF ForMouse
     THEN /\ obf' = Empty
          /\ buffer' = [buffer EXCEPT ![offset] = obf.data]
          /\ offset' = NextOffset
          /\ IF NextOffset = 0 THEN Report(buffer')
                               ELSE UNCHANGED <<move, down, buttons>>
     ELSE UNCHANGED <<obf, mouse>>
  /\ UNCHANGED <<config, devices, pc, keyboard>>

-----------------------------------------------------------------------------

(* The firmware may leave a byte behind, interrupts and clocks as it likes, *)
(* and has set the system flag and the translation of scan codes, bits 2   *)
(* and 6.  Offset and buttons have no value before Activate, and nothing   *)
(* reads them.                                                             *)
Init ==
  /\ obf \in {Empty} \cup {[from |-> "keyboard", data |-> c] : c \in Codes}
  /\ config \in {{2, 6} \cup c : c \in SUBSET {0, 1, 4, 5}}
  /\ kbdQ = << >>
  /\ auxQ = << >>
  /\ pc = "drain"
  /\ Shift = FALSE
  /\ buffer = [i \in 0 .. 2 |-> 0]
  /\ offset = 0
  /\ buttons = 0
  /\ key = << >>
  /\ move = << >>
  /\ down = {}

Next ==
  \/ \E c \in Codes : Type(c)
  \/ \E p \in Packets : Slide(p)
  \/ KeyboardSends
  \/ MouseSends
  \/ Activate
  \/ KeyboardHandler
  \/ MouseHandler

Spec == Init /\ [][Next]_vars

(* The kernel gets on with booting, a prompt mouse does answer, and every  *)
(* request that is raised is served (InterruptManager's RequestsServed).   *)
FairSpec ==
  /\ Spec
  /\ WF_vars(Activate)
  /\ WF_vars(MouseSends)
  /\ WF_vars(KeyboardHandler)
  /\ WF_vars(MouseHandler)

-----------------------------------------------------------------------------

Byte == 0 .. 255

(* The byte of a device that its handler has not read yet.                 *)
Held(device) ==
  IF pc = "run" /\ obf.from = device THEN <<obf.data>> ELSE << >>

(* Types.                                                                  *)
TypeOK ==
  /\ \/ obf \in [from : {"keyboard", "mouse"}, data : Byte]
     \/ obf.from = "controller" /\ obf.data \subseteq 0 .. 7
     \/ obf.from = "none"
  /\ config \subseteq 0 .. 7
  /\ kbdQ \in Seq(Byte)
  /\ auxQ \in Seq(Byte)
  /\ pc \in {"drain", "kbdAsk", "kbdSet", "kbdEnable", "mouseAsk", "mouseSet",
             "mouseEnable", "mouseAck", "run"}
  /\ Shift \in BOOLEAN
  /\ buffer \in [0 .. 2 -> Byte]
  /\ offset \in 0 .. 2
  /\ buttons \in Byte
  /\ key = << >> \/ key \in Printable \X BOOLEAN
  /\ move = << >> \/ move \in (-128 .. 127) \X (-127 .. 128)
  /\ down \subseteq 1 .. 3

(* Whatever the firmware left, in the configuration and in the buffer,     *)
(* both devices are heard once the interrupts are enabled (interrupts and  *)
(* clocks of both are on), and the bits of others are as they were: a byte *)
(* the firmware left behind is never written back as the configuration.    *)
BothHeard == pc = "run" => config = {0, 1, 2, 6}

(* The bytes of the mouse not yet reported, including those its handler    *)
(* already took, are whole packets: flags are never taken for a movement.  *)
Framed ==
  pc = "run" =>
    (offset + Len(Held("mouse")) + Len(auxQ)) % 3 = 0

(* No byte stays in the output buffer, where it would block both devices.  *)
BytesTaken == Full ~> ~Full

(* The handler's idea of the buttons that are down is the driver's.        *)
ButtonsMirrored == down = {i + 1 : i \in {j \in 0 .. 2 : Bit(buttons, j) = 1}}

-----------------------------------------------------------------------------

(* What the mouse sent after its acknowledgement and is not reported yet.  *)
MouseBytes ==
  LET inMouse == IF pc = "mouseAck" /\ ~Full THEN Tail(auxQ) ELSE auxQ
  IN  [i \in 1 .. offset |-> buffer[i - 1]] \o Held("mouse") \o inMouse

User == INSTANCE UserInput WITH
  Codes <- Codes \cup {Ack},
  keys  <- Held("keyboard") \o kbdQ,
  moves <- [i \in 1 .. Len(MouseBytes) \div 3 |->
              SubSeq(MouseBytes, 3 * i - 2, 3 * i)]

(* Interleaved in one buffer and cut into bytes, the keys and movements of *)
(* the two devices are nevertheless reported completely, once and in order.*)
ImplementsUserInput == User!Spec
=============================================================================

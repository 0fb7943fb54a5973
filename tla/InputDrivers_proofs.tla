------------------------- MODULE InputDrivers_proofs --------------------------
(***************************************************************************)
(* Theorems about the two input drivers, for every set of scan codes and   *)
(* movements and any number of bytes waiting in the devices.               *)
(***************************************************************************)
EXTENDS InputDrivers, SequenceTheorems, TLAPS

(* A movement is three bytes.                                              *)
LEMMA PacketBytes ==
  ASSUME NEW p \in Packets
  PROVE  p \in Seq(Byte) /\ Len(p) = 3
<1>1. p \in Byte \X Byte \X Byte
  BY InputAssumption DEF Byte
<1>2. p[1] \in Byte /\ p[2] \in Byte /\ p[3] \in Byte /\ p = <<p[1], p[2], p[3]>>
  BY <1>1
<1>3. <<p[1], p[2], p[3]>> \in Seq(Byte) /\ Len(<<p[1], p[2], p[3]>>) = 3
  BY <1>2
<1> QED
  BY <1>2, <1>3

LEMMA SlideLengthens ==
  ASSUME TypeOK, NEW p \in Packets, Slide(p)
  PROVE  Len(auxQ) \in Nat /\ Len(auxQ') = Len(auxQ) + 3
<1>1. auxQ \in Seq(Byte) /\ p \in Seq(Byte) /\ Len(p) = 3
  BY PacketBytes DEF TypeOK
<1>2. auxQ' = auxQ \o p
  BY DEF Slide
<1>3. Len(auxQ \o p) = Len(auxQ) + Len(p)
  BY <1>1, ConcatProperties
<1> QED
  BY <1>1, <1>2, <1>3

(* Bytes of packets, counted modulo three: k taken, h on the way, n left.  *)
LEMMA Thirds ==
  ASSUME NEW k \in 0 .. 2, NEW h \in 0 .. 1, NEW n \in Nat
  PROVE  /\ (k + h + (n + 3)) % 3 = (k + h + n) % 3
         /\ (((k + 1) % 3) + 0 + n) % 3 = (k + 1 + n) % 3
<1>1. (k + h + (n + 3)) % 3 = (k + h + n) % 3
  BY SMT
<1>2. k = 0 \/ k = 1 \/ k = 2
  OBVIOUS
<1>3. (((k + 1) % 3) + 0 + n) % 3 = (k + 1 + n) % 3
  BY <1>2
<1> QED
  BY <1>1, <1>3

LEMMA BytesSigned ==
  ASSUME NEW b \in Byte
  PROVE  Int8(b) \in -128 .. 127 /\ -Int8(b) \in -127 .. 128
<1>1. b \in Int /\ 0 <= b /\ b <= 255
  BY DEF Byte
<1>2. Int8(b) \in -128 .. 127
  BY <1>1 DEF Int8
<1> QED
  BY <1>2

-----------------------------------------------------------------------------
(* How far the activation has come, and what that left in the controller.  *)

(* A byte the firmware left is gone before the first answer is read, and   *)
(* no device sends anything until the drivers have read theirs.            *)
Answers ==
  /\ pc = "drain" => obf.from # "controller"
  /\ pc \in {"kbdAsk", "kbdEnable", "mouseAsk", "mouseEnable"} => ~Full
  /\ pc \in {"kbdSet", "mouseSet"} => obf.from = "controller" /\ obf.data = config
  /\ pc = "mouseAck" => ~Full \/ obf.from = "mouse"
  /\ pc = "run" => obf.from # "controller"

(* What each device's Activate has put into the configuration so far.      *)
Configured ==
  /\ \A i \in config : i \in {0, 1, 2, 4, 5, 6}
  /\ 2 \in config /\ 6 \in config
  /\ pc = "kbdSet" => 4 \notin config
  /\ pc \in {"kbdEnable", "mouseAsk", "mouseSet", "mouseEnable", "mouseAck", "run"} =>
       0 \in config /\ 4 \notin config
  /\ pc \in {"mouseSet", "mouseEnable", "mouseAck", "run"} => 5 \notin config
  /\ pc \in {"mouseEnable", "mouseAck", "run"} => 1 \in config

(* The mouse is silent until it is told to report.  Its answer is the      *)
(* first byte it sends, in the mouse or already in the output buffer.      *)
Acknowledged ==
  /\ pc \notin {"mouseAck", "run"} => auxQ = << >>
  /\ pc \notin {"drain", "kbdAsk", "kbdSet", "kbdEnable", "mouseAsk", "run"} => offset = 0
  /\ pc = "mouseAck" => Len(auxQ) % 3 = (IF Full THEN 0 ELSE 1)

-----------------------------------------------------------------------------

LEMMA TypeSteps ==
  ASSUME TypeOK, Answers, Next
  PROVE  TypeOK'
<1>1. ASSUME NEW c \in Codes, Type(c) PROVE TypeOK'
  <2>1. c \in Byte
    BY InputAssumption DEF Byte
  <2>2. kbdQ' \in Seq(Byte)
    BY <1>1, <2>1 DEF Type, TypeOK
  <2> QED
    BY <1>1, <2>2 DEF Type, TypeOK, keyboard, mouse
<1>2. ASSUME NEW p \in Packets, Slide(p) PROVE TypeOK'
  <2>1. auxQ' \in Seq(Byte)
    BY <1>2, PacketBytes DEF Slide, TypeOK
  <2> QED
    BY <1>2, <2>1 DEF Slide, TypeOK, keyboard, mouse
<1>3. CASE KeyboardSends
  <2>1. kbdQ' \in Seq(Byte) /\ Head(kbdQ) \in Byte
    BY <1>3 DEF KeyboardSends, TypeOK
  <2> QED
    BY <1>3, <2>1 DEF KeyboardSends, TypeOK, keyboard, mouse
<1>4. CASE MouseSends
  <2>1. auxQ' \in Seq(Byte) /\ Head(auxQ) \in Byte
    BY <1>4 DEF MouseSends, TypeOK
  <2> QED
    BY <1>4, <2>1 DEF MouseSends, TypeOK, keyboard, mouse
<1>5. CASE Drain
  BY <1>5 DEF Drain, TypeOK, Empty, devices, keyboard, mouse
<1>6. CASE KeyboardAsk
  BY <1>6 DEF KeyboardAsk, Answer, TypeOK, devices, keyboard, mouse
<1>7. CASE KeyboardSet
  <2>1. config' \subseteq 0 .. 7
    BY <1>7 DEF KeyboardSet, KeyboardConfig, Status, Answers, TypeOK
  <2> QED
    BY <1>7, <2>1 DEF KeyboardSet, TypeOK, Empty, devices, keyboard, mouse
<1>8. CASE KeyboardEnable
  <2>1. kbdQ' \in Seq(Byte)
    BY <1>8 DEF KeyboardEnable, TypeOK, Ack, Byte
  <2> QED
    BY <1>8, <2>1 DEF KeyboardEnable, TypeOK, keyboard, mouse
<1>9. CASE MouseAsk
  <2>1. config' \subseteq 0 .. 7
    BY <1>9 DEF MouseAsk, TypeOK
  <2>2. obf' = obf \/ obf' = [from |-> "controller", data |-> config']
    BY <1>9 DEF MouseAsk, Answer
  <2>3. \/ obf' \in [from : {"keyboard", "mouse"}, data : Byte]
        \/ obf'.from = "controller" /\ obf'.data \subseteq 0 .. 7
        \/ obf'.from = "none"
    <3>1. CASE obf' = obf
      BY <3>1 DEF TypeOK
    <3>2. CASE obf' = [from |-> "controller", data |-> config']
      <4>1. obf'.from = "controller" /\ obf'.data = config'
        BY <3>2
      <4> QED
        BY <2>1, <4>1
    <3> QED
      BY <2>2, <3>1, <3>2
  <2>4. offset' \in 0 .. 2 /\ buttons' \in Byte
    BY <1>9 DEF MouseAsk, Byte
  <2>5. /\ pc' = "mouseSet"
        /\ UNCHANGED <<kbdQ, auxQ, Shift, key, buffer, move, down>>
    BY <1>9 DEF MouseAsk, devices, keyboard
  <2> QED
    BY <2>1, <2>3, <2>4, <2>5 DEF TypeOK
<1>10. CASE MouseSet
  <2>1. config' \subseteq 0 .. 7
    BY <1>10 DEF MouseSet, Status, Answers, TypeOK
  <2> QED
    BY <1>10, <2>1 DEF MouseSet, TypeOK, Empty, devices, keyboard, mouse
<1>11. CASE MouseEnable
  <2>1. auxQ' \in Seq(Byte)
    BY <1>11 DEF MouseEnable, TypeOK, Ack, Byte
  <2> QED
    BY <1>11, <2>1 DEF MouseEnable, TypeOK, keyboard, mouse
<1>12. CASE MouseAck
  BY <1>12 DEF MouseAck, TypeOK, Empty, devices, keyboard, mouse
<1>13. CASE KeyboardHandler
  <2>1. Shift' \in BOOLEAN
    BY <1>13 DEF KeyboardHandler, ShiftAfter, TypeOK
  <2>2. key' = << >> \/ key' \in Printable \X BOOLEAN
    BY <1>13 DEF KeyboardHandler, TypeOK
  <2> QED
    BY <1>13, <2>1, <2>2 DEF KeyboardHandler, TypeOK, Empty, devices, mouse
<1>14. CASE MouseHandler /\ ~ForMouse
  BY <1>14 DEF MouseHandler, TypeOK, devices, keyboard, mouse
<1>15. CASE MouseHandler /\ ForMouse
  <2>1. obf.data \in Byte
    BY <1>15 DEF ForMouse, TypeOK
  <2>2. buffer' \in [0 .. 2 -> Byte]
    BY <1>15, <2>1 DEF MouseHandler, TypeOK
  <2>3. offset' \in 0 .. 2
    BY <1>15 DEF MouseHandler, NextOffset, TypeOK
  <2>4. /\ move' = << >> \/ move' \in (-128 .. 127) \X (-127 .. 128)
        /\ down' \subseteq 1 .. 3
        /\ buttons' \in Byte
    <3>1. CASE UNCHANGED <<move, down, buttons>>
      BY <3>1 DEF TypeOK
    <3>2. CASE /\ move' = <<Int8(buffer'[1]), -Int8(buffer'[2])>>
               /\ down' = DownAfter(buffer'[0])
               /\ buttons' = buffer'[0]
      <4>1. move' \in (-128 .. 127) \X (-127 .. 128)
        BY <2>2, <3>2, BytesSigned
      <4>2. DownAfter(buffer'[0]) \subseteq down \cup {k + 1 : k \in 0 .. 2}
        BY DEF DownAfter
      <4>3. {k + 1 : k \in 0 .. 2} \subseteq 1 .. 3
        OBVIOUS
      <4>4. buttons' \in Byte
        BY <2>2, <3>2
      <4> QED
        BY <3>2, <4>1, <4>2, <4>3, <4>4 DEF TypeOK
    <3> QED
      BY <1>15, <3>1, <3>2 DEF MouseHandler, Report
  <2> QED
    BY <1>15, <2>2, <2>3, <2>4 DEF MouseHandler, TypeOK, Empty, devices, keyboard
<1> QED
  BY <1>1, <1>2, <1>3, <1>4, <1>5, <1>6, <1>7, <1>8, <1>9, <1>10, <1>11, <1>12, <1>13,
     <1>14, <1>15 DEF Next, Activate

LEMMA AnswerSteps ==
  ASSUME Answers, Acknowledged, Next
  PROVE  Answers'
<1>1. ASSUME NEW c \in Codes, Type(c) PROVE Answers'
  BY <1>1 DEF Type, Answers, Full
<1>2. ASSUME NEW p \in Packets, Slide(p) PROVE Answers'
  BY <1>2 DEF Slide, Answers, Full
<1>3. CASE KeyboardSends
  BY <1>3 DEF KeyboardSends, Answers, Full
<1>4. CASE MouseSends
  BY <1>4 DEF MouseSends, Answers, Acknowledged, Full
<1>5. CASE Activate
  BY <1>5 DEF Activate, Drain, KeyboardAsk, KeyboardSet, KeyboardEnable, MouseAsk, MouseSet,
       MouseEnable, MouseAck, Answers, Answer, Empty, Full
<1>6. CASE KeyboardHandler
  BY <1>6 DEF KeyboardHandler, Answers, Empty, Full
<1>7. CASE MouseHandler
  BY <1>7 DEF MouseHandler, Answers, Empty, Full
<1> QED
  BY <1>1, <1>2, <1>3, <1>4, <1>5, <1>6, <1>7 DEF Next

LEMMA ConfigSteps ==
  ASSUME Configured, Answers, Next
  PROVE  Configured'
<1>1. CASE UNCHANGED <<pc, config>>
  BY <1>1 DEF Configured
<1>2. CASE Activate
  <2>1. CASE KeyboardAsk \/ MouseAsk
    <3>1. \/ config' = config \ {4} /\ pc = "kbdAsk" /\ pc' = "kbdSet"
          \/ config' = config \ {5} /\ pc = "mouseAsk" /\ pc' = "mouseSet"
      BY <2>1 DEF KeyboardAsk, MouseAsk
    <3> QED
      BY <3>1 DEF Configured
  <2>2. CASE KeyboardSet \/ MouseSet
    <3>1. Status = config
      BY <2>2 DEF KeyboardSet, MouseSet, Status, Answers
    <3>2. \/ config' = (config \cup {0}) \ {4} /\ pc = "kbdSet" /\ pc' = "kbdEnable"
          \/ config' = config \cup {1} /\ pc = "mouseSet" /\ pc' = "mouseEnable"
      BY <2>2, <3>1 DEF KeyboardSet, KeyboardConfig, MouseSet
    <3> QED
      BY <3>2 DEF Configured
  <2>3. CASE Drain \/ KeyboardEnable \/ MouseEnable \/ MouseAck
    BY <2>3 DEF Drain, KeyboardEnable, MouseEnable, MouseAck, Configured
  <2> QED
    BY <1>2, <2>1, <2>2, <2>3 DEF Activate
<1> QED
  BY <1>1, <1>2 DEF Next, Type, Slide, KeyboardSends, MouseSends, KeyboardHandler, MouseHandler

LEMMA AcknowledgedSteps ==
  ASSUME TypeOK, Answers, Acknowledged, Next
  PROVE  Acknowledged'
<1>1. ASSUME NEW p \in Packets, Slide(p) PROVE Acknowledged'
  <2>1. Len(auxQ') = Len(auxQ) + 3 /\ Len(auxQ) \in Nat
    BY <1>1, SlideLengthens
  <2>2. Len(auxQ') % 3 = Len(auxQ) % 3
    BY <2>1
  <2> QED
    BY <1>1, <2>2 DEF Slide, Acknowledged, mouse, Full
<1>2. CASE MouseSends
  <2>1. Len(auxQ') = Len(auxQ) - 1 /\ Len(auxQ) \in Nat \ {0}
    BY <1>2 DEF MouseSends, TypeOK
  <2>2. Len(auxQ) % 3 = 1 => Len(auxQ') % 3 = 0
    BY <2>1
  <2> QED
    BY <1>2, <2>2 DEF MouseSends, Acknowledged, mouse, Full
<1>3. CASE MouseEnable
  <2>1. auxQ = << >> /\ auxQ' = Append(auxQ, Ack) /\ ~Full'
    BY <1>3 DEF MouseEnable, Acknowledged, Answers, Full
  <2>2. Len(auxQ') = 1
    BY <2>1
  <2> QED
    BY <1>3, <2>1, <2>2 DEF MouseEnable, Acknowledged, mouse
<1>4. CASE MouseAck \/ MouseAsk \/ MouseSet
  BY <1>4 DEF MouseAck, MouseAsk, MouseSet, Acknowledged, devices, mouse
<1>5. CASE Drain \/ KeyboardAsk \/ KeyboardSet \/ KeyboardEnable
  BY <1>5 DEF Drain, KeyboardAsk, KeyboardSet, KeyboardEnable, Acknowledged, devices, mouse
<1>6. CASE KeyboardHandler \/ MouseHandler
  BY <1>6 DEF KeyboardHandler, MouseHandler, Acknowledged, devices
<1>7. CASE KeyboardSends
  BY <1>7 DEF KeyboardSends, Acknowledged, mouse
<1>8. ASSUME NEW c \in Codes, Type(c) PROVE Acknowledged'
  BY <1>8 DEF Type, Acknowledged, mouse, Full
<1> QED
  BY <1>1, <1>2, <1>3, <1>4, <1>5, <1>6, <1>7, <1>8 DEF Next, Activate

(* A prompt mouse's answer is taken by Activate, and from then on every    *)
(* step takes a byte from one place to the next or adds a whole packet.    *)
LEMMA FramedSteps ==
  ASSUME MousePrompt, TypeOK, Answers, Acknowledged, Framed, Next
  PROVE  Framed'
<1> SUFFICES ASSUME pc' = "run"
             PROVE  (offset' + Len(Held("mouse")') + Len(auxQ')) % 3 = 0
  BY DEF Framed
<1>1. Len(Held("mouse")) = (IF pc = "run" /\ obf.from = "mouse" THEN 1 ELSE 0)
  BY DEF Held
<1>2. Len(Held("mouse")') = (IF obf'.from = "mouse" THEN 1 ELSE 0)
  BY DEF Held
<1>3. Len(auxQ) \in Nat /\ offset \in 0 .. 2
  BY DEF TypeOK
<1>4. ASSUME NEW c \in Codes, Type(c)
      PROVE  (offset' + Len(Held("mouse")') + Len(auxQ')) % 3 = 0
  BY <1>1, <1>2, <1>4 DEF Type, Framed, mouse
<1>5. ASSUME NEW p \in Packets, Slide(p)
      PROVE  (offset' + Len(Held("mouse")') + Len(auxQ')) % 3 = 0
  <2>1. Len(auxQ') = Len(auxQ) + 3
    BY <1>5, SlideLengthens
  <2>2. offset' = offset /\ obf' = obf /\ pc = "run"
    BY <1>5 DEF Slide, mouse
  <2>3. Len(Held("mouse")') = Len(Held("mouse")) /\ Len(Held("mouse")) \in 0 .. 1
    BY <1>1, <1>2, <2>2
  <2>4. (offset + Len(Held("mouse")) + Len(auxQ)) % 3 = 0
    BY <2>2 DEF Framed
  <2> QED
    BY <1>3, <2>1, <2>2, <2>3, <2>4, Thirds
<1>6. CASE KeyboardSends
  <2>1. offset' = offset /\ auxQ' = auxQ /\ pc = "run" /\ obf.from = "none" /\ obf'.from = "keyboard"
    BY <1>6 DEF KeyboardSends, mouse, Full
  <2> QED
    BY <1>1, <1>2, <1>3, <2>1 DEF Framed
<1>7. CASE MouseSends
  <2>1. offset' = offset /\ pc = "run" /\ obf.from = "none" /\ obf'.from = "mouse"
    BY <1>7 DEF MouseSends, mouse, Full
  <2>2. Len(auxQ') = Len(auxQ) - 1
    BY <1>7 DEF MouseSends, TypeOK
  <2>3. (offset + 0 + Len(auxQ)) % 3 = 0
    BY <1>1, <2>1 DEF Framed
  <2>4. offset' + 1 + Len(auxQ') = offset + 0 + Len(auxQ)
    BY <1>3, <2>1, <2>2
  <2> QED
    BY <1>2, <2>1, <2>3, <2>4
<1>8. CASE MouseAck
  <2>1. offset' = offset /\ auxQ' = auxQ /\ obf'.from = "none" /\ pc = "mouseAck" /\ Full
    BY <1>8 DEF MouseAck, mouse, devices, Empty
  <2>2. offset = 0 /\ Len(auxQ) % 3 = 0
    BY <2>1 DEF Acknowledged
  <2> QED
    BY <1>2, <1>3, <2>1, <2>2
<1>9. CASE KeyboardHandler
  <2>1. /\ offset' = offset /\ auxQ' = auxQ /\ pc = "run" /\ obf'.from = "none"
        /\ obf.from # "mouse"
    BY <1>9 DEF KeyboardHandler, Irq1, mouse, devices, Empty
  <2> QED
    BY <1>1, <1>2, <1>3, <2>1 DEF Framed
<1>10. CASE MouseHandler
  <2>1. /\ offset' = (offset + 1) % 3 /\ auxQ' = auxQ /\ pc = "run" /\ obf'.from = "none"
        /\ obf.from = "mouse"
    BY <1>10 DEF MouseHandler, Irq12, ForMouse, NextOffset, devices, Empty
  <2>2. (offset + 1 + Len(auxQ)) % 3 = 0
    BY <1>1, <2>1 DEF Framed
  <2>3. (((offset + 1) % 3) + 0 + Len(auxQ)) % 3 = 0
    BY <1>3, <2>2, Thirds
  <2> QED
    BY <1>2, <2>1, <2>3
<1> QED
  BY <1>4, <1>5, <1>6, <1>7, <1>8, <1>9, <1>10 DEF Next, Activate, Drain, KeyboardAsk,
     KeyboardSet, KeyboardEnable, MouseAsk, MouseSet, MouseEnable

-----------------------------------------------------------------------------

IInv == TypeOK /\ Answers /\ Configured /\ Acknowledged

LEMMA Starts == Init => IInv /\ Framed
<1> SUFFICES ASSUME Init PROVE IInv /\ Framed
  OBVIOUS
<1>1. TypeOK
  <2>1. kbdQ \in Seq(Byte) /\ auxQ \in Seq(Byte)
    BY DEF Init
  <2>2. \/ obf \in [from : {"keyboard", "mouse"}, data : Byte]
        \/ obf.from = "none"
    <3>1. CASE obf = Empty
      BY <3>1 DEF Empty
    <3>2. CASE \E c \in Codes : obf = [from |-> "keyboard", data |-> c]
      BY <3>2, InputAssumption DEF Byte
    <3> QED
      BY <3>1, <3>2 DEF Init
  <2> QED
    BY <2>1, <2>2 DEF Init, TypeOK, Byte
<1>2. Configured
  BY DEF Init, Configured
<1> QED
  BY <1>1, <1>2 DEF Init, IInv, Answers, Acknowledged, Framed, Empty

LEMMA Stutters ==
  ASSUME UNCHANGED vars
  PROVE  (IInv => IInv') /\ (Framed => Framed')
BY DEF vars, devices, keyboard, mouse, IInv, TypeOK, Answers, Configured, Acknowledged, Framed,
   Held, Full

LEMMA Keeps == IInv /\ [Next]_vars => IInv'
BY TypeSteps, AnswerSteps, ConfigSteps, AcknowledgedSteps, Stutters DEF IInv

THEOREM Invariance == Spec => []IInv
BY Starts, Keeps, PTL DEF Spec

(* Types: no byte of a packet is stored outside the buffer of three.       *)
THEOREM Types == Spec => []TypeOK
<1>1. IInv => TypeOK
  BY DEF IInv
<1> QED
  BY <1>1, Invariance, PTL

(* Whatever the firmware left, interrupts and clocks of both devices are on *)
(* when the activation is over, and no other bit has changed.              *)
THEOREM BothAreHeard == Spec => []BothHeard
<1>1. IInv => BothHeard
  BY DEF IInv, Configured, BothHeard
<1> QED
  BY <1>1, Invariance, PTL

(* A mouse that answers before the driver reads is heard in whole packets  *)
(* ever after.                                                             *)
THEOREM PacketsFramed ==
  ASSUME MousePrompt
  PROVE  Spec => []Framed
<1>1. IInv /\ Framed /\ [Next]_vars => Framed'
  BY FramedSteps, Stutters DEF IInv
<1> QED
  BY <1>1, Starts, Invariance, PTL DEF Spec
-----------------------------------------------------------------------------
(* Keys and movements are reported: the refinement of UserInput.           *)

(* The packets a sequence of bytes is cut into, as User's moves has it.    *)
Cut(s) == [i \in 1 .. Len(s) \div 3 |-> SubSeq(s, 3 * i - 2, 3 * i)]

Bytes == Seq(Byte)
Parts == Seq(Bytes)

(* One packet of a sequence of n packets.                                  *)
LEMMA Slice ==
  ASSUME NEW s \in Bytes, NEW n \in Nat, Len(s) = 3 * n, NEW i \in 1 .. n
  PROVE  /\ SubSeq(s, 3 * i - 2, 3 * i) \in Bytes
         /\ Len(SubSeq(s, 3 * i - 2, 3 * i)) = 3
         /\ \A j \in 1 .. 3 : SubSeq(s, 3 * i - 2, 3 * i)[j] = s[(3 * i - 3) + j]
<1> DEFINE a == 3 * i - 2   b == 3 * i
<1>1. a \in Int /\ b \in Int /\ a <= b /\ b - a + 1 = 3 /\ a >= 1 /\ b <= Len(s)
  OBVIOUS
<1>2. \A j \in 1 .. 3 : a + j - 1 = (3 * i - 3) + j
  OBVIOUS
<1> HIDE DEF a, b
<1>3. \A j \in a .. b : s[j] \in Byte
  <2>1. \A j \in a .. b : j \in 1 .. Len(s)
    BY <1>1
  <2> QED
    BY <2>1, ElementOfSeq DEF Bytes
<1>4. /\ SubSeq(s, a, b) \in Seq(Byte)
      /\ Len(SubSeq(s, a, b)) = (IF a <= b THEN b - a + 1 ELSE 0)
      /\ \A j \in 1 .. b - a + 1 : SubSeq(s, a, b)[j] = s[a + j - 1]
  BY <1>1, <1>3, SubSeqProperties
<1>5. SubSeq(s, a, b) \in Bytes /\ Len(SubSeq(s, a, b)) = 3
      /\ \A j \in 1 .. 3 : SubSeq(s, a, b)[j] = s[(3 * i - 3) + j]
  BY <1>1, <1>2, <1>4 DEF Bytes
<1> QED
  BY <1>5 DEF a, b

LEMMA CutParts ==
  ASSUME NEW s \in Bytes, NEW n \in Nat, Len(s) = 3 * n
  PROVE  /\ Cut(s) \in Parts /\ Len(Cut(s)) = n
         /\ \A i \in 1 .. n : Cut(s)[i] = SubSeq(s, 3 * i - 2, 3 * i)
<1>1. Len(s) \div 3 = n
  OBVIOUS
<1>2. \A i \in 1 .. n : SubSeq(s, 3 * i - 2, 3 * i) \in Bytes
  BY Slice
<1>3. Cut(s) = [i \in 1 .. n |-> SubSeq(s, 3 * i - 2, 3 * i)]
  BY <1>1 DEF Cut
<1>4. Cut(s) \in [1 .. n -> Bytes]
  BY <1>2, <1>3
<1>5. Cut(s) \in Parts /\ Len(Cut(s)) = n
  BY <1>4 DEF Parts
<1> QED
  BY <1>3, <1>5

(* Three bytes behind whole packets are one more packet.                   *)
LEMMA CutBehind ==
  ASSUME NEW s \in Bytes, NEW n \in Nat, Len(s) = 3 * n, NEW p \in Bytes, Len(p) = 3
  PROVE  Cut(s \o p) = Append(Cut(s), p)
<1> DEFINE t == s \o p
<1>0. n + 1 \in Nat
  OBVIOUS
<1>1. /\ t \in Bytes /\ Len(t) = 3 * (n + 1)
      /\ \A i \in 1 .. Len(s) + Len(p) : t[i] = IF i <= Len(s) THEN s[i] ELSE p[i - Len(s)]
  <2>1. /\ t \in Seq(Byte) /\ Len(t) = Len(s) + Len(p)
        /\ \A i \in 1 .. Len(s) + Len(p) :
             t[i] = IF i <= Len(s) THEN s[i] ELSE p[i - Len(s)]
    BY ConcatProperties DEF Bytes
  <2>2. Len(s) + Len(p) = 3 * (n + 1)
    OBVIOUS
  <2> QED
    BY <2>1, <2>2 DEF Bytes
<1> HIDE DEF t
<1>2. /\ Cut(s) \in Parts /\ Len(Cut(s)) = n
      /\ \A i \in 1 .. n : Cut(s)[i] = SubSeq(s, 3 * i - 2, 3 * i)
  BY CutParts
<1>3. /\ Cut(t) \in Parts /\ Len(Cut(t)) = n + 1
      /\ \A i \in 1 .. n + 1 : Cut(t)[i] = SubSeq(t, 3 * i - 2, 3 * i)
  BY <1>0, <1>1, CutParts
<1>4. /\ Append(Cut(s), p) \in Parts /\ Len(Append(Cut(s), p)) = n + 1
      /\ \A i \in 1 .. n : Append(Cut(s), p)[i] = Cut(s)[i]
      /\ Append(Cut(s), p)[n + 1] = p
  BY <1>2, AppendProperties DEF Parts
<1>5. ASSUME NEW i \in 1 .. n PROVE Cut(t)[i] = Cut(s)[i]
  <2> DEFINE u == SubSeq(t, 3 * i - 2, 3 * i)   v == SubSeq(s, 3 * i - 2, 3 * i)
  <2>0. i \in 1 .. n + 1
    OBVIOUS
  <2>1. u \in Bytes /\ Len(u) = 3 /\ \A j \in 1 .. 3 : u[j] = t[(3 * i - 3) + j]
    BY <1>0, <1>1, <2>0, Slice
  <2>2. v \in Bytes /\ Len(v) = 3 /\ \A j \in 1 .. 3 : v[j] = s[(3 * i - 3) + j]
    BY Slice
  <2>3. ASSUME NEW j \in 1 .. 3 PROVE t[(3 * i - 3) + j] = s[(3 * i - 3) + j]
    <3>1. (3 * i - 3) + j \in 1 .. Len(s) + Len(p) /\ (3 * i - 3) + j <= Len(s)
      OBVIOUS
    <3> QED
      BY <1>1, <3>1
  <2> HIDE DEF u, v
  <2>4. \A j \in 1 .. Len(u) : u[j] = v[j]
    BY <2>1, <2>2, <2>3
  <2>5. u = v
    BY <2>1, <2>2, <2>4, SeqEqual DEF Bytes
  <2>6. Cut(t)[i] = u /\ Cut(s)[i] = v
    BY <1>2, <1>3 DEF u, v
  <2> QED
    BY <2>5, <2>6
<1>6. Cut(t)[n + 1] = p
  <2> DEFINE u == SubSeq(t, 3 * (n + 1) - 2, 3 * (n + 1))
  <2>1. n + 1 \in 1 .. n + 1 /\ n + 1 \in Nat
    OBVIOUS
  <2>2. u \in Bytes /\ Len(u) = 3 /\ \A j \in 1 .. 3 : u[j] = t[(3 * (n + 1) - 3) + j]
    BY <1>1, <2>1, Slice
  <2>3. ASSUME NEW j \in 1 .. 3 PROVE t[(3 * (n + 1) - 3) + j] = p[j]
    <3>1. /\ (3 * (n + 1) - 3) + j \in 1 .. Len(s) + Len(p) /\ ~((3 * (n + 1) - 3) + j <= Len(s))
          /\ ((3 * (n + 1) - 3) + j) - Len(s) = j
      OBVIOUS
    <3> QED
      BY <1>1, <3>1
  <2>4. Cut(t)[n + 1] = u
    BY <1>3, <2>1
  <2> HIDE DEF u
  <2>5. \A j \in 1 .. Len(u) : u[j] = p[j]
    BY <2>2, <2>3
  <2>6. u = p
    BY <2>2, <2>5, SeqEqual DEF Bytes
  <2> QED
    BY <2>4, <2>6
<1>7. \A i \in 1 .. Len(Cut(t)) : Cut(t)[i] = Append(Cut(s), p)[i]
  <2>1. ASSUME NEW i \in 1 .. n + 1 PROVE Cut(t)[i] = Append(Cut(s), p)[i]
    <3>1. i \in 1 .. n \/ i = n + 1
      OBVIOUS
    <3> QED
      BY <1>4, <1>5, <1>6, <3>1
  <2> QED
    BY <1>3, <2>1
<1>8. Cut(t) = Append(Cut(s), p)
  BY <1>3, <1>4, <1>7, SeqEqual DEF Parts
<1> QED
  BY <1>8 DEF t

(* Three bytes in front of whole packets are the first packet.             *)
LEMMA CutInFront ==
  ASSUME NEW s \in Bytes, NEW n \in Nat, Len(s) = 3 * n, NEW p \in Bytes, Len(p) = 3
  PROVE  /\ Cut(p \o s) # << >> /\ Head(Cut(p \o s)) = p
         /\ Tail(Cut(p \o s)) = Cut(s)
<1> DEFINE t == p \o s
<1>0. n + 1 \in Nat
  OBVIOUS
<1>1. /\ t \in Bytes /\ Len(t) = 3 * (n + 1)
      /\ \A i \in 1 .. Len(p) + Len(s) : t[i] = IF i <= Len(p) THEN p[i] ELSE s[i - Len(p)]
  <2>1. /\ t \in Seq(Byte) /\ Len(t) = Len(p) + Len(s)
        /\ \A i \in 1 .. Len(p) + Len(s) :
             t[i] = IF i <= Len(p) THEN p[i] ELSE s[i - Len(p)]
    BY ConcatProperties DEF Bytes
  <2>2. Len(p) + Len(s) = 3 * (n + 1)
    OBVIOUS
  <2> QED
    BY <2>1, <2>2 DEF Bytes
<1> HIDE DEF t
<1>2. /\ Cut(s) \in Parts /\ Len(Cut(s)) = n
      /\ \A i \in 1 .. n : Cut(s)[i] = SubSeq(s, 3 * i - 2, 3 * i)
  BY CutParts
<1>3. /\ Cut(t) \in Parts /\ Len(Cut(t)) = n + 1
      /\ \A i \in 1 .. n + 1 : Cut(t)[i] = SubSeq(t, 3 * i - 2, 3 * i)
  BY <1>0, <1>1, CutParts
<1>4. Cut(t) # << >>
  BY <1>3, EmptySeq
<1>5. /\ Head(Cut(t)) = Cut(t)[1]
      /\ Tail(Cut(t)) \in Parts /\ Len(Tail(Cut(t))) = n
      /\ \A i \in 1 .. n : Tail(Cut(t))[i] = Cut(t)[i + 1]
  <2>1. /\ Tail(Cut(t)) \in Parts /\ Len(Tail(Cut(t))) = Len(Cut(t)) - 1
        /\ \A i \in 1 .. Len(Tail(Cut(t))) : Tail(Cut(t))[i] = Cut(t)[i + 1]
    BY <1>3, <1>4, HeadTailProperties DEF Parts
  <2>2. Head(Cut(t)) = Cut(t)[1]
    BY <1>3, <1>4 DEF Parts
  <2> QED
    BY <1>3, <2>1, <2>2
<1>6. Cut(t)[1] = p
  <2> DEFINE u == SubSeq(t, 3 * 1 - 2, 3 * 1)
  <2>1. 1 \in 1 .. n + 1 /\ n + 1 \in Nat
    OBVIOUS
  <2>2. u \in Bytes /\ Len(u) = 3 /\ \A j \in 1 .. 3 : u[j] = t[(3 * 1 - 3) + j]
    BY <1>1, <2>1, Slice
  <2>3. ASSUME NEW j \in 1 .. 3 PROVE t[(3 * 1 - 3) + j] = p[j]
    <3>1. (3 * 1 - 3) + j = j /\ j \in 1 .. Len(p) + Len(s) /\ j <= Len(p)
      OBVIOUS
    <3> QED
      BY <1>1, <3>1
  <2>4. Cut(t)[1] = u
    BY <1>3, <2>1
  <2> HIDE DEF u
  <2>5. \A j \in 1 .. Len(u) : u[j] = p[j]
    BY <2>2, <2>3
  <2>6. u = p
    BY <2>2, <2>5, SeqEqual DEF Bytes
  <2> QED
    BY <2>4, <2>6
<1>7. ASSUME NEW i \in 1 .. n PROVE Cut(t)[i + 1] = Cut(s)[i]
  <2> DEFINE u == SubSeq(t, 3 * (i + 1) - 2, 3 * (i + 1))   v == SubSeq(s, 3 * i - 2, 3 * i)
  <2>0. i + 1 \in 1 .. n + 1 /\ n + 1 \in Nat
    OBVIOUS
  <2>1. u \in Bytes /\ Len(u) = 3 /\ \A j \in 1 .. 3 : u[j] = t[(3 * (i + 1) - 3) + j]
    BY <1>1, <2>0, Slice
  <2>2. v \in Bytes /\ Len(v) = 3 /\ \A j \in 1 .. 3 : v[j] = s[(3 * i - 3) + j]
    BY Slice
  <2>3. ASSUME NEW j \in 1 .. 3 PROVE t[(3 * (i + 1) - 3) + j] = s[(3 * i - 3) + j]
    <3>1. /\ (3 * (i + 1) - 3) + j \in 1 .. Len(p) + Len(s)
          /\ ~((3 * (i + 1) - 3) + j <= Len(p))
          /\ ((3 * (i + 1) - 3) + j) - Len(p) = (3 * i - 3) + j
      OBVIOUS
    <3> QED
      BY <1>1, <3>1
  <2> HIDE DEF u, v
  <2>4. \A j \in 1 .. Len(u) : u[j] = v[j]
    BY <2>1, <2>2, <2>3
  <2>5. u = v
    BY <2>1, <2>2, <2>4, SeqEqual DEF Bytes
  <2>6. Cut(t)[i + 1] = u /\ Cut(s)[i] = v
    BY <1>2, <1>3, <2>0 DEF u, v
  <2> QED
    BY <2>5, <2>6
<1>8. \A i \in 1 .. Len(Cut(s)) : Tail(Cut(t))[i] = Cut(s)[i]
  BY <1>2, <1>5, <1>7
<1>9. Tail(Cut(t)) = Cut(s)
  BY <1>2, <1>5, <1>8, SeqEqual DEF Parts
<1> QED
  BY <1>4, <1>5, <1>6, <1>9 DEF t
-----------------------------------------------------------------------------
(* The parts of MouseBytes and of the keys not reported yet.               *)
Taken == [i \in 1 .. offset |-> buffer[i - 1]]
InMouse == IF pc = "mouseAck" /\ ~Full THEN Tail(auxQ) ELSE auxQ
Keys == Held("keyboard") \o kbdQ

(* No byte is taken before the interrupts are enabled.                     *)
Untaken == pc # "run" => offset = 0

LEMMA UntakenSteps ==
  ASSUME Untaken, [Next]_vars
  PROVE  Untaken'
BY DEF Untaken, Next, Type, Slide, KeyboardSends, MouseSends, Activate, Drain, KeyboardAsk,
   KeyboardSet, KeyboardEnable, MouseAsk, MouseSet, MouseEnable, MouseAck, KeyboardHandler,
   MouseHandler, vars, mouse, devices, keyboard

LEMMA FirstAndRest ==
  ASSUME NEW s \in Bytes, s # << >>
  PROVE  <<Head(s)>> \o Tail(s) = s
<1>1. /\ Head(s) \in Byte /\ Tail(s) \in Seq(Byte) /\ Len(Tail(s)) = Len(s) - 1
      /\ \A i \in 1 .. Len(Tail(s)) : Tail(s)[i] = s[i + 1]
  BY HeadTailProperties DEF Bytes
<1>2. Head(s) = s[1] /\ Len(s) \in Nat \ {0}
  BY EmptySeq DEF Bytes
<1>3. <<Head(s)>> \in Seq(Byte) /\ Len(<<Head(s)>>) = 1 /\ <<Head(s)>>[1] = Head(s)
  BY <1>1
<1> DEFINE h == <<Head(s)>>   r == Tail(s)
<1> HIDE DEF h, r
<1>4. /\ h \in Seq(Byte) /\ Len(h) = 1 /\ h[1] = s[1]
      /\ r \in Seq(Byte) /\ Len(r) = Len(s) - 1
      /\ \A i \in 1 .. Len(r) : r[i] = s[i + 1]
  BY <1>1, <1>2, <1>3 DEF h, r
<1>5. /\ h \o r \in Seq(Byte) /\ Len(h \o r) = Len(h) + Len(r)
      /\ \A i \in 1 .. Len(h) + Len(r) : (h \o r)[i] = IF i <= Len(h) THEN h[i] ELSE r[i - Len(h)]
  <2>1. h \in Seq(Byte) /\ r \in Seq(Byte)
    BY <1>4
  <2> QED
    BY <2>1, ConcatProperties
<1>6. ASSUME NEW i \in 1 .. Len(s) PROVE (h \o r)[i] = s[i]
  <2>1. CASE i = 1
    BY <1>2, <1>4, <1>5, <2>1
  <2>2. CASE i # 1
    <3>1. i - 1 \in 1 .. Len(r) /\ ~(i <= Len(h)) /\ i \in 1 .. Len(h) + Len(r) /\ (i - 1) + 1 = i
      BY <1>2, <1>4, <2>2
    <3>2. (h \o r)[i] = r[i - 1]
      BY <1>4, <1>5, <3>1
    <3> QED
      BY <1>4, <3>1, <3>2
  <2> QED
    BY <2>1, <2>2
<1>7. Len(h \o r) = Len(s)
  BY <1>2, <1>4, <1>5
<1>8. h \o r = s
  BY <1>5, <1>6, <1>7, SeqEqual DEF Bytes
<1> QED
  BY <1>8 DEF h, r

LEMMA OneInFront ==
  ASSUME NEW d \in Byte, NEW s \in Bytes
  PROVE  /\ <<d>> \o s # << >> /\ Head(<<d>> \o s) = d /\ Tail(<<d>> \o s) = s
<1> DEFINE h == <<d>>
<1>1. h \in Seq(Byte) /\ Len(h) = 1 /\ h[1] = d
  OBVIOUS
<1> HIDE DEF h
<1>2. s \in Seq(Byte) /\ Len(s) \in Nat
  BY DEF Bytes
<1>3. /\ h \o s \in Seq(Byte) /\ Len(h \o s) = Len(h) + Len(s)
      /\ \A i \in 1 .. Len(h) + Len(s) : (h \o s)[i] = IF i <= Len(h) THEN h[i] ELSE s[i - Len(h)]
  BY <1>1, <1>2, ConcatProperties
<1>4. h \o s # << >>
  BY <1>1, <1>2, <1>3, EmptySeq
<1>5. Head(h \o s) = d
  <2>1. 1 \in 1 .. Len(h) + Len(s) /\ 1 <= Len(h)
    BY <1>1, <1>2
  <2>2. (h \o s)[1] = d
    BY <1>1, <1>3, <2>1
  <2> QED
    BY <1>3, <1>4, <2>2
<1>6. /\ Tail(h \o s) \in Seq(Byte) /\ Len(Tail(h \o s)) = Len(h \o s) - 1
      /\ \A i \in 1 .. Len(Tail(h \o s)) : Tail(h \o s)[i] = (h \o s)[i + 1]
  BY <1>3, <1>4, HeadTailProperties
<1>7. Len(Tail(h \o s)) = Len(s)
  BY <1>1, <1>2, <1>3, <1>6
<1>8. ASSUME NEW i \in 1 .. Len(s) PROVE Tail(h \o s)[i] = s[i]
  <2>1. i + 1 \in 1 .. Len(h) + Len(s) /\ ~(i + 1 <= Len(h)) /\ (i + 1) - Len(h) = i
    BY <1>1, <1>2
  <2> QED
    BY <1>3, <1>6, <1>7, <2>1
<1>9. Tail(h \o s) = s
  BY <1>2, <1>6, <1>7, <1>8, SeqEqual
<1> QED
  BY <1>4, <1>5, <1>9 DEF h

(* The rest of a sequence that is made longer behind.                      *)
LEMMA RestOfLonger ==
  ASSUME NEW s \in Bytes, NEW p \in Bytes, s # << >>
  PROVE  Tail(s \o p) = Tail(s) \o p
<1>1. <<Head(s)>> \o Tail(s) = s
  BY FirstAndRest
<1>2. Head(s) \in Byte /\ Tail(s) \in Bytes
  BY HeadTailProperties DEF Bytes
<1>3. <<Head(s)>> \in Bytes
  BY <1>2 DEF Bytes
<1>4. (<<Head(s)>> \o Tail(s)) \o p = <<Head(s)>> \o (Tail(s) \o p)
  BY <1>2, <1>3, ConcatAssociative DEF Bytes
<1>5. Tail(s) \o p \in Bytes
  BY <1>2, ConcatProperties DEF Bytes
<1>6. s \o p = <<Head(s)>> \o (Tail(s) \o p)
  BY <1>1, <1>4
<1> QED
  BY <1>2, <1>5, <1>6, OneInFront

LEMMA Behind ==
  ASSUME NEW s \in Bytes, NEW u \in Bytes, NEW c \in Byte
  PROVE  s \o Append(u, c) = Append(s \o u, c)
<1>1. <<c>> \in Seq(Byte) /\ s \o u \in Seq(Byte)
  BY ConcatProperties DEF Bytes
<1>2. Append(u, c) = u \o <<c>> /\ Append(s \o u, c) = (s \o u) \o <<c>>
  BY <1>1, AppendIsConcat DEF Bytes
<1>3. (s \o u) \o <<c>> = s \o (u \o <<c>>)
  BY <1>1, ConcatAssociative DEF Bytes
<1> QED
  BY <1>2, <1>3

LEMMA Nothing ==
  ASSUME NEW s \in Bytes
  PROVE  s \o << >> = s /\ << >> \o s = s
BY ConcatEmptySeq DEF Bytes

(* What is taken, on the way and in the mouse are sequences of bytes, and  *)
(* together they are whole packets.                                        *)
LEMMA BytesParts ==
  ASSUME TypeOK
  PROVE  /\ Taken \in Bytes /\ Len(Taken) = offset
         /\ Held("mouse") \in Bytes /\ Held("keyboard") \in Bytes
         /\ auxQ \in Bytes /\ kbdQ \in Bytes
<1>1. offset \in 0 .. 2 /\ buffer \in [0 .. 2 -> Byte] /\ auxQ \in Bytes /\ kbdQ \in Bytes
  BY DEF TypeOK, Bytes
<1>2. Taken \in Bytes /\ Len(Taken) = offset
  <2>1. \A i \in 1 .. offset : buffer[i - 1] \in Byte
    BY <1>1
  <2>2. Taken \in [1 .. offset -> Byte]
    BY <2>1 DEF Taken
  <2> QED
    BY <1>1, <2>2 DEF Bytes
<1>3. obf.from = "mouse" \/ obf.from = "keyboard" => obf.data \in Byte
  BY DEF TypeOK
<1>4. Held("mouse") \in Bytes /\ Held("keyboard") \in Bytes
  BY <1>3 DEF Held, Bytes
<1> QED
  BY <1>1, <1>2, <1>4

LEMMA InMouseBytes ==
  ASSUME TypeOK, Acknowledged
  PROVE  InMouse \in Bytes /\ (pc = "mouseAck" /\ ~Full => auxQ # << >>)
<1>1. auxQ \in Bytes
  BY BytesParts
<1>2. CASE pc = "mouseAck" /\ ~Full
  <2>1. Len(auxQ) % 3 = 1
    BY <1>2 DEF Acknowledged
  <2>2. auxQ # << >>
    BY <2>1
  <2>3. Tail(auxQ) \in Bytes
    BY <1>1, <2>2, HeadTailProperties DEF Bytes
  <2> QED
    BY <1>2, <2>2, <2>3 DEF InMouse
<1> QED
  BY <1>1, <1>2 DEF InMouse

LEMMA WholePackets ==
  ASSUME IInv, Framed, Untaken
  PROVE  /\ MouseBytes = (Taken \o Held("mouse")) \o InMouse
         /\ MouseBytes \in Bytes
         /\ \E n \in Nat : Len(MouseBytes) = 3 * n
<1>0. TypeOK /\ Acknowledged
  BY DEF IInv
<1>1. MouseBytes = (Taken \o Held("mouse")) \o InMouse
  BY DEF MouseBytes, Taken, InMouse
<1>2. Taken \in Bytes /\ Len(Taken) = offset /\ Held("mouse") \in Bytes /\ InMouse \in Bytes
      /\ offset \in 0 .. 2
  BY <1>0, BytesParts, InMouseBytes DEF TypeOK
<1>3. Taken \o Held("mouse") \in Bytes
      /\ Len(Taken \o Held("mouse")) = offset + Len(Held("mouse"))
  BY <1>2, ConcatProperties DEF Bytes
<1>4. MouseBytes \in Bytes /\ Len(MouseBytes) = offset + Len(Held("mouse")) + Len(InMouse)
  <2> DEFINE front == Taken \o Held("mouse")
  <2> HIDE DEF front
  <2>1. front \in Seq(Byte) /\ InMouse \in Seq(Byte)
    BY <1>2, <1>3 DEF Bytes, front
  <2>2. front \o InMouse \in Seq(Byte) /\ Len(front \o InMouse) = Len(front) + Len(InMouse)
    BY <2>1, ConcatProperties
  <2>3. MouseBytes = front \o InMouse /\ Len(front) = offset + Len(Held("mouse"))
    BY <1>1, <1>3 DEF front
  <2> QED
    BY <2>2, <2>3 DEF Bytes
<1>5. Len(Held("mouse")) \in Nat /\ Len(InMouse) \in Nat /\ auxQ \in Bytes
  BY <1>0, <1>2, BytesParts DEF Bytes
<1>6. Len(MouseBytes) % 3 = 0
  <2>1. CASE pc = "run"
    <3>1. InMouse = auxQ
      BY <2>1 DEF InMouse
    <3> QED
      BY <1>4, <2>1, <3>1 DEF Framed
  <2>2. CASE pc # "run"
    <3>1. offset = 0 /\ Len(Held("mouse")) = 0
      BY <2>2 DEF Untaken, Held
    <3>2. Len(InMouse) % 3 = 0
      <4>1. CASE pc # "mouseAck"
        <5>1. InMouse = << >>
          BY <1>0, <2>2, <4>1 DEF InMouse, Acknowledged
        <5> QED
          BY <5>1
      <4>2. CASE pc = "mouseAck" /\ Full
        BY <1>0, <4>2 DEF InMouse, Acknowledged
      <4>3. CASE pc = "mouseAck" /\ ~Full
        <5>1. Len(auxQ) % 3 = 1 /\ auxQ # << >>
          BY <1>0, <4>3, InMouseBytes DEF Acknowledged
        <5>2. Len(Tail(auxQ)) = Len(auxQ) - 1 /\ Len(auxQ) \in Nat \ {0}
          BY <1>5, <5>1, HeadTailProperties, EmptySeq DEF Bytes
        <5>3. (Len(auxQ) - 1) % 3 = 0
          BY <5>1, <5>2
        <5> QED
          BY <4>3, <5>2, <5>3 DEF InMouse
      <4> QED
        BY <4>1, <4>2, <4>3
    <3> QED
      BY <1>4, <1>5, <3>1, <3>2
  <2> QED
    BY <2>1, <2>2
<1>7. Len(MouseBytes) \in Nat
  BY <1>4 DEF Bytes
<1>8. \E n \in Nat : Len(MouseBytes) = 3 * n
  <2>1. Len(MouseBytes) \div 3 \in Nat /\ Len(MouseBytes) = 3 * (Len(MouseBytes) \div 3)
    BY <1>6, <1>7
  <2> QED
    BY <2>1
<1> QED
  BY <1>1, <1>4, <1>8
-----------------------------------------------------------------------------
(* What each step does to the keys and to the mouse's bytes.               *)

LEMMA PartsOfBytes ==
  /\ MouseBytes = (Taken \o Held("mouse")) \o InMouse
  /\ MouseBytes' = (Taken' \o Held("mouse")') \o InMouse'
BY DEF MouseBytes, Taken, InMouse

LEMMA KeysStay ==
  ASSUME IInv,
         \/ \E p \in Packets : Slide(p)
         \/ KeyboardSends \/ MouseSends \/ MouseHandler
         \/ Drain \/ KeyboardAsk \/ KeyboardSet \/ MouseAsk \/ MouseSet \/ MouseEnable \/ MouseAck
  PROVE  Keys' = Keys /\ UNCHANGED <<Shift, key>>
<1>0. kbdQ \in Bytes /\ << >> \o kbdQ = kbdQ
  BY BytesParts, Nothing DEF IInv
<1>1. CASE KeyboardSends
  <2>1. /\ pc = "run" /\ pc' = "run" /\ obf.from = "none" /\ kbdQ # << >>
        /\ obf' = [from |-> "keyboard", data |-> Head(kbdQ)] /\ kbdQ' = Tail(kbdQ)
        /\ UNCHANGED <<Shift, key>>
    BY <1>1 DEF KeyboardSends, Full, keyboard
  <2>2. Held("keyboard") = << >> /\ Held("keyboard")' = <<Head(kbdQ)>>
    BY <2>1 DEF Held
  <2> QED
    BY <1>0, <2>1, <2>2, FirstAndRest DEF Keys
<1>2. CASE ~KeyboardSends
  <2>1. kbdQ' = kbdQ /\ UNCHANGED <<Shift, key>>
    BY <1>2 DEF Slide, MouseSends, MouseHandler, Drain, KeyboardAsk, KeyboardSet, MouseAsk,
       MouseSet, MouseEnable, MouseAck, devices, keyboard
  <2>2. Held("keyboard")' = Held("keyboard")
    <3>1. CASE MouseSends
      BY <3>1 DEF MouseSends, Held, Full
    <3>2. CASE MouseHandler
      BY <3>2 DEF MouseHandler, Irq12, Held, Empty
    <3>3. CASE MouseAck
      BY <3>3 DEF MouseAck, Held, Empty
    <3>4. CASE \E p \in Packets : Slide(p)
      BY <3>4 DEF Slide, Held
    <3>5. CASE Drain \/ KeyboardAsk \/ KeyboardSet \/ MouseAsk \/ MouseSet \/ MouseEnable
      <4>1. pc # "run" /\ pc' # "run"
        BY <3>5 DEF Drain, KeyboardAsk, KeyboardSet, MouseAsk, MouseSet, MouseEnable
      <4> QED
        BY <4>1 DEF Held
    <3> QED
      BY <1>2, <3>1, <3>2, <3>3, <3>4, <3>5
  <2> QED
    BY <2>1, <2>2 DEF Keys
<1> QED
  BY <1>1, <1>2

LEMMA KeyAdded ==
  ASSUME IInv, NEW c \in Codes \cup {Ack}, Type(c) \/ (KeyboardEnable /\ c = Ack)
  PROVE  Keys' = Append(Keys, c) /\ UNCHANGED <<Shift, key, move>>
<1>1. kbdQ \in Bytes /\ Held("keyboard") \in Bytes
  BY BytesParts DEF IInv
<1>2. c \in Byte
  BY InputAssumption DEF Ack, Byte
<1>3. kbdQ' = Append(kbdQ, c) /\ Held("keyboard")' = Held("keyboard")
      /\ UNCHANGED <<Shift, key, move>>
  BY DEF Type, KeyboardEnable, Held, keyboard, mouse
<1> QED
  BY <1>1, <1>2, <1>3, Behind DEF Keys

LEMMA KeyTaken ==
  ASSUME IInv, KeyboardHandler
  PROVE  /\ Keys # << >> /\ Head(Keys) = obf.data /\ Keys' = Tail(Keys)
         /\ move' = move
<1>1. /\ pc = "run" /\ pc' = "run" /\ obf.from = "keyboard" /\ obf'.from = "none"
      /\ kbdQ' = kbdQ /\ move' = move
  BY DEF KeyboardHandler, Irq1, IInv, Answers, Empty, devices, mouse
<1>2. kbdQ \in Bytes /\ << >> \o kbdQ = kbdQ
  BY BytesParts, Nothing DEF IInv
<1>3. obf.data \in Byte
  BY <1>1 DEF IInv, TypeOK
<1>4. Keys = <<obf.data>> \o kbdQ /\ Keys' = << >> \o kbdQ
  BY <1>1 DEF Keys, Held
<1> QED
  BY <1>1, <1>2, <1>3, <1>4, OneInFront

LEMMA BytesStay ==
  ASSUME MousePrompt, IInv, Untaken,
         \/ \E c \in Codes : Type(c)
         \/ KeyboardSends \/ MouseSends \/ Activate \/ KeyboardHandler
  PROVE  MouseBytes' = MouseBytes /\ move' = move
<1>0. Taken \in Bytes /\ auxQ \in Bytes /\ InMouse \in Bytes
  BY BytesParts, InMouseBytes DEF IInv
<1>1. move' = move
  BY DEF Type, KeyboardSends, MouseSends, Activate, Drain, KeyboardAsk, KeyboardSet,
     KeyboardEnable, MouseAsk, MouseSet, MouseEnable, MouseAck, KeyboardHandler, mouse
<1>2. Taken' = Taken
  <2>1. offset' = offset /\ buffer' = buffer
    BY DEF Untaken, Type, KeyboardSends, MouseSends, Activate, Drain, KeyboardAsk, KeyboardSet,
       KeyboardEnable, MouseAsk, MouseSet, MouseEnable, MouseAck, KeyboardHandler, mouse
  <2> QED
    BY <2>1 DEF Taken
<1>3. CASE \E c \in Codes : Type(c)
  <2>1. Held("mouse")' = Held("mouse") /\ InMouse' = InMouse
    BY <1>3 DEF Type, Held, InMouse, Full
  <2> QED
    BY <1>1, <1>2, <2>1, PartsOfBytes
<1>4. CASE KeyboardSends \/ KeyboardHandler
  <2>1. pc = "run" /\ pc' = "run" /\ auxQ' = auxQ /\ obf.from # "mouse" /\ obf'.from # "mouse"
    BY <1>4 DEF KeyboardSends, KeyboardHandler, Irq1, Full, Empty, devices
  <2>2. Held("mouse")' = Held("mouse") /\ InMouse' = InMouse
    BY <2>1 DEF Held, InMouse
  <2> QED
    BY <1>1, <1>2, <2>2, PartsOfBytes
<1>5. CASE Drain \/ KeyboardAsk \/ KeyboardSet \/ KeyboardEnable \/ MouseAsk \/ MouseSet
  <2>1. /\ pc \notin {"run", "mouseAck"} /\ pc' \notin {"run", "mouseAck"} /\ auxQ' = auxQ
    BY <1>5 DEF Drain, KeyboardAsk, KeyboardSet, KeyboardEnable, MouseAsk, MouseSet, devices
  <2>2. Held("mouse")' = Held("mouse") /\ InMouse' = InMouse
    BY <2>1 DEF Held, InMouse
  <2> QED
    BY <1>1, <1>2, <2>2, PartsOfBytes
<1>6. CASE MouseEnable
  <2>1. /\ pc = "mouseEnable" /\ pc' = "mouseAck" /\ auxQ = << >> /\ auxQ' = Append(<< >>, Ack)
        /\ ~Full'
    BY <1>6 DEF MouseEnable, IInv, Acknowledged, Answers, Full
  <2>2. Append(<< >>, Ack) = <<Ack>> /\ Tail(<<Ack>>) = << >>
    OBVIOUS
  <2>3. Held("mouse")' = Held("mouse") /\ InMouse' = InMouse
    BY <2>1, <2>2 DEF Held, InMouse
  <2> QED
    BY <1>1, <1>2, <2>3, PartsOfBytes
<1>7. CASE MouseAck
  <2>1. pc = "mouseAck" /\ pc' = "run" /\ Full /\ obf'.from = "none" /\ auxQ' = auxQ
    BY <1>7 DEF MouseAck, Empty, devices
  <2>2. Held("mouse")' = Held("mouse") /\ InMouse' = InMouse
    BY <2>1 DEF Held, InMouse
  <2> QED
    BY <1>1, <1>2, <2>2, PartsOfBytes
<1>8. CASE MouseSends
  <2>1. /\ pc' = pc /\ obf.from = "none" /\ auxQ # << >> /\ auxQ' = Tail(auxQ)
        /\ obf' = [from |-> "mouse", data |-> Head(auxQ)]
    BY <1>8 DEF MouseSends, Full
  <2>2. pc \in {"mouseAck", "run"}
    BY <2>1 DEF IInv, Acknowledged
  <2>3. CASE pc = "mouseAck"
    <3>1. Held("mouse")' = Held("mouse") /\ InMouse' = InMouse
      BY <2>1, <2>3 DEF Held, InMouse, Full
    <3> QED
      BY <1>1, <1>2, <3>1, PartsOfBytes
  <2>4. CASE pc = "run"
    <3>1. /\ Held("mouse") = << >> /\ Held("mouse")' = <<Head(auxQ)>>
          /\ InMouse = auxQ /\ InMouse' = Tail(auxQ)
      BY <2>1, <2>4 DEF Held, InMouse
    <3>2. Head(auxQ) \in Byte /\ Tail(auxQ) \in Bytes
      BY <1>0, <2>1, HeadTailProperties DEF Bytes
    <3>3. <<Head(auxQ)>> \in Bytes
      BY <3>2 DEF Bytes
    <3>4. (Taken \o <<Head(auxQ)>>) \o Tail(auxQ) = Taken \o (<<Head(auxQ)>> \o Tail(auxQ))
      BY <1>0, <3>2, <3>3, ConcatAssociative DEF Bytes
    <3>5. <<Head(auxQ)>> \o Tail(auxQ) = auxQ
      BY <1>0, <2>1, FirstAndRest
    <3>6. Taken \o << >> = Taken
      BY <1>0, Nothing
    <3>7. MouseBytes = Taken \o auxQ
      BY <3>1, <3>6, PartsOfBytes
    <3>8. MouseBytes' = (Taken \o <<Head(auxQ)>>) \o Tail(auxQ)
      BY <1>2, <3>1, PartsOfBytes
    <3> QED
      BY <1>1, <3>4, <3>5, <3>7, <3>8
  <2> QED
    BY <2>2, <2>3, <2>4
<1> QED
  BY <1>3, <1>4, <1>5, <1>6, <1>7, <1>8 DEF Activate
LEMMA BytesAdded ==
  ASSUME IInv, NEW p \in Packets, Slide(p)
  PROVE  MouseBytes' = MouseBytes \o p /\ move' = move
<1>1. /\ pc' = pc /\ obf' = obf /\ auxQ' = auxQ \o p /\ offset' = offset /\ buffer' = buffer
      /\ move' = move
  BY DEF Slide, mouse
<1>2. /\ Taken \in Bytes /\ Held("mouse") \in Bytes /\ auxQ \in Bytes /\ InMouse \in Bytes
      /\ (pc = "mouseAck" /\ ~Full => auxQ # << >>)
  BY BytesParts, InMouseBytes DEF IInv
<1>3. p \in Bytes
  BY PacketBytes DEF Bytes
<1>4. Taken' = Taken /\ Held("mouse")' = Held("mouse") /\ Full' = Full
  BY <1>1 DEF Taken, Held, Full
<1>5. InMouse' = InMouse \o p
  <2>1. CASE pc = "mouseAck" /\ ~Full
    <3>1. Tail(auxQ \o p) = Tail(auxQ) \o p
      BY <1>2, <1>3, <2>1, RestOfLonger
    <3> QED
      BY <1>1, <1>4, <2>1, <3>1 DEF InMouse
  <2>2. CASE ~(pc = "mouseAck" /\ ~Full)
    BY <1>1, <1>4, <2>2 DEF InMouse
  <2> QED
    BY <2>1, <2>2
<1>6. Taken \o Held("mouse") \in Bytes
  BY <1>2, ConcatProperties DEF Bytes
<1>7. ((Taken \o Held("mouse")) \o InMouse) \o p = (Taken \o Held("mouse")) \o (InMouse \o p)
  <2> DEFINE front == Taken \o Held("mouse")
  <2>1. front \in Seq(Byte) /\ InMouse \in Seq(Byte) /\ p \in Seq(Byte)
    BY <1>2, <1>3, <1>6 DEF Bytes
  <2> HIDE DEF front
  <2>2. (front \o InMouse) \o p = front \o (InMouse \o p)
    BY <2>1, ConcatAssociative
  <2> QED
    BY <2>2 DEF front
<1> QED
  BY <1>1, <1>4, <1>5, <1>7, PartsOfBytes

(* The bytes taken when one more is stored.                                *)
LEMMA TakenNext ==
  ASSUME TypeOK, NEW d \in Byte, NEW after, after = [buffer EXCEPT ![offset] = d]
  PROVE  [i \in 1 .. offset + 1 |-> after[i - 1]] = Taken \o <<d>>
<1> DEFINE u == [i \in 1 .. offset + 1 |-> after[i - 1]]   h == <<d>>
<1>1. offset \in 0 .. 2 /\ buffer \in [0 .. 2 -> Byte] /\ after \in [0 .. 2 -> Byte]
  BY DEF TypeOK
<1>2. Taken \in Seq(Byte) /\ Len(Taken) = offset
  BY BytesParts DEF Bytes
<1>3. \A i \in 1 .. offset : Taken[i] = buffer[i - 1]
  BY DEF Taken
<1>4. h \in Seq(Byte) /\ Len(h) = 1 /\ h[1] = d
  OBVIOUS
<1>5. u \in Seq(Byte) /\ Len(u) = offset + 1
  <2>1. \A i \in 1 .. offset + 1 : after[i - 1] \in Byte
    BY <1>1
  <2>2. u \in [1 .. offset + 1 -> Byte] /\ offset + 1 \in Nat
    BY <1>1, <2>1
  <2> HIDE DEF u
  <2> QED
    BY <2>2
<1>6. \A i \in 1 .. offset + 1 : u[i] = after[i - 1]
  OBVIOUS
<1> HIDE DEF u, h
<1>7. /\ Taken \o h \in Seq(Byte) /\ Len(Taken \o h) = Len(Taken) + Len(h)
      /\ \A i \in 1 .. Len(Taken) + Len(h) :
           (Taken \o h)[i] = IF i <= Len(Taken) THEN Taken[i] ELSE h[i - Len(Taken)]
  BY <1>2, <1>4, ConcatProperties
<1>8. ASSUME NEW i \in 1 .. offset + 1 PROVE u[i] = (Taken \o h)[i]
  <2>1. (Taken \o h)[i] = IF i <= offset THEN Taken[i] ELSE h[i - offset]
    BY <1>1, <1>2, <1>4, <1>7
  <2>2. CASE i <= offset
    <3>1. i \in 1 .. offset /\ i - 1 \in 0 .. 2 /\ i - 1 # offset
      BY <1>1, <2>2
    <3>2. after[i - 1] = buffer[i - 1]
      BY <1>1, <3>1
    <3> QED
      BY <1>3, <1>6, <2>1, <2>2, <3>1, <3>2
  <2>3. CASE ~(i <= offset)
    <3>1. i - 1 = offset /\ i - offset = 1
      BY <1>1, <2>3
    <3>2. after[offset] = d
      BY <1>1
    <3> QED
      BY <1>4, <1>6, <2>1, <2>3, <3>1, <3>2
  <2> QED
    BY <2>2, <2>3
<1>9. u = Taken \o h
  BY <1>1, <1>2, <1>4, <1>5, <1>7, <1>8, SeqEqual
<1> QED
  BY <1>9 DEF u, h

(* The handler stores a byte; with the third the packet is reported, and   *)
(* it is the first of those not reported yet.                              *)
LEMMA ByteTaken ==
  ASSUME IInv, MouseHandler
  PROVE  \/ MouseBytes' = MouseBytes /\ move' = move
         \/ \E p \in Bytes :
              /\ Len(p) = 3 /\ MouseBytes = p \o MouseBytes' /\ MouseBytes' \in Bytes
              /\ move' = IF p[2] # 0 \/ p[3] # 0 THEN <<Int8(p[2]), -Int8(p[3])>> ELSE move
<1> DEFINE d == obf.data
<1>1. /\ pc = "run" /\ pc' = "run" /\ obf.from = "mouse" /\ obf'.from = "none"
      /\ buffer' = [buffer EXCEPT ![offset] = d] /\ offset' = (offset + 1) % 3
      /\ auxQ' = auxQ
      /\ IF NextOffset = 0 THEN Report(buffer') ELSE UNCHANGED <<move, down, buttons>>
  BY DEF MouseHandler, Irq12, ForMouse, NextOffset, Empty, devices
<1>2. TypeOK /\ offset \in 0 .. 2 /\ auxQ \in Bytes /\ Taken \in Bytes
  BY BytesParts DEF IInv, TypeOK
<1>3. d \in Byte
  BY <1>1, <1>2 DEF TypeOK
<1>4. Held("mouse") = <<d>> /\ Held("mouse")' = << >> /\ InMouse = auxQ /\ InMouse' = auxQ
  BY <1>1 DEF Held, InMouse
<1> HIDE DEF d
<1>5. [i \in 1 .. offset + 1 |-> buffer'[i - 1]] = Taken \o <<d>>
  <2>1. PICK after : after = buffer' /\ after = [buffer EXCEPT ![offset] = d]
    BY <1>1
  <2>2. [i \in 1 .. offset + 1 |-> after[i - 1]] = Taken \o <<d>>
    BY <1>2, <1>3, <2>1, TakenNext
  <2> QED
    BY <2>1, <2>2
<1>6. Taken \o <<d>> \in Bytes /\ Len(Taken \o <<d>>) = offset + 1
  <2>1. <<d>> \in Seq(Byte) /\ Len(<<d>>) = 1
    BY <1>3
  <2>2. Len(Taken) = offset
    BY <1>2, BytesParts
  <2> QED
    BY <1>2, <2>1, <2>2, ConcatProperties DEF Bytes
<1>7. MouseBytes = (Taken \o <<d>>) \o auxQ
  BY <1>4, PartsOfBytes
<1>8. CASE offset # 2
  <2>1. offset' = offset + 1 /\ NextOffset # 0
    BY <1>1, <1>2, <1>8 DEF NextOffset
  <2>2. Taken' = Taken \o <<d>>
    BY <1>5, <2>1 DEF Taken
  <2>3. Taken' \o << >> = Taken'
    BY <1>6, <2>2, Nothing
  <2>4. MouseBytes' = MouseBytes
    BY <1>4, <1>7, <2>2, <2>3, PartsOfBytes
  <2> QED
    BY <1>1, <2>1, <2>4
<1>9. CASE offset = 2
  <2>1. offset' = 0 /\ NextOffset = 0
    BY <1>1, <1>9 DEF NextOffset
  <2>2. Taken' = << >>
    BY <2>1 DEF Taken
  <2>3. MouseBytes' = auxQ
    <3>1. << >> \in Bytes /\ << >> \o << >> = << >> /\ << >> \o auxQ = auxQ
      BY <1>2, Nothing DEF Bytes
    <3> QED
      BY <1>4, <2>2, <3>1, PartsOfBytes
  <2> DEFINE p == Taken \o <<d>>
  <2>4. p \in Bytes /\ Len(p) = 3 /\ MouseBytes = p \o MouseBytes'
    BY <1>6, <1>7, <1>9, <2>3
  <2>5. p[2] = buffer'[1] /\ p[3] = buffer'[2]
    <3>1. p = [i \in 1 .. 3 |-> buffer'[i - 1]]
      BY <1>5, <1>9
    <3> HIDE DEF p
    <3> QED
      BY <3>1
  <2>6. move' = IF buffer'[1] # 0 \/ buffer'[2] # 0
                THEN <<Int8(buffer'[1]), -Int8(buffer'[2])>> ELSE move
    BY <1>1, <2>1 DEF Report
  <2> HIDE DEF p
  <2>7. move' = IF p[2] # 0 \/ p[3] # 0 THEN <<Int8(p[2]), -Int8(p[3])>> ELSE move
    BY <2>5, <2>6
  <2> QED
    BY <1>2, <2>3, <2>4, <2>7
<1> QED
  BY <1>8, <1>9

-----------------------------------------------------------------------------

LEMMA UserStarts == Init => User!Init
<1> SUFFICES ASSUME Init PROVE User!Init
  OBVIOUS
<1>1. /\ pc = "drain" /\ kbdQ = << >> /\ auxQ = << >> /\ offset = 0
      /\ Shift = FALSE /\ key = << >> /\ move = << >>
  BY DEF Init
<1>2. Held("keyboard") = << >> /\ Held("mouse") = << >> /\ InMouse = << >> /\ Taken = << >>
  BY <1>1 DEF Held, InMouse, Taken
<1>3. << >> \o << >> = << >>
  <2>1. << >> \in Bytes
    BY DEF Bytes
  <2> QED
    BY <2>1, Nothing
<1>4. Keys = << >> /\ MouseBytes = << >>
  BY <1>1, <1>2, <1>3, PartsOfBytes DEF Keys
<1>5. Cut(<< >>) = << >>
  <2>1. Len(<< >>) \div 3 = 0 /\ 1 .. 0 = {}
    OBVIOUS
  <2> QED
    BY <2>1 DEF Cut
<1> QED
  BY <1>1, <1>4, <1>5 DEF User!Init, Keys, Cut

(* Every step is one of the user, one of a report, or a stutter.           *)
LEMMA UserSteps ==
  ASSUME MousePrompt, IInv, Framed, Untaken, [Next]_vars
  PROVE  [User!Next]_(User!vars)
<1> DEFINE moves == Cut(MouseBytes)
<1>0. PICK n \in Nat : Len(MouseBytes) = 3 * n /\ MouseBytes \in Bytes
  BY WholePackets
<1>1. ASSUME UNCHANGED vars PROVE UNCHANGED User!vars
  <2>1. UNCHANGED <<obf, kbdQ, auxQ, pc, buffer, offset, Shift, key, move>>
    BY <1>1 DEF vars, devices, keyboard, mouse
  <2>2. Keys' = Keys /\ MouseBytes' = MouseBytes
    BY <2>1 DEF Keys, Held, MouseBytes, Full
  <2> QED
    BY <2>1, <2>2 DEF User!vars, Keys
<1>2. ASSUME NEW c \in Codes, Type(c) PROVE User!Next
  <2>1. Keys' = Append(Keys, c) /\ UNCHANGED <<Shift, key, move>> /\ MouseBytes' = MouseBytes
    BY <1>2, KeyAdded, BytesStay
  <2> QED
    BY <2>1 DEF User!Next, User!Type, Keys
<1>3. ASSUME KeyboardEnable PROVE User!Next
  <2>1. /\ Ack \in Codes \cup {Ack}
        /\ Keys' = Append(Keys, Ack) /\ UNCHANGED <<Shift, key, move>> /\ MouseBytes' = MouseBytes
    BY <1>3, KeyAdded, BytesStay DEF Activate
  <2> QED
    BY <2>1 DEF User!Next, User!Type, Keys
<1>4. ASSUME NEW p \in Packets, Slide(p) PROVE User!Next
  <2>1. p \in Bytes /\ Len(p) = 3
    BY PacketBytes DEF Bytes
  <2>2. MouseBytes' = MouseBytes \o p /\ Keys' = Keys /\ UNCHANGED <<Shift, key, move>>
    BY <1>4, BytesAdded, KeysStay
  <2>3. Cut(MouseBytes)' = Append(Cut(MouseBytes), p)
    <3>1. Cut(MouseBytes \o p) = Append(Cut(MouseBytes), p)
      BY <1>0, <2>1, CutBehind
    <3> QED
      BY <2>2, <3>1 DEF Cut
  <2> QED
    BY <2>2, <2>3 DEF User!Next, User!Slide, Keys, Cut
<1>5. ASSUME KeyboardHandler PROVE User!Next
  <2>1. /\ Keys # << >> /\ Head(Keys) = obf.data /\ Keys' = Tail(Keys) /\ move' = move
        /\ MouseBytes' = MouseBytes
    BY <1>5, KeyTaken, BytesStay
  <2>2. /\ Shift' = (obf.data \in ShiftDown \/ (Shift /\ obf.data \notin ShiftUp))
        /\ key' = IF obf.data \in Printable
                  THEN <<obf.data, Shift /\ obf.data # Space>>
                  ELSE key
    BY <1>5 DEF KeyboardHandler, ShiftAfter
  <2> QED
    BY <2>1, <2>2 DEF User!Next, User!ReportKey, Keys
<1>6. ASSUME MouseHandler PROVE User!Next \/ UNCHANGED User!vars
  <2>1. Keys' = Keys /\ UNCHANGED <<Shift, key>>
    BY <1>6, KeysStay
  <2>2. CASE MouseBytes' = MouseBytes /\ move' = move
    BY <2>1, <2>2 DEF User!vars, Keys
  <2>3. ASSUME NEW p \in Bytes, Len(p) = 3, MouseBytes = p \o MouseBytes', MouseBytes' \in Bytes,
               move' = IF p[2] # 0 \/ p[3] # 0 THEN <<Int8(p[2]), -Int8(p[3])>> ELSE move
        PROVE  User!Next
    <3>1. PICK s \in Bytes : s = MouseBytes'
      BY <2>3
    <3>2. Len(s) = 3 * (n - 1) /\ n - 1 \in Nat
      <4>1. Len(p \o s) = Len(p) + Len(s) /\ Len(s) \in Nat
        BY ConcatProperties DEF Bytes
      <4>2. 3 * n = 3 + Len(s)
        BY <1>0, <2>3, <3>1, <4>1
      <4> QED
        BY <4>1, <4>2
    <3>3. /\ Cut(p \o s) # << >> /\ Head(Cut(p \o s)) = p /\ Tail(Cut(p \o s)) = Cut(s)
      BY <2>3, <3>2, CutInFront
    <3>4. MouseBytes = p \o s
      BY <2>3, <3>1
    <3>5. Cut(MouseBytes)' = Cut(s)
      BY <3>1 DEF Cut
    <3>6. Cut(MouseBytes) # << >> /\ Head(Cut(MouseBytes)) = p
          /\ Cut(MouseBytes)' = Tail(Cut(MouseBytes))
      BY <3>3, <3>4, <3>5
    <3> QED
      BY <2>1, <2>3, <3>6 DEF User!Next, User!ReportMove, Keys, Cut
  <2> QED
    BY <1>6, <2>2, <2>3, ByteTaken
<1>7. ASSUME KeyboardSends \/ MouseSends \/ Drain \/ KeyboardAsk \/ KeyboardSet \/ MouseAsk
               \/ MouseSet \/ MouseEnable \/ MouseAck
      PROVE  UNCHANGED User!vars
  <2>1. Keys' = Keys /\ UNCHANGED <<Shift, key>> /\ MouseBytes' = MouseBytes /\ move' = move
    BY <1>7, KeysStay, BytesStay DEF Activate
  <2> QED
    BY <2>1 DEF User!vars, Keys
<1> QED
  BY <1>1, <1>2, <1>3, <1>4, <1>5, <1>6, <1>7 DEF Next, Activate

(* When the mouse answers before the driver reads, the keys and movements  *)
(* the two devices send, mixed in one buffer and cut into bytes, are       *)
(* reported completely, once and in order.                                 *)
THEOREM AllIsReported ==
  ASSUME MousePrompt
  PROVE  Spec => ImplementsUserInput
<1>1. Init => Untaken
  BY DEF Init, Untaken
<1>2. IInv /\ Framed /\ Untaken /\ [Next]_vars => [User!Next]_(User!vars)
  BY UserSteps
<1> QED
  BY <1>1, <1>2, UserStarts, UntakenSteps, Invariance, PacketsFramed, PTL
     DEF Spec, ImplementsUserInput, User!Spec
=============================================================================

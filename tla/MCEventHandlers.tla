--------------------------- MODULE MCEventHandlers ---------------------------
(* A text screen of 3 by 2 cells and a mouse cursor of 3 bits, which wraps; *)
(* a desktop of 3 by 1 pixels with two windows and a widget in each.        *)
EXTENDS EventHandlers

CONSTANTS front, back

MCChars == {"a", "newline", "umlaut"}
MCOffsets == {-4, -1, 1, 3}
MCScreen == <<3, 1>>
MCWindows == {front, back}
MCSize == [w \in MCWindows |-> IF w = front THEN <<1, 1>> ELSE <<2, 1>>]
MCStart == [w \in MCWindows |-> IF w = front THEN <<0, 0>> ELSE <<1, 0>>]
MCWidgets ==
  [w \in MCWindows |->
     IF w = front THEN <<[at |-> <<0, 0>>, size |-> <<1, 1>>]>>
                  ELSE <<[at |-> <<0, 0>>, size |-> <<1, 1>>]>>]
MCMotions == {-1, 0, 1}
=============================================================================

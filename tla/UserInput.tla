----------------------------- MODULE UserInput ------------------------------
(***************************************************************************)
(* What the keyboard and the mouse driver promise the event handlers: keys *)
(* and movements are reported completely, once, in order, each device by   *)
(* itself.  There are no buttons, no ports, no bytes of a packet and no    *)
(* interrupts here; InputDrivers implements this specification.            *)
(***************************************************************************)
EXTENDS Integers, Sequences

CONSTANTS
  Codes,       \* scan codes the keyboard sends
  Packets,     \* movements the mouse sends: <<flags, dx, dy>>
  Printable,   \* scan codes that have a character
  Space,       \* the one whose character does not depend on shift
  ShiftDown,   \* scan codes of the shift keys going down
  ShiftUp,     \* and coming up again
  Int8(_)      \* the value of a byte taken as signed

VARIABLES
  keys,    \* scan codes not reported yet, the oldest first
  moves,   \* movements not reported yet, the oldest first
  Shift,   \* a shift key is down
  key,     \* what OnKeyDown was last told: <<scan code, shifted>>
  move     \* what OnMouseMove was last told: <<x, y>>

vars == <<keys, moves, Shift, key, move>>

Init ==
  /\ keys = << >>
  /\ moves = << >>
  /\ Shift = FALSE
  /\ key = << >>
  /\ move = << >>

Type(c) ==
  /\ keys' = Append(keys, c)
  /\ UNCHANGED <<moves, Shift, key, move>>

Slide(p) ==
  /\ moves' = Append(moves, p)
  /\ UNCHANGED <<keys, Shift, key, move>>

ReportKey ==
  /\ keys # << >>
  /\ keys' = Tail(keys)
  /\ Shift' = (Head(keys) \in ShiftDown \/ (Shift /\ Head(keys) \notin ShiftUp))
  /\ key' = IF Head(keys) \in Printable
            THEN <<Head(keys), Shift /\ Head(keys) # Space>>
            ELSE key
  /\ UNCHANGED <<moves, move>>

(* Up is positive for the mouse and negative on the screen.                *)
ReportMove ==
  LET dx == Head(moves)[2]
      dy == Head(moves)[3]
  IN  /\ moves # << >>
      /\ moves' = Tail(moves)
      /\ move' = IF dx # 0 \/ dy # 0 THEN <<Int8(dx), -Int8(dy)>> ELSE move
      /\ UNCHANGED <<keys, Shift, key>>

Next ==
  \/ \E c \in Codes : Type(c)
  \/ \E p \in Packets : Slide(p)
  \/ ReportKey
  \/ ReportMove

Spec == Init /\ [][Next]_vars
=============================================================================

------------------------------- MODULE Console -------------------------------
(***************************************************************************)
(* The text console of src/src/kernel.cpp: printf with its cursor, and     *)
(* MouseToConsole with another, on one text buffer at 0xb8000.             *)
(*                                                                         *)
(* A cell of the buffer, VideoMemory[80*y+x], is known by <<x, y>>; its    *)
(* low byte is in text, its high byte, two nibbles, in attr.  What is      *)
(* printed arrives character by character.  Mouse movements may come       *)
(* between any two, which is more than the kernel allows: it prints only   *)
(* with interrupts disabled.                                               *)
(***************************************************************************)
EXTENDS Integers

CONSTANTS
  Cols, Rows,  \* 80 and 25
  Half,        \* an int8_t holds -Half .. Half - 1: 128
  Chars,       \* the characters that are printed
  High,        \* those from 0x80 on: negative as a char
  Blank,       \* ' '
  Leftover,    \* what the boot loader left on the screen
  NewLine,     \* '\n'
  Offsets,     \* movements of the mouse along one axis
  NoMouse      \* MouseToConsole has not been constructed

ASSUME ConsoleAssumption ==
  /\ {Cols, Rows, Half} \subseteq Nat \ {0}
  /\ Cols <= Half /\ Rows <= Half
  /\ NewLine \in Chars \ High /\ Leftover \in Chars
  /\ Offsets \subseteq Int
  /\ NoMouse \notin Int \X Int

VARIABLES
  text,     \* [cell -> character]
  attr,     \* [cell -> <<background, foreground>>]
  cursor,   \* printf's static x and y
  mouse,    \* MouseToConsole's x and y
  cleared   \* history: printf has cleared the screen

consoleVars == <<text, attr, cursor, mouse, cleared>>

Cells == (0 .. Cols - 1) \X (0 .. Rows - 1)

Normal == <<0, 7>>
Swapped(a) == <<a[2], a[1]>>
Spoilt == <<15, 15>>

-----------------------------------------------------------------------------
(* printf, one turn of its loop.                                           *)

Advance(c) ==
  IF c = NewLine \/ cursor[1] + 1 >= Cols
  THEN <<0, cursor[2] + 1>>
  ELSE <<cursor[1] + 1, cursor[2]>>

\* Mutant: the loop that clears misses the last column.
ClearNotLast == [p \in Cells |-> IF p[1] < Cols - 1 THEN Blank ELSE text[p]]

Clear == [p \in Cells |-> Blank]

Written(c) == IF c = NewLine THEN text ELSE [text EXCEPT ![cursor] = c]

(* str[i] is sign-extended before it is or-ed in, over the attributes.     *)
AttrAfter(c) == IF c \in High THEN [attr EXCEPT ![cursor] = Spoilt] ELSE attr

Put(c) ==
  /\ attr' = AttrAfter(c)
  /\ IF Advance(c)[2] >= Rows
     THEN text' = Clear /\ cursor' = <<0, 0>> /\ cleared' = TRUE
     ELSE text' = Written(c) /\ cursor' = Advance(c) /\ UNCHANGED cleared
  /\ UNCHANGED mouse

-----------------------------------------------------------------------------
(* MouseToConsole.                                                         *)

Int8(n) == ((n + Half) % (2 * Half)) - Half

\* Mutant: only the upper bound is checked.
ClampAbove(n, size) == IF n >= size THEN size - 1 ELSE n

Clamp(n, size) ==
  IF n >= size THEN size - 1
  ELSE IF n < 0 THEN 0 ELSE n

Moved(n, offset, size) == Clamp(Int8(n + offset), size)

Invert(a, p) == [a EXCEPT ![p] = Swapped(a[p])]

NewMouse ==
  /\ mouse = NoMouse
  /\ mouse' = <<Cols \div 2, Rows \div 2>>
  /\ attr' = Invert(attr, mouse')
  /\ UNCHANGED <<text, cursor, cleared>>

\* Mutant: a movement that stays in its cell inverts it once only.
MoveOnce(dx, dy) ==
  /\ mouse # NoMouse
  /\ mouse' = <<Moved(mouse[1], dx, Cols), Moved(mouse[2], dy, Rows)>>
  /\ attr' = [p \in Cells |-> IF p \in {mouse, mouse'} THEN Swapped(attr[p])
                                                       ELSE attr[p]]
  /\ UNCHANGED <<text, cursor, cleared>>

Move(dx, dy) ==
  /\ mouse # NoMouse
  /\ mouse' = <<Moved(mouse[1], dx, Cols), Moved(mouse[2], dy, Rows)>>
  /\ attr' = Invert(Invert(attr, mouse), mouse')
  /\ UNCHANGED <<text, cursor, cleared>>

-----------------------------------------------------------------------------

(* The boot loader leaves some text behind, in the usual colours.          *)
ConsoleInit ==
  /\ text = [p \in Cells |-> Leftover]
  /\ attr = [p \in Cells |-> Normal]
  /\ cursor = <<0, 0>>
  /\ mouse = NoMouse
  /\ cleared = FALSE

ConsoleNext ==
  \/ \E c \in Chars : Put(c)
  \/ NewMouse
  \/ \E dx, dy \in Offsets : Move(dx, dy)

ConsoleSpec == ConsoleInit /\ [][ConsoleNext]_consoleVars

-----------------------------------------------------------------------------

(* Types.  Both cursors stay on the screen, although the mouse's is an     *)
(* int8_t that wraps before it is compared with the bounds.                *)
ConsoleTypeOK ==
  /\ text \in [Cells -> Chars \cup {Blank}]
  /\ attr \in [Cells -> {Normal, Swapped(Normal), Spoilt}]
  /\ cursor \in Cells
  /\ mouse \in Cells \cup {NoMouse}
  /\ cleared \in BOOLEAN

(* Of the cells whose attributes no character from 0x80 on has overwritten *)
(* exactly the mouse's is inverted, however printing and movements mix.    *)
MouseCellInverted ==
  \A p \in Cells :
    attr[p] \in {Spoilt, IF p = mouse THEN Swapped(Normal) ELSE Normal}

(* From the first clearing on, printf writes on blank cells only: text is  *)
(* erased by clearing the screen and in no other way.                      *)
BlankAhead ==
  cleared => \A p \in Cells :
               p[2] > cursor[2] \/ (p[2] = cursor[2] /\ p[1] >= cursor[1])
                 => text[p] = Blank

(* A movement small enough not to wrap never takes the cursor the other    *)
(* way: with 80 columns, one of at most 48.                                *)
NeverBackwards ==
  [][\A dx, dy \in Offsets :
       Move(dx, dy) =>
         /\ 0 <= dx /\ dx <= Half - Cols => mouse[1] <= mouse'[1]
         /\ dx <= 0 /\ -dx <= Half => mouse'[1] <= mouse[1]]_consoleVars
=============================================================================

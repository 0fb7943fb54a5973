------------------------------- MODULE Desktop -------------------------------
(***************************************************************************)
(* The graphical user interface: the Desktop, its Windows and the plain    *)
(* Widgets in them (src/src/gui/), drawn through FillRectangle and         *)
(* PutPixel of src/src/drivers/vga.cpp.                                    *)
(*                                                                         *)
(* The mouse and the keyboard driver report from interrupt handlers, each  *)
(* report being one step.  Meanwhile kernelMain draws the desktop over and *)
(* over: one step for the desktop, one for each window with its widgets,   *)
(* one for the cursor, with reports between any two.                       *)
(*                                                                         *)
(* Positions and sizes are pairs <<x, y>>.  A pixel shows the desktop, the *)
(* cursor, a window <<w, 0>>, or <<w, i>>: the i-th widget of window w.    *)
(***************************************************************************)
EXTENDS Integers, Sequences, FiniteSetsExt

CONSTANTS
  Screen,       \* the desktop's size: <<320, 200>>
  Windows,      \* the windows
  Size,         \* [window -> its size]
  Start,        \* [window -> where it is constructed]
  Widgets,      \* [window -> the rectangles [at, size] of its widgets]
  MaxChildren,  \* slots of pChildren: 100
  Arm,          \* length of an arm of the mouse cursor: 4
  Buttons,      \* numbers of the buttons
  Motions,      \* movements of the mouse along one axis
  None          \* no window, no widget

ASSUME DesktopAssumption ==
  /\ Screen \in (Nat \ {0}) \X (Nat \ {0})
  /\ Size \in [Windows -> Nat \X Nat]
  /\ Start \in [Windows -> Int \X Int]
  /\ \A w \in Windows : Widgets[w] \in Seq([at : Int \X Int, size : Nat \X Nat])
  /\ MaxChildren \in Nat
  /\ Motions \subseteq Int
  /\ None \notin Windows

VARIABLES
  pChildren,   \* the desktop's windows, the front one first
  position,    \* [window -> its x and y]
  isDragging,  \* [window -> BOOLEAN]
  isFocusable, \* the widgets that take the focus
  focussed,    \* [window -> index of its focussed widget, or 0]
  pFocussed,   \* the desktop's focussed window
  Mouse,       \* MouseX and MouseY
  held,        \* buttons OnMouseDown was told of and OnMouseUp not yet
  pressed,     \* history: the widget that asked for the focus last
  frame,       \* [pixel -> what it shows]
  todo         \* windows Draw has yet to draw, -1 for the desktop itself

guiVars == <<pChildren, position, isDragging, isFocusable, focussed, pFocussed,
             Mouse, held, pressed>>
desktopVars == <<guiVars, frame, todo>>

Pixels == (0 .. Screen[1] - 1) \X (0 .. Screen[2] - 1)

Plus(p, q) == <<p[1] + q[1], p[2] + q[2]>>
Minus(p, q) == <<p[1] - q[1], p[2] - q[2]>>

-----------------------------------------------------------------------------
(* Who is under the pointer.                                               *)

ContainsCoordinate(at, size, p) ==
  /\ at[1] <= p[1] /\ p[1] < at[1] + size[1]
  /\ at[2] <= p[2] /\ p[2] < at[2] + size[2]

Under(where, w, p) == ContainsCoordinate(where[w], Size[w], p)

Children == {pChildren[i] : i \in 1 .. Len(pChildren)}

(* The first child at p when the windows are where "where" says.           *)
FirstChild(where, p) ==
  LET hit == {i \in 1 .. Len(pChildren) : Under(where, pChildren[i], p)}
  IN  IF hit = {} THEN None ELSE pChildren[Min(hit)]

-----------------------------------------------------------------------------
(* What the kernel and the drivers call.                                   *)

(* CompositeWidget::AddChild returned true.                                *)
AddChild(w) ==
  /\ Len(pChildren) < MaxChildren
  /\ w \notin Children
  /\ pChildren' = Append(pChildren, w)
  /\ UNCHANGED <<position, isDragging, isFocusable, focussed, pFocussed, Mouse,
                 held, pressed>>

Limited(n, size) ==
  IF n < 0 THEN 0
  ELSE IF n >= size THEN size - 1 ELSE n

MovedTo(d) == <<Limited(Mouse[1] + d[1], Screen[1]), Limited(Mouse[2] + d[2], Screen[2])>>

(* Window::OnMouseMove, when the window is told at all.                    *)
Dragged(where, w, by) ==
  IF w # None /\ isDragging[w]
  THEN [where EXCEPT ![w] = Plus(where[w], by)]
  ELSE where

\* Mutant: only the child the pointer comes to is told.
MoveToldLate(d) ==
  LET new == MovedTo(d)
      second == FirstChild(position, new)
  IN  /\ Mouse' = new
      /\ position' = Dragged(position, second, Minus(new, Mouse))
      /\ UNCHANGED <<pChildren, isDragging, isFocusable, focussed, pFocussed, held,
                     pressed>>

(* The child the pointer leaves is told first; where the pointer arrives   *)
(* is looked up after that one has moved.                                  *)
OnMouseMove(d) ==
  LET new == MovedTo(d)
      by == Minus(new, Mouse)
      first == FirstChild(position, Mouse)
      moved == Dragged(position, first, by)
      second == FirstChild(moved, new)
  IN  /\ Mouse' = new
      /\ position' = IF second = first THEN moved ELSE Dragged(moved, second, by)
      /\ UNCHANGED <<pChildren, isDragging, isFocusable, focussed, pFocussed, held,
                     pressed>>

(* The widgets of window w that are under the pointer and take the focus.  *)
Asking(w) ==
  {i \in 1 .. Len(Widgets[w]) :
     /\ <<w, i>> \in isFocusable
     /\ ContainsCoordinate(Widgets[w][i].at, Widgets[w][i].size,
                           Minus(Mouse, position[w]))}

\* Mutant: GetFocus does not tell the parent when it has a focussed child.
FocussedStays(asked) ==
  IF asked = {} \/ pFocussed # None THEN pFocussed ELSE pChildren[Max(asked)]

(* GetFocus goes up to the desktop: the last window to call it remains.    *)
Focussed(asked) == IF asked = {} THEN pFocussed ELSE pChildren[Max(asked)]

(* All children under the pointer are told, in order.                      *)
OnMouseDown(b) ==
  LET hit == {i \in 1 .. Len(pChildren) : Under(position, pChildren[i], Mouse)}
      asked == {i \in hit : Asking(pChildren[i]) # {}}
  IN  /\ held' = held \cup {b}
      /\ isDragging' = [w \in Windows |->
           IF \E i \in hit : pChildren[i] = w THEN b = 1 ELSE isDragging[w]]
      /\ focussed' = [w \in Windows |->
           IF \E i \in asked : pChildren[i] = w THEN Max(Asking(w)) ELSE focussed[w]]
      /\ pFocussed' = Focussed(asked)
      /\ pressed' = IF asked = {} THEN pressed
                    ELSE LET w == pChildren[Max(asked)] IN <<w, Max(Asking(w))>>
      /\ UNCHANGED <<pChildren, position, isFocusable, Mouse>>

OnMouseUp(b) ==
  /\ held' = held \ {b}
  /\ isDragging' = [w \in Windows |->
       isDragging[w] /\ ~(w \in Children /\ Under(position, w, Mouse))]
  /\ UNCHANGED <<pChildren, position, isFocusable, focussed, pFocussed, Mouse, pressed>>

(* The widget a key is passed to, down the path of focussed children.      *)
KeyReceiver ==
  IF pFocussed = None \/ focussed[pFocussed] = 0 THEN None
  ELSE <<pFocussed, focussed[pFocussed]>>

-----------------------------------------------------------------------------
(* Drawing.                                                                *)

Background == <<"desktop", 0>>
Pointer == <<"cursor", 0>>

(* FillRectangle compares X < x+w as unsigned numbers: a rectangle that    *)
(* begins left of or above the screen is not drawn at all.  PutPixel       *)
(* leaves out what is beyond the other edges.                              *)
Filled(at, size, p) == at[1] >= 0 /\ at[2] >= 0 /\ ContainsCoordinate(at, size, p)

(* What Draw of window w puts at p: its widgets after itself, the first    *)
(* one last.  None when it puts nothing there.                             *)
Shown(w, p) ==
  LET drawn == {i \in 1 .. Len(Widgets[w]) :
                  Filled(Plus(position[w], Widgets[w][i].at), Widgets[w][i].size, p)}
  IN  IF drawn # {} THEN <<w, Min(drawn)>>
      ELSE IF Filled(position[w], Size[w], p) THEN <<w, 0>> ELSE None

Cross ==
  {p \in Pixels :
     \/ p[2] = Mouse[2] /\ p[1] - Mouse[1] \in 1 - Arm .. Arm - 1
     \/ p[1] = Mouse[1] /\ p[2] - Mouse[2] \in 1 - Arm .. Arm - 1}

DrawDesktop ==
  /\ todo = -1
  /\ frame' = [p \in Pixels |-> Background]
  /\ todo' = Len(pChildren)

\* Mutant: the children are drawn from the front to the back.
DrawChildForward ==
  /\ todo > 0
  /\ LET w == pChildren[Len(pChildren) + 1 - todo]
     IN  frame' = [p \in Pixels |-> IF Shown(w, p) = None THEN frame[p] ELSE Shown(w, p)]
  /\ todo' = todo - 1

DrawChild ==
  /\ todo > 0
  /\ LET w == pChildren[todo]
     IN  frame' = [p \in Pixels |-> IF Shown(w, p) = None THEN frame[p] ELSE Shown(w, p)]
  /\ todo' = todo - 1

DrawCursor ==
  /\ todo = 0
  /\ frame' = [p \in Pixels |-> IF p \in Cross THEN Pointer ELSE frame[p]]
  /\ todo' = -1

Draw == (DrawDesktop \/ DrawChild \/ DrawCursor) /\ UNCHANGED guiVars

-----------------------------------------------------------------------------

(* Nothing initialises isFocusable: it may have any value.                 *)
DesktopInit ==
  /\ pChildren = << >>
  /\ position = Start
  /\ isDragging = [w \in Windows |-> FALSE]
  /\ isFocusable \in SUBSET UNION {{w} \X (1 .. Len(Widgets[w])) : w \in Windows}
  /\ focussed = [w \in Windows |-> 0]
  /\ pFocussed = None
  /\ Mouse = <<Screen[1] \div 2, Screen[2] \div 2>>
  /\ held = {}
  /\ pressed = None
  /\ frame = [p \in Pixels |-> Background]
  /\ todo = -1

Event ==
  /\ \/ \E w \in Windows : AddChild(w)
     \/ \E d \in Motions \X Motions : OnMouseMove(d)
     \/ \E b \in Buttons : OnMouseDown(b) \/ OnMouseUp(b)
  /\ UNCHANGED <<frame, todo>>

DesktopNext == Event \/ Draw

DesktopSpec == DesktopInit /\ [][DesktopNext]_desktopVars

-----------------------------------------------------------------------------

(* Types.  The pointer never leaves the desktop.                           *)
DesktopTypeOK ==
  /\ pChildren \in Seq(Windows) /\ Len(pChildren) <= MaxChildren
  /\ position \in [Windows -> Int \X Int]
  /\ isDragging \in [Windows -> BOOLEAN]
  /\ pFocussed \in Windows \cup {None}
  /\ \A w \in Windows : focussed[w] \in 0 .. Len(Widgets[w])
  /\ Mouse \in Pixels
  /\ held \subseteq Buttons
  /\ todo \in -1 .. Len(pChildren)

(* The front window is dragged only while button 1 is down and the pointer *)
(* is in it, so that the release finds it there and ends the dragging.  It *)
(* is not so for windows behind others: the pointer can leave those.       *)
FrontWindowFollows ==
  pChildren # << >> /\ isDragging[pChildren[1]] =>
    /\ 1 \in held
    /\ Under(position, pChildren[1], Mouse)

(* A dragged front window keeps its place under the pointer.               *)
FrontKeepsGrip ==
  [][pChildren # << >> /\ isDragging[pChildren[1]] =>
       LET w == pChildren[1]
       IN  Minus(position'[w], position[w]) = Minus(Mouse', Mouse)]_desktopVars

(* Keys go to the widget that asked for the focus last, whichever windows  *)
(* had the focus before, along two links that are set one by one.          *)
KeysReachLastPressed == KeyReceiver = pressed

-----------------------------------------------------------------------------

(* What should be on the screen: at each point the cursor, or what the     *)
(* front window that has something to show there shows.                    *)
Picture ==
  [p \in Pixels |->
     LET showing == {i \in 1 .. Len(pChildren) : Shown(pChildren[i], p) # None}
     IN  IF p \in Cross THEN Pointer
         ELSE IF showing = {} THEN Background
         ELSE Shown(pChildren[Min(showing)], p)]

(* Drawing catches up with the events that came in the middle of it: when  *)
(* they cease, the true picture is on the screen again and again.          *)
ScreenCatchesUp ==
  []<><<TRUE>>_guiVars \/ []<>(frame = Picture)
=============================================================================

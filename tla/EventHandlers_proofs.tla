------------------------- MODULE EventHandlers_proofs -------------------------
(***************************************************************************)
(* Theorems about the two screens, for every size of the screen, every     *)
(* movement of the mouse, and any number of windows and widgets.           *)
(***************************************************************************)
EXTENDS EventHandlers, FiniteSetTheorems, TLAPS

-----------------------------------------------------------------------------
(* The text console.                                                       *)

Attributes == {Normal, Swapped(Normal), Spoilt}

(* Inverting twice restores, and a spoilt cell looks the same inverted.    *)
LEMMA SwappedAttributes ==
  /\ Swapped(Swapped(Normal)) = Normal /\ Swapped(Spoilt) = Spoilt
  /\ \A a \in Attributes : Swapped(a) \in Attributes
<1>1. Swapped(Swapped(Normal)) = Normal /\ Swapped(Spoilt) = Spoilt
  BY DEF Swapped, Normal, Spoilt
<1> QED
  BY <1>1 DEF Attributes

(* A cursor that was moved is on the screen, whatever wrapped.             *)
LEMMA MovedInside ==
  ASSUME NEW n \in Int, NEW offset \in Int, NEW size \in Nat \ {0}
  PROVE  Moved(n, offset, size) \in 0 .. size - 1
<1>1. Int8(n + offset) \in Int
  BY ConsoleAssumption DEF Int8
<1> QED
  BY <1>1 DEF Moved, Clamp

LEMMA OriginOnScreen == <<0, 0>> \in Cells
<1>1. Cols \in Nat \ {0} /\ Rows \in Nat \ {0}
  BY ConsoleAssumption
<1>2. 0 \in 0 .. Cols - 1 /\ 0 \in 0 .. Rows - 1
  BY <1>1
<1> QED
  BY <1>2 DEF Cells

LEMMA ConsoleStarts == ConsoleInit => ConsoleTypeOK /\ MouseCellInverted /\ BlankAhead
<1> SUFFICES ASSUME ConsoleInit PROVE ConsoleTypeOK /\ MouseCellInverted /\ BlankAhead
  OBVIOUS
<1>1. NoMouse \notin Cells
  BY ConsoleAssumption DEF Cells
<1>2. ConsoleTypeOK
  <2>1. text \in [Cells -> Chars \cup {Blank}] /\ attr \in [Cells -> {Normal, Swapped(Normal), Spoilt}]
    BY ConsoleAssumption DEF ConsoleInit
  <2> QED
    BY <2>1, OriginOnScreen DEF ConsoleInit, ConsoleTypeOK
<1>3. MouseCellInverted
  BY <1>1 DEF ConsoleInit, MouseCellInverted
<1>4. BlankAhead
  BY DEF ConsoleInit, BlankAhead
<1> QED
  BY <1>2, <1>3, <1>4

(* Where printf goes on: in the next cell of the line or at the start of   *)
(* the next line.                                                          *)
LEMMA AdvanceFacts ==
  ASSUME ConsoleTypeOK, NEW c \in Chars
  PROVE  LET a == Advance(c)
         IN  /\ a \in Int \X Int
             /\ a[1] \in 0 .. Cols - 1 /\ a[2] \in 0 .. Rows
             /\ \/ a[1] = cursor[1] + 1 /\ a[2] = cursor[2]
                \/ a[1] = 0 /\ a[2] = cursor[2] + 1
BY ConsoleAssumption DEF ConsoleTypeOK, Cells, Advance

LEMMA PutTyped ==
  ASSUME ConsoleTypeOK, NEW c \in Chars, Put(c)
  PROVE  ConsoleTypeOK'
<1>1. attr' \in [Cells -> Attributes]
  BY DEF ConsoleTypeOK, Put, AttrAfter, Attributes
<1>2. mouse' \in Cells \cup {NoMouse}
  BY DEF ConsoleTypeOK, Put
<1>3. CASE Advance(c)[2] >= Rows
  <2>1. text' \in [Cells -> Chars \cup {Blank}]
    BY <1>3 DEF Put, Clear
  <2>2. cursor' \in Cells /\ cleared' \in BOOLEAN
    BY <1>3, OriginOnScreen DEF Put
  <2> QED
    BY <1>1, <1>2, <2>1, <2>2 DEF ConsoleTypeOK, Attributes
<1>4. CASE ~(Advance(c)[2] >= Rows)
  <2>1. text' \in [Cells -> Chars \cup {Blank}]
    BY <1>4 DEF Put, Written, ConsoleTypeOK
  <2>2. cursor' \in Cells
    BY <1>4, AdvanceFacts, ConsoleAssumption DEF Put, Cells
  <2>3. cleared' \in BOOLEAN
    BY <1>4 DEF Put, ConsoleTypeOK
  <2> QED
    BY <1>1, <1>2, <2>1, <2>2, <2>3 DEF ConsoleTypeOK, Attributes
<1> QED
  BY <1>3, <1>4

(* What Move does to the attributes.                                       *)
LEMMA MoveFacts ==
  ASSUME ConsoleTypeOK, NEW dx \in Offsets, NEW dy \in Offsets, Move(dx, dy)
  PROVE  /\ mouse \in Cells /\ mouse' \in Cells
         /\ attr' \in [Cells -> Attributes]
         /\ \A p \in Cells :
              attr'[p] = IF p \in {mouse, mouse'} /\ mouse # mouse'
                         THEN Swapped(attr[p]) ELSE attr[p]
<1>1. mouse \in Cells
  BY DEF ConsoleTypeOK, Move
<1>2. mouse' \in Cells
  <2>1. mouse[1] \in Int /\ mouse[2] \in Int /\ dx \in Int /\ dy \in Int
    BY <1>1, ConsoleAssumption DEF Cells
  <2>2. Moved(mouse[1], dx, Cols) \in 0 .. Cols - 1 /\ Moved(mouse[2], dy, Rows) \in 0 .. Rows - 1
    BY <2>1, MovedInside, ConsoleAssumption
  <2> QED
    BY <2>2 DEF Move, Cells
<1>3. attr \in [Cells -> Attributes]
  BY DEF ConsoleTypeOK, Attributes
<1>4. \A a \in Attributes : Swapped(a) \in Attributes /\ Swapped(Swapped(a)) = a
  BY SwappedAttributes DEF Attributes
<1>5. attr' = Invert(Invert(attr, mouse), mouse')
  BY DEF Move
<1>6. /\ Invert(attr, mouse) \in [Cells -> Attributes]
      /\ \A p \in Cells : Invert(attr, mouse)[p] = IF p = mouse THEN Swapped(attr[p]) ELSE attr[p]
  BY <1>1, <1>3, <1>4 DEF Invert
<1>7. /\ attr' \in [Cells -> Attributes]
      /\ \A p \in Cells : attr'[p] = IF p = mouse' THEN Swapped(Invert(attr, mouse)[p])
                                                   ELSE Invert(attr, mouse)[p]
  BY <1>2, <1>4, <1>5, <1>6 DEF Invert
<1>8. ASSUME NEW p \in Cells
      PROVE  attr'[p] = IF p \in {mouse, mouse'} /\ mouse # mouse'
                        THEN Swapped(attr[p]) ELSE attr[p]
  <2>1. attr[p] \in Attributes
    BY <1>3
  <2> QED
    BY <1>4, <1>6, <1>7, <2>1
<1> QED
  BY <1>1, <1>2, <1>7, <1>8

(* Constructing the handler inverts the middle cell, which is on the screen.*)
LEMMA NewMouseFacts ==
  ASSUME ConsoleTypeOK, NewMouse
  PROVE  /\ mouse = NoMouse /\ mouse' \in Cells
         /\ attr' \in [Cells -> Attributes]
         /\ \A p \in Cells : attr'[p] = IF p = mouse' THEN Swapped(attr[p]) ELSE attr[p]
<1>1. Cols \div 2 \in 0 .. Cols - 1 /\ Rows \div 2 \in 0 .. Rows - 1
  BY ConsoleAssumption
<1>2. mouse = NoMouse /\ mouse' \in Cells
  BY <1>1 DEF NewMouse, Cells
<1>3. attr \in [Cells -> Attributes] /\ attr' = Invert(attr, mouse')
  BY DEF ConsoleTypeOK, Attributes, NewMouse
<1> QED
  BY <1>2, <1>3, SwappedAttributes DEF Invert

LEMMA ConsoleTyped ==
  ASSUME ConsoleTypeOK, ConsoleNext
  PROVE  ConsoleTypeOK'
<1>1. ASSUME NEW c \in Chars, Put(c) PROVE ConsoleTypeOK'
  BY <1>1, PutTyped
<1>2. CASE NewMouse
  BY <1>2, NewMouseFacts DEF ConsoleTypeOK, NewMouse, Attributes
<1>3. ASSUME NEW dx \in Offsets, NEW dy \in Offsets, Move(dx, dy) PROVE ConsoleTypeOK'
  BY <1>3, MoveFacts DEF ConsoleTypeOK, Move, Attributes
<1> QED
  BY <1>1, <1>2, <1>3 DEF ConsoleNext

(* Cells printf may write stay free of the mouse's inversion and vice versa.*)
LEMMA MouseCellKept ==
  ASSUME ConsoleTypeOK, MouseCellInverted, ConsoleNext
  PROVE  MouseCellInverted'
<1>1. ASSUME NEW c \in Chars, Put(c), NEW p \in Cells
      PROVE  attr'[p] \in {Spoilt, IF p = mouse' THEN Swapped(Normal) ELSE Normal}
  <2>1. attr'[p] = attr[p] \/ attr'[p] = Spoilt
    BY <1>1 DEF Put, AttrAfter, ConsoleTypeOK
  <2>2. mouse' = mouse
    BY <1>1 DEF Put
  <2> QED
    BY <2>1, <2>2 DEF MouseCellInverted
<1>2. ASSUME NewMouse, NEW p \in Cells
      PROVE  attr'[p] \in {Spoilt, IF p = mouse' THEN Swapped(Normal) ELSE Normal}
  <2>1. attr[p] \in {Spoilt, Normal}
    <3>1. p # mouse
      BY <1>2, NewMouseFacts, ConsoleAssumption DEF Cells
    <3> QED
      BY <3>1 DEF MouseCellInverted
  <2> QED
    BY <1>2, <2>1, NewMouseFacts, SwappedAttributes
<1>3. ASSUME NEW dx \in Offsets, NEW dy \in Offsets, Move(dx, dy), NEW p \in Cells
      PROVE  attr'[p] \in {Spoilt, IF p = mouse' THEN Swapped(Normal) ELSE Normal}
  <2>1. attr[p] \in {Spoilt, IF p = mouse THEN Swapped(Normal) ELSE Normal}
    BY DEF MouseCellInverted
  <2> QED
    BY <1>3, <2>1, MoveFacts, SwappedAttributes
<1> QED
  BY <1>1, <1>2, <1>3 DEF ConsoleNext, MouseCellInverted

LEMMA BlankAheadKept ==
  ASSUME ConsoleTypeOK, BlankAhead, ConsoleNext
  PROVE  BlankAhead'
<1>1. ASSUME NEW c \in Chars, Put(c), Advance(c)[2] >= Rows
      PROVE  BlankAhead'
  BY <1>1 DEF Put, Clear, BlankAhead
<1>2. ASSUME NEW c \in Chars, Put(c), ~(Advance(c)[2] >= Rows), cleared', NEW p \in Cells,
             p[2] > cursor'[2] \/ (p[2] = cursor'[2] /\ p[1] >= cursor'[1])
      PROVE  text'[p] = Blank
  <2>1. cursor' = Advance(c) /\ cleared /\ text' = Written(c)
    BY <1>2 DEF Put
  <2>2. /\ cursor \in Cells /\ text \in [Cells -> Chars \cup {Blank}]
        /\ cursor[1] \in 0 .. Cols - 1 /\ cursor[2] \in 0 .. Rows - 1
        /\ p[1] \in 0 .. Cols - 1 /\ p[2] \in 0 .. Rows - 1
    BY DEF ConsoleTypeOK, Cells
  <2>3. \/ cursor'[1] = cursor[1] + 1 /\ cursor'[2] = cursor[2]
        \/ cursor'[1] = 0 /\ cursor'[2] = cursor[2] + 1
    BY <2>1, AdvanceFacts
  <2>4. /\ p[2] > cursor[2] \/ (p[2] = cursor[2] /\ p[1] > cursor[1])
    BY <1>2, <2>2, <2>3, ConsoleAssumption
  <2>5. p # cursor /\ text[p] = Blank
    BY <2>1, <2>2, <2>4 DEF BlankAhead
  <2> QED
    BY <2>1, <2>2, <2>5 DEF Written
<1>3. CASE NewMouse \/ \E dx, dy \in Offsets : Move(dx, dy)
  BY <1>3 DEF NewMouse, Move, BlankAhead
<1> QED
  BY <1>1, <1>2, <1>3 DEF ConsoleNext, BlankAhead

(* A movement that does not wrap goes to its own side, or nowhere at an    *)
(* edge.                                                                   *)
LEMMA MovedForward ==
  ASSUME NEW n \in 0 .. Cols - 1, NEW offset \in Int
  PROVE  /\ 0 <= offset /\ offset <= Half - Cols => n <= Moved(n, offset, Cols)
         /\ offset <= 0 /\ -offset <= Half => Moved(n, offset, Cols) <= n
<1>1. Cols \in Nat \ {0} /\ Half \in Nat \ {0} /\ Cols <= Half
  BY ConsoleAssumption
<1>2. ASSUME -Half <= n + offset, n + offset < Half
      PROVE  Int8(n + offset) = n + offset
  <2>1. n + offset + Half \in 0 .. 2 * Half - 1
    BY <1>1, <1>2
  <2>2. (n + offset + Half) % (2 * Half) = n + offset + Half
    BY <1>1, <2>1
  <2> QED
    BY <1>1, <2>2 DEF Int8
<1>3. ASSUME 0 <= offset, offset <= Half - Cols
      PROVE  n <= Moved(n, offset, Cols)
  BY <1>1, <1>2, <1>3 DEF Moved, Clamp
<1>4. ASSUME offset <= 0, -offset <= Half
      PROVE  Moved(n, offset, Cols) <= n
  BY <1>1, <1>2, <1>4 DEF Moved, Clamp
<1> QED
  BY <1>3, <1>4

-----------------------------------------------------------------------------
(* The desktop.                                                            *)

(* A set of indices has a greatest one: of the sets of the indices above   *)
(* another one some is minimal, and that is the empty set.                 *)
LEMMA Greatest ==
  ASSUME NEW n \in Nat, NEW S, S \subseteq 1 .. n, S # {}
  PROVE  \E x \in S : \A y \in S : x >= y
<1> DEFINE Above(i) == {j \in S : j > i}
           T == {Above(i) : i \in S}
<1>1. IsFiniteSet(S)
  <2>1. S \in SUBSET Nat /\ \A s \in S : s <= n
    OBVIOUS
  <2> QED
    BY <2>1, FS_BoundedSetOfNaturals
<1>2. T \subseteq FiniteSubsetsOf(S) /\ T # {}
  <2>1. FiniteSubsetsOf(S) = SUBSET S
    BY <1>1, FS_FiniteSubsetsOfFinite
  <2>2. ASSUME NEW X \in T PROVE X \in SUBSET S
    OBVIOUS
  <2>3. T # {}
    OBVIOUS
  <2> HIDE DEF T
  <2> QED
    BY <2>1, <2>2, <2>3
<1>3. IsWellFoundedOn(StrictSubsetOrdering(S), FiniteSubsetsOf(S))
  BY FS_StrictSubsetOrderingWellFounded
<1> HIDE DEF T
<1>4. PICK X \in T : \A Y \in T : ~(<<Y, X>> \in StrictSubsetOrdering(S))
  BY <1>2, <1>3, WFMin
<1> USE DEF T
<1>5. PICK x \in S : X = Above(x)
  OBVIOUS
<1>6. ASSUME NEW y \in S, y > x PROVE FALSE
  <2>1. y \in Int /\ x \in Int
    OBVIOUS
  <2>2. Above(y) \in T /\ Above(y) \in SUBSET S /\ Above(x) \in SUBSET S
    OBVIOUS
  <2>3. y \in Above(x) /\ y \notin Above(y)
    BY <1>6, <2>1
  <2>4. Above(y) \subseteq Above(x)
    <3> SUFFICES ASSUME NEW z \in S, z > y PROVE z > x
      OBVIOUS
    <3> QED
      BY <1>6, <2>1
  <2> HIDE DEF Above, T
  <2>5. <<Above(y), Above(x)>> \in StrictSubsetOrdering(S)
    BY <2>2, <2>3, <2>4 DEF StrictSubsetOrdering
  <2> QED
    BY <1>4, <1>5, <2>2, <2>5
<1>7. \A y \in S : x >= y
  BY <1>6
<1> QED
  BY <1>7

LEMMA MaxIn ==
  ASSUME NEW n \in Nat, NEW S, S \subseteq 1 .. n, S # {}
  PROVE  Max(S) \in S
BY Greatest DEF Max

LEMMA MinIn ==
  ASSUME NEW n \in Nat, NEW S, S \subseteq 1 .. n, S # {}
  PROVE  Min(S) \in S
<1> DEFINE Mirror == {n + 1 - i : i \in S}
<1>1. Mirror \subseteq 1 .. n /\ Mirror # {}
  <2>1. ASSUME NEW i \in S PROVE n + 1 - i \in 1 .. n
    BY <2>1
  <2>2. Mirror # {}
    OBVIOUS
  <2> QED
    BY <2>1, <2>2
<1>2. PICK m \in Mirror : \A k \in Mirror : m >= k
  <2> HIDE DEF Mirror
  <2> QED
    BY <1>1, Greatest
<1>3. PICK x \in S : m = n + 1 - x
  OBVIOUS
<1>4. ASSUME NEW y \in S PROVE x <= y
  <2>1. n + 1 - x >= n + 1 - y
    BY <1>2, <1>3
  <2> QED
    BY <2>1
<1> QED
  BY <1>3, <1>4 DEF Min

LEMMA MinOne ==
  ASSUME NEW n \in Nat, NEW S, S \subseteq 1 .. n, 1 \in S
  PROVE  Min(S) = 1
<1>1. 1 \in S /\ \A y \in S : 1 <= y
  OBVIOUS
<1>2. ASSUME NEW x \in S, \A y \in S : x <= y
      PROVE  x = 1
  BY <1>2
<1> QED
  BY <1>1, <1>2 DEF Min

(* Only a window the desktop has can have been told of a press.            *)
OnlyChildrenDragged == \A w \in Windows : isDragging[w] => w \in Children

(* Whoever has the focus of the desktop passes keys on.                    *)
FocusGoesOn == pFocussed # None => focussed[pFocussed] # 0

(* What every report leaves true.                                          *)
DesktopInv ==
  /\ DesktopTypeOK
  /\ OnlyChildrenDragged
  /\ FrontWindowFollows
  /\ FocusGoesOn
  /\ KeysReachLastPressed

LEMMA DesktopStarts == DesktopInit => DesktopInv
<1> SUFFICES ASSUME DesktopInit PROVE DesktopInv
  OBVIOUS
<1>1. DesktopTypeOK
  <2>1. pChildren \in Seq(Windows) /\ Len(pChildren) = 0 /\ todo = -1
    BY DEF DesktopInit
  <2>2. \A w \in Windows : focussed[w] = 0 /\ Len(Widgets[w]) \in Nat
    BY DesktopAssumption DEF DesktopInit
  <2>3. Mouse \in Pixels
    <3>1. Screen[1] \in Nat \ {0} /\ Screen[2] \in Nat \ {0}
      BY DesktopAssumption
    <3>2. Screen[1] \div 2 \in 0 .. Screen[1] - 1 /\ Screen[2] \div 2 \in 0 .. Screen[2] - 1
      BY <3>1
    <3> QED
      BY <3>2 DEF DesktopInit, Pixels
  <2> QED
    BY <2>1, <2>2, <2>3, DesktopAssumption DEF DesktopInit, DesktopTypeOK
<1> QED
  BY <1>1 DEF DesktopInit, DesktopInv, OnlyChildrenDragged, FrontWindowFollows,
              FocusGoesOn, KeysReachLastPressed, KeyReceiver

(* What adding a window leaves in place.                                   *)
LEMMA AddChildFacts ==
  ASSUME DesktopTypeOK, NEW w \in Windows, AddChild(w)
  PROVE  /\ pChildren' \in Seq(Windows) /\ Len(pChildren') = Len(pChildren) + 1
         /\ Len(pChildren') <= MaxChildren
         /\ pChildren'[1] = IF pChildren = << >> THEN w ELSE pChildren[1]
         /\ Children \subseteq Children'
<1>1. pChildren \in Seq(Windows) /\ pChildren' = Append(pChildren, w)
  BY DEF DesktopTypeOK, AddChild
<1>2. /\ pChildren' \in Seq(Windows) /\ Len(pChildren') = Len(pChildren) + 1
      /\ \A i \in 1 .. Len(pChildren) : pChildren'[i] = pChildren[i]
      /\ pChildren'[Len(pChildren) + 1] = w
  BY <1>1
<1>3. pChildren # << >> => 1 \in 1 .. Len(pChildren)
  BY <1>1
<1>4. pChildren = << >> => Len(pChildren) = 0
  OBVIOUS
<1>5. pChildren'[1] = IF pChildren = << >> THEN w ELSE pChildren[1]
  BY <1>2, <1>3, <1>4
<1>6. Children \subseteq Children'
  <2> SUFFICES ASSUME NEW i \in 1 .. Len(pChildren) PROVE pChildren[i] \in Children'
    BY DEF Children
  <2>1. i \in 1 .. Len(pChildren') /\ pChildren'[i] = pChildren[i]
    BY <1>1, <1>2
  <2> QED
    BY <2>1 DEF Children
<1>7. Len(pChildren') <= MaxChildren
  BY <1>1, <1>2, DesktopAssumption DEF AddChild
<1> QED
  BY <1>2, <1>5, <1>6, <1>7

LEMMA AddChildKeeps ==
  ASSUME DesktopInv, NEW w \in Windows, AddChild(w), UNCHANGED <<frame, todo>>
  PROVE  DesktopInv'
<1>1. DesktopTypeOK
  BY DEF DesktopInv
<1>2. DesktopTypeOK'
  BY <1>1, AddChildFacts DEF DesktopTypeOK, AddChild, Pixels
<1>3. OnlyChildrenDragged'
  BY <1>1, AddChildFacts DEF DesktopInv, OnlyChildrenDragged, AddChild
<1>4. FrontWindowFollows'
  <2>1. CASE pChildren = << >>
    BY <1>1, <2>1, AddChildFacts DEF DesktopInv, OnlyChildrenDragged, FrontWindowFollows, AddChild
  <2>2. CASE pChildren # << >>
    <3>1. pChildren'[1] = pChildren[1]
      BY <1>1, <2>2, AddChildFacts
    <3> QED
      BY <2>2, <3>1 DEF DesktopInv, FrontWindowFollows, AddChild, Under
  <2> QED
    BY <2>1, <2>2
<1>5. FocusGoesOn' /\ KeysReachLastPressed'
  BY DEF DesktopInv, FocusGoesOn, KeysReachLastPressed, KeyReceiver, AddChild
<1> QED
  BY <1>2, <1>3, <1>4, <1>5 DEF DesktopInv

LEMMA FrontIsChild ==
  ASSUME DesktopTypeOK, pChildren # << >>
  PROVE  1 \in 1 .. Len(pChildren) /\ pChildren[1] \in Windows /\ pChildren[1] \in Children
<1>1. pChildren \in Seq(Windows) /\ 1 \in 1 .. Len(pChildren)
  BY DEF DesktopTypeOK
<1> QED
  BY <1>1 DEF Children

(* The front window is the first child at every point in it.               *)
LEMMA FrontComesFirst ==
  ASSUME DesktopTypeOK, pChildren # << >>, NEW where, NEW p, Under(where, pChildren[1], p)
  PROVE  FirstChild(where, p) = pChildren[1]
<1> DEFINE hit == {i \in 1 .. Len(pChildren) : Under(where, pChildren[i], p)}
<1>1. 1 \in hit /\ hit \subseteq 1 .. Len(pChildren) /\ Len(pChildren) \in Nat
  BY FrontIsChild DEF DesktopTypeOK
<1>2. Min(hit) = 1
  BY <1>1, MinOne
<1> QED
  BY <1>1, <1>2 DEF FirstChild

LEMMA MovedToPixel ==
  ASSUME DesktopTypeOK, NEW d \in Motions \X Motions
  PROVE  MovedTo(d) \in Pixels
<1>1. Screen[1] \in Nat \ {0} /\ Screen[2] \in Nat \ {0} /\ Motions \subseteq Int
  BY DesktopAssumption
<1>2. Mouse[1] \in Int /\ Mouse[2] \in Int
  BY <1>1 DEF DesktopTypeOK, Pixels
<1>3. d[1] \in Int /\ d[2] \in Int
  BY <1>1
<1>4. ASSUME NEW n \in Int, NEW size \in Nat \ {0}
      PROVE  Limited(n, size) \in 0 .. size - 1
  BY DEF Limited
<1>5. Mouse[1] + d[1] \in Int /\ Mouse[2] + d[2] \in Int
  BY <1>2, <1>3
<1>6. Limited(Mouse[1] + d[1], Screen[1]) \in 0 .. Screen[1] - 1
  BY <1>1, <1>4, <1>5
<1>7. Limited(Mouse[2] + d[2], Screen[2]) \in 0 .. Screen[2] - 1
  BY <1>1, <1>4, <1>5
<1> QED
  BY <1>6, <1>7 DEF MovedTo, Pixels

(* A point in the plane, as the movements are computed with it.            *)
LEMMA PlusMinus ==
  /\ \A p, q \in Int \X Int : Plus(p, q) \in Int \X Int /\ Minus(p, q) \in Int \X Int
  /\ \A p, q \in Int \X Int : Minus(Plus(p, q), p) = q
  /\ \A p \in Int \X Int : Minus(p, p) = <<0, 0>>
<1>1. ASSUME NEW p \in Int \X Int, NEW q \in Int \X Int
      PROVE  /\ Plus(p, q) \in Int \X Int /\ Minus(p, q) \in Int \X Int
             /\ Minus(Plus(p, q), p) = q
             /\ Minus(p, p) = <<0, 0>>
  <2>1. p[1] \in Int /\ p[2] \in Int /\ q[1] \in Int /\ q[2] \in Int /\ q = <<q[1], q[2]>>
    OBVIOUS
  <2>2. (p[1] + q[1]) - p[1] = q[1] /\ (p[2] + q[2]) - p[2] = q[2]
    BY <2>1
  <2> QED
    BY <2>1, <2>2 DEF Plus, Minus
<1> QED
  BY <1>1

LEMMA PixelsArePoints == Pixels \subseteq Int \X Int
<1>1. Screen[1] \in Nat /\ Screen[2] \in Nat
  BY DesktopAssumption
<1> QED
  BY <1>1 DEF Pixels

LEMMA DraggedTyped ==
  ASSUME DesktopTypeOK, NEW where \in [Windows -> Int \X Int],
         NEW w \in Windows \cup {None}, NEW by \in Int \X Int
  PROVE  Dragged(where, w, by) \in [Windows -> Int \X Int]
<1>1. CASE w # None /\ isDragging[w]
  <2>1. Plus(where[w], by) \in Int \X Int
    BY <1>1, PlusMinus
  <2> QED
    BY <1>1, <2>1 DEF Dragged
<1>2. CASE ~(w # None /\ isDragging[w])
  BY <1>2 DEF Dragged
<1> QED
  BY <1>1, <1>2

LEMMA FirstChildTyped ==
  ASSUME DesktopTypeOK, NEW where, NEW p
  PROVE  FirstChild(where, p) \in Windows \cup {None}
<1> DEFINE hit == {i \in 1 .. Len(pChildren) : Under(where, pChildren[i], p)}
<1>1. ASSUME hit # {} PROVE Min(hit) \in 1 .. Len(pChildren)
  <2>1. hit \subseteq 1 .. Len(pChildren) /\ Len(pChildren) \in Nat
    BY DEF DesktopTypeOK
  <2> HIDE DEF hit
  <2>2. Min(hit) \in hit
    BY <1>1, <2>1, MinIn
  <2> QED
    BY <2>1, <2>2
<1>2. \A i \in 1 .. Len(pChildren) : pChildren[i] \in Windows
  BY DEF DesktopTypeOK
<1> HIDE DEF hit
<1>3. (IF hit = {} THEN None ELSE pChildren[Min(hit)]) \in Windows \cup {None}
  BY <1>1, <1>2
<1> USE DEF hit
<1> QED
  BY <1>3 DEF FirstChild

(* A dragged front window is the first child where the pointer leaves and  *)
(* where it arrives, so that it is moved once, by as much as the pointer.  *)
LEMMA FrontIsMoved ==
  ASSUME DesktopTypeOK, FrontWindowFollows, NEW d \in Motions \X Motions, OnMouseMove(d),
         pChildren # << >>, isDragging[pChildren[1]]
  PROVE  /\ position'[pChildren[1]] = Plus(position[pChildren[1]], Minus(Mouse', Mouse))
         /\ Under(position', pChildren[1], Mouse')
<1> DEFINE w == pChildren[1]
           by == Minus(MovedTo(d), Mouse)
           moved == Dragged(position, w, by)
<1>1. w \in Windows /\ w # None
  BY FrontIsChild, DesktopAssumption
<1>2. FirstChild(position, Mouse) = w
  BY FrontComesFirst DEF FrontWindowFollows
<1>3. moved = [position EXCEPT ![w] = Plus(position[w], by)]
  BY <1>1 DEF Dragged
<1>4. /\ position \in [Windows -> Int \X Int] /\ Mouse \in Int \X Int /\ MovedTo(d) \in Int \X Int
      /\ Size[w][1] \in Nat /\ Size[w][2] \in Nat
  <2>1. Size[w] \in Nat \X Nat
    BY <1>1, DesktopAssumption
  <2> QED
    BY <2>1, PixelsArePoints, MovedToPixel DEF DesktopTypeOK
<1>5. moved[w] = Plus(position[w], by)
  BY <1>1, <1>3, <1>4
<1>6. Under(moved, w, MovedTo(d))
  <2>1. ContainsCoordinate(position[w], Size[w], Mouse)
    BY DEF FrontWindowFollows, Under
  <2>2. /\ position[w][1] \in Int /\ position[w][2] \in Int /\ Mouse[1] \in Int /\ Mouse[2] \in Int
        /\ MovedTo(d)[1] \in Int /\ MovedTo(d)[2] \in Int
        /\ Size[w][1] \in Int /\ Size[w][2] \in Int
    BY <1>1, <1>4
  <2>3. /\ moved[w][1] = position[w][1] + (MovedTo(d)[1] - Mouse[1])
        /\ moved[w][2] = position[w][2] + (MovedTo(d)[2] - Mouse[2])
    BY <1>5 DEF Plus, Minus
  <2> HIDE DEF w, moved
  <2>4. /\ position[w][1] <= Mouse[1] /\ Mouse[1] < position[w][1] + Size[w][1]
        /\ position[w][2] <= Mouse[2] /\ Mouse[2] < position[w][2] + Size[w][2]
    BY <2>1 DEF ContainsCoordinate
  <2>5. moved[w][1] <= MovedTo(d)[1] /\ MovedTo(d)[1] < moved[w][1] + Size[w][1]
    BY <2>2, <2>3, <2>4
  <2>6. moved[w][2] <= MovedTo(d)[2] /\ MovedTo(d)[2] < moved[w][2] + Size[w][2]
    BY <2>2, <2>3, <2>4
  <2> QED
    BY <2>5, <2>6 DEF Under, ContainsCoordinate
<1>7. FirstChild(moved, MovedTo(d)) = w
  BY <1>6, FrontComesFirst
<1>8. position' = moved /\ Mouse' = MovedTo(d)
  BY <1>2, <1>7 DEF OnMouseMove
<1> QED
  BY <1>5, <1>6, <1>8 DEF Under

LEMMA MoveKeeps ==
  ASSUME DesktopInv, NEW d \in Motions \X Motions, OnMouseMove(d), UNCHANGED <<frame, todo>>
  PROVE  DesktopInv'
<1> DEFINE by == Minus(MovedTo(d), Mouse)
           first == FirstChild(position, Mouse)
           moved == Dragged(position, first, by)
           second == FirstChild(moved, MovedTo(d))
<1>1. DesktopTypeOK
  BY DEF DesktopInv
<1>2. Mouse \in Int \X Int /\ MovedTo(d) \in Pixels /\ by \in Int \X Int
  <2>1. Mouse \in Int \X Int
    BY <1>1, PixelsArePoints DEF DesktopTypeOK
  <2>2. MovedTo(d) \in Pixels
    BY <1>1, MovedToPixel
  <2>3. MovedTo(d) \in Int \X Int
    BY <2>2, PixelsArePoints
  <2> QED
    BY <2>1, <2>2, <2>3, PlusMinus
<1>3. position' \in [Windows -> Int \X Int]
  <2>1. position \in [Windows -> Int \X Int]
    BY <1>1 DEF DesktopTypeOK
  <2>2. first \in Windows \cup {None}
    BY <1>1, FirstChildTyped
  <2>3. moved \in [Windows -> Int \X Int]
    BY <1>1, <1>2, <2>1, <2>2, DraggedTyped
  <2>4. second \in Windows \cup {None}
    BY <1>1, FirstChildTyped
  <2>5. Dragged(moved, second, by) \in [Windows -> Int \X Int]
    BY <1>1, <1>2, <2>3, <2>4, DraggedTyped
  <2>6. position' = IF second = first THEN moved ELSE Dragged(moved, second, by)
    BY DEF OnMouseMove
  <2> QED
    BY <2>3, <2>5, <2>6
<1>4. DesktopTypeOK'
  <2>1. Mouse' = MovedTo(d) /\ Pixels' = Pixels
    BY DEF OnMouseMove, Pixels
  <2> QED
    BY <1>1, <1>2, <1>3, <2>1 DEF DesktopTypeOK, OnMouseMove
<1>5. OnlyChildrenDragged'
  BY DEF DesktopInv, OnlyChildrenDragged, OnMouseMove, Children
<1>6. FrontWindowFollows'
  BY <1>1, FrontIsMoved DEF DesktopInv, FrontWindowFollows, OnMouseMove
<1>7. FocusGoesOn' /\ KeysReachLastPressed'
  BY DEF DesktopInv, FocusGoesOn, KeysReachLastPressed, KeyReceiver, OnMouseMove
<1> QED
  BY <1>4, <1>5, <1>6, <1>7 DEF DesktopInv

LEMMA AskingIndices ==
  ASSUME NEW w \in Windows
  PROVE  /\ Len(Widgets[w]) \in Nat /\ Asking(w) \subseteq 1 .. Len(Widgets[w])
         /\ Asking(w) # {} => Max(Asking(w)) \in 1 .. Len(Widgets[w])
<1>1. Len(Widgets[w]) \in Nat
  BY DesktopAssumption
<1>2. Asking(w) \subseteq 1 .. Len(Widgets[w])
  BY DEF Asking
<1>3. ASSUME Asking(w) # {} PROVE Max(Asking(w)) \in Asking(w)
  BY <1>1, <1>2, <1>3, MaxIn
<1> QED
  BY <1>1, <1>2, <1>3

LEMMA DownKeeps ==
  ASSUME DesktopInv, NEW b \in Buttons, OnMouseDown(b), UNCHANGED <<frame, todo>>
  PROVE  DesktopInv'
<1> DEFINE hit == {i \in 1 .. Len(pChildren) : Under(position, pChildren[i], Mouse)}
           asked == {i \in hit : Asking(pChildren[i]) # {}}
<1>1. DesktopTypeOK /\ Len(pChildren) \in Nat /\ pChildren \in Seq(Windows)
  BY DEF DesktopInv, DesktopTypeOK
<1>2. ASSUME asked # {}
      PROVE  Max(asked) \in asked
  <2>1. asked \subseteq 1 .. Len(pChildren)
    OBVIOUS
  <2> HIDE DEF asked
  <2> QED
    BY <1>1, <1>2, <2>1, MaxIn
<1>3. ASSUME NEW i \in asked
      PROVE  /\ pChildren[i] \in Windows
             /\ Asking(pChildren[i]) # {}
             /\ Max(Asking(pChildren[i])) \in 1 .. Len(Widgets[pChildren[i]])
             /\ Max(Asking(pChildren[i])) # 0
  <2>1. pChildren[i] \in Windows /\ Asking(pChildren[i]) # {}
    BY <1>1
  <2> QED
    BY <2>1, AskingIndices
<1>4. /\ pFocussed' = IF asked = {} THEN pFocussed ELSE pChildren[Max(asked)]
      /\ pressed' = IF asked = {} THEN pressed
                    ELSE <<pChildren[Max(asked)], Max(Asking(pChildren[Max(asked)]))>>
      /\ focussed' = [w \in Windows |->
           IF \E i \in asked : pChildren[i] = w THEN Max(Asking(w)) ELSE focussed[w]]
  BY DEF OnMouseDown, Focussed
<1>5. /\ held' = held \cup {b}
      /\ isDragging' = [w \in Windows |->
           IF \E i \in hit : pChildren[i] = w THEN b = 1 ELSE isDragging[w]]
      /\ UNCHANGED <<pChildren, position, isFocusable, Mouse>>
  BY DEF OnMouseDown
<1>6. DesktopTypeOK'
  <2>1. pFocussed' \in Windows \cup {None}
    BY <1>1, <1>2, <1>3, <1>4 DEF DesktopTypeOK
  <2>2. ASSUME NEW w \in Windows PROVE focussed'[w] \in 0 .. Len(Widgets[w])
    <3>1. CASE \E i \in asked : pChildren[i] = w
      <4>1. focussed'[w] = Max(Asking(w))
        BY <1>4, <3>1
      <4>2. Max(Asking(w)) \in 1 .. Len(Widgets[w])
        BY <1>3, <3>1
      <4>3. Len(Widgets[w]) \in Nat
        BY AskingIndices
      <4> HIDE DEF hit, asked
      <4> QED
        BY <4>1, <4>2, <4>3
    <3>2. CASE ~ \E i \in asked : pChildren[i] = w
      <4>1. focussed'[w] = focussed[w]
        BY <1>4, <3>2
      <4> QED
        BY <1>1, <4>1 DEF DesktopTypeOK
    <3> QED
      BY <3>1, <3>2
  <2>3. isDragging' \in [Windows -> BOOLEAN]
    BY <1>1, <1>5 DEF DesktopTypeOK
  <2>4. Pixels' = Pixels
    BY DEF Pixels
  <2> HIDE DEF hit, asked
  <2> QED
    BY <1>1, <1>5, <2>1, <2>2, <2>3, <2>4 DEF DesktopTypeOK
<1>7. OnlyChildrenDragged'
  <2>1. ASSUME NEW w \in Windows, isDragging'[w] PROVE w \in Children'
    BY <1>5, <2>1 DEF DesktopInv, OnlyChildrenDragged, Children
  <2> QED
    BY <2>1 DEF OnlyChildrenDragged
<1>8. FrontWindowFollows'
  <2> SUFFICES ASSUME pChildren' # << >>, isDragging'[pChildren'[1]]
               PROVE  1 \in held' /\ Under(position', pChildren'[1], Mouse')
    BY DEF FrontWindowFollows
  <2>1. pChildren # << >> /\ isDragging'[pChildren[1]]
    BY <1>5
  <2>2. 1 \in 1 .. Len(pChildren) /\ pChildren[1] \in Windows
    BY <1>1, <2>1, FrontIsChild
  <2>3. Under(position, pChildren[1], Mouse) /\ 1 \in held'
    <3>1. CASE 1 \in hit
      BY <1>5, <2>1, <2>2, <3>1
    <3>2. CASE 1 \notin hit /\ isDragging[pChildren[1]]
      BY <2>1, <2>2, <3>2 DEF DesktopInv, FrontWindowFollows
    <3>3. CASE 1 \notin hit /\ ~isDragging[pChildren[1]]
      <4>1. PICK i \in hit : pChildren[i] = pChildren[1]
        BY <1>5, <2>1, <2>2, <3>3
      <4> QED
        BY <2>2, <3>3, <4>1
    <3> QED
      BY <3>1, <3>2, <3>3
  <2> QED
    BY <1>5, <2>3 DEF Under
<1>9. FocusGoesOn' /\ KeysReachLastPressed'
  <2>1. CASE asked = {}
    <3>1. pFocussed' = pFocussed /\ pressed' = pressed
      BY <1>4, <2>1
    <3>2. pFocussed # None => focussed'[pFocussed] = focussed[pFocussed]
      <4>1. pFocussed \in Windows \cup {None}
        BY <1>1 DEF DesktopTypeOK
      <4> HIDE DEF asked
      <4> QED
        BY <1>4, <2>1, <4>1
    <3> QED
      BY <3>1, <3>2 DEF DesktopInv, FocusGoesOn, KeysReachLastPressed, KeyReceiver
  <2>2. CASE asked # {}
    <3> DEFINE w == pChildren[Max(asked)]
    <3>1. Max(asked) \in asked
      BY <1>2, <2>2
    <3>2. w \in Windows /\ w # None /\ Max(Asking(w)) # 0
      BY <1>3, <3>1, DesktopAssumption
    <3> HIDE DEF asked
    <3>3. pFocussed' = w /\ pressed' = <<w, Max(Asking(w))>> /\ focussed'[w] = Max(Asking(w))
      BY <1>4, <2>2, <3>1, <3>2
    <3> HIDE DEF w
    <3> QED
      BY <3>2, <3>3 DEF FocusGoesOn, KeysReachLastPressed, KeyReceiver
  <2> QED
    BY <2>1, <2>2
<1> QED
  BY <1>6, <1>7, <1>8, <1>9 DEF DesktopInv

LEMMA UpKeeps ==
  ASSUME DesktopInv, NEW b \in Buttons, OnMouseUp(b), UNCHANGED <<frame, todo>>
  PROVE  DesktopInv'
<1>1. DesktopTypeOK
  BY DEF DesktopInv
<1>2. DesktopTypeOK'
  BY <1>1 DEF DesktopTypeOK, OnMouseUp, Pixels
<1>3. \A w \in Windows : isDragging'[w] =>
        isDragging[w] /\ ~(w \in Children /\ Under(position, w, Mouse))
  BY DEF OnMouseUp
<1>4. OnlyChildrenDragged'
  BY <1>3 DEF DesktopInv, OnlyChildrenDragged, OnMouseUp, Children
<1>5. FrontWindowFollows'
  <2> SUFFICES ASSUME pChildren # << >>, isDragging'[pChildren[1]] PROVE FALSE
    BY DEF FrontWindowFollows, OnMouseUp
  <2>1. pChildren[1] \in Windows /\ pChildren[1] \in Children
    BY <1>1, FrontIsChild
  <2> QED
    BY <1>3, <2>1 DEF DesktopInv, FrontWindowFollows
<1>6. FocusGoesOn' /\ KeysReachLastPressed'
  BY DEF DesktopInv, FocusGoesOn, KeysReachLastPressed, KeyReceiver, OnMouseUp
<1> QED
  BY <1>2, <1>4, <1>5, <1>6 DEF DesktopInv

LEMMA DrawKeeps ==
  ASSUME DesktopInv, Draw
  PROVE  DesktopInv'
<1>1. todo' \in -1 .. Len(pChildren)
  BY DEF DesktopInv, DesktopTypeOK, Draw, DrawDesktop, DrawChild, DrawCursor
<1>2. UNCHANGED guiVars
  BY DEF Draw
<1> QED
  BY <1>1, <1>2 DEF guiVars, DesktopInv, DesktopTypeOK, OnlyChildrenDragged, Children,
       FrontWindowFollows, Under, FocusGoesOn, KeysReachLastPressed, KeyReceiver, Pixels

LEMMA DesktopKeeps ==
  ASSUME DesktopInv, DesktopNext
  PROVE  DesktopInv'
BY AddChildKeeps, MoveKeeps, DownKeeps, UpKeeps, DrawKeeps DEF DesktopNext, Event

(* The front window moves exactly as the pointer does.                     *)
LEMMA GripKept ==
  ASSUME DesktopInv, DesktopNext, pChildren # << >>, isDragging[pChildren[1]]
  PROVE  Minus(position'[pChildren[1]], position[pChildren[1]]) = Minus(Mouse', Mouse)
<1> DEFINE w == pChildren[1]
<1>1. DesktopTypeOK /\ FrontWindowFollows
  BY DEF DesktopInv
<1>2. position[w] \in Int \X Int /\ Mouse \in Int \X Int
  BY <1>1, FrontIsChild, PixelsArePoints DEF DesktopTypeOK
<1>3. ASSUME NEW d \in Motions \X Motions, OnMouseMove(d)
      PROVE  Minus(position'[w], position[w]) = Minus(Mouse', Mouse)
  <2>1. position'[w] = Plus(position[w], Minus(Mouse', Mouse))
    BY <1>1, <1>3, FrontIsMoved
  <2>2. Mouse' \in Int \X Int
    BY <1>1, <1>3, MovedToPixel, PixelsArePoints DEF OnMouseMove
  <2>3. Minus(Mouse', Mouse) \in Int \X Int
    BY <1>2, <2>2, PlusMinus
  <2>4. Minus(Plus(position[w], Minus(Mouse', Mouse)), position[w]) = Minus(Mouse', Mouse)
    BY <1>2, <2>3, PlusMinus
  <2> QED
    BY <2>1, <2>4
<1>4. CASE UNCHANGED <<position, Mouse>>
  BY <1>2, <1>4, PlusMinus
<1> QED
  BY <1>3, <1>4 DEF DesktopNext, Event, AddChild, OnMouseDown, OnMouseUp, Draw, guiVars

-----------------------------------------------------------------------------
(* Both builds.                                                            *)

IInv ==
  /\ ConsoleTypeOK
  /\ MouseCellInverted
  /\ BlankAhead
  /\ DesktopInv

LEMMA Starts == Init => IInv
BY ConsoleStarts, DesktopStarts DEF Init, IInv

LEMMA Keeps == IInv /\ [Next]_vars => IInv'
<1> SUFFICES ASSUME IInv, [Next]_vars PROVE IInv'
  OBVIOUS
<1>1. ASSUME UNCHANGED consoleVars
      PROVE  ConsoleTypeOK' /\ MouseCellInverted' /\ BlankAhead'
  BY <1>1 DEF consoleVars, IInv, ConsoleTypeOK, MouseCellInverted, BlankAhead, Cells
<1>2. ASSUME UNCHANGED desktopVars
      PROVE  DesktopInv'
  BY <1>2 DEF desktopVars, guiVars, IInv, DesktopInv, DesktopTypeOK, OnlyChildrenDragged,
       Children, FrontWindowFollows, Under, FocusGoesOn, KeysReachLastPressed, KeyReceiver,
       Pixels
<1>3. CASE ConsoleNext /\ UNCHANGED desktopVars
  BY <1>2, <1>3, ConsoleTyped, MouseCellKept, BlankAheadKept DEF IInv
<1>4. CASE DesktopNext /\ UNCHANGED consoleVars
  BY <1>1, <1>4, DesktopKeeps DEF IInv
<1>5. CASE UNCHANGED vars
  BY <1>1, <1>2, <1>5 DEF vars, IInv
<1> QED
  BY <1>3, <1>4, <1>5 DEF Next

THEOREM Invariance == Spec => []IInv
BY Starts, Keeps, PTL DEF Spec

(* Types: printf and the mouse never leave the screen, whatever they print *)
(* and however far the mouse moves; the focus is on a window there is.     *)
THEOREM Types == Spec => []TypeOK
<1>1. IInv => TypeOK
  BY DEF IInv, DesktopInv, TypeOK
<1> QED
  BY <1>1, Invariance, PTL

(* Inversion and printing leave exactly one inverted cell, the mouse's.    *)
THEOREM OneInverted == Spec => []MouseCellInverted
<1>1. IInv => MouseCellInverted
  BY DEF IInv
<1> QED
  BY <1>1, Invariance, PTL

(* printf writes on blank cells only, once it has cleared the screen.      *)
THEOREM NothingOverwritten == Spec => []BlankAhead
<1>1. IInv => BlankAhead
  BY DEF IInv
<1> QED
  BY <1>1, Invariance, PTL

(* The front window is dragged only with button 1 down and the pointer in  *)
(* it.                                                                     *)
THEOREM FrontFollows == Spec => []FrontWindowFollows
<1>1. IInv => FrontWindowFollows
  BY DEF IInv, DesktopInv
<1> QED
  BY <1>1, Invariance, PTL

(* Keys reach the widget that asked for the focus last.                    *)
THEOREM KeysArrive == Spec => []KeysReachLastPressed
<1>1. IInv => KeysReachLastPressed
  BY DEF IInv, DesktopInv
<1> QED
  BY <1>1, Invariance, PTL

(* A dragged front window keeps its place under the pointer.               *)
THEOREM GripKeeps == Spec => FrontKeepsGrip
<1> DEFINE Grip ==
      pChildren # << >> /\ isDragging[pChildren[1]] =>
        LET w == pChildren[1]
        IN  Minus(position'[w], position[w]) = Minus(Mouse', Mouse)
<1>1. ASSUME IInv, Next PROVE [Grip]_desktopVars
  BY <1>1, GripKept DEF IInv, Next
<1>2. IInv /\ [Next]_vars => [Grip]_desktopVars
  BY <1>1 DEF vars
<1> QED
  BY <1>2, Invariance, PTL DEF Spec, FrontKeepsGrip

(* Movements that do not wrap never take the text cursor the other way.    *)
THEOREM NeverTurns == Spec => NeverBackwards
<1> DEFINE Forward ==
      \A dx, dy \in Offsets :
        Move(dx, dy) =>
          /\ 0 <= dx /\ dx <= Half - Cols => mouse[1] <= mouse'[1]
          /\ dx <= 0 /\ -dx <= Half => mouse'[1] <= mouse[1]
<1>1. ASSUME IInv, NEW dx \in Offsets, NEW dy \in Offsets, Move(dx, dy)
      PROVE  /\ 0 <= dx /\ dx <= Half - Cols => mouse[1] <= mouse'[1]
             /\ dx <= 0 /\ -dx <= Half => mouse'[1] <= mouse[1]
  <2>1. mouse[1] \in 0 .. Cols - 1 /\ dx \in Int
    BY <1>1, MoveFacts, ConsoleAssumption DEF IInv, Cells
  <2>2. mouse'[1] = Moved(mouse[1], dx, Cols)
    BY <1>1 DEF Move
  <2> QED
    BY <2>1, <2>2, MovedForward
<1>2. IInv => [Forward]_consoleVars
  BY <1>1
<1> QED
  BY <1>2, Invariance, PTL DEF NeverBackwards
=============================================================================

---------------------------- MODULE EventHandlers ----------------------------
(***************************************************************************)
(* Who hears of keys and movements: kernelMain of src/src/kernel.cpp hands *)
(* the Desktop to the two input drivers when it is built with GRAPHICSMODE *)
(* and the handlers of the text console when it is not.                    *)
(***************************************************************************)
EXTENDS Console, Desktop

CONSTANT GRAPHICSMODE   \* the builds considered

ASSUME BuildAssumption == GRAPHICSMODE \subseteq BOOLEAN

VARIABLE graphics   \* this build has GRAPHICSMODE

vars == <<graphics, consoleVars, desktopVars>>

Init ==
  /\ graphics \in GRAPHICSMODE
  /\ ConsoleInit
  /\ DesktopInit

Next ==
  /\ UNCHANGED graphics
  /\ \/ ~graphics /\ ConsoleNext /\ UNCHANGED desktopVars
     \/ graphics /\ DesktopNext /\ UNCHANGED consoleVars

Spec == Init /\ [][Next]_vars

(* kernelMain ends in a loop that draws, when there is something to draw.  *)
FairSpec == Spec /\ WF_vars(graphics /\ Draw /\ UNCHANGED <<graphics, consoleVars>>)

(* Types of both.                                                          *)
TypeOK == ConsoleTypeOK /\ DesktopTypeOK

(* What is on the screen catches up with the events, in a graphics build.  *)
DrawingCatchesUp == graphics => ScreenCatchesUp
=============================================================================

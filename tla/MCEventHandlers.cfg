SPECIFICATION FairSpec
CONSTANTS
  Cols = 3
  Rows = 2
  Half = 4
  Chars <- MCChars
  High = {"umlaut"}
  Blank = "blank"
  Leftover = "a"
  NewLine = "newline"
  Offsets <- MCOffsets
  NoMouse = NoMouse
  Screen <- MCScreen
  Windows <- MCWindows
  Size <- MCSize
  Start <- MCStart
  Widgets <- MCWidgets
  MaxChildren = 2
  Arm = 1
  Buttons = {1}
  Motions <- MCMotions
  None = None
  front = front
  back = back
  GRAPHICSMODE = {TRUE, FALSE}
INVARIANTS
  TypeOK
  MouseCellInverted
  BlankAhead
  FrontWindowFollows
  KeysReachLastPressed
PROPERTIES
  DrawingCatchesUp

SPECIFICATION Spec
CONSTANTS
  Codes <- MCCodes
  Packets <- MCPackets
  MousePrompt = TRUE
  KeyboardBuffer = 2
  MouseBuffer = 6
INVARIANT
  ButtonsMirrored

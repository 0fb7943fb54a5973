SPECIFICATION FairSpec
CONSTANTS
  Codes <- MCCodes
  Packets <- MCPackets
  MousePrompt = TRUE
  KeyboardBuffer = 2
  MouseBuffer = 4
INVARIANTS
  TypeOK
  BothHeard
  Framed
PROPERTIES
  BytesTaken
  ImplementsUserInput

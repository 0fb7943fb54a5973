SPECIFICATION FairKernelSpec
CONSTANTS
  Managers = {m1}
  Handlers = {h1, h2}
  NULL = NULL
  IRQ_BASE = 32
  hardwareInterruptOffset = 32
  Lines <- MCLines
  Slots <- MCSlots
  Traps <- MCTraps
INVARIANTS
  IInv
  Acknowledged
  NoDanglingHandler
PROPERTIES
  OthersStayRegistered
  RequestsServed

SPECIFICATION Spec
CONSTANTS
  t1 = t1
  t2 = t2
  Main = Main
  NoTask = NoTask
  MaxTasks = 2
  Tasks <- MCTasks
  Depth = 17
  Entry <- MCEntry
  Addresses <- MCAddresses
  Registers <- MCRegisters
  CodeSegment = 16
  Irqs <- MCIrqs
  Exceptions <- MCAllExceptions
  Junk <- MCJunk
PROPERTIES
  Transparent

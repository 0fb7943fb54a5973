SPECIFICATION FairSpec
CONSTANTS
  t1 = t1
  t2 = t2
  t3 = t3
  Main = Main
  NoTask = NoTask
  MaxTasks = 3
  Tasks <- MCTasks
  Stack <- MCStack
  First <- MCFirst
INVARIANTS
  TypeOK
  OnOwnStack
PROPERTIES
  EveryTaskRuns
  ImplementsRoundRobin

SPECIFICATION Spec
CONSTANTS
  t1 = t1
  t2 = t2
  MaxId = 2
  Body <- TwoBodies
  Tasks <- TwoTasks
  Stoppable <- NoTask
  Handlers <- TwoTasks
  Capacities <- SomeCapacities
  NilSessions = FALSE
INVARIANTS
  AckAfterProcessing
  CallsInOrder
  NoMessageSkipped
PROPERTY ImplementsAtLeastOnce

SPECIFICATION Spec
CONSTANTS
  t1 = t1
  t2 = t2
  MaxId = 3
  Body <- ManyBodies
  Tasks <- OneTask
  Stoppable <- OneTask
  Handlers <- NoTask
  Capacities <- SomeCapacities
  NilSessions = TRUE
INVARIANTS
  CleanStop
  EmptyPollHasStatistics
  ScalerUpToDate

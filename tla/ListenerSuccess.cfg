SPECIFICATION SuccessSpec
CONSTANTS
  t1 = t1
  t2 = t2
  MaxId = 2
  Body <- LiveBodies
  Tasks <- OneTask
  Stoppable <- OneTask
  Handlers <- NoTask
  Capacities = {0}
  NilSessions = FALSE
PROPERTY AllAcknowledged

SPECIFICATION EndSpec
CONSTANTS
  t1 = t1
  t2 = t2
  MaxId = 2
  Body <- ShortBodies
  Tasks <- OneTask
  Stoppable <- OneTask
  Handlers <- NoTask
  Capacities = {1, 2}
  NilSessions = FALSE
PROPERTIES
  StopHonoured
  CapacityTakesEffect

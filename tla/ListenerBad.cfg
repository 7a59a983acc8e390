SPECIFICATION Spec
CONSTANTS
  t1 = t1
  t2 = t2
  MaxId = 3
  Body <- BadBodies
  Tasks <- OneTask
  Stoppable <- OneTask
  Handlers <- OneTask
  Capacities = {0}
  NilSessions = FALSE
INVARIANTS
  NoMessageSkipped

SPECIFICATION Spec
CONSTANTS
  None = None
  Statuses <- MCStatuses
  MaxLabels = 2
  MaxBatch = 3
  Hours = {0, 12}
CHECK_DEADLOCK FALSE
INVARIANTS
  ExpiredMeansTwice
  FailureKeepsItsCause
  BatchComplete
  LookupExact
  ScaleSetSent

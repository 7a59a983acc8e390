SPECIFICATION Spec
CONSTANTS
  U32Max <- U32
  RetryMaxes <- SomeRetryMaxes
  WaitCaps <- SomeWaitCaps
  RetryAfters <- SomeRetryAfters
  None = None
INVARIANTS
  AttemptsBounded
  ResultIsLastOutcome
  SleepBounded
PROPERTIES
  OnlyRetryableRepeated

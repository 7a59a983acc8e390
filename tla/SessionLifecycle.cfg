SPECIFICATION Spec
CONSTANTS
  k1 = k1
  k2 = k2
  Clients <- TwoClients
  RetryMax = 1
  MaxSessions = 3
INVARIANTS
  ClosedIsGone
  NothingLeftBehind
  LeftoversBounded
CHECK_DEADLOCK FALSE

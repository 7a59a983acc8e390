SPECIFICATION FairSpec
CONSTANTS
  poll = poll
  acquire = acquire
  api = api
  Callers <- SessionCallers
  Acquirers <- AcquireOnly
  Others <- ApiCalls
  Nobody = Nobody
  MaxToken = 1
  App = TRUE
  Margin = 0
  Lifetimes = {0, 1}
  MaxTime = 1
  MaxGrants = 1
INVARIANT LockOrder
PROPERTIES
  SessionCallsEnd
  ApiCallsEnd
  ImplementsSession

SPECIFICATION Spec
CONSTANTS
  None = None
  Urls <- MCUrls
  Payloads <- MCPayloads
  Bases <- MCBases
  CallPaths <- MCCallPaths
  Queries <- MCQueries
CHECK_DEADLOCK FALSE
INVARIANTS
  OneServer
  ScopeUnambiguous
  DecodeExact
  CallUrlExact

SPECIFICATION Spec
CONSTANTS
  c1 = c1
  c2 = c2
  c3 = c3
  Callers <- ThreeCallers
  Nobody = Nobody
  MaxToken = 3
SYMMETRY AnyOrder
INVARIANTS
  TypeOK
  SecondAttemptIsFresh
PROPERTIES
  NoLiveTokenReplaced
  SessionNeverRegresses

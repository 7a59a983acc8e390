SPECIFICATION Spec
CONSTANTS
  c1 = c1
  c2 = c2
  c3 = c3
  Callers <- ThreeCallers
  Nobody = Nobody
  App = TRUE
  Margin = 1
  Lifetimes = {1, 3}
  MaxTime = 4
  MaxGrants = 3
SYMMETRY AnyOrder
INVARIANTS
  TypeOK
  UrlAndTokenMatch
  HeaderMargin
PROPERTIES
  OnlyStaleReplaced
  ConnectionNeverRegresses
